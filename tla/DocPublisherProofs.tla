------------------------ MODULE DocPublisherProofs ------------------------
(***************************************************************************)
(* Proofs about DocPublisher, for any number of threads and any bounds.    *)
(***************************************************************************)
EXTENDS DocPublisher, TLAPS

LEMMA InitType == Init => TypeOK
<1> SUFFICES ASSUME Init PROVE TypeOK
  OBVIOUS
<1>1. views \in ViewsType
  BY DocPublisherAssumption DEF Init, ViewsType
<1>2. build \in [Pumps -> [pc : {"idle", "lock", "clear", "read", "store"},
                           read : ViewsType, generation : Nat]]
  BY <1>1 DEF Init
<1>3. current \in [generation : Nat, of : ViewsType] /\ failures \in 0..MaxFailures
  BY <1>1, DocPublisherAssumption DEF Init
<1> QED
  BY <1>1, <1>2, <1>3 DEF Init, TypeOK

(* One build's record after it has moved on. *)
LEMMA ReachedType ==
  ASSUME TypeOK, NEW p \in Pumps, NEW pc \in {"idle", "lock", "clear", "read", "store"},
         Reached(p, pc)
  PROVE  /\ build' \in [Pumps -> [pc : {"idle", "lock", "clear", "read", "store"},
                                  read : ViewsType, generation : Nat]]
         /\ build'[p].pc = pc
         /\ build'[p].read = build[p].read /\ build'[p].generation = build[p].generation
         /\ \A q \in Pumps \ {p} : build'[q] = build[q]
BY DEF TypeOK, Reached

LEMMA NextType ==
  ASSUME TypeOK, [Next]_vars
  PROVE  TypeOK'
<1> USE DocPublisherAssumption
<1>1. CASE UNCHANGED vars
  BY <1>1 DEF TypeOK, vars, inputs, building
<1>2. ASSUME NEW t \in Changers, Swap(t)
      PROVE  TypeOK'
  BY <1>2 DEF TypeOK, ViewsType, Swap, building
<1>3. ASSUME NEW t \in Changers, Request(t) \/ Arm(t)
      PROVE  TypeOK'
  <2>1. request' \in [Changers -> {"idle", "request", "arm"}]
    BY <1>3 DEF TypeOK, Request, Arm
  <2>2. timer' \in BOOLEAN /\ pending' \in BOOLEAN
    BY <1>3, Zenon DEF TypeOK, Request, Arm, SchedulerRuns
  <2> QED
    BY <1>3, <2>1, <2>2 DEF TypeOK, Request, Arm, building
<1>4. CASE TimerFires
  <2>1. jobs' \in Nat
    BY <1>4 DEF TypeOK, TimerFires
  <2>2. timer' \in BOOLEAN /\ pending' \in BOOLEAN
    BY <1>4, Zenon DEF TypeOK, TimerFires, PumpRuns
  <2> QED
    BY <1>4, <2>1, <2>2 DEF TypeOK, TimerFires, inputs, building
<1>5. ASSUME NEW p \in Pumps, Take(p)
      PROVE  TypeOK'
  BY <1>5, ReachedType DEF TypeOK, Take, inputs
<1>6. ASSUME NEW p \in Pumps, BuildLock(p) \/ Clear(p)
      PROVE  TypeOK'
  BY <1>6, ReachedType DEF TypeOK, BuildLock, Clear, inputs
<1>7. ASSUME NEW p \in Pumps, ReadInputs(p)
      PROVE  TypeOK'
  <2>1. build' \in [Pumps -> [pc : {"idle", "lock", "clear", "read", "store"},
                              read : ViewsType, generation : Nat]]
    <3>1. CASE Reached(p, "idle")
      BY <3>1, ReachedType
    <3>2. CASE build' = [build EXCEPT ![p] = [pc |-> "store", read |-> views,
                                              generation |-> current.generation + 1]]
      BY <3>2 DEF TypeOK
    <3> QED  BY <1>7, <3>1, <3>2 DEF ReadInputs
  <2> QED
    BY <1>7, <2>1 DEF TypeOK, ReadInputs, Unlocked, inputs
<1>8. ASSUME NEW p \in Pumps, Store(p)
      PROVE  TypeOK'
  BY <1>8, ReachedType DEF TypeOK, Store, Unlocked, inputs
<1>9. CASE SchedulerStop \/ PumpStop
  <2>1. jobs' \in Nat /\ stage' \in {"running", "unscheduled", "stopped"}
    BY <1>9 DEF TypeOK, SchedulerStop, PumpStop
  <2>2. timer' \in BOOLEAN
    BY <1>9, Zenon DEF TypeOK, SchedulerStop, PumpStop
  <2> QED
    BY <1>9, <2>1, <2>2 DEF TypeOK, SchedulerStop, PumpStop, inputs, building
<1> QED
  BY <1>1, <1>2, <1>3, <1>4, <1>5, <1>6, <1>7, <1>8, <1>9 DEF Next, Rebuild

(* Every reachable state of the publisher is well typed. *)
THEOREM TypeCorrect == Spec => []TypeOK
<1>1. TypeOK /\ [Next]_vars => TypeOK'
  BY NextType
<1> QED
  BY <1>1, InitType, PTL DEF Spec

---------------------------------------------------------------------------
(* The invariant behind NoLostChange and NeverBack *)

(* What the changers and the timer do leaves the builds alone, and nothing *)
(* they do takes away the last sign of a build to come.                    *)
LEMMA ChangerBuilding ==
  ASSUME TypeOK, Building, NEW t \in Changers, Swap(t) \/ Request(t) \/ Arm(t)
  PROVE  Building'
<1>1. UNCHANGED <<builder, build, current, failures, stage, jobs>>
  BY DEF Swap, Request, Arm, building
<1>2. OneBuild'
  BY <1>1 DEF Building, OneBuild
<1>3. StoresAhead'
  <2>1. CASE Swap(t)
    <3>1. views'.swaps = views.swaps + 1 /\ views.swaps \in Nat
      BY <2>1, DocPublisherAssumption DEF Swap, TypeOK, ViewsType
    <3>2. current.of \in ViewsType /\ \A p \in Pumps : build[p].read \in ViewsType
      BY DEF TypeOK
    <3> QED
      BY <1>1, <3>1, <3>2, DocPublisherAssumption DEF Building, StoresAhead, NotNewer, ViewsType
  <2>2. CASE UNCHANGED views
    BY <1>1, <2>2 DEF Building, StoresAhead, NotNewer
  <2> QED  BY <2>1, <2>2 DEF Swap, Request, Arm
<1>4. CASE Swap(t)
  <2>1. request'[t] = "request" /\ UNCHANGED <<pending, timer>>
    BY <1>4 DEF Swap, TypeOK
  <2>2. \A u \in Changers : request[u] = "arm" => request'[u] = "arm"
    BY <1>4 DEF Swap, TypeOK
  <2>3. PendingComes'
    BY <1>1, <2>1, <2>2 DEF Building, PendingComes
  <2>4. StoresComeLast' /\ NoLostChange'
    BY <2>1 DEF StoresComeLast, NoLostChange, AnotherComes, BuildComing
  <2> QED  BY <1>2, <1>3, <2>3, <2>4 DEF Building
<1>5. CASE Request(t)
  <2>1. UNCHANGED <<views, timer>> /\ pending'
    BY <1>5 DEF Request
  <2>2. \A u \in Changers : u # t => request'[u] = request[u]
    BY <1>5 DEF Request, TypeOK
  <2>3. request[t] = "request" /\ request'[t] = IF pending THEN "idle" ELSE "arm"
    BY <1>5 DEF Request, TypeOK
  <2>4. stage = "running" =>
          \/ \E u \in Changers : request'[u] = "arm"
          \/ timer \/ jobs > 0
          \/ \E p \in Pumps : build[p].pc \in {"lock", "clear"}
    BY <2>2, <2>3 DEF Building, PendingComes
  <2>5. PendingComes'
    BY <1>1, <2>1, <2>4 DEF PendingComes
  <2>6. StoresComeLast' /\ NoLostChange'
    BY <1>1, <2>1, <2>4 DEF StoresComeLast, NoLostChange, AnotherComes, BuildComing
  <2> QED  BY <1>2, <1>3, <2>5, <2>6 DEF Building
<1>6. CASE Arm(t)
  <2>1. stage = "running" => timer'
    BY <1>6 DEF Arm, SchedulerRuns
  <2>2. PendingComes' /\ StoresComeLast' /\ NoLostChange'
    BY <1>1, <2>1 DEF PendingComes, StoresComeLast, NoLostChange, AnotherComes, BuildComing
  <2> QED  BY <1>2, <1>3, <2>2 DEF Building
<1> QED  BY <1>4, <1>5, <1>6

LEMMA TimerBuilding ==
  ASSUME TypeOK, Building, TimerFires
  PROVE  Building'
<1>1. UNCHANGED <<views, request, builder, build, current, failures, stage>>
  BY DEF TimerFires, inputs, building
<1>2. stage = "running" => jobs' > 0
  BY DEF TimerFires, PumpRuns, TypeOK
<1>3. OneBuild' /\ StoresAhead'
  BY <1>1 DEF Building, OneBuild, StoresAhead, NotNewer
<1>4. PendingComes' /\ StoresComeLast' /\ NoLostChange'
  BY <1>1, <1>2 DEF PendingComes, StoresComeLast, NoLostChange, AnotherComes, BuildComing
<1> QED  BY <1>3, <1>4 DEF Building

LEMMA StopBuilding ==
  ASSUME TypeOK, Building, SchedulerStop \/ PumpStop
  PROVE  Building'
<1>1. UNCHANGED <<views, builder, build, current>> /\ stage' # "running"
  BY DEF SchedulerStop, PumpStop, inputs, building
<1>2. OneBuild' /\ StoresAhead'
  BY <1>1 DEF Building, OneBuild, StoresAhead, NotNewer
<1> QED
  BY <1>1, <1>2 DEF Building, PendingComes, StoresComeLast, NoLostChange

(* A pump thread that takes a job is the sign of the build to come.        *)
LEMMA TakeBuilding ==
  ASSUME TypeOK, Building, NEW p \in Pumps, Take(p)
  PROVE  Building'
<1>1. UNCHANGED <<views, request, pending, timer, builder, current, failures, stage>>
  BY DEF Take, inputs
<1>2. build'[p].pc = "lock" /\ \A q \in Pumps \ {p} : build'[q] = build[q]
  BY ReachedType DEF Take
<1>3. OneBuild' /\ StoresAhead'
  BY <1>1, <1>2 DEF Building, OneBuild, StoresAhead, NotNewer
<1>4. PendingComes' /\ StoresComeLast' /\ NoLostChange'
  BY <1>2 DEF PendingComes, StoresComeLast, NoLostChange, AnotherComes, BuildComing
<1> QED  BY <1>3, <1>4 DEF Building

(* Whoever gets the mutex finds no other build between clear and store.    *)
LEMMA LockBuilding ==
  ASSUME TypeOK, Building, NEW p \in Pumps, BuildLock(p)
  PROVE  Building'
<1>1. UNCHANGED <<views, request, pending, timer, jobs, current, failures, stage>>
  BY DEF BuildLock, inputs
<1>2. build'[p].pc = "clear" /\ \A q \in Pumps \ {p} : build'[q] = build[q]
  BY ReachedType DEF BuildLock
<1>3. builder = None /\ builder' = p
  BY DEF BuildLock
<1>4. OneBuild'
  BY <1>2, <1>3, DocPublisherAssumption DEF Building, OneBuild
<1>5. StoresAhead'
  BY <1>1, <1>2 DEF Building, StoresAhead, NotNewer
<1>6. PendingComes' /\ StoresComeLast' /\ NoLostChange'
  BY <1>2 DEF PendingComes, StoresComeLast, NoLostChange, AnotherComes, BuildComing
<1> QED  BY <1>4, <1>5, <1>6 DEF Building

(* Clearing m_pending before the read, not after it, is what lets a later  *)
(* change ask for a build of its own.                                      *)
LEMMA ClearBuilding ==
  ASSUME TypeOK, Building, NEW p \in Pumps, Clear(p)
  PROVE  Building'
<1>1. UNCHANGED <<views, request, timer, jobs, builder, current, failures, stage>> /\ ~pending'
  BY DEF Clear, inputs
<1>2. build'[p].pc = "read" /\ build[p].pc = "clear"
  BY ReachedType DEF Clear
<1>3. \A q \in Pumps \ {p} : build'[q] = build[q]
  BY ReachedType DEF Clear
<1>4. OneBuild' /\ StoresAhead'
  BY <1>1, <1>2, <1>3 DEF Building, OneBuild, StoresAhead, NotNewer
<1>5. PendingComes'
  BY <1>1 DEF PendingComes
<1>6. StoresComeLast' /\ NoLostChange'
  BY <1>2 DEF StoresComeLast, NoLostChange, AnotherComes, BuildComing
<1> QED  BY <1>4, <1>5, <1>6 DEF Building

LEMMA ReadBuilding ==
  ASSUME TypeOK, Building, NEW p \in Pumps, ReadInputs(p)
  PROVE  Building'
<1>1. UNCHANGED <<views, request, pending, timer, jobs, current, stage>>
  BY DEF ReadInputs, inputs
<1>2. build[p].pc = "read"
  BY DEF ReadInputs
<1>3. \A q \in Pumps \ {p} : build[q].pc \notin {"clear", "read", "store"}
  BY <1>2 DEF Building, OneBuild
<1>4. \A q \in Pumps \ {p} : build'[q] = build[q]
  BY ReachedType DEF ReadInputs, TypeOK
<1>5. PendingComes'
  <2>1. build'[p].pc # "lock" /\ \A q \in Pumps :
          build[q].pc \in {"lock", "clear"} => build'[q].pc \in {"lock", "clear"}
    BY <1>2, <1>4, ReachedType DEF ReadInputs, TypeOK
  <2> QED  BY <1>1, <2>1 DEF Building, PendingComes
<1>6. CASE build'[p].pc = "idle" /\ (views.shows = current.of.shows \/ failures' > 0)
  <2>1. OneBuild' /\ StoresAhead' /\ StoresComeLast'
    BY <1>1, <1>3, <1>4, <1>6
       DEF Building, OneBuild, StoresAhead, NotNewer, StoresComeLast
  <2>2. NoLostChange'
    BY <1>1, <1>6, DocPublisherAssumption DEF NoLostChange, TypeOK
  <2> QED  BY <1>5, <2>1, <2>2 DEF Building
<1>7. CASE /\ build'[p] = [pc |-> "store", read |-> views, generation |-> current.generation + 1]
           /\ views.shows # current.of.shows /\ UNCHANGED <<builder, failures>>
  <2>1. OneBuild'
    BY <1>2, <1>3, <1>4, <1>7 DEF Building, OneBuild
  <2>2. views.swaps > current.of.swaps
    <3>1. views.swaps \in Nat /\ current.of.swaps \in Nat
      BY DocPublisherAssumption DEF TypeOK, ViewsType
    <3>2. current.of.swaps <= views.swaps /\ current.of # views
      BY <1>7 DEF Building, StoresAhead, NotNewer
    <3>3. current.of.swaps # views.swaps
      BY <3>2 DEF Building, StoresAhead, NotNewer
    <3> QED  BY <3>1, <3>2, <3>3
  <2>3. StoresAhead'
    BY <1>1, <1>3, <1>4, <1>7, <2>2 DEF Building, StoresAhead, NotNewer, TypeOK, ViewsType
  <2>4. StoresComeLast' /\ NoLostChange'
    BY <1>1, <1>3, <1>4, <1>7 DEF StoresComeLast, NoLostChange, BuildComing
  <2> QED  BY <1>5, <2>1, <2>3, <2>4 DEF Building
<1>8. \/ build'[p].pc = "idle" /\ (views.shows = current.of.shows \/ failures' > 0)
      \/ /\ build'[p] = [pc |-> "store", read |-> views, generation |-> current.generation + 1]
         /\ views.shows # current.of.shows /\ UNCHANGED <<builder, failures>>
  <2>1. failures \in Nat
    BY DocPublisherAssumption DEF TypeOK
  <2> QED  BY <2>1, ReachedType DEF ReadInputs, TypeOK
<1> QED  BY <1>6, <1>7, <1>8

(* The store: what is replaced is older, and if the views have moved on,   *)
(* another build is coming.                                                *)
LEMMA StoreBuilding ==
  ASSUME TypeOK, Building, NEW p \in Pumps, Store(p)
  PROVE  Building'
<1>1. UNCHANGED <<views, request, pending, timer, jobs, failures, stage>>
  BY DEF Store, inputs
<1>2. /\ build[p].pc = "store" /\ build'[p].pc = "idle"
      /\ \A q \in Pumps \ {p} : build'[q] = build[q]
  BY ReachedType DEF Store
<1>3. \A q \in Pumps \ {p} : build[q].pc \notin {"clear", "read", "store"}
  BY <1>2 DEF Building, OneBuild
<1>4. current'.of = build[p].read
  BY DEF Store
<1>5. OneBuild' /\ StoresAhead'
  BY <1>1, <1>2, <1>3, <1>4 DEF Building, OneBuild, StoresAhead, NotNewer
<1>6. PendingComes'
  BY <1>1, <1>2 DEF Building, PendingComes
<1>7. StoresComeLast'
  BY <1>2, <1>3 DEF StoresComeLast
<1>8. NoLostChange'
  <2>1. stage = "running" /\ build[p].read.shows # views.shows => AnotherComes
    BY <1>2 DEF Building, StoresComeLast
  <2>2. AnotherComes => AnotherComes'
    BY <1>1, <1>2 DEF AnotherComes
  <2> QED  BY <1>1, <1>4, <2>1, <2>2 DEF NoLostChange, AnotherComes, BuildComing
<1> QED  BY <1>5, <1>6, <1>7, <1>8 DEF Building

LEMMA NextBuilding ==
  ASSUME TypeOK, Building, [Next]_vars
  PROVE  Building'
<1>1. CASE UNCHANGED vars
  BY <1>1 DEF vars, inputs, building, Building, OneBuild, PendingComes, StoresComeLast,
              AnotherComes, StoresAhead, NotNewer, NoLostChange, BuildComing
<1>2. CASE Next
  BY <1>2, ChangerBuilding, TimerBuilding, StopBuilding, TakeBuilding, LockBuilding,
     ClearBuilding, ReadBuilding, StoreBuilding DEF Next, Rebuild
<1> QED  BY <1>1, <1>2

LEMMA InitBuilding == Init => TypeOK /\ Building
<1>1. Init => Building
  BY DocPublisherAssumption
     DEF Init, Building, OneBuild, PendingComes, StoresComeLast, StoresAhead, NotNewer, NoLostChange
<1> QED  BY <1>1, InitType

(* request() coalesces without losing a change: whenever the served        *)
(* documents do not show the current views, a build that will read them is *)
(* coming, for any number of threads.                                      *)
THEOREM CoalescingLosesNothing == Spec => []NoLostChange
<1>1. TypeOK /\ Building /\ [Next]_vars => TypeOK' /\ Building'
  BY NextType, NextBuilding
<1>2. Building => NoLostChange
  BY DEF Building
<1> QED
  BY <1>1, <1>2, InitBuilding, PTL DEF Spec

(* rebuild() never replaces the served snapshot by one from older views,   *)
(* and counts each generation once, however many pump threads rebuild.     *)
THEOREM SnapshotsMoveForward == Spec => NeverBack
<1>1. TypeOK /\ Building /\ [Next]_vars => TypeOK' /\ Building'
  BY NextType, NextBuilding
<1>2. TypeOK /\ Building /\ [Next]_vars => [Forward]_vars
  <2>1. ASSUME TypeOK, Building, NEW p \in Pumps, Store(p)
        PROVE  Forward
    BY <2>1 DEF Store, Forward, Building, StoresAhead
  <2>2. Next => UNCHANGED current \/ \E p \in Pumps : Store(p)
    BY DEF Next, Rebuild, Swap, Request, Arm, TimerFires, Take, BuildLock, Clear, ReadInputs,
           SchedulerStop, PumpStop, building
  <2> QED  BY <2>1, <2>2 DEF Forward
<1> QED
  BY <1>1, <1>2, InitBuilding, PTL DEF Spec, NeverBack
===========================================================================

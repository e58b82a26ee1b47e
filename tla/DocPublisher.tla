---------------------------- MODULE DocPublisher ----------------------------
(***************************************************************************)
(* The served documents (src/doc_publisher.h): threads that swap a view    *)
(* request a rebuild; requests coalesce into one pending build behind a    *)
(* timer; builds run on the pump threads, one at a time, and publish whole *)
(* snapshots.                                                              *)
(*                                                                         *)
(* What the views show is one of Contents, which stands for the inputs key *)
(* of a build; every swap is numbered, so that a snapshot can be compared  *)
(* with what it was built from.                                            *)
(***************************************************************************)
EXTENDS Naturals, FiniteSets

CONSTANTS
  Contents,    \* what the views can show
  Changers,    \* threads that swap views: a pump thread, the delivery thread
  Pumps,       \* pump threads
  None,        \* no pump thread
  MaxSwaps,    \* bound: view swaps
  MaxFailures  \* bound: builds that throw

ASSUME DocPublisherAssumption ==
  None \notin Pumps /\ MaxSwaps \in Nat /\ MaxFailures \in Nat

VARIABLES
  views,     \* what the views show, and the number of swaps so far
  request,   \* per changer: idle, about to call request(), about to schedule
  pending,   \* m_pending
  timer,     \* is the publisher's timer set?
  jobs,      \* rebuild jobs on the pump
  builder,   \* the pump thread that holds m_buildMu, or none
  build,     \* per pump thread: how far its rebuild is, and what it has read
  current,   \* the served snapshot: its generation, and the views it shows
  failures,  \* m_failures
  stage      \* running; the scheduler stopped; the pump stopped

inputs == <<views, request>>
building == <<builder, build, current, failures>>
vars == <<inputs, pending, timer, jobs, building, stage>>

SchedulerRuns == stage = "running"
PumpRuns == stage # "stopped"

----------------------------------------------------------------------------
(* A view changes, on thread t *)

(* Discovery swaps the view under its lock, then announces it. *)
Swap(t) ==
  /\ request[t] = "idle" /\ views.swaps < MaxSwaps
  /\ \E c \in Contents : views' = [shows |-> c, swaps |-> views.swaps + 1]
  /\ request' = [request EXCEPT ![t] = "request"]
  /\ UNCHANGED <<pending, timer, jobs, building, stage>>

(* request: a build that is pending will see this change too. *)
Request(t) ==
  /\ request[t] = "request"
  /\ request' = [request EXCEPT ![t] = IF pending THEN "idle" ELSE "arm"]
  /\ pending' = TRUE
  /\ UNCHANGED <<views, timer, jobs, building, stage>>

(* A scheduler that has stopped refuses. *)
Arm(t) ==
  /\ request[t] = "arm"
  /\ request' = [request EXCEPT ![t] = "idle"]
  /\ timer' = (timer \/ SchedulerRuns)
  /\ pending' = (pending /\ SchedulerRuns)
  /\ UNCHANGED <<views, jobs, building, stage>>

(* The timer's job posts the build; a pump that has stopped refuses. *)
TimerFires ==
  /\ timer /\ timer' = FALSE
  /\ jobs' = IF PumpRuns THEN jobs + 1 ELSE jobs
  /\ pending' = (pending /\ PumpRuns)
  /\ UNCHANGED <<inputs, building, stage>>

----------------------------------------------------------------------------
(* rebuild, on pump thread p *)

Reached(p, pc) == build' = [build EXCEPT ![p].pc = pc]

Take(p) ==
  /\ PumpRuns /\ build[p].pc = "idle" /\ jobs > 0
  /\ jobs' = jobs - 1
  /\ Reached(p, "lock")
  /\ UNCHANGED <<inputs, pending, timer, builder, current, failures, stage>>

(* Builds run one at a time. *)
BuildLock_Missing(p) ==
  /\ build[p].pc = "lock"
  /\ Reached(p, "clear")
  /\ UNCHANGED <<inputs, pending, timer, jobs, builder, current, failures, stage>>

BuildLock(p) ==
  /\ build[p].pc = "lock" /\ builder = None
  /\ builder' = p
  /\ Reached(p, "clear")
  /\ UNCHANGED <<inputs, pending, timer, jobs, current, failures, stage>>

(* A change from here on needs a build of its own. *)
Clear_Late(p) ==
  /\ build[p].pc = "clear"
  /\ Reached(p, "read")
  /\ UNCHANGED <<inputs, pending, timer, jobs, builder, current, failures, stage>>

Clear(p) ==
  /\ build[p].pc = "clear"
  /\ pending' = FALSE
  /\ Reached(p, "read")
  /\ UNCHANGED <<inputs, timer, jobs, builder, current, failures, stage>>

(* The mutex is let go when rebuild returns. *)
Unlocked_Kept == UNCHANGED builder

Unlocked == builder' = None

(* The views are read at once, under discovery's lock; inputs that did not *)
(* change are not built again, and a build that throws is counted.         *)
ReadInputs(p) ==
  /\ build[p].pc = "read"
  /\ \/ /\ views.shows = current.of.shows
        /\ Unlocked
        /\ Reached(p, "idle")
        /\ UNCHANGED failures
     \/ /\ failures < MaxFailures /\ failures' = failures + 1
        /\ Unlocked
        /\ Reached(p, "idle")
     \/ /\ views.shows # current.of.shows
        /\ build' = [build EXCEPT ![p] = [pc |-> "store", read |-> views,
                                          generation |-> current.generation + 1]]
        /\ UNCHANGED <<builder, failures>>
  /\ UNCHANGED <<inputs, pending, timer, jobs, current, stage>>

Store(p) ==
  /\ build[p].pc = "store"
  /\ current' = [generation |-> build[p].generation, of |-> build[p].read]
  /\ Unlocked
  /\ Reached(p, "idle")
  /\ UNCHANGED <<inputs, pending, timer, jobs, failures, stage>>

----------------------------------------------------------------------------
(* Shutdown *)

SchedulerStop ==
  /\ stage = "running" /\ stage' = "unscheduled"
  /\ timer' = FALSE
  /\ UNCHANGED <<inputs, pending, jobs, building>>

PumpStop ==
  /\ stage = "unscheduled" /\ stage' = "stopped"
  /\ jobs' = 0
  /\ UNCHANGED <<inputs, pending, timer, building>>

----------------------------------------------------------------------------
(* buildNow makes the first snapshot, of the pending views, before the     *)
(* threads start.                                                          *)
Init ==
  /\ \E c \in Contents : views = [shows |-> c, swaps |-> 0]
  /\ request = [t \in Changers |-> "idle"]
  /\ pending = FALSE /\ timer = FALSE /\ jobs = 0
  /\ builder = None
  /\ build = [p \in Pumps |-> [pc |-> "idle", read |-> views, generation |-> 0]]
  /\ current = [generation |-> 1, of |-> views]
  /\ failures = 0
  /\ stage = "running"

Rebuild(p) == BuildLock(p) \/ Clear(p) \/ ReadInputs(p) \/ Store(p)

Next ==
  \/ \E t \in Changers : Swap(t) \/ Request(t) \/ Arm(t)
  \/ TimerFires
  \/ \E p \in Pumps : Take(p) \/ Rebuild(p)
  \/ SchedulerStop \/ PumpStop

Spec == Init /\ [][Next]_vars

(* The threads run. *)
Fairness ==
  /\ \A t \in Changers : WF_vars(Request(t) \/ Arm(t))
  /\ WF_vars(TimerFires)
  /\ \A p \in Pumps : WF_vars(Take(p)) /\ WF_vars(Rebuild(p))

FairSpec == Spec /\ Fairness

----------------------------------------------------------------------------
(* Properties *)

ViewsType == [shows : Contents, swaps : 0..MaxSwaps]

TypeOK ==
  /\ views \in ViewsType
  /\ request \in [Changers -> {"idle", "request", "arm"}]
  /\ pending \in BOOLEAN /\ timer \in BOOLEAN
  /\ jobs \in Nat
  /\ builder \in Pumps \cup {None}
  /\ build \in [Pumps -> [pc : {"idle", "lock", "clear", "read", "store"},
                          read : ViewsType, generation : Nat]]
  /\ current \in [generation : Nat, of : ViewsType]
  /\ failures \in 0..MaxFailures
  /\ stage \in {"running", "unscheduled", "stopped"}

(* Someone will yet build from views at least as new as those of now.      *)
BuildComing ==
  \/ \E t \in Changers : request[t] # "idle"
  \/ timer \/ jobs > 0
  \/ \E p \in Pumps : build[p].pc \in {"lock", "clear", "read"}
  \/ \E p \in Pumps : build[p].pc = "store" /\ build[p].read.shows = views.shows

(* Coalescing loses no change: documents that do not show the current      *)
(* views have a build coming that will read them, unless one has thrown.   *)
NoLostChange ==
  stage = "running" /\ failures = 0 /\ current.of.shows # views.shows => BuildComing

(* A served snapshot is never replaced by one built from older views, and  *)
(* each one is counted once, although two pump threads may be rebuilding.  *)
Forward ==
  current' # current =>
    /\ current'.generation = current.generation + 1
    /\ current'.of.swaps > current.of.swaps

NeverBack == [][Forward]_vars

(* Why the two hold.  m_buildMu is held from the clearing of m_pending to  *)
(* the store; a pending request has its build coming; a build that is      *)
(* about to store what has changed since has another one coming, and is    *)
(* ahead of the served snapshot.                                           *)
OneBuild ==
  \A p \in Pumps : build[p].pc \in {"clear", "read", "store"} => builder = p

PendingComes ==
  stage = "running" /\ pending =>
    \/ \E t \in Changers : request[t] = "arm"
    \/ timer \/ jobs > 0
    \/ \E p \in Pumps : build[p].pc \in {"lock", "clear"}

AnotherComes ==
  \/ \E t \in Changers : request[t] # "idle"
  \/ timer \/ jobs > 0
  \/ \E p \in Pumps : build[p].pc \in {"lock", "clear", "read"}

StoresComeLast ==
  stage = "running" =>
    \A p \in Pumps :
      build[p].pc = "store" /\ build[p].read.shows # views.shows => AnotherComes

NotNewer(v) == v.swaps <= views.swaps /\ (v.swaps = views.swaps => v = views)

StoresAhead ==
  /\ NotNewer(current.of)
  /\ \A p \in Pumps : build[p].pc = "store" =>
       /\ NotNewer(build[p].read)
       /\ build[p].generation = current.generation + 1
       /\ build[p].read.swaps > current.of.swaps

Building ==
  OneBuild /\ PendingComes /\ StoresComeLast /\ StoresAhead /\ NoLostChange

(* When the views come to rest the documents come to show them, as long as *)
(* no build throws and the bridge is not stopped.                          *)
DocsFollow == <>[](stage # "running" \/ failures > 0 \/ current.of.shows = views.shows)
=============================================================================

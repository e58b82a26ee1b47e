--------------------------- MODULE CallPathProofs ---------------------------
(***************************************************************************)
(* Shutdown and the answers of calls, for any numbers of threads, bodies   *)
(* and requests: no batch is flushed through a server that is gone, each   *)
(* is flushed once, with every request's own response, and no request is   *)
(* dropped on the way.                                                     *)
(***************************************************************************)
EXTENDS CallPath, Integers, FiniteSetTheorems, SequenceTheorems, TLAPS

(* Where an upstream thread can be. *)
UpstreamPlaces == {"idle", "store", "count", "flush"}

(* What the order of shutdown keeps.  Once the registry has let go of the  *)
(* client, its calls and callbacks are over as soon as no thread holds it; *)
(* nobody takes hold of it any more, and who holds it is joined before the *)
(* server goes.                                                            *)
ThreadsKnown == thread = [t \in Threads |-> thread[t]] /\ stage \in DOMAIN Stage
UpstreamsFill == \A u \in Upstreams : thread[u].pc \in UpstreamPlaces
CallsEndWithClient == Past("released") /\ Holding = {} => out = {} /\ Answering = {}
PumpsJoined == Past("joined") => \A p \in Pumps : thread[p].pc = "idle"
ServiceJoined == Past("down") => thread[svc].pc = "idle"

ServerLast ==
  /\ ThreadsKnown /\ UpstreamsFill /\ CallsEndWithClient /\ PumpsJoined /\ ServiceJoined

(* What Past means, one stage at a time. *)
LEMMA PastStages ==
  ASSUME stage \in DOMAIN Stage
  PROVE  /\ Past("closed") <=> stage \notin {"up", "draining"}
         /\ Past("released") <=> stage \in {"released", "stopped", "joined", "down"}
         /\ Past("stopped") <=> stage \in {"stopped", "joined", "down"}
         /\ Past("joined") <=> stage \in {"joined", "down"}
         /\ Past("down") <=> stage = "down"
         /\ stage \in {"up", "draining", "closed", "released", "stopped", "joined", "down"}
  BY DEF Past, Stage

----------------------------------------------------------------------------
(* The threads of the three kinds are different ones. *)
LEMMA ThreadKinds ==
  /\ svc \in Threads /\ svc \notin Pumps /\ svc \notin Upstreams
  /\ \A p \in Pumps : p \in Threads /\ p # svc /\ p \notin Upstreams
  /\ \A u \in Upstreams : u \in Threads /\ u # svc /\ u \notin Pumps
  BY CallPathAssumption DEF Threads

(* A step that moves one thread and leaves shutdown alone keeps all of     *)
(* ServerLast but what it says of the client.                              *)
LEMMA OneThreadMoves ==
  ASSUME ServerLast, NEW t \in Threads, NEW pc, NEW b, NEW i,
         At(t, pc, b, i), UNCHANGED stage,
         t \in Upstreams => pc \in UpstreamPlaces,
         t \in Pumps => ~Past("joined") \/ pc = "idle",
         t = svc => ~Past("down") \/ pc = "idle"
  PROVE  /\ thread'[t].pc = pc
         /\ \A x \in Threads : x # t => thread'[x] = thread[x]
         /\ Past("released")' = Past("released")
         /\ CallsEndWithClient' => ServerLast'
<1>1. /\ thread'[t].pc = pc
      /\ \A x \in Threads : x # t => thread'[x] = thread[x]
  BY DEF At, ServerLast, ThreadsKnown
<1>2. ThreadsKnown'
  BY DEF At, ServerLast, ThreadsKnown
<1>3. UpstreamsFill'
  BY <1>1, ThreadKinds DEF ServerLast, UpstreamsFill
<1>4. /\ Past("released")' = Past("released") /\ Past("joined")' = Past("joined")
      /\ Past("down")' = Past("down")
  BY DEF Past
<1>5. PumpsJoined'
  BY <1>1, <1>4, ThreadKinds DEF ServerLast, PumpsJoined
<1>6. ServiceJoined'
  BY <1>1, <1>4, ThreadKinds DEF ServerLast, ServiceJoined
<1> QED
  BY <1>1, <1>2, <1>3, <1>4, <1>5, <1>6 DEF ServerLast

(* Of the client, too, when the thread does not hold it, before or after,  *)
(* and begins no callback.                                                 *)
LEMMA NotHolding ==
  ASSUME ServerLast, NEW t \in Threads, NEW pc, NEW b, NEW i,
         At(t, pc, b, i), UNCHANGED <<out, stage>>,
         pc \notin {"leased", "send", "sent"},
         thread[t].pc \notin {"leased", "send", "sent"},
         t \in Upstreams => pc \in UpstreamPlaces /\ thread[t].pc # "idle",
         t \in Pumps => ~Past("joined") \/ pc = "idle",
         t = svc => ~Past("down") \/ pc = "idle"
  PROVE  ServerLast'
<1>1. /\ thread'[t].pc = pc
      /\ \A x \in Threads : x # t => thread'[x] = thread[x]
      /\ Past("released")' = Past("released")
      /\ CallsEndWithClient' => ServerLast'
  BY OneThreadMoves
<1>2. Holding' = Holding
  BY <1>1 DEF Holding
<1>3. Answering' \subseteq Answering
  BY <1>1, ThreadKinds DEF Answering
<1> QED
  BY <1>1, <1>2, <1>3 DEF ServerLast, CallsEndWithClient

(* Taking hold of the client, which only an open registry allows. *)
LEMMA TakesHold ==
  ASSUME ServerLast, NEW t \in Threads, t \notin Upstreams, NEW pc, NEW b, NEW i,
         At(t, pc, b, i), UNCHANGED stage, ~Past("closed")
  PROVE  ServerLast'
<1>1. ~Past("released") /\ ~Past("joined") /\ ~Past("down")
  BY PastStages DEF ServerLast, ThreadsKnown
<1>2. /\ Past("released")' = Past("released")
      /\ CallsEndWithClient' => ServerLast'
  BY <1>1, OneThreadMoves
<1> QED
  BY <1>1, <1>2 DEF CallsEndWithClient

(* Letting go of it: the last one waits for the callbacks. *)
LEMMA LetsGo ==
  ASSUME ServerLast, NEW t \in Threads, t \notin Upstreams, NEW pc, NEW b, NEW i,
         At(t, pc, b, i), UNCHANGED stage, Release(t), t \in Holding,
         pc \notin {"leased", "send", "sent"},
         t \in Pumps => ~Past("joined") \/ pc = "idle",
         t = svc => ~Past("down") \/ pc = "idle"
  PROVE  ServerLast'
<1>1. /\ thread'[t].pc = pc
      /\ \A x \in Threads : x # t => thread'[x] = thread[x]
      /\ Past("released")' = Past("released")
      /\ CallsEndWithClient' => ServerLast'
  BY OneThreadMoves
<1>2. Holding' = Holding \ {t}
  BY <1>1 DEF Holding
<1>3. Answering' = Answering
  BY <1>1, ThreadKinds DEF Answering
<1>4. ASSUME Past("released")', Holding' = {} PROVE out' = {} /\ Answering' = {}
  <2>1. Past("released") /\ Holding = {t}
    BY <1>1, <1>2, <1>4
  <2> QED
    BY <1>3, <2>1 DEF Release, Destroy
<1> QED
  BY <1>1, <1>4 DEF CallsEndWithClient

----------------------------------------------------------------------------
LEMMA InitServerLast == Init => ServerLast
<1> SUFFICES ASSUME Init PROVE ServerLast
  OBVIOUS
<1>1. \A t \in Threads : thread[t].pc = "idle"
  BY DEF Init
<1>2. ThreadsKnown
  BY DEF Init, ThreadsKnown, Stage
<1>3. UpstreamsFill /\ PumpsJoined /\ ServiceJoined
  BY <1>1, ThreadKinds DEF UpstreamsFill, UpstreamPlaces, PumpsJoined, ServiceJoined
<1>4. CallsEndWithClient
  BY <1>1, ThreadKinds DEF CallsEndWithClient, Answering, Init
<1> QED
  BY <1>2, <1>3, <1>4 DEF ServerLast

(* After an answer the service thread goes on or is done; the others are   *)
(* done.                                                                   *)
LEMMA ReturnMoves ==
  ASSUME NEW t \in Threads, Return(t)
  PROVE  \E pc \in {"idle", "handle"} : \E b, i :
           At(t, pc, b, i) /\ (t # svc => pc = "idle")
  BY DEF Return, NextEntry

(* A thread in the middle of something is not joined yet. *)
LEMMA BusyNotJoined ==
  ASSUME ServerLast, NEW t \in Threads, thread[t].pc # "idle"
  PROVE  (t \in Pumps => ~Past("joined")) /\ (t = svc => ~Past("down"))
  BY DEF ServerLast, PumpsJoined, ServiceJoined

LEMMA FillKeeps ==
  ASSUME ServerLast, NEW t \in Threads, Fill(t)
  PROVE  ServerLast'
<1>1. thread[t].pc \in {"store", "count", "flush"} /\ UNCHANGED <<out, stage>>
  BY DEF Fill, Store, Count, Flush
<1>2. (t \in Pumps => ~Past("joined")) /\ (t = svc => ~Past("down"))
  BY <1>1, BusyNotJoined
<1>3. \E pc \in {"idle", "handle", "count", "flush"} : \E b, i :
        At(t, pc, b, i) /\ (t # svc => pc # "handle")
  <2>1. CASE Store(t)
    BY <2>1 DEF Store
  <2>2. CASE Count(t)
    BY <2>2, ReturnMoves DEF Count
  <2>3. CASE Flush(t)
    BY <2>3, ReturnMoves DEF Flush
  <2> QED
    BY <2>1, <2>2, <2>3 DEF Fill
<1>4. PICK pc \in {"idle", "handle", "count", "flush"} :
        \E b, i : At(t, pc, b, i) /\ (t # svc => pc # "handle")
  BY <1>3
<1>5. PICK b, i : At(t, pc, b, i) /\ (t # svc => pc # "handle")
  BY <1>4
<1>6. t \in Upstreams => pc \in UpstreamPlaces
  BY <1>5, ThreadKinds DEF UpstreamPlaces
<1> QED
  BY <1>1, <1>2, <1>5, <1>6, NotHolding

LEMMA ServiceKeeps ==
  ASSUME ServerLast, HandleInline \/ GetClient \/ HandleSubmit
  PROVE  ServerLast'
<1>1. thread[svc].pc \in {"handle", "leased"} /\ UNCHANGED stage
  BY DEF HandleInline, GetClient, HandleSubmit
<1>2. ~Past("down")
  BY <1>1, BusyNotJoined, ThreadKinds
<1>3. CASE HandleInline
  BY <1>2, <1>3, NotHolding, ThreadKinds DEF HandleInline
<1>4. CASE GetClient
  <2>1. CASE Past("closed")
    BY <1>2, <1>4, <2>1, NotHolding, ThreadKinds DEF GetClient
  <2>2. CASE ~Past("closed")
    BY <1>4, <2>2, TakesHold, ThreadKinds DEF GetClient
  <2> QED
    BY <2>1, <2>2
<1>5. CASE HandleSubmit
  <2>1. PICK pc \in {"idle", "handle", "store"} : \E b, i : At(svc, pc, b, i)
    BY <1>5 DEF HandleSubmit, NextEntry
  <2>2. CASE thread[svc].pc = "handle" /\ UNCHANGED out
    BY <1>1, <1>2, <2>1, <2>2, NotHolding, ThreadKinds
  <2>3. CASE thread[svc].pc = "leased" /\ Release(svc)
    <3>1. svc \in Holding
      BY <2>3, ThreadKinds DEF Holding
    <3> QED
      BY <1>1, <1>2, <2>1, <2>3, <3>1, LetsGo, ThreadKinds
  <2> QED
    BY <1>5, <2>2, <2>3 DEF HandleSubmit
<1> QED
  BY <1>3, <1>4, <1>5

LEMMA OnBodyKeeps ==
  ASSUME ServerLast, NEW body, OnBody(body)
  PROVE  ServerLast'
<1>1. thread[svc].pc = "idle" /\ ~Past("down") /\ UNCHANGED <<out, stage>>
  BY DEF OnBody
<1>2. CASE \E b : At(svc, "handle", b, 1)
  BY <1>1, <1>2, NotHolding, ThreadKinds
<1>3. CASE UNCHANGED thread
  BY <1>1, <1>3 DEF ServerLast, ThreadsKnown, UpstreamsFill, CallsEndWithClient, PumpsJoined,
                    ServiceJoined, Past, Holding, Answering
<1> QED
  BY <1>2, <1>3 DEF OnBody

LEMMA PumpKeeps ==
  ASSUME ServerLast, NEW p \in Pumps,
         TakeJob(p) \/ Invoke(p) \/ InvokeAsync(p) \/ InvokeReturn(p)
  PROVE  ServerLast'
<1>1. CASE TakeJob(p)
  <2>1. ~Past("joined")
    BY <1>1, PastStages DEF TakeJob, ServerLast, ThreadsKnown
  <2>2. PICK pc \in {"invoke", "store"} : \E b, i : At(p, pc, b, i)
    BY <1>1 DEF TakeJob
  <2>3. thread[p].pc = "idle" /\ UNCHANGED <<out, stage>>
    BY <1>1 DEF TakeJob
  <2> QED
    BY <2>1, <2>2, <2>3, NotHolding, ThreadKinds
<1>2. CASE Invoke(p)
  <2>1. thread[p].pc = "invoke" /\ UNCHANGED <<out, stage>>
    BY <1>2 DEF Invoke
  <2>2. ~Past("joined")
    BY <2>1, BusyNotJoined, ThreadKinds
  <2>3. CASE Past("closed")
    BY <1>2, <2>1, <2>2, <2>3, NotHolding, ThreadKinds DEF Invoke
  <2>4. CASE ~Past("closed")
    BY <1>2, <2>1, <2>4, TakesHold, ThreadKinds DEF Invoke
  <2> QED
    BY <2>3, <2>4
<1>3. CASE InvokeAsync(p)
  <2>1. thread[p].pc = "send" /\ At(p, "sent", 0, 0) /\ UNCHANGED stage
    BY <1>3 DEF InvokeAsync
  <2>2. ~Past("joined")
    BY <2>1, BusyNotJoined, ThreadKinds
  <2>3. thread'[p].pc = "sent" /\ (CallsEndWithClient' => ServerLast')
    BY <2>1, <2>2, OneThreadMoves, ThreadKinds
  <2>4. p \in Holding'
    BY <2>3, ThreadKinds DEF Holding
  <2> QED
    BY <2>3, <2>4 DEF CallsEndWithClient
<1>4. CASE InvokeReturn(p)
  <2>1. p \in Holding
    BY <1>4, ThreadKinds DEF InvokeReturn, Holding
  <2> QED
    BY <1>4, <2>1, LetsGo, ThreadKinds DEF InvokeReturn
<1> QED
  BY <1>1, <1>2, <1>3, <1>4

(* A callback needs a call that is out, and so a client. *)
LEMMA CallbackKeeps ==
  ASSUME ServerLast, NEW u \in Upstreams, NEW c, Callback(u, c)
  PROVE  ServerLast'
<1>1. thread[u].pc = "idle" /\ c \in out /\ At(u, "store", c[1], c[2]) /\ UNCHANGED stage
  BY DEF Callback
<1>2. ~(Past("released") /\ Holding = {})
  BY <1>1 DEF ServerLast, CallsEndWithClient
<1>3. /\ thread'[u].pc = "store"
      /\ \A x \in Threads : x # u => thread'[x] = thread[x]
      /\ Past("released")' = Past("released")
      /\ CallsEndWithClient' => ServerLast'
  BY <1>1, OneThreadMoves, ThreadKinds DEF UpstreamPlaces
<1>4. Holding' = Holding
  BY <1>1, <1>3 DEF Holding
<1> QED
  BY <1>2, <1>3, <1>4 DEF CallsEndWithClient

(* Shutdown moves no thread, and joins what it must before it goes on. *)
LEMMA ShutdownKeeps ==
  ASSUME ServerLast, Shutdown
  PROVE  ServerLast'
<1>1. UNCHANGED thread
  BY DEF Shutdown, Drain, CloseClients, ReleaseClients, PumpStop, PumpJoin, ServerStop
<1>2. stage \in DOMAIN Stage /\ stage' \in DOMAIN Stage
  BY DEF ServerLast, ThreadsKnown, Shutdown, Drain, CloseClients, ReleaseClients, PumpStop,
         PumpJoin, ServerStop, Advance, Stage
<1>3. ThreadsKnown' /\ UpstreamsFill'
  BY <1>1, <1>2 DEF ServerLast, ThreadsKnown, UpstreamsFill
<1>4. Holding' = Holding /\ Answering' = Answering
  BY <1>1 DEF Holding, Answering
<1>5. /\ Past("released") <=> stage \in {"released", "stopped", "joined", "down"}
      /\ Past("joined") <=> stage \in {"joined", "down"}
      /\ Past("down") <=> stage = "down"
  BY <1>2, PastStages
<1>6. /\ Past("released")' <=> stage' \in {"released", "stopped", "joined", "down"}
      /\ Past("joined")' <=> stage' \in {"joined", "down"}
      /\ Past("down")' <=> stage' = "down"
  BY <1>2 DEF Past, Stage
<1>7. CallsEndWithClient'
  <2>1. CASE ReleaseClients
    BY <1>4, <2>1 DEF CallsEndWithClient, ReleaseClients, Destroy
  <2>2. CASE ~ReleaseClients
    <3>1. UNCHANGED out /\ (Past("released")' => Past("released"))
      BY <1>5, <1>6, <2>2 DEF Shutdown, Drain, CloseClients, PumpStop, PumpJoin, ServerStop, Advance
    <3> QED
      BY <1>4, <3>1 DEF ServerLast, CallsEndWithClient
  <2> QED
    BY <2>1, <2>2
<1>8. PumpsJoined'
  <2>1. CASE PumpJoin
    BY <1>1, <2>1 DEF PumpJoin, PumpsJoined
  <2>2. CASE ~PumpJoin
    <3>1. Past("joined")' => Past("joined")
      BY <1>5, <1>6, <2>2 DEF Shutdown, Drain, CloseClients, ReleaseClients, PumpStop, ServerStop,
                              Advance
    <3> QED
      BY <1>1, <3>1 DEF ServerLast, PumpsJoined
  <2> QED
    BY <2>1, <2>2
<1>9. ServiceJoined'
  <2>1. CASE ServerStop
    BY <1>1, <2>1 DEF ServerStop, ServiceJoined
  <2>2. CASE ~ServerStop
    <3>1. Past("down")' => Past("down")
      BY <1>5, <1>6, <2>2 DEF Shutdown, Drain, CloseClients, ReleaseClients, PumpStop, PumpJoin,
                              Advance
    <3> QED
      BY <1>1, <3>1 DEF ServerLast, ServiceJoined
  <2> QED
    BY <2>1, <2>2
<1> QED
  BY <1>3, <1>7, <1>8, <1>9 DEF ServerLast

LEMMA NextServerLast == ServerLast /\ [Next]_vars => ServerLast'
<1> SUFFICES ASSUME ServerLast, [Next]_vars PROVE ServerLast'
  OBVIOUS
<1>1. CASE \E body \in Bodies : OnBody(body)
  BY <1>1, OnBodyKeeps
<1>2. CASE ServiceStep
  BY <1>2, ServiceKeeps, FillKeeps, ThreadKinds DEF ServiceStep
<1>3. CASE \E p \in Pumps : PumpStep(p)
  BY <1>3, PumpKeeps, FillKeeps, ThreadKinds DEF PumpStep
<1>4. CASE \E u \in Upstreams : Fill(u) \/ \E c \in Calls : Callback(u, c)
  BY <1>4, CallbackKeeps, FillKeeps, ThreadKinds
<1>5. CASE Shutdown
  BY <1>5, ShutdownKeeps
<1>6. CASE Rest \/ UNCHANGED vars
  BY <1>6 DEF Rest, vars, ServerLast, ThreadsKnown, UpstreamsFill, CallsEndWithClient,
              PumpsJoined, ServiceJoined, Past, Holding, Answering
<1> QED
  BY <1>1, <1>2, <1>3, <1>4, <1>5, <1>6 DEF Next

(* With the server gone every pump thread and the service thread are       *)
(* joined, so nobody holds the client, and its callbacks are over.         *)
LEMMA LastMeansQuiet == ServerLast => NoFlushWithoutServer
<1> SUFFICES ASSUME ServerLast, stage = "down", NEW t \in Threads
             PROVE  thread[t].pc = "idle"
  BY DEF NoFlushWithoutServer
<1>1. Past("released") /\ Past("joined") /\ Past("down")
  BY PastStages DEF ServerLast, ThreadsKnown
<1>2. thread[svc].pc = "idle" /\ \A p \in Pumps : thread[p].pc = "idle"
  BY <1>1 DEF ServerLast, PumpsJoined, ServiceJoined
<1>3. Holding = {}
  BY <1>2 DEF Holding, Threads, ServerLast, UpstreamsFill, UpstreamPlaces
<1>4. Answering = {}
  BY <1>1, <1>3 DEF ServerLast, CallsEndWithClient
<1> QED
  BY <1>2, <1>4 DEF Threads, Answering

(* BridgeCore::shutdown "is ordered so that the thing which STOPS callbacks *)
(* comes before the thing they touch": when the server is destroyed, no    *)
(* service, pump or upstream thread is left that could flush a Batch,      *)
(* which holds a plain pointer to it.                                      *)
THEOREM ServerOutlivesBatches == Spec => []NoFlushWithoutServer
<1>1. Spec => []ServerLast
  BY InitServerLast, NextServerLast, PTL DEF Spec
<1> QED
  BY <1>1, LastMeansQuiet, PTL

----------------------------------------------------------------------------
(* Answers.  A request is at one place at a time and m_remaining counts    *)
(* the requests that are not through, so the last to count is the one that *)
(* flushes, and every slot is filled by then.                              *)

(* Where a thread has a request in hand that is not answered, or not       *)
(* counted yet, and the threads that are there.                            *)
Owning == {"handle", "leased", "store", "count", "invoke", "send"}
Entry(t) == <<thread[t].body, thread[t].entry>>
Owners == {t \in Threads : thread[t].pc \in Owning}

(* The other places of a request: with the pump, in `out', or ahead of the *)
(* service thread in its loop over the body.                               *)
Jobs == {queue[k] : k \in DOMAIN queue}
Ahead == {c \in Calls : /\ thread[svc].pc # "idle" /\ c[1] = thread[svc].body
                        /\ c[2] > thread[svc].entry /\ c[2] <= Len(bodies[c[1]])}

(* The requests that have a response and are not counted. *)
Counting == {Entry(t) : t \in {u \in Threads : thread[u].pc = "count"}}

(* A request of a body without a frame, and one without a response. *)
Live(c) == c[1] \in DOMAIN bodies /\ c[2] \in DOMAIN bodies[c[1]] /\ frames[c[1]] = <<>>
Open(c) == Live(c) /\ slots[c[1]][c[2]] = Unfilled

(* Types.  What a slot holds and what m_remaining counts is Accounts' to   *)
(* say.                                                                    *)
Place == [pc : Owning \cup {"idle", "sent", "flush"}, body : Nat, entry : Nat]
ThreadsTyped ==
  /\ thread \in [Threads -> Place]
  /\ thread[svc].pc # "sent"
  /\ \A t \in Threads : thread[t].pc \in Owning \cup {"flush"} => Entry(t) \in Calls
QueueTyped == queue \in Seq(Calls) /\ out \subseteq Calls
BatchTyped ==
  /\ bodies \in Seq(Seq(Kinds)) /\ Len(bodies) <= MaxBodies
  /\ \A b \in DOMAIN bodies : Len(bodies[b]) <= MaxInFlight
  /\ frames = [b \in 1..MaxBodies |-> frames[b]]
  /\ slots = [b \in 1..MaxBodies |-> slots[b]]
  /\ remaining = [b \in 1..MaxBodies |-> remaining[b]]

(* A request is in one place only ... *)
OneHolder ==
  /\ \A t, u \in Owners : Entry(t) = Entry(u) => t = u
  /\ \A t \in Owners : Entry(t) \notin Ahead \cup Jobs \cup out
  /\ \A k, l \in DOMAIN queue : queue[k] = queue[l] => k = l
  /\ Ahead \cap Jobs = {} /\ Ahead \cap out = {} /\ Jobs \cap out = {}

(* ... and has its response exactly from the store on. *)
HeldOpen ==
  /\ \A c \in Ahead \cup Jobs \cup out : Open(c)
  /\ \A t \in Owners : thread[t].pc # "count" => Open(Entry(t))
  /\ \A t \in Owners : thread[t].pc = "count" => Live(Entry(t)) /\ ~Open(Entry(t))

(* What m_remaining counts: the requests without a response, and those     *)
(* whose response is stored but not counted.  A slot has its request's own *)
(* response or none.                                                       *)
Uncounted(b) == {i \in DOMAIN bodies[b] : slots[b][i] = Unfilled \/ <<b, i>> \in Counting}
Accounts ==
  \A b \in DOMAIN bodies : frames[b] = <<>> =>
    /\ bodies[b] # <<>>
    /\ slots[b] = [i \in DOMAIN bodies[b] |-> slots[b][i]]
    /\ \A i \in DOMAIN bodies[b] : slots[b][i] \in {Unfilled, Expected(bodies[b])[i]}
    /\ remaining[b] = Cardinality(Uncounted(b))

(* Who flushes has found nothing left to count, and is the only one. *)
Flushing ==
  \A t \in Threads : thread[t].pc = "flush" =>
    /\ thread[t].body \in DOMAIN bodies /\ frames[thread[t].body] = <<>>
    /\ Uncounted(thread[t].body) = {}
    /\ \A u \in Threads : thread[u].pc = "flush" /\ thread[u].body = thread[t].body => t = u

(* A batch that is not flushed has something left to count, or a thread    *)
(* about to flush it; and until the client is gone an open request is      *)
(* somewhere.                                                              *)
Going ==
  \A b \in DOMAIN bodies : frames[b] = <<>> =>
    \/ Uncounted(b) # {}
    \/ \E t \in Threads : /\ thread[t].pc = "flush" /\ thread[t].body = b
                          /\ thread[t].entry \in DOMAIN bodies[b]
Places == Ahead \cup Jobs \cup out \cup {Entry(t) : t \in Owners}
Placed == \A c \in Calls : Open(c) => c \in Places

Typed == ThreadsTyped /\ QueueTyped /\ BatchTyped
Tokens == OneHolder /\ HeldOpen
Books == Accounts /\ Flushing /\ Going /\ AnsweredOnceAndWhole
Whole == Typed /\ Tokens /\ Books

LEMMA InitWhole == Init => Whole
<1> SUFFICES ASSUME Init PROVE Whole
  OBVIOUS
<1> USE CallPathAssumption
<1>1. \A t \in Threads : thread[t].pc = "idle"
  BY DEF Init
<1>2. Typed
  BY <1>1, ThreadKinds DEF Typed, ThreadsTyped, QueueTyped, BatchTyped, Init, Place, Owning
<1>3. Owners = {} /\ Jobs = {} /\ Ahead = {} /\ out = {}
  BY <1>1, ThreadKinds DEF Owners, Jobs, Ahead, Owning, Init
<1>4. Tokens
  BY <1>3 DEF Tokens, OneHolder, HeldOpen, Init
<1>5. Books
  BY <1>1 DEF Books, Accounts, Flushing, Going, AnsweredOnceAndWhole, Init
<1> QED
  BY <1>2, <1>4, <1>5 DEF Whole

(* A step that leaves the batches, and the threads that count or flush,    *)
(* keeps the books.                                                        *)
LEMMA BooksUntouched ==
  ASSUME Books, UNCHANGED <<batch, frames>>,
         \A t \in Threads : thread[t].pc \in {"count", "flush"} \/ thread'[t].pc \in {"count", "flush"}
                              => thread'[t] = thread[t]
  PROVE  Books'
<1>1. Counting' = Counting
  BY DEF Counting, Entry
<1>2. \A b : Uncounted(b)' = Uncounted(b)
  BY <1>1 DEF Uncounted, batch
<1>3. Accounts'
  BY <1>2 DEF Books, Accounts, batch
<1>4. Flushing'
  BY <1>2 DEF Books, Flushing, batch
<1>5. AnsweredOnceAndWhole'
  BY DEF Books, AnsweredOnceAndWhole, batch
<1>6. Going'
  <2> SUFFICES ASSUME NEW b \in DOMAIN bodies, frames[b] = <<>>
               PROVE  \/ Uncounted(b)' # {}
                      \/ \E t \in Threads : /\ thread'[t].pc = "flush" /\ thread'[t].body = b
                                            /\ thread'[t].entry \in DOMAIN bodies[b]
    BY DEF Going, batch
  <2> QED
    BY <1>2 DEF Books, Going
<1> QED
  BY <1>3, <1>4, <1>5, <1>6 DEF Books

LEMMA OpenUntouched ==
  ASSUME UNCHANGED <<batch, frames>>
  PROVE  \A c : (Live(c)' <=> Live(c)) /\ (Open(c)' <=> Open(c))
  BY DEF batch, Live, Open

LEMMA Moves ==
  ASSUME ThreadsTyped, NEW t \in Threads, NEW pc, NEW b \in Nat, NEW i \in Nat, At(t, pc, b, i),
         pc \in Owning \cup {"idle", "sent", "flush"}, t = svc => pc # "sent",
         pc \in Owning \cup {"flush"} => <<b, i>> \in Calls
  PROVE  /\ ThreadsTyped'
         /\ thread'[t] = [pc |-> pc, body |-> b, entry |-> i]
         /\ Entry(t)' = <<b, i>>
         /\ \A x \in Threads : x # t => thread'[x] = thread[x]
         /\ \A x \in Threads : x # t => Entry(x)' = Entry(x)
         /\ Owners' = IF pc \in Owning THEN Owners \cup {t} ELSE Owners \ {t}
<1>1. /\ thread'[t] = [pc |-> pc, body |-> b, entry |-> i]
      /\ \A x \in Threads : x # t => thread'[x] = thread[x]
      /\ thread' \in [Threads -> Place]
  BY DEF At, ThreadsTyped, Place
<1>2. Entry(t)' = <<b, i>> /\ \A x \in Threads : x # t => Entry(x)' = Entry(x)
  BY <1>1 DEF Entry
<1>3. ThreadsTyped'
  BY <1>1, <1>2, ThreadKinds DEF ThreadsTyped
<1>4. Owners' = IF pc \in Owning THEN Owners \cup {t} ELSE Owners \ {t}
  BY <1>1 DEF Owners
<1> QED
  BY <1>1, <1>2, <1>3, <1>4

(* Having let go of its request. *)
LEMMA Leaves ==
  ASSUME ThreadsTyped, NEW t \in Threads, NEW pc \in {"idle", "sent"}, At(t, pc, 0, 0),
         t = svc => pc = "idle"
  PROVE  /\ ThreadsTyped' /\ thread'[t].pc = pc
         /\ \A x \in Threads : x # t => thread'[x] = thread[x] /\ Entry(x)' = Entry(x)
         /\ Owners' = Owners \ {t}
<1>1. /\ thread'[t].pc = pc
      /\ \A x \in Threads : x # t => thread'[x] = thread[x]
      /\ thread' \in [Threads -> Place]
  BY DEF At, ThreadsTyped, Place
<1>2. \A x \in Threads : x # t => Entry(x)' = Entry(x)
  BY <1>1 DEF Entry
<1>3. pc \notin Owning \cup {"flush"}
  BY DEF Owning
<1>4. ThreadsTyped'
  BY <1>1, <1>2, <1>3, ThreadKinds DEF ThreadsTyped
<1>5. Owners' = Owners \ {t}
  BY <1>1, <1>3 DEF Owners
<1> QED
  BY <1>1, <1>2, <1>4, <1>5

(* The service thread is at the same request, or another thread moves: the *)
(* requests ahead of it are the same.                                      *)
LEMMA AheadSame ==
  ASSUME UNCHANGED bodies, thread[svc].pc # "idle" <=> thread'[svc].pc # "idle",
         thread'[svc].body = thread[svc].body, thread'[svc].entry = thread[svc].entry
  PROVE  Ahead' = Ahead
  BY DEF Ahead, Calls

(* The same request, further on. *)
LEMMA SameRequest ==
  ASSUME Typed, Tokens, NEW t \in Threads, NEW pc \in Owning \ {"count"},
         thread[t].pc \in Owning \ {"count"},
         At(t, pc, thread[t].body, thread[t].entry),
         UNCHANGED <<batch, frames, queue>>, out' \subseteq out
  PROVE  Typed' /\ Tokens' /\ (UNCHANGED out /\ Placed => Placed')
<1>1. Entry(t) \in Calls
  BY DEF Typed, ThreadsTyped
<1>2. thread[t].body \in Nat /\ thread[t].entry \in Nat
  BY DEF Typed, ThreadsTyped, Place
<1>3. /\ ThreadsTyped'
      /\ thread'[t] = [pc |-> pc, body |-> thread[t].body, entry |-> thread[t].entry]
      /\ Entry(t)' = Entry(t)
      /\ \A x \in Threads : x # t => thread'[x] = thread[x] /\ Entry(x)' = Entry(x)
      /\ Owners' = Owners
  <2>1. <<thread[t].body, thread[t].entry>> \in Calls
    BY <1>1 DEF Entry
  <2>2. pc \in Owning /\ pc # "sent" /\ ThreadsTyped
    BY DEF Owning, Typed
  <2>3. /\ ThreadsTyped'
        /\ thread'[t] = [pc |-> pc, body |-> thread[t].body, entry |-> thread[t].entry]
        /\ Entry(t)' = <<thread[t].body, thread[t].entry>>
        /\ \A x \in Threads : x # t => thread'[x] = thread[x] /\ Entry(x)' = Entry(x)
        /\ Owners' = Owners \cup {t}
    BY <1>2, <2>1, <2>2, Moves
  <2>4. t \in Owners
    BY DEF Owners
  <2> QED
    BY <2>3, <2>4 DEF Entry
<1>4. Ahead' = Ahead /\ Jobs' = Jobs
  BY <1>3, AheadSame, ThreadKinds DEF batch, Jobs, Owning
<1>5. Typed'
  BY <1>3 DEF Typed, QueueTyped, BatchTyped, batch
<1>6. OneHolder'
  BY <1>3, <1>4 DEF Tokens, OneHolder, Owners
<1>7. HeldOpen'
  BY <1>3, <1>4, OpenUntouched DEF Tokens, HeldOpen, Owners
<1>8. ASSUME UNCHANGED out, Placed PROVE Placed'
  <2>1. Places' = Places
    <3>1. {Entry(x)' : x \in Owners'} = {Entry(x) : x \in Owners}
      BY <1>3 DEF Owners
    <3> QED
      BY <1>4, <1>8, <3>1 DEF Places
  <2> QED
    BY <1>8, <2>1, OpenUntouched DEF Placed
<1> QED
  BY <1>5, <1>6, <1>7, <1>8 DEF Tokens

(* The thread is done with its request or the service thread takes the     *)
(* next one.                                                               *)
LEMMA Returns ==
  ASSUME Typed, NEW t \in Threads, Return(t), UNCHANGED bodies,
         thread[t].pc \in Owning \cup {"flush"}, thread[t].body \in DOMAIN bodies
  PROVE  /\ ThreadsTyped'
         /\ \A x \in Threads : x # t => thread'[x] = thread[x] /\ Entry(x)' = Entry(x)
         /\ \/ thread'[t].pc = "idle" /\ Ahead' \subseteq Ahead /\ Owners' = Owners \ {t}
               /\ (t = svc => Ahead = {})
            \/ /\ t = svc /\ thread'[t].pc = "handle" /\ Owners' = Owners \cup {t}
               /\ Entry(t)' \in Ahead /\ Ahead' = Ahead \ {Entry(t)'}
<1> DEFINE b == thread[svc].body
           i == thread[svc].entry
<1>1. CASE t # svc \/ ~(i < Len(bodies[b]))
  <2>1. At(t, "idle", 0, 0)
    BY <1>1 DEF Return, NextEntry
  <2>2. /\ ThreadsTyped' /\ thread'[t].pc = "idle" /\ Owners' = Owners \ {t}
        /\ \A x \in Threads : x # t => thread'[x] = thread[x] /\ Entry(x)' = Entry(x)
    BY <2>1, Leaves DEF Typed
  <2>3. CASE t = svc
    <3>1. Ahead' = {}
      BY <2>2, <2>3 DEF Ahead
    <3>2. Ahead = {}
      BY <1>1, <2>3, ThreadKinds DEF Ahead, Calls, Typed, ThreadsTyped, Place, BatchTyped
    <3> QED
      BY <2>2, <3>1, <3>2
  <2>4. CASE t # svc
    <3>1. Ahead' = Ahead
      BY <2>2, <2>4, AheadSame, ThreadKinds
    <3> QED
      BY <2>2, <2>4, <3>1
  <2> QED
    BY <2>3, <2>4
<1>2. CASE t = svc /\ i < Len(bodies[b])
  <2>1. At(t, "handle", b, i + 1)
    BY <1>2 DEF Return, NextEntry
  <2>2. b \in 1..MaxBodies /\ i \in 1..MaxInFlight /\ b \in Nat /\ i \in Nat
    BY <1>2 DEF Typed, ThreadsTyped, Entry, Calls, Place
  <2>3. <<b, i + 1>> \in Ahead /\ <<b, i + 1>> \in Calls
    <3>0. Entry(svc) \in Calls /\ Entry(svc) = <<b, i>>
      BY <1>2 DEF Typed, ThreadsTyped, Entry
    <3>1. b \in DOMAIN bodies /\ Len(bodies[b]) <= MaxInFlight
      BY <1>2, <2>2 DEF Typed, BatchTyped
    <3>2. <<b, i + 1>> \in Calls
      BY <1>2, <2>2, <3>1, CallPathAssumption, SMTT(30) DEF Calls, Typed, BatchTyped
    <3> QED
      <4>1. thread[svc].pc # "idle"
        BY <1>2 DEF Owning
      <4>2. <<b, i + 1>>[1] = b /\ <<b, i + 1>>[2] = i + 1
        OBVIOUS
      <4>3. i + 1 > i /\ i + 1 <= Len(bodies[b])
        BY <1>2, <2>2, <3>1 DEF Typed, BatchTyped
      <4> QED
        BY <3>2, <4>1, <4>2, <4>3 DEF Ahead
  <2>4. /\ ThreadsTyped' /\ thread'[t] = [pc |-> "handle", body |-> b, entry |-> i + 1]
        /\ Owners' = Owners \cup {t} /\ Entry(t)' = <<b, i + 1>>
        /\ \A x \in Threads : x # t => thread'[x] = thread[x] /\ Entry(x)' = Entry(x)
    <3>1. "handle" \in Owning /\ "handle" # "sent" /\ ThreadsTyped /\ i + 1 \in Nat
          /\ "handle" \in Owning \cup {"idle", "sent", "flush"}
      BY <2>2 DEF Owning, Typed
    <3> HIDE DEF b, i
    <3>2. /\ ThreadsTyped' /\ thread'[t] = [pc |-> "handle", body |-> b, entry |-> i + 1]
          /\ Entry(t)' = <<b, i + 1>>
          /\ \A x \in Threads : x # t => thread'[x] = thread[x]
          /\ \A x \in Threads : x # t => Entry(x)' = Entry(x)
          /\ Owners' = IF "handle" \in Owning THEN Owners \cup {t} ELSE Owners \ {t}
      BY <2>1, <2>2, <2>3, <3>1, Moves, Zenon
    <3> QED
      BY <3>1, <3>2
  <2>5. Ahead' = Ahead \ {<<b, i + 1>>}
    <3>1. /\ thread[svc].pc # "idle" /\ thread'[svc].pc # "idle"
          /\ thread'[svc].body = b /\ thread'[svc].entry = i + 1
      BY <1>2, <2>4 DEF Owning
    <3>2. ASSUME NEW c \in Calls
          PROVE  /\ c \in Ahead  <=> c[1] = b /\ c[2] > i /\ c[2] <= Len(bodies[c[1]])
                 /\ c \in Ahead' <=> c[1] = b /\ c[2] > i + 1 /\ c[2] <= Len(bodies[c[1]])
      BY <3>1 DEF Ahead
    <3>3. ASSUME NEW c \in Calls
          PROVE  c[1] = b /\ c[2] > i + 1 <=> c[1] = b /\ c[2] > i /\ c # <<b, i + 1>>
      BY <2>2 DEF Calls
    <3>4. Ahead \subseteq Calls /\ Ahead' \subseteq Calls
      BY DEF Ahead
    <3> HIDE DEF b, i
    <3> QED
      BY <3>2, <3>3, <3>4
  <2> QED
    BY <1>2, <2>3, <2>4, <2>5
<1> QED
  BY <1>1, <1>2

LEMMA Appended ==
  ASSUME QueueTyped, NEW c \in Calls, c \notin Jobs, queue' = Append(queue, c),
         \A k, l \in DOMAIN queue : queue[k] = queue[l] => k = l
  PROVE  /\ queue' \in Seq(Calls) /\ Jobs' = Jobs \cup {c}
         /\ \A k, l \in DOMAIN queue' : queue'[k] = queue'[l] => k = l
<1>1. /\ queue' \in Seq(Calls) /\ DOMAIN queue = 1..Len(queue) /\ Len(queue) \in Nat
      /\ DOMAIN queue' = 1..(Len(queue) + 1)
      /\ \A k \in DOMAIN queue : queue'[k] = queue[k]
      /\ queue'[Len(queue) + 1] = c
  BY DEF QueueTyped
<1>2. \A k \in DOMAIN queue : queue[k] # c
  BY DEF Jobs
<1> QED
  BY <1>1, <1>2 DEF Jobs

LEMMA Taken ==
  ASSUME QueueTyped, queue # <<>>, queue' = Tail(queue),
         \A k, l \in DOMAIN queue : queue[k] = queue[l] => k = l
  PROVE  /\ queue' \in Seq(Calls) /\ Jobs' = Jobs \ {Head(queue)} /\ Head(queue) \in Jobs
         /\ Head(queue) \in Calls
         /\ \A k, l \in DOMAIN queue' : queue'[k] = queue'[l] => k = l
<1>1. /\ queue' \in Seq(Calls) /\ DOMAIN queue = 1..Len(queue) /\ Len(queue) \in Nat
      /\ Len(queue) >= 1
      /\ DOMAIN queue' = 1..(Len(queue) - 1)
      /\ \A k \in DOMAIN queue' : queue'[k] = queue[k + 1]
      /\ Head(queue) = queue[1] /\ Head(queue) \in Calls
  BY DEF QueueTyped
<1>2. \A k, l \in DOMAIN queue' : queue'[k] = queue'[l] => k = l
  BY <1>1
<1>3. Jobs' = Jobs \ {Head(queue)}
  <2>1. ASSUME NEW c \in Jobs' PROVE c \in Jobs \ {Head(queue)}
    <3>1. PICK k \in DOMAIN queue' : c = queue'[k]
      BY <2>1 DEF Jobs
    <3>2. k + 1 \in DOMAIN queue /\ c = queue[k + 1] /\ k + 1 # 1 /\ 1 \in DOMAIN queue
      BY <1>1, <3>1
    <3> QED
      BY <1>1, <3>2 DEF Jobs
  <2>2. ASSUME NEW c \in Jobs, c # Head(queue) PROVE c \in Jobs'
    <3>1. PICK k \in DOMAIN queue : c = queue[k]
      BY <2>2 DEF Jobs
    <3>2. k - 1 \in DOMAIN queue' /\ c = queue'[k - 1]
      BY <1>1, <2>2, <3>1
    <3> QED
      BY <3>2 DEF Jobs
  <2> QED
    BY <2>1, <2>2
<1> QED
  <2>1. 1 \in DOMAIN queue /\ Head(queue) = queue[1] /\ Head(queue) \in Calls
    BY <1>1
  <2>2. Head(queue) \in Jobs
    BY <2>1 DEF Jobs
  <2> QED
    BY <1>1, <1>2, <1>3, <2>1, <2>2

LEMMA HandleSubmitTokens ==
  ASSUME Typed, Tokens, HandleSubmit
  PROVE  Typed' /\ Tokens' /\ (UNCHANGED out /\ Placed => Placed')
<1>1. /\ thread[svc].pc \in {"handle", "leased"} /\ UNCHANGED <<batch, frames>>
      /\ out' \subseteq out
  BY DEF HandleSubmit, Release, Destroy
<1>2. svc \in Owners /\ thread[svc].pc \in Owning \ {"count"} /\ svc \in Threads
  BY <1>1, ThreadKinds DEF Owners, Owning
<1>3. Open(Entry(svc)) /\ Entry(svc) \in Calls /\ thread[svc].body \in DOMAIN bodies
  BY <1>2 DEF Tokens, HeldOpen, Typed, ThreadsTyped, Open, Live, Entry
<1>4. CASE UNCHANGED queue /\ At(svc, "store", thread[svc].body, thread[svc].entry)
  <2>1. "store" \in Owning \ {"count"}
    BY DEF Owning
  <2> QED
    BY <1>1, <1>2, <1>4, <2>1, SameRequest
<1>5. CASE queue' = Append(queue, Entry(svc)) /\ NextEntry
  <2>1. Return(svc) /\ UNCHANGED bodies
    BY <1>1, <1>5 DEF Return, batch
  <2>2. /\ ThreadsTyped'
        /\ \A x \in Threads : x # svc => thread'[x] = thread[x] /\ Entry(x)' = Entry(x)
        /\ \/ thread'[svc].pc = "idle" /\ Ahead' \subseteq Ahead /\ Owners' = Owners \ {svc}
              /\ Ahead = {}
           \/ /\ thread'[svc].pc = "handle" /\ Owners' = Owners \cup {svc}
              /\ Entry(svc)' \in Ahead /\ Ahead' = Ahead \ {Entry(svc)'}
    BY <1>2, <1>3, <2>1, Returns
  <2>3. Entry(svc) \notin Ahead \cup Jobs \cup out
        /\ \A x \in Owners : x # svc => Entry(x) # Entry(svc)
    BY <1>2 DEF Tokens, OneHolder
  <2>4. /\ queue' \in Seq(Calls) /\ Jobs' = Jobs \cup {Entry(svc)}
        /\ \A k, l \in DOMAIN queue' : queue'[k] = queue'[l] => k = l
    BY <1>3, <1>5, <2>3, Appended DEF Typed, Tokens, OneHolder
  <2>5. Typed'
    BY <1>1, <2>2, <2>4 DEF Typed, QueueTyped, BatchTyped, batch
  <2>6. Owners' \subseteq Owners /\ Ahead' \subseteq Ahead
    BY <1>2, <2>2
  <2>7. OneHolder'
    <3>1. \A x \in Owners' : \/ x \in Owners /\ x # svc /\ Entry(x)' = Entry(x)
                             \/ x = svc /\ Entry(x)' \in Ahead \ Ahead'
      BY <1>2, <2>2 DEF Owners
    <3>2. \A x \in Owners' : Entry(x)' \notin Ahead' \cup Jobs' \cup out'
      BY <1>1, <2>3, <2>4, <2>6, <3>1 DEF Tokens, OneHolder
    <3>3. \A x, y \in Owners' : Entry(x)' = Entry(y)' => x = y
      BY <3>1 DEF Tokens, OneHolder
    <3>4. Ahead' \cap Jobs' = {} /\ Ahead' \cap out' = {} /\ Jobs' \cap out' = {}
      BY <1>1, <2>3, <2>4, <2>6 DEF Tokens, OneHolder
    <3> QED
      BY <2>4, <3>2, <3>3, <3>4 DEF OneHolder
  <2>8. HeldOpen'
    <3>1. \A c \in Ahead' \cup Jobs' \cup out' : Open(c)'
      BY <1>1, <1>3, <2>4, <2>6, OpenUntouched DEF Tokens, HeldOpen
    <3>2. ASSUME NEW x \in Owners'
          PROVE  \/ x \in Owners /\ Entry(x)' = Entry(x) /\ thread'[x] = thread[x]
                 \/ Open(Entry(x)') /\ thread'[x].pc # "count"
      <4>1. CASE x # svc
        BY <2>2, <3>2, <4>1 DEF Owners
      <4>2. CASE x = svc
        <5>1. thread'[svc].pc = "handle" /\ Entry(svc)' \in Ahead
          BY <2>2, <3>2, <4>2
        <5> QED
          BY <4>2, <5>1 DEF Tokens, HeldOpen
      <4> QED
        BY <4>1, <4>2
    <3>3. ASSUME NEW x \in Owners'
          PROVE  /\ thread'[x].pc # "count" => Open(Entry(x))'
                 /\ thread'[x].pc = "count" => Live(Entry(x))' /\ ~Open(Entry(x))'
      BY <1>1, <3>2, <3>3 DEF Open, Live, batch, Tokens, HeldOpen
    <3> QED
      BY <3>1, <3>3 DEF HeldOpen
  <2>9. ASSUME UNCHANGED out, Placed PROVE Placed'
    <3>1. ASSUME NEW c \in Places PROVE c \in Places'
      <4>1. CASE c \in Jobs \cup out \cup {Entry(svc)}
        BY <2>4, <2>9, <4>1 DEF Places
      <4>2. CASE c \in Ahead
        <5>1. c \in Ahead' \/ (c = Entry(svc)' /\ svc \in Owners')
          BY <2>2, <4>2
        <5> QED
          BY <5>1 DEF Places
      <4>3. CASE \E x \in Owners : x # svc /\ c = Entry(x)
        <5>1. PICK x \in Owners : x # svc /\ c = Entry(x)
          BY <4>3
        <5>2. x \in Owners' /\ Entry(x)' = Entry(x)
          BY <2>2, <5>1 DEF Owners
        <5> QED
          BY <5>1, <5>2 DEF Places
      <4> QED
        BY <4>1, <4>2, <4>3 DEF Places
    <3> QED
      BY <1>1, <2>9, <3>1, OpenUntouched DEF Placed
  <2> QED
    BY <2>5, <2>7, <2>8, <2>9 DEF Tokens
<1> QED
  BY <1>4, <1>5 DEF HandleSubmit, Entry

(* A thread takes a request that nobody has in hand: a job or a call. *)
LEMMA Takes ==
  ASSUME Typed, Tokens, NEW t \in Threads, t # svc, NEW c \in Jobs \cup out, c \in Calls,
         NEW pc \in Owning \ {"count"}, thread[t].pc = "idle",
         At(t, pc, c[1], c[2]), UNCHANGED <<batch, frames>>,
         queue' \in Seq(Calls), \A k, l \in DOMAIN queue' : queue'[k] = queue'[l] => k = l,
         Jobs' = Jobs \ {c}, out' = out \ {c}
  PROVE  Typed' /\ Tokens' /\ (Placed => Placed')
<1>1. c[1] \in Nat /\ c[2] \in Nat /\ <<c[1], c[2]>> = c /\ <<c[1], c[2]>> \in Calls
  BY DEF Calls
<1>2. pc \in Owning /\ pc # "sent" /\ pc # "count" /\ ThreadsTyped
  BY DEF Owning, Typed
<1>3. /\ ThreadsTyped' /\ thread'[t].pc = pc /\ Entry(t)' = c
      /\ \A x \in Threads : x # t => thread'[x] = thread[x] /\ Entry(x)' = Entry(x)
      /\ Owners' = Owners \cup {t}
  <2>1. PICK b \in Nat, i \in Nat : c = <<b, i>> /\ c[1] = b /\ c[2] = i
    BY <1>1
  <2>2. At(t, pc, b, i)
    BY <2>1
  <2>3. /\ ThreadsTyped' /\ thread'[t] = [pc |-> pc, body |-> b, entry |-> i]
        /\ Entry(t)' = <<b, i>>
        /\ \A x \in Threads : x # t => thread'[x] = thread[x]
        /\ \A x \in Threads : x # t => Entry(x)' = Entry(x)
        /\ Owners' = IF pc \in Owning THEN Owners \cup {t} ELSE Owners \ {t}
    BY <1>2, <2>1, <2>2, Moves
  <2> QED
    BY <1>2, <2>1, <2>3
<1>4. Ahead' = Ahead
  BY <1>3, AheadSame, ThreadKinds DEF batch
<1>5. t \notin Owners
  BY DEF Owners, Owning
<1>6. Typed'
  BY <1>3 DEF Typed, QueueTyped, BatchTyped, batch
<1>7. OneHolder'
  <2>1. \A x \in Owners : Entry(x) # c /\ Entry(x) \notin Ahead \cup Jobs \cup out
    BY DEF Tokens, OneHolder
  <2>2. \A x \in Owners : x # t /\ Entry(x)' = Entry(x)
    BY <1>3, <1>5 DEF Owners
  <2>3. \A x, y \in Owners' : Entry(x)' = Entry(y)' => x = y
    BY <1>3, <2>1, <2>2 DEF Tokens, OneHolder
  <2>4. c \notin Ahead
    BY DEF Tokens, OneHolder
  <2>5. \A x \in Owners' : Entry(x)' \notin Ahead \cup (Jobs \ {c}) \cup (out \ {c})
    BY <1>3, <2>1, <2>2, <2>4
  <2> QED
    BY <1>4, <2>3, <2>5 DEF Tokens, OneHolder
<1>8. Open(c)
  BY DEF Tokens, HeldOpen
<1>9. HeldOpen'
  <2>1. \A x \in Owners : x # t /\ x \in Threads
    BY <1>5 DEF Owners
  <2>2. \A d \in (Ahead \cup Jobs \cup out)' : Open(d)'
    BY <1>4, OpenUntouched DEF Tokens, HeldOpen
  <2>3. \A x \in Owners' : thread'[x].pc # "count" => Open(Entry(x))'
    <3> SUFFICES ASSUME NEW x \in Owners', thread'[x].pc # "count" PROVE Open(Entry(x))'
      OBVIOUS
    <3>1. CASE x = t
      BY <1>3, <1>8, <3>1, OpenUntouched DEF Open, Live, batch
    <3>2. CASE x # t
      <4>1. x \in Owners /\ Entry(x)' = Entry(x) /\ thread[x].pc # "count"
        BY <1>3, <2>1, <3>2
      <4>2. Open(Entry(x))
        BY <4>1 DEF Tokens, HeldOpen
      <4> QED
        BY <4>1, <4>2 DEF Open, Live, batch
    <3> QED
      BY <3>1, <3>2
  <2>4. \A x \in Owners' : thread'[x].pc = "count" => Live(Entry(x))' /\ ~Open(Entry(x))'
    <3> SUFFICES ASSUME NEW x \in Owners', thread'[x].pc = "count"
                 PROVE  Live(Entry(x))' /\ ~Open(Entry(x))'
      OBVIOUS
    <3>1. x # t
      BY <1>2, <1>3
    <3>2. x \in Owners /\ Entry(x)' = Entry(x) /\ thread[x].pc = "count"
      BY <1>3, <2>1, <3>1
    <3>3. Live(Entry(x)) /\ ~Open(Entry(x))
      BY <3>2 DEF Tokens, HeldOpen
    <3> QED
      BY <3>2, <3>3 DEF Open, Live, batch
  <2> QED
    BY <2>2, <2>3, <2>4 DEF HeldOpen
<1>10. ASSUME Placed PROVE Placed'
  <2>1. ASSUME NEW d \in Places PROVE d \in Places'
    <3>1. CASE d \in Ahead \cup Jobs \cup out
      <4>1. d = Entry(t)' \/ d \in Ahead' \cup Jobs' \cup out'
        BY <1>3, <1>4, <3>1
      <4> QED
        BY <1>3, <4>1 DEF Places
    <3>2. CASE \E x \in Owners : d = Entry(x)
      <4>1. PICK x \in Owners : d = Entry(x)
        BY <3>2
      <4>2. x \in Owners' /\ Entry(x)' = Entry(x)
        BY <1>3, <1>5, <4>1 DEF Owners
      <4> QED
        BY <4>1, <4>2 DEF Places
    <3> QED
      BY <3>1, <3>2 DEF Places
  <2> QED
    BY <1>10, <2>1, OpenUntouched DEF Placed
<1> QED
  BY <1>6, <1>7, <1>9, <1>10 DEF Tokens

LEMMA TakeJobTokens ==
  ASSUME Typed, Tokens, NEW p \in Pumps, TakeJob(p)
  PROVE  Typed' /\ Tokens' /\ (Placed => Placed')
<1>1. /\ thread[p].pc = "idle" /\ queue # <<>> /\ queue' = Tail(queue)
      /\ UNCHANGED <<batch, frames, out>>
  BY DEF TakeJob
<1>2. /\ queue' \in Seq(Calls) /\ Jobs' = Jobs \ {Head(queue)} /\ Head(queue) \in Jobs
      /\ Head(queue) \in Calls
      /\ \A k, l \in DOMAIN queue' : queue'[k] = queue'[l] => k = l
  BY <1>1, Taken DEF Typed, Tokens, OneHolder
<1>3. PICK pc \in {"invoke", "store"} : At(p, pc, Head(queue)[1], Head(queue)[2])
  BY DEF TakeJob
<1>4. pc \in Owning \ {"count"}
  BY DEF Owning
<1>5. out' = out \ {Head(queue)}
  BY <1>1, <1>2 DEF Tokens, OneHolder
<1> QED
  BY <1>1, <1>2, <1>3, <1>4, <1>5, Takes, ThreadKinds

LEMMA CallbackTokens ==
  ASSUME Typed, Tokens, NEW u \in Upstreams, NEW c \in Calls, Callback(u, c)
  PROVE  Typed' /\ Tokens' /\ (Placed => Placed')
<1>1. /\ thread[u].pc = "idle" /\ c \in out /\ out' = out \ {c} /\ At(u, "store", c[1], c[2])
      /\ UNCHANGED <<batch, frames, queue>>
  BY DEF Callback
<1>2. Jobs' = Jobs \ {c}
  BY <1>1 DEF Tokens, OneHolder, Jobs
<1>3. "store" \in Owning \ {"count"}
  BY DEF Owning
<1>4. queue' \in Seq(Calls) /\ \A k, l \in DOMAIN queue' : queue'[k] = queue'[l] => k = l
  BY <1>1 DEF Typed, QueueTyped, Tokens, OneHolder
<1> QED
  BY <1>1, <1>2, <1>3, <1>4, Takes, ThreadKinds

LEMMA InvokeAsyncTokens ==
  ASSUME Typed, Tokens, NEW p \in Pumps, InvokeAsync(p)
  PROVE  Typed' /\ Tokens' /\ (Placed => Placed')
<1>1. /\ thread[p].pc = "send" /\ out' = out \cup {Entry(p)} /\ At(p, "sent", 0, 0)
      /\ UNCHANGED <<batch, frames, queue>> /\ p \in Threads /\ p # svc
  BY ThreadKinds DEF InvokeAsync, Entry
<1>2. p \in Owners /\ thread[p].pc # "count"
  BY <1>1 DEF Owners, Owning
<1>3. /\ ThreadsTyped' /\ thread'[p].pc = "sent" /\ Owners' = Owners \ {p}
      /\ \A x \in Threads : x # p => thread'[x] = thread[x] /\ Entry(x)' = Entry(x)
  BY <1>1, Leaves DEF Typed
<1>4. Ahead' = Ahead /\ Jobs' = Jobs
  BY <1>1, <1>3, AheadSame, ThreadKinds DEF batch, Jobs
<1>5. Open(Entry(p)) /\ Entry(p) \in Calls
  BY <1>1, <1>2 DEF Tokens, HeldOpen, Typed, ThreadsTyped, Owners
<1>6. Typed'
  BY <1>1, <1>3, <1>5 DEF Typed, QueueTyped, BatchTyped, batch
<1>7. OneHolder'
  BY <1>1, <1>2, <1>3, <1>4 DEF Tokens, OneHolder, Owners
<1>8. HeldOpen'
  BY <1>1, <1>2, <1>3, <1>4, <1>5, OpenUntouched DEF Tokens, HeldOpen, Owners
<1>9. ASSUME Placed PROVE Placed'
  <2>1. ASSUME NEW c \in Places PROVE c \in Places'
    <3>1. CASE c \in Ahead \cup Jobs \cup out \cup {Entry(p)}
      BY <1>1, <1>4, <3>1 DEF Places
    <3>2. CASE \E x \in Owners : x # p /\ c = Entry(x)
      <4>1. PICK x \in Owners : x # p /\ c = Entry(x)
        BY <3>2
      <4>2. x \in Owners' /\ Entry(x)' = Entry(x)
        BY <1>3, <4>1 DEF Owners
      <4> QED
        BY <4>1, <4>2 DEF Places
    <3> QED
      BY <3>1, <3>2 DEF Places
  <2> QED
    BY <1>1, <1>9, <2>1, OpenUntouched DEF Placed
<1> QED
  BY <1>6, <1>7, <1>8, <1>9 DEF Tokens

LEMMA InvokeReturnTokens ==
  ASSUME Typed, Tokens, NEW p \in Pumps, InvokeReturn(p)
  PROVE  Typed' /\ Tokens' /\ (UNCHANGED out /\ Placed => Placed')
<1>1. /\ thread[p].pc = "sent" /\ out' \subseteq out /\ At(p, "idle", 0, 0)
      /\ UNCHANGED <<batch, frames, queue>> /\ p \in Threads /\ p # svc
  BY ThreadKinds DEF InvokeReturn, Release, Destroy
<1>2. /\ ThreadsTyped' /\ Owners' = Owners \ {p}
      /\ \A x \in Threads : x # p => thread'[x] = thread[x] /\ Entry(x)' = Entry(x)
  BY <1>1, Leaves DEF Typed
<1>3. Ahead' = Ahead /\ Jobs' = Jobs
  BY <1>1, <1>2, AheadSame, ThreadKinds DEF batch, Jobs
<1>4. Typed'
  BY <1>1, <1>2 DEF Typed, QueueTyped, BatchTyped, batch
<1>5. OneHolder'
  BY <1>1, <1>2, <1>3 DEF Tokens, OneHolder, Owners
<1>6. HeldOpen'
  BY <1>1, <1>2, <1>3, OpenUntouched DEF Tokens, HeldOpen, Owners
<1>7. ASSUME UNCHANGED out, Placed PROVE Placed'
  <2>1. Owners' = Owners /\ \A x \in Owners : Entry(x)' = Entry(x)
    BY <1>1, <1>2 DEF Owners, Owning
  <2>2. Places' = Places
    BY <1>3, <1>7, <2>1 DEF Places
  <2> QED
    BY <1>1, <1>7, <2>2, OpenUntouched DEF Placed
<1> QED
  BY <1>4, <1>5, <1>6, <1>7 DEF Tokens

(* Shutdown can only lose jobs and calls. *)
LEMMA ShutdownTokens ==
  ASSUME Typed, Tokens, Shutdown
  PROVE  Typed' /\ Tokens' /\ (UNCHANGED <<out, queue>> /\ Placed => Placed')
<1>1. /\ UNCHANGED <<batch, frames, thread>> /\ (queue' = queue \/ queue' = <<>>)
      /\ out' \subseteq out
  BY DEF Shutdown, Drain, CloseClients, ReleaseClients, PumpStop, PumpJoin, ServerStop, Destroy
<1>2. Owners' = Owners /\ Ahead' = Ahead /\ Jobs' \subseteq Jobs
      /\ \A x : Entry(x)' = Entry(x)
  BY <1>1 DEF Owners, Ahead, Jobs, Entry, batch
<1>3. Typed'
  <2>1. ThreadsTyped'
    BY <1>1, <1>2 DEF Typed, ThreadsTyped
  <2>2. QueueTyped'
    BY <1>1, EmptySeq DEF Typed, QueueTyped
  <2> QED
    BY <1>1, <2>1, <2>2 DEF Typed, BatchTyped, batch
<1>4. OneHolder'
  BY <1>1, <1>2 DEF Tokens, OneHolder
<1>5. HeldOpen'
  BY <1>1, <1>2, OpenUntouched DEF Tokens, HeldOpen
<1>6. ASSUME UNCHANGED <<out, queue>>, Placed PROVE Placed'
  <2>1. Jobs' = Jobs
    BY <1>6 DEF Jobs
  <2>2. Places' = Places
    BY <1>2, <1>6, <2>1 DEF Places
  <2> QED
    BY <1>1, <1>6, <2>2, OpenUntouched DEF Placed
<1> QED
  BY <1>3, <1>4, <1>5, <1>6 DEF Tokens

(* A thread lets go of a request that is answered. *)
LEMMA ReturnTokens ==
  ASSUME Typed, Tokens, NEW t \in Threads, Return(t), thread[t].pc \in {"count", "flush"},
         thread[t].body \in DOMAIN bodies, UNCHANGED <<bodies, queue, out>>,
         \A c : c \in Ahead \cup Jobs \cup out \/ (\E x \in Owners : x # t /\ c = Entry(x))
                  => (Live(c)' <=> Live(c)) /\ (Open(c)' <=> Open(c))
  PROVE  ThreadsTyped' /\ Tokens' /\ \A c \in Places : c = Entry(t) \/ c \in Places'
<1>1. thread[t].pc \in Owning \cup {"flush"}
  BY DEF Owning
<1>2. /\ ThreadsTyped'
      /\ \A x \in Threads : x # t => thread'[x] = thread[x] /\ Entry(x)' = Entry(x)
      /\ \/ thread'[t].pc = "idle" /\ Ahead' \subseteq Ahead /\ Owners' = Owners \ {t}
            /\ (t = svc => Ahead = {}) /\ (t # svc => Ahead' = Ahead)
         \/ /\ thread'[t].pc = "handle" /\ Owners' = Owners \cup {t}
            /\ Entry(t)' \in Ahead /\ Ahead' = Ahead \ {Entry(t)'}
  <2>1. /\ ThreadsTyped'
        /\ \A x \in Threads : x # t => thread'[x] = thread[x] /\ Entry(x)' = Entry(x)
        /\ \/ thread'[t].pc = "idle" /\ Ahead' \subseteq Ahead /\ Owners' = Owners \ {t}
              /\ (t = svc => Ahead = {})
           \/ /\ t = svc /\ thread'[t].pc = "handle" /\ Owners' = Owners \cup {t}
              /\ Entry(t)' \in Ahead /\ Ahead' = Ahead \ {Entry(t)'}
    BY <1>1, Returns
  <2>2. t # svc => Ahead' = Ahead
    BY <2>1, AheadSame, ThreadKinds
  <2> QED
    BY <2>1, <2>2
<1>3. Jobs' = Jobs /\ Ahead' \subseteq Ahead
  BY <1>2 DEF Jobs
<1>4. ASSUME NEW x \in Owners'
      PROVE  \/ x \in Owners /\ x # t /\ Entry(x)' = Entry(x) /\ thread'[x] = thread[x]
             \/ x = t /\ Entry(x)' \in Ahead \ Ahead' /\ thread'[x].pc = "handle"
  BY <1>2, <1>4 DEF Owners
<1>5. OneHolder'
  <2>1. \A x \in Owners' : Entry(x)' \notin Ahead' \cup Jobs' \cup out'
    BY <1>3, <1>4 DEF Tokens, OneHolder
  <2>2. \A x, y \in Owners' : Entry(x)' = Entry(y)' => x = y
    BY <1>4 DEF Tokens, OneHolder
  <2> QED
    BY <1>3, <2>1, <2>2 DEF Tokens, OneHolder
<1>6. HeldOpen'
  <2>1. \A c \in Ahead' \cup Jobs' \cup out' : Open(c)'
    BY <1>3 DEF Tokens, HeldOpen
  <2>2. ASSUME NEW x \in Owners'
        PROVE  /\ thread'[x].pc # "count" => Open(Entry(x))'
               /\ thread'[x].pc = "count" => Live(Entry(x))' /\ ~Open(Entry(x))'
    <3>1. CASE x \in Owners /\ x # t /\ Entry(x)' = Entry(x) /\ thread'[x] = thread[x]
      <4>1. (Live(Entry(x))' <=> Live(Entry(x))) /\ (Open(Entry(x))' <=> Open(Entry(x)))
        BY <3>1
      <4> QED
        BY <3>1, <4>1 DEF Tokens, HeldOpen
    <3>2. CASE Entry(x)' \in Ahead /\ thread'[x].pc = "handle"
      BY <3>2 DEF Tokens, HeldOpen
    <3> QED
      BY <1>4, <3>1, <3>2
  <2> QED
    BY <2>1, <2>2 DEF HeldOpen
<1>7. ASSUME NEW c \in Places, c # Entry(t) PROVE c \in Places'
  <2>1. CASE c \in Jobs \cup out
    BY <1>3, <2>1 DEF Places
  <2>2. CASE c \in Ahead
    <3>1. c \in Ahead' \/ (c = Entry(t)' /\ t \in Owners')
      BY <1>2, <2>2
    <3> QED
      BY <3>1 DEF Places
  <2>3. CASE \E x \in Owners : c = Entry(x)
    <3>1. PICK x \in Owners : c = Entry(x)
      BY <2>3
    <3>2. x \in Owners' /\ Entry(x)' = Entry(x)
      BY <1>2, <1>7, <3>1 DEF Owners
    <3> QED
      BY <3>1, <3>2 DEF Places
  <2> QED
    BY <2>1, <2>2, <2>3 DEF Places
<1> QED
  BY <1>2, <1>5, <1>6, <1>7 DEF Tokens

LEMMA StoreWhole ==
  ASSUME Whole, NEW t \in Threads, Store(t)
  PROVE  Whole' /\ (Placed => Placed')
<1> DEFINE b == thread[t].body
           i == thread[t].entry
<1>1. /\ thread[t].pc = "store" /\ At(t, "count", b, i)
      /\ slots' = [slots EXCEPT ![b][i] = Response(t)]
      /\ UNCHANGED <<bodies, remaining, frames, queue, out>>
  BY DEF Store
<1>2. /\ t \in Owners /\ Open(Entry(t)) /\ Entry(t) \in Calls
      /\ b \in Nat /\ i \in Nat /\ Entry(t) = <<b, i>>
  BY <1>1 DEF Whole, Typed, ThreadsTyped, Place, Tokens, HeldOpen, Owners, Owning, Entry
<1>3. b \in DOMAIN bodies /\ i \in DOMAIN bodies[b] /\ frames[b] = <<>> /\ slots[b][i] = Unfilled
  BY <1>2 DEF Open, Live
<1>4. b \in 1..MaxBodies /\ slots[b] = [j \in DOMAIN bodies[b] |-> slots[b][j]]
  BY <1>2, <1>3 DEF Calls, Whole, Books, Accounts
<1>5. /\ ThreadsTyped' /\ Owners' = Owners
      /\ thread'[t] = [pc |-> "count", body |-> b, entry |-> i]
      /\ \A x \in Threads : x # t => thread'[x] = thread[x]
      /\ \A x \in Threads : Entry(x)' = Entry(x)
  <2>1. "count" \in Owning /\ "count" # "sent" /\ ThreadsTyped /\ <<b, i>> \in Calls
    BY <1>2 DEF Owning, Whole, Typed
  <2>2. /\ ThreadsTyped' /\ thread'[t] = [pc |-> "count", body |-> b, entry |-> i]
        /\ Entry(t)' = <<b, i>>
        /\ \A x \in Threads : x # t => thread'[x] = thread[x]
        /\ \A x \in Threads : x # t => Entry(x)' = Entry(x)
        /\ Owners' = IF "count" \in Owning THEN Owners \cup {t} ELSE Owners \ {t}
    <3> HIDE DEF b, i
    <3> QED
      BY <1>1, <1>2, <2>1, Moves
  <2> QED
    BY <1>2, <2>1, <2>2
<1>6. Response(t) = Expected(bodies[b])[i] /\ Response(t) # Unfilled
  <2>1. bodies[b] # <<>>
    BY <1>3 DEF Whole, Books, Accounts
  <2>2. Expected(bodies[b])[i] = IF bodies[b][i] = "noid" THEN 0 ELSE i
    BY <1>3, <2>1 DEF Expected
  <2>3. i # Unfilled /\ 0 # Unfilled
    BY <1>2, CallPathAssumption DEF Calls, Unfilled
  <2> QED
    BY <2>2, <2>3 DEF Response, KindOf
<1>7. /\ slots'[b] = [j \in DOMAIN bodies[b] |-> slots'[b][j]]
      /\ slots'[b][i] = Response(t)
      /\ \A j \in DOMAIN bodies[b] : j # i => slots'[b][j] = slots[b][j]
      /\ \A x \in DOMAIN bodies : x # b => slots'[x] = slots[x]
      /\ slots' = [x \in 1..MaxBodies |-> slots'[x]]
  <2>1. slots = [x \in 1..MaxBodies |-> slots[x]] /\ DOMAIN bodies \subseteq 1..MaxBodies
    BY CallPathAssumption DEF Whole, Typed, BatchTyped
  <2>2. /\ slots' = [x \in 1..MaxBodies |-> slots'[x]]
        /\ \A x \in DOMAIN bodies : x # b => slots'[x] = slots[x]
        /\ slots'[b] = [slots[b] EXCEPT ![i] = Response(t)]
    <3> HIDE DEF b, i
    <3> QED
      BY <1>1, <1>4, <2>1
  <2> HIDE DEF b, i
  <2> QED
    BY <1>3, <1>4, <2>2
<1>8. \A c : Live(c)' <=> Live(c)
  BY <1>1 DEF Live
<1>9. ASSUME NEW c \in Calls, c # Entry(t) PROVE Open(c)' <=> Open(c)
  <2>1. c[1] # b \/ c[2] # i
    BY <1>2, <1>9 DEF Calls
  <2>2. Live(c) => slots'[c[1]][c[2]] = slots[c[1]][c[2]]
    BY <1>7, <2>1 DEF Live
  <2> QED
    BY <1>8, <2>2 DEF Open
<1>10. ~Open(Entry(t))'
  BY <1>2, <1>5, <1>6, <1>7 DEF Open
<1>11. Ahead' = Ahead /\ Jobs' = Jobs
  <2>1. /\ thread[svc].pc # "idle" <=> thread'[svc].pc # "idle"
        /\ thread'[svc].body = thread[svc].body /\ thread'[svc].entry = thread[svc].entry
    BY <1>1, <1>5, ThreadKinds, SMTT(30)
  <2> QED
    BY <1>1, <2>1, AheadSame DEF Jobs
<1>12. Typed'
  BY <1>1, <1>5, <1>7 DEF Whole, Typed, QueueTyped, BatchTyped
<1>13. OneHolder'
  BY <1>1, <1>5, <1>11 DEF Whole, Tokens, OneHolder, Owners
<1>14. HeldOpen'
  <2>1. Ahead \cup Jobs \cup out \subseteq Calls
    BY DEF Ahead, Jobs, Whole, Typed, QueueTyped
  <2>2. \A c \in Ahead \cup Jobs \cup out : Open(c)'
    BY <1>2, <1>9, <2>1 DEF Whole, Tokens, OneHolder, HeldOpen
  <2>3. ASSUME NEW x \in Owners, x # t
        PROVE  Entry(x) # Entry(t) /\ Entry(x) \in Calls /\ thread'[x] = thread[x]
    BY <1>2, <1>5, <2>3 DEF Whole, Tokens, OneHolder, Typed, ThreadsTyped, Owners
  <2>4. \A x \in Owners : x # t => (Open(Entry(x))' <=> Open(Entry(x)))
    BY <1>5, <1>9, <2>3 DEF Open, Live, Owners
  <2>5. \A x \in Owners : Live(Entry(x))' <=> Live(Entry(x))
    BY <1>1, <1>5 DEF Live, Owners
  <2>6. \A x \in Owners' :
          /\ thread'[x].pc # "count" => Open(Entry(x))'
          /\ thread'[x].pc = "count" => Live(Entry(x))' /\ ~Open(Entry(x))'
    BY <1>2, <1>5, <1>10, <2>3, <2>4, <2>5 DEF Whole, Tokens, HeldOpen, Open
  <2> QED
    BY <1>1, <1>11, <2>2, <2>6 DEF HeldOpen
<1>15. Counting' = Counting \cup {Entry(t)}
  BY <1>1, <1>5 DEF Counting
<1>16. \A x \in DOMAIN bodies : frames[x] = <<>> => Uncounted(x)' = Uncounted(x)
  <2> SUFFICES ASSUME NEW x \in DOMAIN bodies, NEW j \in DOMAIN bodies[x]
               PROVE  (slots'[x][j] = Unfilled \/ <<x, j>> \in Counting')
                        <=> (slots[x][j] = Unfilled \/ <<x, j>> \in Counting)
    BY <1>1 DEF Uncounted
  <2>1. CASE x = b /\ j = i
    BY <1>2, <1>3, <1>15, <2>1
  <2>2. CASE x # b \/ j # i
    <3>1. <<x, j>> # Entry(t)
      BY <1>2, <2>2
    <3> QED
      BY <1>7, <1>15, <2>2, <3>1
  <2> QED
    BY <2>1, <2>2
<1>17. Accounts'
  <2> SUFFICES ASSUME NEW x \in DOMAIN bodies, frames[x] = <<>>
               PROVE  /\ bodies[x] # <<>>
                      /\ slots'[x] = [j \in DOMAIN bodies[x] |-> slots'[x][j]]
                      /\ \A j \in DOMAIN bodies[x] : slots'[x][j] \in {Unfilled, Expected(bodies[x])[j]}
                      /\ remaining[x] = Cardinality(Uncounted(x)')
    BY <1>1 DEF Accounts
  <2>1. CASE x = b
    BY <1>3, <1>6, <1>7, <1>16, <2>1, ZenonT(60) DEF Whole, Books, Accounts
  <2>2. CASE x # b
    BY <1>7, <1>16, <2>2 DEF Whole, Books, Accounts
  <2> QED
    BY <2>1, <2>2
<1>18. Flushing'
  BY <1>1, <1>5, <1>16 DEF Whole, Books, Flushing
<1>19. AnsweredOnceAndWhole'
  BY <1>1 DEF Whole, Books, AnsweredOnceAndWhole
<1>20. Going'
  <2> SUFFICES ASSUME NEW x \in DOMAIN bodies, frames[x] = <<>>
               PROVE  \/ Uncounted(x)' # {}
                      \/ \E u \in Threads : /\ thread'[u].pc = "flush" /\ thread'[u].body = x
                                            /\ thread'[u].entry \in DOMAIN bodies[x]
    BY <1>1 DEF Going
  <2>1. CASE Uncounted(x) # {}
    BY <1>16, <2>1
  <2>2. CASE Uncounted(x) = {}
    <3>1. PICK u \in Threads : /\ thread[u].pc = "flush" /\ thread[u].body = x
                               /\ thread[u].entry \in DOMAIN bodies[x]
      BY <2>2 DEF Whole, Books, Going
    <3>2. thread'[u] = thread[u]
      BY <1>1, <1>5, <3>1
    <3> QED
      BY <3>1, <3>2
  <2> QED
    BY <2>1, <2>2
<1>21. ASSUME Placed PROVE Placed'
  <2>1. Places' = Places
    <3>1. {Entry(x)' : x \in Owners'} = {Entry(x) : x \in Owners}
      BY <1>5 DEF Owners
    <3> QED
      BY <1>1, <1>11, <3>1 DEF Places
  <2>2. \A c \in Calls : Open(c)' => Open(c)
    BY <1>2, <1>9
  <2> QED
    BY <1>21, <2>1, <2>2 DEF Placed
<1> QED
  BY <1>12, <1>13, <1>14, <1>17, <1>18, <1>19, <1>20, <1>21 DEF Whole, Tokens, Books

LEMMA CountWhole ==
  ASSUME Whole, NEW t \in Threads, Count(t)
  PROVE  Whole' /\ (Placed => Placed')
<1> DEFINE b == thread[t].body
           i == thread[t].entry
<1>1. /\ thread[t].pc = "count" /\ remaining' = [remaining EXCEPT ![b] = @ - 1]
      /\ IF remaining[b] = 1 THEN At(t, "flush", b, i) ELSE Return(t)
      /\ UNCHANGED <<bodies, slots, frames, queue, out>>
  BY DEF Count
<1>2. /\ t \in Owners /\ Live(Entry(t)) /\ ~Open(Entry(t)) /\ Entry(t) \in Calls
      /\ b \in Nat /\ i \in Nat /\ Entry(t) = <<b, i>>
  BY <1>1 DEF Whole, Typed, ThreadsTyped, Place, Tokens, HeldOpen, Owners, Owning, Entry
<1>3. /\ b \in DOMAIN bodies /\ i \in DOMAIN bodies[b] /\ frames[b] = <<>>
      /\ slots[b][i] # Unfilled
  BY <1>2 DEF Open, Live
<1>4. b \in 1..MaxBodies /\ remaining[b] = Cardinality(Uncounted(b))
  <2>1. b \in 1..MaxBodies
    BY <1>2 DEF Calls
  <2>2. remaining[b] = Cardinality(Uncounted(b))
    <3> HIDE DEF b
    <3> QED
      BY <1>3 DEF Whole, Books, Accounts
  <2> QED
    BY <2>1, <2>2
<1>5. \A c : (Live(c)' <=> Live(c)) /\ (Open(c)' <=> Open(c))
  BY <1>1 DEF Live, Open
<1>6. /\ ThreadsTyped' /\ Tokens'
      /\ \A x \in Threads : x # t => thread'[x] = thread[x] /\ Entry(x)' = Entry(x)
      /\ thread'[t].pc # "count"
      /\ thread'[t].pc = "flush" => remaining[b] = 1 /\ thread'[t].body = b
      /\ remaining[b] = 1 => thread'[t] = [pc |-> "flush", body |-> b, entry |-> i]
      /\ \A c \in Places : c = Entry(t) \/ c \in Places'
  <2>1. CASE remaining[b] = 1
    <3>1. /\ ThreadsTyped' /\ thread'[t] = [pc |-> "flush", body |-> b, entry |-> i]
          /\ \A x \in Threads : x # t => thread'[x] = thread[x] /\ Entry(x)' = Entry(x)
          /\ Owners' = Owners \ {t}
      <4>1. /\ "flush" \notin Owning /\ "flush" # "sent" /\ ThreadsTyped /\ <<b, i>> \in Calls
            /\ At(t, "flush", b, i)
        BY <1>1, <1>2, <2>1 DEF Owning, Whole, Typed
      <4> HIDE DEF b, i
      <4>2. /\ ThreadsTyped' /\ thread'[t] = [pc |-> "flush", body |-> b, entry |-> i]
            /\ \A x \in Threads : x # t => thread'[x] = thread[x]
            /\ \A x \in Threads : x # t => Entry(x)' = Entry(x)
            /\ Owners' = IF "flush" \in Owning THEN Owners \cup {t} ELSE Owners \ {t}
        BY <1>2, <4>1, Moves
      <4> QED
        BY <4>1, <4>2
    <3>2. Ahead' = Ahead /\ Jobs' = Jobs
      <4>1. /\ thread[svc].pc # "idle" <=> thread'[svc].pc # "idle"
            /\ thread'[svc].body = thread[svc].body /\ thread'[svc].entry = thread[svc].entry
        BY <1>1, <3>1, ThreadKinds
      <4> QED
        BY <1>1, <4>1, AheadSame DEF Jobs
    <3>3. OneHolder'
      BY <1>1, <3>1, <3>2 DEF Whole, Tokens, OneHolder, Owners
    <3>4. \A x \in Owners' : x \in Owners /\ Entry(x)' = Entry(x) /\ thread'[x] = thread[x]
      BY <3>1 DEF Owners
    <3>5. \A x \in Owners' : (Live(Entry(x))' <=> Live(Entry(x))) /\ (Open(Entry(x))' <=> Open(Entry(x)))
      BY <1>1, <3>4 DEF Live, Open
    <3>6. HeldOpen'
      BY <1>1, <1>5, <3>2, <3>4, <3>5 DEF Whole, Tokens, HeldOpen
    <3>7. ASSUME NEW c \in Places, c # Entry(t) PROVE c \in Places'
      <4>1. CASE c \in Ahead \cup Jobs \cup out
        BY <1>1, <3>2, <4>1 DEF Places
      <4>2. CASE \E x \in Owners : c = Entry(x)
        <5>1. PICK x \in Owners : c = Entry(x)
          BY <4>2
        <5>2. x \in Owners' /\ Entry(x)' = Entry(x)
          BY <3>1, <3>7, <5>1 DEF Owners
        <5> QED
          BY <5>1, <5>2 DEF Places
      <4> QED
        BY <4>1, <4>2 DEF Places
    <3> QED
      BY <2>1, <3>1, <3>3, <3>6, <3>7 DEF Tokens
  <2>2. CASE remaining[b] # 1
    <3>1. Return(t) /\ Typed /\ Tokens
      BY <1>1, <2>2 DEF Whole
    <3>2. ThreadsTyped' /\ Tokens' /\ \A c \in Places : c = Entry(t) \/ c \in Places'
      BY <1>1, <1>3, <1>5, <3>1, ReturnTokens
    <3>3. /\ \A x \in Threads : x # t => thread'[x] = thread[x] /\ Entry(x)' = Entry(x)
          /\ thread'[t].pc \in {"idle", "handle"}
      <4>1. thread[t].pc \in Owning \cup {"flush"}
        BY <1>1 DEF Owning
      <4> QED
        BY <1>1, <1>3, <3>1, <4>1, Returns
    <3> QED
      BY <2>2, <3>2, <3>3
  <2> QED
    BY <2>1, <2>2
<1>7. Counting' = Counting \ {Entry(t)}
  <2>1. \A x \in Threads : x # t /\ thread[x].pc = "count" => Entry(x) # Entry(t)
    BY <1>2 DEF Whole, Tokens, OneHolder, Owners, Owning
  <2> QED
    BY <1>1, <1>6, <2>1 DEF Counting
<1>8. ASSUME NEW x \in DOMAIN bodies
      PROVE  Uncounted(x)' = IF x = b THEN Uncounted(b) \ {i} ELSE Uncounted(x)
  <2> SUFFICES ASSUME NEW j \in DOMAIN bodies[x]
               PROVE  (slots[x][j] = Unfilled \/ <<x, j>> \in Counting')
                        <=> /\ x = b => j # i
                            /\ slots[x][j] = Unfilled \/ <<x, j>> \in Counting
    BY <1>1 DEF Uncounted
  <2>1. CASE x = b /\ j = i
    BY <1>2, <1>3, <1>7, <2>1
  <2>2. CASE x # b \/ j # i
    <3>1. <<x, j>> # Entry(t)
      BY <1>2, <2>2
    <3> QED
      BY <1>7, <2>2, <3>1
  <2> QED
    BY <2>1, <2>2
<1>9. i \in Uncounted(b) /\ IsFiniteSet(Uncounted(b))
  <2>1. Entry(t) \in Counting
    BY <1>1 DEF Counting
  <2>2. bodies[b] \in Seq(Kinds)
    BY <1>3 DEF Whole, Typed, BatchTyped
  <2>3. Len(bodies[b]) \in Nat /\ DOMAIN bodies[b] = 1..Len(bodies[b])
    BY <2>2
  <2>4. IsFiniteSet(1..Len(bodies[b]))
    BY <2>3, FS_Interval
  <2>5. Uncounted(b) \subseteq 1..Len(bodies[b])
    BY <2>3 DEF Uncounted
  <2>6. IsFiniteSet(Uncounted(b))
    BY <2>4, <2>5, FS_Subset
  <2> QED
    BY <1>2, <1>3, <2>1, <2>6 DEF Uncounted
<1>10. /\ IsFiniteSet(Uncounted(b) \ {i})
       /\ Cardinality(Uncounted(b) \ {i}) = Cardinality(Uncounted(b)) - 1
       /\ Cardinality(Uncounted(b)) \in Nat
  BY <1>9, FS_RemoveElement, FS_CardinalityType
<1>11. Typed'
  <2>1. remaining' = [x \in 1..MaxBodies |-> remaining'[x]]
    BY <1>1 DEF Whole, Typed, BatchTyped
  <2> QED
    BY <1>1, <1>6, <2>1 DEF Whole, Typed, QueueTyped, BatchTyped
<1>12. Accounts'
  <2>1. /\ remaining'[b] = remaining[b] - 1
        /\ \A x \in DOMAIN bodies : x # b => remaining'[x] = remaining[x]
    <3>1. DOMAIN bodies \subseteq 1..MaxBodies /\ remaining = [x \in 1..MaxBodies |-> remaining[x]]
      BY CallPathAssumption DEF Whole, Typed, BatchTyped
    <3> HIDE DEF b, i
    <3> QED
      BY <1>1, <1>4, <3>1
  <2> SUFFICES ASSUME NEW x \in DOMAIN bodies, frames[x] = <<>>
               PROVE  /\ bodies[x] # <<>>
                      /\ slots[x] = [j \in DOMAIN bodies[x] |-> slots[x][j]]
                      /\ \A j \in DOMAIN bodies[x] : slots[x][j] \in {Unfilled, Expected(bodies[x])[j]}
                      /\ remaining'[x] = Cardinality(Uncounted(x)')
    BY <1>1 DEF Accounts
  <2>2. remaining'[x] = Cardinality(Uncounted(x)')
    <3>1. CASE x = b
      BY <1>4, <1>8, <1>10, <2>1, <3>1
    <3>2. CASE x # b
      <4>1. Uncounted(x)' = Uncounted(x)
        BY <1>8, <3>2
      <4> QED
        BY <2>1, <3>2, <4>1 DEF Whole, Books, Accounts
    <3> QED
      BY <3>1, <3>2
  <2> QED
    BY <2>2 DEF Whole, Books, Accounts
<1>13. Flushing'
  <2>1. \A u \in Threads : u # t /\ thread[u].pc = "flush" => thread[u].body # b
    BY <1>9 DEF Whole, Books, Flushing
  <2>2. ASSUME NEW u \in Threads, thread'[u].pc = "flush", u # t
        PROVE  /\ thread'[u] = thread[u] /\ thread[u].body \in DOMAIN bodies
               /\ frames[thread[u].body] = <<>> /\ thread[u].body # b
               /\ Uncounted(thread[u].body) = {}
    BY <1>6, <2>1, <2>2 DEF Whole, Books, Flushing
  <2>3. ASSUME thread'[t].pc = "flush" PROVE thread'[t].body = b /\ Uncounted(b) \ {i} = {}
    <3>1. remaining[b] = 1 /\ thread'[t].body = b
      BY <1>6, <2>3
    <3>2. Cardinality(Uncounted(b) \ {i}) = 0
      BY <1>4, <1>10, <3>1
    <3> QED
      BY <1>10, <3>1, <3>2, FS_EmptySet
  <2>4. ASSUME NEW u \in Threads, thread'[u].pc = "flush"
        PROVE  /\ thread'[u].body \in DOMAIN bodies /\ frames[thread'[u].body] = <<>>
               /\ Uncounted(thread[u].body)' = {}
    <3>1. CASE u = t
      <4>1. thread'[t].body = b /\ Uncounted(b) \ {i} = {}
        BY <2>3, <2>4, <3>1
      <4>2. Uncounted(thread[t].body)' = {}
        BY <1>1, <1>3, <1>8, <4>1 DEF Uncounted
      <4> QED
        BY <1>3, <3>1, <4>1, <4>2
    <3>2. CASE u # t
      <4>1. /\ thread'[u] = thread[u] /\ thread[u].body \in DOMAIN bodies
            /\ frames[thread[u].body] = <<>> /\ thread[u].body # b
            /\ Uncounted(thread[u].body) = {}
        BY <2>2, <2>4, <3>2
      <4>2. Uncounted(thread[u].body)' = {}
        BY <1>1, <1>8, <4>1 DEF Uncounted
      <4> QED
        BY <4>1, <4>2
    <3> QED
      BY <3>1, <3>2
  <2>5. ASSUME NEW u \in Threads, NEW v \in Threads, thread'[u].pc = "flush",
               thread'[v].pc = "flush", thread'[v].body = thread'[u].body
        PROVE  u = v
    <3>1. CASE u = t \/ v = t
      BY <1>6, <2>2, <2>5, <3>1
    <3>2. CASE u # t /\ v # t
      BY <1>6, <2>5, <3>2 DEF Whole, Books, Flushing
    <3> QED
      BY <3>1, <3>2
  <2> QED
    BY <1>1, <2>4, <2>5 DEF Flushing
<1>14. AnsweredOnceAndWhole'
  BY <1>1 DEF Whole, Books, AnsweredOnceAndWhole
<1>15. Going'
  <2> SUFFICES ASSUME NEW x \in DOMAIN bodies, frames[x] = <<>>
               PROVE  \/ Uncounted(x)' # {}
                      \/ \E u \in Threads : /\ thread'[u].pc = "flush" /\ thread'[u].body = x
                                            /\ thread'[u].entry \in DOMAIN bodies[x]
    BY <1>1 DEF Going
  <2>1. CASE x = b
    <3>1. CASE remaining[b] = 1
      <4>1. thread'[t].pc = "flush" /\ thread'[t].body = b /\ thread'[t].entry = i
        BY <1>6, <3>1
      <4> QED
        BY <1>3, <2>1, <4>1
    <3>2. CASE remaining[b] # 1
      <4>1. Cardinality(Uncounted(b) \ {i}) # 0
        BY <1>4, <1>10, <3>2
      <4>2. Uncounted(b) \ {i} # {}
        BY <4>1, FS_EmptySet
      <4> QED
        BY <1>8, <2>1, <4>2
    <3> QED
      BY <3>1, <3>2
  <2>2. CASE x # b
    <3>1. Uncounted(x)' = Uncounted(x)
      BY <1>8, <2>2
    <3>2. CASE Uncounted(x) = {}
      <4>1. PICK u \in Threads : /\ thread[u].pc = "flush" /\ thread[u].body = x
                                 /\ thread[u].entry \in DOMAIN bodies[x]
        BY <3>2 DEF Whole, Books, Going
      <4>2. thread'[u] = thread[u]
        BY <1>1, <1>6, <4>1
      <4> QED
        BY <4>1, <4>2
    <3> QED
      BY <3>1, <3>2
  <2> QED
    BY <2>1, <2>2
<1>16. ASSUME Placed PROVE Placed'
  BY <1>2, <1>5, <1>6, <1>16 DEF Placed
<1> QED
  BY <1>6, <1>11, <1>12, <1>13, <1>14, <1>15, <1>16 DEF Whole, Books

(* The batch is taken apart: nobody is at one of its requests any more, and *)
(* each has its own response.                                              *)
LEMMA FlushWhole ==
  ASSUME Whole, NEW t \in Threads, Flush(t)
  PROVE  Whole' /\ (Placed => Placed')
<1> DEFINE b == thread[t].body
<1>1. /\ thread[t].pc = "flush" /\ Return(t)
      /\ frames' = [frames EXCEPT ![b] = Append(@, Responses(slots[b]))]
      /\ slots' = [slots EXCEPT ![b] = <<>>]
      /\ UNCHANGED <<bodies, remaining, queue, out>>
  BY DEF Flush
<1>2. /\ b \in DOMAIN bodies /\ frames[b] = <<>> /\ Uncounted(b) = {}
      /\ \A u \in Threads : thread[u].pc = "flush" /\ thread[u].body = b => t = u
  BY <1>1 DEF Whole, Books, Flushing
<1>3. DOMAIN bodies \subseteq 1..MaxBodies
  BY CallPathAssumption DEF Whole, Typed, BatchTyped
<1>4. /\ frames'[b] = <<Responses(slots[b])>>
      /\ \A x \in 1..MaxBodies : x # b => frames'[x] = frames[x] /\ slots'[x] = slots[x]
      /\ frames' = [x \in 1..MaxBodies |-> frames'[x]]
      /\ slots' = [x \in 1..MaxBodies |-> slots'[x]]
  <2>1. /\ frames = [x \in 1..MaxBodies |-> frames[x]]
        /\ slots = [x \in 1..MaxBodies |-> slots[x]]
    BY DEF Whole, Typed, BatchTyped
  <2>2. b \in 1..MaxBodies /\ Append(frames[b], Responses(slots[b])) = <<Responses(slots[b])>>
    BY <1>2, <1>3
  <2> HIDE DEF b
  <2> QED
    BY <1>1, <2>1, <2>2
<1>5. ASSUME NEW c, c \in Ahead \cup Jobs \cup out \/ (\E x \in Owners : x # t /\ c = Entry(x))
      PROVE  c[1] # b
  <2>1. CASE Open(c)
    BY <1>2, <2>1 DEF Open, Live, Uncounted
  <2>2. CASE ~Open(c)
    <3>1. PICK x \in Owners : c = Entry(x) /\ thread[x].pc = "count" /\ Live(c)
      BY <1>5, <2>2 DEF Whole, Tokens, HeldOpen
    <3>2. c \in Counting /\ c = <<thread[x].body, thread[x].entry>>
      BY <3>1 DEF Counting, Owners, Entry
    <3> QED
      BY <1>2, <3>1, <3>2 DEF Live, Uncounted
  <2> QED
    BY <2>1, <2>2
<1>6. ASSUME NEW c, c \in Ahead \cup Jobs \cup out \/ (\E x \in Owners : x # t /\ c = Entry(x))
      PROVE  (Live(c)' <=> Live(c)) /\ (Open(c)' <=> Open(c))
  <2>1. c[1] # b
    BY <1>5, <1>6
  <2>2. c[1] \in DOMAIN bodies => frames'[c[1]] = frames[c[1]] /\ slots'[c[1]] = slots[c[1]]
    BY <1>3, <1>4, <2>1
  <2> QED
    BY <1>1, <2>2 DEF Live, Open
<1>7. Typed /\ Tokens
  BY DEF Whole
<1>8. ThreadsTyped' /\ Tokens' /\ \A c \in Places : c = Entry(t) \/ c \in Places'
  BY <1>1, <1>2, <1>6, <1>7, ReturnTokens
<1>9. /\ \A x \in Threads : x # t => thread'[x] = thread[x] /\ Entry(x)' = Entry(x)
      /\ thread'[t].pc \in {"idle", "handle"}
  <2>1. thread[t].pc \in Owning \cup {"flush"}
    BY <1>1, SMTT(30)
  <2> QED
    BY <1>1, <1>2, <1>7, <2>1, Returns
<1>10. Typed'
  BY <1>1, <1>4, <1>8 DEF Whole, Typed, QueueTyped, BatchTyped
<1>11. Counting' = Counting
  BY <1>1, <1>9 DEF Counting
<1>12. \A x \in DOMAIN bodies : x # b => Uncounted(x)' = Uncounted(x)
  BY <1>1, <1>3, <1>4, <1>11 DEF Uncounted
<1>13. Accounts' /\ Going'
  <2> SUFFICES ASSUME NEW x \in DOMAIN bodies, frames'[x] = <<>>
               PROVE  /\ bodies[x] # <<>>
                      /\ slots'[x] = [j \in DOMAIN bodies[x] |-> slots'[x][j]]
                      /\ \A j \in DOMAIN bodies[x] : slots'[x][j] \in {Unfilled, Expected(bodies[x])[j]}
                      /\ remaining[x] = Cardinality(Uncounted(x)')
                      /\ \/ Uncounted(x)' # {}
                         \/ \E u \in Threads : /\ thread'[u].pc = "flush" /\ thread'[u].body = x
                                               /\ thread'[u].entry \in DOMAIN bodies[x]
    BY <1>1 DEF Accounts, Going
  <2>1. x # b
    <3>1. <<Responses(slots[b])>> # <<>> /\ frames'[b] = <<Responses(slots[b])>>
      BY <1>4
    <3> HIDE DEF b
    <3> QED
      BY <3>1
  <2>2. frames'[x] = frames[x] /\ slots'[x] = slots[x] /\ Uncounted(x)' = Uncounted(x)
    BY <1>3, <1>4, <1>12, <2>1
  <2>3. CASE Uncounted(x) = {}
    <3>1. PICK u \in Threads : /\ thread[u].pc = "flush" /\ thread[u].body = x
                               /\ thread[u].entry \in DOMAIN bodies[x]
      BY <2>2, <2>3 DEF Whole, Books, Going
    <3>2. u # t
      BY <2>1, <3>1
    <3>3. thread'[u] = thread[u]
      BY <1>9, <3>2
    <3> QED
      BY <2>2, <3>1, <3>3 DEF Whole, Books, Accounts
  <2>4. CASE Uncounted(x) # {}
    BY <2>2, <2>4 DEF Whole, Books, Accounts
  <2> QED
    BY <2>3, <2>4
<1>14. Flushing'
  <2>1. ASSUME NEW u \in Threads, thread'[u].pc = "flush"
        PROVE  /\ thread'[u] = thread[u] /\ u # t /\ thread[u].pc = "flush" /\ thread[u].body # b
               /\ thread[u].body \in DOMAIN bodies /\ frames[thread[u].body] = <<>>
               /\ Uncounted(thread[u].body) = {}
    BY <1>2, <1>9, <2>1 DEF Whole, Books, Flushing
  <2>2. ASSUME NEW u \in Threads, thread'[u].pc = "flush"
        PROVE  /\ thread'[u].body \in DOMAIN bodies /\ frames'[thread'[u].body] = <<>>
               /\ Uncounted(thread[u].body)' = {}
    <3>1. /\ thread'[u] = thread[u] /\ thread[u].body # b
          /\ thread[u].body \in DOMAIN bodies /\ frames[thread[u].body] = <<>>
          /\ Uncounted(thread[u].body) = {}
      BY <2>1, <2>2
    <3>2. Uncounted(thread[u].body)' = {}
      BY <1>1, <1>3, <1>4, <1>11, <3>1 DEF Uncounted
    <3> QED
      BY <1>3, <1>4, <3>1, <3>2
  <2>3. ASSUME NEW u \in Threads, NEW v \in Threads, thread'[u].pc = "flush",
               thread'[v].pc = "flush", thread'[v].body = thread'[u].body
        PROVE  u = v
    BY <2>1, <2>3 DEF Whole, Books, Flushing
  <2> QED
    BY <1>1, <2>2, <2>3 DEF Flushing
<1>15. Responses(slots[b]) = Expected(bodies[b])
  <2>1. /\ bodies[b] # <<>> /\ DOMAIN slots[b] = DOMAIN bodies[b]
        /\ \A j \in DOMAIN bodies[b] : slots[b][j] \in {Unfilled, Expected(bodies[b])[j]}
    <3> HIDE DEF b
    <3> QED
      BY <1>2 DEF Whole, Books, Accounts
  <2>2. \A j \in DOMAIN bodies[b] : slots[b][j] # Unfilled
    BY <1>2 DEF Uncounted
  <2>3. Responses(slots[b]) = [j \in DOMAIN bodies[b] |-> slots[b][j]]
    BY <2>1, <2>2 DEF Responses
  <2>4. Expected(bodies[b]) = [j \in DOMAIN bodies[b] |-> Expected(bodies[b])[j]]
    BY <2>1 DEF Expected
  <2> QED
    BY <2>1, <2>2, <2>3, <2>4
<1>16. AnsweredOnceAndWhole'
  <2> SUFFICES ASSUME NEW x \in 1..MaxBodies, frames'[x] # <<>>
               PROVE  x <= Len(bodies) /\ frames'[x] = <<Expected(bodies[x])>>
    BY <1>1 DEF AnsweredOnceAndWhole
  <2>1. CASE x = b
    BY <1>2, <1>4, <1>15, <2>1 DEF Whole, Typed, BatchTyped
  <2>2. CASE x # b
    BY <1>4, <2>2 DEF Whole, Books, AnsweredOnceAndWhole
  <2> QED
    BY <2>1, <2>2
<1>17. ASSUME Placed PROVE Placed'
  <2> SUFFICES ASSUME NEW c \in Calls, Open(c)' PROVE c \in Places'
    BY DEF Placed
  <2>1. c[1] \in DOMAIN bodies /\ frames'[c[1]] = <<>>
    BY <1>1 DEF Open, Live
  <2>2. c[1] # b
    <3>1. <<Responses(slots[b])>> # <<>> /\ frames'[b] = <<Responses(slots[b])>>
      BY <1>4
    <3> HIDE DEF b
    <3> QED
      BY <2>1, <3>1
  <2>3. frames'[c[1]] = frames[c[1]] /\ slots'[c[1]] = slots[c[1]]
    BY <1>3, <1>4, <2>1, <2>2
  <2>4. Open(c)
    BY <1>1, <2>3 DEF Open, Live
  <2>5. c # Entry(t)
    BY <2>2 DEF Entry
  <2> QED
    BY <1>8, <1>17, <2>4, <2>5 DEF Placed
<1> QED
  BY <1>8, <1>10, <1>13, <1>14, <1>16, <1>17 DEF Whole, Books

(* A body is a sequence of kinds, and its batch is at most as large as     *)
(* allowed.                                                                *)
LEMMA AcceptedBody ==
  ASSUME NEW body \in Bodies, Accepted(body)
  PROVE  /\ body \in Seq(Kinds) /\ body # <<>>
         /\ Len(body) \in 1..MaxInFlight /\ DOMAIN body = 1..Len(body)
<1>1. PICK n \in 0..(MaxInFlight + 1) : body \in [1..n -> Kinds]
  BY DEF Bodies
<1>2. body \in Seq(Kinds)
  BY <1>1, CallPathAssumption
<1>3. Len(body) \in 1..MaxInFlight
  BY DEF Accepted
<1> QED
  BY <1>2, <1>3, CallPathAssumption

(* A body refused as a whole is answered at once. *)
LEMMA RefusedWhole ==
  ASSUME Whole, NEW b \in 1..MaxBodies, b = Len(bodies) + 1,
         bodies' = Append(bodies, <<>>), frames' = [frames EXCEPT ![b] = Append(@, << 0 >>)],
         UNCHANGED <<slots, remaining, thread, queue, out>>, thread[svc].pc = "idle"
  PROVE  Whole' /\ (Placed => Placed')
<1>1. /\ bodies \in Seq(Seq(Kinds)) /\ DOMAIN bodies = 1..Len(bodies) /\ Len(bodies) \in Nat
      /\ <<>> \in Seq(Kinds)
  BY EmptySeq DEF Whole, Typed, BatchTyped
<1>2. /\ bodies' \in Seq(Seq(Kinds)) /\ Len(bodies') = b /\ DOMAIN bodies' = 1..b
      /\ \A x \in DOMAIN bodies : bodies'[x] = bodies[x] /\ x # b /\ x \in DOMAIN bodies'
      /\ \A x \in DOMAIN bodies' : x # b => x \in DOMAIN bodies
      /\ bodies'[b] = <<>>
  BY <1>1
<1>3. frames[b] = <<>>
  BY <1>1 DEF Whole, Books, AnsweredOnceAndWhole
<1>4. /\ frames'[b] = <<<<0>>>> /\ frames'[b] # <<>>
      /\ frames' = [x \in 1..MaxBodies |-> frames'[x]]
      /\ \A x \in 1..MaxBodies : x # b => frames'[x] = frames[x]
  <2>1. frames = [x \in 1..MaxBodies |-> frames[x]]
    BY DEF Whole, Typed, BatchTyped
  <2>2. PICK r : r = <<0>>
    OBVIOUS
  <2>3. Append(frames[b], r) = <<r>> /\ <<r>> # <<>>
    BY <1>3
  <2> QED
    BY <2>1, <2>2, <2>3
<1>5. DOMAIN bodies \subseteq 1..MaxBodies
  BY <1>1, CallPathAssumption DEF Whole, Typed, BatchTyped
<1>6. Owners' = Owners /\ Jobs' = Jobs /\ Counting' = Counting /\ \A x : Entry(x)' = Entry(x)
  BY DEF Owners, Jobs, Counting, Entry
<1>7. Ahead = {} /\ Ahead' = {}
  BY DEF Ahead
<1>8. \A c : c[1] \in DOMAIN bodies => (Live(c)' <=> Live(c)) /\ (Open(c)' <=> Open(c))
  BY <1>2, <1>4, <1>5 DEF Live, Open
<1>9. \A x \in DOMAIN bodies : Uncounted(x)' = Uncounted(x)
  BY <1>2, <1>6 DEF Uncounted
<1>10. Typed'
  <2>1. \A x \in DOMAIN bodies' : Len(bodies'[x]) <= MaxInFlight
    <3>1. Len(<<>>) <= MaxInFlight
      BY CallPathAssumption
    <3> QED
      BY <1>2, <3>1 DEF Whole, Typed, BatchTyped
  <2>2. BatchTyped'
    BY <1>2, <1>4, <2>1 DEF Whole, Typed, BatchTyped
  <2> QED
    BY <1>6, <2>2 DEF Whole, Typed, ThreadsTyped, QueueTyped
<1>11. OneHolder'
  BY <1>6, <1>7 DEF Whole, Tokens, OneHolder
<1>12. HeldOpen'
  <2>1. \A c \in Jobs \cup out : Open(c)'
    BY <1>8 DEF Whole, Tokens, HeldOpen, Open, Live
  <2>2. \A x \in Owners : /\ thread[x].pc # "count" => Open(Entry(x))'
                          /\ thread[x].pc = "count" => Live(Entry(x))' /\ ~Open(Entry(x))'
    <3>1. ASSUME NEW x \in Owners PROVE Entry(x)[1] \in DOMAIN bodies
      BY DEF Whole, Tokens, HeldOpen, Open, Live
    <3>2. ASSUME NEW x \in Owners
          PROVE (Live(Entry(x))' <=> Live(Entry(x))) /\ (Open(Entry(x))' <=> Open(Entry(x)))
      BY <1>2, <1>4, <1>5, <1>6, <3>1 DEF Live, Open
    <3> QED
      BY <3>2 DEF Whole, Tokens, HeldOpen
  <2> QED
    BY <1>6, <1>7, <2>1, <2>2 DEF HeldOpen
<1>13. Accounts' /\ Going'
  <2> SUFFICES ASSUME NEW x \in DOMAIN bodies', frames'[x] = <<>>
               PROVE  /\ bodies'[x] # <<>>
                      /\ slots[x] = [j \in DOMAIN bodies'[x] |-> slots[x][j]]
                      /\ \A j \in DOMAIN bodies'[x] : slots[x][j] \in {Unfilled, Expected(bodies'[x])[j]}
                      /\ remaining[x] = Cardinality(Uncounted(x)')
                      /\ \/ Uncounted(x)' # {}
                         \/ \E u \in Threads : /\ thread[u].pc = "flush" /\ thread[u].body = x
                                               /\ thread[u].entry \in DOMAIN bodies'[x]
    BY DEF Accounts, Expected, Going
  <2>1. /\ x \in DOMAIN bodies /\ frames[x] = <<>> /\ bodies'[x] = bodies[x]
        /\ Uncounted(x)' = Uncounted(x)
    BY <1>2, <1>4, <1>5, <1>9
  <2> QED
    BY <2>1 DEF Whole, Books, Accounts, Going
<1>14. Flushing'
  <2>1. ASSUME NEW u \in Threads, thread[u].pc = "flush"
        PROVE  /\ thread[u].body \in DOMAIN bodies' /\ frames'[thread[u].body] = <<>>
               /\ Uncounted(thread[u].body)' = {}
    <3>1. /\ thread[u].body \in DOMAIN bodies /\ frames[thread[u].body] = <<>>
          /\ Uncounted(thread[u].body) = {}
      BY <2>1 DEF Whole, Books, Flushing
    <3>2. Uncounted(thread[u].body)' = {}
      BY <1>2, <1>6, <3>1 DEF Uncounted
    <3> QED
      BY <1>2, <1>4, <1>5, <3>1, <3>2
  <2> QED
    BY <2>1 DEF Whole, Books, Flushing
<1>15. AnsweredOnceAndWhole'
  <2> SUFFICES ASSUME NEW x \in 1..MaxBodies, frames'[x] # <<>>
               PROVE  x <= Len(bodies') /\ frames'[x] = <<Expected(bodies'[x])>>
    BY DEF AnsweredOnceAndWhole, Expected
  <2>1. CASE x = b
    BY <1>2, <1>4, <2>1 DEF Expected
  <2>2. CASE x # b
    <3>1. x <= Len(bodies) /\ frames'[x] = <<Expected(bodies[x])>>
      BY <1>4, <2>2 DEF Whole, Books, AnsweredOnceAndWhole
    <3> QED
      BY <1>1, <1>2, <3>1
  <2> QED
    BY <2>1, <2>2
<1>16. ASSUME Placed PROVE Placed'
  <2>1. Places' = Places
    <3>1. {Entry(x)' : x \in Owners'} = {Entry(x) : x \in Owners}
      BY <1>6
    <3> QED
      BY <1>6, <1>7, <3>1 DEF Places
  <2>2. ASSUME NEW c \in Calls, Open(c)' PROVE Open(c)
    <3>1. c[1] \in DOMAIN bodies' /\ frames'[c[1]] = <<>>
      BY <2>2 DEF Open, Live
    <3>2. c[1] \in DOMAIN bodies
      BY <1>2, <1>4, <3>1
    <3> QED
      BY <1>8, <2>2, <3>2
  <2> QED
    BY <1>16, <2>1, <2>2 DEF Placed
<1> QED
  BY <1>10, <1>11, <1>12, <1>13, <1>14, <1>15, <1>16 DEF Whole, Tokens, Books

(* An accepted body opens a batch, all of it ahead of the service thread. *)
LEMMA AcceptedWhole ==
  ASSUME Whole, NEW body \in Seq(Kinds), body # <<>>, Len(body) \in 1..MaxInFlight,
         DOMAIN body = 1..Len(body), NEW b \in 1..MaxBodies, b = Len(bodies) + 1,
         bodies' = Append(bodies, body),
         slots' = [slots EXCEPT ![b] = [i \in DOMAIN body |-> Unfilled]],
         remaining' = [remaining EXCEPT ![b] = Len(body)],
         At(svc, "handle", b, 1), UNCHANGED <<frames, queue, out>>, thread[svc].pc = "idle"
  PROVE  Whole' /\ (Placed => Placed')
<1>1. /\ bodies \in Seq(Seq(Kinds)) /\ DOMAIN bodies = 1..Len(bodies) /\ Len(bodies) \in Nat
      /\ DOMAIN bodies \subseteq 1..MaxBodies
  BY CallPathAssumption DEF Whole, Typed, BatchTyped
<1>2. /\ bodies' \in Seq(Seq(Kinds)) /\ Len(bodies') = b /\ DOMAIN bodies' = 1..b
      /\ \A x \in DOMAIN bodies : bodies'[x] = bodies[x] /\ x # b /\ x \in DOMAIN bodies'
      /\ \A x \in DOMAIN bodies' : x # b => x \in DOMAIN bodies
      /\ bodies'[b] = body
  BY <1>1
<1>3. frames[b] = <<>>
  BY <1>1 DEF Whole, Books, AnsweredOnceAndWhole
<1>4. /\ slots' = [x \in 1..MaxBodies |-> slots'[x]]
      /\ remaining' = [x \in 1..MaxBodies |-> remaining'[x]]
      /\ slots'[b] = [i \in DOMAIN body |-> Unfilled] /\ remaining'[b] = Len(body)
      /\ \A x \in DOMAIN bodies : slots'[x] = slots[x] /\ remaining'[x] = remaining[x]
  <2>1. slots = [x \in 1..MaxBodies |-> slots[x]] /\ remaining = [x \in 1..MaxBodies |-> remaining[x]]
    BY DEF Whole, Typed, BatchTyped
  <2> QED
    BY <1>1, <1>2, <2>1
<1>5. b \in Nat /\ 1 \in Nat /\ <<b, 1>> \in Calls
  BY CallPathAssumption DEF Calls
<1>6. /\ ThreadsTyped' /\ thread'[svc] = [pc |-> "handle", body |-> b, entry |-> 1]
      /\ Entry(svc)' = <<b, 1>> /\ Owners' = Owners \cup {svc}
      /\ \A x \in Threads : x # svc => thread'[x] = thread[x] /\ Entry(x)' = Entry(x)
  <2>1. "handle" \in Owning /\ "handle" # "sent" /\ ThreadsTyped /\ svc \in Threads
        /\ "handle" \in Owning \cup {"idle", "sent", "flush"}
    BY ThreadKinds DEF Owning, Whole, Typed
  <2>2. /\ ThreadsTyped' /\ thread'[svc] = [pc |-> "handle", body |-> b, entry |-> 1]
        /\ Entry(svc)' = <<b, 1>>
        /\ \A x \in Threads : x # svc => thread'[x] = thread[x]
        /\ \A x \in Threads : x # svc => Entry(x)' = Entry(x)
        /\ Owners' = IF "handle" \in Owning THEN Owners \cup {svc} ELSE Owners \ {svc}
    BY <1>5, <2>1, Moves, Zenon
  <2> QED
    BY <2>1, <2>2
<1>7. Ahead = {} /\ Jobs' = Jobs
  BY DEF Ahead, Jobs
<1>8. \A c \in Ahead' : c \in Calls /\ c[1] = b /\ c[2] # 1 /\ c[2] \in DOMAIN body
  BY <1>2, <1>6 DEF Ahead, Calls
<1>9. Counting' = Counting
  <2>1. {u \in Threads : thread'[u].pc = "count"} = {u \in Threads : thread[u].pc = "count"}
    <3>1. ASSUME NEW u \in Threads PROVE thread'[u].pc = "count" <=> thread[u].pc = "count"
      <4>1. CASE u = svc
        BY <1>6, <4>1
      <4>2. CASE u # svc
        BY <1>6, <4>2
      <4> QED
        BY <4>1, <4>2
    <3> QED
      BY <3>1
  <2>2. \A u \in Threads : thread[u].pc = "count" => Entry(u)' = Entry(u)
    BY <1>6
  <2> QED
    BY <2>1, <2>2 DEF Counting
<1>10. \A c : c[1] \in DOMAIN bodies => (Live(c)' <=> Live(c)) /\ (Open(c)' <=> Open(c))
  BY <1>2, <1>4 DEF Live, Open
<1>11. svc \notin Owners /\ \A c \in Jobs \cup out : c[1] \in DOMAIN bodies
  BY DEF Owners, Owning, Whole, Tokens, HeldOpen, Open, Live
<1>12. \A x \in Owners : Entry(x)[1] \in DOMAIN bodies
  BY DEF Whole, Tokens, HeldOpen, Open, Live
<1>13. Typed'
  <2>1. \A x \in DOMAIN bodies' : Len(bodies'[x]) <= MaxInFlight
    BY <1>2 DEF Whole, Typed, BatchTyped
  <2>2. BatchTyped'
    BY <1>2, <1>4, <2>1 DEF Whole, Typed, BatchTyped
  <2> QED
    BY <1>6, <2>2 DEF Whole, Typed, QueueTyped
<1>14. OneHolder'
  <2>1. b \notin DOMAIN bodies
    BY <1>2
  <2>2. Ahead' \cap Jobs' = {} /\ Ahead' \cap out' = {} /\ Jobs' \cap out' = {}
    BY <1>7, <1>8, <1>11, <2>1 DEF Whole, Tokens, OneHolder
  <2>3. \A x \in Owners : x # svc /\ Entry(x)' = Entry(x) /\ Entry(x)[1] # b
    BY <1>6, <1>11, <1>12, <2>1 DEF Owners
  <2>4. \A x, y \in Owners' : Entry(x)' = Entry(y)' => x = y
    BY <1>6, <2>3 DEF Whole, Tokens, OneHolder
  <2>5. \A x \in Owners' : Entry(x)' \notin Ahead' \cup Jobs' \cup out'
    BY <1>6, <1>7, <1>8, <1>11, <2>1, <2>3 DEF Whole, Tokens, OneHolder
  <2> QED
    BY <2>2, <2>4, <2>5 DEF Whole, Tokens, OneHolder
<1>15. HeldOpen'
  <2>1. ASSUME NEW i \in DOMAIN body, NEW c, c[1] = b, c[2] = i PROVE Open(c)'
    BY <1>2, <1>3, <1>4, <2>1 DEF Open, Live
  <2>2. Open(Entry(svc))'
    <3>1. 1 \in DOMAIN body /\ Entry(svc)'[1] = b /\ Entry(svc)'[2] = 1
      BY <1>6
    <3> QED
      BY <1>2, <1>3, <1>4, <3>1 DEF Open, Live
  <2>3. \A c \in Ahead' \cup Jobs' \cup out' : Open(c)'
    BY <1>7, <1>8, <1>10, <1>11, <2>1 DEF Whole, Tokens, HeldOpen
  <2>4. \A x \in Owners : /\ thread'[x] = thread[x] /\ Entry(x)' = Entry(x)
                          /\ (Live(Entry(x))' <=> Live(Entry(x)))
                          /\ (Open(Entry(x))' <=> Open(Entry(x)))
    <3>1. \A x \in Owners : thread'[x] = thread[x] /\ Entry(x)' = Entry(x)
      BY <1>6, <1>11 DEF Owners
    <3> QED
      BY <1>2, <1>4, <1>12, <3>1 DEF Live, Open
  <2>5. ASSUME NEW x \in Owners'
        PROVE  /\ thread'[x].pc # "count" => Open(Entry(x))'
               /\ thread'[x].pc = "count" => Live(Entry(x))' /\ ~Open(Entry(x))'
    <3>1. CASE x = svc
      <4>1. thread'[x].pc = "handle" /\ thread'[x] = thread'[svc]
        BY <1>6, <3>1
      <4> QED
        BY <2>2, <4>1 DEF Open, Live, Entry
    <3>2. CASE x # svc
      <4>1. x \in Owners
        BY <1>6, <2>5, <3>2
      <4> QED
        BY <2>4, <4>1 DEF Whole, Tokens, HeldOpen
    <3> QED
      BY <3>1, <3>2
  <2> QED
    BY <2>3, <2>5 DEF HeldOpen
<1>16. \A x \in DOMAIN bodies : Uncounted(x)' = Uncounted(x)
  BY <1>2, <1>4, <1>9 DEF Uncounted
<1>17. Accounts'
  <2> SUFFICES ASSUME NEW x \in DOMAIN bodies', frames'[x] = <<>>
               PROVE  /\ bodies'[x] # <<>>
                      /\ slots'[x] = [j \in DOMAIN bodies'[x] |-> slots'[x][j]]
                      /\ \A j \in DOMAIN bodies'[x] : slots'[x][j] \in {Unfilled, Expected(bodies'[x])[j]}
                      /\ remaining'[x] = Cardinality(Uncounted(x)')
    BY DEF Accounts, Expected, Unfilled
  <2>1. CASE x = b
    <3>1. Uncounted(x)' = 1..Len(body)
      BY <1>2, <1>4, <2>1 DEF Uncounted
    <3>2. Cardinality(1..Len(body)) = Len(body)
      BY FS_Interval
    <3> QED
      BY <1>2, <1>4, <2>1, <3>1, <3>2
  <2>2. CASE x # b
    <3>1. /\ x \in DOMAIN bodies /\ bodies'[x] = bodies[x] /\ slots'[x] = slots[x]
          /\ remaining'[x] = remaining[x] /\ Uncounted(x)' = Uncounted(x) /\ frames[x] = <<>>
      BY <1>2, <1>4, <1>16, <2>2
    <3> QED
      BY <3>1 DEF Whole, Books, Accounts
  <2> QED
    BY <2>1, <2>2
<1>18. Flushing'
  <2>1. ASSUME NEW u \in Threads, thread'[u].pc = "flush"
        PROVE  /\ thread'[u] = thread[u] /\ thread[u].pc = "flush"
               /\ thread[u].body \in DOMAIN bodies /\ frames[thread[u].body] = <<>>
               /\ Uncounted(thread[u].body) = {}
    <3>1. u # svc
      BY <1>6, <2>1
    <3> QED
      BY <1>6, <2>1, <3>1 DEF Whole, Books, Flushing
  <2>2. ASSUME NEW u \in Threads, thread'[u].pc = "flush"
        PROVE  /\ thread'[u].body \in DOMAIN bodies' /\ frames[thread'[u].body] = <<>>
               /\ Uncounted(thread[u].body)' = {}
    <3>1. /\ thread'[u] = thread[u] /\ thread[u].body \in DOMAIN bodies
          /\ frames[thread[u].body] = <<>> /\ Uncounted(thread[u].body) = {}
      BY <2>1, <2>2
    <3>2. Uncounted(thread[u].body)' = {}
      BY <1>2, <1>4, <1>9, <3>1 DEF Uncounted
    <3> QED
      BY <1>2, <3>1, <3>2
  <2>3. ASSUME NEW u \in Threads, NEW v \in Threads, thread'[u].pc = "flush",
               thread'[v].pc = "flush", thread'[v].body = thread'[u].body
        PROVE  u = v
    BY <2>1, <2>3 DEF Whole, Books, Flushing
  <2> QED
    BY <2>2, <2>3 DEF Flushing
<1>19. AnsweredOnceAndWhole'
  <2> SUFFICES ASSUME NEW x \in 1..MaxBodies, frames[x] # <<>>
               PROVE  x <= Len(bodies') /\ frames[x] = <<Expected(bodies'[x])>>
    BY DEF AnsweredOnceAndWhole, Expected
  <2>1. x <= Len(bodies) /\ frames[x] = <<Expected(bodies[x])>>
    BY DEF Whole, Books, AnsweredOnceAndWhole
  <2> QED
    BY <1>1, <1>2, <2>1
<1>20. Going'
  <2> SUFFICES ASSUME NEW x \in DOMAIN bodies', frames[x] = <<>>
               PROVE  \/ Uncounted(x)' # {}
                      \/ \E u \in Threads : /\ thread'[u].pc = "flush" /\ thread'[u].body = x
                                            /\ thread'[u].entry \in DOMAIN bodies'[x]
    BY DEF Going
  <2>1. CASE x = b
    <3>1. Uncounted(x)' = 1..Len(body)
      BY <1>2, <1>4, <2>1 DEF Uncounted
    <3> QED
      BY <3>1
  <2>2. CASE x # b
    <3>1. x \in DOMAIN bodies /\ bodies'[x] = bodies[x] /\ Uncounted(x)' = Uncounted(x)
      BY <1>2, <1>16, <2>2
    <3>2. CASE Uncounted(x) = {}
      <4>1. PICK u \in Threads : /\ thread[u].pc = "flush" /\ thread[u].body = x
                                 /\ thread[u].entry \in DOMAIN bodies[x]
        BY <3>1, <3>2 DEF Whole, Books, Going
      <4>2. thread'[u] = thread[u]
        BY <1>6, <4>1
      <4> QED
        BY <3>1, <4>1, <4>2
    <3> QED
      BY <3>1, <3>2
  <2> QED
    BY <2>1, <2>2
<1>21. ASSUME Placed PROVE Placed'
  <2> SUFFICES ASSUME NEW c \in Calls, Open(c)' PROVE c \in Places'
    BY DEF Placed
  <2>1. CASE c[1] = b
    <3>1. c[2] \in DOMAIN body /\ c[2] \in Nat /\ c = <<b, c[2]>>
      BY <1>2, <2>1 DEF Open, Live, Calls
    <3>2. CASE c[2] = 1
      <4>1. c = Entry(svc)' /\ svc \in Owners'
        BY <1>6, <3>1, <3>2
      <4> QED
        BY <4>1 DEF Places
    <3>3. CASE c[2] # 1
      <4>1. thread'[svc].pc = "handle" /\ thread'[svc].body = b /\ thread'[svc].entry = 1
        BY <1>6
      <4>2. c[2] > 1 /\ c[2] <= Len(bodies'[b])
        BY <1>2, <3>1, <3>3
      <4>3. c \in Ahead'
        BY <2>1, <4>1, <4>2 DEF Ahead, Calls
      <4> QED
        BY <4>3 DEF Places
    <3> QED
      BY <3>2, <3>3
  <2>2. CASE c[1] # b
    <3>1. c[1] \in DOMAIN bodies
      BY <1>2, <2>2 DEF Open, Live
    <3>2. c \in Places
      BY <1>10, <1>21, <3>1 DEF Placed
    <3>3. CASE c \in Jobs \cup out
      BY <1>7, <3>3 DEF Places
    <3>4. CASE \E x \in Owners : c = Entry(x)
      <4>1. PICK x \in Owners : c = Entry(x)
        BY <3>4
      <4>2. x \in Owners' /\ Entry(x)' = Entry(x)
        BY <1>6, <1>11, <4>1 DEF Owners
      <4> QED
        BY <4>1, <4>2 DEF Places
    <3> QED
      BY <1>7, <3>2, <3>3, <3>4 DEF Places
  <2> QED
    BY <2>1, <2>2
<1> QED
  BY <1>13, <1>14, <1>15, <1>17, <1>18, <1>19, <1>20, <1>21 DEF Whole, Tokens, Books

LEMMA OnBodyWhole ==
  ASSUME Whole, NEW body \in Bodies, OnBody(body)
  PROVE  Whole' /\ (Placed => Placed')
<1>1. PICK b : b = Len(bodies) + 1
  OBVIOUS
<1>2. b \in 1..MaxBodies /\ thread[svc].pc = "idle" /\ UNCHANGED <<queue, out>>
  BY <1>1, CallPathAssumption DEF OnBody, Whole, Typed, BatchTyped
<1>3. CASE Accepted(body)
  <2>1. /\ body \in Seq(Kinds) /\ body # <<>>
        /\ Len(body) \in 1..MaxInFlight /\ DOMAIN body = 1..Len(body)
    BY <1>3, AcceptedBody
  <2>2. /\ bodies' = Append(bodies, body)
        /\ slots' = [slots EXCEPT ![b] = [i \in DOMAIN body |-> Unfilled]]
        /\ remaining' = [remaining EXCEPT ![b] = Len(body)]
        /\ At(svc, "handle", b, 1) /\ UNCHANGED frames
    BY <1>1, <1>3 DEF OnBody, NewRemaining
  <2> QED
    BY <1>1, <1>2, <2>1, <2>2, AcceptedWhole
<1>4. CASE ~Accepted(body)
  <2>1. /\ bodies' = Append(bodies, <<>>) /\ frames' = [frames EXCEPT ![b] = Append(@, <<0>>)]
        /\ UNCHANGED <<slots, remaining, thread>>
    BY <1>1, <1>4 DEF OnBody
  <2> QED
    BY <1>1, <1>2, <2>1, RefusedWhole
<1> QED
  BY <1>3, <1>4

(* Handing a request on leaves the batches alone. *)
LEMMA HandOnWhole ==
  ASSUME Whole,
         \/ HandleInline \/ GetClient \/ HandleSubmit \/ Shutdown
         \/ \E p \in Pumps : TakeJob(p) \/ Invoke(p) \/ InvokeAsync(p) \/ InvokeReturn(p)
         \/ \E u \in Upstreams : \E c \in Calls : Callback(u, c)
  PROVE  Whole'
<1>1. Typed /\ Tokens
  BY DEF Whole
<1>2. ASSUME NEW t \in Threads, NEW pc \in Owning \ {"count"}, thread[t].pc \in Owning \ {"count"},
             At(t, pc, thread[t].body, thread[t].entry), UNCHANGED <<batch, frames, queue, out>>
      PROVE  Whole'
  <2>1. Typed' /\ Tokens'
    BY <1>1, <1>2, SameRequest
  <2>2. \A x \in Threads : x # t => thread'[x] = thread[x]
    BY <1>2 DEF At, Whole, Typed, ThreadsTyped
  <2>3. thread'[t].pc = pc
    BY <1>2 DEF At, Whole, Typed, ThreadsTyped
  <2>4. pc \notin {"count", "flush"} /\ thread[t].pc \notin {"count", "flush"}
    BY <1>2 DEF Owning
  <2>5. Books'
    BY <1>2, <2>2, <2>3, <2>4, BooksUntouched DEF Whole
  <2> QED
    BY <2>1, <2>5 DEF Whole
<1>3. {"handle", "leased", "store", "invoke", "send"} \subseteq Owning \ {"count"}
  BY DEF Owning
<1>4. ASSUME UNCHANGED <<batch, frames>>, NEW t \in Threads, NEW pc, NEW b, NEW i,
             At(t, pc, b, i), pc \notin {"count", "flush"}, thread[t].pc \notin {"count", "flush"}
      PROVE  Books'
  <2>1. thread'[t].pc = pc /\ \A x \in Threads : x # t => thread'[x] = thread[x]
    BY <1>4 DEF At, Whole, Typed, ThreadsTyped
  <2> QED
    BY <1>4, <2>1, BooksUntouched DEF Whole
<1>5. CASE HandleInline
  BY <1>2, <1>3, <1>5, ThreadKinds DEF HandleInline
<1>6. CASE GetClient
  <2>1. PICK pc \in {"store", "leased"} : At(svc, pc, thread[svc].body, thread[svc].entry)
    BY <1>6 DEF GetClient
  <2> QED
    BY <1>2, <1>3, <1>6, <2>1, ThreadKinds DEF GetClient
<1>7. CASE HandleSubmit
  <2>1. PICK pc \in {"idle", "handle", "store"} : \E b, i : At(svc, pc, b, i)
    BY <1>7 DEF HandleSubmit, NextEntry
  <2>2. Books'
    BY <1>4, <1>7, <2>1, ThreadKinds DEF HandleSubmit
  <2> QED
    BY <1>1, <1>7, <2>2, HandleSubmitTokens DEF Whole
<1>8. CASE Shutdown
  <2>1. UNCHANGED <<batch, frames, thread>>
    BY <1>8 DEF Shutdown, Drain, CloseClients, ReleaseClients, PumpStop, PumpJoin, ServerStop
  <2>2. Books'
    BY <2>1, BooksUntouched DEF Whole
  <2> QED
    BY <1>1, <1>8, <2>2, ShutdownTokens DEF Whole
<1>9. ASSUME NEW p \in Pumps, TakeJob(p) \/ Invoke(p) \/ InvokeAsync(p) \/ InvokeReturn(p)
      PROVE  Whole'
  <2>1. CASE TakeJob(p)
    <3>1. PICK pc \in {"invoke", "store"} : \E b, i : At(p, pc, b, i)
      BY <2>1 DEF TakeJob
    <3>2. Books'
      BY <1>4, <2>1, <3>1, ThreadKinds DEF TakeJob
    <3> QED
      BY <1>1, <2>1, <3>2, TakeJobTokens DEF Whole
  <2>2. CASE Invoke(p)
    <3>1. PICK pc \in {"store", "send"} : At(p, pc, thread[p].body, thread[p].entry)
      BY <2>2 DEF Invoke
    <3> QED
      BY <1>2, <1>3, <2>2, <3>1, ThreadKinds DEF Invoke
  <2>3. CASE InvokeAsync(p)
    <3>1. Books'
      BY <1>4, <2>3, ThreadKinds DEF InvokeAsync
    <3> QED
      BY <1>1, <2>3, <3>1, InvokeAsyncTokens DEF Whole
  <2>4. CASE InvokeReturn(p)
    <3>1. Books'
      BY <1>4, <2>4, ThreadKinds DEF InvokeReturn
    <3> QED
      BY <1>1, <2>4, <3>1, InvokeReturnTokens DEF Whole
  <2> QED
    BY <1>9, <2>1, <2>2, <2>3, <2>4
<1>10. ASSUME NEW u \in Upstreams, NEW c \in Calls, Callback(u, c)
       PROVE  Whole'
  <2>1. Books'
    BY <1>4, <1>10, ThreadKinds DEF Callback
  <2> QED
    BY <1>1, <1>10, <2>1, CallbackTokens DEF Whole
<1> QED
  BY <1>5, <1>6, <1>7, <1>8, <1>9, <1>10

LEMMA NextWhole == Whole /\ [Next]_vars => Whole'
<1> SUFFICES ASSUME Whole, [Next]_vars PROVE Whole'
  OBVIOUS
<1>1. CASE \E body \in Bodies : OnBody(body)
  BY <1>1, OnBodyWhole
<1>2. ASSUME NEW t \in Threads, Fill(t) PROVE Whole'
  BY <1>2, StoreWhole, CountWhole, FlushWhole DEF Fill
<1>3. CASE ServiceStep
  BY <1>2, <1>3, HandOnWhole, ThreadKinds DEF ServiceStep
<1>4. CASE \E p \in Pumps : PumpStep(p)
  BY <1>2, <1>4, HandOnWhole, ThreadKinds DEF PumpStep
<1>5. CASE \E u \in Upstreams : Fill(u) \/ \E c \in Calls : Callback(u, c)
  BY <1>2, <1>5, HandOnWhole, ThreadKinds
<1>6. CASE Shutdown
  BY <1>6, HandOnWhole
<1>7. CASE Rest \/ UNCHANGED vars
  <2>1. UNCHANGED <<bodies, slots, remaining, frames, thread, queue, out>>
    BY <1>7 DEF Rest, vars, batch
  <2>2. /\ Owners' = Owners /\ Ahead' = Ahead /\ Jobs' = Jobs
        /\ \A x : Entry(x)' = Entry(x) /\ Live(x)' = Live(x) /\ Open(x)' = Open(x)
    BY <2>1 DEF Owners, Ahead, Jobs, Entry, Live, Open
  <2>3. Typed'
    BY <2>1, <2>2 DEF Whole, Typed, ThreadsTyped, QueueTyped, BatchTyped
  <2>4. Tokens'
    BY <2>1, <2>2, OpenUntouched DEF Whole, Tokens, OneHolder, HeldOpen, batch, Open, Live, Entry
  <2>5. Books'
    BY <2>1, BooksUntouched DEF Whole, batch
  <2> QED
    BY <2>3, <2>4, <2>5 DEF Whole
<1> QED
  BY <1>1, <1>3, <1>4, <1>5, <1>6, <1>7 DEF Next

(* Whatever the interleaving of the service thread, the pump and the       *)
(* client's callbacks with one another and with shutdown, a batch is       *)
(* flushed by the last Batch::fill and by no other: its frame has each     *)
(* request's own response, and no body gets a second frame.                *)
THEOREM AnswersAreWhole == Spec => []AnsweredOnceAndWhole
<1>1. Spec => []Whole
  BY InitWhole, NextWhole, PTL DEF Spec
<1>2. Whole => AnsweredOnceAndWhole
  BY DEF Whole, Books
<1> QED
  BY <1>1, <1>2, PTL

----------------------------------------------------------------------------
(* Nothing is forgotten: until the registry has let go of the client, each *)
(* request without a response is in somebody's hand, with the pump, with   *)
(* the client or ahead of the service thread.                              *)
Surviving == Whole /\ ServerLast /\ (~Past("released") => Placed)

(* Handing a request on, as long as it does not destroy the client.        *)
LEMMA HandOnPlaced ==
  ASSUME Typed, Tokens, Placed, ~Past("released"),
         \/ HandleInline \/ GetClient \/ HandleSubmit
         \/ \E p \in Pumps : TakeJob(p) \/ Invoke(p) \/ InvokeAsync(p) \/ InvokeReturn(p)
         \/ \E u \in Upstreams : \E c \in Calls : Callback(u, c)
  PROVE  Placed'
<1>1. {"handle", "leased", "store", "invoke", "send"} \subseteq Owning \ {"count"}
  BY DEF Owning
<1>2. CASE HandleInline
  BY <1>1, <1>2, SameRequest, ThreadKinds DEF HandleInline
<1>3. CASE GetClient
  <2>1. PICK pc \in {"store", "leased"} : At(svc, pc, thread[svc].body, thread[svc].entry)
    BY <1>3 DEF GetClient
  <2>2. thread[svc].pc = "handle" /\ UNCHANGED <<batch, frames, queue, out>>
    BY <1>3 DEF GetClient
  <2> QED
    BY <1>1, <2>1, <2>2, SameRequest, ThreadKinds
<1>4. CASE HandleSubmit
  <2>1. UNCHANGED out
    BY <1>4 DEF HandleSubmit, Release
  <2> QED
    BY <1>4, <2>1, HandleSubmitTokens
<1>5. ASSUME NEW p \in Pumps, Invoke(p) PROVE Placed'
  <2>1. PICK pc \in {"store", "send"} : At(p, pc, thread[p].body, thread[p].entry)
    BY <1>5 DEF Invoke
  <2>2. thread[p].pc = "invoke" /\ UNCHANGED <<batch, frames, queue, out>>
    BY <1>5 DEF Invoke
  <2> QED
    BY <1>1, <2>1, <2>2, SameRequest, ThreadKinds
<1>6. ASSUME NEW p \in Pumps, InvokeReturn(p) PROVE Placed'
  <2>1. UNCHANGED out
    BY <1>6 DEF InvokeReturn, Release
  <2> QED
    BY <1>6, <2>1, InvokeReturnTokens
<1> QED
  BY <1>2, <1>3, <1>4, <1>5, <1>6, TakeJobTokens, InvokeAsyncTokens, CallbackTokens

(* Shutdown takes nothing from anybody before the client goes.             *)
LEMMA ShutdownPlaced ==
  ASSUME Typed, Tokens, ServerLast, Placed, Shutdown, ~Past("released")'
  PROVE  Placed'
<1>1. stage' \in {"draining", "closed", "released", "stopped", "joined", "down"}
  BY DEF Shutdown, Drain, CloseClients, ReleaseClients, PumpStop, PumpJoin, ServerStop, Advance
<1>2. stage' \in {"draining", "closed"}
  BY <1>1 DEF Past, Stage
<1>3. Drain \/ CloseClients
  BY <1>2 DEF Shutdown, ReleaseClients, PumpStop, PumpJoin, ServerStop, Advance
<1>4. UNCHANGED <<out, queue>>
  BY <1>3 DEF Drain, CloseClients
<1> QED
  BY <1>4, ShutdownTokens

LEMMA NextSurviving == Surviving /\ [Next]_vars => Surviving'
<1> SUFFICES ASSUME Surviving, [Next]_vars PROVE Surviving'
  OBVIOUS
<1>1. Whole' /\ ServerLast'
  BY NextWhole, NextServerLast DEF Surviving
<1>2. ASSUME ~Past("released")' PROVE Placed'
  <2>1. CASE Shutdown
    <3>1. ~Past("released")
      <4>1. stage \in {"up", "draining", "closed", "released", "stopped", "joined"}
        BY <2>1 DEF Shutdown, Drain, CloseClients, ReleaseClients, PumpStop, PumpJoin, ServerStop,
                    Advance
      <4>2. stage \in {"released", "stopped", "joined"} => stage' \in {"stopped", "joined", "down"}
        BY <2>1 DEF Shutdown, Drain, CloseClients, ReleaseClients, PumpStop, PumpJoin, ServerStop,
                    Advance
      <4>3. stage' \notin {"stopped", "joined", "down"}
        BY <1>2 DEF Past, Stage
      <4> QED
        BY <4>1, <4>2, <4>3 DEF Past, Stage
    <3> QED
      BY <1>2, <2>1, <3>1, ShutdownPlaced DEF Surviving, Whole
  <2>2. CASE ~Shutdown
    <3>1. UNCHANGED stage
      BY <2>2 DEF Next, OnBody, ServiceStep, PumpStep, HandleInline, GetClient, HandleSubmit, Fill,
                  Store, Count, Flush, TakeJob, Invoke, InvokeAsync, InvokeReturn, Callback, Rest,
                  vars
    <3>2. Whole /\ Placed /\ ~Past("released")
      BY <1>2, <3>1 DEF Surviving, Past
    <3>3. CASE \E body \in Bodies : OnBody(body)
      BY <3>2, <3>3, OnBodyWhole
    <3>4. ASSUME NEW t \in Threads, Fill(t) PROVE Placed'
      BY <3>2, <3>4, StoreWhole, CountWhole, FlushWhole DEF Fill
    <3>5. CASE ServiceStep
      BY <3>2, <3>4, <3>5, HandOnPlaced, ThreadKinds DEF ServiceStep, Whole
    <3>6. CASE \E p \in Pumps : PumpStep(p)
      BY <3>2, <3>4, <3>6, HandOnPlaced, ThreadKinds DEF PumpStep, Whole
    <3>7. CASE \E u \in Upstreams : Fill(u) \/ \E c \in Calls : Callback(u, c)
      BY <3>2, <3>4, <3>7, HandOnPlaced, ThreadKinds DEF Whole
    <3>8. CASE Rest \/ UNCHANGED vars
      <4>1. UNCHANGED <<bodies, slots, remaining, frames, thread, queue, out>>
        BY <3>8 DEF Rest, vars, batch
      <4>2. Places' = Places
        BY <4>1 DEF Places, Owners, Ahead, Jobs, Entry
      <4> QED
        BY <3>2, <4>1, <4>2, OpenUntouched DEF Placed, batch
    <3> QED
      BY <2>2, <3>3, <3>5, <3>6, <3>7, <3>8 DEF Next
  <2> QED
    BY <2>1, <2>2
<1> QED
  BY <1>1, <1>2 DEF Surviving

(* A place is what NothingForgotten calls coming.                          *)
LEMMA PlacesAreComing ==
  ASSUME Typed, NEW b, NEW i, <<b, i>> \in Places
  PROVE  Coming(b, i)
<1>1. CASE <<b, i>> \in Ahead
  BY <1>1, ThreadKinds DEF Ahead, Coming
<1>2. CASE <<b, i>> \in Jobs \cup out
  BY <1>2 DEF Jobs, Coming
<1>3. CASE \E t \in Owners : <<b, i>> = Entry(t)
  BY <1>3 DEF Owners, Entry, Coming
<1> QED
  BY <1>1, <1>2, <1>3 DEF Places

LEMMA SurvivingMeansComing == Surviving => NothingForgotten
<1> SUFFICES ASSUME Surviving, ~Past("released"), NEW b \in DOMAIN bodies, frames[b] = <<>>
             PROVE  /\ \A i \in DOMAIN slots[b] : slots[b][i] = Unfilled => Coming(b, i)
                    /\ \E i \in DOMAIN slots[b] : Coming(b, i)
  BY DEF NothingForgotten
<1>1. Typed /\ Placed /\ DOMAIN slots[b] = DOMAIN bodies[b]
  BY DEF Surviving, Whole, Books, Accounts
<1>2. DOMAIN bodies[b] \subseteq 1..MaxInFlight /\ b \in 1..MaxBodies
  BY CallPathAssumption DEF Surviving, Whole, Typed, BatchTyped
<1>3. ASSUME NEW i \in DOMAIN slots[b], slots[b][i] = Unfilled PROVE Coming(b, i)
  <2>1. <<b, i>> \in Calls
    BY <1>1, <1>2 DEF Calls
  <2>2. Open(<<b, i>>)
    BY <1>1, <1>3 DEF Open, Live
  <2> QED
    BY <1>1, <2>1, <2>2, PlacesAreComing DEF Placed
<1>4. \E i \in DOMAIN slots[b] : Coming(b, i)
  <2>1. CASE Uncounted(b) # {}
    <3>1. PICK i \in DOMAIN bodies[b] : slots[b][i] = Unfilled \/ <<b, i>> \in Counting
      BY <2>1 DEF Uncounted
    <3>2. CASE <<b, i>> \in Counting
      <4>1. PICK t \in Threads : Entry(t) = <<b, i>>
        BY <3>2 DEF Counting
      <4> QED
        BY <1>1, <4>1 DEF Entry, Coming
    <3> QED
      BY <1>1, <1>3, <3>1, <3>2
  <2>2. CASE Uncounted(b) = {}
    <3>1. PICK t \in Threads : thread[t].body = b /\ thread[t].entry \in DOMAIN bodies[b]
      BY <2>2 DEF Surviving, Whole, Books, Going
    <3> QED
      BY <1>1, <3>1 DEF Coming
  <2> QED
    BY <2>1, <2>2
<1> QED
  BY <1>3, <1>4

(* Between Batch's construction in onBody and its frame, and until the     *)
(* registry lets go of the client, each request without a response has a   *)
(* thread, a pump job or a call that will Batch::fill it, and some thread, *)
(* job or call is left that will bring the batch to its flush: no early    *)
(* return, refused job or closed registry drops a request on the way.      *)
THEOREM NothingIsForgotten == Spec => []NothingForgotten
<1>1. Init => Surviving
  <2>1. Init => Placed
    BY DEF Init, Placed, Open, Live
  <2> QED
    BY <2>1, InitWhole, InitServerLast DEF Surviving
<1>2. Spec => []Surviving
  BY <1>1, NextSurviving, PTL DEF Spec
<1> QED
  BY <1>2, SurvivingMeansComing, PTL
=============================================================================

------------------------------ MODULE CallPath ------------------------------
(***************************************************************************)
(* How a request body becomes one answer: onBody, handleOne, dispatchCall  *)
(* and Batch (src/json_rpc_bridge_impl.cpp) with the framing of            *)
(* rpc_dispatcher.h, the pump that runs jobs and the client that answers   *)
(* calls (src/upstream.h).                                                 *)
(*                                                                         *)
(* A body is the sequence of its requests' kinds:                          *)
(*   "noid"     answered on the service thread with a null id: not a       *)
(*              request, or one without an id                              *)
(*   "inline"   answered on the service thread                             *)
(*   "job"      answered by a pump job (rpc.discover, rpc.subscribe)       *)
(*   "call"     a module call, answered by the client's callback           *)
(* A response is the id it carries, the request's place in its body, or 0  *)
(* for null; what else is in it is not modelled.  One client stands for    *)
(* all: calls to different ones share nothing here.                        *)
(***************************************************************************)
EXTENDS Naturals, Sequences, FiniteSets

CONSTANTS
  svc,          \* the service thread
  Pumps,        \* pump threads
  Upstreams,    \* threads that run the client's callbacks
  MaxInFlight,  \* limits.maxInFlightPerConnection
  MaxBodies     \* bound: bodies received

ASSUME CallPathAssumption ==
  /\ svc \notin Pumps \cup Upstreams /\ Pumps \cap Upstreams = {}
  /\ MaxInFlight \in Nat /\ MaxBodies \in Nat

Threads == {svc} \cup Pumps \cup Upstreams
Kinds == {"noid", "inline", "job", "call"}
Bodies == UNION {[1..n -> Kinds] : n \in 0..(MaxInFlight + 1)}
Unfilled == MaxInFlight + 1     \* a slot that holds no response

VARIABLES
  bodies,     \* the bodies received, in order; <<>>: refused as a whole
  slots,      \* per body, Batch::m_slots
  remaining,  \* per body, Batch::m_remaining
  frames,     \* per body, the frames sent for it
  thread,     \* per thread: where it is, and the body and request it is at
  queue,      \* the pump's jobs: body and request
  out,        \* calls the client has not answered
  stage       \* how far shutdown is

batch == <<bodies, slots, remaining>>
vars == <<batch, frames, thread, queue, out, stage>>

Stage == [up |-> 0, draining |-> 1, closed |-> 2, released |-> 3, stopped |-> 4,
          joined |-> 5, down |-> 6]

(* shutdown has come to s, or further. *)
Past(s) == Stage[stage] >= Stage[s]

(* Thread t is at pc with request i of body b. *)
At(t, pc, b, i) == thread' = [thread EXCEPT ![t] = [pc |-> pc, body |-> b, entry |-> i]]

KindOf(t) == bodies[thread[t].body][thread[t].entry]

----------------------------------------------------------------------------
(* onBody, on the service thread.  A body that cannot be parsed, an empty  *)
(* or too large batch, a bad route and any body while draining get one     *)
(* error.                                                                  *)

Accepted(body) == ~Past("draining") /\ Len(body) \in 1..MaxInFlight

NewRemaining(body) == Len(body)

OnBody(body) ==
  LET b == Len(bodies) + 1 IN
  /\ thread[svc].pc = "idle" /\ ~Past("down") /\ b <= MaxBodies
  /\ \/ /\ Accepted(body)
        /\ bodies' = Append(bodies, body)
        /\ slots' = [slots EXCEPT ![b] = [i \in DOMAIN body |-> Unfilled]]
        /\ remaining' = [remaining EXCEPT ![b] = NewRemaining(body)]
        /\ At(svc, "handle", b, 1)
        /\ UNCHANGED frames
     \/ /\ ~Accepted(body)
        /\ bodies' = Append(bodies, <<>>)
        /\ frames' = [frames EXCEPT ![b] = Append(@, <<0>>)]
        /\ UNCHANGED <<slots, remaining, thread>>
  /\ UNCHANGED <<queue, out, stage>>

(* Back to the loop over the body's requests, or out of it. *)
NextEntry ==
  LET b == thread[svc].body
      i == thread[svc].entry
  IN IF i < Len(bodies[b]) THEN At(svc, "handle", b, i + 1) ELSE At(svc, "idle", 0, 0)

(* handleOne and dispatchCall answer here, or leave it to a pump job.      *)
HandleInline ==
  /\ thread[svc].pc = "handle"
  /\ KindOf(svc) \in {"noid", "inline", "call"}   \* a call: refused before it is made
  /\ At(svc, "store", thread[svc].body, thread[svc].entry)
  /\ UNCHANGED <<batch, frames, queue, out, stage>>

(* Who holds the client besides the registry: dispatchCall and invoke, for *)
(* a moment.                                                               *)
Holding == {t \in Threads : thread[t].pc \in {"leased", "send", "sent"}}

Answering == {u \in Upstreams : thread[u].pc # "idle"}

(* The last reference to the client goes: its callbacks end first, and     *)
(* calls that are out are never answered.                                  *)
Destroy == Answering = {} /\ out' = {}

Release(t) == IF Past("released") /\ Holding = {t} THEN Destroy ELSE UNCHANGED out

(* dispatchCall checks that there is a client. *)
GetClient ==
  /\ thread[svc].pc = "handle" /\ KindOf(svc) = "call"
  /\ At(svc, IF Past("closed") THEN "store" ELSE "leased", thread[svc].body, thread[svc].entry)
  /\ UNCHANGED <<batch, frames, queue, out, stage>>

(* CallPump::submit, which refuses once stopped. *)
HandleSubmit ==
  LET b == thread[svc].body
      i == thread[svc].entry
  IN
  /\ \/ thread[svc].pc = "handle" /\ KindOf(svc) = "job" /\ UNCHANGED out
     \/ thread[svc].pc = "leased" /\ Release(svc)
  /\ \/ /\ ~Past("stopped")
        /\ queue' = Append(queue, <<b, i>>)
        /\ NextEntry
     \/ /\ Past("stopped")
        /\ At(svc, "store", b, i)
        /\ UNCHANGED queue
  /\ UNCHANGED <<batch, frames, stage>>

----------------------------------------------------------------------------
(* Batch::fill, on any thread *)

Response(t) == IF KindOf(t) = "noid" THEN 0 ELSE thread[t].entry

Return(t) ==
  IF t = svc THEN NextEntry
  ELSE At(t, "idle", 0, 0)

Store(t) ==
  /\ thread[t].pc = "store"
  /\ slots' = [slots EXCEPT ![thread[t].body][thread[t].entry] = Response(t)]
  /\ At(t, "count", thread[t].body, thread[t].entry)
  /\ UNCHANGED <<bodies, remaining, frames, queue, out, stage>>

(* The one that counts down to zero flushes. *)
Count_Never(t) ==
  LET b == thread[t].body IN
  /\ thread[t].pc = "count"
  /\ remaining' = [remaining EXCEPT ![b] = @ - 1]
  /\ IF remaining[b] = 0 THEN At(t, "flush", b, thread[t].entry) ELSE Return(t)
  /\ UNCHANGED <<bodies, slots, frames, queue, out, stage>>

Count_Twice(t) ==
  LET b == thread[t].body IN
  /\ thread[t].pc = "count"
  /\ remaining' = [remaining EXCEPT ![b] = @ - 1]
  /\ IF remaining[b] <= 2 THEN At(t, "flush", b, thread[t].entry) ELSE Return(t)
  /\ UNCHANGED <<bodies, slots, frames, queue, out, stage>>

Count(t) ==
  LET b == thread[t].body IN
  /\ thread[t].pc = "count"
  /\ remaining' = [remaining EXCEPT ![b] = @ - 1]
  /\ IF remaining[b] = 1 THEN At(t, "flush", b, thread[t].entry) ELSE Return(t)
  /\ UNCHANGED <<bodies, slots, frames, queue, out, stage>>

(* The slots without a response are left out of the frame, which keeps the *)
(* others in their order; it is written as what each request got.          *)
Responses(slot) == [i \in {j \in DOMAIN slot : slot[j] # Unfilled} |-> slot[i]]

Flush(t) ==
  LET b == thread[t].body IN
  /\ thread[t].pc = "flush"
  /\ frames' = [frames EXCEPT ![b] = Append(@, Responses(slots[b]))]
  /\ slots' = [slots EXCEPT ![b] = <<>>]
  /\ Return(t)
  /\ UNCHANGED <<bodies, remaining, queue, out, stage>>

----------------------------------------------------------------------------
(* A pump thread's job: an answer, or ClientRegistry::invoke *)

TakeJob(p) ==
  /\ thread[p].pc = "idle" /\ ~Past("stopped") /\ queue # <<>>
  /\ queue' = Tail(queue)
  /\ LET b == Head(queue)[1]
         i == Head(queue)[2]
     IN At(p, IF bodies[b][i] = "call" THEN "invoke" ELSE "store", b, i)
  /\ UNCHANGED <<batch, frames, out, stage>>

(* Under the lock: a closed registry answers at once. *)
Invoke_Silent(p) ==
  /\ thread[p].pc = "invoke"
  /\ IF Past("closed") THEN At(p, "idle", 0, 0)
     ELSE At(p, "send", thread[p].body, thread[p].entry)
  /\ UNCHANGED <<batch, frames, queue, out, stage>>

Invoke(p) ==
  /\ thread[p].pc = "invoke"
  /\ At(p, IF Past("closed") THEN "store" ELSE "send", thread[p].body, thread[p].entry)
  /\ UNCHANGED <<batch, frames, queue, out, stage>>

InvokeAsync(p) ==
  /\ thread[p].pc = "send"
  /\ out' = out \cup {<<thread[p].body, thread[p].entry>>}
  /\ At(p, "sent", 0, 0)
  /\ UNCHANGED <<batch, frames, queue, stage>>

InvokeReturn(p) ==
  /\ thread[p].pc = "sent" /\ At(p, "idle", 0, 0)
  /\ Release(p)
  /\ UNCHANGED <<batch, frames, queue, stage>>

(* The client answers, with a result, an error or a timeout. *)
Callback(u, c) ==
  /\ thread[u].pc = "idle" /\ c \in out
  /\ out' = out \ {c}
  /\ At(u, "store", c[1], c[2])
  /\ UNCHANGED <<batch, frames, queue, stage>>

----------------------------------------------------------------------------
(* BridgeCore::shutdown, on the main thread *)

Advance(from, to) == stage = from /\ stage' = to

Drain == Advance("up", "draining") /\ UNCHANGED <<batch, frames, thread, queue, out>>

CloseClients == Advance("draining", "closed") /\ UNCHANGED <<batch, frames, thread, queue, out>>

ReleaseClients ==
  /\ Advance("closed", "released")
  /\ IF Holding = {} THEN Destroy ELSE UNCHANGED out
  /\ UNCHANGED <<batch, frames, thread, queue>>

PumpStop ==
  /\ Advance("released", "stopped")
  /\ queue' = <<>>
  /\ UNCHANGED <<batch, frames, thread, out>>

PumpJoin_Detach ==
  /\ Advance("stopped", "joined")
  /\ UNCHANGED <<batch, frames, thread, queue, out>>

PumpJoin ==
  /\ Advance("stopped", "joined")
  /\ \A p \in Pumps : thread[p].pc = "idle"
  /\ UNCHANGED <<batch, frames, thread, queue, out>>

ServerStop ==
  /\ Advance("joined", "down")
  /\ thread[svc].pc = "idle"
  /\ UNCHANGED <<batch, frames, thread, queue, out>>

----------------------------------------------------------------------------
Init ==
  /\ bodies = <<>> /\ queue = <<>> /\ out = {} /\ stage = "up"
  /\ slots = [b \in 1..MaxBodies |-> <<>>]
  /\ remaining = [b \in 1..MaxBodies |-> 0]
  /\ frames = [b \in 1..MaxBodies |-> <<>>]
  /\ thread = [t \in Threads |-> [pc |-> "idle", body |-> 0, entry |-> 0]]

Fill(t) == Store(t) \/ Count(t) \/ Flush(t)

ServiceStep == HandleInline \/ GetClient \/ HandleSubmit \/ Fill(svc)

PumpStep(p) == TakeJob(p) \/ Invoke(p) \/ InvokeAsync(p) \/ InvokeReturn(p) \/ Fill(p)

Calls == (1..MaxBodies) \X (1..MaxInFlight)

Shutdown ==
  Drain \/ CloseClients \/ ReleaseClients \/ PumpStop \/ PumpJoin \/ ServerStop

Rest ==
  /\ \A t \in Threads : thread[t].pc = "idle"
  /\ stage = "down"
  /\ UNCHANGED vars

Next ==
  \/ \E body \in Bodies : OnBody(body)
  \/ ServiceStep
  \/ \E p \in Pumps : PumpStep(p)
  \/ \E u \in Upstreams : Fill(u) \/ \E c \in Calls : Callback(u, c)
  \/ Shutdown \/ Rest

Spec == Init /\ [][Next]_vars

(* Threads run what they have begun, the pump takes its jobs, and a call   *)
(* has a timeout, so the client answers it.                                *)
Fairness ==
  /\ WF_vars(ServiceStep)
  /\ \A p \in Pumps : WF_vars(PumpStep(p))
  /\ \A u \in Upstreams : WF_vars(Fill(u) \/ \E c \in Calls : Callback(u, c))

FairSpec == Spec /\ Fairness

----------------------------------------------------------------------------
(* Properties *)

(* A body gets one frame, with every request's own response in the order   *)
(* of the requests, though service thread, pump and upstream threads fill  *)
(* the batch at unrelated times; one refused as a whole gets one error.    *)
Expected(body) ==
  IF body = <<>> THEN <<0>>
  ELSE [i \in DOMAIN body |-> IF body[i] = "noid" THEN 0 ELSE i]

AnsweredOnceAndWhole ==
  \A b \in 1..MaxBodies :
    frames[b] # <<>> => b <= Len(bodies) /\ frames[b] = <<Expected(bodies[b])>>

(* A batch holds a plain pointer to the server: once shutdown has          *)
(* destroyed it no thread is left that could flush one.                    *)
NoFlushWithoutServer ==
  stage = "down" => \A t \in Threads : thread[t].pc = "idle"

(* A body that is not answered has a thread, a job or a call left that     *)
(* will fill each of its open slots, and one that will flush it, until     *)
(* shutdown has destroyed the client with its calls.                       *)
Coming(b, i) ==
  \/ \E t \in Threads :
       /\ thread[t].body = b
       /\ thread[t].entry = i \/ (t = svc /\ thread[t].entry < i)
  \/ <<b, i>> \in out \/ \E k \in DOMAIN queue : queue[k] = <<b, i>>

NothingForgotten ==
  ~Past("released") =>
    \A b \in DOMAIN bodies : frames[b] = <<>> =>
      /\ \A i \in DOMAIN slots[b] : slots[b][i] = Unfilled => Coming(b, i)
      /\ \E i \in DOMAIN slots[b] : Coming(b, i)

(* Every body is answered, unless the bridge stops meanwhile. *)
Answered ==
  \A b \in 1..MaxBodies : (Len(bodies) >= b) ~> (frames[b] # <<>> \/ Past("draining"))
=============================================================================

--------------------------- MODULE Subscriptions ---------------------------
(***************************************************************************)
(* The life of a client subscription: rpc.subscribe and rpc.unsubscribe on *)
(* the socket service thread, the pump jobs that add a subscriber to the   *)
(* hub, event delivery and provider loss on the upstream threads, and the  *)
(* bridge's shutdown.  One action is one critical section (or one call)    *)
(* of src/json_rpc_bridge_impl.cpp, src/subscription_table.h or            *)
(* src/upstream.h; the threads interleave between them.                    *)
(*                                                                         *)
(* Three tables hold a subscription, each under a lock of its own:         *)
(*   entries      Conn::subs            (Conn::subMu)                      *)
(*   subscribers  BridgeCore::m_subscribers (BridgeCore::m_subMu)          *)
(*   ups[e].ids   Up::subscribers       (the hub's m_subMu)                *)
(* A subscription is the record of what its three keys are: the bridge's   *)
(* number for it, its connection, the client's id, and its event.          *)
(*                                                                         *)
(* All events are of one module, whose client is never replaced: that is   *)
(* the subject of module Clients.                                          *)
(***************************************************************************)
EXTENDS Naturals, Sequences, FiniteSets

CONSTANTS
  Conns,        \* WebSocket connections
  Ids,          \* subscription ids a client may choose
  Events,       \* the module's events
  Pumps,        \* pump threads
  Deliverers,   \* upstream threads that run event and status callbacks
  svc,          \* the socket service thread
  NoSub,        \* "no subscription in hand"
  Limit,        \* limits.maxSubscriptionsPerConnection
  BindMayFail,  \* may an upstream subscribe be refused?
  MayStop,      \* may the bridge be shut down?
  GuardReenters,  \* may lp_unsubscribe be called under its own guard?
  MaxSids,      \* bound: subscribe requests
  MaxLosses,    \* bound: provider losses reported
  MaxEvents     \* bound: events published upstream

Threads == {svc} \cup Pumps \cup Deliverers

Subscription == [sid : Nat, conn : Conns, id : Ids, event : Events]

ASSUME ThreadsAssumption ==
  /\ svc \notin Pumps \cup Deliverers
  /\ Pumps \cap Deliverers = {}
ASSUME SubAssumption ==
  NoSub \notin Subscription /\ \A c \in Conns : c \notin Subscription
ASSUME BoundsAssumption ==
  /\ Limit \in Nat /\ MaxSids \in Nat /\ MaxLosses \in Nat /\ MaxEvents \in Nat
  /\ BindMayFail \in BOOLEAN /\ MayStop \in BOOLEAN /\ GuardReenters \in BOOLEAN

VARIABLES
  attached,     \* connections the server still serves (WsServer::m_conns)
  entries,      \* every connection's SubscriptionTable
  subscribers,  \* BridgeCore::m_subscribers
  nextSid,      \* BridgeCore::m_nextSubscriberId
  ups,          \* the hub's m_up: per event, its upstream subscription
  queue,        \* CallPump::m_queue: subscribe jobs
  stage,        \* how far BridgeCore::shutdown has come
  body,         \* the connection whose body was being handled as it began
  out,          \* per connection, every frame handed to WsServer::send for it
  joined,       \* history: the generation of the Up a subscription joined
  losses, published,   \* how much of the bounds is used
  pc,           \* per thread: where it is, and its locals:
  hand,         \*   the subscription (in a close: the connection) it works on
  evs, todo,    \*   events and subscriptions it has yet to visit
  gen           \*   the generation a delivery has read

tables == <<attached, entries, subscribers, nextSid, queue, out>>
hub == <<ups, joined>>
bounds == <<losses, published>>
locals == <<pc, hand, evs, todo, gen>>
vars == <<tables, hub, stage, body, bounds, locals>>

Absent == [state |-> "absent", ids |-> {}, gen |-> 1]

----------------------------------------------------------------------------
(* Threads *)

Goto(t, label) == pc' = [pc EXCEPT ![t] = label]

Return(t) ==
  /\ Goto(t, "idle")
  /\ hand'  = [hand EXCEPT ![t] = NoSub]
  /\ evs'  = [evs EXCEPT ![t] = {}]
  /\ todo' = [todo EXCEPT ![t] = {}]
  /\ gen'  = [gen EXCEPT ![t] = 0]

(* The frame is dropped when the server no longer has the connection. *)
Send(c, kind, s, g) ==
  out' = IF c \in attached
         THEN [out EXCEPT ![c] = Append(@, [kind |-> kind, sub |-> s, gen |-> g])]
         ELSE out

Reply(kind, s) == Send(s.conn, kind, s, 0)

----------------------------------------------------------------------------
(* SubscriptionTable *)

Holding(c, i) == {x \in entries : x.conn = c /\ x.id = i}
HeldBy(c) == {x \in entries : x.conn = c}

(* Frees the id only while this very subscription holds it. *)
Release(s) == entries' = entries \ {s}

----------------------------------------------------------------------------
(* The service thread: rpc.subscribe *)

(* m_draining is looked at once per body, which may be a batch of requests. *)
(* Before shutdown a body may begin at any moment, so whether one is under *)
(* way makes no difference; Drain notes the one that is.                   *)
Serving(c) == pc[svc] = "idle" /\ c \in attached /\ (stage = "running" \/ body = c)

InBody(c) == pc[svc] = "idle" \/ (hand[svc] \in Subscription /\ hand[svc].conn = c)

(* The last request of that body is done. *)
BodyDone ==
  /\ pc[svc] = "idle" /\ body # NoSub
  /\ body' = NoSub
  /\ UNCHANGED <<tables, hub, stage, bounds, locals>>

Fresh(c, i, e) == [sid |-> nextSid, conn |-> c, id |-> i, event |-> e]

(* Duplicate is looked for before Full.  A refused request has used up a   *)
(* subscriber number like any other.                                       *)
Claim(c, i, e) ==
  LET s == Fresh(c, i, e) IN
  /\ Serving(c) /\ nextSid <= MaxSids
  /\ nextSid' = nextSid + 1
  /\ \/ /\ Holding(c, i) # {}
        /\ Reply("active", s)
        /\ UNCHANGED <<entries, pc, hand>>
     \/ /\ Holding(c, i) = {} /\ Cardinality(HeldBy(c)) >= Limit
        /\ Reply("overloaded", s)
        /\ UNCHANGED <<entries, pc, hand>>
     \/ /\ Holding(c, i) = {} /\ Cardinality(HeldBy(c)) < Limit
        /\ entries' = entries \cup {s}
        /\ Goto(svc, "register")
        /\ hand' = [hand EXCEPT ![svc] = s]
        /\ UNCHANGED out
  /\ UNCHANGED <<attached, subscribers, queue, hub, stage, body, bounds, evs, todo, gen>>

Register ==
  /\ pc[svc] = "register"
  /\ subscribers' = subscribers \cup {hand[svc]}
  /\ Goto(svc, "submit")
  /\ UNCHANGED <<attached, entries, nextSid, queue, out, hub, stage, body, bounds,
                 hand, evs, todo, gen>>

PumpStopping == stage \in {"joining", "joined", "stopped"}

Submit ==
  /\ pc[svc] = "submit"
  /\ IF PumpStopping
     THEN /\ Goto(svc, "abandonErase")
          /\ UNCHANGED <<queue, hand, evs, todo, gen>>
     ELSE /\ queue' = Append(queue, hand[svc])
          /\ Return(svc)
  /\ UNCHANGED <<attached, entries, subscribers, nextSid, out, hub, stage, body, bounds>>

(* rpc.unsubscribe.  For an id that is not held the code only sends the     *)
(* acknowledgement, and no table changes.                                  *)
Take(c, i) ==
  /\ Serving(c)
  /\ \E s \in Holding(c, i) :
       /\ entries' = entries \ {s}
       /\ hand' = [hand EXCEPT ![svc] = s]
  /\ Goto(svc, "unsubErase")
  /\ UNCHANGED <<attached, subscribers, nextSid, queue, out, hub, stage, body, bounds,
                 evs, todo, gen>>

UnsubErase ==
  /\ pc[svc] = "unsubErase"
  /\ subscribers' = subscribers \ {hand[svc]}
  /\ Goto(svc, "unsubHub")
  /\ UNCHANGED <<attached, entries, nextSid, queue, out, hub, stage, body, bounds,
                 hand, evs, todo, gen>>

(* m_closed is set and m_up emptied in one critical section. *)
HubClosed == stage \notin {"running", "draining"}
Present(e) == ~HubClosed /\ ups[e].state # "absent"

UnsubHub ==
  /\ pc[svc] = "unsubHub"
  /\ LET e == hand[svc].event IN
       ups' = IF Present(e) THEN [ups EXCEPT ![e].ids = @ \ {hand[svc]}] ELSE ups
  /\ Goto(svc, "unsubAck")
  /\ UNCHANGED <<tables, joined, stage, body, bounds, hand, evs, todo, gen>>

UnsubAck ==
  /\ pc[svc] = "unsubAck"
  /\ Reply("unsubscribed", hand[svc])
  /\ Return(svc)
  /\ UNCHANGED <<attached, entries, subscribers, nextSid, queue, hub, stage, body, bounds>>

(* A connection goes away: WsServer::detach, then the onClosed hook. *)
Detach(c) ==
  /\ pc[svc] = "idle" /\ body = NoSub /\ c \in attached
  /\ attached' = attached \ {c}
  /\ Goto(svc, "closing")
  /\ hand' = [hand EXCEPT ![svc] = c]
  /\ UNCHANGED <<entries, subscribers, nextSid, queue, out, hub, stage, body, bounds,
                 evs, todo, gen>>

(* Fault: the loop over m_subscribers stops at the first match. *)
CloseErase_First ==
  /\ pc[svc] = "closing"
  /\ LET mine == {s \in subscribers : s.conn = hand[svc]}
         first == {s \in mine : \A x \in mine : s.sid <= x.sid}
     IN subscribers' = subscribers \ first /\ todo' = [todo EXCEPT ![svc] = first]
  /\ Goto(svc, "closeHub")
  /\ UNCHANGED <<attached, entries, nextSid, queue, out, hub, stage, body, bounds,
                 hand, evs, gen>>

CloseErase ==
  /\ pc[svc] = "closing"
  /\ LET mine == {s \in subscribers : s.conn = hand[svc]} IN
       /\ subscribers' = subscribers \ mine
       /\ todo' = [todo EXCEPT ![svc] = mine]
  /\ Goto(svc, "closeHub")
  /\ UNCHANGED <<attached, entries, nextSid, queue, out, hub, stage, body, bounds,
                 hand, evs, gen>>

CloseHub ==
  /\ pc[svc] = "closeHub"
  /\ \/ \E s \in todo[svc] :
          /\ ups' = [e \in Events |-> IF Present(e)
                                      THEN [ups[e] EXCEPT !.ids = @ \ {s}]
                                      ELSE ups[e]]
          /\ todo' = [todo EXCEPT ![svc] = @ \ {s}]
          /\ UNCHANGED <<pc, hand, evs, gen>>
     \/ /\ todo[svc] = {}
        /\ Return(svc)
        /\ UNCHANGED ups
  /\ UNCHANGED <<tables, joined, stage, body, bounds>>
----------------------------------------------------------------------------
(* The pump: a subscribe job is SubscriptionHub::add, then the reply *)

(* Fault: the pump swaps the whole queue out and runs one job of it. *)
TakeJob_Swap(p) ==
  /\ pc[p] = "idle" /\ queue # <<>> /\ ~PumpStopping
  /\ queue' = <<>>
  /\ hand' = [hand EXCEPT ![p] = Head(queue)]
  /\ Goto(p, "add")
  /\ UNCHANGED <<attached, entries, subscribers, nextSid, out, hub, stage, body, bounds,
                 evs, todo, gen>>

TakeJob(p) ==
  /\ pc[p] = "idle" /\ queue # <<>> /\ ~PumpStopping
  /\ queue' = Tail(queue)
  /\ hand' = [hand EXCEPT ![p] = Head(queue)]
  /\ Goto(p, "add")
  /\ UNCHANGED <<attached, entries, subscribers, nextSid, out, hub, stage, body, bounds,
                 evs, todo, gen>>

(* addSubscriberLocked publishes a copy of the set with the newcomer in it. *)
Joined(e, s) ==
  IF Present(e) THEN [ups[e] EXCEPT !.ids = @ \cup {s}]
  ELSE [state |-> "new", ids |-> {s}, gen |-> 1]

(* The first subscriber of an event makes its Up and goes on to bind it;   *)
(* any later one joins it, bound or not.                                   *)
HubAdd(p) ==
  LET s == hand[p]
      e == s.event
  IN
  /\ pc[p] = "add"
  /\ \/ /\ HubClosed
        /\ Goto(p, "abandonErase")
        /\ UNCHANGED <<hub, evs>>
     \/ /\ ~HubClosed
        /\ ups' = [ups EXCEPT ![e] = Joined(e, s)]
        /\ joined' = [joined EXCEPT ![s.sid] = Joined(e, s).gen]
        /\ IF Present(e)
           THEN Goto(p, "ack") /\ evs' = [evs EXCEPT ![p] = {e}]
           ELSE Goto(p, "bind") /\ UNCHANGED evs
  /\ UNCHANGED <<tables, stage, body, bounds, hand, todo, gen>>

(* bind: lease a client, then the upstream subscribe, outside every lock.  *)
(* No client, a hub closed meanwhile, and an invalid handle all leave the  *)
(* Up unbound.  A valid handle delivers from this moment, also when the    *)
(* hub closes between bind's look at m_closed and the subscribe.           *)
BindSubscribe(p) ==
  LET e == hand[p].event IN
  /\ pc[p] = "bind"
  /\ \/ /\ BindMayFail \/ HubClosed
        /\ Goto(p, "unbind")
        /\ UNCHANGED ups
     \/ /\ ups' = [ups EXCEPT ![e].state = "live"]
        /\ Goto(p, "store")
  /\ UNCHANGED <<tables, joined, stage, body, bounds, hand, evs, todo, gen>>

(* An Up is shared by the hub, by the threads on their way out of add and  *)
(* by the deliveries that have locked it.                                  *)
Delivering(t, e) == t \in Deliverers /\ e \in evs[t] /\ pc[t] \in {"gen", "deliver", "sendEvent"}
Leaving(t, e) == t \in Pumps /\ e \in evs[t] /\ pc[t] = "ack"
Sharing(t, e) == Delivering(t, e) \/ Leaving(t, e)
Shared(e) == \E t \in Threads : Sharing(t, e)

(* Once the hub has dropped the Up, whoever lets go of it last destroys it. *)
LastOf(t, e) ==
  /\ ups[e].state = "dropped"
  /\ Sharing(t, e) /\ \A u \in Threads \ {t} : ~Sharing(u, e)

(* Destroying a handle waits for the callback that runs under its guard.   *)
Quiet(e) == \A t \in Deliverers : ~Delivering(t, e)

(* Fault: the hub is not looked at again after the upstream subscribe. *)
BindStore_Unchecked(p) ==
  LET e == hand[p].event IN
  /\ pc[p] = "store"
  /\ ups' = [ups EXCEPT ![e].state = "bound"]
  /\ evs' = [evs EXCEPT ![p] = {e}]
  /\ Goto(p, "ack")
  /\ UNCHANGED <<tables, joined, stage, body, bounds, hand, todo, gen>>

(* A handle for a closed hub is destroyed by bind. *)
BindStore(p) ==
  LET e == hand[p].event IN
  /\ pc[p] = "store"
  /\ \/ /\ ~HubClosed
        /\ ups' = [ups EXCEPT ![e].state = "bound"]
        /\ evs' = [evs EXCEPT ![p] = {e}]
        /\ Goto(p, "ack")
     \/ /\ HubClosed /\ Quiet(e)
        /\ ups' = [ups EXCEPT ![e] = Absent]
        /\ Goto(p, "unbind")
        /\ UNCHANGED evs
  /\ UNCHANGED <<tables, joined, stage, body, bounds, hand, todo, gen>>

(* add's way out when bind failed: the Up goes, with whoever has joined it. *)
(* A thread that joined it and is on its way out shares no later one.      *)
Unbind(p) ==
  LET e == hand[p].event IN
  /\ pc[p] = "unbind"
  /\ IF HubClosed
     THEN UNCHANGED <<ups, evs>>
     ELSE /\ ups' = [ups EXCEPT ![e] = Absent]
          /\ evs' = [t \in Threads |-> IF Leaving(t, e) THEN evs[t] \ {e} ELSE evs[t]]
  /\ Goto(p, "abandonErase")
  /\ UNCHANGED <<tables, joined, stage, body, bounds, hand, todo, gen>>

(* The reply, as add returns and lets go of the Up. *)
Ack(p) ==
  /\ pc[p] = "ack"
  /\ ups' = [e \in Events |-> IF LastOf(p, e) THEN Absent ELSE ups[e]]
  /\ Reply("registered", hand[p])
  /\ Return(p)
  /\ UNCHANGED <<attached, entries, subscribers, nextSid, queue, joined, stage, body, bounds>>

(* abandonSubscribe, on the pump or on the service thread; its two locks   *)
(* are taken in turn.                                                      *)
AbandonErase(t) ==
  /\ pc[t] = "abandonErase"
  /\ subscribers' = subscribers \ {hand[t]}
  /\ Goto(t, "abandonRelease")
  /\ UNCHANGED <<attached, entries, nextSid, queue, out, hub, stage, body, bounds,
                 hand, evs, todo, gen>>

(* Fault: a failed subscribe drops its subscriber but keeps its id. *)
AbandonRelease_Skip(t) ==
  /\ pc[t] = "abandonRelease"
  /\ Goto(t, "refuse")
  /\ UNCHANGED <<tables, hub, stage, body, bounds, hand, evs, todo, gen>>

AbandonRelease(t) ==
  /\ pc[t] = "abandonRelease"
  /\ Release(hand[t])
  /\ Goto(t, "refuse")
  /\ UNCHANGED <<attached, subscribers, nextSid, queue, out, hub, stage, body, bounds,
                 hand, evs, todo, gen>>

Refuse(t) ==
  /\ pc[t] = "refuse"
  /\ Reply("refused", hand[t])
  /\ Return(t)
  /\ UNCHANGED <<attached, entries, subscribers, nextSid, queue, hub, stage, body, bounds>>

----------------------------------------------------------------------------
(* Provider loss: notifyModuleLost.  An upstream thread runs it for a       *)
(* status report (until the clients are closed), a pump thread for a       *)
(* provider that revalidation found changed.                               *)

MayReportLoss(t) ==
  \/ t \in Deliverers /\ stage \in {"running", "draining", "clearing", "cleared"}
  \/ t \in Pumps /\ ~PumpStopping

LossBegin(t) ==
  /\ pc[t] = "idle" /\ MayReportLoss(t) /\ losses < MaxLosses
  /\ losses' = losses + 1
  /\ evs' = [evs EXCEPT ![t] = {e \in Events : Present(e)}]
  /\ Goto(t, "loss")
  /\ UNCHANGED <<tables, hub, stage, body, published, hand, todo, gen>>

(* Fault: the affected subscribers stay published for the next generation. *)
LossTake_Keeps(t) ==
  /\ pc[t] = "loss" /\ todo[t] = {}
  /\ \E e \in evs[t] :
       /\ evs' = [evs EXCEPT ![t] = @ \ {e}]
       /\ IF Present(e)
          THEN /\ todo' = [todo EXCEPT ![t] = ups[e].ids]
               /\ ups' = [ups EXCEPT ![e].gen = @ + 1]
          ELSE UNCHANGED <<todo, ups>>
  /\ UNCHANGED <<tables, joined, stage, body, bounds, pc, hand, gen>>

(* Fault: the snapshot is taken after the set was emptied. *)
LossTake_Late(t) ==
  /\ pc[t] = "loss" /\ todo[t] = {}
  /\ \E e \in evs[t] :
       /\ evs' = [evs EXCEPT ![t] = @ \ {e}]
       /\ IF Present(e)
          THEN ups' = [ups EXCEPT ![e].gen = @ + 1, ![e].ids = {}]
          ELSE UNCHANGED ups
  /\ UNCHANGED <<tables, joined, stage, body, bounds, pc, hand, todo, gen>>

(* notifyLost's critical section: snapshot, next generation, empty. *)
LossTake(t) ==
  /\ pc[t] = "loss" /\ todo[t] = {}
  /\ \E e \in evs[t] :
       /\ evs' = [evs EXCEPT ![t] = @ \ {e}]
       /\ IF Present(e)
          THEN /\ todo' = [todo EXCEPT ![t] = ups[e].ids]
               /\ ups' = [ups EXCEPT ![e].gen = @ + 1, ![e].ids = {}]
          ELSE UNCHANGED <<todo, ups>>
  /\ UNCHANGED <<tables, joined, stage, body, bounds, pc, hand, gen>>

(* onSubscriptionLost: erase, then free the id, then announce. *)
LossErase(t) ==
  /\ pc[t] = "loss"
  /\ \E s \in todo[t] :
       /\ todo' = [todo EXCEPT ![t] = @ \ {s}]
       /\ \/ /\ s \in subscribers
             /\ subscribers' = subscribers \ {s}
             /\ hand' = [hand EXCEPT ![t] = s]
             /\ Goto(t, "lossRelease")
          \/ /\ s \notin subscribers
             /\ UNCHANGED <<subscribers, hand, pc>>
  /\ UNCHANGED <<attached, entries, nextSid, queue, out, hub, stage, body, bounds, evs, gen>>

(* Fault: the notice is sent with the id still taken. *)
LossRelease_Skip(t) ==
  /\ pc[t] = "lossRelease"
  /\ Goto(t, "sendLost")
  /\ UNCHANGED <<tables, hub, stage, body, bounds, hand, evs, todo, gen>>

LossRelease(t) ==
  /\ pc[t] = "lossRelease"
  /\ Release(hand[t])
  /\ Goto(t, "sendLost")
  /\ UNCHANGED <<attached, subscribers, nextSid, queue, out, hub, stage, body, bounds,
                 hand, evs, todo, gen>>

LossSend(t) ==
  /\ pc[t] = "sendLost"
  /\ Reply("terminated", hand[t])
  /\ hand' = [hand EXCEPT ![t] = NoSub]
  /\ Goto(t, "loss")
  /\ UNCHANGED <<attached, entries, subscribers, nextSid, queue, hub, stage, body, bounds,
                 evs, todo, gen>>

LossDone(t) ==
  /\ pc[t] = "loss" /\ todo[t] = {} /\ evs[t] = {}
  /\ Return(t)
  /\ UNCHANGED <<tables, hub, stage, body, bounds>>

----------------------------------------------------------------------------
(* Event delivery: deliverFor's callback, and onEvent for each subscriber *)

HandleLive(e) == ups[e].state \in {"live", "bound", "dropped"}

(* The Up is locked and its subscribers are read before the generation, all *)
(* without the hub's lock.  A delivery to nobody is over, but for letting  *)
(* go of the Up.                                                           *)
DeliverSubscribers(t) ==
  /\ pc[t] = "idle" /\ published < MaxEvents
  /\ published' = published + 1
  /\ \E e \in Events :
       /\ HandleLive(e)
       /\ evs' = [evs EXCEPT ![t] = {e}]
       /\ todo' = [todo EXCEPT ![t] = ups[e].ids]
       /\ Goto(t, IF ups[e].ids = {} THEN "deliver" ELSE "gen")
  /\ UNCHANGED <<tables, hub, stage, body, losses, hand, gen>>

DeliverGeneration(t) ==
  /\ pc[t] = "gen"
  /\ \E e \in evs[t] : gen' = [gen EXCEPT ![t] = ups[e].gen]
  /\ Goto(t, "deliver")
  /\ UNCHANGED <<tables, hub, stage, body, bounds, hand, evs, todo>>

(* Fault: the generation is read first. *)
DeliverReads_Swapped(t) ==
  \/ /\ pc[t] = "idle" /\ published < MaxEvents
     /\ published' = published + 1
     /\ \E e \in Events :
          /\ HandleLive(e)
          /\ evs' = [evs EXCEPT ![t] = {e}]
          /\ gen' = [gen EXCEPT ![t] = ups[e].gen]
     /\ Goto(t, "gen")
     /\ UNCHANGED <<tables, hub, stage, body, losses, hand, todo>>
  \/ /\ pc[t] = "gen"
     /\ \E e \in evs[t] : todo' = [todo EXCEPT ![t] = ups[e].ids]
     /\ Goto(t, "deliver")
     /\ UNCHANGED <<tables, hub, stage, body, bounds, hand, evs, gen>>

(* The two lock-free reads that open a delivery. *)
DeliverReads(t) == DeliverSubscribers(t) \/ DeliverGeneration(t)

DeliverLookup(t) ==
  /\ pc[t] = "deliver"
  /\ \E s \in todo[t] :
       /\ todo' = [todo EXCEPT ![t] = @ \ {s}]
       /\ IF s \in subscribers
          THEN /\ hand' = [hand EXCEPT ![t] = s]
               /\ Goto(t, "sendEvent")
          ELSE UNCHANGED <<hand, pc>>
  /\ UNCHANGED <<tables, hub, stage, body, bounds, evs, gen>>

DeliverSend(t) ==
  /\ pc[t] = "sendEvent"
  /\ Send(hand[t].conn, "event", hand[t], gen[t])
  /\ hand' = [hand EXCEPT ![t] = NoSub]
  /\ Goto(t, "deliver")
  /\ UNCHANGED <<attached, entries, subscribers, nextSid, queue, hub, stage, body, bounds,
                 evs, todo, gen>>

DeliverDone(t) ==
  /\ pc[t] = "deliver" /\ todo[t] = {} /\ \A e \in Events : ~LastOf(t, e)
  /\ Return(t)
  /\ UNCHANGED <<tables, hub, stage, body, bounds>>

(* The delivery that lets go of the Up last destroys its handle, inside the *)
(* callback whose guard that takes.                                        *)
DeliverLast(t) ==
  /\ pc[t] = "deliver" /\ todo[t] = {}
  /\ \E e \in Events : LastOf(t, e) /\ ups' = [ups EXCEPT ![e] = Absent]
  /\ Goto(t, "unsubscribe")
  /\ UNCHANGED <<tables, joined, stage, body, bounds, hand, evs, todo, gen>>

(* External: lp_unsubscribe returns to such a callback if its guard lets   *)
(* the same thread in again, and never otherwise.                          *)
Unsubscribed(t) ==
  /\ pc[t] = "unsubscribe" /\ GuardReenters
  /\ Return(t)
  /\ UNCHANGED <<tables, hub, stage, body, bounds>>

----------------------------------------------------------------------------
(* BridgeCore::shutdown, on the main thread *)

Advance(from, to) == stage = from /\ stage' = to

Drain ==
  /\ MayStop /\ Advance("running", "draining")
  /\ body' \in {c \in attached : InBody(c)} \cup {NoSub}
  /\ UNCHANGED <<tables, hub, bounds, locals>>

(* SubscriptionHub::clear closes the hub, then drops its references to the *)
(* Ups.  It waits for no delivery: a delivery has a reference of its own.  *)
HubClear ==
  /\ Advance("draining", "clearing")
  /\ UNCHANGED <<tables, hub, body, bounds, locals>>

HubDrop ==
  LET mine == {e \in Events : ups[e].state = "bound"} IN
  /\ Advance("clearing", "cleared")
  /\ ups' = [e \in Events |-> IF e \notin mine THEN ups[e]
                             ELSE IF Shared(e) THEN [ups[e] EXCEPT !.state = "dropped"]
                             ELSE Absent]
  /\ UNCHANGED <<tables, joined, body, bounds, locals>>

(* ClientRegistry::close destroys the watchers: their callbacks are over. *)
ClientsClose ==
  /\ Advance("cleared", "closed")
  /\ \A t \in Deliverers : pc[t] \notin {"loss", "lossRelease", "sendLost"}
  /\ UNCHANGED <<tables, hub, body, bounds, locals>>

PumpStop ==
  /\ Advance("closed", "joining")
  /\ queue' = <<>>
  /\ UNCHANGED <<attached, entries, subscribers, nextSid, out, hub, body, bounds, locals>>

PumpJoin ==
  /\ Advance("joining", "joined")
  /\ \A p \in Pumps : pc[p] = "idle"
  /\ UNCHANGED <<tables, hub, body, bounds, locals>>

(* WsServer::stop joins the service thread and closes every connection. *)
ServerStop ==
  /\ Advance("joined", "stopped")
  /\ pc[svc] = "idle" /\ body = NoSub
  /\ attached' = {} /\ subscribers' = {}
  /\ UNCHANGED <<entries, nextSid, queue, out, hub, body, bounds, locals>>

----------------------------------------------------------------------------
Init ==
  /\ attached = Conns /\ entries = {} /\ subscribers = {} /\ nextSid = 1
  /\ ups = [e \in Events |-> Absent] /\ queue = <<>>
  /\ stage = "running" /\ body = NoSub
  /\ out = [c \in Conns |-> <<>>]
  /\ joined = [n \in 1..MaxSids |-> 0]
  /\ losses = 0 /\ published = 0
  /\ pc = [t \in Threads |-> "idle"] /\ hand = [t \in Threads |-> NoSub]
  /\ evs = [t \in Threads |-> {}] /\ todo = [t \in Threads |-> {}]
  /\ gen = [t \in Threads |-> 0]

(* Fault: the id is freed before the subscriber is erased. *)
Abandon_Swapped(t) ==
  \/ /\ pc[t] = "abandonErase"
     /\ Release(hand[t])
     /\ Goto(t, "abandonRelease")
     /\ UNCHANGED <<attached, subscribers, nextSid, queue, out, hub, stage, body, bounds,
                    hand, evs, todo, gen>>
  \/ /\ pc[t] = "abandonRelease"
     /\ subscribers' = subscribers \ {hand[t]}
     /\ Goto(t, "refuse")
     /\ UNCHANGED <<attached, entries, nextSid, queue, out, hub, stage, body, bounds,
                    hand, evs, todo, gen>>
  \/ Refuse(t)

Abandon(t) == AbandonErase(t) \/ AbandonRelease(t) \/ Refuse(t)

(* What a thread does next with the request or callback it has started. *)
ServiceStep ==
  \/ Register \/ Submit \/ UnsubErase \/ UnsubHub \/ UnsubAck \/ BodyDone
  \/ CloseErase \/ CloseHub \/ Abandon(svc)
JobStep(p) ==
  HubAdd(p) \/ BindSubscribe(p) \/ BindStore(p) \/ Unbind(p) \/ Ack(p) \/ Abandon(p)
LossStep(t) ==
  LossTake(t) \/ LossErase(t) \/ LossRelease(t) \/ LossSend(t) \/ LossDone(t)
DeliverStep(t) ==
  DeliverLookup(t) \/ DeliverSend(t) \/ DeliverDone(t) \/ DeliverLast(t) \/ Unsubscribed(t)
ShutdownStep ==
  HubClear \/ HubDrop \/ ClientsClose \/ PumpStop \/ PumpJoin \/ ServerStop

(* Nothing under way: the bridge waits for a request, or has stopped. *)
Rest ==
  /\ stage \in {"running", "stopped"} /\ queue = <<>> /\ body = NoSub
  /\ \A t \in Threads : pc[t] = "idle"
  /\ UNCHANGED vars

Next ==
  \/ \E c \in Conns, i \in Ids : Take(c, i) \/ \E e \in Events : Claim(c, i, e)
  \/ \E c \in Conns : Detach(c)
  \/ ServiceStep
  \/ \E p \in Pumps : TakeJob(p) \/ JobStep(p)
  \/ \E t \in Pumps \cup Deliverers : LossBegin(t) \/ LossStep(t)
  \/ \E t \in Deliverers : DeliverReads(t) \/ DeliverStep(t)
  \/ Drain \/ ShutdownStep
  \/ Rest

Spec == Init /\ [][Next]_vars

(* Every thread goes on with what it has begun, and a pump thread takes a  *)
(* waiting job.  Requests, losses and events need not come.                *)
Fairness ==
  /\ WF_vars(ServiceStep)
  /\ \A p \in Pumps : WF_vars(TakeJob(p) \/ JobStep(p) \/ LossStep(p))
  /\ \A t \in Deliverers : WF_vars(LossStep(t) \/ DeliverGeneration(t) \/ DeliverStep(t))
  /\ WF_vars(ShutdownStep)

FairSpec == Spec /\ Fairness

----------------------------------------------------------------------------
(* Properties *)

Labels ==
  {"idle", "register", "submit", "unsubErase", "unsubHub", "unsubAck", "closing",
   "closeHub", "abandonErase", "abandonRelease", "refuse", "add", "bind", "store",
   "unbind", "ack", "loss", "lossRelease", "sendLost", "gen", "deliver", "sendEvent",
   "unsubscribe"}

Stages == {"running", "draining", "clearing", "cleared", "closed", "joining",
           "joined", "stopped"}

FrameKinds ==
  {"active", "overloaded", "registered", "refused", "unsubscribed", "terminated", "event"}

Frame == [kind : FrameKinds, sub : Subscription, gen : Nat]

Up == [state : {"absent", "new", "live", "bound", "dropped"}, ids : SUBSET Subscription, gen : Nat]

(* Where a thread has a subscription in hand. *)
Working ==
  {"register", "submit", "unsubErase", "unsubHub", "unsubAck", "abandonErase",
   "abandonRelease", "refuse", "add", "bind", "store", "unbind", "ack",
   "lossRelease", "sendLost", "sendEvent"}

TypeOK ==
  /\ attached \subseteq Conns
  /\ entries \subseteq Subscription /\ subscribers \subseteq Subscription
  /\ nextSid \in 1..(MaxSids + 1)
  /\ ups \in [Events -> Up]
  /\ queue \in Seq(Subscription)
  /\ stage \in Stages /\ body \in Conns \cup {NoSub}
  /\ out \in [Conns -> Seq(Frame)]
  /\ joined \in [1..MaxSids -> Nat]
  /\ losses \in Nat /\ published \in Nat
  /\ pc \in [Threads -> Labels]
  /\ hand \in [Threads -> Subscription \cup Conns \cup {NoSub}]
  /\ evs \in [Threads -> SUBSET Events] /\ todo \in [Threads -> SUBSET Subscription]
  /\ gen \in [Threads -> Nat]
  /\ \A t \in Threads : /\ pc[t] \in Working => hand[t] \in Subscription
                        /\ pc[t] = "closing" => hand[t] \in Conns

Sent(c, kind) == {out[c][k] : k \in {j \in DOMAIN out[c] : out[c][j].kind = kind}}

(* "Re-subscribing the same id is idempotent and never double-delivers"    *)
(* (README): no two live subscribers answer to one id of one connection,   *)
(* whatever mix of re-subscribes, losses and abandoned subscribes runs.    *)
OneOwnerPerId ==
  \A a, b \in subscribers : a.conn = b.conn /\ a.id = b.id => a = b

(* Why OneOwnerPerId holds.  The three locks are never nested, so each pair *)
(* of tables disagrees for a moment; Ownership says what still holds then. *)
SameId(a, b) == a.conn = b.conn /\ a.id = b.id

KeysUnique == \A a, b \in entries : SameId(a, b) => a = b

(* A subscriber holds its id, except while an unsubscribe is between the    *)
(* two tables; and no one else has that id then.                           *)
OwnersHold ==
  /\ \A s \in subscribers :
       s \in entries \/ (pc[svc] = "unsubErase" /\ hand[svc] = s)
  /\ pc[svc] = "unsubErase" => \A s \in entries : ~SameId(s, hand[svc])

(* A thread about to free an id has seen to it that no subscriber needs it. *)
ReleasingUnowned ==
  \A t \in Threads : pc[t] \in {"abandonRelease", "lossRelease"} => hand[t] \notin subscribers

(* Until it is registered, a claimed id is known to the service thread only. *)
RegisteringPrivate ==
  pc[svc] = "register" =>
    /\ hand[svc] \in entries \ subscribers
    /\ \A t \in Threads \ {svc} : hand[t] # hand[svc]
    /\ \A k \in DOMAIN queue : queue[k] # hand[svc]

SidsUsed ==
  /\ \A s \in entries \cup subscribers : s.sid < nextSid
  /\ \A t \in Threads : hand[t] \in Subscription => hand[t].sid < nextSid
  /\ \A k \in DOMAIN queue : queue[k].sid < nextSid

Ownership ==
  KeysUnique /\ OwnersHold /\ ReleasingUnowned /\ RegisteringPrivate /\ SidsUsed

(* onSubscriptionLost frees the id before it announces the loss, so a      *)
(* client that re-subscribes on the notice never gets a stale "active".    *)
TerminatedFreesId ==
  \A c \in Conns : \A f \in Sent(c, "terminated") : f.sub \notin entries \cup subscribers

(* onClosed leaves no subscriber that belongs to a connection the server   *)
(* has dropped: nothing looks for such a subscriber again.                 *)
ClosedOwnsNothing ==
  \A s \in subscribers :
    s.conn \in attached \/ (pc[svc] = "closing" /\ hand[svc] = s.conn)

(* An id of a living connection stays taken only while a subscriber holds  *)
(* it or a step that will register or free it is under way: no subscribe   *)
(* that failed and no loss leaves an id answering "active" for ever.       *)
NoIdLeaks ==
  \A s \in entries :
    \/ s.conn \notin attached
    \/ s \in subscribers
    \/ \E t \in Threads :
         hand[t] = s /\ pc[t] \in {"register", "abandonRelease", "lossRelease"}

(* A loss ends a subscription and never resumes it: whoever is in an Up    *)
(* joined it in the generation it is in now.                               *)
NeverResumed ==
  \A e \in Events : \A s \in ups[e].ids : joined[s.sid] = ups[e].gen

(* deliverFor reads the subscribers before the generation, so the          *)
(* generation on an event is never older than the one its subscription     *)
(* joined, however the two lock-free reads race with a loss.               *)
FreshGeneration ==
  \A c \in Conns : \A f \in Sent(c, "event") : f.gen >= joined[f.sub.sid]

(* What shutdown leaves behind as it destroys the server: deliveries that  *)
(* the clearing of the hub did not wait for, or that began behind one, and *)
(* of the upstream subscriptions only those that such a delivery holds.    *)
(* Whoever binds, loses, subscribes or closes meanwhile is waited for.     *)
OnlyDeliveriesRemain ==
  stage = "stopped" =>
    /\ \A t \in Threads : pc[t] \in {"idle", "gen", "deliver", "sendEvent", "unsubscribe"}
    /\ \A e \in Events : HandleLive(e) => ~Quiet(e)

(* A subscription acked "registered" is held upstream (README) until a     *)
(* loss, an unsubscribe or the close of its connection ends it.            *)
RegisteredIsHeld ==
  \A c \in Conns : \A f \in Sent(c, "registered") :
    f.sub \in subscribers /\ ~HubClosed =>
      \/ f.sub \in ups[f.sub.event].ids
      \/ \E t \in Threads : pc[t] \in {"loss", "lossRelease", "sendLost"} /\ f.sub \in todo[t]

(* A subscribe that got its id is answered, unless its connection closes   *)
(* or the bridge shuts down first.                                         *)
SubscribeAnswered ==
  \A c \in Conns : \A n \in 1..MaxSids :
    (\E s \in entries : s.conn = c /\ s.sid = n) ~>
      \/ c \notin attached \/ stage # "running"
      \/ \E f \in Sent(c, "registered") \cup Sent(c, "refused") : f.sub.sid = n

----------------------------------------------------------------------------
(* The contract this design implements.  What the tables hold is what the  *)
(* contract's sets hold; the generation on an event and the order of what  *)
(* was sent are left out of it.                                            *)

Notices ==
  UNION {{[kind |-> out[c][k].kind, sub |-> out[c][k].sub] : k \in DOMAIN out[c]} : c \in Conns}

Contract ==
  INSTANCE SubscriptionContract
  WITH Subs <- [sid : 0..MaxSids, conn : Conns, id : Ids, event : Events],
       Kinds <- FrameKinds, Closing <- {"terminated", "unsubscribed", "refused"},
       ids <- entries, held <- subscribers, told <- Notices

(* Every step of the threads is a step of the contract or changes nothing  *)
(* a client could tell: ids are claimed by one subscription at a time, one *)
(* that a client has heard of never begins again, and its end is told only *)
(* when it gets no more events and its id is free.                         *)
KeepsContract == Contract!Spec

(* Why it does.  A thread that goes on to tell of an end has a subscription *)
(* in hand that is in neither table any more, and what was sent is about   *)
(* subscriptions that were begun before: none that is about to be held.    *)
EndingUnheld ==
  \A t \in Threads :
    pc[t] \in {"refuse", "sendLost", "unsubHub", "unsubAck"} => hand[t] \notin subscribers

EndingFree ==
  \A t \in Threads :
    pc[t] \in {"refuse", "sendLost", "unsubErase", "unsubHub", "unsubAck"} => hand[t] \notin entries

NoticesOld ==
  \A c \in Conns : \A k \in DOMAIN out[c] :
    /\ out[c][k].sub.sid < nextSid
    /\ pc[svc] = "register" => out[c][k].sub # hand[svc]

Endings == EndingUnheld /\ EndingFree /\ NoticesOld
=============================================================================

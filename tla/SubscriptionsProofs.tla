------------------------ MODULE SubscriptionsProofs ------------------------
(***************************************************************************)
(* Proofs about Subscriptions, for any number of connections, ids, events, *)
(* pump threads and upstream threads: its types, who owns an id, the       *)
(* contract it implements and what follows from the contract alone; that   *)
(* no subscriber outlives its connection, no id stays taken for nothing,   *)
(* no subscription is carried over a loss, no event is older than its      *)
(* subscription; and, at shutdown, that what was acknowledged is held and  *)
(* the server outlives its callers.                                        *)
(***************************************************************************)
EXTENDS Subscriptions, SequenceTheorems, TLAPS

(* Every variable keeps its type, and a thread that is at work on a        *)
(* subscription has one in hand.                                           *)
LEMMA SendType ==
  ASSUME TypeOK, NEW c, NEW kind, NEW s \in Subscription, NEW g \in Nat,
         Send(c, kind, s, g),
         kind \in {"active", "overloaded", "registered", "refused", "unsubscribed",
                   "terminated", "event"}
  PROVE  out' \in [Conns -> Seq(Frame)]
<1> DEFINE f == [kind |-> kind, sub |-> s, gen |-> g]
<1>1. f \in Frame
  BY DEF Frame, FrameKinds
<1>2. out \in [Conns -> Seq(Frame)] /\ attached \subseteq Conns
  BY DEF TypeOK
<1>3. CASE c \in attached
  <2>1. Append(out[c], f) \in Seq(Frame)
    BY <1>1, <1>2, <1>3
  <2>2. out' = [out EXCEPT ![c] = Append(out[c], f)]
    BY <1>3 DEF Send
  <2> QED  BY <1>2, <2>1, <2>2
<1>4. CASE c \notin attached
  BY <1>2, <1>4 DEF Send
<1> QED  BY <1>3, <1>4

(* An Up keeps its type whatever is done to its fields. *)
LEMMA UpType ==
  ASSUME NEW u \in Up, NEW ids \in SUBSET Subscription, NEW g \in Nat,
         NEW state \in {"absent", "new", "live", "bound"}
  PROVE  /\ [u EXCEPT !.ids = ids] \in Up
         /\ [u EXCEPT !.gen = g] \in Up
         /\ [u EXCEPT !.state = state] \in Up
         /\ [state |-> state, ids |-> ids, gen |-> g] \in Up
         /\ u.ids \subseteq Subscription /\ u.gen \in Nat
BY DEF Up

LEMMA AbandonType ==
  ASSUME TypeOK, NEW t \in Threads, Abandon(t)
  PROVE  TypeOK'
<1>1. CASE AbandonErase(t)
  BY <1>1 DEF TypeOK, AbandonErase, Goto, Labels, Working, hub, bounds
<1>2. CASE AbandonRelease(t)
  BY <1>2 DEF TypeOK, AbandonRelease, Release, Goto, Labels, Working, hub, bounds
<1>3. CASE Refuse(t)
  <2>1. hand[t] \in Subscription
    BY <1>3 DEF TypeOK, Refuse, Working
  <2>2. out' \in [Conns -> Seq(Frame)]
    BY <1>3, <2>1, SendType DEF Refuse, Reply
  <2> QED
    BY <1>3, <2>2 DEF TypeOK, Refuse, Return, Goto, Labels, Working, hub, bounds
<1> QED  BY <1>1, <1>2, <1>3 DEF Abandon

LEMMA ServiceType ==
  ASSUME TypeOK, ServiceStep
  PROVE  TypeOK'
<1> USE ThreadsAssumption, SubAssumption, BoundsAssumption DEF Threads
<1>1. CASE Register
  BY <1>1 DEF TypeOK, Register, Goto, Labels, Working, hub, bounds
<1>2. CASE Submit
  <2>1. hand[svc] \in Subscription
    BY <1>2 DEF TypeOK, Submit, Working
  <2>2. queue' \in Seq(Subscription)
    <3>1. queue \in Seq(Subscription)
      BY DEF TypeOK
    <3>2. queue' = queue \/ queue' = Append(queue, hand[svc])
      BY <1>2 DEF Submit
    <3>3. Append(queue, hand[svc]) \in Seq(Subscription)
      BY <2>1, <3>1
    <3> QED  BY <3>1, <3>2, <3>3
  <2> QED
    BY <1>2, <2>2 DEF TypeOK, Submit, Goto, Return, Labels, Working, hub, bounds
<1>3. CASE UnsubErase
  BY <1>3 DEF TypeOK, UnsubErase, Goto, Labels, Working, hub, bounds
<1>4. CASE UnsubHub
  <2>1. hand[svc] \in Subscription
    BY <1>4 DEF TypeOK, UnsubHub, Working
  <2>2. hand[svc].event \in Events
    BY <2>1 DEF Subscription
  <2>3. ups \in [Events -> Up]
    BY DEF TypeOK
  <2>4. [ups[hand[svc].event] EXCEPT !.ids = @ \ {hand[svc]}] \in Up
    BY <2>2, <2>3, UpType
  <2>5. ups' \in [Events -> Up]
    BY <1>4, <2>3, <2>4 DEF UnsubHub
  <2> QED
    BY <1>4, <2>5 DEF TypeOK, UnsubHub, Goto, Labels, Working, tables, bounds
<1>5. CASE UnsubAck
  <2>1. hand[svc] \in Subscription
    BY <1>5 DEF TypeOK, UnsubAck, Working
  <2>2. out' \in [Conns -> Seq(Frame)]
    BY <1>5, <2>1, SendType DEF UnsubAck, Reply
  <2> QED
    BY <1>5, <2>2 DEF TypeOK, UnsubAck, Return, Goto, Labels, Working, hub, bounds
<1>6. CASE CloseErase
  BY <1>6 DEF TypeOK, CloseErase, Goto, Labels, Working, hub, bounds
<1>7. CASE CloseHub
  <2>1. ups' \in [Events -> Up]
    <3>1. ups \in [Events -> Up]
      BY DEF TypeOK
    <3>2. \A e \in Events : \A s : [ups[e] EXCEPT !.ids = @ \ {s}] \in Up
      BY <3>1, UpType
    <3>3. CASE ups' = ups
      BY <3>1, <3>3
    <3>4. ASSUME NEW s,
                 ups' = [e \in Events |-> IF Present(e) THEN [ups[e] EXCEPT !.ids = @ \ {s}]
                                          ELSE ups[e]]
          PROVE  ups' \in [Events -> Up]
      <4>1. \A e \in Events : [ups[e] EXCEPT !.ids = @ \ {s}] \in Up
        BY <3>2
      <4> QED  BY <3>1, <3>4, <4>1
    <3> QED  BY <1>7, <3>3, <3>4 DEF CloseHub
  <2> QED
    BY <1>7, <2>1 DEF TypeOK, CloseHub, Return, Goto, Labels, Working, tables, bounds
<1>8. CASE Abandon(svc)
  BY <1>8, AbandonType
<1>9. CASE BodyDone
  BY <1>9 DEF TypeOK, BodyDone, tables, hub, bounds, locals
<1> QED
  BY <1>1, <1>2, <1>3, <1>4, <1>5, <1>6, <1>7, <1>8, <1>9 DEF ServiceStep

LEMMA DetachType ==
  ASSUME TypeOK, NEW c \in Conns, Detach(c)
  PROVE  TypeOK'
BY DEF TypeOK, Detach, Goto, Labels, Working, hub, bounds, Threads

LEMMA RequestType ==
  ASSUME TypeOK, NEW c \in Conns, NEW i \in Ids,
         Take(c, i) \/ \E e \in Events : Claim(c, i, e)
  PROVE  TypeOK'
<1> USE ThreadsAssumption, SubAssumption, BoundsAssumption DEF Threads
<1>2. CASE Take(c, i)
  <2>1. Holding(c, i) \subseteq Subscription
    BY DEF Holding, TypeOK
  <2> QED
    BY <1>2, <2>1 DEF TypeOK, Take, Goto, Labels, Working, hub, bounds
<1>3. ASSUME NEW e \in Events, Claim(c, i, e) PROVE TypeOK'
  <2>1. Fresh(c, i, e) \in Subscription
    BY DEF TypeOK, Fresh, Subscription
  <2>2. nextSid' \in 1..(MaxSids + 1)
    BY <1>3 DEF TypeOK, Claim
  <2>3. out' \in [Conns -> Seq(Frame)]
    <3>1. CASE Reply("active", Fresh(c, i, e)) \/ Reply("overloaded", Fresh(c, i, e))
      BY <2>1, <3>1, SendType DEF Reply
    <3>2. CASE out' = out
      BY <3>2 DEF TypeOK
    <3> QED  BY <1>3, <3>1, <3>2 DEF Claim
  <2>4. CASE UNCHANGED <<entries, pc, hand>>
    BY <1>3, <2>2, <2>3, <2>4 DEF TypeOK, Claim, hub, bounds
  <2>5. CASE /\ entries' = entries \cup {Fresh(c, i, e)}
             /\ Goto(svc, "register")
             /\ hand' = [hand EXCEPT ![svc] = Fresh(c, i, e)]
    BY <1>3, <2>1, <2>2, <2>3, <2>5 DEF TypeOK, Claim, Goto, Labels, Working, hub, bounds
  <2> QED
    BY <1>3, <2>4, <2>5 DEF Claim
<1> QED  BY <1>2, <1>3

LEMMA JobType ==
  ASSUME TypeOK, NEW p \in Pumps, TakeJob(p) \/ JobStep(p)
  PROVE  TypeOK'
<1> USE ThreadsAssumption, SubAssumption, BoundsAssumption DEF Threads
<1>1. ups \in [Events -> Up] /\ p \in Threads
  BY DEF TypeOK
<1>2. pc[p] \in Working => hand[p] \in Subscription /\ hand[p].event \in Events
  BY DEF TypeOK, Subscription
<1>3. CASE TakeJob(p)
  <2>1. queue \in Seq(Subscription) /\ queue # <<>>
    BY <1>3 DEF TypeOK, TakeJob
  <2>2. Head(queue) \in Subscription /\ Tail(queue) \in Seq(Subscription)
    BY <2>1
  <2> QED
    BY <1>3, <2>2 DEF TypeOK, TakeJob, Goto, Labels, Working, hub, bounds
<1>4. CASE HubAdd(p)
  <2> DEFINE s == hand[p]
  <2>1. s \in Subscription /\ s.event \in Events
    BY <1>2, <1>4 DEF HubAdd, Working
  <2>2. CASE UNCHANGED hub /\ Goto(p, "abandonErase")
    BY <1>4, <2>2 DEF TypeOK, HubAdd, Goto, Labels, Working, tables, hub, bounds
  <2>3. CASE ~HubClosed
    <3>1. [ups[s.event] EXCEPT !.ids = @ \cup {s}] \in Up
      BY <1>1, <2>1, UpType
    <3>2. [state |-> "new", ids |-> {s}, gen |-> 1] \in Up
      BY <2>1 DEF Up
    <3>3. Joined(s.event, s) \in Up
      BY <3>1, <3>2 DEF Joined
    <3>4. ups' \in [Events -> Up]
      BY <1>1, <1>4, <2>3, <3>3 DEF HubAdd
    <3>5. joined' \in [1..MaxSids -> Nat]
      <4>1. Joined(s.event, s).gen \in Nat
        BY <3>3 DEF Up
      <4> QED  BY <1>4, <2>3, <4>1 DEF HubAdd, TypeOK
    <3>6. evs' \in [Threads -> SUBSET Events]
      <4>1. evs \in [Threads -> SUBSET Events] /\ {s.event} \in SUBSET Events
        BY <2>1 DEF TypeOK
      <4>2. evs' = evs \/ evs' = [evs EXCEPT ![p] = {s.event}]
        BY <1>4, <2>3 DEF HubAdd
      <4> QED  BY <4>1, <4>2
    <3>7. \E l \in {"ack", "bind"} : pc' = [pc EXCEPT ![p] = l]
      BY <1>4, <2>3 DEF HubAdd, Goto
    <3>8. /\ pc' \in [Threads -> Labels]
          /\ \A t \in Threads : /\ pc'[t] \in Working => hand[t] \in Subscription
                                /\ pc'[t] = "closing" => hand[t] \in Conns
      BY <2>1, <3>7 DEF TypeOK, Labels, Working
    <3>9. UNCHANGED <<tables, stage, body, bounds, hand, todo, gen>>
      BY <1>4, <2>3 DEF HubAdd
    <3> HIDE DEF s
    <3> QED
      BY <3>4, <3>5, <3>6, <3>8, <3>9 DEF TypeOK, tables, bounds
  <2> QED  BY <1>4, <2>2, <2>3 DEF HubAdd
<1>5. CASE BindSubscribe(p)
  <2>1. hand[p].event \in Events
    BY <1>2, <1>5 DEF BindSubscribe, Working
  <2>2. [ups[hand[p].event] EXCEPT !.state = "live"] \in Up
    BY <1>1, <2>1, UpType
  <2>3. ups' \in [Events -> Up]
    BY <1>1, <1>5, <2>2 DEF BindSubscribe
  <2> QED
    BY <1>5, <2>3 DEF TypeOK, BindSubscribe, Goto, Labels, Working, tables, bounds
<1>6. CASE BindStore(p)
  <2>1. hand[p].event \in Events
    BY <1>2, <1>6 DEF BindStore, Working
  <2>2. [ups[hand[p].event] EXCEPT !.state = "bound"] \in Up
    BY <1>1, <2>1, UpType
  <2>4. Absent \in Up
    BY DEF Absent, Up
  <2>3. ups' \in [Events -> Up]
    BY <1>1, <1>6, <2>2, <2>4 DEF BindStore
  <2>5. evs' \in [Threads -> SUBSET Events]
    <3>1. evs \in [Threads -> SUBSET Events] /\ {hand[p].event} \in SUBSET Events
      BY <2>1 DEF TypeOK
    <3>2. evs' = evs \/ evs' = [evs EXCEPT ![p] = {hand[p].event}]
      BY <1>6 DEF BindStore
    <3> QED  BY <3>1, <3>2
  <2> QED
    BY <1>6, <2>3, <2>5 DEF TypeOK, BindStore, Goto, Labels, Working, tables, bounds
<1>7. CASE Unbind(p)
  <2>1. ups' \in [Events -> Up]
    BY <1>1, <1>7 DEF Unbind, Absent, Up
  <2>2. evs' \in [Threads -> SUBSET Events]
    BY <1>7 DEF TypeOK, Unbind
  <2> QED
    BY <1>7, <2>1, <2>2 DEF TypeOK, Unbind, Goto, Labels, Working, tables, bounds
<1>8. CASE Ack(p)
  <2>1. hand[p] \in Subscription
    BY <1>2, <1>8 DEF Ack, Working
  <2>2. out' \in [Conns -> Seq(Frame)]
    BY <1>8, <2>1, SendType DEF Ack, Reply
  <2>3. Absent \in Up
    BY DEF Absent, Up
  <2>4. ups' \in [Events -> Up]
    BY <1>1, <1>8, <2>3 DEF Ack
  <2> QED
    BY <1>8, <2>2, <2>4 DEF TypeOK, Ack, Return, Goto, Labels, Working, bounds
<1>9. CASE Abandon(p)
  BY <1>1, <1>9, AbandonType
<1> QED
  BY <1>3, <1>4, <1>5, <1>6, <1>7, <1>8, <1>9 DEF JobStep

LEMMA LossType ==
  ASSUME TypeOK, NEW t \in Pumps \cup Deliverers, LossBegin(t) \/ LossStep(t)
  PROVE  TypeOK'
<1> USE BoundsAssumption DEF Threads
<1>1. ups \in [Events -> Up] /\ t \in Threads
  BY DEF TypeOK
<1>2. CASE LossBegin(t)
  BY <1>2 DEF TypeOK, LossBegin, Goto, Labels, Working, tables, hub
<1>3. CASE LossTake(t)
  <2>1. PICK e \in evs[t] :
          /\ evs' = [evs EXCEPT ![t] = @ \ {e}]
          /\ IF Present(e)
             THEN /\ todo' = [todo EXCEPT ![t] = ups[e].ids]
                  /\ ups' = [ups EXCEPT ![e].gen = @ + 1, ![e].ids = {}]
             ELSE UNCHANGED <<todo, ups>>
    BY <1>3 DEF LossTake
  <2>2. e \in Events
    BY <1>1 DEF TypeOK
  <2>3. ups[e].ids \subseteq Subscription /\ ups[e].gen + 1 \in Nat
    BY <1>1, <2>2 DEF Up
  <2>4. ups' \in [Events -> Up]
    <3>1. CASE ups' = ups
      BY <1>1, <3>1
    <3>2. CASE ups' = [ups EXCEPT ![e].gen = @ + 1, ![e].ids = {}]
      <4>1. [ups[e] EXCEPT !.gen = @ + 1] \in Up
        BY <1>1, <2>2, <2>3, UpType
      <4>2. [[ups[e] EXCEPT !.gen = @ + 1] EXCEPT !.ids = {}] \in Up
        BY <4>1, UpType
      <4> QED  BY <1>1, <2>2, <3>2, <4>1, <4>2
    <3> QED  BY <2>1, <3>1, <3>2
  <2>5. todo' \in [Threads -> SUBSET Subscription]
    BY <1>1, <2>1, <2>3 DEF TypeOK
  <2>6. evs' \in [Threads -> SUBSET Events]
    BY <1>1, <2>1 DEF TypeOK
  <2>7. /\ UNCHANGED <<attached, entries, subscribers, nextSid, queue, out>>
        /\ UNCHANGED <<joined, stage, body, losses, published, pc, hand, gen>>
    BY <1>3 DEF LossTake, tables, bounds
  <2> QED
    BY <2>4, <2>5, <2>6, <2>7 DEF TypeOK
<1>4. CASE LossErase(t)
  <2>1. /\ UNCHANGED <<attached, entries, nextSid, ups, joined, queue, out, stage, body, losses>>
        /\ UNCHANGED <<published, evs, gen>>
    BY <1>4 DEF LossErase, hub, bounds
  <2>2. PICK s \in todo[t] :
          /\ todo' = [todo EXCEPT ![t] = @ \ {s}] /\ subscribers' \subseteq subscribers
          /\ \/ UNCHANGED <<hand, pc>>
             \/ hand' = [hand EXCEPT ![t] = s] /\ pc' = [pc EXCEPT ![t] = "lossRelease"]
    BY <1>4 DEF LossErase, Goto
  <2>3. s \in Subscription /\ todo' \in [Threads -> SUBSET Subscription]
    BY <1>1, <2>2 DEF TypeOK
  <2>4. /\ pc' \in [Threads -> Labels]
        /\ hand' \in [Threads -> Subscription \cup Conns \cup {NoSub}]
        /\ \A u \in Threads : /\ pc'[u] \in Working => hand'[u] \in Subscription
                              /\ pc'[u] = "closing" => hand'[u] \in Conns
    <3>1. CASE UNCHANGED <<hand, pc>>
      BY <3>1 DEF TypeOK
    <3>2. CASE hand' = [hand EXCEPT ![t] = s] /\ pc' = [pc EXCEPT ![t] = "lossRelease"]
      <4>1. "lossRelease" \in Labels /\ "lossRelease" # "closing"
        BY DEF Labels
      <4> QED  BY <1>1, <2>3, <3>2, <4>1 DEF TypeOK
    <3> QED  BY <2>2, <3>1, <3>2
  <2> QED  BY <2>1, <2>2, <2>3, <2>4 DEF TypeOK
<1>5. CASE LossRelease(t)
  BY <1>1, <1>5 DEF TypeOK, LossRelease, Release, Goto, Labels, Working, hub, bounds
<1>6. CASE LossSend(t)
  <2>1. hand[t] \in Subscription
    BY <1>1, <1>6 DEF TypeOK, LossSend, Working
  <2>2. out' \in [Conns -> Seq(Frame)]
    BY <1>6, <2>1, SendType DEF LossSend, Reply
  <2> QED
    BY <1>6, <2>2 DEF TypeOK, LossSend, Goto, Labels, Working, hub, bounds
<1>7. CASE LossDone(t)
  BY <1>7 DEF TypeOK, LossDone, Return, Goto, Labels, Working, tables, hub, bounds
<1> QED
  BY <1>2, <1>3, <1>4, <1>5, <1>6, <1>7 DEF LossStep

LEMMA DeliverType ==
  ASSUME TypeOK, NEW t \in Deliverers, DeliverReads(t) \/ DeliverStep(t)
  PROVE  TypeOK'
<1> USE BoundsAssumption DEF Threads
<1>1. ups \in [Events -> Up] /\ t \in Threads
  BY DEF TypeOK
<1>2. CASE DeliverSubscribers(t)
  <2>1. \A e \in Events : ups[e].ids \subseteq Subscription
    BY <1>1 DEF Up
  <2> QED
    BY <1>1, <1>2, <2>1 DEF TypeOK, DeliverSubscribers, Goto, Labels, Working, tables, hub
<1>3. CASE DeliverGeneration(t)
  <2>1. \A e \in Events : ups[e].gen \in Nat
    BY <1>1 DEF Up
  <2>2. evs[t] \subseteq Events
    BY <1>1 DEF TypeOK
  <2>3. gen' \in [Threads -> Nat]
    BY <1>1, <1>3, <2>1, <2>2 DEF TypeOK, DeliverGeneration
  <2> QED
    BY <1>1, <1>3, <2>3 DEF TypeOK, DeliverGeneration, Goto, Labels, Working, tables, hub, bounds
<1>4. CASE DeliverLookup(t)
  BY <1>1, <1>4, ZenonT(60) DEF TypeOK, DeliverLookup, Goto, Labels, Working, tables, hub, bounds
<1>5. CASE DeliverSend(t)
  <2>1. hand[t] \in Subscription /\ gen[t] \in Nat
    BY <1>1, <1>5 DEF TypeOK, DeliverSend, Working
  <2>2. out' \in [Conns -> Seq(Frame)]
    BY <1>5, <2>1, SendType DEF DeliverSend
  <2> QED
    BY <1>5, <2>2 DEF TypeOK, DeliverSend, Goto, Labels, Working, hub, bounds
<1>6. CASE DeliverDone(t)
  BY <1>6 DEF TypeOK, DeliverDone, Return, Goto, Labels, Working, tables, hub, bounds
<1>7. CASE DeliverLast(t)
  <2>1. Absent \in Up
    BY DEF Absent, Up
  <2>2. ups' \in [Events -> Up]
    BY <1>1, <1>7, <2>1 DEF DeliverLast
  <2> QED
    BY <1>1, <1>7, <2>2 DEF TypeOK, DeliverLast, Goto, Labels, Working, tables, bounds
<1>8. CASE Unsubscribed(t)
  BY <1>8 DEF TypeOK, Unsubscribed, Return, Goto, Labels, Working, tables, hub, bounds
<1> QED
  BY <1>2, <1>3, <1>4, <1>5, <1>6, <1>7, <1>8 DEF DeliverReads, DeliverStep

LEMMA ShutdownType ==
  ASSUME TypeOK, Drain \/ ShutdownStep
  PROVE  TypeOK'
<1>1. CASE Drain
  BY <1>1 DEF TypeOK, Drain, Advance, Stages, tables, hub, bounds, locals
<1>2. CASE HubClear
  BY <1>2 DEF TypeOK, HubClear, Advance, Stages, tables, hub, bounds, locals
<1>3. CASE HubDrop
  <2>1. ups' \in [Events -> Up]
    <3>1. Absent \in Up
      BY DEF Absent, Up
    <3>2. \A e \in Events : [ups[e] EXCEPT !.state = "dropped"] \in Up
      <4> SUFFICES ASSUME NEW e \in Events
                   PROVE  [ups[e] EXCEPT !.state = "dropped"] \in Up
        OBVIOUS
      <4>1. ups[e] \in Up
        BY DEF TypeOK
      <4> QED
        BY <4>1 DEF Up
    <3>3. ups' = [e \in Events |-> IF e \notin {f \in Events : ups[f].state = "bound"} THEN ups[e]
                                 ELSE IF Shared(e) THEN [ups[e] EXCEPT !.state = "dropped"]
                                 ELSE Absent]
      BY <1>3 DEF HubDrop
    <3>4. ups \in [Events -> Up]
      BY DEF TypeOK
    <3> QED
      BY <3>1, <3>2, <3>3, <3>4
  <2>2. stage' \in Stages
    BY <1>3 DEF HubDrop, Advance, Stages
  <2>3. UNCHANGED <<tables, joined, body, bounds, locals>>
    BY <1>3 DEF HubDrop
  <2> QED
    BY <2>1, <2>2, <2>3 DEF TypeOK, tables, bounds, locals
<1>4. CASE ClientsClose
  BY <1>4 DEF TypeOK, ClientsClose, Advance, Stages, tables, hub, bounds, locals
<1>5. CASE PumpStop
  <2>1. queue' \in Seq(Subscription)
    BY <1>5 DEF PumpStop
  <2> QED
    BY <1>5, <2>1 DEF TypeOK, PumpStop, Advance, Stages, hub, bounds, locals
<1>6. CASE PumpJoin
  BY <1>6 DEF TypeOK, PumpJoin, Advance, Stages, tables, hub, bounds, locals
<1>7. CASE ServerStop
  BY <1>7 DEF TypeOK, ServerStop, Advance, Stages, hub, bounds, locals
<1> QED
  BY <1>1, <1>2, <1>3, <1>4, <1>5, <1>6, <1>7 DEF ShutdownStep

LEMMA InitType == Init => TypeOK
<1>1. Absent \in Up
  BY DEF Absent, Up
<1>2. 1 \in 1..(MaxSids + 1)
  BY BoundsAssumption
<1>3. <<>> \in Seq(Subscription) /\ <<>> \in Seq(Frame)
  OBVIOUS
<1> QED
  BY <1>1, <1>2, <1>3 DEF Init, TypeOK, Labels, Working, Stages

LEMMA NextType ==
  ASSUME TypeOK, [Next]_vars
  PROVE  TypeOK'
<1>1. CASE UNCHANGED vars
  BY <1>1 DEF TypeOK, vars, tables, hub, bounds, locals
<1>2. CASE Next
  <2>1. CASE Rest
    BY <1>1, <2>1 DEF Rest
  <2>2. ASSUME NEW c \in Conns, NEW i \in Ids,
               Take(c, i) \/ \E e \in Events : Claim(c, i, e)
        PROVE  TypeOK'
    BY <2>2, RequestType
  <2>3. CASE \E c \in Conns : Detach(c)
    BY <2>3, DetachType
  <2>4. ASSUME NEW p \in Pumps, TakeJob(p) \/ JobStep(p)  PROVE TypeOK'
    BY <2>4, JobType
  <2>5. ASSUME NEW t \in Pumps \cup Deliverers, LossBegin(t) \/ LossStep(t)
        PROVE  TypeOK'
    BY <2>5, LossType
  <2>6. ASSUME NEW t \in Deliverers, DeliverReads(t) \/ DeliverStep(t)  PROVE TypeOK'
    BY <2>6, DeliverType
  <2> QED
    BY <1>2, <2>1, <2>2, <2>3, <2>4, <2>5, <2>6, ServiceType, ShutdownType DEF Next
<1> QED  BY <1>1, <1>2

(* Every variable keeps its type, and a thread at work on a subscription   *)
(* has one in hand: no step of subscribe, unsubscribe, loss, delivery or   *)
(* shutdown uses a local another step has consumed.                        *)
THEOREM TypeCorrect == Spec => []TypeOK
<1>1. Init => TypeOK
  BY InitType
<1>2. TypeOK /\ [Next]_vars => TypeOK'
  BY NextType
<1> QED  BY <1>1, <1>2, PTL DEF Spec

----------------------------------------------------------------------------
(* OneOwnerPerId *)

(* A step that leaves the tables and the job queue alone, and does not     *)
(* enter or leave a window between two tables, keeps Ownership.            *)
LEMMA Bystander ==
  ASSUME TypeOK, Ownership, NEW t \in Threads, NEW label, NEW h,
         UNCHANGED <<entries, subscribers, nextSid, queue>>,
         pc' = [pc EXCEPT ![t] = label], hand' = [hand EXCEPT ![t] = h],
         label \notin {"register", "unsubErase", "abandonRelease", "lossRelease"},
         t = svc => pc[svc] \notin {"register", "unsubErase"},
         h = hand[t] \/ h \notin Subscription \/ (h \in subscribers /\ t # svc)
  PROVE  Ownership'
<1>1. /\ pc \in [Threads -> Labels] /\ svc \in Threads
      /\ hand \in [Threads -> Subscription \cup Conns \cup {NoSub}]
      /\ entries \subseteq Subscription
  BY DEF TypeOK, Threads
<1>2. KeysUnique'
  BY DEF Ownership, KeysUnique, SameId
<1>3. OwnersHold'
  BY <1>1 DEF Ownership, OwnersHold, SameId
<1>4. ReleasingUnowned'
  BY <1>1 DEF Ownership, ReleasingUnowned
<1>5. RegisteringPrivate'
  BY <1>1 DEF Ownership, RegisteringPrivate
<1>6. SidsUsed'
  BY <1>1 DEF Ownership, SidsUsed
<1> QED  BY <1>2, <1>3, <1>4, <1>5, <1>6 DEF Ownership

LEMMA ClaimOwnership ==
  ASSUME TypeOK, Ownership, NEW c \in Conns, NEW i \in Ids, NEW e \in Events, Claim(c, i, e)
  PROVE  Ownership'
<1> DEFINE s == Fresh(c, i, e)
<1>1. /\ pc \in [Threads -> Labels] /\ svc \in Threads
      /\ hand \in [Threads -> Subscription \cup Conns \cup {NoSub}]
      /\ entries \subseteq Subscription /\ subscribers \subseteq Subscription
      /\ nextSid \in Nat /\ queue \in Seq(Subscription)
      /\ s \in Subscription /\ s.sid = nextSid /\ s.conn = c /\ s.id = i
  BY BoundsAssumption DEF TypeOK, Threads, Fresh, Subscription
<1>2. UNCHANGED <<subscribers, queue>> /\ nextSid' = nextSid + 1 /\ pc[svc] = "idle"
  BY DEF Claim, Serving
<1>3. \A x \in Subscription : x.sid \in Nat
  BY DEF Subscription
<1>4. CASE UNCHANGED <<entries, pc, hand>>
  <2>1. SidsUsed'
    BY <1>1, <1>2, <1>3, <1>4 DEF Ownership, SidsUsed
  <2> QED
    BY <1>2, <1>4, <2>1
    DEF Ownership, KeysUnique, OwnersHold, ReleasingUnowned, RegisteringPrivate, SameId
<1>5. CASE /\ Holding(c, i) = {}
           /\ entries' = entries \cup {s}
           /\ Goto(svc, "register")
           /\ hand' = [hand EXCEPT ![svc] = s]
  <2>1. pc' = [pc EXCEPT ![svc] = "register"]
    BY <1>5 DEF Goto
  <2>2. KeysUnique'
    BY <1>1, <1>5 DEF Ownership, KeysUnique, SameId, Holding
  <2>3. OwnersHold'
    BY <1>1, <1>2, <1>5, <2>1 DEF Ownership, OwnersHold, SameId
  <2>4. ReleasingUnowned'
    BY <1>1, <1>2, <1>5, <2>1 DEF Ownership, ReleasingUnowned
  <2>5. s \notin subscribers /\ \A t \in Threads : hand[t] # s
    BY <1>1 DEF Ownership, SidsUsed
  <2>6. \A k \in DOMAIN queue : queue[k] # s
    BY <1>1 DEF Ownership, SidsUsed
  <2>7. RegisteringPrivate'
    BY <1>1, <1>2, <1>5, <2>1, <2>5, <2>6 DEF RegisteringPrivate
  <2>8. SidsUsed'
    BY <1>1, <1>2, <1>3, <1>5 DEF Ownership, SidsUsed
  <2> QED  BY <2>2, <2>3, <2>4, <2>7, <2>8 DEF Ownership
<1> QED  BY <1>4, <1>5 DEF Claim

LEMMA RegisterOwnership ==
  ASSUME TypeOK, Ownership, Register
  PROVE  Ownership'
<1>1. /\ pc \in [Threads -> Labels] /\ svc \in Threads
      /\ hand \in [Threads -> Subscription \cup Conns \cup {NoSub}]
      /\ entries \subseteq Subscription /\ pc[svc] = "register"
  BY DEF TypeOK, Threads, Register
<1>2. /\ UNCHANGED <<entries, hand, nextSid, queue>>
      /\ subscribers' = subscribers \cup {hand[svc]}
      /\ pc' = [pc EXCEPT ![svc] = "submit"]
  BY DEF Register, Goto
<1>3. KeysUnique'
  BY <1>2 DEF Ownership, KeysUnique, SameId
<1>4. OwnersHold'
  BY <1>1, <1>2 DEF Ownership, OwnersHold, RegisteringPrivate, SameId
<1>5. ReleasingUnowned'
  BY <1>1, <1>2 DEF Ownership, ReleasingUnowned, RegisteringPrivate
<1>6. RegisteringPrivate'
  BY <1>1, <1>2 DEF RegisteringPrivate
<1>7. SidsUsed'
  BY <1>1, <1>2 DEF Ownership, SidsUsed, RegisteringPrivate
<1> QED  BY <1>3, <1>4, <1>5, <1>6, <1>7 DEF Ownership

LEMMA SubmitOwnership ==
  ASSUME TypeOK, Ownership, Submit
  PROVE  Ownership'
<1>1. /\ pc \in [Threads -> Labels] /\ svc \in Threads
      /\ hand \in [Threads -> Subscription \cup Conns \cup {NoSub}]
      /\ queue \in Seq(Subscription) /\ pc[svc] = "submit"
  BY DEF TypeOK, Threads, Submit
<1>2. hand[svc] \in Subscription
  BY DEF TypeOK, Threads, Submit, Working
<1>3. CASE Goto(svc, "abandonErase") /\ UNCHANGED <<queue, hand>>
  <2>1. hand' = [hand EXCEPT ![svc] = hand[svc]]
    BY <1>1, <1>3
  <2> QED  BY <1>1, <1>3, <2>1, Bystander DEF Goto, Submit
<1>4. CASE queue' = Append(queue, hand[svc]) /\ Return(svc)
  <2>1. /\ UNCHANGED <<entries, subscribers, nextSid>>
        /\ pc' = [pc EXCEPT ![svc] = "idle"] /\ hand' = [hand EXCEPT ![svc] = NoSub]
    BY <1>4 DEF Submit, Return, Goto
  <2>2. KeysUnique' /\ OwnersHold' /\ ReleasingUnowned' /\ RegisteringPrivate'
    BY <1>1, <2>1
    DEF Ownership, KeysUnique, OwnersHold, ReleasingUnowned, RegisteringPrivate, SameId
  <2>3. \A k \in DOMAIN queue' : queue'[k] = hand[svc] \/ (k \in DOMAIN queue /\ queue'[k] = queue[k])
    BY <1>1, <1>2, <1>4
  <2>4. SidsUsed'
    BY <1>1, <1>2, <2>1, <2>3, SubAssumption DEF Ownership, SidsUsed
  <2> QED  BY <2>2, <2>4 DEF Ownership
<1> QED  BY <1>3, <1>4 DEF Submit

LEMMA TakeOwnership ==
  ASSUME TypeOK, Ownership, NEW c \in Conns, NEW i \in Ids, Take(c, i)
  PROVE  Ownership'
<1>1. /\ pc \in [Threads -> Labels] /\ svc \in Threads
      /\ hand \in [Threads -> Subscription \cup Conns \cup {NoSub}]
      /\ entries \subseteq Subscription /\ pc[svc] = "idle"
  BY DEF TypeOK, Threads, Take, Serving
<1>2. PICK s \in entries : entries' = entries \ {s} /\ hand' = [hand EXCEPT ![svc] = s]
  BY DEF Take, Holding
<1>3. pc' = [pc EXCEPT ![svc] = "unsubErase"] /\ UNCHANGED <<subscribers, nextSid, queue>>
  BY DEF Take, Goto
<1>4. KeysUnique'
  BY <1>2 DEF Ownership, KeysUnique, SameId
<1>5. OwnersHold'
  BY <1>1, <1>2, <1>3 DEF Ownership, OwnersHold, KeysUnique, SameId
<1>6. ReleasingUnowned' /\ RegisteringPrivate'
  BY <1>1, <1>2, <1>3 DEF Ownership, ReleasingUnowned, RegisteringPrivate
<1>7. SidsUsed'
  BY <1>1, <1>2, <1>3 DEF Ownership, SidsUsed
<1> QED  BY <1>4, <1>5, <1>6, <1>7 DEF Ownership

(* Erasing subscribers keeps Ownership: it only removes claims on an id.   *)
LEMMA EraseOwnership ==
  ASSUME TypeOK, Ownership, NEW t \in Threads,
         UNCHANGED <<entries, nextSid, queue>>,
         subscribers' \subseteq subscribers,
         \A u \in Threads \ {t} : pc'[u] = pc[u] /\ hand'[u] = hand[u],
         pc'[t] \notin {"register", "unsubErase"},
         pc[t] # "register", hand'[t] \notin subscribers',
         hand'[t] = hand[t] \/ (hand'[t] \in subscribers /\ t # svc)
  PROVE  Ownership'
<1>1. /\ pc \in [Threads -> Labels] /\ svc \in Threads
      /\ hand \in [Threads -> Subscription \cup Conns \cup {NoSub}]
      /\ entries \subseteq Subscription /\ subscribers \subseteq Subscription
  BY DEF TypeOK, Threads
<1>2. KeysUnique'
  BY DEF Ownership, KeysUnique, SameId
<1>3. OwnersHold'
  BY <1>1 DEF Ownership, OwnersHold, SameId
<1>4. ReleasingUnowned'
  BY <1>1 DEF Ownership, ReleasingUnowned
<1>5. RegisteringPrivate'
  BY <1>1 DEF Ownership, RegisteringPrivate
<1>6. SidsUsed'
  BY <1>1 DEF Ownership, SidsUsed
<1> QED  BY <1>2, <1>3, <1>4, <1>5, <1>6 DEF Ownership

(* Freeing the id of a subscription no subscriber needs keeps Ownership. *)
LEMMA ReleaseOwnership ==
  ASSUME TypeOK, Ownership, NEW t \in Threads, NEW label,
         UNCHANGED <<subscribers, nextSid, queue, hand>>,
         pc[t] \in {"abandonRelease", "lossRelease"},
         Release(hand[t]),
         pc' = [pc EXCEPT ![t] = label],
         label \notin {"register", "unsubErase", "abandonRelease", "lossRelease"}
  PROVE  Ownership'
<1>1. /\ pc \in [Threads -> Labels] /\ svc \in Threads
      /\ entries' = entries \ {hand[t]} /\ hand[t] \notin subscribers
  BY DEF TypeOK, Threads, Release, Ownership, ReleasingUnowned
<1>2. KeysUnique'
  BY <1>1 DEF Ownership, KeysUnique, SameId
<1>3. OwnersHold'
  BY <1>1 DEF Ownership, OwnersHold, SameId
<1>4. ReleasingUnowned'
  BY <1>1 DEF Ownership, ReleasingUnowned
<1>5. RegisteringPrivate'
  BY <1>1 DEF Ownership, RegisteringPrivate
<1>6. SidsUsed'
  BY <1>1 DEF Ownership, SidsUsed
<1> QED  BY <1>2, <1>3, <1>4, <1>5, <1>6 DEF Ownership

LEMMA AbandonOwnership ==
  ASSUME TypeOK, Ownership, NEW t \in Threads, Abandon(t)
  PROVE  Ownership'
<1>1. pc \in [Threads -> Labels] /\ hand = [hand EXCEPT ![t] = hand[t]]
  BY DEF TypeOK, Threads
<1>2. CASE AbandonErase(t)
  <2>1. /\ UNCHANGED <<entries, nextSid, queue>>
        /\ subscribers' = subscribers \ {hand[t]} /\ hand[t] \notin subscribers'
        /\ pc' = [pc EXCEPT ![t] = "abandonRelease"] /\ hand' = hand
        /\ pc[t] = "abandonErase"
    BY <1>2 DEF AbandonErase, Goto
  <2> QED  BY <1>1, <2>1, EraseOwnership
<1>3. CASE AbandonRelease(t)
  BY <1>1, <1>3, ReleaseOwnership DEF AbandonRelease, Goto
<1>4. CASE Refuse(t)
  BY <1>4, Bystander, SubAssumption DEF Refuse, Return, Goto
<1> QED  BY <1>2, <1>3, <1>4 DEF Abandon

LEMMA TakeJobOwnership ==
  ASSUME TypeOK, Ownership, NEW p \in Pumps, TakeJob(p)
  PROVE  Ownership'
<1>1. /\ pc \in [Threads -> Labels] /\ svc \in Threads /\ p \in Threads /\ p # svc
      /\ hand \in [Threads -> Subscription \cup Conns \cup {NoSub}]
      /\ queue \in Seq(Subscription) /\ queue # <<>> /\ pc[p] = "idle"
      /\ entries \subseteq Subscription
  BY ThreadsAssumption DEF TypeOK, Threads, TakeJob
<1>2. /\ UNCHANGED <<entries, subscribers, nextSid>> /\ queue' = Tail(queue)
      /\ hand' = [hand EXCEPT ![p] = Head(queue)] /\ pc' = [pc EXCEPT ![p] = "add"]
  BY DEF TakeJob, Goto
<1>3. /\ 1 \in DOMAIN queue /\ Head(queue) = queue[1]
      /\ \A k \in DOMAIN queue' : k + 1 \in DOMAIN queue /\ queue'[k] = queue[k + 1]
  BY <1>1, <1>2
<1>4. KeysUnique' /\ OwnersHold' /\ ReleasingUnowned'
  BY <1>1, <1>2 DEF Ownership, KeysUnique, OwnersHold, ReleasingUnowned, SameId
<1>5. RegisteringPrivate'
  BY <1>1, <1>2, <1>3 DEF Ownership, RegisteringPrivate
<1>6. SidsUsed'
  BY <1>1, <1>2, <1>3 DEF Ownership, SidsUsed
<1> QED  BY <1>4, <1>5, <1>6 DEF Ownership

LEMMA ServiceOwnership ==
  ASSUME TypeOK, Ownership, ServiceStep
  PROVE  Ownership'
<1>1. /\ pc \in [Threads -> Labels] /\ svc \in Threads
      /\ hand \in [Threads -> Subscription \cup Conns \cup {NoSub}]
      /\ hand = [hand EXCEPT ![svc] = hand[svc]]
  BY DEF TypeOK, Threads
<1>2. CASE UnsubErase
  <2>1. /\ UNCHANGED <<entries, nextSid, queue>>
        /\ subscribers' = subscribers \ {hand[svc]} /\ hand[svc] \notin subscribers'
        /\ pc' = [pc EXCEPT ![svc] = "unsubHub"] /\ hand' = hand
        /\ pc[svc] = "unsubErase"
    BY <1>2 DEF UnsubErase, Goto
  <2> QED  BY <1>1, <2>1, EraseOwnership
<1>3. CASE UnsubHub
  BY <1>1, <1>3, Bystander DEF UnsubHub, Goto, tables
<1>4. CASE UnsubAck
  BY <1>1, <1>4, Bystander, SubAssumption DEF UnsubAck, Return, Goto
<1>5. CASE CloseErase
  <2>1. /\ UNCHANGED <<entries, nextSid, queue>>
        /\ subscribers' = subscribers \ {s \in subscribers : s.conn = hand[svc]}
        /\ pc' = [pc EXCEPT ![svc] = "closeHub"] /\ hand' = hand
        /\ pc[svc] = "closing"
    BY <1>5 DEF CloseErase, Goto
  <2>2. hand[svc] \notin subscribers'
    <3>1. hand[svc] \in Conns /\ subscribers \subseteq Subscription
      BY <1>1, <2>1 DEF TypeOK
    <3> QED  BY <2>1, <3>1, SubAssumption
  <2> QED  BY <1>1, <2>1, <2>2, EraseOwnership
<1>6. CASE CloseHub
  <2>1. CASE UNCHANGED <<pc, hand>>
    <3>1. pc = [pc EXCEPT ![svc] = "closeHub"]
      BY <1>1, <1>6 DEF CloseHub
    <3> QED  BY <1>1, <1>6, <2>1, <3>1, Bystander DEF CloseHub, tables
  <2>2. CASE Return(svc)
    BY <1>1, <1>6, <2>2, Bystander, SubAssumption DEF CloseHub, Return, Goto, tables
  <2> QED  BY <1>6, <2>1, <2>2 DEF CloseHub
<1>7. CASE Abandon(svc)
  BY <1>1, <1>7, AbandonOwnership
<1>8. CASE BodyDone
  BY <1>8 DEF BodyDone, tables, locals, Ownership, KeysUnique, OwnersHold, ReleasingUnowned,
              RegisteringPrivate, SidsUsed
<1> QED
  BY <1>2, <1>3, <1>4, <1>5, <1>6, <1>7, <1>8, RegisterOwnership, SubmitOwnership DEF ServiceStep

LEMMA JobOwnership ==
  ASSUME TypeOK, Ownership, NEW p \in Pumps, JobStep(p)
  PROVE  Ownership'
<1>1. /\ p \in Threads /\ p # svc
      /\ hand = [hand EXCEPT ![p] = hand[p]]
  BY ThreadsAssumption DEF TypeOK, Threads
<1>2. CASE HubAdd(p)
  <2>1. /\ UNCHANGED <<entries, subscribers, nextSid, queue, hand>>
        /\ \E label \in {"abandonErase", "ack", "bind"} : pc' = [pc EXCEPT ![p] = label]
    BY <1>2 DEF HubAdd, Goto, tables
  <2> QED  BY <1>1, <2>1, Bystander
<1>3. CASE BindSubscribe(p)
  BY <1>1, <1>3, Bystander DEF BindSubscribe, Goto, tables
<1>4. CASE BindStore(p)
  BY <1>1, <1>4, Bystander DEF BindStore, Goto, tables
<1>5. CASE Unbind(p)
  BY <1>1, <1>5, Bystander DEF Unbind, Goto, tables
<1>6. CASE Ack(p)
  BY <1>1, <1>6, Bystander, SubAssumption DEF Ack, Return, Goto
<1>7. CASE Abandon(p)
  BY <1>1, <1>7, AbandonOwnership
<1> QED  BY <1>2, <1>3, <1>4, <1>5, <1>6, <1>7 DEF JobStep

LEMMA LossOwnership ==
  ASSUME TypeOK, Ownership, NEW t \in Pumps \cup Deliverers, LossBegin(t) \/ LossStep(t)
  PROVE  Ownership'
<1>1. /\ t \in Threads /\ t # svc
      /\ pc \in [Threads -> Labels] /\ hand = [hand EXCEPT ![t] = hand[t]]
      /\ todo \in [Threads -> SUBSET Subscription]
  BY ThreadsAssumption DEF TypeOK, Threads
<1>2. CASE LossBegin(t)
  BY <1>1, <1>2, Bystander DEF LossBegin, Goto, tables
<1>3. CASE LossTake(t)
  <2>1. pc' = [pc EXCEPT ![t] = "loss"]
    BY <1>1, <1>3 DEF LossTake
  <2> QED  BY <1>1, <1>3, <2>1, Bystander DEF LossTake, tables
<1>4. CASE LossErase(t)
  <2>1. PICK s \in todo[t] :
          \/ /\ s \in subscribers
             /\ subscribers' = subscribers \ {s}
             /\ hand' = [hand EXCEPT ![t] = s]
             /\ Goto(t, "lossRelease")
          \/ UNCHANGED <<subscribers, hand, pc>>
    BY <1>4 DEF LossErase
  <2>2. UNCHANGED <<entries, nextSid, queue>> /\ pc[t] = "loss"
    BY <1>4 DEF LossErase
  <2>3. CASE UNCHANGED <<subscribers, hand, pc>>
    <3>1. pc' = [pc EXCEPT ![t] = "loss"]
      BY <1>1, <2>2, <2>3
    <3> QED  BY <1>1, <2>2, <2>3, <3>1, Bystander
  <2>4. CASE /\ s \in subscribers
             /\ subscribers' = subscribers \ {s}
             /\ hand' = [hand EXCEPT ![t] = s]
             /\ Goto(t, "lossRelease")
    <3>1. /\ subscribers' \subseteq subscribers /\ hand'[t] \notin subscribers'
          /\ \A u \in Threads \ {t} : pc'[u] = pc[u] /\ hand'[u] = hand[u]
          /\ pc'[t] = "lossRelease" /\ hand'[t] \in subscribers
      BY <1>1, <2>4 DEF Goto, TypeOK
    <3> QED  BY <1>1, <2>2, <2>4, <3>1, EraseOwnership
  <2> QED  BY <2>1, <2>3, <2>4
<1>5. CASE LossRelease(t)
  BY <1>1, <1>5, ReleaseOwnership DEF LossRelease, Goto
<1>6. CASE LossSend(t)
  BY <1>1, <1>6, Bystander, SubAssumption DEF LossSend, Goto
<1>7. CASE LossDone(t)
  BY <1>1, <1>7, Bystander, SubAssumption DEF LossDone, Return, Goto, tables
<1> QED
  BY <1>2, <1>3, <1>4, <1>5, <1>6, <1>7 DEF LossStep

LEMMA DeliverOwnership ==
  ASSUME TypeOK, Ownership, NEW t \in Deliverers, DeliverReads(t) \/ DeliverStep(t)
  PROVE  Ownership'
<1>1. /\ t \in Threads /\ t # svc
      /\ pc \in [Threads -> Labels] /\ hand = [hand EXCEPT ![t] = hand[t]]
  BY ThreadsAssumption DEF TypeOK, Threads
<1>2. CASE DeliverSubscribers(t)
  <2>1. PICK l \in {"gen", "deliver"} : pc' = [pc EXCEPT ![t] = l]
    BY <1>2 DEF DeliverSubscribers, Goto
  <2>2. /\ UNCHANGED <<entries, subscribers, nextSid, queue>>
        /\ hand' = [hand EXCEPT ![t] = hand[t]]
    BY <1>1, <1>2 DEF DeliverSubscribers, tables
  <2> QED  BY <1>1, <2>1, <2>2, Bystander
<1>3. CASE DeliverGeneration(t)
  BY <1>1, <1>3, Bystander DEF DeliverGeneration, Goto, tables
<1>4. CASE DeliverLookup(t)
  <2>1. PICK s : \/ /\ s \in subscribers
                    /\ hand' = [hand EXCEPT ![t] = s]
                    /\ Goto(t, "sendEvent")
                 \/ UNCHANGED <<hand, pc>>
    BY <1>4 DEF DeliverLookup
  <2>2. UNCHANGED <<entries, subscribers, nextSid, queue>> /\ pc[t] = "deliver"
    BY <1>4 DEF DeliverLookup, tables
  <2>3. CASE UNCHANGED <<hand, pc>>
    <3>1. pc' = [pc EXCEPT ![t] = "deliver"]
      BY <1>1, <2>2, <2>3
    <3> QED  BY <1>1, <2>2, <2>3, <3>1, Bystander
  <2>4. CASE s \in subscribers /\ hand' = [hand EXCEPT ![t] = s] /\ Goto(t, "sendEvent")
    BY <1>1, <2>2, <2>4, Bystander DEF Goto
  <2> QED  BY <2>1, <2>3, <2>4
<1>5. CASE DeliverSend(t)
  BY <1>1, <1>5, Bystander, SubAssumption DEF DeliverSend, Goto
<1>6. CASE DeliverDone(t)
  BY <1>1, <1>6, Bystander, SubAssumption DEF DeliverDone, Return, Goto, tables
<1>7. CASE DeliverLast(t)
  BY <1>1, <1>7, Bystander DEF DeliverLast, Goto, tables
<1>8. CASE Unsubscribed(t)
  BY <1>1, <1>8, Bystander, SubAssumption DEF Unsubscribed, Return, Goto, tables
<1> QED
  BY <1>2, <1>3, <1>4, <1>5, <1>6, <1>7, <1>8 DEF DeliverReads, DeliverStep

LEMMA ShutdownOwnership ==
  ASSUME TypeOK, Ownership, Drain \/ ShutdownStep
  PROVE  Ownership'
<1>1. /\ UNCHANGED <<entries, nextSid, pc, hand>> /\ subscribers' \subseteq subscribers
      /\ queue' = queue \/ queue' = <<>>
  BY DEF Drain, ShutdownStep, HubClear, HubDrop, ClientsClose, PumpStop, PumpJoin, ServerStop,
         tables, locals
<1>2. KeysUnique' /\ ReleasingUnowned'
  BY <1>1 DEF Ownership, KeysUnique, ReleasingUnowned, SameId
<1>3. OwnersHold'
  BY <1>1 DEF Ownership, OwnersHold, SameId
<1>4. RegisteringPrivate' /\ SidsUsed'
  BY <1>1 DEF Ownership, RegisteringPrivate, SidsUsed
<1> QED  BY <1>2, <1>3, <1>4 DEF Ownership

LEMMA NextOwnership ==
  ASSUME TypeOK, Ownership, [Next]_vars
  PROVE  Ownership'
<1>1. CASE UNCHANGED vars
  BY <1>1 DEF vars, tables, locals, Ownership, KeysUnique, OwnersHold, ReleasingUnowned,
              RegisteringPrivate, SidsUsed, SameId
<1>2. CASE Next
  <2>1. CASE Rest
    BY <1>1, <2>1 DEF Rest
  <2>2. ASSUME NEW c \in Conns, NEW i \in Ids,
               Take(c, i) \/ \E e \in Events : Claim(c, i, e)
        PROVE  Ownership'
    BY <2>2, TakeOwnership, ClaimOwnership
  <2>3. ASSUME NEW c \in Conns, Detach(c)  PROVE Ownership'
    BY <2>3, Bystander, SubAssumption DEF Detach, Goto, Threads
  <2>4. ASSUME NEW p \in Pumps, TakeJob(p) \/ JobStep(p)  PROVE Ownership'
    BY <2>4, TakeJobOwnership, JobOwnership
  <2>5. ASSUME NEW t \in Pumps \cup Deliverers, LossBegin(t) \/ LossStep(t)
        PROVE  Ownership'
    BY <2>5, LossOwnership
  <2>6. ASSUME NEW t \in Deliverers, DeliverReads(t) \/ DeliverStep(t)
        PROVE  Ownership'
    BY <2>6, DeliverOwnership
  <2> QED
    BY <1>2, <2>1, <2>2, <2>3, <2>4, <2>5, <2>6, ServiceOwnership, ShutdownOwnership DEF Next
<1> QED  BY <1>1, <1>2

(* Re-subscribing never double-delivers: at no time do two subscribers     *)
(* answer to one id of one connection (claim, unsubscribe, abandon, loss   *)
(* and close interleaving freely).                                         *)
THEOREM NoDoubleDelivery == Spec => []OneOwnerPerId
<1>1. Init => TypeOK /\ Ownership
  <2>1. Init => Ownership
    BY SubAssumption
    DEF Init, Ownership, KeysUnique, OwnersHold, ReleasingUnowned, RegisteringPrivate, SidsUsed,
        Threads
  <2> QED  BY <2>1, InitType
<1>2. TypeOK /\ Ownership /\ [Next]_vars => (TypeOK /\ Ownership)'
  BY NextType, NextOwnership
<1>3. Ownership => OneOwnerPerId
  BY DEF Ownership, KeysUnique, OwnersHold, SameId, OneOwnerPerId
<1> QED  BY <1>1, <1>2, <1>3, PTL DEF Spec

----------------------------------------------------------------------------
(* Subscriptions implements SubscriptionContract.  The argument has two    *)
(* halves.  Endings is an invariant: a thread about to tell of an end      *)
(* holds a subscription that is in neither table, and nothing was ever     *)
(* sent about one that is still to be registered.  With Ownership it makes *)
(* every step of the threads a step of the contract: a send is a Tell, an  *)
(* erase a Drop, a release a Free, and a step on the queue, the hub or a   *)
(* thread's own locals is no step at all.                                  *)

(* What a send adds: at most one frame, about the subscription it names. *)
LEMMA SendFrames ==
  ASSUME TypeOK, NEW c, NEW kind \in FrameKinds, NEW s \in Subscription, NEW g \in Nat,
         Send(c, kind, s, g)
  PROVE  \A d \in Conns : \A k \in DOMAIN out'[d] :
           \/ k \in DOMAIN out[d] /\ out'[d][k] = out[d][k]
           \/ out'[d][k] = [kind |-> kind, sub |-> s, gen |-> g]
<1> DEFINE f == [kind |-> kind, sub |-> s, gen |-> g]
<1>1. out \in [Conns -> Seq(Frame)] /\ attached \subseteq Conns
  BY DEF TypeOK
<1>2. CASE c \notin attached
  BY <1>2 DEF Send
<1>3. CASE c \in attached
  <2>1. out' = [out EXCEPT ![c] = Append(out[c], f)]
    BY <1>3 DEF Send
  <2>2. out[c] \in Seq(Frame) /\ f \in Frame
    BY <1>1, <1>3 DEF Frame
  <2>3. \A k \in DOMAIN Append(out[c], f) :
          \/ k \in DOMAIN out[c] /\ Append(out[c], f)[k] = out[c][k]
          \/ Append(out[c], f)[k] = f
    BY <2>2
  <2> HIDE DEF f
  <2>4. \A d \in Conns : \A k \in DOMAIN out'[d] :
           \/ k \in DOMAIN out[d] /\ out'[d][k] = out[d][k]
           \/ out'[d][k] = f
    BY <1>1, <2>1, <2>3
  <2> QED  BY <2>4 DEF f
<1> QED  BY <1>2, <1>3

LEMMA InNotices ==
  /\ \A f : f \in Notices <=> \E c \in Conns : \E k \in DOMAIN out[c] :
              f = [kind |-> out[c][k].kind, sub |-> out[c][k].sub]
  /\ \A f : f \in Notices' <=> \E c \in Conns : \E k \in DOMAIN out'[c] :
              f = [kind |-> out'[c][k].kind, sub |-> out'[c][k].sub]
BY DEF Notices

(* A frame the server takes is one more notice; one it drops is none. *)
LEMMA SendNotices ==
  ASSUME TypeOK, NEW c, NEW kind \in FrameKinds, NEW s \in Subscription, NEW g \in Nat,
         Send(c, kind, s, g)
  PROVE  Notices' = IF c \in attached THEN Notices \cup {[kind |-> kind, sub |-> s]}
                    ELSE Notices
<1> DEFINE f == [kind |-> kind, sub |-> s, gen |-> g]
           n == [kind |-> kind, sub |-> s]
<1>1. out \in [Conns -> Seq(Frame)] /\ attached \subseteq Conns
  BY DEF TypeOK
<1>2. CASE c \notin attached
  BY <1>2 DEF Send, Notices
<1>3. CASE c \in attached
  <2>1. out' = [out EXCEPT ![c] = Append(out[c], f)]
    BY <1>3 DEF Send
  <2>2. out[c] \in Seq(Frame) /\ f \in Frame
    BY <1>1, <1>3 DEF Frame
  <2>3. /\ Len(out[c]) + 1 \in DOMAIN out'[c] /\ out'[c][Len(out[c]) + 1] = f
        /\ \A k \in DOMAIN out[c] : k \in DOMAIN out'[c] /\ out'[c][k] = out[c][k]
        /\ \A d \in Conns \ {c} : out'[d] = out[d]
    BY <1>1, <1>3, <2>1, <2>2
  <2>4. n \in Notices'
    <3> DEFINE last == Len(out[c]) + 1
    <3>1. n = [kind |-> out'[c][last].kind, sub |-> out'[c][last].sub]
      BY <2>3
    <3> QED  BY <1>1, <1>3, <2>3, <3>1, InNotices
  <2>5. ASSUME NEW m \in Notices  PROVE m \in Notices'
    <3>1. PICK d \in Conns : \E k \in DOMAIN out[d] :
                 m = [kind |-> out[d][k].kind, sub |-> out[d][k].sub]
      BY InNotices
    <3>2. PICK k \in DOMAIN out[d] : m = [kind |-> out[d][k].kind, sub |-> out[d][k].sub]
      BY <3>1
    <3>3. k \in DOMAIN out'[d] /\ out'[d][k] = out[d][k]
      BY <2>3
    <3> QED  BY <3>2, <3>3, InNotices
  <2>6. ASSUME NEW m \in Notices'  PROVE m \in Notices \cup {n}
    <3>1. PICK d \in Conns : \E k \in DOMAIN out'[d] :
                 m = [kind |-> out'[d][k].kind, sub |-> out'[d][k].sub]
      BY InNotices
    <3>2. PICK k \in DOMAIN out'[d] : m = [kind |-> out'[d][k].kind, sub |-> out'[d][k].sub]
      BY <3>1
    <3>3. CASE k \in DOMAIN out[d] /\ out'[d][k] = out[d][k]
      BY <3>2, <3>3, InNotices
    <3>4. CASE out'[d][k] = f
      BY <3>2, <3>4
    <3> QED  BY <3>3, <3>4, SendFrames
  <2> QED  BY <1>3, <2>4, <2>5, <2>6
<1> QED  BY <1>2, <1>3

----------------------------------------------------------------------------
(* Endings is an invariant *)

(* A step of one thread that begins nothing keeps Endings: the tables only *)
(* shrink, what it sends is about the subscription in its hand, and if it  *)
(* goes on to tell of an end, that subscription is in neither table.       *)
LEMMA Settle ==
  ASSUME TypeOK, Ownership, Endings, NEW t \in Threads,
         entries' \subseteq entries, subscribers' \subseteq subscribers, nextSid' = nextSid,
         \A u \in Threads \ {t} : pc'[u] = pc[u] /\ hand'[u] = hand[u],
         pc'[t] # "register",
         pc'[t] \in {"refuse", "sendLost", "unsubHub", "unsubAck"} =>
           hand'[t] \notin entries' \cup subscribers',
         pc'[t] = "unsubErase" => hand'[t] \notin entries',
         \A c \in Conns : \A k \in DOMAIN out'[c] :
           \/ k \in DOMAIN out[c] /\ out'[c][k] = out[c][k]
           \/ out'[c][k].sub = hand[t] /\ hand[t] \in Subscription
  PROVE  Endings'
<1>1. svc \in Threads
  BY DEF Threads
<1>2. EndingUnheld'
  BY DEF Endings, EndingUnheld
<1>3. EndingFree'
  BY DEF Endings, EndingFree
<1>4. NoticesOld'
  <2> SUFFICES ASSUME NEW c \in Conns, NEW k \in DOMAIN out'[c]
               PROVE  /\ out'[c][k].sub.sid < nextSid
                      /\ pc'[svc] = "register" => out'[c][k].sub # hand'[svc]
    BY DEF NoticesOld
  <2>1. CASE k \in DOMAIN out[c] /\ out'[c][k] = out[c][k]
    BY <1>1, <2>1 DEF Endings, NoticesOld
  <2>2. CASE out'[c][k].sub = hand[t] /\ hand[t] \in Subscription
    BY <1>1, <2>2 DEF Ownership, SidsUsed, RegisteringPrivate
  <2> QED  BY <2>1, <2>2
<1> QED  BY <1>2, <1>3, <1>4 DEF Endings

(* A step that only goes from one place in the code to another. *)
LEMMA Moved ==
  ASSUME TypeOK, Ownership, Endings, NEW t \in Threads, NEW label, NEW h,
         UNCHANGED <<entries, subscribers, nextSid, out>>,
         pc' = [pc EXCEPT ![t] = label], hand' = [hand EXCEPT ![t] = h],
         \/ label \notin {"register", "refuse", "sendLost", "unsubErase", "unsubHub", "unsubAck"}
         \/ label = "unsubAck" /\ pc[t] = "unsubHub" /\ h = hand[t]
  PROVE  Endings'
<1>1. /\ pc \in [Threads -> Labels]
      /\ hand \in [Threads -> Subscription \cup Conns \cup {NoSub}]
  BY DEF TypeOK
<1>2. /\ pc'[t] = label /\ hand'[t] = h
      /\ \A u \in Threads \ {t} : pc'[u] = pc[u] /\ hand'[u] = hand[u]
  BY <1>1
<1>3. label = "unsubAck" => h \notin entries' \cup subscribers'
  BY DEF Endings, EndingUnheld, EndingFree
<1> QED  BY <1>2, <1>3, Settle

(* A send by a thread that then has nothing more to tell. *)
LEMMA Spoken ==
  ASSUME TypeOK, Ownership, Endings, NEW t \in Threads, NEW label,
         NEW kind \in FrameKinds, NEW g \in Nat,
         UNCHANGED <<entries, subscribers, nextSid>>,
         pc' = [pc EXCEPT ![t] = label], hand' = [hand EXCEPT ![t] = NoSub],
         label \in {"idle", "loss", "deliver"},
         hand[t] \in Subscription, Send(hand[t].conn, kind, hand[t], g)
  PROVE  Endings'
<1>1. /\ pc \in [Threads -> Labels]
      /\ hand \in [Threads -> Subscription \cup Conns \cup {NoSub}]
  BY DEF TypeOK
<1>2. /\ pc'[t] = label
      /\ \A u \in Threads \ {t} : pc'[u] = pc[u] /\ hand'[u] = hand[u]
  BY <1>1
<1>3. \A c \in Conns : \A k \in DOMAIN out'[c] :
        \/ k \in DOMAIN out[c] /\ out'[c][k] = out[c][k]
        \/ out'[c][k].sub = hand[t] /\ hand[t] \in Subscription
  <2>1. \A c \in Conns : \A k \in DOMAIN out'[c] :
          \/ k \in DOMAIN out[c] /\ out'[c][k] = out[c][k]
          \/ out'[c][k] = [kind |-> kind, sub |-> hand[t], gen |-> g]
    BY SendFrames
  <2> QED  BY <2>1
<1> QED  BY <1>2, <1>3, Settle

(* Tables that shrink while one thread moves on. *)
LEMMA Shrunk ==
  ASSUME TypeOK, Ownership, Endings, NEW t \in Threads, NEW label, NEW h,
         entries' \subseteq entries, subscribers' \subseteq subscribers,
         UNCHANGED <<nextSid, out>>,
         pc' = [pc EXCEPT ![t] = label], hand' = [hand EXCEPT ![t] = h],
         label # "register",
         label \in {"refuse", "sendLost", "unsubHub", "unsubAck"} =>
           h \notin entries' \cup subscribers',
         label = "unsubErase" => h \notin entries'
  PROVE  Endings'
<1>1. /\ pc \in [Threads -> Labels]
      /\ hand \in [Threads -> Subscription \cup Conns \cup {NoSub}]
  BY DEF TypeOK
<1>2. /\ pc'[t] = label /\ hand'[t] = h
      /\ \A u \in Threads \ {t} : pc'[u] = pc[u] /\ hand'[u] = hand[u]
  BY <1>1
<1> QED  BY <1>2, Settle

LEMMA ClaimEndings ==
  ASSUME TypeOK, Ownership, Endings, NEW c \in Conns, NEW i \in Ids, NEW e \in Events,
         Claim(c, i, e)
  PROVE  Endings'
<1> DEFINE s == Fresh(c, i, e)
<1>1. /\ pc \in [Threads -> Labels] /\ svc \in Threads
      /\ hand \in [Threads -> Subscription \cup Conns \cup {NoSub}]
      /\ nextSid \in Nat /\ out \in [Conns -> Seq(Frame)]
      /\ s \in Subscription /\ s.sid = nextSid
  BY BoundsAssumption DEF TypeOK, Threads, Fresh, Subscription
<1>2. UNCHANGED subscribers /\ nextSid' = nextSid + 1 /\ pc[svc] = "idle"
  BY DEF Claim, Serving
<1>3. \A d \in Conns : \A k \in DOMAIN out[d] :
        out[d][k].sub.sid \in Nat /\ out[d][k].sub.sid < nextSid
  <2>1. \A d \in Conns : \A k \in DOMAIN out[d] : out[d][k] \in Frame
    BY <1>1
  <2> QED  BY <2>1 DEF Frame, Subscription, Endings, NoticesOld
<1>4. CASE UNCHANGED <<entries, pc, hand>> /\ (Reply("active", s) \/ Reply("overloaded", s))
  <2>1. EndingUnheld' /\ EndingFree'
    BY <1>2, <1>4 DEF Endings, EndingUnheld, EndingFree
  <2>2. PICK kind \in FrameKinds : Send(s.conn, kind, s, 0)
    BY <1>4 DEF Reply, FrameKinds
  <2>3. \A d \in Conns : \A k \in DOMAIN out'[d] :
          \/ k \in DOMAIN out[d] /\ out'[d][k] = out[d][k]
          \/ out'[d][k] = [kind |-> kind, sub |-> s, gen |-> 0]
    <3>1. s \in Subscription /\ 0 \in Nat
      BY <1>1
    <3> HIDE DEF s
    <3> QED  BY <2>2, <3>1, SendFrames
  <2>4. \A d \in Conns : \A k \in DOMAIN out'[d] : out'[d][k].sub.sid < nextSid'
    <3> SUFFICES ASSUME NEW d \in Conns, NEW k \in DOMAIN out'[d]
                 PROVE  out'[d][k].sub.sid < nextSid'
      OBVIOUS
    <3>1. CASE k \in DOMAIN out[d] /\ out'[d][k] = out[d][k]
      BY <1>1, <1>2, <1>3, <3>1
    <3>2. CASE out'[d][k] = [kind |-> kind, sub |-> s, gen |-> 0]
      <4>1. out'[d][k].sub = s
        BY <3>2
      <4> QED  BY <1>1, <1>2, <4>1
    <3> QED  BY <2>3, <3>1, <3>2
  <2>5. NoticesOld'
    BY <1>2, <1>4, <2>4 DEF NoticesOld
  <2> QED  BY <2>1, <2>5 DEF Endings
<1>5. CASE /\ entries' = entries \cup {s} /\ out' = out
           /\ Goto(svc, "register") /\ hand' = [hand EXCEPT ![svc] = s]
  <2>1. /\ pc'[svc] = "register" /\ hand'[svc] = s
        /\ \A u \in Threads \ {svc} : pc'[u] = pc[u] /\ hand'[u] = hand[u]
    BY <1>1, <1>5 DEF Goto
  <2>2. \A t \in Threads : hand[t] # s
    BY <1>1 DEF Ownership, SidsUsed
  <2>3. EndingUnheld' /\ EndingFree'
    BY <1>1, <1>2, <1>5, <2>1, <2>2 DEF Endings, EndingUnheld, EndingFree
  <2>4. NoticesOld'
    BY <1>1, <1>2, <1>3, <1>5, <2>1 DEF NoticesOld
  <2> QED  BY <2>3, <2>4 DEF Endings
<1> QED  BY <1>4, <1>5 DEF Claim

LEMMA RegisterEndings ==
  ASSUME TypeOK, Ownership, Endings, Register
  PROVE  Endings'
<1>1. /\ pc \in [Threads -> Labels] /\ svc \in Threads /\ pc[svc] = "register"
      /\ UNCHANGED <<entries, hand, nextSid, out>>
      /\ subscribers' = subscribers \cup {hand[svc]}
      /\ pc' = [pc EXCEPT ![svc] = "submit"]
  BY DEF TypeOK, Threads, Register, Goto
<1>2. \A t \in Threads \ {svc} : hand[t] # hand[svc]
  BY <1>1 DEF Ownership, RegisteringPrivate
<1>3. EndingUnheld' /\ EndingFree'
  BY <1>1, <1>2 DEF Endings, EndingUnheld, EndingFree
<1>4. NoticesOld'
  BY <1>1 DEF Endings, NoticesOld
<1> QED  BY <1>3, <1>4 DEF Endings

LEMMA AbandonEndings ==
  ASSUME TypeOK, Ownership, Endings, NEW t \in Threads, Abandon(t)
  PROVE  Endings'
<1>1. hand = [hand EXCEPT ![t] = hand[t]]
  BY DEF TypeOK
<1>2. CASE AbandonErase(t)
  BY <1>1, <1>2, Shrunk DEF AbandonErase, Goto
<1>3. CASE AbandonRelease(t)
  <2>1. hand[t] \notin entries' \cup subscribers'
    BY <1>3 DEF AbandonRelease, Release, Ownership, ReleasingUnowned
  <2> QED  BY <1>1, <1>3, <2>1, Shrunk DEF AbandonRelease, Release, Goto
<1>4. CASE Refuse(t)
  <2>1. hand[t] \in Subscription
    BY <1>4 DEF TypeOK, Refuse, Working
  <2> QED  BY <1>4, <2>1, Spoken DEF Refuse, Reply, Return, Goto, FrameKinds
<1> QED  BY <1>2, <1>3, <1>4 DEF Abandon

LEMMA ServiceEndings ==
  ASSUME TypeOK, Ownership, Endings, ServiceStep
  PROVE  Endings'
<1>1. svc \in Threads /\ hand = [hand EXCEPT ![svc] = hand[svc]]
  BY DEF TypeOK, Threads
<1>2. CASE Submit
  BY <1>1, <1>2, Moved DEF Submit, Return, Goto
<1>3. CASE UnsubErase
  <2>1. hand[svc] \notin entries' \cup subscribers'
    BY <1>1, <1>3 DEF UnsubErase, Endings, EndingFree
  <2> QED  BY <1>1, <1>3, <2>1, Shrunk DEF UnsubErase, Goto
<1>4. CASE UnsubHub
  BY <1>1, <1>4, Moved DEF UnsubHub, Goto, tables
<1>5. CASE UnsubAck
  <2>1. hand[svc] \in Subscription
    BY <1>1, <1>5 DEF TypeOK, UnsubAck, Working
  <2> QED  BY <1>1, <1>5, <2>1, Spoken DEF UnsubAck, Reply, Return, Goto, FrameKinds
<1>6. CASE CloseErase
  BY <1>1, <1>6, Shrunk DEF CloseErase, Goto
<1>7. CASE CloseHub
  <2>1. CASE UNCHANGED <<pc, hand>>
    <3>1. pc = [pc EXCEPT ![svc] = "closeHub"]
      BY <1>1, <1>7 DEF CloseHub, TypeOK
    <3> QED  BY <1>1, <1>7, <2>1, <3>1, Moved DEF CloseHub, tables
  <2>2. CASE Return(svc)
    BY <1>1, <1>7, <2>2, Moved DEF CloseHub, Return, Goto, tables
  <2> QED  BY <1>7, <2>1, <2>2 DEF CloseHub
<1>8. CASE Abandon(svc)
  BY <1>1, <1>8, AbandonEndings
<1>9. CASE BodyDone
  BY <1>9 DEF BodyDone, tables, locals, Endings, EndingUnheld, EndingFree, NoticesOld
<1> QED
  BY <1>2, <1>3, <1>4, <1>5, <1>6, <1>7, <1>8, <1>9, RegisterEndings DEF ServiceStep

LEMMA TakeEndings ==
  ASSUME TypeOK, Ownership, Endings, NEW c \in Conns, NEW i \in Ids, Take(c, i)
  PROVE  Endings'
<1>1. PICK s \in entries : entries' = entries \ {s} /\ hand' = [hand EXCEPT ![svc] = s]
  BY DEF Take, Holding
<1>2. svc \in Threads /\ pc' = [pc EXCEPT ![svc] = "unsubErase"]
  BY DEF Take, Goto, Threads
<1>3. UNCHANGED <<subscribers, nextSid, out>> /\ s \notin entries'
  BY <1>1 DEF Take
<1> QED  BY <1>1, <1>2, <1>3, Shrunk

LEMMA JobEndings ==
  ASSUME TypeOK, Ownership, Endings, NEW p \in Pumps, TakeJob(p) \/ JobStep(p)
  PROVE  Endings'
<1>1. p \in Threads /\ hand = [hand EXCEPT ![p] = hand[p]]
  BY DEF TypeOK, Threads
<1>2. CASE TakeJob(p)
  BY <1>1, <1>2, Moved DEF TakeJob, Goto
<1>3. CASE HubAdd(p)
  <2>1. /\ UNCHANGED <<entries, subscribers, nextSid, out, hand>>
        /\ \E label \in {"abandonErase", "ack", "bind"} : pc' = [pc EXCEPT ![p] = label]
    BY <1>3 DEF HubAdd, Goto, tables
  <2> QED  BY <1>1, <2>1, Moved
<1>4. CASE BindSubscribe(p)
  BY <1>1, <1>4, Moved DEF BindSubscribe, Goto, tables
<1>5. CASE BindStore(p)
  BY <1>1, <1>5, Moved DEF BindStore, Goto, tables
<1>6. CASE Unbind(p)
  BY <1>1, <1>6, Moved DEF Unbind, Goto, tables
<1>7. CASE Ack(p)
  <2>1. hand[p] \in Subscription
    BY <1>1, <1>7 DEF TypeOK, Ack, Working
  <2> QED  BY <1>1, <1>7, <2>1, Spoken DEF Ack, Reply, Return, Goto, FrameKinds
<1>8. CASE Abandon(p)
  BY <1>1, <1>8, AbandonEndings
<1> QED
  BY <1>2, <1>3, <1>4, <1>5, <1>6, <1>7, <1>8 DEF JobStep

LEMMA LossEndings ==
  ASSUME TypeOK, Ownership, Endings, NEW t \in Pumps \cup Deliverers, LossBegin(t) \/ LossStep(t)
  PROVE  Endings'
<1>1. /\ t \in Threads /\ pc \in [Threads -> Labels]
      /\ hand = [hand EXCEPT ![t] = hand[t]]
  BY DEF TypeOK, Threads
<1>2. CASE LossBegin(t)
  BY <1>1, <1>2, Moved DEF LossBegin, Goto, tables
<1>3. CASE LossTake(t)
  <2>1. pc' = [pc EXCEPT ![t] = "loss"]
    BY <1>1, <1>3 DEF LossTake
  <2> QED  BY <1>1, <1>3, <2>1, Moved DEF LossTake, tables
<1>4. CASE LossErase(t)
  <2>1. CASE UNCHANGED <<subscribers, hand, pc>>
    <3>1. pc' = [pc EXCEPT ![t] = "loss"]
      BY <1>1, <1>4, <2>1 DEF LossErase
    <3> QED  BY <1>1, <1>4, <2>1, <3>1, Moved DEF LossErase
  <2>2. ASSUME NEW s, subscribers' = subscribers \ {s}, hand' = [hand EXCEPT ![t] = s],
               Goto(t, "lossRelease")
        PROVE  Endings'
    BY <1>1, <1>4, <2>2, Shrunk DEF LossErase, Goto
  <2> QED  BY <1>4, <2>1, <2>2 DEF LossErase
<1>5. CASE LossRelease(t)
  <2>1. hand[t] \notin entries' \cup subscribers'
    BY <1>1, <1>5 DEF LossRelease, Release, Ownership, ReleasingUnowned
  <2> QED  BY <1>1, <1>5, <2>1, Shrunk DEF LossRelease, Release, Goto
<1>6. CASE LossSend(t)
  <2>1. hand[t] \in Subscription
    BY <1>1, <1>6 DEF TypeOK, LossSend, Working
  <2> QED  BY <1>1, <1>6, <2>1, Spoken DEF LossSend, Reply, Goto, FrameKinds
<1>7. CASE LossDone(t)
  BY <1>1, <1>7, Moved DEF LossDone, Return, Goto, tables
<1> QED
  BY <1>2, <1>3, <1>4, <1>5, <1>6, <1>7 DEF LossStep

LEMMA DeliverEndings ==
  ASSUME TypeOK, Ownership, Endings, NEW t \in Deliverers, DeliverReads(t) \/ DeliverStep(t)
  PROVE  Endings'
<1>1. /\ t \in Threads /\ pc \in [Threads -> Labels]
      /\ hand = [hand EXCEPT ![t] = hand[t]]
  BY DEF TypeOK, Threads
<1>2. CASE DeliverSubscribers(t)
  BY <1>1, <1>2, Moved DEF DeliverSubscribers, Goto, tables
<1>3. CASE DeliverGeneration(t)
  BY <1>1, <1>3, Moved DEF DeliverGeneration, Goto, tables
<1>4. CASE DeliverLookup(t)
  <2>1. UNCHANGED <<entries, subscribers, nextSid, out>> /\ pc[t] = "deliver"
    BY <1>4 DEF DeliverLookup, tables
  <2>2. CASE UNCHANGED <<hand, pc>>
    <3>1. pc' = [pc EXCEPT ![t] = "deliver"]
      BY <1>1, <2>1, <2>2
    <3> QED  BY <1>1, <2>1, <2>2, <3>1, Moved
  <2>3. ASSUME NEW s, hand' = [hand EXCEPT ![t] = s], Goto(t, "sendEvent")  PROVE Endings'
    BY <1>1, <2>1, <2>3, Moved DEF Goto
  <2> QED  BY <1>4, <2>2, <2>3 DEF DeliverLookup
<1>5. CASE DeliverSend(t)
  <2>1. hand[t] \in Subscription /\ gen[t] \in Nat
    BY <1>1, <1>5 DEF TypeOK, DeliverSend, Working
  <2> QED  BY <1>1, <1>5, <2>1, Spoken DEF DeliverSend, Goto, FrameKinds
<1>6. CASE DeliverDone(t)
  BY <1>1, <1>6, Moved DEF DeliverDone, Return, Goto, tables
<1>7. CASE DeliverLast(t)
  <2>1. hand' = [hand EXCEPT ![t] = hand[t]]
    BY <1>1, <1>7 DEF DeliverLast
  <2> QED  BY <1>1, <1>7, <2>1, Moved DEF DeliverLast, Goto, tables
<1>8. CASE Unsubscribed(t)
  BY <1>1, <1>8, Moved DEF Unsubscribed, Return, Goto, tables
<1> QED
  BY <1>2, <1>3, <1>4, <1>5, <1>6, <1>7, <1>8 DEF DeliverReads, DeliverStep

LEMMA ShutdownEndings ==
  ASSUME TypeOK, Ownership, Endings, Drain \/ ShutdownStep
  PROVE  Endings'
<1>1. UNCHANGED <<entries, nextSid, out, pc, hand>> /\ subscribers' \subseteq subscribers
  BY DEF Drain, ShutdownStep, HubClear, HubDrop, ClientsClose, PumpStop, PumpJoin, ServerStop,
         tables, locals
<1> QED  BY <1>1 DEF Endings, EndingUnheld, EndingFree, NoticesOld

LEMMA NextEndings ==
  ASSUME TypeOK, Ownership, Endings, [Next]_vars
  PROVE  Endings'
<1>1. CASE UNCHANGED vars
  BY <1>1 DEF vars, tables, locals, Endings, EndingUnheld, EndingFree, NoticesOld
<1>2. CASE Next
  <2>1. CASE Rest
    BY <1>1, <2>1 DEF Rest
  <2>2. ASSUME NEW c \in Conns, NEW i \in Ids,
               Take(c, i) \/ \E e \in Events : Claim(c, i, e)
        PROVE  Endings'
    BY <2>2, TakeEndings, ClaimEndings
  <2>3. ASSUME NEW c \in Conns, Detach(c)  PROVE Endings'
    BY <2>3, Moved DEF Detach, Goto, Threads
  <2>4. ASSUME NEW p \in Pumps, TakeJob(p) \/ JobStep(p)  PROVE Endings'
    BY <2>4, JobEndings
  <2>5. ASSUME NEW t \in Pumps \cup Deliverers, LossBegin(t) \/ LossStep(t)
        PROVE  Endings'
    BY <2>5, LossEndings
  <2>6. ASSUME NEW t \in Deliverers, DeliverReads(t) \/ DeliverStep(t)
        PROVE  Endings'
    BY <2>6, DeliverEndings
  <2> QED
    BY <1>2, <2>1, <2>2, <2>3, <2>4, <2>5, <2>6, ServiceEndings, ShutdownEndings DEF Next
<1> QED  BY <1>1, <1>2

----------------------------------------------------------------------------
(* Every step is a step of the contract *)

Inv == TypeOK /\ Ownership /\ Endings

ContractStep == [Contract!Next]_(Contract!vars)

(* A subscription some thread has in hand is one of the contract's. *)
LEMMA HandIsContracted ==
  ASSUME Inv, NEW t \in Threads, hand[t] \in Subscription
  PROVE  hand[t] \in [sid : 0..MaxSids, conn : Conns, id : Ids, event : Events]
<1>1. hand[t].sid \in Nat /\ hand[t].sid < nextSid /\ nextSid \in 1..(MaxSids + 1)
  BY DEF Inv, TypeOK, Ownership, SidsUsed, Subscription
<1>2. hand[t].sid \in 0..MaxSids
  BY <1>1, BoundsAssumption
<1> QED  BY <1>2 DEF Subscription

(* A step on the queue, the hub or a thread's locals is none the client    *)
(* could tell.                                                             *)
LEMMA Unseen ==
  ASSUME UNCHANGED <<attached, entries, subscribers, out>>
  PROVE  ContractStep
BY DEF ContractStep, Contract!vars, Notices

LEMMA Dropped ==
  ASSUME UNCHANGED <<attached, entries, out>>, subscribers' \subseteq subscribers
  PROVE  ContractStep
<1>1. Notices' = Notices
  BY DEF Notices
<1>2. subscribers' = subscribers \ (subscribers \ subscribers')
  OBVIOUS
<1>3. Contract!Drop(subscribers \ subscribers')
  BY <1>1, <1>2 DEF Contract!Drop
<1>4. \E gone \in SUBSET subscribers : Contract!Drop(gone)
  BY <1>3
<1> QED  BY <1>4 DEF ContractStep, Contract!Next

LEMMA Freed ==
  ASSUME NEW s \in [sid : 0..MaxSids, conn : Conns, id : Ids, event : Events],
         UNCHANGED <<attached, subscribers, out>>, entries' = entries \ {s}
  PROVE  ContractStep
<1>1. Contract!Free(s)
  BY DEF Contract!Free, Notices
<1> QED  BY <1>1 DEF ContractStep, Contract!Next

LEMMA Told ==
  ASSUME TypeOK, NEW s \in [sid : 0..MaxSids, conn : Conns, id : Ids, event : Events],
         NEW kind \in FrameKinds, NEW g \in Nat,
         UNCHANGED <<attached, entries, subscribers>>, Send(s.conn, kind, s, g),
         kind \in {"terminated", "unsubscribed", "refused"} => s \notin entries \cup subscribers
  PROVE  ContractStep
<1>1. s \in Subscription
  BY BoundsAssumption DEF Subscription
<1>2. CASE s.conn \notin attached
  <2>1. out' = out
    BY <1>2 DEF Send
  <2> QED  BY <2>1, Unseen
<1>3. CASE s.conn \in attached
  <2>1. Notices' = Notices \cup {[kind |-> kind, sub |-> s]}
    BY <1>1, <1>3, SendNotices
  <2>2. Contract!Tell(s, kind)
    BY <1>3, <2>1 DEF Contract!Tell
  <2>3. PICK f \in Notices' : f.sub = s /\ f.kind = kind
    <3> DEFINE notice == [kind |-> kind, sub |-> s]
    <3>1. notice \in Notices'
      BY <2>1
    <3>2. notice.sub = s /\ notice.kind = kind
      OBVIOUS
    <3> HIDE DEF notice
    <3> QED  BY <3>1, <3>2
  <2>4. Contract!Tell(f.sub, f.kind)
    BY <2>2, <2>3
  <2>5. f.sub \in [sid : 0..MaxSids, conn : Conns, id : Ids, event : Events] /\ f.kind \in FrameKinds
    BY <2>3
  <2>6. Contract!Next
    BY <2>3, <2>4, <2>5, Zenon DEF Contract!Next
  <2> QED  BY <2>6 DEF ContractStep
<1> QED  BY <1>2, <1>3

LEMMA ClaimStep ==
  ASSUME Inv, NEW c \in Conns, NEW i \in Ids, NEW e \in Events, Claim(c, i, e)
  PROVE  ContractStep
<1> DEFINE s == Fresh(c, i, e)
<1>1. /\ nextSid \in 0..MaxSids
      /\ out \in [Conns -> Seq(Frame)]
      /\ s \in [sid : 0..MaxSids, conn : Conns, id : Ids, event : Events]
      /\ s.sid = nextSid /\ s.conn = c /\ s.id = i
      /\ UNCHANGED <<attached, subscribers>>
  BY BoundsAssumption DEF Inv, TypeOK, Claim, Fresh
<1>2. CASE UNCHANGED entries /\ (Reply("active", s) \/ Reply("overloaded", s))
  <2> HIDE DEF s
  <2> QED  BY <1>1, <1>2, Told DEF Inv, Reply, FrameKinds
<1>3. CASE Holding(c, i) = {} /\ entries' = entries \cup {s} /\ out' = out
  <2>1. ~Contract!Known(s)
    <3>1. \A d \in Conns : \A k \in DOMAIN out[d] : out[d][k].sub # s
      BY <1>1 DEF Inv, Endings, NoticesOld
    <3>2. ASSUME NEW f \in Notices  PROVE f.sub # s
      <4>1. PICK d \in Conns : \E k \in DOMAIN out[d] :
                   f = [kind |-> out[d][k].kind, sub |-> out[d][k].sub]
        BY InNotices
      <4> QED  BY <3>1, <4>1
    <3> QED  BY <3>2 DEF Contract!Known
  <2>2. \A x \in entries : ~Contract!Rivals(x, s)
    BY <1>1, <1>3 DEF Holding, Contract!Rivals
  <2>3. Contract!Claim(s)
    BY <1>1, <1>3, <2>1, <2>2 DEF Contract!Claim, Notices
  <2> QED  BY <1>1, <2>3 DEF ContractStep, Contract!Next
<1> QED  BY <1>2, <1>3 DEF Claim

LEMMA RegisterStep ==
  ASSUME Inv, Register
  PROVE  ContractStep
<1> DEFINE s == hand[svc]
<1>1. /\ svc \in Threads /\ s \in Subscription /\ pc[svc] = "register"
      /\ UNCHANGED <<attached, entries, out>> /\ subscribers' = subscribers \cup {s}
  BY DEF Inv, TypeOK, Threads, Register, Working
<1>2. s \in [sid : 0..MaxSids, conn : Conns, id : Ids, event : Events]
  BY <1>1, HandIsContracted
<1>3. s \in entries /\ \A x \in subscribers : ~Contract!Rivals(x, s)
  BY <1>1 DEF Inv, Ownership, RegisteringPrivate, OwnersHold, KeysUnique, SameId,
              Contract!Rivals
<1>4. ~Contract!Known(s)
  <2>1. \A d \in Conns : \A k \in DOMAIN out[d] : out[d][k].sub # s
    BY <1>1 DEF Inv, Endings, NoticesOld
  <2>2. ASSUME NEW f \in Notices  PROVE f.sub # s
    <3>1. PICK d \in Conns : \E k \in DOMAIN out[d] :
                 f = [kind |-> out[d][k].kind, sub |-> out[d][k].sub]
      BY InNotices
    <3> QED  BY <2>1, <3>1
  <2> QED  BY <2>2 DEF Contract!Known
<1>5. Contract!Hold(s)
  BY <1>1, <1>3, <1>4 DEF Contract!Hold, Notices
<1> QED  BY <1>2, <1>5 DEF ContractStep, Contract!Next

LEMMA AbandonStep ==
  ASSUME Inv, NEW t \in Threads, Abandon(t)
  PROVE  ContractStep
<1>1. /\ hand[t] \in Subscription
      /\ hand[t] \in [sid : 0..MaxSids, conn : Conns, id : Ids, event : Events]
  BY HandIsContracted
  DEF Inv, TypeOK, Abandon, AbandonErase, AbandonRelease, Refuse, Working
<1>2. CASE AbandonErase(t)
  BY <1>2, Dropped DEF AbandonErase
<1>3. CASE AbandonRelease(t)
  BY <1>1, <1>3, Freed DEF AbandonRelease, Release
<1>4. CASE Refuse(t)
  <2>1. hand[t] \notin entries \cup subscribers
    BY <1>4 DEF Inv, Endings, EndingUnheld, EndingFree, Refuse
  <2> QED  BY <1>1, <1>4, <2>1, Told DEF Inv, Refuse, Reply, FrameKinds
<1> QED  BY <1>2, <1>3, <1>4 DEF Abandon

LEMMA ServiceContract ==
  ASSUME Inv, ServiceStep
  PROVE  ContractStep
<1>1. CASE Submit
  BY <1>1, Unseen DEF Submit
<1>2. CASE UnsubErase
  BY <1>2, Dropped DEF UnsubErase
<1>3. CASE UnsubHub
  BY <1>3, Unseen DEF UnsubHub, tables
<1>4. CASE UnsubAck
  <2>1. svc \in Threads /\ hand[svc] \in Subscription
    BY <1>4 DEF Inv, TypeOK, Threads, UnsubAck, Working
  <2>2. hand[svc] \notin entries \cup subscribers
    BY <1>4, <2>1 DEF Inv, Endings, EndingUnheld, EndingFree, UnsubAck
  <2> QED  BY <1>4, <2>1, <2>2, HandIsContracted, Told DEF Inv, UnsubAck, Reply, FrameKinds
<1>5. CASE CloseErase
  BY <1>5, Dropped DEF CloseErase
<1>6. CASE CloseHub
  BY <1>6, Unseen DEF CloseHub, tables
<1>7. CASE Abandon(svc)
  BY <1>7, AbandonStep DEF Threads
<1>8. CASE BodyDone
  BY <1>8, Unseen DEF BodyDone, tables
<1> QED
  BY <1>1, <1>2, <1>3, <1>4, <1>5, <1>6, <1>7, <1>8, RegisterStep DEF ServiceStep

LEMMA TakeContract ==
  ASSUME Inv, NEW c \in Conns, NEW i \in Ids, Take(c, i)
  PROVE  ContractStep
<1>1. PICK s \in entries : entries' = entries \ {s}
  BY DEF Take, Holding
<1>2. s \in Subscription /\ s.sid < nextSid /\ nextSid \in 1..(MaxSids + 1)
  BY DEF Inv, TypeOK, Ownership, SidsUsed
<1>3. s.sid \in 0..MaxSids
  BY <1>2, BoundsAssumption DEF Subscription
<1>4. s \in [sid : 0..MaxSids, conn : Conns, id : Ids, event : Events]
  BY <1>2, <1>3 DEF Subscription
<1> QED  BY <1>1, <1>4, Freed DEF Take

LEMMA DetachContract ==
  ASSUME NEW c \in Conns, Detach(c)
  PROVE  ContractStep
<1>1. c \in attached /\ Contract!HangUp(c)
  BY DEF Detach, Contract!HangUp, Notices
<1> QED  BY <1>1 DEF ContractStep, Contract!Next

LEMMA JobContract ==
  ASSUME Inv, NEW p \in Pumps, TakeJob(p) \/ JobStep(p)
  PROVE  ContractStep
<1>1. CASE TakeJob(p)
  BY <1>1, Unseen DEF TakeJob
<1>2. CASE HubAdd(p) \/ BindSubscribe(p) \/ BindStore(p) \/ Unbind(p)
  BY <1>2, Unseen DEF HubAdd, BindSubscribe, BindStore, Unbind, tables
<1>3. CASE Ack(p)
  <2>1. p \in Threads /\ hand[p] \in Subscription
    BY <1>3 DEF Inv, TypeOK, Threads, Ack, Working
  <2> QED  BY <1>3, <2>1, HandIsContracted, Told DEF Inv, Ack, Reply, FrameKinds
<1>4. CASE Abandon(p)
  BY <1>4, AbandonStep DEF Threads
<1> QED  BY <1>1, <1>2, <1>3, <1>4 DEF JobStep

LEMMA LossContract ==
  ASSUME Inv, NEW t \in Pumps \cup Deliverers, LossBegin(t) \/ LossStep(t)
  PROVE  ContractStep
<1>1. t \in Threads
  BY DEF Threads
<1>2. CASE LossBegin(t) \/ LossTake(t) \/ LossDone(t)
  BY <1>2, Unseen DEF LossBegin, LossTake, LossDone, tables
<1>3. CASE LossErase(t)
  <2>1. UNCHANGED <<attached, entries, out>> /\ subscribers' \subseteq subscribers
    BY <1>3 DEF LossErase
  <2> QED  BY <2>1, Dropped
<1>4. CASE LossRelease(t)
  <2>1. hand[t] \in Subscription
    BY <1>1, <1>4 DEF Inv, TypeOK, LossRelease, Working
  <2> QED  BY <1>1, <1>4, <2>1, HandIsContracted, Freed DEF LossRelease, Release
<1>5. CASE LossSend(t)
  <2>1. hand[t] \in Subscription
    BY <1>1, <1>5 DEF Inv, TypeOK, LossSend, Working
  <2>2. hand[t] \notin entries \cup subscribers
    BY <1>1, <1>5 DEF Inv, Endings, EndingUnheld, EndingFree, LossSend
  <2> QED  BY <1>1, <1>5, <2>1, <2>2, HandIsContracted, Told DEF Inv, LossSend, Reply, FrameKinds
<1> QED  BY <1>2, <1>3, <1>4, <1>5 DEF LossStep

LEMMA DeliverContract ==
  ASSUME Inv, NEW t \in Deliverers, DeliverReads(t) \/ DeliverStep(t)
  PROVE  ContractStep
<1>1. CASE \/ DeliverReads(t) \/ DeliverLookup(t) \/ DeliverDone(t)
           \/ DeliverLast(t) \/ Unsubscribed(t)
  BY <1>1, Unseen
  DEF DeliverReads, DeliverSubscribers, DeliverGeneration, DeliverLookup, DeliverDone,
      DeliverLast, Unsubscribed, tables
<1>2. CASE DeliverSend(t)
  <2>1. t \in Threads /\ hand[t] \in Subscription /\ gen[t] \in Nat
    BY <1>2 DEF Inv, TypeOK, Threads, DeliverSend, Working
  <2> QED  BY <1>2, <2>1, HandIsContracted, Told DEF Inv, DeliverSend, FrameKinds
<1> QED  BY <1>1, <1>2 DEF DeliverStep

LEMMA ShutdownContract ==
  ASSUME Drain \/ ShutdownStep
  PROVE  ContractStep
<1>1. CASE Drain \/ HubClear \/ HubDrop \/ ClientsClose \/ PumpStop \/ PumpJoin
  BY <1>1, Unseen DEF Drain, HubClear, HubDrop, ClientsClose, PumpStop, PumpJoin, tables
<1>2. CASE ServerStop
  <2>1. Contract!Stop
    BY <1>2 DEF ServerStop, Contract!Stop, Notices
  <2> QED  BY <2>1 DEF ContractStep, Contract!Next
<1> QED  BY <1>1, <1>2 DEF ShutdownStep

LEMMA NextContract ==
  ASSUME Inv, [Next]_vars
  PROVE  ContractStep
<1>1. CASE UNCHANGED vars
  BY <1>1, Unseen DEF vars, tables
<1>2. CASE Next
  <2>1. CASE Rest
    BY <1>1, <2>1 DEF Rest
  <2>2. ASSUME NEW c \in Conns, NEW i \in Ids,
               Take(c, i) \/ \E e \in Events : Claim(c, i, e)
        PROVE  ContractStep
    BY <2>2, TakeContract, ClaimStep
  <2>3. CASE \E c \in Conns : Detach(c)
    BY <2>3, DetachContract
  <2>4. ASSUME NEW p \in Pumps, TakeJob(p) \/ JobStep(p)  PROVE ContractStep
    BY <2>4, JobContract
  <2>5. ASSUME NEW t \in Pumps \cup Deliverers, LossBegin(t) \/ LossStep(t)
        PROVE  ContractStep
    BY <2>5, LossContract
  <2>6. ASSUME NEW t \in Deliverers, DeliverReads(t) \/ DeliverStep(t)
        PROVE  ContractStep
    BY <2>6, DeliverContract
  <2> QED
    BY <1>2, <2>1, <2>2, <2>3, <2>4, <2>5, <2>6, ServiceContract, ShutdownContract DEF Next
<1> QED  BY <1>1, <1>2

LEMMA InitInv == Init => Inv
<1>1. Init => Ownership /\ Endings
  BY SubAssumption
  DEF Init, Ownership, KeysUnique, OwnersHold, ReleasingUnowned, RegisteringPrivate, SidsUsed,
      Endings, EndingUnheld, EndingFree, NoticesOld, Threads
<1> QED  BY <1>1, InitType DEF Inv

LEMMA NextInv ==
  ASSUME Inv, [Next]_vars
  PROVE  Inv'
BY NextType, NextOwnership, NextEndings DEF Inv

LEMMA InitContract == Init => Contract!Init
<1> SUFFICES ASSUME Init PROVE Contract!Init
  OBVIOUS
<1>1. \A c \in Conns : DOMAIN out[c] = {}
  BY DEF Init
<1>2. Notices = {}
  BY <1>1, InNotices
<1> QED  BY <1>2 DEF Init, Contract!Init

(* The threads, queues and locks of subscribe, unsubscribe, delivery, loss *)
(* and shutdown implement the contract: an id has one owner at a time, no  *)
(* subscription begins again once a client has heard of it, and an end is  *)
(* told only when the id is free and no more events go out.                *)
THEOREM ImplementsContract == Spec => KeepsContract
<1>1. Inv /\ [Next]_vars => Inv'
  BY NextInv
<1>2. Inv /\ [Next]_vars => [Contract!Next]_(Contract!vars)
  BY NextContract DEF ContractStep
<1> QED
  BY <1>1, <1>2, InitInv, InitContract, PTL DEF Spec, KeepsContract, Contract!Spec

----------------------------------------------------------------------------
(* What the contract alone gives *)

LEMMA EndedStaysGone ==
  ASSUME Contract!EndedIsGone, ContractStep
  PROVE  Contract!EndedIsGone'
<1> USE DEF Contract!EndedIsGone
<1>1. CASE UNCHANGED Contract!vars
  BY <1>1 DEF Contract!vars
<1>2. ASSUME NEW s, Contract!Claim(s)  PROVE Contract!EndedIsGone'
  BY <1>2 DEF Contract!Claim, Contract!Known
<1>3. ASSUME NEW s, Contract!Hold(s)  PROVE Contract!EndedIsGone'
  BY <1>3 DEF Contract!Hold, Contract!Known
<1>4. ASSUME NEW s, Contract!Free(s)  PROVE Contract!EndedIsGone'
  BY <1>4 DEF Contract!Free
<1>5. ASSUME NEW s, NEW kind, Contract!Tell(s, kind)  PROVE Contract!EndedIsGone'
  BY <1>5 DEF Contract!Tell
<1>6. ASSUME NEW gone, Contract!Drop(gone)  PROVE Contract!EndedIsGone'
  BY <1>6 DEF Contract!Drop
<1>7. ASSUME NEW c, Contract!HangUp(c)  PROVE Contract!EndedIsGone'
  BY <1>7 DEF Contract!HangUp
<1>8. CASE Contract!Stop
  BY <1>8 DEF Contract!Stop
<1> QED
  BY <1>1, <1>2, <1>3, <1>4, <1>5, <1>6, <1>7, <1>8 DEF ContractStep, Contract!Next

(* A client that re-subscribes on a termination notice never meets its own *)
(* old subscription: onSubscriptionLost has freed the id before the notice *)
(* goes out, and nothing takes it back.                                    *)
THEOREM NoticeMeansFree == Spec => []TerminatedFreesId
<1>1. Inv /\ [Next]_vars => Inv'
  BY NextInv
<1>2. Inv /\ Contract!EndedIsGone /\ [Next]_vars => Contract!EndedIsGone'
  BY NextContract, EndedStaysGone
<1>3. Init => Contract!EndedIsGone
  BY InitContract DEF Contract!Init, Contract!EndedIsGone
<1>4. Contract!EndedIsGone => TerminatedFreesId
  <2> SUFFICES ASSUME Contract!EndedIsGone, NEW c \in Conns, NEW k \in DOMAIN out[c],
                      out[c][k].kind = "terminated"
               PROVE  out[c][k].sub \notin entries \cup subscribers
    BY DEF TerminatedFreesId, Sent
  <2> DEFINE n == [kind |-> out[c][k].kind, sub |-> out[c][k].sub]
  <2>1. n \in Notices
    BY InNotices
  <2>2. n.kind = "terminated" /\ n.sub = out[c][k].sub
    OBVIOUS
  <2> HIDE DEF n
  <2> QED  BY <2>1, <2>2 DEF Contract!EndedIsGone
<1> QED  BY <1>1, <1>2, <1>3, <1>4, InitInv, PTL DEF Spec

----------------------------------------------------------------------------
(* The tables, the hub and shutdown *)

(* The service thread registers for a connection it still serves, and      *)
(* closes one that the server has already forgotten.                       *)
ServiceConn ==
  /\ pc[svc] = "register" => hand[svc].conn \in attached
  /\ pc[svc] = "closing" => hand[svc] \notin attached

Accounts == ServiceConn /\ ClosedOwnsNothing /\ NoIdLeaks

(* A thread erases subscribers or frees an id.  Whoever it erases without  *)
(* freeing the id, it keeps in hand to free it, unless the connection is   *)
(* gone; whoever it was to free has lost its id; and what it was to close  *)
(* has no subscriber left.                                                 *)
LEMMA Settled ==
  ASSUME TypeOK, Accounts, NEW t \in Threads,
         attached' = attached, entries' \subseteq entries, subscribers' \subseteq subscribers,
         \A u \in Threads \ {t} : pc'[u] = pc[u] /\ hand'[u] = hand[u],
         pc'[t] \notin {"register", "closing"},
         pc[t] = "closing" => \A s \in subscribers' : s.conn # hand[t],
         pc[t] \in {"register", "abandonRelease", "lossRelease"} => hand[t] \notin entries',
         \A s \in (entries' \cap subscribers) \ subscribers' :
           s.conn \notin attached \/ (hand'[t] = s /\ pc'[t] \in {"register", "abandonRelease", "lossRelease"})
  PROVE  Accounts'
<1>1. svc \in Threads
  BY DEF Threads
<1>2. ServiceConn'
  BY <1>1 DEF Accounts, ServiceConn
<1>3. ClosedOwnsNothing'
  <2> SUFFICES ASSUME NEW s \in subscribers'
               PROVE  s.conn \in attached' \/ (pc'[svc] = "closing" /\ hand'[svc] = s.conn)
    BY DEF ClosedOwnsNothing
  <2>1. s.conn \in attached \/ (pc[svc] = "closing" /\ hand[svc] = s.conn)
    BY DEF Accounts, ClosedOwnsNothing
  <2> QED  BY <1>1, <2>1
<1>4. NoIdLeaks'
  <2> SUFFICES ASSUME NEW s \in entries', s.conn \in attached', s \notin subscribers'
               PROVE  \E u \in Threads : hand'[u] = s /\ pc'[u] \in {"register", "abandonRelease", "lossRelease"}
    BY DEF NoIdLeaks
  <2>1. s \in subscribers \/ \E u \in Threads : hand[u] = s /\ pc[u] \in {"register", "abandonRelease", "lossRelease"}
    BY DEF Accounts, NoIdLeaks
  <2>2. CASE s \in subscribers
    BY <2>2
  <2>3. ASSUME NEW u \in Threads, hand[u] = s, pc[u] \in {"register", "abandonRelease", "lossRelease"}
        PROVE  \E v \in Threads : hand'[v] = s /\ pc'[v] \in {"register", "abandonRelease", "lossRelease"}
    BY <2>3
  <2> QED  BY <2>1, <2>2, <2>3
<1> QED  BY <1>2, <1>3, <1>4 DEF Accounts

(* A step that leaves both tables alone and is in none of the windows. *)
LEMMA Aside ==
  ASSUME TypeOK, Accounts, NEW t \in Threads,
         UNCHANGED <<attached, entries, subscribers>>,
         \A u \in Threads \ {t} : pc'[u] = pc[u] /\ hand'[u] = hand[u],
         pc'[t] \notin {"register", "closing"},
         pc[t] \notin {"register", "abandonRelease", "lossRelease", "closing"}
  PROVE  Accounts'
BY Settled

LEMMA RequestAccounts ==
  ASSUME TypeOK, Accounts, NEW c \in Conns, NEW i \in Ids,
         Take(c, i) \/ \E e \in Events : Claim(c, i, e)
  PROVE  Accounts'
<1>1. /\ pc \in [Threads -> Labels] /\ svc \in Threads
      /\ hand \in [Threads -> Subscription \cup Conns \cup {NoSub}]
  BY DEF TypeOK, Threads
<1>2. CASE Take(c, i)
  <2>1. PICK s : entries' = entries \ {s} /\ hand' = [hand EXCEPT ![svc] = s]
    BY <1>2 DEF Take
  <2>2. /\ UNCHANGED <<attached, subscribers>> /\ pc[svc] = "idle"
        /\ pc' = [pc EXCEPT ![svc] = "unsubErase"]
    BY <1>2 DEF Take, Goto, Serving
  <2> QED  BY <1>1, <2>1, <2>2, Settled
<1>3. ASSUME NEW e \in Events, Claim(c, i, e)  PROVE Accounts'
  <2> DEFINE s == Fresh(c, i, e)
  <2>1. UNCHANGED <<attached, subscribers>> /\ pc[svc] = "idle" /\ s.conn = c /\ c \in attached
    BY <1>3 DEF Claim, Serving, Fresh
  <2>2. CASE UNCHANGED <<entries, pc, hand>>
    BY <2>1, <2>2 DEF Accounts, ServiceConn, ClosedOwnsNothing, NoIdLeaks
  <2>3. CASE /\ entries' = entries \cup {s} /\ Goto(svc, "register")
             /\ hand' = [hand EXCEPT ![svc] = s]
    <3>1. /\ pc'[svc] = "register" /\ hand'[svc] = s
          /\ \A u \in Threads \ {svc} : pc'[u] = pc[u] /\ hand'[u] = hand[u]
      BY <1>1, <2>3 DEF Goto
    <3> HIDE DEF s
    <3>2. ServiceConn'
      BY <2>1, <3>1 DEF ServiceConn
    <3>3. ClosedOwnsNothing'
      BY <2>1 DEF Accounts, ClosedOwnsNothing
    <3>4. NoIdLeaks'
      BY <1>1, <2>1, <2>3, <3>1 DEF Accounts, NoIdLeaks
    <3> QED  BY <3>2, <3>3, <3>4 DEF Accounts
  <2> QED  BY <1>3, <2>2, <2>3 DEF Claim
<1> QED  BY <1>2, <1>3

LEMMA RegisterAccounts ==
  ASSUME TypeOK, Accounts, Register
  PROVE  Accounts'
<1>1. /\ pc \in [Threads -> Labels] /\ svc \in Threads /\ pc[svc] = "register"
      /\ UNCHANGED <<attached, entries, hand>>
      /\ subscribers' = subscribers \cup {hand[svc]}
      /\ pc' = [pc EXCEPT ![svc] = "submit"]
  BY DEF TypeOK, Threads, Register, Goto
<1>2. ServiceConn' /\ ClosedOwnsNothing'
  BY <1>1 DEF Accounts, ServiceConn, ClosedOwnsNothing
<1>3. NoIdLeaks'
  BY <1>1 DEF Accounts, NoIdLeaks
<1> QED  BY <1>2, <1>3 DEF Accounts

LEMMA DetachAccounts ==
  ASSUME TypeOK, Accounts, NEW c \in Conns, Detach(c)
  PROVE  Accounts'
<1>1. /\ pc \in [Threads -> Labels] /\ svc \in Threads /\ pc[svc] = "idle"
      /\ hand \in [Threads -> Subscription \cup Conns \cup {NoSub}]
      /\ UNCHANGED <<entries, subscribers>> /\ attached' = attached \ {c}
      /\ pc' = [pc EXCEPT ![svc] = "closing"] /\ hand' = [hand EXCEPT ![svc] = c]
  BY DEF TypeOK, Threads, Detach, Goto
<1>2. ServiceConn' /\ ClosedOwnsNothing'
  BY <1>1 DEF Accounts, ServiceConn, ClosedOwnsNothing
<1>3. NoIdLeaks'
  BY <1>1 DEF Accounts, NoIdLeaks
<1> QED  BY <1>2, <1>3 DEF Accounts

LEMMA AbandonAccounts ==
  ASSUME TypeOK, Accounts, NEW t \in Threads, Abandon(t)
  PROVE  Accounts'
<1>1. /\ pc \in [Threads -> Labels]
      /\ hand \in [Threads -> Subscription \cup Conns \cup {NoSub}]
  BY DEF TypeOK
<1>2. CASE AbandonErase(t)
  BY <1>1, <1>2, Settled DEF AbandonErase, Goto
<1>3. CASE AbandonRelease(t)
  BY <1>1, <1>3, Settled DEF AbandonRelease, Release, Goto
<1>4. CASE Refuse(t)
  BY <1>1, <1>4, Aside DEF Refuse, Return, Goto
<1> QED  BY <1>2, <1>3, <1>4 DEF Abandon

LEMMA ServiceAccounts ==
  ASSUME TypeOK, Endings, Accounts, ServiceStep
  PROVE  Accounts'
<1>1. /\ svc \in Threads /\ pc \in [Threads -> Labels]
      /\ hand \in [Threads -> Subscription \cup Conns \cup {NoSub}]
  BY DEF TypeOK, Threads
<1>2. CASE Submit
  BY <1>1, <1>2, Aside DEF Submit, Return, Goto
<1>3. CASE UnsubErase
  <2>1. hand[svc] \notin entries
    BY <1>1, <1>3 DEF UnsubErase, Endings, EndingFree
  <2> QED  BY <1>1, <1>3, <2>1, Settled DEF UnsubErase, Goto
<1>4. CASE UnsubHub
  BY <1>1, <1>4, Aside DEF UnsubHub, Goto, tables
<1>5. CASE UnsubAck
  BY <1>1, <1>5, Aside DEF UnsubAck, Return, Goto
<1>6. CASE CloseErase
  <2>1. /\ UNCHANGED <<attached, entries, hand>> /\ pc[svc] = "closing"
        /\ pc' = [pc EXCEPT ![svc] = "closeHub"]
        /\ subscribers' = subscribers \ {s \in subscribers : s.conn = hand[svc]}
    BY <1>6 DEF CloseErase, Goto
  <2>2. \A s \in subscribers \ subscribers' : s.conn \notin attached
    BY <2>1 DEF Accounts, ServiceConn
  <2> QED  BY <1>1, <2>1, <2>2, Settled
<1>7. CASE CloseHub
  <2>1. CASE UNCHANGED <<pc, hand>>
    <3>1. pc = [pc EXCEPT ![svc] = "closeHub"]
      BY <1>1, <1>7 DEF CloseHub
    <3> QED  BY <1>1, <1>7, <2>1, <3>1, Aside DEF CloseHub, tables
  <2>2. CASE Return(svc)
    BY <1>1, <1>7, <2>2, Aside DEF CloseHub, Return, Goto, tables
  <2> QED  BY <1>7, <2>1, <2>2 DEF CloseHub
<1>8. CASE Abandon(svc)
  BY <1>1, <1>8, AbandonAccounts
<1>9. CASE BodyDone
  BY <1>1, <1>9, Aside DEF BodyDone, tables, locals
<1> QED
  BY <1>2, <1>3, <1>4, <1>5, <1>6, <1>7, <1>8, <1>9, RegisterAccounts DEF ServiceStep

LEMMA JobAccounts ==
  ASSUME TypeOK, Accounts, NEW p \in Pumps, TakeJob(p) \/ JobStep(p)
  PROVE  Accounts'
<1>1. /\ p \in Threads /\ pc \in [Threads -> Labels]
      /\ hand \in [Threads -> Subscription \cup Conns \cup {NoSub}]
  BY DEF TypeOK, Threads
<1>2. CASE TakeJob(p)
  BY <1>1, <1>2, Aside DEF TakeJob, Goto
<1>3. CASE HubAdd(p)
  <2>1. /\ UNCHANGED <<attached, entries, subscribers, hand>> /\ pc[p] = "add"
        /\ \E label \in {"abandonErase", "ack", "bind"} : pc' = [pc EXCEPT ![p] = label]
    BY <1>3 DEF HubAdd, Goto, tables
  <2> QED  BY <1>1, <2>1, Aside
<1>4. CASE BindSubscribe(p)
  BY <1>1, <1>4, Aside DEF BindSubscribe, Goto, tables
<1>5. CASE BindStore(p)
  BY <1>1, <1>5, Aside DEF BindStore, Goto, tables
<1>6. CASE Unbind(p)
  BY <1>1, <1>6, Aside DEF Unbind, Goto, tables
<1>7. CASE Ack(p)
  BY <1>1, <1>7, Aside DEF Ack, Return, Goto
<1>8. CASE Abandon(p)
  BY <1>1, <1>8, AbandonAccounts
<1> QED
  BY <1>2, <1>3, <1>4, <1>5, <1>6, <1>7, <1>8 DEF JobStep

LEMMA LossAccounts ==
  ASSUME TypeOK, Accounts, NEW t \in Pumps \cup Deliverers, LossBegin(t) \/ LossStep(t)
  PROVE  Accounts'
<1>1. /\ t \in Threads /\ pc \in [Threads -> Labels]
      /\ hand \in [Threads -> Subscription \cup Conns \cup {NoSub}]
  BY DEF TypeOK, Threads
<1>2. CASE LossBegin(t)
  BY <1>1, <1>2, Aside DEF LossBegin, Goto, tables
<1>3. CASE LossTake(t)
  <2>1. pc' = [pc EXCEPT ![t] = "loss"] /\ pc[t] = "loss"
    BY <1>1, <1>3 DEF LossTake
  <2> QED  BY <1>1, <1>3, <2>1, Aside DEF LossTake, tables
<1>4. CASE LossErase(t)
  <2>1. UNCHANGED <<attached, entries>> /\ pc[t] = "loss"
    BY <1>4 DEF LossErase
  <2>2. CASE UNCHANGED <<subscribers, hand, pc>>
    <3>1. pc' = [pc EXCEPT ![t] = "loss"]
      BY <1>1, <2>1, <2>2
    <3> QED  BY <1>1, <2>1, <2>2, <3>1, Aside
  <2>3. ASSUME NEW s, subscribers' = subscribers \ {s}, hand' = [hand EXCEPT ![t] = s],
               pc' = [pc EXCEPT ![t] = "lossRelease"]
        PROVE  Accounts'
    <3>1. pc'[t] = "lossRelease" /\ hand'[t] = s
      BY <1>1, <2>3
    <3> QED  BY <1>1, <2>1, <2>3, <3>1, Settled
  <2> QED  BY <1>4, <2>2, <2>3 DEF LossErase, Goto
<1>5. CASE LossRelease(t)
  BY <1>1, <1>5, Settled DEF LossRelease, Release, Goto
<1>6. CASE LossSend(t)
  BY <1>1, <1>6, Aside DEF LossSend, Goto
<1>7. CASE LossDone(t)
  BY <1>1, <1>7, Aside DEF LossDone, Return, Goto, tables
<1> QED
  BY <1>2, <1>3, <1>4, <1>5, <1>6, <1>7 DEF LossStep

LEMMA DeliverAccounts ==
  ASSUME TypeOK, Accounts, NEW t \in Deliverers, DeliverReads(t) \/ DeliverStep(t)
  PROVE  Accounts'
<1>1. /\ t \in Threads /\ pc \in [Threads -> Labels]
      /\ hand \in [Threads -> Subscription \cup Conns \cup {NoSub}]
  BY DEF TypeOK, Threads
<1>2. CASE DeliverSubscribers(t)
  BY <1>1, <1>2, Aside DEF DeliverSubscribers, Goto, tables
<1>3. CASE DeliverGeneration(t)
  BY <1>1, <1>3, Aside DEF DeliverGeneration, Goto, tables
<1>4. CASE DeliverLookup(t)
  <2>1. UNCHANGED <<attached, entries, subscribers>> /\ pc[t] = "deliver"
    BY <1>4 DEF DeliverLookup, tables
  <2>2. CASE UNCHANGED <<hand, pc>>
    <3>1. pc' = [pc EXCEPT ![t] = "deliver"]
      BY <1>1, <2>1, <2>2
    <3> QED  BY <1>1, <2>1, <2>2, <3>1, Aside
  <2>3. ASSUME NEW s, hand' = [hand EXCEPT ![t] = s], Goto(t, "sendEvent")  PROVE Accounts'
    BY <1>1, <2>1, <2>3, Aside DEF Goto
  <2> QED  BY <1>4, <2>2, <2>3 DEF DeliverLookup
<1>5. CASE DeliverSend(t)
  BY <1>1, <1>5, Aside DEF DeliverSend, Goto
<1>6. CASE DeliverDone(t)
  BY <1>1, <1>6, Aside DEF DeliverDone, Return, Goto, tables
<1>7. CASE DeliverLast(t)
  BY <1>1, <1>7, Aside DEF DeliverLast, Goto, tables
<1>8. CASE Unsubscribed(t)
  BY <1>1, <1>8, Aside DEF Unsubscribed, Return, Goto, tables
<1> QED
  BY <1>2, <1>3, <1>4, <1>5, <1>6, <1>7, <1>8 DEF DeliverReads, DeliverStep

LEMMA ShutdownAccounts ==
  ASSUME Accounts, Drain \/ ShutdownStep
  PROVE  Accounts'
<1>1. CASE UNCHANGED <<attached, entries, subscribers, pc, hand>>
  BY <1>1 DEF Accounts, ServiceConn, ClosedOwnsNothing, NoIdLeaks
<1>2. CASE ServerStop
  <2>1. attached' = {} /\ subscribers' = {} /\ pc[svc] = "idle" /\ pc' = pc
    BY <1>2 DEF ServerStop, locals
  <2> QED  BY <2>1 DEF Accounts, ServiceConn, ClosedOwnsNothing, NoIdLeaks
<1> QED
  BY <1>1, <1>2
  DEF Drain, ShutdownStep, HubClear, HubDrop, ClientsClose, PumpStop, PumpJoin, tables, locals

LEMMA NextAccounts ==
  ASSUME Inv, Accounts, [Next]_vars
  PROVE  Accounts'
<1> USE DEF Inv
<1>1. CASE UNCHANGED vars
  BY <1>1 DEF vars, tables, locals, Accounts, ServiceConn, ClosedOwnsNothing, NoIdLeaks
<1>2. CASE Next
  <2>1. CASE Rest
    BY <1>1, <2>1 DEF Rest
  <2>2. ASSUME NEW c \in Conns, NEW i \in Ids,
               Take(c, i) \/ \E e \in Events : Claim(c, i, e)
        PROVE  Accounts'
    BY <2>2, RequestAccounts
  <2>3. CASE \E c \in Conns : Detach(c)
    BY <2>3, DetachAccounts
  <2>4. ASSUME NEW p \in Pumps, TakeJob(p) \/ JobStep(p)  PROVE Accounts'
    BY <2>4, JobAccounts
  <2>5. ASSUME NEW t \in Pumps \cup Deliverers, LossBegin(t) \/ LossStep(t)
        PROVE  Accounts'
    BY <2>5, LossAccounts
  <2>6. ASSUME NEW t \in Deliverers, DeliverReads(t) \/ DeliverStep(t)
        PROVE  Accounts'
    BY <2>6, DeliverAccounts
  <2> QED
    BY <1>2, <2>1, <2>2, <2>3, <2>4, <2>5, <2>6, ServiceAccounts, ShutdownAccounts DEF Next
<1> QED  BY <1>1, <1>2

LEMMA AlwaysAccounts == Spec => []Accounts
<1>1. Inv /\ [Next]_vars => Inv'
  BY NextInv
<1>2. Inv /\ Accounts /\ [Next]_vars => Accounts'
  BY NextAccounts
<1>3. Init => Accounts
  BY DEF Init, Accounts, ServiceConn, ClosedOwnsNothing, NoIdLeaks, Threads
<1> QED  BY <1>1, <1>2, <1>3, InitInv, PTL DEF Spec

(* onClosed leaves nothing behind: whatever subscribe, loss or delivery    *)
(* was under way, no subscriber belongs to a connection that is gone.      *)
THEOREM CloseIsComplete == Spec => []ClosedOwnsNothing
<1>1. Accounts => ClosedOwnsNothing
  BY DEF Accounts
<1> QED  BY <1>1, AlwaysAccounts, PTL

(* An id of a living connection is never taken for nothing: it has a       *)
(* subscriber, or a thread has it in hand to register or to free it.       *)
THEOREM IdsComeBack == Spec => []NoIdLeaks
<1>1. Accounts => NoIdLeaks
  BY DEF Accounts
<1> QED  BY <1>1, AlwaysAccounts, PTL

----------------------------------------------------------------------------
(* NeverResumed.  The bridge's number for a subscription names it for      *)
(* good, in every table, queue and hand; and an Up holds subscriptions of  *)
(* its own event only.                                                     *)

Known ==
  entries \cup subscribers \cup {queue[k] : k \in DOMAIN queue}
  \cup {s \in Subscription : \E t \in Threads : hand[t] = s}
  \cup {s \in Subscription : \E e \in Events : s \in ups[e].ids}

SidsName ==
  /\ \A s \in Known : s.sid \in 1..(nextSid - 1)
  /\ \A a, b \in Known : a.sid = b.sid => a = b

UpsApart == \A e \in Events : \A s \in ups[e].ids : s.event = e

Generations == SidsName /\ UpsApart /\ NeverResumed

LEMMA NoNewcomer ==
  ASSUME SidsName, Known' \subseteq Known, nextSid' = nextSid
  PROVE  SidsName'
BY DEF SidsName

(* Subscriptions only leave an Up, or it is emptied, whatever becomes of   *)
(* its generation then.                                                    *)
LEMMA Thinned ==
  ASSUME UpsApart, NeverResumed, joined' = joined,
         \A e \in Events : \/ ups'[e].ids \subseteq ups[e].ids /\ ups'[e].gen = ups[e].gen
                           \/ ups'[e].ids = {}
  PROVE  UpsApart' /\ NeverResumed'
BY DEF UpsApart, NeverResumed

(* A thread moves a subscription the bridge knows, and the Ups only thin. *)
LEMMA Passed ==
  ASSUME TypeOK, Generations, NEW t \in Threads,
         entries' \subseteq Known, subscribers' \subseteq Known, nextSid' = nextSid,
         \A k \in DOMAIN queue' : queue'[k] \in Known,
         \A u \in Threads \ {t} : hand'[u] = hand[u],
         hand'[t] \in Subscription => hand'[t] \in Known,
         joined' = joined,
         \A e \in Events : \/ ups'[e].ids \subseteq ups[e].ids /\ ups'[e].gen = ups[e].gen
                           \/ ups'[e].ids = {}
  PROVE  Generations'
<1>1. Known' \subseteq Known
  BY DEF Known
<1>2. SidsName'
  BY <1>1, NoNewcomer DEF Generations
<1> QED  BY <1>2, Thinned DEF Generations

LEMMA ClaimGenerations ==
  ASSUME TypeOK, Generations, NEW c \in Conns, NEW i \in Ids, NEW e \in Events, Claim(c, i, e)
  PROVE  Generations'
<1> DEFINE s == Fresh(c, i, e)
<1>1. /\ hand \in [Threads -> Subscription \cup Conns \cup {NoSub}] /\ svc \in Threads
      /\ nextSid \in Nat /\ nextSid >= 1 /\ nextSid' = nextSid + 1
      /\ UNCHANGED <<subscribers, queue, ups, joined>>
      /\ s.sid = nextSid
  BY BoundsAssumption DEF TypeOK, Threads, Claim, Fresh, hub
<1>2. /\ entries' \subseteq entries \cup {s}
      /\ \A t \in Threads : hand'[t] = hand[t] \/ hand'[t] = s
  BY <1>1 DEF Claim
<1> HIDE DEF s
<1>3. Known' \subseteq Known \cup {s}
  BY <1>1, <1>2 DEF Known
<1>4. SidsName'
  BY <1>1, <1>3 DEF Generations, SidsName
<1>5. UpsApart' /\ NeverResumed'
  BY <1>1, Thinned DEF Generations
<1> QED  BY <1>4, <1>5 DEF Generations

LEMMA HubAddGenerations ==
  ASSUME TypeOK, Generations, NEW p \in Pumps, HubAdd(p)
  PROVE  Generations'
<1> DEFINE s == hand[p]
<1>1. /\ p \in Threads /\ s \in Subscription /\ s.event \in Events /\ s \in Known
      /\ ups \in [Events -> Up] /\ joined \in [1..MaxSids -> Nat]
      /\ UNCHANGED <<entries, subscribers, queue, hand, nextSid>>
  BY DEF TypeOK, Threads, HubAdd, Working, Subscription, Known, tables
<1>2. CASE UNCHANGED hub
  BY <1>1, <1>2, Passed DEF hub, Known
<1>3. CASE /\ ups' = [ups EXCEPT ![s.event] = Joined(s.event, s)]
           /\ joined' = [joined EXCEPT ![s.sid] = Joined(s.event, s).gen]
  <2>1. /\ \A e \in Events \ {s.event} : ups'[e] = ups[e]
        /\ ups'[s.event] = Joined(s.event, s)
    BY <1>1, <1>3
  <2>2. \/ /\ Joined(s.event, s).ids = ups[s.event].ids \cup {s}
           /\ Joined(s.event, s).gen = ups[s.event].gen
        \/ Joined(s.event, s).ids = {s}
    <3>1. ups[s.event] \in Up
      BY <1>1
    <3> QED  BY <3>1 DEF Joined, Up
  <2>3. s.sid \in 1..MaxSids
    BY <1>1, BoundsAssumption DEF Generations, SidsName, TypeOK
  <2>4. /\ joined'[s.sid] = Joined(s.event, s).gen
        /\ \A n \in 1..MaxSids : n # s.sid => joined'[n] = joined[n]
    BY <1>1, <1>3, <2>3
  <2>5. Known' \subseteq Known
    BY <1>1, <2>1, <2>2 DEF Known
  <2>6. SidsName'
    BY <1>1, <2>5, NoNewcomer DEF Generations
  <2>7. UpsApart'
    BY <1>1, <2>1, <2>2 DEF Generations, UpsApart
  <2>8. ASSUME NEW e \in Events, NEW x \in ups'[e].ids
        PROVE  joined'[x.sid] = ups'[e].gen
    <3>1. CASE x = s
      BY <2>1, <2>4, <2>7, <2>8, <3>1 DEF UpsApart
    <3>2. CASE x # s
      <4>1. x \in ups[e].ids /\ ups'[e].gen = ups[e].gen
        BY <2>1, <2>2, <2>8, <3>2
      <4>2. x \in Known
        BY <1>1, <4>1 DEF Known, Up
      <4>3. x.sid \in 1..MaxSids /\ x.sid # s.sid
        BY <1>1, <3>2, <4>2, BoundsAssumption DEF Generations, SidsName, TypeOK
      <4> QED  BY <2>4, <4>1, <4>3 DEF Generations, NeverResumed
    <3> QED  BY <3>1, <3>2
  <2>9. NeverResumed'
    BY <2>8 DEF NeverResumed
  <2> QED  BY <2>6, <2>7, <2>9 DEF Generations
<1> QED  BY <1>2, <1>3 DEF HubAdd

LEMMA KnownParts ==
  /\ entries \subseteq Known /\ subscribers \subseteq Known
  /\ \A k \in DOMAIN queue : queue[k] \in Known
  /\ \A t \in Threads : hand[t] \in Subscription => hand[t] \in Known
BY DEF Known

(* A step that leaves the Ups alone, or only thins them, and puts nothing  *)
(* in the queue.                                                           *)
LEMMA Carried ==
  ASSUME TypeOK, Generations, NEW t \in Threads,
         entries' \subseteq entries, subscribers' \subseteq subscribers,
         UNCHANGED <<nextSid, queue, joined>>,
         \A u \in Threads \ {t} : hand'[u] = hand[u],
         \/ hand'[t] = hand[t]
         \/ hand'[t] \in entries \cup subscribers
         \/ hand'[t] \notin Subscription,
         \/ ups' = ups
         \/ \A e \in Events : \/ ups'[e].ids \subseteq ups[e].ids /\ ups'[e].gen = ups[e].gen
                              \/ ups'[e].ids = {}
  PROVE  Generations'
<1>1. \A e \in Events : \/ ups'[e].ids \subseteq ups[e].ids /\ ups'[e].gen = ups[e].gen
                        \/ ups'[e].ids = {}
  OBVIOUS
<1>2. /\ entries' \subseteq Known /\ subscribers' \subseteq Known
      /\ \A k \in DOMAIN queue' : queue'[k] \in Known
      /\ hand'[t] \in Subscription => hand'[t] \in Known
  BY KnownParts
<1> QED  BY <1>1, <1>2, Passed

LEMMA ServiceGenerations ==
  ASSUME TypeOK, Generations, ServiceStep \/ \E c \in Conns : Detach(c)
  PROVE  Generations'
<1>1. /\ svc \in Threads /\ ups \in [Events -> Up] /\ queue \in Seq(Subscription)
      /\ hand \in [Threads -> Subscription \cup Conns \cup {NoSub}]
      /\ pc[svc] \in Working => hand[svc] \in Subscription
  BY DEF TypeOK, Threads
<1>2. CASE Register
  <2>1. /\ UNCHANGED <<entries, nextSid, queue, ups, joined, hand>>
        /\ subscribers' = subscribers \cup {hand[svc]} /\ hand[svc] \in Subscription
    BY <1>1, <1>2 DEF Register, hub, Working
  <2>2. subscribers' \subseteq Known
    BY <1>1, <2>1, KnownParts
  <2> QED  BY <1>1, <2>1, <2>2, KnownParts, Passed
<1>3. CASE Submit
  <2>1. /\ UNCHANGED <<entries, subscribers, nextSid, ups, joined>>
        /\ hand[svc] \in Subscription
        /\ \/ UNCHANGED <<queue, hand>>
           \/ queue' = Append(queue, hand[svc]) /\ hand' = [hand EXCEPT ![svc] = NoSub]
    BY <1>1, <1>3 DEF Submit, Return, hub, Working
  <2>2. \A k \in DOMAIN queue' : queue'[k] \in Known
    <3>1. \A k \in DOMAIN Append(queue, hand[svc]) :
            \/ k \in DOMAIN queue /\ Append(queue, hand[svc])[k] = queue[k]
            \/ Append(queue, hand[svc])[k] = hand[svc]
      BY <1>1, <2>1
    <3> QED  BY <1>1, <2>1, <3>1, KnownParts
  <2>3. \A u \in Threads \ {svc} : hand'[u] = hand[u]
    BY <1>1, <2>1
  <2>4. hand'[svc] \in Subscription => hand'[svc] \in Known
    BY <1>1, <2>1, KnownParts, SubAssumption
  <2> QED  BY <1>1, <2>1, <2>2, <2>3, <2>4, KnownParts, Passed
<1>4. CASE UnsubErase
  BY <1>1, <1>4, Carried DEF UnsubErase, hub
<1>5. CASE UnsubHub
  <2>1. UNCHANGED <<entries, subscribers, nextSid, queue, joined, hand>>
    BY <1>5 DEF UnsubHub, tables
  <2>2. ASSUME NEW e \in Events
        PROVE  ups'[e].ids \subseteq ups[e].ids /\ ups'[e].gen = ups[e].gen
    <3>1. ups[e] \in Up
      BY <1>1
    <3>2. ups'[e] = ups[e] \/ ups'[e] = [ups[e] EXCEPT !.ids = @ \ {hand[svc]}]
      BY <1>1, <1>5 DEF UnsubHub
    <3> QED  BY <3>1, <3>2 DEF Up
  <2> QED  BY <1>1, <2>1, <2>2, Carried
<1>6. CASE UnsubAck
  BY <1>1, <1>6, Carried, SubAssumption DEF UnsubAck, Return, hub
<1>7. CASE CloseErase
  BY <1>1, <1>7, Carried DEF CloseErase, hub
<1>8. CASE CloseHub
  <2>1. /\ UNCHANGED <<entries, subscribers, nextSid, queue, joined>>
        /\ hand' = hand \/ hand' = [hand EXCEPT ![svc] = NoSub]
    BY <1>8 DEF CloseHub, Return, tables
  <2>2. ASSUME NEW e \in Events
        PROVE  ups'[e].ids \subseteq ups[e].ids /\ ups'[e].gen = ups[e].gen
    <3>1. ups[e] \in Up
      BY <1>1
    <3>2. ups'[e] = ups[e] \/ \E s : ups'[e] = [ups[e] EXCEPT !.ids = @ \ {s}]
      BY <1>8 DEF CloseHub
    <3> QED  BY <3>1, <3>2 DEF Up
  <2> QED  BY <1>1, <2>1, <2>2, Carried, SubAssumption
<1>9. CASE Abandon(svc)
  BY <1>1, <1>9, Carried, SubAssumption
  DEF Abandon, AbandonErase, AbandonRelease, Release, Refuse, Return, hub
<1>10. ASSUME NEW c \in Conns, Detach(c)  PROVE Generations'
  BY <1>1, <1>10, Carried, SubAssumption DEF Detach, hub
<1>11. CASE BodyDone
  BY <1>1, <1>11, Carried DEF BodyDone, tables, hub, locals
<1> QED
  BY <1>2, <1>3, <1>4, <1>5, <1>6, <1>7, <1>8, <1>9, <1>10, <1>11 DEF ServiceStep

LEMMA TakeGenerations ==
  ASSUME TypeOK, Generations, NEW c \in Conns, NEW i \in Ids, Take(c, i)
  PROVE  Generations'
<1>1. PICK s \in entries : entries' = entries \ {s} /\ hand' = [hand EXCEPT ![svc] = s]
  BY DEF Take, Holding
<1>2. /\ svc \in Threads /\ hand \in [Threads -> Subscription \cup Conns \cup {NoSub}]
      /\ UNCHANGED <<subscribers, nextSid, queue, ups, joined>>
  BY DEF Take, hub, TypeOK, Threads
<1> QED  BY <1>1, <1>2, Carried

LEMMA JobGenerations ==
  ASSUME TypeOK, Generations, NEW p \in Pumps, TakeJob(p) \/ JobStep(p)
  PROVE  Generations'
<1>1. /\ p \in Threads /\ ups \in [Events -> Up] /\ queue \in Seq(Subscription)
      /\ hand \in [Threads -> Subscription \cup Conns \cup {NoSub}]
  BY DEF TypeOK, Threads
<1>2. CASE TakeJob(p)
  <2>1. /\ UNCHANGED <<entries, subscribers, nextSid, ups, joined>> /\ queue # <<>>
        /\ queue' = Tail(queue) /\ hand' = [hand EXCEPT ![p] = Head(queue)]
    BY <1>2 DEF TakeJob, hub
  <2>2. /\ 1 \in DOMAIN queue /\ Head(queue) = queue[1]
        /\ \A k \in DOMAIN queue' : k + 1 \in DOMAIN queue /\ queue'[k] = queue[k + 1]
    BY <1>1, <2>1
  <2>3. /\ \A k \in DOMAIN queue' : queue'[k] \in Known
        /\ hand'[p] \in Known /\ \A u \in Threads \ {p} : hand'[u] = hand[u]
    BY <1>1, <2>1, <2>2, KnownParts
  <2> QED  BY <1>1, <2>1, <2>3, KnownParts, Passed
<1>3. CASE BindSubscribe(p) \/ BindStore(p) \/ Unbind(p)
  <2>1. UNCHANGED <<entries, subscribers, nextSid, queue, joined, hand>>
    BY <1>3 DEF BindSubscribe, BindStore, Unbind, tables
  <2>2. ASSUME NEW e \in Events
        PROVE  \/ ups'[e].ids \subseteq ups[e].ids /\ ups'[e].gen = ups[e].gen
               \/ ups'[e].ids = {}
    <3>1. ups[e] \in Up
      BY <1>1
    <3>2. \/ ups'[e] = ups[e] \/ ups'[e] = Absent
          \/ ups'[e] = [ups[e] EXCEPT !.state = "live"]
          \/ ups'[e] = [ups[e] EXCEPT !.state = "bound"]
      BY <1>1, <1>3 DEF BindSubscribe, BindStore, Unbind
    <3> QED  BY <3>1, <3>2 DEF Up, Absent
  <2> QED  BY <1>1, <2>1, <2>2, Carried
<1>4. CASE Ack(p)
  <2>1. \A e \in Events : \/ ups'[e].ids \subseteq ups[e].ids /\ ups'[e].gen = ups[e].gen
                         \/ ups'[e].ids = {}
    BY <1>1, <1>4 DEF Ack, Absent
  <2>2. /\ UNCHANGED <<entries, subscribers, nextSid, queue, joined>>
        /\ hand' = [hand EXCEPT ![p] = NoSub]
    BY <1>4 DEF Ack, Return
  <2> QED  BY <1>1, <2>1, <2>2, Carried, SubAssumption
<1>5. CASE Abandon(p)
  BY <1>1, <1>5, Carried, SubAssumption
  DEF Abandon, AbandonErase, AbandonRelease, Release, Refuse, Return, hub
<1> QED  BY <1>2, <1>3, <1>4, <1>5, HubAddGenerations DEF JobStep

LEMMA LossGenerations ==
  ASSUME TypeOK, Generations, NEW t \in Pumps \cup Deliverers, LossBegin(t) \/ LossStep(t)
  PROVE  Generations'
<1>1. /\ t \in Threads /\ ups \in [Events -> Up]
      /\ hand \in [Threads -> Subscription \cup Conns \cup {NoSub}]
  BY DEF TypeOK, Threads
<1>2. CASE LossBegin(t) \/ LossDone(t)
  BY <1>1, <1>2, Carried, SubAssumption DEF LossBegin, LossDone, Return, tables, hub
<1>3. CASE LossTake(t)
  <2>1. UNCHANGED <<entries, subscribers, nextSid, queue, joined, hand>>
    BY <1>3 DEF LossTake, tables
  <2>2. PICK e \in Events : ups' = ups \/ ups' = [ups EXCEPT ![e].gen = @ + 1, ![e].ids = {}]
    BY <1>1, <1>3 DEF LossTake, TypeOK
  <2>3. ASSUME NEW x \in Events
        PROVE  \/ ups'[x].ids \subseteq ups[x].ids /\ ups'[x].gen = ups[x].gen
               \/ ups'[x].ids = {}
    <3>1. ups[x] \in Up /\ ups[e] \in Up
      BY <1>1
    <3>2. [[ups[e] EXCEPT !.gen = @ + 1] EXCEPT !.ids = {}].ids = {}
      BY <3>1 DEF Up
    <3>3. ups'[x] = ups[x] \/ ups'[x] = [[ups[e] EXCEPT !.gen = @ + 1] EXCEPT !.ids = {}]
      BY <1>1, <2>2
    <3> QED  BY <3>2, <3>3
  <2> QED  BY <1>1, <2>1, <2>3, Carried
<1>4. CASE LossErase(t)
  <2>1. /\ UNCHANGED <<entries, nextSid, queue, ups, joined>> /\ subscribers' \subseteq subscribers
        /\ hand' = hand \/ \E s \in subscribers : hand' = [hand EXCEPT ![t] = s]
    BY <1>4 DEF LossErase, hub
  <2>2. /\ \A u \in Threads \ {t} : hand'[u] = hand[u]
        /\ hand'[t] = hand[t] \/ hand'[t] \in subscribers
    BY <1>1, <2>1
  <2> QED  BY <1>1, <2>1, <2>2, Carried
<1>5. CASE LossRelease(t)
  BY <1>1, <1>5, Carried DEF LossRelease, Release, hub
<1>6. CASE LossSend(t)
  BY <1>1, <1>6, Carried, SubAssumption DEF LossSend, hub
<1> QED  BY <1>2, <1>3, <1>4, <1>5, <1>6 DEF LossStep

LEMMA DeliverGenerations ==
  ASSUME TypeOK, Generations, NEW t \in Deliverers, DeliverReads(t) \/ DeliverStep(t)
  PROVE  Generations'
<1>1. /\ t \in Threads
      /\ hand \in [Threads -> Subscription \cup Conns \cup {NoSub}]
  BY DEF TypeOK, Threads
<1>2. CASE DeliverReads(t) \/ DeliverDone(t) \/ DeliverSend(t)
  <2>1. /\ UNCHANGED <<entries, subscribers, nextSid, queue, ups, joined>>
        /\ hand' = hand \/ hand' = [hand EXCEPT ![t] = NoSub]
    BY <1>2 DEF DeliverReads, DeliverSubscribers, DeliverGeneration, DeliverDone, DeliverSend,
                Return, tables, hub
  <2> QED  BY <1>1, <2>1, Carried, SubAssumption
<1>3. CASE DeliverLookup(t)
  <2>1. /\ UNCHANGED <<entries, subscribers, nextSid, queue, ups, joined>>
        /\ hand' = hand \/ \E s \in subscribers : hand' = [hand EXCEPT ![t] = s]
    BY <1>3 DEF DeliverLookup, tables, hub
  <2>2. /\ \A u \in Threads \ {t} : hand'[u] = hand[u]
        /\ hand'[t] = hand[t] \/ hand'[t] \in subscribers
    BY <1>1, <2>1
  <2> QED  BY <1>1, <2>1, <2>2, Carried
<1>4. CASE Unsubscribed(t)
  BY <1>1, <1>4, Carried, SubAssumption DEF Unsubscribed, Return, tables, hub
<1>5. CASE DeliverLast(t)
  <2>1. PICK e \in Events : ups' = [ups EXCEPT ![e] = Absent]
    BY <1>5 DEF DeliverLast
  <2>2. UNCHANGED <<entries, subscribers, nextSid, queue, joined, hand>>
    BY <1>5 DEF DeliverLast, tables
  <2>3. \A x \in Events : \/ ups'[x].ids \subseteq ups[x].ids /\ ups'[x].gen = ups[x].gen
                         \/ ups'[x].ids = {}
    BY <1>1, <2>1 DEF Absent, TypeOK
  <2> QED  BY <1>1, <2>2, <2>3, Carried
<1> QED  BY <1>2, <1>3, <1>4, <1>5 DEF DeliverStep

LEMMA ShutdownGenerations ==
  ASSUME TypeOK, Generations, Drain \/ ShutdownStep
  PROVE  Generations'
<1>1. svc \in Threads /\ ups \in [Events -> Up]
  BY DEF TypeOK, Threads
<1>2. /\ UNCHANGED <<entries, nextSid, joined, hand>> /\ subscribers' \subseteq subscribers
      /\ queue' = queue \/ queue' = <<>>
      /\ \A e \in Events : \/ ups'[e] = ups[e] \/ ups'[e] = Absent
                          \/ ups'[e] = [ups[e] EXCEPT !.state = "dropped"]
  BY <1>1 DEF Drain, ShutdownStep, HubClear, HubDrop, ClientsClose, PumpStop, PumpJoin,
              ServerStop, tables, hub, locals
<1>3. \A k \in DOMAIN queue' : queue'[k] \in Known
  BY <1>2, KnownParts
<1>4. \A e \in Events : \/ ups'[e].ids \subseteq ups[e].ids /\ ups'[e].gen = ups[e].gen
                        \/ ups'[e].ids = {}
  <2> SUFFICES ASSUME NEW e \in Events
               PROVE  \/ ups'[e].ids \subseteq ups[e].ids /\ ups'[e].gen = ups[e].gen
                      \/ ups'[e].ids = {}
    OBVIOUS
  <2>1. /\ [ups[e] EXCEPT !.state = "dropped"].ids = ups[e].ids
        /\ [ups[e] EXCEPT !.state = "dropped"].gen = ups[e].gen
    BY <1>1 DEF Up
  <2>2. Absent.ids = {}
    BY DEF Absent
  <2> QED  BY <1>2, <2>1, <2>2
<1> QED  BY <1>1, <1>2, <1>3, <1>4, KnownParts, Passed

LEMMA NextGenerations ==
  ASSUME TypeOK, Generations, [Next]_vars
  PROVE  Generations'
<1>1. CASE UNCHANGED vars
  BY <1>1 DEF vars, tables, hub, locals, Generations, SidsName, UpsApart, NeverResumed, Known
<1>2. CASE Next
  <2>1. CASE Rest
    BY <1>1, <2>1 DEF Rest
  <2>2. ASSUME NEW c \in Conns, NEW i \in Ids,
               Take(c, i) \/ \E e \in Events : Claim(c, i, e)
        PROVE  Generations'
    BY <2>2, TakeGenerations, ClaimGenerations
  <2>3. CASE \E c \in Conns : Detach(c)
    BY <2>3, ServiceGenerations
  <2>4. ASSUME NEW p \in Pumps, TakeJob(p) \/ JobStep(p)  PROVE Generations'
    BY <2>4, JobGenerations
  <2>5. ASSUME NEW t \in Pumps \cup Deliverers, LossBegin(t) \/ LossStep(t)
        PROVE  Generations'
    BY <2>5, LossGenerations
  <2>6. ASSUME NEW t \in Deliverers, DeliverReads(t) \/ DeliverStep(t)
        PROVE  Generations'
    BY <2>6, DeliverGenerations
  <2> QED
    BY <1>2, <2>1, <2>2, <2>3, <2>4, <2>5, <2>6, ServiceGenerations, ShutdownGenerations DEF Next
<1> QED  BY <1>1, <1>2

LEMMA InitGenerations == Init => Generations
<1>1. Init => Known = {}
  BY SubAssumption DEF Init, Known, Absent, Threads
<1>2. Init => UpsApart /\ NeverResumed
  BY DEF Init, UpsApart, NeverResumed, Absent
<1> QED  BY <1>1, <1>2 DEF Generations, SidsName

(* A loss ends what it interrupts: whoever is in an Up joined it in the    *)
(* generation it is in now, so no subscription is carried over a provider  *)
(* loss, however subscribes, failed binds and losses interleave.           *)
THEOREM LossIsFinal == Spec => []NeverResumed
<1>1. Init => Generations
  BY InitGenerations
<1>2. TypeOK /\ Generations /\ [Next]_vars => Generations'
  BY NextGenerations
<1>3. Generations => NeverResumed
  BY DEF Generations
<1> QED  BY <1>1, <1>2, <1>3, TypeCorrect, PTL DEF Spec

----------------------------------------------------------------------------
(* Shutdown.  While an Up is being bound its state says how far its one    *)
(* binder is, so a live handle outside the hub's table has a pump thread   *)
(* about to store it; a delivery runs under a live handle; and shutdown    *)
(* joins or waits for each kind of thread in turn.                         *)
Binding == {"bind", "store", "unbind"}
Delivery == {"gen", "deliver", "sendEvent"}
Losing == {"loss", "lossRelease", "sendLost"}

Binders ==
  /\ \A p \in Pumps :
       /\ pc[p] = "bind" => ups[hand[p].event].state = "new"
       /\ pc[p] = "store" => ups[hand[p].event].state = "live"
       /\ pc[p] = "unbind" => \/ ups[hand[p].event].state = "new"
                              \/ HubClosed /\ ups[hand[p].event].state = "absent"
  /\ \A p, q \in Pumps :
       pc[p] \in Binding /\ pc[q] \in Binding /\ hand[p].event = hand[q].event => p = q
  /\ \A e \in Events :
       ups[e].state = "live" => \E p \in Pumps : pc[p] = "store" /\ hand[p].event = e

Deliveries ==
  \A t \in Deliverers :
    /\ pc[t] \in Delivery \cup Losing \cup {"idle", "unsubscribe"}
    /\ pc[t] \in Delivery => \E e \in Events : evs[t] = {e} /\ HandleLive(e)

(* What the hub has dropped lives as long as somebody shares it.           *)
Dropping == \A e \in Events : ups[e].state = "dropped" => HubClosed /\ Shared(e)

Stopping ==
  /\ stage \in {"cleared", "closed", "joining", "joined", "stopped"} =>
       \A e \in Events : ups[e].state # "bound"
  /\ stage \in {"closed", "joining", "joined", "stopped"} =>
       \A t \in Deliverers : pc[t] \notin Losing
  /\ stage \in {"joined", "stopped"} => \A p \in Pumps : pc[p] = "idle"
  /\ stage = "stopped" => pc[svc] = "idle" /\ attached = {}

Quiescence == Binders /\ Deliveries /\ Dropping /\ Stopping

(* A step away from the handles: it neither binds nor delivers.            *)
LEMMA Aloof ==
  ASSUME TypeOK, Quiescence, NEW t \in Threads, UNCHANGED stage, attached' \subseteq attached,
         \A e \in Events : ups'[e].state = ups[e].state,
         \A u \in Threads \ {t} : pc'[u] = pc[u] /\ hand'[u] = hand[u] /\ evs'[u] = evs[u],
         pc[t] \notin Binding \cup Delivery \cup {"ack"}, pc'[t] \notin Binding \cup Delivery,
         t \in Deliverers => pc'[t] \in Losing \cup {"idle"},
         pc[t] = "unsubscribe" => pc'[t] = "idle",
         pc[t] = "idle" /\ pc'[t] # "idle" =>
           /\ t \in Pumps => stage \notin {"joined", "stopped"}
           /\ t \in Deliverers => stage \notin {"closed", "joining", "joined", "stopped"}
           /\ t = svc => attached # {}
  PROVE  Quiescence'
<1>1. /\ svc \in Threads /\ svc \notin Pumps /\ svc \notin Deliverers
      /\ \A p \in Pumps : p \in Threads /\ p \notin Deliverers
      /\ \A u \in Deliverers : u \in Threads
  BY ThreadsAssumption DEF Threads
<1>2. Binders'
  <2>1. \A p \in Pumps : pc'[p] \in Binding => pc'[p] = pc[p] /\ hand'[p] = hand[p] /\ pc[p] \in Binding
    BY <1>1
  <2>2. \A p \in Pumps : pc[p] \in Binding => pc'[p] = pc[p] /\ hand'[p] = hand[p]
    BY <1>1
  <2>3. \A p \in Pumps : pc[p] \in Binding => hand[p].event \in Events
    BY <1>1 DEF TypeOK, Working, Binding, Subscription
  <2>4. HubClosed' <=> HubClosed
    BY DEF HubClosed
  <2>5. ASSUME NEW p \in Pumps, pc'[p] \in Binding
        PROVE  /\ pc'[p] = "bind" => ups'[hand'[p].event].state = "new"
               /\ pc'[p] = "store" => ups'[hand'[p].event].state = "live"
               /\ pc'[p] = "unbind" => \/ ups'[hand'[p].event].state = "new"
                                       \/ HubClosed' /\ ups'[hand'[p].event].state = "absent"
    <3>1. /\ pc'[p] = pc[p] /\ hand'[p] = hand[p] /\ hand[p].event \in Events
          /\ ups'[hand[p].event].state = ups[hand[p].event].state
      BY <2>1, <2>3, <2>5
    <3> QED  BY <2>4, <3>1 DEF Quiescence, Binders
  <2>6. ASSUME NEW e \in Events, ups'[e].state = "live"
        PROVE  \E p \in Pumps : pc'[p] = "store" /\ hand'[p].event = e
    <3>1. PICK p \in Pumps : pc[p] = "store" /\ hand[p].event = e
      BY <2>6 DEF Quiescence, Binders
    <3> QED  BY <2>2, <3>1 DEF Binding
  <2>7. \A p \in Pumps : pc'[p] \in {"bind", "store", "unbind"} => pc'[p] \in Binding
    BY DEF Binding
  <2>8. \A p, q \in Pumps :
          pc'[p] \in Binding /\ pc'[q] \in Binding /\ hand'[p].event = hand'[q].event => p = q
    BY <2>1 DEF Quiescence, Binders
  <2> QED  BY <2>5, <2>6, <2>7, <2>8 DEF Binders, Binding
<1>3. Deliveries'
  <2>1. \A u \in Deliverers : pc'[u] \in Delivery => u # t
    OBVIOUS
  <2>2. \A e \in Events : HandleLive(e)' <=> HandleLive(e)
    BY DEF HandleLive
  <2> QED  BY <1>1, <2>1, <2>2 DEF Quiescence, Deliveries
<1>4. Stopping'
  <2>1. \A e \in Events : ups'[e].state = "bound" => ups[e].state = "bound"
    OBVIOUS
  <2>2. stage \in {"closed", "joining", "joined", "stopped"} =>
          \A u \in Deliverers : pc'[u] \notin Losing
    <3>1. t \in Deliverers => pc[t] \in Losing \cup {"idle", "unsubscribe"}
      BY DEF Quiescence, Deliveries
    <3>2. "idle" \notin Losing
      BY DEF Losing
    <3> QED  BY <1>1, <3>1, <3>2 DEF Quiescence, Stopping
  <2>3. stage \in {"joined", "stopped"} => \A p \in Pumps : pc'[p] = "idle"
    BY <1>1 DEF Quiescence, Stopping
  <2>4. stage = "stopped" => pc'[svc] = "idle" /\ attached' = {}
    BY <1>1 DEF Quiescence, Stopping
  <2> QED  BY <2>1, <2>2, <2>3, <2>4 DEF Quiescence, Stopping
<1>5. Dropping'
  <2>1. HubClosed' <=> HubClosed
    BY DEF HubClosed
  <2>2. \A e \in Events : ~Sharing(t, e)
    BY DEF Sharing, Delivering, Leaving, Delivery
  <2>3. \A u \in Threads \ {t}, e \in Events : Sharing(u, e) => Sharing(u, e)'
    BY DEF Sharing, Delivering, Leaving
  <2> QED  BY <2>1, <2>2, <2>3 DEF Quiescence, Dropping, Shared
<1> QED  BY <1>2, <1>3, <1>4, <1>5 DEF Quiescence

LEMMA RequestQuiescence ==
  ASSUME TypeOK, Quiescence, NEW c \in Conns,
         \/ Detach(c)
         \/ \E i \in Ids : Take(c, i) \/ \E e \in Events : Claim(c, i, e)
  PROVE  Quiescence'
<1>1. /\ svc \in Threads /\ svc \notin Pumps /\ svc \notin Deliverers
      /\ pc \in [Threads -> Labels] /\ hand = [t \in Threads |-> hand[t]]
  BY ThreadsAssumption DEF Threads, TypeOK
<1>2. /\ UNCHANGED <<stage, ups, evs>> /\ pc[svc] = "idle" /\ attached # {}
      /\ attached' \subseteq attached
      /\ \E s : hand' = hand \/ hand' = [hand EXCEPT ![svc] = s]
      /\ \E l \in {"register", "unsubErase", "closing"} : pc' = pc \/ pc' = [pc EXCEPT ![svc] = l]
  BY DEF Detach, Take, Claim, Serving, Goto, hub
<1>3. \A u \in Threads \ {svc} : pc'[u] = pc[u] /\ hand'[u] = hand[u] /\ evs'[u] = evs[u]
  BY <1>1, <1>2
<1>4. pc[svc] \notin Binding \cup Delivery \cup {"ack"} /\ pc'[svc] \notin Binding \cup Delivery
  BY <1>1, <1>2 DEF Binding, Delivery
<1> QED  BY <1>1, <1>2, <1>3, <1>4, Aloof

LEMMA ServiceQuiescence ==
  ASSUME TypeOK, Quiescence, ServiceStep
  PROVE  Quiescence'
<1>1. /\ svc \in Threads /\ svc \notin Pumps /\ svc \notin Deliverers
      /\ pc \in [Threads -> Labels] /\ ups \in [Events -> Up]
      /\ hand = [t \in Threads |-> hand[t]] /\ evs = [t \in Threads |-> evs[t]]
  BY ThreadsAssumption DEF Threads, TypeOK
<1>2. /\ UNCHANGED <<stage, attached>>
      /\ pc[svc] \in {"register", "submit", "unsubErase", "unsubHub", "unsubAck", "closing",
                      "closeHub", "abandonErase", "abandonRelease", "refuse", "idle"}
      /\ \E l \in {"submit", "abandonErase", "idle", "unsubHub", "unsubAck", "closeHub",
                   "abandonRelease", "refuse"} : pc' = [pc EXCEPT ![svc] = l] \/ pc' = pc
      /\ pc[svc] = "idle" => pc' = pc
      /\ \E s : hand' = hand \/ hand' = [hand EXCEPT ![svc] = s]
      /\ \E s : evs' = evs \/ evs' = [evs EXCEPT ![svc] = s]
  BY DEF ServiceStep, Register, Submit, UnsubErase, UnsubHub, UnsubAck, BodyDone, CloseErase,
         CloseHub, Abandon, AbandonErase, AbandonRelease, Refuse, Goto, Return, tables, locals
<1>3. \A e \in Events : ups'[e].state = ups[e].state
  <2>1. CASE UnsubHub
    BY <1>1, <2>1 DEF UnsubHub, Up
  <2>2. CASE CloseHub
    BY <1>1, <2>2 DEF CloseHub, Up
  <2>3. CASE ~UnsubHub /\ ~CloseHub
    BY <2>3 DEF ServiceStep, Register, Submit, UnsubErase, UnsubAck, BodyDone, CloseErase,
                Abandon, AbandonErase, AbandonRelease, Refuse, hub
  <2> QED  BY <2>1, <2>2, <2>3
<1>4. \A u \in Threads \ {svc} : pc'[u] = pc[u] /\ hand'[u] = hand[u] /\ evs'[u] = evs[u]
  BY <1>1, <1>2
<1>5. /\ pc[svc] \notin Binding \cup Delivery \cup {"ack"} /\ pc'[svc] \notin Binding \cup Delivery
      /\ pc[svc] = "idle" => pc'[svc] = "idle"
  BY <1>1, <1>2 DEF Binding, Delivery
<1> QED  BY <1>1, <1>2, <1>3, <1>4, <1>5, Aloof

LEMMA LossQuiescence ==
  ASSUME TypeOK, Quiescence, NEW t \in Pumps \cup Deliverers, LossBegin(t) \/ LossStep(t)
  PROVE  Quiescence'
<1>1. /\ t \in Threads /\ t # svc
      /\ pc \in [Threads -> Labels] /\ ups \in [Events -> Up]
      /\ hand = [u \in Threads |-> hand[u]] /\ evs = [u \in Threads |-> evs[u]]
  BY ThreadsAssumption DEF Threads, TypeOK
<1>2. /\ UNCHANGED <<stage, attached>> /\ pc[t] \in Losing \cup {"idle"}
      /\ \E l \in Losing \cup {"idle"} : pc' = [pc EXCEPT ![t] = l] \/ pc' = pc
      /\ \E s : hand' = hand \/ hand' = [hand EXCEPT ![t] = s]
      /\ \E s : evs' = evs \/ evs' = [evs EXCEPT ![t] = s]
      /\ pc[t] = "idle" => MayReportLoss(t)
  BY DEF LossBegin, LossStep, LossTake, LossErase, LossRelease, LossSend, LossDone, Losing, Goto,
         Return, tables
<1>3. \A e \in Events : ups'[e].state = ups[e].state
  <2>1. CASE LossTake(t)
    BY <1>1, <2>1 DEF LossTake, Up
  <2>2. CASE ~LossTake(t)
    BY <2>2 DEF LossBegin, LossStep, LossErase, LossRelease, LossSend, LossDone, hub
  <2> QED  BY <2>1, <2>2
<1>4. \A u \in Threads \ {t} : pc'[u] = pc[u] /\ hand'[u] = hand[u] /\ evs'[u] = evs[u]
  BY <1>1, <1>2
<1>5. pc[t] \notin Binding \cup Delivery \cup {"ack"} /\ pc'[t] \notin Binding \cup Delivery
  BY <1>1, <1>2 DEF Binding, Delivery, Losing
<1>6. pc'[t] \in Losing \cup {"idle"}
  BY <1>1, <1>2
<1>7. pc[t] = "idle" =>
        /\ t \in Pumps => stage \notin {"joined", "stopped"}
        /\ t \in Deliverers => stage \notin {"closed", "joining", "joined", "stopped"}
  BY <1>2, ThreadsAssumption DEF MayReportLoss, PumpStopping
<1>8. attached' \subseteq attached /\ stage' = stage /\ pc[t] # "unsubscribe"
  BY <1>2 DEF Losing
<1> QED  BY <1>1, <1>3, <1>4, <1>5, <1>6, <1>7, <1>8, Aloof

(* The jobs that make no Up and bind none.                                 *)
LEMMA JobAloof ==
  ASSUME TypeOK, Quiescence, NEW p \in Pumps,
         TakeJob(p) \/ Abandon(p) \/ (HubAdd(p) /\ (HubClosed \/ Present(hand[p].event)))
  PROVE  Quiescence'
<1>1. /\ p \in Threads /\ p # svc /\ p \notin Deliverers
      /\ pc \in [Threads -> Labels] /\ ups \in [Events -> Up]
      /\ hand = [u \in Threads |-> hand[u]] /\ evs = [u \in Threads |-> evs[u]]
  BY ThreadsAssumption DEF Threads, TypeOK
<1>2. /\ UNCHANGED <<stage, attached>>
      /\ pc[p] \in {"idle", "add", "abandonErase", "abandonRelease", "refuse"}
      /\ \E l \in {"add", "idle", "abandonRelease", "refuse", "abandonErase", "ack"} :
           pc' = [pc EXCEPT ![p] = l]
      /\ \E s : hand' = hand \/ hand' = [hand EXCEPT ![p] = s]
      /\ \E s : evs' = evs \/ evs' = [evs EXCEPT ![p] = s]
      /\ pc[p] = "idle" => stage \notin {"joined", "stopped"}
  BY DEF TakeJob, Abandon, AbandonErase, AbandonRelease, Refuse, HubAdd, Goto, Return, tables,
         Present, PumpStopping
<1>3. \A e \in Events : ups'[e].state = ups[e].state
  <2>1. CASE HubAdd(p) /\ ~HubClosed
    <3>1. /\ hand[p].event \in Events /\ pc[p] = "add"
          /\ ups' = [ups EXCEPT ![hand[p].event] = Joined(hand[p].event, hand[p])]
      BY <1>1, <2>1 DEF HubAdd, TypeOK, Working, Subscription
    <3>3. Present(hand[p].event)
      BY <2>1, <3>1 DEF TakeJob, Abandon, AbandonErase, AbandonRelease, Refuse
    <3>2. Joined(hand[p].event, hand[p]).state = ups[hand[p].event].state
      BY <1>1, <3>1, <3>3 DEF Joined, Up
    <3> QED  BY <1>1, <3>1, <3>2
  <2>2. CASE ~(HubAdd(p) /\ ~HubClosed)
    BY <2>2 DEF HubAdd, TakeJob, Abandon, AbandonErase, AbandonRelease, Refuse, hub
  <2> QED  BY <2>1, <2>2
<1>4. \A u \in Threads \ {p} : pc'[u] = pc[u] /\ hand'[u] = hand[u] /\ evs'[u] = evs[u]
  BY <1>1, <1>2
<1>5. pc[p] \notin Binding \cup Delivery \cup {"ack"} /\ pc'[p] \notin Binding \cup Delivery
  BY <1>1, <1>2 DEF Binding, Delivery
<1> QED  BY <1>1, <1>2, <1>3, <1>4, <1>5, Aloof

(* Whoever lets go of a dropped Up last ends it; no one else shares it.    *)
LEMMA AckQuiescence ==
  ASSUME TypeOK, Quiescence, NEW p \in Pumps, Ack(p)
  PROVE  Quiescence'
<1>1. /\ p \in Threads /\ p # svc /\ p \notin Deliverers /\ svc \in Threads
      /\ \A q \in Pumps : q \in Threads
      /\ \A u \in Deliverers : u \in Threads /\ u # p
  BY ThreadsAssumption DEF Threads
<1>2. /\ pc[p] = "ack" /\ UNCHANGED <<stage, attached>> /\ pc'[p] = "idle"
      /\ ups' = [e \in Events |-> IF LastOf(p, e) THEN Absent ELSE ups[e]]
      /\ \A u \in Threads \ {p} : pc'[u] = pc[u] /\ hand'[u] = hand[u] /\ evs'[u] = evs[u]
  BY <1>1 DEF Ack, Return, Goto, TypeOK
<1>3. HubClosed' <=> HubClosed
  BY <1>2 DEF HubClosed
<1>4. \A e \in Events : /\ ups[e].state # "dropped" => ups'[e] = ups[e]
                        /\ ups'[e].state # "absent" => ups'[e] = ups[e]
  BY <1>2 DEF LastOf, Absent
<1>5. Binders'
  <2>1. \A q \in Pumps : pc[q] \in Binding => hand[q].event \in Events
    BY <1>1 DEF TypeOK, Working, Binding, Subscription
  <2>2. \A q \in Pumps : pc'[q] \in Binding => q # p
    BY <1>2 DEF Binding
  <2>3. ASSUME NEW q \in Pumps, pc'[q] \in Binding
        PROVE  /\ pc'[q] = "bind" => ups'[hand'[q].event].state = "new"
               /\ pc'[q] = "store" => ups'[hand'[q].event].state = "live"
               /\ pc'[q] = "unbind" => \/ ups'[hand'[q].event].state = "new"
                                       \/ HubClosed' /\ ups'[hand'[q].event].state = "absent"
    <3>1. pc'[q] = pc[q] /\ hand'[q] = hand[q] /\ hand[q].event \in Events
      BY <1>1, <1>2, <2>1, <2>2, <2>3
    <3>2. ups[hand[q].event].state # "dropped"
      BY <2>3, <3>1 DEF Quiescence, Binders, Binding
    <3> QED  BY <1>3, <1>4, <3>1, <3>2 DEF Quiescence, Binders
  <2>4. ASSUME NEW e \in Events, ups'[e].state = "live"
        PROVE  \E q \in Pumps : pc'[q] = "store" /\ hand'[q].event = e
    <3>1. PICK q \in Pumps : pc[q] = "store" /\ hand[q].event = e
      BY <1>4, <2>4 DEF Quiescence, Binders
    <3> QED  BY <1>1, <1>2, <3>1
  <2>5. \A q \in Pumps : pc'[q] \in {"bind", "store", "unbind"} => pc'[q] \in Binding
    BY DEF Binding
  <2>6. \A q, r \in Pumps :
          pc'[q] \in Binding /\ pc'[r] \in Binding /\ hand'[q].event = hand'[r].event => q = r
    BY <1>1, <1>2, <2>2 DEF Quiescence, Binders
  <2> QED  BY <2>3, <2>4, <2>5, <2>6 DEF Binders, Binding
<1>6. Deliveries'
  <2>1. ASSUME NEW t \in Deliverers, pc'[t] \in Delivery
        PROVE  \E e \in Events : evs'[t] = {e} /\ HandleLive(e)'
    <3>1. pc'[t] = pc[t] /\ evs'[t] = evs[t] /\ t # p /\ t \in Threads
      BY <1>1, <1>2
    <3>2. PICK e \in Events : evs[t] = {e} /\ HandleLive(e)
      BY <2>1, <3>1 DEF Quiescence, Deliveries
    <3>3. ~LastOf(p, e)
      BY <2>1, <3>1, <3>2 DEF LastOf, Sharing, Delivering, Delivery
    <3> QED  BY <1>2, <3>1, <3>2, <3>3 DEF HandleLive
  <2> QED  BY <1>1, <1>2, <2>1 DEF Quiescence, Deliveries
<1>7. Dropping'
  <2> SUFFICES ASSUME NEW e \in Events, ups'[e].state = "dropped"
               PROVE  HubClosed' /\ Shared(e)'
    BY DEF Dropping
  <2>1. ups[e].state = "dropped" /\ ~LastOf(p, e)
    BY <1>2 DEF Absent
  <2>2. HubClosed /\ Shared(e)
    BY <2>1 DEF Quiescence, Dropping
  <2>3. PICK u \in Threads \ {p} : Sharing(u, e)
    BY <2>1, <2>2 DEF LastOf, Shared
  <2> QED  BY <1>2, <1>3, <2>2, <2>3 DEF Shared, Sharing, Delivering, Leaving
<1>8. Stopping'
  <2>1. \A u \in Deliverers : pc'[u] = pc[u]
    BY <1>1, <1>2
  <2>2. \A e \in Events : ups'[e].state = "bound" => ups[e].state = "bound"
    BY <1>4
  <2>3. stage \notin {"joined", "stopped"}
    BY <1>2 DEF Quiescence, Stopping
  <2> QED  BY <1>2, <2>1, <2>2, <2>3 DEF Quiescence, Stopping
<1> QED  BY <1>5, <1>6, <1>7, <1>8 DEF Quiescence

(* A step of an Up's one binder.                                           *)
LEMMA BinderMoves ==
  ASSUME TypeOK, Quiescence, NEW p \in Pumps, NEW e \in Events, hand[p].event = e,
         UNCHANGED <<stage, attached, hand>>, \A u \in Deliverers : evs'[u] = evs[u],
         HubClosed => \A u \in Threads \ {p} : evs'[u] = evs[u],
         pc[p] \in Binding \cup {"add"}, pc'[p] \in Binding \cup {"ack", "abandonErase"},
         \A u \in Threads \ {p} : pc'[u] = pc[u],
         \A q \in Pumps \ {p} : pc[q] \in Binding => hand[q].event # e,
         \A x \in Events \ {e} : ups'[x].state = ups[x].state,
         pc'[p] = "bind" => ups'[e].state = "new",
         pc'[p] = "store" => ups'[e].state = "live",
         pc'[p] = "unbind" => ups'[e].state = "new" \/ (HubClosed /\ ups'[e].state = "absent"),
         ups'[e].state = "live" => pc'[p] = "store",
         ups'[e].state = "bound" => ~HubClosed, ups'[e].state # "dropped",
         HandleLive(e) => ups'[e].state \in {"live", "bound"} \/ Quiet(e)
  PROVE  Quiescence'
<1>1. /\ svc \in Threads /\ svc \notin Pumps /\ svc \notin Deliverers
      /\ \A q \in Pumps : q \in Threads /\ q \notin Deliverers
      /\ \A u \in Deliverers : u \in Threads
  BY ThreadsAssumption DEF Threads
<1>2. HubClosed' <=> HubClosed
  BY DEF HubClosed
<1>3. Binders'
  <2>1. \A q \in Pumps : pc[q] \in Binding => hand[q].event \in Events
    BY <1>1 DEF TypeOK, Working, Binding, Subscription
  <2>2. ASSUME NEW q \in Pumps
        PROVE  /\ pc'[q] = "bind" => ups'[hand[q].event].state = "new"
               /\ pc'[q] = "store" => ups'[hand[q].event].state = "live"
               /\ pc'[q] = "unbind" => \/ ups'[hand[q].event].state = "new"
                                       \/ HubClosed /\ ups'[hand[q].event].state = "absent"
    <3>1. CASE q # p /\ pc'[q] \in Binding
      <4>1. pc'[q] = pc[q] /\ hand[q].event \in Events \ {e}
        BY <1>1, <2>1, <3>1
      <4> QED  BY <4>1 DEF Quiescence, Binders
    <3>2. CASE pc'[q] \notin Binding
      BY <3>2 DEF Binding
    <3>3. CASE q = p
      BY <3>3
    <3> QED  BY <3>1, <3>2, <3>3
  <2>3. \A q, r \in Pumps :
          pc'[q] \in Binding /\ pc'[r] \in Binding /\ hand[q].event = hand[r].event => q = r
    BY <1>1 DEF Quiescence, Binders
  <2>4. ASSUME NEW x \in Events, ups'[x].state = "live"
        PROVE  \E q \in Pumps : pc'[q] = "store" /\ hand[q].event = x
    <3>1. CASE x # e
      <4>1. PICK q \in Pumps : pc[q] = "store" /\ hand[q].event = x
        BY <2>4, <3>1 DEF Quiescence, Binders
      <4> QED  BY <1>1, <3>1, <4>1
    <3> QED  BY <2>4, <3>1
  <2> QED  BY <1>2, <2>2, <2>3, <2>4 DEF Binders
<1>4. Deliveries'
  <2>1. ASSUME NEW t \in Deliverers, pc'[t] \in Delivery
        PROVE  \E x \in Events : evs'[t] = {x} /\ HandleLive(x)'
    <3>1. pc'[t] = pc[t]
      BY <1>1
    <3>2. PICK x \in Events : evs[t] = {x} /\ HandleLive(x)
      BY <2>1, <3>1 DEF Quiescence, Deliveries
    <3>3. x = e => ~Quiet(e)
      BY <2>1, <3>1, <3>2 DEF Quiet, Delivering, Delivery
    <3> QED  BY <3>2, <3>3 DEF HandleLive
  <2> QED  BY <1>1, <2>1 DEF Quiescence, Deliveries
<1>5. Stopping'
  <2>1. stage \notin {"joined", "stopped"}
    BY DEF Quiescence, Stopping, Binding
  <2> QED  BY <1>1, <2>1 DEF Quiescence, Stopping, HubClosed
<1>6. Dropping'
  <2> SUFFICES ASSUME NEW x \in Events, ups'[x].state = "dropped"
               PROVE  HubClosed' /\ Shared(x)'
    BY DEF Dropping
  <2>1. ups[x].state = "dropped"
    OBVIOUS
  <2>2. PICK u \in Threads : HubClosed /\ Sharing(u, x)
    BY <2>1 DEF Quiescence, Dropping, Shared
  <2>3. u # p
    BY <1>1, <2>2 DEF Sharing, Delivering, Leaving, Binding
  <2> QED  BY <1>2, <2>2, <2>3 DEF Shared, Sharing, Delivering, Leaving
<1> QED  BY <1>3, <1>4, <1>5, <1>6 DEF Quiescence

LEMMA BindQuiescence ==
  ASSUME TypeOK, Quiescence, NEW p \in Pumps,
         \/ BindSubscribe(p) \/ BindStore(p) \/ Unbind(p)
         \/ HubAdd(p) /\ ~HubClosed /\ ~Present(hand[p].event)
  PROVE  Quiescence'
<1>1. /\ p \in Threads /\ hand[p].event \in Events /\ pc[p] \in Binding \cup {"add"}
      /\ pc \in [Threads -> Labels] /\ ups \in [Events -> Up]
      /\ \A q \in Pumps : q \in Threads
      /\ UNCHANGED <<stage, attached, hand>>
  BY DEF Threads, TypeOK, BindSubscribe, BindStore, Unbind, HubAdd, Working, Subscription, tables,
         Binding
<1>2. PICK e \in Events : e = hand[p].event
  BY <1>1
<1>3. /\ \A u \in Deliverers : evs'[u] = evs[u]
      /\ HubClosed => \A u \in Threads \ {p} : evs'[u] = evs[u]
  <2>1. p \notin Deliverers /\ \A u \in Deliverers : u \in Threads /\ u \notin Pumps
    BY ThreadsAssumption DEF Threads
  <2>2. evs = [u \in Threads |-> evs[u]]
    BY DEF TypeOK
  <2>3. CASE Unbind(p)
    BY <2>1, <2>3 DEF Unbind, Leaving
  <2>4. CASE BindSubscribe(p)
    BY <2>4 DEF BindSubscribe
  <2>5. CASE BindStore(p)
    BY <2>1, <2>2, <2>5 DEF BindStore
  <2>6. CASE HubAdd(p) /\ ~HubClosed
    BY <2>1, <2>2, <2>6 DEF HubAdd
  <2> QED  BY <2>3, <2>4, <2>5, <2>6
<1>4. CASE BindSubscribe(p)
  <2>1. /\ \A q \in Pumps \ {p} : pc[q] \in Binding => hand[q].event # e
        /\ ups[e].state = "new"
    BY <1>2, <1>4 DEF BindSubscribe, Quiescence, Binders, Binding
  <2>2. \/ pc' = [pc EXCEPT ![p] = "unbind"] /\ ups' = ups
        \/ pc' = [pc EXCEPT ![p] = "store"] /\ ups' = [ups EXCEPT ![e].state = "live"]
    BY <1>2, <1>4 DEF BindSubscribe, Goto
  <2>3. ups[e] \in Up
    BY <1>1
  <2>4. \/ pc'[p] = "unbind" /\ ups'[e].state = "new"
        \/ pc'[p] = "store" /\ ups'[e].state = "live"
    BY <1>1, <2>1, <2>2, <2>3 DEF Up
  <2>5. /\ \A u \in Threads \ {p} : pc'[u] = pc[u]
        /\ \A x \in Events \ {e} : ups'[x] = ups[x]
    BY <1>1, <2>2
  <2> QED  BY <1>1, <1>2, <1>3, <2>1, <2>4, <2>5, BinderMoves DEF HandleLive, Binding
<1>5. CASE BindStore(p)
  <2>1. \A q \in Pumps \ {p} : pc[q] \in Binding => hand[q].event # e
    BY <1>2, <1>5 DEF BindStore, Quiescence, Binders, Binding
  <2>2. \/ ~HubClosed /\ pc' = [pc EXCEPT ![p] = "ack"] /\ ups' = [ups EXCEPT ![e].state = "bound"]
        \/ HubClosed /\ Quiet(e) /\ pc' = [pc EXCEPT ![p] = "unbind"] /\ ups' = [ups EXCEPT ![e] = Absent]
    BY <1>2, <1>5 DEF BindStore, Goto
  <2>3. ups[e] \in Up
    BY <1>1
  <2>4. \/ ~HubClosed /\ pc'[p] = "ack" /\ ups'[e].state = "bound"
        \/ HubClosed /\ Quiet(e) /\ pc'[p] = "unbind" /\ ups'[e].state = "absent"
    BY <1>1, <2>2, <2>3 DEF Up, Absent
  <2>5. /\ \A u \in Threads \ {p} : pc'[u] = pc[u]
        /\ \A x \in Events \ {e} : ups'[x] = ups[x]
    BY <1>1, <2>2
  <2> QED  BY <1>1, <1>2, <1>3, <2>1, <2>4, <2>5, BinderMoves DEF Binding
<1>6. CASE Unbind(p)
  <2>1. /\ \A q \in Pumps \ {p} : pc[q] \in Binding => hand[q].event # e
        /\ ups[e].state \in {"new", "absent"} /\ (~HubClosed => ups[e].state = "new")
    BY <1>2, <1>6 DEF Unbind, Quiescence, Binders, Binding
  <2>2. /\ pc' = [pc EXCEPT ![p] = "abandonErase"]
        /\ \/ HubClosed /\ ups' = ups
           \/ ~HubClosed /\ ups' = [ups EXCEPT ![e] = Absent]
    BY <1>2, <1>6 DEF Unbind, Goto
  <2>3. /\ pc'[p] = "abandonErase"
        /\ \A u \in Threads \ {p} : pc'[u] = pc[u]
        /\ \A x \in Events \ {e} : ups'[x] = ups[x]
    BY <1>1, <2>2
  <2>4. ups'[e].state \in {"new", "absent"} /\ ~HandleLive(e)
    BY <1>1, <2>1, <2>2 DEF Absent, HandleLive
  <2> QED  BY <1>1, <1>2, <1>3, <2>1, <2>3, <2>4, BinderMoves DEF Binding
<1>7. CASE HubAdd(p) /\ ~HubClosed /\ ~Present(hand[p].event)
  <2>1. ups[e].state = "absent" /\ pc[p] = "add"
    BY <1>2, <1>7 DEF Present, HubAdd
  <2>2. \A q \in Pumps \ {p} : pc[q] \in Binding => hand[q].event # e
    BY <1>7, <2>1 DEF Quiescence, Binders, Binding
  <2>3. pc' = [pc EXCEPT ![p] = "bind"] /\ ups' = [ups EXCEPT ![e] = Joined(e, hand[p])]
    BY <1>2, <1>7 DEF HubAdd, Goto
  <2>4. Joined(e, hand[p]).state = "new"
    BY <1>2, <1>7 DEF Joined
  <2>5. /\ pc'[p] = "bind" /\ ups'[e].state = "new"
        /\ \A u \in Threads \ {p} : pc'[u] = pc[u]
        /\ \A x \in Events \ {e} : ups'[x] = ups[x]
    BY <1>1, <2>3, <2>4
  <2> QED  BY <1>1, <1>2, <1>3, <2>1, <2>2, <2>5, BinderMoves DEF HandleLive, Binding
<1> QED  BY <1>4, <1>5, <1>6, <1>7

LEMMA DeliverQuiescence ==
  ASSUME TypeOK, Quiescence, NEW t \in Deliverers, DeliverReads(t) \/ DeliverStep(t)
  PROVE  Quiescence'
<1>1. /\ t \in Threads /\ svc \in Threads /\ t # svc /\ t \notin Pumps
      /\ \A p \in Pumps : p \in Threads /\ p # t
      /\ \A u \in Deliverers : u \in Threads
      /\ pc = [u \in Threads |-> pc[u]] /\ evs = [u \in Threads |-> evs[u]]
      /\ hand = [u \in Threads |-> hand[u]] /\ ups = [e \in Events |-> ups[e]]
  BY ThreadsAssumption DEF Threads, TypeOK
<1>2. /\ UNCHANGED <<stage, attached>>
      /\ \E l \in Delivery \cup {"idle", "unsubscribe"} : pc' = [pc EXCEPT ![t] = l] \/ pc' = pc
      /\ \E s : hand' = hand \/ hand' = [hand EXCEPT ![t] = s]
      /\ \E s : evs' = evs \/ evs' = [evs EXCEPT ![t] = s]
      /\ pc[t] \in Delivery \cup {"idle", "unsubscribe"}
  BY DEF DeliverReads, DeliverSubscribers, DeliverGeneration, DeliverStep, DeliverLookup,
         DeliverSend, DeliverDone, DeliverLast, Unsubscribed, Goto, Return, tables, Delivery
<1>3. /\ \A u \in Threads \ {t} : pc'[u] = pc[u] /\ hand'[u] = hand[u] /\ evs'[u] = evs[u]
      /\ pc'[t] \in Delivery \cup {"idle", "unsubscribe"}
  BY <1>1, <1>2
<1>4. \A e \in Events : ups'[e] = ups[e] \/ (LastOf(t, e) /\ ups'[e] = Absent)
  <2>1. CASE DeliverLast(t)
    BY <1>1, <2>1 DEF DeliverLast
  <2>2. CASE ~DeliverLast(t)
    BY <2>2 DEF DeliverReads, DeliverSubscribers, DeliverGeneration, DeliverStep, DeliverLookup,
                DeliverSend, DeliverDone, Unsubscribed, hub
  <2> QED  BY <2>1, <2>2
<1>5. /\ \A e \in Events : /\ ups[e].state # "dropped" => ups'[e] = ups[e]
                           /\ ups'[e].state # "absent" => ups'[e] = ups[e]
      /\ HubClosed' <=> HubClosed
  BY <1>2, <1>4 DEF LastOf, Absent, HubClosed
<1>6. pc'[t] \in Delivery => \E e \in Events : evs'[t] = {e} /\ HandleLive(e)'
  <2>1. CASE DeliverSubscribers(t)
    <3>1. PICK e \in Events : HandleLive(e) /\ evs' = [evs EXCEPT ![t] = {e}]
      BY <2>1 DEF DeliverSubscribers
    <3> QED  BY <1>1, <2>1, <3>1 DEF DeliverSubscribers, HandleLive, hub
  <2>2. CASE DeliverGeneration(t) \/ DeliverLookup(t) \/ DeliverSend(t)
    <3>1. pc[t] \in Delivery /\ evs' = evs /\ ups' = ups
      BY <2>2 DEF DeliverGeneration, DeliverLookup, DeliverSend, Delivery, hub
    <3> QED  BY <3>1 DEF Quiescence, Deliveries, HandleLive
  <2>3. CASE DeliverDone(t) \/ DeliverLast(t) \/ Unsubscribed(t)
    BY <1>1, <2>3 DEF DeliverDone, DeliverLast, Unsubscribed, Return, Goto, Delivery
  <2> QED  BY <2>1, <2>2, <2>3 DEF DeliverReads, DeliverStep
<1>7. Binders'
  <2>1. \A p \in Pumps : pc'[p] = pc[p] /\ hand'[p] = hand[p]
    BY <1>1, <1>3
  <2>2. \A p \in Pumps : pc[p] \in Binding => hand[p].event \in Events
    BY <1>1 DEF TypeOK, Working, Binding, Subscription
  <2>3. ASSUME NEW p \in Pumps, pc[p] \in Binding
        PROVE  ups'[hand[p].event] = ups[hand[p].event]
    BY <1>5, <2>2, <2>3 DEF Quiescence, Binders, Binding
  <2>4. \A e \in Events : ups'[e].state = "live" => ups[e].state = "live"
    BY <1>5
  <2> QED  BY <1>5, <2>1, <2>3, <2>4 DEF Quiescence, Binders, Binding
<1>8. Deliveries'
  <2>1. ASSUME NEW u \in Deliverers, u # t, pc'[u] \in Delivery
        PROVE  \E e \in Events : evs'[u] = {e} /\ HandleLive(e)'
    <3>1. pc'[u] = pc[u] /\ evs'[u] = evs[u] /\ u \in Threads \ {t}
      BY <1>1, <1>3, <2>1
    <3>2. PICK e \in Events : evs[u] = {e} /\ HandleLive(e)
      BY <2>1, <3>1 DEF Quiescence, Deliveries
    <3>3. ~LastOf(t, e)
      BY <2>1, <3>1, <3>2 DEF LastOf, Sharing, Delivering, Delivery
    <3> QED  BY <1>4, <3>1, <3>2, <3>3 DEF HandleLive
  <2> QED  BY <1>1, <1>3, <1>6, <2>1 DEF Quiescence, Deliveries
<1>9. Dropping'
  <2> SUFFICES ASSUME NEW e \in Events, ups'[e].state = "dropped"
               PROVE  HubClosed' /\ Shared(e)'
    BY DEF Dropping
  <2>1. ups[e].state = "dropped" /\ HubClosed /\ Shared(e)
    BY <1>5 DEF Quiescence, Dropping
  <2>2. CASE \E u \in Threads \ {t} : Sharing(u, e)
    BY <1>3, <1>5, <2>1, <2>2 DEF Shared, Sharing, Delivering, Leaving
  <2>3. CASE ~\E u \in Threads \ {t} : Sharing(u, e)
    <3>1. Sharing(t, e) /\ LastOf(t, e)
      BY <2>1, <2>3 DEF Shared, LastOf
    <3>2. pc[t] \in Delivery /\ e \in evs[t]
      BY <1>1, <3>1 DEF Sharing, Delivering, Leaving, Delivery
    <3>3. CASE DeliverGeneration(t) \/ DeliverLookup(t) \/ DeliverSend(t)
      <4>1. evs' = evs
        BY <3>3 DEF DeliverGeneration, DeliverLookup, DeliverSend
      <4>2. pc'[t] \in Delivery
        BY <1>1, <3>2, <3>3 DEF DeliverGeneration, DeliverLookup, DeliverSend, Goto, Delivery
      <4> QED  BY <1>1, <1>5, <2>1, <3>2, <4>1, <4>2
               DEF Shared, Sharing, Delivering, Leaving, Delivery
    <3>4. CASE DeliverLast(t)
      <4>1. PICK x \in Events : LastOf(t, x) /\ ups' = [ups EXCEPT ![x] = Absent]
        BY <3>4 DEF DeliverLast
      <4>2. PICK y \in Events : evs[t] = {y}
        BY <3>2 DEF Quiescence, Deliveries
      <4>3. x = e
        BY <1>1, <3>2, <4>1, <4>2 DEF LastOf, Sharing, Delivering, Leaving
      <4> QED  BY <1>1, <4>1, <4>3 DEF Absent
    <3>5. ~DeliverSubscribers(t) /\ ~DeliverDone(t) /\ ~Unsubscribed(t)
      BY <3>1, <3>2 DEF DeliverSubscribers, DeliverDone, Unsubscribed, Delivery
    <3> QED  BY <3>3, <3>4, <3>5 DEF DeliverReads, DeliverStep
  <2> QED  BY <2>2, <2>3
<1>10. Stopping'
  <2>1. pc'[t] \notin Losing
    BY <1>3 DEF Losing, Delivery
  <2>2. \A e \in Events : ups'[e].state = "bound" => ups[e].state = "bound"
    BY <1>5
  <2> QED  BY <1>1, <1>2, <1>3, <2>1, <2>2 DEF Quiescence, Stopping
<1> QED  BY <1>7, <1>8, <1>9, <1>10 DEF Quiescence

LEMMA ShutdownQuiescence ==
  ASSUME TypeOK, Quiescence, Drain \/ ShutdownStep
  PROVE  Quiescence'
<1>1. /\ UNCHANGED <<hand, pc, evs>> /\ ups \in [Events -> Up]
      /\ \A e \in Events : \/ ups'[e] = ups[e]
                           \/ ups[e].state = "bound" /\ ups'[e] = Absent /\ ~Shared(e)
                           \/ /\ ups[e].state = "bound" /\ Shared(e) /\ HubClosed'
                              /\ ups'[e] = [ups[e] EXCEPT !.state = "dropped"]
      /\ HubClosed => HubClosed'
  <2>1. HubClosed => HubClosed'
    BY DEF Drain, ShutdownStep, HubClear, HubDrop, ClientsClose, PumpStop, PumpJoin,
           ServerStop, HubClosed, Advance
  <2>2. UNCHANGED <<hand, pc, evs>> /\ ups \in [Events -> Up]
    BY DEF Drain, ShutdownStep, HubClear, HubDrop, ClientsClose, PumpStop, PumpJoin,
           ServerStop, locals, TypeOK
  <2>3. CASE HubDrop
    <3>1. HubClosed'
      BY <2>3 DEF HubDrop, Advance, HubClosed
    <3> QED  BY <2>1, <2>2, <2>3, <3>1 DEF HubDrop
  <2>4. CASE ~HubDrop
    <3>1. ups' = ups
      BY <2>4 DEF Drain, ShutdownStep, HubClear, ClientsClose, PumpStop, PumpJoin, ServerStop, hub
    <3> QED  BY <2>1, <2>2, <3>1
  <2> QED  BY <2>3, <2>4
<1>2. \A p \in Pumps : pc[p] \in Binding => hand[p].event \in Events
  BY DEF TypeOK, Working, Binding, Subscription, Threads
<1>3. \A e \in Events : /\ ups[e].state # "bound" => ups'[e] = ups[e]
                        /\ ups'[e].state \in {"live", "bound", "new"} => ups'[e] = ups[e]
                        /\ ups'[e].state = "dropped" =>
                             ups[e].state = "dropped" \/ (Shared(e) /\ HubClosed')
                        /\ HandleLive(e) => HandleLive(e)' \/ ~Shared(e)
  <2> SUFFICES ASSUME NEW e \in Events
               PROVE  /\ ups[e].state # "bound" => ups'[e] = ups[e]
                      /\ ups'[e].state \in {"live", "bound", "new"} => ups'[e] = ups[e]
                      /\ ups'[e].state = "dropped" =>
                           ups[e].state = "dropped" \/ (Shared(e) /\ HubClosed')
                      /\ HandleLive(e) => HandleLive(e)' \/ ~Shared(e)
    OBVIOUS
  <2>1. /\ [ups[e] EXCEPT !.state = "dropped"].state = "dropped"
        /\ Absent.state = "absent"
    BY <1>1 DEF Absent, Up
  <2> QED  BY <1>1, <2>1 DEF HandleLive
<1>4. Binders'
  <2>1. ASSUME NEW p \in Pumps
        PROVE  /\ pc[p] = "bind" => ups'[hand[p].event].state = "new"
               /\ pc[p] = "store" => ups'[hand[p].event].state = "live"
               /\ pc[p] = "unbind" => \/ ups'[hand[p].event].state = "new"
                                      \/ HubClosed' /\ ups'[hand[p].event].state = "absent"
    <3>1. CASE pc[p] \in Binding
      <4>1. ups[hand[p].event].state # "bound"
        BY <3>1 DEF Quiescence, Binders, Binding
      <4>2. ups'[hand[p].event] = ups[hand[p].event]
        BY <1>2, <1>3, <3>1, <4>1
      <4> QED  BY <1>1, <4>2 DEF Quiescence, Binders
    <3>2. CASE pc[p] \notin Binding
      BY <3>2 DEF Binding
    <3> QED  BY <3>1, <3>2
  <2>2. \A e \in Events :
          ups'[e].state = "live" => \E p \in Pumps : pc[p] = "store" /\ hand[p].event = e
    BY <1>3 DEF Quiescence, Binders
  <2> QED  BY <1>1, <2>1, <2>2 DEF Quiescence, Binders
<1>5. Deliveries'
  <2>1. ASSUME NEW t \in Deliverers, pc[t] \in Delivery
        PROVE  \E e \in Events : evs[t] = {e} /\ HandleLive(e)'
    <3>1. PICK e \in Events : evs[t] = {e} /\ HandleLive(e)
      BY <2>1 DEF Quiescence, Deliveries
    <3>2. Shared(e)
      BY <2>1, <3>1 DEF Shared, Sharing, Delivering, Delivery, Threads
    <3> QED  BY <1>3, <3>1, <3>2
  <2> QED  BY <1>1, <2>1 DEF Quiescence, Deliveries
<1>6. Stopping'
  <2>1. CASE Drain \/ HubClear
    BY <2>1 DEF Drain, HubClear, Advance, Stopping
  <2>2. CASE HubDrop
    <3>1. \A e \in Events : ups'[e].state # "bound"
      BY <1>1, <2>2 DEF HubDrop, Absent, Up
    <3> QED  BY <2>2, <3>1 DEF HubDrop, Advance, Stopping
  <2>3. CASE ClientsClose
    <3>1. /\ stage = "cleared" /\ stage' = "closed" /\ UNCHANGED <<ups, pc>>
          /\ \A t \in Deliverers : pc[t] \notin Losing
      BY <2>3 DEF ClientsClose, Advance, hub, locals, Losing
    <3> QED  BY <3>1 DEF Quiescence, Stopping
  <2>4. CASE PumpStop
    BY <1>1, <2>4 DEF PumpStop, Advance, Quiescence, Stopping, hub
  <2>5. CASE PumpJoin
    BY <1>1, <2>5 DEF PumpJoin, Advance, Quiescence, Stopping, hub
  <2>6. CASE ServerStop
    BY <1>1, <2>6 DEF ServerStop, Advance, Quiescence, Stopping, hub
  <2> QED  BY <2>1, <2>2, <2>3, <2>4, <2>5, <2>6 DEF ShutdownStep
<1>7. Dropping'
  <2>1. \A e \in Events : Shared(e)' <=> Shared(e)
    BY <1>1 DEF Shared, Sharing, Delivering, Leaving
  <2> QED  BY <1>1, <1>3, <2>1 DEF Quiescence, Dropping
<1> QED  BY <1>4, <1>5, <1>6, <1>7 DEF Quiescence

LEMMA NextQuiescence ==
  ASSUME TypeOK, Quiescence, [Next]_vars
  PROVE  Quiescence'
<1>1. CASE UNCHANGED vars
  BY <1>1 DEF vars, tables, hub, locals, Quiescence, Binders, Deliveries, Dropping, Stopping,
              HubClosed, HandleLive, Shared, Sharing, Delivering, Leaving
<1>2. CASE Next
  <2>1. CASE Rest
    BY <1>1, <2>1 DEF Rest
  <2>2. ASSUME NEW c \in Conns,
               \/ Detach(c) \/ \E i \in Ids : Take(c, i) \/ \E e \in Events : Claim(c, i, e)
        PROVE  Quiescence'
    BY <2>2, RequestQuiescence
  <2>3. ASSUME NEW p \in Pumps, TakeJob(p) \/ JobStep(p)  PROVE Quiescence'
    BY <2>3, JobAloof, AckQuiescence, BindQuiescence DEF JobStep
  <2>4. ASSUME NEW t \in Pumps \cup Deliverers, LossBegin(t) \/ LossStep(t)
        PROVE  Quiescence'
    BY <2>4, LossQuiescence
  <2>5. ASSUME NEW t \in Deliverers, DeliverReads(t) \/ DeliverStep(t)
        PROVE  Quiescence'
    BY <2>5, DeliverQuiescence
  <2> QED
    BY <1>2, <2>1, <2>2, <2>3, <2>4, <2>5, ServiceQuiescence, ShutdownQuiescence DEF Next
<1> QED  BY <1>1, <1>2

LEMMA InitQuiescence == Init => Quiescence
<1> SUFFICES ASSUME Init PROVE Quiescence
  OBVIOUS
<1>1. /\ \A t \in Threads : pc[t] = "idle"
      /\ \A e \in Events : ups[e].state = "absent"
      /\ stage = "running"
  BY DEF Init, Absent
<1>2. \A t \in Pumps \cup Deliverers : pc[t] \notin Binding \cup Delivery
  BY <1>1 DEF Threads, Binding, Delivery
<1> QED  BY <1>1, <1>2 DEF Quiescence, Binders, Deliveries, Dropping, Stopping, Threads

(* BridgeCore::shutdown clears the hub, closes the clients, joins the pump *)
(* and then the service thread.  The clearing waits for no delivery, so as *)
(* the server is destroyed deliveries may be left; but nobody else is, and *)
(* no upstream subscription is, except under a delivery that still runs:   *)
(* neither a bind that was under way as the hub closed nor a thread on its *)
(* way out of add leaves one behind.                                       *)
THEOREM ShutdownLeavesDeliveries == Spec => []OnlyDeliveriesRemain
<1>1. Init => Quiescence
  BY InitQuiescence
<1>2. TypeOK /\ Quiescence /\ [Next]_vars => Quiescence'
  BY NextQuiescence
<1>3. Quiescence => OnlyDeliveriesRemain
  <2> SUFFICES ASSUME Quiescence, stage = "stopped"
               PROVE  /\ \A t \in Threads :
                           pc[t] \in {"idle", "gen", "deliver", "sendEvent", "unsubscribe"}
                      /\ \A e \in Events : HandleLive(e) => ~Quiet(e)
    BY DEF OnlyDeliveriesRemain
  <2>1. pc[svc] = "idle" /\ \A p \in Pumps : pc[p] = "idle"
    BY DEF Quiescence, Stopping
  <2>2. \A u \in Deliverers : pc[u] \in {"idle", "gen", "deliver", "sendEvent", "unsubscribe"}
    BY DEF Quiescence, Stopping, Deliveries, Delivery
  <2>3. ASSUME NEW e \in Events, HandleLive(e)  PROVE ~Quiet(e)
    <3>1. ups[e].state = "dropped"
      BY <2>1, <2>3 DEF Quiescence, Stopping, Binders, HandleLive
    <3>2. PICK t \in Threads : Sharing(t, e)
      BY <3>1 DEF Quiescence, Dropping, Shared
    <3> QED  BY <2>1, <3>2 DEF Sharing, Leaving, Delivering, Quiet
  <2> QED  BY <2>1, <2>2, <2>3 DEF Threads
<1> QED  BY <1>1, <1>2, <1>3, TypeCorrect, PTL DEF Spec

----------------------------------------------------------------------------
(* FreshGeneration.  A subscription joins an Up once, and from then on the *)
(* generation it joined is settled: each number is in one job only until   *)
(* it joins, and everything a delivery reads or sends has joined before.   *)
Awaiting == {"register", "submit", "add"}

Unjoined ==
  /\ \A n \in nextSid..MaxSids : joined[n] = 0
  /\ \A k \in DOMAIN queue : joined[queue[k].sid] = 0
  /\ \A t \in Threads : pc[t] \in Awaiting => joined[hand[t].sid] = 0

JobsOnce ==
  /\ \A k, l \in DOMAIN queue : queue[k].sid = queue[l].sid => k = l
  /\ \A t \in Threads : pc[t] \in Awaiting =>
       /\ \A k \in DOMAIN queue : queue[k].sid # hand[t].sid
       /\ \A u \in Threads : pc[u] \in Awaiting /\ hand[u].sid = hand[t].sid => u = t

Jobs == Unjoined /\ JobsOnce

(* Every number in a job is one that was given out. *)
LEMMA JobSids ==
  ASSUME TypeOK, Generations
  PROVE  /\ \A k \in DOMAIN queue : queue[k] \in Subscription /\ queue[k].sid \in 1..(nextSid - 1)
         /\ \A t \in Threads : pc[t] \in Awaiting =>
              hand[t] \in Subscription /\ hand[t].sid \in 1..(nextSid - 1)
         /\ nextSid \in 1..(MaxSids + 1) /\ MaxSids \in Nat
<1>1. queue \in Seq(Subscription) /\ nextSid \in 1..(MaxSids + 1) /\ MaxSids \in Nat
  BY BoundsAssumption DEF TypeOK
<1>2. \A k \in DOMAIN queue : queue[k] \in Subscription
  BY <1>1
<1>3. \A t \in Threads : pc[t] \in Awaiting => hand[t] \in Subscription
  BY DEF TypeOK, Awaiting, Working
<1>4. \A s \in Known : s.sid \in 1..(nextSid - 1)
  BY DEF Generations, SidsName
<1> QED  BY <1>1, <1>2, <1>3, <1>4, KnownParts

(* A step that hands no job on. *)
LEMMA JobsAside ==
  ASSUME Jobs, UNCHANGED <<queue, nextSid, joined>>,
         \A t \in Threads : pc'[t] \in Awaiting => pc[t] \in Awaiting /\ hand'[t] = hand[t]
  PROVE  Jobs'
BY DEF Jobs, Unjoined, JobsOnce

LEMMA ClaimJobs ==
  ASSUME TypeOK, Generations, Jobs, NEW c \in Conns, NEW i \in Ids, NEW e \in Events,
         Claim(c, i, e)
  PROVE  Jobs'
<1>1. /\ svc \in Threads /\ pc[svc] = "idle" /\ nextSid' = nextSid + 1
      /\ UNCHANGED <<queue, joined>> /\ nextSid <= MaxSids
      /\ pc = [t \in Threads |-> pc[t]] /\ hand = [t \in Threads |-> hand[t]]
  BY DEF Claim, Serving, hub, Threads, TypeOK
<1>2. joined[nextSid] = 0 /\ \A n \in nextSid'..MaxSids : joined[n] = 0
  BY <1>1, JobSids DEF Jobs, Unjoined
<1>3. CASE UNCHANGED <<pc, hand>>
  BY <1>1, <1>2, <1>3 DEF Jobs, Unjoined, JobsOnce
<1>4. CASE /\ pc' = [pc EXCEPT ![svc] = "register"]
           /\ hand' = [hand EXCEPT ![svc] = Fresh(c, i, e)]
  <2>1. /\ pc'[svc] = "register" /\ hand'[svc].sid = nextSid
        /\ \A t \in Threads \ {svc} : pc'[t] = pc[t] /\ hand'[t] = hand[t]
    BY <1>1, <1>4 DEF Fresh
  <2>2. /\ \A k \in DOMAIN queue : queue[k].sid # nextSid
        /\ \A t \in Threads : pc[t] \in Awaiting => hand[t].sid # nextSid
    BY JobSids
  <2>3. Unjoined'
    BY <1>1, <1>2, <2>1 DEF Jobs, Unjoined
  <2>4. JobsOnce'
    BY <1>1, <2>1, <2>2 DEF Jobs, JobsOnce
  <2> QED  BY <2>3, <2>4 DEF Jobs
<1> QED  BY <1>3, <1>4 DEF Claim, Goto

LEMMA SubmitJobs ==
  ASSUME TypeOK, Generations, Jobs, Submit
  PROVE  Jobs'
<1>1. /\ svc \in Threads /\ pc[svc] = "submit" /\ UNCHANGED <<nextSid, joined>>
      /\ pc = [t \in Threads |-> pc[t]] /\ hand = [t \in Threads |-> hand[t]]
      /\ hand[svc] \in Subscription /\ queue \in Seq(Subscription)
  BY DEF Submit, hub, Threads, TypeOK, Working
<1>2. CASE queue' = queue /\ pc' = [pc EXCEPT ![svc] = "abandonErase"] /\ hand' = hand
  BY <1>1, <1>2, JobsAside DEF Awaiting
<1>3. CASE /\ queue' = Append(queue, hand[svc]) /\ pc' = [pc EXCEPT ![svc] = "idle"]
           /\ hand' = [hand EXCEPT ![svc] = NoSub]
  <2>1. /\ pc'[svc] \notin Awaiting
        /\ \A t \in Threads \ {svc} : pc'[t] = pc[t] /\ hand'[t] = hand[t]
    BY <1>1, <1>3 DEF Awaiting
  <2>2. \A k \in DOMAIN queue' :
          \/ k \in DOMAIN queue /\ queue'[k] = queue[k]
          \/ k = Len(queue) + 1 /\ queue'[k] = hand[svc]
    BY <1>1, <1>3
  <2>3. pc[svc] \in Awaiting
    BY <1>1 DEF Awaiting
  <2>4. Unjoined'
    BY <1>1, <2>1, <2>2, <2>3 DEF Jobs, Unjoined
  <2>5. JobsOnce'
    <3>1. ASSUME NEW k \in DOMAIN queue', NEW l \in DOMAIN queue', queue'[k].sid = queue'[l].sid
          PROVE  k = l
      BY <1>1, <2>2, <2>3, <3>1 DEF Jobs, JobsOnce
    <3>2. ASSUME NEW t \in Threads, pc'[t] \in Awaiting
          PROVE  /\ \A k \in DOMAIN queue' : queue'[k].sid # hand'[t].sid
                 /\ \A u \in Threads : pc'[u] \in Awaiting /\ hand'[u].sid = hand'[t].sid => u = t
      BY <1>1, <2>1, <2>2, <2>3, <3>2 DEF Jobs, JobsOnce
    <3> QED  BY <3>1, <3>2 DEF JobsOnce
  <2> QED  BY <2>4, <2>5 DEF Jobs
<1> QED  BY <1>2, <1>3 DEF Submit, Return, Goto

LEMMA TakeJobJobs ==
  ASSUME TypeOK, Generations, Jobs, NEW p \in Pumps, TakeJob(p)
  PROVE  Jobs'
<1>1. /\ p \in Threads /\ pc[p] = "idle" /\ UNCHANGED <<nextSid, joined>> /\ queue # << >>
      /\ pc = [t \in Threads |-> pc[t]] /\ hand = [t \in Threads |-> hand[t]]
      /\ queue \in Seq(Subscription) /\ queue' = Tail(queue)
      /\ pc' = [pc EXCEPT ![p] = "add"] /\ hand' = [hand EXCEPT ![p] = Head(queue)]
  BY DEF TakeJob, hub, Threads, TypeOK, Goto
<1>2. /\ pc'[p] = "add" /\ hand'[p] = queue[1] /\ 1 \in DOMAIN queue
      /\ \A t \in Threads \ {p} : pc'[t] = pc[t] /\ hand'[t] = hand[t]
  BY <1>1
<1>3. \A k \in DOMAIN queue' : k \in Nat /\ k # 0 /\ k + 1 \in DOMAIN queue /\ queue'[k] = queue[k + 1]
  BY <1>1
<1>4. Unjoined'
  BY <1>1, <1>2, <1>3 DEF Jobs, Unjoined
<1>5. JobsOnce'
  <2>1. ASSUME NEW k \in DOMAIN queue', NEW l \in DOMAIN queue', queue'[k].sid = queue'[l].sid
        PROVE  k = l
    <3>1. k + 1 = l + 1
      BY <1>3, <2>1 DEF Jobs, JobsOnce
    <3> QED  BY <1>3, <3>1
  <2>2. \A k \in DOMAIN queue' : queue'[k].sid # queue[1].sid
    <3> SUFFICES ASSUME NEW k \in DOMAIN queue', queue'[k].sid = queue[1].sid PROVE FALSE
      OBVIOUS
    <3>1. k + 1 = 1
      BY <1>2, <1>3 DEF Jobs, JobsOnce
    <3> QED  BY <1>3, <3>1
  <2>3. \A t \in Threads \ {p} : pc[t] \in Awaiting => hand[t].sid # queue[1].sid
    BY <1>2 DEF Jobs, JobsOnce
  <2>4. \A t \in Threads \ {p} : \A k \in DOMAIN queue' :
          pc[t] \in Awaiting => queue'[k].sid # hand[t].sid
    BY <1>3 DEF Jobs, JobsOnce
  <2> QED  BY <1>2, <2>1, <2>2, <2>3, <2>4 DEF Jobs, JobsOnce
<1> QED  BY <1>4, <1>5 DEF Jobs

LEMMA HubAddJobs ==
  ASSUME TypeOK, Generations, Jobs, NEW p \in Pumps, HubAdd(p)
  PROVE  Jobs'
<1>1. /\ p \in Threads /\ pc[p] = "add" /\ UNCHANGED <<queue, nextSid, hand>>
      /\ pc = [t \in Threads |-> pc[t]] /\ joined = [n \in 1..MaxSids |-> joined[n]]
  BY DEF HubAdd, Threads, TypeOK, tables
<1>2. /\ pc'[p] \notin Awaiting
      /\ \A t \in Threads \ {p} : pc'[t] = pc[t]
  BY <1>1 DEF HubAdd, Goto, Awaiting
<1>3. \A n \in 1..MaxSids : n # hand[p].sid => joined'[n] = joined[n]
  BY <1>1 DEF HubAdd, hub
<1>4. /\ pc[p] \in Awaiting
      /\ \A n \in nextSid..MaxSids : n # hand[p].sid /\ n \in 1..MaxSids
      /\ \A k \in DOMAIN queue : queue[k].sid \in 1..MaxSids
      /\ \A t \in Threads : pc[t] \in Awaiting => hand[t].sid \in 1..MaxSids
  BY <1>1, JobSids DEF Awaiting
<1>5. Unjoined'
  BY <1>1, <1>2, <1>3, <1>4 DEF Jobs, Unjoined, JobsOnce
<1>6. JobsOnce'
  BY <1>1, <1>2 DEF Jobs, JobsOnce
<1> QED  BY <1>5, <1>6 DEF Jobs

LEMMA NextJobs ==
  ASSUME TypeOK, Generations, Jobs, [Next]_vars
  PROVE  Jobs'
<1>1. /\ svc \in Threads /\ pc = [t \in Threads |-> pc[t]] /\ hand = [t \in Threads |-> hand[t]]
      /\ \A t \in Pumps \cup Deliverers : t \in Threads
  BY DEF Threads, TypeOK
<1>2. CASE UNCHANGED vars \/ Rest
  BY <1>2, JobsAside DEF vars, tables, hub, locals, Rest
<1>3. ASSUME NEW c \in Conns, NEW i \in Ids, Take(c, i) \/ \E e \in Events : Claim(c, i, e)
      PROVE  Jobs'
  <2>1. CASE Take(c, i)
    <3>1. /\ UNCHANGED <<queue, nextSid, joined>> /\ pc' = [pc EXCEPT ![svc] = "unsubErase"]
          /\ \E s : hand' = [hand EXCEPT ![svc] = s]
      BY <2>1 DEF Take, hub, Goto
    <3> QED  BY <1>1, <3>1, JobsAside DEF Awaiting
  <2> QED  BY <1>3, <2>1, ClaimJobs
<1>4. ASSUME NEW c \in Conns, Detach(c)  PROVE Jobs'
  BY <1>1, <1>4, JobsAside DEF Detach, hub, Goto, Awaiting
<1>5. CASE ServiceStep
  <2>1. CASE Register
    BY <1>1, <2>1, JobsAside DEF Register, hub, Goto, Awaiting
  <2>4. CASE BodyDone
    BY <2>4, JobsAside DEF BodyDone, tables, hub, locals
  <2>2. CASE ServiceStep /\ ~Register /\ ~Submit /\ ~CloseHub /\ ~BodyDone
    <3>1. /\ UNCHANGED <<queue, nextSid, joined>>
          /\ \E l \in Labels \ Awaiting : pc' = [pc EXCEPT ![svc] = l]
          /\ \E s : hand' = hand \/ hand' = [hand EXCEPT ![svc] = s]
      BY <2>2 DEF ServiceStep, UnsubErase, UnsubHub, UnsubAck, CloseErase, Abandon,
                  AbandonErase, AbandonRelease, Refuse, Goto, Return, tables, hub, Labels, Awaiting
    <3>2. \A t \in Threads : pc'[t] \in Awaiting => pc[t] \in Awaiting /\ hand'[t] = hand[t]
      BY <1>1, <3>1
    <3> QED  BY <3>1, <3>2, JobsAside
  <2>3. CASE CloseHub
    <3>1. /\ UNCHANGED <<queue, nextSid, joined>>
          /\ \/ UNCHANGED <<pc, hand>>
             \/ pc' = [pc EXCEPT ![svc] = "idle"] /\ hand' = [hand EXCEPT ![svc] = NoSub]
      BY <2>3 DEF CloseHub, Goto, Return, tables
    <3> QED  BY <1>1, <3>1, JobsAside DEF Awaiting
  <2> QED  BY <1>5, <2>1, <2>2, <2>3, <2>4, SubmitJobs
<1>6. ASSUME NEW p \in Pumps, TakeJob(p) \/ JobStep(p)  PROVE Jobs'
  <2>1. CASE JobStep(p) /\ ~HubAdd(p)
    <3>1. /\ UNCHANGED <<queue, nextSid, joined>>
          /\ \E l \in Labels \ Awaiting : pc' = [pc EXCEPT ![p] = l]
          /\ \E s : hand' = hand \/ hand' = [hand EXCEPT ![p] = s]
      BY <2>1 DEF JobStep, BindSubscribe, BindStore, Unbind, Ack, Abandon, AbandonErase,
                  AbandonRelease, Refuse, Goto, Return, tables, hub, Labels, Awaiting
    <3>2. \A t \in Threads : pc'[t] \in Awaiting => pc[t] \in Awaiting /\ hand'[t] = hand[t]
      BY <1>1, <3>1
    <3> QED  BY <3>1, <3>2, JobsAside
  <2> QED  BY <1>6, <2>1, TakeJobJobs, HubAddJobs
<1>7. ASSUME NEW t \in Pumps \cup Deliverers,
             \/ LossBegin(t) \/ LossStep(t)
             \/ t \in Deliverers /\ (DeliverReads(t) \/ DeliverStep(t))
      PROVE  Jobs'
  <2>1. /\ UNCHANGED <<queue, nextSid, joined>> /\ pc[t] \notin Awaiting
        /\ \E l \in Labels \ Awaiting : pc' = [pc EXCEPT ![t] = l] \/ pc' = pc
        /\ \E s : hand' = hand \/ hand' = [hand EXCEPT ![t] = s]
    BY <1>7 DEF LossBegin, LossStep, LossTake, LossErase, LossRelease, LossSend, LossDone,
                DeliverReads, DeliverSubscribers, DeliverGeneration, DeliverStep, DeliverLookup,
                DeliverSend, DeliverDone, DeliverLast, Unsubscribed, Goto, Return, tables, hub,
                Labels, Awaiting
  <2>2. \A u \in Threads : pc'[u] \in Awaiting => pc[u] \in Awaiting /\ hand'[u] = hand[u]
    BY <1>1, <1>7, <2>1
  <2> QED  BY <2>1, <2>2, JobsAside
<1>8. CASE Drain \/ ShutdownStep
  <2>1. CASE PumpStop
    BY <2>1 DEF PumpStop, hub, locals, Jobs, Unjoined, JobsOnce
  <2>2. CASE ~PumpStop
    BY <1>8, <2>2, JobsAside
    DEF Drain, ShutdownStep, HubClear, HubDrop, ClientsClose, PumpJoin, ServerStop, tables, hub,
        locals
  <2> QED  BY <2>1, <2>2
<1> QED  BY <1>2, <1>3, <1>4, <1>5, <1>6, <1>7, <1>8 DEF Next

(* What a number has joined, it has joined: only a job's own is written.  *)
LEMMA JoinedOnce ==
  ASSUME TypeOK, Generations, Jobs, [Next]_vars
  PROVE  \A n \in 1..MaxSids : joined[n] # 0 => joined'[n] = joined[n]
<1>1. ASSUME NEW p \in Pumps, HubAdd(p)
      PROVE  \A n \in 1..MaxSids : joined[n] # 0 => joined'[n] = joined[n]
  <2>1. joined = [n \in 1..MaxSids |-> joined[n]]
    BY DEF TypeOK
  <2>2. \A n \in 1..MaxSids : n # hand[p].sid => joined'[n] = joined[n]
    BY <1>1, <2>1 DEF HubAdd, hub
  <2>3. joined[hand[p].sid] = 0
    BY <1>1 DEF HubAdd, Jobs, Unjoined, Awaiting, Threads
  <2> QED  BY <2>2, <2>3
<1>2. CASE ~\E p \in Pumps : HubAdd(p)
  <2>1. joined' = joined
    BY <1>2 DEF Next, vars, Take, Claim, Detach, ServiceStep, Register, Submit, UnsubErase,
        UnsubHub, UnsubAck, CloseErase, CloseHub, Abandon, AbandonErase, AbandonRelease, Refuse,
        TakeJob, JobStep, BindSubscribe, BindStore, Unbind, Ack, LossBegin, LossStep, LossTake,
        LossErase, LossRelease, LossSend, LossDone, DeliverReads, DeliverSubscribers,
        DeliverGeneration, DeliverStep, DeliverLookup, DeliverSend, DeliverDone, DeliverLast,
        Unsubscribed, BodyDone, Drain, ShutdownStep, HubClear, HubDrop, ClientsClose, PumpStop,
        PumpJoin, ServerStop, Rest, hub
  <2> QED  BY <2>1
<1> QED  BY <1>1, <1>2

(* The steps that write no Up. *)
LEMMA OtherUps ==
  ASSUME [Next]_vars,
         ~\E p \in Pumps : HubAdd(p) \/ BindSubscribe(p) \/ BindStore(p) \/ Unbind(p),
         ~\E t \in Threads : LossTake(t) \/ Ack(t) \/ DeliverLast(t),
         ~UnsubHub, ~CloseHub, ~HubDrop
  PROVE  ups' = ups
BY DEF Next, vars, Take, Claim, Detach, ServiceStep, Register, Submit, UnsubErase, UnsubAck,
   BodyDone, CloseErase, Abandon, AbandonErase, AbandonRelease, Refuse, TakeJob, JobStep, LossBegin,
   LossStep, LossErase, LossRelease, LossSend, LossDone, DeliverReads, DeliverSubscribers,
   DeliverGeneration, DeliverStep, DeliverLookup, DeliverSend, DeliverDone, Unsubscribed, Drain,
   ShutdownStep, HubClear, ClientsClose, PumpStop, PumpJoin, ServerStop, Rest, hub, Threads

(* A thread that lets go of an Up it shares with nobody. *)
LEMMA LetGo ==
  ASSUME TypeOK, NEW t \in Threads, Ack(t) \/ DeliverLast(t), NEW e \in Events
  PROVE  ups'[e] = ups[e] \/ (ups'[e] = Absent /\ LastOf(t, e))
BY DEF Ack, DeliverLast, TypeOK

(* The generation of an Up only grows, from 1; it starts again only when   *)
(* the Up is made anew, and no delivery is under way then but the one that *)
(* lets go of it last.                                                     *)
Counted == \A e \in Events : ups[e].gen >= 1

LEMMA GenerationsGrow ==
  ASSUME TypeOK, Quiescence, Counted, [Next]_vars, \A t \in Threads : ~DeliverLast(t)
  PROVE  \A e \in Events : /\ ups'[e].gen >= 1
                           /\ ups'[e].gen >= ups[e].gen \/ Quiet(e)
<1>1. ups \in [Events -> Up] /\ \A e \in Events : ups[e].gen \in Nat /\ ups[e].gen >= 1
  BY DEF TypeOK, Counted, Up
<1>2. ASSUME NEW e \in Events, ~HandleLive(e)  PROVE Quiet(e)
  BY <1>2 DEF Quiescence, Deliveries, Quiet, Delivering, Delivery
<1>3. ASSUME NEW e \in Events, ups'[e] = ups[e]
      PROVE  ups'[e].gen >= 1 /\ ups'[e].gen >= ups[e].gen
  BY <1>1, <1>3
<1>4. ASSUME NEW p \in Pumps, HubAdd(p) \/ BindSubscribe(p) \/ BindStore(p) \/ Unbind(p), NEW e \in Events
      PROVE  ups'[e].gen >= 1 /\ (ups'[e].gen >= ups[e].gen \/ Quiet(e))
  <2>1. hand[p].event \in Events /\ ups[e] \in Up /\ ups[hand[p].event] \in Up
    BY <1>1, <1>4 DEF TypeOK, Threads, HubAdd, BindSubscribe, BindStore, Unbind, Working, Subscription
  <2>2. CASE HubAdd(p)
    <3>1. \/ ups' = ups
          \/ ~HubClosed /\ ups' = [ups EXCEPT ![hand[p].event] = Joined(hand[p].event, hand[p])]
      BY <2>2 DEF HubAdd, hub
    <3>2. CASE ups'[e] = ups[e]
      BY <1>3, <3>2
    <3>3. CASE ups'[e] = Joined(e, hand[p]) /\ ~HubClosed
      <4>1. CASE Present(e)
        <5>1. Joined(e, hand[p]).gen = ups[e].gen
          BY <2>1, <4>1 DEF Joined, Up
        <5> QED  BY <1>1, <3>3, <5>1
      <4>2. CASE ~Present(e)
        <5>1. Joined(e, hand[p]).gen = 1 /\ Quiet(e)
          BY <1>2, <3>3, <4>2 DEF Joined, Present, HandleLive
        <5> QED  BY <3>3, <5>1
      <4> QED  BY <4>1, <4>2
    <3> QED  BY <1>1, <2>1, <3>1, <3>2, <3>3
  <2>3. CASE BindSubscribe(p) \/ BindStore(p)
    <3>1. \/ ups'[e] = ups[e]
          \/ ups'[e] = [ups[e] EXCEPT !.state = "live"]
          \/ ups'[e] = [ups[e] EXCEPT !.state = "bound"]
          \/ ups'[e] = Absent /\ Quiet(e)
      BY <1>1, <2>1, <2>3 DEF BindSubscribe, BindStore
    <3>2. /\ [ups[e] EXCEPT !.state = "live"].gen = ups[e].gen
          /\ [ups[e] EXCEPT !.state = "bound"].gen = ups[e].gen
      BY <2>1 DEF Up
    <3>3. Absent.gen = 1
      BY DEF Absent
    <3>4. ups'[e].gen = ups[e].gen \/ (ups'[e].gen = 1 /\ Quiet(e))
      BY <3>1, <3>2, <3>3
    <3> QED  BY <1>1, <3>4
  <2>4. CASE Unbind(p)
    <3>1. ups'[e] = ups[e] \/ (ups'[e] = Absent /\ e = hand[p].event)
      BY <1>1, <2>1, <2>4 DEF Unbind
    <3>2. ~HandleLive(hand[p].event)
      BY <2>4 DEF Unbind, Quiescence, Binders, HandleLive
    <3>3. Absent.gen = 1
      BY DEF Absent
    <3> QED  BY <1>1, <1>2, <2>1, <3>1, <3>2, <3>3
  <2> QED  BY <1>4, <2>2, <2>3, <2>4
<1>5. ASSUME NEW t \in Threads, LossTake(t), NEW e \in Events
      PROVE  ups'[e].gen >= 1 /\ ups'[e].gen >= ups[e].gen
  <2>1. ups[e] \in Up
    BY <1>1
  <2>2. ups'[e] = ups[e] \/ ups'[e] = [[ups[e] EXCEPT !.gen = @ + 1] EXCEPT !.ids = {}]
    <3>1. PICK f : UNCHANGED ups \/ ups' = [ups EXCEPT ![f].gen = @ + 1, ![f].ids = {}]
      BY <1>5 DEF LossTake
    <3>2. CASE UNCHANGED ups
      BY <3>2
    <3>3. CASE ups' = [ups EXCEPT ![f].gen = @ + 1, ![f].ids = {}]
      BY <1>1, <3>3
    <3> QED  BY <3>1, <3>2, <3>3
  <2>3. [[ups[e] EXCEPT !.gen = @ + 1] EXCEPT !.ids = {}].gen = ups[e].gen + 1
    BY <2>1 DEF Up
  <2>4. ups'[e].gen = ups[e].gen \/ ups'[e].gen = ups[e].gen + 1
    BY <2>2, <2>3
  <2> QED  BY <1>1, <2>4
<1>6. ASSUME UnsubHub \/ CloseHub, NEW e \in Events
      PROVE  ups'[e].gen >= 1 /\ ups'[e].gen >= ups[e].gen
  <2>1. ups[e] \in Up
    BY <1>1
  <2>2. ups'[e] = ups[e] \/ \E s : ups'[e] = [ups[e] EXCEPT !.ids = @ \ {s}]
    BY <1>1, <1>6 DEF UnsubHub, CloseHub
  <2>3. \A s : [ups[e] EXCEPT !.ids = @ \ {s}].gen = ups[e].gen
    BY <2>1 DEF Up
  <2>4. ups'[e].gen = ups[e].gen
    BY <2>2, <2>3
  <2> QED  BY <1>1, <2>4
<1>7. CASE HubDrop
  <2>1. \A e \in Events : \/ ups'[e] = ups[e]
                          \/ ups'[e] = [ups[e] EXCEPT !.state = "dropped"]
                          \/ ups'[e] = Absent /\ ~Shared(e)
    BY <1>1, <1>7 DEF HubDrop
  <2>2. \A e \in Events : [ups[e] EXCEPT !.state = "dropped"].gen = ups[e].gen
    BY <1>1 DEF Up
  <2>3. \A e \in Events : ~Shared(e) => Quiet(e)
    BY DEF Shared, Sharing, Quiet, Threads
  <2>4. Absent.gen = 1
    BY DEF Absent
  <2>5. ASSUME NEW e \in Events
        PROVE  ups'[e].gen >= 1 /\ (ups'[e].gen >= ups[e].gen \/ Quiet(e))
    <3>1. CASE ups'[e] = ups[e]
      BY <1>3, <3>1
    <3>2. CASE ups'[e] = [ups[e] EXCEPT !.state = "dropped"]
      <4>1. ups'[e].gen = ups[e].gen
        BY <2>2, <3>2
      <4> QED  BY <1>1, <4>1
    <3>3. CASE ups'[e] = Absent /\ ~Shared(e)
      BY <2>3, <2>4, <3>3
    <3> QED  BY <2>1, <3>1, <3>2, <3>3
  <2> QED  BY <2>5
<1>9. ASSUME NEW p \in Threads, Ack(p), NEW e \in Events
      PROVE  ups'[e].gen >= 1 /\ (ups'[e].gen >= ups[e].gen \/ Quiet(e))
  <2>1. CASE ups'[e] = ups[e]
    BY <1>3, <2>1
  <2>2. CASE ups'[e] = Absent /\ LastOf(p, e)
    <3>1. Absent.gen = 1
      BY DEF Absent
    <3>2. ~Delivering(p, e)
      BY <1>9 DEF Ack, Delivering
    <3>3. Quiet(e)
      BY <2>2, <3>2 DEF LastOf, Sharing, Quiet, Threads
    <3> QED  BY <2>2, <3>1, <3>3
  <2> QED  BY <1>9, <2>1, <2>2, LetGo
<1>8. CASE /\ ~\E p \in Pumps : HubAdd(p) \/ BindSubscribe(p) \/ BindStore(p) \/ Unbind(p)
           /\ ~\E t \in Threads : LossTake(t) \/ Ack(t) \/ DeliverLast(t)
           /\ ~UnsubHub /\ ~CloseHub /\ ~HubDrop
  BY <1>3, <1>8, OtherUps
<1> QED  BY <1>4, <1>5, <1>6, <1>7, <1>8, <1>9

(* A subscription that joined a generation no later than g. *)
Within(s, g) == s.sid \in 1..MaxSids /\ joined[s.sid] \in 1..g

(* What a delivery has read joined no later than the generation it reads, *)
(* and so did what it sends.                                              *)
Reading ==
  \A t \in Deliverers :
    /\ pc[t] = "gen" => \A e \in evs[t] : \A s \in todo[t] : Within(s, ups[e].gen)
    /\ pc[t] \in {"deliver", "sendEvent"} => \A s \in todo[t] : Within(s, gen[t])
    /\ pc[t] = "sendEvent" => Within(hand[t], gen[t])

EventsSent == \A c \in Conns : \A k \in DOMAIN out[c] :
  out[c][k].kind = "event" => Within(out[c][k].sub, out[c][k].gen)

Freshness == Counted /\ Reading /\ EventsSent

(* A step that sends no event, and is no step of a delivery. *)
LEMMA NoDelivery ==
  ASSUME TypeOK, Generations, Jobs, Quiescence, Freshness, [Next]_vars,
         \A t \in Deliverers :
           \/ /\ pc'[t] = pc[t] /\ hand'[t] = hand[t] /\ evs'[t] = evs[t]
              /\ todo'[t] = todo[t] /\ gen'[t] = gen[t]
           \/ pc'[t] \notin Delivery \cup {"unsubscribe"},
         \A c \in Conns : \A k \in DOMAIN out'[c] :
           \/ k \in DOMAIN out[c] /\ out'[c][k] = out[c][k]
           \/ out'[c][k].kind # "event"
  PROVE  Freshness'
<1>1. /\ joined \in [1..MaxSids -> Nat] /\ gen \in [Threads -> Nat]
      /\ \A e \in Events : ups[e].gen \in Nat
      /\ \A t \in Deliverers : t \in Threads /\ evs[t] \subseteq Events
  BY DEF TypeOK, Threads, Up
<1>2. \A n \in 1..MaxSids : joined[n] # 0 => joined'[n] = joined[n]
  BY JoinedOnce
<1>8. \A t \in Threads : ~DeliverLast(t)
  <2> SUFFICES ASSUME NEW t \in Threads, DeliverLast(t) PROVE FALSE
    OBVIOUS
  <2>1. t \in Deliverers /\ pc[t] = "deliver" /\ pc'[t] = "unsubscribe"
    <3>1. pc \in [Threads -> Labels]
      BY DEF TypeOK
    <3>2. PICK e \in Events : LastOf(t, e)
      BY DEF DeliverLast
    <3> QED  BY <3>1, <3>2 DEF DeliverLast, Goto, LastOf, Sharing, Delivering, Leaving
  <2> QED  BY <2>1
<1>3. \A e \in Events : ups'[e].gen >= 1 /\ (ups'[e].gen >= ups[e].gen \/ Quiet(e))
  BY <1>8, GenerationsGrow DEF Freshness
<1>4. \A e \in Events : ups'[e].gen \in Nat
  BY NextType DEF TypeOK, Up
<1>5. Counted'
  BY <1>3 DEF Counted
<1>6. EventsSent'
  <2> SUFFICES ASSUME NEW c \in Conns, NEW k \in DOMAIN out'[c], out'[c][k].kind = "event"
               PROVE  Within(out[c][k].sub, out[c][k].gen)'
    BY DEF EventsSent
  <2>1. /\ k \in DOMAIN out[c] /\ out'[c][k] = out[c][k]
        /\ Within(out[c][k].sub, out[c][k].gen)
    BY DEF Freshness, EventsSent
  <2> QED  BY <1>1, <1>2, <2>1 DEF Within
<1>7. Reading'
  <2> SUFFICES ASSUME NEW t \in Deliverers, pc'[t] \in Delivery
               PROVE  /\ pc'[t] = "gen" => \A e \in evs'[t] : \A s \in todo'[t] : Within(s, ups[e].gen)'
                      /\ pc'[t] \in {"deliver", "sendEvent"} => \A s \in todo'[t] : Within(s, gen[t])'
                      /\ pc'[t] = "sendEvent" => Within(hand[t], gen[t])'
    BY DEF Reading, Delivery
  <2>1. /\ pc'[t] = pc[t] /\ hand'[t] = hand[t] /\ evs'[t] = evs[t]
        /\ todo'[t] = todo[t] /\ gen'[t] = gen[t]
    OBVIOUS
  <2>2. ASSUME pc[t] = "gen", NEW e \in evs[t], NEW s \in todo[t]  PROVE Within(s, ups[e].gen)'
    <3>1. e \in Events /\ ~Quiet(e)
      BY <1>1, <2>2 DEF Quiet, Delivering
    <3>2. Within(s, ups[e].gen) /\ ups'[e].gen >= ups[e].gen
      BY <1>3, <2>2, <3>1 DEF Freshness, Reading
    <3> QED  BY <1>1, <1>2, <1>4, <3>1, <3>2 DEF Within
  <2>3. ASSUME pc[t] \in {"deliver", "sendEvent"}, NEW s \in todo[t]  PROVE Within(s, gen[t])'
    <3>1. Within(s, gen[t])
      BY <2>3 DEF Freshness, Reading
    <3> QED  BY <1>1, <1>2, <2>1, <3>1 DEF Within
  <2>4. ASSUME pc[t] = "sendEvent"  PROVE Within(hand[t], gen[t])'
    <3>1. Within(hand[t], gen[t])
      BY <2>4 DEF Freshness, Reading
    <3> QED  BY <1>1, <1>2, <2>1, <3>1 DEF Within
  <2> QED  BY <2>1, <2>2, <2>3, <2>4
<1> QED  BY <1>5, <1>6, <1>7 DEF Freshness

(* The subscribers are read first, and the generation after: whoever is in *)
(* the Up joined it in its generation, and that only grows under the read. *)
LEMMA DeliverFresh ==
  ASSUME TypeOK, Generations, Freshness, NEW t \in Deliverers,
         DeliverReads(t) \/ DeliverStep(t)
  PROVE  Freshness'
<1>1. /\ t \in Threads /\ joined \in [1..MaxSids -> Nat] /\ ups \in [Events -> Up]
      /\ \A e \in Events : ups[e].gen \in Nat
      /\ pc = [u \in Threads |-> pc[u]] /\ hand = [u \in Threads |-> hand[u]]
      /\ evs = [u \in Threads |-> evs[u]] /\ todo = [u \in Threads |-> todo[u]]
      /\ gen \in [Threads -> Nat]
      /\ \A u \in Deliverers : u \in Threads /\ evs[u] \subseteq Events
  BY DEF TypeOK, Threads, Up
<1>2. joined' = joined /\ (~DeliverLast(t) => ups' = ups)
  BY DEF DeliverReads, DeliverStep, DeliverSubscribers, DeliverGeneration, DeliverLookup,
         DeliverSend, DeliverDone, DeliverLast, Unsubscribed, hub
<1>3. Counted'
  <2> SUFFICES ASSUME NEW e \in Events PROVE ups'[e].gen >= 1
    BY DEF Counted
  <2>1. ups'[e] = ups[e] \/ ups'[e] = Absent
    BY <1>1, <1>2, LetGo
  <2>2. Absent.gen = 1 /\ ups[e].gen >= 1
    BY DEF Absent, Freshness, Counted
  <2> QED  BY <2>1, <2>2
<1>4. \A u \in Deliverers \ {t} :
        /\ pc'[u] = pc[u] /\ hand'[u] = hand[u] /\ evs'[u] = evs[u]
        /\ todo'[u] = todo[u] /\ gen'[u] = gen[u]
  BY <1>1 DEF DeliverReads, DeliverStep, DeliverSubscribers, DeliverGeneration, DeliverLookup,
         DeliverSend, DeliverDone, DeliverLast, Unsubscribed, Goto, Return
<1>12. ASSUME NEW u \in Deliverers \ {t}, pc[u] = "gen", NEW e \in evs[u]
       PROVE  ups'[e] = ups[e]
  <2>1. e \in Events /\ u \in Threads /\ Sharing(u, e)
    BY <1>1, <1>12 DEF Sharing, Delivering
  <2>2. ~LastOf(t, e)
    BY <2>1 DEF LastOf
  <2> QED  BY <1>1, <1>2, <2>1, <2>2, LetGo
<1>13. ASSUME pc'[t] \notin Delivery  PROVE Reading'
  <2> SUFFICES ASSUME NEW u \in Deliverers
               PROVE  /\ pc'[u] = "gen" => \A e \in evs'[u] : \A s \in todo'[u] : Within(s, ups[e].gen)'
                      /\ pc'[u] \in {"deliver", "sendEvent"} =>
                           \A s \in todo'[u] : Within(s, gen[u])'
                      /\ pc'[u] = "sendEvent" => Within(hand[u], gen[u])'
    BY DEF Reading
  <2>1. CASE u = t
    BY <1>13, <2>1 DEF Delivery
  <2>2. CASE u # t
    <3>1. /\ pc'[u] = pc[u] /\ hand'[u] = hand[u] /\ evs'[u] = evs[u]
          /\ todo'[u] = todo[u] /\ gen'[u] = gen[u]
      BY <1>4, <2>2
    <3>2. pc[u] = "gen" => \A e \in evs[u] : ups'[e] = ups[e]
      BY <1>12, <2>2
    <3> QED  BY <1>2, <3>1, <3>2 DEF Freshness, Reading, Within
  <2> QED  BY <2>1, <2>2
<1>5. ASSUME ~DeliverLast(t),
             \/ pc'[t] \notin Delivery
             \/ pc'[t] = "gen" /\ \A e \in evs'[t] : \A s \in todo'[t] : Within(s, ups[e].gen)
             \/ pc'[t] = "deliver" /\ \A s \in todo'[t] : Within(s, gen'[t])
             \/ pc'[t] = "sendEvent" /\ Within(hand'[t], gen'[t]) /\ \A s \in todo'[t] : Within(s, gen'[t])
      PROVE  Reading'
  BY <1>1, <1>2, <1>4, <1>5 DEF Freshness, Reading, Within, Delivery
<1>6. CASE DeliverSubscribers(t)
  <2>1. PICK e \in Events : /\ evs' = [evs EXCEPT ![t] = {e}] /\ todo' = [todo EXCEPT ![t] = ups[e].ids]
                           /\ pc' = [pc EXCEPT ![t] = IF ups[e].ids = {} THEN "deliver" ELSE "gen"]
    BY <1>6 DEF DeliverSubscribers, Goto
  <2>2. /\ pc'[t] = "gen" \/ (pc'[t] = "deliver" /\ todo'[t] = {})
        /\ evs'[t] = {e} /\ todo'[t] = ups[e].ids /\ out' = out
        /\ pc[t] = "idle"
    BY <1>1, <1>6, <2>1 DEF DeliverSubscribers, tables
  <2>5. ~DeliverLast(t)
    BY <2>2 DEF DeliverLast
  <2>3. ASSUME NEW s \in ups[e].ids  PROVE Within(s, ups[e].gen)
    <3>1. joined[s.sid] = ups[e].gen /\ ups[e].gen >= 1
      BY DEF Generations, NeverResumed, Freshness, Counted
    <3>2. s \in Known
      BY <1>1 DEF Known, Up
    <3>3. s.sid \in 1..MaxSids
      BY <3>2, JobSids DEF Generations, SidsName
    <3> QED  BY <1>1, <3>1, <3>3 DEF Within
  <2>4. Reading'
    BY <1>5, <2>2, <2>3, <2>5
  <2> QED  BY <1>2, <1>3, <2>2, <2>4 DEF Freshness, EventsSent, Within
<1>7. CASE DeliverGeneration(t)
  <2>1. PICK e \in evs[t] : gen' = [gen EXCEPT ![t] = ups[e].gen]
    BY <1>7 DEF DeliverGeneration
  <2>2. pc'[t] = "deliver" /\ UNCHANGED <<todo, out>> /\ pc[t] = "gen" /\ gen'[t] = ups[e].gen
    BY <1>1, <1>7, <2>1 DEF DeliverGeneration, Goto, tables
  <2>3. \A s \in todo[t] : Within(s, ups[e].gen)
    BY <2>2 DEF Freshness, Reading
  <2>5. ~DeliverLast(t)
    BY <2>2 DEF DeliverLast
  <2>4. Reading'
    BY <1>5, <2>2, <2>3, <2>5
  <2> QED  BY <1>2, <1>3, <2>2, <2>4 DEF Freshness, EventsSent, Within
<1>8. CASE DeliverLookup(t)
  <2>1. PICK s \in todo[t] : /\ todo' = [todo EXCEPT ![t] = @ \ {s}]
                             /\ \/ UNCHANGED <<hand, pc>>
                                \/ hand' = [hand EXCEPT ![t] = s] /\ pc' = [pc EXCEPT ![t] = "sendEvent"]
    BY <1>8 DEF DeliverLookup, Goto
  <2>2. pc[t] = "deliver" /\ UNCHANGED <<gen, out>> /\ todo'[t] = todo[t] \ {s}
    BY <1>1, <1>8, <2>1 DEF DeliverLookup, tables
  <2>3. \A x \in todo[t] : Within(x, gen[t])
    BY <2>2 DEF Freshness, Reading
  <2>4. pc'[t] = "deliver" \/ (pc'[t] = "sendEvent" /\ hand'[t] = s)
    BY <1>1, <2>1, <2>2
  <2>6. ~DeliverLast(t)
    BY <1>1, <2>4 DEF DeliverLast, Goto
  <2>5. Reading'
    BY <1>5, <2>2, <2>3, <2>4, <2>6
  <2> QED  BY <1>2, <1>3, <2>2, <2>5 DEF Freshness, EventsSent, Within
<1>9. CASE DeliverSend(t)
  <2>1. /\ pc[t] = "sendEvent" /\ UNCHANGED <<gen, todo>> /\ pc'[t] = "deliver"
        /\ hand[t] \in Subscription /\ Send(hand[t].conn, "event", hand[t], gen[t])
    BY <1>1, <1>9 DEF DeliverSend, Goto, TypeOK, Working
  <2>2. Within(hand[t], gen[t]) /\ \A x \in todo[t] : Within(x, gen[t])
    BY <2>1 DEF Freshness, Reading
  <2>6. ~DeliverLast(t)
    BY <2>1 DEF DeliverLast
  <2>3. Reading'
    BY <1>5, <2>1, <2>2, <2>6
  <2>4. \A d \in Conns : \A k \in DOMAIN out'[d] :
          \/ k \in DOMAIN out[d] /\ out'[d][k] = out[d][k]
          \/ out'[d][k] = [kind |-> "event", sub |-> hand[t], gen |-> gen[t]]
    <3>1. "event" \in FrameKinds /\ gen[t] \in Nat /\ hand[t] \in Subscription
      BY <1>1, <2>1 DEF FrameKinds
    <3>2. Send(hand[t].conn, "event", hand[t], gen[t])
      BY <2>1
    <3> QED  BY <3>1, <3>2, SendFrames
  <2>5. EventsSent'
    <3> SUFFICES ASSUME NEW c \in Conns, NEW k \in DOMAIN out'[c], out'[c][k].kind = "event"
                 PROVE  Within(out[c][k].sub, out[c][k].gen)'
      BY DEF EventsSent
    <3>1. \/ out'[c][k] = out[c][k] /\ Within(out[c][k].sub, out[c][k].gen)
          \/ out'[c][k].sub = hand[t] /\ out'[c][k].gen = gen[t]
      BY <2>4 DEF Freshness, EventsSent
    <3> QED  BY <1>2, <2>2, <3>1 DEF Within
  <2> QED  BY <1>3, <2>3, <2>5 DEF Freshness
<1>10. CASE DeliverDone(t) \/ DeliverLast(t) \/ Unsubscribed(t)
  <2>1. pc'[t] \notin Delivery /\ out' = out
    BY <1>1, <1>10 DEF DeliverDone, DeliverLast, Unsubscribed, Return, Goto, Delivery, tables
  <2>2. Reading'
    BY <1>13, <2>1
  <2> QED  BY <1>2, <1>3, <2>1, <2>2 DEF Freshness, EventsSent, Within
<1> QED  BY <1>6, <1>7, <1>8, <1>9, <1>10 DEF DeliverReads, DeliverStep

LEMMA NextFresh ==
  ASSUME TypeOK, Generations, Jobs, Quiescence, Freshness, [Next]_vars
  PROVE  Freshness'
<1> DEFINE Silent == \A c \in Conns : \A k \in DOMAIN out'[c] :
                       \/ k \in DOMAIN out[c] /\ out'[c][k] = out[c][k]
                       \/ out'[c][k].kind # "event"
           Apart(t) == /\ pc'[t] = pc[t] /\ hand'[t] = hand[t] /\ evs'[t] = evs[t]
                       /\ todo'[t] = todo[t] /\ gen'[t] = gen[t]
<1>1. /\ svc \in Threads /\ svc \notin Deliverers
      /\ pc = [t \in Threads |-> pc[t]] /\ hand = [t \in Threads |-> hand[t]]
      /\ evs = [t \in Threads |-> evs[t]] /\ todo = [t \in Threads |-> todo[t]]
      /\ gen = [t \in Threads |-> gen[t]]
      /\ \A t \in Pumps \cup Deliverers : t \in Threads
      /\ \A p \in Pumps : p \notin Deliverers
  BY ThreadsAssumption DEF Threads, TypeOK
<1>2. out' = out => Silent
  OBVIOUS
<1>3. ASSUME NEW kind \in FrameKinds \ {"event"}, NEW s \in Subscription, Reply(kind, s)
      PROVE  Silent
  <2>1. kind \in FrameKinds /\ kind # "event" /\ 0 \in Nat
    OBVIOUS
  <2>2. Send(s.conn, kind, s, 0)
    BY <1>3 DEF Reply
  <2>3. \A c \in Conns : \A k \in DOMAIN out'[c] :
          \/ k \in DOMAIN out[c] /\ out'[c][k] = out[c][k]
          \/ out'[c][k] = [kind |-> kind, sub |-> s, gen |-> 0]
    BY <2>1, <2>2, SendFrames
  <2> QED  BY <2>1, <2>3
<1>4. \A k \in {"active", "overloaded", "registered", "refused", "unsubscribed", "terminated"} :
        k \in FrameKinds \ {"event"}
  BY DEF FrameKinds
<1>5. \A t \in Threads : pc[t] \in Working => hand[t] \in Subscription
  BY DEF TypeOK
<1>6. ASSUME Silent, NEW t \in Threads,
             t \notin Deliverers \/ pc'[t] \notin Delivery \cup {"unsubscribe"},
             \A u \in Deliverers \ {t} : Apart(u)
      PROVE  Freshness'
  BY <1>1, <1>6, NoDelivery
<1> HIDE DEF Silent
<1>7. CASE UNCHANGED vars \/ Rest \/ Drain \/ ShutdownStep
  <2>1. out' = out /\ UNCHANGED locals
    BY <1>7 DEF vars, tables, Rest, Drain, ShutdownStep, HubClear, HubDrop, ClientsClose, PumpStop,
                PumpJoin, ServerStop
  <2>2. \A u \in Threads : Apart(u)
    BY <2>1 DEF locals
  <2> QED  BY <1>1, <1>2, <1>6, <2>1, <2>2
<1>8. ASSUME NEW c \in Conns,
             \/ Detach(c) \/ \E i \in Ids : Take(c, i) \/ \E e \in Events : Claim(c, i, e)
      PROVE  Freshness'
  <2>1. ASSUME NEW i \in Ids, NEW e \in Events, Claim(c, i, e)  PROVE Silent
    <3>1. Fresh(c, i, e) \in Subscription
      BY DEF Fresh, Subscription, TypeOK
    <3>2. out' = out \/ Reply("active", Fresh(c, i, e)) \/ Reply("overloaded", Fresh(c, i, e))
      BY <2>1 DEF Claim
    <3> QED  BY <1>2, <1>3, <1>4, <3>1, <3>2
  <2>2. Silent
    BY <1>2, <1>8, <2>1 DEF Detach, Take
  <2>3. \A u \in Threads \ {svc} : Apart(u)
    BY <1>1, <1>8 DEF Detach, Take, Claim, Goto
  <2> QED  BY <1>1, <1>6, <2>2, <2>3
<1>9. CASE ServiceStep
  <2>1. Silent
    <3>1. CASE UnsubAck
      BY <1>1, <1>3, <1>4, <1>5, <3>1 DEF UnsubAck, Working
    <3>2. CASE Refuse(svc)
      BY <1>1, <1>3, <1>4, <1>5, <3>2 DEF Refuse, Working
    <3>3. CASE ~UnsubAck /\ ~Refuse(svc)
      BY <1>2, <1>9, <3>3 DEF ServiceStep, Register, Submit, UnsubErase, UnsubHub, BodyDone,
                              CloseErase, CloseHub, Abandon, AbandonErase, AbandonRelease, tables
    <3> QED  BY <3>1, <3>2, <3>3
  <2>2. \A u \in Threads \ {svc} : Apart(u)
    BY <1>1, <1>9 DEF ServiceStep, Register, Submit, UnsubErase, UnsubHub, UnsubAck, BodyDone,
                      CloseErase, CloseHub, Abandon, AbandonErase, AbandonRelease, Refuse, Goto,
                      Return, locals
  <2> QED  BY <1>1, <1>6, <2>1, <2>2
<1>10. ASSUME NEW p \in Pumps, TakeJob(p) \/ JobStep(p)  PROVE Freshness'
  <2>1. Silent
    <3>1. CASE Ack(p)
      BY <1>1, <1>3, <1>4, <1>5, <3>1 DEF Ack, Working
    <3>2. CASE Refuse(p)
      BY <1>1, <1>3, <1>4, <1>5, <3>2 DEF Refuse, Working
    <3>3. CASE ~Ack(p) /\ ~Refuse(p)
      BY <1>2, <1>10, <3>3 DEF TakeJob, JobStep, HubAdd, BindSubscribe, BindStore, Unbind,
                               Abandon, AbandonErase, AbandonRelease, tables
    <3> QED  BY <3>1, <3>2, <3>3
  <2>2. \A u \in Deliverers : Apart(u)
    <3>1. CASE Unbind(p)
      <4>1. pc' = [pc EXCEPT ![p] = "abandonErase"] /\ UNCHANGED <<hand, todo, gen>>
        BY <3>1 DEF Unbind, Goto
      <4>2. \A u \in Deliverers : evs'[u] = evs[u]
        BY <1>1, <3>1 DEF Unbind, Leaving
      <4> QED  BY <1>1, <4>1, <4>2
    <3>2. CASE ~Unbind(p)
      BY <1>1, <1>10, <3>2 DEF TakeJob, JobStep, HubAdd, BindSubscribe, BindStore, Ack, Abandon,
                               AbandonErase, AbandonRelease, Refuse, Goto, Return
    <3> QED  BY <3>1, <3>2
  <2> QED  BY <1>1, <1>6, <2>1, <2>2
<1>11. ASSUME NEW t \in Pumps \cup Deliverers, LossBegin(t) \/ LossStep(t)  PROVE Freshness'
  <2>1. Silent
    <3>1. CASE LossSend(t)
      BY <1>1, <1>3, <1>4, <1>5, <3>1 DEF LossSend, Working
    <3>2. CASE ~LossSend(t)
      BY <1>2, <1>11, <3>2 DEF LossBegin, LossStep, LossTake, LossErase, LossRelease, LossDone,
                               tables
    <3> QED  BY <3>1, <3>2
  <2>2. \A u \in Threads \ {t} : Apart(u)
    BY <1>1, <1>11 DEF LossBegin, LossStep, LossTake, LossErase, LossRelease, LossSend, LossDone,
                       Goto, Return
  <2>3. pc'[t] \notin Delivery \cup {"unsubscribe"}
    BY <1>1, <1>11 DEF LossBegin, LossStep, LossTake, LossErase, LossRelease, LossSend, LossDone,
                       Goto, Return, Delivery
  <2> QED  BY <1>1, <1>6, <2>1, <2>2, <2>3
<1> QED  BY <1>7, <1>8, <1>9, <1>10, <1>11, DeliverFresh DEF Next

(* deliverFor reads the subscribers before the generation, and an Up is    *)
(* made anew only when no delivery runs under its handle: the generation   *)
(* on an event is never older than the one its subscription joined,        *)
(* however losses, subscribes and shutdown run between the two reads.      *)
THEOREM EventsAreFresh == Spec => []FreshGeneration
<1> DEFINE Safe == Generations /\ Jobs /\ Quiescence /\ Freshness
<1>1. Init => Safe
  <2>1. Init => Generations /\ Quiescence
    BY InitGenerations, InitQuiescence
  <2>2. Init => Jobs /\ Freshness
    <3> SUFFICES ASSUME Init PROVE Jobs /\ Freshness
      OBVIOUS
    <3>1. /\ \A t \in Threads : pc[t] = "idle"
          /\ \A e \in Events : ups[e].gen = 1
          /\ DOMAIN queue = {} /\ \A n \in nextSid..MaxSids : joined[n] = 0
          /\ \A c \in Conns : DOMAIN out[c] = {}
      BY DEF Init, Absent
    <3> QED
      BY <3>1 DEF Jobs, Unjoined, JobsOnce, Awaiting, Freshness, Counted, Reading, EventsSent,
                  Threads
  <2> QED  BY <2>1, <2>2
<1>2. TypeOK /\ Safe /\ [Next]_vars => Safe'
  BY NextGenerations, NextJobs, NextQuiescence, NextFresh
<1>3. Safe /\ TypeOK => FreshGeneration
  <2> SUFFICES ASSUME Safe, TypeOK, NEW c \in Conns, NEW k \in DOMAIN out[c],
                      out[c][k].kind = "event"
               PROVE  out[c][k].gen >= joined[out[c][k].sub.sid]
    BY DEF FreshGeneration, Sent
  <2>1. Within(out[c][k].sub, out[c][k].gen)
    BY DEF Freshness, EventsSent
  <2>2. out[c][k].gen \in Nat
    <3>1. out[c] \in Seq(Frame)
      BY DEF TypeOK
    <3>2. out[c][k] \in Frame
      BY <3>1
    <3> QED  BY <3>2 DEF Frame
  <2> QED  BY <2>1, <2>2 DEF Within
<1> HIDE DEF Safe
<1> QED  BY <1>1, <1>2, <1>3, TypeCorrect, PTL DEF Spec

----------------------------------------------------------------------------
(* RegisteredIsHeld, when no upstream subscribe is refused.  A subscriber  *)
(* that was bound or acknowledged is in its Up, or a loss has it in hand:  *)
(* whoever takes it out of an Up has erased it from m_subscribers first.   *)

Ending(s) == \E t \in Threads : pc[t] \in Losing /\ s \in todo[t]
Held(s) == s \in subscribers /\ ~HubClosed => s \in ups[s.event].ids \/ Ending(s)

JobsHeld == \A p \in Pumps : pc[p] \in {"bind", "store", "ack"} => Held(hand[p])
ClosingUnheld == pc[svc] = "closeHub" => todo[svc] \cap subscribers = {}
AbsentEmpty == \A e \in Events : ups[e].state = "absent" => ups[e].ids = {}
UnbindsClosed == \A p \in Pumps : pc[p] = "unbind" => HubClosed

Upheld ==
  JobsHeld /\ RegisteredIsHeld /\ ClosingUnheld /\ AbsentEmpty /\ UnbindsClosed

LEMMA StillHeld ==
  ASSUME NEW s \in Subscription, Held(s), s \in subscribers' => s \in subscribers,
         HubClosed => HubClosed',
         s \in subscribers' /\ s \in ups[s.event].ids /\ ~HubClosed =>
           HubClosed' \/ s \in ups'[s.event].ids \/ Ending(s)',
         s \in subscribers' /\ ~HubClosed =>
           \A t \in Threads : pc[t] \in Losing /\ s \in todo[t] => pc'[t] \in Losing /\ s \in todo'[t]
  PROVE  Held(s)'
BY DEF Held, Ending

(* The steps that neither touch an Up nor are part of a loss. *)
LEMMA HeldBesides ==
  ASSUME TypeOK, NEW s \in Subscription, Held(s), s \in subscribers' => s \in subscribers,
         NEW t \in Threads, pc[t] \notin Losing, UNCHANGED <<ups, stage>>,
         \A u \in Threads \ {t} : pc'[u] = pc[u] /\ todo'[u] = todo[u]
  PROVE  Held(s)'
BY StillHeld DEF HubClosed

(* The steps that may let go of an Up destroy one only after the hub has    *)
(* closed.                                                                 *)
LEMMA LettingGoHeld ==
  ASSUME TypeOK, Dropping, NEW s \in Subscription, Held(s), s \in subscribers' => s \in subscribers,
         NEW t \in Threads, Ack(t) \/ DeliverLast(t), pc[t] \notin Losing, UNCHANGED stage,
         \A u \in Threads \ {t} : pc'[u] = pc[u] /\ todo'[u] = todo[u]
  PROVE  Held(s)'
<1>1. s.event \in Events
  BY DEF Subscription
<1>2. ups'[s.event] = ups[s.event] \/ HubClosed
  BY <1>1, LetGo DEF LastOf, Dropping
<1> QED  BY <1>2, StillHeld DEF HubClosed

LEMMA ServiceHeld ==
  ASSUME TypeOK, Endings, Upheld, NEW s \in Subscription, Held(s),
         s \in subscribers' => s \in subscribers,
         \/ ServiceStep
         \/ \E c \in Conns : \/ Detach(c)
                             \/ \E i \in Ids : Take(c, i) \/ \E e \in Events : Claim(c, i, e)
  PROVE  Held(s)'
<1>1. /\ svc \in Threads /\ ups \in [Events -> Up] /\ s.event \in Events
      /\ pc = [t \in Threads |-> pc[t]] /\ todo = [t \in Threads |-> todo[t]]
      /\ pc[svc] \in Working => hand[svc] \in Subscription
      /\ ups[s.event] \in Up
  BY DEF Threads, TypeOK, Subscription
<1>2. CASE ~UnsubHub /\ ~CloseHub
  <2>1. /\ UNCHANGED <<ups, stage>> /\ pc[svc] \notin Losing
        /\ \A u \in Threads \ {svc} : pc'[u] = pc[u] /\ todo'[u] = todo[u]
    BY <1>1, <1>2 DEF ServiceStep, Register, Submit, UnsubErase, UnsubAck, BodyDone, CloseErase,
       Abandon, AbandonErase, AbandonRelease, Refuse, Detach, Take, Claim, Serving, Goto, Return,
       hub, locals, Losing
  <2> QED  BY <1>1, <2>1, HeldBesides
<1>3. CASE UnsubHub
  <2>1. /\ pc[svc] = "unsubHub" /\ UNCHANGED <<stage, subscribers, todo>>
        /\ \A u \in Threads \ {svc} : pc'[u] = pc[u]
    BY <1>1, <1>3 DEF UnsubHub, Goto, tables
  <2>2. hand[svc] \notin subscribers
    BY <1>1, <2>1 DEF Endings, EndingUnheld
  <2>3. s # hand[svc] /\ s \in ups[s.event].ids => s \in ups'[s.event].ids
    <3>1. \/ ups'[s.event] = ups[s.event]
          \/ ups'[s.event] = [ups[s.event] EXCEPT !.ids = @ \ {hand[svc]}]
      BY <1>1, <1>3 DEF UnsubHub
    <3> QED  BY <1>1, <3>1 DEF Up
  <2> QED  BY <1>1, <2>1, <2>2, <2>3, StillHeld DEF HubClosed, Losing
<1>4. CASE CloseHub
  <2>1. /\ pc[svc] = "closeHub" /\ UNCHANGED <<stage, subscribers>>
        /\ \A u \in Threads \ {svc} : pc'[u] = pc[u] /\ todo'[u] = todo[u]
    BY <1>1, <1>4 DEF CloseHub, Goto, Return, tables
  <2>2. todo[svc] \cap subscribers = {}
    BY <2>1 DEF Upheld, ClosingUnheld
  <2>3. s \notin todo[svc] /\ s \in ups[s.event].ids => s \in ups'[s.event].ids
    <3>1. \/ ups'[s.event] = ups[s.event]
          \/ \E x \in todo[svc] : ups'[s.event] = [ups[s.event] EXCEPT !.ids = @ \ {x}]
      BY <1>1, <1>4 DEF CloseHub
    <3>2. CASE ups'[s.event] = ups[s.event]
      BY <3>2
    <3>3. ASSUME NEW x \in todo[svc], ups'[s.event] = [ups[s.event] EXCEPT !.ids = @ \ {x}]
          PROVE  s \notin todo[svc] /\ s \in ups[s.event].ids => s \in ups'[s.event].ids
      BY <1>1, <3>3 DEF Up
    <3> QED  BY <3>1, <3>2, <3>3
  <2> QED  BY <1>1, <2>1, <2>2, <2>3, StillHeld DEF HubClosed, Losing
<1> QED  BY <1>2, <1>3, <1>4

LEMMA JobHeld ==
  ASSUME TypeOK, Dropping, Upheld, NEW s \in Subscription, Held(s),
         s \in subscribers' => s \in subscribers, NEW p \in Pumps, TakeJob(p) \/ JobStep(p)
  PROVE  Held(s)'
<1>1. /\ p \in Threads /\ ups \in [Events -> Up] /\ s.event \in Events
      /\ pc = [t \in Threads |-> pc[t]] /\ todo = [t \in Threads |-> todo[t]]
      /\ ups[s.event] \in Up
  BY DEF Threads, TypeOK, Subscription
<1>2. /\ pc[p] \notin Losing /\ stage' = stage
      /\ \A u \in Threads \ {p} : pc'[u] = pc[u] /\ todo'[u] = todo[u]
  BY <1>1 DEF TakeJob, JobStep, HubAdd, BindSubscribe, BindStore, Unbind, Ack, Abandon,
              AbandonErase, AbandonRelease, Refuse, Goto, Return, tables, Losing
<1>5. CASE Ack(p)
  BY <1>1, <1>2, <1>5, LettingGoHeld
<1>3. CASE TakeJob(p) \/ Abandon(p)
  <2>1. ups' = ups
    BY <1>3 DEF TakeJob, Abandon, AbandonErase, AbandonRelease, Refuse, hub
  <2> QED  BY <1>1, <1>2, <2>1, HeldBesides
<1>4. CASE HubAdd(p) \/ BindSubscribe(p) \/ BindStore(p) \/ Unbind(p)
  <2>1. hand[p].event \in Events
    BY <1>1, <1>4 DEF TypeOK, HubAdd, BindSubscribe, BindStore, Unbind, Working, Subscription
  <2>2. ~HubClosed /\ s \in ups[s.event].ids => s \in ups'[s.event].ids
    <3> SUFFICES ASSUME ~HubClosed, s \in ups[s.event].ids PROVE s \in ups'[s.event].ids
      OBVIOUS
    <3>1. CASE HubAdd(p)
      <4>1. ups[s.event].state # "absent"
        BY <1>1 DEF Upheld, AbsentEmpty
      <4>2. Joined(s.event, hand[p]).ids = ups[s.event].ids \cup {hand[p]}
        BY <1>1, <4>1 DEF Joined, Present, Up
      <4> QED  BY <1>1, <2>1, <3>1, <4>2 DEF HubAdd
    <3>2. CASE BindSubscribe(p) \/ BindStore(p)
      <4>1. \/ ups'[s.event] = ups[s.event]
            \/ ups'[s.event] = [ups[s.event] EXCEPT !.state = "live"]
            \/ ups'[s.event] = [ups[s.event] EXCEPT !.state = "bound"]
        BY <1>1, <2>1, <3>2 DEF BindSubscribe, BindStore
      <4> QED  BY <1>1, <4>1 DEF Up
    <3>3. CASE Unbind(p)
      BY <3>3 DEF Unbind, Upheld, UnbindsClosed
    <3> QED  BY <1>4, <3>1, <3>2, <3>3
  <2> QED  BY <1>1, <1>2, <2>2, StillHeld DEF HubClosed
<1> QED  BY <1>3, <1>4, <1>5 DEF JobStep

LEMMA LossHeld ==
  ASSUME TypeOK, NEW s \in Subscription, Held(s), s \in subscribers' => s \in subscribers,
         NEW t \in Pumps \cup Deliverers, LossBegin(t) \/ LossStep(t)
  PROVE  Held(s)'
<1>1. /\ t \in Threads /\ ups \in [Events -> Up] /\ s.event \in Events
      /\ pc = [u \in Threads |-> pc[u]] /\ todo = [u \in Threads |-> todo[u]]
      /\ ups[s.event] \in Up /\ UNCHANGED stage
  BY DEF Threads, TypeOK, Subscription, LossBegin, LossStep, LossTake, LossErase, LossRelease,
         LossSend, LossDone
<1>2. CASE LossBegin(t)
  <2>1. /\ ups' = ups /\ pc[t] \notin Losing
        /\ \A u \in Threads \ {t} : pc'[u] = pc[u] /\ todo'[u] = todo[u]
    BY <1>1, <1>2 DEF LossBegin, Goto, hub, Losing
  <2> QED  BY <1>1, <2>1, HeldBesides
<1>3. CASE LossTake(t)
  <2>1. PICK e \in Events :
          \/ /\ todo' = [todo EXCEPT ![t] = ups[e].ids]
             /\ ups' = [ups EXCEPT ![e].gen = @ + 1, ![e].ids = {}]
          \/ UNCHANGED <<todo, ups>>
    <3>1. evs[t] \subseteq Events
      BY <1>1 DEF TypeOK
    <3> QED  BY <1>3, <3>1 DEF LossTake
  <2>2. pc' = pc /\ pc[t] \in Losing /\ todo[t] = {}
    BY <1>3 DEF LossTake, Losing
  <2>3. CASE UNCHANGED <<todo, ups>>
    BY <1>1, <2>2, <2>3, StillHeld DEF HubClosed
  <2>4. CASE /\ todo' = [todo EXCEPT ![t] = ups[e].ids]
             /\ ups' = [ups EXCEPT ![e].gen = @ + 1, ![e].ids = {}]
    <3>1. todo'[t] = ups[e].ids /\ \A u \in Threads \ {t} : todo'[u] = todo[u]
      BY <1>1, <2>4
    <3>2. s.event # e => ups'[s.event] = ups[s.event]
      BY <1>1, <2>4
    <3>3. s \in ups[s.event].ids => s \in ups'[s.event].ids \/ Ending(s)'
      BY <1>1, <2>2, <3>1, <3>2 DEF Ending
    <3> QED  BY <1>1, <2>2, <3>1, <3>3, StillHeld DEF HubClosed
  <2> QED  BY <2>1, <2>3, <2>4
<1>4. CASE LossErase(t) \/ LossRelease(t) \/ LossSend(t) \/ LossDone(t)
  <2>1. /\ ups' = ups
        /\ \A u \in Threads \ {t} : pc'[u] = pc[u] /\ todo'[u] = todo[u]
    BY <1>1, <1>4 DEF LossErase, LossRelease, LossSend, LossDone, Goto, Return, hub
  <2>2. s \in subscribers' /\ s \in todo[t] => pc'[t] \in Losing /\ s \in todo'[t]
    <3>1. CASE LossErase(t)
      <4>1. PICK x \in todo[t] : /\ todo' = [todo EXCEPT ![t] = @ \ {x}]
                                 /\ x \notin subscribers'
        BY <3>1 DEF LossErase
      <4>2. pc'[t] \in Losing
        BY <1>1, <3>1 DEF LossErase, Goto, Losing
      <4> QED  BY <1>1, <4>1, <4>2
    <3>2. CASE LossRelease(t) \/ LossSend(t)
      BY <1>1, <3>2 DEF LossRelease, LossSend, Goto, Losing
    <3>3. CASE LossDone(t)
      BY <3>3 DEF LossDone
    <3> QED  BY <1>4, <3>1, <3>2, <3>3
  <2> QED  BY <1>1, <2>1, <2>2, StillHeld DEF HubClosed
<1> QED  BY <1>2, <1>3, <1>4 DEF LossStep

LEMMA DeliverHeld ==
  ASSUME TypeOK, Dropping, NEW s \in Subscription, Held(s), s \in subscribers' => s \in subscribers,
         NEW t \in Deliverers, DeliverReads(t) \/ DeliverStep(t)
  PROVE  Held(s)'
<1>1. /\ t \in Threads /\ pc = [u \in Threads |-> pc[u]] /\ todo = [u \in Threads |-> todo[u]]
  BY DEF Threads, TypeOK
<1>2. /\ ups' = ups \/ DeliverLast(t)
      /\ UNCHANGED stage /\ pc[t] \notin Losing
      /\ \A u \in Threads \ {t} : pc'[u] = pc[u] /\ todo'[u] = todo[u]
  BY <1>1 DEF DeliverReads, DeliverSubscribers, DeliverGeneration, DeliverStep, DeliverLookup,
              DeliverSend, DeliverDone, DeliverLast, Unsubscribed, Goto, Return, hub, Losing
<1> QED  BY <1>1, <1>2, HeldBesides, LettingGoHeld

(* Whoever is held stays held, until it is erased from m_subscribers. *)
LEMMA NextHeld ==
  ASSUME TypeOK, Endings, Dropping, Upheld, NEW s \in Subscription, Held(s),
         s \in subscribers' => s \in subscribers, [Next]_vars
  PROVE  Held(s)'
<1>1. CASE UNCHANGED vars \/ Rest \/ Drain \/ ShutdownStep
  <2>1. /\ UNCHANGED <<pc, todo>>
        /\ HubClosed => HubClosed'
        /\ ups' = ups \/ HubClosed'
    BY <1>1 DEF vars, tables, hub, locals, Rest, Drain, ShutdownStep, HubClear, HubDrop,
                ClientsClose, PumpStop, PumpJoin, ServerStop, Advance, HubClosed
  <2> QED  BY <2>1, StillHeld
<1>2. ASSUME NEW t \in Pumps \cup Deliverers, LossBegin(t) \/ LossStep(t)  PROVE Held(s)'
  BY <1>2, LossHeld
<1>3. ASSUME NEW t \in Deliverers, DeliverReads(t) \/ DeliverStep(t)  PROVE Held(s)'
  BY <1>3, DeliverHeld
<1>4. ASSUME NEW p \in Pumps, TakeJob(p) \/ JobStep(p)  PROVE Held(s)'
  BY <1>4, JobHeld
<1> QED  BY <1>1, <1>2, <1>3, <1>4, ServiceHeld DEF Next

(* Only onSubscribe adds to m_subscribers. *)
LEMMA Newcomers ==
  ASSUME [Next]_vars
  PROVE  \/ subscribers' \subseteq subscribers
         \/ pc[svc] = "register" /\ subscribers' \subseteq subscribers \cup {hand[svc]}
BY DEF Next, vars, tables, Take, Claim, Detach, ServiceStep, Register, Submit, UnsubErase, UnsubHub,
   UnsubAck, BodyDone, CloseErase, CloseHub, Abandon, AbandonErase, AbandonRelease, Refuse, TakeJob,
   JobStep, HubAdd, BindSubscribe, BindStore, Unbind, Ack, LossBegin, LossStep, LossTake, LossErase,
   LossRelease, LossSend, LossDone, DeliverReads, DeliverSubscribers, DeliverGeneration,
   DeliverStep, DeliverLookup, DeliverSend, DeliverDone, DeliverLast, Unsubscribed, Drain,
   ShutdownStep, HubClear, HubDrop, ClientsClose, PumpStop, PumpJoin, ServerStop, Rest

(* A pump thread comes to a bind or an acknowledgement from add only. *)
LEMMA Arrivals ==
  ASSUME TypeOK, [Next]_vars, NEW p \in Pumps
  PROVE  \/ HubAdd(p)
         \/ pc'[p] = pc[p] /\ hand'[p] = hand[p]
         \/ BindSubscribe(p) \/ BindStore(p)
         \/ pc'[p] \notin {"bind", "store", "ack", "unbind"}
<1>1. /\ p \in Threads /\ svc \in Threads /\ p # svc /\ p \notin Deliverers
      /\ pc = [t \in Threads |-> pc[t]] /\ hand = [t \in Threads |-> hand[t]]
  BY ThreadsAssumption DEF Threads, TypeOK
<1>2. ASSUME NEW q \in Pumps, TakeJob(q) \/ JobStep(q), q # p
      PROVE  pc'[p] = pc[p] /\ hand'[p] = hand[p]
  BY <1>1, <1>2 DEF TakeJob, JobStep, HubAdd, BindSubscribe, BindStore, Unbind, Ack, Abandon,
                    AbandonErase, AbandonRelease, Refuse, Goto, Return
<1>3. CASE TakeJob(p) \/ Unbind(p) \/ Ack(p) \/ Abandon(p)
  BY <1>1, <1>3 DEF TakeJob, Unbind, Ack, Abandon, AbandonErase, AbandonRelease, Refuse, Goto, Return
<1>4. ASSUME NEW t \in Pumps \cup Deliverers,
             \/ LossBegin(t) \/ LossStep(t)
             \/ t \in Deliverers /\ (DeliverReads(t) \/ DeliverStep(t))
      PROVE  \/ pc'[p] = pc[p] /\ hand'[p] = hand[p]
             \/ pc'[p] \notin {"bind", "store", "ack", "unbind"}
  <2>1. CASE t = p
    BY <1>1, <1>4, <2>1 DEF LossBegin, LossStep, LossTake, LossErase, LossRelease, LossSend,
                            LossDone, Goto, Return
  <2>2. CASE t # p
    BY <1>1, <1>4, <2>2 DEF LossBegin, LossStep, LossTake, LossErase, LossRelease, LossSend,
       LossDone, DeliverReads, DeliverSubscribers, DeliverGeneration, DeliverStep, DeliverLookup,
       DeliverSend, DeliverDone, DeliverLast, Unsubscribed, Goto, Return
  <2> QED  BY <2>1, <2>2
<1>5. CASE ServiceStep \/ \E c \in Conns : \/ Detach(c)
                                           \/ \E i \in Ids : Take(c, i) \/ \E e \in Events : Claim(c, i, e)
  BY <1>1, <1>5 DEF ServiceStep, Register, Submit, UnsubErase, UnsubHub, UnsubAck, BodyDone,
     CloseErase, CloseHub, Abandon, AbandonErase, AbandonRelease, Refuse, Detach, Take, Claim, Goto,
     Return, locals
<1>6. CASE UNCHANGED vars \/ Rest \/ Drain \/ ShutdownStep
  BY <1>6 DEF vars, locals, Rest, Drain, ShutdownStep, HubClear, HubDrop, ClientsClose, PumpStop,
              PumpJoin, ServerStop
<1> QED  BY <1>2, <1>3, <1>4, <1>5, <1>6 DEF Next, JobStep

LEMMA RegisteredFrames ==
  ASSUME TypeOK, [Next]_vars
  PROVE  \A c \in Conns : \A k \in DOMAIN out'[c] :
           \/ k \in DOMAIN out[c] /\ out'[c][k] = out[c][k]
           \/ out'[c][k].kind # "registered"
           \/ \E p \in Pumps : pc[p] = "ack" /\ out'[c][k].sub = hand[p]
<1> DEFINE Explained(c, k) == \/ k \in DOMAIN out[c] /\ out'[c][k] = out[c][k]
                              \/ out'[c][k].kind # "registered"
                              \/ \E p \in Pumps : pc[p] = "ack" /\ out'[c][k].sub = hand[p]
<1>1. out' = out => \A c \in Conns : \A k \in DOMAIN out'[c] : Explained(c, k)
  OBVIOUS
<1>2. ASSUME NEW kind \in FrameKinds, NEW s \in Subscription, NEW g \in Nat, Send(s.conn, kind, s, g),
             kind # "registered" \/ \E p \in Pumps : pc[p] = "ack" /\ s = hand[p]
      PROVE  \A c \in Conns : \A k \in DOMAIN out'[c] : Explained(c, k)
  <2>1. \A c \in Conns : \A k \in DOMAIN out'[c] :
          \/ k \in DOMAIN out[c] /\ out'[c][k] = out[c][k]
          \/ out'[c][k] = [kind |-> kind, sub |-> s, gen |-> g]
    BY <1>2, SendFrames
  <2> QED  BY <1>2, <2>1
<1>3. ASSUME NEW kind \in FrameKinds \ {"registered"}, NEW s \in Subscription, Reply(kind, s)
      PROVE  \A c \in Conns : \A k \in DOMAIN out'[c] : Explained(c, k)
  <2>1. kind \in FrameKinds /\ kind # "registered" /\ 0 \in Nat /\ Send(s.conn, kind, s, 0)
    BY <1>3 DEF Reply
  <2> QED  BY <1>2, <2>1
<1>4. /\ \A t \in Threads : pc[t] \in Working => hand[t] \in Subscription
      /\ svc \in Threads /\ \A t \in Pumps \cup Deliverers : t \in Threads
      /\ gen \in [Threads -> Nat]
  BY DEF TypeOK, Threads
<1>5. /\ \A k \in {"active", "overloaded", "refused", "unsubscribed", "terminated"} :
           k \in FrameKinds \ {"registered"}
      /\ {"event", "registered"} \subseteq FrameKinds /\ "event" # "registered"
  BY DEF FrameKinds
<1> HIDE DEF Explained
<1> DEFINE AllExplained == \A c \in Conns : \A k \in DOMAIN out'[c] : Explained(c, k)
<1> HIDE DEF AllExplained
<1>6. ASSUME NEW c \in Conns, NEW i \in Ids, NEW e \in Events, Claim(c, i, e)  PROVE AllExplained
  <2>1. Fresh(c, i, e) \in Subscription
    BY DEF Fresh, Subscription, TypeOK
  <2>2. out' = out \/ Reply("active", Fresh(c, i, e)) \/ Reply("overloaded", Fresh(c, i, e))
    BY <1>6 DEF Claim
  <2> QED  BY <1>1, <1>3, <1>5, <2>1, <2>2 DEF AllExplained
<1>7. ASSUME UnsubAck  PROVE AllExplained
  <2>1. Reply("unsubscribed", hand[svc]) /\ hand[svc] \in Subscription
    BY <1>4, <1>7 DEF UnsubAck, Working
  <2> QED  BY <1>3, <1>5, <2>1 DEF AllExplained
<1>8. ASSUME NEW t \in Threads, Refuse(t)  PROVE AllExplained
  <2>1. Reply("refused", hand[t]) /\ hand[t] \in Subscription
    BY <1>4, <1>8 DEF Refuse, Working
  <2> QED  BY <1>3, <1>5, <2>1 DEF AllExplained
<1>9. ASSUME NEW t \in Threads, LossSend(t)  PROVE AllExplained
  <2>1. Reply("terminated", hand[t]) /\ hand[t] \in Subscription
    BY <1>4, <1>9 DEF LossSend, Working
  <2> QED  BY <1>3, <1>5, <2>1 DEF AllExplained
<1>10. ASSUME NEW t \in Deliverers, DeliverSend(t)  PROVE AllExplained
  <2>1. /\ Send(hand[t].conn, "event", hand[t], gen[t]) /\ hand[t] \in Subscription
        /\ gen[t] \in Nat /\ "event" \in FrameKinds /\ "event" # "registered"
    BY <1>4, <1>5, <1>10 DEF DeliverSend, Working
  <2> QED  BY <1>2, <2>1 DEF AllExplained
<1>11. ASSUME NEW p \in Pumps, Ack(p)  PROVE AllExplained
  <2>1. /\ Send(hand[p].conn, "registered", hand[p], 0) /\ hand[p] \in Subscription
        /\ pc[p] = "ack" /\ 0 \in Nat /\ "registered" \in FrameKinds
    BY <1>4, <1>5, <1>11 DEF Ack, Reply, Working
  <2> QED  BY <1>2, <2>1 DEF AllExplained
<1>12. ASSUME ~\E c \in Conns, i \in Ids, e \in Events : Claim(c, i, e),
              ~UnsubAck, ~\E t \in Threads : Refuse(t) \/ LossSend(t),
              ~\E t \in Deliverers : DeliverSend(t),
              ~\E p \in Pumps : Ack(p)
       PROVE  AllExplained
  <2>1. out' = out
    BY <1>4, <1>12 DEF Next, vars, tables, Take, Detach, ServiceStep, Register, Submit, UnsubErase,
       UnsubHub, BodyDone, CloseErase, CloseHub, Abandon, AbandonErase, AbandonRelease, TakeJob,
       JobStep, HubAdd, BindSubscribe, BindStore, Unbind, LossBegin, LossStep, LossTake, LossErase,
       LossRelease, LossDone, DeliverReads, DeliverSubscribers, DeliverGeneration, DeliverStep,
       DeliverLookup, DeliverDone, DeliverLast, Unsubscribed, Drain, ShutdownStep, HubClear,
       HubDrop, ClientsClose, PumpStop, PumpJoin, ServerStop, Rest
  <2> QED  BY <1>1, <2>1 DEF AllExplained
<1>13. AllExplained
  BY <1>6, <1>7, <1>8, <1>9, <1>10, <1>11, <1>12
<1> QED  BY <1>13 DEF AllExplained, Explained


LEMMA StagesGrow ==
  ASSUME [Next]_vars
  PROVE  HubClosed => HubClosed'
<1>1. CASE UNCHANGED stage
  BY <1>1 DEF HubClosed
<1>2. CASE UNCHANGED vars \/ Rest
  BY <1>1, <1>2 DEF vars, Rest
<1>3. CASE Drain \/ ShutdownStep
  BY <1>3 DEF Drain, ShutdownStep, HubClear, HubDrop, ClientsClose, PumpStop, PumpJoin, ServerStop,
              Advance, HubClosed
<1>4. ASSUME NEW c \in Conns, Detach(c) \/ \E i \in Ids : Take(c, i) \/ \E e \in Events : Claim(c, i, e)
      PROVE  UNCHANGED stage
  BY <1>4 DEF Detach, Take, Claim
<1>5. CASE ServiceStep
  BY <1>1, <1>5 DEF ServiceStep, Register, Submit, UnsubErase, UnsubHub, UnsubAck, BodyDone,
                    CloseErase, CloseHub, Abandon, AbandonErase, AbandonRelease, Refuse
<1>6. ASSUME NEW p \in Pumps, TakeJob(p) \/ JobStep(p) PROVE UNCHANGED stage
  BY <1>6 DEF TakeJob, JobStep, HubAdd, BindSubscribe, BindStore, Unbind, Ack, Abandon, AbandonErase,
              AbandonRelease, Refuse
<1>7. ASSUME NEW t \in Pumps \cup Deliverers, LossBegin(t) \/ LossStep(t) PROVE UNCHANGED stage
  BY <1>7 DEF LossBegin, LossStep, LossTake, LossErase, LossRelease, LossSend, LossDone
<1>8. ASSUME NEW t \in Deliverers, DeliverReads(t) \/ DeliverStep(t) PROVE UNCHANGED stage
  BY <1>8 DEF DeliverReads, DeliverSubscribers, DeliverGeneration, DeliverStep, DeliverLookup,
              DeliverSend, DeliverDone, DeliverLast, Unsubscribed
<1> QED  BY <1>1, <1>2, <1>3, <1>4, <1>5, <1>6, <1>7, <1>8 DEF Next

(* A close visits the subscribers it has erased, and no other. *)
LEMMA ServiceCloses ==
  ASSUME TypeOK, [Next]_vars, pc'[svc] = "closeHub", ~CloseErase
  PROVE  pc[svc] = "closeHub" /\ todo'[svc] \subseteq todo[svc]
<1>1. /\ svc \in Threads /\ svc \notin Pumps \cup Deliverers
      /\ \A t \in Pumps \cup Deliverers : t \in Threads
      /\ pc = [t \in Threads |-> pc[t]] /\ todo = [t \in Threads |-> todo[t]]
  BY ThreadsAssumption DEF Threads, TypeOK
<1>2. CASE UNCHANGED vars \/ Rest \/ Drain \/ ShutdownStep
  BY <1>2 DEF vars, locals, Rest, Drain, ShutdownStep, HubClear, HubDrop, ClientsClose, PumpStop,
              PumpJoin, ServerStop
<1>3. ASSUME NEW p \in Pumps, TakeJob(p) \/ JobStep(p)
      PROVE  pc'[svc] = pc[svc] /\ todo'[svc] = todo[svc]
  BY <1>1, <1>3 DEF TakeJob, JobStep, HubAdd, BindSubscribe, BindStore, Unbind, Ack, Abandon,
                    AbandonErase, AbandonRelease, Refuse, Goto, Return
<1>4. ASSUME NEW t \in Pumps \cup Deliverers, LossBegin(t) \/ LossStep(t)
      PROVE  pc'[svc] = pc[svc] /\ todo'[svc] = todo[svc]
  BY <1>1, <1>4 DEF LossBegin, LossStep, LossTake, LossErase, LossRelease, LossSend, LossDone,
                    Goto, Return
<1>5. ASSUME NEW t \in Deliverers, DeliverReads(t) \/ DeliverStep(t)
      PROVE  pc'[svc] = pc[svc] /\ todo'[svc] = todo[svc]
  BY <1>1, <1>5 DEF DeliverReads, DeliverSubscribers, DeliverGeneration, DeliverStep,
                    DeliverLookup, DeliverSend, DeliverDone, DeliverLast, Unsubscribed, Goto, Return
<1>6. ASSUME NEW c \in Conns,
             \/ Detach(c)
             \/ \E i \in Ids : Take(c, i) \/ \E e \in Events : Claim(c, i, e)
      PROVE  FALSE
  BY <1>1, <1>6 DEF Detach, Take, Claim, Serving, Goto
<1>7. CASE ServiceStep
  <2>1. CASE CloseHub
    BY <1>1, <2>1 DEF CloseHub, Return, Goto
  <2>2. CASE ~CloseHub
    BY <1>1, <1>7, <2>2 DEF ServiceStep, Register, Submit, UnsubErase, UnsubHub, UnsubAck, BodyDone,
                            Abandon, AbandonErase, AbandonRelease, Refuse, Goto, Return, locals
  <2> QED  BY <2>1, <2>2
<1> QED  BY <1>2, <1>3, <1>4, <1>5, <1>6, <1>7 DEF Next

LEMMA UpsEmpty ==
  ASSUME TypeOK, AbsentEmpty, [Next]_vars
  PROVE  AbsentEmpty'
<1> SUFFICES ASSUME NEW e \in Events, ups'[e].state = "absent" PROVE ups'[e].ids = {}
  BY DEF AbsentEmpty
<1>1. ups \in [Events -> Up] /\ ups[e] \in Up /\ Absent.ids = {}
  BY DEF TypeOK, Absent
<1>2. ups[e].state = "absent" => ups[e].ids = {}
  BY DEF AbsentEmpty
<1>3. ASSUME NEW p \in Pumps, HubAdd(p) \/ BindSubscribe(p) \/ BindStore(p) \/ Unbind(p)
      PROVE  ups'[e] = ups[e] \/ ups'[e] = Absent
  <2>1. hand[p].event \in Events
    BY <1>3 DEF TypeOK, Threads, HubAdd, BindSubscribe, BindStore, Unbind, Working, Subscription
  <2>2. CASE HubAdd(p)
    <3>1. Joined(e, hand[p]).state # "absent"
      BY <1>1 DEF Joined, Present, Up
    <3> QED  BY <1>1, <2>1, <2>2, <3>1 DEF HubAdd, hub
  <2>3. CASE BindSubscribe(p) \/ BindStore(p)
    <3>1. \/ ups'[e] = ups[e] \/ ups'[e] = Absent
          \/ ups'[e] = [ups[e] EXCEPT !.state = "live"]
          \/ ups'[e] = [ups[e] EXCEPT !.state = "bound"]
      BY <1>1, <2>1, <2>3 DEF BindSubscribe, BindStore
    <3> QED  BY <1>1, <3>1 DEF Up
  <2>4. CASE Unbind(p)
    BY <1>1, <2>1, <2>4 DEF Unbind
  <2> QED  BY <1>3, <2>2, <2>3, <2>4
<1>4. ASSUME NEW t \in Threads, LossTake(t)  PROVE ups'[e] = ups[e] \/ ups'[e].ids = {}
  <2>1. ups'[e] = ups[e] \/ ups'[e] = [[ups[e] EXCEPT !.gen = @ + 1] EXCEPT !.ids = {}]
    BY <1>1, <1>4 DEF LossTake
  <2>2. [[ups[e] EXCEPT !.gen = @ + 1] EXCEPT !.ids = {}].ids = {}
    BY <1>1 DEF Up
  <2> QED  BY <2>1, <2>2
<1>5. ASSUME UnsubHub \/ CloseHub
      PROVE  ups'[e].state = ups[e].state /\ ups'[e].ids \subseteq ups[e].ids
  <2>1. ASSUME NEW s
        PROVE  /\ [ups[e] EXCEPT !.ids = @ \ {s}].state = ups[e].state
               /\ [ups[e] EXCEPT !.ids = @ \ {s}].ids \subseteq ups[e].ids
    BY <1>1 DEF Up
  <2>2. CASE UnsubHub
    <3>1. ups'[e] = ups[e] \/ ups'[e] = [ups[e] EXCEPT !.ids = @ \ {hand[svc]}]
      BY <1>1, <2>2 DEF UnsubHub
    <3> QED  BY <2>1, <3>1
  <2>3. CASE CloseHub
    <3>1. CASE ups' = ups
      BY <3>1
    <3>2. CASE ups' # ups
      <4>1. PICK s \in todo[svc] :
              ups' = [x \in Events |-> IF Present(x) THEN [ups[x] EXCEPT !.ids = @ \ {s}] ELSE ups[x]]
        BY <2>3, <3>2 DEF CloseHub
      <4> QED  BY <2>1, <4>1
    <3> QED  BY <3>1, <3>2
  <2> QED  BY <1>5, <2>2, <2>3
<1>6. CASE HubDrop
  <2>1. ups'[e] \in {ups[e], Absent, [ups[e] EXCEPT !.state = "dropped"]}
    BY <1>6 DEF HubDrop
  <2>2. [ups[e] EXCEPT !.state = "dropped"].state = "dropped"
    BY <1>1 DEF Up
  <2> QED  BY <1>1, <1>2, <2>1, <2>2
<1>8. ASSUME NEW t \in Threads, Ack(t) \/ DeliverLast(t)  PROVE ups'[e] = ups[e] \/ ups'[e] = Absent
  BY <1>8, LetGo
<1>7. CASE /\ ~\E p \in Pumps : HubAdd(p) \/ BindSubscribe(p) \/ BindStore(p) \/ Unbind(p)
           /\ ~\E t \in Threads : LossTake(t) \/ Ack(t) \/ DeliverLast(t)
           /\ ~UnsubHub /\ ~CloseHub /\ ~HubDrop
  BY <1>2, <1>7, OtherUps
<1> QED  BY <1>1, <1>2, <1>3, <1>4, <1>5, <1>6, <1>7, <1>8

LEMMA NextUpheld ==
  ASSUME ~BindMayFail, TypeOK, Ownership, Endings, Dropping, Upheld, [Next]_vars
  PROVE  Upheld'
<1>1. /\ svc \in Threads /\ svc \notin Pumps
      /\ \A p \in Pumps : p \in Threads
      /\ \A p \in Pumps : pc[p] \in {"add", "bind", "store", "ack", "unbind"} => hand[p] \in Subscription
      /\ ups \in [Events -> Up]
      /\ pc = [t \in Threads |-> pc[t]] /\ todo = [t \in Threads |-> todo[t]]
  BY ThreadsAssumption DEF Threads, TypeOK, Working
<1>2. ASSUME NEW p \in Pumps, pc'[p] \in {"bind", "store", "ack"}  PROVE Held(hand[p])'
  <2>1. CASE HubAdd(p) /\ pc[p] = "add"
    <3>1. ~HubClosed /\ hand' = hand /\ ups' = [ups EXCEPT ![hand[p].event] = Joined(hand[p].event, hand[p])]
      BY <1>1, <1>2, <2>1 DEF HubAdd, Goto
    <3>2. hand[p].event \in Events
      BY <1>1, <2>1 DEF Subscription
    <3>3. hand[p] \in Joined(hand[p].event, hand[p]).ids
      BY <1>1, <3>2 DEF Joined, Up
    <3>4. hand'[p] \in ups'[hand'[p].event].ids
      BY <1>1, <3>1, <3>2, <3>3
    <3> QED  BY <3>4 DEF Held
  <2>2. CASE pc[p] \in {"bind", "store", "ack"} /\ hand'[p] = hand[p]
    <3>1. Held(hand[p]) /\ hand[p] \in Subscription
      BY <1>1, <2>2 DEF Upheld, JobsHeld
    <3>2. hand[p] \in subscribers' => hand[p] \in subscribers
      BY <1>1, Newcomers DEF Ownership, RegisteringPrivate
    <3>3. PICK s \in Subscription : s = hand[p]
      BY <3>1
    <3>4. Held(s)'
      BY <3>1, <3>2, <3>3, NextHeld
    <3> QED  BY <2>2, <3>3, <3>4 DEF Held
  <2>3. CASE BindSubscribe(p) \/ BindStore(p)
    BY <2>2, <2>3 DEF BindSubscribe, BindStore
  <2> QED  BY <1>2, <2>1, <2>2, <2>3, Arrivals DEF HubAdd
<1>3. JobsHeld'
  BY <1>2 DEF JobsHeld
<1>4. RegisteredIsHeld'
  <2>1. ASSUME NEW c \in Conns, NEW k \in DOMAIN out'[c], out'[c][k].kind = "registered"
        PROVE  Held(out[c][k].sub)'
    <3>1. PICK s \in Subscription : s = out'[c][k].sub
      <4>1. out'[c] \in Seq(Frame)
        BY NextType DEF TypeOK
      <4>2. out'[c][k] \in Frame
        BY <4>1
      <4> QED  BY <4>2 DEF Frame
    <3>2. CASE k \in DOMAIN out[c] /\ out'[c][k] = out[c][k]
      <4>1. Held(s)
        BY <2>1, <3>1, <3>2 DEF Upheld, RegisteredIsHeld, Sent, Held, Ending, Losing
      <4>2. s \in subscribers' => s \in subscribers
        BY <3>1, <3>2, Newcomers DEF Endings, NoticesOld
      <4>3. Held(s)'
        BY <4>1, <4>2, NextHeld
      <4> QED  BY <3>1, <4>3 DEF Held
    <3>3. ASSUME NEW p \in Pumps, pc[p] = "ack", out'[c][k].sub = hand[p]
          PROVE  Held(out[c][k].sub)'
      <4>1. Held(s) /\ s = hand[p]
        BY <3>1, <3>3 DEF Upheld, JobsHeld
      <4>2. s \in subscribers' => s \in subscribers
        BY <1>1, <4>1, Newcomers DEF Ownership, RegisteringPrivate
      <4>3. Held(s)'
        BY <4>1, <4>2, NextHeld
      <4> QED  BY <3>1, <4>3 DEF Held
    <3> QED  BY <2>1, <3>2, <3>3, RegisteredFrames
  <2> QED  BY <2>1 DEF RegisteredIsHeld, Sent, Held, Ending, Losing
<1>5. ClosingUnheld'
  <2> SUFFICES ASSUME pc'[svc] = "closeHub" PROVE todo'[svc] \cap subscribers' = {}
    BY DEF ClosingUnheld
  <2>1. CASE CloseErase
    BY <1>1, <2>1 DEF CloseErase
  <2>2. CASE ~CloseErase
    <3>1. pc[svc] = "closeHub" /\ todo'[svc] \subseteq todo[svc]
      BY <1>1, <2>2, ServiceCloses
    <3> QED  BY <3>1, Newcomers DEF Upheld, ClosingUnheld
  <2> QED  BY <2>1, <2>2
<1>6. AbsentEmpty'
  BY UpsEmpty DEF Upheld, AbsentEmpty
<1>7. UnbindsClosed'
  <2> SUFFICES ASSUME NEW p \in Pumps, pc'[p] = "unbind" PROVE HubClosed'
    BY DEF UnbindsClosed
  <2>1. HubClosed => HubClosed'
    BY StagesGrow
  <2>2. pc[p] = "unbind" => HubClosed
    BY DEF Upheld, UnbindsClosed
  <2>3. BindSubscribe(p) \/ BindStore(p) => HubClosed
    BY <1>1 DEF BindSubscribe, BindStore, Goto
  <2>4. ~HubAdd(p)
    BY <1>1 DEF HubAdd, Goto
  <2> QED  BY <2>1, <2>2, <2>3, <2>4, Arrivals
<1> QED  BY <1>3, <1>4, <1>5, <1>6, <1>7 DEF Upheld

(* Where no upstream subscribe is refused, what was acknowledged is held   *)
(* upstream until a loss, an unsubscribe or the close of its connection    *)
(* ends it, also while the bridge shuts down.  Where one may be refused it *)
(* is not so: a failed bind drops the Up under whoever joined it.          *)
THEOREM AcknowledgedIsHeld ==
  ASSUME ~BindMayFail
  PROVE  Spec => []RegisteredIsHeld
<1> DEFINE Safe == TypeOK /\ Ownership /\ Endings /\ Quiescence /\ Upheld
<1>1. Init => Safe
  <2> SUFFICES ASSUME Init PROVE Upheld
    BY InitInv, InitQuiescence DEF Inv
  <2>1. /\ \A t \in Threads : pc[t] = "idle"
        /\ \A e \in Events : ups[e].ids = {}
        /\ \A c \in Conns : DOMAIN out[c] = {}
    BY DEF Init, Absent
  <2>2. svc \in Threads /\ \A p \in Pumps : p \in Threads
    BY DEF Threads
  <2> QED
    BY <2>1, <2>2 DEF Upheld, JobsHeld, RegisteredIsHeld, Sent, ClosingUnheld, AbsentEmpty,
                      UnbindsClosed
<1>2. Safe /\ [Next]_vars => Safe'
  BY NextInv, NextQuiescence, NextUpheld DEF Inv, Quiescence
<1>3. Safe => RegisteredIsHeld
  BY DEF Upheld
<1> HIDE DEF Safe
<1> QED  BY <1>1, <1>2, <1>3, PTL DEF Spec
=============================================================================

------------------------------ MODULE Clients ------------------------------
(***************************************************************************)
(* One target module's upstream clients: how ClientRegistry leases, counts, *)
(* replaces and releases them, and how SubscriptionHub moves its           *)
(* subscriptions and its loss watcher from a replaced client to the next   *)
(* (src/upstream.h), with the hooks BridgeCore puts between the two.       *)
(*                                                                         *)
(* A client is named by its epoch.  It lives while something refers to it, *)
(* and whoever drops the last reference destroys it, which waits for the   *)
(* client's running callbacks to end.                                      *)
(*                                                                         *)
(* Time is abstract: whether RecyclePolicy finds a replacement due, and    *)
(* whether a retired client's deadline has passed, is a free choice.       *)
(***************************************************************************)
EXTENDS Naturals, Sequences, FiniteSets

CONSTANTS
  Calls,          \* calls made through the registry
  Events,         \* events that have or get an upstream subscription
  Pumps,          \* pump threads
  MaxEpoch,       \* bound: clients made
  BindRounds,     \* kBindRounds
  MaxReports,     \* bound: status reports
  MayStop         \* may the bridge be shut down?

Epochs == 1..MaxEpoch

(* Who refers to a client, besides the pump threads: its slot, the box it  *)
(* is released through, m_unreleased, the main thread in close().          *)
Holders == {"slot", "box", "unreleased", "main"}

ASSUME ClientsAssumption ==
  /\ MaxEpoch \in Nat \ {0} /\ BindRounds \in Nat \ {0} /\ MaxReports \in Nat
  /\ MayStop \in BOOLEAN
  /\ Pumps \cap Holders = {}

VARIABLES
  epoch,        \* the current client's epoch; 0 before the first
  slots,        \* per epoch, its Slot: calls in flight, retired, has its client
  retired,      \* m_retired
  refs,         \* per client, who refers to it
  box,          \* per client being released, who shares the box it is in
  gone,         \* per client, which kind of thread destroyed it ("no": alive)
  expired,      \* clients given up at the deadline
  stage,        \* how far the shutdown has come
  queue,        \* pump jobs: replacements and releases
  call,         \* per call, where it is and on which client
  ups,          \* per event, the epoch its handle came from; NoUp if there is no Up
  refused,      \* history: per Up, the last client that refused its subscribe
  watch,        \* Watch: installed, accept
  watchers,     \* clients whose status callback is set
  report,       \* per client, what its status callback is doing
  reports,      \* how much of MaxReports is used
  baseline,     \* the client whose report discovery's baseline came from; 0: reset
  pc, lease, round,    \* per pump thread: where it is, its lease, bind's round,
  todo, binding,       \* the Ups it is still to bind and the one it binds,
  adding, dead         \* the one add has made, those of the former no longer in m_up

registry == <<epoch, slots, retired, refs, box, gone, expired>>
handles == <<ups, refused>>
hub == <<handles, watch, watchers>>
status == <<report, reports, baseline>>
work == <<round, todo, binding, adding, dead>>
pump == <<pc, lease, work>>
vars == <<registry, hub, status, stage, queue, call, pump>>

NoUp == MaxEpoch + 1
Max2(a, b) == IF a > b THEN a ELSE b

Closed == stage \in {"closing", "closed", "stopped"}
HubClosed == stage # "running"
PumpRunning == stage # "stopped"

----------------------------------------------------------------------------
(* Client lifetime *)

(* A client's callbacks: a call being answered, or a status report.        *)
Answering == {"release", "unbox", "repost"}
InCallback(k) ==
  report[k] # "idle" \/ \E c \in Calls : call[c].epoch = k /\ call[c].pc \in Answering

(* `who` drops its references to the clients in K. *)
Drop(who, K, kind) ==
  LET last == {k \in K : refs[k] = {who}} IN
  /\ kind # "callback" => \A k \in last : ~InCallback(k)
  /\ refs' = [k \in Epochs |-> IF k \in K THEN refs[k] \ {who} ELSE refs[k]]
  /\ gone' = [k \in Epochs |-> IF k \in last THEN kind ELSE gone[k]]

(* currentLocked: the first use of the module makes its first client. *)
Current == IF epoch = 0 THEN 1 ELSE epoch

NewSlot == [inFlight |-> 0, retired |-> FALSE, has |-> TRUE]

----------------------------------------------------------------------------
(* ClientRegistry::invoke, on a pump thread *)

(* The retired clients past their deadline are moved out under the lock    *)
(* and destroyed after it, here by pump thread p.                          *)
Sweep(S, X) == [k \in Epochs |-> IF k \in X THEN [S[k] EXCEPT !.has = FALSE] ELSE S[k]]

(* The call is counted on the client it goes through.                      *)
CountIn(k) == [slots EXCEPT ![k].inFlight = @ + 1, ![k].has = TRUE]

Invoke(p, c) ==
  LET k == Current IN
  /\ pc[p] = "idle" /\ PumpRunning /\ call[c].pc = "new"
  /\ \/ /\ Closed
        /\ call' = [call EXCEPT ![c].pc = "answered"]
        /\ UNCHANGED <<registry, pump>>
     \/ /\ ~Closed
        /\ \E X \in SUBSET retired :
             /\ slots' = Sweep(CountIn(k), X)
             /\ retired' = retired \ X
             /\ expired' = expired \cup X
             /\ refs' = [j \in Epochs |->
                          IF j \in X THEN (refs[j] \ {"slot"}) \cup {p}
                          ELSE IF j = k THEN refs[j] \cup {"slot", p} ELSE refs[j]]
        /\ epoch' = k
        /\ call' = [call EXCEPT ![c] = [pc |-> "invoking", epoch |-> k, by |-> p]]
        /\ pc' = [pc EXCEPT ![p] = "expire"]
        /\ lease' = [lease EXCEPT ![p] = k]
        /\ UNCHANGED <<box, gone, work>>
  /\ UNCHANGED <<hub, status, stage, queue>>

DropExpired(p) ==
  /\ pc[p] = "expire"
  /\ Drop(p, {k \in Epochs \ {lease[p]} : p \in refs[k]}, "pump")
  /\ pc' = [pc EXCEPT ![p] = "send"]
  /\ UNCHANGED <<epoch, slots, retired, box, expired, hub, status, stage, queue, call,
                 lease, work>>

InvokeAsync(p) ==
  /\ pc[p] = "send"
  /\ \E c \in Calls :
       /\ call[c].pc = "invoking" /\ call[c].by = p
       /\ call' = [call EXCEPT ![c].pc = "sent"]
  /\ pc' = [pc EXCEPT ![p] = "return"]
  /\ UNCHANGED <<registry, hub, status, stage, queue, lease, work>>

(* The end of a pump job: its last references to clients go. *)
ReturnJob(p) ==
  /\ pc[p] = "return"
  /\ Drop(p, {k \in Epochs : p \in refs[k]}, "pump")
  /\ pc' = [pc EXCEPT ![p] = "idle"]
  /\ lease' = [lease EXCEPT ![p] = 0]
  /\ UNCHANGED <<epoch, slots, retired, box, expired, hub, status, stage, queue, call, work>>

----------------------------------------------------------------------------
(* A call's answer: finished(), on the client's owner thread *)

(* The answer that leaves a retired client without calls in flight. *)
LastAnswer_Late(k) == slots[k].retired /\ slots[k].inFlight = 0 /\ slots[k].has

LastAnswer(k) == slots[k].retired /\ slots[k].inFlight = 1 /\ slots[k].has

Finished(c) ==
  LET k == call[c].epoch
      last == LastAnswer(k)
  IN
  /\ call[c].pc = "sent" /\ gone[k] = "no"
  /\ slots' = [slots EXCEPT ![k].inFlight = @ - 1,
                            ![k].has = IF last THEN FALSE ELSE @]
  /\ IF last
     THEN /\ retired' = retired \ {k}
          /\ refs' = [refs EXCEPT ![k] = (@ \ {"slot"}) \cup {"box"}]
          /\ box' = [box EXCEPT ![k] = {"callback"}]
     ELSE UNCHANGED <<retired, refs, box>>
  /\ \E next \in {"answered", "repost"} :
       /\ next = "repost" => ~Closed /\ epoch = k /\ k < MaxEpoch
          \* unavailable, and a replacement is due
       /\ call' = [call EXCEPT ![c].pc = IF last THEN "release" ELSE next]
  /\ UNCHANGED <<epoch, gone, expired, hub, status, stage, queue, pump>>

(* The box is shared by the callback and the job; a refused post leaves    *)
(* the client with the registry.                                           *)
PostRelease_Inline(c) ==
  /\ call[c].pc = "release"
  /\ call' = [call EXCEPT ![c].pc = "unbox"]
  /\ UNCHANGED <<registry, hub, status, stage, queue, pump>>

PostRelease(c) ==
  LET k == call[c].epoch IN
  /\ call[c].pc = "release"
  /\ IF PumpRunning
     THEN /\ queue' = Append(queue, [kind |-> "release", epoch |-> k])
          /\ box' = [box EXCEPT ![k] = @ \cup {"job"}]
          /\ UNCHANGED refs
     ELSE /\ refs' = [refs EXCEPT ![k] = (@ \ {"box"}) \cup {"unreleased"}]
          /\ UNCHANGED <<queue, box>>
  /\ call' = [call EXCEPT ![c].pc = "unbox"]
  /\ UNCHANGED <<epoch, slots, retired, gone, expired, hub, status, stage, pump>>

(* finished() lets go of the box; an emptied box holds nothing. *)
Unbox(c) ==
  LET k == call[c].epoch IN
  /\ call[c].pc = "unbox"
  /\ box' = [box EXCEPT ![k] = @ \ {"callback"}]
  /\ IF box[k] = {"callback"} /\ "box" \in refs[k]
     THEN Drop("box", {k}, "callback")
     ELSE UNCHANGED <<refs, gone>>
  /\ call' = [call EXCEPT ![c].pc = "answered"]
  /\ UNCHANGED <<epoch, slots, retired, expired, hub, status, stage, queue, pump>>

PostReplace(c) ==
  /\ call[c].pc = "repost"
  /\ queue' = IF PumpRunning
              THEN Append(queue, [kind |-> "replace", epoch |-> call[c].epoch])
              ELSE queue
  /\ call' = [call EXCEPT ![c].pc = "answered"]
  /\ UNCHANGED <<registry, hub, status, stage, pump>>
----------------------------------------------------------------------------
(* ClientRegistry::replace and releases, on a pump thread *)

RunRelease(p) ==
  /\ pc[p] = "idle" /\ PumpRunning /\ queue # <<>> /\ Head(queue).kind = "release"
  /\ LET k == Head(queue).epoch IN
       /\ queue' = Tail(queue)
       /\ box' = [box EXCEPT ![k] = @ \ {"job"}]
       /\ Drop("box", {k}, "pump")
  /\ UNCHANGED <<epoch, slots, retired, expired, hub, status, stage, call, pump>>

(* A client with calls in flight waits for them in m_retired. *)
Idle_Always(k) == TRUE

Idle(k) == slots[k].inFlight = 0

(* A replacement someone else has already made is left alone. *)
Replace(p) ==
  LET k == Head(queue).epoch
      idle == Idle(k)
  IN
  /\ pc[p] = "idle" /\ PumpRunning /\ queue # <<>> /\ Head(queue).kind = "replace"
  /\ queue' = Tail(queue)
  /\ \/ /\ Closed \/ epoch # k
        /\ UNCHANGED <<registry, pump>>
     \/ /\ ~Closed /\ epoch = k
        /\ epoch' = k + 1
        /\ \E X \in SUBSET retired :
             /\ slots' = Sweep([slots EXCEPT ![k].retired = TRUE, ![k].has = ~idle,
                                             ![k + 1] = NewSlot], X)
             /\ retired' = (retired \ X) \cup (IF idle THEN {} ELSE {k})
             /\ expired' = expired \cup X
             /\ refs' = [j \in Epochs |->
                          IF j \in X \/ (j = k /\ idle) THEN (refs[j] \ {"slot"}) \cup {p}
                          ELSE IF j = k + 1 THEN {"slot"} ELSE refs[j]]
        /\ lease' = [lease EXCEPT ![p] = k + 1]     \* `next`, for onReplaced
        /\ pc' = [pc EXCEPT ![p] = "dying"]
        /\ UNCHANGED <<box, gone, work>>
  /\ UNCHANGED <<hub, status, stage, call>>

DropDying(p) ==
  /\ pc[p] = "dying"
  /\ Drop(p, {k \in Epochs : p \in refs[k]}, "pump")
  /\ pc' = [pc EXCEPT ![p] = "retire"]
  /\ UNCHANGED <<epoch, slots, retired, box, expired, hub, status, stage, queue, call,
                 lease, work>>

----------------------------------------------------------------------------
(* onReplaced: the hub stops counting the old client's reports, discovery  *)
(* starts over, the hub binds every Up anew                                *)

Retire(p) ==
  /\ pc[p] = "retire"
  /\ watch' = [watch EXCEPT !.accept = Max2(@, lease[p])]
  /\ pc' = [pc EXCEPT ![p] = "reset"]
  /\ UNCHANGED <<registry, handles, watchers, status, stage, queue, call, lease, work>>

ResetBaseline(p) ==
  /\ pc[p] = "reset"
  /\ baseline' = 0
  /\ pc' = [pc EXCEPT ![p] = "rebind"]
  /\ UNCHANGED <<registry, hub, report, reports, stage, queue, call, lease, work>>

Rebind(p) ==
  /\ pc[p] = "rebind"
  /\ lease' = [lease EXCEPT ![p] = 0]
  /\ todo' = [todo EXCEPT ![p] = IF HubClosed THEN {} ELSE {e \in Events : ups[e] # NoUp}]
  /\ pc' = [pc EXCEPT ![p] = "next"]
  /\ UNCHANGED <<registry, hub, status, stage, queue, call, round, binding, adding, dead>>

(* SubscriptionHub::add of an event's first subscriber: a new Up to bind. *)
Add(p, e) ==
  /\ pc[p] = "idle" /\ PumpRunning /\ ~HubClosed /\ ups[e] = NoUp
  /\ ups' = [ups EXCEPT ![e] = 0]
  /\ todo' = [todo EXCEPT ![p] = {e}]
  /\ adding' = [adding EXCEPT ![p] = {e}]
  /\ pc' = [pc EXCEPT ![p] = "next"]
  /\ UNCHANGED <<registry, refused, watch, watchers, status, stage, queue, call, lease,
                 round, binding, dead>>

BindNext(p) ==
  /\ pc[p] = "next"
  /\ \E e \in todo[p] :
       /\ todo' = [todo EXCEPT ![p] = @ \ {e}]
       /\ binding' = [binding EXCEPT ![p] = {e}]
  /\ round' = [round EXCEPT ![p] = 1]
  /\ pc' = [pc EXCEPT ![p] = "lease"]
  /\ UNCHANGED <<registry, hub, status, stage, queue, call, lease, adding, dead>>

(* The end of rebind, or of add, which takes its Up out of m_up if nobody  *)
(* has bound it.  Whoever still has that Up to bind has it no longer live. *)
BindsDone(p) ==
  LET failed == {e \in adding[p] : ups[e] = 0} IN
  /\ pc[p] = "next" /\ todo[p] = {}
  /\ ups' = [e \in Events |-> IF e \in failed THEN NoUp ELSE ups[e]]
  /\ refused' = [e \in Events |-> IF e \in failed THEN 0 ELSE refused[e]]
  /\ dead' = [q \in Pumps |-> dead[q] \cup (failed \cap (todo[q] \cup binding[q]))]
  /\ adding' = [adding EXCEPT ![p] = {}]
  /\ pc' = [pc EXCEPT ![p] = "return"]
  /\ UNCHANGED <<registry, watch, watchers, status, stage, queue, call, lease,
                 round, todo, binding>>

(* liveLocked: the Up that p has in hand is still the one in m_up, which   *)
(* clear empties as it closes the hub.                                     *)
Live(p, e) == ~HubClosed /\ ups[e] # NoUp /\ e \notin dead[p]

(* bind returns: its lease goes, and rebind turns to the next Up. *)
Bound(p) ==
  /\ binding' = [binding EXCEPT ![p] = {}]
  /\ dead' = [dead EXCEPT ![p] = @ \ binding[p]]
  /\ pc' = [pc EXCEPT ![p] = "unlease"]

Unlease(p) ==
  /\ pc[p] = "unlease"
  /\ Drop(p, {k \in Epochs : p \in refs[k]}, "pump")
  /\ lease' = [lease EXCEPT ![p] = 0]
  /\ round' = [round EXCEPT ![p] = 0]
  /\ pc' = [pc EXCEPT ![p] = "next"]
  /\ UNCHANGED <<epoch, slots, retired, box, expired, hub, status, stage, queue, call,
                 todo, binding, adding, dead>>

BindLease(p) ==
  LET k == Current IN
  /\ pc[p] = "lease"
  /\ \/ /\ Closed
        /\ Bound(p)
        /\ UNCHANGED <<registry, lease>>
     \/ /\ ~Closed
        /\ epoch' = k
        /\ slots' = [slots EXCEPT ![k].has = TRUE]
        /\ refs' = [refs EXCEPT ![k] = @ \cup {"slot", p}]
        /\ lease' = [lease EXCEPT ![p] = k]
        /\ pc' = [pc EXCEPT ![p] = "check"]
        /\ UNCHANGED <<retired, box, gone, expired, binding, dead>>
  /\ UNCHANGED <<hub, status, stage, queue, call, todo, round, adding>>

BindCheck(p, e) ==
  /\ pc[p] = "check" /\ e \in binding[p]
  /\ IF ~Live(p, e) \/ ups[e] >= lease[p]
     THEN Bound(p)
     ELSE /\ pc' = [pc EXCEPT ![p] = "watch"]
          /\ UNCHANGED <<binding, dead>>
  /\ UNCHANGED <<registry, hub, status, stage, queue, call, lease, todo, round, adding>>

(* ensureLossWatcher: claimed under the lock, set outside it. *)
WatchClaim_PerModule(p) ==
  /\ pc[p] = "watch"
  /\ IF watch.installed # 0
     THEN /\ pc' = [pc EXCEPT ![p] = "subscribe"]
          /\ UNCHANGED watch
     ELSE /\ watch' = [installed |-> lease[p], accept |-> Max2(watch.accept, lease[p])]
          /\ pc' = [pc EXCEPT ![p] = "install"]
  /\ UNCHANGED <<registry, handles, watchers, status, stage, queue, call, lease, work>>

WatchClaim(p) ==
  /\ pc[p] = "watch"
  /\ IF watch.installed >= lease[p]
     THEN /\ pc' = [pc EXCEPT ![p] = "subscribe"]
          /\ UNCHANGED watch
     ELSE /\ watch' = [installed |-> lease[p], accept |-> Max2(watch.accept, lease[p])]
          /\ pc' = [pc EXCEPT ![p] = "install"]
  /\ UNCHANGED <<registry, handles, watchers, status, stage, queue, call, lease, work>>

WatchInstall(p) ==
  /\ pc[p] = "install"
  /\ watchers' = watchers \cup {lease[p]}
  /\ pc' = [pc EXCEPT ![p] = "subscribe"]
  /\ UNCHANGED <<registry, handles, watch, status, stage, queue, call, lease, work>>

(* The upstream subscribe gives no valid handle, and bind returns: an Up   *)
(* that has a handle keeps it, whichever client that came from.            *)
BindRefused(p, e) ==
  /\ pc[p] = "subscribe" /\ e \in binding[p]
  /\ refused' = IF Live(p, e) THEN [refused EXCEPT ![e] = Max2(@, lease[p])] ELSE refused
  /\ Bound(p)
  /\ UNCHANGED <<registry, ups, watch, watchers, status, stage, queue, call, lease,
                 round, todo, adding>>

(* The upstream subscribe, then the swap: the newer client's handle stays. *)
BindSwap(p, e) ==
  /\ pc[p] = "subscribe" /\ e \in binding[p]
  /\ IF ~Live(p, e)
     THEN /\ Bound(p)
          /\ UNCHANGED ups
     ELSE /\ ups' = [ups EXCEPT ![e] = Max2(@, lease[p])]
          /\ pc' = [pc EXCEPT ![p] = "reread"]
          /\ UNCHANGED <<binding, dead>>
  /\ UNCHANGED <<registry, refused, watch, watchers, status, stage, queue, call, lease,
                 round, todo, adding>>

(* bind is done when the client is still the current one, or gives up.     *)
BindReread(p) ==
  /\ pc[p] = "reread" /\ (epoch = lease[p] \/ round[p] = BindRounds)
  /\ Bound(p)
  /\ UNCHANGED <<registry, hub, status, stage, queue, call, lease, todo, round, adding>>

(* A client replaced during the subscribe sends bind round again. *)
BindAgain(p) ==
  /\ pc[p] = "reread" /\ epoch # lease[p] /\ round[p] < BindRounds
  /\ Drop(p, {lease[p]}, "pump")
  /\ lease' = [lease EXCEPT ![p] = 0]
  /\ round' = [round EXCEPT ![p] = @ + 1]
  /\ pc' = [pc EXCEPT ![p] = "lease"]
  /\ UNCHANGED <<epoch, slots, retired, box, expired, hub, status, stage, queue, call,
                 todo, binding, adding, dead>>

----------------------------------------------------------------------------
(* Status reports: the watcher's callback, on an upstream thread *)

(* The report counts when its client is the accepted one. *)
ReportCheck(k) ==
  /\ k \in watchers /\ gone[k] = "no" /\ report[k] = "idle" /\ reports < MaxReports
  /\ reports' = reports + 1
  /\ IF ~HubClosed /\ watch.accept = k
     THEN report' = [report EXCEPT ![k] = "counts"]
     ELSE UNCHANGED report
  /\ UNCHANGED <<registry, hub, baseline, stage, queue, call, pump>>

(* m_statusHook: discovery takes the report for its baseline. *)
ReportApply(k) ==
  /\ report[k] = "counts"
  /\ baseline' = k
  /\ report' = [report EXCEPT ![k] = "idle"]
  /\ UNCHANGED <<registry, hub, reports, stage, queue, call, pump>>

----------------------------------------------------------------------------
(* Shutdown, on the main thread *)

HubClear ==
  /\ MayStop /\ stage = "running" /\ stage' = "hubCleared"
  /\ ups' = [e \in Events |-> NoUp]
  /\ UNCHANGED <<registry, refused, watch, watchers, status, queue, call, pump>>

(* close: every client in a slot or unreleased passes to the main thread. *)
Close ==
  /\ stage = "hubCleared" /\ stage' = "closing"
  /\ slots' = [k \in Epochs |-> [slots[k] EXCEPT !.has = FALSE]]
  /\ retired' = {}
  /\ refs' = [k \in Epochs |-> IF refs[k] \cap {"slot", "unreleased"} # {}
                               THEN (refs[k] \ {"slot", "unreleased"}) \cup {"main"}
                               ELSE refs[k]]
  /\ UNCHANGED <<epoch, box, gone, expired, hub, status, queue, call, pump>>

CloseDrop ==
  /\ stage = "closing" /\ stage' = "closed"
  /\ Drop("main", {k \in Epochs : "main" \in refs[k]}, "main")
  /\ UNCHANGED <<epoch, slots, retired, box, expired, hub, status, queue, call, pump>>

(* CallPump::stop drops the queued jobs, and with each release job its     *)
(* share of the box.                                                       *)
PumpStop ==
  LET dropped == {queue[n].epoch : n \in {m \in DOMAIN queue : queue[m].kind = "release"}}
      emptied == {k \in dropped : box[k] = {"job"}}
  IN
  /\ stage = "closed" /\ stage' = "stopped"
  /\ queue' = <<>>
  /\ box' = [k \in Epochs |-> IF k \in dropped THEN box[k] \ {"job"} ELSE box[k]]
  /\ Drop("box", emptied, "main")
  /\ UNCHANGED <<epoch, slots, retired, expired, hub, status, call, pump>>

----------------------------------------------------------------------------
Init ==
  /\ epoch = 0
  /\ slots = [k \in Epochs |-> [NewSlot EXCEPT !.has = FALSE]]
  /\ retired = {} /\ refs = [k \in Epochs |-> {}] /\ box = [k \in Epochs |-> {}]
  /\ gone = [k \in Epochs |-> "no"] /\ expired = {}
  /\ stage = "running" /\ queue = <<>>
  /\ call = [c \in Calls |-> [pc |-> "new", epoch |-> 0, by |-> CHOOSE p \in Pumps : TRUE]]
  /\ ups = [e \in Events |-> NoUp] /\ refused = [e \in Events |-> 0]
  /\ watch = [installed |-> 0, accept |-> 0] /\ watchers = {}
  /\ report = [k \in Epochs |-> "idle"] /\ reports = 0 /\ baseline = 0
  /\ pc = [p \in Pumps |-> "idle"] /\ lease = [p \in Pumps |-> 0]
  /\ round = [p \in Pumps |-> 0]
  /\ todo = [p \in Pumps |-> {}] /\ binding = [p \in Pumps |-> {}]
  /\ adding = [p \in Pumps |-> {}] /\ dead = [p \in Pumps |-> {}]

PumpStep(p) ==
  \/ RunRelease(p) \/ Replace(p) \/ DropExpired(p) \/ InvokeAsync(p) \/ ReturnJob(p)
  \/ DropDying(p) \/ Retire(p) \/ ResetBaseline(p) \/ Rebind(p) \/ BindNext(p)
  \/ BindsDone(p) \/ BindLease(p) \/ Unlease(p) \/ WatchClaim(p) \/ WatchInstall(p)
  \/ BindReread(p) \/ BindAgain(p)
  \/ \E e \in Events : BindCheck(p, e) \/ BindRefused(p, e) \/ BindSwap(p, e)

CallbackStep(c) == PostRelease(c) \/ Unbox(c) \/ PostReplace(c)

AtRest == queue = <<>> /\ (\A p \in Pumps : pc[p] = "idle") /\ \A k \in Epochs : ~InCallback(k)

Rest == AtRest /\ stage \in {"running", "stopped"} /\ UNCHANGED vars

Next ==
  \/ \E p \in Pumps : \/ PumpStep(p)
                      \/ \E c \in Calls : Invoke(p, c)
                      \/ \E e \in Events : Add(p, e)
  \/ \E c \in Calls : Finished(c) \/ CallbackStep(c)
  \/ \E k \in Epochs : ReportCheck(k) \/ ReportApply(k)
  \/ HubClear \/ Close \/ CloseDrop \/ PumpStop
  \/ Rest

Spec == Init /\ [][Next]_vars

----------------------------------------------------------------------------
(* Properties *)

(* "Calls already sent on the old connection are still answered" (README): *)
(* a client with a call outstanding is destroyed only at its five-minute   *)
(* deadline or when the registry closes.                                   *)
CallsOutliveReplacement ==
  \A c \in Calls :
    call[c].pc = "sent" /\ gone[call[c].epoch] # "no" => call[c].epoch \in expired \/ Closed

(* Nothing keeps a client for ever: once nothing is under way, the clients *)
(* left are the current one, replaced ones that wait for their calls,      *)
(* those a refused post gave back to the registry, and those close is      *)
(* destroying.                                                             *)
ReplacedAreReleased ==
  AtRest => \A k \in 1..epoch :
    \/ gone[k] # "no" \/ refs[k] \cap {"unreleased", "main"} # {}
    \/ stage \in {"running", "hubCleared"} /\ (k = epoch \/ slots[k].inFlight > 0)

(* A replacement moves every upstream subscription the new client accepts: *)
(* once nothing is under way an Up that is not on the current client was   *)
(* refused by that very client, and was not merely missed by a rebind that *)
(* raced its add or another replacement.  The current client's watcher is  *)
(* set and is the one whose reports count, for refused Ups as well.        *)
SubscriptionsFollow ==
  AtRest /\ ~HubClosed => \A e \in Events : ups[e] # NoUp =>
    /\ ups[e] = epoch \/ (ups[e] \in 1..(epoch - 1) /\ refused[e] = epoch)
    /\ epoch \in watchers
    /\ watch.installed = epoch /\ watch.accept = epoch

(* Invariant 4 of upstream.h: a client is never destroyed inside one of    *)
(* its own callbacks.                                                      *)
NeverInOwnCallback == \A k \in Epochs : gone[k] # "callback"

(* It holds as long as the pump runs the releases it has accepted. *)
ReleasedOnPump == stage # "stopped" => NeverInOwnCallback
=============================================================================

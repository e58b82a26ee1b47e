----------------------------- MODULE Discovery -----------------------------
(***************************************************************************)
(* Discovery of one exposed module (src/discovery.h): a refresh reads the  *)
(* live report, then lidl() and version(), and swaps in a new view; losses, *)
(* re-arms, a replaced client and calls that find the module unavailable   *)
(* make the view stale and start another one; a periodic re-read notices   *)
(* a build that changed unannounced.                                       *)
(*                                                                         *)
(* Upstream calls are answered at any time, their answers are handled on   *)
(* the pump threads, and every handler's work under the lock is one      *)
(* step; what it does after the unlock (decide, schedule, announce) is a   *)
(* later one.                                                              *)
(*                                                                         *)
(* The attempt counter is only ever compared with its current value, so a  *)
(* chain of calls carries whether its attempt still is the current one,    *)
(* and a bump clears that in every chain.  The failure count only chooses  *)
(* a delay, and time is abstract, so it is left out.                       *)
(***************************************************************************)
EXTENDS Naturals, FiniteSets

CONSTANTS
  Builds,         \* builds of the module, each with a live report of its own
  Typed,          \* the builds that list lidl
  Absent,         \* no build answers
  Pumps,          \* number of pump threads
  Revalidates,    \* is discovery.revalidate_ms positive?
  MaxChanges,     \* bound: provider changes
  MaxFaults,      \* bound: calls that fail though the provider is up
  MaxUnavailable, \* bound: bridged calls that report the module unavailable
  MaxReplaced     \* bound: client replacements

ASSUME DiscoveryAssumption ==
  /\ Typed \subseteq Builds /\ Absent \notin Builds /\ Revalidates \in BOOLEAN
  /\ Pumps \in Nat \ {0}
  /\ {MaxChanges, MaxFaults, MaxUnavailable, MaxReplaced} \subseteq Nat

VARIABLES
  view,         \* the served view: its status, live report, whether it is stale
  inFlight, retryArmed, checking,   \* the Slot's flags
  generation,   \* armedGeneration
  chains,       \* refreshes and revalidation reads under way
  scheduling,   \* handlers about to call scheduleRefresh
  timer,        \* is the module's retry timer set?
  jobs,         \* refresh jobs on the pump
  announcing,   \* build changes about to be announced to the hub
  provider,     \* the build that answers
  watch,        \* the hub's watcher: what it last reported, its generation
  unseen,       \* did the provider change since the watcher last looked?
  subscribed,   \* the build clients are subscribed to; Absent: none are
  used          \* how much of each bound is used

slot == <<view, inFlight, retryArmed, checking, generation>>
work == <<chains, scheduling, timer, jobs, announcing>>
world == <<provider, watch, unseen, subscribed>>
vars == <<slot, work, world, used>>

Status == {"pending", "untyped", "invalid", "ok"}

Resolved == view.status # "pending"

(* staleView: a pending view stays pending. *)
Stale(v) == [v EXCEPT !.stale = v.status # "pending"]

(* Its report is from before a loss, a re-arm or a replacement. *)
Outdated(v) == [v EXCEPT !.before = TRUE]

(* ++attempt: no chain is the current one any more.  A superseded refresh  *)
(* that waits for an answer is not resumed by it, so it is let go at once; *)
(* one that has resumed goes on, and finds out under the lock.             *)
Superseded(S) ==
  {[c EXCEPT !.cur = FALSE] : c \in {d \in S : d.step = "reread" \/ d.phase = "decided"}}

Past(S) == {Outdated(c) : c \in Superseded(S)}

(* A call of a chain: refreshes ask "interface", "lidl", "version" in turn, *)
(* a revalidation asks "reread".  It is out, then its answer is posted to  *)
(* the pump, then what follows from it is decided.                         *)
(* `before` records that its report is older than the last loss, re-arm or *)
(* replacement; `from` is the report whose replacement it still has to     *)
(* announce.                                                               *)
NewChain(step) ==
  [step |-> step, phase |-> "out", answer |-> Absent, live |-> Absent,
   verdict |-> "none", cur |-> TRUE, before |-> FALSE, from |-> Absent]

(* A handler between its decision and the lock, or about to announce, has  *)
(* a pump thread to itself.                                                *)
FreePump ==
  Cardinality({c \in chains : c.phase = "decided"}) + Cardinality(announcing) < Pumps

----------------------------------------------------------------------------
(* Refresh *)

(* A refresh job on a pump thread. *)
Refresh ==
  /\ FreePump /\ jobs > 0 /\ jobs' = jobs - 1
  /\ chains' = Superseded(chains) \cup {NewChain("interface")}
  /\ inFlight' = TRUE /\ retryArmed' = FALSE
  /\ UNCHANGED <<view, checking, generation, scheduling, timer, announcing, world, used>>

(* The upstream answers a call, or fails it; the answer is posted.         *)
Answer(c) ==
  /\ c.phase = "out"
  /\ \E a \in {provider, Absent} :
       /\ a # provider => used.faults < MaxFaults
       /\ chains' = (chains \ {c}) \cup {[c EXCEPT !.phase = "posted", !.answer = a]}
       /\ used' = [used EXCEPT !.faults = IF a # provider THEN @ + 1 ELSE @]
  /\ UNCHANGED <<slot, scheduling, timer, jobs, announcing, world>>

Decided(c, verdict) ==
  [c EXCEPT !.phase = "decided", !.verdict = verdict,
            !.answer = IF verdict = "restart" THEN @ ELSE Absent]
Ask(c, step) == [c EXCEPT !.step = step, !.phase = "out", !.answer = Absent]

(* onInterface: a live report without lidl is all there is to an untyped   *)
(* module.                                                                 *)
OnInterface(c) ==
  LET known == [c EXCEPT !.live = c.answer] IN
  IF c.answer = Absent THEN {Decided(c, "missed")}
  ELSE IF c.answer \notin Typed THEN {Decided(known, "untyped")}
  ELSE {Ask(known, "lidl")}

(* onContract: a failed call is worth a retry, an unreadable contract not. *)
OnContract(c) ==
  IF c.answer = Absent THEN {Decided(c, "retry")}
  ELSE {Decided(c, "invalid"), Ask(c, "version")}

(* checkedView: the cross-check accepts the contract or finds errors.      *)
OnVersion(c) == {Decided(c, "ok"), Decided(c, "invalid")}

Continuations(c) ==
  CASE c.step = "interface" -> OnInterface(c)
    [] c.step = "lidl" -> OnContract(c)
    [] c.step = "version" -> OnVersion(c)

(* The answer's job on the pump. *)
Resume(c) ==
  /\ FreePump /\ c.phase = "posted" /\ c.step # "reread"
  /\ \E d \in Continuations(c) : chains' = (chains \ {c}) \cup {d}
  /\ UNCHANGED <<slot, scheduling, timer, jobs, announcing, world, used>>

(* missed, publish: under the lock, and only if the attempt still is the   *)
(* current one.                                                            *)
StillCurrent_Unchecked(c) == TRUE

StillCurrent(c) == c.cur

Missed_Unscheduled(c) ==
  /\ c.verdict = "missed"
  /\ retryArmed' = TRUE
  /\ UNCHANGED <<view, scheduling>>

Missed(c) ==
  /\ c.verdict = "missed"
  /\ retryArmed' = TRUE /\ scheduling' = scheduling + 1
  /\ UNCHANGED view

Publish(c) ==
  /\ c.verdict \in {"untyped", "retry", "invalid", "ok"}
  /\ view' = [status |-> IF c.verdict = "retry" THEN "invalid" ELSE c.verdict,
              live |-> c.live, stale |-> FALSE, before |-> c.before]
  /\ retryArmed' = (c.verdict = "retry")
  /\ scheduling' = IF c.verdict = "retry" THEN scheduling + 1 ELSE scheduling

(* The change that the handler of a restarted refresh announces at its end. *)
AnnouncedBy(c) == IF c.from = Absent THEN {} ELSE {[from |-> c.from, to |-> c.live]}

Conclude(c) ==
  /\ c.phase = "decided" /\ c.step # "reread"
  /\ chains' = chains \ {c}
  /\ IF StillCurrent(c)
     THEN /\ Missed(c) \/ Publish(c)
          /\ inFlight' = FALSE
     ELSE UNCHANGED <<view, inFlight, retryArmed, scheduling>>
  /\ announcing' = announcing \cup AnnouncedBy(c)
  /\ UNCHANGED <<checking, generation, timer, jobs, world, used>>

(* scheduleRefresh: one timer per module, a newer one replaces the older.  *)
Schedule ==
  /\ scheduling > 0 /\ scheduling' = scheduling - 1
  /\ timer' = TRUE
  /\ UNCHANGED <<slot, chains, jobs, announcing, world, used>>

TimerFires ==
  /\ timer /\ timer' = FALSE
  /\ jobs' = jobs + 1
  /\ UNCHANGED <<slot, chains, scheduling, announcing, world, used>>

----------------------------------------------------------------------------
(* Events that void what discovery knows *)

(* What a loss, a re-arm and a replaced client have in common: answers     *)
(* still out are void, and a refresh is scheduled.                         *)
StartOver(v) ==
  /\ chains' = Past(chains)
  /\ inFlight' = FALSE /\ retryArmed' = TRUE
  /\ view' = Outdated(v)
  /\ scheduling' = scheduling + 1
  /\ UNCHANGED <<checking, timer, jobs, announcing>>

(* The watcher reports the provider lost: the hub ends the subscriptions,  *)
(* then onProviderLost.                                                    *)
OnProviderLost ==
  /\ watch.state = "armed" /\ unseen
  /\ watch' = [watch EXCEPT !.state = "lost"]
  /\ unseen' = FALSE /\ subscribed' = Absent
  /\ StartOver(Stale(view))
  /\ UNCHANGED <<generation, provider, used>>

(* The first subscription arms the watcher, and so does a provider that    *)
(* came back, under the client's next generation.                          *)
OnProviderArmed ==
  LET g == watch.generation + 1
      restarted == generation # 0 /\ g > generation
  IN
  /\ watch.state \in {"arming", "lost"} /\ provider # Absent
  /\ watch' = [state |-> "armed", generation |-> g]
  /\ unseen' = FALSE
  /\ generation' = IF g > generation THEN g ELSE generation
  /\ IF restarted \/ view.stale THEN StartOver(Stale(view))
     ELSE UNCHANGED <<view, inFlight, retryArmed, checking, work>>
  /\ UNCHANGED <<provider, subscribed, used>>

(* The new client counts generations from zero, and the hub arms its own   *)
(* watcher; the subscribers stay.                                          *)
OnClientReplaced ==
  /\ used.replaced < MaxReplaced /\ used' = [used EXCEPT !.replaced = @ + 1]
  /\ generation' = 0
  /\ StartOver(Stale(view))
  /\ watch' = [state |-> "arming", generation |-> 0]
  /\ UNCHANGED <<provider, unseen, subscribed>>

MarkUnavailable ==
  IF inFlight \/ retryArmed THEN UNCHANGED <<view, retryArmed, scheduling>>
  ELSE /\ view' = Stale(view)
       /\ retryArmed' = TRUE
       /\ scheduling' = scheduling + 1

(* A bridged call's answer, which may be late. *)
OnCallUnavailable ==
  /\ used.unavailable < MaxUnavailable /\ used' = [used EXCEPT !.unavailable = @ + 1]
  /\ MarkUnavailable
  /\ UNCHANGED <<inFlight, checking, generation, chains, timer, jobs, announcing, world>>

----------------------------------------------------------------------------
(* Revalidation *)

Settled == Resolved /\ ~inFlight /\ ~retryArmed

Revalidate ==
  /\ Revalidates /\ Settled /\ ~checking
  /\ checking' = TRUE
  /\ chains' = chains \cup {NewChain("reread")}
  /\ UNCHANGED <<view, inFlight, retryArmed, generation, scheduling, timer, jobs, announcing,
                 world, used>>

(* onRevalidated, the first time under the lock, and its verdict: a failed *)
(* read is either inconclusive or finds the module unreachable.            *)
Verdicts_Blind(c) == IF c.answer = Absent THEN {"keep", "mark"} ELSE {"keep"}

Verdicts(c) ==
  IF c.answer = Absent THEN {"keep", "mark"}
  ELSE IF c.answer = view.live THEN {"keep"} ELSE {"restart"}

OnRevalidated(c) ==
  /\ FreePump /\ c.phase = "posted" /\ c.step = "reread"
  /\ checking' = FALSE
  /\ IF c.cur /\ Settled
     THEN \E v \in Verdicts(c) : chains' = (chains \ {c}) \cup {Decided(c, v)}
     ELSE chains' = chains \ {c}
  /\ UNCHANGED <<view, inFlight, retryArmed, generation, scheduling, timer, jobs, announcing,
                 world, used>>

ActOnVerdict(c) == c.phase = "decided" /\ c.step = "reread"

Keep(c) ==
  /\ ActOnVerdict(c) /\ c.verdict = "keep"
  /\ chains' = chains \ {c}
  /\ UNCHANGED <<slot, scheduling, timer, jobs, announcing, world, used>>

MarkStale(c) ==
  /\ ActOnVerdict(c) /\ c.verdict = "mark"
  /\ chains' = chains \ {c}
  /\ MarkUnavailable
  /\ UNCHANGED <<inFlight, checking, generation, timer, jobs, announcing, world, used>>

(* Changed: a refresh that starts from the report in hand, unless another  *)
(* attempt began meanwhile.  Its handler announces the change at the end,  *)
(* which for an untyped module is after it has published the view.         *)
MayRestart_Unchecked(c) == TRUE

MayRestart(c) == c.cur /\ Settled

RestartFrom(c) ==
  LET chain == [NewChain("interface") EXCEPT !.answer = c.answer, !.before = c.before]
      typed == c.answer \in Typed
  IN
  /\ chains' = Superseded(chains \ {c}) \cup
                {IF typed THEN d ELSE [d EXCEPT !.from = view.live] : d \in OnInterface(chain)}
  /\ announcing' = IF typed THEN announcing \cup {[from |-> view.live, to |-> c.answer]}
                    ELSE announcing
  /\ inFlight' = TRUE
  /\ view' = Stale(view)

Restart(c) ==
  /\ ActOnVerdict(c) /\ c.verdict = "restart"
  /\ IF MayRestart(c) THEN RestartFrom(c)
     ELSE /\ chains' = chains \ {c}
          /\ UNCHANGED <<view, inFlight, announcing>>
  /\ UNCHANGED <<retryArmed, checking, generation, scheduling, timer, jobs, world, used>>

(* providerChanged: the hub ends the module's subscriptions. *)
Announce(a) ==
  /\ announcing' = announcing \ {a}
  /\ subscribed' = Absent
  /\ UNCHANGED <<slot, chains, scheduling, timer, jobs, provider, watch, unseen, used>>

----------------------------------------------------------------------------
(* The world: the module is started, stopped, reloaded; clients subscribe  *)

ProviderChanges ==
  /\ used.changes < MaxChanges /\ used' = [used EXCEPT !.changes = @ + 1]
  /\ provider' \in (Builds \cup {Absent}) \ {provider}
  /\ unseen' = TRUE
  /\ UNCHANGED <<slot, work, watch, subscribed>>

(* A reload between two polls of the watcher is never reported. *)
PollMisses ==
  /\ unseen /\ watch.state = "armed" /\ provider # Absent
  /\ unseen' = FALSE
  /\ UNCHANGED <<slot, work, provider, watch, subscribed, used>>

(* A client subscribes, and the watcher is armed for it. *)
Subscribe ==
  /\ subscribed = Absent /\ provider # Absent /\ watch.state = "armed"
  /\ subscribed' = provider
  /\ UNCHANGED <<slot, work, provider, watch, unseen, used>>

----------------------------------------------------------------------------
(* start() queues the first refresh. *)
Init ==
  /\ view = [status |-> "pending", live |-> Absent, stale |-> FALSE, before |-> FALSE]
  /\ inFlight = FALSE /\ retryArmed = FALSE /\ checking = FALSE /\ generation = 0
  /\ chains = {} /\ scheduling = 0 /\ timer = FALSE /\ jobs = 1 /\ announcing = {}
  /\ provider \in Builds \cup {Absent}
  /\ watch = [state |-> "arming", generation |-> 0] /\ unseen = FALSE
  /\ subscribed = Absent
  /\ used = [changes |-> 0, faults |-> 0, unavailable |-> 0, replaced |-> 0]

ChainStep(c) ==
  \/ Answer(c) \/ Resume(c) \/ Conclude(c)
  \/ OnRevalidated(c) \/ Keep(c) \/ MarkStale(c) \/ Restart(c)

Bridge ==
  \/ Refresh \/ Schedule \/ TimerFires \/ Revalidate
  \/ \E c \in chains : ChainStep(c)
  \/ \E a \in announcing : Announce(a)

World ==
  \/ OnProviderLost \/ OnProviderArmed \/ OnClientReplaced \/ OnCallUnavailable
  \/ ProviderChanges \/ PollMisses \/ Subscribe

Next == Bridge \/ World

Spec == Init /\ [][Next]_vars

(* Calls are answered (each has a timeout), the pump and the timer thread  *)
(* run, and the revalidation timer re-arms itself.  Nothing is assumed of  *)
(* the provider, the watcher or the clients.                               *)
Fairness ==
  /\ WF_vars(Refresh) /\ WF_vars(Schedule) /\ WF_vars(TimerFires) /\ WF_vars(Revalidate)
  /\ WF_vars(\E c \in chains : Answer(c))
  /\ WF_vars(\E c \in chains : Resume(c))
  /\ WF_vars(\E c \in chains : OnRevalidated(c))
  /\ WF_vars(\E c \in chains : Conclude(c))
  /\ WF_vars(\E c \in chains : Keep(c))
  /\ WF_vars(\E c \in chains : MarkStale(c))
  /\ WF_vars(\E c \in chains : Restart(c))
  /\ WF_vars(\E a \in announcing : Announce(a))

FairSpec == Spec /\ Fairness

----------------------------------------------------------------------------
(* Properties *)

(* The flags that keep other rediscoveries away stand for one that is under *)
(* way: a module that is pending, stale, in flight or waiting for a retry  *)
(* always has a current chain, a timer or a job left.                      *)
Coming == scheduling > 0 \/ timer \/ jobs > 0

NeverStranded ==
  /\ inFlight => \E c \in chains : c.cur /\ c.step # "reread"
  /\ retryArmed => Coming
  /\ (~Resolved \/ view.stale) /\ ~inFlight => Coming

(* A view that is served as fresh was read after everything discovery was  *)
(* told: an answer from before a loss, a re-arm or a replaced client never *)
(* passes for the provider that came after it.                             *)
FreshIsAfterLoss == Resolved /\ ~view.stale => ~view.before

(* Client subscriptions are ended as provider_changed only when the report *)
(* that is replaced and the one that replaces it differ, however many      *)
(* refreshes raced the revalidation read.                                  *)
EndsOnlyOnChange == \A a \in announcing : a.from # a.to

(* README, Revalidation: once the provider stays up, the served view comes *)
(* to be its own, whatever was lost, missed or raced before.               *)
Converges == <>[](provider = Absent \/ (Resolved /\ ~view.stale /\ view.live = provider))

(* README, Subscription loss: "When a provider goes away or is replaced,   *)
(* its subscriptions are terminated, not silently resumed": once the       *)
(* watcher has looked and the view shows the build that answers, no client *)
(* still holds a subscription to the build before it.                      *)
NotSilentlyResumed ==
  subscribed # Absent /\ ~unseen /\ announcing = {}
  /\ Resolved /\ ~view.stale /\ view.live = provider => subscribed = provider
=============================================================================

------------------------------ MODULE Recovery ------------------------------
(***************************************************************************)
(* How one module is reached again, in time: RecyclePolicy decides from    *)
(* the answers of the current client when to replace it                    *)
(* (src/recycle_policy.h, finished and replace in src/upstream.h), and     *)
(* discovery retries with a backoff that a replacement cuts short          *)
(* (src/discovery.h, src/retry_scheduler.h).  This composes what Clients   *)
(* and Discovery leave open in each other: when a replacement is due, and  *)
(* what it starts.                                                         *)
(*                                                                         *)
(* A client's connection can be wedged when the provider goes away in the  *)
(* middle of a message: every call through it then finds the module        *)
(* unavailable, also after the provider is back.                           *)
(*                                                                         *)
(* Time passes in ticks and only as far as it is compared: the age of the  *)
(* last decision, and what is left of the timer.  Anything due may be      *)
(* late.  Which build answers, and the contract it has, is in Discovery.   *)
(***************************************************************************)
EXTENDS Naturals, FiniteSets

CONSTANTS
  FirstGap, MaxGap,       \* kFirstGap, kMaxGap
  RetryBase, RetryCap,    \* kRetryBase, kRetryCap
  Threads,                \* number of pump and callback threads that may be in a handler
  MaxFailures,            \* bound: failures that are told apart
  MaxJobs, MaxReplaces,   \* bound: refresh and replace jobs that wait as time passes
  MaxCalls, MaxBridged,   \* bound: calls in flight, discovery's own and clients'
  MaxStops,               \* bound: times the provider goes away
  MaxFaults,              \* bound: calls that fail though the provider is up
  MaxReports              \* bound: losses and re-arms that the watcher reports

ASSUME RecoveryAssumption ==
  /\ {FirstGap, MaxGap, RetryBase, RetryCap} \subseteq Nat \ {0}
  /\ MaxFailures \in Nat \ {0}
  /\ FirstGap <= MaxGap /\ RetryBase <= RetryCap
  /\ {Threads, MaxJobs, MaxReplaces, MaxCalls, MaxBridged, MaxStops, MaxFaults, MaxReports}
       \subseteq Nat

VARIABLES
  up, wedged,    \* does the provider answer; is the current connection wedged?
  age, gap,      \* RecyclePolicy: time since m_since, up to MaxGap, and m_gap
  replaces,      \* replace jobs on the pump, by whether their epoch still is current
  calls,         \* calls in flight or answered; see Out
  view, inFlight, retryArmed, failures,   \* the Slot
  handlers,      \* what threads that have left the lock still do
  timer,         \* what is left of the module's retry timer, or NoTimer
  jobs,          \* refresh jobs on the pump
  streak,        \* history: replacements decided since the module last answered
  blamed,        \* history: did the current client find the module unavailable?
  used           \* how much of each bound is used

policy == <<age, gap, streak>>
registry == <<wedged, replaces, blamed>>
slot == <<view, inFlight, retryArmed, failures>>
due == <<timer, jobs>>
world == <<up, used>>
vars == <<policy, registry, slot, due, world, calls, handlers>>

Least(a, b) == IF a < b THEN a ELSE b

NoTimer == RetryCap + 1

(* retryDelay: doubles with every failure after the first, up to the cap.  *)
RetryDelay ==
  LET delay[n \in 0..MaxFailures] ==
        IF n <= 1 THEN RetryBase ELSE Least(2 * delay[n - 1], RetryCap)
  IN delay

(* Further failures are not told apart, as the delay has come to its cap.  *)
ASSUME FailuresSaturate == RetryDelay[MaxFailures] = RetryCap

(* A call: whose it is, whether it went through the current client, and,   *)
(* for a revalidation read, whether its attempt is the current one.  A     *)
(* "void" call is a superseded refresh's, which nothing resumes.           *)
Out(kind, step) ==
  [kind |-> kind, step |-> step, answer |-> "none", own |-> TRUE, cur |-> TRUE]

InFlight(kinds) == Cardinality({c \in calls : c.kind \in kinds})

(* ++attempt.  What a void call of a replaced client answers is of no      *)
(* consequence, so it is let go.                                           *)
Superseded ==
  LET unheard == {c \in calls : c.kind = "refresh" /\ c.answer = "none" /\ c.own} IN
  {c \in calls : c.kind \in {"void", "bridged"}}
    \cup {[c EXCEPT !.kind = "void"] : c \in unheard}
    \cup {[c EXCEPT !.cur = FALSE] : c \in {d \in calls : d.kind = "reread"}}

(* A handler that has left the lock: it will call scheduleRefresh, or has  *)
(* replaced the client and will tell discovery.                            *)
FreeThread == Cardinality(handlers) < Threads

Later(d) ==
  /\ FreeThread
  /\ handlers' = handlers \cup {[does |-> "schedule", delay |-> d]}

Replaced == [does |-> "replaced", delay |-> 0]

----------------------------------------------------------------------------
(* RecyclePolicy and ClientRegistry *)

NextGap(g) == Least(2 * g, MaxGap)

Counts_AnyClient(c) == TRUE
Counts_ClientsCallsOnly(c) == c.own /\ c.kind = "bridged"

(* Only the current client's answers count. *)
Counts(c) == c.own

Due == age >= gap

(* finished: what an answer says of the connection. *)
Judge(c, a) ==
  /\ blamed' = (blamed \/ (c.own /\ a = "unavailable"))
  /\ IF Counts(c) /\ a = "unavailable" /\ Due
     THEN /\ age' = 0 /\ gap' = NextGap(gap)
          /\ streak' = Least(streak + 1, MaxGap)
          /\ replaces' = [replaces EXCEPT !.own = @ + 1]
     ELSE /\ UNCHANGED <<age, replaces>>
          /\ gap' = IF Counts(c) /\ a = "ok" THEN FirstGap ELSE gap
          /\ streak' = IF c.own /\ a = "ok" THEN 0 ELSE streak

(* A refused authorisation reaches the module and counts as "ok"; another   *)
(* failure, a timeout for one, says nothing of the connection.             *)
Answers(c) ==
  (IF up /\ ~(c.own /\ wedged) THEN {"ok"} ELSE {"unavailable"})
    \cup (IF c.own THEN {} ELSE {"unavailable"})
    \cup (IF used.faults < MaxFaults THEN {"failed"} ELSE {})

(* The answer is judged, then handed to whoever asked. *)
Answer(c) ==
  /\ c.answer = "none"
  /\ \E a \in Answers(c) :
       /\ Judge(c, a)
       /\ used' = [used EXCEPT !.faults = IF a = "failed" THEN @ + 1 ELSE @]
       /\ calls' = (calls \ {c}) \cup
                     (IF c.kind = "void" \/ (c.kind = "bridged" /\ a # "unavailable") THEN {}
                      ELSE {[c EXCEPT !.answer = a]})
  /\ UNCHANGED <<wedged, slot, due, up, handlers>>

StillCurrent_Unchecked(epoch) == TRUE

StillCurrent(epoch) == epoch = "own"

(* replace, on the pump: a client that was replaced meanwhile is left alone. *)
Replace ==
  /\ FreeThread
  /\ \E epoch \in {"own", "old"} :
       /\ replaces[epoch] > 0
       /\ IF StillCurrent(epoch)
          THEN /\ Replaced \notin handlers   \* one at a time, so that they are told apart
               /\ wedged' = FALSE /\ blamed' = FALSE
               /\ replaces' = [own |-> 0, old |-> replaces.own + replaces.old - 1]
               /\ calls' = {[c EXCEPT !.own = FALSE] : c \in {d \in calls : d.kind # "void"}}
               /\ handlers' = handlers \cup {Replaced}
          ELSE /\ replaces' = [replaces EXCEPT ![epoch] = @ - 1]
               /\ UNCHANGED <<wedged, blamed, calls, handlers>>
  /\ UNCHANGED <<policy, slot, due, world>>

----------------------------------------------------------------------------
(* Discovery *)

Settled == view # "pending" /\ ~inFlight /\ ~retryArmed
Stale == IF view = "pending" THEN "pending" ELSE "stale"

(* What a loss, a re-arm and a replacement have in common. *)
StartOver ==
  /\ calls' = Superseded
  /\ inFlight' = FALSE /\ retryArmed' = TRUE /\ view' = Stale

(* onClientReplaced: rediscover now. *)
OnClientReplaced ==
  /\ Replaced \in handlers
  /\ handlers' = (handlers \ {Replaced}) \cup {[does |-> "schedule", delay |-> 0]}
  /\ StartOver
  /\ UNCHANGED <<policy, registry, failures, timer, jobs, world>>

(* onProviderLost and a restart in onProviderArmed: the later word on when *)
(* to rediscover.  A watcher reports a loss, or a generation that is not   *)
(* the first, only of a provider that went away; any re-arm counts when    *)
(* the view is stale.                                                      *)
OnProviderLost ==
  /\ used.stops > 0
  /\ used.reports < MaxReports /\ used' = [used EXCEPT !.reports = @ + 1]
  /\ StartOver
  /\ failures' = 1 /\ Later(RetryDelay[1])
  /\ UNCHANGED <<policy, registry, timer, jobs, up>>

OnProviderArmed ==
  /\ used.stops > 0 \/ view = "stale"
  /\ used.reports < MaxReports /\ used' = [used EXCEPT !.reports = @ + 1]
  /\ StartOver
  /\ Later(0)
  /\ UNCHANGED <<policy, registry, failures, timer, jobs, up>>

(* scheduleRefresh: the timer that was set is replaced, whichever is due   *)
(* first.                                                                  *)
Schedule ==
  /\ \E h \in handlers : /\ h.does = "schedule" /\ timer' = h.delay
                         /\ handlers' = handlers \ {h}
  /\ UNCHANGED <<policy, registry, slot, jobs, world, calls>>

TimerFires ==
  /\ timer = 0 /\ timer' = NoTimer /\ jobs' = jobs + 1
  /\ UNCHANGED <<policy, registry, slot, world, calls, handlers>>

Refresh ==
  /\ jobs > 0 /\ jobs' = jobs - 1
  /\ InFlight({"refresh", "void", "reread"}) < MaxCalls
  /\ calls' = Superseded \cup {Out("refresh", "interface")}
  /\ inFlight' = TRUE /\ retryArmed' = FALSE
  /\ UNCHANGED <<policy, registry, view, failures, timer, world, handlers>>

(* missed, and publish after a failed lidl(): once more, later each time.  *)
Retry ==
  /\ failures' = Least(failures + 1, MaxFailures)
  /\ retryArmed' = TRUE
  /\ Later(RetryDelay[failures'])

Missed == view' = view /\ Retry

Publish(retry) ==
  /\ view' = "fresh"
  /\ IF retry THEN Retry
     ELSE failures' = 0 /\ retryArmed' = FALSE /\ UNCHANGED handlers

(* onInterface and onContract on the pump; version() is taken as part of   *)
(* lidl(), since discovery goes on whatever it answers.                    *)
Resume(c) ==
  /\ c.kind = "refresh" /\ c.answer # "none"
  /\ \/ /\ c.answer = "ok" /\ c.step = "interface"
        /\ calls' = (calls \ {c}) \cup {Out("refresh", "lidl")}
        /\ UNCHANGED <<slot, handlers>>
     \/ /\ IF c.step = "lidl" THEN Publish(c.answer # "ok")
           ELSE IF c.answer = "ok" THEN Publish(FALSE) ELSE Missed
        /\ inFlight' = FALSE /\ calls' = calls \ {c}
  /\ UNCHANGED <<policy, registry, due, world>>

(* onCallUnavailable, after a bridged call and for a failed reread. *)
OnCallUnavailable(c) ==
  /\ c.kind = "bridged" /\ c.answer # "none"
  /\ calls' = calls \ {c}
  /\ IF inFlight \/ retryArmed THEN UNCHANGED <<slot, handlers>>
     ELSE /\ view' = Stale /\ failures' = 1 /\ retryArmed' = TRUE
          /\ Later(RetryDelay[1])
          /\ UNCHANGED inFlight
  /\ UNCHANGED <<policy, registry, due, world>>

Revalidate ==
  /\ Settled /\ InFlight({"reread"}) = 0
  /\ calls' = calls \cup {Out("reread", "interface")}
  /\ UNCHANGED <<policy, registry, slot, due, world, handlers>>

(* onRevalidated: an unreachable module goes on as an unavailable call.    *)
(* Some other failures count as that, and some are inconclusive.           *)
OnRevalidated(c) ==
  /\ c.kind = "reread" /\ c.answer # "none"
  /\ \E unreachable \in IF c.answer = "failed" THEN BOOLEAN ELSE {c.answer = "unavailable"} :
       calls' = (calls \ {c}) \cup
                  (IF c.cur /\ Settled /\ unreachable THEN {[c EXCEPT !.kind = "bridged"]} ELSE {})
  /\ UNCHANGED <<policy, registry, slot, due, world, handlers>>

----------------------------------------------------------------------------
(* The world *)

Call ==
  /\ InFlight({"bridged"}) < MaxBridged
  /\ calls' = calls \cup {Out("bridged", "call")}
  /\ UNCHANGED <<policy, registry, slot, due, world, handlers>>

Tick ==
  /\ jobs <= MaxJobs /\ replaces.own + replaces.old <= MaxReplaces
  /\ age < MaxGap \/ timer \in 1..RetryCap
  /\ age' = Least(age + 1, MaxGap)
  /\ timer' = IF timer \in 1..RetryCap THEN timer - 1 ELSE timer
  /\ UNCHANGED <<gap, streak, registry, slot, jobs, world, calls, handlers>>

ProviderStops ==
  /\ up /\ used.stops < MaxStops /\ used' = [used EXCEPT !.stops = @ + 1]
  /\ up' = FALSE
  /\ wedged' \in {wedged, TRUE}
  /\ UNCHANGED <<policy, replaces, blamed, slot, due, calls, handlers>>

ProviderStarts ==
  /\ ~up /\ up' = TRUE
  /\ UNCHANGED <<policy, registry, slot, due, used, calls, handlers>>

----------------------------------------------------------------------------
(* start() queues the first refresh; the first call makes the client.  A   *)
(* provider that is away from the start is one that stops at once.         *)
Init ==
  /\ up = TRUE /\ wedged = FALSE
  /\ age = 0 /\ gap = FirstGap /\ streak = 0 /\ blamed = FALSE
  /\ replaces = [own |-> 0, old |-> 0]
  /\ view = "pending" /\ inFlight = FALSE /\ retryArmed = FALSE /\ failures = 0
  /\ calls = {} /\ handlers = {}
  /\ timer = NoTimer /\ jobs = 1
  /\ used = [stops |-> 0, faults |-> 0, reports |-> 0]

CallStep(c) == Answer(c) \/ Resume(c) \/ OnCallUnavailable(c) \/ OnRevalidated(c)

Next ==
  \/ Refresh \/ Replace \/ OnClientReplaced \/ Schedule \/ TimerFires \/ Revalidate
  \/ \E c \in calls : CallStep(c)
  \/ OnProviderLost \/ OnProviderArmed
  \/ Call \/ Tick \/ ProviderStops \/ ProviderStarts

Spec == Init /\ [][Next]_vars

(* Time passes, calls are answered (each has a timeout), the pump and the  *)
(* timer thread run, and the revalidation timer re-arms itself.  Nothing   *)
(* is assumed of the provider, the watcher or the clients.                 *)
Fairness ==
  /\ WF_vars(Tick) /\ WF_vars(Refresh) /\ WF_vars(Replace) /\ WF_vars(OnClientReplaced)
  /\ WF_vars(Schedule) /\ WF_vars(TimerFires) /\ WF_vars(Revalidate)
  /\ \A kind \in {"refresh", "reread", "void", "bridged"} :
       WF_vars(\E c \in calls : c.kind = kind /\ CallStep(c))

FairSpec == Spec /\ Fairness

----------------------------------------------------------------------------
(* Properties *)

(* README, Replacing a connection: a provider that stays up is reached     *)
(* again, though the connection was wedged when it went away: the retries, *)
(* the re-reads and the clients' calls find the connection useless, it is  *)
(* replaced, and the module is discovered through the new one for good.    *)
Recovers == <>[](~up \/ (Settled /\ view = "fresh" /\ ~wedged))

(* The documented spacings, however few answers there were in between.     *)
Spacing == LET s[n \in 0..MaxGap] == IF n = 0 THEN FirstGap ELSE Least(2 * s[n - 1], MaxGap) IN s

(* README: "at least 2 s after the connection was made, then no sooner     *)
(* than 4, 8, ... up to 60 s after": however answers of several clients    *)
(* interleave, the n-th decision in a row waits for the n-th spacing.      *)
SpacedOut == [][age # 0 /\ age' = 0 => age >= Spacing[streak]]_vars

(* A connection is only given up for what it did itself: a replacement     *)
(* decided twice over, or run late, never costs the next connection.       *)
OwnFault == [][Replaced \notin handlers /\ Replaced \in handlers' => blamed]_vars
=============================================================================

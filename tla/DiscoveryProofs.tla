--------------------------- MODULE DiscoveryProofs ---------------------------
(***************************************************************************)
(* What discovery promises whatever builds there are and however losses,   *)
(* replacements, retries and revalidation reads race: its flags stand for  *)
(* a rediscovery under way, a fresh view is no older than the last loss,   *)
(* and subscriptions end only when the report changed.                     *)
(***************************************************************************)
EXTENDS Discovery, TLAPS

----------------------------------------------------------------------------
(* Types, and how chains relate to the slot *)

Answers == Builds \cup {Absent}

ChainType ==
  [step : {"interface", "lidl", "version", "reread"}, phase : {"out", "posted", "decided"},
   answer : Answers, live : Answers,
   verdict : {"none", "missed", "untyped", "retry", "invalid", "ok", "keep", "mark", "restart"},
   cur : BOOLEAN, before : BOOLEAN, from : Answers]

ViewType == [status : Status, live : Answers, stale : BOOLEAN, before : BOOLEAN]

Types ==
  /\ view \in ViewType /\ chains \subseteq ChainType /\ provider \in Answers
  /\ inFlight \in BOOLEAN /\ retryArmed \in BOOLEAN /\ timer \in BOOLEAN
  /\ scheduling \in Nat /\ jobs \in Nat

IsRefresh(c) == c.step # "reread"

(* A current refresh is the only current chain, and stands for inFlight. *)
OneCurrent ==
  /\ inFlight <=> \E c \in chains : c.cur /\ IsRefresh(c)
  /\ \A c, d \in chains : c.cur /\ d.cur /\ IsRefresh(c) => c = d

(* A current chain's report is from after the last loss, and one that found *)
(* another report than the view's, l, still does.  A chain that has a      *)
(* change to announce has published what replaced the old report.          *)
ChainOK(c, l) ==
  /\ c.cur => ~c.before
  /\ c.phase = "decided" /\ c.verdict = "restart" /\ c.cur => c.answer # l /\ c.answer # Absent
  /\ c.from # Absent => c.phase = "decided" /\ IsRefresh(c) /\ c.from # c.live
  /\ c.phase = "decided" => (IsRefresh(c) <=> c.verdict \notin {"keep", "mark", "restart"})

ChainsOK == \A c \in chains : ChainOK(c, view.live)

(* What has to be discovered and is not under way is on its way.           *)
Flags == (retryArmed => Coming) /\ ((~Resolved \/ view.stale) /\ ~inFlight => Coming)

Shape ==
  /\ Types /\ OneCurrent /\ ChainsOK /\ Flags
  /\ FreshIsAfterLoss /\ EndsOnlyOnChange

LEMMA ShapeSuffices == Shape => NeverStranded
  BY DEF Shape, OneCurrent, Flags, IsRefresh, NeverStranded

----------------------------------------------------------------------------
(* What a chain becomes *)

LEMMA FieldSet ==
  ASSUME NEW c \in ChainType
  PROVE  /\ \A x \in {"interface", "lidl", "version", "reread"} : [c EXCEPT !.step = x] \in ChainType
         /\ \A x \in {"out", "posted", "decided"} : [c EXCEPT !.phase = x] \in ChainType
         /\ \A x \in Answers : /\ [c EXCEPT !.answer = x] \in ChainType
                              /\ [c EXCEPT !.live = x] \in ChainType
                              /\ [c EXCEPT !.from = x] \in ChainType
         /\ \A x \in BOOLEAN : /\ [c EXCEPT !.cur = x] \in ChainType
                              /\ [c EXCEPT !.before = x] \in ChainType
  BY DEF ChainType

Verdict == {"none", "missed", "untyped", "retry", "invalid", "ok", "keep", "mark", "restart"}

LEMMA DecidedIs ==
  ASSUME NEW c \in ChainType, NEW v \in Verdict
  PROVE  /\ Decided(c, v) \in ChainType
         /\ Decided(c, v).phase = "decided" /\ Decided(c, v).verdict = v
         /\ Decided(c, v).step = c.step /\ Decided(c, v).live = c.live
         /\ Decided(c, v).cur = c.cur /\ Decided(c, v).before = c.before
         /\ Decided(c, v).from = c.from
         /\ Decided(c, v).answer = IF v = "restart" THEN c.answer ELSE Absent
<1> DEFINE d == [c EXCEPT !.phase = "decided"]
           e == [d EXCEPT !.verdict = v]
           a == IF v = "restart" THEN c.answer ELSE Absent
<1>1. /\ d \in ChainType /\ d.phase = "decided" /\ d.step = c.step /\ d.live = c.live
      /\ d.cur = c.cur /\ d.before = c.before /\ d.from = c.from /\ d.answer = c.answer
  BY DEF ChainType
<1>2. a \in Answers
  BY DEF ChainType, Answers
<1>3. Decided(c, v) = [e EXCEPT !.answer = IF v = "restart" THEN @ ELSE Absent]
  BY Zenon DEF Decided
<1> HIDE DEF d
<1>4. /\ e \in ChainType /\ e.phase = "decided" /\ e.step = c.step /\ e.live = c.live
      /\ e.cur = c.cur /\ e.before = c.before /\ e.from = c.from /\ e.answer = c.answer
      /\ e.verdict = v
  BY <1>1 DEF ChainType, Verdict
<1> HIDE DEF e
<1>5. Decided(c, v) = [e EXCEPT !.answer = a]
  BY <1>3, <1>4
<1>6. a = IF v = "restart" THEN c.answer ELSE Absent
  OBVIOUS
<1> HIDE DEF a
<1>7. /\ Decided(c, v) \in ChainType /\ Decided(c, v).answer = a
      /\ Decided(c, v).phase = e.phase /\ Decided(c, v).verdict = e.verdict
      /\ Decided(c, v).step = e.step /\ Decided(c, v).live = e.live
      /\ Decided(c, v).cur = e.cur /\ Decided(c, v).before = e.before
      /\ Decided(c, v).from = e.from
  BY <1>2, <1>4, <1>5 DEF ChainType
<1> QED
  BY <1>4, <1>6, <1>7

LEMMA AskIs ==
  ASSUME NEW c \in ChainType, NEW x \in {"lidl", "version"}
  PROVE  /\ Ask(c, x) \in ChainType
         /\ Ask(c, x).phase = "out" /\ Ask(c, x).step = x
         /\ Ask(c, x).cur = c.cur /\ Ask(c, x).before = c.before /\ Ask(c, x).from = c.from
<1> DEFINE d == [c EXCEPT !.step = x]
           e == [d EXCEPT !.phase = "out"]
<1>1. /\ d \in ChainType /\ d.step = x
      /\ d.cur = c.cur /\ d.before = c.before /\ d.from = c.from
  BY DEF ChainType
<1>2. Ask(c, x) = [e EXCEPT !.answer = Absent]
  BY Zenon DEF Ask
<1> HIDE DEF d
<1>3. /\ e \in ChainType /\ e.step = x /\ e.phase = "out"
      /\ e.cur = c.cur /\ e.before = c.before /\ e.from = c.from
  BY <1>1 DEF ChainType
<1> HIDE DEF e
<1>4. Absent \in Answers
  BY DEF Answers
<1> QED
  BY <1>2, <1>3, <1>4 DEF ChainType

(* A refresh goes on under the same attempt: it asks, or it decides. *)
GoesOn(c, d) ==
  /\ d \in ChainType
  /\ d.cur = c.cur /\ d.before = c.before /\ d.from = c.from /\ IsRefresh(d)
  /\ d.phase = "decided" => d.verdict \notin {"keep", "mark", "restart"}
  /\ d.phase \in {"out", "decided"}

LEMMA OnInterfaceIs ==
  ASSUME NEW c \in ChainType, c.step = "interface", NEW d \in OnInterface(c)
  PROVE  /\ GoesOn(c, d)
         /\ c.answer # Absent => d.live = c.answer
         /\ c.answer # Absent /\ c.answer \notin Typed => d.phase = "decided"
<1> DEFINE known == [c EXCEPT !.live = c.answer]
<1>1. /\ known \in ChainType /\ known.live = c.answer /\ known.step = c.step
      /\ known.cur = c.cur /\ known.before = c.before /\ known.from = c.from
  BY DEF ChainType
<1>2. OnInterface(c) = IF c.answer = Absent THEN {Decided(c, "missed")}
                       ELSE IF c.answer \notin Typed THEN {Decided(known, "untyped")}
                       ELSE {Ask(known, "lidl")}
  BY Zenon DEF OnInterface
<1> HIDE DEF known
<1>3. CASE d = Decided(c, "missed") /\ c.answer = Absent
  BY <1>3, DecidedIs DEF GoesOn, IsRefresh, Verdict
<1>4. CASE d = Decided(known, "untyped")
  BY <1>1, <1>4, DecidedIs DEF GoesOn, IsRefresh, Verdict
<1>5. CASE d = Ask(known, "lidl") /\ c.answer \in Typed
  <2>1. d.live = known.live
    BY <1>1, <1>5 DEF Ask, ChainType
  <2> QED
    BY <1>1, <1>5, <2>1, AskIs DEF GoesOn, IsRefresh
<1> QED
  BY <1>2, <1>3, <1>4, <1>5

LEMMA OnInterfaceOne ==
  ASSUME NEW c
  PROVE  \E d : OnInterface(c) = {d}
  BY Zenon DEF OnInterface

(* What a newer attempt or a loss leaves of the chains. *)
LEMMA SupersededIs ==
  ASSUME NEW S, S \subseteq ChainType, NEW l, \A c \in S : ChainOK(c, l), NEW d \in Superseded(S)
  PROVE  d \in ChainType /\ ~d.cur /\ \A m : ChainOK(d, m)
<1>1. PICK c \in S : d = [c EXCEPT !.cur = FALSE]
  BY DEF Superseded
<1>2. c \in ChainType /\ ChainOK(c, l)
  OBVIOUS
<1>3. /\ d \in ChainType /\ ~d.cur /\ d.step = c.step /\ d.phase = c.phase /\ d.verdict = c.verdict
      /\ d.from = c.from /\ d.live = c.live
  BY <1>1, <1>2 DEF ChainType
<1> QED
  BY <1>2, <1>3 DEF ChainOK, IsRefresh

LEMMA PastIs ==
  ASSUME NEW S, S \subseteq ChainType, NEW l, \A c \in S : ChainOK(c, l), NEW d \in Past(S)
  PROVE  d \in ChainType /\ ~d.cur /\ \A m : ChainOK(d, m)
<1>1. PICK c \in Superseded(S) : d = [c EXCEPT !.before = TRUE]
  BY DEF Past, Outdated
<1>2. c \in ChainType /\ ~c.cur /\ ChainOK(c, l)
  BY SupersededIs
<1>3. /\ d \in ChainType /\ d.cur = c.cur /\ d.step = c.step /\ d.phase = c.phase
      /\ d.verdict = c.verdict /\ d.from = c.from /\ d.live = c.live
  BY <1>1, <1>2 DEF ChainType
<1> QED
  BY <1>2, <1>3 DEF ChainOK, IsRefresh

LEMMA NewChainIs ==
  ASSUME NEW x \in {"interface", "lidl", "version", "reread"}
  PROVE  /\ NewChain(x) \in ChainType /\ NewChain(x).cur /\ NewChain(x).step = x
         /\ \A l : ChainOK(NewChain(x), l)
<1>1. /\ NewChain(x) \in ChainType /\ NewChain(x).cur /\ NewChain(x).step = x
      /\ NewChain(x).phase = "out" /\ NewChain(x).from = Absent /\ ~NewChain(x).before
  BY DEF NewChain, ChainType, Answers
<1> QED
  BY <1>1 DEF ChainOK

(* A chain takes its next step under the same attempt. *)
LEMMA ReplaceOne ==
  ASSUME OneCurrent, NEW c \in chains, NEW d, chains' = (chains \ {c}) \cup {d},
         d.cur = c.cur, IsRefresh(d) <=> IsRefresh(c), UNCHANGED inFlight
  PROVE  OneCurrent'
<1>1. ASSUME inFlight PROVE \E e \in chains' : e.cur /\ IsRefresh(e)
  BY <1>1 DEF OneCurrent
<1>2. ASSUME NEW e \in chains', e.cur, IsRefresh(e) PROVE inFlight
  BY <1>2 DEF OneCurrent
<1>3. ASSUME NEW e \in chains', NEW f \in chains', e.cur, f.cur, IsRefresh(e) PROVE e = f
  BY <1>3 DEF OneCurrent
<1> QED
  BY <1>1, <1>2, <1>3 DEF OneCurrent

(* The one current refresh starts. *)
LEMMA StartOne ==
  ASSUME NEW S, \A e \in S : ~e.cur, NEW d, d.cur, IsRefresh(d), chains' = S \cup {d}, inFlight'
  PROVE  OneCurrent'
  BY DEF OneCurrent

(* A chain ends that is no refresh, or not the current one. *)
LEMMA DropOne ==
  ASSUME OneCurrent, NEW c \in chains, ~(c.cur /\ IsRefresh(c)), chains' = chains \ {c},
         UNCHANGED inFlight
  PROVE  OneCurrent'
  BY DEF OneCurrent

LEMMA StaleIs ==
  ASSUME NEW v \in ViewType
  PROVE  /\ Stale(v) \in ViewType /\ Stale(v).live = v.live /\ Stale(v).status = v.status
         /\ Stale(v).before = v.before /\ (Stale(v).stale <=> v.status # "pending")
         /\ Outdated(Stale(v)) \in ViewType /\ Outdated(Stale(v)).live = v.live
         /\ Outdated(Stale(v)).status = v.status
         /\ Outdated(Stale(v)).stale <=> v.status # "pending"
<1> DEFINE b == v.status # "pending"
           u == [v EXCEPT !.stale = b]
<1>1. b \in BOOLEAN
  OBVIOUS
<1>2. Stale(v) = u /\ Outdated(u) = [u EXCEPT !.before = TRUE]
  BY Zenon DEF Stale, Outdated
<1>3. b <=> v.status # "pending"
  OBVIOUS
<1> HIDE DEF b
<1>4. u \in ViewType /\ u.live = v.live /\ u.status = v.status /\ u.before = v.before /\ u.stale = b
  BY <1>1 DEF ViewType
<1> HIDE DEF u
<1>5. /\ Outdated(u) \in ViewType /\ Outdated(u).live = u.live /\ Outdated(u).status = u.status
      /\ Outdated(u).stale = u.stale
  BY <1>2, <1>4 DEF ViewType
<1> QED
  BY <1>2, <1>3, <1>4, <1>5

----------------------------------------------------------------------------
(* Steps of a refresh *)

LEMMA RefreshShape ==
  ASSUME Shape, Refresh
  PROVE  Shape'
<1>1. /\ view' = view /\ inFlight' = TRUE /\ retryArmed' = FALSE
      /\ jobs > 0 /\ jobs' = jobs - 1
      /\ chains' = Superseded(chains) \cup {NewChain("interface")}
      /\ UNCHANGED <<provider, timer, scheduling, announcing>>
  BY DEF Refresh, world
<1>2. Types /\ ChainsOK
  BY DEF Shape
<1>3. \A d \in Superseded(chains) : d \in ChainType /\ ~d.cur /\ \A m : ChainOK(d, m)
  <2>1. chains \subseteq ChainType /\ \A c \in chains : ChainOK(c, view.live)
    BY <1>2 DEF Types, ChainsOK
  <2> QED
    BY <2>1, SupersededIs
<1>4. Types'
  <2>1. chains' \subseteq ChainType
    BY <1>1, <1>3, NewChainIs
  <2>2. jobs' \in Nat
    BY <1>1, <1>2 DEF Types
  <2>3. inFlight' \in BOOLEAN /\ retryArmed' \in BOOLEAN
    BY <1>1
  <2> QED
    BY <1>1, <1>2, <2>1, <2>2, <2>3 DEF Types
<1>5. OneCurrent'
  BY <1>1, <1>3, NewChainIs, StartOne DEF IsRefresh
<1>6. ChainsOK'
  BY <1>1, <1>3, NewChainIs DEF ChainsOK
<1>7. Flags' /\ FreshIsAfterLoss' /\ EndsOnlyOnChange'
  BY <1>1 DEF Shape, Flags, FreshIsAfterLoss, EndsOnlyOnChange, Resolved
<1> QED
  BY <1>4, <1>5, <1>6, <1>7 DEF Shape

(* A step of one chain, with the rest of the slot as it was. *)
LEMMA ChainMoves ==
  ASSUME Shape, NEW c \in chains, NEW d \in ChainType, chains' = (chains \ {c}) \cup {d},
         d.cur = c.cur, IsRefresh(d) <=> IsRefresh(c), ChainOK(d, view.live),
         UNCHANGED <<view, inFlight, retryArmed, scheduling, timer, jobs, announcing, provider>>
  PROVE  Shape'
<1>1. Types'
  BY DEF Shape, Types
<1>2. OneCurrent'
  BY ReplaceOne DEF Shape
<1>3. ChainsOK'
  BY DEF Shape, ChainsOK
<1>4. Flags' /\ FreshIsAfterLoss' /\ EndsOnlyOnChange'
  BY DEF Shape, Flags, FreshIsAfterLoss, EndsOnlyOnChange, Resolved, Coming
<1> QED
  BY <1>1, <1>2, <1>3, <1>4 DEF Shape

(* A chain ends that is no refresh, or was superseded. *)
LEMMA ChainEnds ==
  ASSUME Shape, NEW c \in chains, ~(c.cur /\ IsRefresh(c)), chains' = chains \ {c},
         UNCHANGED <<view, inFlight, retryArmed, scheduling, timer, jobs, announcing, provider>>
  PROVE  Shape'
<1>1. Types'
  BY DEF Shape, Types
<1>2. OneCurrent'
  BY DropOne DEF Shape
<1>3. ChainsOK'
  BY DEF Shape, ChainsOK
<1>4. Flags' /\ FreshIsAfterLoss' /\ EndsOnlyOnChange'
  BY DEF Shape, Flags, FreshIsAfterLoss, EndsOnlyOnChange, Resolved, Coming
<1> QED
  BY <1>1, <1>2, <1>3, <1>4 DEF Shape

LEMMA AnswerShape ==
  ASSUME Shape, NEW c \in chains, Answer(c)
  PROVE  Shape'
<1>1. PICK a \in {provider, Absent} :
        chains' = (chains \ {c}) \cup {[c EXCEPT !.phase = "posted", !.answer = a]}
  BY Zenon DEF Answer
<1>2. c \in ChainType /\ ChainOK(c, view.live) /\ c.phase = "out" /\ a \in Answers
  BY DEF Answer, Shape, Types, ChainsOK, Answers
<1> DEFINE e == [c EXCEPT !.phase = "posted"]
           d == [e EXCEPT !.answer = a]
<1>3. /\ e \in ChainType /\ e.phase = "posted" /\ e.step = c.step /\ e.cur = c.cur
      /\ e.before = c.before /\ e.from = c.from
  BY <1>2 DEF ChainType
<1>4. chains' = (chains \ {c}) \cup {d}
  BY <1>1, Zenon
<1> HIDE DEF e
<1>5. /\ d \in ChainType /\ d.phase = "posted" /\ d.step = c.step /\ d.cur = c.cur
      /\ d.before = c.before /\ d.from = c.from
  BY <1>2, <1>3 DEF ChainType
<1> HIDE DEF d
<1>6. ChainOK(d, view.live) /\ (IsRefresh(d) <=> IsRefresh(c))
  BY <1>2, <1>5 DEF ChainOK, IsRefresh
<1>7. UNCHANGED <<view, inFlight, retryArmed, scheduling, timer, jobs, announcing, provider>>
  BY DEF Answer, slot, world
<1> QED
  BY <1>4, <1>5, <1>6, <1>7, ChainMoves

LEMMA ResumeShape ==
  ASSUME Shape, NEW c \in chains, Resume(c)
  PROVE  Shape'
<1>1. PICK d \in Continuations(c) : chains' = (chains \ {c}) \cup {d}
  BY DEF Resume
<1>2. /\ c \in ChainType /\ ChainOK(c, view.live) /\ c.phase = "posted" /\ c.step # "reread"
  BY DEF Resume, Shape, Types, ChainsOK
<1>3. GoesOn(c, d)
  <2>1. CASE c.step = "interface"
    BY <1>1, <1>2, <2>1, OnInterfaceIs DEF Continuations
  <2>2. CASE c.step = "lidl"
    <3>1. d = Decided(c, "retry") \/ d = Decided(c, "invalid") \/ d = Ask(c, "version")
      BY <1>1, <2>2 DEF Continuations, OnContract
    <3> QED
      BY <1>2, <3>1, DecidedIs, AskIs DEF GoesOn, IsRefresh, Verdict
  <2>3. CASE c.step = "version"
    <3>1. d = Decided(c, "ok") \/ d = Decided(c, "invalid")
      BY <1>1, <2>3 DEF Continuations, OnVersion
    <3> QED
      BY <1>2, <3>1, DecidedIs DEF GoesOn, IsRefresh, Verdict
  <2> QED
    BY <1>2, <2>1, <2>2, <2>3 DEF ChainType
<1>4. c.from = Absent
  BY <1>2 DEF ChainOK
<1>5. /\ d \in ChainType /\ d.cur = c.cur /\ (IsRefresh(d) <=> IsRefresh(c))
      /\ ChainOK(d, view.live)
  BY <1>2, <1>3, <1>4 DEF GoesOn, IsRefresh, ChainOK
<1>6. UNCHANGED <<view, inFlight, retryArmed, scheduling, timer, jobs, announcing, provider>>
  BY DEF Resume, slot, world
<1> QED
  BY <1>1, <1>5, <1>6, ChainMoves

(* Only the current refresh has a say; it is the last current chain. *)
LEMMA ConcludeShape ==
  ASSUME Shape, NEW c \in chains, Conclude(c)
  PROVE  Shape'
<1>1. /\ c.phase = "decided" /\ IsRefresh(c) /\ c \in ChainType /\ ChainOK(c, view.live)
      /\ chains' = chains \ {c} /\ announcing' = announcing \cup AnnouncedBy(c)
      /\ UNCHANGED <<timer, jobs, provider>>
  BY DEF Conclude, IsRefresh, Shape, Types, ChainsOK, world
<1>2. EndsOnlyOnChange'
  <2>1. \A a \in AnnouncedBy(c) : a.from # a.to
    BY <1>1 DEF AnnouncedBy, ChainOK
  <2> QED
    BY <1>1, <2>1 DEF Shape, EndsOnlyOnChange
<1>3. CASE ~c.cur
  <2>1. UNCHANGED <<view, inFlight, retryArmed, scheduling>>
    BY <1>3 DEF Conclude, StillCurrent
  <2>2. Types' /\ ChainsOK'
    BY <1>1, <2>1 DEF Shape, Types, ChainsOK
  <2>3. OneCurrent'
    BY <1>1, <1>3, <2>1, DropOne DEF Shape
  <2>4. Flags' /\ FreshIsAfterLoss'
    BY <1>1, <2>1 DEF Shape, Flags, FreshIsAfterLoss, Resolved, Coming
  <2> QED
    BY <1>2, <2>2, <2>3, <2>4 DEF Shape
<1>4. CASE c.cur
  <2>1. (Missed(c) \/ Publish(c)) /\ inFlight' = FALSE
    BY <1>4 DEF Conclude, StillCurrent
  <2>2. \A e \in chains' : ~e.cur
    BY <1>1, <1>4 DEF Shape, OneCurrent
  <2>3. OneCurrent'
    BY <2>1, <2>2 DEF OneCurrent
  <2>4. ChainsOK'
    BY <1>1, <2>2 DEF Shape, ChainsOK, ChainOK
  <2>5. CASE Missed(c)
    <3>1. view' = view /\ retryArmed' = TRUE /\ scheduling' = scheduling + 1 /\ scheduling \in Nat
      BY <2>5 DEF Missed, Shape, Types
    <3>2. Types'
      <4>1. scheduling' \in Nat
        BY <3>1
      <4>2. inFlight' \in BOOLEAN /\ retryArmed' \in BOOLEAN
        BY <2>1, <3>1, Zenon
      <4> QED
        BY <1>1, <3>1, <4>1, <4>2 DEF Shape, Types
    <3>3. Flags'
      <4>1. scheduling' > 0
        BY <3>1
      <4> QED
        BY <4>1 DEF Flags, Coming
    <3>4. FreshIsAfterLoss'
      BY <3>1 DEF Shape, FreshIsAfterLoss, Resolved
    <3> QED
      BY <1>2, <2>3, <2>4, <3>2, <3>3, <3>4 DEF Shape
  <2>6. CASE Publish(c)
    <3>1. /\ view' = [status |-> IF c.verdict = "retry" THEN "invalid" ELSE c.verdict,
                      live |-> c.live, stale |-> FALSE, before |-> c.before]
          /\ c.verdict \in {"untyped", "retry", "invalid", "ok"}
          /\ retryArmed' = (c.verdict = "retry")
          /\ scheduling' = IF c.verdict = "retry" THEN scheduling + 1 ELSE scheduling
      BY <2>6 DEF Publish
    <3>2. /\ view' \in ViewType /\ ~view'.before /\ ~view'.stale /\ view'.status # "pending"
      BY <1>1, <1>4, <3>1 DEF ViewType, Status, ChainType, ChainOK
    <3>3. scheduling' \in Nat /\ retryArmed' \in BOOLEAN /\ (retryArmed' => scheduling' > 0)
      <4>1. scheduling \in Nat
        BY DEF Shape, Types
      <4>2. CASE c.verdict = "retry"
        BY <3>1, <4>1, <4>2
      <4>3. CASE c.verdict # "retry"
        <5>1. retryArmed' = FALSE /\ scheduling' = scheduling
          BY <3>1, <4>3
        <5> QED
          BY <4>1, <5>1
      <4> QED
        BY <4>2, <4>3
    <3>4. Types' /\ Flags' /\ FreshIsAfterLoss'
      <4>1. Types'
        BY <1>1, <2>1, <3>2, <3>3 DEF Shape, Types
      <4>2. Flags'
        BY <3>2, <3>3 DEF Flags, Coming, Resolved
      <4>3. FreshIsAfterLoss'
        BY <3>2 DEF FreshIsAfterLoss
      <4> QED
        BY <4>1, <4>2, <4>3
    <3> QED
      BY <1>2, <2>3, <2>4, <3>4 DEF Shape
  <2> QED
    BY <2>1, <2>5, <2>6
<1> QED
  BY <1>3, <1>4

(* From a decision to the next refresh: the timer, then the pump. *)
LEMMA TimerShape ==
  ASSUME Shape, Schedule \/ TimerFires
  PROVE  Shape'
<1>1. UNCHANGED <<view, inFlight, retryArmed, chains, announcing, provider>>
  BY DEF Schedule, TimerFires, slot, world
<1>2. scheduling \in Nat /\ jobs \in Nat /\ timer \in BOOLEAN
  BY DEF Shape, Types
<1>3. scheduling' \in Nat /\ jobs' \in Nat
  BY <1>2 DEF Schedule, TimerFires
<1>4. timer' \in BOOLEAN
  BY Zenon DEF Schedule, TimerFires
<1>5. Coming'
  <2>1. CASE Schedule
    BY <2>1, Zenon DEF Schedule, Coming
  <2>2. CASE TimerFires
    <3>1. jobs' > 0
      BY <1>2, <2>2 DEF TimerFires
    <3> QED
      BY <3>1, Zenon DEF Coming
  <2> QED
    BY <2>1, <2>2
<1>6. Types'
  BY <1>1, <1>3, <1>4 DEF Shape, Types
<1> QED
  BY <1>1, <1>5, <1>6
  DEF Shape, OneCurrent, ChainsOK, Flags, FreshIsAfterLoss, EndsOnlyOnChange, Resolved

----------------------------------------------------------------------------
(* What voids the state of discovery *)

LEMMA StartOverShape ==
  ASSUME Shape, StartOver(Stale(view)), UNCHANGED provider
  PROVE  Shape'
<1>1. /\ chains' = Past(chains) /\ inFlight' = FALSE /\ retryArmed' = TRUE
      /\ view' = Outdated(Stale(view)) /\ scheduling' = scheduling + 1
      /\ UNCHANGED <<timer, jobs, announcing>>
  BY DEF StartOver
<1>2. Types /\ view \in ViewType /\ scheduling \in Nat
  BY DEF Shape, Types
<1>3. \A d \in chains' : d \in ChainType /\ ~d.cur /\ \A m : ChainOK(d, m)
  <2>1. chains \subseteq ChainType /\ \A c \in chains : ChainOK(c, view.live)
    BY DEF Shape, Types, ChainsOK
  <2> QED
    BY <1>1, <2>1, PastIs
<1>4. /\ view' \in ViewType /\ (view'.stale <=> view.status # "pending")
      /\ view'.status = view.status
  BY <1>1, <1>2, StaleIs
<1>5. scheduling' > 0 /\ scheduling' \in Nat
  BY <1>1, <1>2
<1>6. inFlight' \in BOOLEAN /\ retryArmed' \in BOOLEAN
  BY <1>1, Zenon
<1>7. Types'
  BY <1>1, <1>2, <1>3, <1>4, <1>5, <1>6 DEF Types
<1>8. OneCurrent'
  BY <1>1, <1>3 DEF OneCurrent
<1>9. ChainsOK'
  BY <1>3 DEF ChainsOK
<1>10. Flags'
  BY <1>5 DEF Flags, Coming
<1>11. FreshIsAfterLoss' /\ EndsOnlyOnChange'
  BY <1>1, <1>4 DEF Shape, FreshIsAfterLoss, EndsOnlyOnChange, Resolved
<1> QED
  BY <1>7, <1>8, <1>9, <1>10, <1>11 DEF Shape

(* Only a settled slot is marked, and then a refresh is scheduled. *)
LEMMA MarkKeeps ==
  ASSUME Shape, MarkUnavailable,
         UNCHANGED <<inFlight, timer, jobs, announcing, provider>>,
         chains' = chains \/ \E c \in chains : c.step = "reread" /\ chains' = chains \ {c}
  PROVE  Shape'
<1>1. Types /\ view \in ViewType /\ scheduling \in Nat
  BY DEF Shape, Types
<1>2. OneCurrent'
  <2>1. CASE chains' = chains
    BY <2>1 DEF Shape, OneCurrent
  <2>2. CASE chains' # chains
    BY <2>2, DropOne DEF Shape, IsRefresh
  <2> QED
    BY <2>1, <2>2
<1>3. chains' \subseteq chains
  OBVIOUS
<1>4. CASE inFlight \/ retryArmed
  <2>1. UNCHANGED <<view, retryArmed, scheduling>>
    BY <1>4 DEF MarkUnavailable
  <2>2. Types' /\ ChainsOK'
    BY <1>1, <1>3, <2>1 DEF Shape, Types, ChainsOK
  <2>3. Flags' /\ FreshIsAfterLoss' /\ EndsOnlyOnChange'
    BY <2>1 DEF Shape, Flags, FreshIsAfterLoss, EndsOnlyOnChange, Resolved, Coming
  <2> QED
    BY <1>2, <2>2, <2>3 DEF Shape
<1>5. CASE ~(inFlight \/ retryArmed)
  <2>1. view' = Stale(view) /\ retryArmed' = TRUE /\ scheduling' = scheduling + 1
    BY <1>5 DEF MarkUnavailable
  <2>2. /\ view' \in ViewType /\ view'.live = view.live /\ view'.status = view.status
        /\ (view'.stale <=> view.status # "pending")
    BY <1>1, <2>1, StaleIs
  <2>3. scheduling' > 0 /\ scheduling' \in Nat
    BY <1>1, <2>1
  <2>4. retryArmed' \in BOOLEAN
    BY <2>1, Zenon
  <2>5. Types'
    BY <1>1, <1>3, <2>2, <2>3, <2>4 DEF Types
  <2>6. ChainsOK'
    BY <1>3, <2>2 DEF Shape, ChainsOK
  <2>7. Flags'
    BY <2>3 DEF Flags, Coming
  <2>8. FreshIsAfterLoss' /\ EndsOnlyOnChange'
    BY <2>2 DEF Shape, FreshIsAfterLoss, EndsOnlyOnChange, Resolved
  <2> QED
    BY <1>2, <2>5, <2>6, <2>7, <2>8 DEF Shape
<1> QED
  BY <1>4, <1>5

----------------------------------------------------------------------------
(* Revalidation *)

LEMMA RevalidateShape ==
  ASSUME Shape, Revalidate
  PROVE  Shape'
<1>1. /\ chains' = chains \cup {NewChain("reread")} /\ ~inFlight
      /\ UNCHANGED <<view, inFlight, retryArmed, scheduling, timer, jobs, announcing, provider>>
  BY DEF Revalidate, Settled, world
<1>2. /\ NewChain("reread") \in ChainType /\ ~IsRefresh(NewChain("reread"))
      /\ \A l : ChainOK(NewChain("reread"), l)
  BY NewChainIs DEF IsRefresh
<1>3. Types'
  BY <1>1, <1>2 DEF Shape, Types
<1>4. OneCurrent'
  BY <1>1, <1>2 DEF Shape, OneCurrent
<1>5. ChainsOK'
  BY <1>1, <1>2 DEF Shape, ChainsOK
<1>6. Flags' /\ FreshIsAfterLoss' /\ EndsOnlyOnChange'
  BY <1>1 DEF Shape, Flags, FreshIsAfterLoss, EndsOnlyOnChange, Resolved, Coming
<1> QED
  BY <1>3, <1>4, <1>5, <1>6 DEF Shape

LEMMA OnRevalidatedShape ==
  ASSUME Shape, NEW c \in chains, OnRevalidated(c)
  PROVE  Shape'
<1>1. /\ c.phase = "posted" /\ c.step = "reread" /\ c \in ChainType /\ ChainOK(c, view.live)
      /\ UNCHANGED <<view, inFlight, retryArmed, scheduling, timer, jobs, announcing, provider>>
  BY DEF OnRevalidated, world, Shape, Types, ChainsOK
<1>2. CASE chains' = chains \ {c}
  BY <1>1, <1>2, ChainEnds DEF IsRefresh
<1>3. CASE chains' # chains \ {c}
  <2>1. PICK v \in Verdicts(c) : chains' = (chains \ {c}) \cup {Decided(c, v)}
    BY <1>3 DEF OnRevalidated
  <2>2. /\ v \in {"keep", "mark", "restart"}
        /\ v = "restart" => c.answer # Absent /\ c.answer # view.live
    BY DEF Verdicts
  <2> DEFINE d == Decided(c, v)
  <2>3. /\ d \in ChainType /\ d.phase = "decided" /\ d.verdict = v /\ d.step = c.step
        /\ d.cur = c.cur /\ d.before = c.before /\ d.from = c.from
        /\ v = "restart" => d.answer = c.answer
    BY <1>1, <2>2, DecidedIs DEF Verdict
  <2>4. chains' = (chains \ {c}) \cup {d}
    BY <2>1
  <2> HIDE DEF d
  <2>5. ChainOK(d, view.live) /\ (IsRefresh(d) <=> IsRefresh(c))
    BY <1>1, <2>2, <2>3 DEF ChainOK, IsRefresh
  <2> QED
    BY <1>1, <2>3, <2>4, <2>5, ChainMoves
<1> QED
  BY <1>2, <1>3

LEMMA KeepShape ==
  ASSUME Shape, NEW c \in chains, Keep(c)
  PROVE  Shape'
<1>1. UNCHANGED <<view, inFlight, retryArmed, scheduling, timer, jobs, announcing, provider>>
  BY DEF Keep, slot, world
<1>2. ~IsRefresh(c) /\ chains' = chains \ {c}
  BY DEF Keep, ActOnVerdict, IsRefresh
<1> QED
  BY <1>1, <1>2, ChainEnds

LEMMA MarkStaleShape ==
  ASSUME Shape, NEW c \in chains, MarkStale(c)
  PROVE  Shape'
<1>1. UNCHANGED <<inFlight, timer, jobs, announcing, provider>>
  BY DEF MarkStale, world
<1>2. MarkUnavailable /\ c.step = "reread" /\ chains' = chains \ {c}
  BY DEF MarkStale, ActOnVerdict
<1> QED
  BY <1>1, <1>2, MarkKeeps

(* The refresh that a changed build starts has the report already in hand: *)
(* it has asked for the contract or decided, and is the one current chain. *)
LEMMA RestartShape ==
  ASSUME Shape, NEW c \in chains, Restart(c)
  PROVE  Shape'
<1>1. /\ c.phase = "decided" /\ c.verdict = "restart" /\ ~IsRefresh(c)
      /\ c \in ChainType /\ ChainOK(c, view.live)
      /\ UNCHANGED <<retryArmed, scheduling, timer, jobs, provider>>
  BY DEF Restart, ActOnVerdict, IsRefresh, world, Shape, Types, ChainsOK
<1>2. CASE ~MayRestart(c)
  <2>1. chains' = chains \ {c} /\ UNCHANGED <<view, inFlight, announcing>>
    BY <1>2 DEF Restart
  <2> QED
    BY <1>1, <2>1, ChainEnds
<1>3. CASE MayRestart(c)
  <2>1. c.cur /\ RestartFrom(c) /\ c.answer # view.live /\ c.answer # Absent /\ ~c.before
    BY <1>1, <1>3 DEF Restart, MayRestart, ChainOK
  <2> DEFINE fresh == NewChain("interface")
             asked == [fresh EXCEPT !.answer = c.answer]
             chain == [asked EXCEPT !.before = c.before]
             typed == c.answer \in Typed
  <2>2. chain = [NewChain("interface") EXCEPT !.answer = c.answer, !.before = c.before]
    BY Zenon
  <2>3. fresh \in ChainType /\ fresh.cur /\ fresh.step = "interface" /\ fresh.from = Absent
    BY NewChainIs DEF NewChain
  <2> HIDE DEF fresh
  <2>4. /\ asked \in ChainType /\ asked.cur /\ asked.step = "interface" /\ asked.from = Absent
        /\ asked.answer = c.answer
    BY <1>1, <2>3 DEF ChainType
  <2> HIDE DEF asked
  <2>5. /\ chain \in ChainType /\ chain.cur /\ chain.step = "interface" /\ chain.from = Absent
        /\ chain.answer = c.answer /\ chain.before = c.before
    BY <1>1, <2>4 DEF ChainType
  <2>6. /\ chains' = Superseded(chains \ {c}) \cup
                       {IF typed THEN d ELSE [d EXCEPT !.from = view.live] : d \in OnInterface(chain)}
        /\ announcing' = IF typed THEN announcing \cup {[from |-> view.live, to |-> c.answer]}
                         ELSE announcing
        /\ inFlight' = TRUE /\ view' = Stale(view)
    BY <2>1, <2>2, Zenon DEF RestartFrom
  <2> HIDE DEF chain
  <2>7. PICK o : OnInterface(chain) = {o}
    BY OnInterfaceOne
  <2>8. /\ GoesOn(chain, o) /\ o.live = c.answer
        /\ ~typed => o.phase = "decided"
    BY <2>1, <2>5, <2>7, OnInterfaceIs
  <2> DEFINE d == IF typed THEN o ELSE [o EXCEPT !.from = view.live]
  <2>9. chains' = Superseded(chains \ {c}) \cup {d}
    BY <2>6, <2>7
  <2>10. view.live \in Answers /\ view \in ViewType
    BY DEF Shape, Types, ViewType
  <2>11. /\ d \in ChainType /\ d.cur /\ ~d.before /\ IsRefresh(d)
         /\ \A l : ChainOK(d, l)
    <3>1. CASE typed
      BY <2>1, <2>5, <2>8, <3>1 DEF GoesOn, ChainOK
    <3>2. CASE ~typed
      <4>1. d = [o EXCEPT !.from = view.live]
        BY <3>2
      <4>2. /\ o \in ChainType /\ o.cur /\ ~o.before /\ IsRefresh(o) /\ o.phase = "decided"
            /\ o.verdict \notin {"keep", "mark", "restart"} /\ o.live = c.answer
        BY <2>1, <2>5, <2>8, <3>2 DEF GoesOn
      <4> HIDE DEF d
      <4>3. /\ d \in ChainType /\ d.cur = o.cur /\ d.before = o.before /\ d.step = o.step
            /\ d.phase = o.phase /\ d.verdict = o.verdict /\ d.live = o.live /\ d.from = view.live
        BY <2>10, <4>1, <4>2 DEF ChainType
      <4> QED
        BY <2>1, <4>2, <4>3 DEF ChainOK, IsRefresh
    <3> QED
      BY <3>1, <3>2
  <2> HIDE DEF d
  <2>12. \A e \in Superseded(chains \ {c}) : e \in ChainType /\ ~e.cur /\ \A m : ChainOK(e, m)
    <3>1. chains \ {c} \subseteq ChainType /\ \A e \in chains \ {c} : ChainOK(e, view.live)
      BY DEF Shape, Types, ChainsOK
    <3> QED
      BY <3>1, SupersededIs
  <2>13. /\ view' \in ViewType /\ view'.live = view.live /\ view'.status = view.status
         /\ (view'.stale <=> view.status # "pending")
    BY <2>6, <2>10, StaleIs
  <2>14. inFlight' /\ inFlight' \in BOOLEAN
    BY <2>6
  <2>15. Types'
    BY <1>1, <2>9, <2>11, <2>12, <2>13, <2>14 DEF Shape, Types
  <2>16. OneCurrent'
    BY <2>9, <2>11, <2>12, <2>14, StartOne
  <2>17. ChainsOK'
    BY <2>9, <2>11, <2>12 DEF ChainsOK
  <2>18. Flags'
    BY <1>1, <2>14 DEF Shape, Flags, Coming
  <2>19. FreshIsAfterLoss'
    BY <2>13 DEF FreshIsAfterLoss, Resolved
  <2>20. EndsOnlyOnChange'
    BY <2>1, <2>6 DEF Shape, EndsOnlyOnChange
  <2> QED
    BY <2>15, <2>16, <2>17, <2>18, <2>19, <2>20 DEF Shape
<1> QED
  BY <1>2, <1>3

----------------------------------------------------------------------------
(* All steps *)

(* Nothing that Shape speaks of changes, but for the provider. *)
LEMMA QuietShape ==
  ASSUME Shape, UNCHANGED <<view, inFlight, retryArmed, chains, scheduling, timer, jobs>>,
         announcing' \subseteq announcing, provider' \in Answers
  PROVE  Shape'
  BY DEF Shape, Types, OneCurrent, ChainsOK, Flags, FreshIsAfterLoss, EndsOnlyOnChange, Resolved,
         Coming

LEMMA ArmedShape ==
  ASSUME Shape, OnProviderArmed
  PROVE  Shape'
<1>1. UNCHANGED provider
  BY DEF OnProviderArmed
<1>2. \/ StartOver(Stale(view))
      \/ UNCHANGED <<view, inFlight, retryArmed, checking, work>>
  BY Zenon DEF OnProviderArmed
<1>3. provider \in Answers
  BY DEF Shape, Types
<1>4. CASE UNCHANGED <<view, inFlight, retryArmed, checking, work>>
  BY <1>1, <1>3, <1>4, QuietShape DEF work
<1> QED
  BY <1>1, <1>2, <1>4, StartOverShape

LEMMA StepShape ==
  ASSUME Shape, [Next]_vars
  PROVE  Shape'
<1>1. provider \in Answers
  BY DEF Shape, Types
<1>2. ASSUME NEW c \in chains, ChainStep(c)
      PROVE  Shape'
  BY <1>2, AnswerShape, ResumeShape, ConcludeShape, OnRevalidatedShape, KeepShape, MarkStaleShape,
     RestartShape DEF ChainStep
<1>3. CASE \E a \in announcing : Announce(a)
  BY <1>1, <1>3, QuietShape DEF Announce, slot
<1>4. CASE OnProviderLost \/ OnClientReplaced
  BY <1>4, StartOverShape DEF OnProviderLost, OnClientReplaced
<1>5. CASE OnCallUnavailable
  BY <1>5, MarkKeeps DEF OnCallUnavailable, world
<1>6. CASE ProviderChanges
  BY <1>6, QuietShape DEF ProviderChanges, slot, work, Answers
<1>7. CASE PollMisses \/ Subscribe
  BY <1>1, <1>7, QuietShape DEF PollMisses, Subscribe, slot, work
<1>8. CASE UNCHANGED vars
  BY <1>1, <1>8, QuietShape DEF vars, slot, work, world
<1> QED
  BY <1>2, <1>3, <1>4, <1>5, <1>6, <1>7, <1>8, RefreshShape, TimerShape, RevalidateShape, ArmedShape
  DEF Next, Bridge, World

LEMMA InitShape == Init => Shape
<1> SUFFICES ASSUME Init PROVE Shape
  OBVIOUS
<1>1. view \in ViewType /\ view.status = "pending"
  BY DEF Init, ViewType, Status, Answers
<1>2. Types
  BY <1>1 DEF Init, Types, Answers
<1>3. OneCurrent /\ ChainsOK
  BY DEF Init, OneCurrent, ChainsOK
<1>4. Flags
  BY DEF Init, Flags, Coming
<1>5. FreshIsAfterLoss /\ EndsOnlyOnChange
  BY <1>1 DEF Init, FreshIsAfterLoss, EndsOnlyOnChange, Resolved
<1> QED
  BY <1>2, <1>3, <1>4, <1>5 DEF Shape

LEMMA AlwaysShape == Spec => []Shape
<1>1. Init => Shape
  BY InitShape
<1>2. Shape /\ [Next]_vars => Shape'
  BY StepShape
<1> QED
  BY <1>1, <1>2, PTL DEF Spec

(* Over the Slot's flags (src/discovery.h: refresh, missed, publish,       *)
(* onProviderLost, onCallUnavailable): whoever clears or sets one leaves a *)
(* call, a timer or a job that goes on, so a module that is pending, stale *)
(* or waiting for a retry is never forgotten.                              *)
THEOREM FlagsHaveWork == Spec => []NeverStranded
<1>1. Shape => NeverStranded
  BY ShapeSuffices
<1> QED
  BY <1>1, AlwaysShape, PTL

(* Over the attempt check (src/discovery.h: publish): no answer from       *)
(* before a loss, a re-arm or a replaced client is published as fresh,     *)
(* however many chains of older attempts are still on their way.           *)
THEOREM FreshAfterLoss == Spec => []FreshIsAfterLoss
<1>1. Shape => FreshIsAfterLoss
  BY DEF Shape
<1> QED
  BY <1>1, AlwaysShape, PTL

(* Over the revalidation (src/discovery.h: onRevalidated): subscriptions   *)
(* are ended only between two different reports, also when refreshes race  *)
(* the read and a restarted one announces at its own end.                  *)
THEOREM EndsMeanChange == Spec => []EndsOnlyOnChange
<1>1. Shape => EndsOnlyOnChange
  BY DEF Shape
<1> QED
  BY <1>1, AlwaysShape, PTL
=============================================================================

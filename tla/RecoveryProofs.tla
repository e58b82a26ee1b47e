--------------------------- MODULE RecoveryProofs ---------------------------
(***************************************************************************)
(* Replacements keep their spacing and fall on the client at fault, for    *)
(* any gaps, delays and bounds.                                            *)
(***************************************************************************)
EXTENDS Recovery, WellFoundedInduction, TLAPS

(* A set of numbers has a least one. *)
LEMMA LeastOf ==
  ASSUME NEW S \in SUBSET Nat, S # {}
  PROVE  \E k \in S : \A j \in S : k <= j
<1>1. PICK k \in S : \A j \in S : <<j, k>> \notin OpToRel(<, Nat)
  BY WFMin, NatLessThanWellFounded, Zenon
<1>2. \A j \in S : ~(j < k)
  BY <1>1, Zenon DEF OpToRel
<1>3. \A j \in S : k <= j
  BY <1>2
<1> QED BY <1>3

(* Spacing is a definition by recursion: that there is such a function, up *)
(* to every number, is to be shown first.                                  *)
Spaces(s, k) ==
  s = [n \in 0..k |-> IF n = 0 THEN FirstGap ELSE Least(2 * s[n - 1], MaxGap)]

LEMMA SpacingExists == \A k \in 0..MaxGap : \E s : Spaces(s, k)
<1> DEFINE Missing == {k \in 0..MaxGap : ~\E s : Spaces(s, k)}
<1> SUFFICES ASSUME Missing # {}
             PROVE  FALSE
  OBVIOUS
<1>1. MaxGap \in Nat
  BY RecoveryAssumption
<1>2. PICK k \in Missing : \A j \in Missing : k <= j
  <2>1. Missing \in SUBSET Nat
    BY <1>1
  <2> HIDE DEF Missing
  <2> QED BY <2>1, LeastOf
<1>3. CASE k = 0
  <2> DEFINE s == [n \in 0..0 |-> FirstGap]
  <2>1. Spaces(s, 0)
    BY DEF Spaces
  <2> QED BY <1>2, <1>3, <2>1
<1>4. CASE k # 0
  <2>1. k \in 1..MaxGap /\ k - 1 \in 0..MaxGap
    BY <1>1, <1>2, <1>4
  <2>2. k - 1 \notin Missing
    BY <1>2, <2>1
  <2>3. PICK s : Spaces(s, k - 1)
    BY <2>1, <2>2
  <2> DEFINE next == [n \in 0..k |-> IF n = k THEN Least(2 * s[k - 1], MaxGap) ELSE s[n]]
  <2>4. \A n \in 0..(k - 1) : next[n] = s[n]
    BY <2>1
  <2>5. \A n \in 0..k : next[n] = IF n = 0 THEN FirstGap ELSE Least(2 * next[n - 1], MaxGap)
    <3> SUFFICES ASSUME NEW n \in 0..k
                 PROVE  next[n] = IF n = 0 THEN FirstGap ELSE Least(2 * next[n - 1], MaxGap)
      OBVIOUS
    <3>1. CASE n = k
      <4>1. next[n] = Least(2 * s[k - 1], MaxGap)
        BY <3>1, <2>1
      <4>2. next[n - 1] = s[k - 1]
        BY <3>1, <2>1, <2>4
      <4> HIDE DEF next
      <4> QED BY <3>1, <4>1, <4>2, <1>4
    <3>2. CASE n # k
      <4>1. n \in 0..(k - 1) /\ (n # 0 => n - 1 \in 0..(k - 1))
        BY <3>2, <2>1
      <4>2. s[n] = IF n = 0 THEN FirstGap ELSE Least(2 * s[n - 1], MaxGap)
        BY <2>3, <4>1 DEF Spaces
      <4>3. next[n] = s[n] /\ (n # 0 => next[n - 1] = s[n - 1])
        BY <2>4, <4>1
      <4> HIDE DEF next
      <4> QED BY <4>2, <4>3
    <3> QED BY <3>1, <3>2
  <2>6. next = [n \in 0..k |-> next[n]]
    OBVIOUS
  <2>7. Spaces(next, k)
    <3> HIDE DEF next
    <3> QED BY <2>5, <2>6 DEF Spaces
  <2> QED BY <1>2, <2>7
<1> QED BY <1>3, <1>4

LEMMA SpacingUnfolds ==
  Spacing = [n \in 0..MaxGap |-> IF n = 0 THEN FirstGap ELSE Least(2 * Spacing[n - 1], MaxGap)]
<1>1. MaxGap \in 0..MaxGap
  BY RecoveryAssumption
<1>2. \E s : Spaces(s, MaxGap)
  BY <1>1, SpacingExists
<1>3. \E s : s = [n \in 0..MaxGap |-> IF n = 0 THEN FirstGap ELSE Least(2 * s[n - 1], MaxGap)]
  BY <1>2 DEF Spaces
<1> QED BY <1>3, Zenon DEF Spacing

(* The spacings: the first gap, then doubled up to the cap, which they     *)
(* reach.                                                                  *)
LEMMA SpacingDoubles ==
  /\ Spacing[0] = FirstGap
  /\ \A n \in 0..MaxGap : n < MaxGap => Spacing[n + 1] = NextGap(Spacing[n])
  /\ \A n \in 0..MaxGap : Spacing[n] \in 1..MaxGap
  /\ Spacing[MaxGap] = MaxGap
<1>1. FirstGap \in Nat /\ MaxGap \in Nat /\ 0 < FirstGap /\ FirstGap <= MaxGap
  BY RecoveryAssumption
<1>2. Spacing[0] = FirstGap
  BY <1>1, SpacingUnfolds
<1>3. ASSUME NEW n \in 0..MaxGap, n < MaxGap
      PROVE  Spacing[n + 1] = NextGap(Spacing[n])
  <2>1. n + 1 \in 0..MaxGap /\ n + 1 # 0 /\ (n + 1) - 1 = n
    BY <1>1, <1>3
  <2> QED BY <2>1, SpacingUnfolds DEF NextGap
<1> DEFINE Short == {n \in 0..MaxGap : ~(Spacing[n] \in 1..MaxGap /\ Least(n + 1, MaxGap) <= Spacing[n])}
<1>4. Short = {}
  <2> SUFFICES ASSUME Short # {}
               PROVE  FALSE
    OBVIOUS
  <2>1. PICK k \in Short : \A j \in Short : k <= j
    <3>1. Short \in SUBSET Nat
      BY <1>1
    <3> HIDE DEF Short
    <3> QED BY <3>1, LeastOf
  <2>2. CASE k = 0
    BY <1>1, <1>2, <2>1, <2>2 DEF Least
  <2>3. CASE k # 0
    <3>1. k \in 0..MaxGap /\ k - 1 \in 0..MaxGap /\ k - 1 < MaxGap /\ (k - 1) + 1 = k
      BY <1>1, <2>1, <2>3
    <3>2. k - 1 \notin Short
      BY <2>1, <3>1
    <3>3. Spacing[k - 1] \in 1..MaxGap /\ Least((k - 1) + 1, MaxGap) <= Spacing[k - 1]
      BY <3>1, <3>2
    <3>4. Spacing[k] = NextGap(Spacing[k - 1])
      BY <1>3, <3>1
    <3>5. Spacing[k] \in 1..MaxGap /\ Least(k + 1, MaxGap) <= Spacing[k]
      BY <1>1, <3>1, <3>3, <3>4, <2>3 DEF NextGap, Least
    <3> QED BY <2>1, <3>5
  <2> QED BY <2>2, <2>3
<1>5. \A n \in 0..MaxGap : Spacing[n] \in 1..MaxGap /\ Least(n + 1, MaxGap) <= Spacing[n]
  BY <1>4
<1>6. Spacing[MaxGap] = MaxGap
  BY <1>1, <1>5 DEF Least
<1> QED BY <1>2, <1>3, <1>5, <1>6

----------------------------------------------------------------------------
(* The gap is the spacing of the decisions that were made in a row, and a  *)
(* replacement waits only for a client that was found unavailable.         *)
Counted == streak \in 0..MaxGap /\ gap = Spacing[streak] /\ age \in Nat

ForCause ==
  /\ replaces \in [own : Nat, old : Nat]
  /\ replaces.own > 0 => blamed

Decisions == Counted /\ ForCause

LEMMA InitDecisions == Init => Decisions
  BY RecoveryAssumption, SpacingDoubles DEF Init, Decisions, Counted, ForCause

(* finished: one answer, judged. *)
LEMMA JudgeKeeps ==
  ASSUME Decisions, NEW c, NEW a, Judge(c, a)
  PROVE  Decisions'
<1>1. MaxGap \in Nat /\ MaxGap > 0
  BY RecoveryAssumption
<1>2. blamed => blamed'
  BY DEF Judge
<1>3. CASE c.own /\ a = "unavailable" /\ Due
  <2>1. /\ age' = 0 /\ gap' = NextGap(gap) /\ streak' = Least(streak + 1, MaxGap)
        /\ replaces' = [replaces EXCEPT !.own = @ + 1] /\ blamed'
    BY <1>3 DEF Judge, Counts
  <2>2. gap' = Spacing[streak'] /\ streak' \in 0..MaxGap
    <3>1. CASE streak < MaxGap
      <4>1. streak' = streak + 1
        BY <1>1, <2>1, <3>1 DEF Least, Decisions, Counted
      <4>2. Spacing[streak + 1] = NextGap(Spacing[streak])
        BY <3>1, SpacingDoubles DEF Decisions, Counted
      <4> QED BY <1>1, <2>1, <3>1, <4>1, <4>2 DEF Decisions, Counted
    <3>2. CASE streak = MaxGap
      <4>1. streak' = MaxGap
        BY <1>1, <2>1, <3>2 DEF Least
      <4>2. NextGap(MaxGap) = MaxGap
        BY <1>1 DEF NextGap, Least
      <4> QED BY <1>1, <2>1, <3>2, <4>1, <4>2, SpacingDoubles DEF Decisions, Counted
    <3> QED BY <1>1, <3>1, <3>2 DEF Decisions, Counted
  <2> QED BY <2>1, <2>2 DEF Decisions, Counted, ForCause
<1>4. CASE ~(c.own /\ a = "unavailable" /\ Due)
  <2>1. /\ UNCHANGED <<age, replaces>>
        /\ gap' = (IF c.own /\ a = "ok" THEN FirstGap ELSE gap)
        /\ streak' = (IF c.own /\ a = "ok" THEN 0 ELSE streak)
    BY <1>4 DEF Judge, Counts
  <2> QED BY <1>1, <1>2, <2>1, SpacingDoubles DEF Decisions, Counted, ForCause
<1> QED BY <1>3, <1>4

LEMMA ReplaceKeeps ==
  ASSUME Decisions, Replace
  PROVE  Decisions'
<1>1. Counted'
  BY DEF Replace, policy, Decisions, Counted
<1>2. PICK epoch \in {"own", "old"} :
        /\ replaces[epoch] > 0
        /\ \/ epoch = "own" /\ replaces' = [own |-> 0, old |-> replaces.own + replaces.old - 1]
           \/ /\ epoch = "old" /\ replaces' = [replaces EXCEPT ![epoch] = @ - 1]
              /\ blamed' = blamed
  BY Zenon DEF Replace, StillCurrent
<1>3. ForCause'
  BY <1>2 DEF Decisions, ForCause
<1> QED BY <1>1, <1>3 DEF Decisions

LEMMA TickKeeps ==
  ASSUME Decisions, Tick
  PROVE  Decisions' /\ age' # 0
<1>1. MaxGap \in Nat /\ MaxGap > 0
  BY RecoveryAssumption
<1> QED BY <1>1 DEF Tick, Decisions, Counted, ForCause, Least, registry

(* The steps that neither judge an answer nor replace a client. *)
Elsewhere ==
  \/ Refresh \/ OnClientReplaced \/ Schedule \/ TimerFires \/ Revalidate
  \/ \E c \in calls : Resume(c) \/ OnCallUnavailable(c) \/ OnRevalidated(c)
  \/ OnProviderLost \/ OnProviderArmed \/ Call \/ ProviderStops \/ ProviderStarts

LEMMA ElsewhereKeeps ==
  ASSUME Elsewhere
  PROVE  UNCHANGED <<age, gap, streak, replaces, blamed>>
BY DEF Elsewhere, Refresh, OnClientReplaced, Schedule, TimerFires, Revalidate, Resume,
       OnCallUnavailable, OnRevalidated, OnProviderLost, OnProviderArmed, Call, ProviderStops,
       ProviderStarts, policy, registry

LEMMA NextSplit ==
  ASSUME Next
  PROVE  Elsewhere \/ Replace \/ Tick \/ \E c \in calls : Answer(c)
BY Zenon DEF Next, Elsewhere, CallStep

LEMMA DecisionsAlways == Spec => []Decisions
<1>1. Decisions /\ [Next]_vars => Decisions'
  <2> SUFFICES ASSUME Decisions, [Next]_vars
               PROVE  Decisions'
    OBVIOUS
  <2>1. CASE UNCHANGED <<age, gap, streak, replaces, blamed>>
    BY <2>1 DEF Decisions, Counted, ForCause
  <2>2. CASE Elsewhere
    BY <2>1, <2>2, ElsewhereKeeps
  <2>3. CASE Replace
    BY <2>3, ReplaceKeeps
  <2>4. CASE Tick
    BY <2>4, TickKeeps
  <2>5. ASSUME NEW c \in calls, Answer(c)
        PROVE  Decisions'
    BY <2>5, JudgeKeeps DEF Answer
  <2>6. CASE UNCHANGED vars
    BY <2>1, <2>6 DEF vars, policy, registry
  <2> QED BY <2>2, <2>3, <2>4, <2>5, <2>6, NextSplit
<1> QED BY InitDecisions, <1>1, PTL DEF Spec

(* RecyclePolicy: however the answers of several clients interleave, the   *)
(* n-th replacement decided in a row waits for the n-th spacing.           *)
THEOREM ReplacementsAreSpaced == Spec => SpacedOut
<1>1. Decisions /\ [Next]_vars => [age # 0 /\ age' = 0 => age >= Spacing[streak]]_vars
  <2> SUFFICES ASSUME Decisions, Next, age # 0, age' = 0
               PROVE  age >= Spacing[streak]
    OBVIOUS
  <2>1. PICK c \in calls : Answer(c)
    <3>1. ~Elsewhere
      BY ElsewhereKeeps
    <3>2. ~Replace
      BY DEF Replace, policy
    <3>3. ~Tick
      BY TickKeeps
    <3> QED BY <3>1, <3>2, <3>3, NextSplit
  <2>2. PICK a : Judge(c, a)
    BY <2>1 DEF Answer
  <2>3. Due
    BY <2>2 DEF Judge
  <2> QED BY <2>3 DEF Due, Decisions, Counted
<1> QED BY <1>1, DecisionsAlways, PTL DEF Spec, SpacedOut

(* ClientRegistry::replace: whoever queued the job and however late it     *)
(* runs, the client it takes away was itself found unavailable.            *)
THEOREM FaultIsItsOwn == Spec => OwnFault
<1>1. Decisions /\ [Next]_vars => [Replaced \notin handlers /\ Replaced \in handlers' => blamed]_vars
  <2> SUFFICES ASSUME Decisions, Next, Replaced \notin handlers, Replaced \in handlers'
               PROVE  blamed
    OBVIOUS
  <2>1. \A d : Replaced # [does |-> "schedule", delay |-> d]
    BY DEF Replaced
  <2>2. ~Elsewhere
    <3>1. ~\E d : Later(d)
      BY <2>1 DEF Later
    <3>2. ~(Refresh \/ OnClientReplaced \/ Schedule \/ TimerFires \/ Revalidate)
      BY <2>1 DEF Refresh, OnClientReplaced, Schedule, TimerFires, Revalidate
    <3>3. ~(OnProviderLost \/ OnProviderArmed \/ Call \/ ProviderStops \/ ProviderStarts)
      BY <3>1 DEF OnProviderLost, OnProviderArmed, Call, ProviderStops, ProviderStarts
    <3>4. ASSUME NEW c \in calls
          PROVE  ~(Resume(c) \/ OnCallUnavailable(c) \/ OnRevalidated(c))
      <4>1. ~Retry
        BY <3>1 DEF Retry
      <4>2. ASSUME NEW retry, Publish(retry)
            PROVE  FALSE
        BY <4>1, <4>2 DEF Publish
      <4>3. ~Missed
        BY <4>1 DEF Missed
      <4> QED BY <3>1, <4>2, <4>3 DEF Resume, OnCallUnavailable, OnRevalidated
    <3> QED BY <3>2, <3>3, <3>4 DEF Elsewhere
  <2>3. Replace
    BY <2>2, NextSplit DEF Tick, Answer
  <2>4. replaces.own > 0
    BY <2>3, Zenon DEF Replace, StillCurrent
  <2> QED BY <2>4 DEF Decisions, ForCause
<1> QED BY <1>1, DecisionsAlways, PTL DEF Spec, OwnFault
=============================================================================

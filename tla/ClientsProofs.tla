--------------------------- MODULE ClientsProofs ---------------------------
(***************************************************************************)
(* What the registry and the hub promise of a module's clients, for any    *)
(* numbers of calls, events, pump threads, clients and reports: no call    *)
(* loses its client, no client is kept, none is destroyed in its own       *)
(* callback, and the upstream subscriptions follow the current one.        *)
(***************************************************************************)
EXTENDS Clients, Integers, FiniteSetTheorems, TLAPS

(* What an action leaves unchanged it names as "handles" or "hub".         *)
USE DEF handles

----------------------------------------------------------------------------
(* Types *)

CallPcs == {"new", "invoking", "sent", "release", "unbox", "repost", "answered"}

(* bind's labels, and those in which it has a lease. *)
Leased == {"check", "watch", "install", "subscribe", "reread"}
Binding == Leased \cup {"lease"}

PumpPcs ==
  {"idle", "expire", "send", "return", "dying", "retire", "reset", "rebind", "next", "unlease"}
    \cup Binding

Slot == [inFlight : Int, retired : BOOLEAN, has : BOOLEAN]

(* Only a client that may still get a successor is to be replaced. *)
Jobs == {j \in [kind : {"release", "replace"}, epoch : Epochs] :
           j.kind = "replace" => j.epoch < MaxEpoch}

Call == [pc : CallPcs, epoch : 0..MaxEpoch, by : Pumps \cup {CHOOSE p \in Pumps : TRUE}]

RegistryTyped ==
  /\ epoch \in 0..MaxEpoch
  /\ slots \in [Epochs -> Slot]
  /\ retired \subseteq Epochs /\ expired \subseteq Epochs
  /\ refs \in [Epochs -> SUBSET (Holders \cup Pumps)]
  /\ box \in [Epochs -> SUBSET {"callback", "job"}]
  /\ gone \in [Epochs -> {"no", "pump", "callback", "main"}]
  /\ stage \in {"running", "hubCleared", "closing", "closed", "stopped"}

HubTyped ==
  /\ ups \in [Events -> 0..NoUp] /\ refused \in [Events -> 0..MaxEpoch]
  /\ watch \in [installed : 0..MaxEpoch, accept : 0..MaxEpoch]
  /\ watchers \subseteq Epochs
  /\ report \in [Epochs -> {"idle", "counts"}]

WorkTyped ==
  /\ queue \in Seq(Jobs)
  /\ call \in [Calls -> Call]
  /\ pc \in [Pumps -> PumpPcs]
  /\ lease \in [Pumps -> 0..MaxEpoch]
  /\ round \in [Pumps -> Nat]
  /\ todo \in [Pumps -> SUBSET Events] /\ binding \in [Pumps -> SUBSET Events]
  /\ adding \in [Pumps -> SUBSET Events] /\ dead \in [Pumps -> SUBSET Events]

(* Who needs a client to go on has one. *)
Placed ==
  /\ \A p \in Pumps : pc[p] \in {"expire", "send"} \cup Leased => lease[p] \in Epochs
  /\ \A c \in Calls : call[c].pc \notin {"new", "answered"} => call[c].epoch \in Epochs
  /\ \A c \in Calls : call[c].pc = "repost" => call[c].epoch < MaxEpoch

TypeOK == RegistryTyped /\ HubTyped /\ WorkTyped /\ Placed

(* What Drop leaves of the references, and of the clients. *)
LEMMA Dropped ==
  ASSUME RegistryTyped, NEW who, NEW K, NEW kind, Drop(who, K, kind)
  PROVE  /\ DOMAIN refs' = Epochs /\ DOMAIN gone' = Epochs
         /\ \A k \in Epochs : /\ k \notin K => refs'[k] = refs[k]
                              /\ k \in K => refs'[k] = refs[k] \ {who}
         /\ \A k \in Epochs : gone'[k] = IF k \in K /\ refs[k] = {who} THEN kind ELSE gone[k]
  BY DEF Drop, RegistryTyped

LEMMA DropTyped ==
  ASSUME RegistryTyped, NEW who, NEW K, NEW kind \in {"pump", "callback", "main"},
         Drop(who, K, kind)
  PROVE  /\ refs' \in [Epochs -> SUBSET (Holders \cup Pumps)]
         /\ gone' \in [Epochs -> {"no", "pump", "callback", "main"}]
  BY DEF Drop, RegistryTyped

(* A slot's fields, one at a time. *)
LEMMA SetInFlight ==
  ASSUME NEW s \in Slot, NEW n \in Int
  PROVE  LET t == [s EXCEPT !.inFlight = n] IN
         t \in Slot /\ t.inFlight = n /\ t.retired = s.retired /\ t.has = s.has
  BY DEF Slot

LEMMA SetHas ==
  ASSUME NEW s \in Slot, NEW b \in BOOLEAN
  PROVE  LET t == [s EXCEPT !.has = b] IN
         t \in Slot /\ t.inFlight = s.inFlight /\ t.retired = s.retired /\ t.has = b
  BY DEF Slot

LEMMA SetRetired ==
  ASSUME NEW s \in Slot
  PROVE  LET t == [s EXCEPT !.retired = TRUE] IN
         t \in Slot /\ t.inFlight = s.inFlight /\ t.retired = TRUE /\ t.has = s.has
  BY DEF Slot

LEMMA NewSlotType ==
  NewSlot \in Slot /\ NewSlot.inFlight = 0 /\ NewSlot.retired = FALSE /\ NewSlot.has = TRUE
  BY DEF NewSlot, Slot

(* The sweep takes clients out of their slots and leaves the rest alone. *)
LEMMA Swept ==
  ASSUME NEW S \in [Epochs -> Slot], NEW X
  PROVE  /\ Sweep(S, X) \in [Epochs -> Slot]
         /\ \A k \in Epochs : /\ Sweep(S, X)[k].inFlight = S[k].inFlight
                              /\ Sweep(S, X)[k].retired = S[k].retired
                              /\ Sweep(S, X)[k].has <=> (S[k].has /\ k \notin X)
<1>1. \A k \in Epochs : Sweep(S, X)[k] = IF k \in X THEN [S[k] EXCEPT !.has = FALSE] ELSE S[k]
  BY DEF Sweep
<1>2. ASSUME NEW k \in Epochs
      PROVE  /\ Sweep(S, X)[k] \in Slot
             /\ Sweep(S, X)[k].inFlight = S[k].inFlight
             /\ Sweep(S, X)[k].retired = S[k].retired
             /\ Sweep(S, X)[k].has <=> (S[k].has /\ k \notin X)
  <2>1. S[k] \in Slot /\ S[k].has \in BOOLEAN
    BY DEF Slot
  <2>2. CASE k \in X
    <3>1. FALSE \in BOOLEAN /\ Sweep(S, X)[k] = [S[k] EXCEPT !.has = FALSE]
      BY <1>1, <2>2
    <3> QED  BY <2>1, <2>2, <3>1, SetHas
  <2>3. CASE k \notin X
    BY <1>1, <2>1, <2>3
  <2> QED  BY <2>2, <2>3
<1>3. Sweep(S, X) \in [Epochs -> Slot]
  BY <1>2 DEF Sweep
<1> QED  BY <1>2, <1>3

LEMMA CountedIn ==
  ASSUME RegistryTyped, NEW k \in Epochs
  PROVE  /\ CountIn(k) \in [Epochs -> Slot]
         /\ \A j \in Epochs \ {k} : CountIn(k)[j] = slots[j]
         /\ CountIn(k)[k].inFlight = slots[k].inFlight + 1
         /\ CountIn(k)[k].retired = slots[k].retired
         /\ CountIn(k)[k].has = TRUE
<1>1. slots \in [Epochs -> Slot] /\ slots[k] \in Slot
  BY DEF RegistryTyped
<1> DEFINE counted == [slots[k] EXCEPT !.inFlight = slots[k].inFlight + 1]
           kept == [counted EXCEPT !.has = TRUE]
<1>2. slots[k].inFlight + 1 \in Int
  BY <1>1 DEF Slot
<1>3. /\ counted \in Slot /\ counted.inFlight = slots[k].inFlight + 1
      /\ counted.retired = slots[k].retired
  BY <1>1, <1>2, SetInFlight
<1>4. TRUE \in BOOLEAN
  OBVIOUS
<1>5. /\ kept \in Slot /\ kept.inFlight = counted.inFlight
      /\ kept.retired = counted.retired /\ kept.has = TRUE
  <2> HIDE DEF counted
  <2> QED  BY <1>3, <1>4, SetHas
<1>6. CountIn(k) = [slots EXCEPT ![k] = kept]
  BY <1>1 DEF CountIn
<1> HIDE DEF counted, kept
<1> QED  BY <1>1, <1>3, <1>5, <1>6

LEMMA CurrentMade ==
  ASSUME RegistryTyped
  PROVE  Current \in Epochs /\ Current >= epoch /\ (epoch # 0 => Current = epoch)
  BY ClientsAssumption DEF RegistryTyped, Current, Epochs

LEMMA MaxOf ==
  ASSUME NEW a \in Int, NEW b \in Int
  PROVE  /\ Max2(a, b) \in Int /\ Max2(a, b) >= a /\ Max2(a, b) >= b
         /\ Max2(a, b) \in {a, b}
  BY DEF Max2

LEMMA InitType == Init => TypeOK
<1> SUFFICES ASSUME Init PROVE TypeOK
  OBVIOUS
<1>1. 0 \in 0..MaxEpoch /\ NoUp \in 0..NoUp
  BY ClientsAssumption DEF NoUp
<1>2. [NewSlot EXCEPT !.has = FALSE] \in Slot
  BY NewSlotType, SetHas
<1>3. RegistryTyped
  BY <1>1, <1>2 DEF Init, RegistryTyped
<1>4. HubTyped
  BY <1>1 DEF Init, HubTyped
<1>5. [pc |-> "new", epoch |-> 0, by |-> CHOOSE p \in Pumps : TRUE] \in Call
  BY <1>1 DEF Call, CallPcs
<1>6. WorkTyped
  <2>1. queue \in Seq(Jobs)
    BY DEF Init
  <2>2. call \in [Calls -> Call]
    BY <1>5 DEF Init
  <2> QED  BY <1>1, <2>1, <2>2 DEF Init, WorkTyped, PumpPcs
<1>7. Placed
  BY DEF Init, Placed, Leased
<1> QED  BY <1>3, <1>4, <1>6, <1>7 DEF TypeOK

----------------------------------------------------------------------------
(* What the registry's steps do to slots and references *)

(* A call counted on the current client, and expired clients swept out.    *)
LEMMA InvokeDoes ==
  ASSUME TypeOK, NEW p \in Pumps, NEW c \in Calls, Invoke(p, c), ~Closed
  PROVE  \E X \in SUBSET retired :
           /\ slots' \in [Epochs -> Slot]
           /\ \A j \in Epochs :
                /\ slots'[j].inFlight = IF j = Current THEN slots[j].inFlight + 1
                                        ELSE slots[j].inFlight
                /\ slots'[j].retired = slots[j].retired
                /\ slots'[j].has <=> ((slots[j].has \/ j = Current) /\ j \notin X)
           /\ retired' = retired \ X /\ expired' = expired \cup X
           /\ refs' = [j \in Epochs |->
                        IF j \in X THEN (refs[j] \ {"slot"}) \cup {p}
                        ELSE IF j = Current THEN refs[j] \cup {"slot", p} ELSE refs[j]]
<1>1. PICK X \in SUBSET retired :
        /\ slots' = Sweep(CountIn(Current), X)
        /\ retired' = retired \ X /\ expired' = expired \cup X
        /\ refs' = [j \in Epochs |->
                     IF j \in X THEN (refs[j] \ {"slot"}) \cup {p}
                     ELSE IF j = Current THEN refs[j] \cup {"slot", p} ELSE refs[j]]
  BY DEF Invoke
<1>2. Current \in Epochs
  BY CurrentMade DEF TypeOK
<1>3. /\ CountIn(Current) \in [Epochs -> Slot]
      /\ \A j \in Epochs \ {Current} : CountIn(Current)[j] = slots[j]
      /\ CountIn(Current)[Current].inFlight = slots[Current].inFlight + 1
      /\ CountIn(Current)[Current].retired = slots[Current].retired
      /\ CountIn(Current)[Current].has = TRUE
  BY <1>2, CountedIn DEF TypeOK
<1>4. /\ slots' \in [Epochs -> Slot]
      /\ \A j \in Epochs : /\ slots'[j].inFlight = CountIn(Current)[j].inFlight
                           /\ slots'[j].retired = CountIn(Current)[j].retired
                           /\ slots'[j].has <=> (CountIn(Current)[j].has /\ j \notin X)
  BY <1>1, <1>3, Swept
<1>5. \A j \in Epochs :
        /\ slots'[j].inFlight = IF j = Current THEN slots[j].inFlight + 1 ELSE slots[j].inFlight
        /\ slots'[j].retired = slots[j].retired
        /\ slots'[j].has <=> ((slots[j].has \/ j = Current) /\ j \notin X)
  <2> SUFFICES ASSUME NEW j \in Epochs
               PROVE  /\ slots'[j].inFlight = IF j = Current THEN slots[j].inFlight + 1
                                              ELSE slots[j].inFlight
                      /\ slots'[j].retired = slots[j].retired
                      /\ slots'[j].has <=> ((slots[j].has \/ j = Current) /\ j \notin X)
    OBVIOUS
  <2>1. slots[j].has \in BOOLEAN
    BY DEF TypeOK, RegistryTyped, Slot
  <2>2. CASE j = Current
    BY <1>3, <1>4, <2>1, <2>2
  <2>3. CASE j # Current
    BY <1>3, <1>4, <2>1, <2>3
  <2> QED  BY <2>2, <2>3
<1> QED  BY <1>1, <1>4, <1>5

(* An answer taken off its client, which it leaves if it was the last one. *)
LEMMA FinishedDoes ==
  ASSUME TypeOK, NEW c \in Calls, Finished(c)
  PROVE  LET k == call[c].epoch IN
         /\ k \in Epochs /\ gone[k] = "no"
         /\ slots' \in [Epochs -> Slot]
         /\ \A j \in Epochs \ {k} : slots'[j] = slots[j]
         /\ slots'[k].inFlight = slots[k].inFlight - 1
         /\ slots'[k].retired = slots[k].retired
         /\ slots'[k].has <=> (slots[k].has /\ ~LastAnswer(k))
<1> DEFINE k == call[c].epoch
           has == IF LastAnswer(k) THEN FALSE ELSE slots[k].has
           answered == [slots[k] EXCEPT !.inFlight = slots[k].inFlight - 1]
           left == [answered EXCEPT !.has = has]
<1>1. k \in Epochs /\ gone[k] = "no"
  BY DEF Finished, TypeOK, Placed
<1>2. /\ slots \in [Epochs -> Slot] /\ slots[k] \in Slot
      /\ slots[k].inFlight - 1 \in Int /\ slots[k].has \in BOOLEAN
  BY <1>1 DEF TypeOK, RegistryTyped, Slot
<1>3. has \in BOOLEAN /\ (has <=> slots[k].has /\ ~LastAnswer(k))
  BY <1>2
<1>4. /\ answered \in Slot /\ answered.inFlight = slots[k].inFlight - 1
      /\ answered.retired = slots[k].retired /\ answered.has = slots[k].has
  <2> HIDE DEF k
  <2> QED  BY <1>2, SetInFlight
<1>5. /\ left \in Slot /\ left.inFlight = answered.inFlight
      /\ left.retired = answered.retired /\ left.has = has
  <2> HIDE DEF answered, has
  <2> QED  BY <1>3, <1>4, SetHas
<1>6. slots' = [slots EXCEPT ![k] = left]
  <2>1. slots' = [slots EXCEPT ![k].inFlight = @ - 1,
                               ![k].has = IF LastAnswer(k) THEN FALSE ELSE @]
    BY DEF Finished
  <2> QED  BY <1>1, <1>2, <1>4, <2>1
<1> HIDE DEF k, has, answered, left
<1>7. /\ k \in Epochs /\ gone[k] = "no"
      /\ slots' \in [Epochs -> Slot]
      /\ \A j \in Epochs \ {k} : slots'[j] = slots[j]
      /\ slots'[k].inFlight = slots[k].inFlight - 1
      /\ slots'[k].retired = slots[k].retired
      /\ slots'[k].has <=> (slots[k].has /\ ~LastAnswer(k))
  BY <1>1, <1>2, <1>3, <1>4, <1>5, <1>6
<1> QED  BY <1>7 DEF k

(* A replacement that is made: the old client's slot retires, the next     *)
(* one's is new, and expired clients are swept out.                        *)
LEMMA ReplaceDoes ==
  ASSUME TypeOK, NEW p \in Pumps, Replace(p), epoch' # epoch
  PROVE  /\ ~Closed /\ epoch \in Epochs /\ epoch + 1 \in Epochs /\ epoch' = epoch + 1
         /\ pc' = [pc EXCEPT ![p] = "dying"]
         /\ lease' = [lease EXCEPT ![p] = epoch + 1]
         /\ UNCHANGED <<box, gone, work>>
         /\ \E X \in SUBSET retired :
              /\ slots' \in [Epochs -> Slot]
              /\ \A j \in Epochs :
                   /\ slots'[j].inFlight = IF j = epoch + 1 THEN 0 ELSE slots[j].inFlight
                   /\ (slots'[j].retired <=> j # epoch + 1 /\ (slots[j].retired \/ j = epoch))
                   /\ slots'[j].has <=> /\ j \notin X
                                        /\ \/ j = epoch + 1
                                           \/ j = epoch /\ ~Idle(j)
                                           \/ j \notin {epoch, epoch + 1} /\ slots[j].has
              /\ retired' = (retired \ X) \cup (IF Idle(epoch) THEN {} ELSE {epoch})
              /\ expired' = expired \cup X
              /\ refs' = [j \in Epochs |->
                           IF j \in X \/ (j = epoch /\ Idle(epoch))
                           THEN (refs[j] \ {"slot"}) \cup {p}
                           ELSE IF j = epoch + 1 THEN {"slot"} ELSE refs[j]]
<1> DEFINE k == Head(queue).epoch
           S == [slots EXCEPT ![k].retired = TRUE, ![k].has = ~Idle(k), ![k + 1] = NewSlot]
           retiring == [slots[k] EXCEPT !.retired = TRUE]
           leaving == [retiring EXCEPT !.has = ~Idle(k)]
<1>1. /\ queue # <<>> /\ Head(queue) \in Jobs /\ Head(queue).kind = "replace"
  BY DEF Replace, TypeOK, WorkTyped
<1>2. k \in Epochs /\ k < MaxEpoch /\ k + 1 \in Epochs /\ k + 1 # k
  BY <1>1, ClientsAssumption DEF Jobs, Epochs
<1>3. /\ ~Closed /\ epoch = k /\ epoch' = k + 1
      /\ pc' = [pc EXCEPT ![p] = "dying"]
      /\ lease' = [lease EXCEPT ![p] = k + 1]
      /\ UNCHANGED <<box, gone, work>>
      /\ \E X \in SUBSET retired :
           /\ slots' = Sweep(S, X)
           /\ retired' = (retired \ X) \cup (IF Idle(k) THEN {} ELSE {k})
           /\ expired' = expired \cup X
           /\ refs' = [j \in Epochs |->
                        IF j \in X \/ (j = k /\ Idle(k)) THEN (refs[j] \ {"slot"}) \cup {p}
                        ELSE IF j = k + 1 THEN {"slot"} ELSE refs[j]]
  BY DEF Replace, registry
<1>4. slots \in [Epochs -> Slot] /\ slots[k] \in Slot
  BY <1>2 DEF TypeOK, RegistryTyped
<1>5. /\ retiring \in Slot /\ retiring.inFlight = slots[k].inFlight /\ retiring.retired = TRUE
  <2> HIDE DEF k
  <2> QED  BY <1>4, SetRetired
<1>6. /\ leaving \in Slot /\ leaving.inFlight = slots[k].inFlight
      /\ leaving.retired = TRUE /\ leaving.has = ~Idle(k)
  <2>1. (~Idle(k)) \in BOOLEAN
    BY DEF Idle
  <2> HIDE DEF k, retiring
  <2> QED  BY <1>5, <2>1, SetHas
<1>7. S = [[slots EXCEPT ![k] = leaving] EXCEPT ![k + 1] = NewSlot]
  BY <1>2, <1>4, <1>5
<1> HIDE DEF k, S, retiring, leaving
<1>8. /\ S \in [Epochs -> Slot]
      /\ S[k + 1] = NewSlot /\ S[k] = leaving
      /\ \A j \in Epochs \ {k, k + 1} : S[j] = slots[j]
  BY <1>2, <1>4, <1>6, <1>7, NewSlotType
<1>9. PICK X \in SUBSET retired :
        /\ slots' = Sweep(S, X)
        /\ retired' = (retired \ X) \cup (IF Idle(k) THEN {} ELSE {k})
        /\ expired' = expired \cup X
        /\ refs' = [j \in Epochs |->
                     IF j \in X \/ (j = k /\ Idle(k)) THEN (refs[j] \ {"slot"}) \cup {p}
                     ELSE IF j = k + 1 THEN {"slot"} ELSE refs[j]]
  BY <1>3
<1>10. /\ slots' \in [Epochs -> Slot]
       /\ \A j \in Epochs : /\ slots'[j].inFlight = S[j].inFlight
                            /\ slots'[j].retired = S[j].retired
                            /\ slots'[j].has <=> (S[j].has /\ j \notin X)
  BY <1>8, <1>9, Swept
<1>11. ASSUME NEW j \in Epochs
       PROVE  /\ slots'[j].inFlight = IF j = k + 1 THEN 0 ELSE slots[j].inFlight
              /\ (slots'[j].retired <=> j # k + 1 /\ (slots[j].retired \/ j = k))
              /\ slots'[j].has <=> /\ j \notin X
                                   /\ \/ j = k + 1
                                      \/ j = k /\ ~Idle(j)
                                      \/ j \notin {k, k + 1} /\ slots[j].has
  <2>1. slots[j].has \in BOOLEAN /\ slots[j].retired \in BOOLEAN
    BY DEF TypeOK, RegistryTyped, Slot
  <2>2. CASE j = k + 1
    BY <1>2, <1>8, <1>10, <2>2, NewSlotType
  <2>3. CASE j = k
    BY <1>2, <1>6, <1>8, <1>10, <2>1, <2>3
  <2>4. CASE j \notin {k, k + 1}
    BY <1>8, <1>10, <2>1, <2>4
  <2> QED  BY <2>2, <2>3, <2>4
<1>12. \A j \in Epochs :
         /\ slots'[j].inFlight = IF j = epoch + 1 THEN 0 ELSE slots[j].inFlight
         /\ (slots'[j].retired <=> j # epoch + 1 /\ (slots[j].retired \/ j = epoch))
         /\ slots'[j].has <=> /\ j \notin X
                              /\ \/ j = epoch + 1
                                 \/ j = epoch /\ ~Idle(j)
                                 \/ j \notin {epoch, epoch + 1} /\ slots[j].has
  BY <1>3, <1>11
<1>13. /\ retired' = (retired \ X) \cup (IF Idle(epoch) THEN {} ELSE {epoch})
       /\ expired' = expired \cup X
       /\ refs' = [j \in Epochs |->
                    IF j \in X \/ (j = epoch /\ Idle(epoch)) THEN (refs[j] \ {"slot"}) \cup {p}
                    ELSE IF j = epoch + 1 THEN {"slot"} ELSE refs[j]]
  BY <1>3, <1>9
<1>14. epoch \in Epochs /\ epoch + 1 \in Epochs
  BY <1>2, <1>3
<1> QED  BY <1>3, <1>10, <1>12, <1>13, <1>14

(* A lease on the current client, the first one made for it if need be.    *)
LEMMA BindLeaseDoes ==
  ASSUME TypeOK, NEW p \in Pumps, BindLease(p), ~Closed
  PROVE  /\ epoch' = Current /\ slots' \in [Epochs -> Slot]
         /\ \A j \in Epochs : /\ slots'[j].inFlight = slots[j].inFlight
                              /\ slots'[j].retired = slots[j].retired
                              /\ slots'[j].has <=> (slots[j].has \/ j = Current)
         /\ DOMAIN refs' = Epochs
         /\ \A j \in Epochs : refs'[j] = IF j = Current THEN refs[j] \cup {"slot", p} ELSE refs[j]
<1> DEFINE leased == [slots[Current] EXCEPT !.has = TRUE]
<1>1. Current \in Epochs
  BY CurrentMade DEF TypeOK
<1>2. slots \in [Epochs -> Slot] /\ slots[Current] \in Slot
      /\ \A j \in Epochs : slots[j].has \in BOOLEAN
  BY <1>1 DEF TypeOK, RegistryTyped, Slot
<1>3. /\ epoch' = Current
      /\ slots' = [slots EXCEPT ![Current] = leased]
      /\ refs' = [refs EXCEPT ![Current] = @ \cup {"slot", p}]
  BY DEF BindLease
<1>4. /\ leased \in Slot /\ leased.inFlight = slots[Current].inFlight
      /\ leased.retired = slots[Current].retired /\ leased.has = TRUE
  <2>1. TRUE \in BOOLEAN
    OBVIOUS
  <2> QED  BY <1>2, <2>1, SetHas
<1>5. refs \in [Epochs -> SUBSET (Holders \cup Pumps)]
  BY DEF TypeOK, RegistryTyped
<1> HIDE DEF leased
<1> QED  BY <1>1, <1>2, <1>3, <1>4, <1>5

LEMMA CloseDoes ==
  ASSUME TypeOK, Close
  PROVE  /\ slots' \in [Epochs -> Slot]
         /\ \A j \in Epochs : /\ slots'[j].inFlight = slots[j].inFlight
                              /\ slots'[j].retired = slots[j].retired
                              /\ slots'[j].has = FALSE
<1>1. slots' = [k \in Epochs |-> [slots[k] EXCEPT !.has = FALSE]]
  BY DEF Close
<1>2. ASSUME NEW j \in Epochs
      PROVE  /\ slots'[j] \in Slot /\ slots'[j].inFlight = slots[j].inFlight
             /\ slots'[j].retired = slots[j].retired /\ slots'[j].has = FALSE
  <2>1. slots[j] \in Slot /\ FALSE \in BOOLEAN /\ slots'[j] = [slots[j] EXCEPT !.has = FALSE]
    BY <1>1 DEF TypeOK, RegistryTyped
  <2> QED  BY <2>1, SetHas
<1> QED  BY <1>1, <1>2

----------------------------------------------------------------------------
(* Type correctness *)

(* The steps that neither touch the registry nor shut it down. *)
Elsewhere ==
  \/ \E p \in Pumps : \/ InvokeAsync(p) \/ Retire(p) \/ ResetBaseline(p) \/ Rebind(p)
                      \/ BindNext(p) \/ BindsDone(p) \/ WatchClaim(p) \/ WatchInstall(p) \/ BindReread(p)
                      \/ \E e \in Events : Add(p, e) \/ BindCheck(p, e) \/ BindRefused(p, e) \/ BindSwap(p, e)
  \/ \E c \in Calls : PostReplace(c)
  \/ \E k \in Epochs : ReportCheck(k) \/ ReportApply(k)
  \/ Rest

LEMMA ElsewhereLeaves == Elsewhere => UNCHANGED <<registry, stage>>
<1> SUFFICES ASSUME Elsewhere PROVE UNCHANGED <<registry, stage>>
  OBVIOUS
<1>1. ASSUME NEW p \in Pumps,
             \/ InvokeAsync(p) \/ Retire(p) \/ ResetBaseline(p) \/ Rebind(p)
             \/ BindNext(p) \/ BindsDone(p) \/ WatchClaim(p) \/ WatchInstall(p) \/ BindReread(p)
      PROVE  UNCHANGED <<registry, stage>>
  BY <1>1 DEF InvokeAsync, Retire, ResetBaseline, Rebind, BindNext, BindsDone, WatchClaim, WatchInstall,
              BindReread
<1>2. ASSUME NEW p \in Pumps, NEW e \in Events, Add(p, e) \/ BindCheck(p, e) \/ BindRefused(p, e) \/ BindSwap(p, e)
      PROVE  UNCHANGED <<registry, stage>>
  BY <1>2 DEF Add, BindCheck, BindRefused, BindSwap
<1>3. ASSUME NEW c \in Calls, PostReplace(c) PROVE UNCHANGED <<registry, stage>>
  BY <1>3 DEF PostReplace
<1>4. ASSUME NEW k \in Epochs, ReportCheck(k) \/ ReportApply(k) PROVE UNCHANGED <<registry, stage>>
  BY <1>4 DEF ReportCheck, ReportApply
<1>5. CASE Rest
  BY <1>5 DEF Rest, vars
<1> QED  BY <1>1, <1>2, <1>3, <1>4, <1>5 DEF Elsewhere

(* The steps that only drop references, and with what kind of thread. *)
Dropping(p) ==
  DropExpired(p) \/ ReturnJob(p) \/ DropDying(p) \/ Unlease(p) \/ BindAgain(p)

LEMMA DroppingDoes ==
  ASSUME NEW p \in Pumps, Dropping(p)
  PROVE  /\ UNCHANGED <<epoch, slots, retired, box, expired, stage, hub, status, queue, call>>
         /\ \E K : Drop(p, K, "pump")
  BY DEF Dropping, DropExpired, ReturnJob, DropDying, Unlease, BindAgain

(* Every step of the system, by what it does to the registry. *)
LEMMA Steps ==
  ASSUME Next
  PROVE  \/ Elsewhere
         \/ \E p \in Pumps :
              \/ Dropping(p) \/ RunRelease(p) \/ Replace(p) \/ BindLease(p)
              \/ \E c \in Calls : Invoke(p, c)
         \/ \E c \in Calls : Finished(c) \/ PostRelease(c) \/ Unbox(c)
         \/ HubClear \/ Close \/ CloseDrop \/ PumpStop
  BY DEF Next, PumpStep, CallbackStep, Elsewhere, Dropping

LEMMA RegistryType == TypeOK /\ [Next]_vars => RegistryTyped'
<1> SUFFICES ASSUME TypeOK, [Next]_vars PROVE RegistryTyped'
  OBVIOUS
<1> USE DEF TypeOK
<1>1. CASE UNCHANGED vars \/ Elsewhere
  <2>1. UNCHANGED <<registry, stage>>
    BY <1>1, ElsewhereLeaves DEF vars
  <2> QED  BY <2>1 DEF RegistryTyped, registry
<1>2. ASSUME NEW p \in Pumps, Dropping(p) PROVE RegistryTyped'
  <2>1. UNCHANGED <<epoch, slots, retired, box, expired, stage>>
    BY <1>2, DroppingDoes
  <2>2. PICK K : Drop(p, K, "pump")
    BY <1>2, DroppingDoes
  <2>3. /\ refs' \in [Epochs -> SUBSET (Holders \cup Pumps)]
        /\ gone' \in [Epochs -> {"no", "pump", "callback", "main"}]
    BY <2>2, DropTyped
  <2> QED  BY <2>1, <2>3 DEF RegistryTyped
<1>3. ASSUME NEW p \in Pumps, RunRelease(p) PROVE RegistryTyped'
  <2>1. PICK k : Drop("box", {k}, "pump") /\ box' = [box EXCEPT ![k] = @ \ {"job"}]
    BY <1>3 DEF RunRelease
  <2>2. UNCHANGED <<epoch, slots, retired, expired, stage>>
    BY <1>3 DEF RunRelease
  <2>3. /\ refs' \in [Epochs -> SUBSET (Holders \cup Pumps)]
        /\ gone' \in [Epochs -> {"no", "pump", "callback", "main"}]
    BY <2>1, DropTyped
  <2> QED  BY <2>1, <2>2, <2>3 DEF RegistryTyped
<1>4. ASSUME NEW p \in Pumps, Replace(p) PROVE RegistryTyped'
  <2>1. CASE epoch' = epoch
    <3>1. UNCHANGED <<registry, stage>>
      BY <1>4, <2>1 DEF Replace, RegistryTyped
    <3> QED  BY <3>1 DEF RegistryTyped, registry
  <2>2. CASE epoch' # epoch
    <3>1. /\ epoch \in Epochs /\ epoch' \in Epochs
          /\ UNCHANGED <<box, gone>>
          /\ slots' \in [Epochs -> Slot]
          /\ \E X \in SUBSET retired :
               /\ retired' = (retired \ X) \cup (IF Idle(epoch) THEN {} ELSE {epoch})
               /\ expired' = expired \cup X
               /\ refs' = [j \in Epochs |->
                            IF j \in X \/ (j = epoch /\ Idle(epoch))
                            THEN (refs[j] \ {"slot"}) \cup {p}
                            ELSE IF j = epoch + 1 THEN {"slot"} ELSE refs[j]]
      BY <1>4, <2>2, ReplaceDoes
    <3>2. epoch' \in 0..MaxEpoch /\ UNCHANGED stage
      BY <1>4, <3>1, ClientsAssumption DEF Epochs, Replace
    <3> QED  BY <3>1, <3>2 DEF RegistryTyped, Holders
  <2> QED  BY <2>1, <2>2
<1>5. ASSUME NEW p \in Pumps, BindLease(p) PROVE RegistryTyped'
  <2>1. CASE Closed
    <3>1. UNCHANGED <<registry, stage>>
      BY <1>5, <2>1 DEF BindLease
    <3> QED  BY <3>1 DEF RegistryTyped, registry
  <2>2. CASE ~Closed
    <3>1. /\ epoch' = Current /\ slots' \in [Epochs -> Slot] /\ DOMAIN refs' = Epochs
          /\ \A j \in Epochs : refs'[j] = IF j = Current THEN refs[j] \cup {"slot", p} ELSE refs[j]
          /\ refs' = [refs EXCEPT ![Current] = @ \cup {"slot", p}]
          /\ UNCHANGED <<retired, box, gone, expired, stage>>
      BY <1>5, <2>2, BindLeaseDoes DEF BindLease
    <3>2. Current \in Epochs /\ Current \in 0..MaxEpoch
      BY CurrentMade, ClientsAssumption DEF Epochs
    <3> QED  BY <3>1, <3>2 DEF RegistryTyped, Holders
  <2> QED  BY <2>1, <2>2
<1>6. ASSUME NEW p \in Pumps, NEW c \in Calls, Invoke(p, c) PROVE RegistryTyped'
  <2>1. CASE Closed
    <3>1. UNCHANGED <<registry, stage>>
      BY <1>6, <2>1 DEF Invoke
    <3> QED  BY <3>1 DEF RegistryTyped, registry
  <2>2. CASE ~Closed
    <3>1. \E X \in SUBSET retired :
            /\ slots' \in [Epochs -> Slot]
            /\ retired' = retired \ X /\ expired' = expired \cup X
            /\ refs' = [j \in Epochs |->
                         IF j \in X THEN (refs[j] \ {"slot"}) \cup {p}
                         ELSE IF j = Current THEN refs[j] \cup {"slot", p} ELSE refs[j]]
      BY <1>6, <2>2, InvokeDoes
    <3>2. epoch' \in 0..MaxEpoch /\ UNCHANGED <<box, gone, stage>>
      BY <1>6, <2>2, CurrentMade, ClientsAssumption DEF Invoke, Epochs
    <3> QED  BY <3>1, <3>2 DEF RegistryTyped, Holders
  <2> QED  BY <2>1, <2>2
<1>7. ASSUME NEW c \in Calls, Finished(c) PROVE RegistryTyped'
  <2>1. slots' \in [Epochs -> Slot]
    BY <1>7, FinishedDoes
  <2>2. /\ UNCHANGED <<epoch, gone, expired, stage>>
        /\ retired' \subseteq retired
    BY <1>7 DEF Finished
  <2>3. /\ refs' \in [Epochs -> SUBSET (Holders \cup Pumps)]
        /\ box' \in [Epochs -> SUBSET {"callback", "job"}]
    <3>1. CASE LastAnswer(call[c].epoch)
      <4>1. /\ refs' = [refs EXCEPT ![call[c].epoch] = (@ \ {"slot"}) \cup {"box"}]
            /\ box' = [box EXCEPT ![call[c].epoch] = {"callback"}]
        BY <1>7, <3>1 DEF Finished
      <4> QED  BY <4>1 DEF RegistryTyped, Holders
    <3>2. CASE ~LastAnswer(call[c].epoch)
      BY <1>7, <3>2 DEF Finished, RegistryTyped
    <3> QED  BY <3>1, <3>2
  <2> QED  BY <2>1, <2>2, <2>3 DEF RegistryTyped
<1>8. ASSUME NEW c \in Calls, PostRelease(c) PROVE RegistryTyped'
  <2>1. UNCHANGED <<epoch, slots, retired, gone, expired, stage>>
    BY <1>8 DEF PostRelease
  <2>2. \/ box' = [box EXCEPT ![call[c].epoch] = @ \cup {"job"}] /\ UNCHANGED refs
        \/ /\ refs' = [refs EXCEPT ![call[c].epoch] = (@ \ {"box"}) \cup {"unreleased"}]
           /\ UNCHANGED box
    BY <1>8 DEF PostRelease
  <2> QED  BY <2>1, <2>2 DEF RegistryTyped, Holders
<1>9. ASSUME NEW c \in Calls, Unbox(c) PROVE RegistryTyped'
  <2>1. /\ UNCHANGED <<epoch, slots, retired, expired, stage>>
        /\ box' = [box EXCEPT ![call[c].epoch] = @ \ {"callback"}]
        /\ UNCHANGED <<refs, gone>> \/ Drop("box", {call[c].epoch}, "callback")
    BY <1>9 DEF Unbox
  <2>2. /\ refs' \in [Epochs -> SUBSET (Holders \cup Pumps)]
        /\ gone' \in [Epochs -> {"no", "pump", "callback", "main"}]
    BY <2>1, DropTyped DEF RegistryTyped
  <2> QED  BY <2>1, <2>2 DEF RegistryTyped
<1>10. CASE HubClear
  BY <1>10 DEF HubClear, registry, RegistryTyped
<1>11. CASE Close
  <2>1. slots' \in [Epochs -> Slot]
    BY <1>11, CloseDoes
  <2> QED  BY <1>11, <2>1 DEF Close, RegistryTyped, Holders
<1>12. CASE CloseDrop
  <2>1. /\ UNCHANGED <<epoch, slots, retired, box, expired>> /\ stage' = "closed"
        /\ Drop("main", {k \in Epochs : "main" \in refs[k]}, "main")
    BY <1>12 DEF CloseDrop
  <2>2. /\ refs' \in [Epochs -> SUBSET (Holders \cup Pumps)]
        /\ gone' \in [Epochs -> {"no", "pump", "callback", "main"}]
    BY <2>1, DropTyped
  <2> QED  BY <2>1, <2>2 DEF RegistryTyped
<1>13. CASE PumpStop
  <2>1. /\ UNCHANGED <<epoch, slots, retired, expired>> /\ stage' = "stopped"
        /\ \E K : box' = [k \in Epochs |-> IF k \in K THEN box[k] \ {"job"} ELSE box[k]]
        /\ \E K : Drop("box", K, "main")
    BY <1>13 DEF PumpStop
  <2>2. /\ refs' \in [Epochs -> SUBSET (Holders \cup Pumps)]
        /\ gone' \in [Epochs -> {"no", "pump", "callback", "main"}]
    BY <2>1, DropTyped
  <2>3. box' \in [Epochs -> SUBSET {"callback", "job"}]
    BY <2>1 DEF RegistryTyped
  <2> QED  BY <2>1, <2>2, <2>3 DEF RegistryTyped
<1> QED
  BY <1>1, <1>2, <1>3, <1>4, <1>5, <1>6, <1>7, <1>8, <1>9, <1>10, <1>11, <1>12, <1>13, Steps

LEMMA HubType == TypeOK /\ [Next]_vars => HubTyped'
<1> SUFFICES ASSUME TypeOK, [Next]_vars PROVE HubTyped'
  OBVIOUS
<1> USE DEF TypeOK
<1>1. CASE UNCHANGED <<hub, report>>
  BY <1>1 DEF hub, HubTyped
<1>2. ASSUME NEW p \in Pumps, Retire(p) \/ WatchClaim(p) PROVE HubTyped'
  <2>1. /\ watch.installed \in 0..MaxEpoch /\ watch.accept \in 0..MaxEpoch
        /\ lease[p] \in 0..MaxEpoch
    BY DEF HubTyped, WorkTyped
  <2>2. Max2(watch.accept, lease[p]) \in 0..MaxEpoch
    BY <2>1 DEF Max2
  <2>3. \/ watch' = watch
        \/ watch' = [watch EXCEPT !.accept = Max2(watch.accept, lease[p])]
        \/ watch' = [installed |-> lease[p], accept |-> Max2(watch.accept, lease[p])]
    BY <1>2 DEF Retire, WatchClaim
  <2>4. watch' \in [installed : 0..MaxEpoch, accept : 0..MaxEpoch]
    BY <2>1, <2>2, <2>3 DEF HubTyped
  <2>5. UNCHANGED <<ups, refused, watchers, report>>
    BY <1>2 DEF Retire, WatchClaim, status
  <2> QED  BY <2>4, <2>5 DEF HubTyped
<1>3. ASSUME NEW p \in Pumps, WatchInstall(p) PROVE HubTyped'
  <2>1. lease[p] \in Epochs
    BY <1>3 DEF WatchInstall, Placed, Leased
  <2> QED  BY <1>3, <2>1 DEF WatchInstall, HubTyped, status
<1>4. ASSUME NEW p \in Pumps, NEW e \in Events, Add(p, e) \/ BindSwap(p, e) PROVE HubTyped'
  <2>1. ups[e] \in 0..NoUp /\ lease[p] \in 0..MaxEpoch /\ 0 \in 0..NoUp
    BY ClientsAssumption DEF HubTyped, WorkTyped, NoUp
  <2>2. Max2(ups[e], lease[p]) \in 0..NoUp
    BY <2>1, ClientsAssumption DEF Max2, NoUp
  <2> QED  BY <1>4, <2>1, <2>2 DEF Add, BindSwap, HubTyped, status
<1>5. CASE HubClear
  <2>1. NoUp \in 0..NoUp
    BY ClientsAssumption DEF NoUp
  <2> QED  BY <1>5, <2>1 DEF HubClear, HubTyped, status
<1>6. ASSUME NEW k \in Epochs, ReportCheck(k) \/ ReportApply(k) PROVE HubTyped'
  BY <1>6 DEF ReportCheck, ReportApply, HubTyped, hub
<1>7. ASSUME NEW p \in Pumps, Dropping(p) \/ RunRelease(p) \/ Replace(p) \/ BindLease(p)
      PROVE  UNCHANGED <<hub, report>>
  BY <1>7, DroppingDoes DEF RunRelease, Replace, BindLease, status
<1>8. ASSUME NEW p \in Pumps, NEW c \in Calls, Invoke(p, c)
      PROVE  UNCHANGED <<hub, report>>
  BY <1>8 DEF Invoke, status
<1>9. ASSUME NEW c \in Calls, Finished(c) \/ PostRelease(c) \/ Unbox(c) \/ PostReplace(c)
      PROVE  UNCHANGED <<hub, report>>
  BY <1>9 DEF Finished, PostRelease, Unbox, PostReplace, status
<1>10. CASE Close \/ CloseDrop \/ PumpStop \/ Rest \/ UNCHANGED vars
  BY <1>1, <1>10 DEF Close, CloseDrop, PumpStop, Rest, vars, status
<1>11. ASSUME NEW p \in Pumps,
              \/ InvokeAsync(p) \/ ResetBaseline(p) \/ Rebind(p) \/ BindNext(p) \/ BindReread(p)
              \/ \E e \in Events : BindCheck(p, e)
       PROVE  UNCHANGED <<hub, report>>
  BY <1>11 DEF InvokeAsync, ResetBaseline, Rebind, BindNext, BindReread, BindCheck, status
<1>12. ASSUME NEW p \in Pumps, BindsDone(p) PROVE HubTyped'
  <2>1. 0 \in 0..MaxEpoch /\ NoUp \in 0..NoUp
    BY ClientsAssumption DEF NoUp
  <2>2. PICK F : /\ ups' = [e \in Events |-> IF e \in F THEN NoUp ELSE ups[e]]
                 /\ refused' = [e \in Events |-> IF e \in F THEN 0 ELSE refused[e]]
    BY <1>12 DEF BindsDone
  <2>3. UNCHANGED <<watch, watchers, report>>
    BY <1>12 DEF BindsDone, status
  <2> QED  BY <2>1, <2>2, <2>3 DEF HubTyped
<1>13. ASSUME NEW p \in Pumps, NEW e \in Events, BindRefused(p, e) PROVE HubTyped'
  <2>1. refused[e] \in 0..MaxEpoch /\ lease[p] \in 0..MaxEpoch
    BY DEF HubTyped, WorkTyped
  <2>2. Max2(refused[e], lease[p]) \in 0..MaxEpoch
    BY <2>1 DEF Max2
  <2>3. refused' = refused \/ refused' = [refused EXCEPT ![e] = Max2(refused[e], lease[p])]
    BY <1>13 DEF BindRefused
  <2>4. UNCHANGED <<ups, watch, watchers, report>>
    BY <1>13 DEF BindRefused, status
  <2> QED  BY <2>2, <2>3, <2>4 DEF HubTyped
<1> QED
  BY <1>1, <1>2, <1>3, <1>4, <1>5, <1>6, <1>7, <1>8, <1>9, <1>10, <1>11, <1>12, <1>13, Steps
     DEF Elsewhere

(* A call moves on: its record keeps its other fields. *)
LEMMA CallMoves ==
  ASSUME WorkTyped, NEW c \in Calls, NEW l \in CallPcs, call' = [call EXCEPT ![c].pc = l]
  PROVE  /\ call' \in [Calls -> Call]
         /\ call'[c].pc = l
         /\ \A d \in Calls : call'[d].epoch = call[d].epoch /\ call'[d].by = call[d].by
         /\ \A d \in Calls \ {c} : call'[d] = call[d]
<1>1. call \in [Calls -> Call] /\ call[c] \in Call
  BY DEF WorkTyped
<1>2. /\ [call[c] EXCEPT !.pc = l] \in Call /\ [call[c] EXCEPT !.pc = l].pc = l
      /\ [call[c] EXCEPT !.pc = l].epoch = call[c].epoch
      /\ [call[c] EXCEPT !.pc = l].by = call[c].by
  BY <1>1 DEF Call
<1> QED  BY <1>1, <1>2

(* A call starts, counted on a client or refused by a closed registry. *)
LEMMA InvokeCalls ==
  ASSUME TypeOK, NEW p \in Pumps, NEW c \in Calls, Invoke(p, c)
  PROVE  /\ call' \in [Calls -> Call]
         /\ \A d \in Calls \ {c} : call'[d] = call[d]
         /\ Closed => call'[c].pc = "answered" /\ call'[c].epoch = call[c].epoch
         /\ ~Closed => call'[c].pc = "invoking" /\ call'[c].epoch = Current
<1>1. CASE Closed
  <2>1. call' = [call EXCEPT ![c].pc = "answered"] /\ "answered" \in CallPcs
    BY <1>1 DEF Invoke, CallPcs
  <2> QED  BY <1>1, <2>1, CallMoves DEF TypeOK
<1>2. CASE ~Closed
  <2> DEFINE started == [pc |-> "invoking", epoch |-> Current, by |-> p]
  <2>1. call' = [call EXCEPT ![c] = started]
    BY <1>2 DEF Invoke
  <2>2. Current \in 0..MaxEpoch
    BY CurrentMade, ClientsAssumption DEF TypeOK, Epochs
  <2>3. started \in Call
    BY <2>2 DEF Call, CallPcs
  <2> QED  BY <1>2, <2>1, <2>3 DEF TypeOK, WorkTyped
<1> QED  BY <1>1, <1>2

(* Where a call's step takes it. *)
LEMMA CallSteps ==
  ASSUME TypeOK, NEW c \in Calls,
         Finished(c) \/ PostRelease(c) \/ Unbox(c) \/ PostReplace(c)
  PROVE  \E l \in {"answered", "repost", "release", "unbox"} :
           /\ call' = [call EXCEPT ![c].pc = l]
           /\ l \in CallPcs
           /\ l = "repost" => call[c].epoch = epoch /\ epoch < MaxEpoch /\ ~LastAnswer(epoch)
           /\ l = "release" <=> Finished(c) /\ LastAnswer(call[c].epoch)
           /\ l = "unbox" <=> PostRelease(c)
<1>1. CASE Finished(c)
  <2>1. PICK next \in {"answered", "repost"} :
          /\ next = "repost" => call[c].epoch = epoch /\ epoch < MaxEpoch
          /\ call' = [call EXCEPT ![c].pc = IF LastAnswer(call[c].epoch) THEN "release" ELSE next]
    BY <1>1 DEF Finished
  <2>2. ~PostRelease(c)
    BY <1>1 DEF Finished, PostRelease
  <2> QED  BY <1>1, <2>1, <2>2 DEF CallPcs
<1>2. CASE PostRelease(c)
  BY <1>2 DEF PostRelease, Finished, CallPcs
<1>3. CASE Unbox(c) \/ PostReplace(c)
  BY <1>3 DEF Unbox, PostReplace, PostRelease, Finished, CallPcs
<1> QED  BY <1>1, <1>2, <1>3

LEMMA CallType == TypeOK /\ [Next]_vars => call' \in [Calls -> Call]
<1> SUFFICES ASSUME TypeOK, [Next]_vars PROVE call' \in [Calls -> Call]
  OBVIOUS
<1> USE DEF TypeOK
<1>1. CASE UNCHANGED call
  BY <1>1 DEF WorkTyped
<1>2. ASSUME NEW p \in Pumps, NEW c \in Calls, Invoke(p, c) PROVE call' \in [Calls -> Call]
  BY <1>2, InvokeCalls
<1>3. ASSUME NEW c \in Calls, Finished(c) \/ PostRelease(c) \/ Unbox(c) \/ PostReplace(c)
      PROVE  call' \in [Calls -> Call]
  <2>1. PICK l \in CallPcs : call' = [call EXCEPT ![c].pc = l]
    BY <1>3, CallSteps
  <2> QED  BY <2>1, CallMoves
<1>4. ASSUME NEW p \in Pumps, InvokeAsync(p) PROVE call' \in [Calls -> Call]
  <2>1. PICK c \in Calls : call' = [call EXCEPT ![c].pc = "sent"] /\ "sent" \in CallPcs
    BY <1>4 DEF InvokeAsync, CallPcs
  <2> QED  BY <2>1, CallMoves
<1>5. ASSUME NEW p \in Pumps, Dropping(p) \/ RunRelease(p) \/ Replace(p) \/ BindLease(p)
      PROVE  UNCHANGED call
  BY <1>5, DroppingDoes DEF RunRelease, Replace, BindLease
<1>6. ASSUME NEW p \in Pumps,
             \/ Retire(p) \/ ResetBaseline(p) \/ Rebind(p) \/ BindNext(p) \/ BindsDone(p) \/ WatchClaim(p)
             \/ WatchInstall(p) \/ BindReread(p)
             \/ \E e \in Events : Add(p, e) \/ BindCheck(p, e) \/ BindRefused(p, e) \/ BindSwap(p, e)
      PROVE  UNCHANGED call
  BY <1>6 DEF Retire, ResetBaseline, Rebind, BindNext, BindsDone, WatchClaim, WatchInstall, BindReread,
              Add, BindCheck, BindRefused, BindSwap
<1>7. CASE HubClear \/ Close \/ CloseDrop \/ PumpStop \/ Rest \/ UNCHANGED vars
  BY <1>1, <1>7 DEF HubClear, Close, CloseDrop, PumpStop, Rest, vars
<1>8. ASSUME NEW k \in Epochs, ReportCheck(k) \/ ReportApply(k) PROVE UNCHANGED call
  BY <1>8 DEF ReportCheck, ReportApply
<1> QED  BY <1>1, <1>2, <1>3, <1>4, <1>5, <1>6, <1>7, <1>8, Steps DEF Elsewhere

LEMMA QueueTail ==
  ASSUME NEW q \in Seq(Jobs), q # <<>>
  PROVE  /\ Head(q) \in Jobs /\ Tail(q) \in Seq(Jobs) /\ Head(q) = q[1]
         /\ \A n \in DOMAIN Tail(q) : n + 1 \in DOMAIN q /\ Tail(q)[n] = q[n + 1]
         /\ \A n \in DOMAIN q : n = 1 \/ (n - 1 \in DOMAIN Tail(q) /\ Tail(q)[n - 1] = q[n])
  OBVIOUS

LEMMA QueueAppend ==
  ASSUME NEW q \in Seq(Jobs), NEW j \in Jobs
  PROVE  /\ Append(q, j) \in Seq(Jobs)
         /\ DOMAIN q \subseteq DOMAIN Append(q, j)
         /\ \A n \in DOMAIN q : Append(q, j)[n] = q[n]
         /\ \E n \in DOMAIN Append(q, j) : Append(q, j)[n] = j
         /\ \A n \in DOMAIN Append(q, j) : n \in DOMAIN q \/ Append(q, j)[n] = j
<1>1. Len(Append(q, j)) = Len(q) + 1 /\ Append(q, j)[Len(q) + 1] = j
  OBVIOUS
<1>2. Len(q) + 1 \in DOMAIN Append(q, j)
  BY <1>1
<1> QED  BY <1>1, <1>2

(* The jobs that calls post and pump threads take. *)
LEMMA QueueSteps ==
  ASSUME TypeOK, [Next]_vars
  PROVE  \/ UNCHANGED queue
         \/ queue' = <<>> /\ PumpStop
         \/ queue # <<>> /\ queue' = Tail(queue) /\ \E p \in Pumps : RunRelease(p) \/ Replace(p)
         \/ \E c \in Calls : /\ call[c].epoch \in Epochs
                             /\ \/ /\ PostRelease(c) /\ PumpRunning
                                   /\ queue' = Append(queue, [kind |-> "release", epoch |-> call[c].epoch])
                                \/ /\ PostReplace(c) /\ call[c].epoch < MaxEpoch
                                   /\ queue' = Append(queue, [kind |-> "replace", epoch |-> call[c].epoch])
<1>1. ASSUME NEW c \in Calls, Finished(c) \/ Unbox(c) \/ (PostRelease(c) /\ ~PumpRunning)
      PROVE  UNCHANGED queue
  BY <1>1 DEF Finished, Unbox, PostRelease
<1>2. ASSUME NEW c \in Calls, PostRelease(c), PumpRunning
      PROVE  /\ call[c].epoch \in Epochs
             /\ queue' = Append(queue, [kind |-> "release", epoch |-> call[c].epoch])
  BY <1>2 DEF PostRelease, TypeOK, Placed
<1>3. ASSUME NEW c \in Calls, PostReplace(c)
      PROVE  /\ call[c].epoch \in Epochs /\ call[c].epoch < MaxEpoch
             /\ \/ UNCHANGED queue
                \/ queue' = Append(queue, [kind |-> "replace", epoch |-> call[c].epoch])
  BY <1>3 DEF PostReplace, TypeOK, Placed
<1>4. ASSUME NEW p \in Pumps, Dropping(p) \/ BindLease(p) \/ \E c \in Calls : Invoke(p, c)
      PROVE  UNCHANGED queue
  BY <1>4, DroppingDoes DEF BindLease, Invoke
<1>5. ASSUME NEW p \in Pumps, RunRelease(p) \/ Replace(p)
      PROVE  queue # <<>> /\ queue' = Tail(queue)
  BY <1>5 DEF RunRelease, Replace
<1>6. ASSUME NEW p \in Pumps,
             \/ InvokeAsync(p) \/ Retire(p) \/ ResetBaseline(p) \/ Rebind(p) \/ BindNext(p) \/ BindsDone(p)
             \/ WatchClaim(p) \/ WatchInstall(p) \/ BindReread(p)
             \/ \E e \in Events : Add(p, e) \/ BindCheck(p, e) \/ BindRefused(p, e) \/ BindSwap(p, e)
      PROVE  UNCHANGED queue
  BY <1>6 DEF InvokeAsync, Retire, ResetBaseline, Rebind, BindNext, BindsDone, WatchClaim, WatchInstall,
              BindReread, Add, BindCheck, BindRefused, BindSwap
<1>7. CASE HubClear \/ Close \/ CloseDrop \/ Rest \/ UNCHANGED vars
  BY <1>7 DEF HubClear, Close, CloseDrop, Rest, vars
<1>8. CASE PumpStop
  BY <1>8 DEF PumpStop
<1>9. ASSUME NEW k \in Epochs, ReportCheck(k) \/ ReportApply(k) PROVE UNCHANGED queue
  BY <1>9 DEF ReportCheck, ReportApply
<1> QED  BY <1>1, <1>2, <1>3, <1>4, <1>5, <1>6, <1>7, <1>8, <1>9, Steps DEF Elsewhere

LEMMA QueueType == TypeOK /\ [Next]_vars => queue' \in Seq(Jobs)
<1> SUFFICES ASSUME TypeOK, [Next]_vars PROVE queue' \in Seq(Jobs)
  OBVIOUS
<1>1. queue \in Seq(Jobs) /\ <<>> \in Seq(Jobs)
  BY DEF TypeOK, WorkTyped
<1>2. ASSUME NEW c \in Calls, call[c].epoch \in Epochs
      PROVE  /\ [kind |-> "release", epoch |-> call[c].epoch] \in Jobs
             /\ call[c].epoch < MaxEpoch => [kind |-> "replace", epoch |-> call[c].epoch] \in Jobs
  BY <1>2 DEF Jobs
<1>3. CASE queue # <<>> /\ queue' = Tail(queue)
  BY <1>1, <1>3, QueueTail
<1>4. ASSUME NEW j \in Jobs, queue' = Append(queue, j) PROVE queue' \in Seq(Jobs)
  BY <1>1, <1>4, QueueAppend
<1>5. CASE UNCHANGED queue \/ queue' = <<>>
  BY <1>1, <1>5
<1> QED  BY <1>2, <1>3, <1>4, <1>5, QueueSteps

(* The steps of pump thread p, whatever else they do. *)
PumpActs(p) ==
  \/ Dropping(p) \/ RunRelease(p) \/ Replace(p) \/ BindLease(p)
  \/ InvokeAsync(p) \/ Retire(p) \/ ResetBaseline(p) \/ Rebind(p) \/ BindNext(p) \/ BindsDone(p)
  \/ WatchClaim(p) \/ WatchInstall(p) \/ BindReread(p)
  \/ \E e \in Events : Add(p, e) \/ BindCheck(p, e) \/ BindRefused(p, e) \/ BindSwap(p, e)
  \/ \E c \in Calls : Invoke(p, c)

LEMMA PumpSteps == [Next]_vars => UNCHANGED pump \/ \E p \in Pumps : PumpActs(p)
<1> SUFFICES ASSUME [Next]_vars PROVE UNCHANGED pump \/ \E p \in Pumps : PumpActs(p)
  OBVIOUS
<1>1. ASSUME NEW c \in Calls, Finished(c) \/ PostRelease(c) \/ Unbox(c) \/ PostReplace(c)
      PROVE  UNCHANGED pump
  BY <1>1 DEF Finished, PostRelease, Unbox, PostReplace
<1>2. ASSUME NEW k \in Epochs, ReportCheck(k) \/ ReportApply(k) PROVE UNCHANGED pump
  BY <1>2 DEF ReportCheck, ReportApply
<1>3. CASE HubClear \/ Close \/ CloseDrop \/ PumpStop \/ Rest \/ UNCHANGED vars
  BY <1>3 DEF HubClear, Close, CloseDrop, PumpStop, Rest, vars
<1> QED  BY <1>1, <1>2, <1>3, Steps DEF Elsewhere, PumpActs

(* A pump thread's step moves no other, though it may take the Up another *)
(* has to bind, and leaves the hub's and the registry's records typed for  *)
(* the thread itself.                                                      *)
Moved(p) ==
  /\ pc' \in [Pumps -> PumpPcs] /\ lease' \in [Pumps -> 0..MaxEpoch]
  /\ round' \in [Pumps -> Nat]
  /\ todo' \in [Pumps -> SUBSET Events] /\ binding' \in [Pumps -> SUBSET Events]
  /\ adding' \in [Pumps -> SUBSET Events] /\ dead' \in [Pumps -> SUBSET Events]
  /\ \A q \in Pumps \ {p} : /\ pc'[q] = pc[q] /\ lease'[q] = lease[q] /\ todo'[q] = todo[q]
                           /\ binding'[q] = binding[q] /\ adding'[q] = adding[q]
  /\ pc'[p] \in {"expire", "send"} \cup Leased => lease'[p] \in Epochs

LEMMA PumpMoves == ASSUME TypeOK, NEW p \in Pumps, PumpActs(p) PROVE Moved(p)
<1>1. /\ pc \in [Pumps -> PumpPcs] /\ lease \in [Pumps -> 0..MaxEpoch]
      /\ round \in [Pumps -> Nat] /\ round[p] + 1 \in Nat /\ 0 \in Nat /\ 1 \in Nat
      /\ todo \in [Pumps -> SUBSET Events] /\ binding \in [Pumps -> SUBSET Events]
      /\ adding \in [Pumps -> SUBSET Events] /\ dead \in [Pumps -> SUBSET Events]
      /\ pc[p] \in {"expire", "send"} \cup Leased => lease[p] \in Epochs
      /\ 0 \in 0..MaxEpoch /\ epoch \in 0..MaxEpoch
  BY ClientsAssumption DEF TypeOK, RegistryTyped, WorkTyped, Placed
<1>2. /\ {"idle", "expire", "send", "return", "dying", "retire", "reset", "rebind", "next",
          "unlease", "lease"} \cup Leased = PumpPcs
      /\ "lease" \notin Leased /\ "check" \in Leased /\ "watch" \in Leased /\ "install" \in Leased
      /\ "subscribe" \in Leased /\ "reread" \in Leased
      /\ {"idle", "return", "dying", "retire", "reset", "rebind", "next", "unlease"} \cap Leased = {}
  BY DEF PumpPcs, Binding, Leased
<1>3. CASE UNCHANGED pump
  BY <1>1, <1>3 DEF Moved, pump, work
<1>4. CASE DropExpired(p) \/ InvokeAsync(p) \/ ReturnJob(p) \/ DropDying(p)
  BY <1>1, <1>2, <1>4 DEF Moved, DropExpired, InvokeAsync, ReturnJob, DropDying, work
<1>5. CASE RunRelease(p)
  BY <1>3, <1>5 DEF RunRelease
<1>6. CASE Replace(p)
  <2>1. CASE epoch' = epoch
    <3>1. UNCHANGED pump
      BY <1>1, <1>6, <2>1 DEF Replace
    <3> QED  BY <1>3, <3>1
  <2>2. CASE epoch' # epoch
    <3>1. /\ epoch + 1 \in 0..MaxEpoch /\ UNCHANGED work
          /\ lease' = [lease EXCEPT ![p] = epoch + 1] /\ pc' = [pc EXCEPT ![p] = "dying"]
      BY <1>6, <2>2, ReplaceDoes, ClientsAssumption DEF Epochs
    <3> QED  BY <1>1, <1>2, <3>1 DEF Moved, work
  <2> QED  BY <2>1, <2>2
<1>7. CASE Retire(p) \/ ResetBaseline(p)
  BY <1>1, <1>2, <1>7 DEF Moved, Retire, ResetBaseline, work
<1>8. CASE Rebind(p)
  BY <1>1, <1>2, <1>8 DEF Moved, Rebind
<1>9. CASE BindNext(p)
  <2>1. PICK e \in todo[p] : /\ todo' = [todo EXCEPT ![p] = @ \ {e}]
                            /\ binding' = [binding EXCEPT ![p] = {e}]
    BY <1>9 DEF BindNext
  <2> QED  BY <1>1, <1>2, <1>9, <2>1 DEF Moved, BindNext
<1>10. CASE BindsDone(p)
  <2>1. PICK F : dead' = [q \in Pumps |-> dead[q] \cup (F \cap (todo[q] \cup binding[q]))]
    BY <1>10 DEF BindsDone
  <2>2. dead' \in [Pumps -> SUBSET Events]
    BY <1>1, <2>1
  <2> QED  BY <1>1, <1>2, <1>10, <2>2 DEF Moved, BindsDone
<1>11. CASE Unlease(p)
  BY <1>1, <1>2, <1>11 DEF Moved, Unlease
<1>12. CASE BindLease(p)
  <2>1. Current \in Epochs /\ Current \in 0..MaxEpoch
    BY CurrentMade, ClientsAssumption DEF TypeOK, Epochs
  <2> QED  BY <1>1, <1>2, <1>12, <2>1 DEF Moved, BindLease, Bound
<1>13. CASE WatchClaim(p) \/ WatchInstall(p)
  BY <1>1, <1>2, <1>13 DEF Moved, WatchClaim, WatchInstall, work
<1>14. CASE BindReread(p) \/ BindAgain(p)
  BY <1>1, <1>2, <1>14 DEF Moved, BindReread, BindAgain, Bound
<1>15. ASSUME NEW e \in Events, Add(p, e) \/ BindCheck(p, e) \/ BindRefused(p, e) \/ BindSwap(p, e)
       PROVE  Moved(p)
  <2>1. CASE Add(p, e)
    BY <1>1, <1>2, <2>1 DEF Moved, Add
  <2>2. CASE BindCheck(p, e)
    BY <1>1, <1>2, <2>2 DEF Moved, BindCheck, Bound
  <2>3. CASE BindRefused(p, e)
    BY <1>1, <1>2, <2>3 DEF Moved, BindRefused, Bound
  <2>4. CASE BindSwap(p, e)
    BY <1>1, <1>2, <2>4 DEF Moved, BindSwap, Bound
  <2> QED  BY <1>15, <2>1, <2>2, <2>3, <2>4
<1>16. ASSUME NEW c \in Calls, Invoke(p, c) PROVE Moved(p)
  <2>1. Current \in Epochs /\ Current \in 0..MaxEpoch
    BY CurrentMade, ClientsAssumption DEF TypeOK, Epochs
  <2> QED  BY <1>1, <1>2, <1>16, <2>1 DEF Moved, Invoke, pump, work
<1> QED
  BY <1>4, <1>5, <1>6, <1>7, <1>8, <1>9, <1>10, <1>11, <1>12, <1>13, <1>14, <1>15, <1>16
     DEF PumpActs, Dropping

(* A call that is under way has a client, one to be replaced a successor.  *)
LEMMA CallsPlaced ==
  TypeOK /\ [Next]_vars =>
    /\ \A c \in Calls : call'[c].pc \notin {"new", "answered"} => call'[c].epoch \in Epochs
    /\ \A c \in Calls : call'[c].pc = "repost" => call'[c].epoch < MaxEpoch
<1> DEFINE Good(d) == /\ call'[d].pc \notin {"new", "answered"} => call'[d].epoch \in Epochs
                      /\ call'[d].pc = "repost" => call'[d].epoch < MaxEpoch
<1> SUFFICES ASSUME TypeOK, [Next]_vars, NEW d \in Calls PROVE Good(d)
  OBVIOUS
<1>1. CASE call'[d] = call[d]
  BY <1>1 DEF TypeOK, Placed
<1>2. ASSUME NEW p \in Pumps, NEW c \in Calls, Invoke(p, c) PROVE Good(d)
  <2>1. CASE c = d
    BY <1>2, <2>1, InvokeCalls, CurrentMade DEF TypeOK
  <2>2. CASE c # d
    BY <1>1, <1>2, <2>2, InvokeCalls
  <2> QED  BY <2>1, <2>2
<1>3. ASSUME NEW c \in Calls, Finished(c) \/ PostRelease(c) \/ Unbox(c) \/ PostReplace(c)
      PROVE  Good(d)
  <2>1. PICK l \in CallPcs : /\ call' = [call EXCEPT ![c].pc = l]
                             /\ l = "repost" => call[c].epoch = epoch /\ epoch < MaxEpoch
    BY <1>3, CallSteps
  <2>2. call[c].pc \notin {"new", "answered"}
    BY <1>3 DEF Finished, PostRelease, Unbox, PostReplace
  <2>3. call'[c].pc = l /\ call'[c].epoch = call[c].epoch /\ (d # c => call'[d] = call[d])
    BY <2>1, CallMoves DEF TypeOK
  <2> QED  BY <1>1, <2>1, <2>2, <2>3 DEF TypeOK, Placed
<1>4. ASSUME NEW p \in Pumps, InvokeAsync(p) PROVE Good(d)
  <2>1. PICK c \in Calls : /\ call[c].pc = "invoking" /\ "sent" \in CallPcs
                           /\ call' = [call EXCEPT ![c].pc = "sent"]
    BY <1>4 DEF InvokeAsync, CallPcs
  <2>2. call'[c].pc = "sent" /\ call'[c].epoch = call[c].epoch /\ (d # c => call'[d] = call[d])
    BY <2>1, CallMoves DEF TypeOK
  <2> QED  BY <1>1, <2>1, <2>2 DEF TypeOK, Placed
<1>5. ASSUME NEW p \in Pumps, PumpActs(p), ~InvokeAsync(p), ~\E c \in Calls : Invoke(p, c)
      PROVE  UNCHANGED call
  BY <1>5, DroppingDoes
     DEF PumpActs, RunRelease, Replace, BindLease, Retire, ResetBaseline, Rebind, BindNext, BindsDone,
         WatchClaim, WatchInstall, BindReread, Add, BindCheck, BindRefused, BindSwap
<1>6. CASE HubClear \/ Close \/ CloseDrop \/ PumpStop \/ Rest \/ UNCHANGED vars
  BY <1>1, <1>6 DEF HubClear, Close, CloseDrop, PumpStop, Rest, vars
<1>7. ASSUME NEW k \in Epochs, ReportCheck(k) \/ ReportApply(k) PROVE UNCHANGED call
  BY <1>7 DEF ReportCheck, ReportApply
<1>8. ASSUME NEW p \in Pumps, PumpActs(p) PROVE Good(d)
  BY <1>1, <1>2, <1>4, <1>5, <1>8
<1> QED  BY <1>1, <1>3, <1>6, <1>7, <1>8, Steps DEF Elsewhere, PumpActs

LEMMA NextType == TypeOK /\ [Next]_vars => TypeOK'
<1> SUFFICES ASSUME TypeOK, [Next]_vars PROVE TypeOK'
  OBVIOUS
<1>1. /\ pc' \in [Pumps -> PumpPcs] /\ lease' \in [Pumps -> 0..MaxEpoch]
      /\ round' \in [Pumps -> Nat]
      /\ todo' \in [Pumps -> SUBSET Events] /\ binding' \in [Pumps -> SUBSET Events]
      /\ adding' \in [Pumps -> SUBSET Events] /\ dead' \in [Pumps -> SUBSET Events]
      /\ \A p \in Pumps : pc'[p] \in {"expire", "send"} \cup Leased => lease'[p] \in Epochs
  <2>1. CASE UNCHANGED pump
    BY <2>1 DEF TypeOK, WorkTyped, Placed, pump, work
  <2>2. ASSUME NEW p \in Pumps, Moved(p)
        PROVE  /\ pc' \in [Pumps -> PumpPcs] /\ lease' \in [Pumps -> 0..MaxEpoch]
               /\ round' \in [Pumps -> Nat]
               /\ todo' \in [Pumps -> SUBSET Events] /\ binding' \in [Pumps -> SUBSET Events]
               /\ adding' \in [Pumps -> SUBSET Events] /\ dead' \in [Pumps -> SUBSET Events]
               /\ \A q \in Pumps : pc'[q] \in {"expire", "send"} \cup Leased => lease'[q] \in Epochs
    BY <2>2 DEF Moved, TypeOK, Placed
  <2> QED  BY <2>1, <2>2, PumpSteps, PumpMoves
<1> QED  BY <1>1, RegistryType, HubType, CallType, QueueType, CallsPlaced DEF TypeOK, WorkTyped, Placed

(* Every slot, lease, queue entry and call stays what its code takes it    *)
(* for; a lease that is in use is a client's, and only a client that may   *)
(* have a successor is to be replaced.                                     *)
THEOREM TypeCorrect == Spec => []TypeOK
<1> QED  BY InitType, NextType, PTL DEF Spec

----------------------------------------------------------------------------
(* The registry's books: what is counted, listed and held for each client  *)

(* The calls that count as in flight on client k, answered or not. *)
Out(k) == {c \in Calls : call[c].epoch = k /\ call[c].pc \in {"invoking", "sent"}}

Counted == \A k \in Epochs : IsFiniteSet(Out(k)) /\ slots[k].inFlight = Cardinality(Out(k))

(* Calls are on clients that have been made. *)
CallsMade == \A c \in Calls : call[c].epoch <= epoch

(* A client to come is as new as at the start. *)
Unmade == \A k \in Epochs : k > epoch => refs[k] = {} /\ gone[k] = "no" /\ box[k] = {}

SlotsHold == \A k \in Epochs : slots[k].has <=> "slot" \in refs[k]

(* An open registry holds the current client and the retired ones. *)
OpenHolds ==
  /\ \A k \in Epochs : slots[k].has <=> ~Closed /\ (k = epoch \/ k \in retired)
  /\ Closed => retired = {}

(* The list of the retired: replaced clients that wait for calls. *)
RetiredWait ==
  /\ \A k \in Epochs : slots[k].retired => k < epoch
  /\ \A k \in retired : slots[k].retired /\ slots[k].inFlight > 0

(* A call in flight keeps its client in the registry until the deadline. *)
InFlightHeld ==
  ~Closed => \A k \in Epochs : slots[k].inFlight > 0 => k = epoch \/ k \in retired \/ k \in expired

Books ==
  /\ Counted /\ CallsMade /\ Unmade /\ SlotsHold /\ OpenHolds /\ RetiredWait /\ InFlightHeld

(* A step that leaves the epoch and the slots alone, and takes no call into *)
(* flight or out of it.                                                     *)
LEMMA CountsKept ==
  ASSUME Counted,
         \A k \in Epochs : slots'[k].inFlight = slots[k].inFlight,
         \A c \in Calls : \/ call'[c] = call[c]
                          \/ /\ call[c].pc \notin {"invoking", "sent"}
                             /\ call'[c].pc \notin {"invoking", "sent"}
                          \/ /\ call[c].pc \in {"invoking", "sent"}
                             /\ call'[c].pc \in {"invoking", "sent"}
                             /\ call'[c].epoch = call[c].epoch
  PROVE  Counted'
<1> SUFFICES ASSUME NEW k \in Epochs
             PROVE  IsFiniteSet(Out(k)') /\ slots'[k].inFlight = Cardinality(Out(k)')
  BY DEF Counted
<1>1. Out(k)' = Out(k)
  BY DEF Out
<1> QED  BY <1>1 DEF Counted

LEMMA FinishedCounts == ASSUME TypeOK, Counted, NEW c \in Calls, Finished(c) PROVE Counted'
<1>1. PICK k \in Epochs : /\ k = call[c].epoch
                          /\ \A j \in Epochs \ {k} : slots'[j] = slots[j]
                          /\ slots'[k].inFlight = slots[k].inFlight - 1
  BY FinishedDoes
<1>2. PICK l \in {"answered", "repost", "release", "unbox"} :
        call' = [call EXCEPT ![c].pc = l] /\ l \in CallPcs
  BY CallSteps
<1>3. /\ call'[c].pc = l /\ call'[c].epoch = k
      /\ \A d \in Calls \ {c} : call'[d] = call[d]
  BY <1>1, <1>2, CallMoves DEF TypeOK
<1>4. c \in Out(k)
  BY <1>1 DEF Finished, Out
<1>5. \A j \in Epochs \ {k} : Out(j)' = Out(j)
  BY <1>2, <1>3, <1>4 DEF Out
<1>6. Out(k)' = Out(k) \ {c}
  BY <1>2, <1>3 DEF Out
<1>7. /\ IsFiniteSet(Out(k) \ {c})
      /\ Cardinality(Out(k) \ {c}) = Cardinality(Out(k)) - 1
  <2>1. IsFiniteSet(Out(k))
    BY <1>1 DEF Counted
  <2> QED  BY <1>4, <2>1, FS_RemoveElement
<1> QED  BY <1>1, <1>5, <1>6, <1>7 DEF Counted

LEMMA InvokeCounts ==
  ASSUME TypeOK, Counted, NEW p \in Pumps, NEW c \in Calls, Invoke(p, c)
  PROVE  Counted'
<1>1. /\ \A d \in Calls \ {c} : call'[d] = call[d]
      /\ call[c].pc = "new"
  BY InvokeCalls DEF Invoke
<1>2. CASE Closed
  <2>1. call'[c].pc = "answered" /\ UNCHANGED slots
    BY <1>2, InvokeCalls DEF Invoke, registry
  <2> QED  BY <1>1, <2>1, CountsKept
<1>3. CASE ~Closed
  <2>1. PICK k \in Epochs : k = Current /\ call'[c].pc = "invoking" /\ call'[c].epoch = k
    BY <1>3, InvokeCalls, CurrentMade DEF TypeOK
  <2>2. \A j \in Epochs : slots'[j].inFlight = IF j = k THEN slots[j].inFlight + 1
                                               ELSE slots[j].inFlight
    BY <1>3, <2>1, InvokeDoes
  <2>3. \A j \in Epochs \ {k} : Out(j)' = Out(j)
    BY <1>1, <2>1 DEF Out
  <2>4. Out(k)' = Out(k) \cup {c} /\ c \notin Out(k)
    BY <1>1, <2>1 DEF Out
  <2>5. /\ IsFiniteSet(Out(k) \cup {c})
        /\ Cardinality(Out(k) \cup {c}) = Cardinality(Out(k)) + 1
    <3>1. IsFiniteSet(Out(k))
      BY <2>1 DEF Counted
    <3> QED  BY <2>4, <3>1, FS_AddElement
  <2> QED  BY <2>1, <2>2, <2>3, <2>4, <2>5 DEF Counted
<1> QED  BY <1>2, <1>3

LEMMA ReplaceCounts ==
  ASSUME TypeOK, Counted, CallsMade, NEW p \in Pumps, Replace(p)
  PROVE  Counted'
<1>1. UNCHANGED call
  BY DEF Replace
<1>2. CASE epoch' = epoch
  <2>1. UNCHANGED slots
    BY <1>2 DEF Replace, registry, TypeOK, RegistryTyped
  <2> QED  BY <1>1, <2>1, CountsKept
<1>3. CASE epoch' # epoch
  <2>1. /\ epoch \in Epochs /\ epoch + 1 \in Epochs
        /\ \A j \in Epochs : slots'[j].inFlight = IF j = epoch + 1 THEN 0 ELSE slots[j].inFlight
    BY <1>3, ReplaceDoes
  <2>2. Out(epoch + 1) = {}
    <3>1. \A c \in Calls : call[c].epoch \in Int
      BY DEF TypeOK, WorkTyped, Call
    <3> QED  BY <2>1, <3>1 DEF CallsMade, Out, Epochs
  <2>3. slots[epoch + 1].inFlight = 0
    BY <2>1, <2>2, FS_EmptySet DEF Counted
  <2>4. \A j \in Epochs : slots'[j].inFlight = slots[j].inFlight
    BY <2>1, <2>3
  <2> QED  BY <1>1, <2>4, CountsKept
<1> QED  BY <1>2, <1>3

LEMMA CountsNext == TypeOK /\ Counted /\ CallsMade /\ [Next]_vars => Counted'
<1> SUFFICES ASSUME TypeOK, Counted, CallsMade, [Next]_vars PROVE Counted'
  OBVIOUS
<1>1. CASE UNCHANGED <<slots, call>>
  BY <1>1, CountsKept
<1>2. ASSUME NEW p \in Pumps, InvokeAsync(p) PROVE Counted'
  <2>1. UNCHANGED slots
    BY <1>2 DEF InvokeAsync, registry
  <2>2. PICK c \in Calls : /\ call[c].pc = "invoking" /\ "sent" \in CallPcs
                           /\ call' = [call EXCEPT ![c].pc = "sent"]
    BY <1>2 DEF InvokeAsync, CallPcs
  <2>3. call'[c].pc = "sent" /\ call'[c].epoch = call[c].epoch
        /\ \A d \in Calls \ {c} : call'[d] = call[d]
    BY <2>2, CallMoves DEF TypeOK
  <2> QED  BY <2>1, <2>2, <2>3, CountsKept
<1>3. ASSUME NEW c \in Calls, PostRelease(c) \/ Unbox(c) \/ PostReplace(c) PROVE Counted'
  <2>1. UNCHANGED slots
    BY <1>3 DEF PostRelease, Unbox, PostReplace, registry
  <2>2. PICK l \in {"answered", "repost", "release", "unbox"} :
          call' = [call EXCEPT ![c].pc = l] /\ l \in CallPcs
    BY <1>3, CallSteps
  <2>3. call'[c].pc = l /\ \A d \in Calls \ {c} : call'[d] = call[d]
    BY <2>2, CallMoves DEF TypeOK
  <2>4. call[c].pc \notin {"invoking", "sent"}
    BY <1>3 DEF PostRelease, Unbox, PostReplace
  <2> QED  BY <2>1, <2>3, <2>4, CountsKept
<1>4. ASSUME NEW p \in Pumps, BindLease(p) PROVE Counted'
  <2>1. UNCHANGED call
    BY <1>4 DEF BindLease
  <2>2. \A j \in Epochs : slots'[j].inFlight = slots[j].inFlight
    BY <1>4, BindLeaseDoes DEF BindLease, registry
  <2> QED  BY <2>1, <2>2, CountsKept
<1>5. CASE Close
  <2>1. UNCHANGED call /\ \A j \in Epochs : slots'[j].inFlight = slots[j].inFlight
    BY <1>5, CloseDoes DEF Close
  <2> QED  BY <2>1, CountsKept
<1>6. ASSUME NEW p \in Pumps, Dropping(p) \/ RunRelease(p)
      PROVE  UNCHANGED <<slots, call>>
  BY <1>6, DroppingDoes DEF RunRelease
<1>7. CASE HubClear \/ CloseDrop \/ PumpStop \/ Rest \/ UNCHANGED vars
  BY <1>1, <1>7 DEF HubClear, CloseDrop, PumpStop, Rest, vars, registry
<1>8. ASSUME NEW k \in Epochs, ReportCheck(k) \/ ReportApply(k) PROVE UNCHANGED <<slots, call>>
  BY <1>8 DEF ReportCheck, ReportApply, registry
<1>9. ASSUME NEW p \in Pumps,
             \/ Retire(p) \/ ResetBaseline(p) \/ Rebind(p) \/ BindNext(p) \/ BindsDone(p) \/ WatchClaim(p)
             \/ WatchInstall(p) \/ BindReread(p)
             \/ \E e \in Events : Add(p, e) \/ BindCheck(p, e) \/ BindRefused(p, e) \/ BindSwap(p, e)
      PROVE  UNCHANGED <<slots, call>>
  BY <1>9 DEF Retire, ResetBaseline, Rebind, BindNext, BindsDone, WatchClaim, WatchInstall, BindReread,
              Add, BindCheck, BindRefused, BindSwap, registry
<1> QED
  BY <1>1, <1>2, <1>3, <1>4, <1>5, <1>6, <1>7, <1>8, <1>9, Steps, FinishedCounts, InvokeCounts,
     ReplaceCounts DEF Elsewhere

LEMMA EpochSteps ==
  ASSUME TypeOK, [Next]_vars
  PROVE  \/ UNCHANGED epoch
         \/ \E p \in Pumps :
              \/ Replace(p) /\ epoch' = epoch + 1
              \/ ~Closed /\ epoch' = Current /\ (BindLease(p) \/ \E c \in Calls : Invoke(p, c))
<1>1. ASSUME NEW p \in Pumps, Replace(p), epoch' # epoch PROVE epoch' = epoch + 1
  BY <1>1, ReplaceDoes
<1>2. ASSUME NEW p \in Pumps, BindLease(p)
      PROVE  UNCHANGED epoch \/ (~Closed /\ epoch' = Current)
  BY <1>2 DEF BindLease, registry
<1>3. ASSUME NEW p \in Pumps, NEW c \in Calls, Invoke(p, c)
      PROVE  UNCHANGED epoch \/ (~Closed /\ epoch' = Current)
  BY <1>3 DEF Invoke, registry
<1>4. CASE Elsewhere \/ UNCHANGED vars
  BY <1>4, ElsewhereLeaves DEF vars, registry
<1>5. ASSUME NEW p \in Pumps, Dropping(p) \/ RunRelease(p) PROVE UNCHANGED epoch
  BY <1>5, DroppingDoes DEF RunRelease
<1>6. ASSUME NEW c \in Calls, Finished(c) \/ PostRelease(c) \/ Unbox(c) PROVE UNCHANGED epoch
  BY <1>6 DEF Finished, PostRelease, Unbox
<1>7. CASE HubClear \/ Close \/ CloseDrop \/ PumpStop
  BY <1>7 DEF HubClear, Close, CloseDrop, PumpStop, registry
<1> QED  BY <1>1, <1>2, <1>3, <1>4, <1>5, <1>6, <1>7, Steps

LEMMA EpochGrows == TypeOK /\ [Next]_vars => epoch' >= epoch
  BY EpochSteps, CurrentMade DEF TypeOK, RegistryTyped

LEMMA CallsMadeNext == TypeOK /\ CallsMade /\ [Next]_vars => CallsMade'
<1> SUFFICES ASSUME TypeOK, CallsMade, [Next]_vars, NEW d \in Calls
             PROVE  call'[d].epoch <= epoch'
  BY DEF CallsMade
<1>1. /\ epoch' >= epoch /\ epoch \in Int /\ epoch' \in Int
      /\ call[d].epoch \in Int /\ call[d].epoch <= epoch
  BY EpochGrows, RegistryType DEF TypeOK, RegistryTyped, WorkTyped, Call, CallsMade
<1>2. CASE call'[d].epoch = call[d].epoch
  BY <1>1, <1>2
<1>3. ASSUME NEW p \in Pumps, NEW c \in Calls, Invoke(p, c) PROVE call'[d].epoch <= epoch'
  <2>1. CASE c # d \/ Closed
    BY <1>2, <1>3, <2>1, InvokeCalls
  <2>2. CASE c = d /\ ~Closed
    <3>1. call'[d].epoch = Current /\ epoch' = Current
      BY <1>3, <2>2, InvokeCalls DEF Invoke
    <3> QED  BY <1>1, <3>1
  <2> QED  BY <2>1, <2>2
<1>4. ASSUME NEW c \in Calls, Finished(c) \/ PostRelease(c) \/ Unbox(c) \/ PostReplace(c)
      PROVE  call'[d].epoch = call[d].epoch
  <2>1. PICK l \in CallPcs : call' = [call EXCEPT ![c].pc = l]
    BY <1>4, CallSteps
  <2> QED  BY <2>1, CallMoves DEF TypeOK
<1>5. ASSUME NEW p \in Pumps, InvokeAsync(p) PROVE call'[d].epoch = call[d].epoch
  <2>1. PICK c \in Calls : call' = [call EXCEPT ![c].pc = "sent"] /\ "sent" \in CallPcs
    BY <1>5 DEF InvokeAsync, CallPcs
  <2> QED  BY <2>1, CallMoves DEF TypeOK
<1>6. ASSUME NEW p \in Pumps, PumpActs(p), ~InvokeAsync(p), ~\E c \in Calls : Invoke(p, c)
      PROVE  UNCHANGED call
  BY <1>6, DroppingDoes
     DEF PumpActs, RunRelease, Replace, BindLease, Retire, ResetBaseline, Rebind, BindNext, BindsDone,
         WatchClaim, WatchInstall, BindReread, Add, BindCheck, BindRefused, BindSwap
<1>7. CASE HubClear \/ Close \/ CloseDrop \/ PumpStop \/ Rest \/ UNCHANGED vars
  BY <1>2, <1>7 DEF HubClear, Close, CloseDrop, PumpStop, Rest, vars
<1>8. ASSUME NEW k \in Epochs, ReportCheck(k) \/ ReportApply(k) PROVE UNCHANGED call
  BY <1>8 DEF ReportCheck, ReportApply
<1>9. ASSUME NEW p \in Pumps, PumpActs(p) PROVE call'[d].epoch <= epoch'
  BY <1>2, <1>3, <1>5, <1>6, <1>9
<1> QED  BY <1>2, <1>4, <1>7, <1>8, <1>9, Steps DEF Elsewhere, PumpActs

(* A step that leaves the registry's lists alone, whatever references and  *)
(* boxes come and go besides the slots'.                                   *)
LEMMA BooksFrame ==
  ASSUME Books, Counted', CallsMade', UNCHANGED <<epoch, slots, retired, expired>>,
         (Closed' <=> Closed),
         \A k \in Epochs : "slot" \in refs'[k] <=> "slot" \in refs[k],
         \A k \in Epochs : k > epoch => refs'[k] = {} /\ gone'[k] = "no" /\ box'[k] = {}
  PROVE  Books'
<1>1. Unmade' /\ SlotsHold' /\ OpenHolds' /\ RetiredWait' /\ InFlightHeld'
  BY DEF Books, Unmade, SlotsHold, OpenHolds, RetiredWait, InFlightHeld
<1> QED  BY <1>1 DEF Books

(* Dropping references other than a slot's is such a step. *)
LEMMA BooksDrop ==
  ASSUME TypeOK, Books, Counted', CallsMade', UNCHANGED <<epoch, slots, retired, expired>>,
         (Closed' <=> Closed), \A k \in Epochs : box'[k] \subseteq box[k],
         NEW who, who # "slot", NEW K, NEW kind, Drop(who, K, kind)
  PROVE  Books'
<1>1. \A k \in Epochs : /\ refs'[k] \in {refs[k], refs[k] \ {who}}
                        /\ refs[k] = {} => gone'[k] = gone[k]
  BY Dropped DEF TypeOK
<1>2. \A k \in Epochs : "slot" \in refs'[k] <=> "slot" \in refs[k]
  BY <1>1
<1>3. \A k \in Epochs : k > epoch => refs'[k] = {} /\ gone'[k] = "no" /\ box'[k] = {}
  BY <1>1 DEF Books, Unmade
<1> QED  BY <1>2, <1>3, BooksFrame

LEMMA PumpsApart == ASSUME NEW p \in Pumps PROVE p \notin Holders
  BY ClientsAssumption

LEMMA BooksInvoke ==
  ASSUME TypeOK, Books, Counted', CallsMade', NEW p \in Pumps, NEW c \in Calls, Invoke(p, c)
  PROVE  Books'
<1>1. CASE Closed
  <2>1. UNCHANGED <<registry, stage>>
    BY <1>1 DEF Invoke
  <2> QED  BY <2>1, BooksFrame DEF Books, Unmade, registry, Closed
<1>2. CASE ~Closed
  <2>1. PICK X \in SUBSET retired :
          /\ \A j \in Epochs :
               /\ slots'[j].inFlight = IF j = Current THEN slots[j].inFlight + 1
                                       ELSE slots[j].inFlight
               /\ slots'[j].retired = slots[j].retired
               /\ slots'[j].has <=> ((slots[j].has \/ j = Current) /\ j \notin X)
          /\ retired' = retired \ X /\ expired' = expired \cup X
          /\ refs' = [j \in Epochs |->
                       IF j \in X THEN (refs[j] \ {"slot"}) \cup {p}
                       ELSE IF j = Current THEN refs[j] \cup {"slot", p} ELSE refs[j]]
    BY <1>2, InvokeDoes
  <2>2. /\ epoch' = Current /\ UNCHANGED <<box, gone>> /\ (Closed' <=> Closed)
        /\ Current \in Epochs /\ Current >= epoch /\ (epoch # 0 => Current = epoch)
        /\ epoch \in Int /\ p # "slot"
        /\ \A j \in Epochs : slots[j].inFlight \in Int /\ j \in Int /\ j >= 1
        /\ \A j \in Epochs : slots[j].has \in BOOLEAN
    BY <1>2, CurrentMade, PumpsApart
       DEF Invoke, TypeOK, RegistryTyped, Slot, Closed, Holders, Epochs
  <2>3. retired \subseteq Epochs /\ (\A j \in retired : j < epoch) /\ Current \notin retired
    BY <2>2 DEF Books, RetiredWait, TypeOK, RegistryTyped
  <2>4. \A j \in Epochs : slots[j].inFlight >= 0
    BY FS_CardinalityType DEF Books, Counted
  <2>5. Unmade'
    BY <2>1, <2>2, <2>3 DEF Books, Unmade
  <2>6. SlotsHold'
    BY <2>1, <2>2, <2>3 DEF Books, SlotsHold
  <2>7. OpenHolds'
    BY <1>2, <2>1, <2>2, <2>3 DEF Books, OpenHolds
  <2>8. RetiredWait'
    BY <2>1, <2>2, <2>3, <2>4 DEF Books, RetiredWait
  <2>9. InFlightHeld'
    BY <1>2, <2>1, <2>2, <2>3 DEF Books, InFlightHeld
  <2> QED  BY <2>5, <2>6, <2>7, <2>8, <2>9 DEF Books
<1> QED  BY <1>1, <1>2

LEMMA BooksFinished ==
  ASSUME TypeOK, Books, Counted', CallsMade', NEW c \in Calls, Finished(c)
  PROVE  Books'
<1>1. PICK k \in Epochs :
        /\ k = call[c].epoch
        /\ \A j \in Epochs \ {k} : slots'[j] = slots[j]
        /\ slots'[k].inFlight = slots[k].inFlight - 1
        /\ slots'[k].retired = slots[k].retired
        /\ slots'[k].has <=> (slots[k].has /\ ~LastAnswer(k))
  BY FinishedDoes
<1>2. /\ UNCHANGED <<epoch, gone, expired>> /\ (Closed' <=> Closed)
      /\ \A j \in Epochs : slots[j].inFlight \in Int
      /\ k <= epoch
  BY <1>1 DEF Finished, TypeOK, RegistryTyped, Slot, Closed, Books, CallsMade
<1>3. \A j \in Epochs : slots[j].inFlight >= 0 /\ slots'[j].inFlight >= 0
  BY FS_CardinalityType DEF Books, Counted
<1>4. CASE LastAnswer(k)
  <2>1. /\ retired' = retired \ {k}
        /\ refs' = [refs EXCEPT ![k] = (@ \ {"slot"}) \cup {"box"}]
        /\ box' = [box EXCEPT ![k] = {"callback"}]
    BY <1>1, <1>4 DEF Finished
  <2>2. slots[k].inFlight = 1 /\ slots[k].retired
    BY <1>4 DEF LastAnswer
  <2>3. /\ \A j \in Epochs \ {k} : refs'[j] = refs[j] /\ box'[j] = box[j]
        /\ "slot" \notin refs'[k]
    BY <2>1 DEF TypeOK, RegistryTyped
  <2>4. Unmade'
    BY <1>2, <2>3 DEF Books, Unmade, TypeOK, RegistryTyped, Epochs
  <2>5. SlotsHold' /\ OpenHolds'
    <3>1. k < epoch
      BY <2>2 DEF Books, RetiredWait
    <3>2. k # epoch
      BY <3>1 DEF TypeOK, RegistryTyped
    <3> QED  BY <1>1, <1>2, <1>4, <2>1, <2>3, <3>2 DEF Books, SlotsHold, OpenHolds
  <2>6. RetiredWait' /\ InFlightHeld'
    BY <1>1, <1>2, <2>1, <2>2 DEF Books, RetiredWait, InFlightHeld, TypeOK, RegistryTyped
  <2> QED  BY <2>4, <2>5, <2>6 DEF Books
<1>5. CASE ~LastAnswer(k)
  <2>1. UNCHANGED <<retired, refs, box>>
    BY <1>1, <1>5 DEF Finished
  <2>2. k \in retired => slots'[k].inFlight > 0
    <3> SUFFICES ASSUME k \in retired PROVE slots'[k].inFlight > 0
      OBVIOUS
    <3>1. slots[k].retired /\ slots[k].inFlight > 0
      BY DEF Books, RetiredWait
    <3>2. CASE slots[k].has
      BY <1>1, <1>2, <1>5, <3>1, <3>2 DEF LastAnswer
    <3>3. CASE ~slots[k].has
      <4>1. Closed
        BY <3>3 DEF Books, OpenHolds
      <4> QED  BY <4>1 DEF Books, OpenHolds
    <3> QED  BY <3>2, <3>3
  <2>3. \A j \in Epochs : slots'[j].has <=> slots[j].has
    BY <1>1, <1>5
  <2>4. Unmade' /\ SlotsHold' /\ OpenHolds'
    BY <1>2, <2>1, <2>3 DEF Books, Unmade, SlotsHold, OpenHolds
  <2>5. RetiredWait' /\ InFlightHeld'
    BY <1>1, <1>2, <1>3, <2>1, <2>2 DEF Books, RetiredWait, InFlightHeld, TypeOK, RegistryTyped
  <2> QED  BY <2>4, <2>5 DEF Books
<1> QED  BY <1>4, <1>5

LEMMA BooksReplace ==
  ASSUME TypeOK, Books, Counted', CallsMade', NEW p \in Pumps, Replace(p)
  PROVE  Books'
<1>1. CASE epoch' = epoch
  <2>1. UNCHANGED <<registry, stage>>
    BY <1>1 DEF Replace, TypeOK, RegistryTyped
  <2> QED  BY <2>1, BooksFrame DEF Books, Unmade, registry, Closed
<1>2. CASE epoch' # epoch
  <2>1. /\ ~Closed /\ epoch \in Epochs /\ epoch + 1 \in Epochs /\ epoch' = epoch + 1
        /\ UNCHANGED <<box, gone>>
    BY <1>2, ReplaceDoes
  <2>2. PICK X \in SUBSET retired :
          /\ \A j \in Epochs :
               /\ slots'[j].inFlight = IF j = epoch + 1 THEN 0 ELSE slots[j].inFlight
               /\ (slots'[j].retired <=> j # epoch + 1 /\ (slots[j].retired \/ j = epoch))
               /\ slots'[j].has <=> /\ j \notin X
                                    /\ \/ j = epoch + 1
                                       \/ j = epoch /\ ~Idle(j)
                                       \/ j \notin {epoch, epoch + 1} /\ slots[j].has
          /\ retired' = (retired \ X) \cup (IF Idle(epoch) THEN {} ELSE {epoch})
          /\ expired' = expired \cup X
          /\ refs' = [j \in Epochs |->
                       IF j \in X \/ (j = epoch /\ Idle(epoch)) THEN (refs[j] \ {"slot"}) \cup {p}
                       ELSE IF j = epoch + 1 THEN {"slot"} ELSE refs[j]]
    BY <1>2, ReplaceDoes
  <2>3. /\ epoch \in Int /\ p # "slot" /\ (Closed' <=> Closed)
        /\ \A j \in Epochs : slots[j].inFlight \in Int /\ j \in Int
        /\ \A j \in Epochs : slots[j].has \in BOOLEAN
    BY PumpsApart DEF Replace, TypeOK, RegistryTyped, Slot, Closed, Holders, Epochs
  <2>4. retired \subseteq Epochs /\ (\A j \in retired : j < epoch) /\ epoch \notin X /\ epoch + 1 \notin X
    BY <2>2, <2>3 DEF Books, RetiredWait, TypeOK, RegistryTyped
  <2>5. \A j \in Epochs : slots[j].inFlight >= 0
    BY FS_CardinalityType DEF Books, Counted
  <2>6. Unmade'
    BY <2>1, <2>2, <2>3, <2>4 DEF Books, Unmade
  <2>7. SlotsHold'
    <3> SUFFICES ASSUME NEW j \in Epochs PROVE slots'[j].has <=> "slot" \in refs'[j]
      BY DEF SlotsHold
    <3>1. slots[j].has <=> "slot" \in refs[j]
      BY DEF Books, SlotsHold
    <3>2. CASE j = epoch + 1
      BY <2>2, <2>3, <2>4, <3>2
    <3>3. CASE j = epoch
      <4>1. slots[j].has
        BY <2>1, <3>3 DEF Books, OpenHolds
      <4> QED  BY <2>2, <2>3, <2>4, <3>1, <3>3, <4>1
    <3>4. CASE j # epoch /\ j # epoch + 1
      BY <2>2, <2>3, <3>1, <3>4
    <3> QED  BY <3>2, <3>3, <3>4
  <2>8. OpenHolds'
    <3> SUFFICES ASSUME NEW j \in Epochs PROVE slots'[j].has <=> j = epoch + 1 \/ j \in retired'
      BY <2>1, <2>3 DEF OpenHolds
    <3>1. slots[j].has <=> j = epoch \/ j \in retired
      BY <2>1 DEF Books, OpenHolds
    <3> QED  BY <2>2, <2>3, <2>4, <3>1
  <2>9. RetiredWait'
    BY <2>1, <2>2, <2>3, <2>4, <2>5 DEF Books, RetiredWait, Idle
  <2>10. InFlightHeld'
    BY <2>1, <2>2, <2>3, <2>4, <2>5 DEF Books, InFlightHeld, Idle
  <2> QED  BY <2>6, <2>7, <2>8, <2>9, <2>10 DEF Books
<1> QED  BY <1>1, <1>2

LEMMA BooksBindLease ==
  ASSUME TypeOK, Books, Counted', CallsMade', NEW p \in Pumps, BindLease(p)
  PROVE  Books'
<1>1. CASE Closed
  <2>1. UNCHANGED <<registry, stage>>
    BY <1>1 DEF BindLease
  <2> QED  BY <2>1, BooksFrame DEF Books, Unmade, registry, Closed
<1>2. CASE ~Closed
  <2>1. /\ epoch' = Current
        /\ \A j \in Epochs : /\ slots'[j].inFlight = slots[j].inFlight
                             /\ slots'[j].retired = slots[j].retired
                             /\ slots'[j].has <=> (slots[j].has \/ j = Current)
        /\ \A j \in Epochs : refs'[j] = IF j = Current THEN refs[j] \cup {"slot", p} ELSE refs[j]
    BY <1>2, BindLeaseDoes
  <2>2. /\ UNCHANGED <<retired, box, gone, expired>> /\ (Closed' <=> Closed)
        /\ Current \in Epochs /\ Current >= epoch /\ (epoch # 0 => Current = epoch)
        /\ epoch \in Int /\ p # "slot"
        /\ \A j \in Epochs : slots[j].inFlight \in Int /\ j \in Int /\ j >= 1
        /\ \A j \in Epochs : slots[j].has \in BOOLEAN
    BY <1>2, CurrentMade, PumpsApart
       DEF BindLease, TypeOK, RegistryTyped, Slot, Closed, Holders, Epochs
  <2>3. retired \subseteq Epochs /\ (\A j \in retired : j < epoch)
    BY <2>2 DEF Books, RetiredWait, TypeOK, RegistryTyped
  <2>4. Unmade' /\ SlotsHold'
    <3>1. Unmade'
      <4> SUFFICES ASSUME NEW j \in Epochs, j > Current
                   PROVE  refs'[j] = {} /\ gone'[j] = "no" /\ box'[j] = {}
        BY <2>1 DEF Unmade
      <4>1. j > epoch /\ j # Current
        BY <2>2
      <4> QED  BY <2>1, <2>2, <4>1 DEF Books, Unmade
    <3>2. SlotsHold'
      BY <2>1, <2>2 DEF Books, SlotsHold
    <3> QED  BY <3>1, <3>2
  <2>5. OpenHolds'
    BY <1>2, <2>1, <2>2, <2>3 DEF Books, OpenHolds
  <2>6. RetiredWait' /\ InFlightHeld'
    BY <1>2, <2>1, <2>2, <2>3 DEF Books, RetiredWait, InFlightHeld
  <2> QED  BY <2>4, <2>5, <2>6 DEF Books
<1> QED  BY <1>1, <1>2

LEMMA BooksClose ==
  ASSUME TypeOK, Books, Counted', CallsMade', Close
  PROVE  Books'
<1>1. /\ UNCHANGED <<epoch, box, gone, expired>> /\ Closed' /\ retired' = {}
      /\ \A j \in Epochs : refs'[j] = IF refs[j] \cap {"slot", "unreleased"} # {}
                                      THEN (refs[j] \ {"slot", "unreleased"}) \cup {"main"}
                                      ELSE refs[j]
  BY DEF Close, Closed
<1>2. \A j \in Epochs : /\ slots'[j].inFlight = slots[j].inFlight
                        /\ slots'[j].retired = slots[j].retired /\ slots'[j].has = FALSE
  BY CloseDoes
<1>3. Unmade'
  BY <1>1 DEF Books, Unmade
<1>4. SlotsHold'
  <2> SUFFICES ASSUME NEW j \in Epochs PROVE ~slots'[j].has /\ "slot" \notin refs'[j]
    BY DEF SlotsHold
  <2> QED  BY <1>1, <1>2
<1>5. OpenHolds'
  BY <1>1, <1>2 DEF OpenHolds
<1>6. RetiredWait' /\ InFlightHeld'
  BY <1>1, <1>2 DEF Books, RetiredWait, InFlightHeld
<1> QED  BY <1>3, <1>4, <1>5, <1>6 DEF Books

LEMMA BooksNext == TypeOK /\ Books /\ [Next]_vars => Books'
<1> SUFFICES ASSUME TypeOK, Books, [Next]_vars PROVE Books'
  OBVIOUS
<1>1. Counted' /\ CallsMade'
  BY CountsNext, CallsMadeNext DEF Books
<1>2. CASE UNCHANGED <<registry, stage>>
  BY <1>1, <1>2, BooksFrame DEF Books, Unmade, registry, Closed
<1>3. CASE UNCHANGED vars \/ Elsewhere
  BY <1>2, <1>3, ElsewhereLeaves DEF vars
<1>4. ASSUME NEW p \in Pumps, Dropping(p) PROVE Books'
  <2>1. PICK K : Drop(p, K, "pump")
    BY <1>4, DroppingDoes
  <2>2. UNCHANGED <<epoch, slots, retired, box, expired, stage>>
    BY <1>4, DroppingDoes
  <2>3. p # "slot"
    BY PumpsApart DEF Holders
  <2> QED  BY <1>1, <2>1, <2>2, <2>3, BooksDrop DEF Closed
<1>5. ASSUME NEW p \in Pumps, RunRelease(p) PROVE Books'
  <2>1. PICK k : Drop("box", {k}, "pump") /\ box' = [box EXCEPT ![k] = @ \ {"job"}]
    BY <1>5 DEF RunRelease
  <2>2. UNCHANGED <<epoch, slots, retired, expired, stage>>
    BY <1>5 DEF RunRelease
  <2>3. \A j \in Epochs : box'[j] \subseteq box[j]
    BY <2>1 DEF TypeOK, RegistryTyped
  <2> QED  BY <1>1, <2>1, <2>2, <2>3, BooksDrop DEF Closed
<1>6. ASSUME NEW c \in Calls, PostRelease(c) PROVE Books'
  <2>1. UNCHANGED <<epoch, slots, retired, gone, expired, stage>>
    BY <1>6 DEF PostRelease
  <2>2. /\ call[c].epoch \in Epochs /\ call[c].epoch <= epoch
        /\ \A k \in Epochs \ {call[c].epoch} : refs'[k] = refs[k] /\ box'[k] = box[k]
        /\ "slot" \in refs'[call[c].epoch] <=> "slot" \in refs[call[c].epoch]
    BY <1>6 DEF PostRelease, TypeOK, RegistryTyped, Placed, Books, CallsMade
  <2>3. \A k \in Epochs : "slot" \in refs'[k] <=> "slot" \in refs[k]
    BY <2>2
  <2>4. \A k \in Epochs : k > epoch => refs'[k] = {} /\ gone'[k] = "no" /\ box'[k] = {}
    BY <2>1, <2>2 DEF Books, Unmade, TypeOK, RegistryTyped, Epochs
  <2> QED  BY <1>1, <2>1, <2>3, <2>4, BooksFrame DEF Closed
<1>7. ASSUME NEW c \in Calls, Unbox(c) PROVE Books'
  <2>1. /\ UNCHANGED <<epoch, slots, retired, expired, stage>>
        /\ box' = [box EXCEPT ![call[c].epoch] = @ \ {"callback"}]
    BY <1>7 DEF Unbox
  <2>2. \A j \in Epochs : box'[j] \subseteq box[j]
    BY <2>1 DEF TypeOK, RegistryTyped
  <2>3. CASE Drop("box", {call[c].epoch}, "callback")
    BY <1>1, <2>1, <2>2, <2>3, BooksDrop DEF Closed
  <2>4. CASE UNCHANGED <<refs, gone>>
    BY <1>1, <2>1, <2>2, <2>4, BooksFrame DEF Closed, Books, Unmade
  <2> QED  BY <1>7, <2>3, <2>4 DEF Unbox
<1>8. CASE HubClear
  BY <1>1, <1>8, BooksFrame DEF HubClear, Books, Unmade, registry, Closed
<1>9. CASE CloseDrop
  <2>1. /\ UNCHANGED <<epoch, slots, retired, box, expired>> /\ (Closed' <=> Closed)
        /\ Drop("main", {k \in Epochs : "main" \in refs[k]}, "main")
    BY <1>9 DEF CloseDrop, Closed
  <2> QED  BY <1>1, <2>1, BooksDrop
<1>10. CASE PumpStop
  <2>1. PICK L : box' = [k \in Epochs |-> IF k \in L THEN box[k] \ {"job"} ELSE box[k]]
    BY <1>10 DEF PumpStop
  <2>2. PICK K : Drop("box", K, "main")
    BY <1>10 DEF PumpStop
  <2>3. /\ UNCHANGED <<epoch, slots, retired, expired>> /\ (Closed' <=> Closed)
        /\ \A j \in Epochs : box'[j] \subseteq box[j]
    BY <1>10, <2>1 DEF PumpStop, Closed
  <2> QED  BY <1>1, <2>2, <2>3, BooksDrop
<1> QED
  BY <1>1, <1>3, <1>4, <1>5, <1>6, <1>7, <1>8, <1>9, <1>10, Steps, BooksInvoke, BooksFinished,
     BooksReplace, BooksBindLease, BooksClose

LEMMA BooksInit == Init => Books
<1> SUFFICES ASSUME Init PROVE Books
  OBVIOUS
<1>1. \A k \in Epochs : k > 0 /\ k # 0
  BY DEF Epochs
<1>2. ASSUME NEW k \in Epochs PROVE IsFiniteSet(Out(k)) /\ slots[k].inFlight = Cardinality(Out(k))
  <2>1. Out(k) = {}
    BY <1>1 DEF Init, Out
  <2>2. slots[k] = [NewSlot EXCEPT !.has = FALSE] /\ FALSE \in BOOLEAN
    BY DEF Init
  <2>3. slots[k].inFlight = 0
    BY <2>2, NewSlotType, SetHas
  <2> QED  BY <2>1, <2>3, FS_EmptySet
<1>3. ASSUME NEW k \in Epochs PROVE ~slots[k].has /\ ~slots[k].retired /\ slots[k].inFlight = 0
  <2>1. slots[k] = [NewSlot EXCEPT !.has = FALSE] /\ FALSE \in BOOLEAN
    BY DEF Init
  <2> QED  BY <2>1, NewSlotType, SetHas
<1>4. Counted
  BY <1>2 DEF Counted
<1>5. CallsMade
  BY DEF CallsMade, Init
<1>6. Unmade
  BY DEF Unmade, Init
<1>7. SlotsHold
  BY <1>3 DEF SlotsHold, Init
<1>8. OpenHolds
  BY <1>1, <1>3 DEF OpenHolds, Init
<1>9. RetiredWait
  BY <1>3 DEF RetiredWait, Init
<1>10. InFlightHeld
  <2> SUFFICES ASSUME NEW k \in Epochs PROVE ~(slots[k].inFlight > 0)
    BY DEF InFlightHeld
  <2> QED  BY <1>3
<1> QED  BY <1>4, <1>5, <1>6, <1>7, <1>8, <1>9, <1>10 DEF Books

----------------------------------------------------------------------------
(* Releases: a client given up by its last answer leaves through a box     *)

(* A call whose callback gives its client up. *)
Releasing(c) == call[c].pc \in {"release", "unbox"}

(* The clients that a job in the queue is to release. *)
Queued == {queue[n].epoch : n \in {m \in DOMAIN queue : queue[m].kind = "release"}}

(* A client in a box is there for the callback or for the job. *)
BoxShared == \A k \in Epochs : "box" \in refs[k] => box[k] # {}

(* A job's share goes with the job, the callback's with the callback. *)
JobQueued == \A k \in Epochs : "job" \in box[k] => k \in Queued
CallbackRuns ==
  \A k \in Epochs : "callback" \in box[k] => \E c \in Calls : Releasing(c) /\ call[c].epoch = k

(* Until it has posted the release, the callback has the box to itself;    *)
(* from then on the box is the job's too, unless the client has left it.   *)
Unposted ==
  \A c \in Calls : call[c].pc = "release" =>
    box[call[c].epoch] = {"callback"} /\ "box" \in refs[call[c].epoch]
Posted ==
  \A c \in Calls : call[c].pc = "unbox" /\ stage # "stopped" =>
    "job" \in box[call[c].epoch] \/ "box" \notin refs[call[c].epoch]

(* A replaced client that is out of its slot. *)
Left(k) == slots[k].retired /\ ~slots[k].has

(* Only such a client is released, and each by one callback. *)
ReleasedLeft == \A c \in Calls : Releasing(c) => Left(call[c].epoch)
OneCallback ==
  \A c, d \in Calls : Releasing(c) /\ Releasing(d) /\ call[c].epoch = call[d].epoch => c = d
QueuedLeft ==
  \A k \in Queued : Left(k) /\ \A c \in Calls : call[c].epoch = k => call[c].pc # "release"

Boxed ==
  /\ BoxShared /\ JobQueued /\ CallbackRuns /\ Unposted /\ Posted
  /\ ReleasedLeft /\ OneCallback /\ QueuedLeft

(* A client that has left its slot never gets back into it. *)
LEMMA LeftForGood ==
  ASSUME TypeOK, Books, [Next]_vars, NEW j \in Epochs, Left(j)
  PROVE  Left(j)'
<1>1. /\ slots[j].retired /\ ~slots[j].has /\ j < epoch /\ j >= 1 /\ epoch \in Int /\ j \in Int
      /\ j # Current
  BY CurrentMade DEF Left, Books, RetiredWait, TypeOK, RegistryTyped, Epochs
<1>2. CASE UNCHANGED slots
  BY <1>2 DEF Left
<1>3. ASSUME NEW p \in Pumps, NEW c \in Calls, Invoke(p, c) PROVE Left(j)'
  <2>1. CASE Closed
    BY <1>2, <1>3, <2>1 DEF Invoke, registry
  <2>2. CASE ~Closed
    <3>1. slots'[j].retired = slots[j].retired /\ (slots'[j].has => slots[j].has \/ j = Current)
      BY <1>3, <2>2, InvokeDoes
    <3> QED  BY <1>1, <3>1 DEF Left
  <2> QED  BY <2>1, <2>2
<1>4. ASSUME NEW p \in Pumps, BindLease(p) PROVE Left(j)'
  <2>1. CASE Closed
    BY <1>2, <1>4, <2>1 DEF BindLease, registry
  <2>2. CASE ~Closed
    <3>1. slots'[j].retired = slots[j].retired /\ (slots'[j].has <=> slots[j].has \/ j = Current)
      BY <1>4, <2>2, BindLeaseDoes
    <3> QED  BY <1>1, <3>1 DEF Left
  <2> QED  BY <2>1, <2>2
<1>5. ASSUME NEW p \in Pumps, Replace(p) PROVE Left(j)'
  <2>1. CASE epoch' = epoch
    <3>1. UNCHANGED slots
      BY <1>5, <2>1 DEF Replace, registry, TypeOK, RegistryTyped
    <3> QED  BY <1>2, <3>1
  <2>2. CASE epoch' # epoch
    <3>1. /\ slots'[j].retired <=> j # epoch + 1 /\ (slots[j].retired \/ j = epoch)
          /\ slots'[j].has =>
               j = epoch + 1 \/ j = epoch \/ (j \notin {epoch, epoch + 1} /\ slots[j].has)
      BY <1>5, <2>2, ReplaceDoes
    <3> QED  BY <1>1, <3>1 DEF Left
  <2> QED  BY <2>1, <2>2
<1>6. ASSUME NEW c \in Calls, Finished(c) PROVE Left(j)'
  <2>1. PICK k \in Epochs : /\ \A i \in Epochs \ {k} : slots'[i] = slots[i]
                            /\ slots'[k].retired = slots[k].retired
                            /\ slots'[k].has => slots[k].has
    BY <1>6, FinishedDoes
  <2> QED  BY <1>1, <2>1 DEF Left
<1>7. CASE Close
  <2>1. slots'[j].retired = slots[j].retired /\ ~slots'[j].has
    BY <1>7, CloseDoes
  <2> QED  BY <1>1, <2>1 DEF Left
<1>8. CASE UNCHANGED vars \/ Elsewhere
  BY <1>2, <1>8, ElsewhereLeaves DEF vars, registry
<1>9. ASSUME NEW p \in Pumps, Dropping(p) \/ RunRelease(p) PROVE UNCHANGED slots
  BY <1>9, DroppingDoes DEF RunRelease
<1>10. ASSUME NEW c \in Calls, PostRelease(c) \/ Unbox(c) PROVE UNCHANGED slots
  BY <1>10 DEF PostRelease, Unbox
<1>11. CASE HubClear \/ CloseDrop \/ PumpStop
  BY <1>2, <1>11 DEF HubClear, CloseDrop, PumpStop, registry
<1> QED
  BY <1>2, <1>3, <1>4, <1>5, <1>6, <1>7, <1>8, <1>9, <1>10, <1>11, Steps

(* What taking a job, or posting one, does to the releases in the queue. *)
LEMMA QueuedTail ==
  ASSUME TypeOK, queue # <<>>, queue' = Tail(queue)
  PROVE  /\ Queued' \subseteq Queued /\ Queued \subseteq Queued' \cup {Head(queue).epoch}
         /\ Head(queue).kind # "release" => Queued' = Queued
         /\ Head(queue).kind = "release" => Head(queue).epoch \in Queued
<1>1. /\ Head(queue) = queue[1] /\ 1 \in DOMAIN queue
      /\ \A n \in DOMAIN queue' : n + 1 \in DOMAIN queue /\ queue'[n] = queue[n + 1]
      /\ \A n \in DOMAIN queue : n = 1 \/ (n - 1 \in DOMAIN queue' /\ queue'[n - 1] = queue[n])
  <2>1. queue \in Seq(Jobs)
    BY DEF TypeOK, WorkTyped
  <2>2. 1 \in DOMAIN queue
    BY <2>1
  <2> QED  BY <2>1, <2>2, QueueTail
<1>2. Queued' \subseteq Queued
  BY <1>1 DEF Queued
<1>3. ASSUME NEW n \in DOMAIN queue, queue[n].kind = "release", n # 1
      PROVE  queue[n].epoch \in Queued'
  BY <1>1, <1>3 DEF Queued
<1>4. Queued \subseteq Queued' \cup {Head(queue).epoch}
  BY <1>1, <1>3 DEF Queued
<1>5. Head(queue).kind # "release" => Queued \subseteq Queued'
  BY <1>1, <1>3 DEF Queued
<1>6. Head(queue).kind = "release" => Head(queue).epoch \in Queued
  BY <1>1 DEF Queued
<1> QED  BY <1>2, <1>4, <1>5, <1>6

LEMMA QueuedAppend ==
  ASSUME TypeOK, NEW j \in Jobs, queue' = Append(queue, j)
  PROVE  Queued' = Queued \cup (IF j.kind = "release" THEN {j.epoch} ELSE {})
<1>1. /\ DOMAIN queue \subseteq DOMAIN queue'
      /\ \A n \in DOMAIN queue : queue'[n] = queue[n]
      /\ \E n \in DOMAIN queue' : queue'[n] = j
      /\ \A n \in DOMAIN queue' : n \in DOMAIN queue \/ queue'[n] = j
  <2>1. queue \in Seq(Jobs)
    BY DEF TypeOK, WorkTyped
  <2> QED  BY <2>1, QueueAppend
<1>2. Queued \subseteq Queued'
  BY <1>1 DEF Queued
<1>3. j.kind = "release" => j.epoch \in Queued'
  BY <1>1 DEF Queued
<1>4. Queued' \subseteq Queued \cup (IF j.kind = "release" THEN {j.epoch} ELSE {})
  BY <1>1 DEF Queued
<1> QED  BY <1>2, <1>3, <1>4

(* A step that neither fills a box nor takes from one. *)
BoxesRest ==
  /\ UNCHANGED box /\ Queued' = Queued /\ (stage = "stopped" => stage' = "stopped")
  /\ \A k \in Epochs : "box" \in refs'[k] <=> "box" \in refs[k]
  /\ \A c \in Calls : \/ call'[c] = call[c]
                      \/ ~Releasing(c) /\ ~Releasing(c)'

LEMMA BoxSteps ==
  ASSUME TypeOK, Books, [Next]_vars
  PROVE  \/ BoxesRest
         \/ \E c \in Calls : \/ Finished(c) /\ LastAnswer(call[c].epoch)
                             \/ PostRelease(c) \/ Unbox(c)
         \/ \E p \in Pumps : RunRelease(p)
         \/ PumpStop
<1>1. UNCHANGED queue => Queued' = Queued
  BY DEF Queued
<1>2. CASE UNCHANGED <<registry, stage, queue, call>>
  BY <1>1, <1>2 DEF BoxesRest, registry
<1>3. ASSUME NEW p \in Pumps, InvokeAsync(p) PROVE BoxesRest
  <2>1. UNCHANGED <<registry, stage, queue>>
    BY <1>3 DEF InvokeAsync
  <2>2. PICK c \in Calls : /\ call[c].pc = "invoking" /\ "sent" \in CallPcs
                           /\ call' = [call EXCEPT ![c].pc = "sent"]
    BY <1>3 DEF InvokeAsync, CallPcs
  <2>3. call'[c].pc = "sent" /\ \A d \in Calls \ {c} : call'[d] = call[d]
    BY <2>2, CallMoves DEF TypeOK
  <2>4. \A d \in Calls : call'[d] = call[d] \/ (~Releasing(d) /\ ~Releasing(d)')
    BY <2>2, <2>3 DEF Releasing
  <2> QED  BY <1>1, <2>1, <2>4 DEF BoxesRest, registry
<1>4. ASSUME NEW c \in Calls, PostReplace(c) PROVE BoxesRest
  <2>1. UNCHANGED <<registry, stage>> /\ call[c].pc = "repost"
    BY <1>4 DEF PostReplace
  <2>2. "answered" \in CallPcs /\ call' = [call EXCEPT ![c].pc = "answered"]
    BY <1>4 DEF PostReplace, CallPcs
  <2>3. call'[c].pc = "answered" /\ \A d \in Calls \ {c} : call'[d] = call[d]
    BY <2>2, CallMoves DEF TypeOK
  <2>4. \A d \in Calls : call'[d] = call[d] \/ (~Releasing(d) /\ ~Releasing(d)')
    BY <2>1, <2>3 DEF Releasing
  <2>5. Queued' = Queued
    <3>1. CASE UNCHANGED queue
      BY <1>1, <3>1
    <3>2. CASE queue' = Append(queue, [kind |-> "replace", epoch |-> call[c].epoch])
      <4>1. [kind |-> "replace", epoch |-> call[c].epoch] \in Jobs
        BY <2>1 DEF TypeOK, Placed, Jobs
      <4> QED  BY <3>2, <4>1, QueuedAppend
    <3> QED  BY <1>4, <3>1, <3>2 DEF PostReplace
  <2> QED  BY <2>1, <2>4, <2>5 DEF BoxesRest, registry
<1>5. CASE UNCHANGED vars \/ Rest
  BY <1>2, <1>5 DEF Rest, vars
<1>6. ASSUME NEW p \in Pumps,
             \/ Retire(p) \/ ResetBaseline(p) \/ Rebind(p) \/ BindNext(p) \/ BindsDone(p) \/ WatchClaim(p)
             \/ WatchInstall(p) \/ BindReread(p)
             \/ \E e \in Events : Add(p, e) \/ BindCheck(p, e) \/ BindRefused(p, e) \/ BindSwap(p, e)
      PROVE  UNCHANGED <<registry, stage, queue, call>>
  BY <1>6 DEF Retire, ResetBaseline, Rebind, BindNext, BindsDone, WatchClaim, WatchInstall, BindReread,
              Add, BindCheck, BindRefused, BindSwap
<1>7. ASSUME NEW k \in Epochs, ReportCheck(k) \/ ReportApply(k)
      PROVE  UNCHANGED <<registry, stage, queue, call>>
  BY <1>7 DEF ReportCheck, ReportApply
<1>8. ASSUME UNCHANGED <<box, stage, queue, call>>, NEW who, NEW K, NEW kind, who # "box",
             Drop(who, K, kind)
      PROVE  BoxesRest
  <2>1. \A k \in Epochs : refs'[k] \in {refs[k], refs[k] \ {who}}
    BY <1>8, Dropped DEF TypeOK
  <2> QED  BY <1>1, <1>8, <2>1 DEF BoxesRest
<1>9. ASSUME NEW p \in Pumps, Dropping(p) PROVE BoxesRest
  <2>1. UNCHANGED <<box, stage, queue, call>> /\ \E K : Drop(p, K, "pump")
    BY <1>9, DroppingDoes
  <2>2. p # "box"
    BY PumpsApart DEF Holders
  <2> QED  BY <1>8, <2>1, <2>2
<1>10. ASSUME NEW p \in Pumps, NEW c \in Calls, Invoke(p, c) PROVE BoxesRest
  <2>1. /\ UNCHANGED <<box, stage, queue>> /\ call[c].pc = "new"
        /\ \A d \in Calls \ {c} : call'[d] = call[d]
        /\ call'[c].pc \in {"invoking", "answered"}
    BY <1>10, InvokeCalls DEF Invoke, registry
  <2>2. \A d \in Calls : call'[d] = call[d] \/ (~Releasing(d) /\ ~Releasing(d)')
    BY <2>1 DEF Releasing
  <2>3. \A k \in Epochs : "box" \in refs'[k] <=> "box" \in refs[k]
    <3>1. p # "box"
      BY PumpsApart DEF Holders
    <3>2. CASE Closed
      BY <1>10, <3>2 DEF Invoke, registry
    <3>3. CASE ~Closed
      <4>1. PICK X : refs' = [j \in Epochs |->
                                IF j \in X THEN (refs[j] \ {"slot"}) \cup {p}
                                ELSE IF j = Current THEN refs[j] \cup {"slot", p} ELSE refs[j]]
        BY <1>10, <3>3 DEF Invoke
      <4> QED  BY <3>1, <4>1
    <3> QED  BY <3>2, <3>3
  <2> QED  BY <1>1, <2>1, <2>2, <2>3 DEF BoxesRest
<1>11. ASSUME NEW p \in Pumps, BindLease(p) PROVE BoxesRest
  <2>1. UNCHANGED <<box, stage, queue, call>> /\ p # "box"
    BY <1>11, PumpsApart DEF BindLease, registry, Holders
  <2>2. CASE UNCHANGED refs
    BY <1>1, <2>1, <2>2 DEF BoxesRest
  <2>3. CASE ~Closed
    <3>1. \A j \in Epochs : refs'[j] = IF j = Current THEN refs[j] \cup {"slot", p} ELSE refs[j]
      BY <1>11, <2>3, BindLeaseDoes
    <3> QED  BY <1>1, <2>1, <3>1 DEF BoxesRest
  <2> QED  BY <1>11, <2>2, <2>3 DEF BindLease, registry
<1>12. ASSUME NEW p \in Pumps, Replace(p) PROVE BoxesRest
  <2>1. /\ UNCHANGED <<box, stage, call>> /\ p # "box"
        /\ queue # <<>> /\ queue' = Tail(queue) /\ Head(queue).kind = "replace"
    BY <1>12, PumpsApart DEF Replace, registry, Holders
  <2>2. Queued' = Queued
    BY <2>1, QueuedTail
  <2>3. CASE UNCHANGED refs
    BY <2>1, <2>2, <2>3 DEF BoxesRest
  <2>4. CASE epoch' # epoch
    <3>1. PICK X \in SUBSET retired :
            refs' = [j \in Epochs |->
                      IF j \in X \/ (j = epoch /\ Idle(epoch)) THEN (refs[j] \ {"slot"}) \cup {p}
                      ELSE IF j = epoch + 1 THEN {"slot"} ELSE refs[j]]
      BY <1>12, <2>4, ReplaceDoes
    <3>2. \A j \in Epochs : j = epoch + 1 => refs[j] = {}
      BY DEF Books, Unmade, TypeOK, RegistryTyped
    <3> QED  BY <2>1, <2>2, <3>1, <3>2 DEF BoxesRest
  <2> QED  BY <1>12, <2>3, <2>4 DEF Replace, registry, TypeOK, RegistryTyped
<1>13. ASSUME NEW c \in Calls, Finished(c), ~LastAnswer(call[c].epoch) PROVE BoxesRest
  <2>1. UNCHANGED <<refs, box, stage, queue>> /\ call[c].pc = "sent"
    BY <1>13 DEF Finished
  <2>2. PICK l \in {"answered", "repost"} : call' = [call EXCEPT ![c].pc = l]
    BY <1>13 DEF Finished
  <2>3. call'[c].pc = l /\ \A d \in Calls \ {c} : call'[d] = call[d]
    BY <2>2, CallMoves DEF TypeOK, CallPcs
  <2>4. \A d \in Calls : call'[d] = call[d] \/ (~Releasing(d) /\ ~Releasing(d)')
    BY <2>1, <2>2, <2>3 DEF Releasing
  <2> QED  BY <1>1, <2>1, <2>4 DEF BoxesRest
<1>14. CASE HubClear
  BY <1>1, <1>14 DEF HubClear, BoxesRest, registry
<1>15. CASE Close
  <2>1. \A k \in Epochs : "box" \in refs'[k] <=> "box" \in refs[k]
    BY <1>15 DEF Close
  <2> QED  BY <1>1, <1>15, <2>1 DEF Close, BoxesRest
<1>16. CASE CloseDrop
  <2>1. \A k \in Epochs : refs'[k] \in {refs[k], refs[k] \ {"main"}}
    BY <1>16, Dropped DEF CloseDrop, TypeOK
  <2> QED  BY <1>1, <1>16, <2>1 DEF CloseDrop, BoxesRest
<1>17. CASE Elsewhere
  BY <1>2, <1>3, <1>4, <1>5, <1>6, <1>7, <1>17 DEF Elsewhere
<1> QED
  BY <1>5, <1>9, <1>10, <1>11, <1>12, <1>13, <1>14, <1>15, <1>16, <1>17, Steps

LEMMA BoxedRests ==
  ASSUME TypeOK, Books, [Next]_vars, Boxed, BoxesRest
  PROVE  Boxed'
<1>1. /\ UNCHANGED box /\ Queued' = Queued /\ (stage = "stopped" => stage' = "stopped")
      /\ \A k \in Epochs : "box" \in refs'[k] <=> "box" \in refs[k]
  BY DEF BoxesRest
<1>2. \A c \in Calls :
        /\ Releasing(c)' => call'[c] = call[c] /\ Releasing(c)
        /\ Releasing(c) => call'[c] = call[c] /\ Releasing(c)'
        /\ call'[c].pc \in {"release", "unbox"} => call'[c] = call[c]
  BY DEF BoxesRest, Releasing
<1>3. \A c \in Calls : Releasing(c) => call[c].epoch \in Epochs
  BY DEF Releasing, TypeOK, Placed
<1>4. Queued \subseteq Epochs
  BY DEF Queued, TypeOK, WorkTyped, Jobs
<1>5. BoxShared' /\ JobQueued'
  BY <1>1 DEF Boxed, BoxShared, JobQueued
<1>6. CallbackRuns'
  BY <1>1, <1>2 DEF Boxed, CallbackRuns
<1>7. Unposted' /\ Posted'
  BY <1>1, <1>2, <1>3 DEF Boxed, Unposted, Posted, Releasing
<1>8. ReleasedLeft'
  BY <1>2, <1>3, LeftForGood DEF Boxed, ReleasedLeft
<1>9. OneCallback'
  BY <1>2 DEF Boxed, OneCallback
<1>10. QueuedLeft'
  BY <1>1, <1>2, <1>4, LeftForGood DEF Boxed, QueuedLeft
<1> QED  BY <1>5, <1>6, <1>7, <1>8, <1>9, <1>10 DEF Boxed

(* The last answer puts its client into a box of its own. *)
LEMMA BoxedFinished ==
  ASSUME TypeOK, Books, [Next]_vars, Boxed, NEW c \in Calls, Finished(c),
         LastAnswer(call[c].epoch)
  PROVE  Boxed'
<1>1. PICK k \in Epochs : /\ k = call[c].epoch
                          /\ slots'[k].retired = slots[k].retired
                          /\ slots'[k].has <=> slots[k].has /\ ~LastAnswer(k)
  BY FinishedDoes
<1>2. Left(k)' /\ slots[k].has
  BY <1>1 DEF Left, LastAnswer
<1>3. /\ \A j \in Epochs \ {k} : refs'[j] = refs[j] /\ box'[j] = box[j]
      /\ "box" \in refs'[k] /\ box'[k] = {"callback"}
      /\ Queued' = Queued /\ UNCHANGED stage
  BY <1>1 DEF Finished, TypeOK, RegistryTyped, Queued
<1>4. /\ call[c].pc = "sent" /\ call'[c].pc = "release" /\ call'[c].epoch = k
      /\ \A d \in Calls \ {c} : call'[d] = call[d]
  <2>1. call' = [call EXCEPT ![c].pc = "release"] /\ call[c].pc = "sent"
    BY DEF Finished
  <2> QED  BY <1>1, <2>1, CallMoves DEF TypeOK, CallPcs
<1>5. /\ ~Releasing(c) /\ Releasing(c)'
      /\ \A d \in Calls \ {c} : Releasing(d)' <=> Releasing(d)
  BY <1>4 DEF Releasing
<1>6. \A d \in Calls : Releasing(d) => call[d].epoch \in Epochs \ {k}
  BY <1>2 DEF Boxed, ReleasedLeft, Left, Releasing, TypeOK, Placed
<1>7. Queued \subseteq Epochs \ {k}
  <2>1. Queued \subseteq Epochs
    BY DEF Queued, TypeOK, WorkTyped, Jobs
  <2> QED  BY <1>2, <2>1 DEF Boxed, QueuedLeft, Left
<1>8. BoxShared' /\ JobQueued'
  BY <1>3 DEF Boxed, BoxShared, JobQueued
<1>9. CallbackRuns'
  <2> SUFFICES ASSUME NEW j \in Epochs, "callback" \in box'[j]
               PROVE  \E d \in Calls : Releasing(d)' /\ call'[d].epoch = j
    BY DEF CallbackRuns
  <2>1. CASE j = k
    BY <1>4, <1>5, <2>1
  <2>2. CASE j # k
    <3>1. PICK d \in Calls : Releasing(d) /\ call[d].epoch = j
      BY <1>3, <2>2 DEF Boxed, CallbackRuns
    <3> QED  BY <1>4, <1>5, <3>1
  <2> QED  BY <2>1, <2>2
<1>10. Unposted' /\ Posted'
  <2> SUFFICES ASSUME NEW d \in Calls
               PROVE  /\ call'[d].pc = "release" =>
                           box'[call'[d].epoch] = {"callback"} /\ "box" \in refs'[call'[d].epoch]
                      /\ call'[d].pc = "unbox" /\ stage' # "stopped" =>
                           "job" \in box'[call'[d].epoch] \/ "box" \notin refs'[call'[d].epoch]
    BY DEF Unposted, Posted
  <2>1. CASE d = c
    BY <1>3, <1>4, <2>1
  <2>2. CASE d # c
    BY <1>3, <1>4, <1>6, <2>2 DEF Boxed, Unposted, Posted, Releasing
  <2> QED  BY <2>1, <2>2
<1>11. ReleasedLeft'
  BY <1>2, <1>4, <1>5, <1>6, LeftForGood DEF Boxed, ReleasedLeft
<1>12. OneCallback'
  BY <1>4, <1>5, <1>6 DEF Boxed, OneCallback
<1>13. QueuedLeft'
  BY <1>3, <1>4, <1>7, LeftForGood DEF Boxed, QueuedLeft
<1> QED  BY <1>8, <1>9, <1>10, <1>11, <1>12, <1>13 DEF Boxed

(* The callback shares the box with the job, or, the pump stopped, gives   *)
(* the client back to the registry.                                        *)
LEMMA BoxedPostRelease ==
  ASSUME TypeOK, Books, [Next]_vars, Boxed, NEW c \in Calls, PostRelease(c)
  PROVE  Boxed'
<1>1. PICK k \in Epochs : k = call[c].epoch
  BY DEF PostRelease, TypeOK, Placed
<1>2. /\ call[c].pc = "release" /\ call'[c].pc = "unbox" /\ call'[c].epoch = k
      /\ \A d \in Calls \ {c} : call'[d] = call[d]
  <2>1. call' = [call EXCEPT ![c].pc = "unbox"] /\ call[c].pc = "release"
    BY DEF PostRelease
  <2> QED  BY <1>1, <2>1, CallMoves DEF TypeOK, CallPcs
<1>3. \A d \in Calls : /\ Releasing(d)' <=> Releasing(d)
                       /\ call'[d].epoch = call[d].epoch
                       /\ Releasing(d) => call[d].epoch \in Epochs /\ Left(call[d].epoch)'
                       /\ Releasing(d) /\ d # c => call[d].epoch # k
  <2> SUFFICES ASSUME NEW d \in Calls
               PROVE  /\ Releasing(d)' <=> Releasing(d)
                      /\ call'[d].epoch = call[d].epoch
                      /\ Releasing(d) => call[d].epoch \in Epochs /\ Left(call[d].epoch)'
                      /\ Releasing(d) /\ d # c => call[d].epoch # k
    OBVIOUS
  <2>1. (Releasing(d)' <=> Releasing(d)) /\ call'[d].epoch = call[d].epoch
    BY <1>1, <1>2 DEF Releasing
  <2>2. Releasing(d) => call[d].epoch \in Epochs /\ Left(call[d].epoch)
    BY DEF Releasing, TypeOK, Placed, Boxed, ReleasedLeft
  <2>3. Releasing(c)
    BY <1>2 DEF Releasing
  <2>4. Releasing(d) /\ d # c => call[d].epoch # k
    BY <1>1, <2>3 DEF Boxed, OneCallback
  <2> QED  BY <2>1, <2>2, <2>4, LeftForGood
<1>4. ReleasedLeft' /\ OneCallback'
  BY <1>3 DEF Boxed, ReleasedLeft, OneCallback
<1>5. /\ box[k] = {"callback"} /\ "box" \in refs[k] /\ Left(k)'
      /\ UNCHANGED stage
  BY <1>1, <1>2, <1>3 DEF Boxed, Unposted, Releasing, PostRelease
<1>6. Queued \subseteq Epochs
  BY DEF Queued, TypeOK, WorkTyped, Jobs
<1>7. \A d \in Calls : call'[d].pc = "release" => d # c /\ call[d].pc = "release"
  BY <1>2
<1>8. CASE PumpRunning
  <2>1. /\ UNCHANGED refs
        /\ box'[k] = {"callback", "job"} /\ \A j \in Epochs \ {k} : box'[j] = box[j]
    BY <1>1, <1>5, <1>8 DEF PostRelease, TypeOK, RegistryTyped
  <2>2. Queued' = Queued \cup {k}
    <3>1. queue' = Append(queue, [kind |-> "release", epoch |-> k])
      BY <1>1, <1>8 DEF PostRelease
    <3>2. [kind |-> "release", epoch |-> k] \in Jobs
      BY DEF Jobs
    <3> QED  BY <3>1, <3>2, QueuedAppend
  <2>3. BoxShared' /\ JobQueued'
    BY <2>1, <2>2 DEF Boxed, BoxShared, JobQueued
  <2>4. CallbackRuns'
    BY <1>3, <1>5, <2>1 DEF Boxed, CallbackRuns
  <2>5. Unposted'
    BY <1>2, <1>3, <1>7, <2>1 DEF Boxed, Unposted, Releasing
  <2>6. Posted'
    BY <1>2, <1>3, <1>5, <2>1 DEF Boxed, Posted, Releasing
  <2>7. QueuedLeft'
    <3> SUFFICES ASSUME NEW j \in Queued'
                 PROVE  /\ Left(j)'
                        /\ \A d \in Calls : call'[d].epoch = j => call'[d].pc # "release"
      BY DEF QueuedLeft
    <3>1. CASE j = k
      BY <1>3, <1>5, <1>7, <3>1 DEF Releasing
    <3>2. CASE j # k
      <4>1. j \in Queued
        BY <2>2, <3>2
      <4> QED  BY <1>3, <1>6, <1>7, <4>1, LeftForGood DEF Boxed, QueuedLeft
    <3> QED  BY <3>1, <3>2
  <2> QED  BY <1>4, <2>3, <2>4, <2>5, <2>6, <2>7 DEF Boxed
<1>9. CASE ~PumpRunning
  <2>1. /\ UNCHANGED box /\ "box" \notin refs'[k]
        /\ \A j \in Epochs \ {k} : refs'[j] = refs[j]
    BY <1>1, <1>9 DEF PostRelease, TypeOK, RegistryTyped
  <2>2. Queued' = Queued
    BY <1>9 DEF PostRelease, Queued
  <2>3. BoxShared' /\ JobQueued'
    BY <2>1, <2>2 DEF Boxed, BoxShared, JobQueued
  <2>4. CallbackRuns'
    BY <1>3, <2>1 DEF Boxed, CallbackRuns
  <2>5. Unposted'
    BY <1>2, <1>3, <1>7, <2>1 DEF Boxed, Unposted, Releasing
  <2>6. Posted'
    BY <1>2, <1>3, <1>5, <2>1 DEF Boxed, Posted, Releasing
  <2>7. QueuedLeft'
    BY <1>3, <1>6, <1>7, <2>2, LeftForGood DEF Boxed, QueuedLeft
  <2> QED  BY <1>4, <2>3, <2>4, <2>5, <2>6, <2>7 DEF Boxed
<1> QED  BY <1>8, <1>9

(* The callback lets go of the box; one it shares with the job, or one the *)
(* client has left, destroys nothing.                                      *)
LEMMA BoxedUnbox ==
  ASSUME TypeOK, Books, [Next]_vars, Boxed, NEW c \in Calls, Unbox(c)
  PROVE  Boxed'
<1>1. PICK k \in Epochs : k = call[c].epoch
  BY DEF Unbox, TypeOK, Placed
<1>2. /\ call[c].pc = "unbox" /\ call'[c].pc = "answered"
      /\ \A d \in Calls \ {c} : call'[d] = call[d]
  <2>1. call' = [call EXCEPT ![c].pc = "answered"] /\ call[c].pc = "unbox"
    BY DEF Unbox
  <2> QED  BY <2>1, CallMoves DEF TypeOK, CallPcs
<1>3. /\ box'[k] = box[k] \ {"callback"} /\ \A j \in Epochs \ {k} : box'[j] = box[j]
      /\ UNCHANGED <<stage, queue>>
  BY <1>1 DEF Unbox, TypeOK, RegistryTyped
<1>4. /\ \A j \in Epochs : refs'[j] \subseteq refs[j]
      /\ box[k] = {"callback"} => "box" \notin refs'[k]
      /\ \A j \in Epochs \ {k} : refs'[j] = refs[j]
  <2>1. CASE box[k] = {"callback"} /\ "box" \in refs[k]
    <3>1. Drop("box", {k}, "callback")
      BY <1>1, <2>1 DEF Unbox
    <3> QED  BY <3>1, Dropped DEF TypeOK
  <2>2. CASE ~(box[k] = {"callback"} /\ "box" \in refs[k])
    BY <1>1, <2>2 DEF Unbox
  <2> QED  BY <2>1, <2>2
<1>5. \A d \in Calls : /\ Releasing(d)' <=> d # c /\ Releasing(d)
                       /\ Releasing(d) => call[d].epoch \in Epochs
  BY <1>2 DEF Releasing, TypeOK, Placed
<1>6. \A d \in Calls : Releasing(d) /\ d # c => call[d].epoch # k
  <2>1. Releasing(c)
    BY <1>2 DEF Releasing
  <2> QED  BY <1>1, <2>1 DEF Boxed, OneCallback
<1>7. Queued' = Queued /\ Queued \subseteq Epochs
  BY <1>3 DEF Queued, TypeOK, WorkTyped, Jobs
<1>8. BoxShared'
  <2> SUFFICES ASSUME NEW j \in Epochs, "box" \in refs'[j] PROVE box'[j] # {}
    BY DEF BoxShared
  <2>1. box[j] # {} /\ box[j] \subseteq {"callback", "job"}
    BY <1>4 DEF Boxed, BoxShared, TypeOK, RegistryTyped
  <2>2. j = k => "job" \in box[j]
    BY <1>4, <2>1
  <2> QED  BY <1>3, <2>1, <2>2
<1>9. JobQueued'
  BY <1>3, <1>7 DEF Boxed, JobQueued
<1>10. CallbackRuns'
  <2> SUFFICES ASSUME NEW j \in Epochs, "callback" \in box'[j]
               PROVE  \E d \in Calls : Releasing(d)' /\ call'[d].epoch = j
    BY DEF CallbackRuns
  <2>1. PICK d \in Calls : Releasing(d) /\ call[d].epoch = j
    BY <1>3 DEF Boxed, CallbackRuns
  <2>2. j # k
    BY <1>3
  <2> QED  BY <1>1, <1>2, <1>5, <2>1, <2>2
<1>11. Unposted' /\ Posted'
  <2> SUFFICES ASSUME NEW d \in Calls, Releasing(d)'
               PROVE  /\ call'[d].pc = "release" =>
                           box'[call'[d].epoch] = {"callback"} /\ "box" \in refs'[call'[d].epoch]
                      /\ call'[d].pc = "unbox" /\ stage' # "stopped" =>
                           "job" \in box'[call'[d].epoch] \/ "box" \notin refs'[call'[d].epoch]
    BY DEF Unposted, Posted, Releasing
  <2>1. /\ d # c /\ call'[d] = call[d] /\ call[d].epoch \in Epochs \ {k}
        /\ UNCHANGED stage
    BY <1>2, <1>3, <1>5, <1>6
  <2> QED  BY <1>3, <1>4, <2>1 DEF Boxed, Unposted, Posted
<1>12. ReleasedLeft' /\ OneCallback'
  BY <1>2, <1>5, LeftForGood DEF Boxed, ReleasedLeft, OneCallback
<1>13. QueuedLeft'
  BY <1>2, <1>7, LeftForGood DEF Boxed, QueuedLeft
<1> QED  BY <1>8, <1>9, <1>10, <1>11, <1>12, <1>13 DEF Boxed

(* The job takes the client out of the box.                                *)
LEMMA BoxedRunRelease ==
  ASSUME TypeOK, Books, [Next]_vars, Boxed, NEW p \in Pumps, RunRelease(p)
  PROVE  Boxed'
<1>1. PICK k : /\ k = Head(queue).epoch /\ Drop("box", {k}, "pump")
               /\ box' = [box EXCEPT ![k] = @ \ {"job"}]
               /\ queue # <<>> /\ queue' = Tail(queue) /\ Head(queue).kind = "release"
               /\ UNCHANGED <<stage, call>>
  BY DEF RunRelease
<1>2. /\ Queued' \subseteq Queued /\ Queued \subseteq Queued' \cup {k}
      /\ k \in Queued
  BY <1>1, QueuedTail
<1>3. Queued \subseteq Epochs
  BY DEF Queued, TypeOK, WorkTyped, Jobs
<1>4. /\ refs'[k] = refs[k] \ {"box"} /\ \A j \in Epochs \ {k} : refs'[j] = refs[j]
  BY <1>1, <1>2, <1>3, Dropped DEF TypeOK
<1>5. box'[k] = box[k] \ {"job"} /\ \A j \in Epochs \ {k} : box'[j] = box[j]
  BY <1>1, <1>2, <1>3 DEF TypeOK, RegistryTyped
<1>6. \A d \in Calls : /\ Releasing(d)' <=> Releasing(d)
                       /\ Releasing(d) => call[d].epoch \in Epochs
  BY <1>1 DEF Releasing, TypeOK, Placed
<1>7. \A d \in Calls : call[d].pc = "release" => call[d].epoch # k
  BY <1>2 DEF Boxed, QueuedLeft
<1>8. BoxShared'
  BY <1>4, <1>5 DEF Boxed, BoxShared
<1>9. JobQueued'
  BY <1>2, <1>5 DEF Boxed, JobQueued
<1>10. CallbackRuns'
  BY <1>1, <1>5, <1>6 DEF Boxed, CallbackRuns
<1>11. Unposted'
  BY <1>1, <1>4, <1>5, <1>6, <1>7 DEF Boxed, Unposted, Releasing
<1>12. Posted'
  BY <1>1, <1>4, <1>5, <1>6 DEF Boxed, Posted, Releasing
<1>13. ReleasedLeft' /\ OneCallback'
  BY <1>1, <1>6, LeftForGood DEF Boxed, ReleasedLeft, OneCallback
<1>14. QueuedLeft'
  BY <1>1, <1>2, <1>3, LeftForGood DEF Boxed, QueuedLeft
<1> QED  BY <1>8, <1>9, <1>10, <1>11, <1>12, <1>13, <1>14 DEF Boxed

(* The stopped pump drops the jobs, and their shares of the boxes.         *)
LEMMA BoxedPumpStop ==
  ASSUME TypeOK, Books, [Next]_vars, Boxed, PumpStop
  PROVE  Boxed'
<1>1. /\ queue' = <<>> /\ stage' = "stopped" /\ UNCHANGED call
      /\ \A k \in Epochs : box'[k] = IF k \in Queued THEN box[k] \ {"job"} ELSE box[k]
      /\ Drop("box", {k \in Queued : box[k] = {"job"}}, "main")
  BY DEF PumpStop, Queued
<1>2. \A k \in Epochs : /\ k \in Queued /\ box[k] = {"job"} => refs'[k] = refs[k] \ {"box"}
                        /\ ~(k \in Queued /\ box[k] = {"job"}) => refs'[k] = refs[k]
  BY <1>1, Dropped DEF TypeOK
<1>3. Queued' = {}
  BY <1>1 DEF Queued
<1>4. \A d \in Calls : /\ Releasing(d)' <=> Releasing(d)
                       /\ Releasing(d) => call[d].epoch \in Epochs
  BY <1>1 DEF Releasing, TypeOK, Placed
<1>5. BoxShared'
  <2> SUFFICES ASSUME NEW j \in Epochs, "box" \in refs'[j] PROVE box'[j] # {}
    BY DEF BoxShared
  <2>1. "box" \in refs[j] /\ ~(j \in Queued /\ box[j] = {"job"})
    BY <1>2
  <2>2. box[j] # {}
    BY <2>1 DEF Boxed, BoxShared
  <2> QED  BY <1>1, <2>1, <2>2
<1>6. JobQueued'
  BY <1>1, <1>3 DEF Boxed, JobQueued
<1>7. CallbackRuns'
  BY <1>1, <1>4 DEF Boxed, CallbackRuns
<1>8. Unposted'
  <2> SUFFICES ASSUME NEW d \in Calls, call[d].pc = "release"
               PROVE  box'[call[d].epoch] = {"callback"} /\ "box" \in refs'[call[d].epoch]
    BY <1>1 DEF Unposted
  <2>1. /\ call[d].epoch \in Epochs /\ box[call[d].epoch] = {"callback"}
        /\ "box" \in refs[call[d].epoch]
    BY <1>4 DEF Boxed, Unposted, Releasing
  <2> QED  BY <1>1, <1>2, <2>1
<1>9. Posted' /\ QueuedLeft'
  BY <1>1, <1>3 DEF Posted, QueuedLeft
<1>10. ReleasedLeft' /\ OneCallback'
  BY <1>1, <1>4, LeftForGood DEF Boxed, ReleasedLeft, OneCallback
<1> QED  BY <1>5, <1>6, <1>7, <1>8, <1>9, <1>10 DEF Boxed

LEMMA BoxedNext == TypeOK /\ Books /\ Boxed /\ [Next]_vars => Boxed'
  BY BoxSteps, BoxedRests, BoxedFinished, BoxedPostRelease, BoxedUnbox, BoxedRunRelease,
     BoxedPumpStop

LEMMA BoxedInit == Init => Boxed
<1> SUFFICES ASSUME Init PROVE Boxed
  OBVIOUS
<1>1. Queued = {} /\ \A c \in Calls : ~Releasing(c) /\ call[c].pc = "new"
  BY DEF Init, Queued, Releasing
<1>2. \A k \in Epochs : refs[k] = {} /\ box[k] = {}
  BY DEF Init
<1> QED
  BY <1>1, <1>2 DEF Boxed, BoxShared, JobQueued, CallbackRuns, Unposted, Posted, ReleasedLeft,
                    OneCallback, QueuedLeft

----------------------------------------------------------------------------
(* Lifetime: what is referred to lives, what is not is destroyed           *)

Alive == \A k \in Epochs : k <= epoch => (gone[k] = "no" <=> refs[k] # {})

(* A pump thread refers to clients only while it runs a job. *)
BusyHold == \A p \in Pumps, k \in Epochs : p \in refs[k] => pc[p] # "idle"

Held == Alive /\ BusyHold

(* The last reference dropped is the client's end. *)
LEMMA AliveDrop ==
  ASSUME TypeOK, Alive, UNCHANGED epoch, NEW who, NEW K, NEW kind, kind # "no",
         Drop(who, K, kind)
  PROVE  Alive'
<1> SUFFICES ASSUME NEW k \in Epochs, k <= epoch
             PROVE  gone'[k] = "no" <=> refs'[k] # {}
  BY DEF Alive
<1>1. /\ gone[k] = "no" <=> refs[k] # {}
      /\ k \notin K => refs'[k] = refs[k]
      /\ k \in K => refs'[k] = refs[k] \ {who}
      /\ gone'[k] = IF k \in K /\ refs[k] = {who} THEN kind ELSE gone[k]
  BY Dropped DEF Alive, TypeOK
<1>2. CASE k \in K /\ refs[k] = {who}
  BY <1>1, <1>2
<1>3. CASE ~(k \in K /\ refs[k] = {who})
  BY <1>1, <1>3
<1> QED  BY <1>2, <1>3

(* References that only move keep their client alive. *)
LEMMA AliveMoved ==
  ASSUME Alive, UNCHANGED <<epoch, gone>>,
         \A k \in Epochs : refs'[k] = {} <=> refs[k] = {}
  PROVE  Alive'
  BY DEF Alive

(* What the registry has in a slot is alive, and so is a client to come.   *)
LEMMA SlotAlive ==
  ASSUME TypeOK, Books, Alive, NEW k \in Epochs, slots[k].has \/ k > epoch \/ refs[k] # {}
  PROVE  gone[k] = "no"
<1>1. epoch \in Int /\ k \in Int
  BY DEF TypeOK, RegistryTyped, Epochs
<1>2. CASE k > epoch
  BY <1>2 DEF Books, Unmade
<1>3. CASE k <= epoch
  <2>1. slots[k].has => "slot" \in refs[k]
    BY DEF Books, SlotsHold
  <2>2. refs[k] # {}
    BY <1>1, <1>3, <2>1
  <2> QED  BY <1>3, <2>2 DEF Alive
<1> QED  BY <1>1, <1>2, <1>3

LEMMA AliveRegistry ==
  ASSUME TypeOK, Books, Alive, NEW p \in Pumps,
         Replace(p) \/ BindLease(p) \/ \E c \in Calls : Invoke(p, c)
  PROVE  Alive'
<1> USE DEF TypeOK
<1>1. CASE UNCHANGED <<epoch, refs, gone>>
  BY <1>1, AliveMoved
<1>2. /\ epoch \in Int /\ \A k \in Epochs : k \in Int
      /\ \A k \in Epochs : slots[k].has => refs[k] # {}
  BY DEF RegistryTyped, Epochs, Books, SlotsHold
<1>3. ASSUME NEW c \in Calls, Invoke(p, c) PROVE Alive'
  <2>1. CASE Closed
    BY <1>1, <1>3, <2>1 DEF Invoke, registry
  <2>2. CASE ~Closed
    <3>1. PICK X \in SUBSET retired :
            refs' = [j \in Epochs |->
                      IF j \in X THEN (refs[j] \ {"slot"}) \cup {p}
                      ELSE IF j = Current THEN refs[j] \cup {"slot", p} ELSE refs[j]]
      BY <1>3, <2>2, InvokeDoes
    <3>2. /\ epoch' = Current /\ UNCHANGED gone
          /\ Current \in Epochs /\ Current >= epoch /\ (epoch # 0 => Current = epoch)
      BY <1>3, <2>2, CurrentMade DEF Invoke
    <3>3. \A j \in Epochs : j \in retired \/ j = epoch => slots[j].has
      BY <2>2 DEF Books, OpenHolds
    <3> SUFFICES ASSUME NEW k \in Epochs, k <= epoch'
                 PROVE  gone'[k] = "no" <=> refs'[k] # {}
      BY DEF Alive
    <3>4. CASE k \in X \/ k = Current
      <4>1. refs'[k] # {}
        BY <3>1, <3>4
      <4>2. slots[k].has \/ k > epoch
        BY <1>2, <3>2, <3>3, <3>4, CurrentMade DEF Current
      <4> QED  BY <3>2, <4>1, <4>2, SlotAlive
    <3>5. CASE ~(k \in X \/ k = Current)
      <4>1. k <= epoch
        BY <1>2, <3>2, <3>5 DEF Current, Epochs
      <4> QED  BY <3>1, <3>2, <3>5, <4>1 DEF Alive
    <3> QED  BY <3>4, <3>5
  <2> QED  BY <2>1, <2>2
<1>4. CASE BindLease(p)
  <2>1. CASE Closed
    BY <1>1, <1>4, <2>1 DEF BindLease, registry
  <2>2. CASE ~Closed
    <3>1. \A j \in Epochs : refs'[j] = IF j = Current THEN refs[j] \cup {"slot", p} ELSE refs[j]
      BY <1>4, <2>2, BindLeaseDoes
    <3>2. /\ epoch' = Current /\ UNCHANGED gone
          /\ Current \in Epochs /\ Current >= epoch /\ (epoch # 0 => Current = epoch)
      BY <1>4, <2>2, CurrentMade DEF BindLease
    <3>3. \A j \in Epochs : j = epoch => slots[j].has
      BY <2>2 DEF Books, OpenHolds
    <3> SUFFICES ASSUME NEW k \in Epochs, k <= epoch'
                 PROVE  gone'[k] = "no" <=> refs'[k] # {}
      BY DEF Alive
    <3>4. CASE k = Current
      <4>1. refs'[k] # {}
        BY <3>1, <3>4
      <4>2. slots[k].has \/ k > epoch
        BY <1>2, <3>2, <3>3, <3>4 DEF Current
      <4> QED  BY <3>2, <4>1, <4>2, SlotAlive
    <3>5. CASE k # Current
      <4>1. k <= epoch
        BY <1>2, <3>2, <3>5 DEF Current, Epochs
      <4> QED  BY <3>1, <3>2, <3>5, <4>1 DEF Alive
    <3> QED  BY <3>4, <3>5
  <2> QED  BY <2>1, <2>2
<1>5. CASE Replace(p)
  <2>1. CASE epoch' = epoch
    <3>1. UNCHANGED <<refs, gone>>
      BY <1>5, <2>1 DEF Replace, registry, RegistryTyped
    <3> QED  BY <1>1, <2>1, <3>1
  <2>2. CASE epoch' # epoch
    <3>1. ~Closed /\ epoch \in Epochs /\ epoch + 1 \in Epochs /\ epoch' = epoch + 1 /\ UNCHANGED gone
      BY <1>5, <2>2, ReplaceDoes
    <3>2. PICK X \in SUBSET retired :
            refs' = [j \in Epochs |->
                      IF j \in X \/ (j = epoch /\ Idle(epoch)) THEN (refs[j] \ {"slot"}) \cup {p}
                      ELSE IF j = epoch + 1 THEN {"slot"} ELSE refs[j]]
      BY <1>5, <2>2, ReplaceDoes
    <3>3. \A j \in Epochs : j \in retired \/ j = epoch => slots[j].has
      BY <3>1 DEF Books, OpenHolds
    <3> SUFFICES ASSUME NEW k \in Epochs, k <= epoch'
                 PROVE  gone'[k] = "no" <=> refs'[k] # {}
      BY DEF Alive
    <3>4. CASE k \in X \/ k = epoch \/ k = epoch + 1
      <4>1. slots[k].has \/ k > epoch
        BY <1>2, <3>3, <3>4
      <4>2. refs'[k] # {}
        <5>1. k # epoch + 1 => refs[k] # {}
          BY <1>2, <3>3, <3>4
        <5> QED  BY <3>2, <5>1
      <4> QED  BY <3>1, <4>1, <4>2, SlotAlive
    <3>5. CASE ~(k \in X \/ k = epoch \/ k = epoch + 1)
      <4>1. k <= epoch
        BY <1>2, <3>1, <3>5
      <4> QED  BY <3>1, <3>2, <3>5, <4>1 DEF Alive
    <3> QED  BY <3>4, <3>5
  <2> QED  BY <2>1, <2>2
<1> QED  BY <1>3, <1>4, <1>5

LEMMA AliveNext ==
  ASSUME TypeOK, Books, Boxed, Alive, [Next]_vars
  PROVE  Alive'
<1>1. CASE UNCHANGED <<epoch, refs, gone>>
  BY <1>1, AliveMoved
<1>2. CASE UNCHANGED vars \/ Elsewhere
  BY <1>1, <1>2, ElsewhereLeaves DEF vars, registry
<1>3. ASSUME NEW p \in Pumps, Dropping(p) PROVE Alive'
  <2>1. UNCHANGED epoch /\ \E K : Drop(p, K, "pump")
    BY <1>3, DroppingDoes
  <2> QED  BY <2>1, AliveDrop
<1>4. ASSUME NEW p \in Pumps, RunRelease(p) PROVE Alive'
  <2>1. UNCHANGED epoch /\ \E k : Drop("box", {k}, "pump")
    BY <1>4 DEF RunRelease
  <2> QED  BY <2>1, AliveDrop
<1>5. ASSUME NEW c \in Calls, Finished(c) PROVE Alive'
  <2>1. PICK k \in Epochs : k = call[c].epoch /\ gone[k] = "no"
    BY <1>5, FinishedDoes
  <2>2. UNCHANGED <<epoch, gone>>
    BY <1>5 DEF Finished
  <2>3. CASE UNCHANGED refs
    BY <1>1, <2>2, <2>3
  <2>4. CASE LastAnswer(k)
    <3>1. refs' = [refs EXCEPT ![k] = (@ \ {"slot"}) \cup {"box"}]
      BY <1>5, <2>1, <2>4 DEF Finished
    <3>2. /\ \A j \in Epochs \ {k} : refs'[j] = refs[j]
          /\ refs'[k] # {}
      BY <3>1 DEF TypeOK, RegistryTyped
    <3> QED  BY <2>1, <2>2, <3>2 DEF Alive
  <2> QED  BY <1>5, <2>1, <2>3, <2>4 DEF Finished
<1>6. ASSUME NEW c \in Calls, PostRelease(c) PROVE Alive'
  <2>1. PICK k \in Epochs : k = call[c].epoch /\ "box" \in refs[k]
    BY <1>6 DEF PostRelease, TypeOK, Placed, Boxed, Unposted
  <2>2. UNCHANGED <<epoch, gone>>
    BY <1>6 DEF PostRelease
  <2>3. CASE UNCHANGED refs
    BY <1>1, <2>2, <2>3
  <2>4. CASE refs' = [refs EXCEPT ![k] = (@ \ {"box"}) \cup {"unreleased"}]
    <3>1. \A j \in Epochs : refs'[j] = {} <=> refs[j] = {}
      BY <2>1, <2>4 DEF TypeOK, RegistryTyped
    <3> QED  BY <2>2, <3>1, AliveMoved
  <2> QED  BY <1>6, <2>1, <2>3, <2>4 DEF PostRelease
<1>7. ASSUME NEW c \in Calls, Unbox(c) PROVE Alive'
  <2>1. /\ UNCHANGED epoch
        /\ Drop("box", {call[c].epoch}, "callback") \/ UNCHANGED <<refs, gone>>
    BY <1>7 DEF Unbox
  <2> QED  BY <1>1, <2>1, AliveDrop
<1>8. CASE HubClear
  BY <1>1, <1>8 DEF HubClear, registry
<1>9. CASE Close
  <2>1. /\ UNCHANGED <<epoch, gone>>
        /\ \A j \in Epochs : refs'[j] = {} <=> refs[j] = {}
    BY <1>9 DEF Close
  <2> QED  BY <2>1, AliveMoved
<1>10. CASE CloseDrop \/ PumpStop
  <2>1. UNCHANGED epoch /\ \E who, K : Drop(who, K, "main")
    BY <1>10 DEF CloseDrop, PumpStop
  <2> QED  BY <2>1, AliveDrop
<1> QED
  BY <1>2, <1>3, <1>4, <1>5, <1>6, <1>7, <1>8, <1>9, <1>10, Steps, AliveRegistry

(* A pump thread ends its job in one way only. *)
LEMMA IdleSteps ==
  ASSUME TypeOK, [Next]_vars, NEW q \in Pumps, pc'[q] = "idle", pc[q] # "idle"
  PROVE  ReturnJob(q)
<1>1. CASE UNCHANGED pump
  BY <1>1 DEF pump
<1>2. ASSUME NEW p \in Pumps, PumpActs(p) PROVE ReturnJob(q)
  <2>1. p = q
    BY <1>2, PumpMoves DEF Moved
  <2>2. pc \in [Pumps -> PumpPcs]
    BY DEF TypeOK, WorkTyped
  <2>3. ASSUME RunRelease(q) \/ Replace(q) \/ DropExpired(q) \/ InvokeAsync(q) \/ DropDying(q)
               \/ Retire(q) \/ ResetBaseline(q) \/ \E c \in Calls : Invoke(q, c)
        PROVE  FALSE
    BY <2>2, <2>3 DEF RunRelease, Replace, DropExpired, InvokeAsync, DropDying, Retire,
                      ResetBaseline, Invoke, pump
  <2>4. ASSUME Rebind(q) \/ BindNext(q) \/ BindsDone(q) \/ BindLease(q) \/ Unlease(q) \/ WatchClaim(q)
               \/ WatchInstall(q) \/ BindReread(q) \/ BindAgain(q)
        PROVE  FALSE
    BY <2>2, <2>4 DEF Rebind, BindNext, BindsDone, BindLease, Unlease, WatchClaim, WatchInstall, BindReread,
                      BindAgain, Bound
  <2>5. ASSUME NEW e \in Events, Add(q, e) \/ BindCheck(q, e) \/ BindRefused(q, e) \/ BindSwap(q, e) PROVE FALSE
    BY <2>2, <2>5 DEF Add, BindCheck, BindRefused, BindSwap, Bound
  <2> QED  BY <1>2, <2>1, <2>3, <2>4, <2>5 DEF PumpActs, Dropping
<1> QED  BY <1>1, <1>2, PumpSteps

(* ... and takes references only into a job. *)
LEMMA RefSteps ==
  ASSUME TypeOK, [Next]_vars, NEW q \in Pumps, NEW k \in Epochs, q \in refs'[k], q \notin refs[k]
  PROVE  pc'[q] # "idle"
<1>1. q \notin Holders
  BY PumpsApart
<1>2. ASSUME NEW who, NEW K, NEW kind, Drop(who, K, kind) PROVE FALSE
  <2>1. refs'[k] \in {refs[k], refs[k] \ {who}}
    BY <1>2, Dropped DEF TypeOK
  <2> QED  BY <2>1
<1>3. CASE UNCHANGED vars \/ Elsewhere \/ HubClear
  BY <1>3, ElsewhereLeaves DEF vars, registry, HubClear
<1>4. ASSUME NEW p \in Pumps, Dropping(p) \/ RunRelease(p) PROVE FALSE
  BY <1>2, <1>4, DroppingDoes DEF RunRelease
<1>5. CASE CloseDrop \/ PumpStop
  BY <1>2, <1>5 DEF CloseDrop, PumpStop
<1>6. ASSUME NEW c \in Calls, Unbox(c) PROVE FALSE
  BY <1>2, <1>6 DEF Unbox
<1>7. ASSUME NEW c \in Calls, Finished(c) \/ PostRelease(c) PROVE FALSE
  <2>1. \/ UNCHANGED refs
        \/ refs' = [refs EXCEPT ![call[c].epoch] = (@ \ {"slot"}) \cup {"box"}]
        \/ refs' = [refs EXCEPT ![call[c].epoch] = (@ \ {"box"}) \cup {"unreleased"}]
    BY <1>7 DEF Finished, PostRelease
  <2> QED  BY <1>1, <2>1 DEF Holders, TypeOK, RegistryTyped
<1>8. CASE Close
  BY <1>1, <1>8 DEF Close, Holders
<1>9. ASSUME NEW p \in Pumps,
             Replace(p) \/ BindLease(p) \/ \E c \in Calls : Invoke(p, c)
      PROVE  pc'[q] # "idle"
  <2>1. ~UNCHANGED registry
    BY DEF registry
  <2>2. pc'[p] \in {"dying", "check", "expire"}
    BY <1>9, <2>1 DEF Replace, BindLease, Invoke, TypeOK, WorkTyped
  <2>3. p = q
    <3>1. CASE \E c \in Calls : Invoke(p, c)
      BY <1>1, <2>1, <3>1 DEF Invoke, Holders
    <3>2. CASE BindLease(p)
      <4>1. refs' = [refs EXCEPT ![Current] = @ \cup {"slot", p}]
        BY <2>1, <3>2 DEF BindLease
      <4> QED  BY <1>1, <4>1 DEF Holders, TypeOK, RegistryTyped
    <3>3. CASE Replace(p)
      BY <1>1, <2>1, <3>3 DEF Replace, Holders
    <3> QED  BY <1>9, <3>1, <3>2, <3>3
  <2> QED  BY <2>2, <2>3
<1> QED  BY <1>3, <1>4, <1>5, <1>6, <1>7, <1>8, <1>9, Steps

LEMMA HeldNext == TypeOK /\ Books /\ Boxed /\ Held /\ [Next]_vars => Held'
<1> SUFFICES ASSUME TypeOK, Books, Boxed, Held, [Next]_vars PROVE Held'
  OBVIOUS
<1>1. Alive'
  BY AliveNext DEF Held
<1>2. BusyHold'
  <2> SUFFICES ASSUME NEW q \in Pumps, NEW k \in Epochs, q \in refs'[k], pc'[q] = "idle"
               PROVE  FALSE
    BY DEF BusyHold
  <2>1. q \in refs[k] /\ pc[q] # "idle"
    BY RefSteps DEF Held, BusyHold
  <2>2. ReturnJob(q)
    BY <2>1, IdleSteps
  <2>3. refs'[k] = refs[k] \ {q}
    BY <2>1, <2>2, Dropped DEF ReturnJob, TypeOK
  <2> QED  BY <2>3
<1> QED  BY <1>1, <1>2 DEF Held

LEMMA HeldInit == Init => Held
  BY DEF Init, Held, Alive, BusyHold, Epochs

----------------------------------------------------------------------------
(* What the registry promises *)

(* The registry's invariant: its books are right, its boxes are shared as  *)
(* they should be, and its clients live as long as they are referred to.   *)
Registry == TypeOK /\ Books /\ Boxed /\ Held

LEMMA RegistryAlways == Spec => []Registry
<1>1. Init => Registry
  BY InitType, BooksInit, BoxedInit, HeldInit DEF Registry
<1>2. Registry /\ [Next]_vars => Registry'
  BY NextType, BooksNext, BoxedNext, HeldNext DEF Registry
<1> QED  BY <1>1, <1>2, PTL DEF Spec

(* Calls already sent on a replaced client are still answered: invoke and  *)
(* finished keep the client in its slot or in m_retired while the call is  *)
(* out, so only its deadline or close takes it.                            *)
THEOREM CallsAreAnswered == Spec => []CallsOutliveReplacement
<1>1. Registry => CallsOutliveReplacement
  <2> SUFFICES ASSUME Registry, NEW c \in Calls, call[c].pc = "sent", ~Closed,
                      call[c].epoch \notin expired
               PROVE  gone[call[c].epoch] = "no"
    BY DEF CallsOutliveReplacement
  <2>1. PICK k \in Epochs : k = call[c].epoch
    BY DEF Registry, TypeOK, Placed
  <2>2. slots[k].inFlight > 0
    <3>1. c \in Out(k) /\ IsFiniteSet(Out(k))
      BY <2>1 DEF Out, Registry, Books, Counted
    <3>2. Cardinality(Out(k)) \in Nat /\ Cardinality(Out(k)) # 0
      BY <3>1, FS_CardinalityType, FS_EmptySet
    <3> QED  BY <3>2 DEF Registry, Books, Counted
  <2>3. slots[k].has
    BY <2>1, <2>2 DEF Registry, Books, InFlightHeld, OpenHolds
  <2> QED  BY <2>1, <2>3, SlotAlive DEF Registry, Held
<1> QED  BY <1>1, RegistryAlways, PTL

(* Every replaced client is destroyed: once no callback, no pump thread    *)
(* and no job is left, what lives is the current client, those that wait   *)
(* for calls, and those that close or a refused post answers for.          *)
THEOREM NoneIsKept == Spec => []ReplacedAreReleased
<1>1. Registry => ReplacedAreReleased
  <2> SUFFICES ASSUME Registry, AtRest, NEW k \in 1..epoch, gone[k] = "no",
                      refs[k] \cap {"unreleased", "main"} = {}
               PROVE  /\ stage \in {"running", "hubCleared"}
                      /\ k = epoch \/ slots[k].inFlight > 0
    BY DEF ReplacedAreReleased
  <2>1. k \in Epochs /\ k <= epoch
    <3>1. epoch \in 0..MaxEpoch /\ MaxEpoch \in Nat
      BY ClientsAssumption DEF Registry, TypeOK, RegistryTyped
    <3> QED  BY <3>1 DEF Epochs
  <2>2. refs[k] # {} /\ refs[k] \subseteq Holders \cup Pumps
    BY <2>1 DEF Registry, Held, Alive, TypeOK, RegistryTyped
  <2>3. refs[k] \cap Pumps = {}
    BY <2>1 DEF Registry, Held, BusyHold, AtRest
  <2>4. "box" \notin refs[k]
    <3>1. Queued = {}
      BY DEF Queued, AtRest
    <3>2. ~\E c \in Calls : Releasing(c) /\ call[c].epoch = k
      BY <2>1 DEF AtRest, InCallback, Answering, Releasing
    <3>3. box[k] = {}
      BY <2>1, <3>1, <3>2
         DEF Registry, Boxed, JobQueued, CallbackRuns, TypeOK, RegistryTyped
    <3> QED  BY <2>1, <3>3 DEF Registry, Boxed, BoxShared
  <2>5. slots[k].has
    BY <2>1, <2>2, <2>3, <2>4 DEF Holders, Registry, Books, SlotsHold
  <2>6. ~Closed /\ (k = epoch \/ k \in retired)
    BY <2>1, <2>5 DEF Registry, Books, OpenHolds
  <2> QED  BY <2>6 DEF Closed, Registry, TypeOK, RegistryTyped, Books, RetiredWait
<1> QED  BY <1>1, RegistryAlways, PTL

(* As long as the pump runs the releases it has accepted, no client is     *)
(* destroyed inside one of its own callbacks: the job's share of the box   *)
(* outlasts the callback's.                                                *)
THEOREM ReleasesOnThePump == Spec => []ReleasedOnPump
<1>1. Init => ReleasedOnPump
  BY DEF Init, ReleasedOnPump, NeverInOwnCallback
<1>2. Registry /\ ReleasedOnPump /\ [Next]_vars => ReleasedOnPump'
  <2> SUFFICES ASSUME Registry, ReleasedOnPump, [Next]_vars, stage' # "stopped",
                      NEW k \in Epochs
               PROVE  gone'[k] # "callback"
    BY DEF ReleasedOnPump, NeverInOwnCallback
  <2> USE DEF Registry
  <2>1. stage # "stopped" => gone[k] # "callback"
    BY DEF ReleasedOnPump, NeverInOwnCallback
  <2>2. CASE UNCHANGED <<gone, stage>>
    BY <2>1, <2>2
  <2>3. ASSUME UNCHANGED stage, NEW who, NEW K, NEW kind, kind # "callback", Drop(who, K, kind)
        PROVE  gone'[k] # "callback"
    BY <2>1, <2>3, Dropped DEF TypeOK
  <2>4. CASE UNCHANGED vars \/ Elsewhere
    BY <2>2, <2>4, ElsewhereLeaves DEF vars, registry
  <2>5. ASSUME NEW p \in Pumps, Dropping(p) \/ RunRelease(p) PROVE gone'[k] # "callback"
    BY <2>3, <2>5, DroppingDoes DEF RunRelease
  <2>6. ASSUME NEW p \in Pumps, Replace(p) \/ BindLease(p) \/ \E c \in Calls : Invoke(p, c)
        PROVE  UNCHANGED <<gone, stage>>
    BY <2>6 DEF Replace, BindLease, Invoke, registry
  <2>7. ASSUME NEW c \in Calls, Finished(c) \/ PostRelease(c) PROVE UNCHANGED <<gone, stage>>
    BY <2>7 DEF Finished, PostRelease
  <2>8. ASSUME NEW c \in Calls, Unbox(c) PROVE UNCHANGED <<gone, stage>>
    <3>1. UNCHANGED stage /\ call[c].pc = "unbox"
      BY <2>8 DEF Unbox
    <3>2. \/ "job" \in box[call[c].epoch]
          \/ "box" \notin refs[call[c].epoch]
      BY <3>1 DEF Boxed, Posted
    <3> QED  BY <2>8, <3>1, <3>2 DEF Unbox
  <2>9. CASE HubClear \/ Close
    BY <2>1, <2>9 DEF HubClear, Close, registry
  <2>10. CASE CloseDrop
    <3>1. stage # "stopped" /\ \E K : Drop("main", K, "main")
      BY <2>10 DEF CloseDrop
    <3> QED  BY <2>1, <3>1, Dropped DEF TypeOK
  <2>11. CASE PumpStop
    BY <2>11 DEF PumpStop
  <2> QED  BY <2>2, <2>4, <2>5, <2>6, <2>7, <2>8, <2>9, <2>10, <2>11, Steps
<1> QED  BY <1>1, <1>2, RegistryAlways, PTL DEF Spec

----------------------------------------------------------------------------
(* The hub: every upstream subscription follows the current client         *)

(* Leases, handles and the watcher never run ahead of the registry, and    *)
(* clients that were subscribed to, or are about to be, never ahead of the *)
(* watcher.                                                                *)
LeasesBehind == \A p \in Pumps : lease[p] <= epoch
WatchBehind == watch.installed <= watch.accept /\ watch.accept <= epoch
HandlesWatched ==
  \A e \in Events : /\ ups[e] # NoUp => ups[e] <= watch.installed
                    /\ refused[e] <= watch.installed
SubscribeWatched ==
  \A p \in Pumps : pc[p] \in {"install", "subscribe"} => lease[p] <= watch.installed

(* The watcher the hub has claimed is set, or about to be. *)
WatchSet ==
  \/ watch.installed = 0 \/ watch.installed \in watchers
  \/ \E p \in Pumps : pc[p] = "install" /\ lease[p] = watch.installed

(* A pump thread binds one Up at a time, and only inside bind. *)
Inside(p) ==
  /\ pc[p] \notin {"next", "unlease"} \cup Binding => todo[p] = {} /\ adding[p] = {}
  /\ pc[p] \notin Binding => binding[p] = {}
  /\ \A e, f \in binding[p] : e = f
  /\ dead[p] \subseteq todo[p] \cup binding[p]
InBind == \A p \in Pumps : Inside(p)

(* Pump thread p is yet to bind e, as it is in m_up, to the current client. *)
Owes(p, e) ==
  \/ pc[p] \in {"dying", "retire", "reset", "rebind"}
  \/ /\ e \notin dead[p]
     /\ \/ e \in todo[p]
        \/ e \in binding[p] /\ pc[p] = "lease"
        \/ /\ e \in binding[p] /\ pc[p] \in {"check", "watch", "install", "subscribe"}
           /\ lease[p] = epoch

(* An Up that the current client neither serves nor has refused is owed by *)
(* someone; one that no client serves is being added.                      *)
Settled(e) == epoch # 0 /\ (ups[e] = epoch \/ refused[e] = epoch)
Followed ==
  ~HubClosed => \A e \in Events : ups[e] # NoUp => Settled(e) \/ \E p \in Pumps : Owes(p, e)
Added == ~HubClosed => \A e \in Events : ups[e] = 0 => \E p \in Pumps : e \in adding[p]

Hub ==
  /\ LeasesBehind /\ WatchBehind /\ HandlesWatched /\ SubscribeWatched /\ WatchSet
  /\ InBind /\ Followed /\ Added

Numbers ==
  /\ epoch \in Nat /\ watch.installed \in Nat /\ watch.accept \in Nat
  /\ \A p \in Pumps : lease[p] \in Nat
  /\ \A e \in Events : ups[e] \in Nat /\ refused[e] \in Nat
  /\ \A p \in Pumps : pc[p] \in {"expire", "send"} \cup Leased => lease[p] > 0
  /\ MaxEpoch \in Nat /\ epoch <= MaxEpoch /\ \A p \in Pumps : lease[p] <= MaxEpoch

LEMMA HubNumbers == TypeOK => Numbers
<1> SUFFICES ASSUME TypeOK PROVE Numbers
  OBVIOUS
<1>1. /\ epoch \in 0..MaxEpoch /\ MaxEpoch \in Nat /\ lease \in [Pumps -> 0..MaxEpoch]
      /\ ups \in [Events -> 0..NoUp] /\ NoUp \in Nat /\ refused \in [Events -> 0..MaxEpoch]
      /\ watch \in [installed : 0..MaxEpoch, accept : 0..MaxEpoch]
  BY ClientsAssumption DEF TypeOK, RegistryTyped, HubTyped, WorkTyped, NoUp
<1>2. watch.installed \in 0..MaxEpoch /\ watch.accept \in 0..MaxEpoch
  BY <1>1
<1>3. \A p \in Pumps : pc[p] \in {"expire", "send"} \cup Leased => lease[p] \in 1..MaxEpoch
  BY DEF TypeOK, Placed, Epochs
<1> QED  BY <1>1, <1>2, <1>3 DEF Numbers

LEMMA HubNumbersNext == TypeOK' => Numbers'
  BY HubNumbers, PTL

(* Before its first client the registry has nobody with a lease: what is   *)
(* owed then is owed by threads that have yet to lease.                    *)
OthersRest(p) ==
  \A q \in Pumps \ {p} : /\ pc'[q] = pc[q] /\ lease'[q] = lease[q] /\ todo'[q] = todo[q]
                         /\ binding'[q] = binding[q] /\ adding'[q] = adding[q]
                         /\ dead'[q] = dead[q]
SameOrFirst == epoch' = epoch \/ (epoch = 0 /\ epoch' \in Nat)

(* Only the end of an add takes an Up from another thread's hands. *)
LEMMA Others == ASSUME TypeOK, NEW p \in Pumps, PumpActs(p), ~BindsDone(p) PROVE OthersRest(p)
<1>1. Moved(p)
  BY PumpMoves
<1>2. dead \in [Pumps -> SUBSET Events]
  BY DEF TypeOK, WorkTyped
<1>3. CASE UNCHANGED dead
  BY <1>1, <1>3 DEF Moved, OthersRest
<1>4. CASE \E D : dead' = [dead EXCEPT ![p] = D]
  BY <1>1, <1>2, <1>4 DEF Moved, OthersRest
<1>5. CASE Dropping(p) \/ RunRelease(p) \/ Replace(p)
  BY <1>3, <1>5
     DEF Dropping, DropExpired, ReturnJob, DropDying, Unlease, BindAgain, RunRelease, Replace, pump, work
<1>6. CASE InvokeAsync(p) \/ Retire(p) \/ ResetBaseline(p) \/ Rebind(p) \/ BindNext(p)
  BY <1>3, <1>6 DEF InvokeAsync, Retire, ResetBaseline, Rebind, BindNext, work
<1>7. CASE BindLease(p) \/ WatchClaim(p) \/ WatchInstall(p) \/ BindReread(p)
  BY <1>3, <1>4, <1>7 DEF BindLease, WatchClaim, WatchInstall, BindReread, Bound, work
<1>8. CASE \E e \in Events : Add(p, e) \/ BindCheck(p, e) \/ BindRefused(p, e) \/ BindSwap(p, e)
  BY <1>3, <1>4, <1>8 DEF Add, BindCheck, BindRefused, BindSwap, Bound
<1>9. CASE \E c \in Calls : Invoke(p, c)
  BY <1>3, <1>9 DEF Invoke, pump, work
<1> QED  BY <1>5, <1>6, <1>7, <1>8, <1>9 DEF PumpActs

LEMMA OwesElsewhere ==
  ASSUME TypeOK, NEW p \in Pumps, OthersRest(p), SameOrFirst,
         NEW q \in Pumps \ {p}, NEW e \in Events, Owes(q, e)
  PROVE  Owes(q, e)'
<1>1. /\ pc'[q] = pc[q] /\ lease'[q] = lease[q] /\ todo'[q] = todo[q]
      /\ binding'[q] = binding[q] /\ dead'[q] = dead[q]
  BY DEF OthersRest
<1>2. pc[q] \in Leased => lease[q] # 0
  BY HubNumbers DEF Numbers
<1>3. {"check", "watch", "install", "subscribe"} \subseteq Leased
  BY DEF Leased
<1> QED  BY <1>1, <1>2, <1>3 DEF Owes, SameOrFirst

(* What thread p's step must leave of the Ups it changes or owed. *)
Follows(p, e) ==
  \/ Owes(p, e)' \/ Settled(e)'
  \/ ups[e] # NoUp /\ ~Owes(p, e) /\ (Settled(e) => Settled(e)')

LEMMA FollowedKept ==
  ASSUME TypeOK, Followed, NEW p \in Pumps, OthersRest(p), SameOrFirst, HubClosed => HubClosed',
         \A e \in Events : ups'[e] # NoUp /\ ~HubClosed => Follows(p, e)
  PROVE  Followed'
<1> SUFFICES ASSUME ~HubClosed', NEW e \in Events, ups'[e] # NoUp
             PROVE  Settled(e)' \/ \E q \in Pumps : Owes(q, e)'
  BY DEF Followed
<1>1. ~HubClosed
  OBVIOUS
<1>2. Follows(p, e)
  BY <1>1
<1>3. CASE ups[e] # NoUp /\ ~Owes(p, e) /\ (Settled(e) => Settled(e)')
  <2>1. Settled(e) \/ \E q \in Pumps : Owes(q, e)
    BY <1>1, <1>3 DEF Followed
  <2>2. ASSUME NEW q \in Pumps, Owes(q, e) PROVE Owes(q, e)'
    <3>1. q # p
      BY <1>3, <2>2
    <3> QED  BY <2>2, <3>1, OwesElsewhere
  <2> QED  BY <1>3, <2>1, <2>2
<1> QED  BY <1>2, <1>3 DEF Follows

(* A step of thread p that changes no handle, neither claims nor sets the  *)
(* watcher, and leaves owed what p owed.                                   *)
LocalMove(p) ==
  /\ OthersRest(p) /\ SameOrFirst /\ UNCHANGED <<ups, refused, watchers, adding>>
  /\ watch'.installed = watch.installed
  /\ watch'.accept >= watch.accept /\ watch'.accept <= epoch'
  /\ HubClosed => HubClosed'
  /\ pc[p] # "install" /\ lease'[p] <= epoch'
  /\ pc'[p] \in {"install", "subscribe"} => lease'[p] <= watch.installed
  /\ Inside(p)'
  /\ \A e \in Events : ups[e] # NoUp /\ ~HubClosed /\ Owes(p, e) => Owes(p, e)' \/ Settled(e)'

LEMMA HubLocal ==
  ASSUME TypeOK, TypeOK', Hub, NEW p \in Pumps, LocalMove(p)
  PROVE  Hub'
<1>1. /\ OthersRest(p) /\ SameOrFirst /\ UNCHANGED <<ups, refused, watchers, adding>>
      /\ watch'.installed = watch.installed
      /\ watch'.accept >= watch.accept /\ watch'.accept <= epoch'
      /\ HubClosed => HubClosed'
      /\ pc[p] # "install" /\ lease'[p] <= epoch'
      /\ pc'[p] \in {"install", "subscribe"} => lease'[p] <= watch.installed
      /\ Inside(p)'
      /\ \A e \in Events : ups[e] # NoUp /\ ~HubClosed /\ Owes(p, e) => Owes(p, e)' \/ Settled(e)'
  BY DEF LocalMove
<1>2. /\ epoch \in Nat /\ watch.installed \in Nat /\ watch.accept \in Nat
      /\ \A q \in Pumps : lease[q] \in Nat
      /\ epoch' \in Nat /\ watch'.accept \in Nat /\ \A q \in Pumps : lease'[q] \in Nat
  BY HubNumbers, HubNumbersNext DEF Numbers
<1>3. epoch' >= epoch
  BY <1>1, <1>2 DEF SameOrFirst
<1>4. \A q \in Pumps : q # p => /\ pc'[q] = pc[q] /\ lease'[q] = lease[q] /\ todo'[q] = todo[q]
                               /\ binding'[q] = binding[q] /\ adding'[q] = adding[q]
                               /\ dead'[q] = dead[q]
  BY <1>1 DEF OthersRest
<1>5. LeasesBehind'
  <2> SUFFICES ASSUME NEW q \in Pumps PROVE lease'[q] <= epoch'
    BY DEF LeasesBehind
  <2>1. q # p => lease'[q] <= epoch
    BY <1>4 DEF Hub, LeasesBehind
  <2> QED  BY <1>1, <1>2, <1>3, <2>1
<1>6. WatchBehind'
  BY <1>1, <1>2 DEF Hub, WatchBehind
<1>7. HandlesWatched'
  BY <1>1 DEF Hub, HandlesWatched
<1>8. SubscribeWatched'
  BY <1>1, <1>4 DEF Hub, SubscribeWatched
<1>9. WatchSet'
  BY <1>1, <1>4 DEF Hub, WatchSet
<1>10. InBind'
  <2> SUFFICES ASSUME NEW q \in Pumps, q # p PROVE Inside(q)'
    BY <1>1 DEF InBind
  <2> QED  BY <1>4 DEF Hub, InBind, Inside
<1>11. Followed'
  <2> SUFFICES ASSUME NEW e \in Events, ups'[e] # NoUp, ~HubClosed PROVE Follows(p, e)
    BY <1>1, FollowedKept DEF Hub
  <2>1. Settled(e) => Settled(e)'
    BY <1>1 DEF Settled, SameOrFirst
  <2> QED  BY <1>1, <2>1 DEF Follows
<1>12. Added'
  BY <1>1 DEF Hub, Added
<1> QED  BY <1>5, <1>6, <1>7, <1>8, <1>9, <1>10, <1>11, <1>12 DEF Hub

(* The steps of pump thread p that move only p, as far as the hub goes. *)
LEMMA HubMoves ==
  ASSUME TypeOK, Hub, NEW p \in Pumps,
         \/ DropExpired(p) \/ InvokeAsync(p) \/ ReturnJob(p) \/ DropDying(p) \/ Retire(p)
         \/ ResetBaseline(p) \/ Rebind(p) \/ BindNext(p) \/ Unlease(p) \/ BindLease(p)
         \/ BindReread(p) \/ BindAgain(p)
         \/ \E e \in Events : BindCheck(p, e)
         \/ \E c \in Calls : Invoke(p, c)
  PROVE  LocalMove(p)
<1>1. /\ pc \in [Pumps -> PumpPcs] /\ lease \in [Pumps -> 0..MaxEpoch]
      /\ todo \in [Pumps -> SUBSET Events] /\ binding \in [Pumps -> SUBSET Events]
      /\ dead \in [Pumps -> SUBSET Events]
  BY DEF TypeOK, WorkTyped
<1>2. OthersRest(p)
  <2>1. PumpActs(p)
    BY DEF PumpActs, Dropping
  <2>2. ASSUME BindsDone(p) PROVE FALSE
    <3>1. pc[p] = "next" /\ todo[p] = {}
      BY <2>2 DEF BindsDone
    <3> QED
      BY <3>1 DEF DropExpired, InvokeAsync, ReturnJob, DropDying, Retire, ResetBaseline, Rebind,
                  BindNext, Unlease, BindLease, BindReread, BindAgain, BindCheck, Invoke
  <2> QED  BY <2>1, <2>2, Others
<1>3. /\ epoch \in Nat /\ lease[p] \in Nat /\ watch.installed \in Nat /\ watch.accept \in Nat
      /\ \A e \in Events : ups[e] \in Nat
      /\ pc[p] \in Leased => lease[p] > 0
      /\ 0 <= epoch /\ lease[p] <= epoch /\ watch.accept >= watch.accept /\ watch.accept <= epoch
      /\ watch.installed <= watch.accept
  BY HubNumbers DEF Numbers, Hub, LeasesBehind, WatchBehind
<1>4. /\ pc[p] \notin {"next", "unlease"} \cup Binding => todo[p] = {} /\ adding[p] = {}
      /\ pc[p] \notin Binding => binding[p] = {}
      /\ \A e, f \in binding[p] : e = f
      /\ dead[p] \subseteq todo[p] \cup binding[p]
  BY DEF Hub, InBind, Inside
<1>5. /\ Leased = {"check", "watch", "install", "subscribe", "reread"}
      /\ Binding = {"check", "watch", "install", "subscribe", "reread", "lease"}
  BY DEF Binding, Leased
<1> DEFINE Still == UNCHANGED <<epoch, ups, refused, watchers, watch, stage, adding>>
<1>6. Still => SameOrFirst /\ (HubClosed => HubClosed')
  BY DEF SameOrFirst, HubClosed
<1>7. CASE DropExpired(p) \/ InvokeAsync(p) \/ ReturnJob(p)
  <2>1. /\ Still /\ UNCHANGED <<todo, binding, dead>>
        /\ pc[p] \in {"expire", "send", "return"} /\ pc'[p] \in {"send", "return", "idle"}
        /\ lease'[p] \in {lease[p], 0}
    BY <1>1, <1>7 DEF DropExpired, InvokeAsync, ReturnJob, hub, work, registry
  <2> QED  BY <1>2, <1>3, <1>4, <1>5, <1>6, <2>1 DEF LocalMove, Inside, Owes
<1>8. CASE DropDying(p)
  <2>1. /\ Still /\ UNCHANGED <<todo, binding, dead, lease>>
        /\ pc[p] = "dying" /\ pc'[p] = "retire"
    BY <1>1, <1>8 DEF DropDying, hub, work
  <2> QED  BY <1>2, <1>3, <1>4, <1>5, <1>6, <2>1 DEF LocalMove, Inside, Owes
<1>9. CASE Retire(p)
  <2>1. /\ UNCHANGED <<epoch, ups, refused, watchers, stage, todo, binding, adding, dead, lease>>
        /\ pc[p] = "retire" /\ pc'[p] = "reset"
    BY <1>1, <1>9 DEF Retire, registry, work
  <2>2. watch'.installed = watch.installed /\ watch'.accept = Max2(watch.accept, lease[p])
    BY <1>9 DEF Retire, TypeOK, HubTyped
  <2>3. watch'.accept >= watch.accept /\ watch'.accept <= epoch
    BY <1>3, <2>2 DEF Max2
  <2> QED
    BY <1>2, <1>3, <1>4, <1>5, <2>1, <2>2, <2>3 DEF LocalMove, Inside, Owes, SameOrFirst, HubClosed
<1>10. CASE ResetBaseline(p)
  <2>1. /\ Still /\ UNCHANGED <<todo, binding, dead, lease>>
        /\ pc[p] = "reset" /\ pc'[p] = "rebind"
    BY <1>1, <1>10 DEF ResetBaseline, hub, work, registry
  <2> QED  BY <1>2, <1>3, <1>4, <1>5, <1>6, <2>1 DEF LocalMove, Inside, Owes
<1>11. CASE Rebind(p)
  <2>1. /\ Still /\ UNCHANGED <<binding, dead>>
        /\ todo'[p] = IF HubClosed THEN {} ELSE {e \in Events : ups[e] # NoUp}
        /\ pc[p] = "rebind" /\ pc'[p] = "next" /\ lease'[p] = 0
    BY <1>1, <1>11 DEF Rebind, hub, registry
  <2>2. dead[p] = {} /\ dead'[p] = {} /\ binding'[p] = {}
    BY <1>4, <1>5, <2>1
  <2>3. Inside(p)'
    BY <1>5, <2>1, <2>2 DEF Inside
  <2> QED  BY <1>2, <1>3, <1>6, <2>1, <2>2, <2>3 DEF LocalMove, Owes
<1>12. CASE BindNext(p)
  <2>1. Still /\ pc[p] = "next" /\ UNCHANGED <<lease, dead>>
    BY <1>12 DEF BindNext, hub, registry
  <2>2. PICK e \in todo[p] : todo'[p] = todo[p] \ {e} /\ binding'[p] = {e} /\ pc'[p] = "lease"
    BY <1>1, <1>12 DEF BindNext
  <2>3. Inside(p)'
    BY <1>4, <1>5, <2>1, <2>2 DEF Inside
  <2>4. \A f \in Events : Owes(p, f) => Owes(p, f)'
    BY <1>4, <1>5, <2>1, <2>2 DEF Owes
  <2> QED  BY <1>2, <1>3, <1>6, <2>1, <2>2, <2>3, <2>4 DEF LocalMove
<1>13. CASE Unlease(p)
  <2>1. /\ Still /\ UNCHANGED <<todo, binding, dead>>
        /\ pc[p] = "unlease" /\ pc'[p] = "next" /\ lease'[p] = 0
    BY <1>1, <1>13 DEF Unlease, hub
  <2> QED  BY <1>2, <1>3, <1>4, <1>5, <1>6, <2>1 DEF LocalMove, Inside, Owes
<1>14. CASE BindLease(p)
  <2>1. /\ UNCHANGED <<ups, refused, watchers, watch, stage, todo, adding>> /\ pc[p] = "lease"
    BY <1>14 DEF BindLease, hub
  <2>2. CASE Closed
    <3>1. /\ UNCHANGED <<epoch, lease>> /\ pc'[p] = "unlease" /\ binding'[p] = {}
          /\ dead'[p] = dead[p] \ binding[p]
      BY <1>1, <1>14, <2>2 DEF BindLease, Bound, registry
    <3>2. HubClosed
      BY <2>2 DEF Closed, HubClosed
    <3> QED  BY <1>2, <1>3, <1>4, <1>5, <1>6, <2>1, <3>1, <3>2 DEF LocalMove, Inside
  <2>3. CASE ~Closed
    <3>1. /\ epoch' = Current /\ lease'[p] = Current /\ pc'[p] = "check"
          /\ UNCHANGED <<binding, dead>>
      BY <1>1, <1>14, <2>3 DEF BindLease
    <3>2. Current \in Nat /\ Current >= epoch /\ (epoch # 0 => Current = epoch)
      BY <1>3 DEF Current
    <3>3. SameOrFirst /\ (HubClosed => HubClosed')
      BY <2>1, <3>1, <3>2 DEF SameOrFirst, HubClosed
    <3>4. Inside(p)'
      BY <1>4, <1>5, <2>1, <3>1 DEF Inside
    <3>5. \A f \in Events : Owes(p, f) => Owes(p, f)'
      BY <1>4, <1>5, <2>1, <3>1 DEF Owes
    <3> QED  BY <1>2, <1>3, <2>1, <3>1, <3>2, <3>3, <3>4, <3>5 DEF LocalMove
  <2> QED  BY <2>2, <2>3
<1>15. CASE BindReread(p)
  <2>1. /\ Still /\ UNCHANGED <<todo, lease>> /\ binding'[p] = {} /\ dead'[p] = dead[p] \ binding[p]
        /\ pc[p] = "reread" /\ pc'[p] = "unlease"
    BY <1>1, <1>15 DEF BindReread, Bound, hub, registry
  <2> QED  BY <1>2, <1>3, <1>4, <1>5, <1>6, <2>1 DEF LocalMove, Inside, Owes
<1>16. CASE BindAgain(p)
  <2>1. /\ Still /\ UNCHANGED <<todo, binding, dead>>
        /\ pc[p] = "reread" /\ pc'[p] = "lease" /\ lease'[p] = 0
    BY <1>1, <1>16 DEF BindAgain, hub
  <2> QED  BY <1>2, <1>3, <1>4, <1>5, <1>6, <2>1 DEF LocalMove, Inside, Owes
<1>17. ASSUME NEW e \in Events, BindCheck(p, e) PROVE LocalMove(p)
  <2>1. /\ Still /\ UNCHANGED <<todo, lease>> /\ pc[p] = "check" /\ e \in binding[p]
    BY <1>17 DEF BindCheck, hub, registry
  <2>2. CASE ~(~Live(p, e) \/ ups[e] >= lease[p])
    <3>1. pc'[p] = "watch" /\ UNCHANGED <<binding, dead>>
      BY <1>1, <1>17, <2>2 DEF BindCheck
    <3> QED  BY <1>2, <1>3, <1>4, <1>5, <1>6, <2>1, <3>1 DEF LocalMove, Inside, Owes
  <2>3. CASE ~Live(p, e) \/ ups[e] >= lease[p]
    <3>1. pc'[p] = "unlease" /\ binding'[p] = {} /\ dead'[p] = dead[p] \ binding[p]
      BY <1>1, <1>17, <2>3 DEF BindCheck, Bound
    <3>2. ASSUME NEW f \in Events, ups[f] # NoUp, ~HubClosed, Owes(p, f)
          PROVE  Owes(p, f)' \/ Settled(f)'
      <4>1. f \notin dead[p]
        BY <2>1, <3>2 DEF Owes
      <4>2. CASE f \in todo[p]
        BY <2>1, <3>1, <4>1, <4>2 DEF Owes
      <4>3. CASE f = e /\ lease[p] = epoch
        <5>1. ups[e] >= lease[p] /\ ups[e] <= watch.installed
          BY <2>3, <3>2, <4>1, <4>3 DEF Live, Hub, HandlesWatched
        <5>2. ups[e] = epoch /\ epoch # 0
          BY <1>3, <1>5, <2>1, <4>3, <5>1
        <5> QED  BY <2>1, <4>3, <5>2 DEF Settled
      <4> QED  BY <1>4, <2>1, <3>2, <4>2, <4>3 DEF Owes
    <3>3. Inside(p)'
      BY <1>4, <1>5, <2>1, <3>1 DEF Inside
    <3> QED  BY <1>2, <1>3, <1>6, <2>1, <3>1, <3>2, <3>3 DEF LocalMove
  <2> QED  BY <2>2, <2>3
<1>18. ASSUME NEW c \in Calls, Invoke(p, c) PROVE LocalMove(p)
  <2>1. /\ UNCHANGED <<ups, refused, watchers, watch, stage, todo, binding, adding, dead>>
        /\ pc[p] = "idle"
    BY <1>18 DEF Invoke, hub, pump, work
  <2>2. CASE Closed
    <3>1. UNCHANGED <<epoch, lease, pc>>
      BY <1>18, <2>2 DEF Invoke, pump, registry
    <3> QED  BY <1>2, <1>3, <1>4, <1>5, <1>6, <2>1, <3>1 DEF LocalMove, Inside, Owes
  <2>3. CASE ~Closed
    <3>1. epoch' = Current /\ lease'[p] = Current /\ pc'[p] = "expire"
      BY <1>1, <1>18, <2>3 DEF Invoke
    <3>2. Current \in Nat /\ Current >= epoch /\ (epoch # 0 => Current = epoch)
      BY <1>3 DEF Current
    <3>3. SameOrFirst /\ (HubClosed => HubClosed')
      BY <2>1, <3>1, <3>2 DEF SameOrFirst, HubClosed
    <3> QED
      BY <1>2, <1>3, <1>4, <1>5, <2>1, <3>1, <3>2, <3>3 DEF LocalMove, Inside, Owes
  <2> QED  BY <2>2, <2>3
<1> QED
  BY <1>7, <1>8, <1>9, <1>10, <1>11, <1>12, <1>13, <1>14, <1>15, <1>16, <1>17, <1>18

LEMMA HubFrame ==
  ASSUME Hub, UNCHANGED <<epoch, ups, refused, watch, watchers, pump>>, HubClosed => HubClosed'
  PROVE  Hub'
<1>1. UNCHANGED <<pc, lease, todo, binding, adding, dead>>
  BY DEF pump, work
<1>2. LeasesBehind' /\ WatchBehind' /\ HandlesWatched' /\ SubscribeWatched' /\ WatchSet'
  BY <1>1 DEF Hub, LeasesBehind, WatchBehind, HandlesWatched, SubscribeWatched, WatchSet
<1>3. InBind'
  BY <1>1 DEF Hub, InBind, Inside
<1>4. Followed' /\ Added'
  BY <1>1 DEF Hub, Followed, Owes, Settled, Added
<1> QED  BY <1>2, <1>3, <1>4 DEF Hub

(* A thread that replaces the client owes every Up.                        *)
LEMMA HubReplace ==
  ASSUME TypeOK, Hub, NEW p \in Pumps, Replace(p)
  PROVE  Hub'
<1>1. UNCHANGED <<ups, refused, watch, watchers, stage>> /\ (HubClosed' <=> HubClosed)
  BY DEF Replace, hub, HubClosed
<1>2. CASE epoch' = epoch
  <2>1. UNCHANGED pump
    BY <1>2 DEF Replace, pump, work, TypeOK, RegistryTyped
  <2> QED  BY <1>1, <1>2, <2>1, HubFrame
<1>3. CASE epoch' # epoch
  <2>1. /\ epoch' = epoch + 1 /\ UNCHANGED <<todo, binding, adding, dead>>
        /\ pc' = [pc EXCEPT ![p] = "dying"] /\ lease' = [lease EXCEPT ![p] = epoch + 1]
    BY <1>3, ReplaceDoes DEF work
  <2>2. /\ epoch \in Nat /\ watch.installed \in Nat /\ watch.accept \in Nat
        /\ \A q \in Pumps : lease[q] \in Nat
    BY HubNumbers DEF Numbers
  <2>3. /\ pc'[p] = "dying" /\ pc[p] = "idle"
        /\ \A q \in Pumps \ {p} : pc'[q] = pc[q] /\ lease'[q] = lease[q]
        /\ lease'[p] = epoch + 1
    BY <2>1 DEF TypeOK, WorkTyped, Replace
  <2>4. LeasesBehind' /\ WatchBehind'
    BY <1>1, <2>1, <2>2, <2>3 DEF Hub, LeasesBehind, WatchBehind
  <2>5. HandlesWatched' /\ SubscribeWatched' /\ WatchSet'
    BY <1>1, <2>1, <2>3 DEF Hub, HandlesWatched, SubscribeWatched, WatchSet
  <2>6. InBind'
    BY <2>1, <2>3 DEF Hub, InBind, Inside, Binding, Leased
  <2>7. Followed'
    <3>1. \A e \in Events : Owes(p, e)'
      BY <2>3 DEF Owes
    <3> QED  BY <3>1 DEF Followed
  <2>8. Added'
    BY <1>1, <2>1 DEF Hub, Added
  <2> QED  BY <2>4, <2>5, <2>6, <2>7, <2>8 DEF Hub
<1> QED  BY <1>2, <1>3

(* A new Up is owed by the thread that adds it.                            *)
LEMMA HubAdd ==
  ASSUME TypeOK, Hub, NEW p \in Pumps, NEW e \in Events, Add(p, e)
  PROVE  Hub'
<1>1. /\ UNCHANGED <<epoch, refused, watch, watchers, stage, lease, binding, dead>> /\ pc[p] = "idle"
      /\ pc' = [pc EXCEPT ![p] = "next"] /\ todo' = [todo EXCEPT ![p] = {e}]
      /\ adding' = [adding EXCEPT ![p] = {e}]
      /\ ups' = [ups EXCEPT ![e] = 0] /\ ups[e] = NoUp
  BY DEF Add, registry
<1>2. /\ OthersRest(p) /\ pc'[p] = "next" /\ todo'[p] = {e} /\ adding'[p] = {e}
      /\ \A q \in Pumps \ {p} : pc'[q] = pc[q] /\ todo'[q] = todo[q] /\ adding'[q] = adding[q]
  BY <1>1 DEF OthersRest, TypeOK, WorkTyped
<1>3. \A f \in Events : ups'[f] = IF f = e THEN 0 ELSE ups[f]
  BY <1>1 DEF TypeOK, HubTyped
<1>4. epoch \in Nat /\ watch.installed \in Nat
  BY HubNumbers DEF Numbers
<1>5. LeasesBehind' /\ WatchBehind' /\ SubscribeWatched' /\ WatchSet'
  BY <1>1, <1>2 DEF Hub, LeasesBehind, WatchBehind, SubscribeWatched, WatchSet
<1>6. HandlesWatched'
  BY <1>1, <1>3, <1>4 DEF Hub, HandlesWatched
<1>7. todo[p] = {} /\ binding[p] = {} /\ dead[p] = {}
  BY <1>1 DEF Hub, InBind, Inside, Binding, Leased
<1>8. InBind'
  BY <1>1, <1>2, <1>7 DEF Hub, InBind, Inside, Binding, Leased
<1>9. Followed'
  <2>1. SameOrFirst /\ (HubClosed => HubClosed')
    BY <1>1 DEF SameOrFirst, HubClosed
  <2> SUFFICES ASSUME NEW f \in Events, ups'[f] # NoUp PROVE Follows(p, f)
    BY <1>2, <2>1, FollowedKept DEF Hub
  <2>2. CASE f = e
    BY <1>1, <1>2, <1>7, <2>2 DEF Follows, Owes
  <2>3. CASE f # e
    <3>1. ~Owes(p, f)
      BY <1>1, <1>7 DEF Owes
    <3> QED  BY <1>1, <1>3, <2>3, <3>1 DEF Follows, Settled
  <2> QED  BY <2>2, <2>3
<1>10. Added'
  <2> SUFFICES ASSUME ~HubClosed, NEW f \in Events, ups'[f] = 0
               PROVE  \E q \in Pumps : f \in adding'[q]
    BY <1>1 DEF Added, HubClosed
  <2>1. CASE f = e
    BY <1>2, <2>1
  <2>2. CASE f # e
    <3>1. PICK q \in Pumps : f \in adding[q]
      BY <1>3, <2>2 DEF Hub, Added
    <3>2. q # p
      BY <1>1, <3>1 DEF Hub, InBind, Inside, Binding, Leased
    <3> QED  BY <1>2, <3>1, <3>2
  <2> QED  BY <2>1, <2>2
<1> QED  BY <1>5, <1>6, <1>8, <1>9, <1>10 DEF Hub

(* The Up that an add leaves without a handle goes, and nobody owes it.    *)
LEMMA HubBindsDone ==
  ASSUME TypeOK, Hub, NEW p \in Pumps, BindsDone(p)
  PROVE  Hub'
<1> DEFINE failed == {e \in adding[p] : ups[e] = 0}
<1>1. /\ UNCHANGED <<epoch, watch, watchers, stage, lease, todo, binding>>
      /\ pc[p] = "next" /\ todo[p] = {} /\ pc' = [pc EXCEPT ![p] = "return"]
      /\ adding' = [adding EXCEPT ![p] = {}]
  BY DEF BindsDone, registry
<1>2. /\ \A e \in Events : /\ ups'[e] = IF e \in failed THEN NoUp ELSE ups[e]
                           /\ refused'[e] = IF e \in failed THEN 0 ELSE refused[e]
      /\ \A q \in Pumps : dead'[q] = dead[q] \cup (failed \cap (todo[q] \cup binding[q]))
  BY DEF BindsDone
<1>3. failed = {e \in adding[p] : ups[e] = 0}
  OBVIOUS
<1> HIDE DEF failed
<1>4. /\ pc'[p] = "return" /\ \A q \in Pumps \ {p} : pc'[q] = pc[q]
      /\ adding'[p] = {} /\ \A q \in Pumps \ {p} : adding'[q] = adding[q]
  BY <1>1 DEF TypeOK, WorkTyped
<1>5. watch.installed \in Nat
  BY HubNumbers DEF Numbers
<1>6. binding[p] = {}
  BY <1>1 DEF Hub, InBind, Inside, Binding, Leased
<1>7. LeasesBehind' /\ WatchBehind' /\ SubscribeWatched' /\ WatchSet'
  BY <1>1, <1>4 DEF Hub, LeasesBehind, WatchBehind, SubscribeWatched, WatchSet
<1>8. HandlesWatched'
  BY <1>1, <1>2, <1>5 DEF Hub, HandlesWatched
<1>9. InBind'
  <2> SUFFICES ASSUME NEW q \in Pumps PROVE Inside(q)'
    BY DEF InBind
  <2>1. dead'[q] \subseteq todo'[q] \cup binding'[q]
    BY <1>1, <1>2 DEF Hub, InBind, Inside
  <2>2. CASE q = p
    BY <1>1, <1>4, <1>6, <2>1, <2>2 DEF Inside
  <2>3. CASE q # p
    BY <1>1, <1>4, <2>1, <2>3 DEF Hub, InBind, Inside
  <2> QED  BY <2>2, <2>3
<1>10. Followed'
  <2> SUFFICES ASSUME ~HubClosed, NEW e \in Events, ups'[e] # NoUp
               PROVE  Settled(e)' \/ \E q \in Pumps : Owes(q, e)'
    BY <1>1 DEF Followed, HubClosed
  <2>1. e \notin failed /\ ups'[e] = ups[e] /\ refused'[e] = refused[e]
    BY <1>2
  <2>2. Settled(e) => Settled(e)'
    BY <1>1, <2>1 DEF Settled
  <2>3. ASSUME NEW q \in Pumps, Owes(q, e) PROVE Owes(q, e)'
    <3>1. q # p
      BY <1>1, <1>6, <2>3 DEF Owes
    <3>2. e \in dead'[q] => e \in dead[q]
      BY <1>2, <2>1
    <3>3. pc'[q] = pc[q]
      BY <1>4, <3>1
    <3> QED  BY <1>1, <2>3, <3>2, <3>3 DEF Owes
  <2> QED  BY <2>1, <2>2, <2>3 DEF Hub, Followed
<1>11. Added'
  <2> SUFFICES ASSUME ~HubClosed, NEW e \in Events, ups'[e] = 0
               PROVE  \E q \in Pumps : e \in adding'[q]
    BY <1>1 DEF Added, HubClosed
  <2>1. e \notin failed /\ ups[e] = 0
    BY <1>2, ClientsAssumption DEF NoUp
  <2>2. PICK q \in Pumps : e \in adding[q]
    BY <2>1 DEF Hub, Added
  <2>3. q # p
    BY <1>3, <2>1, <2>2
  <2> QED  BY <1>4, <2>2, <2>3
<1> QED  BY <1>7, <1>8, <1>9, <1>10, <1>11 DEF Hub

(* The watcher is claimed for a newer client than the last one's.          *)
LEMMA HubWatchClaim ==
  ASSUME TypeOK, TypeOK', Hub, NEW p \in Pumps, WatchClaim(p)
  PROVE  Hub'
<1>1. /\ UNCHANGED <<epoch, ups, refused, watchers, stage, lease, todo, binding, adding, dead>>
      /\ pc[p] = "watch"
  BY DEF WatchClaim, registry, work
<1>2. OthersRest(p) /\ \A q \in Pumps \ {p} : pc'[q] = pc[q]
  <2>1. PumpActs(p) /\ ~BindsDone(p)
    BY <1>1 DEF PumpActs, BindsDone
  <2> QED  BY <2>1, Others DEF OthersRest
<1>3. /\ epoch \in Nat /\ watch.installed \in Nat /\ watch.accept \in Nat
      /\ \A q \in Pumps : lease[q] \in Nat
      /\ \A e \in Events : ups[e] \in Nat /\ refused[e] \in Nat
  BY HubNumbers DEF Numbers
<1>4. SameOrFirst /\ (HubClosed => HubClosed')
  BY <1>1 DEF SameOrFirst, HubClosed
<1>5. pc'[p] \in {"subscribe", "install"}
  BY DEF WatchClaim, TypeOK, WorkTyped
<1>6. \A e \in Events : Owes(p, e) => Owes(p, e)'
  BY <1>1, <1>5 DEF Owes
<1>7. Inside(p)'
  BY <1>1, <1>5 DEF Hub, InBind, Inside, Binding, Leased
<1>8. CASE watch.installed >= lease[p]
  <2>1. UNCHANGED watch
    BY <1>8 DEF WatchClaim
  <2> QED
    BY <1>1, <1>2, <1>3, <1>4, <1>6, <1>7, <1>8, <2>1, HubLocal
       DEF LocalMove, Hub, LeasesBehind, WatchBehind
<1>9. CASE ~(watch.installed >= lease[p])
  <2>1. /\ watch' = [installed |-> lease[p], accept |-> Max2(watch.accept, lease[p])]
        /\ pc'[p] = "install"
    BY <1>9 DEF WatchClaim, TypeOK, WorkTyped
  <2>2. /\ watch'.installed = lease[p] /\ watch'.accept = Max2(watch.accept, lease[p])
        /\ lease[p] > watch.installed
    BY <1>3, <1>9, <2>1
  <2>3. LeasesBehind'
    BY <1>1 DEF Hub, LeasesBehind
  <2>4. WatchBehind'
    BY <1>1, <1>3, <2>2 DEF Hub, LeasesBehind, WatchBehind, Max2
  <2>5. HandlesWatched'
    BY <1>1, <1>3, <2>2 DEF Hub, HandlesWatched
  <2>6. SubscribeWatched'
    BY <1>1, <1>2, <1>3, <2>2 DEF Hub, SubscribeWatched
  <2>7. WatchSet'
    BY <1>1, <2>1, <2>2 DEF WatchSet
  <2>8. InBind'
    BY <1>1, <1>2, <1>7 DEF Hub, InBind, Inside
  <2>9. Followed'
    <3> SUFFICES ASSUME NEW e \in Events, ups'[e] # NoUp PROVE Follows(p, e)
      BY <1>2, <1>4, FollowedKept DEF Hub
    <3> QED  BY <1>1, <1>6 DEF Follows, Settled
  <2>10. Added'
    BY <1>1, <1>4 DEF Hub, Added
  <2> QED  BY <2>3, <2>4, <2>5, <2>6, <2>7, <2>8, <2>9, <2>10 DEF Hub
<1> QED  BY <1>8, <1>9

LEMMA HubWatchInstall ==
  ASSUME TypeOK, Hub, NEW p \in Pumps, WatchInstall(p)
  PROVE  Hub'
<1>1. /\ UNCHANGED <<epoch, ups, refused, watch, stage, lease, todo, binding, adding, dead>>
      /\ watchers' = watchers \cup {lease[p]} /\ pc' = [pc EXCEPT ![p] = "subscribe"]
      /\ pc[p] = "install"
  BY DEF WatchInstall, registry, work
<1>2. /\ pc'[p] = "subscribe" /\ OthersRest(p)
      /\ \A q \in Pumps \ {p} : pc'[q] = pc[q]
  BY <1>1 DEF OthersRest, TypeOK, WorkTyped
<1>3. SameOrFirst /\ (HubClosed => HubClosed')
  BY <1>1 DEF SameOrFirst, HubClosed
<1>4. \A e \in Events : Owes(p, e) => Owes(p, e)'
  BY <1>1, <1>2 DEF Owes
<1>5. LeasesBehind' /\ WatchBehind' /\ HandlesWatched' /\ SubscribeWatched'
  BY <1>1, <1>2 DEF Hub, LeasesBehind, WatchBehind, HandlesWatched, SubscribeWatched
<1>6. WatchSet'
  BY <1>1, <1>2 DEF Hub, WatchSet
<1>7. InBind'
  BY <1>1, <1>2 DEF Hub, InBind, Inside, Binding, Leased
<1>8. Followed'
  <2> SUFFICES ASSUME NEW e \in Events, ups'[e] # NoUp PROVE Follows(p, e)
    BY <1>2, <1>3, FollowedKept DEF Hub
  <2> QED  BY <1>1, <1>4 DEF Follows, Settled
<1>9. Added'
  BY <1>1, <1>3 DEF Hub, Added
<1> QED  BY <1>5, <1>6, <1>7, <1>8, <1>9 DEF Hub

(* What bind knows as its subscribe returns, on an Up that may be gone.    *)
Subscribed(p, e) ==
  /\ UNCHANGED <<epoch, watch, watchers, stage, lease, todo, adding>> /\ pc[p] = "subscribe"
  /\ e \in binding[p] /\ (\A f \in binding[p] : f = e)
  /\ pc'[p] \in {"unlease", "reread"} /\ OthersRest(p) /\ Inside(p)'
  /\ dead'[p] \subseteq dead[p]

LEMMA SubscribeReturns ==
  ASSUME TypeOK, Hub, NEW p \in Pumps, NEW e \in Events, BindRefused(p, e) \/ BindSwap(p, e)
  PROVE  Subscribed(p, e)
<1>1. /\ UNCHANGED <<epoch, watch, watchers, stage, lease, todo, adding>> /\ pc[p] = "subscribe"
      /\ e \in binding[p]
  BY DEF BindRefused, BindSwap, registry
<1>2. OthersRest(p)
  <2>1. PumpActs(p) /\ ~BindsDone(p)
    BY <1>1 DEF PumpActs, BindsDone
  <2> QED  BY <2>1, Others
<1>3. /\ \A f \in binding[p] : f = e
      /\ dead[p] \subseteq todo[p] \cup binding[p]
  BY <1>1 DEF Hub, InBind, Inside
<1>4. /\ pc \in [Pumps -> PumpPcs] /\ binding \in [Pumps -> SUBSET Events]
      /\ dead \in [Pumps -> SUBSET Events]
  BY DEF TypeOK, WorkTyped
<1>5. \/ pc'[p] = "unlease" /\ binding'[p] = {} /\ dead'[p] = dead[p] \ binding[p]
      \/ pc'[p] = "reread" /\ UNCHANGED <<binding, dead>>
  BY <1>4 DEF BindRefused, BindSwap, Bound
<1>6. Inside(p)' /\ dead'[p] \subseteq dead[p]
  BY <1>1, <1>3, <1>5 DEF Inside, Binding, Leased
<1> QED  BY <1>1, <1>2, <1>3, <1>5, <1>6 DEF Subscribed

(* Its lease's client is watched; the Ups still to bind are owed as before. *)
LEMMA HubSubscribed ==
  ASSUME TypeOK, TypeOK', Hub, NEW p \in Pumps, NEW e \in Events, Subscribed(p, e),
         \A f \in Events : f # e => ups'[f] = ups[f] /\ refused'[f] = refused[f],
         ups'[e] \in {ups[e], Max2(ups[e], lease[p])} /\ (ups[e] = NoUp => ups'[e] = NoUp),
         refused'[e] \in {refused[e], Max2(refused[e], lease[p])},
         ~HubClosed /\ ups[e] # NoUp /\ e \notin dead[p] =>
           ups'[e] >= lease[p] \/ refused'[e] >= lease[p]
  PROVE  Hub'
<1>1. /\ UNCHANGED <<epoch, watch, watchers, stage, lease, todo, adding>> /\ pc[p] = "subscribe"
      /\ e \in binding[p] /\ (\A f \in binding[p] : f = e)
      /\ pc'[p] \in {"unlease", "reread"} /\ OthersRest(p) /\ Inside(p)'
      /\ dead'[p] \subseteq dead[p]
  BY DEF Subscribed
<1>2. \A q \in Pumps \ {p} : pc'[q] = pc[q]
  BY <1>1 DEF OthersRest
<1>3. /\ epoch \in Nat /\ watch.installed \in Nat /\ watch.accept \in Nat
      /\ \A q \in Pumps : lease[q] \in Nat
      /\ \A f \in Events : ups[f] \in Nat /\ refused[f] \in Nat
      /\ \A f \in Events : ups'[f] \in Nat /\ refused'[f] \in Nat
      /\ lease[p] > 0 /\ lease[p] <= MaxEpoch /\ MaxEpoch \in Nat
  BY <1>1, HubNumbers, HubNumbersNext DEF Numbers, Leased
<1>4. SameOrFirst /\ (HubClosed => HubClosed')
  BY <1>1 DEF SameOrFirst, HubClosed
<1>5. /\ lease[p] <= watch.installed /\ lease[p] <= epoch /\ watch.installed <= epoch
  BY <1>1, <1>3 DEF Hub, SubscribeWatched, LeasesBehind, WatchBehind
<1>6. /\ ups[e] # NoUp => ups[e] <= watch.installed
      /\ refused[e] <= watch.installed
  BY DEF Hub, HandlesWatched
<1>7. /\ ups'[e] # NoUp => ups'[e] <= watch.installed /\ ups[e] <= ups'[e]
      /\ refused'[e] <= watch.installed /\ refused[e] <= refused'[e]
  BY <1>3, <1>5, <1>6 DEF Max2
<1>8. HandlesWatched'
  BY <1>1, <1>7 DEF Hub, HandlesWatched
<1>9. LeasesBehind' /\ WatchBehind' /\ SubscribeWatched'
  BY <1>1, <1>2 DEF Hub, LeasesBehind, WatchBehind, SubscribeWatched
<1>10. WatchSet'
  BY <1>1, <1>2 DEF Hub, WatchSet
<1>11. InBind'
  <2> SUFFICES ASSUME NEW q \in Pumps, q # p PROVE Inside(q)'
    BY <1>1 DEF InBind
  <2> QED  BY <1>1 DEF OthersRest, Hub, InBind, Inside
<1>12. \A f \in Events : f \in todo[p] /\ f \notin dead[p] => Owes(p, f)'
  BY <1>1 DEF Owes
<1>13. Followed'
  <2> SUFFICES ASSUME NEW f \in Events, ups'[f] # NoUp, ~HubClosed PROVE Follows(p, f)
    BY <1>1, <1>4, FollowedKept DEF Hub
  <2>1. CASE f = e
    <3>1. ups[e] # NoUp
      BY <2>1
    <3>2. Settled(e) => Settled(e)'
      BY <1>1, <1>3, <1>5, <1>7, <2>1 DEF Settled
    <3>3. CASE lease[p] = epoch /\ e \notin dead[p]
      BY <1>1, <1>3, <1>5, <1>7, <2>1, <3>1, <3>3 DEF Follows, Settled
    <3>4. CASE ~(lease[p] = epoch /\ e \notin dead[p])
      <4>1. ~(e \in todo[p] /\ e \notin dead[p]) => ~Owes(p, e)
        BY <1>1, <3>4 DEF Owes
      <4> QED  BY <1>12, <2>1, <3>1, <3>2, <4>1 DEF Follows
    <3> QED  BY <3>3, <3>4
  <2>2. CASE f # e
    <3>1. ~(f \in todo[p] /\ f \notin dead[p]) => ~Owes(p, f)
      BY <1>1, <2>2 DEF Owes
    <3> QED  BY <1>1, <1>12, <2>2, <3>1 DEF Follows, Settled
  <2> QED  BY <2>1, <2>2
<1>14. Added'
  <2> SUFFICES ASSUME ~HubClosed, NEW f \in Events, ups'[f] = 0
               PROVE  \E q \in Pumps : f \in adding'[q]
    BY <1>1 DEF Added, HubClosed
  <2>1. ups[f] = 0
    BY <1>3 DEF Max2
  <2> QED  BY <1>1, <2>1 DEF Hub, Added
<1> QED  BY <1>8, <1>9, <1>10, <1>11, <1>13, <1>14 DEF Hub

(* A handle from the current client stays, one from an older client gives  *)
(* way to the leased client's.                                             *)
LEMMA HubBindSwap ==
  ASSUME TypeOK, TypeOK', Hub, NEW p \in Pumps, NEW e \in Events, BindSwap(p, e)
  PROVE  Hub'
<1>1. Subscribed(p, e) /\ UNCHANGED refused
  BY SubscribeReturns DEF BindSwap
<1>2. ups[e] \in Nat /\ lease[p] \in Nat
  BY HubNumbers DEF Numbers
<1>3. CASE ~Live(p, e)
  <2>1. UNCHANGED ups
    BY <1>3 DEF BindSwap
  <2>2. ~(~HubClosed /\ ups[e] # NoUp /\ e \notin dead[p])
    BY <1>3 DEF Live
  <2> QED  BY <1>1, <2>1, <2>2, HubSubscribed
<1>4. CASE Live(p, e)
  <2>1. ups' = [ups EXCEPT ![e] = Max2(ups[e], lease[p])] /\ ups[e] # NoUp
    BY <1>4 DEF BindSwap, Live
  <2>2. /\ ups'[e] = Max2(ups[e], lease[p])
        /\ \A f \in Events : f # e => ups'[f] = ups[f]
    BY <2>1 DEF TypeOK, HubTyped
  <2>3. ups'[e] >= lease[p]
    BY <1>2, <2>2 DEF Max2
  <2> QED  BY <1>1, <2>1, <2>2, <2>3, HubSubscribed
<1> QED  BY <1>3, <1>4

(* A refusal leaves the Up its handle, and counts as the client's answer.  *)
LEMMA HubBindRefused ==
  ASSUME TypeOK, TypeOK', Hub, NEW p \in Pumps, NEW e \in Events, BindRefused(p, e)
  PROVE  Hub'
<1>1. Subscribed(p, e) /\ UNCHANGED ups
  BY SubscribeReturns DEF BindRefused
<1>2. refused[e] \in Nat /\ lease[p] \in Nat
  BY HubNumbers DEF Numbers
<1>3. CASE ~Live(p, e)
  <2>1. UNCHANGED refused
    BY <1>3 DEF BindRefused
  <2>2. ~(~HubClosed /\ ups[e] # NoUp /\ e \notin dead[p])
    BY <1>3 DEF Live
  <2> QED  BY <1>1, <2>1, <2>2, HubSubscribed
<1>4. CASE Live(p, e)
  <2>1. refused' = [refused EXCEPT ![e] = Max2(refused[e], lease[p])]
    BY <1>4 DEF BindRefused
  <2>2. /\ refused'[e] = Max2(refused[e], lease[p])
        /\ \A f \in Events : f # e => refused'[f] = refused[f]
    BY <2>1 DEF TypeOK, HubTyped
  <2>3. refused'[e] >= lease[p]
    BY <1>2, <2>2 DEF Max2
  <2> QED  BY <1>1, <2>2, <2>3, HubSubscribed
<1> QED  BY <1>3, <1>4

LEMMA HubNext == TypeOK /\ Hub /\ [Next]_vars => Hub'
<1> SUFFICES ASSUME TypeOK, Hub, [Next]_vars PROVE Hub'
  OBVIOUS
<1>1. TypeOK'
  BY NextType
<1>2. CASE UNCHANGED <<epoch, hub, stage, pump>>
  BY <1>2, HubFrame DEF hub, HubClosed
<1>3. ASSUME NEW c \in Calls, Finished(c) \/ PostRelease(c) \/ Unbox(c) \/ PostReplace(c)
      PROVE  UNCHANGED <<epoch, hub, stage, pump>>
  BY <1>3 DEF Finished, PostRelease, Unbox, PostReplace, registry
<1>4. ASSUME NEW k \in Epochs, ReportCheck(k) \/ ReportApply(k)
      PROVE  UNCHANGED <<epoch, hub, stage, pump>>
  BY <1>4 DEF ReportCheck, ReportApply, registry
<1>5. CASE Rest \/ UNCHANGED vars
  BY <1>2, <1>5 DEF Rest, vars, registry
<1>6. CASE Close \/ CloseDrop \/ PumpStop
  <2>1. UNCHANGED <<epoch, ups, refused, watch, watchers, pump>> /\ HubClosed'
    BY <1>6 DEF Close, CloseDrop, PumpStop, hub, HubClosed
  <2> QED  BY <2>1, HubFrame
<1>7. CASE HubClear
  <2>1. /\ UNCHANGED <<epoch, refused, watch, watchers, pump>> /\ HubClosed'
        /\ \A e \in Events : ups'[e] = NoUp
    BY <1>7 DEF HubClear, HubClosed, registry
  <2>2. UNCHANGED <<pc, lease, todo, binding, adding, dead>>
    BY <2>1 DEF pump, work
  <2>3. /\ LeasesBehind' /\ WatchBehind' /\ HandlesWatched' /\ SubscribeWatched' /\ WatchSet'
        /\ Followed' /\ Added'
    BY <2>1, <2>2 DEF Hub, LeasesBehind, WatchBehind, HandlesWatched, SubscribeWatched, WatchSet,
                      Followed, Added
  <2>4. InBind'
    BY <2>2 DEF Hub, InBind, Inside
  <2> QED  BY <2>3, <2>4 DEF Hub
<1>8. ASSUME NEW p \in Pumps, RunRelease(p) PROVE UNCHANGED <<epoch, hub, stage, pump>>
  BY <1>8 DEF RunRelease
<1>9. ASSUME NEW p \in Pumps, Dropping(p) \/ BindLease(p) \/ \E c \in Calls : Invoke(p, c)
      PROVE  Hub'
  BY <1>1, <1>9, HubMoves, HubLocal DEF Dropping
<1>10. ASSUME NEW p \in Pumps,
              \/ InvokeAsync(p) \/ Retire(p) \/ ResetBaseline(p) \/ Rebind(p) \/ BindNext(p)
              \/ BindReread(p) \/ \E e \in Events : BindCheck(p, e)
       PROVE  Hub'
  BY <1>1, <1>10, HubMoves, HubLocal
<1>11. CASE Elsewhere
  BY <1>1, <1>2, <1>3, <1>4, <1>5, <1>10, <1>11, HubAdd, HubBindsDone, HubWatchClaim,
     HubWatchInstall, HubBindSwap, HubBindRefused
     DEF Elsewhere
<1> QED
  BY <1>2, <1>3, <1>5, <1>6, <1>7, <1>8, <1>9, <1>11, HubReplace, Steps

LEMMA HubInit == Init => Hub
<1> SUFFICES ASSUME Init PROVE Hub
  OBVIOUS
<1>1. watch.installed = 0 /\ watch.accept = 0 /\ NoUp # 0
  BY ClientsAssumption DEF Init, NoUp
<1>2. LeasesBehind /\ WatchBehind /\ HandlesWatched /\ SubscribeWatched /\ WatchSet /\ Followed /\ Added
  BY <1>1 DEF Init, LeasesBehind, WatchBehind, HandlesWatched, SubscribeWatched, WatchSet, Followed,
              Added
<1>3. InBind
  BY DEF Init, InBind, Inside
<1> QED  BY <1>2, <1>3 DEF Hub

(* After a replacement every upstream subscription is on the current       *)
(* client, or on an older one because the current one refused it, and the  *)
(* current client's watcher is set and its reports count: rebind offers    *)
(* the client the Ups there are, an Up added since is bound to the current *)
(* client or finds it replaced, and the thread that replaced it rebinds    *)
(* again.                                                                  *)
THEOREM SubscriptionsMove == Spec => []SubscriptionsFollow
<1>1. TypeOK /\ Hub => SubscriptionsFollow
  <2> SUFFICES ASSUME TypeOK, Hub, AtRest, ~HubClosed, NEW e \in Events, ups[e] # NoUp
               PROVE  /\ ups[e] = epoch \/ (ups[e] \in 1..(epoch - 1) /\ refused[e] = epoch)
                      /\ epoch \in watchers
                      /\ watch.installed = epoch /\ watch.accept = epoch
    BY DEF SubscriptionsFollow
  <2>1. \A p \in Pumps : pc[p] = "idle" /\ ~Owes(p, e) /\ e \notin adding[p]
    BY DEF AtRest, Owes, Hub, InBind, Inside, Binding, Leased
  <2>2. epoch # 0 /\ (ups[e] = epoch \/ refused[e] = epoch)
    BY <2>1 DEF Hub, Followed, Settled
  <2>3. ups[e] # 0
    BY <2>1 DEF Hub, Added
  <2>4. /\ epoch \in Nat /\ watch.installed \in Nat /\ watch.accept \in Nat
        /\ ups[e] \in Nat /\ refused[e] \in Nat
    BY HubNumbers DEF Numbers
  <2>5. /\ watch.installed <= watch.accept /\ watch.accept <= epoch
        /\ ups[e] <= watch.installed /\ refused[e] <= watch.installed
    BY DEF Hub, HandlesWatched, WatchBehind
  <2>6. watch.installed = epoch /\ watch.accept = epoch
    BY <2>2, <2>4, <2>5
  <2>7. epoch \in watchers
    BY <2>1, <2>2, <2>6 DEF Hub, WatchSet
  <2>8. ups[e] = epoch \/ (ups[e] \in 1..(epoch - 1) /\ refused[e] = epoch)
    BY <2>2, <2>3, <2>4, <2>5
  <2> QED  BY <2>6, <2>7, <2>8
<1>2. Init => TypeOK /\ Hub
  BY InitType, HubInit
<1>3. TypeOK /\ Hub /\ [Next]_vars => TypeOK' /\ Hub'
  BY NextType, HubNext
<1> QED  BY <1>1, <1>2, <1>3, PTL DEF Spec
=============================================================================

------------------------- MODULE ModuleViewsProofs -------------------------
(* What is listed as exposed is what gating lets through, and what is      *)
(* hidden looks like what does not exist, for every set of builds and      *)
(* every policy.                                                           *)
EXTENDS SelfDescription, SequenceTheorems, WellFoundedInduction, TLAPS

(* The view was published whole: its exposure is that of its own content   *)
(* under the policy in force.                                              *)
ExposureIsCurrent == view.exposure = ExposureOf(config, view)

(* exposeDeclared and exposeLive against methodPermitted: the two readings *)
(* of a view agree on every method name.                                   *)
LEMMA MethodsAgree ==
  ASSUME NEW em, NEW v, NEW m
  PROVE  /\ m \in ExposureOf(em, v).methods => MethodPermitted(em, v, m)
         /\ (Typed(v) \/ (Resolved(v) /\ v.live.methods # <<>>)) /\ MethodPermitted(em, v, m)
              => m \in ExposureOf(em, v).methods
<1>1. CASE Typed(v)
  <2>1. ExposureOf(em, v) =
          ExposeDeclared(em, Names(v.contract.methods), Names(v.contract.events))
    BY <1>1 DEF ExposureOf
  <2> QED BY <1>1, <2>1 DEF ExposeDeclared, MethodPermitted
<1>2. CASE ~Typed(v) /\ Resolved(v)
  <2>1. ExposureOf(em, v) = ExposeLive(em, v.live)
    BY <1>2 DEF ExposureOf
  <2>2. ExposeLive(em, v.live).methods =
          {n \in Names(v.live.methods) \ Reserved : MethodAllowed(em, n)}
    BY DEF ExposeLive, ExposeDeclared
  <2> QED BY <1>2, <2>1, <2>2 DEF MethodPermitted
<1>3. CASE ~Resolved(v)
  <2>1. ~Typed(v)
    BY <1>3 DEF Resolved, Typed
  <2>2. ExposureOf(em, v) = NoExposure
    BY <1>3, <2>1 DEF ExposureOf
  <2> QED BY <1>3, <2>1, <2>2 DEF NoExposure
<1> QED BY <1>1, <1>2, <1>3

(* The same for event names and eventPermitted. *)
LEMMA EventsAgree ==
  ASSUME NEW em, NEW v, NEW e
  PROVE  /\ e \in ExposureOf(em, v).events => EventPermitted(em, v, e)
         /\ (Typed(v) \/ (Resolved(v) /\ EventsDeclared(v.live))) /\ EventPermitted(em, v, e)
              => e \in ExposureOf(em, v).events
<1>1. CASE Typed(v)
  <2>1. ExposureOf(em, v) =
          ExposeDeclared(em, Names(v.contract.methods), Names(v.contract.events))
    BY <1>1 DEF ExposureOf
  <2> QED BY <1>1, <2>1 DEF ExposeDeclared, EventPermitted
<1>2. CASE ~Typed(v) /\ Resolved(v)
  <2>1. ExposureOf(em, v) = ExposeLive(em, v.live)
    BY <1>2 DEF ExposureOf
  <2>2. CASE EventsDeclared(v.live)
    <3>1. ExposeLive(em, v.live).events = {n \in Names(v.live.events) : Permits(em.events, n)}
      BY <2>2 DEF ExposeLive, ExposeDeclared
    <3> QED BY <1>2, <2>1, <2>2, <3>1 DEF EventPermitted
  <2>3. CASE ~EventsDeclared(v.live)
    <3>1. \A n \in ExposeLive(em, v.live).events : Permits(em.events, n)
      BY DEF ExposeLive, ExposeDeclared
    <3> QED BY <1>2, <2>1, <2>3, <3>1 DEF EventPermitted
  <2> QED BY <2>2, <2>3
<1>3. CASE ~Resolved(v)
  <2>1. ~Typed(v)
    BY <1>3 DEF Resolved, Typed
  <2>2. ExposureOf(em, v) = NoExposure
    BY <1>3, <2>1 DEF ExposureOf
  <2> QED BY <1>3, <2>1, <2>2 DEF NoExposure
<1> QED BY <1>1, <1>2, <1>3

(* A pending view has an empty report. *)
PendingIsEmpty == ~Resolved(view) => view.live = NoReport

(* NewView holds the exposure of what it was made of. *)
LEMMA NewViewIsCurrent ==
  ASSUME NEW status, NEW live, NEW contract
  PROVE  /\ NewView(status, live, contract).status = status
         /\ NewView(status, live, contract).exposure =
              ExposureOf(config, NewView(status, live, contract))
  BY DEF NewView, ExposureOf, Typed, Resolved, NoExposure

(* Every published view carries its own exposure. *)
LEMMA ExposureStaysCurrent == Spec => [](ExposureIsCurrent /\ PendingIsEmpty)
<1>1. Init => ExposureIsCurrent /\ PendingIsEmpty
  BY DEF Init, ExposureIsCurrent, PendingIsEmpty, ExposureOf, Typed, Resolved, NoExposure
<1>2. ExposureIsCurrent /\ PendingIsEmpty /\ [Next]_vars => (ExposureIsCurrent /\ PendingIsEmpty)'
  <2> SUFFICES ASSUME ExposureIsCurrent, PendingIsEmpty, [Next]_vars
               PROVE  (ExposureIsCurrent /\ PendingIsEmpty)'
    OBVIOUS
  <2>1. CASE UNCHANGED <<config, view>>
    BY <2>1 DEF ExposureIsCurrent, PendingIsEmpty, ExposureOf, Typed, Resolved
  <2>2. ASSUME NEW status \in Status \ {"pending"}, NEW live, NEW contract,
               Publish(status, live, contract)
        PROVE  (ExposureIsCurrent /\ PendingIsEmpty)'
    BY <2>2, NewViewIsCurrent
       DEF Publish, ExposureIsCurrent, PendingIsEmpty, ExposureOf, Typed, Resolved, Status
  <2>3. CASE OnInterface
    BY <2>1, <2>2, <2>3 DEF OnInterface, Status
  <2>4. CASE OnContract
    BY <2>1, <2>2, <2>4 DEF OnContract, Status
  <2>5. CASE OnVersion
    <3>1. CheckedStatus(reading.contract, reading.live) \in Status \ {"pending"}
      BY DEF CheckedStatus, Status
    <3> QED BY <2>2, <2>5, <3>1 DEF OnVersion
  <2>6. CASE Missed \/ Reload \/ Gate \/ Translate \/ Answer \/ UNCHANGED vars
    BY <2>1, <2>6 DEF Missed, Reload, Gate, Translate, Answer, vars
  <2>7. ASSUME NEW m \in Asked, NEW g \in Given \cup {None}, Ask(m, g)
        PROVE  (ExposureIsCurrent /\ PendingIsEmpty)'
    BY <2>1, <2>7 DEF Ask
  <2> QED BY <2>3, <2>4, <2>5, <2>6, <2>7 DEF Next
<1> QED BY <1>1, <1>2, PTL DEF Spec

(* exposure.h, the gating functions and discovery's publications agree:    *)
(* rpc.schema's exposure is exactly what a client can use.                 *)
THEOREM ExposureAgrees == Spec => []ExposureIsTheGate
<1>1. ExposureIsCurrent /\ PendingIsEmpty => ExposureIsTheGate
  <2> SUFFICES ASSUME ExposureIsCurrent, PendingIsEmpty
               PROVE  ExposureIsTheGate
    OBVIOUS
  <2>1. ASSUME NEW m \in Asked
        PROVE  /\ m \in view.exposure.methods => MethodPermitted(config, view, m)
               /\ (Typed(view) \/ view.live.methods # <<>>) /\ MethodPermitted(config, view, m)
                    => m \in view.exposure.methods
    <3>1. view.live.methods # <<>> => Resolved(view)
      BY DEF PendingIsEmpty, NoReport
    <3> QED BY <3>1, MethodsAgree DEF ExposureIsCurrent
  <2>2. ASSUME NEW e \in Events
        PROVE  /\ e \in view.exposure.events => EventPermitted(config, view, e)
               /\ (Typed(view) \/ EventsDeclared(view.live)) /\ EventPermitted(config, view, e)
                    => e \in view.exposure.events
    <3>1. EventsDeclared(view.live) => Resolved(view)
      BY DEF PendingIsEmpty, NoReport, EventsDeclared
    <3> QED BY <3>1, EventsAgree DEF ExposureIsCurrent
  <2> QED BY <2>1, <2>2 DEF ExposureIsTheGate
<1> QED BY <1>1, ExposureStaysCurrent, PTL

----------------------------------------------------------------------------
Hidden(method) == method \in Reserved \/ ~MethodAllowed(config, method)

(* A hidden method never gets past the gate. *)
RefusalInv ==
  Hidden(call.method) =>
    \/ call.at \in {"idle", "gate"}
    \/ call.at = "done" /\ call.answer = "MethodNotFound"

(* Every refusal of a hidden method is the one message of notFound().      *)
THEOREM RefusalsAgree == Spec => []HiddenLooksUnknown
<1>1. Init => RefusalInv
  BY DEF Init, RefusalInv
<1>2. RefusalInv /\ [Next]_vars => RefusalInv'
  <2> SUFFICES ASSUME RefusalInv, [Next]_vars
               PROVE  RefusalInv'
    OBVIOUS
  <2> USE DEF RefusalInv, Hidden, MethodAllowed, Permits
  <2>1. CASE UNCHANGED <<config, call>>
    BY <2>1
  <2>2. CASE OnInterface \/ Missed \/ OnContract \/ OnVersion \/ Reload \/ UNCHANGED vars
    BY <2>1, <2>2 DEF OnInterface, Missed, OnContract, OnVersion, Publish, Reload, vars
  <2>3. ASSUME NEW m \in Asked, NEW g \in Given \cup {None}, Ask(m, g)
        PROVE  RefusalInv'
    BY <2>3 DEF Ask
  <2>4. CASE Gate
    BY <2>4 DEF Gate, Finish, Goto, MethodPermitted
  <2>5. CASE Translate
    BY <2>5 DEF Translate, Finish, Goto
  <2>6. CASE Answer
    BY <2>6 DEF Answer, Finish, Goto
  <2> QED BY <2>2, <2>3, <2>4, <2>5, <2>6 DEF Next
<1>3. RefusalInv => HiddenLooksUnknown
  BY DEF RefusalInv, HiddenLooksUnknown, Hidden
<1> QED BY <1>1, <1>2, <1>3, PTL DEF Spec
----------------------------------------------------------------------------
(* What the arguments of a call are matched against. *)

(* The first entry of a name is one of its entries. *)
LEMMA FirstIsListed ==
  ASSUME NEW members, IsList(members), NEW name, Entries(members, name) # {}
  PROVE  \E i \in Entries(members, name) : FirstEntry(members, name) = members[i]
<1> DEFINE E == Entries(members, name)
<1>1. E \subseteq Nat
  BY DEF Entries, IsList
<1>2. PICK i \in E : \A j \in E : <<j, i>> \notin OpToRel(<, Nat)
  BY <1>1, WFMin, NatLessThanWellFounded, Zenon
<1>3. \A j \in E : ~(j < i)
  BY <1>1, <1>2, Zenon DEF OpToRel
<1>4. \E k \in E : \A j \in E : k <= j
  <2>1. \A j \in E : i <= j
    BY <1>1, <1>3
  <2> QED BY <2>1
<1> QED BY <1>4 DEF FirstEntry

(* Filling a signature gives one argument per parameter. *)
LEMMA FilledFits ==
  ASSUME NEW names, NEW n \in Nat, DOMAIN names = 1..n, NEW given
  PROVE  Len(Filled(names, given).args) = n
<1>1. Filled(names, given).args =
        [i \in 1..n |-> IF names[i] \in given THEN names[i] ELSE None]
  BY DEF Filled
<1> HIDE DEF Filled
<1> QED BY <1>1

(* A given name that is a parameter's has a place among the arguments. *)
LEMMA FilledKeeps ==
  ASSUME NEW names, NEW given, given \subseteq {names[i] : i \in DOMAIN names}
  PROVE  \A n \in given : \E i \in DOMAIN Filled(names, given).args :
           Filled(names, given).args[i] = n
  BY DEF Filled

Lidls == {b.lidl : b \in Builds} \ {None}

(* A served contract passed the check against the report beside it, and a  *)
(* discovery checks what it read against what it read.                     *)
Matched ==
  /\ provider \in Builds \cup {None}
  /\ view.live \in Reports
  /\ Typed(view) => view.contract \in Lidls /\ CrossCheckErrors(view.contract, view.live) = {}
  /\ reading.live \in Reports
  /\ reading.at = "version" => reading.contract \in Lidls

LEMMA MatchedAlways == Spec => []Matched
<1>1. Init => Matched
  BY DEF Init, Matched, Idle, Reports, Typed
<1>2. Matched /\ [Next]_vars => Matched'
  <2> SUFFICES ASSUME Matched, [Next]_vars
               PROVE  Matched'
    OBVIOUS
  <2>1. CASE UNCHANGED <<provider, view, reading>>
    BY <2>1 DEF Matched, Typed
  <2>2. ASSUME NEW status, NEW live \in Reports, NEW contract,
               status = "ok" => contract \in Lidls /\ CrossCheckErrors(contract, live) = {},
               Publish(status, live, contract)
        PROVE  Matched'
    <3>1. /\ view'.status = status /\ view'.live = live /\ view'.contract = contract
          /\ reading' = Idle /\ provider' = provider
      BY <2>2 DEF Publish, NewView
    <3> QED BY <2>2, <3>1 DEF Matched, Idle, Reports, Typed
  <2>3. CASE OnInterface
    <3>1. provider.live \in Reports
      <4>1. provider \in Builds
        BY <2>3 DEF OnInterface, Matched
      <4> QED BY <4>1 DEF Reports
    <3>2. CASE Publish("untyped", provider.live, None)
      BY <2>2, <3>1, <3>2
    <3>3. CASE /\ reading' = [at |-> "contract", live |-> provider.live, contract |-> None]
               /\ UNCHANGED <<config, provider, view, call>>
      BY <3>1, <3>3 DEF Matched, Typed
    <3> QED BY <2>3, <3>2, <3>3 DEF OnInterface
  <2>4. CASE Missed
    BY <2>4 DEF Missed, Matched, Idle, Reports, Typed
  <2>5. CASE OnContract
    <3>1. CASE Publish("invalid", reading.live, None)
      BY <2>2, <3>1 DEF Matched
    <3>2. CASE /\ provider # None /\ ReadContract(provider) # None
               /\ reading' = [at |-> "version", live |-> reading.live, contract |-> ReadContract(provider)]
               /\ UNCHANGED <<config, provider, view, call>>
      BY <3>2 DEF Matched, Typed, Lidls, ReadContract
    <3> QED BY <2>5, <3>1, <3>2 DEF OnContract
  <2>6. CASE OnVersion
    <3> DEFINE status == CheckedStatus(reading.contract, reading.live)
               contract == IF status = "ok" THEN reading.contract ELSE None
    <3>1. Publish(status, reading.live, contract)
      BY <2>6 DEF OnVersion
    <3>2. status = "ok" =>
            contract \in Lidls /\ CrossCheckErrors(contract, reading.live) = {}
      BY <2>6 DEF OnVersion, Matched, CheckedStatus
    <3> HIDE DEF status, contract
    <3> QED BY <2>2, <3>1, <3>2 DEF Matched
  <2>7. CASE Reload
    BY <2>7 DEF Reload, Matched, Typed
  <2>8. CASE Gate \/ Translate \/ Answer \/ UNCHANGED vars
    BY <2>1, <2>8 DEF Gate, Translate, Answer, vars
  <2>9. ASSUME NEW m \in Asked, NEW g \in Given \cup {None}, Ask(m, g)
        PROVE  Matched'
    BY <2>1, <2>9 DEF Ask
  <2> QED BY <2>3, <2>4, <2>5, <2>6, <2>7, <2>8, <2>9 DEF Next
<1> QED BY <1>1, <1>2, PTL DEF Spec

(* Lists of members, wherever they came from. *)
LEMMA MembersAreLists ==
  /\ \A live \in Reports : AreMembers(live.methods)
  /\ \A contract \in Lidls : AreMembers(contract.methods)
<1>1. AreMembers(NoReport.methods)
  BY DEF NoReport, AreMembers, IsList
<1> QED BY <1>1, BuildsAssumption DEF Reports, Lidls

(* What a translation that succeeds returns: every name given, and one     *)
(* argument for each parameter of an entry of what the view goes by.       *)
LEMMA TranslationFits ==
  ASSUME Matched, NEW method, NEW given, ToPositional(view, method, given).ok
  PROVE  LET args == ToPositional(view, method, given).args
             known == IF Typed(view) THEN view.contract.methods ELSE view.live.methods
         IN  /\ \A n \in given : \E i \in DOMAIN args : args[i] = n
             /\ \E i \in Entries(known, method) : Len(args) = Len(known[i].params)
<1> DEFINE known == IF Typed(view) THEN view.contract.methods ELSE view.live.methods
           args == ToPositional(view, method, given).args
<1>1. AreMembers(known)
  BY MembersAreLists DEF Matched
<1>2. Typed(view) => Resolved(view)
  BY DEF Typed, Resolved
<1>3. ~Refused.ok
  BY DEF Refused
<1>4. /\ Entries(known, method) # {}
      /\ ToPositional(view, method, given) =
           IF Typed(view) THEN TypedPositional(FirstEntry(known, method), given)
           ELSE LivePositional(FirstEntry(known, method).params, given)
  <2>1. CASE ~Resolved(view)
    <3>1. Entries(<<>>, method) = {}
      BY DEF Entries
    <3> QED BY <1>2, <1>3, <2>1, <3>1 DEF ToPositional
  <2>2. CASE Resolved(view)
    BY <1>2, <1>3, <2>2 DEF ToPositional
  <2> QED BY <2>1, <2>2
<1>5. PICK i \in Entries(known, method) : FirstEntry(known, method) = known[i]
  BY <1>1, <1>4, FirstIsListed DEF AreMembers
<1>6. IsList(known[i].params)
  BY <1>1, <1>5 DEF AreMembers, Entries
<1> DEFINE n == Len(known[i].params)
<1>7. PICK names : /\ DOMAIN names = 1..n
                   /\ given \subseteq {names[j] : j \in DOMAIN names}
                   /\ ToPositional(view, method, given) = Filled(names, given)
  <2>1. CASE Typed(view)
    <3> DEFINE m == FirstEntry(known, method)
               names == [j \in DOMAIN m.params |-> m.params[j].name]
    <3>1. ToPositional(view, method, given) = TypedPositional(m, given)
      BY <1>4, <2>1
    <3>2. DOMAIN names = 1..n
      BY <1>5, <1>6 DEF IsList
    <3>3. TypedPositional(m, given) = Filled(names, given)
          /\ given \subseteq {names[j] : j \in DOMAIN names}
      <4> DEFINE fits == /\ given \subseteq {names[j] : j \in DOMAIN names}
                         /\ \A j \in DOMAIN names : names[j] \in given \/ m.params[j].optional
      <4>1. TypedPositional(m, given) = IF fits THEN Filled(names, given) ELSE Refused
        BY Zenon DEF TypedPositional
      <4>2. ~Refused.ok
        BY DEF Refused
      <4>3. fits
        <5> HIDE DEF fits
        <5> QED BY <1>3, <3>1, <4>1, <4>2
      <4> HIDE DEF names, m
      <4> QED BY <4>1, <4>3
    <3>4. /\ DOMAIN names = 1..n
          /\ given \subseteq {names[j] : j \in DOMAIN names}
          /\ ToPositional(view, method, given) = Filled(names, given)
      <4> HIDE DEF names, m
      <4> QED BY <3>1, <3>2, <3>3
    <3> HIDE DEF names
    <3> QED BY <3>4
  <2>2. CASE ~Typed(view)
    <3> DEFINE names == FirstEntry(known, method).params
    <3>1. ToPositional(view, method, given) = LivePositional(names, given)
      BY <1>4, <2>2
    <3>2. DOMAIN names = 1..n
      BY <1>5, <1>6 DEF IsList
    <3>3. LivePositional(names, given) = Filled(names, given)
          /\ given \subseteq {names[j] : j \in DOMAIN names}
      BY <1>3, <3>1 DEF LivePositional
    <3> QED BY <3>1, <3>2, <3>3
  <2> QED BY <2>1, <2>2
<1>8. n \in Nat
  BY <1>6 DEF IsList
<1>9. Len(args) = n
  BY <1>7, <1>8, FilledFits
<1>10. \A x \in given : \E j \in DOMAIN args : args[j] = x
  BY <1>7, FilledKeeps
<1> QED BY <1>5, <1>9, <1>10

(* A contract that passed the check agrees with a listed entry in arity.   *)
LEMMA CheckedArity ==
  ASSUME NEW c, NEW live, CrossCheckErrors(c, live) = {},
         NEW name, Entries(live.methods, name) # {}, NEW i \in Entries(c.methods, name)
  PROVE  \E j \in Entries(live.methods, name) :
           Len(live.methods[j].params) = Len(c.methods[i].params)
<1>1. i \in DOMAIN c.methods /\ c.methods[i].name = name
  BY DEF Entries
<1>2. ~Disagrees(c.methods[i], live.methods, c.methods[i].derived)
  BY <1>1 DEF CrossCheckErrors
<1> QED BY <1>1, <1>2 DEF Disagrees, ArityMismatch

(* dispatchCall, toPositional and the cross-check: by-name arguments reach *)
(* the module whole, and as many as an entry of the report beside the view *)
(* takes, whatever discoveries and reloads come in between.                *)
THEOREM ArgumentsReachWhole == Spec => ArgumentsFit
<1> DEFINE Fit ==
      LET entries == Entries(view.live.methods, call.method) IN
      call.at = "translate" /\ call'.at = "sent" /\ call.given # None =>
        /\ \A n \in call.given : \E i \in DOMAIN call'.args : call'.args[i] = n
        /\ entries # {} =>
             \E i \in entries : Len(view.live.methods[i].params) = Len(call'.args)
<1>1. Matched /\ [Next]_vars => [Fit]_vars
  <2> SUFFICES ASSUME Matched, Next, call.at = "translate", call'.at = "sent", call.given # None
               PROVE  Fit
    BY DEF vars
  <2>1. Translate
    <3>1. CASE OnInterface \/ Missed \/ OnContract \/ OnVersion \/ Reload
      BY <3>1 DEF OnInterface, Missed, OnContract, OnVersion, Publish, Reload
    <3>2. CASE \/ \E m \in Asked, g \in Given \cup {None} : Ask(m, g)
               \/ Gate \/ Answer
      BY <3>2 DEF Ask, Gate, Answer
    <3> QED BY <3>1, <3>2 DEF Next
  <2> DEFINE p == ToPositional(view, call.method, call.given)
  <2>2. p.ok /\ call'.args = p.args
    BY <2>1 DEF Translate, Goto, Finish
  <2> HIDE DEF Fit
  <2>3. CASE Typed(view)
    <3>1. \A n \in call.given : \E i \in DOMAIN call'.args : call'.args[i] = n
      BY <2>2, TranslationFits
    <3>2. PICK i \in Entries(view.contract.methods, call.method) :
                 Len(call'.args) = Len(view.contract.methods[i].params)
      BY <2>2, <2>3, TranslationFits
    <3>3. CrossCheckErrors(view.contract, view.live) = {}
      BY <2>3 DEF Matched
    <3>4. Entries(view.live.methods, call.method) # {} =>
            \E j \in Entries(view.live.methods, call.method) :
              Len(view.live.methods[j].params) = Len(view.contract.methods[i].params)
      BY <3>3, CheckedArity
    <3> QED BY <3>1, <3>2, <3>4 DEF Fit
  <2>4. CASE ~Typed(view)
    BY <2>2, <2>4, TranslationFits DEF Fit
  <2> QED BY <2>3, <2>4
<1> QED BY <1>1, MatchedAlways, PTL DEF Spec, ArgumentsFit

----------------------------------------------------------------------------
(* The documents *)

(* A key is a key of itself. *)
LEMMA KeyOfKey == \A raw : ComponentKey(ComponentKey(raw)) = ComponentKey(raw)
<1> TAKE raw
<1> DEFINE part(x) == IF x \in DOMAIN Sanitized THEN Sanitized[x] ELSE x
<1>1. \A x : part(part(x)) = part(x)
  BY SanitizedAssumption
<1>2. \A r : ComponentKey(r) = [i \in DOMAIN r |-> part(r[i])]
  BY DEF ComponentKey
<1> HIDE DEF part
<1>3. DOMAIN ComponentKey(raw) = DOMAIN raw /\ \A i \in DOMAIN raw : ComponentKey(raw)[i] = part(raw[i])
  BY <1>2
<1>4. ComponentKey(ComponentKey(raw)) = [i \in DOMAIN raw |-> part(part(raw[i]))]
  BY <1>2, <1>3
<1> QED BY <1>1, <1>2, <1>4

LEMMA RecordRef ==
  \A module, type : SchemaRef(RecordComponentName(module, type)) = RecordComponentName(module, type)
<1> TAKE module, type
<1> DEFINE key == ComponentKey(Qualified(module, type))
<1>1. RecordComponentName(module, type) = <<"schemas", key>>
  BY DEF RecordComponentName
<1>2. ComponentKey(key) = key
  BY KeyOfKey
<1> HIDE DEF key
<1> QED BY <1>1, <1>2 DEF SchemaRef

(* What the schemas of a module may refer to. *)
Known(scope) == Shared \cup {RecordComponentName(scope.module, r) : r \in scope.records}

LEMMA SlotsKnown ==
  ASSUME NEW slots, NEW scope
  PROVE  Slots(slots, scope) \subseteq Known(scope)
<1>1. \A name : PrimitiveSchema(name) \subseteq Shared
  BY DEF PrimitiveSchema, Shared
<1>2. \A type : TypeSchema(type, scope) \subseteq Known(scope)
  BY <1>1, RecordRef DEF TypeSchema, Known
<1> QED BY <1>2 DEF Slots

LEMMA ResultKnown ==
  ASSUME NEW decl, NEW scope
  PROVE  MethodResultSchema(decl, scope) \subseteq Known(scope)
<1>1. \A name : PrimitiveSchema(name) \subseteq Shared
  BY DEF PrimitiveSchema, Shared
<1>2. \A type : TypeSchema(type, scope) \subseteq Known(scope)
  BY <1>1, RecordRef DEF TypeSchema, Known
<1>3. Schema("ProviderRejection") \in Known(scope)
  BY DEF Known, Shared
<1> QED BY <1>2, <1>3 DEF MethodResultSchema, ReturnSchema

(* The records a module's members know of are components of the document. *)
RecordKeys(ctx) == {r.key : r \in RecordComponents(ctx)}

LEMMA ScopesDefined ==
  ASSUME NEW ctx, NEW m \in Listing(ctx)
  PROVE  Known(TypeScope(m)) \subseteq Shared \cup RecordKeys(ctx)
<1> SUFFICES ASSUME NEW r \in TypeScope(m).records
             PROVE  RecordComponentName(m.name, r) \in RecordKeys(ctx)
  BY DEF Known, TypeScope
<1>1. IsTyped(m) /\ \E t \in m.interface.types : t.name = r
  BY DEF TypeScope
<1>2. PICK t \in m.interface.types : t.name = r
  BY <1>1
<1> DEFINE c == [key |-> RecordComponentName(m.name, t.name), refs |-> Slots(t.fields, TypeScope(m))]
<1>3. c \in RecordComponents(ctx)
  BY <1>1 DEF RecordComponents
<1>4. c.key = RecordComponentName(m.name, r)
  BY <1>2
<1> QED BY <1>3, <1>4 DEF RecordKeys

LEMMA EntriesKnown ==
  ASSUME NEW ctx
  PROVE  /\ \A e \in MethodEntries(ctx) : Known(e.scope) \subseteq Shared \cup RecordKeys(ctx)
         /\ \A e \in EventEntries(ctx) : Known(e.scope) \subseteq Shared \cup RecordKeys(ctx)
         /\ \A r \in RecordComponents(ctx) : r.refs \subseteq Shared \cup RecordKeys(ctx)
<1>1. ASSUME NEW e \in MethodEntries(ctx)
      PROVE  Known(e.scope) \subseteq Shared \cup RecordKeys(ctx)
  <2>1. PICK m, n : m \in Listing(ctx) /\ e = MethodEntry(m, n)
    BY DEF MethodEntries
  <2> QED BY <2>1, ScopesDefined DEF MethodEntry
<1>2. ASSUME NEW e \in EventEntries(ctx)
      PROVE  Known(e.scope) \subseteq Shared \cup RecordKeys(ctx)
  <2>1. PICK m, n : m \in Listing(ctx) /\ e = EventEntry(m, n)
    BY DEF EventEntries
  <2> QED BY <2>1, ScopesDefined DEF EventEntry
<1>3. ASSUME NEW r \in RecordComponents(ctx)
      PROVE  r.refs \subseteq Shared \cup RecordKeys(ctx)
  <2>1. PICK m, t : m \in Listing(ctx) /\ r.refs = Slots(t.fields, TypeScope(m))
    BY DEF RecordComponents
  <2> QED BY <2>1, SlotsKnown, ScopesDefined
<1> QED BY <1>1, <1>2, <1>3

LEMMA OpenRpcResolves ==
  ASSUME NEW ctx
  PROVE  BuildOpenRpc(ctx).refs \subseteq BuildOpenRpc(ctx).defines
<1> DEFINE defined == Shared \cup RecordKeys(ctx)
<1>1. \A e \in MethodEntries(ctx) : ModuleMethod(e).refs \subseteq defined
  BY EntriesKnown, SlotsKnown, ResultKnown DEF ModuleMethod
<1>2. \A e \in EventEntries(ctx) : EventDescriptor(e).refs \subseteq defined
  BY EntriesKnown, SlotsKnown DEF EventDescriptor
<1>3. \A r \in RecordComponents(ctx) : r.refs \subseteq defined
  BY EntriesKnown
<1>4. BuildOpenRpc(ctx).defines = defined
  BY DEF BuildOpenRpc, RecordKeys
<1>5. BuildOpenRpc(ctx).refs =
        UNION {x.refs : x \in {ModuleMethod(e) : e \in MethodEntries(ctx)}
                              \cup {EventDescriptor(e) : e \in EventEntries(ctx)}
                              \cup RecordComponents(ctx)}
  BY DEF BuildOpenRpc
<1> HIDE DEF defined
<1> QED BY <1>1, <1>2, <1>3, <1>4, <1>5

LEMMA OpenApiResolves ==
  ASSUME NEW ctx
  PROVE  BuildOpenApi(ctx).refs \subseteq BuildOpenApi(ctx).defines
<1> DEFINE defined == OpenApiComponents \cup RecordKeys(ctx)
<1>1. Shared \cup RecordKeys(ctx) \subseteq defined
  BY DEF OpenApiComponents
<1>2. FixedPathRefs \cup ComponentRefs \cup CallResponse({}) \cup GateResponses(TRUE)
        \cup {RequestBody("UntypedParams"), Response("UntypedCallResult"), RequestBody("NoParams")}
        \subseteq defined
  BY DEF OpenApiComponents, FixedPathRefs, ComponentRefs, CallResponse, GateResponses
<1>3. ASSUME NEW e \in MethodEntries(ctx)
      PROVE  ModuleOperation(e).refs \subseteq defined
  <2>1. Slots(e.decl.params, e.scope) \subseteq defined
    BY <1>1, EntriesKnown, SlotsKnown
  <2>2. CallResponse(MethodResultSchema(e.decl, e.scope)) \subseteq defined
    <3>1. MethodResultSchema(e.decl, e.scope) \subseteq defined
      BY <1>1, EntriesKnown, ResultKnown
    <3>2. CallResponse(MethodResultSchema(e.decl, e.scope)) =
            MethodResultSchema(e.decl, e.scope) \cup CallResponse({})
      BY DEF CallResponse
    <3> QED BY <1>2, <3>1, <3>2
  <2>3. ModuleOperation(e).refs \subseteq
          GateResponses(TRUE)
          \cup {RequestBody("UntypedParams"), Response("UntypedCallResult"), RequestBody("NoParams")}
          \cup Slots(e.decl.params, e.scope) \cup CallResponse(MethodResultSchema(e.decl, e.scope))
    BY DEF ModuleOperation
  <2> HIDE DEF defined
  <2> QED BY <1>2, <2>1, <2>2, <2>3
<1>4. \A r \in RecordComponents(ctx) : r.refs \subseteq defined
  BY <1>1, EntriesKnown
<1>5. BuildOpenApi(ctx).defines = defined
  BY DEF BuildOpenApi, RecordKeys
<1>6. BuildOpenApi(ctx).refs =
        FixedPathRefs \cup ComponentRefs \cup
        UNION {x.refs : x \in {ModuleOperation(e) : e \in MethodEntries(ctx)} \cup RecordComponents(ctx)}
  BY DEF BuildOpenApi
<1> HIDE DEF defined
<1> QED BY <1>2, <1>3, <1>4, <1>5, <1>6

(* The messages and operations of AsyncAPI, the document's builder aside. *)
MemberMessages(ctx) ==
  {MethodMessages(e) : e \in MethodEntries(ctx)} \cup {EventMessages(e) : e \in EventEntries(ctx)}
MemberOperations(ctx) ==
  {MethodOperations(e) : e \in MethodEntries(ctx)} \cup {EventOperations(e) : e \in EventEntries(ctx)}
Messages(ctx) == (UNION MemberMessages(ctx)) \cup SharedMessages
Operations(ctx) == (UNION MemberOperations(ctx)) \cup SharedOperations

LEMMA MembersNamed ==
  ASSUME NEW ctx
  PROVE  /\ \A e \in MethodEntries(ctx) : MethodMessages(e) \subseteq Messages(ctx)
         /\ \A e \in EventEntries(ctx) : EventMessages(e) \subseteq Messages(ctx)
         /\ SharedMessages \subseteq Messages(ctx)
         /\ \A x \in Messages(ctx) :
              \/ \E e \in MethodEntries(ctx) : x \in MethodMessages(e)
              \/ \E e \in EventEntries(ctx) : x \in EventMessages(e)
              \/ x \in SharedMessages
         /\ \A x \in Operations(ctx) :
              \/ \E e \in MethodEntries(ctx) : x \in MethodOperations(e)
              \/ \E e \in EventEntries(ctx) : x \in EventOperations(e)
              \/ x \in SharedOperations
<1>1. \A X : X \in MemberMessages(ctx) <=> \/ \E e \in MethodEntries(ctx) : X = MethodMessages(e)
                                          \/ \E e \in EventEntries(ctx) : X = EventMessages(e)
  BY DEF MemberMessages
<1>2. \A X : X \in MemberOperations(ctx) <=> \/ \E e \in MethodEntries(ctx) : X = MethodOperations(e)
                                            \/ \E e \in EventEntries(ctx) : X = EventOperations(e)
  BY DEF MemberOperations
<1>3. \A x : x \in Messages(ctx) <=> (\E X \in MemberMessages(ctx) : x \in X) \/ x \in SharedMessages
  BY DEF Messages
<1>4. \A x : x \in Operations(ctx) <=> (\E X \in MemberOperations(ctx) : x \in X) \/ x \in SharedOperations
  BY DEF Operations
<1> QED BY <1>1, <1>2, <1>3, <1>4

LEMMA SharedNamed ==
  ASSUME NEW ctx,
         NEW key \in {ErrorMessage, <<"rpc", "unsubscribe">>, <<"rpc", "unsubscribed">>,
                      <<"rpc", "subscription_terminated">>}
  PROVE  \E x \in Messages(ctx) : x.key = key
<1>1. SharedMessages \subseteq Messages(ctx)
  BY MembersNamed
<1>2. \A k, m, r : Entry(k, m, r).key = k
  BY DEF Entry
<1>3. PICK refs : Entry(key, BridgeOp, refs) \in SharedMessages
  BY DEF SharedMessages
<1> QED BY <1>1, <1>2, <1>3

LEMMA AsyncApiResolves ==
  ASSUME NEW ctx
  PROVE  BuildAsyncApi(ctx).refs \subseteq BuildAsyncApi(ctx).defines
<1> DEFINE schemas == SchemaComponents \cup {ByRequestId, BySubscription} \cup RecordKeys(ctx)
           named == {Message(x.key) : x \in Messages(ctx)}
<1>1. Shared \cup RecordKeys(ctx) \subseteq schemas
  BY DEF SchemaComponents
<1>2. {Schema("JsonRpcId"), ByRequestId, BySubscription, Schema("SubscriptionId"), Schema("NoParams"),
       Schema("SubscriptionState"), Schema("EventGeneration"), Schema("EventTimestamp"),
       Schema("JsonRpcError")} \subseteq schemas
  BY DEF SchemaComponents
<1>3. ASSUME NEW e \in MethodEntries(ctx)
      PROVE  /\ \A x \in MethodMessages(e) : x.refs \subseteq schemas
             /\ \A x \in MethodOperations(e) : x.refs \subseteq named
  <2>1. Slots(e.decl.params, e.scope) \subseteq schemas /\ MethodResultSchema(e.decl, e.scope) \subseteq schemas
    BY <1>1, EntriesKnown, SlotsKnown, ResultKnown
  <2>2. \A x \in MethodMessages(e) : x.refs \subseteq schemas
    <3> HIDE DEF schemas
    <3> QED BY <1>2, <2>1 DEF MethodMessages, Entry, RequestPayload, ResultPayload
  <2> DEFINE key == ComponentKey(Qualified(e.module, e.method))
  <2>3. \A word \in {"request", "result"} : \E x \in Messages(ctx) : x.key = key \o <<word>>
    <3>1. MethodMessages(e) \subseteq Messages(ctx)
      BY MembersNamed
    <3>2. \A word \in {"request", "result"} : \E x \in MethodMessages(e) : x.key = key \o <<word>>
      BY DEF MethodMessages, Entry
    <3> QED BY <3>1, <3>2
  <2>4. Message(ErrorMessage) \in named
    BY SharedNamed
  <2>5. \A x \in MethodOperations(e) :
          x.refs = {Message(key \o <<"request">>), Message(key \o <<"result">>), Message(ErrorMessage)}
    BY DEF MethodOperations, Entry
  <2> QED BY <2>2, <2>3, <2>4, <2>5
<1>4. ASSUME NEW e \in EventEntries(ctx)
      PROVE  /\ \A x \in EventMessages(e) : x.refs \subseteq schemas
             /\ \A x \in EventOperations(e) : x.refs \subseteq named
  <2>1. Slots(e.decl.params, e.scope) \subseteq schemas
    BY <1>1, EntriesKnown, SlotsKnown
  <2>2. \A x \in EventMessages(e) : x.refs \subseteq schemas
    <3> HIDE DEF schemas
    <3> QED BY <1>2, <2>1 DEF EventMessages, Entry, RequestPayload, ResultPayload, NotificationPayload
  <2> DEFINE key == ComponentKey(Qualified(e.module, e.event))
  <2>3. \A word \in {"subscribe", "subscribed", "event"} : \E x \in Messages(ctx) : x.key = key \o <<word>>
    <3>1. EventMessages(e) \subseteq Messages(ctx)
      BY MembersNamed
    <3>2. \A word \in {"subscribe", "subscribed", "event"} : \E x \in EventMessages(e) : x.key = key \o <<word>>
      BY DEF EventMessages, Entry
    <3> QED BY <3>1, <3>2
  <2>4. Message(ErrorMessage) \in named
    BY SharedNamed
  <2>5. \A x \in EventOperations(e) :
          \/ x.refs = {Message(key \o <<"subscribe">>), Message(key \o <<"subscribed">>), Message(ErrorMessage)}
          \/ x.refs = {Message(key \o <<"event">>)}
    BY DEF EventOperations, Entry
  <2> QED BY <2>2, <2>3, <2>4, <2>5
<1>5. /\ \A x \in SharedMessages : x.refs \subseteq schemas
      /\ \A x \in SharedOperations : x.refs \subseteq named
  <2>1. \A x \in SharedMessages : x.refs \subseteq schemas
    <3> HIDE DEF schemas
    <3> QED BY <1>2 DEF SharedMessages, Entry, RequestPayload, ResultPayload, NotificationPayload
  <2>2. \A key \in {ErrorMessage, <<"rpc", "unsubscribe">>, <<"rpc", "unsubscribed">>,
                    <<"rpc", "subscription_terminated">>} : Message(key) \in named
    BY SharedNamed
  <2> HIDE DEF named
  <2> QED BY <2>1, <2>2 DEF SharedOperations, Entry
<1>6. \A r \in RecordComponents(ctx) : r.refs \subseteq schemas
  BY <1>1, EntriesKnown
<1>7. BuildAsyncApi(ctx).defines = schemas \cup named
  BY DEF BuildAsyncApi, Messages, MemberMessages, RecordKeys
<1>8. BuildAsyncApi(ctx).refs =
        UNION {x.refs : x \in Messages(ctx) \cup Operations(ctx) \cup RecordComponents(ctx)}
  BY DEF BuildAsyncApi, Messages, MemberMessages, Operations, MemberOperations
<1> HIDE DEF schemas, named
<1>9. /\ \A x \in Messages(ctx) : x.refs \subseteq schemas
      /\ \A x \in Operations(ctx) : x.refs \subseteq named
  BY <1>3, <1>4, <1>5, MembersNamed
<1> QED BY <1>6, <1>7, <1>8, <1>9

(* Every $ref of the three documents resolves in its own document,         *)
(* whatever modules there are and whatever their contracts say.            *)
THEOREM ReferencesResolve == SelfSpec => []EveryRefResolves
<1>1. EveryRefResolves
  BY OpenRpcResolves, OpenApiResolves, AsyncApiResolves DEF EveryRefResolves
<1> QED BY <1>1, PTL

----------------------------------------------------------------------------
(* A started bridge *)

(* A started bridge follows its module as ModuleViews does. *)
LEMMA FollowsViews == SelfSpec => Spec
<1>1. SelfInit => Init
  BY DEF SelfInit
<1>2. [SelfNext]_selfVars => [Next]_vars
  BY DEF SelfNext, selfVars
<1> QED BY <1>1, <1>2, PTL DEF SelfSpec, Spec

(* The configured names: one part each, no two alike, none the bridge's. *)
Started ==
  /\ \A i, j \in DOMAIN bridge.modules : bridge.modules[i].name = bridge.modules[j].name => i = j
  /\ \A i \in DOMAIN bridge.modules :
       \E part : bridge.modules[i].name = <<part>> /\ part \notin {"", "rpc"}
  /\ \E i \in DOMAIN bridge.modules : bridge.modules[i].name = Followed /\ config = bridge.modules[i]

LEMMA OnePart ==
  ASSUME NEW name \in Seq(STRING), Len(name) = 1
  PROVE  name = <<name[1]>>
<1> DEFINE one == <<name[1]>>
<1>1. name[1] \in STRING
  BY LenProperties
<1>2. one \in Seq(STRING) /\ Len(one) = 1 /\ one[1] = name[1]
  BY <1>1
<1>3. \A i \in 1..Len(name) : name[i] = one[i]
  BY <1>2
<1> HIDE DEF one
<1>4. name = one
  BY <1>2, <1>3, SeqEqual
<1> QED BY <1>4 DEF one

LEMMA AcceptedNames ==
  ASSUME NEW doc \in Written, Accepts(doc)
  PROVE  LET modules == ParseBridgeConfig(doc).modules IN
         /\ \A i, j \in DOMAIN modules : modules[i].name = modules[j].name => i = j
         /\ \A i \in DOMAIN modules : \E part : modules[i].name = <<part>> /\ part \notin {"", "rpc"}
<1>1. /\ doc # Bad /\ doc.modules \notin {Absent, Bad}
      /\ \A i \in DOMAIN doc.modules : AcceptsModule(doc.modules[i])
      /\ \A i, j \in DOMAIN doc.modules : doc.modules[i].name = doc.modules[j].name => i = j
  BY DEF Accepts, AcceptsExpose
<1>2. ParseBridgeConfig(doc).modules = [i \in DOMAIN doc.modules |-> ReadModule(doc.modules[i])]
  BY DEF ParseBridgeConfig
<1>3. \A m : ReadModule(m).name = m.name
  BY DEF ReadModule
<1>4. ASSUME NEW i \in DOMAIN doc.modules
      PROVE  \E part : doc.modules[i].name = <<part>> /\ part \notin {"", "rpc"}
  <2> DEFINE name == doc.modules[i].name
  <2>1. /\ doc.modules[i] # Bad /\ name # Bad /\ name # <<"">> /\ name # <<"rpc">> /\ Len(name) = 1
    BY <1>1 DEF AcceptsModule, CheckModuleName
  <2>2. name \in Seq(STRING)
    BY <1>1, <2>1, WrittenAssumption
  <2> HIDE DEF name
  <2>3. name = <<name[1]>>
    BY <2>1, <2>2, OnePart
  <2>4. doc.modules[i].name = <<name[1]>>
    BY <2>3 DEF name
  <2>5. name[1] \notin {"", "rpc"}
    BY <2>1, <2>3
  <2> QED BY <2>4, <2>5
<1> DEFINE modules == ParseBridgeConfig(doc).modules
<1>5. DOMAIN modules = DOMAIN doc.modules /\ \A i \in DOMAIN modules : modules[i].name = doc.modules[i].name
  BY <1>2, <1>3
<1> HIDE DEF modules
<1>6. /\ \A i, j \in DOMAIN modules : modules[i].name = modules[j].name => i = j
      /\ \A i \in DOMAIN modules : \E part : modules[i].name = <<part>> /\ part \notin {"", "rpc"}
  BY <1>1, <1>4, <1>5
<1> QED BY <1>6 DEF modules

LEMMA StartedAlways == SelfSpec => []Started
<1>1. SelfInit => Started
  <2> SUFFICES ASSUME SelfInit
               PROVE  Started
    OBVIOUS
  <2>1. PICK doc \in Written : Accepts(doc) /\ bridge = ParseBridgeConfig(doc)
    BY DEF SelfInit
  <2>2. \E i \in DOMAIN bridge.modules : bridge.modules[i].name = Followed /\ config = bridge.modules[i]
    BY DEF SelfInit
  <2> QED BY <2>1, <2>2, AcceptedNames DEF Started
<1>2. Started /\ [SelfNext]_selfVars => Started'
  <2> SUFFICES ASSUME Started, [SelfNext]_selfVars
               PROVE  Started'
    OBVIOUS
  <2>1. bridge' = bridge
    BY DEF SelfNext, selfVars
  <2>2. config' = config
    BY DEF SelfNext, selfVars, vars, Next, OnInterface, Missed, OnContract, OnVersion, Publish, Reload,
           Ask, Gate, Translate, Answer
  <2> QED BY <2>1, <2>2 DEF Started
<1> QED BY <1>1, <1>2, PTL DEF SelfSpec

(* Every module of the documents is one of the configured ones; the one    *)
(* that is followed is described by its view.                              *)
LEMMA ListedModules ==
  ASSUME Started, NEW m \in Listing(Ctx)
  PROVE  /\ \E i \in DOMAIN bridge.modules : m.name = bridge.modules[i].name
         /\ m.name = Followed => m = ToModuleDoc(Followed, view) /\ HasOperations(m)
<1>1. PICK i \in DOMAIN bridge.modules :
        /\ m = ToModuleDoc(bridge.modules[i].name, IF i = Place THEN view ELSE others[i])
        /\ HasOperations(m)
  BY DEF Listing, Ctx
<1>2. m.name = bridge.modules[i].name
  BY <1>1 DEF ToModuleDoc
<1>3. Place \in DOMAIN bridge.modules /\ bridge.modules[Place].name = Followed
  BY DEF Started, Place
<1>4. m.name = Followed => i = Place
  BY <1>2, <1>3 DEF Started
<1> QED BY <1>1, <1>2, <1>4

LEMMA FollowedConfig == Started => config = bridge.modules[Place]
  BY DEF Started, Place

(* What an exposed name of a view is declared or listed as. *)
LEMMA ExposedIsKnown ==
  ASSUME NEW em, NEW v, NEW name \in ExposureOf(em, v).methods
  PROVE  /\ Typed(v) => Entries(v.contract.methods, name) # {}
         /\ ~Typed(v) => Resolved(v) /\ Entries(v.live.methods, name) # {}
<1>1. CASE Typed(v)
  <2>1. name \in Names(v.contract.methods)
    BY <1>1 DEF ExposureOf, ExposeDeclared
  <2> QED BY <1>1, <2>1 DEF Names, Entries
<1>2. CASE ~Typed(v)
  <2>1. Resolved(v)
    BY <1>2 DEF ExposureOf, NoExposure
  <2>2. name \in Names(v.live.methods)
    BY <1>2, <2>1 DEF ExposureOf, ExposeLive, ExposeDeclared
  <2> QED BY <1>2, <2>1, <2>2 DEF Names, Entries
<1> QED BY <1>1, <1>2

(* The entry of a method of the module that is followed. *)
LEMMA FollowedMethod ==
  ASSUME Started, Matched, ExposureIsCurrent, NEW e \in MethodEntries(Ctx), e.module = Followed
  PROVE  /\ e.method \in view.exposure.methods
         /\ Typed(view) => /\ Entries(view.contract.methods, e.method) # {}
                           /\ e.decl = FirstEntry(view.contract.methods, e.method) /\ e.decl # None
         /\ ~Typed(view) => /\ Resolved(view) /\ Entries(view.live.methods, e.method) # {}
                            /\ e.decl = None
                            /\ e.live = FirstEntry(view.live.methods, e.method) /\ e.live # None
<1>1. PICK m, n : m \in Listing(Ctx) /\ n \in m.exposure.methods /\ e = MethodEntry(m, n)
  BY DEF MethodEntries
<1>2. m = ToModuleDoc(Followed, view) /\ e.method = n
  BY <1>1, ListedModules DEF MethodEntry
<1>3. n \in view.exposure.methods
  BY <1>1, <1>2 DEF ToModuleDoc
<1>4. \A members : AreMembers(members) /\ Entries(members, n) # {} =>
        FirstOf(members, n) = FirstEntry(members, n) /\ FirstEntry(members, n) # None
  BY FirstIsListed DEF FirstOf, AreMembers, Entries
<1>5. CASE Typed(view)
  <2>1. view.contract \in Lidls /\ view.contract # None
    BY <1>5 DEF Matched, Lidls
  <2>2. IsTyped(m) /\ m.interface = view.contract
    BY <1>2, <1>5, <2>1 DEF ToModuleDoc, IsTyped, Typed
  <2>3. Entries(view.contract.methods, n) # {}
    BY <1>3, <1>5, ExposedIsKnown DEF ExposureIsCurrent
  <2>4. e.decl = FirstOf(view.contract.methods, n)
    BY <1>1, <2>2 DEF MethodEntry
  <2>5. AreMembers(view.contract.methods)
    BY <2>1, MembersAreLists
  <2> QED BY <1>2, <1>3, <1>4, <1>5, <2>3, <2>4, <2>5
<1>6. CASE ~Typed(view)
  <2>1. Resolved(view) /\ Entries(view.live.methods, n) # {}
    BY <1>3, <1>6, ExposedIsKnown DEF ExposureIsCurrent
  <2>2. ~IsTyped(m) /\ m.liveMethods = view.live.methods
    BY <1>2, <1>6, <2>1 DEF ToModuleDoc, IsTyped, Typed
  <2>3. e.decl = None /\ e.live = FirstOf(view.live.methods, n)
    BY <1>1, <2>2 DEF MethodEntry
  <2>4. AreMembers(view.live.methods)
    BY MembersAreLists DEF Matched
  <2> QED BY <1>2, <1>3, <1>4, <1>6, <2>1, <2>3, <2>4
<1> QED BY <1>5, <1>6

(* The SMT backend cannot read the empty string itself. *)
Blank == ""

(* Where every slot has a name OpenRPC makes none up. *)
LEMMA NamedAlike ==
  ASSUME NEW decl, \A j \in DOMAIN decl.params : decl.params[j].name # Blank
  PROVE  DeclParams(decl) = ParamsObject(decl)
<1> DEFINE made == [i \in DOMAIN decl.params |-> ParamName(decl.params[i].name, i)]
<1>1. \A name, i : name # Blank => ParamName(name, i) = name
  BY Zenon DEF ParamName, Blank
<1>2. DOMAIN made = DOMAIN decl.params /\ \A j \in DOMAIN decl.params : made[j] = decl.params[j].name
  BY <1>1
<1>3. DeclParams(decl) =
        [names |-> {made[i] : i \in DOMAIN made},
         required |-> {made[i] : i \in {i \in DOMAIN made : ~decl.params[i].optional}}]
  BY Zenon DEF DeclParams
<1> HIDE DEF made
<1>4. /\ {made[i] : i \in DOMAIN made} = SlotNames(decl.params)
      /\ {made[i] : i \in {i \in DOMAIN made : ~decl.params[i].optional}} =
           {decl.params[i].name : i \in {i \in DOMAIN decl.params : ~decl.params[i].optional}}
  BY <1>2 DEF SlotNames
<1> QED BY <1>3, <1>4 DEF ParamsObject

(* The parameters of a served contract have names. *)
LEMMA FollowedNamed ==
  ASSUME Started, Matched, ExposureIsCurrent, NEW e \in MethodEntries(Ctx), e.module = Followed,
         e.decl # None
  PROVE  DeclParams(e.decl) = ParamsObject(e.decl)
<1>1. /\ Typed(view) /\ Entries(view.contract.methods, e.method) # {}
      /\ e.decl = FirstEntry(view.contract.methods, e.method)
  BY FollowedMethod
<1>2. view.contract \in Lidls
  BY <1>1 DEF Matched
<1>3. AreMembers(view.contract.methods)
  BY <1>2, MembersAreLists
<1>4. PICK i \in DOMAIN view.contract.methods : e.decl = view.contract.methods[i]
  BY <1>1, <1>3, FirstIsListed DEF AreMembers, Entries
<1>5. \A j \in DOMAIN e.decl.params : e.decl.params[j].name # Blank
  <2>1. PICK b \in Builds : b.lidl # None /\ view.contract = b.lidl
    BY <1>2 DEF Lidls
  <2>2. \A j \in DOMAIN b.lidl.methods[i].params : b.lidl.methods[i].params[j].name # Blank
    BY <1>4, <2>1, NamedParamsAssumption, Zenon DEF Blank
  <2> QED BY <1>4, <2>1, <2>2
<1> QED BY <1>5, NamedAlike

(* typedPositional accepts what paramsObject admits. *)
LEMMA TypedAdmits ==
  ASSUME NEW decl, NEW given
  PROVE  /\ Admits(ParamsObject(decl), given) <=> TypedPositional(decl, given).ok
         /\ ~AnyRequiredParam(decl) => TypedPositional(decl, {}).ok
         /\ decl.params = <<>> => TypedPositional(decl, {}).args = <<>>
<1> DEFINE names == [j \in DOMAIN decl.params |-> decl.params[j].name]
           fits(g) == /\ g \subseteq {names[j] : j \in DOMAIN names}
                      /\ \A j \in DOMAIN names : names[j] \in g \/ decl.params[j].optional
<1>1. \A g : TypedPositional(decl, g) = IF fits(g) THEN Filled(names, g) ELSE Refused
  BY DEF TypedPositional
<1>2. \A g : Filled(names, g).ok /\ ~Refused.ok
  BY DEF Filled, Refused
<1>3. \A g : TypedPositional(decl, g).ok <=> fits(g)
  <2> HIDE DEF fits, names
  <2> QED BY <1>1, <1>2
<1>4. \A g : fits(g) <=> Admits(ParamsObject(decl), g)
  BY DEF Admits, ParamsObject, SlotNames
<1>5. ~AnyRequiredParam(decl) => Admits(ParamsObject(decl), {})
  BY DEF Admits, ParamsObject, AnyRequiredParam
<1>6. ASSUME decl.params = <<>>
      PROVE  TypedPositional(decl, {}).args = <<>>
  <2>1. names = <<>> /\ DOMAIN names = {}
    BY <1>6
  <2>2. Filled(<<>>, {}).args = <<>> /\ Refused.args = <<>>
    BY DEF Filled, Refused
  <2> HIDE DEF fits, names
  <2> QED BY <1>1, <2>1, <2>2
<1> HIDE DEF fits, names
<1> QED BY <1>3, <1>4, <1>5, <1>6

(* A names-only method takes any of its names, made-up ones aside. *)
LEMMA LiveAdmits ==
  ASSUME NEW live, NEW given
  PROVE  /\ LET names == LiveParamNames(live)
                object == [names |-> {names[i] : i \in DOMAIN names}, required |-> {}]
            IN AllNamed(live) => (Admits(object, given) <=> LivePositional(live.params, given).ok)
         /\ LivePositional(live.params, {}).ok
<1>1. \A g : LivePositional(live.params, g).ok <=> g \subseteq {live.params[i] : i \in DOMAIN live.params}
  BY DEF LivePositional, Filled, Refused
<1>2. AllNamed(live) =>
        {LiveParamNames(live)[i] : i \in DOMAIN LiveParamNames(live)} =
          {live.params[i] : i \in DOMAIN live.params}
  <2>1. \A name, i : name # Blank => ParamName(name, i) = name
    BY Zenon DEF ParamName, Blank
  <2>2. AllNamed(live) => \A i \in DOMAIN live.params : live.params[i] # Blank
    BY Zenon DEF AllNamed, Blank
  <2> QED BY <2>1, <2>2 DEF LiveParamNames
<1> QED BY <1>1, <1>2 DEF Admits

(* What toPositional makes of the params of a listed method. *)
LEMMA FollowedPositional ==
  ASSUME Started, Matched, ExposureIsCurrent, NEW e \in MethodEntries(Ctx), e.module = Followed,
         NEW given
  PROVE  ToPositional(view, e.method, given) =
           IF e.decl # None THEN TypedPositional(e.decl, given) ELSE LivePositional(e.live.params, given)
<1>1. CASE Typed(view)
  BY <1>1, FollowedMethod DEF ToPositional
<1>2. CASE ~Typed(view)
  BY <1>2, FollowedMethod DEF ToPositional
<1> QED BY <1>1, <1>2

LEMMA FollowedEvent ==
  ASSUME Started, NEW e \in EventEntries(Ctx), e.module = Followed
  PROVE  e.event \in view.exposure.events
<1>1. PICK m, n : m \in Listing(Ctx) /\ n \in m.exposure.events /\ e = EventEntry(m, n)
  BY DEF EventEntries
<1>2. m = ToModuleDoc(Followed, view) /\ e.event = n
  BY <1>1, ListedModules DEF EventEntry
<1> QED BY <1>1, <1>2 DEF ToModuleDoc

(* The documents against gating and translation: whatever a client         *)
(* generated from them calls is let through and, for a typed or fully      *)
(* named method, its params are accepted exactly when the documents admit  *)
(* them, whatever was discovered.                                          *)
THEOREM GeneratedCallsWork == SelfSpec => []GeneratedCallsAreAccepted
<1>1. Started /\ Matched /\ ExposureIsCurrent => GeneratedCallsAreAccepted
  <2> SUFFICES ASSUME Started, Matched, ExposureIsCurrent
               PROVE  GeneratedCallsAreAccepted
    OBVIOUS
  <2>1. ASSUME NEW e \in EventEntries(Ctx), e.module = Followed
        PROVE  EventPermitted(config, view, e.event)
    BY <2>1, FollowedEvent, EventsAgree DEF ExposureIsCurrent
  <2>2. ASSUME NEW e \in MethodEntries(Ctx), e.module = Followed
        PROVE  LET rpc == ModuleMethod(e)
                   api == ModuleOperation(e)
                   accepts(given) == ToPositional(view, e.method, given).ok
               IN /\ MethodPermitted(config, view, e.method)
                  /\ rpc.structure = "either" =>
                       \A given \in SUBSET (rpc.object.names \cup {"other"}) :
                         Admits(rpc.object, given) <=> accepts(given)
                  /\ ~api.untyped =>
                       \A given \in SUBSET (api.object.names \cup {"other"}) :
                         Admits(api.object, given) <=> accepts(given)
                  /\ ~api.bodyRequired => accepts({})
                  /\ e.decl # None /\ ~ParamsRequired(e) => ToPositional(view, e.method, {}).args = <<>>
    <3> DEFINE rpc == ModuleMethod(e)
               api == ModuleOperation(e)
    <3>1. MethodPermitted(config, view, e.method)
      BY <2>2, FollowedMethod, MethodsAgree DEF ExposureIsCurrent
    <3>2. CASE e.decl # None
      <4>1. rpc.object = ParamsObject(e.decl) /\ api.object = ParamsObject(e.decl)
        BY <2>2, <3>2, FollowedNamed DEF ModuleMethod, ModuleOperation
      <4>2. ~api.bodyRequired => ~AnyRequiredParam(e.decl)
        BY <3>2 DEF ModuleOperation
      <4>3. ~ParamsRequired(e) => e.decl.params = <<>>
        BY <3>2 DEF ParamsRequired
      <4>4. \A given : ToPositional(view, e.method, given) = TypedPositional(e.decl, given)
        BY <2>2, <3>2, FollowedPositional
      <4> HIDE DEF rpc, api
      <4>5. \A given : Admits(ParamsObject(e.decl), given) <=> ToPositional(view, e.method, given).ok
        BY <4>4, TypedAdmits
      <4>6. ~api.bodyRequired => ToPositional(view, e.method, {}).ok
        BY <4>2, <4>4, TypedAdmits
      <4>7. ~ParamsRequired(e) => ToPositional(view, e.method, {}).args = <<>>
        BY <4>3, <4>4, TypedAdmits
      <4> QED BY <3>1, <4>1, <4>5, <4>6, <4>7 DEF rpc, api
    <3>3. CASE e.decl = None
      <4>1. e.live # None
        BY <2>2, <3>3, FollowedMethod
      <4>2. /\ api.untyped
            /\ rpc.structure = "either" => AllNamed(e.live)
            /\ rpc.object = LET names == LiveParamNames(e.live) IN
                            [names |-> {names[i] : i \in DOMAIN names}, required |-> {}]
        BY <3>3, <4>1 DEF ModuleMethod, ModuleOperation, ParamStructure
      <4>3. \A given : ToPositional(view, e.method, given) = LivePositional(e.live.params, given)
        BY <2>2, <3>3, FollowedPositional
      <4> HIDE DEF rpc, api
      <4>4. rpc.structure = "either" =>
              \A given : Admits(rpc.object, given) <=> ToPositional(view, e.method, given).ok
        BY <4>2, <4>3, LiveAdmits
      <4>5. ToPositional(view, e.method, {}).ok
        BY <4>3, LiveAdmits
      <4> QED BY <3>1, <3>3, <4>2, <4>4, <4>5 DEF rpc, api
    <3> QED BY <3>2, <3>3
  <2> QED BY <2>1, <2>2 DEF GeneratedCallsAreAccepted
<1> QED BY <1>1, StartedAlways, FollowsViews, MatchedAlways, ExposureStaysCurrent, PTL
----------------------------------------------------------------------------
(* Names that keep apart *)

KeyPart(x) == IF x \in DOMAIN Sanitized THEN Sanitized[x] ELSE x

(* A sequence with one more element. *)
LEMMA Joined ==
  ASSUME NEW S, NEW s \in Seq(S), NEW e \in S, NEW t \in Seq(S), Len(t) = Len(s) + 1,
         \A i \in 1..Len(s) : t[i] = s[i], t[Len(s) + 1] = e
  PROVE  s \o <<e>> = t
<1> DEFINE one == <<e>>
           all == s \o one
<1>1. one \in Seq(S) /\ Len(one) = 1 /\ one[1] = e
  OBVIOUS
<1> HIDE DEF one
<1>2. /\ all \in Seq(S)
      /\ Len(all) = Len(s) + 1
      /\ \A i \in 1..(Len(s) + 1) : all[i] = IF i <= Len(s) THEN s[i] ELSE one[i - Len(s)]
  <2>1. /\ all \in Seq(S)
        /\ Len(all) = Len(s) + Len(one)
        /\ \A i \in 1..(Len(s) + Len(one)) : all[i] = IF i <= Len(s) THEN s[i] ELSE one[i - Len(s)]
    BY <1>1, ConcatProperties
  <2> HIDE DEF all
  <2> QED BY <1>1, <2>1
<1>3. Len(s) \in Nat
  BY LenProperties
<1> HIDE DEF all
<1>4. \A i \in 1..Len(all) : all[i] = t[i]
  <2> TAKE i \in 1..Len(all)
  <2>1. CASE i <= Len(s)
    BY <1>2, <1>3, <2>1
  <2>2. CASE i = Len(s) + 1
    BY <1>1, <1>2, <1>3, <2>2
  <2> QED BY <1>2, <1>3, <2>1, <2>2
<1>5. all = t
  BY <1>2, <1>4, SeqEqual
<1> QED BY <1>5 DEF all, one

LEMMA SecondPart ==
  ASSUME NEW a, NEW b
  PROVE  <<a>> \o <<b>> = <<a, b>>
<1> DEFINE S == {a, b}
           s == <<a>>
           t == <<a, b>>
<1>1. s \in Seq(S) /\ Len(s) = 1 /\ s[1] = a
  OBVIOUS
<1>2. t \in Seq(S) /\ Len(t) = 2 /\ t[1] = a /\ t[2] = b
  OBVIOUS
<1>3. b \in S
  OBVIOUS
<1> HIDE DEF s, t, S
<1>4. /\ Len(t) = Len(s) + 1
      /\ \A i \in 1..Len(s) : t[i] = s[i]
      /\ t[Len(s) + 1] = b
  BY <1>1, <1>2
<1>5. s \o <<b>> = t
  BY <1>1, <1>2, <1>3, <1>4, Joined
<1> QED BY <1>5 DEF s, t

LEMMA ThirdPart ==
  ASSUME NEW a, NEW b, NEW word
  PROVE  <<a, b>> \o <<word>> = <<a, b, word>>
<1> DEFINE S == {a, b, word}
           s == <<a, b>>
           t == <<a, b, word>>
<1>1. s \in Seq(S) /\ Len(s) = 2 /\ s[1] = a /\ s[2] = b
  OBVIOUS
<1>2. t \in Seq(S) /\ Len(t) = 3 /\ t[1] = a /\ t[2] = b /\ t[3] = word
  OBVIOUS
<1>3. word \in S
  OBVIOUS
<1> HIDE DEF s, t, S
<1>4. /\ Len(t) = Len(s) + 1
      /\ \A i \in 1..Len(s) : t[i] = s[i]
      /\ t[Len(s) + 1] = word
  BY <1>1, <1>2
<1>5. s \o <<word>> = t
  BY <1>1, <1>2, <1>3, <1>4, Joined
<1> QED BY <1>5 DEF s, t
LEMMA TwoParts ==
  ASSUME NEW part, NEW name
  PROVE  /\ Qualified(<<part>>, name) = <<part, name>>
         /\ ComponentKey(Qualified(<<part>>, name)) = <<KeyPart(part), KeyPart(name)>>
<1>1. Qualified(<<part>>, name) = <<part, name>>
  BY SecondPart DEF Qualified
<1>2. ComponentKey(<<part, name>>) = [i \in 1..2 |-> KeyPart(<<part, name>>[i])]
  BY DEF ComponentKey, KeyPart
<1>3. [i \in 1..2 |-> KeyPart(<<part, name>>[i])] = <<KeyPart(part), KeyPart(name)>>
  <2> HIDE DEF KeyPart
  <2> QED OBVIOUS
<1> QED BY <1>1, <1>2, <1>3

(* No key begins like the bridge's own. *)
LEMMA KeyedApart == \A part : part # "rpc" => KeyPart(part) # "rpc"
BY SanitizedAssumption DEF KeyPart

(* A listed member has a name, and its module one that is not the bridge's. *)
LEMMA EntryNames ==
  ASSUME Started
  PROVE  /\ \A e \in MethodEntries(Ctx) :
              e.method # Blank /\ \E part : e.module = <<part>> /\ part \notin {Blank, "rpc"}
         /\ \A e \in EventEntries(Ctx) :
              \E part : e.module = <<part>> /\ part \notin {Blank, "rpc"}
<1>1. ASSUME NEW m \in Listing(Ctx)
      PROVE  \E part : m.name = <<part>> /\ part \notin {Blank, "rpc"}
  <2>1. PICK i \in DOMAIN bridge.modules : m.name = bridge.modules[i].name
    BY ListedModules
  <2>2. \E part : bridge.modules[i].name = <<part>> /\ part \notin {Blank, "rpc"}
    BY Zenon DEF Started, Blank
  <2> QED BY <2>1, <2>2
<1>2. ASSUME NEW e \in MethodEntries(Ctx)
      PROVE  e.method # Blank /\ \E part : e.module = <<part>> /\ part \notin {Blank, "rpc"}
  <2>1. PICK m, n : m \in Listing(Ctx) /\ n \in m.exposure.methods /\ n # Blank /\ e = MethodEntry(m, n)
    BY Zenon DEF MethodEntries, Blank
  <2>2. e.method = n /\ e.module = m.name
    BY <2>1 DEF MethodEntry
  <2> QED BY <1>1, <2>1, <2>2
<1>3. ASSUME NEW e \in EventEntries(Ctx)
      PROVE  \E part : e.module = <<part>> /\ part \notin {Blank, "rpc"}
  <2>1. PICK m, n : m \in Listing(Ctx) /\ e = EventEntry(m, n)
    BY Zenon DEF EventEntries
  <2>2. e.module = m.name
    BY <2>1 DEF EventEntry
  <2> QED BY <1>1, <2>1, <2>2
<1> QED BY <1>2, <1>3

(* An alias names the member it was made from. *)
LEMMA AliasesApart ==
  ASSUME Started, NEW e \in MethodEntries(Ctx)
  PROVE  /\ ~IsBridgeOp(Qualified(e.module, e.method))
         /\ SplitAlias(Qualified(e.module, e.method)) = [module |-> e.module, method |-> <<e.method>>]
<1>1. PICK part : e.module = <<part>> /\ part \notin {Blank, "rpc"}
  BY EntryNames
<1>2. e.method # Blank
  BY EntryNames
<1> DEFINE alias == <<part, e.method>>
<1>3. Qualified(e.module, e.method) = alias
  BY <1>1, TwoParts
<1>4. Len(alias) = 2 /\ alias[1] = part
  OBVIOUS
<1>5. Tail(alias) = <<e.method>>
  <2>1. alias \in Seq({part, e.method})
    OBVIOUS
  <2> QED BY <2>1
<1> HIDE DEF alias
<1>6. Tail(alias) # <<Blank>>
  BY <1>2, <1>5
<1>7. \A name : SplitAlias(name) =
        IF Len(name) < 2 \/ name[1] = Blank \/ Tail(name) = <<Blank>> THEN None
        ELSE [module |-> <<name[1]>>, method |-> Tail(name)]
  BY Zenon DEF SplitAlias, Blank
<1>8. SplitAlias(alias) = [module |-> <<part>>, method |-> <<e.method>>]
  <2>1. ~(Len(alias) < 2 \/ alias[1] = Blank \/ Tail(alias) = <<Blank>>)
    BY <1>1, <1>4, <1>6
  <2> QED BY <1>4, <1>5, <1>7, <2>1
<1>9. ~IsBridgeOp(alias)
  BY <1>1, <1>4 DEF IsBridgeOp
<1> QED BY <1>1, <1>3, <1>8, <1>9

(* The entry of a member has its name for a key, with a word that says     *)
(* what it is; a shared one is the bridge's and has a shorter key.         *)
OfMember(x, part, name, kind) ==
  x.member = <<<<part>>, kind, name>> /\ part # "rpc"

Worded(x, kind, words) ==
  \E part, name, word :
    /\ OfMember(x, part, name, kind) /\ word \in words
    /\ x.key = <<KeyPart(part), KeyPart(name), word>>

Bridges(x) == x.member = BridgeOp /\ \E word : x.key = <<"rpc", word>>

MethodWords == {"request", "result"}
EventWords == {"subscribe", "subscribed", "event"}

LEMMA MessageKeys ==
  ASSUME Started, NEW x \in Messages(Ctx)
  PROVE  Worded(x, "method", MethodWords) \/ Worded(x, "event", EventWords) \/ Bridges(x)
<1>1. \A k, m, r : Entry(k, m, r).key = k /\ Entry(k, m, r).member = m
  BY DEF Entry
<1>2. ASSUME NEW e \in MethodEntries(Ctx), x \in MethodMessages(e)
      PROVE  Worded(x, "method", MethodWords)
  <2>1. PICK part : e.module = <<part>> /\ part \notin {Blank, "rpc"}
    BY EntryNames
  <2>2. ComponentKey(Qualified(e.module, e.method)) = <<KeyPart(part), KeyPart(e.method)>>
    BY <2>1, TwoParts
  <2>3. PICK word \in MethodWords :
          /\ x.key = <<KeyPart(part), KeyPart(e.method)>> \o <<word>>
          /\ x.member = <<e.module, "method", e.method>>
    <3>1. \E word \in MethodWords :
            \E refs : x = Entry(ComponentKey(Qualified(e.module, e.method)) \o <<word>>,
                              <<e.module, "method", e.method>>, refs)
      BY <1>2, Zenon DEF MethodMessages, MethodWords
    <3>2. PICK word, refs : word \in MethodWords /\
            x = Entry(ComponentKey(Qualified(e.module, e.method)) \o <<word>>,
                      <<e.module, "method", e.method>>, refs)
      BY <3>1
    <3>3. /\ x.key = ComponentKey(Qualified(e.module, e.method)) \o <<word>>
          /\ x.member = <<e.module, "method", e.method>>
      BY <1>1, <3>2
    <3> QED BY <2>2, <3>2, <3>3
  <2>4. x.key = <<KeyPart(part), KeyPart(e.method), word>>
    BY <2>3, ThirdPart
  <2> QED BY <2>1, <2>2, <2>3, <2>4 DEF Worded, OfMember
<1>3. ASSUME NEW e \in EventEntries(Ctx), x \in EventMessages(e)
      PROVE  Worded(x, "event", EventWords)
  <2>1. PICK part : e.module = <<part>> /\ part \notin {Blank, "rpc"}
    BY EntryNames
  <2>2. ComponentKey(Qualified(e.module, e.event)) = <<KeyPart(part), KeyPart(e.event)>>
    BY <2>1, TwoParts
  <2>3. PICK word \in EventWords :
          /\ x.key = <<KeyPart(part), KeyPart(e.event)>> \o <<word>>
          /\ x.member = <<e.module, "event", e.event>>
    <3>1. \E word \in EventWords :
            \E refs : x = Entry(ComponentKey(Qualified(e.module, e.event)) \o <<word>>,
                              <<e.module, "event", e.event>>, refs)
      BY <1>3, Zenon DEF EventMessages, EventWords
    <3>2. PICK word, refs : word \in EventWords /\
            x = Entry(ComponentKey(Qualified(e.module, e.event)) \o <<word>>,
                      <<e.module, "event", e.event>>, refs)
      BY <3>1
    <3>3. /\ x.key = ComponentKey(Qualified(e.module, e.event)) \o <<word>>
          /\ x.member = <<e.module, "event", e.event>>
      BY <1>1, <3>2
    <3> QED BY <2>2, <3>2, <3>3
  <2>4. x.key = <<KeyPart(part), KeyPart(e.event), word>>
    BY <2>3, ThirdPart
  <2> QED BY <2>1, <2>2, <2>3, <2>4 DEF Worded, OfMember
<1>4. ASSUME x \in SharedMessages
      PROVE  Bridges(x)
  BY <1>1, <1>4 DEF SharedMessages, Bridges, ErrorMessage
<1> QED BY <1>2, <1>3, <1>4, MembersNamed

(* One of two parts names a method's only operation. *)
Plain(x) ==
  \E part, name : OfMember(x, part, name, "method") /\ x.key = <<KeyPart(part), KeyPart(name)>>

LEMMA OperationKeys ==
  ASSUME Started, NEW x \in Operations(Ctx)
  PROVE  Plain(x) \/ Worded(x, "event", EventWords) \/ Bridges(x)
<1>1. \A k, m, r : Entry(k, m, r).key = k /\ Entry(k, m, r).member = m
  BY DEF Entry
<1>2. ASSUME NEW e \in MethodEntries(Ctx), x \in MethodOperations(e)
      PROVE  Plain(x)
  <2>1. PICK part : e.module = <<part>> /\ part \notin {Blank, "rpc"}
    BY EntryNames
  <2>2. ComponentKey(Qualified(e.module, e.method)) = <<KeyPart(part), KeyPart(e.method)>>
    BY <2>1, TwoParts
  <2>3. /\ x.key = <<KeyPart(part), KeyPart(e.method)>>
        /\ x.member = <<e.module, "method", e.method>>
    BY <1>1, <1>2, <2>2 DEF MethodOperations
  <2> QED BY <2>1, <2>2, <2>3 DEF Plain, OfMember
<1>3. ASSUME NEW e \in EventEntries(Ctx), x \in EventOperations(e)
      PROVE  Worded(x, "event", EventWords)
  <2>1. PICK part : e.module = <<part>> /\ part \notin {Blank, "rpc"}
    BY EntryNames
  <2>2. ComponentKey(Qualified(e.module, e.event)) = <<KeyPart(part), KeyPart(e.event)>>
    BY <2>1, TwoParts
  <2>3. PICK word \in EventWords :
          /\ x.key = <<KeyPart(part), KeyPart(e.event)>> \o <<word>>
          /\ x.member = <<e.module, "event", e.event>>
    <3>1. \E word \in EventWords :
            \E refs : x = Entry(ComponentKey(Qualified(e.module, e.event)) \o <<word>>,
                              <<e.module, "event", e.event>>, refs)
      BY <1>3, Zenon DEF EventOperations, EventWords
    <3>2. PICK word, refs : word \in EventWords /\
            x = Entry(ComponentKey(Qualified(e.module, e.event)) \o <<word>>,
                      <<e.module, "event", e.event>>, refs)
      BY <3>1
    <3>3. /\ x.key = ComponentKey(Qualified(e.module, e.event)) \o <<word>>
          /\ x.member = <<e.module, "event", e.event>>
      BY <1>1, <3>2
    <3> QED BY <2>2, <3>2, <3>3
  <2>4. x.key = <<KeyPart(part), KeyPart(e.event), word>>
    BY <2>3, ThirdPart
  <2> QED BY <2>1, <2>2, <2>3, <2>4 DEF Worded, OfMember
<1>4. ASSUME x \in SharedOperations
      PROVE  Bridges(x)
  BY <1>1, <1>4 DEF SharedOperations, Bridges
<1> QED BY <1>2, <1>3, <1>4, MembersNamed

LEMMA SameParts ==
  /\ \A a, b, c, d : <<a, b>> = <<c, d>> => a = c /\ b = d
  /\ \A a, b, c, d, e, f : <<a, b, c>> = <<d, e, f>> => a = d /\ b = e /\ c = f
  /\ \A a, b, c, d, e : <<a, b, c>> # <<d, e>>
OBVIOUS

(* Names whose keys are alike, but that are not spelled alike, are one. *)
LEMMA SameName ==
  ASSUME NEW x, NEW y, ~SpelledAlike(x.member, y.member), NEW a, NEW b, NEW c, NEW d,
         NEW kind, NEW other, OfMember(x, a, b, kind), OfMember(y, c, d, other),
         KeyPart(a) = KeyPart(c), KeyPart(b) = KeyPart(d)
  PROVE  a = c /\ b = d
<1>1. \A u, v : /\ Qualified(<<u>>, v) = <<u, v>>
              /\ ComponentKey(Qualified(<<u>>, v)) = <<KeyPart(u), KeyPart(v)>>
  BY TwoParts
<1>2. /\ x.member[1] = <<a>> /\ x.member[3] = b
      /\ y.member[1] = <<c>> /\ y.member[3] = d
  BY DEF OfMember
<1>3. Qualified(<<a>>, b) = Qualified(<<c>>, d)
  BY <1>1, <1>2 DEF SpelledAlike
<1>4. <<a, b>> = <<c, d>>
  BY <1>1, <1>3
<1> QED BY <1>4, SameParts

LEMMA WordedApart ==
  ASSUME NEW x, NEW y, x.key = y.key, ~SpelledAlike(x.member, y.member),
         NEW kind, NEW words, NEW other, NEW rest,
         Worded(x, kind, words), Worded(y, other, rest),
         kind = other \/ words \cap rest = {}
  PROVE  x.member = y.member
<1>1. PICK a, b, w : OfMember(x, a, b, kind) /\ w \in words /\ x.key = <<KeyPart(a), KeyPart(b), w>>
  BY DEF Worded
<1>2. PICK c, d, v : OfMember(y, c, d, other) /\ v \in rest /\ y.key = <<KeyPart(c), KeyPart(d), v>>
  BY DEF Worded
<1>3. KeyPart(a) = KeyPart(c) /\ KeyPart(b) = KeyPart(d) /\ w = v
  <2>1. <<KeyPart(a), KeyPart(b), w>> = <<KeyPart(c), KeyPart(d), v>>
    BY <1>1, <1>2
  <2> QED BY <2>1, SameParts
<1>4. a = c /\ b = d
  BY <1>1, <1>2, <1>3, SameName
<1>5. kind = other
  BY <1>1, <1>2, <1>3
<1> QED BY <1>1, <1>2, <1>4, <1>5 DEF OfMember

LEMMA LengthsApart ==
  ASSUME NEW x, NEW y, x.key = y.key, NEW kind, NEW words
  PROVE  /\ ~(Worded(x, kind, words) /\ Bridges(y))
         /\ ~(Worded(x, kind, words) /\ Plain(y))
         /\ ~(Plain(x) /\ Bridges(y))
<1>1. \A a, b, c, d, e : <<a, b, c>> # <<d, e>>
  BY SameParts
<1>2. \A a, b, c, d : <<a, b>> = <<c, d>> => a = c
  BY SameParts
<1>3. Worded(x, kind, words) => \E a, b, c : x.key = <<a, b, c>>
  BY DEF Worded
<1>4. Plain(y) => \E a, b : y.key = <<a, b>>
  BY DEF Plain
<1>5. Bridges(y) => \E b : y.key = <<"rpc", b>>
  BY DEF Bridges
<1>6. Plain(x) => \E a, b : x.key = <<a, b>> /\ a # "rpc"
  BY KeyedApart DEF Plain, OfMember
<1> QED BY <1>1, <1>2, <1>3, <1>4, <1>5, <1>6

LEMMA MessagesApart ==
  ASSUME Started, NEW x \in Messages(Ctx), NEW y \in Messages(Ctx), x.key = y.key,
         ~SpelledAlike(x.member, y.member)
  PROVE  x.member = y.member
<1>1. MethodWords \cap EventWords = {}
  BY DEF MethodWords, EventWords
<1>2. /\ Worded(x, "method", MethodWords) \/ Worded(x, "event", EventWords) \/ Bridges(x)
      /\ Worded(y, "method", MethodWords) \/ Worded(y, "event", EventWords) \/ Bridges(y)
  BY MessageKeys
<1>3. CASE Bridges(x) \/ Bridges(y)
  BY <1>2, <1>3, LengthsApart DEF Bridges
<1>4. CASE ~Bridges(x) /\ ~Bridges(y)
  BY <1>1, <1>2, <1>4, WordedApart
<1> QED BY <1>3, <1>4

LEMMA OperationsApart ==
  ASSUME Started, NEW x \in Operations(Ctx), NEW y \in Operations(Ctx), x.key = y.key,
         ~SpelledAlike(x.member, y.member)
  PROVE  x.member = y.member
<1>1. /\ Plain(x) \/ Worded(x, "event", EventWords) \/ Bridges(x)
      /\ Plain(y) \/ Worded(y, "event", EventWords) \/ Bridges(y)
  BY OperationKeys
<1>2. CASE Bridges(x) \/ Bridges(y)
  BY <1>1, <1>2, LengthsApart DEF Bridges
<1>3. CASE Worded(x, "event", EventWords) \/ Worded(y, "event", EventWords)
  BY <1>1, <1>2, <1>3, LengthsApart, WordedApart
<1>4. CASE Plain(x) /\ Plain(y)
  <2>1. PICK a, b : OfMember(x, a, b, "method") /\ x.key = <<KeyPart(a), KeyPart(b)>>
    BY <1>4 DEF Plain
  <2>2. PICK c, d : OfMember(y, c, d, "method") /\ y.key = <<KeyPart(c), KeyPart(d)>>
    BY <1>4 DEF Plain
  <2>3. KeyPart(a) = KeyPart(c) /\ KeyPart(b) = KeyPart(d)
    <3>1. <<KeyPart(a), KeyPart(b)>> = <<KeyPart(c), KeyPart(d)>>
      BY <2>1, <2>2
    <3> QED BY <3>1, SameParts
  <2>4. a = c /\ b = d
    BY <2>1, <2>2, <2>3, SameName
  <2> QED BY <2>1, <2>2, <2>4 DEF OfMember
<1> QED BY <1>1, <1>2, <1>3, <1>4

(* In a started bridge an alias is no bridge operation and names the       *)
(* method it was made from, and a message or operation of AsyncAPI only    *)
(* replaces another's where their names are spelled alike as keys.         *)
THEOREM NamesStayApart == SelfSpec => []NamesKeepApart
<1>1. Started => NamesKeepApart
  <2> SUFFICES ASSUME Started
               PROVE  NamesKeepApart
    OBVIOUS
  <2>1. BuildAsyncApi(Ctx).messages = Messages(Ctx) /\ BuildAsyncApi(Ctx).operations = Operations(Ctx)
    BY DEF BuildAsyncApi, Messages, Operations, MemberMessages, MemberOperations
  <2>2. \A e \in MethodEntries(Ctx) :
          /\ ~IsBridgeOp(Qualified(e.module, e.method))
          /\ SplitAlias(Qualified(e.module, e.method)) = [module |-> e.module, method |-> <<e.method>>]
    BY AliasesApart
  <2>3. \A x, y \in Messages(Ctx) :
          x.key = y.key => x.member = y.member \/ SpelledAlike(x.member, y.member)
    BY MessagesApart
  <2>4. \A x, y \in Operations(Ctx) :
          x.key = y.key => x.member = y.member \/ SpelledAlike(x.member, y.member)
    BY OperationsApart
  <2> QED BY <2>1, <2>2, <2>3, <2>4 DEF NamesKeepApart
<1> QED BY <1>1, StartedAlways, PTL
=============================================================================

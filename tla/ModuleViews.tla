---------------------------- MODULE ModuleViews ----------------------------
(***************************************************************************)
(* What one exposed module is known to offer, and what follows for a call: *)
(* the view's status machine, the cross-check, exposure, gating and the    *)
(* translation of arguments (src/discovery_model.h, exposure.h,            *)
(* bridge_config.h), with dispatchCall (src/json_rpc_bridge_impl.cpp) and  *)
(* the error map (error_map.h).                                            *)
(*                                                                         *)
(* A discovery takes several answers, and the provider may be reloaded     *)
(* between any two of them; a call reads the view twice, once to gate and  *)
(* once to translate, and a discovery may publish in between.  When a      *)
(* discovery is due is Discovery's subject; here one may run at any time.  *)
(*                                                                         *)
(* A build of the module is what it answers: a live report of methods and  *)
(* events, each a name and parameter names ("" where the host gave none),  *)
(* and what lidl() returns.  An argument is the name it was given under.   *)
(***************************************************************************)
EXTENDS Naturals, Sequences

CONSTANTS
  Builds,    \* the builds that may be loaded
  Honest,    \* those whose contract was generated from the code that runs
  Configs,   \* the policies the operator may have set for the module
  Asked,     \* method names that clients ask for
  Events,    \* event names that clients ask for
  Given,     \* the sets of names that by-name params may have
  None

(* Members and parameters come in lists. *)
IsList(s) == Len(s) \in Nat /\ DOMAIN s = 1..Len(s)
AreMembers(s) == IsList(s) /\ \A i \in DOMAIN s : s[i] # None /\ IsList(s[i].params)

ASSUME BuildsAssumption ==
  \A b \in Builds :
    AreMembers(b.live.methods) /\ (b.lidl # None => AreMembers(b.lidl.methods))

Status == {"pending", "ok", "untyped", "invalid"}
Builtins == {"lidl", "name", "version"}
Reserved == {"getPluginInterface", "getPluginMethods", "getPluginEvents"}

VARIABLES
  config,    \* the module's ExposedModule
  provider,  \* the build that runs, or None
  view,      \* the published ModuleView
  reading,   \* the discovery under way: what it has read
  call       \* the call a client waits for, or its answer

vars == <<config, provider, view, reading, call>>

Names(members) == {members[i].name : i \in DOMAIN members}

(* liveEntries: where a name is listed.  Qt lists a method with default    *)
(* arguments once per arity.                                               *)
Entries(members, name) == {i \in DOMAIN members : members[i].name = name}

FirstEntry(members, name) ==
  members[CHOOSE i \in Entries(members, name) : \A j \in Entries(members, name) : i <= j]

NoReport == [methods |-> <<>>, events |-> <<>>]

(* Events are known only if the host tagged some. *)
EventsDeclared(live) == live.events # <<>>

----------------------------------------------------------------------------
(* Policy and exposure *)

Permits(policy, name) ==
  name \notin policy.deny /\ (policy.unconstrained \/ name \in policy.allow)

MethodAllowed(em, method) == method \in Builtins \/ Permits(em.methods, method)

(* Fault: the introspection methods are not left out. *)
ExposeDeclared_Reserved(em, methods, events) ==
  [methods |-> {m \in methods : MethodAllowed(em, m)},
   events |-> {e \in events : Permits(em.events, e)}]

ExposeDeclared(em, methods, events) ==
  [methods |-> {m \in methods \ Reserved : MethodAllowed(em, m)},
   events |-> {e \in events : Permits(em.events, e)}]

(* Untagged events cannot be listed: the operator's allow list stands in. *)
ExposeLive(em, live) ==
  LET x == ExposeDeclared(em, Names(live.methods), Names(live.events))
      standIns == IF EventsDeclared(live) \/ em.events.unconstrained THEN {}
                  ELSE {e \in em.events.allow : Permits(em.events, e)}
  IN [methods |-> x.methods, events |-> x.events \cup standIns]

Resolved(v) == v.status # "pending"
Typed(v) == v.status = "ok"

NoExposure == [methods |-> {}, events |-> {}]

ExposureOf(em, v) ==
  IF Typed(v) THEN ExposeDeclared(em, Names(v.contract.methods), Names(v.contract.events))
  ELSE IF Resolved(v) THEN ExposeLive(em, v.live)
  ELSE NoExposure

----------------------------------------------------------------------------
(* The cross-check: names and arity.  Only errors are kept; warnings and   *)
(* infos, which other digests, versions and lint give too, decide nothing. *)

(* Fault: the first entry of a name is taken for the only one. *)
ArityMismatch_First(declared, members) ==
  Len(FirstEntry(members, declared.name).params) # Len(declared.params)

ArityMismatch(declared, members) ==
  \A i \in Entries(members, declared.name) : Len(members[i].params) # Len(declared.params)

Disagrees(declared, members, mayBeUnlisted) ==
  IF Entries(members, declared.name) = {} THEN ~mayBeUnlisted
  ELSE ArityMismatch(declared, members)

CrossCheckErrors(c, live) ==
  {c.methods[i].name : i \in
     {i \in DOMAIN c.methods : Disagrees(c.methods[i], live.methods, c.methods[i].derived)}}
  \cup
  {c.events[i].name : i \in
     {i \in DOMAIN c.events : EventsDeclared(live) /\ Disagrees(c.events[i], live.events, FALSE)}}

----------------------------------------------------------------------------
(* Gating and arguments *)

MethodPermitted(em, v, method) ==
  /\ method \notin Reserved
  /\ MethodAllowed(em, method)
  /\ IF Typed(v) THEN method \in Names(v.contract.methods)
     ELSE ~Resolved(v) \/ v.live.methods = <<>> \/ method \in Names(v.live.methods)

EventPermitted(em, v, event) ==
  /\ Permits(em.events, event)
  /\ IF Typed(v) THEN event \in Names(v.contract.events)
     ELSE ~Resolved(v) \/ ~EventsDeclared(v.live) \/ event \in Names(v.live.events)

Refused == [ok |-> FALSE, args |-> <<>>]
Filled(names, given) ==
  [ok |-> TRUE, args |-> [i \in DOMAIN names |-> IF names[i] \in given THEN names[i] ELSE None]]

(* Typed: an unknown name or a missing required parameter is refused. *)
TypedPositional(m, given) ==
  LET names == [i \in DOMAIN m.params |-> m.params[i].name]
      fits == /\ given \subseteq {names[i] : i \in DOMAIN names}
              /\ \A i \in DOMAIN names : names[i] \in given \/ m.params[i].optional
  IN IF fits THEN Filled(names, given) ELSE Refused

LivePositional(names, given) ==
  IF given \subseteq {names[i] : i \in DOMAIN names} THEN Filled(names, given) ELSE Refused

ToPositional(v, method, given) ==
  LET known == IF Typed(v) THEN v.contract.methods
               ELSE IF Resolved(v) THEN v.live.methods ELSE <<>>
  IN
  IF Entries(known, method) = {} THEN Refused
  ELSE IF Typed(v) THEN TypedPositional(FirstEntry(known, method), given)
  ELSE LivePositional(FirstEntry(known, method).params, given)

----------------------------------------------------------------------------
(* Discovery: getPluginInterface, lidl(), version(), then one publication *)

Idle == [at |-> "idle", live |-> NoReport, contract |-> None]

(* nextView and withExposure: a fresh snapshot, never part of the old one. *)
NewView(status, live, contract) ==
  LET v == [status |-> status, live |-> live, contract |-> contract] IN
  [status |-> status, live |-> live, contract |-> contract, exposure |-> ExposureOf(config, v)]

Publish(status, live, contract) ==
  /\ view' = NewView(status, live, contract)
  /\ reading' = Idle
  /\ UNCHANGED <<config, provider, call>>

LidlPresent(live) ==
  \E i \in DOMAIN live.methods :
    live.methods[i].name = "lidl" /\ live.methods[i].params = <<>>

(* A new attempt, whose first answer is in; an older one is superseded. *)
OnInterface ==
  /\ provider # None
  /\ \/ /\ ~LidlPresent(provider.live)
        /\ Publish("untyped", provider.live, None)
     \/ /\ LidlPresent(provider.live)
        /\ reading' = [at |-> "contract", live |-> provider.live, contract |-> None]
        /\ UNCHANGED <<config, provider, view, call>>

(* The attempt was superseded, or its provider did not answer: no new view. *)
Missed ==
  /\ reading.at # "idle"
  /\ reading' = Idle
  /\ UNCHANGED <<config, provider, view, call>>

(* What lidlText, readContract and typedContract make of a lidl() answer:  *)
(* None if it is no string, too long, not UTF-8, does not parse, is for    *)
(* another module or cannot be digested.                                   *)
ReadContract(build) == build.lidl

(* The lidl() call fails, which it may for any provider, its answer cannot *)
(* be read, or it is a contract.  No contract is kept of the first two.    *)
OnContract ==
  /\ reading.at = "contract"
  /\ \/ Publish("invalid", reading.live, None)
     \/ /\ provider # None /\ ReadContract(provider) # None
        /\ reading' = [at |-> "version", live |-> reading.live, contract |-> ReadContract(provider)]
        /\ UNCHANGED <<config, provider, view, call>>

(* Fault: a contract that could be read is served unchecked. *)
CheckedStatus_Trust(c, live) == "ok"

CheckedStatus(c, live) == IF CrossCheckErrors(c, live) = {} THEN "ok" ELSE "invalid"

(* Whatever version() answers: it makes a warning or an info, no error. *)
OnVersion ==
  /\ reading.at = "version"
  /\ LET status == CheckedStatus(reading.contract, reading.live) IN
     Publish(status, reading.live, IF status = "ok" THEN reading.contract ELSE None)

(* The module is unloaded, loaded or reloaded at any time. *)
Reload ==
  /\ provider' \in (Builds \cup {None}) \ {provider}
  /\ UNCHANGED <<config, view, reading, call>>

----------------------------------------------------------------------------
(* One call, on the service thread and then upstream *)

(* mapCallError: the codes of a failed call, and what each is answered as. *)
MapCallError ==
  [timeout |-> "UpstreamTimeout", object_unavailable |-> "ModuleUnavailable",
   transport_error |-> "TransportError", unauthorized |-> "NotAuthorised",
   call_failed |-> "CallFailed", invalid_args |-> "InvalidParams",
   unknown_method |-> "MethodNotFound", unrecognised |-> "UpstreamFailed"]

CallErrors == DOMAIN MapCallError
Errors == {MapCallError[code] : code \in CallErrors}

Goto(at, args, answer) ==
  call' = [at |-> at, method |-> call.method, given |-> call.given, args |-> args, answer |-> answer]

Finish(answer) == Goto("done", call.args, answer)

(* given is None for positional params, which pass as they are. *)
Ask(method, given) ==
  /\ call.at \in {"idle", "done"}
  /\ call' = [at |-> "gate", method |-> method, given |-> given, args |-> <<>>, answer |-> "none"]
  /\ UNCHANGED <<config, provider, view, reading>>

(* Fault: the params are looked at before the policy. *)
Gate_Late ==
  /\ call.at = "gate"
  /\ \/ /\ call.given # None /\ ~ToPositional(view, call.method, call.given).ok
        /\ Finish("InvalidParams")
     \/ /\ call.given # None => ToPositional(view, call.method, call.given).ok
        /\ ~MethodPermitted(config, view, call.method)
        /\ Finish("MethodNotFound")
     \/ /\ call.given # None => ToPositional(view, call.method, call.given).ok
        /\ MethodPermitted(config, view, call.method)
        /\ Goto("translate", <<>>, "none")
  /\ UNCHANGED <<config, provider, view, reading>>

Gate ==
  /\ call.at = "gate"
  /\ \/ /\ ~MethodPermitted(config, view, call.method)
        /\ Finish("MethodNotFound")
     \/ /\ MethodPermitted(config, view, call.method)
        /\ Goto("translate", <<>>, "none")
  /\ UNCHANGED <<config, provider, view, reading>>

Translate ==
  /\ call.at = "translate"
  /\ LET p == IF call.given = None THEN [ok |-> TRUE, args |-> <<>>]
              ELSE ToPositional(view, call.method, call.given)
     IN
     \/ /\ ~p.ok
        /\ Finish("InvalidParams")
     \/ /\ p.ok
        /\ Goto("sent", p.args, "none")
  /\ UNCHANGED <<config, provider, view, reading>>

(* The host answers name and version even where it does not list them. *)
Answers(build, method) == method \in Names(build.live.methods) \cup {"name", "version"}

(* A call that fails is mapped; a provider's refusal of a name it does not *)
(* have comes as a result and is answered like every other unknown method; *)
(* any other result is passed on.                                          *)
Answer ==
  /\ call.at = "sent"
  /\ \/ \E code \in CallErrors :
          /\ provider = None => code \in {"object_unavailable", "timeout", "transport_error"}
          /\ Finish(MapCallError[code])
     \/ provider # None /\ ~Answers(provider, call.method) /\ Finish("MethodNotFound")
     \/ provider # None /\ Answers(provider, call.method) /\ Finish("Result")
  /\ UNCHANGED <<config, provider, view, reading>>

----------------------------------------------------------------------------
Init ==
  /\ config \in Configs
  /\ provider = None
  /\ view = [status |-> "pending", live |-> NoReport, contract |-> None, exposure |-> NoExposure]
  /\ reading = Idle
  /\ call = [at |-> "idle", method |-> None, given |-> None, args |-> <<>>, answer |-> "none"]

Next ==
  \/ OnInterface \/ Missed \/ OnContract \/ OnVersion \/ Reload
  \/ \E m \in Asked, g \in Given \cup {None} : Ask(m, g)
  \/ Gate \/ Translate \/ Answer

Spec == Init /\ [][Next]_vars

----------------------------------------------------------------------------
(* Properties *)

Reports == {b.live : b \in Builds} \cup {NoReport}
Contracts == {b.lidl : b \in Builds} \cup {None}

(* Every variable is of the kind the code keeps. *)
TypeOK ==
  /\ config \in Configs
  /\ provider \in Builds \cup {None}
  /\ view.status \in Status /\ view.live \in Reports /\ view.contract \in Contracts
  /\ Typed(view) <=> view.contract # None
  /\ reading.at \in {"idle", "contract", "version"}
  /\ reading.live \in Reports /\ reading.contract \in Contracts
  /\ call.at \in {"idle", "gate", "translate", "sent", "done"}
  /\ call.answer \in Errors \cup {"none", "Result"}

(* What rpc.schema lists as exposed is what gating lets through, although  *)
(* exposure.h and the gating functions decide it separately: all of it can *)
(* be used, and nothing else of a module that lists what it has.           *)
ExposureIsTheGate ==
  /\ \A m \in Asked :
       /\ m \in view.exposure.methods => MethodPermitted(config, view, m)
       /\ /\ Typed(view) \/ view.live.methods # <<>>
          /\ MethodPermitted(config, view, m)
          => m \in view.exposure.methods
  /\ \A e \in Events :
       /\ e \in view.exposure.events => EventPermitted(config, view, e)
       /\ /\ Typed(view) \/ EventsDeclared(view.live)
          /\ EventPermitted(config, view, e)
          => e \in view.exposure.events

(* A build whose contract was generated from its own code is served by     *)
(* that contract when it was read whole: clones of a method, unlisted      *)
(* built-ins, untagged events and unnamed parameters are no mismatch.      *)
HonestIsServed ==
  [][\A b \in Honest :
       OnVersion /\ reading.live = b.live /\ reading.contract = b.lidl
         => view'.status = "ok"]_vars

(* By-name arguments reach the module whole: every one given is sent, and  *)
(* as many as an entry of the report the view was checked against takes,   *)
(* also when a discovery published between gating and translation, or read *)
(* its report and its contract from two different builds.                  *)
ArgumentsFit ==
  [][LET entries == Entries(view.live.methods, call.method) IN
     call.at = "translate" /\ call'.at = "sent" /\ call.given # None =>
       /\ \A n \in call.given : \E i \in DOMAIN call'.args : call'.args[i] = n
       /\ entries # {} =>
            \E i \in entries : Len(view.live.methods[i].params) = Len(call'.args)]_vars

(* A reserved or denied method is answered like a method that a loaded     *)
(* module does not have, whatever its params, whatever is known of the     *)
(* module or runs, and whatever is published between gate and translation. *)
HiddenLooksUnknown ==
  /\ call.at = "done"
  /\ call.method \in Reserved \/ ~MethodAllowed(config, call.method)
  => call.answer = "MethodNotFound"
=============================================================================

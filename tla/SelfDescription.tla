-------------------------- MODULE SelfDescription --------------------------
(***************************************************************************)
(* A started bridge and what it says of itself: a configuration that       *)
(* parseBridgeConfig accepted (BridgeConfig), one exposed module followed  *)
(* through its discoveries, reloads and calls (ModuleViews), the published *)
(* views of the others, and the documents built from all of them           *)
(* (Documents).  Modules do not interact, so the other views stand still.  *)
(* When a snapshot is built, and which one is served, is DocPublisher's.   *)
(***************************************************************************)
EXTENDS Documents, BridgeConfig

CONSTANTS
  Written,     \* configuration documents operators write
  Followed,    \* the name of the module ModuleViews follows
  OtherViews   \* what discoveries found of other modules: [status, live, contract]

ASSUME WrittenAssumption ==
  \A doc \in Written \ {Bad} : doc.modules \notin {Absent, Bad} =>
    \A i \in DOMAIN doc.modules : doc.modules[i] # Bad =>
      doc.modules[i].name \in Seq(STRING) \cup {Bad}

(* External: LIDL names every parameter of a contract.  OpenRPC would make  *)
(* a name up for one without, which the dispatcher does not know.          *)
ASSUME NamedParamsAssumption ==
  \A b \in Builds : b.lidl # None =>
    \A i \in DOMAIN b.lidl.methods : \A j \in DOMAIN b.lidl.methods[i].params :
      b.lidl.methods[i].params[j].name # ""

VARIABLES
  bridge,      \* the BridgeConfig
  others       \* the views of its other modules, by their place in it

selfVars == <<vars, bridge, others>>

Place == CHOOSE i \in DOMAIN bridge.modules : bridge.modules[i].name = Followed

(* docContext: every view of the config's modules, in its order. *)
Ctx ==
  [i \in DOMAIN bridge.modules |->
     ToModuleDoc(bridge.modules[i].name, IF i = Place THEN view ELSE others[i])]

SelfInit ==
  /\ \E doc \in {d \in Written : Accepts(d)} : bridge = ParseBridgeConfig(doc)
  /\ \E i \in DOMAIN bridge.modules : bridge.modules[i].name = Followed /\ config = bridge.modules[i]
  /\ \E found \in [DOMAIN bridge.modules \ {Place} -> OtherViews] :
       others = [i \in DOMAIN found |->
                   [status |-> found[i].status, live |-> found[i].live, contract |-> found[i].contract,
                    exposure |-> ExposureOf(bridge.modules[i], found[i])]]
  /\ Init

SelfNext == Next /\ UNCHANGED <<bridge, others>>

SelfSpec == SelfInit /\ [][SelfNext]_selfVars

----------------------------------------------------------------------------
(* Aliases: how a request names a module's method (rpc_dispatcher.h) *)

IsBridgeOp(name) == Len(name) > 1 /\ name[1] = "rpc"

(* At the first dot, which must have something on both sides. *)
SplitAlias(name) ==
  IF Len(name) < 2 \/ name[1] = "" \/ Tail(name) = <<"">> THEN None
  ELSE [module |-> <<name[1]>>, method |-> Tail(name)]

----------------------------------------------------------------------------
(* Properties.  The documents do not depend on the call that may be out,   *)
(* so they are looked at where there has been none yet.                    *)

Quiet == call.at = "idle"

(* A client generated from the documents makes no call that the bridge     *)
(* refuses (README, Documents): what is listed is what gating lets through *)
(* and, for a typed or fully named method, params are admitted by name     *)
(* exactly when the translation accepts them; a body may be left out only  *)
(* where the empty object is accepted, params only where there are none.   *)
GeneratedCallsAreAccepted ==
  Quiet =>
    /\ \A e \in EventEntries(Ctx) : e.module = Followed => EventPermitted(config, view, e.event)
    /\ \A e \in MethodEntries(Ctx) : e.module = Followed =>
         LET rpc == ModuleMethod(e)
             api == ModuleOperation(e)
             accepts(given) == ToPositional(view, e.method, given).ok
         IN /\ MethodPermitted(config, view, e.method)
            /\ rpc.structure = "either" =>
                 \A given \in SUBSET (rpc.object.names \cup {"other"}) :
                   Admits(rpc.object, given) <=> accepts(given)
            /\ ~api.untyped =>
                 \A given \in SUBSET (api.object.names \cup {"other"}) :
                   Admits(api.object, given) <=> accepts(given)
            /\ ~api.bodyRequired => accepts({})
            /\ e.decl # None /\ ~ParamsRequired(e) => ToPositional(view, e.method, {}).args = <<>>

(* Every $ref resolves inside its own document (README, Documents), for    *)
(* records of several modules, records that use records, names that are no *)
(* record, and names whose keys differ from them.                          *)
EveryRefResolves ==
  Quiet =>
    \A doc \in {BuildOpenRpc(Ctx), BuildOpenApi(Ctx), BuildAsyncApi(Ctx)} : doc.refs \subseteq doc.defines

(* Two members whose names differ only in what componentKey replaces. *)
SpelledAlike(a, b) ==
  /\ Qualified(a[1], a[3]) # Qualified(b[1], b[3])
  /\ ComponentKey(Qualified(a[1], a[3])) = ComponentKey(Qualified(b[1], b[3]))

(* The names of a started bridge keep apart: an alias is no bridge         *)
(* operation and names the member it was made from, and an entry of the    *)
(* AsyncAPI objects takes the place of another one only where their two    *)
(* members are spelled alike ("wal/let" and "wal_let"), which the code     *)
(* does not refuse: never of the bridge's own, of a method by an event of  *)
(* its name, or of members whose names only run together.                  *)
NamesKeepApart ==
  Quiet =>
    LET doc == BuildAsyncApi(Ctx)
        apart(x, y) == x.key = y.key => x.member = y.member \/ SpelledAlike(x.member, y.member)
    IN
    /\ \A e \in MethodEntries(Ctx) :
         LET alias == Qualified(e.module, e.method) IN
         /\ ~IsBridgeOp(alias)
         /\ SplitAlias(alias) = [module |-> e.module, method |-> <<e.method>>]
    /\ \A x, y \in doc.messages : apart(x, y)
    /\ \A x, y \in doc.operations : apart(x, y)
=============================================================================

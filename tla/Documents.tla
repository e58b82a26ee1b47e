----------------------------- MODULE Documents -----------------------------
(***************************************************************************)
(* What the three self-describing documents say of the exposed modules     *)
(* (src/doc_common.h, schema_ir.h, doc_openrpc.h, doc_openapi.h and        *)
(* doc_asyncapi.h), as functions of the published views (doc_publisher.h). *)
(*                                                                         *)
(* Kept of a document: its operations, the params each admits, its keys,   *)
(* what it defines and what it refers to.  Texts, titles, tags, servers    *)
(* and the rest of a schema are left out.  A schema is the set of its      *)
(* references, a reference a pair of a section and a key.                  *)
(*                                                                         *)
(* A contract has, beyond what ModuleViews needs of it, the records it     *)
(* declares (types: [name, fields]), the type of every parameter and field *)
(* and what a method returns (None for nothing).                           *)
(***************************************************************************)
EXTENDS ModuleViews, TLC

CONSTANT Sanitized   \* name parts with other characters than [A-Za-z0-9._-], as keys

ASSUME SanitizedAssumption ==
  \A x \in DOMAIN Sanitized : Sanitized[x] \notin DOMAIN Sanitized \cup {"rpc"}

----------------------------------------------------------------------------
(* Names and keys, as sequences of the parts between dots *)

Qualified(module, member) == module \o <<member>>

ComponentKey(raw) ==
  [i \in DOMAIN raw |-> IF raw[i] \in DOMAIN Sanitized THEN Sanitized[raw[i]] ELSE raw[i]]

Schema(name) == <<"schemas", <<name>>>>

(* Fault: the component of a record keeps its raw name. *)
RecordComponentName_Raw(module, type) == <<"schemas", Qualified(module, type)>>

RecordComponentName(module, type) == <<"schemas", ComponentKey(Qualified(module, type))>>

(* schemaRef passes every name it is given through componentKey. *)
SchemaRef(name) == <<name[1], ComponentKey(name[2])>>

----------------------------------------------------------------------------
(* The builders' input *)

ToModuleDoc(name, v) ==
  [name |-> name, status |-> v.status, exposure |-> v.exposure,
   interface |-> IF Typed(v) THEN v.contract ELSE None,
   liveMethods |-> IF Resolved(v) /\ ~Typed(v) THEN v.live.methods ELSE <<>>]

IsTyped(m) == m.status = "ok" /\ m.interface # None
IsNamesOnly(m) == m.status \in {"untyped", "invalid"} \/ (m.status = "ok" /\ m.interface = None)
HasOperations(m) == IsTyped(m) \/ IsNamesOnly(m)

FirstOf(members, name) ==
  IF Entries(members, name) = {} THEN None ELSE FirstEntry(members, name)

TypeScope(m) ==
  [module |-> m.name, records |-> IF IsTyped(m) THEN {t.name : t \in m.interface.types} ELSE {}]

MethodEntry(m, name) ==
  LET decl == IF IsTyped(m) THEN FirstOf(m.interface.methods, name) ELSE None IN
  [module |-> m.name, method |-> name, decl |-> decl,
   live |-> IF decl = None THEN FirstOf(m.liveMethods, name) ELSE None, scope |-> TypeScope(m)]

EventEntry(m, name) ==
  [module |-> m.name, event |-> name, scope |-> TypeScope(m),
   decl |-> IF IsTyped(m) THEN FirstOf(m.interface.events, name) ELSE None]

(* ctx is the sequence of the modules' documents, in the config's order. *)
Listing(ctx) == {ctx[i] : i \in {i \in DOMAIN ctx : HasOperations(ctx[i])}}
MethodEntries(ctx) == UNION {{MethodEntry(m, n) : n \in m.exposure.methods \ {""}} : m \in Listing(ctx)}
EventEntries(ctx) == UNION {{EventEntry(m, n) : n \in m.exposure.events \ {""}} : m \in Listing(ctx)}

----------------------------------------------------------------------------
(* Schemas *)

PrimitiveSchema(name) ==
  CASE name = "bstr"   -> {Schema("Bytes")}
    [] name = "result" -> {Schema("LogosResult")}
    [] OTHER           -> {}

(* A type is the list of its layers: arrays, maps and optionals around a   *)
(* primitive or a name, which is all that can refer to anything.  A name   *)
(* that is no record of the contract gets no reference.                    *)
TypeSchema(type, scope) ==
  LET inner == type[Len(type)] IN
  CASE inner.kind = "primitive" -> PrimitiveSchema(inner.name)
    [] inner.kind = "named" /\ inner.name \in scope.records ->
         {SchemaRef(RecordComponentName(scope.module, inner.name))}
    [] OTHER -> {}

Slots(slots, scope) == UNION {TypeSchema(slots[i].type, scope) : i \in DOMAIN slots}

ReturnSchema(decl, scope) == IF decl.returns = None THEN {} ELSE TypeSchema(decl.returns, scope)
MethodResultSchema(decl, scope) == ReturnSchema(decl, scope) \cup {Schema("ProviderRejection")}

(* Every record of a typed contract, used by an exposed member or not. *)
RecordComponents(ctx) ==
  UNION {{[key |-> RecordComponentName(m.name, t.name), refs |-> Slots(t.fields, TypeScope(m))] :
            t \in m.interface.types} : m \in {m \in Listing(ctx) : IsTyped(m)}}

----------------------------------------------------------------------------
(* What params a document admits for a method: by name the names it knows  *)
(* with at least the required ones, by position a number of values, and    *)
(* whether they may be left out.  Names-only bodies admit anything.        *)

SlotNames(slots) == {slots[i].name : i \in DOMAIN slots}

ParamsObject(decl) ==
  [names |-> SlotNames(decl.params),
   required |-> {decl.params[i].name : i \in {i \in DOMAIN decl.params : ~decl.params[i].optional}}]

Admits(object, given) == object.required \subseteq given /\ given \subseteq object.names

AnyRequiredParam(decl) == ParamsObject(decl).required # {}

(* An unnamed slot gets a name made up from its place: one of the live     *)
(* report in every document, one of a contract in OpenRPC (paramName).     *)
ParamName(name, i) == IF name = "" THEN "arg" \o ToString(i - 1) ELSE name
LiveParamNames(live) == [i \in DOMAIN live.params |-> ParamName(live.params[i], i)]
AllNamed(live) == \A i \in DOMAIN live.params : live.params[i] # ""

----------------------------------------------------------------------------
(* OpenRPC *)

(* Fault: a made-up name is offered like a real one. *)
ParamStructure_Either(e) == "either"

ParamStructure(e) ==
  IF e.decl = None /\ e.live # None /\ ~AllNamed(e.live) THEN "by-position" ELSE "either"

DeclParams(decl) ==
  LET names == [i \in DOMAIN decl.params |-> ParamName(decl.params[i].name, i)] IN
  [names |-> {names[i] : i \in DOMAIN names},
   required |-> {names[i] : i \in {i \in DOMAIN names : ~decl.params[i].optional}}]

ModuleMethod(e) ==
  [name |-> Qualified(e.module, e.method),
   structure |-> ParamStructure(e),
   object |-> IF e.decl # None THEN DeclParams(e.decl)
              ELSE IF e.live = None THEN [names |-> {}, required |-> {}]
              ELSE LET names == LiveParamNames(e.live) IN
                   [names |-> {names[i] : i \in DOMAIN names}, required |-> {}],
   refs |-> IF e.decl = None THEN {}
            ELSE Slots(e.decl.params, e.scope) \cup MethodResultSchema(e.decl, e.scope)]

EventDescriptor(e) ==
  [name |-> Qualified(e.module, e.event),
   refs |-> IF e.decl = None THEN {} ELSE Slots(e.decl.params, e.scope)]

Shared == {Schema("Bytes"), Schema("LogosResult"), Schema("ProviderRejection")}

BuildOpenRpc(ctx) ==
  LET methods == {ModuleMethod(e) : e \in MethodEntries(ctx)}
      events == {EventDescriptor(e) : e \in EventEntries(ctx)}
      records == RecordComponents(ctx)
  IN [methods |-> methods, events |-> events,
      defines |-> Shared \cup {r.key : r \in records},
      refs |-> UNION {x.refs : x \in methods \cup events \cup records}]

----------------------------------------------------------------------------
(* OpenAPI *)

Response(name) == <<"responses", <<name>>>>
RequestBody(name) == <<"requestBodies", <<name>>>>

GateResponses(post) ==
  {Response("Unauthorized"), Response("Forbidden")}
  \cup (IF post THEN {Response("LengthRequired"), Response("UnsupportedMediaType")} ELSE {})

CallResponse(result) == result \cup {Schema("ErrorBody"), Schema("JsonRpcErrorResponse")}

ModuleOperation(e) ==
  [path |-> <<e.module, e.method>>,
   untyped |-> e.decl = None,
   object |-> IF e.decl = None THEN [names |-> {}, required |-> {}] ELSE ParamsObject(e.decl),
   arity |-> IF e.decl = None THEN 0 ELSE Len(e.decl.params),
   bodyRequired |-> e.decl # None /\ AnyRequiredParam(e.decl),
   refs |-> GateResponses(TRUE) \cup
            (IF e.decl = None THEN {RequestBody("UntypedParams"), Response("UntypedCallResult")}
             ELSE CallResponse(MethodResultSchema(e.decl, e.scope)) \cup
                  (IF e.decl.params = <<>> THEN {RequestBody("NoParams")}
                   ELSE Slots(e.decl.params, e.scope)))]

FixedPathRefs ==
  GateResponses(TRUE) \cup {Schema("JsonRpcId"), Schema("JsonRpcError"), Schema("JsonRpcErrorResponse")}

OpenApiComponents ==
  Shared \cup GateResponses(TRUE)
  \cup {Schema("JsonRpcId"), Schema("JsonRpcError"), Schema("JsonRpcErrorResponse"), Schema("ErrorBody"),
        Response("UntypedCallResult"), RequestBody("NoParams"), RequestBody("UntypedParams")}

ComponentRefs ==
  {Schema("JsonRpcId"), Schema("JsonRpcError")} \cup CallResponse({})

BuildOpenApi(ctx) ==
  LET operations == {ModuleOperation(e) : e \in MethodEntries(ctx)}
      records == RecordComponents(ctx)
  IN [operations |-> operations,
      defines |-> OpenApiComponents \cup {r.key : r \in records},
      refs |-> FixedPathRefs \cup ComponentRefs \cup UNION {x.refs : x \in operations \cup records}]

----------------------------------------------------------------------------
(* AsyncAPI: messages and operations are entries of two objects, so two of *)
(* one key are one.                                                        *)

Message(key) == <<"messages", key>>
ErrorMessage == <<"rpc", "error">>
ByRequestId == <<"correlationIds", <<"requestId">>>>
BySubscription == <<"correlationIds", <<"subscriptionId">>>>

(* member says whose entry it is: x-logos-module with -method or -event. *)
BridgeOp == <<<<"rpc">>, "bridge", "op">>
Entry(key, member, refs) == [key |-> key, member |-> member, refs |-> refs]

(* Requests and replies carry the id they are correlated by, notifications *)
(* the subscription.                                                       *)
RequestPayload(params) == {Schema("JsonRpcId"), ByRequestId} \cup params
ResultPayload(result) == {Schema("JsonRpcId"), ByRequestId} \cup result
NotificationPayload(params) == {BySubscription, Schema("SubscriptionId")} \cup params

MethodMessages(e) ==
  LET key == ComponentKey(Qualified(e.module, e.method))
      params == IF e.decl = None THEN {}
                ELSE IF e.decl.params = <<>> THEN {Schema("NoParams")} ELSE Slots(e.decl.params, e.scope)
      result == IF e.decl = None THEN {} ELSE MethodResultSchema(e.decl, e.scope)
      member == <<e.module, "method", e.method>>
  IN {Entry(key \o <<"request">>, member, RequestPayload(params)),
      Entry(key \o <<"result">>, member, ResultPayload(result))}

MethodOperations(e) ==
  LET key == ComponentKey(Qualified(e.module, e.method)) IN
  {Entry(key, <<e.module, "method", e.method>>,
         {Message(key \o <<"request">>), Message(key \o <<"result">>), Message(ErrorMessage)})}

(* absent params mean [], which only fits zero arity *)
ParamsRequired(e) == e.decl # None /\ e.decl.params # <<>>

EventMessages(e) ==
  LET key == ComponentKey(Qualified(e.module, e.event))
      data == IF e.decl = None THEN {} ELSE Slots(e.decl.params, e.scope)
      member == <<e.module, "event", e.event>>
  IN {Entry(key \o <<"subscribe">>, member, RequestPayload({Schema("SubscriptionId")})),
      Entry(key \o <<"subscribed">>, member,
            ResultPayload({Schema("SubscriptionId"), Schema("SubscriptionState")})),
      Entry(key \o <<"event">>, member,
            NotificationPayload({Schema("EventGeneration"), Schema("EventTimestamp")} \cup data))}

EventOperations(e) ==
  LET key == ComponentKey(Qualified(e.module, e.event))
      member == <<e.module, "event", e.event>>
  IN {Entry(key \o <<"subscribe">>, member,
            {Message(key \o <<"subscribe">>), Message(key \o <<"subscribed">>), Message(ErrorMessage)}),
      Entry(key \o <<"event">>, member, {Message(key \o <<"event">>)})}

SharedMessages ==
  {Entry(ErrorMessage, BridgeOp, ResultPayload({Schema("JsonRpcError")})),
   Entry(<<"rpc", "unsubscribe">>, BridgeOp, RequestPayload({Schema("SubscriptionId")})),
   Entry(<<"rpc", "unsubscribed">>, BridgeOp, ResultPayload({Schema("SubscriptionId")})),
   Entry(<<"rpc", "subscription_terminated">>, BridgeOp, NotificationPayload({}))}

SharedOperations ==
  {Entry(<<"rpc", "unsubscribe">>, BridgeOp,
         {Message(<<"rpc", "unsubscribe">>), Message(<<"rpc", "unsubscribed">>), Message(ErrorMessage)}),
   Entry(<<"rpc", "subscription_terminated">>, BridgeOp, {Message(<<"rpc", "subscription_terminated">>)})}

SchemaComponents ==
  Shared \cup {Schema(n) : n \in {"JsonRpcError", "JsonRpcId", "SubscriptionId", "SubscriptionState",
                                  "NoParams", "EventGeneration", "EventTimestamp"}}

BuildAsyncApi(ctx) ==
  LET methods == MethodEntries(ctx)
      events == EventEntries(ctx)
      messages == (UNION ({MethodMessages(e) : e \in methods} \cup {EventMessages(e) : e \in events}))
                  \cup SharedMessages
      operations == (UNION ({MethodOperations(e) : e \in methods} \cup {EventOperations(e) : e \in events}))
                    \cup SharedOperations
      records == RecordComponents(ctx)
  IN [messages |-> messages, operations |-> operations,
      defines |-> SchemaComponents \cup {ByRequestId, BySubscription}
                  \cup {Message(x.key) : x \in messages} \cup {r.key : r \in records},
      refs |-> UNION {x.refs : x \in messages \cup operations \cup records}]
=============================================================================

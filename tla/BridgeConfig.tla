---------------------------- MODULE BridgeConfig ----------------------------
(***************************************************************************)
(* What start() makes of the operator's configuration document             *)
(* (src/bridge_config.h).                                                  *)
(*                                                                         *)
(* A document is a record of its sections; a key is Absent, Bad when it    *)
(* has the wrong JSON type, or a value.  Which refusal is reported is left *)
(* out, so the order of the checks is too.  A name is the sequence of its  *)
(* parts between dots: "a.b" is <<"a", "b">>.                              *)
(***************************************************************************)
EXTENDS Integers, Sequences, FiniteSets

CONSTANTS
  Absent, Bad,
  IntWidth,   \* the bits of the build's int (32)
  Loopback,   \* the spellings that are loopback literals
  Spaced,     \* name parts with a space or a control character
  SelfName    \* the bridge's own module name

ASSUME IntWidthAssumption == IntWidth \in Nat \ {0}

(* The set written as a list, and whether it lists something twice. *)
Listed(list) == {list[i] : i \in DOMAIN list}
Twice(list) == Cardinality(Listed(list)) # Len(list)

(* nlohmann's get<int>(): the low bits of a wider number. *)
Narrow(n) ==
  LET half == 2^(IntWidth - 1) IN ((n + half) % (2 * half)) - half

ReadInt(written, fallback) == IF written \in Int THEN Narrow(written) ELSE fallback

----------------------------------------------------------------------------
(* http and auth *)

Host(http) == IF http = Absent \/ http.host = Absent THEN "127.0.0.1" ELSE http.host
Port(http) == IF http = Absent THEN 8645 ELSE ReadInt(http.port, 8645)

AcceptsHttp(http) ==
  /\ http # Bad
  /\ http # Absent => http.host # Bad /\ http.origins # Bad
  /\ Host(http) \in Loopback
  /\ Port(http) \in 1..65535

AcceptsAuth(auth) ==
  /\ auth # Bad
  /\ auth # Absent => auth.mode \in {Absent, "none", "bearer"} /\ ~auth.token

----------------------------------------------------------------------------
(* expose.modules *)

NoPolicy == [allow |-> Absent, deny |-> Absent]

AcceptsList(list) == list # Bad /\ (list # Absent => ~Twice(list) /\ Bad \notin Listed(list))

AcceptsPolicy(p) == p # Bad /\ AcceptsList(p.allow) /\ AcceptsList(p.deny)

(* An absent allow list is unconstrained, an empty one permits nothing. *)
ReadPolicy(p) ==
  [unconstrained |-> p.allow = Absent,
   allow |-> IF p.allow = Absent THEN {} ELSE Listed(p.allow),
   deny |-> IF p.deny = Absent THEN {} ELSE Listed(p.deny)]

(* Fault: a dot is let through. *)
CheckModuleName_Dots(name) == name # <<"rpc">> /\ \A i \in DOMAIN name : name[i] \notin Spaced

CheckModuleName(name) ==
  /\ name # <<"rpc">>
  /\ Len(name) = 1
  /\ \A i \in DOMAIN name : name[i] \notin Spaced

AcceptsModule(m) ==
  /\ m # Bad /\ m.name # Bad
  /\ AcceptsPolicy(m.methods) /\ AcceptsPolicy(m.events)
  /\ m.name # <<"">> /\ CheckModuleName(m.name) /\ m.name # SelfName
  /\ ReadPolicy(m.methods).deny \cap {"lidl", "name", "version"} = {}

AcceptsExpose(modules) ==
  /\ modules \notin {Absent, Bad}
  /\ modules # <<>>
  /\ \A i \in DOMAIN modules : AcceptsModule(modules[i])
  /\ \A i, j \in DOMAIN modules : modules[i].name = modules[j].name => i = j

ReadModule(m) ==
  [name |-> m.name, methods |-> ReadPolicy(m.methods), events |-> ReadPolicy(m.events)]

----------------------------------------------------------------------------
(* limits and discovery *)

DefaultLimits ==
  [max_connections |-> 128, max_connections_per_peer |-> 8,
   max_body_bytes |-> 1048576, max_frame_bytes |-> 1048576,
   max_in_flight_per_connection |-> 32, max_in_flight_total |-> 256,
   max_subscriptions_per_connection |-> 256, max_queued_frames_per_connection |-> 256,
   call_timeout_ms |-> 30000]

(* limits is a function of the keys that are written. *)
ReadLimits(limits) ==
  IF limits = Absent THEN DefaultLimits
  ELSE [k \in DOMAIN DefaultLimits |->
          IF k \in DOMAIN limits THEN ReadInt(limits[k], DefaultLimits[k]) ELSE DefaultLimits[k]]

AcceptsLimits(limits) ==
  limits # Bad /\ \A k \in DOMAIN DefaultLimits : ReadLimits(limits)[k] > 0

(* Unlike a limit, a revalidate_ms that does not fit an int is refused. *)
AcceptsRevalidate(ms) ==
  ms = Absent \/ (ms \in Int /\ ms < 2^(IntWidth - 1) /\ (ms = 0 \/ ms >= 1000))

----------------------------------------------------------------------------
Accepts(doc) ==
  /\ doc # Bad
  /\ AcceptsHttp(doc.http) /\ AcceptsAuth(doc.auth) /\ AcceptsExpose(doc.modules)
  /\ AcceptsLimits(doc.limits) /\ AcceptsRevalidate(doc.revalidate)

(* parseBridgeConfig of a document it accepts. *)
ParseBridgeConfig(doc) ==
  [host |-> Host(doc.http), port |-> Port(doc.http),
   origins |-> IF doc.http = Absent \/ doc.http.origins = Absent THEN {} ELSE doc.http.origins,
   bearer |-> doc.auth # Absent /\ doc.auth.mode = "bearer",
   modules |-> [i \in DOMAIN doc.modules |-> ReadModule(doc.modules[i])],
   limits |-> ReadLimits(doc.limits),
   revalidate |-> IF doc.revalidate = Absent THEN 10000 ELSE doc.revalidate]
=============================================================================

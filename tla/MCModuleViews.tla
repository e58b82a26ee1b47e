--------------------------- MODULE MCModuleViews ---------------------------
(* Small instances for TLC: five builds of a module with a method          *)
(* get(p, ? q), a setter and an event, three configurations that start and *)
(* those that must not.                                                    *)
EXTENDS SelfDescription

Member(name, params) == [name |-> name, params |-> params]
Named(name) == <<[kind |-> "named", name |-> name]>>
Of(kind, type) == <<[kind |-> kind]>> \o type
Primitive(name) == <<[kind |-> "primitive", name |-> name]>>
Slot(name, optional, type) == [name |-> name, optional |-> optional, type |-> type]

P == Slot("p", FALSE, Of("array", Named("Item")))
Q == Slot("q", TRUE, Of("optional", Primitive("bstr")))

(* Item uses Owner, which is declared, and Lost, which is not. *)
Types ==
  {[name |-> "Item", fields |-> <<Slot("owner", TRUE, Named("Owner")),
                                  Slot("lost", FALSE, Named("Lost"))>>],
   [name |-> "Owner", fields |-> <<Slot("all", FALSE, Of("map", Named("Item")))>>]}

Declared(name, params) ==
  [name |-> name, derived |-> FALSE, params |-> params, returns |-> Primitive("result")]
Procedure(name, params) ==
  [name |-> name, derived |-> FALSE, params |-> params, returns |-> None]
Builtin(name) ==
  [name |-> name, derived |-> TRUE, params |-> <<>>, returns |-> Primitive("tstr")]

Contract(methods, events) ==
  [methods |-> methods \o <<Builtin("name"), Builtin("version"), Builtin("lidl")>>,
   events |-> events, types |-> Types]
Report(methods, events) == [methods |-> methods, events |-> events]
Lidl == Member("lidl", <<>>)
E1 == [name |-> "e", params |-> <<P>>]
GetContract == Contract(<<Declared("get", <<P, Q>>)>>, <<E1>>)

(* Clones of get, a tagged event, and the introspection methods listed. *)
Cloned ==
  [live |-> Report(<<Member("get", <<"p">>), Member("get", <<"p", "q">>), Lidl,
                     Member("getPluginInterface", <<>>)>>,
                   <<Member("e", <<"">>)>>),
   lidl |-> GetContract]

(* A later version: another setter, events untagged, one name missing. *)
Untagged ==
  [live |-> Report(<<Member("get", <<"p", "">>), Member("set", <<"p">>), Lidl,
                     Member("name", <<>>)>>, <<>>),
   lidl |-> Contract(<<Declared("get", <<P, Q>>), Procedure("set", <<P>>)>>, <<E1>>)]

(* A contract that does not describe the code: get takes one parameter. *)
Wrong ==
  [live |-> Report(<<Member("get", <<"p">>), Lidl>>, <<Member("f", <<>>)>>),
   lidl |-> GetContract]

(* Built before lidl(), and one whose lidl() cannot be read. *)
Legacy == [live |-> Report(<<Member("set", <<"p", "">>)>>, <<>>), lidl |-> None]
Unreadable == [live |-> Report(<<Lidl>>, <<Member("e", <<"p">>)>>), lidl |-> None]

MCBuilds == {Cloned, Untagged, Wrong, Legacy, Unreadable}
MCHonest == {Cloned, Untagged}

MCFollowed == <<"m">>

Policy(allow, deny) == [allow |-> allow, deny |-> deny]
Bare(name) == [name |-> name, methods |-> NoPolicy, events |-> NoPolicy]
Exposing(modules) ==
  [http |-> Absent, auth |-> Absent, modules |-> modules, limits |-> Absent, revalidate |-> Absent]
Http(host, port) == [host |-> host, port |-> port, origins |-> Absent]

OpenDoc == Exposing(<<Bare(<<"m">>)>>)

DenyingDoc ==
  [http |-> Http("::1", Bad), auth |-> [mode |-> "bearer", token |-> FALSE],
   modules |-> <<Bare(<<"wal/let">>),
                 [name |-> <<"m">>, methods |-> Policy(Absent, <<"get">>),
                  events |-> Policy(<<"e", "f">>, <<"f">>)]>>,
   limits |-> [max_connections |-> 2^IntWidth + 4, call_timeout_ms |-> Bad],
   revalidate |-> 1000]

(* Two of its modules have names that are spelled alike as keys. *)
AllowingDoc ==
  [Exposing(<<[name |-> <<"m">>, methods |-> Policy(<<"get", "set">>, <<"set">>),
               events |-> Policy(Absent, <<"e">>)],
              Bare(<<"wal/let">>), Bare(<<"wal_let">>)>>) EXCEPT
     !.http = [host |-> Absent, port |-> 80, origins |-> {"page"}], !.revalidate = 0]

(* What start() must refuse, each for one reason. *)
RefusedModules ==
  {Absent, Bad, <<>>, <<Bad>>, <<Bare(Bad)>>, <<Bare(<<"">>)>>, <<Bare(<<"rpc">>)>>,
   <<Bare(<<"m", "e">>), Bare(<<"m">>)>>, <<Bare(<<"m">>), Bare(<<"a b">>)>>,
   <<Bare(<<"m">>), Bare(<<"m">>)>>, <<Bare(<<"m">>), Bare(<<"rpc">>)>>,
   <<Bare(<<"m">>), Bare(SelfName)>>,
   <<[Bare(<<"m">>) EXCEPT !.methods = Policy(Absent, <<"lidl">>)]>>,
   <<[Bare(<<"m">>) EXCEPT !.events = Policy(<<"e", "e">>, Absent)]>>}

MCWritten ==
  {OpenDoc, DenyingDoc, AllowingDoc, Bad}
  \cup {[OpenDoc EXCEPT !.modules = m] : m \in RefusedModules}
  \cup {[OpenDoc EXCEPT !.http = h] : h \in {Bad, Http("10.0.0.1", 80), Http(Bad, 80), Http("::1", 0)}}
  \cup {[OpenDoc EXCEPT !.auth = a] : a \in {Bad, [mode |-> "basic", token |-> FALSE],
                                             [mode |-> "bearer", token |-> TRUE]}}
  \cup {[OpenDoc EXCEPT !.limits = l] : l \in {Bad, [max_body_bytes |-> 0]}}
  \cup {[OpenDoc EXCEPT !.revalidate = ms] : ms \in {Bad, -1, 999, 2^IntWidth}}

(* The policies that the followed module gets from them. *)
MCConfigs ==
  {ReadModule(OpenDoc.modules[1]), ReadModule(DenyingDoc.modules[2]), ReadModule(AllowingDoc.modules[1])}

MCOtherViews == {[status |-> "ok", live |-> Cloned.live, contract |-> GetContract]}
MCSanitized == [x \in {"wal/let"} |-> "wal_let"]
MCSelfName == <<"json_rpc_bridge">>

MCAsked == {"get", "set", "lidl", "getPluginInterface", "absent"}
MCEvents == {"e", "f"}
MCGiven == {{}, {"p"}, {"p", "q"}, {"r"}}
=============================================================================

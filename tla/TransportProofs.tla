-------------------------- MODULE TransportProofs --------------------------
(***************************************************************************)
(* What the server promises its connections, for any numbers of sockets,   *)
(* senders, connections and frames, and any limits: frames in order or a   *)
(* close, no lost wake-up, slots that match sockets, one notice per close. *)
(***************************************************************************)
EXTENDS Transport, FiniteSetTheorems, TLAPS

----------------------------------------------------------------------------
(* Types *)

ConnType ==
  [ws : BOOLEAN, body : BOOLEAN, asked : BOOLEAN, outbound : Seq(Nat), partial : Seq(Nat),
   httpOut : Seq(Nat), wantClose : BOOLEAN, sent : Nat, written : Seq(Nat)]

ServiceType ==
  [pc : {"idle", "take", "write", "detach", "unpend"}, sock : Sockets \cup {NoSocket},
   conn : Nat, frame : Nat, last : BOOLEAN]

SenderType ==
  [pc : {"idle", "queue", "insert", "cancel"}, conn : Nat, sock : Sockets \cup {NoSocket}]

Types ==
  /\ made \in Nat /\ made <= MaxConns
  /\ conns \in [Sockets -> 0..made]
  /\ conn \in [Conns -> ConnType]
  /\ hooked \in [Conns -> Nat]
  /\ sock \in [Sockets -> {"closed", "http", "ws"}]
  /\ svc \in ServiceType
  /\ sender \in [Senders -> SenderType]

LEMMA NewConnType ==
  ASSUME NEW b \in BOOLEAN
  PROVE  /\ NewConn(b) \in ConnType
         /\ NewConn(b).ws = b /\ NewConn(b).outbound = <<>> /\ NewConn(b).partial = <<>>
         /\ NewConn(b).written = <<>> /\ NewConn(b).sent = 0 /\ NewConn(b).wantClose = FALSE
  BY DEF NewConn, ConnType

LEMMA NewConns == NewConn(TRUE) \in ConnType /\ NewConn(FALSE) \in ConnType
  BY DEF NewConn, ConnType

(* A Conn's fields, one at a time. *)
LEMMA FieldSet ==
  ASSUME NEW c \in ConnType
  PROVE  /\ \A q \in Seq(Nat) : /\ [c EXCEPT !.outbound = q] \in ConnType
                               /\ [c EXCEPT !.partial = q] \in ConnType
                               /\ [c EXCEPT !.httpOut = q] \in ConnType
                               /\ [c EXCEPT !.written = q] \in ConnType
         /\ \A k \in Nat : [c EXCEPT !.sent = k] \in ConnType
         /\ \A b \in BOOLEAN : /\ [c EXCEPT !.body = b] \in ConnType
                              /\ [c EXCEPT !.asked = b] \in ConnType
                              /\ [c EXCEPT !.wantClose = b] \in ConnType
  BY DEF ConnType

(* What a send does to its Conn. *)
LEMMA EnqueueKeeps ==
  ASSUME NEW c \in ConnType
  PROVE  /\ Enqueue(c) \in ConnType
         /\ Enqueue(c).ws = c.ws /\ Enqueue(c).partial = c.partial
         /\ Enqueue(c).written = c.written /\ Enqueue(c).sent = c.sent + 1
         /\ \/ Enqueue(c).outbound = c.outbound /\ Enqueue(c).wantClose /\ Len(c.outbound) >= MaxQueue
            \/ /\ Enqueue(c).outbound = Append(c.outbound, c.sent + 1)
               /\ Enqueue(c).wantClose = c.wantClose /\ Len(c.outbound) < MaxQueue
<1> DEFINE more == c.sent + 1
           d == [c EXCEPT !.sent = more]
<1>0. more \in Nat /\ more = c.sent + 1
  BY DEF ConnType
<1> HIDE DEF more
<1>1. /\ d \in ConnType /\ d.sent = more
      /\ d.ws = c.ws /\ d.partial = c.partial /\ d.written = c.written
      /\ d.outbound = c.outbound /\ d.wantClose = c.wantClose
  BY <1>0 DEF ConnType
<1>2. Len(c.outbound) \in Nat /\ c.sent \in Nat /\ c.outbound \in Seq(Nat) /\ MaxQueue \in Nat
  BY TransportAssumption DEF ConnType
<1>3. Enqueue(c) = IF Len(c.outbound) >= MaxQueue THEN [d EXCEPT !.wantClose = TRUE]
                   ELSE [d EXCEPT !.outbound = Append(@, c.sent + 1)]
  BY Zenon DEF Enqueue, more
<1> HIDE DEF d
<1>4. CASE Len(c.outbound) >= MaxQueue
  BY <1>0, <1>1, <1>3, <1>4 DEF ConnType
<1>5. CASE ~(Len(c.outbound) >= MaxQueue)
  <2> DEFINE q == Append(c.outbound, c.sent + 1)
  <2>1. q \in Seq(Nat) /\ Len(c.outbound) < MaxQueue
    BY <1>2, <1>5
  <2>2. Enqueue(c) = [d EXCEPT !.outbound = q]
    BY <1>1, <1>3, <1>5
  <2> HIDE DEF q
  <2>3. /\ Enqueue(c) \in ConnType /\ Enqueue(c).outbound = q /\ Enqueue(c).sent = more
        /\ Enqueue(c).ws = c.ws /\ Enqueue(c).partial = c.partial
        /\ Enqueue(c).written = c.written /\ Enqueue(c).wantClose = c.wantClose
    BY <1>1, <2>1, <2>2 DEF ConnType
  <2> QED
    BY <1>0, <2>1, <2>3 DEF q
<1> QED
  BY <1>4, <1>5

(* Whatever an action does to the tables and to the Conns, it does one of  *)
(* these: a Conn is attached, one is forgotten, or one gets new contents.  *)
LEMMA AttachTypes ==
  ASSUME Types, NEW w \in Sockets, NEW c \in ConnType, Attach(w, c)
  PROVE  /\ made' \in Nat /\ made' <= MaxConns
         /\ conns' \in [Sockets -> 0..made']
         /\ conn' \in [Conns -> ConnType]
         /\ made + 1 \in Conns /\ conn'[made + 1] = c
         /\ \A n \in Conns : n # made + 1 =>
              \/ conn'[n] = conn[n] /\ n # conns[w]
              \/ conn'[n] = NewConn(conn[n].ws) /\ n = conns[w]
<1> DEFINE before == IF conns[w] = 0 THEN conn ELSE Forgotten(conns[w])
<1>1. /\ made' = made + 1 /\ made + 1 <= MaxConns /\ made' \in Nat
      /\ made + 1 \in Conns
      /\ conns' = [conns EXCEPT ![w] = made + 1]
      /\ conn' = [before EXCEPT ![made + 1] = c]
  BY TransportAssumption DEF Attach, Types, Conns
<1>2. conns' \in [Sockets -> 0..made']
  BY <1>1 DEF Types
<1>3. \A n \in Conns : NewConn(conn[n].ws) \in ConnType
  <2> TAKE n \in Conns
  <2>1. conn[n].ws \in BOOLEAN
    BY DEF Types, ConnType
  <2> QED
    BY <2>1, NewConnType
<1>4. /\ before \in [Conns -> ConnType]
      /\ \A n \in Conns : \/ before[n] = conn[n] /\ n # conns[w]
                          \/ before[n] = NewConn(conn[n].ws) /\ n = conns[w]
  <2>1. CASE conns[w] = 0
    BY <2>1 DEF Types, Conns
  <2>2. CASE conns[w] # 0
    BY <1>3, <2>2 DEF Types, Forgotten
  <2> QED
    BY <2>1, <2>2
<1> HIDE DEF before
<1> QED
  BY <1>1, <1>2, <1>4

LEMMA ConnChanges ==
  ASSUME Types, NEW n, NEW c, n \in Conns => c \in ConnType, conn' = [conn EXCEPT ![n] = c]
  PROVE  /\ conn' \in [Conns -> ConnType]
         /\ \A m \in Conns : m # n => conn'[m] = conn[m]
         /\ n \in Conns => conn'[n] = c
  BY DEF Types

(* The rest of the state is typed by the values it is given. *)
LEMMA ServiceAtType ==
  ASSUME NEW pc \in {"idle", "take", "write", "detach"}, NEW w \in Sockets \cup {NoSocket},
         NEW n \in Nat, NEW f \in Nat, ServiceAt(pc, w, n, f)
  PROVE  /\ svc' \in ServiceType
         /\ svc'.pc = pc /\ svc'.sock = w /\ svc'.conn = n /\ svc'.frame = f /\ ~svc'.last
<1>1. svc' = [pc |-> pc, sock |-> w, conn |-> n, frame |-> f, last |-> FALSE]
  BY DEF ServiceAt
<1> QED
  BY <1>1 DEF ServiceType

LEMMA ServiceReturnsType ==
  ASSUME ServiceReturns
  PROVE  /\ svc' \in ServiceType
         /\ svc'.pc = "idle" /\ svc'.sock = NoSocket /\ ~svc'.last
  BY ServiceAtType DEF ServiceReturns

LEMMA SenderTypes ==
  ASSUME Types, NEW t \in Senders, NEW pc \in {"idle", "queue", "insert", "cancel"}, NEW n \in Nat,
         NEW w \in Sockets \cup {NoSocket}, SenderAt(t, pc, n, w)
  PROVE  /\ sender' \in [Senders -> SenderType]
         /\ \A u \in Senders : u # t => sender'[u] = sender[u]
         /\ sender'[t].pc = pc /\ sender'[t].conn = n /\ sender'[t].sock = w
  BY DEF SenderAt, Types, SenderType

(* onBody: the Conn it is given is asked, or gets a frame and a wake-up. *)
LEMMA OnBodyTypes ==
  ASSUME Types, NEW w \in Sockets, NEW n, NEW c, n \in Conns => c \in ConnType, OnBody(w, n, c)
  PROVE  /\ conn' \in [Conns -> ConnType]
         /\ \A m \in Conns : m # n => conn'[m] = conn[m]
         /\ n \in Conns => \/ conn'[n] = [c EXCEPT !.asked = TRUE] /\ UNCHANGED wake
                           \/ conn'[n] = Enqueue(c) /\ pending' = pending \cup {w} /\ woken' = TRUE
<1>1. n \in Conns => [c EXCEPT !.asked = TRUE] \in ConnType /\ Enqueue(c) \in ConnType
  BY EnqueueKeeps DEF ConnType
<1>2. CASE conn' = [conn EXCEPT ![n] = [c EXCEPT !.asked = TRUE]] /\ UNCHANGED wake
  BY <1>1, <1>2, ConnChanges
<1>3. CASE /\ conn' = [conn EXCEPT ![n] = Enqueue(c)]
           /\ pending' = pending \cup {w} /\ woken' = TRUE
  BY <1>1, <1>3, ConnChanges
<1> QED
  BY <1>2, <1>3 DEF OnBody

(* What a request starts with. *)
LEMMA FirstFrames ==
  /\ [NewConn(FALSE) EXCEPT !.outbound = <<1>>, !.sent = 1] \in ConnType
  /\ ~[NewConn(FALSE) EXCEPT !.outbound = <<1>>, !.sent = 1].ws
  /\ [NewConn(FALSE) EXCEPT !.body = TRUE] \in ConnType
  /\ ~[NewConn(FALSE) EXCEPT !.body = TRUE].ws
<1> DEFINE d == [NewConn(FALSE) EXCEPT !.outbound = <<1>>]
           g == [d EXCEPT !.sent = 1]
<1>1. <<1>> \in Seq(Nat)
  OBVIOUS
<1>2. d \in ConnType
  BY <1>1, NewConns, FieldSet
<1>3. ~d.ws
  BY NewConns DEF NewConn
<1>4. g = [NewConn(FALSE) EXCEPT !.outbound = <<1>>, !.sent = 1]
  BY Zenon DEF d
<1>5. [NewConn(FALSE) EXCEPT !.body = TRUE] \in ConnType
  BY NewConns, FieldSet
<1>6. ~[NewConn(FALSE) EXCEPT !.body = TRUE].ws
  BY DEF NewConn
<1> HIDE DEF d
<1>7. g \in ConnType
  BY <1>2, FieldSet
<1>8. ~g.ws
  BY <1>2, <1>3 DEF ConnType
<1> HIDE DEF g
<1> QED
  BY <1>4, <1>5, <1>6, <1>7, <1>8

LEMMA PeersType ==
  ASSUME Types, NEW w \in Sockets,
         \/ Get(w) \/ Post(w) \/ RefuseRequest(w) \/ Body(w) \/ Establish(w)
         \/ RefuseUpgrade(w) \/ ReceiveText(w) \/ ReceiveOther(w) \/ Close(w)
  PROVE  Types'
<1>1. CASE Get(w)
  BY <1>1, FirstFrames, AttachTypes DEF Get, Types, lws, wake
<1>2. CASE Post(w)
  BY <1>2, FirstFrames, AttachTypes DEF Post, Types, lws, wake
<1>3. CASE RefuseRequest(w)
  BY <1>3, ServiceAtType DEF RefuseRequest, Types, table, wake
<1>4. CASE Body(w)
  <2> DEFINE n == conns[w]
             c == [conn[n] EXCEPT !.body = FALSE]
  <2>1. n \in Conns => c \in ConnType
    BY ZenonT(60) DEF Types, ConnType
  <2>2. /\ \/ OnBody(w, n, c) /\ UNCHANGED svc
           \/ ServiceAt("detach", w, 0, 0) /\ UNCHANGED <<conn, wake>>
        /\ UNCHANGED <<lws, table, hooked, sender, stopped>>
    BY <1>4 DEF Body
  <2> HIDE DEF n, c
  <2> QED
    BY <2>1, <2>2, OnBodyTypes, ServiceAtType DEF Types, table, lws
<1>5. CASE Establish(w)
  BY <1>5, AttachTypes, NewConnType DEF Establish, Types
<1>6. CASE RefuseUpgrade(w)
  BY <1>6, ServiceAtType DEF RefuseUpgrade, Types, table
<1>7. CASE ReceiveText(w)
  <2>1. conns[w] \in Conns => conn[conns[w]] \in ConnType
    BY DEF Types
  <2> QED
    BY <1>7, <2>1, OnBodyTypes DEF ReceiveText, Types, table, lws
<1>8. CASE ReceiveOther(w)
  BY <1>8 DEF ReceiveOther, Types, table, lws, ConnType
<1>9. CASE Close(w)
  BY <1>9, ServiceAtType DEF Close, Types, table, lws
<1> QED
  BY <1>1, <1>2, <1>3, <1>4, <1>5, <1>6, <1>7, <1>8, <1>9

----------------------------------------------------------------------------
(* How sockets, Conns, the service thread and the senders are linked *)

(* A Conn belongs to one socket, and is of the kind the socket is. *)
Apart == \A w, x \in Sockets : conns[w] = conns[x] /\ conns[w] # 0 => w = x

KindsMatch ==
  \A w \in Sockets : conns[w] # 0 => sock[w] = IF conn[conns[w]].ws THEN "ws" ELSE "http"

(* The service thread writes to an attached WebSocket Conn; between and    *)
(* after the two parts of a detach the socket has no Conn.                 *)
ServicePlace ==
  /\ svc.pc # "idle" => svc.sock \in Sockets
  /\ svc.pc \in {"take", "write"} =>
       svc.conn \in 1..made /\ conns[svc.sock] = svc.conn /\ conn[svc.conn].ws
  /\ svc.last => svc.pc = "detach" /\ conns[svc.sock] = 0
  /\ svc.pc = "unpend" => svc.conn \in 1..made /\ Gone(svc.conn) /\ conns[svc.sock] = 0

(* The Conn a sender is about to queue on has, if any, the socket it found. *)
SenderPlace ==
  \A t \in Senders : sender[t].pc = "queue" =>
    /\ sender[t].conn \in 1..made /\ sender[t].sock \in Sockets
    /\ \A w \in Sockets : conns[w] = sender[t].conn => w = sender[t].sock

Links == Apart /\ KindsMatch /\ ServicePlace /\ SenderPlace

LEMMA LinksKept ==
  ASSUME Types, Links, UNCHANGED <<conns, made, sock>>,
         \A n \in Conns : conn'[n].ws = conn[n].ws, ServicePlace', SenderPlace'
  PROVE  Links'
<1>1. \A w \in Sockets : conns[w] # 0 => conns[w] \in Conns
  BY TransportAssumption DEF Types, Conns
<1> QED
  BY <1>1 DEF Links, Apart, KindsMatch

(* Where the service thread may go from idle. *)
LEMMA ServiceGoes ==
  ASSUME Types, Links, NEW w \in Sockets,
         UNCHANGED <<conns, made>>, \A n \in Conns : conn'[n].ws = conn[n].ws,
         UNCHANGED svc \/ ServiceReturns \/ ServiceAt("detach", w, 0, 0)
  PROVE  ServicePlace'
<1>1. CASE UNCHANGED svc
  <2>1. 1..made \subseteq Conns
    BY TransportAssumption DEF Types, Conns
  <2> QED
    BY <1>1, <2>1 DEF Links, ServicePlace, Gone
<1>2. CASE ServiceReturns
  BY <1>2, ServiceReturnsType DEF ServicePlace
<1>3. CASE ServiceAt("detach", w, 0, 0)
  <2>1. svc'.pc = "detach" /\ svc'.sock = w /\ ~svc'.last
    BY <1>3, ServiceAtType
  <2> QED
    BY <2>1 DEF ServicePlace
<1> QED
  BY <1>1, <1>2, <1>3

LEMMA SendersStay ==
  ASSUME Links, UNCHANGED <<sender, conns, made>>
  PROVE  SenderPlace'
  BY DEF Links, SenderPlace

LEMMA AttachLinks ==
  ASSUME Types, Links, NEW w \in Sockets, NEW c \in ConnType, svc.pc = "idle", Attach(w, c),
         sock' = [sock EXCEPT ![w] = IF c.ws THEN "ws" ELSE "http"], UNCHANGED <<svc, sender>>
  PROVE  Links'
<1>1. /\ made' = made + 1 /\ made \in Nat /\ made <= MaxConns /\ MaxConns \in Nat
      /\ conns' = [conns EXCEPT ![w] = made + 1] /\ conns \in [Sockets -> 0..made]
      /\ sock \in [Sockets -> {"closed", "http", "ws"}]
  BY TransportAssumption DEF Attach, Types
<1>2. /\ conn'[made + 1] = c
      /\ \A n \in Conns : n # made + 1 => conn'[n].ws = conn[n].ws
  <2>1. \A n \in Conns : NewConn(conn[n].ws).ws = conn[n].ws
    BY DEF NewConn
  <2>2. /\ conn'[made + 1] = c
        /\ \A n \in Conns : n # made + 1 => conn'[n] = conn[n] \/ conn'[n] = NewConn(conn[n].ws)
    BY AttachTypes
  <2> QED
    BY <2>1, <2>2
<1>3. Apart'
  BY <1>1 DEF Links, Apart
<1>4. KindsMatch'
  <2> SUFFICES ASSUME NEW x \in Sockets, conns'[x] # 0
               PROVE  sock'[x] = IF conn'[conns'[x]].ws THEN "ws" ELSE "http"
    BY DEF KindsMatch
  <2>1. CASE x = w
    BY <1>1, <1>2, <2>1
  <2>2. CASE x # w
    <3>1. conns'[x] = conns[x] /\ sock'[x] = sock[x] /\ conns[x] \in 0..made
      BY <1>1, <2>2
    <3>2. conns[x] # 0 => conn'[conns[x]].ws = conn[conns[x]].ws
      BY <1>1, <1>2, <3>1 DEF Conns
    <3> QED
      BY <3>1, <3>2 DEF Links, KindsMatch
  <2> QED
    BY <2>1, <2>2
<1>5. ServicePlace'
  BY DEF Links, ServicePlace
<1>6. SenderPlace'
  BY <1>1 DEF Links, SenderPlace
<1> QED
  BY <1>3, <1>4, <1>5, <1>6 DEF Links

(* A connected socket is open. *)
LEMMA ClosedHasNone ==
  ASSUME Types, Links, NEW w \in Sockets, sock[w] # "ws"
  PROVE  conns[w] # 0 => ~conn[conns[w]].ws /\ sock[w] = "http"
  BY DEF Links, KindsMatch

LEMMA PeersLinks ==
  ASSUME Types, Links, NEW w \in Sockets,
         \/ Get(w) \/ Post(w) \/ RefuseRequest(w) \/ Body(w) \/ Establish(w)
         \/ RefuseUpgrade(w) \/ ReceiveText(w) \/ ReceiveOther(w) \/ Close(w)
  PROVE  Links'
<1>1. CASE Get(w) \/ Post(w)
  <2>1. PICK c \in ConnType : ~c.ws /\ Attach(w, c)
    BY <1>1, FirstFrames DEF Get, Post
  <2> QED
    BY <1>1, <2>1, AttachLinks DEF Get, Post, Ready, Idle
<1>2. CASE Establish(w)
  <2>1. NewConn(TRUE).ws
    BY DEF NewConn
  <2> QED
    BY <1>2, <2>1, NewConns, AttachLinks DEF Establish, Ready, Idle
<1>3. CASE RefuseRequest(w) \/ RefuseUpgrade(w)
  <2>1. /\ Ready(w) /\ sock' = [sock EXCEPT ![w] = "http"] /\ UNCHANGED <<conns, made, conn, sender>>
        /\ UNCHANGED svc \/ ServiceAt("detach", w, 0, 0)
    BY <1>3 DEF RefuseRequest, RefuseUpgrade, table
  <2>2. KindsMatch'
    BY <2>1 DEF Links, KindsMatch, Ready, Types
  <2> QED
    BY <2>1, <2>2, ServiceGoes, SendersStay DEF Links, Apart
<1>4. CASE Body(w) \/ ReceiveText(w)
  <2>1. PICK c : /\ conns[w] \in Conns => c \in ConnType /\ c.ws = conn[conns[w]].ws
                 /\ \/ OnBody(w, conns[w], c) /\ UNCHANGED svc
                    \/ ServiceAt("detach", w, 0, 0) /\ UNCHANGED conn
    BY <1>4, ZenonT(60) DEF Body, ReceiveText, Types, ConnType
  <2>2. UNCHANGED <<conns, made, sock, sender>>
    BY <1>4 DEF Body, ReceiveText, table, lws
  <2>3. \A n \in Conns : conn'[n].ws = conn[n].ws
    <3>1. conns[w] \in Conns => [c EXCEPT !.asked = TRUE].ws = c.ws /\ Enqueue(c).ws = c.ws
      BY <2>1, EnqueueKeeps DEF ConnType
    <3>2. CASE OnBody(w, conns[w], c)
      <4>1. /\ \A m \in Conns : m # conns[w] => conn'[m] = conn[m]
            /\ conns[w] \in Conns => \/ conn'[conns[w]] = [c EXCEPT !.asked = TRUE]
                                    \/ conn'[conns[w]] = Enqueue(c)
        <5> DEFINE n == conns[w]
        <5>1. /\ n \in Conns => c \in ConnType
              /\ OnBody(w, n, c)
          BY <2>1, <3>2
        <5> HIDE DEF n
        <5>2. /\ \A m \in Conns : m # n => conn'[m] = conn[m]
              /\ n \in Conns => \/ conn'[n] = [c EXCEPT !.asked = TRUE]
                                \/ conn'[n] = Enqueue(c)
          BY <5>1, OnBodyTypes
        <5> QED
          BY <5>2 DEF n
      <4> QED
        BY <2>1, <3>1, <4>1
    <3> QED
      BY <2>1, <3>2
  <2>4. ServicePlace' /\ SenderPlace'
    BY <2>1, <2>2, <2>3, ServiceGoes, SendersStay
  <2> QED
    BY <2>2, <2>3, <2>4, LinksKept
<1>5. CASE ReceiveOther(w) \/ Close(w)
  <2>1. /\ UNCHANGED <<conns, made, sock, sender>>
        /\ UNCHANGED svc \/ ServiceAt("detach", w, 0, 0)
    BY <1>5 DEF ReceiveOther, Close, table, lws
  <2>2. \A n \in Conns : conn'[n].ws = conn[n].ws
    <3>1. CASE ReceiveOther(w)
      BY <3>1 DEF ReceiveOther, Types, ConnType
    <3>2. CASE Close(w)
      BY <3>2 DEF Close
    <3> QED
      BY <1>5, <3>1, <3>2
  <2> QED
    BY <2>1, <2>2, ServiceGoes, SendersStay, LinksKept
<1> QED
  BY <1>1, <1>2, <1>3, <1>4, <1>5

----------------------------------------------------------------------------
(* The service thread's own steps *)

LEMMA SentKeeps ==
  ASSUME NEW c \in ConnType, NEW f \in Nat
  PROVE  /\ Sent(c, f) \in ConnType
         /\ Sent(c, f).ws = c.ws /\ Sent(c, f).outbound = c.outbound /\ Sent(c, f).sent = c.sent
         /\ Sent(c, f).partial = c.partial /\ Sent(c, f).wantClose = c.wantClose
         /\ Sent(c, f).written = Append(c.written, f)
<1> DEFINE q == Append(c.written, f)
<1>1. q \in Seq(Nat)
  BY DEF ConnType
<1>2. Sent(c, f) = [c EXCEPT !.written = q]
  BY DEF Sent
<1> HIDE DEF q
<1>3. /\ Sent(c, f) \in ConnType
      /\ Sent(c, f).ws = c.ws /\ Sent(c, f).outbound = c.outbound /\ Sent(c, f).sent = c.sent
      /\ Sent(c, f).partial = c.partial /\ Sent(c, f).wantClose = c.wantClose
      /\ Sent(c, f).written = q
  BY <1>1, <1>2 DEF ConnType
<1> QED
  BY <1>3 DEF q

(* A frame leaves the queue. *)
Dequeued(c) == [c EXCEPT !.outbound = Tail(@)]

LEMMA DequeuedKeeps ==
  ASSUME NEW c \in ConnType, c.outbound # <<>>
  PROVE  /\ Dequeued(c) \in ConnType
         /\ Dequeued(c).ws = c.ws /\ Dequeued(c).written = c.written /\ Dequeued(c).sent = c.sent
         /\ Dequeued(c).partial = c.partial /\ Dequeued(c).wantClose = c.wantClose
         /\ Dequeued(c).outbound = Tail(c.outbound)
         /\ Head(c.outbound) \in Nat
<1> DEFINE q == Tail(c.outbound)
<1>1. q \in Seq(Nat) /\ Head(c.outbound) \in Nat
  BY DEF ConnType
<1>2. Dequeued(c) = [c EXCEPT !.outbound = q]
  BY DEF Dequeued
<1> HIDE DEF q
<1>3. /\ Dequeued(c) \in ConnType
      /\ Dequeued(c).ws = c.ws /\ Dequeued(c).written = c.written /\ Dequeued(c).sent = c.sent
      /\ Dequeued(c).partial = c.partial /\ Dequeued(c).wantClose = c.wantClose
      /\ Dequeued(c).outbound = q
  BY <1>1, <1>2 DEF ConnType
<1> QED
  BY <1>1, <1>3 DEF q

LEMMA WaitCancelledShape ==
  ASSUME Types, Links, WaitCancelled
  PROVE  Types' /\ Links'
<1>1. Types'
  BY DEF WaitCancelled, Types, table
<1>2. UNCHANGED <<conns, made, sock, conn, svc, sender>>
  BY DEF WaitCancelled, table
<1>3. ServicePlace' /\ SenderPlace'
  BY <1>2, SendersStay DEF Links, ServicePlace, Gone
<1> QED
  BY <1>1, <1>2, <1>3, LinksKept

(* What a slice is made from: a frame is taken from the queue, or is there. *)
LEMMA HttpFrame ==
  ASSUME NEW c \in ConnType, c.httpOut # <<>> \/ c.outbound # <<>>
  PROVE  LET d == IF c.httpOut # <<>> THEN c
                  ELSE [c EXCEPT !.httpOut = <<Head(c.outbound)>>, !.outbound = Tail(@)]
         IN  d \in ConnType /\ d.ws = c.ws /\ d.httpOut # <<>>
<1>1. CASE c.httpOut # <<>>
  BY <1>1
<1>2. CASE c.httpOut = <<>>
  <2> DEFINE q == <<Head(c.outbound)>>
             e == [c EXCEPT !.httpOut = q]
  <2>1. q \in Seq(Nat) /\ q # <<>>
    BY <1>2, DequeuedKeeps
  <2>2. [c EXCEPT !.httpOut = <<Head(c.outbound)>>, !.outbound = Tail(@)] = Dequeued(e)
    BY Zenon DEF Dequeued
  <2> HIDE DEF q
  <2>3. e \in ConnType /\ e.ws = c.ws /\ e.httpOut = q /\ e.outbound # <<>>
    BY <1>2, <2>1 DEF ConnType
  <2> HIDE DEF e
  <2>4. Dequeued(e).httpOut = e.httpOut
    BY <2>3 DEF Dequeued, ConnType
  <2> QED
    BY <1>2, <2>1, <2>2, <2>3, <2>4, DequeuedKeeps
<1> QED
  BY <1>1, <1>2

LEMMA HttpSliceDoes ==
  ASSUME Types, NEW w \in Sockets, NEW n \in Conns, NEW c \in ConnType, c.httpOut # <<>>,
         c.ws = conn[n].ws, HttpSlice(w, n, c)
  PROVE  /\ conn' \in [Conns -> ConnType]
         /\ \A m \in Conns : conn'[m].ws = conn[m].ws /\ (m # n => conn'[m] = conn[m])
         /\ UNCHANGED svc \/ ServiceAt("detach", w, 0, 0)
<1>1. CASE conn' = [conn EXCEPT ![n] = [c EXCEPT !.httpOut = Append(@, 0)]] /\ UNCHANGED svc
  <2> DEFINE q == Append(c.httpOut, 0)
  <2>1. q \in Seq(Nat)
    BY DEF ConnType
  <2>2. conn' = [conn EXCEPT ![n] = [c EXCEPT !.httpOut = q]]
    BY <1>1
  <2> HIDE DEF q
  <2>3. [c EXCEPT !.httpOut = q] \in ConnType /\ [c EXCEPT !.httpOut = q].ws = c.ws
    BY <2>1 DEF ConnType
  <2> QED
    BY <1>1, <2>2, <2>3, ConnChanges
<1>2. CASE /\ conn' = [conn EXCEPT ![n] = Sent([c EXCEPT !.httpOut = <<>>], c.httpOut[1])]
           /\ UNCHANGED svc \/ ServiceAt("detach", w, 0, 0)
  <2> DEFINE d == [c EXCEPT !.httpOut = <<>>]
  <2>1. d \in ConnType /\ d.ws = c.ws /\ c.httpOut[1] \in Nat
    <3>1. d \in ConnType /\ d.ws = c.ws
      <4> DEFINE q == <<>>
      <4>1. q \in Seq(Nat) /\ d = [c EXCEPT !.httpOut = q]
        OBVIOUS
      <4> HIDE DEF q, d
      <4> QED
        BY <4>1 DEF ConnType
    <3>2. c.httpOut \in Seq(Nat) /\ c.httpOut # <<>>
      BY DEF ConnType
    <3>3. c.httpOut[1] \in Nat
      BY <3>2
    <3> QED
      BY <3>1, <3>3
  <2> HIDE DEF d
  <2>2. Sent(d, c.httpOut[1]) \in ConnType /\ Sent(d, c.httpOut[1]).ws = c.ws
    BY <2>1, SentKeeps
  <2>3. conn' = [conn EXCEPT ![n] = Sent(d, c.httpOut[1])]
    BY <1>2, Zenon DEF d
  <2> QED
    BY <1>2, <2>2, <2>3, ConnChanges
<1>3. CASE conn' = [conn EXCEPT ![n] = c] /\ ServiceAt("detach", w, 0, 0)
  BY <1>3, ConnChanges
<1> QED
  BY <1>1, <1>2, <1>3 DEF HttpSlice

(* An HTTP answer is written from an HTTP Conn only. *)
LEMMA HttpWriteableDoes ==
  ASSUME Types, Links, NEW w \in Sockets, HttpWriteable(w)
  PROVE  /\ conn' \in [Conns -> ConnType]
         /\ \A m \in Conns : conn'[m].ws = conn[m].ws /\ (conn[m].ws => conn'[m] = conn[m])
         /\ UNCHANGED svc \/ ServiceAt("detach", w, 0, 0)
<1> DEFINE n == conns[w]
           c == IF conn[n].httpOut # <<>> THEN conn[n]
                ELSE [conn[n] EXCEPT !.httpOut = <<Head(conn[n].outbound)>>, !.outbound = Tail(@)]
<1>1. CASE n = 0 \/ (conn[n].httpOut = <<>> /\ conn[n].outbound = <<>>)
  BY <1>1 DEF HttpWriteable, Types
<1>2. CASE ~(n = 0 \/ (conn[n].httpOut = <<>> /\ conn[n].outbound = <<>>))
  <2>1. n \in Conns /\ conn[n] \in ConnType /\ ~conn[n].ws
    BY <1>2, TransportAssumption DEF HttpWriteable, Links, KindsMatch, Types, Conns
  <2>2. c \in ConnType /\ c.ws = conn[n].ws /\ c.httpOut # <<>>
    BY <1>2, <2>1, HttpFrame, Zenon
  <2>3. HttpSlice(w, n, c)
    BY <1>2, Zenon DEF HttpWriteable
  <2> HIDE DEF n, c
  <2>4. /\ conn' \in [Conns -> ConnType]
        /\ \A m \in Conns : conn'[m].ws = conn[m].ws /\ (m # n => conn'[m] = conn[m])
        /\ UNCHANGED svc \/ ServiceAt("detach", w, 0, 0)
    BY <2>1, <2>2, <2>3, HttpSliceDoes
  <2> QED
    BY <2>1, <2>4
<1> QED
  BY <1>1, <1>2

LEMMA HttpWriteableShape ==
  ASSUME Types, Links, NEW w \in Sockets, HttpWriteable(w)
  PROVE  Types' /\ Links'
<1>1. UNCHANGED <<conns, made, sock, hooked, sender>>
  BY DEF HttpWriteable, table
<1>2. Types'
  BY <1>1, HttpWriteableDoes, ServiceAtType DEF Types
<1>3. ServicePlace' /\ SenderPlace'
  BY <1>1, HttpWriteableDoes, ServiceGoes, SendersStay
<1> QED
  BY <1>1, <1>2, <1>3, HttpWriteableDoes, LinksKept

LEMMA ServerWriteableShape ==
  ASSUME Types, Links, NEW w \in Sockets, ServerWriteable(w)
  PROVE  Types' /\ Links'
<1>1. UNCHANGED <<conns, made, sock, conn, hooked, sender>> /\ conns[w] \in 1..made /\ sock[w] = "ws"
  BY DEF ServerWriteable, table, Types
<1>2. ServiceAt("detach", w, 0, 0) \/ ServiceAt("take", w, conns[w], 0)
  BY DEF ServerWriteable
<1>3. Types'
  BY <1>1, <1>2, ServiceAtType DEF Types
<1>4. ServicePlace'
  <2>1. CASE ServiceAt("detach", w, 0, 0)
    BY <1>1, <2>1, ServiceGoes
  <2>2. CASE ServiceAt("take", w, conns[w], 0)
    <3>1. svc'.pc = "take" /\ svc'.sock = w /\ svc'.conn = conns[w] /\ ~svc'.last
      BY <1>1, <2>2, ServiceAtType
    <3>2. conn[conns[w]].ws
      BY <1>1 DEF Links, KindsMatch
    <3> QED
      BY <1>1, <3>1, <3>2 DEF ServicePlace
  <2> QED
    BY <1>2, <2>1, <2>2
<1> QED
  BY <1>1, <1>3, <1>4, SendersStay, LinksKept

(* writeQueued takes what is left of a frame, or the head of the queue. *)
LEMMA WriteTakeDoes ==
  ASSUME Types, Links, WriteTake
  PROVE  /\ svc.conn \in Conns /\ conn[svc.conn] \in ConnType
         /\ conn' \in [Conns -> ConnType]
         /\ \A m \in Conns : conn'[m].ws = conn[m].ws /\ (m # svc.conn => conn'[m] = conn[m])
         /\ LET c == conn[svc.conn] IN
            \/ /\ c.partial # <<>> /\ c.partial[1] \in Nat /\ conn'[svc.conn] = c
               /\ ServiceAt("write", svc.sock, svc.conn, c.partial[1])
            \/ /\ c.partial = <<>> /\ c.outbound # <<>> /\ conn'[svc.conn] = Dequeued(c)
               /\ Head(c.outbound) \in Nat
               /\ ServiceAt("write", svc.sock, svc.conn, Head(c.outbound))
            \/ /\ c.partial = <<>> /\ c.outbound = <<>> /\ conn'[svc.conn] = c
               /\ ServiceReturns
<1> DEFINE n == svc.conn
           c == conn[n]
<1>1. n \in Conns /\ c \in ConnType
  BY TransportAssumption DEF WriteTake, Links, ServicePlace, Types, Conns
<1>2. CASE /\ c.partial # <<>>
           /\ ServiceAt("write", svc.sock, n, c.partial[1])
           /\ UNCHANGED conn
  <2>1. c.partial \in Seq(Nat) /\ c.partial # <<>>
    BY <1>1, <1>2 DEF ConnType
  <2>2. c.partial[1] \in Nat
    BY <2>1
  <2> QED
    BY <1>1, <1>2, <2>2 DEF Types
<1>3. CASE /\ c.partial = <<>> /\ c.outbound # <<>>
           /\ ServiceAt("write", svc.sock, n, Head(c.outbound))
           /\ conn' = [conn EXCEPT ![n].outbound = Tail(@)]
  <2>1. conn' = [conn EXCEPT ![n] = Dequeued(c)]
    BY <1>3, Zenon DEF Dequeued
  <2> HIDE DEF c
  <2>2. Dequeued(c) \in ConnType /\ Dequeued(c).ws = c.ws /\ Head(c.outbound) \in Nat
    BY <1>1, <1>3, DequeuedKeeps
  <2>3. /\ conn' \in [Conns -> ConnType] /\ conn'[n] = Dequeued(c)
        /\ \A m \in Conns : m # n => conn'[m] = conn[m]
    BY <1>1, <2>1, <2>2, ConnChanges
  <2>4. \A m \in Conns : conn'[m].ws = conn[m].ws
    BY <2>2, <2>3 DEF c
  <2> QED
    BY <1>1, <1>3, <2>2, <2>3, <2>4 DEF c
<1>4. CASE c.partial = <<>> /\ c.outbound = <<>> /\ ServiceReturns /\ UNCHANGED conn
  BY <1>1, <1>4 DEF Types
<1> QED
  BY <1>2, <1>3, <1>4 DEF WriteTake

LEMMA WriteTakeShape ==
  ASSUME Types, Links, WriteTake
  PROVE  Types' /\ Links'
<1>1. /\ UNCHANGED <<conns, made, sock, hooked, sender>>
      /\ svc.pc = "take" /\ svc.sock \in Sockets /\ svc.conn \in 1..made
      /\ conns[svc.sock] = svc.conn /\ conn[svc.conn].ws
  BY DEF WriteTake, table, lws, Links, ServicePlace
<1>2. \/ ServiceReturns
      \/ \E f \in Nat : ServiceAt("write", svc.sock, svc.conn, f)
  BY WriteTakeDoes
<1>3. svc' \in ServiceType /\ ServicePlace'
  <2>1. CASE ServiceReturns
    BY <2>1, ServiceReturnsType DEF ServicePlace
  <2>2. CASE \E f \in Nat : ServiceAt("write", svc.sock, svc.conn, f)
    <3>1. PICK f \in Nat : ServiceAt("write", svc.sock, svc.conn, f)
      BY <2>2
    <3>2. /\ svc' \in ServiceType /\ svc'.pc = "write" /\ svc'.sock = svc.sock
          /\ svc'.conn = svc.conn /\ ~svc'.last
      BY <1>1, <3>1, ServiceAtType DEF Types
    <3>3. conn'[svc.conn].ws = conn[svc.conn].ws
      BY WriteTakeDoes
    <3> QED
      BY <1>1, <3>2, <3>3 DEF ServicePlace
  <2> QED
    BY <1>2, <2>1, <2>2
<1>4. Types'
  BY <1>1, <1>3, WriteTakeDoes DEF Types
<1>5. \A m \in Conns : conn'[m].ws = conn[m].ws
  BY WriteTakeDoes
<1> QED
  BY <1>1, <1>3, <1>4, <1>5, SendersStay, LinksKept

(* The frame goes out in part, whole, or not at all. *)
LEMMA WriteDoneDoes ==
  ASSUME Types, Links, WriteDone
  PROVE  /\ svc.conn \in Conns /\ conn[svc.conn] \in ConnType
         /\ conn' \in [Conns -> ConnType]
         /\ \A m \in Conns : m # svc.conn => conn'[m] = conn[m]
         /\ LET c == conn[svc.conn]
                d == conn'[svc.conn]
            IN
            /\ d.ws = c.ws /\ d.outbound = c.outbound /\ d.wantClose = c.wantClose /\ d.sent = c.sent
            /\ \/ /\ c.partial = <<>> /\ d.partial = <<svc.frame>> /\ d.written = c.written
                  /\ writable' = Rearm(svc.sock, d) /\ ServiceReturns
               \/ /\ d.partial = <<>> /\ d.written = Append(c.written, svc.frame)
                  /\ writable' = Rearm(svc.sock, d) /\ ServiceReturns
               \/ d = c /\ UNCHANGED writable /\ ServiceAt("detach", svc.sock, 0, 0)
<1> DEFINE n == svc.conn
           c == conn[n]
<1>1. n \in Conns /\ c \in ConnType /\ svc.frame \in Nat
  BY TransportAssumption DEF WriteDone, Links, ServicePlace, Types, Conns, ServiceType
<1>2. CASE /\ c.partial = <<>>
           /\ conn' = [conn EXCEPT ![n] = [c EXCEPT !.partial = <<svc.frame>>]]
           /\ writable' = Rearm(svc.sock, [c EXCEPT !.partial = <<svc.frame>>])
           /\ ServiceReturns
  <2> DEFINE q == <<svc.frame>>
             d == [c EXCEPT !.partial = q]
  <2>1. q \in Seq(Nat) /\ d = [c EXCEPT !.partial = <<svc.frame>>]
    BY <1>1
  <2> HIDE DEF q, d, c
  <2>2. /\ d \in ConnType /\ d.partial = q /\ d.written = c.written
        /\ d.ws = c.ws /\ d.outbound = c.outbound /\ d.wantClose = c.wantClose /\ d.sent = c.sent
    BY <1>1, <2>1 DEF ConnType, d
  <2>3. conn' = [conn EXCEPT ![n] = d]
    BY <1>2, <2>1, Zenon
  <2>4. /\ conn' \in [Conns -> ConnType] /\ conn'[n] = d
        /\ \A m \in Conns : m # n => conn'[m] = conn[m]
    BY <1>1, <2>2, <2>3, ConnChanges
  <2>5. writable' = Rearm(svc.sock, d)
    BY <1>2, Zenon DEF d, q
  <2>6. q = <<svc.frame>> /\ c = conn[n]
    BY DEF q, c
  <2> QED
    BY <1>1, <1>2, <2>2, <2>4, <2>5, <2>6
<1>3. CASE /\ conn' = [conn EXCEPT ![n] = Sent([c EXCEPT !.partial = <<>>], svc.frame)]
           /\ writable' = Rearm(svc.sock, Sent([c EXCEPT !.partial = <<>>], svc.frame))
           /\ ServiceReturns
  <2> DEFINE q == <<>>
             d == [c EXCEPT !.partial = q]
             e == Sent(d, svc.frame)
  <2>1. q \in Seq(Nat)
    OBVIOUS
  <2> HIDE DEF q
  <2>2. /\ d \in ConnType /\ d.partial = q /\ d.written = c.written
        /\ d.ws = c.ws /\ d.outbound = c.outbound /\ d.wantClose = c.wantClose /\ d.sent = c.sent
    BY <1>1, <2>1 DEF ConnType
  <2> HIDE DEF d
  <2>3. /\ e \in ConnType /\ e.partial = q /\ e.written = Append(c.written, svc.frame)
        /\ e.ws = c.ws /\ e.outbound = c.outbound /\ e.wantClose = c.wantClose /\ e.sent = c.sent
    <3>1. /\ e \in ConnType /\ e.partial = d.partial /\ e.written = Append(d.written, svc.frame)
          /\ e.ws = d.ws /\ e.outbound = d.outbound /\ e.wantClose = d.wantClose /\ e.sent = d.sent
      BY <1>1, <2>2, SentKeeps
    <3> QED
      BY <2>2, <3>1
  <2>4. conn' = [conn EXCEPT ![n] = e] /\ writable' = Rearm(svc.sock, e)
    BY <1>3, Zenon DEF d, q
  <2>5. q = <<>>
    BY DEF q
  <2> HIDE DEF e
  <2>6. /\ conn' \in [Conns -> ConnType] /\ conn'[n] = e
        /\ \A m \in Conns : m # n => conn'[m] = conn[m]
    BY <1>1, <2>3, <2>4, ConnChanges
  <2> QED
    BY <1>1, <1>3, <2>3, <2>4, <2>5, <2>6
<1>4. CASE ServiceAt("detach", svc.sock, 0, 0) /\ UNCHANGED <<conn, writable>>
  BY <1>1, <1>4 DEF Types
<1> QED
  BY <1>2, <1>3, <1>4, Zenon DEF WriteDone

LEMMA WriteDoneShape ==
  ASSUME Types, Links, WriteDone
  PROVE  Types' /\ Links'
<1>1. /\ UNCHANGED <<conns, made, sock, hooked, sender>> /\ svc.sock \in Sockets
  BY DEF WriteDone, table, Links, ServicePlace
<1>2. UNCHANGED svc \/ ServiceReturns \/ ServiceAt("detach", svc.sock, 0, 0)
  BY WriteDoneDoes
<1>3. svc' \in ServiceType
  BY <1>1, <1>2, ServiceReturnsType, ServiceAtType DEF Types
<1>4. Types'
  BY <1>1, <1>3, WriteDoneDoes DEF Types
<1>5. \A m \in Conns : conn'[m].ws = conn[m].ws
  BY WriteDoneDoes
<1>6. ServicePlace' /\ SenderPlace'
  BY <1>1, <1>2, <1>5, ServiceGoes, SendersStay
<1> QED
  BY <1>1, <1>4, <1>5, <1>6, LinksKept

----------------------------------------------------------------------------
(* Closing *)

(* The first detach leads to the second, the second frees the wsi. *)
LEMMA DetachReturnsDoes ==
  ASSUME Types, Links, svc.pc \in {"detach", "unpend"}, DetachReturns
  PROVE  /\ svc' \in ServiceType /\ sock' \in [Sockets -> {"closed", "http", "ws"}]
         /\ \A w \in Sockets : w # svc.sock => sock'[w] = sock[w]
         /\ \/ /\ svc.last /\ svc'.pc = "idle" /\ ~svc'.last
               /\ sock'[svc.sock] = "closed" /\ writable' = writable \ {svc.sock}
            \/ /\ ~svc.last /\ svc'.pc = "detach" /\ svc'.last /\ svc'.sock = svc.sock
               /\ UNCHANGED <<sock, writable>>
<1>1. CASE /\ svc.last /\ ServiceReturns
           /\ sock' = [sock EXCEPT ![svc.sock] = "closed"]
           /\ writable' = writable \ {svc.sock}
  <2>1. svc.sock \in Sockets
    BY DEF Links, ServicePlace
  <2> QED
    BY <1>1, <2>1, ServiceReturnsType DEF Types
<1>2. CASE /\ ~svc.last /\ svc' = [svc EXCEPT !.pc = "detach", !.last = TRUE]
           /\ UNCHANGED lws
  <2> DEFINE s == [svc EXCEPT !.pc = "detach"]
  <2>1. s \in ServiceType /\ s.pc = "detach" /\ s.sock = svc.sock
    BY DEF Types, ServiceType
  <2>2. svc' = [s EXCEPT !.last = TRUE]
    BY <1>2, Zenon DEF s
  <2> HIDE DEF s
  <2>3. svc' \in ServiceType /\ svc'.pc = "detach" /\ svc'.last /\ svc'.sock = svc.sock
    BY <2>1, <2>2 DEF ServiceType
  <2> QED
    BY <1>2, <2>3 DEF lws, Types
<1> QED
  BY <1>1, <1>2 DEF DetachReturns

(* The Conn of the socket is forgotten, or it has none. *)
LEMMA DetachConnDoes ==
  ASSUME Types, Links, DetachConn
  PROVE  /\ svc' \in ServiceType /\ sock' \in [Sockets -> {"closed", "http", "ws"}]
         /\ svc.pc = "detach" /\ svc.sock \in Sockets
         /\ conns' = [conns EXCEPT ![svc.sock] = 0]
         /\ \/ /\ conns[svc.sock] \in 1..made /\ conns[svc.sock] \in Conns
               /\ conn' = Forgotten(conns[svc.sock])
               /\ svc'.pc = "unpend" /\ svc'.conn = conns[svc.sock] /\ ~svc'.last
               /\ svc'.sock = svc.sock
               /\ UNCHANGED <<sock, writable>>
            \/ /\ conns[svc.sock] = 0 /\ UNCHANGED conn
               /\ DetachReturns
<1>1. svc.pc = "detach" /\ svc.sock \in Sockets
  BY DEF DetachConn, Links, ServicePlace
<1>2. CASE /\ conns[svc.sock] # 0 /\ Forget(svc.sock) /\ conn' = Forgotten(conns[svc.sock])
           /\ svc' = [svc EXCEPT !.pc = "unpend", !.conn = conns[svc.sock]]
           /\ UNCHANGED lws
  <2> DEFINE s == [svc EXCEPT !.pc = "unpend"]
             n == conns[svc.sock]
  <2>1. n \in 1..made /\ n \in Conns /\ n \in Nat
    BY <1>1, <1>2, TransportAssumption DEF Types, Conns
  <2>2. s \in ServiceType /\ s.pc = "unpend" /\ s.sock = svc.sock /\ ~s.last
    BY <1>1, <1>2 DEF Types, ServiceType, Links, ServicePlace
  <2>3. svc' = [s EXCEPT !.conn = n]
    BY <1>2, Zenon DEF s
  <2> HIDE DEF s, n
  <2>4. /\ svc' \in ServiceType /\ svc'.pc = "unpend" /\ svc'.conn = n
        /\ ~svc'.last /\ svc'.sock = svc.sock
    BY <2>1, <2>2, <2>3 DEF ServiceType
  <2>5. n = conns[svc.sock]
    BY DEF n
  <2> QED
    BY <1>1, <1>2, <2>1, <2>4, <2>5 DEF Forget, lws, Types
<1>3. CASE conns[svc.sock] = 0 /\ DetachReturns /\ UNCHANGED <<conns, conn>>
  <2>1. conns' = [conns EXCEPT ![svc.sock] = 0]
    BY <1>3 DEF Types
  <2> QED
    BY <1>1, <1>3, <2>1, DetachReturnsDoes
<1> QED
  BY <1>2, <1>3 DEF DetachConn

LEMMA ForgottenTypes ==
  ASSUME Types, NEW n \in Conns
  PROVE  /\ Forgotten(n) \in [Conns -> ConnType]
         /\ Forgotten(n)[n] = NewConn(conn[n].ws)
         /\ \A m \in Conns : Forgotten(n)[m].ws = conn[m].ws /\ (m # n => Forgotten(n)[m] = conn[m])
<1>1. conn[n].ws \in BOOLEAN
  BY DEF Types, ConnType
<1>2. NewConn(conn[n].ws) \in ConnType /\ NewConn(conn[n].ws).ws = conn[n].ws
  BY <1>1, NewConnType
<1> QED
  BY <1>2 DEF Forgotten, Types

LEMMA DetachConnShape ==
  ASSUME Types, Links, DetachConn
  PROVE  Types' /\ Links'
<1>1. /\ UNCHANGED <<made, hooked, sender>>
      /\ svc.pc = "detach" /\ svc.sock \in Sockets
      /\ conns' = [conns EXCEPT ![svc.sock] = 0] /\ conns' \in [Sockets -> 0..made]
  BY DetachConnDoes DEF DetachConn, Types
<1>2. conn' \in [Conns -> ConnType] /\ \A m \in Conns : conn'[m].ws = conn[m].ws
  <2>1. CASE conns[svc.sock] \in Conns /\ conn' = Forgotten(conns[svc.sock])
    BY <2>1, ForgottenTypes
  <2>2. CASE UNCHANGED conn
    BY <2>2 DEF Types
  <2> QED
    BY <2>1, <2>2, DetachConnDoes
<1>3. Types'
  BY <1>1, <1>2, DetachConnDoes DEF Types
<1>4. \A w \in Sockets : w # svc.sock => sock'[w] = sock[w]
  BY DetachConnDoes, DetachReturnsDoes
<1>5. Apart' /\ SenderPlace'
  BY <1>1 DEF Links, Apart, SenderPlace, Types
<1>6. KindsMatch'
  <2> SUFFICES ASSUME NEW w \in Sockets, conns'[w] # 0
               PROVE  sock'[w] = IF conn'[conns'[w]].ws THEN "ws" ELSE "http"
    BY DEF KindsMatch
  <2>1. w # svc.sock /\ conns'[w] = conns[w] /\ sock'[w] = sock[w]
    BY <1>1, <1>4 DEF Types
  <2>2. conns[w] \in Conns
    BY <2>1, TransportAssumption DEF Types, Conns
  <2> QED
    BY <1>2, <2>1, <2>2 DEF Links, KindsMatch
<1>7. ServicePlace'
  <2>1. conns'[svc.sock] = 0
    BY <1>1 DEF Types
  <2>2. CASE /\ conns[svc.sock] \in 1..made
             /\ svc'.pc = "unpend" /\ svc'.conn = conns[svc.sock] /\ ~svc'.last
             /\ svc'.sock = svc.sock
    <3>1. \A w \in Sockets : conns'[w] # conns[svc.sock]
      BY <1>1, <2>2 DEF Links, Apart, Types
    <3> QED
      BY <1>1, <2>1, <2>2, <3>1 DEF ServicePlace, Gone
  <2>3. CASE DetachReturns
    BY <1>1, <2>1, <2>3, DetachReturnsDoes DEF ServicePlace
  <2> QED
    BY <2>2, <2>3, DetachConnDoes
<1> QED
  BY <1>3, <1>5, <1>6, <1>7 DEF Links

LEMMA DetachPendingShape ==
  ASSUME Types, Links, DetachPending
  PROVE  Types' /\ Links'
<1>1. /\ UNCHANGED <<conns, made, conn, sender>> /\ DetachReturns
      /\ svc.pc = "unpend" /\ svc.sock \in Sockets /\ conns[svc.sock] = 0
      /\ svc.conn \in Conns /\ conns \in [Sockets -> 0..made]
  BY TransportAssumption DEF DetachPending, table, Links, ServicePlace, Types, Conns
<1>2. hooked' \in [Conns -> Nat]
  BY <1>1 DEF DetachPending, Types
<1>3. Types'
  BY <1>1, <1>2, DetachReturnsDoes DEF Types
<1>4. KindsMatch'
  BY <1>1, DetachReturnsDoes DEF Links, KindsMatch
<1>5. ServicePlace'
  BY <1>1, DetachReturnsDoes DEF ServicePlace
<1> QED
  BY <1>1, <1>3, <1>4, <1>5, SendersStay DEF Links, Apart

LEMMA StopShape ==
  ASSUME Types, Links, Stop
  PROVE  Types' /\ Links'
<1>1. /\ UNCHANGED <<made, svc, sender>> /\ svc.pc = "idle"
      /\ \A t \in Senders : sender[t].pc = "idle"
      /\ conns' = [w \in Sockets |-> 0] /\ sock' = [w \in Sockets |-> "closed"]
      /\ conn' = [n \in Conns |-> NewConn(conn[n].ws)]
  BY DEF Stop, Idle
<1>2. \A n \in Conns : NewConn(conn[n].ws) \in ConnType
  <2> TAKE n \in Conns
  <2>1. conn[n].ws \in BOOLEAN
    BY DEF Types, ConnType
  <2> QED
    BY <2>1, NewConnType
<1>3. hooked' \in [Conns -> Nat]
  BY DEF Stop, Types
<1>4. Types'
  BY <1>1, <1>2, <1>3 DEF Types
<1>5. Links'
  BY <1>1 DEF Links, Apart, KindsMatch, ServicePlace, SenderPlace
<1> QED
  BY <1>4, <1>5

----------------------------------------------------------------------------
(* The senders *)

LEMMA ServiceStays ==
  ASSUME Types, Links, UNCHANGED <<conns, made, svc>>, \A n \in Conns : conn'[n].ws = conn[n].ws
  PROVE  ServicePlace'
<1>1. 1..made \subseteq Conns
  BY TransportAssumption DEF Types, Conns
<1> QED
  BY <1>1 DEF Links, ServicePlace, Gone

(* A frame is queued on a Conn that is still attached, on no other. *)
LEMMA SendQueueDoes ==
  ASSUME Types, Links, NEW t \in Senders, SendQueue(t)
  PROVE  /\ sender[t].conn \in Conns /\ conn[sender[t].conn] \in ConnType
         /\ conn' \in [Conns -> ConnType]
         /\ \A m \in Conns : conn'[m].ws = conn[m].ws /\ (m # sender[t].conn => conn'[m] = conn[m])
         /\ IF Gone(sender[t].conn) THEN conn' = conn
            ELSE conn'[sender[t].conn] = Enqueue(conn[sender[t].conn])
<1> DEFINE n == sender[t].conn
<1>1. n \in Conns /\ conn[n] \in ConnType
  BY TransportAssumption DEF SendQueue, Links, SenderPlace, Types, Conns
<1>2. Enqueue(conn[n]) \in ConnType /\ Enqueue(conn[n]).ws = conn[n].ws
  BY <1>1, EnqueueKeeps
<1>3. conn' = IF Gone(n) THEN conn ELSE [conn EXCEPT ![n] = Enqueue(conn[n])]
  BY DEF SendQueue
<1> QED
  BY <1>1, <1>2, <1>3 DEF Types

LEMMA SendersShape ==
  ASSUME Types, Links, NEW t \in Senders, SendStep(t) \/ \E n \in Conns : SendLookup(t, n)
  PROVE  Types' /\ Links'
<1>1. UNCHANGED <<conns, made, sock, hooked, svc>>
  BY DEF SendStep, SendQueue, SendInsert, SendCancel, SendLookup, table, lws
<1>2. conn' \in [Conns -> ConnType] /\ \A m \in Conns : conn'[m].ws = conn[m].ws
  <2>1. CASE SendQueue(t)
    BY <2>1, SendQueueDoes
  <2>2. CASE UNCHANGED conn
    BY <2>2 DEF Types
  <2> QED
    BY <2>1, <2>2 DEF SendStep, SendInsert, SendCancel, SendLookup
<1>3. sender' \in [Senders -> SenderType] /\ SenderPlace'
  <2>1. sender[t].conn \in Nat /\ sender[t].sock \in Sockets \cup {NoSocket}
    BY DEF Types, SenderType
  <2>2. CASE SendStep(t)
    <3>1. \/ SenderAt(t, "insert", sender[t].conn, sender[t].sock)
          \/ SenderAt(t, "cancel", sender[t].conn, sender[t].sock)
          \/ SenderAt(t, "idle", 0, NoSocket)
      BY <2>2 DEF SendStep, SendQueue, SendInsert, SendCancel
    <3>2. /\ sender' \in [Senders -> SenderType] /\ sender'[t].pc # "queue"
          /\ \A u \in Senders : u # t => sender'[u] = sender[u]
      BY <2>1, <3>1, SenderTypes
    <3> QED
      BY <1>1, <3>2 DEF Links, SenderPlace
  <2>3. CASE \E n \in Conns : SendLookup(t, n)
    <3>1. PICK n \in Conns : SendLookup(t, n)
      BY <2>3
    <3>2. PICK w \in Sockets : conns[w] = n /\ conns[w] # 0 /\ SenderAt(t, "queue", n, w)
      BY <3>1 DEF SendLookup, Attached
    <3>3. n \in 1..made /\ n \in Nat
      BY <3>1, <3>2 DEF SendLookup, Conns, Types
    <3>4. /\ sender' \in [Senders -> SenderType]
          /\ sender'[t].conn = n /\ sender'[t].sock = w
          /\ \A u \in Senders : u # t => sender'[u] = sender[u]
      BY <3>2, <3>3, SenderTypes
    <3>5. \A x \in Sockets : conns[x] = n => x = w
      BY <3>2 DEF Links, Apart
    <3> QED
      BY <1>1, <3>3, <3>4, <3>5 DEF Links, SenderPlace
  <2> QED
    BY <2>2, <2>3
<1>4. Types'
  BY <1>1, <1>2, <1>3 DEF Types
<1> QED
  BY <1>1, <1>2, <1>3, <1>4, ServiceStays, LinksKept

----------------------------------------------------------------------------
(* Every reachable state is well formed *)

Shape == Types /\ Links

LEMMA InitShape == Init => Shape
<1> SUFFICES ASSUME Init PROVE Shape
  OBVIOUS
<1>1. NewConn(FALSE) \in ConnType
  BY NewConns
<1>2. Types
  <2>1. /\ made \in Nat /\ made <= MaxConns /\ conns \in [Sockets -> 0..made]
        /\ hooked \in [Conns -> Nat] /\ sock \in [Sockets -> {"closed", "http", "ws"}]
    BY TransportAssumption DEF Init
  <2>2. conn \in [Conns -> ConnType]
    BY <1>1 DEF Init
  <2>3. svc \in ServiceType
    BY DEF Init, ServiceType
  <2>4. sender \in [Senders -> SenderType]
    BY DEF Init, SenderType
  <2> QED
    BY <2>1, <2>2, <2>3, <2>4 DEF Types
<1>3. Links
  BY DEF Init, Links, Apart, KindsMatch, ServicePlace, SenderPlace
<1> QED
  BY <1>2, <1>3 DEF Shape

LEMMA StepShape ==
  ASSUME Shape, [Next]_vars
  PROVE  Shape'
<1>1. Types /\ Links
  BY DEF Shape
<1>2. CASE UNCHANGED vars
  <2>1. UNCHANGED <<made, conns, conn, hooked, sock, svc, sender>>
    BY <1>2 DEF vars, table, lws
  <2> QED
    BY <1>1, <2>1 DEF Shape, Types, Links, Apart, KindsMatch, ServicePlace, SenderPlace, Gone
<1>3. CASE Peers
  BY <1>1, <1>3, PeersType, PeersLinks DEF Peers, Shape
<1>4. CASE WaitCancelled
  BY <1>1, <1>4, WaitCancelledShape DEF Shape
<1>5. CASE Callback
  BY <1>1, <1>5, WriteTakeShape, WriteDoneShape, DetachConnShape, DetachPendingShape
     DEF Callback, Shape
<1>6. CASE Stop
  BY <1>1, <1>6, StopShape DEF Shape
<1>7. CASE \E w \in Sockets : Writeable(w)
  BY <1>1, <1>7, HttpWriteableShape, ServerWriteableShape DEF Writeable, Shape
<1>8. CASE \E t \in Senders : SendStep(t) \/ \E n \in Conns : SendLookup(t, n)
  BY <1>1, <1>8, SendersShape DEF Shape
<1> QED
  BY <1>2, <1>3, <1>4, <1>5, <1>6, <1>7, <1>8 DEF Next, Rest

LEMMA ShapeHolds == Spec => []Shape
  BY InitShape, StepShape, PTL DEF Spec

(* Most steps leave the tables as they are and are not part of a detach. *)
Attaches == \E w \in Sockets : Get(w) \/ Post(w) \/ Establish(w)

Quiet ==
  /\ UNCHANGED <<conns, slots, made, hooked>>
  /\ \A n \in Conns : conn'[n].ws = conn[n].ws
  /\ UNCHANGED svc \/ (svc.pc # "unpend" /\ svc'.pc # "unpend")

LEMMA PeersQuiet ==
  ASSUME Types, Links, NEW w \in Sockets,
         \/ RefuseRequest(w) \/ Body(w) \/ RefuseUpgrade(w)
         \/ ReceiveText(w) \/ ReceiveOther(w) \/ Close(w)
  PROVE  Quiet
<1>1. /\ UNCHANGED <<conns, slots, made, hooked>> /\ svc.pc = "idle"
      /\ UNCHANGED svc \/ ServiceAt("detach", w, 0, 0)
  BY DEF RefuseRequest, Body, RefuseUpgrade, ReceiveText, ReceiveOther, Close, table, Ready, Idle
<1>2. svc'.pc # "unpend"
  BY <1>1, ServiceAtType
<1>3. \A n \in Conns : conn'[n].ws = conn[n].ws
  <2>1. CASE ReceiveOther(w)
    BY <2>1 DEF ReceiveOther, Types, ConnType
  <2>2. CASE UNCHANGED conn
    BY <2>2
  <2>3. CASE Body(w) \/ ReceiveText(w)
    <3>1. PICK c : /\ conns[w] \in Conns => c \in ConnType /\ c.ws = conn[conns[w]].ws
                   /\ OnBody(w, conns[w], c) \/ UNCHANGED conn
      BY <2>3, ZenonT(60) DEF Body, ReceiveText, Types, ConnType
    <3>2. conns[w] \in Conns => [c EXCEPT !.asked = TRUE].ws = c.ws /\ Enqueue(c).ws = c.ws
      BY <3>1, EnqueueKeeps DEF ConnType
    <3>3. ASSUME OnBody(w, conns[w], c)
          PROVE  /\ \A m \in Conns : m # conns[w] => conn'[m] = conn[m]
                 /\ conns[w] \in Conns => \/ conn'[conns[w]] = [c EXCEPT !.asked = TRUE]
                                         \/ conn'[conns[w]] = Enqueue(c)
      <4> DEFINE n == conns[w]
      <4>1. OnBody(w, n, c) /\ (n \in Conns => c \in ConnType)
        BY <3>1, <3>3
      <4> HIDE DEF n
      <4>2. /\ \A m \in Conns : m # n => conn'[m] = conn[m]
            /\ n \in Conns => conn'[n] = [c EXCEPT !.asked = TRUE] \/ conn'[n] = Enqueue(c)
        BY <4>1, OnBodyTypes
      <4> QED
        BY <4>2 DEF n
    <3> QED
      BY <3>1, <3>2, <3>3
  <2> QED
    BY <2>1, <2>2, <2>3 DEF RefuseRequest, RefuseUpgrade, Close
<1> QED
  BY <1>1, <1>2, <1>3 DEF Quiet

LEMMA QuietSteps ==
  ASSUME Shape, [Next]_vars
  PROVE  Quiet \/ Attaches \/ DetachConn \/ DetachPending \/ Stop
<1>1. Types /\ Links
  BY DEF Shape
<1>2. CASE UNCHANGED vars
  BY <1>2 DEF vars, table, Quiet
<1>3. CASE Peers
  BY <1>1, <1>3, PeersQuiet DEF Peers, Attaches
<1>4. CASE WaitCancelled
  BY <1>4 DEF WaitCancelled, table, Quiet
<1>5. CASE WriteTake
  <2>1. UNCHANGED <<conns, slots, made, hooked>> /\ svc.pc = "take" /\ svc.sock \in Sockets
    BY <1>1, <1>5 DEF WriteTake, table, Links, ServicePlace
  <2>2. /\ \A n \in Conns : conn'[n].ws = conn[n].ws
        /\ ServiceReturns \/ \E f \in Nat : ServiceAt("write", svc.sock, svc.conn, f)
    BY <1>1, <1>5, WriteTakeDoes
  <2>3. svc'.pc # "unpend"
    BY <2>2 DEF ServiceReturns, ServiceAt
  <2> QED
    BY <2>1, <2>2, <2>3 DEF Quiet
<1>6. CASE WriteDone
  <2>1. UNCHANGED <<conns, slots, made, hooked>> /\ svc.pc = "write"
    BY <1>6 DEF WriteDone, table
  <2>2. /\ \A n \in Conns : conn'[n].ws = conn[n].ws
        /\ ServiceReturns \/ ServiceAt("detach", svc.sock, 0, 0)
    BY <1>1, <1>6, WriteDoneDoes
  <2>3. svc'.pc # "unpend"
    BY <2>2 DEF ServiceReturns, ServiceAt
  <2> QED
    BY <2>1, <2>2, <2>3 DEF Quiet
<1>7. CASE \E w \in Sockets : HttpWriteable(w)
  <2>1. PICK w \in Sockets : HttpWriteable(w)
    BY <1>7
  <2>2. UNCHANGED <<conns, slots, made, hooked>> /\ svc.pc = "idle"
    BY <2>1 DEF HttpWriteable, table, Idle
  <2>3. /\ \A n \in Conns : conn'[n].ws = conn[n].ws
        /\ UNCHANGED svc \/ ServiceAt("detach", w, 0, 0)
    BY <1>1, <2>1, HttpWriteableDoes
  <2>4. svc'.pc # "unpend"
    BY <2>2, <2>3 DEF ServiceAt
  <2> QED
    BY <2>2, <2>3, <2>4 DEF Quiet
<1>8. CASE \E w \in Sockets : ServerWriteable(w)
  BY <1>8 DEF ServerWriteable, table, Idle, ServiceAt, Quiet
<1>9. CASE \E t \in Senders : SendStep(t) \/ \E n \in Conns : SendLookup(t, n)
  <2>1. UNCHANGED <<conns, slots, made, hooked, svc>>
    BY <1>9 DEF SendStep, SendQueue, SendInsert, SendCancel, SendLookup, table
  <2>2. \A n \in Conns : conn'[n].ws = conn[n].ws
    BY <1>1, <1>9, SendQueueDoes DEF SendStep, SendInsert, SendCancel, SendLookup
  <2> QED
    BY <2>1, <2>2 DEF Quiet
<1> QED
  BY <1>2, <1>3, <1>4, <1>5, <1>6, <1>7, <1>8, <1>9 DEF Next, Rest, Callback, Writeable

----------------------------------------------------------------------------
(* Slots *)

Counted == SlotsMatch /\ IsFiniteSet(slots.owner)

LEMMA StepCounted ==
  ASSUME Shape, Counted, [Next]_vars
  PROVE  Counted'
<1>1. Types /\ Links
  BY DEF Shape
<1>2. /\ slots.owner = Attached /\ IsFiniteSet(Attached)
      /\ slots.count = Cardinality(Attached) /\ Cardinality(Attached) \in Nat
  BY FS_CardinalityType DEF Counted, SlotsMatch
<1>3. CASE Quiet
  BY <1>3 DEF Quiet, Counted, SlotsMatch, Attached
<1>4. CASE Attaches
  <2>1. PICK w \in Sockets : \E c : Attach(w, c)
    BY <1>4 DEF Attaches, Get, Post, Establish
  <2>2. Attached' = Attached \cup {w}
    BY <1>1, <2>1 DEF Attach, Attached, Types
  <2>3. CASE w \in Attached
    <3>1. slots' = slots
      BY <1>2, <2>1, <2>3 DEF Attach, Acquire
    <3> QED
      BY <1>2, <2>2, <2>3, <3>1 DEF Counted, SlotsMatch
  <2>4. CASE w \notin Attached
    <3>1. slots' = [owner |-> Attached \cup {w}, count |-> Cardinality(Attached) + 1]
      BY <1>2, <2>1, <2>4 DEF Attach, Acquire
    <3>2. /\ IsFiniteSet(Attached \cup {w})
          /\ Cardinality(Attached \cup {w}) = Cardinality(Attached) + 1
      BY <1>2, <2>4, FS_AddElement
    <3> QED
      BY <2>2, <3>1, <3>2 DEF Counted, SlotsMatch
  <2> QED
    BY <2>3, <2>4
<1>5. CASE DetachConn
  <2>1. slots' = Release(svc.sock) /\ Attached' = Attached \ {svc.sock}
    BY <1>1, <1>5, DetachConnDoes DEF DetachConn, Attached, Types
  <2>2. CASE svc.sock \in Attached
    <3>1. slots' = [owner |-> Attached \ {svc.sock}, count |-> Cardinality(Attached) - 1]
      BY <1>2, <2>1, <2>2 DEF Release
    <3>2. /\ IsFiniteSet(Attached \ {svc.sock})
          /\ Cardinality(Attached \ {svc.sock}) = Cardinality(Attached) - 1
      BY <1>2, <2>2, FS_RemoveElement
    <3> QED
      BY <2>1, <3>1, <3>2 DEF Counted, SlotsMatch
  <2>3. CASE svc.sock \notin Attached
    <3>1. slots' = slots /\ Attached' = Attached
      BY <1>2, <2>1, <2>3 DEF Release
    <3> QED
      BY <1>2, <3>1 DEF Counted, SlotsMatch
  <2> QED
    BY <2>2, <2>3
<1>6. CASE DetachPending
  BY <1>6 DEF DetachPending, table, Counted, SlotsMatch, Attached
<1>7. CASE Stop
  <2>1. slots' = [owner |-> {}, count |-> 0] /\ Attached' = {}
    BY <1>7 DEF Stop, Attached
  <2> QED
    BY <2>1, FS_EmptySet DEF Counted, SlotsMatch
<1> QED
  BY <1>3, <1>4, <1>5, <1>6, <1>7, QuietSteps

(* Over its peer's slots (PeerSlots, src/peer_slots.h): each wsi holds one *)
(* while it has a Conn, however many requests it carries, and the count is *)
(* theirs, though detach runs twice and an upgrade keeps the wsi.          *)
THEOREM SlotsAreCounted == Spec => []SlotsMatch
<1>1. Init => Counted
  <2> SUFFICES ASSUME Init PROVE Counted
    OBVIOUS
  <2>1. slots = [owner |-> {}, count |-> 0] /\ Attached = {}
    BY DEF Init, Attached
  <2> QED
    BY <2>1, FS_EmptySet DEF Counted, SlotsMatch
<1>2. Shape /\ Counted /\ [Next]_vars => Counted'
  BY StepCounted
<1>3. Counted => SlotsMatch
  BY DEF Counted
<1> QED
  BY <1>1, <1>2, <1>3, ShapeHolds, PTL DEF Spec

----------------------------------------------------------------------------
(* Notices *)

(* A Conn starts on a socket that is not a WebSocket, and a WebSocket Conn *)
(* starts empty.                                                           *)
LEMMA AttachesDoes ==
  ASSUME Types, Links, Attaches
  PROVE  \E w \in Sockets, c \in ConnType :
           /\ Attach(w, c) /\ svc.pc = "idle" /\ sock[w] # "ws"
           /\ sock' = [sock EXCEPT ![w] = IF c.ws THEN "ws" ELSE "http"]
           /\ c.ws => c = NewConn(TRUE)
           /\ writable \subseteq writable'
           /\ UNCHANGED <<hooked, pending, woken, svc, sender>>
<1>1. PICK w \in Sockets : Get(w) \/ Post(w) \/ Establish(w)
  BY DEF Attaches
<1>2. Ready(w)
  BY <1>1 DEF Get, Post, Establish
<1>3. svc.pc = "idle" /\ sock[w] # "ws"
  BY <1>2 DEF Ready, Idle
<1>4. CASE Get(w) \/ Post(w)
  <2>1. PICK c \in ConnType : ~c.ws /\ Attach(w, c)
    BY <1>4, FirstFrames DEF Get, Post
  <2>2. /\ sock' = [sock EXCEPT ![w] = "http"] /\ writable \subseteq writable'
        /\ UNCHANGED <<hooked, pending, woken, svc, sender>>
    BY <1>4 DEF Get, Post, wake
  <2> QED
    BY <1>3, <2>1, <2>2
<1>5. CASE Establish(w)
  <2>1. NewConn(TRUE) \in ConnType /\ NewConn(TRUE).ws
    BY NewConns DEF NewConn
  <2>2. /\ Attach(w, NewConn(TRUE)) /\ sock' = [sock EXCEPT ![w] = "ws"]
        /\ writable \subseteq writable' /\ UNCHANGED <<hooked, pending, woken, svc, sender>>
    BY <1>5 DEF Establish, wake
  <2> QED
    BY <1>3, <2>1, <2>2
<1> QED
  BY <1>1, <1>4, <1>5

Noticed == ClosedOnce /\ \A n \in Conns : n > made => hooked[n] = 0

LEMMA StepNoticed ==
  ASSUME Shape, Noticed, [Next]_vars
  PROVE  Noticed'
<1>1. /\ Types /\ Links /\ made \in Nat /\ 1..made \subseteq Conns
      /\ \A w \in Sockets : conns[w] # 0 => conns[w] \in 1..made
  BY TransportAssumption DEF Shape, Types, Conns
<1>2. CASE Quiet
  BY <1>1, <1>2 DEF Quiet, Noticed, ClosedOnce, Gone
<1>3. CASE Attaches
  <2>1. PICK w \in Sockets, c \in ConnType :
          /\ Attach(w, c) /\ svc.pc = "idle" /\ sock[w] # "ws" /\ UNCHANGED <<hooked, svc>>
    BY <1>1, <1>3, AttachesDoes
  <2>2. /\ made' = made + 1 /\ made + 1 \in Conns
        /\ conns' = [conns EXCEPT ![w] = made + 1]
    BY <1>1, <2>1, AttachTypes DEF Attach
  <2>3. \A n \in 1..made : conn'[n].ws = conn[n].ws
    <3>1. \A n \in Conns : n # made + 1 => conn'[n] = conn[n] \/ conn'[n] = NewConn(conn[n].ws)
      BY <1>1, <2>1, AttachTypes
    <3>2. \A n \in Conns : NewConn(conn[n].ws).ws = conn[n].ws
      BY DEF NewConn
    <3> QED
      BY <1>1, <3>1, <3>2
  <2>4. \A n \in 1..made : n # conns[w] => (Gone(n)' <=> Gone(n))
    BY <1>1, <2>2 DEF Gone, Types
  <2>5. conns[w] # 0 => ~conn[conns[w]].ws
    BY <1>1, <2>1, ClosedHasNone
  <2>6. \A n \in 1..made' : n = made + 1 => ~Gone(n)'
    BY <1>1, <2>2 DEF Gone, Types
  <2>7. ClosedOnce'
    <3> SUFFICES ASSUME NEW n \in 1..made'
                 PROVE  hooked'[n] = IF conn'[n].ws /\ Gone(n)' /\ ~(svc'.conn = n /\ svc'.pc = "unpend")
                                     THEN 1 ELSE 0
      BY DEF ClosedOnce
    <3>1. CASE n = made + 1
      <4>1. hooked[n] = 0 /\ ~Gone(n)'
        BY <1>1, <2>2, <2>6, <3>1 DEF Noticed
      <4> QED
        BY <2>1, <4>1
    <3>2. CASE n \in 1..made
      BY <2>1, <2>3, <2>4, <2>5, <3>2 DEF Noticed, ClosedOnce
    <3> QED
      BY <1>1, <2>2, <3>1, <3>2
  <2> QED
    BY <1>1, <2>1, <2>2, <2>7 DEF Noticed, Conns
<1>4. CASE DetachConn
  <2> DEFINE k == conns[svc.sock]
  <2>1. /\ svc.pc = "detach" /\ svc.sock \in Sockets /\ conns' = [conns EXCEPT ![svc.sock] = 0]
        /\ UNCHANGED <<made, hooked>>
        /\ conns \in [Sockets -> 0..made]
    BY <1>1, <1>4, DetachConnDoes DEF DetachConn, Types
  <2>2. CASE /\ k \in 1..made /\ conn' = Forgotten(k)
             /\ svc'.pc = "unpend" /\ svc'.conn = k
    <3>1. \A n \in 1..made : conn'[n].ws = conn[n].ws
      BY <1>1, <2>2, ForgottenTypes
    <3>2. \A n \in 1..made : n # k => (Gone(n)' <=> Gone(n))
      BY <2>1 DEF Gone
    <3>3. ~Gone(k)
      BY <2>1 DEF Gone
    <3> QED
      BY <2>1, <2>2, <3>1, <3>2, <3>3 DEF Noticed, ClosedOnce
  <2>3. CASE k = 0 /\ UNCHANGED conn /\ DetachReturns
    <3>1. conns' = conns /\ svc'.pc # "unpend"
      BY <1>1, <2>1, <2>3, DetachReturnsDoes
    <3> QED
      BY <2>1, <2>3, <3>1 DEF Noticed, ClosedOnce, Gone
  <2> QED
    BY <1>1, <1>4, <2>2, <2>3, DetachConnDoes
<1>5. CASE DetachPending
  <2>1. /\ UNCHANGED <<conns, made, conn>> /\ svc.pc = "unpend"
        /\ svc.conn \in 1..made /\ Gone(svc.conn)
        /\ hooked' = IF conn[svc.conn].ws THEN [hooked EXCEPT ![svc.conn] = @ + 1] ELSE hooked
        /\ svc'.pc # "unpend" /\ hooked \in [Conns -> Nat]
    BY <1>1, <1>5, DetachReturnsDoes DEF DetachPending, table, Links, ServicePlace, Types
  <2>2. \A n \in Conns : n # svc.conn => hooked'[n] = hooked[n]
    BY <2>1
  <2>3. hooked[svc.conn] = 0
    BY <1>1, <2>1 DEF Noticed, ClosedOnce
  <2>4. hooked'[svc.conn] = IF conn[svc.conn].ws THEN 1 ELSE 0
    BY <1>1, <2>1, <2>3
  <2>5. ClosedOnce'
    <3> SUFFICES ASSUME NEW n \in 1..made
                 PROVE  hooked'[n] = IF conn[n].ws /\ Gone(n) THEN 1 ELSE 0
      BY <2>1 DEF ClosedOnce, Gone
    <3>1. CASE n = svc.conn
      BY <2>1, <2>4, <3>1
    <3>2. CASE n # svc.conn
      BY <1>1, <2>2, <3>2 DEF Noticed, ClosedOnce
    <3> QED
      BY <3>1, <3>2
  <2>6. \A n \in Conns : n > made => n # svc.conn
    BY <1>1, <2>1 DEF Conns
  <2>7. \A n \in Conns : n > made => hooked'[n] = 0
    BY <2>2, <2>6 DEF Noticed
  <2>8. made' = made
    BY <2>1
  <2> QED
    BY <2>5, <2>7, <2>8 DEF Noticed
<1>6. CASE Stop
  <2>1. /\ made' = made /\ svc' = svc /\ svc.pc = "idle"
        /\ conns' = [w \in Sockets |-> 0]
        /\ conn' = [n \in Conns |-> NewConn(conn[n].ws)]
        /\ hooked' = [n \in Conns |-> IF conn[n].ws /\ \E w \in Sockets : conns[w] = n
                                     THEN hooked[n] + 1 ELSE hooked[n]]
    BY <1>6 DEF Stop, Idle
  <2>2. \A n \in 1..made : Gone(n)' /\ conn'[n].ws = conn[n].ws
    BY <1>1, <2>1 DEF Gone, NewConn
  <2>3. \A n \in 1..made : hooked'[n] = IF conn[n].ws THEN 1 ELSE 0
    BY <1>1, <2>1 DEF Noticed, ClosedOnce, Gone
  <2>4. \A n \in Conns : n > made => hooked'[n] = 0
    <3> SUFFICES ASSUME NEW n \in Conns, n > made
                 PROVE  hooked'[n] = 0
      OBVIOUS
    <3>1. \A w \in Sockets : conns[w] # n
      BY <1>1 DEF Types, Conns
    <3> QED
      BY <2>1, <3>1 DEF Noticed
  <2>5. made' = made /\ svc'.pc = "idle"
    BY <2>1
  <2>6. ClosedOnce'
    BY <2>2, <2>3, <2>5 DEF ClosedOnce
  <2> QED
    BY <2>4, <2>5, <2>6 DEF Noticed
<1> QED
  BY <1>2, <1>3, <1>4, <1>5, <1>6, QuietSteps

(* Over onClosed (WsServer::detach and its hook, src/ws_server.cpp): it is *)
(* called once for every WebSocket Conn that is gone and for no other, in  *)
(* whatever way the connection went, stop included.                        *)
THEOREM ClosesAreNoticed == Spec => []ClosedOnce
<1>1. Init => Noticed
  <2> SUFFICES ASSUME Init PROVE Noticed
    OBVIOUS
  <2>1. made = 0 /\ hooked = [n \in Conns |-> 0]
    BY DEF Init
  <2> QED
    BY <2>1 DEF Noticed, ClosedOnce
<1>2. Shape /\ Noticed /\ [Next]_vars => Noticed'
  BY StepNoticed
<1>3. Noticed => ClosedOnce
  BY DEF Noticed
<1> QED
  BY <1>1, <1>2, <1>3, ShapeHolds, PTL DEF Spec

----------------------------------------------------------------------------
(* Wake-ups *)

Stuck(c) == c.outbound # <<>> \/ c.partial # <<>> \/ c.wantClose

Signalled(w) ==
  \/ w \in writable
  \/ w \in pending /\ (woken \/ \E t \in Senders : sender[t].pc = "cancel")
  \/ \E t \in Senders : sender[t].pc = "insert" /\ sender[t].sock = w

AwakeAt(w) ==
  /\ sock[w] = "ws" /\ conns[w] # 0 /\ Stuck(conn[conns[w]]) => Signalled(w) \/ svc.sock = w
  /\ svc.pc \in {"take", "write"} /\ svc.sock = w /\ conn[conns[w]].wantClose => Signalled(w)

(* While the service thread writes, a close that is asked for is signalled *)
(* by whoever asked: the write itself will not look at wantClose again.    *)
Awake == (\A w \in Sockets : AwakeAt(w)) /\ (svc.pc = "idle" => svc.sock = NoSocket)

LEMMA AwakeSuffices == Awake => NoLostWakeup
  BY DEF Awake, AwakeAt, Stuck, Signalled, NoLostWakeup, Waiting

LEMMA SignalledKept ==
  ASSUME NEW w, Signalled(w), w \in writable => w \in writable', w \in pending => w \in pending',
         woken => woken', UNCHANGED sender
  PROVE  Signalled(w)'
  BY DEF Signalled

(* A step that leaves a socket's Conn as it was, or less to do, and what   *)
(* was on its way to it.                                                   *)
LEMMA AwakeCarried ==
  ASSUME NEW w \in Sockets, AwakeAt(w), Signalled(w) => Signalled(w)',
         sock'[w] = "ws" => sock[w] = "ws", conns'[w] = conns[w],
         sock'[w] = "ws" /\ conns[w] # 0 => conn'[conns[w]] = conn[conns[w]],
         svc.sock = w => svc'.sock = w,
         ~(svc'.pc \in {"take", "write"} /\ svc'.sock = w)
  PROVE  AwakeAt(w)'
  BY DEF AwakeAt

LEMMA PeersAwake ==
  ASSUME Types, Links, Awake, NEW w \in Sockets,
         \/ RefuseRequest(w) \/ Body(w) \/ RefuseUpgrade(w)
         \/ ReceiveText(w) \/ ReceiveOther(w) \/ Close(w)
  PROVE  Awake'
<1>1. /\ svc.pc = "idle" /\ svc.sock = NoSocket
      /\ UNCHANGED <<conns, writable, sender>>
      /\ \A x \in Sockets : sock'[x] = "ws" => sock[x] = "ws"
      /\ UNCHANGED svc \/ ServiceAt("detach", w, 0, 0)
  BY DEF RefuseRequest, Body, RefuseUpgrade, ReceiveText, ReceiveOther, Close,
         table, lws, Ready, Idle, Awake, Types
<1>2. svc' = svc \/ (svc'.pc = "detach" /\ svc'.sock = w)
  BY <1>1 DEF ServiceAt
<1>3. NoSocket \notin Sockets
  BY TransportAssumption
<1>4. \/ UNCHANGED <<conn, pending, woken>>
      \/ /\ pending' = pending \cup {w} /\ woken' = TRUE
         /\ \A m \in Conns : m # conns[w] => conn'[m] = conn[m]
      \/ /\ UNCHANGED <<pending, woken>> /\ conns[w] \in Conns
         /\ \A m \in Conns : m # conns[w] => conn'[m] = conn[m]
         /\ Stuck(conn'[conns[w]]) <=> Stuck(conn[conns[w]])
      \/ UNCHANGED <<pending, woken>> /\ conns[w] \notin Conns /\ \A m \in Conns : conn'[m] = conn[m]
  <2>1. CASE ReceiveOther(w)
    BY <2>1 DEF ReceiveOther, Types
  <2>2. CASE RefuseRequest(w) \/ RefuseUpgrade(w) \/ Close(w)
    BY <2>2 DEF RefuseRequest, RefuseUpgrade, Close, wake
  <2>3. CASE Body(w) \/ ReceiveText(w)
    <3> DEFINE n == conns[w]
    <3>1. PICK c : /\ n \in Conns => c \in ConnType /\ (Stuck(c) <=> Stuck(conn[n]))
                   /\ OnBody(w, n, c) \/ UNCHANGED <<conn, pending, woken>>
      BY <2>3, ZenonT(60) DEF Body, ReceiveText, Types, ConnType, Stuck, wake
    <3>2. n \in Conns => (Stuck([c EXCEPT !.asked = TRUE]) <=> Stuck(c))
      BY <3>1 DEF Stuck, ConnType
    <3> HIDE DEF n
    <3>3. CASE OnBody(w, n, c)
      <4>1. /\ \A m \in Conns : m # n => conn'[m] = conn[m]
            /\ n \in Conns => \/ conn'[n] = [c EXCEPT !.asked = TRUE] /\ UNCHANGED <<pending, woken>>
                              \/ pending' = pending \cup {w} /\ woken' = TRUE
        <5>1. n \in Conns => c \in ConnType
          BY <3>1
        <5>2. /\ \A m \in Conns : m # n => conn'[m] = conn[m]
              /\ n \in Conns => \/ conn'[n] = [c EXCEPT !.asked = TRUE] /\ UNCHANGED wake
                                \/ conn'[n] = Enqueue(c) /\ pending' = pending \cup {w} /\ woken' = TRUE
          BY <3>3, <5>1, OnBodyTypes
        <5> QED
          BY <5>2 DEF wake
      <4>2. \/ pending' = pending \cup {w} /\ woken' = TRUE
            \/ UNCHANGED <<pending, woken>>
        BY <3>3 DEF OnBody, wake
      <4> QED
        BY <3>1, <3>2, <4>1, <4>2 DEF n
    <3> QED
      BY <3>1, <3>3
  <2> QED
    BY <2>1, <2>2, <2>3
<1>5. ASSUME NEW x \in Sockets
      PROVE  AwakeAt(x)'
  <2>1. AwakeAt(x) /\ (conns[x] # 0 => conns[x] \in Conns)
    BY TransportAssumption DEF Awake, Types, Conns
  <2>2. Signalled(x) => Signalled(x)'
    BY <1>1, <1>4, SignalledKept
  <2>3. x # w /\ conns[x] # 0 => conns[x] # conns[w]
    BY DEF Links, Apart
  <2>4. CASE x # w \/ UNCHANGED conn
    BY <1>1, <1>2, <1>3, <1>4, <2>1, <2>2, <2>3, <2>4, AwakeCarried
  <2>5. CASE x = w /\ pending' = pending \cup {w} /\ woken' = TRUE
    BY <1>1, <1>2, <2>5 DEF AwakeAt, Signalled
  <2>6. CASE x = w /\ conns[w] \in Conns /\ (Stuck(conn'[conns[w]]) <=> Stuck(conn[conns[w]]))
    BY <1>1, <1>2, <1>3, <2>1, <2>2, <2>6 DEF AwakeAt
  <2>7. CASE x = w /\ conns[w] \notin Conns
    BY <1>1, <1>2, <2>1, <2>7 DEF AwakeAt
  <2> QED
    BY <1>4, <2>4, <2>5, <2>6, <2>7
<1>6. svc'.pc = "idle" => svc'.sock = NoSocket
  BY <1>1, <1>2
<1> QED
  BY <1>5, <1>6 DEF Awake

LEMMA AttachesAwake ==
  ASSUME Types, Links, Awake, Attaches
  PROVE  Awake'
<1>1. PICK w \in Sockets, c \in ConnType :
        /\ Attach(w, c) /\ svc.pc = "idle"
        /\ sock' = [sock EXCEPT ![w] = IF c.ws THEN "ws" ELSE "http"]
        /\ c.ws => c = NewConn(TRUE)
        /\ writable \subseteq writable'
        /\ UNCHANGED <<pending, woken, svc, sender>>
  BY AttachesDoes
<1>2. /\ conns' = [conns EXCEPT ![w] = made + 1] /\ conn'[made + 1] = c
      /\ \A n \in Conns : n # made + 1 /\ n # conns[w] => conn'[n] = conn[n]
  BY <1>1, AttachTypes DEF Attach
<1>3. ASSUME NEW x \in Sockets
      PROVE  AwakeAt(x)'
  <2>1. /\ AwakeAt(x) /\ conns[x] \in Nat /\ conns[x] # made + 1
        /\ conns[x] # 0 => conns[x] \in Conns
    BY TransportAssumption DEF Awake, Types, Conns
  <2>2. Signalled(x) => Signalled(x)'
    BY <1>1, SignalledKept
  <2>3. CASE x = w
    <3>1. conns'[x] = made + 1 /\ sock'[x] = IF c.ws THEN "ws" ELSE "http"
      BY <1>1, <1>2, <2>3 DEF Types
    <3>2. c.ws => ~Stuck(c)
      BY <1>1 DEF Stuck, NewConn
    <3> QED
      BY <1>1, <1>2, <3>1, <3>2 DEF AwakeAt
  <2>4. CASE x # w
    <3>1. conns'[x] = conns[x] /\ sock'[x] = sock[x]
      BY <1>1, <1>2, <2>4 DEF Types
    <3>2. conns[x] # 0 => conn'[conns[x]] = conn[conns[x]]
      BY <1>2, <2>1, <2>4 DEF Links, Apart
    <3> QED
      BY <1>1, <2>1, <2>2, <3>1, <3>2, AwakeCarried
  <2> QED
    BY <2>3, <2>4
<1> QED
  BY <1>1, <1>3 DEF Awake

LEMMA WaitCancelledAwake ==
  ASSUME Types, Links, Awake, WaitCancelled
  PROVE  Awake'
<1>1. /\ svc.pc = "idle" /\ svc.sock = NoSocket /\ UNCHANGED <<conns, conn, sock, svc, sender>>
      /\ writable' = writable \cup {w \in pending : sock[w] # "closed"}
  BY DEF WaitCancelled, table, Idle, Awake
<1>2. ASSUME NEW x \in Sockets
      PROVE  AwakeAt(x)'
  <2>1. AwakeAt(x)
    BY DEF Awake
  <2>2. sock[x] = "ws" /\ Signalled(x) => Signalled(x)'
    BY <1>1 DEF Signalled
  <2> QED
    BY <1>1, <2>1, <2>2 DEF AwakeAt
<1> QED
  BY <1>1, <1>2 DEF Awake

LEMMA WriteableAwake ==
  ASSUME Types, Links, Awake, NEW w \in Sockets, Writeable(w)
  PROVE  Awake'
<1>1. /\ svc.pc = "idle" /\ svc.sock = NoSocket /\ NoSocket \notin Sockets
      /\ UNCHANGED <<conns, sock, pending, woken, sender>>
      /\ writable \ {w} \subseteq writable'
  BY TransportAssumption DEF Writeable, HttpWriteable, HttpSlice, ServerWriteable, table, wake, Idle, Awake
<1>2. CASE HttpWriteable(w)
  <2>1. /\ sock[w] = "http"
        /\ \A m \in Conns : conn[m].ws => conn'[m] = conn[m]
        /\ svc' = svc \/ (svc'.pc = "detach" /\ svc'.sock = w)
    <3>1. sock[w] = "http"
      BY <1>2 DEF HttpWriteable
    <3>2. /\ \A m \in Conns : conn[m].ws => conn'[m] = conn[m]
          /\ UNCHANGED svc \/ ServiceAt("detach", w, 0, 0)
      BY <1>2, HttpWriteableDoes
    <3> QED
      BY <3>1, <3>2 DEF ServiceAt
  <2>2. ASSUME NEW x \in Sockets
        PROVE  AwakeAt(x)'
    <3>1. AwakeAt(x) /\ (conns[x] # 0 => conns[x] \in Conns)
      BY TransportAssumption DEF Awake, Types, Conns
    <3>2. CASE x = w
      BY <1>1, <2>1, <3>2 DEF AwakeAt
    <3>3. CASE x # w
      <4>1. Signalled(x) => Signalled(x)'
        BY <1>1, <3>3, SignalledKept
      <4>2. sock[x] = "ws" /\ conns[x] # 0 => conn'[conns[x]] = conn[conns[x]]
        BY <2>1, <3>1 DEF Links, KindsMatch
      <4> QED
        BY <1>1, <2>1, <3>1, <3>3, <4>1, <4>2, AwakeCarried
    <3> QED
      BY <3>2, <3>3
  <2> QED
    BY <1>1, <2>1, <2>2 DEF Awake
<1>3. CASE ServerWriteable(w)
  <2>1. /\ conn' = conn /\ svc'.sock = w
        /\ IF conn[conns[w]].wantClose THEN svc'.pc = "detach" ELSE svc'.pc = "take"
    BY <1>3 DEF ServerWriteable, ServiceAt
  <2>2. ASSUME NEW x \in Sockets
        PROVE  AwakeAt(x)'
    <3>1. AwakeAt(x)
      BY DEF Awake
    <3>2. CASE x = w
      BY <1>1, <2>1, <3>2 DEF AwakeAt
    <3>3. CASE x # w
      <4>1. Signalled(x) => Signalled(x)'
        BY <1>1, <3>3, SignalledKept
      <4> QED
        BY <1>1, <2>1, <3>1, <3>3, <4>1, AwakeCarried
    <3> QED
      BY <3>2, <3>3
  <2> QED
    BY <2>1, <2>2 DEF Awake
<1> QED
  BY <1>2, <1>3 DEF Writeable

(* A write that leaves something to do asks for the callback again.        *)
LEMMA WriteAwake ==
  ASSUME Types, Links, Awake, WriteTake \/ WriteDone
  PROVE  Awake'
<1> DEFINE w == svc.sock
           n == svc.conn
<1>1. /\ svc.pc \in {"take", "write"} /\ w \in Sockets /\ n \in Conns /\ conns[w] = n
      /\ w # NoSocket
      /\ UNCHANGED <<conns, sock, pending, woken, sender>> /\ writable \subseteq writable'
  BY TransportAssumption
     DEF WriteTake, WriteDone, Rearm, table, lws, wake, Links, ServicePlace, Types, Conns
<1>2. /\ \A m \in Conns : m # n => conn'[m] = conn[m]
      /\ svc'.sock = w \/ (svc'.pc = "idle" /\ svc'.sock = NoSocket)
      /\ svc'.pc = "idle" => svc'.sock = NoSocket
      /\ conn'[n].wantClose = conn[n].wantClose
      /\ svc'.sock = w \/ ~Stuck(conn'[n]) \/ conn'[n].wantClose \/ w \in writable'
  <2>1. CASE WriteTake
    <3>1. /\ \A m \in Conns : m # n => conn'[m] = conn[m]
          /\ conn[n] \in ConnType
          /\ \/ svc'.sock = w /\ svc'.pc = "write"
             \/ /\ conn[n].partial = <<>> /\ conn[n].outbound = <<>> /\ conn'[n] = conn[n]
                /\ svc'.pc = "idle" /\ svc'.sock = NoSocket
          /\ conn'[n] = conn[n] \/ (conn[n].outbound # <<>> /\ conn'[n] = Dequeued(conn[n]))
      BY <2>1, WriteTakeDoes DEF ServiceAt, ServiceReturns
    <3>2. conn'[n].wantClose = conn[n].wantClose
      BY <3>1, DequeuedKeeps
    <3> QED
      BY <1>1, <3>1, <3>2 DEF Stuck
  <2>2. CASE WriteDone
    <3>1. /\ \A m \in Conns : m # n => conn'[m] = conn[m]
          /\ conn'[n].wantClose = conn[n].wantClose
          /\ \/ writable' = Rearm(w, conn'[n]) /\ svc'.pc = "idle" /\ svc'.sock = NoSocket
             \/ svc'.pc = "detach" /\ svc'.sock = w
      BY <2>2, WriteDoneDoes DEF ServiceAt, ServiceReturns
    <3> QED
      BY <1>1, <3>1 DEF Rearm, Stuck
  <2> QED
    BY <2>1, <2>2
<1>3. ASSUME NEW x \in Sockets
      PROVE  AwakeAt(x)'
  <2>1. AwakeAt(x) /\ (conns[x] # 0 => conns[x] \in Conns)
    BY TransportAssumption DEF Awake, Types, Conns
  <2>2. Signalled(x) => Signalled(x)'
    BY <1>1, SignalledKept
  <2>3. CASE x = w
    <3>1. conn[n].wantClose => Signalled(x)'
      BY <1>1, <2>1, <2>2, <2>3 DEF AwakeAt
    <3>2. x \in writable' => Signalled(x)'
      BY DEF Signalled
    <3> QED
      BY <1>1, <1>2, <2>3, <3>1, <3>2 DEF AwakeAt
  <2>4. CASE x # w
    <3>1. conns[x] # 0 => conn'[conns[x]] = conn[conns[x]]
      BY <1>1, <1>2, <2>1, <2>4 DEF Links, Apart
    <3>2. svc'.sock # x \/ svc'.pc = "idle"
      BY <1>2, <2>4
    <3> QED
      BY <1>1, <1>2, <2>1, <2>2, <2>4, <3>1, <3>2, AwakeCarried
  <2> QED
    BY <2>3, <2>4
<1> QED
  BY <1>2, <1>3 DEF Awake

(* What detach takes away belonged to a socket without a Conn. *)
LEMMA DetachAwake ==
  ASSUME Types, Links, Awake, DetachConn \/ DetachPending \/ Stop
  PROVE  Awake'
<1>1. CASE DetachConn \/ DetachPending
  <2> DEFINE w == svc.sock
  <2>1. /\ w \in Sockets /\ conns' = [conns EXCEPT ![w] = 0]
        /\ \A m \in Conns : m # conns[w] => conn'[m] = conn[m]
        /\ UNCHANGED <<woken, sender>> /\ pending \ {w} \subseteq pending'
    <3>1. CASE DetachConn
      BY <3>1, DetachConnDoes, ForgottenTypes DEF DetachConn, wake
    <3>2. CASE DetachPending
      <4>1. w \in Sockets /\ conns[w] = 0 /\ conns' = conns /\ conn' = conn
        BY <3>2 DEF DetachPending, table, Links, ServicePlace
      <4>2. conns' = [conns EXCEPT ![w] = 0]
        BY <4>1 DEF Types
      <4> QED
        BY <3>2, <4>1, <4>2 DEF DetachPending
    <3> QED
      BY <1>1, <3>1, <3>2
  <2>2. \/ UNCHANGED <<sock, writable>> /\ svc'.pc \in {"unpend", "detach"} /\ svc'.sock = w
        \/ /\ svc'.pc = "idle" /\ svc'.sock = NoSocket
           /\ \A x \in Sockets : x # w => sock'[x] = sock[x]
           /\ writable' = writable \ {w}
    <3>1. CASE DetachReturns
      <4>1. svc.pc \in {"detach", "unpend"}
        BY <1>1 DEF DetachConn, DetachPending
      <4>2. CASE svc.last
        BY <3>1, <4>1, <4>2, DetachReturnsDoes, ServiceReturnsType DEF DetachReturns
      <4>3. CASE ~svc.last
        BY <3>1, <4>1, <4>3, DetachReturnsDoes
      <4> QED
        BY <4>2, <4>3
    <3>2. CASE svc'.pc = "unpend" /\ svc'.sock = w /\ UNCHANGED <<sock, writable>>
      BY <3>2
    <3> QED
      BY <1>1, <3>1, <3>2, DetachConnDoes DEF DetachPending
  <2>3. ASSUME NEW x \in Sockets
        PROVE  AwakeAt(x)'
    <3>1. AwakeAt(x) /\ (conns[x] # 0 => conns[x] \in Conns)
      BY TransportAssumption DEF Awake, Types, Conns
    <3>2. CASE x = w
      <4>1. conns'[x] = 0
        BY <2>1, <3>2 DEF Types
      <4> QED
        BY <2>2, <4>1 DEF AwakeAt
    <3>3. CASE x # w
      <4>1. Signalled(x) => Signalled(x)'
        BY <2>1, <2>2, <3>3, SignalledKept
      <4>2. conns'[x] = conns[x] /\ sock'[x] = sock[x]
        BY <2>1, <2>2, <3>3 DEF Types
      <4>3. conns[x] # 0 => conn'[conns[x]] = conn[conns[x]]
        BY <2>1, <3>1, <3>3 DEF Links, Apart
      <4> QED
        BY <2>2, <3>1, <3>3, <4>1, <4>2, <4>3, AwakeCarried
    <3> QED
      BY <3>2, <3>3
  <2> QED
    BY <2>2, <2>3 DEF Awake
<1>2. CASE Stop
  <2>1. conns' = [x \in Sockets |-> 0] /\ svc.pc = "idle" /\ svc' = svc
    BY <1>2 DEF Stop, Idle
  <2> QED
    BY <2>1 DEF Awake, AwakeAt
<1> QED
  BY <1>1, <1>2

(* A sender signals after it has queued. *)
LEMMA SendersAwake ==
  ASSUME Types, Links, Awake, NEW t \in Senders,
         SendStep(t) \/ \E n \in Conns : SendLookup(t, n)
  PROVE  Awake'
<1>1. UNCHANGED <<conns, sock, svc, writable>>
  BY DEF SendStep, SendQueue, SendInsert, SendCancel, SendLookup, table, lws
<1>2. sender \in [Senders -> SenderType]
  BY DEF Types
<1>3. ASSUME NEW x \in Sockets, Signalled(x)
      PROVE  Signalled(x)'
  <2>1. CASE SendQueue(t) \/ \E n \in Conns : SendLookup(t, n)
    <3>1. /\ UNCHANGED <<pending, woken>> /\ sender[t].pc \in {"idle", "queue"}
          /\ \A u \in Senders : u # t => sender'[u] = sender[u]
      BY <1>2, <2>1 DEF SendQueue, SendLookup, SenderAt, wake
    <3>2. \A u \in Senders : sender[u].pc \in {"insert", "cancel"} => sender'[u] = sender[u]
      BY <3>1
    <3> QED
      BY <1>1, <1>3, <3>1, <3>2 DEF Signalled
  <2>2. CASE SendInsert(t)
    <3>1. /\ woken' = woken /\ pending' = pending \cup {sender[t].sock}
          /\ sender[t].pc = "insert" /\ sender'[t].pc = "cancel"
          /\ \A u \in Senders : u # t => sender'[u] = sender[u]
      BY <1>2, <2>2 DEF SendInsert, SenderAt
    <3> QED
      BY <1>1, <1>3, <3>1 DEF Signalled
  <2>3. CASE SendCancel(t)
    <3>1. /\ woken' = TRUE /\ pending' = pending /\ sender[t].pc = "cancel"
          /\ \A u \in Senders : u # t => sender'[u] = sender[u]
      BY <1>2, <2>3 DEF SendCancel, SenderAt
    <3> QED
      BY <1>1, <1>3, <3>1 DEF Signalled
  <2> QED
    BY <2>1, <2>2, <2>3 DEF SendStep
<1>4. ASSUME NEW x \in Sockets
      PROVE  AwakeAt(x)'
  <2>1. AwakeAt(x) /\ (conns[x] # 0 => conns[x] \in Conns)
    BY TransportAssumption DEF Awake, Types, Conns
  <2>2. CASE conns[x] # 0 => conn'[conns[x]] = conn[conns[x]]
    <3>1. CASE svc.pc \in {"take", "write"} /\ svc.sock = x
      <4>1. conns[x] # 0
        BY <3>1 DEF Links, ServicePlace
      <4> QED
        BY <1>1, <1>3, <2>1, <2>2, <4>1 DEF AwakeAt
    <3>2. CASE ~(svc.pc \in {"take", "write"} /\ svc.sock = x)
      BY <1>1, <1>3, <2>1, <2>2, <3>2, AwakeCarried
    <3> QED
      BY <3>1, <3>2
  <2>3. CASE conns[x] # 0 /\ conn'[conns[x]] # conn[conns[x]]
    <3>1. SendQueue(t)
      BY <2>3 DEF SendStep, SendInsert, SendCancel, SendLookup
    <3>2. conns[x] = sender[t].conn
      BY <2>1, <2>3, <3>1, SendQueueDoes
    <3>3. sender[t].sock = x
      BY <3>1, <3>2 DEF SendQueue, Links, SenderPlace
    <3>4. sender'[t].pc = "insert" /\ sender'[t].sock = x
      BY <1>2, <3>1, <3>3 DEF SendQueue, SenderAt
    <3> QED
      BY <3>4 DEF AwakeAt, Signalled
  <2> QED
    BY <2>2, <2>3
<1> QED
  BY <1>1, <1>4 DEF Awake

LEMMA StepAwake ==
  ASSUME Shape, Awake, [Next]_vars
  PROVE  Awake'
<1>1. Types /\ Links
  BY DEF Shape
<1>2. CASE UNCHANGED vars
  BY <1>2 DEF vars, table, lws, wake, Awake, AwakeAt, Signalled
<1>3. CASE Peers
  BY <1>1, <1>3, PeersAwake, AttachesAwake DEF Peers, Attaches
<1>4. CASE Callback
  BY <1>1, <1>4, WriteAwake, DetachAwake DEF Callback
<1>5. CASE WaitCancelled \/ Stop
  BY <1>1, <1>5, WaitCancelledAwake, DetachAwake
<1>6. CASE \E w \in Sockets : Writeable(w)
  BY <1>1, <1>6, WriteableAwake
<1>7. CASE \E t \in Senders : SendStep(t) \/ \E n \in Conns : SendLookup(t, n)
  BY <1>1, <1>7, SendersAwake
<1> QED
  BY <1>2, <1>3, <1>4, <1>5, <1>6, <1>7 DEF Next, Rest

(* Over send, onWritable and the wake-up (src/ws_server.cpp): the queue is *)
(* under the Conn's lock, m_pending under the server's, and between the    *)
(* two the service thread may take any step; still no frame and no close   *)
(* that was asked for is left without a callback to come.                  *)
THEOREM WakeupsArrive == Spec => []NoLostWakeup
<1>1. Init => Awake
  BY DEF Init, Awake, AwakeAt
<1>2. Shape /\ Awake /\ [Next]_vars => Awake'
  BY StepAwake
<1> QED
  BY <1>1, <1>2, AwakeSuffices, ShapeHolds, PTL DEF Spec

----------------------------------------------------------------------------
(* Frames in order *)

(* What a WebSocket Conn c has sent, while the service thread does pc with *)
(* frame f of it: what went out, then the frame in hand, then the queue,   *)
(* count from 1 without a gap, until a close is asked for or under way.    *)
(* A frame that is dropped asks for a close, and at most the head of the   *)
(* queue, which came before it, is still taken.                            *)
Base(c, pc) == Len(c.written) + (IF c.partial # <<>> \/ pc = "write" THEN 1 ELSE 0)

QueueFollows(c, pc) ==
  /\ c.sent = Base(c, pc) + Len(c.outbound)
  /\ \A k \in 1..Len(c.outbound) : c.outbound[k] = Base(c, pc) + k

Ordered(c, pc, f) ==
  /\ \A k \in 1..Len(c.written) : c.written[k] = k
  /\ c.partial # <<>> => c.partial[1] = Len(c.written) + 1
  /\ pc = "write" => f = Len(c.written) + 1
  /\ pc # "detach" /\ ~c.wantClose => QueueFollows(c, pc)
  /\ pc = "take" /\ c.partial = <<>> =>
       IF c.outbound # <<>> THEN c.outbound[1] = Len(c.written) + 1 ELSE c.wantClose => MaxQueue = 0
  /\ MaxQueue = 0 => c.outbound = <<>>

LEMMA LenTypes ==
  ASSUME NEW c \in ConnType
  PROVE  /\ Len(c.written) \in Nat /\ Len(c.outbound) \in Nat /\ c.sent \in Nat
         /\ c.outbound \in Seq(Nat) /\ c.written \in Seq(Nat)
         /\ c.outbound = <<>> <=> Len(c.outbound) = 0
         /\ \A pc : Base(c, pc) \in Nat
  BY DEF ConnType, Base

LEMMA OrderedNew ==
  ASSUME NEW b \in BOOLEAN, NEW f
  PROVE  Ordered(NewConn(b), "idle", f)
  BY DEF Ordered, QueueFollows, Base, NewConn

(* The frame in hand matters while it is written only, the queue until the *)
(* socket is detached.                                                     *)
LEMMA OrderedMoves ==
  ASSUME NEW c \in ConnType, NEW pc, NEW f, NEW g, Ordered(c, pc, f)
  PROVE  /\ Ordered(c, "detach", g)
         /\ pc # "write" => Ordered(c, pc, g)
         /\ pc = "idle" /\ ~c.wantClose => Ordered(c, "take", g)
<1>1. Ordered(c, "detach", g)
  BY DEF Ordered
<1>2. pc # "write" => Ordered(c, pc, g)
  BY DEF Ordered
<1>3. ASSUME pc = "idle", ~c.wantClose
      PROVE  Ordered(c, "take", g)
  <2>1. Base(c, "take") = Base(c, "idle")
    BY DEF Base
  <2>2. QueueFollows(c, "take")
    BY <1>3, <2>1 DEF Ordered, QueueFollows
  <2>3. c.partial = <<>> /\ c.outbound # <<>> => c.outbound[1] = Len(c.written) + 1
    BY <2>2, LenTypes DEF QueueFollows, Base
  <2> QED
    BY <1>3, <2>2, <2>3 DEF Ordered
<1> QED
  BY <1>1, <1>2, <1>3

(* Fields the order does not depend on. *)
LEMMA OrderedSame ==
  ASSUME NEW c \in ConnType, NEW d \in ConnType, NEW pc, NEW f, Ordered(c, pc, f),
         d.written = c.written, d.partial = c.partial, d.outbound = c.outbound, d.sent = c.sent,
         d.wantClose = c.wantClose \/ (d.wantClose /\ pc # "take")
  PROVE  Ordered(d, pc, f)
<1>1. Base(d, pc) = Base(c, pc)
  BY DEF Base
<1>2. QueueFollows(c, pc) => QueueFollows(d, pc)
  BY <1>1 DEF QueueFollows
<1>3. /\ c.wantClose => d.wantClose
      /\ pc = "take" => d.wantClose = c.wantClose
  OBVIOUS
<1> QED
  BY <1>2, <1>3 DEF Ordered

LEMMA OrderedEnqueue ==
  ASSUME NEW c \in ConnType, NEW pc, NEW f, Ordered(c, pc, f)
  PROVE  Ordered(Enqueue(c), pc, f)
<1> DEFINE d == Enqueue(c)
<1> SUFFICES Ordered(d, pc, f)
  OBVIOUS
<1>1. /\ d \in ConnType /\ d.partial = c.partial /\ d.written = c.written /\ d.sent = c.sent + 1
      /\ \/ d.outbound = c.outbound /\ d.wantClose /\ Len(c.outbound) >= MaxQueue
         \/ /\ d.outbound = Append(c.outbound, c.sent + 1)
            /\ d.wantClose = c.wantClose /\ Len(c.outbound) < MaxQueue
  BY EnqueueKeeps
<1>2. MaxQueue \in Nat
  BY TransportAssumption
<1> HIDE DEF d
<1>3. CASE d.outbound = c.outbound /\ d.wantClose /\ Len(c.outbound) >= MaxQueue
  BY <1>1, <1>2, <1>3, LenTypes DEF Ordered
<1>4. CASE /\ d.outbound = Append(c.outbound, c.sent + 1)
           /\ d.wantClose = c.wantClose /\ Len(c.outbound) < MaxQueue
  <2>1. /\ Len(d.outbound) = Len(c.outbound) + 1
        /\ \A k \in 1..Len(c.outbound) : d.outbound[k] = c.outbound[k]
        /\ d.outbound[Len(c.outbound) + 1] = c.sent + 1 /\ d.outbound # <<>>
    BY <1>4, LenTypes, SMTT(30)
  <2>2. Base(d, pc) = Base(c, pc) /\ Base(c, pc) \in Nat
    BY <1>1, LenTypes DEF Base
  <2>3. QueueFollows(c, pc) => QueueFollows(d, pc)
    <3> SUFFICES ASSUME QueueFollows(c, pc)
                 PROVE  QueueFollows(d, pc)
      OBVIOUS
    <3>1. d.sent = Base(d, pc) + Len(d.outbound)
      BY <1>1, <2>1, <2>2, LenTypes DEF QueueFollows
    <3>2. ASSUME NEW k \in 1..Len(d.outbound)
          PROVE  d.outbound[k] = Base(d, pc) + k
      <4>1. CASE k = Len(c.outbound) + 1
        BY <2>1, <2>2, <4>1, LenTypes DEF QueueFollows
      <4>2. CASE k \in 1..Len(c.outbound)
        BY <2>1, <2>2, <4>2 DEF QueueFollows
      <4> QED
        BY <2>1, <4>1, <4>2, LenTypes
    <3> QED
      BY <3>1, <3>2 DEF QueueFollows
  <2>4. ASSUME pc = "take", c.partial = <<>>
        PROVE  d.outbound[1] = Len(c.written) + 1
    <3>1. CASE c.outbound # <<>>
      BY <2>1, <2>4, <3>1, LenTypes, SMTT(30) DEF Ordered
    <3>2. CASE c.outbound = <<>>
      <4>1. ~c.wantClose
        BY <1>2, <1>4, <2>4, <3>2, LenTypes DEF Ordered
      <4>2. c.sent = Len(c.written)
        BY <2>4, <3>2, <4>1, LenTypes DEF Ordered, QueueFollows, Base
      <4>3. Len(c.outbound) = 0
        BY <3>2, LenTypes
      <4> QED
        BY <2>1, <4>2, <4>3
    <3> QED
      BY <3>1, <3>2
  <2>5. MaxQueue # 0
    BY <1>2, <1>4, LenTypes
  <2> QED
    BY <1>1, <1>4, <2>1, <2>3, <2>4, <2>5 DEF Ordered
<1> QED
  BY <1>1, <1>3, <1>4

(* What is left of a frame, or the head of the queue, comes next. *)
LEMMA OrderedTake ==
  ASSUME NEW c \in ConnType, NEW f, Ordered(c, "take", f)
  PROVE  /\ c.partial # <<>> => Ordered(c, "write", c.partial[1])
         /\ c.partial = <<>> /\ c.outbound # <<>> =>
              Ordered(Dequeued(c), "write", Head(c.outbound))
         /\ \A g : c.partial = <<>> /\ c.outbound = <<>> => Ordered(c, "idle", g)
<1>1. ASSUME c.partial # <<>> PROVE Ordered(c, "write", c.partial[1])
  BY <1>1 DEF Ordered, QueueFollows, Base
<1>2. ASSUME c.partial = <<>>, c.outbound # <<>>
      PROVE  Ordered(Dequeued(c), "write", Head(c.outbound))
  <2> DEFINE d == Dequeued(c)
  <2>1. /\ d \in ConnType /\ d.written = c.written /\ d.sent = c.sent /\ d.partial = c.partial
        /\ d.wantClose = c.wantClose /\ d.outbound = Tail(c.outbound)
    BY <1>2, DequeuedKeeps
  <2> HIDE DEF d
  <2>2. /\ Len(d.outbound) = Len(c.outbound) - 1 /\ Head(c.outbound) = c.outbound[1]
        /\ \A k \in 1..Len(d.outbound) : d.outbound[k] = c.outbound[k + 1]
    BY <1>2, <2>1, LenTypes
  <2>3. Base(d, "write") = Base(c, "take") + 1 /\ Base(c, "take") \in Nat
    BY <1>2, <2>1, LenTypes DEF Base
  <2>4. QueueFollows(c, "take") => QueueFollows(d, "write")
    <3> SUFFICES ASSUME QueueFollows(c, "take")
                 PROVE  QueueFollows(d, "write")
      OBVIOUS
    <3>1. d.sent = Base(d, "write") + Len(d.outbound)
      BY <2>1, <2>2, <2>3, LenTypes DEF QueueFollows
    <3>2. ASSUME NEW k \in 1..Len(d.outbound)
          PROVE  d.outbound[k] = Base(d, "write") + k
      <4>1. k \in Nat /\ k + 1 \in 1..Len(c.outbound)
        BY <2>2, LenTypes
      <4>2. c.outbound[k + 1] = Base(c, "take") + (k + 1)
        BY <4>1 DEF QueueFollows
      <4> QED
        BY <2>2, <2>3, <4>1, <4>2
    <3> QED
      BY <3>1, <3>2 DEF QueueFollows
  <2>5. Head(c.outbound) = Len(c.written) + 1
    BY <1>2, <2>2 DEF Ordered
  <2>6. Ordered(d, "write", Head(c.outbound))
    BY <1>2, <2>1, <2>4, <2>5 DEF Ordered
  <2> QED
    BY <2>6 DEF d
<1>3. ASSUME c.partial = <<>>, c.outbound = <<>>, NEW g PROVE Ordered(c, "idle", g)
  BY <1>3 DEF Ordered, QueueFollows, Base
<1> QED
  BY <1>1, <1>2, <1>3

(* A frame that went out whole is the next one written. *)
LEMMA OrderedDone ==
  ASSUME NEW c \in ConnType, NEW d \in ConnType, NEW f \in Nat, NEW g, Ordered(c, "write", f),
         d.outbound = c.outbound, d.wantClose = c.wantClose, d.sent = c.sent,
         \/ c.partial = <<>> /\ d.partial = <<f>> /\ d.written = c.written
         \/ d.partial = <<>> /\ d.written = Append(c.written, f)
  PROVE  Ordered(d, "idle", g)
<1>1. f = Len(c.written) + 1
  BY DEF Ordered
<1>2. Base(d, "idle") = Base(c, "write")
  <2>1. CASE c.partial = <<>> /\ d.partial = <<f>> /\ d.written = c.written
    <3>1. d.partial # <<>>
      BY <2>1
    <3> QED
      BY <2>1, <3>1 DEF Base
  <2>2. CASE d.partial = <<>> /\ d.written = Append(c.written, f)
    <3>1. Len(d.written) = Len(c.written) + 1 /\ Len(d.written) \in Nat
      BY <2>2, LenTypes
    <3> QED
      BY <2>2, <3>1 DEF Base
  <2> QED
    BY <2>1, <2>2
<1>3. \A k \in 1..Len(d.written) : d.written[k] = k
  <2>1. CASE d.written = c.written
    BY <2>1 DEF Ordered
  <2>2. CASE d.written = Append(c.written, f)
    <3>1. /\ Len(d.written) = Len(c.written) + 1 /\ d.written[Len(c.written) + 1] = f
          /\ \A k \in 1..Len(c.written) : d.written[k] = c.written[k]
      BY <2>2, LenTypes
    <3>2. Len(c.written) \in Nat /\ \A k \in 1..Len(c.written) : c.written[k] = k
      BY LenTypes DEF Ordered
    <3> QED
      BY <1>1, <3>1, <3>2
  <2> QED
    BY <2>1, <2>2
<1>4. d.partial # <<>> => d.partial[1] = Len(d.written) + 1
  BY <1>1
<1> QED
  BY <1>2, <1>3, <1>4 DEF Ordered, QueueFollows

(* What the service thread does with Conn n. *)
Doing(n) ==
  IF svc.pc \in {"take", "write"} /\ svc.conn = n THEN svc.pc
  ELSE IF svc.pc = "detach" /\ conns[svc.sock] = n THEN "detach" ELSE "idle"

InOrder == \A n \in Conns : conn[n].ws => Ordered(conn[n], Doing(n), svc.frame)

LEMMA InOrderSuffices ==
  ASSUME Types, InOrder
  PROVE  NoGap
<1>1. \A n \in Conns : conn[n].written \in Seq(Nat)
  BY DEF Types, ConnType
<1>2. \A n \in Conns : DOMAIN conn[n].written = 1..Len(conn[n].written)
  BY <1>1
<1> QED
  BY <1>2 DEF InOrder, Ordered, NoGap

(* A Conn that the step leaves alone, but for the start of a detach. *)
LEMMA OrderKept ==
  ASSUME Types, InOrder, NEW n \in Conns, conn'[n] = conn[n],
         \/ svc' = svc /\ Doing(n)' = Doing(n)
         \/ Doing(n) = "idle" /\ Doing(n)' \in {"idle", "detach"},
         conn'[n].ws
  PROVE  Ordered(conn'[n], Doing(n)', svc'.frame)
<1>1. Ordered(conn[n], Doing(n), svc.frame) /\ conn[n] \in ConnType
  BY DEF InOrder, Types
<1>2. CASE svc' = svc /\ Doing(n)' = Doing(n)
  BY <1>1, <1>2
<1>3. CASE Doing(n) = "idle" /\ Doing(n)' \in {"idle", "detach"}
  BY <1>1, <1>3, OrderedMoves
<1> QED
  BY <1>2, <1>3

LEMMA PeersInOrder ==
  ASSUME Types, Links, InOrder, NEW w \in Sockets,
         \/ RefuseRequest(w) \/ Body(w) \/ RefuseUpgrade(w)
         \/ ReceiveText(w) \/ ReceiveOther(w) \/ Close(w)
  PROVE  InOrder'
<1> DEFINE k == conns[w]
<1>1. /\ svc.pc = "idle" /\ UNCHANGED conns
      /\ UNCHANGED svc \/ (ServiceAt("detach", w, 0, 0) /\ UNCHANGED conn) \/ RefuseRequest(w)
  BY DEF RefuseRequest, Body, RefuseUpgrade, ReceiveText, ReceiveOther, Close, table, Ready, Idle
<1>2. /\ \A n \in Conns : Doing(n) = "idle" /\ Doing(n)' \in {"idle", "detach"}
      /\ UNCHANGED svc => \A n \in Conns : Doing(n)' = "idle"
      /\ UNCHANGED <<svc, conns>> \/ UNCHANGED conn
  <2>1. UNCHANGED svc \/ svc'.pc = "detach"
    BY <1>1 DEF RefuseRequest, ServiceAt
  <2>2. UNCHANGED svc \/ UNCHANGED conn
    BY <1>1 DEF RefuseRequest
  <2> QED
    BY <1>1, <2>1, <2>2 DEF Doing
<1>3. CASE UNCHANGED conn
  BY <1>2, <1>3, OrderKept DEF InOrder
<1>4. CASE UNCHANGED svc /\ ReceiveOther(w)
  <2>1. conn' = [conn EXCEPT ![k].wantClose = TRUE]
    BY <1>4 DEF ReceiveOther
  <2>2. ASSUME NEW n \in Conns, conn'[n].ws
        PROVE  Ordered(conn'[n], Doing(n)', svc'.frame)
    <3>1. conn[n] \in ConnType /\ Doing(n) = "idle" /\ Doing(n)' = "idle" /\ svc' = svc
      BY <1>2, <1>4 DEF Types
    <3>2. CASE n = k
      <4>1. /\ conn'[n] \in ConnType /\ conn'[n].ws = conn[n].ws
            /\ conn'[n].written = conn[n].written /\ conn'[n].partial = conn[n].partial
            /\ conn'[n].outbound = conn[n].outbound /\ conn'[n].sent = conn[n].sent
            /\ conn'[n].wantClose
        BY <2>1, <3>1, <3>2 DEF Types, ConnType
      <4>2. Ordered(conn[n], "idle", svc.frame)
        BY <2>2, <3>1, <4>1 DEF InOrder
      <4> QED
        BY <3>1, <4>1, <4>2, OrderedSame
    <3>3. CASE n # k
      BY <1>2, <1>4, <2>1, <2>2, <3>3, OrderKept DEF Types
    <3> QED
      BY <3>2, <3>3
  <2> QED
    BY <2>2 DEF InOrder
<1>5. CASE UNCHANGED svc /\ (Body(w) \/ ReceiveText(w)) /\ ~UNCHANGED conn
  <2>1. PICK c : /\ OnBody(w, k, c)
                 /\ k \in Conns => /\ c \in ConnType
                                   /\ c.ws = conn[k].ws /\ c.written = conn[k].written
                                   /\ c.partial = conn[k].partial /\ c.outbound = conn[k].outbound
                                   /\ c.sent = conn[k].sent /\ c.wantClose = conn[k].wantClose
    <3>1. CASE ReceiveText(w)
      <4>1. OnBody(w, k, conn[k]) /\ (k \in Conns => conn[k] \in ConnType)
        BY <3>1 DEF ReceiveText, Types
      <4> QED
        BY <4>1, Zenon
    <3>2. CASE Body(w)
      <4> DEFINE b == [conn[k] EXCEPT !.body = FALSE]
      <4>1. OnBody(w, k, b)
        BY <1>5, <3>2, Zenon DEF Body
      <4>2. k \in Conns => /\ b \in ConnType
                            /\ b.ws = conn[k].ws /\ b.written = conn[k].written
                            /\ b.partial = conn[k].partial /\ b.outbound = conn[k].outbound
                            /\ b.sent = conn[k].sent /\ b.wantClose = conn[k].wantClose
        BY ZenonT(60) DEF Types, ConnType
      <4> HIDE DEF b
      <4> QED
        BY <4>1, <4>2, Zenon
    <3> QED
      BY <1>5, <3>1, <3>2
  <2>2. k \in Conns => c \in ConnType
    BY <2>1
  <2>3. /\ \A m \in Conns : m # k => conn'[m] = conn[m]
        /\ k \in Conns => conn'[k] = [c EXCEPT !.asked = TRUE] \/ conn'[k] = Enqueue(c)
    <3> HIDE DEF k
    <3>1. OnBody(w, k, c)
      BY <2>1
    <3> QED
      BY <2>2, <3>1, OnBodyTypes
  <2>4. ASSUME NEW n \in Conns, conn'[n].ws
        PROVE  Ordered(conn'[n], Doing(n)', svc'.frame)
    <3>1. conn[n] \in ConnType /\ Doing(n) = "idle" /\ Doing(n)' = "idle" /\ svc' = svc
      BY <1>2, <1>5 DEF Types
    <3>2. CASE n = k
      <4> DEFINE d == [c EXCEPT !.asked = TRUE]
      <4>1. /\ d \in ConnType /\ d.ws = c.ws /\ d.written = c.written /\ d.partial = c.partial
            /\ d.outbound = c.outbound /\ d.sent = c.sent /\ d.wantClose = c.wantClose
            /\ Enqueue(c).ws = c.ws
        BY <2>1, <3>2, EnqueueKeeps DEF ConnType
      <4> HIDE DEF d
      <4>2. conn'[n] = d \/ conn'[n] = Enqueue(c)
        BY <2>3, <3>2 DEF d
      <4>3. conn[n].ws
        BY <2>1, <2>4, <3>2, <4>1, <4>2
      <4>4. Ordered(conn[n], "idle", svc.frame)
        BY <3>1, <4>3 DEF InOrder
      <4>5. Ordered(c, "idle", svc.frame)
        BY <2>1, <3>1, <3>2, <4>4, OrderedSame
      <4>6. Ordered(d, "idle", svc.frame) /\ Ordered(Enqueue(c), "idle", svc.frame)
        BY <2>2, <3>2, <4>1, <4>5, OrderedSame, OrderedEnqueue
      <4> QED
        BY <3>1, <4>2, <4>6
    <3>3. CASE n # k
      BY <1>2, <1>5, <2>3, <2>4, <3>3, OrderKept
    <3> QED
      BY <3>2, <3>3
  <2> QED
    BY <2>4 DEF InOrder
<1> QED
  BY <1>2, <1>3, <1>4, <1>5 DEF RefuseRequest, RefuseUpgrade, Close

LEMMA AttachesInOrder ==
  ASSUME Types, Links, InOrder, Attaches
  PROVE  InOrder'
<1>1. PICK w \in Sockets, c \in ConnType :
        /\ Attach(w, c) /\ svc.pc = "idle" /\ sock[w] # "ws"
        /\ c.ws => c = NewConn(TRUE)
        /\ UNCHANGED svc
  BY AttachesDoes
<1>2. /\ made + 1 \in Conns /\ conn'[made + 1] = c
      /\ \A n \in Conns : n # made + 1 =>
           \/ conn'[n] = conn[n] /\ n # conns[w]
           \/ conn'[n] = NewConn(conn[n].ws) /\ n = conns[w]
  BY <1>1, AttachTypes
<1>3. \A n \in Conns : Doing(n) = "idle" /\ Doing(n)' = "idle"
  BY <1>1 DEF Doing
<1>4. ASSUME NEW n \in Conns, conn'[n].ws
      PROVE  Ordered(conn'[n], Doing(n)', svc'.frame)
  <2>1. CASE n = made + 1
    BY <1>1, <1>2, <1>3, <1>4, <2>1, OrderedNew
  <2>2. CASE n # made + 1 /\ conn'[n] = conn[n]
    BY <1>3, <1>4, <2>2, OrderKept
  <2>3. CASE n # made + 1 /\ conn'[n] = NewConn(conn[n].ws) /\ n = conns[w]
    <3>1. n # 0 /\ conn'[n].ws = conn[n].ws
      BY <2>3 DEF NewConn, Conns
    <3> QED
      BY <1>1, <1>4, <2>3, <3>1, ClosedHasNone
  <2> QED
    BY <1>2, <2>1, <2>2, <2>3
<1> QED
  BY <1>4 DEF InOrder

LEMMA WriteableInOrder ==
  ASSUME Types, Links, InOrder, NEW w \in Sockets, Writeable(w)
  PROVE  InOrder'
<1>1. svc.pc = "idle" /\ UNCHANGED conns /\ \A n \in Conns : Doing(n) = "idle"
  BY DEF Writeable, HttpWriteable, ServerWriteable, table, Idle, Doing
<1>2. CASE HttpWriteable(w)
  <2>1. /\ \A n \in Conns : conn'[n].ws = conn[n].ws /\ (conn[n].ws => conn'[n] = conn[n])
        /\ UNCHANGED svc \/ ServiceAt("detach", w, 0, 0)
    BY <1>2, HttpWriteableDoes
  <2>2. \A n \in Conns : Doing(n)' \in {"idle", "detach"}
    BY <1>1, <2>1 DEF Doing, ServiceAt
  <2> QED
    BY <1>1, <2>1, <2>2, OrderKept DEF InOrder
<1>3. CASE ServerWriteable(w)
  <2>1. /\ conn' = conn
        /\ \/ ServiceAt("detach", w, 0, 0)
           \/ ServiceAt("take", w, conns[w], 0) /\ ~conn[conns[w]].wantClose
    BY <1>3 DEF ServerWriteable
  <2>2. ASSUME NEW n \in Conns, conn'[n].ws
        PROVE  Ordered(conn'[n], Doing(n)', svc'.frame)
    <3>1. conn[n] \in ConnType /\ Ordered(conn[n], "idle", svc.frame)
      BY <1>1, <2>1, <2>2 DEF InOrder, Types
    <3>2. \/ Doing(n)' \in {"idle", "detach"}
          \/ Doing(n)' = "take" /\ ~conn[n].wantClose
      BY <1>1, <2>1 DEF Doing, ServiceAt
    <3> QED
      BY <2>1, <3>1, <3>2, OrderedMoves
  <2> QED
    BY <2>2 DEF InOrder
<1> QED
  BY <1>2, <1>3 DEF Writeable

LEMMA WriteInOrder ==
  ASSUME Types, Links, InOrder, WriteTake \/ WriteDone
  PROVE  InOrder'
<1>1. /\ svc.pc \in {"take", "write"} /\ svc.sock \in Sockets /\ UNCHANGED conns
      /\ svc.conn \in Conns /\ conns[svc.sock] = svc.conn /\ svc.frame \in Nat
      /\ conn[svc.conn] \in ConnType /\ conn[svc.conn].ws
  BY TransportAssumption
     DEF WriteTake, WriteDone, table, Links, ServicePlace, Types, ServiceType, Conns
<1>2. /\ \A n \in Conns : n # svc.conn => conn'[n] = conn[n]
      /\ svc'.pc = "idle" \/ (svc'.pc = "write" /\ svc'.conn = svc.conn)
           \/ (svc'.pc = "detach" /\ svc'.sock = svc.sock)
  BY WriteTakeDoes, WriteDoneDoes DEF ServiceAt, ServiceReturns
<1>3. Ordered(conn[svc.conn], svc.pc, svc.frame)
  BY <1>1 DEF InOrder, Doing
<1>4. ASSUME NEW n \in Conns, conn'[n].ws
      PROVE  Ordered(conn'[n], Doing(n)', svc'.frame)
  <2>1. CASE n # svc.conn
    <3>1. Doing(n) = "idle" /\ Doing(n)' = "idle"
      BY <1>1, <1>2, <2>1 DEF Doing
    <3> QED
      BY <1>2, <1>4, <2>1, <3>1, OrderKept
  <2>2. CASE n = svc.conn /\ WriteTake
    <3> DEFINE c == conn[n]
    <3>1. /\ svc.pc = "take" /\ c \in ConnType /\ Ordered(c, "take", svc.frame)
      BY <1>1, <1>3, <2>2 DEF WriteTake
    <3> HIDE DEF c
    <3>2. \/ /\ c.partial # <<>> /\ conn'[n] = c
             /\ ServiceAt("write", svc.sock, n, c.partial[1])
          \/ /\ c.partial = <<>> /\ c.outbound # <<>> /\ conn'[n] = Dequeued(c)
             /\ ServiceAt("write", svc.sock, n, Head(c.outbound))
          \/ /\ c.partial = <<>> /\ c.outbound = <<>> /\ conn'[n] = c
             /\ ServiceReturns
      BY <2>2, WriteTakeDoes DEF c
    <3>3. CASE c.partial # <<>> /\ conn'[n] = c /\ ServiceAt("write", svc.sock, n, c.partial[1])
      <4>1. Doing(n)' = "write" /\ svc'.frame = c.partial[1]
        BY <3>3 DEF Doing, ServiceAt
      <4> QED
        BY <3>1, <3>3, <4>1, OrderedTake
    <3>4. CASE /\ c.partial = <<>> /\ c.outbound # <<>> /\ conn'[n] = Dequeued(c)
               /\ ServiceAt("write", svc.sock, n, Head(c.outbound))
      <4>1. Doing(n)' = "write" /\ svc'.frame = Head(c.outbound)
        BY <3>4 DEF Doing, ServiceAt
      <4> QED
        BY <3>1, <3>4, <4>1, OrderedTake
    <3>5. CASE c.partial = <<>> /\ c.outbound = <<>> /\ conn'[n] = c /\ ServiceReturns
      <4>1. Doing(n)' = "idle"
        BY <3>5 DEF Doing, ServiceAt, ServiceReturns
      <4> QED
        BY <3>1, <3>5, <4>1, OrderedTake
    <3> QED
      BY <3>2, <3>3, <3>4, <3>5
  <2>3. CASE n = svc.conn /\ WriteDone
    <3> DEFINE c == conn[n]
               d == conn'[n]
               f == svc.frame
    <3>1. /\ c \in ConnType /\ Ordered(c, "write", f) /\ f \in Nat
      BY <1>1, <1>3, <2>3 DEF WriteDone
    <3>2. /\ d \in ConnType
          /\ d.outbound = c.outbound /\ d.wantClose = c.wantClose /\ d.sent = c.sent
          /\ \/ /\ c.partial = <<>> /\ d.partial = <<f>> /\ d.written = c.written
                /\ ServiceReturns
             \/ /\ d.partial = <<>> /\ d.written = Append(c.written, f)
                /\ ServiceReturns
             \/ d = c /\ ServiceAt("detach", svc.sock, 0, 0)
      BY <2>3, WriteDoneDoes
    <3>3. CASE /\ ServiceReturns
               /\ \/ c.partial = <<>> /\ d.partial = <<f>> /\ d.written = c.written
                  \/ d.partial = <<>> /\ d.written = Append(c.written, f)
      <4>1. Doing(n)' = "idle"
        BY <3>3 DEF Doing, ServiceAt, ServiceReturns
      <4>2. \A g : Ordered(d, "idle", g)
        <5> HIDE DEF c, d, f
        <5> QED
          BY <3>1, <3>2, <3>3, OrderedDone
      <4> QED
        BY <4>1, <4>2
    <3>4. CASE d = c /\ ServiceAt("detach", svc.sock, 0, 0)
      <4>1. Doing(n)' = "detach"
        BY <1>1, <2>3, <3>4 DEF Doing, ServiceAt
      <4> QED
        BY <3>1, <3>4, <4>1, OrderedMoves
    <3> QED
      BY <3>2, <3>3, <3>4
  <2> QED
    BY <2>1, <2>2, <2>3
<1> QED
  BY <1>4 DEF InOrder

LEMMA DetachInOrder ==
  ASSUME Types, Links, InOrder, DetachConn \/ DetachPending \/ Stop
  PROVE  InOrder'
<1>1. CASE DetachConn
  <2> DEFINE k == conns[svc.sock]
  <2>1. /\ svc.pc = "detach" /\ svc.sock \in Sockets /\ conns' = [conns EXCEPT ![svc.sock] = 0]
        /\ \/ /\ k \in Conns /\ conn' = Forgotten(k) /\ svc'.pc = "unpend"
           \/ /\ k = 0 /\ UNCHANGED conn /\ svc'.pc \in {"idle", "detach"}
    BY <1>1, DetachConnDoes, DetachReturnsDoes
  <2>2. \A n \in Conns : Doing(n)' \in {"idle", "detach"} /\ (n # k => Doing(n) = "idle")
    BY <2>1 DEF Doing
  <2>3. ASSUME NEW n \in Conns, conn'[n].ws
        PROVE  Ordered(conn'[n], Doing(n)', svc'.frame)
    <3>1. CASE n # k
      <4>1. conn'[n] = conn[n]
        BY <2>1, <3>1, ForgottenTypes
      <4> QED
        BY <2>2, <2>3, <3>1, <4>1, OrderKept
    <3>2. CASE n = k
      <4>1. k \in Conns /\ conn' = Forgotten(k) /\ Doing(n)' = "idle"
        BY <2>1, <3>2 DEF Doing, Conns
      <4>2. conn'[n] = NewConn(conn[n].ws) /\ conn[n].ws \in BOOLEAN
        BY <3>2, <4>1, ForgottenTypes DEF Types, ConnType
      <4> QED
        BY <4>1, <4>2, OrderedNew
    <3> QED
      BY <3>1, <3>2
  <2> QED
    BY <2>3 DEF InOrder
<1>2. CASE DetachPending
  <2>1. /\ svc.pc = "unpend" /\ svc.sock \in Sockets /\ conns[svc.sock] = 0
        /\ UNCHANGED <<conns, conn>> /\ svc'.pc \in {"idle", "detach"}
    BY <1>2, DetachReturnsDoes DEF DetachPending, table, Links, ServicePlace
  <2>2. \A n \in Conns : Doing(n) = "idle" /\ Doing(n)' \in {"idle", "detach"}
    BY <2>1 DEF Doing
  <2> QED
    BY <2>1, <2>2, OrderKept DEF InOrder
<1>3. CASE Stop
  <2>1. /\ svc.pc = "idle" /\ svc' = svc
        /\ conn' = [n \in Conns |-> NewConn(conn[n].ws)]
    BY <1>3 DEF Stop, Idle
  <2>2. ASSUME NEW n \in Conns
        PROVE  Ordered(conn'[n], Doing(n)', svc'.frame)
    <3>1. Doing(n)' = "idle" /\ conn'[n] = NewConn(conn[n].ws) /\ conn[n].ws \in BOOLEAN
      BY <2>1 DEF Doing, Types, ConnType
    <3> QED
      BY <3>1, OrderedNew
  <2> QED
    BY <2>2 DEF InOrder
<1> QED
  BY <1>1, <1>2, <1>3

LEMMA SendersInOrder ==
  ASSUME Types, Links, InOrder, NEW t \in Senders,
         SendStep(t) \/ \E n \in Conns : SendLookup(t, n)
  PROVE  InOrder'
<1>1. UNCHANGED <<conns, svc>>
  BY DEF SendStep, SendQueue, SendInsert, SendCancel, SendLookup, table
<1>2. \A n \in Conns : Doing(n)' = Doing(n)
  BY <1>1 DEF Doing
<1>3. ASSUME NEW n \in Conns, conn'[n].ws
      PROVE  Ordered(conn'[n], Doing(n)', svc'.frame)
  <2>1. CASE conn'[n] = conn[n]
    <3>1. Ordered(conn[n], Doing(n), svc.frame)
      BY <1>3, <2>1 DEF InOrder
    <3> QED
      BY <1>1, <1>2, <2>1, <3>1
  <2>2. CASE conn'[n] # conn[n]
    <3>1. SendQueue(t)
      BY <2>2 DEF SendStep, SendInsert, SendCancel, SendLookup
    <3>2. conn'[n] = Enqueue(conn[n]) /\ conn[n] \in ConnType
      BY <2>2, <3>1, SendQueueDoes
    <3>3. conn[n].ws
      BY <1>3, <3>2, EnqueueKeeps
    <3>4. Ordered(conn[n], Doing(n), svc.frame)
      BY <3>3 DEF InOrder
    <3>5. Ordered(Enqueue(conn[n]), Doing(n), svc.frame)
      BY <3>2, <3>4, OrderedEnqueue
    <3>6. Ordered(conn'[n], Doing(n), svc.frame)
      BY <3>2, <3>5
    <3> QED
      BY <1>1, <1>2, <3>6
  <2> QED
    BY <2>1, <2>2
<1> QED
  BY <1>3 DEF InOrder

LEMMA StepInOrder ==
  ASSUME Shape, InOrder, [Next]_vars
  PROVE  InOrder'
<1>1. Types /\ Links
  BY DEF Shape
<1>2. CASE UNCHANGED vars \/ WaitCancelled
  <2>1. UNCHANGED <<conn, conns, svc>>
    BY <1>2 DEF WaitCancelled, vars, table
  <2> QED
    BY <2>1 DEF InOrder, Doing
<1>3. CASE Peers
  BY <1>1, <1>3, PeersInOrder, AttachesInOrder DEF Peers, Attaches
<1>4. CASE Callback \/ Stop
  BY <1>1, <1>4, WriteInOrder, DetachInOrder DEF Callback
<1>5. CASE \E w \in Sockets : Writeable(w)
  BY <1>1, <1>5, WriteableInOrder
<1>6. CASE \E t \in Senders : SendStep(t) \/ \E n \in Conns : SendLookup(t, n)
  BY <1>1, <1>6, SendersInOrder
<1> QED
  BY <1>2, <1>3, <1>4, <1>5, <1>6 DEF Next, Rest

(* Over send and writeQueued (src/ws_server.cpp): whatever the partial     *)
(* writes, the full queue and the interleaving of senders with the service *)
(* thread, a WebSocket client is sent frames 1, 2, 3, ... and no later one *)
(* after a frame that was dropped.                                         *)
THEOREM FramesInOrder == Spec => []NoGap
<1>1. Init => InOrder
  <2> SUFFICES ASSUME Init PROVE InOrder
    OBVIOUS
  <2>1. ASSUME NEW n \in Conns
        PROVE  Ordered(conn[n], Doing(n), svc.frame)
    <3>1. conn[n] = NewConn(FALSE) /\ Doing(n) = "idle"
      BY DEF Init, Doing
    <3> QED
      BY <3>1, OrderedNew
  <2> QED
    BY <2>1 DEF InOrder
<1>2. Shape /\ InOrder /\ [Next]_vars => InOrder'
  BY StepInOrder
<1>3. Shape /\ InOrder => NoGap
  BY InOrderSuffices DEF Shape
<1> QED
  BY <1>1, <1>2, <1>3, ShapeHolds, PTL DEF Spec
=============================================================================

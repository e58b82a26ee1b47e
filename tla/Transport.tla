----------------------------- MODULE Transport -----------------------------
(***************************************************************************)
(* The server's connections (src/ws_server.cpp, src/peer_slots.h): the     *)
(* service thread runs libwebsockets' callbacks one at a time, and other   *)
(* threads queue frames and ask for a wake-up.  A callback of the service  *)
(* thread is one step, except where it lets go of a lock a sender may take *)
(* meanwhile.                                                              *)
(*                                                                         *)
(* A socket is the address of a wsi, which is used again for a later one.  *)
(* A Conn has a number; a kept-alive socket gets another one per request,  *)
(* and an upgraded one another still.  A frame is its place among all      *)
(* frames sent to its Conn, those dropped included.                        *)
(* All sockets are of one peer, as all loopback clients are.  Refusals     *)
(* before a Conn exists (Host, Origin, authorisation, content type) have   *)
(* no effect on this state beyond keeping or closing the socket.           *)
(***************************************************************************)
EXTENDS Naturals, Sequences, FiniteSets

CONSTANTS
  Sockets,         \* wsi addresses
  Senders,         \* threads that call send
  NoSocket,        \* no wsi
  MaxQueue,        \* limits.maxQueuedFramesPerConnection
  MaxConnections,  \* limits.maxConnections
  MaxPerPeer,      \* limits.maxConnectionsPerPeer
  MaxConns,        \* bound: Conns made
  MaxFrames,       \* bound: frames sent to one WebSocket Conn
  MaxHttpFrames    \* bound: frames sent to one HTTP Conn

ASSUME TransportAssumption ==
  /\ NoSocket \notin Sockets
  /\ {MaxQueue, MaxConnections, MaxPerPeer, MaxConns, MaxFrames, MaxHttpFrames} \subseteq Nat

Conns == 1..MaxConns

VARIABLES
  sock,      \* per wsi: closed, http or ws
  open,      \* sockets with an HTTP transaction that is not completed
  conns,     \* m_conns; 0: the wsi is not in it
  slots,     \* m_peerSlots: m_owner's wsis, and the peer's m_count
  made,      \* Conns made so far
  conn,      \* per Conn, its fields and what has gone out; see NewConn
  hooked,    \* per Conn, how often onClosed was called for it
  pending,   \* m_pending
  woken,     \* has lws_cancel_service been called?
  writable,  \* sockets whose writeable callback is due
  svc,       \* the service thread: where it is, its socket, Conn and frame
  sender,    \* per sender: where it is, its Conn and the wsi it has found
  stopped    \* has stop() returned?

table == <<conns, slots, made>>
lws == <<sock, open, writable>>
wake == <<pending, woken>>
vars == <<lws, table, conn, hooked, wake, svc, sender, stopped>>

(* body: its POST body is still to come; asked: a call or a subscription   *)
(* made through it may send; sent: frames sent so far; written: frames     *)
(* that went out whole.  partial and httpOut hold the frame being written. *)
NewConn(ws) ==
  [ws |-> ws, body |-> FALSE, asked |-> FALSE, outbound |-> <<>>, partial |-> <<>>, httpOut |-> <<>>,
   wantClose |-> FALSE, sent |-> 0, written |-> <<>>]

MaySend(c) == c.sent < (IF c.ws THEN MaxFrames ELSE MaxHttpFrames)

Idle == svc.pc = "idle" /\ ~stopped

ServiceAt(pc, w, n, f) ==
  svc' = [pc |-> pc, sock |-> w, conn |-> n, frame |-> f, last |-> FALSE]

ServiceReturns == ServiceAt("idle", NoSocket, 0, 0)

----------------------------------------------------------------------------
(* attach: PeerSlots::acquire takes no second slot for a wsi. *)

Acquire_Again(w) == [owner |-> slots.owner \cup {w}, count |-> slots.count + 1]

Acquire(w) ==
  IF w \in slots.owner THEN slots
  ELSE [owner |-> slots.owner \cup {w}, count |-> slots.count + 1]

Release(w) ==
  IF w \in slots.owner THEN [owner |-> slots.owner \ {w}, count |-> slots.count - 1]
  ELSE slots

(* A Conn that is no longer in m_conns is not written from again, whatever *)
(* is queued on it: it is forgotten, but for its kind.                     *)
Forgotten(n) == [conn EXCEPT ![n] = NewConn(@.ws)]

(* A Conn for socket w replaces the one of its last request. *)
Attach(w, c) ==
  LET before == IF conns[w] = 0 THEN conn ELSE Forgotten(conns[w]) IN
  /\ made < MaxConns /\ made' = made + 1
  /\ conns' = [conns EXCEPT ![w] = made + 1]
  /\ slots' = Acquire(w)
  /\ conn' = [before EXCEPT ![made + 1] = c]

(* A request may start on a new socket, or on a kept-alive one. *)
Ready(w) == Idle /\ (sock[w] = "closed" \/ (sock[w] = "http" /\ w \notin open))

(* Under the Conn's lock: a full queue closes the connection instead of     *)
(* losing a frame.                                                         *)
Enqueue_Drops(c) ==
  IF Len(c.outbound) >= MaxQueue THEN [c EXCEPT !.sent = @ + 1]
  ELSE [c EXCEPT !.sent = @ + 1, !.outbound = Append(@, c.sent + 1)]

Enqueue(c) ==
  IF Len(c.outbound) >= MaxQueue THEN [c EXCEPT !.sent = @ + 1, !.wantClose = TRUE]
  ELSE [c EXCEPT !.sent = @ + 1, !.outbound = Append(@, c.sent + 1)]

----------------------------------------------------------------------------
(* LWS_CALLBACK_HTTP, HTTP_BODY, HTTP_BODY_COMPLETION *)

Get(w) ==
  /\ Ready(w)
  /\ Attach(w, [NewConn(FALSE) EXCEPT !.outbound = <<1>>, !.sent = 1])
  /\ sock' = [sock EXCEPT ![w] = "http"] /\ open' = open \cup {w}
  /\ writable' = writable \cup {w}
  /\ UNCHANGED <<hooked, wake, svc, sender, stopped>>

Post(w) ==
  /\ Ready(w)
  /\ Attach(w, [NewConn(FALSE) EXCEPT !.body = TRUE])
  /\ sock' = [sock EXCEPT ![w] = "http"] /\ open' = open \cup {w}
  /\ UNCHANGED <<writable, hooked, wake, svc, sender, stopped>>

(* A refused request leaves the socket open; if its body is unread, the    *)
(* socket closes.                                                          *)
RefuseRequest(w) ==
  /\ Ready(w)
  /\ sock' = [sock EXCEPT ![w] = "http"]
  /\ \/ UNCHANGED svc
     \/ ServiceAt("detach", w, 0, 0)
  /\ UNCHANGED <<open, writable, table, conn, hooked, wake, sender, stopped>>

(* onBody leaves the answer to another thread (a call), or sends it from   *)
(* here (an error, a method of the bridge itself).                         *)
OnBody(w, n, c) ==
  \/ conn' = [conn EXCEPT ![n] = [c EXCEPT !.asked = TRUE]] /\ UNCHANGED wake
  \/ /\ MaySend(c)
     /\ conn' = [conn EXCEPT ![n] = Enqueue(c)]
     /\ pending' = pending \cup {w} /\ woken' = TRUE

(* The body is handed to onBody; one over the limit closes the socket. *)
Body(w) ==
  LET n == conns[w] IN
  /\ Idle /\ n # 0 /\ conn[n].body
  /\ \/ OnBody(w, n, [conn[n] EXCEPT !.body = FALSE]) /\ UNCHANGED svc
     \/ ServiceAt("detach", w, 0, 0) /\ UNCHANGED <<conn, wake>>
  /\ UNCHANGED <<lws, table, hooked, sender, stopped>>

----------------------------------------------------------------------------
(* LWS_CALLBACK_FILTER_PROTOCOL_CONNECTION, ESTABLISHED, RECEIVE *)

Gone(n) == \A w \in Sockets : conns[w] # n

Attached == {w \in Sockets : conns[w] # 0}

Admits(w) ==
  /\ w \in Attached \/ Cardinality(Attached) < MaxConnections
  /\ w \in slots.owner \/ slots.count < MaxPerPeer

Establish(w) ==
  /\ Ready(w) /\ Admits(w)
  /\ Attach(w, NewConn(TRUE))
  /\ sock' = [sock EXCEPT ![w] = "ws"]
  /\ UNCHANGED <<open, writable, hooked, wake, svc, sender, stopped>>

RefuseUpgrade(w) ==
  /\ Ready(w) /\ ~Admits(w)
  /\ sock' = [sock EXCEPT ![w] = "http"]
  /\ ServiceAt("detach", w, 0, 0)
  /\ UNCHANGED <<open, writable, table, conn, hooked, wake, sender, stopped>>

(* A text frame goes to onBody; a binary or oversized one is a             *)
(* requestClose.                                                           *)
ReceiveText(w) ==
  LET n == conns[w] IN
  /\ Idle /\ sock[w] = "ws"
  /\ OnBody(w, n, conn[n])
  /\ UNCHANGED <<lws, table, hooked, svc, sender, stopped>>

ReceiveOther(w) ==
  LET n == conns[w] IN
  /\ Idle /\ sock[w] = "ws" /\ ~conn[n].wantClose
  /\ conn' = [conn EXCEPT ![n].wantClose = TRUE]
  /\ pending' = pending \cup {w} /\ woken' = TRUE
  /\ UNCHANGED <<lws, table, hooked, svc, sender, stopped>>

----------------------------------------------------------------------------
(* send, on thread t *)

SenderAt(t, pc, n, w) == sender' = [sender EXCEPT ![t] = [pc |-> pc, conn |-> n, sock |-> w]]

(* The wsi is looked up under one lock and used under others. *)
SendLookup(t, n) ==
  /\ sender[t].pc = "idle" /\ ~stopped /\ n <= made
  /\ conn[n].asked /\ MaySend(conn[n])
  /\ \E w \in Attached : conns[w] = n /\ SenderAt(t, "queue", n, w)
  /\ UNCHANGED <<lws, table, conn, hooked, wake, svc, stopped>>

SendQueue(t) ==
  LET n == sender[t].conn IN
  /\ sender[t].pc = "queue"
  /\ conn' = IF Gone(n) THEN conn ELSE [conn EXCEPT ![n] = Enqueue(@)]
  /\ SenderAt(t, "insert", n, sender[t].sock)
  /\ UNCHANGED <<lws, table, hooked, wake, svc, stopped>>

SendInsert(t) ==
  /\ sender[t].pc = "insert"
  /\ pending' = pending \cup {sender[t].sock}
  /\ SenderAt(t, "cancel", sender[t].conn, sender[t].sock)
  /\ UNCHANGED <<lws, table, conn, hooked, woken, svc, stopped>>

SendCancel(t) ==
  /\ sender[t].pc = "cancel"
  /\ woken' = TRUE
  /\ SenderAt(t, "idle", 0, NoSocket)
  /\ UNCHANGED <<lws, table, conn, hooked, pending, svc, stopped>>

(* LWS_CALLBACK_EVENT_WAIT_CANCELLED.  What libwebsockets does with the    *)
(* address of a wsi that is gone is undefined; here it does nothing.       *)
WaitCancelled ==
  /\ Idle /\ woken /\ woken' = FALSE
  /\ pending' = {}
  /\ writable' = writable \cup {w \in pending : sock[w] # "closed"}
  /\ UNCHANGED <<sock, open, table, conn, hooked, svc, sender, stopped>>

----------------------------------------------------------------------------
(* LWS_CALLBACK_HTTP_WRITEABLE: one slice.  A body has one or two.         *)

Sent(c, f) == [c EXCEPT !.written = Append(@, f)]

HttpSlice(w, n, c) ==
  \/ /\ Len(c.httpOut) = 1                                \* not the last one
     /\ conn' = [conn EXCEPT ![n] = [c EXCEPT !.httpOut = Append(@, 0)]]
     /\ writable' = writable
     /\ UNCHANGED <<open, svc>>
  \/ /\ conn' = [conn EXCEPT ![n] = Sent([c EXCEPT !.httpOut = <<>>], c.httpOut[1])]
     /\ writable' = writable \ {w} /\ open' = open \ {w}
     /\ UNCHANGED svc \/ ServiceAt("detach", w, 0, 0)
  \/ /\ ServiceAt("detach", w, 0, 0)                      \* lws_write fails
     /\ conn' = [conn EXCEPT ![n] = c]
     /\ writable' = writable \ {w}
     /\ UNCHANGED open

HttpWriteable(w) ==
  LET n == conns[w] IN
  /\ Idle /\ w \in writable /\ sock[w] = "http"
  /\ IF n = 0 \/ (conn[n].httpOut = <<>> /\ conn[n].outbound = <<>>)
     THEN writable' = writable \ {w} /\ UNCHANGED <<open, conn, svc>>
     ELSE HttpSlice(w, n, IF conn[n].httpOut # <<>> THEN conn[n]
                          ELSE [conn[n] EXCEPT !.httpOut = <<Head(conn[n].outbound)>>,
                                               !.outbound = Tail(@)])
  /\ UNCHANGED <<sock, table, hooked, wake, sender, stopped>>

----------------------------------------------------------------------------
(* LWS_CALLBACK_SERVER_WRITEABLE and writeQueued *)

ServerWriteable(w) ==
  LET n == conns[w] IN
  /\ Idle /\ w \in writable /\ sock[w] = "ws" /\ n # 0
  /\ writable' = writable \ {w}
  /\ IF conn[n].wantClose THEN ServiceAt("detach", w, 0, 0) ELSE ServiceAt("take", w, n, 0)
  /\ UNCHANGED <<sock, open, table, conn, hooked, wake, sender, stopped>>

(* What is left of a frame goes before the queue. *)
WriteTake_Fresh ==
  LET n == svc.conn
      c == conn[n]
  IN
  /\ svc.pc = "take"
  /\ \/ /\ c.outbound # <<>>
        /\ ServiceAt("write", svc.sock, n, Head(c.outbound))
        /\ conn' = [conn EXCEPT ![n].outbound = Tail(@)]
     \/ /\ c.outbound = <<>>
        /\ ServiceReturns
        /\ UNCHANGED conn
  /\ UNCHANGED <<lws, table, hooked, wake, sender, stopped>>

WriteTake ==
  LET n == svc.conn
      c == conn[n]
  IN
  /\ svc.pc = "take"
  /\ \/ /\ c.partial # <<>>
        /\ ServiceAt("write", svc.sock, n, c.partial[1])
        /\ UNCHANGED conn
     \/ /\ c.partial = <<>> /\ c.outbound # <<>>
        /\ ServiceAt("write", svc.sock, n, Head(c.outbound))
        /\ conn' = [conn EXCEPT ![n].outbound = Tail(@)]
     \/ /\ c.partial = <<>> /\ c.outbound = <<>>
        /\ ServiceReturns
        /\ UNCHANGED conn
  /\ UNCHANGED <<lws, table, hooked, wake, sender, stopped>>

(* The writeable callback is asked for again while there is more. *)
Rearm_Partial(w, c) == IF c.partial # <<>> THEN writable \cup {w} ELSE writable

Rearm(w, c) == IF c.partial # <<>> \/ c.outbound # <<>> THEN writable \cup {w} ELSE writable

(* lws takes the frame in one or two parts, or fails. *)
WriteDone ==
  LET n == svc.conn
      w == svc.sock
      Wrote(c) == conn' = [conn EXCEPT ![n] = c] /\ writable' = Rearm(w, c)
  IN
  /\ svc.pc = "write"
  /\ \/ /\ conn[n].partial = <<>>
        /\ Wrote([conn[n] EXCEPT !.partial = <<svc.frame>>])
        /\ ServiceReturns
     \/ /\ Wrote(Sent([conn[n] EXCEPT !.partial = <<>>], svc.frame))
        /\ ServiceReturns
     \/ /\ ServiceAt("detach", w, 0, 0)
        /\ UNCHANGED <<conn, writable>>
  /\ UNCHANGED <<sock, open, table, hooked, wake, sender, stopped>>

----------------------------------------------------------------------------
(* A socket closes: LWS_CALLBACK_CLOSED or CLOSED_HTTP, then WSI_DESTROY,  *)
(* each of which calls detach.                                             *)

Close(w) ==
  /\ Idle /\ sock[w] # "closed"
  /\ ServiceAt("detach", w, 0, 0)
  /\ UNCHANGED <<lws, table, conn, hooked, wake, sender, stopped>>

Forget_Kept(w) == UNCHANGED conns

Forget(w) == conns' = [conns EXCEPT ![w] = 0]

(* detach returns: to the second one, or with the wsi freed. *)
DetachReturns ==
  LET w == svc.sock IN
  IF svc.last
  THEN /\ ServiceReturns
       /\ sock' = [sock EXCEPT ![w] = "closed"]
       /\ open' = open \ {w} /\ writable' = writable \ {w}
  ELSE /\ svc' = [svc EXCEPT !.pc = "detach", !.last = TRUE]
       /\ UNCHANGED lws

DetachConn ==
  LET w == svc.sock IN
  /\ svc.pc = "detach"
  /\ slots' = Release(w)
  /\ \/ /\ conns[w] # 0
        /\ Forget(w)
        /\ conn' = Forgotten(conns[w])
        /\ svc' = [svc EXCEPT !.pc = "unpend", !.conn = conns[w]]
        /\ UNCHANGED lws
     \/ /\ conns[w] = 0
        /\ DetachReturns
        /\ UNCHANGED <<conns, conn>>
  /\ UNCHANGED <<made, hooked, wake, sender, stopped>>

DetachPending ==
  /\ svc.pc = "unpend"
  /\ pending' = pending \ {svc.sock}
  /\ hooked' = IF conn[svc.conn].ws THEN [hooked EXCEPT ![svc.conn] = @ + 1] ELSE hooked
  /\ DetachReturns
  /\ UNCHANGED <<table, conn, woken, sender, stopped>>

(* stop: the service thread is joined and the context destroyed, which     *)
(* detaches what is left.  shutdown has seen to it that no one sends.      *)
Stop ==
  /\ Idle /\ \A t \in Senders : sender[t].pc = "idle"
  /\ stopped' = TRUE
  /\ hooked' = [n \in Conns |-> IF conn[n].ws /\ \E w \in Sockets : conns[w] = n
                                THEN hooked[n] + 1 ELSE hooked[n]]
  /\ conns' = [w \in Sockets |-> 0] /\ slots' = [owner |-> {}, count |-> 0]
  /\ sock' = [w \in Sockets |-> "closed"] /\ open' = {} /\ writable' = {}
  /\ conn' = [n \in Conns |-> NewConn(conn[n].ws)]
  /\ pending' = pending \ Attached /\ woken' = FALSE
  /\ UNCHANGED <<made, svc, sender>>

----------------------------------------------------------------------------
Init ==
  /\ sock = [w \in Sockets |-> "closed"] /\ open = {} /\ writable = {}
  /\ conns = [w \in Sockets |-> 0] /\ slots = [owner |-> {}, count |-> 0] /\ made = 0
  /\ conn = [n \in Conns |-> NewConn(FALSE)]
  /\ hooked = [n \in Conns |-> 0]
  /\ pending = {} /\ woken = FALSE
  /\ svc = [pc |-> "idle", sock |-> NoSocket, conn |-> 0, frame |-> 0, last |-> FALSE]
  /\ sender = [t \in Senders |-> [pc |-> "idle", conn |-> 0, sock |-> NoSocket]]
  /\ stopped = FALSE

(* What the peers do. *)
Peers ==
  \E w \in Sockets : \/ Get(w) \/ Post(w) \/ RefuseRequest(w) \/ Body(w)
                     \/ Establish(w) \/ RefuseUpgrade(w) \/ ReceiveText(w) \/ ReceiveOther(w)
                     \/ Close(w)

(* The rest of a callback the service thread is in. *)
Callback ==
  \/ WriteTake \/ WriteDone
  \/ DetachConn \/ DetachPending

Writeable(w) == HttpWriteable(w) \/ ServerWriteable(w)

SendStep(t) == SendQueue(t) \/ SendInsert(t) \/ SendCancel(t)

Rest == stopped /\ UNCHANGED vars

Next ==
  \/ Peers \/ WaitCancelled \/ Callback \/ Stop \/ Rest
  \/ \E w \in Sockets : Writeable(w)
  \/ \E t \in Senders : SendStep(t) \/ \E n \in Conns : SendLookup(t, n)

Spec == Init /\ [][Next]_vars

(* The service loop and the senders run.  libwebsockets handles a wake-up  *)
(* and every socket that can be written in each turn of its loop, whatever *)
(* other sockets do; a reader that takes nothing for ever is left out.     *)
(* Peers, and whoever sends, need do nothing.                              *)
Fairness ==
  /\ WF_vars(Callback) /\ SF_vars(WaitCancelled)
  /\ \A w \in Sockets : SF_vars(Writeable(w))
  /\ \A t \in Senders : WF_vars(SendStep(t))

FairSpec == Spec /\ Fairness

----------------------------------------------------------------------------
(* Properties *)

(* "A slow WebSocket reader is closed, not silently starved of events"     *)
(* (README): a WebSocket client reads the frames sent to it in order and   *)
(* without a gap, through partial writes and a full queue, up to the       *)
(* moment its connection closes.                                           *)
NoGap == \A n \in Conns : conn[n].ws => \A k \in DOMAIN conn[n].written : conn[n].written[k] = k

(* A WebSocket connection with something to write, or to be closed, has a  *)
(* writeable callback due or a wake-up on its way, although senders and    *)
(* the service thread share the queue under one lock and m_pending under   *)
(* another.                                                                *)
Waiting(n) == conn[n].outbound # <<>> \/ conn[n].partial # <<>> \/ conn[n].wantClose

NoLostWakeup ==
  \A w \in Sockets : sock[w] = "ws" /\ conns[w] # 0 /\ Waiting(conns[w]) =>
    \/ w \in writable \/ svc.sock = w
    \/ w \in pending /\ (woken \/ \E t \in Senders : sender[t].pc = "cancel")
    \/ \E t \in Senders : sender[t].pc = "insert" /\ sender[t].sock = w

(* "A connection counts once against the per-peer bound, however many HTTP *)
(* requests it carries" (README), and gives its slot back once, though     *)
(* detach runs twice and an upgrade keeps the socket.                      *)
SlotsMatch == slots.owner = Attached /\ slots.count = Cardinality(Attached)

(* onClosed is called once for every WebSocket connection that is gone,    *)
(* and for no other: that is when its subscriptions are dropped.           *)
ClosedOnce ==
  \A n \in 1..made :
    hooked[n] = IF conn[n].ws /\ Gone(n) /\ ~(svc.conn = n /\ svc.pc = "unpend")
                THEN 1 ELSE 0

(* Every frame sent to a WebSocket connection goes out, or the connection  *)
(* closes; a frame dropped at a full queue makes it close.                 *)
Delivered ==
  \A n \in Conns :
    (conn[n].ws /\ ~Gone(n)) ~> (Gone(n) \/ Len(conn[n].written) = conn[n].sent)

(* "Queue a frame for one connection. Safe from any thread." (ws_server.h) *)
(* The sockets that the service thread is told to poke still exist.  They  *)
(* need not: send looks the wsi up under one lock and queues it under      *)
(* another, and a detach between the two has already been through both.    *)
PendingIsOpen == \A w \in pending : sock[w] # "closed"
=============================================================================

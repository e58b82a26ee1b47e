------------------------ MODULE SubscriptionContract ------------------------
(***************************************************************************)
(* What the bridge promises its clients about subscription ids, as if the  *)
(* id table and the subscriber table were two sets that change in whole    *)
(* steps: no threads, no queue, no hub, no stages of a shutdown.           *)
(*                                                                         *)
(* A subscription is one rpc.subscribe, a record with at least a           *)
(* connection (conn) and the id the client chose (id).                     *)
(***************************************************************************)
CONSTANTS
  Subs,       \* every subscription there can be
  Conns,      \* connections
  Kinds,      \* what a client may be told about a subscription
  Closing     \* that it is over, or never came to be

VARIABLES
  attached,   \* connections that are there
  ids,        \* subscriptions that hold their id
  held,       \* subscriptions that events are delivered to
  told        \* what clients have been told: [kind, sub]

vars == <<attached, ids, held, told>>

Rivals(a, b) == a.conn = b.conn /\ a.id = b.id

Known(s) == \E f \in told : f.sub = s

(* An id is claimed by one subscription at a time, and a subscription the  *)
(* client has heard of does not begin again.                               *)
Claim(s) ==
  /\ ids' = ids \cup {s}
  /\ \A x \in ids : ~Rivals(x, s)
  /\ ~Known(s)
  /\ UNCHANGED <<attached, held, told>>

(* Delivery begins for the holder of an id, never for two of them. *)
Hold(s) ==
  /\ s \in ids /\ (\A x \in held : ~Rivals(x, s)) /\ ~Known(s)
  /\ held' = held \cup {s}
  /\ UNCHANGED <<attached, ids, told>>

Free(s) ==
  /\ ids' = ids \ {s}
  /\ UNCHANGED <<attached, held, told>>

Drop(gone) ==
  /\ held' = held \ gone
  /\ UNCHANGED <<attached, ids, told>>

(* Only a connection that is there is told anything; and the end of a      *)
(* subscription only once it gets no more events and its id is free.       *)
Tell(s, kind) ==
  /\ s.conn \in attached
  /\ kind \in Closing => s \notin ids \cup held
  /\ told' = told \cup {[kind |-> kind, sub |-> s]}
  /\ UNCHANGED <<attached, ids, held>>

HangUp(c) ==
  /\ attached' = attached \ {c}
  /\ UNCHANGED <<ids, held, told>>

(* The server stops: every connection goes, and every subscription. *)
Stop ==
  /\ attached' = {} /\ held' = {}
  /\ UNCHANGED <<ids, told>>

Init == attached = Conns /\ ids = {} /\ held = {} /\ told = {}

Next ==
  \/ \E s \in Subs : Claim(s) \/ Hold(s) \/ Free(s)
  \/ \E f \in told' : f.sub \in Subs /\ f.kind \in Kinds /\ Tell(f.sub, f.kind)
  \/ \E gone \in SUBSET held : Drop(gone)
  \/ \E c \in attached : HangUp(c)
  \/ Stop

Spec == Init /\ [][Next]_vars

(* A subscription whose end was told is over for good: it neither holds    *)
(* its id nor gets events again.                                           *)
EndedIsGone ==
  \A f \in told : f.kind \in Closing => f.sub \notin ids \cup held
=============================================================================

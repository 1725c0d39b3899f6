---- MODULE EventStream ----
(***************************************************************************)
(* What the live feed promises to the client of a WebSocket connection,    *)
(* without locks, buffers or tasks.  Events are numbered from 1 in each    *)
(* life of the server.  An event becomes owed to a client when it is       *)
(* published on a channel the client has joined, or when a resume is       *)
(* accepted; from then on it is delivered, unless the connection is cut.   *)
(* Delivery is at least once and in any order.                             *)
(***************************************************************************)
EXTENDS Naturals, Sequences

CONSTANTS Clients, Channels

VARIABLES
  log,     \* the channel of each event of this life of the server
  linked,  \* the clients whose connection is open
  joined,  \* client -> the channels it follows on this connection
  owed,    \* client -> events that will still be sent to it
  got,     \* client -> events it received on this connection
  cursor   \* client -> the number of the event it received last, ever

streamVars == <<log, linked, joined, owed, got, cursor>>

Nothing == [c \in Clients |-> {}]

Init ==
  /\ log = <<>> /\ linked = {}
  /\ joined = Nothing /\ owed = Nothing /\ got = Nothing
  /\ cursor = [c \in Clients |-> 0]

Link(c) ==
  /\ c \notin linked
  /\ linked' = linked \cup {c}
  /\ UNCHANGED <<log, joined, owed, got, cursor>>

Cut(c) ==
  /\ c \in linked
  /\ linked' = linked \ {c}
  /\ joined' = [joined EXCEPT ![c] = {}]
  /\ owed' = [owed EXCEPT ![c] = {}]
  /\ got' = [got EXCEPT ![c] = {}]
  /\ UNCHANGED <<log, cursor>>

Join(c, ch) ==
  /\ c \in linked
  /\ joined' = [joined EXCEPT ![c] = @ \cup {ch}]
  /\ UNCHANGED <<log, linked, owed, got, cursor>>

\* What is already owed is still delivered.
Leave(c, ch) ==
  /\ c \in linked
  /\ joined' = [joined EXCEPT ![c] = @ \ {ch}]
  /\ UNCHANGED <<log, linked, owed, got, cursor>>

Publish(ch) ==
  /\ log' = Append(log, ch)
  /\ owed' = [c \in Clients |->
                IF ch \in joined[c] THEN owed[c] \cup {Len(log')} ELSE owed[c]]
  /\ UNCHANGED <<linked, joined, got, cursor>>

\* An accepted resume: every event after the cursor on the joined channels.
Promise(c) ==
  /\ c \in linked
  /\ owed' = [owed EXCEPT ![c] =
                @ \cup {i \in cursor[c] + 1 .. Len(log) : log[i] \in joined[c]}]
  /\ UNCHANGED <<log, linked, joined, got, cursor>>

Deliver(c, i) ==
  /\ c \in linked /\ i \in owed[c]
  /\ \/ owed' = owed
     \/ owed' = [owed EXCEPT ![c] = @ \ {i}]
  /\ got' = [got EXCEPT ![c] = @ \cup {i}]
  /\ cursor' = [cursor EXCEPT ![c] = i]
  /\ UNCHANGED <<log, linked, joined>>

\* The server restarts: every connection is cut and the numbers start again.
Reset ==
  /\ log' = <<>> /\ linked' = {}
  /\ joined' = Nothing /\ owed' = Nothing /\ got' = Nothing
  /\ UNCHANGED cursor

Next ==
  \/ \E c \in Clients :
       \/ Link(c) \/ Cut(c) \/ Promise(c)
       \/ \E ch \in Channels : Join(c, ch) \/ Leave(c, ch)
       \/ \E i \in owed[c] : Deliver(c, i)
  \/ \E ch \in Channels : Publish(ch)
  \/ Reset

Spec == Init /\ [][Next]_streamVars
====

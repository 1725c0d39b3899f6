---- MODULE WebSocketHub ----
(***************************************************************************)
(* The WebSocket hub and the endpoint task of each connection.             *)
(*                                                                         *)
(* An endpoint serves one request of its client at a time: subscribe,      *)
(* unsubscribe or resume.  A broadcast numbers its message and appends it  *)
(* to the replay buffer under the lock, and then sends it to the           *)
(* subscribers of that moment, one await each.  A resume reads the buffer  *)
(* under the lock and replays it after releasing it, so broadcasts come in *)
(* between; only the answer "resync required" is sent with the lock held.  *)
(*                                                                         *)
(* A send hands its message to the transport at once and returns when the  *)
(* transport has room: a slow client is a send that has not returned yet.  *)
(* A send to a connection that is broken fails and is skipped.             *)
(*                                                                         *)
(* Who broadcasts is left to the module that extends this one: it starts a *)
(* broadcast with Broadcast(ch) and sees it end with CastDone.             *)
(***************************************************************************)
EXTENDS Naturals, Sequences, SequencesExt

CONSTANTS
  Clients,     \* the programs that connect, each with a new client_id each time
  Channels,    \* valid channel names
  BufferSize,  \* buffer_size, the length of the replay buffer
  NoOne,       \* nobody holds the lock
  NoCast,      \* no broadcast is being sent
  MaxLinks,    \* bound: connections opened, over all lives
  MaxRequests  \* bound: requests sent by clients

ASSUME BufferAssumption == BufferSize \in Nat \ {0}
ASSUME NoOneAssumption  == NoOne \notin Clients
ASSUME NoCastAssumption == NoCast \notin [seq : Nat, to : SUBSET Clients]
ASSUME BoundsAssumption == MaxLinks \in Nat /\ MaxRequests \in Nat

VARIABLES
  conns,        \* _connections: clients registered
  subs,         \* _subscriptions: client -> its channels
  subscribers,  \* _channel_subscribers: channel -> its clients
  buffer,       \* _buffer: the last events, as [seq, chan]
  lock,         \* the endpoint that holds _lock across an await
  endpoint,     \* client -> [at, rest]: what its endpoint is doing, the events it has to replay
  cast,         \* the broadcast being sent: its number, who is still to be sent it
  up,           \* clients whose connection is open, as the client sees it
  log,          \* the channel of every event of this life; _seq is its length
  got,          \* client -> events received on this connection
  cursor,       \* client -> the number of the last event it received, ever
  links,        \* connections opened so far
  requests      \* requests sent so far

hub     == <<conns, subs, subscribers, buffer, lock, endpoint, cast, log>>
clients == <<up, got, cursor, links, requests>>
hubVars == <<hub, clients>>

seq == Len(log)
Gone == [at |-> "gone", rest |-> {}]
Idle == [at |-> "idle", rest |-> {}]
Refusing == [at |-> "resync", rest |-> {}]
At(c, place) == endpoint[c].at = place
LockFree == lock = NoOne
Asks(c) == At(c, "idle") /\ c \in up /\ requests < MaxRequests /\ requests' = requests + 1

HubInit ==
  /\ conns = {} /\ up = {} /\ lock = NoOne /\ cast = NoCast
  /\ subs = [c \in Clients |-> {}] /\ got = [c \in Clients |-> {}]
  /\ subscribers = [ch \in Channels |-> {}]
  /\ buffer = <<>> /\ log = <<>>
  /\ endpoint = [c \in Clients |-> Gone]
  /\ cursor = [c \in Clients |-> 0]
  /\ links = 0 /\ requests = 0

-----------------------------------------------------------------------------
(* Connections *)

Connect(c) ==
  /\ At(c, "gone") /\ LockFree /\ links < MaxLinks
  /\ conns' = conns \cup {c} /\ up' = up \cup {c}
  /\ subs' = [subs EXCEPT ![c] = {}]
  /\ endpoint' = [endpoint EXCEPT ![c] = Idle]
  /\ links' = links + 1
  /\ UNCHANGED <<subscribers, buffer, lock, cast, log, got, cursor, requests>>

\* The client goes away, or the network does; the endpoint finds out later.
Drop(c) ==
  /\ c \in up
  /\ up' = up \ {c} /\ got' = [got EXCEPT ![c] = {}]
  /\ UNCHANGED <<hub, cursor, links, requests>>

\* A broadcast that has yet to send to this client_id will not find it; the
\* next connection of the client has another one.
Disconnect(c) ==
  /\ At(c, "idle") /\ c \notin up /\ LockFree
  /\ conns' = conns \ {c}
  /\ cast' = IF cast = NoCast THEN cast ELSE [cast EXCEPT !.to = @ \ {c}]
  /\ subscribers' = [ch \in Channels |->
                       IF ch \in subs[c] THEN subscribers[ch] \ {c} ELSE subscribers[ch]]
  /\ subs' = [subs EXCEPT ![c] = {}]
  /\ endpoint' = [endpoint EXCEPT ![c] = Gone]
  /\ UNCHANGED <<buffer, lock, log, clients>>

-----------------------------------------------------------------------------
(* Requests.  The confirmation that follows a subscription changes nothing: *)
(* while it is being sent the client just has not asked again yet.         *)

Subscribe(c, ch) ==
  /\ Asks(c) /\ LockFree
  /\ subs' = [subs EXCEPT ![c] = @ \cup {ch}]
  /\ subscribers' = [subscribers EXCEPT ![ch] = @ \cup {c}]
  /\ UNCHANGED <<conns, buffer, lock, endpoint, cast, log, up, got, cursor, links>>

Unsubscribe(c, ch) ==
  /\ Asks(c) /\ LockFree
  /\ subs' = [subs EXCEPT ![c] = @ \ {ch}]
  /\ subscribers' = [subscribers EXCEPT ![ch] = @ \ {c}]
  /\ UNCHANGED <<conns, buffer, lock, endpoint, cast, log, up, got, cursor, links>>

-----------------------------------------------------------------------------
(* Resume from the last number the client has seen *)

NothingToReplay(c) == IF buffer = <<>> THEN TRUE ELSE cursor[c] > Last(buffer).seq

\* Nothing to replay, or a number this server has not reached: no answer.
ResumeIgnored(c) ==
  /\ Asks(c) /\ LockFree
  /\ NothingToReplay(c)
  /\ UNCHANGED <<hub, up, got, cursor, links>>

\* Mutant of TooOld: one event too many is taken for replayable.
TooOldByTwo(c) == cursor[c] + 2 < Head(buffer).seq

TooOld(c) == cursor[c] < Head(buffer).seq

ResumeRefused(c) ==
  /\ Asks(c) /\ LockFree
  /\ ~NothingToReplay(c) /\ TooOld(c)
  /\ lock' = c
  /\ endpoint' = [endpoint EXCEPT ![c] = Refusing]
  /\ UNCHANGED <<conns, subs, subscribers, buffer, cast, log, up, got, cursor, links>>

\* Mutant of ResyncSent: the early return leaves the lock taken.
ResyncKeepsLock(c) ==
  /\ At(c, "resync")
  /\ endpoint' = [endpoint EXCEPT ![c] = Idle]
  /\ UNCHANGED <<conns, subs, subscribers, buffer, lock, cast, log, clients>>

ResyncSent(c) ==
  /\ At(c, "resync")
  /\ endpoint' = [endpoint EXCEPT ![c] = Idle]
  /\ lock' = NoOne
  /\ UNCHANGED <<conns, subs, subscribers, buffer, cast, log, clients>>

Replaying(rest) == IF rest = {} THEN Idle ELSE [at |-> "replay", rest |-> rest]

ResumeReplays(c) ==
  /\ Asks(c) /\ LockFree
  /\ ~NothingToReplay(c) /\ ~TooOld(c)
  /\ LET missed == {e \in ToSet(buffer) : e.seq > cursor[c] /\ e.chan \in subs[c]}
     IN  endpoint' = [endpoint EXCEPT ![c] = Replaying({e.seq : e \in missed})]
  /\ UNCHANGED <<conns, subs, subscribers, buffer, lock, cast, log, up, got, cursor, links>>

-----------------------------------------------------------------------------
(* Sending an event: it reaches the client unless the connection is broken *)

Send(c, n) ==
  IF c \in conns /\ c \in up
  THEN got' = [got EXCEPT ![c] = @ \cup {n}] /\ cursor' = [cursor EXCEPT ![c] = n]
  ELSE UNCHANGED <<got, cursor>>

\* In the order of the buffer, which is that of the numbers.
ReplayNext(c) ==
  /\ At(c, "replay")
  /\ \E n \in endpoint[c].rest :
       /\ \A i \in endpoint[c].rest : n <= i
       /\ Send(c, n)
       /\ endpoint' = [endpoint EXCEPT ![c] = Replaying(@.rest \ {n})]
  /\ UNCHANGED <<conns, subs, subscribers, buffer, lock, cast, log, up, links, requests>>

\* Mutant of Kept: the buffer keeps one event too many.
KeptOneMore(events) ==
  IF Len(events) > BufferSize + 1 THEN Tail(events) ELSE events

\* deque(maxlen): the oldest event makes room for the new one.
Kept(events) == IF Len(events) > BufferSize THEN Tail(events) ELSE events

\* Number the message, keep it for resumes, and read who is subscribed.
Broadcast(ch) ==
  /\ LockFree /\ cast = NoCast
  /\ log' = Append(log, ch)
  /\ buffer' = Kept(Append(buffer, [seq |-> Len(log'), chan |-> ch]))
  /\ cast' = [seq |-> Len(log'), to |-> subscribers[ch]]
  /\ UNCHANGED <<conns, subs, subscribers, lock, endpoint, clients>>

CastSend(c) ==
  /\ cast # NoCast /\ c \in cast.to
  /\ Send(c, cast.seq)
  /\ cast' = [cast EXCEPT !.to = @ \ {c}]
  /\ UNCHANGED <<conns, subs, subscribers, buffer, lock, endpoint, log, up, links, requests>>

CastOver == cast # NoCast /\ cast.to = {} /\ cast' = NoCast

\* The process is started again: everything in memory is lost.
HubRestart ==
  /\ conns' = {} /\ up' = {} /\ lock' = NoOne /\ cast' = NoCast
  /\ subs' = [c \in Clients |-> {}] /\ got' = [c \in Clients |-> {}]
  /\ subscribers' = [ch \in Channels |-> {}]
  /\ buffer' = <<>> /\ log' = <<>>
  /\ endpoint' = [c \in Clients |-> Gone]
  /\ UNCHANGED <<cursor, links, requests>>

\* The steps of an endpoint that only wait for a send or for the lock.
Serve(c) == ResyncSent(c) \/ ReplayNext(c) \/ Disconnect(c)

\* To subscribe twice, or to unsubscribe from nothing, changes nothing.
Ask(c) ==
  \/ \E ch \in Channels \ subs[c] : Subscribe(c, ch)
  \/ \E ch \in subs[c] : Unsubscribe(c, ch)
  \/ ResumeIgnored(c) \/ ResumeRefused(c) \/ ResumeReplays(c)

EndpointStep == \E c \in Clients : Connect(c) \/ Drop(c) \/ Ask(c) \/ Serve(c)

\* The lists by client and by channel name the same subscriptions.
RostersAgree ==
  \A c \in Clients, ch \in Channels : c \in subscribers[ch] <=> ch \in subs[c]

\* The buffer holds the last BufferSize events.
BufferIsTail ==
  /\ Len(buffer) = IF seq < BufferSize THEN seq ELSE BufferSize
  /\ \A k \in 1 .. Len(buffer) :
       LET i == seq - Len(buffer) + k IN buffer[k] = [seq |-> i, chan |-> log[i]]

\* Only the endpoint that sends "resync required" holds the lock.
EndpointsAgree ==
  \A c \in Clients :
    /\ At(c, "replay") <=> endpoint[c].rest # {}
    /\ lock = c <=> At(c, "resync")
    /\ c \in conns <=> ~At(c, "gone")
    /\ At(c, "gone") => subs[c] = {}

\* Type invariant of the hub, with what its variables have to say of each other
\* (hub.py:80-106, 125-134, 157-166, 187-195).
HubTypeOK ==
  /\ log \in Seq(Channels) /\ buffer \in Seq([seq : Nat, chan : Channels])
  /\ conns \subseteq Clients /\ up \subseteq conns
  /\ subs \in [Clients -> SUBSET Channels] /\ subscribers \in [Channels -> SUBSET Clients]
  /\ endpoint \in [Clients -> [at : {"gone", "idle", "resync", "replay"}, rest : SUBSET (1 .. seq)]]
  /\ lock \in Clients \cup {NoOne}
  /\ cast = NoCast \/ (cast = [seq |-> seq, to |-> cast.to] /\ cast.to \subseteq conns)
  /\ got \in [Clients -> SUBSET Nat] /\ cursor \in [Clients -> Nat]
  /\ links \in 0 .. MaxLinks /\ requests \in 0 .. MaxRequests
  /\ RostersAgree /\ BufferIsTail /\ EndpointsAgree
====

------------------------ MODULE LiveMarketData_proofs ------------------------
(***************************************************************************)
(* Proofs about the hub and the live market data service for every set of  *)
(* clients, channels and symbols, every length of buffer and queue, any    *)
(* number of lives, and a clock that is set back any number of times.      *)
(***************************************************************************)
EXTENDS LiveMarketData, SequenceTheorems, TLAPS

-----------------------------------------------------------------------------
(* The hub keeps its types *)

LEMMA HubInitTyped == ASSUME HubInit PROVE HubTypeOK
BY BufferAssumption, NoOneAssumption, BoundsAssumption
   DEF HubInit, HubTypeOK, RostersAgree, BufferIsTail, EndpointsAgree, seq, At, Gone

\* What a resume finds in the buffer.
LEMMA Buffered ==
  ASSUME HubTypeOK
  PROVE  /\ ToSet(buffer) = {[seq |-> i, chan |-> log[i]] : i \in seq - Len(buffer) + 1 .. seq}
         /\ seq \in Nat /\ Len(buffer) \in 0 .. seq
<1>1. seq \in Nat /\ Len(buffer) \in 0 .. seq
  BY LenProperties, BufferAssumption DEF HubTypeOK, BufferIsTail, seq
<1>2. DOMAIN buffer = 1 .. Len(buffer)
  BY LenProperties DEF HubTypeOK
<1>3. ToSet(buffer) = {buffer[k] : k \in 1 .. Len(buffer)}
  BY <1>2 DEF ToSet
<1>4. \A k \in 1 .. Len(buffer) :
        buffer[k] = [seq |-> seq - Len(buffer) + k, chan |-> log[seq - Len(buffer) + k]]
  BY DEF HubTypeOK, BufferIsTail
<1>5. ASSUME NEW i \in seq - Len(buffer) + 1 .. seq
      PROVE  \E k \in 1 .. Len(buffer) : buffer[k] = [seq |-> i, chan |-> log[i]]
  <2>1. i - seq + Len(buffer) \in 1 .. Len(buffer) /\ seq - Len(buffer) + (i - seq + Len(buffer)) = i
    BY <1>1
  <2> QED BY <1>4, <2>1
<1>6. ASSUME NEW k \in 1 .. Len(buffer)
      PROVE  \E i \in seq - Len(buffer) + 1 .. seq : buffer[k] = [seq |-> i, chan |-> log[i]]
  <2>1. seq - Len(buffer) + k \in seq - Len(buffer) + 1 .. seq
    BY <1>1
  <2> QED BY <1>4, <2>1
<1> DEFINE event(i) == [seq |-> i, chan |-> log[i]]
           first == seq - Len(buffer) + 1
<1>7. /\ \A k \in 1 .. Len(buffer) : \E i \in first .. seq : buffer[k] = event(i)
      /\ \A i \in first .. seq : \E k \in 1 .. Len(buffer) : buffer[k] = event(i)
  BY <1>5, <1>6
<1> HIDE DEF event, first
<1>8. ToSet(buffer) = {event(i) : i \in first .. seq}
  BY <1>3, <1>7, Zenon
<1> QED BY <1>1, <1>8 DEF event, first

\* The values of endpoint[c].
Endpoint == [at : {"gone", "idle", "resync", "replay"}, rest : SUBSET (1 .. seq)]

\* A replay with nothing left leaves the endpoint idle.
LEMMA ReplayingTyped ==
  ASSUME NEW rest \in SUBSET (1 .. seq)
  PROVE  /\ Replaying(rest) \in Endpoint
         /\ Replaying(rest).rest = rest
         /\ Replaying(rest).at = "replay" <=> rest # {}
         /\ Replaying(rest).at \notin {"gone", "resync"}
<1>1. CASE rest = {}
  BY <1>1 DEF Replaying, Idle, Endpoint
<1>2. CASE rest # {}
  BY <1>2 DEF Replaying, Endpoint
<1> QED BY <1>1, <1>2

\* Who comes, goes or asks changes neither the log nor the buffer.
LEMMA EndpointKeepsTypes ==
  ASSUME HubTypeOK, EndpointStep
  PROVE  HubTypeOK' /\ UNCHANGED <<log, buffer>>
<1>1. PICK c \in Clients : Connect(c) \/ Drop(c) \/ Ask(c) \/ Serve(c)
  BY DEF EndpointStep
<1>a. RostersAgree /\ BufferIsTail /\ EndpointsAgree /\ endpoint \in [Clients -> Endpoint]
  BY DEF HubTypeOK, Endpoint
<1>b. subs \in [Clients -> SUBSET Channels] /\ subscribers \in [Channels -> SUBSET Clients]
  BY DEF HubTypeOK
<1>c. got \in [Clients -> SUBSET Nat] /\ cursor \in [Clients -> Nat]
  BY DEF HubTypeOK
<1>d. cast = NoCast \/ (cast = [seq |-> seq, to |-> cast.to] /\ cast.to \subseteq conns)
  BY NoCastAssumption DEF HubTypeOK
<1> USE NoOneAssumption, BoundsAssumption, <1>a
    DEF At, LockFree, Idle, Gone, Refusing
<1>2. CASE Connect(c)
  <2>1. RostersAgree'
    BY <1>2, <1>b DEF Connect, RostersAgree, EndpointsAgree
  <2>2. EndpointsAgree'
    BY <1>2, <1>b DEF Connect, EndpointsAgree, Endpoint
  <2>3. BufferIsTail'
    BY <1>2 DEF Connect, BufferIsTail, seq
  <2> QED BY <1>2, <2>1, <2>2, <2>3, SMTT(30) DEF HubTypeOK, Connect, seq
<1>3. CASE Drop(c)
  BY <1>3 DEF Drop, hub, RostersAgree, EndpointsAgree, BufferIsTail, HubTypeOK, seq
<1>4. CASE Ask(c)
  <2>1. ASSUME NEW ch \in Channels, Subscribe(c, ch) PROVE HubTypeOK' /\ UNCHANGED <<log, buffer>>
    <3>1. RostersAgree'
      BY <2>1, <1>b DEF Subscribe, RostersAgree
    <3>2. EndpointsAgree' /\ BufferIsTail'
      BY <2>1, <1>b DEF Subscribe, EndpointsAgree, BufferIsTail, seq, Asks
    <3> QED BY <2>1, <3>1, <3>2, SMTT(30) DEF Subscribe, Asks, HubTypeOK, seq
  <2>2. ASSUME NEW ch \in Channels, Unsubscribe(c, ch) PROVE HubTypeOK' /\ UNCHANGED <<log, buffer>>
    <3>1. RostersAgree'
      BY <2>2, <1>b DEF Unsubscribe, RostersAgree
    <3>2. EndpointsAgree' /\ BufferIsTail'
      BY <2>2, <1>b DEF Unsubscribe, EndpointsAgree, BufferIsTail, seq, Asks
    <3> QED BY <2>2, <3>1, <3>2, SMTT(30) DEF Unsubscribe, Asks, HubTypeOK, seq
  <2>3. CASE ResumeIgnored(c)
    <3>1. UNCHANGED <<conns, subs, subscribers, buffer, lock, endpoint, cast, log, up, got, cursor, links>>
          /\ requests' = requests + 1 /\ requests < MaxRequests
      BY <2>3 DEF ResumeIgnored, Asks, hub
    <3>2. RostersAgree' /\ BufferIsTail' /\ EndpointsAgree'
      BY <3>1 DEF RostersAgree, BufferIsTail, EndpointsAgree, seq
    <3> HIDE <1>a
    <3> QED BY <3>1, <3>2, SMTT(30) DEF HubTypeOK, seq
  <2>4. CASE ResumeRefused(c)
    <3>1. RostersAgree' /\ BufferIsTail'
      BY <2>4 DEF ResumeRefused, RostersAgree, BufferIsTail, seq
    <3>2. EndpointsAgree'
      BY <2>4 DEF ResumeRefused, Asks, EndpointsAgree, Endpoint
    <3>3. lock' \in Clients \cup {NoOne} /\ endpoint' \in [Clients -> Endpoint']
      BY <2>4 DEF ResumeRefused, Endpoint, seq
    <3> QED BY <2>4, <3>1, <3>2, <3>3, SMTT(30) DEF ResumeRefused, Asks, HubTypeOK, seq, Endpoint
  <2>5. CASE ResumeReplays(c)
    <3>1. PICK rest \in SUBSET (1 .. seq) : endpoint' = [endpoint EXCEPT ![c] = Replaying(rest)]
      <4> DEFINE missed == {e \in ToSet(buffer) : e.seq > cursor[c] /\ e.chan \in subs[c]}
      <4>1. {e.seq : e \in missed} \subseteq 1 .. seq
        <5>1. \A e \in ToSet(buffer) : e.seq \in 1 .. seq
          BY Buffered
        <5> QED BY <5>1
      <4>2. endpoint' = [endpoint EXCEPT ![c] = Replaying({e.seq : e \in missed})]
        BY <2>5 DEF ResumeReplays
      <4> HIDE DEF missed
      <4> QED BY <4>1, <4>2
    <3>2. UNCHANGED <<conns, subs, subscribers, buffer, lock, cast, log, up, got, cursor, links>>
      BY <2>5 DEF ResumeReplays
    <3>3. endpoint[c].at = "idle" /\ requests' = requests + 1 /\ requests < MaxRequests
      BY <2>5 DEF ResumeReplays, Asks
    <3>4. RostersAgree' /\ BufferIsTail'
      BY <3>2 DEF RostersAgree, BufferIsTail, seq
    <3>5. endpoint' \in [Clients -> Endpoint]
      BY <3>1, ReplayingTyped
    <3>6. EndpointsAgree'
      BY <3>1, <3>2, <3>3, ReplayingTyped DEF EndpointsAgree
    <3> HIDE <1>a
    <3> QED BY <3>2, <3>3, <3>4, <3>5, <3>6, SMTT(30) DEF HubTypeOK, Endpoint, seq
  <2> QED BY <1>4, <1>b, <2>1, <2>2, <2>3, <2>4, <2>5 DEF Ask
<1>5. CASE Serve(c)
  <2>1. CASE ResyncSent(c)
    <3>1. RostersAgree' /\ BufferIsTail'
      BY <2>1 DEF ResyncSent, RostersAgree, BufferIsTail, seq
    <3>2. EndpointsAgree' /\ endpoint' \in [Clients -> Endpoint']
      BY <2>1 DEF ResyncSent, EndpointsAgree, Endpoint, seq
    <3> QED BY <2>1, <3>1, <3>2 DEF ResyncSent, clients, HubTypeOK, seq, Endpoint
  <2>2. CASE ReplayNext(c)
    <3>1. PICK n \in endpoint[c].rest :
             Send(c, n) /\ endpoint' = [endpoint EXCEPT ![c] = Replaying(@.rest \ {n})]
      BY <2>2 DEF ReplayNext
    <3>2. RostersAgree' /\ BufferIsTail'
      BY <2>2 DEF ReplayNext, RostersAgree, BufferIsTail, seq
    <3>3. EndpointsAgree' /\ endpoint' \in [Clients -> Endpoint']
      BY <2>2, <3>1 DEF ReplayNext, EndpointsAgree, Replaying, Endpoint, seq
    <3>4. n \in Nat
      BY <3>1 DEF Endpoint
    <3>5. got' \in [Clients -> SUBSET Nat] /\ cursor' \in [Clients -> Nat]
      <4>1. got[c] \cup {n} \in SUBSET Nat
        BY <3>4, <1>c
      <4> QED BY <3>1, <3>4, <4>1, <1>c DEF Send
    <3> QED BY <2>2, <3>2, <3>3, <3>5 DEF ReplayNext, HubTypeOK, seq, Endpoint
  <2>3. CASE Disconnect(c)
    <3>1. EndpointsAgree' /\ endpoint' \in [Clients -> Endpoint']
      BY <2>3, <1>b DEF Disconnect, EndpointsAgree, Endpoint, seq
    <3>2. RostersAgree'
      BY <2>3, <1>b DEF Disconnect, RostersAgree
    <3>3. BufferIsTail'
      BY <2>3 DEF Disconnect, BufferIsTail, seq
    <3>4. cast' = NoCast \/ (cast' = [seq |-> seq', to |-> cast'.to] /\ cast'.to \subseteq conns')
      <4>1. CASE cast = NoCast
        BY <2>3, <4>1 DEF Disconnect
      <4>2. CASE cast # NoCast
        <5>1. cast' = [cast EXCEPT !.to = @ \ {c}] /\ conns' = conns \ {c} /\ seq' = seq
          BY <2>3, <4>2 DEF Disconnect, seq
        <5>2. cast = [seq |-> seq, to |-> cast.to] /\ cast.to \subseteq conns
          BY <1>d, <4>2
        <5>3. cast' = [seq |-> seq, to |-> cast.to \ {c}]
          BY <5>1, <5>2, SMTT(30)
        <5> QED BY <5>1, <5>2, <5>3
      <4> QED BY <4>1, <4>2
    <3>5. subscribers' \in [Channels -> SUBSET Clients]
      BY <2>3, <1>b DEF Disconnect
    <3> QED BY <2>3, <3>1, <3>2, <3>3, <3>4, <3>5, SMTT(30) DEF Disconnect, clients, HubTypeOK, Endpoint, seq
  <2> QED BY <1>5, <2>1, <2>2, <2>3 DEF Serve
<1> QED BY <1>1, <1>2, <1>3, <1>4, <1>5

\* Only a goodbye can shorten a broadcast, and none can end or start one.
LEMMA EndpointKeepsCast ==
  ASSUME HubTypeOK, EndpointStep
  PROVE  cast' = NoCast <=> cast = NoCast
<1>1. PICK c \in Clients : Connect(c) \/ Drop(c) \/ Ask(c) \/ Serve(c)
  BY DEF EndpointStep
<1>2. CASE Disconnect(c)
  <2>1. CASE cast = NoCast
    BY <1>2, <2>1 DEF Disconnect
  <2>2. CASE cast # NoCast
    <3>1. cast' = [cast EXCEPT !.to = @ \ {c}] /\ cast = [seq |-> seq, to |-> cast.to]
      BY <1>2, <2>2 DEF Disconnect, HubTypeOK
    <3>2. cast' = [seq |-> seq, to |-> cast.to \ {c}] /\ cast.to \ {c} \in SUBSET Clients /\ seq \in Nat
      <4>1. cast' = [seq |-> seq, to |-> cast.to \ {c}]
        BY <3>1
      <4>2. seq \in Nat
        BY Buffered
      <4>3. cast.to \subseteq Clients
        BY <2>2 DEF HubTypeOK
      <4> QED BY <4>1, <4>2, <4>3
    <3> QED BY <3>2, <2>2, NoCastAssumption
  <2> QED BY <2>1, <2>2
<1>3. CASE ~Disconnect(c)
  <2>1. cast' = cast
    BY <1>1, <1>3 DEF Connect, Drop, Ask, Serve, Subscribe, Unsubscribe, ResumeIgnored, ResumeRefused,
                      ResumeReplays, ResyncSent, ReplayNext, hub
  <2> QED BY <2>1
<1> QED BY <1>2, <1>3

\* A broadcast keeps the last BufferSize events, in their order.
LEMMA BroadcastKeepsTypes ==
  ASSUME HubTypeOK, NEW ch \in Channels, Broadcast(ch)
  PROVE  HubTypeOK' /\ cast' # NoCast
<1> DEFINE e == [seq |-> seq + 1, chan |-> ch]
           more == Append(buffer, e)
<1>1. log' = Append(log, ch) /\ log \in Seq(Channels) /\ seq \in Nat
  BY Buffered DEF Broadcast, HubTypeOK
<1>2. log' \in Seq(Channels) /\ seq' = seq + 1 /\ log'[seq + 1] = ch /\ \A i \in 1 .. seq : log'[i] = log[i]
  BY <1>1, AppendProperties DEF seq
<1>3. buffer' = Kept(more) /\ cast' = [seq |-> seq', to |-> subscribers[ch]]
  BY <1>2 DEF Broadcast, seq
<1>4. UNCHANGED <<conns, subs, subscribers, lock, endpoint, up, got, cursor, links, requests>>
  BY DEF Broadcast, clients
<1>5. /\ buffer \in Seq([seq : Nat, chan : Channels]) /\ e \in [seq : Nat, chan : Channels]
      /\ Len(buffer) \in 0 .. seq
  BY <1>1, Buffered, SMTT(30) DEF HubTypeOK
<1>6. /\ more \in Seq([seq : Nat, chan : Channels]) /\ Len(more) = Len(buffer) + 1
      /\ more[Len(buffer) + 1] = e /\ \A k \in 1 .. Len(buffer) : more[k] = buffer[k]
  BY <1>5, AppendProperties
<1>7. \A k \in 1 .. Len(more) :
        LET i == seq + 1 - Len(more) + k IN i \in 1 .. seq + 1 /\ more[k] = [seq |-> i, chan |-> log'[i]]
  <2>1. \A k \in 1 .. Len(buffer) :
          LET i == seq - Len(buffer) + k IN i \in 1 .. seq /\ buffer[k] = [seq |-> i, chan |-> log'[i]]
    <3>1. \A k \in 1 .. Len(buffer) : seq - Len(buffer) + k \in 1 .. seq
      BY <1>5, <1>1
    <3>2. \A k \in 1 .. Len(buffer) : buffer[k] = [seq |-> seq - Len(buffer) + k, chan |-> log[seq - Len(buffer) + k]]
      BY DEF HubTypeOK, BufferIsTail
    <3> QED BY <3>1, <3>2, <1>2
  <2>2. SUFFICES ASSUME NEW k \in 1 .. Len(more)
                 PROVE  /\ seq + 1 - Len(more) + k \in 1 .. seq + 1
                        /\ more[k] = [seq |-> seq + 1 - Len(more) + k, chan |-> log'[seq + 1 - Len(more) + k]]
    OBVIOUS
  <2> HIDE DEF more
  <2> DEFINE i == seq + 1 - Len(more) + k
  <2>3. CASE k \in 1 .. Len(buffer)
    <3>1. i = seq - Len(buffer) + k
      BY <1>1, <1>5, <1>6
    <3>2. more[k] = buffer[k]
      BY <1>6, <2>3
    <3> HIDE DEF i
    <3>3. i \in 1 .. seq /\ buffer[k] = [seq |-> i, chan |-> log'[i]]
      BY <2>1, <2>3, <3>1
    <3>4. i \in 1 .. seq + 1
      BY <3>3, <1>1
    <3> QED BY <3>2, <3>3, <3>4 DEF i
  <2>4. CASE k = Len(buffer) + 1
    <3>1. i = seq + 1
      BY <1>1, <1>5, <1>6, <2>4
    <3>2. more[k] = e /\ seq + 1 \in 1 .. seq + 1
      BY <1>1, <1>6, <2>4
    <3>3. more[k] = [seq |-> seq + 1, chan |-> log'[seq + 1]]
      BY <3>2, <1>2
    <3> QED BY <3>1, <3>2, <3>3
  <2> QED BY <2>3, <2>4, <1>5, <1>6
<1>8. buffer' \in Seq([seq : Nat, chan : Channels]) /\ BufferIsTail'
  <2> HIDE DEF e, more
  <2>1. Len(buffer) = IF seq < BufferSize THEN seq ELSE BufferSize
    BY DEF HubTypeOK, BufferIsTail
  <2>2. CASE Len(more) > BufferSize
    <3>1. buffer' = Tail(more) /\ more # <<>>
      BY <1>3, <1>5, <1>6, <2>2, BufferAssumption, EmptySeq DEF Kept
    <3>2. /\ Tail(more) \in Seq([seq : Nat, chan : Channels]) /\ Len(Tail(more)) = Len(more) - 1
          /\ \A k \in 1 .. Len(more) - 1 : Tail(more)[k] = more[k + 1]
      BY <1>6, <3>1, HeadTailProperties
    <3>3. Len(buffer') = BufferSize /\ seq + 1 >= BufferSize /\ Len(more) = BufferSize + 1
      BY <3>1, <3>2, <1>1, <1>6, <2>1, <2>2, BufferAssumption
    <3>4. ASSUME NEW k \in 1 .. BufferSize
          PROVE  buffer'[k] = [seq |-> seq' - BufferSize + k, chan |-> log'[seq' - BufferSize + k]]
      <4>1. k + 1 \in 1 .. Len(more) /\ seq + 1 - Len(more) + (k + 1) = seq' - BufferSize + k
        BY <3>3, <1>1, <1>2, BufferAssumption
      <4>2. buffer'[k] = more[k + 1]
        BY <3>1, <3>2, <3>3, BufferAssumption
      <4> QED BY <1>7, <4>1, <4>2
    <3>5. Len(buffer') = IF seq' < BufferSize THEN seq' ELSE BufferSize
      BY <3>3, <1>1, <1>2, BufferAssumption
    <3> QED BY <3>1, <3>2, <3>3, <3>4, <3>5 DEF BufferIsTail
  <2>3. CASE ~(Len(more) > BufferSize)
    <3>1. buffer' = more /\ Len(more) = seq' /\ seq' <= BufferSize
      BY <1>1, <1>2, <1>3, <1>6, <2>1, <2>3, BufferAssumption DEF Kept
    <3>2. Len(buffer') = IF seq' < BufferSize THEN seq' ELSE BufferSize
      BY <3>1, <1>1, <1>2, BufferAssumption
    <3>3. seq + 1 - Len(more) = seq' - Len(buffer')
      BY <3>1, <1>1, <1>2
    <3> QED BY <3>1, <3>2, <3>3, <1>6, <1>7 DEF BufferIsTail
  <2> QED BY <2>2, <2>3
<1>9. RostersAgree' /\ EndpointsAgree'
  BY <1>4 DEF HubTypeOK, RostersAgree, EndpointsAgree, At
<1>10. endpoint' \in [Clients -> [at : {"gone", "idle", "resync", "replay"}, rest : SUBSET (1 .. seq')]]
  <2>1. SUBSET (1 .. seq) \subseteq SUBSET (1 .. seq')
    BY <1>1, <1>2
  <2>2. endpoint \in [Clients -> [at : {"gone", "idle", "resync", "replay"}, rest : SUBSET (1 .. seq)]]
    BY DEF HubTypeOK
  <2> QED BY <2>1, <2>2, <1>4
<1>11. subscribers[ch] \subseteq conns
  <2>1. \A c \in Clients : c \in subscribers[ch] => subs[c] # {}
    BY DEF HubTypeOK, RostersAgree
  <2>2. \A c \in Clients : subs[c] # {} => c \in conns
    BY DEF HubTypeOK, EndpointsAgree
  <2> QED BY <2>1, <2>2 DEF HubTypeOK
<1>12. cast' = [seq |-> seq', to |-> cast'.to] /\ cast'.to \subseteq conns'
  BY <1>3, <1>4, <1>11
<1>13. cast' # NoCast
  <2>1. cast' \in [seq : Nat, to : SUBSET Clients]
    BY <1>1, <1>2, <1>3, <1>11 DEF HubTypeOK
  <2> QED BY <2>1, NoCastAssumption
<1> HIDE DEF e, more
<1>14. HubTypeOK'
  BY <1>2, <1>4, <1>8, <1>9, <1>10, <1>12 DEF HubTypeOK
<1> QED BY <1>13, <1>14

\* A send delivers, to a client that is connected, the event it was given.
LEMMA CastKeepsTypes ==
  ASSUME HubTypeOK, cast # NoCast,
         \/ \E c \in Clients : CastSend(c)
         \/ CastOver /\ UNCHANGED <<conns, subs, subscribers, buffer, lock, endpoint, log, clients>>
  PROVE  HubTypeOK' /\ (cast' = NoCast <=> CastOver)
<1>1. seq \in Nat /\ cast = [seq |-> seq, to |-> cast.to] /\ cast.to \subseteq conns /\ conns \subseteq Clients
  BY Buffered DEF HubTypeOK
<1>2. RostersAgree /\ BufferIsTail /\ EndpointsAgree
  BY DEF HubTypeOK
<1>3. CASE \E c \in Clients : CastSend(c)
  <2>1. PICK c \in Clients : CastSend(c)
    BY <1>3
  <2>2. cast' = [cast EXCEPT !.to = @ \ {c}] /\ Send(c, cast.seq)
        /\ UNCHANGED <<conns, subs, subscribers, buffer, lock, endpoint, log, up, links, requests>>
    BY <2>1 DEF CastSend
  <2>3. cast' = [seq |-> seq, to |-> cast.to \ {c}]
    BY <1>1, <2>2
  <2>4. cast' # NoCast /\ seq' = seq /\ cast'.to \subseteq conns'
    <3>1. cast' \in [seq : Nat, to : SUBSET Clients]
      BY <1>1, <2>3
    <3> QED BY <1>1, <2>2, <2>3, <3>1, NoCastAssumption DEF seq
  <2>5. got' \in [Clients -> SUBSET Nat] /\ cursor' \in [Clients -> Nat]
    <3>1. cast.seq \in Nat /\ got \in [Clients -> SUBSET Nat] /\ cursor \in [Clients -> Nat]
      BY <1>1 DEF HubTypeOK
    <3>2. got[c] \cup {cast.seq} \in SUBSET Nat
      BY <3>1
    <3> QED BY <2>2, <3>1, <3>2 DEF Send
  <2>6. RostersAgree' /\ BufferIsTail' /\ EndpointsAgree'
    BY <1>2, <2>2 DEF RostersAgree, BufferIsTail, EndpointsAgree, At, seq
  <2>7. HubTypeOK'
    BY <2>2, <2>3, <2>4, <2>5, <2>6 DEF HubTypeOK, seq
  <2> QED BY <2>4, <2>7 DEF CastOver
<1>4. CASE CastOver /\ UNCHANGED <<conns, subs, subscribers, buffer, lock, endpoint, log, clients>>
  BY <1>2, <1>4 DEF CastOver, clients, HubTypeOK, RostersAgree, BufferIsTail, EndpointsAgree, At, seq
<1> QED BY <1>3, <1>4

\* Nothing of the hub outlives the process.
LEMMA RestartKeepsTypes ==
  ASSUME HubTypeOK, HubRestart
  PROVE  HubTypeOK' /\ cast' = NoCast
BY BufferAssumption, NoOneAssumption
   DEF HubRestart, HubTypeOK, RostersAgree, BufferIsTail, EndpointsAgree, seq, At, Gone

LEMMA HubUnchanged ==
  ASSUME HubTypeOK, UNCHANGED hubVars
  PROVE  HubTypeOK' /\ cast' = cast
BY DEF hubVars, hub, clients, HubTypeOK, RostersAgree, BufferIsTail, EndpointsAgree, seq, At

-----------------------------------------------------------------------------
(* The service keeps its types *)

LEMMA MinuteTyped ==
  ASSUME NEW t \in 0 .. MaxTime
  PROVE  Minute(t) \in Minutes /\ Minute(t) \in Nat
BY MinuteAssumption, FeedAssumption DEF Minute, Minutes

LEMMA MinutesInTime == Minutes \subseteq 0 .. MaxTime
BY MinuteAssumption, FeedAssumption DEF Minutes

LEMMA NowhereTyped == Waiting \in [at : {"wait"}, tick : Ticks] /\ Symbols[1] \in Sym
<1>1. Len(Symbols) \in Nat \ {0} /\ 1 \in 1 .. Len(Symbols)
  BY SymbolsAssumption, EmptySeq
<1>2. Symbols[1] \in Sym
  BY <1>1, SymbolsAssumption, ElementOfSeq
<1> QED BY <1>2, FeedAssumption DEF Waiting, Nowhere, Ticks

\* What the service's own variables may hold.
ServiceTypeOK ==
  /\ clock \in 0 .. MaxTime /\ queue \in Seq(Ticks) /\ Len(queue) <= QueueSize
  /\ loop \in [at : {"wait", "ticker", "tickerSent", "candle", "candleSent"}, tick : Ticks]
  /\ lastTicker \in [Sym -> 0 .. MaxTime]
  /\ builder \in [Sym -> Minutes \cup {NoMinute}]
  /\ store \in [Sym -> SUBSET Minutes] /\ unsaved \in [Sym -> SUBSET Minutes]

LEMMA BuildTyped ==
  ASSUME ServiceTypeOK, NEW t \in Ticks, Build(t)
  PROVE  /\ loop' \in [at : {"wait", "candle"}, tick : Ticks]
         /\ builder' \in [Sym -> Minutes \cup {NoMinute}]
         /\ store' \in [Sym -> SUBSET Minutes] /\ unsaved' \in [Sym -> SUBSET Minutes]
<1>1. t.sym \in Sym /\ t.time \in 0 .. MaxTime /\ Minute(t.time) \in Minutes
  BY MinuteTyped DEF Ticks
<1>2. builder \in [Sym -> Minutes \cup {NoMinute}] /\ store \in [Sym -> SUBSET Minutes] /\ unsaved \in [Sym -> SUBSET Minutes]
  BY DEF ServiceTypeOK
<1>3. CASE Closes(t)
  <2>1. builder[t.sym] \in Minutes
    BY <1>1, <1>2, <1>3 DEF Closes
  <2>2. builder[t.sym] \in 0 .. MaxTime
    BY <2>1, MinutesInTime
  <2>3. loop' = [at |-> "candle", tick |-> [t EXCEPT !.time = builder[t.sym]]]
    BY <1>3 DEF Build
  <2>4. [t EXCEPT !.time = builder[t.sym]] \in Ticks
    BY <2>2 DEF Ticks
  <2>5. builder' = [builder EXCEPT ![t.sym] = Minute(t.time)]
    BY <1>3 DEF Build
  <2>6. /\ store' = [store EXCEPT ![t.sym] = @ \cup {builder[t.sym]}] \/ store' = store
        /\ unsaved' = [unsaved EXCEPT ![t.sym] = @ \cup {builder[t.sym]}] \/ unsaved' = unsaved
    BY <1>3 DEF Build
  <2> QED BY <1>1, <1>2, <2>1, <2>3, <2>4, <2>5, <2>6
<1>4. CASE ~Closes(t)
  <2>1. loop' = Waiting /\ store' = store /\ unsaved' = unsaved
    BY <1>4 DEF Build
  <2>2. builder' = [builder EXCEPT ![t.sym] = IF @ = NoMinute THEN Minute(t.time) ELSE @]
    BY <1>4 DEF Build
  <2>3. loop' \in [at : {"wait", "candle"}, tick : Ticks]
    BY <2>1, NowhereTyped
  <2> QED BY <1>1, <1>2, <2>1, <2>2, <2>3
<1> QED BY <1>3, <1>4

LEMMA InitTyped == ASSUME Init PROVE TypeOK
<1>1. HubTypeOK /\ cast = NoCast
  BY HubInitTyped DEF Init, HubInit
<1>2. queue \in Seq(Ticks) /\ Len(queue) = 0
  BY EmptySeq DEF Init
<1>3. loop \in [at : {"wait"}, tick : Ticks]
  BY NowhereTyped DEF Init
<1> QED BY <1>1, <1>2, <1>3, FeedAssumption DEF Init, TypeOK

\* One round of the feed: what does not fit in the queue is dropped.
LEMMA EmitTyped ==
  ASSUME ServiceTypeOK, NEW t \in 0 .. MaxTime, Emit(t)
  PROVE  queue' \in Seq(Ticks) /\ Len(queue') <= QueueSize
<1> DEFINE new == [k \in 1 .. Len(Symbols) |-> [sym |-> Symbols[k], time |-> t]]
           more == queue \o new
           n == IF Len(more) > QueueSize THEN QueueSize ELSE Len(more)
<1>1. Symbols \in Seq(Sym) /\ Len(Symbols) \in Nat
  BY SymbolsAssumption, LenProperties
<1>2. new \in Seq(Ticks)
  <2>1. \A k \in 1 .. Len(Symbols) : [sym |-> Symbols[k], time |-> t] \in Ticks
    BY <1>1, ElementOfSeq DEF Ticks
  <2>2. new \in [1 .. Len(Symbols) -> Ticks]
    BY <2>1
  <2> HIDE DEF new
  <2> QED BY <1>1, <2>2, SeqDef
<1> HIDE DEF new
<1>3. more \in Seq(Ticks) /\ Len(more) \in Nat
  BY <1>2, ConcatProperties, LenProperties DEF ServiceTypeOK
<1>4. queue' = SubSeq(more, 1, n)
  BY DEF Emit, new
<1> HIDE DEF more
<1>5. n \in Nat /\ n <= Len(more) /\ n <= QueueSize
  BY <1>3, FeedAssumption
<1> HIDE DEF n
<1>6. \A i \in 1 .. n : more[i] \in Ticks
  BY <1>3, <1>5, ElementOfSeq
<1> QED BY <1>4, <1>5, <1>6, SubSeqProperties

\* The loop is inside a broadcast exactly while the hub is sending one.
InStep == cast # NoCast <=> loop.at \in {"tickerSent", "candleSent"}

LEMMA TypeParts == TypeOK <=> HubTypeOK /\ ServiceTypeOK /\ InStep
BY DEF TypeOK, ServiceTypeOK, InStep

LEMMA NextTyped == ASSUME TypeOK, [Next]_vars PROVE TypeOK'
<1>1. HubTypeOK /\ ServiceTypeOK /\ InStep
  BY TypeParts
<1>2. loop.at \in {"wait", "ticker", "tickerSent", "candle", "candleSent"} /\ loop.tick \in Ticks
  BY <1>1 DEF ServiceTypeOK
<1>3. Ticker(loop.tick.sym) \in Channels /\ Candle(loop.tick.sym) \in Channels
  BY <1>2, ChannelAssumption DEF Ticks
<1> SUFFICES HubTypeOK' /\ ServiceTypeOK' /\ InStep'
  BY DEF TypeOK, ServiceTypeOK, InStep
<1>4. ASSUME NEW t \in 0 .. MaxTime, Emit(t) PROVE HubTypeOK' /\ ServiceTypeOK' /\ InStep'
  <2>1. UNCHANGED <<hubVars, loopVars>> /\ clock' = t
    BY <1>4 DEF Emit
  <2>2. HubTypeOK' /\ cast' = cast
    BY <1>1, <2>1, HubUnchanged
  <2>3. queue' \in Seq(Ticks) /\ Len(queue') <= QueueSize
    BY <1>1, <1>4, EmitTyped
  <2>4. UNCHANGED <<loop, lastTicker, builder, store, unsaved>>
    BY <2>1 DEF loopVars
  <2> QED BY <1>1, <2>1, <2>2, <2>3, <2>4 DEF ServiceTypeOK, InStep
<1>5. CASE Restart
  <2>1. HubTypeOK' /\ cast' = NoCast
    BY <1>1, <1>5, RestartKeepsTypes DEF Restart
  <2>2. /\ queue' = <<>> /\ loop' = Waiting /\ UNCHANGED <<clock, store, unsaved>>
        /\ lastTicker' = [s \in Sym |-> 0] /\ builder' = [s \in Sym |-> NoMinute]
    BY <1>5 DEF Restart
  <2>3. loop'.at = "wait" /\ loop' \in [at : {"wait"}, tick : Ticks]
    BY <2>2, NowhereTyped
  <2>4. queue' \in Seq(Ticks) /\ Len(queue') <= QueueSize
    BY <2>2, EmptySeq, FeedAssumption
  <2> QED BY <1>1, <2>1, <2>2, <2>3, <2>4, FeedAssumption DEF ServiceTypeOK, InStep
<1>6. CASE TakeTick
  <2>1. UNCHANGED <<hubVars, clock>> /\ loop.at = "wait" /\ queue # <<>> /\ queue' = Tail(queue)
    BY <1>6 DEF TakeTick
  <2>2. HubTypeOK' /\ cast' = cast
    BY <1>1, <2>1, HubUnchanged
  <2>3. Head(queue) \in Ticks /\ queue' \in Seq(Ticks) /\ Len(queue') <= QueueSize
    <3>1. queue \in Seq(Ticks) /\ Len(queue) <= QueueSize /\ Len(queue) \in Nat
      BY <1>1, LenProperties DEF ServiceTypeOK
    <3>2. Head(queue) \in Ticks /\ Tail(queue) \in Seq(Ticks) /\ Len(Tail(queue)) = Len(queue) - 1
      BY <2>1, <3>1, HeadTailProperties
    <3> QED BY <2>1, <3>1, <3>2, FeedAssumption
  <2>4. CASE Build(Head(queue)) /\ UNCHANGED lastTicker
    <3>1. /\ loop' \in [at : {"wait", "candle"}, tick : Ticks]
          /\ builder' \in [Sym -> Minutes \cup {NoMinute}]
          /\ store' \in [Sym -> SUBSET Minutes] /\ unsaved' \in [Sym -> SUBSET Minutes]
      BY <1>1, <2>3, <2>4, BuildTyped
    <3> QED BY <1>1, <2>1, <2>2, <2>3, <2>4, <3>1 DEF ServiceTypeOK, InStep
  <2>5. CASE /\ lastTicker' = [lastTicker EXCEPT ![Head(queue).sym] = Head(queue).time]
             /\ loop' = [at |-> "ticker", tick |-> Head(queue)]
             /\ UNCHANGED <<builder, store, unsaved>>
    <3>1. Head(queue).sym \in Sym /\ Head(queue).time \in 0 .. MaxTime
      BY <2>3 DEF Ticks
    <3>2. lastTicker' \in [Sym -> 0 .. MaxTime]
      BY <1>1, <2>5, <3>1 DEF ServiceTypeOK
    <3> QED BY <1>1, <2>1, <2>2, <2>3, <2>5, <3>2 DEF ServiceTypeOK, InStep
  <2> QED BY <1>6, <2>4, <2>5 DEF TakeTick
<1>7. CASE BroadcastTicker
  <2>1. HubTypeOK' /\ cast' # NoCast
    BY <1>1, <1>3, <1>7, BroadcastKeepsTypes DEF BroadcastTicker
  <2>2. loop' = [loop EXCEPT !.at = "tickerSent"] /\ UNCHANGED <<clock, queue, lastTicker, builder, store, unsaved>>
    BY <1>7 DEF BroadcastTicker, feedVars
  <2> QED BY <1>1, <2>1, <2>2 DEF ServiceTypeOK, InStep
<1>8. CASE BroadcastCandle
  <2>1. HubTypeOK' /\ cast' # NoCast
    BY <1>1, <1>3, <1>8, BroadcastKeepsTypes DEF BroadcastCandle
  <2>2. loop' = [loop EXCEPT !.at = "candleSent"] /\ UNCHANGED <<clock, queue, lastTicker, builder, store, unsaved>>
    BY <1>8 DEF BroadcastCandle, feedVars
  <2> QED BY <1>1, <2>1, <2>2 DEF ServiceTypeOK, InStep
<1>9. CASE TickerSent
  <2>1. CastOver /\ Build(loop.tick) /\ UNCHANGED <<conns, subs, subscribers, buffer, lock, endpoint, log, clients>>
    BY <1>9 DEF TickerSent
  <2>2. HubTypeOK' /\ cast' = NoCast
    BY <1>1, <2>1, CastKeepsTypes DEF CastOver
  <2>3. /\ loop' \in [at : {"wait", "candle"}, tick : Ticks]
        /\ builder' \in [Sym -> Minutes \cup {NoMinute}]
        /\ store' \in [Sym -> SUBSET Minutes] /\ unsaved' \in [Sym -> SUBSET Minutes]
    BY <1>1, <1>2, <2>1, BuildTyped
  <2>4. UNCHANGED <<clock, queue, lastTicker>>
    BY <1>9 DEF TickerSent, feedVars
  <2> QED BY <1>1, <2>2, <2>3, <2>4 DEF ServiceTypeOK, InStep
<1>10. CASE CandleSent
  <2>1. CastOver /\ loop' = Waiting /\ UNCHANGED <<conns, subs, subscribers, buffer, lock, endpoint, log, clients>>
    BY <1>10 DEF CandleSent
  <2>2. HubTypeOK' /\ cast' = NoCast
    BY <1>1, <2>1, CastKeepsTypes DEF CastOver
  <2>3. UNCHANGED <<clock, queue, lastTicker, builder, store, unsaved>>
    BY <1>10 DEF CandleSent, feedVars
  <2> QED BY <1>1, <2>1, <2>2, <2>3, NowhereTyped DEF ServiceTypeOK, InStep
<1>11. CASE \E c \in Clients : SendCast(c)
  <2>1. PICK c \in Clients : CastSend(c) /\ UNCHANGED <<feedVars, loopVars>>
    BY <1>11 DEF SendCast
  <2>2. cast # NoCast /\ \E d \in Clients : CastSend(d)
    BY <2>1 DEF CastSend
  <2>3. HubTypeOK' /\ (cast' = NoCast <=> CastOver)
    BY <1>1, <2>2, CastKeepsTypes
  <2>4. ~CastOver
    <3>1. c \in cast.to
      BY <2>1 DEF CastSend
    <3> QED BY <3>1 DEF CastOver
  <2> QED BY <1>1, <2>1, <2>2, <2>3, <2>4 DEF ServiceTypeOK, InStep, feedVars, loopVars
<1>12. CASE Endpoints
  <2>1. HubTypeOK' /\ (cast' = NoCast <=> cast = NoCast)
    BY <1>1, <1>12, EndpointKeepsTypes, EndpointKeepsCast DEF Endpoints
  <2> QED BY <1>1, <1>12, <2>1 DEF Endpoints, ServiceTypeOK, InStep, feedVars, loopVars
<1>13. CASE UNCHANGED vars
  <2>1. UNCHANGED hubVars /\ UNCHANGED <<feedVars, loopVars>>
    BY <1>13 DEF vars
  <2>2. HubTypeOK' /\ cast' = cast
    BY <1>1, <2>1, HubUnchanged
  <2> QED BY <1>1, <2>1, <2>2 DEF ServiceTypeOK, InStep, feedVars, loopVars
<1> QED BY <1>4, <1>5, <1>6, <1>7, <1>8, <1>9, <1>10, <1>11, <1>12, <1>13 DEF Next

\* Every reachable state of the service is well typed, and the hub's tables
\* agree with each other (hub.py:80-106, 125-134, 157-166, 187-195).
THEOREM TypeCorrect == Spec => []TypeOK
<1>1. Init => TypeOK
  BY InitTyped
<1>2. TypeOK /\ [Next]_vars => TypeOK'
  BY NextTyped
<1> QED BY <1>1, <1>2, PTL DEF Spec

-----------------------------------------------------------------------------
(* What is broadcast of the candles *)

\* Every candle broadcast is older than the minute being built; the one the
\* loop is about to broadcast lies between those broadcast and that minute.
AnnouncedInOrder ==
  /\ announced \in [Sym -> Seq(Minutes)]
  /\ AnnouncementsAreTrue
  /\ \A s \in Sym : \A k \in DOMAIN announced[s] :
       builder[s] # NoMinute /\ announced[s][k] < builder[s]
  /\ loop.at = "candle" =>
       LET s == loop.tick.sym IN
       /\ loop.tick.time \in store[s] \cup unsaved[s]
       /\ builder[s] # NoMinute /\ loop.tick.time < builder[s]
       /\ \A k \in DOMAIN announced[s] : announced[s][k] < loop.tick.time

\* Candles broadcast in this life lie between 1 and the length of the sequence.
LEMMA AnnouncedTyped ==
  ASSUME announced \in [Sym -> Seq(Minutes)], NEW s \in Sym
  PROVE  /\ Len(announced[s]) \in Nat /\ DOMAIN announced[s] = 1 .. Len(announced[s])
         /\ \A k \in DOMAIN announced[s] : announced[s][k] \in 0 .. MaxTime
<1>1. announced[s] \in Seq(Minutes)
  OBVIOUS
<1>2. Len(announced[s]) \in Nat /\ DOMAIN announced[s] = 1 .. Len(announced[s])
  BY <1>1, LenProperties
<1>3. \A k \in DOMAIN announced[s] : announced[s][k] \in Minutes
  BY <1>1, <1>2, ElementOfSeq
<1> QED BY <1>2, <1>3, MinutesInTime

LEMMA BuildAnnounces ==
  ASSUME ServiceTypeOK, AnnouncedInOrder, NEW t \in Ticks, Build(t), UNCHANGED announced
  PROVE  AnnouncedInOrder'
<1>1. t.sym \in Sym /\ t.time \in 0 .. MaxTime /\ Minute(t.time) \in 0 .. MaxTime /\ Minute(t.time) \in Minutes
  BY MinuteTyped, MinutesInTime DEF Ticks
<1>2. builder \in [Sym -> Minutes \cup {NoMinute}] /\ store \in [Sym -> SUBSET Minutes] /\ unsaved \in [Sym -> SUBSET Minutes]
  BY DEF ServiceTypeOK
<1>3. /\ announced \in [Sym -> Seq(Minutes)]
      /\ \A s \in Sym : \A k \in DOMAIN announced[s] :
           /\ builder[s] # NoMinute /\ announced[s][k] < builder[s]
           /\ announced[s][k] \in store[s] \cup unsaved[s]
           /\ \A n \in 1 .. k - 1 : announced[s][n] < announced[s][k]
  BY DEF AnnouncedInOrder, AnnouncementsAreTrue
<1>4. \A s \in Sym : \A k \in DOMAIN announced[s] : announced[s][k] \in 0 .. MaxTime
  BY <1>3, AnnouncedTyped
<1>5. ASSUME \A s \in Sym : store[s] \subseteq store'[s] /\ unsaved[s] \subseteq unsaved'[s]
      PROVE  AnnouncementsAreTrue'
  BY <1>3, <1>5 DEF AnnouncementsAreTrue
<1>6. CASE Closes(t)
  <2>1. builder[t.sym] # NoMinute /\ Minute(t.time) > builder[t.sym] /\ builder[t.sym] \in 0 .. MaxTime
    BY <1>1, <1>2, <1>6, MinutesInTime DEF Closes
  <2>2. loop' = [at |-> "candle", tick |-> [t EXCEPT !.time = builder[t.sym]]]
    BY <1>6 DEF Build
  <2>3. loop'.tick.sym = t.sym /\ loop'.tick.time = builder[t.sym]
    BY <2>2 DEF Ticks
  <2>4. builder' = [builder EXCEPT ![t.sym] = Minute(t.time)]
    BY <1>6 DEF Build
  <2>5. \/ store' = [store EXCEPT ![t.sym] = @ \cup {builder[t.sym]}] /\ unsaved' = unsaved
        \/ unsaved' = [unsaved EXCEPT ![t.sym] = @ \cup {builder[t.sym]}] /\ store' = store
    BY <1>6 DEF Build
  <2>6. AnnouncementsAreTrue'
    BY <1>1, <1>2, <1>5, <2>5
  <2>7. builder[t.sym] \in store'[t.sym] \cup unsaved'[t.sym]
    BY <1>1, <1>2, <2>5
  <2>8. builder'[t.sym] # NoMinute /\ builder[t.sym] < builder'[t.sym]
    BY <1>1, <1>2, <2>1, <2>4, MinuteAssumption
  <2>9. ASSUME NEW s \in Sym, NEW k \in DOMAIN announced[s]
        PROVE  builder'[s] # NoMinute /\ announced[s][k] < builder'[s]
    <3>1. builder[s] # NoMinute /\ announced[s][k] < builder[s] /\ announced[s][k] \in 0 .. MaxTime
      BY <1>3, <1>4
    <3>2. CASE s = t.sym
      BY <3>1, <3>2, <2>1, <2>4, <2>8, <1>1, <1>2
    <3>3. CASE s # t.sym
      BY <3>1, <3>3, <2>4, <1>2
    <3> QED BY <3>2, <3>3
  <2>10. \A k \in DOMAIN announced[t.sym] : announced[t.sym][k] < builder[t.sym]
    BY <1>1, <1>3
  <2> QED BY <1>3, <2>3, <2>6, <2>7, <2>8, <2>9, <2>10 DEF AnnouncedInOrder
<1>7. CASE ~Closes(t)
  <2>1. loop' = Waiting /\ store' = store /\ unsaved' = unsaved
    BY <1>7 DEF Build
  <2>2. builder' = [builder EXCEPT ![t.sym] = IF @ = NoMinute THEN Minute(t.time) ELSE @]
    BY <1>7 DEF Build
  <2>3. \A s \in Sym : builder[s] # NoMinute => builder'[s] = builder[s]
    BY <1>1, <1>2, <2>2
  <2>4. loop'.at # "candle" /\ AnnouncementsAreTrue'
    BY <1>5, <2>1 DEF Waiting
  <2> QED BY <1>3, <2>3, <2>4 DEF AnnouncedInOrder
<1> QED BY <1>6, <1>7

\* A candle is broadcast after every earlier one and before the next.
LEMMA BroadcastAnnounces ==
  ASSUME ServiceTypeOK, AnnouncedInOrder, BroadcastCandle
  PROVE  AnnouncedInOrder'
<1> DEFINE s == loop.tick.sym
           m == loop.tick.time
<1>1. loop.at = "candle" /\ loop'.at = "candleSent" /\ s \in Sym /\ m \in 0 .. MaxTime
  BY DEF ServiceTypeOK, BroadcastCandle, Ticks
<1>2. UNCHANGED <<builder, store, unsaved>> /\ announced' = [announced EXCEPT ![s] = Append(@, m)]
  BY DEF BroadcastCandle
<1>3. /\ m \in store[s] \cup unsaved[s] /\ builder[s] # NoMinute /\ m < builder[s]
      /\ \A k \in DOMAIN announced[s] : announced[s][k] < m
  BY <1>1 DEF AnnouncedInOrder
<1>4. announced \in [Sym -> Seq(Minutes)]
  BY DEF AnnouncedInOrder
<1>5. m \in Minutes
  BY <1>1, <1>3 DEF ServiceTypeOK
<1> HIDE DEF s, m
<1>6. /\ announced[s] \in Seq(Minutes) /\ Len(announced[s]) \in Nat
      /\ DOMAIN announced[s] = 1 .. Len(announced[s])
  BY <1>1, <1>4, AnnouncedTyped
<1>7. /\ announced'[s] \in Seq(Minutes) /\ announced'[s] = Append(announced[s], m)
      /\ Len(announced'[s]) = Len(announced[s]) + 1
      /\ \A k \in DOMAIN announced[s] : announced'[s][k] = announced[s][k]
      /\ announced'[s][Len(announced[s]) + 1] = m
  BY <1>1, <1>2, <1>4, <1>5, <1>6, AppendProperties
<1>8. DOMAIN announced'[s] = 1 .. Len(announced[s]) + 1
  BY <1>7, LenProperties
<1>9. announced' \in [Sym -> Seq(Minutes)]
  BY <1>1, <1>2, <1>4, <1>7
<1>10. ASSUME NEW r \in Sym, NEW k \in DOMAIN announced'[r]
       PROVE  /\ announced'[r][k] \in store[r] \cup unsaved[r]
              /\ \A n \in 1 .. k - 1 : announced'[r][n] < announced'[r][k]
              /\ builder[r] # NoMinute /\ announced'[r][k] < builder[r]
  <2>1. \A j \in DOMAIN announced[r] :
          /\ announced[r][j] \in store[r] \cup unsaved[r]
          /\ \A n \in 1 .. j - 1 : announced[r][n] < announced[r][j]
          /\ builder[r] # NoMinute /\ announced[r][j] < builder[r]
    BY DEF AnnouncedInOrder, AnnouncementsAreTrue
  <2>2. CASE r # s
    <3>1. announced'[r] = announced[r]
      BY <1>2, <1>4, <2>2
    <3> QED BY <2>1, <3>1
  <2>3. CASE r = s /\ k \in DOMAIN announced[s]
    <3>1. \A n \in 1 .. k - 1 : n \in DOMAIN announced[s]
      BY <2>3, <1>6
    <3> QED BY <2>1, <2>3, <3>1, <1>7
  <2>4. CASE r = s /\ k = Len(announced[s]) + 1
    <3>1. \A n \in 1 .. k - 1 : n \in DOMAIN announced[s]
      BY <2>4, <1>6
    <3>2. announced'[r][k] = m
      BY <2>4, <1>7
    <3>3. \A n \in 1 .. k - 1 : announced'[r][n] < m
      BY <2>4, <3>1, <1>3, <1>7
    <3> QED BY <2>4, <3>2, <3>3, <1>3
  <2> QED BY <2>2, <2>3, <2>4, <1>6, <1>8
<1> QED BY <1>1, <1>2, <1>9, <1>10 DEF AnnouncedInOrder, AnnouncementsAreTrue

LEMMA NextAnnounces ==
  ASSUME TypeOK, AnnouncedInOrder, [Next]_vars
  PROVE  AnnouncedInOrder'
<1>1. ServiceTypeOK /\ loop.tick \in Ticks
  BY TypeParts DEF ServiceTypeOK
<1>2. ASSUME UNCHANGED <<announced, builder, store, unsaved>>, loop'.at = "candle" => loop' = loop
      PROVE  AnnouncedInOrder'
  BY <1>2 DEF AnnouncedInOrder, AnnouncementsAreTrue
<1>3. CASE UNCHANGED loopVars
  BY <1>2, <1>3 DEF loopVars
<1>4. CASE Restart
  <2>1. announced' = [s \in Sym |-> <<>>] /\ loop'.at # "candle"
    BY <1>4 DEF Restart, Waiting
  <2>2. <<>> \in Seq(Minutes) /\ DOMAIN <<>> = {}
    BY EmptySeq
  <2> QED BY <2>1, <2>2 DEF AnnouncedInOrder, AnnouncementsAreTrue
<1>5. CASE TakeTick
  <2>1. UNCHANGED announced /\ queue # <<>>
    BY <1>5 DEF TakeTick
  <2>2. Head(queue) \in Ticks
    BY <1>1, <2>1, HeadTailProperties DEF ServiceTypeOK
  <2>3. CASE Build(Head(queue))
    BY <1>1, <2>1, <2>2, <2>3, BuildAnnounces
  <2>4. CASE loop' = [at |-> "ticker", tick |-> Head(queue)] /\ UNCHANGED <<builder, store, unsaved>>
    BY <1>2, <2>1, <2>4
  <2> QED BY <1>5, <2>3, <2>4 DEF TakeTick
<1>6. CASE BroadcastTicker
  <2>1. UNCHANGED <<announced, builder, store, unsaved>> /\ loop' = [loop EXCEPT !.at = "tickerSent"]
    BY <1>6 DEF BroadcastTicker
  <2>2. loop'.at = "tickerSent"
    BY <1>1, <2>1 DEF ServiceTypeOK
  <2> QED BY <1>2, <2>1, <2>2
<1>7. CASE BroadcastCandle
  BY <1>1, <1>7, BroadcastAnnounces
<1>8. CASE TickerSent
  BY <1>1, <1>8, BuildAnnounces DEF TickerSent
<1>9. CASE CandleSent
  BY <1>2, <1>9 DEF CandleSent, Waiting
<1> QED BY <1>3, <1>4, <1>5, <1>6, <1>7, <1>8, <1>9 DEF Next, Emit, SendCast, Endpoints, vars

\* The candles of a symbol are broadcast in increasing order, each once, and
\* each is in the candle store unless its append raised, whatever the clock
\* does (candle_builder.py:86-97, live_marketdata_service.py:256-270).
THEOREM CandlesAnnouncedOnce == Spec => []AnnouncementsAreTrue
<1>1. Init => AnnouncedInOrder
  <2>1. <<>> \in Seq(Minutes) /\ DOMAIN <<>> = {}
    BY EmptySeq
  <2> QED BY <2>1 DEF Init, AnnouncedInOrder, AnnouncementsAreTrue, Waiting
<1>2. TypeOK /\ AnnouncedInOrder /\ [Next]_vars => AnnouncedInOrder'
  BY NextAnnounces
<1>3. AnnouncedInOrder => AnnouncementsAreTrue
  BY DEF AnnouncedInOrder
<1> QED BY <1>1, <1>2, <1>3, TypeCorrect, PTL DEF Spec

-----------------------------------------------------------------------------
(* The hub implements EventStream.  What the stream calls joined and owed is *)
(* read off the roster, the replays and the broadcast of connected clients.  *)

Joined == [c \in Clients |-> IF c \in up THEN subs[c] ELSE {}]
Owed   == [c \in Clients |-> Pending(c)]

\* A step that moves nothing a client can see is a stutter of the stream.
LEMMA Stutters ==
  ASSUME UNCHANGED <<log, up, got, cursor>>,
         \A c \in Clients : c \in up => subs'[c] = subs[c] /\ Pending(c)' = Pending(c)
  PROVE  UNCHANGED Stream!streamVars
<1>1. \A c \in Clients : c \notin up => Pending(c)' = Pending(c)
  BY DEF Pending
<1>2. Owed' = Owed
  BY <1>1 DEF Owed
<1>3. Joined' = Joined
  BY DEF Joined
<1> QED BY <1>2, <1>3 DEF Stream!streamVars, Joined, Owed

LEMMA StreamInit == Init => Stream!Init
<1> SUFFICES ASSUME Init PROVE Stream!Init
  OBVIOUS
<1>1. log = <<>> /\ up = {} /\ got = [c \in Clients |-> {}] /\ cursor = [c \in Clients |-> 0]
  BY DEF Init, HubInit
<1>2. Joined = [c \in Clients |-> {}] /\ Owed = [c \in Clients |-> {}]
  BY <1>1 DEF Joined, Owed, Pending
<1> QED BY <1>1, <1>2 DEF Stream!Init, Stream!Nothing, Joined, Owed

\* A client that connects is owed nothing and follows nothing yet.
LEMMA ConnectLinks ==
  ASSUME HubTypeOK, NEW c \in Clients, Connect(c)
  PROVE  Stream!Link(c)
<1>1. /\ up' = up \cup {c} /\ subs' = [subs EXCEPT ![c] = {}] /\ endpoint' = [endpoint EXCEPT ![c] = Idle]
      /\ UNCHANGED <<cast, log, got, cursor>> /\ endpoint[c].at = "gone"
  BY DEF Connect, At
<1>2. c \notin conns /\ c \notin up
  BY <1>1 DEF HubTypeOK, EndpointsAgree, At
<1>3. subs \in [Clients -> SUBSET Channels] /\ endpoint \in [Clients -> Endpoint]
  BY DEF HubTypeOK, Endpoint
<1>4. cast # NoCast => c \notin cast.to
  BY <1>2 DEF HubTypeOK
<1>5. Joined' = Joined
  BY <1>1, <1>2, <1>3 DEF Joined
<1>6. Owed' = Owed
  <2>1. \A d \in Clients : Pending(d)' = Pending(d)
    BY <1>1, <1>2, <1>3, <1>4 DEF Pending, Idle
  <2> QED BY <2>1 DEF Owed
<1> QED BY <1>1, <1>2, <1>5, <1>6 DEF Stream!Link, Joined, Owed

LEMMA DropCuts ==
  ASSUME HubTypeOK, NEW c \in Clients, Drop(c)
  PROVE  Stream!Cut(c)
<1>1. /\ c \in up /\ up' = up \ {c} /\ got' = [got EXCEPT ![c] = {}]
      /\ UNCHANGED <<subs, endpoint, cast, log, cursor>>
  BY DEF Drop, hub
<1>2. Joined' = [Joined EXCEPT ![c] = {}]
  BY <1>1 DEF Joined
<1>3. Owed' = [Owed EXCEPT ![c] = {}]
  <2>1. \A d \in Clients : Pending(d)' = IF d = c THEN {} ELSE Pending(d)
    BY <1>1 DEF Pending
  <2> QED BY <2>1 DEF Owed
<1> QED BY <1>1, <1>2, <1>3 DEF Stream!Cut, Joined, Owed

LEMMA SubscribeJoins ==
  ASSUME HubTypeOK, NEW c \in Clients, NEW ch \in Channels, Subscribe(c, ch)
  PROVE  Stream!Join(c, ch)
<1>1. /\ c \in up /\ subs' = [subs EXCEPT ![c] = @ \cup {ch}]
      /\ UNCHANGED <<up, endpoint, cast, log, got, cursor>>
  BY DEF Subscribe, Asks
<1>2. Joined' = [Joined EXCEPT ![c] = @ \cup {ch}]
  BY <1>1 DEF Joined, HubTypeOK
<1>3. Owed' = Owed
  BY <1>1 DEF Owed, Pending
<1> QED BY <1>1, <1>2, <1>3 DEF Stream!Join, Joined, Owed

LEMMA UnsubscribeLeaves ==
  ASSUME HubTypeOK, NEW c \in Clients, NEW ch \in Channels, Unsubscribe(c, ch)
  PROVE  Stream!Leave(c, ch)
<1>1. /\ c \in up /\ subs' = [subs EXCEPT ![c] = @ \ {ch}]
      /\ UNCHANGED <<up, endpoint, cast, log, got, cursor>>
  BY DEF Unsubscribe, Asks
<1>2. Joined' = [Joined EXCEPT ![c] = @ \ {ch}]
  BY <1>1 DEF Joined, HubTypeOK
<1>3. Owed' = Owed
  BY <1>1 DEF Owed, Pending
<1> QED BY <1>1, <1>2, <1>3 DEF Stream!Leave, Joined, Owed

\* An accepted resume promises every event after the cursor: none of them has
\* left the buffer, for the first it holds is not later than the next one due.
LEMMA ResumePromises ==
  ASSUME HubTypeOK, NEW c \in Clients, ResumeReplays(c)
  PROVE  Stream!Promise(c)
<1> DEFINE first == seq - Len(buffer) + 1
           missed == {e \in ToSet(buffer) : e.seq > cursor[c] /\ e.chan \in subs[c]}
           due == {i \in cursor[c] + 1 .. Len(log) : log[i] \in subs[c]}
<1>1. UNCHANGED <<subs, cast, log, up, got, cursor>> /\ c \in up /\ endpoint[c].at = "idle"
  BY DEF ResumeReplays, Asks, At
<1>2. endpoint' = [endpoint EXCEPT ![c] = Replaying({e.seq : e \in missed})]
  BY DEF ResumeReplays
<1>3. /\ seq \in Nat /\ Len(buffer) \in 0 .. seq /\ cursor[c] \in Nat /\ seq = Len(log)
      /\ ToSet(buffer) = {[seq |-> i, chan |-> log[i]] : i \in first .. seq}
  BY Buffered DEF HubTypeOK, seq
<1>4. Len(buffer) > 0 /\ first <= cursor[c]
  <2>1. buffer # <<>> /\ ~TooOld(c)
    BY DEF ResumeReplays, NothingToReplay
  <2>2. Len(buffer) \in Nat \ {0}
    BY <2>1, EmptySeq DEF HubTypeOK
  <2>3. buffer[1] = [seq |-> seq - Len(buffer) + 1, chan |-> log[seq - Len(buffer) + 1]]
    <3>1. 1 \in 1 .. Len(buffer)
      BY <2>2
    <3> QED BY <3>1 DEF HubTypeOK, BufferIsTail
  <2>4. Head(buffer) = buffer[1]
    <3>1. SubSeq(buffer, 1, Len(buffer)) = buffer /\ buffer \in Seq([seq : Nat, chan : Channels])
      BY SubSeqFull DEF HubTypeOK
    <3>2. 1 \in 1 .. Len(buffer) /\ Len(buffer) \in 1 .. Len(buffer)
      BY <2>2
    <3> QED BY <3>1, <3>2, HeadTailOfSubSeq
  <2>5. Head(buffer).seq = first
    BY <2>3, <2>4
  <2> QED BY <1>3, <2>1, <2>2, <2>5 DEF TooOld
<1>5. {e.seq : e \in missed} = due
  <2>1. ASSUME NEW e \in missed PROVE e.seq \in due
    <3>1. PICK i \in first .. seq : e = [seq |-> i, chan |-> log[i]]
      BY <1>3
    <3>2. e.seq = i /\ e.chan = log[i] /\ i > cursor[c] /\ log[i] \in subs[c]
      BY <3>1
    <3>3. i \in cursor[c] + 1 .. Len(log)
      BY <1>3, <3>2
    <3> QED BY <3>2, <3>3
  <2>2. ASSUME NEW i \in due PROVE \E e \in missed : e.seq = i
    <3>1. i \in first .. seq /\ i > cursor[c] /\ log[i] \in subs[c]
      BY <1>3, <1>4
    <3>2. [seq |-> i, chan |-> log[i]] \in ToSet(buffer)
      BY <1>3, <3>1
    <3> QED BY <3>1, <3>2
  <2> HIDE DEF missed, due
  <2> QED BY <2>1, <2>2
<1> HIDE DEF missed, due, first
<1>6. endpoint' = [endpoint EXCEPT ![c] = Replaying(due)] /\ due \in SUBSET (1 .. seq)
  <2>1. due \subseteq 1 .. seq
    BY <1>3 DEF due
  <2> QED BY <1>2, <1>5, <2>1
<1>7. endpoint[c].rest = {} /\ endpoint \in [Clients -> Endpoint]
  BY <1>1 DEF HubTypeOK, EndpointsAgree, At, Endpoint
<1>8. endpoint'[c].rest = due /\ \A d \in Clients \ {c} : endpoint'[d] = endpoint[d]
  BY <1>6, <1>7, ReplayingTyped
<1>9. Owed' = [Owed EXCEPT ![c] = @ \cup due]
  <2>1. \A d \in Clients \ {c} : Pending(d)' = Pending(d)
    BY <1>1, <1>8 DEF Pending
  <2>2. Pending(c)' = Pending(c) \cup due
    BY <1>1, <1>7, <1>8 DEF Pending
  <2> QED BY <2>1, <2>2 DEF Owed
<1>10. Joined' = Joined /\ Joined[c] = subs[c]
  BY <1>1 DEF Joined
<1>11. due = {i \in cursor[c] + 1 .. Len(log) : log[i] \in Joined[c]}
  BY <1>10 DEF due
<1> QED BY <1>1, <1>9, <1>10, <1>11 DEF Stream!Promise, Joined, Owed

\* A replayed event reaches the client, or the connection is broken.
LEMMA ReplayDelivers ==
  ASSUME HubTypeOK, NEW c \in Clients, ReplayNext(c)
  PROVE  (\E i \in Owed[c] : Stream!Deliver(c, i)) \/ UNCHANGED Stream!streamVars
<1>1. /\ UNCHANGED <<conns, subs, cast, log, up>>
  BY DEF ReplayNext
<1>2. PICK n \in endpoint[c].rest :
         Send(c, n) /\ endpoint' = [endpoint EXCEPT ![c] = Replaying(@.rest \ {n})]
  BY DEF ReplayNext
<1>3. endpoint \in [Clients -> Endpoint] /\ up \subseteq conns
  BY DEF HubTypeOK, Endpoint
<1>4. /\ endpoint'[c].rest = endpoint[c].rest \ {n}
      /\ \A d \in Clients \ {c} : endpoint'[d] = endpoint[d]
  <2>1. endpoint[c].rest \ {n} \in SUBSET (1 .. seq)
    BY <1>3 DEF Endpoint
  <2> QED BY <1>2, <1>3, <2>1, ReplayingTyped
<1>5. \A d \in Clients \ {c} : Pending(d)' = Pending(d)
  BY <1>1, <1>4 DEF Pending
<1>6. CASE c \in up
  <2>1. got' = [got EXCEPT ![c] = @ \cup {n}] /\ cursor' = [cursor EXCEPT ![c] = n]
    BY <1>2, <1>3, <1>6 DEF Send
  <2>2. n \in Owed[c] /\ Joined' = Joined
    BY <1>1, <1>6 DEF Owed, Pending, Joined
  <2>3. Pending(c)' = Pending(c) \/ Pending(c)' = Pending(c) \ {n}
    <3> DEFINE casting == IF cast # NoCast /\ c \in cast.to THEN {cast.seq} ELSE {}
    <3>1. Pending(c) = endpoint[c].rest \cup casting
      BY <1>6 DEF Pending
    <3>2. Pending(c)' = (endpoint[c].rest \ {n}) \cup casting
      BY <1>1, <1>4, <1>6 DEF Pending
    <3>3. casting = {} \/ casting = {n} \/ n \notin casting
      OBVIOUS
    <3> HIDE DEF casting
    <3> QED BY <3>1, <3>2, <3>3
  <2>4. Owed' = Owed \/ Owed' = [Owed EXCEPT ![c] = @ \ {n}]
    BY <1>5, <2>3 DEF Owed
  <2>5. Stream!Deliver(c, n)
    BY <1>1, <1>6, <2>1, <2>2, <2>4 DEF Stream!Deliver, Owed, Joined
  <2> QED BY <2>2, <2>5
<1>7. CASE c \notin up
  <2>1. UNCHANGED <<got, cursor>>
    BY <1>2, <1>7 DEF Send
  <2> QED BY <1>1, <1>5, <1>7, <2>1, Stutters
<1> QED BY <1>6, <1>7

LEMMA CastDelivers ==
  ASSUME HubTypeOK, NEW c \in Clients, CastSend(c)
  PROVE  (\E i \in Owed[c] : Stream!Deliver(c, i)) \/ UNCHANGED Stream!streamVars
<1> DEFINE n == cast.seq
<1>1. /\ UNCHANGED <<conns, subs, endpoint, log, up>> /\ cast # NoCast /\ c \in cast.to
      /\ Send(c, n) /\ cast' = [cast EXCEPT !.to = @ \ {c}]
  BY DEF CastSend
<1>2. up \subseteq conns /\ cast = [seq |-> n, to |-> cast.to] /\ cast.to \subseteq Clients /\ n \in Nat
  BY <1>1, Buffered DEF HubTypeOK
<1>3. cast' = [seq |-> n, to |-> cast.to \ {c}] /\ cast' # NoCast
  <2>1. cast' = [seq |-> n, to |-> cast.to \ {c}]
    BY <1>1, <1>2
  <2>2. cast.to \ {c} \in SUBSET Clients
    BY <1>2
  <2>3. cast' \in [seq : Nat, to : SUBSET Clients]
    BY <1>2, <2>1, <2>2
  <2> QED BY <2>1, <2>3, NoCastAssumption
<1>4. cast'.seq = n /\ cast'.to = cast.to \ {c}
  BY <1>3
<1> HIDE DEF n
<1>5. \A d \in Clients \ {c} : Pending(d)' = Pending(d)
  BY <1>1, <1>3, <1>4 DEF Pending, n
<1>6. CASE c \in up
  <2>1. got' = [got EXCEPT ![c] = @ \cup {n}] /\ cursor' = [cursor EXCEPT ![c] = n]
    BY <1>1, <1>2, <1>6 DEF Send
  <2>2. Pending(c) = endpoint[c].rest \cup {n} /\ Pending(c)' = endpoint[c].rest
    BY <1>1, <1>3, <1>4, <1>6 DEF Pending, n
  <2>3. n \in Owed[c] /\ Joined' = Joined
    BY <1>1, <2>2 DEF Owed, Joined
  <2>4. Owed' = Owed \/ Owed' = [Owed EXCEPT ![c] = @ \ {n}]
    <3>1. Pending(c)' = Pending(c) \/ Pending(c)' = Pending(c) \ {n}
      BY <2>2
    <3> QED BY <1>5, <3>1 DEF Owed
  <2>5. Stream!Deliver(c, n)
    BY <1>1, <1>6, <2>1, <2>3, <2>4 DEF Stream!Deliver, Owed, Joined
  <2> QED BY <2>3, <2>5
<1>7. CASE c \notin up
  <2>1. UNCHANGED <<got, cursor>>
    BY <1>1, <1>7 DEF Send
  <2> QED BY <1>1, <1>5, <1>7, <2>1, Stutters
<1> QED BY <1>6, <1>7

\* The subscribers read with the number are the clients that follow the channel.
LEMMA BroadcastPublishes ==
  ASSUME HubTypeOK, NEW ch \in Channels, Broadcast(ch)
  PROVE  Stream!Publish(ch)
<1>1. /\ log' = Append(log, ch) /\ cast' = [seq |-> Len(log'), to |-> subscribers[ch]] /\ cast = NoCast
      /\ UNCHANGED <<subs, endpoint, up, got, cursor>>
  BY DEF Broadcast, clients
<1>2. cast' # NoCast /\ cast'.seq = Len(log') /\ cast'.to = subscribers[ch]
  BY <1>1, BroadcastKeepsTypes
<1>3. \A c \in Clients : c \in subscribers[ch] <=> ch \in subs[c]
  BY DEF HubTypeOK, RostersAgree
<1>4. Joined' = Joined
  BY <1>1 DEF Joined
<1>5. Owed' = [c \in Clients |-> IF ch \in Joined[c] THEN Owed[c] \cup {Len(log')} ELSE Owed[c]]
  <2>1. ASSUME NEW c \in Clients
        PROVE  Pending(c)' = IF ch \in Joined[c] THEN Pending(c) \cup {Len(log')} ELSE Pending(c)
    <3>1. CASE c \in up
      <4>1. Pending(c) = endpoint[c].rest
        BY <1>1, <3>1 DEF Pending
      <4>2. Pending(c)' = endpoint[c].rest \cup (IF c \in subscribers[ch] THEN {Len(log')} ELSE {})
        BY <1>1, <1>2, <3>1 DEF Pending
      <4>3. Joined[c] = subs[c]
        BY <3>1 DEF Joined
      <4> QED BY <1>3, <4>1, <4>2, <4>3
    <3>2. CASE c \notin up
      BY <1>1, <3>2 DEF Pending, Joined
    <3> QED BY <3>1, <3>2
  <2> QED BY <2>1 DEF Owed
<1> QED BY <1>1, <1>4, <1>5 DEF Stream!Publish, Owed, Joined

LEMMA RestartResets ==
  ASSUME HubRestart
  PROVE  Stream!Reset
<1>1. /\ log' = <<>> /\ up' = {} /\ got' = [c \in Clients |-> {}] /\ UNCHANGED cursor
  BY DEF HubRestart
<1>2. Joined' = [c \in Clients |-> {}] /\ Owed' = [c \in Clients |-> {}]
  BY <1>1 DEF Joined, Owed, Pending
<1> QED BY <1>1, <1>2 DEF Stream!Reset, Stream!Nothing, Joined, Owed

\* What an endpoint does is a step of the stream for its client, or nothing.
LEMMA EndpointStreams ==
  ASSUME HubTypeOK, NEW c \in Clients, Connect(c) \/ Drop(c) \/ Ask(c) \/ Serve(c)
  PROVE  Stream!Next \/ UNCHANGED Stream!streamVars
<1>1. CASE Connect(c)
  BY <1>1, ConnectLinks DEF Stream!Next
<1>2. CASE Drop(c)
  BY <1>2, DropCuts DEF Stream!Next
<1>3. CASE \E ch \in Channels \ subs[c] : Subscribe(c, ch)
  BY <1>3, SubscribeJoins DEF Stream!Next
<1>4. CASE \E ch \in subs[c] : Unsubscribe(c, ch)
  <2>1. subs[c] \subseteq Channels
    BY DEF HubTypeOK
  <2> QED BY <1>4, <2>1, UnsubscribeLeaves DEF Stream!Next
<1>5. CASE ResumeReplays(c)
  BY <1>5, ResumePromises DEF Stream!Next
<1>6. CASE ReplayNext(c)
  <2>1. Owed[c] = Pending(c)
    BY DEF Owed
  <2> QED BY <1>6, <2>1, ReplayDelivers DEF Stream!Next, Owed
<1>7. CASE ResumeIgnored(c)
  <2>1. UNCHANGED <<subs, endpoint, cast, log, up, got, cursor>>
    BY <1>7 DEF ResumeIgnored, hub
  <2> QED BY <2>1, Stutters DEF Pending
<1>8. CASE ResumeRefused(c) \/ ResyncSent(c)
  <2>1. UNCHANGED <<subs, cast, log, up, got, cursor>>
    BY <1>8 DEF ResumeRefused, ResyncSent, clients
  <2>2. endpoint[c].rest = {}
    BY <1>8 DEF ResumeRefused, ResyncSent, Asks, At, HubTypeOK, EndpointsAgree
  <2>3. endpoint' = [endpoint EXCEPT ![c] = Refusing] \/ endpoint' = [endpoint EXCEPT ![c] = Idle]
    BY <1>8 DEF ResumeRefused, ResyncSent
  <2>4. \A d \in Clients : endpoint'[d].rest = endpoint[d].rest
    <3>1. endpoint \in [Clients -> Endpoint]
      BY DEF HubTypeOK, Endpoint
    <3>2. endpoint'[c].rest = {} /\ \A d \in Clients \ {c} : endpoint'[d] = endpoint[d]
      BY <2>3, <3>1 DEF Refusing, Idle
    <3> QED BY <2>2, <3>2
  <2>5. \A d \in Clients : Pending(d)' = Pending(d)
    BY <2>1, <2>4 DEF Pending
  <2> QED BY <2>1, <2>5, Stutters
<1>9. CASE Disconnect(c)
  <2>1. c \notin up /\ UNCHANGED <<log, up, got, cursor>>
    BY <1>9 DEF Disconnect, clients
  <2>2. \A d \in Clients \ {c} : subs'[d] = subs[d] /\ endpoint'[d] = endpoint[d]
    BY <1>9 DEF Disconnect, HubTypeOK
  <2>3. cast' = NoCast <=> cast = NoCast
    <3>1. EndpointStep
      BY <1>9 DEF EndpointStep, Serve
    <3> QED BY <3>1, EndpointKeepsCast
  <2>4. cast # NoCast => cast'.seq = cast.seq /\ cast'.to = cast.to \ {c}
    <3>1. SUFFICES ASSUME cast # NoCast PROVE cast'.seq = cast.seq /\ cast'.to = cast.to \ {c}
      OBVIOUS
    <3>2. cast' = [cast EXCEPT !.to = @ \ {c}]
      BY <1>9, <3>1 DEF Disconnect
    <3>3. cast = [seq |-> seq, to |-> cast.to]
      BY <3>1 DEF HubTypeOK
    <3> QED BY <3>2, <3>3
  <2>5. \A d \in Clients \ {c} : Pending(d)' = Pending(d)
    BY <2>1, <2>2, <2>3, <2>4 DEF Pending
  <2> QED BY <2>1, <2>2, <2>5, Stutters
<1> QED BY <1>1, <1>2, <1>3, <1>4, <1>5, <1>6, <1>7, <1>8, <1>9 DEF Ask, Serve

LEMMA NextStreams ==
  ASSUME TypeOK, [Next]_vars
  PROVE  [Stream!Next]_(Stream!streamVars)
<1>1. HubTypeOK /\ ServiceTypeOK /\ InStep
  BY TypeParts
<1>2. ASSUME UNCHANGED hubVars PROVE UNCHANGED Stream!streamVars
  <2>1. UNCHANGED <<subs, endpoint, cast, log, up, got, cursor>>
    BY <1>2 DEF hubVars, hub, clients
  <2> QED BY <2>1, Stutters DEF Pending
<1>3. CASE (\E t \in 0 .. MaxTime : Emit(t)) \/ TakeTick \/ UNCHANGED vars
  BY <1>2, <1>3 DEF Emit, TakeTick, vars
<1>4. CASE Restart
  BY <1>4, RestartResets DEF Restart, Stream!Next
<1>5. CASE BroadcastTicker \/ BroadcastCandle
  <2>1. Ticker(loop.tick.sym) \in Channels /\ Candle(loop.tick.sym) \in Channels
    BY <1>1, ChannelAssumption DEF ServiceTypeOK, Ticks
  <2>2. \E ch \in Channels : Broadcast(ch)
    BY <1>5, <2>1 DEF BroadcastTicker, BroadcastCandle
  <2> QED BY <1>1, <2>2, BroadcastPublishes DEF Stream!Next
<1>6. CASE TickerSent \/ CandleSent
  <2>1. UNCHANGED <<subs, endpoint, log, up, got, cursor>> /\ cast # NoCast /\ cast.to = {} /\ cast' = NoCast
    BY <1>6 DEF TickerSent, CandleSent, CastOver, clients
  <2> QED BY <2>1, Stutters DEF Pending
<1>7. CASE \E c \in Clients : SendCast(c)
  <2>1. PICK c \in Clients : CastSend(c)
    BY <1>7 DEF SendCast
  <2> QED BY <1>1, <2>1, CastDelivers DEF Stream!Next, Owed
<1>8. CASE Endpoints
  BY <1>1, <1>8, EndpointStreams DEF Endpoints, EndpointStep
<1> QED BY <1>3, <1>4, <1>5, <1>6, <1>7, <1>8 DEF Next

\* The live feed implements EventStream: whatever is owed to a client is
\* delivered by the hub's own steps or dropped with the connection, the buffer
\* turning over or not (hub.py:187-209, 238-269).
THEOREM HubKeepsPromises == Spec => PromisesKept
<1>1. Init => Stream!Init
  BY StreamInit
<1>2. TypeOK /\ [Next]_vars => [Stream!Next]_(Stream!streamVars)
  BY NextStreams
<1> QED BY <1>1, <1>2, TypeCorrect, PTL DEF Spec, PromisesKept, Stream!Spec

=============================================================================

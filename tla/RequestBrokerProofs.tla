------------------------ MODULE RequestBrokerProofs ------------------------
(***************************************************************************)
(* RequestBroker for every finite set of requests, every number of answers *)
(* and of mishaps: its variables keep their types, and the broker, its     *)
(* connections and the channel in the CLI implement AnswerContract.        *)
(*                                                                         *)
(* The contract needs to know where an answer is.  Routed says it: on one  *)
(* wire towards the CLI, in the CLI's native I/O, or reported; and what is *)
(* reported of it can no longer change.                                    *)
(*                                                                         *)
(* That the cards are honest needs to know the same of a request.  Placed  *)
(* says it: on the wire, in the queue, with the handler or on its card,    *)
(* one of them; and Honest, that news of its end follows it on that way.   *)
(***************************************************************************)
EXTENDS RequestBroker, FiniteSetTheorems, TLAPS

-----------------------------------------------------------------------------
(* Wires.  What the proofs say of a wire is whether it carries a message of a set, whether *)
(* it carries only one, and whether one of another set follows it.                          *)

Has(w, S) == \E i \in DOMAIN w : w[i] \in S
Once(w, S) == \A i, j \in DOMAIN w : w[i] \in S /\ w[j] \in S => i = j
\* Every message of S on the wire is followed by one of R.
Followed(w, S, R) == \A i \in DOMAIN w : w[i] \in S => \E j \in DOMAIN w : j > i /\ w[j] \in R

LEMMA Emptied == \A S, R : ~Has(<<>>, S) /\ Once(<<>>, S) /\ Followed(<<>>, S, R)
BY DEF Has, Once, Followed

LEMMA OneMessage ==
    ASSUME NEW m \in Message, NEW S
    PROVE  /\ <<m>> \in Seq(Message) /\ Once(<<m>>, S)
           /\ Has(<<m>>, S) <=> m \in S
BY DEF Has, Once

LEMMA FirstOf ==
    ASSUME NEW w \in Seq(Message), w # <<>>
    PROVE  /\ Head(w) \in Message /\ Tail(w) \in Seq(Message)
           /\ Len(w) \in Nat \ {0} /\ 1 \in DOMAIN w /\ w[1] = Head(w)
           /\ Len(Tail(w)) = Len(w) - 1
           /\ \A i \in DOMAIN Tail(w) : i + 1 \in DOMAIN w /\ Tail(w)[i] = w[i + 1]
           /\ \A i \in DOMAIN w : i # 1 => i - 1 \in DOMAIN Tail(w) /\ Tail(w)[i - 1] = w[i]
OBVIOUS

LEMMA TailHas ==
    ASSUME NEW w \in Seq(Message), w # <<>>, NEW S
    PROVE  /\ Has(w, S) <=> (Head(w) \in S \/ Has(Tail(w), S))
           /\ Once(w, S) => Once(Tail(w), S) /\ (Head(w) \in S => ~Has(Tail(w), S))
<1>1. DOMAIN w \subseteq Int /\ DOMAIN Tail(w) \subseteq Int
  BY FirstOf
<1>2. Has(w, S) => (Head(w) \in S \/ Has(Tail(w), S))
  BY FirstOf, <1>1 DEF Has
<1>3. (Head(w) \in S \/ Has(Tail(w), S)) => Has(w, S)
  BY FirstOf, <1>1 DEF Has
<1>4. Once(w, S) => Once(Tail(w), S)
  BY FirstOf, <1>1 DEF Once
<1>5. Once(w, S) /\ Head(w) \in S => ~Has(Tail(w), S)
  BY FirstOf, <1>1 DEF Once, Has
<1> QED BY <1>2, <1>3, <1>4, <1>5

LEMMA JoinHas ==
    ASSUME NEW w \in Seq(Message), NEW v \in Seq(Message), NEW S
    PROVE  /\ w \o v \in Seq(Message)
           /\ Has(w \o v, S) <=> (Has(w, S) \/ Has(v, S))
           /\ Once(w, S) /\ Once(v, S) /\ ~(Has(w, S) /\ Has(v, S)) => Once(w \o v, S)
<1>1. w \o v \in Seq(Message) /\ Len(w \o v) = Len(w) + Len(v) /\ Len(w) \in Nat /\ Len(v) \in Nat
  OBVIOUS
<1>2. /\ \A i \in 1..Len(w) : (w \o v)[i] = w[i]
      /\ \A i \in (Len(w) + 1)..(Len(w) + Len(v)) : (w \o v)[i] = v[i - Len(w)]
  OBVIOUS
<1>3. DOMAIN w = 1..Len(w) /\ DOMAIN v = 1..Len(v) /\ DOMAIN (w \o v) = 1..(Len(w) + Len(v))
  OBVIOUS
<1> DEFINE u == w \o v
<1>4. \A i \in DOMAIN u : \/ i \in DOMAIN w /\ u[i] = w[i]
                          \/ i - Len(w) \in DOMAIN v /\ u[i] = v[i - Len(w)]
  BY <1>1, <1>2, <1>3
<1>5. /\ \A i \in DOMAIN w : i \in DOMAIN u /\ u[i] = w[i]
      /\ \A i \in DOMAIN v : i + Len(w) \in DOMAIN u /\ u[i + Len(w)] = v[i]
  BY <1>1, <1>2, <1>3
<1>6. DOMAIN u \subseteq Int
  BY <1>1, <1>3
<1> HIDE DEF u
<1>7. Has(u, S) <=> (Has(w, S) \/ Has(v, S))
  BY <1>4, <1>5 DEF Has
<1>8. Once(w, S) /\ Once(v, S) /\ ~(Has(w, S) /\ Has(v, S)) => Once(u, S)
  BY <1>1, <1>4, <1>6 DEF Once, Has
<1> QED BY <1>1, <1>7, <1>8 DEF u

LEMMA AppendHas ==
    ASSUME NEW w \in Seq(Message), NEW m \in Message, NEW S
    PROVE  /\ Append(w, m) \in Seq(Message)
           /\ Has(Append(w, m), S) <=> (Has(w, S) \/ m \in S)
           /\ Once(w, S) /\ ~(Has(w, S) /\ m \in S) => Once(Append(w, m), S)
<1>1. Append(w, m) = w \o <<m>> /\ <<m>> \in Seq(Message)
  OBVIOUS
<1>2. /\ Once(<<m>>, S)
      /\ Has(<<m>>, S) <=> m \in S
  BY OneMessage
<1>3. /\ w \o <<m>> \in Seq(Message)
      /\ Has(w \o <<m>>, S) <=> (Has(w, S) \/ Has(<<m>>, S))
      /\ Once(w, S) /\ Once(<<m>>, S) /\ ~(Has(w, S) /\ Has(<<m>>, S)) => Once(w \o <<m>>, S)
  BY <1>1, JoinHas
<1> QED BY <1>1, <1>2, <1>3

LEMMA FollowedNone ==
    ASSUME NEW w, NEW S, NEW R, ~Has(w, S)
    PROVE  Followed(w, S, R)
BY DEF Has, Followed

LEMMA FollowedTail ==
    ASSUME NEW w \in Seq(Message), w # <<>>, NEW S, NEW R, Followed(w, S, R)
    PROVE  Followed(Tail(w), S, R) /\ (Head(w) \in S => Has(Tail(w), R))
<1>1. DOMAIN w \subseteq Int /\ DOMAIN Tail(w) \subseteq Int
  BY FirstOf
<1>2. Followed(Tail(w), S, R)
  <2> SUFFICES ASSUME NEW i \in DOMAIN Tail(w), Tail(w)[i] \in S
               PROVE  \E j \in DOMAIN Tail(w) : j > i /\ Tail(w)[j] \in R
    BY DEF Followed
  <2>1. i + 1 \in DOMAIN w /\ w[i + 1] \in S /\ i \in Nat \ {0}
    BY FirstOf
  <2>2. PICK j \in DOMAIN w : j > i + 1 /\ w[j] \in R
    BY <2>1 DEF Followed
  <2>3. j # 1 /\ j - 1 > i
    BY <2>1, <2>2, <1>1
  <2> QED BY <2>2, <2>3, FirstOf
<1>3. Head(w) \in S => Has(Tail(w), R)
  <2> SUFFICES ASSUME Head(w) \in S PROVE Has(Tail(w), R)
    OBVIOUS
  <2>1. PICK j \in DOMAIN w : j > 1 /\ w[j] \in R
    BY FirstOf DEF Followed
  <2>2. j # 1
    BY <2>1, <1>1
  <2> QED BY <2>1, <2>2, FirstOf DEF Has
<1> QED BY <1>2, <1>3

LEMMA FollowedJoin ==
    ASSUME NEW w \in Seq(Message), NEW v \in Seq(Message), NEW S, NEW R, ~Has(v, S)
    PROVE  /\ Followed(w, S, R) => Followed(w \o v, S, R)
           /\ Has(v, R) => Followed(w \o v, S, R)
<1>1. w \o v \in Seq(Message) /\ Len(w \o v) = Len(w) + Len(v) /\ Len(w) \in Nat /\ Len(v) \in Nat
  OBVIOUS
<1>2. /\ \A i \in 1..Len(w) : (w \o v)[i] = w[i]
      /\ \A i \in (Len(w) + 1)..(Len(w) + Len(v)) : (w \o v)[i] = v[i - Len(w)]
  OBVIOUS
<1>3. DOMAIN w = 1..Len(w) /\ DOMAIN v = 1..Len(v) /\ DOMAIN (w \o v) = 1..(Len(w) + Len(v))
  OBVIOUS
<1> DEFINE u == w \o v
<1>4. \A i \in DOMAIN u : u[i] \in S => i \in DOMAIN w /\ u[i] = w[i]
  <2> SUFFICES ASSUME NEW i \in DOMAIN u, u[i] \in S, i \notin DOMAIN w PROVE FALSE
    BY <1>2, <1>3
  <2>1. i - Len(w) \in DOMAIN v /\ u[i] = v[i - Len(w)]
    BY <1>1, <1>2, <1>3
  <2> QED BY <2>1 DEF Has
<1>5. /\ \A i \in DOMAIN w : i \in DOMAIN u /\ u[i] = w[i]
      /\ \A i \in DOMAIN v : i + Len(w) \in DOMAIN u /\ u[i + Len(w)] = v[i]
  BY <1>1, <1>2, <1>3
<1> HIDE DEF u
<1>6. Followed(w, S, R) => Followed(u, S, R)
  BY <1>4, <1>5 DEF Followed
<1>7. Has(v, R) => Followed(u, S, R)
  <2> SUFFICES ASSUME Has(v, R), NEW i \in DOMAIN u, u[i] \in S
               PROVE  \E j \in DOMAIN u : j > i /\ u[j] \in R
    BY DEF Followed
  <2>1. PICK j \in DOMAIN v : v[j] \in R
    BY DEF Has
  <2>2. i \in DOMAIN w
    BY <1>4
  <2>3. j + Len(w) > i
    BY <2>1, <2>2, <1>1, <1>3
  <2> QED BY <2>1, <2>3, <1>5
<1> QED BY <1>6, <1>7 DEF u

LEMMA FollowedAppend ==
    ASSUME NEW w \in Seq(Message), NEW m \in Message, NEW S, NEW R, m \notin S
    PROVE  /\ Followed(w, S, R) => Followed(Append(w, m), S, R)
           /\ m \in R => Followed(Append(w, m), S, R)
<1>1. Append(w, m) = w \o <<m>> /\ <<m>> \in Seq(Message)
  OBVIOUS
<1>2. ~Has(<<m>>, S) /\ (m \in R => Has(<<m>>, R))
  BY OneMessage
<1>3. /\ Followed(w, S, R) => Followed(w \o <<m>>, S, R)
      /\ Has(<<m>>, R) => Followed(w \o <<m>>, S, R)
  BY <1>1, <1>2, FollowedJoin
<1> QED BY <1>1, <1>2, <1>3

-----------------------------------------------------------------------------
(* Types.                                                                                   *)

LEMMA AnyKey == (CHOOSE k \in Keys : TRUE) \in Keys
BY BrokerAssumption

LEMMA Typed ==
    /\ \A k \in Keys : Publish(k) \in Message /\ Resolved(k) \in Message
    /\ \A t \in {"hello", "ready", "close"} : Plain(t) \in Message
    /\ NoCard \in Card /\ NoDelivery \in Delivery /\ Quiet \in Handler
BY AnyKey, BrokerAssumption DEF Publish, Resolved, Plain, Message, NoCard, Card, NoDelivery,
    Delivery, Quiet, Handler

LEMMA TypedResult ==
    ASSUME deliv \in [Deliveries -> Delivery], NEW d \in Deliveries,
           NEW st \in {"answered", "stale", "unknown"}
    PROVE  Result(d, st) \in Message
BY BrokerAssumption DEF Result, Message, Delivery, Deliveries

\* Answers and results name a delivery, and a result how it ended.
Malformed == {m \in Message : \/ m.t \in {"answer", "result"} /\ m.d = 0
                              \/ m.t = "result" /\ m.status = "none"}
WellFormed == \A s \in Conns : ~Has(up[s], Malformed) /\ ~Has(down[s], Malformed)

LEMMA SentType ==
    ASSUME up \in [Conns -> Seq(Message)], NEW s, NEW msgs \in Seq(Message)
    PROVE  Sent(s, msgs) \in [Conns -> Seq(Message)]
<1>1. \A w \in Seq(Message) : w \o msgs \in Seq(Message)
  BY JoinHas
<1> QED BY <1>1 DEF Sent

LEMMA SentHas ==
    ASSUME up \in [Conns -> Seq(Message)], NEW s, NEW msgs \in Seq(Message), NEW c \in Conns,
           NEW S
    PROVE  /\ Has(Sent(s, msgs)[c], S) <=> (Has(up[c], S) \/ (c = s /\ Alive(s) /\ Has(msgs, S)))
           /\ c # s \/ ~Alive(s) => Sent(s, msgs)[c] = up[c]
           /\ c = s /\ Alive(s) => Sent(s, msgs)[c] = up[c] \o msgs
<1>1. Sent(s, msgs)[c] = IF c = s /\ Alive(s) THEN up[c] \o msgs ELSE up[c]
  BY DEF Sent
<1>2. Has(up[c] \o msgs, S) <=> (Has(up[c], S) \/ Has(msgs, S))
  BY JoinHas
<1> QED BY <1>1, <1>2

\* One message more on a wire, or the first one off it.
LEMMA OneMore ==
    ASSUME NEW wires \in [Conns -> Seq(Message)], NEW s \in Conns, NEW m \in Message, NEW S
    PROVE  LET more == [wires EXCEPT ![s] = Append(@, m)]
           IN  /\ more \in [Conns -> Seq(Message)]
               /\ \A c \in Conns : Has(more[c], S) <=> (Has(wires[c], S) \/ (c = s /\ m \in S))
<1>1. Append(wires[s], m) \in Seq(Message)
      /\ (Has(Append(wires[s], m), S) <=> (Has(wires[s], S) \/ m \in S))
  BY AppendHas
<1> QED BY <1>1

LEMMA OneLess ==
    ASSUME NEW wires \in [Conns -> Seq(Message)], NEW s \in Conns, wires[s] # <<>>, NEW S
    PROVE  LET less == [wires EXCEPT ![s] = Tail(@)]
           IN  /\ less \in [Conns -> Seq(Message)]
               /\ \A c \in Conns : /\ Has(less[c], S) => Has(wires[c], S)
                                   /\ c # s => less[c] = wires[c]
               /\ Head(wires[s]) \notin S => (Has(less[s], S) <=> Has(wires[s], S))
<1>1. Tail(wires[s]) \in Seq(Message)
      /\ (Has(wires[s], S) <=> (Head(wires[s]) \in S \/ Has(Tail(wires[s]), S)))
  BY TailHas, FirstOf
<1> QED BY <1>1

LEMMA HeadIn ==
    ASSUME NEW w \in Seq(Message), w # <<>>, NEW S, ~Has(w, S)
    PROVE  Head(w) \in Message /\ Head(w) \notin S
BY TailHas, FirstOf

LEMMA AllPublished ==
    ASSUME TypeOK, NEW f \in Orders(Pending)
    PROVE  LET msgs == [i \in DOMAIN f |-> Publish(f[i])]
           IN  /\ msgs \in Seq(Message)
               /\ \A i \in DOMAIN msgs : \E k \in Pending : msgs[i] = Publish(k)
               /\ \A i, j \in DOMAIN msgs : msgs[i] = msgs[j] => i = j
<1>1. IsFiniteSet(Pending)
  BY BrokerAssumption, FS_Subset DEF Pending
<1>2. Cardinality(Pending) \in Nat
  BY <1>1, FS_CardinalityType
<1>3. f \in [1..Cardinality(Pending) -> Pending] /\ \A i, j \in DOMAIN f : f[i] = f[j] => i = j
  BY DEF Orders
<1>4. Pending \subseteq Keys
  BY DEF Pending
<1>5. \A k \in Keys : Publish(k) \in Message /\ Publish(k).key = k
  BY Typed DEF Publish
<1> DEFINE msgs == [i \in DOMAIN f |-> Publish(f[i])]
<1>6. msgs \in [1..Cardinality(Pending) -> Message]
  BY <1>3, <1>4, <1>5
<1>7. msgs \in Seq(Message)
  BY <1>2, <1>6
<1>8. \A i, j \in DOMAIN msgs : msgs[i] = msgs[j] => i = j
  BY <1>3, <1>4, <1>5
<1> QED BY <1>3, <1>7, <1>8

LEMMA PlainMessages ==
    ASSUME NEW k \in Keys, NEW t \in {"hello", "ready", "close"}
    PROVE  /\ Publish(k) \notin Malformed /\ Resolved(k) \notin Malformed
           /\ Plain(t) \notin Malformed
BY DEF Malformed, Publish, Resolved, Plain

\* The wires after the CLI sent something that names its deliveries.
LEMMA SentWell ==
    ASSUME TypeOK, WellFormed, NEW s, NEW msgs \in Seq(Message), ~Has(msgs, Malformed),
           up' = Sent(s, msgs)
    PROVE  /\ up' \in [Conns -> Seq(Message)]
           /\ \A c \in Conns : ~Has(up'[c], Malformed)
<1>1. up \in [Conns -> Seq(Message)]
  BY DEF TypeOK
<1>2. up' \in [Conns -> Seq(Message)]
  BY <1>1, SentType
<1>3. \A c \in Conns : ~Has(Sent(s, msgs)[c], Malformed)
  BY <1>1, SentHas DEF WellFormed
<1> QED BY <1>2, <1>3

LEMMA SentOne ==
    ASSUME TypeOK, WellFormed, NEW s, NEW m \in Message, m \notin Malformed,
           up' = Sent(s, <<m>>)
    PROVE  /\ up' \in [Conns -> Seq(Message)]
           /\ \A c \in Conns : ~Has(up'[c], Malformed)
<1>1. <<m>> \in Seq(Message) /\ ~Has(<<m>>, Malformed)
  BY OneMessage
<1> QED BY <1>1, SentWell

LEMMA ChannelTypes ==
    ASSUME TypeOK, WellFormed,
           \/ \E k \in Keys : Ask(k) \/ Decide(k) \/ Native(k)
           \/ \E s \in Conns : Channel(s)
           \/ Ready \/ HandOver \/ Exit
    PROVE  TypeOK' /\ WellFormed'
<1>1. ASSUME NEW k \in Keys, Ask(k) PROVE TypeOK' /\ WellFormed'
  <2>1. Publish(k) \in Message /\ Publish(k) \notin Malformed
    BY Typed, PlainMessages
  <2>2. /\ up' \in [Conns -> Seq(Message)]
        /\ \A c \in Conns : ~Has(up'[c], Malformed)
    <3>1. CASE connected
      BY <1>1, <3>1, <2>1, SentOne DEF Ask
    <3>2. CASE ~connected
      BY <1>1, <3>2 DEF Ask, TypeOK, WellFormed
    <3> QED BY <3>1, <3>2
  <2>3. TypeOK'
    BY <1>1, <2>2 DEF Ask, TypeOK, channel, broker
  <2>4. WellFormed'
    BY <1>1, <2>2 DEF Ask, WellFormed
  <2> QED BY <2>3, <2>4
<1>2. ASSUME NEW k \in Keys, Decide(k) PROVE TypeOK' /\ WellFormed'
  BY <1>2 DEF Decide, TypeOK, WellFormed, channel, broker
<1>3. ASSUME NEW k \in Keys, Resolve(k) PROVE TypeOK' /\ WellFormed'
  <2>1. Resolved(k) \in Message /\ Resolved(k) \notin Malformed
    BY Typed, PlainMessages
  <2>2. /\ up' \in [Conns -> Seq(Message)]
        /\ \A c \in Conns : ~Has(up'[c], Malformed)
    <3>1. CASE sock # 0
      BY <1>3, <3>1, <2>1, SentOne DEF Resolve
    <3>2. CASE sock = 0
      BY <1>3, <3>2 DEF Resolve, TypeOK, WellFormed
    <3> QED BY <3>1, <3>2
  <2>3. TypeOK'
    BY <1>3, <2>2 DEF Resolve, TypeOK, channel, broker
  <2>4. WellFormed'
    BY <1>3, <2>2 DEF Resolve, WellFormed
  <2> QED BY <2>3, <2>4
<1>4. ASSUME NEW k \in Keys, Deliver(k) PROVE TypeOK' /\ WellFormed'
  <2>1. io[k] \in Deliveries
    BY <1>4 DEF Deliver, TypeOK, Deliveries
  <2>2. PICK st \in {"answered", "stale", "unknown"} :
           up' = Sent(deliv[io[k]].sock, <<Result(io[k], st)>>)
    BY <1>4 DEF Deliver
  <2>3. Result(io[k], st) \in Message /\ Result(io[k], st) \notin Malformed
    <3>1. Result(io[k], st) \in Message
      BY <2>1, TypedResult DEF TypeOK
    <3>2. Result(io[k], st).d = io[k] /\ io[k] # 0 /\ Result(io[k], st).status # "none"
      BY <1>4 DEF Deliver, Result
    <3> QED BY <3>1, <3>2 DEF Malformed
  <2>4. /\ up' \in [Conns -> Seq(Message)]
        /\ \A c \in Conns : ~Has(up'[c], Malformed)
    BY <2>2, <2>3, SentOne
  <2>5. /\ io' \in [Keys -> 0..MaxDeliveries] /\ took' \in [Keys -> 0..MaxDeliveries]
        /\ request' \in [Keys -> {"none", "open", "over"}]
        /\ pend' \in [Keys -> {"none", "pending", "responding", "stale", "unknown"}]
    <3>1. io' = [io EXCEPT ![k] = 0]
      BY <1>4 DEF Deliver
    <3>2. UNCHANGED took \/ took' = [took EXCEPT ![k] = io[k]]
      BY <1>4 DEF Deliver
    <3>3. \/ UNCHANGED request
          \/ request' = [request EXCEPT ![k] = IF deliv[io[k]].handoff THEN @ ELSE "over"]
      BY <1>4 DEF Deliver
    <3>4. \E to \in {"none", "unknown", "stale"} :
             pend' = [pend EXCEPT ![k] = IF @ = "none" THEN @ ELSE to]
      BY <1>4 DEF Deliver, Left
    <3>5. io' \in [Keys -> 0..MaxDeliveries]
      BY <3>1, BrokerAssumption DEF TypeOK
    <3>6. took' \in [Keys -> 0..MaxDeliveries]
      BY <2>1, <3>2 DEF TypeOK, Deliveries
    <3>7. request' \in [Keys -> {"none", "open", "over"}]
      BY <3>3 DEF TypeOK
    <3>8. pend' \in [Keys -> {"none", "pending", "responding", "stale", "unknown"}]
      BY <3>4 DEF TypeOK
    <3> QED BY <3>5, <3>6, <3>7, <3>8
  <2>6. UNCHANGED <<sock, connected, old, down, bs, q, hand, entries, deliv, created, announced,
                    running, trouble>>
    BY <1>4 DEF Deliver, channel, broker
  <2>7. TypeOK'
    BY <2>4, <2>5, <2>6 DEF TypeOK
  <2>8. WellFormed'
    BY <2>4, <2>6 DEF WellFormed
  <2> QED BY <2>7, <2>8
<1>5. ASSUME NEW s \in Conns, Connect(s) PROVE TypeOK' /\ WellFormed'
  <2>1. Plain("hello") \in Message /\ Plain("hello") \notin Malformed
    BY Typed, PlainMessages, AnyKey
  <2>2. <<Plain("hello")>> \in Seq(Message) /\ ~Has(<<Plain("hello")>>, Malformed)
    BY <2>1, OneMessage
  <2>3. TypeOK'
    BY <1>5, <2>2 DEF Connect, TypeOK, native, Conns
  <2>4. WellFormed'
    BY <1>5, <2>2 DEF Connect, WellFormed, TypeOK
  <2> QED BY <2>3, <2>4
<1>6. ASSUME NEW s \in Conns, GetAnswer(s) PROVE TypeOK' /\ WellFormed'
  <2> DEFINE m == Head(down[s])
  <2>1. down \in [Conns -> Seq(Message)] /\ down[s] # <<>> /\ m.t = "answer"
        /\ down' = [down EXCEPT ![s] = Tail(@)]
    BY <1>6 DEF GetAnswer, TypeOK
  <2>2. m \in Message /\ m \notin Malformed
    <3>1. down[s] \in Seq(Message) /\ ~Has(down[s], Malformed)
      BY <2>1 DEF WellFormed
    <3> QED BY <3>1, <2>1, HeadIn
  <2>3. m.d \in Deliveries /\ m.key \in Keys
    BY <2>1, <2>2 DEF Message, Malformed, Deliveries
  <2>4. /\ down' \in [Conns -> Seq(Message)]
        /\ \A c \in Conns : ~Has(down'[c], Malformed)
    BY <2>1, OneLess DEF WellFormed
  <2>5. Result(m.d, "stale") \in Message /\ Result(m.d, "stale") \notin Malformed
    <3>1. Result(m.d, "stale") \in Message
      BY <2>3, TypedResult DEF TypeOK
    <3>2. Result(m.d, "stale").d # 0 /\ Result(m.d, "stale").status # "none"
      BY <2>3 DEF Result, Deliveries
    <3> QED BY <3>1, <3>2 DEF Malformed
  <2>6. UNCHANGED <<sock, connected, old, bs, q, hand, entries, deliv, created, announced,
                    running, trouble, request, took>>
    BY <1>6 DEF GetAnswer, channel, broker, native
  <2> HIDE DEF m
  <2>7. /\ up' \in [Conns -> Seq(Message)]
        /\ \A c \in Conns : ~Has(up'[c], Malformed)
    <3>1. CASE UNCHANGED up
      BY <3>1 DEF TypeOK, WellFormed
    <3>2. CASE up' = Sent(s, <<Result(m.d, "stale")>>)
      BY <3>2, <2>5, SentOne
    <3> QED BY <1>6, <3>1, <3>2 DEF GetAnswer, m
  <2>8. /\ io' \in [Keys -> 0..MaxDeliveries]
        /\ pend' \in [Keys -> {"none", "pending", "responding", "stale", "unknown"}]
    <3>1. CASE UNCHANGED native
      BY <3>1 DEF native, TypeOK
    <3>2. CASE Claimed(m.key, m.d)
      BY <3>2, <2>3 DEF Claimed, TypeOK, Deliveries
    <3> QED BY <1>6, <3>1, <3>2 DEF GetAnswer, m
  <2>9. TypeOK'
    BY <2>4, <2>6, <2>7, <2>8 DEF TypeOK
  <2>10. WellFormed'
    BY <2>4, <2>7 DEF WellFormed
  <2> QED BY <2>9, <2>10
<1>7. ASSUME NEW s \in Conns, SeeClose(s) PROVE TypeOK' /\ WellFormed'
  <2>1. <<>> \in Seq(Message) /\ ~Has(<<>>, Malformed)
    BY Emptied
  <2>2. TypeOK'
    <3>1. down' \in [Conns -> Seq(Message)]
      BY <1>7, <2>1 DEF SeeClose, TypeOK
    <3>2. old' \in 0..(MaxTrouble + 1) /\ sock' \in 0..(MaxTrouble + 1)
      BY <1>7, BrokerAssumption DEF SeeClose, TypeOK
    <3>3. connected' \in BOOLEAN
      BY <1>7 DEF SeeClose, TypeOK
    <3>4. UNCHANGED <<request, took, pend, io, up, bs, q, hand, entries, deliv, created,
                      announced, running, trouble>>
      BY <1>7 DEF SeeClose, native, broker
    <3> QED BY <3>1, <3>2, <3>3, <3>4 DEF TypeOK
  <2>3. WellFormed'
    BY <1>7, <2>1 DEF SeeClose, WellFormed, TypeOK
  <2> QED BY <2>2, <2>3
<1>8. ASSUME Ready PROVE TypeOK' /\ WellFormed'
  <2>1. PICK f \in Orders(Pending) : up' = Sent(sock, [i \in DOMAIN f |-> Publish(f[i])])
    BY <1>8 DEF Ready
  <2> DEFINE msgs == [i \in DOMAIN f |-> Publish(f[i])]
  <2>2. msgs \in Seq(Message) /\ \A i \in DOMAIN msgs : \E k \in Pending : msgs[i] = Publish(k)
    BY AllPublished
  <2>3. ~Has(msgs, Malformed)
    <3>1. \A k \in Pending : Publish(k) \notin Malformed
      BY PlainMessages DEF Pending
    <3> QED BY <2>2, <3>1 DEF Has
  <2> HIDE DEF msgs
  <2>4. up' = Sent(sock, msgs)
    BY <2>1 DEF msgs
  <2>5. /\ up' \in [Conns -> Seq(Message)]
        /\ \A c \in Conns : ~Has(up'[c], Malformed)
    BY <2>2, <2>3, <2>4, SentWell
  <2>6. sock \in Conns /\ down \in [Conns -> Seq(Message)] /\ down[sock] # <<>>
        /\ down' = [down EXCEPT ![sock] = Tail(@)]
    BY <1>8 DEF Ready, TypeOK, Conns
  <2>7. /\ down' \in [Conns -> Seq(Message)]
        /\ \A c \in Conns : ~Has(down'[c], Malformed)
    BY <2>6, OneLess DEF WellFormed
  <2>8. TypeOK'
    BY <1>8, <2>5, <2>7 DEF Ready, TypeOK, native, broker
  <2>9. WellFormed'
    BY <2>5, <2>7 DEF WellFormed
  <2> QED BY <2>8, <2>9
<1>9. ASSUME HandOver PROVE TypeOK' /\ WellFormed'
  <2>1. sock \in Conns /\ down \in [Conns -> Seq(Message)] /\ down[sock] # <<>>
        /\ down' = [down EXCEPT ![sock] = Tail(@)]
    BY <1>9 DEF HandOver, TypeOK, Conns
  <2>2. /\ down' \in [Conns -> Seq(Message)]
        /\ \A c \in Conns : ~Has(down'[c], Malformed)
    BY <2>1, OneLess DEF WellFormed
  <2>3. TypeOK'
    <3>1. old' \in 0..(MaxTrouble + 1) /\ sock' \in 0..(MaxTrouble + 1)
      BY <1>9, BrokerAssumption DEF HandOver, TypeOK
    <3>3. trouble' \in 0..MaxTrouble
      BY <1>9, BrokerAssumption DEF HandOver, TypeOK
    <3>4. connected' \in BOOLEAN
      BY <1>9 DEF HandOver
    <3>2. UNCHANGED <<request, took, pend, io, up, bs, q, hand, entries, deliv, created,
                      announced, running>>
      BY <1>9 DEF HandOver, native, broker
    <3> QED BY <3>1, <3>2, <3>3, <3>4, <2>2 DEF TypeOK
  <2>4. WellFormed'
    BY <1>9, <2>2 DEF HandOver, WellFormed
  <2> QED BY <2>3, <2>4
<1>10. ASSUME Exit PROVE TypeOK' /\ WellFormed'
  <2>1. Plain("close") \in Message /\ Plain("close") \notin Malformed
    BY Typed, PlainMessages, AnyKey
  <2>2. \A w \in Seq(Message) : /\ Append(w, Plain("close")) \in Seq(Message)
                                /\ ~Has(w, Malformed) => ~Has(Append(w, Plain("close")), Malformed)
    BY <2>1, AppendHas
  <2>3. /\ up' \in [Conns -> Seq(Message)]
        /\ \A c \in Conns : ~Has(up'[c], Malformed)
    BY <1>10, <2>2 DEF Exit, TypeOK, WellFormed
  <2>4. TypeOK'
    <3>1. io' \in [Keys -> 0..MaxDeliveries]
      BY <1>10, BrokerAssumption DEF Exit
    <3>3. old' \in 0..(MaxTrouble + 1) /\ sock' \in 0..(MaxTrouble + 1)
      BY <1>10, BrokerAssumption DEF Exit
    <3>4. pend' \in [Keys -> {"none", "pending", "responding", "stale", "unknown"}]
      BY <1>10 DEF Exit
    <3>5. connected' \in BOOLEAN /\ running' \in BOOLEAN
      BY <1>10 DEF Exit
    <3>2. UNCHANGED <<request, took, down, bs, q, hand, entries, deliv, created, announced,
                      trouble>>
      BY <1>10 DEF Exit, broker
    <3> QED BY <3>1, <3>2, <3>3, <3>4, <3>5, <2>3 DEF TypeOK
  <2>5. WellFormed'
    BY <1>10, <2>3 DEF Exit, WellFormed
  <2> QED BY <2>4, <2>5
<1> QED BY <1>1, <1>2, <1>3, <1>4, <1>5, <1>6, <1>7, <1>8, <1>9, <1>10 DEF Native, Channel

LEMMA CardTypes ==
    ASSUME NEW cards \in [Keys -> Card], deliv \in [Deliveries -> Delivery], NEW K,
           NEW D \in SUBSET Deliveries, NEW st \in {"answered", "stale", "unknown"}
    PROVE  /\ Without(cards, K) \in [Keys -> Card]
           /\ Ended(cards, D, st) \in [Keys -> Card]
           /\ Finished(D, st) \in [Deliveries -> Delivery]
<1>1. Without(cards, K) \in [Keys -> Card]
  BY Typed DEF Without
<1>2. \A K2 : Without(cards, K2) \in [Keys -> Card]
  BY Typed DEF Without
<1>3. Ended(cards, D, st) \in [Keys -> Card]
  <2>1. CASE st \in {"answered", "stale"}
    BY <2>1, <1>2 DEF Ended
  <2>2. CASE st \notin {"answered", "stale"}
    <3>1. \A k \in Keys : [cards[k] EXCEPT !.status = "unknown"] \in Card
      BY DEF Card
    <3> QED BY <2>2, <3>1 DEF Ended
  <2> QED BY <2>1, <2>2
<1>4. Finished(D, st) \in [Deliveries -> Delivery]
  <2>1. \A d \in Deliveries : [deliv[d] EXCEPT !.status = st] \in Delivery
    BY DEF Delivery
  <2> QED BY <2>1 DEF Finished
<1> QED BY <1>1, <1>3, <1>4

LEMMA AnnouncedTypes ==
    ASSUME TypeOK, NEW k \in Keys, Announced(k)
    PROVE  created' \subseteq Keys /\ announced' \in [Keys -> Nat]
BY DEF Announced, TypeOK

LEMMA ShownTypes ==
    ASSUME TypeOK, NEW s \in 0..(MaxTrouble + 1), NEW k \in Keys, Shown(s, k)
    PROVE  entries' \in [Keys -> Card] /\ created' \subseteq Keys /\ announced' \in [Keys -> Nat]
<1>1. CASE UNCHANGED <<entries, created, announced>>
  BY <1>1 DEF TypeOK
<1>2. CASE /\ entries' = [entries EXCEPT ![k] = [sock |-> s, status |-> "pending", claim |-> 0]]
           /\ Announced(k)
  <2>1. [sock |-> s, status |-> "pending", claim |-> 0] \in Card
    BY BrokerAssumption DEF Card
  <2> QED BY <1>2, <2>1, AnnouncedTypes DEF TypeOK
<1> QED BY <1>1, <1>2 DEF Shown

LEMMA EmptyWires ==
    /\ [s \in Conns |-> <<>>] \in [Conns -> Seq(Message)]
    /\ \A s \in Conns : ~Has([c \in Conns |-> <<>>][s], Malformed)
BY Emptied

LEMMA SocketNumbers == Conns \subseteq 0..(MaxTrouble + 1)
BY BrokerAssumption DEF Conns

\* The handler of a connection becomes quiet or one of a typed form.
LEMMA HandTypes ==
    ASSUME TypeOK, NEW s, NEW h \in Handler
    PROVE  /\ [hand EXCEPT ![s] = Quiet] \in [Conns -> Handler]
           /\ [hand EXCEPT ![s] = h] \in [Conns -> Handler]
BY Typed DEF TypeOK

\* An answer goes out.
LEMMA AnsweringTypes ==
    ASSUME TypeOK, WellFormed, NEW d \in Deliveries, NEW k \in Keys, NEW s \in 0..(MaxTrouble + 1),
           NEW by \in {"auto", "chat"}, NEW ho \in BOOLEAN, Answering(d, k, s, by, ho)
    PROVE  /\ deliv' \in [Deliveries -> Delivery] /\ down' \in [Conns -> Seq(Message)]
           /\ \A c \in Conns : ~Has(down'[c], Malformed)
<1> DEFINE m == [t |-> "answer", key |-> k, d |-> d, status |-> "none"]
           r == [key |-> k, sock |-> s, by |-> by, handoff |-> ho, status |-> "sent"]
<1>1. m \in Message /\ m \notin Malformed
  BY BrokerAssumption DEF Message, Malformed, Deliveries
<1>2. r \in Delivery
  BY DEF Delivery
<1>3. deliv' = [deliv EXCEPT ![d] = r] /\ down' = [down EXCEPT ![s] = Append(@, m)]
  BY DEF Answering
<1>4. deliv \in [Deliveries -> Delivery] /\ down \in [Conns -> Seq(Message)]
  BY DEF TypeOK
<1> HIDE DEF m, r
<1>5. deliv' \in [Deliveries -> Delivery]
  BY <1>2, <1>3, <1>4
<1>6. CASE s \in Conns
  BY <1>1, <1>3, <1>4, <1>5, <1>6, OneMore DEF WellFormed
<1>7. CASE s \notin Conns
  <2>1. down' = down
    BY <1>3, <1>4, <1>7
  <2> QED BY <2>1, <1>4, <1>5 DEF WellFormed
<1> QED BY <1>6, <1>7

LEMMA HandlingTypes ==
    ASSUME TypeOK, WellFormed, NEW s \in Conns,
           \/ GetResult(s) \/ Queue(s) \/ Begin(s) \/ Hello(s) \/ HandleResolved(s)
           \/ SessionRead(s) \/ Show(s) \/ HandlerFails(s) \/ AutoAnswer(s)
    PROVE  TypeOK' /\ WellFormed'
<1>1. ASSUME GetResult(s) PROVE TypeOK' /\ WellFormed'
  <2> DEFINE m == Head(up[s])
  <2>1. up \in [Conns -> Seq(Message)] /\ up[s] # <<>> /\ m.t = "result"
        /\ up' = [up EXCEPT ![s] = Tail(@)]
    BY <1>1 DEF GetResult, TypeOK
  <2>2. m \in Message /\ m \notin Malformed
    <3>1. up[s] \in Seq(Message) /\ ~Has(up[s], Malformed)
      BY <2>1 DEF WellFormed
    <3> QED BY <3>1, <2>1, HeadIn
  <2>3. m.d \in Deliveries /\ m.key \in Keys
    BY <2>1, <2>2 DEF Message, Malformed, Deliveries
  <2>4. up' \in [Conns -> Seq(Message)] /\ \A c \in Conns : ~Has(up'[c], Malformed)
    BY <2>1, OneLess DEF WellFormed
  <2>5. UNCHANGED <<request, took, pend, io, sock, connected, old, down, bs, q, running, trouble>>
    BY <1>1 DEF GetResult, native, channel
  <2>6. /\ hand' \in [Conns -> Handler] /\ entries' \in [Keys -> Card]
        /\ deliv' \in [Deliveries -> Delivery] /\ created' \subseteq Keys
        /\ announced' \in [Keys -> Nat]
    <3>1. CASE UNCHANGED <<hand, entries, deliv, created, announced>>
      BY <3>1 DEF TypeOK
    <3>2. CASE ~(deliv[m.d].status # "sent" \/ deliv[m.d].sock # s)
      <4>1. m.status \in {"answered", "stale", "unknown"}
        BY <2>1, <2>2 DEF Message, Malformed
      <4>2. deliv' \in [Deliveries -> Delivery]
        <5>1. deliv' = Finished({m.d}, m.status) /\ {m.d} \in SUBSET Deliveries
          BY <1>1, <3>2, <2>3 DEF GetResult
        <5>2. deliv \in [Deliveries -> Delivery] /\ entries \in [Keys -> Card]
          BY DEF TypeOK
        <5>3. Finished({m.d}, m.status) \in [Deliveries -> Delivery]
          BY <4>1, <5>1, <5>2, CardTypes
        <5> QED BY <5>1, <5>3
      <4>3. hand' \in [Conns -> Handler]
        <5>1. UNCHANGED hand \/ hand' = [hand EXCEPT ![s] = Quiet]
          BY <1>1, <3>2 DEF GetResult
        <5> QED BY <5>1, HandTypes, Typed DEF TypeOK
      <4>4. \/ Shown(s, m.key)
            \/ entries' = Ended(entries, {m.d}, m.status) /\ UNCHANGED <<created, announced>>
        BY <1>1, <3>2 DEF GetResult
      <4>5. CASE Shown(s, m.key)
        BY <4>2, <4>3, <4>5, <2>3, ShownTypes, SocketNumbers
      <4>6. CASE entries' = Ended(entries, {m.d}, m.status) /\ UNCHANGED <<created, announced>>
        <5>1. {m.d} \in SUBSET Deliveries
          BY <2>3
        <5>2. entries' \in [Keys -> Card]
          BY <4>6, <4>1, <5>1, CardTypes DEF TypeOK
        <5> QED BY <4>2, <4>3, <4>6, <5>2 DEF TypeOK
      <4> QED BY <4>4, <4>5, <4>6
    <3> QED BY <1>1, <3>1, <3>2 DEF GetResult
  <2> QED BY <2>4, <2>5, <2>6 DEF TypeOK, WellFormed
<1>2. ASSUME Queue(s) PROVE TypeOK' /\ WellFormed'
  <2>1. /\ up \in [Conns -> Seq(Message)] /\ up[s] # <<>> /\ up' = [up EXCEPT ![s] = Tail(@)]
        /\ q' = [q EXCEPT ![s] = Append(@, Head(up[s]))] /\ Head(up[s]) \in Message
    BY <1>2, FirstOf DEF Queue, TypeOK
  <2>2. up' \in [Conns -> Seq(Message)] /\ \A c \in Conns : ~Has(up'[c], Malformed)
    BY <2>1, OneLess DEF WellFormed
  <2>3. q' \in [Conns -> Seq(Message)]
    BY <2>1, OneMore DEF TypeOK
  <2>4. UNCHANGED <<request, took, pend, io, sock, connected, old, down, bs, hand, entries,
                    deliv, created, announced, running, trouble>>
    BY <1>2 DEF Queue, native, channel
  <2> QED BY <2>2, <2>3, <2>4 DEF TypeOK, WellFormed
<1>3. ASSUME Begin(s) PROVE TypeOK' /\ WellFormed'
  <2> DEFINE m == Head(q[s])
  <2>1. /\ q \in [Conns -> Seq(Message)] /\ q[s] # <<>> /\ q' = [q EXCEPT ![s] = Tail(@)]
        /\ m \in Message /\ m.t \in {"hello", "publish"}
    BY <1>3, FirstOf DEF Begin, Next1, Popped, TypeOK
  <2>2. q' \in [Conns -> Seq(Message)]
    BY <2>1, OneLess
  <2>3. hand' \in [Conns -> Handler]
    <3>1. [at |-> m.t, key |-> m.key, d |-> 0] \in Handler
      BY <2>1, BrokerAssumption DEF Handler, Message
    <3>2. UNCHANGED hand \/ hand' = [hand EXCEPT ![s] = [at |-> m.t, key |-> m.key, d |-> 0]]
      BY <1>3 DEF Begin
    <3> QED BY <3>1, <3>2, HandTypes DEF TypeOK
  <2>4. UNCHANGED <<request, took, pend, io, sock, connected, old, up, down, bs, entries,
                    deliv, created, announced, running, trouble>>
    BY <1>3 DEF Begin, native, channel
  <2> QED BY <2>2, <2>3, <2>4 DEF TypeOK, WellFormed
<1>4. ASSUME Hello(s) PROVE TypeOK' /\ WellFormed'
  <2>1. hand' \in [Conns -> Handler]
    BY <1>4, HandTypes, Typed DEF Hello
  <2>2. Plain("ready") \in Message /\ Plain("ready") \notin Malformed
    BY Typed, PlainMessages, AnyKey
  <2>3. bs' \in [Conns -> {"none", "new", "open", "destroyed", "closed"}]
    BY <1>4 DEF Hello, TypeOK
  <2>4. entries' \in [Keys -> Card]
    <3>1. \A k \in Keys : [entries[k] EXCEPT !.sock = s] \in Card
      BY SocketNumbers DEF TypeOK, Card
    <3> QED BY <1>4, <3>1 DEF Hello, TypeOK
  <2>5. /\ down' \in [Conns -> Seq(Message)]
        /\ \A c \in Conns : ~Has(down'[c], Malformed)
    <3>1. UNCHANGED down \/ down' = [down EXCEPT ![s] = Append(@, Plain("ready"))]
      BY <1>4 DEF Hello
    <3>2. down \in [Conns -> Seq(Message)]
      BY DEF TypeOK
    <3>3. ASSUME down' = [down EXCEPT ![s] = Append(@, Plain("ready"))]
          PROVE  /\ down' \in [Conns -> Seq(Message)]
                 /\ \A c \in Conns : ~Has(down'[c], Malformed)
      BY <2>2, <3>3, <3>2, OneMore DEF WellFormed
    <3> QED BY <3>1, <3>2, <3>3 DEF WellFormed
  <2>6. UNCHANGED <<request, took, pend, io, sock, connected, old, up, q, deliv, created,
                    announced, running, trouble>>
    BY <1>4 DEF Hello, native, channel
  <2> QED BY <2>1, <2>3, <2>4, <2>5, <2>6 DEF TypeOK, WellFormed
<1>5. ASSUME HandleResolved(s) PROVE TypeOK' /\ WellFormed'
  <2>1. q \in [Conns -> Seq(Message)] /\ q[s] # <<>> /\ q' = [q EXCEPT ![s] = Tail(@)]
    BY <1>5 DEF HandleResolved, Next1, Popped, TypeOK
  <2>2. q' \in [Conns -> Seq(Message)]
    BY <2>1, OneLess
  <2>3. entries' \in [Keys -> Card]
    BY <1>5, Typed DEF HandleResolved, TypeOK, Without
  <2>4. UNCHANGED <<request, took, pend, io, sock, connected, old, up, down, bs, hand,
                    deliv, created, announced, running, trouble>>
    BY <1>5 DEF HandleResolved, native, channel
  <2> QED BY <2>2, <2>3, <2>4 DEF TypeOK, WellFormed
<1>6. ASSUME Refused(s) PROVE /\ bs' \in [Conns -> {"none", "new", "open", "destroyed", "closed"}]
                              /\ q' \in [Conns -> Seq(Message)] /\ hand' \in [Conns -> Handler]
  <2>1. <<>> \in Seq(Message)
    OBVIOUS
  <2> QED BY <1>6, <2>1, HandTypes, Typed DEF Refused, TypeOK
<1>7. ASSUME SessionRead(s) PROVE TypeOK' /\ WellFormed'
  <2>1. /\ bs' \in [Conns -> {"none", "new", "open", "destroyed", "closed"}]
        /\ q' \in [Conns -> Seq(Message)] /\ hand' \in [Conns -> Handler]
    <3>1. CASE hand' = [hand EXCEPT ![s].at = "prepare"] /\ UNCHANGED <<bs, q>>
      BY <3>1 DEF TypeOK, Handler
    <3>2. CASE hand' = [hand EXCEPT ![s] = Quiet] /\ UNCHANGED <<bs, q>>
      BY <3>2, HandTypes, Typed DEF TypeOK
    <3> QED BY <1>6, <1>7, <3>1, <3>2 DEF SessionRead
  <2>2. UNCHANGED <<request, took, pend, io, sock, connected, old, up, down, entries, deliv,
                    created, announced, running, trouble>>
    BY <1>7 DEF SessionRead, native, channel
  <2> QED BY <2>1, <2>2 DEF TypeOK, WellFormed
<1>8. ASSUME HandlerFails(s) PROVE TypeOK' /\ WellFormed'
  <2>1. /\ bs' \in [Conns -> {"none", "new", "open", "destroyed", "closed"}]
        /\ q' \in [Conns -> Seq(Message)] /\ hand' \in [Conns -> Handler]
    BY <1>6, <1>8 DEF HandlerFails
  <2>2. trouble' \in 0..MaxTrouble
    BY <1>8, BrokerAssumption DEF HandlerFails, TypeOK
  <2>3. UNCHANGED <<request, took, pend, io, sock, connected, old, up, down, entries, deliv,
                    created, announced, running>>
    BY <1>8 DEF HandlerFails, native, channel
  <2> QED BY <2>1, <2>2, <2>3 DEF TypeOK, WellFormed
<1>9. ASSUME Show(s) PROVE TypeOK' /\ WellFormed'
  <2>1. hand' \in [Conns -> Handler] /\ hand[s].key \in Keys
    BY <1>9, HandTypes, Typed DEF Show, TypeOK, Handler
  <2>2. entries' \in [Keys -> Card] /\ created' \subseteq Keys /\ announced' \in [Keys -> Nat]
    BY <1>9, <2>1, ShownTypes, SocketNumbers DEF Show
  <2>3. UNCHANGED <<request, took, pend, io, sock, connected, old, up, down, bs, q, deliv,
                    running, trouble>>
    BY <1>9 DEF Show, native, channel
  <2> QED BY <2>1, <2>2, <2>3 DEF TypeOK, WellFormed
<1>10. ASSUME AutoAnswer(s) PROVE TypeOK' /\ WellFormed'
  <2>1. hand[s].key \in Keys /\ s \in 0..(MaxTrouble + 1)
    BY SocketNumbers DEF TypeOK, Handler
  <2>2. PICK d \in Deliveries : /\ Answering(d, hand[s].key, s, "auto", FALSE)
                                /\ hand' = [hand EXCEPT ![s].at = "auto", ![s].d = d]
    BY <1>10 DEF AutoAnswer
  <2>3. /\ deliv' \in [Deliveries -> Delivery] /\ down' \in [Conns -> Seq(Message)]
        /\ \A c \in Conns : ~Has(down'[c], Malformed)
    BY <2>1, <2>2, AnsweringTypes
  <2>4. hand' \in [Conns -> Handler]
    <3>1. d \in 0..MaxDeliveries
      BY BrokerAssumption DEF Deliveries
    <3> QED BY <2>2, <3>1 DEF TypeOK, Handler
  <2>5. UNCHANGED <<request, took, pend, io, sock, connected, old, up, bs, q, entries, created,
                    announced, running, trouble>>
    BY <1>10 DEF AutoAnswer, native, channel
  <2> QED BY <2>3, <2>4, <2>5 DEF TypeOK, WellFormed
<1> QED BY <1>1, <1>2, <1>3, <1>4, <1>5, <1>7, <1>8, <1>9, <1>10

LEMMA EndingTypes ==
    ASSUME TypeOK, WellFormed,
           \/ \E d \in Deliveries : Timeout(d)
           \/ \E k \in Keys, ho \in BOOLEAN : Answer(k, ho)
           \/ \E s \in Conns : CloseEvent(s)
           \/ Discard \/ Crash
    PROVE  TypeOK' /\ WellFormed'
<1>1. ASSUME NEW d \in Deliveries, Timeout(d) PROVE TypeOK' /\ WellFormed'
  <2>1. deliv[d].sock \in 0..(MaxTrouble + 1) /\ deliv[d].key \in Keys
    BY DEF TypeOK, Delivery
  <2>2. {d} \in SUBSET Deliveries /\ deliv \in [Deliveries -> Delivery] /\ entries \in [Keys -> Card]
    BY DEF TypeOK
  <2>3. deliv' \in [Deliveries -> Delivery]
    BY <1>1, <2>2, CardTypes DEF Timeout
  <2>4. hand' \in [Conns -> Handler]
    <3>1. UNCHANGED hand \/ hand' = [hand EXCEPT ![deliv[d].sock] = Quiet]
      BY <1>1 DEF Timeout
    <3> QED BY <3>1, HandTypes, Typed DEF TypeOK
  <2>5. entries' \in [Keys -> Card] /\ created' \subseteq Keys /\ announced' \in [Keys -> Nat]
    <3>1. CASE Shown(deliv[d].sock, deliv[d].key)
      BY <3>1, <2>1, ShownTypes
    <3>2. CASE entries' = Ended(entries, {d}, "unknown") /\ UNCHANGED <<created, announced>>
      BY <3>2, <2>2, CardTypes DEF TypeOK
    <3> QED BY <1>1, <3>1, <3>2 DEF Timeout
  <2>6. UNCHANGED <<request, took, pend, io, sock, connected, old, up, down, bs, q, running, trouble>>
    BY <1>1 DEF Timeout, native, channel
  <2> QED BY <2>3, <2>4, <2>5, <2>6 DEF TypeOK, WellFormed
<1>2. ASSUME NEW k \in Keys, NEW ho \in BOOLEAN, Answer(k, ho) PROVE TypeOK' /\ WellFormed'
  <2>1. entries[k].sock \in 0..(MaxTrouble + 1)
    BY DEF TypeOK, Card
  <2>2. PICK d \in Deliveries :
           /\ Answering(d, k, entries[k].sock, "chat", ho)
           /\ entries' = [entries EXCEPT ![k].status = "responding", ![k].claim = d]
    BY <1>2 DEF Answer
  <2>3. /\ deliv' \in [Deliveries -> Delivery] /\ down' \in [Conns -> Seq(Message)]
        /\ \A c \in Conns : ~Has(down'[c], Malformed)
    BY <2>1, <2>2, AnsweringTypes
  <2>4. entries' \in [Keys -> Card]
    <3>1. d \in 0..MaxDeliveries
      BY BrokerAssumption DEF Deliveries
    <3> QED BY <2>2, <3>1 DEF TypeOK, Card
  <2>5. UNCHANGED <<request, took, pend, io, sock, connected, old, up, bs, q, hand, created,
                    announced, running, trouble>>
    BY <1>2 DEF Answer, native, channel
  <2> QED BY <2>3, <2>4, <2>5 DEF TypeOK, WellFormed
<1>3. Plain("close") \in Message /\ Plain("close") \notin Malformed
  BY Typed, PlainMessages, AnyKey
<1>4. \A D \in SUBSET Deliveries : Finished(D, "unknown") \in [Deliveries -> Delivery]
  BY CardTypes DEF TypeOK
<1>5. ASSUME NEW s \in Conns, CloseEvent(s) PROVE TypeOK' /\ WellFormed'
  <2> DEFINE D == {d \in Deliveries : deliv[d].status = "sent" /\ deliv[d].sock = s}
             rest == Without(entries, {k \in Keys : entries[k].sock = s})
  <2>1. /\ bs' = [bs EXCEPT ![s] = "closed"] /\ entries' = Ended(rest, D, "unknown")
        /\ deliv' = Finished(D, "unknown") /\ up' = [up EXCEPT ![s] = <<>>]
        /\ hand' = hand \/ hand' = [hand EXCEPT ![s] = Quiet]
    BY <1>5 DEF CloseEvent, Gone
  <2>2. D \in SUBSET Deliveries
    OBVIOUS
  <2>3. rest \in [Keys -> Card]
    BY CardTypes, <2>2 DEF TypeOK
  <2> HIDE DEF D, rest
  <2>4. entries' \in [Keys -> Card]
    BY <2>1, <2>2, <2>3, CardTypes DEF TypeOK
  <2>5. deliv' \in [Deliveries -> Delivery]
    BY <2>1, <2>2, <1>4
  <2>6. hand' \in [Conns -> Handler]
    BY <2>1, HandTypes, Typed DEF TypeOK
  <2>7. <<>> \in Seq(Message) /\ ~Has(<<>>, Malformed)
    BY Emptied
  <2>8. up' \in [Conns -> Seq(Message)] /\ \A c \in Conns : ~Has(up'[c], Malformed)
    BY <2>1, <2>7 DEF TypeOK, WellFormed
  <2>9. down' \in [Conns -> Seq(Message)] /\ \A c \in Conns : ~Has(down'[c], Malformed)
    <3>1. down \in [Conns -> Seq(Message)]
      BY DEF TypeOK
    <3>2. CASE down' = [down EXCEPT ![s] = <<>>]
      BY <2>7, <3>1, <3>2 DEF WellFormed
    <3>3. CASE down' = [down EXCEPT ![s] = Append(@, Plain("close"))]
      BY <1>3, <3>1, <3>3, OneMore DEF WellFormed
    <3> QED BY <1>5, <3>2, <3>3 DEF CloseEvent
  <2>10. bs' \in [Conns -> {"none", "new", "open", "destroyed", "closed"}]
    BY <2>1 DEF TypeOK
  <2>11. UNCHANGED <<request, took, pend, io, sock, connected, old, q, created, announced, running,
                     trouble>>
    BY <1>5 DEF CloseEvent, native, channel
  <2> QED BY <2>4, <2>5, <2>6, <2>8, <2>9, <2>10, <2>11 DEF TypeOK, WellFormed
<1>6. [k \in Keys |-> NoCard] \in [Keys -> Card]
  BY Typed
<1>7. ASSUME Discard PROVE TypeOK' /\ WellFormed'
  <2>1. bs' \in [Conns -> {"none", "new", "open", "destroyed", "closed"}]
    BY <1>7 DEF Discard, TypeOK
  <2>2. entries' \in [Keys -> Card]
    BY <1>6, <1>7 DEF Discard
  <2>3. UNCHANGED <<request, took, pend, io, sock, connected, old, up, down, q, hand, deliv,
                    created, announced, running, trouble>>
    BY <1>7 DEF Discard, native, channel
  <2> QED BY <2>1, <2>2, <2>3 DEF TypeOK, WellFormed
<1>8. ASSUME Crash PROVE TypeOK' /\ WellFormed'
  <2>1. bs' \in [Conns -> {"none", "new", "open", "destroyed", "closed"}]
    BY <1>8 DEF Crash, TypeOK
  <2>2. entries' \in [Keys -> Card] /\ hand' \in [Conns -> Handler]
    BY <1>6, <1>8, Typed DEF Crash
  <2>3. up' = [s \in Conns |-> <<>>] /\ q' = [s \in Conns |-> <<>>]
    BY <1>8 DEF Crash
  <2>4. /\ up' \in [Conns -> Seq(Message)] /\ q' \in [Conns -> Seq(Message)]
        /\ \A c \in Conns : ~Has(up'[c], Malformed)
    BY <2>3, EmptyWires
  <2>5. down' \in [Conns -> Seq(Message)] /\ \A c \in Conns : ~Has(down'[c], Malformed)
    <3>1. \A w \in Seq(Message) : /\ Append(w, Plain("close")) \in Seq(Message)
                                  /\ ~Has(w, Malformed) => ~Has(Append(w, Plain("close")), Malformed)
      BY <1>3, AppendHas
    <3> QED BY <1>8, <3>1 DEF Crash, TypeOK, WellFormed
  <2>6. deliv' \in [Deliveries -> Delivery]
    <3>1. {d \in Deliveries : deliv[d].status = "sent"} \in SUBSET Deliveries
      OBVIOUS
    <3> QED BY <1>8, <3>1, <1>4 DEF Crash
  <2>7. trouble' \in 0..MaxTrouble
    BY <1>8, BrokerAssumption DEF Crash, TypeOK
  <2>8. UNCHANGED <<request, took, pend, io, sock, connected, old, created, announced, running>>
    BY <1>8 DEF Crash, native, channel
  <2> QED BY <2>1, <2>2, <2>4, <2>5, <2>6, <2>7, <2>8 DEF TypeOK, WellFormed
<1> QED BY <1>1, <1>2, <1>5, <1>7, <1>8

LEMMA InitTypes == Init => TypeOK /\ WellFormed
<1> SUFFICES ASSUME Init PROVE TypeOK /\ WellFormed
  OBVIOUS
<1>1. up = [s \in Conns |-> <<>>] /\ down = [s \in Conns |-> <<>>] /\ q = [s \in Conns |-> <<>>]
  BY DEF Init
<1>2. /\ up \in [Conns -> Seq(Message)] /\ down \in [Conns -> Seq(Message)]
      /\ q \in [Conns -> Seq(Message)] /\ WellFormed
  BY <1>1, EmptyWires DEF WellFormed
<1>3. hand \in [Conns -> Handler] /\ entries \in [Keys -> Card] /\ deliv \in [Deliveries -> Delivery]
  BY Typed DEF Init
<1>4. 0 \in 0..MaxDeliveries /\ 0 \in 0..(MaxTrouble + 1) /\ 0 \in 0..MaxTrouble
  BY BrokerAssumption
<1>5. /\ took \in [Keys -> 0..MaxDeliveries] /\ io \in [Keys -> 0..MaxDeliveries]
      /\ sock \in 0..(MaxTrouble + 1) /\ old \in 0..(MaxTrouble + 1) /\ trouble \in 0..MaxTrouble
  BY <1>4 DEF Init
<1>6. /\ request \in [Keys -> {"none", "open", "over"}]
      /\ pend \in [Keys -> {"none", "pending", "responding", "stale", "unknown"}]
      /\ bs \in [Conns -> {"none", "new", "open", "destroyed", "closed"}]
      /\ created \subseteq Keys /\ announced \in [Keys -> Nat]
  BY DEF Init
<1>7. connected \in BOOLEAN /\ running \in BOOLEAN
  BY DEF Init
<1> QED BY <1>2, <1>3, <1>5, <1>6, <1>7 DEF TypeOK

LEMMA TypesKept == TypeOK /\ WellFormed /\ [Next]_vars => TypeOK' /\ WellFormed'
<1> SUFFICES ASSUME TypeOK, WellFormed, [Next]_vars PROVE TypeOK' /\ WellFormed'
  OBVIOUS
<1>1. CASE UNCHANGED vars
  BY <1>1 DEF vars, native, channel, broker, TypeOK, WellFormed
<1>2. CASE Next
  BY <1>2, ChannelTypes, HandlingTypes, EndingTypes DEF Next, Broker
<1> QED BY <1>1, <1>2

\* The variables keep their types, and every answer and result on a wire names its delivery
\* (request-delivery.js:10-18, native-channel.js:66-87).
THEOREM TypeCorrect == Spec => [](TypeOK /\ WellFormed)
BY InitTypes, TypesKept, PTL DEF Spec

-----------------------------------------------------------------------------
(* An answer is in one place: on its wire, in the CLI's hands, or reported.                 *)

AnswersTo(d) == {m \in Message : m.t = "answer" /\ m.d = d}
ResultsOf(d) == {m \in Message : m.t = "result" /\ m.d = d}
Reports(d, st) == {m \in Message : m.t = "result" /\ m.d = d /\ m.status = st}
Misaddressed == {m \in Message : /\ m.t \in {"answer", "result"} /\ m.d \in Deliveries
                                 /\ deliv[m.d].key # m.key \/ deliv[m.d].status = "none"}
Undecided == {"sent", "unknown"}

\* Messages carry the request of their delivery.
Addressed == \A s \in Conns : ~Has(up[s], Misaddressed) /\ ~Has(down[s], Misaddressed)
\* An answer under way is undecided, and is nowhere else.
UnderWay(s, d) ==
    /\ deliv[d].status \in Undecided
    /\ io[deliv[d].key] # d /\ took[deliv[d].key] # d
    /\ Once(down[s], AnswersTo(d))
    /\ \A c \in Conns : Has(down[c], AnswersTo(d)) => c = s
OnePlace == \A s \in Conns, d \in Deliveries : Has(down[s], AnswersTo(d)) => UnderWay(s, d)
\* The answer whose native I/O runs is undecided, and the first one for its request.
Working == \A k \in Keys : io[k] # 0 =>
    /\ deliv[io[k]].key = k /\ deliv[io[k]].status \in Undecided
    /\ took[k] = 0 /\ pend[k] \in {"responding", "none"}
\* What is reported of an answer is true and final.
True(s, d) ==
    /\ io[deliv[d].key] # d /\ \A c \in Conns : ~Has(down[c], AnswersTo(d))
    /\ Has(up[s], Reports(d, "answered")) => took[deliv[d].key] = d
    /\ Has(up[s], Reports(d, "stale")) => took[deliv[d].key] # d
Reported == \A s \in Conns, d \in Deliveries : Has(up[s], ResultsOf(d)) => True(s, d)
\* What the CLI took or still waits for.
Native1 == \A k \in Keys :
    /\ took[k] # 0 => /\ deliv[took[k]].key = k /\ deliv[took[k]].status # "none"
                      /\ io[k] = 0 /\ pend[k] # "pending"
    /\ pend[k] = "pending" => io[k] = 0
    /\ request[k] = "none" => pend[k] = "none" /\ io[k] = 0 /\ took[k] = 0
Routed == Addressed /\ OnePlace /\ Working /\ Reported /\ Native1

\* No delivery begins or is decided; those under way may become uncertain.
Lapses == \A d \in Deliveries :
    /\ deliv'[d].key = deliv[d].key
    /\ \/ deliv'[d].status = deliv[d].status
       \/ deliv[d].status = "sent" /\ deliv'[d].status = "unknown"
\* The wires carry no new answer or result.
NoNews == \A s \in Conns :
    /\ Has(up'[s], Misaddressed) => Has(up[s], Misaddressed)
    /\ Has(down'[s], Misaddressed) => Has(down[s], Misaddressed)
    /\ \A d \in Deliveries :
          /\ Has(up'[s], ResultsOf(d)) => Has(up[s], ResultsOf(d))
          /\ \A st \in {"answered", "stale"} : Has(up'[s], Reports(d, st)) => Has(up[s], Reports(d, st))
          /\ Has(down'[s], AnswersTo(d)) => Has(down[s], AnswersTo(d))
          /\ Once(down[s], AnswersTo(d)) => Once(down'[s], AnswersTo(d))
\* The CLI takes up and takes no answer.
NativeRests == \A k \in Keys :
    /\ took'[k] = took[k] /\ io'[k] \in {io[k], 0}
    /\ \/ pend'[k] \in {pend[k], "none"}
       \/ request[k] = "none" /\ request'[k] # "none"
    /\ request'[k] = "none" => request[k] = "none" /\ pend'[k] = pend[k]

LEMMA RoutedFrame ==
    ASSUME TypeOK, TypeOK', Routed, Lapses, NoNews, NativeRests
    PROVE  Routed'
<1>1. \A d \in Deliveries : deliv[d].key \in Keys
  BY DEF TypeOK, Delivery
<1>2. \A S : \A w : \A R : R \subseteq S /\ Has(w, R) => Has(w, S)
  BY DEF Has
<1>3. Misaddressed' \subseteq Misaddressed
  BY DEF Misaddressed, Lapses
<1>4. Addressed'
  <2> SUFFICES ASSUME NEW s \in Conns PROVE ~Has(up'[s], Misaddressed') /\ ~Has(down'[s], Misaddressed')
    BY DEF Addressed
  <2>1. ~Has(up'[s], Misaddressed) /\ ~Has(down'[s], Misaddressed)
    BY DEF Routed, Addressed, NoNews
  <2> QED BY <2>1, <1>2, <1>3
<1>5. OnePlace'
  <2> SUFFICES ASSUME NEW s \in Conns, NEW d \in Deliveries, Has(down'[s], AnswersTo(d))
               PROVE  UnderWay(s, d)'
    BY DEF OnePlace
  <2>1. UnderWay(s, d) /\ Once(down'[s], AnswersTo(d))
    BY DEF Routed, OnePlace, NoNews, UnderWay
  <2>2. deliv'[d].key = deliv[d].key /\ deliv'[d].status \in Undecided
    BY <2>1 DEF UnderWay, Lapses, Undecided
  <2>3. io'[deliv[d].key] # d /\ took'[deliv[d].key] # d
    BY <2>1, <1>1 DEF UnderWay, NativeRests, Deliveries
  <2>4. \A c \in Conns : Has(down'[c], AnswersTo(d)) => c = s
    BY <2>1 DEF UnderWay, NoNews
  <2> QED BY <2>1, <2>2, <2>3, <2>4 DEF UnderWay
<1>6. Working'
  <2> SUFFICES ASSUME NEW k \in Keys, io'[k] # 0
               PROVE  /\ deliv'[io'[k]].key = k /\ deliv'[io'[k]].status \in Undecided
                      /\ took'[k] = 0 /\ pend'[k] \in {"responding", "none"}
    BY DEF Working
  <2>1. io'[k] = io[k] /\ io[k] \in Deliveries
    BY DEF NativeRests, TypeOK, Deliveries
  <2>2. /\ deliv[io[k]].key = k /\ deliv[io[k]].status \in Undecided
        /\ took[k] = 0 /\ pend[k] \in {"responding", "none"} /\ request[k] # "none"
    BY <2>1 DEF Routed, Working, Native1
  <2>3. deliv'[io[k]].key = k /\ deliv'[io[k]].status \in Undecided
    BY <2>1, <2>2 DEF Lapses, Undecided
  <2>4. took'[k] = 0 /\ pend'[k] \in {"responding", "none"}
    BY <2>2 DEF NativeRests
  <2> QED BY <2>1, <2>3, <2>4
<1>7. Reported'
  <2> SUFFICES ASSUME NEW s \in Conns, NEW d \in Deliveries, Has(up'[s], ResultsOf(d))
               PROVE  True(s, d)'
    BY DEF Reported
  <2>1. True(s, d)
    BY DEF Routed, Reported, NoNews
  <2>2. deliv'[d].key = deliv[d].key
    BY DEF Lapses
  <2>3. io'[deliv[d].key] # d /\ took'[deliv[d].key] = took[deliv[d].key]
    BY <2>1, <1>1 DEF True, NativeRests, Deliveries
  <2>4. \A c \in Conns : ~Has(down'[c], AnswersTo(d))
    BY <2>1 DEF True, NoNews
  <2>5. /\ Has(up'[s], Reports(d, "answered")) => took[deliv[d].key] = d
        /\ Has(up'[s], Reports(d, "stale")) => took[deliv[d].key] # d
    BY <2>1 DEF True, NoNews
  <2> QED BY <2>2, <2>3, <2>4, <2>5 DEF True
<1>8. Native1'
  <2> SUFFICES ASSUME NEW k \in Keys
               PROVE  /\ took'[k] # 0 => /\ deliv'[took'[k]].key = k /\ deliv'[took'[k]].status # "none"
                                         /\ io'[k] = 0 /\ pend'[k] # "pending"
                      /\ pend'[k] = "pending" => io'[k] = 0
                      /\ request'[k] = "none" => pend'[k] = "none" /\ io'[k] = 0 /\ took'[k] = 0
    BY DEF Native1
  <2>1. /\ took[k] # 0 => /\ deliv[took[k]].key = k /\ deliv[took[k]].status # "none"
                          /\ io[k] = 0 /\ pend[k] # "pending"
        /\ pend[k] = "pending" => io[k] = 0
        /\ request[k] = "none" => pend[k] = "none" /\ io[k] = 0 /\ took[k] = 0
    BY DEF Routed, Native1
  <2>2. /\ took'[k] = took[k] /\ io'[k] \in {io[k], 0}
        /\ \/ pend'[k] \in {pend[k], "none"}
           \/ request[k] = "none" /\ request'[k] # "none"
        /\ request'[k] = "none" => request[k] = "none" /\ pend'[k] = pend[k]
    BY DEF NativeRests
  <2>3. ASSUME took[k] # 0 PROVE deliv'[took[k]].key = k /\ deliv'[took[k]].status # "none"
    <3>1. took[k] \in Deliveries
      BY <2>3 DEF TypeOK, Deliveries
    <3> QED BY <2>1, <2>3, <3>1 DEF Lapses
  <2> QED BY <2>1, <2>2, <2>3
<1> QED BY <1>4, <1>5, <1>6, <1>7, <1>8 DEF Routed

News == {m \in Message : m.t \in {"answer", "result"}}
\* A wire that became another one without news.
Less(w, v) == \A S \in SUBSET News : /\ Has(v, S) => Has(w, S)
                                     /\ Once(w, S) => Once(v, S)

LEMMA LessWires ==
    ASSUME NEW w \in Seq(Message)
    PROVE  /\ Less(w, w) /\ Less(w, <<>>)
           /\ w # <<>> => Less(w, Tail(w))
           /\ \A v \in Seq(Message) : ~Has(v, News) => Less(w, w \o v)
           /\ \A m \in Message : m \notin News => Less(w, Append(w, m))
<1>1. Less(w, w) /\ Less(w, <<>>)
  BY Emptied DEF Less
<1>2. w # <<>> => Less(w, Tail(w))
  BY TailHas DEF Less
<1>3. ASSUME NEW v \in Seq(Message), ~Has(v, News) PROVE Less(w, w \o v)
  <2>1. \A S \in SUBSET News : ~Has(v, S) /\ Once(v, S)
    BY <1>3 DEF Has, Once
  <2> QED BY <2>1, JoinHas DEF Less
<1>4. ASSUME NEW m \in Message, m \notin News PROVE Less(w, Append(w, m))
  <2>1. \A S \in SUBSET News : m \notin S
    BY <1>4
  <2> QED BY <2>1, AppendHas DEF Less
<1> QED BY <1>1, <1>2, <1>3, <1>4

LEMMA NoNewsOf ==
    ASSUME \A c \in Conns : Less(up[c], up'[c]), \A c \in Conns : Less(down[c], down'[c])
    PROVE  NoNews
<1>1. Misaddressed \in SUBSET News
  BY DEF Misaddressed, News
<1>2. \A d \in Deliveries : /\ ResultsOf(d) \in SUBSET News /\ AnswersTo(d) \in SUBSET News
                            /\ \A st : Reports(d, st) \in SUBSET News
  BY DEF ResultsOf, AnswersTo, Reports, News
<1> QED BY <1>1, <1>2 DEF NoNews, Less

LEMMA SentLess ==
    ASSUME TypeOK, NEW s, NEW msgs \in Seq(Message), ~Has(msgs, News), up' = Sent(s, msgs)
    PROVE  \A c \in Conns : Less(up[c], up'[c])
<1> SUFFICES ASSUME NEW c \in Conns PROVE Less(up[c], up'[c])
  OBVIOUS
<1>1. up \in [Conns -> Seq(Message)]
  BY DEF TypeOK
<1>2. up'[c] = up[c] \/ up'[c] = up[c] \o msgs
  BY <1>1, SentHas
<1> QED BY <1>1, <1>2, LessWires

\* A wire loses its first message, or everything, or nothing, or gets one that is no news.
LEMMA StepLess ==
    ASSUME NEW wires \in [Conns -> Seq(Message)], NEW s, NEW m \in Message \ News, NEW next,
           \/ next = wires
           \/ s \in Conns /\ wires[s] # <<>> /\ next = [wires EXCEPT ![s] = Tail(@)]
           \/ next = [wires EXCEPT ![s] = <<>>]
           \/ next = [wires EXCEPT ![s] = Append(@, m)]
    PROVE  \A c \in Conns : Less(wires[c], next[c])
<1> SUFFICES ASSUME NEW c \in Conns PROVE Less(wires[c], next[c])
  OBVIOUS
<1>1. \/ next[c] = wires[c]
      \/ wires[c] # <<>> /\ next[c] = Tail(wires[c])
      \/ next[c] = <<>>
      \/ next[c] = Append(wires[c], m)
  OBVIOUS
<1> QED BY <1>1, LessWires

LEMMA PlainIsNoNews ==
    /\ \A k \in Keys : Publish(k) \in Message \ News /\ Resolved(k) \in Message \ News
    /\ \A t \in {"hello", "ready", "close"} : Plain(t) \in Message \ News
BY Typed DEF News, Publish, Resolved, Plain

LEMMA Unlapsed == ASSUME UNCHANGED deliv PROVE Lapses
BY DEF Lapses

LEMMA LapsesOf ==
    ASSUME TypeOK, NEW D \in SUBSET Deliveries, \A d \in D : deliv[d].status = "sent",
           deliv' = Finished(D, "unknown")
    PROVE  Lapses
<1>1. ASSUME NEW d \in Deliveries
      PROVE  /\ deliv'[d].key = deliv[d].key
             /\ \/ deliv'[d].status = deliv[d].status
                \/ deliv[d].status = "sent" /\ deliv'[d].status = "unknown"
  <2>1. CASE d \in D
    <3>1. deliv'[d] = [deliv[d] EXCEPT !.status = "unknown"]
      BY <2>1 DEF Finished
    <3> QED BY <2>1, <3>1 DEF TypeOK, Delivery
  <2>2. CASE d \notin D
    BY <2>2 DEF Finished
  <2> QED BY <2>1, <2>2
<1> QED BY <1>1 DEF Lapses

LEMMA RestsUnchanged == ASSUME UNCHANGED native PROVE NativeRests
BY DEF native, NativeRests

\* What the steps that decide nothing do.
LEMMA RoutedSteps ==
    ASSUME TypeOK, TypeOK', WellFormed, Routed,
           \/ \E k \in Keys : Ask(k) \/ Decide(k) \/ Resolve(k)
           \/ \E s \in Conns : \/ Connect(s) \/ SeeClose(s) \/ Queue(s) \/ Begin(s) \/ Hello(s)
                               \/ HandleResolved(s) \/ SessionRead(s) \/ Show(s) \/ CloseEvent(s)
                               \/ HandlerFails(s)
           \/ \E d \in Deliveries : Timeout(d)
           \/ Ready \/ HandOver \/ Exit \/ Discard \/ Crash
    PROVE  Routed' /\ Lapses /\ UNCHANGED took
<1> DEFINE Rests == NoNews /\ Lapses /\ NativeRests /\ UNCHANGED took
<1>0. up \in [Conns -> Seq(Message)] /\ down \in [Conns -> Seq(Message)]
  BY DEF TypeOK
<1>m. PICK m : m \in Message \ News
  BY PlainIsNoNews, AnyKey
<1>u. ASSUME UNCHANGED up PROVE \A c \in Conns : Less(up[c], up'[c])
  BY <1>0, <1>u, LessWires
<1>d. ASSUME UNCHANGED down PROVE \A c \in Conns : Less(down[c], down'[c])
  BY <1>0, <1>d, LessWires
<1>s. ASSUME NEW s, NEW x \in Message \ News, up' = Sent(s, <<x>>)
      PROVE  \A c \in Conns : Less(up[c], up'[c])
  <2>1. <<x>> \in Seq(Message) /\ ~Has(<<x>>, News)
    BY OneMessage
  <2> QED BY <1>s, <2>1, SentLess
<1>t. ASSUME NEW s \in Conns, down[s] # <<>>, down' = [down EXCEPT ![s] = Tail(@)]
      PROVE  \A c \in Conns : Less(down[c], down'[c])
  BY <1>0, <1>m, <1>t, StepLess
<1>1. ASSUME NEW k \in Keys, Ask(k) PROVE Rests
  <2>1. \A c \in Conns : Less(up[c], up'[c])
    BY <1>1, <1>u, <1>s, PlainIsNoNews DEF Ask
  <2>2. NativeRests
    BY <1>1 DEF Ask, NativeRests, TypeOK
  <2> QED BY <1>1, <2>1, <2>2, <1>d, NoNewsOf, Unlapsed DEF Ask, broker
<1>2. ASSUME NEW k \in Keys, Decide(k) PROVE Rests
  <2>1. NativeRests
    BY <1>2 DEF Decide, NativeRests, TypeOK
  <2> QED BY <1>2, <2>1, <1>u, <1>d, NoNewsOf, Unlapsed DEF Decide, broker
<1>3. ASSUME NEW k \in Keys, Resolve(k) PROVE Rests
  <2>1. \A c \in Conns : Less(up[c], up'[c])
    BY <1>3, <1>u, <1>s, PlainIsNoNews DEF Resolve
  <2>2. NativeRests
    BY <1>3 DEF Resolve, NativeRests, TypeOK
  <2> QED BY <1>3, <2>1, <2>2, <1>d, NoNewsOf, Unlapsed DEF Resolve, broker
<1>4. ASSUME NEW s \in Conns, Connect(s) PROVE Rests
  <2>1. Plain("hello") \in Message \ News /\ <<Plain("hello")>> \in Seq(Message)
    BY PlainIsNoNews, OneMessage
  <2>2. ~Has(<<Plain("hello")>>, News) /\ \A S \in SUBSET News : ~Has(<<Plain("hello")>>, S) /\ Once(<<Plain("hello")>>, S)
    BY <2>1, OneMessage
  <2>3. \A c \in Conns : Less(up[c], up'[c])
    <3>1. up' = [up EXCEPT ![s] = <<Plain("hello")>>]
      BY <1>4 DEF Connect
    <3>2. Less(up[s], <<Plain("hello")>>)
      BY <2>2 DEF Less
    <3> QED BY <1>0, <3>1, <3>2, LessWires
  <2>4. NativeRests
    BY <1>4, RestsUnchanged DEF Connect
  <2> QED BY <1>4, <2>3, <2>4, <1>d, NoNewsOf, Unlapsed DEF Connect, native
<1>5. ASSUME NEW s \in Conns, SeeClose(s) PROVE Rests
  <2>1. \A c \in Conns : Less(down[c], down'[c])
    BY <1>5, <1>0, <1>m, StepLess DEF SeeClose
  <2> QED BY <1>5, <2>1, <1>u, NoNewsOf, Unlapsed, RestsUnchanged DEF SeeClose, broker, native
<1>6. ASSUME NEW s \in Conns, Queue(s) PROVE Rests
  <2>1. \A c \in Conns : Less(up[c], up'[c])
    BY <1>6, <1>0, <1>m, StepLess DEF Queue
  <2> QED BY <1>6, <2>1, <1>d, NoNewsOf, Unlapsed, RestsUnchanged DEF Queue, native
<1>7. ASSUME NEW s \in Conns, Begin(s) \/ HandleResolved(s) \/ SessionRead(s) \/ Show(s)
                              \/ HandlerFails(s)
      PROVE  Rests
  <2>1. UNCHANGED <<native, up, down, deliv>>
    BY <1>7 DEF Begin, HandleResolved, SessionRead, Show, HandlerFails
  <2> QED BY <2>1, <1>u, <1>d, NoNewsOf, Unlapsed, RestsUnchanged DEF native
<1>8. ASSUME NEW s \in Conns, Hello(s) PROVE Rests
  <2>1. \A c \in Conns : Less(down[c], down'[c])
    <3>1. UNCHANGED down \/ down' = [down EXCEPT ![s] = Append(@, Plain("ready"))]
      BY <1>8 DEF Hello
    <3> QED BY <1>0, <3>1, PlainIsNoNews, StepLess
  <2> QED BY <1>8, <2>1, <1>u, NoNewsOf, Unlapsed, RestsUnchanged DEF Hello, native
<1>9. ASSUME NEW s \in Conns, CloseEvent(s) PROVE Rests
  <2>1. \A c \in Conns : Less(up[c], up'[c])
    BY <1>9, <1>0, <1>m, StepLess DEF CloseEvent, Gone
  <2>2. \A c \in Conns : Less(down[c], down'[c])
    <3>1. down' = [down EXCEPT ![s] = <<>>] \/ down' = [down EXCEPT ![s] = Append(@, Plain("close"))]
      BY <1>9 DEF CloseEvent
    <3> QED BY <1>0, <3>1, PlainIsNoNews, StepLess
  <2>3. Lapses
    <3> DEFINE D == {d \in Deliveries : deliv[d].status = "sent" /\ deliv[d].sock = s}
    <3>1. deliv' = Finished(D, "unknown") /\ D \in SUBSET Deliveries /\ \A d \in D : deliv[d].status = "sent"
      BY <1>9 DEF CloseEvent, Gone
    <3> HIDE DEF D
    <3> QED BY <3>1, LapsesOf
  <2> QED BY <1>9, <2>1, <2>2, <2>3, NoNewsOf, RestsUnchanged DEF CloseEvent, native
<1>10. ASSUME NEW d \in Deliveries, Timeout(d) PROVE Rests
  <2>1. Lapses
    <3>1. deliv' = Finished({d}, "unknown") /\ {d} \in SUBSET Deliveries /\ \A e \in {d} : deliv[e].status = "sent"
      BY <1>10 DEF Timeout
    <3> QED BY <3>1, LapsesOf
  <2> QED BY <1>10, <2>1, <1>u, <1>d, NoNewsOf, RestsUnchanged DEF Timeout, native
<1>11. ASSUME Ready PROVE Rests
  <2>1. PICK f \in Orders(Pending) : up' = Sent(sock, [i \in DOMAIN f |-> Publish(f[i])])
    BY <1>11 DEF Ready
  <2> DEFINE msgs == [i \in DOMAIN f |-> Publish(f[i])]
  <2>2. msgs \in Seq(Message) /\ \A i \in DOMAIN msgs : \E k \in Pending : msgs[i] = Publish(k)
    BY AllPublished
  <2>3. ~Has(msgs, News)
    <3>1. \A k \in Pending : Publish(k) \notin News
      BY PlainIsNoNews DEF Pending
    <3> QED BY <2>2, <3>1 DEF Has
  <2> HIDE DEF msgs
  <2>4. up' = Sent(sock, msgs)
    BY <2>1 DEF msgs
  <2>5. \A c \in Conns : Less(up[c], up'[c])
    BY <2>2, <2>3, <2>4, SentLess
  <2>6. sock \in Conns
    BY <1>11 DEF Ready, TypeOK, Conns
  <2>7. \A c \in Conns : Less(down[c], down'[c])
    BY <1>11, <2>6, <1>t DEF Ready
  <2> QED BY <1>11, <2>5, <2>7, NoNewsOf, Unlapsed, RestsUnchanged DEF Ready, broker, native
<1>12. ASSUME HandOver PROVE Rests
  <2>1. sock \in Conns
    BY <1>12 DEF HandOver, TypeOK, Conns
  <2>2. \A c \in Conns : Less(down[c], down'[c])
    BY <1>12, <2>1, <1>t DEF HandOver
  <2> QED BY <1>12, <2>2, <1>u, NoNewsOf, Unlapsed, RestsUnchanged DEF HandOver, broker, native
<1>13. ASSUME Exit PROVE Rests
  <2>1. \A c \in Conns : Less(up[c], up'[c])
    <3> SUFFICES ASSUME NEW c \in Conns PROVE Less(up[c], up'[c])
      OBVIOUS
    <3>1. up'[c] = up[c] \/ up'[c] = Append(up[c], Plain("close"))
      BY <1>13 DEF Exit
    <3> QED BY <1>0, <3>1, PlainIsNoNews, LessWires
  <2>2. NativeRests
    BY <1>13 DEF Exit, NativeRests, Routed, Native1, TypeOK
  <2> QED BY <1>13, <2>1, <2>2, <1>d, NoNewsOf, Unlapsed DEF Exit, broker
<1>14. ASSUME Discard PROVE Rests
  BY <1>14, <1>u, <1>d, NoNewsOf, Unlapsed, RestsUnchanged DEF Discard, native
<1>15. ASSUME Crash PROVE Rests
  <2>1. \A c \in Conns : Less(up[c], up'[c])
    <3>1. \A c \in Conns : up'[c] = <<>>
      BY <1>15 DEF Crash
    <3> QED BY <1>0, <3>1, LessWires
  <2>2. \A c \in Conns : Less(down[c], down'[c])
    <3> SUFFICES ASSUME NEW c \in Conns PROVE Less(down[c], down'[c])
      OBVIOUS
    <3>1. down'[c] = down[c] \/ down'[c] = Append(down[c], Plain("close"))
      BY <1>15 DEF Crash
    <3> QED BY <1>0, <3>1, PlainIsNoNews, LessWires
  <2>3. Lapses
    <3> DEFINE D == {d \in Deliveries : deliv[d].status = "sent"}
    <3>1. deliv' = Finished(D, "unknown") /\ D \in SUBSET Deliveries /\ \A d \in D : deliv[d].status = "sent"
      BY <1>15 DEF Crash
    <3> HIDE DEF D
    <3> QED BY <3>1, LapsesOf
  <2> QED BY <1>15, <2>1, <2>2, <2>3, NoNewsOf, RestsUnchanged DEF Crash, native
<1>16. Rests
  BY <1>1, <1>2, <1>3, <1>4, <1>5, <1>6, <1>7, <1>8, <1>9, <1>10, <1>11, <1>12, <1>13, <1>14, <1>15
<1> QED BY <1>16, RoutedFrame

\* An answer that the CLI reads: it claims it, or reports it as stale.
LEMMA GetAnswerRouted ==
    ASSUME TypeOK, TypeOK', WellFormed, Routed, NEW s \in Conns, GetAnswer(s)
    PROVE  Routed' /\ UNCHANGED <<took, deliv>>
<1> DEFINE m == Head(down[s])
<1>1. /\ up \in [Conns -> Seq(Message)] /\ down \in [Conns -> Seq(Message)]
      /\ down[s] \in Seq(Message) /\ down[s] # <<>> /\ m.t = "answer"
      /\ down' = [down EXCEPT ![s] = Tail(@)]
  BY DEF GetAnswer, TypeOK
<1>2. m \in Message /\ m \notin Malformed /\ m \notin Misaddressed
  BY <1>1, HeadIn DEF WellFormed, Routed, Addressed
<1>3. PICK d \in Deliveries : d = m.d
  BY <1>1, <1>2 DEF Message, Malformed, Deliveries
<1>4. PICK k \in Keys : k = m.key
  BY <1>2 DEF Message
<1>5. deliv[d].key = k /\ deliv[d].status # "none" /\ m \in AnswersTo(d)
  BY <1>1, <1>2, <1>3, <1>4 DEF Misaddressed, AnswersTo
<1>6. Has(down[s], AnswersTo(d)) /\ UnderWay(s, d)
  BY <1>1, <1>5, TailHas DEF Routed, OnePlace
<1>7. \A c \in Conns : ~Has(down'[c], AnswersTo(d))
  <2> SUFFICES ASSUME NEW c \in Conns, Has(down'[c], AnswersTo(d)) PROVE FALSE
    OBVIOUS
  <2>1. ~Has(Tail(down[s]), AnswersTo(d))
    BY <1>1, <1>5, <1>6, TailHas DEF UnderWay
  <2>2. c # s
    BY <1>1, <2>1
  <2>3. Has(down[c], AnswersTo(d))
    BY <1>1, <2>2
  <2> QED BY <2>2, <2>3, <1>6 DEF UnderWay
<1>8. \A c \in Conns : Less(down[c], down'[c])
  BY <1>1, PlainIsNoNews, AnyKey, StepLess
<1>9. UNCHANGED <<took, deliv, request>> /\ UNCHANGED broker
  BY DEF GetAnswer, native, broker
<1>10. \/ /\ pend[k] = "pending" /\ io' = [io EXCEPT ![k] = d]
          /\ pend' = [pend EXCEPT ![k] = "responding"] /\ UNCHANGED up
       \/ up' = Sent(s, <<Result(d, "stale")>>) /\ UNCHANGED <<io, pend>>
  BY <1>3, <1>4 DEF GetAnswer, Claimed, native
<1>11. UNCHANGED Misaddressed
  BY <1>9 DEF Misaddressed
<1> HIDE DEF m
<1>12. CASE /\ pend[k] = "pending" /\ io' = [io EXCEPT ![k] = d]
            /\ pend' = [pend EXCEPT ![k] = "responding"] /\ UNCHANGED up
  <2>1. io[k] = 0 /\ took[k] = 0 /\ request[k] # "none"
    BY <1>12 DEF Routed, Native1
  <2>2. \A c \in Conns : /\ Has(down'[c], Misaddressed) => Has(down[c], Misaddressed)
                         /\ \A e \in Deliveries : /\ Has(down'[c], AnswersTo(e)) => Has(down[c], AnswersTo(e))
                                                  /\ Once(down[c], AnswersTo(e)) => Once(down'[c], AnswersTo(e))
    <3>1. Misaddressed \in SUBSET News /\ \A e : AnswersTo(e) \in SUBSET News
      BY DEF Misaddressed, AnswersTo, News
    <3> QED BY <1>8, <3>1 DEF Less
  <2>3. Addressed'
    BY <1>11, <1>12, <2>2 DEF Routed, Addressed
  <2>4. OnePlace'
    <3> SUFFICES ASSUME NEW c \in Conns, NEW e \in Deliveries, Has(down'[c], AnswersTo(e))
                 PROVE  UnderWay(c, e)'
      BY DEF OnePlace
    <3>1. UnderWay(c, e) /\ e # d
      BY <1>7, <2>2 DEF Routed, OnePlace
    <3>2. io'[deliv[e].key] # e
      BY <3>1, <1>12 DEF UnderWay, TypeOK, Delivery
    <3> QED BY <3>1, <3>2, <1>9, <2>2 DEF UnderWay
  <2>5. Working'
    <3>1. deliv[d].status \in Undecided
      BY <1>6 DEF UnderWay
    <3> QED BY <1>5, <1>9, <1>12, <2>1, <3>1 DEF Routed, Working, TypeOK
  <2>6. Reported'
    <3> SUFFICES ASSUME NEW c \in Conns, NEW e \in Deliveries, Has(up'[c], ResultsOf(e))
                 PROVE  True(c, e)'
      BY DEF Reported
    <3>1. True(c, e)
      BY <1>12 DEF Routed, Reported
    <3>2. e # d
      BY <3>1, <1>6 DEF True
    <3>3. io'[deliv[e].key] # e
      BY <3>1, <3>2, <1>12 DEF True, TypeOK, Delivery
    <3> QED BY <3>1, <3>3, <1>9, <1>12, <2>2 DEF True
  <2>7. Native1'
    BY <1>9, <1>12, <2>1 DEF Routed, Native1, TypeOK
  <2> QED BY <1>9, <2>3, <2>4, <2>5, <2>6, <2>7 DEF Routed
<1>13. CASE up' = Sent(s, <<Result(d, "stale")>>) /\ UNCHANGED <<io, pend>>
  <2> DEFINE r == Result(d, "stale")
  <2>1. r \in Message /\ r \in ResultsOf(d) /\ r \notin Misaddressed
        /\ \A e \in Deliveries : r \in ResultsOf(e) => e = d
    <3>1. r \in Message
      BY TypedResult DEF TypeOK
    <3> QED BY <3>1, <1>5 DEF Result, ResultsOf, Misaddressed
  <2>2. r \notin Reports(d, "answered")
    BY DEF Result, Reports
  <2> HIDE DEF r
  <2>3. <<r>> \in Seq(Message)
        /\ \A c \in Conns : \A S : Has(up'[c], S) => Has(up[c], S) \/ r \in S
    <3>1. <<r>> \in Seq(Message) /\ \A S : Has(<<r>>, S) <=> r \in S
      BY <2>1, OneMessage
    <3>2. \A c \in Conns : \A S : Has(Sent(s, <<r>>)[c], S) => Has(up[c], S) \/ Has(<<r>>, S)
      BY <1>1, <3>1, SentHas
    <3> QED BY <3>1, <3>2, <1>13 DEF r
  <2>4. \A c \in Conns : /\ Has(down'[c], Misaddressed) => Has(down[c], Misaddressed)
                         /\ \A e \in Deliveries : /\ Has(down'[c], AnswersTo(e)) => Has(down[c], AnswersTo(e))
                                                  /\ Once(down[c], AnswersTo(e)) => Once(down'[c], AnswersTo(e))
    <3>1. Misaddressed \in SUBSET News /\ \A e : AnswersTo(e) \in SUBSET News
      BY DEF Misaddressed, AnswersTo, News
    <3> QED BY <1>8, <3>1 DEF Less
  <2>5. Addressed'
    BY <1>11, <2>1, <2>3, <2>4 DEF Routed, Addressed
  <2>6. OnePlace'
    BY <1>9, <1>13, <2>4 DEF Routed, OnePlace, UnderWay
  <2>7. Working' /\ Native1'
    BY <1>9, <1>13 DEF Routed, Working, Native1
  <2>8. Reported'
    <3> SUFFICES ASSUME NEW c \in Conns, NEW e \in Deliveries, Has(up'[c], ResultsOf(e))
                 PROVE  True(c, e)'
      BY DEF Reported
    <3>1. CASE e = d
      <4>1. io[k] # d /\ took[k] # d
        BY <1>5, <1>6 DEF UnderWay
      <4>2. ~Has(up'[c], Reports(d, "answered"))
        <5>1. ~Has(up[c], Reports(d, "answered"))
          <6>1. SUFFICES ASSUME Has(up[c], Reports(d, "answered")) PROVE FALSE
            OBVIOUS
          <6>2. Has(up[c], ResultsOf(d))
            BY <6>1 DEF Has, Reports, ResultsOf
          <6> QED BY <6>1, <6>2, <4>1, <1>5 DEF Routed, Reported, True
        <5> QED BY <5>1, <2>2, <2>3
      <4> QED BY <3>1, <4>1, <4>2, <1>5, <1>7, <1>9, <1>13 DEF True
    <3>2. CASE e # d
      <4>1. Has(up[c], ResultsOf(e)) /\ True(c, e)
        BY <3>2, <2>1, <2>3 DEF Routed, Reported
      <4>2. \A st : Has(up'[c], Reports(e, st)) => Has(up[c], Reports(e, st))
        <5>1. \A st : r \notin Reports(e, st)
          BY <3>2, <2>1 DEF Reports, ResultsOf
        <5> QED BY <5>1, <2>3
      <4> QED BY <4>1, <4>2, <1>9, <1>13, <2>4 DEF True
    <3> QED BY <3>1, <3>2
  <2> QED BY <1>9, <2>5, <2>6, <2>7, <2>8 DEF Routed
<1> QED BY <1>10, <1>12, <1>13

\* The native I/O of an answer ends.
LEMMA DeliverRouted ==
    ASSUME TypeOK, TypeOK', WellFormed, Routed, NEW k \in Keys, Deliver(k)
    PROVE  Routed' /\ UNCHANGED deliv
<1>1. PICK d \in Deliveries : d = io[k]
  BY DEF Deliver, TypeOK, Deliveries
<1>2. /\ deliv[d].key = k /\ deliv[d].status \in Undecided /\ took[k] = 0
      /\ pend[k] \in {"responding", "none"} /\ request[k] # "none" /\ d # 0
  BY <1>1 DEF Routed, Working, Native1, Deliveries
<1>3. io' = [io EXCEPT ![k] = 0] /\ UNCHANGED <<down, deliv>>
  BY DEF Deliver, broker
<1>4. PICK st \in {"answered", "stale", "unknown"} :
        /\ up' = Sent(deliv[d].sock, <<Result(d, st)>>)
        /\ took' = [took EXCEPT ![k] = IF took'[k] = d THEN d ELSE 0]
        /\ st = "answered" => took'[k] = d
        /\ st = "stale" => took'[k] # d
        /\ pend'[k] # "pending" /\ \A j \in Keys \ {k} : pend'[j] = pend[j]
        /\ request'[k] # "none" /\ \A j \in Keys \ {k} : request'[j] = request[j]
  <2>1. /\ request' = request
           \/ request' = [request EXCEPT ![k] = IF deliv[d].handoff THEN @ ELSE "over"]
    BY <1>1 DEF Deliver
  <2>2. request'[k] # "none" /\ \A j \in Keys \ {k} : request'[j] = request[j]
    BY <1>2, <2>1 DEF TypeOK
  <2>3. \E to \in {"none", "unknown", "stale"} :
           pend' = [pend EXCEPT ![k] = IF @ = "none" THEN @ ELSE to]
    BY DEF Deliver, Left
  <2>4. pend'[k] # "pending" /\ \A j \in Keys \ {k} : pend'[j] = pend[j]
    BY <2>3 DEF TypeOK
  <2>5. took = [took EXCEPT ![k] = 0]
    BY <1>2 DEF TypeOK
  <2>6. \E st \in {"answered", "stale", "unknown"} :
           /\ up' = Sent(deliv[d].sock, <<Result(d, st)>>)
           /\ \/ took' = [took EXCEPT ![k] = d] /\ st \in {"answered", "unknown"}
              \/ took' = took /\ st \in {"stale", "unknown"}
    BY <1>1 DEF Deliver
  <2>7. \A st \in {"answered", "stale", "unknown"} :
           \/ took' = [took EXCEPT ![k] = d] /\ st \in {"answered", "unknown"}
           \/ took' = took /\ st \in {"stale", "unknown"}
           => /\ took' = [took EXCEPT ![k] = IF took'[k] = d THEN d ELSE 0]
              /\ st = "answered" => took'[k] = d
              /\ st = "stale" => took'[k] # d
    BY <1>2, <2>5 DEF TypeOK
  <2> QED BY <2>2, <2>4, <2>6, <2>7
<1>5. \A j \in Keys \ {k} : took'[j] = took[j] /\ io'[j] = io[j]
  BY <1>3, <1>4 DEF TypeOK
<1>6. io'[k] = 0 /\ took'[k] \in {0, d}
  BY <1>3, <1>4 DEF TypeOK
<1> DEFINE r == Result(d, st)
<1>7. r \in Message /\ r \in ResultsOf(d) /\ r \notin Misaddressed
      /\ \A e \in Deliveries : r \in ResultsOf(e) => e = d
  <2>1. r \in Message
    BY TypedResult DEF TypeOK
  <2> QED BY <2>1, <1>2 DEF Result, ResultsOf, Misaddressed, Undecided
<1>8. \A to : r \in Reports(d, to) => to = st
  BY DEF Result, Reports
<1> HIDE DEF r
<1>9. \A c \in Conns : \A S : Has(up'[c], S) => Has(up[c], S) \/ r \in S
  <2>1. <<r>> \in Seq(Message) /\ \A S : Has(<<r>>, S) <=> r \in S
    BY <1>7, OneMessage
  <2>2. PICK s : s = deliv[d].sock
    OBVIOUS
  <2>3. up \in [Conns -> Seq(Message)]
    BY DEF TypeOK
  <2>4. \A c \in Conns : \A S : Has(Sent(s, <<r>>)[c], S) => Has(up[c], S) \/ Has(<<r>>, S)
    BY <2>1, <2>3, SentHas
  <2>5. up' = Sent(s, <<r>>)
    BY <1>4, <2>2 DEF r
  <2> QED BY <2>1, <2>4, <2>5
<1>10. \A c \in Conns : ~Has(down[c], AnswersTo(d)) /\ ~Has(up[c], ResultsOf(d))
  BY <1>1, <1>2 DEF Routed, OnePlace, UnderWay, Reported, True
<1>11. UNCHANGED Misaddressed
  BY <1>3 DEF Misaddressed
<1>12. Addressed'
  BY <1>3, <1>7, <1>9, <1>11 DEF Routed, Addressed
<1>13. ASSUME NEW e \in Deliveries, e # d
       PROVE  /\ io[deliv[e].key] # e => io'[deliv[e].key] # e
              /\ took'[deliv[e].key] = e <=> took[deliv[e].key] = e
  <2>1. deliv[e].key \in Keys
    BY DEF TypeOK, Delivery
  <2>0. e # 0
    BY DEF Deliveries
  <2>2. CASE deliv[e].key = k
    BY <1>2, <1>6, <1>13, <2>0, <2>1, <2>2
  <2>3. CASE deliv[e].key # k
    BY <1>5, <2>1, <2>3
  <2> QED BY <2>2, <2>3
<1>14. OnePlace'
  <2> SUFFICES ASSUME NEW c \in Conns, NEW e \in Deliveries, Has(down[c], AnswersTo(e))
               PROVE  UnderWay(c, e)'
    BY <1>3 DEF OnePlace
  <2>1. UnderWay(c, e) /\ e # d
    BY <1>10 DEF Routed, OnePlace
  <2>2. io'[deliv[e].key] # e /\ took'[deliv[e].key] # e
    BY <2>1, <1>13 DEF UnderWay
  <2> QED BY <2>1, <2>2, <1>3 DEF UnderWay
<1>15. Working'
  <2> SUFFICES ASSUME NEW j \in Keys, io'[j] # 0
               PROVE  /\ deliv[io'[j]].key = j /\ deliv[io'[j]].status \in Undecided
                      /\ took'[j] = 0 /\ pend'[j] \in {"responding", "none"}
    BY <1>3 DEF Working
  <2>1. j # k
    BY <1>6
  <2> QED BY <2>1, <1>4, <1>5 DEF Routed, Working
<1>16. Reported'
  <2> SUFFICES ASSUME NEW c \in Conns, NEW e \in Deliveries, Has(up'[c], ResultsOf(e))
               PROVE  True(c, e)'
    BY DEF Reported
  <2>1. CASE e = d
    <3>1. \A to : Has(up'[c], Reports(d, to)) => to = st
      <4> SUFFICES ASSUME NEW to, Has(up'[c], Reports(d, to)) PROVE to = st
        OBVIOUS
      <4>1. ~Has(up[c], Reports(d, to))
        BY <1>10 DEF Has, Reports, ResultsOf
      <4> QED BY <4>1, <1>8, <1>9
    <3> QED BY <2>1, <3>1, <1>2, <1>3, <1>4, <1>6, <1>10 DEF True
  <2>2. CASE e # d
    <3>1. Has(up[c], ResultsOf(e)) /\ True(c, e)
      BY <2>2, <1>7, <1>9 DEF Routed, Reported
    <3>2. \A to : Has(up'[c], Reports(e, to)) => Has(up[c], Reports(e, to))
      <4>1. \A to : r \notin Reports(e, to)
        BY <2>2, <1>7 DEF Reports, ResultsOf
      <4> QED BY <4>1, <1>9
    <3>3. /\ io'[deliv[e].key] # e
          /\ took'[deliv[e].key] = e <=> took[deliv[e].key] = e
      BY <2>2, <3>1, <1>13 DEF True
    <3>4. \A a \in Conns : ~Has(down'[a], AnswersTo(e))
      BY <3>1, <1>3 DEF True
    <3>5. deliv'[e].key = deliv[e].key
      BY <1>3
    <3>6. Has(up'[c], Reports(e, "answered")) => took'[deliv[e].key] = e
      BY <3>1, <3>2, <3>3 DEF True
    <3>7. Has(up'[c], Reports(e, "stale")) => took'[deliv[e].key] # e
      BY <3>1, <3>2, <3>3 DEF True
    <3> QED BY <3>3, <3>4, <3>5, <3>6, <3>7 DEF True
  <2> QED BY <2>1, <2>2
<1>17. Native1'
  <2> SUFFICES ASSUME NEW j \in Keys
               PROVE  /\ took'[j] # 0 => /\ deliv[took'[j]].key = j /\ deliv[took'[j]].status # "none"
                                         /\ io'[j] = 0 /\ pend'[j] # "pending"
                      /\ pend'[j] = "pending" => io'[j] = 0
                      /\ request'[j] = "none" => pend'[j] = "none" /\ io'[j] = 0 /\ took'[j] = 0
    BY <1>3 DEF Native1
  <2>1. CASE j = k
    BY <2>1, <1>2, <1>4, <1>6 DEF Undecided
  <2>2. CASE j # k
    BY <2>2, <1>4, <1>5 DEF Routed, Native1
  <2> QED BY <2>1, <2>2
<1> QED BY <1>3, <1>12, <1>14, <1>15, <1>16, <1>17 DEF Routed

\* A result decides a delivery that nobody works on any more.
LEMMA GetResultRouted ==
    ASSUME TypeOK, TypeOK', WellFormed, Routed, NEW s \in Conns, GetResult(s)
    PROVE  /\ Routed' /\ UNCHANGED took
           /\ \/ UNCHANGED deliv
              \/ \E d \in Deliveries, st \in {"answered", "stale", "unknown"} :
                    /\ deliv[d].status = "sent" /\ deliv' = Finished({d}, st)
                    /\ st = "answered" => took[deliv[d].key] = d
                    /\ st = "stale" => took[deliv[d].key] # d
<1> DEFINE m == Head(up[s])
<1>1. /\ up \in [Conns -> Seq(Message)] /\ down \in [Conns -> Seq(Message)]
      /\ up[s] \in Seq(Message) /\ up[s] # <<>> /\ m.t = "result"
      /\ up' = [up EXCEPT ![s] = Tail(@)] /\ UNCHANGED <<native, down>>
  BY DEF GetResult, TypeOK
<1>2. m \in Message /\ m \notin Malformed /\ m \notin Misaddressed
  BY <1>1, HeadIn DEF WellFormed, Routed, Addressed
<1>3. PICK d \in Deliveries, st \in {"answered", "stale", "unknown"} : d = m.d /\ st = m.status
  BY <1>1, <1>2 DEF Message, Malformed, Deliveries
<1>4. m \in ResultsOf(d) /\ m \in Reports(d, st)
  BY <1>1, <1>2, <1>3 DEF ResultsOf, Reports
<1>5. True(s, d)
  BY <1>1, <1>4, TailHas DEF Routed, Reported
<1>6. /\ st = "answered" => took[deliv[d].key] = d
      /\ st = "stale" => took[deliv[d].key] # d
  BY <1>1, <1>4, <1>5, TailHas DEF True
<1>7. /\ \A c \in Conns : Less(up[c], up'[c])
      /\ \A c \in Conns : Less(down[c], down'[c])
  BY <1>1, PlainIsNoNews, AnyKey, StepLess
<1>8. NoNews /\ NativeRests
  BY <1>1, <1>7, NoNewsOf, RestsUnchanged
<1>9. \/ UNCHANGED deliv
      \/ deliv[d].status = "sent" /\ deliv' = Finished({d}, st)
  BY <1>3 DEF GetResult
<1> HIDE DEF m
<1>10. CASE UNCHANGED deliv
  BY <1>1, <1>8, <1>10, Unlapsed, RoutedFrame DEF native
<1>11. CASE deliv[d].status = "sent" /\ deliv' = Finished({d}, st)
  <2>1. \A e \in Deliveries : /\ deliv'[e].key = deliv[e].key
                              /\ e # d => deliv'[e].status = deliv[e].status
                              /\ e = d => deliv'[e].status = st
    BY <1>11 DEF Finished, TypeOK, Delivery
  <2>2. Misaddressed' \subseteq Misaddressed
    BY <2>1, <1>11 DEF Misaddressed
  <2>3. \A c \in Conns : ~Has(down'[c], AnswersTo(d))
    BY <1>1, <1>5 DEF True
  <2>4. Addressed'
    BY <1>8, <2>2 DEF Routed, Addressed, NoNews, Has
  <2>5. OnePlace'
    <3> SUFFICES ASSUME NEW c \in Conns, NEW e \in Deliveries, Has(down'[c], AnswersTo(e))
                 PROVE  UnderWay(c, e)'
      BY DEF OnePlace
    <3>1. UnderWay(c, e) /\ e # d
      BY <1>1, <2>3 DEF Routed, OnePlace
    <3> QED BY <3>1, <1>1, <2>1 DEF UnderWay, native
  <2>6. Working'
    <3> SUFFICES ASSUME NEW k \in Keys, io[k] # 0
                 PROVE  /\ deliv'[io[k]].key = k /\ deliv'[io[k]].status \in Undecided
                        /\ took[k] = 0 /\ pend[k] \in {"responding", "none"}
      BY <1>1 DEF Working, native
    <3>1. io[k] \in Deliveries
      BY DEF TypeOK, Deliveries
    <3>2. deliv[io[k]].key = k
      BY DEF Routed, Working
    <3>3. io[k] # d
      BY <3>2, <1>5 DEF True
    <3> QED BY <3>1, <3>3, <2>1 DEF Routed, Working
  <2>7. Reported'
    <3> SUFFICES ASSUME NEW c \in Conns, NEW e \in Deliveries, Has(up'[c], ResultsOf(e))
                 PROVE  True(c, e)'
      BY DEF Reported
    <3>1. True(c, e)
      BY <1>8 DEF Routed, Reported, NoNews
    <3> QED BY <3>1, <1>1, <1>8, <2>1 DEF True, NoNews, native
  <2>8. Native1'
    <3>1. \A k \in Keys : took[k] # 0 => took[k] \in Deliveries
      BY DEF TypeOK, Deliveries
    <3> QED BY <1>1, <2>1, <3>1 DEF Routed, Native1, native
  <2> QED BY <1>1, <1>6, <1>11, <2>4, <2>5, <2>6, <2>7, <2>8 DEF Routed, native
<1> QED BY <1>9, <1>10, <1>11

\* A new answer goes out.
LEMMA AnsweringRouted ==
    ASSUME TypeOK, TypeOK', Routed, NEW d \in Deliveries, NEW k \in Keys, NEW s,
           NEW by, NEW ho, Answering(d, k, s, by, ho), UNCHANGED <<native, up>>
    PROVE  Routed'
<1> DEFINE m == [t |-> "answer", key |-> k, d |-> d, status |-> "none"]
           x == [key |-> k, sock |-> s, by |-> by, handoff |-> ho, status |-> "sent"]
<1>1. /\ deliv[d].status = "none" /\ deliv' = [deliv EXCEPT ![d] = x]
      /\ down' = [down EXCEPT ![s] = Append(@, m)]
  BY DEF Answering, FreeDelivery
<1>2. /\ m \in Message /\ m \in AnswersTo(d) /\ m.key = k /\ m.d = d
      /\ \A e : m \in AnswersTo(e) => e = d
  BY BrokerAssumption DEF Message, AnswersTo, Deliveries
<1>3. x.key = k /\ x.status = "sent"
  OBVIOUS
<1>4. deliv \in [Deliveries -> Delivery] /\ down \in [Conns -> Seq(Message)]
  BY DEF TypeOK
<1> HIDE DEF m, x
<1>5. /\ deliv'[d].key = k /\ deliv'[d].status = "sent"
      /\ \A e \in Deliveries : e # d => deliv'[e] = deliv[e]
  BY <1>1, <1>3, <1>4
<1>6. Misaddressed' \subseteq Misaddressed /\ m \notin Misaddressed'
  <2>1. Misaddressed' \subseteq Misaddressed
    BY <1>1, <1>5 DEF Misaddressed
  <2> QED BY <2>1, <1>2, <1>5 DEF Misaddressed
<1>7. \A c \in Conns : \A S : Has(down'[c], S) => Has(down[c], S) \/ (c = s /\ m \in S)
  <2> SUFFICES ASSUME NEW c \in Conns, NEW S, Has(down'[c], S), ~Has(down[c], S)
               PROVE  c = s /\ m \in S
    OBVIOUS
  <2>1. c = s /\ down'[c] = Append(down[c], m)
    BY <1>1, <1>4
  <2> QED BY <2>1, <1>2, <1>4, AppendHas
<1>8. \A c \in Conns : \A S : Once(down[c], S) /\ (m \in S => ~Has(down[c], S)) => Once(down'[c], S)
  <2> SUFFICES ASSUME NEW c \in Conns, NEW S, Once(down[c], S), m \in S => ~Has(down[c], S)
               PROVE  Once(down'[c], S)
    OBVIOUS
  <2>1. down'[c] = down[c] \/ down'[c] = Append(down[c], m)
    BY <1>1, <1>4
  <2>2. down[c] \in Seq(Message)
    BY <1>4
  <2>3. CASE down'[c] = Append(down[c], m)
    <3>1. Once(Append(down[c], m), S)
      BY <2>2, <1>2, AppendHas
    <3> QED BY <2>3, <3>1
  <2> QED BY <2>1, <2>3
<1>9. UNCHANGED <<request, took, pend, io, up>>
  BY DEF native
<1>10. \A c \in Conns : ~Has(down[c], AnswersTo(d)) /\ ~Has(up[c], ResultsOf(d))
  <2> SUFFICES ASSUME NEW c \in Conns PROVE ~Has(down[c], AnswersTo(d)) /\ ~Has(up[c], ResultsOf(d))
    OBVIOUS
  <2>1. ~Has(down[c], AnswersTo(d))
    BY <1>1 DEF Routed, OnePlace, UnderWay, Undecided
  <2>2. ResultsOf(d) \subseteq Misaddressed
    BY <1>1 DEF ResultsOf, Misaddressed
  <2> QED BY <2>1, <2>2 DEF Routed, Addressed, Has
<1>11. \A j \in Keys : io[j] # d /\ took[j] # d
  BY <1>1 DEF Routed, Working, Native1, Undecided, Deliveries
<1>12. Addressed'
  <2> SUFFICES ASSUME NEW c \in Conns PROVE ~Has(up[c], Misaddressed') /\ ~Has(down'[c], Misaddressed')
    BY <1>9 DEF Addressed
  <2>1. ~Has(up[c], Misaddressed') /\ ~Has(down[c], Misaddressed')
    BY <1>6 DEF Routed, Addressed, Has
  <2> QED BY <2>1, <1>6, <1>7
<1>13. OnePlace'
  <2> SUFFICES ASSUME NEW c \in Conns, NEW e \in Deliveries, Has(down'[c], AnswersTo(e))
               PROVE  UnderWay(c, e)'
    BY DEF OnePlace
  <2>1. CASE e = d
    <3>1. c = s /\ \A a \in Conns : Has(down'[a], AnswersTo(d)) => a = s
      BY <2>1, <1>7, <1>10
    <3>2. Once(down'[c], AnswersTo(d))
      BY <1>8, <1>10 DEF Has, Once
    <3> QED BY <2>1, <3>1, <3>2, <1>5, <1>9, <1>11 DEF UnderWay, Undecided
  <2>2. CASE e # d
    <3>1. \A a \in Conns : Has(down'[a], AnswersTo(e)) => Has(down[a], AnswersTo(e))
      BY <2>2, <1>2, <1>7
    <3>2. UnderWay(c, e)
      BY <3>1 DEF Routed, OnePlace
    <3>3. Once(down'[c], AnswersTo(e))
      BY <2>2, <3>2, <1>2, <1>8 DEF UnderWay
    <3> QED BY <2>2, <3>1, <3>2, <3>3, <1>5, <1>9 DEF UnderWay
  <2> QED BY <2>1, <2>2
<1>14. Working'
  <2>1. \A j \in Keys : io[j] # 0 => io[j] \in Deliveries
    BY DEF TypeOK, Deliveries
  <2> QED BY <2>1, <1>5, <1>9, <1>11 DEF Routed, Working
<1>15. Reported'
  <2> SUFFICES ASSUME NEW c \in Conns, NEW e \in Deliveries, Has(up[c], ResultsOf(e))
               PROVE  True(c, e)'
    BY <1>9 DEF Reported
  <2>1. e # d /\ True(c, e)
    BY <1>10 DEF Routed, Reported
  <2>2. \A a \in Conns : ~Has(down'[a], AnswersTo(e))
    BY <2>1, <1>2, <1>7 DEF True
  <2> QED BY <2>1, <2>2, <1>5, <1>9 DEF True
<1>16. Native1'
  <2>1. \A j \in Keys : took[j] # 0 => took[j] \in Deliveries
    BY DEF TypeOK, Deliveries
  <2> QED BY <2>1, <1>5, <1>9, <1>11 DEF Routed, Native1
<1> QED BY <1>12, <1>13, <1>14, <1>15, <1>16 DEF Routed

LEMMA InitRouted == Init => Routed
<1> SUFFICES ASSUME Init PROVE Routed
  OBVIOUS
<1>1. \A s \in Conns : up[s] = <<>> /\ down[s] = <<>>
  BY DEF Init
<1>2. \A s \in Conns : \A S : ~Has(up[s], S) /\ ~Has(down[s], S)
  BY <1>1, Emptied
<1>3. Addressed /\ OnePlace /\ Reported
  BY <1>2 DEF Addressed, OnePlace, Reported
<1>4. Working /\ Native1
  BY DEF Init, Working, Native1
<1> QED BY <1>3, <1>4 DEF Routed

\* The steps that change what AnswerContract sees.
LEMMA RoutedKept ==
    ASSUME TypeOK, TypeOK', WellFormed, Routed, [Next]_vars
    PROVE  Routed'
<1>1. CASE UNCHANGED vars
  <2>1. UNCHANGED <<native, up, down, deliv>>
    BY <1>1 DEF vars, broker
  <2>2. \A c \in Conns : Less(up[c], up'[c]) /\ Less(down[c], down'[c])
    BY <2>1, LessWires DEF TypeOK
  <2> QED BY <2>1, <2>2, NoNewsOf, Unlapsed, RestsUnchanged, RoutedFrame
<1>2. ASSUME NEW k \in Keys, Deliver(k) PROVE Routed'
  BY <1>2, DeliverRouted
<1>3. ASSUME NEW s \in Conns, GetAnswer(s) PROVE Routed'
  BY <1>3, GetAnswerRouted
<1>4. ASSUME NEW s \in Conns, GetResult(s) PROVE Routed'
  BY <1>4, GetResultRouted
<1>5. ASSUME NEW k \in Keys, NEW ho \in BOOLEAN, Answer(k, ho) PROVE Routed'
  <2>0. PICK s : s = entries[k].sock
    OBVIOUS
  <2>1. PICK d \in Deliveries : Answering(d, k, s, "chat", ho)
    BY <1>5, <2>0 DEF Answer
  <2>2. UNCHANGED <<native, up>>
    BY <1>5 DEF Answer
  <2> QED BY <2>1, <2>2, AnsweringRouted
<1>6. ASSUME NEW s \in Conns, AutoAnswer(s) PROVE Routed'
  <2>1. PICK k \in Keys : k = hand[s].key
    BY DEF TypeOK, Handler
  <2>2. PICK d \in Deliveries : Answering(d, k, s, "auto", FALSE)
    BY <1>6, <2>1 DEF AutoAnswer
  <2>3. UNCHANGED <<native, up>>
    BY <1>6 DEF AutoAnswer
  <2> QED BY <2>2, <2>3, AnsweringRouted
<1>7. CASE Next
  BY <1>2, <1>3, <1>4, <1>5, <1>6, <1>7, RoutedSteps DEF Next, Native, Channel, Broker
<1> QED BY <1>1, <1>7

\* Answers, results and the native I/O between them: every answer that is given is in one
\* place, and what is reported of it is final (native-channel.js:66-87,
\* request-delivery.js:8-20).
THEOREM AnswersInOnePlace == Spec => []Routed
<1>1. TypeOK /\ TypeOK' /\ WellFormed /\ Routed /\ [Next]_vars => Routed'
  BY RoutedKept
<1> QED BY <1>1, InitRouted, TypeCorrect, PTL DEF Spec

-----------------------------------------------------------------------------
(* The contract with those who answer.                                                      *)

LEMMA KnownStep ==
    ASSUME TypeOK, TypeOK', WellFormed, Routed, [Next]_vars
    PROVE  [Contract!Next]_<<took, Known>>
<1>0. deliv \in [Deliveries -> Delivery] /\ deliv' \in [Deliveries -> Delivery]
  BY DEF TypeOK
<1>1. ASSUME Lapses, UNCHANGED took PROVE Contract!Next
  <2> DEFINE A == {d \in Deliveries : deliv[d].status # deliv'[d].status}
  <2>1. A \in SUBSET Contract!Answers /\ \A a \in A : Known[a].end = "sent"
    BY <1>1 DEF Lapses, Contract!Answers, Deliveries, Known
  <2>2. Known' = [a \in Deliveries |-> IF a \in A THEN [Known[a] EXCEPT !.end = "unknown"]
                                       ELSE Known[a]]
    <3>1. \A a \in Deliveries :
             [key |-> deliv'[a].key, end |-> deliv'[a].status]
             = IF a \in A THEN [Known[a] EXCEPT !.end = "unknown"] ELSE Known[a]
      BY <1>1 DEF Lapses, Known
    <3> QED BY <3>1 DEF Known
  <2> HIDE DEF A
  <2>3. Contract!Lapse(A)
    BY <1>1, <2>1, <2>2 DEF Contract!Lapse, Contract!Answers, Deliveries
  <2> QED BY <2>1, <2>3 DEF Contract!Next
<1>2. ASSUME NEW d \in Deliveries, NEW k \in Keys, NEW s, NEW by, NEW ho,
             Answering(d, k, s, by, ho), UNCHANGED took
      PROVE  Contract!Next
  <2>1. Known[d].end = "none" /\ Known' = [Known EXCEPT ![d] = [key |-> k, end |-> "sent"]]
    <3>1. deliv[d].status = "none"
          /\ deliv' = [deliv EXCEPT ![d] = [key |-> k, sock |-> s, by |-> by, handoff |-> ho,
                                            status |-> "sent"]]
      BY <1>2 DEF Answering, FreeDelivery
    <3> QED BY <3>1, <1>0 DEF Known
  <2>2. Contract!Give(d, k)
    BY <1>2, <2>1 DEF Contract!Give
  <2> QED BY <2>2 DEF Contract!Next, Contract!Answers, Deliveries
<1>3. CASE UNCHANGED vars
  BY <1>3 DEF vars, native, broker, Known
<1>4. ASSUME NEW k \in Keys, Deliver(k) PROVE [Contract!Next]_<<took, Known>>
  <2>1. PICK d \in Deliveries : d = io[k]
    BY <1>4 DEF Deliver, TypeOK, Deliveries
  <2>2. deliv[d].key = k /\ deliv[d].status \in Undecided /\ took[k] = 0
    BY <2>1 DEF Routed, Working, Deliveries
  <2>3. UNCHANGED Known
    BY <1>4 DEF Deliver, broker, Known
  <2>4. UNCHANGED took \/ took' = [took EXCEPT ![k] = d]
    BY <1>4, <2>1 DEF Deliver
  <2>5. CASE took' = [took EXCEPT ![k] = d]
    <3>1. Contract!Take(d)
      BY <2>2, <2>3, <2>5 DEF Contract!Take, Known, Undecided
    <3> QED BY <3>1 DEF Contract!Next, Contract!Answers, Deliveries
  <2> QED BY <2>3, <2>4, <2>5
<1>5. ASSUME NEW s \in Conns, GetAnswer(s) PROVE [Contract!Next]_<<took, Known>>
  BY <1>5, GetAnswerRouted DEF Known
<1>6. ASSUME NEW s \in Conns, GetResult(s) PROVE [Contract!Next]_<<took, Known>>
  <2>1. CASE UNCHANGED deliv
    BY <1>6, <2>1, GetResultRouted DEF Known
  <2>2. CASE \E d \in Deliveries, st \in {"answered", "stale", "unknown"} :
                /\ deliv[d].status = "sent" /\ deliv' = Finished({d}, st)
                /\ st = "answered" => took[deliv[d].key] = d
                /\ st = "stale" => took[deliv[d].key] # d
    <3>1. PICK d \in Deliveries, st \in {"answered", "stale", "unknown"} :
                /\ deliv[d].status = "sent" /\ deliv' = Finished({d}, st)
                /\ st = "answered" => took[deliv[d].key] = d
                /\ st = "stale" => took[deliv[d].key] # d
      BY <2>2
    <3>2. UNCHANGED took
      BY <1>6, GetResultRouted
    <3>3. CASE st = "unknown"
      BY <3>1, <3>2, <3>3, <1>1, LapsesOf
    <3>4. CASE st # "unknown"
      <4>1. Known[d].end = "sent" /\ Known[d].key = deliv[d].key
        BY <3>1 DEF Known
      <4>2. Known' = [Known EXCEPT ![d].end = st]
        BY <3>1, <1>0 DEF Known, Finished, Delivery
      <4>3. Contract!Report(d, st)
        BY <3>1, <3>2, <3>4, <4>1, <4>2 DEF Contract!Report
      <4> QED BY <3>4, <4>3 DEF Contract!Next, Contract!Answers, Deliveries
    <3> QED BY <3>3, <3>4
  <2> QED BY <1>6, <2>1, <2>2, GetResultRouted
<1>7. ASSUME NEW k \in Keys, NEW ho \in BOOLEAN, Answer(k, ho) PROVE Contract!Next
  BY <1>7, <1>2 DEF Answer, native
<1>8. ASSUME NEW s \in Conns, AutoAnswer(s) PROVE Contract!Next
  <2>1. PICK k \in Keys : k = hand[s].key
    BY DEF TypeOK, Handler
  <2> QED BY <1>8, <2>1, <1>2 DEF AutoAnswer, native
<1>9. CASE Next
  BY <1>1, <1>4, <1>5, <1>6, <1>7, <1>8, <1>9, RoutedSteps DEF Next, Native, Channel, Broker
<1> QED BY <1>3, <1>9

\* What the broker promises to those who answer: the CLI takes one answer at most, who
\* answered is told so only if it was theirs, and an answer reported as stale is never
\* taken afterwards (request-delivery.js:8-20, request-broker.js:446-540).
THEOREM BrokerKeepsContract == Spec => KeepsContract
<1>1. Init => Contract!Init
  <2> SUFFICES ASSUME Init PROVE Contract!Init
    OBVIOUS
  <2>1. took = [k \in Keys |-> 0]
    BY DEF Init
  <2>2. Known = [a \in Contract!Answers |-> [key |-> CHOOSE k \in Keys : TRUE, end |-> "none"]]
    BY DEF Init, Known, NoDelivery, Contract!Answers, Deliveries
  <2> QED BY <2>1, <2>2, AnyKey DEF Contract!Init
<1>2. TypeOK /\ TypeOK' /\ WellFormed /\ Routed /\ [Next]_vars => [Contract!Next]_<<took, Known>>
  BY KnownStep
<1>3. [Contract!Next]_<<took, Known>> <=> [Contract!Next]_(Contract!vars)
  BY DEF Contract!vars
<1> QED BY <1>1, <1>2, <1>3, TypeCorrect, AnswersInOnePlace, PTL DEF Spec, KeepsContract, Contract!Spec
-----------------------------------------------------------------------------
(* Cards.  A request travels on one way: from the wire into the queue of its connection, to *)
(* the handler, to the card.                                                                *)

PublishesOf(k) == {m \in Message : m.t = "publish" /\ m.key = k}
AnswersFor(k) == {m \in Message : m.t = "answer" /\ m.key = k}
Kind(t) == {m \in Message : m.t = t}
\* What the broker has of a connection and did not handle yet.
Line(s) == q[s] \o up[s]
Thins(w, v, S) == /\ Has(v, S) => Has(w, S)
                  /\ Once(w, S) => Once(v, S)

Held(s, k) == hand[s].at \in {"publish", "prepare", "auto"} /\ hand[s].key = k
Token(s, k) == Has(Line(s), PublishesOf(k)) \/ Held(s, k) \/ entries[k].sock = s
\* A request is at one place of its connection.
Single(s, k) ==
    /\ Once(Line(s), PublishesOf(k))
    /\ Has(Line(s), PublishesOf(k)) => ~Held(s, k) /\ entries[k].sock # s
    /\ Held(s, k) => entries[k].sock # s
Greeting(s) == Has(Line(s), Kind("hello")) \/ hand[s].at = "hello"
GreetsOnce(s) == Once(Line(s), Kind("hello")) /\ ~(Has(Line(s), Kind("hello")) /\ hand[s].at = "hello")
Unused(s) == up[s] = <<>> /\ q[s] = <<>> /\ down[s] = <<>> /\ hand[s].at = "idle"

\* What holds of a connection until it ends: ready once, and only after its hello was
\* handled; nothing is asked before.
Connection(s) ==
    /\ bs[s] = "none" => Unused(s)
    /\ bs[s] = "new" => ~Has(down[s], Kind("ready")) /\ GreetsOnce(s)
    /\ bs[s] = "open" => ~Greeting(s) /\ Once(down[s], Kind("ready"))
    /\ Alive(s) => /\ ~Has(down[s], Kind("close"))
                   /\ \A k \in Keys : Single(s, k) /\ (Token(s, k) => request[k] # "none")
\* Nobody holds a request while a new connection waits for its hello, so there is nothing
\* to be handed over to it.
NothingToTake == \A s, c \in Conns : bs[s] = "new" /\ Alive(c) => \A k \in Keys : ~Token(c, k)
\* The CLI knows every connection the broker reads from; the one a hook left has no
\* request, and one that is not ready neither.
Channels ==
    /\ running => \A c \in Conns : Alive(c) => c \in {sock, old}
    /\ old # 0 => /\ bs[old] \notin {"none", "new"} /\ old # sock
                  /\ Alive(old) => \A k \in Keys : ~Token(old, k)
    /\ sock # 0 => bs[sock] # "none"
    /\ sock # 0 /\ ~connected /\ Alive(sock) =>
          \A k \in Keys : ~Token(sock, k) /\ ~Has(down[sock], AnswersFor(k))
    /\ connected => /\ sock # 0 /\ bs[sock] # "new"
                    /\ Alive(sock) => ~Has(down[sock], Kind("ready"))
Carded == \A k \in Keys : HasCard(k) =>
    entries[k].sock \in Conns /\ bs[entries[k].sock] \in {"open", "destroyed"}
\* Only what was asked is answered; the handler waits for its automatic answer.
Answers ==
    /\ \A d \in Deliveries : deliv[d].status # "none" =>
          request[deliv[d].key] # "none" /\ deliv[d].sock \in Conns
    /\ \A d \in Deliveries, s \in Conns :
          deliv[d].status = "sent" /\ deliv[d].by = "auto" /\ deliv[d].sock = s =>
             /\ bs[s] # "none"
             /\ Alive(s) => hand[s] = [at |-> "auto", key |-> deliv[d].key, d |-> d]
Placed == (\A s \in Conns : Connection(s)) /\ NothingToTake /\ Channels /\ Carded /\ Answers

\* A step that asks nothing new on the connection, and does not open it.
Still(s) ==
    /\ bs[s] = "none" <=> bs'[s] = "none"
    /\ Unused(s) => bs'[s] # "none" \/ Unused(s)'
    /\ Alive(s)' =>
          /\ bs'[s] = bs[s]
          /\ (Greeting(s)' => Greeting(s)) /\ (GreetsOnce(s) => GreetsOnce(s)')
          /\ \A k \in Keys : (Token(s, k)' => Token(s, k)) /\ (Single(s, k) => Single(s, k)')
          /\ Thins(down[s], down'[s], Kind("ready"))
          /\ Has(down'[s], Kind("close")) => Has(down[s], Kind("close"))
          /\ \A k \in Keys : Has(down'[s], AnswersFor(k)) => Has(down[s], AnswersFor(k)) \/ Token(s, k)

LEMMA ConnectionKept ==
    ASSUME NEW s \in Conns, TypeOK, TypeOK', Connection(s), Still(s),
           \A k \in Keys : request'[k] = "none" => request[k] = "none"
    PROVE  Connection(s)'
<1>1. bs'[s] = "none" => Unused(s)'
  BY DEF Connection, Still
<1>2. ASSUME Alive(s)' PROVE /\ bs'[s] = "new" => ~Has(down'[s], Kind("ready")) /\ GreetsOnce(s)'
                             /\ bs'[s] = "open" => ~Greeting(s)' /\ Once(down'[s], Kind("ready"))
                             /\ ~Has(down'[s], Kind("close"))
                             /\ \A k \in Keys : Single(s, k)' /\ (Token(s, k)' => request'[k] # "none")
  <2>1. bs'[s] = bs[s] /\ Alive(s)
    BY <1>2 DEF Still, Alive
  <2> QED BY <1>2, <2>1 DEF Connection, Still, Thins
<1>3. bs'[s] \in {"new", "open"} => Alive(s)'
  BY DEF Alive
<1> QED BY <1>1, <1>2, <1>3 DEF Connection

LEMMA PlacedFrame ==
    ASSUME TypeOK, TypeOK', Placed, \A s \in Conns : Still(s),
           \A k \in Keys : request'[k] = "none" => request[k] = "none"
    PROVE  /\ \A s \in Conns : Connection(s)'
           /\ NothingToTake'
           /\ UNCHANGED <<channel, running>> => Channels'
<1>1. \A s \in Conns : Connection(s)'
  BY ConnectionKept DEF Placed
<1>2. NothingToTake'
  <2> SUFFICES ASSUME NEW s \in Conns, NEW c \in Conns, bs'[s] = "new", Alive(c)', NEW k \in Keys
               PROVE  ~Token(c, k)'
    BY DEF NothingToTake
  <2>1. bs[s] = "new" /\ Alive(c)
    BY DEF Still, Alive
  <2> QED BY <2>1 DEF Placed, NothingToTake, Still
<1>3. ASSUME UNCHANGED <<channel, running>> PROVE Channels'
  <2>1. UNCHANGED <<sock, old, connected, running>>
    BY <1>3 DEF channel
  <2>2. Channels /\ \A c \in Conns : Alive(c)' => Alive(c) /\ bs'[c] = bs[c]
    BY DEF Placed, Still, Alive
  <2>3. (sock # 0 => sock \in Conns) /\ (old # 0 => old \in Conns)
    BY DEF TypeOK, Conns
  <2>4. running => \A c \in Conns : Alive(c)' => c \in {sock, old}
    BY <2>2 DEF Channels
  <2>5. old # 0 => /\ bs'[old] \notin {"none", "new"} /\ old # sock
                   /\ Alive(old)' => \A k \in Keys : ~Token(old, k)'
    <3> SUFFICES ASSUME old # 0 PROVE /\ bs'[old] \notin {"none", "new"} /\ old # sock
                                      /\ Alive(old)' => \A k \in Keys : ~Token(old, k)'
      OBVIOUS
    <3>0. PICK c \in Conns : c = old
      BY <2>3
    <3>1. bs[c] \notin {"none", "new"} /\ c # sock /\ (Alive(c) => \A k \in Keys : ~Token(c, k))
      BY <2>2, <3>0 DEF Channels
    <3>2. bs'[c] # "none" /\ bs'[c] # "new" /\ Still(c)
      BY <3>1 DEF Still, Alive
    <3>3. Alive(c)' => \A k \in Keys : ~Token(c, k)'
      BY <3>1, <3>2, <2>2 DEF Still
    <3> QED BY <3>0, <3>1, <3>2, <3>3, <2>1
  <2>6. sock # 0 => bs'[sock] # "none"
    BY <2>2, <2>3 DEF Channels, Still
  <2>7. sock # 0 /\ ~connected /\ Alive(sock)' =>
          \A k \in Keys : ~Token(sock, k)' /\ ~Has(down'[sock], AnswersFor(k))
    <3> SUFFICES ASSUME sock # 0, ~connected, Alive(sock)', NEW k \in Keys
                 PROVE  ~Token(sock, k)' /\ ~Has(down'[sock], AnswersFor(k))
      OBVIOUS
    <3>0. PICK c \in Conns : c = sock
      BY <2>3
    <3>1. Alive(c)' /\ Alive(c) /\ Still(c)
      BY <3>0, <2>1, <2>2
    <3>2. ~Token(c, k) /\ ~Has(down[c], AnswersFor(k))
      BY <3>0, <3>1, <2>2 DEF Channels
    <3>3. ~Token(c, k)' /\ ~Has(down'[c], AnswersFor(k))
      BY <3>1, <3>2 DEF Still
    <3> QED BY <3>0, <3>3, <2>1
  <2>8. connected => /\ sock # 0 /\ bs'[sock] # "new"
                     /\ Alive(sock)' => ~Has(down'[sock], Kind("ready"))
    <3> SUFFICES ASSUME connected PROVE /\ sock # 0 /\ bs'[sock] # "new"
                                        /\ Alive(sock)' => ~Has(down'[sock], Kind("ready"))
      OBVIOUS
    <3>0. sock # 0 /\ bs[sock] # "new" /\ (Alive(sock) => ~Has(down[sock], Kind("ready")))
      BY <2>2 DEF Channels
    <3>1. PICK c \in Conns : c = sock
      BY <2>3, <3>0
    <3>2. bs'[c] # "new"
      BY <3>0, <3>1, <2>2 DEF Alive
    <3>3. Alive(c)' => ~Has(down'[c], Kind("ready"))
      BY <3>0, <3>1, <2>2 DEF Still, Thins
    <3> QED BY <3>0, <3>1, <3>2, <3>3, <2>1
  <2> QED BY <2>1, <2>4, <2>5, <2>6, <2>7, <2>8 DEF Channels
<1> QED BY <1>1, <1>2, <1>3

LEMMA LineSent ==
    ASSUME NEW w \in Seq(Message), NEW v \in Seq(Message), NEW x \in Seq(Message)
    PROVE  w \o (v \o x) = (w \o v) \o x
OBVIOUS

LEMMA LineQueued ==
    ASSUME NEW w \in Seq(Message), NEW v \in Seq(Message), v # <<>>
    PROVE  Append(w, Head(v)) \o Tail(v) = w \o v
<1>1. Append(w, Head(v)) = w \o <<Head(v)>> /\ <<Head(v)>> \o Tail(v) = v
  OBVIOUS
<1>2. <<Head(v)>> \in Seq(Message) /\ Tail(v) \in Seq(Message)
  BY FirstOf
<1> QED BY <1>1, <1>2, LineSent

LEMMA LineTail ==
    ASSUME NEW w \in Seq(Message), NEW v \in Seq(Message), w # <<>>
    PROVE  /\ Tail(w) \o v = Tail(w \o v) /\ Head(w \o v) = Head(w)
           /\ w \o v # <<>> /\ w \o v \in Seq(Message)
OBVIOUS

\* The first message of a wire is taken past the queue.
LEMMA LinePast ==
    ASSUME NEW w \in Seq(Message), NEW v \in Seq(Message), v # <<>>, NEW S
    PROVE  /\ Thins(w \o v, w \o Tail(v), S)
           /\ Head(v) \notin S => (Has(w \o v, S) <=> Has(w \o Tail(v), S))
           /\ \A R : Followed(w \o v, S, R) /\ Head(v) \notin R => Followed(w \o Tail(v), S, R)
<1> DEFINE u == w \o v
           t == w \o Tail(v)
           n == Len(w)
<1>1. n \in Nat /\ Len(v) \in Nat /\ Tail(v) \in Seq(Message) /\ Len(Tail(v)) = Len(v) - 1 /\ Len(v) > 0
  BY FirstOf
<1>2. DOMAIN u = 1..(n + Len(v)) /\ DOMAIN t = 1..(n + Len(v) - 1)
  BY <1>1
<1>3. \A i \in 1..n : u[i] = w[i] /\ t[i] = w[i]
  BY <1>1
<1>4. \A i \in (n + 1)..(n + Len(v)) : u[i] = v[i - n]
  BY <1>1
<1>5. \A i \in (n + 1)..(n + Len(v) - 1) : t[i] = v[i - n + 1]
  <2> SUFFICES ASSUME NEW i \in (n + 1)..(n + Len(v) - 1) PROVE t[i] = v[i - n + 1]
    OBVIOUS
  <2>1. t[i] = Tail(v)[i - n]
    BY <1>1
  <2>2. i - n \in 1..Len(Tail(v))
    BY <1>1
  <2> QED BY <2>1, <2>2, FirstOf
<1>6. u[n + 1] = Head(v)
  BY <1>1, <1>4, FirstOf
<1> HIDE DEF u, t, n
<1>7. \A i \in DOMAIN t : /\ i <= n => i \in DOMAIN u /\ u[i] = t[i]
                          /\ i > n => i + 1 \in DOMAIN u /\ u[i + 1] = t[i]
  BY <1>1, <1>2, <1>3, <1>4, <1>5
<1>8. \A j \in DOMAIN u : /\ j <= n => j \in DOMAIN t /\ t[j] = u[j]
                          /\ j > n + 1 => j - 1 \in DOMAIN t /\ t[j - 1] = u[j]
  BY <1>1, <1>2, <1>3, <1>4, <1>5
<1>9. Thins(u, t, S)
  <2>1. Has(t, S) => Has(u, S)
    BY <1>1, <1>2, <1>7 DEF Has
  <2>2. Once(u, S) => Once(t, S)
    <3> SUFFICES ASSUME Once(u, S), NEW i \in DOMAIN t, NEW j \in DOMAIN t, t[i] \in S, t[j] \in S
                 PROVE  i = j
      BY DEF Once
    <3>1. i \in Int /\ j \in Int
      BY <1>1, <1>2
    <3>2. CASE i <= n /\ j <= n
      BY <3>2, <1>7 DEF Once
    <3>3. CASE i > n /\ j > n
      <4>1. i + 1 = j + 1
        BY <3>3, <1>7 DEF Once
      <4> QED BY <4>1, <3>1
    <3>4. CASE i <= n /\ j > n
      <4>1. i = j + 1
        BY <3>4, <1>7 DEF Once
      <4> QED BY <4>1, <3>4, <3>1, <1>1
    <3>5. CASE i > n /\ j <= n
      <4>1. i + 1 = j
        BY <3>5, <1>7 DEF Once
      <4> QED BY <4>1, <3>5, <3>1, <1>1
    <3> QED BY <3>1, <3>2, <3>3, <3>4, <3>5, <1>1
  <2> QED BY <2>1, <2>2 DEF Thins
<1>10. ASSUME Head(v) \notin S, Has(u, S) PROVE Has(t, S)
  <2>1. PICK j \in DOMAIN u : u[j] \in S
    BY <1>10 DEF Has
  <2>2. j # n + 1 /\ j \in Int
    BY <2>1, <1>1, <1>2, <1>6, <1>10
  <2>3. j <= n \/ j > n + 1
    BY <2>2, <1>1
  <2> QED BY <2>1, <2>3, <1>8 DEF Has
<1>11. ASSUME NEW R, Followed(u, S, R), Head(v) \notin R PROVE Followed(t, S, R)
  <2> SUFFICES ASSUME NEW i \in DOMAIN t, t[i] \in S PROVE \E j \in DOMAIN t : j > i /\ t[j] \in R
    BY DEF Followed
  <2>1. PICK a \in DOMAIN u : u[a] \in S /\ ((a = i /\ i <= n) \/ (a = i + 1 /\ i > n))
    BY <1>1, <1>2, <1>7
  <2>2. PICK j \in DOMAIN u : j > a /\ u[j] \in R
    BY <2>1, <1>11 DEF Followed
  <2>3. j # n + 1 /\ j \in Int /\ i \in Int
    BY <2>2, <1>1, <1>2, <1>6, <1>11
  <2>4. CASE j <= n
    <3>1. a = i
      BY <2>1, <2>2, <2>3, <2>4, <1>1
    <3> QED BY <2>2, <2>4, <3>1, <1>8
  <2>5. CASE j > n + 1
    <3>1. j - 1 > i
      BY <2>1, <2>2, <2>3, <2>5, <1>1
    <3> QED BY <2>2, <2>5, <3>1, <1>8
  <2> QED BY <2>3, <2>4, <2>5, <1>1
<1> QED BY <1>9, <1>10, <1>11 DEF u, t, Thins

\* What may become of the line of a connection without a new message of a set S.
LineThins(s, S) ==
    \/ up'[s] = up[s] /\ q'[s] = q[s]
    \/ q'[s] = q[s] /\ \E x \in Seq(Message) : ~Has(x, S) /\ up'[s] = up[s] \o x
    \/ up[s] # <<>> /\ up'[s] = Tail(up[s]) /\ q'[s] \in {q[s], Append(q[s], Head(up[s]))}
    \/ q[s] # <<>> /\ q'[s] = Tail(q[s]) /\ up'[s] = up[s]

LEMMA LineThinner ==
    ASSUME TypeOK, NEW s \in Conns, NEW S, LineThins(s, S)
    PROVE  Thins(Line(s), Line(s)', S)
<1>1. up[s] \in Seq(Message) /\ q[s] \in Seq(Message)
  BY DEF TypeOK
<1>2. CASE up'[s] = up[s] /\ q'[s] = q[s]
  BY <1>2 DEF Line, Thins
<1>3. ASSUME q'[s] = q[s], NEW x \in Seq(Message), ~Has(x, S), up'[s] = up[s] \o x
      PROVE  Thins(Line(s), Line(s)', S)
  <2>0. PICK w \in Seq(Message), v \in Seq(Message) : w = q[s] /\ v = up[s]
    BY <1>1
  <2>1. Line(s)' = Line(s) \o x /\ Line(s) \in Seq(Message)
    <3>1. w \o (v \o x) = (w \o v) \o x
      BY LineSent
    <3>2. w \o v \in Seq(Message)
      BY JoinHas
    <3> QED BY <1>3, <2>0, <3>1, <3>2 DEF Line
  <2>2. Once(x, S)
    BY <1>3 DEF Has, Once
  <2> QED BY <2>1, <2>2, <1>3, JoinHas DEF Thins
<1>4. CASE up[s] # <<>> /\ up'[s] = Tail(up[s]) /\ q'[s] = q[s]
  BY <1>1, <1>4, LinePast DEF Line
<1>5. CASE up[s] # <<>> /\ up'[s] = Tail(up[s]) /\ q'[s] = Append(q[s], Head(up[s]))
  BY <1>1, <1>5, LineQueued DEF Line, Thins
<1>6. CASE q[s] # <<>> /\ q'[s] = Tail(q[s]) /\ up'[s] = up[s]
  <2>1. Line(s)' = Tail(Line(s)) /\ Line(s) \in Seq(Message) /\ Line(s) # <<>>
    BY <1>1, <1>6, LineTail DEF Line
  <2> QED BY <2>1, TailHas DEF Thins
<1> QED BY <1>2, <1>3, <1>4, <1>5, <1>6 DEF LineThins

\* A step that leaves the handler and the cards as they are, or less.
Eased(s) ==
    /\ \A k \in Keys : /\ LineThins(s, PublishesOf(k))
                       /\ Held(s, k)' => Held(s, k)
                       /\ entries'[k].sock = s => entries[k].sock = s
    /\ LineThins(s, Kind("hello")) /\ (hand'[s].at = "hello" => hand[s].at = "hello")
Quieter(w, v) == Thins(w, v, Kind("ready")) /\ (Has(v, Kind("close")) => Has(w, Kind("close")))

LEMMA EasedIsStill ==
    ASSUME TypeOK, NEW s \in Conns,
           bs'[s] = bs[s] \/ (bs[s] # "none" /\ bs'[s] \in {"destroyed", "closed"}),
           Unused(s) => bs'[s] # "none" \/ Unused(s)',
           Alive(s)' => /\ Eased(s) /\ Quieter(down[s], down'[s])
                        /\ \A k \in Keys : Has(down'[s], AnswersFor(k)) =>
                                           Has(down[s], AnswersFor(k)) \/ Token(s, k)
    PROVE  Still(s)
<1>1. ASSUME Alive(s)' PROVE bs'[s] = bs[s]
  BY <1>1 DEF Alive
<1>2. ASSUME Alive(s)', NEW k \in Keys
      PROVE  (Token(s, k)' => Token(s, k)) /\ (Single(s, k) => Single(s, k)')
  <2>1. Thins(Line(s), Line(s)', PublishesOf(k))
    BY <1>2, LineThinner DEF Eased
  <2>2. (Held(s, k)' => Held(s, k)) /\ (entries'[k].sock = s => entries[k].sock = s)
    BY <1>2 DEF Eased
  <2> QED BY <2>1, <2>2 DEF Token, Single, Thins
<1>3. ASSUME Alive(s)' PROVE (Greeting(s)' => Greeting(s)) /\ (GreetsOnce(s) => GreetsOnce(s)')
  <2>1. Thins(Line(s), Line(s)', Kind("hello")) /\ (hand'[s].at = "hello" => hand[s].at = "hello")
    BY <1>3, LineThinner DEF Eased
  <2> QED BY <2>1 DEF Greeting, GreetsOnce, Thins
<1> QED BY <1>1, <1>2, <1>3 DEF Still, Quieter

LEMMA HeadKind ==
    ASSUME NEW w \in Seq(Message), w # <<>>, NEW t, Head(w).t = t
    PROVE  Has(w, Kind(t))
BY FirstOf, TailHas DEF Kind

LEMMA KindsOf ==
    /\ \A k \in Keys : Publish(k) \notin Kind("hello") /\ Resolved(k) \notin Kind("hello")
                       /\ Resolved(k) \notin Kind("publish")
    /\ \A t, u \in {"hello", "ready", "close"} : Plain(t) \in Kind(u) <=> t = u
    /\ \A t \in {"hello", "ready", "close"} : Plain(t) \notin Kind("publish")
    /\ \A d, st : Result(d, st) \notin Kind("hello") /\ Result(d, st) \notin Kind("publish")
    /\ \A t \in {"hello", "ready", "close"}, k \in Keys : Plain(t) \notin AnswersFor(k)
    /\ \A k \in Keys : PublishesOf(k) \subseteq Kind("publish") /\ AnswersFor(k) \subseteq Kind("answer")
BY Typed DEF Publish, Resolved, Kind, Plain, Result, AnswersFor, PublishesOf

LEMMA QuieterWires ==
    ASSUME NEW w \in Seq(Message)
    PROVE  /\ Quieter(w, w) /\ Quieter(w, <<>>) /\ (w # <<>> => Quieter(w, Tail(w)))
           /\ \A m \in Message : m.t = "answer" => Quieter(w, Append(w, m))
<1>1. ASSUME NEW m \in Message, m.t = "answer" PROVE Quieter(w, Append(w, m))
  <2>1. m \notin Kind("ready") /\ m \notin Kind("close")
    BY <1>1 DEF Kind
  <2> QED BY <2>1, AppendHas DEF Quieter, Thins
<1> QED BY <1>1, TailHas, Emptied DEF Quieter, Thins

-----------------------------------------------------------------------------
(* The steps of the CLI.                                                                    *)

\* It sends what asks nothing, and receives.
Sends(s) == \/ up'[s] = up[s]
            \/ Alive(s) /\ \E x \in Seq(Message) :
                  /\ ~Has(x, Kind("publish")) /\ ~Has(x, Kind("hello")) /\ up'[s] = up[s] \o x
Receives(s) == down'[s] \in {down[s], <<>>} \/ (down[s] # <<>> /\ down'[s] = Tail(down[s]))

LEMMA SendsOne ==
    ASSUME TypeOK, NEW c, NEW m \in Message, m \notin Kind("publish"), m \notin Kind("hello"),
           up' = Sent(c, <<m>>)
    PROVE  \A s \in Conns : Sends(s)
<1> SUFFICES ASSUME NEW s \in Conns PROVE Sends(s)
  OBVIOUS
<1>1. up'[s] = IF s = c /\ Alive(s) THEN up[s] \o <<m>> ELSE up[s]
  BY DEF Sent, TypeOK
<1>2. <<m>> \in Seq(Message) /\ ~Has(<<m>>, Kind("publish")) /\ ~Has(<<m>>, Kind("hello"))
  BY OneMessage
<1> QED BY <1>1, <1>2 DEF Sends

LEMMA ChannelStill ==
    ASSUME TypeOK, NEW s \in Conns, UNCHANGED broker, Sends(s), Receives(s)
    PROVE  Still(s)
<1>1. UNCHANGED <<bs, q, hand, entries>>
  BY DEF broker
<1>2. down[s] \in Seq(Message) /\ up[s] \in Seq(Message)
  BY DEF TypeOK
<1>3. \A S : S \subseteq Kind("publish") \/ S = Kind("hello") => LineThins(s, S)
  BY <1>1 DEF Sends, LineThins, Has
<1>4. Eased(s)
  BY <1>1, <1>3, KindsOf DEF Eased, Held
<1>5. Quieter(down[s], down'[s])
  BY <1>2, QuieterWires DEF Receives
<1>6. \A k \in Keys : Has(down'[s], AnswersFor(k)) => Has(down[s], AnswersFor(k))
  BY <1>2, TailHas, Emptied DEF Receives
<1>7. Unused(s) => bs'[s] # "none" \/ Unused(s)'
  <2> SUFFICES ASSUME Unused(s), bs'[s] = "none" PROVE Unused(s)'
    OBVIOUS
  <2>1. up'[s] = up[s]
    BY <1>1 DEF Sends, Alive
  <2> QED BY <1>1, <2>1 DEF Unused, Receives
<1> QED BY <1>1, <1>4, <1>5, <1>6, <1>7, EasedIsStill

\* Every step of the CLI but a question, a connection and its ready.
Listens == \/ \E k \in Keys : Decide(k) \/ Resolve(k) \/ Deliver(k)
           \/ \E s \in Conns : GetAnswer(s) \/ SeeClose(s)
           \/ HandOver \/ Exit

LEMMA CliSends ==
    ASSUME TypeOK, WellFormed, Listens
    PROVE  UNCHANGED broker /\ \A s \in Conns : Sends(s) /\ Receives(s)
<1>0. up \in [Conns -> Seq(Message)] /\ down \in [Conns -> Seq(Message)]
  BY DEF TypeOK
<1>u. ASSUME UNCHANGED up PROVE \A s \in Conns : Sends(s)
  BY <1>u DEF Sends
<1>d. ASSUME UNCHANGED down PROVE \A s \in Conns : Receives(s)
  BY <1>d DEF Receives
<1>t. ASSUME NEW c \in Conns, down[c] # <<>>, down' = [down EXCEPT ![c] = Tail(@)]
      PROVE  \A s \in Conns : Receives(s)
  BY <1>0, <1>t DEF Receives
<1>r. ASSUME NEW d \in Deliveries, NEW st \in {"answered", "stale", "unknown"}, NEW c,
             up' = Sent(c, <<Result(d, st)>>)
      PROVE  \A s \in Conns : Sends(s)
  <2>1. PICK m \in Message : m = Result(d, st)
    BY TypedResult DEF TypeOK
  <2>2. m \notin Kind("publish") /\ m \notin Kind("hello")
    BY <2>1, KindsOf
  <2> QED BY <1>r, <2>1, <2>2, SendsOne
<1>1. ASSUME NEW k \in Keys, Decide(k) PROVE UNCHANGED broker /\ \A s \in Conns : Sends(s) /\ Receives(s)
  BY <1>1, <1>u, <1>d DEF Decide
<1>2. ASSUME NEW k \in Keys, Resolve(k) PROVE UNCHANGED broker /\ \A s \in Conns : Sends(s) /\ Receives(s)
  <2>1. Resolved(k) \in Message /\ Resolved(k) \notin Kind("publish") /\ Resolved(k) \notin Kind("hello")
    BY Typed, KindsOf
  <2>2. UNCHANGED up \/ up' = Sent(sock, <<Resolved(k)>>)
    BY <1>2 DEF Resolve
  <2>3. UNCHANGED <<down, broker>>
    BY <1>2 DEF Resolve
  <2> QED BY <2>1, <2>2, <2>3, <1>u, <1>d, SendsOne
<1>3. ASSUME NEW k \in Keys, Deliver(k) PROVE UNCHANGED broker /\ \A s \in Conns : Sends(s) /\ Receives(s)
  <2>1. PICK d \in Deliveries : d = io[k]
    BY <1>3 DEF Deliver, TypeOK, Deliveries
  <2>2. PICK c : c = deliv[d].sock
    OBVIOUS
  <2>3. \E st \in {"answered", "stale", "unknown"} : up' = Sent(c, <<Result(d, st)>>)
    BY <1>3, <2>1, <2>2 DEF Deliver
  <2>4. UNCHANGED <<down, broker>>
    BY <1>3 DEF Deliver
  <2> QED BY <2>3, <2>4, <1>r, <1>d
<1>4. ASSUME NEW c \in Conns, GetAnswer(c) PROVE UNCHANGED broker /\ \A s \in Conns : Sends(s) /\ Receives(s)
  <2>1. down[c] # <<>> /\ Head(down[c]).t = "answer" /\ down' = [down EXCEPT ![c] = Tail(@)]
        /\ UNCHANGED broker
    BY <1>4 DEF GetAnswer
  <2>2. PICK d \in Deliveries : d = Head(down[c]).d
    <3>1. Head(down[c]) \in Message /\ Head(down[c]) \notin Malformed
      BY <2>1, <1>0, HeadIn DEF WellFormed
    <3> QED BY <2>1, <3>1 DEF Malformed, Message, Deliveries
  <2>3. UNCHANGED up \/ up' = Sent(c, <<Result(d, "stale")>>)
    BY <1>4, <2>2 DEF GetAnswer
  <2> QED BY <2>1, <2>3, <1>u, <1>t, <1>r
<1>5. ASSUME NEW c \in Conns, SeeClose(c) PROVE UNCHANGED broker /\ \A s \in Conns : Sends(s) /\ Receives(s)
  <2>1. UNCHANGED <<up, broker>> /\ down' = [down EXCEPT ![c] = <<>>]
    BY <1>5 DEF SeeClose
  <2> QED BY <2>1, <1>0, <1>u DEF Receives
<1>6. ASSUME HandOver PROVE UNCHANGED broker /\ \A s \in Conns : Sends(s) /\ Receives(s)
  <2>1. sock \in Conns
    BY <1>6 DEF HandOver, TypeOK, Conns
  <2>2. UNCHANGED <<up, broker>> /\ down[sock] # <<>> /\ down' = [down EXCEPT ![sock] = Tail(@)]
    BY <1>6 DEF HandOver
  <2> QED BY <2>1, <2>2, <1>u, <1>t
<1>7. ASSUME Exit PROVE UNCHANGED broker /\ \A s \in Conns : Sends(s) /\ Receives(s)
  <2>1. UNCHANGED <<down, broker>>
    BY <1>7 DEF Exit
  <2>2. PICK m \in Message : m = Plain("close")
    BY Typed
  <2>3. <<m>> \in Seq(Message) /\ ~Has(<<m>>, Kind("publish")) /\ ~Has(<<m>>, Kind("hello"))
    BY <2>2, OneMessage, KindsOf
  <2>4. ASSUME NEW s \in Conns PROVE Sends(s)
    <3>1. up'[s] = up[s] \/ (Alive(s) /\ up'[s] = Append(up[s], m))
      BY <1>7, <2>2 DEF Exit
    <3>2. Append(up[s], m) = up[s] \o <<m>>
      BY <1>0
    <3> QED BY <2>3, <3>1, <3>2 DEF Sends
  <2> QED BY <2>1, <2>4, <1>d
<1> QED BY <1>1, <1>2, <1>3, <1>4, <1>5, <1>6, <1>7 DEF Listens

LEMMA ListensPlaced ==
    ASSUME TypeOK, TypeOK', WellFormed, Placed, Listens
    PROVE  Placed'
<1>1. UNCHANGED broker /\ (\A s \in Conns : Sends(s) /\ Receives(s)) /\ \A s \in Conns : Still(s)
  BY CliSends, ChannelStill
<1>2. UNCHANGED <<bs, q, hand, entries, deliv>>
  BY <1>1 DEF broker
<1>3. \A k \in Keys : request'[k] = "none" => request[k] = "none"
  BY DEF Listens, Decide, Resolve, Deliver, GetAnswer, SeeClose, HandOver, Exit, native, Claimed,
         TypeOK
<1>4. (\A s \in Conns : Connection(s)') /\ NothingToTake' /\ (UNCHANGED <<channel, running>> => Channels')
  BY <1>1, <1>3, PlacedFrame
<1>5. Carded'
  BY <1>2 DEF Placed, Carded, HasCard
<1>6. Answers'
  <2>1. \A d \in Deliveries : deliv[d].key \in Keys
    BY DEF TypeOK, Delivery
  <2> QED BY <1>2, <1>3, <2>1 DEF Placed, Answers, Alive
<1>7. Channels /\ (sock # 0 => sock \in Conns)
  BY DEF Placed, TypeOK, Conns
<1>8. ASSUME NEW s \in Conns, SeeClose(s) PROVE Channels'
  <2>1. down[s] \in Seq(Message) /\ down[s] # <<>> /\ Head(down[s]).t = "close"
    BY <1>8 DEF SeeClose, TypeOK
  <2>2. ~Alive(s)
    BY <2>1, HeadKind DEF Placed, Connection
  <2>3. /\ sock' = (IF s = sock THEN 0 ELSE sock) /\ old' = (IF s = old THEN 0 ELSE old)
        /\ connected' = (connected /\ s # sock) /\ running' = running
    BY <1>8 DEF SeeClose
  <2>4. \A c \in Conns : (Alive(c)' <=> Alive(c)) /\ (c # s => down'[c] = down[c])
    BY <1>2, <1>8 DEF Alive, SeeClose, TypeOK
  <2>5. \A c \in Conns, k \in Keys : Token(c, k)' <=> Token(c, k)
    <3>1. UNCHANGED up
      BY <1>8 DEF SeeClose
    <3> QED BY <3>1, <1>2 DEF Token, Line, Held
  <2>6. old # 0 => old \in Conns
    BY DEF TypeOK, Conns
  <2> QED BY <1>2, <1>7, <2>2, <2>3, <2>4, <2>5, <2>6 DEF Channels
<1>9. ASSUME HandOver PROVE Channels'
  <2>1. PICK c \in Conns : c = sock
    BY <1>7, <1>9 DEF HandOver
  <2>2. Has(down[c], Kind("ready"))
    BY <1>9, <2>1, HeadKind DEF HandOver, TypeOK
  <2>3. bs[c] # "none" /\ bs[c] # "new"
    BY <2>1, <2>2, <1>7, <1>9 DEF Channels, Placed, Connection, HandOver
  <2>4. Alive(c) => \A k \in Keys : ~Token(c, k)
    BY <2>1, <2>2, <1>7, <1>9 DEF Channels, HandOver
  <2>5. sock' = 0 /\ old' = c /\ ~connected' /\ old = 0 /\ c # 0
    BY <1>9, <2>1 DEF HandOver
  <2>6. /\ bs'[c] \notin {"none", "new"}
        /\ Alive(c)' => \A k \in Keys : ~Token(c, k)'
    BY <1>1, <1>2, <2>3, <2>4 DEF Alive, Still
  <2>7. running' => \A a \in Conns : Alive(a)' => a = c
    BY <1>2, <1>7, <1>9, <2>1, <2>5 DEF Channels, HandOver, Alive, Conns
  <2> QED BY <2>5, <2>6, <2>7 DEF Channels
<1>10. ASSUME Exit PROVE Channels'
  BY <1>10 DEF Exit, Channels
<1>11. \/ \E s \in Conns : SeeClose(s)
       \/ HandOver \/ Exit
       \/ UNCHANGED <<channel, running>>
  BY DEF Listens, Decide, Resolve, Deliver, GetAnswer
<1> QED BY <1>4, <1>5, <1>6, <1>8, <1>9, <1>10, <1>11 DEF Placed

\* Questions go out on a connection that is ready.
LEMMA AskingPlaced ==
    ASSUME TypeOK, TypeOK', Placed, running, NEW c \in Conns, c = sock, bs[c] = "open",
           UNCHANGED <<broker, running>>, \A s \in Conns : Receives(s),
           NEW msgs \in Seq(Message), ~Has(msgs, Kind("hello")), up' = Sent(c, msgs),
           \A k \in Keys : /\ Once(msgs, PublishesOf(k))
                           /\ Has(msgs, PublishesOf(k)) => ~Token(c, k) /\ request'[k] # "none"
                           /\ request'[k] = "none" => request[k] = "none"
    PROVE  (\A s \in Conns : Connection(s)') /\ NothingToTake'
<1>1. UNCHANGED <<bs, q, hand, entries>> /\ Alive(c) /\ up[c] \in Seq(Message) /\ q[c] \in Seq(Message)
      /\ down[c] \in Seq(Message)
  BY DEF broker, Alive, TypeOK
<1>2. \A s \in Conns : s # c => up'[s] = up[s]
  BY DEF Sent, TypeOK
<1>3. \A s \in Conns : s # c => Still(s)
  BY <1>2, ChannelStill DEF Sends
<1>4. Line(c)' = Line(c) \o msgs /\ Line(c) \in Seq(Message)
  <2>1. up'[c] = up[c] \o msgs
    BY <1>1 DEF Sent, TypeOK
  <2>2. PICK w \in Seq(Message), v \in Seq(Message) : w = q[c] /\ v = up[c]
    BY <1>1
  <2>3. w \o (v \o msgs) = (w \o v) \o msgs /\ w \o v \in Seq(Message)
    BY LineSent, JoinHas
  <2> QED BY <1>1, <2>1, <2>2, <2>3 DEF Line
<1>5. ~Greeting(c)'
  <2>1. ~Greeting(c)
    BY DEF Placed, Connection
  <2> QED BY <2>1, <1>1, <1>4, JoinHas DEF Greeting
<1>6. Once(down'[c], Kind("ready")) /\ ~Has(down'[c], Kind("close"))
  <2>1. Once(down[c], Kind("ready")) /\ ~Has(down[c], Kind("close"))
    BY <1>1 DEF Placed, Connection
  <2>2. Quieter(down[c], down'[c])
    BY <1>1, QuieterWires DEF Receives
  <2> QED BY <2>1, <2>2 DEF Quieter, Thins
<1>7. ASSUME NEW k \in Keys PROVE Single(c, k)' /\ (Token(c, k)' => request'[k] # "none")
  <2>1. Single(c, k) /\ (Token(c, k) => request[k] # "none")
    BY <1>1 DEF Placed, Connection
  <2>2. /\ Has(Line(c)', PublishesOf(k)) <=> (Has(Line(c), PublishesOf(k)) \/ Has(msgs, PublishesOf(k)))
        /\ Once(Line(c), PublishesOf(k)) /\ ~(Has(Line(c), PublishesOf(k)) /\ Has(msgs, PublishesOf(k)))
              => Once(Line(c)', PublishesOf(k))
    BY <1>4, JoinHas
  <2>3. (Held(c, k)' <=> Held(c, k)) /\ entries'[k].sock = entries[k].sock
    BY <1>1 DEF Held
  <2> QED BY <2>1, <2>2, <2>3 DEF Single, Token
<1>8. Connection(c)'
  BY <1>1, <1>5, <1>6, <1>7 DEF Connection, Alive
<1>9. \A s \in Conns : Connection(s)'
  BY <1>3, <1>8, ConnectionKept DEF Placed
<1>10. \A s \in Conns : bs[s] # "new"
  <2>1. \A s \in Conns : Alive(s) => s \in {c, old}
    BY DEF Placed, Channels
  <2>2. old \in Conns => bs[old] # "new"
    BY DEF Placed, Channels, Conns
  <2> QED BY <2>1, <2>2 DEF Alive
<1> QED BY <1>1, <1>9, <1>10 DEF NothingToTake

LEMMA AskPlaced ==
    ASSUME TypeOK, TypeOK', Placed, NEW k \in Keys, Ask(k)
    PROVE  Placed'
<1>1. /\ running /\ request[k] = "none" /\ request' = [request EXCEPT ![k] = "open"]
      /\ UNCHANGED <<channel, down, broker, running>>
      /\ up' = IF connected THEN Sent(sock, <<Publish(k)>>) ELSE up
  BY DEF Ask
<1>2. UNCHANGED <<bs, q, hand, entries, deliv, sock, old, connected>> /\ \A s \in Conns : Receives(s)
  BY <1>1 DEF broker, channel, Receives
<1>3. \A j \in Keys : request'[j] = "none" => request[j] = "none"
  BY <1>1 DEF TypeOK
<1>4. Carded' /\ Answers'
  <2>1. \A d \in Deliveries : deliv[d].key \in Keys
    BY DEF TypeOK, Delivery
  <2> QED BY <1>2, <1>3, <2>1 DEF Placed, Carded, HasCard, Answers, Alive
<1>5. CASE \A s \in Conns : up'[s] = up[s]
  <2>1. \A s \in Conns : Still(s)
    BY <1>1, <1>2, <1>5, ChannelStill DEF Sends
  <2> QED BY <2>1, <1>1, <1>3, <1>4, PlacedFrame DEF Placed
<1>6. CASE ~\A s \in Conns : up'[s] = up[s]
  <2>1. connected /\ sock \in Conns /\ Alive(sock) /\ up' = Sent(sock, <<Publish(k)>>)
    BY <1>1, <1>6 DEF Sent, TypeOK
  <2>2. PICK c \in Conns : c = sock
    BY <2>1
  <2>3. bs[c] = "open" /\ Alive(c)
    BY <2>1, <2>2 DEF Placed, Channels, Alive
  <2>4. PICK m \in Message : m = Publish(k)
    BY Typed
  <2>5. <<m>> \in Seq(Message) /\ ~Has(<<m>>, Kind("hello"))
    BY <2>4, KindsOf, OneMessage
  <2>6. ~Token(c, k)
    BY <1>1, <2>3 DEF Placed, Connection
  <2>7. ASSUME NEW j \in Keys
        PROVE  /\ Once(<<m>>, PublishesOf(j))
               /\ Has(<<m>>, PublishesOf(j)) => ~Token(c, j) /\ request'[j] # "none"
    <3>1. Once(<<m>>, PublishesOf(j)) /\ (Has(<<m>>, PublishesOf(j)) => m \in PublishesOf(j))
      BY OneMessage
    <3>2. m \in PublishesOf(j) => j = k
      BY <2>4 DEF PublishesOf, Publish
    <3> QED BY <1>1, <2>6, <3>1, <3>2 DEF TypeOK
  <2>8. (\A s \in Conns : Connection(s)') /\ NothingToTake'
    BY <1>1, <1>2, <1>3, <2>1, <2>2, <2>3, <2>4, <2>5, <2>7, AskingPlaced
  <2>9. Channels'
    <3>1. \A a \in Conns : a # c => up'[a] = up[a]
      BY <2>1, <2>2 DEF Sent, TypeOK
    <3>2. \A a \in Conns : a # c => \A j \in Keys : Token(a, j)' <=> Token(a, j)
      BY <3>1, <1>2 DEF Token, Line, Held
    <3>3. old # 0 => old \in Conns /\ old # c
      BY <2>2 DEF Placed, Channels, TypeOK, Conns
    <3> QED BY <1>1, <1>2, <2>1, <2>2, <3>2, <3>3 DEF Placed, Channels, Alive
  <2> QED BY <1>4, <2>8, <2>9 DEF Placed
<1> QED BY <1>5, <1>6

LEMMA ReadyPlaced ==
    ASSUME TypeOK, TypeOK', WellFormed, Routed, Placed, Ready
    PROVE  Placed'
<1>1. /\ running /\ sock # 0 /\ down[sock] # <<>> /\ Head(down[sock]).t = "ready"
      /\ connected' = TRUE /\ down' = [down EXCEPT ![sock] = Tail(@)]
      /\ UNCHANGED <<native, sock, old, broker, running>>
  BY DEF Ready
<1>2. UNCHANGED <<bs, q, hand, entries, deliv, request>>
  BY <1>1 DEF broker, native
<1>3. PICK c \in Conns : c = sock
  BY <1>1 DEF TypeOK, Conns
<1>4. PICK f \in Orders(Pending) : up' = Sent(sock, [i \in DOMAIN f |-> Publish(f[i])])
  BY DEF Ready
<1> DEFINE msgs == [i \in DOMAIN f |-> Publish(f[i])]
<1>5. /\ msgs \in Seq(Message)
      /\ \A i \in DOMAIN msgs : \E k \in Pending : msgs[i] = Publish(k)
      /\ \A i, j \in DOMAIN msgs : msgs[i] = msgs[j] => i = j
  BY AllPublished
<1> HIDE DEF msgs
<1>6. up' = Sent(c, msgs)
  BY <1>3, <1>4 DEF msgs
<1>7. down[c] \in Seq(Message) /\ down[c] # <<>> /\ down'[c] = Tail(down[c])
      /\ \A s \in Conns : Receives(s)
  BY <1>1, <1>3 DEF TypeOK, Receives
<1>8. Head(down[c]) \in Kind("ready") /\ Has(down[c], Kind("ready"))
  BY <1>1, <1>3, <1>7, HeadKind, FirstOf DEF Kind
<1>9. Carded' /\ Answers'
  BY <1>2 DEF Placed, Carded, HasCard, Answers, Alive
<1>10. CASE ~Alive(c)
  <2>1. \A s \in Conns : up'[s] = up[s]
    BY <1>6, <1>10 DEF Sent, TypeOK
  <2>2. \A s \in Conns : Still(s)
    BY <1>1, <1>7, <2>1, ChannelStill DEF Sends
  <2>3. (\A s \in Conns : Connection(s)') /\ NothingToTake'
    BY <1>2, <2>2, PlacedFrame
  <2>4. Channels'
    <3>1. \A a \in Conns, k \in Keys : Token(a, k)' <=> Token(a, k)
      BY <2>1, <1>2 DEF Token, Line, Held
    <3>2. old # 0 => old \in Conns
      BY DEF TypeOK, Conns
    <3> QED BY <1>1, <1>2, <1>3, <1>10, <3>1, <3>2 DEF Placed, Channels, Alive
  <2> QED BY <1>9, <2>3, <2>4 DEF Placed
<1>11. CASE Alive(c)
  <2>1. bs[c] = "open"
    BY <1>8, <1>11 DEF Placed, Connection, Alive
  <2>2. \A k \in Keys : ~Token(c, k)
    BY <1>1, <1>3, <1>8, <1>11 DEF Placed, Channels
  <2>3. ~Has(msgs, Kind("hello"))
    <3>1. \A k \in Pending : Publish(k) \notin Kind("hello")
      BY KindsOf DEF Pending
    <3> QED BY <1>5, <3>1 DEF Has
  <2>4. ASSUME NEW k \in Keys
        PROVE  /\ Once(msgs, PublishesOf(k))
               /\ Has(msgs, PublishesOf(k)) => ~Token(c, k) /\ request'[k] # "none"
               /\ request'[k] = "none" => request[k] = "none"
    <3>1. \A j \in Pending : Publish(j) \in PublishesOf(k) => j = k
      BY DEF PublishesOf, Publish
    <3>2. Once(msgs, PublishesOf(k))
      <4> SUFFICES ASSUME NEW i \in DOMAIN msgs, NEW j \in DOMAIN msgs,
                          msgs[i] \in PublishesOf(k), msgs[j] \in PublishesOf(k)
                   PROVE  i = j
        BY DEF Once
      <4>1. msgs[i] = Publish(k) /\ msgs[j] = Publish(k)
        BY <1>5, <3>1
      <4> QED BY <4>1, <1>5
    <3>3. Has(msgs, PublishesOf(k)) => k \in Pending
      BY <1>5, <3>1 DEF Has
    <3>4. k \in Pending => request[k] # "none"
      BY DEF Routed, Native1, Pending
    <3> QED BY <1>2, <2>2, <3>2, <3>3, <3>4
  <2>5. (\A s \in Conns : Connection(s)') /\ NothingToTake'
    BY <1>1, <1>3, <1>5, <1>6, <1>7, <2>1, <2>3, <2>4, AskingPlaced
  <2>6. ~Has(down'[c], Kind("ready"))
    <3>1. Once(down[c], Kind("ready"))
      BY <2>1 DEF Placed, Connection
    <3> QED BY <1>7, <1>8, <3>1, TailHas
  <2>7. Channels'
    <3>1. \A a \in Conns : a # c => up'[a] = up[a]
      BY <1>6 DEF Sent, TypeOK
    <3>2. \A a \in Conns : a # c => \A j \in Keys : Token(a, j)' <=> Token(a, j)
      BY <3>1, <1>2 DEF Token, Line, Held
    <3>3. old # 0 => old \in Conns /\ old # c
      BY <1>3 DEF Placed, Channels, TypeOK, Conns
    <3> QED BY <1>1, <1>2, <1>3, <2>1, <2>6, <3>2, <3>3 DEF Placed, Channels, Alive
  <2> QED BY <1>9, <2>5, <2>7 DEF Placed
<1> QED BY <1>10, <1>11

LEMMA ConnectPlaced ==
    ASSUME TypeOK, TypeOK', Placed, NEW s \in Conns, Connect(s)
    PROVE  Placed'
<1>1. /\ running /\ sock = 0 /\ bs[s] = "none" /\ sock' = s /\ bs' = [bs EXCEPT ![s] = "new"]
      /\ up' = [up EXCEPT ![s] = <<Plain("hello")>>]
      /\ UNCHANGED <<native, connected, old, down, q, hand, entries, deliv, running>>
  BY DEF Connect
<1>2. bs'[s] = "new" /\ Unused(s) /\ s # 0
  BY <1>1 DEF Placed, Connection, TypeOK, Conns
<1>3. PICK m \in Message : m = Plain("hello")
  BY Typed
<1>4. Line(s)' = <<m>>
  <2>1. q'[s] = <<>> /\ up'[s] = <<m>>
    BY <1>1, <1>2, <1>3 DEF Unused, TypeOK
  <2>2. <<>> \o <<m>> = <<m>>
    OBVIOUS
  <2> QED BY <2>1, <2>2 DEF Line
<1>5. \A k \in Keys : m \notin PublishesOf(k)
  BY <1>3, KindsOf
<1>6. ASSUME NEW k \in Keys PROVE Single(s, k)' /\ ~Token(s, k)'
  <2>1. ~Has(Line(s)', PublishesOf(k)) /\ Once(Line(s)', PublishesOf(k))
    BY <1>4, <1>5, OneMessage
  <2>2. ~Held(s, k)'
    BY <1>1, <1>2 DEF Held, Unused
  <2>3. entries'[k].sock # s
    <3>1. entries[k].sock = s => HasCard(k)
      BY <1>2 DEF HasCard, NoCard
    <3> QED BY <1>1, <3>1 DEF Placed, Carded
  <2> QED BY <2>1, <2>2, <2>3 DEF Single, Token
<1>7. Connection(s)'
  <2>1. GreetsOnce(s)'
    BY <1>1, <1>2, <1>4, OneMessage DEF GreetsOnce, Unused
  <2>2. \A S : ~Has(down'[s], S)
    BY <1>1, <1>2, Emptied DEF Unused
  <2> QED BY <1>2, <1>6, <2>1, <2>2 DEF Connection
<1>8. \A c \in Conns : c # s => /\ bs'[c] = bs[c] /\ (Alive(c)' <=> Alive(c)) /\ up'[c] = up[c]
                                /\ Line(c)' = Line(c)
                                /\ \A k \in Keys : (Token(c, k)' <=> Token(c, k))
                                                   /\ (Single(c, k)' <=> Single(c, k))
  BY <1>1 DEF Alive, Line, Token, Single, Held, TypeOK
<1>9. ASSUME NEW c \in Conns, c # s PROVE Connection(c)'
  <2>1. Connection(c) /\ UNCHANGED request
    BY <1>1 DEF Placed, native
  <2> QED BY <1>1, <1>8, <1>9, <2>1 DEF Connection, Unused, Greeting, GreetsOnce
<1>10. \A c \in Conns : c # s /\ Alive(c) => c = old
  BY <1>1 DEF Placed, Channels, Conns
<1>11. NothingToTake'
  <2> SUFFICES ASSUME NEW c \in Conns, Alive(c)', NEW k \in Keys PROVE ~Token(c, k)'
    BY DEF NothingToTake
  <2>1. CASE c = s
    BY <2>1, <1>6
  <2>2. CASE c # s
    BY <2>2, <1>8, <1>10 DEF Placed, Channels, Conns
  <2> QED BY <2>1, <2>2
<1>12. Channels'
  <2>1. old # 0 => old \in Conns /\ old # s
    BY <1>1 DEF Placed, Channels, TypeOK, Conns
  <2>2. ~connected /\ \A k \in Keys : ~Has(down'[s], AnswersFor(k))
    BY <1>1, <1>2, Emptied DEF Placed, Channels, Unused
  <2> QED BY <1>1, <1>2, <1>6, <1>8, <1>10, <2>1, <2>2 DEF Placed, Channels
<1>13. Carded'
  BY <1>1 DEF Placed, Carded, HasCard, TypeOK
<1>14. Answers'
  BY <1>1, <1>8 DEF Placed, Answers, native
<1> QED BY <1>7, <1>9, <1>11, <1>12, <1>13, <1>14 DEF Placed

-----------------------------------------------------------------------------
(* The steps of the broker.                                                                 *)

LEMMA BrokerPlaced ==
    ASSUME TypeOK, TypeOK', Placed, \A s \in Conns : Still(s), UNCHANGED <<native, channel, running>>,
           Carded', Answers'
    PROVE  Placed'
BY PlacedFrame DEF native, Placed

LEMMA AnswersFrame ==
    ASSUME TypeOK, TypeOK', Placed, \A s \in Conns : Still(s), UNCHANGED native,
           \A d \in Deliveries :
              /\ deliv'[d].status # "none" =>
                    deliv[d].status # "none" /\ deliv'[d].key = deliv[d].key /\ deliv'[d].sock = deliv[d].sock
              /\ deliv'[d].status = "sent" => deliv'[d] = deliv[d],
           \A s \in Conns : hand[s].at = "auto" /\ Alive(s)' =>
              hand'[s] = hand[s] \/ deliv'[hand[s].d].status # "sent"
    PROVE  Answers'
<1>1. UNCHANGED request
  BY DEF native
<1>2. \A d \in Deliveries : deliv'[d].status # "none" =>
         request'[deliv'[d].key] # "none" /\ deliv'[d].sock \in Conns
  BY <1>1 DEF Placed, Answers
<1>3. ASSUME NEW d \in Deliveries, NEW s \in Conns, deliv'[d].status = "sent", deliv'[d].by = "auto",
             deliv'[d].sock = s
      PROVE  /\ bs'[s] # "none"
             /\ Alive(s)' => hand'[s] = [at |-> "auto", key |-> deliv'[d].key, d |-> d]
  <2>1. /\ deliv'[d] = deliv[d] /\ bs[s] # "none"
        /\ Alive(s) => hand[s] = [at |-> "auto", key |-> deliv[d].key, d |-> d]
    BY <1>3 DEF Placed, Answers
  <2>2. bs'[s] # "none" /\ (Alive(s)' => Alive(s))
    BY <2>1 DEF Still, Alive
  <2>3. Alive(s)' => hand'[s] = hand[s]
    BY <1>3, <2>1, <2>2
  <2> QED BY <2>1, <2>2, <2>3
<1> QED BY <1>2, <1>3 DEF Answers

LEMMA QuietHand == Quiet.at = "idle" /\ \A k \in Keys : Quiet.at # "auto" /\ Quiet.at # "hello"
BY DEF Quiet

\* The line and the handler of one connection.
LEMMA QueuePlaced ==
    ASSUME TypeOK, TypeOK', Placed, NEW s \in Conns, Queue(s)
    PROVE  Placed'
<1>1. /\ Alive(s) /\ up[s] # <<>> /\ up' = [up EXCEPT ![s] = Tail(@)]
      /\ q' = [q EXCEPT ![s] = Append(@, Head(up[s]))]
      /\ UNCHANGED <<native, channel, down, bs, hand, entries, deliv, running>>
  BY DEF Queue
<1>2. ASSUME NEW c \in Conns PROVE Still(c)
  <2>1. /\ up'[c] = IF c = s THEN Tail(up[c]) ELSE up[c]
        /\ q'[c] = IF c = s THEN Append(q[c], Head(up[c])) ELSE q[c]
        /\ UNCHANGED <<hand, entries, bs>> /\ down'[c] = down[c]
    BY <1>1 DEF TypeOK
  <2>2. Eased(c)
    BY <1>1, <2>1 DEF Eased, LineThins, Held
  <2>3. Quieter(down[c], down'[c])
    BY <2>1, QuieterWires DEF TypeOK
  <2>4. Unused(c) => bs'[c] # "none" \/ Unused(c)'
    BY <1>1, <2>1 DEF Unused
  <2> QED BY <2>1, <2>2, <2>3, <2>4, EasedIsStill
<1>3. Carded'
  BY <1>1 DEF Placed, Carded, HasCard
<1>4. Answers'
  BY <1>1, <1>2, AnswersFrame
<1> QED BY <1>1, <1>2, <1>3, <1>4, BrokerPlaced

LEMMA HandleResolvedPlaced ==
    ASSUME TypeOK, TypeOK', Placed, NEW s \in Conns, HandleResolved(s)
    PROVE  Placed'
<1>1. /\ q[s] # <<>> /\ q' = [q EXCEPT ![s] = Tail(@)]
      /\ UNCHANGED <<native, channel, up, down, bs, hand, deliv, running>>
  BY DEF HandleResolved, Next1, Popped
<1>2. \A k \in Keys : entries'[k] \in {entries[k], NoCard}
  BY DEF HandleResolved, Without
<1>3. ASSUME NEW c \in Conns PROVE Still(c)
  <2>1. /\ up'[c] = up[c] /\ q'[c] = (IF c = s THEN Tail(q[c]) ELSE q[c])
        /\ UNCHANGED <<hand, bs>> /\ down'[c] = down[c]
    BY <1>1 DEF TypeOK
  <2>2. Eased(c)
    <3>1. NoCard.sock # c
      BY DEF NoCard, Conns
    <3> QED BY <1>1, <1>2, <2>1, <3>1 DEF Eased, LineThins, Held
  <2>3. Quieter(down[c], down'[c])
    BY <2>1, QuieterWires DEF TypeOK
  <2>4. Unused(c) => bs'[c] # "none" \/ Unused(c)'
    BY <1>1, <2>1 DEF Unused
  <2> QED BY <2>1, <2>2, <2>3, <2>4, EasedIsStill
<1>4. Carded'
  BY <1>1, <1>2 DEF Placed, Carded, HasCard
<1>5. Answers'
  BY <1>1, <1>3, AnswersFrame
<1> QED BY <1>1, <1>3, <1>4, <1>5, BrokerPlaced

LEMMA BeginPlaced ==
    ASSUME TypeOK, TypeOK', Placed, NEW s \in Conns, Begin(s)
    PROVE  Placed'
<1> DEFINE m == Head(q[s])
           h == [at |-> m.t, key |-> m.key, d |-> 0]
<1>1. /\ hand[s] = Quiet /\ q[s] # <<>> /\ q' = [q EXCEPT ![s] = Tail(@)]
      /\ m.t \in {"hello", "publish"} /\ m \in Message
      /\ UNCHANGED <<native, channel, up, down, bs, entries, deliv, running>>
      /\ \/ hand' = hand
         \/ hand' = [hand EXCEPT ![s] = h] /\ ~(m.t = "publish" /\ HasCard(m.key))
  BY FirstOf DEF Begin, Next1, Popped, TypeOK
<1>2. up[s] \in Seq(Message) /\ q[s] \in Seq(Message) /\ hand \in [Conns -> Handler]
  BY DEF TypeOK
<1>3. h.at = m.t /\ h.key = m.key
  OBVIOUS
<1>4. /\ Line(s)' = Tail(Line(s)) /\ Head(Line(s)) = m /\ Line(s) # <<>> /\ Line(s) \in Seq(Message)
  <2>1. q'[s] = Tail(q[s]) /\ up'[s] = up[s]
    BY <1>1, <1>2 DEF TypeOK
  <2> QED BY <1>1, <1>2, <2>1, LineTail DEF Line
<1> HIDE DEF m, h
<1>5. ASSUME NEW c \in Conns, c # s \/ hand' = hand PROVE Still(c)
  <2>1. /\ up'[c] = up[c] /\ q'[c] = (IF c = s THEN Tail(q[c]) ELSE q[c])
        /\ UNCHANGED <<bs, entries>> /\ down'[c] = down[c] /\ hand'[c] = hand[c]
    BY <1>1, <1>2, <1>5 DEF TypeOK
  <2>2. Eased(c)
    BY <1>1, <2>1 DEF Eased, LineThins, Held
  <2>3. Quieter(down[c], down'[c])
    BY <2>1, QuieterWires DEF TypeOK
  <2>4. Unused(c) => bs'[c] # "none" \/ Unused(c)'
    BY <1>1, <2>1 DEF Unused
  <2> QED BY <2>1, <2>2, <2>3, <2>4, EasedIsStill
<1>6. ASSUME hand' # hand PROVE Still(s)
  <2>1. hand'[s] = h /\ hand[s].at = "idle" /\ ~(m.t = "publish" /\ HasCard(m.key))
    BY <1>1, <1>2, <1>6, QuietHand
  <2>2. \A S : Thins(Line(s), Line(s)', S) /\ (m \in S => Has(Line(s), S))
               /\ (Once(Line(s), S) /\ m \in S => ~Has(Line(s)', S))
    BY <1>4, TailHas DEF Thins
  <2>3. (Greeting(s)' => Greeting(s)) /\ (GreetsOnce(s) => GreetsOnce(s)')
    <3>1. m.t = "hello" <=> m \in Kind("hello")
      BY <1>1 DEF Kind
    <3> QED BY <1>3, <2>1, <2>2, <3>1 DEF Greeting, GreetsOnce, Thins
  <2>4. ASSUME NEW k \in Keys
        PROVE  (Token(s, k)' => Token(s, k)) /\ (Single(s, k) => Single(s, k)')
    <3>1. m.t = "publish" /\ m.key = k <=> m \in PublishesOf(k)
      BY <1>1 DEF PublishesOf
    <3>2. Held(s, k)' <=> m \in PublishesOf(k)
      BY <1>1, <1>3, <2>1, <3>1 DEF Held
    <3>3. ~Held(s, k) /\ entries'[k].sock = entries[k].sock
      BY <1>1, <2>1 DEF Held
    <3> QED BY <2>2, <3>2, <3>3 DEF Token, Single, Thins
  <2>5. Quieter(down[s], down'[s]) /\ bs'[s] = bs[s] /\ down'[s] = down[s]
    BY <1>1, QuieterWires DEF TypeOK
  <2>6. ~Unused(s)
    BY <1>1 DEF Unused
  <2> QED BY <2>3, <2>4, <2>5, <2>6 DEF Still, Quieter
<1>7. \A c \in Conns : Still(c)
  BY <1>5, <1>6
<1>8. Carded'
  BY <1>1 DEF Placed, Carded, HasCard
<1>9. Answers'
  <2>1. \A c \in Conns : hand[c].at = "auto" => hand'[c] = hand[c]
    BY <1>1, <1>2, QuietHand
  <2> QED BY <1>1, <1>7, <2>1, AnswersFrame
<1> QED BY <1>1, <1>7, <1>8, <1>9, BrokerPlaced

\* A handler moves on, or its connection is refused.
LEMMA ReadPlaced ==
    ASSUME TypeOK, TypeOK', Placed, NEW s \in Conns, SessionRead(s) \/ HandlerFails(s)
    PROVE  Placed'
<1>1. /\ hand[s].at = "publish"
      /\ UNCHANGED <<native, channel, up, down, entries, deliv, running>>
      /\ \/ hand' = [hand EXCEPT ![s].at = "prepare"] /\ UNCHANGED <<bs, q>>
         \/ ~Alive(s) /\ hand' = [hand EXCEPT ![s] = Quiet] /\ UNCHANGED <<bs, q>>
         \/ Alive(s) /\ Refused(s)
  BY DEF SessionRead, HandlerFails
<1>2. hand \in [Conns -> Handler] /\ q \in [Conns -> Seq(Message)]
      /\ bs \in [Conns -> {"none", "new", "open", "destroyed", "closed"}]
  BY DEF TypeOK
<1>3. /\ \A c \in Conns : c # s => bs'[c] = bs[c] /\ q'[c] = q[c] /\ hand'[c] = hand[c]
      /\ bs'[s] = bs[s] \/ (Alive(s) /\ bs'[s] = "destroyed")
      /\ bs'[s] = bs[s] /\ Alive(s) => q'[s] = q[s] /\ hand'[s].at = "prepare" /\ hand'[s].key = hand[s].key
  <2>1. CASE hand' = [hand EXCEPT ![s].at = "prepare"] /\ UNCHANGED <<bs, q>>
    <3>1. hand'[s].at = "prepare" /\ hand'[s].key = hand[s].key
      BY <1>2, <2>1 DEF Handler
    <3> QED BY <1>2, <2>1, <3>1
  <2>2. CASE ~Alive(s) /\ hand' = [hand EXCEPT ![s] = Quiet] /\ UNCHANGED <<bs, q>>
    BY <1>2, <2>2
  <2>3. CASE Alive(s) /\ Refused(s)
    BY <1>2, <2>3 DEF Refused, Alive
  <2> QED BY <1>1, <2>1, <2>2, <2>3
<1>4. ASSUME NEW c \in Conns PROVE Still(c)
  <2>1. Alive(c)' => /\ bs'[c] = bs[c] /\ q'[c] = q[c]
                     /\ hand'[c] = hand[c] \/ (c = s /\ hand'[c].at = "prepare" /\ hand'[c].key = hand[c].key)
    BY <1>3 DEF Alive
  <2>2. Alive(c)' => Eased(c)
    BY <1>1, <2>1 DEF Eased, LineThins, Held
  <2>3. Quieter(down[c], down'[c]) /\ down'[c] = down[c]
    BY <1>1, QuieterWires DEF TypeOK
  <2>4. Unused(c) => bs'[c] # "none" \/ Unused(c)'
    BY <1>1, <1>3 DEF Unused
  <2>5. bs'[c] = bs[c] \/ (bs[c] # "none" /\ bs'[c] \in {"destroyed", "closed"})
    BY <1>3 DEF Alive
  <2> QED BY <2>2, <2>3, <2>4, <2>5, EasedIsStill
<1>5. Carded'
  BY <1>1, <1>3 DEF Placed, Carded, HasCard
<1>6. Answers'
  BY <1>1, <1>3, <1>4, AnswersFrame
<1> QED BY <1>1, <1>4, <1>5, <1>6, BrokerPlaced

\* A handler ends and shows its card.
LEMMA ShownStill ==
    ASSUME TypeOK, TypeOK', Placed, NEW s \in Conns, NEW k \in Keys, Alive(s) => Held(s, k),
           hand' = [hand EXCEPT ![s] = Quiet], Shown(s, k), UNCHANGED <<bs, q, down>>,
           \A c \in Conns : \/ up'[c] = up[c]
                            \/ up[c] # <<>> /\ up'[c] = Tail(up[c])
    PROVE  (\A c \in Conns : Still(c)) /\ Carded'
<1>1. /\ \A j \in Keys : j # k => entries'[j] = entries[j]
      /\ entries'[k] = entries[k]
         \/ (Alive(s) /\ ~HasCard(k) /\ entries'[k].sock = s)
  BY DEF Shown, TypeOK
<1>2. hand'[s].at = "idle" /\ \A c \in Conns : c # s => hand'[c] = hand[c]
  BY QuietHand DEF TypeOK
<1>3. ASSUME NEW c \in Conns
      PROVE  /\ \A S : LineThins(c, S)
             /\ Quieter(down[c], down'[c]) /\ down'[c] = down[c] /\ bs'[c] = bs[c]
             /\ Unused(c) => Unused(c)'
             /\ \A j \in Keys : Held(c, j)' => Held(c, j)
             /\ hand'[c].at = "hello" => hand[c].at = "hello"
  <2>1. Quieter(down[c], down'[c])
    BY QuieterWires DEF TypeOK
  <2>2. q'[c] = q[c]
    OBVIOUS
  <2>3. \A S : LineThins(c, S)
    BY <2>2 DEF LineThins
  <2>4. hand'[c] = hand[c] \/ hand'[c].at = "idle"
    BY <1>2
  <2> QED BY <2>1, <2>2, <2>3, <2>4 DEF Unused, Held
<1>4. ASSUME NEW c \in Conns, \A j \in Keys : entries'[j].sock = c => entries[j].sock = c PROVE Still(c)
  <2>1. Eased(c)
    BY <1>3, <1>4 DEF Eased
  <2> QED BY <1>3, <2>1, EasedIsStill
<1>5. \A c \in Conns : c # s => Still(c)
  BY <1>1, <1>4
<1>6. CASE \A j \in Keys : entries'[j].sock = s => entries[j].sock = s
  <2>1. \A c \in Conns : Still(c)
    BY <1>4, <1>5, <1>6
  <2>2. Carded'
    <3>1. \A j \in Keys : entries'[j] = entries[j] \/ entries[k].sock = s
      BY <1>1, <1>6
    <3>2. Alive(s) => entries[k].sock # s
      BY DEF Placed, Connection, Single
    <3>3. \A j \in Keys : entries'[j] = entries[j]
      BY <1>1, <1>6, <3>2
    <3> QED BY <3>3 DEF Placed, Carded, HasCard
  <2> QED BY <2>1, <2>2
<1>7. CASE ~\A j \in Keys : entries'[j].sock = s => entries[j].sock = s
  <2>1. Alive(s) /\ Held(s, k) /\ entries'[k].sock = s /\ \A j \in Keys : ~Held(s, j)'
    BY <1>1, <1>2, <1>7 DEF Held
  <2>2. ASSUME NEW j \in Keys
        PROVE  (Token(s, j)' => Token(s, j)) /\ (Single(s, j) => Single(s, j)')
    <3>1. Thins(Line(s), Line(s)', PublishesOf(j))
      BY <1>3, LineThinner
    <3>2. CASE j = k
      BY <2>1, <3>1, <3>2 DEF Token, Single, Thins
    <3>3. CASE j # k
      BY <1>1, <2>1, <3>1, <3>3 DEF Token, Single, Thins
    <3> QED BY <3>2, <3>3
  <2>3. (Greeting(s)' => Greeting(s)) /\ (GreetsOnce(s) => GreetsOnce(s)')
    <3>1. Thins(Line(s), Line(s)', Kind("hello"))
      BY <1>3, LineThinner
    <3> QED BY <1>3, <3>1 DEF Greeting, GreetsOnce, Thins
  <2>4. Still(s)
    BY <1>3, <2>2, <2>3 DEF Still, Quieter
  <2>5. bs[s] = "open"
    BY <2>1 DEF Placed, NothingToTake, Token, Alive
  <2>6. Carded'
    BY <1>1, <2>1, <2>5 DEF Placed, Carded, HasCard
  <2> QED BY <1>5, <2>4, <2>6
<1> QED BY <1>6, <1>7

LEMMA ShowPlaced ==
    ASSUME TypeOK, TypeOK', Placed, NEW s \in Conns, Show(s)
    PROVE  Placed'
<1>1. /\ hand[s].at = "prepare" /\ hand' = [hand EXCEPT ![s] = Quiet]
      /\ UNCHANGED <<native, channel, up, down, bs, q, deliv, running>>
  BY DEF Show
<1>2. PICK k \in Keys : k = hand[s].key
  BY DEF TypeOK, Handler
<1>3. Held(s, k) /\ Shown(s, k)
  BY <1>1, <1>2 DEF Held, Show
<1>4. (\A c \in Conns : Still(c)) /\ Carded'
  BY <1>1, <1>3, ShownStill
<1>5. Answers'
  <2>1. \A c \in Conns : hand[c].at = "auto" => hand'[c] = hand[c]
    BY <1>1 DEF TypeOK
  <2> QED BY <1>1, <1>4, <2>1, AnswersFrame
<1> QED BY <1>1, <1>4, <1>5, BrokerPlaced

\* A delivery ends: by its result, which is taken off the wire, or by its ten seconds.
LEMMA EndPlaced ==
    ASSUME TypeOK, TypeOK', Placed, NEW d \in Deliveries, NEW s, NEW k \in Keys,
           deliv[d].status = "sent", deliv[d].sock = s, deliv[d].key = k,
           NEW st \in {"answered", "stale", "unknown"}, deliv' = Finished({d}, st),
           UNCHANGED <<native, channel, down, bs, q, running>>,
           \A c \in Conns : \/ up'[c] = up[c]
                            \/ up[c] # <<>> /\ up'[c] = Tail(up[c]),
           hand' = IF deliv[d].by = "auto" THEN [hand EXCEPT ![s] = Quiet] ELSE hand,
           \/ deliv[d].by = "auto" /\ Shown(s, k)
           \/ entries' = Ended(entries, {d}, st)
    PROVE  Placed'
<1>1. s \in Conns
  BY DEF Placed, Answers
<1>2. deliv'[d].status # "sent" /\ deliv'[d].key = k /\ deliv'[d].sock = s
      /\ \A e \in Deliveries : e # d => deliv'[e] = deliv[e]
  <2>1. deliv'[d] = [deliv[d] EXCEPT !.status = st]
    BY DEF Finished
  <2>2. deliv[d] \in Delivery
    BY DEF TypeOK
  <2>3. \A e \in Deliveries : e # d => deliv'[e] = deliv[e]
    BY DEF Finished
  <2> QED BY <2>1, <2>2, <2>3 DEF Delivery
<1>3. deliv[d].by = "auto" /\ Alive(s) => hand[s] = [at |-> "auto", key |-> k, d |-> d]
  BY <1>1 DEF Placed, Answers
<1>4. (\A c \in Conns : Still(c)) /\ Carded'
  <2>1. CASE deliv[d].by = "auto" /\ Shown(s, k)
    <3>1. Alive(s) => Held(s, k)
      BY <2>1, <1>3 DEF Held
    <3> QED BY <1>1, <2>1, <3>1, ShownStill
  <2>2. CASE entries' = Ended(entries, {d}, st)
    <3>1. \A j \in Keys : entries'[j].sock = entries[j].sock \/ entries'[j] = NoCard
      <4>1. CASE st \in {"answered", "stale"}
        BY <2>2, <4>1 DEF Ended, Without
      <4>2. CASE st \notin {"answered", "stale"}
        <5>1. \A j \in Keys : [entries[j] EXCEPT !.status = "unknown"].sock = entries[j].sock
          BY DEF TypeOK, Card
        <5> QED BY <2>2, <4>2, <5>1 DEF Ended
      <4> QED BY <4>1, <4>2
    <3>2. \A j \in Keys : HasCard(j)' => HasCard(j) /\ entries'[j].sock = entries[j].sock
      <4> SUFFICES ASSUME NEW j \in Keys, HasCard(j)' PROVE HasCard(j) /\ entries'[j].sock = entries[j].sock
        OBVIOUS
      <4>1. entries'[j].sock = entries[j].sock
        BY <3>1 DEF HasCard, NoCard
      <4>2. HasCard(j)
        <5>1. CASE st \in {"answered", "stale"}
          BY <2>2, <5>1 DEF Ended, Without, HasCard, NoCard
        <5>2. CASE st \notin {"answered", "stale"}
          <6>1. entries[j].claim \notin {d} => entries'[j] = entries[j]
            BY <2>2, <5>2 DEF Ended
          <6>2. d # 0
            BY DEF Deliveries
          <6> QED BY <6>1, <6>2 DEF HasCard, NoCard
        <5> QED BY <5>1, <5>2
      <4> QED BY <4>1, <4>2
    <3>3. ASSUME NEW c \in Conns PROVE Still(c)
      <4>1. hand'[c] = hand[c] \/ hand'[c].at = "idle"
        BY QuietHand DEF TypeOK
      <4>2. Eased(c)
        <5>1. NoCard.sock # c
          BY DEF NoCard, Conns
        <5> QED BY <3>1, <4>1, <5>1 DEF Eased, LineThins, Held
      <4>3. Quieter(down[c], down'[c])
        BY QuieterWires DEF TypeOK
      <4>4. Unused(c) => bs'[c] # "none" \/ Unused(c)'
        BY <4>1 DEF Unused
      <4> QED BY <4>2, <4>3, <4>4, EasedIsStill
    <3>4. Carded'
      BY <3>2 DEF Placed, Carded
    <3> QED BY <3>3, <3>4
  <2> QED BY <2>1, <2>2
<1>5. Answers'
  <2>1. ASSUME NEW c \in Conns, hand[c].at = "auto", Alive(c)'
        PROVE  hand'[c] = hand[c] \/ deliv'[hand[c].d].status # "sent"
    <3>1. CASE hand'[c] # hand[c]
      <4>1. c = s /\ deliv[d].by = "auto" /\ Alive(s)
        BY <1>4, <2>1, <3>1 DEF TypeOK, Alive
      <4>2. hand[c].d = d
        BY <1>3, <4>1
      <4> QED BY <1>2, <4>2
    <3> QED BY <3>1
  <2>2. \A e \in Deliveries :
           /\ deliv'[e].status # "none" =>
                 deliv[e].status # "none" /\ deliv'[e].key = deliv[e].key /\ deliv'[e].sock = deliv[e].sock
           /\ deliv'[e].status = "sent" => deliv'[e] = deliv[e]
    BY <1>2
  <2> QED BY <1>4, <2>1, <2>2, AnswersFrame
<1> QED BY <1>4, <1>5, BrokerPlaced

LEMMA TimeoutPlaced ==
    ASSUME TypeOK, TypeOK', Placed, NEW d \in Deliveries, Timeout(d)
    PROVE  Placed'
<1>0. PICK s : s = deliv[d].sock
  OBVIOUS
<1>1. PICK k \in Keys : s = deliv[d].sock /\ k = deliv[d].key
  BY <1>0 DEF TypeOK, Delivery
<1>2. /\ deliv[d].status = "sent" /\ deliv' = Finished({d}, "unknown")
      /\ UNCHANGED <<native, channel, down, bs, q, running, up>>
      /\ hand' = IF deliv[d].by = "auto" THEN [hand EXCEPT ![s] = Quiet] ELSE hand
      /\ \/ deliv[d].by = "auto" /\ Shown(s, k)
         \/ entries' = Ended(entries, {d}, "unknown")
  BY <1>1 DEF Timeout
<1> QED BY <1>1, <1>2, EndPlaced

LEMMA GetResultPlaced ==
    ASSUME TypeOK, TypeOK', WellFormed, Routed, Placed, NEW s \in Conns, GetResult(s)
    PROVE  Placed'
<1>1. PICK m \in Message : m = Head(up[s]) /\ m \notin Malformed
  <2>1. up[s] \in Seq(Message) /\ up[s] # <<>> /\ ~Has(up[s], Malformed)
    BY DEF GetResult, TypeOK, WellFormed
  <2> QED BY <2>1, HeadIn
<1>2. /\ up[s] # <<>> /\ m.t = "result" /\ up' = [up EXCEPT ![s] = Tail(@)]
      /\ UNCHANGED <<native, channel, down, bs, q, running>>
  BY <1>1 DEF GetResult
<1>3. PICK d \in Deliveries, st \in {"answered", "stale", "unknown"} : d = m.d /\ st = m.status
  BY <1>1, <1>2 DEF Message, Malformed, Deliveries
<1>4. \A c \in Conns : \/ up'[c] = up[c]
                       \/ up[c] # <<>> /\ up'[c] = Tail(up[c])
  BY <1>2 DEF TypeOK
<1>5. CASE deliv[d].status # "sent" \/ deliv[d].sock # s
  <2>1. UNCHANGED <<hand, entries, deliv>>
    BY <1>1, <1>3, <1>5 DEF GetResult
  <2>2. ASSUME NEW c \in Conns PROVE Still(c)
    <3>1. Eased(c)
      BY <1>2, <1>4, <2>1 DEF Eased, LineThins, Held
    <3>2. Quieter(down[c], down'[c])
      BY <1>2, QuieterWires DEF TypeOK
    <3>3. Unused(c) => bs'[c] # "none" \/ Unused(c)'
      BY <1>2, <1>4, <2>1 DEF Unused
    <3> QED BY <1>2, <3>1, <3>2, <3>3, EasedIsStill
  <2>3. Carded'
    BY <1>2, <2>1 DEF Placed, Carded, HasCard
  <2>4. Answers'
    BY <1>2, <2>1, <2>2, AnswersFrame
  <2> QED BY <1>2, <2>2, <2>3, <2>4, BrokerPlaced
<1>6. CASE deliv[d].status = "sent" /\ deliv[d].sock = s
  <2>1. PICK k \in Keys : k = deliv[d].key
    BY DEF TypeOK, Delivery
  <2>2. m.key = k
    <3>1. Head(up[s]) \notin Misaddressed
      <4>1. up[s] \in Seq(Message) /\ ~Has(up[s], Misaddressed)
        BY DEF TypeOK, Routed, Addressed
      <4> QED BY <1>2, <4>1, HeadIn
    <3> QED BY <1>1, <1>2, <1>3, <2>1, <3>1 DEF Misaddressed
  <2>3. /\ deliv' = Finished({d}, st)
        /\ hand' = IF deliv[d].by = "auto" THEN [hand EXCEPT ![s] = Quiet] ELSE hand
        /\ \/ deliv[d].by = "auto" /\ Shown(s, k)
           \/ entries' = Ended(entries, {d}, st)
    BY <1>1, <1>3, <1>6, <2>2 DEF GetResult
  <2> QED BY <1>2, <1>4, <1>6, <2>1, <2>3, EndPlaced
<1> QED BY <1>5, <1>6

\* An answer goes out on the connection that holds its request.
LEMMA AnsweringPlaced ==
    ASSUME TypeOK, TypeOK', Placed, NEW d \in Deliveries, NEW k \in Keys, NEW s \in Conns,
           NEW by \in {"auto", "chat"}, NEW ho \in BOOLEAN, Answering(d, k, s, by, ho),
           Alive(s), Token(s, k), UNCHANGED <<native, channel, up, bs, q, running>>,
           \/ by = "chat" /\ UNCHANGED hand
           \/ by = "auto" /\ hand[s].at = "prepare" /\ hand[s].key = k
              /\ hand' = [hand EXCEPT ![s] = [at |-> "auto", key |-> k, d |-> d]],
           \A j \in Keys : entries'[j].sock = entries[j].sock /\ (HasCard(j)' => HasCard(j))
    PROVE  Placed'
<1> DEFINE m == [t |-> "answer", key |-> k, d |-> d, status |-> "none"]
           x == [key |-> k, sock |-> s, by |-> by, handoff |-> ho, status |-> "sent"]
           h == [at |-> "auto", key |-> k, d |-> d]
<1>1. /\ deliv[d].status = "none" /\ deliv' = [deliv EXCEPT ![d] = x]
      /\ down' = [down EXCEPT ![s] = Append(@, m)]
  BY DEF Answering, FreeDelivery
<1>2. m \in Message /\ m.t = "answer" /\ m.key = k
  BY BrokerAssumption DEF Message, Deliveries
<1>3. x.key = k /\ x.sock = s /\ x.by = by /\ x.status = "sent" /\ h.at = "auto" /\ h.key = k
  OBVIOUS
<1>4. deliv \in [Deliveries -> Delivery] /\ down \in [Conns -> Seq(Message)] /\ hand \in [Conns -> Handler]
  BY DEF TypeOK
<1> HIDE DEF m, x
<1>5. /\ deliv'[d] = x /\ \A e \in Deliveries : e # d => deliv'[e] = deliv[e]
      /\ down'[s] = Append(down[s], m) /\ \A c \in Conns : c # s => down'[c] = down[c]
  BY <1>1, <1>4
<1>6. /\ \A c \in Conns : c # s => hand'[c] = hand[c]
      /\ \/ by = "chat" /\ hand'[s] = hand[s]
         \/ by = "auto" /\ hand[s].at = "prepare" /\ hand[s].key = k /\ hand'[s] = h
  BY <1>4
<1>7. ASSUME NEW c \in Conns PROVE Still(c)
  <2>1. Eased(c)
    BY <1>3, <1>6 DEF Eased, LineThins, Held
  <2>2. Quieter(down[c], down'[c])
    BY <1>2, <1>4, <1>5, QuieterWires
  <2>3. \A j \in Keys : Has(down'[c], AnswersFor(j)) => Has(down[c], AnswersFor(j)) \/ Token(c, j)
    <3> SUFFICES ASSUME NEW j \in Keys, Has(down'[c], AnswersFor(j)), ~Has(down[c], AnswersFor(j))
                 PROVE  Token(c, j)
      OBVIOUS
    <3>1. c = s
      BY <1>5
    <3>2. Has(Append(down[s], m), AnswersFor(j)) => Has(down[s], AnswersFor(j)) \/ m \in AnswersFor(j)
      BY <1>2, <1>4, AppendHas
    <3>3. j = k
      BY <1>2, <1>5, <3>1, <3>2 DEF AnswersFor
    <3> QED BY <3>1, <3>3
  <2>4. Unused(c) => bs'[c] # "none" \/ Unused(c)'
    BY <1>5, <1>6 DEF Alive, Unused
  <2> QED BY <2>1, <2>2, <2>3, <2>4, EasedIsStill
<1>8. Carded'
  BY DEF Placed, Carded
<1>9. Answers'
  <2>1. request[k] # "none" /\ request' = request
    BY DEF Placed, Connection, native
  <2>2. \A e \in Deliveries : deliv'[e].status # "none" =>
           request'[deliv'[e].key] # "none" /\ deliv'[e].sock \in Conns
    BY <1>3, <1>5, <2>1 DEF Placed, Answers
  <2>3. ASSUME NEW e \in Deliveries, NEW c \in Conns, deliv'[e].status = "sent",
               deliv'[e].by = "auto", deliv'[e].sock = c
        PROVE  /\ bs'[c] # "none"
               /\ Alive(c)' => hand'[c] = [at |-> "auto", key |-> deliv'[e].key, d |-> e]
    <3>1. CASE e = d
      <4>1. c = s /\ by = "auto"
        BY <1>3, <1>5, <2>3, <3>1
      <4>2. hand'[c] = [at |-> "auto", key |-> k, d |-> d]
        BY <4>1, <1>6
      <4> QED BY <1>3, <1>5, <3>1, <4>1, <4>2 DEF Alive
    <3>2. CASE e # d
      <4>1. /\ bs[c] # "none"
            /\ Alive(c) => hand[c] = [at |-> "auto", key |-> deliv[e].key, d |-> e]
        BY <1>5, <2>3, <3>2 DEF Placed, Answers
      <4>2. Alive(c) => hand'[c] = hand[c]
        BY <4>1, <1>6
      <4> QED BY <1>5, <3>2, <4>1, <4>2 DEF Alive
    <3> QED BY <3>1, <3>2
  <2> QED BY <2>2, <2>3 DEF Answers
<1> QED BY <1>7, <1>8, <1>9, BrokerPlaced

LEMMA AutoAnswerPlaced ==
    ASSUME TypeOK, TypeOK', Placed, NEW s \in Conns, AutoAnswer(s)
    PROVE  Placed'
<1>1. PICK k \in Keys : k = hand[s].key
  BY DEF TypeOK, Handler
<1>2. PICK d \in Deliveries : /\ Answering(d, k, s, "auto", FALSE)
                              /\ hand' = [hand EXCEPT ![s].at = "auto", ![s].d = d]
  BY <1>1 DEF AutoAnswer
<1>3. /\ hand[s].at = "prepare" /\ Alive(s)
      /\ UNCHANGED <<native, channel, up, bs, q, entries, running>>
  BY DEF AutoAnswer
<1>4. hand' = [hand EXCEPT ![s] = [at |-> "auto", key |-> k, d |-> d]]
  <2>1. hand[s] \in Handler
    BY DEF TypeOK
  <2>2. [hand[s] EXCEPT !.at = "auto", !.d = d] = [at |-> "auto", key |-> k, d |-> d]
    <3>1. PICK a \in {"idle", "hello", "publish", "prepare", "auto"}, j \in Keys, n \in 0..MaxDeliveries :
             hand[s] = [at |-> a, key |-> j, d |-> n]
      BY <2>1 DEF Handler
    <3>2. /\ [[at |-> a, key |-> j, d |-> n] EXCEPT !.at = "auto"] = [at |-> "auto", key |-> j, d |-> n]
          /\ [[at |-> "auto", key |-> j, d |-> n] EXCEPT !.d = d] = [at |-> "auto", key |-> j, d |-> d]
      OBVIOUS
    <3>3. k = j
      BY <1>1, <3>1
    <3> QED BY <3>1, <3>2, <3>3
  <2> QED BY <1>2, <2>2 DEF TypeOK
<1>5. Token(s, k)
  BY <1>1, <1>3 DEF Token, Held
<1>6. \A j \in Keys : entries'[j].sock = entries[j].sock /\ (HasCard(j)' => HasCard(j))
  BY <1>3 DEF HasCard
<1> QED BY <1>1, <1>2, <1>3, <1>4, <1>5, <1>6, AnsweringPlaced

LEMMA AnswerPlaced ==
    ASSUME TypeOK, TypeOK', Placed, NEW k \in Keys, NEW ho \in BOOLEAN, Answer(k, ho)
    PROVE  Placed'
<1>1. HasCard(k) /\ UNCHANGED <<native, channel, up, bs, q, hand, running>>
  BY DEF Answer
<1>2. PICK s \in Conns : s = entries[k].sock
  BY <1>1 DEF Placed, Carded
<1>3. PICK d \in Deliveries :
         /\ Answering(d, k, s, "chat", ho)
         /\ entries' = [entries EXCEPT ![k].status = "responding", ![k].claim = d]
  BY <1>2 DEF Answer
<1>4. Alive(s) /\ Token(s, k)
  BY <1>2 DEF Answer, Token
<1>5. \A j \in Keys : entries'[j].sock = entries[j].sock /\ (HasCard(j)' => HasCard(j))
  <2>1. entries'[k].sock = entries[k].sock
    BY <1>3 DEF TypeOK, Card
  <2> QED BY <1>1, <1>3, <2>1 DEF TypeOK, HasCard
<1> QED BY <1>1, <1>3, <1>4, <1>5, AnsweringPlaced

\* Connections end; their cards with them.
LEMMA EndsPlaced ==
    ASSUME TypeOK, TypeOK', Placed, UNCHANGED <<native, channel, running>>,
           NEW D \in SUBSET Deliveries, deliv' = deliv \/ deliv' = Finished(D, "unknown"),
           \A d \in D : deliv[d].status = "sent",
           \A s \in Conns :
              /\ Unused(s) => bs'[s] # "none" \/ Unused(s)'
              /\ bs'[s] = bs[s] \/ (bs[s] # "none" /\ bs'[s] \in {"destroyed", "closed"})
              /\ Alive(s)' => UNCHANGED <<up[s], q[s], down[s], hand[s]>>,
           \A k \in Keys : \/ entries'[k] = NoCard
                           \/ /\ HasCard(k) /\ entries'[k].sock = entries[k].sock
                              /\ bs'[entries[k].sock] \in {"open", "destroyed"}
    PROVE  Placed'
<1>1. ASSUME NEW s \in Conns PROVE Still(s)
  <2>1. Alive(s)' => Eased(s)
    <3>1. NoCard.sock # s
      BY DEF NoCard, Conns
    <3> QED BY <3>1 DEF Eased, LineThins, Held
  <2>2. Alive(s)' => Quieter(down[s], down'[s]) /\ down'[s] = down[s]
    BY QuieterWires DEF TypeOK
  <2> QED BY <2>1, <2>2, EasedIsStill
<1>2. Carded'
  BY DEF Placed, Carded, HasCard
<1>3. Answers'
  <2>1. \A d \in Deliveries :
           /\ deliv'[d].status # "none" =>
                 deliv[d].status # "none" /\ deliv'[d].key = deliv[d].key /\ deliv'[d].sock = deliv[d].sock
           /\ deliv'[d].status = "sent" => deliv'[d] = deliv[d]
    <3>1. \A d \in Deliveries : deliv'[d] = deliv[d] \/ (d \in D /\ deliv'[d] = [deliv[d] EXCEPT !.status = "unknown"])
      BY DEF Finished
    <3>2. \A x \in Delivery : LET y == [x EXCEPT !.status = "unknown"]
                              IN  y.status = "unknown" /\ y.key = x.key /\ y.sock = x.sock
      BY DEF Delivery
    <3>3. \A d \in Deliveries : deliv[d] \in Delivery
      BY DEF TypeOK
    <3> SUFFICES ASSUME NEW d \in Deliveries
                 PROVE  /\ deliv'[d].status # "none" =>
                              deliv[d].status # "none" /\ deliv'[d].key = deliv[d].key /\ deliv'[d].sock = deliv[d].sock
                        /\ deliv'[d].status = "sent" => deliv'[d] = deliv[d]
      OBVIOUS
    <3>4. CASE deliv'[d] = deliv[d]
      BY <3>4
    <3>5. CASE d \in D /\ deliv'[d] = [deliv[d] EXCEPT !.status = "unknown"]
      <4>1. deliv'[d].status = "unknown" /\ deliv'[d].key = deliv[d].key /\ deliv'[d].sock = deliv[d].sock
        BY <3>2, <3>3, <3>5
      <4>2. deliv[d].status = "sent"
        BY <3>5
      <4> QED BY <4>1, <4>2
    <3> QED BY <3>1, <3>4, <3>5
  <2>2. \A s \in Conns : hand[s].at = "auto" /\ Alive(s)' => hand'[s] = hand[s]
    OBVIOUS
  <2> QED BY <1>1, <2>1, <2>2, AnswersFrame
<1> QED BY <1>1, <1>2, <1>3, BrokerPlaced

LEMMA ClosePlaced ==
    ASSUME TypeOK, TypeOK', Placed, NEW s \in Conns, CloseEvent(s)
    PROVE  Placed'
<1> DEFINE D == {d \in Deliveries : deliv[d].status = "sent" /\ deliv[d].sock = s}
           K == {k \in Keys : entries[k].sock = s}
           rest == Without(entries, K)
<1>1. /\ bs' = [bs EXCEPT ![s] = "closed"] /\ entries' = Ended(rest, D, "unknown")
      /\ deliv' = Finished(D, "unknown") /\ up' = [up EXCEPT ![s] = <<>>]
      /\ hand' = hand \/ hand' = [hand EXCEPT ![s] = Quiet]
      /\ UNCHANGED <<native, channel, q, running>>
      /\ bs[s] = "destroyed" \/ Alive(s)
      /\ \A c \in Conns : c # s => down'[c] = down[c]
  BY DEF CloseEvent, Gone, TypeOK
<1>2. D \in SUBSET Deliveries /\ \A d \in D : deliv[d].status = "sent"
  OBVIOUS
<1>3. bs'[s] = "closed" /\ \A c \in Conns : c # s => bs'[c] = bs[c] /\ up'[c] = up[c] /\ hand'[c] = hand[c]
  BY <1>1 DEF TypeOK
<1>4. bs[s] # "none" /\ ~Alive(s)'
  BY <1>1, <1>3 DEF Alive
<1>5. ASSUME NEW k \in Keys
      PROVE  \/ entries'[k] = NoCard
             \/ /\ HasCard(k) /\ entries'[k].sock = entries[k].sock
                /\ bs'[entries[k].sock] \in {"open", "destroyed"}
  <2>1. PICK M : M \subseteq D /\ entries' = [j \in Keys |-> IF rest[j].claim \in M
                             THEN [rest[j] EXCEPT !.status = "unknown"] ELSE rest[j]]
    BY <1>1 DEF Ended
  <2>2. 0 \notin M
    BY <2>1 DEF Deliveries
  <2>3. CASE k \in K \/ entries[k] = NoCard
    <3>1. rest[k] = NoCard
      BY <2>3 DEF Without
    <3> QED BY <2>1, <2>2, <3>1 DEF NoCard
  <2>4. CASE k \notin K /\ entries[k] # NoCard
    <3>1. rest[k] = entries[k]
      BY <2>4 DEF Without
    <3>2. entries'[k].sock = entries[k].sock
      BY <2>1, <3>1 DEF TypeOK, Card
    <3>3. entries[k].sock # s /\ HasCard(k)
      BY <2>4 DEF HasCard
    <3> QED BY <1>3, <3>2, <3>3 DEF Placed, Carded
  <2> QED BY <2>3, <2>4
<1>6. \A c \in Conns :
         /\ Unused(c) => bs'[c] # "none" \/ Unused(c)'
         /\ bs'[c] = bs[c] \/ (bs[c] # "none" /\ bs'[c] \in {"destroyed", "closed"})
         /\ Alive(c)' => UNCHANGED <<up[c], q[c], down[c], hand[c]>>
  BY <1>1, <1>3, <1>4 DEF Unused
<1> HIDE DEF D, K, rest
<1> QED BY <1>1, <1>2, <1>5, <1>6, EndsPlaced

LEMMA DiscardPlaced ==
    ASSUME TypeOK, TypeOK', Placed, Discard
    PROVE  Placed'
<1>1. /\ \A s \in Conns : bs'[s] = IF bs[s] = "open" THEN "destroyed" ELSE bs[s]
      /\ \A k \in Keys : entries'[k] = NoCard
      /\ UNCHANGED <<native, channel, up, down, q, hand, deliv, running>>
  BY DEF Discard
<1>2. \A c \in Conns :
         /\ Unused(c) => bs'[c] # "none" \/ Unused(c)'
         /\ bs'[c] = bs[c] \/ (bs[c] # "none" /\ bs'[c] \in {"destroyed", "closed"})
         /\ Alive(c)' => UNCHANGED <<up[c], q[c], down[c], hand[c]>>
  BY <1>1 DEF Unused
<1>3. {} \in SUBSET Deliveries
  OBVIOUS
<1> QED BY <1>1, <1>2, <1>3, EndsPlaced

LEMMA CrashPlaced ==
    ASSUME TypeOK, TypeOK', Placed, Crash
    PROVE  Placed'
<1> DEFINE D == {d \in Deliveries : deliv[d].status = "sent"}
<1>1. /\ \A s \in Conns : bs'[s] = IF bs[s] = "none" THEN "none" ELSE "closed"
      /\ \A s \in Conns : /\ down'[s] = IF bs[s] \notin {"none", "closed"}
                                        THEN Append(down[s], Plain("close")) ELSE down[s]
                          /\ up'[s] = <<>> /\ q'[s] = <<>> /\ hand'[s] = Quiet
      /\ \A k \in Keys : entries'[k] = NoCard
      /\ deliv' = Finished(D, "unknown") /\ UNCHANGED <<native, channel, running>>
  BY DEF Crash
<1>2. D \in SUBSET Deliveries /\ \A d \in D : deliv[d].status = "sent"
  OBVIOUS
<1>3. \A c \in Conns :
         /\ Unused(c) => bs'[c] # "none" \/ Unused(c)'
         /\ bs'[c] = bs[c] \/ (bs[c] # "none" /\ bs'[c] \in {"destroyed", "closed"})
         /\ Alive(c)' => UNCHANGED <<up[c], q[c], down[c], hand[c]>>
  <2>1. \A c \in Conns : bs[c] = "none" \/ bs'[c] = "closed"
    BY <1>1
  <2> QED BY <1>1, <2>1, QuietHand DEF Unused, Alive
<1> HIDE DEF D
<1> QED BY <1>1, <1>2, <1>3, EndsPlaced

\* The connection's hello was handled; what a released hook left behind ends.
LEMMA HelloPlaced ==
    ASSUME TypeOK, TypeOK', Placed, NEW s \in Conns, Hello(s)
    PROVE  Placed'
<1>1. /\ hand[s].at = "hello" /\ hand' = [hand EXCEPT ![s] = Quiet]
      /\ UNCHANGED <<native, channel, up, q, deliv, running>>
  BY DEF Hello
<1>2. hand'[s].at = "idle" /\ \A c \in Conns : c # s => hand'[c] = hand[c]
  BY <1>1, QuietHand DEF TypeOK
<1>3. \A c \in Conns : Line(c)' = Line(c)
  BY <1>1 DEF Line
<1>4. Answers' \/ \E c \in Conns : ~Still(c)
  <2>1. \A c \in Conns : hand[c].at = "auto" => hand'[c] = hand[c]
    BY <1>1, <1>2
  <2> QED BY <1>1, <2>1, AnswersFrame
<1>5. ASSUME NEW c \in Conns, entries' = entries, down'[c] = down[c],
             bs'[c] = bs[c] \/ (bs[c] # "none" /\ bs'[c] \in {"destroyed", "closed"})
      PROVE  Still(c)
  <2>1. Eased(c)
    BY <1>1, <1>2, <1>5 DEF Eased, LineThins, Held
  <2>2. Quieter(down[c], down'[c])
    BY <1>5, QuieterWires DEF TypeOK
  <2>3. Unused(c) => bs'[c] # "none" \/ Unused(c)'
    BY <1>1, <1>2, <1>5 DEF Unused
  <2> QED BY <1>5, <2>1, <2>2, <2>3, EasedIsStill
<1>6. CASE ~Alive(s)
  <2>1. UNCHANGED <<bs, entries, down>>
    BY <1>6 DEF Hello
  <2>2. \A c \in Conns : Still(c)
    BY <1>5, <2>1
  <2>3. Carded'
    BY <2>1 DEF Placed, Carded, HasCard
  <2> QED BY <1>1, <1>4, <2>2, <2>3, BrokerPlaced
<1>7. CASE Alive(s)
  <2>1. bs[s] = "new"
    BY <1>1, <1>7 DEF Placed, Connection, Greeting, Alive
  <2>2. \A c \in Conns : Alive(c) => \A k \in Keys : ~Token(c, k)
    BY <2>1 DEF Placed, NothingToTake
  <2>3. /\ bs'[s] = "open"
        /\ \A c \in Conns : c # s =>
              bs'[c] = bs[c] \/ (bs[c] = "open" /\ bs'[c] = "destroyed")
        /\ down' = [down EXCEPT ![s] = Append(@, Plain("ready"))]
    BY <1>7 DEF Hello
  <2>4. entries' = entries
    <3>1. \A k \in Keys : entries[k].sock \notin {c \in Conns \ {s} : bs[c] = "open"}
      BY <2>2 DEF Token, Alive
    <3>2. \A k \in Keys : entries'[k] = entries[k]
      BY <1>7, <3>1 DEF Hello
    <3> QED BY <3>2 DEF TypeOK
  <2>5. \A c \in Conns : c # s => down'[c] = down[c]
    BY <2>3 DEF TypeOK
  <2>6. \A c \in Conns : c # s => Still(c)
    BY <1>5, <2>3, <2>4, <2>5
  <2>7. ASSUME NEW c \in Conns, Alive(c)', NEW k \in Keys PROVE ~Token(c, k)'
    <3>1. Alive(c)
      BY <2>1, <2>3, <2>7 DEF Alive
    <3>2. Held(c, k)' => Held(c, k)
      BY <1>2 DEF Held
    <3> QED BY <1>3, <2>2, <2>4, <3>1, <3>2 DEF Token
  <2>8. down[s] \in Seq(Message) /\ down'[s] = Append(down[s], Plain("ready"))
    BY <2>3 DEF TypeOK
  <2>9. PICK m \in Message : m = Plain("ready")
    BY Typed
  <2>10. /\ m \notin Kind("close") /\ m \in Kind("ready") /\ \A k \in Keys : m \notin AnswersFor(k)
    BY <2>9, KindsOf
  <2>11. \A S : /\ Has(down'[s], S) <=> (Has(down[s], S) \/ m \in S)
                /\ Once(down[s], S) /\ ~(Has(down[s], S) /\ m \in S) => Once(down'[s], S)
    BY <2>8, <2>9, AppendHas
  <2>12. Connection(s)'
    <3>1. ~Has(down[s], Kind("ready")) /\ GreetsOnce(s) /\ ~Has(down[s], Kind("close"))
          /\ \A k \in Keys : Single(s, k)
      BY <1>7, <2>1 DEF Placed, Connection
    <3>2. ~Greeting(s)'
      BY <1>1, <1>2, <1>3, <3>1 DEF Greeting, GreetsOnce
    <3>3. Once(down'[s], Kind("ready")) /\ ~Has(down'[s], Kind("close"))
      <4>1. Once(down[s], Kind("ready"))
        BY <3>1 DEF Has, Once
      <4> QED BY <4>1, <2>10, <2>11, <3>1
    <3>4. Alive(s)'
      BY <2>3 DEF Alive
    <3>5. \A k \in Keys : Single(s, k)' /\ ~Token(s, k)'
      BY <1>3, <2>7, <3>1, <3>4 DEF Single, Token
    <3> QED BY <2>3, <3>2, <3>3, <3>5 DEF Connection
  <2>13. \A c \in Conns : Connection(c)'
    <3>1. UNCHANGED request
      BY <1>1 DEF native
    <3> QED BY <2>6, <2>12, <3>1, ConnectionKept DEF Placed
  <2>14. NothingToTake'
    BY <2>7 DEF NothingToTake
  <2>15. Channels'
    <3>1. UNCHANGED <<sock, old, connected, running>> /\ Channels
      BY <1>1 DEF channel, Placed
    <3>2. (sock # 0 => sock \in Conns) /\ (old # 0 => old \in Conns)
      BY DEF TypeOK, Conns
    <3>3. \A c \in Conns : Alive(c)' => Alive(c)
      BY <2>1, <2>3 DEF Alive
    <3>4. running => \A c \in Conns : Alive(c)' => c \in {sock, old}
      BY <3>1, <3>3 DEF Channels
    <3>5. old # 0 => /\ bs'[old] \notin {"none", "new"} /\ old # sock
                     /\ Alive(old)' => \A k \in Keys : ~Token(old, k)'
      BY <2>1, <2>3, <2>7, <3>1, <3>2 DEF Channels
    <3>6. sock # 0 => bs'[sock] # "none"
      BY <2>3, <3>1, <3>2 DEF Channels
    <3>7. ASSUME sock # 0, ~connected, Alive(sock)', NEW k \in Keys
          PROVE  ~Token(sock, k)' /\ ~Has(down'[sock], AnswersFor(k))
      <4>1. PICK c \in Conns : c = sock
        BY <3>2, <3>7
      <4>2. Alive(c)' /\ Alive(c) /\ ~Token(c, k)'
        BY <2>7, <3>1, <3>3, <3>7, <4>1
      <4>3. ~Has(down[c], AnswersFor(k))
        BY <3>1, <3>7, <4>1, <4>2 DEF Channels
      <4>4. ~Has(down'[c], AnswersFor(k))
        BY <2>5, <2>10, <2>11, <4>3
      <4> QED BY <3>1, <4>1, <4>2, <4>4
    <3>8. ASSUME connected PROVE /\ sock # 0 /\ bs'[sock] # "new"
                                 /\ Alive(sock)' => ~Has(down'[sock], Kind("ready"))
      <4>1. PICK c \in Conns : c = sock
        BY <3>1, <3>2, <3>8 DEF Channels
      <4>2. c # s /\ bs[c] # "new" /\ (Alive(c) => ~Has(down[c], Kind("ready")))
        BY <2>1, <3>1, <3>8, <4>1 DEF Channels
      <4>3. bs'[c] # "new" /\ (Alive(c)' => ~Has(down'[c], Kind("ready")))
        BY <2>3, <2>5, <3>3, <4>2
      <4>4. (Alive(sock)' <=> Alive(c)') /\ c # 0
        BY <3>1, <4>1 DEF Conns
      <4> QED BY <4>1, <4>3, <4>4
    <3> QED BY <3>1, <3>4, <3>5, <3>6, <3>7, <3>8 DEF Channels
  <2>16. Carded'
    BY <2>1, <2>3, <2>4 DEF Placed, Carded, HasCard
  <2>17. Answers'
    <3>1. \A d \in Deliveries : deliv'[d] = deliv[d]
      BY <1>1
    <3>2. UNCHANGED request
      BY <1>1 DEF native
    <3>3. ASSUME NEW d \in Deliveries, NEW c \in Conns, deliv[d].status = "sent",
                 deliv[d].by = "auto", deliv[d].sock = c
          PROVE  /\ bs'[c] # "none"
                 /\ Alive(c)' => hand'[c] = [at |-> "auto", key |-> deliv[d].key, d |-> d]
      <4>1. /\ bs[c] # "none"
            /\ Alive(c) => hand[c] = [at |-> "auto", key |-> deliv[d].key, d |-> d]
        BY <3>3 DEF Placed, Answers
      <4>2. c # s
        BY <1>1, <1>7, <4>1
      <4> QED BY <1>2, <2>3, <4>1, <4>2 DEF Alive
    <3> QED BY <3>1, <3>2, <3>3 DEF Placed, Answers
  <2> QED BY <2>13, <2>14, <2>15, <2>16, <2>17 DEF Placed
<1> QED BY <1>6, <1>7

LEMMA InitPlaced == Init => Placed
<1> SUFFICES ASSUME Init PROVE Placed
  OBVIOUS
<1>1. \A s \in Conns : up[s] = <<>> /\ q[s] = <<>> /\ down[s] = <<>> /\ hand[s].at = "idle"
                       /\ bs[s] = "none"
  BY QuietHand DEF Init
<1>2. (\A s \in Conns : Connection(s)) /\ NothingToTake
  BY <1>1 DEF Connection, NothingToTake, Alive, Unused
<1>3. Channels /\ Carded
  BY <1>1 DEF Init, Channels, Carded, HasCard, Alive
<1>4. Answers
  BY DEF Init, Answers, NoDelivery
<1> QED BY <1>2, <1>3, <1>4 DEF Placed

LEMMA PlacedKept ==
    ASSUME TypeOK, TypeOK', WellFormed, Routed, Placed, [Next]_vars
    PROVE  Placed'
<1>1. CASE UNCHANGED vars
  BY <1>1 DEF vars, native, channel, broker, Placed, Connection, NothingToTake, Channels, Carded,
     Answers, Unused, Greeting, GreetsOnce, Single, Token, Held, Line, Alive, HasCard
<1>2. CASE Next
  BY <1>2, AskPlaced, ReadyPlaced, ConnectPlaced, ListensPlaced, QueuePlaced, HandleResolvedPlaced,
     BeginPlaced, ReadPlaced, ShowPlaced, TimeoutPlaced, GetResultPlaced, AutoAnswerPlaced,
     AnswerPlaced, ClosePlaced, DiscardPlaced, CrashPlaced, HelloPlaced
     DEF Next, Native, Channel, Broker, Listens
<1> QED BY <1>1, <1>2

\* A request is at one place of its connection, on the wire, in the queue, with the handler or
\* on its card; a connection that is taken over or not ready yet has none, and the CLI knows
\* every connection the broker reads from (request-broker.js:246-312, native-channel.js:39-65).
THEOREM RequestsInOnePlace == Spec => []Placed
<1>1. TypeOK /\ TypeOK' /\ WellFormed /\ Routed /\ Placed /\ [Next]_vars => Placed'
  BY PlacedKept
<1> QED BY <1>1, InitPlaced, TypeCorrect, AnswersInOnePlace, PTL DEF Spec
-----------------------------------------------------------------------------
(* Honest cards.  What the broker still asks for, the CLI waits for, or the news of its end *)
(* is behind it on the line.                                                                *)

\* The broker asks the owner on this connection, or is about to.
Waiting(s, k) == \/ hand[s].at \in {"publish", "prepare"} /\ hand[s].key = k
                 \/ entries[k].sock = s /\ entries[k].status = "pending"
Unsure(k) == \E d \in Deliveries :
    deliv[d].key = k /\ deliv[d].by = "auto" /\ deliv[d].status = "unknown"
\* The line of the CLI's connection: what it publishes and no longer waits for is resolved
\* behind; and an answer on its way to the CLI is the answer to nothing that is asked again.
Current(s, k) ==
    /\ pend[k] # "pending" =>
          /\ Followed(Line(s), PublishesOf(k), {Resolved(k)})
          /\ Waiting(s, k) => Has(Line(s), {Resolved(k)}) \/ Unsure(k)
    /\ Has(down[s], AnswersFor(k)) =>
          /\ ~Has(Line(s), PublishesOf(k))
          /\ Waiting(s, k) => Unsure(k)
Honest == \A s \in Conns : s = sock /\ Alive(s) => \A k \in Keys : Current(s, k)

\* What may become of a line that no request joins and no end of the request leaves.
LineRuns(s, k) ==
    \/ up'[s] = up[s] /\ q'[s] = q[s]
    \/ q'[s] = q[s] /\ \E x \in Seq(Message) : ~Has(x, PublishesOf(k)) /\ up'[s] = up[s] \o x
    \/ up[s] # <<>> /\ up'[s] = Tail(up[s]) /\ q'[s] = Append(q[s], Head(up[s]))
    \/ up[s] # <<>> /\ up'[s] = Tail(up[s]) /\ q'[s] = q[s] /\ Head(up[s]) # Resolved(k)
    \/ q[s] # <<>> /\ q'[s] = Tail(q[s]) /\ up'[s] = up[s] /\ Head(q[s]) # Resolved(k)

LEMMA LineRunsOn ==
    ASSUME TypeOK, NEW s \in Conns, NEW k \in Keys, LineRuns(s, k)
    PROVE  /\ Followed(Line(s), PublishesOf(k), {Resolved(k)}) =>
                 Followed(Line(s)', PublishesOf(k), {Resolved(k)})
           /\ Has(Line(s), {Resolved(k)}) => Has(Line(s)', {Resolved(k)})
           /\ Has(Line(s)', PublishesOf(k)) => Has(Line(s), PublishesOf(k))
<1> DEFINE P == PublishesOf(k)
           R == {Resolved(k)}
           Runs == /\ Followed(Line(s), P, R) => Followed(Line(s)', P, R)
                   /\ Has(Line(s), R) => Has(Line(s)', R)
                   /\ Has(Line(s)', P) => Has(Line(s), P)
<1>1. PICK w \in Seq(Message), v \in Seq(Message) : w = q[s] /\ v = up[s] /\ Line(s) = w \o v
  BY DEF TypeOK, Line
<1>2. w \o v \in Seq(Message)
  BY JoinHas
<1> SUFFICES Runs
  OBVIOUS
<1> HIDE DEF P, R
<1>3. CASE up'[s] = up[s] /\ q'[s] = q[s]
  BY <1>3 DEF Line
<1>4. ASSUME q'[s] = q[s], NEW x \in Seq(Message), ~Has(x, P), up'[s] = up[s] \o x PROVE Runs
  <2>1. Line(s)' = (w \o v) \o x
    <3>1. w \o (v \o x) = (w \o v) \o x
      BY <1>4, LineSent
    <3> QED BY <1>1, <1>4, <3>1 DEF Line
  <2>2. Followed(w \o v, P, R) => Followed((w \o v) \o x, P, R)
    BY <1>2, <1>4, FollowedJoin
  <2>3. \A S : Has((w \o v) \o x, S) <=> (Has(w \o v, S) \/ Has(x, S))
    BY <1>2, <1>4, JoinHas
  <2> QED BY <1>1, <1>4, <2>1, <2>2, <2>3
<1>5. CASE up[s] # <<>> /\ up'[s] = Tail(up[s]) /\ q'[s] = Append(q[s], Head(up[s]))
  <2>1. Line(s)' = w \o v
    BY <1>1, <1>5, LineQueued DEF Line
  <2> QED BY <1>1, <2>1
<1>6. CASE up[s] # <<>> /\ up'[s] = Tail(up[s]) /\ q'[s] = q[s] /\ Head(up[s]) # Resolved(k)
  <2>1. Line(s)' = w \o Tail(v) /\ v # <<>> /\ Head(v) \notin R
    BY <1>1, <1>6 DEF Line, R
  <2>2. Followed(w \o v, P, R) => Followed(w \o Tail(v), P, R)
    BY <2>1, LinePast
  <2>3. Has(w \o v, R) => Has(w \o Tail(v), R)
    BY <2>1, LinePast
  <2>4. Has(w \o Tail(v), P) => Has(w \o v, P)
    BY <2>1, LinePast DEF Thins
  <2> QED BY <1>1, <2>1, <2>2, <2>3, <2>4
<1>7. CASE q[s] # <<>> /\ q'[s] = Tail(q[s]) /\ up'[s] = up[s] /\ Head(q[s]) # Resolved(k)
  <2>1. Line(s)' = Tail(w \o v) /\ Head(w \o v) = Head(w) /\ w \o v # <<>> /\ Head(w) \notin R
    <3>1. Tail(w) \o v = Tail(w \o v) /\ Head(w \o v) = Head(w) /\ w \o v # <<>>
      BY <1>1, <1>7, LineTail
    <3> QED BY <1>1, <1>7, <3>1 DEF Line, R
  <2>2. Followed(w \o v, P, R) => Followed(Tail(w \o v), P, R)
    BY <1>2, <2>1, FollowedTail
  <2>3. \A S : Has(w \o v, S) <=> (Head(w \o v) \in S \/ Has(Tail(w \o v), S))
    BY <1>2, <2>1, TailHas
  <2> QED BY <1>1, <2>1, <2>2, <2>3
<1> QED BY <1>3, <1>4, <1>5, <1>6, <1>7 DEF LineRuns, P

\* A step that neither asks for the request nor begins to answer it.
Calm(s, k) ==
    /\ LineRuns(s, k)
    /\ pend'[k] # "pending" => pend[k] # "pending"
    /\ Waiting(s, k)' => Waiting(s, k) \/ Unsure(k)'
    /\ Unsure(k) => Unsure(k)'
    /\ Has(down'[s], AnswersFor(k)) => Has(down[s], AnswersFor(k))

LEMMA CalmStep ==
    ASSUME TypeOK, NEW s \in Conns, NEW k \in Keys, Calm(s, k), Current(s, k)
    PROVE  Current(s, k)'
<1>1. /\ Followed(Line(s), PublishesOf(k), {Resolved(k)}) =>
            Followed(Line(s)', PublishesOf(k), {Resolved(k)})
      /\ Has(Line(s), {Resolved(k)}) => Has(Line(s)', {Resolved(k)})
      /\ Has(Line(s)', PublishesOf(k)) => Has(Line(s), PublishesOf(k))
  BY LineRunsOn DEF Calm
<1> QED BY <1>1 DEF Calm, Current

LEMMA HonestFrame ==
    ASSUME TypeOK, Honest, UNCHANGED sock,
           \A s \in Conns, k \in Keys : s = sock /\ Alive(s)' =>
              Alive(s) /\ (Calm(s, k) \/ (Current(s, k) => Current(s, k)'))
    PROVE  Honest'
<1> SUFFICES ASSUME NEW s \in Conns, s = sock', Alive(s)', NEW k \in Keys PROVE Current(s, k)'
  BY DEF Honest
<1>1. Current(s, k) /\ (Calm(s, k) \/ (Current(s, k) => Current(s, k)'))
  BY DEF Honest
<1> QED BY <1>1, CalmStep

\* The steps of the CLI.
LEMMA CliCalm ==
    ASSUME TypeOK, UNCHANGED broker, NEW s \in Conns, NEW k \in Keys, LineRuns(s, k), Receives(s)
    PROVE  /\ Waiting(s, k)' = Waiting(s, k) /\ Unsure(k)' = Unsure(k) /\ (Alive(s)' <=> Alive(s))
           /\ Has(down'[s], AnswersFor(k)) => Has(down[s], AnswersFor(k))
           /\ (pend'[k] # "pending" => pend[k] # "pending") => Calm(s, k)
<1>1. UNCHANGED <<bs, q, hand, entries, deliv>>
  BY DEF broker
<1>2. Waiting(s, k)' = Waiting(s, k) /\ Unsure(k)' = Unsure(k) /\ (Alive(s)' <=> Alive(s))
  BY <1>1 DEF Waiting, Unsure, Alive
<1>3. Has(down'[s], AnswersFor(k)) => Has(down[s], AnswersFor(k))
  <2>1. down[s] \in Seq(Message)
    BY DEF TypeOK
  <2> QED BY <2>1, TailHas, Emptied DEF Receives
<1> QED BY <1>2, <1>3 DEF Calm

LEMMA ListensHonest ==
    ASSUME TypeOK, TypeOK', WellFormed, Routed, Honest, Listens
    PROVE  Honest'
<1>1. UNCHANGED broker /\ \A s \in Conns : Sends(s) /\ Receives(s)
  BY CliSends
<1>2. ASSUME NEW s \in Conns, NEW k \in Keys PROVE LineRuns(s, k)
  <2>1. q'[s] = q[s]
    BY <1>1 DEF broker
  <2>2. \A x : ~Has(x, Kind("publish")) => ~Has(x, PublishesOf(k))
    BY KindsOf DEF Has
  <2> QED BY <1>1, <2>1, <2>2 DEF Sends, LineRuns
<1>3. CASE sock' = 0
  BY <1>3 DEF Honest, Conns
<1>4. CASE sock' # 0
  <2>1. UNCHANGED sock
    BY <1>4 DEF Listens, Decide, Resolve, Deliver, GetAnswer, SeeClose, HandOver, Exit, channel
  <2> SUFFICES ASSUME NEW s \in Conns, s = sock, Alive(s)', NEW k \in Keys
               PROVE  Alive(s) /\ (Calm(s, k) \/ (Current(s, k) => Current(s, k)'))
    BY <2>1, HonestFrame
  <2>2. /\ Waiting(s, k)' = Waiting(s, k) /\ Unsure(k)' = Unsure(k) /\ (Alive(s)' <=> Alive(s))
        /\ Has(down'[s], AnswersFor(k)) => Has(down[s], AnswersFor(k))
        /\ (pend'[k] # "pending" => pend[k] # "pending") => Calm(s, k)
    BY <1>1, <1>2, CliCalm
  <2>3. CASE pend'[k] # "pending" => pend[k] # "pending"
    BY <2>2, <2>3
  <2>4. CASE pend'[k] # "pending" /\ pend[k] = "pending"
    <3> SUFFICES ASSUME Current(s, k) PROVE Current(s, k)'
      BY <2>2
    <3>1. Has(Line(s)', PublishesOf(k)) => Has(Line(s), PublishesOf(k))
      BY <1>2, LineRunsOn
    <3>2. CASE Resolve(k)
      <4>1. PICK m \in Message : m = Resolved(k)
        BY Typed
      <4>2. <<m>> \in Seq(Message) /\ ~Has(<<m>>, PublishesOf(k)) /\ Has(<<m>>, {Resolved(k)})
        BY <4>1, OneMessage DEF PublishesOf, Resolved
      <4>3. PICK w \in Seq(Message) : w = Line(s)
        BY JoinHas DEF TypeOK, Line
      <4>4. Line(s)' = w \o <<m>>
        <5>1. up'[s] = up[s] \o <<m>> /\ q'[s] = q[s]
          BY <1>1, <2>2, <3>2, <4>1 DEF Resolve, Sent, broker, TypeOK, Conns
        <5>2. up[s] \in Seq(Message) /\ q[s] \in Seq(Message)
          BY DEF TypeOK
        <5>3. q[s] \o (up[s] \o <<m>>) = (q[s] \o up[s]) \o <<m>>
          BY <4>2, <5>2, LineSent
        <5> QED BY <4>3, <5>1, <5>3 DEF Line
      <4>5. Followed(w \o <<m>>, PublishesOf(k), {Resolved(k)})
        BY <4>2, FollowedJoin
      <4>6. Has(w \o <<m>>, {Resolved(k)})
        BY <4>2, JoinHas
      <4> QED BY <2>2, <3>1, <4>4, <4>5, <4>6 DEF Current
    <3>3. CASE GetAnswer(s) /\ Head(down[s]).key = k /\ UNCHANGED up
      <4>1. Has(down[s], AnswersFor(k))
        <5>1. down[s] \in Seq(Message) /\ down[s] # <<>> /\ Head(down[s]).t = "answer"
          BY <3>3 DEF GetAnswer, TypeOK
        <5>2. Head(down[s]) \in AnswersFor(k)
          BY <3>3, <5>1, FirstOf DEF AnswersFor
        <5> QED BY <5>1, <5>2, TailHas
      <4>2. ~Has(Line(s)', PublishesOf(k)) /\ (Waiting(s, k)' => Unsure(k)')
        BY <2>2, <3>1, <4>1 DEF Current
      <4> QED BY <4>2, FollowedNone DEF Current
    <3>4. ASSUME NEW j \in Keys, Deliver(j) PROVE pend'[k] # "pending" => pend[k] # "pending"
      <4>1. pend[j] # "pending"
        BY <3>4 DEF Deliver, Routed, Working, TypeOK
      <4>2. k # j => pend'[k] = pend[k]
        BY <3>4 DEF Deliver, Left, TypeOK
      <4> QED BY <4>1, <4>2
    <3>5. ASSUME NEW c \in Conns, GetAnswer(c) PROVE GetAnswer(s) /\ Head(down[s]).key = k /\ UNCHANGED up
      <4>1. ~UNCHANGED native
        BY <2>4 DEF native
      <4>2. c = sock /\ UNCHANGED up /\ \E d : Claimed(Head(down[c]).key, d)
        BY <3>5, <4>1 DEF GetAnswer
      <4>3. Head(down[c]).key = k
        BY <2>4, <4>2 DEF Claimed, TypeOK
      <4> QED BY <3>5, <4>2, <4>3
    <3>6. ASSUME NEW j \in Keys, Resolve(j) PROVE j = k
      BY <2>4, <3>6 DEF Resolve, TypeOK
    <3>7. ~(\E j \in Keys : Decide(j)) /\ ~(\E c \in Conns : SeeClose(c)) /\ ~HandOver /\ ~Exit
      BY <1>4, <2>4 DEF Decide, SeeClose, HandOver, Exit, native
    <3> QED BY <2>4, <3>2, <3>3, <3>4, <3>5, <3>6, <3>7 DEF Listens
  <2> QED BY <2>2, <2>3, <2>4
<1> QED BY <1>3, <1>4

\* What was never asked has no answer on its way.
LEMMA NotAnswered ==
    ASSUME TypeOK, WellFormed, Routed, Placed, NEW s \in Conns, NEW k \in Keys, request[k] = "none"
    PROVE  ~Has(down[s], AnswersFor(k))
<1> SUFFICES ASSUME NEW i \in DOMAIN down[s], down[s][i] \in AnswersFor(k) PROVE FALSE
  BY DEF Has
<1>1. PICK m \in Message : m = down[s][i] /\ m.t = "answer" /\ m.key = k
  BY DEF AnswersFor
<1>2. m \notin Malformed /\ m \notin Misaddressed
  BY <1>1 DEF WellFormed, Routed, Addressed, Has
<1>3. m.d \in Deliveries
  BY <1>1, <1>2 DEF Malformed, Message, Deliveries
<1>4. deliv[m.d].key = k /\ deliv[m.d].status # "none"
  BY <1>1, <1>2, <1>3 DEF Misaddressed
<1> QED BY <1>3, <1>4 DEF Placed, Answers

LEMMA AskHonest ==
    ASSUME TypeOK, TypeOK', WellFormed, Routed, Placed, Honest, NEW k \in Keys, Ask(k)
    PROVE  Honest'
<1>1. /\ request[k] = "none" /\ pend' = [pend EXCEPT ![k] = "pending"]
      /\ UNCHANGED <<sock, down, broker>> /\ \A s \in Conns : Receives(s)
      /\ up' = IF connected THEN Sent(sock, <<Publish(k)>>) ELSE up
  BY DEF Ask, channel, Receives
<1> SUFFICES ASSUME NEW s \in Conns, s = sock, Alive(s)', NEW j \in Keys
             PROVE  Alive(s) /\ (Calm(s, j) \/ (Current(s, j) => Current(s, j)'))
  BY <1>1, HonestFrame
<1>2. Alive(s)
  BY <1>1 DEF Alive, broker
<1>3. CASE j = k
  <2>1. pend'[k] = "pending" /\ ~Has(down'[s], AnswersFor(k))
    BY <1>1, NotAnswered DEF TypeOK
  <2> QED BY <1>2, <1>3, <2>1 DEF Current
<1>4. CASE j # k
  <2>1. pend'[j] = pend[j] /\ q'[s] = q[s]
    BY <1>1, <1>4 DEF TypeOK, broker
  <2>2. PICK m \in Message : m = Publish(k)
    BY Typed
  <2>3. <<m>> \in Seq(Message) /\ ~Has(<<m>>, PublishesOf(j))
    BY <1>4, <2>2, OneMessage DEF PublishesOf, Publish
  <2>4. up'[s] = up[s] \/ up'[s] = up[s] \o <<m>>
    BY <1>1, <1>2, <2>2 DEF Sent, TypeOK
  <2>5. LineRuns(s, j)
    BY <2>1, <2>3, <2>4 DEF LineRuns
  <2> QED BY <1>1, <1>2, <2>1, <2>5, CliCalm
<1> QED BY <1>3, <1>4

LEMMA ReadyHonest ==
    ASSUME TypeOK, TypeOK', WellFormed, Routed, Placed, Honest, Ready
    PROVE  Honest'
<1>1. /\ sock # 0 /\ down[sock] # <<>> /\ Head(down[sock]).t = "ready"
      /\ down' = [down EXCEPT ![sock] = Tail(@)]
      /\ UNCHANGED <<native, sock, broker>>
  BY DEF Ready
<1>2. PICK f \in Orders(Pending) : up' = Sent(sock, [i \in DOMAIN f |-> Publish(f[i])])
  BY DEF Ready
<1> DEFINE msgs == [i \in DOMAIN f |-> Publish(f[i])]
<1>3. /\ msgs \in Seq(Message)
      /\ \A i \in DOMAIN msgs : \E k \in Pending : msgs[i] = Publish(k)
  BY AllPublished
<1> HIDE DEF msgs
<1>4. up' = Sent(sock, msgs)
  BY <1>2 DEF msgs
<1> SUFFICES ASSUME NEW s \in Conns, s = sock, Alive(s)', NEW k \in Keys
             PROVE  Alive(s) /\ (Calm(s, k) \/ (Current(s, k) => Current(s, k)'))
  BY <1>1, HonestFrame
<1>5. Alive(s)
  BY <1>1 DEF Alive, broker
<1>6. down[s] \in Seq(Message) /\ down[s] # <<>> /\ down'[s] = Tail(down[s]) /\ Receives(s)
  BY <1>1 DEF TypeOK, Receives
<1>7. ~Has(down[s], AnswersFor(k))
  <2>1. Has(down[s], Kind("ready"))
    BY <1>1, <1>6, HeadKind
  <2> QED BY <1>1, <1>5, <2>1 DEF Placed, Channels
<1>8. CASE pend[k] = "pending"
  <2>1. pend'[k] = "pending" /\ ~Has(down'[s], AnswersFor(k))
    BY <1>1, <1>6, <1>7, <1>8, TailHas DEF native
  <2> QED BY <1>5, <2>1 DEF Current
<1>9. CASE pend[k] # "pending"
  <2>1. ~Has(msgs, PublishesOf(k))
    <3>1. \A j \in Pending : Publish(j) \in PublishesOf(k) => j = k
      BY DEF PublishesOf, Publish
    <3> QED BY <1>3, <1>9, <3>1 DEF Has, Pending
  <2>2. up'[s] = up[s] \o msgs /\ q'[s] = q[s]
    BY <1>1, <1>4, <1>5 DEF Sent, TypeOK, broker
  <2>3. LineRuns(s, k)
    BY <1>3, <2>1, <2>2 DEF LineRuns
  <2> QED BY <1>1, <1>5, <1>6, <1>9, <2>3, CliCalm
<1> QED BY <1>8, <1>9

LEMMA ConnectHonest ==
    ASSUME TypeOK, TypeOK', Placed, NEW s \in Conns, Connect(s)
    PROVE  Honest'
<1>1. /\ bs[s] = "none" /\ sock' = s /\ up' = [up EXCEPT ![s] = <<Plain("hello")>>]
      /\ UNCHANGED <<down, q, hand, entries>>
  BY DEF Connect
<1>2. Unused(s)
  BY <1>1 DEF Placed, Connection
<1>3. PICK m \in Message : m = Plain("hello") /\ \A k \in Keys : m \notin PublishesOf(k)
  BY Typed, KindsOf
<1>4. Line(s)' = <<m>>
  <2>1. q'[s] = <<>> /\ up'[s] = <<m>>
    BY <1>1, <1>2, <1>3 DEF Unused, TypeOK
  <2>2. <<>> \o <<m>> = <<m>>
    OBVIOUS
  <2> QED BY <2>1, <2>2 DEF Line
<1> SUFFICES ASSUME NEW k \in Keys PROVE Current(s, k)'
  BY <1>1 DEF Honest
<1>5. ~Has(Line(s)', PublishesOf(k)) /\ ~Has(down'[s], AnswersFor(k))
  BY <1>1, <1>2, <1>3, <1>4, OneMessage, Emptied DEF Unused
<1>6. ~Waiting(s, k)'
  <2>1. entries[k].sock = s => HasCard(k)
    BY DEF HasCard, NoCard, Conns
  <2>2. entries[k].sock # s
    BY <1>1, <2>1 DEF Placed, Carded
  <2> QED BY <1>1, <1>2, <2>2 DEF Waiting, Unused
<1> QED BY <1>5, <1>6, FollowedNone DEF Current

\* The steps of the broker.
LEMMA QueueHonest ==
    ASSUME TypeOK, TypeOK', Honest, NEW s \in Conns, Queue(s)
    PROVE  Honest'
<1>1. /\ up[s] # <<>> /\ up' = [up EXCEPT ![s] = Tail(@)]
      /\ q' = [q EXCEPT ![s] = Append(@, Head(up[s]))]
      /\ UNCHANGED <<native, channel, down, bs, hand, entries, deliv>>
  BY DEF Queue
<1>2. ASSUME NEW c \in Conns, NEW k \in Keys PROVE Calm(c, k)
  <2>1. LineRuns(c, k)
    <3>1. /\ up'[c] = IF c = s THEN Tail(up[c]) ELSE up[c]
          /\ q'[c] = IF c = s THEN Append(q[c], Head(up[c])) ELSE q[c]
      BY <1>1 DEF TypeOK
    <3> QED BY <1>1, <3>1 DEF LineRuns
  <2> QED BY <1>1, <2>1 DEF Calm, Waiting, Unsure, native
<1> QED BY <1>1, <1>2, HonestFrame DEF Alive, channel

LEMMA HandleResolvedHonest ==
    ASSUME TypeOK, TypeOK', Honest, NEW s \in Conns, HandleResolved(s)
    PROVE  Honest'
<1>1. /\ hand[s] = Quiet /\ q[s] # <<>> /\ q' = [q EXCEPT ![s] = Tail(@)]
      /\ UNCHANGED <<native, channel, up, down, bs, hand, deliv>>
  BY DEF HandleResolved, Next1, Popped
<1>2. \A k \in Keys : entries'[k] \in {entries[k], NoCard}
  BY DEF HandleResolved, Without
<1>3. ASSUME NEW c \in Conns, NEW k \in Keys
      PROVE  (Waiting(c, k)' => Waiting(c, k)) /\ (Unsure(k)' <=> Unsure(k))
  <2>1. NoCard.status # "pending"
    BY DEF NoCard
  <2> QED BY <1>1, <1>2, <2>1 DEF Waiting, Unsure
<1>4. ASSUME NEW c \in Conns, NEW k \in Keys, c # s \/ Head(q[s]) # Resolved(k) PROVE Calm(c, k)
  <2>1. LineRuns(c, k)
    <3>1. up'[c] = up[c] /\ q'[c] = IF c = s THEN Tail(q[c]) ELSE q[c]
      BY <1>1 DEF TypeOK
    <3> QED BY <1>1, <1>4, <3>1 DEF LineRuns
  <2> QED BY <1>1, <1>3, <2>1 DEF Calm, native
<1>5. ASSUME NEW k \in Keys, Head(q[s]) = Resolved(k), Current(s, k) PROVE Current(s, k)'
  <2>1. PICK w \in Seq(Message) : w = Line(s) /\ w # <<>> /\ Line(s)' = Tail(w)
    <3>1. q'[s] = Tail(q[s]) /\ up'[s] = up[s] /\ q[s] \in Seq(Message) /\ up[s] \in Seq(Message)
      BY <1>1 DEF TypeOK
    <3>2. /\ Tail(q[s]) \o up[s] = Tail(q[s] \o up[s])
          /\ q[s] \o up[s] # <<>> /\ q[s] \o up[s] \in Seq(Message)
      BY <1>1, <3>1, LineTail
    <3> QED BY <3>1, <3>2 DEF Line
  <2>2. ~Waiting(s, k)'
    <3>1. Head(q[s]).key = k
      BY <1>5 DEF Resolved
    <3>2. entries'[k].sock # s
      BY <3>1 DEF HandleResolved, Without, NoCard, Conns
    <3> QED BY <1>1, <3>2, QuietHand DEF Waiting
  <2>3. /\ Followed(w, PublishesOf(k), {Resolved(k)}) =>
              Followed(Tail(w), PublishesOf(k), {Resolved(k)})
        /\ Has(Tail(w), PublishesOf(k)) => Has(w, PublishesOf(k))
    BY <2>1, FollowedTail, TailHas
  <2> QED BY <1>1, <1>5, <2>1, <2>2, <2>3 DEF Current, native
<1> QED BY <1>1, <1>4, <1>5, HonestFrame DEF Alive, channel

LEMMA BeginHonest ==
    ASSUME TypeOK, TypeOK', Honest, NEW s \in Conns, Begin(s)
    PROVE  Honest'
<1> DEFINE m == Head(q[s])
           h == [at |-> m.t, key |-> m.key, d |-> 0]
<1>1. /\ hand[s] = Quiet /\ q[s] # <<>> /\ q' = [q EXCEPT ![s] = Tail(@)]
      /\ m.t \in {"hello", "publish"} /\ m \in Message
      /\ UNCHANGED <<native, channel, up, down, bs, entries, deliv>>
      /\ hand' = hand \/ hand' = [hand EXCEPT ![s] = h]
  BY FirstOf DEF Begin, Next1, Popped, TypeOK
<1>2. up[s] \in Seq(Message) /\ q[s] \in Seq(Message) /\ hand \in [Conns -> Handler]
  BY DEF TypeOK
<1>3. h.at = m.t /\ h.key = m.key
  OBVIOUS
<1>4. PICK w \in Seq(Message) : w = Line(s) /\ w # <<>> /\ Line(s)' = Tail(w) /\ Head(w) = m
  <2>1. q'[s] = Tail(q[s]) /\ up'[s] = up[s]
    BY <1>1, <1>2 DEF TypeOK
  <2>2. /\ Tail(q[s]) \o up[s] = Tail(q[s] \o up[s]) /\ Head(q[s] \o up[s]) = Head(q[s])
        /\ q[s] \o up[s] # <<>> /\ q[s] \o up[s] \in Seq(Message)
    BY <1>1, <1>2, LineTail
  <2> QED BY <2>1, <2>2 DEF Line
<1> HIDE DEF m, h
<1>5. ASSUME NEW c \in Conns, NEW k \in Keys, Waiting(c, k)' => Waiting(c, k) PROVE Calm(c, k)
  <2>1. LineRuns(c, k)
    <3>1. up'[c] = up[c] /\ q'[c] = IF c = s THEN Tail(q[c]) ELSE q[c]
      BY <1>1, <1>2 DEF TypeOK
    <3>2. m # Resolved(k)
      BY <1>1 DEF Resolved
    <3> QED BY <1>1, <3>1, <3>2 DEF LineRuns, m
  <2> QED BY <1>1, <1>5, <2>1 DEF Calm, Unsure, native
<1>6. ASSUME NEW c \in Conns, NEW k \in Keys, Waiting(c, k)', ~Waiting(c, k)
      PROVE  c = s /\ m \in PublishesOf(k)
  <2>1. hand'[c] # hand[c]
    BY <1>1, <1>6 DEF Waiting
  <2>2. c = s /\ hand'[c] = h
    BY <1>1, <1>2, <2>1
  <2>3. h.at = "publish" /\ h.key = k
    BY <1>1, <1>3, <1>6, <2>2 DEF Waiting
  <2> QED BY <1>1, <1>3, <2>2, <2>3 DEF PublishesOf
<1>7. ASSUME NEW k \in Keys, m \in PublishesOf(k), Current(s, k) PROVE Current(s, k)'
  <2>1. Has(w, PublishesOf(k))
    BY <1>4, <1>7, TailHas
  <2>2. ~Has(down'[s], AnswersFor(k))
    BY <1>1, <1>4, <1>7, <2>1 DEF Current
  <2>3. Followed(w, PublishesOf(k), {Resolved(k)}) =>
           Followed(Tail(w), PublishesOf(k), {Resolved(k)}) /\ Has(Tail(w), {Resolved(k)})
    BY <1>4, <1>7, FollowedTail
  <2> QED BY <1>1, <1>4, <1>7, <2>2, <2>3 DEF Current, native
<1>8. \A c \in Conns, k \in Keys : Calm(c, k) \/ (Current(c, k) => Current(c, k)')
  BY <1>5, <1>6, <1>7
<1> QED BY <1>1, <1>8, HonestFrame DEF Alive, channel

LEMMA ReadHonest ==
    ASSUME TypeOK, TypeOK', Honest, NEW s \in Conns, SessionRead(s) \/ HandlerFails(s)
    PROVE  Honest'
<1>1. hand[s].at = "publish" /\ UNCHANGED <<native, channel, up, down, entries, deliv>>
  BY DEF SessionRead, HandlerFails
<1>2. \/ UNCHANGED <<bs, q>> /\ hand' = [hand EXCEPT ![s].at = "prepare"]
      \/ UNCHANGED <<bs, q>> /\ hand' = [hand EXCEPT ![s] = Quiet]
      \/ Alive(s) /\ Refused(s)
  BY DEF SessionRead, HandlerFails
<1>3. ASSUME NEW c \in Conns, Alive(c)'
      PROVE  Alive(c) /\ q'[c] = q[c]
             /\ \/ hand'[c] = hand[c]
                \/ hand'[c].at = "idle"
                \/ hand[c].at = "publish" /\ hand'[c].key = hand[c].key
  <2>1. \A x \in Handler : [x EXCEPT !.at = "prepare"].key = x.key
    BY DEF Handler
  <2>2. hand[s] \in Handler
    BY DEF TypeOK
  <2>3. CASE UNCHANGED <<bs, q>> /\ hand' = [hand EXCEPT ![s].at = "prepare"]
    <3>1. hand'[c] = IF c = s THEN [hand[s] EXCEPT !.at = "prepare"] ELSE hand[c]
      BY <2>3 DEF TypeOK
    <3> QED BY <1>1, <1>3, <2>1, <2>2, <2>3, <3>1 DEF Alive
  <2>4. CASE UNCHANGED <<bs, q>> /\ hand' = [hand EXCEPT ![s] = Quiet]
    BY <1>3, <2>4, QuietHand DEF Alive, TypeOK
  <2>5. CASE Alive(s) /\ Refused(s)
    BY <1>3, <2>5 DEF Alive, Refused, TypeOK
  <2> QED BY <1>2, <2>3, <2>4, <2>5
<1>4. ASSUME NEW c \in Conns, NEW k \in Keys, Alive(c)' PROVE Calm(c, k)
  <2>1. Waiting(c, k)' => Waiting(c, k)
    BY <1>1, <1>3, <1>4 DEF Waiting
  <2> QED BY <1>1, <1>3, <1>4, <2>1 DEF Calm, LineRuns, Unsure, native
<1> QED BY <1>1, <1>3, <1>4, HonestFrame DEF channel

\* A handler shows its card: it was waiting before, or its automatic answer went unconfirmed.
LEMMA ShownWaiting ==
    ASSUME TypeOK, NEW s \in Conns, NEW k \in Keys, Shown(s, k),
           hand' = [hand EXCEPT ![s] = Quiet], Alive(s) => Waiting(s, k) \/ Unsure(k)',
           NEW c \in Conns, NEW j \in Keys, Waiting(c, j)'
    PROVE  Waiting(c, j) \/ Unsure(j)'
<1>1. hand'[c] = hand[c] \/ hand'[c].at = "idle"
  BY QuietHand DEF TypeOK
<1>2. entries'[j] = entries[j] \/ (j = k /\ Alive(s) /\ entries'[j].sock = s)
  BY DEF Shown, TypeOK
<1> QED BY <1>1, <1>2 DEF Waiting

LEMMA ShowHonest ==
    ASSUME TypeOK, TypeOK', Honest, NEW s \in Conns, Show(s)
    PROVE  Honest'
<1>1. /\ hand[s].at = "prepare" /\ hand' = [hand EXCEPT ![s] = Quiet]
      /\ UNCHANGED <<native, channel, up, down, bs, q, deliv>>
  BY DEF Show
<1>2. PICK k \in Keys : k = hand[s].key
  BY DEF TypeOK, Handler
<1>3. Waiting(s, k) /\ Shown(s, k)
  BY <1>1, <1>2 DEF Waiting, Show
<1>4. ASSUME NEW c \in Conns, NEW j \in Keys PROVE Calm(c, j)
  <2>1. Waiting(c, j)' => Waiting(c, j) \/ Unsure(j)'
    BY <1>1, <1>3, ShownWaiting
  <2> QED BY <1>1, <2>1 DEF Calm, LineRuns, Unsure, native
<1> QED BY <1>1, <1>4, HonestFrame DEF Alive, channel

\* Deliveries that end: one that is uncertain stays it.
LEMMA FinishedUnsure ==
    ASSUME TypeOK, NEW D \in SUBSET Deliveries, \A d \in D : deliv[d].status = "sent",
           NEW st \in {"answered", "stale", "unknown"}, deliv' = Finished(D, st)
    PROVE  /\ \A k \in Keys : Unsure(k) => Unsure(k)'
           /\ \A d \in D, k \in Keys :
                 deliv[d].key = k /\ deliv[d].by = "auto" /\ st = "unknown" => Unsure(k)'
<1>1. \A d \in Deliveries : d \notin D => deliv'[d] = deliv[d]
  BY DEF Finished
<1>2. \A d \in D : deliv'[d].status = st /\ deliv'[d].key = deliv[d].key /\ deliv'[d].by = deliv[d].by
  <2>1. \A d \in D : deliv'[d] = [deliv[d] EXCEPT !.status = st] /\ deliv[d] \in Delivery
    BY DEF Finished, TypeOK
  <2>2. \A x \in Delivery : LET y == [x EXCEPT !.status = st]
                            IN  y.status = st /\ y.key = x.key /\ y.by = x.by
    BY DEF Delivery
  <2> SUFFICES ASSUME NEW d \in D
               PROVE  deliv'[d].status = st /\ deliv'[d].key = deliv[d].key /\ deliv'[d].by = deliv[d].by
    OBVIOUS
  <2>3. PICK x \in Delivery : x = deliv[d] /\ deliv'[d] = [x EXCEPT !.status = st]
    BY <2>1
  <2> QED BY <2>2, <2>3
<1>3. ASSUME NEW k \in Keys, Unsure(k) PROVE Unsure(k)'
  <2>1. PICK d \in Deliveries : deliv[d].key = k /\ deliv[d].by = "auto" /\ deliv[d].status = "unknown"
    BY <1>3 DEF Unsure
  <2>2. d \notin D
    BY <2>1
  <2> QED BY <1>1, <2>1, <2>2 DEF Unsure
<1>4. ASSUME NEW d \in D, NEW k \in Keys, deliv[d].key = k, deliv[d].by = "auto", st = "unknown"
      PROVE  Unsure(k)'
  <2>1. deliv'[d].key = k /\ deliv'[d].by = "auto" /\ deliv'[d].status = "unknown"
    BY <1>2, <1>4
  <2> QED BY <2>1 DEF Unsure
<1> QED BY <1>3, <1>4

\* What ends a delivery asks for nothing.
LEMMA EndedWaiting ==
    ASSUME TypeOK, NEW cards \in [Keys -> Card], NEW D \in SUBSET Deliveries,
           NEW st \in {"answered", "stale", "unknown"}, NEW k \in Keys,
           Ended(cards, D, st)[k].status = "pending"
    PROVE  Ended(cards, D, st)[k] = cards[k]
<1>1. CASE st \in {"answered", "stale"}
  BY <1>1 DEF Ended, Without, NoCard
<1>2. CASE st = "unknown"
  <2>1. [cards[k] EXCEPT !.status = "unknown"].status = "unknown"
    BY DEF Card
  <2>2. Ended(cards, D, st)[k] \in {cards[k], [cards[k] EXCEPT !.status = "unknown"]}
    BY <1>2 DEF Ended
  <2> QED BY <2>1, <2>2
<1> QED BY <1>1, <1>2

LEMMA EndHonest ==
    ASSUME TypeOK, TypeOK', Placed, Honest, NEW d \in Deliveries, NEW s, NEW k \in Keys,
           deliv[d].status = "sent", deliv[d].sock = s, deliv[d].key = k,
           NEW st \in {"answered", "stale", "unknown"}, deliv' = Finished({d}, st),
           UNCHANGED <<native, channel, down, bs, q>>,
           \A c \in Conns, j \in Keys : LineRuns(c, j),
           hand' = IF deliv[d].by = "auto" THEN [hand EXCEPT ![s] = Quiet] ELSE hand,
           \/ deliv[d].by = "auto" /\ st = "unknown" /\ Shown(s, k)
           \/ entries' = Ended(entries, {d}, st)
    PROVE  Honest'
<1>1. s \in Conns
  BY DEF Placed, Answers
<1>2. (\A j \in Keys : Unsure(j) => Unsure(j)') /\ (deliv[d].by = "auto" /\ st = "unknown" => Unsure(k)')
  <2>1. {d} \in SUBSET Deliveries /\ (\A e \in {d} : deliv[e].status = "sent") /\ d \in {d}
    OBVIOUS
  <2> QED BY <2>1, FinishedUnsure
<1>3. ASSUME NEW c \in Conns, NEW j \in Keys, Waiting(c, j)' PROVE Waiting(c, j) \/ Unsure(j)'
  <2>1. CASE deliv[d].by = "auto" /\ st = "unknown" /\ Shown(s, k)
    <3>1. Unsure(k)'
      BY <1>2, <2>1
    <3> QED BY <1>1, <1>3, <2>1, <3>1, ShownWaiting
  <2>2. CASE entries' = Ended(entries, {d}, st)
    <3>1. hand'[c] = hand[c] \/ hand'[c].at = "idle"
      BY QuietHand DEF TypeOK
    <3>2. entries'[j].status = "pending" => entries'[j] = entries[j]
      <4>1. entries \in [Keys -> Card] /\ {d} \in SUBSET Deliveries
        BY DEF TypeOK
      <4>2. Ended(entries, {d}, st)[j].status = "pending" => Ended(entries, {d}, st)[j] = entries[j]
        BY <4>1, EndedWaiting
      <4> QED BY <2>2, <4>2
    <3> QED BY <1>3, <3>1, <3>2 DEF Waiting
  <2> QED BY <2>1, <2>2
<1>4. \A c \in Conns, j \in Keys : Calm(c, j)
  BY <1>2, <1>3 DEF Calm, native
<1> QED BY <1>4, HonestFrame DEF Alive, channel

LEMMA TimeoutHonest ==
    ASSUME TypeOK, TypeOK', Placed, Honest, NEW d \in Deliveries, Timeout(d)
    PROVE  Honest'
<1>0. PICK s : s = deliv[d].sock
  OBVIOUS
<1>1. PICK k \in Keys : s = deliv[d].sock /\ k = deliv[d].key
  BY <1>0 DEF TypeOK, Delivery
<1>2. /\ deliv[d].status = "sent" /\ deliv' = Finished({d}, "unknown")
      /\ UNCHANGED <<native, channel, down, bs, q, up>>
      /\ hand' = IF deliv[d].by = "auto" THEN [hand EXCEPT ![s] = Quiet] ELSE hand
      /\ \/ deliv[d].by = "auto" /\ Shown(s, k)
         \/ entries' = Ended(entries, {d}, "unknown")
  BY <1>1 DEF Timeout
<1>3. \A c \in Conns, j \in Keys : LineRuns(c, j)
  BY <1>2 DEF LineRuns
<1> QED BY <1>1, <1>2, <1>3, EndHonest

LEMMA GetResultHonest ==
    ASSUME TypeOK, TypeOK', WellFormed, Routed, Placed, Honest, NEW s \in Conns, GetResult(s)
    PROVE  Honest'
<1>1. PICK m \in Message : m = Head(up[s]) /\ m \notin Malformed /\ m \notin Misaddressed
  <2>1. /\ up[s] \in Seq(Message) /\ up[s] # <<>> /\ ~Has(up[s], Malformed)
        /\ ~Has(up[s], Misaddressed)
    BY DEF GetResult, TypeOK, WellFormed, Routed, Addressed
  <2> QED BY <2>1, HeadIn
<1>2. /\ up[s] # <<>> /\ m.t = "result" /\ up' = [up EXCEPT ![s] = Tail(@)]
      /\ UNCHANGED <<native, channel, down, bs, q>>
  BY <1>1 DEF GetResult
<1>3. PICK d \in Deliveries, st \in {"answered", "stale", "unknown"} : d = m.d /\ st = m.status
  BY <1>1, <1>2 DEF Message, Malformed, Deliveries
<1>4. \A c \in Conns, j \in Keys : LineRuns(c, j)
  <2>1. \A c \in Conns : up'[c] = IF c = s THEN Tail(up[c]) ELSE up[c]
    BY <1>2 DEF TypeOK
  <2>2. \A j \in Keys : m # Resolved(j)
    BY <1>2 DEF Resolved
  <2> QED BY <1>1, <1>2, <2>1, <2>2 DEF LineRuns
<1>5. CASE deliv[d].status # "sent" \/ deliv[d].sock # s
  <2>1. UNCHANGED <<hand, entries, deliv>>
    BY <1>1, <1>3, <1>5 DEF GetResult
  <2>2. \A c \in Conns, j \in Keys : Calm(c, j)
    BY <1>2, <1>4, <2>1 DEF Calm, Waiting, Unsure, native
  <2> QED BY <1>2, <2>2, HonestFrame DEF Alive, channel
<1>6. CASE deliv[d].status = "sent" /\ deliv[d].sock = s
  <2>1. PICK k \in Keys : k = deliv[d].key
    BY DEF TypeOK, Delivery
  <2>2. m.key = k
    BY <1>1, <1>2, <1>3, <2>1 DEF Misaddressed
  <2>3. /\ deliv' = Finished({d}, st)
        /\ hand' = IF deliv[d].by = "auto" THEN [hand EXCEPT ![s] = Quiet] ELSE hand
        /\ \/ deliv[d].by = "auto" /\ st = "unknown" /\ Shown(s, k)
           \/ entries' = Ended(entries, {d}, st)
    BY <1>1, <1>3, <1>6, <2>2 DEF GetResult
  <2> QED BY <1>2, <1>4, <1>6, <2>1, <2>3, EndHonest
<1> QED BY <1>5, <1>6

\* An answer goes out for a request that is asked nowhere else on its connection.
LEMMA AnsweringHonest ==
    ASSUME TypeOK, TypeOK', Placed, Honest, NEW d \in Deliveries, NEW k \in Keys, NEW s \in Conns,
           NEW by \in {"auto", "chat"}, NEW ho \in BOOLEAN, Answering(d, k, s, by, ho),
           Alive(s), UNCHANGED <<native, channel, up, bs, q>>,
           ~Has(Line(s), PublishesOf(k)), ~Waiting(s, k)',
           \A c \in Conns, j \in Keys : Waiting(c, j)' => Waiting(c, j)
    PROVE  Honest'
<1> DEFINE m == [t |-> "answer", key |-> k, d |-> d, status |-> "none"]
<1>1. m \in Message /\ \A j \in Keys : m \in AnswersFor(j) => j = k
  BY BrokerAssumption DEF Message, Deliveries, AnswersFor
<1>2. /\ deliv[d].status = "none" /\ \A e \in Deliveries : e # d => deliv'[e] = deliv[e]
      /\ down'[s] = Append(down[s], m) /\ \A c \in Conns : c # s => down'[c] = down[c]
  BY DEF Answering, FreeDelivery, TypeOK
<1> HIDE DEF m
<1>3. ASSUME NEW c \in Conns, NEW j \in Keys PROVE LineRuns(c, j) /\ (Unsure(j) => Unsure(j)')
  <2>1. LineRuns(c, j)
    BY DEF LineRuns
  <2>2. \A e \in Deliveries : deliv[e].status = "unknown" => deliv'[e] = deliv[e]
    BY <1>2
  <2> QED BY <2>1, <2>2 DEF Unsure
<1>4. ASSUME NEW c \in Conns, NEW j \in Keys, c # s \/ j # k PROVE Calm(c, j)
  <2>1. Has(down'[c], AnswersFor(j)) => Has(down[c], AnswersFor(j))
    <3>1. down[s] \in Seq(Message)
      BY DEF TypeOK
    <3>2. Has(Append(down[s], m), AnswersFor(j)) <=> (Has(down[s], AnswersFor(j)) \/ m \in AnswersFor(j))
      BY <1>1, <3>1, AppendHas
    <3> QED BY <1>1, <1>2, <1>4, <3>2
  <2> QED BY <1>3, <2>1 DEF Calm, native
<1>5. Current(s, k) => Current(s, k)'
  <2>1. Line(s)' = Line(s)
    BY DEF Line
  <2> QED BY <2>1 DEF Current, native
<1> QED BY <1>4, <1>5, HonestFrame DEF Alive, channel

LEMMA AutoAnswerHonest ==
    ASSUME TypeOK, TypeOK', Placed, Honest, NEW s \in Conns, AutoAnswer(s)
    PROVE  Honest'
<1>1. PICK k \in Keys : k = hand[s].key
  BY DEF TypeOK, Handler
<1>2. PICK d \in Deliveries : /\ Answering(d, k, s, "auto", FALSE)
                              /\ hand' = [hand EXCEPT ![s].at = "auto", ![s].d = d]
  BY <1>1 DEF AutoAnswer
<1>3. /\ hand[s].at = "prepare" /\ Alive(s)
      /\ UNCHANGED <<native, channel, up, bs, q, entries>>
  BY DEF AutoAnswer
<1>4. hand'[s].at = "auto" /\ \A c \in Conns : c # s => hand'[c] = hand[c]
  <2>1. hand \in [Conns -> Handler]
    BY DEF TypeOK
  <2>2. \A h \in Handler : [h EXCEPT !.at = "auto", !.d = d].at = "auto"
    BY DEF Handler
  <2>3. hand'[s] = [hand[s] EXCEPT !.at = "auto", !.d = d] /\ hand[s] \in Handler
    BY <1>2, <2>1
  <2>4. \A c \in Conns : c # s => hand'[c] = hand[c]
    BY <1>2, <2>1
  <2> QED BY <2>2, <2>3, <2>4
<1>5. ~Has(Line(s), PublishesOf(k)) /\ entries[k].sock # s
  BY <1>1, <1>3 DEF Placed, Connection, Single, Held
<1>6. ~Waiting(s, k)' /\ \A c \in Conns, j \in Keys : Waiting(c, j)' => Waiting(c, j)
  BY <1>3, <1>4, <1>5 DEF Waiting
<1> QED BY <1>2, <1>3, <1>5, <1>6, AnsweringHonest

LEMMA AnswerHonest ==
    ASSUME TypeOK, TypeOK', Placed, Honest, NEW k \in Keys, NEW ho \in BOOLEAN, Answer(k, ho)
    PROVE  Honest'
<1>1. HasCard(k) /\ UNCHANGED <<native, channel, up, bs, q, hand>>
  BY DEF Answer
<1>2. PICK s \in Conns : s = entries[k].sock
  BY <1>1 DEF Placed, Carded
<1>3. PICK d \in Deliveries :
         /\ Answering(d, k, s, "chat", ho)
         /\ entries' = [entries EXCEPT ![k].status = "responding", ![k].claim = d]
  BY <1>2 DEF Answer
<1>4. Alive(s)
  BY <1>2 DEF Answer
<1>5. ~Has(Line(s), PublishesOf(k)) /\ ~Held(s, k)
  BY <1>2, <1>4 DEF Placed, Connection, Single
<1>6. entries'[k].status = "responding" /\ \A j \in Keys : j # k => entries'[j] = entries[j]
  BY <1>3 DEF TypeOK, Card
<1>7. ~Waiting(s, k)' /\ \A c \in Conns, j \in Keys : Waiting(c, j)' => Waiting(c, j)
  BY <1>1, <1>5, <1>6 DEF Waiting, Held
<1> QED BY <1>1, <1>3, <1>4, <1>5, <1>7, AnsweringHonest

\* Connections end, and nothing is asked on another one.
LEMMA EndsHonest ==
    ASSUME TypeOK, TypeOK', Honest, UNCHANGED <<native, channel>>,
           NEW D \in SUBSET Deliveries, deliv' = deliv \/ deliv' = Finished(D, "unknown"),
           \A d \in D : deliv[d].status = "sent",
           \A s \in Conns : Alive(s)' => Alive(s) /\ UNCHANGED <<up[s], q[s], down[s], hand[s]>>,
           \A k \in Keys : entries'[k].status = "pending" => entries'[k] = entries[k]
    PROVE  Honest'
<1>1. \A k \in Keys : Unsure(k) => Unsure(k)'
  BY FinishedUnsure DEF Unsure
<1>2. ASSUME NEW c \in Conns, NEW k \in Keys, Alive(c)' PROVE Calm(c, k)
  BY <1>1, <1>2 DEF Calm, LineRuns, Waiting, native
<1> QED BY <1>2, HonestFrame DEF channel

LEMMA CloseHonest ==
    ASSUME TypeOK, TypeOK', Honest, NEW s \in Conns, CloseEvent(s)
    PROVE  Honest'
<1> DEFINE D == {d \in Deliveries : deliv[d].status = "sent" /\ deliv[d].sock = s}
           rest == Without(entries, {k \in Keys : entries[k].sock = s})
<1>1. /\ bs' = [bs EXCEPT ![s] = "closed"] /\ entries' = Ended(rest, D, "unknown")
      /\ deliv' = Finished(D, "unknown") /\ up' = [up EXCEPT ![s] = <<>>]
      /\ hand' = hand \/ hand' = [hand EXCEPT ![s] = Quiet]
      /\ UNCHANGED <<native, channel, q>>
      /\ \A c \in Conns : c # s => down'[c] = down[c]
  BY DEF CloseEvent, Gone, TypeOK
<1>2. \A c \in Conns : Alive(c)' => Alive(c) /\ UNCHANGED <<up[c], q[c], down[c], hand[c]>>
  <2>1. bs'[s] = "closed"
        /\ \A c \in Conns : c # s => bs'[c] = bs[c] /\ up'[c] = up[c] /\ hand'[c] = hand[c]
    BY <1>1 DEF TypeOK
  <2> QED BY <1>1, <2>1 DEF Alive
<1>3. \A k \in Keys : entries'[k].status = "pending" => entries'[k] = entries[k]
  <2>1. rest \in [Keys -> Card]
    BY CardTypes DEF TypeOK
  <2>2. \A k \in Keys : rest[k].status = "pending" => rest[k] = entries[k]
    BY DEF Without, NoCard
  <2>3. D \in SUBSET Deliveries
    OBVIOUS
  <2> HIDE DEF rest, D
  <2>4. \A k \in Keys : entries'[k].status = "pending" => entries'[k] = rest[k]
    BY <1>1, <2>1, <2>3, EndedWaiting
  <2> QED BY <2>2, <2>4
<1>4. D \in SUBSET Deliveries /\ \A d \in D : deliv[d].status = "sent"
  OBVIOUS
<1> HIDE DEF D, rest
<1> QED BY <1>1, <1>2, <1>3, <1>4, EndsHonest

LEMMA DiscardHonest ==
    ASSUME TypeOK, TypeOK', Honest, Discard
    PROVE  Honest'
<1>1. /\ \A s \in Conns : bs'[s] = IF bs[s] = "open" THEN "destroyed" ELSE bs[s]
      /\ \A k \in Keys : entries'[k] = NoCard
      /\ UNCHANGED <<native, channel, up, down, q, hand, deliv>>
  BY DEF Discard
<1>2. \A c \in Conns : Alive(c)' => Alive(c) /\ UNCHANGED <<up[c], q[c], down[c], hand[c]>>
  BY <1>1 DEF Alive
<1>3. \A k \in Keys : entries'[k].status # "pending"
  BY <1>1 DEF NoCard
<1>4. {} \in SUBSET Deliveries
  OBVIOUS
<1> QED BY <1>1, <1>2, <1>3, <1>4, EndsHonest

LEMMA CrashHonest ==
    ASSUME TypeOK, TypeOK', Honest, Crash
    PROVE  Honest'
<1>1. UNCHANGED sock /\ \A s \in Conns : ~Alive(s)'
  BY DEF Crash, channel, Alive
<1> QED BY <1>1 DEF Honest

LEMMA HelloHonest ==
    ASSUME TypeOK, TypeOK', Placed, Honest, NEW s \in Conns, Hello(s)
    PROVE  Honest'
<1>1. /\ hand[s].at = "hello" /\ hand' = [hand EXCEPT ![s] = Quiet]
      /\ UNCHANGED <<native, channel, up, q, deliv>>
  BY DEF Hello
<1>2. \A c \in Conns : hand'[c] = hand[c] \/ hand'[c].at = "idle"
  BY <1>1, QuietHand DEF TypeOK
<1>3. entries' = entries /\ \A c \in Conns : Alive(c)' => Alive(c)
  <2>1. CASE ~Alive(s)
    BY <2>1 DEF Hello, Alive
  <2>2. CASE Alive(s)
    <3>1. bs[s] = "new"
      BY <1>1, <2>2 DEF Placed, Connection, Greeting, Alive
    <3>2. \A k \in Keys : entries[k].sock \notin {c \in Conns \ {s} : bs[c] = "open"}
      BY <3>1 DEF Placed, NothingToTake, Token, Alive
    <3>3. \A k \in Keys : entries'[k] = entries[k]
      BY <2>2, <3>2 DEF Hello
    <3>4. \A c \in Conns : Alive(c)' => Alive(c)
      BY <2>2 DEF Hello, Alive
    <3> QED BY <3>3, <3>4 DEF TypeOK
  <2> QED BY <2>1, <2>2
<1>4. ASSUME NEW c \in Conns, NEW k \in Keys
      PROVE  Has(down'[c], AnswersFor(k)) => Has(down[c], AnswersFor(k))
  <2>1. PICK m \in Message : m = Plain("ready") /\ m \notin AnswersFor(k)
    BY Typed, KindsOf
  <2>2. down \in [Conns -> Seq(Message)] /\ (down' = down \/ down' = [down EXCEPT ![s] = Append(@, m)])
    <3>1. down' = down \/ down' = [down EXCEPT ![s] = Append(@, Plain("ready"))]
      BY DEF Hello
    <3> QED BY <2>1, <3>1 DEF TypeOK
  <2>3. CASE c # s \/ down' = down
    BY <2>2, <2>3
  <2>4. CASE c = s /\ down' = [down EXCEPT ![s] = Append(@, m)]
    <3>1. down[c] \in Seq(Message) /\ down'[c] = Append(down[c], m)
      BY <2>2, <2>4
    <3>2. Has(Append(down[c], m), AnswersFor(k)) <=> (Has(down[c], AnswersFor(k)) \/ m \in AnswersFor(k))
      BY <2>1, <3>1, AppendHas
    <3> QED BY <2>1, <3>1, <3>2
  <2> QED BY <2>2, <2>3, <2>4
<1>5. \A c \in Conns, k \in Keys : Calm(c, k)
  BY <1>1, <1>2, <1>3, <1>4 DEF Calm, LineRuns, Waiting, Unsure, native
<1> QED BY <1>1, <1>3, <1>5, HonestFrame DEF channel

LEMMA InitHonest == Init => Honest
BY DEF Init, Honest, Conns

LEMMA HonestKept ==
    ASSUME TypeOK, TypeOK', WellFormed, Routed, Placed, Honest, [Next]_vars
    PROVE  Honest'
<1>1. CASE UNCHANGED vars
  BY <1>1 DEF vars, native, channel, broker, Honest, Current, Waiting, Unsure, Line, Alive
<1>2. CASE Next
  BY <1>2, AskHonest, ReadyHonest, ConnectHonest, ListensHonest, QueueHonest, HandleResolvedHonest,
     BeginHonest, ReadHonest, ShowHonest, TimeoutHonest, GetResultHonest, AutoAnswerHonest,
     AnswerHonest, CloseHonest, DiscardHonest, CrashHonest, HelloHonest
     DEF Next, Native, Channel, Broker, Listens
<1> QED BY <1>1, <1>2

\* A card the broker still shows on a living connection is the CLI's own.
LEMMA HonestCards ==
    ASSUME TypeOK, Placed, Honest
    PROVE  CardHonest
<1> SUFFICES ASSUME NEW k \in Keys, HasCard(k), NEW s, s = entries[k].sock
             PROVE  /\ bs[s] \in {"open", "destroyed"}
                    /\ \/ entries[k].status # "pending" \/ pend[k] = "pending"
                       \/ \E m \in {up[s][i] : i \in DOMAIN up[s]} \cup {q[s][i] : i \in DOMAIN q[s]} :
                             m = Resolved(k) \/ m.t = "close"
                       \/ bs[s] = "destroyed" \/ s \notin {sock, old}
                       \/ \E d \in Deliveries : deliv[d].key = k /\ deliv[d].by = "auto"
                                                /\ deliv[d].status = "unknown"
  BY DEF CardHonest
<1>1. s \in Conns /\ bs[s] \in {"open", "destroyed"}
  BY DEF Placed, Carded
<1> SUFFICES ASSUME entries[k].status = "pending", pend[k] # "pending", bs[s] = "open",
                    s \in {sock, old}, ~Unsure(k)
             PROVE  \E m \in {up[s][i] : i \in DOMAIN up[s]} \cup {q[s][i] : i \in DOMAIN q[s]} :
                       m = Resolved(k)
  BY <1>1 DEF Unsure
<1>2. s # old
  BY <1>1 DEF Placed, Channels, Alive, Token, Conns
<1>3. Has(Line(s), {Resolved(k)})
  BY <1>1, <1>2 DEF Honest, Current, Waiting, Alive
<1>4. Has(q[s], {Resolved(k)}) \/ Has(up[s], {Resolved(k)})
  <2>1. q[s] \in Seq(Message) /\ up[s] \in Seq(Message)
    BY <1>1 DEF TypeOK
  <2> QED BY <1>3, <2>1, JoinHas DEF Line
<1> QED BY <1>4 DEF Has

\* A card can be answered: its connection lives, and while it asks for an answer the CLI waits
\* for one, unless the news of the end is on the way or an automatic answer went unconfirmed
\* (request-broker.js:246-360, native-channel.js:39-87).
THEOREM CardsAreHonest == Spec => []CardHonest
<1>1. TypeOK /\ TypeOK' /\ WellFormed /\ Routed /\ Placed /\ Honest /\ [Next]_vars => Honest'
  BY HonestKept
<1>2. TypeOK /\ Placed /\ Honest => CardHonest
  BY HonestCards
<1> QED BY <1>1, <1>2, InitHonest, TypeCorrect, AnswersInOnePlace, RequestsInOnePlace, PTL DEF Spec
=============================================================================

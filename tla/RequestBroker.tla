--------------------------- MODULE RequestBroker ---------------------------
(***************************************************************************)
(* The native requests of one CLI session: the channel inside the CLI       *)
(* (native-channel.js), the broker in the server (request-broker.js,        *)
(* request-delivery.js) and the socket between them.  A connection is a     *)
(* FIFO wire each way that ends with "close".  Broker and CLI each run      *)
(* their own code without interleaving but for its awaits; the broker may   *)
(* crash and restart, and keeps only the set of requests it announced.      *)
(***************************************************************************)
EXTENDS Integers, Sequences, FiniteSets

CONSTANTS
    Keys,          \* the occurrences the CLI asks for
    MaxDeliveries, \* answers sent, by anyone
    MaxTrouble     \* crashes, failing handlers and hook handovers together

ASSUME BrokerAssumption ==
    /\ Keys # {} /\ IsFiniteSet(Keys)
    /\ MaxDeliveries \in Nat \ {0} /\ MaxTrouble \in Nat

VARIABLES
    request,   \* the CLI's own dialog: none, open, over
    took,      \* the delivery whose answer the CLI took, 0 for none
    pend,      \* channel: none, pending, responding, stale, unknown
    io,        \* the delivery whose native I/O runs, 0 for none
    sock,      \* channel: its connection, 0 while it waits to reconnect
    connected, \* channel: ready was received on that connection
    old,       \* the connection a released hook keeps for its successor, or 0
    up, down,  \* the wires of a connection, towards the broker and the CLI
    bs,        \* broker: none, new, open, destroyed, closed
    q,         \* broker: messages whose handlers wait for the one that runs
    hand,      \* broker: that handler
    entries,   \* broker: the card of a request
    deliv,     \* broker: deliveries
    created,   \* stored: the requests announced
    announced, \* how often request.created reached the listeners
    running,   \* the session runs
    trouble

native == <<request, took, pend, io>>
channel == <<sock, connected, old>>
broker == <<bs, q, hand, entries, deliv, created, announced>>
vars == <<native, channel, up, down, broker, running, trouble>>

Conns == 1..MaxTrouble + 1
Deliveries == 1..MaxDeliveries
NoCard == [sock |-> 0, status |-> "none", claim |-> 0]
NoDelivery == [key |-> CHOOSE k \in Keys : TRUE, sock |-> 0, by |-> "none",
               handoff |-> FALSE, status |-> "none"]
Quiet == [at |-> "idle", key |-> CHOOSE k \in Keys : TRUE, d |-> 0]
HasCard(k) == entries[k] # NoCard
FreeDelivery(d) == /\ deliv[d].status = "none" /\ \A e \in 1..(d - 1) : deliv[e].status # "none"
Alive(s) == bs[s] \in {"new", "open"}
\* What the CLI sends on connection s; lost once the broker closed it.
Sent(s, msgs) == [up EXCEPT ![s] = IF Alive(s) THEN @ \o msgs ELSE @]
Publish(k) == [t |-> "publish", key |-> k, d |-> 0, status |-> "none"]
Resolved(k) == [t |-> "resolved", key |-> k, d |-> 0, status |-> "none"]
Result(d, st) == [t |-> "result", key |-> deliv[d].key, d |-> d, status |-> st]
Plain(t) == [t |-> t, key |-> CHOOSE k \in Keys : TRUE, d |-> 0, status |-> "none"]

-----------------------------------------------------------------------------
(* The CLI and its channel.                                                 *)

\* A dialog opens; the channel publishes it now, or at the next ready.
Ask(k) ==
    /\ running /\ request[k] = "none"
    /\ request' = [request EXCEPT ![k] = "open"] /\ pend' = [pend EXCEPT ![k] = "pending"]
    /\ up' = IF connected THEN Sent(sock, <<Publish(k)>>) ELSE up
    /\ UNCHANGED <<took, io, channel, down, broker, running, trouble>>

\* The owner decides in the terminal, or the CLI moves on.
Decide(k) ==
    /\ running /\ request[k] = "open"
    /\ request' = [request EXCEPT ![k] = "over"]
    /\ UNCHANGED <<took, pend, io, channel, up, down, broker, running, trouble>>

\* resolve: the CLI's adapter saw that the dialog is over.  Codex does not come here for
\* an answer it delivered, OpenCode and Claude's hook do.
Resolve(k) ==
    /\ running /\ request[k] = "over" /\ pend[k] # "none"
    /\ pend' = [pend EXCEPT ![k] = "none"]
    /\ up' = IF sock # 0 THEN Sent(sock, <<Resolved(k)>>) ELSE up
    /\ UNCHANGED <<request, took, io, channel, down, broker, running, trouble>>

\* connect, one second after the last connection closed.
Connect(s) ==
    /\ running /\ sock = 0 /\ bs[s] = "none" /\ \A c \in 1..(s - 1) : bs[c] # "none"
    /\ sock' = s /\ bs' = [bs EXCEPT ![s] = "new"]
    /\ up' = [up EXCEPT ![s] = <<Plain("hello")>>]
    /\ UNCHANGED <<native, connected, old, down, q, hand, entries, deliv, created, announced,
                   running, trouble>>

\* ready: what is pending, and only that, is published again.  Mutant: nothing is.
PendingNone == {}
Pending == {k \in Keys : pend[k] = "pending"}
Orders(S) == {f \in [1..Cardinality(S) -> S] : \A i, j \in DOMAIN f : f[i] = f[j] => i = j}
Ready ==
    /\ running /\ sock # 0 /\ down[sock] # <<>> /\ Head(down[sock]).t = "ready"
    /\ connected' = TRUE
    /\ \E f \in Orders(Pending) :
          up' = Sent(sock, [i \in DOMAIN f |-> Publish(f[i])])
    /\ down' = [down EXCEPT ![sock] = Tail(@)]
    /\ UNCHANGED <<native, sock, old, broker, running, trouble>>

\* The broker's hook file is newer: the hook releases its channel and keeps the
\* connection, a successor connects under the same epoch and publishes the same keys.
HandOver ==
    /\ running /\ sock # 0 /\ old = 0 /\ down[sock] # <<>> /\ Head(down[sock]).t = "ready"
    /\ trouble < MaxTrouble /\ trouble' = trouble + 1
    /\ old' = sock /\ sock' = 0 /\ connected' = FALSE
    /\ down' = [down EXCEPT ![sock] = Tail(@)]
    /\ UNCHANGED <<native, up, broker, running>>

\* The claim comes before native I/O: neither a reconnect nor a second answer repeats it.
Claimed(k, d) ==
    /\ io' = [io EXCEPT ![k] = d] /\ pend' = [pend EXCEPT ![k] = "responding"]

\* An answer arrives.  A released hook has forgotten every request.
GetAnswer(s) ==
    LET m == Head(down[s])
    IN  /\ running /\ s \in {sock, old} \ {0} /\ down[s] # <<>> /\ m.t = "answer"
        /\ down' = [down EXCEPT ![s] = Tail(@)]
        /\ \/ /\ s = sock /\ pend[m.key] = "pending"
              /\ Claimed(m.key, m.d) /\ UNCHANGED <<up, request, took>>
           \/ /\ s = old \/ pend[m.key] # "pending"
              /\ up' = Sent(s, <<Result(m.d, "stale")>>) /\ UNCHANGED native
        /\ UNCHANGED <<channel, broker, running, trouble>>

\* The native I/O of an answer ends.  A dialog that is over by then makes it stale; I/O
\* that fails may have had its effect.  `pend' is gone if the adapter resolved meanwhile.
Left(k, st) == [pend EXCEPT ![k] = IF @ = "none" THEN @ ELSE st]
Deliver(k) ==
    LET d == io[k]
        Reply(st) == up' = Sent(deliv[d].sock, <<Result(d, st)>>)
    IN  /\ running /\ d # 0 /\ io' = [io EXCEPT ![k] = 0]
        /\ \/ /\ request[k] = "open" /\ took' = [took EXCEPT ![k] = d]
              /\ request' = [request EXCEPT ![k] = IF deliv[d].handoff THEN @ ELSE "over"]
              /\ \/ pend' = Left(k, "none") /\ Reply("answered")
                 \/ pend' = Left(k, "unknown") /\ Reply("unknown")
           \/ /\ request[k] = "over" /\ pend' = Left(k, "stale") /\ Reply("stale")
              /\ UNCHANGED <<request, took>>
           \/ /\ pend' = Left(k, "unknown") /\ Reply("unknown") /\ UNCHANGED <<request, took>>
        /\ UNCHANGED <<channel, down, broker, running, trouble>>

\* The broker closed the connection.  Only the CLI's own channel reconnects.
SeeClose(s) ==
    /\ running /\ s \in {sock, old} \ {0} /\ down[s] # <<>> /\ Head(down[s]).t = "close"
    /\ down' = [down EXCEPT ![s] = <<>>]
    /\ sock' = (IF s = sock THEN 0 ELSE sock) /\ old' = (IF s = old THEN 0 ELSE old)
    /\ connected' = (connected /\ s # sock)
    /\ UNCHANGED <<native, up, broker, running, trouble>>

-----------------------------------------------------------------------------
(* The broker.                                                              *)

\* What the end of deliveries D with a status does to the cards: `delete' goes by the
\* request, an uncertain end marks the card that was claimed.
Without(cards, K) == [k \in Keys |-> IF k \in K THEN NoCard ELSE cards[k]]
Ended(cards, D, st) ==
    LET manual == {d \in D : deliv[d].by # "auto"}
    IN  IF st \in {"answered", "stale"} THEN Without(cards, {deliv[d].key : d \in manual})
        ELSE [k \in Keys |-> IF cards[k].claim \in manual
                             THEN [cards[k] EXCEPT !.status = "unknown"] ELSE cards[k]]
Finished(D, st) == [d \in Deliveries |-> IF d \in D THEN [deliv[d] EXCEPT !.status = st]
                                         ELSE deliv[d]]

\* emit request.created, once for a request whatever restarts.
Announced(k) ==
    /\ announced' = [announced EXCEPT ![k] = IF k \in created THEN @ ELSE @ + 1]
    /\ created' = created \cup {k}

\* Mutant: the connection is not looked at again.
ShownBlind(s, k) ==
    /\ entries' = IF HasCard(k) THEN entries
                  ELSE [entries EXCEPT ![k] = [sock |-> s, status |-> "pending", claim |-> 0]]
    /\ IF HasCard(k) THEN UNCHANGED <<created, announced>> ELSE Announced(k)
\* A handler that waited for its automatic answer goes on, and shows the card unless the
\* request is answered or gone.  The session was read before: the socket tells.
Shown(s, k) ==
    IF ~Alive(s) \/ HasCard(k) THEN UNCHANGED <<entries, created, announced>>
    ELSE /\ entries' = [entries EXCEPT ![k] = [sock |-> s, status |-> "pending", claim |-> 0]]
         /\ Announced(k)

\* A result is taken at once, past the handlers that wait: only on its own connection and
\* for a delivery still awaited.
GetResult(s) ==
    LET m == Head(up[s])
        auto == deliv[m.d].by = "auto"
    IN  /\ Alive(s) /\ up[s] # <<>> /\ m.t = "result"
        /\ up' = [up EXCEPT ![s] = Tail(@)]
        /\ IF deliv[m.d].status # "sent" \/ deliv[m.d].sock # s
           THEN UNCHANGED <<hand, entries, deliv, created, announced>>
           ELSE /\ deliv' = Finished({m.d}, m.status)
                /\ hand' = IF auto THEN [hand EXCEPT ![s] = Quiet] ELSE hand
                /\ IF auto /\ m.status = "unknown" THEN Shown(s, m.key)
                   ELSE entries' = Ended(entries, {m.d}, m.status)
                        /\ UNCHANGED <<created, announced>>
        /\ UNCHANGED <<native, channel, down, bs, q, running, trouble>>

\* Mutant: silence counts as a refusal.
TimeoutStale(d) ==
    /\ deliv[d].status = "sent" /\ deliv' = Finished({d}, "stale")
    /\ LET s == deliv[d].sock IN
       IF deliv[d].by = "auto"
       THEN hand' = [hand EXCEPT ![s] = Quiet] /\ UNCHANGED <<entries, created, announced>>
       ELSE entries' = Ended(entries, {d}, "stale") /\ UNCHANGED <<hand, created, announced>>
    /\ UNCHANGED <<native, channel, up, down, bs, q, running, trouble>>
\* deliver: no word within ten seconds.
Timeout(d) ==
    /\ deliv[d].status = "sent" /\ deliv' = Finished({d}, "unknown")
    /\ LET s == deliv[d].sock IN
       IF deliv[d].by = "auto"
       THEN hand' = [hand EXCEPT ![s] = Quiet] /\ Shown(s, deliv[d].key)
       ELSE entries' = Ended(entries, {d}, "unknown") /\ UNCHANGED <<hand, created, announced>>
    /\ UNCHANGED <<native, channel, up, down, bs, q, running, trouble>>

\* Any other message waits for the handlers before it.
Queue(s) ==
    /\ Alive(s) /\ up[s] # <<>> /\ Head(up[s]).t \in {"hello", "publish", "resolved"}
    /\ up' = [up EXCEPT ![s] = Tail(@)] /\ q' = [q EXCEPT ![s] = Append(@, Head(up[s]))]
    /\ UNCHANGED <<native, channel, down, bs, hand, entries, deliv, created, announced,
                   running, trouble>>

Next1(s, t) == hand[s] = Quiet /\ q[s] # <<>> /\ Head(q[s]).t = t
Popped(s) == q' = [q EXCEPT ![s] = Tail(@)]
\* hello reads the launch file; a publish of a request without a card reads the session.
Begin(s) ==
    LET m == Head(q[s])
    IN  /\ Next1(s, "hello") \/ Next1(s, "publish")
        /\ Popped(s)
        /\ hand' = IF m.t = "publish" /\ HasCard(m.key) THEN hand
                   ELSE [hand EXCEPT ![s] = [at |-> m.t, key |-> m.key, d |-> 0]]
        /\ UNCHANGED <<native, channel, up, down, bs, entries, deliv, created, announced,
                       running, trouble>>

\* The connection is authenticated; an earlier one of the same channel, that of a released
\* hook, hands it its cards and is destroyed.
Hello(s) ==
    LET same == {c \in Conns \ {s} : bs[c] = "open"}
    IN  /\ hand[s].at = "hello" /\ hand' = [hand EXCEPT ![s] = Quiet]
        /\ IF ~Alive(s) THEN UNCHANGED <<bs, entries, down>>
           ELSE /\ bs' = [c \in Conns |-> IF c = s THEN "open"
                                          ELSE IF c \in same THEN "destroyed" ELSE bs[c]]
                /\ entries' = [k \in Keys |-> IF entries[k].sock \in same
                                              THEN [entries[k] EXCEPT !.sock = s] ELSE entries[k]]
                /\ down' = [down EXCEPT ![s] = Append(@, Plain("ready"))]
        /\ UNCHANGED <<native, channel, up, q, deliv, created, announced, running, trouble>>

\* The CLI resolved a request: its card goes if it is this connection's.
HandleResolved(s) ==
    /\ Next1(s, "resolved") /\ Popped(s)
    /\ LET k == Head(q[s]).key IN
       entries' = IF entries[k].sock = s THEN Without(entries, {k}) ELSE entries
    /\ UNCHANGED <<native, channel, up, down, bs, hand, deliv, created, announced, running, trouble>>

\* The session was read: the request goes on, or the connection is refused and every
\* message behind it with it.
Refused(s) ==
    /\ bs' = [bs EXCEPT ![s] = IF Alive(s) THEN "destroyed" ELSE @]
    /\ q' = [q EXCEPT ![s] = <<>>] /\ hand' = [hand EXCEPT ![s] = Quiet]
SessionRead(s) ==
    /\ hand[s].at = "publish"
    /\ \/ running /\ Alive(s) /\ hand' = [hand EXCEPT ![s].at = "prepare"] /\ UNCHANGED <<bs, q>>
       \/ ~Alive(s) /\ hand' = [hand EXCEPT ![s] = Quiet] /\ UNCHANGED <<bs, q>>
       \/ ~running /\ Alive(s) /\ Refused(s)
    /\ UNCHANGED <<native, channel, up, down, entries, deliv, created, announced, running, trouble>>
\* The session could not be read, or the handler threw otherwise.
HandlerFails(s) ==
    /\ hand[s].at = "publish" /\ Alive(s)
    /\ trouble < MaxTrouble /\ trouble' = trouble + 1
    /\ Refused(s)
    /\ UNCHANGED <<native, channel, up, down, entries, deliv, created, announced, running>>

\* No remembered approval covers the request: its card is shown.
Show(s) ==
    /\ hand[s].at = "prepare" /\ hand' = [hand EXCEPT ![s] = Quiet]
    /\ Shown(s, hand[s].key)
    /\ UNCHANGED <<native, channel, up, down, bs, q, deliv, running, trouble>>
\* One does: the answer goes out and the handler waits for it.
Answering(d, k, s, by, ho) ==
    /\ FreeDelivery(d)
    /\ deliv' = [deliv EXCEPT ![d] = [key |-> k, sock |-> s, by |-> by, handoff |-> ho,
                                      status |-> "sent"]]
    /\ down' = [down EXCEPT ![s] = Append(@, [t |-> "answer", key |-> k, d |-> d,
                                              status |-> "none"])]
AutoAnswer(s) ==
    /\ hand[s].at = "prepare" /\ Alive(s)
    /\ \E d \in Deliveries :
          /\ Answering(d, hand[s].key, s, "auto", FALSE)
          /\ hand' = [hand EXCEPT ![s].at = "auto", ![s].d = d]
    /\ UNCHANGED <<native, channel, up, bs, q, entries, created, announced, running, trouble>>

\* answer and handoff, by the owner, an agent or Telegram: the claim is taken in the same
\* step as the check.  Any other answer is refused as stale and changes nothing.
Answerable(k, ho) == entries[k].status = "pending" \/ (ho /\ entries[k].status = "unknown")
Answer(k, ho) ==
    /\ running /\ HasCard(k) /\ Answerable(k, ho) /\ Alive(entries[k].sock)
    /\ \E d \in Deliveries :
          /\ Answering(d, k, entries[k].sock, "chat", ho)
          /\ entries' = [entries EXCEPT ![k].status = "responding", ![k].claim = d]
    /\ UNCHANGED <<native, channel, up, bs, q, hand, created, announced, running, trouble>>

\* The close event: the cards of the connection expire, its deliveries end uncertain.
Gone(s) ==
    LET D == {d \in Deliveries : deliv[d].status = "sent" /\ deliv[d].sock = s}
    IN  /\ bs' = [bs EXCEPT ![s] = "closed"]
        /\ entries' = Ended(Without(entries, {k \in Keys : entries[k].sock = s}), D, "unknown")
        /\ deliv' = Finished(D, "unknown")
        /\ hand' = IF hand[s].at = "auto" THEN [hand EXCEPT ![s] = Quiet] ELSE hand
        /\ up' = [up EXCEPT ![s] = <<>>]
CloseEvent(s) ==
    /\ \/ bs[s] = "destroyed" /\ down' = [down EXCEPT ![s] = Append(@, Plain("close"))]
       \/ Alive(s) /\ up[s] # <<>> /\ Head(up[s]).t = "close" /\ down' = [down EXCEPT ![s] = <<>>]
    /\ Gone(s)
    /\ UNCHANGED <<native, channel, q, created, announced, running, trouble>>

\* The CLI ends with its session; its connections close behind what it sent.
Exit ==
    /\ running /\ running' = FALSE
    /\ up' = [s \in Conns |-> IF s \in {sock, old} /\ Alive(s)
                              THEN Append(up[s], Plain("close")) ELSE up[s]]
    /\ sock' = 0 /\ old' = 0 /\ connected' = FALSE
    /\ io' = [k \in Keys |-> 0] /\ pend' = [k \in Keys |-> "none"]
    /\ UNCHANGED <<request, took, down, broker, trouble>>
\* discard, once the session does not run: connections and cards go.
Discard ==
    /\ ~running /\ \E s \in Conns : bs[s] = "open"
    /\ bs' = [s \in Conns |-> IF bs[s] = "open" THEN "destroyed" ELSE bs[s]]
    /\ entries' = [k \in Keys |-> NoCard]
    /\ UNCHANGED <<native, channel, up, down, q, hand, deliv, created, announced, running, trouble>>

\* The broker restarts: cards, deliveries and handlers are lost.
Crash ==
    /\ trouble < MaxTrouble /\ trouble' = trouble + 1
    /\ bs' = [s \in Conns |-> IF bs[s] = "none" THEN "none" ELSE "closed"]
    /\ down' = [s \in Conns |-> IF bs[s] \notin {"none", "closed"}
                                THEN Append(down[s], Plain("close")) ELSE down[s]]
    /\ up' = [s \in Conns |-> <<>>] /\ q' = [s \in Conns |-> <<>>]
    /\ hand' = [s \in Conns |-> Quiet] /\ entries' = [k \in Keys |-> NoCard]
    /\ deliv' = Finished({d \in Deliveries : deliv[d].status = "sent"}, "unknown")
    /\ UNCHANGED <<native, channel, created, announced, running>>

Init ==
    /\ request = [k \in Keys |-> "none"] /\ took = [k \in Keys |-> 0]
    /\ pend = [k \in Keys |-> "none"]
    /\ io = [k \in Keys |-> 0] /\ sock = 0 /\ connected = FALSE /\ old = 0
    /\ up = [s \in Conns |-> <<>>] /\ down = [s \in Conns |-> <<>>]
    /\ bs = [s \in Conns |-> "none"] /\ q = [s \in Conns |-> <<>>]
    /\ hand = [s \in Conns |-> Quiet] /\ entries = [k \in Keys |-> NoCard]
    /\ deliv = [d \in Deliveries |-> NoDelivery]
    /\ created = {} /\ announced = [k \in Keys |-> 0]
    /\ running = TRUE /\ trouble = 0

Native(k) == Resolve(k) \/ Deliver(k)
Channel(s) == Connect(s) \/ GetAnswer(s) \/ SeeClose(s)
Broker(s) ==
    \/ GetResult(s) \/ Queue(s) \/ Begin(s) \/ Hello(s) \/ HandleResolved(s)
    \/ SessionRead(s) \/ Show(s) \/ CloseEvent(s)
Next ==
    \/ \E k \in Keys : Ask(k) \/ Decide(k) \/ Native(k) \/ \E ho \in BOOLEAN : Answer(k, ho)
    \/ \E s \in Conns : Channel(s) \/ Broker(s) \/ HandlerFails(s) \/ AutoAnswer(s)
    \/ \E d \in Deliveries : Timeout(d)
    \/ Ready \/ HandOver \/ Exit \/ Discard \/ Crash

Spec == Init /\ [][Next]_vars

\* The event loops of both processes run, the channel reconnects after a second, and a
\* delivery's timer fires.
FairSpec ==
    /\ Spec /\ WF_vars(Ready)
    /\ \A s \in Conns : WF_vars(Channel(s)) /\ WF_vars(Broker(s))
    /\ \A d \in Deliveries : WF_vars(Timeout(d))

-----------------------------------------------------------------------------
(* Properties.                                                              *)

Message == [t : {"hello", "publish", "resolved", "result", "ready", "answer", "close"},
            key : Keys, d : 0..MaxDeliveries,
            status : {"none", "answered", "stale", "unknown"}]
Handler == [at : {"idle", "hello", "publish", "prepare", "auto"}, key : Keys,
            d : 0..MaxDeliveries]
Card == [sock : 0..(MaxTrouble + 1), status : {"none", "pending", "responding", "unknown"},
         claim : 0..MaxDeliveries]
Delivery == [key : Keys, sock : 0..(MaxTrouble + 1), by : {"none", "auto", "chat"},
             handoff : BOOLEAN, status : {"none", "sent", "answered", "stale", "unknown"}]
TypeOK ==
    /\ request \in [Keys -> {"none", "open", "over"}]
    /\ took \in [Keys -> 0..MaxDeliveries] /\ io \in [Keys -> 0..MaxDeliveries]
    /\ pend \in [Keys -> {"none", "pending", "responding", "stale", "unknown"}]
    /\ sock \in 0..(MaxTrouble + 1) /\ old \in 0..(MaxTrouble + 1) /\ connected \in BOOLEAN
    /\ up \in [Conns -> Seq(Message)] /\ down \in [Conns -> Seq(Message)]
    /\ q \in [Conns -> Seq(Message)]
    /\ bs \in [Conns -> {"none", "new", "open", "destroyed", "closed"}]
    /\ hand \in [Conns -> Handler] /\ entries \in [Keys -> Card]
    /\ deliv \in [Deliveries -> Delivery]
    /\ created \subseteq Keys /\ announced \in [Keys -> Nat]
    /\ running \in BOOLEAN /\ trouble \in 0..MaxTrouble

\* A card can be answered: its connection has not ended, and while it asks for an answer the
\* CLI waits for one, unless the news of the end is on the way or an automatic answer went
\* unconfirmed.
CardHonest ==
    \A k \in Keys : HasCard(k) =>
        LET s == entries[k].sock
        IN  /\ bs[s] \in {"open", "destroyed"}
            /\ \/ entries[k].status # "pending" \/ pend[k] = "pending"
               \/ \E m \in {up[s][i] : i \in DOMAIN up[s]} \cup {q[s][i] : i \in DOMAIN q[s]} :
                     m = Resolved(k) \/ m.t = "close"
               \/ bs[s] = "destroyed" \/ s \notin {sock, old}
               \/ \E d \in Deliveries : deliv[d].key = k /\ deliv[d].by = "auto"
                                        /\ deliv[d].status = "unknown"

\* A request the CLI waits for is shown on its connection, or is answered or ends: no
\* reconnect, restart or failing handler leaves it unseen.
SeenOrOver ==
    \A k \in Keys : pend[k] = "pending" ~> (pend[k] # "pending" \/ (HasCard(k) /\ entries[k].sock = sock))

\* The broker, its connections and the channel in the CLI keep AnswerContract.
Known == [d \in Deliveries |-> [key |-> deliv[d].key, end |-> deliv[d].status]]
Contract ==
    INSTANCE AnswerContract WITH MaxAnswers <- MaxDeliveries, winner <- took, answer <- Known
KeepsContract == Contract!Spec
=============================================================================

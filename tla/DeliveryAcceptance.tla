------------------------- MODULE DeliveryAcceptance -------------------------
(***************************************************************************)
(* The matcher of one session between the deliveries whose Enter is due    *)
(* and the native events by which a CLI tells that it took or dropped a    *)
(* prompt: chat/delivery-acceptance.js, with its callers in chat-delivery  *)
(* (expectAcceptance, withdrawAcceptance) and the events of the Claude mod *)
(* and the Codex proxy.                                                    *)
(*                                                                         *)
(* An event names no delivery: it has a time and the images of its prompt; *)
(* its outcome (taken or dropped) is passed on unread.  The CLI answers    *)
(* the prompts in the order it was given them, each within MaxDelay or     *)
(* never (a blocked steer, a command).                                     *)
(***************************************************************************)
EXTENDS Integers, Sequences, FiniteSets

CONSTANTS
    Deliveries,       \* delivery ids
    Named,            \* the source names the images (Claude), or only counts them (Codex)
    Pictures, Count,  \* sets of images a message has, and how many images each holds
    AskWindow,        \* ASK_WINDOW_MS
    EventBuffer,      \* EVENT_BUFFER_MS
    Ttl,              \* EXPECTATION_TTL_MS
    MaxExpectations, MaxEvents,
    MaxDelay,         \* longest time from `since' to the event the CLI sends about it
    MaxTime,          \* bound on the clock
    MaxForeign        \* bound on the owner's own prompts

ASSUME DeliveryAcceptanceAssumption ==
    /\ Deliveries # {} /\ Named \in BOOLEAN /\ Pictures # {} /\ Count \in [Pictures -> Nat]
    /\ {AskWindow, EventBuffer, Ttl, MaxTime, MaxForeign} \subseteq Nat
    /\ {MaxExpectations, MaxEvents} \subseteq Nat \ {0}
    /\ MaxDelay \in Nat /\ MaxDelay < AskWindow

VARIABLES
    now,
    ready,     \* #sources has the session
    list,      \* #expectations of the session
    events,    \* #events of the session
    phase, since, pics, \* a delivery: where its Enter is, when it was due, its images
    flight,    \* prompts the CLI has and may tell about: deliveries and the owner's
    heard,     \* history: deliveries whose own event was reported
    confirmed, \* history: deliveries the matcher emitted an outcome for
    refused,   \* history: deliveries that were withdrawn once
    foreign,   \* history: this CLI got a prompt no expectation stands for
    owners     \* operations used up of the bound

matcher == <<ready, list, events, confirmed>>
sender  == <<phase, since, pics, refused>>
cli     == <<flight, heard, foreign, owners>>
vars    == <<now, matcher, sender, cli>>

Owner == "owner"

-----------------------------------------------------------------------------
(* Expectations and events.                                                 *)

Fits(expectation, event) ==
    /\ event.at >= expectation.since
    /\ Count[event.pics] = Count[expectation.pics]
    /\ Named => event.pics = expectation.pics

Fresh(expectation, event) == expectation.since >= event.at - AskWindow

Alive(entries) == SelectSeq(entries, LAMBDA x : x.expires > now)

\* cap: a tombstone goes first, then the oldest open expectation.
Capped(entries) ==
    LET tombs == {i \in DOMAIN entries : entries[i].tomb}
        first == IF tombs = {} THEN 1 ELSE CHOOSE i \in tombs : \A j \in tombs : i <= j
    IN  IF Len(entries) <= MaxExpectations THEN entries
        ELSE SubSeq(entries, 1, first - 1) \o SubSeq(entries, first + 1, Len(entries))

Tombstone(x) == [x EXCEPT !.tomb = TRUE, !.expires = x.since + AskWindow]

\* resolve: the open expectations an event fits, the newest of them, and its doubt.
Open(entries, event) == {i \in DOMAIN entries : Fits(entries[i], event) /\ ~entries[i].tomb}
Newest(entries, event) ==
    LET open == Open(entries, event)
    IN  CHOOSE i \in open : \A j \in open :
            \/ entries[j].since < entries[i].since
            \/ entries[j].since = entries[i].since /\ j <= i
\* Mutant: an event is in doubt whenever it fits two, however old.
AmbiguousEver(entries, event) ==
    Cardinality({i \in DOMAIN entries : Fits(entries[i], event)}) > 1
\* Mutant: what an earlier doubt retired no longer counts.
AmbiguousOpen(entries, event) ==
    Cardinality({i \in Open(entries, event) : Fresh(entries[i], event)}) > 1
Ambiguous(entries, event) ==
    Cardinality({i \in DOMAIN entries :
        Fits(entries[i], event) /\ Fresh(entries[i], event)}) > 1

\* #settle for an event that fits: what stays of the list.
Kept(entries, event) ==
    LET bar   == entries[Newest(entries, event)].since
        newer == SelectSeq(entries, LAMBDA x : x.since > bar)
        doubt(x) == x.since <= bar /\ Fits(x, event) /\ Fresh(x, event)
        olds  == SelectSeq(entries, doubt)
    IN  IF Ambiguous(entries, event)
        THEN Capped([i \in DOMAIN olds |-> Tombstone(olds[i])] \o newer)
        ELSE newer

\* #settle and #emit.
Settle(entries, event) ==
    /\ list' = Kept(entries, event)
    /\ confirmed' = IF Ambiguous(entries, event) THEN confirmed
                    ELSE confirmed \cup {entries[Newest(entries, event)].delivery}

-----------------------------------------------------------------------------
(* The delivery that holds the session lock.                                *)

\* expectAcceptance up to its wait: the time is taken, the images are not known yet.
Begin(d) ==
    /\ phase[d] = "new" /\ \A e \in Deliveries : phase[e] \in {"new", "typed"}
    \* Writing a message takes longer than the clock's grain.
    /\ \A e \in Deliveries : phase[e] = "typed" => since[e] < now
    /\ since' = [since EXCEPT ![d] = now]
    /\ phase' = [phase EXCEPT ![d] = IF ready THEN "due" ELSE "untold"]
    /\ UNCHANGED <<now, pics, refused, matcher, cli>>

\* expect: the buffered event it fits settles it at once.
Expect(d) ==
    LET mine == [delivery |-> d, since |-> since[d], pics |-> pics[d], tomb |-> FALSE,
                 expires |-> now + Ttl]
        others(x) == x.tomb \/ x.delivery # d
        entries == Append(SelectSeq(Alive(list), others), mine)
        waiting == Alive(events)
        fitting == {i \in DOMAIN waiting : Fits(mine, waiting[i])}
        i == CHOOSE k \in fitting : \A j \in fitting : k <= j
    IN  /\ phase[d] = "due"
        /\ phase' = [phase EXCEPT ![d] = "expected"]
        /\ IF fitting = {}
           THEN /\ list' = Capped(entries) /\ events' = waiting /\ UNCHANGED confirmed
           ELSE /\ Settle(entries, waiting[i])
                /\ events' = SubSeq(waiting, 1, i - 1)
                             \o SubSeq(waiting, i + 1, Len(waiting))
        /\ UNCHANGED <<now, ready, since, pics, refused, cli>>

\* Enter is sent.
Type(d) ==
    /\ phase[d] \in {"expected", "untold"}
    /\ phase' = [phase EXCEPT ![d] = "typed"]
    /\ flight' = Append(flight, d)
    /\ foreign' = (foreign \/ phase[d] = "untold")
    /\ UNCHANGED <<now, matcher, since, pics, refused, heard, owners>>

\* withdraw: the guard before Enter refused, the delivery may be tried again.
Withdraw(d) ==
    /\ phase[d] \in {"expected", "untold"}
    /\ phase' = [phase EXCEPT ![d] = "new"] /\ refused' = refused \cup {d}
    /\ list' = SelectSeq(list, LAMBDA x : x.tomb \/ x.delivery # d)
    /\ UNCHANGED <<now, ready, events, confirmed, since, pics, cli>>
-----------------------------------------------------------------------------
(* The CLI and the owner at it.                                             *)

\* ready: any report of the CLI shows that it reports prompts.
Ready ==
    /\ ~ready /\ ready' = TRUE
    /\ UNCHANGED <<now, list, events, confirmed, sender, cli>>

OwnerPrompt ==
    /\ owners < MaxForeign /\ owners' = owners + 1
    /\ flight' = Append(flight, Owner) /\ foreign' = TRUE
    /\ UNCHANGED <<now, matcher, sender, heard>>

\* report: the CLI tells what it did with its next prompt.
Report ==
    \E q \in Pictures :
        LET p == Head(flight)
            event == [at |-> now, pics |-> q]
            entries == Alive(list)
            open == \E i \in DOMAIN entries : ~entries[i].tomb
            waiting == Append(Alive(events),
                              [at |-> now, pics |-> q, expires |-> now + EventBuffer])
        IN  /\ flight # <<>> /\ flight' = Tail(flight)
            /\ p # Owner => q = pics[p]
            /\ heard' = heard \cup ({p} \ {Owner})
            /\ ready' = TRUE
            /\ IF Open(entries, event) # {}
               THEN Settle(entries, event) /\ events' = Alive(events)
               ELSE /\ list' = entries /\ UNCHANGED confirmed
                    /\ events' = IF open THEN Alive(events)
                                 ELSE IF Len(waiting) > MaxEvents THEN Tail(waiting)
                                 ELSE waiting
            /\ UNCHANGED <<now, sender, foreign, owners>>

\* A prompt the CLI never tells about.
Silent ==
    /\ flight # <<>> /\ flight' = Tail(flight)
    /\ UNCHANGED <<now, matcher, sender, heard, foreign, owners>>

\* forget: the CLI ended, another one starts.
Forget ==
    /\ ready' = FALSE /\ list' = <<>> /\ events' = <<>>
    /\ flight' = <<>> /\ foreign' = FALSE
    /\ phase' = [d \in Deliveries |-> IF phase[d] = "expected" THEN "untold" ELSE phase[d]]
    /\ UNCHANGED <<now, confirmed, since, pics, refused, heard, owners>>

\* Time passes; what goes to Enter gets there, and the CLI answers, within MaxDelay.
Tick ==
    /\ now < MaxTime /\ now' = now + 1
    /\ \A d \in Deliveries :
          (\E i \in DOMAIN flight : flight[i] = d) \/ phase[d] \notin {"new", "typed"}
              => now < since[d] + MaxDelay
    /\ UNCHANGED <<matcher, sender, cli>>

-----------------------------------------------------------------------------
Init ==
    /\ now = 0 /\ ready = FALSE
    /\ list = <<>> /\ events = <<>>
    /\ phase = [d \in Deliveries |-> "new"] /\ since = [d \in Deliveries |-> -1]
    /\ pics \in [Deliveries -> Pictures]
    /\ flight = <<>> /\ refused = {} /\ heard = {} /\ confirmed = {}
    /\ foreign = FALSE /\ owners = 0

Next ==
    \/ \E d \in Deliveries : Begin(d) \/ Expect(d) \/ Type(d) \/ Withdraw(d)
    \/ Report \/ Silent \/ Ready \/ OwnerPrompt \/ Forget \/ Tick

Spec == Init /\ [][Next]_vars

-----------------------------------------------------------------------------
(* Properties.                                                              *)

Expectation == [delivery : Deliveries, since : 0..MaxTime, pics : Pictures,
                tomb : BOOLEAN, expires : Nat]
Buffered == [at : 0..MaxTime, pics : Pictures, expires : Nat]

\* Types, the caps of the two lists, and the order of the expectations by their time
\* (a tombstone stands before what stays open): #settle, cap and report keep them.
TypeOK ==
    /\ now \in 0..MaxTime /\ ready \in BOOLEAN
    /\ list \in Seq(Expectation) /\ Len(list) <= MaxExpectations
    /\ events \in Seq(Buffered) /\ Len(events) <= MaxEvents
    /\ \A i, j \in DOMAIN list : i < j => list[i].since <= list[j].since
    /\ phase \in [Deliveries -> {"new", "due", "expected", "untold", "typed"}]
    /\ since \in [Deliveries -> -1..MaxTime] /\ pics \in [Deliveries -> Pictures]
    /\ flight \in Seq(Deliveries \cup {Owner})
    /\ refused \cup heard \subseteq Deliveries /\ confirmed \subseteq Deliveries
    /\ foreign \in BOOLEAN /\ owners \in 0..MaxForeign

\* A delivery is only confirmed by the event of its own prompt, however the events of
\* several deliveries are delayed or never come.  Not so while the CLI has a prompt that
\* no delivery told the matcher about.
Truthful ==
    [][~foreign => confirmed' \ confirmed \subseteq heard' \ heard]_vars

\* The event of a delivery confirms it if no other one was tried since AskWindow before
\* it, nor itself before: what older deliveries left behind never swallows it.
Alone(d) == /\ d \notin refused
            /\ \A e \in Deliveries \ {d} : since[e] = -1 \/ since[e] < since[d] - AskWindow
HeardAlone ==
    [][~foreign => {d \in heard' \ heard : Alone(d)} \subseteq confirmed']_vars
=============================================================================

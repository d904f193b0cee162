---------------------------- MODULE Subscription ----------------------------
(***************************************************************************)
(* Subscription, pkg/rest/market.go: every call of Events starts a         *)
(* goroutine that collects the offers for one demand from the market       *)
(* service and sends them over a channel of its own, for as long as open   *)
(* is set.  Close and Delete clear open, without a lock, from other        *)
(* goroutines.  The service posts events and hands each out once; answers  *)
(* get lost, readers stop reading and contexts are cancelled.              *)
(***************************************************************************)
EXTENDS Naturals, Sequences

CONSTANTS
    Collectors,  \* the goroutines that Events may start
    Deleters,    \* the goroutines that may call Delete
    MaxEvents,   \* the most events in an answer (10 in the code)
    MaxPosted    \* bound: the events the service posts in all

ASSUME SubscriptionAssumption == MaxEvents \in Nat \ {0} /\ MaxPosted \in Nat

VARIABLES
    origin,      \* what made it: "Subscribe" (or Subscriptions), "NewSubscription"
    open,        \* Subscription.open
    deleted,     \* Subscription.deleted
    pc,          \* where each collector is
    page,        \* the events of its last answer still to range over
    deleter,     \* where each deleter is
    deletedOk,   \* has a Delete returned without an error?
    done,        \* is the ctx given to Events done?
    reader,      \* "reading" or "gone", for each channel
    got,         \* the offers each reader received
    subscribed,  \* does the service know the subscription?
    posted,      \* the events posted so far, of which only the kind matters
    next,        \* the service hands out this event next
    lost         \* events in answers that did not arrive, or dropped by the service

vars == <<origin, open, deleted, pc, page, deleter, deletedOk, done, reader, got,
          subscribed, posted, next, lost>>

goroutine == <<pc, page, got>>
around    == <<done, reader>>
deletion  == <<deleter, deletedOk, deleted>>
service   == <<subscribed, posted, next, lost>>

\* "offer" is a ProposalEvent; "malformed" one without a proposal, or with one
\* that does not decode; "other" has another type, or none.
Kinds == {"offer", "malformed", "other"}
Posted == 1..Len(posted)

\* Subscribe and Subscriptions leave open at its zero value.
OpenAtFirst(o) == o = "NewSubscription"

Init ==
    /\ origin \in {"Subscribe", "NewSubscription"}
    /\ open = OpenAtFirst(origin)
    /\ deleted = FALSE
    /\ pc = [c \in Collectors |-> "idle"]
    /\ page = [c \in Collectors |-> {}]
    /\ deleter = [d \in Deleters |-> "idle"]
    /\ deletedOk = FALSE
    /\ done = [c \in Collectors |-> FALSE]
    /\ reader = [c \in Collectors |-> "reading"]
    /\ got = [c \in Collectors |-> <<>>]
    /\ subscribed = TRUE
    /\ posted = <<>>
    /\ next = 1
    /\ lost = {}

-----------------------------------------------------------------------------
(* The goroutine of Events. *)

Goto(c, label) == pc' = [pc EXCEPT ![c] = label]

Events(c) ==
    /\ pc[c] = "idle"
    /\ Goto(c, "check")
    /\ UNCHANGED <<origin, open, page, got, around, deletion, service>>

\* for s.open.  The mutant looks at ctx only.
GoesOnAlways == TRUE
GoesOn == open

\* The mutant does not look at ctx.
CancelIgnored(c) == FALSE
CancelSeen(c) == done[c]

Check(c) ==
    /\ pc[c] = "check"
    /\ Goto(c, IF GoesOn /\ ~CancelSeen(c) THEN "collect" ELSE "exit")
    /\ UNCHANGED <<origin, open, page, got, around, deletion, service>>

\* The first n events that the service has not handed out yet.
FirstEvents(n) == next..(next + n - 1)
Available == {n \in 0..MaxEvents : next + n <= Len(posted) + 1}

Collect(c) ==
    /\ pc[c] = "collect"
    /\ subscribed /\ ~done[c]
    /\ \E n \in Available :
          /\ page' = [page EXCEPT ![c] = FirstEvents(n)]
          /\ next' = next + n
    /\ Goto(c, "range")
    /\ UNCHANGED <<origin, open, got, around, deletion, subscribed, posted, lost>>

\* An error, or a body that cannot be read or parsed: the goroutine sleeps and
\* goes on.  The service may have handed out events all the same.
CollectFails(c) ==
    /\ pc[c] = "collect"
    /\ \E n \in Available :
          /\ n > 0 => subscribed
          /\ next' = next + n
          /\ lost' = lost \cup FirstEvents(n)
    /\ Goto(c, "check")
    /\ UNCHANGED <<origin, open, page, got, around, deletion, subscribed, posted>>

IsNext(c, e) == e \in page[c] /\ \A f \in page[c] : e <= f

\* What is left to range over after event e.  The mutant sends it once more.
AllOf(c, e) == page[c]
After(c, e) == page[c] \ {e}

\* continue, which goes on with the next event.  The mutant breaks.
BreakAfter(c, e) == {}
ContinueAfter(c, e) == page[c] \ {e}

\* The send waits for the reader, and neither for ctx nor for open.
Send(c) ==
    /\ pc[c] = "range"
    /\ reader[c] = "reading"
    /\ \E e \in Posted :
          /\ IsNext(c, e)
          /\ posted[e] = "offer"
          /\ got' = [got EXCEPT ![c] = Append(@, e)]
          /\ page' = [page EXCEPT ![c] = After(c, e)]
    /\ UNCHANGED <<origin, open, pc, around, deletion, service>>

\* Without a word to anybody, after a sleep unless it has no type.
Skip(c) ==
    /\ pc[c] = "range"
    /\ \E e \in Posted :
          /\ IsNext(c, e)
          /\ posted[e] # "offer"
          /\ page' = [page EXCEPT ![c] = ContinueAfter(c, e)]
    /\ UNCHANGED <<origin, open, pc, got, around, deletion, service>>

RangeEnd(c) ==
    /\ pc[c] = "range"
    /\ page[c] = {}
    /\ Goto(c, "check")
    /\ UNCHANGED <<origin, open, page, got, around, deletion, service>>

-----------------------------------------------------------------------------
(* Close and Delete. *)

Close ==
    /\ open
    /\ open' = FALSE
    /\ UNCHANGED <<origin, goroutine, around, deletion, service>>

\* deleted as Delete leaves it on its way.  The mutant sets it at once.
MarkedAtOnce == TRUE
Marked == deleted

Delete(d) ==
    /\ deleter[d] = "idle"
    /\ open' = FALSE
    /\ deleted' = Marked
    /\ IF deleted
       THEN deletedOk' = TRUE /\ UNCHANGED deleter
       ELSE deleter' = [deleter EXCEPT ![d] = "unsubscribe"] /\ UNCHANGED deletedOk
    /\ UNCHANGED <<origin, goroutine, around, service>>

\* UnsubscribeDemand has ended the subscription, or found none, and its answer
\* arrived.  Delete returns nil; the events not handed out are gone.
Unsubscribed(d) ==
    /\ deleter[d] = "unsubscribe"
    /\ subscribed' = FALSE
    /\ next' = Len(posted) + 1
    /\ lost' = lost \cup (next..Len(posted))
    /\ deleter' = [deleter EXCEPT ![d] = "idle"]
    /\ deletedOk' = TRUE
    /\ UNCHANGED <<origin, open, deleted, goroutine, around, posted>>

\* It failed, or its answer was lost.  Delete returns the error.
UnsubscribeFails(d) ==
    /\ deleter[d] = "unsubscribe"
    /\ \/ UNCHANGED <<subscribed, next, lost>>
       \/ /\ subscribed' = FALSE
          /\ next' = Len(posted) + 1
          /\ lost' = lost \cup (next..Len(posted))
    /\ deleter' = [deleter EXCEPT ![d] = "idle"]
    /\ UNCHANGED <<origin, open, deleted, deletedOk, goroutine, around, posted>>

-----------------------------------------------------------------------------
(* The service, the owners of the contexts and the readers. *)

Post(kind) ==
    /\ subscribed
    /\ Len(posted) < MaxPosted
    /\ posted' = Append(posted, kind)
    /\ UNCHANGED <<origin, open, goroutine, around, deletion, subscribed, next, lost>>

Cancel(c) ==
    /\ ~done[c]
    /\ done' = [done EXCEPT ![c] = TRUE]
    /\ UNCHANGED <<origin, open, goroutine, reader, deletion, service>>

Leave(c) ==
    /\ reader[c] = "reading"
    /\ reader' = [reader EXCEPT ![c] = "gone"]
    /\ UNCHANGED <<origin, open, goroutine, done, deletion, service>>

-----------------------------------------------------------------------------
Loop(c) == Check(c) \/ Collect(c) \/ CollectFails(c) \/ Send(c) \/ Skip(c) \/ RangeEnd(c)

Next ==
    \/ \E c \in Collectors : Events(c) \/ Loop(c) \/ Cancel(c) \/ Leave(c)
    \/ Close
    \/ \E d \in Deleters : Delete(d) \/ Unsubscribed(d) \/ UnsubscribeFails(d)
    \/ \E kind \in Kinds : Post(kind)

Spec == Init /\ [][Next]_vars

\* A goroutine that was started runs whenever it can, and every request ends,
\* at the latest by its Timeout(10).
FairSpec == Spec /\ \A c \in Collectors : WF_vars(Loop(c))

-----------------------------------------------------------------------------
(* Properties. *)

TypeOK ==
    /\ origin \in {"Subscribe", "NewSubscription"}
    /\ open \in BOOLEAN
    /\ deleted \in BOOLEAN
    /\ pc \in [Collectors -> {"idle", "check", "collect", "range", "exit"}]
    /\ page \in [Collectors -> SUBSET (1..MaxPosted)]
    /\ deleter \in [Deleters -> {"idle", "unsubscribe"}]
    /\ deletedOk \in BOOLEAN
    /\ done \in [Collectors -> BOOLEAN]
    /\ reader \in [Collectors -> {"reading", "gone"}]
    /\ got \in [Collectors -> Seq(1..MaxPosted)]
    /\ subscribed \in BOOLEAN
    /\ posted \in Seq(Kinds) /\ Len(posted) <= MaxPosted
    /\ next \in 1..(Len(posted) + 1)
    /\ lost \subseteq Posted

Received(c) == {got[c][i] : i \in 1..Len(got[c])}

\* Every reader receives its offers in the order in which the service posted
\* them, and no offer comes twice, on one channel or on two.
OffersComeOnce ==
    /\ \A c \in Collectors : \A i, j \in 1..Len(got[c]) : i < j => got[c][i] < got[c][j]
    /\ \A c, d \in Collectors : c # d => Received(c) \cap Received(d) = {}

\* An offer gets lost only with an answer of the service, never in the
\* goroutine: one event that is malformed, or of a type the code does not know,
\* costs none of those that came with it, and neither do Close and Delete.
NoOfferIsDropped ==
    \A e \in Posted :
       posted[e] = "offer" =>
          \/ e >= next
          \/ e \in lost
          \/ \E c \in Collectors : e \in page[c] \cup Received(c)

\* Whatever the collectors, Close and Delete do, the readers see a queue of offers
\* that gives each to one of them, and loses none that it has taken out for one.
Offers == {e \in Posted : posted[e] = "offer"}
Waiting == {e \in Offers : e >= next}
UnderWay == [c \in Collectors |-> page[c] \cap Offers]

Queue == INSTANCE OfferQueue WITH
    Readers <- Collectors, Numbers <- 1..MaxPosted,
    arrived <- Offers, waiting <- Waiting, underWay <- UnderWay

ImplementsQueue == Queue!Spec

\* The channels of a subscription made by Market.Subscribe never carry an offer.
SubscribedCollectsNothing ==
    origin = "Subscribe" => \A c \in Collectors : got[c] = <<>> /\ page[c] = {}

\* When a Delete has returned without an error the service no longer has the
\* subscription, whatever Deletes failed, or run at the same time.
DeletedMeansUnsubscribed == deletedOk => ~subscribed

\* Close and Delete, and the cancellation of its context, end every goroutine of
\* Events, one that is in a request or about to start one too, unless its reader
\* is gone.
CollectorsEnd ==
    \A c \in Collectors :
       (~open \/ done[c]) /\ pc[c] # "idle" ~> pc[c] = "exit" \/ reader[c] = "gone"
=============================================================================

------------------------- MODULE SubscriptionProofs -------------------------
(***************************************************************************)
(* The safety properties of Subscription, for any number of collectors and *)
(* deleters and any bounds.                                                *)
(***************************************************************************)
EXTENDS Subscription, TLAPS

Holds(c) == page[c] \cup Received(c)

\* What a collector holds came out of the service, and comes after what its
\* reader has.
Ordered ==
    \A c \in Collectors :
       /\ pc[c] # "range" => page[c] = {}
       /\ \A e \in page[c] : e < next
       /\ \A i \in 1..Len(got[c]) : got[c][i] < next
       /\ \A e \in page[c] : \A i \in 1..Len(got[c]) : got[c][i] < e
       /\ \A i, j \in 1..Len(got[c]) : i < j => got[c][i] < got[c][j]

\* No two collectors hold the same event, or held it.
Apart == \A c, d \in Collectors : c # d => Holds(c) \cap Holds(d) = {}

\* A subscription that was never open starts no request.
Idle ==
    origin = "Subscribe" =>
       ~open /\ \A c \in Collectors : pc[c] \in {"idle", "check", "exit"} /\ got[c] = <<>>

Deletion == ~deleted /\ DeletedMeansUnsubscribed

Inv == TypeOK /\ Ordered /\ Apart /\ NoOfferIsDropped /\ Idle /\ Deletion

-----------------------------------------------------------------------------
\* What a collector holds depends on its page and its reader only.
LEMMA SameHolds ==
  ASSUME UNCHANGED <<page, got>>, NEW c \in Collectors
  PROVE  Received(c)' = Received(c) /\ Holds(c)' = Holds(c)
<1>1. Received(c)' = Received(c)
  BY DEF Received
<1> QED BY <1>1 DEF Holds

LEMMA SameApart ==
  ASSUME Apart, UNCHANGED <<page, got>>
  PROVE  Apart'
BY SameHolds DEF Apart

LEMMA SameOrdered ==
  ASSUME Ordered, UNCHANGED <<pc, page, got, next>>
  PROVE  Ordered'
BY DEF Ordered

LEMMA SameNoDrop ==
  ASSUME NoOfferIsDropped, UNCHANGED <<page, got, posted, next, lost>>
  PROVE  NoOfferIsDropped'
BY SameHolds DEF NoOfferIsDropped, Posted

LEMMA InitInv == Init => Inv
<1> SUFFICES ASSUME Init PROVE Inv
  OBVIOUS
<1> USE SubscriptionAssumption DEF Init
<1>1. TypeOK
  <2>1. open \in BOOLEAN
    BY DEF OpenAtFirst
  <2>2. got \in [Collectors -> Seq(1..MaxPosted)] /\ posted \in Seq(Kinds) /\ Len(posted) = 0
    OBVIOUS
  <2>3. next \in 1..(Len(posted) + 1) /\ lost \subseteq Posted /\ Len(posted) <= MaxPosted
    BY <2>2
  <2>4. /\ page \in [Collectors -> SUBSET (1..MaxPosted)]
        /\ deleted \in BOOLEAN /\ deletedOk \in BOOLEAN /\ subscribed \in BOOLEAN
        /\ done \in [Collectors -> BOOLEAN]
    OBVIOUS
  <2>5. /\ pc \in [Collectors -> {"idle", "check", "collect", "range", "exit"}]
        /\ deleter \in [Deleters -> {"idle", "unsubscribe"}]
        /\ reader \in [Collectors -> {"reading", "gone"}]
    OBVIOUS
  <2> QED BY <2>1, <2>2, <2>3, <2>4, <2>5 DEF TypeOK
<1>2. Ordered /\ Apart /\ NoOfferIsDropped
  BY DEF Ordered, Apart, Holds, Received, NoOfferIsDropped, Posted
<1>3. Idle /\ Deletion
  BY DEF Idle, Deletion, DeletedMeansUnsubscribed, OpenAtFirst
<1> QED BY <1>1, <1>2, <1>3 DEF Inv

\* Only the label of one collector changes, and it has nothing in hand.
LEMMA StepGoto ==
  ASSUME Inv, NEW c \in Collectors, Events(c) \/ Check(c) \/ RangeEnd(c)
  PROVE  Inv'
<1> USE DEF Inv, goroutine, around, deletion, service, Goto
<1>a. page[c] = {}
  BY DEF Events, Check, RangeEnd, Ordered
<1>b. UNCHANGED <<origin, open, page, got, around, deletion, service>>
  BY DEF Events, Check, RangeEnd
<1>c. pc' = [pc EXCEPT ![c] = pc'[c]] /\ pc'[c] \in {"check", "collect", "exit"}
  BY DEF Events, Check, RangeEnd, TypeOK
<1>1. TypeOK'
  BY <1>b, <1>c DEF TypeOK, Posted
<1>2. Ordered'
  BY <1>a, <1>b, <1>c DEF Ordered, TypeOK
<1>3. Apart'
  BY <1>b, SameApart
<1>5. NoOfferIsDropped'
  BY <1>b, SameNoDrop
<1>6. Deletion'
  BY <1>b DEF Deletion, DeletedMeansUnsubscribed
<1>4. Idle'
  <2>1. origin = "Subscribe" => pc'[c] \in {"check", "exit"}
    BY DEF Events, Check, RangeEnd, Idle, GoesOn, TypeOK
  <2> QED BY <2>1, <1>b, <1>c DEF Idle, TypeOK
<1> QED BY <1>1, <1>2, <1>3, <1>4, <1>5, <1>6

\* The events that were handed out are new to everybody.
LEMMA StepCollect ==
  ASSUME Inv, NEW c \in Collectors, Collect(c)
  PROVE  Inv'
<1> USE DEF Inv, around, deletion
<1> PICK n \in Available : /\ page' = [page EXCEPT ![c] = FirstEvents(n)]
                           /\ next' = next + n
  BY DEF Collect
<1>a. n \in Nat /\ next + n <= Len(posted) + 1 /\ next \in Nat \ {0} /\ Len(posted) \in Nat
  BY SubscriptionAssumption DEF Available, TypeOK
<1>b. page[c] = {} /\ pc[c] = "collect" /\ subscribed
  BY DEF Ordered, Collect
<1>c. UNCHANGED <<origin, open, got, around, deletion, subscribed, posted, lost>>
  BY DEF Collect
<1>d. /\ pc' = [pc EXCEPT ![c] = "range"]
      /\ page'[c] = FirstEvents(n)
      /\ \A d \in Collectors : d # c => page'[d] = page[d] /\ pc'[d] = pc[d]
  BY DEF Collect, Goto, TypeOK
<1>e. \A e \in FirstEvents(n) : e \in Posted /\ next <= e /\ e < next'
  BY <1>a DEF FirstEvents, Posted
<1>f. next <= next'
  BY <1>a
<1>g. \A d \in Collectors : \A i \in 1..Len(got[d]) : got[d][i] \in Nat /\ got[d][i] < next
  BY SubscriptionAssumption DEF Ordered, TypeOK
<1>h. \A d \in Collectors : \A e \in page[d] : e \in Nat /\ e < next
  BY SubscriptionAssumption DEF Ordered, TypeOK
<1>1. TypeOK'
  <2>1. FirstEvents(n) \subseteq 1..MaxPosted
    BY <1>a, SubscriptionAssumption DEF FirstEvents, TypeOK
  <2> QED BY <2>1, <1>a, <1>c, <1>d DEF TypeOK, Posted
<1>2. Ordered'
  <2> SUFFICES ASSUME NEW d \in Collectors
               PROVE  /\ pc'[d] # "range" => page'[d] = {}
                      /\ \A e \in page'[d] : e < next'
                      /\ \A i \in 1..Len(got'[d]) : got'[d][i] < next'
                      /\ \A e \in page'[d] : \A i \in 1..Len(got'[d]) : got'[d][i] < e
                      /\ \A i, j \in 1..Len(got'[d]) : i < j => got'[d][i] < got'[d][j]
    BY DEF Ordered
  <2>1. CASE d = c
    <3>1. \A e \in page'[d] : e \in Nat
      BY <2>1, <1>d, <1>e, <1>a DEF Posted
    <3> QED BY <2>1, <3>1, <1>a, <1>c, <1>d, <1>e, <1>f, <1>g DEF Ordered, TypeOK
  <2>2. CASE d # c
    BY <2>2, <1>a, <1>c, <1>d, <1>f, <1>g, <1>h DEF Ordered
  <2> QED BY <2>1, <2>2
<1>3. Apart'
  <2>1. \A d \in Collectors : \A e \in Holds(d) : e \in Nat /\ e < next
    BY <1>g, <1>h DEF Holds, Received
  <2>2. \A d \in Collectors : d # c => Holds(d)' = Holds(d)
    BY <1>c, <1>d DEF Holds, Received
  <2>3. Holds(c)' = Holds(c) \cup FirstEvents(n)
    BY <1>b, <1>c, <1>d DEF Holds, Received
  <2>4. \A d \in Collectors : Holds(d) \cap FirstEvents(n) = {}
    BY <2>1, <1>a, <1>e DEF Posted
  <2> QED BY <2>2, <2>3, <2>4 DEF Apart
<1>4. NoOfferIsDropped'
  <2> SUFFICES ASSUME NEW e \in Posted, posted[e] = "offer"
               PROVE  e >= next' \/ e \in lost \/ \E d \in Collectors : e \in Holds(d)'
    BY <1>c DEF NoOfferIsDropped, Posted, Holds
  <2>1. CASE e >= next /\ e < next'
    BY <2>1, <1>a, <1>d DEF FirstEvents, Posted, Holds
  <2>2. CASE e >= next'
    BY <2>2
  <2>3. CASE e < next
    <3>1. e \in lost \/ \E d \in Collectors : e \in Holds(d)
      BY <2>3, <1>a DEF NoOfferIsDropped, Posted, Holds
    <3>2. \A d \in Collectors : Holds(d) \subseteq Holds(d)'
      BY <1>b, <1>c, <1>d DEF Holds, Received
    <3> QED BY <3>1, <3>2
  <2> QED BY <2>1, <2>2, <2>3, <1>a DEF Posted
<1>5. Idle' /\ Deletion'
  BY <1>b, <1>c DEF Idle, Deletion, DeletedMeansUnsubscribed
<1> QED BY <1>1, <1>2, <1>3, <1>4, <1>5

\* Events pass from the service to lost, and from no hand to any other.
LEMMA ServiceLoses ==
  ASSUME Inv, NEW k \in next..(Len(posted) + 1),
         next' = k, lost' = lost \cup (next..(k - 1)),
         UNCHANGED <<posted, page, got, done, reader, origin, open, deleted>>,
         pc' \in [Collectors -> {"idle", "check", "collect", "range", "exit"}],
         \A d \in Collectors : pc'[d] = pc[d] \/ (pc[d] = "collect" /\ pc'[d] = "check"),
         deleter' \in [Deleters -> {"idle", "unsubscribe"}],
         deletedOk' \in BOOLEAN, subscribed' \in BOOLEAN,
         deletedOk' => ~subscribed'
  PROVE  Inv'
<1> USE DEF Inv
<1>a. next \in Nat /\ k \in Nat /\ next <= k /\ Len(posted) \in Nat /\ k <= Len(posted) + 1
      /\ 1 <= next
  BY DEF TypeOK
<1>1. TypeOK'
  <2>1. next..(k - 1) \subseteq Posted
    BY <1>a DEF Posted
  <2> QED BY <1>a, <2>1 DEF TypeOK, Posted
<1>2. Ordered'
  <2>1. \A d \in Collectors : /\ \A e \in page[d] : e \in Nat
                              /\ \A i \in 1..Len(got[d]) : got[d][i] \in Nat
    BY SubscriptionAssumption DEF TypeOK
  <2> QED BY <1>a, <2>1 DEF Ordered
<1>3. Apart'
  BY SameApart
<1>4. NoOfferIsDropped'
  BY <1>a DEF NoOfferIsDropped, Posted, Received
<1>5. Idle' /\ Deletion'
  BY DEF Idle, Deletion, DeletedMeansUnsubscribed
<1> QED BY <1>1, <1>2, <1>3, <1>4, <1>5

LEMMA StepCollectFails ==
  ASSUME Inv, NEW c \in Collectors, CollectFails(c)
  PROVE  Inv'
<1> PICK n \in Available : next' = next + n /\ lost' = lost \cup FirstEvents(n)
  BY DEF CollectFails
<1> DEFINE k == next + n
<1>1. k \in next..(Len(posted) + 1) /\ FirstEvents(n) = next..(k - 1)
  BY DEF Available, Inv, TypeOK, FirstEvents
<1>2. pc' = [pc EXCEPT ![c] = "check"] /\ pc[c] = "collect"
  BY DEF CollectFails, Goto
<1>3. UNCHANGED <<posted, page, got, done, reader, origin, open, deleted, deleter, deletedOk, subscribed>>
  BY DEF CollectFails, around, deletion
<1> QED BY <1>1, <1>2, <1>3, ServiceLoses DEF Inv, TypeOK, Deletion, DeletedMeansUnsubscribed

LEMMA StepDeleteEnds ==
  ASSUME Inv, NEW d \in Deleters, Unsubscribed(d) \/ UnsubscribeFails(d)
  PROVE  Inv'
<1>1. UNCHANGED <<posted, page, got, done, reader, origin, open, deleted, pc>>
  BY DEF Unsubscribed, UnsubscribeFails, around, goroutine
<1>2. deleter' \in [Deleters -> {"idle", "unsubscribe"}]
  BY DEF Unsubscribed, UnsubscribeFails, Inv, TypeOK
<1>3. CASE next' = Len(posted) + 1 /\ lost' = lost \cup (next..Len(posted)) /\ subscribed' = FALSE
  <2>1. Len(posted) + 1 \in next..(Len(posted) + 1) /\ Len(posted) = (Len(posted) + 1) - 1
    BY DEF Inv, TypeOK
  <2>2. deletedOk' \in BOOLEAN
    BY DEF Unsubscribed, UnsubscribeFails, Inv, TypeOK
  <2>3. pc' \in [Collectors -> {"idle", "check", "collect", "range", "exit"}]
    BY <1>1 DEF Inv, TypeOK
  <2> QED BY <1>1, <1>2, <1>3, <2>1, <2>2, <2>3, ServiceLoses
<1>4. CASE UNCHANGED <<subscribed, next, lost, deletedOk>>
  <2>1. TypeOK'
    BY <1>1, <1>2, <1>4 DEF Inv, TypeOK, Posted
  <2>2. Ordered' /\ Apart'
    BY <1>1, <1>4, SameOrdered, SameApart DEF Inv
  <2>4. NoOfferIsDropped'
    BY <1>1, <1>4, SameNoDrop DEF Inv
  <2>3. Idle' /\ Deletion'
    BY <1>1, <1>4 DEF Inv, Idle, Deletion, DeletedMeansUnsubscribed
  <2> QED BY <2>1, <2>2, <2>3, <2>4 DEF Inv
<1> QED BY <1>3, <1>4 DEF Unsubscribed, UnsubscribeFails

\* The event passes from the page to the reader, after all the reader has.
LEMMA StepSend ==
  ASSUME Inv, NEW c \in Collectors, Send(c)
  PROVE  Inv'
<1> USE DEF Inv, around, deletion, service
<1> PICK e \in Posted : /\ IsNext(c, e)
                        /\ posted[e] = "offer"
                        /\ got' = [got EXCEPT ![c] = Append(@, e)]
                        /\ page' = [page EXCEPT ![c] = page[c] \ {e}]
  BY DEF Send, After
<1>a. UNCHANGED <<origin, open, pc, around, deletion, service>> /\ pc[c] = "range"
  BY DEF Send
<1>b. e \in page[c] /\ e \in Nat /\ e < next /\ \A f \in page[c] : e <= f /\ f \in Nat
  BY SubscriptionAssumption DEF IsNext, Ordered, TypeOK
<1>c. /\ got[c] \in Seq(1..MaxPosted)
      /\ got'[c] = Append(got[c], e)
      /\ page'[c] = page[c] \ {e}
      /\ \A d \in Collectors : d # c => got'[d] = got[d] /\ page'[d] = page[d]
  BY DEF TypeOK
<1>d. /\ Len(got'[c]) = Len(got[c]) + 1 /\ Len(got[c]) \in Nat
      /\ got'[c][Len(got[c]) + 1] = e
      /\ \A i \in 1..Len(got[c]) : got'[c][i] = got[c][i] /\ got[c][i] \in Nat
  BY <1>c, SubscriptionAssumption
<1>1. TypeOK'
  <2>1. e \in 1..MaxPosted
    BY <1>b DEF TypeOK
  <2>2. got'[c] \in Seq(1..MaxPosted)
    <3>1. \A S, s, x : s \in Seq(S) /\ x \in S => Append(s, x) \in Seq(S)
      OBVIOUS
    <3>2. Append(got[c], e) \in Seq(1..MaxPosted)
      BY <2>1, <3>1, <1>c, Zenon
    <3> QED BY <3>2, <1>c
  <2> QED BY <1>a, <1>c, <2>2 DEF TypeOK, Posted
<1>2. Ordered'
  <2> SUFFICES ASSUME NEW d \in Collectors
               PROVE  /\ pc'[d] # "range" => page'[d] = {}
                      /\ \A f \in page'[d] : f < next'
                      /\ \A i \in 1..Len(got'[d]) : got'[d][i] < next'
                      /\ \A f \in page'[d] : \A i \in 1..Len(got'[d]) : got'[d][i] < f
                      /\ \A i, j \in 1..Len(got'[d]) : i < j => got'[d][i] < got'[d][j]
    BY DEF Ordered
  <2>1. CASE d # c
    BY <2>1, <1>a, <1>c DEF Ordered
  <2>2. CASE d = c
    <3>1. /\ pc'[d] # "range" => page'[d] = {}
          /\ \A f \in page'[d] : f < next' /\ f \in Nat /\ e < f
      BY <2>2, <1>a, <1>b, <1>c DEF Ordered
    <3>2. \A i \in 1..Len(got[c]) : got[c][i] < e
      BY <1>b DEF Ordered
    <3>3. \A i \in 1..Len(got'[c]) : i \in 1..Len(got[c]) \/ i = Len(got[c]) + 1
      BY <1>d
    <3>4. \A i \in 1..Len(got'[c]) : got'[c][i] <= e /\ got'[c][i] \in Nat
      BY <3>2, <3>3, <1>b, <1>d
    <3>5. \A i \in 1..Len(got'[c]) : got'[c][i] < next'
      BY <3>4, <1>a, <1>b DEF TypeOK
    <3>6. \A i, j \in 1..Len(got'[c]) : i < j => got'[c][i] < got'[c][j]
      <4> SUFFICES ASSUME NEW i \in 1..Len(got'[c]), NEW j \in 1..Len(got'[c]), i < j
                   PROVE  got'[c][i] < got'[c][j]
        OBVIOUS
      <4>1. i \in 1..Len(got[c])
        BY <1>d
      <4>2. CASE j = Len(got[c]) + 1
        BY <4>1, <4>2, <3>2, <1>d
      <4>3. CASE j \in 1..Len(got[c])
        BY <4>1, <4>3, <1>d DEF Ordered
      <4> QED BY <4>2, <4>3, <3>3
    <3>7. \A f \in page'[c] : \A i \in 1..Len(got'[c]) : got'[c][i] < f
      BY <2>2, <3>1, <3>4, <1>b
    <3> QED BY <2>2, <3>1, <3>5, <3>6, <3>7
  <2> QED BY <2>1, <2>2
<1>e. \A d \in Collectors : Holds(d)' = Holds(d)
  <2>1. Received(c)' = Received(c) \cup {e}
    <3>1. \A i \in 1..Len(got'[c]) : i \in 1..Len(got[c]) \/ i = Len(got[c]) + 1
      BY <1>d
    <3>2. Received(c)' \subseteq Received(c) \cup {e}
      BY <3>1, <1>d DEF Received
    <3>3. Received(c) \subseteq Received(c)'
      BY <1>d DEF Received
    <3>4. e \in Received(c)'
      BY <1>d DEF Received
    <3> QED BY <3>2, <3>3, <3>4
  <2>2. \A d \in Collectors : d # c => Received(d)' = Received(d)
    BY <1>c DEF Received
  <2> QED BY <2>1, <2>2, <1>b, <1>c DEF Holds
<1>3. Apart' /\ NoOfferIsDropped'
  BY <1>a, <1>e DEF Apart, NoOfferIsDropped, Holds, Posted
<1>4. Idle' /\ Deletion'
  BY <1>a DEF Idle, Deletion, DeletedMeansUnsubscribed
<1> QED BY <1>1, <1>2, <1>3, <1>4

\* The event leaves the page; it was no offer.
LEMMA StepSkip ==
  ASSUME Inv, NEW c \in Collectors, Skip(c)
  PROVE  Inv'
<1> USE DEF Inv, around, deletion, service
<1> PICK e \in Posted : /\ posted[e] # "offer"
                        /\ page' = [page EXCEPT ![c] = page[c] \ {e}]
  BY DEF Skip, ContinueAfter
<1>a. UNCHANGED <<origin, open, pc, got, around, deletion, service>> /\ pc[c] = "range"
  BY DEF Skip
<1>b. /\ page'[c] = page[c] \ {e}
      /\ \A d \in Collectors : d # c => page'[d] = page[d]
  BY DEF TypeOK
<1>c. \A d \in Collectors : page'[d] \subseteq page[d] /\ page[d] \subseteq page'[d] \cup {e}
  BY <1>b
<1>1. TypeOK'
  BY <1>a, <1>b DEF TypeOK, Posted
<1>2. Ordered'
  BY <1>a, <1>c DEF Ordered
<1>3. Apart'
  BY <1>a, <1>c DEF Apart, Holds, Received
<1>4. NoOfferIsDropped'
  BY <1>a, <1>c DEF NoOfferIsDropped, Posted, Received
<1>5. Idle' /\ Deletion'
  BY <1>a DEF Idle, Deletion, DeletedMeansUnsubscribed
<1> QED BY <1>1, <1>2, <1>3, <1>4, <1>5

\* A new event is one the service has not handed out.
LEMMA StepPost ==
  ASSUME Inv, NEW kind \in Kinds, Post(kind)
  PROVE  Inv'
<1> USE DEF Inv, goroutine, around, deletion, Post
<1>a. /\ Len(posted') = Len(posted) + 1 /\ Len(posted) \in Nat /\ posted' \in Seq(Kinds)
      /\ \A e \in Posted : posted'[e] = posted[e]
  BY DEF TypeOK, Posted
<1>1. TypeOK'
  BY <1>a, SubscriptionAssumption DEF TypeOK, Posted
<1>2. Ordered' /\ Apart'
  BY SameOrdered, SameApart
<1>4. Idle' /\ Deletion'
  BY DEF Idle, Deletion, DeletedMeansUnsubscribed
<1>3. NoOfferIsDropped'
  <2> SUFFICES ASSUME NEW e \in Posted', posted'[e] = "offer"
               PROVE  e >= next \/ e \in lost \/ \E d \in Collectors : e \in page[d] \cup Received(d)
    BY SameHolds DEF NoOfferIsDropped
  <2>1. CASE e \in Posted
    BY <2>1, <1>a DEF NoOfferIsDropped
  <2>2. CASE e \notin Posted
    BY <2>2, <1>a DEF Posted, TypeOK
  <2> QED BY <2>1, <2>2
<1> QED BY <1>1, <1>2, <1>3, <1>4

\* Nothing changes that the rest of the invariant looks at.
LEMMA StepAround ==
  ASSUME Inv,
         \/ Close
         \/ \E d \in Deleters : Delete(d)
         \/ \E c \in Collectors : Cancel(c) \/ Leave(c)
         \/ UNCHANGED vars
  PROVE  Inv'
<1> USE DEF Inv, goroutine, around, service
<1>a. UNCHANGED <<origin, pc, page, got, subscribed, posted, next, lost>>
  BY DEF Close, Delete, Cancel, Leave, deletion, vars
<1>b. open' = FALSE \/ open' = open
  BY DEF Close, Delete, Cancel, Leave, vars
<1>d. deleted' = deleted
  BY DEF Close, Delete, Cancel, Leave, deletion, vars, Marked
<1>e. deletedOk' = deletedOk
  BY DEF Close, Delete, Cancel, Leave, deletion, vars, Deletion
<1>c. /\ deleter' \in [Deleters -> {"idle", "unsubscribe"}]
      /\ done' \in [Collectors -> BOOLEAN]
      /\ reader' \in [Collectors -> {"reading", "gone"}]
  BY DEF Close, Delete, Cancel, Leave, deletion, vars, TypeOK, Deletion
<1>1. TypeOK'
  BY <1>a, <1>b, <1>c, <1>d, <1>e DEF TypeOK, Posted
<1>2. Ordered' /\ Apart'
  BY <1>a, SameOrdered, SameApart
<1>3. NoOfferIsDropped'
  BY <1>a, SameNoDrop
<1>4. Idle'
  BY <1>a, <1>b DEF Idle
<1>5. Deletion'
  BY <1>a, <1>d, <1>e DEF Deletion, DeletedMeansUnsubscribed
<1> QED BY <1>1, <1>2, <1>3, <1>4, <1>5

-----------------------------------------------------------------------------
\* Inv is an invariant of every behaviour of Subscription.
THEOREM Invariance == Spec => []Inv
<1>1. Inv /\ [Next]_vars => Inv'
  BY StepGoto, StepCollect, StepCollectFails, StepSend, StepSkip, StepDeleteEnds, StepPost, StepAround
     DEF Next, Loop
<1> QED BY InitInv, <1>1, PTL DEF Spec

\* Every variable of Subscription keeps its type.
THEOREM TypeCorrect == Spec => []TypeOK
<1>1. Inv => TypeOK
  BY DEF Inv
<1> QED BY <1>1, Invariance, PTL

\* Offers reach the readers of Events once, each reader in order.
THEOREM OffersOnce == Spec => []OffersComeOnce
<1>1. Inv => OffersComeOnce
  BY DEF Inv, OffersComeOnce, Ordered, Apart, Holds
<1> QED BY <1>1, Invariance, PTL

\* The goroutine of Events drops no offer.
THEOREM NoDrop == Spec => []NoOfferIsDropped
<1>1. Inv => NoOfferIsDropped
  BY DEF Inv
<1> QED BY <1>1, Invariance, PTL

\* A subscription made by Market.Subscribe never collects anything.
THEOREM SubscribedIsIdle == Spec => []SubscribedCollectsNothing
<1>1. Inv => SubscribedCollectsNothing
  BY DEF Inv, SubscribedCollectsNothing, Idle, Ordered
<1> QED BY <1>1, Invariance, PTL

\* A Delete without an error leaves no subscription at the service.
THEOREM DeleteUnsubscribes == Spec => []DeletedMeansUnsubscribed
<1>1. Inv => DeletedMeansUnsubscribed
  BY DEF Inv, Deletion
<1> QED BY <1>1, Invariance, PTL

-----------------------------------------------------------------------------
(* The queue of offers that the readers see. *)

\* Nothing that the readers, or the service, know of offers has changed.
LEMMA QueueStutters ==
  ASSUME UNCHANGED <<page, got, posted, next>>
  PROVE  UNCHANGED Queue!vars
<1>1. UNCHANGED <<Offers, Waiting, UnderWay>>
  BY DEF Offers, Waiting, UnderWay, Posted
<1> QED BY <1>1 DEF Queue!vars

LEMMA QueueInit == Init => Queue!Init
<1> SUFFICES ASSUME Init PROVE Queue!Init
  OBVIOUS
<1>1. Offers = {} /\ Waiting = {}
  BY DEF Init, Offers, Waiting, Posted
<1>2. UnderWay = [c \in Collectors |-> {}]
  BY <1>1 DEF UnderWay
<1> QED BY <1>1, <1>2 DEF Init, Queue!Init

\* What the service no longer has waiting when `next` has moved.
HandedOut == {e \in Offers : next <= e /\ e < next'}

LEMMA QueueMoves ==
  ASSUME Inv, next' \in Nat, next <= next', UNCHANGED posted
  PROVE  /\ HandedOut \in SUBSET Waiting
         /\ Queue!AreFirst(HandedOut)
         /\ Offers' = Offers
         /\ Waiting' = Waiting \ HandedOut
<1>1. next \in Nat /\ \A e \in Offers : e \in Nat
  BY DEF Inv, TypeOK, Offers, Posted
<1>2. Offers' = Offers
  BY DEF Offers, Posted
<1>3. HandedOut \subseteq Waiting
  BY DEF HandedOut, Waiting
<1>4. Waiting' = Waiting \ HandedOut
  BY <1>1, <1>2 DEF HandedOut, Waiting
<1>5. \A n \in HandedOut : \A m \in Waiting \ HandedOut : n < m
  BY <1>1 DEF HandedOut, Waiting
<1> QED BY <1>2, <1>3, <1>4, <1>5 DEF Queue!AreFirst

LEMMA QueueTakes ==
  ASSUME Inv, NEW c \in Collectors, Collect(c)
  PROVE  Queue!Next
<1> PICK n \in Available : /\ page' = [page EXCEPT ![c] = FirstEvents(n)]
                           /\ next' = next + n
  BY DEF Collect
<1>1. /\ n \in Nat /\ next \in Nat /\ next' \in Nat /\ next <= next'
      /\ page \in [Collectors -> SUBSET (1..MaxPosted)]
      /\ UNCHANGED <<posted, got>> /\ page[c] = {}
  <2>1. n \in Nat /\ next \in Nat /\ page \in [Collectors -> SUBSET (1..MaxPosted)]
    BY SubscriptionAssumption DEF Available, Inv, TypeOK
  <2>2. page[c] = {} /\ UNCHANGED <<posted, got>>
    BY DEF Inv, Ordered, Collect
  <2> QED BY <2>1, <2>2
<1>2. FirstEvents(n) \cap Offers = HandedOut
  BY <1>1 DEF FirstEvents, HandedOut, Offers, Posted
<1>3. /\ HandedOut \in SUBSET Waiting /\ Queue!AreFirst(HandedOut)
      /\ Offers' = Offers /\ Waiting' = Waiting \ HandedOut
  BY <1>1, QueueMoves
<1>4. UnderWay[c] = {} /\ UnderWay' = [UnderWay EXCEPT ![c] = HandedOut]
  BY <1>1, <1>2, <1>3 DEF UnderWay
<1>5. Queue!Take(c, HandedOut)
  BY <1>1, <1>3, <1>4 DEF Queue!Take
<1> QED BY <1>3, <1>5 DEF Queue!Next

LEMMA QueueLoses ==
  ASSUME Inv, next' \in Nat, next <= next', UNCHANGED <<page, got, posted>>
  PROVE  Queue!Next
<1>1. /\ HandedOut \in SUBSET Waiting /\ Queue!AreFirst(HandedOut)
      /\ Offers' = Offers /\ Waiting' = Waiting \ HandedOut
  BY QueueMoves
<1>2. UnderWay' = UnderWay
  BY <1>1 DEF UnderWay
<1>3. Queue!Lose(HandedOut)
  BY <1>1, <1>2 DEF Queue!Lose
<1> QED BY <1>1, <1>3 DEF Queue!Next

LEMMA QueueDelivers ==
  ASSUME Inv, NEW c \in Collectors, Send(c)
  PROVE  Queue!Next
<1> PICK e \in Posted : /\ IsNext(c, e)
                        /\ posted[e] = "offer"
                        /\ got' = [got EXCEPT ![c] = Append(@, e)]
                        /\ page' = [page EXCEPT ![c] = page[c] \ {e}]
  BY DEF Send, After
<1>1. /\ UNCHANGED <<posted, next>>
      /\ page \in [Collectors -> SUBSET (1..MaxPosted)]
  BY DEF Send, service, Inv, TypeOK
<1>2. Offers' = Offers /\ Waiting' = Waiting
  BY <1>1 DEF Offers, Waiting, Posted
<1>3. e \in UnderWay[c] /\ \A m \in UnderWay[c] : e <= m
  BY DEF UnderWay, Offers, IsNext
<1>4. UnderWay' = [UnderWay EXCEPT ![c] = @ \ {e}]
  BY <1>1, <1>2 DEF UnderWay
<1>5. Queue!Receive(c, e)
  BY <1>2, <1>3, <1>4 DEF Queue!Receive
<1> QED BY <1>3, <1>5 DEF Queue!Next

\* What is no offer goes unseen.
LEMMA QueueSkips ==
  ASSUME Inv, NEW c \in Collectors, Skip(c)
  PROVE  UNCHANGED Queue!vars
<1> PICK e \in Posted : posted[e] # "offer" /\ page' = [page EXCEPT ![c] = page[c] \ {e}]
  BY DEF Skip, ContinueAfter
<1>1. /\ UNCHANGED <<posted, next, got>>
      /\ page \in [Collectors -> SUBSET (1..MaxPosted)]
  BY DEF Skip, service, Inv, TypeOK
<1>2. Offers' = Offers /\ Waiting' = Waiting /\ e \notin Offers
  BY <1>1 DEF Offers, Waiting, Posted
<1>3. UnderWay' = UnderWay
  BY <1>1, <1>2 DEF UnderWay
<1> QED BY <1>1, <1>2, <1>3 DEF Queue!vars

LEMMA QueueGrows ==
  ASSUME Inv, NEW kind \in Kinds, Post(kind)
  PROVE  Queue!Next \/ UNCHANGED Queue!vars
<1> DEFINE n == Len(posted) + 1
<1>1. /\ posted' = Append(posted, kind) /\ UNCHANGED <<page, got, next>>
      /\ Len(posted) \in Nat /\ posted \in Seq(Kinds) /\ next \in Nat /\ next <= n
      /\ n \in 1..MaxPosted
  BY SubscriptionAssumption DEF Post, goroutine, Inv, TypeOK
<1>2. /\ Posted' = Posted \cup {n} /\ n \notin Posted
      /\ \A e \in Posted : posted'[e] = posted[e] /\ e < n
      /\ posted'[n] = kind
  BY <1>1 DEF Posted
<1>3. \A c \in Collectors : n \notin page[c]
  BY <1>1 DEF Inv, Ordered, TypeOK
<1> HIDE DEF n
<1>4. CASE kind = "offer"
  <2>1. Offers' = Offers \cup {n} /\ \A m \in Offers : m < n
    BY <1>2, <1>4 DEF Offers
  <2>2. Waiting' = Waiting \cup {n}
    BY <1>1, <2>1 DEF Waiting
  <2>3. UnderWay' = UnderWay
    BY <1>1, <1>3, <2>1 DEF UnderWay
  <2>4. Queue!Arrive(n)
    BY <1>1, <2>1, <2>2, <2>3 DEF Queue!Arrive
  <2> QED BY <1>1, <2>4 DEF Queue!Next
<1>5. CASE kind # "offer"
  <2>1. Offers' = Offers
    BY <1>2, <1>5 DEF Offers
  <2>2. Waiting' = Waiting /\ UnderWay' = UnderWay
    BY <1>1, <2>1 DEF Waiting, UnderWay
  <2> QED BY <1>1, <2>1, <2>2 DEF Queue!vars
<1> QED BY <1>4, <1>5

LEMMA QueueStep ==
  ASSUME Inv, [Next]_vars
  PROVE  Queue!Next \/ UNCHANGED Queue!vars
<1>1. ASSUME NEW c \in Collectors, Events(c) \/ Check(c) \/ RangeEnd(c) \/ Cancel(c) \/ Leave(c)
      PROVE  UNCHANGED <<page, got, posted, next>>
  BY <1>1 DEF Events, Check, RangeEnd, Cancel, Leave, goroutine, service
<1>2. ASSUME NEW c \in Collectors, CollectFails(c) PROVE Queue!Next
  <2>1. next' \in Nat /\ next <= next' /\ UNCHANGED <<page, got, posted>>
    BY <1>2, SubscriptionAssumption DEF CollectFails, Available, Inv, TypeOK
  <2> QED BY <2>1, QueueLoses
<1>3. ASSUME NEW d \in Deleters, Unsubscribed(d) \/ UnsubscribeFails(d) PROVE Queue!Next
  <2>1. next' \in Nat /\ next <= next' /\ UNCHANGED <<page, got, posted>>
    BY <1>3 DEF Unsubscribed, UnsubscribeFails, goroutine, Inv, TypeOK
  <2> QED BY <2>1, QueueLoses
<1>4. CASE Close \/ (\E d \in Deleters : Delete(d)) \/ UNCHANGED vars
  <2>1. UNCHANGED <<page, got, posted, next>>
    BY <1>4 DEF Close, Delete, goroutine, service, vars
  <2> QED BY <2>1, QueueStutters
<1> QED BY <1>1, <1>2, <1>3, <1>4, QueueStutters, QueueTakes, QueueDelivers, QueueSkips, QueueGrows
           DEF Next, Loop

\* However many collectors and deleters there are, the readers see the queue.
THEOREM SubscriptionImplementsQueue == Spec => ImplementsQueue
BY Invariance, QueueInit, QueueStep, PTL DEF Spec, ImplementsQueue, Queue!Spec
=============================================================================

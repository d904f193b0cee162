----------------------------- MODULE OfferQueue -----------------------------
(***************************************************************************)
(* What the readers of a subscription may rely on, however many there are: *)
(* offers wait at the service in the order in which they came; a request  *)
(* takes the first of them for one reader that has nothing under way, or   *)
(* in vain; and what was taken for a reader is under way until this reader *)
(* receives it, the oldest first.                                          *)
(***************************************************************************)
EXTENDS Naturals, Sequences

CONSTANTS
    Readers,
    Numbers  \* the offers, numbered as they come; not every number is one's

VARIABLES
    arrived,  \* the offers that have come to the service
    waiting,  \* those that no request has taken
    underWay, \* those that were taken for each reader
    got       \* those that each reader received, in this order

vars == <<arrived, waiting, underWay, got>>

Init ==
    /\ arrived = {}
    /\ waiting = {}
    /\ underWay = [r \in Readers |-> {}]
    /\ got = [r \in Readers |-> <<>>]

Arrive(n) ==
    /\ \A m \in arrived : m < n
    /\ arrived' = arrived \cup {n}
    /\ waiting' = waiting \cup {n}
    /\ UNCHANGED <<underWay, got>>

AreFirst(batch) ==
    /\ batch \subseteq waiting
    /\ \A n \in batch : \A m \in waiting \ batch : n < m

Take(r, batch) ==
    /\ underWay[r] = {}
    /\ underWay' = [underWay EXCEPT ![r] = batch]
    /\ waiting' = waiting \ batch
    /\ UNCHANGED <<arrived, got>>

Lose(batch) ==
    /\ waiting' = waiting \ batch
    /\ UNCHANGED <<arrived, underWay, got>>

Receive(r, n) ==
    /\ n \in underWay[r]
    /\ \A m \in underWay[r] : n <= m
    /\ underWay' = [underWay EXCEPT ![r] = @ \ {n}]
    /\ got' = [got EXCEPT ![r] = Append(@, n)]
    /\ UNCHANGED <<arrived, waiting>>

Next ==
    \/ \E n \in Numbers : Arrive(n)
    \/ \E batch \in SUBSET waiting :
          AreFirst(batch) /\ (Lose(batch) \/ \E r \in Readers : Take(r, batch))
    \/ \E r \in Readers : \E n \in underWay[r] : Receive(r, n)

Spec == Init /\ [][Next]_vars
=============================================================================

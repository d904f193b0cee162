-------------------------- MODULE AgreementLedger --------------------------
(***************************************************************************)
(* What a listener to the events of AgreementPool may rely on, whatever    *)
(* number of goroutines use the pool: the agreements follow each other one *)
(* at a time, each one through created, then held or rejected, and a held  *)
(* one ends once.  An agreement may stay created for ever.                 *)
(***************************************************************************)
CONSTANT Ids

VARIABLES
    life,  \* what the events have told of each agreement
    held   \* the content of the pool

vars == <<life, held>>

Lives == {"unknown", "created", "held", "rejected", "ended"}

Init ==
    /\ life = [a \in Ids |-> "unknown"]
    /\ held = {}

\* A new agreement is asked for only while none is held.
Create(a) ==
    /\ life[a] = "unknown"
    /\ held = {}
    /\ life' = [life EXCEPT ![a] = "created"]
    /\ UNCHANGED held

Hold(a) ==
    /\ life[a] = "created"
    /\ held = {}
    /\ life' = [life EXCEPT ![a] = "held"]
    /\ held' = {a}

Reject(a) ==
    /\ life[a] = "created"
    /\ held = {}
    /\ life' = [life EXCEPT ![a] = "rejected"]
    /\ UNCHANGED held

End(a) ==
    /\ life[a] = "held"
    /\ life' = [life EXCEPT ![a] = "ended"]
    /\ held' = {}

Next == \E a \in Ids : Create(a) \/ Hold(a) \/ Reject(a) \/ End(a)

Spec == Init /\ [][Next]_vars
=============================================================================

--------------------------- MODULE CommandStream ---------------------------
(***************************************************************************)
(* What a consumer of Poll's channels may rely on: the results of commands *)
(* 0, 1, 2, ... arrive each once and in this order, until the stream is    *)
(* closed; it is closed for good, and a complete stream does not fail.     *)
(***************************************************************************)
EXTENDS Naturals

CONSTANT Size  \* the number of commands of the batch

VARIABLES
    next,    \* the command whose result is to come
    stream   \* "open", "complete", "failed" or "abandoned"

vars == <<next, stream>>

Init == next = 0 /\ stream = "open"

Deliver ==
    /\ stream = "open"
    /\ next < Size
    /\ next' = next + 1
    /\ UNCHANGED stream

Complete ==
    /\ stream = "open"
    /\ next >= Size
    /\ stream' = "complete"
    /\ UNCHANGED next

Fail ==
    /\ stream = "open"
    /\ next < Size
    /\ stream' = "failed"
    /\ UNCHANGED next

Abandon ==
    /\ stream = "open"
    /\ stream' = "abandoned"
    /\ UNCHANGED next

Next == Deliver \/ Complete \/ Fail \/ Abandon

Spec == Init /\ [][Next]_vars
=============================================================================

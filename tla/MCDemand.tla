------------------------------ MODULE MCDemand ------------------------------
(* Module Demand with short lists: see the README for why they are enough. *)
EXTENDS Demand

CONSTANTS a, b  \* counters

MCCoeffs == {<<>>, <<1>>, <<Word>>, <<1, 0>>, <<0, 1>>, <<Word, 1>>, <<1, 0, 2>>, <<1, 2, 1>>,
             <<1, Word, 2>>}
MCCounters == {a, b}
MCUsages == {<<>>, <<a>>, <<a, a>>, <<a, b>>}
=============================================================================

-------------------------- MODULE MCAgreementPool --------------------------
(* Finite instances of AgreementPool.  Goroutines of one kind, agreement ids *)
(* and issuers are interchangeable; the reductions are used for safety only. *)
EXTENDS AgreementPool, TLC

CallerIdSymmetry == Permutations(Callers) \cup Permutations(Ids)
GoroutineSymmetry ==
    Permutations(Callers) \cup Permutations(Terminators) \cup Permutations(Issuers)
=============================================================================

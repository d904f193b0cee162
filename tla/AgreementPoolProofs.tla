------------------------- MODULE AgreementPoolProofs -------------------------
(***************************************************************************)
(* The safety properties of AgreementPool for every value of its           *)
(* constants: any number of callers, terminators, agreements and offers,   *)
(* and any of the four defects repaired or not.                            *)
(***************************************************************************)
EXTENDS AgreementPool, TLAPS

(* The inductive invariant, part by part. *)

\* What each goroutine works on.
ArgOK ==
    /\ \A c \in Callers :
          /\ pc[c] = "create" => arg[c] \in Issuers
          /\ pc[c] = "select" => arg[c] \in Ids \cup Issuers
          /\ pc[c] \in {"details", "confirm", "approval", "record",
                        "callback", "release", "remove"} => arg[c] \in Ids
    /\ \A g \in Terminators : pc[g] # "idle" =>
          arg[g] \in Ids /\ <<"confirmed", arg[g]>> \in emitted

\* UseAgreement keeps the mutex until it returns.
MutexOK == \A c \in Callers : pc[c] \in Creating \cup {"callback"} => log = c

\* While a caller creates an agreement the pool stays empty.
PoolOK ==
    /\ AtMostOneAgreement
    /\ \A c \in Callers : pc[c] \in Creating => agreements = {}

\* The pool holds what was confirmed and not terminated since.
EventsOK ==
    /\ EventsConsistent
    /\ \A a \in Ids :
          /\ a \in agreements <=> /\ <<"confirmed", a>> \in emitted
                                  /\ <<"terminated", a>> \notin emitted
          /\ remote[a] = "none" => <<"created", a>> \notin emitted
          /\ <<"confirmed", a>> \in emitted => remote[a] \in {"approved", "terminated"}

\* How far the agreement has come that a caller creates.
StageOK(c) ==
    /\ pc[c] \in Creating /\ arg[c] \in Ids =>
          /\ remote[arg[c]] # "none"
          /\ <<"confirmed", arg[c]>> \notin emitted
          /\ <<"rejected", arg[c]>> \notin emitted
    /\ pc[c] \in {"select", "details"} /\ arg[c] \in Ids
          => <<"created", arg[c]>> \notin emitted
    /\ pc[c] \in {"confirm", "approval", "record"} => <<"created", arg[c]>> \in emitted
    /\ pc[c] = "record" => remote[arg[c]] \in {"approved", "terminated"}
    /\ pc[c] = "callback" => <<"confirmed", arg[c]>> \in emitted

StagesOK == \A c \in Callers : StageOK(c)

\* setWorker never records a worker.
WorkersOK == \A a \in Ids : workerTask[a] = None

IInv == TypeOK /\ ArgOK /\ MutexOK /\ PoolOK /\ EventsOK /\ StagesOK /\ WorkersOK

-----------------------------------------------------------------------------
USE PoolAssumption DEF Goroutines

LEMMA InitIInv == Init => IInv
<1> SUFFICES ASSUME Init PROVE IInv
  OBVIOUS
<1> USE DEF Init
<1>1. TypeOK
  BY DEF TypeOK, CallerLabels, TerminatorLabels, Methods, Creating, RemoteStates, Events
<1>2. ArgOK /\ MutexOK /\ PoolOK /\ EventsOK /\ StagesOK /\ WorkersOK
  BY DEF ArgOK, MutexOK, PoolOK, AtMostOneAgreement, EventsOK, EventsConsistent,
         StagesOK, StageOK, WorkersOK, Creating
<1> QED
  BY <1>1, <1>2 DEF IInv

\* A caller moves on outside of UseAgreement, and changes nothing else but
\* Cycle's set and, when it returns, the mutex.
LEMMA CallerMoves ==
  ASSUME IInv, NEW c \in Callers,
         NEW label \in CallerLabels \ (Creating \cup {"callback"}),
         NEW x \in Ids \cup {None}, label \in {"release", "remove"} => x \in Ids,
         Goto(c, label, x),
         log' = log \/ (log = c /\ log' = None),
         todo' \in [Callers -> SUBSET Ids], crashed' \in BOOLEAN,
         UNCHANGED <<pool, outside, repaired>>
  PROVE  IInv'
<1> USE DEF IInv, Goto, pool, outside
<1>1. /\ pc'[c] = label /\ arg'[c] = x
      /\ \A p \in Goroutines \ {c} : pc'[p] = pc[p] /\ arg'[p] = arg[p]
  BY DEF TypeOK
<1>2. \A d \in Callers : log' # d /\ log = d => d = c
  OBVIOUS
<1>3. TypeOK'
  BY <1>1 DEF TypeOK, CallerLabels, TerminatorLabels, Methods, Creating
<1>4. ArgOK'
  BY <1>1 DEF TypeOK, ArgOK, Creating
<1>5. MutexOK'
  BY <1>1, <1>2 DEF MutexOK
<1>6. PoolOK'
  BY <1>1 DEF PoolOK, AtMostOneAgreement
<1>7. EventsOK' /\ WorkersOK'
  BY DEF EventsOK, EventsConsistent, WorkersOK
<1>8. StagesOK'
  BY <1>1 DEF StagesOK, StageOK, Creating
<1> QED
  BY <1>3, <1>4, <1>5, <1>6, <1>7, <1>8

LEMMA StepCall == ASSUME IInv, UNCHANGED repaired, NEW c \in Callers, Call(c) PROVE IInv'
<1>1. \E label \in {"add", "terminate_all", "snapshot", "use", "release", "remove"}, x \in Ids \cup {None} :
         Goto(c, label, x) /\ (label \in {"release", "remove"} => x \in Ids)
  <2>1. CASE \E method \in {"add", "terminate_all", "snapshot"} : Goto(c, method, None)
    BY <2>1
  <2>2. CASE Goto(c, "use", None)
    BY <2>2
  <2>3. CASE \E a \in Ids : Goto(c, "release", a)
    BY <2>3
  <2>4. CASE \E a \in Ids : Goto(c, "remove", a)
    BY <2>4
  <2> QED
    BY <2>1, <2>2, <2>3, <2>4 DEF Call
<1>2. PICK label \in {"add", "terminate_all", "snapshot", "use", "release", "remove"}, x \in Ids \cup {None} :
         Goto(c, label, x) /\ (label \in {"release", "remove"} => x \in Ids)
  BY <1>1
<1>3. label \in CallerLabels \ (Creating \cup {"callback"})
  BY DEF CallerLabels, Methods, Creating
<1>4. /\ todo' \in [Callers -> SUBSET Ids]
      /\ crashed' \in BOOLEAN
      /\ log' = log
      /\ UNCHANGED <<pool, outside>>
  BY DEF Call, IInv, TypeOK
<1> QED
  BY <1>2, <1>3, <1>4, CallerMoves

LEMMA StepLock == ASSUME IInv, UNCHANGED repaired, NEW c \in Callers, Lock(c) PROVE IInv'
<1> USE DEF IInv, Lock, local, pool, outside, MutexFree
<1>1. TypeOK'
  BY DEF TypeOK, ArgOK, CallerLabels, TerminatorLabels, Methods, Creating, RemoteStates, Events
<1>2. ArgOK'
  BY DEF TypeOK, ArgOK, StagesOK, StageOK, Methods, Creating
<1>3. MutexOK'
  BY DEF TypeOK, MutexOK, Methods, Creating
<1>4. PoolOK'
  BY DEF TypeOK, MutexOK, PoolOK, AtMostOneAgreement, Methods, Creating
<1>5. EventsOK'
  BY DEF TypeOK, ArgOK, EventsOK, EventsConsistent, StagesOK, StageOK, PoolOK, Creating
<1>6. StagesOK'
  BY DEF TypeOK, ArgOK, MutexOK, EventsOK, EventsConsistent, StagesOK, StageOK, Methods, Creating
<1>7. WorkersOK'
  BY DEF WorkersOK
<1> QED
  BY <1>1, <1>2, <1>3, <1>4, <1>5, <1>6, <1>7

LEMMA StepTaskEnds == ASSUME IInv, UNCHANGED repaired, NEW c \in Callers, TaskEnds(c) PROVE IInv'
<1> USE DEF IInv, TaskEnds, local, pool
<1>1. TypeOK'
  BY DEF TypeOK, ArgOK, CallerLabels, TerminatorLabels, Methods, Creating, RemoteStates, Events
<1>2. ArgOK'
  BY DEF TypeOK, ArgOK, StagesOK, StageOK, Methods, Creating
<1>3. MutexOK'
  BY DEF TypeOK, MutexOK, Methods, Creating
<1>4. PoolOK'
  BY DEF TypeOK, MutexOK, PoolOK, AtMostOneAgreement, Methods, Creating
<1>5. EventsOK'
  BY DEF TypeOK, ArgOK, EventsOK, EventsConsistent, StagesOK, StageOK, PoolOK, Creating
<1>6. StagesOK'
  BY DEF TypeOK, ArgOK, MutexOK, EventsOK, EventsConsistent, StagesOK, StageOK, Methods, Creating
<1>7. WorkersOK'
  BY DEF WorkersOK
<1> QED
  BY <1>1, <1>2, <1>3, <1>4, <1>5, <1>6, <1>7

LEMMA StepAddProposal == ASSUME IInv, UNCHANGED repaired, NEW c \in Callers, AddProposal(c) PROVE IInv'
<1> USE DEF IInv, AddProposal, outside, Goto, Return, At
<1>1. TypeOK'
  BY DEF TypeOK, ArgOK, CallerLabels, TerminatorLabels, Methods, Creating, RemoteStates, Events
<1>2. ArgOK'
  BY DEF TypeOK, ArgOK, StagesOK, StageOK, Methods, Creating
<1>3. MutexOK'
  BY DEF TypeOK, MutexOK, Methods, Creating
<1>4. PoolOK'
  BY DEF TypeOK, MutexOK, PoolOK, AtMostOneAgreement, Methods, Creating
<1>5. EventsOK'
  BY DEF TypeOK, ArgOK, EventsOK, EventsConsistent, StagesOK, StageOK, PoolOK, Creating
<1>6. StagesOK'
  BY DEF TypeOK, ArgOK, MutexOK, EventsOK, EventsConsistent, StagesOK, StageOK, Methods, Creating
<1>7. WorkersOK'
  BY DEF WorkersOK
<1> QED
  BY <1>1, <1>2, <1>3, <1>4, <1>5, <1>6, <1>7

LEMMA StepReuseAgreement == ASSUME IInv, UNCHANGED repaired, NEW c \in Callers, ReuseAgreement(c) PROVE IInv'
<1> USE DEF IInv, ReuseAgreement, pool, outside, Goto, At
<1>0. \A p \in Goroutines \ {c} : pc'[p] = pc[p] /\ arg'[p] = arg[p]
  BY DEF TypeOK
<1>a. \A d \in Callers \ {c} : pc[d] \notin Creating \cup {"callback"}
  BY DEF MutexOK, Creating
<1>1. TypeOK'
  BY DEF TypeOK, ArgOK, CallerLabels, TerminatorLabels, Methods, Creating, RemoteStates, Events
<1>2. ArgOK'
  BY DEF TypeOK, ArgOK, StagesOK, StageOK, Methods, Creating
<1>3. MutexOK'
  BY DEF TypeOK, MutexOK, Methods, Creating
<1>4. PoolOK'
  BY DEF TypeOK, MutexOK, PoolOK, AtMostOneAgreement, Methods, Creating
<1>5. EventsOK'
  BY DEF TypeOK, ArgOK, EventsOK, EventsConsistent, StagesOK, StageOK, PoolOK, Creating
<1>6. StagesOK'
  <2>1. pc'[c] = "callback" /\ arg'[c] \in agreements
    BY DEF TypeOK
  <2>2. StageOK(c)'
    BY <2>1 DEF TypeOK, EventsOK, StageOK, Creating
  <2>3. \A d \in Callers \ {c} : StageOK(d)'
    BY <1>0, <1>a DEF StageOK, Creating
  <2> QED
    BY <2>2, <2>3 DEF StagesOK
<1>7. WorkersOK'
  BY DEF WorkersOK
<1> QED
  BY <1>1, <1>2, <1>3, <1>4, <1>5, <1>6, <1>7

LEMMA StepTakeOffer == ASSUME IInv, UNCHANGED repaired, NEW c \in Callers, TakeOffer(c) PROVE IInv'
<1> USE DEF IInv, TakeOffer, outside, Goto, At, NothingToReuse, BestOffers
<1>1. TypeOK'
  BY DEF TypeOK, ArgOK, CallerLabels, TerminatorLabels, Methods, Creating, RemoteStates, Events
<1>2. ArgOK'
  BY DEF TypeOK, ArgOK, StagesOK, StageOK, Methods, Creating
<1>3. MutexOK'
  BY DEF TypeOK, MutexOK, Methods, Creating
<1>4. PoolOK'
  BY DEF TypeOK, MutexOK, PoolOK, AtMostOneAgreement, Methods, Creating
<1>5. EventsOK'
  BY DEF TypeOK, ArgOK, EventsOK, EventsConsistent, StagesOK, StageOK, PoolOK, Creating
<1>6. StagesOK'
  BY DEF TypeOK, ArgOK, MutexOK, EventsOK, EventsConsistent, StagesOK, StageOK, Methods, Creating
<1>7. WorkersOK'
  BY DEF WorkersOK
<1> QED
  BY <1>1, <1>2, <1>3, <1>4, <1>5, <1>6, <1>7

LEMMA StepNoOffer == ASSUME IInv, UNCHANGED repaired, NEW c \in Callers, NoOffer(c) PROVE IInv'
<1>1. Goto(c, "idle", None) /\ log = c /\ log' = None
  BY DEF NoOffer, At, Panic, Return
<1> QED
  BY <1>1, CallerMoves DEF NoOffer, Panic, IInv, TypeOK, CallerLabels, Methods, Creating

LEMMA StepCreateAgreement == ASSUME IInv, UNCHANGED repaired, NEW c \in Callers, CreateAgreement(c) PROVE IInv'
<1> USE DEF IInv, CreateAgreement, pool, Goto, Return, Panic
<1>0. \A p \in Goroutines \ {c} : pc'[p] = pc[p] /\ arg'[p] = arg[p]
  BY DEF TypeOK
<1>a. \A d \in Callers \ {c} : pc[d] \notin Creating \cup {"callback"}
  BY DEF MutexOK, Creating
<1>1. TypeOK'
  BY DEF TypeOK, ArgOK, CallerLabels, TerminatorLabels, Methods, Creating, RemoteStates, Events
<1>2. ArgOK'
  BY <1>0 DEF TypeOK, ArgOK, Creating
<1>3. MutexOK'
  BY DEF TypeOK, MutexOK, Methods, Creating
<1>4. PoolOK'
  BY DEF TypeOK, MutexOK, PoolOK, AtMostOneAgreement, Methods, Creating
<1>5. EventsOK'
  BY DEF TypeOK, ArgOK, EventsOK, EventsConsistent, StagesOK, StageOK, PoolOK, Creating
<1>6. StagesOK'
  <2>1. \/ pc'[c] = "idle"
        \/ /\ pc'[c] = "select"
           /\ \/ arg'[c] \in Issuers
              \/ /\ arg'[c] \in Ids
                 /\ remote[arg'[c]] = "none"
                 /\ remote'[arg'[c]] = "created"
    BY DEF TypeOK, ArgOK
  <2>2. StageOK(c)'
    BY <2>1 DEF EventsOK, EventsConsistent, StageOK, Creating
  <2>3. \A d \in Callers \ {c} : StageOK(d)'
    BY <1>0, <1>a DEF StageOK, Creating
  <2> QED
    BY <2>2, <2>3 DEF StagesOK
<1>7. WorkersOK'
  BY DEF WorkersOK
<1> QED
  BY <1>1, <1>2, <1>3, <1>4, <1>5, <1>6, <1>7

LEMMA StepSelect == ASSUME IInv, UNCHANGED repaired, NEW c \in Callers, Select(c) PROVE IInv'
<1> USE DEF IInv, Select, pool, Emit, Goto, Return, SelectPasses,
           CreationFailed
<1>1. TypeOK'
  BY DEF TypeOK, ArgOK, CallerLabels, TerminatorLabels, Methods, Creating, RemoteStates, Events
<1>2. ArgOK'
  BY DEF TypeOK, ArgOK, StagesOK, StageOK, Methods, Creating
<1>3. MutexOK'
  BY DEF TypeOK, MutexOK, Methods, Creating
<1>4. PoolOK'
  BY DEF TypeOK, MutexOK, PoolOK, AtMostOneAgreement, Methods, Creating
<1>5. EventsOK'
  BY DEF TypeOK, ArgOK, EventsOK, EventsConsistent, StagesOK, StageOK, PoolOK, Creating
<1>6. StagesOK'
  <2>1. StageOK(c)'
    BY DEF TypeOK, ArgOK, StagesOK, StageOK, Methods, Creating
  <2>2. ASSUME NEW d \in Callers \ {c} PROVE StageOK(d)'
    BY DEF TypeOK, ArgOK, MutexOK, StagesOK, StageOK, Methods, Creating
  <2> QED
    BY <2>1, <2>2 DEF StagesOK
<1>7. WorkersOK'
  BY DEF WorkersOK
<1> QED
  BY <1>1, <1>2, <1>3, <1>4, <1>5, <1>6, <1>7

LEMMA StepDetails == ASSUME IInv, UNCHANGED repaired, NEW c \in Callers, Details(c) PROVE IInv'
<1> USE DEF IInv, Details, pool, Emit, Goto, Return, Panic, ExtractWorks
<1>0. \A p \in Goroutines \ {c} : pc'[p] = pc[p] /\ arg'[p] = arg[p]
  BY DEF TypeOK
<1>a. \A d \in Callers \ {c} : pc[d] \notin Creating \cup {"callback"}
  BY DEF MutexOK, Creating
<1>1. TypeOK'
  BY DEF TypeOK, ArgOK, CallerLabels, TerminatorLabels, Methods, Creating, RemoteStates, Events
<1>2. ArgOK'
  BY DEF TypeOK, ArgOK, StagesOK, StageOK, Methods, Creating
<1>3. MutexOK'
  BY DEF TypeOK, MutexOK, Methods, Creating
<1>4. PoolOK'
  BY DEF TypeOK, MutexOK, PoolOK, AtMostOneAgreement, Methods, Creating
<1>5. EventsOK'
  BY DEF TypeOK, ArgOK, EventsOK, EventsConsistent, StagesOK, StageOK, PoolOK, Creating
<1>6. StagesOK'
  <2>1. StageOK(c)'
    <3>1. StageOK(c) /\ arg[c] \in Ids
      BY DEF ArgOK, StagesOK
    <3>2. \/ /\ pc'[c] = "confirm" /\ arg'[c] = arg[c]
             /\ emitted' = emitted \cup {<<"created", arg[c]>>}
          \/ pc'[c] = "idle"
      BY DEF TypeOK
    <3> QED
      BY <3>1, <3>2 DEF StageOK, Creating
  <2>2. \A d \in Callers \ {c} : StageOK(d)'
    BY <1>0, <1>a DEF StageOK, Creating
  <2> QED
    BY <2>1, <2>2 DEF StagesOK
<1>7. WorkersOK'
  BY DEF WorkersOK
<1> QED
  BY <1>1, <1>2, <1>3, <1>4, <1>5, <1>6, <1>7

LEMMA StepConfirm == ASSUME IInv, UNCHANGED repaired, NEW c \in Callers, Confirm(c) PROVE IInv'
<1> USE DEF IInv, Confirm, pool, Emit, Goto, Return, Panic, LoggerWorks,
           ConfirmFails
<1>0. \A p \in Goroutines \ {c} : pc'[p] = pc[p] /\ arg'[p] = arg[p]
  BY DEF TypeOK
<1>a. \A d \in Callers \ {c} : pc[d] \notin Creating \cup {"callback"}
  BY DEF MutexOK, Creating
<1>1. TypeOK'
  BY DEF TypeOK, ArgOK, CallerLabels, TerminatorLabels, Methods, Creating, RemoteStates, Events
<1>2. ArgOK'
  BY <1>0 DEF TypeOK, ArgOK, Creating
<1>3. MutexOK'
  BY DEF TypeOK, MutexOK, Methods, Creating
<1>4. PoolOK'
  BY DEF TypeOK, MutexOK, PoolOK, AtMostOneAgreement, Methods, Creating
<1>5. EventsOK'
  <2>1. \A a \in Ids : remote'[a] # remote[a] => a = arg[c] /\ remote'[a] = "pending"
    BY DEF TypeOK
  <2>2. arg[c] \in Ids /\ StageOK(c)
    BY DEF ArgOK, StagesOK
  <2>3. \/ emitted' = emitted
        \/ emitted' = emitted \cup {<<"rejected", arg[c]>>}
    OBVIOUS
  <2> QED
    BY <2>1, <2>2, <2>3 DEF EventsOK, EventsConsistent, StageOK, Creating
<1>6. StagesOK'
  <2>1. StageOK(c)'
    BY <1>0 DEF TypeOK, ArgOK, EventsOK, EventsConsistent, StagesOK, StageOK, Creating
  <2>2. \A d \in Callers \ {c} : StageOK(d)'
    BY <1>0, <1>a DEF StageOK, Creating
  <2> QED
    BY <2>1, <2>2 DEF StagesOK
<1>7. WorkersOK'
  BY DEF WorkersOK
<1> QED
  BY <1>1, <1>2, <1>3, <1>4, <1>5, <1>6, <1>7

LEMMA StepApproval == ASSUME IInv, UNCHANGED repaired, NEW c \in Callers, Approval(c) PROVE IInv'
<1> USE DEF IInv, Approval, pool, Emit, Goto, Return, Panic, LoggerWorks,
           ConfirmFails, Approved
<1>1. TypeOK'
  BY DEF TypeOK, ArgOK, CallerLabels, TerminatorLabels, Methods, Creating, RemoteStates, Events
<1>2. ArgOK'
  BY DEF TypeOK, ArgOK, StagesOK, StageOK, Methods, Creating
<1>3. MutexOK'
  BY DEF TypeOK, MutexOK, Methods, Creating
<1>4. PoolOK'
  BY DEF TypeOK, MutexOK, PoolOK, AtMostOneAgreement, Methods, Creating
<1>5. EventsOK'
  BY DEF TypeOK, ArgOK, EventsOK, EventsConsistent, StagesOK, StageOK, PoolOK, Creating
<1>6. StagesOK'
  BY DEF TypeOK, ArgOK, MutexOK, EventsOK, EventsConsistent, StagesOK, StageOK, Methods, Creating
<1>7. WorkersOK'
  BY DEF WorkersOK
<1> QED
  BY <1>1, <1>2, <1>3, <1>4, <1>5, <1>6, <1>7

LEMMA StepRecord == ASSUME IInv, UNCHANGED repaired, NEW c \in Callers, Record(c) PROVE IInv'
<1> USE DEF IInv, Record, Emit, Goto
<1>1. TypeOK'
  BY DEF TypeOK, ArgOK, CallerLabels, TerminatorLabels, Methods, Creating, RemoteStates, Events
<1>2. ArgOK'
  BY DEF TypeOK, ArgOK, StagesOK, StageOK, Methods, Creating
<1>3. MutexOK'
  BY DEF TypeOK, MutexOK, Methods, Creating
<1>4. PoolOK'
  BY DEF TypeOK, MutexOK, PoolOK, AtMostOneAgreement, Methods, Creating
<1>5. EventsOK'
  BY DEF TypeOK, ArgOK, EventsOK, EventsConsistent, StagesOK, StageOK, PoolOK, Creating
<1>6. StagesOK'
  BY DEF TypeOK, ArgOK, MutexOK, EventsOK, EventsConsistent, StagesOK, StageOK, Methods, Creating
<1>7. WorkersOK'
  BY DEF WorkersOK
<1> QED
  BY <1>1, <1>2, <1>3, <1>4, <1>5, <1>6, <1>7

LEMMA StepCallback == ASSUME IInv, UNCHANGED repaired, NEW c \in Callers, Callback(c) PROVE IInv'
<1> USE DEF IInv, Callback, Goto, Return, SetWorker
<1>1. TypeOK'
  BY DEF TypeOK, ArgOK, CallerLabels, TerminatorLabels, Methods, Creating, RemoteStates, Events
<1>2. ArgOK'
  BY DEF TypeOK, ArgOK, StagesOK, StageOK, Methods, Creating
<1>3. MutexOK'
  BY DEF TypeOK, MutexOK, Methods, Creating
<1>4. PoolOK'
  BY DEF TypeOK, MutexOK, PoolOK, AtMostOneAgreement, Methods, Creating
<1>5. EventsOK'
  BY DEF TypeOK, ArgOK, EventsOK, EventsConsistent, StagesOK, StageOK, PoolOK, Creating
<1>6. StagesOK'
  BY DEF TypeOK, ArgOK, MutexOK, EventsOK, EventsConsistent, StagesOK, StageOK, Methods, Creating
<1>7. WorkersOK'
  BY DEF WorkersOK
<1> QED
  BY <1>1, <1>2, <1>3, <1>4, <1>5, <1>6, <1>7

LEMMA StepReleaseAgreement == ASSUME IInv, UNCHANGED repaired, NEW c \in Callers, ReleaseAgreement(c) PROVE IInv'
<1> USE DEF IInv, At, InPool, pool, outside
<1>1. /\ pc[c] = "release"
      /\ log = c
      /\ UNCHANGED <<todo, offerBuffer, agreements, workerTask, hasMultiActivity,
                     confirmed, emitted, remote, tasks, crashed>>
  BY DEF ReleaseAgreement
<1>2. \E started \in SUBSET Terminators :
         /\ ReturnStarting(c, started)
         /\ started # {} => arg[c] \in agreements
         /\ \A g \in started : pc[g] = "idle"
  <2>1. CASE ReturnStarting(c, {})
    <3>1. {} \in SUBSET Terminators
      OBVIOUS
    <3> QED
      BY <2>1, <3>1
  <2>2. CASE arg[c] \in agreements /\ \E g \in Terminators : pc[g] = "idle" /\ ReturnStarting(c, {g})
    <3>1. PICK g \in Terminators : pc[g] = "idle" /\ ReturnStarting(c, {g})
      BY <2>2
    <3>2. {g} \in SUBSET Terminators /\ \A h \in {g} : pc[h] = "idle"
      BY <3>1
    <3> QED
      BY <2>2, <3>1, <3>2
  <2> QED
    BY <2>1, <2>2 DEF ReleaseAgreement
<1>3. /\ log' = None
      /\ pc'[c] \in {"idle", "cycle"} /\ arg'[c] = None
      /\ \A d \in Callers \ {c} : pc'[d] = pc[d] /\ arg'[d] = arg[d]
      /\ \A g \in Terminators :
            \/ pc'[g] = pc[g] /\ arg'[g] = arg[g]
            \/ pc'[g] = "lookup" /\ arg'[g] = arg[c] /\ arg[c] \in agreements
      /\ pc' \in [Goroutines -> CallerLabels \cup TerminatorLabels]
      /\ arg' \in [Goroutines -> Ids \cup Issuers \cup {None}]
  BY <1>2 DEF ReturnStarting, TypeOK, CallerLabels, TerminatorLabels
<1>4. \A d \in Callers \ {c} : pc[d] \notin Creating \cup {"callback"}
  BY <1>1 DEF MutexOK
<1>5. TypeOK'
  BY <1>1, <1>3 DEF TypeOK, CallerLabels, TerminatorLabels
<1>6. ArgOK'
  BY <1>1, <1>3 DEF TypeOK, ArgOK, EventsOK
<1>7. MutexOK' /\ PoolOK' /\ StagesOK'
  BY <1>1, <1>3, <1>4 DEF MutexOK, PoolOK, AtMostOneAgreement, StagesOK, StageOK, Creating
<1>8. EventsOK' /\ WorkersOK'
  BY <1>1 DEF EventsOK, EventsConsistent, WorkersOK
<1> QED
  BY <1>5, <1>6, <1>7, <1>8

LEMMA StepTerminateAll == ASSUME IInv, UNCHANGED repaired, NEW c \in Callers, TerminateAll(c) PROVE IInv'
<1>1. Goto(c, "idle", None) /\ log = c /\ log' = None
  BY DEF TerminateAll, At, Return
<1> QED
  BY <1>1, CallerMoves DEF TerminateAll, IInv, TypeOK, CallerLabels, Methods, Creating

LEMMA StepOnAgreementTerminated == ASSUME IInv, UNCHANGED repaired, NEW c \in Callers, OnAgreementTerminated(c) PROVE IInv'
<1> USE DEF IInv, OnAgreementTerminated, Emit, Goto, Return, At, InPool,
           Remove
<1>1. TypeOK'
  BY DEF TypeOK, ArgOK, CallerLabels, TerminatorLabels, Methods, Creating, RemoteStates, Events
<1>2. ArgOK'
  BY DEF TypeOK, ArgOK, StagesOK, StageOK, Methods, Creating
<1>3. MutexOK'
  BY DEF TypeOK, MutexOK, Methods, Creating
<1>4. PoolOK'
  BY DEF TypeOK, MutexOK, PoolOK, AtMostOneAgreement, Methods, Creating
<1>5. EventsOK'
  BY DEF TypeOK, ArgOK, EventsOK, EventsConsistent, StagesOK, StageOK, PoolOK, Creating
<1>6. StagesOK'
  BY DEF TypeOK, ArgOK, MutexOK, EventsOK, EventsConsistent, StagesOK, StageOK, Methods, Creating
<1>7. WorkersOK'
  BY DEF WorkersOK
<1> QED
  BY <1>1, <1>2, <1>3, <1>4, <1>5, <1>6, <1>7

LEMMA StepSnapshot == ASSUME IInv, UNCHANGED repaired, NEW c \in Callers, Snapshot(c) PROVE IInv'
<1>1. todo' \in [Callers -> SUBSET Ids] /\ crashed' \in BOOLEAN
  BY DEF Snapshot, IInv, TypeOK
<1>2. log' = log /\ UNCHANGED <<pool, outside>>
  BY DEF Snapshot
<1>3. {"idle", "cycle"} \subseteq CallerLabels \ (Creating \cup {"callback"})
  BY DEF CallerLabels, Methods, Creating
<1>4. CASE Goto(c, "idle", None)
  BY <1>1, <1>2, <1>3, <1>4, CallerMoves
<1>5. CASE Goto(c, "cycle", None)
  BY <1>1, <1>2, <1>3, <1>5, CallerMoves DEF Goto
<1> QED
  BY <1>4, <1>5 DEF Snapshot

LEMMA StepCycle == ASSUME IInv, UNCHANGED repaired, NEW c \in Callers, Cycle(c) PROVE IInv'
<1>1. todo' \in [Callers -> SUBSET Ids] /\ crashed' \in BOOLEAN
  BY DEF Cycle, IInv, TypeOK
<1>2. PICK a \in todo[c] : IF CycleReleases(a) THEN Goto(c, "release", a)
                           ELSE Goto(c, IF todo[c] = {a} THEN "idle" ELSE "cycle", None)
  BY DEF Cycle
<1>3. a \in Ids
  BY DEF IInv, TypeOK
<1>4. {"release", "idle", "cycle"} \subseteq CallerLabels \ (Creating \cup {"callback"})
  BY DEF CallerLabels, Methods, Creating
<1>5. CASE Goto(c, "release", a)
  BY <1>1, <1>3, <1>4, <1>5, CallerMoves DEF Cycle
<1>6. CASE Goto(c, "idle", None)
  BY <1>1, <1>4, <1>6, CallerMoves DEF Cycle
<1>7. CASE Goto(c, "cycle", None)
  BY <1>1, <1>4, <1>7, CallerMoves DEF Cycle
<1> QED
  BY <1>2, <1>5, <1>6, <1>7

LEMMA StepLookup == ASSUME IInv, UNCHANGED repaired, NEW g \in Terminators, Lookup(g) PROVE IInv'
<1> USE DEF IInv, Lookup, pool, outside, Goto, InPool
<1>0. \A p \in Goroutines \ {g} : pc'[p] = pc[p] /\ arg'[p] = arg[p]
  BY DEF TypeOK
<1>1. TypeOK'
  BY DEF TypeOK, ArgOK, CallerLabels, TerminatorLabels, Methods, Creating, RemoteStates, Events
<1>2. ArgOK'
  BY <1>0 DEF TypeOK, ArgOK, EventsOK
<1>3. MutexOK'
  BY DEF TypeOK, MutexOK, Methods, Creating
<1>4. PoolOK'
  BY DEF TypeOK, MutexOK, PoolOK, AtMostOneAgreement, Methods, Creating
<1>5. EventsOK'
  BY DEF TypeOK, ArgOK, EventsOK, EventsConsistent, StagesOK, StageOK, PoolOK, Creating
<1>6. StagesOK'
  BY <1>0 DEF StagesOK, StageOK
<1>7. WorkersOK'
  BY DEF WorkersOK
<1> QED
  BY <1>1, <1>2, <1>3, <1>4, <1>5, <1>6, <1>7

LEMMA StepTerminatorDetails == ASSUME IInv, UNCHANGED repaired, NEW g \in Terminators, TerminatorDetails(g) PROVE IInv'
<1> USE DEF IInv, TerminatorDetails, pool, outside, Goto, ExtractWorks
<1>0. \A p \in Goroutines \ {g} : pc'[p] = pc[p] /\ arg'[p] = arg[p]
  BY DEF TypeOK
<1>1. TypeOK'
  <2>1. pc'[g] \in TerminatorLabels /\ arg'[g] = arg[g] /\ crashed' \in BOOLEAN
    BY DEF TypeOK, TerminatorLabels
  <2>2. /\ pc' \in [Goroutines -> CallerLabels \cup TerminatorLabels]
        /\ arg' \in [Goroutines -> Ids \cup Issuers \cup {None}]
    BY DEF TypeOK, TerminatorLabels
  <2> QED
    BY <1>0, <2>1, <2>2 DEF TypeOK
<1>2. ArgOK'
  BY DEF TypeOK, ArgOK, StagesOK, StageOK, Methods, Creating
<1>3. MutexOK'
  BY DEF TypeOK, MutexOK, Methods, Creating
<1>4. PoolOK'
  BY DEF TypeOK, MutexOK, PoolOK, AtMostOneAgreement, Methods, Creating
<1>5. EventsOK'
  BY DEF TypeOK, ArgOK, EventsOK, EventsConsistent, StagesOK, StageOK, PoolOK, Creating
<1>6. StagesOK'
  BY DEF TypeOK, ArgOK, MutexOK, EventsOK, EventsConsistent, StagesOK, StageOK, Methods, Creating
<1>7. WorkersOK'
  BY DEF WorkersOK
<1> QED
  BY <1>1, <1>2, <1>3, <1>4, <1>5, <1>6, <1>7

LEMMA StepTerminate == ASSUME IInv, UNCHANGED repaired, NEW g \in Terminators, Terminate(g) PROVE IInv'
<1> USE DEF IInv, Terminate, pool, Goto, LoggerWorks
<1>1. TypeOK'
  BY DEF TypeOK, ArgOK, CallerLabels, TerminatorLabels, Methods, Creating, RemoteStates, Events
<1>2. ArgOK'
  BY DEF TypeOK, ArgOK, StagesOK, StageOK, Methods, Creating
<1>3. MutexOK'
  BY DEF TypeOK, MutexOK, Methods, Creating
<1>4. PoolOK'
  BY DEF TypeOK, MutexOK, PoolOK, AtMostOneAgreement, Methods, Creating
<1>5. EventsOK'
  <2>1. arg[g] \in Ids /\ <<"confirmed", arg[g]>> \in emitted
    BY DEF ArgOK
  <2>2. \A a \in Ids : remote'[a] # remote[a] => a = arg[g] /\ remote'[a] = "terminated"
    BY <2>1 DEF TypeOK
  <2> QED
    BY <2>1, <2>2 DEF EventsOK, EventsConsistent
<1>6. StagesOK'
  BY DEF TypeOK, ArgOK, MutexOK, EventsOK, EventsConsistent, StagesOK, StageOK, Methods, Creating
<1>7. WorkersOK'
  BY DEF WorkersOK
<1> QED
  BY <1>1, <1>2, <1>3, <1>4, <1>5, <1>6, <1>7

LEMMA StepDelete == ASSUME IInv, UNCHANGED repaired, NEW g \in Terminators, Delete(g) PROVE IInv'
<1> USE DEF IInv, Delete, Emit, Goto, Remove
<1>0. \A p \in Goroutines \ {g} : pc'[p] = pc[p] /\ arg'[p] = arg[p]
  BY DEF TypeOK
<1>1. TypeOK'
  <2>1. pc'[g] \in TerminatorLabels
    BY DEF TypeOK, TerminatorLabels
  <2>2. /\ pc' \in [Goroutines -> CallerLabels \cup TerminatorLabels]
        /\ arg' \in [Goroutines -> Ids \cup Issuers \cup {None}]
    BY DEF TypeOK, TerminatorLabels
  <2>3. <<"terminated", arg[g]>> \in Events
    BY DEF ArgOK, Events
  <2> QED
    BY <1>0, <2>1, <2>2, <2>3 DEF TypeOK
<1>2. ArgOK'
  BY DEF TypeOK, ArgOK, StagesOK, StageOK, Methods, Creating
<1>3. MutexOK'
  BY DEF TypeOK, MutexOK, Methods, Creating
<1>4. PoolOK'
  BY DEF TypeOK, MutexOK, PoolOK, AtMostOneAgreement, Methods, Creating
<1>5. EventsOK'
  BY DEF TypeOK, ArgOK, EventsOK, EventsConsistent, StagesOK, StageOK, PoolOK, Creating
<1>6. StagesOK'
  BY DEF TypeOK, ArgOK, MutexOK, EventsOK, EventsConsistent, StagesOK, StageOK, Methods, Creating
<1>7. WorkersOK'
  BY DEF WorkersOK
<1> QED
  BY <1>1, <1>2, <1>3, <1>4, <1>5, <1>6, <1>7

LEMMA StepProvider == ASSUME IInv, UNCHANGED repaired, NEW a \in Ids, Provider(a) PROVE IInv'
<1> USE DEF IInv, Provider, local, pool
<1>1. TypeOK'
  BY DEF TypeOK, ArgOK, CallerLabels, TerminatorLabels, Methods, Creating, RemoteStates, Events
<1>2. ArgOK'
  BY DEF TypeOK, ArgOK, StagesOK, StageOK, Methods, Creating
<1>3. MutexOK'
  BY DEF TypeOK, MutexOK, Methods, Creating
<1>4. PoolOK'
  BY DEF TypeOK, MutexOK, PoolOK, AtMostOneAgreement, Methods, Creating
<1>5. EventsOK'
  <2>1. \A b \in Ids : remote'[b] # remote[b] =>
            \/ remote[b] = "pending" /\ remote'[b] \in {"approved", "rejected"}
            \/ remote[b] = "approved" /\ remote'[b] = "terminated"
    BY DEF TypeOK
  <2> QED
    BY <2>1 DEF EventsOK, EventsConsistent
<1>6. StagesOK'
  BY DEF TypeOK, ArgOK, MutexOK, EventsOK, EventsConsistent, StagesOK, StageOK, Methods, Creating
<1>7. WorkersOK'
  BY DEF WorkersOK
<1> QED
  BY <1>1, <1>2, <1>3, <1>4, <1>5, <1>6, <1>7

LEMMA StepConcurrentMapThrow == ASSUME IInv, UNCHANGED repaired, ConcurrentMapThrow PROVE IInv'
<1> USE DEF IInv, ConcurrentMapThrow, local, pool, outside
<1>1. TypeOK'
  BY DEF TypeOK, ArgOK, CallerLabels, TerminatorLabels, Methods, Creating, RemoteStates, Events
<1>2. ArgOK'
  BY DEF TypeOK, ArgOK, StagesOK, StageOK, Methods, Creating
<1>3. MutexOK'
  BY DEF TypeOK, MutexOK, Methods, Creating
<1>4. PoolOK'
  BY DEF TypeOK, MutexOK, PoolOK, AtMostOneAgreement, Methods, Creating
<1>5. EventsOK'
  BY DEF TypeOK, ArgOK, EventsOK, EventsConsistent, StagesOK, StageOK, PoolOK, Creating
<1>6. StagesOK'
  BY DEF TypeOK, ArgOK, MutexOK, EventsOK, EventsConsistent, StagesOK, StageOK, Methods, Creating
<1>7. WorkersOK'
  BY DEF WorkersOK
<1> QED
  BY <1>1, <1>2, <1>3, <1>4, <1>5, <1>6, <1>7

\* Every step preserves the invariant.
LEMMA NextIInv == IInv /\ [Next]_vars => IInv'
<1> SUFFICES ASSUME IInv, [Next]_vars PROVE IInv'
  OBVIOUS
<1>1. ASSUME UNCHANGED repaired, NEW c \in Callers, CallerStep(c) PROVE IInv'
  <2>1. CASE Call(c) \/ Lock(c) \/ TaskEnds(c)
    BY <1>1, <2>1, StepCall, StepLock, StepTaskEnds
  <2>2. CASE Method(c)
    BY <1>1, <2>2, StepAddProposal, StepReuseAgreement, StepTakeOffer, StepNoOffer,
       StepCreateAgreement, StepSelect, StepDetails, StepConfirm, StepApproval,
       StepRecord, StepCallback, StepReleaseAgreement, StepTerminateAll,
       StepOnAgreementTerminated, StepSnapshot, StepCycle
    DEF Method
  <2> QED
    BY <1>1, <2>1, <2>2 DEF CallerStep
<1>2. ASSUME UNCHANGED repaired, NEW g \in Terminators, TerminateAgreement(g) PROVE IInv'
  BY <1>2, StepLookup, StepTerminatorDetails, StepTerminate, StepDelete DEF TerminateAgreement
<1>3. ASSUME UNCHANGED repaired, NEW a \in Ids, Provider(a) PROVE IInv'
  BY <1>3, StepProvider
<1>4. CASE UNCHANGED vars
  BY <1>4 DEF vars, IInv, TypeOK, ArgOK, MutexOK, PoolOK, AtMostOneAgreement, EventsOK,
     EventsConsistent, StagesOK, StageOK, WorkersOK
<1> QED
  BY <1>1, <1>2, <1>3, <1>4, StepConcurrentMapThrow DEF Next

-----------------------------------------------------------------------------
\* The inductive invariant holds in every behaviour, fair or not.
THEOREM Invariance == Spec => []IInv
<1> QED
  BY InitIInv, NextIInv, PTL DEF Spec

\* Every variable keeps its type: in particular arg always names an agreement
\* where the code uses it as one, and no event names anything else.
THEOREM TypeCorrect == Spec => []TypeOK
<1>1. IInv => TypeOK
  BY DEF IInv
<1> QED
  BY <1>1, Invariance, PTL

\* The pool never holds two agreements, however many callers there are.
THEOREM OneAgreement == Spec => []AtMostOneAgreement
<1>1. IInv => AtMostOneAgreement
  BY DEF IInv, PoolOK
<1> QED
  BY <1>1, Invariance, PTL

\* An agreement reported as terminated never comes back.
THEOREM NoReturn == Spec => []TerminatedStaysOut
<1>1. IInv => TerminatedStaysOut
  BY DEF IInv, EventsOK, TerminatedStaysOut
<1> QED
  BY <1>1, Invariance, PTL

\* Listeners hear of each agreement in an order that makes sense.
THEOREM ConsistentEvents == Spec => []EventsConsistent
<1>1. IInv => EventsConsistent
  BY DEF IInv, EventsOK
<1> QED
  BY <1>1, Invariance, PTL

\* A callback gets an approved agreement that is, or was, in the pool.
THEOREM CallbackOnPooled == Spec => []CallbackAgreementWasPooled
<1>1. IInv => CallbackAgreementWasPooled
  BY DEF IInv, ArgOK, EventsOK, StagesOK, StageOK, CallbackAgreementWasPooled
<1> QED
  BY <1>1, Invariance, PTL

\* Methods that take the mutex never race on the map.
THEOREM LockedMethodsDoNotRace == Spec => []MapRacesAreUnlocked
<1>1. IInv => MapRacesAreUnlocked
  BY DEF IInv, TypeOK, MutexOK, MapRacesAreUnlocked, Conflict, MapWriters, MapReaders, At,
     Creating, Methods, CallerLabels, TerminatorLabels
<1> QED
  BY <1>1, Invariance, PTL

\* A caller's step leaves the other callers where they are.
LEMMA OtherCallersStay ==
  ASSUME IInv, NEW d \in Callers, CallerStep(d), NEW c \in Callers, c # d
  PROVE  pc'[c] = pc[c] /\ arg'[c] = arg[c]
<1>1. CASE Call(d) \/ Lock(d) \/ TaskEnds(d)
  BY <1>1 DEF Call, Lock, TaskEnds, Goto, IInv, TypeOK, local
<1>2. CASE Method(d)
  BY <1>2 DEF Method, AddProposal, ReuseAgreement, TakeOffer, NoOffer, CreateAgreement,
     Select, Details, Confirm, ConfirmFails, Approval, Record, Callback, ReleaseAgreement,
     ReturnStarting, TerminateAll, OnAgreementTerminated, Snapshot, Cycle, Panic, Return,
     Goto, IInv, TypeOK
<1> QED
  BY <1>1, <1>2 DEF CallerStep

\* Cycle never releases an agreement.
THEOREM CycleIsIdle == Spec => CycleNeverReleases
<1>1. ASSUME IInv, Next, NEW c \in Callers, pc[c] = "cycle" PROVE pc'[c] # "release"
  <2>1. CASE CallerStep(c)
    <3>1. Cycle(c) \/ TaskEnds(c)
      BY <1>1, <2>1 DEF CallerStep, Call, Lock, Method, Methods, At, AddProposal,
         ReuseAgreement, TakeOffer, NoOffer, CreateAgreement, Select, Details, Confirm,
         Approval, Record, Callback, ReleaseAgreement, TerminateAll,
         OnAgreementTerminated, Snapshot
    <3>2. ASSUME NEW a \in todo[c] PROVE ~CycleReleases(a)
      BY <1>1 DEF IInv, TypeOK, WorkersOK, CycleReleases
    <3> QED
      BY <1>1, <3>1, <3>2 DEF Cycle, TaskEnds, Goto, IInv, TypeOK, local
  <2>2. ASSUME NEW d \in Callers, d # c, CallerStep(d) PROVE pc'[c] = pc[c]
    BY <1>1, <2>2, OtherCallersStay
  <2>3. ASSUME NEW g \in Terminators, TerminateAgreement(g) PROVE pc'[c] = pc[c]
    BY <1>1, <2>3 DEF TerminateAgreement, Lookup, TerminatorDetails, Terminate, Delete, Goto,
       IInv, TypeOK
  <2> QED
    BY <1>1, <2>1, <2>2, <2>3 DEF Next, Provider, ConcurrentMapThrow, local
<1>2. IInv /\ [Next]_vars => [\A c \in Callers : pc[c] = "cycle" => pc'[c] # "release"]_vars
  BY <1>1 DEF vars
<1> QED
  BY <1>2, Invariance, PTL DEF Spec, CycleNeverReleases

-----------------------------------------------------------------------------
(* The pool implements the ledger of events. *)

\* A step after which neither the pool nor any agreement's events differ.
Quiet ==
    /\ agreements' = agreements
    /\ \A k \in {"created", "confirmed", "rejected", "terminated"}, a \in Ids :
          <<k, a>> \in emitted' <=> <<k, a>> \in emitted

LEMMA QuietStutters == ASSUME Quiet PROVE UNCHANGED Ledger!vars
<1>1. \A a \in Ids : Life(a)' = Life(a)
  BY DEF Quiet, Life
<1> QED
  BY <1>1 DEF Quiet, Ledger!vars

\* The only events that matter to the ledger, and the steps that emit them.
LEMMA LedgerSteps ==
  ASSUME IInv, Next
  PROVE  \/ Quiet
         \/ \E c \in Callers : \/ Details(c) /\ emitted' = emitted \cup {<<"created", arg[c]>>}
                               \/ /\ Confirm(c) \/ Approval(c)
                                  /\ LoggerWorks
                                  /\ emitted' = emitted \cup {<<"rejected", arg[c]>>}
                               \/ Record(c)
                               \/ OnAgreementTerminated(c)
         \/ \E g \in Terminators : Delete(g)
<1>1. ASSUME emitted' = emitted, agreements' = agreements PROVE Quiet
  BY <1>1 DEF Quiet
<1>2. ASSUME NEW c \in Callers, CallerStep(c),
             ~(Record(c) \/ OnAgreementTerminated(c))
      PROVE  agreements' = agreements /\
             \/ emitted' = emitted
             \/ Select(c) /\ emitted' = emitted \cup {<<"failed", arg[c]>>}
             \/ Details(c) /\ emitted' = emitted \cup {<<"created", arg[c]>>}
             \/ /\ Confirm(c) \/ Approval(c)
                /\ LoggerWorks
                /\ emitted' = emitted \cup {<<"rejected", arg[c]>>}
  BY <1>2 DEF CallerStep, Call, Lock, TaskEnds, Method, AddProposal, ReuseAgreement, TakeOffer,
     NoOffer, CreateAgreement, Select, Details, Confirm, ConfirmFails, Approval, Callback,
     ReleaseAgreement, TerminateAll, Snapshot, Cycle, Emit, pool, outside
<1>3. ASSUME NEW c \in Callers, agreements' = agreements,
             emitted' = emitted \cup {<<"failed", arg[c]>>}
      PROVE  Quiet
  BY <1>3 DEF Quiet
<1>4. ASSUME NEW g \in Terminators, TerminateAgreement(g), ~Delete(g) PROVE Quiet
  BY <1>1, <1>4 DEF TerminateAgreement, Lookup, TerminatorDetails, Terminate, pool, outside
<1>5. ASSUME ConcurrentMapThrow \/ \E a \in Ids : Provider(a) PROVE Quiet
  BY <1>1, <1>5 DEF ConcurrentMapThrow, Provider, pool, outside
<1> QED
  BY <1>1, <1>2, <1>3, <1>4, <1>5 DEF Next

\* An event about one agreement changes that one's life alone.
LEMMA EventChangesOneLife ==
  ASSUME NEW a \in Ids, NEW kind \in {"created", "confirmed", "rejected", "terminated"},
         emitted' = emitted \cup {<<kind, a>>},
         NEW new, Life(a)' = new
  PROVE  [b \in Ids |-> Life(b)]' = [[b \in Ids |-> Life(b)] EXCEPT ![a] = new]
<1>1. \A b \in Ids \ {a} : Life(b)' = Life(b)
  BY DEF Life
<1> QED
  BY <1>1

LEMMA LedgerInit == Init => Ledger!Init
BY DEF Init, Ledger!Init, Life

LEMMA LedgerStep == IInv /\ [Next]_vars => [Ledger!Next]_(Ledger!vars)
<1> SUFFICES ASSUME IInv, Next PROVE Ledger!Next \/ UNCHANGED Ledger!vars
  BY DEF vars, Ledger!vars, Life
<1> USE DEF Ledger!Next
<1>1. CASE Quiet
  BY <1>1, QuietStutters
<1>2. ASSUME NEW c \in Callers, Details(c), NEW a \in Ids, a = arg[c],
             emitted' = emitted \cup {<<"created", a>>}
      PROVE  Ledger!Next
  <2>1. /\ agreements = {} /\ agreements' = agreements
        /\ <<"created", a>> \notin emitted /\ <<"confirmed", a>> \notin emitted
        /\ <<"rejected", a>> \notin emitted /\ <<"terminated", a>> \notin emitted
    BY <1>2 DEF Details, IInv, PoolOK, EventsOK, EventsConsistent, StagesOK, StageOK,
       Creating, pool
  <2>2. Life(a) = "unknown" /\ Life(a)' = "created"
    BY <1>2, <2>1 DEF Life
  <2> QED
    BY <1>2, <2>1, <2>2, EventChangesOneLife DEF Ledger!Create
<1>3. ASSUME NEW c \in Callers, Confirm(c) \/ Approval(c), NEW a \in Ids, a = arg[c],
             emitted' = emitted \cup {<<"rejected", a>>}
      PROVE  Ledger!Next
  <2>1. /\ agreements = {} /\ agreements' = agreements
        /\ <<"created", a>> \in emitted /\ <<"confirmed", a>> \notin emitted
        /\ <<"rejected", a>> \notin emitted /\ <<"terminated", a>> \notin emitted
    BY <1>3 DEF Confirm, Approval, IInv, PoolOK, EventsOK, EventsConsistent, StagesOK, StageOK,
       Creating, pool
  <2>2. Life(a) = "created" /\ Life(a)' = "rejected"
    BY <1>3, <2>1 DEF Life
  <2> QED
    BY <1>3, <2>1, <2>2, EventChangesOneLife DEF Ledger!Reject
<1>4. ASSUME NEW c \in Callers, Record(c), NEW a \in Ids, a = arg[c] PROVE Ledger!Next
  <2>1. /\ agreements = {} /\ agreements' = {a}
        /\ emitted' = emitted \cup {<<"confirmed", a>>}
        /\ <<"created", a>> \in emitted /\ <<"confirmed", a>> \notin emitted
        /\ <<"rejected", a>> \notin emitted /\ <<"terminated", a>> \notin emitted
    BY <1>4 DEF Record, Emit, IInv, PoolOK, EventsOK, EventsConsistent, StagesOK, StageOK,
       Creating
  <2>2. Life(a) = "created" /\ Life(a)' = "held"
    BY <2>1 DEF Life
  <2> QED
    BY <2>1, <2>2, EventChangesOneLife DEF Ledger!Hold
<1>5. ASSUME NEW a \in Ids, <<"confirmed", a>> \in emitted, agreements' = agreements \ {a},
             emitted' = emitted \cup {<<"terminated", a>>}
      PROVE  Ledger!Next \/ Quiet
  <2>1. CASE <<"terminated", a>> \in emitted
    BY <1>5, <2>1 DEF IInv, EventsOK, Quiet
  <2>2. CASE <<"terminated", a>> \notin emitted
    <3>1. agreements' = {}
      <4>1. a \in agreements
        BY <1>5, <2>2 DEF IInv, EventsOK
      <4>2. \A b \in agreements : b = a
        BY <4>1 DEF IInv, PoolOK, AtMostOneAgreement
      <4> QED
        BY <1>5, <4>2
    <3>2. Life(a) = "held" /\ Life(a)' = "ended"
      BY <1>5, <2>2 DEF Life
    <3> QED
      BY <1>5, <3>1, <3>2, EventChangesOneLife DEF Ledger!End
  <2> QED
    BY <2>1, <2>2
<1>6. ASSUME NEW c \in Callers, OnAgreementTerminated(c) PROVE Ledger!Next \/ Quiet
  <2>1. CASE arg[c] \notin agreements
    BY <1>6, <2>1 DEF OnAgreementTerminated, InPool, Quiet
  <2>2. CASE arg[c] \in agreements
    BY <1>5, <1>6, <2>2 DEF OnAgreementTerminated, InPool, Remove, Emit, IInv, TypeOK, EventsOK
  <2> QED
    BY <2>1, <2>2
<1>7. ASSUME NEW g \in Terminators, Delete(g) PROVE Ledger!Next \/ Quiet
  BY <1>5, <1>7 DEF Delete, Remove, Emit, IInv, ArgOK
<1>8. \A c \in Callers : Details(c) \/ Confirm(c) \/ Approval(c) \/ Record(c) => arg[c] \in Ids
  BY DEF Details, Confirm, Approval, Record, IInv, ArgOK
<1> QED
  BY <1>1, <1>2, <1>3, <1>4, <1>6, <1>7, <1>8, LedgerSteps, QuietStutters

\* Whatever the goroutines do, a listener sees one agreement at a time.
THEOREM PoolImplementsLedger == Spec => ImplementsLedger
BY Invariance, LedgerInit, LedgerStep, PTL DEF Spec, ImplementsLedger, Ledger!Spec

-----------------------------------------------------------------------------
(* Nothing the provider approved is lost while agreements can log. *)

IsAccountedFor(a) ==
    \/ a \in agreements
    \/ \E c \in Callers : pc[c] \in {"approval", "record"} /\ arg[c] = a
    \/ <<"rejected", a>> \in emitted
    \/ <<"terminated", a>> \in emitted

\* An agreement is accounted for from the request to confirm it onwards.
AccountedOK ==
    "logger" \in repaired =>
        \A a \in Ids : remote[a] \in {"pending", "approved"} => IsAccountedFor(a)

LEMMA AccountedStep == ASSUME IInv, AccountedOK, [Next]_vars PROVE AccountedOK'
<1> SUFFICES ASSUME "logger" \in repaired, UNCHANGED repaired, Next,
                    NEW a \in Ids, remote'[a] \in {"pending", "approved"}
             PROVE  IsAccountedFor(a)'
  BY DEF AccountedOK, IsAccountedFor, Next, vars
<1>1. ASSUME NEW c \in Callers, Confirm(c), a = arg[c] PROVE IsAccountedFor(a)'
  BY <1>1 DEF IsAccountedFor, Confirm, ConfirmFails, LoggerWorks, Emit, Goto, IInv, TypeOK
<1>2. ASSUME NEW c \in Callers, Record(c) \/ Approval(c), a = arg[c] PROVE IsAccountedFor(a)'
  BY <1>2 DEF IsAccountedFor, Record, Approval, ConfirmFails, LoggerWorks, Emit, Goto, IInv, TypeOK
<1> DEFINE Same == /\ \A c \in Callers : pc[c] \in {"approval", "record"} /\ arg[c] = a =>
                         pc'[c] \in {"approval", "record"} /\ arg'[c] = a
                   /\ emitted \subseteq emitted'
                   /\ a \in agreements => a \in agreements' \/ <<"terminated", a>> \in emitted'
                   /\ remote[a] \in {"pending", "approved"}
<1>3. CASE Same
  BY <1>3 DEF AccountedOK, IsAccountedFor
<1>4. ASSUME NEW c \in Callers, CallerStep(c),
             ~((Confirm(c) \/ Record(c) \/ Approval(c)) /\ a = arg[c])
      PROVE  Same
  <2>1. \A d \in Callers \ {c} : pc'[d] = pc[d] /\ arg'[d] = arg[d]
    BY <1>4, OtherCallersStay
  <2>2. CASE Confirm(c) \/ Record(c) \/ Approval(c)
    BY <1>4, <2>1, <2>2 DEF Confirm, ConfirmFails, Record, Approval, Emit, IInv, TypeOK, pool
  <2>3. CASE ~(Confirm(c) \/ Record(c) \/ Approval(c) \/ TaskEnds(c))
    <3>1. pc[c] \notin {"approval", "record"}
      BY <1>4, <2>3 DEF CallerStep, Call, Lock, Methods, Method, At, AddProposal,
         ReuseAgreement, TakeOffer, NoOffer, CreateAgreement, Select, Details, Callback,
         ReleaseAgreement, TerminateAll, OnAgreementTerminated, Snapshot, Cycle
    <3>2. emitted \subseteq emitted' /\ (remote'[a] = remote[a] \/ remote'[a] = "created")
      BY <1>4, <2>3 DEF CallerStep, Call, Lock, TaskEnds, Method, AddProposal, ReuseAgreement,
         TakeOffer, NoOffer, CreateAgreement, Select, Details, Callback, ReleaseAgreement,
         TerminateAll, OnAgreementTerminated, Snapshot, Cycle, Emit, IInv, TypeOK, pool, outside
    <3>3. agreements' = agreements \/ OnAgreementTerminated(c)
      BY <1>4, <2>3 DEF CallerStep, Call, Lock, TaskEnds, Method, AddProposal, ReuseAgreement,
         TakeOffer, NoOffer, CreateAgreement, Select, Details, Callback, ReleaseAgreement,
         TerminateAll, Snapshot, Cycle, pool
    <3>4. a \in agreements => a \in agreements' \/ <<"terminated", a>> \in emitted'
      BY <3>3 DEF OnAgreementTerminated, Remove, Emit
    <3> QED
      BY <2>1, <3>1, <3>2, <3>4
  <2>4. CASE TaskEnds(c)
    BY <2>4 DEF TaskEnds, local, pool
  <2> QED
    BY <2>2, <2>3, <2>4
<1>5. ASSUME NEW g \in Terminators, TerminateAgreement(g) PROVE Same
  <2>1. \A c \in Callers : pc'[c] = pc[c] /\ arg'[c] = arg[c]
    BY <1>5 DEF TerminateAgreement, Lookup, TerminatorDetails, Terminate, Delete, Goto, IInv,
       TypeOK
  <2>2. CASE Delete(g)
    BY <2>1, <2>2 DEF Delete, Remove, Emit
  <2>3. CASE Lookup(g) \/ TerminatorDetails(g)
    BY <2>1, <2>3 DEF Lookup, TerminatorDetails, pool, outside
  <2>4. CASE Terminate(g)
    BY <2>1, <2>4 DEF Terminate, pool, IInv, TypeOK
  <2> QED
    BY <1>5, <2>2, <2>3, <2>4 DEF TerminateAgreement
<1>6. ASSUME ConcurrentMapThrow PROVE Same
  BY <1>6 DEF ConcurrentMapThrow, local, pool, outside
<1>7. ASSUME NEW b \in Ids, Provider(b) PROVE Same
  BY <1>7 DEF Provider, local, pool, IInv, TypeOK
<1> QED
  BY <1>1, <1>2, <1>3, <1>4, <1>5, <1>6, <1>7 DEF Next, CallerStep, Method

\* While agreements can log, no agreement the provider approved is lost.
THEOREM NoApprovedAgreementIsLost == Spec => []ApprovedIsAccountedFor
<1>1. Init => AccountedOK
  BY DEF Init, AccountedOK
<1>2. IInv /\ AccountedOK /\ [Next]_vars => AccountedOK'
  BY AccountedStep
<1>3. AccountedOK => ApprovedIsAccountedFor
  BY DEF AccountedOK, IsAccountedFor, ApprovedIsAccountedFor
<1> QED
  BY <1>1, <1>2, <1>3, Invariance, PTL DEF Spec

-----------------------------------------------------------------------------
(* What the defects keep the pool from doing. *)

\* Where events of two kinds come from.
LEMMA NewEvents ==
  ASSUME IInv, Next, NEW a \in Ids
  PROVE  /\ <<"confirmed", a>> \in emitted' =>
               <<"confirmed", a>> \in emitted \/ \E c \in Callers : Record(c)
         /\ <<"rejected", a>> \in emitted' => <<"rejected", a>> \in emitted \/ LoggerWorks
<1>1. CASE Quiet
  BY <1>1 DEF Quiet
<1>2. ASSUME NEW c \in Callers, Record(c)
      PROVE  <<"rejected", a>> \in emitted' => <<"rejected", a>> \in emitted
  BY <1>2 DEF Record, Emit
<1>3. ASSUME NEW x, emitted' \in {emitted, emitted \cup {<<"terminated", x>>},
                                 emitted \cup {<<"created", x>>}}
      PROVE  /\ <<"rejected", a>> \in emitted' => <<"rejected", a>> \in emitted
             /\ <<"confirmed", a>> \in emitted' => <<"confirmed", a>> \in emitted
  BY <1>3
<1>4. ASSUME NEW p \in Goroutines, OnAgreementTerminated(p) \/ Delete(p)
      PROVE  emitted' \in {emitted, emitted \cup {<<"terminated", arg[p]>>}}
  BY <1>4 DEF OnAgreementTerminated, Delete, Emit
<1> QED
  BY <1>1, <1>2, <1>3, <1>4, LedgerSteps

\* The label each defect keeps a caller from passing.
ReachOK ==
    /\ \A c \in Callers :
          /\ pc[c] \in {"select", "details", "confirm", "approval", "record"}
                => "offer" \in repaired
          /\ pc[c] \in {"details", "confirm", "approval", "record"} => "select" \in repaired
          /\ pc[c] \in {"confirm", "approval", "record"} => "extract" \in repaired
    /\ NothingIsConfirmed

LEMMA ReachStep == ASSUME IInv, ReachOK, [Next]_vars PROVE ReachOK'
<1> SUFFICES ASSUME UNCHANGED repaired, Next PROVE ReachOK'
  BY DEF ReachOK, NothingIsConfirmed, Next, vars
<1>1. NothingIsConfirmed'
  <2>1. ASSUME NEW c \in Callers, Record(c) PROVE NothingIsConfirmed'
    BY <2>1 DEF ReachOK, NothingIsConfirmed, Record
  <2> QED
    BY <2>1, NewEvents DEF ReachOK, NothingIsConfirmed
<1>2. ASSUME NEW c \in Callers, CallerStep(c) PROVE ReachOK'
  <2>1. \/ pc'[c] \notin {"select", "details", "confirm", "approval", "record"}
        \/ pc'[c] = pc[c]
        \/ CreateAgreement(c) /\ "offer" \in repaired /\ pc'[c] = "select"
        \/ Select(c) /\ "select" \in repaired /\ pc[c] = "select" /\ pc'[c] = "details"
        \/ Details(c) /\ "extract" \in repaired /\ pc[c] = "details" /\ pc'[c] = "confirm"
        \/ pc[c] = "confirm" /\ pc'[c] = "approval"
        \/ pc[c] = "approval" /\ pc'[c] = "record"
    <3>1. CASE Call(c) \/ Lock(c) \/ TaskEnds(c)
      BY <3>1 DEF Call, Lock, TaskEnds, Goto, local, IInv, TypeOK
    <3>2. CASE CreateAgreement(c) \/ Select(c) \/ Details(c)
      BY <3>2 DEF CreateAgreement, Select, SelectPasses, Details, ExtractWorks, Panic, Return,
         Goto, IInv, TypeOK
    <3>3. CASE Confirm(c) \/ Approval(c) \/ Record(c) \/ Callback(c)
      BY <3>3 DEF Confirm, ConfirmFails, Approval, Record, Callback, Panic, Return, Goto, IInv,
         TypeOK
    <3>4. CASE AddProposal(c) \/ ReuseAgreement(c) \/ TakeOffer(c) \/ NoOffer(c)
      BY <3>4 DEF AddProposal, ReuseAgreement, TakeOffer, NoOffer, Panic, Return, Goto, IInv,
         TypeOK
    <3>5. CASE ReleaseAgreement(c)
      BY <3>5 DEF ReleaseAgreement, ReturnStarting
    <3>6. CASE TerminateAll(c) \/ OnAgreementTerminated(c) \/ Snapshot(c) \/ Cycle(c)
      BY <3>6 DEF TerminateAll, OnAgreementTerminated, Snapshot, Cycle, Return, Goto, IInv,
         TypeOK
    <3> QED
      BY <1>2, <3>1, <3>2, <3>3, <3>4, <3>5, <3>6 DEF CallerStep, Method
  <2> QED
    BY <1>1, <1>2, <2>1, OtherCallersStay DEF ReachOK
<1>3. ASSUME NEW g \in Terminators, TerminateAgreement(g) PROVE ReachOK'
  <2>1. \A c \in Callers : pc'[c] = pc[c]
    <3>1. g \notin Callers
      BY PoolAssumption
    <3> QED
      BY <1>3, <3>1 DEF TerminateAgreement, Lookup, TerminatorDetails, Terminate, Delete, Goto,
         IInv, TypeOK
  <2> QED
    BY <1>1, <2>1 DEF ReachOK
<1>4. ASSUME ConcurrentMapThrow \/ \E a \in Ids : Provider(a) PROVE ReachOK'
  BY <1>1, <1>4 DEF ConcurrentMapThrow, Provider, local, ReachOK
<1> QED
  BY <1>2, <1>3, <1>4 DEF Next

\* With any one of the first three defects no agreement is ever confirmed.
THEOREM DefectsBlockConfirmation == Spec => []NothingIsConfirmed
<1>1. Init => ReachOK
  BY DEF Init, ReachOK, NothingIsConfirmed
<1>2. IInv /\ ReachOK /\ [Next]_vars => ReachOK'
  BY ReachStep
<1>3. ReachOK => NothingIsConfirmed
  BY DEF ReachOK
<1> QED
  BY <1>1, <1>2, <1>3, Invariance, PTL DEF Spec

\* Without a logger no listener hears of a rejection.
THEOREM NoLoggerNoRejection == Spec => []NoRejectionIsReported
<1>1. Init => NoRejectionIsReported
  BY DEF Init, NoRejectionIsReported
<1>2. IInv /\ NoRejectionIsReported /\ [Next]_vars => NoRejectionIsReported'
  <2> SUFFICES ASSUME IInv, NoRejectionIsReported, UNCHANGED repaired, Next
               PROVE  NoRejectionIsReported'
    BY DEF NoRejectionIsReported, Next, vars
  <2> QED
    BY NewEvents DEF NoRejectionIsReported, LoggerWorks
<1> QED
  BY <1>1, <1>2, Invariance, PTL DEF Spec

-----------------------------------------------------------------------------
(* The select that waits for ever. *)

\* Only the holder of the mutex gives it away.
LEMMA HolderKeepsMutex ==
  ASSUME IInv, NEW c \in Callers, log = c, NEW d \in Callers, d # c, CallerStep(d)
  PROVE  log' = log
<1>1. CASE Call(d) \/ Lock(d) \/ TaskEnds(d)
  BY <1>1 DEF Call, Lock, MutexFree, TaskEnds
<1>2. CASE Method(d)
  <2>1. pc[d] \notin Creating \cup {"callback"} /\ log # d
    BY DEF IInv, MutexOK
  <2>2. Snapshot(d) \/ Cycle(d)
    BY <1>2, <2>1 DEF Method, At, AddProposal, ReuseAgreement, TakeOffer, NoOffer,
       CreateAgreement, Select, Details, Confirm, Approval, Record, Callback,
       ReleaseAgreement, TerminateAll, OnAgreementTerminated, Creating
  <2> QED
    BY <2>2 DEF Snapshot, Cycle
<1> QED
  BY <1>1, <1>2 DEF CallerStep

\* With the select as it is, the caller that reaches it never leaves it, and
\* nobody else gets the mutex.
THEOREM SelectHangs == Spec => HungCallKeepsMutex
<1>1. ASSUME IInv, Next, NEW c \in Callers, pc[c] = "select", "select" \notin repaired
      PROVE  pc'[c] = "select" /\ log' = c
  <2>1. log = c
    BY <1>1 DEF IInv, MutexOK, Creating
  <2>2. CASE CallerStep(c)
    <3>1. TaskEnds(c)
      BY <1>1, <2>2 DEF CallerStep, Call, Lock, Methods, Method, At, AddProposal,
         ReuseAgreement, TakeOffer, NoOffer, CreateAgreement, Select, SelectPasses, Details,
         Confirm, Approval, Record, Callback, ReleaseAgreement, TerminateAll,
         OnAgreementTerminated, Snapshot, Cycle
    <3> QED
      BY <1>1, <2>1, <3>1 DEF TaskEnds, local
  <2>3. ASSUME NEW d \in Callers, d # c, CallerStep(d) PROVE pc'[c] = pc[c] /\ log' = log
    BY <1>1, <2>1, <2>3, OtherCallersStay, HolderKeepsMutex
  <2>4. ASSUME NEW g \in Terminators, TerminateAgreement(g)
        PROVE  pc'[c] = pc[c] /\ log' = log
    BY <1>1, <2>4 DEF TerminateAgreement, Lookup, TerminatorDetails, Terminate, Delete, Goto,
       IInv, TypeOK
  <2> QED
    BY <1>1, <2>1, <2>2, <2>3, <2>4 DEF Next, Provider, ConcurrentMapThrow, local
<1>2. IInv /\ [Next]_vars =>
         [\A c \in Callers : pc[c] = "select" /\ "select" \notin repaired
                                => pc'[c] = "select" /\ log' = c]_vars
  BY <1>1 DEF vars
<1> QED
  BY <1>2, Invariance, PTL DEF Spec, HungCallKeepsMutex

==============================================================================

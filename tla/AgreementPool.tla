--------------------------- MODULE AgreementPool ---------------------------
(***************************************************************************)
(* The requestor's pool of agreements, pkg/util/agreements.go.             *)
(*                                                                         *)
(* Goroutines of the embedding program (Callers) run the pool's methods    *)
(* under its mutex, the field the code calls `log`; Cycle alone reads the  *)
(* pool without it.  ReleaseAgreement starts a goroutine (a Terminator)    *)
(* that runs terminateAgreement, again without the mutex.  Every request   *)
(* to the market service is a step of its own, so that the service, other  *)
(* goroutines and a panic can come between any two of them.                *)
(*                                                                         *)
(* Four defects each stop everything the code would do after them:         *)
(*   "offer"    Subscription.Events hands out offers without a             *)
(*              subscription, on which CreateAgreement dereferences nil    *)
(*              (market.go:304);                                           *)
(*   "select"   a select on the Done channel of context.TODO(), which is   *)
(*              nil, blocks for ever (agreements.go:144-147);              *)
(*   "extract"  props.Activity and props.NodeInfo embed a nil Model, on    *)
(*              which FromProperties calls CustomMapping (base.go:121);    *)
(*   "logger"   CreateAgreement leaves Agreement.logger nil, so that the   *)
(*              logging paths of Confirm and Terminate panic               *)
(*              (market.go:189-194).                                       *)
(* `repaired` holds those that a behaviour takes to be fixed: {} is the    *)
(* code as it stands.                                                      *)
(***************************************************************************)
EXTENDS Integers, FiniteSets

CONSTANTS
    Callers,      \* goroutines that call the pool's methods
    Terminators,  \* bound: goroutines terminateAgreement may run in at once
    Ids,          \* bound: agreement ids the market service can hand out
    Issuers,      \* providers that issue offers
    Scores,       \* scores of offers; 0 stands for one that `>` never ranks
                  \* (NaN, or below float32(math.MinInt64))
    None,         \* nil
    Repairs       \* the sets of defects to take to be fixed

ASSUME PoolAssumption ==
    /\ Callers \cap Terminators = {}
    /\ Ids \cap Issuers = {}
    /\ None \notin Callers \cup Terminators \cup Ids \cup Issuers \cup Scores
    /\ Scores \subseteq Nat

ASSUME RepairsAssumption == Repairs \subseteq SUBSET {"offer", "select", "extract", "logger"}

VARIABLES
    pc,               \* where each goroutine is
    arg,              \* the agreement (or, while it is created, the issuer)
                      \* each goroutine works on
    todo,             \* Cycle's agreementsFrozenSet, less the ids it visited
    log,              \* the mutex: its holder, or None
    offerBuffer,      \* the score of each issuer's buffered offer, or None
    agreements,       \* ids of the agreements in the pool
    workerTask,       \* the caller whose task an agreement records, or None
    hasMultiActivity, \* may the agreement run several activities?
    confirmed,        \* the pool's counter of confirmed agreements
    emitted,          \* the events handed to the emitter
    remote,           \* the agreements as the market service knows them
    tasks,            \* the agreement a caller's unfinished task runs on
    crashed,          \* has a panic or a runtime throw ended the process?
    repaired          \* the defects taken to be fixed, chosen once

local   == <<pc, arg, todo>>
pool    == <<offerBuffer, agreements, workerTask, hasMultiActivity, confirmed>>
outside == <<emitted, remote, tasks>>
vars    == <<pc, arg, todo, log, offerBuffer, agreements, workerTask,
             hasMultiActivity, confirmed, emitted, remote, tasks, crashed, repaired>>

Goroutines == Callers \cup Terminators

\* The methods that take the mutex first; a caller is at one of these labels
\* while it waits for the mutex and until the method's first step.
Methods == {"add", "use", "release", "terminate_all", "remove"}

\* The rest of UseAgreement up to its callback, always under the mutex.
Creating == {"create", "select", "details", "confirm", "approval", "record"}

CallerLabels == {"idle", "callback", "snapshot", "cycle"} \cup Methods \cup Creating
TerminatorLabels == {"idle", "lookup", "details", "terminate", "delete"}

RemoteStates == {"none", "created", "pending", "approved", "rejected", "terminated"}
Events == ({"created", "confirmed", "rejected", "terminated"} \X Ids)
             \cup ({"failed"} \X Issuers)

-----------------------------------------------------------------------------
(* NewAgreementPool: the counter starts at 1. *)
Init ==
    /\ pc = [p \in Goroutines |-> "idle"]
    /\ arg = [p \in Goroutines |-> None]
    /\ todo = [c \in Callers |-> {}]
    /\ log = None
    /\ offerBuffer = [i \in Issuers |-> None]
    /\ agreements = {}
    /\ workerTask = [a \in Ids |-> None]
    /\ hasMultiActivity = [a \in Ids |-> FALSE]
    /\ confirmed = 1
    /\ emitted = {}
    /\ remote = [a \in Ids |-> "none"]
    /\ tasks = [c \in Callers |-> None]
    /\ crashed = FALSE
    /\ repaired \in Repairs

Emit(kind, x) == emitted' = emitted \cup {<<kind, x>>}

Goto(p, label, x) ==
    /\ pc' = [pc EXCEPT ![p] = label]
    /\ arg' = [arg EXCEPT ![p] = x]

\* A method returns: `defer self.log.Unlock()`.  The mutant forgets it.
ReturnLocked(c) == Goto(c, "idle", None) /\ UNCHANGED log
Return(c) == Goto(c, "idle", None) /\ log' = None

\* A nil dereference in a method: the deferred unlock runs, and unless the
\* embedding program recovers (this repository never does) the process ends.
Panic(c) == Return(c) /\ crashed' \in BOOLEAN

-----------------------------------------------------------------------------
(* Calls.  A bound: a caller has one unfinished task at a time.  A caller    *)
(* releases an agreement it was told of.  onAgreementTerminated is for the   *)
(* market's AgreementTerminated event, and may see the pool's own as well.   *)
Call(c) ==
    /\ pc[c] = "idle"
    /\ \/ \E method \in {"add", "terminate_all", "snapshot"} : Goto(c, method, None)
       \/ tasks[c] = None /\ Goto(c, "use", None)
       \/ \E a \in Ids : <<"confirmed", a>> \in emitted /\ Goto(c, "release", a)
       \/ \E a \in Ids : /\ remote[a] = "terminated" \/ <<"terminated", a>> \in emitted
                         /\ Goto(c, "remove", a)
    /\ UNCHANGED <<todo, log, pool, outside, crashed>>

\* The mutant takes the mutex without waiting for it.
MutexIgnored == TRUE
MutexFree == log = None

Lock(c) ==
    /\ pc[c] \in Methods
    /\ MutexFree
    /\ log' = c
    /\ UNCHANGED <<local, pool, outside, crashed>>

\* c is in the first step of a method.
At(c, method) == pc[c] = method /\ log = c

\* The task a callback returned ends by itself.
TaskEnds(c) ==
    /\ tasks[c] # None
    /\ tasks' = [tasks EXCEPT ![c] = None]
    /\ UNCHANGED <<local, log, pool, emitted, remote, crashed>>

(* AddProposal: the issuer's newest offer replaces the one before it. *)
AddProposal(c) ==
    /\ At(c, "add")
    /\ \E i \in Issuers, s \in Scores : offerBuffer' = [offerBuffer EXCEPT ![i] = s]
    /\ Return(c)
    /\ UNCHANGED <<todo, agreements, workerTask, hasMultiActivity, confirmed,
                   outside, crashed>>

-----------------------------------------------------------------------------
(* UseAgreement and getAgreement. *)

\* Any agreement of the pool is used again, whatever runs on it already.
ReuseAgreement(c) ==
    /\ At(c, "use")
    /\ \E a \in agreements : Goto(c, "callback", a)
    /\ UNCHANGED <<todo, log, pool, outside, crashed>>

\* len(agreements) == 0.  The mutant looks for an offer in any case.
OffersFirst == TRUE
NothingToReuse == agreements = {}

\* The offers the loop over offerBuffer can end with.
BestOffers ==
    {i \in Issuers : /\ offerBuffer[i] \notin {None, 0}
                     /\ \A j \in Issuers : offerBuffer[j] # None
                                              => offerBuffer[j] <= offerBuffer[i]}

TakeOffer(c) ==
    /\ At(c, "use")
    /\ NothingToReuse
    /\ \E i \in BestOffers :
          /\ offerBuffer' = [offerBuffer EXCEPT ![i] = None]
          /\ Goto(c, "create", i)
    /\ UNCHANGED <<todo, log, agreements, workerTask, hasMultiActivity, confirmed,
                   outside, crashed>>

\* Without a best offer, bp is the zero value and bp.proposal is nil.
NoOffer(c) ==
    /\ At(c, "use")
    /\ NothingToReuse
    /\ BestOffers = {}
    /\ Panic(c)
    /\ UNCHANGED <<todo, pool, outside>>

\* The answer is kept in arg: the new agreement, or still the issuer when the
\* request failed (the agreement may exist all the same).
CreateAgreement(c) ==
    /\ pc[c] = "create"
    /\ \/ /\ "offer" \in repaired
          /\ \E a \in Ids : /\ remote[a] = "none"
                            /\ remote' = [remote EXCEPT ![a] = "created"]
                            /\ \E answer \in {a, arg[c]} : Goto(c, "select", answer)
          /\ UNCHANGED <<log, crashed>>
       \/ /\ "offer" \in repaired
          /\ Goto(c, "select", arg[c])
          /\ UNCHANGED <<log, remote, crashed>>
       \/ /\ "offer" \notin repaired
          /\ Panic(c)
          /\ UNCHANGED remote
    /\ UNCHANGED <<todo, pool, emitted, tasks>>

\* select { case <-ctx.Done(): } waits for ever.  The mutant has a default.
SelectDefaults == TRUE
SelectPasses == "select" \in repaired

\* CreateAgreement's err # nil.
CreationFailed(c) == arg[c] \in Issuers

Select(c) ==
    /\ pc[c] = "select"
    /\ SelectPasses
    /\ \/ /\ ~CreationFailed(c)
          /\ Goto(c, "details", arg[c])
          /\ UNCHANGED <<log, emitted>>
       \/ /\ CreationFailed(c)
          /\ Emit("failed", arg[c])
          /\ Return(c)
    /\ UNCHANGED <<todo, pool, remote, tasks, crashed>>

\* Does Extract survive a model with a nil Model?  It does in the mutant.
ExtractTolerates == TRUE
ExtractWorks == "extract" \in repaired

\* GetAgreement and the three Extract calls, any of which may fail.
Details(c) ==
    /\ pc[c] = "details"
    /\ \/ /\ ExtractWorks
          /\ Emit("created", arg[c])
          /\ Goto(c, "confirm", arg[c])
          /\ UNCHANGED <<log, crashed>>
       \/ Return(c) /\ UNCHANGED <<emitted, crashed>>
       \/ ~ExtractWorks /\ Panic(c) /\ UNCHANGED emitted
    /\ UNCHANGED <<todo, pool, remote, tasks>>

\* Can an Agreement log?
LoggerWorks == "logger" \in repaired

\* Confirm logs its error and returns it.  The mutant returns it without the
\* AgreementRejected event.
ConfirmFailsSilently(c) == Return(c) /\ UNCHANGED <<emitted, crashed>>
ConfirmFails(c) ==
    \/ LoggerWorks /\ Emit("rejected", arg[c]) /\ Return(c) /\ UNCHANGED crashed
    \/ ~LoggerWorks /\ Panic(c) /\ UNCHANGED emitted

\* ConfirmAgreement; its answer may be lost after the service acted on it.
Confirm(c) ==
    /\ pc[c] = "confirm"
    /\ \/ /\ remote' = [remote EXCEPT ![arg[c]] = "pending"]
          /\ Goto(c, "approval", arg[c])
          /\ UNCHANGED <<log, emitted, crashed>>
       \/ /\ remote' \in {remote, [remote EXCEPT ![arg[c]] = "pending"]}
          /\ ConfirmFails(c)
    /\ UNCHANGED <<todo, pool, tasks>>

\* WaitForApproval's err = nil.  The mutant does not look at it.
ApprovalAssumed(a) == TRUE
Approved(a) == remote[a] = "approved"

\* The client's own 16 seconds count even against an approval.
Approval(c) ==
    /\ pc[c] = "approval"
    /\ \/ /\ Approved(arg[c])
          /\ Goto(c, "record", arg[c])
          /\ UNCHANGED <<log, emitted, crashed>>
       \/ ConfirmFails(c)
    /\ UNCHANGED <<todo, pool, remote, tasks>>

Record(c) ==
    /\ pc[c] = "record"
    /\ agreements' = agreements \cup {arg[c]}
    /\ workerTask' = [workerTask EXCEPT ![arg[c]] = None]
    /\ \E multi \in BOOLEAN :
          hasMultiActivity' = [hasMultiActivity EXCEPT ![arg[c]] = multi]
    /\ Emit("confirmed", arg[c])
    /\ confirmed' = confirmed + 1
    /\ Goto(c, "callback", arg[c])
    /\ UNCHANGED <<todo, log, offerBuffer, remote, tasks, crashed>>

\* setWorker stores the task in a copy of the map's value, which changes
\* nothing.
SetWorker(a, c) == workerTask

\* cbk returns a running task, which UseAgreement returns in turn.
Callback(c) ==
    /\ pc[c] = "callback"
    /\ tasks' = [tasks EXCEPT ![c] = arg[c]]
    /\ workerTask' = SetWorker(arg[c], c)
    /\ Return(c)
    /\ UNCHANGED <<todo, offerBuffer, agreements, hasMultiActivity, confirmed,
                   emitted, remote, crashed>>

-----------------------------------------------------------------------------
(* ReleaseAgreement, terminateAll and onAgreementTerminated. *)

\* `_, ok := self.agreements[id]`.  The mutant does not look at ok.
AnyAgreement(a) == TRUE
InPool(a) == a \in agreements

\* The mutant deletes from a copy of the map.
RemoveFromCopy(a) == UNCHANGED agreements
Remove(a) == agreements' = agreements \ {a}

\* The mutant joins the two conditions by the wrong connective.
KeepsEither(a, allowReuse) == allowReuse \/ hasMultiActivity[a]
Keeps(a, allowReuse) == allowReuse /\ hasMultiActivity[a]

\* The caller returns, to Cycle if that called it, and the goroutines in
\* `started` begin terminateAgreement.
ReturnStarting(c, started) ==
    /\ pc' = [p \in Goroutines |->
                 IF p = c THEN IF todo[c] = {} THEN "idle" ELSE "cycle"
                 ELSE IF p \in started THEN "lookup" ELSE pc[p]]
    /\ arg' = [p \in Goroutines |->
                 IF p = c THEN None ELSE IF p \in started THEN arg[c] ELSE arg[p]]
    /\ log' = None

\* The worker is cleared in a copy, which changes nothing.
ReleaseAgreement(c) ==
    /\ At(c, "release")
    /\ \/ /\ ~InPool(arg[c]) \/ Keeps(arg[c], TRUE)
          /\ ReturnStarting(c, {})
       \/ /\ InPool(arg[c])
          /\ \E allowReuse \in BOOLEAN : ~Keeps(arg[c], allowReuse)
          /\ \E g \in Terminators : pc[g] = "idle" /\ ReturnStarting(c, {g})
    /\ UNCHANGED <<todo, pool, outside, crashed>>

\* It copies into a nil map, and panics unless there is nothing to copy.
TerminateAll(c) ==
    /\ At(c, "terminate_all")
    /\ Return(c)
    /\ crashed' \in IF agreements = {} THEN {FALSE} ELSE BOOLEAN
    /\ UNCHANGED <<todo, pool, outside>>

\* Cancel, on a recorded worker, ends its task.
OnAgreementTerminated(c) ==
    /\ At(c, "remove")
    /\ \/ /\ ~InPool(arg[c])
          /\ UNCHANGED <<agreements, emitted, tasks>>
       \/ /\ InPool(arg[c])
          /\ tasks' = [t \in Callers |-> IF t = workerTask[arg[c]] THEN None ELSE tasks[t]]
          /\ Remove(arg[c])
          /\ Emit("terminated", arg[c])
    /\ Return(c)
    /\ UNCHANGED <<todo, offerBuffer, workerTask, hasMultiActivity, confirmed,
                   remote, crashed>>

-----------------------------------------------------------------------------
(* Cycle, without the mutex except inside ReleaseAgreement. *)

Snapshot(c) ==
    /\ pc[c] = "snapshot"
    /\ todo' = [todo EXCEPT ![c] = agreements]
    /\ Goto(c, IF agreements = {} THEN "idle" ELSE "cycle", None)
    /\ UNCHANGED <<log, pool, outside, crashed>>

\* A worker that is recorded and not Done is released.
CycleReleases(a) == a \in agreements /\ \E t \in Callers : workerTask[a] = t /\ tasks[t] = a

Cycle(c) ==
    /\ pc[c] = "cycle"
    /\ \E a \in todo[c] :
          /\ todo' = [todo EXCEPT ![c] = @ \ {a}]
          /\ IF CycleReleases(a) THEN Goto(c, "release", a)
             ELSE Goto(c, IF todo[c] = {a} THEN "idle" ELSE "cycle", None)
    /\ UNCHANGED <<log, pool, outside, crashed>>

-----------------------------------------------------------------------------
(* terminateAgreement, in a goroutine of its own and without the mutex.  A   *)
(* panic there cannot be recovered.                                          *)

Lookup(g) ==
    /\ pc[g] = "lookup"
    /\ IF InPool(arg[g]) THEN Goto(g, "details", arg[g]) ELSE Goto(g, "idle", None)
    /\ UNCHANGED <<todo, log, pool, outside, crashed>>

\* GetAgreement may fail, which is ignored.
TerminatorDetails(g) ==
    /\ pc[g] = "details"
    /\ Goto(g, IF hasMultiActivity[arg[g]] THEN "terminate" ELSE "delete", arg[g])
    /\ crashed' \in IF ExtractWorks THEN {FALSE} ELSE BOOLEAN
    /\ UNCHANGED <<todo, log, pool, outside>>

\* Agreement.Terminate.  Its error is ignored; without an answer it
\* dereferences the nil response; and it logs whenever it comes to an end.
Terminate(g) ==
    /\ pc[g] = "terminate"
    /\ Goto(g, "delete", arg[g])
    /\ remote' \in {remote, [remote EXCEPT ![arg[g]] = "terminated"]}
    /\ crashed' \in IF LoggerWorks THEN BOOLEAN ELSE {TRUE}
    /\ UNCHANGED <<todo, log, pool, emitted, tasks>>

Delete(g) ==
    /\ pc[g] = "delete"
    /\ Remove(arg[g])
    /\ Emit("terminated", arg[g])
    /\ Goto(g, "idle", None)
    /\ UNCHANGED <<todo, log, offerBuffer, workerTask, hasMultiActivity, confirmed,
                   remote, tasks, crashed>>

-----------------------------------------------------------------------------
(* Goroutines whose next step reads or writes the map `agreements`. *)

MapWriters ==
    {p \in Goroutines : \/ pc[p] \in {"record", "delete"}
                        \/ At(p, "remove") /\ arg[p] \in agreements}

MapReaders ==
    {p \in Goroutines : \/ pc[p] \in {"snapshot", "cycle", "lookup", "callback"}
                        \/ \E m \in Methods \ {"add"} : At(p, m)}

Conflict(p, q) == p # q /\ p \in MapWriters /\ q \in MapWriters \cup MapReaders

\* The Go runtime ends the process when it notices a write of a map during
\* another access ("concurrent map writes" and the like); it need not notice.
ConcurrentMapThrow ==
    /\ \E p, q \in Goroutines : Conflict(p, q)
    /\ crashed' = TRUE
    /\ UNCHANGED <<local, log, pool, outside>>

(* The provider, through the market service. *)
Provider(a) ==
    /\ \/ remote[a] = "pending" /\ remote' = [remote EXCEPT ![a] = "approved"]
       \/ remote[a] = "pending" /\ remote' = [remote EXCEPT ![a] = "rejected"]
       \/ remote[a] = "approved" /\ remote' = [remote EXCEPT ![a] = "terminated"]
    /\ UNCHANGED <<local, log, pool, emitted, tasks, crashed>>

-----------------------------------------------------------------------------
Method(c) ==
    \/ AddProposal(c) \/ ReuseAgreement(c) \/ TakeOffer(c) \/ NoOffer(c)
    \/ CreateAgreement(c) \/ Select(c) \/ Details(c) \/ Confirm(c) \/ Approval(c)
    \/ Record(c) \/ Callback(c)
    \/ ReleaseAgreement(c) \/ TerminateAll(c) \/ OnAgreementTerminated(c)
    \/ Snapshot(c) \/ Cycle(c)

TerminateAgreement(g) == Lookup(g) \/ TerminatorDetails(g) \/ Terminate(g) \/ Delete(g)

CallerStep(c) == Call(c) \/ Lock(c) \/ TaskEnds(c) \/ Method(c)

Next ==
    /\ ~crashed
    /\ UNCHANGED repaired
    /\ \/ \E c \in Callers : CallerStep(c)
       \/ \E g \in Terminators : TerminateAgreement(g)
       \/ \E a \in Ids : Provider(a)
       \/ ConcurrentMapThrow

Spec == Init /\ [][Next]_vars

\* The Go scheduler runs every goroutine that can run, and sync.Mutex hands
\* itself to the longest waiter once that has waited for a millisecond: no
\* waiter starves.  Requests end by their answer or by their own timeout.
Runs(step) == ~crashed /\ UNCHANGED repaired /\ step

Fairness ==
    /\ \A c \in Callers : /\ SF_vars(Runs(Lock(c)))
                          /\ WF_vars(Runs(Method(c)))
    /\ \A g \in Terminators : WF_vars(Runs(TerminateAgreement(g)))

FairSpec == Spec /\ Fairness
-----------------------------------------------------------------------------
(* Properties. *)

TypeOK ==
    /\ pc \in [Goroutines -> CallerLabels \cup TerminatorLabels]
    /\ \A c \in Callers : pc[c] \in CallerLabels
    /\ \A g \in Terminators : pc[g] \in TerminatorLabels
    /\ arg \in [Goroutines -> Ids \cup Issuers \cup {None}]
    /\ todo \in [Callers -> SUBSET Ids]
    /\ log \in Callers \cup {None}
    /\ offerBuffer \in [Issuers -> Scores \cup {None}]
    /\ agreements \subseteq Ids
    /\ workerTask \in [Ids -> Callers \cup {None}]
    /\ hasMultiActivity \in [Ids -> BOOLEAN]
    /\ confirmed \in Nat
    /\ emitted \subseteq Events
    /\ remote \in [Ids -> RemoteStates]
    /\ tasks \in [Callers -> Ids \cup {None}]
    /\ crashed \in BOOLEAN
    /\ repaired \in Repairs

\* The pool never holds two agreements: getAgreement looks for an agreement to
\* reuse and inserts the new one many requests later, and only the mutex, held
\* across all of them, keeps a second caller from creating another in between.
AtMostOneAgreement == \A a, b \in agreements : a = b

\* An agreement whose AgreementTerminated event is out never comes back into
\* the pool, although terminateAgreement deletes it without the mutex while
\* another caller may be between its request and its insertion.
TerminatedStaysOut == \A a \in Ids : <<"terminated", a>> \in emitted => a \notin agreements

\* What listeners are told fits together whatever goroutines interleave: an
\* agreement is confirmed only after it was created, terminated only after it
\* was confirmed, and never both rejected and confirmed.
EventsConsistent ==
    \A a \in Ids :
        /\ <<"terminated", a>> \in emitted => <<"confirmed", a>> \in emitted
        /\ <<"confirmed", a>> \in emitted \/ <<"rejected", a>> \in emitted
              => <<"created", a>> \in emitted
        /\ ~(<<"confirmed", a>> \in emitted /\ <<"rejected", a>> \in emitted)

\* The callback of UseAgreement gets an agreement that is in the pool, or one
\* that terminateAgreement, which does not wait for the mutex, took out of it
\* since; never one that the provider did not approve.
CallbackAgreementWasPooled ==
    \A c \in Callers : pc[c] = "callback" =>
        /\ arg[c] \in agreements \/ <<"terminated", arg[c]>> \in emitted
        /\ remote[arg[c]] \in {"approved", "terminated"}

\* With the logger in place no agreement that the provider approved is lost:
\* it is in the pool, or its caller is about to put it there or to report it
\* as rejected, or a rejected or terminated event named it.
ApprovedIsAccountedFor ==
    "logger" \in repaired =>
        \A a \in Ids : remote[a] = "approved" =>
            \/ a \in agreements
            \/ \E c \in Callers : pc[c] \in {"approval", "record"} /\ arg[c] = a
            \/ <<"rejected", a>> \in emitted
            \/ <<"terminated", a>> \in emitted

\* Two goroutines reach conflicting accesses of the map `agreements` at once
\* only because Cycle and terminateAgreement do without the mutex: two methods
\* that take it never do.
MapRacesAreUnlocked ==
    \A p, q \in Goroutines : Conflict(p, q) =>
        {p, q} \cap (Terminators \cup {c \in Callers : pc[c] \in {"snapshot", "cycle"}}) # {}

\* Cycle never releases an agreement, since setWorker never records a worker:
\* no agreement leaves the pool but by ReleaseAgreement or by a notification.
CycleNeverReleases ==
    [][\A c \in Callers : pc[c] = "cycle" => pc'[c] # "release"]_vars

\* Every method that is called returns or panics, unless the process ends:
\* nothing it waits for can stay out for ever once the select is repaired, or as
\* long as the offers without a subscription keep callers from reaching it.
CallsReturn ==
    \A c \in Callers :
        pc[c] # "idle" /\ ("select" \in repaired \/ "offer" \notin repaired)
            ~> pc[c] = "idle" \/ crashed

\* An agreement that may not be reused leaves the pool after its release,
\* whatever the provider and the service answer, unless the process ends.
ReleasedLeaves ==
    \A a \in Ids :
        (\E c \in Callers : pc[c] = "release" /\ log = c /\ arg[c] = a) /\ ~hasMultiActivity[a]
            ~> a \notin agreements \/ crashed

\* With the select as it is, a caller that reaches it keeps the mutex for
\* ever: every other call of a method, then or later, waits for ever.
HungCallKeepsMutex ==
    [][\A c \in Callers : pc[c] = "select" /\ "select" \notin repaired
                              => pc'[c] = "select" /\ log' = c]_vars

\* As long as one of the first three defects is there, no agreement is ever
\* confirmed, whoever calls what.
NothingIsConfirmed ==
    ~({"offer", "select", "extract"} \subseteq repaired)
        => \A a \in Ids : <<"confirmed", a>> \notin emitted

\* As long as agreements have no logger, no listener hears of a rejection:
\* the caller panics, with the mutex released, before it emits the event.
NoRejectionIsReported ==
    "logger" \notin repaired => \A a \in Ids : <<"rejected", a>> \notin emitted

\* setWorker's error "buffered agreement worker task is not nil" is there so
\* that an agreement never has two unfinished tasks.
OneTaskPerAgreement ==
    \A c, d \in Callers : tasks[c] # None /\ tasks[c] = tasks[d] => c = d

\* terminateAgreement "will terminate the agreement", and says so with an
\* event: an agreement reported as terminated is terminated at the service.
TerminatedEventIsTrue ==
    \A a \in Ids : <<"terminated", a>> \in emitted => remote[a] = "terminated"

-----------------------------------------------------------------------------
(* The pool implements the ledger: a listener that knows only the events     *)
(* sees one agreement at a time.                                             *)

Life(a) ==
    IF <<"terminated", a>> \in emitted THEN "ended"
    ELSE IF <<"confirmed", a>> \in emitted THEN "held"
    ELSE IF <<"rejected", a>> \in emitted THEN "rejected"
    ELSE IF <<"created", a>> \in emitted THEN "created"
    ELSE "unknown"

Ledger == INSTANCE AgreementLedger WITH life <- [a \in Ids |-> Life(a)], held <- agreements

\* Every behaviour of the pool is one of the ledger.
ImplementsLedger == Ledger!Spec
=============================================================================

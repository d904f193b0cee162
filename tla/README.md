# A TLA+ model of go-golem

go-golem is a Go port of the Golem requestor API: a program that embeds it finds
providers on a market, makes agreements with them, runs batches of commands under
an agreement and pays. This directory models its core, checks it with TLC and
proves its safety for every value of the constants with TLAPS.

Nothing here runs the Go code. Every definition is translated from the source as it
is written; `PROJECT.json` ("map") names the lines each one stands for.

## The system

| Part | State | Operations | What is hard | What makes it correct |
|---|---|---|---|---|
| Agreement pool, `pkg/util/agreements.go` | `offerBuffer`, `agreements`, `workerTask`, `hasMultiActivity`, `confirmed`, a mutex named `log` | `AddProposal`, `UseAgreement`, `ReleaseAgreement`, `Cycle`, `terminateAll`, `onAgreementTerminated`, the goroutine `terminateAgreement` | a mutex held across requests, two methods that do without it, panics | one agreement at a time, events in order, nothing lost, every call returns |
| Agreements and offers, `pkg/rest/market.go` 40-195 | none of their own | `Details`, `Confirm`, `Terminate`, `CreateAgreement`, `Respond` | lost answers, two timeouts for one approval | what the pool is told agrees with the service |
| Subscriptions, `pkg/rest/market.go` 197-352 | `open`, `deleted` | `Subscribe`, `Events`, `Close`, `Delete` | goroutines that read what `Close` writes, an unbuffered channel, answers lost | offers arrive once and none is dropped, the goroutines end |
| Polling a batch, `pkg/rest/activity.go` 127-235 | `lastIdx`, the deadline, the context | `Poll` | timeouts, old or wrong answers, a consumer that leaves | results once, in order; it ends |
| Streaming a batch, `pkg/rest/activity.go` 237-386, with `ComputationFinished` of `pkg/event/events.go` | the SSE subscription, two contexts | `StreamingBatch.Poll`, `commandEventCtx` | a blocking subscription, rejected events, which of two contexts ends it | it ends, and not before its time |
| Activities, `pkg/rest/activity.go` 20-101 | the activity's id | `NewActivity`, `Send`, `DestroyActivity` | answers that never come or are unusable | nothing is left running that nobody knows |
| Payment streams, `pkg/rest/payment.go` 278-396 | the time stamp `ts` of each | `IncomingInvoice`, `IncomingDebitNotes` | refetching, skipped items | each invoice arrives, in order, and once |
| Allocations, `pkg/rest/payment.go` 60-190 | an allocation's id | `NewAllocation`, `Alocate`, `DeAllocate`, `Delete` | an error after the request was carried out, a missing link | every allocation can be released by its task |
| Work context, `pkg/util/ctx.go` | `pendingSteps`, `started`; each step's index, source and slot | the `Send` and `Download` methods, `Run`, `commit`; `Prepair`, `Register`, `Post` of the steps | embedded interfaces that nobody sets, containers passed by value, errors between steps | each command registered once, in order; results where they belong |
| Downloads, `pkg/storage/storage.go` and `GftpDestination` | a channel of chunks, the output | `ContentFrom`, `DownloadBytes`, `DownloadFile` | an unbuffered channel, a limit that is compared twice | a download is a prefix of its content |
| gftp process, `pkg/storage/gftp.go` | `p`, `done`, a lock | `Start`, `Stop`, `SendMessage` | a lock that one of three methods ignores, `done` unbuffered | `Stop` ends the process, and returns |
| Properties, `pkg/props` | a model's fields, a demand | `FromProperties`, `CustomMapping`, `DemandBuilder` | reflection on embedded structs, models used again, lists compared before they are cut | the tables of `base_test.go`; what is written can be read |
| VM packages, `pkg/package/vm.go` | none | `DecorateDemand`, `Repo`, the constraint | names in the wrong case | a decorated demand names a package |
| Configuration, logging, `main.go` | none | plumbing | | |

The parts meet like this. `Market.Subscribe` gives a subscription for a demand that
`DemandBuilder` made and a VM package decorated; its `Events` goroutine sends offers
to the embedding program, which reads them with `FromProperties`, scores them and
calls `AgreementPool.AddProposal`. `UseAgreement` turns the best offer into an
agreement by `OfferProposal.CreateAgreement` and `Agreement.Confirm`, and gives it to
a callback, in which the program creates an activity, queues steps in a
`WorkContext`, registers their commands, sends them as a batch and reads the channels
of `Poll`; steps that receive then download from the storage. Invoices come from the
payment streams and are paid from an allocation. The program in between (an executor)
is not in the repository; the models put a nondeterministic one in its place.

Two files, `ctx.go` and `gftp.go`, do not compile as they stand (`i.idx` of `run`,
`NewCaptureContext` called with one argument, a storage given to `NewSendFile`,
`func([]interface{})` used as `func(interface{})`, ambiguous selectors in `sendBytes`,
an undefined `process` in `UploadFile`), and `commandEventCtx` of `activity.go` uses
types as values. They are read as what they are plainly meant to be: an ambiguous or
missing selector as the struct's own method, or as the embedded interface, which is nil;
a type as its value.

## What is modelled

### AgreementPool

One module for `agreements.go`, with the requests of `market.go` that it makes.

* **Goroutines.** `Callers` are goroutines of the embedding program that call the
  pool's methods in any order. `Terminators` are the goroutines that
  `ReleaseAgreement` starts with `go`. `pc[p]` is where each one is, `arg[p]` the
  agreement (or issuer) it works on.
* **The mutex** is `log`, its holder or `None`. A caller waits at the label of its
  method, takes the mutex (`Lock`), and keeps it over every request until it returns
  or panics, as the `defer` does. `Snapshot` and `Cycle` (the method `Cycle`) and all
  of `terminateAgreement` work without it.
* **Steps.** A method that makes no request is one action. `UseAgreement` is split at
  each request: `TakeOffer`, `CreateAgreement`, `Select`, `Details`, `Confirm`,
  `Approval`, `Record`, `Callback`. The service, the terminators and the unlocked
  methods may come in between.
* **The service and the provider.** `remote[a]` is the agreement as the market
  service knows it. A request may fail, and may fail although the service acted on
  it. `Provider` (external) approves, rejects or terminates.
* **Events.** `emitted` is the set of events handed to `emitter`.
* **Panics.** A panic in a method runs the deferred unlock; the process ends unless
  the caller recovers, so `crashed'` is either. One in a terminator always ends it.
  `ConcurrentMapThrow` is the runtime's "concurrent map writes", which may or may not
  come when two goroutines are at conflicting accesses.
* **Worker tasks.** `setWorker` and `ReleaseAgreement` assign to copies of the map's
  values, so `workerTask` never changes; the model says so (`SetWorker`).

**Four defects** hide everything behind them. A behaviour takes those in `repaired`
to be fixed, a choice out of the constant `Repairs` that it makes at the start: offers without a subscription ("offer"), the select on a nil
channel ("select"), the nil `Model` ("extract") and the nil logger ("logger"). With
`repaired = {}` the module is the code as it stands, in which `UseAgreement` panics
at its first request; with all four it shows what the rest of the code does once
they are fixed. The theorems hold whatever `Repairs` is.

`AgreementLedger` is what a listener to the events may rely on: agreements follow
each other one at a time, each created, then held or rejected, and ended once.
`ImplementsLedger` maps the pool's events and its map to it.

### PollingBatch, StreamingBatch, ActivityBatch

`PollingBatch.Poll` against a provider that executes the batch step by step and
answers requests rightly or, as `Faults` allows, with another index, with an older
answer, or with a result whose optional fields are missing. No answer has more results than the
batch has commands; `Poll` does not look, and would hand those over too before it stops. Time is what
`SecondsLeft` tells the loop: plenty, under a second (its timeout is then truncated to
zero), none. The channels are unbuffered: a send needs a listening consumer. `lastIdx`,
the rest of the answer being ranged over and the error about to be sent are the
goroutine's state; each `break` goes where the Go code takes it. A provider that
stops early marks its last result and never gives another.

`StreamingBatch.Poll` connects in its caller's goroutine, sleeping five seconds
between attempts, and then reads one event after another in a goroutine of its own.
An event is what `commandEventCtx` tells apart: its name, its kind and whether it is
complete. A rejected one is logged and its nil context dereferenced. What
`ComputationFinished` asks for ("cmd_idx", and no "success") is never what
`commandEventCtx` writes ("cmd_id", and always "success"), which the model evaluates
rather than states. `timely` remembers whether `getBatchCtx` had a second left when
the connection was made.

`ActivityBatch` composes the two. `Activity.Send` sends the script and, by its
`stream` argument, gives one batch or the other; they share the deadline and the
context (`left`, `cancelled`), and the actions of both that touch these are the same.
`PollingBatch`'s properties are checked on the composition.

`CommandStream` is what the consumer sees of polling: results 0, 1, 2, ... once each,
then complete, failed or abandoned for good. Streaming sends nothing on its channels
and has no such refinement to show.

### Subscription

The goroutines of `Events`, any number of them on one subscription, with `Close` and
`Delete` called from elsewhere. The market service posts events and hands each out
once, ten (`MaxEvents`) at most in an answer, which may get lost. `page[c]` is what is left of a collector's
answer, `got[c]` what its reader received. A "malformed" event is one that the code
passes over; whether the client's type for a proposal decodes at all is outside the
repository, so every event may be one. `deleted` is a variable although no statement
sets it: that it stays `FALSE` is what lets a failed `Delete` be called again. The
unsynchronised reads of `open` interleave with the writes; no stale copy is kept, as
the loop calls functions the compiler cannot see through between two reads.

`OfferQueue` is what the readers may rely on: offers wait in the order in which they came,
a request takes the first of them for one reader, or in vain, and what was taken for a reader
stays under way until this reader receives it, the oldest first. `ImplementsQueue` maps the
pages to it; events that are no offer are not seen there, nor are `open` and the deletion.

### PaymentStream

The loop of `IncomingInvoice`, which `IncomingDebitNotes` repeats word for word, against
a service with a log of events. The date of an event is its place in the log; two events
do not share one. The code asserts that the decoded date is a `time.Time`, but JSON
leaves a string, so `ts` becomes the zero time at the first event and every later
request returns the log from its start. `dated`, chosen at the start, is `FALSE` for
the code as it stands and `TRUE` for a loop that reads the date. A run with both shows what the repair would give and take: each invoice once and in order, but
one that could not be fetched is lost, which the refetching makes up for today.

### Resources

Allocations and activities, which a program holds at a service and must give back. A
request is sent, then carried out or refused, then answered or given up by its caller, in any
order that leaves the answer after the deed: `GiveUp` may come before `Decide`. An
allocation is known by the number of the call that asked for it; `id[t]` is what the
task `t` would release. A service that answers with a blank id (`NamelessAnswer`) has made an allocation
all the same: `Alocate` returns an error, and `DeAllocate` then has nothing to release and returns nil;
`nameless` remembers these calls, as `lost` does those whose caller gave up. `linked` says whether the field through which `Alocate` makes
its request is set; `NewAllocation` leaves it nil, so that `FALSE` is the code as it
stands. `expires` are the tasks whose caller gave a time, which the code then drops.
`NewActivity` logs the error of its request and goes on with the missing answer
(`CreateFails`).

### WorkContext and Download

`WorkContext` has three actors: the program, which queues steps (`Queue`) and commits
them (`Commit`); the executor, which takes one batch after another through `Prepare`,
`Register`, `Execute` and `Post`, step by step; and the goroutines of the downloads.
A step is a number; its kind is its type in `ctx.go`, JSON and bytes to be sent being one ("bytes up"); `idx`, `ready` and
`commands` are what `Register` and `Prepair` leave behind. The first error ends a batch; `unsent` are those it ended
before anything was sent.

`AddCommand` stores a command's arguments and drops its name, so that what the container holds of
a command is whose it is and whether it has arguments (`Args`): "deploy" and "start" are two equal, empty maps. A file
is never uploaded ("file up"): `NewSendFile` keeps a `sendWork` whose uploader is itself, so that
`Prepare` calls the `DoUpload` of an interface that nobody sets and never that of `sendFile`.

**Four defects** again stand in the way, with the same `Repairs`: the interfaces that
steps embed and nobody sets ("embedded"), `Prepair`, which is not the interface's
`Prepare` ("prepair"), the container passed by value ("container"), and the empty
destination of `DownloadBytes` and `DownloadJson` ("destination").

`Download` is what `PostReceive` starts: `DownloadBytes` on a stream with a single chunk (`GftpDestination`)
or with none (a destination that uses `ContentFrom` hangs before it returns,
unless its reader is at its end). A content is its length. The arithmetic of the
limit is as in the code, a slice out of range included (`Overrun`).

### GftpProcess

The calls of `Start`, `Stop` and `SendMessage`, each made once, on one `process`. The
lock is `lock`; `Start` does not take it, and every action of it reads `cmd` (`p.p`) anew.
A command has a state (`proc`), a stdout and a stdin. `found` says whether an
executable named "gftp server" exists, as `exec.Command` looks the whole string up: with `FALSE`, as on
any usual system, nothing is ever launched. A nil process panics where it is used.
A message is taken to fit in the pipe, so that its write (`Write`) does not block on a server that does not read.

### Properties and Demand

`Properties` is `FromProperties` on the four models, a field after the other, and then
the `CustomMapping` of the model; that of `ComLinear` goes through the coefficients.
A value is as much as the code tells apart: zero, right, out of an enum's list, of the
wrong Go type. A program may load a model again, and what one load leaves, the next
finds (`before`). `Demand` adds `DemandBuilder` and `DecorateDemand`: an `Add` writes the fields that
`structs.Map` shows, zero values too (the example in the comment of `builder.go` has given fields only),
and `Constraints` is the names in the constraints and their brackets.

## Runs

All are exhaustive. `MCAgreementPool` adds only the symmetry sets, `MCDemand` the lists.

| Run | Shows |
|---|---|
| `pool_safety` | all defects repaired, two agreements: `AtMostOneAgreement`, `TerminatedStaysOut`, `EventsConsistent`, `CallbackAgreementWasPooled`, `ApprovedIsAccountedFor`, and that the pool implements the ledger |
| `pool_defects` | no defect, each three, or all of them repaired, two terminators: what a defect left in the code blocks (`NothingIsConfirmed`, `HungCallKeepsMutex`), and that races on the map always involve an unlocked goroutine (`MapRacesAreUnlocked`) |
| `pool_liveness` | `CallsReturn`: with all repaired every call returns, and with none too, as it panics before the select; `ReleasedLeaves` |
| `pool_shared_agreement` | violated: two unfinished tasks on one agreement |
| `pool_terminated_event` | violated: `AgreementTerminated` without a termination |
| `batch` | a script sent, and polled or streamed. Polled, against every combination of faults: order, nothing invented, no right numbering called wrong, the exit explained, the stream implemented. Streamed: only time or the context ends it (`OnlyTimeEndsStream`). Both: `BatchEnds` |
| `subscription` | offers once, in order, and none dropped between the service and the reader (`ImplementsQueue`); a `Delete` without an error has unsubscribed; `Close`, `Delete` and cancellation end the collectors (`CollectorsEnd`) |
| `payment_stream` | nothing forgotten, nothing old before something new, in order and once when dates are read; cancellation ends the goroutine |
| `work_context` | no step lost or reordered, the index names the command, the two empty maps of the deployment come first and nowhere else, or are lost with a first batch that failed before it was sent, what the defects block, and that what a download hands over is a prefix, whole only at exactly half the limit |
| `gftp_process` | what the nil of `Stop` means (`NilMeansGone`), that nothing works without the misnamed executable, and that a `Stop` returns unless a `SendMessage` reads |
| `resources` | which allocations stay behind, before and after `DeAllocate`: those whose answer was lost or had no id, and those that a later `Alocate` of the task forgot |
| `demand` | the prices of a `ComLinear` are those of the lists, its price model may come from an earlier load, nothing that `Add` writes is read back, and a decorated demand names no package |

**Bounds.** Two callers make every interleaving of two methods; a third waits for the
same mutex. One terminator meets the locked methods and `Cycle`; the second one in
`pool_defects` makes two releases of one agreement meet. Two ids let one
agreement follow another, which is all the ledger speaks of. One issuer is enough
where the choice of the offer does not matter, and where it does, two issuers with
scores 0 and 1 (`pool_defects`) give ties, a best one, and none. A caller runs one task at a time.
`Terminators` bounds the goroutines that run at once: `ReleaseAgreement` waits for a
free one.

For a batch, three commands have a first, a middle and a last
result, and one wrong result per answer, at any place, is enough, as the loop stops at
it. For `Subscription`, two events make an answer
in which one is malformed and one is not, or two answers; two collectors share them;
one deleter can call `Delete` again after a failure. For `PaymentStream`, three events, any of them
from before the call, are enough for an old one and two new ones; `MaxTimes`, 2, tells once from more than once.

For `WorkContext`, `MaxSteps` 3 is the step that deploys and two others: one batch of both, or two batches, or a
batch and a pending step. JSON behaves as bytes and is left out of `QueueKinds`. Contents of 0 to 5
lie on both sides of half the default limit, 4, and of the limit; `MaxInt`, 11, is out of
their reach, as `math.MaxInt64` is. For `GftpProcess`, two `Start`s let one meet the
process of the other, two `Stop`s let one hear the end meant for the other, and one
`SendMessage` holds the lock against both. For `Resources`, three calls of `Alocate` are two of one task and one of
another, or three of one; one activity, as nothing relates two. For `Demand`, the lists
in `MCDemand`, over two counters, have each length and each place of a zero, a word and a repeated counter
that a branch of `CustomMapping` asks for; a program either builds a demand and loads
it, or loads offers, as the two share nothing; `MaxConstraints` 2 is the decoration and another.

`CHECK_DEADLOCK FALSE` is set everywhere: the process may have crashed, a goroutine may
have ended, and the program may have run out of what the bounds allow.

**Symmetry** is used for safety only.

**Fairness.** The Go scheduler runs what can run, so a caller's method and a
terminator have weak fairness; every request ends by its answer or its own timeout.
`sync.Mutex` goes into starvation mode after a millisecond and hands itself to the
longest waiter, which is strong fairness of `Lock`. Nothing makes a program call the
pool, a provider answer, a task end. `Poll` has weak fairness as a whole, polling; streaming,
what Poll does in its caller has weak fairness, and `Expire` strong fairness, because a `select` picks at
random among the cases that are ready, and so takes each sooner or later. Nothing
makes time pass, the consumer read, the service accept a connection or the provider work, which is why `BatchEnds`
speaks of a deadline that has passed or a context that is done, and makes an exception for a
consumer that left and for a caller that tries to connect for ever. The loops of `Subscription`
and `PaymentStream` have the same fairness as polling, and their properties the same exception.
In `GftpProcess` a call goes on, its timer fires and a killed process dies; no process
ends by itself, which is why `StopReturns` excepts a `SendMessage` that reads.

## Findings

1. `setWorker` never records a worker (`agreements.go:103`). The check that is
   meant to stop a second one never fires, and `UseAgreement` gives an agreement
   to a second task while the first still runs. Recording it would not be enough:
   `UseAgreement` drops the error of that check (line 91), and `getAgreement` does
   not look at `workerTask` when it chooses (lines 108-119).
2. `terminateAgreement` reports an agreement as terminated that it did not ask the
   service to terminate, or that the service did not terminate
   (`agreements.go:277-289`).

Both traces start behind the four defects: they show what the code does once those
are out of the way. What each defect does is in `pool_defects`; `work_context`,
`demand`, `gftp_process` and `batch` state what other code does against its evident
purpose as properties that hold of it (`DefectsBlockBatch`, `DeliveredIsCut`,
`NoRoundTrip`, `DecorationIsHollow`, `NothingWithoutCommand`, `OnlyTimeEndsStream`).

## Proofs

Eight modules hold the proofs about the components (`BatchProofs` those about `PollingBatch` and
`ActivityBatch`, `DemandProofs` those about `Properties` and `Demand`), from the
assumptions on the constants and nothing else: any number of
goroutines, ids, issuers, commands, events, steps, requests and constraints, any price lists, any
sets of repaired defects, any faults. The assumptions say that bounds are naturals, and that what
stands for "nothing" or "no number" is none of the values beside it. Each module proves a
`TypeCorrect`.

*AgreementPoolProofs.* None of the properties is inductive. The strengthened invariant says of
every caller between `TakeOffer` and `Callback` that it holds the mutex; that while
one is there before `Record` the pool is empty; how far the agreement it works on has
come, at the service and in the events; and that an id given out belongs to one
caller only. A terminator's step can only make `agreements` smaller, which is why
its lack of a mutex does no harm to these properties. One lemma per action shows that
it keeps the invariant. `NoApprovedAgreementIsLost`, `DefectsBlockConfirmation` and
`SelectHangs` add to it what they need: where a pending agreement is known, and which
label each defect guards. `PoolImplementsLedger` maps each action to a step of the
ledger or to a stutter; without the mutex the mapping would fail at `TakeOffer`.

*BatchProofs.* The invariant of `PollingBatch` says that `lastIdx` results have been delivered, that
they are 0 to `lastIdx - 1`, that what remains of the answer ends at a command that
was executed, and why the goroutine may report a fatal error. It needs no assumption
about the provider: a wrong index stops the range before the send.
`NoFalseAccusation` adds the numbers that the rest of a rightly numbered answer
carries. Every step of the composition with `Activity.Send` and the stream is a step of `PollingBatch` or changes
nothing it knows (`BatchPolls`), so that what is proved of `PollingBatch` holds of the composition: `BatchInOrder`
and `BatchIsHonest` carry its invariants over, `BatchImplementsStream` its refinement of `CommandStream`.
`StreamOutlivesBatch` rests on
`ComputationFinished` being false of every context there can be, and on a clock that does not run back.

*SubscriptionProofs.* The invariant gives every event one place: at the service, lost with an
answer, in one collector's page, or with one reader. Whatever a collector takes from
the service comes after all that anyone took before it (`Ordered`), which keeps the
readers apart (`Apart`). `SubscriptionImplementsQueue` maps an answer, and the loss of one, to the offers among the
events that `next` passes; a malformed event, a label and the deletion of an empty service are stutters.

*PaymentStreamProofs.* With the dates read, `ts` separates what the reader has from what is still
in hand (`Separated`), and between the two lie only events of other types
(`Contiguous`). Without them, `ts` is the time of the call until a new event comes
(`Undated`).

*ResourcesProofs.* `AllocationIsKnown` is not inductive because an allocation may come to exist after its caller gave up.
`KnownOK` and `ClosedOK` say the same of the requests that the service may yet carry out; `CallOK` numbers a
task's calls upwards, so that what a later answer overwrites is older; and what is once forgotten
stays so, whether the id that took its place is overwritten in turn or is blank (`ForgottenStays`).

*GftpProcessProofs.* `NilMeansGone` needs that, as long as there is one command only, the call of `Start` that
made it works on that one (`AloneOK`), so that the `done` which a `Stop` hears is the end of what it interrupted. `IdleOK`
follows a missing executable through every call.

*WorkContextProofs.* For the downloads: the one chunk is the whole content and nothing
precedes it (`ChunkOK`), from which the arithmetic of the limit follows. For the defects: the
first step of the first batch is the one that deploys, so that the executor panics there
(`EmbeddedOK`); and no step that receives gets a slot, so that none is registered (`PrepairOK`).
For the queue, a step's number is its place in it, so that a batch is what follows
the batch before it, number by number (`Before`, `Follows`); that makes `NoStepIsLost` inductive without an
induction over the batches. `CInv` adds what the container holds (`ItemsOK`), that the steps
registered so far find their commands at their index, which later steps only append to (`IndexOK`), and that
the container of the first batch, and the script after it, begin with the two empty maps of the
first step, which no other step has, and that an empty script after the first batch means that this one failed
unsent (`FirstOK`, `UnsentOK`, `OpensFirst`). For `ScriptIsOrdered`, every command in the
script is of a step before the current batch, and every command in the container of one at or before
the step that is registered next (`ScriptOK`).

*DemandProofs.* What `Add` does not see stays absent from the demand (`UnseenOK`), so that a `VMRequest`
stops at its first field, which is required, and a `ComLinear` is refused for want of a price
model or of the lists; the other two models panic whatever they read (`OwnOK`). While an offer is loaded, the fields
of the model are those of before the load until its properties name others (`KeptOK`), which gives
`KnownPriceModel`. For the prices, `ListsOK` says that the lists passed every test of `Refusal`, and
that the prices of the first `at - 1` coefficients are the last ones, zeros apart, of the
counters they belong to; one round of the loop extends the set by one place (`LastPrices`), so that no
induction over the list is needed. A decorated demand keeps the constraint and the two keys
that the decoration put there, whatever is added or ensured after it (`DecoratedOK`).

The type invariants, and some facts with a single guard behind them (`CycleIsIdle`,
`NoLoggerNoRejection`, `SubscribedIsIdle`, `ErrorLeaves`), are proved and no longer run.

Proved and in no run are also `ScriptIsOrdered`, `NoDrop`, which `ImplementsQueue` says of every
step, and that what is proved of polling
holds of the composition (`BatchIsHonest`).

Every safety property of the passing runs is proved. Model-checked only: all liveness (`CallsReturn`, `ReleasedLeaves`, `BatchEnds`, `CollectorsEnd`,
`CancelEndsStream`, `StopReturns`), which is out of the prover's reach; and the two
violations.

## Not modelled

* `Market.Subscriptions` and `Invoices`, whose lists hold one loop variable many times;
  `Accounts`, `Allocations`, `Details`, `Activity.State` and `Accept`, which are one request each and keep nothing.
* `OfferProposal.Respond` and `Reject`, which are one request each.
* Answers with more results than the batch has commands, and messages that do not fit in
  the pipe of the gftp process.
* Uploads appear by their outcome only; `UploadFile` does not compile, and what it was meant to keep is not said.
* `Repo` and the look-up of the repository's address; `CaptureContext` and the arguments of
  commands; `InfVm`, which is no `Model`, beyond its keys.
* Nothing ever closes the channels of `Events` and `IncomingInvoice`, so that a reader
  cannot tell an end from a pause: no state depends on it, and it has no property.
* Configuration, logging, `main.go`, the test helpers, the data types of `events.go` and
  the wording of messages.

What could follow: the offers of `Subscription` feeding `AgreementPool` in one composition, with
the scoring of the program in between.

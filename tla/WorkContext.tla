----------------------------- MODULE WorkContext -----------------------------
(***************************************************************************)
(* WorkContext and its steps, pkg/util/ctx.go.  A program queues steps and *)
(* commits them in batches; an executor, which is not in the repository,   *)
(* prepares, registers and posts the steps of one batch after another,     *)
(* sending the registered commands to the provider in between.  Post       *)
(* starts the downloads of module Download.                                *)
(***************************************************************************)
EXTENDS Download, Sequences, SequencesExt

CONSTANTS
    MaxSteps,    \* the bound on steps; each may make one download
    QueueKinds,  \* the kinds of steps the program queues, out of Kinds
    Repairs      \* a set of sets of defects out of Defects; those in the
                 \* chosen one are repaired

Kinds == {"bytes up", "file up", "run", "file", "bytes", "json"}

\* "embedded": a call that reaches an embedded interface, which nobody sets.
\* "prepair": the method's name, which is not Prepare.  "container": it is
\* passed by value.  "destination": the downloads of bytes and JSON have none.
Defects == {"embedded", "prepair", "container", "destination"}

ASSUME WorkAssumption ==
    /\ MaxSteps \in Nat /\ Downloads = 1..MaxSteps
    /\ QueueKinds \subseteq Kinds
    /\ Repairs \subseteq SUBSET Defects

VARIABLES
    kinds,     \* the kinds of the steps queued so far; steps are their numbers
    pending,   \* pendingSteps
    started,   \* was the first step queued?
    batches,   \* the steps of every Steps that was committed
    current,   \* the batch in the executor's hands, or the next one to take
    phase,     \* "idle", "prepare", "register", "post", "hung" or "panicked"
    at,        \* the step of the batch that comes next
    ready,     \* the steps whose src or dstSlot is set
    idx,       \* idx of each step
    commands,  \* the executor's CommnadContainer: items [step, args], see Items
    script,    \* all that was sent to the provider
    emitted,   \* the events, <<"started" or "finished", step>>
    unsent,    \* the batches that failed before anything of them was sent
    repaired   \* the defects that are repaired, chosen once

program  == <<kinds, pending, started, batches>>
executor == <<current, phase, at>>
effects  == <<ready, idx, commands, script, emitted, unsent>>
vars == <<program, executor, effects, repaired, downloadVars>>

Init ==
    /\ DownloadInit
    /\ kinds = <<>> /\ pending = <<>> /\ batches = <<>>
    /\ started = FALSE
    /\ current = 1 /\ phase = "idle" /\ at = 1
    /\ ready = {}
    /\ idx = [s \in Downloads |-> -1]
    /\ commands = <<>> /\ script = <<>>
    /\ emitted = {}
    /\ unsent = {}
    /\ repaired \in Repairs

-----------------------------------------------------------------------------
(* The program: SendJson, SendBytes, SendFile, Run and the Download methods. *)

\* prepare() puts the first step before all others.
First == ~started

Queue(kind) ==
    /\ LET new == (IF First THEN <<"init">> ELSE <<>>) \o <<kind>>
       IN  /\ Len(kinds) + Len(new) <= MaxSteps
           /\ kinds' = kinds \o new
           /\ pending' = pending \o [i \in 1..Len(new) |-> Len(kinds) + i]
    /\ started' = TRUE
    /\ UNCHANGED <<batches, executor, effects, repaired, downloadVars>>

\* What stays pending after a commit.  The mutant keeps it.
StillPending == pending
LeftPending == <<>>

\* The bound on batches: one that is empty is not committed.
Commit ==
    /\ pending # <<>>
    /\ batches' = Append(batches, pending)
    /\ pending' = LeftPending
    /\ UNCHANGED <<kinds, started, executor, effects, repaired, downloadVars>>

-----------------------------------------------------------------------------
(* The executor. *)

Steps == batches[current]
Step == Steps[at]
Kind == kinds[Step]
Receives == Kind \in {"file", "bytes", "json"}

Take ==
    /\ phase = "idle"
    /\ current <= Len(batches)
    /\ phase' = "prepare"
    /\ at' = 1
    /\ commands' = <<>>
    /\ UNCHANGED <<program, current, ready, idx, script, emitted, unsent, repaired, downloadVars>>

\* The step of this phase is done, with no error.
Go == at' = at + 1 /\ UNCHANGED <<phase, current, unsent>>

\* The batch is over, and the executor goes on with the next one.
End == phase' = "idle" /\ current' = current + 1 /\ UNCHANGED at

\* The first error ends the batch, of which nothing was sent yet.
Fail == End /\ unsent' = unsent \cup {current}

Panic == phase' = "panicked" /\ UNCHANGED <<current, at, unsent>>

\* A call to an embedded interface.  Repaired, there is a method that does nothing.
Embedded == IF "embedded" \in repaired THEN Go ELSE Panic

\* DoUpload of bytes may fail.  It is only reached if Prepare is that of
\* baseSendWork, and not that of the embedded SendWorker.
Upload ==
    \/ Fail /\ UNCHANGED ready
    \/ Go /\ ready' = ready \cup {Step}

\* A receiving step's Prepare is that of the sendWork it embeds.  A file's is never
\* uploaded: NewSendFile leaves the sendWork as its own uploader, whose DoUpload is
\* that of the embedded SendWorker.
Prepare ==
    /\ phase = "prepare"
    /\ at <= Len(Steps)
    /\ \/ Kind = "bytes up" /\ "embedded" \in repaired /\ Upload
       \/ Kind = "bytes up" /\ "embedded" \notin repaired /\ Panic /\ UNCHANGED ready
       \/ Kind \in {"init", "run", "file up"} /\ Embedded /\ UNCHANGED ready
       \/ Receives /\ "prepair" \in repaired /\ Go /\ ready' = ready \cup {Step}
       \/ Receives /\ "prepair" \notin repaired /\ Embedded /\ UNCHANGED ready
    /\ UNCHANGED <<program, idx, commands, script, emitted, repaired, downloadVars>>

Prepared ==
    /\ phase = "prepare"
    /\ at > Len(Steps)
    /\ phase' = "register"
    /\ at' = 1
    /\ UNCHANGED <<program, current, effects, repaired, downloadVars>>

\* What AddCommand stores of a step's commands: the arguments, but not the name.
\* deploy and start have no arguments, so that they are two equal, empty maps; step
\* says whose they are.
Args(kind) == IF kind = "init" THEN "none" ELSE "some"
Items(s) == [i \in 1..(IF kinds[s] = "init" THEN 2 ELSE 1) |-> [step |-> s, args |-> Args(kinds[s])]]

\* The index that AddCommand returns.  The mutant takes it after the append.
AfterAppend == Len(commands) + 1
AddedAt == Len(commands)

\* idx is the number of the command in the container that AddCommand had, a copy
\* of the caller's, which the append leaves as it was.
Add(s) ==
    /\ idx' = IF kinds[s] = "init" THEN idx ELSE [idx EXCEPT ![s] = AddedAt]
    /\ commands' = IF "container" \in repaired THEN commands \o Items(s) ELSE commands

\* src or dstSlot is nil.  The mutant asks those that send only.
NoSource == Kind \in {"bytes up", "file up"} /\ Step \notin ready
Unset == Kind \notin {"init", "run"} /\ Step \notin ready

Register ==
    /\ phase = "register"
    /\ at <= Len(Steps)
    /\ \/ Unset /\ Fail /\ UNCHANGED <<idx, commands>>
       \/ Kind = "init" /\ "embedded" \notin repaired /\ Panic /\ UNCHANGED <<idx, commands>>
       \/ ~Unset /\ (Kind = "init" => "embedded" \in repaired) /\ Add(Step) /\ Go
    /\ UNCHANGED <<program, ready, script, emitted, repaired, downloadVars>>

\* The provider runs the commands, or one of them fails.
Execute ==
    /\ phase = "register"
    /\ at > Len(Steps)
    /\ script' = script \o commands
    /\ \/ phase' = "post" /\ at' = 1 /\ UNCHANGED current
       \/ End
    /\ UNCHANGED <<program, ready, idx, commands, emitted, unsent, repaired, downloadVars>>

-----------------------------------------------------------------------------
(* Post. *)

PostSend ==
    /\ Kind \in {"init", "run", "bytes up", "file up"}
    /\ Embedded
    /\ UNCHANGED <<emitted, downloadVars>>

\* destPath is empty: DownloadStarted is emitted, DownloadFinished is not.
PostNowhere ==
    /\ Kind \in {"bytes", "json"}
    /\ "destination" \notin repaired
    /\ emitted' = emitted \cup {<<"started", Step>>}
    /\ End
    /\ UNCHANGED <<unsent, downloadVars>>

\* Both events are emitted, the second as soon as the download has started, not
\* when it has ended; not at all if it hangs.
PostReceive ==
    /\ Receives
    /\ Kind # "file" => "destination" \in repaired
    /\ IF Kind = "file" THEN DownloadFile(Step) ELSE DownloadBytes(Step, Default)
    /\ IF state'[Step] = "blocked"
       THEN /\ phase' = "hung"
            /\ emitted' = emitted \cup {<<"started", Step>>}
            /\ UNCHANGED <<current, at, unsent>>
       ELSE /\ emitted' = emitted \cup {<<"started", Step>>, <<"finished", Step>>}
            /\ Go

Post ==
    /\ phase = "post"
    /\ at <= Len(Steps)
    /\ PostSend \/ PostNowhere \/ PostReceive
    /\ UNCHANGED <<program, ready, idx, commands, script, repaired>>

Posted ==
    /\ phase = "post"
    /\ at > Len(Steps)
    /\ End
    /\ UNCHANGED <<program, effects, repaired, downloadVars>>

-----------------------------------------------------------------------------
Goroutines == DownloadStep /\ UNCHANGED <<program, executor, effects, repaired>>

Next ==
    /\ ~crashed /\ phase # "panicked"
    /\ \/ \E kind \in QueueKinds : Queue(kind)
       \/ Commit
       \/ Take \/ Prepare \/ Prepared \/ Register \/ Execute \/ Post \/ Posted
       \/ Goroutines

Spec == Init /\ [][Next]_vars

-----------------------------------------------------------------------------
(* Properties. *)

\* The last of the steps in the batches before b.
Before(b) == IF b = 1 THEN 0 ELSE Last(batches[b - 1])

Follows(steps, s) == \A i \in 1..Len(steps) : steps[i] = s + i

\* Every step is in one batch, or pending, in the order in which it was queued,
\* and nothing comes before the step that deploys.
NoStepIsLost ==
    /\ \A b \in 1..Len(batches) : batches[b] # <<>> /\ Follows(batches[b], Before(b))
    /\ LET last == Before(Len(batches) + 1)
       IN  Follows(pending, last) /\ Len(kinds) = last + Len(pending)
    /\ \A s \in 1..Len(kinds) : kinds[s] = "init" <=> s = 1

\* The steps that a batch posts find their commands in the script at their idx,
\* and no two share one, if containers are passed by reference.  Passed by
\* value, the script stays empty.
IndexNamesCommand ==
    phase = "post" =>
       IF "container" \in repaired
       THEN \A i \in 1..Len(Steps) :
               kinds[Steps[i]] # "init" => \E j \in DOMAIN commands :
                  j = idx[Steps[i]] + 1 /\ commands[j].step = Steps[i]
       ELSE script = <<>>

Bare(item) == item.args = "none"

\* The first two of the items are bare, and no other one is.
Opens(items) ==
    /\ Len(items) >= 2
    /\ \A i \in 1..Len(items) : Bare(items[i]) <=> i <= 2

\* The two empty maps that stand for deploy and start are sent before anything else,
\* and once, whatever is committed when and whichever batches fail; but if the first
\* batch fails before it is sent, they are lost with it, and what the later ones
\* send is sent to a provider that was never told to deploy.
DeploymentComesFirst ==
    IF script = <<>> \/ 1 \in unsent
    THEN \A i \in 1..Len(script) : ~Bare(script[i])
    ELSE Opens(script)

\* Commands in the order of their steps, none of them twice; the two of the step
\* that deploys cannot be told apart.
InOrder(items) ==
    \A i, j \in 1..Len(items) :
       i < j => \/ items[i].step < items[j].step
                \/ items[i].step = items[j].step /\ Bare(items[i]) /\ Bare(items[j]) /\ j = i + 1

\* The provider is never sent a command twice, nor one of an earlier step after one of
\* a later one, whichever batches fail.
ScriptInOrder == InOrder(script)

\* With an embedded interface left as it is, no batch gets further than its
\* preparation; with the misspelt method, none gets to a download.
DefectsBlockBatch ==
    /\ "embedded" \notin repaired => script = <<>> /\ emitted = {} /\ phase \notin {"post", "hung"}
    /\ "prepair" \notin repaired => emitted = {}
=============================================================================

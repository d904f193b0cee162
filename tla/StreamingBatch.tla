--------------------------- MODULE StreamingBatch ---------------------------
(***************************************************************************)
(* StreamingBatch.Poll, pkg/rest/activity.go: it connects to the event     *)
(* stream of a batch in its caller's goroutine, trying again until ctx is  *)
(* done, and then starts a goroutine that reads the stream.  Nothing is    *)
(* ever sent on the channels that Poll returns.                            *)
(***************************************************************************)
EXTENDS Naturals

CONSTANT Size       \* the number of commands of the batch

VARIABLES
    reader,     \* where Poll is, in its caller until "wait"
    timely,     \* did getBatchCtx get a second or more?
    finished,   \* the finished commands the goroutine has heard of
    left,       \* SecondsLeft: "plenty", "subsecond" (under one) or "none"
    cancelled   \* is ctx done?

streamVars == <<reader, timely, finished, left, cancelled>>

Connecting == {"connect", "subscribe", "sleep"}
Gone == {"returned", "exit", "panicked"}

Init ==
    /\ reader = "connect"
    /\ timely = TRUE
    /\ finished = 0
    /\ left \in {"plenty", "subsecond", "none"}
    /\ cancelled \in BOOLEAN

-----------------------------------------------------------------------------
(* The connection. *)

\* The head of the loop: give up if ctx is done, or take the time that is left,
\* cut to whole seconds.
Connect ==
    /\ reader = "connect"
    /\ reader' = IF cancelled THEN "returned" ELSE "subscribe"
    /\ timely' = (left = "plenty")
    /\ UNCHANGED <<finished, left, cancelled>>

Subscribe ==
    /\ reader = "subscribe"
    /\ timely /\ ~cancelled
    /\ reader' = "wait"
    /\ UNCHANGED <<timely, finished, left, cancelled>>

\* It failed, always if getBatchCtx has expired: five seconds of sleep.
SubscribeFails ==
    /\ reader = "subscribe"
    /\ reader' = "sleep"
    /\ UNCHANGED <<timely, finished, left, cancelled>>

Wake ==
    /\ reader = "sleep"
    /\ reader' = "connect"
    /\ UNCHANGED <<timely, finished, left, cancelled>>

-----------------------------------------------------------------------------
(* An event of the stream, and what commandEventCtx makes of it. *)

Kinds == {"started", "finished", "stdout", "stderr", "other"}

\* "runtime" events have an object with one kind, whose data is complete if it
\* has what the kind needs: a command, an integer return_code.
Events == [event : {"runtime", "other"}, kind : Kinds, complete : BOOLEAN]

Class == [started |-> "Event", finished |-> "CommandExecuted",
          stdout |-> "CommandStdOut", stderr |-> "CommandStdErr"]

\* An error, for which it returns nil instead of a context.
Rejected(e) ==
    \/ e.event # "runtime"
    \/ e.kind = "other"
    \/ e.kind \in {"started", "finished"} /\ ~e.complete

KwargsOf(kind) ==
    {"cmd_id"} \cup CASE kind = "started"  -> {"command"}
                      [] kind = "finished" -> {"success"}
                      [] OTHER             -> {"output"}

\* The event of a command that a provider has executed.
CommandEventCtx(e) == [class |-> Class[e.kind], kwargs |-> KwargsOf(e.kind)]

\* It asks for "cmd_idx", which commandEventCtx calls "cmd_id", and for no
\* success, which every finished event has.  The mutant asks for the class only.
FinishedByClass(c) == c.class = "CommandExecuted"
ComputationFinished(c) ==
    /\ c.class = "CommandExecuted"
    /\ "cmd_idx" \in c.kwargs
    /\ "success" \notin c.kwargs

\* One event.  A rejected one is logged, and its nil context dereferenced.
Receive(e) ==
    /\ reader = "wait"
    /\ e.kind = "finished" => finished < Size
    /\ reader' = IF Rejected(e) THEN "panicked"
                 ELSE IF ComputationFinished(CommandEventCtx(e)) THEN "exit"
                 ELSE "wait"
    /\ finished' = finished + (IF Rejected(e) \/ e.kind # "finished" THEN 0 ELSE 1)
    /\ UNCHANGED <<timely, left, cancelled>>

\* case <-getBatchCtx.Done(), which ends with ctx, or up to a second before the
\* deadline.  The case of ctx itself has no statement: the loop goes on.  The
\* mutant has that case only.
CtxIgnored == FALSE
BatchCtxDone == cancelled \/ left # "plenty"

Expire ==
    /\ reader = "wait"
    /\ BatchCtxDone
    /\ reader' = "exit"
    /\ UNCHANGED <<timely, finished, left, cancelled>>

-----------------------------------------------------------------------------
Tick ==
    /\ \/ left = "plenty" /\ left' = "subsecond"
       \/ left = "subsecond" /\ left' = "none"
    /\ UNCHANGED <<reader, timely, finished, cancelled>>

Cancel ==
    /\ ~cancelled
    /\ cancelled' = TRUE
    /\ UNCHANGED <<reader, timely, finished, left>>

Poll ==
    \/ Connect \/ Subscribe \/ SubscribeFails \/ Wake
    \/ \E e \in Events : Receive(e)
    \/ Expire

Next == Poll \/ Tick \/ Cancel

Spec == Init /\ [][Next]_streamVars

TypeOK ==
    /\ reader \in Connecting \cup {"wait"} \cup Gone
    /\ timely \in BOOLEAN
    /\ finished \in 0..Size
    /\ left \in {"plenty", "subsecond", "none"}
    /\ cancelled \in BOOLEAN

\* The end of the batch does not end the stream: the goroutine, its connection
\* and its reader stay until the last second before the deadline, or until ctx
\* is done, also when every command has finished.
OnlyTimeEndsStream == reader = "exit" => cancelled \/ left # "plenty"
=============================================================================

---------------------------- MODULE ActivityBatch ----------------------------
(***************************************************************************)
(* Activity.Send, pkg/rest/activity.go: the script is sent, and its result *)
(* is a batch that is polled or streamed.  The two ways to follow a batch  *)
(* share its deadline and the context given to Poll.                       *)
(***************************************************************************)
EXTENDS PollingBatch

VARIABLES
    sent,                     \* "no", "failed", "polling" or "streaming"
    reader, timely, finished  \* see StreamingBatch

Streaming == INSTANCE StreamingBatch

streamed == <<reader, timely, finished>>
polled   == <<pc, loop, given, consumer, provider>>
batchVars == <<sent, vars, streamed>>

BatchInit == Init /\ Streaming!Init /\ sent = "no"

\* Exec fails, or answers with something that is not a quoted id, or gives the
\* id of the batch.
SendScript ==
    /\ sent = "no"
    /\ sent' \in {"failed", "polling", "streaming"}
    /\ UNCHANGED <<vars, streamed>>

Polling(step) == sent = "polling" /\ step /\ UNCHANGED <<sent, streamed>>
Reading(step) == sent = "streaming" /\ step /\ UNCHANGED <<sent, polled>>

BatchNext == SendScript \/ Polling(Next) \/ Reading(Streaming!Next)

BatchSpec == BatchInit /\ [][BatchNext]_batchVars

\* The goroutines run whenever they can and every request ends by its own
\* timeout; a select whose cases are ready takes each of them sooner or later.
\* Nothing makes the provider work or the consumer read.
FairBatchSpec ==
    /\ BatchSpec
    /\ WF_batchVars(Polling(Poll))
    /\ WF_batchVars(Reading(Streaming!Connect \/ Streaming!SubscribeFails \/ Streaming!Wake))
    /\ SF_batchVars(Reading(Streaming!Expire))

-----------------------------------------------------------------------------
(* Properties, with those of PollingBatch. *)

\* The end of the batch does not end the stream: the goroutine, its connection
\* and its reader stay until the last second before the deadline, or until ctx
\* is done, also when every command has finished.
OnlyTimeEndsStream == Streaming!OnlyTimeEndsStream

PollEnded == pc \in {"exit", "panicked"} \/ consumer = "gone"

StreamEnded ==
    \/ reader \in Streaming!Gone
    \/ reader \in Streaming!Connecting /\ ~cancelled

\* When ctx is done, or the deadline has passed, the goroutine of Poll ends.
\* Polling, one whose consumer left may stay, as its sends do not wait for the
\* context.  Streaming, Poll may stay in its caller if the deadline passed
\* before it could connect: only ctx ends that loop.
BatchEnds ==
    (sent \in {"polling", "streaming"} /\ (cancelled \/ left = "none"))
       ~> (sent = "polling" /\ PollEnded) \/ (sent = "streaming" /\ StreamEnded)
=============================================================================

---------------------------- MODULE PollingBatch ----------------------------
(***************************************************************************)
(* PollingBatch.Poll, pkg/rest/activity.go: a goroutine asks the provider, *)
(* through the activity service, for the results of a batch of commands,   *)
(* and hands them to a consumer over unbuffered channels, until all have   *)
(* come, the deadline has passed, the context is cancelled, or a request   *)
(* fails.  The provider runs the batch meanwhile, time passes, and the     *)
(* consumer, which no file of the repository implements, may stop reading. *)
(***************************************************************************)
EXTENDS Naturals, Sequences

CONSTANTS
    Size,    \* the number of commands of the batch
    Faults   \* what a provider may do wrong: "index" (a result with another
             \* Index), "short" (an answer with fewer results than before),
             \* "shape" (a result with any of Shapes, wherever it stands);
             \* no answer has more results than the batch has commands

ASSUME BatchAssumption == Size \in Nat /\ Faults \subseteq {"index", "short", "shape"}

VARIABLES
    pc,         \* where the goroutine is
    lastIdx,    \* the results handed over so far
    rest,       \* the results of the last answer still to hand over
    err,        \* the error to hand over
    timeout,    \* the time left when the loop last looked
    left,       \* SecondsLeft: "plenty", "subsecond" (under one) or "none"
    cancelled,  \* is ctx done?
    consumer,   \* "listening" or "gone"
    delivered,  \* cmd_idx of the events the consumer received
    errors,     \* the errors the consumer received
    executed,   \* the commands that have a result
    ended,      \* has the provider finished the batch?
    faults      \* what this provider does wrong, chosen once

vars == <<pc, lastIdx, rest, err, timeout, left, cancelled, consumer, delivered,
          errors, executed, ended, faults>>

loop     == <<lastIdx, rest, err, timeout>>
given    == <<delivered, errors>>
around   == <<left, cancelled, consumer>>
provider == <<executed, ended, faults>>

Labels == {"check", "request", "range", "send", "flag", "error", "sleep", "exit", "panicked"}

\* "finished" has IsBatchFinished set; "partial" has no Message and only one
\* of Stdout and Stderr; "unmarked" has no IsBatchFinished.
Shapes == {"ok", "finished", "partial", "unmarked"}
Results == [index : 0..Size, shape : Shapes]
Fatal == {"timeout", "api"}
ErrorKinds == Fatal \cup {"mismatch"}

Init ==
    /\ pc = "check"
    /\ lastIdx = 0
    /\ rest = <<>>
    /\ err = "mismatch"
    /\ timeout = "plenty"
    /\ left \in {"plenty", "subsecond", "none"}
    /\ cancelled \in BOOLEAN
    /\ consumer = "listening"
    /\ delivered = <<>>
    /\ errors = {}
    /\ executed = 0
    /\ ended = FALSE
    /\ faults \in SUBSET Faults

-----------------------------------------------------------------------------
(* The head of the loop. *)

\* lastIdx < pb.size.  The mutant also asks for the result after the last.
MoreOrEqual == lastIdx <= Size
More == lastIdx < Size

CancelSeen == cancelled

Check ==
    /\ pc = "check"
    /\ \/ /\ ~More \/ CancelSeen
          /\ pc' = "exit"
          /\ UNCHANGED <<timeout, err>>
       \/ /\ More /\ ~CancelSeen /\ left = "none"
          /\ pc' = "error"
          /\ err' = "timeout"
          /\ UNCHANGED timeout
       \/ /\ More /\ ~CancelSeen /\ left # "none"
          /\ pc' = "request"
          /\ timeout' = left
          /\ UNCHANGED err
    /\ UNCHANGED <<lastIdx, rest, given, around, provider>>

-----------------------------------------------------------------------------
(* GetExecBatchResults.  Its context ends with ctx, or after the seconds     *)
(* that are left, five at most: none at all when less than one is left.      *)

InTime == ~cancelled /\ timeout = "plenty"

\* The context ended, with or without an answer; or the service said 408.
Retry ==
    /\ pc = "request"
    /\ pc' = "check"
    /\ UNCHANGED <<loop, given, around, provider>>

\* Any other error answer.
ApiError ==
    /\ pc = "request"
    /\ InTime
    /\ pc' = "error"
    /\ err' = "api"
    /\ UNCHANGED <<lastIdx, rest, timeout, given, around, provider>>

\* An error without an answer: resp.StatusCode dereferences nil.
NoAnswer ==
    /\ pc = "request"
    /\ InTime
    /\ pc' = "panicked"
    /\ UNCHANGED <<loop, given, around, provider>>

\* The result of command i - 1, in a provider's right answer.
RightResult(i) ==
    [index |-> i - 1, shape |-> IF ended /\ i = executed THEN "finished" ELSE "ok"]

WrongResults(i) ==
    {r \in Results : /\ r.index = i - 1 \/ "index" \in faults
                     /\ r.shape = RightResult(i).shape \/ "shape" \in faults}

\* An answer may be older than the provider's last one.
Lengths == IF "short" \in faults THEN 0..executed ELSE lastIdx..executed

\* results[lastIdx:] begins here.  The mutant reads the answer from its start.
FirstOfAll == 1
FirstUnseen == lastIdx + 1

\* It has results.  The bound on wrong results: one, at `odd`.
Answer ==
    /\ pc = "request"
    /\ InTime
    /\ \E n \in Lengths : \E odd \in 1..n : \E wrong \in WrongResults(odd) :
          /\ n > lastIdx
          /\ rest' = SubSeq([i \in 1..n |-> IF i = odd THEN wrong ELSE RightResult(i)],
                            FirstUnseen, n)
    /\ pc' = "range"
    /\ UNCHANGED <<lastIdx, err, timeout, given, around, provider>>

\* It is empty: anyNew stays false.
NothingNew ==
    /\ pc = "request"
    /\ InTime
    /\ lastIdx \in Lengths
    /\ pc' = "sleep"
    /\ UNCHANGED <<loop, given, around, provider>>

\* It is out of range.
TooShort ==
    /\ pc = "request"
    /\ InTime
    /\ \E n \in Lengths : n < lastIdx
    /\ pc' = "panicked"
    /\ UNCHANGED <<loop, given, around, provider>>

Wake ==
    /\ pc = "sleep"
    /\ pc' = "check"
    /\ UNCHANGED <<loop, given, around, provider>>

-----------------------------------------------------------------------------
(* The loop over results. *)

\* lastIdx == int(result.Index).  The mutant trusts the provider.
IndexTrusted(r) == TRUE
IndexMatches(r) == lastIdx = r.index

RangeNext ==
    /\ pc = "range"
    /\ rest # <<>>
    /\ IndexMatches(Head(rest))
    /\ pc' = IF Head(rest).shape = "partial" THEN "panicked" ELSE "send"
    /\ UNCHANGED <<loop, given, around, provider>>

RangeEnd ==
    /\ pc = "range"
    /\ rest = <<>>
    /\ pc' = "check"
    /\ UNCHANGED <<loop, given, around, provider>>

\* This break leaves the inner loop only: the batch is asked for again.
Mismatch ==
    /\ pc = "range"
    /\ rest # <<>>
    /\ ~IndexMatches(Head(rest))
    /\ pc' = "error"
    /\ err' = "mismatch"
    /\ rest' = <<>>
    /\ UNCHANGED <<lastIdx, timeout, given, around, provider>>

\* lastIdx = int(result.Index + 1).  The mutant forgets it.
IndexKept(r) == lastIdx
IndexAfter(r) == r.index + 1

\* The send waits for the consumer, and for nothing else.
Send ==
    /\ pc = "send"
    /\ consumer = "listening"
    /\ delivered' = Append(delivered, Head(rest).index)
    /\ lastIdx' = IndexAfter(Head(rest))
    /\ pc' = "flag"
    /\ UNCHANGED <<rest, err, timeout, errors, around, provider>>

\* *result.IsBatchFinished ends the inner loop only.
Flag ==
    /\ pc = "flag"
    /\ pc' = IF Head(rest).shape = "unmarked" THEN "panicked" ELSE "range"
    /\ rest' = IF Head(rest).shape = "finished" THEN <<>> ELSE Tail(rest)
    /\ UNCHANGED <<lastIdx, err, timeout, given, around, provider>>

\* Where the break after an error leads.  The mutant breaks out of a select.
NeverLast(kind) == FALSE
LastError(kind) == kind \in Fatal

SendError ==
    /\ pc = "error"
    /\ consumer = "listening"
    /\ errors' = errors \cup {err}
    /\ pc' = IF LastError(err) THEN "exit" ELSE "check"
    /\ UNCHANGED <<loop, delivered, around, provider>>

-----------------------------------------------------------------------------
(* Time, the context, the consumer and the provider. *)

Tick ==
    /\ \/ left = "plenty" /\ left' = "subsecond"
       \/ left = "subsecond" /\ left' = "none"
    /\ UNCHANGED <<pc, loop, given, cancelled, consumer, provider>>

Cancel ==
    /\ ~cancelled
    /\ cancelled' = TRUE
    /\ UNCHANGED <<pc, loop, given, left, consumer, provider>>

Leave ==
    /\ consumer = "listening"
    /\ consumer' = "gone"
    /\ UNCHANGED <<pc, loop, given, left, cancelled, provider>>

Execute ==
    /\ ~ended
    /\ executed < Size
    /\ executed' = executed + 1
    /\ UNCHANGED <<pc, loop, given, around, ended, faults>>

\* The last command was executed, or one of them failed.
End ==
    /\ ~ended
    /\ executed > 0
    /\ ended' = TRUE
    /\ UNCHANGED <<pc, loop, given, around, executed, faults>>

-----------------------------------------------------------------------------
Poll ==
    \/ Check
    \/ Retry \/ ApiError \/ NoAnswer \/ Answer \/ NothingNew \/ TooShort \/ Wake
    \/ RangeNext \/ RangeEnd \/ Mismatch \/ Send \/ Flag \/ SendError

Next == Poll \/ Tick \/ Cancel \/ Leave \/ Execute \/ End

Spec == Init /\ [][Next]_vars

-----------------------------------------------------------------------------
(* Properties. *)

TypeOK ==
    /\ pc \in Labels
    /\ lastIdx \in 0..Size
    /\ rest \in Seq(Results)
    /\ err \in ErrorKinds
    /\ timeout \in {"plenty", "subsecond"}
    /\ left \in {"plenty", "subsecond", "none"}
    /\ cancelled \in BOOLEAN
    /\ consumer \in {"listening", "gone"}
    /\ delivered \in Seq(0..Size)
    /\ errors \subseteq ErrorKinds
    /\ executed \in 0..Size
    /\ ended \in BOOLEAN
    /\ faults \subseteq Faults

\* The consumer receives the results of commands 0, 1, 2, ... each once and in
\* this order, whatever the provider answers and however often the same answer
\* comes again after a timeout or a wrong index.
InOrderOnce ==
    \A i \in 1..Len(delivered) : delivered[i] = i - 1

\* No result is handed over of a command the provider did not execute: the
\* goroutine never reads past the answer it holds, also when that is older
\* than what it has handed over already.
DeliveredWasExecuted == Len(delivered) + (IF pc = "send" THEN 1 ELSE 0) <= executed

\* The goroutine ends for a reason its consumer can tell: all results came and
\* no error did, or the last error was fatal and results are missing, or the
\* context was cancelled.
ExitIsExplained ==
    /\ pc = "exit" => Len(delivered) = Size \/ cancelled \/ errors \cap Fatal # {}
    /\ errors \cap Fatal # {} => pc = "exit" /\ Len(delivered) < Size

\* A provider that numbers its results rightly is never reported to have sent
\* a wrong index, even if its answers are old or come again.
NoFalseMismatch == "index" \notin faults => "mismatch" \notin errors

-----------------------------------------------------------------------------
(* Poll implements the stream its consumer sees. *)

Stream ==
    IF pc = "panicked" THEN "abandoned"
    ELSE IF pc # "exit" THEN "open"
    ELSE IF errors \cap Fatal # {} THEN "failed"
    ELSE IF lastIdx = Size THEN "complete"
    ELSE "abandoned"

Commands == INSTANCE CommandStream WITH next <- Len(delivered), stream <- Stream

\* Every behaviour of Poll is one of the stream.
ImplementsStream == Commands!Spec
=============================================================================

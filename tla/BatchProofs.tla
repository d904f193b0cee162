---------------------------- MODULE BatchProofs ----------------------------
(***************************************************************************)
(* The safety properties of PollingBatch for every size of a batch and     *)
(* every kind of wrong answer; and of ActivityBatch: a batch that is sent  *)
(* to an activity behaves as PollingBatch says while it is polled, so that *)
(* what is proved of PollingBatch holds of it, and only time or its        *)
(* context end a stream.                                                   *)
(***************************************************************************)
EXTENDS ActivityBatch, SequenceTheorems, TLAPS

\* What has been handed over: lastIdx results, the first ones, in order.
DeliveredOK == Len(delivered) = lastIdx /\ InOrderOnce

\* The results at hand end where the executed commands end.
RestOK ==
    /\ lastIdx <= executed
    /\ pc \in {"range", "send"} => lastIdx + Len(rest) <= executed
    /\ pc = "flag" => rest # <<>> /\ lastIdx + Len(rest) <= executed + 1
    /\ pc = "send" => rest # <<>> /\ rest[1].index = lastIdx

\* Why the goroutine may report a fatal error, and what it did after one.
ExitOK ==
    /\ pc = "request" => lastIdx < Size
    /\ pc = "error" /\ err \in Fatal => lastIdx < Size
    /\ pc = "exit" => lastIdx = Size \/ cancelled \/ errors \cap Fatal # {}
    /\ errors \cap Fatal # {} => pc = "exit" /\ lastIdx < Size

IInv == TypeOK /\ DeliveredOK /\ RestOK /\ ExitOK

USE BatchAssumption

-----------------------------------------------------------------------------
LEMMA InitIInv == Init => IInv
<1> SUFFICES ASSUME Init PROVE IInv
  OBVIOUS
<1>1. TypeOK
  <2>1. rest \in Seq(Results) /\ delivered \in Seq(0..Size)
    BY DEF Init
  <2>2. lastIdx \in 0..Size /\ executed \in 0..Size
    BY DEF Init
  <2> QED
    BY <2>1, <2>2 DEF Init, TypeOK, Labels, ErrorKinds
<1>2. DeliveredOK /\ RestOK /\ ExitOK
  BY DEF Init, DeliveredOK, InOrderOnce, RestOK, ExitOK
<1> QED
  BY <1>1, <1>2 DEF IInv

\* The answer the goroutine begins to hand over.
LEMMA StepAnswer == ASSUME IInv, Answer PROVE IInv'
<1> USE DEF IInv
<1>1. PICK n \in Lengths : \E odd \in 1..n : \E wrong \in WrongResults(odd) :
         /\ n > lastIdx
         /\ rest' = SubSeq([i \in 1..n |-> IF i = odd THEN wrong ELSE RightResult(i)],
                           FirstUnseen, n)
  BY DEF Answer
<1>2. PICK odd \in 1..n : \E wrong \in WrongResults(odd) :
         /\ n > lastIdx
         /\ rest' = SubSeq([i \in 1..n |-> IF i = odd THEN wrong ELSE RightResult(i)],
                           FirstUnseen, n)
  BY <1>1
<1>3. PICK wrong \in WrongResults(odd) :
         /\ n > lastIdx
         /\ rest' = SubSeq([i \in 1..n |-> IF i = odd THEN wrong ELSE RightResult(i)],
                           FirstUnseen, n)
  BY <1>2
<1> DEFINE results == [i \in 1..n |-> IF i = odd THEN wrong ELSE RightResult(i)]
<1>4. n \in 0..Size /\ n <= executed
  BY DEF TypeOK, Lengths
<1>5. \A i \in 1..n : RightResult(i) \in Results
  BY <1>4 DEF RightResult, Results, Shapes
<1>6. wrong \in Results
  BY DEF WrongResults
<1>7. results \in Seq(Results) /\ Len(results) = n
  BY <1>4, <1>5, <1>6
<1>8. rest' \in Seq(Results) /\ Len(rest') = n - lastIdx
  <2>1. rest' = SubSeq(results, lastIdx + 1, n) /\ lastIdx \in 0..n-1
    BY <1>3, <1>4 DEF FirstUnseen, TypeOK
  <2> HIDE DEF results
  <2>2. /\ n \in Int /\ lastIdx + 1 \in Int
        /\ lastIdx + 1 \in 1..n+1 /\ n - (lastIdx + 1) + 1 = n - lastIdx
    BY <1>4, <2>1
  <2>3. \A i \in lastIdx + 1 .. n : results[i] \in Results
    BY <1>4, <1>7, <2>1
  <2>4. SubSeq(results, lastIdx + 1, n) = [i \in 1..n - lastIdx |-> results[i + lastIdx]]
    BY <1>7, <2>1, <2>2
  <2> QED
    BY <2>1, <2>2, <2>3, <2>4
<1>9. TypeOK'
  BY <1>8 DEF Answer, TypeOK, Labels, given, around, provider
<1>10. DeliveredOK' /\ RestOK' /\ ExitOK'
  <2>1. /\ pc = "request" /\ pc' = "range"
        /\ UNCHANGED <<lastIdx, err, delivered, errors, cancelled, executed>>
    BY DEF Answer, given, around, provider
  <2>2. lastIdx \in 0..Size /\ executed \in 0..Size /\ lastIdx + Len(rest') <= executed
    BY <1>4, <1>8 DEF TypeOK
  <2> QED
    BY <2>1, <2>2 DEF DeliveredOK, InOrderOnce, RestOK, ExitOK
<1> QED
  BY <1>9, <1>10

\* One result goes to the consumer.
LEMMA StepSend == ASSUME IInv, Send PROVE IInv'
<1> USE DEF IInv, Send
<1>1. /\ lastIdx \in 0..Size /\ executed \in 0..Size
      /\ rest[1].index = lastIdx /\ Len(rest) > 0
      /\ lastIdx + Len(rest) <= executed
  BY DEF TypeOK, RestOK
<1>2. lastIdx' = lastIdx + 1 /\ delivered' = Append(delivered, lastIdx)
  BY <1>1 DEF IndexAfter, TypeOK
<1>3. DeliveredOK'
  BY <1>1, <1>2 DEF DeliveredOK, InOrderOnce, TypeOK
<1>4. TypeOK'
  BY <1>1, <1>2 DEF TypeOK, Labels, around, provider
<1>5. RestOK' /\ ExitOK'
  BY <1>1, <1>2 DEF RestOK, ExitOK, TypeOK, around, provider, Fatal
<1> QED
  BY <1>3, <1>4, <1>5

LEMMA StepFlag == ASSUME IInv, Flag PROVE IInv'
<1> USE DEF IInv, Flag
<1>1. rest \in Seq(Results) /\ rest # <<>>
  BY DEF TypeOK, RestOK
<1>2. rest' \in Seq(Results) /\ Len(rest') <= Len(rest) - 1
  BY <1>1
<1> QED
  BY <1>1, <1>2 DEF TypeOK, DeliveredOK, InOrderOnce, RestOK, ExitOK, Labels, given, around,
     provider

\* The steps that neither take up an answer nor hand over a result.
LEMMA OtherSteps ==
  ASSUME IInv,
         \/ Check \/ Retry \/ ApiError \/ NoAnswer \/ NothingNew \/ TooShort \/ Wake
         \/ RangeNext \/ RangeEnd \/ Mismatch \/ SendError
         \/ Tick \/ Cancel \/ Leave \/ Execute \/ End
  PROVE  IInv'
<1> USE DEF IInv, TypeOK, DeliveredOK, InOrderOnce, RestOK, ExitOK, Labels, ErrorKinds, Fatal,
            loop, given, around, provider
<1>1. CASE Check
  BY <1>1 DEF Check, More, CancelSeen
<1>2. CASE Retry \/ ApiError \/ NoAnswer \/ NothingNew \/ TooShort \/ Wake
  BY <1>2 DEF Retry, ApiError, NoAnswer, NothingNew, TooShort, Wake
<1>3. CASE RangeNext \/ RangeEnd \/ Mismatch
  <2>1. rest # <<>> => Head(rest) = rest[1] /\ Head(rest) \in Results
    OBVIOUS
  <2>2. CASE RangeNext
    BY <2>1, <2>2 DEF RangeNext, IndexMatches
  <2>3. CASE RangeEnd
    BY <2>3 DEF RangeEnd
  <2>4. CASE Mismatch
    BY <2>4 DEF Mismatch
  <2> QED
    BY <1>3, <2>2, <2>3, <2>4
<1>4. CASE SendError
  BY <1>4 DEF SendError, LastError
<1>5. CASE Tick \/ Cancel \/ Leave \/ Execute \/ End
  <2>1. CASE Tick
    BY <2>1 DEF Tick
  <2>2. CASE Cancel
    BY <2>2 DEF Cancel
  <2>3. CASE Leave
    BY <2>3 DEF Leave
  <2>4. CASE Execute
    BY <2>4 DEF Execute
  <2>5. CASE End
    BY <2>5 DEF End
  <2> QED
    BY <1>5, <2>1, <2>2, <2>3, <2>4, <2>5
<1> QED
  BY <1>1, <1>2, <1>3, <1>4, <1>5

LEMMA NextIInv == IInv /\ [Next]_vars => IInv'
<1> SUFFICES ASSUME IInv, [Next]_vars PROVE IInv'
  OBVIOUS
<1>1. CASE Next
  BY <1>1, StepAnswer, StepSend, StepFlag, OtherSteps DEF Next, Poll
<1>2. CASE UNCHANGED vars
  BY <1>2 DEF vars, IInv, TypeOK, DeliveredOK, InOrderOnce, RestOK, ExitOK
<1> QED
  BY <1>1, <1>2

-----------------------------------------------------------------------------
\* The inductive invariant holds in every behaviour.
THEOREM Invariance == Spec => []IInv
BY InitIInv, NextIInv, PTL DEF Spec

\* Every variable keeps its type, in particular lastIdx its bound.
THEOREM TypeCorrect == Spec => []TypeOK
<1>1. IInv => TypeOK
  BY DEF IInv
<1> QED
  BY <1>1, Invariance, PTL

\* Whatever the provider answers, results arrive once each and in order.
THEOREM OrderedDelivery == Spec => []InOrderOnce
<1>1. IInv => InOrderOnce
  BY DEF IInv, DeliveredOK
<1> QED
  BY <1>1, Invariance, PTL

\* No result arrives of a command that has not been executed.
THEOREM OnlyExecuted == Spec => []DeliveredWasExecuted
<1>1. IInv => DeliveredWasExecuted
  BY DEF IInv, TypeOK, DeliveredOK, RestOK, DeliveredWasExecuted
<1> QED
  BY <1>1, Invariance, PTL

\* The goroutine ends for one of the three reasons only.
THEOREM ExplainedExit == Spec => []ExitIsExplained
<1>1. IInv => ExitIsExplained
  BY DEF IInv, DeliveredOK, ExitOK, ExitIsExplained
<1> QED
  BY <1>1, Invariance, PTL

-----------------------------------------------------------------------------
(* A provider that numbers its results rightly is never accused. *)

\* The results at hand carry the numbers the loop expects.
HonestOK ==
    "index" \notin faults =>
        /\ pc \in {"range", "send"} =>
              \A i \in 1..Len(rest) : rest[i].index = lastIdx + i - 1
        /\ pc = "flag" => \A i \in 1..Len(rest) : rest[i].index = lastIdx + i - 2
        /\ pc = "error" => err \in Fatal
        /\ "mismatch" \notin errors

LEMMA HonestStep == ASSUME IInv, HonestOK, [Next]_vars PROVE HonestOK'
<1> SUFFICES ASSUME "index" \notin faults, faults' = faults, Next PROVE HonestOK'
  <2>1. ASSUME Next PROVE faults' = faults
    BY <2>1 DEF Next, Poll, Check, Retry, ApiError, NoAnswer, Answer, NothingNew, TooShort, Wake,
       RangeNext, RangeEnd, Mismatch, Send, Flag, SendError, Tick, Cancel, Leave, Execute, End,
       provider
  <2> QED
    BY <2>1 DEF HonestOK, vars
<1> USE DEF HonestOK, loop, given, around
<1>1. CASE Answer
  <2>1. PICK n \in Lengths : \E odd \in 1..n : \E wrong \in WrongResults(odd) :
           /\ n > lastIdx
           /\ rest' = SubSeq([i \in 1..n |-> IF i = odd THEN wrong ELSE RightResult(i)],
                             FirstUnseen, n)
    BY <1>1 DEF Answer
  <2>2. PICK odd \in 1..n : \E wrong \in WrongResults(odd) :
           /\ n > lastIdx
           /\ rest' = SubSeq([i \in 1..n |-> IF i = odd THEN wrong ELSE RightResult(i)],
                             FirstUnseen, n)
    BY <2>1
  <2>3. PICK wrong \in WrongResults(odd) :
           /\ n > lastIdx
           /\ rest' = SubSeq([i \in 1..n |-> IF i = odd THEN wrong ELSE RightResult(i)],
                             FirstUnseen, n)
    BY <2>2
  <2> DEFINE results == [i \in 1..n |-> IF i = odd THEN wrong ELSE RightResult(i)]
  <2>4. \A i \in 1..n : results[i].index = i - 1
    BY DEF WrongResults, RightResult
  <2>5. n \in Nat /\ lastIdx \in Nat /\ n > lastIdx
    BY <2>3 DEF IInv, TypeOK, Lengths
  <2>6. \A i \in 1..Len(rest') : rest'[i].index = lastIdx + i - 1
    <3>1. rest' = SubSeq(results, lastIdx + 1, n)
      BY <2>3 DEF FirstUnseen
    <3> HIDE DEF results
    <3>2. Len(rest') = n - lastIdx /\ \A i \in 1..n - lastIdx : rest'[i] = results[lastIdx + i]
      BY <2>5, <3>1
    <3>3. ASSUME NEW i \in 1..Len(rest') PROVE rest'[i].index = lastIdx + i - 1
      <4>1. i \in 1..n - lastIdx /\ lastIdx + i \in 1..n
        BY <2>5, <3>2, <3>3
      <4>2. rest'[i] = results[lastIdx + i]
        BY <3>2, <4>1
      <4> QED
        BY <2>4, <2>5, <4>1, <4>2
    <3> QED
      BY <3>3
  <2> QED
    BY <1>1, <2>6 DEF Answer
<1>2. CASE Send
  <2>1. Head(rest) = rest[1] /\ rest # <<>> /\ lastIdx \in Nat
    BY <1>2 DEF Send, IInv, TypeOK, RestOK
  <2>2. lastIdx' = lastIdx + 1
    BY <1>2, <2>1 DEF Send, IndexAfter, IInv, TypeOK, RestOK
  <2>3. /\ pc = "send" /\ pc' = "flag" /\ rest' = rest /\ errors' = errors
        /\ \A i \in 1..Len(rest) : rest[i].index = lastIdx + i - 1
    BY <1>2 DEF Send
  <2>4. \A i \in 1..Len(rest) : lastIdx + i - 1 = lastIdx' + i - 2
    BY <2>1, <2>2
  <2> QED
    BY <2>3, <2>4
<1>3. CASE Flag
  <2>1. rest \in Seq(Results) /\ rest # <<>> /\ lastIdx \in Nat
    BY <1>3 DEF Flag, IInv, TypeOK, RestOK
  <2>2. \A i \in 1..Len(rest') : i + 1 \in 1..Len(rest) /\ rest'[i] = rest[i + 1]
    BY <1>3, <2>1 DEF Flag
  <2> QED
    BY <1>3, <2>1, <2>2 DEF Flag
<1>4. CASE Mismatch
  <2>1. Head(rest) = rest[1] /\ 1 \in 1..Len(rest) /\ lastIdx \in Nat
    BY <1>4 DEF Mismatch, IInv, TypeOK
  <2> QED
    BY <1>4, <2>1 DEF Mismatch, IndexMatches
<1>5. CASE SendError
  BY <1>5 DEF SendError, Fatal
<1>6. CASE \/ Check \/ Retry \/ ApiError \/ NoAnswer \/ NothingNew \/ TooShort \/ Wake
           \/ RangeNext \/ RangeEnd
  BY <1>6 DEF Check, Retry, ApiError, NoAnswer, NothingNew, TooShort, Wake, RangeNext, RangeEnd,
     Fatal
<1>7. CASE Tick \/ Cancel \/ Leave \/ Execute \/ End
  BY <1>7 DEF Tick, Cancel, Leave, Execute, End
<1> QED
  BY <1>1, <1>2, <1>3, <1>4, <1>5, <1>6, <1>7 DEF Next, Poll

\* However old its answers are and however often they come, a provider that
\* numbers its results rightly is never reported.
THEOREM NoFalseAccusation == Spec => []NoFalseMismatch
<1>1. Init => HonestOK
  BY DEF Init, HonestOK
<1>2. IInv /\ HonestOK /\ [Next]_vars => HonestOK'
  BY HonestStep
<1>3. HonestOK => NoFalseMismatch
  BY DEF HonestOK, NoFalseMismatch
<1> QED
  BY <1>1, <1>2, <1>3, Invariance, PTL DEF Spec

-----------------------------------------------------------------------------
(* The goroutine implements the stream of results its consumer sees. *)

LEMMA StreamInit == Init => Commands!Init
BY DEF Init, Commands!Init, Stream

LEMMA StreamStep == IInv /\ [Next]_vars => [Commands!Next]_(Commands!vars)
<1> SUFFICES ASSUME IInv, Next PROVE Commands!Next \/ UNCHANGED Commands!vars
  BY DEF vars, Commands!vars, Stream
<1> USE DEF Commands!Next, Commands!vars
<1>1. CASE Send
  <2>1. Len(delivered') = Len(delivered) + 1 /\ Len(delivered) < Size
    BY <1>1 DEF Send, IInv, TypeOK, DeliveredOK, RestOK
  <2>2. Stream = "open" /\ Stream' = "open"
    BY <1>1 DEF Send, Stream
  <2> QED
    BY <2>1, <2>2 DEF Commands!Deliver
<1>2. CASE Check
  <2>1. delivered' = delivered /\ errors' = errors /\ lastIdx' = lastIdx
        /\ errors \cap Fatal = {} /\ pc = "check"
    BY <1>2 DEF Check, given, IInv, ExitOK
  <2>2. pc' = "exit" => lastIdx >= Size \/ cancelled
    BY <1>2 DEF Check, More, CancelSeen, IInv, TypeOK
  <2>3. pc' # "panicked"
    BY <1>2 DEF Check
  <2> QED
    BY <2>1, <2>2, <2>3 DEF Stream, Commands!Complete, Commands!Abandon, IInv, TypeOK, DeliveredOK
<1>3. CASE SendError
  <2>1. delivered' = delivered /\ pc = "error" /\ errors' = errors \cup {err}
    BY <1>3 DEF SendError
  <2>2. CASE err \in Fatal
    <3>1. pc' = "exit" /\ Len(delivered) < Size /\ errors' \cap Fatal # {}
      BY <1>3, <2>1, <2>2 DEF SendError, LastError, IInv, DeliveredOK, ExitOK
    <3> QED
      BY <2>1, <3>1 DEF Stream, Commands!Fail
  <2>3. CASE err \notin Fatal
    BY <1>3, <2>1, <2>3 DEF SendError, LastError, Stream
  <2> QED
    BY <2>2, <2>3
<1>4. CASE \/ Retry \/ ApiError \/ NoAnswer \/ Answer \/ NothingNew \/ TooShort \/ Wake
           \/ RangeNext \/ RangeEnd \/ Mismatch \/ Flag
  <2>1. delivered' = delivered /\ pc \notin {"exit", "panicked"} /\ pc' # "exit"
    BY <1>4 DEF Retry, ApiError, NoAnswer, Answer, NothingNew, TooShort, Wake, RangeNext,
       RangeEnd, Mismatch, Flag, given
  <2> QED
    BY <2>1 DEF Stream, Commands!Abandon
<1>5. CASE Tick \/ Cancel \/ Leave \/ Execute \/ End
  BY <1>5 DEF Tick, Cancel, Leave, Execute, End, loop, given, Stream
<1> QED
  BY <1>1, <1>2, <1>3, <1>4, <1>5 DEF Next, Poll

\* A consumer of Poll sees a stream that is in order, complete or cut short,
\* and closed for good.
THEOREM PollImplementsStream == Spec => ImplementsStream
BY Invariance, StreamInit, StreamStep, PTL DEF Spec, ImplementsStream, Commands!Spec

-----------------------------------------------------------------------------
\* A step of BatchNext is a step of Poll or of its surroundings, or changes
\* nothing that PollingBatch knows.
LEMMA PollingStep == [BatchNext]_batchVars => [Next]_vars
<1> SUFFICES ASSUME [BatchNext]_batchVars PROVE [Next]_vars
  OBVIOUS
<1>1. CASE SendScript
  BY <1>1 DEF SendScript
<1>2. CASE Polling(Next)
  BY <1>2 DEF Polling
<1>3. CASE Reading(Streaming!Next)
  <2> USE <1>3 DEF Reading, polled, loop, given, provider
  <2>1. CASE Streaming!Poll
    BY <2>1 DEF vars, Streaming!Poll, Streaming!Connect, Streaming!Subscribe,
                Streaming!SubscribeFails, Streaming!Wake, Streaming!Receive, Streaming!Expire
  <2>2. CASE Streaming!Tick
    BY <2>2 DEF Streaming!Tick, Tick, Next
  <2>3. CASE Streaming!Cancel
    BY <2>3 DEF Streaming!Cancel, Cancel, Next
  <2> QED
    BY <2>1, <2>2, <2>3 DEF Streaming!Next
<1>4. CASE UNCHANGED batchVars
  BY <1>4 DEF batchVars
<1> QED
  BY <1>1, <1>2, <1>3, <1>4 DEF BatchNext

\* Activity.Send and what surrounds a batch add nothing to what Poll does.
THEOREM BatchPolls == BatchSpec => Spec
<1>1. BatchInit => Init
  BY DEF BatchInit
<1> QED
  BY <1>1, PollingStep, PTL DEF BatchSpec, Spec

\* Results of a batch arrive once each and in order, whichever way it is followed.
THEOREM BatchInOrder == BatchSpec => []InOrderOnce
  BY BatchPolls, OrderedDelivery, PTL

\* No result of such a batch is one of a command that was not executed; its goroutine
\* ends for a reason that its consumer can tell, and accuses no honest provider.
THEOREM BatchIsHonest ==
  BatchSpec => [](DeliveredWasExecuted /\ ExitIsExplained /\ NoFalseMismatch)
  BY BatchPolls, OnlyExecuted, ExplainedExit, NoFalseAccusation, PTL

\* What a consumer sees of a batch is the ordered stream, whatever Activity.Send did.
THEOREM BatchImplementsStream == BatchSpec => ImplementsStream
  BY BatchPolls, PollImplementsStream, PTL

-----------------------------------------------------------------------------
\* The two ways to follow a batch have one clock, which never runs back, and one
\* context, which is never undone.
LEMMA TimeGoesOn ==
  ASSUME [Next]_vars
  PROVE  (cancelled => cancelled') /\ (left # "plenty" => left' # "plenty")
  BY DEF Next, vars, Poll, Tick, Cancel, Leave, Execute, End, Check, Retry, ApiError, NoAnswer,
         Answer, NothingNew, TooShort, Wake, RangeNext, RangeEnd, Mismatch, Send, Flag, SendError,
         around, loop, given, provider

LEMMA StreamStays == OnlyTimeEndsStream /\ [BatchNext]_batchVars => OnlyTimeEndsStream'
<1> SUFFICES ASSUME OnlyTimeEndsStream, [BatchNext]_batchVars PROVE OnlyTimeEndsStream'
  OBVIOUS
<1> USE DEF OnlyTimeEndsStream, Streaming!OnlyTimeEndsStream
<1>1. (cancelled => cancelled') /\ (left # "plenty" => left' # "plenty")
  BY PollingStep, TimeGoesOn
<1>2. CASE UNCHANGED reader
  BY <1>1, <1>2
<1>3. CASE Reading(Streaming!Poll)
  <2>1. \A c : ~Streaming!ComputationFinished(Streaming!CommandEventCtx(c))
    BY DEF Streaming!ComputationFinished, Streaming!CommandEventCtx, Streaming!KwargsOf,
           Streaming!Class
  <2>2. ASSUME NEW e, Streaming!Receive(e) PROVE OnlyTimeEndsStream'
    BY <2>1, <2>2 DEF Streaming!Receive
  <2>3. CASE Streaming!Expire
    BY <2>3 DEF Streaming!Expire, Streaming!BatchCtxDone
  <2>4. CASE Streaming!Connect \/ Streaming!Subscribe \/ Streaming!SubscribeFails \/ Streaming!Wake
    BY <2>4 DEF Streaming!Connect, Streaming!Subscribe, Streaming!SubscribeFails, Streaming!Wake
  <2> QED
    BY <1>3, <2>2, <2>3, <2>4 DEF Reading, Streaming!Poll
<1> QED
  BY <1>2, <1>3 DEF BatchNext, batchVars, streamed, SendScript, Polling, Reading,
     Streaming!Next, Streaming!Tick, Streaming!Cancel

\* The end of a batch does not end its stream.
THEOREM StreamOutlivesBatch == BatchSpec => []OnlyTimeEndsStream
<1>1. BatchInit => OnlyTimeEndsStream
  BY DEF BatchInit, Streaming!Init, OnlyTimeEndsStream, Streaming!OnlyTimeEndsStream
<1> QED
  BY <1>1, StreamStays, PTL DEF BatchSpec
=============================================================================

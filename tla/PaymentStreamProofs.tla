------------------------- MODULE PaymentStreamProofs -------------------------
(***************************************************************************)
(* The safety properties of PaymentStream, for any number of events.       *)
(***************************************************************************)
EXTENDS PaymentStream, TLAPS

\* What is in hand is empty wherever the goroutine may drop it.
Empty == pc \in {"check", "request", "exit"} => page = {}

\* With the dates read, ts separates what the reader may have received from what
\* is still in hand; the event being fetched or sent is the one at ts.
Separated ==
    dated =>
       /\ start <= ts
       /\ \A e \in Events : times[e] > 0 => start < e /\ e <= ts
       /\ pc = "range" => \A e \in page : ts < e
       /\ pc \in {"fetch", "send"} =>
             /\ start < ts /\ ts \in page /\ times[ts] = 0
             /\ \A e \in page : ts <= e

\* Between ts and what is in hand there is nothing but events of other types.
Contiguous ==
    dated =>
       \A e \in Posted : \A f \in page : ts < e /\ e <= f => e \in page \/ posted[e] = "other"

NewEvent == \E e \in (start + 1)..Len(posted) : posted[e] \in {"received", "unnamed"}

\* Without them, ts is the date of the call until a new event comes.
Undated ==
    ~dated =>
       /\ ts \in {0, start}
       /\ \/ NewEvent
          \/ /\ \A e \in Events : times[e] > 0 => start < e
             /\ pc = "panicked" \/ (ts = start /\ \A e \in page : start < e)

Inv == TypeOK /\ Empty /\ Separated /\ Contiguous /\ Undated /\ NoInvoiceIsForgotten

-----------------------------------------------------------------------------
\* Every quantity is a natural number.
LEMMA Numbers ==
  ASSUME TypeOK
  PROVE  /\ Len(posted) \in Nat /\ Len(posted) <= MaxPosted /\ MaxPosted \in Nat
         /\ ts \in Nat /\ ts <= Len(posted) /\ start \in Nat /\ start <= Len(posted)
         /\ \A e \in page : e \in Nat /\ e \in Posted /\ e \in Events
         /\ \A e \in Posted : e \in Nat /\ e \in Events
         /\ \A e \in Events : times[e] \in Nat
BY PaymentAssumption DEF TypeOK, Posted, Events

LEMMA InitInv == Init => Inv
<1> SUFFICES ASSUME Init PROVE Inv
  OBVIOUS
<1> USE PaymentAssumption DEF Init, CallTime
<1>a. posted \in Seq(Kinds) /\ Len(posted) \in Nat /\ Len(posted) <= MaxPosted
  <2>1. PICK n \in 0..MaxPosted : posted \in [1..n -> Kinds]
    OBVIOUS
  <2>2. posted \in Seq(Kinds) /\ Len(posted) = n
    BY <2>1
  <2> QED BY <2>1, <2>2
<1>b. dated \in BOOLEAN
  OBVIOUS
<1>1. TypeOK
  <2>1. times \in [Events -> 0..MaxTimes]
    OBVIOUS
  <2>2. ts \in 0..Len(posted) /\ start \in 0..Len(posted)
    BY <1>a
  <2>3. dated \in Dated /\ done \in BOOLEAN /\ page \subseteq Posted /\ failed \subseteq Posted
    OBVIOUS
  <2>4. Len(posted) <= MaxPosted /\ pc = "check" /\ reader = "reading"
    BY <1>a
  <2> QED BY <2>1, <2>2, <2>3, <2>4, <1>a DEF TypeOK
<1>2. Empty /\ Separated /\ Contiguous
  BY <1>a DEF Empty, Separated, Contiguous, Events, Posted
<1>3. Undated /\ NoInvoiceIsForgotten
  BY <1>a DEF Undated, NoInvoiceIsForgotten, Events, Posted, Since
<1> QED BY <1>1, <1>2, <1>3 DEF Inv

\* Nothing changes that the rest of the invariant looks at.
LEMMA StepIdle ==
  ASSUME Inv,
         \/ Check \/ RequestFails \/ RangeEnd \/ Cancel \/ Leave
         \/ UNCHANGED vars
  PROVE  Inv'
<1> USE DEF Inv
<1>a. UNCHANGED <<dated, ts, page, start, times, failed, posted>>
  BY DEF Check, RequestFails, RangeEnd, Cancel, Leave, vars, history, environment
<1>b. /\ pc' \in {"check", "request", "exit"} \/ pc' = pc
      /\ pc' # pc => page = {} /\ pc # "panicked"
  BY DEF Check, RequestFails, RangeEnd, Cancel, Leave, vars, Empty
<1>c. done' \in BOOLEAN /\ reader' \in {"reading", "gone"}
  BY DEF Check, RequestFails, RangeEnd, Cancel, Leave, vars, environment, TypeOK
<1>1. TypeOK'
  BY <1>a, <1>b, <1>c DEF TypeOK, Posted
<1>2. Empty'
  BY <1>a, <1>b DEF Empty
<1>3. Separated'
  BY <1>a, <1>b DEF Separated
<1>4. Contiguous'
  BY <1>a DEF Contiguous, Posted
<1>5. Undated'
  <2>1. NewEvent' <=> NewEvent
    BY <1>a DEF NewEvent
  <2> QED BY <1>a, <1>b, <2>1 DEF Undated
<1>6. NoInvoiceIsForgotten'
  BY <1>a DEF NoInvoiceIsForgotten, Posted, Since
<1> QED BY <1>1, <1>2, <1>3, <1>4, <1>5, <1>6

LEMMA StepRequest == ASSUME Inv, Request PROVE Inv'
<1> USE DEF Inv, history, environment
<1> PICK last \in ts..Len(posted) : page' = (ts + 1)..last
  BY DEF Request, Since
<1>a. UNCHANGED <<dated, ts, start, times, failed, done, reader, posted>> /\ pc' = "range"
  BY DEF Request
<1>b. page = {} /\ pc = "request"
  BY DEF Request, Empty
<1>c. \A e \in page' : e \in Posted /\ ts < e
  BY Numbers DEF Posted
<1>1. TypeOK'
  BY <1>a, <1>c DEF TypeOK, Posted
<1>2. Empty' /\ Separated'
  BY <1>a, <1>b, <1>c DEF Empty, Separated
<1>3. Contiguous'
  <2> SUFFICES ASSUME NEW e \in Posted, NEW f \in page', ts < e, e <= f
               PROVE  e \in page'
    BY <1>a DEF Contiguous, Posted
  <2> QED BY Numbers
<1>4. Undated'
  <2>1. NewEvent' <=> NewEvent
    BY <1>a DEF NewEvent
  <2> QED BY <1>a, <1>b, <1>c, <2>1 DEF Undated
<1>5. NoInvoiceIsForgotten'
  BY <1>a, <1>b DEF NoInvoiceIsForgotten, Posted, Since
<1> QED BY <1>1, <1>2, <1>3, <1>4, <1>5

\* ts moves to the date of the event, which stays in hand unless it has no id.
LEMMA StepDate ==
  ASSUME Inv, NEW e \in Posted, IsNext(e), pc = "range",
         posted[e] \in {"received", "unnamed", "null"},
         ts' = DateOf(e),
         \/ posted[e] = "unnamed" /\ page' = page \ {e} /\ pc' = pc
         \/ posted[e] = "null" /\ page' = page /\ pc' = "panicked"
         \/ posted[e] = "received" /\ page' = page /\ pc' = "fetch",
         UNCHANGED <<times, failed, dated, start, done, reader, posted>>
  PROVE  Inv'
<1> USE DEF Inv
<1>a. e \in page /\ e \in Nat /\ e <= Len(posted) /\ 1 <= e /\ \A f \in page : e <= f /\ f \in Nat
  BY Numbers DEF IsNext, Posted
<1>b. page' \subseteq page /\ \A f \in page : f \in page' \/ f = e
  OBVIOUS
<1>c. dated => ts < e /\ ts' = e
  BY <1>a DEF Separated, DateOf
<1>d. ~dated => ts' = 0
  BY DEF DateOf
<1>e. ts' \in 0..Len(posted)
  BY <1>a, <1>c, <1>d, Numbers DEF TypeOK, DateOf
<1>1. TypeOK'
  BY <1>a, <1>b, <1>e DEF TypeOK, Posted
<1>2. Empty'
  BY DEF Empty
<1>3. Separated'
  <2> SUFFICES ASSUME dated
               PROVE  /\ start <= ts' /\ start < ts'
                      /\ \A f \in Events : times[f] > 0 => start < f /\ f <= ts'
                      /\ pc' = "range" => \A f \in page' : ts' < f
                      /\ pc' \in {"fetch", "send"} =>
                            /\ ts' \in page' /\ times[ts'] = 0
                            /\ \A f \in page' : ts' <= f
    BY DEF Separated
  <2>1. start <= ts' /\ start < ts'
    BY <1>a, <1>c, Numbers DEF Separated
  <2>2. \A f \in Events : times[f] > 0 => start < f /\ f <= ts'
    BY <1>a, <1>c, Numbers DEF Separated, Events
  <2>3. pc' = "range" => \A f \in page' : ts' < f
    <3>1. pc' = "range" => page' = page \ {e}
      OBVIOUS
    <3>2. \A f \in page \ {e} : e < f
      BY <1>a
    <3> QED BY <3>1, <3>2, <1>c
  <2>4. times[e] = 0
    <3>1. e \in Events /\ times[e] \in Nat
      BY Numbers
    <3> QED BY <3>1, <1>a, <1>c, Numbers DEF Separated
  <2>5. pc' \in {"fetch", "send"} => page' = page
    OBVIOUS
  <2> QED BY <2>1, <2>2, <2>3, <2>4, <2>5, <1>a, <1>c
<1>4. Contiguous'
  <2> SUFFICES ASSUME dated, NEW x \in Posted, NEW f \in page', ts' < x, x <= f
               PROVE  x \in page' \/ posted[x] = "other"
    BY DEF Contiguous, Posted
  <2>1. x \in Nat /\ ts < x /\ x # e
    BY <1>a, <1>c, Numbers
  <2> QED BY <2>1, <1>b DEF Contiguous
<1>5. Undated'
  <2> SUFFICES ASSUME ~dated
               PROVE  NewEvent' \/ ((\A f \in Events : times[f] > 0 => start < f) /\ pc' = "panicked")
    BY <1>d DEF Undated
  <2>1. NewEvent' <=> NewEvent
    BY DEF NewEvent
  <2>2. CASE NewEvent
    BY <2>1, <2>2
  <2>3. CASE ~NewEvent
    <3>1. start < e /\ \A f \in Events : times[f] > 0 => start < f
      BY <2>3, <1>a DEF Undated
    <3>2. posted[e] = "null"
      BY <2>3, <3>1, <1>a, Numbers DEF NewEvent
    <3> QED BY <3>1, <3>2
  <2> QED BY <2>2, <2>3
<1>6. NoInvoiceIsForgotten'
  <2> SUFFICES ASSUME NEW x \in Posted, x > start, posted[x] = "received"
               PROVE  times[x] > 0 \/ x \in page' \/ x > ts' \/ (dated /\ x \in failed)
    BY DEF NoInvoiceIsForgotten, Posted, Since
  <2>1. CASE ~dated
    BY <2>1, <1>d, Numbers DEF Posted
  <2>2. CASE dated
    <3>1. CASE x > e
      BY <3>1, <2>2, <1>c
    <3>2. CASE x = e
      BY <3>2, <1>a
    <3>3. CASE x < e /\ ts < x
      BY <3>3, <2>2, <1>a, Numbers DEF Contiguous
    <3>4. CASE x <= ts
      <4>1. x \in page => e <= x
        BY <1>a
      <4>2. x \notin page
        BY <3>4, <4>1, <2>2, <1>a, <1>c, Numbers
      <4> QED BY <3>4, <4>2, Numbers DEF NoInvoiceIsForgotten, Since
    <3> QED BY <3>1, <3>2, <3>3, <3>4, <1>a, Numbers
  <2> QED BY <2>1, <2>2
<1> QED BY <1>1, <1>2, <1>3, <1>4, <1>5, <1>6

LEMMA StepSkip == ASSUME Inv, Skip PROVE Inv'
<1> USE DEF Inv, history, environment
<1> PICK e \in Posted : /\ IsNext(e)
                        /\ \/ posted[e] = "other" /\ UNCHANGED ts
                           \/ posted[e] = "unnamed" /\ ts' = DateOf(e)
                        /\ page' = page \ {e}
  BY DEF Skip
<1>a. UNCHANGED <<pc, times, failed, dated, start, done, reader, posted>> /\ pc = "range"
  BY DEF Skip
<1>1. CASE posted[e] = "unnamed" /\ ts' = DateOf(e)
  BY <1>1, <1>a, StepDate
<1>2. CASE posted[e] = "other" /\ UNCHANGED ts
  <2>1. TypeOK'
    BY <1>2, <1>a DEF TypeOK, Posted
  <2>2. Empty' /\ Separated'
    BY <1>2, <1>a DEF Empty, Separated
  <2>3. Contiguous'
    BY <1>2, <1>a DEF Contiguous, Posted
  <2>4. Undated'
    <3>1. NewEvent' <=> NewEvent
      BY <1>a DEF NewEvent
    <3> QED BY <1>2, <1>a, <3>1 DEF Undated
  <2>5. NoInvoiceIsForgotten'
    BY <1>2, <1>a DEF NoInvoiceIsForgotten, Posted, Since
  <2> QED BY <2>1, <2>2, <2>3, <2>4, <2>5
<1> QED BY <1>1, <1>2

LEMMA StepTake == ASSUME Inv, Take PROVE Inv'
<1> PICK e \in Posted : /\ IsNext(e)
                        /\ posted[e] \in {"received", "null"}
                        /\ ts' = DateOf(e)
                        /\ pc' = IF posted[e] = "null" THEN "panicked" ELSE "fetch"
  BY DEF Take
<1>1. UNCHANGED <<page, times, failed, dated, start, done, reader, posted>> /\ pc = "range"
  BY DEF Take, history, environment
<1>2. \/ posted[e] = "null" /\ page' = page /\ pc' = "panicked"
      \/ posted[e] = "received" /\ page' = page /\ pc' = "fetch"
  BY <1>1
<1> QED BY <1>1, <1>2, StepDate

LEMMA StepFetch == ASSUME Inv, Fetch PROVE Inv'
<1> USE DEF Inv, Fetch, history, environment
<1>1. TypeOK' /\ Empty'
  BY DEF TypeOK, Empty, Posted
<1>2. Separated' /\ Contiguous'
  BY DEF Separated, Contiguous, Posted
<1>3. Undated'
  BY DEF Undated, NewEvent
<1>4. NoInvoiceIsForgotten'
  BY DEF NoInvoiceIsForgotten, Posted, Since
<1> QED BY <1>1, <1>2, <1>3, <1>4

\* The event at ts leaves the hand, received or given up.
LEMMA StepLeave ==
  ASSUME Inv, NEW e \in page, IsNext(e), pc \in {"fetch", "send"}, pc' = "range",
         page' = page \ {e},
         \/ times' = [times EXCEPT ![e] = Capped(@ + 1)] /\ failed' = failed
         \/ times' = times /\ failed' = failed \cup {e},
         UNCHANGED <<ts, dated, start, done, reader, posted>>
  PROVE  Inv'
<1> USE DEF Inv
<1>a. e \in Nat /\ e \in Posted /\ e \in Events /\ \A f \in page : e <= f /\ f \in Nat
  BY Numbers DEF IsNext
<1>b. dated => e = ts
  BY <1>a, Numbers DEF Separated
<1>c. /\ times' \in [Events -> 0..MaxTimes]
      /\ \A f \in Events : f # e => times'[f] = times[f]
      /\ times'[e] > 0 \/ (e \in failed' /\ times' = times)
  <2>1. CASE times' = times /\ failed' = failed \cup {e}
    BY <2>1 DEF TypeOK
  <2>2. CASE times' = [times EXCEPT ![e] = Capped(@ + 1)]
    <3>1. Capped(times[e] + 1) \in 1..MaxTimes
      BY <1>a, PaymentAssumption DEF Capped, TypeOK
    <3> QED BY <2>2, <3>1, <1>a, PaymentAssumption DEF TypeOK
  <2> QED BY <2>1, <2>2
<1>d. failed \subseteq failed' /\ failed' \subseteq Posted
  BY <1>a DEF TypeOK
<1>1. TypeOK'
  BY <1>c, <1>d DEF TypeOK, Posted
<1>2. Empty'
  BY DEF Empty
<1>3. Separated'
  <2> SUFFICES ASSUME dated
               PROVE  /\ \A f \in Events : times'[f] > 0 => start < f /\ f <= ts
                      /\ \A f \in page' : ts < f
    BY DEF Separated
  <2>1. start < ts /\ \A f \in page : ts <= f
    BY DEF Separated
  <2>2. \A f \in Events : times'[f] > 0 => start < f /\ f <= ts
    BY <1>b, <1>c, <2>1, Numbers DEF Separated
  <2>3. \A f \in page' : ts < f
    BY <1>a, <1>b, <2>1, Numbers
  <2> QED BY <2>2, <2>3
<1>4. Contiguous'
  <2> SUFFICES ASSUME dated, NEW x \in Posted, NEW f \in page', ts < x, x <= f
               PROVE  x \in page' \/ posted[x] = "other"
    BY DEF Contiguous, Posted
  <2>1. x # e
    BY <1>b, Numbers
  <2> QED BY <2>1 DEF Contiguous
<1>5. Undated'
  <2> SUFFICES ASSUME ~dated, ~NewEvent
               PROVE  /\ \A f \in Events : times'[f] > 0 => start < f
                      /\ ts = start /\ \A f \in page' : start < f
    BY DEF Undated, NewEvent
  <2>1. start < e /\ ts = start /\ \A f \in page : start < f
    BY DEF Undated
  <2> QED BY <2>1, <1>c DEF Undated
<1>6. NoInvoiceIsForgotten'
  <2> SUFFICES ASSUME NEW x \in Posted, x > start, posted[x] = "received"
               PROVE  times'[x] > 0 \/ x \in page' \/ x > ts \/ (dated /\ x \in failed')
    BY DEF NoInvoiceIsForgotten, Posted, Since
  <2>1. CASE x # e
    BY <2>1, <1>c, <1>d, Numbers DEF NoInvoiceIsForgotten, Since
  <2>2. CASE x = e /\ dated
    BY <2>2, <1>c
  <2>3. CASE x = e /\ ~dated
    BY <2>3, Numbers DEF Undated, Posted
  <2> QED BY <2>1, <2>2, <2>3
<1> QED BY <1>1, <1>2, <1>3, <1>4, <1>5, <1>6

\* A new event is later than ts and anything in hand.
LEMMA StepPost == ASSUME Inv, NEW kind \in Kinds, Post(kind) PROVE Inv'
<1> USE DEF Inv, Post, history
<1>a. /\ posted' \in Seq(Kinds) /\ Len(posted') = Len(posted) + 1
      /\ \A e \in Posted : posted'[e] = posted[e]
      /\ Posted \subseteq Posted' /\ \A e \in Posted' : e \in Posted \/ e = Len(posted) + 1
  BY DEF TypeOK, Posted
<1>1. TypeOK'
  BY <1>a, Numbers DEF TypeOK
<1>2. Empty' /\ Separated'
  BY DEF Empty, Separated
<1>3. Contiguous'
  <2> SUFFICES ASSUME dated, NEW x \in Posted', NEW f \in page, ts < x, x <= f
               PROVE  x \in page \/ posted'[x] = "other"
    BY DEF Contiguous
  <2>1. x \in Posted
    BY <1>a, Numbers DEF Posted
  <2> QED BY <2>1, <1>a DEF Contiguous
<1>4. Undated'
  <2>1. NewEvent => NewEvent'
    BY <1>a, Numbers DEF NewEvent, Posted
  <2> QED BY <2>1 DEF Undated
<1>5. NoInvoiceIsForgotten'
  BY <1>a, Numbers DEF NoInvoiceIsForgotten, Since
<1> QED BY <1>1, <1>2, <1>3, <1>4, <1>5

LEMMA NextInv == Inv /\ [Next]_vars => Inv'
<1> SUFFICES ASSUME Inv, [Next]_vars PROVE Inv'
  OBVIOUS
<1>1. CASE FetchFails
  BY <1>1, StepLeave DEF FetchFails, environment
<1>2. CASE Send
  BY <1>2, StepLeave DEF Send, environment
<1> QED BY <1>1, <1>2, StepIdle, StepRequest, StepSkip, StepTake, StepFetch, StepPost
        DEF Next, IncomingInvoice

-----------------------------------------------------------------------------
\* Inv is an invariant of every behaviour of PaymentStream.
THEOREM Invariance == Spec => []Inv
BY InitInv, NextInv, PTL DEF Spec

\* Every variable of PaymentStream keeps its type.
THEOREM TypeCorrect == Spec => []TypeOK
<1>1. Inv => TypeOK
  BY DEF Inv
<1> QED BY <1>1, Invariance, PTL

\* An invoice received after the call is never forgotten, unless the dates are
\* read and it could not be fetched.
THEOREM NothingForgotten == Spec => []NoInvoiceIsForgotten
<1>1. Inv => NoInvoiceIsForgotten
  BY DEF Inv
<1> QED BY <1>1, Invariance, PTL

\* Invoices from before the call follow a new event.
THEOREM OldFollowNew == Spec => []OldInvoicesFollowNewEvents
<1>1. Inv => OldInvoicesFollowNewEvents
  <2> SUFFICES ASSUME Inv, NEW e \in 1..start, times[e] > 0
               PROVE  NewEvent
    BY DEF OldInvoicesFollowNewEvents, NewEvent
  <2>1. e \in Events /\ ~(start < e)
    BY Numbers DEF Inv, Events
  <2> QED BY <2>1 DEF Inv, Separated, Undated
<1> QED BY <1>1, Invariance, PTL

\* With the dates read, invoices come in order and once.
THEOREM InOrder == Spec => InvoicesComeInOrder
<1> DEFINE Ordered == dated => \A e \in Posted :
                         times'[e] # times[e] =>
                            e > start /\ \A f \in e..MaxPosted : times[f] = 0
<1>1. Inv /\ [Next]_vars => [Ordered]_vars
  <2> SUFFICES ASSUME Inv, Next, dated, NEW e \in Posted, times'[e] # times[e]
               PROVE  e > start /\ \A f \in e..MaxPosted : times[f] = 0
    OBVIOUS
  <2>1. Send
    BY DEF Next, IncomingInvoice, Check, Request, RequestFails, Skip, Take, Fetch, FetchFails,
           RangeEnd, Post, Cancel, Leave, history, environment
  <2>2. e = ts /\ start < ts
    <3> PICK f \in page : IsNext(f) /\ times' = [times EXCEPT ![f] = Capped(@ + 1)]
      BY <2>1 DEF Send
    <3>1. f = e
      BY DEF Inv, TypeOK
    <3>2. pc = "send"
      BY <2>1 DEF Send
    <3>3. ts \in page /\ start < ts /\ \A g \in page : ts <= g
      BY <3>2 DEF Inv, Separated
    <3> QED BY <3>1, <3>3, Numbers DEF IsNext, Inv
  <2>3. \A f \in e..MaxPosted : times[f] = 0
    <3> SUFFICES ASSUME NEW f \in e..MaxPosted PROVE times[f] = 0
      OBVIOUS
    <3>1. f \in Events /\ f \in Nat /\ times[f] \in Nat
      BY <2>2, Numbers DEF Inv, Events
    <3>2. CASE f = ts
      BY <3>2, <2>1 DEF Inv, Separated, Send
    <3>3. CASE f > ts
      BY <3>3, <3>1, Numbers DEF Inv, Separated
    <3> QED BY <3>1, <3>2, <3>3, <2>2, Numbers DEF Inv
  <2> QED BY <2>2, <2>3, Numbers DEF Inv
<1>2. Spec => [][Ordered]_vars
  BY <1>1, Invariance, PTL DEF Spec
<1> QED BY <1>2 DEF InvoicesComeInOrder
=============================================================================

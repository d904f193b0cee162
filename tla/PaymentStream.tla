---------------------------- MODULE PaymentStream ----------------------------
(***************************************************************************)
(* Payment.IncomingInvoice, pkg/rest/payment.go: a goroutine asks the      *)
(* payment service for the events after the time ts, fetches the invoice   *)
(* of each and sends it over a channel.  IncomingDebitNotes is the same    *)
(* with debit notes.  The date of an event is a string to the code, so     *)
(* that the assertion .(time.Time) fails and ts becomes the zero time.  A  *)
(* behaviour with dated = TRUE has this repaired, to show what the loop    *)
(* does then.                                                              *)
(***************************************************************************)
EXTENDS Naturals, Sequences

CONSTANTS
    Dated,      \* is the date of an event read: a set of the answers to try
    MaxPosted,  \* bound: the events the service posts in all
    MaxTimes    \* bound: how often the same invoice is counted

ASSUME PaymentAssumption ==
    Dated \subseteq BOOLEAN /\ MaxPosted \in Nat /\ MaxTimes \in Nat \ {0, 1}

VARIABLES
    dated,    \* one of Dated
    pc,       \* where the goroutine is
    ts,       \* after which date it asks; 0 is the zero time
    page,     \* the events of the last answer still to range over
    start,    \* the date at which IncomingInvoice was called
    times,    \* how often the reader received the invoice of each event
    failed,   \* the events whose invoice could not be fetched
    done,     \* is ctx done?
    reader,   \* "reading" or "gone"
    posted    \* the kinds of the events at the service; the date of an event
              \* is its place

vars == <<dated, pc, ts, page, start, times, failed, done, reader, posted>>

history     == <<times, failed>>
environment == <<dated, start, done, reader, posted>>

\* "received" is an InvoiceReceivedEvent, "unnamed" one without an invoiceId,
\* "null" one whose invoiceId is no string; "other" has another type, or none.
Kinds == {"received", "unnamed", "null", "other"}
Events == 1..MaxPosted
Posted == 1..Len(posted)

\* time.Now() at the call.  The mutant starts at the zero time.
ZeroTime == 0
CallTime == Len(posted)

Init ==
    /\ dated \in Dated
    /\ pc = "check"
    /\ posted \in UNION {[1..n -> Kinds] : n \in 0..MaxPosted}
    /\ start = Len(posted)
    /\ ts = CallTime
    /\ page = {}
    /\ times = [e \in Events |-> 0]
    /\ failed = {}
    /\ done = FALSE
    /\ reader = "reading"

-----------------------------------------------------------------------------
(* The loop. *)

\* The mutant does not look at ctx.
CancelIgnored == FALSE
CancelSeen == done

Check ==
    /\ pc = "check"
    /\ pc' = IF CancelSeen THEN "exit" ELSE "request"
    /\ UNCHANGED <<ts, page, history, environment>>

\* AfterTimestamp.  The mutant asks for what comes from now on.
SinceNow == Len(posted)
Since == ts

\* The service answers with the first events after that date, all or some.
Request ==
    /\ pc = "request"
    /\ ~done
    /\ \E last \in Since..Len(posted) : page' = (Since + 1)..last
    /\ pc' = "range"
    /\ UNCHANGED <<ts, history, environment>>

\* An error, or a body that cannot be read or parsed.
RequestFails ==
    /\ pc = "request"
    /\ pc' = "check"
    /\ UNCHANGED <<ts, page, history, environment>>

IsNext(e) == e \in page /\ \A f \in page : e <= f

\* ts, _ = ev["eventDate"].(time.Time).  The mutant keeps the old one.
DateKept(e) == ts
DateOf(e) == IF dated THEN e ELSE 0

\* An event of another type, or without an id, is passed over; the latter
\* moves ts all the same.
Skip ==
    /\ pc = "range"
    /\ \E e \in Posted :
          /\ IsNext(e)
          /\ \/ posted[e] = "other" /\ UNCHANGED ts
             \/ posted[e] = "unnamed" /\ ts' = DateOf(e)
          /\ page' = page \ {e}
    /\ UNCHANGED <<pc, history, environment>>

\* invId.(string)
Take ==
    /\ pc = "range"
    /\ \E e \in Posted :
          /\ IsNext(e)
          /\ posted[e] \in {"received", "null"}
          /\ ts' = DateOf(e)
          /\ pc' = IF posted[e] = "null" THEN "panicked" ELSE "fetch"
    /\ UNCHANGED <<page, history, environment>>

Fetch ==
    /\ pc = "fetch"
    /\ ~done
    /\ pc' = "send"
    /\ UNCHANGED <<ts, page, history, environment>>

\* The goroutine sleeps and goes on with the next event.
FetchFails ==
    /\ pc = "fetch"
    /\ \E e \in page :
          /\ IsNext(e)
          /\ page' = page \ {e}
          /\ failed' = failed \cup {e}
    /\ pc' = "range"
    /\ UNCHANGED <<ts, times, environment>>

Capped(n) == IF n > MaxTimes THEN MaxTimes ELSE n

\* The send waits for the reader, and for nothing else.
Send ==
    /\ pc = "send"
    /\ reader = "reading"
    /\ \E e \in page :
          /\ IsNext(e)
          /\ times' = [times EXCEPT ![e] = Capped(@ + 1)]
          /\ page' = page \ {e}
    /\ pc' = "range"
    /\ UNCHANGED <<ts, failed, environment>>

RangeEnd ==
    /\ pc = "range"
    /\ page = {}
    /\ pc' = "check"
    /\ UNCHANGED <<ts, page, history, environment>>

-----------------------------------------------------------------------------
(* The service, the owner of the context and the reader. *)

Post(kind) ==
    /\ Len(posted) < MaxPosted
    /\ posted' = Append(posted, kind)
    /\ UNCHANGED <<pc, ts, page, history, dated, start, done, reader>>

Cancel ==
    /\ ~done
    /\ done' = TRUE
    /\ UNCHANGED <<pc, ts, page, history, dated, start, reader, posted>>

Leave ==
    /\ reader = "reading"
    /\ reader' = "gone"
    /\ UNCHANGED <<pc, ts, page, history, dated, start, done, posted>>

-----------------------------------------------------------------------------
IncomingInvoice ==
    \/ Check \/ Request \/ RequestFails
    \/ Skip \/ Take \/ Fetch \/ FetchFails \/ Send \/ RangeEnd

Next == IncomingInvoice \/ (\E kind \in Kinds : Post(kind)) \/ Cancel \/ Leave

Spec == Init /\ [][Next]_vars

\* The goroutine runs whenever it can and every request ends.
FairSpec == Spec /\ WF_vars(IncomingInvoice)

-----------------------------------------------------------------------------
(* Properties. *)

TypeOK ==
    /\ dated \in Dated
    /\ pc \in {"check", "request", "range", "fetch", "send", "exit", "panicked"}
    /\ posted \in Seq(Kinds) /\ Len(posted) <= MaxPosted
    /\ ts \in 0..Len(posted)
    /\ page \subseteq Posted
    /\ pc \in {"fetch", "send"} => page # {}
    /\ start \in 0..Len(posted)
    /\ times \in [Events -> 0..MaxTimes]
    /\ failed \subseteq Posted
    /\ done \in BOOLEAN
    /\ reader \in {"reading", "gone"}

\* Once the dates are read, the reader receives no invoice from before the
\* call, no invoice twice, and none after a later one, however the requests
\* fail and whatever part of the log the service answers with.
InvoicesComeInOrder ==
    [][dated => \A e \in Posted :
                   times'[e] # times[e] =>
                      e > start /\ \A f \in e..MaxPosted : times[f] = 0]_vars

\* An invoice that is received after the call reaches the reader, is in hand, or
\* will be asked for again.  As the code stands that holds even when it could not
\* be fetched, since the goroutine asks for everything again; once the dates
\* are read such an invoice is lost.
NoInvoiceIsForgotten ==
    \A e \in Posted :
       e > start /\ posted[e] = "received" =>
          times[e] > 0 \/ e \in page \/ e > Since \/ (dated /\ e \in failed)

\* Nothing that came before the call arrives until something new did: only then
\* does the lost date bring back the invoices of old.
OldInvoicesFollowNewEvents ==
    (\E e \in 1..start : times[e] > 0) =>
       \E e \in (start + 1)..Len(posted) : posted[e] \in {"received", "unnamed"}

\* A cancelled context ends the goroutine, unless its reader is gone.
CancelEndsStream == done ~> pc \in {"exit", "panicked"} \/ reader = "gone"
=============================================================================

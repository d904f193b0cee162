------------------------------ MODULE Download ------------------------------
(***************************************************************************)
(* Destination.DownloadBytes, pkg/storage/storage.go, on what the          *)
(* destinations of the repository stream: GftpDestination, the whole file  *)
(* as one chunk of a buffered channel that nobody closes; a destination    *)
(* that uses ContentFrom, nothing, as ContentFrom sends on an unbuffered   *)
(* channel before it returns it.  Contents are their lengths.              *)
(***************************************************************************)
EXTENDS Integers

CONSTANTS
    Downloads,   \* the downloads, each made once
    MaxLength,   \* the longest content
    Default,     \* DownloadBytesLimitDefault
    MaxInt       \* math.MaxInt64, more than twice any length

ASSUME DownloadAssumption ==
    /\ MaxLength \in Nat
    /\ Default \in Nat \ {0}
    /\ MaxInt \in Nat /\ MaxInt > 2 * MaxLength

VARIABLES
    state,    \* see States
    limit,    \* its limit, once running
    length,   \* the length of the content, once running
    stream,   \* the chunks in the channel
    output,   \* how much was appended to the output
    done,     \* is ctx done?
    crashed   \* did a goroutine panic?

downloadVars == <<state, limit, length, stream, output, done, crashed>>

Lengths == 0..MaxLength
States == {"none", "failed", "running", "blocked", "delivered", "cancelled"}

DownloadInit ==
    /\ state = [d \in Downloads |-> "none"]
    /\ limit = [d \in Downloads |-> Default]
    /\ length = [d \in Downloads |-> 0]
    /\ stream = [d \in Downloads |-> {}]
    /\ output = [d \in Downloads |-> 0]
    /\ done = FALSE
    /\ crashed = FALSE

-----------------------------------------------------------------------------
\* GftpDestination.DownloadStream reads the file and puts it in the channel, and
\* the goroutine starts; or the file cannot be read, and errFunc is called.
OpenFile(d, lim) ==
    /\ \/ /\ state' = [state EXCEPT ![d] = "failed"]
          /\ UNCHANGED <<limit, length, stream>>
       \/ \E n \in Lengths :
             /\ state' = [state EXCEPT ![d] = "running"]
             /\ limit' = [limit EXCEPT ![d] = lim]
             /\ length' = [length EXCEPT ![d] = n]
             /\ stream' = [stream EXCEPT ![d] = {n}]
    /\ UNCHANGED <<output, done, crashed>>

\* ContentFrom returns if its reader is at its end at once, with a channel that
\* stays empty; or it waits for ever for someone to receive the first chunk.
OpenReader(d, lim) ==
    /\ \/ /\ state' = [state EXCEPT ![d] = "blocked"]
          /\ UNCHANGED <<limit, length>>
       \/ \E n \in Lengths :
             /\ state' = [state EXCEPT ![d] = "running"]
             /\ limit' = [limit EXCEPT ![d] = lim]
             /\ length' = [length EXCEPT ![d] = n]
    /\ UNCHANGED <<stream, output, done, crashed>>

\* DownloadBytes, up to the start of its goroutine.
DownloadBytes(d, lim) ==
    /\ state[d] = "none"
    /\ LET effective == IF lim = 0 THEN Default ELSE lim
       IN  OpenFile(d, effective) \/ OpenReader(d, effective)

\* DownloadFile asks for everything; GftpDestination's has nothing to do when
\* the destination is the file itself.
DownloadFile(d) == UNCHANGED downloadVars \/ DownloadBytes(d, MaxInt)

-----------------------------------------------------------------------------
\* What is left of the limit decides what becomes of a chunk of n bytes.
LimitRemaining(d, n) == limit[d] - n

\* limitRemaining > len(chunk).  The mutant takes every chunk for the last.
NeverMore(d, n) == FALSE
ExpectsMore(d, n) == LimitRemaining(d, n) > n

Append1(d, n) ==
    /\ ExpectsMore(d, n)
    /\ output' = [output EXCEPT ![d] = @ + n]
    /\ UNCHANGED <<state, crashed>>

\* chunk[:limitRemaining], and resultFunc.
Deliver(d, n) ==
    /\ ~ExpectsMore(d, n)
    /\ LimitRemaining(d, n) >= 0
    /\ output' = [output EXCEPT ![d] = @ + LimitRemaining(d, n)]
    /\ state' = [state EXCEPT ![d] = "delivered"]
    /\ UNCHANGED crashed

\* The slice is out of range: this goroutine ends the process.
Overrun(d, n) ==
    /\ LimitRemaining(d, n) < 0
    /\ crashed' = TRUE
    /\ UNCHANGED <<state, output>>

Receive(d) ==
    /\ state[d] = "running"
    /\ \E n \in stream[d] :
          /\ stream' = [stream EXCEPT ![d] = @ \ {n}]
          /\ Append1(d, n) \/ Deliver(d, n) \/ Overrun(d, n)
    /\ UNCHANGED <<limit, length, done>>

\* case <-ctx.Done().
Abandon(d) ==
    /\ state[d] = "running"
    /\ done
    /\ state' = [state EXCEPT ![d] = "cancelled"]
    /\ UNCHANGED <<limit, length, stream, output, done, crashed>>

Cancel ==
    /\ ~done
    /\ done' = TRUE
    /\ UNCHANGED <<state, limit, length, stream, output, crashed>>

\* A step of a goroutine of DownloadBytes, or of the owner of its context.
DownloadStep == Cancel \/ \E d \in Downloads : Receive(d) \/ Abandon(d)

-----------------------------------------------------------------------------
DownloadTypeOK ==
    /\ state \in [Downloads -> States]
    /\ limit \in [Downloads -> Nat]
    /\ length \in [Downloads -> Lengths]
    /\ stream \in [Downloads -> SUBSET Lengths]
    /\ output \in [Downloads -> Nat]
    /\ done \in BOOLEAN
    /\ crashed \in BOOLEAN

\* What a download hands over is a prefix of its content, within its limit, and
\* yet never what it promises (all of it, or as much as the limit allows),
\* except for a content of exactly half the limit.  A shorter content is never
\* handed over, so that a download to a file, of limit MaxInt, writes none.
DeliveredIsCut ==
    \A d \in Downloads :
       state[d] = "delivered" =>
          /\ output[d] <= length[d] /\ output[d] <= limit[d]
          /\ 2 * length[d] >= limit[d]
          /\ output[d] = length[d] <=> 2 * length[d] = limit[d]
=============================================================================

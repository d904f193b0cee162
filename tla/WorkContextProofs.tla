------------------------- MODULE WorkContextProofs -------------------------
(***************************************************************************)
(* What a download hands over, for any contents and limits; and of a       *)
(* WorkContext, for any number of steps of any kinds: what each defect     *)
(* blocks, that no step is lost, and which commands the provider is sent.  *)
(***************************************************************************)
EXTENDS WorkContext, SequenceTheorems, TLAPS

USE DownloadAssumption

-----------------------------------------------------------------------------
(* Downloads. *)

\* The one chunk of a download is all of its content, and nothing was appended
\* before it.
ChunkOK ==
    \A d \in Downloads :
       /\ \A n \in stream[d] : n = length[d] /\ output[d] = 0
       /\ state[d] = "none" => stream[d] = {} /\ output[d] = 0

DInv == DownloadTypeOK /\ ChunkOK /\ DeliveredIsCut

LEMMA LengthsAreNat == Lengths \subseteq Nat /\ 0 \in Lengths
  BY DEF Lengths

LEMMA InitDInv == DownloadInit => DInv
<1> SUFFICES ASSUME DownloadInit PROVE DInv
  OBVIOUS
<1> USE DEF DownloadInit
<1>1. DownloadTypeOK
  BY LengthsAreNat DEF DownloadTypeOK, States
<1>2. ChunkOK /\ DeliveredIsCut
  BY DEF ChunkOK, DeliveredIsCut
<1> QED
  BY <1>1, <1>2 DEF DInv

\* What a function on the downloads is after one of its values was replaced.
LEMMA Replaced ==
  ASSUME NEW S, NEW f \in [Downloads -> S], NEW d \in Downloads, NEW v \in S
  PROVE  /\ [f EXCEPT ![d] = v] \in [Downloads -> S]
         /\ [f EXCEPT ![d] = v][d] = v
         /\ \A e \in Downloads \ {d} : [f EXCEPT ![d] = v][e] = f[e]
  OBVIOUS

\* A download that starts, or fails, or hangs: n is its content, chunks what the
\* channel holds.
LEMMA Opened ==
  ASSUME DInv, NEW d \in Downloads, state[d] = "none",
         NEW lim \in Nat, NEW n \in Lengths, NEW chunks \in {{}, {n}},
         NEW s \in {"failed", "blocked", "running"},
         state' = [state EXCEPT ![d] = s],
         limit' = [limit EXCEPT ![d] = lim],
         length' = [length EXCEPT ![d] = n],
         stream' = [stream EXCEPT ![d] = chunks],
         UNCHANGED <<output, done, crashed>>
  PROVE  DInv'
<1> USE DEF DInv
<1>1. /\ state' \in [Downloads -> States] /\ state'[d] = s
      /\ \A e \in Downloads \ {d} : state'[e] = state[e]
  BY Replaced, s \in States DEF DownloadTypeOK, States
<1>2. limit' \in [Downloads -> Nat] /\ \A e \in Downloads \ {d} : limit'[e] = limit[e]
  BY Replaced DEF DownloadTypeOK
<1>3. /\ length' \in [Downloads -> Lengths] /\ length'[d] = n
      /\ \A e \in Downloads \ {d} : length'[e] = length[e]
  BY Replaced DEF DownloadTypeOK
<1>4. /\ stream' \in [Downloads -> SUBSET Lengths] /\ stream'[d] = chunks
      /\ \A e \in Downloads \ {d} : stream'[e] = stream[e]
  <2>1. chunks \in SUBSET Lengths
    OBVIOUS
  <2> QED
    BY <2>1, Replaced DEF DownloadTypeOK
<1>5. DownloadTypeOK'
  BY <1>1, <1>2, <1>3, <1>4 DEF DownloadTypeOK
<1>6. ChunkOK'
  BY <1>1, <1>3, <1>4 DEF ChunkOK
<1>7. DeliveredIsCut'
  BY <1>1, <1>2, <1>3 DEF DeliveredIsCut
<1> QED
  BY <1>5, <1>6, <1>7

\* The parts of a function that a step names as unchanged, written as a replacement.
LEMMA Kept ==
  ASSUME NEW S, NEW f \in [Downloads -> S], NEW d \in Downloads
  PROVE  f = [f EXCEPT ![d] = f[d]]
  OBVIOUS

LEMMA StepOpenFile ==
  ASSUME DInv, NEW d \in Downloads, NEW lim \in Nat, state[d] = "none", OpenFile(d, lim)
  PROVE  DInv'
<1>1. limit[d] \in Nat /\ length[d] \in Lengths /\ stream[d] = {}
  BY DEF DInv, DownloadTypeOK, ChunkOK
<1>2. /\ limit = [limit EXCEPT ![d] = limit[d]] /\ length = [length EXCEPT ![d] = length[d]]
      /\ stream = [stream EXCEPT ![d] = stream[d]]
  BY Kept DEF DInv, DownloadTypeOK
<1>3. CASE state' = [state EXCEPT ![d] = "failed"] /\ UNCHANGED <<limit, length, stream>>
  <2>1. UNCHANGED <<output, done, crashed>>
    BY DEF OpenFile
  <2> QED
    BY <1>1, <1>2, <1>3, <2>1, Opened
<1>4. CASE ~(state' = [state EXCEPT ![d] = "failed"] /\ UNCHANGED <<limit, length, stream>>)
  <2>1. PICK n \in Lengths :
           /\ state' = [state EXCEPT ![d] = "running"]
           /\ limit' = [limit EXCEPT ![d] = lim]
           /\ length' = [length EXCEPT ![d] = n]
           /\ stream' = [stream EXCEPT ![d] = {n}]
    BY <1>4 DEF OpenFile
  <2>2. UNCHANGED <<output, done, crashed>>
    BY DEF OpenFile
  <2> QED
    BY <2>1, <2>2, Opened
<1> QED
  BY <1>3, <1>4

LEMMA StepOpenReader ==
  ASSUME DInv, NEW d \in Downloads, NEW lim \in Nat, state[d] = "none", OpenReader(d, lim)
  PROVE  DInv'
<1>1. limit[d] \in Nat /\ length[d] \in Lengths /\ stream[d] = {}
  BY DEF DInv, DownloadTypeOK, ChunkOK
<1>2. /\ limit = [limit EXCEPT ![d] = limit[d]] /\ length = [length EXCEPT ![d] = length[d]]
      /\ stream = [stream EXCEPT ![d] = stream[d]]
  BY Kept DEF DInv, DownloadTypeOK
<1>3. UNCHANGED <<stream, output, done, crashed>>
  BY DEF OpenReader
<1>4. CASE state' = [state EXCEPT ![d] = "blocked"] /\ UNCHANGED <<limit, length>>
  BY <1>1, <1>2, <1>3, <1>4, Opened
<1>5. CASE ~(state' = [state EXCEPT ![d] = "blocked"] /\ UNCHANGED <<limit, length>>)
  <2>1. PICK n \in Lengths :
           /\ state' = [state EXCEPT ![d] = "running"]
           /\ limit' = [limit EXCEPT ![d] = lim]
           /\ length' = [length EXCEPT ![d] = n]
    BY <1>5 DEF OpenReader
  <2> QED
    BY <1>1, <1>2, <1>3, <2>1, Opened
<1> QED
  BY <1>4, <1>5

LEMMA StepDownload ==
  ASSUME DInv, NEW d \in Downloads, NEW lim \in Nat, DownloadBytes(d, lim)
  PROVE  DInv'
<1>1. PICK effective \in Nat : OpenFile(d, effective) \/ OpenReader(d, effective)
  BY DEF DownloadBytes
<1> QED
  BY <1>1, StepOpenFile, StepOpenReader DEF DownloadBytes

LEMMA StepReceive == ASSUME DInv, NEW d \in Downloads, Receive(d) PROVE DInv'
<1> USE DEF DInv
<1>1. PICK n \in stream[d] :
         /\ stream' = [stream EXCEPT ![d] = @ \ {n}]
         /\ Append1(d, n) \/ Deliver(d, n) \/ Overrun(d, n)
  BY DEF Receive
<1>2. /\ n = length[d] /\ output[d] = 0 /\ n \in Nat /\ limit[d] \in Nat
      /\ state[d] = "running" /\ stream[d] \in SUBSET Lengths
  BY LengthsAreNat DEF Receive, ChunkOK, DownloadTypeOK
<1>3. UNCHANGED <<limit, length, done>>
  BY DEF Receive
<1>4. /\ stream' \in [Downloads -> SUBSET Lengths] /\ stream'[d] = {}
      /\ \A e \in Downloads \ {d} : stream'[e] = stream[e]
  <2>1. stream[d] \ {n} = {}
    BY <1>2 DEF ChunkOK
  <2>2. stream' = [stream EXCEPT ![d] = {}]
    BY <1>1, <2>1
  <2> QED
    BY <2>2, Replaced DEF DownloadTypeOK
<1>5. CASE Append1(d, n)
  <2>1. output' = [output EXCEPT ![d] = n] /\ UNCHANGED <<state, crashed>>
    <3>1. output' = [output EXCEPT ![d] = output[d] + n] /\ UNCHANGED <<state, crashed>>
      BY <1>5 DEF Append1
    <3>2. output[d] + n = n
      BY <1>2
    <3> QED
      BY <3>1, <3>2
  <2>2. /\ output' \in [Downloads -> Nat]
        /\ \A e \in Downloads \ {d} : output'[e] = output[e]
    BY <1>2, <2>1, Replaced DEF DownloadTypeOK
  <2>3. DownloadTypeOK'
    BY <1>3, <1>4, <2>1, <2>2 DEF DownloadTypeOK
  <2>4. ChunkOK'
    BY <1>2, <1>3, <1>4, <2>1, <2>2 DEF ChunkOK
  <2>5. DeliveredIsCut'
    BY <1>2, <1>3, <2>1, <2>2 DEF DeliveredIsCut
  <2> QED
    BY <2>3, <2>4, <2>5
<1>6. CASE Deliver(d, n)
  <2>1. limit[d] - n \in Nat /\ limit[d] - n <= n
    BY <1>2, <1>6 DEF Deliver, LimitRemaining, ExpectsMore
  <2>2. /\ output' = [output EXCEPT ![d] = limit[d] - n]
        /\ state' = [state EXCEPT ![d] = "delivered"]
        /\ UNCHANGED crashed
    <3>1. /\ output' = [output EXCEPT ![d] = output[d] + (limit[d] - n)]
          /\ state' = [state EXCEPT ![d] = "delivered"]
          /\ UNCHANGED crashed
      BY <1>6 DEF Deliver, LimitRemaining
    <3>2. output[d] + (limit[d] - n) = limit[d] - n
      BY <1>2, <2>1
    <3> QED
      BY <3>1, <3>2
  <2>3. /\ output' \in [Downloads -> Nat] /\ output'[d] = limit[d] - n
        /\ \A e \in Downloads \ {d} : output'[e] = output[e]
    BY <2>1, <2>2, Replaced DEF DownloadTypeOK
  <2>4. /\ state' \in [Downloads -> States] /\ state'[d] = "delivered"
        /\ \A e \in Downloads \ {d} : state'[e] = state[e]
    BY <2>2, Replaced, "delivered" \in States DEF DownloadTypeOK, States
  <2>5. DownloadTypeOK'
    BY <1>3, <1>4, <2>2, <2>3, <2>4 DEF DownloadTypeOK
  <2>6. ChunkOK'
    BY <1>3, <1>4, <2>3, <2>4 DEF ChunkOK
  <2>7. /\ output'[d] <= length'[d] /\ output'[d] <= limit'[d]
        /\ 2 * length'[d] >= limit'[d]
        /\ output'[d] = length'[d] <=> 2 * length'[d] = limit'[d]
    BY <1>2, <1>3, <2>1, <2>3
  <2>8. DeliveredIsCut'
    BY <1>3, <2>3, <2>4, <2>7 DEF DeliveredIsCut
  <2> QED
    BY <2>5, <2>6, <2>8
<1>7. CASE Overrun(d, n)
  <2>1. UNCHANGED <<state, output>> /\ crashed' = TRUE
    BY <1>7 DEF Overrun
  <2>2. DownloadTypeOK' /\ ChunkOK' /\ DeliveredIsCut'
    BY <1>2, <1>3, <1>4, <2>1 DEF DownloadTypeOK, ChunkOK, DeliveredIsCut
  <2> QED
    BY <2>2
<1> QED
  BY <1>1, <1>5, <1>6, <1>7

LEMMA StepGoroutines == ASSUME DInv, DownloadStep PROVE DInv'
<1>1. CASE Cancel
  BY <1>1 DEF Cancel, DInv, DownloadTypeOK, ChunkOK, DeliveredIsCut
<1>2. ASSUME NEW d \in Downloads, Abandon(d) PROVE DInv'
  <2>1. /\ state' \in [Downloads -> States] /\ state'[d] = "cancelled"
        /\ \A e \in Downloads \ {d} : state'[e] = state[e]
    BY <1>2, Replaced, "cancelled" \in States DEF Abandon, DInv, DownloadTypeOK, States
  <2> QED
    BY <1>2, <2>1 DEF Abandon, DInv, DownloadTypeOK, ChunkOK, DeliveredIsCut
<1> QED
  BY <1>1, <1>2, StepReceive DEF DownloadStep

LEMMA SameDownloads == ASSUME DInv, UNCHANGED downloadVars PROVE DInv'
  BY DEF DInv, downloadVars, DownloadTypeOK, ChunkOK, DeliveredIsCut

-----------------------------------------------------------------------------
(* The steps and their batches. *)

Receiving == {"file", "bytes", "json"}
Phases == {"idle", "prepare", "register", "post", "hung", "panicked"}

\* Steps are numbered from 1, and the first one deploys.
StepsOK ==
    /\ kinds \in Seq(Kinds \cup {"init"}) /\ Len(kinds) <= MaxSteps
    /\ pending \in Seq(Nat) /\ batches \in Seq(Seq(Nat))
    /\ \A i \in 1..Len(pending) : pending[i] \in 1..Len(kinds)
    /\ \A b \in 1..Len(batches) : \A i \in 1..Len(batches[b]) : batches[b][i] \in 1..Len(kinds)

\* The first batch starts with the step that deploys.
DeployOK ==
    /\ started \in BOOLEAN
    /\ IF started
       THEN /\ Len(kinds) > 0 /\ kinds[1] = "init"
            /\ IF batches = <<>>
               THEN Len(pending) > 0 /\ pending[1] = 1
               ELSE Len(batches[1]) > 0 /\ batches[1][1] = 1
       ELSE kinds = <<>> /\ pending = <<>> /\ batches = <<>>

ExecutorOK ==
    /\ current \in Nat \ {0} /\ at \in Nat \ {0}
    /\ phase \in Phases
    /\ phase # "idle" => current <= Len(batches)

EmbeddedOK ==
    "embedded" \notin repaired =>
       /\ current = 1 /\ phase \in {"idle", "prepare", "panicked"}
       /\ phase = "prepare" => at = 1
       /\ script = <<>> /\ emitted = {}

\* The steps of the batch that are registered.
Registered ==
    IF phase = "post" THEN 1..Len(Steps)
    ELSE {i \in 1..Len(Steps) : phase = "register" /\ i < at}

\* No step that receives is ready, and none of a registered batch receives.
PrepairOK ==
    "prepair" \notin repaired =>
       /\ emitted = {}
       /\ \A s \in 1..Len(kinds) : s \in ready => kinds[s] \notin Receiving
       /\ ready \subseteq 1..Len(kinds)
       /\ \A i \in Registered : kinds[Steps[i]] \notin Receiving

IInv == DInv /\ StepsOK /\ DeployOK /\ ExecutorOK /\ EmbeddedOK /\ PrepairOK

LEMMA InitIInv == Init => IInv
<1> SUFFICES ASSUME Init PROVE IInv
  OBVIOUS
<1> USE DEF Init
<1>1. DInv
  BY InitDInv
<1>2. StepsOK
  BY WorkAssumption DEF StepsOK
<1>3. DeployOK
  BY DEF DeployOK
<1>5. ExecutorOK
  BY DEF ExecutorOK, Phases
<1>4. EmbeddedOK /\ PrepairOK
  BY DEF EmbeddedOK, PrepairOK, Registered
<1> QED
  BY <1>1, <1>2, <1>3, <1>4, <1>5 DEF IInv

\* The step that comes next in the executor's batch.
LEMMA NextStep ==
  ASSUME IInv, phase # "idle", at <= Len(Steps)
  PROVE  /\ Steps \in Seq(Nat) /\ at \in 1..Len(Steps)
         /\ Step \in 1..Len(kinds) /\ Step \in Downloads
         /\ Kind \in Kinds \cup {"init"}
<1>1. current \in 1..Len(batches) /\ at \in Nat \ {0}
  BY DEF IInv, ExecutorOK
<1>2. Steps \in Seq(Nat)
  BY <1>1 DEF IInv, StepsOK, Steps
<1>3. at \in 1..Len(Steps)
  BY <1>1, <1>2
<1>4. Step \in 1..Len(kinds)
  BY <1>1, <1>3 DEF IInv, StepsOK, Steps, Step
<1>5. Step \in Downloads /\ Kind \in Kinds \cup {"init"}
  BY <1>4, WorkAssumption DEF IInv, StepsOK, Kind
<1> QED
  BY <1>2, <1>3, <1>4, <1>5

LEMMA Numbers ==
  ASSUME NEW k \in Nat, NEW n \in Nat
  PROVE  /\ [i \in 1..n |-> k + i] \in Seq(Nat)
         /\ Len([i \in 1..n |-> k + i]) = n
         /\ \A i \in 1..n : [j \in 1..n |-> k + j][i] = k + i
  OBVIOUS

NewSteps(kind) == (IF First THEN <<"init">> ELSE <<>>) \o <<kind>>

\* Where the elements of two sequences are in their concatenation.
LEMMA Concatenated ==
  ASSUME NEW S, NEW s \in Seq(S), NEW t \in Seq(S)
  PROVE  /\ \A i \in 1..Len(s) : (s \o t)[i] = s[i]
         /\ \A i \in 1..Len(t) : (s \o t)[Len(s) + i] = t[i]
<1> DEFINE st == s \o t
<1>1. /\ Len(s) \in Nat /\ Len(t) \in Nat
      /\ \A i \in 1..(Len(s) + Len(t)) : st[i] = IF i <= Len(s) THEN s[i] ELSE t[i - Len(s)]
  BY ConcatProperties
<1> HIDE DEF st
<1>2. ASSUME NEW i \in 1..Len(t) PROVE st[Len(s) + i] = t[i]
  <2>1. Len(s) + i \in 1..(Len(s) + Len(t)) /\ Len(s) + i - Len(s) = i /\ ~(Len(s) + i <= Len(s))
    BY <1>1
  <2> QED
    BY <1>1, <2>1
<1>3. \A i \in 1..Len(s) : st[i] = s[i]
  BY <1>1
<1> QED
  BY <1>2, <1>3 DEF st

\* What Queue adds to the steps, and to those that are pending.
LEMMA Queued ==
  ASSUME IInv, NEW kind \in Kinds, Queue(kind)
  PROVE  \E n \in {1, 2} :
           /\ started' /\ (~started <=> n = 2)
           /\ kinds' \in Seq(Kinds \cup {"init"}) /\ Len(kinds') = Len(kinds) + n
           /\ \A i \in 1..Len(kinds) : kinds'[i] = kinds[i]
           /\ \A i \in 1..n : kinds'[Len(kinds) + i] = IF i < n THEN "init" ELSE kind
           /\ pending' \in Seq(Nat) /\ Len(pending') = Len(pending) + n
           /\ \A i \in 1..Len(pending) : pending'[i] = pending[i]
           /\ \A i \in 1..n : pending'[Len(pending) + i] = Len(kinds) + i
           /\ Len(kinds') <= MaxSteps
           /\ UNCHANGED <<batches, executor, effects, repaired, downloadVars>>
<1> DEFINE new == NewSteps(kind)
           numbers == [i \in 1..Len(new) |-> Len(kinds) + i]
<1>1. /\ Len(kinds) + Len(new) <= MaxSteps
      /\ kinds' = kinds \o new /\ pending' = pending \o numbers
      /\ started' = TRUE
      /\ UNCHANGED <<batches, executor, effects, repaired, downloadVars>>
  BY DEF Queue, NewSteps
<1>2. /\ kinds \in Seq(Kinds \cup {"init"}) /\ Len(kinds) \in Nat
      /\ pending \in Seq(Nat) /\ Len(pending) \in Nat
  BY DEF IInv, StepsOK
<1>3. /\ new \in Seq(Kinds \cup {"init"}) /\ Len(new) \in {1, 2}
      /\ ~started <=> Len(new) = 2
      /\ \A i \in 1..Len(new) : new[i] = IF i < Len(new) THEN "init" ELSE kind
  <2>1. CASE started
    <3>1. new = <<>> \o <<kind>>
      BY <2>1 DEF First, NewSteps
    <3> HIDE DEF new
    <3> QED
      BY <2>1, <3>1
  <2>2. CASE ~started
    <3>1. new = <<"init">> \o <<kind>>
      BY <2>2 DEF First, NewSteps
    <3> HIDE DEF new
    <3>2. <<"init">> \in Seq(Kinds \cup {"init"}) /\ <<kind>> \in Seq(Kinds \cup {"init"})
      OBVIOUS
    <3>3. new \in Seq(Kinds \cup {"init"}) /\ Len(new) = 2 /\ new[1] = "init" /\ new[2] = kind
      BY <3>1, <3>2
    <3> QED
      BY <2>2, <3>3
  <2> QED
    BY <2>1, <2>2 DEF IInv, DeployOK
<1> HIDE DEF new
<1>4. /\ numbers \in Seq(Nat) /\ Len(numbers) = Len(new)
      /\ \A i \in 1..Len(new) : numbers[i] = Len(kinds) + i
  BY <1>2, <1>3, Numbers
<1> HIDE DEF numbers
<1>5. /\ kinds' \in Seq(Kinds \cup {"init"}) /\ Len(kinds') = Len(kinds) + Len(new)
      /\ \A i \in 1..Len(kinds) : kinds'[i] = kinds[i]
      /\ \A i \in 1..Len(new) : kinds'[Len(kinds) + i] = new[i]
  BY <1>1, <1>2, <1>3
<1>6. /\ pending' \in Seq(Nat) /\ Len(pending') = Len(pending) + Len(new)
      /\ \A i \in 1..Len(pending) : pending'[i] = pending[i]
      /\ \A i \in 1..Len(new) : pending'[Len(pending) + i] = numbers[i]
  <2>1. pending \o numbers \in Seq(Nat) /\ Len(pending \o numbers) = Len(pending) + Len(numbers)
    BY <1>2, <1>4, ConcatProperties
  <2>2. /\ \A i \in 1..Len(pending) : (pending \o numbers)[i] = pending[i]
        /\ \A i \in 1..Len(numbers) : (pending \o numbers)[Len(pending) + i] = numbers[i]
    BY <1>2, <1>4, Concatenated
  <2> QED
    BY <1>1, <1>4, <2>1, <2>2
<1>7. /\ started' /\ (~started <=> Len(new) = 2)
      /\ kinds' \in Seq(Kinds \cup {"init"}) /\ Len(kinds') = Len(kinds) + Len(new)
      /\ \A i \in 1..Len(kinds) : kinds'[i] = kinds[i]
      /\ \A i \in 1..Len(new) : kinds'[Len(kinds) + i] = IF i < Len(new) THEN "init" ELSE kind
      /\ pending' \in Seq(Nat) /\ Len(pending') = Len(pending) + Len(new)
      /\ \A i \in 1..Len(pending) : pending'[i] = pending[i]
      /\ \A i \in 1..Len(new) : pending'[Len(pending) + i] = Len(kinds) + i
      /\ Len(kinds') <= MaxSteps
  BY <1>1, <1>3, <1>4, <1>5, <1>6
<1> QED
  BY <1>1, <1>3, <1>7

LEMMA StepQueue ==
  ASSUME IInv, NEW kind \in Kinds, Queue(kind)
  PROVE  IInv'
<1>1. PICK n \in {1, 2} :
        /\ started' /\ (~started <=> n = 2)
        /\ kinds' \in Seq(Kinds \cup {"init"}) /\ Len(kinds') = Len(kinds) + n
        /\ \A i \in 1..Len(kinds) : kinds'[i] = kinds[i]
        /\ \A i \in 1..n : kinds'[Len(kinds) + i] = IF i < n THEN "init" ELSE kind
        /\ pending' \in Seq(Nat) /\ Len(pending') = Len(pending) + n
        /\ \A i \in 1..Len(pending) : pending'[i] = pending[i]
        /\ \A i \in 1..n : pending'[Len(pending) + i] = Len(kinds) + i
        /\ Len(kinds') <= MaxSteps
        /\ UNCHANGED <<batches, executor, effects, repaired, downloadVars>>
  BY Queued
<1>2. /\ kinds \in Seq(Kinds \cup {"init"}) /\ Len(kinds) \in Nat
      /\ pending \in Seq(Nat) /\ Len(pending) \in Nat
      /\ 1..Len(kinds) \subseteq 1..Len(kinds')
  BY <1>1 DEF IInv, StepsOK
<1>3. StepsOK'
  <2>1. \A i \in 1..Len(pending') : pending'[i] \in 1..Len(kinds')
    <3> TAKE i \in 1..Len(pending')
    <3>1. CASE i <= Len(pending)
      <4>1. i \in 1..Len(pending)
        BY <1>2, <3>1
      <4> QED
        BY <1>1, <1>2, <4>1 DEF IInv, StepsOK
    <3>2. CASE i > Len(pending)
      <4>1. i - Len(pending) \in 1..n /\ i = Len(pending) + (i - Len(pending))
        BY <1>1, <1>2, <3>2
      <4>2. pending'[i] = Len(kinds) + (i - Len(pending))
        BY <1>1, <4>1
      <4> QED
        BY <1>1, <1>2, <4>1, <4>2
    <3> QED
      BY <1>1, <1>2, <3>1, <3>2
  <2>2. \A b \in 1..Len(batches) : \A i \in 1..Len(batches[b]) : batches[b][i] \in 1..Len(kinds')
    BY <1>2 DEF IInv, StepsOK
  <2> QED
    BY <1>1, <2>1, <2>2 DEF IInv, StepsOK
<1>4. DeployOK'
  <2>1. CASE started
    <3>1. 1 \in 1..Len(kinds) /\ kinds[1] = "init" /\ kinds'[1] = "init" /\ Len(kinds') > 0
      BY <1>1, <1>2, <2>1 DEF IInv, DeployOK
    <3>2. CASE batches = <<>>
      <4>1. 1 \in 1..Len(pending) /\ pending[1] = 1
        BY <1>2, <2>1, <3>2 DEF IInv, DeployOK
      <4>2. pending'[1] = 1 /\ Len(pending') > 0
        BY <1>1, <1>2, <4>1
      <4> QED
        BY <1>1, <3>1, <3>2, <4>2 DEF DeployOK
    <3>3. CASE batches # <<>>
      BY <1>1, <2>1, <3>1, <3>3 DEF IInv, DeployOK
    <3> QED
      BY <3>2, <3>3
  <2>2. CASE ~started
    <3>1. kinds = <<>> /\ pending = <<>> /\ batches = <<>> /\ n = 2
      BY <1>1, <2>2 DEF IInv, DeployOK
    <3>2. kinds'[1] = "init" /\ pending'[1] = 1 /\ Len(kinds') = 2 /\ Len(pending') = 2
      BY <1>1, <3>1
    <3> QED
      BY <1>1, <3>1, <3>2 DEF DeployOK
  <2> QED
    BY <2>1, <2>2
<1>5. ExecutorOK' /\ EmbeddedOK'
  BY <1>1 DEF IInv, ExecutorOK, EmbeddedOK, executor, effects
<1>6. PrepairOK'
  <2>1. Steps' = Steps /\ Registered' = Registered /\ UNCHANGED <<phase, current, ready, emitted, repaired>>
    BY <1>1 DEF Steps, Registered, executor, effects
  <2>2. \A i \in Registered : Steps[i] \in 1..Len(kinds)
    <3> TAKE i \in Registered
    <3>1. phase # "idle" /\ i \in 1..Len(Steps)
      BY DEF Registered
    <3>2. current \in 1..Len(batches)
      BY <3>1 DEF IInv, ExecutorOK
    <3> QED
      BY <3>1, <3>2 DEF IInv, StepsOK, Steps
  <2>3. ASSUME "prepair" \notin repaired
        PROVE  /\ ready \subseteq 1..Len(kinds')
               /\ \A s \in 1..Len(kinds') : s \in ready => kinds'[s] \notin Receiving
               /\ \A i \in Registered : kinds'[Steps[i]] \notin Receiving
    BY <1>1, <1>2, <2>2, <2>3 DEF IInv, PrepairOK
  <2> QED
    BY <2>1, <2>3 DEF IInv, PrepairOK
<1> QED
  BY <1>1, <1>3, <1>4, <1>5, <1>6, SameDownloads DEF IInv

LEMMA StepCommit == ASSUME IInv, Commit PROVE IInv'
<1>1. /\ pending # <<>> /\ pending' = <<>> /\ batches' = Append(batches, pending)
      /\ UNCHANGED <<kinds, started, executor, effects, repaired, downloadVars>>
  BY DEF Commit, LeftPending
<1>2. /\ batches \in Seq(Seq(Nat)) /\ pending \in Seq(Nat) /\ Len(batches) \in Nat
      /\ batches' \in Seq(Seq(Nat)) /\ Len(batches') = Len(batches) + 1
      /\ \A b \in 1..Len(batches) : batches'[b] = batches[b]
      /\ batches'[Len(batches) + 1] = pending
  BY <1>1 DEF IInv, StepsOK
<1>3. StepsOK'
  <2>1. \A b \in 1..Len(batches') : \A i \in 1..Len(batches'[b]) : batches'[b][i] \in 1..Len(kinds)
    <3> TAKE b \in 1..Len(batches')
    <3>1. CASE b \in 1..Len(batches)
      BY <1>2, <3>1 DEF IInv, StepsOK
    <3>2. CASE b = Len(batches) + 1
      BY <1>2, <3>2 DEF IInv, StepsOK
    <3> QED
      BY <1>2, <3>1, <3>2
  <2> QED
    BY <1>1, <1>2, <2>1 DEF IInv, StepsOK
<1>4. DeployOK'
  <2>1. started
    BY <1>1 DEF IInv, DeployOK
  <2>2. batches' # <<>> /\ batches'[1] = IF batches = <<>> THEN pending ELSE batches[1]
    BY <1>2
  <2> QED
    BY <1>1, <2>1, <2>2 DEF IInv, DeployOK
<1>5. ExecutorOK' /\ EmbeddedOK'
  BY <1>1, <1>2 DEF IInv, ExecutorOK, EmbeddedOK, executor, effects
<1>6. PrepairOK'
  <2>1. CASE phase = "idle"
    BY <1>1, <2>1 DEF IInv, PrepairOK, Registered, executor, effects
  <2>2. CASE phase # "idle"
    <3>1. Steps' = Steps
      BY <1>1, <1>2, <2>2 DEF IInv, ExecutorOK, Steps, executor
    <3> QED
      BY <1>1, <3>1 DEF IInv, PrepairOK, Registered, executor, effects
  <2> QED
    BY <2>1, <2>2
<1> QED
  BY <1>1, <1>3, <1>4, <1>5, <1>6, SameDownloads DEF IInv

-----------------------------------------------------------------------------
(* The executor. *)

\* A step of the executor that leaves the program, the downloads and what is
\* repaired alone keeps what is said of these.
LEMMA SameProgram ==
  ASSUME IInv, UNCHANGED <<program, repaired, downloadVars>>
  PROVE  DInv' /\ StepsOK' /\ DeployOK'
  BY SameDownloads DEF IInv, StepsOK, DeployOK, program

LEMMA StepTake == ASSUME IInv, Take PROVE IInv'
<1>1. DInv' /\ StepsOK' /\ DeployOK'
  BY SameProgram DEF Take
<1>2. ExecutorOK' /\ EmbeddedOK'
  BY DEF Take, IInv, ExecutorOK, EmbeddedOK, Phases, program
<1>3. PrepairOK'
  BY DEF Take, IInv, PrepairOK, Registered, program
<1> QED
  BY <1>1, <1>2, <1>3 DEF IInv

\* The ways in which a step ends.
LEMMA StepGo ==
  ASSUME IInv, phase # "idle", Go, UNCHANGED <<program, repaired>>,
         "embedded" \notin repaired => FALSE
  PROVE  ExecutorOK' /\ EmbeddedOK' /\ Steps' = Steps
  BY DEF IInv, ExecutorOK, EmbeddedOK, Go, Steps, program

LEMMA StepPanic ==
  ASSUME IInv, phase # "idle", Panic, UNCHANGED <<program, repaired, script, emitted>>
  PROVE  ExecutorOK' /\ EmbeddedOK' /\ Registered' = {} /\ Steps' = Steps
  BY DEF IInv, ExecutorOK, EmbeddedOK, Panic, Phases, Steps, Registered, program

LEMMA StepEnd ==
  ASSUME IInv, phase # "idle", End, UNCHANGED <<program, repaired>>,
         "embedded" \in repaired
  PROVE  ExecutorOK' /\ EmbeddedOK' /\ Registered' = {}
  BY DEF IInv, ExecutorOK, EmbeddedOK, End, Phases, Registered, program

\* With the embedded interfaces as they are, it is always the step that deploys.
LEMMA FirstOnly ==
  ASSUME IInv, "embedded" \notin repaired, phase \in {"prepare", "register", "post"},
         at <= Len(Steps)
  PROVE  Kind = "init" /\ phase = "prepare"
<1>1. phase = "prepare" /\ current = 1 /\ at = 1 /\ current <= Len(batches)
  BY DEF IInv, EmbeddedOK, ExecutorOK
<1>2. batches # <<>>
  BY <1>1 DEF IInv, StepsOK
<1>3. started
  BY <1>2 DEF IInv, DeployOK
<1>4. kinds[1] = "init" /\ batches[1][1] = 1
  BY <1>2, <1>3 DEF IInv, DeployOK
<1> QED
  BY <1>1, <1>4 DEF Kind, Step, Steps

LEMMA StepPrepare == ASSUME IInv, Prepare PROVE IInv'
<1>1. /\ phase = "prepare" /\ at <= Len(Steps)
      /\ UNCHANGED <<program, idx, commands, script, emitted, repaired, downloadVars>>
  BY DEF Prepare
<1>2. DInv' /\ StepsOK' /\ DeployOK'
  BY <1>1, SameProgram
<1>3. /\ Step \in 1..Len(kinds) /\ Kind \in Kinds \cup {"init"} /\ Kind = kinds[Step]
  BY <1>1, NextStep DEF Kind
<1>4. \/ ready' = ready
      \/ ready' = ready \cup {Step} /\ (Kind \in Receiving => "prepair" \in repaired)
  <2>1. CASE Receives
    <3>1. Kind \notin {"bytes up", "file up", "init", "run"}
      BY <2>1 DEF Receives
    <3>2. CASE "prepair" \in repaired
      BY <2>1, <3>1, <3>2 DEF Prepare
    <3>3. CASE "prepair" \notin repaired
      BY <2>1, <3>1, <3>3 DEF Prepare
    <3> QED
      BY <3>2, <3>3
  <2>2. CASE ~Receives
    <3>1. Kind \notin Receiving
      BY <2>2 DEF Receives, Receiving
    <3>2. ready' = ready \/ ready' = ready \cup {Step}
      BY <1>1 DEF Prepare, Upload
    <3> QED
      BY <3>1, <3>2
  <2> QED
    BY <2>1, <2>2
<1>5. \/ Go /\ "embedded" \in repaired
      \/ Fail /\ "embedded" \in repaired
      \/ Panic
  <2>1. CASE "embedded" \in repaired
    BY <2>1 DEF Prepare, Upload, Embedded
  <2>2. CASE "embedded" \notin repaired
    <3>1. Kind = "init"
      BY <1>1, <2>2, FirstOnly
    <3>2. Panic
      BY <2>2, <3>1 DEF Prepare, Embedded, Receives
    <3> QED
      BY <3>2
  <2> QED
    BY <2>1, <2>2
<1>6. ExecutorOK' /\ EmbeddedOK' /\ Registered' = {}
  <2>1. CASE Go /\ "embedded" \in repaired
    BY <1>1, <2>1, StepGo DEF Go, Registered
  <2>2. CASE Fail /\ "embedded" \in repaired
    BY <1>1, <2>2, StepEnd DEF Fail
  <2>3. CASE Panic
    BY <1>1, <2>3, StepPanic
  <2> QED
    BY <1>5, <2>1, <2>2, <2>3
<1>7. PrepairOK'
  BY <1>1, <1>3, <1>4, <1>6 DEF IInv, PrepairOK, program
<1> QED
  BY <1>2, <1>6, <1>7 DEF IInv

LEMMA StepPrepared == ASSUME IInv, Prepared PROVE IInv'
<1>1. /\ phase = "prepare" /\ at > Len(Steps) /\ phase' = "register" /\ at' = 1
      /\ UNCHANGED <<program, current, effects, repaired, downloadVars>>
  BY DEF Prepared
<1>2. DInv' /\ StepsOK' /\ DeployOK'
  BY <1>1, SameProgram
<1>3. "embedded" \in repaired
  <2>1. SUFFICES ASSUME "embedded" \notin repaired PROVE FALSE
    OBVIOUS
  <2>2. current = 1 /\ at = 1 /\ current <= Len(batches)
    BY <1>1, <2>1 DEF IInv, EmbeddedOK, ExecutorOK
  <2>3. batches # <<>> /\ Len(batches[1]) \in Nat
    BY <2>2 DEF IInv, StepsOK
  <2>4. Len(batches[1]) > 0
    BY <2>3 DEF IInv, DeployOK
  <2> QED
    BY <1>1, <2>2, <2>3, <2>4 DEF Steps
<1>4. ExecutorOK' /\ EmbeddedOK'
  BY <1>1, <1>3 DEF IInv, ExecutorOK, EmbeddedOK, Phases, program, effects
<1>5. Registered' = {}
  BY <1>1 DEF Registered
<1>6. PrepairOK'
  BY <1>1, <1>5 DEF IInv, PrepairOK, program, effects
<1> QED
  BY <1>2, <1>4, <1>6 DEF IInv

LEMMA StepRegister == ASSUME IInv, Register PROVE IInv'
<1>1. /\ phase = "register" /\ at <= Len(Steps)
      /\ UNCHANGED <<program, ready, script, emitted, repaired, downloadVars>>
  BY DEF Register
<1>2. DInv' /\ StepsOK' /\ DeployOK'
  BY <1>1, SameProgram
<1>3. "embedded" \in repaired
  BY <1>1, FirstOnly
<1>4. /\ at \in 1..Len(Steps) /\ Step = Steps[at] /\ Kind = kinds[Step]
      /\ Kind \in Kinds \cup {"init"} /\ Step \in 1..Len(kinds)
  BY <1>1, NextStep DEF Step, Kind
<1>5. CASE Fail
  <2>1. ExecutorOK' /\ EmbeddedOK' /\ Registered' = {}
    BY <1>1, <1>3, <1>5, StepEnd DEF Fail
  <2>2. PrepairOK'
    BY <1>1, <2>1 DEF IInv, PrepairOK, program
  <2> QED
    BY <1>2, <2>1, <2>2 DEF IInv
<1>6. CASE ~Unset /\ Go
  <2>1. ExecutorOK' /\ EmbeddedOK' /\ Steps' = Steps
    BY <1>1, <1>3, <1>6, StepGo
  <2>2. Registered' \subseteq Registered \cup {at}
    BY <1>1, <1>4, <1>6, <2>1 DEF Registered, Go
  <2>3. "prepair" \notin repaired => Kind \notin Receiving
    <3>1. Kind \in {"init", "run"} \/ Step \in ready
      BY <1>6 DEF Unset
    <3> QED
      BY <1>4, <3>1 DEF IInv, PrepairOK, Receiving
  <2>4. PrepairOK'
    BY <1>1, <1>4, <2>1, <2>2, <2>3 DEF IInv, PrepairOK, program
  <2> QED
    BY <1>2, <2>1, <2>4 DEF IInv
<1>7. Fail \/ (~Unset /\ Go)
  <2>1. CASE Unset
    <3>1. Fail \/ (Kind = "init" /\ "embedded" \notin repaired)
      BY <2>1 DEF Register
    <3> QED
      BY <1>3, <3>1
  <2>2. CASE ~Unset
    BY <1>3, <2>2 DEF Register
  <2> QED
    BY <2>1, <2>2
<1> QED
  BY <1>5, <1>6, <1>7

LEMMA StepExecute == ASSUME IInv, Execute PROVE IInv'
<1>1. /\ phase = "register" /\ at > Len(Steps)
      /\ UNCHANGED <<program, ready, emitted, repaired, downloadVars>>
  BY DEF Execute
<1>2. DInv' /\ StepsOK' /\ DeployOK'
  BY <1>1, SameProgram
<1>3. "embedded" \in repaired
  BY <1>1 DEF IInv, EmbeddedOK
<1>4. CASE phase' = "post" /\ at' = 1 /\ UNCHANGED current
  <2>1. ExecutorOK' /\ EmbeddedOK'
    BY <1>1, <1>3, <1>4 DEF IInv, ExecutorOK, EmbeddedOK, Phases, program
  <2>2. Steps' = Steps /\ Steps \in Seq(Nat)
    BY <1>1, <1>4 DEF IInv, ExecutorOK, StepsOK, Steps, program
  <2>3. Registered' = Registered
    <3>1. Len(Steps) \in Nat /\ at \in Nat
      BY <2>2 DEF IInv, ExecutorOK
    <3>2. Registered = 1..Len(Steps)
      BY <1>1, <3>1 DEF Registered
    <3>3. Registered' = 1..Len(Steps)
      BY <1>4, <2>2 DEF Registered
    <3> QED
      BY <3>2, <3>3
  <2>4. PrepairOK'
    BY <1>1, <2>2, <2>3 DEF IInv, PrepairOK, program
  <2> QED
    BY <1>2, <2>1, <2>4 DEF IInv
<1>5. CASE End
  <2>1. ExecutorOK' /\ EmbeddedOK' /\ Registered' = {}
    BY <1>1, <1>3, <1>5, StepEnd
  <2>2. PrepairOK'
    BY <1>1, <2>1 DEF IInv, PrepairOK, program
  <2> QED
    BY <1>2, <2>1, <2>2 DEF IInv
<1> QED
  BY <1>4, <1>5 DEF Execute

\* Only steps that do not receive, or ready ones, are posted.
LEMMA StepPost == ASSUME IInv, Post PROVE IInv'
<1>1. /\ phase = "post" /\ at <= Len(Steps)
      /\ UNCHANGED <<program, ready, idx, commands, script, repaired>>
  BY DEF Post
<1>2. /\ at \in 1..Len(Steps) /\ Step = Steps[at] /\ Kind = kinds[Step]
      /\ Kind \in Kinds \cup {"init"} /\ Step \in Downloads
  BY <1>1, NextStep DEF Step, Kind
<1>3. "embedded" \in repaired
  BY <1>1, FirstOnly
<1>4. StepsOK' /\ DeployOK'
  BY <1>1 DEF IInv, StepsOK, DeployOK, program
<1>5. at \in Registered
  BY <1>1, <1>2 DEF Registered
<1>6. DInv'
  <2>1. CASE PostReceive
    <3>1. DownloadFile(Step) \/ DownloadBytes(Step, Default)
      BY <2>1 DEF PostReceive
    <3>2. MaxInt \in Nat /\ Default \in Nat
      BY DownloadAssumption
    <3> QED
      BY <1>2, <3>1, <3>2, StepDownload, SameDownloads DEF DownloadFile, IInv
  <2>2. CASE UNCHANGED downloadVars
    BY <2>2, SameDownloads DEF IInv
  <2> QED
    BY <2>1, <2>2 DEF Post, PostSend, PostNowhere
<1>7. emitted' = emitted \/ "prepair" \in repaired
  <2>1. CASE Kind \in Receiving
    BY <1>2, <1>5, <2>1 DEF IInv, PrepairOK
  <2>2. CASE Kind \notin Receiving
    BY <2>2 DEF Post, PostSend, PostNowhere, PostReceive, Receives, Receiving
  <2> QED
    BY <2>1, <2>2
<1>8. \/ Go \/ End \/ Panic
      \/ phase' = "hung" /\ UNCHANGED <<current, at, unsent>>
  <2>1. CASE PostSend
    BY <1>3, <2>1 DEF PostSend, Embedded
  <2>2. CASE PostNowhere
    BY <2>2 DEF PostNowhere
  <2>3. CASE PostReceive
    <3>1. CASE state'[Step] = "blocked"
      BY <2>3, <3>1 DEF PostReceive
    <3>2. CASE state'[Step] # "blocked"
      BY <2>3, <3>2 DEF PostReceive
    <3> QED
      BY <3>1, <3>2
  <2> QED
    BY <2>1, <2>2, <2>3 DEF Post
<1>9. ExecutorOK' /\ EmbeddedOK' /\ (Registered' = {} \/ (Registered' = Registered /\ Steps' = Steps))
  <2>1. CASE Go
    <3>1. ExecutorOK' /\ EmbeddedOK' /\ Steps' = Steps
      BY <1>1, <1>3, <2>1, StepGo
    <3>2. Registered' = Registered
      BY <1>1, <2>1, <3>1 DEF Go, Registered
    <3> QED
      BY <3>1, <3>2
  <2>2. CASE End
    BY <1>1, <1>3, <2>2, StepEnd
  <2>3. CASE Panic
    BY <1>1, <1>3, <2>3 DEF IInv, ExecutorOK, EmbeddedOK, Panic, Phases, Registered, program
  <2>4. CASE phase' = "hung" /\ UNCHANGED <<current, at, unsent>>
    BY <1>1, <1>3, <2>4 DEF IInv, ExecutorOK, EmbeddedOK, Phases, Registered, program
  <2> QED
    BY <1>8, <2>1, <2>2, <2>3, <2>4
<1>10. PrepairOK'
  BY <1>1, <1>7, <1>9 DEF IInv, PrepairOK, program
<1> QED
  BY <1>4, <1>6, <1>9, <1>10 DEF IInv

LEMMA StepPosted == ASSUME IInv, Posted PROVE IInv'
<1>1. /\ phase = "post" /\ phase' = "idle" /\ current' = current + 1
      /\ UNCHANGED <<program, at, effects, repaired, downloadVars>>
  BY DEF Posted, End
<1>2. DInv' /\ StepsOK' /\ DeployOK'
  BY <1>1, SameProgram
<1>3. "embedded" \in repaired
  BY <1>1 DEF IInv, EmbeddedOK
<1>4. ExecutorOK' /\ EmbeddedOK'
  BY <1>1, <1>3 DEF IInv, ExecutorOK, EmbeddedOK, Phases, program, effects
<1>5. PrepairOK'
  BY <1>1 DEF IInv, PrepairOK, Registered, program, effects
<1> QED
  BY <1>2, <1>4, <1>5 DEF IInv

\* The goroutines of the downloads.
LEMMA StepDownloads == ASSUME IInv, Goroutines PROVE IInv'
<1>1. DInv'
  BY StepGoroutines DEF IInv, Goroutines
<1>2. UNCHANGED <<program, executor, effects, repaired>>
  BY DEF Goroutines
<1>3. StepsOK' /\ DeployOK' /\ ExecutorOK' /\ EmbeddedOK' /\ PrepairOK'
  BY <1>2 DEF IInv, StepsOK, DeployOK, ExecutorOK, EmbeddedOK, PrepairOK, Registered, Steps,
              program, executor, effects
<1> QED
  BY <1>1, <1>3 DEF IInv

LEMMA StepStutter == ASSUME IInv, UNCHANGED vars PROVE IInv'
<1>1. DInv'
  BY SameDownloads DEF IInv, vars
<1>2. StepsOK' /\ DeployOK' /\ ExecutorOK' /\ EmbeddedOK' /\ PrepairOK'
  BY DEF vars, IInv, StepsOK, DeployOK, ExecutorOK, EmbeddedOK, PrepairOK, Registered, Steps,
         program, executor, effects
<1> QED
  BY <1>1, <1>2 DEF IInv

-----------------------------------------------------------------------------
(* Theorems. *)

\* IInv is an inductive invariant.
THEOREM Invariance == Spec => []IInv
<1>1. ASSUME IInv, [Next]_vars PROVE IInv'
  <2>1. ASSUME NEW kind \in QueueKinds, Queue(kind) PROVE IInv'
    BY <1>1, <2>1, StepQueue, WorkAssumption
  <2> QED
    BY <1>1, <2>1, StepCommit, StepTake, StepPrepare, StepPrepared, StepRegister, StepExecute,
       StepPost, StepPosted, StepDownloads, StepStutter DEF Next
<1> QED
  BY <1>1, InitIInv, PTL DEF Spec

\* Whatever the contents and the limits, DownloadBytes hands over a prefix that
\* is all of the content only if it is exactly half of the limit.
THEOREM DownloadsAreCut == Spec => []DeliveredIsCut
  BY Invariance, PTL DEF IInv, DInv

\* However many steps are queued and committed: with an embedded interface left
\* unset nothing is registered, and with Prepair misspelt nothing is received.
THEOREM DefectsBlock == Spec => []DefectsBlockBatch
<1>1. IInv => DefectsBlockBatch
  BY DEF IInv, EmbeddedOK, PrepairOK, DefectsBlockBatch
<1> QED
  BY <1>1, Invariance, PTL

-----------------------------------------------------------------------------
(* The order of the steps. *)

\* The number of a step is its place in the order of the queue.
LEMMA OrderInit == Init => NoStepIsLost
  BY DEF Init, NoStepIsLost, Before, Follows

LEMMA OrderQueue ==
  ASSUME IInv, NoStepIsLost, NEW kind \in Kinds, Queue(kind)
  PROVE  NoStepIsLost'
<1>1. PICK n \in {1, 2} :
        /\ started' /\ (~started <=> n = 2)
        /\ kinds' \in Seq(Kinds \cup {"init"}) /\ Len(kinds') = Len(kinds) + n
        /\ \A i \in 1..Len(kinds) : kinds'[i] = kinds[i]
        /\ \A i \in 1..n : kinds'[Len(kinds) + i] = IF i < n THEN "init" ELSE kind
        /\ pending' \in Seq(Nat) /\ Len(pending') = Len(pending) + n
        /\ \A i \in 1..Len(pending) : pending'[i] = pending[i]
        /\ \A i \in 1..n : pending'[Len(pending) + i] = Len(kinds) + i
        /\ Len(kinds') <= MaxSteps
        /\ UNCHANGED <<batches, executor, effects, repaired, downloadVars>>
  BY Queued
<1>2. kinds \in Seq(Kinds \cup {"init"}) /\ Len(kinds) \in Nat /\ Len(pending) \in Nat
  BY DEF IInv, StepsOK
<1> DEFINE last == Before(Len(batches) + 1)
<1>3. Follows(pending, last) /\ Len(kinds) = last + Len(pending)
  BY DEF NoStepIsLost
<1>4. batches' = batches /\ (\A b : Before(b)' = Before(b)) /\ last' = last
  BY <1>1 DEF Before
<1>8. last \in Int
  <2>1. batches \in Seq(Seq(Nat)) /\ Len(batches) \in Nat
    BY DEF IInv, StepsOK
  <2>2. CASE batches = <<>>
    BY <2>1, <2>2 DEF Before
  <2>3. CASE batches # <<>>
    <3>1. /\ batches[Len(batches)] \in Seq(Nat) /\ batches[Len(batches)] # <<>>
          /\ Len(batches) + 1 # 1 /\ Len(batches) + 1 - 1 = Len(batches)
      BY <2>1, <2>3 DEF NoStepIsLost
    <3>2. Last(batches[Len(batches)]) \in Nat
      BY <3>1 DEF Last
    <3> QED
      BY <3>1, <3>2 DEF Before
  <2> QED
    BY <2>2, <2>3
<1> HIDE DEF last
<1>5. Follows(pending', last)
  <2> SUFFICES ASSUME NEW i \in 1..Len(pending') PROVE pending'[i] = last + i
    BY DEF Follows
  <2>1. CASE i <= Len(pending)
    BY <1>1, <1>2, <1>3, <2>1 DEF Follows
  <2>2. CASE i > Len(pending)
    <3>1. i - Len(pending) \in 1..n /\ i = Len(pending) + (i - Len(pending))
      BY <1>1, <1>2, <2>2
    <3>2. pending'[i] = Len(kinds) + (i - Len(pending))
      BY <1>1, <3>1
    <3> QED
      BY <1>2, <1>3, <1>8, <3>1, <3>2
  <2> QED
    BY <1>1, <1>2, <2>1, <2>2
<1>6. Len(kinds') = last + Len(pending')
  BY <1>1, <1>2, <1>3, <1>8
<1>7. \A s \in 1..Len(kinds') : kinds'[s] = "init" <=> s = 1
  <2> TAKE s \in 1..Len(kinds')
  <2>1. CASE s <= Len(kinds)
    BY <1>1, <1>2, <2>1 DEF NoStepIsLost
  <2>2. CASE s > Len(kinds)
    <3>1. s - Len(kinds) \in 1..n /\ s = Len(kinds) + (s - Len(kinds))
      BY <1>1, <1>2, <2>2
    <3>2. kinds'[s] = "init" <=> s - Len(kinds) < n
      BY <1>1, <3>1 DEF Kinds
    <3>3. n = 2 <=> Len(kinds) = 0
      BY <1>1, <1>2 DEF IInv, DeployOK
    <3> QED
      BY <1>1, <1>2, <3>1, <3>2, <3>3
  <2> QED
    BY <1>1, <1>2, <2>1, <2>2
<1> QED
  BY <1>4, <1>5, <1>6, <1>7 DEF NoStepIsLost, last

LEMMA OrderCommit == ASSUME IInv, NoStepIsLost, Commit PROVE NoStepIsLost'
<1>1. /\ pending # <<>> /\ pending' = <<>> /\ batches' = Append(batches, pending)
      /\ kinds' = kinds
  BY DEF Commit, LeftPending
<1>2. /\ batches \in Seq(Seq(Nat)) /\ pending \in Seq(Nat) /\ Len(batches) \in Nat
      /\ Len(batches') = Len(batches) + 1
      /\ \A b \in 1..Len(batches) : batches'[b] = batches[b]
      /\ batches'[Len(batches) + 1] = pending
      /\ Len(pending) \in Nat \ {0} /\ Len(pending') = 0
  BY <1>1 DEF IInv, StepsOK
<1>3. \A b \in 1..(Len(batches) + 1) : Before(b)' = Before(b)
  <2> TAKE b \in 1..(Len(batches) + 1)
  <2>1. CASE b = 1
    BY <2>1 DEF Before
  <2>2. CASE b # 1
    <3>1. b - 1 \in 1..Len(batches)
      BY <1>2, <2>2
    <3> QED
      BY <1>2, <3>1, <2>2 DEF Before
  <2> QED
    BY <2>1, <2>2
<1> DEFINE last == Before(Len(batches) + 1)
<1>4. last' = Len(kinds)
  <2>1. /\ Len(batches') + 1 # 1 /\ Len(batches') + 1 - 1 = Len(batches')
        /\ batches'[Len(batches')] = pending
    BY <1>2
  <2>2. last' = Last(pending)
    BY <2>1 DEF Before
  <2>3. Last(pending) = last + Len(pending)
    BY <1>2 DEF NoStepIsLost, Follows, Last
  <2> QED
    BY <2>2, <2>3 DEF NoStepIsLost
<1>5. \A b \in 1..Len(batches') : batches'[b] # <<>> /\ Follows(batches'[b], Before(b)')
  <2> TAKE b \in 1..Len(batches')
  <2>1. CASE b \in 1..Len(batches)
    BY <1>2, <1>3, <2>1 DEF NoStepIsLost
  <2>2. CASE b = Len(batches) + 1
    BY <1>1, <1>2, <1>3, <2>2 DEF NoStepIsLost
  <2> QED
    BY <1>2, <2>1, <2>2
<1>6. Follows(pending', last') /\ Len(kinds') = last' + Len(pending')
  <2>1. Len(kinds) \in Nat
    BY DEF IInv, StepsOK
  <2> HIDE DEF last
  <2> QED
    BY <1>1, <1>2, <1>4, <2>1 DEF Follows
<1> QED
  BY <1>1, <1>5, <1>6 DEF NoStepIsLost

-----------------------------------------------------------------------------
(* The commands, and where the steps find them. *)

Commands == [step : Nat, args : {"none", "some"}]

\* A container passed by value stays empty.
ItemsOK ==
    /\ commands \in Seq(Commands) /\ script \in Seq(Commands)
    /\ idx \in [Downloads -> Int]
    /\ "container" \notin repaired => commands = <<>> /\ script = <<>>

\* The registered steps of the batch find their commands at their idx.
IndexOK ==
    "container" \in repaired /\ phase \in {"register", "post"} =>
       \A i \in Registered :
          kinds[Steps[i]] # "init" =>
             /\ idx[Steps[i]] + 1 \in 1..Len(commands)
             /\ commands[idx[Steps[i]] + 1].step = Steps[i]

Continues(items) == \A i \in 1..Len(items) : ~Bare(items[i])

\* Only batches that are over have failed.
UnsentOK == current \in Nat \ {0} /\ \A b \in unsent : b \in Nat \ {0} /\ b < current

\* The first batch begins with the two bare commands, and no other has them.
FirstOK ==
    "container" \in repaired =>
       /\ phase = "prepare" => commands = <<>>
       /\ phase = "register" =>
             /\ commands = <<>> <=> at = 1
             /\ commands # <<>> => IF current = 1 THEN Opens(commands) ELSE Continues(commands)
       /\ phase \in {"idle", "prepare", "register"} =>
             /\ current = 1 => script = <<>>
             /\ script = <<>> => current = 1 \/ 1 \in unsent
       /\ phase = "post" => script # <<>> \/ 1 \in unsent

CInv == NoStepIsLost /\ ItemsOK /\ IndexOK /\ UnsentOK /\ FirstOK /\ DeploymentComesFirst

\* The steps of a batch are consecutive, and only the first of the first deploys.
LEMMA StepsOfBatch ==
  ASSUME IInv, NoStepIsLost, phase # "idle"
  PROVE  /\ Steps \in Seq(Nat) /\ Len(Steps) \in Nat \ {0}
         /\ \A i \in 1..Len(Steps) : Steps[i] = Before(current) + i /\ Steps[i] \in 1..Len(kinds)
         /\ Before(current) \in Nat
         /\ \A i \in 1..Len(Steps) : kinds[Steps[i]] = "init" <=> current = 1 /\ i = 1
<1>1. /\ batches \in Seq(Seq(Nat)) /\ Len(batches) \in Nat /\ Len(kinds) \in Nat
      /\ current \in 1..Len(batches)
  BY DEF IInv, StepsOK, ExecutorOK
<1>2. \A b \in 1..Len(batches) :
         /\ batches[b] \in Seq(Nat) /\ Len(batches[b]) \in Nat \ {0}
         /\ Follows(batches[b], Before(b))
         /\ \A i \in 1..Len(batches[b]) : batches[b][i] \in 1..Len(kinds)
  BY <1>1 DEF IInv, StepsOK, NoStepIsLost
<1>3. Before(current) \in Nat /\ (Before(current) = 0 <=> current = 1)
  <2>1. CASE current = 1
    BY <2>1 DEF Before
  <2>2. CASE current # 1
    <3>1. current - 1 \in 1..Len(batches)
      BY <1>1, <2>2
    <3>2. Len(batches[current - 1]) \in 1..Len(batches[current - 1])
      BY <1>2, <3>1
    <3>3. Last(batches[current - 1]) \in 1..Len(kinds)
      BY <1>2, <3>1, <3>2 DEF Last
    <3> QED
      BY <1>1, <2>2, <3>3 DEF Before
  <2> QED
    BY <2>1, <2>2
<1>4. Steps \in Seq(Nat) /\ Len(Steps) \in Nat \ {0}
  BY <1>1, <1>2 DEF Steps
<1>5. \A i \in 1..Len(Steps) : Steps[i] = Before(current) + i /\ Steps[i] \in 1..Len(kinds)
  BY <1>1, <1>2 DEF Steps, Follows
<1>6. \A i \in 1..Len(Steps) : Steps[i] = 1 <=> current = 1 /\ i = 1
  BY <1>1, <1>3, <1>4, <1>5
<1> QED
  BY <1>3, <1>4, <1>5, <1>6 DEF NoStepIsLost

\* The commands of one step.
LEMMA ItemsOfStep ==
  ASSUME NEW s \in Nat, kinds[s] \in Kinds \cup {"init"}
  PROVE  /\ Items(s) \in Seq(Commands) /\ Len(Items(s)) \in Nat \ {0}
         /\ \A j \in 1..Len(Items(s)) : Items(s)[j].step = s
         /\ IF kinds[s] = "init" THEN Opens(Items(s)) ELSE Continues(Items(s))
         /\ InOrder(Items(s))
<1> DEFINE n == IF kinds[s] = "init" THEN 2 ELSE 1
<1> DEFINE item == [step |-> s, args |-> Args(kinds[s])]
<1>1. /\ n \in {1, 2} /\ (n = 2 <=> kinds[s] = "init")
      /\ Items(s) = [i \in 1..n |-> item]
  BY DEF Items
<1>2. item \in Commands /\ item.step = s /\ (Bare(item) <=> kinds[s] = "init")
  BY DEF Commands, Args, Bare
<1> HIDE DEF n, item
<1>3. Items(s) \in Seq(Commands) /\ Len(Items(s)) = n /\ \A i \in 1..n : Items(s)[i] = item
  BY <1>1, <1>2
<1>4. CASE kinds[s] = "init"
  <2>1. /\ \A i \in 1..2 : Bare(Items(s)[i]) /\ Items(s)[i].step = s
        /\ \A i, j \in 1..2 : i < j => j = i + 1
    BY <1>1, <1>2, <1>3, <1>4
  <2>2. Opens(Items(s))
    BY <1>1, <1>3, <1>4, <2>1 DEF Opens
  <2>3. InOrder(Items(s))
    BY <1>1, <1>3, <1>4, <2>1 DEF InOrder
  <2> QED
    BY <1>1, <1>3, <1>4, <2>1, <2>2, <2>3
<1>5. CASE kinds[s] # "init"
  <2>1. /\ n = 1 /\ \A i \in 1..1 : ~Bare(Items(s)[i]) /\ Items(s)[i].step = s
        /\ \A i, j \in 1..1 : ~(i < j)
    BY <1>1, <1>2, <1>3, <1>5
  <2>2. Continues(Items(s))
    BY <1>3, <2>1 DEF Continues
  <2>3. InOrder(Items(s))
    BY <1>3, <2>1 DEF InOrder
  <2> QED
    BY <1>3, <1>5, <2>1, <2>2, <2>3
<1> QED
  BY <1>4, <1>5

\* What continues a sequence of commands leaves its beginning as it is.
LEMMA OpensFirst ==
  ASSUME NEW s \in Seq(Commands), NEW t \in Seq(Commands), Continues(t)
  PROVE  /\ Opens(s) => Opens(s \o t)
         /\ Continues(s) => Continues(s \o t)
<1> DEFINE st == s \o t
<1>1. /\ Len(s) \in Nat /\ Len(t) \in Nat /\ Len(st) = Len(s) + Len(t)
      /\ \A i \in 1..Len(s) : st[i] = s[i]
      /\ \A i \in 1..Len(t) : st[Len(s) + i] = t[i]
  BY ConcatProperties, Concatenated
<1> HIDE DEF st
<1>2. ASSUME NEW i \in 1..Len(st), i > Len(s) PROVE ~Bare(st[i])
  <2>1. i - Len(s) \in 1..Len(t) /\ Len(s) + (i - Len(s)) = i
    BY <1>1, <1>2
  <2>2. st[i] = t[i - Len(s)]
    BY <1>1, <2>1
  <2> QED
    BY <2>1, <2>2 DEF Continues
<1>3. ASSUME NEW i \in 1..Len(st), i <= Len(s) PROVE i \in 1..Len(s) /\ st[i] = s[i]
  BY <1>1, <1>3
<1>4. ASSUME Opens(s) PROVE Opens(st)
  <2>1. Len(st) >= 2 /\ Len(s) >= 2
    BY <1>1, <1>4 DEF Opens
  <2>2. ASSUME NEW i \in 1..Len(st)
        PROVE  Bare(st[i]) <=> i <= 2
    <3>1. CASE i <= Len(s)
      BY <1>3, <1>4, <3>1 DEF Opens
    <3>2. CASE i > Len(s)
      BY <1>1, <1>2, <2>1, <3>2
    <3> QED
      BY <1>1, <3>1, <3>2
  <2> QED
    BY <2>1, <2>2 DEF Opens
<1>5. ASSUME Continues(s) PROVE Continues(st)
  <2> SUFFICES ASSUME NEW i \in 1..Len(st) PROVE ~Bare(st[i])
    BY DEF Continues
  <2>1. CASE i <= Len(s)
    BY <1>3, <1>5, <2>1 DEF Continues
  <2>2. CASE i > Len(s)
    BY <1>2, <2>2
  <2> QED
    BY <1>1, <2>1, <2>2
<1> QED
  BY <1>4, <1>5 DEF st

LEMMA InitCInv == Init => CInv
<1> SUFFICES ASSUME Init PROVE CInv
  OBVIOUS
<1>1. ItemsOK /\ IndexOK /\ UnsentOK /\ FirstOK /\ DeploymentComesFirst
  BY DEF Init, ItemsOK, IndexOK, UnsentOK, FirstOK, DeploymentComesFirst
<1> QED
  BY <1>1, OrderInit DEF CInv

\* The property and the types, of a script that stays.
LEMMA ScriptIsSame ==
  ASSUME CInv, UNCHANGED <<idx, commands, script, repaired>>,
         1 \in unsent' <=> 1 \in unsent
  PROVE  ItemsOK' /\ DeploymentComesFirst'
  BY DEF CInv, ItemsOK, DeploymentComesFirst, Opens

\* A step of the executor that ends a batch before anything of it is sent, or the
\* executor itself, or that has nothing to do with the commands.
LEMMA Aside ==
  ASSUME IInv, CInv,
         UNCHANGED <<program, idx, commands, script, repaired>>,
         \/ phase' \in {"hung", "panicked"} /\ UNCHANGED <<current, unsent>>
         \/ phase \in {"prepare", "register"} /\ Fail
         \/ phase = "post" /\ End /\ UNCHANGED unsent
         \/ phase # "register" /\ UNCHANGED <<phase, current, unsent>>
  PROVE  CInv'
<1>1. NoStepIsLost' /\ current \in Nat \ {0}
  BY DEF CInv, NoStepIsLost, Before, program, UnsentOK
<1>2. UnsentOK'
  BY <1>1 DEF CInv, UnsentOK, Fail, End
<1>3. IndexOK'
  <2>1. CASE phase' \in {"hung", "panicked", "idle"}
    BY <2>1 DEF IndexOK
  <2>2. CASE phase # "register" /\ UNCHANGED <<phase, current, unsent>>
    BY <2>2 DEF CInv, IndexOK, Registered, Steps, program
  <2> QED
    BY <2>1, <2>2 DEF Fail, End
<1>4. ItemsOK' /\ DeploymentComesFirst'
  <2>1. CASE UNCHANGED unsent
    BY <2>1, ScriptIsSame
  <2>2. CASE phase \in {"prepare", "register"} /\ Fail
    <3>1. ItemsOK'
      BY DEF CInv, ItemsOK
    <3>2. CASE current # 1
      <4>1. 1 \in unsent' <=> 1 \in unsent
        BY <2>2, <3>2 DEF Fail
      <4> QED
        BY <4>1, ScriptIsSame
    <3>3. CASE current = 1 /\ "container" \in repaired
      <4>1. script' = <<>>
        BY <2>2, <3>3 DEF CInv, FirstOK
      <4> QED
        BY <3>1, <4>1 DEF DeploymentComesFirst
    <3>4. CASE "container" \notin repaired
      <4>1. script' = <<>>
        BY <3>4 DEF CInv, ItemsOK
      <4> QED
        BY <3>1, <4>1 DEF DeploymentComesFirst
    <3> QED
      BY <3>2, <3>3, <3>4
  <2> QED
    BY <2>1, <2>2
<1>5. FirstOK'
  <2>1. CASE phase' \in {"hung", "panicked"}
    BY <2>1 DEF FirstOK
  <2>2. CASE phase \in {"prepare", "register"} /\ Fail
    BY <1>1, <2>2 DEF CInv, FirstOK, Fail, End
  <2>3. CASE phase = "post" /\ End /\ UNCHANGED unsent
    BY <1>1, <2>3 DEF CInv, FirstOK, End
  <2>4. CASE phase # "register" /\ UNCHANGED <<phase, current, unsent>>
    BY <2>4 DEF CInv, FirstOK
  <2> QED
    BY <2>1, <2>2, <2>3, <2>4
<1> QED
  BY <1>1, <1>2, <1>3, <1>4, <1>5 DEF CInv

LEMMA CommandsQueue ==
  ASSUME IInv, CInv, NEW kind \in Kinds, Queue(kind)
  PROVE  CInv'
<1>1. /\ UNCHANGED <<batches, executor, effects, repaired>>
      /\ \A i \in 1..Len(kinds) : kinds'[i] = kinds[i]
  BY Queued
<1>2. ItemsOK' /\ UnsentOK' /\ FirstOK' /\ DeploymentComesFirst'
  BY <1>1, ScriptIsSame DEF CInv, UnsentOK, FirstOK, Opens, executor, effects
<1>3. IndexOK'
  <2> SUFFICES ASSUME phase \in {"register", "post"} PROVE IndexOK'
    BY <1>1 DEF IndexOK, executor
  <2>1. Steps' = Steps /\ Registered' = Registered
    BY <1>1 DEF Steps, Registered, executor
  <2>2. \A i \in Registered : i \in 1..Len(Steps) /\ kinds'[Steps[i]] = kinds[Steps[i]]
    BY <1>1, StepsOfBatch DEF CInv, Registered
  <2> QED
    BY <1>1, <2>1, <2>2 DEF CInv, IndexOK, executor, effects
<1> QED
  BY <1>2, <1>3, OrderQueue DEF CInv

LEMMA CommandsCommit == ASSUME IInv, CInv, Commit PROVE CInv'
<1>1. UNCHANGED <<kinds, executor, effects, repaired>> /\ batches' = Append(batches, pending)
  BY DEF Commit
<1>2. ItemsOK' /\ UnsentOK' /\ FirstOK' /\ DeploymentComesFirst'
  BY <1>1, ScriptIsSame DEF CInv, UnsentOK, FirstOK, Opens, executor, effects
<1>3. IndexOK'
  <2> SUFFICES ASSUME phase \in {"register", "post"} PROVE IndexOK'
    BY <1>1 DEF IndexOK, executor
  <2>1. Steps' = Steps
    BY <1>1 DEF IInv, StepsOK, ExecutorOK, Steps, executor
  <2>2. Registered' = Registered
    BY <1>1, <2>1 DEF Registered, executor
  <2> QED
    BY <1>1, <2>1, <2>2 DEF CInv, IndexOK, executor, effects
<1> QED
  BY <1>2, <1>3, OrderCommit DEF CInv

LEMMA CommandsTake == ASSUME IInv, CInv, Take PROVE CInv'
<1>1. /\ phase = "idle" /\ phase' = "prepare" /\ commands' = <<>>
      /\ UNCHANGED <<program, current, idx, script, unsent, repaired>>
  BY DEF Take
<1>2. NoStepIsLost' /\ DeploymentComesFirst'
  BY <1>1 DEF CInv, NoStepIsLost, Before, DeploymentComesFirst, Opens, program
<1>3. ItemsOK' /\ IndexOK' /\ UnsentOK' /\ FirstOK'
  BY <1>1 DEF CInv, ItemsOK, IndexOK, UnsentOK, FirstOK
<1> QED
  BY <1>2, <1>3 DEF CInv

LEMMA CommandsPrepare == ASSUME IInv, CInv, Prepare PROVE CInv'
<1>1. Go \/ Fail \/ Panic
  BY DEF Prepare, Upload, Embedded
<1> QED
  BY <1>1, Aside DEF Prepare, Go, Panic

LEMMA CommandsPrepared == ASSUME IInv, CInv, Prepared PROVE CInv'
<1>1. /\ phase = "prepare" /\ phase' = "register" /\ at' = 1
      /\ UNCHANGED <<program, current, idx, commands, script, unsent, repaired>>
  BY DEF Prepared, effects
<1>2. NoStepIsLost' /\ DeploymentComesFirst'
  BY <1>1 DEF CInv, NoStepIsLost, Before, DeploymentComesFirst, Opens, program
<1>3. Registered' = {}
  BY <1>1 DEF Registered
<1>4. ItemsOK' /\ IndexOK' /\ UnsentOK' /\ FirstOK'
  BY <1>1, <1>3 DEF CInv, ItemsOK, IndexOK, UnsentOK, FirstOK
<1> QED
  BY <1>2, <1>4 DEF CInv

LEMMA CommandsRegister == ASSUME IInv, CInv, Register PROVE CInv'
<1>1. /\ phase = "register" /\ at <= Len(Steps)
      /\ UNCHANGED <<program, ready, script, emitted, repaired, downloadVars>>
  BY DEF Register
<1>2. CASE UNCHANGED <<idx, commands>> /\ (Fail \/ Panic)
  BY <1>1, <1>2, Aside DEF Panic
<1>3. CASE Add(Step) /\ Go
  <2>1. /\ at' = at + 1 /\ UNCHANGED <<phase, current, unsent>>
    BY <1>3 DEF Go
  <2>2. /\ Steps \in Seq(Nat) /\ at \in 1..Len(Steps) /\ Step = Steps[at]
        /\ Step \in Downloads /\ Step \in Nat
        /\ kinds[Step] \in Kinds \cup {"init"}
        /\ \A i \in 1..Len(Steps) : kinds[Steps[i]] = "init" <=> current = 1 /\ i = 1
        /\ \A i \in 1..Len(Steps) : Steps[i] = Before(current) + i
        /\ Before(current) \in Nat
        /\ Steps' = Steps
    <3>1. /\ at \in 1..Len(Steps) /\ Step \in Downloads /\ Step \in Nat
          /\ kinds[Step] \in Kinds \cup {"init"}
      BY <1>1, NextStep DEF Kind
    <3>2. Step = Steps[at] /\ Steps' = Steps
      BY <1>1, <2>1 DEF Step, Steps, program
    <3> QED
      BY <1>1, <3>1, <3>2, StepsOfBatch DEF CInv
  <2>3. Registered = 1..(at - 1) /\ Registered' = 1..at
    BY <1>1, <2>1, <2>2 DEF Registered
  <2>4. /\ commands \in Seq(Commands) /\ script \in Seq(Commands) /\ Len(commands) \in Nat
        /\ idx \in [Downloads -> Int]
    BY DEF CInv, ItemsOK
  <2>5. /\ Items(Step) \in Seq(Commands) /\ Len(Items(Step)) \in Nat \ {0}
        /\ \A j \in 1..Len(Items(Step)) : Items(Step)[j].step = Step
        /\ IF kinds[Step] = "init" THEN Opens(Items(Step)) ELSE Continues(Items(Step))
    BY <2>2, ItemsOfStep
  <2>6. NoStepIsLost' /\ UnsentOK' /\ DeploymentComesFirst'
    BY <1>1, <2>1 DEF CInv, NoStepIsLost, Before, UnsentOK, DeploymentComesFirst, Opens, program
  <2>7. idx' \in [Downloads -> Int]
    BY <1>3, <2>2, <2>4 DEF Add, AddedAt
  <2>8. CASE "container" \notin repaired
    BY <1>1, <1>3, <2>4, <2>6, <2>7, <2>8 DEF CInv, ItemsOK, IndexOK, FirstOK, Add
  <2>9. CASE "container" \in repaired
    <3>1. commands' = commands \o Items(Step)
      BY <1>3, <2>9 DEF Add
    <3>2. commands' \in Seq(Commands) /\ Len(commands') = Len(commands) + Len(Items(Step))
      BY <2>4, <2>5, <3>1, ConcatProperties
    <3>3. /\ \A j \in 1..Len(commands) : commands'[j] = commands[j]
          /\ \A j \in 1..Len(Items(Step)) : commands'[Len(commands) + j] = Items(Step)[j]
      BY <2>4, <2>5, <3>1, Concatenated
    <3>4. ItemsOK'
      BY <1>1, <2>4, <2>7, <2>9, <3>2 DEF ItemsOK
    <3>5. IndexOK'
      <4> SUFFICES ASSUME NEW i \in 1..at, kinds[Steps[i]] # "init"
                   PROVE  /\ idx'[Steps[i]] + 1 \in 1..Len(commands')
                          /\ commands'[idx'[Steps[i]] + 1].step = Steps[i]
        BY <1>1, <2>2, <2>3 DEF IndexOK, program
      <4>1. CASE i = at
        <5>1. idx'[Step] = Len(commands)
          BY <1>3, <2>2, <2>4, <4>1 DEF Add, AddedAt
        <5>2. 1 \in 1..Len(Items(Step)) /\ Len(commands) + 1 \in 1..Len(commands')
          BY <2>4, <2>5, <3>2
        <5>3. commands'[Len(commands) + 1] = Items(Step)[1] /\ Items(Step)[1].step = Step
          BY <2>5, <3>3, <5>2
        <5> QED
          BY <2>2, <4>1, <5>1, <5>2, <5>3
      <4>2. CASE i # at
        <5>1. i \in 1..(at - 1) /\ i \in 1..Len(Steps)
          BY <2>2, <4>2
        <5>2. Steps[i] # Step
          BY <2>2, <4>2, <5>1
        <5>3. idx'[Steps[i]] = idx[Steps[i]]
          BY <1>3, <5>2 DEF Add
        <5>4. idx[Steps[i]] + 1 \in 1..Len(commands) /\ commands[idx[Steps[i]] + 1].step = Steps[i]
          BY <1>1, <2>3, <2>9, <5>1 DEF CInv, IndexOK
        <5> QED
          BY <2>4, <2>5, <3>2, <3>3, <5>3, <5>4
      <4> QED
        BY <4>1, <4>2
    <3>6. FirstOK'
      <4>1. /\ commands = <<>> <=> at = 1
            /\ commands # <<>> => IF current = 1 THEN Opens(commands) ELSE Continues(commands)
            /\ current = 1 => script = <<>>
            /\ script = <<>> => current = 1 \/ 1 \in unsent
        BY <1>1, <2>9 DEF CInv, FirstOK
      <4>2. commands' # <<>> /\ at' # 1
        BY <2>1, <2>2, <2>4, <2>5, <3>2
      <4>3. kinds[Step] = "init" <=> current = 1 /\ at = 1
        BY <2>2
      <4>4. IF current = 1 THEN Opens(commands') ELSE Continues(commands')
        <5>1. CASE at = 1
          <6>1. commands' = Items(Step)
            BY <2>5, <3>1, <4>1, <5>1
          <6> QED
            BY <2>5, <4>3, <5>1, <6>1
        <5>2. CASE at # 1
          BY <2>4, <2>5, <3>1, <4>1, <4>3, <5>2, OpensFirst
        <5> QED
          BY <5>1, <5>2
      <4> QED
        BY <1>1, <2>1, <4>1, <4>2, <4>4 DEF FirstOK
    <3> QED
      BY <2>6, <3>4, <3>5, <3>6 DEF CInv
  <2> QED
    BY <2>8, <2>9
<1> QED
  BY <1>2, <1>3 DEF Register

LEMMA CommandsExecute == ASSUME IInv, CInv, Execute PROVE CInv'
<1>1. /\ phase = "register" /\ at > Len(Steps) /\ script' = script \o commands
      /\ UNCHANGED <<program, idx, commands, repaired>>
  BY DEF Execute
<1>2. /\ commands \in Seq(Commands) /\ Len(commands) \in Nat
      /\ script \in Seq(Commands) /\ Len(script) \in Nat
  BY DEF CInv, ItemsOK
<1>3. /\ script' \in Seq(Commands) /\ Len(script') = Len(script) + Len(commands)
      /\ \A i \in 1..Len(script) : script'[i] = script[i]
      /\ \A i \in 1..Len(commands) : script'[Len(script) + i] = commands[i]
  BY <1>1, <1>2, ConcatProperties, Concatenated
<1>4. NoStepIsLost'
  BY <1>1 DEF CInv, NoStepIsLost, Before, program
<1>5. ItemsOK'
  BY <1>1, <1>2, <1>3 DEF CInv, ItemsOK
<1>6. UnsentOK' /\ UNCHANGED unsent
  BY DEF CInv, UnsentOK, Execute, End
<1>7. /\ Steps \in Seq(Nat) /\ Len(Steps) \in Nat \ {0} /\ at \in Nat \ {0} /\ current \in Nat \ {0}
      /\ \A b \in unsent : b < current
  BY <1>1, StepsOfBatch DEF CInv, IInv, ExecutorOK, UnsentOK
\* What the script opens with.
<1>8. ASSUME "container" \in repaired
      PROVE  /\ script' # <<>>
             /\ current = 1 => script = <<>> /\ 1 \notin unsent /\ Opens(commands)
             /\ current # 1 => Continues(commands) /\ (script = <<>> => 1 \in unsent)
  <2>1. commands # <<>>
    BY <1>1, <1>7, <1>8 DEF CInv, FirstOK
  <2>2. script' # <<>>
    BY <1>2, <1>3, <2>1
  <2> QED
    BY <1>1, <1>7, <1>8, <2>1, <2>2 DEF CInv, FirstOK
<1>9. DeploymentComesFirst'
  <2>1. CASE "container" \notin repaired
    BY <1>5, <2>1, <1>1 DEF ItemsOK, DeploymentComesFirst
  <2>2. CASE "container" \in repaired /\ current = 1
    <3>1. script' = commands
      BY <1>1, <1>2, <1>8, <2>2
    <3> QED
      BY <1>6, <1>8, <2>2, <3>1 DEF DeploymentComesFirst, Opens
  <2>3. CASE "container" \in repaired /\ current # 1
    <3>1. Continues(commands)
      BY <1>8, <2>3
    <3>2. CASE 1 \in unsent
      <4>1. Continues(script)
        BY <3>2 DEF CInv, DeploymentComesFirst, Continues
      <4>2. Continues(script')
        BY <1>1, <1>2, <3>1, <4>1, OpensFirst
      <4> QED
        BY <1>6, <3>2, <4>2 DEF DeploymentComesFirst, Continues
    <3>3. CASE 1 \notin unsent
      <4>1. Opens(script)
        BY <1>8, <2>3, <3>3 DEF CInv, DeploymentComesFirst
      <4>2. Opens(script')
        BY <1>1, <1>2, <3>1, <4>1, OpensFirst
      <4>3. script' # <<>>
        BY <1>8, <2>3
      <4> QED
        BY <1>6, <3>3, <4>2, <4>3 DEF DeploymentComesFirst, Opens
    <3> QED
      BY <3>2, <3>3
  <2> QED
    BY <2>1, <2>2, <2>3
<1>10. CASE End
  <2>1. phase' = "idle" /\ current' = current + 1 /\ current' # 1
    BY <1>7, <1>10 DEF End
  <2>2. IndexOK'
    BY <2>1 DEF IndexOK
  <2>3. FirstOK'
    BY <1>1, <1>8, <2>1 DEF FirstOK
  <2> QED
    BY <1>4, <1>5, <1>6, <1>9, <2>2, <2>3 DEF CInv
<1>11. CASE phase' = "post" /\ UNCHANGED current
  <2>1. Steps' = Steps /\ Registered' = Registered
    BY <1>1, <1>7, <1>11 DEF Steps, Registered, program
  <2>2. IndexOK'
    BY <1>1, <1>11, <2>1 DEF CInv, IndexOK, program
  <2>3. FirstOK'
    BY <1>1, <1>8, <1>11 DEF FirstOK
  <2> QED
    BY <1>4, <1>5, <1>6, <1>9, <2>2, <2>3 DEF CInv
<1> QED
  BY <1>10, <1>11 DEF Execute

LEMMA CommandsPost == ASSUME IInv, CInv, Post PROVE CInv'
<1>1. phase = "post" /\ UNCHANGED <<program, idx, commands, script, repaired>>
  BY DEF Post
<1>2. \/ Go \/ (End /\ UNCHANGED unsent) \/ Panic
      \/ phase' = "hung" /\ UNCHANGED <<current, at, unsent>>
  BY DEF Post, PostSend, PostNowhere, PostReceive, Embedded
<1> QED
  BY <1>1, <1>2, Aside DEF Go, Panic

LEMMA CommandsPosted == ASSUME IInv, CInv, Posted PROVE CInv'
<1>1. phase = "post" /\ End /\ UNCHANGED <<program, idx, commands, script, unsent, repaired>>
  BY DEF Posted, effects
<1> QED
  BY <1>1, Aside

LEMMA CommandsStay ==
  ASSUME IInv, CInv, UNCHANGED <<program, executor, effects, repaired>>
  PROVE  CInv'
<1>1. NoStepIsLost' /\ DeploymentComesFirst'
  BY DEF CInv, NoStepIsLost, Before, DeploymentComesFirst, Opens, program, effects
<1>2. ItemsOK' /\ IndexOK' /\ UnsentOK' /\ FirstOK'
  BY DEF CInv, ItemsOK, IndexOK, UnsentOK, FirstOK, Opens, Continues, Registered, Steps, program, executor, effects
<1> QED
  BY <1>1, <1>2 DEF CInv

\* CInv is an inductive invariant, relative to IInv.
THEOREM CommandInvariance == Spec => []CInv
<1>1. ASSUME IInv, CInv, [Next]_vars PROVE CInv'
  <2>1. ASSUME NEW kind \in QueueKinds, Queue(kind) PROVE CInv'
    BY <1>1, <2>1, CommandsQueue, WorkAssumption
  <2>2. CASE Goroutines \/ UNCHANGED vars
    BY <1>1, <2>2, CommandsStay DEF Goroutines, vars
  <2> QED
    BY <1>1, <2>1, <2>2, CommandsCommit, CommandsTake, CommandsPrepare, CommandsPrepared,
       CommandsRegister, CommandsExecute, CommandsPost, CommandsPosted DEF Next
<1> QED
  BY <1>1, InitCInv, Invariance, PTL DEF Spec

\* Every step is in one batch or pending, in the order in which it was queued.
THEOREM StepsInOrder == Spec => []NoStepIsLost
  BY CommandInvariance, PTL DEF CInv

\* The index of every step that is posted is that of its command.
THEOREM IndexIsRight == Spec => []IndexNamesCommand
<1>1. IInv /\ CInv => IndexNamesCommand
  <2> SUFFICES ASSUME IInv, CInv, phase = "post" PROVE IndexNamesCommand
    BY DEF IndexNamesCommand
  <2>1. CASE "container" \notin repaired
    BY <2>1 DEF IndexNamesCommand, CInv, ItemsOK
  <2>2. CASE "container" \in repaired
    <3>1. commands \in Seq(Commands)
      BY DEF CInv, ItemsOK
    <3> QED
      BY <2>2, <3>1 DEF IndexNamesCommand, CInv, IndexOK, Registered
  <2> QED
    BY <2>1, <2>2
<1> QED
  BY <1>1, Invariance, CommandInvariance, PTL

\* What is sent begins with the two empty maps that stand for deploy and start, and
\* has no other ones; after a first batch that was not sent, it has none.
THEOREM DeploysFirst == Spec => []DeploymentComesFirst
  BY CommandInvariance, PTL DEF CInv

-----------------------------------------------------------------------------
(* Types. *)

EffectsOK ==
    /\ ready \subseteq Downloads
    /\ emitted \subseteq {"started", "finished"} \X Downloads
    /\ unsent \subseteq Nat
    /\ repaired \in Repairs

\* A step of the executor: it may add the step in its hands to what is ready, and
\* events about it to what is emitted.
LEMMA EffectsStay ==
  ASSUME IInv, EffectsOK, UNCHANGED repaired,
         unsent' = unsent \/ unsent' = unsent \cup {current},
         \/ UNCHANGED <<ready, emitted>>
         \/ /\ Step \in Downloads
            /\ ready' \in {ready, ready \cup {Step}}
            /\ \/ emitted' = emitted
               \/ emitted' = emitted \cup {<<"started", Step>>}
               \/ emitted' = emitted \cup {<<"started", Step>>, <<"finished", Step>>}
  PROVE  EffectsOK'
<1>1. ready' \subseteq Downloads
  BY DEF EffectsOK
<1>2. emitted' \subseteq {"started", "finished"} \X Downloads
  <2>1. Step \in Downloads =>
           {<<"started", Step>>, <<"finished", Step>>} \subseteq {"started", "finished"} \X Downloads
    OBVIOUS
  <2> QED
    BY <2>1 DEF EffectsOK
<1>3. unsent' \subseteq Nat
  BY DEF EffectsOK, IInv, ExecutorOK
<1> QED
  BY <1>1, <1>2, <1>3 DEF EffectsOK

LEMMA EffectsStep == ASSUME IInv, EffectsOK, [Next]_vars PROVE EffectsOK'
<1>1. ASSUME NEW kind \in QueueKinds, Queue(kind) PROVE EffectsOK'
  BY <1>1, EffectsStay DEF Queue, effects
<1>2. CASE Commit \/ Goroutines \/ UNCHANGED vars
  BY <1>2, EffectsStay DEF Commit, Goroutines, vars, effects
<1>3. CASE Take \/ Prepared \/ Posted
  BY <1>3, EffectsStay DEF Take, Prepared, Posted, effects
<1>4. CASE Execute
  BY <1>4, EffectsStay DEF Execute
<1>5. CASE Register
  <2>1. Fail \/ Panic \/ Go
    BY <1>5 DEF Register
  <2> QED
    BY <1>5, <2>1, EffectsStay DEF Register, Fail, Panic, Go
<1>6. CASE Prepare
  <2>1. Step \in Downloads
    BY <1>6, NextStep DEF Prepare
  <2>2. Fail \/ Panic \/ Go
    BY <1>6 DEF Prepare, Upload, Embedded
  <2>3. ready' = ready \/ ready' = ready \cup {Step}
    BY <1>6 DEF Prepare, Upload
  <2>4. UNCHANGED <<emitted, repaired>>
    BY <1>6 DEF Prepare
  <2>5. unsent' = unsent \/ unsent' = unsent \cup {current}
    BY <2>2 DEF Fail, Panic, Go
  <2> QED
    BY <2>1, <2>3, <2>4, <2>5, EffectsStay
<1>7. CASE Post
  <2>1. Step \in Downloads
    BY <1>7, NextStep DEF Post
  <2>2. unsent' = unsent \/ unsent' = unsent \cup {current}
    BY <1>7 DEF Post, PostSend, PostNowhere, PostReceive, Embedded, Fail, Panic, Go
  <2>3. \/ emitted' = emitted
        \/ emitted' = emitted \cup {<<"started", Step>>}
        \/ emitted' = emitted \cup {<<"started", Step>>, <<"finished", Step>>}
    BY <1>7 DEF Post, PostSend, PostNowhere, PostReceive
  <2>4. UNCHANGED <<ready, repaired>>
    BY <1>7 DEF Post
  <2> QED
    BY <2>1, <2>2, <2>3, <2>4, EffectsStay
<1> QED
  BY <1>1, <1>2, <1>3, <1>4, <1>5, <1>6, <1>7 DEF Next

TypeOK ==
    /\ DownloadTypeOK /\ StepsOK
    /\ started \in BOOLEAN
    /\ current \in Nat \ {0} /\ at \in Nat \ {0} /\ phase \in Phases
    /\ commands \in Seq(Commands) /\ script \in Seq(Commands)
    /\ idx \in [Downloads -> Int]
    /\ EffectsOK

\* Every variable of a WorkContext, of its executor and of its downloads keeps its type.
THEOREM TypeCorrect == Spec => []TypeOK
<1>1. Init => EffectsOK
  BY DEF Init, EffectsOK
<1>2. Spec => []EffectsOK
  BY <1>1, EffectsStep, Invariance, PTL DEF Spec
<1>3. IInv /\ CInv /\ EffectsOK => TypeOK
  BY DEF IInv, DInv, DeployOK, ExecutorOK, CInv, ItemsOK, TypeOK
<1> QED
  BY <1>2, <1>3, Invariance, CommandInvariance, PTL

-----------------------------------------------------------------------------
(* The script. *)

\* What the script and the commands of the batch tell of the numbers of their steps.
Below(items, s) == \A i \in 1..Len(items) : items[i].step <= s
Above(items, s) == \A i \in 1..Len(items) : items[i].step > s

ScriptOK ==
    /\ ScriptInOrder
    /\ current <= Len(batches) + 1
    /\ phase \in {"idle", "prepare", "register"} => Below(script, Before(current))
    /\ phase \in {"post", "hung"} => Below(script, Before(current + 1))
    /\ phase = "prepare" => commands = <<>>
    /\ phase = "register" => /\ InOrder(commands)
                             /\ Above(commands, Before(current))
                             /\ Below(commands, Before(current) + at - 1)
                             /\ Below(commands, Before(current + 1))

LEMMA StepsAreNat == ASSUME NEW s \in Seq(Commands) PROVE \A i \in 1..Len(s) : s[i].step \in Nat
<1>1. \A i \in 1..Len(s) : s[i] \in Commands
  OBVIOUS
<1>2. \A c \in Commands : c.step \in Nat
  BY DEF Commands
<1> QED
  BY <1>1, <1>2

LEMMA TwoInOrder ==
  ASSUME NEW items, InOrder(items),
         NEW i \in 1..Len(items), NEW j \in 1..Len(items), i < j
  PROVE  \/ items[i].step < items[j].step
         \/ items[i].step = items[j].step /\ Bare(items[i]) /\ Bare(items[j]) /\ j = i + 1
BY DEF InOrder

LEMMA JoinedInOrder ==
  ASSUME NEW s \in Seq(Commands), NEW t \in Seq(Commands), NEW n \in Nat,
         InOrder(s), InOrder(t), Below(s, n), Above(t, n)
  PROVE  /\ InOrder(s \o t)
         /\ \A m \in Nat : m >= n /\ Below(t, m) => Below(s \o t, m)
<1> DEFINE u == s \o t
<1>1. /\ Len(s) \in Nat /\ Len(t) \in Nat
      /\ u \in Seq(Commands) /\ Len(u) = Len(s) + Len(t)
  BY ConcatProperties
<1>2. /\ \A i \in 1..Len(s) : u[i] = s[i]
      /\ \A i \in 1..Len(t) : u[Len(s) + i] = t[i]
  BY Concatenated
<1>3. \A i \in 1..Len(u) : i \in 1..Len(s) \/ (i > Len(s) /\ i - Len(s) \in 1..Len(t) /\ u[i] = t[i - Len(s)])
  <2> TAKE i \in 1..Len(u)
  <2> SUFFICES ASSUME i > Len(s) PROVE i - Len(s) \in 1..Len(t) /\ u[i] = t[i - Len(s)]
    BY <1>1
  <2>1. i - Len(s) \in 1..Len(t) /\ i = Len(s) + (i - Len(s))
    BY <1>1
  <2> QED
    BY <1>2, <2>1
<1>4. /\ \A i \in 1..Len(s) : s[i].step \in Nat
      /\ \A i \in 1..Len(t) : t[i].step \in Nat
  BY StepsAreNat
<1> HIDE DEF u
<1>5. InOrder(u)
  <2> SUFFICES ASSUME NEW i \in 1..Len(u), NEW j \in 1..Len(u), i < j
               PROVE  \/ u[i].step < u[j].step
                      \/ u[i].step = u[j].step /\ Bare(u[i]) /\ Bare(u[j]) /\ j = i + 1
    BY DEF InOrder
  <2>1. CASE j \in 1..Len(s)
    <3>1. i \in 1..Len(s) /\ u[i] = s[i] /\ u[j] = s[j]
      BY <1>1, <1>2, <2>1
    <3> QED
      BY <2>1, <3>1, TwoInOrder
  <2>2. CASE i \in 1..Len(s) /\ j \notin 1..Len(s)
    <3>1. j - Len(s) \in 1..Len(t) /\ u[j] = t[j - Len(s)] /\ u[i] = s[i]
      BY <1>2, <1>3, <2>2
    <3>2. s[i].step <= n /\ t[j - Len(s)].step > n
      BY <2>2, <3>1 DEF Below, Above
    <3> QED
      BY <1>4, <2>2, <3>1, <3>2
  <2>3. CASE i \notin 1..Len(s) /\ j \notin 1..Len(s)
    <3>1. /\ i - Len(s) \in 1..Len(t) /\ u[i] = t[i - Len(s)]
          /\ j - Len(s) \in 1..Len(t) /\ u[j] = t[j - Len(s)]
      BY <1>3, <2>3
    <3>2. i - Len(s) < j - Len(s) /\ (j - Len(s) = i - Len(s) + 1 => j = i + 1)
      BY <1>1
    <3>3. \/ t[i - Len(s)].step < t[j - Len(s)].step
          \/ /\ t[i - Len(s)].step = t[j - Len(s)].step
             /\ Bare(t[i - Len(s)]) /\ Bare(t[j - Len(s)])
             /\ j - Len(s) = i - Len(s) + 1
      BY <3>1, <3>2, TwoInOrder
    <3> QED
      BY <3>1, <3>2, <3>3
  <2> QED
    BY <1>1, <2>1, <2>2, <2>3
<1>6. ASSUME NEW m \in Nat, m >= n, Below(t, m) PROVE Below(u, m)
  <2> SUFFICES ASSUME NEW i \in 1..Len(u) PROVE u[i].step <= m
    BY DEF Below
  <2>1. CASE i \in 1..Len(s)
    BY <1>2, <1>4, <1>6, <2>1 DEF Below
  <2>2. CASE i \notin 1..Len(s)
    BY <1>3, <1>6, <2>2 DEF Below
  <2> QED
    BY <2>1, <2>2
<1> QED
  BY <1>5, <1>6 DEF u

LEMMA NextBatch ==
  ASSUME IInv, NoStepIsLost, phase # "idle"
  PROVE  /\ current <= Len(batches) /\ current \in Nat \ {0} /\ Len(batches) \in Nat
         /\ Before(current) \in Nat /\ Before(current + 1) = Before(current) + Len(Steps)
         /\ Len(Steps) \in Nat
<1>1. current <= Len(batches) /\ current \in Nat \ {0} /\ Len(batches) \in Nat
  BY DEF IInv, ExecutorOK, StepsOK
<1>2. /\ Len(Steps) \in Nat \ {0} /\ Before(current) \in Nat
      /\ \A i \in 1..Len(Steps) : Steps[i] = Before(current) + i
  BY StepsOfBatch
<1>3. Before(current + 1) = Steps[Len(Steps)]
  BY <1>1 DEF Before, Steps, Last
<1> QED
  BY <1>1, <1>2, <1>3

\* What leaves the script and the commands alone.
LEMMA ScriptStays ==
  ASSUME IInv, NoStepIsLost, ScriptOK,
         UNCHANGED <<script, commands, phase, current, at>>,
         \/ UNCHANGED batches
         \/ batches' = Append(batches, pending)
  PROVE  ScriptOK'
<1>1. /\ batches \in Seq(Seq(Nat)) /\ pending \in Seq(Nat) /\ Len(batches) \in Nat
      /\ current \in Nat \ {0} /\ current <= Len(batches) + 1
      /\ phase # "idle" => current <= Len(batches)
  BY DEF IInv, StepsOK, ExecutorOK, ScriptOK
<1>2. Len(batches') >= Len(batches) /\ \A b \in 1..Len(batches) : batches'[b] = batches[b]
  <2>1. CASE UNCHANGED batches
    BY <1>1, <2>1
  <2>2. CASE batches' = Append(batches, pending)
    BY <1>1, <2>2, AppendProperties
  <2> QED
    BY <2>1, <2>2
<1>3. current <= Len(batches') + 1
  BY <1>1, <1>2
<1>4. Before(current)' = Before(current)
  <2>1. current # 1 => current - 1 \in 1..Len(batches)
    BY <1>1
  <2> QED
    BY <1>2, <2>1 DEF Before
<1>5. phase # "idle" => Before(current + 1)' = Before(current + 1)
  BY <1>1, <1>2 DEF Before
<1>6. ScriptInOrder' /\ InOrder(commands)' = InOrder(commands)
  BY DEF ScriptOK, ScriptInOrder, InOrder
<1>7. phase \in {"idle", "prepare", "register"} => Below(script, Before(current))'
  BY <1>4 DEF ScriptOK, Below
<1>8. phase \in {"post", "hung"} => Below(script, Before(current + 1))'
  BY <1>5 DEF ScriptOK, Below
<1>9. phase = "register" => /\ InOrder(commands)' /\ Above(commands, Before(current))'
                            /\ Below(commands, Before(current) + at - 1)'
                            /\ Below(commands, Before(current + 1))'
  BY <1>4, <1>5, <1>6 DEF ScriptOK, Below, Above
<1> QED
  BY <1>3, <1>6, <1>7, <1>8, <1>9 DEF ScriptOK

\* A batch ends, before it was executed or after it, or the executor does.
LEMMA BatchOver ==
  ASSUME IInv, CInv, ScriptOK, phase \notin {"idle", "panicked"},
         UNCHANGED <<program, script, commands>>,
         \/ phase' = "idle" /\ current' = current + 1
         \/ phase' = "panicked" /\ current' = current
         \/ phase' = "hung" /\ current' = current /\ phase = "post"
  PROVE  ScriptOK'
<1>1. /\ current <= Len(batches) /\ current \in Nat \ {0} /\ Len(batches) \in Nat
      /\ Before(current) \in Nat /\ Before(current + 1) = Before(current) + Len(Steps)
      /\ Len(Steps) \in Nat
  BY NextBatch DEF CInv
<1>2. batches' = batches /\ current' <= Len(batches) + 1
  BY <1>1 DEF program
<1>3. ScriptInOrder'
  BY DEF ScriptOK, ScriptInOrder, InOrder
<1>4. Below(script, Before(current + 1))
  <2>1. \A i \in 1..Len(script) : script[i].step \in Nat
    BY StepsAreNat DEF CInv, ItemsOK
  <2>2. phase \in {"prepare", "register", "post", "hung"}
    BY DEF IInv, ExecutorOK, Phases
  <2> QED
    BY <1>1, <2>1, <2>2 DEF ScriptOK, Below
<1>5. CASE phase' = "idle" /\ current' = current + 1
  <2>1. Before(current)' = Before(current + 1)
    BY <1>1, <1>2, <1>5 DEF Before
  <2>2. Below(script, Before(current))'
    BY <1>4, <2>1 DEF Below
  <2> QED
    BY <1>2, <1>3, <1>5, <2>2 DEF ScriptOK
<1>6. CASE phase' = "panicked" /\ current' = current
  BY <1>2, <1>3, <1>6 DEF ScriptOK
<1>7. CASE phase' = "hung" /\ current' = current /\ phase = "post"
  <2>1. Before(current + 1)' = Before(current + 1)
    BY <1>2, <1>7 DEF Before
  <2>2. Below(script, Before(current + 1))'
    BY <1>4, <2>1 DEF Below
  <2> QED
    BY <1>2, <1>3, <1>7, <2>2 DEF ScriptOK
<1> QED
  BY <1>5, <1>6, <1>7

LEMMA ScriptTake == ASSUME IInv, CInv, ScriptOK, Take PROVE ScriptOK'
<1>1. /\ phase = "idle" /\ phase' = "prepare" /\ commands' = <<>>
      /\ UNCHANGED <<batches, current, script>>
  BY DEF Take, program
<1>2. Before(current)' = Before(current)
  BY <1>1 DEF Before
<1> QED
  BY <1>1, <1>2 DEF ScriptOK, ScriptInOrder, InOrder, Below

LEMMA ScriptPrepare == ASSUME IInv, CInv, ScriptOK, Prepare PROVE ScriptOK'
<1>1. phase = "prepare" /\ UNCHANGED <<program, script, commands>>
  BY DEF Prepare
<1>2. CASE Go
  <2>1. UNCHANGED <<batches, current, phase>>
    BY <1>1, <1>2 DEF Go, program
  <2>2. Before(current)' = Before(current)
    BY <2>1 DEF Before
  <2> QED
    BY <1>1, <2>1, <2>2 DEF ScriptOK, ScriptInOrder, InOrder, Below
<1>3. CASE Fail \/ Panic
  BY <1>1, <1>3, BatchOver DEF Fail, End, Panic
<1>4. Go \/ Fail \/ Panic
  BY DEF Prepare, Upload, Embedded
<1> QED
  BY <1>2, <1>3, <1>4

LEMMA ScriptPrepared == ASSUME IInv, CInv, ScriptOK, Prepared PROVE ScriptOK'
<1>1. /\ phase = "prepare" /\ phase' = "register" /\ at' = 1
      /\ UNCHANGED <<batches, current, script, commands>>
  BY DEF Prepared, program, effects
<1>2. Before(current)' = Before(current) /\ commands' = <<>>
  BY <1>1 DEF Before, ScriptOK
<1> QED
  BY <1>1, <1>2 DEF ScriptOK, ScriptInOrder, InOrder, Below, Above

LEMMA ScriptRegister == ASSUME IInv, CInv, ScriptOK, Register PROVE ScriptOK'
<1>1. phase = "register" /\ at <= Len(Steps) /\ UNCHANGED <<program, script>>
  BY DEF Register
<1>2. CASE UNCHANGED commands /\ (Fail \/ Panic)
  BY <1>1, <1>2, BatchOver DEF Fail, End, Panic
<1>3. CASE Add(Step) /\ Go
  <2>1. at' = at + 1 /\ UNCHANGED <<batches, phase, current>>
    BY <1>1, <1>3 DEF Go, program
  <2>2. /\ Before(current) \in Nat /\ Before(current + 1) = Before(current) + Len(Steps)
        /\ Len(Steps) \in Nat
    BY <1>1, NextBatch DEF CInv
  <2>3. at \in Nat \ {0} /\ Step = Before(current) + at /\ kinds[Step] \in Kinds \cup {"init"}
    <3>1. at \in 1..Len(Steps) /\ kinds[Step] \in Kinds \cup {"init"}
      BY <1>1, NextStep DEF Kind
    <3> QED
      BY <1>1, <3>1, StepsOfBatch DEF CInv, Step
  <2>4. commands \in Seq(Commands) /\ \A i \in 1..Len(commands) : commands[i].step \in Nat
    BY StepsAreNat DEF CInv, ItemsOK
  <2>5. Before(current)' = Before(current) /\ Before(current + 1)' = Before(current + 1)
    BY <2>1 DEF Before
  <2>6. /\ InOrder(commands) /\ Above(commands, Before(current))
        /\ Below(commands, Before(current) + at - 1) /\ Below(commands, Before(current + 1))
    BY <1>1 DEF ScriptOK
  <2>7. ASSUME InOrder(commands'), Above(commands', Before(current)),
               Below(commands', Before(current) + at), Below(commands', Before(current + 1))
        PROVE  ScriptOK'
    <3>1. Before(current)' + at' - 1 = Before(current) + at
      BY <2>1, <2>2, <2>3, <2>5
    <3>2. InOrder(commands)' /\ Above(commands, Before(current))'
      BY <2>5, <2>7 DEF InOrder, Above
    <3>3. Below(commands, Before(current) + at - 1)' /\ Below(commands, Before(current + 1))'
      BY <2>5, <2>7, <3>1 DEF Below
    <3>4. ScriptInOrder' /\ Below(script, Before(current))'
      BY <1>1, <2>5 DEF ScriptOK, ScriptInOrder, InOrder, Below
    <3> QED
      BY <1>1, <2>1, <3>2, <3>3, <3>4 DEF ScriptOK
  <2>8. CASE commands' = commands
    <3>1. Below(commands, Before(current) + at)
      BY <2>2, <2>3, <2>4, <2>6 DEF Below
    <3> QED
      BY <2>6, <2>7, <2>8, <3>1
  <2>9. CASE commands' = commands \o Items(Step)
    <3>1. /\ Items(Step) \in Seq(Commands)
          /\ \A j \in 1..Len(Items(Step)) : Items(Step)[j].step = Step
          /\ InOrder(Items(Step))
      BY <2>2, <2>3, ItemsOfStep
    <3> DEFINE n == Before(current) + at - 1
    <3>2. n \in Nat /\ Step > n /\ Step <= Before(current) + at /\ Step <= Before(current + 1)
      BY <1>1, <2>2, <2>3
    <3>3. /\ Above(Items(Step), n) /\ Below(Items(Step), Before(current) + at)
          /\ Below(Items(Step), Before(current + 1))
      BY <3>1, <3>2 DEF Above, Below
    <3>4. n <= Before(current) + at /\ n <= Before(current + 1)
      BY <1>1, <2>2, <2>3
    <3>5. /\ InOrder(commands') /\ Below(commands', Before(current) + at)
          /\ Below(commands', Before(current + 1))
      <4> HIDE DEF n
      <4>1. Before(current) + at \in Nat /\ Before(current + 1) \in Nat
        BY <2>2, <2>3
      <4>2. Below(commands, n)
        BY <2>6 DEF n
      <4> QED
        BY <2>4, <2>6, <2>9, <3>1, <3>2, <3>3, <3>4, <4>1, <4>2, JoinedInOrder
    <3>6. Above(commands', Before(current))
      <4> SUFFICES ASSUME NEW i \in 1..Len(commands') PROVE commands'[i].step > Before(current)
        BY DEF Above
      <4>1. /\ Len(commands) \in Nat /\ Len(commands') = Len(commands) + Len(Items(Step))
            /\ Len(Items(Step)) \in Nat
        BY <2>4, <2>9, <3>1, ConcatProperties
      <4>2. CASE i \in 1..Len(commands)
        BY <2>4, <2>6, <2>9, <3>1, <4>2, Concatenated DEF Above
      <4>3. CASE i \notin 1..Len(commands)
        <5>1. i - Len(commands) \in 1..Len(Items(Step)) /\ i = Len(commands) + (i - Len(commands))
          BY <4>1, <4>3
        <5>2. commands'[Len(commands) + (i - Len(commands))] = Items(Step)[i - Len(commands)]
          BY <2>4, <2>9, <3>1, <5>1, Concatenated
        <5> QED
          BY <2>2, <2>3, <3>1, <5>1, <5>2
      <4> QED
        BY <4>2, <4>3
    <3> QED
      BY <2>7, <3>5, <3>6
  <2> QED
    BY <1>3, <2>8, <2>9 DEF Add
<1> QED
  BY <1>2, <1>3 DEF Register

LEMMA ScriptExecute == ASSUME IInv, CInv, ScriptOK, Execute PROVE ScriptOK'
<1>1. /\ phase = "register" /\ script' = script \o commands /\ UNCHANGED <<batches, commands>>
      /\ \/ phase' = "post" /\ UNCHANGED current
         \/ phase' = "idle" /\ current' = current + 1
  BY DEF Execute, End, program
<1>2. /\ current <= Len(batches) /\ current \in Nat \ {0} /\ Len(batches) \in Nat
      /\ Before(current) \in Nat /\ Before(current + 1) = Before(current) + Len(Steps)
      /\ Len(Steps) \in Nat
  BY <1>1, NextBatch DEF CInv
<1>3. script \in Seq(Commands) /\ commands \in Seq(Commands)
  BY DEF CInv, ItemsOK
<1>4. /\ InOrder(script) /\ InOrder(commands)
      /\ Below(script, Before(current)) /\ Above(commands, Before(current))
      /\ Below(commands, Before(current + 1))
  BY <1>1 DEF ScriptOK, ScriptInOrder
<1>5. Before(current + 1) \in Nat /\ Before(current + 1) >= Before(current)
  BY <1>2
<1>6. InOrder(script') /\ Below(script', Before(current + 1))
  BY <1>1, <1>2, <1>3, <1>4, <1>5, JoinedInOrder
<1>7. ScriptInOrder'
  BY <1>6 DEF ScriptInOrder, InOrder
<1>8. CASE phase' = "post" /\ UNCHANGED current
  <2>1. Before(current + 1)' = Before(current + 1)
    BY <1>1, <1>8 DEF Before
  <2>2. Below(script, Before(current + 1))'
    BY <1>6, <2>1 DEF Below
  <2> QED
    BY <1>1, <1>2, <1>7, <1>8, <2>2 DEF ScriptOK
<1>9. CASE phase' = "idle" /\ current' = current + 1
  <2>1. Before(current)' = Before(current + 1)
    BY <1>1, <1>2, <1>9 DEF Before
  <2>2. Below(script, Before(current))'
    BY <1>6, <2>1 DEF Below
  <2> QED
    BY <1>1, <1>2, <1>7, <1>9, <2>2 DEF ScriptOK
<1> QED
  BY <1>1, <1>8, <1>9

LEMMA ScriptPost == ASSUME IInv, CInv, ScriptOK, Post PROVE ScriptOK'
<1>1. phase = "post" /\ UNCHANGED <<program, script, commands>>
  BY DEF Post
<1>2. \/ Go \/ End \/ Panic
      \/ phase' = "hung" /\ UNCHANGED <<current, at, unsent>>
  BY DEF Post, PostSend, PostNowhere, PostReceive, Embedded
<1>3. CASE Go
  <2>1. UNCHANGED <<batches, current, phase>>
    BY <1>1, <1>3 DEF Go, program
  <2>2. Before(current + 1)' = Before(current + 1)
    BY <2>1 DEF Before
  <2> QED
    BY <1>1, <2>1, <2>2 DEF ScriptOK, ScriptInOrder, InOrder, Below
<1> QED
  BY <1>1, <1>2, <1>3, BatchOver DEF End, Panic

LEMMA ScriptPosted == ASSUME IInv, CInv, ScriptOK, Posted PROVE ScriptOK'
  BY BatchOver DEF Posted, End, effects

\* No command is sent twice, and none before those of earlier steps.
THEOREM ScriptIsOrdered == Spec => []ScriptInOrder
<1>1. Init => ScriptOK
  BY DEF Init, ScriptOK, ScriptInOrder, InOrder, Below
<1>2. ASSUME IInv, CInv, ScriptOK, [Next]_vars PROVE ScriptOK'
  <2>1. ASSUME NEW kind \in QueueKinds, Queue(kind) PROVE ScriptOK'
    BY <1>2, <2>1, ScriptStays DEF Queue, executor, effects, CInv
  <2>2. CASE Commit
    BY <1>2, <2>2, ScriptStays DEF Commit, executor, effects, CInv
  <2>3. CASE Goroutines \/ UNCHANGED vars
    BY <1>2, <2>3, ScriptStays DEF Goroutines, vars, program, executor, effects, CInv
  <2> QED
    BY <1>2, <2>1, <2>2, <2>3, ScriptTake, ScriptPrepare, ScriptPrepared, ScriptRegister,
       ScriptExecute, ScriptPost, ScriptPosted DEF Next
<1>3. ScriptOK => ScriptInOrder
  BY DEF ScriptOK
<1> QED
  BY <1>1, <1>2, <1>3, Invariance, CommandInvariance, PTL DEF Spec
=============================================================================

-------------------------- MODULE ResourcesProofs --------------------------
(***************************************************************************)
(* The safety properties of Resources, for any tasks, activities and       *)
(* number of requests.                                                     *)
(***************************************************************************)
EXTENDS Resources, TLAPS

Open == {"requested", "active"}

\* A task's calls are numbered upwards, and its id is that of an answered one.
CallOK ==
    /\ \A a \in Requests : a > requests => status[a] = "none"
    /\ \A t \in Tasks :
          /\ id[t] <= requests
          /\ id[t] # 0 => status[id[t]] \in {"active", "released"}
          /\ call[t] # 0 => maker[call[t]] = t /\ id[t] < call[t] /\ call[t] <= requests
          /\ t \in closed => call[t] = 0

\* AllocationIsKnown, of the requests too that the service may yet carry out.
KnownOK ==
    \A a \in Requests :
       status[a] \in Open =>
          \/ id[maker[a]] = a \/ call[maker[a]] = a
          \/ a \in lost \cup nameless
          \/ Forgotten(a)

\* NothingKnownIsLeft, likewise.
ClosedOK ==
    \A a \in Requests :
       maker[a] \in closed /\ status[a] \in Open => a \in lost \cup nameless \/ Forgotten(a)

\* An answer of CreateActivity comes after the activity was made.
ActivityOK ==
    \A x \in Activities :
       /\ held[x] = "none" <=> activity[x] = "none"
       /\ held[x] = "calling" => activity[x] \in {"requested", "running"}
       /\ held[x] = "failed" => activity[x] = "running"

IInv == TypeOK /\ CallOK /\ KnownOK /\ ClosedOK /\ ActivityOK

USE ResourceAssumption
USE DEF TypeOK, Requests, Statuses, Open, allocationVars, activityVars

-----------------------------------------------------------------------------
\* Nothing that is forgotten is remembered while the ids stay what they are.
LEMMA ForgottenStays ==
  ASSUME UNCHANGED <<maker, id>>, nameless \subseteq nameless'
  PROVE  \A a \in Requests : Forgotten(a) => Forgotten(a)'
  BY DEF Forgotten

LEMMA InitIInv == Init => IInv
<1> SUFFICES ASSUME Init PROVE IInv
  OBVIOUS
<1> USE DEF Init
<1>1. TypeOK
  <2>1. 0 \in 0..MaxRequests
    OBVIOUS
  <2>2. id \in [Tasks -> 0..MaxRequests] /\ call \in [Tasks -> 0..MaxRequests]
    BY <2>1
  <2>3. status \in [Requests -> Statuses] /\ maker \in [Requests -> Tasks]
    OBVIOUS
  <2> QED
    BY <2>1, <2>2, <2>3
<1>2. CallOK
  BY DEF CallOK
<1>3. KnownOK /\ ClosedOK /\ ActivityOK
  BY DEF KnownOK, ClosedOK, ActivityOK
<1> QED
  BY <1>1, <1>2, <1>3 DEF IInv

LEMMA StepAlocate == ASSUME IInv, NEW t \in Tasks, Alocate(t) PROVE IInv'
<1> USE DEF IInv, Alocate
<1>1. CASE ~linked
  <2>1. UNCHANGED allocationVars /\ UNCHANGED activityVars /\ UNCHANGED linked /\ crashed' \in BOOLEAN
    BY <1>1
  <2>2. TypeOK' /\ CallOK' /\ ActivityOK'
    BY <2>1 DEF CallOK, ActivityOK
  <2>3. KnownOK' /\ ClosedOK'
    BY <2>1, ForgottenStays DEF KnownOK, ClosedOK
  <2> QED
    BY <2>2, <2>3
<1>2. CASE linked
  <2> DEFINE a == requests + 1
  <2>1. a \in 1..MaxRequests /\ requests' = a
    BY <1>2
  <2>2. /\ status' = [status EXCEPT ![a] = "requested"]
        /\ call' = [call EXCEPT ![t] = a]
        /\ closed' = closed \ {t}
        /\ maker[a] = t
    BY <1>2
  <2> HIDE DEF a
  <2>3. TypeOK'
    <3>1. status' \in [Requests -> Statuses] /\ call' \in [Tasks -> 0..MaxRequests]
      BY <2>1, <2>2
    <3> QED
      BY <2>1, <2>2, <3>1
  <2>4. id[t] < a /\ id[t] # a /\ status[a] = "none" /\ \A b \in Requests : b > a => b > requests
    BY <2>1 DEF CallOK, a
  <2>5. CallOK'
    <3>1. \A b \in Requests : b > requests' => status'[b] = "none"
      BY <2>1, <2>2, <2>4 DEF CallOK
    <3>2. ASSUME NEW u \in Tasks
          PROVE  /\ id'[u] <= requests'
                 /\ id'[u] # 0 => status'[id'[u]] \in {"active", "released"}
                 /\ call'[u] # 0 => maker'[call'[u]] = u /\ id'[u] < call'[u] /\ call'[u] <= requests'
                 /\ u \in closed' => call'[u] = 0
      <4>1. id[u] <= requests /\ requests <= a /\ id[u] # a
        BY <2>1 DEF CallOK, a
      <4> QED
        BY <2>1, <2>2, <2>3, <2>4, <4>1 DEF CallOK
    <3> QED
      BY <3>1, <3>2 DEF CallOK
  <2>6. KnownOK'
    BY <2>1, <2>2, <2>3, <2>4, ForgottenStays DEF CallOK, KnownOK
  <2>7. ClosedOK'
    BY <2>1, <2>2, <2>3, <2>4, ForgottenStays DEF CallOK, ClosedOK
  <2>8. ActivityOK'
    BY DEF ActivityOK
  <2> QED
    BY <2>3, <2>5, <2>6, <2>7, <2>8
<1> QED
  BY <1>1, <1>2

LEMMA StepDecide == ASSUME IInv, NEW a \in Requests, Decide(a) PROVE IInv'
<1> USE DEF IInv, Decide
<1>1. TypeOK'
  OBVIOUS
<1>2. CallOK'
  BY <1>1 DEF CallOK
<1>3. KnownOK'
  BY <1>1, ForgottenStays DEF CallOK, KnownOK
<1>4. ClosedOK'
  BY <1>1, ForgottenStays DEF CallOK, KnownOK, ClosedOK
<1>5. ActivityOK'
  BY <1>1 DEF ActivityOK
<1> QED
  BY <1>1, <1>2, <1>3, <1>4, <1>5

LEMMA StepGiveUp == ASSUME IInv, NEW t \in Tasks, GiveUp(t) PROVE IInv'
<1> USE DEF IInv, GiveUp
<1>1. TypeOK'
  <2>1. call[t] \in Requests
    OBVIOUS
  <2>2. call' \in [Tasks -> 0..MaxRequests]
    <3>1. 0 \in 0..MaxRequests
      OBVIOUS
    <3> QED
      BY <3>1
  <2> QED
    BY <2>1, <2>2
<1>2. CallOK'
  BY <1>1 DEF CallOK
<1>3. KnownOK'
  BY <1>1, ForgottenStays DEF CallOK, KnownOK
<1>4. ClosedOK'
  BY <1>1, ForgottenStays DEF CallOK, KnownOK, ClosedOK
<1>5. ActivityOK'
  BY <1>1 DEF ActivityOK
<1> QED
  BY <1>1, <1>2, <1>3, <1>4, <1>5

LEMMA StepAnswered == ASSUME IInv, NEW t \in Tasks, Answered(t) PROVE IInv'
<1> USE DEF IInv, Answered
<1>1. /\ call[t] \in Requests /\ maker[call[t]] = t /\ id[t] < call[t]
      /\ status[call[t]] \in {"active", "released"}
      /\ \A u \in Tasks : id[u] \in 0..MaxRequests
  BY DEF CallOK
<1>2. /\ nameless \subseteq nameless' /\ nameless' \subseteq nameless \cup {call[t]}
      /\ given' \subseteq given \cup {call[t]} /\ crashed' \in BOOLEAN
      /\ call' = [call EXCEPT ![t] = 0]
      /\ UNCHANGED <<linked, expires, late, requests, maker, status, lost, closed, activityVars>>
  BY DEF NamelessAnswer, NamedAnswer
\* The answer is the task's id, or it had none.
<1>3. \/ id' = [id EXCEPT ![t] = 0] /\ call[t] \in nameless'
      \/ id' = [id EXCEPT ![t] = call[t]]
  BY DEF NamelessAnswer, NamedAnswer, IdAtOnce
<1>4. /\ \A u \in Tasks \ {t} : id'[u] = id[u] /\ call'[u] = call[u]
      /\ call'[t] = 0 /\ id'[t] \in {0, call[t]}
      /\ id'[t] = call[t] \/ call[t] \in nameless'
  BY <1>2, <1>3
<1>5. TypeOK'
  <2>1. 0 \in 0..MaxRequests /\ call[t] \in 0..MaxRequests
    BY <1>1
  <2>2. call' \in [Tasks -> 0..MaxRequests] /\ id' \in [Tasks -> 0..MaxRequests]
    BY <1>2, <1>3, <2>1
  <2>3. given' \subseteq Requests /\ nameless' \subseteq Requests
    BY <1>1, <1>2
  <2> QED
    BY <1>2, <2>2, <2>3
<1>6. CallOK'
  <2>1. \A a \in Requests : a > requests' => status'[a] = "none"
    BY <1>2 DEF CallOK
  <2>2. ASSUME NEW u \in Tasks
        PROVE  /\ id'[u] <= requests'
               /\ id'[u] # 0 => status'[id'[u]] \in {"active", "released"}
               /\ call'[u] # 0 => maker'[call'[u]] = u /\ id'[u] < call'[u] /\ call'[u] <= requests'
               /\ u \in closed' => call'[u] = 0
    <3>1. CASE u = t
      BY <1>1, <1>2, <1>4, <3>1 DEF CallOK
    <3>2. CASE u # t
      BY <1>2, <1>4, <3>2 DEF CallOK
    <3> QED
      BY <3>1, <3>2
  <2> QED
    BY <2>1, <2>2 DEF CallOK
\* What the task had before is forgotten.
<1>7. ASSUME NEW a \in Requests, maker[a] = t, a < call[t] PROVE Forgotten(a)'
  BY <1>1, <1>2, <1>4, <1>7 DEF Forgotten
<1>8. ASSUME NEW a \in Requests, Forgotten(a) PROVE Forgotten(a)'
  <2>1. PICK b \in Requests : /\ b > a /\ maker[b] = maker[a]
                              /\ b = id[maker[a]] \/ b \in nameless
    BY <1>8 DEF Forgotten
  <2>2. CASE b \in nameless \/ maker[a] # t
    BY <1>2, <1>4, <2>1, <2>2 DEF Forgotten
  <2>3. CASE b = id[t] /\ maker[a] = t
    <3>1. a < call[t]
      BY <1>1, <2>1, <2>3
    <3> QED
      BY <1>7, <2>3, <3>1
  <2> QED
    BY <2>1, <2>2, <2>3
<1>9. KnownOK'
  <2> SUFFICES ASSUME NEW a \in Requests, status[a] \in Open
               PROVE  \/ id'[maker[a]] = a \/ call'[maker[a]] = a
                      \/ a \in lost \cup nameless'
                      \/ Forgotten(a)'
    BY <1>2 DEF KnownOK
  <2>1. CASE maker[a] = t /\ id[t] = a
    BY <1>1, <1>7, <2>1
  <2>2. CASE maker[a] = t /\ call[t] = a
    BY <1>4, <2>2
  <2>3. CASE maker[a] # t \/ (id[t] # a /\ call[t] # a)
    BY <1>2, <1>4, <1>8, <2>3 DEF KnownOK
  <2> QED
    BY <2>1, <2>2, <2>3
<1>10. ClosedOK'
  BY <1>2, <1>4, <1>8 DEF ClosedOK
<1>11. ActivityOK'
  BY <1>2 DEF ActivityOK
<1> QED
  BY <1>5, <1>6, <1>9, <1>10, <1>11

LEMMA StepDeAllocate == ASSUME IInv, NEW t \in Tasks, DeAllocate(t) PROVE IInv'
<1> USE DEF IInv, DeAllocate, Release, Reported
<1>1. TypeOK'
  OBVIOUS
<1>2. CallOK'
  <2>1. \A a \in Requests : \/ status'[a] = status[a]
                            \/ status[a] = "active" /\ status'[a] = "released"
    OBVIOUS
  <2>2. closed' \subseteq closed \cup {t}
    OBVIOUS
  <2>3. \A u \in Tasks : id[u] # 0 => id[u] \in Requests
    OBVIOUS
  <2> QED
    BY <2>1, <2>2, <2>3 DEF CallOK
<1>3. KnownOK'
  BY <1>1, ForgottenStays DEF CallOK, KnownOK
<1>4. ClosedOK'
  <2>1. ASSUME NEW a \in Requests, maker[a] = t, status'[a] \in Open, t \in closed'
        PROVE  a \in lost \cup nameless \/ Forgotten(a)
    <3>1. status[a] \in Open /\ (id[t] = a => status[a] = "active")
      BY <2>1 DEF CallOK
    <3>2. id[t] # a
      BY <2>1, <3>1
    <3> QED
      BY <2>1, <3>1, <3>2 DEF KnownOK
  <2>2. ASSUME NEW a \in Requests, maker[a] # t, status'[a] \in Open, maker[a] \in closed'
        PROVE  a \in lost \cup nameless \/ Forgotten(a)
    <3>1. status[a] \in Open /\ maker[a] \in closed
      BY <2>2
    <3> QED
      BY <3>1 DEF ClosedOK
  <2> QED
    BY <2>1, <2>2, ForgottenStays DEF ClosedOK
<1>5. ActivityOK'
  BY <1>1 DEF ActivityOK
<1> QED
  BY <1>1, <1>2, <1>3, <1>4, <1>5

LEMMA StepDelete == ASSUME IInv, NEW a \in Requests, Delete(a) PROVE IInv'
<1> USE DEF IInv, Delete, Release
<1>1. TypeOK'
  OBVIOUS
<1>2. CallOK'
  <2>1. \A b \in Requests : \/ status'[b] = status[b]
                            \/ status[b] = "active" /\ status'[b] = "released"
    OBVIOUS
  <2>2. \A u \in Tasks : id[u] # 0 => id[u] \in Requests
    OBVIOUS
  <2> QED
    BY <2>1, <2>2 DEF CallOK
<1>3. KnownOK'
  BY <1>1, ForgottenStays DEF CallOK, KnownOK
<1>4. ClosedOK'
  BY <1>1, ForgottenStays DEF CallOK, KnownOK, ClosedOK
<1>5. ActivityOK'
  BY <1>1 DEF ActivityOK
<1> QED
  BY <1>1, <1>2, <1>3, <1>4, <1>5

LEMMA StepExpire == ASSUME IInv, NEW a \in Requests, Expire(a) PROVE IInv'
<1> USE DEF IInv, Expire
<1>1. TypeOK'
  OBVIOUS
<1>2. CallOK'
  BY <1>1 DEF CallOK
<1>3. KnownOK'
  BY <1>1, ForgottenStays DEF CallOK, KnownOK
<1>4. ClosedOK'
  BY <1>1, ForgottenStays DEF CallOK, KnownOK, ClosedOK
<1>5. ActivityOK'
  BY <1>1 DEF ActivityOK
<1> QED
  BY <1>1, <1>2, <1>3, <1>4, <1>5

LEMMA StepTimePasses == ASSUME IInv, TimePasses PROVE IInv'
<1> USE DEF IInv, TimePasses
<1>1. TypeOK'
  OBVIOUS
<1>2. CallOK'
  BY <1>1 DEF CallOK
<1>3. KnownOK'
  BY <1>1, ForgottenStays DEF CallOK, KnownOK
<1>4. ClosedOK'
  BY <1>1, ForgottenStays DEF CallOK, KnownOK, ClosedOK
<1>5. ActivityOK'
  BY <1>1 DEF ActivityOK
<1> QED
  BY <1>1, <1>2, <1>3, <1>4, <1>5

LEMMA StepNewActivity == ASSUME IInv, NEW x \in Activities, NewActivity(x) PROVE IInv'
<1> USE DEF IInv, NewActivity
<1>1. TypeOK'
  OBVIOUS
<1>2. CallOK'
  BY <1>1 DEF CallOK
<1>3. KnownOK'
  BY <1>1, ForgottenStays DEF CallOK, KnownOK
<1>4. ClosedOK'
  BY <1>1, ForgottenStays DEF CallOK, KnownOK, ClosedOK
<1>5. ActivityOK'
  BY <1>1 DEF ActivityOK
<1> QED
  BY <1>1, <1>2, <1>3, <1>4, <1>5

LEMMA StepCreated == ASSUME IInv, NEW x \in Activities, Created(x) PROVE IInv'
<1> USE DEF IInv, Created
<1>1. TypeOK'
  OBVIOUS
<1>2. CallOK'
  BY <1>1 DEF CallOK
<1>3. KnownOK'
  BY <1>1, ForgottenStays DEF CallOK, KnownOK
<1>4. ClosedOK'
  BY <1>1, ForgottenStays DEF CallOK, KnownOK, ClosedOK
<1>5. ActivityOK'
  BY <1>1 DEF ActivityOK
<1> QED
  BY <1>1, <1>2, <1>3, <1>4, <1>5

LEMMA StepCreateFails == ASSUME IInv, NEW x \in Activities, CreateFails(x) PROVE IInv'
<1> USE DEF IInv, CreateFails
<1>1. TypeOK'
  OBVIOUS
<1>2. CallOK'
  BY <1>1 DEF CallOK
<1>3. KnownOK'
  BY <1>1, ForgottenStays DEF CallOK, KnownOK
<1>4. ClosedOK'
  BY <1>1, ForgottenStays DEF CallOK, KnownOK, ClosedOK
<1>5. ActivityOK'
  BY <1>1 DEF ActivityOK
<1> QED
  BY <1>1, <1>2, <1>3, <1>4, <1>5

LEMMA StepCreateReturns == ASSUME IInv, NEW x \in Activities, CreateReturns(x) PROVE IInv'
<1> USE DEF IInv, CreateReturns, HasAnswer
<1>1. TypeOK'
  OBVIOUS
<1>2. CallOK'
  BY <1>1 DEF CallOK
<1>3. KnownOK'
  BY <1>1, ForgottenStays DEF CallOK, KnownOK
<1>4. ClosedOK'
  BY <1>1, ForgottenStays DEF CallOK, KnownOK, ClosedOK
<1>5. ActivityOK'
  BY <1>1 DEF ActivityOK
<1> QED
  BY <1>1, <1>2, <1>3, <1>4, <1>5

LEMMA StepDestroyActivity == ASSUME IInv, NEW x \in Activities, DestroyActivity(x) PROVE IInv'
<1> USE DEF IInv, DestroyActivity
<1>1. TypeOK'
  OBVIOUS
<1>2. CallOK'
  BY <1>1 DEF CallOK
<1>3. KnownOK'
  BY <1>1, ForgottenStays DEF CallOK, KnownOK
<1>4. ClosedOK'
  BY <1>1, ForgottenStays DEF CallOK, KnownOK, ClosedOK
<1>5. ActivityOK'
  BY <1>1 DEF ActivityOK
<1> QED
  BY <1>1, <1>2, <1>3, <1>4, <1>5

-----------------------------------------------------------------------------
LEMMA NextIInv == IInv /\ [Next]_vars => IInv'
<1> SUFFICES ASSUME IInv, [Next]_vars PROVE IInv'
  OBVIOUS
<1>1. CASE UNCHANGED vars
  BY <1>1, ForgottenStays DEF vars, IInv, CallOK, KnownOK, ClosedOK, ActivityOK
<1>2. CASE Next
  BY <1>2, StepAlocate, StepDecide, StepGiveUp, StepAnswered, StepDeAllocate, StepDelete, StepExpire,
     StepTimePasses, StepNewActivity, StepCreated, StepCreateFails, StepCreateReturns, StepDestroyActivity
     DEF Next
<1> QED
  BY <1>1, <1>2

THEOREM Invariance == Spec => []IInv
  BY InitIInv, NextIInv, PTL DEF Spec

\* Every variable of Resources keeps its type.
THEOREM TypeCorrect == Spec => []TypeOK
<1>1. IInv => TypeOK
  BY DEF IInv
<1> QED
  BY <1>1, Invariance, PTL

\* An allocation that ties up money is known to its task, unless its answer was
\* given up or named no id, or the task asked for another.
THEOREM AllocationsAreKnown == Spec => []AllocationIsKnown
<1>1. IInv => AllocationIsKnown
  BY DEF IInv, KnownOK, AllocationIsKnown
<1> QED
  BY <1>1, Invariance, PTL

\* After a DeAllocate without an error, what still ties up money was given up,
\* named no id, or was forgotten.
THEOREM DeAllocateReleases == Spec => []NothingKnownIsLeft
<1>1. IInv => NothingKnownIsLeft
  BY DEF IInv, ClosedOK, NothingKnownIsLeft
<1> QED
  BY <1>1, Invariance, PTL

\* A NewActivity that returned an error has left an activity running.
THEOREM ErrorLeaves == Spec => []ErrorLeavesActivity
<1>1. IInv => ErrorLeavesActivity
  BY DEF IInv, ActivityOK, ErrorLeavesActivity
<1> QED
  BY <1>1, Invariance, PTL
=============================================================================

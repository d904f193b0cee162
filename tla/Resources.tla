------------------------------ MODULE Resources ------------------------------
(***************************************************************************)
(* What a program holds at the service: allocations, by the allocationTask *)
(* of pkg/rest/payment.go, and activities, by the ActivityService of       *)
(* pkg/rest/activity.go.  A request may be answered, refused, answered in  *)
(* vain, or carried out after its caller has given up.                     *)
(***************************************************************************)
EXTENDS Integers

CONSTANTS
    Tasks,       \* the tasks that NewAllocation made
    MaxRequests, \* the bound on the calls of Alocate
    Activities   \* the calls of NewActivity, each with the activity it asks for

ASSUME ResourceAssumption == MaxRequests \in Nat /\ Tasks \cap Activities = {}

VARIABLES
    linked,   \* are the links set that Alocate, Delete and Details go through?
    expires,  \* the tasks whose caller said when the allocation is to expire
    late,     \* have thirty minutes passed?
    requests, \* how many calls of Alocate there were; an allocation is known
              \* by the number of its call
    maker,    \* the task of each
    status,   \* what the service knows of each, see Statuses
    id,       \* id of each task; 0 is ""
    call,     \* the request whose answer Alocate waits for, or 0
    given,    \* the Allocations that the program was given
    lost,     \* the requests that Alocate gave up
    nameless, \* those whose answer had a blank id
    closed,   \* the tasks whose last call was a DeAllocate with no error
    activity, \* "none", "requested", "running" or "destroyed"
    held,     \* where the program is with each: "none", "calling", "failed",
              \* "held" or "destroyed"
    crashed   \* did a call panic?

allocationVars == <<expires, late, requests, maker, status, id, call, given, lost, nameless,
                    closed>>
activityVars == <<activity, held>>
vars == <<linked, allocationVars, activityVars, crashed>>

Requests == 1..MaxRequests
Statuses == {"none", "requested", "refused", "active", "released"}

Init ==
    /\ linked \in BOOLEAN
    /\ expires \in SUBSET Tasks
    /\ late = FALSE
    /\ requests = 0
    /\ maker \in [Requests -> Tasks]
    /\ status = [a \in Requests |-> "none"]
    /\ id = [t \in Tasks |-> 0]
    /\ call = [t \in Tasks |-> 0]
    /\ given = {} /\ lost = {} /\ nameless = {} /\ closed = {}
    /\ activity = [x \in Activities |-> "none"]
    /\ held = [x \in Activities |-> "none"]
    /\ crashed = FALSE

-----------------------------------------------------------------------------
(* allocationTask. *)

\* Alocate sends its request through a.allocation, which NewAllocation leaves nil.
Alocate(t) ==
    /\ call[t] = 0
    /\ requests < MaxRequests /\ maker[requests + 1] = t
    /\ IF linked
       THEN /\ requests' = requests + 1
            /\ status' = [status EXCEPT ![requests + 1] = "requested"]
            /\ call' = [call EXCEPT ![t] = requests + 1]
            /\ closed' = closed \ {t}
            /\ UNCHANGED crashed
       ELSE crashed' = TRUE /\ UNCHANGED <<requests, status, call, closed>>
    /\ UNCHANGED <<linked, expires, late, maker, id, given, lost, nameless, activityVars>>

\* The service makes the allocation or refuses to.
Decide(a) ==
    /\ status[a] = "requested"
    /\ \E verdict \in {"active", "refused"} : status' = [status EXCEPT ![a] = verdict]
    /\ UNCHANGED <<linked, expires, late, requests, maker, id, call, given, lost, nameless,
                   closed, activityVars, crashed>>

\* The request fails for its caller, whatever the service makes of it.
GiveUp(t) ==
    /\ call[t] # 0
    /\ lost' = lost \cup {call[t]}
    /\ call' = [call EXCEPT ![t] = 0]
    /\ UNCHANGED <<linked, expires, late, requests, maker, status, id, given, nameless,
                   closed, activityVars, crashed>>

\* a.id is set before the answer is looked at.  The mutant sets it after that.
IdAtEnd(a, good, t) == IF good THEN a ELSE id[t]
IdAtOnce(a, good, t) == a

\* The answer's id is blank, which is an error: the id of a former allocation is
\* gone as well.
NamelessAnswer(t) ==
    /\ id' = [id EXCEPT ![t] = 0]
    /\ nameless' = nameless \cup {call[t]}
    /\ UNCHANGED <<given, crashed>>

\* It names an amount that may be no number, which is an error; and a platform,
\* an address and a timeout that may be missing, which panics.
NamedAnswer(t) ==
    /\ \E good \in BOOLEAN :
          /\ id' = [id EXCEPT ![t] = IdAtOnce(call[t], good, t)]
          /\ \/ good /\ given' = given \cup {call[t]} /\ UNCHANGED crashed
             \/ ~good /\ UNCHANGED <<given, crashed>>
             \/ ~good /\ crashed' = TRUE /\ UNCHANGED given
    /\ UNCHANGED nameless

Answered(t) ==
    /\ call[t] # 0
    /\ status[call[t]] \in {"active", "released"}
    /\ NamelessAnswer(t) \/ NamedAnswer(t)
    /\ call' = [call EXCEPT ![t] = 0]
    /\ UNCHANGED <<linked, expires, late, requests, maker, status, lost, closed, activityVars>>

\* ReleaseAllocation of a, whose outcome is what its caller is told.  The
\* service says no if it does not have it any more.
Release(a, ok) ==
    /\ ok => status[a] = "active"
    /\ \/ status[a] = "active" /\ status' = [status EXCEPT ![a] = "released"]
       \/ ~ok /\ UNCHANGED status

\* The error of ReleaseAllocation.  The mutant drops it.
Dropped(ok) == TRUE
Reported(ok) == ok

\* DeAllocate has nothing to do without an id.
DeAllocate(t) ==
    /\ call[t] = 0
    /\ \/ id[t] = 0 /\ closed' = closed \cup {t} /\ UNCHANGED status
       \/ /\ id[t] # 0
          /\ \E ok \in BOOLEAN :
                /\ Release(id[t], ok)
                /\ closed' = IF Reported(ok) THEN closed \cup {t} ELSE closed \ {t}
    /\ UNCHANGED <<linked, expires, late, requests, maker, id, call, given, lost, nameless,
                   activityVars, crashed>>

\* The Allocations that Alocate returns have no link: it panics.
Delete(a) ==
    /\ a \in given
    /\ IF linked
       THEN (\E ok \in BOOLEAN : Release(a, ok)) /\ UNCHANGED crashed
       ELSE crashed' = TRUE /\ UNCHANGED status
    /\ UNCHANGED <<linked, expires, late, requests, maker, id, call, given, lost, nameless,
                   closed, activityVars>>

\* An allocation ends thirty minutes after NewAllocation; or at once if the caller
\* said when, as the time it asked for is not passed on, and none is over already.
Expire(a) ==
    /\ status[a] = "active"
    /\ late \/ maker[a] \in expires
    /\ status' = [status EXCEPT ![a] = "released"]
    /\ UNCHANGED <<linked, expires, late, requests, maker, id, call, given, lost, nameless,
                   closed, activityVars, crashed>>

TimePasses ==
    /\ ~late
    /\ late' = TRUE
    /\ UNCHANGED <<linked, expires, requests, maker, status, id, call, given, lost, nameless,
                   closed, activityVars, crashed>>

-----------------------------------------------------------------------------
(* ActivityService. *)

\* CreateActivity is sent.
NewActivity(x) ==
    /\ held[x] = "none"
    /\ held' = [held EXCEPT ![x] = "calling"]
    /\ activity' = [activity EXCEPT ![x] = "requested"]
    /\ UNCHANGED <<linked, allocationVars, crashed>>

\* The provider starts the activity.
Created(x) ==
    /\ activity[x] = "requested"
    /\ activity' = [activity EXCEPT ![x] = "running"]
    /\ UNCHANGED <<linked, allocationVars, held, crashed>>

\* The error is logged, and the missing id converted to a string all the same.
CreateFails(x) ==
    /\ held[x] = "calling"
    /\ crashed' = TRUE
    /\ UNCHANGED <<linked, allocationVars, activityVars>>

\* When an answer is there.
HasAnswer(x) == activity[x] # "requested"

\* The id is not a quoted string: only this is returned as an error.
CreateReturns(x) ==
    /\ held[x] = "calling"
    /\ HasAnswer(x)
    /\ \E outcome \in {"held", "failed"} : held' = [held EXCEPT ![x] = outcome]
    /\ UNCHANGED <<linked, allocationVars, activity, crashed>>

\* It says that the activity is destroyed, be it so or not.
DestroyActivity(x) ==
    /\ held[x] = "held"
    /\ held' = [held EXCEPT ![x] = "destroyed"]
    /\ activity' \in {activity, [activity EXCEPT ![x] = "destroyed"]}
    /\ UNCHANGED <<linked, allocationVars, crashed>>

-----------------------------------------------------------------------------
Next ==
    /\ ~crashed
    /\ \/ \E t \in Tasks : Alocate(t) \/ GiveUp(t) \/ Answered(t) \/ DeAllocate(t)
       \/ \E a \in Requests : Decide(a) \/ Delete(a) \/ Expire(a)
       \/ TimePasses
       \/ \E x \in Activities :
             \/ NewActivity(x) \/ Created(x) \/ CreateFails(x)
             \/ CreateReturns(x) \/ DestroyActivity(x)

Spec == Init /\ [][Next]_vars

-----------------------------------------------------------------------------
(* Properties. *)

TypeOK ==
    /\ linked \in BOOLEAN /\ late \in BOOLEAN /\ crashed \in BOOLEAN
    /\ expires \subseteq Tasks /\ closed \subseteq Tasks
    /\ requests \in 0..MaxRequests
    /\ maker \in [Requests -> Tasks]
    /\ status \in [Requests -> Statuses]
    /\ id \in [Tasks -> 0..MaxRequests] /\ call \in [Tasks -> 0..MaxRequests]
    /\ given \subseteq Requests /\ lost \subseteq Requests /\ nameless \subseteq Requests
    /\ activity \in [Activities -> {"none", "requested", "running", "destroyed"}]
    /\ held \in [Activities -> {"none", "calling", "failed", "held", "destroyed"}]

\* A later call of the task was answered: its id is that of the later allocation,
\* or was, or is blank.
Forgotten(a) ==
    \E b \in Requests :
       /\ b > a /\ maker[b] = maker[a]
       /\ b = id[maker[a]] \/ b \in nameless

\* Every allocation that still ties up money is the one that its task can release,
\* or is about to be, even if Alocate returned an error; except for one whose
\* answer Alocate gave up or had no id, and one that a later Alocate of the task
\* forgot, be it with an error.
AllocationIsKnown ==
    \A a \in Requests :
       status[a] = "active" =>
          \/ id[maker[a]] = a \/ call[maker[a]] = a
          \/ a \in lost \cup nameless
          \/ Forgotten(a)

\* After a DeAllocate that returned no error, what is left of the task's
\* allocations are those that Alocate gave up, was told no id of, or forgot.
NothingKnownIsLeft ==
    \A a \in Requests :
       maker[a] \in closed /\ status[a] = "active" => a \in lost \cup nameless \/ Forgotten(a)

\* A NewActivity that returned an error left an activity running that nobody can
\* destroy: of those that did not make one, none returns.
ErrorLeavesActivity ==
    \A x \in Activities : held[x] = "failed" => activity[x] = "running"
=============================================================================

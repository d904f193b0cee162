------------------------- MODULE GftpProcessProofs -------------------------
(***************************************************************************)
(* The safety properties of GftpProcess, for any calls of Start, Stop and  *)
(* SendMessage.                                                            *)
(***************************************************************************)
EXTENDS GftpProcess, TLAPS

\* A command comes from the call of Start that made it, and p.p is one of them.
CommandOK ==
    /\ \A s \in Starters : start[s] = "idle" <=> proc[s] = "none"
    /\ cmd = None <=> \A s \in Starters : proc[s] = "none"
    /\ cmd # None => proc[cmd] # "none"

\* A Stop that got past its interrupt has interrupted a process.
SignalledOK ==
    \A t \in Stoppers :
       stop[t] \in {"waiting", "nil", "error"} => signalled[t] \in Launched

WaitOK ==
    \A s \in Starters : start[s] \in {"idle", "starting", "started"} => waitsOn[s] = None

\* A SendMessage that got past StdoutPipe has a pipe to read from.
ReadOK ==
    \A m \in Senders : send[m] \in {"stdin", "writing", "reading"} => reads[m] \in Starters

Alone(c) == \A s \in Starters \ {c} : proc[s] = "none"

\* As long as there is one command, its call of Start works on that one.
AloneOK ==
    \A c \in Starters :
       Alone(c) =>
          /\ start[c] = "starting" => proc[c] = "new"
          /\ start[c] = "started" => c \in Launched
          /\ start[c] = "waiting" => waitsOn[c] = c
          /\ start[c] = "done" => proc[c] = "exited"

\* Without an executable there is no process, and nobody gets past it.
IdleOK == ~found => Launched = {} /\ NothingWithoutCommand

IInv == TypeOK /\ CommandOK /\ SignalledOK /\ WaitOK /\ ReadOK /\ AloneOK /\ NilMeansGone /\ IdleOK

USE ProcessAssumption
USE DEF TypeOK, Launched, Procs, command

-----------------------------------------------------------------------------
LEMMA InitIInv == Init => IInv
<1> SUFFICES ASSUME Init PROVE IInv
  OBVIOUS
<1> USE DEF Init
<1>1. TypeOK
  OBVIOUS
<1>2. CommandOK /\ SignalledOK /\ WaitOK /\ ReadOK
  BY DEF CommandOK, SignalledOK, WaitOK, ReadOK
<1>3. AloneOK /\ NilMeansGone
  BY DEF AloneOK, NilMeansGone
<1>4. IdleOK
  BY DEF IdleOK, NothingWithoutCommand
<1> QED
  BY <1>1, <1>2, <1>3, <1>4 DEF IInv

LEMMA StepCommand == ASSUME IInv, NEW s \in Starters, Command(s) PROVE IInv'
<1> USE DEF IInv, Command
<1>1. TypeOK'
  OBVIOUS
<1>2. CommandOK' /\ WaitOK' /\ ReadOK'
  BY <1>1 DEF CommandOK, WaitOK, ReadOK
<1>3. SignalledOK'
  BY <1>1 DEF CommandOK, SignalledOK
<1>4. AloneOK'
  BY <1>1 DEF CommandOK, WaitOK, AloneOK, Alone
<1>5. NilMeansGone'
  BY <1>1 DEF CommandOK, SignalledOK, AloneOK, Alone, NilMeansGone
<1>6. IdleOK'
  BY <1>1 DEF CommandOK, IdleOK, NothingWithoutCommand
<1> QED
  BY <1>1, <1>2, <1>3, <1>4, <1>5, <1>6

LEMMA StepLaunch == ASSUME IInv, NEW s \in Starters, Launch(s) PROVE IInv'
<1> USE DEF IInv, Launch, LookedUp
<1>1. TypeOK'
  OBVIOUS
<1>2. CommandOK' /\ WaitOK' /\ ReadOK'
  BY <1>1 DEF CommandOK, WaitOK, ReadOK
<1>3. SignalledOK'
  BY <1>1 DEF CommandOK, SignalledOK
<1>4. AloneOK'
  BY <1>1 DEF CommandOK, WaitOK, AloneOK, Alone
<1>5. NilMeansGone'
  BY <1>1 DEF CommandOK, SignalledOK, AloneOK, Alone, NilMeansGone
<1>6. IdleOK'
  BY <1>1 DEF CommandOK, IdleOK, NothingWithoutCommand
<1> QED
  BY <1>1, <1>2, <1>3, <1>4, <1>5, <1>6

LEMMA StepLaunchFails == ASSUME IInv, NEW s \in Starters, LaunchFails(s) PROVE IInv'
<1> USE DEF IInv, LaunchFails
<1>1. TypeOK'
  OBVIOUS
<1>2. CommandOK' /\ WaitOK' /\ ReadOK'
  BY <1>1 DEF CommandOK, WaitOK, ReadOK
<1>3. SignalledOK'
  BY <1>1 DEF CommandOK, SignalledOK
<1>4. AloneOK'
  BY <1>1 DEF CommandOK, WaitOK, AloneOK, Alone
<1>5. NilMeansGone'
  BY <1>1 DEF CommandOK, SignalledOK, AloneOK, Alone, NilMeansGone
<1>6. IdleOK'
  BY <1>1 DEF CommandOK, IdleOK, NothingWithoutCommand
<1> QED
  BY <1>1, <1>2, <1>3, <1>4, <1>5, <1>6

LEMMA StepWait == ASSUME IInv, NEW s \in Starters, Wait(s) PROVE IInv'
<1> USE DEF IInv, Wait
<1>1. TypeOK'
  OBVIOUS
<1>2. CommandOK' /\ WaitOK' /\ ReadOK'
  BY <1>1 DEF CommandOK, WaitOK, ReadOK
<1>3. SignalledOK'
  BY <1>1 DEF CommandOK, SignalledOK
<1>4. AloneOK'
  BY <1>1 DEF CommandOK, WaitOK, AloneOK, Alone
<1>5. NilMeansGone'
  BY <1>1 DEF CommandOK, SignalledOK, AloneOK, Alone, NilMeansGone
<1>6. IdleOK'
  BY <1>1 DEF CommandOK, IdleOK, NothingWithoutCommand
<1> QED
  BY <1>1, <1>2, <1>3, <1>4, <1>5, <1>6

LEMMA StepExit == ASSUME IInv, NEW s \in Starters, Exit(s) PROVE IInv'
<1> USE DEF IInv, Exit
<1>1. TypeOK'
  OBVIOUS
<1>2. CommandOK' /\ WaitOK' /\ ReadOK'
  BY <1>1 DEF CommandOK, WaitOK, ReadOK
<1>3. SignalledOK'
  BY <1>1 DEF CommandOK, SignalledOK
<1>4. AloneOK'
  BY <1>1 DEF CommandOK, WaitOK, AloneOK, Alone
<1>5. NilMeansGone'
  BY <1>1 DEF CommandOK, SignalledOK, AloneOK, Alone, NilMeansGone
<1>6. IdleOK'
  BY <1>1 DEF CommandOK, IdleOK, NothingWithoutCommand
<1> QED
  BY <1>1, <1>2, <1>3, <1>4, <1>5, <1>6

LEMMA StepReap == ASSUME IInv, NEW s \in Starters, Reap(s) PROVE IInv'
<1> USE DEF IInv, Reap
<1>1. TypeOK'
  OBVIOUS
<1>2. CommandOK' /\ WaitOK' /\ ReadOK'
  BY <1>1 DEF CommandOK, WaitOK, ReadOK
<1>3. SignalledOK'
  BY <1>1 DEF CommandOK, SignalledOK
<1>4. AloneOK'
  BY <1>1 DEF CommandOK, WaitOK, AloneOK, Alone
<1>5. NilMeansGone'
  BY <1>1 DEF CommandOK, SignalledOK, AloneOK, Alone, NilMeansGone
<1>6. IdleOK'
  BY <1>1 DEF CommandOK, IdleOK, NothingWithoutCommand
<1> QED
  BY <1>1, <1>2, <1>3, <1>4, <1>5, <1>6

LEMMA StepCallStop == ASSUME IInv, NEW t \in Stoppers, CallStop(t) PROVE IInv'
<1> USE DEF IInv, CallStop
<1>1. TypeOK'
  OBVIOUS
<1>2. CommandOK' /\ WaitOK' /\ ReadOK'
  BY <1>1 DEF CommandOK, WaitOK, ReadOK
<1>3. SignalledOK'
  BY <1>1 DEF CommandOK, SignalledOK
<1>4. AloneOK'
  BY <1>1 DEF CommandOK, WaitOK, AloneOK, Alone
<1>5. NilMeansGone'
  BY <1>1 DEF CommandOK, SignalledOK, AloneOK, Alone, NilMeansGone
<1>6. IdleOK'
  BY <1>1 DEF CommandOK, IdleOK, NothingWithoutCommand
<1> QED
  BY <1>1, <1>2, <1>3, <1>4, <1>5, <1>6

LEMMA StepInterrupt == ASSUME IInv, NEW t \in Stoppers, Interrupt(t) PROVE IInv'
<1> USE DEF IInv, Interrupt
<1>1. TypeOK'
  <2>1. stop' \in [Stoppers -> {"idle", "locking", "waiting", "nil", "error"}]
    OBVIOUS
  <2>2. signalled' \in [Stoppers -> Starters \cup {None}]
    OBVIOUS
  <2>3. lock' \in Stoppers \cup Senders \cup {None} /\ crashed' \in BOOLEAN
    OBVIOUS
  <2> QED
    BY <2>1, <2>2, <2>3
<1>2. CommandOK' /\ WaitOK' /\ ReadOK'
  BY <1>1 DEF CommandOK, WaitOK, ReadOK
<1>3. SignalledOK'
  BY <1>1 DEF CommandOK, SignalledOK
<1>4. AloneOK'
  BY <1>1 DEF CommandOK, WaitOK, AloneOK, Alone
<1>5. NilMeansGone'
  BY <1>1 DEF CommandOK, SignalledOK, AloneOK, Alone, NilMeansGone
<1>6. IdleOK'
  BY <1>1 DEF CommandOK, IdleOK, NothingWithoutCommand
<1> QED
  BY <1>1, <1>2, <1>3, <1>4, <1>5, <1>6

LEMMA StepEnded == ASSUME IInv, NEW t \in Stoppers, Ended(t) PROVE IInv'
<1> USE DEF IInv, Ended, Unlocked
<1>1. TypeOK'
  OBVIOUS
<1>2. CommandOK' /\ WaitOK' /\ ReadOK'
  BY <1>1 DEF CommandOK, WaitOK, ReadOK
<1>3. SignalledOK'
  BY <1>1 DEF CommandOK, SignalledOK
<1>4. AloneOK'
  BY <1>1 DEF CommandOK, WaitOK, AloneOK, Alone
<1>5. NilMeansGone'
  BY <1>1 DEF CommandOK, SignalledOK, AloneOK, Alone, NilMeansGone
<1>6. IdleOK'
  BY <1>1 DEF CommandOK, IdleOK, NothingWithoutCommand
<1> QED
  BY <1>1, <1>2, <1>3, <1>4, <1>5, <1>6

LEMMA StepTimeout == ASSUME IInv, NEW t \in Stoppers, Timeout(t) PROVE IInv'
<1> USE DEF IInv, Timeout, Unlocked, Killed
<1>1. TypeOK'
  <2>1. CASE cmd \in Launched
    <3>1. proc' \in [Starters -> Procs] /\ stop' \in [Stoppers -> {"idle", "locking", "waiting", "nil", "error"}]
      BY <2>1
    <3> QED
      BY <2>1, <3>1
  <2>2. CASE cmd \notin Launched
    BY <2>2
  <2> QED
    BY <2>1, <2>2
<1>2. CommandOK' /\ WaitOK' /\ ReadOK'
  BY <1>1 DEF CommandOK, WaitOK, ReadOK
<1>3. SignalledOK'
  BY <1>1 DEF CommandOK, SignalledOK
<1>4. AloneOK'
  BY <1>1 DEF CommandOK, WaitOK, AloneOK, Alone
<1>5. NilMeansGone'
  BY <1>1 DEF CommandOK, SignalledOK, AloneOK, Alone, NilMeansGone
<1>6. IdleOK'
  BY <1>1 DEF CommandOK, IdleOK, NothingWithoutCommand
<1> QED
  BY <1>1, <1>2, <1>3, <1>4, <1>5, <1>6

LEMMA StepPipeOut == ASSUME IInv, NEW m \in Senders, PipeOut(m) PROVE IInv'
<1> USE DEF IInv, PipeOut
<1>1. TypeOK'
  <2>1. stdout' \in [Starters -> {"none", "open", "closed"}]
    OBVIOUS
  <2>2. send' \in [Senders -> {"idle", "stdin", "writing", "reading", "answered", "error"}]
    OBVIOUS
  <2>3. reads' \in [Senders -> Starters \cup {None}]
    OBVIOUS
  <2>4. lock' \in Stoppers \cup Senders \cup {None} /\ crashed' \in BOOLEAN
    OBVIOUS
  <2> QED
    BY <2>1, <2>2, <2>3, <2>4
<1>2. CommandOK' /\ WaitOK' /\ ReadOK'
  BY <1>1 DEF CommandOK, WaitOK, ReadOK
<1>3. SignalledOK'
  BY <1>1 DEF CommandOK, SignalledOK
<1>4. AloneOK'
  BY <1>1 DEF CommandOK, WaitOK, AloneOK, Alone
<1>5. NilMeansGone'
  BY <1>1 DEF CommandOK, SignalledOK, AloneOK, Alone, NilMeansGone
<1>6. IdleOK'
  BY <1>1 DEF CommandOK, IdleOK, NothingWithoutCommand
<1> QED
  BY <1>1, <1>2, <1>3, <1>4, <1>5, <1>6

LEMMA StepPipeIn == ASSUME IInv, NEW m \in Senders, PipeIn(m) PROVE IInv'
<1> USE DEF IInv, PipeIn, Unlocked
<1>1. TypeOK'
  <2>1. stdin' \in [Starters -> Senders \cup {None}]
    OBVIOUS
  <2>2. send' \in [Senders -> {"idle", "stdin", "writing", "reading", "answered", "error"}]
    OBVIOUS
  <2>3. lock' \in Stoppers \cup Senders \cup {None}
    OBVIOUS
  <2> QED
    BY <2>1, <2>2, <2>3
<1>2. CommandOK' /\ WaitOK' /\ ReadOK'
  BY <1>1 DEF CommandOK, WaitOK, ReadOK
<1>3. SignalledOK'
  BY <1>1 DEF CommandOK, SignalledOK
<1>4. AloneOK'
  BY <1>1 DEF CommandOK, WaitOK, AloneOK, Alone
<1>5. NilMeansGone'
  BY <1>1 DEF CommandOK, SignalledOK, AloneOK, Alone, NilMeansGone
<1>6. IdleOK'
  BY <1>1 DEF CommandOK, IdleOK, NothingWithoutCommand
<1> QED
  BY <1>1, <1>2, <1>3, <1>4, <1>5, <1>6

LEMMA StepWrite == ASSUME IInv, NEW m \in Senders, Write(m) PROVE IInv'
<1> USE DEF IInv, Write, Unlocked
<1>1. TypeOK'
  <2>1. send' \in [Senders -> {"idle", "stdin", "writing", "reading", "answered", "error"}]
    OBVIOUS
  <2>2. lock' \in Stoppers \cup Senders \cup {None}
    OBVIOUS
  <2> QED
    BY <2>1, <2>2
<1>2. CommandOK' /\ WaitOK' /\ ReadOK'
  BY <1>1 DEF CommandOK, WaitOK, ReadOK
<1>3. SignalledOK'
  BY <1>1 DEF CommandOK, SignalledOK
<1>4. AloneOK'
  BY <1>1 DEF CommandOK, WaitOK, AloneOK, Alone
<1>5. NilMeansGone'
  BY <1>1 DEF CommandOK, SignalledOK, AloneOK, Alone, NilMeansGone
<1>6. IdleOK'
  BY <1>1 DEF CommandOK, IdleOK, NothingWithoutCommand
<1> QED
  BY <1>1, <1>2, <1>3, <1>4, <1>5, <1>6

LEMMA StepRead == ASSUME IInv, NEW m \in Senders, Read(m) PROVE IInv'
<1> USE DEF IInv, Read, Unlocked
<1>1. TypeOK'
  <2>1. send' \in [Senders -> {"idle", "stdin", "writing", "reading", "answered", "error"}]
    OBVIOUS
  <2>2. lock' \in Stoppers \cup Senders \cup {None} /\ crashed' \in BOOLEAN
    OBVIOUS
  <2> QED
    BY <2>1, <2>2
<1>2. CommandOK' /\ WaitOK' /\ ReadOK'
  BY <1>1 DEF CommandOK, WaitOK, ReadOK
<1>3. SignalledOK'
  BY <1>1 DEF CommandOK, SignalledOK
<1>4. AloneOK'
  BY <1>1 DEF CommandOK, WaitOK, AloneOK, Alone
<1>5. NilMeansGone'
  BY <1>1 DEF CommandOK, SignalledOK, AloneOK, Alone, NilMeansGone
<1>6. IdleOK'
  <2>1. found' = found /\ Launched' = Launched /\ stop' = stop
    OBVIOUS
  <2>2. ASSUME ~found PROVE NothingWithoutCommand'
    <3>1. proc[reads[m]] # "exited"
      BY <2>2 DEF IdleOK, ReadOK
    <3>2. send' = send
      BY <3>1
    <3> QED
      BY <2>1, <2>2, <3>2 DEF IdleOK, NothingWithoutCommand
  <2> QED
    BY <2>1, <2>2 DEF IdleOK
<1> QED
  BY <1>1, <1>2, <1>3, <1>4, <1>5, <1>6

-----------------------------------------------------------------------------
LEMMA NextIInv == IInv /\ [Next]_vars => IInv'
<1> SUFFICES ASSUME IInv, [Next]_vars PROVE IInv'
  OBVIOUS
<1>1. CASE UNCHANGED vars
  BY <1>1 DEF vars, IInv, CommandOK, SignalledOK, WaitOK, ReadOK, AloneOK, Alone, NilMeansGone,
              IdleOK, NothingWithoutCommand
<1>2. CASE Next
  BY <1>2, StepCommand, StepLaunch, StepLaunchFails, StepWait, StepExit, StepReap, StepCallStop, StepInterrupt, StepEnded, StepTimeout, StepPipeOut, StepPipeIn, StepWrite, StepRead
     DEF Next, StartStep, StopStep, SendStep
<1> QED
  BY <1>1, <1>2

THEOREM Invariance == Spec => []IInv
  BY InitIInv, NextIInv, PTL DEF Spec

\* Every variable of process keeps its type.
THEOREM TypeCorrect == Spec => []TypeOK
<1>1. IInv => TypeOK
  BY DEF IInv
<1> QED
  BY <1>1, Invariance, PTL

\* A Stop that returns nil has ended the one process there is, or is about to.
THEOREM StopEndsProcess == Spec => []NilMeansGone
<1>1. IInv => NilMeansGone
  BY DEF IInv
<1> QED
  BY <1>1, Invariance, PTL

\* Without an executable of that name no Stop returns and no message is answered.
THEOREM NoCommandNoService == Spec => []NothingWithoutCommand
<1>1. IInv => NothingWithoutCommand
  BY DEF IInv, IdleOK, NothingWithoutCommand
<1> QED
  BY <1>1, Invariance, PTL
=============================================================================

----------------------------- MODULE GftpProcess -----------------------------
(***************************************************************************)
(* process, pkg/storage/gftp.go: the goroutines that call Start, Stop and  *)
(* SendMessage, each once, over one process value, and the commands that   *)
(* the calls of Start make.  Start takes no lock and reads p.p anew at     *)
(* every use; Stop and SendMessage hold the lock for as long as they run.  *)
(* The name of a command is that of the call of Start that made it.        *)
(***************************************************************************)
EXTENDS Naturals, FiniteSets

CONSTANTS Starters, Stoppers, Senders, None

ASSUME ProcessAssumption ==
    /\ None \notin Starters \cup Stoppers \cup Senders
    /\ Stoppers \cap Senders = {}

VARIABLES
    found,    \* is there an executable called "gftp server"?
    cmd,      \* p.p
    proc,     \* the commands, see Procs
    stdout,   \* the state of the pipe of each
    stdin,    \* the call of SendMessage that writes to each
    start,    \* where the calls of Start are
    waitsOn,  \* the command whose Wait each has called
    stop,     \* where the calls of Stop are, and what they returned
    signalled,\* the command that each has interrupted
    send,     \* where the calls of SendMessage are
    reads,    \* the command that each reads from
    lock,     \* who holds it
    crashed   \* did a call panic?

vars == <<found, cmd, proc, stdout, stdin, start, waitsOn, stop, signalled, send, reads, lock, crashed>>
command == <<proc, stdout, stdin>>

\* Process is nil in the first three.
Procs == {"none", "new", "failed", "running", "dying", "exited"}
Launched == {c \in Starters : proc[c] \in {"running", "dying", "exited"}}

Init ==
    /\ found \in BOOLEAN
    /\ cmd = None
    /\ proc = [c \in Starters |-> "none"]
    /\ stdout = [c \in Starters |-> "none"]
    /\ stdin = [c \in Starters |-> None]
    /\ start = [s \in Starters |-> "idle"]
    /\ waitsOn = [s \in Starters |-> None]
    /\ stop = [t \in Stoppers |-> "idle"]
    /\ signalled = [t \in Stoppers |-> None]
    /\ send = [m \in Senders |-> "idle"]
    /\ reads = [m \in Senders |-> None]
    /\ lock = None
    /\ crashed = FALSE

-----------------------------------------------------------------------------
(* Start. *)

\* exec.Command looks "gftp server" up, and p.p takes the result either way.
Command(s) ==
    /\ start[s] = "idle"
    /\ cmd' = s
    /\ proc' = [proc EXCEPT ![s] = "new"]
    /\ start' = [start EXCEPT ![s] = "starting"]
    /\ UNCHANGED <<found, stdout, stdin, waitsOn, stop, signalled, send, reads, lock, crashed>>

\* A name with a space in it is looked up as it is.  The mutant splits it.
Splits == TRUE
LookedUp == found

\* p.p.Start.
Launch(s) ==
    /\ start[s] = "starting"
    /\ LookedUp /\ cmd \notin Launched
    /\ proc' = [proc EXCEPT ![cmd] = "running"]
    /\ start' = [start EXCEPT ![s] = "started"]
    /\ UNCHANGED <<found, cmd, stdout, stdin, waitsOn, stop, signalled, send, reads, lock, crashed>>

\* No such command, the system refuses it (both close its pipes), or another
\* call of Start has started it.
LaunchFails(s) ==
    /\ start[s] = "starting"
    /\ IF cmd \in Launched
       THEN UNCHANGED <<proc, stdout>>
       ELSE /\ proc' = [proc EXCEPT ![cmd] = "failed"]
            /\ stdout' = [stdout EXCEPT ![cmd] = IF @ = "none" THEN @ ELSE "closed"]
    /\ start' = [start EXCEPT ![s] = "returned"]
    /\ UNCHANGED <<found, cmd, stdin, waitsOn, stop, signalled, send, reads, lock, crashed>>

\* p.p.Wait, which fails at once for a command that is not running yet or that
\* someone waits for; then comes done.
Wait(s) ==
    /\ start[s] = "started"
    /\ IF cmd \in Launched /\ \A r \in Starters : waitsOn[r] # cmd
       THEN /\ start' = [start EXCEPT ![s] = "waiting"]
            /\ waitsOn' = [waitsOn EXCEPT ![s] = cmd]
       ELSE /\ start' = [start EXCEPT ![s] = "done"]
            /\ UNCHANGED waitsOn
    /\ UNCHANGED <<found, cmd, command, stop, signalled, send, reads, lock, crashed>>

\* The process ends, by itself, by the interrupt or because it is killed.
Exit(c) ==
    /\ proc[c] \in {"running", "dying"}
    /\ proc' = [proc EXCEPT ![c] = "exited"]
    /\ UNCHANGED <<found, cmd, stdout, stdin, start, waitsOn, stop, signalled, send, reads, lock, crashed>>

\* Wait returns, and Start offers true on the unbuffered done.
Reap(s) ==
    /\ start[s] = "waiting"
    /\ proc[waitsOn[s]] = "exited"
    /\ start' = [start EXCEPT ![s] = "done"]
    /\ UNCHANGED <<found, cmd, command, waitsOn, stop, signalled, send, reads, lock, crashed>>

-----------------------------------------------------------------------------
(* Stop. *)

CallStop(t) ==
    /\ stop[t] = "idle"
    /\ stop' = [stop EXCEPT ![t] = "locking"]
    /\ UNCHANGED <<found, cmd, command, start, waitsOn, signalled, send, reads, lock, crashed>>

\* Signal: a nil p.p and a nil Process panic.
Interrupt(t) ==
    /\ stop[t] = "locking"
    /\ lock = None
    /\ lock' = t
    /\ IF cmd \in Launched
       THEN /\ stop' = [stop EXCEPT ![t] = "waiting"]
            /\ signalled' = [signalled EXCEPT ![t] = cmd]
            /\ UNCHANGED crashed
       ELSE /\ crashed' = TRUE
            /\ UNCHANGED <<stop, signalled>>
    /\ UNCHANGED <<found, cmd, command, start, waitsOn, send, reads>>

\* The deferred Unlock.  The mutant is a return without it.
StillHeld == lock
Unlocked == None

\* case <-p.done: any Start that is there may be the one that it hears.
Ended(t) ==
    /\ stop[t] = "waiting"
    /\ \E s \in Starters :
          /\ start[s] = "done"
          /\ start' = [start EXCEPT ![s] = "returned"]
    /\ stop' = [stop EXCEPT ![t] = "nil"]
    /\ lock' = Unlocked
    /\ UNCHANGED <<found, cmd, command, waitsOn, signalled, send, reads, crashed>>

\* What Kill makes of a process.  The mutant leaves it alone.
Spared(state) == state
Killed(state) == IF state = "running" THEN "dying" ELSE state

\* After ten seconds whatever p.p is now is killed.  Kill fails if Wait has
\* returned; if not, the wrapped nil is nil.
Timeout(t) ==
    /\ stop[t] = "waiting"
    /\ IF cmd \in Launched
       THEN /\ proc' = [proc EXCEPT ![cmd] = Killed(@)]
            /\ stop' = [stop EXCEPT ![t] =
                  IF \E s \in Starters : waitsOn[s] = cmd /\ start[s] \in {"done", "returned"}
                  THEN "error" ELSE "nil"]
            /\ lock' = Unlocked
            /\ UNCHANGED crashed
       ELSE crashed' = TRUE /\ UNCHANGED <<proc, stop, lock>>
    /\ UNCHANGED <<found, cmd, stdout, stdin, start, waitsOn, signalled, send, reads>>

-----------------------------------------------------------------------------
(* SendMessage. *)

\* StdoutPipe: a nil p.p panics; a command that is started or has one fails.
PipeOut(m) ==
    /\ send[m] = "idle"
    /\ lock = None
    /\ IF cmd = None
       THEN crashed' = TRUE /\ UNCHANGED <<stdout, send, reads, lock>>
       ELSE /\ IF cmd \in Launched \/ stdout[cmd] # "none"
               THEN /\ send' = [send EXCEPT ![m] = "error"]
                    /\ UNCHANGED <<stdout, reads, lock>>
               ELSE /\ send' = [send EXCEPT ![m] = "stdin"]
                    /\ stdout' = [stdout EXCEPT ![cmd] = "open"]
                    /\ reads' = [reads EXCEPT ![m] = cmd]
                    /\ lock' = m
            /\ UNCHANGED crashed
    /\ UNCHANGED <<found, cmd, proc, stdin, start, waitsOn, stop, signalled>>

\* StdinPipe, on p.p as it is now.
PipeIn(m) ==
    /\ send[m] = "stdin"
    /\ IF cmd \in Launched \/ stdin[cmd] # None
       THEN /\ send' = [send EXCEPT ![m] = "error"]
            /\ lock' = Unlocked
            /\ UNCHANGED stdin
       ELSE /\ send' = [send EXCEPT ![m] = "writing"]
            /\ stdin' = [stdin EXCEPT ![cmd] = m]
            /\ UNCHANGED lock
    /\ UNCHANGED <<found, cmd, proc, stdout, start, waitsOn, stop, signalled, reads, crashed>>

\* A message is taken to fit in the pipe, so that the write does not block; it fails
\* if the pipe is closed or nobody reads it any more.
Write(m) ==
    /\ send[m] = "writing"
    /\ \/ send' = [send EXCEPT ![m] = "reading"] /\ UNCHANGED lock
       \/ /\ \E c \in Starters : stdin[c] = m /\ proc[c] \in {"failed", "exited"}
          /\ send' = [send EXCEPT ![m] = "error"]
          /\ lock' = Unlocked
    /\ UNCHANGED <<found, cmd, command, start, waitsOn, stop, signalled, reads, crashed>>

\* ReadAll returns when the process has ended, or fails when its pipe is closed;
\* then the write to Stderr, which is nil, panics.
Read(m) ==
    /\ send[m] = "reading"
    /\ \/ /\ proc[reads[m]] = "exited"
          /\ send' = [send EXCEPT ![m] = "answered"]
          /\ lock' = Unlocked
          /\ UNCHANGED crashed
       \/ /\ proc[reads[m]] = "exited" \/ stdout[reads[m]] = "closed"
          /\ crashed' = TRUE
          /\ UNCHANGED <<send, lock>>
    /\ UNCHANGED <<found, cmd, command, start, waitsOn, stop, signalled, reads>>

-----------------------------------------------------------------------------
StartStep(s) == Launch(s) \/ LaunchFails(s) \/ Wait(s) \/ Reap(s)
StopStep(t) == Interrupt(t) \/ Ended(t) \/ Timeout(t)
SendStep(m) == PipeIn(m) \/ Write(m) \/ Read(m)

Next ==
    /\ ~crashed
    /\ \/ \E s \in Starters : Command(s) \/ StartStep(s)
       \/ \E c \in Starters : Exit(c)
       \/ \E t \in Stoppers : CallStop(t) \/ StopStep(t)
       \/ \E m \in Senders : PipeOut(m) \/ SendStep(m)

\* What is called goes on, timers fire, and what is killed dies; nothing says
\* that a process ends by itself, or that anything is called.
Spec ==
    /\ Init /\ [][Next]_vars
    /\ \A s \in Starters : WF_vars(~crashed /\ StartStep(s))
    /\ \A t \in Stoppers : WF_vars(~crashed /\ StopStep(t))
    /\ \A m \in Senders : WF_vars(~crashed /\ SendStep(m))
    /\ \A c \in Starters : WF_vars(~crashed /\ proc[c] = "dying" /\ Exit(c))

-----------------------------------------------------------------------------
(* Properties. *)

TypeOK ==
    /\ found \in BOOLEAN /\ crashed \in BOOLEAN
    /\ cmd \in Starters \cup {None}
    /\ proc \in [Starters -> Procs]
    /\ stdout \in [Starters -> {"none", "open", "closed"}]
    /\ stdin \in [Starters -> Senders \cup {None}]
    /\ start \in [Starters -> {"idle", "starting", "started", "waiting", "done", "returned"}]
    /\ waitsOn \in [Starters -> Starters \cup {None}]
    /\ stop \in [Stoppers -> {"idle", "locking", "waiting", "nil", "error"}]
    /\ signalled \in [Stoppers -> Starters \cup {None}]
    /\ send \in [Senders -> {"idle", "stdin", "writing", "reading", "answered", "error"}]
    /\ reads \in [Senders -> Starters \cup {None}]
    /\ lock \in Stoppers \cup Senders \cup {None}

\* A Stop that returns nil has ended the process, or it will, if the program
\* called Start once.  If it did so again, the nil may come from the done of an
\* earlier process.
NilMeansGone ==
    \A t \in Stoppers :
       stop[t] = "nil" =>
          \/ proc[signalled[t]] \in {"dying", "exited"}
          \/ \E s \in Starters \ {signalled[t]} : proc[s] # "none"

\* Without an executable whose name is "gftp server", no Stop returns and no
\* message is answered, whatever is called: each waits for ever or panics.
NothingWithoutCommand ==
    ~found =>
       /\ \A t \in Stoppers : stop[t] \in {"idle", "locking"}
       /\ \A m \in Senders : send[m] # "answered"

\* A call of Stop returns, or panics, unless a SendMessage holds the lock while it
\* waits for the end of the process that nobody can stop.
StopReturns ==
    \A t \in Stoppers :
       stop[t] = "locking" ~>
          \/ stop[t] \in {"nil", "error"}
          \/ crashed
          \/ \E m \in Senders : send[m] = "reading"
=============================================================================

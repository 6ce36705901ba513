---------------------------- MODULE Subprocesses ----------------------------
(***************************************************************************)
(* SubprocessSet (src/src/shk/src/cmd/real_command_runner_posix.cpp): the  *)
(* processes build() runs its commands in, the pipes their output comes    *)
(* through, and the signals that interrupt shk.  Signals are blocked but   *)
(* while shk sleeps in pselect().  A command is a shell, which may leave a *)
(* process behind that holds its output open.                              *)
(***************************************************************************)
EXTENDS Integers, Sequences, FiniteSets, Functions

CONSTANTS
  Command,     \* what build() may invoke
  Builds,      \* the programs the commands may be, see Program
  PipeSize,    \* the chunks of output a pipe holds before its writer waits
  Sent,        \* the signals that shk is sent
  Interrupts   \* bound on their number

(***************************************************************************)
(* A program: whether it runs in the console pool, how much it writes at   *)
(* most, its exit code, and what makes it hard to run: it closes its       *)
(* output while it runs, leaves a process behind, never ends by itself,    *)
(* does not die of a signal, or has a callback that throws.                *)
(***************************************************************************)
Habit == {"early", "leaves", "endless", "stubborn", "throws"}
Program == [console : BOOLEAN, chunks : Nat, exit : {"success", "failure"},
            habits : SUBSET Habit]

Interrupting == {"INT", "TERM", "HUP"}

ASSUME SubprocessesAssumption ==
  /\ IsFiniteSet(Command)
  /\ \A p \in Builds : p \in [Command -> Program]
  /\ PipeSize \in Nat \ {0} /\ Interrupts \in Nat /\ Sent \subseteq Interrupting

VARIABLES
  program,      \* which program each command is
  phase,        \* where the code of build(), runCommands() or ~SubprocessSet is
  running,      \* SubprocessSet::_running
  finished,     \* SubprocessSet::_finished
  todo,         \* subprocesses that are being finished or destroyed
  fd,           \* whether Subprocess::_fd is "none", "open" or "closed"
  buf,          \* Subprocess::_buf
  ready,        \* the subprocesses whose pipes pselect() found ready
  interrupted,  \* SubprocessSet::_interrupted
  results,      \* what the callbacks were called with
  child,        \* the processes of each command, see NoChild
  pending,      \* signals that shk was sent and that are blocked
  signals       \* how many there were

shk == <<phase, running, finished, todo, fd, buf, ready, interrupted, results>>
kernel == <<child, pending, signals>>
vars == <<program, shk, kernel>>

\* The shell and the process it leaves behind, which of them can write to the
\* pipe, what is in the pipe and how much went into it.
NoChild == [shell |-> "none", left |-> "none", code |-> "none", writers |-> {},
            pipe |-> <<>>, written |-> 0]

Init ==
  /\ program \in Builds
  /\ phase = "filling"
  /\ running = <<>> /\ finished = <<>> /\ todo = <<>> /\ ready = {}
  /\ fd = [c \in Command |-> "none"]
  /\ buf = [c \in Command |-> <<>>]
  /\ interrupted = "none" /\ results = <<>>
  /\ child = [c \in Command |-> NoChild]
  /\ pending = {} /\ signals = 0

Is(c, habit) == habit \in program[c].habits

\* shk has ended, with which the model ends.
Over == phase \in {"ended", "killed", "fatal"}

size == Len(running) + Len(finished)

----------------------------------------------------------------------------
(* The kernel *)

Spawned(c) ==
  LET left == Is(c, "leaves")
  IN  [NoChild EXCEPT !.shell = "running", !.left = IF left THEN "running" ELSE "none",
                      !.writers = {"shell"} \cup IF left THEN {"left"} ELSE {}]

\* A process of c ends, and with it its end of the pipe.
Ended(k, who, code) ==
  IF who = "shell"
  THEN [k EXCEPT !.shell = "zombie", !.code = code, !.writers = @ \ {"shell"}]
  ELSE [k EXCEPT !.left = "ended", !.writers = @ \ {"left"}]

\* A signal reaches the processes of c.
Signalled(c, signal) ==
  LET k == child[c]
      shell == IF k.shell = "running" THEN Ended(k, "shell", signal) ELSE k
  IN  IF Is(c, "stubborn") THEN k
      ELSE IF k.left = "running" THEN Ended(shell, "left", signal) ELSE shell

\* A step of c, whose processes are then k.
Steps(c, k) ==
  /\ ~Over
  /\ child' = [child EXCEPT ![c] = k]
  /\ UNCHANGED <<program, shk, pending, signals>>

\* What a console command writes goes to the terminal.
Write(c) ==
  /\ child[c].writers # {} /\ fd[c] = "open"
  /\ child[c].written < program[c].chunks /\ Len(child[c].pipe) < PipeSize
  /\ LET n == child[c].written + 1
     IN  Steps(c, [child[c] EXCEPT !.written = n, !.pipe = Append(@, n)])

\* shk has closed its end: the writer dies of it.
BrokenPipe(c, who) ==
  /\ who \in child[c].writers /\ fd[c] = "closed"
  /\ child[c].written < program[c].chunks
  /\ Steps(c, Ended(child[c], who, "PIPE"))

CloseOutput(c) ==
  /\ Is(c, "early") /\ child[c].shell = "running" /\ "shell" \in child[c].writers
  /\ Steps(c, [child[c] EXCEPT !.writers = @ \ {"shell"}])

Exit(c, who) ==
  /\ IF who = "shell" THEN child[c].shell = "running" ELSE child[c].left = "running"
  /\ ~Is(c, "endless")
  /\ Steps(c, Ended(child[c], who, program[c].exit))

\* A signal is sent to shk alone, or, as by the terminal, to its process group,
\* in which the commands of the console pool are too.
Interrupt(signal) ==
  /\ signals < Interrupts /\ ~Over
  /\ signals' = signals + 1
  /\ pending' = pending \cup {signal}
  /\ \E toGroup \in BOOLEAN :
       child' = [c \in Command |-> IF toGroup /\ program[c].console
                                   THEN Signalled(c, signal) ELSE child[c]]
  /\ UNCHANGED <<program, shk>>

----------------------------------------------------------------------------
(* SubprocessSet *)

\* invoke and Subprocess::start
invoke(c) ==
  /\ phase \in {"filling", "callback"} /\ fd[c] = "none"
  /\ fd' = [fd EXCEPT ![c] = "open"]
  /\ child' = [child EXCEPT ![c] = Spawned(c)]
  /\ running' = Append(running, c)
  /\ UNCHANGED <<program, phase, finished, todo, buf, ready, interrupted, results,
                 pending, signals>>

\* fatal(): there is no descriptor or process to be had, and shk exits as it is.
startFails(c) ==
  /\ phase \in {"filling", "callback"} /\ fd[c] = "none"
  /\ phase' = "fatal"
  /\ UNCHANGED <<program, running, finished, todo, fd, buf, ready, interrupted, results, kernel>>

computeExitStatus(code) ==
  IF code = "success" THEN "SUCCESS"
  ELSE IF code \in Interrupting THEN "INTERRUPTED" ELSE "FAILURE"

\* The loop of build(): it ends when no command is left.
Loop ==
  /\ phase \in {"filling", "loop"}
  /\ IF size = 0
     THEN phase' = "destroying" /\ UNCHANGED <<finished, todo>>
     ELSE phase' = "reaping" /\ todo' = finished /\ finished' = <<>>
  /\ UNCHANGED <<program, running, fd, buf, ready, interrupted, results, kernel>>

\* waitpid, in Subprocess::finish. Only a process that has ended can be reaped.
Reap(c) ==
  /\ child[c].shell = "zombie"
  /\ child' = [child EXCEPT ![c].shell = "reaped"]
  /\ UNCHANGED <<pending, signals>>

\* The callback of c is called with r.
CalledBack(c, r) == [d \in {c} \cup DOMAIN results |-> IF d = c THEN r ELSE results[d]]

\* finish(true)
finish ==
  /\ phase = "reaping" /\ todo # <<>>
  /\ LET c == Head(todo)
     IN  /\ Reap(c)
         /\ results' = CalledBack(c, [status |-> computeExitStatus(child[c].code),
                                      output |-> buf[c]])
         /\ buf' = [buf EXCEPT ![c] = <<>>]
  /\ todo' = Tail(todo)
  /\ phase' = "callback"
  /\ UNCHANGED <<program, running, finished, fd, ready, interrupted>>

\* A callback may throw, which destroys what is still to be finished.
CallbackEnds(throws) ==
  /\ phase = "callback"
  /\ throws => \E c \in DOMAIN results : Is(c, "throws")
  /\ phase' = IF throws THEN "unwinding" ELSE "reaping"
  /\ UNCHANGED <<program, running, finished, todo, fd, buf, ready, interrupted, results, kernel>>

\* runCommands() goes to sleep, unless there is nothing to wait for.
poll ==
  /\ phase = "reaping" /\ todo = <<>>
  /\ IF running = <<>>
     THEN phase' = "loop" /\ UNCHANGED interrupted
     ELSE phase' = "polling" /\ interrupted' = "none"
  /\ UNCHANGED <<program, running, finished, todo, fd, buf, ready, results, kernel>>

\* setInterruptedFlag: the signals are delivered in some order, and pselect()
\* fails with EINTR.  build() returns and the SubprocessSet is destroyed.
setInterruptedFlag ==
  /\ phase = "polling" /\ pending # {}
  /\ interrupted' \in pending
  /\ pending' = {}
  /\ phase' = "destroying"
  /\ UNCHANGED <<program, running, finished, todo, fd, buf, ready, results, child, signals>>

Readable(c) == child[c].pipe # <<>> \/ child[c].writers = {}

pselect ==
  /\ phase = "polling"
  /\ ready' = {c \in Range(running) : Readable(c)}
  /\ ready' # {}
  /\ phase' = "ready"
  /\ UNCHANGED <<program, running, finished, todo, fd, buf, interrupted, results, kernel>>

\* handlePendingInterruption: a signal came while pselect() returned.
handlePendingInterruption ==
  /\ phase = "ready" /\ pending # {}
  /\ interrupted' = IF "INT" \in pending THEN "INT"
                    ELSE IF "TERM" \in pending THEN "TERM" ELSE "HUP"
  /\ ready' = {} /\ phase' = "destroying"
  /\ UNCHANGED <<program, running, finished, todo, fd, buf, results, kernel>>

\* Mutant: takes an empty pipe for the end of the output.
EmptyIsTheEnd(c) ==
  IF child[c].pipe # <<>>
  THEN [data |-> <<Head(child[c].pipe)>>, done |-> Len(child[c].pipe) = 1]
  ELSE [data |-> <<>>, done |-> TRUE]

\* onPipeReady: what is read of the pipe of c, and whether it is at its end.
onPipeReady(c) ==
  IF child[c].pipe # <<>>
  THEN [data |-> <<Head(child[c].pipe)>>, done |-> FALSE]
  ELSE [data |-> <<>>, done |-> TRUE]

\* The subprocesses of the list s that are in S, in their order.
Kept(S, list, c) == IF c \in S THEN Append(list, c) ELSE list
Selecting == INSTANCE ListFolds WITH Step <- Kept
Those(s, S) == Selecting!Folded(S, <<>>, s)

\* The rest of runCommands().
readPipes ==
  /\ phase = "ready" /\ pending = {}
  /\ LET got  == [c \in ready |-> onPipeReady(c)]
         done == {c \in ready : got[c].done}
     IN  /\ buf' = [c \in Command |-> IF c \in ready THEN buf[c] \o got[c].data ELSE buf[c]]
         /\ child' = [c \in Command |->
              IF c \in ready /\ got[c].data # <<>>
              THEN [child[c] EXCEPT !.pipe = Tail(@)] ELSE child[c]]
         /\ fd' = [c \in Command |-> IF c \in done THEN "closed" ELSE fd[c]]
         /\ finished' = finished \o Those(running, done)
         /\ running' = Those(running, Command \ done)
  /\ ready' = {} /\ phase' = "loop"
  /\ UNCHANGED <<program, todo, interrupted, results, pending, signals>>

\* Mutant: the signal is sent to the console commands instead of the others.
SignalsTheConsole(c) == program[c].console

\* clear() leaves the commands of its own process group alone.
toBeSignalled(c) == ~program[c].console

\* Mutant: the subprocesses are forgotten, not destroyed.
ClearForgets ==
  /\ phase = "destroying"
  /\ phase' = "clearing"
  /\ running' = <<>>
  /\ UNCHANGED <<program, finished, todo, fd, buf, ready, interrupted, results, kernel>>

\* clear(). Without an interruption kill() sends no signal.
clear ==
  /\ phase = "destroying"
  /\ child' = [c \in Command |->
       IF c \in Range(running) /\ toBeSignalled(c) /\ interrupted # "none"
       THEN Signalled(c, interrupted) ELSE child[c]]
  /\ todo' = running /\ running' = <<>>
  /\ phase' = "clearing"
  /\ UNCHANGED <<program, finished, fd, buf, ready, interrupted, results, pending, signals>>

Destroying == phase \in {"unwinding", "clearing", "unblocked"} /\ todo # <<>>

\* ~Subprocess closes the pipe, and reaps the process if that was not done.
closePipe ==
  /\ Destroying /\ fd[Head(todo)] = "open"
  /\ fd' = [fd EXCEPT ![Head(todo)] = "closed"]
  /\ UNCHANGED <<program, phase, running, finished, todo, buf, ready, interrupted, results,
                 kernel>>

\* Mutant: the callback is invoked after all.
DropReports ==
  /\ Destroying /\ fd[Head(todo)] = "closed"
  /\ Reap(Head(todo))
  /\ results' = CalledBack(Head(todo), [status |-> computeExitStatus(child[Head(todo)].code),
                                        output |-> buf[Head(todo)]])
  /\ todo' = Tail(todo)
  /\ UNCHANGED <<program, phase, running, finished, fd, buf, ready, interrupted>>

drop ==
  /\ Destroying /\ fd[Head(todo)] = "closed"
  /\ Reap(Head(todo))
  /\ todo' = Tail(todo)
  /\ UNCHANGED <<program, phase, running, finished, fd, buf, ready, interrupted, results>>

\* The exception leaves runCommands() and build().
unwound ==
  /\ phase = "unwinding" /\ todo = <<>>
  /\ phase' = "destroying"
  /\ UNCHANGED <<program, running, finished, todo, fd, buf, ready, interrupted, results, kernel>>

\* The end of ~SubprocessSet: a signal that is still pending now kills shk.
restoreSignals ==
  /\ phase = "clearing" /\ todo = <<>>
  /\ phase' = IF pending # {} THEN "killed" ELSE "unblocked"
  /\ todo' = finished /\ finished' = <<>>
  /\ UNCHANGED <<program, running, fd, buf, ready, interrupted, results, kernel>>

End ==
  /\ phase = "unblocked" /\ todo = <<>>
  /\ phase' = "ended"
  /\ UNCHANGED <<program, running, finished, todo, fd, buf, ready, interrupted, results, kernel>>

----------------------------------------------------------------------------
ShkStep ==
  \/ Loop \/ finish \/ CallbackEnds(FALSE)
  \/ poll \/ setInterruptedFlag \/ pselect \/ handlePendingInterruption \/ readPipes
  \/ clear \/ closePipe \/ drop \/ unwound \/ restoreSignals \/ End

Ends(c) == \E who \in {"shell", "left"} : Exit(c, who) \/ BrokenPipe(c, who)

\* shk is in waitpid() for a command that does not end, and its signals are
\* blocked: it has no signal to pass on (it does not know of one while it
\* finishes a command that closed its output, or unwinds), or the command does
\* not die of it, or is left to get it from whoever sent it and did not.
WaitsForEver(c) ==
  /\ Destroying \/ (phase = "reaping" /\ todo # <<>>)
  /\ c = Head(todo) /\ fd[c] = "closed"
  /\ child[c].shell = "running" /\ Is(c, "endless")
  /\ interrupted = "none" \/ Is(c, "stubborn") \/ program[c].console

Stopped == (Over \/ \E c \in Command : WaitsForEver(c)) /\ UNCHANGED vars

Next ==
  \/ ShkStep
  \/ CallbackEnds(TRUE)
  \/ \E c \in Command : invoke(c) \/ startFails(c)
  \/ \E c \in Command : Write(c) \/ CloseOutput(c) \/ Ends(c)
  \/ \E s \in Sent : Interrupt(s)
  \/ Stopped

\* shk is one thread that runs whenever it can. Commands end, but for the ones
\* that are made not to.
Fairness == WF_vars(ShkStep) /\ \A c \in Command : WF_vars(Ends(c))

Spec == Init /\ [][Next]_vars /\ Fairness

----------------------------------------------------------------------------
Reported == DOMAIN results

\* What a callback is given is all that the processes of the command wrote, to
\* the last of them, in its order, with the status the shell ended with: the
\* output of a command is not cut off where it pauses or where its shell ends.
ResultsAreWhole ==
  \A c \in Reported :
    /\ results[c].output = [i \in 1..child[c].written |-> i]
    /\ results[c].status = computeExitStatus(child[c].code)
    /\ child[c].writers = {}

\* When the SubprocessSet is gone every shell it started has ended and has been
\* waited for, however the build ended: "potential resources should be cleaned
\* up".
NobodyIsLeft ==
  phase \in {"ended", "killed"} =>
    \A c \in Command : child[c].shell \in {"none", "reaped"}

\* A signal stops shk whether it arrives while shk sleeps, as it wakes up or while
\* it calls back, and whatever runs then: an endless command outside the console
\* pool is killed before shk waits for it. What shk can then still wait for is
\* what WaitsForEver lists and no more, until another signal ends that command.
InterruptsEndTheBuild ==
  (pending # {} \/ interrupted # "none") ~> (Over \/ \E c \in Command : WaitsForEver(c))

Gone == {"clearing", "unblocked", "ended", "killed", "fatal"}

Promise == INSTANCE CommandRunnerPromise WITH
  state <- [c \in Command |->
              IF c \in Reported THEN "done"
              ELSE IF fd[c] = "none" THEN "new"
              ELSE IF phase \in Gone THEN "dropped" ELSE "running"],
  call  <- IF phase \in Gone THEN "gone"
           ELSE IF phase \in {"filling", "loop", "unwinding", "destroying"} THEN "outside"
           ELSE "inside",
  asked <- signals > 0,
  told  <- interrupted # "none"

\* SubprocessSet implements what command_runner.h promises build(): each callback
\* once, from within runCommands() and never from a destructor, and no report of
\* an interruption that was not one.
KeepsThePromise == Promise!Spec
----------------------------------------------------------------------------
(* What makes the properties inductive. *)

Phases == {"filling", "loop", "reaping", "callback", "polling", "ready", "unwinding",
           "destroying", "clearing", "unblocked", "ended", "killed", "fatal"}
Child == [shell : {"none", "running", "zombie", "reaped"}, left : {"none", "running", "ended"},
          code : {"none", "success", "failure", "PIPE"} \cup Interrupting,
          writers : SUBSET {"shell", "left"}, pipe : Seq(Nat), written : Nat]

TypeOK ==
  /\ program \in [Command -> Program]
  /\ phase \in Phases
  /\ running \in Seq(Command) /\ finished \in Seq(Command) /\ todo \in Seq(Command)
  /\ fd \in [Command -> {"none", "open", "closed"}]
  /\ buf \in [Command -> Seq(Nat)]
  /\ ready \in SUBSET Command
  /\ interrupted \in Interrupting \cup {"none"}
  /\ Reported \subseteq Command
  /\ child \in [Command -> Child]
  /\ pending \in SUBSET Interrupting
  /\ signals \in Nat

\* A command has processes once it has a pipe, and a process that can write runs.
ProcessesInv ==
  \A c \in Command :
    /\ fd[c] = "none" <=> child[c].shell = "none"
    /\ fd[c] = "none" => buf[c] = <<>>
    /\ "left" \in child[c].writers <=> child[c].left = "running"
    /\ "shell" \in child[c].writers => child[c].shell = "running"

Counted(n) == [i \in 1..n |-> i]

\* Nothing of the output is lost between the pipe and the buffer.
OutputInv ==
  \A c \in Command : fd[c] = "open" => buf[c] \o child[c].pipe = Counted(child[c].written)

\* The pipe of c was closed because nobody could write to it any more.
Collected(c) ==
  fd[c] = "closed" /\ child[c].writers = {} /\ buf[c] = Counted(child[c].written)

\* A shell that has not been waited for is in one of the lists, and each list
\* holds subprocesses that are as far as it says.
ListsInv ==
  /\ \A c \in Command : child[c].shell \in {"running", "zombie"} =>
       c \in Range(running) \cup Range(finished) \cup Range(todo)
  /\ \A c \in Range(running) : fd[c] = "open"
  /\ \A c \in Range(finished) : child[c].shell # "reaped" => Collected(c)
  /\ phase \in {"reaping", "callback"} =>
       \A c \in Range(todo) : child[c].shell # "reaped" => Collected(c)

\* What is being finished is not read any more.
ClosedInv ==
  /\ \A c \in Range(finished) : fd[c] = "closed"
  /\ phase \in {"reaping", "callback", "unwinding"} => \A c \in Range(todo) : fd[c] = "closed"

\* A pipe that pselect() found ready stays so until it is read.
ReadyInv ==
  \A c \in ready : phase = "ready" /\ c \in Range(running) /\ Readable(c)

\* Which lists may hold something, and when the interruption is known, by phase.
PhaseInv ==
  /\ finished # <<>> => phase = "loop"
  /\ todo # <<>> => phase \in {"reaping", "callback", "unwinding", "clearing", "fatal"}
  /\ running # <<>> => phase \notin {"clearing", "unblocked", "ended", "killed"}
  /\ interrupted # "none" =>
       phase \in {"destroying", "clearing", "unblocked", "ended", "killed"}
  /\ pending # {} => signals > 0

ReportedInv == \A c \in Reported : child[c].shell = "reaped"

SubprocessesInv ==
  /\ TypeOK /\ ProcessesInv /\ OutputInv /\ ListsInv /\ ClosedInv /\ ReadyInv /\ PhaseInv
  /\ ReportedInv /\ ResultsAreWhole
=============================================================================

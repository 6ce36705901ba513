------------------------ MODULE CommandRunnerPromise ------------------------
(***************************************************************************)
(* What a CommandRunner promises build(), as the comments of               *)
(* src/src/shk/src/cmd/command_runner.h state it, without processes, pipes *)
(* and signals.                                                            *)
(***************************************************************************)
EXTENDS Naturals

CONSTANT Command

VARIABLES
  state,      \* of each command: "new", "running", "done" or "dropped"
  call,       \* whether build() is "outside" or "inside" runCommands()
  asked,      \* whether shk was sent a signal that interrupts it
  told        \* whether runCommands() has returned true

vars == <<state, call, asked, told>>

Init ==
  /\ state = [c \in Command |-> "new"]
  /\ call = "outside" /\ asked = FALSE /\ told = FALSE

\* invoke() may also be called from a callback.
Invoke(c) ==
  /\ call \in {"outside", "inside"} /\ state[c] = "new"
  /\ state' = [state EXCEPT ![c] = "running"]
  /\ UNCHANGED <<call, asked, told>>

RunCommands ==
  /\ call = "outside" /\ ~told
  /\ call' = "inside"
  /\ UNCHANGED <<state, asked, told>>

\* "The callback is always invoked from within a runCommands call", and once.
Callback(c) ==
  /\ call = "inside" /\ state[c] = "running"
  /\ state' = [state EXCEPT ![c] = "done"]
  /\ UNCHANGED <<call, asked, told>>

\* "true if the process was interrupted while running the commands"
Return(interrupted) ==
  /\ call = "inside"
  /\ interrupted => asked
  /\ told' = interrupted
  /\ call' = "outside"
  /\ UNCHANGED <<state, asked>>

\* "If the CommandRunner object is destroyed before all commands have been run,
\* potential resources should be cleaned up but the callback is not invoked."
Destroy ==
  /\ call # "gone"
  /\ call' = "gone"
  /\ state' = [c \in Command |-> IF state[c] = "running" THEN "dropped" ELSE state[c]]
  /\ UNCHANGED <<asked, told>>

Signal == asked' = TRUE /\ UNCHANGED <<state, call, told>>

Next ==
  \/ \E c \in Command : Invoke(c) \/ Callback(c)
  \/ RunCommands
  \/ \E interrupted \in BOOLEAN : Return(interrupted)
  \/ Destroy
  \/ Signal

Spec == Init /\ [][Next]_vars
=============================================================================

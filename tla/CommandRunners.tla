--------------------------- MODULE CommandRunners ---------------------------
(***************************************************************************)
(* build() on top of the stack of command runners that runBuild makes:     *)
(* PooledCommandRunner on LimitedCommandRunner on the subprocesses of      *)
(* SubprocessSet (src/src/shk/src/cmd/).  A step that Build counts as      *)
(* running is delayed by its pool, runs as a process, has exited without   *)
(* being noticed by the next runCommands(), or waits in runCommands() for  *)
(* its callback.                                                           *)
(***************************************************************************)
EXTENDS Build, Sequences, SequencesExt

CONSTANTS
  Pool,         \* named pools of the manifest
  NoPool,       \* the empty pool name
  PoolDepth,    \* depth of each pool
  PoolName,     \* Step::poolName
  Parallelism,  \* -j
  LoadLimited   \* whether -l was given; the load average is then arbitrary

ASSUME PoolsTyped ==
  /\ NoPool \notin Pool
  /\ PoolDepth \in [Pool -> Nat]
  /\ PoolName \in [Step -> Pool \cup {NoPool}]
  /\ Parallelism \in Nat \ {0}
  /\ LoadLimited \in BOOLEAN

VARIABLES
  pools,      \* PooledCommandRunner::_pools, the free places of each pool
  delayed,    \* PooledCommandRunner::_delayed_commands, oldest first
  processes,  \* SubprocessSet::_running
  finished,   \* SubprocessSet::_finished
  callbacks   \* finished processes that runCommands() has yet to call back

runnerVars == <<pools, delayed, processes, finished, callbacks>>
allVars == <<vars, runnerVars>>

RunnerInit ==
  /\ pools = PoolDepth
  /\ delayed = [p \in Pool |-> <<>>]
  /\ processes = {} /\ finished = {} /\ callbacks = {}

RInit == Init /\ RunnerInit

\* SubprocessSet::size, which LimitedCommandRunner passes on.  Processes whose
\* callbacks are being called have been swapped out of _finished.
size == Cardinality(processes) + Cardinality(finished)

\* Faulty variants of definitions stand before them, as in Build.
MayNotRunMoreWhenIdle == size >= Parallelism \/ LoadLimited

\* LimitedCommandRunner::canRunMore for some load average, and for every one.
mayRunMore == size < Parallelism
mayNotRunMore == size >= Parallelism \/ (LoadLimited /\ size # 0)

\* PooledCommandRunner::canRunNow
canRunNow(p) == p = NoPool \/ pools[p] # 0

\* PooledCommandRunner::invoke
invoke(s) ==
  LET p == PoolName[s]
  IN  IF canRunNow(p)
      THEN /\ processes' = processes \cup {s}
           /\ pools' = IF p = NoPool THEN pools ELSE [pools EXCEPT ![p] = @ - 1]
           /\ UNCHANGED delayed
      ELSE /\ delayed' = [delayed EXCEPT ![p] = Append(@, s)]
           /\ UNCHANGED <<processes, pools>>

ReleaseWithoutDelayedJob(s) ==
  LET p == PoolName[s]
  IN  /\ pools' = IF p = NoPool THEN pools ELSE [pools EXCEPT ![p] = @ + 1]
      /\ UNCHANGED <<processes, delayed>>

ReleaseKeepsDelayedJob(s) ==
  LET p == PoolName[s]
  IN  IF p # NoPool /\ pools[p] = 0 /\ delayed[p] # <<>>
      THEN /\ processes' = processes \cup {Head(delayed[p])}
           /\ UNCHANGED <<pools, delayed>>
      ELSE /\ pools' = IF p = NoPool THEN pools ELSE [pools EXCEPT ![p] = @ + 1]
           /\ UNCHANGED <<processes, delayed>>

ReleaseGivesPlaceTwice(s) ==
  LET p == PoolName[s]
      start == p # NoPool /\ pools[p] = 0 /\ delayed[p] # <<>>
  IN  /\ pools' = IF p = NoPool THEN pools ELSE [pools EXCEPT ![p] = @ + 1]
      /\ processes' = processes \cup (IF start THEN {Head(delayed[p])} ELSE {})
      /\ delayed' = IF start THEN [delayed EXCEPT ![p] = Tail(@)] ELSE delayed

\* What the callback of invokeNow does before it calls back to build(): it frees
\* the place in the pool and, if the pool was exhausted, invokeDelayedJob starts
\* the oldest delayed command of the pool in that place.
releasePool(s) ==
  LET p == PoolName[s]
  IN  IF p # NoPool /\ pools[p] = 0 /\ delayed[p] # <<>>
      THEN /\ processes' = processes \cup {Head(delayed[p])}
           /\ delayed' = [delayed EXCEPT ![p] = Tail(@)]
           /\ UNCHANGED pools
      ELSE /\ pools' = IF p = NoPool THEN pools ELSE [pools EXCEPT ![p] = @ + 1]
           /\ UNCHANGED <<processes, delayed>>

RConstruct(i) == Construct(i) /\ UNCHANGED runnerVars

RDiscard == ((\E s \in Step : DiscardStep(s)) \/ DiscardEnd) /\ UNCHANGED runnerVars

\* enqueueBuildCommand asks canRunMore() before it looks at the step.
RBypass(s) == mayRunMore /\ BypassCommand(s) /\ UNCHANGED runnerVars

RInvoke(s) ==
  /\ mayRunMore
  /\ InvokeCommand(s)
  /\ invoke(s)
  /\ UNCHANGED <<finished, callbacks>>

REnqueueEnd == StopEnqueueing(mayNotRunMore) /\ UNCHANGED runnerVars

\* runCommands() starts by swapping out the processes that have finished.
RunCommandsReap ==
  /\ phase = "wait"
  /\ callbacks = {} /\ finished # {}
  /\ callbacks' = finished
  /\ finished' = {}
  /\ UNCHANGED <<vars, pools, delayed, processes>>

\* Subprocess::finish calls one of them back, through the pool to commandDone.
RunCommandsCallback(s, exit_status) ==
  /\ s \in callbacks
  /\ callbacks' = callbacks \ {s}
  /\ releasePool(s)
  /\ CommandDone(s, exit_status)
  /\ UNCHANGED finished

\* pselect reports that some processes have closed their output.
RunCommandsWait(exited) ==
  /\ phase = "wait"
  /\ callbacks = {} /\ finished = {}
  /\ exited # {} /\ exited \subseteq processes
  /\ processes' = processes \ exited
  /\ finished' = exited
  /\ UNCHANGED <<vars, pools, delayed, callbacks>>

\* The loop of build() ends when PooledCommandRunner::size is 0.
RFinish ==
  /\ phase = "wait"
  /\ callbacks = {}
  /\ size = 0 /\ \A p \in Pool : delayed[p] = <<>>
  /\ Returns(BuildResult)
  /\ UNCHANGED runnerVars

\* pselect is the only place where a signal is noticed.
RInterrupt ==
  /\ callbacks = {} /\ finished = {} /\ processes # {}
  /\ Interrupt
  /\ UNCHANGED runnerVars

RThrow == Throw /\ UNCHANGED runnerVars

\* runBuild destroys the command runner; SubprocessSet::clear ends what runs.
RReturn ==
  /\ Return
  /\ pools' = PoolDepth
  /\ delayed' = [p \in Pool |-> <<>>]
  /\ processes' = {} /\ finished' = {} /\ callbacks' = {}

RWork ==
  \/ RDiscard
  \/ \E s \in Step : RBypass(s)
  \/ \E s \in Step : RInvoke(s)
  \/ REnqueueEnd
  \/ RunCommandsReap
  \/ \E s \in Step, e \in ExitStatus : RunCommandsCallback(s, e)
  \/ \E exited \in SUBSET Step : RunCommandsWait(exited)
  \/ RFinish

RNext ==
  \/ \E i \in Scenario : RConstruct(i)
  \/ RWork
  \/ RInterrupt
  \/ RThrow
  \/ RReturn

RSpec == RInit /\ [][RNext]_allVars

\* As for FairSpec: the code is sequential and commands terminate.
RFairSpec == RSpec /\ WF_allVars(RWork)

----------------------------------------------------------------------------
\* Type correctness of the command runners' state.
RTypeOK ==
  /\ pools \in [Pool -> Nat]
  /\ delayed \in [Pool -> Seq(Step)]
  /\ processes \subseteq Step /\ finished \subseteq Step /\ callbacks \subseteq Step

\* Commands that hold a place in pool p.
Holding(p) == {s \in processes \cup finished \cup callbacks : PoolName[s] = p}

\* Commands that some pool keeps waiting.
Delayed == UNION {ToSet(delayed[p]) : p \in Pool}

\* Every command that build() waits for is in exactly one place in the command
\* runners, so that none is lost (build() would hang) or called back twice.
NoCommandIsLost ==
  /\ running = Delayed \cup processes \cup finished \cup callbacks
  /\ Delayed \cap (processes \cup finished \cup callbacks) = {}
  /\ processes \cap (finished \cup callbacks) = {}
  /\ finished \cap callbacks = {}
  /\ \A p \in Pool : IsInjective(delayed[p])

\* No more commands of a pool run at a time than the pool's depth, the free
\* places are accounted for, and a command is only kept waiting by its pool
\* while the pool is exhausted.
PoolsAreRespected ==
  \A p \in Pool :
    /\ pools[p] + Cardinality(Holding(p)) = PoolDepth[p]
    /\ delayed[p] # <<>> => pools[p] = 0

\* The command runners implement what Build assumes of them: build() stops handing
\* over ready steps only while some command is in the runners, and its loop ends
\* only when no command is left in them.
BuildSpec == Spec

\* build() returns also with the command runners in place, whichever commands
\* their pools delay and however many commands -j allows.
RTerminates == (phase = "discard") ~> (phase = "finished")

\* The inductive invariant of the command runners: commands wait in the list of
\* their own pool.
RInv ==
  /\ RTypeOK
  /\ NoCommandIsLost
  /\ PoolsAreRespected
  /\ \A p \in Pool : \A s \in ToSet(delayed[p]) : PoolName[s] = p
=============================================================================

------------------------ MODULE CommandRunnersProofs ------------------------
(***************************************************************************)
(* Proofs about CommandRunners, for every manifest, all pools, every -j    *)
(* and every load: no command is lost, pools are respected, and build()    *)
(* with the command runners implements Build, so that what BuildProofs     *)
(* shows of the scheduler holds with them too.                             *)
(***************************************************************************)
EXTENDS CommandRunners, BuildProofs, SequenceTheorems

(***************************************************************************)
(* A command is appended to the list of a pool.                            *)
(***************************************************************************)
LEMMA AppendToPool ==
  ASSUME delayed \in [Pool -> Seq(Step)], NEW p \in Pool, NEW s \in Step,
         s \notin Delayed,
         \A q \in Pool : IsInjective(delayed[q]),
         delayed' = [delayed EXCEPT ![p] = Append(@, s)]
  PROVE  /\ delayed' \in [Pool -> Seq(Step)]
         /\ Delayed' = Delayed \cup {s}
         /\ ToSet(delayed'[p]) = ToSet(delayed[p]) \cup {s}
         /\ \A q \in Pool \ {p} : delayed'[q] = delayed[q]
         /\ \A q \in Pool : IsInjective(delayed'[q])
<1> DEFINE d == delayed[p]
<1>1. d \in Seq(Step) /\ Append(d, s) \in Seq(Step)
  BY AppendProperties
<1>2. delayed'[p] = Append(d, s) /\ \A q \in Pool \ {p} : delayed'[q] = delayed[q]
  OBVIOUS
<1>3. delayed' \in [Pool -> Seq(Step)]
  BY <1>1
<1>4. /\ DOMAIN d = 1..Len(d) /\ Len(d) \in Nat
      /\ DOMAIN Append(d, s) = 1..(Len(d) + 1)
      /\ \A i \in 1..Len(d) : Append(d, s)[i] = d[i]
      /\ Append(d, s)[Len(d) + 1] = s
  BY <1>1, LenProperties, AppendProperties
<1>5. ToSet(Append(d, s)) = ToSet(d) \cup {s}
  <2>1. ASSUME NEW x \in ToSet(Append(d, s)) PROVE x \in ToSet(d) \cup {s}
    <3>1. PICK i \in 1..(Len(d) + 1) : x = Append(d, s)[i]
      BY <1>4, <2>1 DEF ToSet
    <3>2. i \in 1..Len(d) \/ i = Len(d) + 1
      BY <1>4, <3>1
    <3> QED
      BY <1>4, <3>1, <3>2 DEF ToSet
  <2>2. ASSUME NEW x \in ToSet(d) PROVE x \in ToSet(Append(d, s))
    <3>1. PICK i \in 1..Len(d) : x = d[i]
      BY <1>4, <2>2 DEF ToSet
    <3>2. i \in 1..(Len(d) + 1) /\ x = Append(d, s)[i]
      BY <1>4, <3>1
    <3> QED
      BY <1>4, <3>2 DEF ToSet
  <2>3. s \in ToSet(Append(d, s))
    <3>1. Len(d) + 1 \in 1..(Len(d) + 1)
      BY <1>4
    <3> QED
      BY <1>4, <3>1 DEF ToSet
  <2> QED
    BY <2>1, <2>2, <2>3
<1>6. s \notin ToSet(d)
  BY DEF Delayed
<1>7. IsInjective(Append(d, s))
  BY <1>4, <1>6 DEF IsInjective, ToSet
<1>8. Delayed' = Delayed \cup {s}
  BY <1>2, <1>5 DEF Delayed
<1> QED
  BY <1>2, <1>3, <1>5, <1>7, <1>8

(***************************************************************************)
(* The oldest command is taken from the list of a pool.                    *)
(***************************************************************************)
LEMMA TakeFromPool ==
  ASSUME delayed \in [Pool -> Seq(Step)], NEW p \in Pool, delayed[p] # <<>>,
         \A q \in Pool : IsInjective(delayed[q]),
         \A q \in Pool : \A s \in ToSet(delayed[q]) : PoolName[s] = q,
         delayed' = [delayed EXCEPT ![p] = Tail(@)]
  PROVE  /\ Head(delayed[p]) \in Step \cap ToSet(delayed[p])
         /\ delayed' \in [Pool -> Seq(Step)]
         /\ Delayed' = Delayed \ {Head(delayed[p])}
         /\ ToSet(delayed'[p]) = ToSet(delayed[p]) \ {Head(delayed[p])}
         /\ \A q \in Pool \ {p} : delayed'[q] = delayed[q]
         /\ \A q \in Pool : IsInjective(delayed'[q])
<1> DEFINE d == delayed[p]
           s == Head(d)
<1>1. d \in Seq(Step) /\ d # <<>> /\ IsInjective(d)
  OBVIOUS
<1>2. /\ s \in Step /\ Tail(d) \in Seq(Step)
      /\ Len(Tail(d)) = Len(d) - 1
      /\ \A i \in 1..Len(Tail(d)) : Tail(d)[i] = d[i + 1]
  BY <1>1, HeadTailProperties
<1>3. /\ DOMAIN d = 1..Len(d) /\ Len(d) \in Nat \ {0} /\ s = d[1]
      /\ DOMAIN Tail(d) = 1..(Len(d) - 1)
  BY <1>1, <1>2, LenProperties, EmptySeq
<1>4. delayed'[p] = Tail(d) /\ \A q \in Pool \ {p} : delayed'[q] = delayed[q]
  OBVIOUS
<1>5. delayed' \in [Pool -> Seq(Step)]
  BY <1>2
<1>6. s \in ToSet(d)
  BY <1>3 DEF ToSet
<1>7. ToSet(Tail(d)) = ToSet(d) \ {s}
  <2>1. ASSUME NEW x \in ToSet(Tail(d)) PROVE x \in ToSet(d) \ {s}
    <3>1. PICK i \in 1..(Len(d) - 1) : x = d[i + 1]
      BY <1>2, <1>3, <2>1 DEF ToSet
    <3>2. i + 1 \in DOMAIN d /\ 1 \in DOMAIN d /\ i + 1 # 1
      BY <1>3, <3>1
    <3> QED
      BY <1>1, <1>3, <3>1, <3>2 DEF ToSet, IsInjective
  <2>2. ASSUME NEW x \in ToSet(d) \ {s} PROVE x \in ToSet(Tail(d))
    <3>1. PICK i \in 1..Len(d) : x = d[i]
      BY <1>3, <2>2 DEF ToSet
    <3>2. i # 1
      BY <1>3, <2>2, <3>1
    <3>3. i - 1 \in 1..(Len(d) - 1) /\ (i - 1) + 1 = i
      BY <1>3, <3>1, <3>2
    <3>4. Tail(d)[i - 1] = d[(i - 1) + 1]
      BY <1>2, <3>3
    <3> QED
      BY <1>3, <3>1, <3>3, <3>4 DEF ToSet
  <2> QED
    BY <2>1, <2>2
<1>8. IsInjective(Tail(d))
  <2> SUFFICES ASSUME NEW a \in DOMAIN Tail(d), NEW b \in DOMAIN Tail(d),
                      Tail(d)[a] = Tail(d)[b]
               PROVE  a = b
    BY DEF IsInjective
  <2>1. a + 1 \in DOMAIN d /\ b + 1 \in DOMAIN d /\ d[a + 1] = d[b + 1]
    BY <1>2, <1>3
  <2>2. a + 1 = b + 1
    BY <1>1, <2>1 DEF IsInjective
  <2> QED
    BY <2>2, <1>3
<1>9. \A q \in Pool \ {p} : s \notin ToSet(delayed[q])
  BY <1>6
<1>10. Delayed' = Delayed \ {s}
  BY <1>4, <1>7, <1>9 DEF Delayed
<1> QED
  BY <1>2, <1>4, <1>5, <1>6, <1>7, <1>8, <1>10

(***************************************************************************)
(* Holding a place is counted: one more or one less command.               *)
(***************************************************************************)
LEMMA HoldingIsFinite ==
  ASSUME RTypeOK, NEW p
  PROVE  Holding(p) \in SUBSET Step /\ Cardinality(Holding(p)) \in Nat
BY StepSetCard DEF Holding, RTypeOK

(***************************************************************************)
(* Steps of build() that do not concern the command runners.               *)
(***************************************************************************)
LEMMA RunnersUntouched ==
  ASSUME RInv, UNCHANGED runnerVars, running' = running
  PROVE  RInv'
<1>1. /\ pools' = pools /\ delayed' = delayed /\ processes' = processes
      /\ finished' = finished /\ callbacks' = callbacks
  BY DEF runnerVars
<1>2. Delayed' = Delayed /\ \A p : Holding(p)' = Holding(p)
  BY <1>1 DEF Delayed, Holding
<1>3. RTypeOK' /\ NoCommandIsLost'
  BY <1>1, <1>2 DEF RInv, RTypeOK, NoCommandIsLost
<1>4. PoolsAreRespected'
  BY <1>1, <1>2 DEF RInv, PoolsAreRespected
<1> QED
  BY <1>1, <1>3, <1>4 DEF RInv

(***************************************************************************)
(* PooledCommandRunner::invoke starts a command or delays it.              *)
(***************************************************************************)
LEMMA InvokeKeepsRInv ==
  ASSUME RInv, NEW s \in Step, s \notin running, running' = running \cup {s},
         invoke(s), UNCHANGED <<finished, callbacks>>
  PROVE  RInv'
<1> DEFINE p == PoolName[s]
<1> USE PoolsTyped DEF RInv
<1>0. p \in Pool \cup {NoPool} /\ NoPool \notin Pool
  OBVIOUS
<1>1. s \notin Delayed \cup processes \cup finished \cup callbacks
  BY DEF NoCommandIsLost
<1>2. CASE canRunNow(p)
  <2>1. /\ processes' = processes \cup {s} /\ delayed' = delayed
        /\ pools' = IF p = NoPool THEN pools ELSE [pools EXCEPT ![p] = @ - 1]
    BY <1>2 DEF invoke
  <2>2. p \in Pool => pools[p] # 0 /\ pools[p] \in Nat /\ pools'[p] = pools[p] - 1
    BY <1>0, <1>2, <2>1 DEF canRunNow, RTypeOK
  <2>3. \A q \in Pool \ {p} : pools'[q] = pools[q]
    BY <2>1 DEF RTypeOK
  <2>4. RTypeOK'
    BY <1>0, <2>1, <2>2 DEF RTypeOK
  <2>5. Delayed' = Delayed
    BY <2>1 DEF Delayed
  <2>6. NoCommandIsLost'
    BY <1>1, <2>1, <2>5 DEF NoCommandIsLost
  <2>7. ASSUME NEW q \in Pool
        PROVE  /\ pools'[q] + Cardinality(Holding(q)') = PoolDepth[q]
               /\ delayed'[q] # <<>> => pools'[q] = 0
    <3>1. CASE q = p
      <4>1. Holding(q)' = Holding(q) \cup {s}
        BY <2>1, <3>1 DEF Holding
      <4>2. s \notin Holding(q)
        BY <1>1 DEF Holding
      <4>3. Cardinality(Holding(q)') = Cardinality(Holding(q)) + 1
        BY <4>1, <4>2, HoldingIsFinite, StepSetAdd
      <4>4. Cardinality(Holding(q)) \in Nat
        BY HoldingIsFinite
      <4>5. /\ pools[q] + Cardinality(Holding(q)) = PoolDepth[q]
            /\ delayed[q] # <<>> => pools[q] = 0
        BY DEF PoolsAreRespected
      <4>6. pools'[q] = pools[q] - 1 /\ pools[q] \in Nat /\ pools[q] # 0
        BY <2>2, <3>1
      <4>7. delayed'[q] = <<>>
        BY <2>1, <4>5, <4>6
      <4> QED
        BY <4>3, <4>4, <4>5, <4>6, <4>7
    <3>2. CASE q # p
      <4>1. Holding(q)' = Holding(q)
        BY <2>1, <3>2 DEF Holding
      <4> QED
        BY <2>1, <2>3, <3>2, <4>1 DEF PoolsAreRespected
    <3> QED
      BY <3>1, <3>2
  <2>8. PoolsAreRespected'
    BY <2>7 DEF PoolsAreRespected
  <2> QED
    BY <2>1, <2>4, <2>6, <2>8
<1>3. CASE ~canRunNow(p)
  <2>1. /\ p \in Pool /\ pools[p] = 0
        /\ delayed' = [delayed EXCEPT ![p] = Append(@, s)]
        /\ processes' = processes /\ pools' = pools
    BY <1>0, <1>3 DEF invoke, canRunNow
  <2>2. /\ delayed' \in [Pool -> Seq(Step)]
        /\ Delayed' = Delayed \cup {s}
        /\ ToSet(delayed'[p]) = ToSet(delayed[p]) \cup {s}
        /\ \A q \in Pool \ {p} : delayed'[q] = delayed[q]
        /\ \A q \in Pool : IsInjective(delayed'[q])
    BY <1>1, <2>1, AppendToPool DEF RTypeOK, NoCommandIsLost
  <2>3. RTypeOK'
    BY <2>1, <2>2 DEF RTypeOK
  <2>4. NoCommandIsLost'
    BY <1>1, <2>1, <2>2 DEF NoCommandIsLost
  <2>5. PoolsAreRespected'
    BY <2>1, <2>2 DEF PoolsAreRespected, Holding
  <2>6. \A q \in Pool : \A t \in ToSet(delayed'[q]) : PoolName[t] = q
    BY <2>2
  <2> QED
    BY <2>3, <2>4, <2>5, <2>6
<1> QED
  BY <1>2, <1>3

(***************************************************************************)
(* runCommands() moves commands from one list to the next.                 *)
(***************************************************************************)
LEMMA RunCommandsKeepsRInv ==
  ASSUME RInv, RunCommandsReap \/ \E exited \in SUBSET Step : RunCommandsWait(exited)
  PROVE  RInv'
<1>1. /\ running' = running /\ pools' = pools /\ delayed' = delayed
      /\ processes' \cup finished' \cup callbacks' = processes \cup finished \cup callbacks
      /\ processes' \cap (finished' \cup callbacks') = {} /\ finished' \cap callbacks' = {}
  BY DEF RInv, NoCommandIsLost, RunCommandsReap, RunCommandsWait, vars
<1>2. \A p : Holding(p)' = Holding(p)
  BY <1>1 DEF Holding
<1>3. Delayed' = Delayed
  BY <1>1 DEF Delayed
<1>4. RTypeOK'
  BY <1>1 DEF RInv, RTypeOK
<1>5. NoCommandIsLost'
  BY <1>1, <1>3 DEF RInv, NoCommandIsLost
<1>6. PoolsAreRespected'
  BY <1>1, <1>2 DEF RInv, PoolsAreRespected
<1> QED
  BY <1>1, <1>4, <1>5, <1>6 DEF RInv

(***************************************************************************)
(* A callback frees a place, or gives it to the oldest command that waits  *)
(* for one.                                                                *)
(***************************************************************************)
LEMMA CallbackKeepsRInv ==
  ASSUME RInv, NEW s \in callbacks, callbacks' = callbacks \ {s},
         running' = running \ {s}, finished' = finished, releasePool(s)
  PROVE  RInv'
<1> DEFINE p == PoolName[s]
           h == Head(delayed[p])
<1> USE PoolsTyped DEF RInv
<1>0. s \in Step /\ p \in Pool \cup {NoPool} /\ NoPool \notin Pool
  BY DEF RTypeOK
<1>1. s \notin Delayed \cup processes \cup finished
  BY DEF NoCommandIsLost
<1>2. CASE p # NoPool /\ pools[p] = 0 /\ delayed[p] # <<>>
  <2>1. /\ p \in Pool
        /\ processes' = processes \cup {h}
        /\ delayed' = [delayed EXCEPT ![p] = Tail(@)]
        /\ pools' = pools
    BY <1>0, <1>2 DEF releasePool
  <2>2. /\ h \in Step \cap ToSet(delayed[p])
        /\ delayed' \in [Pool -> Seq(Step)]
        /\ Delayed' = Delayed \ {h}
        /\ ToSet(delayed'[p]) = ToSet(delayed[p]) \ {h}
        /\ \A q \in Pool \ {p} : delayed'[q] = delayed[q]
        /\ \A q \in Pool : IsInjective(delayed'[q])
    BY <1>2, <2>1, TakeFromPool DEF RTypeOK, NoCommandIsLost
  <2>3. h \in Delayed /\ PoolName[h] = p
    BY <2>1, <2>2 DEF Delayed
  <2>4. h \notin processes \cup finished \cup callbacks /\ h # s
    BY <1>1, <2>3 DEF NoCommandIsLost
  <2>5. RTypeOK'
    BY <2>1, <2>2 DEF RTypeOK
  <2>6. NoCommandIsLost'
    BY <1>1, <2>1, <2>2, <2>3, <2>4 DEF NoCommandIsLost
  <2>7. ASSUME NEW q \in Pool
        PROVE  /\ pools'[q] + Cardinality(Holding(q)') = PoolDepth[q]
               /\ delayed'[q] # <<>> => pools'[q] = 0
    <3>1. CASE q = p
      <4>1. Holding(q)' = (Holding(q) \ {s}) \cup {h}
        BY <1>1, <2>1, <2>3, <2>4, <3>1 DEF Holding
      <4>2. s \in Holding(q) /\ h \notin Holding(q) \ {s}
        BY <2>4, <3>1 DEF Holding
      <4>3. /\ Holding(q) \in SUBSET Step /\ Cardinality(Holding(q)) \in Nat
            /\ Holding(q) \ {s} \in SUBSET Step
        BY HoldingIsFinite
      <4>4. Cardinality(Holding(q) \ {s}) = Cardinality(Holding(q)) - 1
        BY <4>2, <4>3, StepSetRemove
      <4>5. Cardinality(Holding(q)') = Cardinality(Holding(q) \ {s}) + 1
        BY <4>1, <4>2, <4>3, <2>2, StepSetAdd
      <4> QED
        BY <1>2, <2>1, <3>1, <4>3, <4>4, <4>5 DEF PoolsAreRespected
    <3>2. CASE q # p
      <4>1. Holding(q)' = Holding(q)
        BY <2>1, <2>3, <3>2 DEF Holding
      <4> QED
        BY <2>1, <2>2, <3>2, <4>1 DEF PoolsAreRespected
    <3> QED
      BY <3>1, <3>2
  <2>8. PoolsAreRespected'
    BY <2>7 DEF PoolsAreRespected
  <2>9. \A q \in Pool : \A t \in ToSet(delayed'[q]) : PoolName[t] = q
    BY <2>2
  <2> QED
    BY <2>5, <2>6, <2>8, <2>9
<1>3. CASE ~(p # NoPool /\ pools[p] = 0 /\ delayed[p] # <<>>)
  <2>1. /\ processes' = processes /\ delayed' = delayed
        /\ pools' = IF p = NoPool THEN pools ELSE [pools EXCEPT ![p] = @ + 1]
    BY <1>3 DEF releasePool
  <2>2. p \in Pool => /\ pools[p] \in Nat /\ pools'[p] = pools[p] + 1
                      /\ delayed[p] = <<>>
    BY <1>0, <1>3, <2>1 DEF RTypeOK, PoolsAreRespected
  <2>3. \A q \in Pool \ {p} : pools'[q] = pools[q]
    BY <2>1 DEF RTypeOK
  <2>4. RTypeOK'
    BY <1>0, <2>1, <2>2 DEF RTypeOK
  <2>5. Delayed' = Delayed
    BY <2>1 DEF Delayed
  <2>6. NoCommandIsLost'
    BY <1>1, <2>1, <2>5 DEF NoCommandIsLost
  <2>7. ASSUME NEW q \in Pool
        PROVE  /\ pools'[q] + Cardinality(Holding(q)') = PoolDepth[q]
               /\ delayed'[q] # <<>> => pools'[q] = 0
    <3>1. CASE q = p
      <4>1. Holding(q)' = Holding(q) \ {s} /\ s \in Holding(q)
        BY <1>1, <2>1, <3>1 DEF Holding
      <4>2. Holding(q) \in SUBSET Step /\ Cardinality(Holding(q)) \in Nat
        BY HoldingIsFinite
      <4>3. Cardinality(Holding(q)') = Cardinality(Holding(q)) - 1
        BY <4>1, <4>2, StepSetRemove
      <4>4. pools[q] + Cardinality(Holding(q)) = PoolDepth[q]
        BY DEF PoolsAreRespected
      <4>5. pools'[q] = pools[q] + 1 /\ pools[q] \in Nat /\ delayed'[q] = <<>>
        BY <2>1, <2>2, <3>1
      <4> QED
        BY <4>2, <4>3, <4>4, <4>5
    <3>2. CASE q # p
      <4>1. Holding(q)' = Holding(q)
        BY <2>1, <3>2 DEF Holding
      <4> QED
        BY <2>1, <2>3, <3>2, <4>1 DEF PoolsAreRespected
    <3> QED
      BY <3>1, <3>2
  <2>8. PoolsAreRespected'
    BY <2>7 DEF PoolsAreRespected
  <2> QED
    BY <2>1, <2>4, <2>6, <2>8
<1> QED
  BY <1>2, <1>3

(***************************************************************************)
(* New command runners are empty.                                          *)
(***************************************************************************)
LEMMA EmptyRunnersOK ==
  /\ RunnerInit /\ running = {} => RInv
  /\ RReturn => RInv'
<1> USE PoolsTyped
<1>1. ASSUME RunnerInit, running = {} PROVE RInv
  <2>1. RTypeOK
    BY <1>1, EmptySeq DEF RunnerInit, RTypeOK
  <2>2. \A p \in Pool : ToSet(delayed[p]) = {} /\ IsInjective(delayed[p])
    BY <1>1 DEF RunnerInit, ToSet, IsInjective
  <2>3. NoCommandIsLost
    BY <1>1, <2>2 DEF RunnerInit, NoCommandIsLost, Delayed
  <2>4. \A p : Holding(p) = {}
    BY <1>1 DEF RunnerInit, Holding
  <2>5. \A p \in Pool : /\ pools[p] = PoolDepth[p] /\ PoolDepth[p] \in Nat
                         /\ Cardinality(Holding(p)) = 0 /\ delayed[p] = <<>>
    BY <1>1, <2>4, FS_EmptySet DEF RunnerInit
  <2>6. PoolsAreRespected
    BY <2>5 DEF PoolsAreRespected
  <2> QED
    BY <2>1, <2>2, <2>3, <2>6 DEF RInv
<1>2. ASSUME RReturn PROVE RInv'
  <2>0. /\ pools' = PoolDepth /\ delayed' = [p \in Pool |-> <<>>]
        /\ processes' = {} /\ finished' = {} /\ callbacks' = {} /\ running' = {}
    BY <1>2 DEF RReturn, Return
  <2>1. RTypeOK'
    BY <2>0, EmptySeq DEF RTypeOK
  <2>2. \A p \in Pool : ToSet(delayed'[p]) = {} /\ IsInjective(delayed'[p])
    BY <2>0 DEF ToSet, IsInjective
  <2>3. NoCommandIsLost'
    BY <2>0, <2>2 DEF NoCommandIsLost, Delayed
  <2>4. \A p : Holding(p)' = {}
    BY <2>0 DEF Holding
  <2>5. \A p \in Pool : /\ pools'[p] = PoolDepth[p] /\ PoolDepth[p] \in Nat
                         /\ Cardinality(Holding(p)') = 0 /\ delayed'[p] = <<>>
    BY <2>0, <2>4, FS_EmptySet
  <2>6. PoolsAreRespected'
    BY <2>5 DEF PoolsAreRespected
  <2> QED
    BY <2>1, <2>2, <2>3, <2>6 DEF RInv
<1> QED
  BY <1>1, <1>2

(***************************************************************************)
(* Every step preserves RInv, given what holds of the scheduler.           *)
(***************************************************************************)
LEMMA StepKeepsRInv == IInv /\ RInv /\ [RNext]_allVars => RInv'
<1> SUFFICES ASSUME IInv, RInv, [RNext]_allVars PROVE RInv'
  OBVIOUS
<1>1. ASSUME NEW i \in Scenario, RConstruct(i) PROVE RInv'
  BY <1>1, RunnersUntouched DEF RConstruct, Construct
<1>2. CASE RDiscard
  BY <1>2, RunnersUntouched DEF RDiscard, DiscardStep, DiscardEnd
<1>3. ASSUME NEW s \in Step, RBypass(s) PROVE RInv'
  BY <1>3, RunnersUntouched DEF RBypass, BypassCommand
<1>4. ASSUME NEW s \in Step, RInvoke(s) PROVE RInv'
  <2>1. s \notin running /\ running' = running \cup {s}
    BY <1>4 DEF RInvoke, InvokeCommand, IInv, Partition
  <2> QED
    BY <1>4, <2>1, InvokeKeepsRInv DEF RInvoke
<1>5. CASE REnqueueEnd
  BY <1>5, RunnersUntouched DEF REnqueueEnd, StopEnqueueing
<1>6. CASE RunCommandsReap \/ \E exited \in SUBSET Step : RunCommandsWait(exited)
  BY <1>6, RunCommandsKeepsRInv
<1>7. ASSUME NEW s \in Step, NEW e \in ExitStatus, RunCommandsCallback(s, e) PROVE RInv'
  BY <1>7, CallbackKeepsRInv DEF RunCommandsCallback, CommandDone
<1>8. CASE RFinish \/ RInterrupt \/ RThrow
  BY <1>8, RunnersUntouched DEF RFinish, RInterrupt, RThrow, Interrupt, Throw, Returns
<1>9. CASE RReturn
  BY <1>9, EmptyRunnersOK
<1>10. CASE UNCHANGED allVars
  BY <1>10, RunnersUntouched DEF allVars, vars
<1> QED
  BY <1>1, <1>2, <1>3, <1>4, <1>5, <1>6, <1>7, <1>8, <1>9, <1>10 DEF RNext, RWork

(***************************************************************************)
(* When no command is in the runners build() waits for none, and while     *)
(* size() is positive it waits for one.                                    *)
(***************************************************************************)
LEMMA SizeIsRunning ==
  ASSUME RInv
  PROVE  /\ size # 0 => running # {}
         /\ size = 0 /\ callbacks = {} /\ (\A p \in Pool : delayed[p] = <<>>) => running = {}
<1>1. /\ processes \in SUBSET Step /\ finished \in SUBSET Step
      /\ Cardinality(processes) \in Nat /\ Cardinality(finished) \in Nat
      /\ Cardinality(processes) = 0 <=> processes = {}
      /\ Cardinality(finished) = 0 <=> finished = {}
  BY StepSetCard DEF RInv, RTypeOK
<1>2. size = 0 <=> processes = {} /\ finished = {}
  BY <1>1 DEF size
<1>3. (\A p \in Pool : delayed[p] = <<>>) => Delayed = {}
  BY DEF Delayed, ToSet
<1> QED
  BY <1>2, <1>3 DEF RInv, NoCommandIsLost

(***************************************************************************)
(* Every step of build() with the command runners is a step of Build, or   *)
(* one that build() does not notice.                                       *)
(***************************************************************************)
LEMMA StepImplementsBuild == RInv /\ [RNext]_allVars => [Next]_vars
<1> SUFFICES ASSUME RInv, [RNext]_allVars PROVE [Next]_vars
  OBVIOUS
<1>1. ASSUME NEW i \in Scenario, RConstruct(i) PROVE Next
  BY <1>1 DEF RConstruct, Next
<1>2. CASE RDiscard
  BY <1>2 DEF RDiscard, Next, Work
<1>3. ASSUME NEW s \in Step, RBypass(s) PROVE Next
  BY <1>3 DEF RBypass, Next, Work
<1>4. ASSUME NEW s \in Step, RInvoke(s) PROVE Next
  BY <1>4 DEF RInvoke, Next, Work
<1>5. CASE REnqueueEnd
  <2>1. mayNotRunMore => running # {}
    BY SizeIsRunning, PoolsTyped DEF mayNotRunMore, size, RInv, RTypeOK
  <2>2. EnqueueEnd
    BY <1>5, <2>1 DEF REnqueueEnd, EnqueueEnd, StopEnqueueing
  <2> QED
    BY <2>2 DEF Next, Work
<1>6. CASE RunCommandsReap \/ \E exited \in SUBSET Step : RunCommandsWait(exited)
  BY <1>6 DEF RunCommandsReap, RunCommandsWait
<1>7. ASSUME NEW s \in Step, NEW e \in ExitStatus, RunCommandsCallback(s, e) PROVE Next
  BY <1>7 DEF RunCommandsCallback, Next, Work
<1>8. CASE RFinish
  <2>1. Finish
    BY <1>8, SizeIsRunning DEF RFinish, Finish
  <2> QED
    BY <2>1 DEF Next, Work
<1>9. CASE RInterrupt \/ RThrow \/ RReturn
  BY <1>9 DEF RInterrupt, RThrow, RReturn, Next
<1>10. CASE UNCHANGED allVars
  BY <1>10 DEF allVars
<1> QED
  BY <1>1, <1>2, <1>3, <1>4, <1>5, <1>6, <1>7, <1>8, <1>9, <1>10 DEF RNext, RWork

(***************************************************************************)
(* RInv is an inductive invariant of build() with the command runners,     *)
(* together with the inductive invariant of the scheduler.                 *)
(***************************************************************************)
THEOREM RunnersInductive == RSpec => [](IInv /\ RInv)
<1>1. RInit => IInv /\ RInv
  BY EmptyBuildOK, EmptyRunnersOK DEF RInit, Init
<1>2. IInv /\ RInv /\ [RNext]_allVars => IInv' /\ RInv'
  BY StepKeepsRInv, StepImplementsBuild, StepKeepsIInv
<1> QED
  BY <1>1, <1>2, PTL DEF RSpec

(***************************************************************************)
(* No command that build() handed over is lost, or called back twice.      *)
(***************************************************************************)
THEOREM NoCommandIsLostCorrect == RSpec => []NoCommandIsLost
<1>1. RInv => NoCommandIsLost
  BY DEF RInv
<1> QED
  BY <1>1, RunnersInductive, PTL

(***************************************************************************)
(* The depths of the pools are respected, and commands are delayed only    *)
(* while their pool is exhausted.                                          *)
(***************************************************************************)
THEOREM PoolsAreRespectedCorrect == RSpec => []PoolsAreRespected
<1>1. RInv => PoolsAreRespected
  BY DEF RInv
<1> QED
  BY <1>1, RunnersInductive, PTL

(***************************************************************************)
(* The pools, the limits and the subprocesses implement the command runner *)
(* that Build assumes: whatever holds of all behaviours of Build holds of  *)
(* build() with them.                                                      *)
(***************************************************************************)
THEOREM RunnersImplementBuild == RSpec => BuildSpec
<1>1. RInit => Init
  BY DEF RInit
<1> QED
  BY <1>1, RunnersInductive, StepImplementsBuild, PTL DEF RSpec, BuildSpec, Spec

(***************************************************************************)
(* A build that reports success has built or skipped every step the        *)
(* targets need, with the command runners in place.                        *)
(***************************************************************************)
THEOREM RunnersSuccessCorrect == RSpec => []SuccessIsComplete
BY RunnersImplementBuild, SuccessCorrect DEF BuildSpec
=============================================================================

------------------------- MODULE SubprocessesProofs -------------------------
(***************************************************************************)
(* SubprocessSet for any commands, programs, pipe sizes and signals: what  *)
(* is called back is whole, no shell is left behind, and what build() sees *)
(* is what command_runner.h promises.                                      *)
(***************************************************************************)
EXTENDS Subprocesses, TLAPS

(* The elements of a list. *)

\* Append adds its element.
LEMMA ElementsOfAppend ==
  ASSUME NEW D, NEW s \in Seq(D), NEW e \in D
  PROVE  Append(s, e) \in Seq(D) /\ Range(Append(s, e)) = Range(s) \cup {e}
<1>1. DOMAIN Append(s, e) = 1..(Len(s) + 1) /\ DOMAIN s = 1..Len(s)
  OBVIOUS
<1>2. \A i \in 1..(Len(s) + 1) : Append(s, e)[i] = IF i = Len(s) + 1 THEN e ELSE s[i]
  OBVIOUS
<1>3. Range(Append(s, e)) \subseteq Range(s) \cup {e}
  BY <1>1, <1>2 DEF Range
<1>4. \A i \in 1..Len(s) : i \in 1..(Len(s) + 1) /\ Append(s, e)[i] = s[i]
  BY <1>2
<1>5. Range(s) \subseteq Range(Append(s, e))
  BY <1>1, <1>4 DEF Range
<1>6. e \in Range(Append(s, e))
  BY <1>1, <1>2 DEF Range
<1> QED BY <1>3, <1>5, <1>6

\* Concatenation has the elements of both lists.
LEMMA ElementsOfConcatenation ==
  ASSUME NEW D, NEW s \in Seq(D), NEW t \in Seq(D)
  PROVE  s \o t \in Seq(D) /\ Range(s \o t) = Range(s) \cup Range(t)
<1>1. /\ DOMAIN (s \o t) = 1..(Len(s) + Len(t))
      /\ DOMAIN s = 1..Len(s) /\ DOMAIN t = 1..Len(t)
      /\ Len(s) \in Nat /\ Len(t) \in Nat
  OBVIOUS
<1>2. \A i \in 1..(Len(s) + Len(t)) :
        (s \o t)[i] = IF i <= Len(s) THEN s[i] ELSE t[i - Len(s)]
  OBVIOUS
<1>3. Range(s \o t) \subseteq Range(s) \cup Range(t)
  <2> SUFFICES ASSUME NEW i \in 1..(Len(s) + Len(t))
               PROVE  (s \o t)[i] \in Range(s) \cup Range(t)
    BY <1>1 DEF Range
  <2>1. CASE i <= Len(s)
    <3>1. i \in DOMAIN s /\ (s \o t)[i] = s[i]
      BY <1>1, <1>2, <2>1
    <3> QED BY <3>1 DEF Range
  <2>2. CASE ~(i <= Len(s))
    <3>1. i - Len(s) \in DOMAIN t /\ (s \o t)[i] = t[i - Len(s)]
      BY <1>1, <1>2, <2>2
    <3> QED BY <3>1 DEF Range
  <2> QED BY <2>1, <2>2
<1>4. Range(s) \subseteq Range(s \o t)
  <2> SUFFICES ASSUME NEW i \in 1..Len(s) PROVE s[i] \in Range(s \o t)
    BY <1>1 DEF Range
  <2>1. i \in 1..(Len(s) + Len(t)) /\ (s \o t)[i] = s[i]
    BY <1>1, <1>2
  <2> QED BY <1>1, <2>1 DEF Range
<1>5. Range(t) \subseteq Range(s \o t)
  <2> SUFFICES ASSUME NEW i \in 1..Len(t) PROVE t[i] \in Range(s \o t)
    BY <1>1 DEF Range
  <2>1. i + Len(s) \in 1..(Len(s) + Len(t)) /\ (s \o t)[i + Len(s)] = t[i]
    BY <1>1, <1>2
  <2> QED BY <1>1, <2>1 DEF Range
<1> QED BY <1>3, <1>4, <1>5

\* A list is its head and its tail.
LEMMA ElementsOfTail ==
  ASSUME NEW D, NEW s \in Seq(D), s # <<>>
  PROVE  /\ Tail(s) \in Seq(D) /\ Head(s) \in D
         /\ Range(s) = {Head(s)} \cup Range(Tail(s))
<1>1. /\ DOMAIN s = 1..Len(s) /\ DOMAIN Tail(s) = 1..(Len(s) - 1)
      /\ Len(s) \in Nat /\ Len(s) # 0
      /\ Head(s) = s[1]
  OBVIOUS
<1>2. \A i \in 1..(Len(s) - 1) : Tail(s)[i] = s[i + 1]
  OBVIOUS
<1>3. Range(s) \subseteq {Head(s)} \cup Range(Tail(s))
  <2> SUFFICES ASSUME NEW i \in 1..Len(s), i # 1 PROVE s[i] \in Range(Tail(s))
    BY <1>1 DEF Range
  <2>1. i - 1 \in 1..(Len(s) - 1) /\ Tail(s)[i - 1] = s[i]
    BY <1>1, <1>2
  <2> QED BY Zenon, <1>1, <2>1 DEF Range
<1>4. Range(Tail(s)) \subseteq Range(s)
  <2> SUFFICES ASSUME NEW i \in 1..(Len(s) - 1) PROVE Tail(s)[i] \in Range(s)
    BY <1>1 DEF Range
  <2>1. i + 1 \in 1..Len(s)
    BY <1>1
  <2> QED BY <1>1, <1>2, <2>1 DEF Range
<1>5. Head(s) \in Range(s)
  BY <1>1 DEF Range
<1> QED BY <1>1, <1>3, <1>4, <1>5

\* The empty list has none.
LEMMA ElementsOfEmpty == Range(<<>>) = {}
  BY DEF Range

\* The elements are what the list is a list of.
LEMMA ElementsAreTyped ==
  ASSUME NEW D, NEW s \in Seq(D)
  PROVE  Range(s) \subseteq D
  BY DEF Range

\* The list that Those returns holds the members of S that are in the list s.
\* LoopInduction below discharges the hypothesis about its loop.
LEMMA ThoseSelects ==
  ASSUME Selecting!Induction, NEW D, NEW s \in Seq(D), NEW S
  PROVE  /\ Those(s, S) \in Seq(D)
         /\ Range(Those(s, S)) = Range(s) \cap S
<1> DEFINE T == {t \in Seq(D) : /\ Those(t, S) \in Seq(D)
                                /\ Range(Those(t, S)) = Range(t) \cap S}
<1>1. <<>> \in T
  <2>1. Those(<<>>, S) = <<>>
    BY Selecting!FoldedEmpty DEF Those
  <2> DEFINE none == <<>>
  <2>2. none \in Seq(D) /\ Range(none) = {} /\ Those(none, S) = none
    BY <2>1, ElementsOfEmpty
  <2> HIDE DEF Those, none
  <2>3. none \in T
    BY <2>2
  <2> QED BY <2>3 DEF none
<1>2. ASSUME NEW t \in Seq(D), NEW c \in D, t \in T PROVE Append(t, c) \in T
  <2>1. Those(Append(t, c), S) = Kept(S, Those(t, S), c)
    BY Selecting!FoldedAppend DEF Those
  <2>2. Those(t, S) \in Seq(D) /\ Range(Those(t, S)) = Range(t) \cap S
    BY <1>2
  <2>3. Append(t, c) \in Seq(D) /\ Range(Append(t, c)) = Range(t) \cup {c}
    BY ElementsOfAppend
  <2>4. /\ Append(Those(t, S), c) \in Seq(D)
        /\ Range(Append(Those(t, S), c)) = Range(Those(t, S)) \cup {c}
    BY <2>2, ElementsOfAppend
  <2> HIDE DEF Those
  <2>5. CASE c \in S
    BY Zenon, <2>1, <2>2, <2>3, <2>4, <2>5 DEF Kept
  <2>6. CASE c \notin S
    BY <2>1, <2>2, <2>3, <2>6 DEF Kept
  <2> QED BY <2>5, <2>6
<1>3. Seq(D) \subseteq T
  <2> HIDE DEF T
  <2> QED BY <1>1, <1>2, Selecting!ListInduction
<1> QED BY <1>3

-----------------------------------------------------------------------------
\* The numbers up to n, in their order, and one more.
LEMMA CountedGrows ==
  ASSUME NEW n \in Nat
  PROVE  Counted(n) \in Seq(Nat) /\ Append(Counted(n), n + 1) = Counted(n + 1)
<1>1. Counted(n) \in Seq(Nat) /\ Len(Counted(n)) = n
  BY DEF Counted
<1>2. Counted(n + 1) \in Seq(Nat) /\ Len(Counted(n + 1)) = n + 1
  BY DEF Counted
<1>3. \A i \in 1..(n + 1) : Append(Counted(n), n + 1)[i] = Counted(n + 1)[i]
  BY <1>1 DEF Counted
<1>4. Append(Counted(n), n + 1) \in Seq(Nat) /\ Len(Append(Counted(n), n + 1)) = n + 1
  BY <1>1
<1> DEFINE longer == Append(Counted(n), n + 1)
           counted == Counted(n + 1)
<1>5. /\ longer \in Seq(Nat) /\ Len(longer) = n + 1
      /\ counted \in Seq(Nat) /\ Len(counted) = n + 1
      /\ \A i \in 1..(n + 1) : longer[i] = counted[i]
  BY <1>2, <1>3, <1>4
<1> HIDE DEF longer, counted
<1>6. longer = counted
  BY <1>5
<1> QED BY <1>1, <1>6 DEF longer, counted

\* A chunk that is written comes after what the buffer and the pipe hold.
LEMMA WriteJoins ==
  ASSUME NEW b \in Seq(Nat), NEW p \in Seq(Nat), NEW e \in Nat
  PROVE  b \o Append(p, e) = Append(b \o p, e)
<1>1. b \o Append(p, e) \in Seq(Nat) /\ Append(b \o p, e) \in Seq(Nat)
  OBVIOUS
<1>2. Len(b \o Append(p, e)) = Len(Append(b \o p, e))
  OBVIOUS
<1>3. \A i \in 1..Len(b \o Append(p, e)) : (b \o Append(p, e))[i] = Append(b \o p, e)[i]
  OBVIOUS
<1> QED BY <1>1, <1>2, <1>3

\* onPipeReady() moves a chunk from the pipe to the buffer, whose order stays.
LEMMA ReadJoins ==
  ASSUME NEW b \in Seq(Nat), NEW p \in Seq(Nat), p # <<>>
  PROVE  (b \o <<Head(p)>>) \o Tail(p) = b \o p
<1>1. (b \o <<Head(p)>>) \o Tail(p) \in Seq(Nat) /\ b \o p \in Seq(Nat)
  OBVIOUS
<1>2. Len((b \o <<Head(p)>>) \o Tail(p)) = Len(b \o p)
  OBVIOUS
<1>3. \A i \in 1..Len(b \o p) : ((b \o <<Head(p)>>) \o Tail(p))[i] = (b \o p)[i]
  OBVIOUS
<1> QED BY <1>1, <1>2, <1>3

-----------------------------------------------------------------------------
\* Nothing runs when build() starts.
LEMMA SubprocessesInitially == Init => SubprocessesInv
<1> SUFFICES ASSUME Init PROVE SubprocessesInv
  OBVIOUS
<1>1. TypeOK
  BY SubprocessesAssumption DEF Init, TypeOK, Phases, Child, NoChild, Reported, Interrupting
<1>2. ProcessesInv /\ OutputInv
  BY DEF Init, ProcessesInv, OutputInv, NoChild
<1>3. ListsInv /\ ClosedInv /\ ReadyInv /\ PhaseInv
  BY ElementsOfEmpty DEF Init, ListsInv, ClosedInv, ReadyInv, PhaseInv, NoChild
<1>4. ReportedInv /\ ResultsAreWhole
  BY DEF Init, ReportedInv, ResultsAreWhole, Reported
<1> QED BY <1>1, <1>2, <1>3, <1>4 DEF SubprocessesInv

\* What the processes of a command may do without shk: they do not come back to
\* life and do not open the pipe again.
Moved(k, l) ==
  /\ l.pipe = k.pipe /\ l.written = k.written /\ l.writers \subseteq k.writers
  /\ l.shell = k.shell \/ (k.shell = "running" /\ l.shell = "zombie")
  /\ k.shell # "running" => l.code = k.code
  /\ "left" \in l.writers <=> l.left = "running"
  /\ "shell" \in l.writers => l.shell = "running"

\* Ends and signals move the processes of a command so.
LEMMA EndedMoves ==
  ASSUME TypeOK, ProcessesInv, NEW c \in Command,
         NEW code \in {"success", "failure", "PIPE"} \cup Interrupting
  PROVE  /\ child[c].shell = "running" =>
              /\ Ended(child[c], "shell", code) \in Child
              /\ Moved(child[c], Ended(child[c], "shell", code))
         /\ child[c].left = "running" =>
              /\ Ended(child[c], "left", code) \in Child
              /\ Moved(child[c], Ended(child[c], "left", code))
         /\ code \in Interrupting =>
              Signalled(c, code) \in Child /\ Moved(child[c], Signalled(c, code))
<1>1. /\ child[c] \in Child
      /\ "left" \in child[c].writers <=> child[c].left = "running"
      /\ "shell" \in child[c].writers => child[c].shell = "running"
  BY DEF TypeOK, ProcessesInv
<1>2. Moved(child[c], child[c])
  BY <1>1 DEF Moved
<1>3. ASSUME NEW k \in Child, Moved(child[c], k), k.left = "running"
      PROVE  Ended(k, "left", code) \in Child /\ Moved(child[c], Ended(k, "left", code))
  BY Zenon, <1>1, <1>3 DEF Ended, Child, Moved
<1>4. ASSUME child[c].shell = "running"
      PROVE  /\ Ended(child[c], "shell", code) \in Child
             /\ Moved(child[c], Ended(child[c], "shell", code))
             /\ Ended(child[c], "shell", code).left = child[c].left
  BY ZenonT(30), <1>1, <1>4 DEF Ended, Child, Moved
<1>5. ASSUME code \in Interrupting
      PROVE  Signalled(c, code) \in Child /\ Moved(child[c], Signalled(c, code))
  BY <1>1, <1>2, <1>3, <1>4 DEF Signalled
<1> QED BY <1>1, <1>2, <1>3, <1>4, <1>5

\* Processes that move so, and signals that arrive, keep the invariant.
LEMMA KernelKeeps ==
  ASSUME SubprocessesInv, UNCHANGED <<program, shk>>,
         child' \in [Command -> Child], \A c \in Command : Moved(child[c], child'[c]),
         pending' \in SUBSET Interrupting, signals' \in Nat,
         pending' # {} => signals' > 0
  PROVE  SubprocessesInv'
<1> USE DEF SubprocessesInv
<1> USE DEF shk
<1>1. TypeOK'
  BY DEF TypeOK, Reported
<1>2. ProcessesInv'
  BY DEF ProcessesInv, Moved
<1>3. OutputInv'
  BY Zenon DEF OutputInv, Moved
<1>4. \A c \in Command : Collected(c) => Collected(c)'
  BY DEF Collected, Moved
<1>5. ListsInv'
  BY Zenon, <1>4, ElementsAreTyped DEF ListsInv, Moved, TypeOK
<1>6. ReadyInv'
  BY Zenon DEF ReadyInv, Readable, Moved, TypeOK
<1>7. ClosedInv' /\ PhaseInv'
  BY DEF ClosedInv, PhaseInv
<1>8. ReportedInv' /\ ResultsAreWhole'
  <2>1. Reported' = Reported /\ Reported \subseteq Command /\ results' = results
    BY DEF TypeOK, Reported
  <2>2. \A c \in Reported :
          /\ child'[c].shell = "reaped" /\ child'[c].code = child[c].code
          /\ child'[c].written = child[c].written /\ child'[c].writers = {}
    BY Zenon, <2>1 DEF ReportedInv, ResultsAreWhole, Moved
  <2> QED BY <2>1, <2>2 DEF ReportedInv, ResultsAreWhole
<1> QED BY <1>1, <1>2, <1>3, <1>4, <1>5, <1>6, <1>7, <1>8

\* A process writes to its pipe.
LEMMA WriteKeeps ==
  ASSUME SubprocessesInv, NEW c \in Command, Write(c)
  PROVE  SubprocessesInv'
<1> USE DEF SubprocessesInv
<1> DEFINE n == child[c].written + 1
           k == [child[c] EXCEPT !.written = n, !.pipe = Append(@, n)]
<1>1. /\ UNCHANGED <<program, shk, pending, signals>>
      /\ child' = [child EXCEPT ![c] = k]
      /\ fd[c] = "open" /\ child[c].writers # {}
  BY DEF Write, Steps
<1>2. child[c] \in Child /\ n \in Nat /\ k \in Child
  <2>1. child[c] \in Child
    BY DEF TypeOK
  <2>2. n \in Nat /\ Append(child[c].pipe, n) \in Seq(Nat)
    BY <2>1 DEF Child
  <2> QED BY Zenon, <2>1, <2>2 DEF Child
<1>3. /\ k.shell = child[c].shell /\ k.left = child[c].left /\ k.code = child[c].code
      /\ k.writers = child[c].writers
      /\ k.written = child[c].written + 1 /\ k.pipe = Append(child[c].pipe, n)
  BY <1>2 DEF Child
<1> HIDE DEF k
<1>4. /\ child'[c] = k
      /\ \A d \in Command : d # c => child'[d] = child[d]
  BY <1>1 DEF TypeOK
<1> USE DEF shk
<1>5. TypeOK'
  BY <1>1, <1>2 DEF TypeOK, Reported
<1>6. ProcessesInv'
  BY <1>1, <1>3, <1>4 DEF ProcessesInv
<1>7. OutputInv'
  <2>1. buf[c] \in Seq(Nat) /\ child[c].pipe \in Seq(Nat) /\ child[c].written \in Nat
    BY <1>2 DEF TypeOK, Child
  <2>2. buf[c] \o child[c].pipe = Counted(child[c].written)
    BY Zenon, <1>1 DEF OutputInv
  <2>3. buf[c] \o Append(child[c].pipe, n) = Append(Counted(child[c].written), n)
    <3> HIDE DEF n
    <3>1. \A b, q \in Seq(Nat) : b \o Append(q, n) = Append(b \o q, n)
      BY <1>2, WriteJoins
    <3>2. buf[c] \o Append(child[c].pipe, n) = Append(buf[c] \o child[c].pipe, n)
      BY Zenon, <2>1, <3>1
    <3> QED BY <2>2, <3>2
  <2>4. Append(Counted(child[c].written), n) = Counted(n)
    BY Zenon, <2>1, CountedGrows
  <2> HIDE DEF n
  <2>5. k.written = n
    BY <1>3 DEF n
  <2> QED BY Zenon, <1>1, <1>3, <1>4, <2>3, <2>4, <2>5 DEF OutputInv
<1>8. \A d \in Command : Collected(d) => d # c /\ Collected(d)'
  BY <1>1, <1>4 DEF Collected
<1>9. ListsInv'
  BY <1>1, <1>3, <1>4, <1>8, ElementsAreTyped DEF ListsInv, TypeOK
<1>10. ReadyInv'
  <2>1. k.pipe # <<>>
    BY <1>2, <1>3 DEF Child
  <2> QED BY <1>1, <1>3, <1>4, <2>1 DEF ReadyInv, Readable, TypeOK
<1>11. ClosedInv' /\ PhaseInv'
  BY <1>1 DEF ClosedInv, PhaseInv
<1>12. ReportedInv' /\ ResultsAreWhole'
  BY ZenonT(30), <1>1, <1>3, <1>4 DEF ReportedInv, ResultsAreWhole, Reported, TypeOK
<1> QED BY <1>5, <1>6, <1>7, <1>9, <1>10, <1>11, <1>12

\* The other steps of the processes, and a signal.
LEMMA ProcessesKeep ==
  ASSUME SubprocessesInv,
         \/ \E c \in Command : CloseOutput(c) \/ Ends(c)
         \/ \E s \in Sent : Interrupt(s)
  PROVE  SubprocessesInv'
<1> USE DEF SubprocessesInv
<1>1. ASSUME NEW c \in Command, NEW k \in Child, Moved(child[c], k), Steps(c, k)
      PROVE  SubprocessesInv'
  <2>1. /\ UNCHANGED <<program, shk, pending, signals>>
        /\ child' = [child EXCEPT ![c] = k]
    BY <1>1 DEF Steps
  <2>2. \A d \in Command : Moved(child[d], child[d])
    BY DEF Moved, ProcessesInv
  <2>3. child' \in [Command -> Child] /\ \A d \in Command : Moved(child[d], child'[d])
    BY <1>1, <2>1, <2>2 DEF TypeOK
  <2> QED BY Zenon, <2>1, <2>3, KernelKeeps DEF TypeOK, PhaseInv
<1>2. ASSUME NEW c \in Command, CloseOutput(c) PROVE SubprocessesInv'
  <2> DEFINE k == [child[c] EXCEPT !.writers = @ \ {"shell"}]
  <2>1. child[c] \in Child
    BY DEF TypeOK
  <2>2. k \in Child /\ Moved(child[c], k)
    BY <2>1 DEF Child, Moved, ProcessesInv
  <2> QED BY <1>1, <1>2, <2>2 DEF CloseOutput
<1>3. ASSUME NEW c \in Command, NEW who \in {"shell", "left"}, BrokenPipe(c, who)
      PROVE  SubprocessesInv'
  <2>1. IF who = "shell" THEN child[c].shell = "running" ELSE child[c].left = "running"
    BY <1>3 DEF BrokenPipe, ProcessesInv
  <2>2. Ended(child[c], who, "PIPE") \in Child /\ Moved(child[c], Ended(child[c], who, "PIPE"))
    BY <2>1, EndedMoves
  <2> QED BY <1>1, <1>3, <2>2 DEF BrokenPipe
<1>4. ASSUME NEW c \in Command, NEW who \in {"shell", "left"}, Exit(c, who)
      PROVE  SubprocessesInv'
  <2>1. program[c].exit \in {"success", "failure"}
    BY DEF TypeOK, Program
  <2>2. /\ Ended(child[c], who, program[c].exit) \in Child
        /\ Moved(child[c], Ended(child[c], who, program[c].exit))
    BY <1>4, <2>1, EndedMoves DEF Exit
  <2> QED BY <1>1, <1>4, <2>2 DEF Exit
<1>5. ASSUME NEW s \in Sent, Interrupt(s) PROVE SubprocessesInv'
  <2>1. s \in Interrupting
    BY SubprocessesAssumption
  <2>2. \A d \in Command : /\ child[d] \in Child /\ Moved(child[d], child[d])
                           /\ Signalled(d, s) \in Child /\ Moved(child[d], Signalled(d, s))
    <3>1. \A d \in Command : child[d] \in Child /\ Moved(child[d], child[d])
      BY DEF TypeOK, ProcessesInv, Moved
    <3>2. \A d \in Command : Signalled(d, s) \in Child /\ Moved(child[d], Signalled(d, s))
      BY Zenon, <2>1, EndedMoves
    <3> QED BY <3>1, <3>2
  <2>3. /\ UNCHANGED <<program, shk>>
        /\ signals' = signals + 1 /\ pending' = pending \cup {s}
    BY <1>5 DEF Interrupt
  <2>4. child' \in [Command -> Child] /\ \A d \in Command : Moved(child[d], child'[d])
    <3>1. PICK toGroup \in BOOLEAN :
            child' = [c \in Command |-> IF toGroup /\ program[c].console
                                        THEN Signalled(c, s) ELSE child[c]]
      BY <1>5 DEF Interrupt
    <3> QED BY <2>2, <3>1
  <2>5. pending' \in SUBSET Interrupting /\ signals' \in Nat /\ signals' > 0
    BY <2>1, <2>3 DEF TypeOK
  <2> QED BY <2>3, <2>4, <2>5, KernelKeeps
<1> QED BY <1>2, <1>3, <1>4, <1>5 DEF Ends

-----------------------------------------------------------------------------
\* invoke(): the new subprocess is in none of the lists yet.
LEMMA InvokeKeeps ==
  ASSUME SubprocessesInv, NEW c \in Command, invoke(c)
  PROVE  SubprocessesInv'
<1> USE DEF SubprocessesInv
<1>1. /\ phase \in {"filling", "callback"} /\ fd[c] = "none"
      /\ fd' = [fd EXCEPT ![c] = "open"]
      /\ child' = [child EXCEPT ![c] = Spawned(c)]
      /\ running' = Append(running, c)
      /\ UNCHANGED <<program, phase, finished, todo, buf, ready, interrupted, results,
                     pending, signals>>
  BY DEF invoke
<1>2. /\ Spawned(c) \in Child
      /\ Spawned(c).shell = "running" /\ Spawned(c).pipe = <<>> /\ Spawned(c).written = 0
      /\ "left" \in Spawned(c).writers <=> Spawned(c).left = "running"
  <2>1. NoChild \in Child /\ NoChild.pipe = <<>> /\ NoChild.written = 0
    BY DEF NoChild, Child
  <2>2. PICK l, w : /\ l = IF Is(c, "leaves") THEN "running" ELSE "none"
                    /\ w = {"shell"} \cup IF Is(c, "leaves") THEN {"left"} ELSE {}
    BY Zenon
  <2>3. /\ l \in {"none", "running"} /\ w \in SUBSET {"shell", "left"}
        /\ "left" \in w <=> l = "running"
    BY <2>2
  <2>4. Spawned(c) = [NoChild EXCEPT !.shell = "running", !.left = l, !.writers = w]
    BY <2>2 DEF Spawned
  <2>5. /\ Spawned(c) \in Child /\ Spawned(c).shell = "running"
        /\ Spawned(c).pipe = NoChild.pipe /\ Spawned(c).written = NoChild.written
        /\ Spawned(c).left = l /\ Spawned(c).writers = w
    BY Zenon, <2>1, <2>3, <2>4 DEF Child
  <2> QED BY <2>1, <2>3, <2>5
<1>3. running' \in Seq(Command) /\ Range(running') = Range(running) \cup {c}
  BY <1>1, ElementsOfAppend DEF TypeOK
<1>4. /\ fd'[c] = "open" /\ child'[c] = Spawned(c)
      /\ \A d \in Command : d # c => fd'[d] = fd[d] /\ child'[d] = child[d]
  BY <1>1 DEF TypeOK
<1> HIDE DEF Spawned
<1>5. TypeOK'
  BY <1>1, <1>2, <1>3 DEF TypeOK, Reported
<1>6. ProcessesInv'
  BY <1>1, <1>2, <1>4 DEF ProcessesInv
<1>7. OutputInv'
  <2>1. buf[c] = <<>>
    BY <1>1 DEF ProcessesInv
  <2>2. <<>> \o <<>> = Counted(0)
    BY DEF Counted
  <2> QED BY Zenon, <1>1, <1>2, <1>4, <2>1, <2>2 DEF OutputInv
<1>8. child[c].shell = "none"
  BY <1>1 DEF ProcessesInv
<1>9. \A d \in Command : Collected(d) => d # c /\ Collected(d)'
  BY <1>1, <1>4 DEF Collected
<1>10. finished = <<>> /\ ready = {}
  BY <1>1 DEF PhaseInv, ReadyInv
<1>11. ListsInv'
  <2>1. Range(running) \subseteq Command /\ Range(todo) \subseteq Command
    BY ElementsAreTyped DEF TypeOK
  <2>2. \A d \in Command : child'[d].shell \in {"running", "zombie"} =>
          d \in Range(running') \cup Range(finished') \cup Range(todo')
    BY <1>1, <1>3, <1>4 DEF ListsInv
  <2>3. \A d \in Range(running') : fd'[d] = "open"
    BY <1>3, <1>4, <2>1 DEF ListsInv
  <2>4. Range(finished') = {}
    BY <1>1, <1>10, ElementsOfEmpty
  <2>5. ASSUME phase' \in {"reaping", "callback"}, NEW d \in Range(todo'),
               child'[d].shell # "reaped"
        PROVE  Collected(d)'
    <3>1. d \in Range(todo) /\ phase \in {"reaping", "callback"}
      BY <1>1, <2>5
    <3>2. d = c => Collected(d)
      BY <1>8, <3>1 DEF ListsInv
    <3>3. d # c => Collected(d)
      BY <1>4, <2>1, <2>5, <3>1 DEF ListsInv
    <3> QED BY <1>9, <2>1, <3>1, <3>2, <3>3
  <2> QED BY <2>2, <2>3, <2>4, <2>5 DEF ListsInv
<1>12. ReadyInv' /\ PhaseInv'
  BY <1>1, <1>10 DEF ReadyInv, PhaseInv
<1>14. ClosedInv'
  <2>1. \A d \in Command : fd[d] = "closed" => fd'[d] = "closed"
    BY <1>1, <1>4
  <2>2. Range(finished) \subseteq Command /\ Range(todo) \subseteq Command
    BY ElementsAreTyped DEF TypeOK
  <2> QED BY <1>1, <2>1, <2>2 DEF ClosedInv
<1>13. ReportedInv' /\ ResultsAreWhole'
  BY ZenonT(30), <1>1, <1>4, <1>8 DEF ReportedInv, ResultsAreWhole, Reported, TypeOK
<1> QED BY <1>5, <1>6, <1>7, <1>11, <1>12, <1>13, <1>14

\* Steps that only move shk on, or put the lists away as they are.
LEMMA MovingOnKeeps ==
  ASSUME SubprocessesInv,
         \/ \E c \in Command : startFails(c)
         \/ Loop \/ CallbackEnds(TRUE) \/ CallbackEnds(FALSE)
         \/ poll \/ unwound \/ restoreSignals \/ End
  PROVE  SubprocessesInv'
<1> USE DEF SubprocessesInv
<1>1. /\ UNCHANGED <<program, running, fd, buf, ready, results, kernel>>
      /\ phase' \in Phases
      /\ \/ UNCHANGED <<finished, todo>>
         \/ todo = <<>> /\ todo' = finished /\ finished' = <<>>
  BY DEF startFails, Loop, CallbackEnds, poll, unwound, restoreSignals, End, PhaseInv, Phases
<1>2. interrupted' \in {interrupted, "none"}
  BY DEF startFails, Loop, CallbackEnds, poll, unwound, restoreSignals, End
<1> USE DEF kernel
<1>3. TypeOK'
  BY <1>1, <1>2 DEF TypeOK, Reported
<1>4. ProcessesInv' /\ OutputInv' /\ ReportedInv' /\ ResultsAreWhole'
  BY Zenon, <1>1 DEF ProcessesInv, OutputInv, ReportedInv, ResultsAreWhole, Reported
<1>5. PhaseInv'
  BY <1>1, <1>2 DEF PhaseInv, startFails, Loop, CallbackEnds, poll, unwound,
     restoreSignals, End, size
<1>6. ready = {} /\ ready' = {}
  BY <1>1 DEF ReadyInv, startFails, Loop, CallbackEnds, poll, unwound, restoreSignals, End
<1>7. Range(running') \cup Range(finished') \cup Range(todo')
        = Range(running) \cup Range(finished) \cup Range(todo)
  BY <1>1, ElementsOfEmpty
<1>8. \A c : Collected(c)' <=> Collected(c)
  BY <1>1 DEF Collected
<1>9. ASSUME phase' \in {"reaping", "callback"}, NEW c \in Range(todo'),
             child'[c].shell # "reaped"
      PROVE  Collected(c)'
  <2>1. \/ c \in Range(finished)
        \/ c \in Range(todo) /\ phase \in {"reaping", "callback"}
    BY <1>9, <1>1, ElementsOfEmpty DEF startFails, Loop, CallbackEnds, poll, unwound,
       restoreSignals, End
  <2> QED BY <1>1, <1>8, <1>9, <2>1 DEF ListsInv
<1>10. ListsInv'
  BY ZenonT(30), <1>1, <1>7, <1>8, <1>9, ElementsOfEmpty DEF ListsInv
<1>11. ClosedInv'
  <2>1. \/ UNCHANGED <<finished, todo>> /\ (phase' = "unwinding" => phase = "callback")
           /\ (phase' \in {"reaping", "callback"} => phase \in {"reaping", "callback"})
        \/ todo' = finished /\ Range(finished') = {}
        \/ todo = <<>> /\ UNCHANGED <<finished, todo>>
    BY ElementsOfEmpty DEF startFails, Loop, CallbackEnds, poll, unwound, restoreSignals, End
  <2> QED BY <1>1, <2>1, ElementsOfEmpty DEF ClosedInv
<1> QED BY <1>3, <1>4, <1>5, <1>6, <1>10, <1>11 DEF ReadyInv

\* waitpid() on a subprocess at the head of the list `todo'.
LEMMA ReapFacts ==
  ASSUME SubprocessesInv, todo # <<>>, Reap(Head(todo)), todo' = Tail(todo)
  PROVE  LET c == Head(todo) IN
         /\ c \in Command /\ c \in Range(todo) /\ c \notin Reported
         /\ child[c].shell = "zombie"
         /\ child'[c].shell = "reaped" /\ child'[c].left = child[c].left
         /\ child'[c].code = child[c].code /\ child'[c].writers = child[c].writers
         /\ child'[c].pipe = child[c].pipe /\ child'[c].written = child[c].written
         /\ child' \in [Command -> Child]
         /\ \A d \in Command : d # c => child'[d] = child[d]
         /\ todo' \in Seq(Command) /\ Range(todo) = {c} \cup Range(todo')
         /\ UNCHANGED <<pending, signals>>
<1> USE DEF SubprocessesInv
<1> DEFINE c == Head(todo)
<1>1. /\ c \in Command /\ todo' \in Seq(Command) /\ Range(todo) = {c} \cup Range(todo')
  BY ElementsOfTail DEF TypeOK
<1>2. /\ child[c].shell = "zombie"
      /\ child' = [child EXCEPT ![c].shell = "reaped"]
      /\ UNCHANGED <<pending, signals>>
  BY DEF Reap
<1>3. child[c] \in Child /\ [child[c] EXCEPT !.shell = "reaped"] \in Child
  BY ZenonT(30), <1>1 DEF TypeOK, Child
<1>4. c \notin Reported
  BY <1>2 DEF ReportedInv
<1> HIDE DEF c
<1>5. /\ child'[c] = [child[c] EXCEPT !.shell = "reaped"]
      /\ child' \in [Command -> Child]
      /\ \A d \in Command : d # c => child'[d] = child[d]
  BY <1>1, <1>2, <1>3 DEF TypeOK
<1>7. /\ child'[c].shell = "reaped" /\ child'[c].left = child[c].left
      /\ child'[c].code = child[c].code /\ child'[c].writers = child[c].writers
      /\ child'[c].pipe = child[c].pipe /\ child'[c].written = child[c].written
  BY <1>3, <1>5 DEF Child
<1>6. c = Head(todo)
  BY DEF c
<1> QED BY <1>1, <1>2, <1>4, <1>5, <1>6, <1>7

\* What a reaped shell changes, whether or not it is called back.
LEMMA ReapKeeps ==
  ASSUME SubprocessesInv, todo # <<>>, Reap(Head(todo)), todo' = Tail(todo),
         UNCHANGED <<program, running, finished, fd, ready, interrupted>>,
         \A d \in Command : d # Head(todo) => buf'[d] = buf[d],
         buf' \in [Command -> Seq(Nat)],
         fd[Head(todo)] = "closed",
         phase' \in Phases, phase \in {"reaping", "unwinding", "clearing", "unblocked"},
         phase' = phase \/ (phase = "reaping" /\ phase' = "callback")
  PROVE  ProcessesInv' /\ OutputInv' /\ ListsInv' /\ ClosedInv' /\ ReadyInv' /\ PhaseInv'
<1> USE DEF SubprocessesInv
<1> DEFINE c == Head(todo)
<1>1. /\ c \in Command /\ c \in Range(todo) /\ c \notin Reported
      /\ child[c].shell = "zombie"
      /\ child'[c].shell = "reaped" /\ child'[c].left = child[c].left
      /\ child'[c].code = child[c].code /\ child'[c].writers = child[c].writers
      /\ child'[c].pipe = child[c].pipe /\ child'[c].written = child[c].written
      /\ child' \in [Command -> Child]
      /\ \A d \in Command : d # c => child'[d] = child[d]
      /\ todo' \in Seq(Command) /\ Range(todo) = {c} \cup Range(todo')
      /\ UNCHANGED <<pending, signals>>
  BY ReapFacts
<1>2. /\ child'[c].shell = "reaped" /\ child'[c].left = child[c].left
      /\ child'[c].writers = child[c].writers /\ child'[c].pipe = child[c].pipe
  BY <1>1
<1>3. fd[c] = "closed" /\ \A d \in Command : d # c => buf'[d] = buf[d]
  OBVIOUS
<1> HIDE DEF c
<1>4. ProcessesInv'
  <2> SUFFICES ASSUME NEW d \in Command
               PROVE  /\ fd[d] = "none" <=> child'[d].shell = "none"
                      /\ fd[d] = "none" => buf'[d] = <<>>
                      /\ "left" \in child'[d].writers <=> child'[d].left = "running"
                      /\ "shell" \in child'[d].writers => child'[d].shell = "running"
    BY DEF ProcessesInv
  <2>1. CASE d = c
    <3>1. child[c].shell = "zombie" /\ c \in Command
      BY <1>1
    <3>2. /\ "left" \in child[c].writers <=> child[c].left = "running"
          /\ "shell" \notin child[c].writers
      BY <3>1 DEF ProcessesInv
    <3> QED BY <1>2, <1>3, <2>1, <3>2
  <2>2. CASE d # c
    <3>1. child'[d] = child[d] /\ buf'[d] = buf[d]
      BY <1>1, <1>3, <2>2
    <3> QED BY <3>1 DEF ProcessesInv
  <2> QED BY <2>1, <2>2
<1>5. OutputInv'
  BY ZenonT(30), <1>1, <1>2, <1>3 DEF OutputInv
<1>6. finished = <<>> /\ ready = {}
  BY DEF PhaseInv, ReadyInv
<1>7. \A d \in Command : d # c /\ Collected(d) => Collected(d)'
  BY <1>1, <1>3 DEF Collected
<1>8. ListsInv'
  <2>1. \A d \in Command : child'[d].shell \in {"running", "zombie"} =>
          d \in Range(running') \cup Range(finished') \cup Range(todo')
    BY ZenonT(30), <1>1, <1>2 DEF ListsInv
  <2>2. \A d \in Range(running') : fd'[d] = "open"
    BY DEF ListsInv
  <2>3. Range(finished') = {}
    BY <1>6, ElementsOfEmpty
  <2>4. ASSUME phase' \in {"reaping", "callback"}, NEW d \in Range(todo'),
               child'[d].shell # "reaped"
        PROVE  Collected(d)'
    <3>1. d \in Range(todo) /\ d \in Command /\ d # c
      BY <1>1, <1>2, <2>4, ElementsAreTyped DEF TypeOK
    <3> QED BY ZenonT(30), <1>1, <1>7, <2>4, <3>1 DEF ListsInv
  <2> QED BY <2>1, <2>2, <2>3, <2>4 DEF ListsInv
<1>9. ReadyInv'
  BY <1>6 DEF ReadyInv
<1>10. PhaseInv'
  BY <1>1, <1>6 DEF PhaseInv
<1>11. ClosedInv'
  BY <1>1 DEF ClosedInv
<1> QED BY <1>4, <1>5, <1>8, <1>9, <1>10, <1>11

\* finish(): the subprocess is whole, and so is what the callback gets.
LEMMA FinishKeeps ==
  ASSUME SubprocessesInv, finish
  PROVE  SubprocessesInv'
<1> USE DEF SubprocessesInv
<1> DEFINE c == Head(todo)
           r == [status |-> computeExitStatus(child[c].code), output |-> buf[c]]
<1>1. /\ phase = "reaping" /\ todo # <<>> /\ Reap(Head(todo)) /\ todo' = Tail(todo)
      /\ results' = CalledBack(c, r)
      /\ buf' = [buf EXCEPT ![c] = <<>>]
      /\ phase' = "callback"
      /\ UNCHANGED <<program, running, finished, fd, ready, interrupted>>
  BY DEF finish
<1>2. /\ c \in Command /\ c \in Range(todo) /\ c \notin Reported
      /\ child[c].shell = "zombie"
      /\ child'[c].shell = "reaped" /\ child'[c].left = child[c].left
      /\ child'[c].code = child[c].code /\ child'[c].writers = child[c].writers
      /\ child'[c].pipe = child[c].pipe /\ child'[c].written = child[c].written
      /\ child' \in [Command -> Child]
      /\ \A d \in Command : d # c => child'[d] = child[d]
      /\ todo' \in Seq(Command) /\ Range(todo) = {c} \cup Range(todo')
      /\ UNCHANGED <<pending, signals>>
  BY <1>1, ReapFacts
<1>3. Collected(c)
  BY ZenonT(30), <1>1, <1>2 DEF ListsInv
<1>4. buf' \in [Command -> Seq(Nat)] /\ \A d \in Command : d # c => buf'[d] = buf[d]
  BY <1>1, <1>2 DEF TypeOK
<1>5. ProcessesInv' /\ OutputInv' /\ ListsInv' /\ ClosedInv' /\ ReadyInv' /\ PhaseInv'
  <2>1. phase' \in Phases
    BY <1>1 DEF Phases
  <2> QED BY <1>1, <1>3, <1>4, <2>1, ReapKeeps DEF Collected
<1>6. /\ Reported' = Reported \cup {c}
      /\ results'[c] = r
      /\ \A d \in Reported : results'[d] = results[d]
  <2> HIDE DEF c, r
  <2> QED BY <1>1, <1>2 DEF Reported, CalledBack
<1>7. TypeOK'
  BY <1>1, <1>2, <1>4, <1>6 DEF TypeOK, Phases
<1>8. /\ child'[c].shell = "reaped" /\ child'[c].writers = child[c].writers
      /\ child'[c].code = child[c].code /\ child'[c].written = child[c].written
  BY <1>2
<1>9. ReportedInv'
  <2> HIDE DEF c
  <2>1. Reported \subseteq Command
    BY DEF TypeOK
  <2>2. ASSUME NEW d \in Reported' PROVE child'[d].shell = "reaped"
    BY <1>2, <1>6, <1>8, <2>1 DEF ReportedInv
  <2> QED BY <2>2 DEF ReportedInv
<1>10. ResultsAreWhole'
  <2>1. r.output = Counted(child[c].written) /\ r.status = computeExitStatus(child[c].code)
    BY <1>3 DEF Collected
  <2> HIDE DEF r, c
  <2>2. ASSUME NEW d \in Reported'
        PROVE  /\ results'[d].output = Counted(child'[d].written)
               /\ results'[d].status = computeExitStatus(child'[d].code)
               /\ child'[d].writers = {}
    <3>1. CASE d = c
      BY <1>3, <1>6, <1>8, <2>1, <3>1 DEF Collected
    <3>2. CASE d # c
      <4>1. d \in Reported /\ d \in Command
        BY <1>6, <2>2, <3>2 DEF TypeOK
      <4>2. child'[d] = child[d] /\ results'[d] = results[d]
        BY <1>2, <1>6, <3>2, <4>1
      <4>3. /\ results[d].output = Counted(child[d].written)
            /\ results[d].status = computeExitStatus(child[d].code)
            /\ child[d].writers = {}
        BY Zenon, <4>1 DEF ResultsAreWhole, Counted
      <4> QED BY Zenon, <4>2, <4>3
    <3> QED BY <3>1, <3>2
  <2> QED BY ZenonT(30), <2>2 DEF ResultsAreWhole, Counted, computeExitStatus
<1> QED BY <1>5, <1>7, <1>9, <1>10

\* ~Subprocess: the process is waited for, and the callback is not called.
LEMMA DropKeeps ==
  ASSUME SubprocessesInv, drop
  PROVE  SubprocessesInv'
<1> USE DEF SubprocessesInv
<1> DEFINE c == Head(todo)
<1>1. /\ phase \in {"unwinding", "clearing", "unblocked"} /\ todo # <<>>
      /\ Reap(Head(todo)) /\ todo' = Tail(todo) /\ fd[Head(todo)] = "closed"
      /\ UNCHANGED <<program, phase, running, finished, fd, buf, ready, interrupted, results>>
  BY DEF drop, Destroying
<1>2. /\ c \in Command /\ c \in Range(todo) /\ c \notin Reported
      /\ child' \in [Command -> Child]
      /\ \A d \in Command : d # c => child'[d] = child[d]
      /\ todo' \in Seq(Command)
      /\ UNCHANGED <<pending, signals>>
  BY <1>1, ReapFacts
<1>3. ProcessesInv' /\ OutputInv' /\ ListsInv' /\ ClosedInv' /\ ReadyInv' /\ PhaseInv'
  <2>1. buf' \in [Command -> Seq(Nat)] /\ phase' \in Phases
    BY <1>1 DEF TypeOK
  <2> QED BY <1>1, <2>1, ReapKeeps
<1>4. TypeOK'
  BY <1>1, <1>2 DEF TypeOK, Reported
<1>5. Reported' = Reported /\ results' = results /\ Reported \subseteq Command
  BY <1>1 DEF Reported, TypeOK
<1>6. \A d \in Reported : child'[d] = child[d]
  <2> HIDE DEF c
  <2> QED BY <1>2, <1>5
<1>7. ReportedInv' /\ ResultsAreWhole'
  BY <1>5, <1>6 DEF ReportedInv, ResultsAreWhole
<1> QED BY <1>3, <1>4, <1>7

\* ~Subprocess closes a pipe that nobody will read any more.
LEMMA ClosePipeKeeps ==
  ASSUME SubprocessesInv, closePipe
  PROVE  SubprocessesInv'
<1> USE DEF SubprocessesInv
<1> DEFINE c == Head(todo)
<1>1. /\ phase \in {"unwinding", "clearing", "unblocked"} /\ todo # <<>>
      /\ fd[c] = "open" /\ fd' = [fd EXCEPT ![c] = "closed"]
      /\ UNCHANGED <<program, phase, running, finished, todo, buf, ready, interrupted, results>>
      /\ UNCHANGED <<child, pending, signals>>
  BY DEF closePipe, Destroying, kernel
<1>2. c \in Command
  BY <1>1 DEF TypeOK
<1> HIDE DEF c
<1>3. fd'[c] = "closed" /\ \A d \in Command : d # c => fd'[d] = fd[d]
  BY <1>1, <1>2 DEF TypeOK
<1>4. TypeOK'
  BY <1>1, <1>2 DEF TypeOK, Reported
<1>5. ProcessesInv' /\ OutputInv'
  BY ZenonT(30), <1>1, <1>2, <1>3 DEF ProcessesInv, OutputInv
<1>6. finished = <<>> /\ ready = {}
  BY <1>1 DEF PhaseInv, ReadyInv
<1>7. c \notin Range(running)
  <2>1. CASE phase = "unwinding"
    <3>1. c \in Range(todo)
      BY <1>1, ElementsOfTail DEF TypeOK, c
    <3> QED BY <1>1, <2>1, <3>1 DEF ClosedInv
  <2>2. CASE phase # "unwinding"
    BY <1>1, <2>2, ElementsOfEmpty DEF PhaseInv
  <2> QED BY <2>1, <2>2
<1>8. ListsInv'
  <2>1. Range(running) \subseteq Command
    BY ElementsAreTyped DEF TypeOK
  <2> QED BY <1>1, <1>3, <1>6, <1>7, <2>1, ElementsOfEmpty DEF ListsInv
<1>9. ClosedInv'
  <2>1. Range(todo) \subseteq Command
    BY ElementsAreTyped DEF TypeOK
  <2> QED BY <1>1, <1>3, <1>6, <2>1, ElementsOfEmpty DEF ClosedInv
<1>10. ReadyInv' /\ PhaseInv'
  BY <1>1, <1>6 DEF ReadyInv, PhaseInv
<1>11. ReportedInv' /\ ResultsAreWhole'
  BY <1>1 DEF ReportedInv, ResultsAreWhole, Reported
<1> QED BY <1>4, <1>5, <1>8, <1>9, <1>10, <1>11

\* pselect() returns: shk was interrupted, as it slept or as it woke up, or some
\* pipe is ready.
LEMMA WakingKeeps ==
  ASSUME SubprocessesInv, setInterruptedFlag \/ pselect \/ handlePendingInterruption
  PROVE  SubprocessesInv'
<1> USE DEF SubprocessesInv
<1>1. /\ UNCHANGED <<program, running, finished, todo, fd, buf, results, child, signals>>
      /\ phase \in {"polling", "ready"} /\ phase' \in {"ready", "destroying"}
      /\ phase' = "ready" => phase = "polling" /\ interrupted' = interrupted
      /\ pending' \in {pending, {}}
  BY DEF setInterruptedFlag, pselect, handlePendingInterruption, kernel
<1>2. interrupted' \in Interrupting \cup {"none"}
  BY ZenonT(30) DEF setInterruptedFlag, pselect, handlePendingInterruption, TypeOK, Interrupting
<1>3. \A c \in ready' : phase' = "ready" /\ c \in Range(running) /\ Readable(c)
  BY DEF setInterruptedFlag, pselect, handlePendingInterruption, ReadyInv
<1>4. Range(running) \subseteq Command
  BY ElementsAreTyped DEF TypeOK
<1>5. TypeOK'
  BY <1>1, <1>2, <1>3, <1>4 DEF TypeOK, Reported, Phases
<1>6. ProcessesInv' /\ OutputInv' /\ ReportedInv' /\ ResultsAreWhole'
  BY ZenonT(30), <1>1 DEF ProcessesInv, OutputInv, ReportedInv, ResultsAreWhole, Reported
<1>7. ReadyInv'
  BY <1>1, <1>3 DEF ReadyInv, Readable
<1>8. PhaseInv'
  BY <1>1 DEF PhaseInv
<1>9. ListsInv' /\ ClosedInv'
  BY <1>1 DEF ListsInv, ClosedInv, Collected
<1> QED BY <1>5, <1>6, <1>7, <1>8, <1>9

\* clear(): what runs is signalled, and is then destroyed one by one.
LEMMA ClearKeeps ==
  ASSUME SubprocessesInv, clear
  PROVE  SubprocessesInv'
<1> USE DEF SubprocessesInv
<1>1. /\ phase = "destroying" /\ phase' = "clearing"
      /\ child' = [c \in Command |->
           IF c \in Range(running) /\ toBeSignalled(c) /\ interrupted # "none"
           THEN Signalled(c, interrupted) ELSE child[c]]
      /\ todo' = running /\ running' = <<>>
      /\ UNCHANGED <<program, finished, fd, buf, ready, interrupted, results, pending, signals>>
  BY DEF clear
<1>2. \A d \in Command : child[d] \in Child /\ Moved(child[d], child[d])
  BY DEF TypeOK, ProcessesInv, Moved
<1>3. ASSUME NEW d \in Command, interrupted # "none"
      PROVE  Signalled(d, interrupted) \in Child /\ Moved(child[d], Signalled(d, interrupted))
  <2>1. interrupted \in Interrupting
    BY <1>3 DEF TypeOK
  <2> QED BY ZenonT(30), <2>1, EndedMoves
<1>4. child' \in [Command -> Child] /\ \A d \in Command : Moved(child[d], child'[d])
  BY <1>1, <1>2, <1>3
<1>5. finished = <<>> /\ todo = <<>> /\ ready = {}
  BY <1>1 DEF PhaseInv, ReadyInv
<1>6. TypeOK'
  BY <1>1, <1>4 DEF TypeOK, Reported, Phases
<1>7. ProcessesInv' /\ OutputInv'
  <2>1. UNCHANGED <<fd, buf>>
    BY <1>1
  <2>2. ProcessesInv'
    BY <1>4, <2>1 DEF ProcessesInv, Moved
  <2>3. OutputInv'
    BY ZenonT(30), <1>4, <2>1 DEF OutputInv, Moved
  <2> QED BY <2>2, <2>3
<1>8. ListsInv'
  <2>1. Range(running') = {} /\ Range(finished') = {} /\ Range(finished) = {}
        /\ Range(todo) = {} /\ Range(todo') = Range(running)
    BY <1>1, <1>5, ElementsOfEmpty
  <2>2. \A d \in Command : child'[d].shell \in {"running", "zombie"} => d \in Range(todo')
    BY <1>4, <2>1 DEF ListsInv, Moved
  <2> QED BY <1>1, <2>1, <2>2 DEF ListsInv
<1>9. ClosedInv' /\ ReadyInv' /\ PhaseInv'
  BY <1>1, <1>5, ElementsOfEmpty DEF ClosedInv, ReadyInv, PhaseInv
<1>10. ReportedInv' /\ ResultsAreWhole'
  <2>1. Reported' = Reported /\ Reported \subseteq Command /\ results' = results
    BY <1>1 DEF TypeOK, Reported
  <2>2. \A d \in Reported :
          /\ child'[d].shell = "reaped" /\ child'[d].code = child[d].code
          /\ child'[d].written = child[d].written /\ child'[d].writers = {}
    BY ZenonT(30), <1>4, <2>1 DEF ReportedInv, ResultsAreWhole, Moved
  <2> QED BY <2>1, <2>2 DEF ReportedInv, ResultsAreWhole
<1> QED BY <1>6, <1>7, <1>8, <1>9, <1>10

\* runCommands() reads the pipes that are ready: what it takes of a pipe it has in
\* the buffer, and it is done with a pipe when nobody can write to it.
LEMMA ReadPipesKeeps ==
  ASSUME Selecting!Induction, SubprocessesInv, readPipes
  PROVE  SubprocessesInv'
<1> USE DEF SubprocessesInv
<1> DEFINE got == [c \in ready |-> onPipeReady(c)]
           done == {c \in ready : got[c].done}
<1>1. /\ phase = "ready" /\ phase' = "loop" /\ ready' = {}
      /\ buf' = [c \in Command |-> IF c \in ready THEN buf[c] \o got[c].data ELSE buf[c]]
      /\ child' = [c \in Command |->
           IF c \in ready /\ got[c].data # <<>>
           THEN [child[c] EXCEPT !.pipe = Tail(@)] ELSE child[c]]
      /\ fd' = [c \in Command |-> IF c \in done THEN "closed" ELSE fd[c]]
      /\ finished' = finished \o Those(running, done)
      /\ running' = Those(running, Command \ done)
      /\ UNCHANGED <<program, todo, interrupted, results, pending, signals>>
  BY DEF readPipes
<1>2. /\ ready \subseteq Command /\ Range(running) \subseteq Command
      /\ \A c \in ready : c \in Range(running) /\ fd[c] = "open" /\ Readable(c)
  BY ElementsAreTyped DEF TypeOK, ReadyInv, ListsInv
<1>3. done = {c \in ready : child[c].pipe = <<>>}
  BY DEF onPipeReady
<1>4. \A c \in ready : got[c].data = IF child[c].pipe = <<>> THEN <<>> ELSE <<Head(child[c].pipe)>>
  BY DEF onPipeReady
<1> HIDE DEF got, done
<1>5. ASSUME NEW c \in Command, c \notin ready
      PROVE  buf'[c] = buf[c] /\ child'[c] = child[c] /\ fd'[c] = fd[c]
  BY <1>1, <1>3, <1>5
<1>6. ASSUME NEW c \in done
      PROVE  /\ buf'[c] = buf[c] /\ child'[c] = child[c] /\ fd'[c] = "closed"
             /\ Collected(c)' /\ c \in Command /\ c \in Range(running)
  <2>1. c \in ready /\ c \in Command /\ child[c].pipe = <<>> /\ got[c].data = <<>>
    BY Zenon, <1>2, <1>3, <1>4, <1>6
  <2>2. buf[c] \in Seq(Nat) /\ buf[c] \o <<>> = buf[c]
    BY <2>1 DEF TypeOK
  <2>3. buf'[c] = buf[c] /\ child'[c] = child[c] /\ fd'[c] = "closed"
    BY Zenon, <1>1, <1>6, <2>1, <2>2
  <2>4. buf[c] = Counted(child[c].written) /\ child[c].writers = {}
    BY Zenon, <1>2, <2>1, <2>2 DEF OutputInv, Readable
  <2> QED BY <1>2, <2>1, <2>3, <2>4 DEF Collected
<1>7. ASSUME NEW c \in ready, c \notin done
      PROVE  /\ buf'[c] \in Seq(Nat) /\ child'[c] \in Child /\ fd'[c] = fd[c]
             /\ child'[c].shell = child[c].shell /\ child'[c].left = child[c].left
             /\ child'[c].writers = child[c].writers /\ child'[c].written = child[c].written
             /\ child'[c].code = child[c].code
             /\ buf'[c] \o child'[c].pipe = buf[c] \o child[c].pipe
  <2>1. c \in Command /\ child[c].pipe # <<>> /\ got[c].data = <<Head(child[c].pipe)>>
    BY ZenonT(30), <1>2, <1>3, <1>4, <1>7
  <2>2. child[c] \in Child /\ child[c].pipe \in Seq(Nat) /\ buf[c] \in Seq(Nat)
    BY <2>1 DEF TypeOK, Child
  <2>3. /\ Head(child[c].pipe) \in Nat /\ Tail(child[c].pipe) \in Seq(Nat)
        /\ buf[c] \o <<Head(child[c].pipe)>> \in Seq(Nat)
    BY <2>1, <2>2
  <2>4. <<Head(child[c].pipe)>> # <<>>
    OBVIOUS
  <2>5. /\ buf'[c] = buf[c] \o <<Head(child[c].pipe)>> /\ fd'[c] = fd[c]
        /\ child'[c] = [child[c] EXCEPT !.pipe = Tail(child[c].pipe)]
    BY Zenon, <1>1, <1>7, <2>1, <2>4
  <2>6. /\ child'[c] \in Child
        /\ child'[c].shell = child[c].shell /\ child'[c].left = child[c].left
        /\ child'[c].writers = child[c].writers /\ child'[c].written = child[c].written
        /\ child'[c].pipe = Tail(child[c].pipe) /\ child'[c].code = child[c].code
    BY ZenonT(30), <2>2, <2>3, <2>5 DEF Child
  <2> QED BY ZenonT(30), <2>1, <2>2, <2>3, <2>5, <2>6, ReadJoins
<1>8. done \subseteq ready /\ done \subseteq Range(running) /\ done \subseteq Command
  BY <1>2, <1>3
<1>9. /\ running' \in Seq(Command) /\ Range(running') = Range(running) \cap (Command \ done)
      /\ finished' \in Seq(Command) /\ Range(finished') = Range(finished) \cup done
  <2>1. /\ Those(running, done) \in Seq(Command)
        /\ Range(Those(running, done)) = Range(running) \cap done
        /\ Those(running, Command \ done) \in Seq(Command)
        /\ Range(Those(running, Command \ done)) = Range(running) \cap (Command \ done)
    BY ThoseSelects DEF TypeOK
  <2>2. finished \in Seq(Command)
    BY DEF TypeOK
  <2>3. Range(finished') = Range(finished) \cup Range(Those(running, done))
    BY <1>1, <2>1, <2>2, ElementsOfConcatenation
  <2>4. finished' \in Seq(Command)
    BY <1>1, <2>1, <2>2
  <2>5. Range(running) \cap done = done
    BY <1>8
  <2> QED BY Zenon, <1>1, <2>1, <2>3, <2>4, <2>5
<1>10. ASSUME NEW c \in Command
       PROVE  /\ buf'[c] \in Seq(Nat) /\ child'[c] \in Child
              /\ child'[c].shell = child[c].shell /\ child'[c].left = child[c].left
              /\ child'[c].writers = child[c].writers /\ child'[c].code = child[c].code
              /\ fd'[c] = IF c \in done THEN "closed" ELSE fd[c]
              /\ c \notin ready => buf'[c] = buf[c] /\ child'[c] = child[c]
              /\ c \notin done => buf'[c] \o child'[c].pipe = buf[c] \o child[c].pipe
              /\ child'[c].written = child[c].written
  <2>1. buf[c] \in Seq(Nat) /\ child[c] \in Child
    BY DEF TypeOK
  <2>2. CASE c \in done
    BY ZenonT(30), <1>6, <1>8, <2>1, <2>2
  <2>3. CASE c \in ready /\ c \notin done
    BY ZenonT(30), <1>7, <2>3
  <2>4. CASE c \notin ready
    BY Zenon, <1>5, <1>8, <2>1, <2>4
  <2> QED BY ZenonT(30), <2>2, <2>3, <2>4
<1>11. TypeOK'
  <2>1. child' \in [Command -> Child] /\ buf' \in [Command -> Seq(Nat)]
        /\ fd' \in [Command -> {"none", "open", "closed"}]
    <3>1. /\ DOMAIN child' = Command /\ child' = [c \in Command |-> child'[c]]
          /\ DOMAIN buf' = Command /\ buf' = [c \in Command |-> buf'[c]]
      BY <1>1
    <3>2. fd' \in [Command -> {"none", "open", "closed"}]
      BY <1>1 DEF TypeOK
    <3> QED BY ZenonT(30), <1>10, <3>1, <3>2
  <2> QED BY <1>1, <1>9, <2>1 DEF TypeOK, Reported, Phases
<1>12. ProcessesInv'
  <2> SUFFICES ASSUME NEW c \in Command
               PROVE  /\ fd'[c] = "none" <=> child'[c].shell = "none"
                      /\ fd'[c] = "none" => buf'[c] = <<>>
                      /\ "left" \in child'[c].writers <=> child'[c].left = "running"
                      /\ "shell" \in child'[c].writers => child'[c].shell = "running"
    BY DEF ProcessesInv
  <2>1. c \in ready => fd[c] = "open"
    BY <1>2
  <2> QED BY ZenonT(30), <1>8, <1>10, <2>1 DEF ProcessesInv
<1>13. OutputInv'
  BY Zenon, <1>10 DEF OutputInv
<1>14. \A c \in Command : Collected(c) => Collected(c)'
  <2> SUFFICES ASSUME NEW c \in Command, Collected(c) PROVE Collected(c)'
    OBVIOUS
  <2>1. c \notin ready
    BY <1>2 DEF Collected
  <2> QED BY Zenon, <1>8, <1>10, <2>1 DEF Collected
<1>15. ListsInv'
  <2>1. \A c \in Command : child'[c].shell \in {"running", "zombie"} =>
          c \in Range(running') \cup Range(finished') \cup Range(todo')
    BY Zenon, <1>1, <1>9, <1>10 DEF ListsInv
  <2>2. \A c \in Range(running') : fd'[c] = "open"
    BY ZenonT(30), <1>2, <1>9, <1>10 DEF ListsInv
  <2>3. Range(finished) \subseteq Command
    BY ElementsAreTyped DEF TypeOK
  <2>4. \A c \in Range(finished') : child'[c].shell # "reaped" => Collected(c)'
    BY ZenonT(30), <1>6, <1>9, <1>10, <1>14, <2>3 DEF ListsInv
  <2> QED BY Zenon, <1>1, <2>1, <2>2, <2>4 DEF ListsInv
<1>16. ClosedInv'
  <2>1. Range(finished) \subseteq Command
    BY ElementsAreTyped DEF TypeOK
  <2> QED BY ZenonT(30), <1>1, <1>8, <1>9, <1>10, <2>1 DEF ClosedInv
<1>17. ReadyInv' /\ PhaseInv'
  BY <1>1 DEF ReadyInv, PhaseInv
<1>18. ReportedInv' /\ ResultsAreWhole'
  <2>1. Reported' = Reported /\ Reported \subseteq Command /\ results' = results
    BY <1>1 DEF Reported, TypeOK
  <2>2. \A c \in Reported :
          /\ child'[c].shell = child[c].shell /\ child'[c].code = child[c].code
          /\ child'[c].written = child[c].written /\ child'[c].writers = child[c].writers
    BY Zenon, <1>10, <2>1
  <2> QED BY <2>1, <2>2 DEF ReportedInv, ResultsAreWhole
<1> QED BY <1>11, <1>12, <1>13, <1>15, <1>16, <1>17, <1>18

-----------------------------------------------------------------------------
\* Every step keeps the invariant.
LEMMA SubprocessesStep ==
  ASSUME Selecting!Induction
  PROVE  SubprocessesInv /\ [Next]_vars => SubprocessesInv'
<1> SUFFICES ASSUME SubprocessesInv, [Next]_vars PROVE SubprocessesInv'
  OBVIOUS
<1>1. CASE UNCHANGED vars
  BY ZenonT(30), <1>1 DEF vars, shk, kernel, SubprocessesInv, TypeOK, ProcessesInv, OutputInv,
     ListsInv, ClosedInv, ReadyInv, PhaseInv, ReportedInv, ResultsAreWhole, Reported, Collected, Readable
<1>2. CASE ShkStep
  BY ZenonT(30), <1>2, MovingOnKeeps, FinishKeeps, WakingKeeps, ReadPipesKeeps, ClearKeeps,
     ClosePipeKeeps, DropKeeps DEF ShkStep
<1>3. CASE CallbackEnds(TRUE)
  BY <1>3, MovingOnKeeps
<1>4. CASE \E c \in Command : invoke(c) \/ startFails(c)
  BY ZenonT(30), <1>4, InvokeKeeps, MovingOnKeeps
<1>5. CASE \E c \in Command : Write(c) \/ CloseOutput(c) \/ Ends(c)
  BY <1>5, WriteKeeps, ProcessesKeep
<1>6. CASE \E s \in Sent : Interrupt(s)
  BY <1>6, ProcessesKeep
<1>7. CASE Stopped
  BY <1>1, <1>7 DEF Stopped
<1> QED BY ZenonT(30), <1>1, <1>2, <1>3, <1>4, <1>5, <1>6, <1>7 DEF Next

-----------------------------------------------------------------------------
\* What build() sees of SubprocessSet, as in the refinement mapping of Promise.
Seen ==
  [c \in Command |->
     IF c \in Reported THEN "done"
     ELSE IF fd[c] = "none" THEN "new"
     ELSE IF phase \in Gone THEN "dropped" ELSE "running"]
SeenCall ==
  IF phase \in Gone THEN "gone"
  ELSE IF phase \in {"filling", "loop", "unwinding", "destroying"} THEN "outside"
  ELSE "inside"

\* The steps that build() does not see.
LEMMA UnseenSteps ==
  ASSUME SeenCall' = SeenCall, Reported' = Reported,
         \A c \in Command : fd'[c] = "none" <=> fd[c] = "none",
         (interrupted' = "none") <=> (interrupted = "none"),
         (signals' > 0) <=> (signals > 0)
  PROVE  UNCHANGED Promise!vars
<1>1. phase' \in Gone <=> phase \in Gone
  BY DEF SeenCall
<1>2. Seen' = Seen
  BY <1>1 DEF Seen
<1> QED BY <1>2 DEF Promise!vars, Seen, SeenCall

\* ~SubprocessSet, and the end of shk when no process can be started.
LEMMA DestroyIsSeen ==
  ASSUME phase \notin Gone, phase' \in Gone,
         UNCHANGED <<fd, results, interrupted, signals>>
  PROVE  Promise!Next
<1>1. /\ SeenCall \in {"outside", "inside"} /\ SeenCall' = "gone"
      /\ Seen' = [c \in Command |-> IF Seen[c] = "running" THEN "dropped" ELSE Seen[c]]
  BY DEF SeenCall, Seen, Reported
<1>2. Promise!Destroy
  BY <1>1 DEF Promise!Destroy, Seen, SeenCall
<1> QED BY <1>2 DEF Promise!Next

\* A step of shk that calls nothing back is not seen, or is a call of runCommands(),
\* its return or the end of SubprocessSet.
LEMMA PromisedSteps ==
  ASSUME SubprocessesInv, ShkStep \/ CallbackEnds(TRUE), ~finish
  PROVE  Promise!Next \/ UNCHANGED Promise!vars
<1> USE DEF SubprocessesInv
<1>1. CASE Loop
  <2>1. CASE size = 0
    BY <1>1, <2>1, UnseenSteps DEF Loop, SeenCall, Gone, Reported, kernel
  <2>2. CASE size # 0
    <3>1. /\ phase \in {"filling", "loop"} /\ phase' = "reaping"
          /\ UNCHANGED <<fd, interrupted, results, signals>>
      BY <1>1, <2>2 DEF Loop, kernel
    <3>2. SeenCall = "outside" /\ SeenCall' = "inside" /\ Seen' = Seen /\ interrupted = "none"
      BY <3>1 DEF SeenCall, Seen, Gone, Reported, PhaseInv
    <3>3. Promise!RunCommands
      BY <3>1, <3>2 DEF Promise!RunCommands, Seen, SeenCall
    <3> QED BY <3>3 DEF Promise!Next
  <2> QED BY <2>1, <2>2
<1>2. ASSUME phase \in {"reaping", "callback", "polling", "ready"},
             phase' \in {"loop", "unwinding", "destroying"},
             interrupted = "none", interrupted' # "none" => signals > 0,
             \A c \in Command : fd'[c] = "none" <=> fd[c] = "none",
             UNCHANGED <<results, signals>>
      PROVE  Promise!Next
  <2>1. SeenCall = "inside" /\ SeenCall' = "outside" /\ Seen' = Seen
    BY <1>2 DEF SeenCall, Seen, Gone, Reported
  <2>2. Promise!Return(interrupted' # "none")
    BY <1>2, <2>1 DEF Promise!Return, Seen, SeenCall
  <2>3. (interrupted' # "none") \in BOOLEAN
    OBVIOUS
  <2> QED BY Zenon, <2>2, <2>3 DEF Promise!Next
<1>3. phase \in {"reaping", "callback", "polling", "ready"} => interrupted = "none"
  BY DEF PhaseInv
<1>4. CASE CallbackEnds(TRUE)
  BY <1>2, <1>3, <1>4 DEF CallbackEnds, kernel
<1>5. CASE CallbackEnds(FALSE)
  BY <1>5, UnseenSteps DEF CallbackEnds, kernel, SeenCall, Gone, Reported
<1>6. CASE poll
  <2>1. CASE running = <<>>
    BY <1>2, <1>3, <1>6, <2>1 DEF poll, kernel
  <2>2. CASE running # <<>>
    BY <1>3, <1>6, <2>2, UnseenSteps DEF poll, kernel, SeenCall, Gone, Reported
  <2> QED BY <2>1, <2>2
<1>7. CASE setInterruptedFlag
  BY <1>2, <1>3, <1>7 DEF setInterruptedFlag, PhaseInv
<1>8. CASE handlePendingInterruption
  BY <1>2, <1>3, <1>8 DEF handlePendingInterruption, kernel, PhaseInv
<1>9. CASE pselect
  BY <1>9, UnseenSteps DEF pselect, kernel, SeenCall, Gone, Reported
<1>10. CASE readPipes
  <2>1. /\ phase = "ready" /\ phase' = "loop" /\ UNCHANGED <<interrupted, results, signals>>
        /\ fd' = [c \in Command |->
             IF c \in {d \in ready : [e \in ready |-> onPipeReady(e)][d].done}
             THEN "closed" ELSE fd[c]]
    BY <1>10 DEF readPipes
  <2>2. ready \subseteq Command /\ \A c \in ready : fd[c] = "open"
    BY ElementsAreTyped DEF TypeOK, ReadyInv, ListsInv
  <2>3. \A c \in Command : fd'[c] = "none" <=> fd[c] = "none"
    BY <2>1, <2>2
  <2> QED BY <1>2, <1>3, <2>1, <2>3
<1>11. CASE clear
  <2>1. /\ phase = "destroying" /\ phase' = "clearing"
        /\ UNCHANGED <<fd, interrupted, results, signals>>
    BY <1>11 DEF clear
  <2> QED BY <2>1, DestroyIsSeen DEF Gone
<1>12. CASE closePipe
  <2>1. /\ fd[Head(todo)] = "open" /\ fd' = [fd EXCEPT ![Head(todo)] = "closed"]
        /\ UNCHANGED <<phase, interrupted, results, signals>>
    BY <1>12 DEF closePipe, kernel
  <2>2. \A c \in Command : fd'[c] = "none" <=> fd[c] = "none"
    BY <2>1 DEF TypeOK
  <2> QED BY <2>1, <2>2, UnseenSteps DEF SeenCall, Gone, Reported
<1>13. CASE drop
  BY <1>13, UnseenSteps DEF drop, Reap, SeenCall, Gone, Reported
<1>14. CASE unwound \/ restoreSignals \/ End
  BY <1>14, UnseenSteps DEF unwound, restoreSignals, End, kernel, SeenCall, Gone, Reported
<1> QED BY ZenonT(30), <1>1, <1>4, <1>5, <1>6, <1>7, <1>8, <1>9, <1>10, <1>11, <1>12, <1>13, <1>14
        DEF ShkStep

\* finish() is the one callback of its command, from within runCommands().
LEMMA FinishIsSeen ==
  ASSUME SubprocessesInv, finish
  PROVE  Promise!Next
<1> PICK c : c = Head(todo)
  OBVIOUS
<1>1. /\ phase = "reaping" /\ todo # <<>> /\ Reap(Head(todo)) /\ todo' = Tail(todo)
      /\ phase' = "callback" /\ UNCHANGED <<fd, interrupted>>
      /\ DOMAIN results' = {c} \cup DOMAIN results
  BY DEF finish, CalledBack
<1>2. /\ c \in Command /\ c \notin Reported /\ child[c].shell = "zombie"
      /\ signals' = signals
  BY <1>1, ReapFacts
<1>3. fd[c] # "none"
  BY <1>2 DEF SubprocessesInv, ProcessesInv
<1>4. /\ SeenCall = "inside" /\ SeenCall' = "inside"
      /\ Seen[c] = "running" /\ Seen' = [Seen EXCEPT ![c] = "done"]
  BY ZenonT(30), <1>1, <1>2, <1>3 DEF SeenCall, Seen, Gone, Reported
<1>5. Promise!Callback(c)
  BY <1>1, <1>2, <1>4 DEF Promise!Callback, Seen, SeenCall
<1> QED BY <1>2, <1>5 DEF Promise!Next

-----------------------------------------------------------------------------
LOCAL INSTANCE WellFoundedInduction

\* A set of natural numbers that is not empty has a least element.
LEMMA LeastNumber ==
  ASSUME NEW T \in SUBSET Nat, T # {}
  PROVE  \E n \in T : \A m \in T : n <= m
<1> DEFINE R == {ss \in Nat \X Nat : ss[1] < ss[2]}
<1>1. IsWellFoundedOn(R, Nat)
  BY NatLessThanWellFounded DEF OpToRel
<1>2. PICK n \in T : \A m \in T : ~ (<<m, n>> \in R)
  <2> HIDE DEF R
  <2> QED BY <1>1, WFMin
<1>3. \A m \in T : ~ (m < n)
  BY <1>2
<1> QED BY <1>3

\* Induction over the natural numbers, stated for a set: the library states it
\* for a predicate, which the provers cannot instantiate.
LEMMA SetInduction ==
  ASSUME NEW S, 0 \in S, \A n \in Nat : n \in S => n + 1 \in S
  PROVE  Nat \subseteq S
<1> SUFFICES ASSUME ~(Nat \subseteq S) PROVE FALSE
  OBVIOUS
<1> DEFINE T == {n \in Nat : n \notin S}
<1>1. T # {} /\ T \in SUBSET Nat
  OBVIOUS
<1>2. PICK n \in T : \A m \in T : n <= m
  BY <1>1, LeastNumber
<1>3. n \in Nat /\ n # 0 /\ n \notin S
  BY <1>2
<1>4. n - 1 \in Nat /\ n - 1 \notin T
  BY <1>2, <1>3
<1>5. n - 1 \in S /\ (n - 1) + 1 = n
  BY <1>3, <1>4
<1> QED BY <1>3, <1>4, <1>5

\* The list that the loop of Those goes through is finite.
LEMMA LoopInduction == Selecting!Induction
  BY SetInduction DEF Selecting!Induction

\* The lists, the descriptors and the processes of SubprocessSet stay as
\* SubprocessesInv says they are, for any commands, programs and pipe size.
THEOREM SubprocessesInvariant == Spec => []SubprocessesInv
<1>1. Init => SubprocessesInv
  BY SubprocessesInitially
<1>2. SubprocessesInv /\ [Next]_vars => SubprocessesInv'
  BY LoopInduction, SubprocessesStep
<1> QED BY <1>1, <1>2, PTL DEF Spec

\* finish() gives a callback all that the processes of the command wrote, and the
\* status its shell ended with.
THEOREM ResultsAreWholeCorrect == Spec => []ResultsAreWhole
<1>1. SubprocessesInv => ResultsAreWhole
  BY DEF SubprocessesInv
<1> QED BY <1>1, SubprocessesInvariant, PTL

\* ~SubprocessSet has waited for every shell that was started.
THEOREM NobodyIsLeftCorrect == Spec => []NobodyIsLeft
<1>1. SubprocessesInv => NobodyIsLeft
  <2> SUFFICES ASSUME SubprocessesInv, phase \in {"ended", "killed"}, NEW c \in Command
               PROVE  child[c].shell \in {"none", "reaped"}
    BY DEF NobodyIsLeft
  <2>1. running = <<>> /\ finished = <<>> /\ todo = <<>>
    BY DEF SubprocessesInv, PhaseInv
  <2>2. child[c].shell \notin {"running", "zombie"}
    BY <2>1, ElementsOfEmpty DEF SubprocessesInv, ListsInv
  <2>3. child[c].shell \in {"none", "running", "zombie", "reaped"}
    BY DEF SubprocessesInv, TypeOK, Child
  <2> QED BY <2>2, <2>3
<1> QED BY <1>1, SubprocessesInvariant, PTL

\* SubprocessSet implements what command_runner.h promises, for any commands,
\* programs, pipe size and signals: a callback once and from within runCommands(),
\* none from a destructor, and no interruption reported that was not one.
THEOREM KeepsThePromiseCorrect == Spec => KeepsThePromise
<1>1. Init => Promise!Init
  <2> SUFFICES ASSUME Init PROVE Promise!Init
    OBVIOUS
  <2>1. Seen = [c \in Command |-> "new"] /\ SeenCall = "outside"
    BY DEF Init, Seen, SeenCall, Reported, Gone
  <2>2. ~(signals > 0) /\ ~(interrupted # "none")
    BY DEF Init
  <2> QED BY <2>1, <2>2 DEF Promise!Init, Seen, SeenCall
<1>2. SubprocessesInv /\ [Next]_vars => [Promise!Next]_(Promise!vars)
  <2> SUFFICES ASSUME SubprocessesInv, [Next]_vars
               PROVE  Promise!Next \/ UNCHANGED Promise!vars
    OBVIOUS
  <2>1. CASE UNCHANGED vars
    BY <2>1, UnseenSteps DEF vars, shk, kernel, SeenCall, Reported
  <2>2. CASE ShkStep \/ CallbackEnds(TRUE)
    BY Zenon, <2>2, PromisedSteps, FinishIsSeen
  <2>3. ASSUME NEW c \in Command, invoke(c) PROVE Promise!Next
    <3>1. /\ phase \in {"filling", "callback"} /\ fd[c] = "none"
          /\ fd' = [fd EXCEPT ![c] = "open"]
          /\ UNCHANGED <<phase, interrupted, results, signals>>
      BY <2>3 DEF invoke
    <3>2. c \notin Reported
      BY <3>1 DEF SubprocessesInv, ReportedInv, ProcessesInv
    <3>3. fd \in [Command -> {"none", "open", "closed"}]
      BY DEF SubprocessesInv, TypeOK
    <3>4. /\ SeenCall \in {"outside", "inside"} /\ SeenCall' = SeenCall
          /\ Seen[c] = "new" /\ Seen' = [Seen EXCEPT ![c] = "running"]
      BY ZenonT(30), <3>1, <3>2, <3>3 DEF SeenCall, Seen, Gone, Reported
    <3>5. Promise!Invoke(c)
      BY <3>1, <3>4 DEF Promise!Invoke, Seen, SeenCall
    <3> QED BY <3>5 DEF Promise!Next
  <2>4. ASSUME NEW c \in Command, startFails(c) PROVE Promise!Next
    BY <2>4, DestroyIsSeen DEF startFails, Gone, kernel
  <2>5. CASE \E c \in Command : Write(c) \/ CloseOutput(c) \/ Ends(c)
    <3>1. UNCHANGED <<shk, signals>>
      BY <2>5 DEF Write, CloseOutput, Ends, Exit, BrokenPipe, Steps
    <3> QED BY <3>1, UnseenSteps DEF shk, SeenCall, Reported
  <2>6. ASSUME NEW s \in Sent, Interrupt(s) PROVE Promise!Next
    <3>1. UNCHANGED shk /\ signals' = signals + 1 /\ signals \in Nat
      BY <2>6 DEF Interrupt, SubprocessesInv, TypeOK
    <3>2. Seen' = Seen /\ SeenCall' = SeenCall /\ (signals' > 0) = TRUE
      BY <3>1 DEF shk, Seen, SeenCall, Reported
    <3>3. Promise!Signal
      BY <3>1, <3>2 DEF Promise!Signal, Seen, SeenCall, shk
    <3> QED BY <3>3 DEF Promise!Next
  <2>7. CASE Stopped
    BY <2>1, <2>7 DEF Stopped
  <2> QED BY ZenonT(30), <2>1, <2>2, <2>3, <2>4, <2>5, <2>6, <2>7 DEF Next
<1> QED BY <1>1, <1>2, SubprocessesInvariant, PTL DEF Spec, KeepsThePromise, Promise!Spec
=============================================================================

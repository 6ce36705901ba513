------------------------------ MODULE FileLock ------------------------------
\* The lock that keeps two shk processes from using one invocation log at the
\* same time (src/shk/src/fs/file_lock.cpp): a file that is created, locked with
\* flock() without waiting, and on release unlocked and then unlinked.
EXTENDS Naturals

CONSTANTS
    Processes,      \* the shk processes
    Inodes,         \* the files that can ever have the name of the lock file
    NoInode         \* no file

ASSUME LockAssumption == NoInode \notin Inodes

VARIABLES
    named,          \* the file that the lock's path names, or NoInode
    descriptor,     \* the open file of each process (FileLock::_f), or NoInode
    stage,          \* how far the FileLock of each process is
    overlapped      \* a lock was taken on a file that its last holder had
                    \* unlinked or was about to unlink

lockVars == <<named, descriptor, stage, overlapped>>

Stages == {"none", "open", "held", "unlocked"}

LockInit ==
    /\ named = NoInode
    /\ descriptor = [p \in Processes |-> NoInode]
    /\ stage = [p \in Processes |-> "none"]
    /\ overlapped = FALSE

\* No process and no directory entry refers to file i.
Unused(i) == i # named /\ \A p \in Processes : descriptor[p] # i

\* Processes that have locked file i.
Holders(i) == {p \in Processes : stage[p] = "held" /\ descriptor[p] = i}

\* fopen(path, "w"): opens the file of that name, which it creates if there is
\* none.
OpenLockFile(p) ==
    /\ stage[p] = "none"
    /\ \E i \in Inodes :
          /\ IF named = NoInode THEN Unused(i) ELSE i = named
          /\ named' = i
          /\ descriptor' = [descriptor EXCEPT ![p] = i]
    /\ stage' = [stage EXCEPT ![p] = "open"]
    /\ UNCHANGED overlapped

\* It does not open: the constructor throws.
OpenFails(p) == stage[p] = "none" /\ UNCHANGED lockVars

Close(p) ==
    /\ descriptor' = [descriptor EXCEPT ![p] = NoInode]
    /\ stage' = [stage EXCEPT ![p] = "none"]

\* Mutant: the lock is a shared one.
SharedLock(p) ==
    /\ stage[p] = "open"
    /\ stage' = [stage EXCEPT ![p] = "held"]
    /\ overlapped' = ( \/ overlapped
                       \/ descriptor[p] # named
                       \/ \E q \in Processes : stage[q] = "unlocked" )
    /\ UNCHANGED <<named, descriptor>>

\* flock(LOCK_EX | LOCK_NB) succeeds when no other process has the file locked.
LockSucceeds(p) ==
    /\ stage[p] = "open"
    /\ Holders(descriptor[p]) = {}
    /\ stage' = [stage EXCEPT ![p] = "held"]
    /\ overlapped' = ( \/ overlapped
                       \/ descriptor[p] # named
                       \/ \E q \in Processes : stage[q] = "unlocked" )
    /\ UNCHANGED <<named, descriptor>>

\* flock() fails: the constructor throws and the file is closed.
LockFails(p) ==
    /\ stage[p] = "open"
    /\ Holders(descriptor[p]) # {}
    /\ Close(p)
    /\ UNCHANGED <<named, overlapped>>

\* ~FileLock, first flock(LOCK_UN) ...
Unlock(p) ==
    /\ stage[p] = "held"
    /\ stage' = [stage EXCEPT ![p] = "unlocked"]
    /\ UNCHANGED <<named, descriptor, overlapped>>

\* ... and then unlink(path), which removes the name whatever file it names by
\* then; the file is closed after that.
Unlink(p) ==
    /\ stage[p] = "unlocked"
    /\ named' = NoInode
    /\ Close(p)
    /\ UNCHANGED overlapped

\* A process that is killed leaves the file behind; the kernel closes it, which
\* gives up the lock.
Killed(p) ==
    /\ Close(p)
    /\ UNCHANGED <<named, overlapped>>

LockStep(p) ==
    \/ OpenLockFile(p) \/ OpenFails(p) \/ LockSucceeds(p) \/ LockFails(p)
    \/ Unlock(p) \/ Unlink(p) \/ Killed(p)

LockNext == \E p \in Processes : LockStep(p)

LockSpec == LockInit /\ [][LockNext]_lockVars
-----------------------------------------------------------------------------
LockTypeOK ==
    /\ named \in Inodes \cup {NoInode}
    /\ descriptor \in [Processes -> Inodes \cup {NoInode}]
    /\ stage \in [Processes -> Stages]
    /\ overlapped \in BOOLEAN

\* No two processes hold the lock (persistent_invocation_log.h has every user of
\* the log file assume so), unless one of them opened the file before and locked
\* it after the last holder released it: the unlink in ~FileLock takes away the
\* name of that file, and a third process locks a new one.
LogIsExclusive ==
    overlapped \/ \A p, q \in Processes :
        stage[p] = "held" /\ stage[q] = "held" => p = q
-----------------------------------------------------------------------------
\* What makes LogIsExclusive inductive: the name leads to the locked file, and
\* while a process is about to unlink it no process holds the lock.
HolderOwnsTheName ==
    overlapped \/
        /\ \A p \in Processes : stage[p] = "held" => descriptor[p] = named
        /\ \A p, q \in Processes : ~ (stage[p] = "held" /\ stage[q] = "unlocked")

OpenMeansFile == \A p \in Processes : stage[p] # "none" => descriptor[p] \in Inodes

LockInv == LockTypeOK /\ OpenMeansFile /\ LogIsExclusive /\ HolderOwnsTheName
=============================================================================

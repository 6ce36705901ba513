------------------------------ MODULE TraceServer ------------------------------
(***************************************************************************)
(* The tracing server of shk-trace, src/shk-trace/src: what the kernel's   *)
(* debug events become on their way to a trace file.  Tracer pairs the     *)
(* start, the path lookups and the end of a system call (tracer.cpp,       *)
(* event_info_map.cpp, apsl_code.cpp); ProcessTracer hands the call to the *)
(* trace request whose thread made it (process_tracer.cpp); PathResolver   *)
(* makes its paths absolute (path_resolver.cpp, cwd_memo.cpp,              *)
(* file_descriptor_memo.cpp); EventConsolidator sums them up as inputs,    *)
(* outputs and errors (event_consolidator.cpp); TraceWriter writes them    *)
(* and lets the client go (trace_writer.cpp, tracing_server.cpp).          *)
(*                                                                         *)
(* A path is the sequence of its components; an absolute path begins with  *)
(* "/".  A server is a record, every operation a function of it.           *)
(***************************************************************************)
EXTENDS Integers, Sequences, SequencesExt, Functions, TLC

CONSTANT kMaxPathComponents  \* the components canonicalizePath can keep, 62

\* AT_FDCWD, the descriptor that stands for the working directory.
AT_FDCWD == -2

\* MAX_SCALL_PATHNAMES, the number of paths kept of one system call.
MAX_SCALL_PATHNAMES == 2

Root == <<"/">>

Nowhere == <<>>

IsAbsolute(path) == path # <<>> /\ Head(path) = "/"

(***************************************************************************)
(* canonicalizePath, lexically: "." goes, ".." takes the component before  *)
(* it away, and a path of nothing is ".".                                  *)
(***************************************************************************)
Shortened(path) ==
  LET Take(done, name) ==
        IF name = "." THEN done
        ELSE IF name = ".." /\ done # <<>> /\ Last(done) \notin {"/", ".."} THEN Front(done)
        ELSE Append(done, name)
  IN  FoldLeft(Take, <<>>, path)

canonicalizePath(path) ==
  LET short == Shortened(path) IN IF short = <<>> THEN <<".">> ELSE short

\* canonicalizePath throws a PathError: too many components are left at a time.
TooDeep(path) ==
  /\ Len(path) > kMaxPathComponents
  /\ \E i \in DOMAIN path :
       Len(SelectSeq(Shortened(SubSeq(path, 1, i)), LAMBDA name : name \notin {"/", ".."}))
         > kMaxPathComponents

--------------------------------------------------------------------------------
(* EventConsolidator *)

\* A consolidator that has seen nothing.
NoEvents == [inputs |-> {}, outputs |-> {}, deleted |-> {}, errors |-> {}]

(***************************************************************************)
(* EventConsolidator::event.  A file the command made itself is no input   *)
(* when it is read; a file is an input or an output, never both; deleting  *)
(* an output forgets it, deleting anything else is remembered until the    *)
(* file is created again.                                                  *)
(***************************************************************************)
event(c, type, path) ==
  CASE type \in {"READ", "READ_DIRECTORY"} ->
         IF path \in c.outputs THEN c ELSE [c EXCEPT !.inputs = @ \union {path}]
    [] type = "WRITE" ->
         [c EXCEPT !.inputs = @ \ {path}, !.outputs = @ \union {path}]
    [] type = "CREATE" ->
         [c EXCEPT !.inputs = @ \ {path}, !.deleted = @ \ {path},
                   !.outputs = @ \union {path}]
    [] type = "DELETE" ->
         IF path \in c.outputs
         THEN [c EXCEPT !.outputs = @ \ {path}]
         ELSE [c EXCEPT !.deleted = @ \union {path}]
    [] type = "FATAL_ERROR" -> [c EXCEPT !.errors = @ \union {path}]

\* generateTrace: what is deleted and not made again is an error.
generateTrace(c) ==
  [inputs |-> c.inputs, outputs |-> c.outputs,
   errors |-> c.errors \union (c.deleted \ c.outputs)]

--------------------------------------------------------------------------------
(* CwdMemo and FileDescriptorMemo, the two memos of a PathResolver r. *)

\* CwdMemo::getCwd: a thread's own directory, or else its process's.
getCwd(r, pid, thread) ==
  CASE thread \in DOMAIN r.threadCwds -> r.threadCwds[thread]
    [] thread \notin DOMAIN r.threadCwds /\ pid \in DOMAIN r.cwds -> r.cwds[pid]
    [] OTHER -> Nowhere

\* getFileDescriptorPath
getFileDescriptorPath(r, pid, fd) ==
  IF pid \in DOMAIN r.fds /\ fd \in DOMAIN r.fds[pid]
  THEN r.fds[pid][fd].path ELSE Nowhere

\* FileDescriptorMemo::open
memoOpen(r, pid, fd, path, cloexec) ==
  LET info == fd :> [path |-> path, cloexec |-> cloexec]
      rest == IF pid \in DOMAIN r.fds THEN r.fds[pid] ELSE <<>>
  IN  [r EXCEPT !.fds = pid :> (info @@ rest) @@ @]

\* FileDescriptorMemo::close: a process without descriptors is forgotten.
memoClose(r, pid, fd) ==
  IF pid \notin DOMAIN r.fds THEN r
  ELSE LET rest == Restrict(r.fds[pid], DOMAIN r.fds[pid] \ {fd})
       IN  IF DOMAIN rest = {}
           THEN [r EXCEPT !.fds = Restrict(@, DOMAIN @ \ {pid})]
           ELSE [r EXCEPT !.fds[pid] = rest]

\* FileDescriptorMemo::dup: nothing to do for a descriptor it does not know.
memoDup(r, pid, from, to, cloexec) ==
  IF pid \in DOMAIN r.fds /\ from \in DOMAIN r.fds[pid]
  THEN memoOpen(r, pid, to, r.fds[pid][from].path, cloexec)
  ELSE r

\* FileDescriptorMemo::setCloexec
memoSetCloexec(r, pid, fd, cloexec) ==
  IF pid \in DOMAIN r.fds /\ fd \in DOMAIN r.fds[pid]
  THEN [r EXCEPT !.fds[pid][fd].cloexec = cloexec]
  ELSE r

\* FileDescriptorMemo::exec
memoExec(r, pid) ==
  IF pid \notin DOMAIN r.fds THEN r
  ELSE [r EXCEPT !.fds[pid] = Restrict(@, {fd \in DOMAIN @ : ~@[fd].cloexec})]

\* Mutant: a new process does not get its parent's directory and descriptors.
ForkForgets(r, ppid, parent, pid) == r

\* FileDescriptorMemo::fork and CwdMemo::fork, of PathResolver::newThread.
memoFork(r, ppid, parent, pid) ==
  [r EXCEPT !.fds  = IF ppid \in DOMAIN @ THEN pid :> @[ppid] @@ @ ELSE @,
            !.cwds = pid :> getCwd(r, ppid, parent) @@ @]

--------------------------------------------------------------------------------
(* PathResolver *)

\* A PathResolver, with the consolidator of its TraceWriter.
NewResolver(pid, cwd) ==
  [pids |-> <<>>, cwds |-> pid :> cwd, threadCwds |-> <<>>, fds |-> <<>>,
   seen |-> NoEvents]

\* The directories that are symbolic links in "/" to "private".
LinkedInRoot == {"etc", "var", "tmp"}

(***************************************************************************)
(* resolveWithoutNormalization.  The kernel reports a path that goes       *)
(* through a symbolic link in the root without its leading "/", which is   *)
(* put back; a relative path is taken from the working directory, or from  *)
(* the directory of the descriptor.                                        *)
(***************************************************************************)
resolveWithoutNormalization(r, thread, at, path) ==
  LET linked == Len(path) > 2 /\ path[1] = "private" /\ path[2] \in LinkedInRoot
      given  == IF linked THEN Root \o path ELSE path
      pid    == r.pids[thread]
      base   == IF at = AT_FDCWD THEN getCwd(r, pid, thread)
                                 ELSE getFileDescriptorPath(r, pid, at)
  IN  IF IsAbsolute(given) \/ thread \notin DOMAIN r.pids THEN given
      ELSE IF given = <<>> THEN base
      ELSE (IF base = Nowhere THEN Root ELSE base) \o given

(***************************************************************************)
(* resolve: the path, and what the delegate has seen, which is told of a   *)
(* path that cannot be normalized.  That is then used as it is.  (The code *)
(* has rewritten it in place as far as it got.)                            *)
(***************************************************************************)
resolve(r, thread, at, path) ==
  LET full == resolveWithoutNormalization(r, thread, at, path)
  IN  IF TooDeep(full)
      THEN [path |-> full, seen |-> event(r.seen, "FATAL_ERROR", full)]
      ELSE [path |-> canonicalizePath(full), seen |-> r.seen]

\* PathResolver::fileEvent
resolverEvent(r, thread, type, at, path) ==
  LET full == resolve(r, thread, at, path)
  IN  [r EXCEPT !.seen = IF type = "FATAL_ERROR" THEN event(@, type, path)
                         ELSE event(full.seen, type, full.path)]

\* PathResolver::newThread
resolverNewThread(r, pid, parent, child) ==
  LET known == [r EXCEPT !.pids = child :> pid @@ @]
  IN  IF parent \in DOMAIN known.pids /\ known.pids[parent] # pid
      THEN memoFork(known, known.pids[parent], parent, pid)
      ELSE known

\* PathResolver::terminateThread
resolverTerminateThread(r, thread) ==
  [r EXCEPT !.threadCwds = Restrict(@, DOMAIN @ \ {thread}),
            !.pids = Restrict(@, DOMAIN @ \ {thread})]

\* The descriptor and directory calls of PathResolver, open to exec, that a
\* system call makes with its arguments and the descriptor it returned.
resolverCall(r, thread, what, args, path, returned) ==
  LET pid  == r.pids[thread]
      full == resolve(r, thread, args.at, path)
      told == [r EXCEPT !.seen = full.seen]
      cloexec == "cloexec" \in args.flags
  IN  IF what = "threadChdir" THEN [told EXCEPT !.threadCwds = thread :> full.path @@ @]
      ELSE IF thread \notin DOMAIN r.pids THEN r
      ELSE CASE what = "open" -> memoOpen(told, pid, returned, full.path, cloexec)
             [] what = "dup" -> memoDup(r, pid, args.fd, returned, cloexec)
             [] what = "setCloexec" -> memoSetCloexec(r, pid, args.fd, cloexec)
             [] what = "close" -> memoClose(r, pid, args.fd)
             [] what = "chdir" -> [told EXCEPT !.cwds = pid :> full.path @@ @]
             [] what = "exec" -> memoExec(r, pid)

--------------------------------------------------------------------------------
(* ProcessTracer *)

(***************************************************************************)
(* The server: the requests that wait for their first thread, by process;  *)
(* the request of every traced thread, and the first thread of every       *)
(* request (_ancestor_threads and _traced_threads); the delegates that are *)
(* alive; the system calls in progress; and what has left the server, the  *)
(* trace files and acknowledgements; and whether it is about to read the   *)
(* events.  dropped and lapsed are history: the requests that were         *)
(* answered without having been traced, and whether events were lost       *)
(* without the server noticing.                                            *)
(***************************************************************************)
NewServer ==
  [status |-> "running", reading |-> FALSE, lapsed |-> FALSE, toBeTraced |-> <<>>, ancestors |-> <<>>, traced |-> <<>>,
   delegates |-> <<>>, threads |-> <<>>, written |-> <<>>, dropped |-> {}]

\* The delegate of request d is destroyed: the trace is written, and then the
\* request, which sends the acknowledgement, goes.
Destroy(s, d) ==
  [s EXCEPT !.written = d :> generateTrace(s.delegates[d].seen) @@ @,
            !.delegates = Restrict(@, DOMAIN @ \ {d})]

\* traceProcess.  A request for a process that is waited for already is not
\* stored, which destroys it.
traceProcess(s, d, pid, root, cwd) ==
  LET made == [s EXCEPT !.delegates = d :> NewResolver(pid, cwd) @@ @]
  IN  IF pid \in DOMAIN s.toBeTraced
      THEN [Destroy(made, d) EXCEPT !.dropped = @ \union {d}]
      ELSE [made EXCEPT !.toBeTraced = pid :> [root |-> root, request |-> d] @@ @]

\* A call of the delegate of a traced thread.  The delegate of a thread that
\* has outlived the first thread of its request is gone: what happens next is
\* undefined.
ToDelegate(s, thread, Call(_)) ==
  IF thread \notin DOMAIN s.ancestors THEN s
  ELSE LET d == s.ancestors[thread]
       IN  IF d \in DOMAIN s.delegates
           THEN [s EXCEPT !.delegates[d] = Call(@)]
           ELSE [s EXCEPT !.status = "undefined"]

\* EventInfoMap::newThread, which throws if the thread exists already.
mapNewThread(s, thread) ==
  IF thread \in DOMAIN s.threads
  THEN [s EXCEPT !.status = "aborted"]
  ELSE [s EXCEPT !.threads = thread :> [events |-> <<>>, last |-> "none"] @@ @]

\* Mutant: the thread that waits for the trace is traced as well.
TracesRoot(s, pid, parent, child) ==
  IF parent \in DOMAIN s.ancestors
  THEN mapNewThread(
         ToDelegate([s EXCEPT !.ancestors = child :> @[parent] @@ @], child,
                    LAMBDA r : resolverNewThread(r, pid, parent, child)), child)
  ELSE IF pid \notin DOMAIN s.toBeTraced THEN s
  ELSE LET d == s.toBeTraced[pid].request
       IN  mapNewThread(
             ToDelegate([s EXCEPT !.traced = child :> d @@ @,
                                  !.ancestors = child :> d @@ @,
                                  !.toBeTraced = Restrict(@, DOMAIN @ \ {pid})],
                        child, LAMBDA r : resolverNewThread(r, pid, parent, child)),
             child)

(***************************************************************************)
(* ProcessTracer::newThread and Tracer::processNewThread.  A thread of a   *)
(* traced thread is traced; the first thread that the root thread of a     *)
(* waiting request makes starts its trace; any other is ignored.           *)
(***************************************************************************)
newThread(s, pid, parent, child) ==
  IF parent \in DOMAIN s.ancestors
  THEN IF child \in DOMAIN s.ancestors THEN [s EXCEPT !.status = "aborted"]
       ELSE mapNewThread(
              ToDelegate([s EXCEPT !.ancestors = child :> @[parent] @@ @], child,
                         LAMBDA r : resolverNewThread(r, pid, parent, child)), child)
  ELSE IF pid \notin DOMAIN s.toBeTraced
          \/ child = s.toBeTraced[pid].root
          \/ parent # s.toBeTraced[pid].root THEN s
  ELSE LET d == s.toBeTraced[pid].request
       IN  mapNewThread(
             ToDelegate([s EXCEPT !.traced = child :> d @@ @,
                                  !.ancestors = child :> d @@ @,
                                  !.toBeTraced = Restrict(@, DOMAIN @ \ {pid})],
                        child, LAMBDA r : resolverNewThread(r, pid, parent, child)),
             child)

(***************************************************************************)
(* Tracer::processThreadTerminate and ProcessTracer::terminateThread.  The *)
(* event map throws if the thread is in a system call.  The end of the     *)
(* first thread of a request ends its trace.                               *)
(***************************************************************************)
terminateThread(s, thread) ==
  IF thread \in DOMAIN s.threads
     /\ (DOMAIN s.threads[thread].events # {} \/ s.threads[thread].last # "none")
  THEN [s EXCEPT !.status = "aborted"]
  ELSE IF thread \notin DOMAIN s.ancestors THEN s
  ELSE LET told == [ToDelegate(s, thread, LAMBDA r : resolverTerminateThread(r, thread))
                      EXCEPT !.ancestors = Restrict(@, DOMAIN @ \ {thread}),
                             !.threads = Restrict(@, DOMAIN @ \ {thread})]
       IN  IF thread \in DOMAIN told.traced
           THEN [Destroy(told, told.traced[thread])
                   EXCEPT !.traced = Restrict(@, DOMAIN @ \ {thread})]
           ELSE told

--------------------------------------------------------------------------------
(* EventInfoMap and the path lookups of a system call *)

\* A system call that has just started.
EventInfo(args) ==
  [args |-> args, hfs |-> FALSE, lookups |-> [i \in 1 .. MAX_SCALL_PATHNAMES |-> <<>>],
   index |-> 1, open |-> TRUE]

Find(s, thread, call) ==
  thread \in DOMAIN s.threads /\ call \in DOMAIN s.threads[thread].events

\* Whether findLast finds a call in progress on the thread, and which.
FindLast(s, thread) ==
  thread \in DOMAIN s.threads /\ Find(s, thread, s.threads[thread].last)

addEvent(s, thread, call, args) ==
  IF thread \notin DOMAIN s.threads THEN s
  ELSE [s EXCEPT !.threads[thread] =
          [events |-> call :> EventInfo(args) @@ @.events, last |-> call]]

eraseEvent(s, thread, call) ==
  [s EXCEPT !.threads[thread] =
     [events |-> Restrict(@.events, DOMAIN @.events \ {call}),
      last   |-> IF @.last = call THEN "none" ELSE @.last]]

\* Mutant: lookups made by an HFS_update are taken for the system call's.
HeedsUpdates(ei, e) ==
  LET piece == [ei EXCEPT !.lookups[ei.index] = IF e.start THEN e.names ELSE @ \o e.names]
  IN  IF (e.start /\ ei.index > MAX_SCALL_PATHNAMES) \/ (~e.start /\ ~ei.open) THEN ei
      ELSE IF ~e.end THEN [piece EXCEPT !.open = TRUE]
      ELSE [piece EXCEPT !.index = @ + 1, !.open = ei.index < MAX_SCALL_PATHNAMES]

(***************************************************************************)
(* processVfsLookup: the kernel reports a path in pieces.  The first two   *)
(* paths of a call are kept, and none that an HFS_update in the middle of  *)
(* it reports.                                                             *)
(***************************************************************************)
processVfsLookup(ei, e) ==
  LET piece == [ei EXCEPT !.lookups[ei.index] = IF e.start THEN e.names ELSE @ \o e.names]
  IN  IF \/ ei.hfs
         \/ e.start /\ ei.index > MAX_SCALL_PATHNAMES
         \/ ~e.start /\ ~ei.open
      THEN ei
      ELSE IF ~e.end THEN [piece EXCEPT !.open = TRUE]
      ELSE [piece EXCEPT !.index = @ + 1, !.open = ei.index < MAX_SCALL_PATHNAMES]

--------------------------------------------------------------------------------
(* Tracer *)

(***************************************************************************)
(* The classes of system calls that notifyDelegate tells apart, each under *)
(* the name of one of its members.                                         *)
(***************************************************************************)
WriteCalls == {"chmod", "truncate"}
CreateCalls == {"mkdir", "symlink"}
StatCalls == {"stat", "posix_spawn", "access"}
Disallowed == {"chroot", "searchfs"}
DescriptorWriteCalls == {"fchmod", "flock"}

\* syscallAtMember: the directory a path of the call is taken from.
At(args, i) == IF i = 1 THEN args.at ELSE args.at2

\* An event of a call: its type and the path it is about.
FileEvent(type, at, path) == [type |-> type, at |-> at, path |-> path]

(***************************************************************************)
(* The events notifyDelegate adds for a call.  An O_EXCL open learns       *)
(* whether the file was there.                                             *)
(***************************************************************************)
EventsOf(call, args, path1, path2) ==
  LET first(type)  == FileEvent(type, At(args, 1), path1)
      second(type) == FileEvent(type, At(args, 2), path2)
      ofFd(type)   == FileEvent(type, args.fd, <<>>)
      read  == "wronly" \notin args.flags
      write == args.flags \intersect {"rdwr", "wronly"} # {}
      trunc == "trunc" \in args.flags
  IN  CASE call = "open" ->
             (IF "excl" \in args.flags \/ (read /\ ~trunc) THEN <<first("READ")>> ELSE <<>>)
             \o (IF trunc THEN <<first("CREATE")>>
                 ELSE IF write THEN <<first("WRITE")>> ELSE <<>>)
        [] call \in {"unlink", "rmdir"} -> <<first("DELETE")>>
        [] call = "link" -> <<first("READ"), second("CREATE")>>
        [] call = "exchangedata" -> <<first("WRITE"), second("WRITE")>>
        [] call = "rename" -> <<first("DELETE"), second("CREATE")>>
        [] call = "getdirentries" -> <<ofFd("READ_DIRECTORY")>>
        [] call \in CreateCalls -> <<first("CREATE")>>
        [] call \in WriteCalls -> <<first("WRITE")>>
        [] call \in DescriptorWriteCalls -> <<ofFd("WRITE")>>
        [] call \in StatCalls \union {"execve"} -> <<first("READ")>>
        [] call \in Disallowed -> <<FileEvent("FATAL_ERROR", -1, <<call>>)>>
        [] OTHER -> <<>>

\* The call of the delegate that keeps its memos, if the call makes one.
MemoCall(call, success) ==
  IF call = "fcntl_setfd" THEN "setCloexec"
  ELSE IF ~success THEN "none"
  ELSE CASE call \in {"dup", "fcntl_dupfd"} -> "dup"
         [] call \in {"chdir", "fchdir"} -> "chdir"
         [] call \in {"pthread_chdir", "pthread_fchdir"} -> "threadChdir"
         [] call = "open" -> "open"
         [] call = "close" -> "close"
         [] call = "execve" -> "exec"
         [] OTHER -> "none"

\* The path without the ">" the kernel appends when a directory is missing.
WithoutGt(path) == IF path # <<>> /\ Last(path) = ">" THEN Front(path) ELSE path

ModifyEvents == {"WRITE", "CREATE", "DELETE", "READ_DIRECTORY"}

(***************************************************************************)
(* notifyDelegate.  An empty first path is the root, which the kernel does *)
(* not report; a call that failed to modify a file has still learnt about  *)
(* it.                                                                     *)
(***************************************************************************)
notifyDelegate(r, thread, call, ei, success, returned) ==
  LET path1 == IF ei.lookups[1] = <<>> THEN Root ELSE ei.lookups[1]
      at    == IF call \in {"fchdir", "pthread_fchdir"} THEN ei.args.fd ELSE ei.args.at
      where == IF call \in {"fchdir", "pthread_fchdir"} THEN <<>> ELSE path1
      memo  == MemoCall(call, success)
      told  == IF memo = "none" THEN r
               ELSE resolverCall(r, thread, memo, [ei.args EXCEPT !.at = at], where, returned)
      Tell(q, ev) ==
        resolverEvent(q, thread,
                      IF ~success /\ ev.type \in ModifyEvents THEN "READ" ELSE ev.type,
                      ev.at, WithoutGt(ev.path))
  IN  FoldLeft(Tell, told, EventsOf(call, ei.args, path1, ei.lookups[2]))

\* processEventEnd
processEventEnd(s, thread, call, success, returned, syscall) ==
  IF ~Find(s, thread, call) THEN s
  ELSE LET ei == s.threads[thread].events[call]
       IN  eraseEvent(
             ToDelegate(s, thread,
               LAMBDA r : notifyDelegate(r, thread, syscall, ei, success, returned)),
             thread, call)

\* processExec: the exec has succeeded, and no end of the call may follow.
processExec(s, thread) ==
  CASE Find(s, thread, "execve")
       /\ s.threads[thread].events["execve"].lookups[1] # <<>> ->
         processEventEnd(s, thread, "execve", TRUE, 0, "execve")
    [] ~Find(s, thread, "execve") /\ Find(s, thread, "posix_spawn")
       /\ s.threads[thread].events["posix_spawn"].lookups[1] # <<>> ->
         processEventEnd(s, thread, "posix_spawn", TRUE, 0, "execve")
    [] OTHER -> s

\* The system call in progress on a thread, with Change applied to it.
InLast(s, thread, Change(_)) ==
  IF FindLast(s, thread)
  THEN [s EXCEPT !.threads[thread].events[s.threads[thread].last] = Change(@)]
  ELSE s

\* One event of parseBuffer.  An exception, or undefined behaviour, before it
\* is the end of the server.
ParseEvent(s, e) ==
  IF s.status # "running" THEN s
  ELSE CASE e.kind = "new thread" -> newThread(s, e.pid, e.thread, e.child)
         [] e.kind = "terminate" -> terminateThread(s, e.thread)
         [] e.kind = "exec" -> processExec(s, e.thread)
         [] e.kind = "lookup" ->
              InLast(s, e.thread, LAMBDA ei : processVfsLookup(ei, e))
         [] e.kind = "update" ->
              InLast(s, e.thread, LAMBDA ei : [ei EXCEPT !.hfs = e.start])
         [] e.kind = "carbon" ->
              ToDelegate(s, e.thread,
                LAMBDA r : resolverEvent(r, e.thread, "FATAL_ERROR", 0, <<"Carbon">>))
         [] e.kind = "start" -> addEvent(s, e.thread, e.call, e.args)
         [] e.kind = "end" ->
              processEventEnd(s, e.thread, e.call, e.success, e.returned, e.call)

parseBuffer(s, buffer) == FoldLeft(ParseEvent, s, buffer)
================================================================================

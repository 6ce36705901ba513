-------------------------------- MODULE Tracing --------------------------------
(***************************************************************************)
(* Tracing the commands of a build: shk's TracingCommandRunner and its     *)
(* server handle (src/shk/src/cmd/tracing_command_runner.cpp,              *)
(* trace_server_handle.cpp), the shk-trace client that runs one command    *)
(* and the shk-trace server that watches them all (src/shk-trace/src/      *)
(* main.cpp, tracing_server.cpp, kdebug_pump.cpp, kdebug_controller.cpp),  *)
(* with TraceServer's account of what the server makes of an event.        *)
(*                                                                         *)
(* The kernel below is external: processes and threads with the working    *)
(* directories and descriptors they really have, system calls that take    *)
(* time, process ids that are used again, and the debug events all of this *)
(* leaves in a bounded buffer.  history keeps what each command really did *)
(* to the file system, which is what its trace is compared with.           *)
(***************************************************************************)
EXTENDS TraceServer, FiniteSets

CONSTANTS Commands,     \* the commands there may be
          Builds,       \* the builds: the program of each command, and the files
          Pids,         \* the process ids
          BufferSize,   \* the number of events the kernel can hold
          Directories,  \* the directories there are
          Home,         \* the directory shk runs in
          Other,        \* a path that the file system itself looks up
          Kills         \* how many clients may be killed

ASSUME TracingAssumption ==
  /\ BufferSize \in Nat /\ Kills \in Nat /\ kMaxPathComponents \in Nat
  /\ Root \in Directories /\ Home \in Directories
  /\ \A b \in Builds : DOMAIN b.program \subseteq Commands

VARIABLES
  program,    \* the program of every command of the build
  handle,     \* whether RealTraceServerHandle has a _pid
  server,     \* the server, of TraceServer
  requests,   \* the messages at the server's port
  buffer,     \* the kernel's debug events
  wrapped,    \* whether events were lost since the buffer was read
  processes,  \* process id -> working directory and descriptors
  threads,    \* thread id -> the thread
  disk,       \* the files that exist
  clients,    \* the shk-trace client of every command
  history,    \* what every command did to the file system
  unruly,     \* commands whose threads raced or outlived the client's thread
  nextThread, \* the next thread id; thread ids are not used again
  kills       \* the number of clients killed

\* The commands of the build.
Build == DOMAIN program

kernel == <<buffer, wrapped, processes, threads, disk, history, unruly, nextThread>>

vars == <<program, handle, server, requests, kernel, clients, kills>>

NoServer == [NewServer EXCEPT !.status = "off"]

NoClient == [phase |-> "idle", pid |-> 0, root |-> 0, first |-> 0]

Init ==
  /\ \E b \in Builds : program = b.program /\ disk = b.disk
  /\ handle = FALSE /\ server = NoServer /\ requests = <<>>
  /\ buffer = <<>> /\ wrapped = FALSE
  /\ processes = <<>> /\ threads = <<>>
  /\ clients = [c \in DOMAIN program |-> NoClient]
  /\ history = [c \in DOMAIN program |-> <<>>]
  /\ unruly = {} /\ nextThread = 1 /\ kills = 0

\* The kernel records events while a server has tracing enabled; when there is no
\* room the oldest are lost, and the loss is remembered.
Emit(events) ==
  LET all == buffer \o events
  IN  IF server.status = "running"
      THEN /\ buffer' = SubSeq(all, 1 + (IF Len(all) > BufferSize THEN Len(all) - BufferSize ELSE 0),
                               Len(all))
           /\ wrapped' = (wrapped \/ Len(all) > BufferSize)
      ELSE wrapped' = FALSE /\ UNCHANGED buffer

\* A process gets the least id that is free, so that ids are used again as
\* soon as they can be.
FreePids ==
  LET free == Pids \ (DOMAIN processes \union {clients[c].pid : c \in Build})
  IN  {p \in free : \A q \in free : p <= q}

--------------------------------------------------------------------------------
(* The kernel's view of a system call *)

Exists(path) == path \in disk \union Directories

TrueBase(t, at) ==
  LET p == processes[threads[t].pid]
  IN  IF at # AT_FDCWD THEN p.fds[at].path
      ELSE IF threads[t].cwd # Nowhere THEN threads[t].cwd ELSE p.cwd

\* The file that a path given to a system call of thread t is.
TruePath(t, at, path) ==
  canonicalizePath(
    IF ~IsAbsolute(path) THEN TrueBase(t, at) \o path
    ELSE IF Len(path) > 2 /\ path[2] \in LinkedInRoot
    THEN <<"/", "private">> \o Tail(path)
    ELSE path)

(***************************************************************************)
(* A path lookup: the file it leads to, whether all directories on the way *)
(* exist, and the path the kernel reports, which is empty for the root,    *)
(* lacks the "/" behind a symbolic link in the root, and ends in ">" at a  *)
(* missing directory.                                                      *)
(***************************************************************************)
Lookup(t, at, path) ==
  LET Prefix(k) == SubSeq(path, 1, k)
      missing == {k \in 1 .. Len(path) - 1 : TruePath(t, at, Prefix(k)) \notin Directories}
      first == CHOOSE k \in missing : \A j \in missing : k <= j
  IN  IF missing # {}
      THEN [file |-> TruePath(t, at, Prefix(first)), found |-> FALSE,
            reported |-> Append(Prefix(first), ">")]
      ELSE [file |-> TruePath(t, at, path), found |-> TRUE,
            reported |->
              IF path = Root THEN <<>>
              ELSE IF IsAbsolute(path) /\ Len(path) > 2 /\ path[2] \in LinkedInRoot
              THEN <<"private">> \o Tail(path) ELSE path]

\* The calls with two paths, and those that take a descriptor and no path.
TwoPaths == {"link", "rename", "exchangedata"}
NoPath == {"dup", "fcntl_dupfd", "fcntl_setfd", "close", "fchdir", "pthread_fchdir",
           "getdirentries"} \union DescriptorWriteCalls \union Disallowed

\* The lookups of a call; the second is not made when the first fails.
Lookups(t, op) ==
  LET one == Lookup(t, op.at, op.path)
  IN  IF op.call \in NoPath THEN <<>>
      ELSE IF op.call \in TwoPaths /\ Exists(one.file)
      THEN <<one, Lookup(t, op.at2, op.path2)>>
      ELSE <<one>>

\* The events of one path, in pieces of a component each.
Pieces(t, path) ==
  [i \in 1 .. Len(path) |->
     [kind |-> "lookup", thread |-> t, names |-> <<path[i]>>,
      start |-> (i = 1), end |-> (i = Len(path))]]

Update(t, start) == [kind |-> "update", thread |-> t, start |-> start]

\* A call that starts: its event, perhaps an HFS_update with a lookup of its
\* own, and its lookups.
EntryEvents(t, op, looked) ==
  <<[kind |-> "start", thread |-> t, call |-> op.call,
     args |-> [at |-> op.at, at2 |-> op.at2, fd |-> op.fd, flags |-> op.flags]]>>
  \o (IF op.noisy THEN <<Update(t, TRUE)>> \o Pieces(t, Other) \o <<Update(t, FALSE)>>
                  ELSE <<>>)
  \o FoldLeft(LAMBDA acc, l : acc \o Pieces(t, l.reported), <<>>, looked)

\* Whether a call succeeds, by the files it looked up.
Succeeds(t, op, looked) ==
  LET fds   == processes[threads[t].pid].fds
      file  == looked[1].file
  IN  IF op.call \in NoPath
      THEN op.call \in Disallowed
           \/ /\ op.fd \in DOMAIN fds
              /\ op.call \in {"fchdir", "pthread_fchdir", "getdirentries"} =>
                   fds[op.fd].path \in Directories
      ELSE /\ \A i \in DOMAIN looked : looked[i].found
           /\ CASE op.call = "open" ->
                     IF "creat" \in op.flags THEN "excl" \in op.flags => ~Exists(file)
                                             ELSE Exists(file)
                [] op.call \in {"unlink", "rmdir"} -> file \in disk
                [] op.call = "link" -> Exists(file) /\ ~Exists(looked[2].file)
                [] op.call = "rename" -> file \in disk
                [] op.call = "exchangedata" -> file \in disk /\ looked[2].file \in disk
                [] op.call \in CreateCalls -> ~Exists(file)
                [] op.call \in {"chdir", "pthread_chdir"} -> file \in Directories
                [] OTHER -> Exists(file)

Did(what, file) == [what |-> what, file |-> file]

\* What a call did to the files it looked up: what it read, wrote in part or
\* made, and removed.  A call that fails has read what it looked up.
Deeds(t, op, looked, ok) ==
  LET file(i) == looked[i].file
      fd      == processes[threads[t].pid].fds[op.fd].path
      writes  == op.flags \intersect {"rdwr", "wronly"} # {}
      reads   == "excl" \in op.flags \/ op.flags \intersect {"wronly", "trunc"} = {}
  IN  IF ~ok THEN [i \in DOMAIN looked |-> Did("read", file(i))]
      ELSE CASE op.call = "open" ->
                  (IF reads THEN <<Did("read", file(1))>> ELSE <<>>)
                  \o (IF "trunc" \in op.flags THEN <<Did("make", file(1))>>
                      ELSE IF writes THEN <<Did("write", file(1))>> ELSE <<>>)
             [] op.call \in {"unlink", "rmdir"} -> <<Did("remove", file(1))>>
             [] op.call = "rename" -> <<Did("remove", file(1)), Did("make", file(2))>>
             [] op.call = "link" -> <<Did("read", file(1)), Did("make", file(2))>>
             [] op.call = "exchangedata" -> <<Did("write", file(1)), Did("write", file(2))>>
             [] op.call \in CreateCalls -> <<Did("make", file(1))>>
             [] op.call \in WriteCalls -> <<Did("write", file(1))>>
             [] op.call \in DescriptorWriteCalls -> <<Did("write", fd)>>
             [] op.call = "getdirentries" -> <<Did("read", fd)>>
             [] op.call \in StatCalls \union {"execve"} -> <<Did("read", file(1))>>
             [] OTHER -> <<>>

\* The files there are after what a call did.
DiskAfter(deeds) ==
  LET Do(d, deed) == CASE deed.what \in {"write", "make"} -> d \union ({deed.file} \ Directories)
                       [] deed.what = "remove" -> d \ {deed.file}
                       [] OTHER -> d
  IN  FoldLeft(Do, disk, deeds)

\* The process of thread t after a call that succeeded.
ProcessAfter(t, op, looked) ==
  LET p == processes[threads[t].pid]
      New(path) == op.to :> [path |-> path, cloexec |-> "cloexec" \in op.flags]
  IN  CASE op.call = "open" -> [p EXCEPT !.fds = New(looked[1].file) @@ @]
        [] op.call \in {"dup", "fcntl_dupfd"} -> [p EXCEPT !.fds = New(p.fds[op.fd].path) @@ @]
        [] op.call = "fcntl_setfd" ->
             [p EXCEPT !.fds[op.fd].cloexec = "cloexec" \in op.flags]
        [] op.call = "close" -> [p EXCEPT !.fds = Restrict(@, DOMAIN @ \ {op.fd})]
        [] op.call = "chdir" -> [p EXCEPT !.cwd = looked[1].file]
        [] op.call = "fchdir" -> [p EXCEPT !.cwd = p.fds[op.fd].path]
        [] op.call = "execve" -> [p EXCEPT !.fds = Restrict(@, {f \in DOMAIN @ : ~@[f].cloexec})]
        [] OTHER -> p

\* The directory thread t has for itself after a call that succeeded.
CwdAfter(t, op, looked) ==
  CASE op.call = "pthread_chdir" -> looked[1].file
    [] op.call = "pthread_fchdir" -> processes[threads[t].pid].fds[op.fd].path
    [] OTHER -> threads[t].cwd

\* Whether a call changes the directory or the descriptor that another one,
\* in progress, has looked a relative path up with.
Disturbs(op, other) ==
  \/ /\ op.call \in {"chdir", "fchdir"}
     /\ other.at = AT_FDCWD /\ ~IsAbsolute(other.path)
  \/ /\ op.call \in {"open", "dup", "fcntl_dupfd"}
     /\ op.to \in {other.at, other.at2, other.fd}
  \/ op.call = "close" /\ op.fd \in {other.at, other.at2, other.fd}

\* One step of a script: a system call and its arguments.
Op(call) ==
  [call |-> call, path |-> <<>>, path2 |-> <<>>, at |-> AT_FDCWD, at2 |-> AT_FDCWD,
   fd |-> -1, to |-> -1, flags |-> {}, child |-> 0, left |-> FALSE, noisy |-> FALSE]

\* executeCommand: the client's thread spawns the shell, which runs the first
\* script of the command, and waits for it.
executeCommand ==
  <<[Op("posix_spawn") EXCEPT !.path = <<"/", "sh">>, !.child = 1]>>

\* A thread that begins to run a script of command c; parent is the thread
\* that waits for it.
NewThread(c, pid, script, parent) ==
  [command |-> c, pid |-> pid, script |-> script, parent |-> parent,
   looked |-> <<>>, inCall |-> FALSE, cwd |-> Nowhere]

Next1(t) == threads[t].script[1]

Spawning == {"fork", "thread", "posix_spawn"}

\* A thread goes on to what follows its present step.
Advance(t) ==
  [threads[t] EXCEPT !.script = Tail(@), !.looked = <<>>, !.inCall = FALSE]

\* A thread enters a system call, which looks its paths up.
Enter(t) ==
  /\ threads[t].script # <<>> /\ ~threads[t].inCall
  /\ Next1(t).call \notin {"fork", "thread", "wait", "carbon"}
  /\ LET looked == Lookups(t, Next1(t))
     IN  /\ threads' = [threads EXCEPT ![t].looked = looked, ![t].inCall = TRUE]
         /\ Emit(EntryEvents(t, Next1(t), looked))
  /\ UNCHANGED <<program, handle, server, requests, processes, disk, history, unruly,
                 nextThread, clients, kills>>

\* A thread leaves a system call, whose effect this is.  An exec that succeeds
\* leaves its own event and no end.
Leave(t) ==
  /\ threads[t].inCall /\ Next1(t).call \notin Spawning
  /\ LET op == Next1(t)
         c  == threads[t].command
         looked == threads[t].looked
         ok == Succeeds(t, op, looked)
         deeds == Deeds(t, op, looked, ok)
     IN  /\ threads' = [threads EXCEPT
              ![t] = [Advance(t) EXCEPT !.cwd = IF ok THEN CwdAfter(t, op, looked) ELSE @]]
         /\ processes' = IF ok THEN [processes EXCEPT ![threads[t].pid] = ProcessAfter(t, op, looked)]
                               ELSE processes
         /\ disk' = DiskAfter(deeds)
         /\ history' = [history EXCEPT ![c] = @ \o deeds]
         /\ unruly' = IF ok /\ \E u \in DOMAIN threads \ {t} :
                              /\ threads[u].pid = threads[t].pid /\ threads[u].inCall
                              /\ Disturbs(op, Next1(u))
                     THEN unruly \union {c} ELSE unruly
         /\ Emit(IF op.call = "execve" /\ ok THEN <<[kind |-> "exec", thread |-> t]>>
                 ELSE <<[kind |-> "end", thread |-> t, call |-> op.call, success |-> ok,
                         returned |-> op.to]>>)
  /\ UNCHANGED <<program, handle, server, requests, nextThread, clients, kills>>

\* A thread makes another, in its own process or in a new one, which starts
\* with the directory of the thread and a copy of the descriptors.
Spawn(t, pid) ==
  /\ threads[t].script # <<>> /\ Next1(t).call \in Spawning
  /\ Next1(t).call = "posix_spawn" <=> threads[t].inCall
  /\ pid \in IF Next1(t).call = "thread" THEN {threads[t].pid} ELSE FreePids
  /\ LET op == Next1(t)
         c  == threads[t].command
         deeds == IF op.call = "posix_spawn" THEN <<Did("read", threads[t].looked[1].file)>>
                                             ELSE <<>>
     IN  /\ threads' = nextThread :> NewThread(c, pid, program[c].scripts[op.child],
                                               IF op.left THEN 0 ELSE t)
                       @@ [threads EXCEPT ![t] = Advance(t)]
         /\ processes' = pid :> [processes[threads[t].pid] EXCEPT
                                   !.cwd = IF pid = threads[t].pid THEN @
                                           ELSE TrueBase(t, AT_FDCWD)]
                         @@ processes
         /\ history' = [history EXCEPT ![c] = @ \o deeds]
         /\ Emit(<<[kind |-> "new thread", thread |-> t, pid |-> pid, child |-> nextThread]>>
                 \o IF op.call # "posix_spawn" THEN <<>>
                    ELSE <<[kind |-> "end", thread |-> t, call |-> op.call, success |-> TRUE,
                            returned |-> 0]>>)
  /\ nextThread' = nextThread + 1
  /\ UNCHANGED <<program, handle, server, requests, disk, unruly, clients, kills>>

\* A thread calls the Carbon File Manager, which has events of its own.
CallCarbon(t) ==
  /\ threads[t].script # <<>> /\ Next1(t).call = "carbon"
  /\ threads' = [threads EXCEPT ![t] = Advance(t)]
  /\ Emit(<<[kind |-> "carbon", thread |-> t]>>)
  /\ UNCHANGED <<program, handle, server, requests, processes, disk, history, unruly,
                 nextThread, clients, kills>>

\* No thread that t waits for is left.
Reaped(t) == \A u \in DOMAIN threads : threads[u].parent # t

\* A thread waits for the threads and processes it made.
Wait(t) ==
  /\ threads[t].script # <<>> /\ Next1(t).call = "wait" /\ Reaped(t)
  /\ threads' = [threads EXCEPT ![t] = Advance(t)]
  /\ UNCHANGED <<program, handle, server, requests, buffer, wrapped, processes, disk,
                 history, unruly, nextThread, clients, kills>>

\* A thread ends, once those it waits for have, and with the last one of a
\* process the process; that of the client lasts as long as the client.
Terminate(t) ==
  /\ threads[t].script = <<>> /\ Reaped(t)
  /\ threads' = Restrict(threads, DOMAIN threads \ {t})
  /\ LET pid == threads[t].pid
     IN  processes' = IF \/ \E c \in Build : clients[c].pid = pid
                         \/ \E u \in DOMAIN threads \ {t} : threads[u].pid = pid
                      THEN processes
                      ELSE Restrict(processes, DOMAIN processes \ {pid})
  /\ Emit(<<[kind |-> "terminate", thread |-> t]>>)
  /\ LET c == threads[t].command
     IN  unruly' = IF /\ t = clients[c].first
                      /\ \E u \in DOMAIN threads \ {t} : threads[u].command = c
                   THEN unruly \union {c} ELSE unruly
  /\ UNCHANGED <<program, handle, server, requests, disk, history, nextThread, clients, kills>>

--------------------------------------------------------------------------------
(* The shk-trace server *)

\* What is left of a server that has ended.
Ended(status) ==
  [NoServer EXCEPT !.status = status, !.written = server.written, !.dropped = server.dropped,
                   !.lapsed = server.lapsed]

\* The server is gone: its end of the ports goes with it, which lets the
\* clients that wait for their request to be taken go on.
Released(status) ==
  [c \in Build |->
     IF status # "running" /\ clients[c].phase = "asking"
     THEN [clients[c] EXCEPT !.phase = "ready"] ELSE clients[c]]

\* handleMessage and processTraceRequest.  The client goes on when the message
\* has been handled.
HandleMessage ==
  /\ server.status = "running" /\ ~server.reading /\ requests # <<>>
  /\ LET r == Head(requests)
     IN  /\ server' = traceProcess(server, r.command, r.pid, r.root, r.cwd)
         /\ clients' = [clients EXCEPT ![r.command].phase =
                          IF @ = "asking" THEN "ready" ELSE @]
  /\ requests' = Tail(requests)
  /\ UNCHANGED <<program, handle, kernel, kills>>

PumpReady == server.status = "running" /\ (buffer # <<>> \/ wrapped)

(***************************************************************************)
(* fetchBuffer, and readBuf with its two calls of the kernel, between      *)
(* which commands go on.  When events were lost it throws, which nothing   *)
(* catches.  CheckBuffer, ReadBuffer and HandleMessage run on one serial   *)
(* queue, so that no request is taken between two events.                  *)
(***************************************************************************)
CheckBuffer ==
  /\ PumpReady /\ ~server.reading
  /\ IF wrapped
     THEN /\ server' = Ended("aborted") /\ clients' = Released("aborted")
          /\ requests' = <<>> /\ buffer' = <<>> /\ wrapped' = FALSE
     ELSE /\ server' = [server EXCEPT !.reading = TRUE]
          /\ UNCHANGED <<clients, requests, buffer, wrapped>>
  /\ UNCHANGED <<program, handle, processes, threads, disk, history, unruly, nextThread, kills>>

\* The server takes all events there are. That some were lost is now forgotten.
ReadBuffer ==
  /\ server.reading
  /\ server' = [parseBuffer(server, buffer) EXCEPT !.reading = FALSE, !.lapsed = @ \/ wrapped]
  /\ buffer' = <<>> /\ wrapped' = FALSE
  /\ clients' = Released(server'.status)
  /\ requests' = IF server'.status = "running" THEN requests ELSE <<>>
  /\ UNCHANGED <<program, handle, processes, threads, disk, history, unruly, nextThread, kills>>

\* The server may end at any time: killed, or because shk has ended.
ServerDies ==
  /\ server.status = "running"
  /\ server' = Ended("dead")
  /\ clients' = Released("dead")
  /\ requests' = <<>> /\ buffer' = <<>> /\ wrapped' = FALSE
  /\ UNCHANGED <<program, handle, processes, threads, disk, history, unruly, nextThread, kills>>

--------------------------------------------------------------------------------
(* The shk-trace client *)

\* The client ends; ok says whether with the command's success.
Exit(c, ok) ==
  /\ clients' = [clients EXCEPT ![c] = [NoClient EXCEPT
                   !.phase = IF ok THEN "exited" ELSE "failed"]]
  /\ processes' = IF \E u \in DOMAIN threads : threads[u].pid = clients[c].pid
                  THEN processes
                  ELSE Restrict(processes, DOMAIN processes \ {clients[c].pid})
  /\ Emit(<<[kind |-> "terminate", thread |-> clients[c].root]>>)

\* runTracingClient, up to the request: there must be a server to ask.
Connect(c) ==
  /\ clients[c].phase = "started"
  /\ IF server.status = "running"
     THEN /\ requests' = Append(requests, [command |-> c, pid |-> clients[c].pid,
                                           root |-> clients[c].root, cwd |-> Home])
          /\ clients' = [clients EXCEPT ![c].phase = "asking"]
          /\ UNCHANGED <<processes, buffer, wrapped>>
     ELSE Exit(c, FALSE) /\ UNCHANGED requests
  /\ UNCHANGED <<program, handle, server, threads, disk, history, unruly, nextThread, kills>>

\* The thread that runs the command, whose creation starts the trace.
StartThread(c) ==
  /\ clients[c].phase = "ready"
  /\ clients' = [clients EXCEPT ![c].phase = "running", ![c].first = nextThread]
  /\ threads' = nextThread :> NewThread(c, clients[c].pid, executeCommand, clients[c].root)
                @@ threads
  /\ Emit(<<[kind |-> "new thread", thread |-> clients[c].root, pid |-> clients[c].pid,
             child |-> nextThread]>>)
  /\ nextThread' = nextThread + 1
  /\ UNCHANGED <<program, handle, server, requests, processes, disk, history, unruly, kills>>

\* The client has joined the thread, and waits for the acknowledgement.
Waiting(c) == clients[c].phase = "running" /\ clients[c].first \notin DOMAIN threads

\* MachTraceHandle::wait: the acknowledgement arrives in time, or does not.
ReceiveAck(c) ==
  /\ Waiting(c) /\ c \in DOMAIN server.written
  /\ Exit(c, program[c].succeeds)
  /\ UNCHANGED <<program, handle, server, requests, threads, disk, history, unruly,
                 nextThread, kills>>

TimeOut(c) ==
  /\ Waiting(c) /\ c \notin DOMAIN server.written
  /\ Exit(c, FALSE)
  /\ UNCHANGED <<program, handle, server, requests, threads, disk, history, unruly,
                 nextThread, kills>>

\* A client is killed before it has started its command.
Kill(c) ==
  /\ kills < Kills /\ clients[c].phase \in {"asking", "ready"}
  /\ Exit(c, FALSE)
  /\ kills' = kills + 1
  /\ UNCHANGED <<program, handle, server, requests, threads, disk, history, unruly, nextThread>>

--------------------------------------------------------------------------------
(* TracingCommandRunner *)

kIgnoredFiles ==
  {<<"/", "AppleInternal">>}
  \union {<<"/", "dev", name>> :
            name \in {"null", "random", "autofs_nowait", "urandom", "dtracehelper", "tty"}}

\* parseTrace: the dependencies a trace gives, and whether it has no errors.
parseTrace(trace) ==
  [inputs |-> trace.inputs \ kIgnoredFiles, outputs |-> trace.outputs \ kIgnoredFiles,
   ok |-> trace.errors = {}]

\* invoke, for a command that needs no tracing.
InvokeUntraced(c) ==
  /\ clients[c].phase = "idle" /\ ~program[c].traced
  /\ clients' = [clients EXCEPT ![c].phase = IF program[c].succeeds THEN "success" ELSE "failure"]
  /\ UNCHANGED <<program, handle, server, requests, kernel, kills>>

\* invoke, with startServer: the first traced command starts the server, and
\* the inner runner runs shk-trace for the command, whose process begins with
\* a thread that no traced thread made.
Invoke(c, pid) ==
  /\ clients[c].phase = "idle" /\ program[c].traced
  /\ pid \in FreePids
  /\ handle' = TRUE
  /\ server' = IF handle THEN server ELSE NewServer
  /\ clients' = [clients EXCEPT ![c] = [phase |-> "started", pid |-> pid, root |-> nextThread,
                                        first |-> 0]]
  /\ processes' = pid :> [cwd |-> Home, fds |-> <<>>] @@ processes
  /\ LET born == <<[kind |-> "new thread", thread |-> 0, pid |-> pid, child |-> nextThread]>>
     IN  IF handle THEN Emit(born) ELSE buffer' = born /\ wrapped' = FALSE
  /\ nextThread' = nextThread + 1
  /\ UNCHANGED <<program, requests, threads, disk, history, unruly, kills>>

(***************************************************************************)
(* startServer fails: the server cannot be spawned, or it is and does not  *)
(* say that it serves, after which the handle takes it to be there.  The   *)
(* exception ends the build, and no other command starts.                  *)
(***************************************************************************)
StartServerFails(c, spawned) ==
  /\ clients[c].phase = "idle" /\ program[c].traced /\ ~handle
  /\ handle' = spawned
  /\ clients' = [d \in Build |-> IF clients[d].phase = "idle"
                                    THEN [clients[d] EXCEPT !.phase = "failure"] ELSE clients[d]]
  /\ UNCHANGED <<program, server, requests, kernel, kills>>

\* invoke, when no temporary file can be made: a command that fails is run.
NoTemporaryFile(c) ==
  /\ clients[c].phase = "idle" /\ program[c].traced
  /\ handle' = TRUE
  /\ server' = IF handle THEN server ELSE NewServer
  /\ clients' = [clients EXCEPT ![c].phase = "failure"]
  /\ UNCHANGED <<program, requests, kernel, kills>>

\* The trace file of a command as the runner reads it.  One that the server
\* has not written is empty, and does not pass validation.
TraceFile(c) ==
  IF c \in DOMAIN server.written THEN parseTrace(server.written[c])
  ELSE [inputs |-> {}, outputs |-> {}, ok |-> FALSE]

\* computeResults: a command that succeeded fails if its trace does.
computeResults(c) ==
  /\ clients[c].phase \in {"exited", "failed"}
  /\ clients' = [clients EXCEPT ![c].phase =
                   IF @ = "exited" /\ TraceFile(c).ok THEN "success" ELSE "failure"]
  /\ UNCHANGED <<program, handle, server, requests, kernel, kills>>

--------------------------------------------------------------------------------
ThreadStep(t) ==
  \/ Enter(t) \/ Leave(t) \/ CallCarbon(t) \/ Wait(t) \/ Terminate(t)
  \/ \E pid \in Pids : Spawn(t, pid)

ClientStep(c) ==
  Connect(c) \/ StartThread(c) \/ ReceiveAck(c) \/ computeResults(c)

RunnerStep(c) ==
  \/ InvokeUntraced(c) \/ NoTemporaryFile(c)
  \/ \E pid \in Pids : Invoke(c, pid)
  \/ \E spawned \in BOOLEAN : StartServerFails(c, spawned)

\* The build is over, and every process it started.
Finished ==
  /\ threads = <<>> /\ \A c \in Build : clients[c].phase \in {"success", "failure"}
  /\ UNCHANGED vars

Next ==
  \/ \E t \in DOMAIN threads : ThreadStep(t)
  \/ \E c \in Build : ClientStep(c) \/ RunnerStep(c) \/ TimeOut(c) \/ Kill(c)
  \/ HandleMessage \/ CheckBuffer \/ ReadBuffer \/ ServerDies
  \/ Finished

\* When some thread, or the client of command c, can go on.
ThreadReady ==
  \E t \in DOMAIN threads :
    /\ threads[t].script = <<>> \/ Next1(t).call = "wait" => Reaped(t)
    /\ threads[t].script # <<>> /\ Next1(t).call \in {"fork", "posix_spawn"} => FreePids # {}

ClientReady(c) ==
  \/ clients[c].phase \in {"started", "ready", "exited", "failed"}
  \/ Waiting(c) /\ c \in DOMAIN server.written

(***************************************************************************)
(* Threads and clients run on, and the server takes messages and events;   *)
(* no command need be invoked, and nothing need fail.  Every step uses up  *)
(* something finite (a script, a client's phases, the messages, the        *)
(* events), so that a behaviour comes to rest: that these actions are      *)
(* weakly fair is that none of them is enabled then.                       *)
(***************************************************************************)
Fairness ==
  []<>~(ThreadReady \/ (\E c \in Build : ClientReady(c)) \/ requests # <<>> \/ PumpReady)

Spec == Init /\ [][Next]_vars /\ Fairness

--------------------------------------------------------------------------------
(* What a command did, by its history *)

\* The file was an output just before step i of the history: the command had
\* made or written it, and not removed it since.
Made(h, file, i) ==
  \E j \in 1 .. i - 1 :
    /\ h[j].what \in {"make", "write"} /\ h[j].file = file
    /\ \A k \in j + 1 .. i - 1 : h[k] # Did("remove", file)

\* The command learnt something about the file that it had not made itself.
Observed(h, file) ==
  \E i \in DOMAIN h : h[i] = Did("read", file) /\ ~Made(h, file, i)

\* The command wrote the file and removed it afterwards.
Discarded(h, file) ==
  \E i \in DOMAIN h : h[i] = Did("remove", file) /\ Made(h, file, i)

(***************************************************************************)
(* The commands whose result rests on a trace that describes them: not one *)
(* whose request was answered at once because its process id was waited    *)
(* for, nor one whose own threads raced or were left behind, nor any after *)
(* a use of a delegate that was gone or after events were lost between the *)
(* check for that and the read (kdebug_controller.cpp:79-84).              *)
(***************************************************************************)
Traced ==
  {c \in Build : /\ clients[c].phase = "success" /\ program[c].traced
                    /\ c \notin server.dropped \union unruly
                    /\ server.status # "undefined" /\ ~server.lapsed}

(***************************************************************************)
(* The dependencies of a command that succeeded contain every file that it *)
(* learnt anything about and did not make, whichever of its processes and  *)
(* threads looked the file up and relative to whichever directory.  A file *)
(* it wrote and removed again is no longer one.                            *)
(***************************************************************************)
InputsAreComplete ==
  \A c \in Traced :
    LET h == history[c]
    IN  \A file \in {h[i].file : i \in DOMAIN h} :
          Observed(h, file) /\ ~Discarded(h, file) /\ file \notin kIgnoredFiles
          => file \in TraceFile(c).inputs \union TraceFile(c).outputs

(***************************************************************************)
(* The outputs of a command that succeeded are the files it made or wrote  *)
(* and left: none is missing, and there is no other, which a later build   *)
(* would delete.                                                           *)
(***************************************************************************)
OutputsAreExact ==
  \A c \in Traced :
    LET h == history[c]
    IN  TraceFile(c).outputs =
          {file \in {h[i].file : i \in DOMAIN h} : Made(h, file, Len(h) + 1)} \ kIgnoredFiles

(***************************************************************************)
(* A client whose command has ended gets its acknowledgement, if the       *)
(* server lives and has not missed events: every trace comes to its end.   *)
(***************************************************************************)
RequestsAreAnswered ==
  \A c \in Commands :
    c \in Build /\ Waiting(c) ~>
      c \in DOMAIN server.written \/ server.status # "running" \/ server.lapsed
================================================================================

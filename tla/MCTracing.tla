------------------------------- MODULE MCTracing -------------------------------
(***************************************************************************)
(* Instances of Tracing: commands that work on a file in every order of    *)
(* three calls, commands whose processes, threads, directories and         *)
(* descriptors make a path hard to resolve, and two commands at once.      *)
(***************************************************************************)
EXTENDS Tracing

CONSTANTS c1, c2

h == <<"/", "h">>
d == <<"/", "h", "d">>
e == <<"/", "h", "d", "e">>
tmp == <<"/", "private", "tmp">>

MCDirectories == {Root, h, d, e, <<"/", "private">>, tmp}
MCHome == h
MCOther == <<"/", "h", "f">>
BothCommands == {c1, c2}

At1(call, path) == [Op(call) EXCEPT !.path = path]
At2(call, path, path2) == [Op(call) EXCEPT !.path = path, !.path2 = path2]
Open(path, flags, to) == [Op("open") EXCEPT !.path = path, !.flags = flags, !.to = to]
OpenAt(fd, path, flags, to) == [Open(path, flags, to) EXCEPT !.at = fd]
Fd(call, fd) == [Op(call) EXCEPT !.fd = fd]
Dup(fd, to) == [Op("dup") EXCEPT !.fd = fd, !.to = to]
Child(call, n) == [Op(call) EXCEPT !.child = n]
Noisy(op) == [op EXCEPT !.noisy = TRUE]

f == <<"f">>
g == <<"g">>

Runs(scripts) == [traced |-> TRUE, succeeds |-> TRUE, scripts |-> scripts]
Untraced == [traced |-> FALSE, succeeds |-> TRUE, scripts |-> <<>>]
Fails == [traced |-> TRUE, succeeds |-> FALSE, scripts |-> <<<<>>>>]
Nothing == Runs(<<<<>>>>)

\* Every order of three calls on a file.
OnFile ==
  {At1("stat", f), Open(f, {"rdwr"}, 3), Open(f, {"wronly", "creat", "trunc"}, 3),
   At1("unlink", f), At2("rename", f, g), At2("rename", g, f)}

Orders == {Runs(<<<<x, y, z>>>>) : x \in OnFile, y \in OnFile, z \in OnFile}

\* The other calls, each after one that makes its file.
Singles ==
  {At2("link", f, g), At2("exchangedata", f, g), At1("mkdir", f), At1("chmod", f),
   Open(f, {"wronly", "creat", "excl"}, 3), At1("stat", <<"no", "f">>), At1("stat", Root),
   At1("stat", <<"d", "..", "f">>), At1("access", <<"/", "tmp", "f">>),
   At1("stat", <<"/", "dev", "null">>), At1("stat", <<"d", "e", "..", "f">>),
   At1("stat", <<"d", "e", "f">>), Open(<<"d", "e", "f">>, {"wronly", "creat", "trunc"}, 3),
   Op("chroot"), Op("carbon"),
   Noisy(Open(g, {"wronly", "creat", "trunc"}, 3)), Noisy(At1("stat", g))}

OneCall == {Runs(<<<<x>>>>) : x \in Singles}

\* Directories and descriptors, through forks, execs and threads.
Directory ==
  {Runs(<<<<At1("chdir", <<"d">>), Child("fork", 2), At1("chdir", <<"..">>),
            At1("stat", f)>>,
          <<At1("stat", f), At1("execve", g)>>>>),
   Runs(<<<<Open(<<"d">>, {}, 3), [Fd("fcntl_setfd", 3) EXCEPT !.flags = {"cloexec"}],
            Dup(3, 4), At1("execve", f), OpenAt(4, f, {"wronly", "creat"}, 3),
            Fd("getdirentries", 4), Fd("fchdir", 4), At1("stat", g)>>>>),
   Runs(<<<<Open(<<"d">>, {"cloexec"}, 3), Child("thread", 2), Op("wait"),
            Fd("close", 3), Open(f, {"wronly", "creat"}, 3), Fd("fchmod", 3)>>,
          <<Fd("pthread_fchdir", 3), At1("stat", f)>>>>),
   Runs(<<<<Open(<<"d">>, {"cloexec"}, 3), Child("fork", 2), Fd("close", 3),
            Open(<<"..">>, {}, 3)>>,
          <<OpenAt(3, g, {"wronly", "creat", "trunc"}, 4)>>>>),
   Runs(<<<<At1("pthread_chdir", <<"d">>), Child("fork", 2), Op("wait"), Child("thread", 2)>>,
          <<At1("stat", f)>>>>),
   Runs(<<<<Child("thread", 2), At1("chdir", <<"d">>)>>, <<At1("stat", f)>>>>)}

\* A process that is left behind.
Daemon == {Runs(<<<<[Child("fork", 2) EXCEPT !.left = TRUE]>>, <<At1("stat", f)>>>>)}

\* Two commands at once.
Both ==
  {[x \in BothCommands |-> IF x = c1 THEN Runs(<<<<At1("stat", g)>>>>) ELSE Untraced],
   [x \in BothCommands |-> IF x = c1 THEN Nothing ELSE Fails]}

WithF == {<<"/", "h", "f">>}

On(programs, disks) ==
  {[program |-> [x \in {c1} |-> q], disk |-> k] : q \in programs, k \in disks}

MCBuilds ==
  On(Orders \union OneCall, {{}, WithF}) \union On(Directory \union Daemon, {WithF})
  \union {[program |-> q, disk |-> WithF] : q \in Both}
================================================================================

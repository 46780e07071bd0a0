------------------------------- MODULE Shell -------------------------------
(***************************************************************************)
(* The programs init and sh (user/init/main.c, user/sh/main.c) as users of *)
(* fork, execve, wait, exit, pipe, dup, open and close.  Each call of the  *)
(* kernel is a step, but for those that only change a process's own        *)
(* descriptors between two forks.  What the calls do is the contract that  *)
(* modules ProcTree, Pipe and FileSys are about: the lowest free           *)
(* descriptor is used, a reader sees the end of its pipe when nobody holds *)
(* the end to write, orphans go to the first process, which is init.       *)
(*                                                                         *)
(* A behaviour is about one line, typed any number of times; its tree is   *)
(* kept, and a process says where in the tree it is.  Programs read their  *)
(* input to its end before they exit.  open, pipe and execve may fail, and *)
(* execve panics when there is no such program, or its file does not start *)
(* as one (kernel/exec.c); other processes may go on for a while.  fork    *)
(* returns no error, and memory does not run out (module Paging).          *)
(***************************************************************************)
EXTENDS ShParse

CONSTANTS
  Inputs,   \* bound: the command lines
  Procs,    \* bound: the processes, as integers; 0 is init
  NFds,     \* bound: the descriptors of a process
  MaxLeft   \* bound: processes of earlier lines that still run when one is read

ASSUME ShellAssumption ==
  /\ 0 \in Procs /\ Procs \subseteq Nat /\ NFds \in Nat /\ NFds > 3 /\ MaxLeft \in Nat
  /\ \A s \in Inputs : s \in Seq(STRING)

VARIABLES
  line,    \* buf
  job,     \* what parsecmd makes of it
  pc,      \* what each process does
  at,      \* the path to its node in the tree: "l" and "r"
  gen,     \* which line it is about, modulo 2
  fds,     \* its descriptors
  p,       \* the array p of runcmd: the two ends of its pipe
  parent,
  left,    \* the calls of wait still to come
  shell    \* pid in init's main

vars == <<line, job, pc, at, gen, fds, p, parent, left, shell>>
const == <<line, job>>

Fds == 0 .. NFds - 1
None == [kind |-> "none", id |-> 0]
Console == [kind |-> "console", id |-> 0]
Closed == [d \in Fds |-> None]

RECURSIVE Sub(_, _)
\* The node at the end of a path.
Sub(c, path) ==
  IF path = <<>> THEN c ELSE Sub(IF Head(path) = "l" THEN c.left ELSE c.right, Tail(path))

Node(i) == Sub(job.cmd, at[i])

Init ==
  /\ line \in Inputs /\ job = parsecmd(line)
  /\ pc = [i \in Procs |-> IF i = 0 THEN "boot" ELSE "free"]
  /\ at = [i \in Procs |-> <<>>] /\ gen = [i \in Procs |-> 0]
  /\ fds = [i \in Procs |-> Closed] /\ p = [i \in Procs |-> <<>>]
  /\ parent = [i \in Procs |-> 0] /\ left = [i \in Procs |-> 0]
  /\ shell = 0

-----------------------------------------------------------------------------
(* The kernel's part.                                                      *)

Lowest(f) == Min({d \in Fds : f[d] = None})
close(f, d) == [f EXCEPT ![d] = None]
dup(f, d) == [f EXCEPT ![Lowest(f)] = f[d]]
open(f, o) == [f EXCEPT ![Lowest(f)] = o]

Free == {i \in Procs : pc[i] = "free"}
Kids(i) == {k \in Procs \ {i} : parent[k] = i /\ pc[k] # "free"}
Goto(i, where) == pc' = [pc EXCEPT ![i] = where]

\* A call of some process has ended in PANIC: its CPU stops, and so does every other
\* one when it has nothing to run.
Panicked == \E i \in Procs : pc[i] = "panic"

\* fork: the child, at path and about to do what, and its parent, which goes on
\* to where and will call wait n times.
Fork(i, path, what, where, n) ==
  LET k == Min(Free) IN
  /\ pc' = [pc EXCEPT ![i] = where, ![k] = what]
  /\ at' = [at EXCEPT ![k] = path]
  /\ gen' = [gen EXCEPT ![k] = gen[i]]
  /\ fds' = [fds EXCEPT ![k] = fds[i]]
  /\ p' = [p EXCEPT ![k] = p[i]]
  /\ parent' = [parent EXCEPT ![k] = i]
  /\ left' = [left EXCEPT ![i] = n, ![k] = 0]
  /\ UNCHANGED const

exit(i) ==
  /\ pc[i] = "exit"
  /\ Goto(i, "zombie")
  /\ fds' = [fds EXCEPT ![i] = Closed]
  /\ parent' = [k \in Procs |-> IF k \in Kids(i) THEN 0 ELSE parent[k]]
  /\ UNCHANGED <<const, at, gen, p, left, shell>>

\* The state without the zombie k.
Reaped(k) ==
  /\ at' = [at EXCEPT ![k] = <<>>] /\ p' = [p EXCEPT ![k] = <<>>]
  /\ gen' = [gen EXCEPT ![k] = 0] /\ parent' = [parent EXCEPT ![k] = 0]

\* execve: the program runs, the call returns -1 (a file too short, or with sections
\* of a kind it does not load), or ends in a PANIC.
execve(i, start) == \E where \in {start, "exit", "panic"} : Goto(i, where)

-----------------------------------------------------------------------------
(* init.                                                                   *)

\* open, or mknod and open, and two dups.
init_open ==
  /\ pc[0] = "boot"
  /\ fds' = [fds EXCEPT ![0] = dup(dup(open(@, Console), 0), 0)]
  /\ Goto(0, "start")
  /\ UNCHANGED <<const, at, gen, p, parent, left, shell>>

init_fork ==
  /\ pc[0] = "start"
  /\ Fork(0, <<>>, "exec sh", "init wait", 0)
  /\ shell' = Min(Free)

\* wait returns the shell, or an orphan.
init_wait ==
  /\ pc[0] = "init wait"
  /\ \E k \in Kids(0) :
       /\ pc[k] = "zombie"
       /\ pc' = [pc EXCEPT ![k] = "free", ![0] = IF k = shell THEN "start" ELSE @]
       /\ shell' = IF k = shell THEN 0 ELSE shell
       /\ Reaped(k)
  /\ UNCHANGED <<const, fds, left>>

exec_sh(i) ==
  /\ pc[i] = "exec sh"
  /\ execve(i, "sh")
  /\ UNCHANGED <<const, at, gen, fds, p, parent, left, shell>>

-----------------------------------------------------------------------------
(* main of sh.                                                             *)

\* The console is opened until descriptor 3 comes back, which is closed.
sh_open(i) ==
  /\ pc[i] = "sh"
  /\ fds' = [fds EXCEPT ![i] = [d \in Fds |-> IF d < 3 /\ @[d] = None THEN Console ELSE @[d]]]
  /\ Goto(i, "prompt")
  /\ UNCHANGED <<const, at, gen, p, parent, left, shell>>

\* The line, or the end of the input.  What is left of other lines is of the last one.
getcmd(i) ==
  /\ pc[i] = "prompt"
  /\ \/ /\ Cardinality(Procs \ ({0, i} \cup Free)) <= MaxLeft
        /\ \A k \in Procs \ ({0, i} \cup Free) : gen[k] = gen[i]
        /\ Goto(i, "line") /\ gen' = [gen EXCEPT ![i] = 1 - @]
     \/ Goto(i, "exit") /\ UNCHANGED gen
  /\ UNCHANGED <<const, at, fds, p, parent, left, shell>>

IsCd == Len(line) >= 3 /\ SubSeq(line, 1, 3) = <<"c", "d", " ">>

cd(i) ==
  /\ pc[i] = "line" /\ IsCd
  /\ Goto(i, "prompt")
  /\ UNCHANGED <<const, at, gen, fds, p, parent, left, shell>>

sh_fork(i) ==
  /\ pc[i] = "line" /\ ~IsCd
  /\ Fork(i, <<>>, "parse", "sh wait", 1)
  /\ UNCHANGED shell

parse(i) ==
  /\ pc[i] = "parse"
  /\ Goto(i, IF job.ok THEN "run" ELSE "exit")
  /\ UNCHANGED <<const, at, gen, fds, p, parent, left, shell>>

-----------------------------------------------------------------------------
(* runcmd.                                                                 *)

AtNode(i, type) == pc[i] = "run" /\ Node(i).type = type

run_exec(i) ==
  /\ AtNode(i, "EXEC")
  /\ IF Node(i).argv = <<>> THEN Goto(i, "exit") ELSE execve(i, "program")
  /\ UNCHANGED <<const, at, gen, fds, p, parent, left, shell>>

\* A program ends: when it reads from a pipe, at the end of its input.
EndOfInput(f) == f[0].kind = "r" => \A k \in Procs, d \in Fds : fds[k][d] # [kind |-> "w", id |-> f[0].id]

program(i) ==
  /\ pc[i] = "program" /\ EndOfInput(fds[i])
  /\ Goto(i, "exit")
  /\ UNCHANGED <<const, at, gen, fds, p, parent, left, shell>>

Redirected(f, node) == open(close(f, node.fd), [kind |-> "file", id |-> node.file[1]])

run_redir(i) ==
  /\ AtNode(i, "REDIR")
  /\ \/ /\ fds' = [fds EXCEPT ![i] = Redirected(@, Node(i))]
        /\ at' = [at EXCEPT ![i] = Append(@, "l")]
        /\ UNCHANGED pc
     \/ /\ fds' = [fds EXCEPT ![i] = close(@, Node(i).fd)]
        /\ Goto(i, "exit") /\ UNCHANGED at
  /\ UNCHANGED <<const, gen, p, parent, left, shell>>

run_list(i) ==
  /\ AtNode(i, "LIST")
  /\ Fork(i, Append(at[i], "l"), "run", "list wait", 1)
  /\ UNCHANGED shell

run_back(i) ==
  /\ AtNode(i, "BACK")
  /\ Fork(i, Append(at[i], "l"), "run", "exit", 0)
  /\ UNCHANGED shell

\* pipe(p): a pipe nobody has yet, on the two lowest descriptors; the process exits
\* when there is none.
run_pipe(i) ==
  LET id == Min({n \in 1 .. Cardinality(Procs) : \A k \in Procs, d \in Fds :
                   fds[k][d] \notin {[kind |-> "r", id |-> n], [kind |-> "w", id |-> n]}})
      lo == Lowest(fds[i])
      f == open(fds[i], [kind |-> "r", id |-> id])
  IN
  /\ AtNode(i, "PIPE")
  /\ \/ /\ fds' = [fds EXCEPT ![i] = open(f, [kind |-> "w", id |-> id])]
        /\ p' = [p EXCEPT ![i] = <<lo, Lowest(f)>>]
        /\ Goto(i, "left")
     \/ Goto(i, "exit") /\ UNCHANGED <<fds, p>>
  /\ UNCHANGED <<const, at, gen, parent, left, shell>>

run_left(i) ==
  /\ pc[i] = "left"
  /\ Fork(i, Append(at[i], "l"), "writer", "right", 0)
  /\ UNCHANGED shell

run_right(i) ==
  /\ pc[i] = "right"
  /\ Fork(i, Append(at[i], "r"), "reader", "close", 0)
  /\ UNCHANGED shell

CloseBoth(f, i) == close(close(f, p[i][1]), p[i][2])

\* The children: the end they use becomes descriptor 1 or 0, the others go.
writer(i) ==
  /\ pc[i] = "writer"
  /\ fds' = [fds EXCEPT ![i] = CloseBoth(dup(close(@, 1), p[i][2]), i)]
  /\ Goto(i, "run")
  /\ UNCHANGED <<const, at, gen, p, parent, left, shell>>

reader(i) ==
  /\ pc[i] = "reader"
  /\ fds' = [fds EXCEPT ![i] = CloseBoth(dup(close(@, 0), p[i][1]), i)]
  /\ Goto(i, "run")
  /\ UNCHANGED <<const, at, gen, p, parent, left, shell>>

\* Mutated form: the pipeline is waited for once.
PipeWaits_one == 1

PipeWaits == 2

\* Mutated form: the ends of the pipe are closed after the calls of wait.
run_close_late(i) ==
  /\ pc[i] = "close"
  /\ left' = [left EXCEPT ![i] = PipeWaits]
  /\ Goto(i, "pipe wait")
  /\ UNCHANGED <<const, at, gen, fds, p, parent, shell>>

run_close(i) ==
  /\ pc[i] = "close"
  /\ fds' = [fds EXCEPT ![i] = CloseBoth(@, i)]
  /\ left' = [left EXCEPT ![i] = PipeWaits]
  /\ Goto(i, "pipe wait")
  /\ UNCHANGED <<const, at, gen, p, parent, shell>>

\* Where a process goes after its last wait.
AfterWait == [x \in {"sh wait", "list wait", "pipe wait"} |->
                IF x = "sh wait" THEN "prompt" ELSE IF x = "list wait" THEN "run" ELSE "exit"]

\* wait(NULL): some child that has exited.  It would return -1 to a process without
\* children; one that got here would stay, which PromptReturns excludes.
wait(i) ==
  /\ pc[i] \in DOMAIN AfterWait
  /\ \E k \in Kids(i) :
       /\ pc[k] = "zombie"
       /\ pc' = [pc EXCEPT ![k] = "free", ![i] = IF left[i] = 1 THEN AfterWait[@] ELSE @]
       /\ left' = [left EXCEPT ![i] = @ - 1]
       /\ at' = [at EXCEPT ![k] = <<>>, ![i] = IF pc[i] = "list wait" THEN Append(@, "r") ELSE @]
       /\ p' = [p EXCEPT ![k] = <<>>] /\ gen' = [gen EXCEPT ![k] = 0]
       /\ parent' = [parent EXCEPT ![k] = 0]
  /\ UNCHANGED <<const, fds, shell>>

-----------------------------------------------------------------------------

Step(i) ==
  \/ exec_sh(i) \/ sh_open(i) \/ getcmd(i) \/ cd(i) \/ sh_fork(i) \/ parse(i) \/ exit(i)
  \/ run_exec(i) \/ program(i) \/ run_redir(i) \/ run_list(i) \/ run_back(i)
  \/ run_pipe(i) \/ run_left(i) \/ run_right(i) \/ writer(i) \/ reader(i) \/ run_close(i)
  \/ wait(i)

Next == init_open \/ init_fork \/ init_wait \/ \E i \in Procs : Step(i)

\* Some process that can go on does: the machine runs, and the user types.
Fairness == WF_vars(Next)

Spec == Init /\ [][Next]_vars /\ Fairness

-----------------------------------------------------------------------------

\* Type invariant.
TypeOK ==
  /\ line \in Seq(STRING)
  /\ at \in [Procs -> Seq({"l", "r"})] /\ gen \in [Procs -> {0, 1}]
  /\ \A i \in Procs, d \in Fds : fds[i][d].kind \in {"none", "console", "file", "r", "w"}
  /\ parent \in [Procs -> Procs] /\ left \in [Procs -> 0 .. 2] /\ shell \in Procs

\* The lines that differ from s in at most two characters.
Near(s) ==
  {[s EXCEPT ![j] = c, ![k] = d] : j, k \in DOMAIN s, c, d \in symbols \cup whitespace \cup {"a"}}

\* The parser finds the tree of the grammar and nothing else, for what is typed and
\* for mistyped lines, and words come out as they were typed (sh/main.c:263-480).
ParseExact == pc[0] = "boot" => \A s \in Near(line) : ParsedRight(s, parsecmd(s))

Running == {i \in Procs : pc[i] = "program"}

\* The node that gives descriptor d at the end of a path: the innermost redirection
\* of d, or side of a pipe; the path to it, or <<"console">>.
Source(path, d) ==
  LET node(k) == Sub(job.cmd, SubSeq(path, 1, k - 1))
      gives == {k \in DOMAIN path : \/ node(k).type = "REDIR" /\ node(k).fd = d
                                    \/ node(k).type = "PIPE" /\ path[k] = (IF d = 1 THEN "l" ELSE "r")}
  IN IF gives = {} THEN <<"console">> ELSE SubSeq(path, 1, Max(gives) - 1)

\* A program has the input and output the command line gives it, the console as its
\* third descriptor, and no other open.
Descriptors ==
  \A i \in Running :
    /\ fds[i][2] = Console /\ \A d \in Fds : d > 2 => fds[i][d] = None
    /\ \A d \in {0, 1} :
         LET s == Source(at[i], d)
         IN IF s = <<"console">> THEN fds[i][d] = Console
            ELSE IF Sub(job.cmd, s).type = "REDIR"
            THEN fds[i][d] = [kind |-> "file", id |-> Sub(job.cmd, s).file[1]]
            ELSE fds[i][d].kind = (IF d = 0 THEN "r" ELSE "w")
    /\ \A j \in Running : fds[i][1].kind = "w" /\ fds[j][0].kind = "r" /\ gen[i] = gen[j] =>
         (Source(at[i], 1) = Source(at[j], 0) <=> fds[i][1].id = fds[j][0].id)

\* Is there a BACK node on the path below its first k steps?
InBackground(path, k) ==
  \E m \in k .. Len(path) - 1 : Sub(job.cmd, SubSeq(path, 1, m)).type = "BACK"

\* The right side of ';' runs when all that the left side left in the foreground has
\* ended, pipelines and nested lists included.
Order ==
  \A i \in Procs, j \in Procs : \A k \in DOMAIN at[i] :
    (/\ pc[i] # "zombie" /\ pc[j] \notin {"free", "zombie"} /\ gen[i] = gen[j]
     /\ Sub(job.cmd, SubSeq(at[i], 1, k - 1)).type = "LIST" /\ at[i][k] = "r"
     /\ k <= Len(at[j]) /\ SubSeq(at[j], 1, k) = Append(SubSeq(at[i], 1, k - 1), "l"))
      => InBackground(at[j], k)

\* Programs run as the line says: redirections of nested commands count inside out,
\* two programs share a pipe exactly if they are its two sides, nothing else is left
\* open, and lists run in order (sh/main.c:99-139).
RunAsWritten == Descriptors /\ Order

\* The prompt comes back after every line unless the kernel panics, though programs read
\* to the end of their pipes: no end to write is left open in a process that waits, and
\* nobody waits for more children than it has (sh/main.c:117-139, 191-193).
PromptReturns == (pc[shell] = "sh wait") ~> (pc[shell] = "prompt" \/ Panicked)

-----------------------------------------------------------------------------
(* What the repository says and the code does not do.                      *)

\* "exec %s failed" (sh/main.c:96): a command that cannot be run is reported, and the
\* machine goes on.
FailureReported == ~Panicked
=============================================================================

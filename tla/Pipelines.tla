----------------------------- MODULE Pipelines -----------------------------
(***************************************************************************)
(* Three programs that build pipelines: Assignment/P1/multi_pipes.c (ls,   *)
(* awk, sort, uniq at once), ISF462_lab3/.../pipelines/pipeline.c (ls, then *)
(* wc) and the shell Assignment/P1/gfg/shell.c (one or two commands a line, *)
(* one after the other).                                                   *)
(*                                                                         *)
(* A command writes of itself (source), passes on what it reads (copy), or  *)
(* first reads all (sort; wc is taken for one), or cannot be executed       *)
(* (missing).  What is written are the numbers 1 to output; 0 is the shell's *)
(* message about a missing command.  A process is a record: where it is, the *)
(* command it spawns or is about to be (i), the pipe whose read end it will *)
(* give away (in), the open ends besides its standard files (fds), and the *)
(* pipes behind those, 0 for the terminal.  What one process does between   *)
(* fork and the next blocking call is one step, and so is what the new one  *)
(* does up to exec.                                                         *)
(***************************************************************************)
EXTENDS Integers, Sequences, FiniteSets

CONSTANTS Capacity,   \* what a pipe holds
          MaxOutput,  \* bound: what a source writes
          MaxLines    \* bound: lines for the shell

VARIABLES program,  \* which of the three
          cmds,     \* its commands; of the shell, those of the line
          output,   \* what a source writes
          proc,     \* the processes, in the order of the forks
          pipe,     \* the contents of each pipe
          shown,    \* what came to the terminal since the command line
          lines,    \* lines the shell has read
          failed    \* history: number of forks that failed

vars == <<program, cmds, output, proc, pipe, shown, lines, failed>>

R(p) == <<"r", p>>
W(p) == <<"w", p>>
Pipes == 1 .. Len(pipe)
Procs == 1 .. Len(proc)
Ended(q) == proc[q].at = "ended"
Holds(q, e) == ~Ended(q) /\ e \in proc[q].fds \cup {R(proc[q].stdin), W(proc[q].stdout)}
Others(q) == {r \in Procs : r > q}
Kinds == {"source", "copy", "sort", "missing", "builtin"}
Message == <<0>>
Numbers == [k \in 1 .. output |-> k]

TypeOK ==
  /\ program \in {"multi_pipes", "pipeline", "shell"}
  /\ cmds \in Seq(Kinds) /\ output \in 0 .. MaxOutput
  /\ \A p \in Pipes : pipe[p] \in Seq(Nat) /\ Len(pipe[p]) <= Capacity
  /\ shown \in Seq(Nat) /\ lines \in 0 .. MaxLines /\ failed \in Nat
  /\ \A q \in Procs :
       /\ proc[q].at \in {"spawn", "last", "fork", "exec", "wait", "again", "prompt", "run", "ended"}
       /\ {proc[q].in, proc[q].stdin, proc[q].stdout} \subseteq {0} \cup Pipes
       /\ proc[q].fds \subseteq {R(p) : p \in Pipes} \cup {W(p) : p \in Pipes}
       /\ proc[q].runs \in Kinds /\ proc[q].buf \in Seq(Nat) /\ proc[q].eof \in BOOLEAN

(* A list of commands of which at most one is not there.                   *)
OneMissing(list) == {list} \cup {[list EXCEPT ![k] = "missing"] : k \in DOMAIN list}

Main(place) ==
  [at |-> place, i |-> 1, in |-> 0, fds |-> {}, stdin |-> 0, stdout |-> 0,
   runs |-> "builtin", buf |-> <<>>, eof |-> FALSE]

Init ==
  /\ \/ /\ program = "multi_pipes" /\ proc = <<Main("spawn")>>
        /\ cmds \in OneMissing(<<"source", "copy", "sort", "copy">>)
     \/ program = "pipeline" /\ proc = <<Main("fork")>> /\ cmds \in OneMissing(<<"source", "sort">>)
     \/ program = "shell" /\ proc = <<Main("prompt")>> /\ cmds = <<>>
  /\ output \in 0 .. MaxOutput
  /\ pipe = <<>> /\ shown = <<>> /\ lines = 0 /\ failed = 0

(* The parent, and its child if fork works.                                *)
Forks(q, parent, child) == proc' = Append([proc EXCEPT ![q] = parent], child) /\ UNCHANGED failed
ForkFails(q, parent) == proc' = [proc EXCEPT ![q] = parent] /\ failed' = failed + 1
Becomes(q, me) == proc' = [proc EXCEPT ![q] = me] /\ UNCHANGED failed
Executes(p, c) == [p EXCEPT !.at = "run", !.runs = c, !.buf = IF c = "source" THEN Numbers ELSE <<>>]
Exits(p) == [p EXCEPT !.at = "ended"]
-----------------------------------------------------------------------------
(* multi_pipes.c                                                           *)

NextStage(p, in) ==
  [p EXCEPT !.in = in, !.i = @ + 1, !.at = IF p.i + 1 < Len(cmds) THEN "spawn" ELSE "last"]

StageOf(p, new) ==
  [p EXCEPT !.at = "exec", !.stdin = IF p.in # 0 THEN p.in ELSE @, !.stdout = new,
            !.fds = (@ \ {R(p.in)}) \cup {R(new)}]

(* The stage keeps the read end of its own pipe, and the parent, which goes *)
(* on without looking at what fork returned, those of all pipes.           *)
Spawn(q) ==
  /\ proc[q].at = "spawn" /\ pipe' = Append(pipe, <<>>)
  /\ LET new == Len(pipe) + 1
         parent == [NextStage(proc[q], new) EXCEPT !.fds = @ \cup {R(new)}]
     IN  Forks(q, parent, StageOf(proc[q], new)) \/ ForkFails(q, parent)
  /\ UNCHANGED <<program, cmds, output, shown, lines>>

(* A stage whose command is missing returns from spawn_proc as its parent   *)
(* does, and spawns the rest of the pipeline again.                        *)
ExecStage(q) ==
  /\ program = "multi_pipes" /\ proc[q].at = "exec"
  /\ Becomes(q, IF cmds[proc[q].i] = "missing" THEN NextStage(proc[q], proc[q].stdout)
                ELSE Executes(proc[q], cmds[proc[q].i]))
  /\ UNCHANGED <<program, cmds, output, pipe, shown, lines>>

ExecLast(q) ==
  /\ proc[q].at = "last"
  /\ LET c == cmds[Len(cmds)]
     IN  Becomes(q, IF c = "missing" THEN Exits(proc[q])
                    ELSE Executes([proc[q] EXCEPT !.stdin = proc[q].in], c))
  /\ UNCHANGED <<program, cmds, output, pipe, shown, lines>>
-----------------------------------------------------------------------------
(* pipeline.c                                                              *)

ForkLs(q) ==
  /\ program = "pipeline" /\ proc[q].at = "fork" /\ pipe' = Append(pipe, <<>>)
  /\ \/ Forks(q, [proc[q] EXCEPT !.at = "wait", !.i = 2, !.stdin = 1, !.fds = {R(1)}],
                 [proc[q] EXCEPT !.at = "exec", !.stdout = 1, !.fds = {W(1)}])
     \/ ForkFails(q, Exits(proc[q]))
  /\ UNCHANGED <<program, cmds, output, shown, lines>>

ExecLs(q) ==
  /\ program = "pipeline" /\ proc[q].at = "exec"
  /\ Becomes(q, IF cmds[1] = "missing" THEN Exits(proc[q]) ELSE Executes(proc[q], cmds[1]))
  /\ UNCHANGED <<program, cmds, output, pipe, shown, lines>>

WaitAndExecWc(q) ==
  /\ program = "pipeline" /\ proc[q].at = "wait" /\ \A r \in Others(q) : Ended(r)
  /\ Becomes(q, IF cmds[2] = "missing" THEN Exits(proc[q]) ELSE Executes(proc[q], cmds[2]))
  /\ UNCHANGED <<program, cmds, output, pipe, shown, lines>>
-----------------------------------------------------------------------------
(* gfg/shell.c                                                             *)

(* A line that begins with a builtin command does nothing else; exit ends   *)
(* the shell.                                                              *)
Enter(q) ==
  /\ proc[q].at = "prompt" /\ lines < MaxLines
  /\ lines' = lines + 1 /\ shown' = <<>>
  /\ \/ /\ cmds' = <<"builtin">>
        /\ Becomes(q, proc[q]) \/ Becomes(q, Exits(proc[q]))
     \/ /\ \E c \in {"source", "missing"}, d \in {"source", "copy", "sort", "missing"} :
             cmds' \in {<<c>>, <<c, d>>}
        /\ Becomes(q, [proc[q] EXCEPT !.at = "fork"])
  /\ UNCHANGED <<program, output, pipe>>

(* execArgs, and execArgsPiped as far as the first wait.                   *)
ForkFirst(q) ==
  /\ program = "shell" /\ proc[q].at = "fork"
  /\ IF Len(cmds) = 1
       THEN /\ UNCHANGED pipe
            /\ \/ Forks(q, [proc[q] EXCEPT !.at = "wait"], [proc[q] EXCEPT !.at = "exec"])
               \/ ForkFails(q, [proc[q] EXCEPT !.at = "prompt"])
       ELSE LET new == Len(pipe) + 1
                open == [proc[q] EXCEPT !.fds = @ \cup {R(new), W(new)}]
            IN  /\ pipe' = Append(pipe, <<>>)
                /\ \/ Forks(q, [open EXCEPT !.at = "again", !.in = new],
                               [open EXCEPT !.at = "exec", !.stdout = new, !.fds = @ \ {R(new)}])
                   \/ ForkFails(q, [open EXCEPT !.at = "prompt"])
  /\ UNCHANGED <<program, cmds, output, shown, lines>>

(* mutated form: the reader keeps the write end                            *)
ForkSecondUnclosed(q) ==
  /\ proc[q].at = "again" /\ \A r \in Others(q) : Ended(r)
  /\ LET p == proc[q].in
     IN  \/ Forks(q, [proc[q] EXCEPT !.at = "wait", !.fds = @ \ {R(p), W(p)}],
                     [proc[q] EXCEPT !.at = "exec", !.i = 2, !.stdin = p])
         \/ ForkFails(q, [proc[q] EXCEPT !.at = "prompt"])
  /\ UNCHANGED <<program, cmds, output, pipe, shown, lines>>

(* Only when the first command has ended is the second forked.             *)
ForkSecond(q) ==
  /\ proc[q].at = "again" /\ \A r \in Others(q) : Ended(r)
  /\ LET p == proc[q].in
     IN  \/ Forks(q, [proc[q] EXCEPT !.at = "wait", !.fds = @ \ {R(p), W(p)}],
                     [proc[q] EXCEPT !.at = "exec", !.i = 2, !.stdin = p, !.fds = @ \ {W(p)}])
         \/ ForkFails(q, [proc[q] EXCEPT !.at = "prompt"])
  /\ UNCHANGED <<program, cmds, output, pipe, shown, lines>>

(* The message about a missing command is flushed by exit, to the pipe if   *)
(* standard output is one.                                                 *)
ExecCommand(q) ==
  /\ program = "shell" /\ proc[q].at = "exec"
  /\ Becomes(q, [Executes(proc[q], cmds[proc[q].i]) EXCEPT
                   !.buf = IF cmds[proc[q].i] = "missing" THEN Message ELSE @])
  /\ UNCHANGED <<program, cmds, output, pipe, shown, lines>>

(* mutated form: the shell goes on at once                                 *)
ShellGoesOn(q) ==
  /\ program = "shell" /\ proc[q].at = "wait"
  /\ Becomes(q, [proc[q] EXCEPT !.at = "prompt"])
  /\ UNCHANGED <<program, cmds, output, pipe, shown, lines>>

ShellWaits(q) ==
  /\ program = "shell" /\ proc[q].at = "wait" /\ \A r \in Others(q) : Ended(r)
  /\ Becomes(q, [proc[q] EXCEPT !.at = "prompt"])
  /\ UNCHANGED <<program, cmds, output, pipe, shown, lines>>
-----------------------------------------------------------------------------
(* The commands                                                            *)

Reads(q) == proc[q].at = "run" /\ proc[q].runs \in {"copy", "sort"} /\ ~proc[q].eof

ReadPipe(q) ==
  /\ Reads(q) /\ (proc[q].runs = "copy" => proc[q].buf = <<>>)
  /\ LET p == proc[q].stdin
     IN  /\ p # 0
         /\ \/ /\ pipe[p] # <<>> /\ pipe' = [pipe EXCEPT ![p] = Tail(@)]
               /\ Becomes(q, [proc[q] EXCEPT !.buf = Append(@, Head(pipe[p]))])
            \/ /\ pipe[p] = <<>> /\ \A r \in Procs : ~Holds(r, W(p))
               /\ Becomes(q, [proc[q] EXCEPT !.eof = TRUE]) /\ UNCHANGED pipe
  /\ UNCHANGED <<program, cmds, output, shown, lines>>

(* SIGPIPE ends a process that writes to a pipe nobody can read.           *)
WriteOut(q) ==
  /\ proc[q].at = "run" /\ proc[q].buf # <<>> /\ (proc[q].runs = "sort" => proc[q].eof)
  /\ LET p == proc[q].stdout
         x == Head(proc[q].buf)
         me == [proc[q] EXCEPT !.buf = Tail(@)]
     IN  \/ p = 0 /\ shown' = Append(shown, x) /\ Becomes(q, me) /\ UNCHANGED pipe
         \/ /\ p # 0 /\ UNCHANGED shown
            /\ IF \A r \in Procs : ~Holds(r, R(p))
                 THEN Becomes(q, Exits(proc[q])) /\ UNCHANGED pipe
                 ELSE /\ Len(pipe[p]) < Capacity
                      /\ pipe' = [pipe EXCEPT ![p] = Append(@, x)] /\ Becomes(q, me)
  /\ UNCHANGED <<program, cmds, output, lines>>

Finish(q) ==
  /\ proc[q].at = "run" /\ ~Reads(q) /\ proc[q].buf = <<>>
  /\ Becomes(q, Exits(proc[q]))
  /\ UNCHANGED <<program, cmds, output, pipe, shown, lines>>

Step(q) ==
  \/ Spawn(q) \/ ExecStage(q) \/ ExecLast(q)
  \/ ForkLs(q) \/ ExecLs(q) \/ WaitAndExecWc(q)
  \/ ForkFirst(q) \/ ForkSecond(q) \/ ExecCommand(q) \/ ShellWaits(q)
  \/ ReadPipe(q) \/ WriteOut(q) \/ Finish(q)

Next == \E q \in Procs : Enter(q) \/ Step(q)

(* Processes are at most main, four or five children, or two a line.       *)
MaxProcs == 7 + 2 * MaxLines

(* Every process is scheduled; nobody needs to type.                       *)
Spec ==
  Init /\ [][Next]_vars /\ \A q \in 1 .. MaxProcs : WF_vars(q \in Procs /\ Step(q))
-----------------------------------------------------------------------------
Missing == {k \in DOMAIN cmds : cmds[k] = "missing"}
AllEnded == \A q \in Procs : proc[q].at \in {"ended", "prompt"}

(* The end of a pipe's data can be seen: while a command reads, the write    *)
(* end is open in the command before it alone.  multi_pipes is excepted when *)
(* one of its commands is missing.                                           *)
OneWriter ==
  (program = "multi_pipes" => Missing \subseteq {4}) =>
    \A q, r \in Procs : Reads(q) /\ Holds(r, W(proc[q].stdin)) => proc[r].i = proc[q].i - 1

(* The shell's own descriptors are what they were before the line, except   *)
(* that a fork that fails leaves it both ends of the pipe.                   *)
NothingLeaks ==
  program = "shell" /\ proc[1].at = "prompt" => Cardinality(proc[1].fds) <= 2 * failed

(* SIGPIPE never tells a command that nobody will read what it writes: the   *)
(* read end is always open somewhere, in multi_pipes in the command itself.  *)
NeverBroken ==
  \A q \in Procs : proc[q].at = "run" /\ proc[q].stdout # 0 =>
    /\ \E r \in Procs : Holds(r, R(proc[q].stdout))
    /\ program = "multi_pipes" => Holds(q, R(proc[q].stdout))

(* What command k writes of itself, and what the pipeline as a whole does:   *)
(* what the last command does that makes something of its own.               *)
Makes(k) ==
  IF cmds[k] = "source" THEN Numbers
  ELSE IF cmds[k] = "missing" /\ program = "shell" THEN Message ELSE <<>>
LastMaker(k) ==
  /\ k \in DOMAIN cmds /\ cmds[k] \notin {"copy", "sort"}
  /\ \A l \in DOMAIN cmds : l > k => cmds[l] \in {"copy", "sort"}
WholeResult ==
  /\ cmds = <<>> => shown = <<>>
  /\ \A k \in DOMAIN cmds : LastMaker(k) => shown = Makes(k)

(* When all is over, the terminal shows what the last command makes of what *)
(* the first wrote, or nothing if a fork failed.  It is never over when a    *)
(* command of multi_pipes but the last is missing: it is in a loop with      *)
(* itself; nor when pipeline.c waits for more output than a pipe holds.      *)
PassesOn ==
  AllEnded =>
    /\ WholeResult \/ (failed > 0 /\ shown = <<>>)
    /\ program = "multi_pipes" /\ failed = 0 => Missing \subseteq {4}
    /\ program = "pipeline" /\ failed = 0 => Missing = {1} \/ output <= Capacity

PipeInv == TypeOK /\ OneWriter /\ NothingLeaks /\ NeverBroken /\ PassesOn

(* What goes through the pipes at once, or fits into one, comes to an end.  *)
GoesThrough ==
  \/ output <= Capacity /\ (program = "multi_pipes" => Missing \subseteq {4})
  \/ program = "multi_pipes" /\ Missing = {} /\ failed = 0
Ends == []<>(GoesThrough => AllEnded)
=============================================================================

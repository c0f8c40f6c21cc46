------------------------------ MODULE BatchJob ------------------------------
(***************************************************************************)
(* Batch-Job-Executer-master: the lines between %BEGIN and %END of a batch *)
(* file are run one by one, each a command or a pipeline whose output goes *)
(* to OUTPUT.txt or to a file that is named.  The process that reads the   *)
(* file moves its own standard input and output for the stages of a        *)
(* pipeline, waits for each stage before it forks the next one, and never  *)
(* moves them back.  A child whose execvp fails does not exit: it goes on  *)
(* with the stages and lines that follow, while its parent waits for it    *)
(* and then does the same.  When fork fails, the command is not run and the *)
(* batch goes on.                                                          *)
(*                                                                         *)
(* A line is the sequence of its words and of the blanks beyond those that *)
(* separate them, " ", and a command is the first of its words.  Every     *)
(* line ends with a newline, and a word follows the > or >> of a line.     *)
(* The file fits into one stdio buffer, so every process has all of its    *)
(* lines.                                                                  *)
(***************************************************************************)
EXTENDS Integers, Sequences, SequencesExt, FiniteSets

CONSTANTS Lines,       \* what a line may be: a sequence of words and blanks
          Programs,    \* the programs that can be found, as [reads, writes]
          Batches,     \* what a batch file may be: a sequence of lines
          PipeBuf,     \* what a pipe holds
          ForkFailures \* for how many commands of a batch a fork may fail

-----------------------------------------------------------------------------
(* parseLine and the first half of execute: positions count from 0, so an  *)
(* operator that stands first is taken to be absent.                       *)

ParseLine(line) ==
  LET words == SelectSeq(line, LAMBDA w : w # " ")
  IN  IF Contains(words, "#") THEN SubSeq(words, 1, IndexFirstSubSeq(<<"#">>, words) - 1) ELSE words

ASSUME BatchAssumption ==
  /\ \A b \in Batches : Range(b) \subseteq Lines
  /\ PipeBuf \in Nat \ {0} /\ ForkFailures \in Nat
  /\ \A l \in Lines : ParseLine(l) # <<>> => Last(ParseLine(l)) \notin {">", ">>"}
  /\ \A c \in DOMAIN Programs : Programs[c] \in [reads : BOOLEAN, writes : Nat]

Positions(args, ops) == {i \in 1 .. Len(args) : args[i] \in ops}
Pos(args, op) == Max({0} \cup {i - 1 : i \in Positions(args, {op})})
NumberOfPipes(args) == Cardinality(Positions(args, {"|"}))
WordAt(args, i) == IF i <= Len(args) /\ args[i] \notin {"|", ">", ">>"} THEN args[i] ELSE "NULL"

(* commands[]: as many as there are pipes and one, each from where the one  *)
(* before it ended, at an operator of any kind.                             *)
Commands(args) ==
  IF Pos(args, "|") = 0 THEN <<IF args = <<>> THEN "NULL" ELSE args[1]>>
  ELSE LET cut == <<0>> \o SetToSortSeq(Positions(args, {"|", ">", ">>"}), <)
       IN  [k \in 1 .. NumberOfPipes(args) + 1 |-> WordAt(args, cut[k] + 1)]

(* Where the output of the last command goes.                              *)
Truncates(args) == Pos(args, ">") # 0
Redirect(args) ==
  IF Pos(args, ">") = 0 /\ Pos(args, ">>") = 0 THEN "OUTPUT.txt"
  ELSE IF Pos(args, "|") # 0 THEN Last(args)
  ELSE args[2 + IF Truncates(args) THEN Pos(args, ">") ELSE Pos(args, ">>")]

(* The words and the commands of every line.                               *)
Parsed == [l \in Lines |-> ParseLine(l)]
Cut == [l \in Lines |-> Commands(Parsed[l])]
Files == {Redirect(Parsed[l]) : l \in Lines}
-----------------------------------------------------------------------------
VARIABLES
  batch,   \* the batch file
  procs,   \* the processes that read it, each the child of the one before it
  job,     \* the command that runs, as <<job>>; or <<>>
  pipe,    \* what is in each pipe that was made
  file,    \* what is in each file
  started, \* history: how often each line was started
  unforked \* history: the commands, as <<line, stage>>, whose fork has failed
vars == <<batch, procs, job, pipe, file, started, unforked>>

Tty == <<"tty", 0>>
PipeEnd(n) == <<"pipe", n>>
FileEnd(f) == <<"file", f>>
Ends == {Tty} \cup {FileEnd(f) : f \in Files} \cup {PipeEnd(n) : n \in 1 .. Len(pipe)}
Pieces == Nat \X Nat

(* line and stage are the next to do; in, out, fin and fout are descriptors *)
(* (fout is closed again in the same step).                                 *)
TypeOK ==
  /\ batch \in Seq(Lines)
  /\ \A p \in Range(procs) :
       /\ p.line \in 1 .. Len(batch) + 1 /\ p.flag \in BOOLEAN
       /\ p.line <= Len(batch) => p.stage = 1 \/ p.stage \in 1 .. Len(Cut[batch[p.line]])
       /\ p.in \in Ends /\ p.out \in Ends /\ p.fin \in Ends /\ p.fout \in Ends
  /\ Len(job) <= 1
  /\ \A j \in Range(job) : j.in \in Ends /\ j.out \in Ends /\ j.todo \in Seq(Pieces)
  /\ \A n \in 1 .. Len(pipe) : pipe[n] \in Seq(Pieces) /\ Len(pipe[n]) <= PipeBuf
  /\ file \in [Files -> Seq(Pieces)]
  /\ started \in [1 .. Len(batch) -> Nat]
  /\ unforked \subseteq (1 .. Len(batch)) \X (Nat \ {0})

Init ==
  /\ batch \in Batches
  /\ procs = <<[line |-> 1, flag |-> FALSE, stage |-> 1,
                in |-> Tty, out |-> Tty, fin |-> Tty, fout |-> Tty]>>
  /\ job = <<>> /\ pipe = <<>>
  /\ file = [f \in Files |-> <<>>]
  /\ started = [l \in 1 .. Len(batch) |-> 0]
  /\ unforked = {}
-----------------------------------------------------------------------------
(* main: the last process of procs runs, unless a command runs for it.     *)
(* The marks are compared with the whole line: one with a blank more is    *)
(* an ordinary line.                                                       *)

Me == Last(procs)
Runs == procs # <<>> /\ job = <<>>
KindOf(line) == IF line = <<"%BEGIN">> THEN "begin" ELSE IF line = <<"%END">> THEN "end" ELSE "job"
AtLine(kind) == Runs /\ Me.line <= Len(batch) /\ KindOf(batch[Me.line]) = kind
Args == Parsed[batch[Me.line]]
Stages == Cut[batch[Me.line]]
Found(c) == c \in DOMAIN Programs
Become(p) == procs' = Append(Front(procs), p)

Begin == /\ AtLine("begin")
         /\ Become([Me EXCEPT !.line = @ + 1, !.flag = TRUE])
         /\ UNCHANGED <<batch, job, pipe, file, started, unforked>>

End == /\ AtLine("end")
       /\ Become([Me EXCEPT !.line = @ + 1, !.flag = FALSE])
       /\ UNCHANGED <<batch, job, pipe, file, started, unforked>>

Skip == /\ AtLine("job") /\ ~Me.flag
        /\ Become([Me EXCEPT !.line = @ + 1])
        /\ UNCHANGED <<batch, job, pipe, file, started, unforked>>

(* The end of the batch file: the process exits and its parent goes on.    *)
EndOfFile == /\ Runs /\ Me.line > Len(batch)
             /\ procs' = Front(procs)
             /\ UNCHANGED <<batch, job, pipe, file, started, unforked>>
-----------------------------------------------------------------------------
(* execute and executePipeCommands                                         *)

Advance(p) == IF p.stage < Len(Stages) THEN [p EXCEPT !.stage = @ + 1]
              ELSE [p EXCEPT !.line = @ + 1, !.stage = 1]

Destination == FileEnd(Redirect(Args))
Opened == IF Truncates(Args) THEN file' = [file EXCEPT ![Redirect(Args)] = <<>>] ELSE UNCHANGED file
Started == started' = IF Me.stage = 1 THEN [started EXCEPT ![Me.line] = @ + 1] ELSE started

(* fork fails: an error is printed, and nothing is run or waited for.      *)
NotForked(parent) ==
  /\ Cardinality(unforked) < ForkFailures
  /\ Started /\ unforked' = unforked \cup {<<Me.line, Me.stage>>}
  /\ Become(parent) /\ UNCHANGED job

(* mutated form: the child whose execvp fails exits                        *)
ForkedOrGone(parent, child) ==
  LET c == Stages[Me.stage] IN
  /\ Started /\ UNCHANGED unforked
  /\ \/ /\ Found(c)
        /\ job' = <<[in |-> child.in, out |-> child.out, reads |-> Programs[c].reads, todo |-> <<>>,
                     own |-> [k \in 1 .. Programs[c].writes |-> <<Me.line, Me.stage>>]]>>
     \/ ~Found(c) /\ UNCHANGED job
  /\ Become(parent)

(* fork, execvp and the wait of the parent for the child.                  *)
Forked(parent, child) ==
  LET c == Stages[Me.stage] IN
  /\ Started /\ UNCHANGED unforked
  /\ \/ /\ Found(c)
        /\ job' = <<[in |-> child.in, out |-> child.out, reads |-> Programs[c].reads, todo |-> <<>>,
                     own |-> [k \in 1 .. Programs[c].writes |-> <<Me.line, Me.stage>>]]>>
        /\ Become(parent)
     \/ ~Found(c) /\ procs' = Front(procs) \o <<parent, child>> /\ UNCHANGED job

(* No pipe: the child opens the file, and only its output is moved.        *)
RunCommand ==
  /\ AtLine("job") /\ Me.flag /\ Len(Stages) = 1
  /\ LET p == Advance(Me) IN
     \/ Opened /\ Forked(p, [p EXCEPT !.out = Destination])
     \/ NotForked(p) /\ UNCHANGED file
  /\ UNCHANGED <<batch, pipe>>

(* mutated form: fout stays open in the parent                             *)
RunStageUnclosed ==
  /\ AtLine("job") /\ Me.flag /\ Len(Stages) > 1
  /\ LET last == Me.stage = Len(Stages)
         made == PipeEnd(Len(pipe) + 1)
         to == IF last THEN Destination ELSE made
         p == Advance([Me EXCEPT !.in = IF Me.stage = 1 THEN Me.in ELSE Me.fin,
                                 !.out = to, !.fout = IF last THEN Me.fout ELSE made,
                                 !.fin = IF last THEN Tty ELSE made])
     IN  /\ IF last THEN Opened /\ UNCHANGED pipe
                    ELSE pipe' = Append(pipe, <<>>) /\ UNCHANGED file
         /\ Forked(p, p) \/ NotForked(p)
  /\ UNCHANGED batch

(* One turn of the loop: both ends are moved before the fork, and the read *)
(* end of the new pipe is kept as fin, so it always has a reader.          *)
RunStage ==
  /\ AtLine("job") /\ Me.flag /\ Len(Stages) > 1
  /\ LET last == Me.stage = Len(Stages)
         made == PipeEnd(Len(pipe) + 1)
         p == Advance([Me EXCEPT !.in = IF Me.stage = 1 THEN Me.in ELSE Me.fin,
                                 !.out = IF last THEN Destination ELSE made,
                                 !.fin = IF last THEN Tty ELSE made])
     IN  /\ IF last THEN Opened /\ UNCHANGED pipe
                    ELSE pipe' = Append(pipe, <<>>) /\ UNCHANGED file
         /\ Forked(p, p) \/ NotForked(p)
  /\ UNCHANGED batch
-----------------------------------------------------------------------------
(* The command that runs: a filter passes on what it reads until the end   *)
(* of its input, then (and otherwise at once) what is its own is written.  *)

Job == job[1]
HeldForWriting(n) ==
  \/ \E p \in Range(procs) : PipeEnd(n) \in {p.out, p.fout}
  \/ Job.out = PipeEnd(n)

JobReads ==
  /\ job # <<>> /\ Job.reads /\ Job.todo = <<>> /\ Job.in # Tty
  /\ LET n == Job.in[2] IN
     /\ pipe[n] # <<>>
     /\ job' = <<[Job EXCEPT !.todo = <<Head(pipe[n])>>]>>
     /\ pipe' = [pipe EXCEPT ![n] = Tail(@)]
  /\ UNCHANGED <<batch, procs, file, started, unforked>>

(* The terminal is at its end, too.                                        *)
JobEndOfInput ==
  /\ job # <<>> /\ Job.reads /\ Job.todo = <<>>
  /\ \/ Job.in = Tty
     \/ Job.in # Tty /\ pipe[Job.in[2]] = <<>> /\ ~HeldForWriting(Job.in[2])
  /\ job' = <<[Job EXCEPT !.reads = FALSE]>>
  /\ UNCHANGED <<batch, procs, pipe, file, started, unforked>>

Output(piece) ==
  \/ /\ Job.out[1] = "pipe" /\ Len(pipe[Job.out[2]]) < PipeBuf
     /\ pipe' = [pipe EXCEPT ![Job.out[2]] = Append(@, piece)]
     /\ UNCHANGED file
  \/ /\ Job.out[1] = "file"
     /\ file' = [file EXCEPT ![Job.out[2]] = Append(@, piece)]
     /\ UNCHANGED pipe

JobWrites ==
  /\ job # <<>>
  /\ \/ Job.todo # <<>> /\ Output(Head(Job.todo)) /\ job' = <<[Job EXCEPT !.todo = Tail(@)]>>
     \/ /\ Job.todo = <<>> /\ ~Job.reads /\ Job.own # <<>>
        /\ Output(Head(Job.own)) /\ job' = <<[Job EXCEPT !.own = Tail(@)]>>
  /\ UNCHANGED <<batch, procs, started, unforked>>

JobExits ==
  /\ job # <<>> /\ Job.todo = <<>> /\ ~Job.reads /\ Job.own = <<>>
  /\ job' = <<>>
  /\ UNCHANGED <<batch, procs, pipe, file, started, unforked>>

Next ==
  \/ Begin \/ End \/ Skip \/ EndOfFile \/ RunCommand \/ RunStage
  \/ JobReads \/ JobEndOfInput \/ JobWrites \/ JobExits
Spec == Init /\ [][Next]_vars

(* The one process or command that can go on does.                         *)
FairSpec == Spec /\ WF_vars(Next)
-----------------------------------------------------------------------------
Done == procs = <<>>
InBlock(l) ==
  \E b \in 1 .. l - 1 : /\ KindOf(batch[b]) = "begin"
                        /\ \A k \in b .. l - 1 : KindOf(batch[k]) # "end"
Jobs == {l \in 1 .. Len(batch) : KindOf(batch[l]) = "job" /\ InBlock(l)}
CommandsOf(l) == Cut[batch[l]]
AllStages == UNION {{<<l, s>> : s \in 1 .. Len(CommandsOf(l))} : l \in Jobs}
Cmd(s) == CommandsOf(s[1])[s[2]]
Reads(s) == Found(Cmd(s)) /\ Programs[Cmd(s)].reads
Own(s) == IF Found(Cmd(s)) THEN [k \in 1 .. Programs[Cmd(s)].writes |-> s] ELSE <<>>
Missing == {s \in AllStages : ~Found(Cmd(s))}
Before(s, t) == s[1] < t[1] \/ (s[1] = t[1] /\ s[2] < t[2])

(* A copy of the executer exists only below a command that was not found    *)
(* and that its parent, which is past it, still waits for: they are nested  *)
(* no deeper than such commands came before.                                *)
CopiesAreFailures ==
  procs # <<>> => Len(procs) <= 1 + Cardinality({s \in Missing : Before(s, <<Me.line, Me.stage>>)})

(* Every command that is not found doubles how often what follows is run:   *)
(* a batch that ends has run each line of a block 2^k times, k such         *)
(* commands being before it, and no line outside.  Where a fork fails,      *)
(* there is no copy: then it is that often at most, and once at least.      *)
RunsDouble ==
  Done => \A l \in 1 .. Len(batch) :
    LET most == 2 ^ Cardinality({s \in Missing : s[1] < l}) IN
    IF l \notin Jobs THEN started[l] = 0
    ELSE started[l] \in 1 .. most /\ (unforked = {} => started[l] = most)

(* What a pipeline should print when the stages out were not run: the       *)
(* pieces of each of the others that the stages after it all pass on.       *)
PassedOn(l, from, to, out) ==
  IF <<l, from>> \notin out /\ \A t \in from + 1 .. to : Reads(<<l, t>>) /\ <<l, t>> \notin out
  THEN Own(<<l, from>>) ELSE <<>>
Prints(l, to, out) == FlattenSeq([s \in 1 .. to |-> PassedOn(l, s, to, out)])
Printed(ls) == FlattenSeq([l \in 1 .. Len(batch) |->
                             IF l \in ls THEN Prints(l, Len(CommandsOf(l)), unforked) ELSE <<>>])

RedirectOf(l) == Redirect(Parsed[batch[l]])
NothingLeftInPipes == \A l \in Jobs : LET last == <<l, Len(CommandsOf(l))>> IN
                                     last[2] > 1 => Reads(last) /\ last \notin unforked

(* The child truncates the file of a command, the executer itself that of   *)
(* a pipeline.                                                              *)
Emptied(l) == Truncates(Parsed[batch[l]]) /\ (Len(CommandsOf(l)) = 1 => <<l, 1>> \notin unforked)

(* When every command is found and every last pipe is read, each file holds *)
(* at the end what the lines that name it (or, OUTPUT.txt, that name none)  *)
(* print, in their order, since it was last truncated.                      *)
OutputExact ==
  Done /\ Missing = {} /\ NothingLeftInPipes =>
    \A f \in Files :
      file[f] = Printed({l \in Jobs :
        /\ RedirectOf(l) = f
        /\ \A k \in Jobs : k > l /\ RedirectOf(k) = f => ~Emptied(k)})

(* Who runs what how often, and what it leaves in the files.               *)
BatchInv == TypeOK /\ CopiesAreFailures /\ RunsDouble /\ OutputExact

(* As a stage is waited for before the next one is started, what goes into  *)
(* a pipe has to fit; and the copy of the executer below a stage that is    *)
(* not found waits for ever if it reads: its parent holds the pipe open.    *)
Fits == \A s \in AllStages : s[2] < Len(CommandsOf(s[1])) => Len(Prints(s[1], s[2], {})) <= PipeBuf
NobodyHoldsPipes == \A s \in Missing, t \in AllStages :
  s[2] < Len(CommandsOf(s[1])) /\ Before(s, t) => ~Reads(t)
BatchEnds == Fits /\ NobodyHoldsPipes ~> Done
=============================================================================

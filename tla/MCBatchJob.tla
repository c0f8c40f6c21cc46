---- MODULE MCBatchJob ----
(* Every batch file of up to two of these lines, and of up to three below a *)
(* %BEGIN: the two marks, a %BEGIN with a blank more (as in the             *)
(* repository's bfile:16), a command that prints, one that is not found     *)
(* with a comment, output to a file with > and >>, pipelines with a filter, *)
(* with more output than a pipe holds, with a first stage that is not       *)
(* found, one that does not read, one that takes the word after > for a     *)
(* command, and a | that stands first; and of four of a few of them.        *)
EXTENDS BatchJob
Prog(reads, writes) == [reads |-> reads, writes |-> writes]
MCPrograms == [c \in {"ls", "cat", "big"} |->
  CASE c = "ls" -> Prog(FALSE, 1) [] c = "cat" -> Prog(TRUE, 0) [] c = "big" -> Prog(FALSE, 2)]
MCLines == {
  <<"%BEGIN">>, <<"%BEGIN", " ">>, <<"%END">>, <<"ls">>, <<"cat">>, <<"none", "#", "ls">>,
  <<"ls", ">", "f">>, <<"ls", "|", "cat", ">>", "f">>, <<"ls", "|", "cat", "|", "cat">>,
  <<"big", "|", "cat">>, <<"none", "|", "cat", ">", "f">>,
  <<"ls", ">", "f", "|", "cat">>, <<"|", "cat">>, <<"cat", "|", "ls", ">>", "f">> }
Below(ls, n) == {<<<<"%BEGIN">>>> \o b : b \in [1 .. n -> ls]}
Few == {<<"%BEGIN", " ">>, <<"%END">>, <<"ls">>, <<"none", "#", "ls">>,
        <<"ls", ">", "f">>, <<"ls", "|", "cat", ">>", "f">>}
MCBatches == [1 .. 1 -> MCLines] \cup [1 .. 2 -> MCLines]
             \cup Below(MCLines, 2) \cup Below(MCLines, 3) \cup Below(Few, 4)
====

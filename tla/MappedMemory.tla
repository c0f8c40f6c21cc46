---------------------------- MODULE MappedMemory ----------------------------
(***************************************************************************)
(* Programs that share what they map, with nothing to wait for each other: *)
(*  - file: mmap/write.c, which empties test.txt, stretches it and fills    *)
(*    its integers 1 .. NUMINTS, and mmap/read.c, which prints them.  The   *)
(*    last of them lies behind the end of the file, in the rest of a page;  *)
(*  - object: pshm_write.c, which resizes the object of its name and copies *)
(*    a message into it, and pshm_read.c, which shows as much as the object *)
(*    had when it looked.  Both create it, and nobody removes it.           *)
(***************************************************************************)
EXTENDS Integers

CONSTANTS Cells  \* integers of the file, characters of the message

VARIABLES kind,     \* "file" or "object"
          exists, full, \* whether it is there; has its size, or is empty
          written,  \* the cells that hold what a writer puts there; others hold 0
          at, done, \* per process: where it is; cells it is done with
          shown,    \* cells the reader has shown with what a writer put there
          quiet     \* history: the reader began after a write, and none began since
vars == <<kind, exists, full, written, at, done, shown, quiet>>

Writers == {"writer1", "writer2"}
Procs == Writers \cup {"reader"}
All == 1 .. Cells
InFile == IF kind = "file" THEN All \ {Cells} ELSE All

TypeOK ==
  /\ kind \in {"file", "object"} /\ exists \in BOOLEAN /\ full \in BOOLEAN /\ quiet \in BOOLEAN
  /\ written \subseteq All /\ shown \subseteq All
  /\ at \in [Procs -> {"start", "stretch", "copy", "show", "ended", "failed", "SIGBUS"}]
  /\ done \in [Procs -> SUBSET All]

Init ==
  /\ kind \in {"file", "object"} /\ exists = FALSE /\ full = FALSE /\ written = {}
  /\ at = [p \in Procs |-> "start"] /\ done = [p \in Procs |-> {}]
  /\ shown = {} /\ quiet = FALSE

Goes(p, to) == at' = [at EXCEPT ![p] = to]
Lowest(S) == CHOOSE i \in All \ S : \A j \in All \ S : i <= j
-----------------------------------------------------------------------------
(* open with O_TRUNC, or shm_open, which leaves an object as it is.        *)
OpenToWrite(w) ==
  /\ at[w] = "start" /\ Goes(w, "stretch") /\ exists' = TRUE /\ quiet' = FALSE
  /\ IF kind = "file" THEN full' = FALSE /\ written' = {} ELSE UNCHANGED <<full, written>>
  /\ UNCHANGED <<kind, done, shown>>

(* lseek and write of a byte; ftruncate.  Then it is mapped.               *)
Stretch(w) ==
  /\ at[w] = "stretch" /\ Goes(w, "copy") /\ full' = TRUE
  /\ UNCHANGED <<kind, exists, written, done, shown, quiet>>

(* memcpy may copy in any order.  Another writer may have emptied the file. *)
Copy(w) ==
  /\ at[w] = "copy"
  /\ IF ~full THEN Goes(w, "SIGBUS") /\ UNCHANGED <<written, done>>
     ELSE \E i \in All \ done[w] :
       /\ kind = "file" => i = Lowest(done[w])
       /\ written' = written \cup {i} /\ done' = [done EXCEPT ![w] = @ \cup {i}]
       /\ Goes(w, IF done'[w] = All THEN "ended" ELSE "copy")
  /\ UNCHANGED <<kind, exists, full, shown, quiet>>

(* What lies behind the end is not part of the file: it is lost when the   *)
(* page is written back.                                                   *)
WriteBack ==
  /\ kind = "file" /\ Cells \in written /\ written' = written \ {Cells}
  /\ UNCHANGED <<kind, exists, full, at, done, shown, quiet>>

OpenToRead ==
  /\ at["reader"] = "start"
  /\ Goes("reader", IF kind = "file" /\ ~exists THEN "failed"
                    ELSE IF kind = "object" /\ ~full THEN "ended" ELSE "show")
  /\ exists' = (exists \/ kind = "object")
  /\ quiet' = ((\E w \in Writers : at[w] = "ended") /\ \A w \in Writers : at[w] \in {"start", "ended"})
  /\ UNCHANGED <<kind, full, written, done, shown>>

Show ==
  /\ at["reader"] = "show"
  /\ IF ~full THEN Goes("reader", "SIGBUS") /\ UNCHANGED <<shown, done>>
     ELSE LET i == Lowest(done["reader"]) IN
       /\ shown' = IF i \in written THEN shown \cup {i} ELSE shown
       /\ done' = [done EXCEPT !["reader"] = @ \cup {i}]
       /\ Goes("reader", IF done'["reader"] = All THEN "ended" ELSE "show")
  /\ UNCHANGED <<kind, exists, full, written, quiet>>

Step(p) == (p \in Writers /\ (OpenToWrite(p) \/ Stretch(p) \/ Copy(p))) \/ (p = "reader" /\ (OpenToRead \/ Show))
Next == WriteBack \/ \E p \in Procs : Step(p)
Spec == Init /\ [][Next]_vars
-----------------------------------------------------------------------------
(* A reader that begins after a write, and that no writer gets in the way   *)
(* of, shows all that was written, but perhaps for what lies behind the end *)
(* of the file; it is killed only if a writer emptied the file meanwhile,   *)
(* and a writer only if there were two.  An object is never too short.      *)
MappedInv ==
  /\ TypeOK
  /\ quiet /\ at["reader"] = "ended" => InFile \subseteq shown
  /\ at["reader"] = "SIGBUS" => kind = "file" /\ ~quiet
  /\ \A w \in Writers : at[w] = "SIGBUS" => kind = "file" /\ \A v \in Writers : at[v] # "start"
=============================================================================

-------------------------- MODULE PokemonFile_proofs --------------------------
(***************************************************************************)
(* Theorems about PokemonFile, for any number of operations, coordinates,  *)
(* amounts and restarts.                                                   *)
(***************************************************************************)
EXTENDS PokemonFile, ListTheorems

Inside == {"looking", "marking"}
Filling == {"write", "post"}
Pcs == {"begin", "waiting"} \cup Ended \cup Inside \cup Holding \cup Creating

(* What the proofs need of types; of the lines, nothing.                   *)
Types ==
  /\ dir \in BOOLEAN
  /\ open \in {"N", "S", NoFile}
  /\ sem \in {NoSem} \cup Nat

Shape ==
  /\ ops = [t \in Threads |-> ops[t]]
  /\ \A t \in Threads : DOMAIN ops[t] = {"msg", "pc", "copy"} /\ ops[t].pc \in Pcs

(* Without a semaphore no operation got further than asking for it.        *)
NoSemInv ==
  sem = NoSem => \A t \in Threads : /\ ops[t].pc \in {"begin", "create"} \cup Ended
                                    /\ ops[t].pc = "begin" => dir

(* Whoever makes the file is alone, and nobody can take the semaphore,     *)
(* unless it is that of a file removed before.                             *)
CreateInv ==
  sem = NoSem \/ "removed" \notin faults =>
    \A t \in Threads : ops[t].pc = "create" =>
      /\ dir /\ open = NoFile /\ sem \in {NoSem, 0}
      /\ \A u \in Threads \ {t} : ops[u].pc \notin Creating \cup Inside \cup Holding

(* The semaphore admits one: it is 0 while an operation is inside, and     *)
(* until the one that makes the file posts it.                             *)
GateInv ==
  "recreated" \notin faults =>
    /\ sem \in {NoSem, 0, 1}
    /\ \A t \in Threads : ops[t].pc \in Inside \cup Filling => sem = 0
    /\ \A t, u \in Threads : t # u /\ ops[t].pc \in Inside => ops[u].pc \notin Inside
    /\ \A t, u \in Threads : t # u /\ ops[t].pc \in Filling =>
         ops[u].pc \notin Filling \cup Inside \cup Holding

(* Before the first removal the directory stays, and so does the file once *)
(* it is written.                                                          *)
DirInv ==
  /\ ~dir => open = NoFile
  /\ ~dir /\ "removed" \notin faults => sem = NoSem /\ \A t \in Threads : ops[t].pc \in Ended
  /\ "recreated" \in faults => "removed" \in faults
  /\ \A t \in Threads : ops[t].pc = "rmdir" => "removed" \in faults

FileInv ==
  "removed" \notin faults =>
    /\ "crashed" \notin faults
    /\ sem = 1 => open # NoFile
    /\ \A t \in Threads : /\ ops[t].pc \in Inside \cup Holding \cup {"post"} => open # NoFile
                          /\ ops[t].pc = "write" => dir

(* The flag keeps others out of an open file, and is read as closed only   *)
(* when nobody has it open.                                                *)
FlagInv ==
  "early" \notin faults /\ "recreated" \notin faults =>
    /\ \A t \in Threads : /\ ops[t].pc \in Holding \ {"rmdir"} => open = "S"
                          /\ ops[t].pc = "rmdir" => open = NoFile
    /\ \A t, u \in Threads : ops[t].pc = "marking" => open = "N" /\ ops[u].pc \notin Holding
    /\ \A t, u \in Threads : t # u /\ ops[t].pc \in Holding => ops[u].pc \notin Holding

(* Unless the process stopped, a file that is missing from its directory   *)
(* is about to be written, or the directory to go, and a semaphore of 0 to *)
(* be posted.                                                              *)
Some(pcs) == \E t \in Threads : ops[t].pc \in pcs
Missing == {"create", "write", "rmdir"}
Posting == Inside \cup Creating

PostInv ==
  "stoppedInside" \notin faults =>
    /\ dir /\ open = NoFile => Some(Missing)
    /\ sem = 0 /\ "recreated" \notin faults => Some(Posting)

IInv == Types /\ Shape /\ NoSemInv /\ CreateInv /\ GateInv /\ DirInv /\ FileInv /\ FlagInv /\ PostInv

LEMMA AtMostOne ==
  ASSUME NEW S, \A x, y \in S : x = y
  PROVE  Cardinality(S) \in {0, 1} /\ (Cardinality(S) = 0 <=> S = {})
<1>1. CASE S = {}
  BY <1>1, FS_EmptySet
<1>2. CASE S # {}
  <2>1. PICK x \in S : S = {x}
    BY <1>2
  <2> QED BY <2>1, FS_Singleton
<1> QED BY <1>1, <1>2

(* A step of t moves its pc to p, and no other's. *)
Moves(t, p) ==
  /\ ops' = [u \in Threads |-> ops'[u]]
  /\ \A u \in Threads : DOMAIN ops'[u] = {"msg", "pc", "copy"}
  /\ ops'[t].pc = p
  /\ \A u \in Threads \ {t} : ops'[u].pc = ops[u].pc

LEMMA MovesGoto ==
  ASSUME Shape, NEW t \in Threads, NEW p, Goto(t, p) PROVE Moves(t, p)
BY DEF Shape, Goto, Moves

LEMMA MovesGotoWith ==
  ASSUME Shape, NEW t \in Threads, NEW p, NEW ls, GotoWith(t, p, ls) PROVE Moves(t, p)
BY DEF Shape, GotoWith, Moves

LEMMA MovesFinish ==
  ASSUME Shape, NEW t \in Threads, NEW p, Finish(t, p) PROVE Moves(t, p)
BY DEF Shape, Finish, Idle, Moves

LEMMA SomeStays ==
  ASSUME NEW t \in Threads, NEW p, Moves(t, p), NEW S, ops[t].pc \in S => p \in S, Some(S)
  PROVE  Some(S)'
BY DEF Moves, Some

LEMMA SomeHere ==
  ASSUME NEW t \in Threads, NEW p, Moves(t, p), NEW S, p \in S
  PROVE  Some(S)'
BY DEF Moves, Some

LEMMA MovesStart ==
  ASSUME Shape, NEW t \in Threads, NEW m, Start(t, m)
  PROVE  \E p \in {"begin", "create", "done"} :
           /\ Moves(t, p)
           /\ p = "begin" <=> dir
           /\ p = "create" <=> (~dir /\ m.kind = "new")
BY DEF Shape, Start, Moves

(* Where every operation ends, for a stop. *)
LEMMA StopEnds ==
  ASSUME Shape, NEW why, Stop(why)
  PROVE  /\ ops' = [t \in Threads |-> ops'[t]]
         /\ \A t \in Threads : DOMAIN ops'[t] = {"msg", "pc", "copy"} /\ ops'[t].pc \in Ended
         /\ sem' = NoSem /\ UNCHANGED disk
BY DEF Shape, Stop, Ended, Idle

USE DEF Pcs, Ended, Inside, Holding, Creating, Filling, NoFile, NoSem

LEMMA StartKeeps ==
  ASSUME IInv, NEW t \in Threads, NEW m, Start(t, m)
  PROVE  IInv'
<1>1. PICK p \in {"begin", "create", "done"} :
        Moves(t, p) /\ (p = "begin" <=> dir) /\ (p = "create" <=> (~dir /\ m.kind = "new"))
  BY MovesStart DEF IInv
<1>2. /\ ops[t].pc = "idle" /\ UNCHANGED <<open, sem, faults>>
      /\ dir' = (dir \/ m.kind = "new")
  BY DEF Start, disk, process, history
<1>3. Types' /\ Shape'
  BY <1>1, <1>2 DEF IInv, Types, Shape, Moves
<1>4. NoSemInv'
  BY <1>1, <1>2 DEF IInv, Types, NoSemInv, Moves
<1>5. CreateInv'
  BY <1>1, <1>2, ZenonT(30) DEF IInv, Types, CreateInv, Moves, DirInv, NoSemInv
<1>6. GateInv'
  BY <1>1, <1>2 DEF IInv, Types, GateInv, Moves
<1>7. DirInv'
  BY <1>1, <1>2 DEF IInv, Types, DirInv, Moves
<1>8. FileInv'
  BY <1>1, <1>2 DEF IInv, Types, FileInv, Moves
<1>9. FlagInv'
  BY <1>1, <1>2 DEF IInv, Types, FlagInv, Moves
<1>10. PostInv'
  <2>1. Some(Missing) => Some(Missing)'
    BY <1>1, <1>2, SomeStays DEF Missing
  <2>2. Some(Posting) => Some(Posting)'
    BY <1>1, <1>2, SomeStays DEF Posting
  <2>3. dir' => dir \/ Some(Missing)'
    BY <1>1, <1>2, SomeHere DEF Missing
  <2> QED BY <1>2, <2>1, <2>2, <2>3 DEF IInv, Types, PostInv
<1> QED BY <1>3, <1>4, <1>5, <1>6, <1>7, <1>8, <1>9, <1>10 DEF IInv

LEMMA GetSemaphoreKeeps ==
  ASSUME IInv, NEW t \in Threads, GetSemaphore(t)
  PROVE  IInv'
<1>1. Moves(t, "waiting")
  BY MovesGoto DEF IInv, GetSemaphore
<1>2. /\ ops[t].pc = "begin" /\ UNCHANGED <<dir, open, faults>>
      /\ sem' = IF sem # -1 THEN sem ELSE IF open = "none" THEN 0 ELSE 1
  BY DEF GetSemaphore, Semaphore, disk, process, history
<1>3. Types' /\ Shape'
  BY <1>1, <1>2 DEF IInv, Types, Shape, Moves
<1>4. NoSemInv'
  BY <1>1, <1>2 DEF IInv, Types, NoSemInv, Moves
<1>5. CreateInv'
  BY <1>1, <1>2 DEF IInv, Types, CreateInv, Moves, NoSemInv
<1>6. GateInv'
  BY <1>1, <1>2 DEF IInv, Types, GateInv, Moves, NoSemInv
<1>7. DirInv'
  BY <1>1, <1>2 DEF IInv, Types, DirInv, Moves
<1>8. FileInv'
  BY <1>1, <1>2 DEF IInv, Types, FileInv, Moves
<1>9. FlagInv'
  BY <1>1, <1>2 DEF IInv, Types, FlagInv, Moves
<1>10. PostInv'
  <2>1. Some(Missing) => Some(Missing)'
    BY <1>1, <1>2, SomeStays DEF Missing
  <2>2. Some(Posting) => Some(Posting)'
    BY <1>1, <1>2, SomeStays DEF Posting
  <2>3. sem = NoSem => dir /\ (Some(Missing) => Some(Posting))
    BY <1>2 DEF IInv, NoSemInv, Some, Missing, Posting
  <2> QED BY <1>2, <2>1, <2>2, <2>3 DEF IInv, Types, PostInv
<1> QED BY <1>3, <1>4, <1>5, <1>6, <1>7, <1>8, <1>9, <1>10 DEF IInv

LEMMA WaitKeeps ==
  ASSUME IInv, NEW t \in Threads, Wait(t)
  PROVE  IInv'
<1>1. Moves(t, "looking")
  BY MovesGoto DEF IInv, Wait
<1>2. /\ ops[t].pc = "waiting" /\ UNCHANGED <<dir, open, faults>>
      /\ sem > 0 /\ sem' = sem - 1
  BY DEF Wait, disk, process, history
<1>3. Types' /\ Shape'
  BY <1>1, <1>2 DEF IInv, Types, Shape, Moves
<1>4. NoSemInv'
  BY <1>1, <1>2 DEF IInv, Types, NoSemInv, Moves
<1>5. CreateInv'
  BY <1>1, <1>2 DEF IInv, Types, CreateInv, Moves
<1>6. GateInv'
  BY <1>1, <1>2 DEF IInv, Types, GateInv, Moves
<1>7. DirInv'
  BY <1>1, <1>2 DEF IInv, Types, DirInv, Moves
<1>8. FileInv'
  BY <1>1, <1>2 DEF IInv, Types, FileInv, Moves, GateInv, DirInv
<1>9. FlagInv'
  BY <1>1, <1>2 DEF IInv, Types, FlagInv, Moves
<1>10. PostInv'
  <2>1. Some(Missing) => Some(Missing)'
    BY <1>1, <1>2, SomeStays DEF Missing
  <2>2. Some(Posting)'
    BY <1>1, SomeHere DEF Posting
  <2> QED BY <1>2, <2>1, <2>2 DEF IInv, PostInv
<1> QED BY <1>3, <1>4, <1>5, <1>6, <1>7, <1>8, <1>9, <1>10 DEF IInv

(* A stop ends every operation; where it leaves a file without its         *)
(* directory's operation, it is marked.                                    *)
LEMMA StopKeeps ==
  ASSUME IInv, NEW why, Stop(why), why = {} \/ (why = {"crashed"} /\ "removed" \in faults)
  PROVE  IInv'
<1>1. /\ ops' = [t \in Threads |-> ops'[t]]
      /\ \A t \in Threads : DOMAIN ops'[t] = {"msg", "pc", "copy"} /\ ops'[t].pc \in Ended
      /\ sem' = NoSem
  BY StopEnds DEF IInv
<1>2. /\ UNCHANGED <<dir, open>>
      /\ faults \subseteq faults'
      /\ \A f \in {"early", "recreated", "removed"} : f \in faults' <=> f \in faults
      /\ "crashed" \in faults' => "crashed" \in faults \/ "removed" \in faults
      /\ Some(Missing) => "stoppedInside" \in faults'
  BY DEF Stop, disk, At, Some, Missing
<1>3. Types' /\ Shape'
  BY <1>1, <1>2 DEF IInv, Types, Shape
<1>4. NoSemInv' /\ CreateInv' /\ GateInv' /\ FlagInv'
  BY <1>1 DEF NoSemInv, CreateInv, GateInv, FlagInv
<1>5. DirInv' /\ FileInv'
  BY <1>1, <1>2 DEF IInv, DirInv, FileInv
<1>6. PostInv'
  BY <1>1, <1>2 DEF IInv, PostInv
<1> QED BY <1>3, <1>4, <1>5, <1>6 DEF IInv

(* The steps of an operation on an open file that leave directory, flag    *)
(* and semaphore as they are.                                              *)
LEMMA QuietKeeps ==
  ASSUME IInv, NEW t \in Threads, NEW p \in (Holding \ {"rmdir"}) \cup {"done"}, Moves(t, p),
         ops[t].pc \in Holding \ {"rmdir"}, UNCHANGED <<dir, open, sem>>, faults \subseteq faults',
         \A f \in {"early", "recreated", "removed", "crashed", "stoppedInside"} :
           f \in faults' => f \in faults
  PROVE  IInv'
<1>2. /\ Moves(t, p) /\ ops[t].pc \in Holding \ {"rmdir"} /\ UNCHANGED <<dir, open, sem>>
      /\ faults \subseteq faults'
      /\ \A f \in {"early", "recreated", "removed", "crashed", "stoppedInside"} :
           f \in faults' <=> f \in faults
  OBVIOUS
<1>3. Types' /\ Shape'
  BY <1>2 DEF IInv, Types, Shape, Moves
<1>4. NoSemInv'
  BY <1>2 DEF IInv, Types, NoSemInv, Moves
<1>5. CreateInv'
  BY <1>2 DEF IInv, Types, CreateInv, Moves
<1>6. GateInv'
  BY <1>2 DEF IInv, Types, GateInv, Moves
<1>7. DirInv'
  BY <1>2 DEF IInv, Types, DirInv, Moves
<1>8. FileInv'
  BY <1>2 DEF IInv, Types, FileInv, Moves
<1>9. FlagInv'
  BY <1>2 DEF IInv, Types, FlagInv, Moves
<1>10. PostInv'
  <2>1. Some(Missing) => Some(Missing)'
    BY <1>2, SomeStays DEF Missing
  <2>2. Some(Posting) => Some(Posting)'
    BY <1>2, SomeStays DEF Posting
  <2> QED BY <1>2, <2>1, <2>2 DEF IInv, PostInv
<1> QED BY <1>3, <1>4, <1>5, <1>6, <1>7, <1>8, <1>9, <1>10 DEF IInv

LEMMA SetFlagKeeps ==
  ASSUME IInv, NEW t \in Threads, SetFlag(t)
  PROVE  IInv'
<1>1. Moves(t, "reading")
  BY MovesGoto DEF IInv, SetFlag
<1>2. /\ ops[t].pc = "marking" /\ UNCHANGED <<dir, faults>>
      /\ sem' = sem + 1 /\ open' = IF dir THEN "S" ELSE open
  BY DEF SetFlag, disk, process, history
<1>3. Types' /\ Shape'
  BY <1>1, <1>2 DEF IInv, Types, Shape, Moves
<1>4. NoSemInv'
  BY <1>1, <1>2 DEF IInv, Types, NoSemInv, Moves, GateInv
<1>5. CreateInv'
  BY <1>1, <1>2 DEF IInv, Types, CreateInv, Moves, NoSemInv, DirInv
<1>6. GateInv'
  BY <1>1, <1>2 DEF IInv, Types, GateInv, Moves, NoSemInv
<1>7. DirInv'
  BY <1>1, <1>2 DEF IInv, Types, DirInv, Moves
<1>8. FileInv'
  BY <1>1, <1>2 DEF IInv, Types, FileInv, Moves
<1>9. FlagInv'
  BY <1>1, <1>2 DEF IInv, Types, FlagInv, Moves, DirInv, GateInv
<1>10. PostInv'
  <2>1. Some(Missing) => Some(Missing)'
    BY <1>1, <1>2, SomeStays DEF Missing
  <2>2. sem # NoSem
    BY <1>2 DEF IInv, NoSemInv
  <2> QED BY <1>2, <2>1, <2>2 DEF IInv, Types, PostInv
<1> QED BY <1>3, <1>4, <1>5, <1>6, <1>7, <1>8, <1>9, <1>10 DEF IInv

LEMMA ReadFlagKeeps ==
  ASSUME IInv, NEW t \in Threads, ReadFlag(t)
  PROVE  IInv'
<1>1. CASE open = NoFile /\ Stop({"crashed"})
  <2>1. "removed" \in faults
    BY <1>1 DEF ReadFlag, IInv, FileInv
  <2> QED BY <1>1, <2>1, StopKeeps
<1>2. CASE open = "N" /\ Goto(t, "marking") /\ UNCHANGED <<disk, sem, process, history>>
<2>1. Moves(t, "marking")
  BY <1>2, MovesGoto DEF IInv
<2>2. /\ ops[t].pc = "looking" /\ open = "N" /\ UNCHANGED <<dir, open, sem, faults>>
  BY <1>2 DEF ReadFlag, disk, process, history
<2>3. Types' /\ Shape'
  BY <2>1, <2>2 DEF IInv, Types, Shape, Moves
<2>4. NoSemInv'
  BY <2>1, <2>2 DEF IInv, Types, NoSemInv, Moves
<2>5. CreateInv'
  BY <2>1, <2>2 DEF IInv, Types, CreateInv, Moves
<2>6. GateInv'
  BY <2>1, <2>2 DEF IInv, Types, GateInv, Moves
<2>7. DirInv'
  BY <2>1, <2>2 DEF IInv, Types, DirInv, Moves
<2>8. FileInv'
  BY <2>1, <2>2 DEF IInv, Types, FileInv, Moves
<2>9. FlagInv'
  BY <2>1, <2>2 DEF IInv, Types, FlagInv, Moves
<2>10. PostInv'
  <3>1. Some(Missing) => Some(Missing)'
    BY <2>1, <2>2, SomeStays DEF Missing
  <3>2. Some(Posting) => Some(Posting)'
    BY <2>1, <2>2, SomeStays DEF Posting
  <3> QED BY <2>2, <3>1, <3>2 DEF IInv, PostInv
<2> QED BY <2>3, <2>4, <2>5, <2>6, <2>7, <2>8, <2>9, <2>10 DEF IInv
<1>3. CASE open = "S" /\ Goto(t, "waiting") /\ sem' = sem + 1 /\ UNCHANGED <<disk, process, history>>
<2>1. Moves(t, "waiting")
  BY <1>3, MovesGoto DEF IInv
<2>2. /\ ops[t].pc = "looking" /\ open = "S" /\ sem' = sem + 1 /\ UNCHANGED <<dir, open, faults>>
  BY <1>3 DEF ReadFlag, disk, process, history
<2>3. Types' /\ Shape'
  BY <2>1, <2>2 DEF IInv, Types, Shape, Moves
<2>4. NoSemInv'
  BY <2>1, <2>2 DEF IInv, Types, NoSemInv, Moves, GateInv
<2>5. CreateInv'
  BY <2>1, <2>2 DEF IInv, Types, CreateInv, Moves, NoSemInv
<2>6. GateInv'
  BY <2>1, <2>2 DEF IInv, Types, GateInv, Moves, NoSemInv
<2>7. DirInv'
  BY <2>1, <2>2 DEF IInv, Types, DirInv, Moves
<2>8. FileInv'
  BY <2>1, <2>2 DEF IInv, Types, FileInv, Moves
<2>9. FlagInv'
  BY <2>1, <2>2 DEF IInv, Types, FlagInv, Moves
<2>10. PostInv'
  <3>1. Some(Missing) => Some(Missing)'
    BY <2>1, <2>2, SomeStays DEF Missing
  <3>2. sem # NoSem
    BY <2>2 DEF IInv, NoSemInv
  <3> QED BY <2>2, <3>1, <3>2 DEF IInv, Types, PostInv
<2> QED BY <2>3, <2>4, <2>5, <2>6, <2>7, <2>8, <2>9, <2>10 DEF IInv
<1> QED BY <1>1, <1>2, <1>3 DEF ReadFlag

(* What is read, and what is to be written, is nothing to the exclusion. *)
LEMMA ReadFileKeeps ==
  ASSUME IInv, NEW t \in Threads, ReadFile(t)
  PROVE  IInv'
<1>1. CASE open = NoFile /\ Stop({"crashed"})
  <2>1. "removed" \in faults
    BY <1>1 DEF ReadFile, IInv, FileInv
  <2> QED BY <1>1, <2>1, StopKeeps
<1>2. CASE GotoWith(t, "working", lines) /\ UNCHANGED <<disk, sem, process, history>>
  <2>1. Moves(t, "working")
    BY <1>2, MovesGotoWith DEF IInv
  <2>2. ops[t].pc = "reading" /\ UNCHANGED <<dir, open, sem, faults>>
    BY <1>2 DEF ReadFile, disk, history
  <2> QED BY <2>1, <2>2, QuietKeeps
<1> QED BY <1>1, <1>2 DEF ReadFile

LEMMA WorkKeeps ==
  ASSUME IInv, NEW t \in Threads, Work(t)
  PROVE  IInv'
<1>1. CASE WorkNew(t)
  <2>1. /\ ops[t].pc = "working" /\ UNCHANGED <<dir, open, sem>>
        /\ faults \subseteq faults' /\ faults' \subseteq faults \cup {"mistaken"}
        /\ \E p \in {"saving", "growing", "rewriting"} : \E ls : GotoWith(t, p, ls)
    BY <1>1 DEF WorkNew, disk
  <2>2. PICK p \in {"saving", "growing", "rewriting"} : Moves(t, p)
    BY <2>1, MovesGotoWith DEF IInv
  <2> QED BY <2>1, <2>2, QuietKeeps
<1>2. CASE WorkGet(t)
  <2>1. Moves(t, "closing")
    BY <1>2, MovesGoto DEF WorkGet, IInv
  <2>2. ops[t].pc = "working" /\ UNCHANGED <<dir, open, sem, faults>>
    BY <1>2 DEF WorkGet, disk, history
  <2> QED BY <2>1, <2>2, QuietKeeps
<1>3. CASE WorkCatch(t)
  <2>1. /\ ops[t].pc = "working" /\ UNCHANGED <<dir, open, sem>>
        /\ faults \subseteq faults'
        /\ faults' \subseteq faults \cup {"leftOpen", "mistaken", "shrunk"}
        /\ \/ Finish(t, "done")
           \/ \E p \in {"rewriting", "saving", "removing"} : \E ls : GotoWith(t, p, ls)
    BY <1>3 DEF WorkCatch, disk
  <2>2. PICK p \in {"done", "rewriting", "saving", "removing"} : Moves(t, p)
    BY <2>1, MovesGotoWith, MovesFinish DEF IInv
  <2> QED BY <2>1, <2>2, QuietKeeps
<1> QED BY <1>1, <1>2, <1>3 DEF Work

LEMMA RewriteKeeps ==
  ASSUME IInv, NEW t \in Threads, Rewrite(t)
  PROVE  IInv'
<1>1. PICK p \in {"closing", "done"} : Moves(t, p)
  BY MovesGoto, MovesFinish DEF Rewrite, IInv
<1>2. /\ ops[t].pc = "rewriting" /\ UNCHANGED <<dir, open, sem>>
      /\ faults' = faults \/ faults' = faults \cup {"leftOpen"}
  BY DEF Rewrite
<1> QED BY <1>1, <1>2, QuietKeeps

LEMMA SaveKeeps ==
  ASSUME IInv, NEW t \in Threads, Save(t)
  PROVE  IInv'
<1>1. Moves(t, "closing")
  BY MovesGoto DEF IInv, Save
<1>2. /\ ops[t].pc \in {"saving", "growing"} /\ UNCHANGED <<dir, sem>>
      /\ faults' = faults \cup (IF ops[t].pc = "growing" THEN {"early"} ELSE {})
      /\ open' = IF ~dir THEN open ELSE IF ops[t].pc = "saving" THEN "S" ELSE "N"
  BY DEF Save
<1>3. Types' /\ Shape'
  BY <1>1, <1>2 DEF IInv, Types, Shape, Moves
<1>4. NoSemInv'
  BY <1>1, <1>2 DEF IInv, Types, NoSemInv, Moves
<1>5. CreateInv'
  BY <1>1, <1>2 DEF IInv, Types, CreateInv, Moves, NoSemInv
<1>6. GateInv'
  BY <1>1, <1>2 DEF IInv, Types, GateInv, Moves
<1>7. DirInv'
  BY <1>1, <1>2 DEF IInv, Types, DirInv, Moves, NoSemInv
<1>8. FileInv'
  BY <1>1, <1>2 DEF IInv, Types, FileInv, Moves, DirInv
<1>9. FlagInv'
  BY <1>1, <1>2 DEF IInv, Types, FlagInv, Moves, DirInv
<1>10. PostInv'
  <2>1. Some(Missing) => Some(Missing)'
    BY <1>1, <1>2, SomeStays DEF Missing
  <2>2. Some(Posting) => Some(Posting)'
    BY <1>1, <1>2, SomeStays DEF Posting
  <2> QED BY <1>2, <2>1, <2>2 DEF IInv, Types, PostInv
<1> QED BY <1>3, <1>4, <1>5, <1>6, <1>7, <1>8, <1>9, <1>10 DEF IInv

LEMMA CloseKeeps ==
  ASSUME IInv, NEW t \in Threads, Close(t)
  PROVE  IInv'
<1>1. CASE open = NoFile /\ Stop({"crashed"})
  <2>1. "removed" \in faults
    BY <1>1 DEF Close, IInv, FileInv
  <2> QED BY <1>1, <2>1, StopKeeps
<1>2. CASE /\ open # NoFile /\ open' = "N" /\ Finish(t, "done")
           /\ UNCHANGED <<dir, lines, sem, process, history>>
<2>1. Moves(t, "done")
    BY <1>2, MovesFinish DEF IInv
  <2>2. /\ ops[t].pc = "closing" /\ UNCHANGED <<dir, sem, faults>>
        /\ open # "none" /\ open' = "N"
    BY <1>2 DEF Close, history
  <2>3. Types' /\ Shape'
    BY <2>1, <2>2 DEF IInv, Types, Shape, Moves
  <2>4. NoSemInv'
    BY <2>1, <2>2 DEF IInv, Types, NoSemInv, Moves
  <2>5. CreateInv'
    BY <2>1, <2>2 DEF IInv, Types, CreateInv, Moves, NoSemInv
  <2>6. GateInv'
    BY <2>1, <2>2 DEF IInv, Types, GateInv, Moves
  <2>7. DirInv'
    BY <2>1, <2>2 DEF IInv, Types, DirInv, Moves
  <2>8. FileInv'
    BY <2>1, <2>2 DEF IInv, Types, FileInv, Moves
  <2>9. FlagInv'
    BY <2>1, <2>2 DEF IInv, Types, FlagInv, Moves
  <2>10. PostInv'
    <3>1. Some(Missing) => Some(Missing)'
      BY <2>1, <2>2, SomeStays DEF Missing
    <3>2. Some(Posting) => Some(Posting)'
      BY <2>1, <2>2, SomeStays DEF Posting
    <3> QED BY <2>2, <3>1, <3>2 DEF IInv, Types, PostInv
  <2> QED BY <2>3, <2>4, <2>5, <2>6, <2>7, <2>8, <2>9, <2>10 DEF IInv
<1> QED BY <1>1, <1>2 DEF Close

LEMMA RemoveFileKeeps ==
  ASSUME IInv, NEW t \in Threads, RemoveFile(t)
  PROVE  IInv'
<1>1. Moves(t, "rmdir")
  BY MovesGoto DEF IInv, RemoveFile
<1>2. /\ ops[t].pc = "removing" /\ UNCHANGED <<dir, sem>>
      /\ faults' = faults \cup {"removed"} /\ open' = "none"
  BY DEF RemoveFile
<1>3. Types' /\ Shape'
  BY <1>1, <1>2 DEF IInv, Types, Shape, Moves
<1>4. NoSemInv'
  BY <1>1, <1>2 DEF IInv, Types, NoSemInv, Moves
<1>5. CreateInv'
  BY <1>1, <1>2 DEF IInv, Types, CreateInv, Moves, NoSemInv
<1>6. GateInv'
  BY <1>1, <1>2 DEF IInv, Types, GateInv, Moves
<1>7. DirInv'
  BY <1>1, <1>2 DEF IInv, Types, DirInv, Moves
<1>8. FileInv'
  BY <1>1, <1>2 DEF IInv, Types, FileInv, Moves
<1>9. FlagInv'
  BY <1>1, <1>2 DEF IInv, Types, FlagInv, Moves
<1>10. PostInv'
  <2>1. Some(Missing)'
    BY <1>1, <1>2, SomeHere DEF Missing
  <2>2. Some(Posting) => Some(Posting)'
    BY <1>1, <1>2, SomeStays DEF Posting
  <2> QED BY <1>2, <2>1, <2>2 DEF IInv, Types, PostInv
<1> QED BY <1>3, <1>4, <1>5, <1>6, <1>7, <1>8, <1>9, <1>10 DEF IInv

LEMMA RemoveDirectoryKeeps ==
  ASSUME IInv, NEW t \in Threads, RemoveDirectory(t)
  PROVE  IInv'
<1>1. Moves(t, "done")
  BY MovesFinish DEF IInv, RemoveDirectory
<1>2. /\ ops[t].pc = "rmdir" /\ UNCHANGED <<open, sem, faults>>
      /\ dir' = (dir /\ open # "none")
  BY DEF RemoveDirectory, disk, process, history
<1>3. Types' /\ Shape'
  BY <1>1, <1>2 DEF IInv, Types, Shape, Moves
<1>4. NoSemInv'
  BY <1>1, <1>2 DEF IInv, Types, NoSemInv, Moves
<1>5. CreateInv'
  BY <1>1, <1>2 DEF IInv, Types, CreateInv, Moves, NoSemInv, DirInv
<1>6. GateInv'
  BY <1>1, <1>2 DEF IInv, Types, GateInv, Moves
<1>7. DirInv'
  BY <1>1, <1>2 DEF IInv, Types, DirInv, Moves
<1>8. FileInv'
  BY <1>1, <1>2 DEF IInv, Types, FileInv, Moves, DirInv
<1>9. FlagInv'
  BY <1>1, <1>2 DEF IInv, Types, FlagInv, Moves
<1>10. PostInv'
  <2>1. Some(Posting) => Some(Posting)'
    BY <1>1, <1>2, SomeStays DEF Posting
  <2> QED BY <1>2, <2>1 DEF IInv, Types, PostInv
<1> QED BY <1>3, <1>4, <1>5, <1>6, <1>7, <1>8, <1>9, <1>10 DEF IInv

LEMMA CreateKeeps ==
  ASSUME IInv, NEW t \in Threads, Create(t)
  PROVE  IInv'
<1>1. Moves(t, "write")
  BY MovesGoto DEF IInv, Create
<1>2. /\ ops[t].pc = "create" /\ UNCHANGED <<dir, open>>
      /\ faults' = faults \cup
           (IF sem # -1 /\ "removed" \in faults THEN {"recreated"} ELSE {})
      /\ sem' = IF sem # -1 THEN sem ELSE IF open = "none" THEN 0 ELSE 1
  BY DEF Create, Semaphore, disk
<1>3. Types' /\ Shape'
  BY <1>1, <1>2 DEF IInv, Types, Shape, Moves
<1>4. NoSemInv'
  BY <1>1, <1>2 DEF IInv, Types, NoSemInv, Moves
<1>5. CreateInv'
  BY <1>1, <1>2 DEF IInv, Types, CreateInv, Moves
<1>6. GateInv'
  BY <1>1, <1>2 DEF IInv, Types, GateInv, Moves, CreateInv, DirInv
<1>7. DirInv'
  BY <1>1, <1>2 DEF IInv, Types, DirInv, Moves
<1>8. FileInv'
  BY <1>1, <1>2 DEF IInv, Types, FileInv, Moves, CreateInv
<1>9. FlagInv'
  BY <1>1, <1>2 DEF IInv, Types, FlagInv, Moves, DirInv
<1>10. PostInv'
  <2>1. Some(Missing) => Some(Missing)'
    BY <1>1, <1>2, SomeStays DEF Missing
  <2>2. Some(Posting)'
    BY <1>1, SomeHere DEF Posting
  <2> QED BY <1>2, <2>1, <2>2 DEF IInv, Types, PostInv
<1> QED BY <1>3, <1>4, <1>5, <1>6, <1>7, <1>8, <1>9, <1>10 DEF IInv

LEMMA WriteFileKeeps ==
  ASSUME IInv, NEW t \in Threads, WriteFile(t)
  PROVE  IInv'
<1>1. Moves(t, "post")
  BY MovesGoto DEF IInv, WriteFile
<1>2. /\ ops[t].pc = "write" /\ UNCHANGED <<dir, sem, faults>>
      /\ open' = IF dir THEN "N" ELSE open
  BY DEF WriteFile
<1>3. Types' /\ Shape'
  BY <1>1, <1>2 DEF IInv, Types, Shape, Moves
<1>4. NoSemInv'
  BY <1>1, <1>2 DEF IInv, Types, NoSemInv, Moves
<1>5. CreateInv'
  BY <1>1, <1>2 DEF IInv, Types, CreateInv, Moves, NoSemInv
<1>6. GateInv'
  BY <1>1, <1>2 DEF IInv, Types, GateInv, Moves
<1>7. DirInv'
  BY <1>1, <1>2 DEF IInv, Types, DirInv, Moves
<1>8. FileInv'
  BY <1>1, <1>2 DEF IInv, Types, FileInv, Moves
<1>9. FlagInv'
  BY <1>1, <1>2 DEF IInv, Types, FlagInv, Moves, GateInv
<1>10. PostInv'
  <2>1. Some(Posting)'
    BY <1>1, SomeHere DEF Posting
  <2> QED BY <1>2, <2>1 DEF IInv, Types, PostInv
<1> QED BY <1>3, <1>4, <1>5, <1>6, <1>7, <1>8, <1>9, <1>10 DEF IInv

LEMMA PostKeeps ==
  ASSUME IInv, NEW t \in Threads, Post(t)
  PROVE  IInv'
<1>1. Moves(t, "done")
  BY MovesFinish DEF IInv, Post
<1>2. /\ ops[t].pc = "post" /\ UNCHANGED <<dir, open, faults>>
      /\ sem' = sem + 1
  BY DEF Post, disk, process, history
<1>3. Types' /\ Shape'
  BY <1>1, <1>2 DEF IInv, Types, Shape, Moves
<1>4. NoSemInv'
  BY <1>1, <1>2 DEF IInv, Types, NoSemInv, Moves
<1>5. CreateInv'
  BY <1>1, <1>2 DEF IInv, Types, CreateInv, Moves, NoSemInv
<1>6. GateInv'
  BY <1>1, <1>2 DEF IInv, Types, GateInv, Moves, NoSemInv
<1>7. DirInv'
  BY <1>1, <1>2 DEF IInv, Types, DirInv, Moves
<1>8. FileInv'
  BY <1>1, <1>2 DEF IInv, Types, FileInv, Moves
<1>9. FlagInv'
  BY <1>1, <1>2 DEF IInv, Types, FlagInv, Moves
<1>10. PostInv'
  <2>1. Some(Missing) => Some(Missing)'
    BY <1>1, <1>2, SomeStays DEF Missing
  <2>2. sem # NoSem
    BY <1>2 DEF IInv, NoSemInv
  <2> QED BY <1>2, <2>1, <2>2 DEF IInv, Types, PostInv
<1> QED BY <1>3, <1>4, <1>5, <1>6, <1>7, <1>8, <1>9, <1>10 DEF IInv

LEMMA InitHolds == Init => IInv
<1> SUFFICES ASSUME Init PROVE IInv
  OBVIOUS
<1>1. /\ ops = [t \in Threads |-> ops[t]] /\ sem = NoSem /\ faults = {}
      /\ \A t \in Threads : DOMAIN ops[t] = {"msg", "pc", "copy"} /\ ops[t].pc = "idle"
  BY DEF Init, Idle
<1>2. /\ dir \in BOOLEAN /\ open \in {"N", "S", "none"}
      /\ ~dir <=> open = "none"
  BY DEF Init
<1>3. Types /\ Shape
  BY <1>1, <1>2 DEF Types, Shape
<1>4. NoSemInv /\ CreateInv /\ GateInv /\ DirInv /\ FileInv /\ FlagInv
  BY <1>1, <1>2 DEF NoSemInv, CreateInv, GateInv, DirInv, FileInv, FlagInv
<1>5. PostInv
  BY <1>1, <1>2 DEF PostInv
<1> QED BY <1>3, <1>4, <1>5 DEF IInv

LEMMA NextKeeps == IInv /\ [Next]_vars => IInv'
<1> SUFFICES ASSUME IInv, [Next]_vars PROVE IInv'
  OBVIOUS
<1>1. ASSUME NEW t \in Threads, Step(t) PROVE IInv'
  BY <1>1, GetSemaphoreKeeps, WaitKeeps, ReadFlagKeeps, SetFlagKeeps, ReadFileKeeps, WorkKeeps,
     RewriteKeeps, SaveKeeps, CloseKeeps, RemoveFileKeeps, RemoveDirectoryKeeps, CreateKeeps,
     WriteFileKeeps, PostKeeps
     DEF Step, Remove
<1>2. ASSUME NEW t \in Threads, NEW m \in Messages, Start(t, m) PROVE IInv'
  BY <1>2, StartKeeps
<1>3. CASE Kill
  BY <1>3, StopKeeps DEF Kill
<1>4. CASE Restart \/ UNCHANGED vars
  <2>1. UNCHANGED <<dir, open, sem, ops, faults>>
    BY <1>4 DEF Restart, vars, disk, history
  <2> QED BY <2>1 DEF IInv, Types, Shape, NoSemInv, CreateInv, GateInv, DirInv, FileInv,
                     FlagInv, PostInv, Some
<1> QED BY <1>1, <1>2, <1>3, <1>4 DEF Next

(* The strengthening holds in every state of every behaviour of the        *)
(* specification.                                                          *)
THEOREM Invariance == Spec => []IInv
BY InitHolds, NextKeeps, PTL DEF Spec

(* At most one operation has the file open: the flag excludes the others,  *)
(* unless a line that grew was saved as closed, or the file was made again *)
(* with the semaphore of the one before.                                   *)
THEOREM HolderIsAlone == Spec => []OneHolder
<1>1. IInv => OneHolder
  <2> SUFFICES ASSUME IInv, faults \cap {"early", "recreated"} = {}
               PROVE  Cardinality(Holders) <= 1
    BY DEF OneHolder
  <2>1. \A t, u \in Holders : t = u
    BY DEF IInv, FlagInv, Holders, At
  <2> QED BY <2>1, AtMostOne
<1> QED BY <1>1, Invariance, PTL

(* The semaphore excludes, and when nobody is inside it is taken only by   *)
(* an operation that will post it, having made the file.                   *)
THEOREM SemaphoreIsPosted == Spec => []SemaphoreComesBack
<1>1. IInv => SemaphoreComesBack
  <2> SUFFICES ASSUME IInv, sem # NoSem, faults \cap {"recreated", "stoppedInside"} = {}
               PROVE  LET inside == Cardinality(At({"looking", "marking"})) IN
                      /\ sem + inside <= 1
                      /\ sem + inside = 0 => At(Creating) # {}
    BY DEF SemaphoreComesBack
  <2> DEFINE inside == At({"looking", "marking"})
  <2>1. /\ sem \in {0, 1} /\ \A t, u \in inside : t = u
        /\ inside # {} => sem = 0
    BY DEF IInv, GateInv, At
  <2>2. sem = 0 => Some(Posting)
    BY DEF IInv, PostInv
  <2>3. Cardinality(inside) \in {0, 1} /\ (Cardinality(inside) = 0 <=> inside = {})
    BY <2>1, AtMostOne
  <2>4. sem = 0 /\ inside = {} => At(Creating) # {}
    BY <2>2 DEF At, Some, Posting
  <2> QED BY <2>1, <2>3, <2>4
<1> QED BY <1>1, Invariance, PTL

(* The process reads metadata.bin only where it exists, until a CATCH has  *)
(* removed one: an operation that finds the directory before its file is   *)
(* written waits for the post of the one that makes it.                    *)
THEOREM CrashComesOfRemoval == Spec => []CrashNeedsRemoval
<1>1. IInv => CrashNeedsRemoval
  BY DEF IInv, FileInv, CrashNeedsRemoval
<1> QED BY <1>1, Invariance, PTL

-----------------------------------------------------------------------------
(* The lines of the file as a function of their coordinates: the sum of    *)
(* AmountAt over a set of one line or none.                                *)

LEMMA SumOfNone ==
  ASSUME NEW ls, NEW c, \A i \in DOMAIN ls : ls[i].coord # c
  PROVE  AmountAt(ls, c) = 0
<1> DEFINE T == {i \in DOMAIN ls : ls[i].coord = c}
           F(g) == g = [s \in SUBSET T |->
                          IF s = {} THEN 0
                          ELSE LET x == CHOOSE x \in s : TRUE IN ls[x].amount + g[s \ {x}]]
           it == CHOOSE g : F(g)
<1>1. T = {}
  OBVIOUS
<1>2. F([s \in SUBSET T |-> 0])
  BY <1>1
<1>3. F(it)
  BY <1>2
<1>4. AmountAt(ls, c) = it[T]
  BY DEF AmountAt, MapThenSumSet, MapThenFoldSet
<1> QED BY <1>1, <1>3, <1>4

LEMMA SumOfOne ==
  ASSUME NEW ls, NEW c, NEW i \in DOMAIN ls, ls[i].coord = c, ls[i].amount \in Int,
         \A j \in DOMAIN ls : ls[j].coord = c => j = i
  PROVE  AmountAt(ls, c) = ls[i].amount
<1> DEFINE T == {j \in DOMAIN ls : ls[j].coord = c}
           F(g) == g = [s \in SUBSET T |->
                          IF s = {} THEN 0
                          ELSE LET x == CHOOSE x \in s : TRUE IN ls[x].amount + g[s \ {x}]]
           it == CHOOSE g : F(g)
           sum == [s \in SUBSET T |-> IF s = {} THEN 0 ELSE ls[i].amount]
<1>1. T = {i}
  OBVIOUS
<1>2. \A s \in SUBSET T : s # {} => s = {i}
  BY <1>1
<1>3. F(sum)
  <2>1. \A s \in SUBSET T : s # {} =>
          LET x == CHOOSE x \in s : TRUE IN x = i /\ s \ {x} = {} /\ sum[s \ {x}] = 0
    BY <1>2
  <2> QED BY <2>1
<1>4. F(it)
  BY <1>3
<1>5. AmountAt(ls, c) = it[T]
  BY DEF AmountAt, MapThenSumSet, MapThenFoldSet
<1>6. it[T] = ls[i].amount + it[{}] /\ it[{}] = 0
  <2>1. (CHOOSE x \in T : TRUE) = i /\ T \ {i} = {} /\ T # {} /\ T \in SUBSET T /\ {} \in SUBSET T
    BY <1>1
  <2> HIDE DEF T, it
  <2> QED BY <1>4, <2>1
<1> QED BY <1>5, <1>6

LineRecords == [coord : Coords, amount : Nat \ {0}]
Lines == Seq(LineRecords)
OneEach(ls) == \A i, j \in DOMAIN ls : ls[i].coord = ls[j].coord => i = j
Effect(m, c) == IF c # m.coord THEN 0 ELSE IF m.kind = "new" THEN m.amount ELSE -1
Applies(m, old, new) ==
  /\ m.kind \in {"new", "catch"}
  /\ \A c \in Coords : AmountAt(new, c) = AmountAt(old, c) + Effect(m, c)

LEMMA LinePlaces ==
  ASSUME NEW ls \in Lines
  PROVE  /\ Len(ls) \in Nat /\ DOMAIN ls = 1 .. Len(ls)
         /\ \A i \in DOMAIN ls : /\ ls[i] \in LineRecords
                                /\ ls[i].coord \in Coords
                                /\ ls[i].amount \in Nat /\ ls[i].amount > 0
<1>1. Len(ls) \in Nat /\ DOMAIN ls = 1 .. Len(ls) /\ \A i \in DOMAIN ls : ls[i] \in LineRecords
  BY DEF Lines
<1>2. \A r \in LineRecords : r.coord \in Coords /\ r.amount \in Nat /\ r.amount > 0
  BY DEF LineRecords
<1> QED BY <1>1, <1>2

(* With one line for each coordinate, its amount is that of the line. *)
LEMMA AmountOfLine ==
  ASSUME NEW ls \in Lines, OneEach(ls), NEW c
  PROVE  /\ \A i \in DOMAIN ls : ls[i].coord = c => AmountAt(ls, c) = ls[i].amount
         /\ (\A i \in DOMAIN ls : ls[i].coord # c) => AmountAt(ls, c) = 0
         /\ AmountAt(ls, c) \in Nat
<1>1. ASSUME NEW i \in DOMAIN ls, ls[i].coord = c
      PROVE  AmountAt(ls, c) = ls[i].amount /\ ls[i].amount \in Nat
  <2>1. ls[i].amount \in Nat
    BY LinePlaces
  <2>2. \A j \in DOMAIN ls : ls[j].coord = c => j = i
    BY <1>1 DEF OneEach
  <2> QED BY <1>1, <2>1, <2>2, SumOfOne
<1>2. ASSUME \A i \in DOMAIN ls : ls[i].coord # c PROVE AmountAt(ls, c) = 0
  BY <1>2, SumOfNone
<1> QED BY <1>1, <1>2

WithAmount(ls, i, n) == [ls EXCEPT ![i].amount = n]

LEMMA ChangedLine ==
  ASSUME NEW ls \in Lines, OneEach(ls), NEW i \in DOMAIN ls, NEW n \in Nat \ {0}
  PROVE  /\ WithAmount(ls, i, n) \in Lines /\ OneEach(WithAmount(ls, i, n))
         /\ \A c : AmountAt(WithAmount(ls, i, n), c) = IF c = ls[i].coord THEN n ELSE AmountAt(ls, c)
<1> DEFINE new == WithAmount(ls, i, n)
<1>1. /\ new \in Lines /\ DOMAIN new = DOMAIN ls /\ new[i].amount = n
      /\ \A j \in DOMAIN ls : /\ new[j].coord = ls[j].coord
                              /\ j # i => new[j].amount = ls[j].amount
  <2> DEFINE r == [ls[i] EXCEPT !.amount = n]
  <2>1. r \in LineRecords /\ r.amount = n /\ r.coord = ls[i].coord
    BY LinePlaces DEF LineRecords
  <2>2. new = [ls EXCEPT ![i] = r]
    BY DEF WithAmount
  <2> HIDE DEF r
  <2>3. new \in Lines
    BY <2>1, <2>2 DEF Lines
  <2> QED BY <2>1, <2>2, <2>3, LinePlaces
<1> HIDE DEF new
<1>2. OneEach(new)
  BY <1>1 DEF OneEach
<1>3. ASSUME NEW c PROVE AmountAt(new, c) = IF c = ls[i].coord THEN n ELSE AmountAt(ls, c)
  <2>1. CASE \E j \in DOMAIN ls : ls[j].coord = c
    <3>1. PICK j \in DOMAIN ls : ls[j].coord = c
      BY <2>1
    <3>2. AmountAt(new, c) = new[j].amount /\ AmountAt(ls, c) = ls[j].amount
      <4>1. j \in DOMAIN new /\ new[j].coord = c
        BY <1>1, <3>1
      <4>2. AmountAt(new, c) = new[j].amount
        BY <1>1, <1>2, <4>1, AmountOfLine
      <4> QED BY <3>1, <4>2, AmountOfLine
    <3>3. c = ls[i].coord <=> i = j
      BY <3>1 DEF OneEach
    <3> QED BY <1>1, <3>2, <3>3
  <2>2. CASE ~ \E j \in DOMAIN ls : ls[j].coord = c
    <3>1. AmountAt(new, c) = 0 /\ AmountAt(ls, c) = 0
      BY <1>1, <1>2, <2>2, AmountOfLine
    <3> QED BY <2>2, <3>1
  <2> QED BY <2>1, <2>2
<1> QED BY <1>1, <1>2, <1>3 DEF new

LEMMA AddedLine ==
  ASSUME NEW ls \in Lines, OneEach(ls), NEW d \in Coords, NEW n \in Nat \ {0},
         \A i \in DOMAIN ls : ls[i].coord # d
  PROVE  /\ Append(ls, Line(d, n)) \in Lines /\ OneEach(Append(ls, Line(d, n)))
         /\ \A c : AmountAt(Append(ls, Line(d, n)), c) = IF c = d THEN n ELSE AmountAt(ls, c)
<1> DEFINE e == Len(ls) + 1
           new == Append(ls, Line(d, n))
<1>0. Line(d, n) \in LineRecords
  BY DEF Line, LineRecords
<1>1. /\ new \in Lines /\ Len(ls) \in Nat /\ DOMAIN ls = 1 .. Len(ls) /\ DOMAIN new = 1 .. e
      /\ \A j \in DOMAIN ls : new[j] = ls[j]
      /\ new[e] = Line(d, n)
  BY <1>0 DEF Lines
<1>2. new[e].coord = d /\ new[e].amount = n /\ e \in DOMAIN new
  BY <1>1 DEF Line
<1> HIDE DEF e, new
<1>3. \A j \in DOMAIN new : j = e \/ j \in DOMAIN ls
  BY <1>1 DEF e
<1>4. OneEach(new)
  BY <1>1, <1>2, <1>3 DEF OneEach
<1>5. ASSUME NEW c PROVE AmountAt(new, c) = IF c = d THEN n ELSE AmountAt(ls, c)
  <2>1. CASE c = d
    <3>1. AmountAt(new, d) = new[e].amount
      <4>1. new \in Lines /\ e \in DOMAIN new /\ new[e].coord = d
        BY <1>1, <1>2
      <4> QED BY <1>4, <4>1, AmountOfLine
    <3> QED BY <1>2, <2>1, <3>1
  <2>2. CASE c # d /\ \E j \in DOMAIN ls : ls[j].coord = c
    <3>1. PICK j \in DOMAIN ls : ls[j].coord = c
      BY <2>2
    <3>2. j \in DOMAIN new
      BY <1>1 DEF e
    <3>3. AmountAt(new, c) = new[j].amount /\ AmountAt(ls, c) = ls[j].amount
      <4>1. new[j].coord = c
        BY <1>1, <3>1
      <4>2. AmountAt(new, c) = new[j].amount
        BY <1>1, <1>4, <3>2, <4>1, AmountOfLine
      <4> QED BY <3>1, <4>2, AmountOfLine
    <3> QED BY <1>1, <2>2, <3>3
  <2>3. CASE c # d /\ ~ \E j \in DOMAIN ls : ls[j].coord = c
    <3>1. \A j \in DOMAIN new : new[j].coord # c
      BY <1>1, <1>2, <1>3, <2>3
    <3>2. AmountAt(new, c) = 0 /\ AmountAt(ls, c) = 0
      BY <1>1, <1>4, <2>3, <3>1, AmountOfLine
    <3> QED BY <2>3, <3>2
  <2> QED BY <2>1, <2>2, <2>3
<1> QED BY <1>1, <1>4, <1>5 DEF new

LEMMA RemovedLine ==
  ASSUME NEW ls \in Lines, OneEach(ls), NEW i \in DOMAIN ls
  PROVE  /\ WithoutLine(ls, i) \in Lines /\ OneEach(WithoutLine(ls, i))
         /\ Len(WithoutLine(ls, i)) = Len(ls) - 1
         /\ \A c : AmountAt(WithoutLine(ls, i), c) =
                    IF c = ls[i].coord THEN 0 ELSE AmountAt(ls, c)
<1> DEFINE k == Len(ls)
           new == WithoutLine(ls, i)
<1>0. ls \in Seq(LineRecords) /\ k \in Nat /\ i \in 1 .. k /\ DOMAIN ls = 1 .. k
  BY LinePlaces DEF Lines
<1>1. new = Omitting(ls, i)
  BY DEF WithoutLine, Omitting
<1>4. /\ new \in Lines /\ Len(new) = k - 1 /\ DOMAIN new = 1 .. k - 1
      /\ \A j \in 1 .. k - 1 : new[j] = IF j < i THEN ls[j] ELSE ls[j + 1]
  <2>1. /\ new \in Seq(LineRecords) /\ Len(new) = k - 1
        /\ \A j \in DOMAIN new : new[j] = IF j < i THEN ls[j] ELSE ls[j + 1]
    BY <1>0, <1>1, OmittingPlaces
  <2> HIDE DEF k
  <2>2. new \in Lines /\ DOMAIN new = 1 .. k - 1
    BY <2>1, LinePlaces DEF Lines
  <2> QED BY <2>1, <2>2
<1> HIDE DEF k, new
<1>5. OneEach(new)
  <2> SUFFICES ASSUME NEW x \in 1 .. k - 1, NEW y \in 1 .. k - 1, new[x].coord = new[y].coord
               PROVE  x = y
    BY <1>4 DEF OneEach
  <2> DEFINE at(j) == IF j < i THEN j ELSE j + 1
  <2>1. at(x) \in DOMAIN ls /\ at(y) \in DOMAIN ls /\ new[x] = ls[at(x)] /\ new[y] = ls[at(y)]
    BY <1>0, <1>4
  <2>2. at(x) = at(y)
    BY <2>1 DEF OneEach
  <2> QED BY <1>0, <2>2
<1>6. ASSUME NEW c PROVE AmountAt(new, c) = IF c = ls[i].coord THEN 0 ELSE AmountAt(ls, c)
  <2>1. CASE \E j \in DOMAIN ls : ls[j].coord = c /\ j # i
    <3>1. PICK j \in DOMAIN ls : ls[j].coord = c /\ j # i
      BY <2>1
    <3> DEFINE h == IF j < i THEN j ELSE j - 1
    <3>2. h \in DOMAIN new /\ new[h] = ls[j]
      BY <1>0, <1>4, <3>1
    <3>3. AmountAt(new, c) = new[h].amount /\ AmountAt(ls, c) = ls[j].amount
      BY <1>4, <1>5, <3>1, <3>2, AmountOfLine
    <3>4. c # ls[i].coord
      BY <3>1 DEF OneEach
    <3> QED BY <3>2, <3>3, <3>4
  <2>2. CASE ~ \E j \in DOMAIN ls : ls[j].coord = c /\ j # i
    <3>1. \A j \in DOMAIN new : new[j].coord # c
      <4>1. ASSUME NEW j \in 1 .. k - 1 PROVE new[j].coord # c
        <5> DEFINE h == IF j < i THEN j ELSE j + 1
        <5>1. h \in DOMAIN ls /\ h # i /\ new[j] = ls[h]
          BY <1>0, <1>4
        <5> QED BY <2>2, <5>1
      <4> QED BY <1>4, <4>1
    <3>2. AmountAt(new, c) = 0
      BY <1>4, <1>5, <3>1, AmountOfLine
    <3>3. c # ls[i].coord => AmountAt(ls, c) = 0
      BY <2>2, AmountOfLine
    <3> QED BY <3>2, <3>3
  <2> QED BY <2>1, <2>2
<1> QED BY <1>4, <1>5, <1>6 DEF k, new

-----------------------------------------------------------------------------
(* What the operations do to the lines, while nothing happened that        *)
(* NothingLost leaves aside: the lines have each coordinate once and what  *)
(* is expected; an operation that read them has them as they are, and one  *)
(* that is about to write has what it adds or takes applied to them.       *)

Clear == faults \cap {"early", "recreated", "mistaken", "shrunk", "stoppedInside"} = {}

FileOK ==
  /\ lines \in Lines /\ OneEach(lines)
  /\ expected = [c \in Coords |-> AmountAt(lines, c)]
  /\ open = NoFile => lines = <<>>

OpOK(o, ls, d, f) ==
  /\ o.pc \notin Ended => o.msg \in Messages
  /\ o.pc \in {"create", "write"} => o.msg.kind = "new"
  /\ o.pc = "write" => d /\ f = NoFile
  /\ o.pc = "working" => o.copy = ls
  /\ o.pc \in {"rewriting", "saving"} =>
       o.copy \in Lines /\ OneEach(o.copy) /\ Applies(o.msg, ls, o.copy)
  /\ o.pc = "removing" => Applies(o.msg, ls, <<>>)

LinesInv == Clear => FileOK /\ \A t \in Threads : OpOK(ops[t], lines, dir, open)

LEMMA ClearBefore ==
  ASSUME faults \subseteq faults', Clear' PROVE Clear
BY DEF Clear

(* While nothing happened, whoever has the file open, or makes it, is the  *)
(* only one that knows its lines.                                          *)
LEMMA AloneWithFile ==
  ASSUME IInv, Clear, NEW t \in Threads, ops[t].pc \in Holding \cup {"write"}
  PROVE  /\ \A u \in Threads \ {t} : ops[u].pc \notin Holding \cup {"write"}
         /\ ops[t].pc \in Holding \ {"rmdir"} => open = "S" /\ dir
BY DEF IInv, FlagInv, GateInv, DirInv, Clear

LEMMA AloneInside ==
  ASSUME IInv, Clear, NEW t \in Threads, ops[t].pc = "marking"
  PROVE  \A u \in Threads : ops[u].pc # "write"
BY DEF IInv, GateInv, Clear

(* A step that changes what one operation knows, and leaves the file.      *)
LEMMA OneOpChanges ==
  ASSUME LinesInv, Clear, NEW t \in Threads, UNCHANGED <<lines, expected, dir, open>>,
         \A u \in Threads \ {t} : ops'[u] = ops[u],
         OpOK(ops'[t], lines, dir, open)
  PROVE  LinesInv'
<1>1. FileOK'
  BY DEF LinesInv, FileOK
<1>2. \A u \in Threads : OpOK(ops'[u], lines, dir, open)
  BY DEF LinesInv
<1>3. \A u \in Threads : OpOK(ops'[u], lines', dir', open')
  BY <1>2
<1> QED BY <1>1, <1>3 DEF LinesInv

(* A step of the only operation that knows the lines. *)
LEMMA HolderChanges ==
  ASSUME LinesInv, Clear, NEW t \in Threads, FileOK',
         \A u \in Threads \ {t} : /\ ops'[u] = ops[u]
                                  /\ ops[u].pc \notin Holding \cup {"write"},
         OpOK(ops'[t], lines', dir', open')
  PROVE  LinesInv'
<1>1. \A u \in Threads \ {t} : OpOK(ops'[u], lines', dir', open')
  BY DEF LinesInv, OpOK
<1> QED BY <1>1 DEF LinesInv

LEMMA StopLines ==
  ASSUME LinesInv, Shape, NEW why, Stop(why) PROVE LinesInv'
<1> SUFFICES ASSUME Clear' PROVE LinesInv'
  BY DEF LinesInv
<1>1. Clear /\ UNCHANGED <<lines, expected, dir, open>>
  BY ClearBefore DEF Stop, disk
<1>2. \A t \in Threads : ops'[t].pc \in Ended
  BY StopEnds
<1>3. FileOK'
  BY <1>1 DEF LinesInv, FileOK
<1>4. \A t \in Threads : OpOK(ops'[t], lines', dir', open')
  BY <1>2 DEF OpOK
<1> QED BY <1>3, <1>4 DEF LinesInv

LEMMA StartLines ==
  ASSUME LinesInv, Shape, NEW t \in Threads, NEW m \in Messages, Start(t, m)
  PROVE  LinesInv'
<1> SUFFICES ASSUME Clear' PROVE LinesInv'
  BY DEF LinesInv
<1>1. /\ Clear /\ UNCHANGED <<lines, expected, open>>
      /\ dir' = (dir \/ m.kind = "new")
      /\ \A u \in Threads \ {t} : ops'[u] = ops[u]
      /\ ops'[t].msg = m /\ ops'[t].pc \in {"begin", "create", "done"}
      /\ ops'[t].pc = "create" => m.kind = "new"
  BY ClearBefore DEF Start, history, Shape
<1>2. FileOK'
  BY <1>1 DEF LinesInv, FileOK
<1>3. OpOK(ops'[t], lines', dir', open')
  BY <1>1 DEF OpOK
<1>4. \A u \in Threads \ {t} : OpOK(ops'[u], lines', dir', open')
  BY <1>1 DEF LinesInv, OpOK
<1> QED BY <1>2, <1>3, <1>4 DEF LinesInv

(* Where an operation goes with nothing but its message. *)
LEMMA GotoLines ==
  ASSUME LinesInv, Clear, Shape, NEW t \in Threads, NEW p, Goto(t, p), ops[t].pc \notin Ended,
         p \in {"waiting", "looking", "begin", "marking", "closing"},
         UNCHANGED <<lines, expected, dir, open>>
  PROVE  LinesInv'
<1>1. /\ \A u \in Threads \ {t} : ops'[u] = ops[u]
      /\ ops'[t].pc = p /\ ops'[t].msg = ops[t].msg
  BY DEF Goto, Shape
<1>2. OpOK(ops'[t], lines, dir, open)
  BY <1>1 DEF LinesInv, OpOK
<1> QED BY <1>1, <1>2, OneOpChanges

LEMMA FinishLines ==
  ASSUME LinesInv, Clear, Shape, NEW t \in Threads, Finish(t, "done"),
         UNCHANGED <<lines, expected, dir, open>>
  PROVE  LinesInv'
<1>1. (\A u \in Threads \ {t} : ops'[u] = ops[u]) /\ ops'[t].pc = "done"
  BY DEF Finish, Idle, Shape
<1>2. OpOK(ops'[t], lines, dir, open)
  BY <1>1 DEF OpOK
<1> QED BY <1>1, <1>2, OneOpChanges

LEMMA QueueLines ==
  ASSUME IInv, LinesInv, NEW t \in Threads, GetSemaphore(t) \/ Wait(t) \/ ReadFlag(t) \/ Post(t)
  PROVE  LinesInv'
<1> SUFFICES ASSUME Clear' PROVE LinesInv'
  BY DEF LinesInv
<1>0. Shape
  BY DEF IInv
<1>1. CASE ReadFlag(t) /\ Stop({"crashed"})
  BY <1>0, <1>1, StopLines
<1>2. CASE /\ UNCHANGED <<lines, expected, dir, open, faults>> /\ ops[t].pc \notin Ended
           /\ \E p \in {"waiting", "looking", "begin", "marking"} : Goto(t, p)
  <2>1. Clear
    BY <1>2, ClearBefore
  <2> QED BY <1>0, <1>2, <2>1, GotoLines
<1>3. CASE UNCHANGED <<lines, expected, dir, open, faults>> /\ Finish(t, "done")
  <2>1. Clear
    BY <1>3, ClearBefore
  <2> QED BY <1>0, <1>3, <2>1, FinishLines
<1> QED BY <1>1, <1>2, <1>3 DEF GetSemaphore, Wait, ReadFlag, Post, disk, history

LEMMA SetFlagLines ==
  ASSUME IInv, LinesInv, NEW t \in Threads, SetFlag(t)
  PROVE  LinesInv'
<1> SUFFICES ASSUME Clear' PROVE LinesInv'
  BY DEF LinesInv
<1>1. /\ Clear /\ UNCHANGED <<lines, expected, dir>> /\ ops[t].pc = "marking"
      /\ open' = IF dir THEN "S" ELSE open
      /\ \A u \in Threads \ {t} : ops'[u] = ops[u]
      /\ ops'[t].pc = "reading" /\ ops'[t].msg = ops[t].msg
  BY ClearBefore DEF SetFlag, Goto, history, IInv, Shape
<1>2. \A u \in Threads : ops[u].pc # "write"
  BY <1>1, AloneInside
<1>3. FileOK'
  BY <1>1 DEF LinesInv, FileOK
<1>4. OpOK(ops'[t], lines', dir', open')
  BY <1>1 DEF LinesInv, OpOK
<1>5. \A u \in Threads \ {t} : OpOK(ops'[u], lines', dir', open')
  BY <1>1, <1>2 DEF LinesInv, OpOK
<1> QED BY <1>3, <1>4, <1>5 DEF LinesInv

LEMMA ReadFileLines ==
  ASSUME IInv, LinesInv, NEW t \in Threads, ReadFile(t)
  PROVE  LinesInv'
<1> SUFFICES ASSUME Clear' PROVE LinesInv'
  BY DEF LinesInv
<1>1. CASE Stop({"crashed"})
  BY <1>1, StopLines DEF IInv
<1>2. CASE GotoWith(t, "working", lines) /\ UNCHANGED <<disk, sem, process, history>>
  <2>1. /\ Clear /\ UNCHANGED <<lines, expected, dir, open>> /\ ops[t].pc = "reading"
        /\ \A u \in Threads \ {t} : ops'[u] = ops[u]
        /\ ops'[t].pc = "working" /\ ops'[t].msg = ops[t].msg /\ ops'[t].copy = lines
    BY <1>2, ClearBefore DEF ReadFile, GotoWith, disk, history, IInv, Shape
  <2>2. OpOK(ops'[t], lines, dir, open)
    BY <2>1 DEF LinesInv, OpOK
  <2> QED BY <2>1, <2>2, OneOpChanges
<1> QED BY <1>1, <1>2 DEF ReadFile

LEMMA NoLine ==
  ASSUME NEW ls \in Lines, NEW c \in Coords, LineOf(ls, c) = {}
  PROVE  \A i \in DOMAIN ls : ls[i].coord # c
<1> SUFFICES ASSUME NEW i \in DOMAIN ls, ls[i].coord = c PROVE FALSE
  OBVIOUS
<1> DEFINE S == {j \in DOMAIN ls : <<c, ls[j].coord>> \in Contains}
<1>1. DOMAIN ls = 1 .. Len(ls) /\ Len(ls) \in Nat
  BY LinePlaces
<1>2. S \in SUBSET Nat /\ i \in S
  BY <1>1, FileAssumption
<1>3. PICK n \in S : \A j \in S : n <= j
  <2> HIDE DEF S
  <2> QED BY <1>2, LeastNatural
<1>4. \A j \in 1 .. n - 1 : j \notin S /\ j \in DOMAIN ls
  <2>1. n \in 1 .. Len(ls)
    BY <1>1, <1>3
  <2> HIDE DEF S
  <2>2. \A j \in 1 .. n - 1 : j \in 1 .. Len(ls) /\ ~ (n <= j)
    BY <1>1, <2>1
  <2> QED BY <1>1, <1>3, <2>2
<1>5. n \in LineOf(ls, c)
  BY <1>3, <1>4 DEF LineOf
<1> QED BY <1>5

LEMMA MessageParts ==
  ASSUME NEW m \in Messages
  PROVE  /\ m.kind \in {"new", "catch", "get"}
         /\ m.kind # "get" => m.coord \in Coords
         /\ m.kind = "new" => m.amount \in Nat /\ m.amount > 0
BY FileAssumption DEF Messages

LEMMA WorkNewLines ==
  ASSUME IInv, LinesInv, NEW t \in Threads, WorkNew(t)
  PROVE  LinesInv'
<1> DEFINE ls == ops[t].copy
           m  == ops[t].msg
<1> SUFFICES ASSUME Clear' PROVE LinesInv'
  BY DEF LinesInv
<1>1. /\ Clear /\ UNCHANGED <<lines, expected, dir, open>>
      /\ ops[t].pc = "working" /\ m.kind = "new"
  BY ClearBefore DEF WorkNew, disk
<1>2. ls = lines /\ ls \in Lines /\ OneEach(ls)
  BY <1>1 DEF LinesInv, FileOK, OpOK
<1>3. m \in Messages
  BY <1>1 DEF LinesInv, OpOK
<1> HIDE DEF ls, m
<1>4. m.coord \in Coords /\ m.amount \in Nat /\ m.amount > 0
  BY <1>1, <1>3, MessageParts
<1>5. SUFFICES ASSUME NEW new, NEW p \in {"saving", "growing", "rewriting"}, GotoWith(t, p, new),
                      new \in Lines, OneEach(new), Applies(m, lines, new)
               PROVE  LinesInv'
  <2>1. CASE /\ LineOf(ls, m.coord) = {}
             /\ GotoWith(t, "saving", Append(ls, Line(m.coord, m.amount)))
    <3> DEFINE new == Append(ls, Line(m.coord, m.amount))
    <3>1. \A i \in DOMAIN ls : ls[i].coord # m.coord
      BY <1>2, <1>4, <2>1, NoLine
    <3>2. m.amount \in Nat \ {0}
      BY <1>4
    <3>3. /\ new \in Lines /\ OneEach(new)
          /\ \A c : AmountAt(new, c) = IF c = m.coord THEN m.amount ELSE AmountAt(ls, c)
      BY <1>2, <1>4, <3>1, <3>2, AddedLine
    <3>4. AmountAt(ls, m.coord) = 0 /\ \A c : AmountAt(ls, c) \in Nat
      BY <1>2, <3>1, AmountOfLine
    <3> HIDE DEF new
    <3>5. Applies(m, lines, new)
      BY <1>1, <1>2, <1>4, <3>3, <3>4 DEF Applies, Effect, m
    <3> QED BY <1>5, <2>1, <3>3, <3>5 DEF new
  <2>2. ASSUME NEW i \in LineOf(ls, m.coord),
               GotoWith(t, IF Digits(ls[i].amount + m.amount) > Digits(ls[i].amount)
                           THEN "growing" ELSE "rewriting",
                        [ls EXCEPT ![i].amount = ls[i].amount + m.amount]),
               faults' = faults \cup (IF ls[i].coord # m.coord THEN {"mistaken"} ELSE {})
        PROVE  LinesInv'
    <3> DEFINE n == ls[i].amount + m.amount
               new == [ls EXCEPT ![i].amount = n]
    <3>1. i \in DOMAIN ls /\ ls[i].coord = m.coord
      BY <2>2 DEF LineOf, Clear
    <3>2. n \in Nat \ {0} /\ ls[i].amount \in Nat
      BY <1>2, <1>4, <3>1, LinePlaces
    <3>3. /\ new \in Lines /\ OneEach(new)
          /\ \A c : AmountAt(new, c) = IF c = ls[i].coord THEN n ELSE AmountAt(ls, c)
      <4> HIDE DEF n
      <4>1. new = WithAmount(ls, i, n)
        BY DEF WithAmount
      <4> HIDE DEF new
      <4> QED BY <1>2, <3>1, <3>2, <4>1, ChangedLine
    <3>4. AmountAt(ls, m.coord) = ls[i].amount /\ \A c : AmountAt(ls, c) \in Nat
      BY <1>2, <3>1, AmountOfLine
    <3> HIDE DEF new
    <3>5. Applies(m, lines, new)
      BY <1>1, <1>2, <1>4, <3>1, <3>2, <3>3, <3>4 DEF Applies, Effect, m
    <3> QED BY <1>5, <2>2, <3>3, <3>5 DEF new
  <2> QED BY <2>1, <2>2 DEF WorkNew, ls, m
<1>6. /\ \A u \in Threads \ {t} : ops'[u] = ops[u]
      /\ ops'[t].pc = p /\ ops'[t].msg = m /\ ops'[t].copy = new
  BY <1>5 DEF GotoWith, IInv, Shape, m
<1>7. OpOK(ops'[t], lines, dir, open)
  BY <1>3, <1>5, <1>6 DEF OpOK
<1> QED BY <1>1, <1>6, <1>7, OneOpChanges

LEMMA WorkCatchLines ==
  ASSUME IInv, LinesInv, NEW t \in Threads, WorkCatch(t)
  PROVE  LinesInv'
<1> DEFINE ls == ops[t].copy
           m  == ops[t].msg
<1> SUFFICES ASSUME Clear' PROVE LinesInv'
  BY DEF LinesInv
<1>1. /\ Clear /\ UNCHANGED <<lines, expected, dir, open>>
      /\ ops[t].pc = "working" /\ m.kind = "catch"
  BY ClearBefore DEF WorkCatch, disk
<1>2. ls = lines /\ ls \in Lines /\ OneEach(ls)
  BY <1>1 DEF LinesInv, FileOK, OpOK
<1>3. m \in Messages
  BY <1>1 DEF LinesInv, OpOK
<1> HIDE DEF ls, m
<1>4. CASE Finish(t, "done")
  BY <1>1, <1>4, FinishLines DEF IInv
<1>5. ASSUME NEW i \in LineOf(ls, m.coord), NEW less, less = ls[i].amount - 1,
             GotoWith(t, IF less > 0 THEN "rewriting"
                         ELSE IF Len(ls) > 1 THEN "saving" ELSE "removing",
                      IF less > 0 THEN [ls EXCEPT ![i].amount = WrittenOver(less, @)]
                      ELSE WithoutLine(ls, i)),
             faults' = faults \cup (IF ls[i].coord # m.coord THEN {"mistaken"} ELSE {})
                         \cup (IF less > 0 /\ Digits(less) < Digits(ls[i].amount)
                               THEN {"shrunk"} ELSE {})
      PROVE  LinesInv'
  <2>1. i \in DOMAIN ls /\ ls[i].coord = m.coord
    BY <1>5 DEF LineOf, Clear
  <2>2. ls[i].amount \in Nat /\ ls[i].amount > 0 /\ Len(ls) \in Nat /\ DOMAIN ls = 1 .. Len(ls)
    BY <1>2, <2>1, LinePlaces
  <2>3. AmountAt(ls, m.coord) = ls[i].amount /\ \A c : AmountAt(ls, c) \in Nat
    BY <1>2, <2>1, AmountOfLine
  <2>4. SUFFICES ASSUME NEW new, NEW p \in {"saving", "removing", "rewriting"},
                        GotoWith(t, p, new), new \in Lines, OneEach(new), Applies(m, lines, new),
                        p = "removing" => new = <<>>
                 PROVE  LinesInv'
    <3>1. CASE less > 0
      <4> DEFINE new == [ls EXCEPT ![i].amount = less]
      <4>1. ~ (Digits(less) < Digits(ls[i].amount))
        BY <1>5, <3>1 DEF Clear
      <4>2. WrittenOver(less, ls[i].amount) = less
        BY <2>2, <4>1 DEF WrittenOver, Digits
      <4>3. GotoWith(t, "rewriting", new)
        BY <1>5, <3>1, <4>2 DEF GotoWith
      <4>4. less \in Nat \ {0}
        BY <1>5, <2>2, <3>1
      <4>5. /\ new \in Lines /\ OneEach(new)
            /\ \A c : AmountAt(new, c) = IF c = ls[i].coord THEN less ELSE AmountAt(ls, c)
        <5>1. new = WithAmount(ls, i, less)
          BY DEF WithAmount
        <5> HIDE DEF new
        <5> QED BY <1>2, <2>1, <4>4, <5>1, ChangedLine
      <4> HIDE DEF new
      <4>6. Applies(m, lines, new)
        BY <1>1, <1>2, <1>5, <2>1, <2>2, <2>3, <4>5 DEF Applies, Effect
      <4> QED BY <2>4, <4>3, <4>5, <4>6
    <3>2. CASE ~ (less > 0)
      <4> DEFINE new == WithoutLine(ls, i)
                 p == IF Len(ls) > 1 THEN "saving" ELSE "removing"
      <4>1. /\ new \in Lines /\ OneEach(new) /\ Len(new) = Len(ls) - 1
            /\ \A c : AmountAt(new, c) = IF c = ls[i].coord THEN 0 ELSE AmountAt(ls, c)
        BY <1>2, <2>1, RemovedLine
      <4>2. ls[i].amount = 1
        BY <1>5, <2>2, <3>2
      <4>3. GotoWith(t, p, new)
        BY <1>5, <3>2
      <4> HIDE DEF new
      <4>4. Applies(m, lines, new)
        BY <1>1, <1>2, <2>1, <2>3, <4>1, <4>2 DEF Applies, Effect
      <4>5. p = "removing" => new = <<>>
        <5> SUFFICES ASSUME p = "removing" PROVE new = <<>>
          OBVIOUS
        <5>1. Len(new) = 0
          BY <2>1, <2>2, <4>1
        <5> QED BY <4>1, <5>1 DEF Lines
      <4>6. p \in {"saving", "removing", "rewriting"}
        OBVIOUS
      <4> HIDE DEF p
      <4> QED BY <2>4, <4>1, <4>3, <4>4, <4>5, <4>6
    <3> QED BY <3>1, <3>2
  <2>5. /\ \A u \in Threads \ {t} : ops'[u] = ops[u]
        /\ ops'[t].pc = p /\ ops'[t].msg = m /\ ops'[t].copy = new
    BY <2>4 DEF GotoWith, IInv, Shape, m
  <2>6. OpOK(ops'[t], lines, dir, open)
    BY <1>3, <2>4, <2>5 DEF OpOK
  <2> QED BY <1>1, <2>5, <2>6, OneOpChanges
<1> QED BY <1>4, <1>5 DEF WorkCatch, ls, m

LEMMA WorkLines ==
  ASSUME IInv, LinesInv, NEW t \in Threads, Work(t)
  PROVE  LinesInv'
<1>1. CASE WorkGet(t)
  <2> SUFFICES ASSUME Clear' PROVE LinesInv'
    BY DEF LinesInv
  <2>1. Clear /\ UNCHANGED <<lines, expected, dir, open>>
    BY <1>1, ClearBefore DEF WorkGet, disk, history
  <2> QED BY <1>1, <2>1, GotoLines DEF WorkGet, IInv
<1> QED BY <1>1, WorkNewLines, WorkCatchLines DEF Work

(* What an operation writes is what is then expected. *)
LEMMA Accounted ==
  ASSUME FileOK, NEW m \in Messages, NEW new, Applies(m, lines, new), Account(m)
  PROVE  expected' = [c \in Coords |-> AmountAt(new, c)]
<1>1. m.coord \in Coords /\ m.kind \in {"new", "catch"} /\ (m.kind = "new" => m.amount \in Nat)
  BY MessageParts DEF Applies
<1>2. \A c \in Coords : /\ expected[c] = AmountAt(lines, c)
                        /\ AmountAt(new, c) = AmountAt(lines, c) + Effect(m, c)
                        /\ AmountAt(lines, c) \in Nat
  BY AmountOfLine DEF FileOK, Applies
<1>3. CASE m.kind = "new"
  <2>1. expected' = [expected EXCEPT ![m.coord] = @ + m.amount]
    BY <1>3 DEF Account
  <2>2. \A c \in Coords : expected'[c] = AmountAt(new, c)
    BY <1>1, <1>2, <1>3, <2>1 DEF FileOK, Effect
  <2> QED BY <2>1, <2>2 DEF FileOK
<1>4. CASE m.kind = "catch"
  <2>1. expected' = [expected EXCEPT ![m.coord] = @ - 1]
    BY <1>4 DEF Account
  <2>2. \A c \in Coords : expected'[c] = AmountAt(new, c)
    BY <1>1, <1>2, <1>4, <2>1 DEF FileOK, Effect
  <2> QED BY <2>1, <2>2 DEF FileOK
<1> QED BY <1>1, <1>3, <1>4

LEMMA RewriteLines ==
  ASSUME IInv, LinesInv, NEW t \in Threads, Rewrite(t)
  PROVE  LinesInv'
<1> SUFFICES ASSUME Clear' PROVE LinesInv'
  BY DEF LinesInv
<1>1. /\ Clear /\ UNCHANGED <<dir, open>> /\ ops[t].pc = "rewriting"
      /\ lines' = ops[t].copy /\ Account(ops[t].msg)
      /\ \A u \in Threads \ {t} : ops'[u] = ops[u]
      /\ \/ ops'[t].pc = "done"
         \/ ops'[t].pc = "closing" /\ ops'[t].msg = ops[t].msg
  BY ClearBefore DEF Rewrite, Goto, Finish, Idle, IInv, Shape
<1>2. /\ (\A u \in Threads \ {t} : ops[u].pc \notin Holding \cup {"write"}) /\ open = "S"
  BY <1>1, AloneWithFile
<1>3. /\ FileOK /\ ops[t].msg \in Messages /\ ops[t].copy \in Lines /\ OneEach(ops[t].copy)
      /\ Applies(ops[t].msg, lines, ops[t].copy)
  BY <1>1 DEF LinesInv, OpOK
<1>4. expected' = [c \in Coords |-> AmountAt(lines', c)]
  BY <1>1, <1>3, Accounted
<1>5. FileOK'
  BY <1>1, <1>2, <1>3, <1>4 DEF FileOK
<1>6. OpOK(ops'[t], lines', dir', open')
  BY <1>1, <1>3 DEF OpOK
<1> QED BY <1>1, <1>2, <1>5, <1>6, HolderChanges

LEMMA SaveLines ==
  ASSUME IInv, LinesInv, NEW t \in Threads, Save(t)
  PROVE  LinesInv'
<1> SUFFICES ASSUME Clear' PROVE LinesInv'
  BY DEF LinesInv
<1>1. /\ Clear /\ UNCHANGED dir /\ ops[t].pc \in {"saving", "growing"}
      /\ faults' = faults \cup (IF ops[t].pc = "growing" THEN {"early"} ELSE {})
      /\ open' = IF ~dir THEN open ELSE IF ops[t].pc = "saving" THEN "S" ELSE "N"
      /\ lines' = IF dir THEN ops[t].copy ELSE lines
      /\ Account(ops[t].msg)
      /\ \A u \in Threads \ {t} : ops'[u] = ops[u]
      /\ ops'[t].pc = "closing" /\ ops'[t].msg = ops[t].msg
  BY ClearBefore DEF Save, Goto, IInv, Shape
<1>2. ops[t].pc = "saving"
  BY <1>1 DEF Clear
<1>3. /\ \A u \in Threads \ {t} : ops[u].pc \notin Holding \cup {"write"}
      /\ open = "S" /\ dir
  BY <1>1, AloneWithFile
<1>4. /\ FileOK /\ ops[t].msg \in Messages /\ ops[t].copy \in Lines /\ OneEach(ops[t].copy)
      /\ Applies(ops[t].msg, lines, ops[t].copy)
  BY <1>1, <1>2 DEF LinesInv, OpOK
<1>5. expected' = [c \in Coords |-> AmountAt(lines', c)]
  BY <1>1, <1>3, <1>4, Accounted
<1>6. FileOK'
  BY <1>1, <1>2, <1>3, <1>4, <1>5 DEF FileOK
<1>7. OpOK(ops'[t], lines', dir', open')
  BY <1>1, <1>4 DEF OpOK
<1> QED BY <1>1, <1>3, <1>6, <1>7, HolderChanges

LEMMA CloseLines ==
  ASSUME IInv, LinesInv, NEW t \in Threads, Close(t)
  PROVE  LinesInv'
<1> SUFFICES ASSUME Clear' PROVE LinesInv'
  BY DEF LinesInv
<1>1. CASE Stop({"crashed"})
  BY <1>1, StopLines DEF IInv
<1>2. CASE /\ open' = "N" /\ Finish(t, "done")
           /\ UNCHANGED <<dir, lines, sem, process, history>>
  <2>1. /\ Clear /\ UNCHANGED <<lines, expected>> /\ ops[t].pc = "closing" /\ open' = "N"
        /\ \A u \in Threads \ {t} : ops'[u] = ops[u]
        /\ ops'[t].pc = "done"
    BY <1>2, ClearBefore DEF Close, Finish, Idle, history, IInv, Shape
  <2>2. \A u \in Threads \ {t} : ops[u].pc \notin Holding \cup {"write"}
    BY <2>1, AloneWithFile
  <2>3. FileOK'
    BY <2>1 DEF LinesInv, FileOK
  <2>4. OpOK(ops'[t], lines', dir', open')
    BY <2>1 DEF OpOK
  <2> QED BY <2>1, <2>2, <2>3, <2>4, HolderChanges
<1> QED BY <1>1, <1>2 DEF Close

LEMMA RemoveLines ==
  ASSUME IInv, LinesInv, NEW t \in Threads, Remove(t)
  PROVE  LinesInv'
<1> SUFFICES ASSUME Clear' PROVE LinesInv'
  BY DEF LinesInv
<1>1. CASE RemoveFile(t)
  <2>1. /\ Clear /\ ops[t].pc = "removing" /\ open' = NoFile /\ lines' = <<>>
        /\ Account(ops[t].msg)
        /\ \A u \in Threads \ {t} : ops'[u] = ops[u]
        /\ ops'[t].pc = "rmdir" /\ ops'[t].msg = ops[t].msg
    BY <1>1, ClearBefore DEF RemoveFile, Goto, IInv, Shape
  <2>2. \A u \in Threads \ {t} : ops[u].pc \notin Holding \cup {"write"}
    BY <2>1, AloneWithFile
  <2>3. FileOK /\ ops[t].msg \in Messages /\ Applies(ops[t].msg, lines, <<>>)
    BY <2>1 DEF LinesInv, OpOK
  <2>4. expected' = [c \in Coords |-> AmountAt(lines', c)]
    BY <2>1, <2>3, Accounted
  <2>5. lines' \in Lines /\ OneEach(lines')
    BY <2>1 DEF Lines, OneEach
  <2>6. FileOK'
    BY <2>1, <2>4, <2>5 DEF FileOK
  <2>7. OpOK(ops'[t], lines', dir', open')
    BY <2>1, <2>3 DEF OpOK
  <2> QED BY <2>1, <2>2, <2>6, <2>7, HolderChanges
<1>2. CASE RemoveDirectory(t)
  <2>1. /\ Clear /\ UNCHANGED <<lines, expected, open>> /\ ops[t].pc = "rmdir"
        /\ \A u \in Threads \ {t} : ops'[u] = ops[u]
        /\ ops'[t].pc = "done"
    BY <1>2, ClearBefore DEF RemoveDirectory, Finish, Idle, history, IInv, Shape
  <2>2. \A u \in Threads \ {t} : ops[u].pc \notin Holding \cup {"write"}
    BY <2>1, AloneWithFile
  <2>3. FileOK'
    BY <2>1 DEF LinesInv, FileOK
  <2>4. OpOK(ops'[t], lines', dir', open')
    BY <2>1 DEF OpOK
  <2> QED BY <2>1, <2>2, <2>3, <2>4, HolderChanges
<1> QED BY <1>1, <1>2 DEF Remove

(* A directory without a file is given one with a single line. *)
LEMMA CreateLines ==
  ASSUME IInv, LinesInv, NEW t \in Threads, Create(t)
  PROVE  LinesInv'
<1> SUFFICES ASSUME Clear' PROVE LinesInv'
  BY DEF LinesInv
<1>1. /\ Clear /\ UNCHANGED <<lines, expected, dir, open>> /\ ops[t].pc = "create"
      /\ faults' = faults \cup (IF sem # NoSem /\ "removed" \in faults
                                THEN {"recreated"} ELSE {})
      /\ \A u \in Threads \ {t} : ops'[u] = ops[u]
      /\ ops'[t].pc = "write" /\ ops'[t].msg = ops[t].msg
  BY ClearBefore DEF Create, Goto, disk, IInv, Shape
<1>2. sem = NoSem \/ "removed" \notin faults
  BY <1>1 DEF Clear
<1>3. dir /\ open = NoFile
  BY <1>1, <1>2 DEF IInv, CreateInv
<1>4. OpOK(ops'[t], lines, dir, open)
  BY <1>1, <1>3 DEF LinesInv, OpOK
<1> QED BY <1>1, <1>4, OneOpChanges

LEMMA WriteFileLines ==
  ASSUME IInv, LinesInv, NEW t \in Threads, WriteFile(t)
  PROVE  LinesInv'
<1> SUFFICES ASSUME Clear' PROVE LinesInv'
  BY DEF LinesInv
<1> DEFINE m == ops[t].msg
<1>1. /\ Clear /\ UNCHANGED dir /\ ops[t].pc = "write"
      /\ open' = IF dir THEN "N" ELSE open
      /\ lines' = IF dir THEN <<Line(m.coord, m.amount)>> ELSE lines
      /\ Account(m)
      /\ \A u \in Threads \ {t} : ops'[u] = ops[u]
      /\ ops'[t].pc = "post" /\ ops'[t].msg = m
  BY ClearBefore DEF WriteFile, Goto, IInv, Shape
<1>2. \A u \in Threads \ {t} : ops[u].pc \notin Holding \cup {"write"}
  BY <1>1, AloneWithFile
<1>3. FileOK /\ m \in Messages /\ m.kind = "new" /\ dir /\ lines = <<>>
  BY <1>1 DEF LinesInv, FileOK, OpOK
<1> HIDE DEF m
<1>4. m.coord \in Coords /\ m.amount \in Nat \ {0}
  BY <1>3, MessageParts
<1>5. <<>> \in Lines /\ OneEach(<<>>) /\ DOMAIN <<>> = {}
  BY DEF Lines, OneEach
<1>6. lines' = Append(<<>>, Line(m.coord, m.amount))
  BY <1>1, <1>3
<1>7. /\ lines' \in Lines /\ OneEach(lines')
      /\ \A c : AmountAt(lines', c) = IF c = m.coord THEN m.amount ELSE AmountAt(<<>>, c)
  <2> DEFINE none == <<>>
  <2>1. /\ none \in Lines /\ OneEach(none) /\ lines' = Append(none, Line(m.coord, m.amount))
        /\ \A i \in DOMAIN none : none[i].coord # m.coord
    BY <1>5, <1>6
  <2> HIDE DEF none
  <2>2. /\ lines' \in Lines /\ OneEach(lines')
        /\ \A c : AmountAt(lines', c) = IF c = m.coord THEN m.amount ELSE AmountAt(none, c)
    BY <1>4, <2>1, AddedLine
  <2> QED BY <2>2 DEF none
<1>8. \A c : AmountAt(<<>>, c) = 0
  BY <1>5, AmountOfLine
<1>9. Applies(m, lines, lines')
  BY <1>3, <1>4, <1>7, <1>8 DEF Applies, Effect
<1>10. expected' = [c \in Coords |-> AmountAt(lines', c)]
  BY <1>1, <1>3, <1>9, Accounted
<1>11. FileOK'
  BY <1>1, <1>3, <1>7, <1>10 DEF FileOK
<1>12. OpOK(ops'[t], lines', dir', open')
  BY <1>1, <1>3 DEF OpOK
<1> QED BY <1>1, <1>2, <1>11, <1>12, HolderChanges

LEMMA InitLines == Init => LinesInv
<1> SUFFICES ASSUME Init PROVE LinesInv
  OBVIOUS
<1>1. /\ expected = [c \in Coords |-> AmountAt(lines, c)]
      /\ open = NoFile => lines = <<>>
      /\ \A t \in Threads : ops[t].pc = "idle"
  BY DEF Init, Idle
<1>2. lines \in Lines /\ OneEach(lines)
  <2>1. CASE lines = <<>>
    BY <2>1 DEF Lines, OneEach
  <2>2. ASSUME NEW c \in Coords, NEW n \in StartAmounts, lines = <<Line(c, n)>>
        PROVE  lines \in Lines /\ OneEach(lines)
    <3>1. Line(c, n) \in LineRecords
      BY FileAssumption DEF Line, LineRecords
    <3> QED BY <2>2, <3>1 DEF Lines, OneEach
  <2> QED BY <2>1, <2>2 DEF Init
<1> QED BY <1>1, <1>2 DEF LinesInv, FileOK, OpOK

LEMMA NextLines == IInv /\ LinesInv /\ [Next]_vars => LinesInv'
<1> SUFFICES ASSUME IInv, LinesInv, [Next]_vars PROVE LinesInv'
  OBVIOUS
<1>1. ASSUME NEW t \in Threads, Step(t) PROVE LinesInv'
  BY <1>1, QueueLines, SetFlagLines, ReadFileLines, WorkLines, RewriteLines, SaveLines,
     CloseLines, RemoveLines, CreateLines, WriteFileLines
     DEF Step
<1>2. ASSUME NEW t \in Threads, NEW m \in Messages, Start(t, m) PROVE LinesInv'
  BY <1>2, StartLines DEF IInv
<1>3. CASE Kill
  BY <1>3, StopLines DEF Kill, IInv
<1>4. CASE Restart \/ UNCHANGED vars
  <2>1. UNCHANGED <<lines, expected, dir, open, ops, faults>>
    BY <1>4 DEF Restart, vars, disk, history
  <2> QED BY <2>1 DEF LinesInv, FileOK, OpOK, Clear
<1> QED BY <1>1, <1>2, <1>3, <1>4 DEF Next

(* No pokemon is lost or invented, by concurrent operations or by a stop   *)
(* of the process between two of them: at each coordinate the file has     *)
(* what NEWs brought less what CATCHes took.                               *)
THEOREM NoPokemonLost == Spec => []NothingLost
<1>1. Init => IInv /\ LinesInv
  BY InitHolds, InitLines
<1>2. IInv /\ LinesInv /\ [Next]_vars => (IInv /\ LinesInv)'
  BY NextKeeps, NextLines
<1>3. LinesInv => NothingLost
  BY DEF LinesInv, FileOK, NothingLost, Clear
<1> QED BY <1>1, <1>2, <1>3, PTL DEF Spec
=============================================================================

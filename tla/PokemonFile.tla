----------------------------- MODULE PokemonFile -----------------------------
(***************************************************************************)
(* The Game Card's operations on the file of one pokemon                   *)
(* (GameCard/src/GameCard.c): NEW, GET and CATCH, each in a thread of its  *)
(* own, kept apart by the OPEN flag of the pokemon's metadata.bin and by a *)
(* semaphore that is created, with its first use, at 1 when the file       *)
(* exists and at 0 when it does not; the operation that creates the file   *)
(* posts it.  What is on disk survives a restart, the semaphore does not.  *)
(*                                                                         *)
(* The blocks of the file and the SIZE and BLOCKS of its metadata are one  *)
(* value, the lines of the file, written in one step: nobody else sees     *)
(* them half written while the OPEN flag keeps operations apart, and where *)
(* it does not (history variable faults) the properties say nothing of     *)
(* the lines.                                                              *)
(***************************************************************************)
EXTENDS Integers, Sequences, FiniteSets, FiniteSetsExt

CONSTANTS
  Threads,       \* bound: the operations that run
  Coords,        \* the coordinates they are about
  Contains,      \* pairs <<c, d>>: the text of d contains that of c ("1-1", "11-1")
  Amounts,       \* the amounts a NEW brings
  StartAmounts,  \* the amounts of the line a file may start with
  MaxRestarts    \* bound: how many times the process starts again

ASSUME FileAssumption ==
  /\ Contains \subseteq Coords \X Coords
  /\ \A c \in Coords : <<c, c>> \in Contains
  /\ Amounts \cup StartAmounts \subseteq 1 .. 99
  /\ MaxRestarts \in Nat

NoFile == "none"   \* metadata.bin does not exist
NoSem  == -1       \* the pokemon has no entry in pokeSemaphore

VARIABLES
  up,        \* the process runs
  dir,       \* the pokemon's directory exists
  open,      \* the OPEN flag of its metadata.bin, or NoFile
  lines,     \* the lines of its file: [coord, amount]
  sem,       \* the value of its semaphore, or NoSem
  ops,       \* the operations: [msg, pc, copy]
  restarts,  \* how many times the process started again
  expected,  \* history: the pokemons brought and not caught, by coordinate
  faults     \* history: what happened that the OPEN flag does not survive

vars == <<up, dir, open, lines, sem, ops, restarts, expected, faults>>
disk == <<dir, open, lines>>
process == <<up, restarts>>
history == <<expected, faults>>

-----------------------------------------------------------------------------
(* The lines of the file. *)

Line(c, n) == [coord |-> c, amount |-> n]

(* get_string_file_position: the first line whose text contains the        *)
(* coordinate, as the set of its index.                                    *)
LineOf(ls, c) ==
  {i \in DOMAIN ls : /\ <<c, ls[i].coord>> \in Contains
                     /\ \A j \in 1 .. i - 1 : <<c, ls[j].coord>> \notin Contains}

(* How many characters a number takes (amounts stay below 1000). *)
Digits(n) == IF n < 10 THEN 1 ELSE IF n < 100 THEN 2 ELSE 3

(* The number that is read back after new was written over the first       *)
(* characters of old, as rewriting a line in place does.                   *)
WrittenOver(new, old) ==
  LET kept == 10^(Digits(old) - Digits(new)) IN
  IF Digits(new) >= Digits(old) THEN new ELSE (new * kept) + (old % kept)

WithoutLine_Next(ls, i) == SubSeq(ls, 1, i - 1) \o SubSeq(ls, i + 2, Len(ls))
WithoutLine(ls, i) == SubSeq(ls, 1, i - 1) \o SubSeq(ls, i + 1, Len(ls))

AmountAt(ls, c) ==
  MapThenSumSet(LAMBDA i : ls[i].amount, {i \in DOMAIN ls : ls[i].coord = c})

-----------------------------------------------------------------------------
(* The operations. *)

Messages == [kind : {"new"}, coord : Coords, amount : Amounts]
            \cup [kind : {"catch"}, coord : Coords]
            \cup [kind : {"get"}]

Ended == {"idle", "done", "lost"}

(* Where an operation has the file open, and where it is creating it. *)
Holding == {"reading", "working", "rewriting", "saving", "growing", "closing",
            "removing", "rmdir"}
Creating == {"create", "write", "post"}

At(pcs) == {t \in Threads : ops[t].pc \in pcs}
Holders == At(Holding)

Idle == [msg |-> [kind |-> "none"], pc |-> "idle", copy |-> <<>>]

Goto(t, p) == ops' = [ops EXCEPT ![t].pc = p]
GotoWith(t, p, ls) == ops' = [ops EXCEPT ![t].pc = p, ![t].copy = ls]
Finish(t, p) == ops' = [ops EXCEPT ![t] = [Idle EXCEPT !.pc = p]]

Init ==
  /\ up = TRUE
  /\ lines \in {<<>>} \cup {<<Line(c, n)>> : c \in Coords, n \in StartAmounts}
  /\ dir = (lines # <<>>)
  /\ open = IF lines = <<>> THEN NoFile ELSE "N"
  /\ sem = NoSem
  /\ ops = [t \in Threads |-> Idle]
  /\ restarts = 0
  /\ expected = [c \in Coords |-> AmountAt(lines, c)]
  /\ faults = {}

(* The process ends, by a signal or by reading a file that is not there:   *)
(* threads and semaphores are gone.  Stopped while it had the file open,   *)
(* or with the directory and no file in it, it leaves it so for ever.      *)
Stop(why) ==
  /\ up' = FALSE
  /\ sem' = NoSem
  /\ ops' = [t \in Threads |->
               IF ops[t].pc \in Ended THEN ops[t] ELSE [Idle EXCEPT !.pc = "lost"]]
  /\ faults' = faults \cup why
       \cup (IF At(Holding \cup {"create", "write", "marking"}) # {}
             THEN {"stoppedInside"} ELSE {})
  /\ UNCHANGED <<disk, restarts, expected>>

Kill == up /\ restarts < MaxRestarts /\ Stop({})

Restart ==
  /\ ~up /\ restarts < MaxRestarts
  /\ up' = TRUE
  /\ restarts' = restarts + 1
  /\ UNCHANGED <<disk, sem, ops, history>>

(* A message arrives: a NEW makes the directory or finds it, a GET or a    *)
(* CATCH of a pokemon without directory ends there.                        *)
Start(t, m) ==
  /\ up /\ ops[t].pc = "idle"
  /\ ops' = [ops EXCEPT ![t].msg = m,
                        ![t].pc = IF dir THEN "begin"
                                  ELSE IF m.kind = "new" THEN "create" ELSE "done"]
  /\ dir' = (dir \/ m.kind = "new")
  /\ UNCHANGED <<open, lines, sem, process, history>>

(* get_poke_semaphore, the first time an operation needs it. *)
Semaphore_One == IF sem # NoSem THEN sem ELSE 1
Semaphore == IF sem # NoSem THEN sem ELSE IF open = NoFile THEN 0 ELSE 1

GetSemaphore(t) ==
  /\ ops[t].pc = "begin"
  /\ sem' = Semaphore
  /\ Goto(t, "waiting")
  /\ UNCHANGED <<disk, process, history>>

(* read_metadata_file: under the semaphore the flag is read; "N" becomes   *)
(* "S" and the file is read; with "S" it tries again later.                *)
Wait(t) ==
  /\ ops[t].pc = "waiting" /\ sem > 0
  /\ sem' = sem - 1
  /\ Goto(t, "looking")
  /\ UNCHANGED <<disk, process, history>>

ReadFlag_Keeps(t) ==
  /\ ops[t].pc = "looking"
  /\ \/ open = NoFile /\ Stop({"crashed"})
     \/ /\ open = "N"
        /\ Goto(t, "marking")
        /\ UNCHANGED <<disk, sem, process, history>>
     \/ /\ open = "S"
        /\ Goto(t, "begin")
        /\ UNCHANGED <<disk, sem, process, history>>
ReadFlag(t) ==
  /\ ops[t].pc = "looking"
  /\ \/ open = NoFile /\ Stop({"crashed"})
     \/ /\ open = "N"
        /\ Goto(t, "marking")
        /\ UNCHANGED <<disk, sem, process, history>>
     \/ /\ open = "S"
        /\ sem' = sem + 1
        /\ Goto(t, "waiting")
        /\ UNCHANGED <<disk, process, history>>

SetFlag(t) ==
  /\ ops[t].pc = "marking"
  /\ open' = IF dir THEN "S" ELSE open
  /\ sem' = sem + 1
  /\ Goto(t, "reading")
  /\ UNCHANGED <<dir, lines, process, history>>

ReadFile(t) ==
  /\ ops[t].pc = "reading"
  /\ \/ open = NoFile /\ Stop({"crashed"})
     \/ /\ open # NoFile
        /\ GotoWith(t, "working", lines)
        /\ UNCHANGED <<disk, sem, process, history>>

(* NEW on a file: the amount of the coordinate's line grows, in place or   *)
(* with one more digit, or a line is added.                                *)
WorkNew(t) ==
  LET ls == ops[t].copy
      m  == ops[t].msg
  IN /\ ops[t].pc = "working" /\ m.kind = "new"
     /\ \/ /\ LineOf(ls, m.coord) = {}
           /\ GotoWith(t, "saving", Append(ls, Line(m.coord, m.amount)))
           /\ UNCHANGED faults
        \/ \E i \in LineOf(ls, m.coord) :
             LET sum == ls[i].amount + m.amount IN
             /\ GotoWith(t, IF Digits(sum) > Digits(ls[i].amount) THEN "growing" ELSE "rewriting",
                         [ls EXCEPT ![i].amount = sum])
             /\ faults' = faults \cup (IF ls[i].coord # m.coord THEN {"mistaken"} ELSE {})
     /\ UNCHANGED <<disk, sem, process, expected>>

WorkGet(t) ==
  /\ ops[t].pc = "working" /\ ops[t].msg.kind = "get"
  /\ Goto(t, "closing")
  /\ UNCHANGED <<disk, sem, process, history>>

(* CATCH: one less at the coordinate's line, in place; the line goes with  *)
(* the last one, and the file with the last line.  Nothing closes the file *)
(* when there is no such line.                                             *)
WorkCatch(t) ==
  LET ls == ops[t].copy
      m  == ops[t].msg
  IN /\ ops[t].pc = "working" /\ m.kind = "catch"
     /\ \/ /\ LineOf(ls, m.coord) = {}
           /\ Finish(t, "done")
           /\ faults' = faults \cup {"leftOpen"}
        \/ \E i \in LineOf(ls, m.coord) :
             LET less == ls[i].amount - 1
                 shrunk == less > 0 /\ Digits(less) < Digits(ls[i].amount)
             IN /\ GotoWith(t, IF less > 0 THEN "rewriting"
                               ELSE IF Len(ls) > 1 THEN "saving" ELSE "removing",
                            IF less > 0
                            THEN [ls EXCEPT ![i].amount = WrittenOver(less, @)]
                            ELSE WithoutLine(ls, i))
                /\ faults' = faults \cup (IF ls[i].coord # m.coord THEN {"mistaken"} ELSE {})
                                    \cup (IF shrunk THEN {"shrunk"} ELSE {})
     /\ UNCHANGED <<disk, sem, process, expected>>

(* What the operation adds to, or takes from, what is expected. *)
Account(m) ==
  expected' = CASE m.kind = "new"   -> [expected EXCEPT ![m.coord] = @ + m.amount]
                [] m.kind = "catch" -> [expected EXCEPT ![m.coord] = @ - 1]

(* rewrite_blocks; after it a NEW closes the file and a CATCH does not. *)
Rewrite(t) ==
  /\ ops[t].pc = "rewriting"
  /\ lines' = ops[t].copy
  /\ Account(ops[t].msg)
  /\ IF ops[t].msg.kind = "new"
     THEN Goto(t, "closing") /\ UNCHANGED faults
     ELSE Finish(t, "done") /\ faults' = faults \cup {"leftOpen"}
  /\ UNCHANGED <<dir, open, sem, process>>

(* write_blocks and create_file(POKE_METADATA), which makes the file if    *)
(* its directory is there.  A line that grew is saved with OPEN=N.         *)
Save_Open(t) ==
  /\ ops[t].pc \in {"saving", "growing"} /\ sem > 0
  /\ open' = IF ~dir THEN open ELSE "N"
  /\ lines' = IF dir THEN ops[t].copy ELSE lines
  /\ Account(ops[t].msg)
  /\ faults' = faults \cup (IF ops[t].pc = "growing" THEN {"early"} ELSE {})
  /\ Goto(t, "closing")
  /\ UNCHANGED <<dir, sem, process>>
Save(t) ==
  /\ ops[t].pc \in {"saving", "growing"} /\ sem > 0
  /\ open' = IF ~dir THEN open ELSE IF ops[t].pc = "saving" THEN "S" ELSE "N"
  /\ lines' = IF dir THEN ops[t].copy ELSE lines
  /\ Account(ops[t].msg)
  /\ faults' = faults \cup (IF ops[t].pc = "growing" THEN {"early"} ELSE {})
  /\ Goto(t, "closing")
  /\ UNCHANGED <<dir, sem, process>>

(* After the operation's delay, Metadata_File_Open_Flag(.., "N"). *)
Close(t) ==
  /\ ops[t].pc = "closing" /\ sem > 0
  /\ \/ open = NoFile /\ Stop({"crashed"})
     \/ /\ open # NoFile
        /\ open' = "N"
        /\ Finish(t, "done")
        /\ UNCHANGED <<dir, lines, sem, process, history>>

(* The last catch removes metadata.bin, then the directory, without the    *)
(* semaphore, which stays.                                                 *)
RemoveFile(t) ==
  /\ ops[t].pc = "removing"
  /\ open' = NoFile
  /\ lines' = <<>>
  /\ Account(ops[t].msg)
  /\ faults' = faults \cup {"removed"}
  /\ Goto(t, "rmdir")
  /\ UNCHANGED <<dir, sem, process>>

RemoveDirectory(t) ==
  /\ ops[t].pc = "rmdir"
  /\ dir' = (dir /\ open # NoFile)
  /\ Finish(t, "done")
  /\ UNCHANGED <<open, lines, sem, process, history>>

(* NEW of a pokemon without a directory (create_poke_file): its semaphore, *)
(* its file with one line and OPEN=N, then the post of the semaphore.      *)
Create(t) ==
  /\ ops[t].pc = "create"
  /\ sem' = Semaphore
  /\ Goto(t, "write")
  /\ faults' = faults \cup (IF sem # NoSem /\ "removed" \in faults THEN {"recreated"} ELSE {})
  /\ UNCHANGED <<disk, process, expected>>

WriteFile(t) ==
  /\ ops[t].pc = "write"
  /\ open' = IF dir THEN "N" ELSE open
  /\ lines' = IF dir THEN <<Line(ops[t].msg.coord, ops[t].msg.amount)>> ELSE lines
  /\ Account(ops[t].msg)
  /\ Goto(t, "post")
  /\ UNCHANGED <<dir, sem, process, faults>>

Post(t) ==
  /\ ops[t].pc = "post"
  /\ sem' = sem + 1
  /\ Finish(t, "done")
  /\ UNCHANGED <<disk, process, history>>

Work(t) == WorkNew(t) \/ WorkGet(t) \/ WorkCatch(t)
Remove(t) == RemoveFile(t) \/ RemoveDirectory(t)
Step(t) ==
  \/ GetSemaphore(t) \/ Wait(t) \/ ReadFlag(t) \/ SetFlag(t) \/ ReadFile(t)
  \/ Work(t) \/ Rewrite(t) \/ Save(t) \/ Close(t) \/ Remove(t)
  \/ Create(t) \/ WriteFile(t) \/ Post(t)

Next ==
  \/ Kill \/ Restart
  \/ \E t \in Threads : (\E m \in Messages : Start(t, m)) \/ Step(t)

Spec == Init /\ [][Next]_vars

(* Threads are scheduled.  One that waits for the semaphore gets it if it  *)
(* is free again and again: those that retry sleep a second or more before *)
(* they take it again.  Messages need not arrive, and nothing restarts the *)
(* process.                                                                *)
FairSpec ==
  /\ Spec
  /\ \A t \in Threads : WF_vars(Step(t))
  /\ \A t \in Threads : SF_vars(Wait(t) \/ Save(t) \/ Close(t))

-----------------------------------------------------------------------------
TypeOK ==
  /\ up \in BOOLEAN /\ dir \in BOOLEAN
  /\ open \in {"N", "S", NoFile}
  /\ lines \in Seq([coord : Coords, amount : 1 .. 999])
  /\ sem \in {NoSem} \cup 0 .. Cardinality(Threads)
  /\ restarts \in 0 .. MaxRestarts
  /\ expected \in [Coords -> Int]
  /\ faults \subseteq {"leftOpen", "early", "removed", "recreated", "mistaken",
                       "shrunk", "stoppedInside", "crashed"}

(* At most one operation has the file open: the flag excludes the others,  *)
(* unless a line that grew was saved as closed, or the file was made again *)
(* with the semaphore of the one before.                                   *)
OneHolder ==
  faults \cap {"early", "recreated"} = {} => Cardinality(Holders) <= 1

(* No pokemon is lost or invented, by concurrent operations or by a stop   *)
(* of the process between two of them: at each coordinate the file has     *)
(* what NEWs brought less what CATCHes took.                               *)
NothingLost ==
  faults \cap {"early", "recreated", "mistaken", "shrunk", "stoppedInside"} = {}
    => \A c \in Coords : AmountAt(lines, c) = expected[c]

(* The process reads metadata.bin only where it exists, until a CATCH has  *)
(* removed one: an operation that finds the directory before its file is   *)
(* written waits for the post of the one that makes it.                    *)
CrashNeedsRemoval == "crashed" \in faults => "removed" \in faults

(* The semaphore excludes, and when nobody is inside it is taken only by   *)
(* an operation that will post it, having made the file.                   *)
SemaphoreComesBack ==
  sem # NoSem /\ faults \cap {"recreated", "stoppedInside"} = {}
    => LET inside == Cardinality(At({"looking", "marking"})) IN
       /\ sem + inside <= 1
       /\ sem + inside = 0 => At(Creating) # {}

(* Every operation ends, or is lost with the process, unless the file was  *)
(* left open or the process stopped inside one: then the operations retry, *)
(* or wait for the semaphore, for ever.                                    *)
OpsEnd ==
  \A t \in Threads :
    ops[t].pc = "begin"
      ~> ops[t].pc \in Ended \/ faults \cap {"leftOpen", "stoppedInside"} # {}
=============================================================================

---------------------------- MODULE Catching_proofs ----------------------------
(***************************************************************************)
(* Theorems about Catching, for any team, any files of GameCard and any    *)
(* faults: the threads of Planner, whose steps are those of                *)
(* Planner_proofs, together with the messages and those that process them. *)
(***************************************************************************)
EXTENDS Catching, Planner_proofs

-----------------------------------------------------------------------------
(* Types.  A list that startCloseScheduling or an answer shortens may have *)
(* been shortened by the other since the position was taken, so what is    *)
(* said of the lists here does not depend on the positions.                *)

Spots == [name : Species, pos : Int \X Int] \cup {Nothing}

Letters == {m \in [type : Queues, id : Nat, cid : Nat, pkm : Spots, n : Nat] :
              m.type = "LOCALIZED" /\ m.n > 0 => m.pkm \in Arrivals}

Deliveries == [msg : Letters, times : Nat]

ThreadPcs == {"reply", "lock", "add", "refuse", "apply", "exit", "drop"}

Workers ==
  {t \in [msg : Letters, times : Nat, pc : ThreadPcs, at : Nat, pkm : Spots] :
     /\ t.pc \in {"lock", "add"} => t.pkm \in Arrivals /\ t.at > 0
     /\ t.pc = "reply" /\ t.msg.type = "GET" /\ t.at > 0 => t.pkm \in Arrivals
     /\ t.pc \in {"exit", "drop"} => t.at > 0}

Lines == [pkm : Arrivals, amount : Nat \ {0}]
Links == [Queues -> [on : BOOLEAN, times : Nat, served : SUBSET Nat]]
Requests == [id : Nat, trainer : Trainers]

BrokerTypes ==
  /\ up \in BOOLEAN /\ lastId \in Nat
  /\ cached \in SUBSET Letters /\ IsFiniteSet(cached)
  /\ link \in Links
  /\ transit \in SUBSET Deliveries /\ IsFiniteSet(transit)

CardTypes ==
  /\ stock \in Seq(Lines) /\ leftOpen \in SUBSET Species
  /\ taken \in [Species -> Nat] /\ defaults \in Nat

WorkTypes == threads \in SUBSET Workers /\ IsFiniteSet(threads)

AskTypes ==
  /\ main \in [pc : {"get", "ack", "started"}, i : Nat \ {0}]
  /\ ids \in [main : Nat, runner : Nat]
  /\ getList \in SUBSET Nat /\ catchList \in Seq(Requests)

MailTypes == BrokerTypes /\ CardTypes /\ WorkTypes /\ AskTypes
CatchingTypes == Sound /\ Closing /\ MailTypes

LEMMA ArrivalIsSpot == Arrivals \subseteq Spots /\ Pokemons \subseteq Spots
BY PlannerAssumption DEF Spots, Pokemons, Nothing

LEMMA SameKeepsPlan ==
  ASSUME Sound, Closing, UNCHANGED vars
  PROVE  Sound' /\ Closing'
BY DEF vars, lists, ends, Sound, TypeOK, RunnerInv, Closing

LEMMA SameBroker == ASSUME BrokerTypes, UNCHANGED brokerVars PROVE BrokerTypes'
BY DEF BrokerTypes, brokerVars

LEMMA SameCard == ASSUME CardTypes, UNCHANGED cardVars PROVE CardTypes'
BY DEF CardTypes, cardVars

LEMMA SameAsk == ASSUME AskTypes, UNCHANGED askVars PROVE AskTypes'
BY DEF AskTypes, askVars

LEMMA SameWork == ASSUME WorkTypes, UNCHANGED threads PROVE WorkTypes'
BY DEF WorkTypes

-----------------------------------------------------------------------------
(* The lists: the steps of Planner, when positions may have moved. *)

(* What removeFromBlocked and the like do to a list. *)
CutShort(old, now) == now = old \/ \E k \in DOMAIN old : now = RemoveAt(old, k)

LEMMA RemovedIsCut ==
  ASSUME NEW R, NEW list \in Seq(R), NEW i \in Nat \ {0}
  PROVE  CutShort(list, Removed(list, i)) /\ Removed(list, i) \in Seq(R)
<1>1. CASE list = <<>>
  BY <1>1 DEF Removed, CutShort
<1>2. CASE list # <<>>
  <2> DEFINE n == Len(list)
             k == IF i <= n THEN i ELSE n
  <2>1. n \in Nat /\ n > 0 /\ DOMAIN list = 1 .. n
    BY <1>2
  <2> HIDE DEF n
  <2>2. k \in 1 .. n /\ k \in {i, n} /\ \A y \in {i, n} : k <= y
    BY <2>1
  <2>3. \A x \in {i, n} : (\A y \in {i, n} : x <= y) => x = k
    BY <2>1
  <2> HIDE DEF k
  <2>4. Min({i, n}) = k
    BY <2>2, <2>3 DEF Min
  <2>5. Removed(list, i) = RemoveAt(list, k)
    BY <1>2, <2>4 DEF Removed, n
  <2> QED BY <2>1, <2>2, <2>5, RemovedPlaces DEF CutShort
<1> QED BY <1>1, <1>2

LEMMA DropTypes ==
  ASSUME Sound, Closing, Drop
  PROVE  /\ UNCHANGED <<algorithm, ready, exit, exec, available, missing, sem, appeared, runner, ends>>
         /\ closer' \in Closers /\ closer'.pc = "unlock"
         /\ new' \in Seq(TrainerRecords) /\ blocked' \in Seq(TrainerRecords)
         /\ CutShort(new, new') /\ CutShort(blocked, blocked')
<1>1. /\ closer \in Closers /\ new \in Seq(TrainerRecords) /\ blocked \in Seq(TrainerRecords)
  BY Lists DEF Sound, ListTypes, TypeOK, Closers, CloserPcs
<1>2. /\ closer.pc = "drop" /\ closer' = [closer EXCEPT !.pc = "unlock"]
      /\ UNCHANGED <<algorithm, ready, exit, exec, available, missing, sem, appeared, runner, ends>>
      /\ new' = IF closer.list = "new" THEN Removed(new, closer.pos) ELSE new
      /\ blocked' = IF closer.list = "blocked" THEN Removed(blocked, closer.pos) ELSE blocked
  BY DEF Drop, Goto
<1>3. closer.pos \in Nat \ {0}
  BY <1>1, <1>2 DEF Closing, Closers
<1>4. /\ CutShort(new, Removed(new, closer.pos)) /\ Removed(new, closer.pos) \in Seq(TrainerRecords)
      /\ CutShort(blocked, Removed(blocked, closer.pos))
      /\ Removed(blocked, closer.pos) \in Seq(TrainerRecords)
  BY <1>1, <1>3, RemovedIsCut
<1>5. CutShort(new, new) /\ CutShort(blocked, blocked)
  BY DEF CutShort
<1>6. closer' \in Closers /\ closer'.pc = "unlock"
  BY <1>1, <1>2 DEF Closers, CloserPcs
<1> QED BY <1>1, <1>2, <1>4, <1>5, <1>6

LEMMA PlanHas ==
  ASSUME Sound, Closing, HasChoice, Choose, ready' # ready
  PROVE  \E p \in Arrivals : Planning(p)
BY PlanTypes DEF HasChoice, SomebodyFree

LEMMA CloserTypes ==
  ASSUME Sound, Closing, Closer, HasChoice
  PROVE  Sound' /\ Closing'
<1>0. /\ new \in Seq(TrainerRecords) /\ ready \in Seq(TrainerRecords)
      /\ blocked \in Seq(TrainerRecords) /\ exit \in Seq(TrainerRecords)
      /\ exec \in Execs /\ available \in Seq(Arrivals) /\ missing \in [Species -> Nat]
      /\ appeared \in [Arrivals -> {"none", "add", "done"}] /\ closer \in Closers
      /\ flagDeadLock \in BOOLEAN /\ running \in BOOLEAN
      /\ TypeOK /\ RunnerInv /\ runner \in Runners /\ sem \in [Semaphores -> Nat]
  BY AllTypes DEF Sound
<1>1. CASE Quiet
  <2>1. /\ UNCHANGED NoLists /\ UNCHANGED available /\ closer' \in Closers
        /\ sem' \in [Semaphores -> Nat] /\ Closing'
    BY <1>1, QuietTypes DEF Leaves
  <2>2. TypeOK'
    BY <1>0, <2>1, TypesAgain DEF NoLists, lists, ends
  <2>3. RunnerInv'
    BY <1>0, <2>1 DEF RunnerInv, NoLists, lists
  <2> QED BY <2>1, <2>2, <2>3 DEF Sound
<1>2. ASSUME NEW p \in Arrivals, Planning(p) PROVE Sound' /\ Closing'
  <2>1. /\ closer' \in Closers /\ UNCHANGED <<algorithm, new, blocked, exit, exec, missing, appeared, runner, ends>>
        /\ available' \in Seq(Arrivals) /\ sem' \in [Semaphores -> Nat] /\ CloserInv'
        /\ ready' \in Seq(TrainerRecords)
        /\ \A i \in DOMAIN ready : i \in DOMAIN ready' /\ ready'[i] = ready[i]
    BY <1>2 DEF Planning, Longer
  <2>2. TypeOK'
    BY <1>0, <2>1, TypesAgain DEF ends
  <2>3. RunnerInv'
    BY <1>0, <2>1 DEF RunnerInv
  <2> QED BY <2>1, <2>2, <2>3 DEF Sound, CloserInv
<1>3. CASE Drop
  <2>1. /\ closer' \in Closers /\ closer'.pc = "unlock"
        /\ UNCHANGED <<algorithm, ready, exit, exec, available, missing, sem, appeared, runner, ends>>
        /\ new' \in Seq(TrainerRecords) /\ blocked' \in Seq(TrainerRecords)
    BY <1>3, DropTypes
  <2>2. TypeOK'
    BY <1>0, <2>1, TypesAgain DEF ends
  <2>3. RunnerInv' /\ Closing'
    BY <1>0, <2>1 DEF RunnerInv, Closing
  <2> QED BY <2>2, <2>3 DEF Sound
<1> QED BY <1>1, <1>2, <1>3, PlanHas DEF Closer, Quiet

-----------------------------------------------------------------------------
(* The lists: the steps of Catching. *)

PlanTyped ==
  /\ ready \in Seq(TrainerRecords) /\ blocked \in Seq(TrainerRecords)
  /\ exit \in Seq(TrainerRecords) /\ new \in Seq(TrainerRecords)
  /\ exec \in Execs /\ exec.trainer \in TrainerRecords
  /\ runner \in Runners /\ closer \in Closers
  /\ sem \in [Semaphores -> Nat] /\ missing \in [Species -> Nat]
  /\ available \in Seq(Arrivals)

LEMMA PlanIsTyped == ASSUME Sound PROVE PlanTyped
BY AllTypes, RunTypes DEF Sound, PlanTyped

LEMMA PlanAgain ==
  ASSUME Sound, Closing,
         UNCHANGED <<algorithm, new, ready, missing, appeared, closer, ends>>,
         blocked' \in Seq(TrainerRecords), exit' \in Seq(TrainerRecords), exec' \in Execs,
         available' \in Seq(Arrivals), DOMAIN available \subseteq DOMAIN available',
         sem' \in [Semaphores -> Nat], runner' \in Runners, RunnerInv'
  PROVE  Sound' /\ Closing'
<1>1. TypeOK'
  BY AllTypes, TypesAgain DEF Sound, ends
<1> QED BY <1>1 DEF Sound, Closing

(* A connection that waits for an acknowledgement is cut. *)
LEMMA OutageStep ==
  ASSUME Sound, Outage
  PROVE  /\ runner' \in Runners /\ SamePost /\ runner'.pos = runner.pos
         /\ \/ runner.pc \in {"send", "ack"} /\ runner'.pc = "cutOff"
            \/ runner.pc # "send" /\ UNCHANGED runner
         /\ UNCHANGED <<algorithm, lists, exec, available, missing, sem, appeared, closer, ends>>
<1>1. runner \in Runners
  BY RunTypes
<1>2. CASE runner.pc \in {"send", "ack"} /\ RunTo("cutOff")
  <2>1. /\ runner' \in Runners /\ runner'.pc = "cutOff" /\ SamePost
         /\ runner'.pos = runner.pos
    BY <1>1, <1>2, RunToIsTyped DEF RunnerPcs, AskingPcs
  <2> QED BY <1>2, <2>1 DEF Outage
<1>3. CASE runner.pc # "send" /\ UNCHANGED runner
  BY <1>1, <1>3 DEF Outage, SamePost
<1> QED BY <1>2, <1>3 DEF Outage

LEMMA AskBrokerStep ==
  ASSUME Sound, AskBroker
  PROVE  /\ up /\ Runs("run", "send") /\ SamePost
         /\ exec.on /\ exec' \in Execs /\ exec'.on = exec.on
         /\ exec'.trainer \in TrainerRecords
         /\ exec'.trainer = [exec.trainer EXCEPT !.state = "WAITING"]
         /\ exec'.trainer.id = exec.trainer.id /\ exec'.trainer.held = exec.trainer.held
         /\ exec'.trainer.state = "WAITING" /\ exec'.trainer.target = exec.trainer.target
         /\ blocked' = Append(blocked, exec'.trainer) /\ Longer(blocked, blocked', exec'.trainer)
         /\ UNCHANGED <<ready, exit, missing, sem>>
<1> DEFINE t == exec.trainer
           w == [t EXCEPT !.state = "WAITING"]
<1>1. runner \in Runners /\ exec \in Execs /\ t \in TrainerRecords
      /\ blocked \in Seq(TrainerRecords) /\ sem \in [Semaphores -> Nat]
  BY RunTypes
<1>2. /\ up /\ runner.pc = "run" /\ RunTo("send")
      /\ exec' = [exec EXCEPT !.trainer = w] /\ blocked' = Append(blocked, w)
      /\ UNCHANGED <<ready, exit, missing, sem>> /\ UNCHANGED Apart
  BY DEF AskBroker, Hunting, Running, Blocks, Apart
<1>3. w \in TrainerRecords /\ w.id = t.id /\ w.held = t.held /\ w.state = "WAITING"
  <2> HIDE DEF t
  <2> QED BY <1>1, StateRecord
<1>4. w.target = t.target
  BY <1>1 DEF TrainerRecords
<1>5. exec.on
  BY <1>2 DEF Sound, RunnerInv, Executing
<1>6. runner' \in Runners /\ runner'.pc = "send" /\ SamePost
  BY <1>1, <1>2, RunToIsTyped DEF RunnerPcs, AskingPcs
<1>7. exec' \in Execs /\ exec'.on = exec.on /\ exec'.trainer = w
  <2> HIDE DEF w
  <2> QED BY <1>1, <1>2, <1>3 DEF Execs
<1>8. Longer(blocked, blocked', w)
  <2> HIDE DEF w
  <2> QED BY <1>1, <1>2, <1>3, AppendLonger
<1>9. Runs("run", "send")
  BY <1>1, <1>2, <1>6 DEF Runs
<1> QED BY <1>2, <1>3, <1>4, <1>5, <1>6, <1>7, <1>8, <1>9

(* What a trainer that asks does next, but for what it sends and registers. *)
PlanAside == UNCHANGED <<algorithm, lists, exec, available, missing, sem, appeared, closer, ends>>

LEMMA SendCatchStep ==
  ASSUME Sound, SendCatch
  PROVE  runner.pc = "send" /\ runner' \in Runners /\ runner'.pc = "ack" /\ SamePost
         /\ runner'.pos = runner.pos /\ PlanAside
<1>1. runner \in Runners /\ runner.pc = "send" /\ RunTo("ack") /\ PlanAside
  BY RunTypes DEF SendCatch, PlanAside
<1> QED BY <1>1, RunToIsTyped DEF RunnerPcs, AskingPcs

LEMMA RegisterStep ==
  ASSUME Sound, NEW id, NEW from, Register(id, from)
  PROVE  runner.pc = from /\ runner' \in Runners /\ runner'.pc = "asked" /\ SamePost
         /\ runner'.pos = runner.pos /\ PlanAside
<1>1. runner \in Runners /\ runner.pc = from /\ RunTo("asked") /\ PlanAside
  BY RunTypes DEF Register, PlanAside
<1> QED BY <1>1, RunToIsTyped DEF RunnerPcs, AskingPcs

LEMMA AskedStep ==
  ASSUME Sound, Asked
  PROVE  /\ Runs("asked", "ready") /\ SamePost /\ UNCHANGED <<ready, blocked, exit, missing>>
         /\ exec' \in Execs /\ ~exec'.on /\ exec'.trainer = exec.trainer
         /\ sem'["execTrainer"] = sem["execTrainer"] + 1 /\ OthersSame({"execTrainer"})
BY RemoveFromExecStep DEF Asked, RunnerPcs, AskingPcs

(* What the threads that process an answer change in the lists. *)
AnswerAside == UNCHANGED <<algorithm, new, ready, available, appeared, closer, runner>>

LEMMA RefuseStep ==
  ASSUME Sound, NEW t, Refuse(t)
  PROVE  /\ AnswerAside /\ UNCHANGED <<blocked, exit, missing, ends>>
         /\ exec' \in Execs /\ exec'.on = exec.on /\ exec'.trainer \in TrainerRecords
         /\ exec'.trainer = [exec.trainer EXCEPT !.state = "AVAILABLE"]
         /\ exec'.trainer.id = exec.trainer.id /\ exec'.trainer.held = exec.trainer.held
         /\ sem' \in [Semaphores -> Nat]
<1> DEFINE r == exec.trainer
           w == [r EXCEPT !.state = "AVAILABLE"]
<1>1. exec \in Execs /\ r \in TrainerRecords /\ sem \in [Semaphores -> Nat]
  BY RunTypes
<1>2. /\ exec' = [exec EXCEPT !.trainer.state = "AVAILABLE"]
      /\ Post("availableTrainersCount") /\ AnswerAside
      /\ UNCHANGED <<blocked, exit, missing, ends>>
  BY DEF Refuse, AnswerAside, lists
<1>3. w \in TrainerRecords /\ w.id = r.id /\ w.held = r.held
  <2> HIDE DEF r
  <2> QED BY <1>1, StateRecord
<1>4. exec' = [exec EXCEPT !.trainer = w]
  BY <1>2
<1>5. exec' \in Execs /\ exec'.on = exec.on /\ exec'.trainer = w
  <2> HIDE DEF w
  <2> QED BY <1>1, <1>3, <1>4 DEF Execs
<1>6. sem' \in [Semaphores -> Nat]
  BY <1>1, <1>2, Posts DEF Semaphores
<1> QED BY <1>2, <1>3, <1>5, <1>6

LEMMA ExitCaughtStep ==
  ASSUME Sound, NEW t, ExitCaught(t)
  PROVE  /\ AnswerAside /\ UNCHANGED <<blocked, exec, missing, ends>>
         /\ exit' = Append(exit, exec.trainer) /\ Longer(exit, exit', exec.trainer)
         /\ sem' \in [Semaphores -> Nat] /\ sem'["exitCount"] = sem["exitCount"] + 1
         /\ OthersSame({"exitCount"})
<1>1. exec.trainer \in TrainerRecords /\ sem \in [Semaphores -> Nat]
      /\ exit \in Seq(TrainerRecords)
  BY RunTypes
<1>2. /\ exit' = Append(exit, exec.trainer) /\ Post("exitCount") /\ AnswerAside
      /\ UNCHANGED <<blocked, exec, missing, ends>>
  BY DEF ExitCaught, AnswerAside
<1>3. Longer(exit, exit', exec.trainer)
  BY <1>1, <1>2, AppendLonger
<1> QED BY <1>1, <1>2, <1>3, Posts DEF OthersSame, SameSem, Semaphores

LEMMA DropCaughtStep ==
  ASSUME Sound, NEW t, t.at \in Nat \ {0}, DropCaught(t)
  PROVE  /\ AnswerAside /\ UNCHANGED <<exit, exec, missing, ends>>
         /\ blocked' = Removed(blocked, t.at)
         /\ CutShort(blocked, blocked') /\ blocked' \in Seq(TrainerRecords)
         /\ sem' \in [Semaphores -> Nat] /\ sem'["deadlockCount"] = sem["deadlockCount"] + 1
         /\ OthersSame({"deadlockCount"})
<1>1. sem \in [Semaphores -> Nat] /\ blocked \in Seq(TrainerRecords)
  BY RunTypes
<1>2. /\ blocked' = Removed(blocked, t.at) /\ Post("deadlockCount") /\ AnswerAside
      /\ UNCHANGED <<exit, exec, missing, ends>>
  BY DEF DropCaught, AnswerAside
<1>3. CutShort(blocked, blocked') /\ blocked' \in Seq(TrainerRecords)
  BY <1>1, <1>2, RemovedIsCut
<1> QED BY <1>1, <1>2, <1>3, Posts DEF OthersSame, SameSem, Semaphores

(* What the trainer that an answer reaches becomes, and what is posted. *)
StateOf(u) == CASE ~Fills(u) -> "AVAILABLE" [] Fills(u) /\ HoldsOthers(u) -> "DEADLOCK"
                [] OTHER -> u.state
Answered(t) == Caught(blocked[t.at])
HasAll(u) == Fills(u) /\ ~HoldsOthers(u)

Applied(t) ==
  /\ t.at \in DOMAIN blocked
  /\ missing' = [missing EXCEPT ![Answered(t).target.name] = IF @ > 0 THEN @ - 1 ELSE 0]
  /\ \E v \in TrainerRecords :
       /\ blocked' = [blocked EXCEPT ![t.at] = v]
       /\ v.id = blocked[t.at].id /\ v.held = Caught(blocked[t.at]).held
       /\ v.target = blocked[t.at].target /\ v.state = StateOf(Answered(t))
  /\ \/ /\ HasAll(Answered(t)) /\ GoesTo(t, "exit") /\ UNCHANGED sem
     \/ /\ ~HasAll(Answered(t)) /\ Ends(t)
        /\ Post(IF Fills(Answered(t)) THEN "deadlockCount" ELSE "availableTrainersCount")
  /\ UNCHANGED ends

Misapplied(t) ==
  /\ t.at \notin DOMAIN blocked
  /\ running' = FALSE /\ Ends(t)
  /\ UNCHANGED <<missing, blocked, sem, flagDeadLock>>

LEMMA TargetOfCaught ==
  ASSUME NEW r \in TrainerRecords
  PROVE  Caught(r).target = r.target
BY DEF Caught, TrainerRecords

LEMMA ApplyStep ==
  ASSUME Sound, NEW t, t.at \in Nat, Apply(t)
  PROVE  /\ AnswerAside /\ UNCHANGED <<exit, exec>> /\ t.pc = "apply"
         /\ sem' \in [Semaphores -> Nat] /\ missing' \in [Species -> Nat]
         /\ blocked' \in Seq(TrainerRecords)
         /\ Applied(t) \/ Misapplied(t)
<1> DEFINE u == Caught(blocked[t.at])
           placed == CASE ~Fills(u) -> "AVAILABLE" [] Fills(u) /\ HoldsOthers(u) -> "DEADLOCK"
                       [] OTHER -> u.state
           v == [u EXCEPT !.state = placed]
           goes == GoesTo(t, "exit") /\ UNCHANGED sem
           ends1 == /\ Ends(t)
                    /\ Post(IF Fills(u) THEN "deadlockCount" ELSE "availableTrainersCount")
<1>1. /\ sem \in [Semaphores -> Nat] /\ blocked \in Seq(TrainerRecords)
      /\ missing \in [Species -> Nat]
  BY RunTypes
<1>2. AnswerAside /\ UNCHANGED <<exit, exec>> /\ t.pc = "apply"
  BY DEF Apply, AnswerAside
<1>3. CASE t.at \notin DOMAIN blocked
  BY <1>1, <1>2, <1>3 DEF Apply, Misapplied
<1>4. CASE t.at \in DOMAIN blocked
  <2>1. /\ missing' = [missing EXCEPT ![u.target.name] = IF @ > 0 THEN @ - 1 ELSE 0]
        /\ blocked' = [blocked EXCEPT ![t.at] = v]
        /\ IF Fills(u) /\ ~HoldsOthers(u) THEN goes ELSE ends1
        /\ UNCHANGED ends
    BY <1>4 DEF Apply
  <2>2. blocked[t.at] \in TrainerRecords
    BY <1>1, <1>4
  <2>3. u \in TrainerRecords /\ u.id = blocked[t.at].id /\ u.state = blocked[t.at].state
        /\ u.target = blocked[t.at].target
    BY <2>2, CaughtRecord, TargetOfCaught
  <2>4. placed \in {"AVAILABLE", "DEADLOCK", "WAITING"}
    <3>1. u.state \in {"AVAILABLE", "DEADLOCK", "WAITING"}
      BY <2>3, RecordParts
    <3> HIDE DEF u
    <3> QED BY <3>1
  <2>5. u = Answered(t) /\ placed = StateOf(Answered(t)) /\ u.held = Caught(blocked[t.at]).held
    BY DEF Answered, StateOf
  <2>6. (Fills(u) /\ ~HoldsOthers(u)) = HasAll(u)
    BY DEF HasAll
  <2> HIDE DEF u, placed
  <2>7. v \in TrainerRecords /\ v.id = u.id /\ v.held = u.held /\ v.state = placed
    BY <2>3, <2>4, StateRecord
  <2>8. v.target = u.target
    BY <2>3 DEF TrainerRecords
  <2> HIDE DEF v
  <2>9. blocked' \in Seq(TrainerRecords)
    BY <1>1, <1>4, <2>1, <2>7
  <2>10. missing' \in [Species -> Nat]
    <3> DEFINE n == u.target.name
               k == IF missing[n] > 0 THEN missing[n] - 1 ELSE 0
    <3>1. missing' = [missing EXCEPT ![n] = k]
      BY <2>1
    <3>2. n \in Species => k \in Nat
      BY <1>1
    <3> HIDE DEF n, k
    <3> QED BY <1>1, <3>1, <3>2
  <2>11. \/ HasAll(u) /\ GoesTo(t, "exit") /\ UNCHANGED sem
         \/ /\ ~HasAll(u) /\ Ends(t)
            /\ Post(IF Fills(u) THEN "deadlockCount" ELSE "availableTrainersCount")
    BY <2>1, <2>6
  <2>12. sem' \in [Semaphores -> Nat]
    BY <1>1, <2>11, Posts DEF Semaphores
  <2>13. Applied(t)
    <3>1. /\ blocked' = [blocked EXCEPT ![t.at] = v]
          /\ v.id = blocked[t.at].id /\ v.held = Caught(blocked[t.at]).held
          /\ v.target = blocked[t.at].target /\ v.state = StateOf(Answered(t))
      BY <2>1, <2>3, <2>5, <2>7, <2>8
    <3> QED BY <1>4, <2>1, <2>5, <2>7, <2>11, <3>1 DEF Applied
  <2> QED BY <1>2, <2>9, <2>10, <2>12, <2>13
<1> QED BY <1>3, <1>4

(* The steps that leave all of Planner alone. *)
LEMMA PlanAlone ==
  ASSUME \/ \E q \in Queues : Subscribe(q) \/ Cut(q)
         \/ Restart \/ RequestPokemon \/ RegisterGet
         \/ \E i \in DOMAIN stock : Taken(i)
         \/ \E d \in transit : Arrives(d)
         \/ \E t \in threads : CardReplies(t)
  PROVE  UNCHANGED vars
BY DEF Subscribe, Cut, Restart, RequestPokemon, RegisterGet, Taken, Arrives, CardLooks,
       CardCatches, LocalizedArrives, CaughtArrives, CardReplies

LEMMA PlannerStepsKeepPlan ==
  ASSUME Sound, Closing, PlannerSteps
  PROVE  Sound' /\ Closing'
<1>1. CASE Runner
  <2>1. Sound' /\ UNCHANGED Apart
    BY <1>1, RunKeepsSound DEF Grown
  <2> QED BY <2>1 DEF Closing, Apart
<1>2. CASE Closer /\ HasChoice
  BY <1>2, CloserTypes
<1>3. ASSUME NEW s \in Semaphores, TakeAll(s), flagDeadLock' \in BOOLEAN, running' \in BOOLEAN
      PROVE  Sound' /\ Closing'
  <2>1. /\ UNCHANGED Others /\ sem' \in [Semaphores -> Nat]
    BY <1>3, TakeAllStep
  <2>2. TypeOK'
    BY <1>3, <2>1, AllTypes, TypesAgain DEF Sound, lists, Others
  <2>3. RunnerInv' /\ Closing'
    BY <2>1 DEF Sound, RunnerInv, Closing, lists, Others
  <2> QED BY <2>2, <2>3 DEF Sound
<1>4. CASE StartSearch
  BY <1>3, <1>4, AllTypes DEF StartSearch, Semaphores, Sound
<1>5. CASE Finish
  BY <1>3, <1>5, AllTypes DEF Finish, Semaphores, Sound
<1> QED BY <1>1, <1>2, <1>4, <1>5 DEF PlannerSteps, CatchDefault, Runner

LEMMA AskingKeepsPlan ==
  ASSUME Sound, Closing, Asking
  PROVE  Sound' /\ Closing'
<1>0. TypeOK /\ RunnerInv /\ PlanTyped
  BY PlanIsTyped DEF Sound
<1> USE DEF Executing, AskingPcs
<1>1. CASE AskBroker
  <2>1. /\ Runs("run", "send") /\ SamePost
        /\ exec.on /\ exec' \in Execs /\ exec'.on = exec.on /\ exec'.trainer.id = exec.trainer.id
        /\ Longer(blocked, blocked', exec'.trainer)
        /\ UNCHANGED <<ready, exit, missing, sem>>
    BY <1>1, AskBrokerStep
  <2>2. RunnerInv'
    BY <1>0, <2>1 DEF RunnerInv, Runs, SamePost, Apart
  <2> QED BY <1>0, <2>1, <2>2, PlanAgain DEF PlanTyped, Runs, Apart, Longer
<1>2. ASSUME runner.pc \in {"send", "ack", "cutOff"}, runner' \in Runners, SamePost, PlanAside,
             runner'.pc \in {"ack", "asked"}
      PROVE  Sound' /\ Closing'
  <2>1. RunnerInv'
    BY <1>0, <1>2 DEF RunnerInv, SamePost, PlanAside, lists
  <2> QED BY <1>0, <1>2, <2>1, PlanAgain DEF PlanTyped, PlanAside, lists
<1>3. CASE SendCatch
  BY <1>2, <1>3, SendCatchStep
<1>4. CASE RegisterCatch
  BY <1>2, <1>4, RegisterStep DEF RegisterCatch
<1>5. CASE RegisterGarbage
  BY <1>2, <1>5, RegisterStep DEF RegisterGarbage
<1>6. CASE Asked
  <2>1. /\ Runs("asked", "ready") /\ SamePost /\ UNCHANGED <<ready, blocked, exit, missing>>
        /\ exec' \in Execs /\ ~exec'.on
    BY <1>6, AskedStep
  <2>2. RunnerInv'
    BY <1>0, <2>1 DEF RunnerInv, Runs, SamePost, Apart
  <2> QED BY <1>0, <2>1, <2>2, PlanAgain DEF PlanTyped, Runs, Apart
<1> QED BY <1>1, <1>3, <1>4, <1>5, <1>6 DEF Asking

LEMMA WorkKeepsPlan ==
  ASSUME Sound, Closing, NEW t \in Workers, Processes(t)
  PROVE  Sound' /\ Closing'
<1>0. TypeOK /\ RunnerInv /\ PlanTyped
  BY PlanIsTyped DEF Sound
<1>1. t.at \in Nat /\ t.pkm \in Spots
  BY DEF Workers
<1>2. CASE CardReplies(t)
  <2>1. UNCHANGED vars
    BY <1>2 DEF CardReplies
  <2> QED BY <2>1, SameKeepsPlan
<1>3. CASE LocalizedLock(t)
  <2>1. /\ Wait("availablePokemons")
        /\ UNCHANGED <<algorithm, lists, exec, available, missing, appeared, closer, runner, ends>>
    BY <1>3 DEF LocalizedLock
  <2>2. sem' \in [Semaphores -> Nat]
    BY <1>0, <2>1, Waits DEF PlanTyped, Semaphores
  <2>3. RunnerInv'
    BY <1>0, <2>1 DEF RunnerInv, lists
  <2> QED BY <1>0, <2>1, <2>2, <2>3, PlanAgain DEF PlanTyped, lists
<1>4. CASE LocalizedAdd(t)
  <2>1. /\ available' = Append(available, t.pkm)
        /\ sem' = [sem EXCEPT !["availablePokemons"] = @ + 1, !["availablePokemonsCount"] = @ + 1]
        /\ UNCHANGED <<algorithm, lists, exec, missing, appeared, closer, runner, ends>>
        /\ t.pc = "add"
    BY <1>4 DEF LocalizedAdd
  <2>2. t.pkm \in Arrivals
    BY <2>1 DEF Workers
  <2>3. available' \in Seq(Arrivals) /\ DOMAIN available \subseteq DOMAIN available'
    BY <1>0, <2>1, <2>2 DEF PlanTyped
  <2>4. sem' \in [Semaphores -> Nat]
    <3>1. sem \in [Semaphores -> Nat]
      BY <1>0 DEF PlanTyped
    <3>2. \A s \in Semaphores : sem'[s] \in {sem[s], sem[s] + 1}
      BY <2>1, <3>1
    <3>3. sem' \in [Semaphores -> {sem'[s] : s \in Semaphores}]
      BY <2>1, <3>1
    <3> QED BY <3>1, <3>2, <3>3
  <2>5. RunnerInv'
    BY <1>0, <2>1 DEF RunnerInv, lists
  <2> QED BY <1>0, <2>1, <2>3, <2>4, <2>5, PlanAgain DEF PlanTyped, lists
<1>5. CASE Refuse(t)
  <2>1. /\ AnswerAside /\ UNCHANGED <<blocked, exit, missing, ends>>
        /\ exec' \in Execs /\ exec'.on = exec.on /\ exec'.trainer.id = exec.trainer.id
        /\ sem' \in [Semaphores -> Nat]
    BY <1>5, RefuseStep
  <2>2. RunnerInv'
    BY <1>0, <2>1 DEF RunnerInv, AnswerAside
  <2> QED BY <1>0, <2>1, <2>2, PlanAgain DEF PlanTyped, AnswerAside
<1>6. CASE Apply(t)
  <2>1. /\ AnswerAside /\ UNCHANGED <<exit, exec>>
        /\ sem' \in [Semaphores -> Nat] /\ missing' \in [Species -> Nat]
        /\ blocked' \in Seq(TrainerRecords)
        /\ Applied(t) \/ Misapplied(t)
    BY <1>1, <1>6, ApplyStep
  <2>2. flagDeadLock' \in BOOLEAN /\ running' \in BOOLEAN
    BY <2>1, AllTypes DEF Sound, Applied, Misapplied, ends
  <2>3. TypeOK'
    BY <1>0, <2>1, <2>2, AllTypes, TypesAgain DEF AnswerAside
  <2>4. RunnerInv' /\ Closing'
    BY <1>0, <2>1 DEF RunnerInv, Closing, AnswerAside
  <2> QED BY <2>3, <2>4 DEF Sound
<1>7. CASE ExitCaught(t)
  <2>1. /\ AnswerAside /\ UNCHANGED <<blocked, exec, missing, ends>>
        /\ Longer(exit, exit', exec.trainer) /\ sem' \in [Semaphores -> Nat]
    BY <1>7, ExitCaughtStep
  <2>2. RunnerInv'
    BY <1>0, <2>1 DEF RunnerInv, AnswerAside
  <2> QED BY <1>0, <2>1, <2>2, PlanAgain DEF PlanTyped, AnswerAside, Longer
<1>8. CASE DropCaught(t)
  <2>1. t.at \in Nat \ {0}
    BY <1>8 DEF DropCaught, Workers
  <2>2. /\ AnswerAside /\ UNCHANGED <<exit, exec, missing, ends>>
        /\ blocked' \in Seq(TrainerRecords) /\ sem' \in [Semaphores -> Nat]
    BY <1>8, <2>1, DropCaughtStep
  <2>3. RunnerInv'
    BY <1>0, <2>2 DEF RunnerInv, AnswerAside
  <2> QED BY <1>0, <2>2, <2>3, PlanAgain DEF PlanTyped, AnswerAside
<1> QED BY <1>2, <1>3, <1>4, <1>5, <1>6, <1>7, <1>8 DEF Processes

LEMMA NextKeepsPlan ==
  ASSUME Sound, Closing, WorkTypes, CatchingNext
  PROVE  Sound' /\ Closing'
<1>1. CASE PlannerSteps
  BY <1>1, PlannerStepsKeepPlan
<1>2. CASE Asking
  BY <1>2, AskingKeepsPlan
<1>3. CASE Outage
  <2>1. /\ runner' \in Runners /\ SamePost /\ runner'.pos = runner.pos
         /\ \/ runner.pc \in {"send", "ack"} /\ runner'.pc = "cutOff"
            \/ runner.pc # "send" /\ UNCHANGED runner
         /\ UNCHANGED <<algorithm, lists, exec, available, missing, sem, appeared, closer, ends>>
    BY <1>3, OutageStep
  <2>2. RunnerInv'
    BY <2>1 DEF Sound, RunnerInv, SamePost, lists, Executing, AskingPcs
  <2> QED BY <2>1, <2>2, PlanIsTyped, PlanAgain DEF PlanTyped, lists
<1>4. ASSUME NEW t \in threads, Processes(t) PROVE Sound' /\ Closing'
  BY <1>4, WorkKeepsPlan DEF WorkTypes
<1>5. CASE UNCHANGED vars
  BY <1>5, SameKeepsPlan
<1> QED BY <1>1, <1>2, <1>3, <1>4, <1>5, PlanAlone DEF CatchingNext

-----------------------------------------------------------------------------
(* The broker, GameCard and the threads that process messages: types. *)

Stamped(m) == [m EXCEPT !.id = lastId + 1]

LEMMA StampedLetter ==
  ASSUME BrokerTypes, NEW m \in Letters
  PROVE  /\ Stamped(m) \in Letters /\ Stamped(m).type = m.type /\ Stamped(m).n = m.n
         /\ Stamped(m).pkm = m.pkm /\ Stamped(m).cid = m.cid /\ Stamped(m).id = lastId + 1
BY DEF BrokerTypes, Letters, Stamped

LEMMA MessageLetter ==
  ASSUME NEW q \in Queues, NEW c \in Nat, NEW p \in Spots, NEW n \in Nat,
         q = "LOCALIZED" /\ n > 0 => p \in Arrivals
  PROVE  /\ Message(q, c, p, n) \in Letters /\ Message(q, c, p, n).type = q
         /\ Message(q, c, p, n).n = n /\ Message(q, c, p, n).pkm = p
         /\ Message(q, c, p, n).cid = c
BY DEF Letters, Message

(* Where a published message goes. *)
Published(m) ==
  /\ up /\ up' = up /\ lastId' = lastId + 1
  /\ cached' = cached \cup {Stamped(m)}
  /\ \/ /\ link[m.type].on
        /\ transit' = transit \cup {[msg |-> Stamped(m), times |-> link[m.type].times]}
        /\ link'[m.type].served = link[m.type].served \cup {lastId + 1}
        /\ \A q \in Queues : /\ link'[q].on = link[q].on /\ link'[q].times = link[q].times
                             /\ q # m.type => link'[q].served = link[q].served
     \/ ~link[m.type].on /\ UNCHANGED <<transit, link>>

LEMMA PublishStep ==
  ASSUME BrokerTypes, NEW m \in Letters, Publish(m)
  PROVE  BrokerTypes' /\ Published(m)
<1> DEFINE a == Stamped(m)
           to == link[m.type]
           d == [msg |-> a, times |-> to.times]
<1>1. /\ up /\ UNCHANGED up /\ lastId' = lastId + 1 /\ cached' = cached \cup {a}
      /\ transit' = IF to.on THEN transit \cup {d} ELSE transit
      /\ link' = IF to.on THEN [link EXCEPT ![m.type].served = @ \cup {lastId + 1}] ELSE link
  <2>1. [m EXCEPT !.id = lastId + 1].id = lastId + 1
    BY DEF Letters
  <2> QED BY <2>1 DEF Publish, Stamped
<1>2. a \in Letters
  BY StampedLetter
<1>3. /\ lastId \in Nat /\ up \in BOOLEAN /\ cached \in SUBSET Letters /\ IsFiniteSet(cached)
      /\ link \in Links /\ transit \in SUBSET Deliveries /\ IsFiniteSet(transit)
  BY DEF BrokerTypes
<1>4. m.type \in Queues
  BY DEF Letters
<1>5. to \in [on : BOOLEAN, times : Nat, served : SUBSET Nat]
  BY <1>3, <1>4 DEF Links
<1>6. d \in Deliveries
  BY <1>2, <1>5 DEF Deliveries
<1>7. lastId + 1 \in Nat
  BY <1>3
<1> HIDE DEF a, d
<1>8. cached' \in SUBSET Letters /\ IsFiniteSet(cached')
  BY <1>1, <1>2, <1>3, FS_AddElement
<1>9. transit' \in SUBSET Deliveries /\ IsFiniteSet(transit')
  BY <1>1, <1>3, <1>6, FS_AddElement
<1>10. CASE to.on
  <2> DEFINE v == to.served \cup {lastId + 1}
             l == [to EXCEPT !.served = v]
  <2>1. l \in [on : BOOLEAN, times : Nat, served : SUBSET Nat] /\ l.served = v
        /\ l.on = to.on /\ l.times = to.times
    BY <1>5, <1>7
  <2>2. link' = [link EXCEPT ![m.type] = l]
    BY <1>1, <1>10
  <2> HIDE DEF l
  <2>3. link' \in Links /\ link'[m.type] = l /\ \A q \in Queues \ {m.type} : link'[q] = link[q]
    BY <1>3, <1>4, <2>1, <2>2 DEF Links
  <2> QED BY <1>1, <1>3, <1>7, <1>8, <1>9, <1>10, <2>1, <2>3 DEF BrokerTypes, Published, a, d
<1>11. CASE ~to.on
  BY <1>1, <1>3, <1>7, <1>8, <1>9, <1>11 DEF BrokerTypes, Published, a
<1> QED BY <1>10, <1>11

LEMMA ReceiveStep ==
  ASSUME BrokerTypes, WorkTypes, NEW d \in transit, NEW S \in SUBSET Workers, IsFiniteSet(S),
         Receive(d, S)
  PROVE  BrokerTypes' /\ WorkTypes'
<1>1. /\ transit' = transit \ {d} /\ threads' = threads \cup S
      /\ UNCHANGED <<up, lastId, cached, link>>
  BY DEF Receive
<1>2. IsFiniteSet(transit') /\ IsFiniteSet(threads')
  BY <1>1, FS_Subset, FS_Union DEF BrokerTypes, WorkTypes
<1> QED BY <1>1, <1>2 DEF BrokerTypes, WorkTypes

LEMMA EndsStep ==
  ASSUME WorkTypes, NEW t, Ends(t)
  PROVE  WorkTypes'
BY FS_Subset DEF WorkTypes, Ends

LEMMA GoesToStep ==
  ASSUME WorkTypes, NEW t, NEW pc, [t EXCEPT !.pc = pc] \in Workers, GoesTo(t, pc)
  PROVE  WorkTypes'
<1>1. IsFiniteSet(threads \ {t}) /\ IsFiniteSet({[t EXCEPT !.pc = pc]})
  BY FS_Subset, FS_Singleton DEF WorkTypes
<1>2. IsFiniteSet((threads \ {t}) \cup {[t EXCEPT !.pc = pc]})
  BY <1>1, FS_Union
<1> QED BY <1>2 DEF WorkTypes, GoesTo

(* Amounts, and the operations on the files. *)
AmountsOf(lines, name) == [i \in DOMAIN lines |-> IF lines[i].pkm.name = name THEN lines[i].amount ELSE 0]

LEMMA AmountNat ==
  ASSUME NEW L \in Seq(Lines), NEW name
  PROVE  /\ Amount(L, name) \in Nat
         /\ Amount(L, name) = Total(AmountsOf(L, name))
         /\ AmountsOf(L, name) \in [DOMAIN L -> Nat]
         /\ Amount(L, name) > 0 => \E i \in DOMAIN L : L[i].pkm.name = name
<1>1. AmountsOf(L, name) \in [DOMAIN L -> Nat]
  <2>1. \A i \in DOMAIN L : L[i] \in Lines
    OBVIOUS
  <2>2. \A i \in DOMAIN L : L[i].amount \in Nat
    BY <2>1 DEF Lines
  <2> QED BY <2>2 DEF AmountsOf
<1>2. IsFiniteSet(DOMAIN L)
  BY IndicesFinite
<1>3. Amount(L, name) = Total(AmountsOf(L, name))
  BY DEF Amount, AmountsOf
<1>4. Total(AmountsOf(L, name)) \in Nat
  BY <1>1, <1>2, TotalNat
<1>5. ASSUME ~ \E i \in DOMAIN L : L[i].pkm.name = name PROVE Amount(L, name) = 0
  <2>1. \A i \in DOMAIN L : AmountsOf(L, name)[i] = 0
    BY <1>5 DEF AmountsOf
  <2>2. AmountsOf(L, name) \in [DOMAIN L -> Int]
    BY <1>1
  <2> QED BY <1>2, <1>3, <2>1, <2>2, TotalConstant
<1> QED BY <1>1, <1>3, <1>4, <1>5

(* A sum whose values are found elsewhere, each at another place. *)
PlacesBy(h, T) == {h[x] : x \in T}

LEMMA ImageIsFinite ==
  ASSUME NEW S, IsFiniteSet(S), NEW h
  PROVE  /\ IsFiniteSet(PlacesBy(h, S))
         /\ Cardinality(PlacesBy(h, S)) <= Cardinality(S)
<1> DEFINE T == {h[x] : x \in S}
           f == [x \in S |-> h[x]]
<1>1. f \in Surjection(S, T)
  BY DEF Surjection
<1> HIDE DEF T, f
<1>2. IsFiniteSet(T) /\ Cardinality(T) <= Cardinality(S)
  BY <1>1, FS_Surjection
<1> QED BY <1>2 DEF T, PlacesBy

LEMMA OverElsewhere ==
  ASSUME NEW S, IsFiniteSet(S), NEW f, NEW g, NEW h,
         \A x \in S : f[x] \in Int /\ g[h[x]] = f[x],
         \A x, y \in S : h[x] = h[y] => x = y
  PROVE  Over(f, S) = Over(g, PlacesBy(h, S))
<1> DEFINE Good == {T \in SUBSET S : Over(f, T) = Over(g, PlacesBy(h, T))}
           I == PlacesBy(h, S)
<1>0. IsFiniteSet(I) /\ \A y \in I : g[y] \in Int
  BY ImageIsFinite DEF PlacesBy
<1>1. ASSUME NEW T \in SUBSET S, \A U \in SUBSET T : U # T => U \in Good
      PROVE  T \in Good
  <2>1. CASE T = {}
    <3>1. PlacesBy(h, T) = {}
      BY <2>1 DEF PlacesBy
    <3> QED BY <2>1, <3>1, OverEmpty
  <2>2. CASE T # {}
    <3> DEFINE a == First(T)
               U == T \ {a}
               J == PlacesBy(h, T)
               K == PlacesBy(h, U)
    <3>1. a \in T /\ U # T /\ U \in SUBSET T /\ IsFiniteSet(T)
      BY <2>2, FirstIsIn, FS_Subset
    <3>2. Over(f, T) = f[a] + Over(f, U)
      BY <2>2, <3>1, OverFirst
    <3>3. Over(f, U) = Over(g, K)
      BY <1>1, <3>1
    <3>4. J \in SUBSET I /\ h[a] \in J
      BY <3>1 DEF PlacesBy
    <3>5. J \ {h[a]} = K
      BY <3>1 DEF PlacesBy
    <3>6. g[h[a]] = f[a]
      BY <3>1
    <3> HIDE DEF a, U, J, K, I
    <3>7. Over(g, J) = g[h[a]] + Over(g, J \ {h[a]})
      BY <1>0, <3>4, OverApart
    <3>8. Over(f, T) = Over(g, J)
      BY <3>2, <3>3, <3>5, <3>6, <3>7
    <3> QED BY <3>8 DEF J
  <2> QED BY <2>1, <2>2
<1>2. \A T \in SUBSET S : T \in Good
  <2> HIDE DEF Good
  <2> QED BY <1>1, SubsetInduction
<1> QED BY <1>2

LEMMA AmountRemoved ==
  ASSUME NEW L \in Seq(Lines), NEW k \in DOMAIN L, NEW name
  PROVE  Amount(RemoveAt(L, k), name)
           = Amount(L, name) - (IF L[k].pkm.name = name THEN L[k].amount ELSE 0)
<1> DEFINE short == RemoveAt(L, k)
           n == Len(L)
           f == AmountsOf(short, name)
           g == AmountsOf(L, name)
           h == [j \in DOMAIN short |-> IF j < k THEN j ELSE j + 1]
           D == DOMAIN short
           E == DOMAIN L
<1>1. n \in Nat /\ E = 1 .. n /\ k \in 1 .. n
  OBVIOUS
<1>2. short \in Seq(Lines) /\ Len(short) = n - 1
      /\ \A i \in DOMAIN short : short[i] = IF i < k THEN L[i] ELSE L[i + 1]
  BY RemovedPlaces
<1>3. D = 1 .. n - 1
  BY <1>1, <1>2
<1>4. IsFiniteSet(D) /\ IsFiniteSet(E) /\ f \in [D -> Nat] /\ g \in [E -> Nat]
      /\ Amount(short, name) = Over(f, D) /\ Amount(L, name) = Over(g, E)
  BY <1>2, AmountNat, IndicesFinite, TotalIsOver
<1>5. ASSUME NEW x \in D PROVE f[x] \in Int /\ g[h[x]] = f[x] /\ h[x] \in E \ {k}
  <2>1. h[x] \in E \ {k}
    BY <1>1, <1>3
  <2>2. short[x] = L[h[x]]
    BY <1>2
  <2> QED BY <1>4, <2>1, <2>2 DEF AmountsOf
<1>6. \A x, y \in D : h[x] = h[y] => x = y
  BY <1>1, <1>3
<1>7. PlacesBy(h, D) = E \ {k}
  <2>1. ASSUME NEW i \in E \ {k} PROVE \E x \in D : h[x] = i
    <3>1. CASE i < k
      BY <1>1, <1>3, <3>1
    <3>2. CASE i > k
      <4>1. i - 1 \in D /\ ~ (i - 1 < k) /\ (i - 1) + 1 = i
        BY <1>1, <1>3, <3>2
      <4> QED BY <4>1
    <3> QED BY <1>1, <3>1, <3>2
  <2> QED BY <1>5, <2>1 DEF PlacesBy
<1>8. g[k] = IF L[k].pkm.name = name THEN L[k].amount ELSE 0
  BY DEF AmountsOf
<1>9. k \in E /\ E \in SUBSET E /\ D \in SUBSET D /\ \A x \in E : g[x] \in Int
  BY <1>4
<1> DEFINE I == PlacesBy(h, D)
           rest == Over(g, E \ {k})
<1> HIDE DEF short, f, g, h, D, E
<1>10. Over(f, D) = Over(g, I)
  <2>1. IsFiniteSet(D) /\ \A x \in D : f[x] \in Int /\ g[h[x]] = f[x]
    BY <1>4, <1>5
  <2> QED BY <1>6, <2>1, OverElsewhere DEF I
<1>11. Over(g, E) = g[k] + rest /\ rest \in Int /\ g[k] \in Int
  BY <1>4, <1>9, OverApart, OverInt
<1>12. Over(f, D) = rest
  BY <1>7, <1>10 DEF I
<1> HIDE DEF rest
<1>13. Amount(short, name) = Amount(L, name) - g[k]
  BY <1>4, <1>11, <1>12
<1> QED BY <1>8, <1>13 DEF short

Fewer(L, k) == [L EXCEPT ![k].amount = @ - 1]

LEMMA AmountLess ==
  ASSUME NEW L \in Seq(Lines), NEW k \in DOMAIN L, L[k].amount > 1, NEW name
  PROVE  /\ Fewer(L, k) \in Seq(Lines)
         /\ Amount(Fewer(L, k), name) = Amount(L, name) - One(L[k].pkm.name = name)
<1> DEFINE e == [L[k] EXCEPT !.amount = @ - 1]
           M == [L EXCEPT ![k] = e]
           f == AmountsOf(L, name)
           g == AmountsOf(M, name)
           D == DOMAIN L
<1>1. L[k] \in Lines
  OBVIOUS
<1>2. e \in Lines /\ e.pkm = L[k].pkm /\ e.amount = L[k].amount - 1 /\ L[k].amount \in Nat
  BY <1>1 DEF Lines
<1>3. M = Fewer(L, k)
  BY DEF Fewer
<1> HIDE DEF e
<1>4. M \in Seq(Lines) /\ DOMAIN M = D /\ M[k] = e /\ \A i \in D \ {k} : M[i] = L[i]
  BY <1>2
<1>5. IsFiniteSet(D) /\ f \in [D -> Int] /\ g \in [D -> Int]
      /\ Amount(M, name) = Total(g) /\ Amount(L, name) = Total(f)
  <2> HIDE DEF M
  <2> QED BY <1>4, AmountNat, IndicesFinite
<1>6. \A i \in D \ {k} : g[i] = f[i]
  BY <1>4 DEF AmountsOf
<1>7. /\ f[k] = IF L[k].pkm.name = name THEN L[k].amount ELSE 0
      /\ g[k] = IF L[k].pkm.name = name THEN L[k].amount - 1 ELSE 0
  BY <1>2, <1>4 DEF AmountsOf
<1>8. k \in D
  OBVIOUS
<1> HIDE DEF f, g, D, M
<1>9. Total(g) = Total(f) - f[k] + g[k] /\ Total(f) \in Int
  BY <1>5, <1>6, <1>8, TotalChange, TotalInt
<1>10. Amount(M, name) = Amount(L, name) - One(L[k].pkm.name = name)
  BY <1>2, <1>5, <1>7, <1>9 DEF One
<1> QED BY <1>3, <1>4, <1>10

LEMMA MinIsIn ==
  ASSUME NEW S \in SUBSET Nat, S # {}
  PROVE  Min(S) \in S
<1>1. \E n \in S : \A m \in S : n <= m
  BY LeastNatural
<1> QED BY <1>1 DEF Min

(* catch_a_pokemon takes one of the name out of the files, if the place    *)
(* has a line.                                                             *)
LEMMA CatchesStep ==
  ASSUME CardTypes, NEW pkm, Catches(pkm)
  PROVE  /\ stock' \in Seq(Lines) /\ leftOpen' \in SUBSET Species
         /\ \A s : Amount(stock', s)
                     = Amount(stock, s) - One(LineAt(pkm) # {} /\ pkm.name = s)
<1> DEFINE at == LineAt(pkm)
           k == Min(at)
<1>1. /\ stock \in Seq(Lines) /\ leftOpen \in SUBSET Species
      /\ \A i \in DOMAIN stock : stock[i] \in Lines /\ stock[i].amount \in Nat \ {0}
                                 /\ stock[i].pkm.name \in Species
  <2>1. \A i \in DOMAIN stock : stock[i] \in Lines
    BY DEF CardTypes
  <2> QED BY <2>1, PlannerAssumption DEF CardTypes, Lines
<1>2. /\ stock' = IF at = {} THEN stock ELSE OneLess(k)
      /\ \/ leftOpen' = leftOpen
         \/ LinesOf(pkm.name) # {} /\ leftOpen' = leftOpen \cup {pkm.name}
  BY DEF Catches
<1>3. leftOpen' \in SUBSET Species
  BY <1>1, <1>2 DEF LinesOf
<1>4. CASE at = {}
  <2>1. \A s : Amount(stock, s) \in Nat
    BY <1>1, AmountNat
  <2> QED BY <1>1, <1>2, <1>3, <1>4, <2>1 DEF One
<1>5. CASE at # {}
  <2>1. at \in SUBSET DOMAIN stock /\ at \in SUBSET Nat
    BY <1>1 DEF LineAt
  <2>2. k \in at
    BY <1>5, <2>1, MinIsIn
  <2>3. k \in DOMAIN stock /\ stock[k].pkm = pkm
    BY <2>2 DEF LineAt
  <2>4. stock' = OneLess(k)
    BY <1>2, <1>5
  <2>5. \A s : One(LineAt(pkm) # {} /\ pkm.name = s) = One(pkm.name = s)
    BY <1>5
  <2> HIDE DEF at, k
  <2>6. CASE stock[k].amount = 1
    <3>1. stock' = RemoveAt(stock, k)
      BY <2>4, <2>6 DEF OneLess
    <3>2. ASSUME NEW s PROVE Amount(stock', s) = Amount(stock, s) - One(pkm.name = s)
      <4>1. Amount(RemoveAt(stock, k), s)
              = Amount(stock, s) - (IF stock[k].pkm.name = s THEN stock[k].amount ELSE 0)
        BY <1>1, <2>3, AmountRemoved
      <4> QED BY <2>3, <2>6, <3>1, <4>1 DEF One
    <3>3. stock' \in Seq(Lines)
      BY <1>1, <2>3, <3>1, RemovedPlaces
    <3> QED BY <1>3, <2>5, <3>2, <3>3
  <2>7. CASE stock[k].amount # 1
    <3>1. stock' = Fewer(stock, k) /\ stock[k].amount > 1
      BY <1>1, <2>3, <2>4, <2>7 DEF OneLess, Fewer
    <3>2. ASSUME NEW s PROVE Amount(stock', s) = Amount(stock, s) - One(pkm.name = s)
      <4>1. Amount(Fewer(stock, k), s) = Amount(stock, s) - One(stock[k].pkm.name = s)
        BY <1>1, <2>3, <3>1, AmountLess
      <4> QED BY <2>3, <3>1, <4>1
    <3>3. stock' \in Seq(Lines)
      BY <1>1, <2>3, <3>1, AmountLess
    <3> QED BY <1>3, <2>5, <3>2, <3>3
  <2> QED BY <2>6, <2>7
<1> QED BY <1>4, <1>5

LEMMA CardLooksStep ==
  ASSUME BrokerTypes, WorkTypes, CardTypes, NEW d \in transit, CardLooks(d)
  PROVE  /\ BrokerTypes' /\ WorkTypes' /\ UNCHANGED <<vars, cardVars, askVars, mishaps>>
         /\ \E t \in Workers : t.pc = "reply" /\ t.msg = d.msg /\ d.msg.type = "GET"
                               /\ Receive(d, {t})
<1> DEFINE name == d.msg.pkm.name
           p == IF LinesOf(name) = {} THEN d.msg.pkm ELSE stock[Min(LinesOf(name))].pkm
           n == Amount(stock, name)
           t == [msg |-> d.msg, times |-> d.times, pc |-> "reply", at |-> n, pkm |-> p]
<1>1. d.msg.type = "GET" /\ UNCHANGED <<vars, cardVars, askVars, mishaps>>
      /\ Receive(d, {t})
  BY DEF CardLooks, Thread
<1>2. d.msg \in Letters /\ d.times \in Nat /\ d.msg.pkm \in Spots
  BY DEF BrokerTypes, Deliveries, Letters
<1>3. /\ n \in Nat
      /\ n > 0 => LinesOf(name) # {}
  BY AmountNat DEF CardTypes, LinesOf
<1>4. LinesOf(name) # {} => p \in Arrivals
  <2> SUFFICES ASSUME LinesOf(name) # {} PROVE p \in Arrivals
    OBVIOUS
  <2>1. stock \in Seq(Lines)
    BY DEF CardTypes
  <2>2. LinesOf(name) \in SUBSET DOMAIN stock /\ LinesOf(name) \in SUBSET Nat
    BY <2>1 DEF LinesOf
  <2>3. Min(LinesOf(name)) \in DOMAIN stock
    BY <2>2, MinIsIn
  <2>4. stock[Min(LinesOf(name))] \in Lines
    BY <2>1, <2>3
  <2> QED BY <2>4 DEF Lines
<1>5. p \in Spots
  <2>1. LinesOf(name) = {} => p = d.msg.pkm
    OBVIOUS
  <2> HIDE DEF p
  <2> QED BY <1>2, <1>4, <2>1, ArrivalIsSpot
<1> HIDE DEF p, n
<1>6. t \in Workers /\ t.pc = "reply" /\ t.msg = d.msg
  <2>1. n > 0 => p \in Arrivals
    BY <1>3, <1>4
  <2>2. n \in Nat /\ "reply" \in ThreadPcs
    BY <1>3 DEF ThreadPcs
  <2>3. t \in [msg : Letters, times : Nat, pc : ThreadPcs, at : Nat, pkm : Spots]
    BY <1>2, <1>5, <2>2
  <2> QED BY <2>1, <2>3 DEF Workers
<1> HIDE DEF t
<1>7. IsFiniteSet({t}) /\ {t} \in SUBSET Workers
  BY <1>6, FS_Singleton
<1>8. BrokerTypes' /\ WorkTypes'
  BY <1>1, <1>7, ReceiveStep
<1> QED BY <1>1, <1>6, <1>8

LEMMA ThreadWorker ==
  ASSUME NEW d \in Deliveries, NEW pc \in ThreadPcs, NEW n \in Nat,
         pc \in {"lock", "add"} => d.msg.pkm \in Arrivals /\ n > 0,
         pc = "reply" /\ d.msg.type = "GET" /\ n > 0 => d.msg.pkm \in Arrivals,
         pc \in {"exit", "drop"} => n > 0
  PROVE  /\ Thread(d, pc, n) \in Workers /\ Thread(d, pc, n).pc = pc /\ Thread(d, pc, n).at = n
         /\ Thread(d, pc, n).msg = d.msg /\ Thread(d, pc, n).pkm = d.msg.pkm
         /\ Thread(d, pc, n).times = d.times
BY DEF Deliveries, Letters, Thread, Workers

LEMMA CardCatchesStep ==
  ASSUME BrokerTypes, WorkTypes, CardTypes, NEW d \in transit, CardCatches(d)
  PROVE  /\ BrokerTypes' /\ WorkTypes' /\ CardTypes' /\ UNCHANGED <<vars, taken, defaults, askVars, mishaps>>
         /\ \A s : Amount(stock', s)
                     = Amount(stock, s) - One(LineAt(d.msg.pkm) # {} /\ d.msg.pkm.name = s)
         /\ LineAt(d.msg.pkm) # {} => d.msg.pkm.name \in Species
         /\ d.msg.type = "CATCH"
         /\ \E t \in Workers : /\ t.pc = "reply" /\ t.msg = d.msg /\ t.pkm = d.msg.pkm
                               /\ t.at = (IF LineAt(d.msg.pkm) = {} THEN 0 ELSE 1)
                               /\ t.times = d.times /\ Receive(d, {t})
<1> DEFINE n == IF LineAt(d.msg.pkm) = {} THEN 0 ELSE 1
           t == Thread(d, "reply", n)
<1>1. d.msg.type = "CATCH" /\ UNCHANGED <<vars, taken, defaults, askVars, mishaps>>
      /\ Receive(d, {t}) /\ Catches(d.msg.pkm)
  BY DEF CardCatches
<1>2. d \in Deliveries
  BY DEF BrokerTypes
<1>3. t \in Workers /\ t.pc = "reply" /\ t.msg = d.msg /\ t.pkm = d.msg.pkm /\ t.at = n
      /\ t.times = d.times
  <2>1. n \in Nat
    OBVIOUS
  <2> HIDE DEF n
  <2> QED BY <1>1, <1>2, <2>1, ThreadWorker DEF ThreadPcs
<1>4. LineAt(d.msg.pkm) # {} => d.msg.pkm.name \in Species
  <2>1. \A i \in DOMAIN stock : stock[i] \in Lines
    BY DEF CardTypes
  <2> QED BY <2>1, PlannerAssumption DEF LineAt, Lines
<1>5. CardTypes'
  BY <1>1, CatchesStep DEF CardTypes
<1> HIDE DEF t
<1>6. IsFiniteSet({t}) /\ {t} \in SUBSET Workers
  BY <1>3, FS_Singleton
<1>7. BrokerTypes' /\ WorkTypes'
  BY <1>1, <1>6, ReceiveStep
<1>8. \A s : Amount(stock', s)
                     = Amount(stock, s) - One(LineAt(d.msg.pkm) # {} /\ d.msg.pkm.name = s)
  BY <1>1, CatchesStep
<1> QED BY <1>1, <1>3, <1>4, <1>5, <1>7, <1>8

(* The reply of GameCard, as the broker is to have it. *)
Reply(t) == Message(IF t.msg.type = "GET" THEN "LOCALIZED" ELSE "CAUGHT", t.msg.id, t.pkm, t.at)

LEMMA CardRepliesStep ==
  ASSUME BrokerTypes, WorkTypes, NEW t \in threads, CardReplies(t)
  PROVE  /\ BrokerTypes' /\ WorkTypes' /\ UNCHANGED <<vars, cardVars, askVars, mishaps>>
         /\ t.pc = "reply" /\ t \in Workers /\ Ends(t)
         /\ Reply(t) \in Letters /\ Reply(t).cid = t.msg.id /\ Reply(t).pkm = t.pkm
         /\ Reply(t).type = (IF t.msg.type = "GET" THEN "LOCALIZED" ELSE "CAUGHT")
         /\ Reply(t).n = t.at
         /\ Published(Reply(t)) \/ (~up /\ UNCHANGED brokerVars)
<1> DEFINE q == IF t.msg.type = "GET" THEN "LOCALIZED" ELSE "CAUGHT"
           m == Message(q, t.msg.id, t.pkm, t.at)
<1>1. /\ t.pc = "reply" /\ Ends(t) /\ UNCHANGED <<vars, cardVars, askVars, mishaps>>
      /\ Publish(m) \/ (~up /\ UNCHANGED brokerVars)
  BY DEF CardReplies
<1>2. t \in Workers
  BY DEF WorkTypes
<1>3. q \in Queues /\ t.msg.id \in Nat /\ t.pkm \in Spots /\ t.at \in Nat
      /\ (q = "LOCALIZED" /\ t.at > 0 => t.pkm \in Arrivals)
  BY <1>1, <1>2 DEF Workers, Letters, Queues
<1> HIDE DEF q
<1>4. m \in Letters /\ m.cid = t.msg.id /\ m.pkm = t.pkm /\ m.type = q /\ m.n = t.at
  BY <1>3, MessageLetter
<1> HIDE DEF m
<1>5. BrokerTypes' /\ (Published(m) \/ (~up /\ UNCHANGED brokerVars))
  BY <1>1, <1>4, PublishStep, SameBroker
<1>6. WorkTypes'
  BY <1>1, EndsStep
<1>7. m = Reply(t)
  BY DEF m, q, Reply
<1> QED BY <1>1, <1>2, <1>4, <1>5, <1>6, <1>7 DEF q

LEMMA TakenStep ==
  ASSUME CardTypes, NEW i \in DOMAIN stock, Taken(i)
  PROVE  /\ CardTypes' /\ UNCHANGED <<vars, brokerVars, defaults, threads, askVars, mishaps>>
         /\ stock[i].pkm.name \in Species
         /\ \A s : Amount(stock', s) = Amount(stock, s) - One(stock[i].pkm.name = s)
         /\ \A s \in Species : taken'[s] = taken[s] + One(stock[i].pkm.name = s)
<1> DEFINE n == stock[i].pkm.name
<1>1. /\ taken' = [taken EXCEPT ![n] = @ + 1] /\ Catches(stock[i].pkm)
      /\ UNCHANGED <<vars, brokerVars, defaults, threads, askVars, mishaps>>
  BY DEF Taken
<1>2. stock[i] \in Lines
  BY DEF CardTypes
<1>3. n \in Species
  BY <1>2, PlannerAssumption DEF Lines
<1>4. i \in LineAt(stock[i].pkm)
  BY DEF LineAt
<1>5. \A s : Amount(stock', s) = Amount(stock, s) - One(n = s)
  BY <1>1, <1>4, CatchesStep
<1> HIDE DEF n
<1>6. taken' \in [Species -> Nat] /\ \A s \in Species : taken'[s] = taken[s] + One(n = s)
  BY <1>1, <1>3 DEF CardTypes, One
<1>7. CardTypes'
  BY <1>1, <1>6, CatchesStep DEF CardTypes
<1> QED BY <1>1, <1>3, <1>5, <1>6, <1>7 DEF n

LEMMA NextNameTyped ==
  ASSUME NEW m \in [pc : {"get", "ack", "started"}, i : Nat \ {0}]
  PROVE  NextName(m) \in [pc : {"get", "ack", "started"}, i : Nat \ {0}]
BY DEF NextName

LEMMA RequestPokemonStep ==
  ASSUME BrokerTypes, AskTypes, RequestPokemon
  PROVE  /\ BrokerTypes' /\ AskTypes' /\ UNCHANGED <<vars, cardVars, threads, mishaps, catchList>>
         /\ UNCHANGED getList /\ ids'.runner = ids.runner
         /\ \/ \E m \in Letters : m.type = "GET" /\ Published(m)
            \/ UNCHANGED brokerVars
<1>1. main \in [pc : {"get", "ack", "started"}, i : Nat \ {0}] /\ main.i \in Nat \ {0}
      /\ ids \in [main : Nat, runner : Nat] /\ lastId \in Nat
  BY DEF AskTypes, BrokerTypes
<1>2. UNCHANGED <<vars, cardVars, threads, getList, catchList, mishaps>> /\ main.i <= Len(Wanted)
  BY DEF RequestPokemon
<1> DEFINE p == [name |-> Wanted[main.i], pos |-> <<0, 0>>]
           m == Message("GET", 0, p, 0)
<1>3. m \in Letters /\ m.type = "GET"
  <2>1. Wanted \in Seq(Species)
    BY CatchingAssumption
  <2>2. Wanted[main.i] \in Species
    BY <1>1, <1>2, <2>1
  <2>3. p \in Spots
    BY <2>2 DEF Spots
  <2> HIDE DEF p
  <2> QED BY <2>3, MessageLetter DEF Queues
<1>4. CASE Publish(m) /\ main' = [main EXCEPT !.pc = "ack"] /\ ids' = [ids EXCEPT !.main = lastId']
  <2>1. BrokerTypes' /\ Published(m)
    BY <1>3, <1>4, PublishStep
  <2>2. AskTypes' /\ ids'.runner = ids.runner
    <3>1. lastId' \in Nat
      BY <2>1 DEF BrokerTypes
    <3>2. main' \in [pc : {"get", "ack", "started"}, i : Nat \ {0}]
      BY <1>1, <1>4
    <3>3. ids' \in [main : Nat, runner : Nat] /\ ids'.runner = ids.runner
      BY <1>1, <1>4, <3>1
    <3> QED BY <1>2, <3>2, <3>3 DEF AskTypes
  <2> QED BY <1>2, <1>3, <2>1, <2>2
<1>5. CASE main' = NextName(main) /\ UNCHANGED <<brokerVars, ids>>
  BY <1>1, <1>2, <1>5, SameBroker, NextNameTyped DEF AskTypes
<1> QED BY <1>4, <1>5 DEF RequestPokemon

LEMMA RegisterGetStep ==
  ASSUME AskTypes, RegisterGet
  PROVE  AskTypes' /\ UNCHANGED <<vars, brokerVars, cardVars, threads, ids, catchList, mishaps>>
<1>1. main' = NextName(main) /\ (getList' = getList \cup {ids.main} \/ UNCHANGED getList)
      /\ UNCHANGED <<vars, brokerVars, cardVars, threads, ids, catchList, mishaps>>
  BY DEF RegisterGet
<1>2. ids.main \in Nat
  BY DEF AskTypes
<1> QED BY <1>1, <1>2, NextNameTyped DEF AskTypes

LEMMA LocalizedArrivesStep ==
  ASSUME BrokerTypes, WorkTypes, NEW d \in transit, LocalizedArrives(d)
  PROVE  /\ BrokerTypes' /\ WorkTypes' /\ UNCHANGED <<vars, cardVars, askVars>>
         /\ d.msg.type = "LOCALIZED"
         /\ mishaps' = mishaps \/ mishaps' = mishaps \cup {"unknown"}
         /\ Receive(d, {}) \/ \E t \in Workers : t.pc = "lock" /\ Receive(d, {t})
<1>1. d \in Deliveries /\ d.msg \in Letters
  BY DEF BrokerTypes, Deliveries
<1> DEFINE t == Thread(d, "lock", d.msg.n)
           goes == d.msg.n > 0 /\ Known(d) /\ ~InAvailable(d.msg.pkm.name)
<1>2. d.msg.type = "LOCALIZED" /\ Receive(d, IF goes THEN {t} ELSE {})
      /\ mishaps' = mishaps \cup (IF Known(d) THEN {} ELSE {"unknown"})
      /\ UNCHANGED <<vars, cardVars, askVars>>
  BY DEF LocalizedArrives
<1>3. mishaps' = mishaps \/ mishaps' = mishaps \cup {"unknown"}
  BY <1>2
<1>4. CASE goes
  <2>1. d.msg.n \in Nat /\ d.msg.n > 0 /\ d.msg.pkm \in Arrivals
    BY <1>1, <1>2, <1>4 DEF Letters
  <2>2. t \in Workers /\ t.pc = "lock"
    BY <1>1, <2>1, ThreadWorker DEF ThreadPcs
  <2> HIDE DEF t
  <2>3. IsFiniteSet({t}) /\ {t} \in SUBSET Workers /\ Receive(d, {t})
    BY <1>2, <1>4, <2>2, FS_Singleton
  <2> QED BY <1>2, <1>3, <2>2, <2>3, ReceiveStep
<1>5. CASE ~goes
  <2>1. Receive(d, {}) /\ IsFiniteSet({}) /\ {} \in SUBSET Workers
    BY <1>2, <1>5, FS_EmptySet
  <2> QED BY <1>2, <1>3, <2>1, ReceiveStep
<1> QED BY <1>4, <1>5

LEMMA MaxOfBounded ==
  ASSUME NEW S \in SUBSET Nat, S # {}, NEW n \in Nat, \A x \in S : x <= n
  PROVE  Max(S) \in S /\ \A x \in S : x <= Max(S)
<1> DEFINE B == {n - i : i \in S}
<1>1. B \in SUBSET Nat /\ B # {}
  <2>1. \A x \in S : x \in Nat /\ x <= n
    OBVIOUS
  <2>2. \A x \in S : n - x \in Nat
    BY <2>1
  <2> QED BY <2>2
<1> HIDE DEF B
<1>2. PICK b \in B : \A c \in B : b <= c
  BY <1>1, LeastNatural
<1>3. PICK m \in S : b = n - m
  BY DEF B
<1>4. \A x \in S : x <= m
  <2> TAKE x \in S
  <2>1. n - m <= n - x
    BY <1>2, <1>3 DEF B
  <2> QED BY <2>1
<1> QED BY <1>4 DEF Max

LEMMA MaxIsIn ==
  ASSUME NEW R, NEW list \in Seq(R), NEW S \in SUBSET DOMAIN list, S # {}
  PROVE  Max(S) \in S /\ \A x \in S : x <= Max(S)
<1>1. Len(list) \in Nat /\ S \in SUBSET Nat /\ \A x \in S : x <= Len(list)
  OBVIOUS
<1> QED BY <1>1, MaxOfBounded

LEMMA CaughtArrivesStep ==
  ASSUME BrokerTypes, WorkTypes, TypeOK, NEW d \in transit, CaughtArrives(d)
  PROVE  /\ BrokerTypes' /\ WorkTypes' /\ UNCHANGED <<vars, cardVars, askVars>>
         /\ d.msg.type = "CAUGHT"
         /\ mishaps' = mishaps \cup (IF Asks(d) THEN {} ELSE {"unknown"})
         /\ \/ ~Asks(d) /\ Receive(d, {})
            \/ Asks(d) /\ \E t \in Workers :
                /\ t.pc = (IF d.msg.n = 1 THEN "apply" ELSE "refuse")
                /\ t.msg = d.msg /\ t.pkm = d.msg.pkm /\ t.times = d.times /\ Receive(d, {t})
                /\ d.msg.n # 0 /\ PositionOf(Asker(d)) # {} => t.at = Max(PositionOf(Asker(d)))
<1>1. d \in Deliveries /\ d.msg \in Letters /\ blocked \in Seq(TrainerRecords)
  BY Lists DEF BrokerTypes, Deliveries, ListTypes
<1> DEFINE pc == IF d.msg.n = 1 THEN "apply" ELSE "refuse"
<1>2. PICK at \in IF ~Asks(d) \/ d.msg.n = 0 THEN {0}
               ELSE IF PositionOf(Asker(d)) # {} THEN {Max(PositionOf(Asker(d)))}
               ELSE {0} \cup DOMAIN blocked :
         Receive(d, IF ~Asks(d) THEN {} ELSE {Thread(d, pc, at)})
  BY DEF CaughtArrives
<1>3. d.msg.type = "CAUGHT" /\ UNCHANGED <<vars, cardVars, askVars>>
      /\ mishaps' = mishaps \cup (IF Asks(d) THEN {} ELSE {"unknown"})
  BY DEF CaughtArrives
<1>4. CASE ~Asks(d)
  <2>1. Receive(d, {}) /\ IsFiniteSet({}) /\ {} \in SUBSET Workers
    BY <1>2, <1>4, FS_EmptySet
  <2> QED BY <1>3, <1>4, <2>1, ReceiveStep
<1>5. CASE Asks(d)
  <2> DEFINE t == Thread(d, pc, at)
  <2>1. PositionOf(Asker(d)) # {} => Max(PositionOf(Asker(d))) \in PositionOf(Asker(d))
    <3>1. PositionOf(Asker(d)) \in SUBSET DOMAIN blocked
      BY DEF PositionOf
    <3> QED BY <1>1, <3>1, MaxIsIn
  <2>2. PositionOf(Asker(d)) \subseteq DOMAIN blocked /\ DOMAIN blocked \subseteq Nat
    BY <1>1 DEF PositionOf
  <2>3. at \in Nat /\ (d.msg.n # 0 /\ PositionOf(Asker(d)) # {} => at = Max(PositionOf(Asker(d))))
    BY <1>2, <1>5, <2>1, <2>2
  <2>4. pc \in ThreadPcs /\ pc \in {"apply", "refuse"}
    BY DEF ThreadPcs
  <2>5. t \in Workers /\ t.pc = pc /\ t.msg = d.msg /\ t.pkm = d.msg.pkm /\ t.at = at
        /\ t.times = d.times
    <3> HIDE DEF pc
    <3> QED BY <1>1, <2>3, <2>4, ThreadWorker
  <2>6. Receive(d, {t})
    BY <1>2, <1>5
  <2> HIDE DEF t, pc
  <2>7. IsFiniteSet({t}) /\ {t} \in SUBSET Workers
    BY <2>5, FS_Singleton
  <2>8. BrokerTypes' /\ WorkTypes'
    BY <2>6, <2>7, ReceiveStep
  <2>9. /\ t \in Workers /\ t.pc = pc /\ t.msg = d.msg /\ t.pkm = d.msg.pkm /\ t.times = d.times
        /\ Receive(d, {t})
        /\ d.msg.n # 0 /\ PositionOf(Asker(d)) # {} => t.at = Max(PositionOf(Asker(d)))
    BY <2>3, <2>5, <2>6
  <2> QED BY <1>3, <1>5, <2>8, <2>9 DEF pc
<1> QED BY <1>4, <1>5

(* What is cached for a queue, and what the connection has not had. *)
CachedFor(q) == {m \in cached : m.type = q}
Unserved(q) == {m \in CachedFor(q) : m.id \notin link[q].served}
Sent(S, n) == {[msg |-> m, times |-> n] : m \in S}

LEMMA SentFinite ==
  ASSUME NEW S \in SUBSET Letters, IsFiniteSet(S), NEW n \in Nat
  PROVE  /\ Sent(S, n) \in SUBSET Deliveries /\ IsFiniteSet(Sent(S, n))
         /\ Cardinality(Sent(S, n)) <= Cardinality(S)
<1> DEFINE h == [m \in S |-> [msg |-> m, times |-> n]]
<1>1. Sent(S, n) = PlacesBy(h, S)
  BY DEF Sent, PlacesBy
<1>2. Sent(S, n) \in SUBSET Deliveries
  BY DEF Sent, Deliveries
<1> HIDE DEF h
<1> QED BY <1>1, <1>2, ImageIsFinite

LEMMA SubscribeStep ==
  ASSUME BrokerTypes, NEW q \in Queues, Subscribe(q)
  PROVE  /\ BrokerTypes' /\ UNCHANGED <<vars, up, lastId, cached, cardVars, threads, askVars>>
         /\ link[q].times + 1 \in Nat /\ IsFiniteSet(Unserved(q))
         /\ \/ /\ transit' = transit \cup Sent(CachedFor(q), link[q].times + 1)
               /\ mishaps' = mishaps \cup {"twice"}
            \/ /\ transit' = transit \cup Sent(Unserved(q), link[q].times + 1)
               /\ mishaps' = mishaps
         /\ link'[q].served = {m.id : m \in CachedFor(q)}
         /\ link'[q].on /\ link'[q].times = link[q].times + 1
         /\ \A r \in Queues \ {q} : link'[r] = link[r]
<1> DEFINE all == CachedFor(q)
           some == Unserved(q)
           n == link[q].times + 1
           i == {m.id : m \in all}
<1>1. /\ all \in SUBSET Letters /\ some \in SUBSET Letters
      /\ IsFiniteSet(all) /\ IsFiniteSet(some)
  BY FS_Subset DEF BrokerTypes, CachedFor, Unserved
<1>2. n \in Nat /\ link \in Links
  BY DEF BrokerTypes, Links
<1>3. /\ \E served \in {all, some} :
           /\ transit' = transit \cup Sent(served, n)
           /\ mishaps' = mishaps \cup (IF served # some THEN {"twice"} ELSE {})
      /\ link' = [link EXCEPT ![q] = [on |-> TRUE, times |-> @.times + 1, served |-> i]]
      /\ UNCHANGED <<vars, up, lastId, cached, cardVars, threads, askVars>>
  BY DEF Subscribe, CachedFor, Unserved, Sent
<1>4. i \in SUBSET Nat
  BY <1>1 DEF Letters
<1>5. link' = [link EXCEPT ![q] = [on |-> TRUE, times |-> n, served |-> i]]
  BY <1>3
<1>6. /\ \/ transit' = transit \cup Sent(all, n) /\ mishaps' = mishaps \cup {"twice"}
         \/ transit' = transit \cup Sent(some, n) /\ mishaps' = mishaps
  BY <1>3
<1> HIDE DEF all, some, n
<1>7. /\ link' \in Links
      /\ link'[q].served = i /\ link'[q].on /\ link'[q].times = n
      /\ \A r \in Queues \ {q} : link'[r] = link[r]
  <2> DEFINE l == [on |-> TRUE, times |-> n, served |-> i]
  <2>1. l \in [on : BOOLEAN, times : Nat, served : SUBSET Nat] /\ l.on /\ l.served = i
        /\ l.times = n
    BY <1>2, <1>4
  <2>2. link' = [link EXCEPT ![q] = l]
    BY <1>5
  <2> HIDE DEF l, i
  <2> QED BY <1>2, <2>1, <2>2 DEF Links
<1>8. transit' \in SUBSET Deliveries /\ IsFiniteSet(transit')
  <2>1. /\ Sent(all, n) \in SUBSET Deliveries /\ IsFiniteSet(Sent(all, n))
        /\ Sent(some, n) \in SUBSET Deliveries /\ IsFiniteSet(Sent(some, n))
    BY <1>1, <1>2, SentFinite
  <2> QED BY <1>6, <2>1, FS_Union DEF BrokerTypes
<1>9. BrokerTypes'
  BY <1>3, <1>7, <1>8 DEF BrokerTypes
<1> QED BY <1>1, <1>2, <1>3, <1>6, <1>7, <1>9 DEF all, some, n

LEMMA CutStep ==
  ASSUME BrokerTypes, NEW q \in Queues, Cut(q)
  PROVE  /\ BrokerTypes' /\ UNCHANGED <<vars, up, lastId, cached, transit, cardVars, threads, askVars>>
         /\ \A r \in Queues : link'[r].served = link[r].served
         /\ mishaps' = mishaps \cup {q} /\ q \in Faults
<1>1. link' = [link EXCEPT ![q].on = FALSE] /\ mishaps' = mishaps \cup {q} /\ q \in Faults
      /\ UNCHANGED <<vars, up, lastId, cached, transit, cardVars, threads, askVars>>
  BY DEF Cut, Happens
<1> DEFINE l == [link[q] EXCEPT !.on = FALSE]
<1>2. l \in [on : BOOLEAN, times : Nat, served : SUBSET Nat] /\ l.served = link[q].served
  BY DEF BrokerTypes, Links
<1>3. link' = [link EXCEPT ![q] = l]
  BY <1>1
<1> HIDE DEF l
<1>4. link' \in Links /\ \A r \in Queues : link'[r].served = link[r].served
  BY <1>2, <1>3 DEF BrokerTypes, Links
<1> QED BY <1>1, <1>4 DEF BrokerTypes

LEMMA OutageMail ==
  ASSUME BrokerTypes, Outage
  PROVE  /\ BrokerTypes' /\ UNCHANGED <<transit, cardVars, threads, askVars>>
         /\ cached' = {} /\ mishaps' = mishaps \cup {"outage"} /\ "outage" \in Faults
<1>1. /\ up' = FALSE /\ lastId' = 0 /\ cached' = {} /\ mishaps' = mishaps \cup {"outage"}
      /\ link' = [q \in Queues |-> [link[q] EXCEPT !.on = FALSE, !.served = {}]]
      /\ UNCHANGED <<transit, cardVars, threads, askVars>> /\ "outage" \in Faults
  BY DEF Outage, Happens
<1>2. \A q \in Queues : [link[q] EXCEPT !.on = FALSE, !.served = {}]
                          \in [on : BOOLEAN, times : Nat, served : SUBSET Nat]
  BY DEF BrokerTypes, Links
<1>3. link' \in Links
  BY <1>1, <1>2 DEF Links
<1> QED BY <1>1, <1>3, FS_EmptySet DEF BrokerTypes

LEMMA RestartStep ==
  ASSUME BrokerTypes, Restart
  PROVE  /\ BrokerTypes'
         /\ UNCHANGED <<vars, lastId, cached, link, transit, cardVars, threads, askVars, mishaps>>
BY DEF BrokerTypes, Restart

LEMMA LocalizedStep ==
  ASSUME WorkTypes, NEW t \in threads, LocalizedLock(t) \/ LocalizedAdd(t)
  PROVE  /\ WorkTypes' /\ UNCHANGED <<lists, exec, brokerVars, cardVars, askVars, mishaps>>
         /\ UNCHANGED <<runner, closer, missing, ends>>
         /\ t.pc \in {"lock", "add"}
         /\ Ends(t) \/ \E u \in Workers : u.pc = "add" /\ threads' = (threads \ {t}) \cup {u}
<1>1. t \in Workers
  BY DEF WorkTypes
<1>2. CASE LocalizedLock(t)
  <2> DEFINE u == [t EXCEPT !.pc = "add"]
  <2>1. t.pc = "lock" /\ threads' = (threads \ {t}) \cup {u}
        /\ UNCHANGED <<lists, exec, brokerVars, cardVars, askVars, mishaps>>
        /\ UNCHANGED <<runner, closer, missing, ends>> /\ GoesTo(t, "add")
    BY <1>2 DEF LocalizedLock, GoesTo
  <2>2. u \in Workers /\ u.pc = "add"
    BY <1>1, <2>1 DEF Workers, ThreadPcs
  <2> QED BY <2>1, <2>2, GoesToStep
<1>3. CASE LocalizedAdd(t)
  <2> DEFINE u == [t EXCEPT !.at = @ - 1]
  <2>1. t.pc = "add" /\ threads' = (threads \ {t}) \cup (IF t.at = 1 THEN {} ELSE {u})
        /\ UNCHANGED <<lists, exec, brokerVars, cardVars, askVars, mishaps>>
        /\ UNCHANGED <<runner, closer, missing, ends>>
    BY <1>3 DEF LocalizedAdd
  <2>2. CASE t.at = 1
    BY <2>1, <2>2, EndsStep DEF Ends
  <2>3. CASE t.at # 1
    <3>1. u \in Workers /\ u.pc = "add"
      <4>1. t.at \in Nat /\ t.at > 0 /\ t.pkm \in Arrivals
        BY <1>1, <2>1 DEF Workers
      <4>2. t.at - 1 \in Nat /\ t.at - 1 > 0
        BY <2>3, <4>1
      <4> QED BY <1>1, <2>1, <4>1, <4>2 DEF Workers
    <3> HIDE DEF u
    <3>2. threads' = (threads \ {t}) \cup {u}
      BY <2>1, <2>3
    <3>3. IsFiniteSet(threads \ {t})
      BY FS_Subset DEF WorkTypes
    <3>4. IsFiniteSet((threads \ {t}) \cup {u})
      BY <3>3, FS_AddElement
    <3> QED BY <2>1, <3>1, <3>2, <3>4 DEF WorkTypes
  <2> QED BY <2>2, <2>3
<1> QED BY <1>2, <1>3

LEMMA AnswerWork ==
  ASSUME Sound, WorkTypes, NEW t \in threads,
         Refuse(t) \/ Apply(t) \/ ExitCaught(t) \/ DropCaught(t)
  PROVE  /\ WorkTypes' /\ UNCHANGED <<brokerVars, cardVars, askVars>>
         /\ t \in Workers /\ t.pc \in {"refuse", "apply", "exit", "drop"}
         /\ Ends(t) \/ GoesTo(t, "exit") \/ GoesTo(t, "drop")
         /\ \A u \in threads' : u \in threads \/ u.pc \in {"exit", "drop"}
         /\ t \notin threads' \/ t.pc \in {"exit", "drop"}
<1>1. t \in Workers
  BY DEF WorkTypes
<1>2. /\ UNCHANGED <<brokerVars, cardVars, askVars>>
      /\ \/ t.pc \in {"refuse", "apply", "drop"} /\ Ends(t)
         \/ t.pc = "apply" /\ t.at \in DOMAIN blocked /\ GoesTo(t, "exit")
         \/ t.pc = "exit" /\ GoesTo(t, "drop")
  BY DEF Refuse, Apply, ExitCaught, DropCaught
<1>3. CASE Ends(t)
  BY <1>1, <1>2, <1>3, EndsStep DEF Ends
<1>4. ASSUME NEW pc \in {"exit", "drop"}, GoesTo(t, pc), t.at > 0,
             t.pc \in {"apply", "exit"}
      PROVE  WorkTypes' /\ (\A u \in threads' : u \in threads \/ u.pc \in {"exit", "drop"})
             /\ (t \notin threads' \/ t.pc \in {"exit", "drop"})
  <2>1. [t EXCEPT !.pc = pc] \in Workers /\ [t EXCEPT !.pc = pc].pc = pc
    BY <1>1, <1>4 DEF Workers, ThreadPcs
  <2> QED BY <1>4, <2>1, GoesToStep DEF GoesTo
<1>5. t.pc = "exit" => t.at > 0
  BY <1>1 DEF Workers
<1>6. t.at \in DOMAIN blocked => t.at > 0
  <2>1. blocked \in Seq(TrainerRecords)
    BY RunTypes
  <2> QED BY <2>1
<1> QED BY <1>1, <1>2, <1>3, <1>4, <1>5, <1>6

(* What a trainer that asks sends and registers. *)
LEMMA SendCatchMail ==
  ASSUME Sound, BrokerTypes, AskTypes, SendCatch
  PROVE  /\ BrokerTypes' /\ AskTypes' /\ UNCHANGED <<cardVars, threads, mishaps>>
         /\ UNCHANGED <<main, getList, catchList>>
         /\ ids'.runner = lastId + 1 /\ ids'.main = ids.main
         /\ \E m \in Letters : /\ m.type = "CATCH" /\ m.pkm = exec.trainer.target
                               /\ m.cid = 0 /\ m.n = 0 /\ Published(m)
<1> DEFINE m == Message("CATCH", 0, exec.trainer.target, 0)
<1>1. /\ Publish(m) /\ ids' = [ids EXCEPT !.runner = lastId']
      /\ UNCHANGED <<cardVars, threads, main, getList, catchList, mishaps>>
  BY DEF SendCatch
<1>2. exec.trainer.target \in Spots
  <2>1. exec.trainer \in TrainerRecords
    BY RunTypes
  <2> QED BY <2>1, RecordParts, ArrivalIsSpot
<1>3. m \in Letters /\ m.type = "CATCH" /\ m.pkm = exec.trainer.target /\ m.cid = 0 /\ m.n = 0
  BY <1>2, MessageLetter DEF Queues
<1> HIDE DEF m
<1>4. BrokerTypes' /\ Published(m) /\ lastId' = lastId + 1 /\ lastId' \in Nat
  BY <1>1, <1>3, PublishStep DEF Published, BrokerTypes
<1>5. AskTypes' /\ ids'.runner = lastId + 1 /\ ids'.main = ids.main
  BY <1>1, <1>4 DEF AskTypes
<1> QED BY <1>1, <1>3, <1>4, <1>5

LEMMA RegisterMail ==
  ASSUME Sound, AskTypes, NEW id \in Nat, NEW from, Register(id, from)
  PROVE  /\ AskTypes' /\ UNCHANGED <<brokerVars, cardVars, threads, main, ids, getList, mishaps>>
         /\ catchList' = Append(catchList, [id |-> id, trainer |-> exec.trainer.id])
<1>1. /\ UNCHANGED <<brokerVars, cardVars, threads, main, ids, getList, mishaps>>
      /\ catchList' = Append(catchList, [id |-> id, trainer |-> exec.trainer.id])
  BY DEF Register
<1>2. [id |-> id, trainer |-> exec.trainer.id] \in Requests
  <2>1. exec.trainer \in TrainerRecords
    BY RunTypes
  <2> QED BY <2>1, RecordParts DEF Requests
<1> QED BY <1>1, <1>2 DEF AskTypes

LEMMA PlannerMail ==
  ASSUME PlannerSteps
  PROVE  /\ UNCHANGED <<brokerVars, stock, leftOpen, taken, threads, askVars>>
         /\ mishaps' = mishaps \cup Shortened(\E t \in threads : Holds(t))
         /\ \/ ~up /\ Catch /\ defaults' = defaults + 1
            \/ ((Closer /\ HasChoice) \/ Schedule \/ StartSearch \/ Finish) /\ UNCHANGED defaults
BY DEF PlannerSteps, CatchDefault

LEMMA NextKeepsMail ==
  ASSUME CatchingTypes, CatchingNext
  PROVE  MailTypes'
<1> USE DEF MailTypes
<1>0. BrokerTypes /\ CardTypes /\ WorkTypes /\ AskTypes /\ Sound /\ TypeOK
  BY DEF CatchingTypes, Sound
<1>1. CASE PlannerSteps
  <2>1. UNCHANGED <<brokerVars, stock, leftOpen, taken, threads, askVars>>
        /\ (defaults' = defaults + 1 \/ UNCHANGED defaults)
    BY <1>1, PlannerMail
  <2> QED BY <1>0, <2>1, SameBroker, SameAsk DEF CardTypes, WorkTypes
<1>2. CASE Asking
  <2>1. CASE AskBroker \/ Asked
    <3>1. UNCHANGED <<brokerVars, cardVars, threads, askVars>>
      BY <2>1 DEF AskBroker, Asked
    <3> QED BY <1>0, <3>1, SameBroker, SameCard, SameWork, SameAsk
  <2>2. CASE SendCatch
    BY <1>0, <2>2, SendCatchMail, SameCard, SameWork
  <2>3. ASSUME NEW id \in Nat, NEW from, Register(id, from) PROVE MailTypes'
    BY <1>0, <2>3, RegisterMail, SameBroker, SameCard, SameWork
  <2>4. ids.runner \in Nat /\ \A i \in DOMAIN catchList : catchList[i].id \in Nat
    <3>1. \A i \in DOMAIN catchList : catchList[i] \in Requests
      BY <1>0 DEF AskTypes
    <3> QED BY <1>0, <3>1 DEF AskTypes, Requests
  <2> QED BY <1>2, <2>1, <2>2, <2>3, <2>4 DEF Asking, RegisterCatch, RegisterGarbage
<1>3. CASE RequestPokemon
  BY <1>0, <1>3, RequestPokemonStep, SameCard, SameWork
<1>4. CASE RegisterGet
  BY <1>0, <1>4, RegisterGetStep, SameBroker, SameCard, SameWork
<1>5. ASSUME NEW q \in Queues, Subscribe(q) \/ Cut(q) PROVE MailTypes'
  <2>1. BrokerTypes' /\ UNCHANGED <<cardVars, threads, askVars>>
    BY <1>0, <1>5, SubscribeStep, CutStep
  <2> QED BY <1>0, <2>1, SameCard, SameWork, SameAsk
<1>6. CASE Outage
  BY <1>0, <1>6, OutageMail, SameCard, SameWork, SameAsk
<1>7. CASE Restart
  BY <1>0, <1>7, RestartStep, SameCard, SameWork, SameAsk
<1>8. ASSUME NEW i \in DOMAIN stock, Taken(i) PROVE MailTypes'
  BY <1>0, <1>8, TakenStep, SameBroker, SameWork, SameAsk
<1>9. ASSUME NEW d \in transit, Arrives(d) PROVE MailTypes'
  <2>1. CASE CardLooks(d)
    BY <1>0, <2>1, CardLooksStep, SameCard, SameAsk
  <2>2. CASE CardCatches(d)
    BY <1>0, <2>2, CardCatchesStep, SameAsk
  <2>3. CASE LocalizedArrives(d)
    BY <1>0, <2>3, LocalizedArrivesStep, SameCard, SameAsk
  <2>4. CASE CaughtArrives(d)
    BY <1>0, <2>4, CaughtArrivesStep, SameCard, SameAsk
  <2> QED BY <1>9, <2>1, <2>2, <2>3, <2>4 DEF Arrives
<1>10. ASSUME NEW t \in threads, Processes(t) PROVE MailTypes'
  <2>1. CASE CardReplies(t)
    BY <1>0, <2>1, CardRepliesStep, SameCard, SameAsk
  <2>2. CASE LocalizedLock(t) \/ LocalizedAdd(t)
    BY <1>0, <2>2, LocalizedStep, SameBroker, SameCard, SameAsk
  <2>3. CASE Refuse(t) \/ Apply(t) \/ ExitCaught(t) \/ DropCaught(t)
    BY <1>0, <2>3, AnswerWork, SameBroker, SameCard, SameAsk
  <2> QED BY <1>10, <2>1, <2>2, <2>3 DEF Processes
<1> QED BY <1>1, <1>2, <1>3, <1>4, <1>5, <1>6, <1>7, <1>8, <1>9, <1>10 DEF CatchingNext

LEMMA InitCatching == CatchingInit => CatchingTypes
<1> SUFFICES ASSUME CatchingInit PROVE CatchingTypes
  OBVIOUS
<1>1. Sound /\ Closing
  BY InitBase DEF CatchingInit, Base, CloserInv
<1>2. BrokerTypes
  BY FS_EmptySet DEF CatchingInit, BrokerTypes, Links
<1>3. CardTypes
  BY CatchingAssumption DEF CatchingInit, CardTypes, Lines
<1>4. WorkTypes
  BY FS_EmptySet DEF CatchingInit, WorkTypes
<1>5. AskTypes
  BY DEF CatchingInit, AskTypes
<1> QED BY <1>1, <1>2, <1>3, <1>4, <1>5 DEF CatchingTypes, MailTypes

LEMMA CatchingTypesStep == CatchingTypes /\ [CatchingNext]_catchingVars => CatchingTypes'
<1> SUFFICES ASSUME CatchingTypes, [CatchingNext]_catchingVars PROVE CatchingTypes'
  OBVIOUS
<1>1. CASE CatchingNext
  BY <1>1, NextKeepsPlan, NextKeepsMail DEF CatchingTypes, MailTypes
<1>2. CASE UNCHANGED catchingVars
  BY <1>2, SameKeepsPlan, SameBroker, SameCard, SameWork, SameAsk
     DEF catchingVars, CatchingTypes, MailTypes
<1> QED BY <1>1, <1>2

(* Every variable keeps its type, through any faults: what a thread reads  *)
(* past the end of a list stops the process, and is never written.         *)
THEOREM CatchingIsTyped == CatchingSpec => []CatchingTypes
<1> QED BY InitCatching, CatchingTypesStep, PTL DEF CatchingSpec

-----------------------------------------------------------------------------
(* What the trainers hold.  Each trainer's copies hold at most what a      *)
(* bound says, wherever they are and however many there are; the bounds    *)
(* and the answers that say yes and are not yet applied add up to no more  *)
(* than what the trainers started with and what was handed out.            *)

Bounds == [Trainers -> Nat]
Within(list, b) == \A i \in DOMAIN list : Total(list[i].held) <= b[list[i].id]

AllWithin(b) ==
  /\ Within(new, b) /\ Within(ready, b) /\ Within(blocked, b) /\ Within(exit, b)
  /\ Total(exec.trainer.held) <= b[exec.trainer.id]
  /\ \A t \in Trainers : Total(StartHeld[t]) <= b[t]

(* A yes on its way: to be replied, cached, delivered, to be applied. *)
YesReplied == {t \in threads : t.pc = "reply" /\ t.msg.type # "GET" /\ t.at = 1}
YesCached == {m \in Unserved("CAUGHT") : m.n = 1}
YesSent == {d \in transit : d.msg.type = "CAUGHT" /\ d.msg.n = 1}
YesApplied == {t \in threads : t.pc = "apply"}
Yeses == Cardinality(YesReplied) + Cardinality(YesCached) + Cardinality(YesSent)
           + Cardinality(YesApplied)

Accounted(b) == Total(b) + Yeses <= HeldAtStart + AllHandedOut + defaults
GivenInv == Without({"twice"}) => \E b \in Bounds : AllWithin(b) /\ Accounted(b)

LEMMA HeldNat ==
  ASSUME NEW r \in TrainerRecords
  PROVE  Total(r.held) \in Nat /\ r.id \in Trainers
BY RecordParts, TotalNat, PlannerAssumption

LEMMA CaughtTotal ==
  ASSUME NEW r \in TrainerRecords
  PROVE  Total(Caught(r).held) <= Total(r.held) + 1 /\ Total(Caught(r).held) \in Nat
<1> DEFINE h == r.held
           n == r.target.name
           g == [h EXCEPT ![n] = @ + 1]
<1>1. Caught(r).held = g /\ Caught(r) \in TrainerRecords
  BY CaughtRecord
<1>2. h \in [Species -> Nat] /\ IsFiniteSet(Species)
  BY RecordParts, PlannerAssumption
<1>3. Total(h) \in Nat /\ Total(g) \in Nat
  BY <1>1, <1>2, HeldNat, TotalNat
<1>4. CASE n \in Species
  <2> HIDE DEF h, n
  <2>1. h \in [Species -> Int] /\ g \in [Species -> Int] /\ g[n] = h[n] + 1 /\ h[n] \in Int
        /\ \A s \in Species \ {n} : g[s] = h[s]
    BY <1>2, <1>4
  <2> HIDE DEF g
  <2>2. Total(g) = Total(h) - h[n] + g[n]
    BY <1>2, <1>4, <2>1, TotalChange
  <2> QED BY <1>1, <1>3, <2>1, <2>2 DEF h
<1>5. CASE n \notin Species
  <2>1. g = h
    <3> HIDE DEF h, n
    <3> QED BY <1>2, <1>5
  <2> QED BY <1>1, <1>3, <2>1
<1> QED BY <1>4, <1>5

LEMMA WithinRemoved ==
  ASSUME NEW list \in Seq(TrainerRecords), NEW now, CutShort(list, now), NEW b, Within(list, b)
  PROVE  Within(now, b)
<1>1. CASE now = list
  BY <1>1
<1>2. ASSUME NEW k \in DOMAIN list, now = RemoveAt(list, k) PROVE Within(now, b)
  <2>1. /\ RemoveAt(list, k) \in Seq(TrainerRecords)
        /\ Len(RemoveAt(list, k)) = Len(list) - 1
        /\ \A i \in DOMAIN RemoveAt(list, k) :
             RemoveAt(list, k)[i] = IF i < k THEN list[i] ELSE list[i + 1]
    BY RemovedPlaces
  <2>2. \A i \in DOMAIN now : now[i] = IF i < k THEN list[i] ELSE list[i + 1]
    BY <1>2, <2>1
  <2>3. Len(list) \in Nat /\ DOMAIN list = 1 .. Len(list) /\ DOMAIN now = 1 .. Len(list) - 1
        /\ k \in 1 .. Len(list)
    BY <1>2, <2>1
  <2>4. \A i \in DOMAIN now : \E j \in DOMAIN list : now[i] = list[j]
    BY <2>2, <2>3
  <2> QED BY <2>4 DEF Within
<1> QED BY <1>1, <1>2 DEF CutShort

LEMMA WithinLonger ==
  ASSUME NEW list \in Seq(TrainerRecords), NEW now, NEW e, Longer(list, now, e), NEW b,
         Within(list, b), Total(e.held) <= b[e.id]
  PROVE  Within(now, b)
<1>1. Len(list) \in Nat /\ DOMAIN list = 1 .. Len(list) /\ DOMAIN now = 1 .. Len(list) + 1
  BY DEF Longer, LengthOf
<1>2. \A i \in DOMAIN now : i \in DOMAIN list \/ i = Len(list) + 1
  BY <1>1
<1> QED BY <1>2 DEF Longer, Within

(* The steps of Planner leave every copy within its bound, but for Catch.  *)
LEMMA CloserWithin ==
  ASSUME Sound, Closing, Closer, HasChoice, NEW b \in Bounds, AllWithin(b)
  PROVE  AllWithin(b)'
<1>0. PlanTyped
  BY PlanIsTyped
<1>1. CASE Quiet
  BY <1>1, QuietTypes DEF NoLists, lists, AllWithin
<1>2. ASSUME NEW p \in Arrivals, Planning(p) PROVE AllWithin(b)'
  <2>1. /\ UNCHANGED <<new, blocked, exit, exec>> /\ closer' \in Closers /\ closer'.pc = "drop"
        /\ Choice' \in TrainerRecords /\ CloserInv'
        /\ Longer(ready, ready', [Choice' EXCEPT !.target = p])
    BY <1>2 DEF Planning
  <2>2. Total(Choice'.held) <= b[Choice'.id]
    <3>1. \/ closer'.list = "new" /\ closer'.pos \in DOMAIN new /\ Choice' = new[closer'.pos]
          \/ closer'.pos \in DOMAIN blocked /\ Choice' = blocked[closer'.pos]
      BY <2>1 DEF CloserInv, Closers, Choice, Free
    <3> QED BY <3>1 DEF AllWithin, Within
  <2> DEFINE e == [Choice' EXCEPT !.target = p]
  <2>3. e.held = Choice'.held /\ e.id = Choice'.id
    BY <2>1, TargetRecord DEF Pokemons
  <2> HIDE DEF e
  <2>4. Within(ready', b)
    BY <1>0, <2>1, <2>2, <2>3, WithinLonger DEF PlanTyped, AllWithin, e
  <2> QED BY <2>1, <2>4 DEF AllWithin, Within
<1>3. CASE Drop
  <2>1. /\ UNCHANGED <<ready, exit, exec>> /\ CutShort(new, new') /\ CutShort(blocked, blocked')
    BY <1>3, DropTypes
  <2>2. Within(new', b) /\ Within(blocked', b)
    BY <1>0, <2>1, WithinRemoved DEF PlanTyped, AllWithin
  <2> QED BY <2>1, <2>2 DEF AllWithin, Within
<1> QED BY <1>1, <1>2, <1>3, PlanHas DEF Closer, Quiet

LEMMA SchedulerWithin ==
  ASSUME Sound, Schedule, NEW b \in Bounds, AllWithin(b)
  PROVE  AllWithin(b)'
<1>0. PlanTyped /\ UNCHANGED new
  BY PlanIsTyped, RunKeepsSound DEF Grown, Apart, Runner
<1>1. ASSUME UNCHANGED <<ready, blocked, exit>>, exec'.trainer = exec.trainer
      PROVE  AllWithin(b)'
  BY <1>0, <1>1 DEF AllWithin, Within
<1>2. ASSUME UNCHANGED <<ready, blocked, exit>>, SameTrainer(exec'.trainer, exec.trainer)
      PROVE  AllWithin(b)'
  BY <1>0, <1>2 DEF AllWithin, Within, SameTrainer
<1>3. CASE WaitReady \/ WaitExec \/ PostPlaced
  <2>1. UNCHANGED <<ready, blocked, exit, exec>>
    BY <1>3, WaitReadyStep, WaitExecStep, PostPlacedStep
  <2> QED BY <1>1, <2>1
<1>4. CASE AddToExec
  <2>1. UNCHANGED <<ready, blocked, exit>>
        /\ (UNCHANGED exec \/ (/\ runner'.pos \in DOMAIN ready
                               /\ SameTrainer(exec'.trainer, ready[runner'.pos])))
    BY <1>4, AddToExecStep
  <2> QED BY <1>0, <1>1, <2>1 DEF AllWithin, Within, SameTrainer
<1>5. CASE RemoveFromReady
  <2>1. UNCHANGED <<blocked, exit, exec>> /\ runner.pos \in DOMAIN ready
        /\ ready' = RemoveAt(ready, runner.pos)
    BY <1>5, RemoveFromReadyStep
  <2>2. Within(ready', b)
    BY <1>0, <2>1, WithinRemoved DEF PlanTyped, AllWithin, CutShort
  <2> QED BY <1>0, <2>1, <2>2 DEF AllWithin, Within
<1>6. CASE Move
  BY <1>2, <1>6, MoveStep
<1>7. CASE Place
  <2>0. UNCHANGED ready /\ (Ended \/ Stays)
    BY <1>7, PlaceStep
  <2>1. CASE Ended
    <3>1. Longer(exit, exit', exec.trainer) /\ UNCHANGED <<blocked, exec>>
      BY <2>1 DEF Ended
    <3>2. Within(exit', b)
      BY <1>0, <3>1, WithinLonger DEF PlanTyped, AllWithin
    <3> QED BY <1>0, <2>0, <3>1, <3>2 DEF AllWithin, Within
  <2>2. CASE Stays
    <3>1. Longer(blocked, blocked', exec'.trainer) /\ UNCHANGED exit
          /\ exec'.trainer.id = exec.trainer.id /\ exec'.trainer.held = exec.trainer.held
      BY <2>2 DEF Stays
    <3>2. Within(blocked', b)
      BY <1>0, <3>1, WithinLonger DEF PlanTyped, AllWithin
    <3> QED BY <1>0, <2>0, <3>1, <3>2 DEF AllWithin, Within
  <2> QED BY <2>0, <2>1, <2>2
<1>8. CASE Release \/ Preempt \/ GaveWay
  BY <1>1, <1>8, RemoveFromExecStep DEF Release, Preempt, GaveWay, RunnerPcs
<1>9. CASE Requeue \/ GiveWay
  <2>1. UNCHANGED <<blocked, exit, exec>> /\ Longer(ready, ready', exec.trainer)
    BY <1>9, RequeueStep, GiveWayStep
  <2>2. Within(ready', b)
    BY <1>0, <2>1, WithinLonger DEF PlanTyped, AllWithin
  <2> QED BY <1>0, <2>1, <2>2 DEF AllWithin, Within
<1> QED BY <1>3, <1>4, <1>5, <1>6, <1>7, <1>8, <1>9 DEF Schedule

(* One more for a trainer. *)
MoreFor(b, t) == [b EXCEPT ![t] = @ + 1]

LEMMA MoreForOne ==
  ASSUME NEW b \in Bounds, NEW t \in Trainers
  PROVE  /\ MoreFor(b, t) \in Bounds /\ Total(MoreFor(b, t)) = Total(b) + 1
         /\ Total(b) \in Nat
         /\ MoreFor(b, t)[t] = b[t] + 1 /\ \A u \in Trainers : b[u] <= MoreFor(b, t)[u]
<1> DEFINE c == MoreFor(b, t)
<1>1. c \in Bounds /\ c[t] = b[t] + 1 /\ b[t] \in Nat /\ \A u \in Trainers \ {t} : c[u] = b[u]
  BY DEF Bounds, MoreFor
<1>2. IsFiniteSet(Trainers) /\ b \in [Trainers -> Int] /\ c \in [Trainers -> Int]
      /\ b \in [Trainers -> Nat]
  BY <1>1, PlannerAssumption DEF Bounds
<1> HIDE DEF c
<1>3. Total(c) = Total(b) - b[t] + c[t] /\ Total(b) \in Nat
  BY <1>1, <1>2, TotalChange, TotalNat
<1>4. \A u \in Trainers : b[u] <= c[u]
  <2> TAKE u \in Trainers
  <2>1. b[u] \in Nat
    BY DEF Bounds
  <2> QED BY <1>1, <2>1
<1> QED BY <1>1, <1>3, <1>4 DEF c

LEMMA WithinMore ==
  ASSUME NEW list \in Seq(TrainerRecords), NEW b \in Bounds, NEW t \in Trainers, Within(list, b)
  PROVE  Within(list, MoreFor(b, t))
<1> SUFFICES ASSUME NEW i \in DOMAIN list
             PROVE  Total(list[i].held) <= MoreFor(b, t)[list[i].id]
  BY DEF Within
<1>1. list[i] \in TrainerRecords
  OBVIOUS
<1>2. Total(list[i].held) \in Nat /\ list[i].id \in Trainers /\ Total(list[i].held) <= b[list[i].id]
  BY <1>1, HeldNat DEF Within
<1>3. MoreFor(b, t) \in Bounds /\ b[list[i].id] <= MoreFor(b, t)[list[i].id]
  BY <1>2, MoreForOne
<1>4. b[list[i].id] \in Nat /\ MoreFor(b, t)[list[i].id] \in Nat
  BY <1>2, <1>3 DEF Bounds
<1> QED BY <1>2, <1>3, <1>4

LEMMA AllWithinMore ==
  ASSUME PlanTyped, NEW b \in Bounds, NEW t \in Trainers, AllWithin(b)
  PROVE  AllWithin(MoreFor(b, t))
<1> DEFINE c == MoreFor(b, t)
<1>1. Within(new, c) /\ Within(ready, c) /\ Within(blocked, c) /\ Within(exit, c)
  BY WithinMore DEF PlanTyped, AllWithin
<1>2. c \in Bounds /\ \A u \in Trainers : b[u] <= c[u] /\ b[u] \in Nat /\ c[u] \in Nat
  BY MoreForOne DEF Bounds
<1>3. \A u \in Trainers : Total(StartHeld[u]) \in Nat
  BY TotalNat, PlannerAssumption
<1>4. Total(exec.trainer.held) \in Nat /\ exec.trainer.id \in Trainers
  BY HeldNat DEF PlanTyped
<1> HIDE DEF c
<1>5. Total(exec.trainer.held) <= c[exec.trainer.id]
  <2>1. Total(exec.trainer.held) <= b[exec.trainer.id]
    BY DEF AllWithin
  <2> QED BY <1>2, <1>4, <2>1
<1>6. \A u \in Trainers : Total(StartHeld[u]) <= c[u]
  <2> TAKE u \in Trainers
  <2>1. Total(StartHeld[u]) <= b[u]
    BY DEF AllWithin
  <2> QED BY <1>2, <1>3, <2>1
<1> QED BY <1>1, <1>5, <1>6 DEF AllWithin, c

LEMMA CatchWithin ==
  ASSUME Sound, Catch, NEW b \in Bounds, AllWithin(b)
  PROVE  \E c \in Bounds : AllWithin(c)' /\ Total(c) = Total(b) + 1
<1> DEFINE t == exec.trainer.id
<1>1. PlanTyped /\ t \in Trainers
  BY PlanIsTyped, HeldNat DEF PlanTyped
<1>2. PICK c \in Bounds : c[t] = b[t] + 1 /\ AllWithin(c) /\ Total(c) = Total(b) + 1
  BY <1>1, AllWithinMore, MoreForOne
<1>3. /\ UNCHANGED <<new, ready, blocked, exit>>
      /\ exec'.trainer = Caught(exec.trainer) /\ exec'.trainer.id = t
  BY CatchStep, RunKeepsSound DEF Grown, Apart, Runner
<1>4. Total(Caught(exec.trainer).held) <= Total(exec.trainer.held) + 1
      /\ Total(Caught(exec.trainer).held) \in Nat
      /\ Total(exec.trainer.held) \in Nat /\ Total(exec.trainer.held) <= b[t] /\ b[t] \in Nat
  BY <1>1, CaughtTotal, HeldNat DEF PlanTyped, AllWithin, Bounds
<1> HIDE DEF t
<1>5. Total(exec'.trainer.held) <= c[exec'.trainer.id]
  BY <1>2, <1>3, <1>4
<1>6. AllWithin(c)'
  BY <1>2, <1>3, <1>5 DEF AllWithin, Within
<1> QED BY <1>2, <1>6

LEMMA AskingWithin ==
  ASSUME Sound, Asking, NEW b \in Bounds, AllWithin(b)
  PROVE  AllWithin(b)'
<1>0. PlanTyped
  BY PlanIsTyped
<1>1. CASE AskBroker
  <2>1. /\ exec'.trainer.id = exec.trainer.id /\ exec'.trainer.held = exec.trainer.held
        /\ Longer(blocked, blocked', exec'.trainer)
        /\ UNCHANGED <<new, ready, exit>>
    BY <1>1, AskBrokerStep DEF AskBroker
  <2>2. Within(blocked', b)
    BY <1>0, <2>1, WithinLonger DEF PlanTyped, AllWithin
  <2> QED BY <2>1, <2>2 DEF AllWithin, Within
<1>2. CASE SendCatch \/ RegisterCatch \/ RegisterGarbage
  <2>1. UNCHANGED <<new, ready, blocked, exit, exec>>
    BY <1>2 DEF SendCatch, RegisterCatch, RegisterGarbage, Register, lists
  <2> QED BY <2>1 DEF AllWithin, Within
<1>3. CASE Asked
  <2>1. UNCHANGED <<new, ready, blocked, exit>> /\ exec'.trainer = exec.trainer
    BY <1>3, AskedStep DEF Asked, RemoveFromExec, lists
  <2> QED BY <2>1 DEF AllWithin, Within
<1> QED BY <1>1, <1>2, <1>3 DEF Asking

LEMMA AnswerWithin ==
  ASSUME Sound, NEW t \in Workers, Refuse(t) \/ ExitCaught(t) \/ DropCaught(t),
         NEW b \in Bounds, AllWithin(b)
  PROVE  AllWithin(b)'
<1>0. PlanTyped
  BY PlanIsTyped
<1>1. CASE Refuse(t)
  <2>1. /\ exec'.trainer.id = exec.trainer.id /\ exec'.trainer.held = exec.trainer.held
        /\ UNCHANGED <<new, ready, blocked, exit>>
    BY <1>1, RefuseStep DEF AnswerAside
  <2> QED BY <2>1 DEF AllWithin, Within
<1>2. CASE ExitCaught(t)
  <2>1. Longer(exit, exit', exec.trainer) /\ UNCHANGED <<new, ready, blocked, exec>>
    BY <1>2, ExitCaughtStep DEF AnswerAside
  <2>2. Within(exit', b)
    BY <1>0, <2>1, WithinLonger DEF PlanTyped, AllWithin
  <2> QED BY <2>1, <2>2 DEF AllWithin, Within
<1>3. CASE DropCaught(t)
  <2>1. t.at \in Nat \ {0}
    BY <1>3 DEF DropCaught, Workers
  <2>2. CutShort(blocked, blocked') /\ UNCHANGED <<new, ready, exit, exec>>
    BY <1>3, <2>1, DropCaughtStep DEF AnswerAside
  <2>3. Within(blocked', b)
    BY <1>0, <2>2, WithinRemoved DEF PlanTyped, AllWithin
  <2> QED BY <2>2, <2>3 DEF AllWithin, Within
<1> QED BY <1>1, <1>2, <1>3

LEMMA ApplyWithin ==
  ASSUME Sound, NEW t \in Workers, Apply(t), NEW b \in Bounds, AllWithin(b)
  PROVE  \E c \in Bounds : AllWithin(c)' /\ Total(c) <= Total(b) + 1
<1>0. PlanTyped /\ t.at \in Nat
  BY PlanIsTyped DEF Workers
<1>1. UNCHANGED <<new, ready, exit, exec>> /\ (Applied(t) \/ Misapplied(t))
  BY <1>0, ApplyStep DEF AnswerAside
<1>2. CASE Misapplied(t)
  <2>1. AllWithin(b)'
    BY <1>1, <1>2 DEF Misapplied, AllWithin, Within
  <2>2. Total(b) \in Nat
    BY TotalNat, PlannerAssumption DEF Bounds
  <2> QED BY <2>1, <2>2
<1>3. CASE Applied(t)
  <2> DEFINE old == blocked[t.at]
  <2>1. t.at \in DOMAIN blocked
    BY <1>3 DEF Applied
  <2>2. PICK v \in TrainerRecords :
            /\ blocked' = [blocked EXCEPT ![t.at] = v]
            /\ v.id = blocked[t.at].id /\ v.held = Caught(blocked[t.at]).held
    BY <1>3 DEF Applied
  <2>3. old \in TrainerRecords /\ old.id \in Trainers
    BY <1>0, <2>1, HeldNat DEF PlanTyped
  <2>4. PICK c \in Bounds : c[old.id] = b[old.id] + 1 /\ Total(c) = Total(b) + 1 /\ AllWithin(c)
    BY <1>0, <2>3, AllWithinMore, MoreForOne
  <2>5. Total(v.held) <= c[v.id]
    <3>1. Total(Caught(old).held) <= Total(old.held) + 1 /\ Total(Caught(old).held) \in Nat
          /\ Total(old.held) \in Nat /\ Total(old.held) <= b[old.id] /\ b[old.id] \in Nat
      BY <2>1, <2>3, CaughtTotal, HeldNat DEF AllWithin, Within, Bounds
    <3>2. v.held = Caught(old).held /\ v.id = old.id
      BY <2>2
    <3> HIDE DEF old
    <3> QED BY <2>4, <3>1, <3>2
  <2>6. blocked \in Seq(TrainerRecords)
    BY <1>0 DEF PlanTyped
  <2>7. DOMAIN blocked' = DOMAIN blocked /\ blocked'[t.at] = v
        /\ \A i \in DOMAIN blocked \ {t.at} : blocked'[i] = blocked[i]
    BY <2>1, <2>2, <2>6
  <2>8. AllWithin(c)'
    BY <1>1, <2>4, <2>5, <2>7 DEF AllWithin, Within
  <2>9. Total(c) \in Nat /\ Total(b) \in Nat
    <3>1. IsFiniteSet(Trainers) /\ c \in [Trainers -> Nat] /\ b \in [Trainers -> Nat]
      BY PlannerAssumption DEF Bounds
    <3> QED BY <3>1, TotalNat
  <2>10. Total(c) <= Total(b) + 1
    BY <2>4, <2>9
  <2> QED BY <2>8, <2>10
<1> QED BY <1>1, <1>2, <1>3

-----------------------------------------------------------------------------
(* What was handed out, and the answers that say yes. *)

LEMMA HandedInt ==
  ASSUME CardTypes, NEW s \in Species
  PROVE  HandedOut(s) \in Int
<1>1. Amount(StartStock, s) \in Nat /\ Amount(stock, s) \in Nat /\ taken[s] \in Nat
  BY AmountNat, CatchingAssumption DEF CardTypes, Lines
<1> QED BY <1>1 DEF HandedOut

LEMMA HandedMore ==
  ASSUME CardTypes, CardTypes', NEW c, c \in BOOLEAN, NEW n, c => n \in Species,
         \A s \in Species : HandedOut(s)' = HandedOut(s) + One(c /\ n = s)
  PROVE  AllHandedOut \in Int /\ AllHandedOut' = AllHandedOut + One(c)
<1> DEFINE f == [s \in Species |-> HandedOut(s)]
           g == [s \in Species |-> HandedOut(s)']
<1>1. IsFiniteSet(Species)
  BY PlannerAssumption
<1>2. f \in [Species -> Int] /\ g \in [Species -> Int]
  <2>1. \A s \in Species : HandedOut(s) \in Int /\ HandedOut(s)' \in Int
    <3> TAKE s \in Species
    <3>1. HandedOut(s) \in Int
      BY HandedInt
    <3> QED BY <3>1 DEF One
  <2> QED BY <2>1
<1>3. AllHandedOut = Total(f) /\ AllHandedOut' = Total(g)
  BY DEF AllHandedOut
<1>4. \A s \in Species : g[s] = f[s] + One(c /\ n = s)
  OBVIOUS
<1> HIDE DEF f, g
<1>5. Total(f) \in Int
  BY <1>1, <1>2, TotalInt
<1>6. CASE ~c
  <2>1. \A s \in Species : g[s] = f[s]
    <3> TAKE s \in Species
    <3>1. g[s] = f[s] + 0 /\ f[s] \in Int
      BY <1>2, <1>4, <1>6 DEF One
    <3> QED BY <3>1
  <2>2. Total(g) = Total(f)
    BY <1>1, <1>2, <2>1, TotalSame
  <2> QED BY <1>3, <1>5, <1>6, <2>2 DEF One
<1>7. CASE c
  <2>1. n \in Species /\ f[n] \in Int /\ g[n] = f[n] + 1
    BY <1>2, <1>4, <1>7 DEF One
  <2>2. \A s \in Species \ {n} : g[s] = f[s]
    <3> TAKE s \in Species \ {n}
    <3>1. g[s] = f[s] + 0 /\ f[s] \in Int
      BY <1>2, <1>4, <1>7 DEF One
    <3> QED BY <3>1
  <2>3. Total(g) = Total(f) - f[n] + g[n]
    BY <1>1, <1>2, <2>1, <2>2, TotalChange
  <2> QED BY <1>3, <1>5, <1>7, <2>1, <2>3 DEF One
<1> QED BY <1>6, <1>7

LEMMA CountGrows ==
  ASSUME NEW S, IsFiniteSet(S), NEW x, NEW T \in SUBSET (S \cup {x})
  PROVE  IsFiniteSet(T) /\ Cardinality(T) <= Cardinality(S) + 1
<1>0. Cardinality(S) \in Nat
  BY FS_CardinalityType
<1>1. IsFiniteSet(S \cup {x}) /\ Cardinality(S \cup {x}) <= Cardinality(S) + 1
  BY <1>0, FS_AddElement
<1>2. IsFiniteSet(T) /\ Cardinality(T) <= Cardinality(S \cup {x})
  BY <1>1, FS_Subset
<1>3. Cardinality(T) \in Nat /\ Cardinality(S) \in Nat /\ Cardinality(S \cup {x}) \in Nat
  BY <1>1, <1>2, FS_CardinalityType
<1> QED BY <1>1, <1>2, <1>3

LEMMA CountShrinks ==
  ASSUME NEW S, IsFiniteSet(S), NEW x \in S, NEW T \in SUBSET (S \ {x})
  PROVE  IsFiniteSet(T) /\ Cardinality(T) + 1 <= Cardinality(S)
<1>1. IsFiniteSet(S \ {x}) /\ Cardinality(S \ {x}) = Cardinality(S) - 1
  BY FS_RemoveElement
<1>2. IsFiniteSet(T) /\ Cardinality(T) <= Cardinality(S \ {x})
  BY <1>1, FS_Subset
<1>3. Cardinality(T) \in Nat /\ Cardinality(S) \in Nat
  BY <1>2, FS_CardinalityType
<1> QED BY <1>1, <1>2, <1>3

LEMMA CountKept ==
  ASSUME NEW S, IsFiniteSet(S), NEW T \in SUBSET S
  PROVE  IsFiniteSet(T) /\ Cardinality(T) <= Cardinality(S)
BY FS_Subset

LEMMA YesesFinite ==
  ASSUME BrokerTypes, WorkTypes
  PROVE  /\ IsFiniteSet(YesReplied) /\ Cardinality(YesReplied) \in Nat
         /\ IsFiniteSet(YesCached) /\ Cardinality(YesCached) \in Nat
         /\ IsFiniteSet(YesSent) /\ Cardinality(YesSent) \in Nat
         /\ IsFiniteSet(YesApplied) /\ Cardinality(YesApplied) \in Nat
         /\ Yeses \in Nat
<1>1. /\ YesReplied \in SUBSET threads /\ YesApplied \in SUBSET threads
      /\ YesCached \in SUBSET cached /\ YesSent \in SUBSET transit
  BY DEF YesReplied, YesApplied, YesCached, YesSent, Unserved, CachedFor
<1>2. IsFiniteSet(threads) /\ IsFiniteSet(cached) /\ IsFiniteSet(transit)
  BY DEF BrokerTypes, WorkTypes
<1>3. /\ IsFiniteSet(YesReplied) /\ IsFiniteSet(YesCached)
      /\ IsFiniteSet(YesSent) /\ IsFiniteSet(YesApplied)
  BY <1>1, <1>2, FS_Subset
<1>4. /\ Cardinality(YesReplied) \in Nat /\ Cardinality(YesCached) \in Nat
      /\ Cardinality(YesSent) \in Nat /\ Cardinality(YesApplied) \in Nat
  BY <1>3, FS_CardinalityType
<1> QED BY <1>3, <1>4 DEF Yeses

(* A set of answers that gains or loses one at most. *)
Steps(S, T, k) ==
  \/ k = 0 /\ T \subseteq S
  \/ k = 1 /\ \E x : T \subseteq S \cup {x}
  \/ k = -1 /\ \E x \in S : T \subseteq S \ {x}

LEMMA StepsCount ==
  ASSUME NEW S, IsFiniteSet(S), NEW T, NEW k, Steps(S, T, k)
  PROVE  Cardinality(T) <= Cardinality(S) + k /\ Cardinality(T) \in Nat /\ k \in {-1, 0, 1}
<1>0. Cardinality(S) \in Nat
  BY FS_CardinalityType
<1>1. CASE k = 0 /\ T \subseteq S
  BY <1>0, <1>1, CountKept, FS_CardinalityType
<1>2. CASE k = 1 /\ \E x : T \subseteq S \cup {x}
  <2>1. PICK x : T \in SUBSET (S \cup {x})
    BY <1>2
  <2> QED BY <1>2, <2>1, CountGrows, FS_CardinalityType
<1>3. CASE k = -1 /\ \E x \in S : T \subseteq S \ {x}
  <2>1. PICK x \in S : T \in SUBSET (S \ {x})
    BY <1>3
  <2>2. IsFiniteSet(T) /\ Cardinality(T) + 1 <= Cardinality(S)
    BY <2>1, CountShrinks
  <2>3. Cardinality(T) \in Nat
    BY <2>2, FS_CardinalityType
  <2> QED BY <1>0, <1>3, <2>2, <2>3
<1> QED BY <1>1, <1>2, <1>3 DEF Steps

LEMMA YesesMove ==
  ASSUME BrokerTypes, WorkTypes, NEW r, NEW c, NEW s, NEW a,
         Steps(YesReplied, YesReplied', r), Steps(YesCached, YesCached', c),
         Steps(YesSent, YesSent', s), Steps(YesApplied, YesApplied', a)
  PROVE  Yeses' \in Nat /\ Yeses' <= Yeses + (r + c + s + a)
<1>1. /\ Cardinality(YesReplied') <= Cardinality(YesReplied) + r /\ Cardinality(YesReplied') \in Nat
      /\ r \in {-1, 0, 1}
  BY YesesFinite, StepsCount
<1>2. /\ Cardinality(YesCached') <= Cardinality(YesCached) + c /\ Cardinality(YesCached') \in Nat
      /\ c \in {-1, 0, 1}
  BY YesesFinite, StepsCount
<1>3. /\ Cardinality(YesSent') <= Cardinality(YesSent) + s /\ Cardinality(YesSent') \in Nat
      /\ s \in {-1, 0, 1}
  BY YesesFinite, StepsCount
<1>4. /\ Cardinality(YesApplied') <= Cardinality(YesApplied) + a /\ Cardinality(YesApplied') \in Nat
      /\ a \in {-1, 0, 1}
  BY YesesFinite, StepsCount
<1> DEFINE r1 == Cardinality(YesReplied)
           c1 == Cardinality(YesCached)
           s1 == Cardinality(YesSent)
           a1 == Cardinality(YesApplied)
           r2 == Cardinality(YesReplied')
           c2 == Cardinality(YesCached')
           s2 == Cardinality(YesSent')
           a2 == Cardinality(YesApplied')
<1>5. r1 \in Nat /\ c1 \in Nat /\ s1 \in Nat /\ a1 \in Nat
  BY YesesFinite
<1>6. Yeses = r1 + c1 + s1 + a1 /\ Yeses' = r2 + c2 + s2 + a2
  BY DEF Yeses
<1>7. r2 <= r1 + r /\ c2 <= c1 + c /\ s2 <= s1 + s /\ a2 <= a1 + a
      /\ r2 \in Nat /\ c2 \in Nat /\ s2 \in Nat /\ a2 \in Nat
  BY <1>1, <1>2, <1>3, <1>4
<1> HIDE DEF r1, c1, s1, a1, r2, c2, s2, a2
<1> QED BY <1>1, <1>2, <1>3, <1>4, <1>5, <1>6, <1>7

LEMMA WorkYeses ==
  ASSUME BrokerTypes, WorkTypes, UNCHANGED brokerVars
  PROVE  Steps(YesCached, YesCached', 0) /\ Steps(YesSent, YesSent', 0)
BY DEF brokerVars, Steps, YesCached, YesSent, Unserved, CachedFor

LEMMA MailYeses ==
  ASSUME UNCHANGED threads
  PROVE  Steps(YesReplied, YesReplied', 0) /\ Steps(YesApplied, YesApplied', 0)
BY DEF Steps, YesReplied, YesApplied

LEMMA ReceiveYeses ==
  ASSUME BrokerTypes, NEW d \in transit, NEW S, Receive(d, S)
  PROVE  /\ Steps(YesCached, YesCached', 0) /\ Steps(YesSent, YesSent', 0)
         /\ d.msg.type = "CAUGHT" /\ d.msg.n = 1 => Steps(YesSent, YesSent', -1)
BY DEF Receive, Steps, YesCached, YesSent, Unserved, CachedFor

LEMMA PublishYeses ==
  ASSUME BrokerTypes, NEW m \in Letters, Published(m)
  PROVE  /\ (m.type # "CAUGHT" \/ m.n # 1) =>
               Steps(YesCached, YesCached', 0) /\ Steps(YesSent, YesSent', 0)
         /\ \/ Steps(YesCached, YesCached', 0) /\ Steps(YesSent, YesSent', 1)
            \/ Steps(YesCached, YesCached', 1) /\ Steps(YesSent, YesSent', 0)
<1> DEFINE a == Stamped(m)
           d == [msg |-> a, times |-> link[m.type].times]
<1>1. a.type = m.type /\ a.n = m.n /\ a.id = lastId + 1 /\ d.msg = a
  BY StampedLetter
<1>2. "CAUGHT" \in Queues /\ m.type \in Queues
  BY DEF Queues, Letters
<1>3. CASE link[m.type].on
  <2>1. /\ cached' = cached \cup {a} /\ transit' = transit \cup {d}
        /\ link'[m.type].served = link[m.type].served \cup {lastId + 1}
        /\ m.type # "CAUGHT" => link'["CAUGHT"].served = link["CAUGHT"].served
    BY <1>2, <1>3 DEF Published
  <2> HIDE DEF a, d
  <2>2. YesCached' \subseteq YesCached
    BY <1>1, <2>1 DEF YesCached, Unserved, CachedFor
  <2>3. YesSent' \subseteq YesSent \cup {d} /\ (m.type # "CAUGHT" \/ m.n # 1 => YesSent' \subseteq YesSent)
    BY <1>1, <2>1 DEF YesSent
  <2> QED BY <2>2, <2>3 DEF Steps
<1>4. CASE ~link[m.type].on
  <2>1. /\ cached' = cached \cup {a} /\ transit' = transit /\ link' = link
    BY <1>4 DEF Published
  <2> HIDE DEF a, d
  <2>2. YesSent' \subseteq YesSent
    BY <2>1 DEF YesSent
  <2>3. YesCached' \subseteq YesCached \cup {a}
        /\ (m.type # "CAUGHT" \/ m.n # 1 => YesCached' \subseteq YesCached)
    BY <1>1, <2>1 DEF YesCached, Unserved, CachedFor
  <2> QED BY <2>2, <2>3 DEF Steps
<1> QED BY <1>3, <1>4

LEMMA SubscribeYeses ==
  ASSUME BrokerTypes, WorkTypes, NEW q \in Queues, Subscribe(q), Without({"twice"})'
  PROVE  Yeses' \in Nat /\ Yeses' <= Yeses
<1> DEFINE n == link[q].times + 1
<1>1. /\ UNCHANGED <<cached, threads>> /\ n \in Nat /\ IsFiniteSet(Unserved(q))
      /\ transit' = transit \cup Sent(Unserved(q), n)
      /\ link'[q].served = {m.id : m \in CachedFor(q)}
      /\ \A r \in Queues \ {q} : link'[r] = link[r]
  BY SubscribeStep DEF Without
<1>2. Steps(YesReplied, YesReplied', 0) /\ Steps(YesApplied, YesApplied', 0)
  BY <1>1, MailYeses
<1>3. CASE q # "CAUGHT"
  <2>1. "CAUGHT" \in Queues \ {q}
    BY <1>3 DEF Queues
  <2>2. YesCached' \subseteq YesCached
    BY <1>1, <2>1 DEF YesCached, Unserved, CachedFor
  <2>3. YesSent' \subseteq YesSent
    BY <1>1, <1>3 DEF YesSent, Sent, Unserved, CachedFor
  <2>4. Steps(YesCached, YesCached', 0) /\ Steps(YesSent, YesSent', 0)
    BY <2>2, <2>3 DEF Steps
  <2>5. Yeses' \in Nat /\ Yeses' <= Yeses + (0 + 0 + 0 + 0)
    BY <1>2, <2>4, YesesMove
  <2> QED BY <2>5, YesesFinite
<1>4. CASE q = "CAUGHT"
  <2> DEFINE more == Sent(YesCached, n)
  <2>1. YesCached' = {}
    BY <1>1, <1>4 DEF YesCached, Unserved, CachedFor
  <2>2. YesSent' \subseteq YesSent \cup more
    BY <1>1, <1>4 DEF YesSent, YesCached, Sent
  <2>3. YesReplied' = YesReplied /\ YesApplied' = YesApplied
    BY <1>1 DEF YesReplied, YesApplied
  <2>4. YesCached \in SUBSET Letters
    BY DEF BrokerTypes, YesCached, Unserved, CachedFor
  <2>5. IsFiniteSet(more) /\ Cardinality(more) <= Cardinality(YesCached)
    BY <1>1, <2>4, YesesFinite, SentFinite
  <2> DEFINE r == Cardinality(YesReplied)
             c == Cardinality(YesCached)
             s == Cardinality(YesSent)
             a == Cardinality(YesApplied)
             s2 == Cardinality(YesSent')
             k == Cardinality(more)
  <2>6. r \in Nat /\ c \in Nat /\ s \in Nat /\ a \in Nat /\ IsFiniteSet(YesSent)
    BY YesesFinite
  <2>7. k \in Nat /\ k <= c
    BY <2>5, FS_CardinalityType
  <2>8. s2 \in Nat /\ s2 <= s + k
    <3> DEFINE both == YesSent \cup more
    <3>1. IsFiniteSet(both) /\ Cardinality(both) = s + k - Cardinality(YesSent \cap more)
      BY <2>5, <2>6, FS_Union
    <3>2. YesSent \cap more \in SUBSET YesSent
      OBVIOUS
    <3>3. Cardinality(YesSent \cap more) \in Nat
      BY <2>6, <3>2, FS_Subset, FS_CardinalityType
    <3>4. YesSent' \in SUBSET both
      BY <2>2
    <3>5. IsFiniteSet(YesSent') /\ s2 <= Cardinality(both)
      BY <3>1, <3>4, FS_Subset
    <3>6. s2 \in Nat
      BY <3>5, FS_CardinalityType
    <3> HIDE DEF both, more, s, k, s2
    <3> QED BY <2>6, <2>7, <3>1, <3>3, <3>5, <3>6
  <2>9. Yeses = r + c + s + a
    BY DEF Yeses
  <2>10. Yeses' = r + 0 + s2 + a
    BY <2>1, <2>3, FS_EmptySet DEF Yeses
  <2> HIDE DEF r, c, s, a, k, s2
  <2> QED BY <2>6, <2>7, <2>8, <2>9, <2>10
<1> QED BY <1>3, <1>4

-----------------------------------------------------------------------------
(* The steps. *)

LEMMA MishapsGrow ==
  ASSUME CatchingNext
  PROVE  mishaps \subseteq mishaps'
<1>1. CASE PlannerSteps
  BY <1>1 DEF PlannerSteps
<1>2. CASE Asking
  BY <1>2 DEF Asking, AskBroker, SendCatch, RegisterCatch, RegisterGarbage, Register, Asked
<1>3. CASE RequestPokemon \/ RegisterGet \/ Restart
  BY <1>3 DEF RequestPokemon, RegisterGet, Restart
<1>4. CASE (\E q \in Queues : Subscribe(q) \/ Cut(q)) \/ Outage
  BY <1>4 DEF Subscribe, Cut, Outage
<1>5. CASE \E i \in DOMAIN stock : Taken(i)
  BY <1>5 DEF Taken
<1>6. CASE \E d \in transit : Arrives(d)
  BY <1>6 DEF Arrives, CardLooks, CardCatches, LocalizedArrives, CaughtArrives
<1>7. CASE \E t \in threads : Processes(t)
  BY <1>7 DEF Processes, CardReplies, LocalizedLock, LocalizedAdd, Refuse, Apply, ExitCaught,
              DropCaught
<1> QED BY <1>1, <1>2, <1>3, <1>4, <1>5, <1>6, <1>7 DEF CatchingNext

LEMMA StartIsNat == HeldAtStart \in Nat
<1> DEFINE f == [t \in Trainers |-> Total(StartHeld[t])]
<1>1. \A t \in Trainers : Total(StartHeld[t]) \in Nat
  BY TotalNat, PlannerAssumption
<1>2. f \in [Trainers -> Nat] /\ IsFiniteSet(Trainers)
  BY <1>1, PlannerAssumption
<1> HIDE DEF f
<1>3. Total(f) \in Nat
  BY <1>2, TotalNat
<1> QED BY <1>3 DEF HeldAtStart, f

LEMMA HandedSame ==
  ASSUME CardTypes, UNCHANGED <<stock, taken>>
  PROVE  AllHandedOut' = AllHandedOut
BY DEF AllHandedOut, HandedOut, Amount

LEMMA AllHandedInt == ASSUME CardTypes PROVE AllHandedOut \in Int
<1> DEFINE f == [s \in Species |-> HandedOut(s)]
<1>1. f \in [Species -> Int] /\ IsFiniteSet(Species)
  BY HandedInt, PlannerAssumption
<1> HIDE DEF f
<1>2. Total(f) \in Int
  BY <1>1, TotalInt
<1> QED BY <1>2 DEF AllHandedOut, f

(* What is added to a bound was handed out, or caught, or was a yes. *)
LEMMA GivenFrom ==
  ASSUME BrokerTypes, WorkTypes, CardTypes,
         NEW b \in Bounds, Accounted(b), NEW c \in Bounds, AllWithin(c)',
         NEW k \in Int, NEW y \in Int, NEW h \in Int, NEW e \in Int,
         Total(c) <= Total(b) + k, Yeses' \in Nat, Yeses' <= Yeses + y,
         AllHandedOut' = AllHandedOut + h, defaults' = defaults + e, k + y <= h + e
  PROVE  GivenInv'
<1>1. Total(b) \in Nat /\ Total(c) \in Nat
  BY TotalNat, PlannerAssumption DEF Bounds
<1>2. Yeses \in Nat /\ AllHandedOut \in Int /\ HeldAtStart \in Nat /\ defaults \in Nat
  BY YesesFinite, AllHandedInt, StartIsNat DEF CardTypes
<1>3. Total(b) + Yeses <= HeldAtStart + AllHandedOut + defaults
  BY DEF Accounted
<1>4. HeldAtStart' = HeldAtStart
  BY DEF HeldAtStart
<1> DEFINE b0 == Total(b)
           c0 == Total(c)
           y0 == Yeses
           y1 == Yeses'
           h0 == AllHandedOut
           h1 == AllHandedOut'
           d0 == defaults
           d1 == defaults'
           s0 == HeldAtStart
<1>5. /\ b0 \in Nat /\ c0 \in Nat /\ y0 \in Nat /\ y1 \in Nat /\ h0 \in Int /\ d0 \in Nat /\ s0 \in Nat
      /\ h1 = h0 + h /\ d1 = d0 + e /\ y1 <= y0 + y /\ c0 <= b0 + k
      /\ b0 + y0 <= s0 + h0 + d0
  BY <1>1, <1>2, <1>3
<1>6. c0 + y1 <= s0 + h1 + d1
  <2> HIDE DEF b0, c0, y0, y1, h0, h1, d0, d1, s0
  <2> QED BY <1>5
<1>7. Accounted(c)'
  BY <1>4, <1>6 DEF Accounted
<1> QED BY <1>7 DEF GivenInv

(* A step that changes no copy, and hands nothing out. *)
LEMMA WithinSame ==
  ASSUME UNCHANGED vars, NEW b, AllWithin(b)
  PROVE  AllWithin(b)'
BY DEF vars, lists, AllWithin, Within

LEMMA GivenSame ==
  ASSUME MailTypes, UNCHANGED cardVars, NEW b \in Bounds, Accounted(b), AllWithin(b)',
         Yeses' \in Nat, Yeses' <= Yeses
  PROVE  GivenInv'
<1>1. AllHandedOut' = AllHandedOut /\ AllHandedOut \in Int /\ defaults' = defaults
      /\ defaults \in Nat /\ Yeses \in Nat /\ Total(b) \in Nat
  BY HandedSame, AllHandedInt, YesesFinite, TotalNat, PlannerAssumption
     DEF MailTypes, CardTypes, cardVars, Bounds
<1>2. /\ AllHandedOut' = AllHandedOut + 0 /\ defaults' = defaults + 0 /\ Yeses' <= Yeses + 0
      /\ Total(b) <= Total(b) + 0 /\ 0 + 0 <= 0 + 0
  BY <1>1
<1> QED BY <1>2, GivenFrom DEF MailTypes

LEMMA PlannerGiven ==
  ASSUME CatchingTypes, PlannerSteps, NEW b \in Bounds, AllWithin(b), Accounted(b)
  PROVE  GivenInv'
<1>0. Sound /\ Closing /\ MailTypes /\ BrokerTypes /\ WorkTypes /\ CardTypes
  BY DEF CatchingTypes, MailTypes
<1>1. UNCHANGED <<brokerVars, stock, leftOpen, taken, threads>>
  BY PlannerMail
<1>2. Yeses' \in Nat /\ Yeses' <= Yeses + 0
  <2>1. Yeses' \in Nat /\ Yeses' <= Yeses + (0 + 0 + 0 + 0)
    BY <1>0, <1>1, WorkYeses, MailYeses, YesesMove
  <2> QED BY <2>1
<1>3. AllHandedOut' = AllHandedOut + 0 /\ defaults \in Nat /\ Total(b) \in Nat
  <2>1. AllHandedOut' = AllHandedOut /\ AllHandedOut \in Int
    BY <1>0, <1>1, HandedSame, AllHandedInt
  <2>2. b \in [Trainers -> Nat] /\ IsFiniteSet(Trainers)
    BY PlannerAssumption DEF Bounds
  <2> QED BY <1>0, <2>1, <2>2, TotalNat DEF CardTypes
<1>4. CASE Catch /\ defaults' = defaults + 1
  <2>1. PICK c \in Bounds : AllWithin(c)' /\ Total(c) = Total(b) + 1
    BY <1>0, <1>4, CatchWithin
  <2>2. Total(c) <= Total(b) + 1 /\ 1 + 0 <= 0 + 1
    BY <1>3, <2>1
  <2> QED BY <1>0, <1>2, <1>3, <1>4, <2>1, <2>2, GivenFrom
<1>5. CASE ((Closer /\ HasChoice) \/ Schedule \/ StartSearch \/ Finish) /\ UNCHANGED defaults
  <2>1. AllWithin(b)'
    <3>1. CASE Closer /\ HasChoice
      BY <1>0, <3>1, CloserWithin
    <3>2. CASE Schedule
      BY <1>0, <3>2, SchedulerWithin
    <3>3. CASE StartSearch \/ Finish
      <4>1. UNCHANGED <<new, ready, blocked, exit, exec>>
        BY <3>3 DEF StartSearch, Finish, TakeAll, lists
      <4> QED BY <4>1 DEF AllWithin, Within
    <3> QED BY <1>5, <3>1, <3>2, <3>3
  <2>2. Total(b) <= Total(b) + 0 /\ defaults' = defaults + 0 /\ 0 + 0 <= 0 + 0
    BY <1>3, <1>5
  <2> QED BY <1>0, <1>2, <1>3, <2>1, <2>2, GivenFrom
<1> QED BY <1>4, <1>5, PlannerMail

LEMMA ArrivesGiven ==
  ASSUME CatchingTypes, NEW d \in transit, Arrives(d), NEW b \in Bounds, AllWithin(b), Accounted(b)
  PROVE  GivenInv'
<1>0. Sound /\ TypeOK /\ MailTypes /\ BrokerTypes /\ WorkTypes /\ CardTypes
  BY DEF CatchingTypes, MailTypes, Sound
<1>1. AllWithin(b)'
  <2>1. UNCHANGED vars
    BY PlanAlone
  <2> QED BY <2>1, WithinSame
<1>2. CASE CardLooks(d)
  <2>1. PICK t \in Workers : t.pc = "reply" /\ t.msg = d.msg /\ d.msg.type = "GET" /\ Receive(d, {t})
    BY <1>0, <1>2, CardLooksStep
  <2>2. UNCHANGED cardVars
    BY <1>0, <1>2, CardLooksStep
  <2>3. Steps(YesReplied, YesReplied', 0) /\ Steps(YesApplied, YesApplied', 0)
    BY <2>1 DEF Receive, Steps, YesReplied, YesApplied
  <2>4. Yeses' \in Nat /\ Yeses' <= Yeses + (0 + 0 + 0 + 0)
    BY <1>0, <2>1, <2>3, ReceiveYeses, YesesMove
  <2>5. Yeses' <= Yeses
    BY <1>0, <2>4, YesesFinite
  <2> QED BY <1>0, <1>1, <2>2, <2>4, <2>5, GivenSame
<1>3. CASE CardCatches(d)
  <2> DEFINE c == LineAt(d.msg.pkm) # {}
             n == d.msg.pkm.name
  <2>1. /\ CardTypes' /\ UNCHANGED <<taken, defaults>>
        /\ \A s : Amount(stock', s) = Amount(stock, s) - One(c /\ n = s)
        /\ c => n \in Species
    BY <1>0, <1>3, CardCatchesStep
  <2>2. PICK t \in Workers : /\ t.pc = "reply" /\ t.msg = d.msg /\ d.msg.type = "CATCH"
                             /\ t.at = (IF c THEN 1 ELSE 0) /\ Receive(d, {t})
    BY <1>0, <1>3, CardCatchesStep
  <2>3. \A s \in Species : HandedOut(s)' = HandedOut(s) + One(c /\ n = s)
    <3> TAKE s \in Species
    <3>1. /\ Amount(StartStock, s) \in Nat /\ Amount(stock, s) \in Nat /\ taken[s] \in Nat
          /\ Amount(stock', s) = Amount(stock, s) - One(c /\ n = s)
      BY <1>0, <2>1, AmountNat, CatchingAssumption DEF CardTypes, Lines
    <3>2. HandedOut(s)' = Amount(StartStock, s) - Amount(stock', s) - taken[s]
      BY <2>1 DEF HandedOut
    <3>3. One(c /\ n = s) \in Int
      BY DEF One
    <3> HIDE DEF c, n
    <3> QED BY <3>1, <3>2, <3>3 DEF HandedOut
  <2>4. Steps(YesReplied, YesReplied', One(c)) /\ Steps(YesApplied, YesApplied', 0)
    <3>1. threads' = threads \cup {t} /\ t.pc = "reply" /\ t.msg.type = "CATCH"
          /\ (t.at = 1 => c)
      BY <2>2 DEF Receive
    <3> HIDE DEF c
    <3>2. YesApplied' \subseteq YesApplied /\ YesReplied' \subseteq YesReplied \cup {t}
          /\ (~c => YesReplied' \subseteq YesReplied)
      BY <3>1 DEF YesReplied, YesApplied
    <3> QED BY <3>2 DEF Steps, One
  <2> HIDE DEF c, n
  <2>5. c \in BOOLEAN /\ One(c) \in Int
    BY DEF c, One
  <2>6. Yeses' \in Nat /\ Yeses' <= Yeses + (One(c) + 0 + 0 + 0)
    BY <1>0, <2>2, <2>4, ReceiveYeses, YesesMove
  <2>7. AllHandedOut' = AllHandedOut + One(c)
    BY <1>0, <2>1, <2>3, <2>5, HandedMore
  <2>8. Total(b) \in Nat /\ defaults \in Nat /\ Yeses \in Nat
    <3>1. b \in [Trainers -> Nat] /\ IsFiniteSet(Trainers)
      BY PlannerAssumption DEF Bounds
    <3> QED BY <1>0, <3>1, TotalNat, YesesFinite DEF CardTypes
  <2>9. /\ Total(b) <= Total(b) + 0 /\ defaults' = defaults + 0 /\ Yeses' <= Yeses + One(c)
        /\ 0 + One(c) <= One(c) + 0
    BY <2>1, <2>5, <2>6, <2>8
  <2> QED BY <1>0, <1>1, <2>5, <2>6, <2>7, <2>9, GivenFrom
<1>4. CASE LocalizedArrives(d)
  <2>1. UNCHANGED cardVars /\ (Receive(d, {}) \/ \E t \in Workers : t.pc = "lock" /\ Receive(d, {t}))
    BY <1>0, <1>4, LocalizedArrivesStep
  <2>2. Steps(YesReplied, YesReplied', 0) /\ Steps(YesApplied, YesApplied', 0)
    BY <2>1 DEF Receive, Steps, YesReplied, YesApplied
  <2>3. Steps(YesCached, YesCached', 0) /\ Steps(YesSent, YesSent', 0)
    BY <1>0, <2>1, ReceiveYeses
  <2>4. Yeses' \in Nat /\ Yeses' <= Yeses + (0 + 0 + 0 + 0)
    BY <1>0, <2>2, <2>3, YesesMove
  <2>5. Yeses' <= Yeses
    BY <1>0, <2>4, YesesFinite
  <2> QED BY <1>0, <1>1, <2>1, <2>4, <2>5, GivenSame
<1>5. CASE CaughtArrives(d)
  <2>0. UNCHANGED cardVars /\ d.msg.type = "CAUGHT"
    BY <1>0, <1>5, CaughtArrivesStep
  <2>1. CASE Receive(d, {})
    <3>1. Steps(YesReplied, YesReplied', 0) /\ Steps(YesApplied, YesApplied', 0)
      BY <2>1 DEF Receive, Steps, YesReplied, YesApplied
    <3>2. Yeses' \in Nat /\ Yeses' <= Yeses + (0 + 0 + 0 + 0)
      BY <1>0, <2>1, <3>1, ReceiveYeses, YesesMove
    <3>3. Yeses' <= Yeses
      BY <1>0, <3>2, YesesFinite
    <3> QED BY <1>0, <1>1, <2>0, <3>2, <3>3, GivenSame
  <2>2. ASSUME NEW t \in Workers, t.pc = (IF d.msg.n = 1 THEN "apply" ELSE "refuse"),
               Receive(d, {t})
        PROVE  GivenInv'
    <3>1. threads' = threads \cup {t} /\ t.pc \in {"apply", "refuse"}
          /\ (d.msg.n # 1 => t.pc = "refuse")
      BY <2>2 DEF Receive
    <3>2. YesReplied' \subseteq YesReplied /\ YesApplied' \subseteq YesApplied \cup {t}
          /\ (d.msg.n # 1 => YesApplied' \subseteq YesApplied)
      BY <3>1 DEF YesReplied, YesApplied
    <3>3. Steps(YesReplied, YesReplied', 0) /\ Steps(YesCached, YesCached', 0)
      BY <1>0, <2>2, <3>2, ReceiveYeses DEF Steps
    <3>4. Yeses' \in Nat /\ Yeses' <= Yeses
      <4>1. CASE d.msg.n = 1
        <5>1. Steps(YesSent, YesSent', -1) /\ Steps(YesApplied, YesApplied', 1)
          BY <1>0, <2>0, <2>2, <3>2, <4>1, ReceiveYeses DEF Steps
        <5>2. Yeses' \in Nat /\ Yeses' <= Yeses + (0 + 0 + (-1) + 1)
          BY <1>0, <3>3, <5>1, YesesMove
        <5> QED BY <1>0, <5>2, YesesFinite
      <4>2. CASE d.msg.n # 1
        <5>1. Steps(YesSent, YesSent', 0) /\ Steps(YesApplied, YesApplied', 0)
          BY <1>0, <2>2, <3>2, <4>2, ReceiveYeses DEF Steps
        <5>2. Yeses' \in Nat /\ Yeses' <= Yeses + (0 + 0 + 0 + 0)
          BY <1>0, <3>3, <5>1, YesesMove
        <5> QED BY <1>0, <5>2, YesesFinite
      <4> QED BY <4>1, <4>2
    <3> QED BY <1>0, <1>1, <2>0, <3>4, GivenSame
  <2> QED BY <1>0, <1>5, <2>1, <2>2, CaughtArrivesStep
<1> QED BY <1>2, <1>3, <1>4, <1>5 DEF Arrives

LEMMA TakenGiven ==
  ASSUME CatchingTypes, NEW i \in DOMAIN stock, Taken(i), NEW b \in Bounds, AllWithin(b),
         Accounted(b)
  PROVE  GivenInv'
<1> DEFINE n == stock[i].pkm.name
<1>0. Sound /\ MailTypes /\ BrokerTypes /\ WorkTypes /\ CardTypes
  BY DEF CatchingTypes, MailTypes
<1>1. /\ CardTypes' /\ UNCHANGED <<vars, brokerVars, defaults, threads>>
      /\ \A s : Amount(stock', s) = Amount(stock, s) - One(n = s)
      /\ \A s \in Species : taken'[s] = taken[s] + One(n = s)
  BY <1>0, TakenStep
<1>2. \A s \in Species : HandedOut(s)' = HandedOut(s) + One(FALSE /\ n = s)
  <2> TAKE s \in Species
  <2>1. /\ Amount(StartStock, s) \in Nat /\ Amount(stock, s) \in Nat /\ taken[s] \in Nat
        /\ Amount(stock', s) = Amount(stock, s) - One(n = s)
        /\ taken'[s] = taken[s] + One(n = s)
    BY <1>0, <1>1, AmountNat, CatchingAssumption DEF CardTypes, Lines
  <2>2. HandedOut(s)' = Amount(StartStock, s) - Amount(stock', s) - taken'[s]
    BY DEF HandedOut
  <2>3. One(n = s) \in Int /\ One(FALSE /\ n = s) = 0
    BY DEF One
  <2> HIDE DEF n
  <2> QED BY <2>1, <2>2, <2>3 DEF HandedOut
<1>3. AllHandedOut' = AllHandedOut + One(FALSE)
  BY <1>0, <1>1, <1>2, HandedMore
<1>4. Yeses' \in Nat /\ Yeses' <= Yeses + (0 + 0 + 0 + 0)
  BY <1>0, <1>1, WorkYeses, MailYeses, YesesMove
<1>5. AllWithin(b)'
  BY <1>1, WithinSame
<1>6. Total(b) \in Nat /\ defaults \in Nat /\ Yeses \in Nat
  <2>1. b \in [Trainers -> Nat] /\ IsFiniteSet(Trainers)
    BY PlannerAssumption DEF Bounds
  <2> QED BY <1>0, <2>1, TotalNat, YesesFinite DEF CardTypes
<1>7. /\ AllHandedOut' = AllHandedOut + 0 /\ Total(b) <= Total(b) + 0
      /\ defaults' = defaults + 0 /\ Yeses' <= Yeses + 0 /\ 0 + 0 <= 0 + 0
  BY <1>1, <1>3, <1>4, <1>6 DEF One
<1> QED BY <1>0, <1>4, <1>5, <1>7, GivenFrom

LEMMA ProcessesGiven ==
  ASSUME CatchingTypes, NEW t \in threads, Processes(t), NEW b \in Bounds, AllWithin(b),
         Accounted(b)
  PROVE  GivenInv'
<1>0. Sound /\ MailTypes /\ BrokerTypes /\ WorkTypes /\ CardTypes /\ t \in Workers
  BY DEF CatchingTypes, MailTypes, WorkTypes
<1>1. CASE CardReplies(t)
  <2>1. /\ UNCHANGED <<vars, cardVars>> /\ t.pc = "reply" /\ Ends(t)
        /\ Reply(t) \in Letters /\ Reply(t).n = t.at
        /\ Reply(t).type = (IF t.msg.type = "GET" THEN "LOCALIZED" ELSE "CAUGHT")
        /\ Published(Reply(t)) \/ UNCHANGED brokerVars
    BY <1>0, <1>1, CardRepliesStep
  <2>2. Steps(YesReplied, YesReplied', 0) /\ Steps(YesApplied, YesApplied', 0)
    BY <2>1 DEF Ends, Steps, YesReplied, YesApplied
  <2>3. t.msg.type # "GET" /\ t.at = 1 => Steps(YesReplied, YesReplied', -1)
    BY <2>1 DEF Ends, Steps, YesReplied
  <2>4. Yeses' \in Nat /\ Yeses' <= Yeses
    <3>1. CASE UNCHANGED brokerVars
      <4>1. Yeses' \in Nat /\ Yeses' <= Yeses + (0 + 0 + 0 + 0)
        BY <1>0, <2>2, <3>1, WorkYeses, YesesMove
      <4> QED BY <1>0, <4>1, YesesFinite
    <3>2. CASE Published(Reply(t)) /\ ~(t.msg.type # "GET" /\ t.at = 1)
      <4>1. Steps(YesCached, YesCached', 0) /\ Steps(YesSent, YesSent', 0)
        BY <1>0, <2>1, <3>2, PublishYeses
      <4>2. Yeses' \in Nat /\ Yeses' <= Yeses + (0 + 0 + 0 + 0)
        BY <1>0, <2>2, <4>1, YesesMove
      <4> QED BY <1>0, <4>2, YesesFinite
    <3>3. CASE Published(Reply(t)) /\ t.msg.type # "GET" /\ t.at = 1
      <4>1. \/ Steps(YesCached, YesCached', 0) /\ Steps(YesSent, YesSent', 1)
            \/ Steps(YesCached, YesCached', 1) /\ Steps(YesSent, YesSent', 0)
        BY <1>0, <2>1, <3>3, PublishYeses
      <4>2. \/ Yeses' \in Nat /\ Yeses' <= Yeses + ((-1) + 0 + 1 + 0)
            \/ Yeses' \in Nat /\ Yeses' <= Yeses + ((-1) + 1 + 0 + 0)
        BY <1>0, <2>2, <2>3, <3>3, <4>1, YesesMove
      <4> QED BY <1>0, <4>2, YesesFinite
    <3> QED BY <2>1, <3>1, <3>2, <3>3
  <2>5. AllWithin(b)'
    BY <2>1, WithinSame
  <2> QED BY <1>0, <2>1, <2>4, <2>5, GivenSame
<1>2. CASE LocalizedLock(t) \/ LocalizedAdd(t)
  <2>1. /\ UNCHANGED <<lists, exec, brokerVars, cardVars>>
        /\ Ends(t) \/ \E u \in Workers : u.pc = "add" /\ threads' = (threads \ {t}) \cup {u}
    BY <1>0, <1>2, LocalizedStep
  <2>2. Steps(YesReplied, YesReplied', 0) /\ Steps(YesApplied, YesApplied', 0)
    BY <2>1 DEF Ends, Steps, YesReplied, YesApplied
  <2>3. Yeses' \in Nat /\ Yeses' <= Yeses + (0 + 0 + 0 + 0)
    BY <1>0, <2>1, <2>2, WorkYeses, YesesMove
  <2>4. Yeses' <= Yeses
    BY <1>0, <2>3, YesesFinite
  <2>5. AllWithin(b)'
    BY <2>1 DEF lists, AllWithin, Within
  <2> QED BY <1>0, <2>1, <2>3, <2>4, <2>5, GivenSame
<1>3. CASE Refuse(t) \/ Apply(t) \/ ExitCaught(t) \/ DropCaught(t)
  <2>1. /\ UNCHANGED <<brokerVars, cardVars>>
        /\ \A u \in threads' : u \in threads \/ u.pc \in {"exit", "drop"}
        /\ t \notin threads' \/ t.pc \in {"exit", "drop"}
    BY <1>0, <1>3, AnswerWork
  <2>2. Steps(YesReplied, YesReplied', 0) /\ Steps(YesApplied, YesApplied', 0)
    BY <2>1 DEF Steps, YesReplied, YesApplied
  <2>3. CASE Refuse(t) \/ ExitCaught(t) \/ DropCaught(t)
    <3>1. Yeses' \in Nat /\ Yeses' <= Yeses + (0 + 0 + 0 + 0)
      BY <1>0, <2>1, <2>2, WorkYeses, YesesMove
    <3>2. Yeses' <= Yeses
      BY <1>0, <3>1, YesesFinite
    <3>3. AllWithin(b)'
      BY <1>0, <2>3, AnswerWithin
    <3> QED BY <1>0, <2>1, <3>1, <3>2, <3>3, GivenSame
  <2>4. CASE Apply(t)
    <3>1. PICK c \in Bounds : AllWithin(c)' /\ Total(c) <= Total(b) + 1
      BY <1>0, <2>4, ApplyWithin
    <3>2. t.pc = "apply" /\ t \notin threads'
      BY <2>1, <2>4 DEF Apply
    <3>3. Steps(YesApplied, YesApplied', -1)
      BY <2>1, <3>2 DEF Steps, YesApplied
    <3>4. Yeses' \in Nat /\ Yeses' <= Yeses + (0 + 0 + 0 + (-1))
      BY <1>0, <2>1, <2>2, <3>3, WorkYeses, YesesMove
    <3>5. /\ AllHandedOut' = AllHandedOut + 0 /\ defaults' = defaults + 0
          /\ Yeses' <= Yeses + (-1) /\ 1 + (-1) <= 0 + 0
      <4>1. AllHandedOut' = AllHandedOut /\ AllHandedOut \in Int /\ defaults' = defaults
            /\ defaults \in Nat /\ Yeses \in Nat
        BY <1>0, <2>1, HandedSame, AllHandedInt, YesesFinite DEF cardVars, CardTypes
      <4> QED BY <3>4, <4>1
    <3> QED BY <1>0, <3>1, <3>4, <3>5, GivenFrom
  <2> QED BY <1>3, <2>3, <2>4
<1> QED BY <1>1, <1>2, <1>3 DEF Processes

LEMMA AsideGiven ==
  ASSUME CatchingTypes, NEW b \in Bounds, AllWithin(b), Accounted(b), Without({"twice"})',
         \/ Asking \/ RequestPokemon \/ RegisterGet \/ Outage \/ Restart
         \/ \E q \in Queues : Subscribe(q) \/ Cut(q)
  PROVE  GivenInv'
<1>0. Sound /\ MailTypes /\ BrokerTypes /\ WorkTypes /\ CardTypes /\ AskTypes
  BY DEF CatchingTypes, MailTypes
<1>1. ASSUME UNCHANGED threads, Steps(YesCached, YesCached', 0), Steps(YesSent, YesSent', 0)
      PROVE  Yeses' \in Nat /\ Yeses' <= Yeses
  <2>1. Yeses' \in Nat /\ Yeses' <= Yeses + (0 + 0 + 0 + 0)
    BY <1>0, <1>1, MailYeses, YesesMove
  <2> QED BY <1>0, <2>1, YesesFinite
<1>2. CASE Asking
  <2>1. AllWithin(b)'
    BY <1>0, <1>2, AskingWithin
  <2>2. CASE SendCatch
    <3>1. UNCHANGED <<cardVars, threads>> /\ \E m \in Letters : m.type = "CATCH" /\ Published(m)
      BY <1>0, <2>2, SendCatchMail
    <3>2. Steps(YesCached, YesCached', 0) /\ Steps(YesSent, YesSent', 0)
      BY <1>0, <3>1, PublishYeses
    <3> QED BY <1>0, <1>1, <2>1, <3>1, <3>2, GivenSame
  <2>3. CASE AskBroker \/ RegisterCatch \/ RegisterGarbage \/ Asked
    <3>1. UNCHANGED <<brokerVars, cardVars, threads>>
      BY <2>3 DEF AskBroker, RegisterCatch, RegisterGarbage, Register, Asked
    <3> QED BY <1>0, <1>1, <2>1, <3>1, WorkYeses, GivenSame
  <2> QED BY <1>2, <2>2, <2>3 DEF Asking
<1>3. CASE RequestPokemon
  <2>1. UNCHANGED <<vars, cardVars, threads>>
        /\ ((\E m \in Letters : m.type = "GET" /\ Published(m)) \/ UNCHANGED brokerVars)
    BY <1>0, <1>3, RequestPokemonStep
  <2>2. Steps(YesCached, YesCached', 0) /\ Steps(YesSent, YesSent', 0)
    BY <1>0, <2>1, PublishYeses, WorkYeses
  <2>3. AllWithin(b)'
    BY <2>1, WithinSame
  <2> QED BY <1>0, <1>1, <2>1, <2>2, <2>3, GivenSame
<1>4. CASE RegisterGet \/ Restart
  <2>1. UNCHANGED <<vars, cardVars, threads, cached, link, transit>>
    BY <1>4 DEF RegisterGet, Restart, brokerVars
  <2>2. Steps(YesCached, YesCached', 0) /\ Steps(YesSent, YesSent', 0)
    BY <2>1 DEF Steps, YesCached, YesSent, Unserved, CachedFor
  <2>3. AllWithin(b)'
    BY <2>1, WithinSame
  <2> QED BY <1>0, <1>1, <2>1, <2>2, <2>3, GivenSame
<1>5. CASE Outage
  <2>1. UNCHANGED <<cardVars, threads, transit>> /\ cached' = {}
    BY <1>0, <1>5, OutageMail
  <2>2. Steps(YesCached, YesCached', 0) /\ Steps(YesSent, YesSent', 0)
    BY <2>1 DEF Steps, YesCached, YesSent, Unserved, CachedFor
  <2>3. AllWithin(b)'
    <3>1. UNCHANGED <<new, ready, blocked, exit, exec>>
      BY <1>5 DEF Outage, lists
    <3> QED BY <3>1 DEF AllWithin, Within
  <2> QED BY <1>0, <1>1, <2>1, <2>2, <2>3, GivenSame
<1>6. ASSUME NEW q \in Queues, Subscribe(q) PROVE GivenInv'
  <2>1. UNCHANGED <<vars, cardVars>>
    BY <1>0, <1>6, SubscribeStep
  <2>2. Yeses' \in Nat /\ Yeses' <= Yeses
    BY <1>0, <1>6, SubscribeYeses
  <2>3. AllWithin(b)'
    BY <2>1, WithinSame
  <2> QED BY <1>0, <2>1, <2>2, <2>3, GivenSame
<1>7. ASSUME NEW q \in Queues, Cut(q) PROVE GivenInv'
  <2>1. UNCHANGED <<vars, cardVars, threads, cached, transit>>
        /\ \A r \in Queues : link'[r].served = link[r].served
    BY <1>0, <1>7, CutStep
  <2>2. Steps(YesCached, YesCached', 0) /\ Steps(YesSent, YesSent', 0)
    BY <2>1 DEF Steps, YesCached, YesSent, Unserved, CachedFor, Queues
  <2>3. AllWithin(b)'
    BY <2>1, WithinSame
  <2> QED BY <1>0, <1>1, <2>1, <2>2, <2>3, GivenSame
<1> QED BY <1>2, <1>3, <1>4, <1>5, <1>6, <1>7

LEMMA GivenStep ==
  ASSUME CatchingTypes, GivenInv, [CatchingNext]_catchingVars
  PROVE  GivenInv'
<1>1. CASE CatchingNext
  <2> SUFFICES ASSUME Without({"twice"})' PROVE GivenInv'
    BY DEF GivenInv
  <2>1. Without({"twice"})
    BY <1>1, MishapsGrow DEF Without
  <2>2. PICK b \in Bounds : AllWithin(b) /\ Accounted(b)
    BY <2>1 DEF GivenInv
  <2>3. CASE PlannerSteps
    BY <2>2, <2>3, PlannerGiven
  <2>4. CASE \E i \in DOMAIN stock : Taken(i)
    BY <2>2, <2>4, TakenGiven
  <2>5. CASE \E d \in transit : Arrives(d)
    BY <2>2, <2>5, ArrivesGiven
  <2>6. CASE \E t \in threads : Processes(t)
    BY <2>2, <2>6, ProcessesGiven
  <2> QED BY <1>1, <2>2, <2>3, <2>4, <2>5, <2>6, AsideGiven DEF CatchingNext
<1>2. CASE UNCHANGED catchingVars
  <2>1. UNCHANGED <<vars, cached, link, transit, stock, taken, defaults, threads, mishaps>>
    BY <1>2 DEF catchingVars, brokerVars, cardVars
  <2>2. YesReplied' = YesReplied /\ YesCached' = YesCached /\ YesSent' = YesSent
        /\ YesApplied' = YesApplied
    BY <2>1 DEF YesReplied, YesCached, YesSent, YesApplied, Unserved, CachedFor
  <2>3. Yeses' = Yeses
    BY <2>2 DEF Yeses
  <2>4. AllHandedOut' = AllHandedOut /\ HeldAtStart' = HeldAtStart
    BY <2>1, HandedSame DEF CatchingTypes, MailTypes, HeldAtStart
  <2>5. \A b \in Bounds : (AllWithin(b) => AllWithin(b)') /\ (Accounted(b) => Accounted(b)')
    BY <2>1, <2>3, <2>4, WithinSame DEF Accounted
  <2> QED BY <2>1, <2>5 DEF GivenInv, Without
<1> QED BY <1>1, <1>2

LEMMA InitGiven == CatchingInit => GivenInv
<1> SUFFICES ASSUME CatchingInit PROVE GivenInv
  OBVIOUS
<1> DEFINE b == [t \in Trainers |-> Total(StartHeld[t])]
<1>1. CatchingTypes /\ BrokerTypes /\ WorkTypes /\ CardTypes
  BY InitCatching DEF CatchingTypes, MailTypes
<1>2. b \in Bounds /\ HeldAtStart = Total(b)
  <2>1. \A t \in Trainers : Total(StartHeld[t]) \in Nat
    BY TotalNat, PlannerAssumption
  <2> QED BY <2>1 DEF Bounds, HeldAtStart
<1>3. AllWithin(b)
  <2>1. /\ new = [i \in 1 .. trainersCount |-> NewTrainer(i - 1)]
        /\ ready = <<>> /\ blocked = <<>> /\ exit = <<>> /\ exec.trainer = NewTrainer(0)
    BY DEF CatchingInit, Init
  <2>2. Trainers = 0 .. trainersCount - 1 /\ trainersCount \in Nat \ {0}
    BY Teams
  <2>3. \A t \in Trainers : NewTrainer(t).id = t /\ NewTrainer(t).held = StartHeld[t]
                            /\ Total(StartHeld[t]) \in Nat
    BY TotalNat, PlannerAssumption DEF NewTrainer
  <2>4. \A t \in Trainers : Total(NewTrainer(t).held) <= b[NewTrainer(t).id]
    BY <2>3
  <2>5. 0 \in Trainers /\ \A i \in 1 .. trainersCount : i - 1 \in Trainers
    BY <2>2
  <2>6. \A t \in Trainers : Total(StartHeld[t]) <= b[t]
    BY <2>3
  <2> HIDE DEF b
  <2>7. Within(new, b)
    <3> SUFFICES ASSUME NEW i \in DOMAIN new PROVE Total(new[i].held) <= b[new[i].id]
      BY DEF Within
    <3>1. i - 1 \in Trainers /\ new[i] = NewTrainer(i - 1)
      BY <2>1, <2>5
    <3> QED BY <2>4, <3>1
  <2>8. Within(ready, b) /\ Within(blocked, b) /\ Within(exit, b)
    BY <2>1 DEF Within
  <2>9. Total(exec.trainer.held) <= b[exec.trainer.id]
    BY <2>1, <2>4, <2>5
  <2> QED BY <2>6, <2>7, <2>8, <2>9 DEF AllWithin
<1>4. Yeses = 0
  <2>1. threads = {} /\ cached = {} /\ transit = {}
    BY DEF CatchingInit
  <2>2. YesReplied = {} /\ YesCached = {} /\ YesSent = {} /\ YesApplied = {}
    BY <2>1 DEF YesReplied, YesCached, YesSent, YesApplied, Unserved, CachedFor
  <2>3. Cardinality({}) = 0
    BY FS_EmptySet
  <2> QED BY <2>2, <2>3 DEF Yeses
<1>5. AllHandedOut = 0
  <2> DEFINE f == [s \in Species |-> HandedOut(s)]
  <2>1. stock = StartStock /\ taken = [s \in Species |-> 0]
    BY DEF CatchingInit
  <2>2. \A s \in Species : HandedOut(s) = 0
    <3> TAKE s \in Species
    <3>1. Amount(StartStock, s) \in Nat
      BY AmountNat, CatchingAssumption DEF Lines
    <3>2. HandedOut(s) = Amount(StartStock, s) - Amount(StartStock, s) - 0
      BY <2>1 DEF HandedOut
    <3> QED BY <3>1, <3>2
  <2>3. f \in [Species -> {0}] /\ IsFiniteSet(Species)
    BY <2>2, PlannerAssumption
  <2>4. AllHandedOut = Total(f)
    BY DEF AllHandedOut
  <2> HIDE DEF f
  <2>5. Total(f) = 0
    BY <2>3, TotalConstant
  <2> QED BY <2>4, <2>5
<1>6. Accounted(b)
  <2>1. defaults = 0 /\ HeldAtStart \in Nat
    BY StartIsNat DEF CatchingInit
  <2> HIDE DEF b
  <2> QED BY <1>2, <1>4, <1>5, <2>1 DEF Accounted
<1> QED BY <1>2, <1>3, <1>6 DEF GivenInv

(* Each trainer holds at most what its bound says, so all together hold no *)
(* more than the bounds add up to.                                         *)
LEMMA GivenMeansNothing ==
  ASSUME CatchingTypes, GivenInv
  PROVE  NothingFromNothing
<1> DEFINE all == AllTrainers \cup {exec.trainer} \cup {NewTrainer(t) : t \in Trainers}
           Counts(t) == {Total(u.held) : u \in {u \in all : u.id = t}}
           f == [t \in Trainers |-> Max(Counts(t))]
<1> SUFFICES ASSUME Without({"twice"})
             PROVE  Total(f) <= HeldAtStart + AllHandedOut + defaults
  BY DEF NothingFromNothing
<1>0. PlanTyped /\ BrokerTypes /\ WorkTypes /\ CardTypes
  BY PlanIsTyped DEF CatchingTypes, MailTypes
<1>1. PICK b \in Bounds : AllWithin(b) /\ Accounted(b)
  BY DEF GivenInv
<1>2. \A u \in all : Total(u.held) \in Nat /\ Total(u.held) <= b[u.id] /\ u.id \in Trainers
  <2>1. \A u \in AllTrainers : u \in TrainerRecords /\ Total(u.held) <= b[u.id]
    BY <1>0, <1>1 DEF PlanTyped, AllTrainers, AllWithin, Within
  <2>2. exec.trainer \in TrainerRecords /\ Total(exec.trainer.held) <= b[exec.trainer.id]
    BY <1>0, <1>1 DEF PlanTyped, AllWithin
  <2>3. \A t \in Trainers : NewTrainer(t).id = t /\ NewTrainer(t).held = StartHeld[t]
                            /\ Total(StartHeld[t]) \in Nat /\ Total(StartHeld[t]) <= b[t]
    BY <1>1, TotalNat, PlannerAssumption DEF NewTrainer, AllWithin
  <2>4. \A u \in {NewTrainer(t) : t \in Trainers} : Total(u.held) \in Nat
            /\ Total(u.held) <= b[u.id] /\ u.id \in Trainers
    BY <2>3
  <2> QED BY <2>1, <2>2, <2>4, HeldNat
<1>3. \A t \in Trainers : f[t] \in Nat /\ f[t] <= b[t]
  <2> TAKE t \in Trainers
  <2>1. Counts(t) \in SUBSET Nat /\ \A n \in Counts(t) : n <= b[t]
    BY <1>2
  <2>2. Counts(t) # {}
    <3>1. NewTrainer(t) \in all /\ NewTrainer(t).id = t
      BY DEF NewTrainer
    <3> HIDE DEF all
    <3> QED BY <3>1
  <2>3. b[t] \in Nat
    BY DEF Bounds
  <2> DEFINE S == Counts(t)
  <2>4. f[t] = Max(S)
    OBVIOUS
  <2> HIDE DEF Counts, f
  <2>5. S \in SUBSET Nat /\ S # {} /\ \A n \in S : n <= b[t]
    BY <2>1, <2>2
  <2> HIDE DEF S
  <2>6. Max(S) \in S
    BY <2>3, <2>5, MaxOfBounded
  <2> QED BY <2>4, <2>5, <2>6
<1>4. IsFiniteSet(Trainers) /\ f \in [Trainers -> Int] /\ b \in [Trainers -> Int]
      /\ f \in [Trainers -> Nat] /\ b \in [Trainers -> Nat]
  <2>1. \A t \in Trainers : Max(Counts(t)) \in Nat
    BY <1>3
  <2> HIDE DEF Counts
  <2> QED BY <2>1, PlannerAssumption DEF Bounds
<1> HIDE DEF f
<1>5. Total(f) <= Total(b) /\ Total(f) \in Nat /\ Total(b) \in Nat
  BY <1>3, <1>4, TotalBelow, TotalNat
<1>6. Yeses \in Nat /\ HeldAtStart \in Nat /\ AllHandedOut \in Int /\ defaults \in Nat
  BY <1>0, YesesFinite, StartIsNat, AllHandedInt DEF CardTypes
<1> QED BY <1>1, <1>5, <1>6 DEF Accounted

(* What the trainers hold beyond their own start was handed out by         *)
(* GameCard or caught without a broker, through outages, lost answers and  *)
(* positions that moved, unless an answer was delivered twice.             *)
THEOREM HeldWasGiven == CatchingSpec => []NothingFromNothing
<1> DEFINE Inv == CatchingTypes /\ GivenInv
<1>1. CatchingInit => Inv
  BY InitCatching, InitGiven
<1>2. Inv /\ [CatchingNext]_catchingVars => Inv'
  BY CatchingTypesStep, GivenStep
<1>3. Inv => NothingFromNothing
  BY GivenMeansNothing
<1> QED BY <1>1, <1>2, <1>3, PTL DEF CatchingSpec

-----------------------------------------------------------------------------
(* Who an answer belongs to.  A request is on its way from the moment the  *)
(* broker has it until its answer is applied: as a message that is cached  *)
(* for a subscription to come, delivered, or given to a thread.  Only      *)
(* those of which the answer can still be yes matter.                      *)

Bears(m) == m.type = "CATCH" \/ (m.type = "CAUGHT" /\ m.n = 1)
Bearing(t) == t.pc = "apply" \/ (t.pc = "reply" /\ t.msg.type # "GET" /\ t.at = 1)
LetterKey(m) == IF m.type = "CATCH" THEN m.id ELSE m.cid
ThreadKey(t) == IF t.pc = "reply" THEN t.msg.id ELSE t.msg.cid

Token(place, what, key, pkm) == [place |-> place, what |-> what, key |-> key, pkm |-> pkm]
LetterToken(m) == Token("cached", m, LetterKey(m), m.pkm)
SentToken(d) == Token("sent", d, LetterKey(d.msg), d.msg.pkm)
ThreadToken(t) == Token("thread", t, ThreadKey(t), t.pkm)

CachedAsks == {m \in cached : Bears(m) /\ m.id \notin link[m.type].served}
SentAsks == {d \in transit : Bears(d.msg)}
ThreadAsks == {t \in threads : Bearing(t)}
Pending == {LetterToken(m) : m \in CachedAsks} \cup {SentToken(d) : d \in SentAsks}
             \cup {ThreadToken(t) : t \in ThreadAsks}

(* The trainer that asked under an id, registered or about to be.          *)
AskedBy(k, a) ==
  \/ \E i \in DOMAIN catchList : catchList[i].id = k /\ catchList[i].trainer = a
  \/ runner.pc = "ack" /\ ids.runner = k /\ exec.trainer.id = a

WaitsIn(list, a, p) ==
  \E i \in DOMAIN list : list[i].id = a /\ list[i].state = "WAITING" /\ list[i].target = p

(* Requests that are answered, moved or lost, and none that is new: each   *)
(* is one that was there, and no two are the same one.                     *)
Follows(S, T) ==
  \E g \in [T -> S] : /\ \A x \in T : g[x].key = x.key /\ g[x].pkm = x.pkm
                      /\ \A x, y \in T : g[x] = g[y] => x = y

LEMMA FollowsLess == ASSUME NEW S, NEW T \in SUBSET S PROVE Follows(S, T)
<1> DEFINE g == [x \in T |-> x]
<1>1. g \in [T -> S] /\ \A x \in T : g[x] = x
  OBVIOUS
<1> HIDE DEF g
<1> QED BY <1>1 DEF Follows

LEMMA FollowsMove ==
  ASSUME NEW S, NEW x \in S, NEW y, y.key = x.key, y.pkm = x.pkm,
         NEW T \in SUBSET ((S \ {x}) \cup {y})
  PROVE  Follows(S, T)
<1> DEFINE g == [z \in T |-> IF z = y THEN x ELSE z]
<1>1. g \in [T -> S] /\ \A z \in T : g[z] = IF z = y THEN x ELSE z
  OBVIOUS
<1>2. \A z \in T : z = y \/ z \in S \ {x}
  OBVIOUS
<1> HIDE DEF g
<1>3. \A z \in T : g[z].key = z.key /\ g[z].pkm = z.pkm
  BY <1>1
<1>4. \A z, w \in T : g[z] = g[w] => z = w
  BY <1>1, <1>2
<1> QED BY <1>1, <1>3, <1>4 DEF Follows

LEMMA TokensAre ==
  /\ \A m : /\ LetterToken(m).place = "cached" /\ LetterToken(m).what = m
            /\ LetterToken(m).key = LetterKey(m) /\ LetterToken(m).pkm = m.pkm
  /\ \A d : /\ SentToken(d).place = "sent" /\ SentToken(d).what = d
            /\ SentToken(d).key = LetterKey(d.msg) /\ SentToken(d).pkm = d.msg.pkm
  /\ \A t : /\ ThreadToken(t).place = "thread" /\ ThreadToken(t).what = t
            /\ ThreadToken(t).key = ThreadKey(t) /\ ThreadToken(t).pkm = t.pkm
BY DEF LetterToken, SentToken, ThreadToken, Token

LEMMA PendingIs ==
  ASSUME NEW x
  PROVE  x \in Pending <=> \/ \E m \in CachedAsks : x = LetterToken(m)
                           \/ \E d \in SentAsks : x = SentToken(d)
                           \/ \E t \in ThreadAsks : x = ThreadToken(t)
BY DEF Pending

(* Where the requests are: what the steps do to Pending. *)
LEMMA PendingKept ==
  ASSUME UNCHANGED brokerVars, ThreadAsks' \subseteq ThreadAsks
  PROVE  Pending' \subseteq Pending
BY DEF Pending, brokerVars, CachedAsks, SentAsks

LEMMA ReceivePending ==
  ASSUME NEW d \in transit, NEW S, Receive(d, S), \A t \in S : ~Bearing(t)
  PROVE  Pending' \subseteq Pending
BY DEF Receive, Pending, CachedAsks, SentAsks, ThreadAsks

LEMMA ReceiveMoves ==
  ASSUME NEW d \in transit, NEW t, Receive(d, {t}), Bears(d.msg),
         ThreadKey(t) = LetterKey(d.msg), t.pkm = d.msg.pkm
  PROVE  Follows(Pending, Pending')
<1> DEFINE x == SentToken(d)
           y == ThreadToken(t)
<1>1. x \in Pending /\ y.key = x.key /\ y.pkm = x.pkm
  BY TokensAre DEF Pending, SentAsks
<1>2. ASSUME NEW z \in Pending' PROVE z \in (Pending \ {x}) \cup {y}
  <2>1. CASE \E m \in CachedAsks' : z = LetterToken(m)
    <3>0. CachedAsks' = CachedAsks
      BY DEF Receive, CachedAsks
    <3>1. z \in Pending /\ z.place = "cached"
      BY <2>1, <3>0, TokensAre DEF Pending
    <3> QED BY <3>1, TokensAre
  <2>2. CASE \E e \in SentAsks' : z = SentToken(e)
    <3>1. SentAsks' \subseteq SentAsks \ {d}
      BY DEF Receive, SentAsks
    <3>2. \A e : SentToken(e).what = e
      BY TokensAre
    <3>3. z \in Pending /\ z.what # d
      BY <2>2, <3>1, <3>2 DEF Pending
    <3> QED BY <3>2, <3>3
  <2>3. CASE \E u \in ThreadAsks' : z = ThreadToken(u)
    <3>1. ThreadAsks' \subseteq ThreadAsks \cup {t}
      BY DEF Receive, ThreadAsks
    <3>2. z = y \/ (z \in Pending /\ z.place = "thread")
      BY <2>3, <3>1, TokensAre DEF Pending
    <3> QED BY <3>2, TokensAre
  <2> QED BY <1>2, <2>1, <2>2, <2>3 DEF Pending
<1> HIDE DEF x, y
<1> QED BY <1>1, <1>2, FollowsMove

(* What is published bears a request or not, and threads may end. *)
LEMMA PublishPending ==
  ASSUME BrokerTypes, NEW m \in Letters, Published(m), threads' \subseteq threads
  PROVE  \E y : /\ y.key = LetterKey(Stamped(m)) /\ y.pkm = m.pkm
                /\ \A z \in Pending' : \/ z \in Pending /\ (z.place = "thread" => z.what \in threads')
                                       \/ z = y /\ Bears(m)
<1> DEFINE a == Stamped(m)
           d == [msg |-> a, times |-> link[m.type].times]
           v == LetterToken(a)
           w == SentToken(d)
<1>1. a.type = m.type /\ a.n = m.n /\ a.pkm = m.pkm /\ d.msg = a /\ a.id = lastId + 1
  BY StampedLetter
<1>2. /\ v.place = "cached" /\ v.key = LetterKey(a) /\ v.pkm = m.pkm
      /\ w.place = "sent" /\ w.key = LetterKey(a) /\ w.pkm = m.pkm
  BY <1>1, TokensAre
<1>3. \A z \in {ThreadToken(t) : t \in ThreadAsks'} :
        z \in Pending /\ (z.place = "thread" => z.what \in threads')
  <2>1. ASSUME NEW t \in ThreadAsks'
        PROVE  ThreadToken(t) \in Pending /\ t \in threads'
    <3>1. t \in ThreadAsks /\ t \in threads'
      BY DEF ThreadAsks
    <3> QED BY <3>1 DEF Pending
  <2>2. \A t : ThreadToken(t).what = t
    BY TokensAre
  <2> QED BY <2>1, <2>2
<1>4. Bears(a) <=> Bears(m)
  BY <1>1 DEF Bears
<1>5. m.type \in Queues /\ \A c \in cached : c.type \in Queues
  BY DEF Letters, BrokerTypes
<1>6. CASE link[m.type].on
  <2>1. /\ cached' = cached \cup {a} /\ transit' = transit \cup {d}
        /\ link'[m.type].served = link[m.type].served \cup {lastId + 1}
        /\ \A q \in Queues : q # m.type => link'[q].served = link[q].served
    BY <1>6 DEF Published
  <2> HIDE DEF a, d
  <2>2. CachedAsks' \subseteq CachedAsks
    BY <1>1, <1>5, <2>1 DEF CachedAsks
  <2>3. \A e \in SentAsks' : e \in SentAsks \/ (e = d /\ Bears(m))
    BY <1>1, <1>4, <2>1 DEF SentAsks
  <2>4. \A z \in {LetterToken(c) : c \in CachedAsks'} : z \in Pending /\ z.place = "cached"
    <3>1. \A c \in CachedAsks : LetterToken(c) \in Pending /\ LetterToken(c).place = "cached"
      BY TokensAre DEF Pending
    <3> QED BY <2>2, <3>1
  <2>5. \A z \in {SentToken(e) : e \in SentAsks'} : (z \in Pending /\ z.place = "sent") \/ (z = w /\ Bears(m))
    <3>1. \A e \in SentAsks : SentToken(e) \in Pending /\ SentToken(e).place = "sent"
      BY TokensAre DEF Pending
    <3> QED BY <2>3, <3>1
  <2>6. \A z \in Pending' : \/ z \in Pending /\ (z.place = "thread" => z.what \in threads')
                            \/ z = w /\ Bears(m)
    BY <1>3, <2>4, <2>5 DEF Pending
  <2> HIDE DEF w
  <2> QED BY <1>2, <2>6 DEF a
<1>7. CASE ~link[m.type].on
  <2>1. cached' = cached \cup {a} /\ transit' = transit /\ link' = link
    BY <1>7 DEF Published
  <2> HIDE DEF a, d
  <2>2. \A c \in CachedAsks' : c \in CachedAsks \/ (c = a /\ Bears(m))
    BY <1>4, <2>1 DEF CachedAsks
  <2>4. \A z \in {LetterToken(c) : c \in CachedAsks'} : (z \in Pending /\ z.place = "cached") \/ (z = v /\ Bears(m))
    <3>1. \A c \in CachedAsks : LetterToken(c) \in Pending /\ LetterToken(c).place = "cached"
      BY TokensAre DEF Pending
    <3> QED BY <2>2, <3>1
  <2>5. \A z \in {SentToken(e) : e \in SentAsks'} : z \in Pending /\ z.place = "sent"
    <3>1. \A e \in SentAsks : SentToken(e) \in Pending /\ SentToken(e).place = "sent"
      BY TokensAre DEF Pending
    <3>2. SentAsks' = SentAsks
      BY <2>1 DEF SentAsks
    <3> QED BY <3>1, <3>2
  <2>6. \A z \in Pending' : \/ z \in Pending /\ (z.place = "thread" => z.what \in threads')
                            \/ z = v /\ Bears(m)
    BY <1>3, <2>4, <2>5 DEF Pending
  <2> HIDE DEF v
  <2> QED BY <1>2, <2>6 DEF a
<1> QED BY <1>6, <1>7

LEMMA SubscribePending ==
  ASSUME BrokerTypes, NEW q \in Queues, Subscribe(q), Without({"twice"})'
  PROVE  Follows(Pending, Pending')
<1> DEFINE n == link[q].times + 1
           g == [z \in Pending' |-> IF z \in Pending THEN z ELSE LetterToken(z.what.msg)]
<1>1. /\ UNCHANGED <<cached, threads>>
      /\ transit' = transit \cup Sent(Unserved(q), n)
      /\ link'[q].served = {m.id : m \in CachedFor(q)}
      /\ \A r \in Queues \ {q} : link'[r] = link[r]
  BY SubscribeStep DEF Without
<1> HIDE DEF n
<1>2. \A m \in cached : m.type \in Queues
  BY DEF BrokerTypes, Letters
<1>3. \A m \in CachedAsks' : m \in CachedAsks /\ m.type # q
  BY <1>1, <1>2 DEF CachedAsks, CachedFor
<1>4. ASSUME NEW z \in Pending'
      PROVE  \/ z \in Pending /\ ~ \E m \in CachedAsks : m.type = q /\ z = LetterToken(m)
             \/ \E m \in CachedAsks : /\ m.type = q /\ z.what = [msg |-> m, times |-> n]
                                      /\ z.key = LetterKey(m) /\ z.pkm = m.pkm /\ z.place = "sent"
  <2>1. CASE \E m \in CachedAsks' : z = LetterToken(m)
    <3>1. PICK m \in CachedAsks' : z = LetterToken(m)
      BY <2>1
    <3>2. z \in Pending /\ z.what = m /\ m.type # q
      BY <1>3, <3>1, TokensAre DEF Pending
    <3> QED BY <3>2, TokensAre
  <2>2. CASE \E d \in SentAsks' : z = SentToken(d)
    <3>1. PICK d \in SentAsks' : z = SentToken(d)
      BY <2>2
    <3>2. z.place = "sent" /\ z.what = d /\ z.key = LetterKey(d.msg) /\ z.pkm = d.msg.pkm
      BY <3>1, TokensAre
    <3>3. CASE d \in transit
      <4>1. z \in Pending
        BY <3>1, <3>3 DEF Pending, SentAsks
      <4> QED BY <3>2, <4>1, TokensAre
    <3>4. CASE d \notin transit
      <4>1. PICK m \in Unserved(q) : d = [msg |-> m, times |-> n]
        BY <1>1, <3>1, <3>4 DEF SentAsks, Sent
      <4>2. m \in CachedAsks /\ m.type = q
        BY <3>1, <4>1 DEF SentAsks, CachedAsks, Unserved, CachedFor
      <4> QED BY <3>2, <4>1, <4>2
    <3> QED BY <3>3, <3>4
  <2>3. CASE \E t \in ThreadAsks' : z = ThreadToken(t)
    <3>1. z \in Pending /\ z.place = "thread"
      BY <1>1, <2>3, TokensAre DEF Pending, ThreadAsks
    <3> QED BY <3>1, TokensAre
  <2> QED BY <1>4, <2>1, <2>2, <2>3 DEF Pending
<1>5. ASSUME NEW z \in Pending', z \in Pending
      PROVE  g[z] = z /\ ~ \E m \in CachedAsks : m.type = q /\ z = LetterToken(m)
  <2>1. g[z] = z
    BY <1>5
  <2>2. ASSUME NEW m \in CachedAsks, z.what = [msg |-> m, times |-> n], z.place = "sent"
        PROVE  ~ \E l \in CachedAsks : l.type = q /\ z = LetterToken(l)
    BY <2>2, TokensAre
  <2> HIDE DEF g
  <2> QED BY <1>4, <1>5, <2>1, <2>2
<1>6. ASSUME NEW z \in Pending', z \notin Pending
      PROVE  \E m \in CachedAsks : /\ m.type = q /\ g[z] = LetterToken(m)
                                   /\ z.what = [msg |-> m, times |-> n]
                                   /\ z.key = LetterKey(m) /\ z.pkm = m.pkm
  <2>1. PICK m \in CachedAsks : /\ m.type = q /\ z.what = [msg |-> m, times |-> n]
                                /\ z.key = LetterKey(m) /\ z.pkm = m.pkm /\ z.place = "sent"
    BY <1>4, <1>6
  <2>2. z.what.msg = m
    BY <2>1
  <2>3. g[z] = LetterToken(m)
    BY <1>6, <2>2
  <2> HIDE DEF g
  <2> QED BY <2>1, <2>3
<1>7. DOMAIN g = Pending' /\ g = [z \in Pending' |-> g[z]]
  OBVIOUS
<1> HIDE DEF g
<1>8. ASSUME NEW z \in Pending'
      PROVE  g[z] \in Pending /\ g[z].key = z.key /\ g[z].pkm = z.pkm
  <2>1. CASE z \in Pending
    BY <1>5, <2>1
  <2>2. CASE z \notin Pending
    <3>1. PICK m \in CachedAsks : /\ g[z] = LetterToken(m)
                                  /\ z.key = LetterKey(m) /\ z.pkm = m.pkm
      BY <1>6, <2>2
    <3>2. LetterToken(m) \in Pending
      BY DEF Pending
    <3> QED BY <3>1, <3>2, TokensAre
  <2> QED BY <2>1, <2>2
<1>9. g \in [Pending' -> Pending]
  BY <1>7, <1>8
<1>10. ASSUME NEW z \in Pending', NEW w \in Pending', g[z] = g[w] PROVE z = w
  <2>1. CASE z \in Pending /\ w \in Pending
    BY <1>5, <1>10, <2>1
  <2>2. CASE z \notin Pending /\ w \notin Pending
    <3>1. PICK m \in CachedAsks : g[z] = LetterToken(m) /\ z.what = [msg |-> m, times |-> n]
      BY <1>6, <2>2
    <3>2. PICK l \in CachedAsks : g[w] = LetterToken(l) /\ w.what = [msg |-> l, times |-> n]
      BY <1>6, <2>2
    <3>3. m = l
      <4>1. LetterToken(m).what = m /\ LetterToken(l).what = l
        BY TokensAre
      <4> QED BY <1>10, <3>1, <3>2, <4>1
    <3>4. z.what = w.what
      BY <3>1, <3>2, <3>3
    <3>5. z \in {SentToken(d) : d \in SentAsks'} /\ w \in {SentToken(d) : d \in SentAsks'}
      BY <1>1, <1>3, <2>2 DEF Pending, ThreadAsks
    <3>6. PICK d \in SentAsks', e \in SentAsks' : z = SentToken(d) /\ w = SentToken(e)
      BY <3>5
    <3>7. d = e
      <4>1. SentToken(d).what = d /\ SentToken(e).what = e
        BY TokensAre
      <4>2. z.what = d /\ w.what = e
        BY <3>6, <4>1
      <4> QED BY <3>4, <4>2
    <3> QED BY <3>6, <3>7
  <2>3. ASSUME NEW u \in Pending', u \in Pending, NEW v \in Pending', v \notin Pending
        PROVE  g[u] # g[v]
    <3>1. \E m \in CachedAsks : m.type = q /\ g[v] = LetterToken(m)
      BY <1>6, <2>3
    <3> QED BY <1>5, <2>3, <3>1
  <2> QED BY <1>10, <2>1, <2>2, <2>3
<1> QED BY <1>8, <1>9, <1>10 DEF Follows

LEMMA CutPending ==
  ASSUME BrokerTypes, NEW q \in Queues, Cut(q)
  PROVE  Pending' \subseteq Pending
<1>1. /\ UNCHANGED <<cached, transit, threads>>
      /\ \A r \in Queues : link'[r].served = link[r].served
  BY CutStep
<1>2. \A m \in cached : m.type \in Queues
  BY DEF BrokerTypes, Letters
<1>3. CachedAsks' = CachedAsks /\ SentAsks' = SentAsks /\ ThreadAsks' = ThreadAsks
  BY <1>1, <1>2 DEF CachedAsks, SentAsks, ThreadAsks
<1> QED BY <1>3 DEF Pending

LEMMA RepliesPending ==
  ASSUME BrokerTypes, WorkTypes, NEW t \in threads, CardReplies(t)
  PROVE  Follows(Pending, Pending')
<1> DEFINE m == Reply(t)
           x == ThreadToken(t)
<1>1. /\ Ends(t) /\ t.pc = "reply" /\ m \in Letters /\ m.cid = t.msg.id /\ m.pkm = t.pkm /\ m.n = t.at
      /\ m.type = (IF t.msg.type = "GET" THEN "LOCALIZED" ELSE "CAUGHT")
      /\ Published(m) \/ (~up /\ UNCHANGED brokerVars)
  BY CardRepliesStep
<1>2. Bears(m) => Bearing(t)
  BY <1>1 DEF Bears, Bearing
<1>3. Stamped(m).cid = m.cid /\ Stamped(m).type = m.type
  BY <1>1, StampedLetter
<1> HIDE DEF m
<1>4. threads' \subseteq threads /\ t \notin threads'
  BY <1>1 DEF Ends
<1>5. CASE UNCHANGED brokerVars
  <2>1. Pending' \in SUBSET Pending
    BY <1>4, <1>5, PendingKept DEF ThreadAsks
  <2> QED BY <2>1, FollowsLess
<1>6. CASE Published(m)
  <2>1. PICK y : /\ y.key = LetterKey(Stamped(m)) /\ y.pkm = m.pkm
                 /\ \A z \in Pending' : \/ z \in Pending /\ (z.place = "thread" => z.what \in threads')
                                        \/ z = y /\ Bears(m)
    BY <1>1, <1>4, <1>6, PublishPending
  <2>2. CASE ~Bears(m)
    <3>1. Pending' \in SUBSET Pending
      BY <2>1, <2>2
    <3> QED BY <3>1, FollowsLess
  <2>3. CASE Bears(m)
    <3>1. x \in Pending /\ x.place = "thread" /\ x.what = t /\ x.key = t.msg.id /\ x.pkm = t.pkm
      BY <1>1, <1>2, <2>3, TokensAre DEF Pending, ThreadAsks, ThreadKey
    <3>2. y.key = x.key /\ y.pkm = x.pkm
      <4>1. m.type # "CATCH"
        BY <1>1
      <4> QED BY <1>1, <1>3, <2>1, <3>1, <4>1 DEF LetterKey
    <3> HIDE DEF x
    <3>3. Pending' \in SUBSET ((Pending \ {x}) \cup {y})
      BY <1>4, <2>1, <3>1
    <3> QED BY <3>1, <3>2, <3>3, FollowsMove
  <2> QED BY <2>2, <2>3
<1> QED BY <1>1, <1>5, <1>6

LEMMA CatchesPending ==
  ASSUME BrokerTypes, WorkTypes, CardTypes, NEW d \in transit, CardCatches(d)
  PROVE  Follows(Pending, Pending') /\ \A u \in threads' : u \in threads \/ u.pc = "reply"
<1>1. PICK t \in Workers : /\ t.pc = "reply" /\ t.msg = d.msg /\ t.pkm = d.msg.pkm
                           /\ Receive(d, {t})
  BY CardCatchesStep
<1>2. d.msg.type = "CATCH"
  BY CardCatchesStep
<1>3. \A u \in threads' : u \in threads \/ u.pc = "reply"
  BY <1>1 DEF Receive
<1>4. CASE Bearing(t)
  <2>1. Bears(d.msg) /\ ThreadKey(t) = LetterKey(d.msg)
    BY <1>1, <1>2 DEF Bears, ThreadKey, LetterKey
  <2> QED BY <1>1, <1>3, <2>1, ReceiveMoves
<1>5. CASE ~Bearing(t)
  <2>1. Pending' \in SUBSET Pending
    BY <1>1, <1>5, ReceivePending
  <2> QED BY <1>3, <2>1, FollowsLess
<1> QED BY <1>4, <1>5

LEMMA LooksPending ==
  ASSUME BrokerTypes, WorkTypes, CardTypes, NEW d \in transit, CardLooks(d) \/ LocalizedArrives(d)
  PROVE  /\ Pending' \subseteq Pending
         /\ \A u \in threads' : u \in threads \/ u.pc \in {"reply", "lock"}
<1>1. CASE CardLooks(d)
  <2>1. \E t : t.pc = "reply" /\ t.msg.type = "GET" /\ Receive(d, {t})
    BY <1>1, CardLooksStep
  <2>2. PICK t : t.pc = "reply" /\ t.msg.type = "GET" /\ Receive(d, {t})
    BY <2>1
  <2>3. ~Bearing(t)
    BY <2>2 DEF Bearing
  <2>4. Pending' \subseteq Pending
    BY <2>2, <2>3, ReceivePending
  <2>5. threads' = threads \cup {t}
    BY <2>2 DEF Receive
  <2> QED BY <2>2, <2>4, <2>5
<1>2. CASE LocalizedArrives(d)
  <2>1. CASE Receive(d, {})
    <3>1. Pending' \subseteq Pending
      BY <2>1, ReceivePending
    <3>2. threads' = threads \cup {}
      BY <2>1 DEF Receive
    <3> QED BY <3>1, <3>2
  <2>2. ASSUME NEW t, t.pc = "lock", Receive(d, {t})
        PROVE  /\ Pending' \subseteq Pending
               /\ \A u \in threads' : u \in threads \/ u.pc \in {"reply", "lock"}
    <3>1. ~Bearing(t)
      BY <2>2 DEF Bearing
    <3>2. Pending' \subseteq Pending
      BY <2>2, <3>1, ReceivePending
    <3>3. threads' = threads \cup {t}
      BY <2>2 DEF Receive
    <3> QED BY <2>2, <3>2, <3>3
  <2> QED BY <1>2, <2>1, <2>2, LocalizedArrivesStep
<1> QED BY <1>1, <1>2

(* The trainers meanwhile, as long as no position moved, no answer comes   *)
(* twice and the broker runs.  A trainer that waits for its answer is in   *)
(* the blocked list though it may still execute: AskOne.  The list holds   *)
(* it once more only while the copy that it was planned from is still to   *)
(* be removed, and that one comes first.                                   *)
Calm == Without({"moved", "twice", "outage"})

CalmPc == up /\ runner.pc \notin {"place", "release", "post", "cutOff"}

AskOne(t) == One(runner.pc \in {"send", "ack", "asked"} /\ exec.trainer.id = t)
Surplus(t) == ExecOne(t) + InLists(t) - DropOne(t) - TwiceOne(t) + BetweenOne(t)
CopyOf(t) == Surplus(t) <= 1 + Listed(exit, t) + AskOne(t)
CopyInv == \A t \in Trainers : CopyOf(t)

LastInv ==
  \A i, j \in DOMAIN blocked :
    i < j /\ blocked[i].id = blocked[j].id => Dropping("blocked", i)

PlanCore == CloserInv /\ CalmPc /\ CopyInv /\ LastInv

(* The requests meanwhile:                                                 *)
(*   - KeysInv: the ids are those the broker has given;                    *)
(*   - WaitInv: who asked waits for the pokemon of its request, and the    *)
(*     trainer about to ask does, with no request of its own on the way;   *)
(*   - OneInv: a trainer has one request on its way at most;               *)
(*   - ThreadsInv: a thread about to apply an answer has the position of   *)
(*     the trainer that asked, and one about to drop a trainer that has    *)
(*     all it wants that of a trainer with no request on its way.          *)
AsksNothing(a) == \A x \in Pending : ~AskedBy(x.key, a)
Sends(a) == runner.pc = "send" /\ exec.trainer.id = a

KeysInv ==
  /\ \A x \in Pending : x.key \in 0 .. lastId
  /\ \A i \in DOMAIN catchList : catchList[i].id \in 0 .. lastId
  /\ runner.pc = "ack" => ids.runner \in 0 .. lastId

WaitInv ==
  /\ \A x \in Pending : \A a \in Trainers : AskedBy(x.key, a) => WaitsIn(blocked, a, x.pkm)
  /\ \A a \in Trainers : Sends(a) => WaitsIn(blocked, a, exec.trainer.target) /\ AsksNothing(a)

OneInv ==
  \A a \in Trainers : \A x, y \in Pending : AskedBy(x.key, a) /\ AskedBy(y.key, a) => x = y

WaitsAt(t) == t.at \in DOMAIN blocked /\ blocked[t.at].state = "WAITING"
Reaches(t) == WaitsAt(t) /\ blocked[t.at].target = t.pkm /\ AskedBy(t.msg.cid, blocked[t.at].id)
LeavesAt(t) == WaitsAt(t) /\ AsksNothing(blocked[t.at].id) /\ ~Sends(blocked[t.at].id)

ThreadsInv ==
  \A t \in threads : /\ t.pc = "apply" => Reaches(t)
                     /\ t.pc \in {"exit", "drop"} => LeavesAt(t)

RequestCore == KeysInv /\ WaitInv /\ OneInv /\ ThreadsInv
AnswerInv == Calm => PlanCore /\ RequestCore

LEMMA CalmStep ==
  ASSUME CatchingNext, Calm'
  PROVE  Calm /\ ~Outage
<1>1. mishaps \subseteq mishaps'
  BY MishapsGrow
<1>2. Outage => "outage" \in mishaps'
  BY DEF Outage
<1> QED BY <1>1, <1>2 DEF Calm, Without

(* The steps of the scheduler while it does not ask. *)
LEMMA NotAskingRuns ==
  ASSUME NEW from, NEW to, Runs(from, to), from \notin AskingPcs,
         to \notin AskingPcs \cup {"place", "release", "post"}
  PROVE  /\ new' = new /\ closer' = closer
         /\ runner.pc \notin AskingPcs
         /\ runner'.pc \notin AskingPcs \cup {"place", "release", "post"}
BY DEF Runs, Apart

LEMMA CalmSchedule ==
  ASSUME Sound, CalmPc, Schedule
  PROVE  /\ UNCHANGED <<new, blocked, exit, closer>> /\ Runner
         /\ runner.pc \notin AskingPcs
         /\ runner'.pc \notin AskingPcs \cup {"place", "release", "post"}
<1> DEFINE Elsewhere == {"ready", "exec", "schedule", "remove", "run", "preempt", "requeue", "giveWay"}
           goal == /\ new' = new /\ closer' = closer
                   /\ runner.pc \notin AskingPcs
                   /\ runner'.pc \notin AskingPcs \cup {"place", "release", "post"}
<1>1. \A a, b \in Elsewhere : Runs(a, b) => goal
  <2>1. Elsewhere \cap (AskingPcs \cup {"place", "release", "post"}) = {}
    BY DEF AskingPcs
  <2>2. ASSUME NEW a \in Elsewhere, NEW b \in Elsewhere, Runs(a, b) PROVE goal
    <3>1. a \notin AskingPcs /\ b \notin AskingPcs \cup {"place", "release", "post"}
      BY <2>1
    <3> HIDE DEF Elsewhere
    <3> QED BY <2>2, <3>1, NotAskingRuns
  <2> QED BY <2>2
<1> HIDE DEF goal
<1>2. ASSUME WaitReady \/ WaitExec PROVE goal /\ UNCHANGED <<blocked, exit>>
  <2>1. UNCHANGED <<blocked, exit>> /\ (Runs("ready", "exec") \/ Runs("exec", "schedule"))
    BY <1>2, WaitReadyStep, WaitExecStep
  <2> QED BY <1>1, <2>1
<1>3. ASSUME AddToExec PROVE goal /\ UNCHANGED <<blocked, exit>>
  <2>1. UNCHANGED <<blocked, exit>> /\ (Runs("schedule", "ready") \/ Runs("schedule", "remove"))
    BY <1>3, AddToExecStep
  <2> QED BY <1>1, <2>1
<1>4. ASSUME RemoveFromReady PROVE goal /\ UNCHANGED <<blocked, exit>>
  <2>1. UNCHANGED <<blocked, exit>> /\ Runs("remove", "run")
    BY <1>4, RemoveFromReadyStep
  <2> QED BY <1>1, <2>1
<1>5. ASSUME Move PROVE goal /\ UNCHANGED <<blocked, exit>>
  <2>1. UNCHANGED <<blocked, exit>> /\ (Runs("run", "run") \/ Runs("run", "preempt"))
    BY <1>5, MoveStep
  <2> QED BY <1>1, <2>1
<1>6. ASSUME Place \/ Release \/ PostPlaced PROVE goal /\ UNCHANGED <<blocked, exit>>
  BY <1>6 DEF CalmPc, Place, Release, RemoveFromExec, PostPlaced
<1>7. ASSUME Preempt \/ GaveWay PROVE goal /\ UNCHANGED <<blocked, exit>>
  <2>1. UNCHANGED <<blocked, exit>>
        /\ (Runs("preempt", "requeue") \/ Runs("giveWay", "ready"))
    BY <1>7, RemoveFromExecStep DEF Preempt, GaveWay, RunnerPcs
  <2> QED BY <1>1, <2>1
<1>8. ASSUME Requeue PROVE goal /\ UNCHANGED <<blocked, exit>>
  <2>1. Runs("requeue", "ready") /\ UNCHANGED <<blocked, exit>>
    BY <1>8, RequeueStep
  <2> QED BY <1>1, <2>1
<1>9. ASSUME GiveWay PROVE goal /\ UNCHANGED <<blocked, exit>>
  <2>1. Runs("run", "giveWay") /\ UNCHANGED <<blocked, exit>>
    BY <1>9, GiveWayStep
  <2> QED BY <1>1, <2>1
<1>10. goal /\ UNCHANGED <<blocked, exit>>
  BY <1>2, <1>3, <1>4, <1>5, <1>6, <1>7, <1>8, <1>9 DEF Schedule
<1> QED BY <1>10 DEF goal, Runner

(* How many copies there are: what each step changes. *)
SurplusFormed ==
  \A t : /\ Surplus(t) \in Int /\ Listed(exit, t) \in Nat /\ AskOne(t) \in 0 .. 1
         /\ Listed(new, t) \in Nat /\ Listed(ready, t) \in Nat /\ Listed(blocked, t) \in Nat
         /\ \A n \in Int : OneListOf(t, n) <=> Surplus(t) = n

LEMMA SurplusIsFormed == TypeOK => SurplusFormed
<1> SUFFICES ASSUME TypeOK, NEW t
             PROVE  /\ Surplus(t) \in Int /\ Listed(exit, t) \in Nat /\ AskOne(t) \in 0 .. 1
                    /\ Listed(new, t) \in Nat /\ Listed(ready, t) \in Nat /\ Listed(blocked, t) \in Nat
                    /\ \A n \in Int : OneListOf(t, n) <=> Surplus(t) = n
  BY DEF SurplusFormed
<1>1. ListedNumbers(t)
  BY AreListed DEF AllListed
<1>2. InLists(t) \in Nat
  BY <1>1 DEF ListedNumbers, InLists
<1>3. Ones(t) /\ AskOne(t) \in 0 .. 1
  BY AreOnes DEF AskOne, One
<1>4. /\ ExecOne(t) \in Int /\ DropOne(t) \in Int /\ TwiceOne(t) \in Int /\ BetweenOne(t) \in Int
  BY <1>3 DEF Ones
<1> QED BY <1>1, <1>2, <1>3, <1>4 DEF Surplus, OneListOf, ListedNumbers

LEMMA SurplusForm ==
  TypeOK => \A t : /\ Surplus(t) \in Int /\ Listed(exit, t) \in Nat /\ AskOne(t) \in 0 .. 1
                   /\ Listed(new, t) \in Nat /\ Listed(ready, t) \in Nat /\ Listed(blocked, t) \in Nat
                   /\ \A n \in Int : OneListOf(t, n) <=> Surplus(t) = n
BY SurplusIsFormed DEF SurplusFormed

LEMMA SurplusPrimed ==
  TypeOK' => \A t : /\ Surplus(t)' \in Int /\ Listed(exit', t) \in Nat /\ AskOne(t)' \in 0 .. 1
                    /\ Listed(new', t) \in Nat /\ Listed(ready', t) \in Nat /\ Listed(blocked', t) \in Nat
                    /\ \A n \in Int : OneListOf(t, n)' <=> Surplus(t)' = n
<1>1. TypeOK' => SurplusFormed'
  BY SurplusIsFormed, PTL
<1> QED BY <1>1 DEF SurplusFormed

LEMMA CopyMove ==
  ASSUME TypeOK, TypeOK', NEW t \in Trainers, CopyOf(t),
         Surplus(t)' - Listed(exit', t) - AskOne(t)' <= Surplus(t) - Listed(exit, t) - AskOne(t)
  PROVE  CopyOf(t)'
<1> DEFINE s1 == Surplus(t)
           e1 == Listed(exit, t)
           a1 == AskOne(t)
           s2 == Surplus(t)'
           e2 == Listed(exit', t)
           a2 == AskOne(t)'
<1>1. s1 \in Int /\ e1 \in Nat /\ a1 \in 0 .. 1
  BY SurplusForm
<1>2. s2 \in Int /\ e2 \in Nat /\ a2 \in 0 .. 1
  <2>1. TypeOK' => (\A u : Surplus(u)' \in Int /\ Listed(exit', u) \in Nat /\ AskOne(u)' \in 0 .. 1)
    BY SurplusPrimed
  <2> QED BY <2>1
<1>3. s1 <= 1 + e1 + a1 /\ s2 - e2 - a2 <= s1 - e1 - a1
  BY DEF CopyOf
<1> HIDE DEF s1, e1, a1, s2, e2, a2
<1>4. s2 <= 1 + e2 + a2
  BY <1>1, <1>2, <1>3
<1> QED BY <1>4 DEF CopyOf, s2, e2, a2

(* A step that leaves each trainer in as many lists as OneListOf says. *)
LEMMA SameCopies ==
  ASSUME TypeOK, TypeOK', CopyInv, UNCHANGED exit,
         \A t \in Trainers : AskOne(t)' = AskOne(t),
         \A t \in Trainers : \A n \in Int : OneListOf(t, n) => OneListOf(t, n)'
  PROVE  CopyInv'
<1>1. ASSUME NEW t \in Trainers PROVE CopyOf(t)'
  <2>1. Surplus(t) \in Int /\ Listed(exit, t) \in Nat /\ AskOne(t) \in 0 .. 1
    BY SurplusForm
  <2>2. PICK n \in Int : n = Surplus(t)
    BY <2>1
  <2>3. OneListOf(t, n)
    BY <2>2, SurplusForm
  <2>4. OneListOf(t, n)'
    BY <2>3
  <2>5. Surplus(t)' = n
    <3>1. TypeOK' => \A u : \A k \in Int : OneListOf(u, k)' <=> Surplus(u)' = k
      BY SurplusPrimed
    <3> QED BY <2>4, <3>1
  <2>6. CopyOf(t)
    BY DEF CopyInv
  <2>7. Surplus(t)' - Listed(exit', t) - AskOne(t)' <= Surplus(t) - Listed(exit, t) - AskOne(t)
    <3> DEFINE s1 == Surplus(t)
               e1 == Listed(exit, t)
               a1 == AskOne(t)
    <3>1. s1 \in Int /\ e1 \in Int /\ a1 \in Int
      BY <2>1
    <3>2. Surplus(t)' = s1 /\ Listed(exit', t) = e1 /\ AskOne(t)' = a1
      BY <2>2, <2>5
    <3> HIDE DEF s1, e1, a1
    <3>3. s1 - e1 - a1 <= s1 - e1 - a1
      BY <3>1
    <3> QED BY <3>2, <3>3 DEF s1, e1, a1
  <2> QED BY <2>6, <2>7, CopyMove
<1> QED BY <1>1 DEF CopyInv

LEMMA CloserCopies ==
  ASSUME Base, Base', CopyInv, Closer
  PROVE  CopyInv'
<1>1. UNCHANGED <<exit, runner, exec>>
  <2>1. CASE Quiet
    BY <2>1, QuietSteps DEF NoLists, lists
  <2>2. ASSUME NEW p \in Arrivals, Planning(p) PROVE UNCHANGED <<exit, runner, exec>>
    BY <2>2 DEF Planning
  <2>3. CASE Drop
    BY <2>3 DEF Drop
  <2> QED BY <2>1, <2>2, <2>3, PlanStep DEF Closer, Quiet
<1>2. TypeOK /\ TypeOK' /\ \A t \in Trainers : AskOne(t)' = AskOne(t)
  BY <1>1 DEF Base, Sound, AskOne
<1>3. \A t \in Trainers : \A n \in Int : OneListOf(t, n) => OneListOf(t, n)'
  BY CloserKeepsOne
<1> QED BY <1>1, <1>2, <1>3, SameCopies

LEMMA ScheduleCopies ==
  ASSUME Base, Base', CopyInv, CalmPc, Schedule
  PROVE  CopyInv'
<1>1. UNCHANGED exit /\ Runner /\ runner.pc \notin AskingPcs /\ runner'.pc \notin AskingPcs
  BY CalmSchedule DEF Base
<1>2. TypeOK /\ TypeOK' /\ \A t \in Trainers : AskOne(t)' = AskOne(t)
  BY <1>1 DEF Base, Sound, AskOne, AskingPcs
<1>3. \A t \in Trainers : \A n \in Int : OneListOf(t, n) => OneListOf(t, n)'
  BY <1>1, RunKeepsOne
<1> QED BY <1>1, <1>2, <1>3, SameCopies

(* A trainer about to be dropped stays where it is while others are added. *)
LEMMA AskBrokerCopies ==
  ASSUME Base, Base', CopyInv, AskBroker
  PROVE  CopyInv'
<1>1. /\ Runs("run", "send") /\ exec.on /\ exec'.on = exec.on
      /\ exec'.trainer.id = exec.trainer.id
      /\ Longer(blocked, blocked', exec'.trainer) /\ UNCHANGED <<ready, exit>>
  BY AskBrokerStep DEF Base
<1>2. UNCHANGED Apart /\ runner.pc = "run" /\ runner'.pc = "send" /\ UNCHANGED <<new, closer>>
  BY <1>1 DEF Runs, Apart
<1>3. TypeOK /\ TypeOK'
  BY DEF Base, Sound
<1>4. ASSUME NEW t \in Trainers PROVE CopyOf(t)'
  <2>1. DropOne(t)' = DropOne(t)
    <3>1. closer.pc = "drop" => BeingDropped' = BeingDropped
      BY <1>1, <1>2, RunKeepsDropped
    <3> QED BY <1>2, <3>1 DEF DropOne
  <2>2. /\ ExecOne(t)' = ExecOne(t) /\ TwiceOne(t) = 0 /\ TwiceOne(t)' = 0
        /\ BetweenOne(t) = 0 /\ BetweenOne(t)' = 0
        /\ AskOne(t) = 0 /\ AskOne(t)' = One(exec.trainer.id = t)
    BY <1>1, <1>2 DEF ExecOne, TwiceOne, BetweenOne, AskOne, One
  <2>3. Listed(blocked', t) = Listed(blocked, t) + One(exec.trainer.id = t)
    BY <1>1 DEF Longer
  <2>4. /\ Listed(new, t) \in Nat /\ Listed(ready, t) \in Nat /\ Listed(blocked, t) \in Nat
        /\ Listed(exit, t) \in Nat
    BY <1>3, SurplusForm
  <2>5. ExecOne(t) \in Int /\ DropOne(t) \in Int
    BY AreOnes DEF Ones
  <2>6. One(exec.trainer.id = t) \in 0 .. 1
    BY DEF One
  <2>7. Listed(new', t) = Listed(new, t) /\ Listed(ready', t) = Listed(ready, t) /\ Listed(exit', t) = Listed(exit, t)
    BY <1>1, <1>2
  <2> DEFINE a == Listed(new, t)
             b == Listed(ready, t)
             c == Listed(blocked, t)
             d == Listed(exit, t)
             k == One(exec.trainer.id = t)
             e == ExecOne(t)
             f == DropOne(t)
  <2>8. Surplus(t) = e + (a + b + c + d) - f - 0 + 0
    BY <2>2 DEF Surplus, InLists
  <2>9. Surplus(t)' = e + (a + b + (c + k) + d) - f - 0 + 0
    BY <2>1, <2>2, <2>3, <2>7 DEF Surplus, InLists
  <2>10. a \in Int /\ b \in Int /\ c \in Int /\ d \in Int /\ k \in Int /\ e \in Int /\ f \in Int
    BY <2>4, <2>5, <2>6
  <2>11. AskOne(t) = 0 /\ AskOne(t)' = k /\ Listed(exit', t) = d /\ Listed(exit, t) = d
    BY <2>2, <2>7
  <2> HIDE DEF a, b, c, d, e, f, k
  <2>12. Surplus(t)' - Listed(exit', t) - AskOne(t)' <= Surplus(t) - Listed(exit, t) - AskOne(t)
    BY <2>8, <2>9, <2>10, <2>11
  <2> QED BY <1>3, <2>12, CopyMove DEF CopyInv
<1> QED BY <1>4 DEF CopyInv

LEMMA AskedCopies ==
  ASSUME Base, Base', CopyInv, Asked
  PROVE  CopyInv'
<1>1. /\ Runs("asked", "ready") /\ UNCHANGED <<ready, blocked, exit>>
      /\ ~exec'.on /\ exec'.trainer = exec.trainer
  BY AskedStep DEF Base
<1>2. /\ runner.pc = "asked" /\ runner'.pc = "ready" /\ UNCHANGED <<new, closer>>
  BY <1>1 DEF Runs, Apart
<1>3. TypeOK /\ TypeOK' /\ exec.on
  BY <1>2 DEF Base, Sound, RunnerInv, Executing, AskingPcs
<1>4. ASSUME NEW t \in Trainers PROVE CopyOf(t)'
  <2>1. DropOne(t)' = DropOne(t) /\ InLists(t)' = InLists(t) /\ Listed(exit', t) = Listed(exit, t)
    BY <1>1, <1>2 DEF DropOne, InLists, BeingDropped
  <2> DEFINE k == One(exec.trainer.id = t)
  <2>2. /\ ExecOne(t)' = 0 /\ ExecOne(t) = k /\ TwiceOne(t) = 0 /\ TwiceOne(t)' = 0
        /\ BetweenOne(t) = 0 /\ BetweenOne(t)' = 0
        /\ AskOne(t) = k /\ AskOne(t)' = 0 /\ k \in Int
    BY <1>1, <1>2, <1>3 DEF ExecOne, TwiceOne, BetweenOne, AskOne, One
  <2>3. Listed(exit, t) \in Int /\ DropOne(t) \in Int /\ InLists(t) \in Int
    BY <1>3, SurplusForm, AreOnes DEF Ones, InLists
  <2> HIDE DEF k
  <2>4. Surplus(t) = k + InLists(t) - DropOne(t) - 0 + 0 /\ Surplus(t)' = 0 + InLists(t) - DropOne(t) - 0 + 0
    BY <2>1, <2>2 DEF Surplus
  <2>5. Surplus(t)' - Listed(exit', t) - AskOne(t)' <= Surplus(t) - Listed(exit, t) - AskOne(t)
    BY <2>1, <2>2, <2>3, <2>4
  <2> QED BY <1>3, <2>5, CopyMove DEF CopyInv
<1> QED BY <1>4 DEF CopyInv

(* Sending and registering leave the lists, and the one that asks, alone.  *)
LEMMA SendCopies ==
  ASSUME Base, Base', CopyInv, PlanAside,
         runner.pc \in {"send", "ack"}, runner'.pc \in {"ack", "asked"}
  PROVE  CopyInv'
<1>1. UNCHANGED <<new, ready, blocked, exit, exec, closer>>
  BY DEF PlanAside, lists
<1>2. \A t : AskOne(t)' = AskOne(t)
  BY <1>1 DEF AskOne
<1>3. \A t : \A n : OneListOf(t, n) => OneListOf(t, n)'
  BY <1>1 DEF OneListOf, ExecOne, InLists, DropOne, BeingDropped, TwiceOne, BetweenOne
<1> QED BY <1>1, <1>2, <1>3, SameCopies DEF Base, Sound

(* The last copy in the blocked list. *)
LEMMA WaiterIsLast ==
  ASSUME CloserInv, LastInv, TypeOK, NEW i \in DOMAIN blocked, blocked[i].state = "WAITING",
         NEW j \in DOMAIN blocked, blocked[j].id = blocked[i].id
  PROVE  j <= i
<1>1. i \in Nat /\ j \in Nat
  <2>1. blocked \in Seq(TrainerRecords)
    BY Lists DEF ListTypes
  <2> QED BY <2>1
<1>2. ASSUME i < j PROVE FALSE
  <2>1. Dropping("blocked", i)
    BY <1>2 DEF LastInv
  <2>2. i \in Free(blocked)
    BY <2>1 DEF Dropping, CloserInv
  <2> QED BY <2>2 DEF Free
<1> QED BY <1>1, <1>2

LEMMA FewCopies ==
  ASSUME Base, CopyInv, NEW t \in Trainers
  PROVE  /\ Listed(new, t) + Listed(ready, t) + Listed(blocked, t) <= 1 + DropOne(t)
         /\ runner.pc = "run" /\ exec.trainer.id = t =>
              Listed(new, t) + Listed(ready, t) + Listed(blocked, t) <= DropOne(t)
<1>1. TypeOK /\ exec.on = (runner.pc \in Executing)
  BY AllTypes DEF Base, Sound, RunnerInv, TypeOK
<1> DEFINE a == Listed(new, t)
           b == Listed(ready, t)
           c == Listed(blocked, t)
           d == Listed(exit, t)
           e == ExecOne(t)
           f == DropOne(t)
           g == TwiceOne(t)
           h == BetweenOne(t)
           k == AskOne(t)
<1>2. a \in Int /\ b \in Int /\ c \in Int /\ d \in Int /\ k \in Int
  BY <1>1, SurplusForm
<1>3. e \in 0 .. 1 /\ f \in 0 .. 1 /\ g \in 0 .. 1 /\ h \in 0 .. 1
  BY AreOnes DEF Ones
<1>4. e + (a + b + c + d) - f - g + h <= 1 + d + k
  BY DEF CopyInv, CopyOf, Surplus, InLists
<1>5. k + g <= e
  <2>1. CASE exec.trainer.id = t /\ runner.pc \in {"send", "ack", "asked"}
    <3>1. k = 1 /\ g = 0
      BY <2>1 DEF TwiceOne, AskOne, One
    <3>2. exec.on
      BY <1>1, <2>1 DEF Executing, AskingPcs
    <3>3. e = 1
      BY <2>1, <3>2 DEF ExecOne, One
    <3> QED BY <3>1, <3>3
  <2>2. CASE ~(exec.trainer.id = t /\ runner.pc \in {"send", "ack", "asked"})
    <3>1. k = 0
      BY <2>2 DEF AskOne, One
    <3>2. g <= e
      <4>1. CASE g = 0
        BY <1>3, <4>1
      <4>2. CASE g = 1
        <5>1. exec.trainer.id = t /\ runner.pc \in Executing
          BY <4>2 DEF TwiceOne, One, Executing
        <5>2. e = 1
          BY <1>1, <5>1 DEF ExecOne, One
        <5> QED BY <4>2, <5>2
      <4> QED BY <1>3, <4>1, <4>2
    <3> HIDE DEF e, g, k
    <3> QED BY <1>3, <3>1, <3>2
  <2> QED BY <2>1, <2>2
<1>6. runner.pc = "run" /\ exec.trainer.id = t => k = 0 /\ g = 0 /\ e = 1
  BY <1>1 DEF ExecOne, TwiceOne, AskOne, Executing, AskingPcs, One
<1> HIDE DEF a, b, c, d, e, f, g, h, k
<1>7. a + b + c <= 1 + f
  BY <1>2, <1>3, <1>4, <1>5
<1>8. runner.pc = "run" /\ exec.trainer.id = t => a + b + c <= f
  BY <1>2, <1>3, <1>4, <1>6
<1> QED BY <1>7, <1>8 DEF a, b, c, f

(* Of the trainer that executes, only what is to be dropped. *)
LEMMA ExecutesAlone ==
  ASSUME Base, CopyInv, runner.pc = "run",
         NEW i \in DOMAIN blocked, blocked[i].id = exec.trainer.id
  PROVE  Dropping("blocked", i) /\ blocked[i].state = "AVAILABLE"
<1> DEFINE t == exec.trainer.id
           a == Listed(new, t)
           b == Listed(ready, t)
           c == Listed(blocked, t)
<1>1. /\ TypeOK /\ blocked \in Seq(TrainerRecords) /\ new \in Seq(TrainerRecords)
      /\ exec.trainer \in TrainerRecords /\ closer \in Closers
  BY RunTypes, AllTypes DEF Base, Sound
<1>2. t \in Trainers
  BY <1>1, RecordParts
<1>3. a \in Nat /\ b \in Nat /\ c \in Nat /\ DropOne(t) \in 0 .. 1
  BY <1>1, SurplusForm, AreOnes DEF Ones
<1>4. a + b + c <= DropOne(t)
  BY <1>2, FewCopies
<1>5. blocked[i] \in WithId(t) /\ c = Hits(blocked, WithId(t)) /\ a = Hits(new, WithId(t))
  BY <1>1, ListedHits DEF WithId
<1>6. c >= 1
  BY <1>1, <1>5, HitsOne
<1> HIDE DEF t, a, b, c
<1>7. DropOne(t) = 1 /\ c = 1 /\ a = 0
  BY <1>3, <1>4, <1>6
<1>8. closer.pc = "drop" /\ BeingDropped = t
  BY <1>7 DEF DropOne, One
<1>9. CASE closer.list = "new"
  <2>1. closer.pos \in DOMAIN new /\ new[closer.pos].id = t
    BY <1>8, <1>9 DEF Base, CloserInv, BeingDropped
  <2>2. new[closer.pos] \in WithId(t)
    BY <1>1, <2>1 DEF WithId
  <2>3. a >= 1
    BY <1>1, <1>5, <2>1, <2>2, HitsOne
  <2> QED BY <1>7, <2>3
<1>10. CASE closer.list = "blocked"
  <2>1. closer.pos \in Free(blocked) /\ closer.pos \in DOMAIN blocked /\ blocked[closer.pos].id = t
        /\ blocked[closer.pos].state = "AVAILABLE"
    BY <1>8, <1>10 DEF Base, CloserInv, BeingDropped, Free
  <2>2. CASE closer.pos = i
    BY <1>8, <1>10, <2>1, <2>2 DEF Dropping
  <2>3. CASE closer.pos # i
    <3>1. blocked[closer.pos] \in WithId(t)
      BY <1>1, <2>1 DEF WithId
    <3>2. c >= 2
      BY <1>1, <1>5, <2>1, <2>3, <3>1, HitsTwo
    <3> QED BY <1>7, <3>2
  <2> QED BY <2>2, <2>3
<1> QED BY <1>1, <1>9, <1>10 DEF Closers

(* One left of two copies is alone. *)
LEMMA LeftAlone ==
  ASSUME NEW list \in Seq(TrainerRecords), NEW k \in DOMAIN list,
         \A i, j \in DOMAIN list : i < j /\ list[i].id = list[j].id => i = k
  PROVE  \A i, j \in DOMAIN RemoveAt(list, k) :
           i < j => RemoveAt(list, k)[i].id # RemoveAt(list, k)[j].id
<1> DEFINE now == RemoveAt(list, k)
           Old(i) == IF i < k THEN i ELSE i + 1
<1>1. /\ now \in Seq(TrainerRecords) /\ Len(now) = Len(list) - 1
      /\ \A i \in DOMAIN now : now[i] = IF i < k THEN list[i] ELSE list[i + 1]
  BY RemovedPlaces
<1>2. Len(list) \in Nat /\ DOMAIN list = 1 .. Len(list) /\ DOMAIN now = 1 .. Len(list) - 1 /\ k \in Nat
  BY <1>1
<1> HIDE DEF now
<1>3. \A i \in DOMAIN now : Old(i) \in DOMAIN list /\ Old(i) # k /\ now[i] = list[Old(i)]
  BY <1>1, <1>2
<1>4. \A i, j \in DOMAIN now : i < j => Old(i) < Old(j)
  BY <1>2
<1> HIDE DEF Old
<1> QED BY <1>3, <1>4 DEF now

(* The others stay when one is removed. *)
LEMMA OthersStay ==
  ASSUME NEW list \in Seq(TrainerRecords), NEW k \in DOMAIN list
  PROVE  /\ Len(RemoveAt(list, k)) < Len(list)
         /\ \A i \in DOMAIN list : i # k =>
              \E j \in DOMAIN RemoveAt(list, k) : RemoveAt(list, k)[j] = list[i]
<1> DEFINE now == RemoveAt(list, k)
<1>1. /\ now \in Seq(TrainerRecords) /\ Len(now) = Len(list) - 1
      /\ \A i \in DOMAIN now : now[i] = IF i < k THEN list[i] ELSE list[i + 1]
  BY RemovedPlaces
<1>2. Len(list) \in Nat /\ DOMAIN list = 1 .. Len(list) /\ DOMAIN now = 1 .. Len(list) - 1 /\ k \in Nat
  BY <1>1
<1> HIDE DEF now
<1>3. ASSUME NEW i \in DOMAIN list, i # k PROVE \E j \in DOMAIN now : now[j] = list[i]
  <2>1. CASE i < k
    <3>1. i \in DOMAIN now
      BY <1>2, <2>1
    <3> QED BY <1>1, <2>1, <3>1
  <2>2. CASE i > k
    <3>1. i - 1 \in DOMAIN now /\ ~(i - 1 < k) /\ (i - 1) + 1 = i
      BY <1>2, <2>2
    <3> QED BY <1>1, <3>1
  <2> QED BY <1>2, <1>3, <2>1, <2>2
<1> QED BY <1>1, <1>2, <1>3 DEF now

(* The steps of Planner leave who waits, and who asks, alone. *)
WaitersStay ==
  \A i \in DOMAIN blocked : blocked[i].state = "WAITING" =>
    \E j \in DOMAIN blocked' : blocked'[j] = blocked[i]
NobodyHolds == \A t \in threads : ~Holds(t)
SameAsker ==
  \/ UNCHANGED <<runner, exec>>
  \/ runner.pc \notin AskingPcs /\ runner'.pc \notin AskingPcs

LEMMA NobodyMoved ==
  ASSUME Calm', NEW holders, mishaps' = mishaps \cup Shortened(holders),
         Len(blocked') < Len(blocked)
  PROVE  ~holders
BY DEF Calm, Without, Shortened

LEMMA CloserPlan ==
  ASSUME Base, PlanCore, Closer, UNCHANGED <<up, threads>>, Calm',
         mishaps' = mishaps \cup Shortened(\E t \in threads : Holds(t))
  PROVE  /\ PlanCore' /\ UNCHANGED <<runner, exec>>
         /\ UNCHANGED blocked \/ (WaitersStay /\ NobodyHolds)
<1>1. Base' /\ CopyInv' /\ CloserInv'
  BY CloserKeepsBase, CloserCopies DEF PlanCore, Base
<1>2. CASE Quiet
  <2>1. UNCHANGED <<blocked, runner, exec>> /\ closer.pc # "drop"
    BY <1>2, QuietSteps DEF NoLists, lists, Leaves
  <2>2. LastInv'
    BY <2>1 DEF PlanCore, LastInv, Dropping
  <2> QED BY <1>1, <2>1, <2>2 DEF PlanCore, CalmPc
<1>3. ASSUME NEW p \in Arrivals, Planning(p)
      PROVE  /\ PlanCore' /\ UNCHANGED <<runner, exec>>
             /\ UNCHANGED blocked \/ (WaitersStay /\ NobodyHolds)
  <2>1. UNCHANGED <<blocked, runner, exec>> /\ closer.pc # "drop"
    BY <1>3 DEF Planning
  <2>2. LastInv'
    BY <2>1 DEF PlanCore, LastInv, Dropping
  <2> QED BY <1>1, <2>1, <2>2 DEF PlanCore, CalmPc
<1>4. CASE Drop
  <2>1. /\ closer.pc = "drop" /\ UNCHANGED <<exec, runner>> /\ blocked \in Seq(TrainerRecords)
        /\ \/ closer.list = "new" /\ UNCHANGED blocked
           \/ /\ closer.list = "blocked" /\ closer.pos \in DOMAIN blocked
              /\ Choice.state = "AVAILABLE" /\ Choice = blocked[closer.pos]
              /\ blocked' = RemoveAt(blocked, closer.pos)
    <3>1. Dropped /\ blocked \in Seq(TrainerRecords)
      BY <1>4, DropStep, RunTypes DEF Base
    <3> QED BY <3>1 DEF Dropped, Choice
  <2>2. CalmPc'
    BY <2>1 DEF PlanCore, CalmPc
  <2>3. CASE closer.list = "new"
    <3>1. UNCHANGED blocked
      BY <2>1, <2>3
    <3>2. LastInv'
      BY <2>3, <3>1 DEF PlanCore, LastInv, Dropping
    <3> QED BY <1>1, <2>1, <2>2, <3>1, <3>2 DEF PlanCore
  <2>4. CASE closer.list = "blocked"
    <3> DEFINE k == closer.pos
    <3>1. /\ k \in DOMAIN blocked /\ blocked[k].state = "AVAILABLE"
          /\ blocked' = RemoveAt(blocked, k)
      BY <2>1, <2>4
    <3>2. \A i, j \in DOMAIN blocked : i < j /\ blocked[i].id = blocked[j].id => i = k
      BY DEF PlanCore, LastInv, Dropping
    <3> HIDE DEF k
    <3>3. LastInv'
      BY <2>1, <3>1, <3>2, LeftAlone DEF LastInv
    <3>4. WaitersStay /\ Len(blocked') < Len(blocked)
      BY <2>1, <3>1, OthersStay DEF WaitersStay
    <3>5. NobodyHolds
      BY <3>4, NobodyMoved DEF NobodyHolds
    <3> QED BY <1>1, <2>1, <2>2, <3>3, <3>4, <3>5 DEF PlanCore
  <2> QED BY <2>1, <2>3, <2>4
<1> QED BY <1>2, <1>3, <1>4, PlanStep DEF Closer, Quiet

LEMMA SchedulePlan ==
  ASSUME Base, PlanCore, Schedule, UNCHANGED up
  PROVE  PlanCore' /\ SameAsker /\ UNCHANGED blocked
<1>1. /\ UNCHANGED <<new, blocked, exit, closer>> /\ Runner
      /\ runner.pc \notin AskingPcs
      /\ runner'.pc \notin AskingPcs \cup {"place", "release", "post"}
  BY CalmSchedule DEF PlanCore, Base
<1>2. Base' /\ CopyInv' /\ CloserInv'
  BY <1>1, RunKeepsBase, ScheduleCopies DEF PlanCore, Base
<1>3. LastInv' /\ CalmPc'
  BY <1>1 DEF PlanCore, LastInv, Dropping, CalmPc, AskingPcs
<1> QED BY <1>1, <1>2, <1>3 DEF PlanCore, SameAsker


LEMMA SamePlan ==
  ASSUME Base, Sound', Closing', PlanCore,
         UNCHANGED <<new, ready, blocked, exit, runner, closer, up>>,
         exec'.on = exec.on, exec'.trainer.id = exec.trainer.id
  PROVE  PlanCore'
<1>1. \A t : AskOne(t)' = AskOne(t)
  BY DEF AskOne
<1>2. \A t : \A n : OneListOf(t, n) => OneListOf(t, n)'
  BY DEF OneListOf, ExecOne, InLists, DropOne, BeingDropped, TwiceOne, BetweenOne
<1>3. CopyInv'
  BY <1>1, <1>2, SameCopies DEF PlanCore, Base, Sound
<1>4. CloserInv'
  BY DEF PlanCore, CloserInv, SomebodyFree
<1>5. LastInv' /\ CalmPc'
  BY DEF PlanCore, LastInv, Dropping, CalmPc
<1> QED BY <1>3, <1>4, <1>5 DEF PlanCore

LEMMA AskBrokerPlan ==
  ASSUME Base, Sound', Closing', PlanCore, AskBroker
  PROVE  /\ PlanCore' /\ WaitersStay
         /\ \A i \in DOMAIN blocked : i \in DOMAIN blocked' /\ blocked'[i] = blocked[i]
         /\ runner.pc = "run" /\ runner'.pc = "send" /\ exec'.trainer.id = exec.trainer.id
         /\ WaitsIn(blocked', exec'.trainer.id, exec'.trainer.target)
         /\ \A i \in DOMAIN blocked :
              blocked[i].id = exec.trainer.id => blocked[i].state = "AVAILABLE"
<1> DEFINE n == Len(blocked) + 1
<1>1. /\ Runs("run", "send") /\ exec.on /\ exec'.on = exec.on
      /\ exec'.trainer.id = exec.trainer.id /\ exec'.trainer.state = "WAITING"
      /\ exec'.trainer \in TrainerRecords
      /\ blocked' = Append(blocked, exec'.trainer)
      /\ Longer(blocked, blocked', exec'.trainer) /\ UNCHANGED <<ready, exit>>
  BY AskBrokerStep DEF Base
<1>2. /\ UNCHANGED Apart /\ runner.pc = "run" /\ runner'.pc = "send"
      /\ UNCHANGED <<new, closer, up>>
  BY <1>1 DEF Runs, Apart, AskBroker, brokerVars
<1>3. blocked \in Seq(TrainerRecords)
  BY RunTypes DEF Base
<1>4. /\ DOMAIN blocked' = 1 .. n /\ DOMAIN blocked = 1 .. n - 1 /\ n \in Nat \ {0}
      /\ blocked'[n] = exec'.trainer
      /\ \A i \in DOMAIN blocked : i \in DOMAIN blocked' /\ blocked'[i] = blocked[i]
  <2>1. \A e : /\ DOMAIN Append(blocked, e) = 1 .. n /\ Append(blocked, e)[n] = e
               /\ \A i \in DOMAIN blocked : Append(blocked, e)[i] = blocked[i]
    BY <1>3
  <2>2. DOMAIN blocked = 1 .. n - 1 /\ n \in Nat \ {0}
    BY <1>3
  <2>3. \A i \in 1 .. n - 1 : i \in 1 .. n
    BY <2>2
  <2> HIDE DEF n
  <2> QED BY <1>1, <2>1, <2>2, <2>3
<1> HIDE DEF n
<1>5. CloserInv'
  BY <1>1, <1>2, CloserWhileRun
<1>6. Base'
  BY <1>5 DEF Base
<1>7. CopyInv'
  BY <1>6, AskBrokerCopies DEF PlanCore
<1>8. \A i \in DOMAIN blocked : blocked[i].id = exec.trainer.id =>
        Dropping("blocked", i) /\ blocked[i].state = "AVAILABLE"
  BY <1>2, ExecutesAlone DEF PlanCore
<1>9. LastInv'
  <2> SUFFICES ASSUME NEW i \in DOMAIN blocked', NEW j \in DOMAIN blocked', i < j,
                      blocked'[i].id = blocked'[j].id
               PROVE  Dropping("blocked", i)'
    BY DEF LastInv
  <2>1. i \in DOMAIN blocked /\ blocked'[i] = blocked[i]
    BY <1>4
  <2>2. CASE j \in DOMAIN blocked
    <3>1. Dropping("blocked", i)
      BY <1>4, <2>1, <2>2 DEF PlanCore, LastInv
    <3> QED BY <1>2, <3>1 DEF Dropping
  <2>3. CASE j \notin DOMAIN blocked
    <3>1. j = n
      BY <1>4, <2>3
    <3>2. blocked[i].id = exec.trainer.id
      BY <1>1, <1>4, <2>1, <3>1
    <3>3. Dropping("blocked", i)
      BY <1>8, <2>1, <3>2
    <3> QED BY <1>2, <3>3 DEF Dropping
  <2> QED BY <2>2, <2>3
<1>10. CalmPc'
  BY <1>2 DEF PlanCore, CalmPc
<1>11. WaitsIn(blocked', exec'.trainer.id, exec'.trainer.target)
  BY <1>1, <1>4 DEF WaitsIn
<1>12. WaitersStay
  BY <1>4 DEF WaitersStay
<1> QED BY <1>1, <1>2, <1>4, <1>5, <1>7, <1>8, <1>9, <1>10, <1>11, <1>12 DEF PlanCore

LEMMA SendPlan ==
  ASSUME Base, Sound', Closing', PlanCore, PlanAside, UNCHANGED up,
         runner.pc \in {"send", "ack"}, runner'.pc \in {"ack", "asked"}
  PROVE  PlanCore' /\ UNCHANGED <<blocked, exec>>
<1>1. UNCHANGED <<new, ready, blocked, exit, exec, closer>>
  BY DEF PlanAside, lists
<1>2. CloserInv' /\ LastInv' /\ CalmPc'
  BY <1>1 DEF PlanCore, CloserInv, SomebodyFree, LastInv, Dropping, CalmPc
<1>3. Base'
  BY <1>2 DEF Base
<1>4. CopyInv'
  BY <1>3, SendCopies DEF PlanCore
<1> QED BY <1>1, <1>2, <1>4 DEF PlanCore

LEMMA AskedPlan ==
  ASSUME Base, Sound', Closing', PlanCore, Asked
  PROVE  /\ PlanCore' /\ UNCHANGED blocked /\ exec'.trainer = exec.trainer
         /\ runner.pc = "asked" /\ runner'.pc = "ready"
<1>1. /\ Runs("asked", "ready") /\ UNCHANGED <<ready, blocked, exit>> /\ exec'.trainer = exec.trainer
  BY AskedStep DEF Base
<1>2. runner.pc = "asked" /\ runner'.pc = "ready" /\ UNCHANGED <<new, closer, up>>
  BY <1>1 DEF Runs, Apart, Asked, brokerVars
<1>3. CloserInv' /\ LastInv' /\ CalmPc'
  BY <1>1, <1>2 DEF PlanCore, CloserInv, SomebodyFree, LastInv, Dropping, CalmPc
<1>4. Base'
  BY <1>3 DEF Base
<1>5. CopyInv'
  BY <1>4, AskedCopies DEF PlanCore
<1> QED BY <1>1, <1>2, <1>3, <1>5 DEF PlanCore

(* The answers: a thread that ends a trainer, one that applies an answer   *)
(* to a trainer that waits, and one that drops a trainer that ended.       *)
LEMMA ExitPlan ==
  ASSUME Base, Sound', Closing', PlanCore, NEW t, ExitCaught(t), UNCHANGED up
  PROVE  PlanCore' /\ UNCHANGED <<runner, exec, blocked>>
<1>1. /\ AnswerAside /\ UNCHANGED <<blocked, exec>>
      /\ Longer(exit, exit', exec.trainer)
  BY ExitCaughtStep DEF Base
<1>2. UNCHANGED <<new, ready, closer, runner, available>>
  BY <1>1 DEF AnswerAside
<1>3. CloserInv' /\ LastInv' /\ CalmPc'
  BY <1>1, <1>2 DEF PlanCore, CloserInv, SomebodyFree, LastInv, Dropping, CalmPc
<1>4. TypeOK /\ TypeOK'
  BY DEF Base, Sound
<1>5. ASSUME NEW x \in Trainers PROVE CopyOf(x)'
  <2>1. /\ ExecOne(x)' = ExecOne(x) /\ DropOne(x)' = DropOne(x) /\ TwiceOne(x)' = TwiceOne(x)
        /\ BetweenOne(x)' = BetweenOne(x) /\ AskOne(x)' = AskOne(x)
    BY <1>1, <1>2 DEF ExecOne, DropOne, BeingDropped, TwiceOne, BetweenOne, AskOne
  <2>2. Listed(exit', x) = Listed(exit, x) + One(exec.trainer.id = x)
    BY <1>1 DEF Longer
  <2> DEFINE a == Listed(new, x) + Listed(ready, x) + Listed(blocked, x)
             d == Listed(exit, x)
             k == One(exec.trainer.id = x)
             e == ExecOne(x)
             f == DropOne(x)
             g == TwiceOne(x)
             h == BetweenOne(x)
             s == AskOne(x)
  <2>3. a \in Int /\ d \in Int /\ k \in Int /\ e \in Int /\ f \in Int /\ g \in Int /\ h \in Int /\ s \in Int
    <3>1. Ones(x) /\ AskOne(x) \in 0 .. 1 /\ k \in 0 .. 1
      BY AreOnes DEF AskOne, One
    <3>2. Listed(new, x) \in Nat /\ Listed(ready, x) \in Nat /\ Listed(blocked, x) \in Nat
          /\ Listed(exit, x) \in Nat
      BY <1>4, SurplusForm
    <3> QED BY <3>1, <3>2 DEF Ones
  <2>4. Surplus(x) = e + (a + d) - f - g + h /\ Surplus(x)' = e + (a + (d + k)) - f - g + h
    BY <1>1, <1>2, <2>1, <2>2 DEF Surplus, InLists
  <2>5. Listed(exit', x) = d + k /\ AskOne(x)' = s
    BY <2>1, <2>2
  <2> HIDE DEF a, d, k, e, f, g, h, s
  <2>6. Surplus(x)' - (d + k) - s <= Surplus(x) - d - s
    BY <2>3, <2>4
  <2>7. Surplus(x)' - Listed(exit', x) - AskOne(x)' <= Surplus(x) - Listed(exit, x) - AskOne(x)
    BY <2>5, <2>6 DEF d, s
  <2> QED BY <1>4, <2>7, CopyMove DEF PlanCore, CopyInv
<1> QED BY <1>1, <1>2, <1>3, <1>5 DEF PlanCore, CopyInv

(* The list with another record of the same trainer in one place. *)
LEMMA ApplyPlan ==
  ASSUME Base, Sound', Closing', PlanCore, NEW k \in DOMAIN blocked, NEW v,
         blocked[k].state = "WAITING", v.id = blocked[k].id, blocked' = [blocked EXCEPT ![k] = v],
         UNCHANGED <<new, ready, exit, exec, runner, closer, up>>
  PROVE  PlanCore'
<1>1. /\ blocked \in Seq(TrainerRecords) /\ TypeOK /\ TypeOK' /\ closer \in Closers
  BY AllTypes DEF Base, Sound
<1>2. /\ DOMAIN blocked' = DOMAIN blocked
      /\ \A i \in DOMAIN blocked : blocked'[i].id = blocked[i].id /\ (i # k => blocked'[i] = blocked[i])
  BY <1>1
<1>3. Free(blocked) \subseteq Free(blocked')
  BY <1>2 DEF Free
<1>4. CloserInv'
  BY <1>3 DEF PlanCore, CloserInv, SomebodyFree
<1>5. LastInv' /\ CalmPc'
  BY <1>2 DEF PlanCore, LastInv, Dropping, CalmPc
<1>6. ASSUME NEW x
      PROVE  Listed(blocked', x) = Listed(blocked, x) /\ DropOne(x)' = DropOne(x)
  <2>1. {i \in DOMAIN blocked' : blocked'[i].id = x} = {i \in DOMAIN blocked : blocked[i].id = x}
    BY <1>2
  <2>2. closer.pc = "drop" => BeingDropped' = BeingDropped
    <3>1. closer.pc = "drop" /\ closer.list = "blocked" => closer.pos \in DOMAIN blocked
      BY DEF Base, CloserInv, Free
    <3> QED BY <1>1, <1>2, <3>1 DEF BeingDropped, Closers
  <2> QED BY <2>1, <2>2 DEF Listed, DropOne
<1>7. \A x : AskOne(x)' = AskOne(x)
  BY DEF AskOne
<1>8. \A x : \A n : OneListOf(x, n) => OneListOf(x, n)'
  BY <1>6 DEF OneListOf, ExecOne, InLists, TwiceOne, BetweenOne
<1>9. CopyInv'
  BY <1>1, <1>7, <1>8, SameCopies DEF PlanCore
<1> QED BY <1>4, <1>5, <1>9 DEF PlanCore

LEMMA DropPlan ==
  ASSUME Base, Sound', Closing', PlanCore, Calm', NEW t \in threads, WaitsAt(t), DropCaught(t),
         UNCHANGED up
  PROVE  /\ PlanCore' /\ UNCHANGED <<runner, exec>>
         /\ blocked' = RemoveAt(blocked, t.at)
         /\ \A u \in threads \ {t} : ~Holds(u)
<1>1. blocked \in Seq(TrainerRecords) /\ t.at \in DOMAIN blocked /\ blocked[t.at].state = "WAITING"
  BY AllTypes DEF Base, Sound, WaitsAt
<1>2. t.at \in Nat \ {0}
  BY <1>1
<1>3. /\ AnswerAside /\ UNCHANGED <<exit, exec>> /\ blocked' = Removed(blocked, t.at)
  BY <1>2, DropCaughtStep DEF Base
<1>4. blocked' = RemoveAt(blocked, t.at) /\ UNCHANGED <<new, ready, closer, runner>>
  BY <1>1, <1>3, DroppedIsRemoved DEF AnswerAside
<1>5. Len(blocked') < Len(blocked)
        /\ \A i \in DOMAIN blocked : i # t.at => \E j \in DOMAIN blocked' : blocked'[j] = blocked[i]
  BY <1>1, <1>4, OthersStay
<1>6. ~((\E u \in threads \ {t} : Holds(u)) \/ (closer.pc = "drop" /\ closer.list = "blocked"))
  <2> DEFINE h == (\E u \in threads \ {t} : Holds(u)) \/ (closer.pc = "drop" /\ closer.list = "blocked")
  <2>1. mishaps' = mishaps \cup Shortened(h)
    BY DEF DropCaught
  <2> HIDE DEF h
  <2>2. ~h
    BY <1>5, <2>1, NobodyMoved
  <2> QED BY <2>2 DEF h
<1>7. SomebodyFree => SomebodyFree'
  <2>1. ASSUME Free(blocked) # {} PROVE Free(blocked') # {}
    <3>1. PICK i \in DOMAIN blocked : blocked[i].state = "AVAILABLE"
      BY <2>1 DEF Free
    <3>2. i # t.at
      BY <1>1, <3>1
    <3>3. PICK j \in DOMAIN blocked' : blocked'[j] = blocked[i]
      BY <1>5, <3>2
    <3> QED BY <3>1, <3>3 DEF Free
  <2> QED BY <1>4, <2>1 DEF SomebodyFree
<1>8. closer \in Closers
  BY AllTypes DEF Base, Sound
<1>9. closer.pc = "drop" => closer.list = "new"
  BY <1>6, <1>8 DEF Closers
<1>10. CloserInv' /\ CalmPc'
  BY <1>4, <1>7, <1>9 DEF PlanCore, CloserInv, CalmPc
<1>11. \A i, j \in DOMAIN blocked : i < j => blocked[i].id # blocked[j].id
  BY <1>9 DEF PlanCore, LastInv, Dropping
<1>12. LastInv'
  <2>1. \A i, j \in DOMAIN blocked : i < j /\ blocked[i].id = blocked[j].id => i = t.at
    BY <1>11
  <2> QED BY <1>1, <1>4, <2>1, LeftAlone DEF LastInv
<1>13. CopyInv'
  <2>1. TypeOK /\ TypeOK'
    BY DEF Base, Sound
  <2>2. ASSUME NEW x \in Trainers PROVE CopyOf(x)'
    <3>1. /\ ExecOne(x)' = ExecOne(x) /\ DropOne(x)' = DropOne(x) /\ TwiceOne(x)' = TwiceOne(x)
          /\ BetweenOne(x)' = BetweenOne(x) /\ AskOne(x)' = AskOne(x)
      BY <1>3, <1>4, <1>9 DEF ExecOne, DropOne, BeingDropped, TwiceOne, BetweenOne, AskOne
    <3>2. Listed(blocked', x) = Listed(blocked, x) - One(blocked[t.at].id = x)
      BY <1>1, <1>4, RemoveShorter DEF Shorter
    <3> DEFINE a == Listed(new, x) + Listed(ready, x)
               b == Listed(blocked, x)
               d == Listed(exit, x)
               k == One(blocked[t.at].id = x)
               e == ExecOne(x)
               f == DropOne(x)
               g == TwiceOne(x)
               h == BetweenOne(x)
               s == AskOne(x)
    <3>3. a \in Int /\ b \in Int /\ d \in Int /\ k \in 0 .. 1 /\ e \in Int /\ f \in Int /\ g \in Int /\ h \in Int /\ s \in Int
      <4>1. Ones(x) /\ AskOne(x) \in 0 .. 1 /\ k \in 0 .. 1
        BY AreOnes DEF AskOne, One
      <4>2. Listed(new, x) \in Nat /\ Listed(ready, x) \in Nat /\ Listed(blocked, x) \in Nat
            /\ Listed(exit, x) \in Nat
        BY <2>1, SurplusForm
      <4> QED BY <4>1, <4>2 DEF Ones
    <3>4. Surplus(x) = e + (a + b + d) - f - g + h /\ Surplus(x)' = e + (a + (b - k) + d) - f - g + h
      BY <1>3, <1>4, <3>1, <3>2 DEF Surplus, InLists
    <3>5. Listed(exit', x) = d /\ AskOne(x)' = s
      BY <1>3, <3>1
    <3> HIDE DEF a, b, d, k, e, f, g, h, s
    <3>6. Surplus(x)' - d - s <= Surplus(x) - d - s
      BY <3>3, <3>4
    <3>7. Surplus(x)' - Listed(exit', x) - AskOne(x)' <= Surplus(x) - Listed(exit, x) - AskOne(x)
      BY <3>5, <3>6 DEF d, s
    <3> QED BY <2>1, <3>7, CopyMove DEF PlanCore, CopyInv
  <2> QED BY <2>2 DEF CopyInv
<1>14. \A u \in threads \ {t} : ~Holds(u)
  BY <1>6
<1> QED BY <1>3, <1>4, <1>10, <1>12, <1>13, <1>14 DEF PlanCore

LEMMA PlannerPlan ==
  ASSUME CatchingTypes, CatchingTypes', PlanCore, Calm', PlannerSteps
  PROVE  /\ PlanCore' /\ SameAsker /\ UNCHANGED <<brokerVars, threads, askVars>>
         /\ UNCHANGED blocked \/ (WaitersStay /\ NobodyHolds)
<1>0. Base /\ Sound /\ Sound' /\ Closing'
  BY DEF CatchingTypes, PlanCore, Base
<1>1. /\ UNCHANGED <<brokerVars, threads, askVars>> /\ UNCHANGED up
      /\ mishaps' = mishaps \cup Shortened(\E t \in threads : Holds(t))
      /\ Closer \/ Schedule \/ StartSearch \/ Finish
  BY PlannerMail DEF PlanCore, CalmPc, brokerVars
<1>2. CASE Closer
  BY <1>0, <1>1, <1>2, CloserPlan DEF SameAsker
<1>3. CASE Schedule
  BY <1>0, <1>1, <1>3, SchedulePlan
<1>4. CASE StartSearch \/ Finish
  <2>1. UNCHANGED Others
    BY <1>0, <1>4, TakeAllStep DEF StartSearch, Finish, Semaphores
  <2>2. UNCHANGED <<new, ready, blocked, exit, runner, closer, exec>>
    BY <2>1 DEF Others, lists
  <2> QED BY <1>0, <1>1, <2>2, SamePlan DEF SameAsker
<1> QED BY <1>1, <1>2, <1>3, <1>4

(* The requests, when those on their way only move or get lost, and no     *)
(* trainer asks under an id that it did not ask under before.              *)
LEMMA RequestsKept ==
  ASSUME KeysInv, WaitInv, OneInv, Follows(Pending, Pending'), lastId \in Nat, lastId' \in Nat,
         lastId <= lastId', \A i \in DOMAIN catchList' : catchList'[i].id \in 0 .. lastId,
         runner'.pc = "ack" => runner.pc = "ack" /\ ids'.runner = ids.runner,
         \A k : \A a \in Trainers : AskedBy(k, a)' => AskedBy(k, a),
         \A a \in Trainers : \A p : WaitsIn(blocked, a, p) => WaitsIn(blocked', a, p) \/ AsksNothing(a)
  PROVE  /\ KeysInv' /\ OneInv'
         /\ \A x \in Pending' : \A a \in Trainers : AskedBy(x.key, a)' => WaitsIn(blocked', a, x.pkm)
         /\ \A a \in Trainers : AsksNothing(a) => AsksNothing(a)'
<1>1. PICK g \in [Pending' -> Pending] :
        /\ \A x \in Pending' : g[x].key = x.key /\ g[x].pkm = x.pkm
        /\ \A x, y \in Pending' : g[x] = g[y] => x = y
  BY DEF Follows
<1>2. \A x \in Pending' : g[x] \in Pending
  BY <1>1
<1>3. 0 .. lastId \subseteq 0 .. lastId'
  OBVIOUS
<1>4. KeysInv'
  <2>1. \A x \in Pending' : x.key \in 0 .. lastId'
    BY <1>1, <1>2, <1>3 DEF KeysInv
  <2>2. \A i \in DOMAIN catchList' : catchList'[i].id \in 0 .. lastId'
    BY <1>3
  <2>3. runner'.pc = "ack" => ids'.runner \in 0 .. lastId'
    BY <1>3 DEF KeysInv
  <2> QED BY <2>1, <2>2, <2>3 DEF KeysInv
<1>5. ASSUME NEW x \in Pending', NEW a \in Trainers, AskedBy(x.key, a)'
      PROVE  g[x] \in Pending /\ AskedBy(g[x].key, a)
  <2>1. \E k : k = x.key
    OBVIOUS
  <2>2. PICK k : k = x.key
    BY <2>1
  <2>3. AskedBy(k, a)'
    BY <1>5, <2>2
  <2>4. AskedBy(k, a)
    BY <2>3
  <2> QED BY <1>1, <1>2, <2>2, <2>4
<1>6. OneInv'
  BY <1>1, <1>5 DEF OneInv
<1>7. ASSUME NEW x \in Pending', NEW a \in Trainers, AskedBy(x.key, a)'
      PROVE  WaitsIn(blocked', a, x.pkm)
  <2>1. g[x] \in Pending /\ AskedBy(g[x].key, a)
    BY <1>5, <1>7
  <2>2. WaitsIn(blocked, a, g[x].pkm)
    BY <2>1 DEF WaitInv
  <2>3. \A p : WaitsIn(blocked, a, p) => WaitsIn(blocked', a, p)
    BY <2>1 DEF AsksNothing
  <2> QED BY <1>1, <2>2, <2>3
<1>8. ASSUME NEW a \in Trainers, AsksNothing(a) PROVE AsksNothing(a)'
  <2>1. ASSUME NEW x \in Pending', AskedBy(x.key, a)' PROVE FALSE
    BY <1>5, <1>8, <2>1 DEF AsksNothing
  <2> QED BY <2>1 DEF AsksNothing
<1> QED BY <1>4, <1>6, <1>7, <1>8

(* The steps that leave the blocked list and who asks alone: a thread that *)
(* is new is one that reaches its trainer, or one that leaves it.          *)
LEMMA MailRequests ==
  ASSUME RequestCore, Follows(Pending, Pending'), lastId \in Nat, lastId' \in Nat,
         lastId <= lastId', UNCHANGED <<blocked, runner, catchList>>, ids'.runner = ids.runner,
         exec'.trainer.id = exec.trainer.id, exec'.trainer.target = exec.trainer.target,
         blocked \in Seq(TrainerRecords),
         \A u \in threads' : \/ u \in threads \/ ~Holds(u)
                             \/ u.pc = "apply" /\ Reaches(u)
                             \/ u.pc = "drop" /\ LeavesAt(u)
  PROVE  RequestCore'
<1>1. \A k : \A a : AskedBy(k, a)' <=> AskedBy(k, a)
  BY DEF AskedBy
<1>2. \A a \in Trainers : \A p : WaitsIn(blocked, a, p) => WaitsIn(blocked', a, p)
  OBVIOUS
<1>3. \A i \in DOMAIN catchList' : catchList'[i].id \in 0 .. lastId
  BY DEF RequestCore, KeysInv
<1>4. /\ KeysInv' /\ OneInv'
      /\ \A x \in Pending' : \A a \in Trainers : AskedBy(x.key, a)' => WaitsIn(blocked', a, x.pkm)
      /\ \A a \in Trainers : AsksNothing(a) => AsksNothing(a)'
  BY <1>1, <1>2, <1>3, RequestsKept DEF RequestCore
<1>5. \A a : Sends(a)' <=> Sends(a)
  BY DEF Sends
<1>6. WaitInv'
  BY <1>4, <1>5 DEF RequestCore, WaitInv
<1>7. \A u : Reaches(u) => Reaches(u)'
  BY <1>1 DEF Reaches, WaitsAt
<1>8. \A i \in DOMAIN blocked : blocked[i].id \in Trainers
  BY RecordParts
<1>9. ASSUME NEW u, LeavesAt(u) PROVE LeavesAt(u)'
  <2>1. WaitsAt(u) /\ WaitsAt(u)' /\ AsksNothing(blocked[u.at].id) /\ ~Sends(blocked[u.at].id)'
    BY <1>5, <1>9 DEF LeavesAt, WaitsAt
  <2>2. PICK a \in Trainers : a = blocked[u.at].id
    BY <1>8, <2>1 DEF WaitsAt
  <2>3. AsksNothing(a)'
    BY <1>4, <2>1, <2>2
  <2> QED BY <2>1, <2>2, <2>3 DEF LeavesAt, AsksNothing
<1>10. ThreadsInv'
  <2> SUFFICES ASSUME NEW u \in threads'
               PROVE  /\ u.pc = "apply" => Reaches(u)'
                      /\ u.pc \in {"exit", "drop"} => LeavesAt(u)'
    BY DEF ThreadsInv
  <2>1. /\ u.pc = "apply" => Reaches(u)
        /\ u.pc \in {"exit", "drop"} => LeavesAt(u)
    BY DEF RequestCore, ThreadsInv, Holds
  <2> QED BY <1>7, <1>9, <2>1
<1> QED BY <1>4, <1>6, <1>10 DEF RequestCore

LEMMA PlannerRequests ==
  ASSUME RequestCore, blocked \in Seq(TrainerRecords), lastId \in Nat,
         UNCHANGED <<brokerVars, threads, askVars>>, SameAsker,
         UNCHANGED blocked \/ (WaitersStay /\ NobodyHolds)
  PROVE  RequestCore'
<1>0. /\ UNCHANGED <<lastId, catchList, ids>>
      /\ UNCHANGED <<runner, exec>> \/ (runner.pc \notin AskingPcs /\ runner'.pc \notin AskingPcs)
  BY DEF brokerVars, askVars, SameAsker
<1>1. \A k : \A a : AskedBy(k, a)' <=> AskedBy(k, a)
  BY <1>0 DEF AskedBy, AskingPcs
<1>2. \A a : \A p : WaitsIn(blocked, a, p) => WaitsIn(blocked', a, p)
  BY DEF WaitersStay, WaitsIn
<1>3. Follows(Pending, Pending')
  <2>1. Pending' \in SUBSET Pending
    BY <1>0 DEF Pending, CachedAsks, SentAsks, ThreadAsks, brokerVars
  <2> QED BY <2>1, FollowsLess
<1>4. /\ KeysInv' /\ OneInv'
      /\ \A x \in Pending' : \A a \in Trainers : AskedBy(x.key, a)' => WaitsIn(blocked', a, x.pkm)
      /\ \A a \in Trainers : AsksNothing(a) => AsksNothing(a)'
  <2>1. \A i \in DOMAIN catchList' : catchList'[i].id \in 0 .. lastId
    BY <1>0 DEF RequestCore, KeysInv
  <2>2. runner'.pc = "ack" => runner.pc = "ack" /\ ids'.runner = ids.runner
    BY <1>0 DEF AskingPcs
  <2> QED BY <1>0, <1>1, <1>2, <1>3, <2>1, <2>2, RequestsKept DEF RequestCore
<1>5. \A a : Sends(a)' => Sends(a) /\ UNCHANGED exec
  BY <1>0 DEF Sends, AskingPcs
<1>6. WaitInv'
  BY <1>2, <1>4, <1>5 DEF RequestCore, WaitInv
<1>7. ThreadsInv'
  <2>1. CASE UNCHANGED blocked
    <3>1. \A u : Reaches(u) => Reaches(u)'
      BY <1>1, <2>1 DEF Reaches, WaitsAt
    <3>2. \A i \in DOMAIN blocked : blocked[i].id \in Trainers
      BY RecordParts
    <3>3. ASSUME NEW u, LeavesAt(u) PROVE LeavesAt(u)'
      <4>1. WaitsAt(u) /\ WaitsAt(u)' /\ AsksNothing(blocked[u.at].id) /\ ~Sends(blocked[u.at].id)'
        BY <1>5, <2>1, <3>3 DEF LeavesAt, WaitsAt
      <4>2. PICK a \in Trainers : a = blocked[u.at].id
        BY <3>2, <4>1 DEF WaitsAt
      <4>3. AsksNothing(a)'
        BY <1>4, <4>1, <4>2
      <4> QED BY <2>1, <4>1, <4>2, <4>3 DEF LeavesAt, AsksNothing
    <3> QED BY <3>1, <3>3 DEF RequestCore, ThreadsInv
  <2>2. CASE NobodyHolds
    BY <2>2 DEF NobodyHolds, Holds, ThreadsInv
  <2> QED BY <2>1, <2>2
<1> QED BY <1>4, <1>6, <1>7 DEF RequestCore

(* A trainer begins to wait, sends its request, registers its id, ends its *)
(* turn.                                                                   *)
LEMMA AskBrokerRequests ==
  ASSUME Base, Sound', Closing', PlanCore, RequestCore, lastId \in Nat, AskBroker
  PROVE  RequestCore'
<1>0. /\ UNCHANGED <<brokerVars, threads, askVars>> /\ UNCHANGED <<lastId, catchList, ids>>
      /\ blocked \in Seq(TrainerRecords)
  BY AllTypes DEF AskBroker, brokerVars, askVars, Base, Sound
<1>1. /\ \A i \in DOMAIN blocked : i \in DOMAIN blocked' /\ blocked'[i] = blocked[i]
      /\ runner.pc = "run" /\ runner'.pc = "send" /\ exec'.trainer.id = exec.trainer.id
      /\ WaitsIn(blocked', exec'.trainer.id, exec'.trainer.target)
      /\ \A i \in DOMAIN blocked :
           blocked[i].id = exec.trainer.id => blocked[i].state = "AVAILABLE"
  BY AskBrokerPlan
<1>2. \A k : \A a : AskedBy(k, a)' <=> AskedBy(k, a)
  BY <1>0, <1>1 DEF AskedBy
<1>3. \A a : \A p : WaitsIn(blocked, a, p) => WaitsIn(blocked', a, p)
  BY <1>1 DEF WaitsIn
<1>4. Follows(Pending, Pending')
  <2>1. Pending' \in SUBSET Pending
    BY <1>0 DEF Pending, CachedAsks, SentAsks, ThreadAsks, brokerVars
  <2> QED BY <2>1, FollowsLess
<1>5. /\ KeysInv' /\ OneInv'
      /\ \A x \in Pending' : \A a \in Trainers : AskedBy(x.key, a)' => WaitsIn(blocked', a, x.pkm)
      /\ \A a \in Trainers : AsksNothing(a) => AsksNothing(a)'
  <2>1. \A i \in DOMAIN catchList' : catchList'[i].id \in 0 .. lastId
    BY <1>0 DEF RequestCore, KeysInv
  <2> QED BY <1>0, <1>1, <1>2, <1>3, <1>4, <2>1, RequestsKept DEF RequestCore
<1>6. \A a : Sends(a)' => a = exec.trainer.id
  BY <1>1 DEF Sends
<1>7. \A a \in Trainers : a = exec.trainer.id => AsksNothing(a)
  <2>1. ASSUME NEW a \in Trainers, a = exec.trainer.id, NEW x \in Pending, AskedBy(x.key, a)
        PROVE  FALSE
    <3>1. WaitsIn(blocked, a, x.pkm)
      BY <2>1 DEF RequestCore, WaitInv
    <3> QED BY <1>1, <2>1, <3>1 DEF WaitsIn
  <2> QED BY <2>1 DEF AsksNothing
<1>8. WaitInv'
  <2>1. ASSUME NEW a \in Trainers, Sends(a)'
        PROVE  WaitsIn(blocked', a, exec'.trainer.target) /\ AsksNothing(a)'
    <3>1. a = exec.trainer.id
      BY <1>6, <2>1
    <3>2. AsksNothing(a)'
      BY <1>5, <1>7, <3>1
    <3> QED BY <1>1, <3>1, <3>2
  <2> QED BY <1>5, <2>1 DEF WaitInv
<1>9. \A u : WaitsAt(u) => WaitsAt(u)' /\ blocked'[u.at] = blocked[u.at]
  BY <1>1 DEF WaitsAt
<1>10. \A u : Reaches(u) => Reaches(u)'
  BY <1>2, <1>9 DEF Reaches
<1>11. ASSUME NEW u, LeavesAt(u) PROVE LeavesAt(u)'
  <2>1. WaitsAt(u) /\ AsksNothing(blocked[u.at].id)
    BY <1>11 DEF LeavesAt
  <2>2. PICK a \in Trainers : a = blocked[u.at].id
    BY <1>0, <2>1, RecordParts DEF WaitsAt
  <2>3. AsksNothing(a)' /\ a = blocked'[u.at].id
    BY <1>5, <1>9, <2>1, <2>2
  <2>4. a # exec.trainer.id
    BY <1>1, <2>1, <2>2 DEF WaitsAt
  <2>5. ~Sends(a)'
    BY <1>6, <2>4
  <2> QED BY <1>9, <2>1, <2>3, <2>5 DEF LeavesAt, AsksNothing, Sends
<1>12. ThreadsInv'
  BY <1>0, <1>10, <1>11 DEF RequestCore, ThreadsInv
<1> QED BY <1>5, <1>8, <1>12 DEF RequestCore

(* The id is one that the broker has not given before. *)
LEMMA SendRequests ==
  ASSUME Sound, RequestCore, BrokerTypes, AskTypes, SendCatch
  PROVE  RequestCore'
<1>1. /\ UNCHANGED <<cardVars, threads, catchList>> /\ ids'.runner = lastId + 1
      /\ \E m \in Letters : m.type = "CATCH" /\ m.pkm = exec.trainer.target /\ Published(m)
  BY SendCatchMail
<1>2. /\ runner.pc = "send" /\ runner'.pc = "ack" /\ UNCHANGED <<blocked, exec>>
      /\ exec.trainer.id \in Trainers /\ blocked \in Seq(TrainerRecords) /\ lastId \in Nat
  <2>1. exec.trainer \in TrainerRecords /\ blocked \in Seq(TrainerRecords)
    BY RunTypes
  <2> QED BY <2>1, SendCatchStep, RecordParts DEF PlanAside, lists, BrokerTypes
<1>3. PICK m \in Letters : m.type = "CATCH" /\ m.pkm = exec.trainer.target /\ Published(m)
  BY <1>1
<1>4. PICK y : /\ y.key = LetterKey(Stamped(m)) /\ y.pkm = m.pkm
               /\ \A z \in Pending' : \/ z \in Pending /\ (z.place = "thread" => z.what \in threads')
                                      \/ z = y /\ Bears(m)
  BY <1>1, <1>3, PublishPending
<1>5. y.key = lastId + 1 /\ y.pkm = exec.trainer.target /\ lastId' = lastId + 1
  BY <1>3, <1>4, StampedLetter DEF LetterKey, Published
<1>6. \A z \in Pending' : z \in Pending \/ z = y
  BY <1>4
<1>7. PICK e \in Trainers : e = exec.trainer.id
  BY <1>2
<1>8. PICK p : p = exec.trainer.target
  OBVIOUS
<1>9. \A k : \A a : AskedBy(k, a)' <=> (AskedBy(k, a) \/ (k = lastId + 1 /\ a = e))
  BY <1>1, <1>2, <1>7 DEF AskedBy
<1>10. \A i \in DOMAIN catchList : catchList[i].id \in 0 .. lastId
  BY DEF RequestCore, KeysInv
<1>11. \A a : ~AskedBy(lastId + 1, a)
  BY <1>2, <1>10 DEF AskedBy
<1>12. \A z \in Pending : z.key \in 0 .. lastId /\ z.key # lastId + 1
  BY <1>2 DEF RequestCore, KeysInv
<1>13. \A z \in Pending : \A a : AskedBy(z.key, a)' <=> AskedBy(z.key, a)
  BY <1>9, <1>12
<1>14. \A a : AskedBy(y.key, a)' <=> a = e
  <2>1. \E k : k = y.key
    OBVIOUS
  <2>2. PICK k : k = y.key
    BY <2>1
  <2> QED BY <1>5, <1>9, <1>11, <2>2
<1>15. Sends(e) /\ AsksNothing(e) /\ WaitsIn(blocked, e, p)
  BY <1>2, <1>7, <1>8 DEF Sends, RequestCore, WaitInv
<1>16. KeysInv'
  <2>1. 0 .. lastId \subseteq 0 .. lastId' /\ lastId + 1 \in 0 .. lastId'
    BY <1>2, <1>5
  <2>2. \A z \in Pending' : z.key \in 0 .. lastId'
    BY <1>5, <1>6, <1>12, <2>1
  <2> QED BY <1>1, <1>10, <2>1, <2>2 DEF KeysInv
<1>17. WaitInv'
  <2>1. ASSUME NEW z \in Pending', NEW a \in Trainers, AskedBy(z.key, a)'
        PROVE  WaitsIn(blocked', a, z.pkm)
    <3>1. CASE z \in Pending
      <4>1. AskedBy(z.key, a)
        BY <1>13, <2>1, <3>1
      <4> QED BY <1>2, <3>1, <4>1 DEF RequestCore, WaitInv
    <3>2. CASE z = y
      <4>1. a = e
        BY <1>14, <2>1, <3>2
      <4> QED BY <1>2, <1>5, <1>8, <1>15, <3>2, <4>1
    <3> QED BY <1>6, <3>1, <3>2
  <2>2. \A a \in Trainers : ~Sends(a)'
    BY <1>2 DEF Sends
  <2> QED BY <2>1, <2>2 DEF WaitInv
<1>18. OneInv'
  <2>1. ASSUME NEW z \in Pending', NEW w \in Pending', NEW a \in Trainers,
               AskedBy(z.key, a)', AskedBy(w.key, a)', z \in Pending
        PROVE  z = w
    <3>1. AskedBy(z.key, a)
      BY <1>13, <2>1
    <3>2. a # e
      BY <1>15, <2>1, <3>1 DEF AsksNothing
    <3>3. w # y
      BY <1>14, <2>1, <3>2
    <3>4. w \in Pending /\ AskedBy(w.key, a)
      BY <1>6, <1>13, <2>1, <3>3
    <3> QED BY <2>1, <3>1, <3>4 DEF RequestCore, OneInv
  <2> QED BY <1>6, <2>1 DEF OneInv
<1>19. ThreadsInv'
  <2>1. \A u : Reaches(u) => Reaches(u)'
    BY <1>2, <1>9 DEF Reaches, WaitsAt
  <2>2. ASSUME NEW u, LeavesAt(u) PROVE LeavesAt(u)'
    <3>1. WaitsAt(u) /\ AsksNothing(blocked[u.at].id) /\ ~Sends(blocked[u.at].id) /\ WaitsAt(u)'
      BY <1>2, <2>2 DEF LeavesAt, WaitsAt
    <3>2. PICK a : a = blocked[u.at].id
      OBVIOUS
    <3>3. a # e
      BY <1>15, <3>1, <3>2
    <3>4. ASSUME NEW z \in Pending', AskedBy(z.key, a)' PROVE FALSE
      <4>1. z # y
        BY <1>14, <3>3, <3>4
      <4>2. z \in Pending /\ AskedBy(z.key, a)
        BY <1>6, <1>13, <3>4, <4>1
      <4> QED BY <3>1, <3>2, <4>2 DEF AsksNothing
    <3>5. ~Sends(a)'
      BY <1>2 DEF Sends
    <3> QED BY <1>2, <3>1, <3>2, <3>4, <3>5 DEF LeavesAt, AsksNothing
  <2> QED BY <1>1, <2>1, <2>2 DEF RequestCore, ThreadsInv
<1> QED BY <1>16, <1>17, <1>18, <1>19 DEF RequestCore

(* Registered, or asked and gone: under the same ids as before. *)
LEMMA RegisteredRequests ==
  ASSUME RequestCore, blocked \in Seq(TrainerRecords), lastId \in Nat,
         UNCHANGED <<brokerVars, threads, blocked>>, exec'.trainer = exec.trainer,
         \A k : \A a : AskedBy(k, a)' <=> AskedBy(k, a),
         \A i \in DOMAIN catchList' : catchList'[i].id \in 0 .. lastId,
         runner'.pc \notin {"send", "ack"}
  PROVE  RequestCore'
<1>0. UNCHANGED lastId
  BY DEF brokerVars
<1>1. Follows(Pending, Pending')
  <2>1. Pending' \in SUBSET Pending
    BY DEF Pending, CachedAsks, SentAsks, ThreadAsks, brokerVars
  <2> QED BY <2>1, FollowsLess
<1>2. \A a \in Trainers : \A p : WaitsIn(blocked, a, p) => WaitsIn(blocked', a, p)
  OBVIOUS
<1>3. /\ KeysInv' /\ OneInv'
      /\ \A x \in Pending' : \A a \in Trainers : AskedBy(x.key, a)' => WaitsIn(blocked', a, x.pkm)
      /\ \A a \in Trainers : AsksNothing(a) => AsksNothing(a)'
  BY <1>0, <1>1, <1>2, RequestsKept DEF RequestCore
<1>4. \A a : ~Sends(a)'
  BY DEF Sends
<1>5. WaitInv'
  BY <1>3, <1>4 DEF WaitInv
<1>6. ThreadsInv'
  <2>1. \A u : Reaches(u) => Reaches(u)'
    BY DEF Reaches, WaitsAt
  <2>2. ASSUME NEW u, LeavesAt(u) PROVE LeavesAt(u)'
    <3>1. WaitsAt(u) /\ AsksNothing(blocked[u.at].id) /\ WaitsAt(u)'
      BY <2>2 DEF LeavesAt, WaitsAt
    <3>2. PICK a \in Trainers : a = blocked[u.at].id
      BY <3>1, RecordParts DEF WaitsAt
    <3>3. AsksNothing(a)'
      BY <1>3, <3>1, <3>2
    <3>4. ~Sends(a)'
      BY <1>4
    <3> QED BY <3>1, <3>2, <3>3, <3>4 DEF LeavesAt, AsksNothing, Sends
  <2> QED BY <2>1, <2>2 DEF RequestCore, ThreadsInv
<1> QED BY <1>3, <1>5, <1>6 DEF RequestCore

LEMMA RegisterRequests ==
  ASSUME Sound, RequestCore, BrokerTypes, AskTypes, RegisterCatch
  PROVE  RequestCore'
<1>1. /\ ids.runner \in Nat /\ catchList \in Seq(Requests) /\ exec.trainer \in TrainerRecords
      /\ blocked \in Seq(TrainerRecords) /\ lastId \in Nat
  BY RunTypes DEF AskTypes, BrokerTypes
<1> DEFINE e == [id |-> ids.runner, trainer |-> exec.trainer.id]
<1>2. /\ UNCHANGED <<brokerVars, threads, ids>> /\ catchList' = Append(catchList, e)
      /\ runner.pc = "ack" /\ runner'.pc = "asked" /\ UNCHANGED <<blocked, exec>>
  BY <1>1, RegisterMail, RegisterStep DEF RegisterCatch, PlanAside, lists
<1>3. \A i \in DOMAIN Append(catchList, e) :
        \/ i \in DOMAIN catchList /\ Append(catchList, e)[i] = catchList[i]
        \/ Append(catchList, e)[i] = e
  <2> HIDE DEF e
  <2>1. /\ DOMAIN Append(catchList, e) = 1 .. Len(catchList) + 1
        /\ Append(catchList, e)[Len(catchList) + 1] = e
        /\ \A i \in 1 .. Len(catchList) : Append(catchList, e)[i] = catchList[i]
    BY <1>1
  <2>2. \A i \in 1 .. Len(catchList) + 1 : i \in 1 .. Len(catchList) \/ i = Len(catchList) + 1
    BY <1>1
  <2>3. DOMAIN catchList = 1 .. Len(catchList)
    BY <1>1
  <2> QED BY <2>1, <2>2, <2>3
<1>4. /\ \A i \in DOMAIN catchList : i \in DOMAIN Append(catchList, e) /\ Append(catchList, e)[i] = catchList[i]
      /\ \E i \in DOMAIN Append(catchList, e) : Append(catchList, e)[i] = e
  <2> HIDE DEF e
  <2>1. /\ DOMAIN Append(catchList, e) = 1 .. Len(catchList) + 1
        /\ Append(catchList, e)[Len(catchList) + 1] = e
        /\ \A i \in 1 .. Len(catchList) : Append(catchList, e)[i] = catchList[i]
        /\ Len(catchList) + 1 \in 1 .. Len(catchList) + 1
    BY <1>1
  <2>2. DOMAIN catchList = 1 .. Len(catchList) /\ \A i \in 1 .. Len(catchList) : i \in 1 .. Len(catchList) + 1
    BY <1>1
  <2> QED BY <2>1, <2>2
<1>5. e.id = ids.runner /\ e.trainer = exec.trainer.id
  OBVIOUS
<1> HIDE DEF e
<1>6. \A k : \A a : AskedBy(k, a)' <=> AskedBy(k, a)
  BY <1>2, <1>3, <1>4, <1>5 DEF AskedBy
<1>7. \A i \in DOMAIN catchList' : catchList'[i].id \in 0 .. lastId
  BY <1>2, <1>3, <1>5 DEF RequestCore, KeysInv
<1> QED BY <1>1, <1>2, <1>6, <1>7, RegisteredRequests

LEMMA AskedRequests ==
  ASSUME Base, Sound', Closing', PlanCore, RequestCore, BrokerTypes, Asked
  PROVE  RequestCore'
<1>1. /\ UNCHANGED blocked /\ exec'.trainer = exec.trainer
      /\ runner.pc = "asked" /\ runner'.pc = "ready"
  BY AskedPlan
<1>2. UNCHANGED <<brokerVars, threads, catchList, ids>>
  BY DEF Asked, askVars
<1>3. \A k : \A a : AskedBy(k, a)' <=> AskedBy(k, a)
  BY <1>1, <1>2 DEF AskedBy
<1>4. \A i \in DOMAIN catchList' : catchList'[i].id \in 0 .. lastId
  BY <1>2 DEF RequestCore, KeysInv
<1>5. blocked \in Seq(TrainerRecords) /\ lastId \in Nat
  BY AllTypes DEF Base, Sound, BrokerTypes
<1> QED BY <1>1, <1>2, <1>3, <1>4, <1>5, RegisteredRequests

(* The answer arrives: the position is that of the trainer that asked. *)
LEMMA AskerAsked ==
  ASSUME catchList \in Seq(Requests), NEW d, Asks(d)
  PROVE  AskedBy(d.msg.cid, Asker(d)) /\ Asker(d) \in Trainers
<1> DEFINE S == {i \in DOMAIN catchList : catchList[i].id = d.msg.cid}
<1>1. S \in SUBSET Nat /\ S # {}
  BY DEF Asks
<1>2. PICK i \in S : i = Min(S)
  BY <1>1, MinIsIn
<1>3. Asker(d) = catchList[i].trainer /\ i \in DOMAIN catchList /\ catchList[i].id = d.msg.cid
  BY <1>2 DEF Asker
<1>4. catchList[i] \in Requests
  BY <1>3
<1> QED BY <1>3, <1>4 DEF AskedBy, Requests

LEMMA CaughtReaches ==
  ASSUME Base, PlanCore, RequestCore, AskTypes, NEW d \in transit, Asks(d), d.msg.type = "CAUGHT",
         d.msg.n = 1, NEW t, t.msg = d.msg, t.pkm = d.msg.pkm,
         PositionOf(Asker(d)) # {} => t.at = Max(PositionOf(Asker(d)))
  PROVE  Reaches(t)
<1>1. PICK a \in Trainers : a = Asker(d) /\ AskedBy(d.msg.cid, a)
  BY AskerAsked DEF AskTypes
<1>2. SentToken(d) \in Pending /\ SentToken(d).key = d.msg.cid /\ SentToken(d).pkm = d.msg.pkm
  <2>1. d \in SentAsks
    BY DEF SentAsks, Bears
  <2> QED BY <2>1, TokensAre DEF Pending, LetterKey
<1>3. WaitsIn(blocked, a, d.msg.pkm)
  <2>1. PICK x \in Pending : x.key = d.msg.cid /\ x.pkm = d.msg.pkm
    BY <1>2
  <2> QED BY <1>1, <2>1 DEF RequestCore, WaitInv
<1>4. PICK i \in DOMAIN blocked :
        blocked[i].id = a /\ blocked[i].state = "WAITING" /\ blocked[i].target = d.msg.pkm
  BY <1>3 DEF WaitsIn
<1>5. TypeOK /\ blocked \in Seq(TrainerRecords)
  BY AllTypes DEF Base, Sound
<1> DEFINE S == PositionOf(a)
<1>6. S \in SUBSET DOMAIN blocked /\ i \in S /\ \A j \in S : blocked[j].id = a
  BY <1>4 DEF PositionOf
<1>7. Max(S) \in S /\ i <= Max(S)
  <2> HIDE DEF S
  <2> QED BY <1>5, <1>6, MaxIsIn
<1>8. Max(S) <= i
  <2>1. Max(S) \in DOMAIN blocked /\ blocked[Max(S)].id = blocked[i].id
    BY <1>4, <1>6, <1>7
  <2> HIDE DEF S
  <2> QED BY <1>4, <1>5, <2>1, WaiterIsLast DEF PlanCore
<1>9. i \in Nat /\ Max(S) \in Nat
  <2>1. Max(S) \in DOMAIN blocked
    BY <1>6, <1>7
  <2> QED BY <1>5, <2>1
<1>10. t.at = i
  <2>1. S # {} => t.at = Max(S)
    BY <1>1
  <2> HIDE DEF S
  <2> QED BY <1>6, <1>7, <1>8, <1>9, <2>1
<1> QED BY <1>1, <1>4, <1>10 DEF Reaches, WaitsAt

LEMMA CaughtRequests ==
  ASSUME Base, PlanCore, RequestCore, MailTypes, NEW d \in transit, CaughtArrives(d)
  PROVE  RequestCore'
<1>1. /\ d.msg.type = "CAUGHT" /\ UNCHANGED <<vars, askVars>>
      /\ \/ Receive(d, {})
         \/ Asks(d) /\ \E t \in Workers :
             /\ t.pc = (IF d.msg.n = 1 THEN "apply" ELSE "refuse")
             /\ t.msg = d.msg /\ t.pkm = d.msg.pkm /\ Receive(d, {t})
             /\ d.msg.n # 0 /\ PositionOf(Asker(d)) # {} => t.at = Max(PositionOf(Asker(d)))
  BY CaughtArrivesStep DEF MailTypes, Base, Sound
<1>2. /\ UNCHANGED <<blocked, runner, catchList, exec, ids, lastId>>
      /\ lastId \in Nat /\ blocked \in Seq(TrainerRecords)
  <2>1. UNCHANGED lastId
    BY <1>1 DEF Receive
  <2> QED BY <1>1, <2>1, AllTypes DEF vars, lists, askVars, Base, Sound, MailTypes, BrokerTypes
<1>3. ASSUME Follows(Pending, Pending'),
             \A u \in threads' : u \in threads \/ ~Holds(u) \/ (u.pc = "apply" /\ Reaches(u))
      PROVE  RequestCore'
  BY <1>2, <1>3, MailRequests
<1>4. CASE Receive(d, {})
  <2>1. Pending' \in SUBSET Pending
    BY <1>4, ReceivePending
  <2> QED BY <1>3, <1>4, <2>1, FollowsLess DEF Receive
<1>5. ASSUME Asks(d), NEW t \in Workers, t.pc = (IF d.msg.n = 1 THEN "apply" ELSE "refuse"),
             t.msg = d.msg, t.pkm = d.msg.pkm, Receive(d, {t}),
             d.msg.n # 0 /\ PositionOf(Asker(d)) # {} => t.at = Max(PositionOf(Asker(d)))
      PROVE  RequestCore'
  <2>1. \A u \in threads' : u \in threads \/ u = t
    BY <1>5 DEF Receive
  <2>2. CASE d.msg.n = 1
    <3>1. Reaches(t)
      BY <1>1, <1>5, <2>2, CaughtReaches DEF MailTypes
    <3>2. Follows(Pending, Pending')
      <4>1. Bears(d.msg) /\ ThreadKey(t) = LetterKey(d.msg)
        BY <1>1, <1>5, <2>2 DEF Bears, ThreadKey, LetterKey
      <4> QED BY <1>5, <4>1, ReceiveMoves
    <3> QED BY <1>3, <1>5, <2>1, <2>2, <3>1, <3>2
  <2>3. CASE d.msg.n # 1
    <3>1. ~Bearing(t) /\ ~Holds(t)
      BY <1>5, <2>3 DEF Bearing, Holds
    <3>2. Pending' \in SUBSET Pending
      BY <1>5, <3>1, ReceivePending
    <3> QED BY <1>3, <2>1, <3>1, <3>2, FollowsLess
  <2> QED BY <2>2, <2>3
<1> QED BY <1>1, <1>4, <1>5

LEMMA RefuseAnswer ==
  ASSUME Base, Sound', Closing', PlanCore, RequestCore, MailTypes, NEW t \in threads, Refuse(t)
  PROVE  PlanCore' /\ RequestCore'
<1>1. /\ AnswerAside /\ UNCHANGED <<blocked, exit>>
      /\ exec'.on = exec.on /\ exec'.trainer = [exec.trainer EXCEPT !.state = "AVAILABLE"]
      /\ exec'.trainer.id = exec.trainer.id /\ exec.trainer \in TrainerRecords
  BY RefuseStep, RunTypes DEF Base
<1>2. /\ UNCHANGED <<brokerVars, askVars>> /\ threads' = threads \ {t}
  BY DEF Refuse, Ends
<1>3. /\ UNCHANGED <<new, ready, closer, runner, up, lastId, catchList, ids>>
      /\ exec'.trainer.target = exec.trainer.target
      /\ lastId \in Nat /\ blocked \in Seq(TrainerRecords)
  BY <1>1, <1>2, AllTypes DEF AnswerAside, brokerVars, askVars, TrainerRecords, Base, Sound,
       MailTypes, BrokerTypes
<1>4. PlanCore'
  BY <1>1, <1>3, SamePlan
<1>5. Follows(Pending, Pending')
  <2>1. Pending' \in SUBSET Pending
    BY <1>2, PendingKept DEF ThreadAsks
  <2> QED BY <2>1, FollowsLess
<1>6. \A u \in threads' : u \in threads
  BY <1>2
<1>7. lastId <= lastId' /\ lastId' \in Nat
  BY <1>3
<1>8. RequestCore'
  BY <1>1, <1>3, <1>5, <1>6, <1>7, MailRequests
<1> QED BY <1>4, <1>8

LEMMA ExitAnswer ==
  ASSUME Base, Sound', Closing', PlanCore, RequestCore, MailTypes, NEW t \in threads, ExitCaught(t)
  PROVE  PlanCore' /\ RequestCore'
<1> DEFINE u == [t EXCEPT !.pc = "drop"]
<1>1. /\ UNCHANGED <<brokerVars, askVars>> /\ threads' = (threads \ {t}) \cup {u} /\ t.pc = "exit"
  BY DEF ExitCaught, GoesTo
<1>2. u.pc = "drop" /\ u.at = t.at
  <2>1. t \in Workers
    BY DEF MailTypes, WorkTypes
  <2> QED BY <2>1 DEF Workers
<1> HIDE DEF u
<1>3. UNCHANGED <<up, lastId, catchList, ids>> /\ lastId \in Nat /\ blocked \in Seq(TrainerRecords)
  BY <1>1, AllTypes DEF brokerVars, askVars, Base, Sound, MailTypes, BrokerTypes
<1>4. PlanCore' /\ UNCHANGED <<runner, exec, blocked>>
  BY <1>3, ExitPlan
<1>5. LeavesAt(u)
  <2>1. LeavesAt(t)
    BY <1>1 DEF RequestCore, ThreadsInv
  <2> QED BY <1>2, <2>1 DEF LeavesAt, WaitsAt
<1>6. Follows(Pending, Pending')
  <2>1. ~Bearing(u)
    BY <1>2 DEF Bearing
  <2>2. Pending' \in SUBSET Pending
    BY <1>1, <2>1, PendingKept DEF ThreadAsks
  <2> QED BY <2>2, FollowsLess
<1>7. \A w \in threads' : w \in threads \/ (w.pc = "drop" /\ LeavesAt(w))
  BY <1>1, <1>2, <1>5
<1>8. lastId <= lastId' /\ lastId' \in Nat
  BY <1>3
<1>9. RequestCore'
  BY <1>3, <1>4, <1>6, <1>7, <1>8, MailRequests
<1> QED BY <1>4, <1>9

(* Nobody else waits where the answer is applied, nor has the trainer      *)
(* another request on its way.                                             *)
LEMMA ApplyAnswer ==
  ASSUME Base, Sound', Closing', PlanCore, RequestCore, MailTypes, NEW t \in threads, Apply(t)
  PROVE  PlanCore' /\ RequestCore'
<1>1. /\ t \in Workers /\ blocked \in Seq(TrainerRecords) /\ lastId \in Nat
  BY AllTypes DEF MailTypes, WorkTypes, BrokerTypes, Base, Sound
<1>2. /\ AnswerAside /\ UNCHANGED <<exit, exec>> /\ t.pc = "apply"
      /\ Applied(t) \/ Misapplied(t)
  <2>1. t.at \in Nat
    BY <1>1 DEF Workers
  <2> QED BY <2>1, ApplyStep DEF Base
<1>3. Reaches(t)
  BY <1>2 DEF RequestCore, ThreadsInv
<1> DEFINE k == t.at
           u == [t EXCEPT !.pc = "exit"]
<1>4. PICK a \in Trainers : a = blocked[k].id
  BY <1>1, <1>3, RecordParts DEF Reaches, WaitsAt
<1>5. PICK v \in TrainerRecords : /\ blocked' = [blocked EXCEPT ![k] = v] /\ v.id = blocked[k].id
                                  /\ v.state = StateOf(Answered(t))
  BY <1>2, <1>3 DEF Applied, Misapplied, Reaches, WaitsAt
<1>6. /\ k \in DOMAIN blocked /\ blocked[k].state = "WAITING" /\ AskedBy(t.msg.cid, a)
  BY <1>3, <1>4 DEF Reaches, WaitsAt
<1>7. /\ UNCHANGED <<brokerVars, askVars>>
      /\ \/ threads' = threads \ {t}
         \/ HasAll(Answered(t)) /\ threads' = (threads \ {t}) \cup {u}
  BY <1>2 DEF Apply, Applied, Misapplied, Ends, GoesTo
<1>8. u.pc = "exit" /\ u.at = k
  BY <1>1 DEF Workers
<1> HIDE DEF u
<1>9. UNCHANGED <<new, ready, closer, runner, up, lastId, catchList, ids>>
  BY <1>2, <1>7 DEF AnswerAside, brokerVars, askVars
<1>10. PlanCore'
  <2> HIDE DEF k
  <2> QED BY <1>2, <1>5, <1>6, <1>9, ApplyPlan
<1>11. /\ DOMAIN blocked' = DOMAIN blocked
       /\ \A i \in DOMAIN blocked : blocked'[i].id = blocked[i].id /\ (i # k => blocked'[i] = blocked[i])
  <2> HIDE DEF k
  <2> QED BY <1>1, <1>5
<1>12. PICK x \in Pending : x = ThreadToken(t)
  BY <1>2 DEF Pending, ThreadAsks, Bearing
<1>13. x.place = "thread" /\ x.what = t /\ AskedBy(x.key, a)
  BY <1>2, <1>6, <1>12, TokensAre DEF ThreadKey
<1>14. Pending' \in SUBSET (Pending \ {x})
  <2>1. ~Bearing(u)
    BY <1>8 DEF Bearing
  <2>2. ThreadAsks' \subseteq ThreadAsks \ {t}
    BY <1>7, <2>1 DEF ThreadAsks
  <2>3. CachedAsks' = CachedAsks /\ SentAsks' = SentAsks
    BY <1>7 DEF brokerVars, CachedAsks, SentAsks
  <2>4. \A z \in {LetterToken(m) : m \in CachedAsks} : z \in Pending /\ z # x
    BY <1>13, TokensAre DEF Pending
  <2>5. \A z \in {SentToken(d) : d \in SentAsks} : z \in Pending /\ z # x
    BY <1>13, TokensAre DEF Pending
  <2>6. \A z \in {ThreadToken(w) : w \in ThreadAsks'} : z \in Pending /\ z # x
    <3>1. \A w \in ThreadAsks : ThreadToken(w) \in Pending
      BY DEF Pending
    <3>2. \A w : ThreadToken(w).what = w
      BY TokensAre
    <3> QED BY <1>13, <2>2, <3>1, <3>2
  <2>7. \A z \in Pending' : z \in Pending /\ z # x
    BY <2>3, <2>4, <2>5, <2>6 DEF Pending
  <2> QED BY <2>7
<1>15. \A y \in Pending : AskedBy(y.key, a) => y = x
  BY <1>13 DEF RequestCore, OneInv
<1>16. ~Sends(a)
  BY <1>13 DEF RequestCore, WaitInv, AsksNothing
<1>17. \A c : \A b : AskedBy(c, b)' <=> AskedBy(c, b)
  BY <1>2, <1>9 DEF AskedBy
<1>18. \A b : Sends(b)' <=> Sends(b)
  BY <1>2, <1>9 DEF Sends
<1>19. \A b : \A p : b # a /\ WaitsIn(blocked, b, p) => WaitsIn(blocked', b, p)
  BY <1>4, <1>11 DEF WaitsIn
<1>20. \A z \in Pending' : z \in Pending /\ ~AskedBy(z.key, a)
  BY <1>14, <1>15
<1>21. KeysInv' /\ OneInv'
  BY <1>9, <1>14, <1>17 DEF RequestCore, KeysInv, OneInv
<1>22. WaitInv'
  <2>1. ASSUME NEW z \in Pending', NEW b \in Trainers, AskedBy(z.key, b)'
        PROVE  WaitsIn(blocked', b, z.pkm)
    <3>1. AskedBy(z.key, b) /\ b # a
      BY <1>17, <1>20, <2>1
    <3>2. WaitsIn(blocked, b, z.pkm)
      BY <1>20, <3>1 DEF RequestCore, WaitInv
    <3> QED BY <1>19, <3>1, <3>2
  <2>2. ASSUME NEW b \in Trainers, Sends(b)'
        PROVE  WaitsIn(blocked', b, exec'.trainer.target) /\ AsksNothing(b)'
    <3>1. Sends(b) /\ b # a
      BY <1>16, <1>18, <2>2
    <3>2. WaitsIn(blocked, b, exec.trainer.target) /\ AsksNothing(b)
      BY <3>1 DEF RequestCore, WaitInv
    <3>3. AsksNothing(b)'
      BY <1>17, <1>20, <3>2 DEF AsksNothing
    <3> QED BY <1>2, <1>19, <3>1, <3>2, <3>3
  <2> QED BY <2>1, <2>2 DEF WaitInv
<1>23. AsksNothing(a)' /\ ~Sends(a)'
  BY <1>16, <1>17, <1>18, <1>20 DEF AsksNothing
<1>24. ASSUME NEW w \in threads \ {t}
       PROVE  /\ w.pc = "apply" => Reaches(w)'
              /\ w.pc \in {"exit", "drop"} => LeavesAt(w)'
  <2>1. CASE w.pc = "apply"
    <3>1. Reaches(w)
      BY <2>1 DEF RequestCore, ThreadsInv
    <3>2. w.at # k
      <4>1. SUFFICES ASSUME w.at = k PROVE FALSE
        OBVIOUS
      <4>2. PICK y \in Pending : y = ThreadToken(w)
        BY <2>1 DEF Pending, ThreadAsks, Bearing
      <4>3. y.what = w /\ AskedBy(y.key, a)
        BY <1>4, <2>1, <3>1, <4>1, <4>2, TokensAre DEF ThreadKey, Reaches
      <4>4. y = x
        BY <1>15, <4>3
      <4> QED BY <1>13, <4>3, <4>4
    <3> QED BY <1>11, <1>17, <2>1, <3>1, <3>2 DEF Reaches, WaitsAt
  <2>2. CASE w.pc \in {"exit", "drop"}
    <3>1. LeavesAt(w)
      BY <2>2 DEF RequestCore, ThreadsInv
    <3>2. w.at # k
      BY <1>4, <1>13, <3>1 DEF LeavesAt, AsksNothing
    <3>3. WaitsAt(w)' /\ blocked'[w.at] = blocked[w.at]
      BY <1>11, <3>1, <3>2 DEF LeavesAt, WaitsAt
    <3>4. AsksNothing(blocked[w.at].id) /\ ~Sends(blocked[w.at].id)
      BY <3>1 DEF LeavesAt
    <3>5. PICK b : b = blocked[w.at].id
      OBVIOUS
    <3>6. AsksNothing(b)' /\ ~Sends(b)'
      BY <1>17, <1>18, <1>20, <3>4, <3>5 DEF AsksNothing
    <3> QED BY <2>2, <3>3, <3>5, <3>6 DEF LeavesAt, AsksNothing, Sends
  <2> QED BY <2>1, <2>2
<1>25. HasAll(Answered(t)) => LeavesAt(u)'
  <2> SUFFICES ASSUME HasAll(Answered(t)) PROVE LeavesAt(u)'
    OBVIOUS
  <2>1. Answered(t).state = "WAITING"
    <3>1. blocked[k] \in TrainerRecords
      BY <1>1, <1>6
    <3> QED BY <1>6, <3>1, CaughtRecord DEF Answered
  <2>2. v.state = "WAITING"
    BY <1>5, <2>1 DEF StateOf, HasAll
  <2>3. blocked'[k] = v /\ k \in DOMAIN blocked'
    BY <1>1, <1>5, <1>6
  <2>4. WaitsAt(u)' /\ blocked'[u.at].id = a
    BY <1>4, <1>5, <1>8, <2>2, <2>3 DEF WaitsAt
  <2> QED BY <1>23, <2>4 DEF LeavesAt, AsksNothing, Sends
<1>26. ThreadsInv'
  <2> SUFFICES ASSUME NEW w \in threads'
               PROVE  /\ w.pc = "apply" => Reaches(w)'
                      /\ w.pc \in {"exit", "drop"} => LeavesAt(w)'
    BY DEF ThreadsInv
  <2>1. CASE w \in threads \ {t}
    BY <1>24, <2>1
  <2>2. CASE w = u /\ HasAll(Answered(t))
    BY <1>8, <1>25, <2>2
  <2> QED BY <1>7, <2>1, <2>2
<1> QED BY <1>10, <1>21, <1>22, <1>26 DEF RequestCore

(* No request of the trainer dropped is on its way, and nobody else keeps  *)
(* a position.                                                             *)
LEMMA DropAnswer ==
  ASSUME Base, Sound', Closing', PlanCore, RequestCore, MailTypes, Calm',
         NEW t \in threads, DropCaught(t)
  PROVE  PlanCore' /\ RequestCore'
<1>1. /\ UNCHANGED <<brokerVars, askVars>> /\ threads' = threads \ {t} /\ t.pc = "drop"
  BY DEF DropCaught, Ends
<1>2. /\ UNCHANGED <<up, lastId, catchList, ids>> /\ lastId \in Nat /\ blocked \in Seq(TrainerRecords)
  BY <1>1, AllTypes DEF brokerVars, askVars, Base, Sound, MailTypes, BrokerTypes
<1>3. LeavesAt(t)
  BY <1>1 DEF RequestCore, ThreadsInv
<1>4. /\ PlanCore' /\ UNCHANGED <<runner, exec>> /\ blocked' = RemoveAt(blocked, t.at)
      /\ \A u \in threads \ {t} : ~Holds(u)
  BY <1>2, <1>3, DropPlan DEF LeavesAt
<1>5. t.at \in DOMAIN blocked
  BY <1>3 DEF LeavesAt, WaitsAt
<1>6. PICK a \in Trainers : a = blocked[t.at].id
  BY <1>2, <1>5, RecordParts
<1>7. AsksNothing(a) /\ ~Sends(a)
  BY <1>3, <1>6 DEF LeavesAt
<1>8. \A i \in DOMAIN blocked : i # t.at => \E j \in DOMAIN blocked' : blocked'[j] = blocked[i]
  BY <1>2, <1>4, <1>5, OthersStay
<1>9. \A b : \A p : WaitsIn(blocked, b, p) => WaitsIn(blocked', b, p) \/ b = a
  BY <1>6, <1>8 DEF WaitsIn
<1>10. \A c : \A b : AskedBy(c, b)' <=> AskedBy(c, b)
  BY <1>2, <1>4 DEF AskedBy
<1>11. Follows(Pending, Pending')
  <2>1. Pending' \in SUBSET Pending
    BY <1>1, PendingKept DEF ThreadAsks
  <2> QED BY <2>1, FollowsLess
<1>12. /\ KeysInv' /\ OneInv'
       /\ \A x \in Pending' : \A b \in Trainers : AskedBy(x.key, b)' => WaitsIn(blocked', b, x.pkm)
       /\ \A b \in Trainers : AsksNothing(b) => AsksNothing(b)'
  <2>1. \A i \in DOMAIN catchList' : catchList'[i].id \in 0 .. lastId
    BY <1>2 DEF RequestCore, KeysInv
  <2>2. \A b \in Trainers : \A p : WaitsIn(blocked, b, p) => WaitsIn(blocked', b, p) \/ AsksNothing(b)
    BY <1>7, <1>9
  <2>3. lastId <= lastId' /\ lastId' \in Nat
    BY <1>2
  <2>4. runner'.pc = "ack" => runner.pc = "ack" /\ ids'.runner = ids.runner
    BY <1>2, <1>4
  <2> QED BY <1>2, <1>10, <1>11, <2>1, <2>2, <2>3, <2>4, RequestsKept DEF RequestCore
<1>13. WaitInv'
  <2>1. ASSUME NEW b \in Trainers, Sends(b)'
        PROVE  WaitsIn(blocked', b, exec'.trainer.target) /\ AsksNothing(b)'
    <3>1. Sends(b)
      BY <1>4, <2>1 DEF Sends
    <3>2. WaitsIn(blocked, b, exec.trainer.target) /\ AsksNothing(b)
      BY <3>1 DEF RequestCore, WaitInv
    <3>3. b # a
      BY <1>7, <3>1
    <3> QED BY <1>4, <1>9, <1>12, <3>2, <3>3
  <2> QED BY <1>12, <2>1 DEF WaitInv
<1>14. ThreadsInv'
  BY <1>1, <1>4 DEF ThreadsInv, Holds
<1> QED BY <1>4, <1>12, <1>13, <1>14 DEF RequestCore

(* The steps that leave the trainers alone. *)
LEMMA AsideAnswer ==
  ASSUME CatchingTypes, CatchingTypes', PlanCore, RequestCore,
         UNCHANGED <<lists, exec, runner, closer, catchList, up>>, ids'.runner = ids.runner,
         lastId <= lastId', Follows(Pending, Pending'),
         \A u \in threads' : u \in threads \/ ~Holds(u)
  PROVE  PlanCore' /\ RequestCore'
<1>1. /\ Base /\ Sound' /\ Closing' /\ lastId \in Nat /\ lastId' \in Nat
      /\ blocked \in Seq(TrainerRecords)
  BY AllTypes DEF CatchingTypes, PlanCore, Base, Sound, MailTypes, BrokerTypes
<1>2. UNCHANGED <<new, ready, blocked, exit, exec, runner, closer>>
  BY DEF lists
<1>3. PlanCore'
  BY <1>1, <1>2, SamePlan
<1>4. RequestCore'
  BY <1>1, <1>2, MailRequests
<1> QED BY <1>3, <1>4

LEMMA MailAnswer ==
  ASSUME CatchingTypes, CatchingTypes', PlanCore, RequestCore, Calm',
         \/ \E q \in Queues : Subscribe(q) \/ Cut(q)
         \/ RequestPokemon \/ RegisterGet
         \/ \E i \in DOMAIN stock : Taken(i)
         \/ \E d \in transit : CardLooks(d) \/ CardCatches(d) \/ LocalizedArrives(d)
         \/ \E t \in threads : CardReplies(t) \/ LocalizedLock(t) \/ LocalizedAdd(t)
  PROVE  PlanCore' /\ RequestCore'
<1> DEFINE Aside == /\ UNCHANGED <<lists, exec, runner, closer, catchList, up>>
                    /\ ids'.runner = ids.runner /\ lastId <= lastId'
           Goal == PlanCore' /\ RequestCore'
<1>0. BrokerTypes /\ CardTypes /\ WorkTypes /\ AskTypes /\ lastId \in Nat
  BY DEF CatchingTypes, MailTypes, BrokerTypes
<1>1. ASSUME Aside, Follows(Pending, Pending'), \A u \in threads' : u \in threads \/ ~Holds(u)
      PROVE  Goal
  BY <1>1, AsideAnswer
<1> HIDE DEF Goal
<1>2. ASSUME Aside, Pending' \subseteq Pending, \A u \in threads' : u \in threads \/ ~Holds(u)
      PROVE  Goal
  <2>1. Follows(Pending, Pending')
    BY <1>2, FollowsLess
  <2> QED BY <1>1, <1>2, <2>1
<1>3. ASSUME UNCHANGED <<vars, up, askVars>>, lastId' \in {lastId, lastId + 1}
      PROVE  Aside
  BY <1>0, <1>3 DEF vars, lists, askVars
<1> HIDE DEF Aside
<1>4. ASSUME NEW q \in Queues, Subscribe(q) PROVE Goal
  <2>1. UNCHANGED <<vars, up, lastId, threads, askVars>>
    BY <1>0, <1>4, SubscribeStep
  <2>2. Without({"twice"})'
    BY DEF Calm, Without
  <2>3. Follows(Pending, Pending')
    BY <1>0, <1>4, <2>2, SubscribePending
  <2> QED BY <1>1, <1>3, <2>1, <2>3
<1>5. ASSUME NEW q \in Queues, Cut(q) PROVE Goal
  <2>1. UNCHANGED <<vars, up, lastId, threads, askVars>>
    BY <1>0, <1>5, CutStep
  <2>2. Pending' \subseteq Pending
    BY <1>0, <1>5, CutPending
  <2> QED BY <1>2, <1>3, <2>1, <2>2
<1>6. CASE RequestPokemon
  <2>1. /\ UNCHANGED <<vars, threads, catchList>> /\ ids'.runner = ids.runner
        /\ (\E m \in Letters : m.type = "GET" /\ Published(m)) \/ UNCHANGED brokerVars
    BY <1>0, <1>6, RequestPokemonStep
  <2>2. UNCHANGED up /\ lastId <= lastId'
    BY <1>0, <2>1 DEF Published, brokerVars
  <2>3. Aside
    BY <2>1, <2>2 DEF Aside, vars
  <2>4. Pending' \subseteq Pending
    <3>1. CASE UNCHANGED brokerVars
      BY <2>1, <3>1, PendingKept DEF ThreadAsks
    <3>2. ASSUME NEW m \in Letters, m.type = "GET", Published(m) PROVE Pending' \subseteq Pending
      <4>1. ~Bears(m)
        BY <3>2 DEF Bears
      <4> QED BY <1>0, <2>1, <3>2, <4>1, PublishPending
    <3> QED BY <2>1, <3>1, <3>2
  <2>5. \A u \in threads' : u \in threads \/ ~Holds(u)
    BY <2>1
  <2> QED BY <1>2, <2>3, <2>4, <2>5 DEF Goal
<1>7. CASE RegisterGet
  <2>1. UNCHANGED <<vars, brokerVars, threads, ids, catchList>>
    BY <1>0, <1>7, RegisterGetStep
  <2>2. Aside
    BY <1>0, <2>1 DEF Aside, vars, brokerVars
  <2>3. Pending' \subseteq Pending
    BY <2>1, PendingKept DEF ThreadAsks
  <2>4. \A u \in threads' : u \in threads \/ ~Holds(u)
    BY <2>1
  <2> QED BY <1>2, <2>2, <2>3, <2>4 DEF Goal
<1>8. ASSUME NEW i \in DOMAIN stock, Taken(i) PROVE Goal
  <2>1. UNCHANGED <<vars, brokerVars, threads, askVars>>
    BY <1>0, <1>8, TakenStep
  <2>2. UNCHANGED <<up, lastId>>
    BY <2>1 DEF brokerVars
  <2>3. Pending' \subseteq Pending
    BY <2>1, PendingKept DEF ThreadAsks
  <2> QED BY <1>2, <1>3, <2>1, <2>2, <2>3
<1>9. ASSUME NEW d \in transit, CardLooks(d) \/ LocalizedArrives(d) PROVE Goal
  <2>1. UNCHANGED <<vars, up, lastId, askVars>>
    BY <1>9 DEF CardLooks, LocalizedArrives, Receive
  <2>2. /\ Pending' \subseteq Pending
        /\ \A u \in threads' : u \in threads \/ u.pc \in {"reply", "lock"}
    BY <1>0, <1>9, LooksPending
  <2> QED BY <1>2, <1>3, <2>1, <2>2 DEF Holds
<1>10. ASSUME NEW d \in transit, CardCatches(d) PROVE Goal
  <2>1. UNCHANGED <<vars, up, lastId, askVars>>
    BY <1>10 DEF CardCatches, Receive
  <2>2. Follows(Pending, Pending') /\ \A u \in threads' : u \in threads \/ u.pc = "reply"
    BY <1>0, <1>10, CatchesPending
  <2> QED BY <1>1, <1>3, <2>1, <2>2 DEF Holds
<1>11. ASSUME NEW t \in threads, CardReplies(t) PROVE Goal
  <2>1. /\ UNCHANGED <<vars, askVars>> /\ Ends(t)
        /\ Published(Reply(t)) \/ UNCHANGED brokerVars
    BY <1>0, <1>11, CardRepliesStep
  <2>2. UNCHANGED up /\ lastId' \in {lastId, lastId + 1}
    BY <2>1 DEF Published, brokerVars
  <2>3. Follows(Pending, Pending')
    BY <1>0, <1>11, RepliesPending
  <2> QED BY <1>1, <1>3, <2>1, <2>2, <2>3 DEF Ends
<1>12. ASSUME NEW t \in threads, LocalizedLock(t) \/ LocalizedAdd(t) PROVE Goal
  <2>1. /\ UNCHANGED <<lists, exec, runner, closer, brokerVars, askVars>>
        /\ Ends(t) \/ \E u \in Workers : u.pc = "add" /\ threads' = (threads \ {t}) \cup {u}
    BY <1>0, <1>12, LocalizedStep
  <2>2. Aside
    BY <1>0, <2>1 DEF Aside, brokerVars, askVars
  <2>3. \A u \in threads' : u \in threads \/ u.pc = "add"
    BY <2>1 DEF Ends
  <2>4. Pending' \subseteq Pending
    BY <2>1, <2>3, PendingKept DEF ThreadAsks, Bearing
  <2> QED BY <1>2, <2>2, <2>3, <2>4 DEF Holds
<1> QED BY <1>4, <1>5, <1>6, <1>7, <1>8, <1>9, <1>10, <1>11, <1>12 DEF Goal

LEMMA AskingAnswer ==
  ASSUME CatchingTypes, CatchingTypes', PlanCore, RequestCore, Asking
  PROVE  PlanCore' /\ RequestCore'
<1>0. /\ Base /\ Sound /\ Sound' /\ Closing' /\ BrokerTypes /\ AskTypes /\ lastId \in Nat
  BY DEF CatchingTypes, PlanCore, Base, MailTypes, BrokerTypes
<1>1. CASE AskBroker
  BY <1>0, <1>1, AskBrokerPlan, AskBrokerRequests
<1>2. CASE SendCatch
  <2>1. /\ PlanAside /\ runner.pc = "send" /\ runner'.pc = "ack" /\ UNCHANGED up
    BY <1>0, <1>2, SendCatchStep, SendCatchMail DEF Published
  <2>2. PlanCore'
    BY <1>0, <2>1, SendPlan
  <2> QED BY <1>0, <1>2, <2>2, SendRequests
<1>3. CASE RegisterCatch
  <2>1. /\ PlanAside /\ runner.pc = "ack" /\ runner'.pc = "asked"
    BY <1>0, <1>3, RegisterStep DEF RegisterCatch
  <2>2. UNCHANGED up
    BY <1>3 DEF RegisterCatch, Register, brokerVars
  <2>3. PlanCore'
    BY <1>0, <2>1, <2>2, SendPlan
  <2> QED BY <1>0, <1>3, <2>3, RegisterRequests
<1>4. CASE RegisterGarbage
  BY <1>4 DEF RegisterGarbage, Register, PlanCore, CalmPc
<1>5. CASE Asked
  BY <1>0, <1>5, AskedPlan, AskedRequests
<1> QED BY <1>1, <1>2, <1>3, <1>4, <1>5 DEF Asking

LEMMA AnswerStep ==
  ASSUME CatchingTypes, CatchingTypes', AnswerInv, [CatchingNext]_catchingVars
  PROVE  AnswerInv'
<1>1. CASE CatchingNext
  <2> SUFFICES ASSUME Calm' PROVE PlanCore' /\ RequestCore'
    BY DEF AnswerInv
  <2>1. ~Outage /\ PlanCore /\ RequestCore
    BY <1>1, CalmStep DEF AnswerInv
  <2>2. /\ Base /\ Sound /\ Sound' /\ Closing' /\ MailTypes /\ lastId \in Nat
        /\ blocked \in Seq(TrainerRecords)
    BY <2>1, AllTypes DEF CatchingTypes, PlanCore, Base, Sound, MailTypes, BrokerTypes
  <2>3. CASE PlannerSteps
    <3>1. /\ PlanCore' /\ SameAsker /\ UNCHANGED <<brokerVars, threads, askVars>>
          /\ UNCHANGED blocked \/ (WaitersStay /\ NobodyHolds)
      BY <2>1, <2>3, PlannerPlan
    <3> QED BY <2>1, <2>2, <3>1, PlannerRequests
  <2>4. CASE Asking
    BY <2>1, <2>4, AskingAnswer
  <2>5. CASE Restart
    BY <2>1, <2>5 DEF Restart, PlanCore, CalmPc
  <2>6. ASSUME NEW d \in transit, CaughtArrives(d) PROVE PlanCore' /\ RequestCore'
    <3>1. RequestCore'
      BY <2>1, <2>2, <2>6, CaughtRequests
    <3>2. UNCHANGED <<vars, up>>
      BY <2>6 DEF CaughtArrives, Receive
    <3>3. UNCHANGED <<new, ready, blocked, exit, exec, runner, closer>>
      BY <3>2 DEF vars, lists
    <3> QED BY <2>1, <2>2, <3>1, <3>2, <3>3, SamePlan
  <2>7. ASSUME NEW t \in threads, Refuse(t) \/ ExitCaught(t) \/ Apply(t) \/ DropCaught(t)
        PROVE  PlanCore' /\ RequestCore'
    BY <2>1, <2>2, <2>7, RefuseAnswer, ExitAnswer, ApplyAnswer, DropAnswer
  <2>8. CASE \/ \E q \in Queues : Subscribe(q) \/ Cut(q)
             \/ RequestPokemon \/ RegisterGet
             \/ \E i \in DOMAIN stock : Taken(i)
             \/ \E d \in transit : CardLooks(d) \/ CardCatches(d) \/ LocalizedArrives(d)
             \/ \E t \in threads : CardReplies(t) \/ LocalizedLock(t) \/ LocalizedAdd(t)
    BY <2>1, <2>8, MailAnswer
  <2> QED BY <1>1, <2>1, <2>3, <2>4, <2>5, <2>6, <2>7, <2>8 DEF CatchingNext, Arrives, Processes
<1>2. CASE UNCHANGED catchingVars
  <2> SUFFICES ASSUME Calm' PROVE PlanCore' /\ RequestCore'
    BY DEF AnswerInv
  <2>1. Calm /\ UNCHANGED <<vars, brokerVars, threads, askVars>>
    BY <1>2 DEF catchingVars, Calm, Without
  <2>2. /\ UNCHANGED <<lists, exec, runner, closer, catchList, up>> /\ UNCHANGED ids /\ lastId <= lastId'
    BY <2>1 DEF vars, brokerVars, askVars, CatchingTypes, MailTypes, BrokerTypes
  <2>3. Follows(Pending, Pending')
    <3>1. Pending' \in SUBSET Pending
      BY <2>1, PendingKept DEF ThreadAsks
    <3> QED BY <3>1, FollowsLess
  <2> QED BY <2>1, <2>2, <2>3, AsideAnswer DEF AnswerInv
<1> QED BY <1>1, <1>2

LEMMA InitAnswers == CatchingInit => AnswerInv
<1> SUFFICES ASSUME CatchingInit PROVE PlanCore /\ RequestCore
  BY DEF AnswerInv
<1>1. /\ Base /\ TypeOK /\ \A t \in Trainers : OneList(t)
  BY InitBase, InitCounts DEF CatchingInit, Base, Sound
<1>2. /\ blocked = <<>> /\ runner.pc = "ready" /\ up /\ catchList = <<>>
      /\ cached = {} /\ transit = {} /\ threads = {}
  BY DEF CatchingInit, Init, IdleRunner
<1>3. CopyInv
  <2>1. ASSUME NEW t \in Trainers PROVE CopyOf(t)
    <3>1. Surplus(t) = 1 /\ Listed(exit, t) \in Nat /\ AskOne(t) \in 0 .. 1
      BY <1>1, SurplusForm DEF OneList
    <3> QED BY <3>1 DEF CopyOf
  <2> QED BY <2>1 DEF CopyInv
<1>4. PlanCore
  BY <1>1, <1>2, <1>3 DEF PlanCore, Base, CalmPc, LastInv
<1>5. Pending = {}
  BY <1>2 DEF Pending, CachedAsks, SentAsks, ThreadAsks
<1>6. RequestCore
  BY <1>2, <1>5 DEF RequestCore, KeysInv, WaitInv, OneInv, ThreadsInv, Sends
<1> QED BY <1>4, <1>6

(* A positive answer finds the trainer that asked, waiting in the blocked  *)
(* list for the pokemon that the answer is about, however many wait: the   *)
(* position that processMessageCaught keeps is that of the trainer of the  *)
(* request until the answer is applied, as long as no other was taken out  *)
(* of the list meanwhile, no answer comes twice and the broker runs.       *)
THEOREM AnswersReachTrainers == CatchingSpec => []AnswerReachesItsTrainer
<1> DEFINE Inv == CatchingTypes /\ AnswerInv
<1>1. CatchingInit => Inv
  BY InitCatching, InitAnswers
<1>2. Inv /\ [CatchingNext]_catchingVars => Inv'
  BY CatchingTypesStep, AnswerStep
<1>3. Inv => AnswerReachesItsTrainer
  BY DEF AnswerReachesItsTrainer, AnswerInv, Calm, RequestCore, ThreadsInv, Reaches, WaitsAt
<1> QED BY <1>1, <1>2, <1>3, PTL DEF CatchingSpec

-----------------------------------------------------------------------------
(* The tokens of the trainers.  While no position moved, an answer changes *)
(* the list at the place of a trainer that waits, which has no token: one  *)
(* that it frees is posted for.  Refusals post for whoever executes, which *)
(* is why they are left aside.                                             *)
TokensInv == Calm /\ "refused" \notin mishaps => SemInv

Counted == {"readyTrainer", "execTrainer", "availableTrainersCount"}

LEMMA SameTokens ==
  ASSUME SemInv, CalmPc, CalmPc', UNCHANGED <<new, ready, blocked, closer>>, exec'.on = exec.on,
         \A s \in Counted : SameSem(s),
         \/ UNCHANGED runner
         \/ runner.pc \in AskingPcs \cup {"run"} /\ runner'.pc \in AskingPcs
  PROVE  SemInv'
<1>1. /\ One(runner.pc \in {"exec", "schedule", "remove"}) = One(runner'.pc \in {"exec", "schedule", "remove"})
      /\ One(runner.pc = "schedule") = One(runner'.pc = "schedule")
      /\ One(runner.pc \in {"release", "post"} /\ runner.post = "availableTrainersCount")
           = One(runner'.pc \in {"release", "post"} /\ runner'.post = "availableTrainersCount")
  BY DEF One, AskingPcs
<1> QED BY <1>1 DEF SemInv, SameSem, Counted

(* What an answer makes of the number of trainers that are free. *)
LEMMA FreedOne ==
  ASSUME NEW list \in Seq(TrainerRecords), NEW k \in DOMAIN list, NEW v \in TrainerRecords,
         NEW now, now = [list EXCEPT ![k] = v], list[k].state # "AVAILABLE"
  PROVE  Count(now, "AVAILABLE") = Count(list, "AVAILABLE") + One(v.state = "AVAILABLE")
<1>1. now \in Seq(TrainerRecords) /\ DOMAIN now = DOMAIN list /\ now[k] = v
      /\ \A i \in DOMAIN list : i # k => now[i] = list[i]
  OBVIOUS
<1>2. /\ Count(now, "AVAILABLE") = Cardinality(Free(now))
      /\ Count(list, "AVAILABLE") = Cardinality(Free(list))
  BY <1>1, FreeHits
<1>3. IsFiniteSet(Free(list)) /\ k \notin Free(list)
  <2>1. DOMAIN list = 1 .. Len(list) /\ Len(list) \in Nat
    OBVIOUS
  <2>2. IsFiniteSet(DOMAIN list)
    BY <2>1, FS_Interval
  <2> QED BY <2>2, FS_Subset DEF Free
<1>4. CASE v.state = "AVAILABLE"
  <2>1. Free(now) = Free(list) \cup {k}
    BY <1>1, <1>4 DEF Free
  <2>2. Cardinality(Free(now)) = Cardinality(Free(list)) + 1
    BY <1>3, <2>1, FS_AddElement
  <2> QED BY <1>2, <1>4, <2>2 DEF One
<1>5. CASE v.state # "AVAILABLE"
  <2>1. Free(now) = Free(list)
    BY <1>1, <1>5 DEF Free
  <2>2. Cardinality(Free(list)) \in Nat
    BY <1>3, FS_CardinalityType
  <2> QED BY <1>2, <1>5, <2>1, <2>2 DEF One
<1> QED BY <1>4, <1>5

LEMMA ApplyTokens ==
  ASSUME Base, Sound', SemInv, NEW t, t.at \in Nat, WaitsAt(t), Apply(t)
  PROVE  SemInv'
<1> DEFINE u == Answered(t)
<1>1. /\ AnswerAside /\ UNCHANGED exec /\ t.at \in DOMAIN blocked /\ Applied(t)
      /\ blocked \in Seq(TrainerRecords) /\ sem \in [Semaphores -> Nat]
  BY ApplyStep, AllTypes DEF Base, Sound, WaitsAt, Misapplied
<1>2. PICK v \in TrainerRecords : blocked' = [blocked EXCEPT ![t.at] = v] /\ v.state = StateOf(u)
  BY <1>1 DEF Applied
<1>3. blocked[t.at].state = "WAITING" /\ u.state = "WAITING"
  <2>1. blocked[t.at] \in TrainerRecords
    BY <1>1
  <2> QED BY <2>1, CaughtRecord DEF WaitsAt, Answered
<1>4. \/ HasAll(u) /\ UNCHANGED sem
      \/ ~HasAll(u) /\ Post(IF Fills(u) THEN "deadlockCount" ELSE "availableTrainersCount")
  BY <1>1 DEF Applied
<1> HIDE DEF u
<1>5. (v.state = "AVAILABLE") = ~Fills(u)
  BY <1>2, <1>3 DEF StateOf
<1>6. Count(blocked', "AVAILABLE") = Count(blocked, "AVAILABLE") + One(~Fills(u))
  <2>1. blocked[t.at].state # "AVAILABLE"
    BY <1>3
  <2>2. Count(blocked', "AVAILABLE") = Count(blocked, "AVAILABLE") + One(v.state = "AVAILABLE")
    BY <1>1, <1>2, <2>1, FreedOne
  <2> QED BY <1>5, <2>2
<1>7. /\ sem'["availableTrainersCount"] = sem["availableTrainersCount"] + One(~Fills(u))
      /\ SameSem("readyTrainer") /\ SameSem("execTrainer")
  <2>1. CASE HasAll(u)
    BY <1>1, <1>4, <2>1 DEF HasAll, One, SameSem, Semaphores
  <2>2. CASE ~HasAll(u) /\ Fills(u)
    BY <1>1, <1>4, <2>2, Posts DEF One, SameSem, Semaphores
  <2>3. CASE ~Fills(u)
    BY <1>1, <1>4, <2>3, Posts DEF HasAll, One, SameSem, Semaphores
  <2> QED BY <2>1, <2>2, <2>3
<1>8. UNCHANGED <<new, ready, exec, runner, closer>>
  BY <1>1 DEF AnswerAside
<1>9. Numbers /\ One(~Fills(u)) \in 0 .. 1
  BY AreNumbers DEF Base, Sound, One
<1> DEFINE n == LengthOf(new)
           f == Count(blocked, "AVAILABLE")
           a == sem["availableTrainersCount"]
           h == One(closer.pc \in Holding)
           p == One(runner.pc \in {"release", "post"} /\ runner.post = "availableTrainersCount")
           k == One(~Fills(u))
<1>10. n \in Int /\ f \in Int /\ a \in Int /\ h \in Int /\ p \in Int /\ k \in Int
  BY <1>9 DEF Numbers, One
<1>11. n + f = a + h + p
  BY DEF SemInv
<1> HIDE DEF n, f, a, h, p, k
<1>12. n + (f + k) = (a + k) + h + p
  BY <1>10, <1>11
<1>13. LengthOf(new') + Count(blocked', "AVAILABLE")
         = sem'["availableTrainersCount"] + One(closer'.pc \in Holding)
           + One(runner'.pc \in {"release", "post"} /\ runner'.post = "availableTrainersCount")
  BY <1>6, <1>7, <1>8, <1>12 DEF n, f, a, h, p, k
<1> QED BY <1>7, <1>8, <1>13 DEF SemInv, SameSem

LEMMA AskedTokens ==
  ASSUME Base, Sound', SemInv, CalmPc, Asked
  PROVE  SemInv'
<1>1. /\ Runs("asked", "ready") /\ UNCHANGED <<new, ready, blocked, closer>> /\ ~exec'.on
      /\ sem'["execTrainer"] = sem["execTrainer"] + 1
      /\ SameSem("readyTrainer") /\ SameSem("availableTrainersCount")
  BY AskedStep DEF Base, Runs, Apart, OthersSame, Semaphores
<1>2. runner.pc = "asked" /\ runner'.pc = "ready"
  BY <1>1 DEF Runs
<1>3. exec.on
  BY <1>2 DEF Base, Sound, RunnerInv, Executing, AskingPcs
<1>4. Numbers
  BY AreNumbers DEF Base, Sound
<1> QED BY <1>1, <1>2, <1>3, <1>4 DEF SemInv, Numbers, One, SameSem

LEMMA DropTokens ==
  ASSUME Base, SemInv, NEW t, WaitsAt(t), DropCaught(t), blocked' = RemoveAt(blocked, t.at)
  PROVE  SemInv'
<1>1. /\ blocked \in Seq(TrainerRecords) /\ t.at \in DOMAIN blocked /\ t.at \in Nat \ {0}
      /\ blocked[t.at].state = "WAITING"
  BY AllTypes DEF Base, Sound, WaitsAt
<1>2. /\ UNCHANGED <<new, ready, exec, closer, runner>> /\ \A s \in Counted : SameSem(s)
  BY <1>1, DropCaughtStep DEF Base, AnswerAside, OthersSame, Counted, Semaphores
<1>3. Count(blocked', "AVAILABLE") = Count(blocked, "AVAILABLE")
  <2>1. Count(RemoveAt(blocked, t.at), "AVAILABLE")
          = Count(blocked, "AVAILABLE") - One(blocked[t.at].state = "AVAILABLE")
    BY <1>1, RemoveShorter DEF Shorter
  <2>2. Count(blocked, "AVAILABLE") \in Nat
    BY <1>1, CountsNat
  <2> QED BY <1>1, <2>1, <2>2 DEF One
<1> QED BY <1>2, <1>3 DEF SemInv, SameSem, Counted

LEMMA AskTokens ==
  ASSUME Base, SemInv, AskBroker
  PROVE  SemInv'
<1>1. /\ UNCHANGED <<new, ready, closer, sem>> /\ exec'.on = exec.on
      /\ runner.pc = "run" /\ runner'.pc = "send"
      /\ Count(blocked', "AVAILABLE")
           = Count(blocked, "AVAILABLE") + One(exec'.trainer.state = "AVAILABLE")
      /\ exec'.trainer.state = "WAITING"
  BY AskBrokerStep DEF Base, Runs, Apart, Longer
<1>2. Count(blocked', "AVAILABLE") = Count(blocked, "AVAILABLE")
  <2>1. Count(blocked, "AVAILABLE") \in Nat
    BY AreNumbers DEF Base, Sound, Numbers
  <2> QED BY <1>1, <2>1 DEF One
<1>3. /\ One(runner.pc \in {"exec", "schedule", "remove"}) = One(runner'.pc \in {"exec", "schedule", "remove"})
      /\ One(runner.pc = "schedule") = One(runner'.pc = "schedule")
      /\ One(runner.pc \in {"release", "post"} /\ runner.post = "availableTrainersCount")
           = One(runner'.pc \in {"release", "post"} /\ runner'.post = "availableTrainersCount")
  BY <1>1 DEF One
<1> QED BY <1>1, <1>2, <1>3 DEF SemInv

LEMMA TokensStep ==
  ASSUME CatchingTypes, CatchingTypes', AnswerInv, TokensInv, [CatchingNext]_catchingVars
  PROVE  TokensInv'
<1>1. CASE CatchingNext
  <2> SUFFICES ASSUME Calm', "refused" \notin mishaps' PROVE SemInv'
    BY DEF TokensInv
  <2>1. /\ ~Outage /\ Calm /\ PlanCore /\ RequestCore /\ "refused" \notin mishaps
    BY <1>1, CalmStep, MishapsGrow DEF AnswerInv
  <2>2. /\ Base /\ Base' /\ Sound /\ Sound' /\ Closing' /\ SemInv /\ CalmPc /\ CalmPc' /\ WorkTypes
    <3>1. PlanCore'
      BY AnswerStep DEF AnswerInv
    <3> QED BY <2>1, <3>1 DEF CatchingTypes, PlanCore, Base, MailTypes, TokensInv
  <2>3. CASE PlannerSteps
    <3>1. Closer \/ Schedule \/ StartSearch \/ Finish
      BY <2>2, <2>3, PlannerMail DEF CalmPc
    <3>2. Schedule => Runner
      BY DEF Runner
    <3> QED BY <2>2, <3>1, <3>2, CloserKeepsSem, RunKeepsSem, OutsideKeepsSem DEF Outside
  <2>4. CASE AskBroker
    BY <2>2, <2>4, AskTokens
  <2>5. ASSUME PlanAside, runner.pc \in AskingPcs, runner'.pc \in AskingPcs PROVE SemInv'
    <3>1. UNCHANGED <<new, ready, blocked, closer, exec, sem>>
      BY <2>5 DEF PlanAside, lists
    <3> QED BY <2>2, <2>5, <3>1, SameTokens DEF SameSem
  <2>6. CASE SendCatch
    BY <2>2, <2>5, <2>6, SendCatchStep DEF AskingPcs
  <2>7. CASE RegisterCatch \/ RegisterGarbage
    BY <2>2, <2>5, <2>7, RegisterStep DEF AskingPcs, RegisterCatch, RegisterGarbage
  <2>8. CASE Asked
    BY <2>2, <2>8, AskedTokens
  <2>9. ASSUME UNCHANGED vars PROVE SemInv'
    BY <2>2, <2>9, SameTokens DEF vars, lists, SameSem
  <2>10. CASE \/ \E q \in Queues : Subscribe(q) \/ Cut(q)
              \/ Restart \/ RequestPokemon \/ RegisterGet
              \/ \E i \in DOMAIN stock : Taken(i)
              \/ \E d \in transit : Arrives(d)
              \/ \E t \in threads : CardReplies(t)
    BY <2>9, <2>10, PlanAlone
  <2>11. ASSUME NEW t \in threads, LocalizedLock(t) \/ LocalizedAdd(t) PROVE SemInv'
    <3>1. UNCHANGED <<lists, exec, runner, closer>>
      BY <2>2, <2>11, LocalizedStep
    <3>2. \A s \in Counted : SameSem(s)
      BY <2>2, <2>11, AllTypes DEF LocalizedLock, LocalizedAdd, Wait, SameSem, Counted, Semaphores, Sound
    <3> QED BY <2>2, <3>1, <3>2, SameTokens DEF lists
  <2>12. ASSUME NEW t \in threads, Refuse(t) PROVE FALSE
    BY <2>12 DEF Refuse
  <2>13. ASSUME NEW t \in threads, Apply(t) PROVE SemInv'
    <3>1. WaitsAt(t) /\ t.at \in Nat
      BY <2>1, <2>2, <2>13 DEF RequestCore, ThreadsInv, Reaches, Apply, WorkTypes, Workers
    <3> QED BY <2>2, <2>13, <3>1, ApplyTokens
  <2>14. ASSUME NEW t \in threads, ExitCaught(t) PROVE SemInv'
    <3>1. /\ UNCHANGED <<new, ready, blocked, exec, closer, runner>> /\ \A s \in Counted : SameSem(s)
      BY <2>2, <2>14, ExitCaughtStep DEF AnswerAside, OthersSame, Counted, Semaphores
    <3> QED BY <2>2, <3>1, SameTokens
  <2>15. ASSUME NEW t \in threads, DropCaught(t) PROVE SemInv'
    <3>1. WaitsAt(t)
      BY <2>1, <2>15 DEF RequestCore, ThreadsInv, LeavesAt, DropCaught
    <3>2. UNCHANGED up
      BY <2>15 DEF DropCaught, brokerVars
    <3>3. blocked' = RemoveAt(blocked, t.at)
      BY <2>1, <2>2, <2>15, <3>1, <3>2, DropPlan
    <3> QED BY <2>2, <2>15, <3>1, <3>3, DropTokens
  <2> QED BY <1>1, <2>1, <2>3, <2>4, <2>6, <2>7, <2>8, <2>10, <2>11, <2>12, <2>13, <2>14, <2>15
          DEF CatchingNext, Asking, Processes
<1>2. CASE UNCHANGED catchingVars
  BY <1>2 DEF catchingVars, vars, lists, TokensInv, Calm, Without, SemInv, LengthOf, Count
<1> QED BY <1>1, <1>2

LEMMA InitTokens == CatchingInit => TokensInv
<1> SUFFICES ASSUME CatchingInit PROVE SemInv
  BY DEF TokensInv
<1>1. Init
  BY DEF CatchingInit
<1> QED BY <1>1, InitCounts

(* The semaphores of the planner agree with its lists while answers change *)
(* them too: a trainer that an answer frees has a token, one that waits or *)
(* leaves has none, and the token of the executor is given back by whoever *)
(* asks, as long as nobody was refused, no position moved, no answer came  *)
(* twice and the broker runs.                                              *)
THEOREM AnswersKeepTokens == CatchingSpec => []TokensCountFreeTrainers
<1> DEFINE Inv == CatchingTypes /\ AnswerInv /\ TokensInv
<1>1. CatchingInit => Inv
  BY InitCatching, InitAnswers, InitTokens
<1>2. Inv /\ [CatchingNext]_catchingVars => Inv'
  BY CatchingTypesStep, AnswerStep, TokensStep
<1>3. Inv => TokensCountFreeTrainers
  BY SemForm DEF TokensCountFreeTrainers, TokensInv, Calm, Without, CatchingTypes, Sound
<1> QED BY <1>1, <1>2, <1>3, PTL DEF CatchingSpec

-----------------------------------------------------------------------------
(* What is missing.  While no subscription is cut, nothing is answered     *)
(* twice or before its id is registered and no position moved, each        *)
(* request is in one place: no two of those on their way have the same id. *)
(* So what GameCard hands out is one answer more, which a reply, a         *)
(* delivery and its arrival only move, and one that is applied is struck   *)
(* off what is missing of the name it was asked under.                     *)
Undisturbed == Without(Faults \cup {"unknown", "twice", "moved"})

LinksOn == \A q \in Queues : link[q].on
KeysDistinct == \A x, y \in Pending : x.key = y.key => x = y
CardAnswers == \A t \in threads : t.pc = "reply" => t.msg.type \in {"GET", "CATCH"}
Owed(s) == Missing(s) + OnTheWay(s) - HandedOut(s)
MissesOwed == \A s \in Species : missing[s] = Max({0, Owed(s)})
MissCore == LinksOn /\ KeysDistinct /\ CardAnswers /\ MissesOwed
MissInv == Undisturbed => MissCore /\ "outage" \notin mishaps

YesRepliedFor(s) == {t \in threads : /\ t.pc = "reply" /\ t.msg.type = "CATCH" /\ t.at = 1
                                     /\ t.pkm.name = s}
YesSentFor(s) == {d \in transit : /\ d.msg.type = "CAUGHT" /\ d.msg.n = 1
                                  /\ d.msg.pkm.name = s}
YesAppliedFor(s) == {t \in threads : t.pc = "apply" /\ t.pkm.name = s}

LEMMA MaxOfZero ==
  ASSUME NEW x \in Int
  PROVE  Max({0, x}) = IF x > 0 THEN x ELSE 0
<1> DEFINE m == IF x > 0 THEN x ELSE 0
<1>1. m \in {0, x} /\ \A y \in {0, x} : m >= y
  OBVIOUS
<1>2. \A z \in {0, x} : (\A y \in {0, x} : z >= y) => z = m
  OBVIOUS
<1> HIDE DEF m
<1>3. Max({0, x}) = m
  BY <1>1, <1>2 DEF Max
<1> QED BY <1>3 DEF m

(* A set of answers that gains or loses one, or stays. *)
Changes(S, T, k) ==
  \/ k = 0 /\ T = S
  \/ k = 1 /\ \E x : x \notin S /\ T = S \cup {x}
  \/ k = -1 /\ \E x \in S : T = S \ {x}

LEMMA ChangesCount ==
  ASSUME NEW S, IsFiniteSet(S), NEW T, NEW k, Changes(S, T, k)
  PROVE  /\ Cardinality(S) \in Nat /\ Cardinality(T) = Cardinality(S) + k
         /\ k \in {-1, 0, 1}
<1>0. Cardinality(S) \in Nat
  BY FS_CardinalityType
<1>1. CASE k = 0 /\ T = S
  BY <1>0, <1>1
<1>2. CASE k = 1 /\ \E x : x \notin S /\ T = S \cup {x}
  <2>1. PICK x : x \notin S /\ T = S \cup {x}
    BY <1>2
  <2>2. Cardinality(S \cup {x}) = Cardinality(S) + 1
    BY <2>1, FS_AddElement
  <2> QED BY <1>0, <1>2, <2>1, <2>2
<1>3. CASE k = -1 /\ \E x \in S : T = S \ {x}
  <2>1. PICK x \in S : T = S \ {x}
    BY <1>3
  <2>2. Cardinality(S \ {x}) = Cardinality(S) - 1
    BY FS_RemoveElement
  <2> QED BY <1>0, <1>3, <2>1, <2>2
<1> QED BY <1>1, <1>2, <1>3 DEF Changes

LEMMA OwedInt ==
  ASSUME MailTypes, NEW s \in Species
  PROVE  /\ Owed(s) \in Int /\ OnTheWay(s) \in Int /\ HandedOut(s) \in Int /\ Missing(s) \in Int
         /\ IsFiniteSet(YesRepliedFor(s)) /\ IsFiniteSet(YesSentFor(s))
         /\ IsFiniteSet(YesAppliedFor(s))
         /\ OnTheWay(s) = Cardinality(YesRepliedFor(s)) + Cardinality(YesSentFor(s))
                            + Cardinality(YesAppliedFor(s))
<1>1. /\ YesRepliedFor(s) \in SUBSET threads /\ YesAppliedFor(s) \in SUBSET threads
      /\ YesSentFor(s) \in SUBSET transit
  BY DEF YesRepliedFor, YesAppliedFor, YesSentFor
<1>2. IsFiniteSet(threads) /\ IsFiniteSet(transit) /\ CardTypes
  BY DEF MailTypes, WorkTypes, BrokerTypes
<1>3. /\ IsFiniteSet(YesRepliedFor(s)) /\ IsFiniteSet(YesSentFor(s))
      /\ IsFiniteSet(YesAppliedFor(s))
  BY <1>1, <1>2, FS_Subset
<1>4. OnTheWay(s) = Cardinality(YesRepliedFor(s)) + Cardinality(YesSentFor(s))
                      + Cardinality(YesAppliedFor(s))
  BY DEF OnTheWay, YesRepliedFor, YesSentFor, YesAppliedFor
<1>5. /\ Cardinality(YesRepliedFor(s)) \in Nat /\ Cardinality(YesSentFor(s)) \in Nat
      /\ Cardinality(YesAppliedFor(s)) \in Nat
  BY <1>3, FS_CardinalityType
<1>6. OnTheWay(s) \in Int /\ HandedOut(s) \in Int /\ Missing(s) \in Int
  BY <1>2, <1>4, <1>5, HandedInt, MissingNat
<1>7. Owed(s) \in Int
  BY <1>6 DEF Owed
<1> QED BY <1>3, <1>4, <1>6, <1>7

LEMMA OwedMoves ==
  ASSUME MailTypes, NEW s \in Species, NEW r, NEW n, NEW a, NEW h \in Int,
         Changes(YesRepliedFor(s), YesRepliedFor(s)', r),
         Changes(YesSentFor(s), YesSentFor(s)', n),
         Changes(YesAppliedFor(s), YesAppliedFor(s)', a),
         HandedOut(s)' = HandedOut(s) + h
  PROVE  Owed(s)' = Owed(s) + (r + n + a - h)
<1>1. /\ Owed(s) \in Int /\ OnTheWay(s) \in Int /\ HandedOut(s) \in Int /\ Missing(s) \in Int
      /\ IsFiniteSet(YesRepliedFor(s)) /\ IsFiniteSet(YesSentFor(s))
      /\ IsFiniteSet(YesAppliedFor(s))
      /\ OnTheWay(s) = Cardinality(YesRepliedFor(s)) + Cardinality(YesSentFor(s))
                         + Cardinality(YesAppliedFor(s))
  BY OwedInt
<1>2. OnTheWay(s)' = Cardinality(YesRepliedFor(s)') + Cardinality(YesSentFor(s)')
                       + Cardinality(YesAppliedFor(s)')
  BY DEF OnTheWay, YesRepliedFor, YesSentFor, YesAppliedFor
<1>3. /\ Cardinality(YesRepliedFor(s)) \in Nat /\ r \in {-1, 0, 1}
      /\ Cardinality(YesRepliedFor(s)') = Cardinality(YesRepliedFor(s)) + r
  BY <1>1, ChangesCount
<1>4. /\ Cardinality(YesSentFor(s)) \in Nat /\ n \in {-1, 0, 1}
      /\ Cardinality(YesSentFor(s)') = Cardinality(YesSentFor(s)) + n
  BY <1>1, ChangesCount
<1>5. /\ Cardinality(YesAppliedFor(s)) \in Nat /\ a \in {-1, 0, 1}
      /\ Cardinality(YesAppliedFor(s)') = Cardinality(YesAppliedFor(s)) + a
  BY <1>1, ChangesCount
<1>6. OnTheWay(s)' = OnTheWay(s) + (r + n + a)
  BY <1>1, <1>2, <1>3, <1>4, <1>5
<1>7. Owed(s)' = Missing(s) + OnTheWay(s)' - HandedOut(s)'
  BY DEF Owed, Missing
<1> QED BY <1>1, <1>3, <1>4, <1>5, <1>6, <1>7 DEF Owed

LEMMA HandedStays ==
  ASSUME UNCHANGED <<stock, taken>>, NEW s
  PROVE  HandedOut(s)' = HandedOut(s)
BY DEF HandedOut, Amount

LEMMA OwedStays ==
  ASSUME MailTypes, UNCHANGED <<stock, taken>>, NEW s \in Species,
         YesRepliedFor(s)' = YesRepliedFor(s), YesSentFor(s)' = YesSentFor(s),
         YesAppliedFor(s)' = YesAppliedFor(s)
  PROVE  Owed(s)' = Owed(s)
<1>1. OnTheWay(s)' = OnTheWay(s)
  BY DEF OnTheWay, YesRepliedFor, YesSentFor, YesAppliedFor
<1>2. HandedOut(s)' = HandedOut(s)
  BY HandedStays
<1> QED BY <1>1, <1>2 DEF Owed, Missing

LEMMA KeysFollow ==
  ASSUME KeysDistinct, Follows(Pending, Pending')
  PROVE  KeysDistinct'
<1>1. PICK g \in [Pending' -> Pending] :
        /\ \A x \in Pending' : g[x].key = x.key
        /\ \A x, y \in Pending' : g[x] = g[y] => x = y
  BY DEF Follows
<1>2. ASSUME NEW x \in Pending', NEW y \in Pending', x.key = y.key PROVE x = y
  <2>1. g[x] \in Pending /\ g[y] \in Pending /\ g[x].key = g[y].key
    BY <1>1, <1>2
  <2> QED BY <1>1, <2>1 DEF KeysDistinct
<1> QED BY <1>2 DEF KeysDistinct

(* The marks that a step may leave, and what must be so to leave none. *)
LEMMA MarksAre ==
  ASSUME CatchingNext
  PROVE  mishaps' \subseteq mishaps \cup Faults \cup {"unknown", "twice", "moved", "refused"}
<1>1. CASE PlannerSteps
  BY <1>1 DEF PlannerSteps, Shortened
<1>2. CASE Asking
  BY <1>2 DEF Asking, AskBroker, SendCatch, RegisterCatch, RegisterGarbage, Register, Asked
<1>3. CASE RequestPokemon \/ RegisterGet \/ Restart
  BY <1>3 DEF RequestPokemon, RegisterGet, Restart
<1>4. CASE (\E q \in Queues : Subscribe(q) \/ Cut(q)) \/ Outage
  <2>1. ASSUME NEW q \in Queues, Subscribe(q) PROVE mishaps' \subseteq mishaps \cup {"twice"}
    BY <2>1 DEF Subscribe
  <2>2. ASSUME NEW q \in Queues, Cut(q) PROVE mishaps' \subseteq mishaps \cup Faults
    BY <2>2 DEF Cut, Happens
  <2>3. CASE Outage
    BY <2>3 DEF Outage, Happens
  <2> QED BY <1>4, <2>1, <2>2, <2>3
<1>5. CASE \E i \in DOMAIN stock : Taken(i)
  BY <1>5 DEF Taken
<1>6. CASE \E d \in transit : Arrives(d)
  BY <1>6 DEF Arrives, CardLooks, CardCatches, LocalizedArrives, CaughtArrives
<1>7. CASE \E t \in threads : Processes(t)
  BY <1>7 DEF Processes, CardReplies, LocalizedLock, LocalizedAdd, Refuse, Apply, ExitCaught,
              DropCaught, Shortened
<1> QED BY <1>1, <1>2, <1>3, <1>4, <1>5, <1>6, <1>7 DEF CatchingNext

LEMMA UndisturbedStep ==
  ASSUME CatchingNext, MissInv, AnswerInv, Undisturbed'
  PROVE  /\ Undisturbed /\ MissCore /\ "outage" \notin mishaps' /\ PlanCore /\ RequestCore
         /\ ~ \E q \in Queues : Subscribe(q) \/ Cut(q)
         /\ ~Outage /\ ~Restart
<1>1. Undisturbed
  BY MishapsGrow DEF Undisturbed, Without
<1>2. MissCore /\ "outage" \notin mishaps
  BY <1>1 DEF MissInv
<1>3. "outage" \notin mishaps'
  <2>1. mishaps' \cap Faults = {}
    BY DEF Undisturbed, Without
  <2> QED BY <1>2, <2>1, MarksAre
<1>4. Calm
  BY <1>1, <1>2 DEF Undisturbed, Calm, Without
<1>5. PlanCore /\ RequestCore
  BY <1>4 DEF AnswerInv
<1>6. ASSUME NEW q \in Queues PROVE ~Subscribe(q) /\ ~Cut(q)
  BY <1>2 DEF MissCore, LinksOn, Subscribe, Cut, Happens, Undisturbed, Without
<1>7. ~Outage /\ ~Restart
  BY <1>3, <1>5 DEF Outage, Restart, PlanCore, CalmPc
<1> QED BY <1>1, <1>2, <1>3, <1>5, <1>6, <1>7

(* Only a catch without a broker, or an answer, is struck off.             *)
LEMMA PlanMisses ==
  ASSUME Closer \/ Schedule \/ StartSearch \/ Finish
  PROVE  missing' = missing
<1>1. CASE Closer
  BY <1>1 DEF Closer, WaitTrainer, WaitPokemon, LockAvailable, Look, LookedAtAll, Choose, Drop,
              GiveBack, UnlockAvailable
<1>2. CASE Schedule
  BY <1>2 DEF Schedule, WaitReady, WaitExec, AddToExec, RemoveFromReady, Move, Place, Release,
              PostPlaced, Preempt, Requeue, GiveWay, GaveWay, RemoveFromExec
<1>3. CASE StartSearch \/ Finish
  BY <1>3 DEF StartSearch, Finish, TakeAll
<1> QED BY <1>1, <1>2, <1>3

(* The steps that hand out nothing and strike off nothing: the requests    *)
(* move on, and what is owed stays.                                        *)
LEMMA MissesKept ==
  ASSUME MissCore, KeysDistinct', missing' = missing,
         \A q \in Queues : link'[q].on = link[q].on,
         \A t \in threads' : t \in threads \/ t.pc # "reply" \/ t.msg.type \in {"GET", "CATCH"},
         \A s \in Species : Owed(s)' = Owed(s)
  PROVE  MissCore'
<1>1. LinksOn' /\ CardAnswers'
  BY DEF MissCore, LinksOn, CardAnswers
<1>2. ASSUME NEW s \in Species PROVE missing'[s] = Max({0, Owed(s)'})
  BY DEF MissCore, MissesOwed
<1>3. MissesOwed'
  BY <1>2 DEF MissesOwed
<1> QED BY <1>1, <1>3 DEF MissCore

LEMMA AsideMisses ==
  ASSUME MailTypes, MissCore, Pending' \subseteq Pending, missing' = missing,
         \A q \in Queues : link'[q].on = link[q].on, UNCHANGED <<stock, taken>>,
         \A d \in transit \cup transit' :
           d \in transit \cap transit' \/ d.msg.type # "CAUGHT" \/ d.msg.n # 1,
         \A t \in threads \cup threads' :
           \/ t \in threads \cap threads'
           \/ t.pc \notin {"apply", "reply"}
           \/ t.pc = "reply" /\ t.msg.type = "GET"
  PROVE  MissCore'
<1>1. KeysDistinct'
  BY DEF MissCore, KeysDistinct
<1>2. ASSUME NEW s \in Species PROVE Owed(s)' = Owed(s)
  <2>1. YesRepliedFor(s)' = YesRepliedFor(s) /\ YesAppliedFor(s)' = YesAppliedFor(s)
    BY DEF YesRepliedFor, YesAppliedFor
  <2>2. YesSentFor(s)' = YesSentFor(s)
    BY DEF YesSentFor
  <2> QED BY <2>1, <2>2, OwedStays
<1> QED BY <1>1, <1>2, MissesKept

(* With every queue subscribed to, what is published is sent.              *)
LEMMA PublishSends ==
  ASSUME BrokerTypes, LinksOn, NEW m \in Letters, Published(m)
  PROVE  /\ transit' = transit \cup {[msg |-> Stamped(m), times |-> link[m.type].times]}
         /\ \A q \in Queues : link'[q].on = link[q].on
<1>1. m.type \in Queues
  BY DEF Letters
<1> QED BY <1>1 DEF Published, LinksOn

LEMMA WorkMisses ==
  ASSUME MailTypes, MissCore, UNCHANGED <<brokerVars, stock, taken>>, missing' = missing,
         \A t \in threads \cup threads' :
           t \in threads \cap threads' \/ t.pc \notin {"apply", "reply"}
  PROVE  MissCore'
<1>1. ThreadAsks' \subseteq ThreadAsks
  BY DEF ThreadAsks, Bearing
<1>2. Pending' \subseteq Pending
  BY <1>1, PendingKept
<1>3. transit' = transit /\ \A q \in Queues : link'[q].on = link[q].on
  BY DEF brokerVars
<1> QED BY <1>2, <1>3, AsideMisses

LEMMA ReceiveMisses ==
  ASSUME MailTypes, MissCore, NEW d \in transit, d.msg.type # "CAUGHT", NEW S, Receive(d, S),
         \A t \in S : t.pc = "lock" \/ (t.pc = "reply" /\ t.msg.type = "GET"),
         UNCHANGED <<stock, taken>>, missing' = missing
  PROVE  MissCore'
<1>1. \A t \in S : ~Bearing(t)
  BY DEF Bearing
<1>2. Pending' \subseteq Pending
  BY <1>1, ReceivePending
<1>3. /\ \A q \in Queues : link'[q].on = link[q].on
      /\ \A e \in transit \cup transit' : e \in transit \cap transit' \/ e.msg.type # "CAUGHT"
      /\ \A t \in threads \cup threads' : t \in threads \cap threads' \/ t \in S
  BY DEF Receive
<1> QED BY <1>2, <1>3, AsideMisses

LEMMA AsideSteps ==
  ASSUME CatchingTypes, MissCore, CalmPc,
         \/ PlannerSteps \/ AskBroker \/ RegisterCatch \/ RegisterGarbage \/ Asked
         \/ RequestPokemon \/ RegisterGet
         \/ \E d \in transit : CardLooks(d) \/ LocalizedArrives(d)
         \/ \E t \in threads : \/ LocalizedLock(t) \/ LocalizedAdd(t)
                               \/ Refuse(t) \/ ExitCaught(t) \/ DropCaught(t)
  PROVE  MissCore'
<1>0. /\ Sound /\ MailTypes /\ BrokerTypes /\ WorkTypes /\ CardTypes /\ AskTypes
      /\ LinksOn
  BY DEF CatchingTypes, MailTypes, MissCore
<1>1. CASE PlannerSteps
  <2>1. /\ UNCHANGED <<brokerVars, stock, taken, threads>>
        /\ Closer \/ Schedule \/ StartSearch \/ Finish
    BY <1>1, PlannerMail DEF CalmPc
  <2> QED BY <1>0, <2>1, PlanMisses, WorkMisses
<1>2. CASE AskBroker \/ RegisterCatch \/ RegisterGarbage \/ Asked
  <2>1. UNCHANGED <<brokerVars, cardVars, threads, missing>>
    BY <1>2 DEF AskBroker, RegisterCatch, RegisterGarbage, Register, Asked, RemoveFromExec
  <2> QED BY <1>0, <2>1, WorkMisses DEF cardVars
<1>3. CASE RequestPokemon
  <2>1. /\ UNCHANGED <<vars, cardVars, threads>>
        /\ (\E m \in Letters : m.type = "GET" /\ Published(m)) \/ UNCHANGED brokerVars
    BY <1>0, <1>3, RequestPokemonStep
  <2>2. UNCHANGED <<stock, taken, missing>>
    BY <2>1 DEF vars, cardVars
  <2>3. CASE UNCHANGED brokerVars
    BY <1>0, <2>1, <2>2, <2>3, WorkMisses
  <2>4. ASSUME NEW m \in Letters, m.type = "GET", Published(m) PROVE MissCore'
    <3>1. ~Bears(m)
      BY <2>4 DEF Bears
    <3>2. Pending' \subseteq Pending
      BY <1>0, <2>1, <2>4, <3>1, PublishPending
    <3>3. /\ transit' = transit \cup {[msg |-> Stamped(m), times |-> link[m.type].times]}
          /\ \A q \in Queues : link'[q].on = link[q].on
      BY <1>0, <2>4, PublishSends
    <3>4. Stamped(m).type = "GET"
      BY <1>0, <2>4, StampedLetter
    <3>5. \A d \in transit \cup transit' : d \in transit \cap transit' \/ d.msg.type # "CAUGHT"
      BY <3>3, <3>4
    <3> QED BY <1>0, <2>1, <2>2, <3>2, <3>3, <3>5, AsideMisses
  <2> QED BY <2>1, <2>3, <2>4
<1>4. CASE RegisterGet
  <2>1. UNCHANGED <<vars, brokerVars, cardVars, threads>>
    BY <1>0, <1>4, RegisterGetStep
  <2> QED BY <1>0, <2>1, WorkMisses DEF vars, cardVars
<1>5. ASSUME NEW d \in transit, CardLooks(d) PROVE MissCore'
  <2>1. /\ UNCHANGED <<vars, cardVars>>
        /\ \E t \in Workers : t.pc = "reply" /\ t.msg = d.msg /\ d.msg.type = "GET"
                              /\ Receive(d, {t})
    BY <1>0, <1>5, CardLooksStep
  <2>2. UNCHANGED <<stock, taken, missing>>
    BY <2>1 DEF vars, cardVars
  <2> QED BY <1>0, <2>1, <2>2, ReceiveMisses
<1>6. ASSUME NEW d \in transit, LocalizedArrives(d) PROVE MissCore'
  <2>1. /\ UNCHANGED <<vars, cardVars>> /\ d.msg.type = "LOCALIZED"
        /\ Receive(d, {}) \/ \E t \in Workers : t.pc = "lock" /\ Receive(d, {t})
    BY <1>0, <1>6, LocalizedArrivesStep
  <2>2. UNCHANGED <<stock, taken, missing>>
    BY <2>1 DEF vars, cardVars
  <2>3. ASSUME NEW S, Receive(d, S), \A t \in S : t.pc = "lock" PROVE MissCore'
    BY <1>0, <2>1, <2>2, <2>3, ReceiveMisses
  <2>4. CASE Receive(d, {})
    BY <2>3, <2>4
  <2>5. ASSUME NEW t \in Workers, t.pc = "lock", Receive(d, {t}) PROVE MissCore'
    BY <2>3, <2>5
  <2> QED BY <2>1, <2>4, <2>5
<1>7. ASSUME NEW t \in threads, LocalizedLock(t) \/ LocalizedAdd(t) PROVE MissCore'
  <2>1. /\ UNCHANGED <<brokerVars, cardVars, missing>> /\ t.pc \in {"lock", "add"}
        /\ Ends(t) \/ \E u \in Workers : u.pc = "add" /\ threads' = (threads \ {t}) \cup {u}
    BY <1>0, <1>7, LocalizedStep
  <2>2. \A u \in threads \cup threads' :
          u \in threads \cap threads' \/ u.pc \notin {"apply", "reply"}
    BY <2>1 DEF Ends
  <2> QED BY <1>0, <2>1, <2>2, WorkMisses DEF cardVars
<1>8. ASSUME NEW t \in threads, Refuse(t) \/ ExitCaught(t) \/ DropCaught(t) PROVE MissCore'
  <2>1. /\ UNCHANGED <<brokerVars, cardVars>>
        /\ \A u \in threads' : u \in threads \/ u.pc \in {"exit", "drop"}
        /\ Ends(t) \/ GoesTo(t, "exit") \/ GoesTo(t, "drop")
    BY <1>0, <1>8, AnswerWork
  <2>2. missing' = missing /\ t.pc \in {"refuse", "exit", "drop"}
    BY <1>8 DEF Refuse, ExitCaught, DropCaught
  <2>3. \A u \in threads \cup threads' :
          u \in threads \cap threads' \/ u.pc \notin {"apply", "reply"}
    BY <2>1, <2>2 DEF Ends, GoesTo
  <2> QED BY <1>0, <2>1, <2>2, <2>3, WorkMisses DEF cardVars
<1> QED BY <1>1, <1>2, <1>3, <1>4, <1>5, <1>6, <1>7, <1>8

(* A request that is sent has an id of its own.                            *)
LEMMA SendMisses ==
  ASSUME CatchingTypes, MissCore, KeysInv, SendCatch
  PROVE  MissCore'
<1>0. /\ Sound /\ MailTypes /\ BrokerTypes /\ AskTypes /\ lastId \in Nat /\ LinksOn
  BY DEF CatchingTypes, MailTypes, BrokerTypes, MissCore
<1>1. /\ UNCHANGED <<cardVars, threads>>
      /\ \E m \in Letters : m.type = "CATCH" /\ Published(m)
  BY <1>0, SendCatchMail
<1>2. missing' = missing
  BY <1>0, SendCatchStep DEF PlanAside
<1>3. PICK m \in Letters : m.type = "CATCH" /\ Published(m)
  BY <1>1
<1>4. Stamped(m).type = "CATCH" /\ LetterKey(Stamped(m)) = lastId + 1
  BY <1>0, <1>3, StampedLetter DEF LetterKey
<1>5. PICK y : /\ y.key = lastId + 1
               /\ \A z \in Pending' : z \in Pending \/ z = y
  BY <1>0, <1>1, <1>3, <1>4, PublishPending
<1>6. \A z \in Pending : z.key # lastId + 1
  BY <1>0 DEF KeysInv
<1>7. KeysDistinct'
  BY <1>5, <1>6 DEF MissCore, KeysDistinct
<1>8. /\ transit' = transit \cup {[msg |-> Stamped(m), times |-> link[m.type].times]}
      /\ \A q \in Queues : link'[q].on = link[q].on
  BY <1>0, <1>3, PublishSends
<1>9. ASSUME NEW s \in Species PROVE Owed(s)' = Owed(s)
  <2>1. YesRepliedFor(s)' = YesRepliedFor(s) /\ YesAppliedFor(s)' = YesAppliedFor(s)
    BY <1>1 DEF YesRepliedFor, YesAppliedFor
  <2>2. YesSentFor(s)' = YesSentFor(s)
    BY <1>4, <1>8 DEF YesSentFor
  <2> QED BY <1>0, <1>1, <2>1, <2>2, OwedStays DEF cardVars
<1> QED BY <1>1, <1>2, <1>7, <1>8, <1>9, MissesKept

(* What another client is given was in the files too.                      *)
LEMMA TakenMisses ==
  ASSUME CatchingTypes, MissCore, NEW i \in DOMAIN stock, Taken(i)
  PROVE  MissCore'
<1> DEFINE n == stock[i].pkm.name
<1>0. MailTypes /\ CardTypes
  BY DEF CatchingTypes, MailTypes
<1>1. /\ UNCHANGED <<vars, brokerVars, threads>>
      /\ \A s : Amount(stock', s) = Amount(stock, s) - One(n = s)
      /\ \A s \in Species : taken'[s] = taken[s] + One(n = s)
  BY <1>0, TakenStep
<1>2. UNCHANGED <<missing, transit, link>>
  BY <1>1 DEF vars, brokerVars
<1>3. Pending' \subseteq Pending
  BY <1>1, PendingKept DEF ThreadAsks
<1>4. KeysDistinct'
  BY <1>3 DEF MissCore, KeysDistinct
<1>5. ASSUME NEW s \in Species PROVE Owed(s)' = Owed(s)
  <2>1. /\ Amount(StartStock, s) \in Nat /\ Amount(stock, s) \in Nat /\ taken[s] \in Nat
        /\ Amount(stock', s) = Amount(stock, s) - One(n = s)
        /\ taken'[s] = taken[s] + One(n = s)
    BY <1>0, <1>1, AmountNat, CatchingAssumption DEF CardTypes, Lines
  <2>2. HandedOut(s)' = Amount(StartStock, s) - Amount(stock', s) - taken'[s]
    BY DEF HandedOut
  <2>3. One(n = s) \in Int
    BY DEF One
  <2> HIDE DEF n
  <2>4. HandedOut(s)' = HandedOut(s)
    BY <2>1, <2>2, <2>3 DEF HandedOut
  <2>5. OnTheWay(s)' = OnTheWay(s)
    BY <1>1, <1>2 DEF OnTheWay
  <2> QED BY <2>4, <2>5 DEF Owed, Missing
<1> QED BY <1>1, <1>2, <1>4, <1>5, MissesKept

(* A request that is being answered is on its way nowhere else.            *)
LEMMA FreshReply ==
  ASSUME KeysDistinct, NEW d \in transit, Bears(d.msg), NEW t, Bearing(t),
         ThreadKey(t) = LetterKey(d.msg)
  PROVE  t \notin threads
<1> SUFFICES ASSUME t \in threads PROVE FALSE
  OBVIOUS
<1>1. ThreadToken(t) \in Pending /\ SentToken(d) \in Pending
  BY DEF Pending, ThreadAsks, SentAsks
<1>2. ThreadToken(t).key = SentToken(d).key
  BY TokensAre
<1>3. ThreadToken(t) = SentToken(d)
  BY <1>1, <1>2 DEF KeysDistinct
<1>4. ThreadToken(t).place = "thread" /\ SentToken(d).place = "sent"
  BY TokensAre
<1> QED BY <1>3, <1>4

LEMMA CatchesMisses ==
  ASSUME CatchingTypes, MissCore, NEW d \in transit, CardCatches(d)
  PROVE  MissCore'
<1> DEFINE c == LineAt(d.msg.pkm) # {}
           n == d.msg.pkm.name
<1>0. /\ MailTypes /\ BrokerTypes /\ WorkTypes /\ CardTypes /\ KeysDistinct
  BY DEF CatchingTypes, MailTypes, MissCore
<1>1. /\ UNCHANGED <<vars, taken>> /\ d.msg.type = "CATCH"
      /\ \A s : Amount(stock', s) = Amount(stock, s) - One(c /\ n = s)
  BY <1>0, CardCatchesStep
<1>2. PICK t \in Workers : /\ t.pc = "reply" /\ t.msg = d.msg /\ t.pkm = d.msg.pkm
                           /\ t.at = (IF c THEN 1 ELSE 0) /\ Receive(d, {t})
  BY <1>0, CardCatchesStep
<1>3. threads' = threads \cup {t} /\ transit' = transit \ {d} /\ link' = link
  BY <1>2 DEF Receive
<1>4. KeysDistinct'
  BY <1>0, CatchesPending, KeysFollow
<1>5. missing' = missing
  BY <1>1 DEF vars
<1>6. c => t \notin threads
  BY <1>0, <1>1, <1>2, FreshReply DEF Bears, Bearing, ThreadKey, LetterKey
<1>7. t.at = 1 <=> c
  BY <1>2
<1> HIDE DEF c
<1>8. ASSUME NEW s \in Species PROVE Owed(s)' = Owed(s)
  <2>1. HandedOut(s)' = HandedOut(s) + One(c /\ n = s)
    <3>1. /\ Amount(StartStock, s) \in Nat /\ Amount(stock, s) \in Nat /\ taken[s] \in Nat
          /\ Amount(stock', s) = Amount(stock, s) - One(c /\ n = s)
      BY <1>0, <1>1, AmountNat, CatchingAssumption DEF CardTypes, Lines
    <3>2. HandedOut(s)' = Amount(StartStock, s) - Amount(stock', s) - taken[s]
      BY <1>1 DEF HandedOut
    <3>3. One(c /\ n = s) \in Int
      BY DEF One
    <3> HIDE DEF n
    <3> QED BY <3>1, <3>2, <3>3 DEF HandedOut
  <2>2. Changes(YesRepliedFor(s), YesRepliedFor(s)', One(c /\ n = s))
    <3>1. CASE c /\ n = s
      <4>1. YesRepliedFor(s)' = YesRepliedFor(s) \cup {t} /\ t \notin YesRepliedFor(s)
        BY <1>1, <1>2, <1>3, <1>6, <1>7, <3>1 DEF YesRepliedFor
      <4> QED BY <3>1, <4>1 DEF Changes, One
    <3>2. CASE ~(c /\ n = s)
      <4>1. YesRepliedFor(s)' = YesRepliedFor(s)
        BY <1>1, <1>2, <1>3, <1>7, <3>2 DEF YesRepliedFor
      <4> QED BY <3>2, <4>1 DEF Changes, One
    <3> QED BY <3>1, <3>2
  <2>3. YesSentFor(s)' = YesSentFor(s)
    BY <1>1, <1>3 DEF YesSentFor
  <2>4. YesAppliedFor(s)' = YesAppliedFor(s)
    BY <1>2, <1>3 DEF YesAppliedFor
  <2>5. Changes(YesSentFor(s), YesSentFor(s)', 0) /\ Changes(YesAppliedFor(s), YesAppliedFor(s)', 0)
    BY <2>3, <2>4 DEF Changes
  <2>6. One(c /\ n = s) \in Int
    BY DEF One
  <2>7. Owed(s)' = Owed(s) + (One(c /\ n = s) + 0 + 0 - One(c /\ n = s))
    BY <1>0, <2>1, <2>2, <2>5, <2>6, OwedMoves
  <2> QED BY <1>0, <2>6, <2>7, OwedInt
<1> QED BY <1>1, <1>2, <1>3, <1>4, <1>5, <1>8, MissesKept

LEMMA RepliesMisses ==
  ASSUME CatchingTypes, MissCore, up, NEW t \in threads, CardReplies(t)
  PROVE  MissCore'
<1>0. /\ MailTypes /\ BrokerTypes /\ WorkTypes /\ CardTypes /\ KeysDistinct /\ LinksOn
  BY DEF CatchingTypes, MailTypes, MissCore
<1>1. /\ UNCHANGED <<vars, cardVars>> /\ t.pc = "reply" /\ Ends(t)
      /\ Reply(t) \in Letters /\ Reply(t).cid = t.msg.id /\ Reply(t).pkm = t.pkm
      /\ Reply(t).type = (IF t.msg.type = "GET" THEN "LOCALIZED" ELSE "CAUGHT")
      /\ Reply(t).n = t.at /\ Published(Reply(t))
  BY <1>0, CardRepliesStep
<1>2. PICK m \in Letters : m = Reply(t)
  BY <1>1
<1>3. PICK e : e = [msg |-> Stamped(m), times |-> link[m.type].times]
  OBVIOUS
<1>4. transit' = transit \cup {e} /\ \A q \in Queues : link'[q].on = link[q].on
  BY <1>0, <1>1, <1>2, <1>3, PublishSends
<1>5. /\ e.msg.type = (IF t.msg.type = "GET" THEN "LOCALIZED" ELSE "CAUGHT")
      /\ e.msg.cid = t.msg.id /\ e.msg.pkm = t.pkm /\ e.msg.n = t.at
  <2>1. e.msg = Stamped(m)
    BY <1>3
  <2> QED BY <1>0, <1>1, <1>2, <2>1, StampedLetter
<1>6. KeysDistinct'
  BY <1>0, RepliesPending, KeysFollow
<1>7. threads' = threads \ {t} /\ missing' = missing /\ UNCHANGED <<stock, taken>>
  BY <1>1 DEF Ends, vars, cardVars
<1>8. t.msg.type \in {"GET", "CATCH"}
  BY <1>1 DEF MissCore, CardAnswers
<1>9. t.msg.type = "CATCH" /\ t.at = 1 => e \notin transit
  BY <1>0, <1>1, <1>5, FreshReply DEF Bears, Bearing, ThreadKey, LetterKey
<1>10. ASSUME NEW s \in Species PROVE Owed(s)' = Owed(s)
  <2>1. YesAppliedFor(s)' = YesAppliedFor(s)
    BY <1>1, <1>7 DEF YesAppliedFor
  <2>2. CASE t.msg.type = "CATCH" /\ t.at = 1 /\ t.pkm.name = s
    <3>1. t \in YesRepliedFor(s) /\ YesRepliedFor(s)' = YesRepliedFor(s) \ {t}
      BY <1>1, <1>7, <2>2 DEF YesRepliedFor
    <3>2. e \notin YesSentFor(s) /\ YesSentFor(s)' = YesSentFor(s) \cup {e}
      BY <1>4, <1>5, <1>9, <2>2 DEF YesSentFor
    <3>3. /\ Changes(YesRepliedFor(s), YesRepliedFor(s)', -1)
          /\ Changes(YesSentFor(s), YesSentFor(s)', 1)
          /\ Changes(YesAppliedFor(s), YesAppliedFor(s)', 0)
      BY <2>1, <3>1, <3>2 DEF Changes
    <3>4. HandedOut(s)' = HandedOut(s) + 0
      BY <1>0, <1>7, HandedStays, HandedInt
    <3>5. Owed(s)' = Owed(s) + ((-1) + 1 + 0 - 0)
      BY <1>0, <3>3, <3>4, OwedMoves
    <3> QED BY <1>0, <3>5, OwedInt
  <2>3. CASE ~(t.msg.type = "CATCH" /\ t.at = 1 /\ t.pkm.name = s)
    <3>1. YesRepliedFor(s)' = YesRepliedFor(s)
      BY <1>7, <2>3 DEF YesRepliedFor
    <3>2. YesSentFor(s)' = YesSentFor(s)
      BY <1>4, <1>5, <1>8, <2>3 DEF YesSentFor
    <3> QED BY <1>0, <1>7, <2>1, <3>1, <3>2, OwedStays
  <2> QED BY <2>2, <2>3
<1> QED BY <1>4, <1>6, <1>7, <1>10, MissesKept

LEMMA CaughtMisses ==
  ASSUME CatchingTypes, MissCore, Undisturbed', NEW d \in transit, CaughtArrives(d)
  PROVE  MissCore'
<1>0. /\ MailTypes /\ BrokerTypes /\ WorkTypes /\ CardTypes /\ KeysDistinct /\ TypeOK
  BY DEF CatchingTypes, MailTypes, MissCore, Sound
<1>1. /\ UNCHANGED <<vars, cardVars>> /\ d.msg.type = "CAUGHT"
      /\ mishaps' = mishaps \cup (IF Asks(d) THEN {} ELSE {"unknown"})
      /\ \/ ~Asks(d) /\ Receive(d, {})
         \/ Asks(d) /\ \E t \in Workers :
              /\ t.pc = (IF d.msg.n = 1 THEN "apply" ELSE "refuse")
              /\ t.msg = d.msg /\ t.pkm = d.msg.pkm /\ Receive(d, {t})
  BY <1>0, CaughtArrivesStep
<1>2. Asks(d)
  BY <1>1 DEF Undisturbed, Without
<1>3. PICK t \in Workers : /\ t.pc = (IF d.msg.n = 1 THEN "apply" ELSE "refuse")
                           /\ t.msg = d.msg /\ t.pkm = d.msg.pkm /\ Receive(d, {t})
  BY <1>1, <1>2
<1>4. threads' = threads \cup {t} /\ transit' = transit \ {d} /\ link' = link
  BY <1>3 DEF Receive
<1>5. missing' = missing /\ UNCHANGED <<stock, taken>>
  BY <1>1 DEF vars, cardVars
<1>6. CASE d.msg.n = 1
  <2>1. Bears(d.msg) /\ Bearing(t) /\ ThreadKey(t) = LetterKey(d.msg)
    BY <1>1, <1>3, <1>6 DEF Bears, Bearing, ThreadKey, LetterKey
  <2>2. t \notin threads
    BY <1>0, <2>1, FreshReply
  <2>3. KeysDistinct'
    BY <1>0, <1>3, <2>1, ReceiveMoves, KeysFollow
  <2>4. ASSUME NEW s \in Species PROVE Owed(s)' = Owed(s)
    <3>1. YesRepliedFor(s)' = YesRepliedFor(s)
      BY <1>3, <1>4, <1>6 DEF YesRepliedFor
    <3>2. CASE d.msg.pkm.name = s
      <4>1. d \in YesSentFor(s) /\ YesSentFor(s)' = YesSentFor(s) \ {d}
        BY <1>1, <1>4, <1>6, <3>2 DEF YesSentFor
      <4>2. t \notin YesAppliedFor(s) /\ YesAppliedFor(s)' = YesAppliedFor(s) \cup {t}
        BY <1>3, <1>4, <1>6, <2>2, <3>2 DEF YesAppliedFor
      <4>3. /\ Changes(YesRepliedFor(s), YesRepliedFor(s)', 0)
            /\ Changes(YesSentFor(s), YesSentFor(s)', -1)
            /\ Changes(YesAppliedFor(s), YesAppliedFor(s)', 1)
        BY <3>1, <4>1, <4>2 DEF Changes
      <4>4. HandedOut(s)' = HandedOut(s) + 0
        BY <1>0, <1>5, HandedStays, HandedInt
      <4>5. Owed(s)' = Owed(s) + (0 + (-1) + 1 - 0)
        BY <1>0, <4>3, <4>4, OwedMoves
      <4> QED BY <1>0, <4>5, OwedInt
    <3>3. CASE d.msg.pkm.name # s
      <4>1. YesSentFor(s)' = YesSentFor(s)
        BY <1>4, <3>3 DEF YesSentFor
      <4>2. YesAppliedFor(s)' = YesAppliedFor(s)
        BY <1>3, <1>4, <3>3 DEF YesAppliedFor
      <4> QED BY <1>0, <1>5, <3>1, <4>1, <4>2, OwedStays
    <3> QED BY <3>2, <3>3
  <2> QED BY <1>3, <1>4, <1>5, <1>6, <2>3, <2>4, MissesKept
<1>7. CASE d.msg.n # 1
  <2>1. t.pc = "refuse"
    BY <1>3, <1>7
  <2>2. \A u \in {t} : ~Bearing(u)
    BY <2>1 DEF Bearing
  <2>3. Pending' \subseteq Pending
    BY <1>3, <2>2, ReceivePending
  <2>4. /\ \A e \in transit \cup transit' :
             e \in transit \cap transit' \/ e.msg.type # "CAUGHT" \/ e.msg.n # 1
        /\ \A u \in threads \cup threads' :
             u \in threads \cap threads' \/ u.pc \notin {"apply", "reply"}
    BY <1>4, <1>7, <2>1
  <2> QED BY <1>0, <1>4, <1>5, <2>3, <2>4, AsideMisses
<1> QED BY <1>6, <1>7

(* An answer that is applied is struck off the name it was asked under.    *)
(* Nothing is struck off a name of which more was handed out than missed.  *)
LEMMA ApplyMisses ==
  ASSUME CatchingTypes, MissCore, ThreadsInv, NEW t \in threads, Apply(t)
  PROVE  MissCore'
<1>0. /\ Sound /\ MailTypes /\ BrokerTypes /\ WorkTypes /\ CardTypes /\ TypeOK /\ t \in Workers
      /\ blocked \in Seq(TrainerRecords) /\ missing \in [Species -> Nat]
  <2>1. /\ Sound /\ MailTypes /\ BrokerTypes /\ WorkTypes /\ CardTypes /\ TypeOK /\ t \in Workers
    BY DEF CatchingTypes, MailTypes, WorkTypes, Sound
  <2> QED BY <2>1, AllTypes DEF TypeOK
<1>1. /\ t.pc = "apply" /\ (Applied(t) \/ Misapplied(t))
  <2>1. t.at \in Nat
    BY <1>0 DEF Workers
  <2> QED BY <1>0, <2>1, ApplyStep
<1>2. Reaches(t)
  BY <1>1 DEF ThreadsInv
<1>3. t.at \in DOMAIN blocked /\ blocked[t.at].target = t.pkm
  BY <1>2 DEF Reaches, WaitsAt
<1>4. Answered(t).target = t.pkm
  <2>1. blocked[t.at] \in TrainerRecords
    BY <1>0, <1>3
  <2> QED BY <1>3, <2>1, TargetOfCaught DEF Answered
<1> DEFINE n == t.pkm.name
<1>5. missing' = [missing EXCEPT ![n] = IF @ > 0 THEN @ - 1 ELSE 0]
  BY <1>1, <1>3, <1>4 DEF Applied, Misapplied
<1>6. UNCHANGED <<brokerVars, cardVars>> /\ t \notin threads'
      /\ \A u \in threads' : u \in threads \/ u.pc \in {"exit", "drop"}
  BY <1>0, <1>1, AnswerWork
<1>7. \A u \in threads : u = t \/ u \in threads'
  BY <1>1, <1>3 DEF Applied, Misapplied, GoesTo, Ends
<1>8. UNCHANGED <<stock, taken, transit, link>>
  BY <1>6 DEF brokerVars, cardVars
<1>9. Pending' \subseteq Pending
  <2>1. ThreadAsks' \subseteq ThreadAsks
    BY <1>6 DEF ThreadAsks, Bearing
  <2> QED BY <1>6, <2>1, PendingKept
<1>10. KeysDistinct'
  BY <1>9 DEF MissCore, KeysDistinct
<1>11. LinksOn' /\ CardAnswers'
  BY <1>6, <1>8 DEF MissCore, LinksOn, CardAnswers
<1>12. ASSUME NEW s \in Species PROVE missing'[s] = Max({0, Owed(s)'})
  <2>1. YesRepliedFor(s)' = YesRepliedFor(s) /\ YesSentFor(s)' = YesSentFor(s)
    BY <1>1, <1>6, <1>7, <1>8 DEF YesRepliedFor, YesSentFor
  <2>2. missing[s] = Max({0, Owed(s)}) /\ Owed(s) \in Int
    BY <1>0, OwedInt DEF MissCore, MissesOwed
  <2>3. missing[s] = IF Owed(s) > 0 THEN Owed(s) ELSE 0
    BY <2>2, MaxOfZero
  <2>4. CASE n = s
    <3>1. t \in YesAppliedFor(s) /\ YesAppliedFor(s)' = YesAppliedFor(s) \ {t}
      BY <1>1, <1>6, <1>7, <2>4 DEF YesAppliedFor
    <3>2. /\ Changes(YesRepliedFor(s), YesRepliedFor(s)', 0)
          /\ Changes(YesSentFor(s), YesSentFor(s)', 0)
          /\ Changes(YesAppliedFor(s), YesAppliedFor(s)', -1)
      BY <2>1, <3>1 DEF Changes
    <3>3. HandedOut(s)' = HandedOut(s) + 0
      BY <1>0, <1>8, HandedStays, HandedInt
    <3>4. Owed(s)' = Owed(s) + (0 + 0 + (-1) - 0)
      <4>1. MailTypes /\ 0 \in Int
        BY DEF CatchingTypes
      <4> QED BY <3>2, <3>3, <4>1, OwedMoves
    <3>5. Owed(s)' = Owed(s) - 1 /\ Owed(s)' \in Int
      BY <2>2, <3>4
    <3>6. missing'[s] = IF missing[s] > 0 THEN missing[s] - 1 ELSE 0
      BY <1>0, <1>5, <2>4
    <3>7. missing'[s] = IF Owed(s)' > 0 THEN Owed(s)' ELSE 0
      BY <2>2, <2>3, <3>5, <3>6
    <3> QED BY <3>5, <3>7, MaxOfZero
  <2>5. CASE n # s
    <3>1. YesAppliedFor(s)' = YesAppliedFor(s)
      BY <1>6, <1>7, <2>5 DEF YesAppliedFor
    <3>2. Owed(s)' = Owed(s)
      BY <1>0, <1>8, <2>1, <3>1, OwedStays
    <3>3. missing'[s] = missing[s]
      BY <1>0, <1>5, <2>5
    <3> QED BY <2>2, <3>2, <3>3
  <2> QED BY <2>4, <2>5
<1>13. MissesOwed'
  BY <1>12 DEF MissesOwed
<1> QED BY <1>10, <1>11, <1>13 DEF MissCore

LEMMA MissStep ==
  ASSUME CatchingTypes, AnswerInv, MissInv, [CatchingNext]_catchingVars
  PROVE  MissInv'
<1>1. CASE CatchingNext
  <2> SUFFICES ASSUME Undisturbed' PROVE MissCore' /\ "outage" \notin mishaps'
    BY DEF MissInv
  <2>1. /\ MissCore /\ "outage" \notin mishaps' /\ PlanCore /\ RequestCore
        /\ ~ \E q \in Queues : Subscribe(q) \/ Cut(q)
        /\ ~Outage /\ ~Restart
    BY <1>1, UndisturbedStep
  <2>2. CalmPc /\ up /\ KeysInv /\ ThreadsInv
    BY <2>1 DEF PlanCore, CalmPc, RequestCore
  <2>3. CASE \/ PlannerSteps \/ AskBroker \/ RegisterCatch \/ RegisterGarbage \/ Asked
             \/ RequestPokemon \/ RegisterGet
             \/ \E d \in transit : CardLooks(d) \/ LocalizedArrives(d)
             \/ \E t \in threads : \/ LocalizedLock(t) \/ LocalizedAdd(t)
                                   \/ Refuse(t) \/ ExitCaught(t) \/ DropCaught(t)
    BY <2>1, <2>2, <2>3, AsideSteps
  <2>4. CASE SendCatch
    BY <2>1, <2>2, <2>4, SendMisses
  <2>5. ASSUME NEW i \in DOMAIN stock, Taken(i) PROVE MissCore'
    BY <2>1, <2>5, TakenMisses
  <2>6. ASSUME NEW d \in transit, CardCatches(d) \/ CaughtArrives(d) PROVE MissCore'
    BY <2>1, <2>6, CatchesMisses, CaughtMisses
  <2>7. ASSUME NEW t \in threads, CardReplies(t) \/ Apply(t) PROVE MissCore'
    BY <2>1, <2>2, <2>7, RepliesMisses, ApplyMisses
  <2> QED BY <1>1, <2>1, <2>3, <2>4, <2>5, <2>6, <2>7 DEF CatchingNext, Asking, Arrives, Processes
<1>2. CASE UNCHANGED catchingVars
  <2> SUFFICES ASSUME Undisturbed' PROVE MissCore' /\ "outage" \notin mishaps'
    BY DEF MissInv
  <2>1. UNCHANGED <<vars, brokerVars, cardVars, threads, mishaps>>
    BY <1>2 DEF catchingVars
  <2>2. MissCore /\ "outage" \notin mishaps
    BY <2>1 DEF MissInv, Undisturbed, Without
  <2>3. UNCHANGED <<stock, taken>> /\ missing' = missing
    BY <2>1 DEF vars, cardVars
  <2> QED BY <2>1, <2>2, <2>3, WorkMisses DEF CatchingTypes
<1> QED BY <1>1, <1>2

LEMMA InitMisses == CatchingInit => MissInv
<1> SUFFICES ASSUME CatchingInit PROVE MissCore /\ "outage" \notin mishaps
  BY DEF MissInv
<1>1. /\ cached = {} /\ transit = {} /\ threads = {} /\ mishaps = {} /\ stock = StartStock
      /\ taken = [s \in Species |-> 0] /\ missing = [s \in Species |-> Missing(s)]
      /\ link = [q \in Queues |-> [on |-> TRUE, times |-> 1, served |-> {}]]
  BY DEF CatchingInit, Init
<1>2. LinksOn /\ CardAnswers
  BY <1>1 DEF LinksOn, CardAnswers
<1>3. KeysDistinct
  BY <1>1 DEF KeysDistinct, Pending, CachedAsks, SentAsks, ThreadAsks
<1>4. ASSUME NEW s \in Species PROVE missing[s] = Max({0, Owed(s)})
  <2>1. OnTheWay(s) = 0
    <3>1. /\ YesRepliedFor(s) = {} /\ YesSentFor(s) = {} /\ YesAppliedFor(s) = {}
      BY <1>1 DEF YesRepliedFor, YesSentFor, YesAppliedFor
    <3>2. OnTheWay(s) = Cardinality(YesRepliedFor(s)) + Cardinality(YesSentFor(s))
                          + Cardinality(YesAppliedFor(s))
      BY DEF OnTheWay, YesRepliedFor, YesSentFor, YesAppliedFor
    <3> QED BY <3>1, <3>2, FS_EmptySet
  <2>2. HandedOut(s) = 0
    <3>1. Amount(StartStock, s) \in Nat
      BY AmountNat, CatchingAssumption DEF Lines
    <3> QED BY <1>1, <3>1 DEF HandedOut
  <2>3. Missing(s) \in Nat
    BY MissingNat
  <2>4. Owed(s) = Missing(s)
    BY <2>1, <2>2, <2>3 DEF Owed
  <2>5. Max({0, Missing(s)}) = Missing(s)
    BY <2>3, MaxOfZero
  <2> QED BY <1>1, <2>4, <2>5
<1>5. MissesOwed
  BY <1>4 DEF MissesOwed
<1> QED BY <1>1, <1>2, <1>3, <1>5 DEF MissCore

(* What the team misses of a name is what it missed at the start but for   *)
(* what GameCard handed out of it, less the answers still on their way:    *)
(* removeFromMissingPkms strikes each answer off once and under the name   *)
(* of the pokemon that the trainer asked for, however the requests, the    *)
(* answers and the planning interleave and whatever others catch.          *)
THEOREM AnswersAreStruckOff == CatchingSpec => []MissesWhatItDidNotGet
<1> DEFINE Inv == CatchingTypes /\ AnswerInv /\ MissInv
<1>1. CatchingInit => Inv
  BY InitCatching, InitAnswers, InitMisses
<1>2. Inv /\ [CatchingNext]_catchingVars => Inv'
  BY CatchingTypesStep, AnswerStep, MissStep
<1>3. Inv => MissesWhatItDidNotGet
  BY DEF MissesWhatItDidNotGet, MissInv, MissCore, MissesOwed, Owed, Undisturbed
<1> QED BY <1>1, <1>2, <1>3, PTL DEF CatchingSpec
=============================================================================

------------------------------- MODULE Planner -------------------------------
(***************************************************************************)
(* The Team's planning of its trainers (Team/src/Team.c) while the broker  *)
(* cannot be reached, when a catch succeeds by default: pokemons appear,   *)
(* sent by a Game Boy; one thread (startCloseScheduling) gives each of     *)
(* them to the closest free trainer; another (startAlgorithmScheduling)    *)
(* executes the ready trainers by FIFO, RR, SJF-SD or SJF-CD until they    *)
(* catch; two more wait for every trainer to be full and for every trainer *)
(* to end.  They share the lists of trainers without a lock and meet at    *)
(* semaphores.  What the search for deadlocks does is in Exchange, the     *)
(* messages of the broker, and the trainers that wait for one, in Catching.*)
(*                                                                         *)
(* An addition to a list, or a removal, is one step; what a thread reads   *)
(* of several lists, and a trainer's move from one to another, is several. *)
(***************************************************************************)
EXTENDS Integers, Sequences, FiniteSets, SequencesExt

CONSTANTS
  Species,     \* the names of pokemons
  ShortNames,  \* those of less than seven characters
  Trainers,    \* the trainers' ids, 0 .. trainersCount - 1
  Objectives,  \* [Trainers -> [Species -> Nat]]: what each wants
  StartHeld,   \* [Trainers -> [Species -> Nat]]: what each starts with
  StartPos,    \* [Trainers -> <<x, y>>]
  Arrivals,    \* bound: the pokemons that appear, [name, pos]
  Algorithms,  \* \subseteq {"FIFO", "RR", "SJF-SD", "SJF-CD"}
  Quantum,     \* the clocks of a turn under RR
  Scale,       \* the estimates are kept in this many parts of a clock
  AlphaParts,  \* ALPHA, in parts of Scale
  InitialEstimate  \* ESTIMACION_INICIAL, in clocks

Total(f) == MapThenSumSet(LAMBDA x : f[x], DOMAIN f)
TeamTotal(f, s) == Total([t \in Trainers |-> f[t][s]])
trainersCount == Cardinality(Trainers)

ASSUME PlannerAssumption ==
  /\ IsFiniteSet(Trainers) /\ Trainers # {} /\ Trainers = 0 .. trainersCount - 1
  /\ IsFiniteSet(Species)
  /\ ShortNames \subseteq Species
  /\ {Objectives, StartHeld} \subseteq [Trainers -> [Species -> Nat]]
  /\ \A t \in Trainers : Total(StartHeld[t]) < Total(Objectives[t])
  /\ \A s \in Species : TeamTotal(StartHeld, s) <= TeamTotal(Objectives, s)
  /\ StartPos \in [Trainers -> Int \X Int]
  /\ Arrivals \subseteq [name : Species, pos : Int \X Int]
  /\ Algorithms \subseteq {"FIFO", "RR", "SJF-SD", "SJF-CD"}
  /\ Quantum \in Nat \ {0} /\ Scale \in Nat \ {0}
  /\ AlphaParts \in 0 .. Scale /\ InitialEstimate \in Nat

VARIABLES
  algorithm,  \* ALGORITMO_PLANIFICACION
  new, ready, blocked, exit,  \* statesLists, sequences of trainers
  exec,       \* statesLists.execTrainer: [on, trainer]
  available,  \* availablePokemons
  missing,    \* missingPkms, as a function of the name
  sem,        \* the semaphores, see Semaphores
  appeared,   \* where the thread of each pokemon that appears is
  closer,     \* startCloseScheduling: [pc, pkm, left, list, pos]
  runner,     \* startAlgorithmScheduling: [pc, pos, clocks, left, post]
  flagDeadLock,  \* resolveAllDeadlocks has begun the search for deadlocks
  running        \* the process: finishTeam ends it

lists == <<new, ready, blocked, exit>>
ends == <<flagDeadLock, running>>
vars == <<algorithm, lists, exec, available, missing, sem, appeared, closer,
          runner, ends>>

-----------------------------------------------------------------------------
(* Trainers and pokemons. *)

Nothing == [name |-> "NULL", pos |-> <<0, 0>>]

Missing(s) == TeamTotal(Objectives, s) - TeamTotal(StartHeld, s)

NewTrainer(t) ==
  [id |-> t, pos |-> StartPos[t], held |-> StartHeld[t], target |-> Nothing,
   state |-> "AVAILABLE", burst |-> -1, estimate |-> 0]

HasRoom(t) == Total(t.held) < Total(Objectives[t.id])

(* checkTrainerState: what a full trainer holds is not what it wants. *)
HoldsOthers(t) ==
  \E s \in Species : Objectives[t.id][s] > 0 /\ t.held[s] # Objectives[t.id][s]

Abs(n) == IF n < 0 THEN -n ELSE n
Distance(t, p) == Abs(t.pos[1] - p.pos[1]) + Abs(t.pos[2] - p.pos[2])
Toward(a, b) == IF a > b THEN a - 1 ELSE IF a < b THEN a + 1 ELSE a

(* One position at a time, first along x. *)
Moved(t, to) ==
  LET from == t.pos IN
  [t EXCEPT !.pos = IF from[1] # to[1] THEN <<Toward(from[1], to[1]), from[2]>>
                    ELSE <<from[1], Toward(from[2], to[2])>>]

Caught(t) == [t EXCEPT !.held[t.target.name] = @ + 1]

Free(list) == {i \in DOMAIN list : list[i].state = "AVAILABLE"}
Waiting(list) == {i \in DOMAIN list : list[i].state = "WAITING"}

(* The first of the closest. *)
Closest(list, candidates, p) ==
  CHOOSE i \in candidates : \A j \in candidates \ {i} :
    \/ Distance(list[i], p) < Distance(list[j], p)
    \/ Distance(list[i], p) = Distance(list[j], p) /\ i < j

ClosestNew(p) == Closest(new, {1} \cup {i \in DOMAIN new : HasRoom(new[i])}, p)
ClosestBlocked(p) == Closest(blocked, Free(blocked), p)

(* getClosestTrainer: the list that the trainer is taken from. *)
ClosestList(p) ==
  IF \/ Free(blocked) = {}
     \/ /\ new # <<>>
        /\ Distance(new[ClosestNew(p)], p) <= Distance(blocked[ClosestBlocked(p)], p)
  THEN "new" ELSE "blocked"

(* removeFromBlocked and the like: past the end, the last one goes. *)
Removed(list, i) == IF list = <<>> THEN list ELSE RemoveAt(list, Min({i, Len(list)}))

Going(list, name) == Cardinality({i \in DOMAIN list : list[i].target.name = name})

-----------------------------------------------------------------------------
Semaphores == {"availableTrainersCount", "availablePokemonsCount",
               "availablePokemons", "readyTrainer", "execTrainer",
               "deadlockCount", "exitCount"}

Wait(s) == sem[s] > 0 /\ sem' = [sem EXCEPT ![s] = @ - 1]
Post(s) == sem' = [sem EXCEPT ![s] = @ + 1]

IdleCloser == [pc |-> "trainer", pkm |-> 1, left |-> 0, list |-> "new", pos |-> 1]
IdleRunner == [pc |-> "ready", pos |-> 1, clocks |-> 0, left |-> 0,
               post |-> "deadlockCount"]

Init ==
  /\ algorithm \in Algorithms
  /\ new = [i \in 1 .. trainersCount |-> NewTrainer(i - 1)]
  /\ ready = <<>> /\ blocked = <<>> /\ exit = <<>>
  /\ exec = [on |-> FALSE, trainer |-> NewTrainer(0)]
  /\ available = <<>>
  /\ missing = [s \in Species |-> Missing(s)]
  /\ sem = [s \in Semaphores |->
              CASE s = "availableTrainersCount" -> trainersCount
                [] s \in {"availablePokemonsCount", "readyTrainer"} -> 0
                [] OTHER -> 1]
  /\ appeared = [p \in Arrivals |-> "none"]
  /\ closer = IdleCloser
  /\ runner = IdleRunner
  /\ flagDeadLock = FALSE
  /\ running = TRUE

Goto(pc) == closer' = [closer EXCEPT !.pc = pc]
RunTo(pc) == runner' = [runner EXCEPT !.pc = pc]

-----------------------------------------------------------------------------
(* processMessageAppeared.  The names are compared by their first eight    *)
(* bytes: those behind a shorter one are anybody's.                        *)

Found(s) == IF missing[s] = 0 THEN {FALSE}
            ELSE IF s \in ShortNames THEN BOOLEAN ELSE {TRUE}

Appear(p) ==
  /\ appeared[p] = "none"
  /\ \E found \in Found(p.name) :
       appeared' = [appeared EXCEPT ![p] = IF found THEN "add" ELSE "done"]
  /\ UNCHANGED <<algorithm, lists, exec, available, missing, sem, closer, runner, ends>>

AddAvailable(p) ==
  /\ appeared[p] = "add"
  /\ sem["availablePokemons"] > 0
  /\ available' = Append(available, p)
  /\ Post("availablePokemonsCount")
  /\ appeared' = [appeared EXCEPT ![p] = "done"]
  /\ UNCHANGED <<algorithm, lists, exec, missing, closer, runner, ends>>

-----------------------------------------------------------------------------
(* startCloseScheduling. *)

WaitTrainer ==
  /\ closer.pc = "trainer"
  /\ Wait("availableTrainersCount")
  /\ Goto("pokemon")
  /\ UNCHANGED <<algorithm, lists, exec, available, missing, appeared, runner, ends>>

WaitPokemon ==
  /\ closer.pc = "pokemon"
  /\ Wait("availablePokemonsCount")
  /\ Goto("lock")
  /\ UNCHANGED <<algorithm, lists, exec, available, missing, appeared, runner, ends>>

LockAvailable ==
  /\ closer.pc = "lock"
  /\ Wait("availablePokemons")
  /\ closer' = [closer EXCEPT !.pkm = 1,
                  !.pc = IF Free(blocked) # {} \/ new # <<>> THEN "look" ELSE "giveBack"]
  /\ UNCHANGED <<algorithm, lists, exec, available, missing, appeared, runner, ends>>

(* scheduleByDistance takes the first pokemon for which some of its name   *)
(* are missing besides those that trainers go for.  It looks at the one    *)
(* that executes before it looks at those that are ready or wait.          *)
Planned == Len(ready) + Cardinality(Waiting(blocked)) + (IF exec.on THEN 1 ELSE 0)
GoingFor(name) == Going(ready, name)
  + Cardinality({i \in Waiting(blocked) : blocked[i].target.name = name})
MissingNames == {s \in Species : missing[s] > 0}

Look ==
  LET name == available[closer.pkm].name IN
  /\ closer.pc = "look" /\ closer.pkm <= Len(available)
  /\ closer' =
       IF missing[name] > 0 /\ Planned < Cardinality(MissingNames)
       THEN [closer EXCEPT !.pc = "choose",
               !.left = missing[name]
                        - (IF exec.on /\ exec.trainer.target.name = name THEN 1 ELSE 0)]
       ELSE [closer EXCEPT !.pkm = @ + 1]
  /\ UNCHANGED <<algorithm, lists, exec, available, missing, sem, appeared, runner, ends>>

LookedAtAll ==
  /\ closer.pc = "look" /\ closer.pkm > Len(available)
  /\ Goto("giveBack")
  /\ UNCHANGED <<algorithm, lists, exec, available, missing, sem, appeared, runner, ends>>

(* getClosestTrainer: a copy of the trainer goes to the ready list before  *)
(* it is removed from the list it is in.                                   *)
Plan(p, list, i) ==
  LET trainer == IF list = "new" THEN new[i] ELSE blocked[i] IN
  /\ available' = RemoveAt(available, closer.pkm)
  /\ ready' = Append(ready, [trainer EXCEPT !.target = p])
  /\ Post("readyTrainer")
  /\ closer' = [closer EXCEPT !.pc = "drop", !.list = list, !.pos = i]
  /\ UNCHANGED <<new, blocked, exit>>

Choose ==
  LET p == available[closer.pkm] IN
  /\ closer.pc = "choose"
  /\ IF closer.left - GoingFor(p.name) > 0
     THEN Plan(p, ClosestList(p),
               IF ClosestList(p) = "new" THEN ClosestNew(p) ELSE ClosestBlocked(p))
     ELSE /\ closer' = [closer EXCEPT !.pc = "look", !.pkm = @ + 1]
          /\ UNCHANGED <<lists, available, sem>>
  /\ UNCHANGED <<algorithm, exec, missing, appeared, runner, ends>>

Drop_First ==
  /\ closer.pc = "drop"
  /\ new' = IF closer.list = "new" THEN Tail(new) ELSE new
  /\ blocked' = IF closer.list = "blocked" THEN Tail(blocked) ELSE blocked
  /\ Goto("unlock")
  /\ UNCHANGED <<algorithm, ready, exit, exec, available, missing, sem, appeared,
                 runner, ends>>
Drop ==
  /\ closer.pc = "drop"
  /\ new' = IF closer.list = "new" THEN Removed(new, closer.pos) ELSE new
  /\ blocked' = IF closer.list = "blocked" THEN Removed(blocked, closer.pos) ELSE blocked
  /\ Goto("unlock")
  /\ UNCHANGED <<algorithm, ready, exit, exec, available, missing, sem, appeared,
                 runner, ends>>

(* The token of the trainer is given back, that of the pokemon is not. *)
GiveBack_Forgets ==
  /\ closer.pc = "giveBack"
  /\ Goto("unlock")
  /\ UNCHANGED <<algorithm, lists, exec, available, missing, sem, appeared, runner, ends>>
GiveBack ==
  /\ closer.pc = "giveBack"
  /\ Post("availableTrainersCount")
  /\ Goto("unlock")
  /\ UNCHANGED <<algorithm, lists, exec, available, missing, appeared, runner, ends>>

UnlockAvailable ==
  /\ closer.pc = "unlock"
  /\ Post("availablePokemons")
  /\ closer' = IdleCloser
  /\ UNCHANGED <<algorithm, lists, exec, available, missing, appeared, runner, ends>>

-----------------------------------------------------------------------------
(* startAlgorithmScheduling. *)

WaitReady ==
  /\ runner.pc = "ready"
  /\ Wait("readyTrainer")
  /\ RunTo("exec")
  /\ UNCHANGED <<algorithm, lists, exec, available, missing, appeared, closer, ends>>

WaitExec ==
  /\ runner.pc = "exec"
  /\ Wait("execTrainer")
  /\ RunTo("schedule")
  /\ UNCHANGED <<algorithm, lists, exec, available, missing, appeared, closer, ends>>

(* The estimated burst of a trainer, in parts of a clock: the initial one  *)
(* until it has executed, then of its last estimate and its last burst.    *)
Estimate(t) ==
  IF t.burst = -1 THEN InitialEstimate * Scale
  ELSE (AlphaParts * t.estimate + (Scale - AlphaParts) * t.burst * Scale) \div Scale

(* The first of those whose estimate has the least whole clocks.           *)
Clocks(t) == Estimate(t) \div Scale
Best == CHOOSE i \in DOMAIN ready : \A j \in DOMAIN ready \ {i} :
  Clocks(ready[i]) < Clocks(ready[j]) \/ (Clocks(ready[i]) = Clocks(ready[j]) /\ i < j)

Sjf == algorithm \in {"SJF-SD", "SJF-CD"}
Chosen == IF Sjf THEN Best ELSE 1

(* What a trainer takes into its turn: SJF-SD adds to the burst of the     *)
(* turns before, SJF-CD counts from zero.                                  *)
Begun(t) ==
  IF Sjf THEN [t EXCEPT !.estimate = Estimate(t),
                        !.burst = IF algorithm = "SJF-CD" \/ @ = -1 THEN 0 ELSE @]
  ELSE t

(* scheduleFifo and the others: with nobody ready, or somebody executing,  *)
(* they return with both tokens taken.                                     *)
AddToExec ==
  /\ runner.pc = "schedule"
  /\ IF ready # <<>> /\ ~exec.on
     THEN /\ exec' = [on |-> TRUE, trainer |-> Begun(ready[Chosen])]
          /\ runner' = [runner EXCEPT !.pc = "remove", !.pos = Chosen, !.clocks = 0,
                                      !.left = Estimate(ready[Chosen])]
     ELSE RunTo("ready") /\ UNCHANGED exec
  /\ UNCHANGED <<algorithm, lists, available, missing, sem, appeared, closer, ends>>

RemoveFromReady ==
  /\ runner.pc = "remove"
  /\ ready' = RemoveAt(ready, runner.pos)
  /\ RunTo("run")
  /\ UNCHANGED <<algorithm, new, blocked, exit, exec, available, missing, sem, appeared,
                 closer, ends>>

(* Under SJF-CD the turn goes on while what is left of it is not more than *)
(* the best estimate of the ready trainers.  With nobody ready the code    *)
(* reads the place the trainer was taken from: its own estimate.           *)
GoesOn ==
  algorithm = "SJF-CD" /\ ready # <<>> =>
    runner.left - exec.trainer.burst * Scale <= Estimate(ready[Best])

Running == runner.pc = "run" /\ GoesOn
Hunting == Running /\ exec.trainer.state # "DEADLOCK"
Arrived == Distance(exec.trainer, exec.trainer.target) = 0

(* A clock of executeClock that moves the trainer.  Under RR the turn ends *)
(* with the quantum.                                                       *)
Stepped(t, to) == [Moved(t, to) EXCEPT !.burst = IF Sjf THEN @ + 1 ELSE @]

Advance(to) ==
  /\ exec' = [exec EXCEPT !.trainer = Stepped(@, to)]
  /\ runner' =
       CASE algorithm = "RR" ->
              [runner EXCEPT !.clocks = @ + 1,
                             !.pc = IF runner.clocks + 1 = Quantum THEN "preempt" ELSE @]
         [] algorithm = "SJF-CD" -> [runner EXCEPT !.left = @ - Scale]
         [] OTHER -> runner

Move ==
  /\ Hunting /\ ~Arrived
  /\ Advance(exec.trainer.target.pos)
  /\ UNCHANGED <<algorithm, lists, available, missing, sem, appeared, closer, ends>>

(* catchPokemon without a broker: the pokemon is no longer missing. *)
Catch_AllOfName ==
  /\ Hunting /\ Arrived
  /\ missing' = [missing EXCEPT ![exec.trainer.target.name] = 0]
  /\ exec' = [exec EXCEPT !.trainer = Caught(@)]
  /\ RunTo("place")
  /\ UNCHANGED <<algorithm, lists, available, sem, appeared, closer, ends>>
Catch ==
  /\ Hunting /\ Arrived
  /\ missing' = [missing EXCEPT ![exec.trainer.target.name] = IF @ > 0 THEN @ - 1 ELSE 0]
  /\ exec' = [exec EXCEPT !.trainer = Caught(@)]
  /\ RunTo("place")
  /\ UNCHANGED <<algorithm, lists, available, sem, appeared, closer, ends>>

(* The trainer ends, waits for an exchange or for another pokemon. *)
Place ==
  LET t == exec.trainer IN
  /\ runner.pc = "place"
  /\ runner' = [runner EXCEPT !.pc = "release",
                 !.post = IF HasRoom(t) THEN "availableTrainersCount" ELSE "deadlockCount"]
  /\ \/ /\ ~HasRoom(t) /\ ~HoldsOthers(t)
        /\ exit' = Append(exit, t)
        /\ Post("exitCount")
        /\ UNCHANGED <<blocked, exec>>
     \/ LET waiting == [t EXCEPT !.state = IF HasRoom(t) THEN "AVAILABLE" ELSE "DEADLOCK"] IN
        /\ HasRoom(t) \/ HoldsOthers(t)
        /\ exec' = [exec EXCEPT !.trainer = waiting]
        /\ blocked' = Append(blocked, waiting)
        /\ UNCHANGED <<exit, sem>>
  /\ UNCHANGED <<algorithm, new, ready, available, missing, appeared, closer, ends>>

RemoveFromExec_Silent(from, to) ==
  /\ runner.pc = from
  /\ exec' = [exec EXCEPT !.on = FALSE]
  /\ RunTo(to)
  /\ UNCHANGED <<algorithm, lists, available, missing, sem, appeared, closer, ends>>
RemoveFromExec(from, to) ==
  /\ runner.pc = from
  /\ exec' = [exec EXCEPT !.on = FALSE]
  /\ Post("execTrainer")
  /\ RunTo(to)
  /\ UNCHANGED <<algorithm, lists, available, missing, appeared, closer, ends>>

Release == RemoveFromExec("release", "post")

PostPlaced ==
  /\ runner.pc = "post"
  /\ Post(runner.post)
  /\ runner' = IdleRunner
  /\ UNCHANGED <<algorithm, lists, exec, available, missing, appeared, closer, ends>>

(* scheduleRR, when the turn is over: for a moment the trainer is in no    *)
(* list.                                                                   *)
Preempt == RemoveFromExec("preempt", "requeue")

Requeue ==
  /\ runner.pc = "requeue"
  /\ ready' = Append(ready, exec.trainer)
  /\ Post("readyTrainer")
  /\ runner' = IdleRunner
  /\ UNCHANGED <<algorithm, new, blocked, exit, exec, available, missing, appeared,
                 closer, ends>>

(* scheduleSJFCD, when another one is better: the trainer is ready again   *)
(* before it leaves the execution.                                         *)
GiveWay ==
  /\ runner.pc = "run" /\ ~GoesOn
  /\ ready' = Append(ready, exec.trainer)
  /\ Post("readyTrainer")
  /\ RunTo("giveWay")
  /\ UNCHANGED <<algorithm, new, blocked, exit, exec, available, missing, appeared,
                 closer, ends>>

GaveWay == RemoveFromExec("giveWay", "ready")

-----------------------------------------------------------------------------
(* resolveAllDeadlocks and finishTeam take one more post than trainers     *)
(* there are, since the semaphores begin at one; nobody else takes any.    *)

TakeAll_OneLess(s) ==
  /\ sem[s] >= trainersCount
  /\ sem' = [sem EXCEPT ![s] = @ - trainersCount]
  /\ UNCHANGED <<algorithm, lists, exec, available, missing, appeared, closer, runner>>
TakeAll(s) ==
  /\ sem[s] > trainersCount
  /\ sem' = [sem EXCEPT ![s] = @ - (trainersCount + 1)]
  /\ UNCHANGED <<algorithm, lists, exec, available, missing, appeared, closer, runner>>

StartSearch ==
  /\ ~flagDeadLock
  /\ TakeAll("deadlockCount")
  /\ flagDeadLock' = TRUE
  /\ UNCHANGED running

Finish ==
  /\ TakeAll("exitCount")
  /\ running' = FALSE
  /\ UNCHANGED flagDeadLock

Closer == \/ WaitTrainer \/ WaitPokemon \/ LockAvailable \/ Look \/ LookedAtAll
          \/ Choose \/ Drop \/ GiveBack \/ UnlockAvailable
Schedule == \/ WaitReady \/ WaitExec \/ AddToExec \/ RemoveFromReady \/ Move
            \/ Place \/ Release \/ PostPlaced \/ Preempt \/ Requeue \/ GiveWay \/ GaveWay
Runner == Schedule \/ Catch
Appearing(p) == Appear(p) \/ AddAvailable(p)

Next ==
  running /\ (Closer \/ Runner \/ (\E p \in Arrivals : Appearing(p))
              \/ StartSearch \/ Finish)

Spec == Init /\ [][Next]_vars

-----------------------------------------------------------------------------
TrainerRecords ==
  [id : Trainers, pos : Int \X Int, held : [Species -> Nat],
   target : Arrivals \cup {Nothing}, state : {"AVAILABLE", "DEADLOCK", "WAITING"},
   burst : Nat \cup {-1}, estimate : Nat]

(* Where the scheduler is while it asks the broker for a pokemon: never    *)
(* here, in Catching.                                                      *)
AskingPcs == {"send", "ack", "cutOff", "asked"}

TypeOK ==
  /\ algorithm \in Algorithms
  /\ {new, ready, blocked, exit} \subseteq Seq(TrainerRecords)
  /\ exec \in [on : BOOLEAN, trainer : TrainerRecords]
  /\ available \in Seq(Arrivals)
  /\ missing \in [Species -> Nat]
  /\ sem \in [Semaphores -> Nat]
  /\ appeared \in [Arrivals -> {"none", "add", "done"}]
  /\ closer \in [pc : {"trainer", "pokemon", "lock", "look", "choose", "drop",
                       "giveBack", "unlock"},
                 pkm : Nat, left : Int, list : {"new", "blocked"}, pos : Nat]
  /\ runner \in [pc : {"ready", "exec", "schedule", "remove", "run", "place",
                       "release", "post", "preempt", "requeue", "giveWay"}
                      \cup AskingPcs,
                 pos : Nat, clocks : 0 .. Quantum, left : Int, post : Semaphores]
  /\ {flagDeadLock, running} \subseteq BOOLEAN

One(condition) == IF condition THEN 1 ELSE 0

(* The semaphores count what the lists hold, though lists and semaphores   *)
(* are changed apart: a post for each ready trainer; the execution token   *)
(* where nobody executes; a post for each trainer that could be given a    *)
(* pokemon.  So the scheduler, which keeps both its tokens when it finds   *)
(* nobody ready or somebody executing, never has to, and no free trainer   *)
(* is left without a token or planned twice for one.                       *)
SemaphoresCountLists ==
  /\ Len(ready) = sem["readyTrainer"] + One(runner.pc \in {"exec", "schedule", "remove"})
  /\ sem["execTrainer"] + One(exec.on) + One(runner.pc = "schedule") = 1
  /\ Len(new) + Cardinality(Free(blocked))
       = sem["availableTrainersCount"]
         + One(closer.pc \in {"pokemon", "lock", "look", "choose", "drop", "giveBack"})
         + One(/\ runner.pc \in {"release", "post"}
               /\ runner.post = "availableTrainersCount")

(* A trainer is in one list: the lists are changed while others read       *)
(* them, and its copies exist twice, or not at all, only inside a move.    *)
Listed(list, t) == Cardinality({i \in DOMAIN list : list[i].id = t})
Copies(t) ==
  One(exec.on /\ exec.trainer.id = t)
    + Listed(new, t) + Listed(ready, t) + Listed(blocked, t) + Listed(exit, t)

BeingDropped == IF closer.list = "new" THEN new[closer.pos].id ELSE blocked[closer.pos].id

InOneList ==
  \A t \in Trainers :
    Copies(t) = 1 + One(closer.pc = "drop" /\ BeingDropped = t)
                  + One(runner.pc \in {"remove", "release", "giveWay"} /\ exec.trainer.id = t)
                  - One(runner.pc = "requeue" /\ exec.trainer.id = t)

(* While the team has room it misses something: what is missing falls by   *)
(* one name at most with each catch, even of a pokemon that two went for.  *)
AllTrainers == {new[i] : i \in DOMAIN new} \cup {ready[i] : i \in DOMAIN ready}
  \cup {blocked[i] : i \in DOMAIN blocked} \cup {exit[i] : i \in DOMAIN exit}

RoomLeft(t) ==
  LET copies == {u \in AllTrainers \cup (IF exec.on \/ runner.pc = "requeue"
                                         THEN {exec.trainer} ELSE {}) : u.id = t} IN
  Total(Objectives[t]) - Max({Total(u.held) : u \in copies})

RoomIsMissing ==
  Total([t \in Trainers |-> RoomLeft(t)]) <= Total(missing)

Dropping(list, i) == closer.pc = "drop" /\ closer.list = list /\ closer.pos = i

(* The search for deadlocks starts when every trainer is full and waits    *)
(* or has ended, but for a copy that is still to be dropped; the process   *)
(* ends when all have what they want.                                      *)
DetectsWhenAllFull ==
  /\ flagDeadLock =>
       /\ ready = <<>> /\ ~exec.on
       /\ \A i \in DOMAIN new : Dropping("new", i)
       /\ \A i \in DOMAIN blocked :
            blocked[i].state = "DEADLOCK" \/ Dropping("blocked", i)
  /\ ~running =>
       Trainers = {exit[i].id : i \in {i \in DOMAIN exit : ~HoldsOthers(exit[i])}}

(* A trainer that was given a pokemon catches it, whatever else appears    *)
(* and whoever is ready before it.                                         *)
PlannedCatches ==
  \A t \in Trainers : \A n \in Total(StartHeld[t]) .. Total(Objectives[t]) - 1 :
    (\E i \in DOMAIN ready : ready[i].id = t /\ Total(ready[i].held) = n)
      ~> (\E u \in AllTrainers : u.id = t /\ Total(u.held) > n)
=============================================================================

------------------------------- MODULE Catching -------------------------------
(***************************************************************************)
(* A Team and a GameCard that talk through the broker (Team/src/Team.c,    *)
(* GameCard/src/GameCard.c).  The Team asks where the pokemons it misses   *)
(* are (GET, answered by LOCALIZED), and a trainer that reached one asks   *)
(* for it (CATCH) and waits, blocked, until a thread processes the answer  *)
(* (CAUGHT) and finds the trainer by the id the broker gave the request.   *)
(* The threads that plan are those of Planner, and share its lists.        *)
(*                                                                         *)
(* The broker is seen from outside, through what Broker promises: it gives *)
(* a message the next id, acknowledges it to the publisher, and delivers   *)
(* it to who is subscribed, and to who subscribes later.  Ids and          *)
(* deliveries come in any order: they travel on different connections.     *)
(* GameCard answers from its files, each operation as PokemonFile has it,  *)
(* in one step.  Faults may happen: the broker ends and starts again, with *)
(* nothing cached and its ids from the first; a subscription is cut.       *)
(*                                                                         *)
(* No two names share their first four bytes.  Behaviour that is undefined *)
(* in C (a position past the end of a list) stops the process.             *)
(***************************************************************************)
EXTENDS Planner

CONSTANTS
  Wanted,      \* the names of missingPkms, in order
  StartStock,  \* the lines of GameCard's files, in order: [pkm, amount], of the
               \* pokemons that may appear
  OthersWant,  \* bound: the names of the pokemons that others catch
  Faults       \* bound: what may happen, once: the broker's "outage", and the
               \* queues of which the subscription may be cut

Queues == {"GET", "LOCALIZED", "CATCH", "CAUGHT"}

ASSUME CatchingAssumption ==
  /\ Wanted \in Seq(Species) /\ ToSet(Wanted) = {s \in Species : Missing(s) > 0}
  /\ StartStock \in Seq([pkm : Arrivals, amount : Nat \ {0}])
  /\ OthersWant \subseteq Species
  /\ Faults \subseteq {"outage"} \cup Queues

VARIABLES
  up,       \* the broker runs
  lastId,   \* its ID
  cached,   \* its messages
  link,     \* the subscription to each queue: [on, times, served]
  transit,  \* delivered and not received: [msg, times]
  stock,    \* the lines of GameCard's files
  leftOpen, \* the names of those that a CATCH left open (see PokemonFile)
  taken,    \* history: how many pokemons of each name others caught
  defaults, \* history: how many were caught without a broker
  threads,  \* those that process a message: [msg, times, pc, at, pkm]
  main,     \* the Team's main until the other threads start: [pc, i]
  ids,      \* the ids acknowledged to main and to the runner
  getList, catchList,
  mishaps   \* history: the faults, the answers nobody waited for, the ones
            \* that came twice, the trainers moved while their position was kept

brokerVars == <<up, lastId, cached, link, transit>>
cardVars == <<stock, leftOpen, taken, defaults>>
askVars == <<main, ids, getList, catchList>>
catchingVars == <<vars, brokerVars, cardVars, threads, askVars, mishaps>>

Message(type, cid, pkm, n) == [type |-> type, id |-> 0, cid |-> cid, pkm |-> pkm, n |-> n]

CatchingInit ==
  /\ Init
  /\ up = TRUE /\ lastId = 0 /\ cached = {} /\ transit = {}
  /\ link = [q \in Queues |-> [on |-> TRUE, times |-> 1, served |-> {}]]
  /\ stock = StartStock /\ leftOpen = {} /\ defaults = 0
  /\ taken = [s \in Species |-> 0]
  /\ threads = {}
  /\ main = [pc |-> "get", i |-> 1]
  /\ ids = [main |-> 0, runner |-> 0]
  /\ getList = {} /\ catchList = <<>>
  /\ mishaps = {}

-----------------------------------------------------------------------------
(* The broker and the connections to it. *)

(* A message is published on a connection of its own. *)
Publish(m) ==
  LET msg == [m EXCEPT !.id = lastId + 1]  to == link[m.type] IN
  /\ up
  /\ lastId' = msg.id
  /\ cached' = cached \cup {msg}
  /\ transit' = IF to.on THEN transit \cup {[msg |-> msg, times |-> to.times]} ELSE transit
  /\ link' = IF to.on THEN [link EXCEPT ![m.type].served = @ \cup {msg.id}] ELSE link
  /\ UNCHANGED up

(* subscribeToBrokerGet and its like, once the broker accepts: what is     *)
(* cached is delivered, but for what was sent to the same descriptor       *)
(* before, if the connection is given the one of the last.                 *)
Subscribe(q) ==
  LET all == {m \in cached : m.type = q}
      unserved == {m \in all : m.id \notin link[q].served} IN
  /\ up /\ ~link[q].on
  /\ \E served \in {all, unserved} :
       /\ transit' = transit \cup {[msg |-> m, times |-> link[q].times + 1] : m \in served}
       /\ mishaps' = mishaps \cup (IF served # unserved THEN {"twice"} ELSE {})
  /\ link' = [link EXCEPT ![q] = [on |-> TRUE, times |-> @.times + 1,
                                  served |-> {m.id : m \in all}]]
  /\ UNCHANGED <<vars, up, lastId, cached, cardVars, threads, askVars>>

Happens(fault) == fault \in Faults /\ mishaps \cap Faults = {}

(* A subscription's connection breaks.  What was delivered may still be    *)
(* received, or never.                                                     *)
Cut(q) ==
  /\ Happens(q)
  /\ link[q].on
  /\ link' = [link EXCEPT ![q].on = FALSE]
  /\ mishaps' = mishaps \cup {q}
  /\ UNCHANGED <<vars, up, lastId, cached, transit, cardVars, threads, askVars>>

(* The broker ends.  The runner that waits for an acknowledgement which    *)
(* has not arrived reads the closed connection again and again.            *)
Outage ==
  /\ Happens("outage")
  /\ up' = FALSE /\ lastId' = 0 /\ cached' = {}
  /\ link' = [q \in Queues |-> [link[q] EXCEPT !.on = FALSE, !.served = {}]]
  /\ \/ /\ runner.pc \in {"send", "ack"}
        /\ RunTo("cutOff")
     \/ /\ runner.pc # "send"
        /\ UNCHANGED runner
  /\ mishaps' = mishaps \cup {"outage"}
  /\ UNCHANGED <<algorithm, lists, exec, available, missing, sem, appeared, closer, ends,
                 transit, cardVars, threads, askVars>>

Restart ==
  /\ ~up
  /\ up' = TRUE
  /\ UNCHANGED <<vars, lastId, cached, link, transit, cardVars, threads, askVars, mishaps>>

-----------------------------------------------------------------------------
(* Threads that process a message. *)

Thread(d, pc, at) ==
  [msg |-> d.msg, times |-> d.times, pc |-> pc, at |-> at, pkm |-> d.msg.pkm]

(* Received: the message d is left to a thread, or to none. *)
Receive(d, started) ==
  /\ transit' = transit \ {d}
  /\ threads' = threads \cup started
  /\ UNCHANGED <<up, lastId, cached, link>>

GoesTo(t, pc) == threads' = (threads \ {t}) \cup {[t EXCEPT !.pc = pc]}
Ends(t) == threads' = threads \ {t}

-----------------------------------------------------------------------------
(* GameCard. *)

(* GameCard_Wait_For_Message acknowledges a message and starts a thread,   *)
(* which does the operation: one step, since nobody sees the difference.   *)
LinesOf(name) == {i \in DOMAIN stock : stock[i].pkm.name = name}
Amount(lines, name) ==
  Total([i \in DOMAIN lines |-> IF lines[i].pkm.name = name THEN lines[i].amount ELSE 0])

(* GameCard_Process_Message_Get: how many there are of the name in all, and *)
(* the places, of which the Team uses the first.                           *)
CardLooks(d) ==
  LET name == d.msg.pkm.name IN
  /\ d.msg.type = "GET" /\ name \notin leftOpen
  /\ Receive(d, {[Thread(d, "reply", Amount(stock, name)) EXCEPT
                    !.pkm = IF LinesOf(name) = {} THEN @ ELSE stock[Min(LinesOf(name))].pkm]})
  /\ UNCHANGED <<vars, cardVars, askVars, mishaps>>

(* catch_a_pokemon: one less in the line, which goes with the last. *)
LineAt(pkm) == {i \in DOMAIN stock : stock[i].pkm = pkm}
OneLess_KeepsLast(i) == [stock EXCEPT ![i].amount = IF @ = 1 THEN 1 ELSE @ - 1]
OneLess(i) == IF stock[i].amount = 1 THEN RemoveAt(stock, i)
              ELSE [stock EXCEPT ![i].amount = @ - 1]

(* A file that stays as it was, or only has a number changed, stays open:  *)
(* later operations on it never end.                                       *)
Catches(pkm) ==
  LET at == LineAt(pkm) IN
  /\ pkm.name \notin leftOpen
  /\ stock' = IF at = {} THEN stock ELSE OneLess(Min(at))
  /\ leftOpen' = IF LinesOf(pkm.name) # {} /\ (at = {} \/ stock[Min(at)].amount > 1)
                 THEN leftOpen \cup {pkm.name} ELSE leftOpen

CardCatches_SaysYes(d) ==
  /\ d.msg.type = "CATCH"
  /\ Catches(d.msg.pkm)
  /\ Receive(d, {Thread(d, "reply", 1)})
  /\ UNCHANGED <<vars, taken, defaults, askVars, mishaps>>
CardCatches(d) ==
  /\ d.msg.type = "CATCH"
  /\ Catches(d.msg.pkm)
  /\ Receive(d, {Thread(d, "reply", IF LineAt(d.msg.pkm) = {} THEN 0 ELSE 1)})
  /\ UNCHANGED <<vars, taken, defaults, askVars, mishaps>>

(* GameCard_Process_Message: the reply, or none without a broker. *)
CardReplies(t) ==
  /\ t.pc = "reply"
  /\ Ends(t)
  /\ \/ Publish(Message(IF t.msg.type = "GET" THEN "LOCALIZED" ELSE "CAUGHT",
                        t.msg.id, t.pkm, t.at))
     \/ ~up /\ UNCHANGED brokerVars
  /\ UNCHANGED <<vars, cardVars, askVars, mishaps>>

(* Another client catches a pokemon.  Bound: once the Team has asked.      *)
Taken(i) ==
  /\ main.pc = "started"
  /\ stock[i].pkm.name \in OthersWant
  /\ taken' = [taken EXCEPT ![stock[i].pkm.name] = @ + 1]
  /\ Catches(stock[i].pkm)
  /\ UNCHANGED <<vars, brokerVars, defaults, threads, askVars, mishaps>>

-----------------------------------------------------------------------------
(* The Team's main: requestNewPokemons, before the other threads start.    *)

NextName(m) == [pc |-> IF m.i = Len(Wanted) THEN "started" ELSE "get", i |-> m.i + 1]

(* requestNewPokemon: a name that cannot be asked for is not asked again.  *)
RequestPokemon ==
  /\ main.pc = "get" /\ main.i <= Len(Wanted)
  /\ \/ /\ Publish(Message("GET", 0, [name |-> Wanted[main.i], pos |-> <<0, 0>>], 0))
        /\ main' = [main EXCEPT !.pc = "ack"]
        /\ ids' = [ids EXCEPT !.main = lastId']
     \/ ~up /\ main' = NextName(main) /\ UNCHANGED <<brokerVars, ids>>
  /\ UNCHANGED <<vars, cardVars, threads, getList, catchList, mishaps>>

(* processAcknowledge.  When the broker ended before it answered, what the *)
(* last acknowledgement left in memory may be taken for one.               *)
RegisterGet ==
  /\ main.pc = "ack"
  /\ \/ getList' = getList \cup {ids.main}
     \/ "outage" \in mishaps /\ UNCHANGED getList
  /\ main' = NextName(main)
  /\ UNCHANGED <<vars, brokerVars, cardVars, threads, ids, catchList, mishaps>>

-----------------------------------------------------------------------------
(* processMessageLocalized. *)

Known(d) == d.msg.cid \in getList
InAvailable(name) == \E i \in DOMAIN available : available[i].name = name

LocalizedArrives(d) ==
  /\ d.msg.type = "LOCALIZED"
  /\ Receive(d, IF d.msg.n > 0 /\ Known(d) /\ ~InAvailable(d.msg.pkm.name)
                THEN {Thread(d, "lock", d.msg.n)} ELSE {})
  /\ mishaps' = mishaps \cup (IF Known(d) THEN {} ELSE {"unknown"})
  /\ UNCHANGED <<vars, cardVars, askVars>>

LocalizedLock(t) ==
  /\ t.pc = "lock"
  /\ Wait("availablePokemons")
  /\ GoesTo(t, "add")
  /\ UNCHANGED <<algorithm, lists, exec, available, missing, appeared, closer, runner, ends,
                 brokerVars, cardVars, askVars, mishaps>>

(* Each of the pokemons is added at the first place, and unlocks the list. *)
LocalizedAdd(t) ==
  /\ t.pc = "add"
  /\ available' = Append(available, t.pkm)
  /\ sem' = [sem EXCEPT !["availablePokemons"] = @ + 1, !["availablePokemonsCount"] = @ + 1]
  /\ threads' = (threads \ {t}) \cup (IF t.at = 1 THEN {} ELSE {[t EXCEPT !.at = @ - 1]})
  /\ UNCHANGED <<algorithm, lists, exec, missing, appeared, closer, runner, ends, brokerVars,
                 cardVars, askVars, mishaps>>

-----------------------------------------------------------------------------
(* catchPokemon.  Without a broker it is Planner's. *)

CatchDefault == ~up /\ Catch /\ defaults' = defaults + 1

Blocks(t) == blocked' = Append(blocked, t)

AskBroker ==
  LET waiting == [exec.trainer EXCEPT !.state = "WAITING"] IN
  /\ up /\ Hunting /\ Arrived
  /\ exec' = [exec EXCEPT !.trainer = waiting]
  /\ Blocks(waiting)
  /\ RunTo("send")
  /\ UNCHANGED <<algorithm, new, ready, exit, available, missing, sem, appeared, closer, ends,
                 brokerVars, cardVars, threads, askVars, mishaps>>

SendCatch ==
  /\ runner.pc = "send"
  /\ Publish(Message("CATCH", 0, exec.trainer.target, 0))
  /\ ids' = [ids EXCEPT !.runner = lastId']
  /\ RunTo("ack")
  /\ UNCHANGED <<algorithm, lists, exec, available, missing, sem, appeared, closer, ends,
                 cardVars, threads, main, getList, catchList, mishaps>>

(* processAcknowledge, of the acknowledgement or, when the connection was  *)
(* closed, of what the last one left in memory, if it is taken for one.    *)
Register(id, from) ==
  /\ runner.pc = from
  /\ catchList' = Append(catchList, [id |-> id, trainer |-> exec.trainer.id])
  /\ RunTo("asked")
  /\ UNCHANGED <<algorithm, lists, exec, available, missing, sem, appeared, closer, ends,
                 brokerVars, cardVars, threads, main, ids, getList, mishaps>>

RegisterCatch == Register(ids.runner, "ack")
RegisterGarbage == \E i \in DOMAIN catchList : Register(catchList[i].id, "cutOff")

Asked_Silent ==
  /\ RemoveFromExec_Silent("asked", "ready")
  /\ UNCHANGED <<brokerVars, cardVars, threads, askVars, mishaps>>
Asked ==
  /\ RemoveFromExec("asked", "ready")
  /\ UNCHANGED <<brokerVars, cardVars, threads, askVars, mishaps>>

-----------------------------------------------------------------------------
(* processMessageCaught.  A thread that keeps a position in the blocked    *)
(* list finds another trainer there once the list is shortened.            *)

Holds(t) == t.pc \in {"apply", "exit", "drop"}
Shortened(holders) ==
  IF Len(blocked') < Len(blocked) /\ holders THEN {"moved"} ELSE {}

Asker_First(d) == catchList[1].trainer
Asker(d) == catchList[Min({i \in DOMAIN catchList : catchList[i].id = d.msg.cid})].trainer
Asks(d) == \E i \in DOMAIN catchList : catchList[i].id = d.msg.cid
PositionOf(id) == {i \in DOMAIN blocked : blocked[i].id = id}

(* The position of a trainer that is not there is never set. *)
CaughtArrives(d) ==
  /\ d.msg.type = "CAUGHT"
  /\ \E at \in IF ~Asks(d) \/ d.msg.n = 0 THEN {0}
               ELSE IF PositionOf(Asker(d)) # {} THEN {Max(PositionOf(Asker(d)))}
               ELSE {0} \cup DOMAIN blocked :
       Receive(d, IF ~Asks(d) THEN {}
                  ELSE {Thread(d, IF d.msg.n = 1 THEN "apply" ELSE "refuse", at)})
  /\ mishaps' = mishaps \cup (IF Asks(d) THEN {} ELSE {"unknown"})
  /\ UNCHANGED <<vars, cardVars, askVars>>

(* A refusal makes the trainer that executes available, whoever asked.     *)
Refuse(t) ==
  /\ t.pc = "refuse"
  /\ exec' = [exec EXCEPT !.trainer.state = "AVAILABLE"]
  /\ Post("availableTrainersCount")
  /\ Ends(t)
  /\ mishaps' = mishaps \cup {"refused"}
  /\ UNCHANGED <<algorithm, lists, available, missing, appeared, closer, runner, ends,
                 brokerVars, cardVars, askVars>>

Fills(u) == Total(u.held) = Total(Objectives[u.id])

Apply(t) ==
  LET u == Caught(blocked[t.at])
      placed == CASE ~Fills(u) -> "AVAILABLE" [] Fills(u) /\ HoldsOthers(u) -> "DEADLOCK"
                  [] OTHER -> u.state IN
  /\ t.pc = "apply"
  /\ \/ /\ t.at \in DOMAIN blocked
        /\ missing' = [missing EXCEPT ![u.target.name] = IF @ > 0 THEN @ - 1 ELSE 0]
        /\ blocked' = [blocked EXCEPT ![t.at] = [u EXCEPT !.state = placed]]
        /\ IF Fills(u) /\ ~HoldsOthers(u)
           THEN GoesTo(t, "exit") /\ UNCHANGED sem
           ELSE /\ Ends(t)
                /\ Post(IF Fills(u) THEN "deadlockCount" ELSE "availableTrainersCount")
        /\ UNCHANGED ends
     \/ /\ t.at \notin DOMAIN blocked
        /\ running' = FALSE
        /\ Ends(t)
        /\ UNCHANGED <<missing, blocked, sem, flagDeadLock>>
  /\ UNCHANGED <<algorithm, new, ready, exit, exec, available, appeared, closer, runner,
                 brokerVars, cardVars, askVars, mishaps>>

(* The copy that ends is that of the trainer that executes. *)
ExitCaught(t) ==
  /\ t.pc = "exit"
  /\ exit' = Append(exit, exec.trainer)
  /\ Post("exitCount")
  /\ GoesTo(t, "drop")
  /\ UNCHANGED <<algorithm, new, ready, blocked, exec, available, missing, appeared, closer,
                 runner, ends, brokerVars, cardVars, askVars, mishaps>>

DropCaught(t) ==
  /\ t.pc = "drop"
  /\ blocked' = Removed(blocked, t.at)
  /\ Post("deadlockCount")
  /\ Ends(t)
  /\ mishaps' = mishaps \cup
       Shortened((\E u \in threads \ {t} : Holds(u))
                 \/ (closer.pc = "drop" /\ closer.list = "blocked"))
  /\ UNCHANGED <<algorithm, new, ready, exit, exec, available, missing, appeared, closer,
                 runner, ends, brokerVars, cardVars, askVars>>

-----------------------------------------------------------------------------
(* The Team's threads start when main has asked for every name.  Once a    *)
(* position moved, getClosestTrainer may find nobody in the lists it takes *)
(* a trainer from: what it does then is undefined.                         *)
HasChoice == UNCHANGED ready \/ Free(blocked) # {} \/ new # <<>>

PlannerSteps ==
  /\ \/ CatchDefault
     \/ Closer /\ HasChoice /\ UNCHANGED defaults
     \/ (Schedule \/ StartSearch \/ Finish) /\ UNCHANGED defaults
  /\ mishaps' = mishaps \cup Shortened(\E t \in threads : Holds(t))
  /\ UNCHANGED <<brokerVars, stock, leftOpen, taken, threads, askVars>>

Asking == AskBroker \/ SendCatch \/ RegisterCatch \/ RegisterGarbage \/ Asked

Arrives(d) == CardLooks(d) \/ CardCatches(d) \/ LocalizedArrives(d) \/ CaughtArrives(d)
Processes(t) == \/ CardReplies(t) \/ LocalizedLock(t) \/ LocalizedAdd(t)
                \/ Refuse(t) \/ Apply(t) \/ ExitCaught(t) \/ DropCaught(t)

CatchingNext ==
  running /\ (\/ main.pc = "started" /\ (PlannerSteps \/ Asking)
              \/ RequestPokemon \/ RegisterGet
              \/ \E q \in Queues : Subscribe(q) \/ Cut(q)
              \/ Outage \/ Restart
              \/ \E i \in DOMAIN stock : Taken(i)
              \/ \E d \in transit : Arrives(d)
              \/ \E t \in threads : Processes(t))

CatchingSpec == CatchingInit /\ [][CatchingNext]_catchingVars
-----------------------------------------------------------------------------
(* A positive answer finds the trainer that asked, waiting for the pokemon *)
(* the answer is about, however many wait, as long as no other was taken   *)
(* out of the list meanwhile and the broker neither answers twice nor      *)
(* starts its ids again.                                                   *)
Without(kinds) == mishaps \cap kinds = {}

AnswerReachesItsTrainer ==
  \A t \in threads :
    (t.pc = "apply" /\ Without({"moved", "twice", "outage"})) =>
      /\ t.at \in DOMAIN blocked
      /\ blocked[t.at].state = "WAITING" /\ blocked[t.at].target = t.pkm

(* No pokemon comes from nowhere: what the trainers hold beyond their own  *)
(* start was handed out by GameCard, or caught without a broker, each once *)
(* and for one trainer, through outages, lost answers and positions that   *)
(* moved.  Only an answer delivered twice makes one more.                  *)
HeldAtStart == Total([t \in Trainers |-> Total(StartHeld[t])])
HandedOut(s) == Amount(StartStock, s) - Amount(stock, s) - taken[s]
AllHandedOut == Total([s \in Species |-> HandedOut(s)])

NothingFromNothing ==
  LET all == AllTrainers \cup {exec.trainer} \cup {NewTrainer(t) : t \in Trainers}
      HeldBy(t) == Max({Total(u.held) : u \in {u \in all : u.id = t}}) IN
  Without({"twice"}) =>
    Total([t \in Trainers |-> HeldBy(t)]) <= HeldAtStart + AllHandedOut + defaults

(* What the Team misses of a name is what it missed at the start but for   *)
(* what GameCard handed out: the rest is still in its files, or its answer *)
(* is on the way.  removeFromMissingPkms does not count below nothing.     *)
OnTheWay(s) ==
  Cardinality({t \in threads : /\ t.pc = "reply" /\ t.msg.type = "CATCH" /\ t.at = 1
                               /\ t.pkm.name = s})
  + Cardinality({d \in transit : /\ d.msg.type = "CAUGHT" /\ d.msg.n = 1
                                 /\ d.msg.pkm.name = s})
  + Cardinality({t \in threads : t.pc = "apply" /\ t.pkm.name = s})

MissesWhatItDidNotGet ==
  Without(Faults \cup {"unknown", "twice", "moved"}) /\ running =>
    \A s \in Species :
      missing[s] = Max({0, Missing(s) + OnTheWay(s) - HandedOut(s)})

(* The semaphores count the lists while answers change them too: a trainer *)
(* that an answer frees has a token, and one that waits has none.          *)
TokensCountFreeTrainers ==
  Without({"moved", "twice", "refused", "outage"}) => SemaphoresCountLists
=============================================================================

---------------------------- MODULE Exchange_proofs ----------------------------
(***************************************************************************)
(* Theorems about Exchange, for any team: where a trainer is while others  *)
(* exchange, what the one that goes to trade finds, and what an exchange   *)
(* is good for.  Until the search for deadlocks begins the invariant is    *)
(* that of Planner_proofs.                                                 *)
(***************************************************************************)
EXTENDS Exchange, Planner_proofs

-----------------------------------------------------------------------------
(* A trainer that may go for a pokemon that it is to be given.             *)

Targets == Pokemons \cup [name : Species, pos : {<<0, 0>>}]
TraderRecords ==
  [id : Trainers, pos : Int \X Int, held : [Species -> Nat], target : Targets,
   state : {"AVAILABLE", "DEADLOCK", "WAITING"}, burst : Nat \cup {-1}, estimate : Nat]

LEMMA TraderParts ==
  ASSUME NEW r \in TraderRecords
  PROVE  /\ r.id \in Trainers /\ r.pos \in Int \X Int /\ r.held \in [Species -> Nat]
         /\ r.target \in Targets /\ r.state \in {"AVAILABLE", "DEADLOCK", "WAITING"}
         /\ r.burst \in Nat \cup {-1} /\ r.estimate \in Nat
BY DEF TraderRecords

LEMMA TrainerIsTrader == TrainerRecords \subseteq TraderRecords
BY DEF TrainerRecords, TraderRecords, Targets, Pokemons

LEMMA AimedTrader ==
  ASSUME NEW r \in TraderRecords, NEW p \in Targets
  PROVE  /\ [r EXCEPT !.target = p] \in TraderRecords
         /\ [r EXCEPT !.target = p].id = r.id /\ [r EXCEPT !.target = p].held = r.held
         /\ [r EXCEPT !.target = p].state = r.state /\ [r EXCEPT !.target = p].target = p
BY DEF TraderRecords

LEMMA BegunTrader ==
  ASSUME NEW r \in TraderRecords
  PROVE  Begun(r) \in TraderRecords /\ SameTrainer(Begun(r), r)
<1>1. Estimate(r) \in Nat
  BY TraderParts, EstimateOf
<1> QED BY <1>1 DEF Begun, TraderRecords, SameTrainer

LEMMA SteppedTrader ==
  ASSUME NEW r \in TraderRecords, NEW p \in Int \X Int
  PROVE  Stepped(r, p) \in TraderRecords /\ SameTrainer(Stepped(r, p), r)
<1> USE DEF SameTrainer
<1> DEFINE to == Moved(r, p).pos
           b == IF Sjf THEN r.burst + 1 ELSE r.burst
<1>1. to \in Int \X Int
  <2>1. \A a, b2 \in Int : Toward(a, b2) \in Int
    BY DEF Toward
  <2>2. r.pos \in Int \X Int /\ r.pos[1] \in Int /\ r.pos[2] \in Int /\ p[1] \in Int /\ p[2] \in Int
    BY TraderParts
  <2>3. to = IF r.pos[1] # p[1] THEN <<Toward(r.pos[1], p[1]), r.pos[2]>>
                  ELSE <<r.pos[1], Toward(r.pos[2], p[2])>>
    BY DEF Moved, TraderRecords
  <2> HIDE DEF to
  <2>4. <<Toward(r.pos[1], p[1]), r.pos[2]>> \in Int \X Int
        /\ <<r.pos[1], Toward(r.pos[2], p[2])>> \in Int \X Int
    BY <2>1, <2>2
  <2> QED BY <2>3, <2>4
<1>2. Moved(r, p) = [r EXCEPT !.pos = to] /\ Moved(r, p).burst = r.burst
  BY DEF Moved, TraderRecords
<1>3. b \in Nat \cup {-1}
  BY TraderParts
<1>4. Stepped(r, p) = [Moved(r, p) EXCEPT !.burst = b]
  BY <1>2 DEF Stepped
<1> HIDE DEF to, b
<1> QED BY <1>1, <1>2, <1>3, <1>4 DEF TraderRecords

(* What one is given and what it gives are two. *)
LEMMA TradedTrader ==
  ASSUME NEW r \in TraderRecords, NEW gets \in Species, NEW gives \in Species,
         gets # gives, r.held[gives] > 0
  PROVE  /\ Traded(r, gets, gives) \in TraderRecords
         /\ Traded(r, gets, gives).id = r.id /\ Traded(r, gets, gives).target = r.target
         /\ Traded(r, gets, gives).state = r.state
         /\ Traded(r, gets, gives).held =
              [s \in Species |-> IF s = gets THEN r.held[s] + 1
                                 ELSE IF s = gives THEN r.held[s] - 1 ELSE r.held[s]]
<1> DEFINE h == r.held
           a == h[gets] + 1
           b == h[gives] - 1
           g == [[h EXCEPT ![gets] = a] EXCEPT ![gives] = b]
<1>1. h \in [Species -> Nat] /\ a \in Nat /\ b \in Nat
  BY TraderParts
<1>2. Traded(r, gets, gives) = [r EXCEPT !.held = g]
  BY <1>1 DEF Traded, TraderRecords
<1>3. g \in [Species -> Nat]
      /\ g = [s \in Species |-> IF s = gets THEN r.held[s] + 1
                                 ELSE IF s = gives THEN r.held[s] - 1 ELSE r.held[s]]
  <2> HIDE DEF h, a, b
  <2>1. g \in [Species -> Nat]
    BY <1>1
  <2>2. \A s \in Species : g[s] = IF s = gets THEN a ELSE IF s = gives THEN b ELSE h[s]
    BY <1>1
  <2> HIDE DEF g
  <2>3. g = [s \in Species |-> IF s = gets THEN a ELSE IF s = gives THEN b ELSE h[s]]
    BY <2>1, <2>2
  <2> QED BY <2>1, <2>3 DEF a, b, h
<1> HIDE DEF g, a, b, h
<1> QED BY <1>2, <1>3 DEF TraderRecords

(* How many of an id a list has. *)
OfId(t) == {r \in TraderRecords : r.id = t}

LEMMA ListedAre ==
  ASSUME NEW list \in Seq(TraderRecords), NEW t
  PROVE  Listed(list, t) = Hits(list, OfId(t)) /\ Listed(list, t) \in Nat
<1>1. \A i \in DOMAIN list : list[i] \in TraderRecords
  OBVIOUS
<1>2. {i \in DOMAIN list : list[i].id = t} = {i \in DOMAIN list : list[i] \in OfId(t)}
  BY <1>1 DEF OfId
<1> QED BY <1>2, HitsNat DEF Listed, Hits

LEMMA ListedAppend ==
  ASSUME NEW list \in Seq(TraderRecords), NEW e \in TraderRecords, NEW t
  PROVE  /\ Append(list, e) \in Seq(TraderRecords)
         /\ Listed(Append(list, e), t) = Listed(list, t) + One(e.id = t)
<1>1. Append(list, e) \in Seq(TraderRecords)
  OBVIOUS
<1>2. Hits(Append(list, e), OfId(t)) = Hits(list, OfId(t)) + One(e \in OfId(t))
  BY HitsAppend
<1>3. e \in OfId(t) <=> e.id = t
  BY DEF OfId
<1> QED BY <1>1, <1>2, <1>3, ListedAre DEF One

LEMMA ListedRemoved ==
  ASSUME NEW list \in Seq(TraderRecords), NEW k \in DOMAIN list, NEW t
  PROVE  /\ RemoveAt(list, k) \in Seq(TraderRecords)
         /\ Listed(RemoveAt(list, k), t) = Listed(list, t) - One(list[k].id = t)
<1>1. RemoveAt(list, k) \in Seq(TraderRecords)
  BY RemovedPlaces
<1>2. Hits(RemoveAt(list, k), OfId(t)) = Hits(list, OfId(t)) - One(list[k] \in OfId(t))
  BY HitsRemoved
<1>3. list[k] \in OfId(t) <=> list[k].id = t
  BY DEF OfId
<1> QED BY <1>1, <1>2, <1>3, ListedAre DEF One

LEMMA ListedEmpty == ASSUME NEW t PROVE Listed(<<>>, t) = 0
<1>1. <<>> \in Seq(TraderRecords)
  OBVIOUS
<1> QED BY <1>1, ListedAre, HitsEmpty

LEMMA ListedSingle ==
  ASSUME NEW e \in TraderRecords, NEW t
  PROVE  Listed(<<e>>, t) = One(e.id = t)
<1> DEFINE none == <<>>
<1>1. <<e>> = Append(none, e) /\ none \in Seq(TraderRecords)
  OBVIOUS
<1>2. Listed(none, t) = 0
  BY ListedEmpty
<1> HIDE DEF none
<1>3. Listed(Append(none, e), t) = Listed(none, t) + One(e.id = t)
  BY <1>1, ListedAppend
<1> DEFINE one == <<e>>
<1>4. one = Append(none, e)
  BY <1>1
<1> HIDE DEF one
<1>5. Listed(one, t) = One(e.id = t)
  BY <1>2, <1>3, <1>4 DEF One
<1> QED BY <1>5 DEF one

(* Two of one id. *)
LEMMA ListedTwice ==
  ASSUME NEW list \in Seq(TraderRecords), NEW i \in DOMAIN list, NEW j \in DOMAIN list,
         list[i].id = list[j].id, i # j
  PROVE  Listed(list, list[i].id) >= 2
<1>1. list[i] \in OfId(list[i].id) /\ list[j] \in OfId(list[i].id)
  BY DEF OfId
<1>2. Hits(list, OfId(list[i].id)) >= 2
  BY <1>1, HitsTwo
<1> QED BY <1>2, ListedAre

LEMMA SameIds ==
  ASSUME NEW list \in Seq(TraderRecords), NEW now \in Seq(TraderRecords),
         DOMAIN now = DOMAIN list, \A i \in DOMAIN list : now[i].id = list[i].id, NEW t
  PROVE  Listed(now, t) = Listed(list, t)
<1>1. {i \in DOMAIN now : now[i].id = t} = {i \in DOMAIN list : list[i].id = t}
  OBVIOUS
<1> QED BY <1>1 DEF Listed

-----------------------------------------------------------------------------
(* What a trainer and its partner can give each other: t lacks what it     *)
(* goes for and u has it, and t has too many of what u is to be given.     *)

Fits(t, u) ==
  LET want == t.target.name  give == u.target.name IN
  /\ t.state = "DEADLOCK" /\ u.state = "DEADLOCK" /\ u.id # t.id
  /\ want \in Species /\ give \in Species
  /\ t.held[want] < Objectives[t.id][want] /\ t.held[give] > Objectives[t.id][give]
  /\ u.held[want] > 0
  /\ Size(u) <= Size(t) => u.held[want] > Objectives[u.id][want]

(* Whoever has the id in the list is one that fits, and there is one. *)
Meets(t, list, who) ==
  /\ \E h \in DOMAIN list : list[h].id = who
  /\ \A h \in DOMAIN list : list[h].id = who => Fits(t, list[h])

LEMMA MeetsAlike ==
  ASSUME NEW t, NEW u, SameTrainer(u, t), NEW list, NEW who, Meets(t, list, who)
  PROVE  Meets(u, list, who)
BY DEF SameTrainer, Meets, Fits, Size

LEMMA MeetsLess ==
  ASSUME NEW list \in Seq(TraderRecords), NEW k \in DOMAIN list, NEW t, NEW who,
         list[k].id = t.id, Meets(t, list, who)
  PROVE  Meets(t, RemoveAt(list, k), who)
<1> DEFINE short == RemoveAt(list, k)
           n == Len(list)
<1>1. n \in Nat /\ DOMAIN list = 1 .. n /\ k \in 1 .. n
  OBVIOUS
<1>2. short \in Seq(TraderRecords) /\ Len(short) = n - 1
      /\ \A i \in DOMAIN short : short[i] = IF i < k THEN list[i] ELSE list[i + 1]
  BY RemovedPlaces
<1> HIDE DEF short, n
<1>3. DOMAIN short = 1 .. n - 1
  BY <1>1, <1>2
<1>4. PICK h \in DOMAIN list : list[h].id = who
  BY DEF Meets
<1>5. h # k
  BY <1>4 DEF Meets, Fits
<1>6. \E i \in DOMAIN short : short[i].id = who
  <2>1. CASE h < k
    <3>1. h \in DOMAIN short /\ short[h] = list[h]
      BY <1>1, <1>2, <1>3, <1>4, <2>1
    <3> QED BY <1>4, <3>1
  <2>2. CASE h > k
    <3> DEFINE i == h - 1
    <3>1. i \in 1 .. n - 1 /\ ~ (i < k) /\ i + 1 = h
      BY <1>1, <1>4, <2>2
    <3> HIDE DEF i
    <3>2. i \in DOMAIN short /\ short[i] = list[h]
      BY <1>2, <1>3, <3>1
    <3> QED BY <1>4, <3>2
  <2> QED BY <1>1, <1>4, <1>5, <2>1, <2>2
<1>7. ASSUME NEW i \in DOMAIN short, short[i].id = who PROVE Fits(t, short[i])
  <2>1. PICK j \in DOMAIN list : short[i] = list[j]
    <3>1. i \in DOMAIN list /\ i + 1 \in DOMAIN list
      BY <1>1, <1>3
    <3> QED BY <1>2, <3>1
  <2> QED BY <1>7, <2>1 DEF Meets
<1> QED BY <1>6, <1>7 DEF Meets, short

-----------------------------------------------------------------------------
(* The invariant.  Before the search for deadlocks begins it is that of    *)
(* Planner_proofs, and whoever is new, ready or executed is no deadlocked  *)
(* one (BeforeSearch).  Then it is (InSearch):                             *)
(*   - ClosedInv: nobody is given a pokemon any more; the copy that was    *)
(*     still to be dropped keeps the search from choosing anybody;         *)
(*   - ResolverInv: while the resolver searches or places, nobody is       *)
(*     planned or executed; between it has one trainer planned, which goes *)
(*     (OnTrip) and finds its partner until it has traded (HasTraded).     *)

Idling == {"ready", "exec", "schedule"}

AvailableInv ==
  /\ \A i \in DOMAIN new : new[i].state = "AVAILABLE"
  /\ \A i \in DOMAIN ready : ready[i].state = "AVAILABLE"
  /\ runner.pc \in {"remove", "run", "preempt", "requeue", "giveWay"} =>
       exec.trainer.state = "AVAILABLE"

Resolvers ==
  [pc : {"search", "ready", "unblock", "wait", "place", "free", "partner", "ended"},
   i : Nat, j : Nat]

BeforeSearch ==
  /\ ~flagDeadLock /\ EndCore /\ AvailableInv
  /\ resolver \in Resolvers /\ resolver.pc = "search"
  /\ partner \in [Trainers -> Trainers] /\ finishDeadlock = 0

TradersTypes ==
  /\ new \in Seq(TraderRecords) /\ ready \in Seq(TraderRecords)
  /\ blocked \in Seq(TraderRecords) /\ exit \in Seq(TraderRecords)
  /\ exec \in [on : BOOLEAN, trainer : TraderRecords]
  /\ sem \in [Semaphores -> Nat] /\ closer \in Closers
  /\ {"pc", "pos"} \subseteq DOMAIN runner
  /\ resolver \in Resolvers /\ partner \in [Trainers -> Trainers] /\ finishDeadlock \in Nat

ClosedInv ==
  /\ closer.pc \in {"trainer", "unlock", "drop"} /\ sem["availableTrainersCount"] = 0
  /\ closer.pc = "drop" =>
       /\ resolver.pc = "search"
       /\ closer.pos \in IF closer.list = "new" THEN DOMAIN new ELSE DOMAIN blocked
  /\ \A i \in DOMAIN new : Dropping("new", i)
  /\ \A i \in DOMAIN blocked : blocked[i].state = "DEADLOCK" \/ Dropping("blocked", i)

Queued(t) == ~exec.on /\ runner.pc \in Idling /\ ready = <<t>>
Copied(t) ==
  /\ exec.on /\ exec.trainer = t /\ runner.pc = "remove" /\ runner.pos = 1
  /\ \E q \in TraderRecords : SameTrainer(t, q) /\ ready = <<q>>
Goes(t) == exec.on /\ exec.trainer = t /\ runner.pc \in {"run", "preempt"} /\ ready = <<>>
Turns(t) == ~exec.on /\ exec.trainer = t /\ runner.pc = "requeue" /\ ready = <<>>
OnTrip(t) == Queued(t) \/ Copied(t) \/ Goes(t) \/ Turns(t)
HasTraded(t) == exec.on /\ exec.trainer = t /\ runner.pc \in Idling /\ ready = <<>>
Resting == ~exec.on /\ runner.pc \in Idling /\ ready = <<>>

Trip(t) ==
  /\ t.state = "DEADLOCK"
  /\ \/ OnTrip(t) /\ finishDeadlock = 0 /\ Meets(t, blocked, partner[t.id])
     \/ HasTraded(t) /\ finishDeadlock = 1
  /\ resolver.pc = "unblock" =>
       resolver.i \in DOMAIN blocked /\ blocked[resolver.i].id = t.id

Choosing ==
  /\ Resting /\ finishDeadlock = 0
  /\ resolver.pc = "ready" =>
       /\ resolver.i \in DOMAIN blocked
       /\ Meets(blocked[resolver.i], blocked, partner[blocked[resolver.i].id])

Placing ==
  /\ exec.on /\ runner.pc \in Idling /\ ready = <<>> /\ finishDeadlock = 0
  /\ resolver.pc = "place" => exec.trainer.state = "DEADLOCK"

ResolverInv ==
  /\ resolver.pc \in {"search", "ready", "partner", "ended"} => Choosing
  /\ resolver.pc \in {"unblock", "wait"} => \E t \in TraderRecords : Trip(t)
  /\ resolver.pc \in {"place", "free"} => Placing

UnblockOne(t) == One(resolver.pc = "unblock" /\ blocked[resolver.i].id = t)
FreeOne(t) == One(resolver.pc = "free" /\ exec.trainer.id = t)
TradersOneList(t) ==
  ExecOne(t) + InLists(t)
    = 1 + DropOne(t) + TwiceOne(t) - BetweenOne(t) + UnblockOne(t) + FreeOne(t)

InSearch ==
  /\ flagDeadLock /\ TradersTypes /\ ClosedInv /\ ResolverInv
  /\ \A t \in Trainers : TradersOneList(t)

ExchangeCore == running /\ ~disturbed => BeforeSearch \/ InSearch

-----------------------------------------------------------------------------
(* Before the search. *)

LEMMA CloserKeepsAvailable ==
  ASSUME Base, AvailableInv, Closer
  PROVE  AvailableInv'
<1>0. new \in Seq(TrainerRecords) /\ ready \in Seq(TrainerRecords)
  BY AllTypes DEF Base, Sound
<1>1. CASE Quiet
  BY <1>1, QuietSteps DEF NoLists, lists, AvailableInv
<1>2. ASSUME NEW p \in Arrivals, Planning(p) PROVE AvailableInv'
  <2>1. UNCHANGED <<new, blocked, exec, runner>> /\ closer' \in Closers /\ closer'.pc = "drop" /\ CloserInv'
    BY <1>2 DEF Planning
  <2>2. Choice'.state = "AVAILABLE" /\ Choice' \in TrainerRecords
    <3>1. CASE closer'.list = "new"
      BY <1>2, <2>1, <3>1 DEF Planning, Choice, CloserInv, AvailableInv
    <3>2. CASE closer'.list # "new"
      BY <1>2, <2>1, <3>2 DEF Planning, Choice, CloserInv, Free
    <3> QED BY <3>1, <3>2
  <2>3. PICK e : Longer(ready, ready', e) /\ e.state = "AVAILABLE"
    <3>1. Longer(ready, ready', [Choice' EXCEPT !.target = p])
      BY <1>2 DEF Planning
    <3>2. p \in Pokemons
      BY DEF Pokemons
    <3>3. ASSUME NEW u \in TrainerRecords, u.state = "AVAILABLE"
          PROVE  [u EXCEPT !.target = p].state = "AVAILABLE"
      BY <3>2, <3>3, TargetRecord
    <3>4. [Choice' EXCEPT !.target = p].state = "AVAILABLE"
      BY <2>2, <3>3
    <3> QED BY <3>1, <3>4
  <2>4. \A i \in DOMAIN ready' : i \in DOMAIN ready \/ i = Len(ready) + 1
    BY <1>0, <2>3 DEF Longer, LengthOf
  <2>5. \A i \in DOMAIN ready' : ready'[i].state = "AVAILABLE"
    BY <2>3, <2>4 DEF AvailableInv, Longer
  <2> QED BY <2>1, <2>5 DEF AvailableInv
<1>3. CASE Drop
  <2>1. /\ UNCHANGED <<ready, exec, runner>>
        /\ \/ UNCHANGED new
           \/ closer.pos \in DOMAIN new /\ new' = RemoveAt(new, closer.pos)
    BY <1>3, DropStep DEF Dropped
  <2>2. \A i \in DOMAIN new' : new'[i].state = "AVAILABLE"
    <3>1. CASE UNCHANGED new
      BY <3>1 DEF AvailableInv
    <3>2. CASE closer.pos \in DOMAIN new /\ new' = RemoveAt(new, closer.pos)
      <4> DEFINE k == closer.pos
                 n == Len(new)
      <4>1. k \in DOMAIN new /\ new' = RemoveAt(new, k) /\ n \in Nat /\ DOMAIN new = 1 .. n
        BY <1>0, <3>2
      <4> HIDE DEF k
      <4>2. /\ DOMAIN new' = 1 .. n - 1
            /\ \A i \in DOMAIN new' : new'[i] = IF i < k THEN new[i] ELSE new[i + 1]
        <5>1. RemoveAt(new, k) \in Seq(TrainerRecords) /\ Len(RemoveAt(new, k)) = Len(new) - 1
              /\ \A i \in DOMAIN RemoveAt(new, k) :
                   RemoveAt(new, k)[i] = IF i < k THEN new[i] ELSE new[i + 1]
          BY <1>0, <4>1, RemovedPlaces
        <5>2. new' \in Seq(TrainerRecords) /\ Len(new') = n - 1
              /\ \A i \in DOMAIN new' : new'[i] = IF i < k THEN new[i] ELSE new[i + 1]
          BY <4>1, <5>1
        <5> HIDE DEF n
        <5> QED BY <5>2
      <4> HIDE DEF n
      <4>3. \A i \in DOMAIN new' : i \in DOMAIN new /\ i + 1 \in DOMAIN new
        BY <4>1, <4>2
      <4> QED BY <4>2, <4>3 DEF AvailableInv
    <3> QED BY <2>1, <3>1, <3>2
  <2> QED BY <2>1, <2>2 DEF AvailableInv
<1> QED BY <1>1, <1>2, <1>3, PlanStep DEF Closer, Quiet

LEMMA RunKeepsAvailable ==
  ASSUME Base, AvailableInv, Runner
  PROVE  AvailableInv'
<1> USE DEF Base
<1>0. ready \in Seq(TrainerRecords)
  BY AllTypes DEF Base, Sound
<1> USE DEF AvailableInv, Runs, Apart
<1>1. CASE WaitReady
  BY <1>1, WaitReadyStep
<1>2. CASE WaitExec
  BY <1>2, WaitExecStep
<1>3. CASE AddToExec
  BY <1>3, AddToExecStep DEF SameTrainer
<1>4. CASE RemoveFromReady
  <2> DEFINE k == runner.pos
             n == Len(ready)
  <2>1. k \in DOMAIN ready /\ ready' = RemoveAt(ready, k) /\ n \in Nat /\ DOMAIN ready = 1 .. n
        /\ UNCHANGED <<new, exec>> /\ runner.pc = "remove"
    BY <1>0, <1>4, RemoveFromReadyStep
  <2> HIDE DEF k
  <2>2. ready' \in Seq(TrainerRecords) /\ Len(ready') = n - 1
        /\ \A i \in DOMAIN ready' : ready'[i] = IF i < k THEN ready[i] ELSE ready[i + 1]
    BY <1>0, <2>1, RemovedPlaces
  <2> HIDE DEF n
  <2>3. \A i \in DOMAIN ready' : i \in DOMAIN ready /\ i + 1 \in DOMAIN ready
    BY <2>1, <2>2
  <2> QED BY <2>1, <2>2, <2>3
<1>5. CASE Move
  BY <1>5, MoveStep DEF SameTrainer
<1>6. CASE Catch
  BY <1>6, CatchStep
<1>7. CASE Place
  BY <1>7, PlaceStep
<1>8. CASE Release
  BY <1>8, RemoveFromExecStep DEF Release, RunnerPcs
<1>9. CASE PostPlaced
  BY <1>9, PostPlacedStep
<1>10. CASE Preempt
  BY <1>10, RemoveFromExecStep DEF Preempt, RunnerPcs
<1>11. ASSUME UNCHANGED <<new, exec>>, Longer(ready, ready', exec.trainer),
              runner.pc \in {"requeue", "run"}
       PROVE  AvailableInv'
  <2>1. \A i \in DOMAIN ready' : i \in DOMAIN ready \/ i = Len(ready) + 1
    BY <1>0, <1>11 DEF Longer, LengthOf
  <2> QED BY <1>11, <2>1 DEF Longer
<1>12. CASE Requeue
  BY <1>11, <1>12, RequeueStep
<1>13. CASE GiveWay
  BY <1>11, <1>13, GiveWayStep
<1>14. CASE GaveWay
  BY <1>14, RemoveFromExecStep DEF GaveWay, RunnerPcs
<1> QED BY <1>1, <1>2, <1>3, <1>4, <1>5, <1>6, <1>7, <1>8, <1>9, <1>10, <1>12, <1>13, <1>14
        DEF Runner, Schedule

LEMMA NextKeepsAvailable ==
  ASSUME Base, AvailableInv, [Next]_vars
  PROVE  AvailableInv'
<1> USE DEF Base
<1>1. CASE Outside
  <2>1. UNCHANGED <<new, ready, exec, runner>>
    <3>1. ASSUME NEW p \in Arrivals, Appearing(p) PROVE UNCHANGED <<new, ready, exec, runner>>
      BY <3>1, AppearingStep DEF lists
    <3>2. ASSUME NEW s \in Semaphores, TakeAll(s) PROVE UNCHANGED <<new, ready, exec, runner>>
      BY <3>2, TakeAllStep DEF Others, lists
    <3> QED BY <1>1, <3>1, <3>2 DEF Outside, StartSearch, Finish, Semaphores
  <2> QED BY <2>1 DEF AvailableInv
<1>2. CASE UNCHANGED vars
  BY <1>2 DEF AvailableInv, vars, lists
<1> QED BY <1>1, <1>2, CloserKeepsAvailable, RunKeepsAvailable DEF Next, Outside

LEMMA BeforeSearchTypes ==
  ASSUME Base
  PROVE  /\ new \in Seq(TraderRecords) /\ ready \in Seq(TraderRecords)
         /\ blocked \in Seq(TraderRecords) /\ exit \in Seq(TraderRecords)
         /\ exec \in [on : BOOLEAN, trainer : TraderRecords]
         /\ sem \in [Semaphores -> Nat] /\ closer \in Closers
         /\ {"pc", "pos"} \subseteq DOMAIN runner
<1>1. \A list \in Seq(TrainerRecords) : list \in Seq(TraderRecords)
  BY TrainerIsTrader
<1>2. /\ new \in Seq(TrainerRecords) /\ ready \in Seq(TrainerRecords)
      /\ blocked \in Seq(TrainerRecords) /\ exit \in Seq(TrainerRecords)
      /\ exec \in Execs /\ sem \in [Semaphores -> Nat] /\ closer \in Closers /\ runner \in Runners
  BY AllTypes DEF Base, Sound
<1>3. exec \in [on : BOOLEAN, trainer : TraderRecords]
  BY <1>2, TrainerIsTrader DEF Execs
<1>4. {"pc", "pos"} \subseteq DOMAIN runner
  BY <1>2 DEF Runners
<1> QED BY <1>1, <1>2, <1>3, <1>4

(* When the search begins at most one copy is still free: the one that is  *)
(* to be dropped.                                                          *)
LEMMA FreeWhenSearching ==
  ASSUME Base, Searching
  PROVE  /\ LengthOf(new) + Count(blocked, "AVAILABLE") <= One(closer.pc = "drop")
         /\ LengthOf(new) + Count(blocked, "AVAILABLE") \in Nat
<1> DEFINE n == Len(new)
           I == Free(blocked)
           k == closer.pos
<1>1. /\ new \in Seq(TrainerRecords) /\ blocked \in Seq(TrainerRecords)
      /\ closer.list \in {"new", "blocked"} /\ n \in Nat /\ DOMAIN new = 1 .. n
  BY AllTypes DEF Base, Sound, Closers
<1>2. Count(blocked, "AVAILABLE") = Cardinality(I) /\ IsFiniteSet(I) /\ Cardinality(I) \in Nat
  BY <1>1, FreeHits, IndicesFinite DEF Free
<1>3. n <= 1 /\ (n = 1 => closer.pc = "drop" /\ closer.list = "new")
  <2>1. \A i \in 1 .. n : Dropping("new", i)
    BY <1>1 DEF Searching
  <2> HIDE DEF n
  <2>2. CASE n >= 1
    <3>1. 1 \in 1 .. n /\ n \in 1 .. n
      BY <1>1, <2>2
    <3>2. Dropping("new", 1) /\ Dropping("new", n)
      BY <2>1, <3>1
    <3> QED BY <3>2 DEF Dropping
  <2> QED BY <1>1, <2>2
<1>4. Cardinality(I) <= 1 /\ (Cardinality(I) # 0 => closer.pc = "drop" /\ closer.list = "blocked")
  <2>1. \A i \in I : Dropping("blocked", i)
    BY DEF Searching, Free
  <2>2. CASE I = {}
    BY <2>2, FS_EmptySet
  <2>3. CASE I # {}
    <3>1. closer.pc = "drop" /\ closer.list = "blocked" /\ I = {k}
      BY <2>1, <2>3 DEF Dropping
    <3>2. Cardinality({k}) = 1
      BY FS_Singleton
    <3> QED BY <3>1, <3>2
  <2> QED BY <2>2, <2>3
<1>5. LengthOf(new) = n
  BY DEF LengthOf
<1> DEFINE c == Cardinality(I)
<1>6. c \in Nat /\ Count(blocked, "AVAILABLE") = c /\ c <= 1
      /\ (c # 0 => closer.pc = "drop" /\ closer.list = "blocked")
  BY <1>2, <1>4
<1> HIDE DEF n, I, c
<1> QED BY <1>1, <1>3, <1>5, <1>6 DEF One

LEMMA SearchBegins ==
  ASSUME EndCore, flagDeadLock, AvailableInv, resolver \in Resolvers, resolver.pc = "search",
         partner \in [Trainers -> Trainers], finishDeadlock = 0
  PROVE  InSearch
<1>1. Base /\ SemInv /\ (\A t \in Trainers : OneList(t)) /\ LeaveInv /\ EndInv
  BY DEF EndCore, Core
<1>2. Searching
  BY <1>1, SearchFindsAllFull
<1>3. TradersTypes
  BY <1>1, BeforeSearchTypes DEF TradersTypes
<1>4. LengthOf(new) + Count(blocked, "AVAILABLE") <= One(closer.pc = "drop")
      /\ LengthOf(new) + Count(blocked, "AVAILABLE") \in Nat
      /\ sem["availableTrainersCount"] \in Nat
  BY <1>1, <1>2, FreeWhenSearching, <1>3 DEF TradersTypes, Semaphores
<1> DEFINE all == LengthOf(new) + Count(blocked, "AVAILABLE")
           tokens == sem["availableTrainersCount"]
           post == /\ runner.pc \in {"release", "post"}
                   /\ runner.post = "availableTrainersCount"
<1>5. all = tokens + One(closer.pc \in Holding) + One(post)
      /\ all <= One(closer.pc = "drop") /\ all \in Nat /\ tokens \in Nat
  BY <1>1, <1>4 DEF SemInv
<1>6. tokens = 0 /\ ~post /\ (closer.pc \in Holding => closer.pc = "drop")
  <2> HIDE DEF all, tokens, post
  <2>1. closer.pc = "drop" => One(closer.pc \in Holding) = 1
    BY DEF One, Holding
  <2>2. CASE closer.pc = "drop"
    BY <1>5, <2>1, <2>2 DEF One
  <2>3. CASE closer.pc # "drop"
    BY <1>5, <2>3 DEF One
  <2> QED BY <2>2, <2>3
<1> HIDE DEF all
<1>7. closer.pc \in {"trainer", "unlock", "drop"}
  <2>1. closer.pc \in CloserPcs
    BY <1>3 DEF TradersTypes, Closers
  <2> QED BY <1>6, <2>1 DEF CloserPcs, Holding
<1>8. ClosedInv
  <2>1. closer.pc = "drop" =>
          closer.pos \in IF closer.list = "new" THEN DOMAIN new ELSE DOMAIN blocked
    BY <1>1 DEF Base, CloserInv, Free
  <2> QED BY <1>2, <1>6, <1>7, <2>1 DEF ClosedInv, Searching
<1>9. runner.pc \in Idling
  <2>1. runner.pc \in RunnerPcs /\ runner.post \in {"availableTrainersCount", "deadlockCount"}
        /\ ~exec.on /\ (exec.on <=> runner.pc \in Executing)
    BY <1>1, <1>2, AllTypes DEF Base, Sound, RunnerInv, Runners, Searching
  <2>2. runner.pc # "post"
    <3>1. PostsFull = 0
      BY <1>1, AllAreFull
    <3> QED BY <1>6, <2>1, <3>1 DEF PostsFull, One
  <2>3. runner.pc # "requeue"
    <3> SUFFICES ASSUME runner.pc = "requeue" PROVE FALSE
      OBVIOUS
    <3> DEFINE u == exec.trainer.id
    <3>1. u \in Trainers
      BY <1>3, TraderParts DEF TradersTypes
    <3>2. Beside(u) /\ Listed(new, u) + FreeOf(u) >= DropOne(u)
      BY <1>1, <3>1, AllAreFull, OnlyDropped, DroppedSits
    <3>3. BetweenOne(u) = 1 /\ TwiceOne(u) = 0
      BY DEF BetweenOne, TwiceOne, One
    <3>4. ListedNumbers(u) /\ Places(u) /\ Ones(u)
      BY <1>1, AreListed, ArePlaces, AreOnes DEF Base, Sound, AllListed, AllPlaces
    <3> QED BY <3>2, <3>3, <3>4 DEF Beside, ListedNumbers, Places, Ones
  <2> QED BY <2>1, <2>2, <2>3 DEF Idling, Executing, RunnerPcs
<1>10. ResolverInv
  BY <1>2, <1>9 DEF ResolverInv, Choosing, Resting, Searching
<1>11. ASSUME NEW t \in Trainers PROVE TradersOneList(t)
  <2>1. OneList(t) /\ UnblockOne(t) = 0 /\ FreeOne(t) = 0
    BY <1>1 DEF UnblockOne, FreeOne, One
  <2>2. Ones(t) /\ TwiceOne(t) \in Nat /\ BetweenOne(t) \in Nat
    BY AreOnes DEF TwiceOne, BetweenOne, One
  <2> QED BY <2>1, <2>2 DEF OneList, OneListOf, TradersOneList, Ones
<1> QED BY <1>3, <1>8, <1>10, <1>11 DEF InSearch

-----------------------------------------------------------------------------
(* During the search: the threads of Planner. *)

Tokens(t) ==
  /\ Listed(new, t) \in Nat /\ Listed(ready, t) \in Nat
  /\ Listed(blocked, t) \in Nat /\ Listed(exit, t) \in Nat

LEMMA AreTokens == ASSUME TradersTypes, NEW t PROVE Tokens(t)
BY ListedAre DEF TradersTypes, Tokens

(* Steps that leave every trainer where it is. *)
StaysThere ==
  /\ UNCHANGED <<new, ready, blocked, exit, exec, closer, flagDeadLock, exchangeVars>>
  /\ sem' \in [Semaphores -> Nat]
  /\ sem'["availableTrainersCount"] = sem["availableTrainersCount"]
  /\ \/ UNCHANGED runner
     \/ /\ runner.pc \in Idling /\ runner'.pc \in Idling
        /\ {"pc", "pos"} \subseteq DOMAIN runner'

LEMMA StayingKeeps ==
  ASSUME InSearch, StaysThere
  PROVE  InSearch'
<1>1. /\ new' = new /\ ready' = ready /\ blocked' = blocked /\ exit' = exit /\ exec' = exec
      /\ closer' = closer /\ flagDeadLock' = flagDeadLock /\ resolver' = resolver
      /\ partner' = partner /\ finishDeadlock' = finishDeadlock
      /\ sem' \in [Semaphores -> Nat]
      /\ sem'["availableTrainersCount"] = sem["availableTrainersCount"]
  BY DEF StaysThere, exchangeVars
<1>2. /\ runner.pc \in Idling <=> runner'.pc \in Idling
      /\ runner.pc \notin Idling => runner' = runner
      /\ {"pc", "pos"} \subseteq DOMAIN runner'
  BY DEF StaysThere, InSearch, TradersTypes
<1>3. TradersTypes' /\ ClosedInv'
  BY <1>1, <1>2 DEF InSearch, TradersTypes, ClosedInv, Dropping
<1>4. ResolverInv'
  <2>1. Resting => Resting'
    BY <1>1, <1>2 DEF Resting
  <2>2. Choosing => Choosing'
    BY <1>1, <2>1 DEF Choosing
  <2>3. Placing => Placing'
    BY <1>1, <1>2 DEF Placing
  <2>4. ASSUME NEW t, Trip(t) PROVE Trip(t)'
    <3>1. OnTrip(t) => OnTrip(t)'
      BY <1>1, <1>2 DEF OnTrip, Queued, Copied, Goes, Turns, Idling
    <3>2. HasTraded(t) => HasTraded(t)'
      BY <1>1, <1>2 DEF HasTraded
    <3> QED BY <1>1, <2>4, <3>1, <3>2 DEF Trip
  <2> QED BY <1>1, <2>2, <2>3, <2>4 DEF InSearch, ResolverInv
<1>5. ASSUME NEW t \in Trainers PROVE TradersOneList(t)'
  <2>1. /\ ExecOne(t)' = ExecOne(t) /\ InLists(t)' = InLists(t) /\ DropOne(t)' = DropOne(t)
        /\ UnblockOne(t)' = UnblockOne(t) /\ FreeOne(t)' = FreeOne(t)
    BY <1>1 DEF ExecOne, InLists, DropOne, BeingDropped, UnblockOne, FreeOne
  <2>2. TwiceOne(t)' = TwiceOne(t) /\ BetweenOne(t)' = BetweenOne(t)
    BY <1>1, <1>2 DEF TwiceOne, BetweenOne, Idling
  <2> QED BY <2>1, <2>2 DEF InSearch, TradersOneList
<1> QED BY <1>1, <1>3, <1>4, <1>5 DEF InSearch

LEMMA CloserInSearch ==
  ASSUME InSearch, Closer, UNCHANGED exchangeVars
  PROVE  InSearch'
<1>0. TradersTypes /\ ClosedInv /\ ResolverInv
  BY DEF InSearch
<1>1. closer.pc \in {"unlock", "drop"} /\ (Drop \/ UnlockAvailable)
  <2>1. ~WaitTrainer
    BY <1>0 DEF WaitTrainer, Wait, ClosedInv
  <2> QED BY <1>0, <2>1 DEF Closer, ClosedInv, WaitPokemon, LockAvailable, Look, LookedAtAll,
             Choose, Drop, GiveBack, UnlockAvailable
<1>2. CASE UnlockAvailable
  <2>1. /\ closer.pc = "unlock" /\ closer' = IdleCloser /\ Post("availablePokemons")
        /\ UNCHANGED <<new, ready, blocked, exit, exec, runner, flagDeadLock>>
    BY <1>2 DEF UnlockAvailable, lists, ends
  <2>2. UNCHANGED <<resolver, partner, finishDeadlock>>
    BY DEF exchangeVars
  <2>3. /\ sem' \in [Semaphores -> Nat]
        /\ sem'["availableTrainersCount"] = sem["availableTrainersCount"]
    BY <1>0, <2>1, Posts DEF TradersTypes, Semaphores
  <2>4. closer' \in Closers /\ closer'.pc = "trainer"
    BY <2>1 DEF IdleCloser, Closers, CloserPcs
  <2>5. TradersTypes'
    BY <1>0, <2>1, <2>2, <2>3, <2>4 DEF TradersTypes
  <2>6. ClosedInv'
    BY <1>0, <2>1, <2>3, <2>4 DEF ClosedInv, Dropping
  <2>7. ResolverInv'
    BY <1>0, <2>1, <2>2 DEF ResolverInv, Choosing, Placing, Resting, Trip, OnTrip, HasTraded,
       Queued, Copied, Goes, Turns
  <2>8. ASSUME NEW t \in Trainers PROVE TradersOneList(t)'
    <3>1. /\ ExecOne(t)' = ExecOne(t) /\ InLists(t)' = InLists(t)
          /\ UnblockOne(t)' = UnblockOne(t) /\ FreeOne(t)' = FreeOne(t)
          /\ TwiceOne(t)' = TwiceOne(t) /\ BetweenOne(t)' = BetweenOne(t)
      BY <2>1, <2>2 DEF ExecOne, InLists, UnblockOne, FreeOne, TwiceOne, BetweenOne
    <3>2. DropOne(t)' = DropOne(t)
      BY <2>1, <2>4 DEF DropOne, One
    <3> QED BY <3>1, <3>2 DEF InSearch, TradersOneList
  <2> QED BY <2>1, <2>5, <2>6, <2>7, <2>8 DEF InSearch
<1>3. CASE Drop
  <2> DEFINE k == closer.pos
             NewGoes == /\ closer.list = "new" /\ k \in DOMAIN new
                        /\ new' = RemoveAt(new, k) /\ blocked' = blocked
             BlockedGoes == /\ closer.list = "blocked" /\ k \in DOMAIN blocked
                            /\ new' = new /\ blocked' = RemoveAt(blocked, k)
  <2>1. /\ closer.pc = "drop" /\ closer' = [closer EXCEPT !.pc = "unlock"]
        /\ UNCHANGED <<ready, exit, exec, sem, runner, flagDeadLock>>
        /\ new' = IF closer.list = "new" THEN Removed(new, k) ELSE new
        /\ blocked' = IF closer.list = "blocked" THEN Removed(blocked, k) ELSE blocked
    BY <1>3 DEF Drop, Goto, ends
  <2>2. UNCHANGED <<resolver, partner, finishDeadlock>> /\ resolver.pc = "search"
    BY <1>0, <2>1 DEF exchangeVars, ClosedInv
  <2>3. closer' \in Closers /\ closer'.pc = "unlock" /\ closer.list \in {"new", "blocked"}
    BY <1>0, <2>1 DEF TradersTypes, Closers, CloserPcs
  <2>4. NewGoes \/ BlockedGoes
    <3>1. CASE closer.list = "new"
      <4>1. k \in DOMAIN new
        BY <1>0, <2>1, <3>1 DEF ClosedInv
      <4>2. Removed(new, k) = RemoveAt(new, k)
        BY <1>0, <4>1, DroppedIsRemoved DEF TradersTypes
      <4> QED BY <2>1, <3>1, <4>1, <4>2
    <3>2. CASE closer.list = "blocked"
      <4>1. k \in DOMAIN blocked
        BY <1>0, <2>1, <3>2 DEF ClosedInv
      <4>2. Removed(blocked, k) = RemoveAt(blocked, k)
        BY <1>0, <4>1, DroppedIsRemoved DEF TradersTypes
      <4> QED BY <2>1, <3>2, <4>1, <4>2
    <3> QED BY <2>3, <3>1, <3>2
  <2>5. new' \in Seq(TraderRecords) /\ blocked' \in Seq(TraderRecords)
    BY <1>0, <2>4, RemovedPlaces DEF TradersTypes
  <2>6. TradersTypes'
    BY <1>0, <2>1, <2>2, <2>3, <2>5 DEF TradersTypes
  <2>7. ClosedInv'
    <3>1. CASE NewGoes
      <4> DEFINE n == Len(new)
      <4>1. n \in Nat /\ DOMAIN new = 1 .. n /\ \A i \in DOMAIN new : i = k
        BY <1>0, <3>1 DEF TradersTypes, ClosedInv, Dropping
      <4>2. new' \in Seq(TraderRecords) /\ Len(new') = n - 1
        BY <1>0, <3>1, RemovedPlaces DEF TradersTypes
      <4> HIDE DEF n
      <4>3. n = 1
        BY <3>1, <4>1
      <4>4. DOMAIN new' = {}
        BY <4>2, <4>3
      <4>5. \A i \in DOMAIN blocked' : blocked'[i].state = "DEADLOCK"
        BY <1>0, <3>1 DEF ClosedInv, Dropping
      <4> QED BY <1>0, <2>1, <2>3, <4>4, <4>5 DEF ClosedInv
    <3>2. CASE BlockedGoes
      <4> DEFINE n == Len(blocked)
      <4>1. n \in Nat /\ DOMAIN blocked = 1 .. n /\ k \in 1 .. n
        BY <1>0, <3>2 DEF TradersTypes
      <4>2. blocked' \in Seq(TraderRecords) /\ Len(blocked') = n - 1
            /\ \A i \in DOMAIN blocked' : blocked'[i] = IF i < k THEN blocked[i] ELSE blocked[i + 1]
        BY <1>0, <3>2, RemovedPlaces DEF TradersTypes
      <4> HIDE DEF n
      <4>3. \A i \in DOMAIN blocked \ {k} : blocked[i].state = "DEADLOCK"
        BY <1>0 DEF ClosedInv, Dropping
      <4>4. ASSUME NEW i \in DOMAIN blocked' PROVE blocked'[i].state = "DEADLOCK"
        <5>1. i \in 1 .. n - 1
          BY <4>2
        <5>2. CASE i < k
          BY <4>1, <4>2, <4>3, <5>1, <5>2
        <5>3. CASE ~(i < k)
          <6>1. i + 1 \in DOMAIN blocked \ {k}
            BY <4>1, <5>1, <5>3
          <6> QED BY <4>2, <4>3, <5>3, <6>1
        <5> QED BY <5>2, <5>3
      <4>5. DOMAIN new' = {}
        BY <1>0, <3>2 DEF ClosedInv, Dropping
      <4> QED BY <1>0, <2>1, <2>3, <4>4, <4>5 DEF ClosedInv
    <3> QED BY <2>4, <3>1, <3>2
  <2>8. ResolverInv'
    BY <1>0, <2>1, <2>2 DEF ResolverInv, Choosing, Resting
  <2>9. ASSUME NEW t \in Trainers PROVE TradersOneList(t)'
    <3>1. /\ ExecOne(t)' = ExecOne(t) /\ UnblockOne(t)' = UnblockOne(t) /\ FreeOne(t)' = FreeOne(t)
          /\ TwiceOne(t)' = TwiceOne(t) /\ BetweenOne(t)' = BetweenOne(t)
      <4>1. UnblockOne(t) = 0 /\ UnblockOne(t)' = 0
        BY <2>2 DEF UnblockOne, One
      <4> QED BY <2>1, <2>2, <4>1 DEF ExecOne, FreeOne, TwiceOne, BetweenOne
    <3>2. DropOne(t)' = 0
      BY <2>3 DEF DropOne, One
    <3>3. InLists(t)' = InLists(t) - DropOne(t)
      <4>1. Tokens(t)
        BY <1>0, AreTokens
      <4>2. CASE NewGoes
        <5>1. Listed(new', t) = Listed(new, t) - One(new[k].id = t)
          BY <1>0, <4>2, ListedRemoved DEF TradersTypes
        <5>2. DropOne(t) = One(new[k].id = t)
          BY <2>1, <4>2 DEF DropOne, BeingDropped
        <5> QED BY <2>1, <4>1, <4>2, <5>1, <5>2 DEF InLists, Tokens, One
      <4>3. CASE BlockedGoes
        <5>1. Listed(blocked', t) = Listed(blocked, t) - One(blocked[k].id = t)
          BY <1>0, <4>3, ListedRemoved DEF TradersTypes
        <5>2. DropOne(t) = One(blocked[k].id = t)
          BY <2>1, <4>3 DEF DropOne, BeingDropped
        <5> QED BY <2>1, <4>1, <4>3, <5>1, <5>2 DEF InLists, Tokens, One
      <4> QED BY <2>4, <4>2, <4>3
    <3>4. InLists(t) \in Nat
      BY <1>0, AreTokens DEF Tokens, InLists
    <3>5. TradersOneList(t)
      BY DEF InSearch
    <3> QED BY <3>1, <3>2, <3>3, <3>4, <3>5
            DEF TradersOneList, ExecOne, DropOne, TwiceOne, BetweenOne, UnblockOne, FreeOne, One
  <2> QED BY <2>1, <2>6, <2>7, <2>8, <2>9 DEF InSearch
<1> QED BY <1>1, <1>2, <1>3

(* Where the one that goes to trade is, as the scheduler finds it. *)
Travels(t) ==
  /\ t \in TraderRecords /\ Trip(t) /\ finishDeadlock = 0
  /\ Meets(t, blocked, partner[t.id]) /\ resolver.pc \in {"unblock", "wait"}

LEMMA WhoGoes ==
  ASSUME InSearch
  PROVE  /\ runner.pc \notin Idling =>
              \E t : Travels(t) /\ (Copied(t) \/ Goes(t) \/ Turns(t))
         /\ ready # <<>> => \E t : Travels(t) /\ (Queued(t) \/ Copied(t))
         /\ runner.pc \in Idling \cup {"remove", "run", "preempt", "requeue"}
<1>0. ResolverInv /\ resolver \in Resolvers
  BY DEF InSearch, TradersTypes
<1>1. CASE resolver.pc \in {"search", "ready", "partner", "ended"}
  BY <1>0, <1>1 DEF ResolverInv, Choosing, Resting
<1>2. CASE resolver.pc \in {"place", "free"}
  BY <1>0, <1>2 DEF ResolverInv, Placing
<1>3. CASE resolver.pc \in {"unblock", "wait"}
  <2>1. PICK t \in TraderRecords : Trip(t)
    BY <1>0, <1>3 DEF ResolverInv
  <2>2. CASE HasTraded(t)
    BY <2>2 DEF HasTraded
  <2>3. CASE OnTrip(t) /\ finishDeadlock = 0 /\ Meets(t, blocked, partner[t.id])
    <3>1. Travels(t)
      BY <1>3, <2>1, <2>3 DEF Travels
    <3>2. /\ runner.pc \notin Idling => Copied(t) \/ Goes(t) \/ Turns(t)
          /\ ready # <<>> => Queued(t) \/ Copied(t)
          /\ runner.pc \in Idling \cup {"remove", "run", "preempt", "requeue"}
      BY <2>3 DEF OnTrip, Queued, Copied, Goes, Turns
    <3> QED BY <3>1, <3>2
  <2> QED BY <2>1, <2>2, <2>3 DEF Trip
<1> QED BY <1>0, <1>1, <1>2, <1>3 DEF Resolvers

(* A step of the trip: the lists but the ready one stay. *)
ListsRest ==
  /\ new' = new /\ blocked' = blocked /\ exit' = exit /\ closer' = closer
  /\ flagDeadLock' = flagDeadLock
  /\ resolver' = resolver /\ partner' = partner /\ finishDeadlock' = finishDeadlock

LEMMA TripGoesOn ==
  ASSUME InSearch, ListsRest, NEW t, Travels(t), NEW u \in TraderRecords, SameTrainer(u, t),
         OnTrip(u)', ready' \in Seq(TraderRecords),
         exec' \in [on : BOOLEAN, trainer : TraderRecords],
         sem' \in [Semaphores -> Nat],
         sem'["availableTrainersCount"] = sem["availableTrainersCount"],
         {"pc", "pos"} \subseteq DOMAIN runner',
         \A x \in Trainers : ExecOne(x)' + Listed(ready', x) - TwiceOne(x)' + BetweenOne(x)'
                               = ExecOne(x) + Listed(ready, x) - TwiceOne(x) + BetweenOne(x)
  PROVE  InSearch'
<1>1. TradersTypes'
  BY DEF InSearch, TradersTypes, ListsRest
<1>2. ClosedInv'
  BY DEF InSearch, ClosedInv, ListsRest, Dropping
<1>3. Trip(u)'
  <2>1. u.id = t.id /\ u.state = t.state
    BY DEF SameTrainer
  <2>2. Meets(u, blocked, partner[u.id])
    BY <2>1, MeetsAlike DEF Travels
  <2> QED BY <2>1, <2>2 DEF ListsRest, Travels, Trip
<1>4. ResolverInv'
  BY <1>3 DEF ListsRest, Travels, ResolverInv
<1>5. ASSUME NEW x \in Trainers PROVE TradersOneList(x)'
  <2>1. /\ DropOne(x)' = DropOne(x) /\ UnblockOne(x)' = UnblockOne(x)
        /\ FreeOne(x) = 0 /\ FreeOne(x)' = 0
    BY DEF ListsRest, Travels, DropOne, BeingDropped, UnblockOne, FreeOne, One
  <2>2. Tokens(x) /\ Tokens(x)'
    <3>1. Tokens(x)'
      BY <1>1, ListedAre DEF TradersTypes, Tokens
    <3> QED BY <3>1, AreTokens DEF InSearch
  <2>3. InLists(x)' - Listed(ready', x) = InLists(x) - Listed(ready, x)
    BY <2>2 DEF ListsRest, InLists, Tokens
  <2> DEFINE e == ExecOne(x)
             e2 == ExecOne(x)'
             r == Listed(ready, x)
             r2 == Listed(ready', x)
             l == InLists(x)
             l2 == InLists(x)'
             w == TwiceOne(x)
             w2 == TwiceOne(x)'
             b == BetweenOne(x)
             b2 == BetweenOne(x)'
             d == DropOne(x)
             n == UnblockOne(x)
  <2>4. /\ e \in Int /\ e2 \in Int /\ r \in Int /\ r2 \in Int /\ l \in Int /\ l2 \in Int
        /\ w \in Int /\ w2 \in Int /\ b \in Int /\ b2 \in Int /\ d \in Int /\ n \in Int
    BY <2>2 DEF Tokens, InLists, ExecOne, TwiceOne, BetweenOne, DropOne, UnblockOne, One
  <2>5. /\ e2 + r2 - w2 + b2 = e + r - w + b /\ l2 - r2 = l - r
        /\ e + l = 1 + d + w - b + n + 0
    BY <2>1, <2>3 DEF InSearch, TradersOneList
  <2>6. TradersOneList(x)' <=> e2 + l2 = 1 + d + w2 - b2 + n + 0
    BY <2>1 DEF TradersOneList
  <2> HIDE DEF e, e2, r, r2, l, l2, w, w2, b, b2, d, n
  <2> QED BY <2>4, <2>5, <2>6
<1> QED BY <1>1, <1>2, <1>4, <1>5 DEF InSearch, ListsRest

LEMMA OnlyOneIsChosen ==
  ASSUME NEW t, ready = <<t>>
  PROVE  Chosen = 1 /\ ready[Chosen] = t
<1>1. DOMAIN ready = {1} /\ ready[1] = t
  OBVIOUS
<1>2. Best = 1
  BY <1>1 DEF Best
<1> QED BY <1>1, <1>2 DEF Chosen

LEMMA RunnerInSearch ==
  ASSUME InSearch, Runner, UNCHANGED exchangeVars
  PROVE  InSearch'
<1>0. TradersTypes /\ ClosedInv /\ ResolverInv
      /\ UNCHANGED <<resolver, partner, finishDeadlock, disturbed>>
  BY DEF InSearch, exchangeVars
<1>1. runner.pc \in Idling \cup {"remove", "run", "preempt", "requeue"}
  BY WhoGoes
<1>2. \/ WaitReady \/ WaitExec \/ AddToExec \/ RemoveFromReady \/ Preempt \/ Requeue
  <2>1. ASSUME runner.pc = "run" PROVE exec.trainer.state = "DEADLOCK" /\ ready = <<>>
    <3>1. PICK t : Travels(t) /\ (Copied(t) \/ Goes(t) \/ Turns(t))
      BY <2>1, WhoGoes DEF Idling
    <3> QED BY <2>1, <3>1 DEF Travels, Trip, Copied, Goes, Turns
  <2>2. ~Move /\ ~Catch /\ ~GiveWay
    BY <2>1 DEF Move, Catch, GiveWay, GoesOn, Hunting, Running
  <2>3. ~Place /\ ~Release /\ ~PostPlaced /\ ~GaveWay
    BY <1>1 DEF Place, Release, PostPlaced, GaveWay, RemoveFromExec, Idling
  <2> QED BY <2>2, <2>3 DEF Runner, Schedule
<1>3. ASSUME NEW s \in {"readyTrainer", "execTrainer"}, NEW pc \in Idling, Wait(s), RunTo(pc),
             runner.pc \in Idling,
             UNCHANGED <<algorithm, lists, exec, available, missing, appeared, closer, ends>>
      PROVE  InSearch'
  <2>1. sem' \in [Semaphores -> Nat] /\ sem'["availableTrainersCount"] = sem["availableTrainersCount"]
    BY <1>0, <1>3, Waits DEF TradersTypes, Semaphores
  <2>2. runner'.pc = pc /\ {"pc", "pos"} \subseteq DOMAIN runner'
    BY <1>0, <1>3 DEF RunTo, TradersTypes
  <2>3. StaysThere
    BY <1>0, <1>3, <2>1, <2>2 DEF StaysThere, lists, ends, exchangeVars
  <2> QED BY <2>3, StayingKeeps
<1>4. CASE WaitReady
  BY <1>3, <1>4 DEF WaitReady, Idling
<1>5. CASE WaitExec
  BY <1>3, <1>5 DEF WaitExec, Idling
<1>6. CASE AddToExec
  <2>1. /\ runner.pc = "schedule"
        /\ UNCHANGED <<new, ready, blocked, exit, sem, closer, flagDeadLock>>
    BY <1>6 DEF AddToExec, lists, ends
  <2>2. CASE ~(ready # <<>> /\ ~exec.on)
    <3>1. RunTo("ready") /\ UNCHANGED exec
      BY <1>6, <2>2 DEF AddToExec
    <3>2. runner'.pc = "ready" /\ {"pc", "pos"} \subseteq DOMAIN runner'
      BY <1>0, <3>1 DEF RunTo, TradersTypes
    <3>3. StaysThere
      BY <1>0, <2>1, <3>1, <3>2 DEF StaysThere, exchangeVars, Idling, TradersTypes
    <3> QED BY <3>3, StayingKeeps
  <2>3. CASE ready # <<>> /\ ~exec.on
    <3>1. PICK t : Travels(t) /\ (Queued(t) \/ Copied(t))
      BY <2>3, WhoGoes
    <3>2. Queued(t) /\ t \in TraderRecords
      BY <2>3, <3>1 DEF Copied, Travels
    <3>3. ready = <<t>> /\ Chosen = 1 /\ ready[Chosen] = t
      BY <3>2, OnlyOneIsChosen DEF Queued
    <3>4. PICK u : u = Begun(t)
      OBVIOUS
    <3>5. u \in TraderRecords /\ SameTrainer(u, t)
      BY <3>2, <3>4, BegunTrader
    <3>6. exec' = [on |-> TRUE, trainer |-> u]
      BY <1>6, <2>3, <3>3, <3>4 DEF AddToExec
    <3>7. runner'.pc = "remove" /\ runner'.pos = 1 /\ {"pc", "pos"} \subseteq DOMAIN runner'
      <4> DEFINE l == Estimate(ready[Chosen])
      <4>1. runner' = [runner EXCEPT !.pc = "remove", !.pos = 1, !.clocks = 0, !.left = l]
        BY <1>6, <2>3, <3>3 DEF AddToExec
      <4> HIDE DEF l
      <4> QED BY <1>0, <4>1 DEF TradersTypes
    <3>8. OnTrip(u)'
      <4>1. ready' = <<t>> /\ exec'.on /\ exec'.trainer = u
        BY <2>1, <3>3, <3>6
      <4> QED BY <3>2, <3>5, <3>7, <4>1 DEF OnTrip, Copied
    <3>9. ListsRest
      BY <1>0, <2>1 DEF ListsRest
    <3>10. ASSUME NEW x \in Trainers
           PROVE  ExecOne(x)' + Listed(ready', x) - TwiceOne(x)' + BetweenOne(x)'
                    = ExecOne(x) + Listed(ready, x) - TwiceOne(x) + BetweenOne(x)
      <4>1. ExecOne(x) = 0 /\ TwiceOne(x) = 0 /\ BetweenOne(x) = 0 /\ BetweenOne(x)' = 0
        BY <2>1, <2>3, <3>7 DEF ExecOne, TwiceOne, BetweenOne, One
      <4>2. ExecOne(x)' = One(u.id = x) /\ TwiceOne(x)' = One(u.id = x)
        BY <3>6, <3>7 DEF ExecOne, TwiceOne
      <4>3. Listed(ready, x) \in Nat /\ ready' = ready
        BY <1>0, <2>1, AreTokens DEF Tokens
      <4> QED BY <4>1, <4>2, <4>3 DEF One
    <3>11. /\ ready' \in Seq(TraderRecords) /\ exec' \in [on : BOOLEAN, trainer : TraderRecords]
           /\ sem' \in [Semaphores -> Nat]
           /\ sem'["availableTrainersCount"] = sem["availableTrainersCount"]
      BY <1>0, <2>1, <3>5, <3>6 DEF TradersTypes
    <3> QED BY <3>1, <3>5, <3>7, <3>8, <3>9, <3>10, <3>11, TripGoesOn
  <2> QED BY <2>2, <2>3
<1>7. CASE RemoveFromReady
  <2>1. /\ runner.pc = "remove" /\ ready' = RemoveAt(ready, runner.pos) /\ RunTo("run")
        /\ UNCHANGED <<new, blocked, exit, exec, sem, closer, flagDeadLock>>
    BY <1>7 DEF RemoveFromReady, ends
  <2>2. PICK t : Travels(t) /\ Copied(t)
    BY <2>1, WhoGoes DEF Idling, Goes, Turns
  <2>3. PICK q \in TraderRecords : SameTrainer(t, q) /\ ready = <<q>>
    BY <2>2 DEF Copied
  <2>4. ready' = <<>>
    <3>1. RemoveAt(<<q>>, 1) \in Seq(TraderRecords) /\ Len(RemoveAt(<<q>>, 1)) = Len(<<q>>) - 1
      <4>1. <<q>> \in Seq(TraderRecords) /\ 1 \in DOMAIN <<q>>
        OBVIOUS
      <4> QED BY <4>1, RemovedPlaces
    <3>2. ready' = RemoveAt(<<q>>, 1)
      BY <2>1, <2>2, <2>3 DEF Copied
    <3>3. ready' \in Seq(TraderRecords) /\ Len(ready') = 0
      BY <3>1, <3>2
    <3> QED BY <3>3
  <2>5. runner'.pc = "run" /\ {"pc", "pos"} \subseteq DOMAIN runner'
    BY <1>0, <2>1 DEF RunTo, TradersTypes
  <2>6. OnTrip(t)' /\ t \in TraderRecords /\ SameTrainer(t, t)
    BY <2>1, <2>2, <2>4, <2>5 DEF OnTrip, Copied, Goes, Travels, SameTrainer
  <2>7. ListsRest
    BY <1>0, <2>1 DEF ListsRest
  <2>8. ASSUME NEW x \in Trainers
         PROVE  ExecOne(x)' + Listed(ready', x) - TwiceOne(x)' + BetweenOne(x)'
                  = ExecOne(x) + Listed(ready, x) - TwiceOne(x) + BetweenOne(x)
    <3>1. TwiceOne(x)' = 0 /\ BetweenOne(x) = 0 /\ BetweenOne(x)' = 0 /\ ExecOne(x)' = ExecOne(x)
      BY <2>1, <2>5 DEF ExecOne, TwiceOne, BetweenOne, One
    <3>2. TwiceOne(x) = One(t.id = x) /\ Listed(ready, x) = One(t.id = x) /\ Listed(ready', x) = 0
      BY <2>1, <2>2, <2>3, <2>4, ListedSingle, ListedEmpty DEF TwiceOne, Copied, SameTrainer
    <3> QED BY <3>1, <3>2 DEF One, ExecOne
  <2>9. /\ ready' \in Seq(TraderRecords) /\ exec' \in [on : BOOLEAN, trainer : TraderRecords]
        /\ sem' \in [Semaphores -> Nat]
        /\ sem'["availableTrainersCount"] = sem["availableTrainersCount"]
    BY <1>0, <2>1, <2>4 DEF TradersTypes
  <2> QED BY <2>2, <2>5, <2>6, <2>7, <2>8, <2>9, TripGoesOn
<1>8. CASE Preempt
  <2>1. /\ runner.pc = "preempt" /\ exec' = [exec EXCEPT !.on = FALSE] /\ Post("execTrainer")
        /\ RunTo("requeue")
        /\ UNCHANGED <<new, ready, blocked, exit, closer, flagDeadLock>>
    BY <1>8 DEF Preempt, RemoveFromExec, ends, lists
  <2>2. PICK t : Travels(t) /\ Goes(t)
    BY <2>1, WhoGoes DEF Idling, Copied, Turns
  <2>3. exec' \in [on : BOOLEAN, trainer : TraderRecords] /\ ~exec'.on /\ exec'.trainer = t
    BY <1>0, <2>1, <2>2 DEF TradersTypes, Goes
  <2>4. runner'.pc = "requeue" /\ {"pc", "pos"} \subseteq DOMAIN runner'
    BY <1>0, <2>1 DEF RunTo, TradersTypes
  <2>5. OnTrip(t)' /\ t \in TraderRecords /\ SameTrainer(t, t)
    BY <2>1, <2>2, <2>3, <2>4 DEF OnTrip, Turns, Goes, Travels, SameTrainer
  <2>6. ListsRest
    BY <1>0, <2>1 DEF ListsRest
  <2>7. ASSUME NEW x \in Trainers
        PROVE  ExecOne(x)' + Listed(ready', x) - TwiceOne(x)' + BetweenOne(x)'
                 = ExecOne(x) + Listed(ready, x) - TwiceOne(x) + BetweenOne(x)
    <3>1. TwiceOne(x) = 0 /\ TwiceOne(x)' = 0 /\ BetweenOne(x) = 0 /\ ExecOne(x)' = 0
      BY <2>1, <2>3, <2>4 DEF ExecOne, TwiceOne, BetweenOne, One
    <3>2. ExecOne(x) = One(t.id = x) /\ BetweenOne(x)' = One(t.id = x)
      BY <2>2, <2>3, <2>4 DEF ExecOne, BetweenOne, Goes
    <3>3. Listed(ready, x) \in Nat /\ ready' = ready
      BY <1>0, <2>1, AreTokens DEF Tokens
    <3> QED BY <3>1, <3>2, <3>3 DEF One
  <2>8. /\ ready' \in Seq(TraderRecords) /\ sem' \in [Semaphores -> Nat]
        /\ sem'["availableTrainersCount"] = sem["availableTrainersCount"]
    BY <1>0, <2>1, Posts DEF TradersTypes, Semaphores
  <2> QED BY <2>2, <2>3, <2>4, <2>5, <2>6, <2>7, <2>8, TripGoesOn
<1>9. CASE Requeue
  <2>1. /\ runner.pc = "requeue" /\ ready' = Append(ready, exec.trainer) /\ Post("readyTrainer")
        /\ runner' = IdleRunner
        /\ UNCHANGED <<new, blocked, exit, exec, closer, flagDeadLock>>
    BY <1>9 DEF Requeue, ends
  <2>2. PICK t : Travels(t) /\ Turns(t)
    BY <2>1, WhoGoes DEF Idling, Copied, Goes
  <2>3. ready' = <<t>> /\ ready = <<>> /\ t \in TraderRecords
    BY <2>1, <2>2 DEF Turns, Travels
  <2>4. runner'.pc = "ready" /\ {"pc", "pos"} \subseteq DOMAIN runner'
    BY <2>1 DEF IdleRunner
  <2>5. OnTrip(t)' /\ SameTrainer(t, t)
    BY <2>1, <2>2, <2>3, <2>4 DEF OnTrip, Turns, Queued, Idling, SameTrainer
  <2>6. ListsRest
    BY <1>0, <2>1 DEF ListsRest
  <2>7. ASSUME NEW x \in Trainers
        PROVE  ExecOne(x)' + Listed(ready', x) - TwiceOne(x)' + BetweenOne(x)'
                 = ExecOne(x) + Listed(ready, x) - TwiceOne(x) + BetweenOne(x)
    <3>1. /\ TwiceOne(x) = 0 /\ TwiceOne(x)' = 0 /\ BetweenOne(x)' = 0
          /\ ExecOne(x) = 0 /\ ExecOne(x)' = 0
      BY <2>1, <2>2, <2>4 DEF ExecOne, TwiceOne, BetweenOne, One, Turns
    <3>2. BetweenOne(x) = One(t.id = x)
      BY <2>1, <2>2 DEF BetweenOne, Turns
    <3>3. Listed(ready, x) = 0 /\ Listed(ready', x) = One(t.id = x)
      BY <2>3, ListedSingle, ListedEmpty
    <3> QED BY <3>1, <3>2, <3>3 DEF One
  <2>8. /\ ready' \in Seq(TraderRecords) /\ exec' \in [on : BOOLEAN, trainer : TraderRecords]
        /\ sem' \in [Semaphores -> Nat]
        /\ sem'["availableTrainersCount"] = sem["availableTrainersCount"]
    BY <1>0, <2>1, <2>3, Posts DEF TradersTypes, Semaphores
  <2> QED BY <2>2, <2>3, <2>4, <2>5, <2>6, <2>7, <2>8, TripGoesOn
<1> QED BY <1>2, <1>4, <1>5, <1>6, <1>7, <1>8, <1>9

(* The pokemons that appear only change what nobody looks at any more. *)
LEMMA AppearingInSearch ==
  ASSUME InSearch, NEW p \in Arrivals, Appearing(p), UNCHANGED exchangeVars
  PROVE  InSearch'
<1>1. /\ UNCHANGED <<new, ready, blocked, exit, exec, closer, runner, flagDeadLock>>
      /\ sem' = sem \/ Post("availablePokemonsCount")
  BY DEF Appearing, Appear, AddAvailable, lists, ends
<1>2. sem \in [Semaphores -> Nat]
  BY DEF InSearch, TradersTypes
<1>3. sem' \in [Semaphores -> Nat] /\ sem'["availableTrainersCount"] = sem["availableTrainersCount"]
  BY <1>1, <1>2, Posts DEF Semaphores
<1>4. StaysThere
  BY <1>1, <1>3 DEF StaysThere
<1> QED BY <1>4, StayingKeeps

-----------------------------------------------------------------------------
(* During the search: the resolver. *)

(* Nobody is free and new is empty whenever the closer has nothing to drop. *)
LEMMA NobodyIsNew ==
  ASSUME InSearch, closer.pc # "drop"
  PROVE  new = <<>> /\ \A i \in DOMAIN blocked : blocked[i].state = "DEADLOCK"
<1>1. new \in Seq(TraderRecords) /\ DOMAIN new = {}
  BY DEF InSearch, TradersTypes, ClosedInv, Dropping
<1> QED BY <1>1 DEF InSearch, ClosedInv, Dropping

LEMMA OfOneId ==
  ASSUME InSearch, resolver.pc = "search", closer.pc # "drop",
         NEW i \in DOMAIN blocked, NEW j \in DOMAIN blocked, blocked[i].id = blocked[j].id
  PROVE  i = j
<1> SUFFICES ASSUME i # j PROVE FALSE
  OBVIOUS
<1> DEFINE t == blocked[i].id
<1>1. t \in Trainers /\ blocked \in Seq(TraderRecords)
  BY TraderParts DEF InSearch, TradersTypes
<1>2. Listed(blocked, t) >= 2
  BY <1>1, ListedTwice
<1>3. Choosing
  BY DEF InSearch, ResolverInv
<1>4. TradersOneList(t)
  BY <1>1 DEF InSearch
<1>5. ExecOne(t) = 0 /\ DropOne(t) = 0 /\ TwiceOne(t) = 0 /\ UnblockOne(t) = 0 /\ FreeOne(t) = 0
      /\ BetweenOne(t) \in 0 .. 1
  BY <1>3 DEF ExecOne, DropOne, TwiceOne, BetweenOne, UnblockOne, FreeOne, One, Choosing, Resting, Idling
<1>6. Tokens(t)
  BY AreTokens DEF InSearch
<1> HIDE DEF t
<1> QED BY <1>2, <1>4, <1>5, <1>6 DEF TradersOneList, InLists, Tokens

(* The search finds a pair that fits. *)
LEMMA TotalsOfTeam ==
  ASSUME NEW t \in TraderRecords
  PROVE  Size(t) \in Nat /\ Objectives[t.id] \in [Species -> Nat]
<1>1. t.id \in Trainers
  BY TraderParts
<1>2. Objectives[t.id] \in [Species -> Nat] /\ IsFiniteSet(Species)
  BY <1>1, PlannerAssumption
<1> QED BY <1>2, TotalNat DEF Size

LEMMA ChosenFit ==
  ASSUME NEW t \in TraderRecords, NEW u \in TraderRecords, u.id # t.id,
         t.state = "DEADLOCK", u.state = "DEADLOCK",
         NEW want, NEW give, <<want, give>> \in Trades(t, u),
         ~(Beyond(t, u) /\ \E s \in Lacks(t) : u.held[s] > 0)
  PROVE  Fits([t EXCEPT !.target = [name |-> want, pos |-> <<0, 0>>]],
              [u EXCEPT !.target = [name |-> give, pos |-> <<0, 0>>]])
<1> DEFINE a == [name |-> want, pos |-> <<0, 0>>]
           b == [name |-> give, pos |-> <<0, 0>>]
<1>1. want \in Lacks(t) /\ give \in Spares(t) /\ \E n \in Counted(t, u, want) : u.held[want] > n
  BY DEF Trades
<1>2. /\ want \in Species /\ give \in Species
      /\ t.held[want] < Objectives[t.id][want] /\ t.held[give] > Objectives[t.id][give]
  BY <1>1 DEF Lacks, Spares
<1>3. /\ Size(t) \in Nat /\ Size(u) \in Nat /\ Objectives[u.id][want] \in Nat /\ u.held[want] \in Nat
  BY <1>2, TotalsOfTeam, TraderParts
<1> DEFINE all == Objectives[u.id][want]
           h == u.held[want]
           m == Size(t)
           k == Size(u)
<1>4. PICK n \in Counted(t, u, want) : h > n
  BY <1>1
<1>5. n \in Int /\ h > 0 /\ (k <= m => h > all)
  <2>1. CASE m > k
    <3>1. n \in all .. all + m - k
      BY <2>1 DEF Counted, Beyond
    <3> HIDE DEF all, h, m, k
    <3>2. h > 0
      BY <1>3, <1>4, <3>1 DEF all, h, m, k
    <3> QED BY <1>1, <2>1, <3>2 DEF Beyond, h, m, k
  <2>2. CASE ~(m > k)
    <3>1. n \in 0 .. all /\ m - n <= k - all /\ n <= m
      BY <2>2 DEF Counted, Beyond
    <3>2. h \in Nat /\ all \in Nat /\ m \in Nat /\ k \in Nat
      BY <1>3
    <3> HIDE DEF all, h, m, k
    <3> QED BY <1>4, <2>2, <3>1, <3>2
  <2> QED BY <2>1, <2>2
<1>6. a \in Targets /\ b \in Targets /\ a.name = want /\ b.name = give
  BY <1>2 DEF Targets
<1> HIDE DEF a, b
<1> DEFINE t2 == [t EXCEPT !.target = a]
           u2 == [u EXCEPT !.target = b]
<1>7. /\ t2.id = t.id /\ t2.held = t.held /\ t2.state = t.state /\ t2.target = a
      /\ u2.id = u.id /\ u2.held = u.held /\ u2.state = u.state /\ u2.target = b
  BY <1>6, AimedTrader
<1>8. Size(t2) = Size(t) /\ Size(u2) = Size(u)
  BY <1>7 DEF Size
<1> HIDE DEF t2, u2
<1>9. Fits(t2, u2)
  BY <1>2, <1>5, <1>6, <1>7, <1>8 DEF Fits
<1> QED BY <1>9 DEF t2, u2, a, b

LEMMA PairInSearch ==
  ASSUME InSearch, ~disturbed', resolver.pc = "search", NEW p \in Pairs,
         NEW trade \in Trades(blocked[p[1]], blocked[p[2]]), Pair(p, trade[1], trade[2]),
         UNCHANGED <<new, ready, exit, exec, sem, closer, runner, flagDeadLock, finishDeadlock>>
  PROVE  InSearch'
<1> DEFINE i == p[1]
           j == p[2]
           a == [name |-> trade[1], pos |-> <<0, 0>>]
           b == [name |-> trade[2], pos |-> <<0, 0>>]
           t == blocked[i]
           u == blocked[j]
           t2 == [t EXCEPT !.target = a]
           u2 == [u EXCEPT !.target = b]
<1>0. TradersTypes /\ ClosedInv /\ ResolverInv /\ Choosing
  BY DEF InSearch, ResolverInv
<1>1. i \in DOMAIN blocked /\ j \in DOMAIN blocked /\ i < j /\ t.state = "DEADLOCK" /\ u.state = "DEADLOCK"
  BY DEF Pairs, Deadlocked
<1>2. closer.pc # "drop" /\ ~ReadsBeyond(p)
  BY DEF Pair, Stale
<1>3. /\ blocked \in Seq(TraderRecords) /\ t \in TraderRecords /\ u \in TraderRecords
      /\ i \in Nat /\ j \in Nat /\ i # j
  BY <1>0, <1>1 DEF TradersTypes
<1>4. u.id # t.id
  BY <1>1, <1>2, <1>3, OfOneId
<1>5. /\ blocked' = [blocked EXCEPT ![i].target = a, ![j].target = b]
      /\ partner' = [partner EXCEPT ![t.id] = u.id]
      /\ resolver' = [pc |-> "ready", i |-> i, j |-> j]
  BY DEF Pair
<1>6. trade = <<trade[1], trade[2]>> /\ trade[1] \in Species /\ trade[2] \in Species
  BY DEF Trades, Lacks, Spares
<1>7. Fits(t2, u2)
  <2>1. ~(Beyond(t, u) /\ \E s \in Lacks(t) : u.held[s] > 0)
    BY <1>2 DEF ReadsBeyond
  <2>2. <<trade[1], trade[2]>> \in Trades(t, u)
    BY <1>6
  <2> HIDE DEF t, u
  <2> QED BY <1>1, <1>3, <1>4, <2>1, <2>2, ChosenFit
<1>8. a \in Targets /\ b \in Targets
  BY <1>6 DEF Targets
<1>9. /\ t2 \in TraderRecords /\ t2.id = t.id /\ t2.state = t.state
      /\ u2 \in TraderRecords /\ u2.id = u.id /\ u2.state = u.state
  <2> HIDE DEF a, b, t, u
  <2> QED BY <1>3, <1>8, AimedTrader
<1>10. /\ blocked' \in Seq(TraderRecords) /\ DOMAIN blocked' = DOMAIN blocked
       /\ blocked'[i] = t2 /\ blocked'[j] = u2
       /\ \A k \in DOMAIN blocked \ {i, j} : blocked'[k] = blocked[k]
  <2>1. blocked' = [[blocked EXCEPT ![i] = t2] EXCEPT ![j] = u2]
    <3>1. [blocked EXCEPT ![i].target = a] = [blocked EXCEPT ![i] = t2]
      OBVIOUS
    <3>2. blocked' = [[blocked EXCEPT ![i] = t2] EXCEPT ![j].target = b]
      BY <1>5, <3>1
    <3>3. [blocked EXCEPT ![i] = t2][j] = u
      BY <1>1, <1>3
    <3> QED BY <1>1, <1>3, <3>2, <3>3
  <2> HIDE DEF t2, u2, i, j
  <2> QED BY <1>1, <1>3, <1>9, <2>1
<1>11. \A k \in DOMAIN blocked : blocked'[k].id = blocked[k].id /\ blocked'[k].state = blocked[k].state
  <2> HIDE DEF t2, u2, i, j
  <2> QED BY <1>9, <1>10 DEF t, u
<1> HIDE DEF t2, u2, a, b
<1>12. t.id \in Trainers /\ u.id \in Trainers
  BY <1>3, TraderParts
<1>13. /\ partner' \in [Trainers -> Trainers] /\ partner'[t.id] = u.id
  BY <1>0, <1>5, <1>12 DEF TradersTypes
<1>14. /\ resolver' \in Resolvers /\ resolver'.pc = "ready" /\ resolver'.i = i /\ resolver'.j = j
  <2> HIDE DEF i, j
  <2> QED BY <1>3, <1>5 DEF Resolvers
<1> HIDE DEF i, j
<1>15. TradersTypes'
  BY <1>0, <1>10, <1>13, <1>14 DEF TradersTypes
<1>16. ClosedInv'
  <2>1. \A k \in DOMAIN blocked : blocked[k].state = "DEADLOCK"
    BY <1>2, NobodyIsNew
  <2> QED BY <1>0, <1>2, <1>10, <1>11, <2>1 DEF ClosedInv, Dropping
<1>17. Meets(t2, blocked', u.id)
  <2>1. ASSUME NEW h \in DOMAIN blocked', blocked'[h].id = u.id PROVE h = j
    <3>1. h \in DOMAIN blocked /\ blocked[h].id = u.id
      BY <1>10, <1>11, <2>1
    <3> QED BY <1>1, <1>2, <3>1, OfOneId
  <2> QED BY <1>1, <1>7, <1>9, <1>10, <2>1 DEF Meets
<1>18. ResolverInv'
  <2>1. Resting' /\ finishDeadlock' = 0
    BY <1>0 DEF Choosing, Resting
  <2>2. Meets(blocked'[resolver'.i], blocked', partner'[blocked'[resolver'.i].id])
    BY <1>9, <1>10, <1>13, <1>14, <1>17
  <2> QED BY <1>1, <1>10, <1>14, <2>1, <2>2 DEF ResolverInv, Choosing
<1>19. ASSUME NEW x \in Trainers PROVE TradersOneList(x)'
  <2>1. /\ ExecOne(x)' = ExecOne(x) /\ TwiceOne(x)' = TwiceOne(x) /\ BetweenOne(x)' = BetweenOne(x)
        /\ UnblockOne(x)' = UnblockOne(x) /\ FreeOne(x)' = FreeOne(x) /\ DropOne(x)' = DropOne(x)
    BY <1>2, <1>14 DEF ExecOne, TwiceOne, BetweenOne, UnblockOne, FreeOne, DropOne, One
  <2>2. Listed(blocked', x) = Listed(blocked, x)
    BY <1>3, <1>10, <1>11, SameIds
  <2> QED BY <2>1, <2>2 DEF InSearch, TradersOneList, InLists
<1> QED BY <1>15, <1>16, <1>18, <1>19 DEF InSearch

LEMMA SearchInSearch ==
  ASSUME InSearch, Search, running', ~disturbed'
  PROVE  InSearch'
<1>0. /\ resolver.pc = "search"
      /\ UNCHANGED <<new, ready, exit, exec, sem, closer, runner, finishDeadlock>>
  BY DEF Search
<1>1. ~ReadBeyond
  BY DEF ReadBeyond
<1>2. CASE /\ \E p \in Pairs : \E trade \in Trades(blocked[p[1]], blocked[p[2]]) :
                Pair(p, trade[1], trade[2])
           /\ UNCHANGED ends
  BY <1>0, <1>2, PairInSearch DEF ends
<1>3. CASE NobodyTrades
  <2>1. /\ closer.pc # "drop" /\ resolver' = [resolver EXCEPT !.pc = "ended"]
        /\ UNCHANGED <<blocked, partner, flagDeadLock>>
    BY <1>3 DEF NobodyTrades, Stale, ends
  <2>2. resolver' \in Resolvers /\ resolver'.pc = "ended"
    BY <2>1 DEF InSearch, TradersTypes, Resolvers
  <2>3. TradersTypes'
    BY <1>0, <2>1, <2>2 DEF InSearch, TradersTypes
  <2>4. ClosedInv'
    BY <1>0, <2>1, <2>2 DEF InSearch, ClosedInv, Dropping
  <2>5. ResolverInv'
    BY <1>0, <2>1, <2>2 DEF InSearch, ResolverInv, Choosing, Resting
  <2>6. ASSUME NEW x \in Trainers PROVE TradersOneList(x)'
    <3>1. /\ ExecOne(x)' = ExecOne(x) /\ TwiceOne(x)' = TwiceOne(x) /\ BetweenOne(x)' = BetweenOne(x)
          /\ UnblockOne(x)' = UnblockOne(x) /\ FreeOne(x)' = FreeOne(x) /\ DropOne(x)' = DropOne(x)
          /\ InLists(x)' = InLists(x)
      BY <1>0, <2>1, <2>2 DEF ExecOne, TwiceOne, BetweenOne, UnblockOne, FreeOne, DropOne, BeingDropped,
         InLists, One
    <3> QED BY <3>1 DEF InSearch, TradersOneList
  <2> QED BY <2>1, <2>3, <2>4, <2>5, <2>6 DEF InSearch
<1> QED BY <1>1, <1>2, <1>3 DEF Search

(* The resolver's next place, and what it leaves alone on its way. *)
LEMMA ResolveStep ==
  ASSUME InSearch, NEW from, NEW to \in {"search", "unblock", "wait", "place", "free", "partner"},
         Resolve(from, to)
  PROVE  /\ resolver.pc = from /\ resolver' \in Resolvers /\ resolver'.pc = to
         /\ resolver'.i = resolver.i /\ resolver'.j = resolver.j
         /\ UNCHANGED <<new, closer, runner, partner, disturbed>>
BY DEF Resolve, InSearch, TradersTypes, Resolvers

(* The parts of the sum, when the closer drops nothing. *)
Parts(t) ==
  /\ Tokens(t) /\ {ExecOne(t), TwiceOne(t), BetweenOne(t), UnblockOne(t), FreeOne(t)} \subseteq 0 .. 1

LEMMA AreParts == ASSUME TradersTypes, NEW t PROVE Parts(t)
<1>1. Tokens(t)
  BY AreTokens
<1> QED BY <1>1 DEF Parts, ExecOne, TwiceOne, BetweenOne, UnblockOne, FreeOne, One

LEMMA MakeReadyInSearch ==
  ASSUME InSearch, MakeReady
  PROVE  InSearch'
<1> DEFINE k == resolver.i
           t == blocked[resolver.i]
<1>0. TradersTypes /\ ClosedInv /\ ResolverInv
  BY DEF InSearch
<1>1. /\ resolver.pc = "ready" /\ resolver' \in Resolvers /\ resolver'.pc = "unblock"
      /\ resolver'.i = k /\ UNCHANGED <<new, closer, runner, partner>>
  BY ResolveStep DEF MakeReady
<1>2. /\ ready' = Append(ready, t) /\ Post("readyTrainer")
      /\ UNCHANGED <<blocked, exit, exec, flagDeadLock, finishDeadlock>>
  BY DEF MakeReady, ends
<1>3. /\ Resting /\ finishDeadlock = 0 /\ k \in DOMAIN blocked /\ Meets(t, blocked, partner[t.id])
  BY <1>0, <1>1 DEF ResolverInv, Choosing
<1>4. t \in TraderRecords /\ closer.pc # "drop"
  BY <1>0, <1>1, <1>3 DEF TradersTypes, ClosedInv
<1>5. t.state = "DEADLOCK"
  BY <1>3 DEF Meets, Fits
<1>6. ready = <<>> /\ ready' = <<t>> /\ ready' \in Seq(TraderRecords)
  BY <1>2, <1>3, <1>4 DEF Resting
<1>7. sem' \in [Semaphores -> Nat] /\ sem'["availableTrainersCount"] = sem["availableTrainersCount"]
  BY <1>0, <1>2, Posts DEF TradersTypes, Semaphores
<1>8. TradersTypes'
  BY <1>0, <1>1, <1>2, <1>6, <1>7 DEF TradersTypes
<1>9. ClosedInv'
  BY <1>0, <1>1, <1>2, <1>4, <1>7 DEF ClosedInv, Dropping
<1>10. ResolverInv'
  <2>1. PICK w : w = t
    OBVIOUS
  <2>2. Trip(w)'
    BY <1>1, <1>2, <1>3, <1>5, <1>6, <2>1 DEF Trip, OnTrip, Queued, Resting
  <2> QED BY <1>1, <1>4, <2>1, <2>2 DEF ResolverInv
<1>11. ASSUME NEW x \in Trainers PROVE TradersOneList(x)'
  <2>1. /\ ExecOne(x)' = ExecOne(x) /\ TwiceOne(x)' = TwiceOne(x) /\ BetweenOne(x)' = BetweenOne(x)
        /\ FreeOne(x)' = FreeOne(x) /\ UnblockOne(x) = 0
        /\ DropOne(x)' = 0 /\ DropOne(x) = 0
    BY <1>1, <1>2, <1>4 DEF ExecOne, TwiceOne, BetweenOne, UnblockOne, FreeOne, DropOne, One
  <2>2. UnblockOne(x)' = One(t.id = x)
    BY <1>1, <1>2 DEF UnblockOne
  <2>3. Listed(ready, x) = 0 /\ Listed(ready', x) = One(t.id = x)
    BY <1>4, <1>6, ListedSingle, ListedEmpty
  <2>4. Parts(x) /\ TradersOneList(x)
    BY <1>0, AreParts DEF InSearch
  <2>5. InLists(x)' = InLists(x) + One(t.id = x)
    BY <1>1, <1>2, <2>3, <2>4 DEF InLists, Parts, Tokens, One
  <2> HIDE DEF t
  <2> QED BY <2>1, <2>2, <2>4, <2>5 DEF TradersOneList, InLists, Parts, Tokens, One
<1> QED BY <1>2, <1>8, <1>9, <1>10, <1>11 DEF InSearch

LEMMA FirstOfId ==
  ASSUME NEW list \in Seq(TraderRecords), NEW id, NEW i \in DOMAIN list, list[i].id = id
  PROVE  Position(list, id) \in DOMAIN list /\ list[Position(list, id)].id = id
<1> DEFINE S == {k \in DOMAIN list : list[k].id = id}
<1>1. S \in SUBSET Nat /\ S # {}
  OBVIOUS
<1> HIDE DEF S
<1>2. PICK n \in S : \A m \in S : n <= m
  BY <1>1, LeastNatural
<1>3. Min(S) \in S
  BY <1>2 DEF Min
<1> QED BY <1>3 DEF S, Position

LEMMA UnblockInSearch ==
  ASSUME InSearch, Unblock
  PROVE  InSearch'
<1> DEFINE id == blocked[resolver.i].id
           k == Position(blocked, id)
<1>0. TradersTypes /\ ClosedInv /\ ResolverInv
  BY DEF InSearch
<1>1. /\ resolver.pc = "unblock" /\ resolver' \in Resolvers /\ resolver'.pc = "wait"
      /\ UNCHANGED <<new, closer, runner, partner>>
  BY ResolveStep DEF Unblock
<1>2. /\ blocked' = RemoveAt(blocked, k)
      /\ UNCHANGED <<ready, exit, exec, sem, flagDeadLock, finishDeadlock>>
  BY DEF Unblock, ends
<1>3. PICK t \in TraderRecords : Trip(t)
  BY <1>0, <1>1 DEF ResolverInv
<1>4. resolver.i \in DOMAIN blocked /\ id = t.id /\ blocked \in Seq(TraderRecords)
      /\ closer.pc # "drop"
  BY <1>0, <1>1, <1>3 DEF Trip, TradersTypes, ClosedInv
<1>5. k \in DOMAIN blocked /\ blocked[k].id = t.id
  BY <1>4, FirstOfId
<1> HIDE DEF k
<1>6. /\ blocked' \in Seq(TraderRecords)
      /\ \A x : Listed(blocked', x) = Listed(blocked, x) - One(t.id = x)
  BY <1>2, <1>4, <1>5, ListedRemoved
<1>7. TradersTypes'
  BY <1>0, <1>1, <1>2, <1>6 DEF TradersTypes
<1>8. ClosedInv'
  <2> DEFINE n == Len(blocked)
  <2>1. n \in Nat /\ DOMAIN blocked = 1 .. n /\ k \in 1 .. n
    BY <1>4, <1>5
  <2>2. blocked' \in Seq(TraderRecords) /\ Len(blocked') = n - 1
        /\ \A i \in DOMAIN blocked' : blocked'[i] = IF i < k THEN blocked[i] ELSE blocked[i + 1]
    BY <1>2, <1>4, <1>5, RemovedPlaces
  <2> HIDE DEF n
  <2>3. \A i \in DOMAIN blocked' : i \in DOMAIN blocked /\ i + 1 \in DOMAIN blocked
    BY <2>1, <2>2
  <2>4. \A i \in DOMAIN blocked' : blocked'[i].state = "DEADLOCK"
    BY <1>4, <2>2, <2>3, NobodyIsNew
  <2> QED BY <1>0, <1>1, <1>2, <1>4, <2>4 DEF ClosedInv, Dropping
<1>9. ResolverInv'
  <2>1. Meets(t, blocked, partner[t.id]) => Meets(t, blocked', partner[t.id])
    BY <1>2, <1>4, <1>5, MeetsLess
  <2>2. OnTrip(t) => OnTrip(t)'
    BY <1>1, <1>2 DEF OnTrip, Queued, Copied, Goes, Turns
  <2>3. HasTraded(t) => HasTraded(t)'
    BY <1>1, <1>2 DEF HasTraded
  <2>4. Trip(t)'
    BY <1>1, <1>2, <1>3, <2>1, <2>2, <2>3 DEF Trip
  <2> QED BY <1>1, <2>4 DEF ResolverInv
<1>10. ASSUME NEW x \in Trainers PROVE TradersOneList(x)'
  <2>1. /\ ExecOne(x)' = ExecOne(x) /\ TwiceOne(x)' = TwiceOne(x) /\ BetweenOne(x)' = BetweenOne(x)
        /\ FreeOne(x) = 0 /\ FreeOne(x)' = 0 /\ UnblockOne(x)' = 0
        /\ DropOne(x)' = 0 /\ DropOne(x) = 0
    BY <1>1, <1>2, <1>4 DEF ExecOne, TwiceOne, BetweenOne, UnblockOne, FreeOne, DropOne, One
  <2>2. UnblockOne(x) = One(t.id = x)
    BY <1>1, <1>4 DEF UnblockOne
  <2>3. Parts(x) /\ TradersOneList(x)
    BY <1>0, AreParts DEF InSearch
  <2>4. InLists(x)' = InLists(x) - One(t.id = x)
    BY <1>1, <1>2, <1>6, <2>3 DEF InLists, Parts, Tokens, One
  <2> HIDE DEF id
  <2> QED BY <2>1, <2>2, <2>3, <2>4 DEF TradersOneList, InLists, Parts, Tokens, One
<1> QED BY <1>2, <1>7, <1>8, <1>9, <1>10 DEF InSearch

LEMMA WaitTradeInSearch ==
  ASSUME InSearch, WaitTrade
  PROVE  InSearch'
<1>0. TradersTypes /\ ClosedInv /\ ResolverInv
  BY DEF InSearch
<1>1. /\ resolver.pc = "wait" /\ resolver' \in Resolvers /\ resolver'.pc = "place"
      /\ UNCHANGED <<new, closer, runner, partner>>
  BY ResolveStep DEF WaitTrade
<1>2. /\ finishDeadlock > 0 /\ finishDeadlock' = finishDeadlock - 1
      /\ UNCHANGED <<ready, blocked, exit, exec, sem, flagDeadLock>>
  BY DEF WaitTrade, ends
<1>3. PICK t \in TraderRecords : Trip(t)
  BY <1>0, <1>1 DEF ResolverInv
<1>4. HasTraded(t) /\ finishDeadlock = 1 /\ t.state = "DEADLOCK"
  BY <1>2, <1>3 DEF Trip
<1>5. TradersTypes'
  BY <1>0, <1>1, <1>2, <1>4 DEF TradersTypes
<1>6. ClosedInv'
  BY <1>0, <1>1, <1>2 DEF ClosedInv, Dropping
<1>7. ResolverInv'
  BY <1>1, <1>2, <1>4 DEF ResolverInv, Placing, HasTraded
<1>8. ASSUME NEW x \in Trainers PROVE TradersOneList(x)'
  <2>1. /\ ExecOne(x)' = ExecOne(x) /\ TwiceOne(x)' = TwiceOne(x) /\ BetweenOne(x)' = BetweenOne(x)
        /\ UnblockOne(x)' = UnblockOne(x) /\ FreeOne(x)' = FreeOne(x) /\ DropOne(x)' = DropOne(x)
        /\ InLists(x)' = InLists(x)
    BY <1>1, <1>2 DEF ExecOne, TwiceOne, BetweenOne, UnblockOne, FreeOne, DropOne, BeingDropped,
       InLists, One
  <2> QED BY <2>1 DEF InSearch, TradersOneList
<1> QED BY <1>2, <1>5, <1>6, <1>7, <1>8 DEF InSearch

LEMMA PlaceTraderInSearch ==
  ASSUME InSearch, PlaceTrader
  PROVE  InSearch'
<1> DEFINE t == exec.trainer
<1>0. TradersTypes /\ ClosedInv /\ ResolverInv
  BY DEF InSearch
<1>1. /\ resolver.pc = "place" /\ resolver' \in Resolvers /\ resolver'.pc = "free"
      /\ UNCHANGED <<new, closer, runner, partner>>
  BY ResolveStep DEF PlaceTrader
<1>2. /\ \/ blocked' = Append(blocked, t) /\ exit' = exit /\ sem' = sem
         \/ exit' = Append(exit, t) /\ Post("exitCount") /\ blocked' = blocked
      /\ UNCHANGED <<ready, exec, flagDeadLock, finishDeadlock>>
  BY DEF PlaceTrader, ends
<1>3. Placing /\ t.state = "DEADLOCK" /\ closer.pc # "drop"
  BY <1>0, <1>1 DEF ResolverInv, Placing, ClosedInv
<1>4. t \in TraderRecords
  BY <1>0 DEF TradersTypes
<1>5. sem' \in [Semaphores -> Nat] /\ sem'["availableTrainersCount"] = sem["availableTrainersCount"]
  BY <1>0, <1>2, Posts DEF TradersTypes, Semaphores
<1>6. /\ blocked' \in Seq(TraderRecords) /\ exit' \in Seq(TraderRecords)
      /\ \A x : Listed(blocked', x) + Listed(exit', x)
                  = Listed(blocked, x) + Listed(exit, x) + One(t.id = x)
  <2>1. blocked \in Seq(TraderRecords) /\ exit \in Seq(TraderRecords)
    BY <1>0 DEF TradersTypes
  <2>2. ASSUME NEW x
        PROVE  /\ Append(blocked, t) \in Seq(TraderRecords) /\ Append(exit, t) \in Seq(TraderRecords)
               /\ Listed(Append(blocked, t), x) = Listed(blocked, x) + One(t.id = x)
               /\ Listed(Append(exit, t), x) = Listed(exit, x) + One(t.id = x)
               /\ Listed(blocked, x) \in Nat /\ Listed(exit, x) \in Nat
    BY <1>4, <2>1, ListedAppend, ListedAre
  <2> HIDE DEF t
  <2>3. CASE blocked' = Append(blocked, t) /\ exit' = exit
    BY <2>1, <2>2, <2>3 DEF One
  <2>4. CASE exit' = Append(exit, t) /\ blocked' = blocked
    BY <2>1, <2>2, <2>4 DEF One
  <2> QED BY <1>2, <2>3, <2>4
<1>7. TradersTypes'
  BY <1>0, <1>1, <1>2, <1>5, <1>6 DEF TradersTypes
<1>8. ClosedInv'
  <2>1. \A i \in DOMAIN blocked : blocked[i].state = "DEADLOCK"
    BY <1>3, NobodyIsNew
  <2>2. \A i \in DOMAIN blocked' : blocked'[i].state = "DEADLOCK"
    <3>1. CASE blocked' = blocked
      BY <2>1, <3>1
    <3>2. CASE blocked' = Append(blocked, t)
      <4>1. \A i \in DOMAIN blocked' : (i \in DOMAIN blocked /\ blocked'[i] = blocked[i]) \/ blocked'[i] = t
        BY <1>0, <3>2 DEF TradersTypes
      <4> QED BY <1>3, <2>1, <4>1
    <3> QED BY <1>2, <3>1, <3>2
  <2> QED BY <1>0, <1>1, <1>3, <1>5, <2>2 DEF ClosedInv, Dropping
<1>9. ResolverInv'
  BY <1>1, <1>2, <1>3 DEF ResolverInv, Placing
<1>10. ASSUME NEW x \in Trainers PROVE TradersOneList(x)'
  <2>1. /\ ExecOne(x)' = ExecOne(x) /\ TwiceOne(x)' = TwiceOne(x) /\ BetweenOne(x)' = BetweenOne(x)
        /\ UnblockOne(x) = 0 /\ UnblockOne(x)' = 0 /\ FreeOne(x) = 0
        /\ DropOne(x)' = 0 /\ DropOne(x) = 0
    BY <1>1, <1>2, <1>3 DEF ExecOne, TwiceOne, BetweenOne, UnblockOne, FreeOne, DropOne, One
  <2>2. FreeOne(x)' = One(t.id = x)
    BY <1>1, <1>2 DEF FreeOne
  <2>3. Parts(x) /\ TradersOneList(x)
    BY <1>0, AreParts DEF InSearch
  <2>4. InLists(x)' = InLists(x) + One(t.id = x)
    <3> DEFINE b == Listed(blocked, x)   b2 == Listed(blocked', x)
               e == Listed(exit, x)      e2 == Listed(exit', x)
               w == Listed(new, x) + Listed(ready, x)
               one == One(t.id = x)
    <3>1. b \in Nat /\ e \in Nat /\ b2 \in Nat /\ e2 \in Nat /\ w \in Nat /\ one \in Nat
      BY <1>0, <1>6, ListedAre DEF TradersTypes, One
    <3>2. b2 + e2 = b + e + one
      BY <1>6
    <3>3. InLists(x) = w + b + e /\ InLists(x)' = w + b2 + e2
      BY <1>1, <1>2 DEF InLists
    <3> HIDE DEF b, b2, e, e2, w, one
    <3>4. w + b2 + e2 = w + b + e + one
      BY <3>1, <3>2
    <3> QED BY <3>3, <3>4 DEF one
  <2> HIDE DEF t
  <2> QED BY <2>1, <2>2, <2>3, <2>4 DEF TradersOneList, InLists, Parts, Tokens, One
<1> QED BY <1>2, <1>7, <1>8, <1>9, <1>10 DEF InSearch

LEMMA FreeExecInSearch ==
  ASSUME InSearch, FreeExec
  PROVE  InSearch'
<1> DEFINE t == exec.trainer
<1>0. TradersTypes /\ ClosedInv /\ ResolverInv
  BY DEF InSearch
<1>1. /\ resolver.pc = "free" /\ resolver' \in Resolvers /\ resolver'.pc = "partner"
      /\ UNCHANGED <<new, closer, runner, partner>>
  BY ResolveStep DEF FreeExec
<1>2. /\ exec' = [exec EXCEPT !.on = FALSE] /\ Post("execTrainer")
      /\ UNCHANGED <<ready, blocked, exit, flagDeadLock, finishDeadlock>>
  BY DEF FreeExec, ends
<1>3. Placing
  BY <1>0, <1>1 DEF ResolverInv
<1>4. exec' \in [on : BOOLEAN, trainer : TraderRecords] /\ ~exec'.on /\ exec'.trainer = t
  BY <1>0, <1>2 DEF TradersTypes
<1>5. sem' \in [Semaphores -> Nat] /\ sem'["availableTrainersCount"] = sem["availableTrainersCount"]
  BY <1>0, <1>2, Posts DEF TradersTypes, Semaphores
<1>6. TradersTypes'
  BY <1>0, <1>1, <1>2, <1>4, <1>5 DEF TradersTypes
<1>7. ClosedInv'
  BY <1>0, <1>1, <1>2, <1>5 DEF ClosedInv, Dropping
<1>8. ResolverInv'
  BY <1>1, <1>2, <1>3, <1>4 DEF ResolverInv, Placing, Choosing, Resting
<1>9. ASSUME NEW x \in Trainers PROVE TradersOneList(x)'
  <2>1. /\ TwiceOne(x)' = 0 /\ TwiceOne(x) = 0 /\ BetweenOne(x)' = 0 /\ BetweenOne(x) = 0
        /\ UnblockOne(x) = 0 /\ UnblockOne(x)' = 0 /\ FreeOne(x)' = 0 /\ ExecOne(x)' = 0
        /\ DropOne(x)' = DropOne(x) /\ InLists(x)' = InLists(x)
    BY <1>1, <1>2, <1>3, <1>4 DEF ExecOne, TwiceOne, BetweenOne, UnblockOne, FreeOne, DropOne, One,
       BeingDropped, InLists, Placing, Idling
  <2>2. FreeOne(x) = One(t.id = x) /\ ExecOne(x) = One(t.id = x)
    BY <1>1, <1>3 DEF FreeOne, ExecOne, Placing
  <2>3. Parts(x) /\ TradersOneList(x)
    BY <1>0, AreParts DEF InSearch
  <2>4. DropOne(x) \in Nat /\ InLists(x) \in Nat
    BY <2>3 DEF DropOne, One, InLists, Parts, Tokens
  <2> HIDE DEF t
  <2> QED BY <2>1, <2>2, <2>3, <2>4 DEF TradersOneList, One
<1> QED BY <1>2, <1>6, <1>7, <1>8, <1>9 DEF InSearch

LEMMA PlacePartnerInSearch ==
  ASSUME InSearch, PlacePartner, running'
  PROVE  InSearch'
<1> DEFINE k == resolver.j - 1
           u == blocked[k]
           Leaves2 == /\ k \in DOMAIN blocked /\ exit' = Append(exit, u) /\ Post("exitCount")
                      /\ blocked' = RemoveAt(blocked, k)
           Same == blocked' = blocked /\ exit' = exit /\ sem' = sem
<1>0. TradersTypes /\ ClosedInv /\ ResolverInv
  BY DEF InSearch
<1>1. /\ resolver.pc = "partner" /\ resolver' \in Resolvers /\ resolver'.pc = "search"
      /\ UNCHANGED <<new, closer, runner, partner>>
  BY ResolveStep DEF PlacePartner
<1>2. (Leaves2 \/ Same) /\ UNCHANGED <<ready, exec, flagDeadLock, finishDeadlock>>
  BY DEF PlacePartner
<1> HIDE DEF k
<1>3. Choosing /\ closer.pc # "drop"
  BY <1>0, <1>1 DEF ResolverInv, ClosedInv
<1>4. sem' \in [Semaphores -> Nat] /\ sem'["availableTrainersCount"] = sem["availableTrainersCount"]
  BY <1>0, <1>2, Posts DEF TradersTypes, Semaphores
<1>5. blocked \in Seq(TraderRecords) /\ exit \in Seq(TraderRecords)
  BY <1>0 DEF TradersTypes
<1>6. /\ blocked' \in Seq(TraderRecords) /\ exit' \in Seq(TraderRecords)
      /\ \A x : Listed(blocked', x) + Listed(exit', x) = Listed(blocked, x) + Listed(exit, x)
      /\ \A i \in DOMAIN blocked' : blocked'[i].state = "DEADLOCK"
  <2>1. \A i \in DOMAIN blocked : blocked[i].state = "DEADLOCK"
    BY <1>3, NobodyIsNew
  <2>2. CASE Same
    BY <1>5, <2>1, <2>2
  <2>3. CASE Leaves2
    <3>1. u \in TraderRecords
      BY <1>5, <2>3
    <3>2. ASSUME NEW x
          PROVE  /\ RemoveAt(blocked, k) \in Seq(TraderRecords)
                 /\ Append(exit, u) \in Seq(TraderRecords)
                 /\ Listed(RemoveAt(blocked, k), x) = Listed(blocked, x) - One(u.id = x)
                 /\ Listed(Append(exit, u), x) = Listed(exit, x) + One(u.id = x)
                 /\ Listed(blocked, x) \in Nat /\ Listed(exit, x) \in Nat
      BY <1>5, <2>3, <3>1, ListedAppend, ListedRemoved, ListedAre
    <3>3. /\ blocked' \in Seq(TraderRecords) /\ exit' \in Seq(TraderRecords)
          /\ \A x : Listed(blocked', x) + Listed(exit', x) = Listed(blocked, x) + Listed(exit, x)
      <4> HIDE DEF u
      <4> QED BY <2>3, <3>2 DEF One
    <3>4. \A i \in DOMAIN blocked' : blocked'[i].state = "DEADLOCK"
      <4> DEFINE n == Len(blocked)
      <4>1. n \in Nat /\ DOMAIN blocked = 1 .. n /\ k \in 1 .. n
        BY <1>5, <2>3
      <4>2. blocked' \in Seq(TraderRecords) /\ Len(blocked') = n - 1
            /\ \A i \in DOMAIN blocked' : blocked'[i] = IF i < k THEN blocked[i] ELSE blocked[i + 1]
        BY <1>5, <2>3, RemovedPlaces
      <4> HIDE DEF n
      <4>3. \A i \in DOMAIN blocked' : i \in DOMAIN blocked /\ i + 1 \in DOMAIN blocked
        BY <4>1, <4>2
      <4> QED BY <2>1, <4>2, <4>3
    <3> QED BY <3>3, <3>4
  <2> QED BY <1>2, <2>2, <2>3
<1> HIDE DEF Leaves2, Same
<1>7. TradersTypes'
  BY <1>0, <1>1, <1>2, <1>4, <1>6 DEF TradersTypes
<1>8. ClosedInv'
  BY <1>0, <1>1, <1>3, <1>4, <1>6 DEF ClosedInv, Dropping
<1>9. ResolverInv'
  BY <1>1, <1>2, <1>3 DEF ResolverInv, Choosing, Resting
<1>10. ASSUME NEW x \in Trainers PROVE TradersOneList(x)'
  <2>1. /\ ExecOne(x)' = ExecOne(x) /\ TwiceOne(x)' = TwiceOne(x) /\ BetweenOne(x)' = BetweenOne(x)
        /\ UnblockOne(x) = 0 /\ UnblockOne(x)' = 0 /\ FreeOne(x) = 0 /\ FreeOne(x)' = 0
        /\ DropOne(x)' = 0 /\ DropOne(x) = 0
    BY <1>1, <1>2, <1>3 DEF ExecOne, TwiceOne, BetweenOne, UnblockOne, FreeOne, DropOne, One
  <2>2. Parts(x) /\ TradersOneList(x)
    BY <1>0, AreParts DEF InSearch
  <2>3. InLists(x)' = InLists(x)
    <3> DEFINE b == Listed(blocked, x)   b2 == Listed(blocked', x)
               e == Listed(exit, x)      e2 == Listed(exit', x)
               w == Listed(new, x) + Listed(ready, x)
    <3>1. b \in Nat /\ e \in Nat /\ b2 \in Nat /\ e2 \in Nat /\ w \in Nat
      BY <1>0, <1>5, <1>6, ListedAre DEF TradersTypes
    <3>2. b2 + e2 = b + e
      BY <1>6
    <3>3. InLists(x) = w + b + e /\ InLists(x)' = w + b2 + e2
      BY <1>1, <1>2 DEF InLists
    <3> HIDE DEF b, b2, e, e2, w
    <3>4. w + b2 + e2 = w + b + e
      BY <3>1, <3>2
    <3> QED BY <3>3, <3>4
  <2> QED BY <2>1, <2>2, <2>3 DEF TradersOneList
<1> QED BY <1>2, <1>7, <1>8, <1>9, <1>10 DEF InSearch

-----------------------------------------------------------------------------
(* During the search: the one that goes to trade. *)

LEMMA TraderMeets ==
  ASSUME InSearch, Trading
  PROVE  \E t : /\ Travels(t) /\ Goes(t) /\ runner.pc = "run"
                /\ PartnerBlocked /\ PartnerAt \in DOMAIN blocked
                /\ blocked[PartnerAt].id = partner[t.id] /\ Fits(t, blocked[PartnerAt])
<1>1. runner.pc = "run"
  BY DEF Trading, Running
<1>2. PICK t : Travels(t) /\ Goes(t)
  BY <1>1, WhoGoes DEF Idling, Copied, Turns
<1>3. PICK h \in DOMAIN blocked : blocked[h].id = partner[t.id]
  BY <1>2 DEF Travels, Meets
<1>4. exec.trainer = t /\ blocked \in Seq(TraderRecords)
  BY <1>2 DEF Goes, InSearch, TradersTypes
<1>5. PartnerAt \in DOMAIN blocked /\ blocked[PartnerAt].id = partner[t.id]
  BY <1>3, <1>4, FirstOfId DEF PartnerAt
<1>6. PartnerBlocked
  BY <1>3, <1>4 DEF PartnerBlocked
<1>7. Fits(t, blocked[PartnerAt])
  BY <1>2, <1>5 DEF Travels, Meets
<1> QED BY <1>1, <1>2, <1>5, <1>6, <1>7

LEMMA MoveToPartnerInSearch ==
  ASSUME InSearch, MoveToPartner
  PROVE  InSearch'
<1>0. TradersTypes
  BY DEF InSearch
<1>1. PICK t : /\ Travels(t) /\ Goes(t) /\ runner.pc = "run" /\ PartnerAt \in DOMAIN blocked
  BY TraderMeets DEF MoveToPartner
<1>2. /\ exec' = [exec EXCEPT !.trainer = Stepped(exec.trainer, blocked[PartnerAt].pos)]
      /\ runner' = CASE algorithm = "RR" ->
                          [runner EXCEPT !.clocks = runner.clocks + 1,
                             !.pc = IF runner.clocks + 1 = Quantum THEN "preempt" ELSE @]
                     [] algorithm = "SJF-CD" -> [runner EXCEPT !.left = runner.left - Scale]
                     [] OTHER -> runner
      /\ UNCHANGED <<new, ready, blocked, exit, sem, closer, flagDeadLock,
                     resolver, partner, finishDeadlock>>
  BY DEF MoveToPartner, Advance, lists, ends, exchangeVars
<1>3. exec.trainer = t /\ t \in TraderRecords /\ exec.on /\ ready = <<>>
  BY <1>1 DEF Goes, Travels
<1>4. blocked[PartnerAt].pos \in Int \X Int
  BY <1>0, <1>1, TraderParts DEF TradersTypes
<1>5. PICK u : u = Stepped(t, blocked[PartnerAt].pos)
  OBVIOUS
<1>6. u \in TraderRecords /\ SameTrainer(u, t)
  BY <1>3, <1>4, <1>5, SteppedTrader
<1>7. exec' \in [on : BOOLEAN, trainer : TraderRecords] /\ exec'.on /\ exec'.trainer = u
  BY <1>0, <1>2, <1>3, <1>5, <1>6 DEF TradersTypes
<1>8. runner'.pc \in {"run", "preempt"} /\ {"pc", "pos"} \subseteq DOMAIN runner'
  <2> DEFINE c == runner.clocks + 1
             l == runner.left - Scale
  <2>1. \/ runner' = [runner EXCEPT !.clocks = c, !.pc = IF c = Quantum THEN "preempt" ELSE @]
        \/ runner' = [runner EXCEPT !.left = l]
        \/ runner' = runner
    BY <1>2
  <2> HIDE DEF c, l
  <2> QED BY <1>0, <1>1, <2>1 DEF TradersTypes
<1>9. OnTrip(u)'
  BY <1>2, <1>3, <1>7, <1>8 DEF OnTrip, Goes
<1>10. ListsRest
  BY <1>2 DEF ListsRest
<1>11. ASSUME NEW x \in Trainers
       PROVE  ExecOne(x)' + Listed(ready', x) - TwiceOne(x)' + BetweenOne(x)'
                = ExecOne(x) + Listed(ready, x) - TwiceOne(x) + BetweenOne(x)
  <2>1. /\ TwiceOne(x) = 0 /\ TwiceOne(x)' = 0 /\ BetweenOne(x) = 0 /\ BetweenOne(x)' = 0
    BY <1>1, <1>8 DEF TwiceOne, BetweenOne, One
  <2>2. ExecOne(x)' = ExecOne(x) /\ ready' = ready
    BY <1>2, <1>3, <1>6, <1>7 DEF ExecOne, SameTrainer
  <2> QED BY <2>1, <2>2
<1>12. /\ ready' \in Seq(TraderRecords) /\ sem' \in [Semaphores -> Nat]
       /\ sem'["availableTrainersCount"] = sem["availableTrainersCount"]
  BY <1>0, <1>2 DEF TradersTypes
<1> QED BY <1>1, <1>6, <1>7, <1>8, <1>9, <1>10, <1>11, <1>12, TripGoesOn

(* What the two that meet hold after the exchange. *)
Exchanged(t, u) ==
  LET want == t.target.name  give == u.target.name IN
  /\ Travels(t) /\ exec.on /\ exec.trainer = t /\ ready = <<>>
  /\ PartnerAt \in DOMAIN blocked /\ blocked[PartnerAt] = u /\ u \in TraderRecords
  /\ Fits(t, u) /\ want # give /\ t.held[give] > 0
  /\ exec' = [exec EXCEPT !.trainer = Traded(t, want, give)]
  /\ blocked' = [blocked EXCEPT ![PartnerAt] = Traded(u, give, want)]

LEMMA WhoExchanges ==
  ASSUME InSearch, ExchangePokemon
  PROVE  \E t, u : Exchanged(t, u)
<1>0. blocked \in Seq(TraderRecords)
  BY DEF InSearch, TradersTypes
<1>1. PICK t : /\ Travels(t) /\ Goes(t) /\ PartnerAt \in DOMAIN blocked
               /\ Fits(t, blocked[PartnerAt])
  BY TraderMeets DEF ExchangePokemon
<1>2. PICK u : u = blocked[PartnerAt]
  OBVIOUS
<1>3. exec.on /\ exec.trainer = t /\ ready = <<>> /\ t \in TraderRecords /\ u \in TraderRecords
  BY <1>0, <1>1, <1>2 DEF Goes, Travels
<1> DEFINE want == t.target.name
           give == u.target.name
           all == Objectives[t.id]
<1>4. /\ want \in Species /\ give \in Species
      /\ t.held[want] < all[want] /\ t.held[give] > all[give]
  BY <1>1, <1>2 DEF Fits
<1>5. all \in [Species -> Nat] /\ t.held \in [Species -> Nat]
  BY <1>3, TotalsOfTeam, TraderParts
<1>6. want # give /\ t.held[give] > 0
  <2>1. all[want] \in Nat /\ all[give] \in Nat /\ t.held[want] \in Nat /\ t.held[give] \in Nat
    BY <1>4, <1>5
  <2> HIDE DEF want, give, all
  <2> QED BY <1>4, <2>1
<1>7. /\ exec' = [exec EXCEPT !.trainer = Traded(t, want, give)]
      /\ blocked' = [blocked EXCEPT ![PartnerAt] = Traded(u, give, want)]
  BY <1>2, <1>3 DEF ExchangePokemon
<1> QED BY <1>1, <1>2, <1>3, <1>6, <1>7 DEF Exchanged

LEMMA ExchangePokemonInSearch ==
  ASSUME InSearch, ExchangePokemon
  PROVE  InSearch'
<1>0. TradersTypes /\ ClosedInv /\ ResolverInv
  BY DEF InSearch
<1>1. PICK t, u : Exchanged(t, u)
  BY WhoExchanges
<1>2. PICK k : k = PartnerAt
  OBVIOUS
<1>3. PICK want, give : want = t.target.name /\ give = u.target.name
  OBVIOUS
<1>4. /\ exec.on /\ exec.trainer = t /\ ready = <<>> /\ t \in TraderRecords /\ u \in TraderRecords
      /\ k \in DOMAIN blocked /\ blocked[k] = u
      /\ resolver.pc \in {"unblock", "wait"} /\ Trip(t) /\ finishDeadlock = 0
  BY <1>1, <1>2 DEF Exchanged, Travels
<1>5. /\ want \in Species /\ give \in Species /\ want # give /\ t.held[give] > 0 /\ u.held[want] > 0
      /\ t.state = "DEADLOCK" /\ u.state = "DEADLOCK"
  BY <1>1, <1>3 DEF Exchanged, Fits
<1>6. PICK t2 : t2 = Traded(t, want, give)
  OBVIOUS
<1>7. PICK u2 : u2 = Traded(u, give, want)
  OBVIOUS
<1>8. /\ t2 \in TraderRecords /\ t2.id = t.id /\ t2.state = t.state
      /\ u2 \in TraderRecords /\ u2.id = u.id /\ u2.state = u.state
  <2>1. t2 \in TraderRecords /\ t2.id = t.id /\ t2.state = t.state
    BY <1>4, <1>5, <1>6, TradedTrader
  <2>2. u2 \in TraderRecords /\ u2.id = u.id /\ u2.state = u.state
    BY <1>4, <1>5, <1>7, TradedTrader
  <2> QED BY <2>1, <2>2
<1>9. exec' = [exec EXCEPT !.trainer = t2] /\ blocked' = [blocked EXCEPT ![k] = u2]
  BY <1>1, <1>2, <1>3, <1>6, <1>7 DEF Exchanged
<1>10. exec' \in [on : BOOLEAN, trainer : TraderRecords] /\ exec'.on /\ exec'.trainer = t2
  BY <1>0, <1>4, <1>8, <1>9 DEF TradersTypes
<1>11. /\ blocked' \in Seq(TraderRecords) /\ DOMAIN blocked' = DOMAIN blocked
       /\ \A i \in DOMAIN blocked : blocked'[i].id = blocked[i].id
                                    /\ blocked'[i].state = blocked[i].state
  <2>1. blocked \in Seq(TraderRecords)
    BY <1>0 DEF TradersTypes
  <2> QED BY <1>4, <1>8, <1>9, <2>1
<1>12. /\ runner.pc = "run" /\ runner'.pc = "ready" /\ {"pc", "pos"} \subseteq DOMAIN runner'
       /\ finishDeadlock' = 1
       /\ UNCHANGED <<new, ready, exit, sem, closer, flagDeadLock, resolver, partner>>
  BY <1>4 DEF ExchangePokemon, Trading, Running, IdleRunner, ends
<1>13. TradersTypes'
  BY <1>0, <1>10, <1>11, <1>12 DEF TradersTypes
<1>14. ClosedInv'
  <2>1. closer.pc # "drop"
    BY <1>0, <1>4 DEF ClosedInv
  <2> QED BY <1>0, <1>11, <1>12, <2>1 DEF ClosedInv, Dropping
<1>15. ResolverInv'
  <2>1. Trip(t2)'
    <3>1. HasTraded(t2)'
      BY <1>4, <1>10, <1>12 DEF HasTraded, Idling
    <3>2. resolver.pc = "unblock" => resolver.i \in DOMAIN blocked' /\ blocked'[resolver.i].id = t2.id
      BY <1>4, <1>8, <1>11 DEF Trip
    <3> QED BY <1>5, <1>8, <1>12, <3>1, <3>2 DEF Trip
  <2> QED BY <1>4, <1>8, <1>12, <2>1 DEF ResolverInv
<1>16. ASSUME NEW x \in Trainers PROVE TradersOneList(x)'
  <2>1. /\ TwiceOne(x)' = 0 /\ TwiceOne(x) = 0 /\ BetweenOne(x)' = 0 /\ BetweenOne(x) = 0
        /\ FreeOne(x)' = 0 /\ FreeOne(x) = 0
    BY <1>4, <1>12 DEF TwiceOne, BetweenOne, FreeOne, One
  <2>2. ExecOne(x)' = ExecOne(x)
    BY <1>4, <1>8, <1>10 DEF ExecOne
  <2>3. DropOne(x) = 0 /\ DropOne(x)' = 0
    BY <1>0, <1>4, <1>12 DEF ClosedInv, DropOne, One
  <2>4. UnblockOne(x)' = UnblockOne(x)
    BY <1>4, <1>11, <1>12 DEF UnblockOne, Trip, One
  <2>5. InLists(x)' = InLists(x)
    <3>1. Listed(blocked', x) = Listed(blocked, x)
      BY <1>0, <1>11, SameIds DEF TradersTypes
    <3> QED BY <1>12, <3>1 DEF InLists
  <2> QED BY <2>1, <2>2, <2>3, <2>4, <2>5 DEF InSearch, TradersOneList
<1> QED BY <1>12, <1>13, <1>14, <1>15, <1>16 DEF InSearch

-----------------------------------------------------------------------------
(* The invariant holds. *)

LEMMA TeamInit ==
  ASSUME ExchangeInit
  PROVE  BeforeSearch
<1>1. Init /\ resolver = [pc |-> "search", i |-> 1, j |-> 1] /\ finishDeadlock = 0
      /\ partner = [t \in Trainers |-> t]
  BY DEF ExchangeInit
<1>2. EndCore /\ ~flagDeadLock
  BY <1>1, InitBase, InitCounts, InitEnds DEF EndCore, Core, Init
<1>3. AvailableInv
  <2>1. \A i \in DOMAIN new : new[i].state = "AVAILABLE"
    BY <1>1, InitLists DEF NewTrainer
  <2>2. ready = <<>> /\ runner.pc = "ready"
    BY <1>1 DEF Init, IdleRunner
  <2> QED BY <2>1, <2>2 DEF AvailableInv
<1> QED BY <1>1, <1>2, <1>3 DEF BeforeSearch, Resolvers

LEMMA DisturbedStays ==
  ASSUME [TeamNext]_teamVars, running', ~disturbed'
  PROVE  running /\ ~disturbed
<1>1. CASE UNCHANGED teamVars
  BY <1>1 DEF teamVars, vars, ends, exchangeVars
<1>2. CASE Next /\ UNCHANGED exchangeVars
  BY <1>2 DEF Next, exchangeVars
<1>3. CASE running /\ Search
  BY <1>3 DEF Search, Pair, ReadBeyond, NobodyTrades
<1>4. CASE running /\ (MakeReady \/ Unblock \/ WaitTrade \/ PlaceTrader \/ FreeExec \/ PlacePartner)
  BY <1>4 DEF MakeReady, Unblock, WaitTrade, PlaceTrader, FreeExec, PlacePartner, Resolve
<1>5. CASE running /\ Traders
  BY <1>5 DEF Traders, MoveToPartner, ExchangePokemon, PartnerLost, exchangeVars
<1> QED BY <1>1, <1>2, <1>3, <1>4, <1>5 DEF TeamNext, Resolver

(* Before the search begins nobody resolves and nobody trades. *)
LEMMA NobodyTradesYet ==
  ASSUME BeforeSearch
  PROVE  ~Resolver /\ ~Trading
<1>1. ~Resolver
  BY DEF BeforeSearch, Resolver, Search, MakeReady, Unblock, WaitTrade, PlaceTrader, FreeExec,
         PlacePartner, Resolve
<1>2. ~Trading
  BY DEF BeforeSearch, AvailableInv, Trading, Running
<1> QED BY <1>1, <1>2

SearchStarts ==
  /\ EndCore /\ flagDeadLock /\ AvailableInv /\ resolver \in Resolvers /\ resolver.pc = "search"
  /\ partner \in [Trainers -> Trainers] /\ finishDeadlock = 0

LEMMA StartsInSearch == SearchStarts => InSearch
BY SearchBegins DEF SearchStarts

LEMMA BeforeSearchStep ==
  ASSUME BeforeSearch, [TeamNext]_teamVars
  PROVE  BeforeSearch' \/ InSearch'
<1>1. [Next]_vars /\ UNCHANGED exchangeVars
  BY NobodyTradesYet DEF TeamNext, teamVars, Traders, MoveToPartner, ExchangePokemon, PartnerLost
<1>2. EndCore' /\ AvailableInv'
  BY <1>1, EndCoreStep, NextKeepsAvailable DEF BeforeSearch, EndCore, Core
<1>3. resolver' = resolver /\ partner' = partner /\ finishDeadlock' = finishDeadlock
  BY <1>1 DEF exchangeVars
<1>4. CASE ~flagDeadLock'
  BY <1>2, <1>3, <1>4 DEF BeforeSearch
<1>5. CASE flagDeadLock'
  <2>1. SearchStarts'
    BY <1>2, <1>3, <1>5 DEF BeforeSearch, SearchStarts
  <2>2. SearchStarts' => InSearch'
    BY StartsInSearch, PTL
  <2> QED BY <2>1, <2>2
<1> QED BY <1>4, <1>5

LEMMA InSearchStep ==
  ASSUME InSearch, [TeamNext]_teamVars, running', ~disturbed'
  PROVE  InSearch'
<1>1. CASE Next /\ UNCHANGED exchangeVars
  <2>1. ~StartSearch /\ ~Finish
    BY DEF InSearch, StartSearch, Finish
  <2> QED BY <1>1, <2>1, CloserInSearch, RunnerInSearch, AppearingInSearch DEF Next
<1>2. CASE Resolver
  BY <1>2, SearchInSearch, MakeReadyInSearch, UnblockInSearch, WaitTradeInSearch,
     PlaceTraderInSearch, FreeExecInSearch, PlacePartnerInSearch DEF Resolver
<1>3. CASE Traders
  <2>1. ~PartnerLost
    BY TraderMeets DEF PartnerLost
  <2> QED BY <1>3, <2>1, MoveToPartnerInSearch, ExchangePokemonInSearch DEF Traders
<1>4. CASE UNCHANGED teamVars
  <2>1. StaysThere
    BY <1>4 DEF teamVars, vars, lists, ends, StaysThere, InSearch, TradersTypes
  <2> QED BY <2>1, StayingKeeps
<1> QED BY <1>1, <1>2, <1>3, <1>4 DEF TeamNext

LEMMA ExchangeCoreStep ==
  ASSUME ExchangeCore, [TeamNext]_teamVars
  PROVE  ExchangeCore'
<1> SUFFICES ASSUME running', ~disturbed' PROVE BeforeSearch' \/ InSearch'
  BY DEF ExchangeCore
<1>1. running /\ ~disturbed
  BY DisturbedStays
<1> QED BY <1>1, BeforeSearchStep, InSearchStep DEF ExchangeCore

THEOREM TradersKept == TeamSpec => []ExchangeCore
<1>1. ExchangeInit => ExchangeCore
  BY TeamInit DEF ExchangeCore
<1>2. ExchangeCore /\ [TeamNext]_teamVars => ExchangeCore'
  BY ExchangeCoreStep
<1> QED BY <1>1, <1>2, PTL DEF TeamSpec

(* Nobody is lost or doubled by the exchanges either: the resolver's       *)
(* copies and removals, by a position or by an id that it found before     *)
(* others changed the lists, leave every trainer in one list.              *)
THEOREM TradersStayInOneList == TeamSpec => []TradersInOneList
<1>1. ExchangeCore => TradersInOneList
  <2> SUFFICES ASSUME ExchangeCore, running, ~disturbed, NEW t \in Trainers
               PROVE  Copies(t) = 1 + DropOne(t) + TwiceOne(t) - BetweenOne(t)
                                    + UnblockOne(t) + FreeOne(t)
    BY DEF TradersInOneList, DropOne, TwiceOne, BetweenOne, UnblockOne, FreeOne
  <2>1. CASE BeforeSearch
    <3>1. OneList(t) /\ ListedNumbers(t)
      BY <2>1, AreListed DEF BeforeSearch, EndCore, Core, Base, Sound, AllListed
    <3>2. UnblockOne(t) = 0 /\ FreeOne(t) = 0
      BY <2>1 DEF BeforeSearch, UnblockOne, FreeOne, One
    <3>3. Copies(t) = ExecOne(t) + InLists(t)
      BY <3>1 DEF Copies, ExecOne, InLists, ListedNumbers, One
    <3>4. Ones(t)
      BY AreOnes
    <3> QED BY <3>1, <3>2, <3>3, <3>4 DEF OneList, OneListOf, Ones
  <2>2. CASE InSearch
    <3>1. TradersOneList(t) /\ Tokens(t)
      BY <2>2, AreTokens DEF InSearch
    <3>2. Copies(t) = ExecOne(t) + InLists(t)
      BY <3>1 DEF Copies, ExecOne, InLists, Tokens, One
    <3> QED BY <3>1, <3>2 DEF TradersOneList
  <2> QED BY <2>1, <2>2 DEF ExchangeCore
<1> QED BY <1>1, TradersKept, PTL

(* What t goes for waits at its partner. *)
LEMMA PartnerThere ==
  ASSUME InSearch, NEW t \in TraderRecords, Meets(t, blocked, partner[t.id])
  PROVE  \E i \in DOMAIN blocked :
           /\ blocked[i].id = partner[t.id] /\ blocked[i].id # t.id
           /\ blocked[i].state = "DEADLOCK"
           /\ blocked[i].held[t.target.name] > 0 /\ t.held[blocked[i].target.name] > 0
<1>1. PICK i \in DOMAIN blocked : blocked[i].id = partner[t.id]
  BY DEF Meets
<1>2. PICK u : u = blocked[i]
  OBVIOUS
<1>3. Fits(t, u)
  BY <1>1, <1>2 DEF Meets
<1> DEFINE give == u.target.name
           h == t.held[give]
           all == Objectives[t.id][give]
<1>4. give \in Species /\ h > all
  BY <1>3 DEF Fits
<1>5. h \in Nat /\ all \in Nat
  BY <1>4, TotalsOfTeam, TraderParts
<1> HIDE DEF h, all
<1>6. h > 0
  BY <1>4, <1>5
<1> QED BY <1>1, <1>2, <1>3, <1>6 DEF Fits, h

(* Whoever goes to trade finds its partner where the search found it, with *)
(* what each is to give, however long the trip and whatever is planned,    *)
(* placed or dropped meanwhile.                                            *)
THEOREM TradersFindPartners == TeamSpec => []PartnerWaits
<1>1. ExchangeCore => PartnerWaits
  <2> SUFFICES ASSUME ExchangeCore, running, ~disturbed, OnItsWay
               PROVE  \E i \in DOMAIN blocked :
                        /\ blocked[i].id = partner[Trader.id] /\ blocked[i].id # Trader.id
                        /\ blocked[i].state = "DEADLOCK"
                        /\ blocked[i].held[Trader.target.name] > 0
                        /\ Trader.held[blocked[i].target.name] > 0
    BY DEF PartnerWaits
  <2>1. InSearch
    <3>1. ~BeforeSearch
      BY NobodyTradesYet DEF OnItsWay, BeforeSearch, AvailableInv
    <3> QED BY <3>1 DEF ExchangeCore
  <2>2. PICK w : w = Trader
    OBVIOUS
  <2>3. w \in TraderRecords /\ Meets(w, blocked, partner[w.id])
    <3>1. CASE Trading
      <4>1. PICK t : Travels(t) /\ Goes(t)
        BY <2>1, <3>1, TraderMeets
      <4> QED BY <2>2, <3>1, <4>1 DEF Travels, Goes, Trader
    <3>2. CASE ~Trading
      <4>1. PICK j \in DOMAIN ready : ready[j].state = "DEADLOCK"
        BY <3>2 DEF OnItsWay
      <4>2. ready # <<>>
        BY <4>1
      <4>3. PICK t : Travels(t) /\ (Queued(t) \/ Copied(t))
        BY <2>1, <4>2, WhoGoes
      <4>4. PICK q \in TraderRecords : SameTrainer(q, t) /\ ready = <<q>>
        BY <4>3 DEF Travels, Queued, Copied, SameTrainer
      <4>5. w = q
        <5> DEFINE P(i) == i \in DOMAIN ready /\ ready[i].state = "DEADLOCK"
        <5>1. w = ready[CHOOSE i \in DOMAIN ready : ready[i].state = "DEADLOCK"]
          BY <2>2, <3>2 DEF Trader
        <5>2. DOMAIN ready = {1} /\ ready[1] = q
          BY <4>4
        <5> QED BY <4>1, <5>1, <5>2
      <4>6. q.id = t.id
        BY <4>4 DEF SameTrainer
      <4>7. Meets(q, blocked, partner[t.id])
        BY <4>3, <4>4, MeetsAlike DEF Travels
      <4> QED BY <4>4, <4>5, <4>6, <4>7
    <3> QED BY <3>1, <3>2
  <2>4. \E i \in DOMAIN blocked :
          /\ blocked[i].id = partner[w.id] /\ blocked[i].id # w.id
          /\ blocked[i].state = "DEADLOCK"
          /\ blocked[i].held[w.target.name] > 0 /\ w.held[blocked[i].target.name] > 0
    BY <2>1, <2>3, PartnerThere
  <2> QED BY <2>2, <2>4
<1> QED BY <1>1, TradersKept, PTL

-----------------------------------------------------------------------------
(* What an exchange is good for. *)

Lacking(t) == [s \in Species |-> IF Objectives[t.id][s] > t.held[s]
                                 THEN Objectives[t.id][s] - t.held[s] ELSE 0]

LEMMA LackOf ==
  ASSUME NEW t \in TraderRecords
  PROVE  /\ Lack(t) = Total(Lacking(t))
         /\ Lacking(t) \in [Species -> Nat]
<1>1. ASSUME NEW n \in Int PROVE Max({0, n}) = IF n > 0 THEN n ELSE 0
  <2> DEFINE m == IF n > 0 THEN n ELSE 0
             S == {0, n}
  <2>1. m \in S /\ (\A y \in S : m >= y) /\ (\A x \in S : (\A y \in S : x >= y) => x = m)
    OBVIOUS
  <2> HIDE DEF m, S
  <2>2. Max(S) = m
    BY <2>1 DEF Max
  <2> QED BY <2>2 DEF m, S
<1>2. ASSUME NEW s \in Species
      PROVE  /\ Lacking(t)[s] \in Nat
             /\ Max({0, Objectives[t.id][s] - t.held[s]}) = Lacking(t)[s]
  <2> DEFINE a == Objectives[t.id][s]
             h == t.held[s]
  <2>1. a \in Nat /\ h \in Nat
    BY TotalsOfTeam, TraderParts
  <2>2. Lacking(t)[s] = IF a > h THEN a - h ELSE 0
    BY DEF Lacking
  <2> HIDE DEF a, h
  <2>3. a - h \in Int /\ (a > h <=> a - h > 0)
    BY <2>1
  <2>4. Max({0, a - h}) = IF a > h THEN a - h ELSE 0
    BY <1>1, <2>3
  <2>5. Lacking(t)[s] \in Nat /\ Max({0, a - h}) = Lacking(t)[s]
    BY <2>1, <2>2, <2>4
  <2> QED BY <2>5 DEF a, h
<1>3. [s \in Species |-> Max({0, Objectives[t.id][s] - t.held[s]})] = Lacking(t)
      /\ Lacking(t) \in [Species -> Nat]
  BY <1>2 DEF Lacking
<1> QED BY <1>3 DEF Lack

(* Who gets what it lacks for what it has too many of lacks one less. *)
LEMMA GetsWhatItLacks ==
  ASSUME NEW t \in TraderRecords, NEW want \in Species, NEW give \in Species,
         t.held[want] < Objectives[t.id][want], t.held[give] > Objectives[t.id][give]
  PROVE  Lack(Traded(t, want, give)) < Lack(t)
<1> DEFINE h == t.held
           a == Objectives[t.id]
<1>1. h \in [Species -> Nat] /\ a \in [Species -> Nat] /\ IsFiniteSet(Species)
  BY TotalsOfTeam, TraderParts, PlannerAssumption
<1>2. h[want] < a[want] /\ h[give] > a[give]
  OBVIOUS
<1>3. want # give /\ h[give] > 0
  <2> HIDE DEF h, a
  <2>1. h[want] \in Nat /\ h[give] \in Nat /\ a[want] \in Nat /\ a[give] \in Nat
    BY <1>1
  <2> QED BY <1>2, <2>1
<1>4. PICK t2 : t2 = Traded(t, want, give)
  OBVIOUS
<1>5. /\ t2 \in TraderRecords /\ t2.id = t.id
      /\ t2.held = [s \in Species |-> IF s = want THEN h[s] + 1
                                      ELSE IF s = give THEN h[s] - 1 ELSE h[s]]
  BY <1>3, <1>4, TradedTrader
<1> DEFINE f == Lacking(t)
           g == Lacking(t2)
<1>6. /\ Lack(t) = Total(f) /\ Lack(t2) = Total(g)
      /\ f \in [Species -> Nat] /\ g \in [Species -> Nat]
  BY <1>5, LackOf
<1>7. /\ \A s \in Species : f[s] = IF a[s] > h[s] THEN a[s] - h[s] ELSE 0
      /\ \A s \in Species : g[s] = IF a[s] > t2.held[s] THEN a[s] - t2.held[s] ELSE 0
  BY <1>5 DEF Lacking
<1> HIDE DEF f, g, h, a
<1>8. g[want] = f[want] - 1
  BY <1>1, <1>2, <1>5, <1>7
<1>9. ASSUME NEW s \in Species \ {want} PROVE g[s] = f[s]
  <2>1. CASE s = give
    BY <1>1, <1>2, <1>3, <1>5, <1>7, <2>1
  <2>2. CASE s # give
    BY <1>5, <1>7, <1>9, <2>2
  <2> QED BY <2>1, <2>2
<1>10. f \in [Species -> Int] /\ g \in [Species -> Int]
  BY <1>6
<1>11. Total(g) = Total(f) - f[want] + g[want]
  BY <1>1, <1>9, <1>10, TotalChange
<1>12. Total(f) \in Nat /\ f[want] \in Nat
  BY <1>1, <1>6, TotalNat
<1> QED BY <1>4, <1>6, <1>8, <1>11, <1>12

(* Who gives what it has too many of lacks no more than before. *)
LEMMA GivesWhatItSpares ==
  ASSUME NEW u \in TraderRecords, NEW want \in Species, NEW give \in Species, want # give,
         u.held[want] > Objectives[u.id][want]
  PROVE  Lack(Traded(u, give, want)) <= Lack(u)
<1> DEFINE h == u.held
           a == Objectives[u.id]
<1>1. h \in [Species -> Nat] /\ a \in [Species -> Nat] /\ IsFiniteSet(Species)
  BY TotalsOfTeam, TraderParts, PlannerAssumption
<1>2. h[want] > a[want] /\ h[want] > 0
  <2>1. h[want] > a[want]
    OBVIOUS
  <2> HIDE DEF h, a
  <2>2. h[want] \in Nat /\ a[want] \in Nat
    BY <1>1
  <2> QED BY <2>1, <2>2
<1>3. PICK u2 : u2 = Traded(u, give, want)
  OBVIOUS
<1>4. /\ u2 \in TraderRecords /\ u2.id = u.id
      /\ u2.held = [s \in Species |-> IF s = give THEN h[s] + 1
                                      ELSE IF s = want THEN h[s] - 1 ELSE h[s]]
  BY <1>2, <1>3, TradedTrader
<1> DEFINE f == Lacking(u)
           g == Lacking(u2)
<1>5. /\ Lack(u) = Total(f) /\ Lack(u2) = Total(g)
      /\ f \in [Species -> Nat] /\ g \in [Species -> Nat]
  BY <1>4, LackOf
<1>6. /\ \A s \in Species : f[s] = IF a[s] > h[s] THEN a[s] - h[s] ELSE 0
      /\ \A s \in Species : g[s] = IF a[s] > u2.held[s] THEN a[s] - u2.held[s] ELSE 0
  BY <1>4 DEF Lacking
<1> HIDE DEF f, g, h, a
<1>7. ASSUME NEW s \in Species PROVE g[s] <= f[s]
  <2>1. CASE s = give
    BY <1>1, <1>4, <1>6, <2>1
  <2>2. CASE s = want
    BY <1>1, <1>2, <1>4, <1>6, <2>2
  <2>3. CASE s # give /\ s # want
    BY <1>1, <1>4, <1>6, <2>3
  <2> QED BY <2>1, <2>2, <2>3
<1>8. f \in [Species -> Int] /\ g \in [Species -> Int]
  BY <1>5
<1>9. Total(g) <= Total(f)
  BY <1>1, <1>7, <1>8, TotalBelow
<1> QED BY <1>3, <1>5, <1>9

(* The count of the exchanges only grows with one. *)
LEMMA OnlyExchangesCount ==
  ASSUME TeamNext, finishDeadlock \in Int, finishDeadlock' > finishDeadlock
  PROVE  running /\ ExchangePokemon
<1>1. ~(Next /\ UNCHANGED exchangeVars)
  BY DEF exchangeVars
<1>2. ~(Search \/ MakeReady \/ Unblock \/ PlaceTrader \/ FreeExec \/ PlacePartner)
  BY DEF Search, MakeReady, Unblock, PlaceTrader, FreeExec, PlacePartner
<1>3. ~WaitTrade
  BY DEF WaitTrade
<1>4. ~(MoveToPartner \/ PartnerLost)
  BY DEF MoveToPartner, PartnerLost, exchangeVars
<1> QED BY <1>1, <1>2, <1>3, <1>4 DEF TeamNext, Resolver, Traders

(* An exchange helps whoever goes for it, and costs its partner nothing,   *)
(* unless the partner has more objectives: the search counts as many of    *)
(* them as the other one has.                                              *)
THEOREM ExchangesHelp == TeamSpec => ExchangeHelps
<1>1. ASSUME ExchangeCore, TeamNext, finishDeadlock' > finishDeadlock, ~disturbed
      PROVE  /\ Lack(exec'.trainer) < Lack(exec.trainer)
             /\ Size(blocked[PartnerAt]) <= Size(exec.trainer) =>
                  Lack(blocked'[PartnerAt]) <= Lack(blocked[PartnerAt])
  <2>1. running
    BY <1>1 DEF TeamNext, Next
  <2>2. finishDeadlock \in Int
    BY <1>1, <2>1 DEF ExchangeCore, BeforeSearch, InSearch, TradersTypes
  <2>3. ExchangePokemon
    BY <1>1, <2>2, OnlyExchangesCount
  <2>4. InSearch
    BY <1>1, <2>1, <2>3, NobodyTradesYet DEF ExchangeCore, ExchangePokemon
  <2>5. PICK t, u : Exchanged(t, u)
    BY <2>3, <2>4, WhoExchanges
  <2>6. PICK want, give : want = t.target.name /\ give = u.target.name
    OBVIOUS
  <2>7. PICK k : k = PartnerAt
    OBVIOUS
  <2>8. /\ t \in TraderRecords /\ u \in TraderRecords /\ exec.trainer = t
        /\ k \in DOMAIN blocked /\ blocked[k] = u /\ want # give
    BY <2>5, <2>6, <2>7 DEF Exchanged, Travels
  <2>9. /\ want \in Species /\ give \in Species
        /\ t.held[want] < Objectives[t.id][want] /\ t.held[give] > Objectives[t.id][give]
        /\ Size(u) <= Size(t) => u.held[want] > Objectives[u.id][want]
    BY <2>5, <2>6 DEF Exchanged, Fits
  <2>10. exec'.trainer = Traded(t, want, give) /\ blocked'[k] = Traded(u, give, want)
    <3>1. /\ exec' = [exec EXCEPT !.trainer = Traded(t, want, give)]
          /\ blocked' = [blocked EXCEPT ![k] = Traded(u, give, want)]
      BY <2>5, <2>6, <2>7 DEF Exchanged
    <3>2. exec \in [on : BOOLEAN, trainer : TraderRecords] /\ blocked \in Seq(TraderRecords)
      BY <2>4 DEF InSearch, TradersTypes
    <3> QED BY <2>8, <3>1, <3>2
  <2>11. Lack(exec'.trainer) < Lack(exec.trainer)
    BY <2>8, <2>9, <2>10, GetsWhatItLacks
  <2>12. Size(u) <= Size(t) => Lack(blocked'[k]) <= Lack(u)
    BY <2>8, <2>9, <2>10, GivesWhatItSpares
  <2> QED BY <2>7, <2>8, <2>11, <2>12
<1>2. ExchangeCore /\ [TeamNext]_teamVars =>
        [(finishDeadlock' > finishDeadlock /\ ~disturbed) =>
           LET t == exec.trainer  u == blocked[PartnerAt]
               t2 == exec'.trainer  u2 == blocked'[PartnerAt] IN
           /\ Lack(t2) < Lack(t)
           /\ Size(u) <= Size(t) => Lack(u2) <= Lack(u)]_teamVars
  BY <1>1
<1> QED BY <1>2, TradersKept, PTL DEF TeamSpec, ExchangeHelps

=============================================================================

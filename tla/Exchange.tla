------------------------------- MODULE Exchange -------------------------------
(***************************************************************************)
(* The Team once every trainer is full (Team/src/Team.c): the thread that  *)
(* waited for it, resolveAllDeadlocks, looks for two trainers of which one *)
(* holds too many of what the other lacks, and has the second one planned  *)
(* like any other: it is executed by the algorithm, goes where its partner *)
(* stands and trades a pokemon it does not need.  The thread then places   *)
(* both and begins again, until nobody can trade.                          *)
(*                                                                         *)
(* The order of a trainer's pokemons and objectives, which decides among   *)
(* several trades of one pair, is anybody's.  Behaviour that is undefined  *)
(* in C (an index past the end of a list) stops the process.               *)
(***************************************************************************)
EXTENDS Planner

VARIABLES
  resolver,        \* resolveDeadlock: [pc, i, j], positions in blocked
  partner,         \* scheduledTrainerId of each trainer
  finishDeadlock,  \* finishDeadlock_mutex
  disturbed        \* history: the search compared past the end of a list of
                   \* objectives, or found a copy that was still to be dropped

exchangeVars == <<resolver, partner, finishDeadlock, disturbed>>
teamVars == <<vars, exchangeVars>>

ExchangeInit ==
  /\ Init
  /\ resolver = [pc |-> "search", i |-> 1, j |-> 1]
  /\ partner = [t \in Trainers |-> t]
  /\ finishDeadlock = 0
  /\ disturbed = FALSE

-----------------------------------------------------------------------------
(* resolveDeadlock. *)

Deadlocked(i) == i \in DOMAIN blocked /\ blocked[i].state = "DEADLOCK"
Size(t) == Total(Objectives[t.id])

Lacks(t) == {s \in Species : t.held[s] < Objectives[t.id][s]}
Spares_Any(t) == {s \in Species : t.held[s] > 0}
Spares(t) == {s \in Species : t.held[s] > Objectives[t.id][s]}

(* Of the second trainer's objectives the search counts as many as the     *)
(* first one has: some of them, or all and what lies in memory behind.     *)
Beyond(t, u) == Size(t) > Size(u)
Counted(t, u, s) ==
  LET all == Objectives[u.id][s]  others == Size(u) - all IN
  IF Beyond(t, u) THEN all .. all + Size(t) - Size(u)
  ELSE {n \in 0 .. all : n <= Size(t) /\ Size(t) - n <= others}

(* What t may get from u for what.                                         *)
Trades(t, u) ==
  {s \in Lacks(t) : \E n \in Counted(t, u, s) : u.held[s] > n} \X Spares(t)
MayRefuse(t, u) ==
  Spares(t) = {} \/ \A s \in Lacks(t) : \E n \in Counted(t, u, s) : u.held[s] <= n

Pairs == {p \in (DOMAIN blocked) \X (DOMAIN blocked) :
            p[1] < p[2] /\ Deadlocked(p[1]) /\ Deadlocked(p[2])}
Before(p, q) == p[1] < q[1] \/ (p[1] = q[1] /\ p[2] < q[2])

(* Names are compared past the end of the second trainer's objectives.     *)
ReadsBeyond(p) ==
  LET t == blocked[p[1]]  u == blocked[p[2]] IN
  Beyond(t, u) /\ \E s \in Lacks(t) : u.held[s] > 0

Refused(ps) == \A p \in ps : MayRefuse(blocked[p[1]], blocked[p[2]])
Stale(ps) == closer.pc = "drop" \/ \E p \in ps : ReadsBeyond(p)

(* Two trainers are chosen; each keeps the pokemon it is to get. *)
Pair(p, want, give) ==
  LET earlier == {q \in Pairs : Before(q, p)} IN
  /\ Refused(earlier)
  /\ disturbed' = (disturbed \/ Stale(earlier \cup {p}))
  /\ partner' = [partner EXCEPT ![blocked[p[1]].id] = blocked[p[2]].id]
  /\ blocked' = [blocked EXCEPT ![p[1]].target = [name |-> want, pos |-> <<0, 0>>],
                                ![p[2]].target = [name |-> give, pos |-> <<0, 0>>]]
  /\ resolver' = [pc |-> "ready", i |-> p[1], j |-> p[2]]

(* What lies behind may not be the address of a name. *)
ReadBeyond ==
  /\ \E p \in Pairs : Refused({q \in Pairs : Before(q, p)}) /\ ReadsBeyond(p)
  /\ running' = FALSE
  /\ disturbed' = TRUE
  /\ UNCHANGED <<blocked, partner, resolver, flagDeadLock>>

NobodyTrades ==
  /\ Refused(Pairs)
  /\ disturbed' = (disturbed \/ Stale(Pairs))
  /\ resolver' = [resolver EXCEPT !.pc = "ended"]
  /\ UNCHANGED <<blocked, partner, ends>>

Search ==
  /\ flagDeadLock /\ resolver.pc = "search"
  /\ \/ /\ \E p \in Pairs : \E trade \in Trades(blocked[p[1]], blocked[p[2]]) :
             Pair(p, trade[1], trade[2])
        /\ UNCHANGED ends
     \/ ReadBeyond
     \/ NobodyTrades
  /\ UNCHANGED <<algorithm, new, ready, exit, exec, available, missing, sem, appeared,
                 closer, runner, finishDeadlock>>

Resolve(from, to) ==
  /\ resolver.pc = from
  /\ resolver' = [resolver EXCEPT !.pc = to]
  /\ UNCHANGED <<algorithm, new, available, missing, appeared, closer, runner, partner,
                 disturbed>>

(* planificateDeadlockTrainer: first a copy to the ready list, as planned  *)
(* trainers go, then the removal of the first of that id.                  *)
MakeReady ==
  /\ Resolve("ready", "unblock")
  /\ ready' = Append(ready, blocked[resolver.i])
  /\ Post("readyTrainer")
  /\ UNCHANGED <<blocked, exit, exec, ends, finishDeadlock>>

Position_Last(list, id) == Max({i \in DOMAIN list : list[i].id = id})
Position(list, id) == Min({i \in DOMAIN list : list[i].id = id})

Unblock_Second ==
  /\ Resolve("unblock", "wait")
  /\ blocked' = RemoveAt(blocked, resolver.j)
  /\ UNCHANGED <<ready, exit, exec, sem, ends, finishDeadlock>>
Unblock ==
  /\ Resolve("unblock", "wait")
  /\ blocked' = RemoveAt(blocked, Position(blocked, blocked[resolver.i].id))
  /\ UNCHANGED <<ready, exit, exec, sem, ends, finishDeadlock>>

WaitTrade ==
  /\ Resolve("wait", "place")
  /\ finishDeadlock > 0
  /\ finishDeadlock' = finishDeadlock - 1
  /\ UNCHANGED <<ready, blocked, exit, exec, sem, ends>>

(* The one that was executed is placed, then its partner, one position     *)
(* before where it was found, which is past the end of a list from which   *)
(* a copy was dropped meanwhile.                                           *)
PlaceTrader ==
  /\ Resolve("place", "free")
  /\ IF HoldsOthers(exec.trainer)
     THEN blocked' = Append(blocked, exec.trainer) /\ UNCHANGED <<exit, sem>>
     ELSE /\ exit' = Append(exit, exec.trainer)
          /\ Post("exitCount")
          /\ UNCHANGED blocked
  /\ UNCHANGED <<ready, exec, ends, finishDeadlock>>

FreeExec ==
  /\ Resolve("free", "partner")
  /\ exec' = [exec EXCEPT !.on = FALSE]
  /\ Post("execTrainer")
  /\ UNCHANGED <<ready, blocked, exit, ends, finishDeadlock>>

PlacePartner_WhereItWas ==
  /\ Resolve("partner", "search")
  /\ LET j == resolver.j IN
     IF j \in DOMAIN blocked /\ ~HoldsOthers(blocked[j])
     THEN /\ exit' = Append(exit, blocked[j])
          /\ Post("exitCount")
          /\ blocked' = RemoveAt(blocked, j)
     ELSE UNCHANGED <<blocked, exit, sem>>
  /\ UNCHANGED <<ready, exec, ends, finishDeadlock>>
PlacePartner_Stays ==
  /\ Resolve("partner", "search")
  /\ LET j == resolver.j - 1 IN
     IF j \in DOMAIN blocked /\ ~HoldsOthers(blocked[j])
     THEN exit' = Append(exit, blocked[j]) /\ Post("exitCount")
     ELSE UNCHANGED <<exit, sem>>
  /\ UNCHANGED <<blocked, ready, exec, ends, finishDeadlock>>
PlacePartner ==
  LET j == resolver.j - 1 IN
  /\ Resolve("partner", "search")
  /\ \/ /\ j \notin DOMAIN blocked
        /\ running' = FALSE
        /\ UNCHANGED <<blocked, exit, sem>>
     \/ /\ j \in DOMAIN blocked /\ ~HoldsOthers(blocked[j])
        /\ exit' = Append(exit, blocked[j])
        /\ Post("exitCount")
        /\ blocked' = RemoveAt(blocked, j)
        /\ UNCHANGED running
     \/ /\ j \in DOMAIN blocked /\ HoldsOthers(blocked[j])
        /\ UNCHANGED <<blocked, exit, sem, running>>
  /\ UNCHANGED <<ready, exec, flagDeadLock, finishDeadlock>>

Resolver == \/ Search \/ MakeReady \/ Unblock \/ WaitTrade \/ PlaceTrader \/ FreeExec
            \/ PlacePartner

-----------------------------------------------------------------------------
(* executeClock of a trainer that goes to trade. *)

Trading == Running /\ exec.trainer.state = "DEADLOCK"
PartnerBlocked == \E i \in DOMAIN blocked : blocked[i].id = partner[exec.trainer.id]
PartnerAt == Position(blocked, partner[exec.trainer.id])
Met == Distance(exec.trainer, blocked[PartnerAt]) = 0

MoveToPartner ==
  /\ Trading /\ PartnerBlocked /\ ~Met
  /\ Advance(blocked[PartnerAt].pos)
  /\ UNCHANGED <<algorithm, lists, available, missing, sem, appeared, closer, ends,
                 exchangeVars>>

(* exchangePokemon: each is given what the other has too many of. *)
Traded(t, gets, gives) == [t EXCEPT !.held[gets] = @ + 1, !.held[gives] = @ - 1]

ExchangePokemon ==
  LET want == exec.trainer.target.name
      give == blocked[PartnerAt].target.name IN
  /\ Trading /\ PartnerBlocked /\ Met
  /\ exec' = [exec EXCEPT !.trainer = Traded(@, want, give)]
  /\ blocked' = [blocked EXCEPT ![PartnerAt] = Traded(@, give, want)]
  /\ finishDeadlock' = finishDeadlock + 1
  /\ runner' = IdleRunner
  /\ UNCHANGED <<algorithm, new, ready, exit, available, missing, sem, appeared, closer,
                 ends, resolver, partner, disturbed>>

(* A partner that is not there is read at a position that was never set.   *)
PartnerLost ==
  /\ Trading /\ ~PartnerBlocked
  /\ running' = FALSE
  /\ UNCHANGED <<algorithm, lists, exec, available, missing, sem, appeared, closer,
                 runner, flagDeadLock, exchangeVars>>

Traders == MoveToPartner \/ ExchangePokemon \/ PartnerLost

-----------------------------------------------------------------------------
TeamNext ==
  \/ Next /\ UNCHANGED exchangeVars
  \/ running /\ (Resolver \/ Traders)

TeamSpec ==
  /\ ExchangeInit /\ [][TeamNext]_teamVars
  /\ WF_teamVars(running /\ Closer /\ UNCHANGED exchangeVars)
  /\ WF_teamVars(running /\ ((Runner /\ UNCHANGED exchangeVars) \/ Traders))
  /\ WF_teamVars(running /\ StartSearch /\ UNCHANGED exchangeVars)
  /\ WF_teamVars(running /\ Finish /\ UNCHANGED exchangeVars)
  /\ WF_teamVars(running /\ Resolver)
  /\ \A p \in Arrivals : WF_teamVars(running /\ AddAvailable(p) /\ UNCHANGED exchangeVars)
-----------------------------------------------------------------------------
Lack(t) == Total([s \in Species |-> Max({0, Objectives[t.id][s] - t.held[s]})])

(* Whoever goes to trade finds its partner where the search found it,      *)
(* waiting with what it was to give, however long the trip and whoever is  *)
(* placed, dropped or planned meanwhile: partner and position are looked   *)
(* up again by id, and a partner that had left the list would be read past *)
(* its end.                                                                *)
OnItsWay == Trading \/ \E i \in DOMAIN ready : ready[i].state = "DEADLOCK"
Trader == IF Trading THEN exec.trainer
          ELSE ready[CHOOSE i \in DOMAIN ready : ready[i].state = "DEADLOCK"]

PartnerWaits ==
  running /\ OnItsWay /\ ~disturbed =>
    \E i \in DOMAIN blocked :
      /\ blocked[i].id = partner[Trader.id] /\ blocked[i].id # Trader.id
      /\ blocked[i].state = "DEADLOCK"
      /\ blocked[i].held[Trader.target.name] > 0
      /\ Trader.held[blocked[i].target.name] > 0

(* Through exchanges too a trainer is in one list: it is copied to where it *)
(* goes before it is removed from where it was, by the position or the id  *)
(* that the search found, while others add to and remove from the lists.   *)
TradersInOneList ==
  running /\ ~disturbed =>
    \A t \in Trainers :
      Copies(t) = 1 + One(closer.pc = "drop" /\ BeingDropped = t)
                    + One(runner.pc \in {"remove", "release", "giveWay"} /\ exec.trainer.id = t)
                    - One(runner.pc = "requeue" /\ exec.trainer.id = t)
                    + One(resolver.pc = "unblock" /\ blocked[resolver.i].id = t)
                    + One(resolver.pc = "free" /\ exec.trainer.id = t)

(* An exchange helps: what the two together lack falls.  Only a partner    *)
(* with more objectives than the one that goes may be left lacking more,   *)
(* since the search counts as many of them as the other one has.           *)
ExchangeHelps ==
  [][ (finishDeadlock' > finishDeadlock /\ ~disturbed) =>
        LET t == exec.trainer  u == blocked[PartnerAt]
            t2 == exec'.trainer  u2 == blocked'[PartnerAt] IN
        /\ Lack(t2) < Lack(t)
        /\ Size(u) <= Size(t) => Lack(u2) <= Lack(u) ]_teamVars

(* A team that caught what it wants ends, however its pokemons lie: each   *)
(* round finds a pair that can trade until nobody needs one, unless the    *)
(* search read past a list.                                                *)
RightCatch == \A s \in Species : missing[s] = 0

DeadlockResolved == (flagDeadLock /\ RightCatch) ~> (~running \/ disturbed)
=============================================================================

# Verification of Delibird

TLA+ models of the *Delibird* processes (`src/Broker`, `src/GameCard`,
`src/Team`, `src/GameBoy`, `src/SharedLibrary`), the TLC configurations that
check them on small instances, and theorems about them with proofs for TLAPS.
Every definition is translated from the C source; `PROJECT.json` (`map`) names
the lines each one stands for.

## The system

```
            publish / subscribe / acknowledge (TCP, one package per message)
  GameBoy ------------------------------+-------------------- GameBoy (direct)
                                        v                        |       |
  Team  <--- APPEARED LOCALIZED CAUGHT  Broker  NEW CATCH GET ---> GameCard
     \-----> GET CATCH ------------->  (cache)  <---- APPEARED LOCALIZED CAUGHT
```

| Component | State | Operations | Hard behaviour | What makes it correct |
|---|---|---|---|---|
| Broker: message cache (`CacheMemory.c`) | `partitions`, `parent_partitions`, `full_memory`, `cached_messages`, the id counters, `mutex_saving` | save, read, stamp, evict (FIFO, LRU), consolidate, compact, split (dynamic partitions or buddy system) | long sequences of saves and evictions, lists whose order carries meaning, a search that decides with values read before it | partitions never share or lose bytes; what is read is what was saved; the right message is evicted; every save ends |
| Broker: delivery (`Broker.c`) | the queues' subscriber lists, the id counter, sent and acknowledged marks of each cached message, descriptors, detached threads | accept, subscribe, publish, send, acknowledge, remove a client | two mutexes and many unlocked accesses; descriptors that are closed and handed out again; threads that read one socket in any order; a client that leaves at any moment | a subscriber is given each message once, and is not missed; a client that is there stays subscribed; threads end |
| GameCard: operations on a file (`GameCard.c`) | directory, `metadata.bin` with its OPEN flag, blocks, one semaphore per pokemon | NEW, GET, CATCH, each in its thread; mount | a lock in a file guarded by a lock in memory; retries; creation and removal; a stop inside an operation | one operation has a file open; nothing is lost; the semaphore comes back; operations end |
| GameCard: blocks and bitmap | `bitArray`, its mapped copy, block files, the lists of blocks in the metadata | find a free block, take it, release it | release without the mutex that taking holds; a full disk; a stop between releasing blocks and saving the list | a block belongs to at most one file, which keeps its data and has the blocks its size needs, after a restart too |
| GameCard: subscriptions and replies | one subscription per queue and thread | subscribe, receive, acknowledge, process, reply, reconnect | a message acknowledged before it is processed; a reply when the broker is away | an answer says what was done to the file |
| Team: planning (`Team.c`) | trainers in new, ready, exec, blocked and exit; a semaphore per list; the algorithm | FIFO, RR, SJF-SD, SJF-CD; scheduling of the closest trainer | counters of semaphores kept in step with lists by hand | a trainer is in one list; one executes; what waits is planned |
| Team: catching and messages | pending requests, pokemons to get, waiting CATCH ids | GET, CATCH, APPEARED, LOCALIZED, CAUGHT, default answers without broker | an answer before its id is registered; the answer applied to the trainer that happens to execute | a CAUGHT reaches the trainer that waits for it; nobody gets what was not handed out |
| Team: deadlocks | what each full trainer holds and needs | detect, plan the trip, exchange, place both | circular waits of several trainers; positions kept while lists change | an exchange helps; a team that caught what it wants ends |
| GameBoy (`GameBoy.c`) | none | send one message, or subscribe for a number of seconds | leaves while it is being served | - |
| SharedLibrary: comms | none | packages, serialization | a package read in three calls by several threads of one socket; a closed connection taken for a package | a package is read whole by one thread |
| SharedLibrary: commons | lists, dictionaries, configuration, log | vendored general-purpose library | - | - |

Components talk over TCP (one connection for each published message, one for
each subscription) and share no memory. Inside a process threads share
global lists; the broker's cache is guarded by `mutex_saving`, the handling of a
subscription or message by `mutex_handle_message`, and the removal of a client
by nothing.

## Modules

| Module | What it is |
|---|---|
| `CacheMemory` | the cache: one action per step of `save_message` and of the reads |
| `MessageStore` | what the cache promises: messages are kept until room is needed, oldest given up first under FIFO, never more than the memory |
| `MCCacheMemory` | `CacheMemory` for TLC, and the refinement mapping to `MessageStore` |
| `CacheMemory_proofs` | type correctness of the cache, the inductive invariants of dynamic partitioning, its theorems and the refinement of `MessageStore`, proved |
| `PokemonFile_proofs`, `BlockBitmap_proofs`, `Broker_proofs`, `Planner_proofs`, `Exchange_proofs`, `Catching_proofs` | the inductive invariants and theorems of the modules they are named for |
| `ListTheorems` | lemmas several of them share: least numbers, sums over finite sets, sequences that lose an element |
| `Broker`, `MCBroker` | connections, descriptors, subscriber lists, sender threads, acknowledgements, removal of clients |
| `PokemonFile`, `MCPokemonFile` | the Game Card's NEW, GET and CATCH on the file of one pokemon |
| `BlockBitmap`, `MCBlockBitmap` | the Game Card's blocks: bits, mapped copy, block files, lists in the metadata |
| `Planner`, `MCPlanner` | the Team's lists of trainers, the choice of the closest one, FIFO, RR and both SJF, catches without a broker |
| `Exchange`, `MCExchange` | `Planner` composed with the thread that resolves deadlocks |
| `Catching`, `MCCatching` | `Planner` composed with the Team's messages, a broker seen from outside and a GameCard that answers |

In every module a name with an underscore (`Save_Open`, `OffsetAt_OneShort`) is
a deliberate mistake in the definition that follows it. No specification uses
it. It is put in the definition's place to see that a property notices.
`PROJECT.json` (`mutants`) pairs each property of each run with one.

### CacheMemory and the code

The list `partitions` is a function from partition ids to records with a `rank`:
list order is rank order, and `list_add` takes `nextRank`. `mutex_saving` is held
by `save_message` from end to end, so `pc` is the place of the one thread inside
it, and `save` holds its locals (the busy count read before the loop, the loop
counter, the chosen partition). The actions are the pieces of
`find_empty_partition_of_size` (`FindFits`, `FindNothing`, `Evict`, `Retry...`,
`Compact`, `Reselect...`), of the two consolidations (`ConsolidateDynamic`,
`ConsolidateBuddies`, `NoBuddyLeft`), and of `save_body_in_partition` (`TakePartition`,
`CarvePartition`, `SplitBuddy`, `Publish`). `UpdateClockOn` stands for the
reads, which matter to the cache because they stamp partitions. The bytes of
`full_memory` hold the number of the message whose content they are, so compaction's
copy and every `memcpy` are modelled byte by byte.

### Broker and the code

A connection (numbered in the order of `accept`) and its descriptor are
different things: descriptors are handed out again, lowest first, and the broker
knows clients by descriptor only. `serving` has the thread in
`serve_client` and `recive_message` of each connection, `senders` the detached
threads of `queue_handler_send_message`, each with a `pc`. The steps end where
another thread can see a difference: at each mutex, at each look at a list that
is not guarded (`WalkOn` and `TakeSuscriptor` are the two `list_get`s of one
round), and between the two halves of `RemoveClient`. `ProcessMessage` uses the
cache as `MessageStore` describes it: any older messages may go when one
is saved. It does not INSTANCE `CacheMemory`, whose state would
multiply with the threads'. A receive on a connection whose client left returns 0,
which the code takes for a package: `Garbage` is every outcome of that
uninitialized package. The clients' side (`ClientAck`, `ClientClose`) is the code
of GameCard and GameBoy; a queue outside `AckedQueues` has Team as
its subscriber, which does not acknowledge.

### PokemonFile and the code

One pokemon: its directory, its OPEN flag, the lines of its file, its semaphore,
and the operations, each a thread with a `pc`. `Wait`, `ReadFlag`, `SetFlag` and
`ReadFile` are the retry loop of `read_metadata_file`. `WorkNew`,
`WorkGet` and `WorkCatch` choose what `modify_poke_file`, the GET and
`catch_a_pokemon` do with what was read; `Rewrite`, `Save`, `RemoveFile` and
`RemoveDirectory` write it; `Close` writes OPEN=N. `Create`, `WriteFile` and
`Post` are `create_poke_file`. `Kill` and `Restart` lose threads and semaphores,
never the disk. A missing `metadata.bin` that is read ends the process
(`read_metadata` gives NULL, which is dereferenced).

The amounts are numbers, but writing one over another in place is modelled by
what it does to the text (`WrittenOver`: 9 over 10 reads back as 90), and a
coordinate is found as a substring (`Contains`).

The code has paths on which the OPEN flag does not do its work. They are
part of the model and leave a mark in the history variable `faults`:

| mark | what happened | source |
|---|---|---|
| `leftOpen` | a CATCH that only decreases an amount, or finds no line, returns without OPEN=N | `GameCard.c:533`, `:612` |
| `early` | an amount that grew by a digit was saved with OPEN=N before the delay and the close | `GameCard.c:721` |
| `removed` | the last CATCH removed the file, without the semaphore's protection | `GameCard.c:596` |
| `recreated` | a NEW made the file again and posts the semaphore of the removed one | `GameCard.c:836` |
| `shrunk` | an amount lost a digit and was written over the old one | `GameCard.c:1422` |
| `mistaken` | the line found is another coordinate's | `GameCard.c:525`, `:700` |
| `stoppedInside` | the process ended while an operation had the file open or was making it | `GameCard.c:1893` |
| `crashed` | the process read a file that is not there | `GameCard.c:1171` |

Each property says which marks it excludes. None can be taken out: without any
one of them TLC finds the property violated. (No document or
comment says otherwise of these paths, so they are hazards here and not
findings.)

### BlockBitmap and the code

Operations on different pokemons meet at the bitmap; those on one pokemon are kept
apart by its file (`PokemonFile`), so there is one operation per pokemon at a time,
`op[p]`, with the fields of its `t_file_metadata`. An operation is seen by what it
does to the size of the file: `AddLine` (a NEW at a new place) asks for what
`get_amount_of_blocks` says is missing, `RemoveLine` (a CATCH of the last pokemon of a
place) gives every block back and asks again for what the rest needs. `Lock`,
`Search`, `TurnBitOn` and `Unlock` are one round of `Metadata_File_Add_Blocks`,
`RemoveBlock`, `TurnBitOff` and `NextBlock` one of `delete_block_file`. A bit is set and cleared
as the compiled `|=` and `&=` do it, a load and a store of its byte, and the copy to the mapped
file is a step of its own. `Restart` reads the bits back from the mapped file and leaves the file
whose operation was stopped closed for ever (`unfinished`, `PokemonFile`'s `stoppedInside`).

Two things make every claim void, and stop the exploration (`Sound`): `torn`, a byte stored
over another thread's change (`turn_bit_off` runs without `mutexBitArray`), and `past`, a
search that ran off the bitmap. TLC reaches both. What is checked is that there is no
third way.

### Planner and the code

The Team while the broker cannot be reached (`connectBroker` gives -1), when
`catchPokemon` succeeds by default and pokemons come from a Game Boy. `new`,
`ready`, `blocked`, `exit` and `exec` are `statesLists`; an element is a copy of a trainer, as in
the code, so a trainer is for a moment in two lists. `sem` holds the
semaphores. `closer` is the thread of `startCloseScheduling`: `WaitTrainer`, `WaitPokemon` and
`LockAvailable` take its three tokens, `Look` and `Choose` are the two places where
`scheduleByDistance` reads the lists, `Plan` and `Drop` the two where
`getClosestTrainer` changes them. `runner` is the thread of `startAlgorithmScheduling`,
with one step per clock (`Move`) and four for the end of a catch (`Catch`,
`Place`, `Release`, `PostPlaced`). The estimates of SJF are kept in parts of a clock (`Scale`): the code's are
floats, which it compares as they are when it decides to go on (`GoesOn`) and cut to whole
clocks when it chooses (`Best`). With nobody ready SJF-CD reads the place the
trainer itself was taken from; `GoesOn` then holds. `StartSearch` and `Finish` take at once what `resolveAllDeadlocks`
and `finishTeam` take one by one: nobody else takes those posts.

One addition or removal is a step. The code reallocates a list outside the
semaphore that guards its count, so that another thread may read freed
memory: that is a hazard, not a part of the model. The counters of clocks and of context
switches are only logged and are left out.

The model shows two things no property can claim. Two trainers may go for one
missing pokemon (one starts to execute between `Look` and `Choose`, or RR
has it in no list). And the token of a pokemon that nobody can be given
now is not given back, so that a team that needs it waits until another one
appears. The properties say what holds in spite of that: `RoomIsMissing`,
`PlannedCatches`.

### Exchange and the code

`resolver` is the thread that ran `resolveAllDeadlocks`, with the positions `i` and `j` of the pair it
found, which it keeps while the lists change. The six nested loops of `resolveDeadlock` are
one step, `Search`: they read lists that nobody else changes by then, but for a copy that
`closer` may still have to drop. The loops find the first pair, in list order, of which one
lacks what the other holds too many of and holds too many of something itself; what it gives may be
anything. The search counts the second trainer's objectives only up
to the number of the first one's (`Team.c:196`): with fewer it
counts some of them (`Counted`), with more it reads past the list (`ReadsBeyond`), which may end the
process or count anything. The history variable `disturbed` marks the runs in which it did.
Then one action for each change: `MakeReady` and `Unblock` are
`planificateDeadlockTrainer`, `MoveToPartner` and `ExchangePokemon` happen in `runner`'s
thread under the algorithm that plans, `PlaceTrader`, `FreeExec` and `PlacePartner` are what the
resolver does when it is woken. A partner that is no longer in the list is read through an
index that was never set (`PartnerLost`): the process ends, and `PartnerWaits` says
that it does not come to that.

### Catching and the code

The Team of `Planner` while the broker can be reached, the broker, and GameCard. The
broker is what `Broker` shows it to be for its clients, without its threads: ids in order
of arrival, a message to who is subscribed and to who subscribes later, and, when a connection
is given the descriptor of the last one, without what that one was sent (`Subscribe`). Ids
and deliveries travel on different connections, so the answer may come before the id it
answers is known.

`main` is the Team's main until it starts the other threads (`requestNewPokemon` for each missing
name); then `runner` asks (`AskBroker`, `SendCatch`, `RegisterCatch`, `Asked` are the four steps of
`catchPokemon`), or catches by default when the broker is away (`CatchDefault`, with
`Planner`'s actions). `threads` has the threads that process a message: on the Team's side the two
of `processMessageLocalized` that touch the list (`LocalizedLock`, `LocalizedAdd`) and the
steps of `processMessageCaught`, between which other threads change the blocked list (`Apply`,
`ExitCaught`, `DropCaught`, `Refuse`). GameCard's operation is one step (`CardLooks`,
`CardCatches`), since `PokemonFile` shows how operations exclude one another, and so is its
reply. A file that a CATCH leaves open answers nothing afterwards (`leftOpen`). The files hold
pokemons that may appear (`StartStock`), and what others catch of them is counted by
name (`taken`), so that the books of each name can be compared.

An answer that removes a trainer from the blocked list may do so behind the position that
`getClosestTrainer` keeps. That function can then find nobody in either list; it reads the
list at -1, which is undefined, and the model lets that thread go no further (`HasChoice`).
`MissesWhatItDidNotGet` is stated for each name, and allows for `removeFromMissingPkms`,
which does not count below nothing.

The faults (`Faults`, at most one in a behaviour) are those the code handles: the broker
ends and starts again with nothing cached and its ids from the first, so that an id is given twice; a
subscription is cut and taken up again. `mishaps` records them, and what the code does wrong in
consequence of them or of the order of messages:

| mark | what happened | source |
|---|---|---|
| `outage`, a queue | the fault | `Broker.c`, `Team.c:613` |
| `unknown` | an answer whose id nobody registered yet: ignored | `Team.c:775`, `:690` |
| `twice` | a message delivered again after a new subscription | `Team.c:625` |
| `moved` | the blocked list was shortened while a thread kept a position in it | `Team.c:783`, `:1523` |
| `refused` | an answer that says no: the trainer that executes, not the one that asked, is made available | `Team.c:806` |

As with the files, each property names the marks it excludes.

## Runs

| Run | Question | Bounds |
|---|---|---|
| `cache_dynamic_fifo` | does the memory stay well formed under dynamic partitioning, and does the cache implement `MessageStore`? | 5 messages of 1, 2, 3 or 5 bytes in 8 |
| `cache_dynamic_lru` | best fit, LRU, reads in between: content, victim, end of each save | 4 messages, compaction every 2 evictions, a length equal to the memory and one above it |
| `cache_buddy_fifo` | does the buddy system stay one, is all it looks up there, and does it implement `MessageStore`? | 6 messages needing 1, 2, 4 or 8 bytes of 8, or more than there are |
| `broker_subscribers` | is a subscriber served once, and never missed, whatever comes and goes? | 2 subscribers, 1 publisher, 1 client that leaves without a request |
| `broker_senders_end` | is what was listed under the lock still cached when it is read without it, and do the sender threads end? | 1 subscriber of either of 2 queues, of which one acknowledges and one does not, 2 messages |
| `file_operations` | exclusion, content, flag and semaphore of a file; do operations end? | 3 operations, 2 coordinates, a file of amount 1, a NEW of 9, one restart |
| `team_planning` | do the lists agree with the semaphores, is each trainer in one list, is there room for what is missing, and when does the search for deadlocks start? | 2 trainers, room for 3 pokemons, 4 that appear; FIFO, RR with a quantum of 1, SJF-SD and SJF-CD |
| `team_exchange` | does the search find who can trade, does an exchange help, is what is planned done, and does the team end? | 3 trainers, room for 4 pokemons more, 4 that appear, RR with a quantum of 1 |
| `catching` | does an answer reach the trainer that waits for it, and do the Team and GameCard agree about what was caught? | 2 trainers, one pokemon of each of two names, others that catch one of them, one fault: the broker ends, or the subscription to CAUGHT is cut |
| `card_blocks` | does a block belong to one file, with its data, after a restart too? | 2 pokemons, files of up to 2 lines of 3 characters, blocks of 2, 5 blocks whose 4 bits are 2 bytes of 2 bits, one restart |

Why the bounds are enough to be interesting. In the cache the policy that chooses a victim does not
look at the memory scheme, so LRU is run with dynamic partitioning only, and
`FRECUENCIA_COMPACTACION = -1` is the rule the buddy system always uses. 8 bytes and these lengths
reach every branch: merges on either side and on both, exact fits, splits to
every depth, repeated compaction, an empty trailing partition after compaction of a
full memory. In the broker, two subscribers are what a removal needs to disturb a walk,
two messages what it takes for two threads to swap acknowledgements, and
the silent client is what makes a descriptor free again for a later one. In
the file, three operations are what it takes to remove and remake a file
with one more operation looking on; amounts 1 and 9 add up to 10, which CATCH takes back to 9, so
both changes of the number of digits occur. In the Team, a trainer with room for two
goes through the blocked list, one pokemon too many is what overplanning
needs, and some orders end with every trainer satisfied and some with a deadlock. Three
trainers are what a search needs to pass over one who has nothing to give. In `catching` the second
trainer is what an answer can be given to by mistake. Its amounts are 1, so that a CATCH that
leaves a file open (`leftOpen`) is not reached there; `file_operations` reaches it. Four bits
let both files hold blocks of one byte of the bitmap and still run out of blocks.

`CHECK_DEADLOCK FALSE` appears where the system may stop: bounded clients that have all
gone, a crashed process, operations that all ended, a team without a pokemon to catch,
a bitmap that is torn.

### Disagreements found

Two runs expect a violation, each of a comment in the code:

* `cache_frequency_zero`: "0 frequency does not make sense, so we de-activate
  compaction_frequency also on 0" (`CacheMemory.c:212`), but the condition tests only -1.
  With 0 nothing is ever evicted.
* `broker_reused_descriptor`: "GetAllMessagesFromQueue that were not sent to him"
  (`Broker.c:230`), but who was sent a message is remembered by descriptor. A client
  given the descriptor of one that left misses what the other was sent.

The broker's other properties speak of connections that are the first on their
descriptor (`FirstOnItsDescriptor`), because the last disagreement defeats
all of them for the others.

## Fairness

* `CacheMemory!FairSpec`: weak fairness of the thread in `save_message`. It holds the
  only mutex it needs and blocks on nothing.
* `Broker!FairSpec`: weak fairness of threads and of the clients that acknowledge.
  `SendersEnd` further assumes that the process runs and that no descriptor
  was given out twice, and claims it only of clients that acknowledge: the Team never does,
  and its sender threads wait until it disconnects.
* `PokemonFile!FairSpec`: weak fairness of each thread, strong fairness of what takes
  the semaphore. An operation that retries sleeps `TIEMPO_DE_REINTENTO_OPERACION` seconds
  between attempts, so it does not hold the others off. With weak fairness alone
  TLC finds the behaviour in which it does. Nothing is assumed of arriving messages,
  stops or restarts.
* `Exchange!TeamSpec`: weak fairness of each thread of the Team, `closer`, `runner`, `resolver`,
  the two that wait for everybody, and the threads that put a pokemon in the list of
  the available ones. `closer` and those threads alternate on one semaphore that none holds
  across a wait. That a pokemon appears at all is not assumed by the properties: they
  say what follows once a pokemon is given to a trainer, or the trainers are full.
* `Catching` and `BlockBitmap` state safety only.

## Theorems

TLAPS proves these for every value of the constants that satisfies the module's
assumption. The assumptions are `CacheAssumption`, `FileAssumption`,
`BlockBitmapAssumption`, `BrokerAssumption`, `PlannerAssumption` and `CatchingAssumption`, which give the
constants their types and say what the configuration files are (an objective larger than what a trainer
starts with, trainers numbered from 0), and `PowerAssumption` (the largest
power of two in a number lies between 1 and the number; the provers have no exponentials). TLC
evaluates all of them in each run.

| Module | Theorem | Statement: `Spec => []` ... |
|---|---|---|
| `CacheMemory_proofs` | `TypeCorrect` | `TypeOK`, both memory schemes |
| | `DynamicDisjoint` | `PartitionsDisjoint`, dynamic partitioning |
| | `DynamicBusyIsCached` | `BusyIsCached`, dynamic partitioning |
| | `DynamicContentIntact` | `ContentIntact`, dynamic partitioning |
| | `DynamicNoMemoryLost` | `NoMemoryLost`, dynamic partitioning |
| | `DynamicNoNull` | `NoNullDereference`, dynamic partitioning |
| | `DynamicNeighboursMerged` | `FreeNeighboursMerged`, dynamic partitioning, `Frequency` positive or -1 |
| | `DynamicLeastRecentlyUsed` | `LeastRecentlyUsedGoes`, dynamic partitioning |
| | `DynamicImplementsStore` | `Spec => ImplementsStore`, the refinement of `MessageStore`, dynamic partitioning |
| `PokemonFile_proofs` | `HolderIsAlone` | `OneHolder` |
| | `SemaphoreIsPosted` | `SemaphoreComesBack` |
| | `CrashComesOfRemoval` | `CrashNeedsRemoval` |
| | `NoPokemonLost` | `NothingLost` |
| `BlockBitmap_proofs` | `TypeCorrect` | `TypeOK` |
| | `BlocksHaveOneOwner` | `OneOwner` |
| | `BitsAreOfHeldBlocks` | `BitsOfHeldBlocks` |
| | `FilesKeepTheirContent` | `ContentKept` |
| | `MappedFileHasFiles` | `MappedHasFiles` |
| | `FilesHaveTheBlocksTheyNeed` | `BlocksFitSize` |
| `Broker_proofs` | `ListedMessagesStay` | `ListedStillCached` |
| | `NobodyIsServedTwice` | `ServedOnce` |
| | `SubscriberStays` | `ConnectedStaySubscribed` |
| | `NobodyIsMissed` | `NobodyMissed` |
| `Planner_proofs` | `TypesHold` | `TypeOK` |
| | `TokensMatchLists` | `SemaphoresCountLists` |
| | `NobodyIsDoubled` | `InOneList` |
| | `SearchStartsInTime` | `DetectsWhenAllFull` |
| | `RoomMeansMissing` | `RoomIsMissing` |
| `Exchange_proofs` | `TradersStayInOneList` | `TradersInOneList` (of `TeamSpec`) |
| | `TradersFindPartners` | `PartnerWaits` (of `TeamSpec`) |
| | `ExchangesHelp` | `ExchangeHelps`, an action property of `TeamSpec` |
| `Catching_proofs` | `CatchingIsTyped` | `CatchingTypes` (of `CatchingSpec`): `TypeOK`, and the types of everything `Catching` adds |
| | `HeldWasGiven` | `NothingFromNothing` (of `CatchingSpec`) |
| | `AnswersReachTrainers` | `AnswerReachesItsTrainer` (of `CatchingSpec`) |
| | `AnswersKeepTokens` | `TokensCountFreeTrainers` (of `CatchingSpec`) |
| | `AnswersAreStruckOff` | `MissesWhatItDidNotGet` |

No property is inductive as it stands. Each module of proofs begins with the invariant that
is, in named parts, then has one lemma for each action that disturbs it (steps that change the same
things share one) and ends with the theorems.

**Cache.** An action that extends `parts[save.target]` needs the target to be a partition
wherever the thread works on one, so `TypeInv` adds to `TypeOK` what holds of `save` at each `pc`.
The theorems about dynamic partitioning rest on `DynInv`: besides what they
state, ranks are distinct and below `nextRank`, an empty partition (what compaction of a full
memory leaves) is free and lies at the end (`ListOK`; otherwise two partitions may
begin at one address, and merging "the" neighbour at an address could take the wrong one), and the
partition being consolidated or filled is free and large enough, the one being published busy and
nobody's (`TargetOK`). Compaction is the difficult step: a partition's new place is the number of
bytes of the busy partitions before it, and `OffsetBound`, `OffsetStep` and `NewPlaces` compare
those cardinalities by injections, so that partitions that were disjoint are disjoint where they
land.

That no byte is lost and that no search comes back empty are one induction (`SpaceInv`). The bytes are all in
partitions, so next to a partition lies another or the end of the memory (`Preceded`, `Followed`):
`consolidate` finds the neighbours it dereferences. Two free neighbours exist only while one of
them is being consolidated (`MergedInv`), so a memory in which nothing is busy is one partition
(`NothingBusy`), and a search for no more than the memory that found nothing has a victim
(`VictimExists`). After a compaction a byte below the offset belongs to the partition copied there, the last one
that begins at or before it. `MergedInv` speaks of partitions that are not empty.
`FreeNeighboursMerged` does not, and needs `FullInv`: no partition is empty, which holds if compaction always comes after
an eviction. With a frequency of 0, or below -1, the code compacts before it evicts; a full memory then
gets an empty free partition at its end, so the theorem leaves those values out.

The refinement of `MessageStore` adds `OrderInv` to the content: the stamp of a partition is
the last use of its message (`StampInv`; a partition that is taken or read is stamped with it), and an
older message has a partition that comes earlier in the list (`RankInv`), because a partition that is taken
goes to the end and compaction keeps the order. So the first busy partition is the oldest message's, and
the one with the least stamp is that of the message used longest ago. `AllReadBack` is the content theorem
read as the refinement mapping, and `SizesFit` counts: the messages that read back
have that many bytes each, and no byte is two messages'. Each step then maps to `Begin` (`SaveMessage`),
`GiveUp` (`Evict`), `Finish` (`Publish`) or a stutter.

**Files.** `GateInv` says what the semaphore does (it is 0 while an operation is inside, and
until the one that makes the file posts it), `FlagInv` what OPEN does (it keeps others out, and is
read as closed only when nobody has the file open), `CreateInv` that who makes a file is alone. Each
holds but for the marks of `faults` it names, and each is needed for the next: the flag is safe
because two threads never look at it at once. `PostInv` is about the other direction, that a semaphore of 0 has
somebody who will post it; its witness is an operation, and the proof shows where it moves.

`NothingLost` rests on `LinesInv`. While nothing happened that the property leaves aside (`Clear`),
an operation that has read the lines has them as they are, and what one is about to write is
what its message adds to, or takes from, the lines that are there (`Applies`): nobody wrote
in between, because who has the file open is alone (`AloneWithFile`, from `FlagInv` and `GateInv`).
That each coordinate has one line (`OneEach`) makes the amount at it that line's
(`AmountOfLine`), so `ChangedLine`, `AddedLine` and `RemovedLine` say what the three ways to
rewrite a file do to every coordinate.

**Blocks.** `LockInv` and `FoundInv` keep a free bit that was found free until it is
set, `HeldInv` counts as held what an operation was given or has yet to give back, `MappedInv` and
`WrittenInv` say how far the mapped copy and the content have followed. All of it but the sizes is under `Sound`
(no torn byte, no block past the end), as the properties are, and the step lemmas assume `Sound'`: the
step that tears the bitmap is the one that makes the rest void. `BlocksFitSize` does not
depend on it. Its invariant adds what is left to ask for to what was given, and its proof is the
arithmetic of rounding up (`AmountFits`).

**Delivery.** `ListedStillCached` follows from `HandlerInv`: one thread is in
`recive_message`, and only it evicts. `ServedOnce` needs a history: an entry of a list was put there
by a connection that had the descriptor (`ListInv`), a sender for a new subscriber and one for a
new message never meet on one message (`SenderInv`), and the walk over a list has left behind whom
it served (`WalkInv`). The last is about indices into a list that other threads shorten during the
walk: an entry only ever moves towards the beginning (`Shortened`), so that it may be
missed but not met again.

The other two are about clients that stay. `OpenInv` and `AliveInv` say that a thread
that removes a client, or closes its descriptor, has seen that very client gone, and `SenderFdInv`
that the descriptor a thread writes to was its client's; so nobody takes a connected subscriber
out, which is `ConnectedStaySubscribed`. `MissedInv` is `NobodyMissed` with the moments in between:
for every cached message of its queue, a listed subscriber that is alive and the first on its
descriptor has its thread, or is a newcomer about to list the message (it entered the list before it
looked at the cache), or is ahead of the walk of the one that published it (the message was cached
before the walk began). A removal shifts entries under a walk; the message it gives out is marked
as disturbed, and the others find every entry where it was.

**Planning.** `CloserInv` and `RunnerInv` say that the positions each of the two threads keeps
stay good while the other one adds to the lists. With `SemInv` (the counts) they make the
branch of `AddToExec` that keeps both tokens unreachable, and with `OneList` (each trainer's copies
add up to one, plus or minus the moves under way) they are inductive. Two more invariants rest on these:

* for `DetectsWhenAllFull`, `EndInv` equates the posts of the two semaphores to the
  numbers of full and of ended trainers, as sums over the team of 0 or 1. When as many posts were taken
  as there are trainers every summand is 1 (`EachCountsOnce`), and a trainer
  that is full in the blocked list is, by `OneList`, nowhere else. `LeaveInv` is for the moment in
  which a trainer is in a list already and still in execution;
* for `RoomIsMissing`, `HeldInv` says that some function `h` gives what
  each trainer holds, whichever of its copies one looks at (but the one about to be
  dropped, which has no more), and that the room `h` leaves is at most what is missing.
  A catch takes one from the first sum and at most one from the second. At the start they are
  equal, which is an exchange of two sums (`ColumnsAddUp`).

`Total` is a fold over a set in an order the language leaves open. `Over` is the same
sum as a recursive function, and `SubsetInduction` (from the least natural number) gives what is needed of it: that
the order does not matter, and what the change of one value does to the sum (`TotalChange`). `Hits`
does the same for the number of places of a list that satisfy a condition.

**Exchanges.** Until the search begins the invariant is that of planning (`BeforeSearch`). It ends
with the step that sets `flagDeadLock`, in which `SearchBegins` turns `DetectsWhenAllFull` and the counts
into the invariant of the search (`InSearch`): no thread gives pokemons out any more, because
the count it waits for is 0 and nothing posts it (`ClosedInv`), and what `runner`, `exec` and `ready`
hold is decided by where the resolver is (`ResolverInv`). While it searches or places, nobody is
planned; in between one trainer is on its trip (`OnTrip`), or back from it (`HasTraded`), and one
post of `finishDeadlock` is all that the resolver waits for. `Meets` goes with the trip: somebody in `blocked` has
the id of the partner, and everybody who has it is one that fits. It says this of every such entry
because the code looks the partner up again by its id and takes the first it finds; it
survives the removal of the traveller's own copy since a trainer never fits itself (`MeetsLess`).
The copy of a trainer that was still to be dropped when the search began may be chosen
instead of a trainer; that, and a comparison past the end of the objectives, is what `disturbed` marks, and where the theorems
end. `ExchangesHelp` follows from `Fits` by arithmetic on the two sums.

**Catching.** `CatchingTypes` is the part of `Planner`'s invariant that outlives answers: they shorten
the lists behind the positions that `closer` keeps, so `CloserInv` is not there any more, but what remains of
it (`Closing`) is enough for the types, with `MailTypes` for the broker, GameCard and the
threads that process messages.

`NothingFromNothing` compares what the trainers hold with what was given out, but a trainer may be in two
lists, or in none, once a position moved. `GivenInv` therefore says that there is a bound for each
trainer that none of its copies exceeds, and that the bounds and the answers on their way that say
yes (`Yeses`: about to be replied, cached for a subscriber to come, sent, about to be applied) together are at
most what the trainers had at the start, what GameCard handed out and what was caught by
default. An answer that is applied, to whichever trainer, is one answer less and raises one
bound by one, whether the position it uses is right or not. Each answer that is sent anew comes
out of the broker's cache once (`SubscribeYeses`), which is why only an answer delivered twice is
left aside.

`AnswerReachesItsTrainer` follows the request from the trainer that sends it to the thread that
applies its answer. `Pending` is the set of what bears a request: a CATCH or a CAUGHT that is cached
for a subscriber to come or sent, and the threads of GameCard and of the Team that hold one. Each has
the id of its CATCH as its key, and `AskedBy` says whose it is: the trainer `catchList` has under that
id, or the one in execution while its id is still to be registered. Every step of the broker, of GameCard
and of the threads either leaves `Pending` alone or moves a request on (`Follows`: an injection that
keeps keys and pokemons), so that `RequestCore` need be proved once for all of them (`MailRequests`):
the ids are those the broker has given, who asked waits in `blocked` for the pokemon it asked for, a
trainer has one request on its way at most, and the position a thread keeps is that of the trainer of
its request (`Reaches`), or of one with no request on its way (`LeavesAt`).

That a thread's position survives the other threads' steps is a matter of the lists (`PlanCore`). Nobody before it may
be taken out of `blocked`, which is what the mark `moved` is about; and the trainer whose answer
it was must not be in `blocked` a second time, before the place where it waits. `closer` makes a
copy in `ready` before it drops the one in `blocked`, so two copies exist for a while. `CopyInv` bounds them by the
counts of planning (`Surplus`), `LastInv` says that of two copies the first is the one about to
be dropped, and `ExecutesAlone` that a trainer that executes has none left but that one. All this
holds while the broker runs and no answer comes twice (`Calm`): without a broker a trainer
catches by default and its late request would find it elsewhere.

`TokensCountFreeTrainers` adds to planning's counts (`SemInv`) the steps of the answers. While no position
moved, an answer changes the list at the place of a trainer that waits (`RequestCore`), which has no
token: `HasAll` keeps it `WAITING` and it leaves without one, and the one that an answer frees, or
that ends up for the search for deadlocks, is posted for in the same step. Refusals are left aside: they
make whoever executes available and post for it.

`MissesWhatItDidNotGet` adds to the same invariant that every queue is subscribed to and that no two requests on their way have the
same key (`KeysDistinct`, which `Follows` keeps and a new id of the broker extends). A request that is
answered is then nowhere else, so each answer adds exactly one to the count of the place it moves to and takes
one from the place it leaves (`OwedMoves`): a pokemon that GameCard hands out is an answer more on its way,
and one that is applied is struck off the name it was asked under, because the trainer at the kept
position waits for that very pokemon (`Reaches`).

Only model-checked: the buddy system, whose invariant needs the tree of halves over powers of two, which the provers know
nothing of, and with it what the theorems above say of dynamic partitioning only. Liveness under
fairness is beyond the proof system and stays with TLC.

## Not modelled

* Between the processes: GameCard's reply to a NEW and the Team's APPEARED that comes of it
  through the broker (in `Planner` pokemons appear by themselves), and the retry loops of
  connections with their sleeping times. A cut subscription and its renewal are in `Catching`, for
  the queues the Team listens to.
* GameCard: the text of a file (`rewrite_blocks` splits it over its blocks; `BlockBitmap` keeps
  whose text a block has). In `PokemonFile`, blocks and
  metadata are written in one step: they can be seen half written only after the
  process stopped inside an operation, and then OPEN=S, or a missing file, keeps
  every later operation out, or where exclusion was already lost.
* Team: the reallocation of a list while another thread reads it (a hazard without a
  property), and the counters that are only logged.
* SharedLibrary comms: the field-by-field serialization only copies. Framing, three reads per
  package, matters where two threads read one socket. `Broker` takes a package whole, and the
  interleaving of the reads is listed as a hazard: what a package cut in that way contains depends on
  its bytes, which the models do without.
* The broker's dump on SIGUSR1 and the ends of the processes on SIGINT: they change no
  state that outlives them.
* The width of the LRU stamp (an `int` given a `long`): listed as a hazard.
* GameBoy and the commons: a one-shot client, whose effect on the broker is in
  `Broker`, and a vendored library.

## Plan

Modelled and model-checked: the cache, delivery, files, blocks, planning with its four algorithms,
deadlocks, and the Team's messages with the loss of the broker. Left in the models: the reply to NEW and
APPEARED through the broker, for which `Catching` would need a bigger instance than TLC
finishes.

Theorems left: the buddy system's disjointness and content (the partitions and split parents form a
binary tree over aligned powers of two).

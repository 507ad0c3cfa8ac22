----------------------------- MODULE CacheMemory -----------------------------
(***************************************************************************)
(* The broker's in-memory message cache (Broker/src/CacheMemory.c): one    *)
(* block of memory divided into partitions, under dynamic partitioning     *)
(* ("PARTICIONES") or the buddy system ("BS"), with FIFO or LRU eviction,  *)
(* first or best fit, and compaction every Frequency evictions.            *)
(*                                                                         *)
(* save_message holds mutex_saving from end to end, so only one save runs  *)
(* at a time; its search loop is kept in small steps (variable pc) because *)
(* the loop decides with values read before it (the busy count) and may    *)
(* or may not end.                                                         *)
(*                                                                         *)
(* Lists are append/remove only, so the list `partitions' is a function    *)
(* from partition ids to records with a field rank: the list order is the  *)
(* order of the ranks, and appending is taking nextRank.  The list         *)
(* `cached_messages' is in the order of the message ids, because the       *)
(* broker numbers a message and saves it under one lock.                   *)
(*                                                                         *)
(* A name with an underscore (OffsetAt_OneShort) is a deliberate mistake   *)
(* in the definition that follows it: no specification uses it, the checks *)
(* put it in the definition's place to see that a property notices.        *)
(***************************************************************************)
EXTENDS Integers, FiniteSets

CONSTANTS
  MemorySize,    \* TAMANO_MEMORIA, in bytes
  MinPartition,  \* TAMANO_MINIMO_PARTICION
  Frequency,     \* FRECUENCIA_COMPACTACION
  Dynamic,       \* ALGORITMO_MEMORIA = "PARTICIONES" (otherwise the buddy system)
  FirstFit,      \* ALGORITMO_PARTICION_LIBRE = "FF"
  Fifo,          \* ALGORITMO_REEMPLAZO = "FIFO" (otherwise LRU)
  Lens,          \* the serialized sizes a message may have
  NMessages,     \* bound: how many messages are saved
  MaxClock       \* bound: how many times clock() is seen to advance

(* CalculateNearestPowerOfTwo: the largest power of two that fits the even part. *)
NearestPowerOfTwo(x) ==
  CHOOSE p \in 1 .. x : /\ \E k \in 0 .. x : p = 2^k
                        /\ p <= x - (x % 2)
                        /\ x - (x % 2) < 2 * p

ASSUME CacheAssumption ==
  /\ MemorySize \in Nat /\ MemorySize >= 2
  /\ MinPartition \in Nat \ {0}
  /\ Frequency \in Int
  /\ Dynamic \in BOOLEAN /\ FirstFit \in BOOLEAN /\ Fifo \in BOOLEAN
  /\ Lens \subseteq Nat \ {0}
  /\ NMessages \in Nat
  /\ MaxClock \in Nat

(* A fact of arithmetic (a power of two lies between x/2 and x) that the   *)
(* prover, which has no exponentials, is given as an assumption.           *)
ASSUME PowerAssumption == NearestPowerOfTwo(MemorySize) \in 1 .. MemorySize

Addresses == 0 .. MemorySize - 1
Messages  == 1 .. NMessages
NoMessage == 0

VARIABLES
  parts,      \* the list partitions: id -> [begin, size, free, rank, stamp, parent]
  parents,    \* the list parent_partitions: the buddy partitions that are split
  nextId,     \* nextPartitionId
  nextRank,   \* the rank the next element appended to partitions will have
  cached,     \* the list cached_messages: message id -> [part, len, used]
  bytes,      \* full_memory: whose content each byte holds
  clock,      \* clock(), as far as it was seen to advance
  lastSaved,  \* the last message given to save_message
  pc,         \* where the thread in save_message is; "idle" when mutex_saving is free
  save        \* the locals of save_message and the functions it calls

vars == <<parts, parents, nextId, nextRank, cached, bytes, clock, lastSaved, pc, save>>

-----------------------------------------------------------------------------
NoSave == [msg |-> NoMessage, len |-> 0, busy |-> 0, i |-> 0, target |-> 0,
           firstOne |-> TRUE]

(* CreateNewPartition.  The stamp of a free partition is never read (it is *)
(* written again when the partition is taken), so it is kept at 0.         *)
FreePartition(begin, size, rank, parent) ==
  [begin |-> begin, size |-> size, free |-> TRUE, rank |-> rank, stamp |-> 0,
   parent |-> parent]

Busy(ps) == {p \in DOMAIN ps : ~ ps[p].free}

End(ps, p) == ps[p].begin + ps[p].size

(* What list_find returns: the element of S that comes first in the list.  *)
FirstOf(ps, S) == {p \in S : \A q \in S : ps[p].rank <= ps[q].rank}

Without(ps, S) == [p \in DOMAIN ps \ S |-> ps[p]]

(* save_message_body: the size asked for is at least the minimum partition. *)
Required == IF save.len > MinPartition THEN save.len ELSE MinPartition

Fitting_Strict(ps, size) == {p \in DOMAIN ps : ps[p].free /\ ps[p].size > size}

Fitting(ps, size) == {p \in DOMAIN ps : ps[p].free /\ ps[p].size >= size}

(* select_partition: empty when no free partition is large enough.         *)
Select(ps, size) ==
  LET fit == Fitting(ps, size)
  IN  IF FirstFit /\ Dynamic
      THEN FirstOf(ps, fit)
      ELSE FirstOf(ps, {p \in fit : \A q \in fit : ps[p].size <= ps[q].size})

(* The number of evictions before a compaction: all the partitions that    *)
(* were busy when the search began under the buddy system and for -1.      *)
CompactionFrequency == IF ~ Dynamic \/ Frequency = -1 THEN save.busy ELSE Frequency

Victims_Newest ==
  {p \in Busy(parts) : \A q \in Busy(parts) : parts[q].stamp <= parts[p].stamp}

(* The victim of delete_partition.  Partitions whose stamps are equal to   *)
(* clock()'s resolution compare either way.                                *)
Victims == IF Fifo
           THEN FirstOf(parts, Busy(parts))
           ELSE {p \in Busy(parts) : \A q \in Busy(parts) : parts[p].stamp <= parts[q].stamp}

MessageIn_Kept(v) == {}

(* The message delete_partition drops: the first one held by partition v.  *)
MessageIn(v) == {m \in DOMAIN cached :
                   /\ cached[m].part = v
                   /\ \A n \in DOMAIN cached : cached[n].part = v => m <= n}

(* GetNewId, called n times. *)
TakeIds_Stuck(n) == nextId' = IF n > 1 THEN nextId + n ELSE nextId
TakeIds(n) == nextId' = nextId + n

(* list_add on partitions, n times. *)
AppendToList(n) == nextRank' = nextRank + n

(* The readings clock() may give now.                                      *)
Readings == {t \in clock .. clock + 1 : t <= MaxClock}

-----------------------------------------------------------------------------
(* start_cache: one free partition, of a power of two for the buddy system. *)
Init ==
  /\ parts = [p \in {0} |->
                FreePartition(0, IF Dynamic THEN MemorySize
                                 ELSE NearestPowerOfTwo(MemorySize), 0, 0)]
  /\ parents = [p \in {} |-> FreePartition(0, 0, 0, 0)]
  /\ nextId = 1
  /\ nextRank = 1
  /\ cached = [m \in {} |-> [part |-> 0, len |-> 0, used |-> 0]]
  /\ bytes = [a \in Addresses |-> NoMessage]
  /\ clock = 0
  /\ lastSaved = 0
  /\ pc = "idle"
  /\ save = NoSave

(* save_message takes mutex_saving and creates the cached message. *)
SaveMessage ==
  /\ pc = "idle"
  /\ lastSaved < NMessages
  /\ \E len \in Lens : save' = [NoSave EXCEPT !.msg = lastSaved + 1, !.len = len]
  /\ lastSaved' = lastSaved + 1
  /\ pc' = "find"
  /\ UNCHANGED <<parts, parents, nextId, nextRank, cached, bytes, clock>>

(* GetCachedMessage and GetAllMessagesForSuscriptor, which also need       *)
(* mutex_saving: they stamp the partitions of the messages they return.    *)
UpdateClockOn(S) ==
  /\ pc = "idle"
  /\ \E now \in Readings :
       /\ clock' = now
       /\ parts' = [p \in DOMAIN parts |->
                      IF \E m \in S : cached[m].part = p
                      THEN [parts[p] EXCEPT !.stamp = now] ELSE parts[p]]
       /\ cached' = [m \in DOMAIN cached |->
                       IF m \in S THEN [cached[m] EXCEPT !.used = now] ELSE cached[m]]
  /\ UNCHANGED <<parents, nextId, nextRank, bytes, lastSaved, pc, save>>

-----------------------------------------------------------------------------
(* The search of find_empty_partition_of_size.                             *)

LoopHead(frequency) == IF frequency > 0 THEN "evict" ELSE "compact"

(* A message larger than the memory gets no partition, and save_message_body *)
(* dereferences the NULL it is given: the broker stops.                    *)
FindTooLarge ==
  /\ pc = "find"
  /\ Required > MemorySize
  /\ pc' = "crashed"
  /\ UNCHANGED <<parts, parents, nextId, nextRank, cached, bytes, clock, lastSaved, save>>

FindFits ==
  /\ pc = "find"
  /\ Required <= MemorySize
  /\ \E p \in Select(parts, Required) : save' = [save EXCEPT !.target = p]
  /\ pc' = "place"
  /\ UNCHANGED <<parts, parents, nextId, nextRank, cached, bytes, clock, lastSaved>>

(* Nothing fits: the busy partitions are counted, once for the whole search. *)
FindNothing ==
  /\ pc = "find"
  /\ Required <= MemorySize
  /\ Select(parts, Required) = {}
  /\ save' = [save EXCEPT !.busy = Cardinality(Busy(parts))]
  /\ pc' = LoopHead(CompactionFrequency')
  /\ UNCHANGED <<parts, parents, nextId, nextRank, cached, bytes, clock, lastSaved>>

(* delete_partition, up to start_consolidation_for. *)
Evict ==
  /\ pc = "evict"
  /\ \E v \in Victims :
       /\ parts' = [parts EXCEPT ![v].free = TRUE, ![v].stamp = 0]
       /\ cached' = [m \in DOMAIN cached \ MessageIn(v) |-> cached[m]]
       /\ save' = [save EXCEPT !.target = v]
  /\ pc' = "consolidate"
  /\ UNCHANGED <<parents, nextId, nextRank, bytes, clock, lastSaved>>

(* What the two searches of check_validations_and_consolidate_PD find.     *)
LeftOf(f)  == FirstOf(parts, {p \in DOMAIN parts : End(parts, p) = parts[f].begin})
RightOf(f) == FirstOf(parts, {p \in DOMAIN parts : parts[p].begin = End(parts, f)})

FreeLeft(f) ==
  IF parts[f].begin = 0 THEN {} ELSE {p \in LeftOf(f) : parts[p].free}

FreeRight_Ignored(f) == {}
FreeRight(f) ==
  IF End(parts, f) >= MemorySize THEN {} ELSE {p \in RightOf(f) : parts[p].free}

(* new_size; l and r are f itself where there is no neighbour to merge.    *)
MergedSize_NoRight(f, l, r) == parts[f].size + (IF l # f THEN parts[l].size ELSE 0)
MergedSize(f, l, r) == parts[f].size + (IF l # f THEN parts[l].size ELSE 0)
                                     + (IF r # f THEN parts[r].size ELSE 0)

(* check_validations_and_consolidate_PD: the freed partition f is merged   *)
(* with a free left and a free right neighbour, into the leftmost of them. *)
ConsolidateDynamic ==
  LET f == save.target IN
  /\ pc = "consolidate"
  /\ Dynamic
  /\ IF parts[f].size = MemorySize
     THEN UNCHANGED parts
     ELSE \E l \in (IF FreeLeft(f) = {} THEN {f} ELSE FreeLeft(f)),
             r \in (IF FreeRight(f) = {} THEN {f} ELSE FreeRight(f)) :
            parts' = [Without(parts, {f, r} \ {l}) EXCEPT ![l].size = MergedSize(f, l, r)]
  /\ pc' = "retry"
  /\ UNCHANGED <<parents, nextId, nextRank, cached, bytes, clock, lastSaved, save>>

(* check_validations_and_consolidate_BS: the free buddy of the freed partition. *)
RelatedTo_AnyParent(f) == {p \in DOMAIN parts : /\ parts[p].free
                                                /\ p # f
                                                /\ parts[p].size = parts[f].size}
RelatedTo_None(f) == {}
RelatedTo(f) == {p \in DOMAIN parts : /\ parts[p].free
                                      /\ p # f
                                      /\ parts[p].size = parts[f].size
                                      /\ parts[p].parent = parts[f].parent}

(* consolidate: the first two children of the parent leave the list and    *)
(* the parent is appended; the loop goes on with the parent.               *)
ConsolidateBuddies ==
  LET f == save.target IN
  /\ pc = "consolidate"
  /\ ~ Dynamic
  /\ parts[f].size < MemorySize
  /\ RelatedTo(f) # {}
  /\ LET parent   == parts[f].parent
         children == {p \in DOMAIN parts : parts[p].parent = parent}
     IN  /\ parent \in DOMAIN parents
         /\ \E c \in FirstOf(parts, children) : \E d \in FirstOf(parts, children \ {c}) :
              parts' = [p \in (DOMAIN parts \ {c, d}) \cup {parent} |->
                          IF p = parent THEN [parents[parent] EXCEPT !.rank = nextRank]
                          ELSE parts[p]]
         /\ parents' = Without(parents, {parent})
         /\ save' = [save EXCEPT !.target = parent]
  /\ AppendToList(1)
  /\ UNCHANGED <<nextId, cached, bytes, clock, lastSaved, pc>>

NoBuddyLeft ==
  /\ pc = "consolidate"
  /\ ~ Dynamic
  /\ parts[save.target].size >= MemorySize \/ RelatedTo(save.target) = {}
  /\ pc' = "retry"
  /\ UNCHANGED <<parts, parents, nextId, nextRank, cached, bytes, clock, lastSaved, save>>

(* The rest of the for loop's body: leave with a partition, leave to       *)
(* compact, or evict again.                                                *)
RetryFits ==
  /\ pc = "retry"
  /\ \E p \in Select(parts, Required) : save' = [save EXCEPT !.target = p]
  /\ pc' = "place"
  /\ UNCHANGED <<parts, parents, nextId, nextRank, cached, bytes, clock, lastSaved>>

RetryNothing ==
  /\ pc = "retry"
  /\ Select(parts, Required) = {}
  /\ IF save.busy - save.i <= 0 \/ save.i + 1 >= CompactionFrequency
     THEN /\ pc' = "compact"
          /\ save' = [save EXCEPT !.i = 0]
     ELSE /\ pc' = "evict"
          /\ save' = [save EXCEPT !.i = save.i + 1]
  /\ UNCHANGED <<parts, parents, nextId, nextRank, cached, bytes, clock, lastSaved>>

-----------------------------------------------------------------------------
(* compact_memory.                                                         *)

(* offsetMem when the walk over the busy partitions reaches rank r: the    *)
(* bytes of those before it, counted one by one.                           *)
OffsetAt_OneShort(r) ==
  Cardinality({pb \in Busy(parts) \X (1 .. MemorySize) :
                 parts[pb[1]].rank < r /\ pb[2] < parts[pb[1]].size})
OffsetAt(r) ==
  Cardinality({pb \in Busy(parts) \X (1 .. MemorySize) :
                 parts[pb[1]].rank < r /\ pb[2] <= parts[pb[1]].size})

(* Where the walk puts busy partition p.                                   *)
NewBegin(p) == OffsetAt(parts[p].rank)

(* full_memory once backUp_memory was copied over it: each busy partition's *)
(* bytes at its new place, and past them what malloc gave.                 *)
Slid ==
  LET begin == [p \in Busy(parts) |-> NewBegin(p)]
      at(a) == {p \in Busy(parts) : a \in begin[p] .. begin[p] + parts[p].size - 1}
  IN  [a \in Addresses |->
         IF at(a) = {} THEN NoMessage
         ELSE LET p == CHOOSE q \in at(a) : TRUE
              IN  bytes[parts[p].begin + (a - begin[p])]]

(* The busy partitions slide down in list order and one new free partition *)
(* takes the rest.                                                         *)
Compact ==
  LET offsetMem == OffsetAt(nextRank) IN
  /\ pc = "compact"
  /\ parts' = [p \in Busy(parts) \cup {nextId} |->
                 IF p = nextId
                 THEN FreePartition(offsetMem, MemorySize - offsetMem, nextRank, 0)
                 ELSE [parts[p] EXCEPT !.begin = NewBegin(p)]]
  /\ bytes' = Slid
  /\ TakeIds(1)
  /\ AppendToList(1)
  /\ pc' = "reselect"
  /\ UNCHANGED <<parents, cached, clock, lastSaved, save>>

ReselectFits ==
  /\ pc = "reselect"
  /\ \E p \in Select(parts, Required) : save' = [save EXCEPT !.target = p]
  /\ pc' = "place"
  /\ UNCHANGED <<parts, parents, nextId, nextRank, cached, bytes, clock, lastSaved>>

(* Nothing fits even so: the do-while starts over with the old busy count. *)
ReselectNothing ==
  /\ pc = "reselect"
  /\ Select(parts, Required) = {}
  /\ pc' = LoopHead(CompactionFrequency)
  /\ UNCHANGED <<parts, parents, nextId, nextRank, cached, bytes, clock, lastSaved, save>>

-----------------------------------------------------------------------------
(* save_body_in_partition.                                                 *)

(* The partition is taken whole: an exact fit, or a buddy that cannot or   *)
(* need not be halved.                                                     *)
TakenWhole(part) ==
  \/ part.size = Required
  \/ /\ ~ Dynamic
     /\ \/ part.size \div 2 < Required /\ part.size >= Required
        \/ part.size \div 2 < MinPartition

(* memcpy of the message's buffer to address a.                            *)
Stored_OneMore(a) == [b \in Addresses |->
                        IF b \in a .. a + save.len THEN save.msg ELSE bytes[b]]
Stored(a) == [b \in Addresses |->
                IF b \in a .. a + save.len - 1 THEN save.msg ELSE bytes[b]]

(* A partition that was not just split goes to the end of the list, which  *)
(* keeps the list in the order the messages entered.                       *)
RankTaken_InPlace(t) == parts[t].rank
RankTaken(t) == IF save.firstOne THEN nextRank ELSE parts[t].rank

TakePartition ==
  LET t == save.target IN
  /\ pc = "place"
  /\ TakenWhole(parts[t])
  /\ \E now \in Readings :
       /\ clock' = now
       /\ parts' = [parts EXCEPT ![t].free = FALSE,
                                 ![t].stamp = now,
                                 ![t].rank = RankTaken(t)]
  /\ bytes' = Stored(parts[t].begin)
  /\ AppendToList(1)
  /\ pc' = "publish"
  /\ UNCHANGED <<parents, nextId, cached, lastSaved, save>>

(* Dynamic partitioning: the message takes the beginning of the partition. *)
CarvePartition ==
  LET t == save.target IN
  /\ pc = "place"
  /\ Dynamic
  /\ ~ TakenWhole(parts[t])
  /\ \E now \in Readings :
       /\ clock' = now
       /\ parts' = [p \in DOMAIN parts \cup {nextId} |->
                      IF p = nextId
                      THEN [FreePartition(parts[t].begin, Required, nextRank, 0)
                              EXCEPT !.free = FALSE, !.stamp = now]
                      ELSE IF p = t
                      THEN [parts[t] EXCEPT !.begin = @ + Required, !.size = @ - Required]
                      ELSE parts[p]]
  /\ bytes' = Stored(parts[t].begin)
  /\ save' = [save EXCEPT !.target = nextId]
  /\ TakeIds(1)
  /\ AppendToList(1)
  /\ pc' = "publish"
  /\ UNCHANGED <<parents, cached, lastSaved>>

(* create_childrens_from: the partition is halved and the loop goes on     *)
(* with its first half.                                                    *)
HalfOf(part) == part.size \div 2

SplitBuddy ==
  LET t    == save.target
      half == HalfOf(parts[t])
  IN
  /\ pc = "place"
  /\ ~ Dynamic
  /\ ~ TakenWhole(parts[t])
  /\ parts' = [p \in (DOMAIN parts \ {t}) \cup {nextId, nextId + 1} |->
                 IF p = nextId THEN FreePartition(parts[t].begin, half, nextRank, t)
                 ELSE IF p = nextId + 1
                 THEN FreePartition(parts[t].begin + half, half, nextRank + 1, t)
                 ELSE parts[p]]
  /\ parents' = [p \in DOMAIN parents \cup {t} |-> IF p = t THEN parts[t] ELSE parents[p]]
  /\ save' = [save EXCEPT !.target = nextId, !.firstOne = FALSE]
  /\ TakeIds(2)
  /\ AppendToList(2)
  /\ UNCHANGED <<cached, bytes, clock, lastSaved, pc>>

(* add_to_cached_messages; mutex_saving is released. *)
Publish ==
  /\ pc = "publish"
  /\ cached' = [m \in DOMAIN cached \cup {save.msg} |->
                  IF m = save.msg
                  THEN [part |-> save.target, len |-> save.len, used |-> clock]
                  ELSE cached[m]]
  /\ save' = NoSave
  /\ pc' = "idle"
  /\ UNCHANGED <<parts, parents, nextId, nextRank, bytes, clock, lastSaved>>

-----------------------------------------------------------------------------
SaveStep ==
  \/ FindTooLarge \/ FindFits \/ FindNothing
  \/ Evict \/ ConsolidateDynamic \/ ConsolidateBuddies \/ NoBuddyLeft
  \/ RetryFits \/ RetryNothing
  \/ Compact \/ ReselectFits \/ ReselectNothing
  \/ TakePartition \/ CarvePartition \/ SplitBuddy \/ Publish

Next ==
  \/ SaveMessage
  \/ \E S \in SUBSET DOMAIN cached \ {{}} : UpdateClockOn(S)
  \/ SaveStep

Spec == Init /\ [][Next]_vars

(* The thread that holds mutex_saving blocks on nothing until it releases  *)
(* it, so the operating system always lets it go on.                       *)
FairSpec == Spec /\ WF_vars(SaveStep)
-----------------------------------------------------------------------------
(* Properties. *)

Partition == [begin : Int, size : Int, free : BOOLEAN, rank : Nat, stamp : Nat,
              parent : Nat]

(* Types: partition ids and ranks are below the counters that hand them    *)
(* out, and each cached message names a partition id, a size and a stamp.  *)
TypeOK ==
  /\ nextId \in Nat /\ nextRank \in Nat
  /\ clock \in 0 .. MaxClock /\ lastSaved \in 0 .. NMessages
  /\ DOMAIN parts \subseteq 0 .. nextId - 1
  /\ parts \in [DOMAIN parts -> Partition]
  /\ DOMAIN parents \subseteq 0 .. nextId - 1
  /\ parents \in [DOMAIN parents -> Partition]
  /\ DOMAIN cached \subseteq 1 .. lastSaved
  /\ cached \in [DOMAIN cached -> [part : Nat, len : Lens, used : Nat]]
  /\ DOMAIN bytes = Addresses
  /\ pc \in {"idle", "find", "evict", "consolidate", "retry", "compact", "reselect",
             "place", "publish", "crashed"}
  /\ save \in [msg : 0 .. NMessages, len : Lens \cup {0}, busy : Nat, i : Nat,
               target : Nat, firstOne : BOOLEAN]

(* Two partitions of the list never share a byte, and none reaches past    *)
(* the end of full_memory: memcpy never writes over another message nor    *)
(* outside the block.                                                      *)
PartitionsDisjoint ==
  /\ \A p \in DOMAIN parts :
       0 <= parts[p].begin /\ 0 <= parts[p].size /\ End(parts, p) <= MemorySize
  /\ \A p, q \in DOMAIN parts :
       p # q => End(parts, p) <= parts[q].begin \/ End(parts, q) <= parts[p].begin

(* No byte is lost: merging, splitting and compacting leave each byte that *)
(* the partitions covered at the start in some partition.                  *)
NoMemoryLost ==
  \A a \in 0 .. (IF Dynamic THEN MemorySize ELSE NearestPowerOfTwo(MemorySize)) - 1 :
    \E p \in DOMAIN parts : a \in parts[p].begin .. End(parts, p) - 1

(* The results of list_find that the code dereferences unchecked are never *)
(* NULL: a victim to evict, the neighbours of a freed partition, the       *)
(* parent of two free buddies.                                             *)
NoNullDereference ==
  /\ pc = "evict" => Busy(parts) # {}
  /\ pc = "consolidate" /\ Dynamic =>
       /\ parts[save.target].begin # 0 => LeftOf(save.target) # {}
       /\ End(parts, save.target) < MemorySize => RightOf(save.target) # {}
  /\ pc = "consolidate" /\ ~ Dynamic /\ RelatedTo(save.target) # {} =>
       parts[save.target].parent \in DOMAIN parents
  /\ \A m \in DOMAIN cached : cached[m].part \in DOMAIN parts

(* Outside the two windows in which save_message has taken a partition and *)
(* not yet published its message, the busy partitions and the cached       *)
(* messages correspond one to one: eviction drops exactly the message of   *)
(* the partition it frees, and no message is left without its partition.   *)
BusyIsCached ==
  /\ \A m \in DOMAIN cached : cached[m].part \in Busy(parts)
  /\ \A m, n \in DOMAIN cached : cached[m].part = cached[n].part => m = n
  /\ \A p \in Busy(parts) :
       \/ \E m \in DOMAIN cached : cached[m].part = p
       \/ pc = "publish" /\ p = save.target

(* What GetMessage deserializes is what was saved: the bytes at the start  *)
(* of a cached message's partition hold that message's content, whatever   *)
(* was evicted, merged, split or compacted since.                          *)
ContentIntact ==
  \A m \in DOMAIN cached :
    /\ cached[m].part \in DOMAIN parts
    /\ LET p == parts[cached[m].part] IN
       \A a \in p.begin .. p.begin + cached[m].len - 1 : a \in Addresses /\ bytes[a] = m

(* LRU: a message that is dropped was not used (saved, sent, acknowledged  *)
(* or read) after one that stays.                                          *)
LeastRecentlyUsedGoes ==
  [][~ Fifo => \A m \in DOMAIN cached \ DOMAIN cached' : \A n \in DOMAIN cached' :
       cached[m].used <= cached'[n].used]_vars

(* Dynamic partitioning, when no save is running: two neighbours are never *)
(* both free, so the largest hole is as large as it can be.                *)
FreeNeighboursMerged ==
  pc = "idle" /\ Dynamic =>
    \A p, q \in DOMAIN parts :
      parts[p].free /\ parts[q].free => End(parts, p) # parts[q].begin

(* Buddy system: sizes are powers of two, a partition starts at a multiple *)
(* of its size, and, when no save is running, two buddies are never both   *)
(* free.  The last two together say that the halves that are merged are    *)
(* the halves that were split.                                             *)
BuddySystem ==
  ~ Dynamic =>
    /\ \A p \in DOMAIN parts :
         /\ \E k \in 0 .. MemorySize : parts[p].size = 2^k
         /\ parts[p].begin % parts[p].size = 0
    /\ pc = "idle" => \A p, q \in DOMAIN parts :
         p # q /\ parts[p].free /\ parts[q].free /\ parts[p].size = parts[q].size =>
           parts[p].begin \div (2 * parts[p].size) # parts[q].begin \div (2 * parts[q].size)

(* Every save of a message that the memory could hold ends, whatever the   *)
(* state of the memory when it begins.                                     *)
SaveEnds == (pc = "find" /\ Required <= MemorySize) ~> (pc = "idle")

(* The comment "0 frequency does not make sense, so we de-activate         *)
(* compaction_frequency also on 0" (CacheMemory.c:212): with 0, as with    *)
(* -1, memory is compacted only when there is nothing left to evict.       *)
ZeroFrequencyDeactivated ==
  Dynamic /\ Frequency \in {0, -1} /\ pc = "compact" => Busy(parts) = {}

=============================================================================

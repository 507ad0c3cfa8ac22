------------------------- MODULE CacheMemory_proofs -------------------------
(***************************************************************************)
(* Theorems about CacheMemory, for every memory size, minimum partition,   *)
(* frequency, set of message sizes and number of messages: the types, for  *)
(* both memory schemes, and then what holds of dynamic partitioning        *)
(* (ALGORITMO_MEMORIA=PARTICIONES).  The partitions never overlap, they    *)
(* correspond one to one to the cached messages, what is read back is what *)
(* was saved, no byte is lost and no list search that is dereferenced      *)
(* comes back empty; LRU drops what was used least recently, and the cache *)
(* implements MessageStore.  Free neighbours are merged when the           *)
(* compaction frequency is positive or -1.                                 *)
(***************************************************************************)
EXTENDS MCCacheMemory, ListTheorems

-----------------------------------------------------------------------------
(* The types. *)

(* What the thread in save_message knows between its steps: it is saving   *)
(* the last message, and where it uses a partition, that one is in the     *)
(* list.                                                                   *)
SaveOK ==
  /\ pc = "idle" => save = NoSave
  /\ pc # "idle" => save.len \in Lens /\ save.msg = lastSaved /\ lastSaved # 0
  /\ pc \in {"consolidate", "place", "publish"} => save.target \in DOMAIN parts

TypeInv == TypeOK /\ SaveOK

(* The number of bytes of any set of partitions is a natural number. *)
LEMMA OffsetType ==
  ASSUME TypeOK, NEW r
  PROVE  OffsetAt(r) \in Nat
<1>1. IsFiniteSet(Busy(parts))
  <2>1. Busy(parts) \in SUBSET (0 .. nextId - 1)
    BY DEF TypeOK, Busy
  <2>2. IsFiniteSet(0 .. nextId - 1)
    <3>1. 0 \in Int /\ nextId - 1 \in Int
      BY DEF TypeOK
    <3> QED BY <3>1, FS_Interval
  <2> QED BY <2>1, <2>2, FS_Subset
<1>2. IsFiniteSet(1 .. MemorySize)
  BY FS_Interval, CacheAssumption
<1>3. IsFiniteSet(Busy(parts) \X (1 .. MemorySize))
  BY <1>1, <1>2, FS_Product
<1> DEFINE S == {pb \in Busy(parts) \X (1 .. MemorySize) :
                   parts[pb[1]].rank < r /\ pb[2] <= parts[pb[1]].size}
<1>4. S \in SUBSET (Busy(parts) \X (1 .. MemorySize))
  OBVIOUS
<1>5. IsFiniteSet(S)
  BY <1>3, <1>4, FS_Subset
<1>6. Cardinality(S) \in Nat
  BY <1>5, FS_CardinalityType
<1> QED BY <1>6 DEF OffsetAt

LEMMA SelectIn ==
  ASSUME NEW ps, NEW size, NEW p \in Select(ps, size)
  PROVE  p \in DOMAIN ps /\ ps[p].free /\ ps[p].size >= size
BY DEF Select, FirstOf, Fitting

LEMMA BusyCount == TypeOK => Cardinality(Busy(parts)) \in Nat
<1> SUFFICES ASSUME TypeOK PROVE Cardinality(Busy(parts)) \in Nat
  OBVIOUS
<1>1. Busy(parts) \in SUBSET (0 .. nextId - 1)
  BY DEF TypeOK, Busy
<1>2. IsFiniteSet(0 .. nextId - 1)
  <2>1. 0 \in Int /\ nextId - 1 \in Int
    BY DEF TypeOK
  <2> QED BY <2>1, FS_Interval
<1> QED BY <1>1, <1>2, FS_Subset, FS_CardinalityType

LEMMA TypeInit == Init => TypeInv
<1> SUFFICES ASSUME Init PROVE TypeInv
  OBVIOUS
<1>1. (IF Dynamic THEN MemorySize ELSE NearestPowerOfTwo(MemorySize)) \in Int
  BY CacheAssumption, PowerAssumption
<1>2. parts \in [DOMAIN parts -> Partition] /\ DOMAIN parts = {0}
  BY <1>1 DEF Init, FreePartition, Partition
<1>3. parents \in [DOMAIN parents -> Partition] /\ DOMAIN parents = {}
  BY DEF Init
<1>4. cached \in [DOMAIN cached -> [part : Nat, len : Lens, used : Nat]] /\ DOMAIN cached = {}
  BY DEF Init
<1>5. DOMAIN bytes = Addresses
  BY DEF Init
<1> QED BY <1>2, <1>3, <1>4, <1>5, CacheAssumption DEF Init, TypeInv, TypeOK, SaveOK, NoSave, NoMessage

LEMMA TypeStep == TypeInv /\ [Next]_vars => TypeInv'
<1> SUFFICES ASSUME TypeInv, [Next]_vars PROVE TypeInv'
  OBVIOUS
<1> USE CacheAssumption DEF TypeInv
<1>req. Required \in Nat
  BY DEF Required, TypeOK
<1>1. CASE SaveMessage
  <2>1. PICK len \in Lens : save' = [NoSave EXCEPT !.msg = lastSaved + 1, !.len = len]
    BY <1>1 DEF SaveMessage
  <2>2. /\ save' \in [msg : 0 .. NMessages, len : Lens \cup {0}, busy : Nat, i : Nat,
                      target : Nat, firstOne : BOOLEAN]
        /\ save'.len \in Lens /\ save'.msg = lastSaved + 1
    <3>1. lastSaved + 1 \in 0 .. NMessages
      BY <1>1 DEF SaveMessage, TypeOK
    <3>2. save' = [msg |-> lastSaved + 1, len |-> len, busy |-> 0, i |-> 0, target |-> 0,
                   firstOne |-> TRUE]
      BY <2>1 DEF NoSave
    <3> QED BY <3>1, <3>2
  <2>3. lastSaved' = lastSaved + 1 /\ lastSaved' \in 0 .. NMessages /\ lastSaved' # 0
    BY <1>1 DEF SaveMessage, TypeOK
  <2>4. /\ pc' = "find"
        /\ UNCHANGED <<parts, parents, nextId, nextRank, cached, bytes, clock>>
    BY <1>1 DEF SaveMessage
  <2> QED BY <2>2, <2>3, <2>4 DEF TypeOK, SaveOK
<1>2. ASSUME NEW S \in SUBSET DOMAIN cached, UpdateClockOn(S) PROVE TypeInv'
  <2>1. PICK now \in Readings :
          /\ clock' = now
          /\ parts' = [p \in DOMAIN parts |->
                         IF \E m \in S : cached[m].part = p
                         THEN [parts[p] EXCEPT !.stamp = now] ELSE parts[p]]
          /\ cached' = [m \in DOMAIN cached |->
                          IF m \in S THEN [cached[m] EXCEPT !.used = now] ELSE cached[m]]
    BY <1>2 DEF UpdateClockOn
  <2>2. now \in Nat /\ now \in 0 .. MaxClock
    BY DEF Readings, TypeOK
  <2>3. parts' \in [DOMAIN parts' -> Partition] /\ DOMAIN parts' = DOMAIN parts
    BY <2>1, <2>2 DEF TypeOK, Partition
  <2>4. /\ cached' \in [DOMAIN cached' -> [part : Nat, len : Lens, used : Nat]]
        /\ DOMAIN cached' = DOMAIN cached
    BY <2>1, <2>2 DEF TypeOK
  <2> QED BY <1>2, <2>1, <2>2, <2>3, <2>4 DEF UpdateClockOn, TypeOK, SaveOK
<1>3. CASE FindTooLarge
  BY <1>3 DEF FindTooLarge, TypeOK, SaveOK
<1>4. CASE FindFits
  <2>1. PICK p \in Select(parts, Required) : save' = [save EXCEPT !.target = p]
    BY <1>4 DEF FindFits
  <2>2. p \in DOMAIN parts
    BY SelectIn
  <2> QED BY <1>4, <2>1, <2>2 DEF FindFits, TypeOK, SaveOK
<1>5. CASE FindNothing
  BY <1>5, BusyCount DEF FindNothing, TypeOK, SaveOK, LoopHead
<1>6. CASE Evict
  <2>1. PICK v \in Victims :
          /\ parts' = [parts EXCEPT ![v].free = TRUE, ![v].stamp = 0]
          /\ cached' = [m \in DOMAIN cached \ MessageIn(v) |-> cached[m]]
          /\ save' = [save EXCEPT !.target = v]
    BY <1>6 DEF Evict
  <2>2. v \in DOMAIN parts
    BY DEF Victims, FirstOf, Busy
  <2>3. parts' \in [DOMAIN parts' -> Partition] /\ DOMAIN parts' = DOMAIN parts
    <3>1. parts[v] \in Partition
      BY <2>2 DEF TypeOK
    <3>2. [parts[v] EXCEPT !.free = TRUE, !.stamp = 0] \in Partition
      BY <3>1 DEF Partition
    <3>3. parts' = [parts EXCEPT ![v] = [parts[v] EXCEPT !.free = TRUE, !.stamp = 0]]
      BY <2>1, <2>2 DEF TypeOK
    <3> QED BY <2>2, <3>2, <3>3 DEF TypeOK
  <2>4. /\ cached' \in [DOMAIN cached' -> [part : Nat, len : Lens, used : Nat]]
        /\ DOMAIN cached' \subseteq DOMAIN cached
    BY <2>1 DEF TypeOK
  <2> QED BY <1>6, <2>1, <2>2, <2>3, <2>4 DEF Evict, TypeOK, SaveOK
<1>7. CASE ConsolidateDynamic
  <2> DEFINE f == save.target
  <2>1. f \in DOMAIN parts
    BY <1>7 DEF ConsolidateDynamic, SaveOK
  <2>2. parts' \in [DOMAIN parts' -> Partition] /\ DOMAIN parts' \subseteq DOMAIN parts
    <3>1. CASE parts[f].size = MemorySize
      BY <1>7, <3>1 DEF ConsolidateDynamic, TypeOK
    <3>2. CASE parts[f].size # MemorySize
      <4>1. PICK l \in (IF FreeLeft(f) = {} THEN {f} ELSE FreeLeft(f)),
                 r \in (IF FreeRight(f) = {} THEN {f} ELSE FreeRight(f)) :
              parts' = [Without(parts, {f, r} \ {l}) EXCEPT ![l].size = MergedSize(f, l, r)]
        BY <1>7, <3>2 DEF ConsolidateDynamic
      <4>2. l \in DOMAIN parts /\ r \in DOMAIN parts
        BY <2>1 DEF FreeLeft, FreeRight, LeftOf, RightOf, FirstOf
      <4>3. MergedSize(f, l, r) \in Int
        BY <2>1, <4>2 DEF MergedSize, TypeOK, Partition
      <4> QED BY <4>1, <4>2, <4>3 DEF Without, TypeOK, Partition
    <3> QED BY <3>1, <3>2
  <2> QED BY <1>7, <2>2 DEF ConsolidateDynamic, TypeOK, SaveOK
<1>8. CASE ConsolidateBuddies
  <2> DEFINE parent == parts[save.target].parent
  <2>1. PICK c, d :
          parts' = [p \in (DOMAIN parts \ {c, d}) \cup {parent} |->
                      IF p = parent THEN [parents[parent] EXCEPT !.rank = nextRank]
                      ELSE parts[p]]
    BY <1>8 DEF ConsolidateBuddies
  <2>2. parent \in DOMAIN parents
    BY <1>8 DEF ConsolidateBuddies
  <2>3. parents[parent] \in Partition
    BY <2>2 DEF TypeOK
  <2>4. [parents[parent] EXCEPT !.rank = nextRank] \in Partition
    BY <2>3 DEF TypeOK, Partition
  <2>5. /\ parts' \in [DOMAIN parts' -> Partition]
        /\ DOMAIN parts' = (DOMAIN parts \ {c, d}) \cup {parent}
    BY <2>1, <2>4 DEF TypeOK
  <2>6. parents' \in [DOMAIN parents' -> Partition] /\ DOMAIN parents' \subseteq DOMAIN parents
    BY <1>8 DEF ConsolidateBuddies, Without, TypeOK
  <2>7. parent \in Nat
    BY <2>2 DEF TypeOK
  <2>8. nextRank' \in Nat
    BY <1>8 DEF ConsolidateBuddies, AppendToList, TypeOK
  <2>9. save' = [save EXCEPT !.target = parent]
    BY <1>8 DEF ConsolidateBuddies
  <2>10. UNCHANGED <<nextId, cached, bytes, clock, lastSaved, pc>> /\ pc = "consolidate"
    BY <1>8 DEF ConsolidateBuddies
  <2> HIDE DEF parent
  <2> QED BY <2>2, <2>5, <2>6, <2>7, <2>8, <2>9, <2>10 DEF TypeOK, SaveOK
<1>9. CASE NoBuddyLeft
  BY <1>9 DEF NoBuddyLeft, TypeOK, SaveOK
<1>10. CASE RetryFits
  <2>1. PICK p \in Select(parts, Required) : save' = [save EXCEPT !.target = p]
    BY <1>10 DEF RetryFits
  <2>2. p \in DOMAIN parts
    BY SelectIn
  <2> QED BY <1>10, <2>1, <2>2 DEF RetryFits, TypeOK, SaveOK
<1>11. CASE RetryNothing
  BY <1>11 DEF RetryNothing, TypeOK, SaveOK
<1>12. CASE Compact
  <2>1. \A r : OffsetAt(r) \in Nat
    BY OffsetType
  <2>2. parts' \in [DOMAIN parts' -> Partition] /\ DOMAIN parts' = Busy(parts) \cup {nextId}
    <3>1. FreePartition(OffsetAt(nextRank), MemorySize - OffsetAt(nextRank), nextRank, 0)
            \in Partition
      BY <2>1 DEF FreePartition, Partition, TypeOK
    <3>2. \A p \in Busy(parts) : [parts[p] EXCEPT !.begin = NewBegin(p)] \in Partition
      BY <2>1 DEF NewBegin, Busy, Partition, TypeOK
    <3> QED BY <1>12, <3>1, <3>2 DEF Compact
  <2>3. DOMAIN bytes' = Addresses
    BY <1>12 DEF Compact, Slid
  <2>4. /\ nextId' = nextId + 1 /\ nextRank' = nextRank + 1 /\ pc = "compact" /\ pc' = "reselect"
        /\ UNCHANGED <<parents, cached, clock, lastSaved, save>>
    BY <1>12 DEF Compact, TakeIds, AppendToList
  <2>5. DOMAIN parts' \subseteq 0 .. nextId' - 1
    BY <2>2, <2>4 DEF TypeOK, Busy
  <2>6. DOMAIN parents' \subseteq 0 .. nextId' - 1
    BY <2>4 DEF TypeOK
  <2> QED BY <2>2, <2>3, <2>4, <2>5, <2>6 DEF TypeOK, SaveOK
<1>13. CASE ReselectFits
  <2>1. PICK p \in Select(parts, Required) : save' = [save EXCEPT !.target = p]
    BY <1>13 DEF ReselectFits
  <2>2. p \in DOMAIN parts
    BY SelectIn
  <2> QED BY <1>13, <2>1, <2>2 DEF ReselectFits, TypeOK, SaveOK
<1>14. CASE ReselectNothing
  BY <1>14 DEF ReselectNothing, TypeOK, SaveOK, LoopHead
<1>15. CASE TakePartition
  <2> DEFINE t == save.target
  <2>1. PICK now \in Readings :
          /\ clock' = now
          /\ parts' = [parts EXCEPT ![t].free = FALSE, ![t].stamp = now, ![t].rank = RankTaken(t)]
    BY <1>15 DEF TakePartition
  <2>2. now \in Nat /\ now \in 0 .. MaxClock
    BY DEF Readings, TypeOK
  <2>3. t \in DOMAIN parts /\ pc = "place"
    BY <1>15 DEF TakePartition, SaveOK
  <2>4. RankTaken(t) \in Nat
    BY <2>3 DEF RankTaken, TypeOK, Partition
  <2>5. parts' \in [DOMAIN parts' -> Partition] /\ DOMAIN parts' = DOMAIN parts
    <3>1. parts[t] \in Partition
      BY <2>3 DEF TypeOK
    <3> DEFINE new == [parts[t] EXCEPT !.free = FALSE, !.stamp = now, !.rank = RankTaken(t)]
    <3>2. new \in Partition
      BY <2>2, <2>4, <3>1 DEF Partition
    <3>3. parts' = [parts EXCEPT ![t] = new]
      BY <2>1, <2>3 DEF TypeOK
    <3> HIDE DEF new
    <3> QED BY <2>3, <3>2, <3>3 DEF TypeOK
  <2>6. DOMAIN bytes' = Addresses
    BY <1>15 DEF TakePartition, Stored
  <2> QED BY <1>15, <2>1, <2>2, <2>3, <2>5, <2>6 DEF TakePartition, AppendToList, TypeOK, SaveOK
<1>16. CASE CarvePartition
  <2> DEFINE t == save.target
  <2>1. PICK now \in Readings :
          /\ clock' = now
          /\ parts' = [p \in DOMAIN parts \cup {nextId} |->
                         IF p = nextId
                         THEN [FreePartition(parts[t].begin, Required, nextRank, 0)
                                 EXCEPT !.free = FALSE, !.stamp = now]
                         ELSE IF p = t
                         THEN [parts[t] EXCEPT !.begin = @ + Required, !.size = @ - Required]
                         ELSE parts[p]]
    BY <1>16 DEF CarvePartition
  <2>2. now \in Nat /\ now \in 0 .. MaxClock
    BY DEF Readings, TypeOK
  <2>3. t \in DOMAIN parts /\ parts[t] \in Partition
    BY <1>16 DEF CarvePartition, SaveOK, TypeOK
  <2>4. [FreePartition(parts[t].begin, Required, nextRank, 0)
           EXCEPT !.free = FALSE, !.stamp = now] \in Partition
    <3>1. FreePartition(parts[t].begin, Required, nextRank, 0) \in Partition
      BY <1>req, <2>3 DEF FreePartition, Partition, TypeOK
    <3> QED BY <2>2, <3>1 DEF Partition
  <2>5. [parts[t] EXCEPT !.begin = @ + Required, !.size = @ - Required] \in Partition
    <3>1. parts[t].begin + Required \in Int /\ parts[t].size - Required \in Int
      BY <1>req, <2>3 DEF Partition
    <3> QED BY <2>3, <3>1 DEF Partition
  <2>6. parts' \in [DOMAIN parts' -> Partition] /\ DOMAIN parts' = DOMAIN parts \cup {nextId}
    BY <2>1, <2>4, <2>5 DEF TypeOK
  <2>7. DOMAIN bytes' = Addresses
    BY <1>16 DEF CarvePartition, Stored
  <2> QED BY <1>16, <2>1, <2>2, <2>6, <2>7 DEF CarvePartition, TakeIds, AppendToList, TypeOK, SaveOK
<1>17. CASE SplitBuddy
  <2> DEFINE t    == save.target
             half == HalfOf(parts[t])
  <2>1. t \in DOMAIN parts /\ parts[t] \in Partition
    BY <1>17 DEF SplitBuddy, SaveOK, TypeOK
  <2>2. half \in Int /\ t \in Nat
    BY <2>1 DEF HalfOf, Partition, TypeOK
  <2>3. /\ FreePartition(parts[t].begin, half, nextRank, t) \in Partition
        /\ FreePartition(parts[t].begin + half, half, nextRank + 1, t) \in Partition
    BY <2>1, <2>2 DEF FreePartition, Partition, TypeOK
  <2>4. /\ parts' \in [DOMAIN parts' -> Partition]
        /\ DOMAIN parts' = (DOMAIN parts \ {t}) \cup {nextId, nextId + 1}
    BY <1>17, <2>3 DEF SplitBuddy, TypeOK
  <2>5. parents' \in [DOMAIN parents' -> Partition] /\ DOMAIN parents' = DOMAIN parents \cup {t}
    BY <1>17, <2>1 DEF SplitBuddy, TypeOK
  <2>6. /\ save' = [save EXCEPT !.target = nextId, !.firstOne = FALSE]
        /\ nextId' = nextId + 2 /\ nextRank' = nextRank + 2
        /\ UNCHANGED <<cached, bytes, clock, lastSaved, pc>> /\ pc = "place"
    BY <1>17 DEF SplitBuddy, TakeIds, AppendToList
  <2> HIDE DEF t, half
  <2>7. DOMAIN parts' \subseteq 0 .. nextId' - 1 /\ DOMAIN parents' \subseteq 0 .. nextId' - 1
    BY <2>1, <2>4, <2>5, <2>6 DEF TypeOK
  <2>8. nextId \in DOMAIN parts' /\ nextId \in Nat
    BY <2>4 DEF TypeOK
  <2>9. /\ save' \in [msg : 0 .. NMessages, len : Lens \cup {0}, busy : Nat, i : Nat,
                      target : Nat, firstOne : BOOLEAN]
        /\ save'.target = nextId /\ save'.len = save.len /\ save'.msg = save.msg
    BY <2>6, <2>8 DEF TypeOK
  <2> QED BY <2>4, <2>5, <2>6, <2>7, <2>8, <2>9 DEF TypeOK, SaveOK
<1>18. CASE Publish
  BY <1>18 DEF Publish, TypeOK, SaveOK, NoSave, NoMessage
<1>19. CASE UNCHANGED vars
  BY <1>19 DEF vars, TypeOK, SaveOK, Required
<1> QED BY <1>1, <1>2, <1>3, <1>4, <1>5, <1>6, <1>7, <1>8, <1>9, <1>10, <1>11, <1>12, <1>13,
           <1>14, <1>15, <1>16, <1>17, <1>18, <1>19 DEF Next, SaveStep

(* Types: in every state, of every instance and either scheme, partition   *)
(* ids and ranks are below the counters that hand them out and the cached  *)
(* messages are among those that were saved.                               *)
THEOREM TypeCorrect == Spec => []TypeOK
<1>1. Init => TypeInv
  BY TypeInit
<1>2. TypeInv /\ [Next]_vars => TypeInv'
  BY TypeStep
<1>3. TypeInv => TypeOK
  BY DEF TypeInv
<1> QED BY <1>1, <1>2, <1>3, PTL DEF Spec
-----------------------------------------------------------------------------
(* Dynamic partitioning. *)

(* The list order is total, an empty partition (what a compaction of a     *)
(* full memory leaves) lies at the end of the memory and is free.          *)
ListOK ==
  /\ \A p, q \in DOMAIN parts : p # q => parts[p].rank # parts[q].rank
  /\ \A p \in DOMAIN parts : parts[p].rank < nextRank
  /\ \A p \in DOMAIN parts : parts[p].size = 0 => parts[p].free /\ parts[p].begin = MemorySize

(* What the thread knows of the partition it works on, and that the        *)
(* message it saves is not cached yet.                                     *)
TargetOK ==
  /\ pc = "consolidate" => parts[save.target].free /\ parts[save.target].size > 0
  /\ pc = "place" => parts[save.target].free /\ parts[save.target].size >= Required
  /\ pc = "publish" => /\ ~ parts[save.target].free
                       /\ \A m \in DOMAIN cached : cached[m].part # save.target
  /\ pc # "idle" => save.msg \notin DOMAIN cached

DynInv == TypeInv /\ PartitionsDisjoint /\ ListOK /\ TargetOK /\ BusyIsCached

-----------------------------------------------------------------------------
(* Compaction arithmetic. *)

LEMMA RequiredType == TypeInv /\ pc # "idle" => Required \in Nat \ {0} /\ save.len <= Required /\ save.len \in Nat \ {0}
BY CacheAssumption DEF TypeInv, TypeOK, SaveOK, Required

(* As many bytes as the busy partitions have together are among those that *)
(* hold every byte of theirs.                                              *)
LEMMA OffsetWithin ==
  ASSUME TypeOK, PartitionsDisjoint, NEW r, NEW T \in SUBSET (0 .. MemorySize - 1),
         \A p \in Busy(parts) : \A n \in 1 .. MemorySize :
           n <= parts[p].size => parts[p].begin + n - 1 \in T
  PROVE  OffsetAt(r) <= Cardinality(T)
<1> DEFINE S == {pb \in Busy(parts) \X (1 .. MemorySize) :
                   parts[pb[1]].rank < r /\ pb[2] <= parts[pb[1]].size}
           f == [pb \in S |-> parts[pb[1]].begin + pb[2] - 1]
<1>1. ASSUME NEW x \in S PROVE f[x] \in T
  <2>1. x[1] \in Busy(parts) /\ x[2] \in 1 .. MemorySize /\ x[2] <= parts[x[1]].size
    OBVIOUS
  <2> QED BY <2>1
<1>2. ASSUME NEW x \in S, NEW y \in S, f[x] = f[y] PROVE x = y
  <2>1. /\ x[1] \in DOMAIN parts /\ x[2] \in 1 .. MemorySize /\ x[2] <= parts[x[1]].size
        /\ y[1] \in DOMAIN parts /\ y[2] \in 1 .. MemorySize /\ y[2] <= parts[y[1]].size
    BY DEF Busy
  <2>2. /\ parts[x[1]].begin \in Int /\ parts[x[1]].size \in Int
        /\ parts[y[1]].begin \in Int /\ parts[y[1]].size \in Int
    BY <2>1 DEF TypeOK, Partition
  <2>3. parts[x[1]].begin + x[2] - 1 = parts[y[1]].begin + y[2] - 1
    BY <1>2
  <2>4. x[1] = y[1]
    <3> SUFFICES ASSUME x[1] # y[1] PROVE FALSE
      OBVIOUS
    <3>1. \/ parts[x[1]].begin + parts[x[1]].size <= parts[y[1]].begin
          \/ parts[y[1]].begin + parts[y[1]].size <= parts[x[1]].begin
      BY <2>1 DEF PartitionsDisjoint, End
    <3> QED BY <2>1, <2>2, <2>3, <3>1, CacheAssumption
  <2>5. x[2] = y[2]
    BY <2>1, <2>2, <2>3, <2>4, CacheAssumption
  <2>6. x = <<x[1], x[2]>> /\ y = <<y[1], y[2]>>
    OBVIOUS
  <2> QED BY <2>4, <2>5, <2>6
<1>3. f \in Injection(S, T)
  <2>1. f \in [S -> T]
    BY <1>1
  <2>2. \A x, y \in S : f[x] = f[y] => x = y
    BY <1>2
  <2> HIDE DEF S, f
  <2> QED BY <2>1, <2>2 DEF Injection, IsInjective
<1>4. IsFiniteSet(T)
  <2>1. 0 \in Int /\ MemorySize - 1 \in Int
    BY CacheAssumption
  <2> QED BY <2>1, FS_Interval, FS_Subset
<1>5. Cardinality(S) <= Cardinality(T)
  <2> HIDE DEF S, f
  <2> QED BY <1>3, <1>4, FS_Injection
<1> QED BY <1>5 DEF OffsetAt

(* The busy partitions together have at most MemorySize bytes. *)
LEMMA OffsetBound ==
  ASSUME TypeOK, PartitionsDisjoint, NEW r
  PROVE  OffsetAt(r) <= MemorySize
<1>1. \A p \in Busy(parts) : \A n \in 1 .. MemorySize :
        n <= parts[p].size => parts[p].begin + n - 1 \in 0 .. MemorySize - 1
  <2> SUFFICES ASSUME NEW p \in Busy(parts), NEW n \in 1 .. MemorySize, n <= parts[p].size
               PROVE  parts[p].begin + n - 1 \in 0 .. MemorySize - 1
    OBVIOUS
  <2>1. /\ parts[p].begin \in Int /\ parts[p].size \in Int
        /\ 0 <= parts[p].begin /\ parts[p].begin + parts[p].size <= MemorySize
    BY DEF TypeOK, Partition, PartitionsDisjoint, End, Busy
  <2> QED BY <2>1, CacheAssumption
<1>2. Cardinality(0 .. MemorySize - 1) = MemorySize
  <2>1. 0 \in Int /\ MemorySize - 1 \in Int /\ ~ (0 > MemorySize - 1)
    BY CacheAssumption
  <2> QED BY <2>1, FS_Interval, CacheAssumption
<1> QED BY <1>1, <1>2, OffsetWithin

(* Each busy partition adds its size to the offset. *)
LEMMA OffsetStep ==
  ASSUME TypeOK, PartitionsDisjoint, NEW p \in Busy(parts), NEW r \in Nat, parts[p].rank < r
  PROVE  OffsetAt(parts[p].rank) + parts[p].size <= OffsetAt(r)
<1> DEFINE S(k) == {pb \in Busy(parts) \X (1 .. MemorySize) :
                      parts[pb[1]].rank < k /\ pb[2] <= parts[pb[1]].size}
           A == S(parts[p].rank)
           B == {p} \X (1 .. parts[p].size)
<1>1. IsFiniteSet(Busy(parts) \X (1 .. MemorySize))
  <2>1. Busy(parts) \in SUBSET (0 .. nextId - 1)
    BY DEF TypeOK, Busy
  <2>2. 0 \in Int /\ nextId - 1 \in Int /\ 1 \in Int /\ MemorySize \in Int
    BY CacheAssumption DEF TypeOK
  <2>3. IsFiniteSet(0 .. nextId - 1) /\ IsFiniteSet(1 .. MemorySize)
    BY <2>2, FS_Interval
  <2> QED BY <2>1, <2>3, FS_Subset, FS_Product
<1>2. /\ parts[p].size \in Nat /\ parts[p].size <= MemorySize
      /\ \A b \in Busy(parts) : parts[b].rank \in Nat
  BY CacheAssumption DEF TypeOK, Partition, PartitionsDisjoint, End, Busy
<1>3. A \subseteq S(r) /\ B \subseteq S(r) /\ A \cap B = {}
  BY <1>2, CacheAssumption
<1>4. IsFiniteSet(S(r)) /\ IsFiniteSet(A) /\ IsFiniteSet(B)
  BY <1>1, <1>3, FS_Subset
<1>5. Cardinality(B) = parts[p].size
  <2>1. IsFiniteSet({p}) /\ Cardinality({p}) = 1
    BY FS_Singleton
  <2>2. 1 \in Int /\ parts[p].size \in Int
    BY <1>2
  <2>3. IsFiniteSet(1 .. parts[p].size) /\ Cardinality(1 .. parts[p].size) = parts[p].size
    <3>1. /\ IsFiniteSet(1 .. parts[p].size)
          /\ Cardinality(1 .. parts[p].size) =
               IF 1 > parts[p].size THEN 0 ELSE parts[p].size - 1 + 1
      BY <2>2, FS_Interval
    <3> QED BY <1>2, <3>1
  <2>4. Cardinality(B) = Cardinality({p}) * Cardinality(1 .. parts[p].size)
    BY <2>1, <2>3, FS_Product
  <2> QED BY <1>2, <2>1, <2>3, <2>4
<1>6. Cardinality(A \cup B) = Cardinality(A) + Cardinality(B) - Cardinality(A \cap B)
  <2> HIDE DEF A, B, S
  <2> QED BY <1>4, FS_Union
<1>7. Cardinality(A \cap B) = 0
  BY <1>3, FS_EmptySet
<1>8. Cardinality(A \cup B) <= Cardinality(S(r))
  <2>1. A \cup B \in SUBSET S(r)
    BY <1>3
  <2> HIDE DEF A, B, S
  <2> QED BY <1>4, <2>1, FS_Subset
<1>9. Cardinality(A) \in Nat /\ Cardinality(S(r)) \in Nat
  <2> HIDE DEF A, B, S
  <2> QED BY <1>4, FS_CardinalityType
<1>10. Cardinality(A) + parts[p].size <= Cardinality(S(r))
  <2> HIDE DEF A, B, S
  <2> QED BY <1>2, <1>5, <1>6, <1>7, <1>8, <1>9
<1> QED BY <1>10 DEF OffsetAt

-----------------------------------------------------------------------------
(* One lemma per group of steps. *)

LEMMA DynInit == Dynamic /\ Init => DynInv
<1> SUFFICES ASSUME Dynamic, Init PROVE DynInv
  OBVIOUS
<1>1. TypeInv
  BY TypeInit
<1>2. /\ DOMAIN parts = {0} /\ parts[0] = FreePartition(0, MemorySize, 0, 0)
      /\ nextRank = 1 /\ DOMAIN cached = {} /\ pc = "idle"
  BY DEF Init
<1>3. PartitionsDisjoint /\ ListOK /\ BusyIsCached
  BY <1>2, CacheAssumption
     DEF PartitionsDisjoint, ListOK, BusyIsCached, FreePartition, Busy, End
<1>4. TargetOK
  BY <1>2 DEF TargetOK
<1> QED BY <1>1, <1>3, <1>4 DEF DynInv

(* Steps that move through the search and leave the memory alone. *)
LEMMA SearchSteps ==
  ASSUME Dynamic, DynInv, TypeInv',
         UNCHANGED <<parts, nextRank, cached>>,
         pc' # "publish" /\ pc # "publish",
         pc' # "idle" => save'.msg \notin DOMAIN cached,
         pc' = "consolidate" => FALSE,
         pc' = "place" => parts[save'.target].free /\ parts[save'.target].size >= Required'
  PROVE  DynInv'
BY DEF DynInv, PartitionsDisjoint, ListOK, TargetOK, BusyIsCached, Busy, End

LEMMA SaveMessageStep == Dynamic /\ DynInv /\ TypeInv' /\ SaveMessage => DynInv'
<1> SUFFICES ASSUME Dynamic, DynInv, TypeInv', SaveMessage PROVE DynInv'
  OBVIOUS
<1>1. save'.msg \notin DOMAIN cached
  BY DEF DynInv, TypeInv, TypeOK, SaveMessage, NoSave
<1>2. pc = "idle" /\ pc' = "find" /\ UNCHANGED <<parts, nextRank, cached>>
  BY DEF SaveMessage
<1> QED BY <1>1, <1>2, SearchSteps

LEMMA SelectSteps ==
  Dynamic /\ DynInv /\ TypeInv' /\ (FindFits \/ RetryFits \/ ReselectFits) => DynInv'
<1> SUFFICES ASSUME Dynamic, DynInv, TypeInv', FindFits \/ RetryFits \/ ReselectFits
             PROVE  DynInv'
  OBVIOUS
<1>1. /\ UNCHANGED <<parts, nextRank, cached>> /\ pc' = "place"
      /\ pc \in {"find", "retry", "reselect"}
  BY DEF FindFits, RetryFits, ReselectFits
<1>2. PICK p \in Select(parts, Required) : save' = [save EXCEPT !.target = p]
  BY DEF FindFits, RetryFits, ReselectFits
<1>3. save'.target = p /\ save'.len = save.len /\ save'.msg = save.msg
  BY <1>2 DEF DynInv, TypeInv, TypeOK
<1>4. Required' = Required
  BY <1>3 DEF Required
<1>5. parts[p].free /\ parts[p].size >= Required
  BY SelectIn
<1>6. save'.msg \notin DOMAIN cached
  BY <1>1, <1>3 DEF DynInv, TargetOK
<1> QED BY <1>1, <1>3, <1>4, <1>5, <1>6, SearchSteps

LEMMA LoopSteps ==
  Dynamic /\ DynInv /\ TypeInv' /\ (FindTooLarge \/ FindNothing \/ RetryNothing \/ ReselectNothing)
    => DynInv'
<1> SUFFICES ASSUME Dynamic, DynInv, TypeInv',
                    FindTooLarge \/ FindNothing \/ RetryNothing \/ ReselectNothing
             PROVE  DynInv'
  OBVIOUS
<1>1. /\ UNCHANGED <<parts, nextRank, cached>> /\ pc' \in {"crashed", "evict", "compact"}
      /\ pc \in {"find", "retry", "reselect"}
  BY DEF FindTooLarge, FindNothing, RetryNothing, ReselectNothing, LoopHead
<1>2. save'.msg = save.msg
  BY DEF FindTooLarge, FindNothing, RetryNothing, ReselectNothing, DynInv, TypeInv, TypeOK
<1>3. save'.msg \notin DOMAIN cached
  BY <1>1, <1>2 DEF DynInv, TargetOK
<1> QED BY <1>1, <1>3, SearchSteps

(* A read only stamps. *)
LEMMA ReadStep ==
  ASSUME Dynamic, DynInv, TypeInv', NEW S \in SUBSET DOMAIN cached, UpdateClockOn(S)
  PROVE  DynInv'
<1>1. PICK now :
        /\ parts' = [p \in DOMAIN parts |->
                       IF \E m \in S : cached[m].part = p
                       THEN [parts[p] EXCEPT !.stamp = now] ELSE parts[p]]
        /\ cached' = [m \in DOMAIN cached |->
                        IF m \in S THEN [cached[m] EXCEPT !.used = now] ELSE cached[m]]
  BY DEF UpdateClockOn
<1>2. /\ DOMAIN parts' = DOMAIN parts
      /\ \A p \in DOMAIN parts : /\ parts'[p].begin = parts[p].begin
                                 /\ parts'[p].size = parts[p].size
                                 /\ parts'[p].free = parts[p].free
                                 /\ parts'[p].rank = parts[p].rank
  BY <1>1 DEF DynInv, TypeInv, TypeOK, Partition
<1>3. /\ DOMAIN cached' = DOMAIN cached
      /\ \A m \in DOMAIN cached : cached'[m].part = cached[m].part
  BY <1>1 DEF DynInv, TypeInv, TypeOK
<1>4. pc = "idle" /\ UNCHANGED <<nextRank, pc, save>>
  BY DEF UpdateClockOn
<1>5. PartitionsDisjoint'
  BY <1>2 DEF DynInv, PartitionsDisjoint, End
<1>6. ListOK'
  BY <1>2, <1>4 DEF DynInv, ListOK
<1>7. TargetOK'
  BY <1>4 DEF TargetOK
<1>8. BusyIsCached'
  BY <1>2, <1>3, <1>4 DEF DynInv, BusyIsCached, Busy
<1> QED BY <1>5, <1>6, <1>7, <1>8 DEF DynInv

(* Evicting frees one partition and drops its message, and only that one. *)
LEMMA EvictStep == Dynamic /\ DynInv /\ TypeInv' /\ Evict => DynInv'
<1> SUFFICES ASSUME Dynamic, DynInv, TypeInv', Evict PROVE DynInv'
  OBVIOUS
<1>1. PICK v \in Victims :
        /\ parts' = [parts EXCEPT ![v].free = TRUE, ![v].stamp = 0]
        /\ cached' = [m \in DOMAIN cached \ MessageIn(v) |-> cached[m]]
        /\ save' = [save EXCEPT !.target = v]
  BY DEF Evict
<1>2. v \in Busy(parts) /\ v \in DOMAIN parts /\ ~ parts[v].free
  BY DEF Victims, FirstOf, Busy
<1>3. pc = "evict" /\ pc' = "consolidate" /\ UNCHANGED nextRank
  BY DEF Evict
<1>4. /\ DOMAIN parts' = DOMAIN parts
      /\ \A p \in DOMAIN parts : /\ parts'[p].begin = parts[p].begin
                                 /\ parts'[p].size = parts[p].size
                                 /\ parts'[p].rank = parts[p].rank
                                 /\ p # v => parts'[p].free = parts[p].free
      /\ parts'[v].free
  <2>1. parts[v] \in Partition
    BY <1>2 DEF DynInv, TypeInv, TypeOK
  <2> DEFINE new == [parts[v] EXCEPT !.free = TRUE, !.stamp = 0]
  <2>2. /\ new.begin = parts[v].begin /\ new.size = parts[v].size
        /\ new.rank = parts[v].rank /\ new.free
    BY <2>1 DEF Partition
  <2>3. parts' = [parts EXCEPT ![v] = new]
    BY <1>1, <1>2
  <2> HIDE DEF new
  <2> QED BY <1>2, <2>2, <2>3
<1>5. MessageIn(v) = {m \in DOMAIN cached : cached[m].part = v}
  <2>1. \A m, n \in DOMAIN cached : cached[m].part = cached[n].part => m = n
    BY DEF DynInv, BusyIsCached
  <2>2. \A m \in DOMAIN cached : m \in Nat /\ m <= m
    BY DEF DynInv, TypeInv, TypeOK
  <2>3. ASSUME NEW m \in DOMAIN cached, cached[m].part = v PROVE m \in MessageIn(v)
    <3>1. \A n \in DOMAIN cached : cached[n].part = v => m = n
      BY <2>1, <2>3
    <3> QED BY <2>2, <2>3, <3>1 DEF MessageIn
  <2> QED BY <2>3 DEF MessageIn
<1>6. /\ DOMAIN cached' = {m \in DOMAIN cached : cached[m].part # v}
      /\ \A m \in DOMAIN cached' : cached'[m].part = cached[m].part
  BY <1>1, <1>5
<1>7. PartitionsDisjoint'
  BY <1>4 DEF DynInv, PartitionsDisjoint, End
<1>8. ListOK'
  BY <1>2, <1>3, <1>4 DEF DynInv, ListOK
<1>9. save'.target = v /\ save'.msg = save.msg
  BY <1>1 DEF DynInv, TypeInv, TypeOK
<1>10. parts[v].size > 0
  BY <1>2 DEF DynInv, ListOK, PartitionsDisjoint, TypeInv, TypeOK, Partition
<1>11. TargetOK'
  BY <1>2, <1>3, <1>4, <1>6, <1>9, <1>10 DEF DynInv, TargetOK
<1>12. BusyIsCached'
  <2>1. Busy(parts)' = Busy(parts) \ {v}
    BY <1>2, <1>4 DEF Busy
  <2>2. /\ \A m \in DOMAIN cached : cached[m].part \in Busy(parts)
        /\ \A m, n \in DOMAIN cached : cached[m].part = cached[n].part => m = n
        /\ \A p \in Busy(parts) : \E m \in DOMAIN cached : cached[m].part = p
    BY <1>3 DEF DynInv, BusyIsCached
  <2>3. \A m \in DOMAIN cached' : cached'[m].part \in Busy(parts)'
    BY <1>6, <2>1, <2>2
  <2>4. \A m, n \in DOMAIN cached' : cached'[m].part = cached'[n].part => m = n
    BY <1>6, <2>2
  <2>5. \A p \in Busy(parts)' : \E m \in DOMAIN cached' : cached'[m].part = p
    BY <1>6, <2>1, <2>2
  <2> QED BY <2>3, <2>4, <2>5 DEF BusyIsCached
<1> QED BY <1>7, <1>8, <1>11, <1>12 DEF DynInv

(* Merging a freed partition with its free neighbours: the merged          *)
(* partition spans exactly the ones it replaces, which lie side by side.   *)
LEMMA ConsolidateStep == Dynamic /\ DynInv /\ TypeInv' /\ ConsolidateDynamic => DynInv'
<1> SUFFICES ASSUME Dynamic, DynInv, TypeInv', ConsolidateDynamic PROVE DynInv'
  OBVIOUS
<1> DEFINE f == save.target
<1>1. /\ pc = "consolidate" /\ pc' = "retry" /\ UNCHANGED <<nextRank, cached, save>>
      /\ f \in DOMAIN parts /\ parts[f].free /\ parts[f].size > 0
      /\ save.msg \notin DOMAIN cached
  BY DEF ConsolidateDynamic, DynInv, TypeInv, SaveOK, TargetOK
<1>2. TargetOK'
  BY <1>1 DEF TargetOK
<1>3. CASE parts[f].size = MemorySize
  <2>1. UNCHANGED parts
    BY <1>3 DEF ConsolidateDynamic
  <2> QED BY <1>1, <1>2, <2>1 DEF DynInv, PartitionsDisjoint, ListOK, BusyIsCached, Busy, End
<1>4. CASE parts[f].size # MemorySize
  <2>1. PICK l \in (IF FreeLeft(f) = {} THEN {f} ELSE FreeLeft(f)),
             r \in (IF FreeRight(f) = {} THEN {f} ELSE FreeRight(f)) :
          parts' = [Without(parts, {f, r} \ {l}) EXCEPT ![l].size = MergedSize(f, l, r)]
    BY <1>4 DEF ConsolidateDynamic
  <2>2. /\ l \in DOMAIN parts /\ parts[l].free
        /\ l = f \/ End(parts, l) = parts[f].begin
    BY <1>1 DEF FreeLeft, LeftOf, FirstOf
  <2>3. /\ r \in DOMAIN parts /\ parts[r].free
        /\ r = f \/ parts[r].begin = End(parts, f)
    BY <1>1 DEF FreeRight, RightOf, FirstOf
  <2>4. /\ DOMAIN parts' = DOMAIN parts \ ({f, r} \ {l})
        /\ l \in DOMAIN parts'
        /\ parts'[l].begin = parts[l].begin /\ parts'[l].size = MergedSize(f, l, r)
        /\ parts'[l].free = parts[l].free /\ parts'[l].rank = parts[l].rank
        /\ \A p \in DOMAIN parts' : p # l => parts'[p] = parts[p]
    BY <2>1, <2>2, ZenonT(30) DEF Without, DynInv, TypeInv, TypeOK, Partition
  <2>5. \A p \in DOMAIN parts :
          /\ parts[p].begin \in Int /\ parts[p].size \in Int /\ parts[p].rank \in Nat
          /\ 0 <= parts[p].begin /\ 0 <= parts[p].size
          /\ parts[p].begin + parts[p].size <= MemorySize
    BY DEF DynInv, PartitionsDisjoint, End, TypeInv, TypeOK, Partition
  <2>6. l # r \/ (l = f /\ r = f)
    BY <1>1, <2>2, <2>3, <2>5 DEF End
  <2>7. \A p, q \in DOMAIN parts : p # q =>
          \/ parts[p].begin + parts[p].size <= parts[q].begin
          \/ parts[q].begin + parts[q].size <= parts[p].begin
    BY DEF DynInv, PartitionsDisjoint, End
  <2>8. \A p \in DOMAIN parts : parts[p].size = 0 => parts[p].begin = MemorySize
    BY DEF DynInv, ListOK
  <2>9. /\ parts[l].begin + MergedSize(f, l, r) = parts[r].begin + parts[r].size
        /\ MergedSize(f, l, r) > 0 /\ MergedSize(f, l, r) \in Int
    BY <1>1, <2>2, <2>3, <2>5, <2>6 DEF MergedSize, End
  <2>10. ASSUME NEW q \in DOMAIN parts', q # l
         PROVE  \/ parts[l].begin + MergedSize(f, l, r) <= parts[q].begin
                \/ parts[q].begin + parts[q].size <= parts[l].begin
    <3>1. q \in DOMAIN parts /\ q # f /\ q # r /\ q # l
      BY <2>4, <2>10
    <3>2. parts[q].begin + parts[q].size <= parts[f].begin \/ End(parts, f) <= parts[q].begin
      BY <1>1, <2>7, <3>1 DEF End
    <3>3. parts[f].begin < MemorySize
      BY <1>1, <2>5, CacheAssumption
    <3>4. CASE parts[q].begin + parts[q].size <= parts[f].begin
      <4>1. CASE l = f
        BY <3>4, <4>1
      <4>2. CASE End(parts, l) = parts[f].begin
        <5>1. parts[q].size # 0
          <6>1. /\ parts[q].begin \in Int /\ parts[q].size \in Int /\ parts[f].begin \in Int
            BY <1>1, <2>5, <3>1
          <6>2. parts[q].size = 0 => parts[q].begin = MemorySize
            BY <2>8, <3>1
          <6> QED BY <3>3, <3>4, <6>1, <6>2, CacheAssumption
        <5>2. \/ parts[l].begin + parts[l].size <= parts[q].begin
              \/ parts[q].begin + parts[q].size <= parts[l].begin
          BY <2>2, <2>7, <3>1
        <5>3. parts[l].begin + parts[l].size = parts[f].begin
          BY <4>2 DEF End
        <5>4. /\ parts[q].size \in Int /\ parts[q].size >= 0 /\ parts[q].begin \in Int
              /\ parts[f].begin \in Int
          BY <1>1, <2>5, <3>1
        <5> QED BY <3>4, <5>1, <5>2, <5>3, <5>4
      <4> QED BY <2>2, <4>1, <4>2
    <3>5. CASE End(parts, f) <= parts[q].begin
      <4>1. CASE r = f
        BY <2>5, <2>9, <3>1, <3>5, <4>1 DEF End
      <4>2. CASE parts[r].begin = End(parts, f)
        <5>1. parts[r].begin + parts[r].size <= parts[q].begin
              \/ parts[q].begin + parts[q].size <= parts[r].begin
          BY <2>3, <2>7, <3>1
        <5>2. parts[q].size = 0 => parts[q].begin = MemorySize
          BY <2>8, <3>1
        <5> QED BY <2>3, <2>5, <2>9, <3>1, <3>5, <4>2, <5>1, <5>2, CacheAssumption
      <4> QED BY <2>3, <4>1, <4>2
    <3> QED BY <3>2, <3>4, <3>5
  <2>11. PartitionsDisjoint'
    <3>1. ASSUME NEW p \in DOMAIN parts'
          PROVE  0 <= parts'[p].begin /\ 0 <= parts'[p].size /\ End(parts, p)' <= MemorySize
      BY <2>2, <2>3, <2>4, <2>5, <2>9 DEF End
    <3>2. ASSUME NEW p \in DOMAIN parts', NEW q \in DOMAIN parts', p # q
          PROVE  End(parts, p)' <= parts'[q].begin \/ End(parts, q)' <= parts'[p].begin
      BY <2>4, <2>7, <2>10, <3>2 DEF End
    <3> QED BY <3>1, <3>2 DEF PartitionsDisjoint
  <2>12. ListOK'
    BY <1>1, <2>4, <2>9 DEF DynInv, ListOK
  <2>13. Busy(parts)' = Busy(parts)
    BY <1>1, <2>2, <2>3, <2>4 DEF Busy
  <2>14. BusyIsCached'
    BY <1>1, <2>13 DEF DynInv, BusyIsCached
  <2> QED BY <1>2, <2>11, <2>12, <2>14 DEF DynInv
<1> QED BY <1>3, <1>4

(* Where compaction puts the busy partitions. *)
LEMMA NewPlaces ==
  ASSUME DynInv
  PROVE  /\ \A p \in Busy(parts) :
              NewBegin(p) \in Nat /\ NewBegin(p) + parts[p].size <= MemorySize
         /\ \A p, q \in Busy(parts) : p # q =>
              \/ NewBegin(p) + parts[p].size <= NewBegin(q)
              \/ NewBegin(q) + parts[q].size <= NewBegin(p)
<1> USE DEF DynInv, TypeInv
<1>1. \A r : OffsetAt(r) \in Nat /\ OffsetAt(r) <= MemorySize
  BY OffsetType, OffsetBound
<1>2. nextRank \in Nat /\ MemorySize \in Nat
  BY CacheAssumption DEF TypeOK
<1>3. \A p \in Busy(parts) : /\ parts[p].size \in Int /\ parts[p].rank \in Nat
                             /\ parts[p].rank < nextRank /\ p \in DOMAIN parts
  BY DEF Busy, TypeOK, Partition, ListOK
<1>4. ASSUME NEW p \in Busy(parts)
      PROVE  NewBegin(p) \in Nat /\ NewBegin(p) + parts[p].size <= MemorySize
  <2>1. OffsetAt(parts[p].rank) + parts[p].size <= OffsetAt(nextRank)
    BY <1>2, <1>3, OffsetStep
  <2> QED BY <1>1, <1>2, <1>3, <2>1 DEF NewBegin
<1>5. ASSUME NEW p \in Busy(parts), NEW q \in Busy(parts), p # q
      PROVE  \/ NewBegin(p) + parts[p].size <= NewBegin(q)
             \/ NewBegin(q) + parts[q].size <= NewBegin(p)
  <2>1. parts[p].rank # parts[q].rank
    BY <1>3, <1>5 DEF ListOK
  <2>2. CASE parts[p].rank < parts[q].rank
    BY <1>3, <2>2, OffsetStep DEF NewBegin
  <2>3. CASE parts[q].rank < parts[p].rank
    BY <1>3, <2>3, OffsetStep DEF NewBegin
  <2> QED BY <1>3, <2>1, <2>2, <2>3
<1> QED BY <1>4, <1>5

(* Compacting: each busy partition lands after the end of the one before   *)
(* it in the list, and the free one takes what is left.                    *)
LEMMA CompactStep == Dynamic /\ DynInv /\ TypeInv' /\ Compact => DynInv'
<1> SUFFICES ASSUME Dynamic, DynInv, TypeInv', Compact PROVE DynInv'
  OBVIOUS
<1> USE DEF DynInv, TypeInv
<1> DEFINE total == OffsetAt(nextRank)
<1>1. /\ pc = "compact" /\ pc' = "reselect" /\ UNCHANGED <<cached, save>>
      /\ nextRank' = nextRank + 1 /\ nextRank \in Nat
      /\ DOMAIN parts' = Busy(parts) \cup {nextId} /\ nextId \notin Busy(parts)
      /\ parts'[nextId] = FreePartition(total, MemorySize - total, nextRank, 0)
      /\ \A p \in Busy(parts) : parts'[p] = [parts[p] EXCEPT !.begin = NewBegin(p)]
  BY DEF Compact, AppendToList, TypeOK, Busy
<1>2. \A p \in Busy(parts) : /\ parts[p].size \in Int /\ parts[p].rank \in Nat
                             /\ parts[p].size > 0 /\ parts[p].rank < nextRank
                             /\ p \in DOMAIN parts
  BY DEF Busy, TypeOK, Partition, PartitionsDisjoint, ListOK
<1>3. \A p \in Busy(parts) : /\ parts'[p].begin = NewBegin(p) /\ parts'[p].size = parts[p].size
                             /\ parts'[p].free = parts[p].free /\ parts'[p].rank = parts[p].rank
  BY <1>1, <1>2 DEF TypeOK, Partition
<1>4. \A r : OffsetAt(r) \in Nat /\ OffsetAt(r) <= MemorySize
  BY OffsetType, OffsetBound
<1>5. \A p \in Busy(parts) : NewBegin(p) \in Nat /\ NewBegin(p) + parts[p].size <= total
  <2> SUFFICES ASSUME NEW p \in Busy(parts)
               PROVE  NewBegin(p) \in Nat /\ NewBegin(p) + parts[p].size <= total
    OBVIOUS
  <2>1. NewBegin(p) \in Nat
    BY <1>4 DEF NewBegin
  <2>2. OffsetAt(parts[p].rank) + parts[p].size <= OffsetAt(nextRank)
    BY <1>1, <1>2, OffsetStep
  <2> QED BY <2>1, <2>2 DEF NewBegin
<1>6. \A p, q \in Busy(parts) : p # q =>
        \/ NewBegin(p) + parts[p].size <= NewBegin(q)
        \/ NewBegin(q) + parts[q].size <= NewBegin(p)
  BY NewPlaces
<1>7. /\ parts'[nextId].begin = total /\ parts'[nextId].size = MemorySize - total
      /\ parts'[nextId].free /\ parts'[nextId].rank = nextRank
      /\ total \in Nat /\ total <= MemorySize /\ MemorySize \in Nat
  BY <1>1, <1>4, CacheAssumption DEF FreePartition
<1> HIDE DEF total
<1>8. PartitionsDisjoint'
  <2>1. ASSUME NEW p \in DOMAIN parts'
        PROVE  0 <= parts'[p].begin /\ 0 <= parts'[p].size /\ End(parts, p)' <= MemorySize
    BY <1>1, <1>2, <1>3, <1>5, <1>7 DEF End
  <2>2. ASSUME NEW p \in DOMAIN parts', NEW q \in DOMAIN parts', p # q
        PROVE  End(parts, p)' <= parts'[q].begin \/ End(parts, q)' <= parts'[p].begin
    <3>1. CASE p \in Busy(parts) /\ q \in Busy(parts)
      BY <1>3, <1>6, <2>2, <3>1 DEF End
    <3>2. CASE p = nextId /\ q \in Busy(parts)
      BY <1>3, <1>5, <1>7, <3>2 DEF End
    <3>3. CASE q = nextId /\ p \in Busy(parts)
      BY <1>3, <1>5, <1>7, <3>3 DEF End
    <3> QED BY <1>1, <2>2, <3>1, <3>2, <3>3
  <2> QED BY <2>1, <2>2 DEF PartitionsDisjoint
<1>9. ListOK'
  <2>1. \A p, q \in DOMAIN parts' : p # q => parts'[p].rank # parts'[q].rank
    BY <1>1, <1>2, <1>3, <1>7 DEF ListOK
  <2>2. \A p \in DOMAIN parts' : parts'[p].rank < nextRank'
    BY <1>1, <1>2, <1>3, <1>7
  <2>3. \A p \in DOMAIN parts' : parts'[p].size = 0 =>
          parts'[p].free /\ parts'[p].begin = MemorySize
    BY <1>1, <1>2, <1>3, <1>7
  <2> QED BY <2>1, <2>2, <2>3 DEF ListOK
<1>10. TargetOK'
  BY <1>1 DEF TargetOK
<1>11. Busy(parts)' = Busy(parts)
  BY <1>1, <1>3, <1>7 DEF Busy
<1>12. BusyIsCached'
  BY <1>1, <1>11 DEF BusyIsCached
<1> QED BY <1>8, <1>9, <1>10, <1>12

(* Taking the target whole: dynamic partitioning does it on an exact fit only. *)
LEMMA TakeStep == Dynamic /\ DynInv /\ TypeInv' /\ TakePartition => DynInv'
<1> SUFFICES ASSUME Dynamic, DynInv, TypeInv', TakePartition PROVE DynInv'
  OBVIOUS
<1> USE DEF DynInv, TypeInv
<1> DEFINE t == save.target
<1>1. /\ pc = "place" /\ pc' = "publish" /\ UNCHANGED <<cached, save>>
      /\ nextRank' = nextRank + 1 /\ nextRank \in Nat
      /\ t \in DOMAIN parts /\ parts[t].free
  BY DEF TakePartition, AppendToList, TypeOK, SaveOK, TargetOK
<1>2. PICK now \in Readings :
        parts' = [parts EXCEPT ![t].free = FALSE, ![t].stamp = now, ![t].rank = RankTaken(t)]
  BY DEF TakePartition
<1>3. /\ DOMAIN parts' = DOMAIN parts
      /\ \A p \in DOMAIN parts : /\ parts'[p].begin = parts[p].begin
                                 /\ parts'[p].size = parts[p].size
                                 /\ p # t => parts'[p].free = parts[p].free
                                 /\ p # t => parts'[p].rank = parts[p].rank
      /\ ~ parts'[t].free /\ parts'[t].rank = RankTaken(t)
  BY <1>1, <1>2 DEF TypeOK, Partition
<1>4. parts[t].size > 0
  BY <1>1, RequiredType DEF TakePartition, TakenWhole
<1>5. PartitionsDisjoint'
  BY <1>3 DEF PartitionsDisjoint, End
<1>6. \A p \in DOMAIN parts : parts[p].rank \in Nat /\ parts[p].rank < nextRank
  BY DEF TypeOK, Partition, ListOK
<1>7. RankTaken(t) \in {nextRank, parts[t].rank}
  BY DEF RankTaken
<1>8. ListOK'
  <2>1. \A p, q \in DOMAIN parts' : p # q => parts'[p].rank # parts'[q].rank
    BY <1>1, <1>3, <1>6, <1>7 DEF ListOK
  <2>2. \A p \in DOMAIN parts' : parts'[p].rank < nextRank'
    BY <1>1, <1>3, <1>6, <1>7
  <2>3. \A p \in DOMAIN parts' : parts'[p].size = 0 =>
          parts'[p].free /\ parts'[p].begin = MemorySize
    BY <1>1, <1>3, <1>4 DEF ListOK
  <2> QED BY <2>1, <2>2, <2>3 DEF ListOK
<1>9. \A m \in DOMAIN cached : cached[m].part # t
  BY <1>1 DEF BusyIsCached, Busy
<1>10. TargetOK'
  BY <1>1, <1>3, <1>9 DEF TargetOK
<1>11. Busy(parts)' = Busy(parts) \cup {t}
  BY <1>1, <1>3 DEF Busy
<1>12. BusyIsCached'
  BY <1>1, <1>11 DEF BusyIsCached
<1> QED BY <1>5, <1>8, <1>10, <1>12

(* Carving a message out of the beginning of a larger free partition. *)
LEMMA CarveStep == Dynamic /\ DynInv /\ TypeInv' /\ CarvePartition => DynInv'
<1> SUFFICES ASSUME Dynamic, DynInv, TypeInv', CarvePartition PROVE DynInv'
  OBVIOUS
<1> USE DEF DynInv, TypeInv
<1> DEFINE t == save.target
           n == Required
<1>1. /\ pc = "place" /\ pc' = "publish" /\ UNCHANGED cached
      /\ save'.target = nextId /\ save'.msg = save.msg
      /\ nextRank' = nextRank + 1 /\ nextRank \in Nat
      /\ t \in DOMAIN parts /\ parts[t].free
      /\ nextId \in Nat /\ nextId \notin DOMAIN parts
  BY DEF CarvePartition, AppendToList, TypeOK, SaveOK, TargetOK
<1>2. /\ parts[t].begin \in Int /\ parts[t].size \in Int /\ n \in Nat \ {0}
      /\ parts[t].size > n
  <2>1. parts[t] \in Partition
    BY <1>1 DEF TypeOK
  <2>2. n \in Nat \ {0}
    BY <1>1, RequiredType
  <2>3. parts[t].size # n
    BY DEF CarvePartition, TakenWhole
  <2>4. parts[t].size >= n
    BY <1>1 DEF TargetOK
  <2> QED BY <2>1, <2>2, <2>3, <2>4 DEF Partition
<1>3. PICK now \in Readings :
        parts' = [p \in DOMAIN parts \cup {nextId} |->
                    IF p = nextId
                    THEN [FreePartition(parts[t].begin, Required, nextRank, 0)
                            EXCEPT !.free = FALSE, !.stamp = now]
                    ELSE IF p = t
                    THEN [parts[t] EXCEPT !.begin = @ + Required, !.size = @ - Required]
                    ELSE parts[p]]
  BY DEF CarvePartition
<1>4. /\ DOMAIN parts' = DOMAIN parts \cup {nextId}
      /\ parts'[nextId].begin = parts[t].begin /\ parts'[nextId].size = n
      /\ ~ parts'[nextId].free /\ parts'[nextId].rank = nextRank
      /\ parts'[t].begin = parts[t].begin + n /\ parts'[t].size = parts[t].size - n
      /\ parts'[t].free = parts[t].free /\ parts'[t].rank = parts[t].rank
      /\ \A p \in DOMAIN parts : p # t => parts'[p] = parts[p]
  BY <1>1, <1>3 DEF FreePartition, TypeOK, Partition
<1> HIDE DEF t, n
<1>5. \A p \in DOMAIN parts :
        /\ parts[p].begin \in Int /\ parts[p].size \in Int
        /\ 0 <= parts[p].begin /\ 0 <= parts[p].size
        /\ parts[p].begin + parts[p].size <= MemorySize
  BY DEF PartitionsDisjoint, End, TypeOK, Partition
<1>6. \A p, q \in DOMAIN parts : p # q =>
        \/ parts[p].begin + parts[p].size <= parts[q].begin
        \/ parts[q].begin + parts[q].size <= parts[p].begin
  BY DEF PartitionsDisjoint, End
<1>7. PartitionsDisjoint'
  <2>1. ASSUME NEW p \in DOMAIN parts'
        PROVE  0 <= parts'[p].begin /\ 0 <= parts'[p].size /\ End(parts, p)' <= MemorySize
    <3>1. 0 <= parts[t].begin /\ parts[t].begin + parts[t].size <= MemorySize
      BY <1>1, <1>5
    <3>2. CASE p = nextId
      BY <1>2, <1>4, <3>1, <3>2, CacheAssumption DEF End
    <3>3. CASE p = t
      BY <1>2, <1>4, <3>1, <3>3, CacheAssumption DEF End
    <3>4. CASE p # t /\ p # nextId
      BY <1>4, <1>5, <3>4 DEF End
    <3> QED BY <3>2, <3>3, <3>4
  <2>2. ASSUME NEW p \in DOMAIN parts', NEW q \in DOMAIN parts', p # q
        PROVE  End(parts, p)' <= parts'[q].begin \/ End(parts, q)' <= parts'[p].begin
    BY <1>1, <1>2, <1>4, <1>5, <1>6, <2>2 DEF End
  <2> QED BY <2>1, <2>2 DEF PartitionsDisjoint
<1>8. ListOK'
  <2>1. \A p \in DOMAIN parts : parts[p].rank \in Nat /\ parts[p].rank < nextRank
    BY DEF TypeOK, Partition, ListOK
  <2>2. \A p, q \in DOMAIN parts' : p # q => parts'[p].rank # parts'[q].rank
    BY <1>1, <1>4, <2>1 DEF ListOK
  <2>3. \A p \in DOMAIN parts' : parts'[p].rank < nextRank'
    BY <1>1, <1>4, <2>1
  <2>4. \A p \in DOMAIN parts' : parts'[p].size = 0 =>
          parts'[p].free /\ parts'[p].begin = MemorySize
    BY <1>1, <1>2, <1>4 DEF ListOK
  <2> QED BY <2>2, <2>3, <2>4 DEF ListOK
<1>9. \A m \in DOMAIN cached : cached[m].part # nextId
  BY <1>1 DEF BusyIsCached, Busy
<1>10. TargetOK'
  BY <1>1, <1>4, <1>9 DEF TargetOK
<1>11. Busy(parts)' = Busy(parts) \cup {nextId}
  BY <1>1, <1>4 DEF Busy
<1>12. BusyIsCached'
  BY <1>1, <1>11 DEF BusyIsCached
<1> QED BY <1>7, <1>8, <1>10, <1>12

(* Publishing gives the partition just taken its message. *)
LEMMA PublishStep == Dynamic /\ DynInv /\ TypeInv' /\ Publish => DynInv'
<1> SUFFICES ASSUME Dynamic, DynInv, TypeInv', Publish PROVE DynInv'
  OBVIOUS
<1> USE DEF DynInv, TypeInv
<1>1. /\ pc = "publish" /\ pc' = "idle" /\ UNCHANGED <<parts, nextRank>>
      /\ save.target \in Busy(parts)
      /\ save.msg \notin DOMAIN cached
      /\ \A m \in DOMAIN cached : cached[m].part # save.target
  BY DEF Publish, SaveOK, TargetOK, Busy
<1>2. /\ DOMAIN cached' = DOMAIN cached \cup {save.msg}
      /\ cached'[save.msg].part = save.target
      /\ \A m \in DOMAIN cached : cached'[m] = cached[m]
  BY <1>1 DEF Publish
<1>3. PartitionsDisjoint' /\ ListOK'
  BY <1>1 DEF PartitionsDisjoint, ListOK, End
<1>4. TargetOK'
  BY <1>1 DEF TargetOK
<1>5. BusyIsCached'
  <2>1. \A m \in DOMAIN cached' : cached'[m].part \in Busy(parts)'
    BY <1>1, <1>2 DEF BusyIsCached, Busy
  <2>2. \A m, k \in DOMAIN cached' : cached'[m].part = cached'[k].part => m = k
    BY <1>1, <1>2 DEF BusyIsCached
  <2>3. \A p \in Busy(parts)' : \E m \in DOMAIN cached' : cached'[m].part = p
    BY <1>1, <1>2 DEF BusyIsCached, Busy
  <2> QED BY <2>1, <2>2, <2>3 DEF BusyIsCached
<1> QED BY <1>3, <1>4, <1>5

LEMMA DynStep == Dynamic /\ DynInv /\ [Next]_vars => DynInv'
<1> SUFFICES ASSUME Dynamic, DynInv, [Next]_vars PROVE DynInv'
  OBVIOUS
<1>1. TypeInv'
  BY TypeStep DEF DynInv
<1>2. CASE UNCHANGED vars
  BY <1>2 DEF vars, DynInv, TypeInv, TypeOK, SaveOK, PartitionsDisjoint, ListOK, TargetOK,
              BusyIsCached, Busy, End, Required
<1>3. CASE \E S \in SUBSET DOMAIN cached \ {{}} : UpdateClockOn(S)
  BY <1>1, <1>3, ReadStep
<1>4. ~ ConsolidateBuddies /\ ~ NoBuddyLeft /\ ~ SplitBuddy
  BY DEF ConsolidateBuddies, NoBuddyLeft, SplitBuddy
<1> QED BY <1>1, <1>2, <1>3, <1>4, SaveMessageStep, SelectSteps, LoopSteps, EvictStep,
           ConsolidateStep, CompactStep, TakeStep, CarveStep, PublishStep
        DEF Next, SaveStep

LEMMA DynAlways == ASSUME Dynamic PROVE Spec => []DynInv
<1>1. Init => DynInv
  BY DynInit
<1>2. DynInv /\ [Next]_vars => DynInv'
  BY DynStep
<1> QED BY <1>1, <1>2, PTL DEF Spec

(* Dynamic partitioning never lets two partitions share a byte nor one     *)
(* reach outside full_memory: no memcpy of a message touches another's.    *)
THEOREM DynamicDisjoint == ASSUME Dynamic PROVE Spec => []PartitionsDisjoint
<1>1. DynInv => PartitionsDisjoint
  BY DEF DynInv
<1> QED BY <1>1, DynAlways, PTL

(* Under dynamic partitioning delete_partition drops exactly the message   *)
(* of the partition it frees, so busy partitions and cached messages stay  *)
(* in correspondence.                                                      *)
THEOREM DynamicBusyIsCached == ASSUME Dynamic PROVE Spec => []BusyIsCached
<1>1. DynInv => BusyIsCached
  BY DEF DynInv
<1> QED BY <1>1, DynAlways, PTL

-----------------------------------------------------------------------------
(* Reading back what was saved. *)

(* A cached message fits in its partition, and the message about to be     *)
(* published was copied into the partition it was given.                   *)
CopyOK ==
  /\ \A m \in DOMAIN cached : cached[m].len <= parts[cached[m].part].size
  /\ pc = "publish" =>
       /\ save.len <= parts[save.target].size
       /\ \A a \in parts[save.target].begin .. parts[save.target].begin + save.len - 1 :
            bytes[a] = save.msg

ContentInv == DynInv /\ ContentIntact /\ CopyOK

(* A step that keeps the bytes and the place of each message it keeps. *)
LEMMA ContentKept ==
  ASSUME ContentInv, UNCHANGED bytes, pc' # "publish",
         DOMAIN cached' \subseteq DOMAIN cached,
         \A m \in DOMAIN cached' :
           /\ cached'[m].part = cached[m].part /\ cached'[m].len = cached[m].len
           /\ cached[m].part \in DOMAIN parts'
           /\ parts'[cached[m].part].begin = parts[cached[m].part].begin
           /\ parts'[cached[m].part].size = parts[cached[m].part].size
  PROVE  (ContentIntact /\ CopyOK)'
BY DEF ContentInv, ContentIntact, CopyOK, Addresses

LEMMA CachedPart ==
  ASSUME DynInv, NEW m \in DOMAIN cached
  PROVE  cached[m].part \in Busy(parts) /\ cached[m].part \in DOMAIN parts
         /\ ~ parts[cached[m].part].free
BY DEF DynInv, BusyIsCached, Busy

LEMMA ConsolidateKeepsBusy ==
  ASSUME DynInv, ConsolidateDynamic, NEW p \in Busy(parts)
  PROVE  p \in DOMAIN parts' /\ parts'[p] = parts[p]
<1> DEFINE f == save.target
<1>1. f \in DOMAIN parts /\ parts[f].free
  BY DEF ConsolidateDynamic, DynInv, TypeInv, SaveOK, TargetOK
<1>2. p \in DOMAIN parts /\ ~ parts[p].free
  BY DEF Busy
<1>3. CASE UNCHANGED parts
  BY <1>2, <1>3
<1>4. CASE \E l \in (IF FreeLeft(f) = {} THEN {f} ELSE FreeLeft(f)),
              r \in (IF FreeRight(f) = {} THEN {f} ELSE FreeRight(f)) :
           parts' = [Without(parts, {f, r} \ {l}) EXCEPT ![l].size = MergedSize(f, l, r)]
  <2>1. PICK l \in (IF FreeLeft(f) = {} THEN {f} ELSE FreeLeft(f)),
             r \in (IF FreeRight(f) = {} THEN {f} ELSE FreeRight(f)) :
          parts' = [Without(parts, {f, r} \ {l}) EXCEPT ![l].size = MergedSize(f, l, r)]
    BY <1>4
  <2>2. parts[l].free /\ parts[r].free
    BY <1>1 DEF FreeLeft, FreeRight
  <2>3. p # l /\ p # r /\ p # f
    BY <1>1, <1>2, <2>2
  <2> QED BY <1>2, <2>1, <2>3 DEF Without
<1> QED BY <1>3, <1>4 DEF ConsolidateDynamic

LEMMA ContentCompact ==
  ASSUME ContentInv, Compact PROVE (ContentIntact /\ CopyOK)'
<1> USE DEF ContentInv
<1>1. /\ pc' = "reselect" /\ UNCHANGED cached /\ bytes' = Slid
      /\ DOMAIN parts' = Busy(parts) \cup {nextId} /\ nextId \notin Busy(parts)
      /\ \A p \in Busy(parts) : parts'[p] = [parts[p] EXCEPT !.begin = NewBegin(p)]
  BY DEF Compact, DynInv, TypeInv, TypeOK, Busy
<1>2. \A p \in Busy(parts) : /\ parts'[p].begin = NewBegin(p) /\ parts'[p].size = parts[p].size
                             /\ parts[p].begin \in Int /\ parts[p].size \in Int
  <2> SUFFICES ASSUME NEW p \in Busy(parts)
               PROVE  /\ parts'[p].begin = NewBegin(p) /\ parts'[p].size = parts[p].size
                      /\ parts[p].begin \in Int /\ parts[p].size \in Int
    OBVIOUS
  <2>1. parts[p] \in Partition
    BY DEF DynInv, TypeInv, TypeOK, Busy
  <2>2. parts'[p] = [parts[p] EXCEPT !.begin = NewBegin(p)]
    BY <1>1
  <2> QED BY <2>1, <2>2 DEF Partition
<1>3. ASSUME NEW m \in DOMAIN cached,
             NEW a \in NewBegin(cached[m].part) .. NewBegin(cached[m].part) + cached[m].len - 1
      PROVE  a \in Addresses /\ bytes'[a] = m
  <2> DEFINE p == cached[m].part
  <2>1. p \in Busy(parts) /\ p \in DOMAIN parts
    BY CachedPart
  <2>2. cached[m].len \in Nat /\ cached[m].len <= parts[p].size
    BY CacheAssumption DEF CopyOK, DynInv, TypeInv, TypeOK
  <2>3. NewBegin(p) \in Nat /\ NewBegin(p) + parts[p].size <= MemorySize
    BY <2>1, NewPlaces
  <2>4. a \in Addresses /\ a \in NewBegin(p) .. NewBegin(p) + parts[p].size - 1
    BY <1>2, <2>1, <2>2, <2>3, CacheAssumption DEF Addresses
  <2>5. ASSUME NEW q \in Busy(parts), a \in NewBegin(q) .. NewBegin(q) + parts[q].size - 1
        PROVE  q = p
    <3>1. NewBegin(q) \in Nat
      BY NewPlaces
    <3>2. q # p => \/ NewBegin(p) + parts[p].size <= NewBegin(q)
                   \/ NewBegin(q) + parts[q].size <= NewBegin(p)
      BY <2>1, NewPlaces
    <3> QED BY <1>2, <2>1, <2>3, <2>4, <2>5, <3>1, <3>2
  <2> DEFINE begin == [q \in Busy(parts) |-> NewBegin(q)]
             at(b) == {q \in Busy(parts) : b \in begin[q] .. begin[q] + parts[q].size - 1}
  <2>6. at(a) = {p}
    BY <2>1, <2>4, <2>5
  <2>7. Slid[a] = bytes[parts[p].begin + (a - NewBegin(p))]
    <3>1. Slid = [b \in Addresses |->
                    IF at(b) = {} THEN NoMessage
                    ELSE LET q == CHOOSE x \in at(b) : TRUE
                         IN  bytes[parts[q].begin + (b - begin[q])]]
      BY DEF Slid
    <3>2. (CHOOSE x \in at(a) : TRUE) = p
      BY <2>6
    <3>3. Slid[a] = bytes[parts[p].begin + (a - begin[p])]
      <4> HIDE DEF at, begin, p
      <4> QED BY <2>4, <2>6, <3>1, <3>2
    <3> QED BY <2>1, <3>3
  <2>8. parts[p].begin + (a - NewBegin(p)) \in parts[p].begin .. parts[p].begin + cached[m].len - 1
    BY <1>2, <2>1, <2>2, <2>3
  <2>9. bytes[parts[p].begin + (a - NewBegin(p))] = m
    BY <2>8 DEF ContentIntact
  <2> QED BY <1>1, <2>4, <2>7, <2>9
<1>4. ContentIntact'
  <2>1. \A m \in DOMAIN cached : cached[m].part \in Busy(parts)
    BY CachedPart
  <2> QED BY <1>1, <1>2, <1>3, <2>1 DEF ContentIntact, Addresses
<1>5. CopyOK'
  <2>1. \A m \in DOMAIN cached : cached[m].part \in Busy(parts)
    BY CachedPart
  <2> QED BY <1>1, <1>2, <2>1 DEF CopyOK
<1> QED BY <1>4, <1>5

(* memcpy into a free partition t touches no cached message. *)
LEMMA StoredElsewhere ==
  ASSUME ContentInv, NEW t \in DOMAIN parts, parts[t].free,
         save.len <= parts[t].size, save.len \in Nat,
         NEW m \in DOMAIN cached,
         NEW a \in parts[cached[m].part].begin .. parts[cached[m].part].begin + cached[m].len - 1
  PROVE  a \in Addresses /\ Stored(parts[t].begin)[a] = m
<1> DEFINE p == cached[m].part
<1>1. p \in DOMAIN parts /\ p # t
  BY CachedPart DEF ContentInv
<1>2. /\ parts[p].begin \in Int /\ parts[p].size \in Int
      /\ parts[t].begin \in Int /\ parts[t].size \in Int
      /\ cached[m].len \in Nat /\ cached[m].len <= parts[p].size
  BY <1>1, CacheAssumption DEF ContentInv, DynInv, TypeInv, TypeOK, Partition, CopyOK
<1>3. \/ parts[p].begin + parts[p].size <= parts[t].begin
      \/ parts[t].begin + parts[t].size <= parts[p].begin
  BY <1>1 DEF ContentInv, DynInv, PartitionsDisjoint, End
<1>4. a \in Addresses /\ bytes[a] = m
  BY DEF ContentInv, ContentIntact
<1>5. a \notin parts[t].begin .. parts[t].begin + save.len - 1
  BY <1>2, <1>3
<1> QED BY <1>4, <1>5 DEF Stored

LEMMA ContentTake ==
  ASSUME ContentInv, TakePartition PROVE (ContentIntact /\ CopyOK)'
<1> USE DEF ContentInv, DynInv, TypeInv
<1> DEFINE t == save.target
<1>1. /\ pc = "place" /\ pc' = "publish" /\ UNCHANGED <<cached, save>>
      /\ t \in DOMAIN parts /\ parts[t].free /\ parts[t].size >= Required
      /\ bytes' = Stored(parts[t].begin)
  BY DEF TakePartition, SaveOK, TargetOK
<1>2. /\ DOMAIN parts' = DOMAIN parts
      /\ \A p \in DOMAIN parts : parts'[p].begin = parts[p].begin /\ parts'[p].size = parts[p].size
  <2>1. PICK now : parts' = [parts EXCEPT ![t].free = FALSE, ![t].stamp = now,
                                         ![t].rank = RankTaken(t)]
    BY DEF TakePartition
  <2> QED BY <1>1, <2>1 DEF TypeOK, Partition
<1>3. save.len \in Nat /\ save.len <= parts[t].size
  <2>1. Required \in Nat /\ save.len <= Required /\ save.len \in Nat
    BY <1>1, RequiredType
  <2> QED BY <1>1, <2>1 DEF TypeOK, Partition
<1>4. ContentIntact'
  <2>1. \A m \in DOMAIN cached :
          \A a \in parts[cached[m].part].begin .. parts[cached[m].part].begin + cached[m].len - 1 :
            a \in Addresses /\ bytes'[a] = m
    BY <1>1, <1>3, StoredElsewhere
  <2>2. \A m \in DOMAIN cached : cached[m].part \in DOMAIN parts
    BY CachedPart
  <2> QED BY <1>1, <1>2, <2>1, <2>2 DEF ContentIntact, Addresses
<1>5. \A a \in parts[t].begin .. parts[t].begin + save.len - 1 : bytes'[a] = save.msg
  <2>1. /\ parts[t].begin \in Int /\ 0 <= parts[t].begin /\ parts[t].size \in Int
        /\ parts[t].begin + parts[t].size <= MemorySize
    BY <1>1 DEF PartitionsDisjoint, End, TypeOK, Partition
  <2> QED BY <1>1, <1>3, <2>1, CacheAssumption DEF Stored, Addresses
<1>6. CopyOK'
  BY <1>1, <1>2, <1>3, <1>5, CachedPart DEF CopyOK
<1> QED BY <1>4, <1>6

LEMMA ContentCarve ==
  ASSUME ContentInv, CarvePartition PROVE (ContentIntact /\ CopyOK)'
<1> USE DEF ContentInv, DynInv, TypeInv
<1> DEFINE t == save.target
<1>1. /\ pc = "place" /\ pc' = "publish" /\ UNCHANGED cached
      /\ save' = [save EXCEPT !.target = nextId]
      /\ t \in DOMAIN parts /\ parts[t].free /\ parts[t].size >= Required
      /\ nextId \notin DOMAIN parts
      /\ bytes' = Stored(parts[t].begin)
  BY DEF CarvePartition, SaveOK, TargetOK, TypeOK
<1>2. save'.target = nextId /\ save'.len = save.len /\ save'.msg = save.msg
  BY <1>1 DEF TypeOK
<1>3. /\ DOMAIN parts' = DOMAIN parts \cup {nextId}
      /\ parts'[nextId].begin = parts[t].begin /\ parts'[nextId].size = Required
      /\ \A p \in DOMAIN parts : p # t => parts'[p] = parts[p]
  <2>1. PICK now :
          parts' = [p \in DOMAIN parts \cup {nextId} |->
                      IF p = nextId
                      THEN [FreePartition(parts[t].begin, Required, nextRank, 0)
                              EXCEPT !.free = FALSE, !.stamp = now]
                      ELSE IF p = t
                      THEN [parts[t] EXCEPT !.begin = @ + Required, !.size = @ - Required]
                      ELSE parts[p]]
    BY DEF CarvePartition
  <2> QED BY <1>1, <2>1 DEF FreePartition
<1>4. /\ save.len \in Nat /\ save.len <= Required /\ save.len <= parts[t].size
      /\ Required \in Nat
  <2>1. Required \in Nat /\ save.len <= Required /\ save.len \in Nat
    BY <1>1, RequiredType
  <2> QED BY <1>1, <2>1 DEF TypeOK, Partition
<1>5. \A m \in DOMAIN cached : cached[m].part \in DOMAIN parts /\ cached[m].part # t
  BY <1>1, CachedPart
<1>6. ContentIntact'
  <2>1. \A m \in DOMAIN cached :
          \A a \in parts[cached[m].part].begin .. parts[cached[m].part].begin + cached[m].len - 1 :
            a \in Addresses /\ bytes'[a] = m
    BY <1>1, <1>4, StoredElsewhere
  <2> QED BY <1>1, <1>3, <1>5, <2>1 DEF ContentIntact, Addresses
<1>7. \A a \in parts[t].begin .. parts[t].begin + save.len - 1 : bytes'[a] = save.msg
  <2>1. /\ parts[t].begin \in Int /\ 0 <= parts[t].begin /\ parts[t].size \in Int
        /\ parts[t].begin + parts[t].size <= MemorySize
    BY <1>1 DEF PartitionsDisjoint, End, TypeOK, Partition
  <2> QED BY <1>1, <1>4, <2>1, CacheAssumption, SMTT(20) DEF Stored, Addresses
<1>8. CopyOK'
  BY <1>1, <1>2, <1>3, <1>4, <1>5, <1>7 DEF CopyOK
<1> QED BY <1>6, <1>8

LEMMA ContentPublish ==
  ASSUME ContentInv, Publish PROVE (ContentIntact /\ CopyOK)'
<1> USE DEF ContentInv, DynInv, TypeInv
<1>1. /\ pc = "publish" /\ pc' = "idle" /\ UNCHANGED <<parts, bytes>>
      /\ DOMAIN cached' = DOMAIN cached \cup {save.msg}
      /\ save.msg \notin DOMAIN cached
      /\ cached'[save.msg].part = save.target /\ cached'[save.msg].len = save.len
      /\ \A m \in DOMAIN cached : cached'[m] = cached[m]
      /\ save.target \in DOMAIN parts
  BY DEF Publish, TargetOK, SaveOK
<1>2. /\ save.len \in Nat /\ save.len <= parts[save.target].size
      /\ \A a \in parts[save.target].begin .. parts[save.target].begin + save.len - 1 :
           a \in Addresses /\ bytes[a] = save.msg
  <2>1. /\ parts[save.target].begin \in Int /\ 0 <= parts[save.target].begin
        /\ parts[save.target].size \in Int
        /\ parts[save.target].begin + parts[save.target].size <= MemorySize
    BY <1>1 DEF PartitionsDisjoint, End, TypeOK, Partition
  <2>2. save.len \in Nat
    BY <1>1, RequiredType
  <2> QED BY <1>1, <2>1, <2>2, CacheAssumption DEF CopyOK, Addresses
<1>3. ContentIntact'
  BY <1>1, <1>2 DEF ContentIntact, Addresses
<1>4. CopyOK'
  BY <1>1, <1>2 DEF CopyOK
<1> QED BY <1>3, <1>4

LEMMA ContentStep == ASSUME Dynamic PROVE ContentInv /\ [Next]_vars => ContentInv'
<1> SUFFICES ASSUME ContentInv, [Next]_vars PROVE ContentInv'
  OBVIOUS
<1>1. DynInv'
  BY DynStep DEF ContentInv
<1> SUFFICES (ContentIntact /\ CopyOK)'
  BY <1>1 DEF ContentInv
<1>2. CASE UNCHANGED vars
  BY <1>2 DEF vars, ContentInv, ContentIntact, CopyOK
<1>3. CASE SaveMessage \/ FindFits \/ RetryFits \/ ReselectFits
           \/ FindTooLarge \/ FindNothing \/ RetryNothing \/ ReselectNothing
  <2>1. UNCHANGED <<parts, cached, bytes>> /\ pc' # "publish"
    BY <1>3 DEF SaveMessage, FindFits, RetryFits, ReselectFits, FindTooLarge, FindNothing,
                RetryNothing, ReselectNothing, LoopHead
  <2>2. \A m \in DOMAIN cached : cached[m].part \in DOMAIN parts
    BY CachedPart DEF ContentInv
  <2> QED BY <2>1, <2>2, ContentKept
<1>4. ASSUME NEW S \in SUBSET DOMAIN cached, UpdateClockOn(S) PROVE (ContentIntact /\ CopyOK)'
  <2>1. PICK now :
          /\ parts' = [p \in DOMAIN parts |->
                         IF \E m \in S : cached[m].part = p
                         THEN [parts[p] EXCEPT !.stamp = now] ELSE parts[p]]
          /\ cached' = [m \in DOMAIN cached |->
                          IF m \in S THEN [cached[m] EXCEPT !.used = now] ELSE cached[m]]
    BY <1>4 DEF UpdateClockOn
  <2>2. UNCHANGED bytes /\ pc' # "publish"
    BY <1>4 DEF UpdateClockOn
  <2>3. \A p \in DOMAIN parts : /\ p \in DOMAIN parts'
                                /\ parts'[p].begin = parts[p].begin
                                /\ parts'[p].size = parts[p].size
    BY <2>1 DEF ContentInv, DynInv, TypeInv, TypeOK, Partition
  <2>4. /\ DOMAIN cached' = DOMAIN cached
        /\ \A m \in DOMAIN cached :
             cached'[m].part = cached[m].part /\ cached'[m].len = cached[m].len
    BY <2>1 DEF ContentInv, DynInv, TypeInv, TypeOK
  <2>5. \A m \in DOMAIN cached : cached[m].part \in DOMAIN parts
    BY CachedPart DEF ContentInv
  <2> QED BY <2>2, <2>3, <2>4, <2>5, ContentKept
<1>5. CASE Evict
  <2>1. PICK v \in Victims :
          /\ parts' = [parts EXCEPT ![v].free = TRUE, ![v].stamp = 0]
          /\ cached' = [m \in DOMAIN cached \ MessageIn(v) |-> cached[m]]
    BY <1>5 DEF Evict
  <2>2. UNCHANGED bytes /\ pc' # "publish"
    BY <1>5 DEF Evict
  <2>3. \A p \in DOMAIN parts : /\ p \in DOMAIN parts'
                                /\ parts'[p].begin = parts[p].begin
                                /\ parts'[p].size = parts[p].size
    BY <2>1 DEF ContentInv, DynInv, TypeInv, TypeOK, Partition
  <2>4. /\ DOMAIN cached' \subseteq DOMAIN cached
        /\ \A m \in DOMAIN cached' : cached'[m] = cached[m]
    BY <2>1
  <2>5. \A m \in DOMAIN cached : cached[m].part \in DOMAIN parts
    BY CachedPart DEF ContentInv
  <2> QED BY <2>2, <2>3, <2>4, <2>5, ContentKept
<1>6. CASE ConsolidateDynamic
  <2>1. UNCHANGED <<cached, bytes>> /\ pc' # "publish"
    BY <1>6 DEF ConsolidateDynamic
  <2>2. \A m \in DOMAIN cached : cached[m].part \in Busy(parts)
    BY CachedPart DEF ContentInv
  <2>3. \A p \in Busy(parts) : p \in DOMAIN parts' /\ parts'[p] = parts[p]
    BY <1>6, ConsolidateKeepsBusy DEF ContentInv
  <2> QED BY <2>1, <2>2, <2>3, ContentKept
<1>7. ~ ConsolidateBuddies /\ ~ NoBuddyLeft /\ ~ SplitBuddy
  BY DEF ConsolidateBuddies, NoBuddyLeft, SplitBuddy
<1> QED BY <1>2, <1>3, <1>4, <1>5, <1>6, <1>7, ContentCompact, ContentTake, ContentCarve,
           ContentPublish DEF Next, SaveStep

(* Under dynamic partitioning a message that is in the cache reads back as *)
(* it was saved, through every eviction, merge, split and compaction.      *)
THEOREM DynamicContentIntact == ASSUME Dynamic PROVE Spec => []ContentIntact
<1>1. Init => ContentInv
  BY DynInit DEF Init, ContentInv, ContentIntact, CopyOK
<1>2. ContentInv /\ [Next]_vars => ContentInv'
  BY ContentStep
<1>3. ContentInv => ContentIntact
  BY DEF ContentInv
<1> QED BY <1>1, <1>2, <1>3, PTL DEF Spec

-----------------------------------------------------------------------------
(* No byte is lost, and free neighbours are merged. *)

Adjacent(p, q) ==
  /\ parts[p].free /\ parts[q].free /\ parts[p].size > 0 /\ parts[q].size > 0
  /\ End(parts, p) = parts[q].begin

(* Two free neighbours exist only while one of them is being consolidated. *)
MergedInv ==
  \A p, q \in DOMAIN parts : Adjacent(p, q) => pc = "consolidate" /\ save.target \in {p, q}

Searching == {"evict", "consolidate", "retry", "compact", "reselect"}

(* What is searched for fits in the memory, so there is something to evict. *)
RoomInv ==
  /\ pc \in Searching => Required <= MemorySize
  /\ pc = "evict" => Busy(parts) # {}

SpaceInv == DynInv /\ NoMemoryLost /\ MergedInv /\ RoomInv

(* The first of some partitions. *)
LEMMA SomeFirst ==
  ASSUME TypeOK, NEW S \in SUBSET DOMAIN parts, S # {}
  PROVE  FirstOf(parts, S) # {}
<1> DEFINE Ranks == {parts[p].rank : p \in S}
<1>1. Ranks \in SUBSET Nat /\ Ranks # {}
  BY DEF TypeOK, Partition
<1>2. PICK n \in Ranks : \A m \in Ranks : n <= m
  <2> HIDE DEF Ranks
  <2> QED BY <1>1, LeastNatural
<1>3. PICK p \in S : parts[p].rank = n
  BY <1>2
<1>4. p \in FirstOf(parts, S)
  BY <1>2, <1>3 DEF FirstOf
<1> QED BY <1>4

(* select_partition finds one if there is one. *)
LEMMA SelectFinds ==
  ASSUME TypeOK, PartitionsDisjoint, NEW size, Fitting(parts, size) # {}
  PROVE  Select(parts, size) # {}
<1> DEFINE fit == Fitting(parts, size)
           Sizes == {parts[p].size : p \in fit}
<1>1. fit \in SUBSET DOMAIN parts
  BY DEF Fitting
<1>2. Sizes \in SUBSET Nat /\ Sizes # {}
  BY <1>1 DEF TypeOK, Partition, PartitionsDisjoint
<1>3. PICK n \in Sizes : \A m \in Sizes : n <= m
  <2> HIDE DEF Sizes
  <2> QED BY <1>2, LeastNatural
<1>4. PICK p \in fit : parts[p].size = n
  BY <1>3
<1>5. p \in {x \in fit : \A q \in fit : parts[x].size <= parts[q].size}
  BY <1>3, <1>4
<1> HIDE DEF fit
<1>6. FirstOf(parts, {x \in fit : \A q \in fit : parts[x].size <= parts[q].size}) # {}
  BY <1>1, <1>5, SomeFirst
<1>7. FirstOf(parts, fit) # {}
  BY <1>1, <1>4, SomeFirst
<1> QED BY <1>6, <1>7 DEF Select, fit

LEMMA Sizes ==
  ASSUME DynInv, NEW p \in DOMAIN parts
  PROVE  /\ parts[p].begin \in Nat /\ parts[p].size \in Nat /\ parts[p].rank \in Nat
         /\ parts[p].rank < nextRank /\ parts[p].begin + parts[p].size <= MemorySize
         /\ parts[p].free \in BOOLEAN
         /\ parts[p].size = 0 => parts[p].free /\ parts[p].begin = MemorySize
         /\ End(parts, p) = parts[p].begin + parts[p].size
BY DEF DynInv, TypeInv, TypeOK, Partition, PartitionsDisjoint, ListOK, End

LEMMA Apart ==
  ASSUME DynInv, NEW p \in DOMAIN parts, NEW q \in DOMAIN parts, p # q
  PROVE  \/ parts[p].begin + parts[p].size <= parts[q].begin
         \/ parts[q].begin + parts[q].size <= parts[p].begin
BY DEF DynInv, PartitionsDisjoint, End

LEMMA Holder ==
  ASSUME Dynamic, DynInv, NoMemoryLost, NEW a \in Nat, a < MemorySize
  PROVE  \E p \in DOMAIN parts : parts[p].begin <= a /\ a < parts[p].begin + parts[p].size
<1>1. a \in 0 .. MemorySize - 1
  BY CacheAssumption
<1>2. PICK p \in DOMAIN parts : a \in parts[p].begin .. End(parts, p) - 1
  BY <1>1 DEF NoMemoryLost
<1> QED BY <1>2, Sizes

(* The partitions that lie next to p: the one with the last byte before    *)
(* it, and the one with the first byte after it.                           *)
LEMMA Preceded ==
  ASSUME Dynamic, DynInv, NoMemoryLost, NEW p \in DOMAIN parts, parts[p].begin > 0
  PROVE  \E q \in DOMAIN parts : parts[q].size > 0 /\ End(parts, q) = parts[p].begin
<1>1. parts[p].begin - 1 \in Nat /\ parts[p].begin - 1 < MemorySize
  BY Sizes, CacheAssumption
<1>2. PICK q \in DOMAIN parts : /\ parts[q].begin <= parts[p].begin - 1
                                /\ parts[p].begin - 1 < parts[q].begin + parts[q].size
  BY <1>1, Holder
<1>3. p # q
  BY <1>2, Sizes
<1>4. parts[q].size > 0 /\ End(parts, q) = parts[p].begin
  BY <1>2, <1>3, Sizes, Apart
<1> QED BY <1>4

LEMMA Followed ==
  ASSUME Dynamic, DynInv, NoMemoryLost, NEW p \in DOMAIN parts, parts[p].size > 0,
         End(parts, p) < MemorySize
  PROVE  \E q \in DOMAIN parts : parts[q].size > 0 /\ End(parts, p) = parts[q].begin
<1>1. End(parts, p) \in Nat
  BY Sizes
<1>2. PICK q \in DOMAIN parts : /\ parts[q].begin <= End(parts, p)
                                /\ End(parts, p) < parts[q].begin + parts[q].size
  BY <1>1, Holder
<1>3. p # q
  BY <1>2, Sizes
<1>4. parts[q].size > 0 /\ End(parts, p) = parts[q].begin
  BY <1>2, <1>3, Sizes, Apart
<1> QED BY <1>4

(* A memory in which nothing is busy is one partition. *)
LEMMA NothingBusy ==
  ASSUME Dynamic, SpaceInv, Busy(parts) = {}, pc # "consolidate"
  PROVE  \E p \in DOMAIN parts : parts[p].free /\ parts[p].size = MemorySize
<1> USE DEF SpaceInv
<1>1. \A q \in DOMAIN parts : parts[q].free
  BY Sizes DEF Busy
<1>2. PICK p \in DOMAIN parts : parts[p].begin <= 0 /\ 0 < parts[p].begin + parts[p].size
  BY Holder, CacheAssumption
<1>3. parts[p].begin = 0 /\ parts[p].size > 0 /\ End(parts, p) = parts[p].size
  BY <1>2, Sizes
<1>4. ~ (End(parts, p) < MemorySize)
  <2> SUFFICES ASSUME End(parts, p) < MemorySize PROVE FALSE
    OBVIOUS
  <2>1. PICK q \in DOMAIN parts : parts[q].size > 0 /\ End(parts, p) = parts[q].begin
    BY <1>3, Followed
  <2>2. Adjacent(p, q)
    BY <1>1, <1>3, <2>1 DEF Adjacent
  <2> QED BY <2>2 DEF MergedInv
<1>5. parts[p].size = MemorySize
  BY <1>3, <1>4, Sizes, CacheAssumption
<1> QED BY <1>1, <1>5

(* So a search that finds nothing has a victim. *)
LEMMA VictimExists ==
  ASSUME Dynamic, SpaceInv, pc # "consolidate", pc # "idle",
         Required <= MemorySize, Select(parts, Required) = {}
  PROVE  Busy(parts) # {}
<1> SUFFICES ASSUME Busy(parts) = {} PROVE FALSE
  OBVIOUS
<1>1. PICK p \in DOMAIN parts : parts[p].free /\ parts[p].size = MemorySize
  BY NothingBusy
<1>2. p \in Fitting(parts, Required)
  BY <1>1 DEF Fitting
<1> QED BY <1>2, SelectFinds DEF SpaceInv, DynInv, TypeInv

-----------------------------------------------------------------------------
(* One lemma per group of steps. *)

SpaceKept == NoMemoryLost /\ MergedInv

LEMMA Covers ==
  ASSUME Dynamic, DynInv',
         \A a \in Nat : a < MemorySize =>
           \E p \in DOMAIN parts' : /\ parts'[p].begin <= a
                                    /\ a < parts'[p].begin + parts'[p].size
  PROVE  NoMemoryLost'
<1> SUFFICES ASSUME NEW a \in 0 .. MemorySize - 1
             PROVE  \E p \in DOMAIN parts' : a \in parts'[p].begin .. End(parts, p)' - 1
  BY DEF NoMemoryLost
<1>1. a \in Nat /\ a < MemorySize
  BY CacheAssumption
<1>2. PICK p \in DOMAIN parts' : /\ parts'[p].begin <= a
                                 /\ a < parts'[p].begin + parts'[p].size
  BY <1>1
<1>3. parts'[p].begin \in Int /\ parts'[p].size \in Int
  BY DEF DynInv, TypeInv, TypeOK, Partition
<1>4. a \in parts'[p].begin .. End(parts, p)' - 1
  BY <1>1, <1>2, <1>3 DEF End
<1> QED BY <1>4

LEMMA SpaceInit == Dynamic /\ Init => SpaceInv
<1> SUFFICES ASSUME Dynamic, Init PROVE SpaceInv
  OBVIOUS
<1>1. /\ DOMAIN parts = {0} /\ parts[0] = FreePartition(0, MemorySize, 0, 0) /\ pc = "idle"
  BY DEF Init
<1>2. NoMemoryLost /\ MergedInv /\ RoomInv
  BY <1>1, CacheAssumption
     DEF NoMemoryLost, MergedInv, RoomInv, Searching, Adjacent, FreePartition, End
<1> QED BY <1>2, DynInit DEF SpaceInv

(* Steps that leave the places of the partitions alone and free none. *)
LEMMA PlacesKept ==
  ASSUME Dynamic, SpaceInv, pc # "consolidate", DOMAIN parts' = DOMAIN parts,
         \A p \in DOMAIN parts : /\ parts'[p].begin = parts[p].begin
                                 /\ parts'[p].size = parts[p].size
                                 /\ parts'[p].free => parts[p].free
  PROVE  SpaceKept'
<1>1. NoMemoryLost'
  BY DEF SpaceInv, NoMemoryLost, End
<1>2. MergedInv'
  BY DEF SpaceInv, MergedInv, Adjacent, End
<1> QED BY <1>1, <1>2 DEF SpaceKept

LEMMA SpaceEvict == ASSUME Dynamic, SpaceInv, Evict PROVE SpaceKept'
<1>1. PICK v \in Victims :
        /\ parts' = [parts EXCEPT ![v].free = TRUE, ![v].stamp = 0]
        /\ save' = [save EXCEPT !.target = v]
  BY DEF Evict
<1>2. v \in DOMAIN parts /\ pc = "evict" /\ pc' = "consolidate"
  BY DEF Victims, FirstOf, Busy, Evict
<1>3. save'.target = v
  BY <1>1 DEF SpaceInv, DynInv, TypeInv, TypeOK
<1>4. /\ DOMAIN parts' = DOMAIN parts
      /\ \A p \in DOMAIN parts : /\ parts'[p].begin = parts[p].begin
                                 /\ parts'[p].size = parts[p].size
                                 /\ p # v => parts'[p].free = parts[p].free
  BY <1>1, <1>2, ZenonT(30) DEF SpaceInv, DynInv, TypeInv, TypeOK, Partition
<1>5. NoMemoryLost'
  BY <1>4 DEF SpaceInv, NoMemoryLost, End
<1>6. MergedInv'
  <2> SUFFICES ASSUME NEW p \in DOMAIN parts, NEW q \in DOMAIN parts, Adjacent(p, q)'
               PROVE  v \in {p, q}
    BY <1>2, <1>3, <1>4 DEF MergedInv
  <2>1. p # v /\ q # v => Adjacent(p, q)
    BY <1>4 DEF Adjacent, End
  <2> QED BY <1>2, <2>1 DEF SpaceInv, MergedInv
<1> QED BY <1>5, <1>6 DEF SpaceKept

(* What merging does. *)
Merges(f, l, r) ==
  /\ l \in DOMAIN parts /\ parts[l].free /\ (l = f \/ End(parts, l) = parts[f].begin)
  /\ r \in DOMAIN parts /\ parts[r].free /\ (r = f \/ End(parts, f) = parts[r].begin)
  /\ l = f => FreeLeft(f) = {}
  /\ r = f => FreeRight(f) = {}
  /\ r # f => End(parts, f) < MemorySize
  /\ DOMAIN parts' = DOMAIN parts \ ({f, r} \ {l})
  /\ parts'[l].begin = parts[l].begin /\ parts'[l].free
  /\ parts'[l].begin + parts'[l].size = End(parts, r) /\ parts'[l].size > 0
  /\ \A p \in DOMAIN parts' : p # l => parts'[p] = parts[p]

LEMMA ConsolidateMerges ==
  ASSUME Dynamic, DynInv, ConsolidateDynamic, parts[save.target].size # MemorySize
  PROVE  \E l, r : Merges(save.target, l, r)
<1> DEFINE f == save.target
<1>1. f \in DOMAIN parts /\ parts[f].free /\ parts[f].size > 0
  BY DEF ConsolidateDynamic, DynInv, TypeInv, SaveOK, TargetOK
<1>2. PICK l \in (IF FreeLeft(f) = {} THEN {f} ELSE FreeLeft(f)),
           r \in (IF FreeRight(f) = {} THEN {f} ELSE FreeRight(f)) :
        parts' = [Without(parts, {f, r} \ {l}) EXCEPT ![l].size = MergedSize(f, l, r)]
  BY DEF ConsolidateDynamic
<1> HIDE DEF f
<1>3. l \in DOMAIN parts /\ parts[l].free /\ (l = f \/ End(parts, l) = parts[f].begin)
  BY <1>1, <1>2 DEF FreeLeft, LeftOf, FirstOf
<1>4. /\ r \in DOMAIN parts /\ parts[r].free /\ (r = f \/ End(parts, f) = parts[r].begin)
      /\ r # f => FreeRight(f) # {}
  BY <1>1, <1>2 DEF FreeRight, RightOf, FirstOf
<1>5. l # f => End(parts, l) = parts[f].begin
  BY <1>3
<1>6. r # f => End(parts, f) = parts[r].begin /\ End(parts, f) < MemorySize
  BY <1>1, <1>4, Sizes, CacheAssumption DEF FreeRight
<1>7. l = f => FreeLeft(f) = {}
  <2> SUFFICES ASSUME f \in FreeLeft(f) PROVE FALSE
    BY <1>2
  <2>1. End(parts, f) = parts[f].begin
    BY DEF FreeLeft, LeftOf, FirstOf
  <2> QED BY <1>1, <2>1, Sizes
<1>8. r = f => FreeRight(f) = {}
  <2> SUFFICES ASSUME f \in FreeRight(f) PROVE FALSE
    BY <1>2
  <2>1. End(parts, f) = parts[f].begin
    BY DEF FreeRight, RightOf, FirstOf
  <2> QED BY <1>1, <2>1, Sizes
<1>9. l # r \/ (l = f /\ r = f)
  <2> SUFFICES ASSUME l = r, l # f PROVE FALSE
    BY <1>3
  <2>1. End(parts, l) = parts[f].begin /\ End(parts, f) = parts[l].begin
    BY <1>5, <1>6
  <2> QED BY <1>1, <1>3, <2>1, Sizes
<1>10. /\ DOMAIN parts' = DOMAIN parts \ ({f, r} \ {l})
       /\ l \in DOMAIN parts'
       /\ parts'[l].begin = parts[l].begin /\ parts'[l].size = MergedSize(f, l, r)
       /\ parts'[l].free = parts[l].free
       /\ \A p \in DOMAIN parts' : p # l => parts'[p] = parts[p]
  BY <1>2, <1>3, ZenonT(30) DEF Without, DynInv, TypeInv, TypeOK, Partition
<1>11. /\ parts[l].begin + MergedSize(f, l, r) = End(parts, r)
       /\ MergedSize(f, l, r) > 0
  BY <1>1, <1>3, <1>4, <1>5, <1>6, <1>9, Sizes DEF MergedSize
<1>12. Merges(f, l, r)
  BY <1>3, <1>4, <1>6, <1>7, <1>8, <1>10, <1>11 DEF Merges
<1> QED BY <1>12 DEF f

(* What the searches for a free neighbour miss does not exist. *)
LEMMA LeftFound ==
  ASSUME DynInv, NEW f \in DOMAIN parts, parts[f].size > 0,
         NEW p \in DOMAIN parts, Adjacent(p, f), FreeLeft(f) = {}
  PROVE  FALSE
<1>1. parts[f].begin > 0 /\ parts[f].begin < MemorySize
  BY Sizes, CacheAssumption DEF Adjacent
<1>2. ASSUME NEW q \in DOMAIN parts, End(parts, q) = parts[f].begin PROVE q = p
  <2>1. parts[q].size # 0
    BY <1>1, <1>2, Sizes, CacheAssumption
  <2> QED BY <1>2, <2>1, Sizes, Apart DEF Adjacent
<1>3. {q \in DOMAIN parts : End(parts, q) = parts[f].begin} = {p}
  BY <1>2 DEF Adjacent
<1>4. p \in LeftOf(f)
  BY <1>3, Sizes DEF LeftOf, FirstOf
<1> QED BY <1>1, <1>4 DEF FreeLeft, Adjacent

LEMMA RightFound ==
  ASSUME DynInv, NEW f \in DOMAIN parts, parts[f].size > 0,
         NEW p \in DOMAIN parts, Adjacent(f, p), FreeRight(f) = {}
  PROVE  FALSE
<1>1. End(parts, f) < MemorySize /\ End(parts, f) \in Nat
  BY Sizes, CacheAssumption DEF Adjacent
<1>2. ASSUME NEW q \in DOMAIN parts, parts[q].begin = End(parts, f) PROVE q = p
  <2>1. parts[q].size # 0
    BY <1>1, <1>2, Sizes, CacheAssumption
  <2> QED BY <1>2, <2>1, Sizes, Apart DEF Adjacent
<1>3. {q \in DOMAIN parts : parts[q].begin = End(parts, f)} = {p}
  BY <1>2 DEF Adjacent
<1>4. p \in RightOf(f)
  BY <1>3, Sizes DEF RightOf, FirstOf
<1> QED BY <1>1, <1>4, CacheAssumption DEF FreeRight, Adjacent

LEMMA SpaceConsolidate ==
  ASSUME Dynamic, SpaceInv, ConsolidateDynamic, DynInv' PROVE SpaceKept'
<1> DEFINE f == save.target
<1>1. DynInv /\ DynInv'
  BY DEF SpaceInv
<1>2. f \in DOMAIN parts /\ parts[f].free /\ parts[f].size > 0 /\ pc' = "retry"
  BY DEF SpaceInv, ConsolidateDynamic, DynInv, TypeInv, SaveOK, TargetOK
<1>3. CASE parts[f].size = MemorySize
  <2>1. UNCHANGED parts
    BY <1>3 DEF ConsolidateDynamic
  <2>2. NoMemoryLost'
    BY <2>1 DEF SpaceInv, NoMemoryLost, End
  <2>3. ASSUME NEW p \in DOMAIN parts, NEW q \in DOMAIN parts, Adjacent(p, q) PROVE FALSE
    <3>1. PICK x \in {p, q} : x # f
      BY <1>1, <2>3, Sizes DEF Adjacent
    <3>2. parts[x].size > 0 /\ x \in DOMAIN parts
      BY <2>3 DEF Adjacent
    <3> QED BY <1>1, <1>2, <1>3, <3>1, <3>2, Sizes, Apart, CacheAssumption
  <2>4. MergedInv'
    BY <2>1, <2>3 DEF MergedInv, Adjacent, End
  <2> QED BY <2>2, <2>4 DEF SpaceKept
<1>4. CASE parts[f].size # MemorySize
  <2>1. PICK l, r : Merges(f, l, r)
    BY <1>1, <1>4, ConsolidateMerges
  <2> HIDE DEF f
  <2>2. /\ l \in DOMAIN parts /\ parts[l].free /\ (l = f \/ End(parts, l) = parts[f].begin)
        /\ r \in DOMAIN parts /\ parts[r].free /\ (r = f \/ End(parts, f) = parts[r].begin)
        /\ DOMAIN parts' = DOMAIN parts \ ({f, r} \ {l})
        /\ parts'[l].begin = parts[l].begin /\ parts'[l].free /\ parts'[l].size > 0
        /\ parts'[l].begin + parts'[l].size = End(parts, r)
        /\ \A p \in DOMAIN parts' : p # l => parts'[p] = parts[p]
    BY <2>1 DEF Merges
  <2>3. l \in DOMAIN parts'
    BY <2>2
  <2>4. parts[l].size > 0 /\ parts[r].size > 0
    BY <1>1, <1>2, <2>1, <2>2, Sizes, CacheAssumption DEF Merges
  <2>5. /\ parts[l].begin <= parts[f].begin /\ parts[f].begin + parts[f].size <= End(parts, r)
        /\ l # f => End(parts, l) = parts[f].begin
        /\ r # f => parts[r].begin = End(parts, f)
    BY <1>1, <1>2, <2>2, Sizes
  <2>6. NoMemoryLost'
    <3> SUFFICES ASSUME NEW a \in Nat, a < MemorySize
                 PROVE  \E p \in DOMAIN parts' : /\ parts'[p].begin <= a
                                                 /\ a < parts'[p].begin + parts'[p].size
      BY <1>1, Covers
    <3>1. PICK p \in DOMAIN parts : /\ parts[p].begin <= a
                                    /\ a < parts[p].begin + parts[p].size
      BY <1>1, Holder DEF SpaceInv
    <3>2. CASE p \in {f, l, r}
      <4>1. parts[l].begin <= a /\ a < parts'[l].begin + parts'[l].size
        BY <1>1, <1>2, <2>2, <2>4, <2>5, <3>1, <3>2, Sizes
      <4> QED BY <2>2, <2>3, <4>1
    <3>3. CASE p \notin {f, l, r}
      <4>1. p \in DOMAIN parts' /\ parts'[p] = parts[p]
        BY <2>2, <3>3
      <4> QED BY <3>1, <4>1
    <3> QED BY <3>2, <3>3
  <2>7. ASSUME NEW p \in DOMAIN parts', NEW q \in DOMAIN parts', Adjacent(p, q)' PROVE FALSE
    <3> DEFINE Old == \A x, y \in DOMAIN parts : Adjacent(x, y) => f \in {x, y}
    <3>0. Old
      BY DEF SpaceInv, MergedInv, f
    <3> HIDE DEF Old
    <3>1. /\ parts'[p].free /\ parts'[q].free /\ parts'[p].size > 0 /\ parts'[q].size > 0
          /\ parts'[p].begin + parts'[p].size = parts'[q].begin
      BY <2>7 DEF Adjacent, End
    <3>2. \A x \in DOMAIN parts' : x # l =>
            x \in DOMAIN parts /\ x # f /\ x # r /\ parts'[x] = parts[x]
      BY <2>2
    <3>3. CASE p # l /\ q # l
      <4>1. Adjacent(p, q)
        BY <3>1, <3>2, <3>3 DEF Adjacent, End
      <4> QED BY <3>0, <3>2, <3>3, <4>1 DEF Old
    <3>4. CASE p = l /\ q = l
      <4>1. parts'[l].begin \in Int /\ parts'[l].size \in Int
        BY <1>1, <2>2, <2>3, Sizes DEF DynInv, TypeInv, TypeOK, Partition
      <4> QED BY <3>1, <3>4, <4>1
    <3>5. CASE p = l /\ q # l
      <4>1. Adjacent(r, q)
        BY <2>2, <2>4, <3>1, <3>2, <3>5 DEF Adjacent
      <4>2. CASE r = f
        <5>1. FreeRight(f) = {}
          BY <2>1, <4>2 DEF Merges
        <5> QED BY <1>1, <1>2, <3>2, <3>5, <4>1, <4>2, <5>1, RightFound
      <4>3. CASE r # f
        BY <2>2, <3>0, <3>2, <3>5, <4>1, <4>3 DEF Old
      <4> QED BY <4>2, <4>3
    <3>6. CASE p # l /\ q = l
      <4>1. Adjacent(p, l)
        BY <2>2, <2>4, <3>1, <3>2, <3>6 DEF Adjacent, End
      <4>2. CASE l = f
        <5>1. FreeLeft(f) = {}
          BY <2>1, <4>2 DEF Merges
        <5> QED BY <1>1, <1>2, <3>2, <3>6, <4>1, <4>2, <5>1, LeftFound
      <4>3. CASE l # f
        BY <2>2, <3>0, <3>2, <3>6, <4>1, <4>3 DEF Old
      <4> QED BY <4>2, <4>3
    <3> QED BY <3>3, <3>4, <3>5, <3>6
  <2>8. MergedInv'
    BY <2>7 DEF MergedInv
  <2> QED BY <2>6, <2>8 DEF SpaceKept
<1> QED BY <1>3, <1>4

LEMMA SpaceCarve == ASSUME Dynamic, SpaceInv, CarvePartition, DynInv' PROVE SpaceKept'
<1> DEFINE t == save.target
           n == Required
<1>0. DynInv /\ TypeInv
  BY DEF SpaceInv, DynInv
<1>1. /\ t \in DOMAIN parts /\ parts[t].free /\ nextId \notin DOMAIN parts
      /\ pc = "place" /\ n \in Nat \ {0} /\ parts[t].size > n
  <2>1. /\ t \in DOMAIN parts /\ parts[t].free /\ nextId \notin DOMAIN parts
        /\ pc = "place" /\ parts[t].size >= n /\ parts[t].size # n
    BY <1>0 DEF DynInv, TypeInv, CarvePartition, TakenWhole, TypeOK, SaveOK, TargetOK
  <2>2. n \in Nat \ {0}
    BY <1>0, <2>1, RequiredType
  <2> QED BY <1>0, <2>1, <2>2, Sizes
<1>2. /\ DOMAIN parts' = DOMAIN parts \cup {nextId}
      /\ parts'[nextId].begin = parts[t].begin /\ parts'[nextId].size = n
      /\ ~ parts'[nextId].free
      /\ parts'[t].begin = parts[t].begin + n /\ parts'[t].size = parts[t].size - n
      /\ \A p \in DOMAIN parts : p # t => parts'[p] = parts[p]
  <2>1. PICK now \in Readings :
          parts' = [p \in DOMAIN parts \cup {nextId} |->
                      IF p = nextId
                      THEN [FreePartition(parts[t].begin, Required, nextRank, 0)
                              EXCEPT !.free = FALSE, !.stamp = now]
                      ELSE IF p = t
                      THEN [parts[t] EXCEPT !.begin = @ + Required, !.size = @ - Required]
                      ELSE parts[p]]
    BY DEF CarvePartition
  <2> QED BY <1>0, <1>1, <2>1 DEF FreePartition, TypeInv, TypeOK, Partition
<1> HIDE DEF t, n
<1>3. NoMemoryLost'
  <2> SUFFICES ASSUME NEW a \in Nat, a < MemorySize
               PROVE  \E p \in DOMAIN parts' : /\ parts'[p].begin <= a
                                               /\ a < parts'[p].begin + parts'[p].size
    BY Covers
  <2>1. PICK p \in DOMAIN parts : parts[p].begin <= a /\ a < parts[p].begin + parts[p].size
    BY <1>0, Holder DEF SpaceInv
  <2>2. CASE p # t
    BY <1>2, <2>1, <2>2
  <2>3. CASE p = t /\ a < parts[t].begin + n
    BY <1>2, <2>1, <2>3
  <2>4. CASE p = t /\ ~ (a < parts[t].begin + n)
    <3>1. /\ a \in Int /\ parts[t].begin \in Nat /\ parts[t].size \in Nat
          /\ a < parts[t].begin + parts[t].size /\ a >= parts[t].begin + n
      BY <1>0, <1>1, <2>1, <2>4, Sizes
    <3> QED BY <1>1, <1>2, <3>1
  <2> QED BY <2>2, <2>3, <2>4
<1>4. ASSUME NEW p \in DOMAIN parts', NEW q \in DOMAIN parts', Adjacent(p, q)' PROVE FALSE
  <2>1. /\ parts'[p].free /\ parts'[q].free /\ parts'[p].size > 0 /\ parts'[q].size > 0
        /\ parts'[p].begin + parts'[p].size = parts'[q].begin
    BY <1>4 DEF Adjacent, End
  <2>2. p \in DOMAIN parts /\ q \in DOMAIN parts
    BY <1>2, <2>1
  <2>3. CASE q # t
    <3>1. Adjacent(p, q)
      BY <1>0, <1>1, <1>2, <2>1, <2>2, <2>3, Sizes DEF Adjacent, End
    <3> QED BY <1>1, <2>2, <3>1 DEF SpaceInv, MergedInv
  <2>4. CASE q = t /\ p # t
    BY <1>0, <1>1, <1>2, <2>1, <2>2, <2>4, Sizes, Apart
  <2>5. CASE q = t /\ p = t
    BY <1>0, <1>1, <1>2, <2>1, <2>5, Sizes
  <2> QED BY <2>3, <2>4, <2>5
<1>5. MergedInv'
  BY <1>4 DEF MergedInv
<1> QED BY <1>3, <1>5 DEF SpaceKept

-----------------------------------------------------------------------------
(* Compaction: the byte at a place below the offset belongs to the         *)
(* partition that was copied there.                                        *)

BytesBefore(r) ==
  {pb \in Busy(parts) \X (1 .. MemorySize) :
     parts[pb[1]].rank < r /\ pb[2] <= parts[pb[1]].size}

LEMMA BytesFinite == ASSUME TypeOK, NEW r PROVE IsFiniteSet(BytesBefore(r))
<1>1. Busy(parts) \in SUBSET (0 .. nextId - 1)
  BY DEF TypeOK, Busy
<1>2. 0 \in Int /\ nextId - 1 \in Int /\ 1 \in Int /\ MemorySize \in Int
  BY CacheAssumption DEF TypeOK
<1>3. IsFiniteSet(0 .. nextId - 1) /\ IsFiniteSet(1 .. MemorySize)
  BY <1>2, FS_Interval
<1>4. IsFiniteSet(Busy(parts) \X (1 .. MemorySize))
  BY <1>1, <1>3, FS_Subset, FS_Product
<1>5. BytesBefore(r) \in SUBSET (Busy(parts) \X (1 .. MemorySize))
  BY DEF BytesBefore
<1> QED BY <1>4, <1>5, FS_Subset

(* The offset passes each partition by no more than its size. *)
LEMMA OffsetNext ==
  ASSUME DynInv, NEW k \in Nat
  PROVE  \/ OffsetAt(k + 1) = OffsetAt(k)
         \/ \E p \in Busy(parts) : /\ parts[p].rank = k
                                   /\ OffsetAt(k + 1) <= OffsetAt(k) + parts[p].size
<1> USE DEF DynInv, TypeInv
<1>0. \A p \in Busy(parts) : /\ p \in DOMAIN parts /\ parts[p].rank \in Nat
                             /\ parts[p].size \in Nat
  BY Sizes DEF Busy
<1>1. CASE \A p \in Busy(parts) : parts[p].rank # k
  <2>1. ASSUME NEW p \in Busy(parts) PROVE parts[p].rank < k + 1 <=> parts[p].rank < k
    BY <1>0, <1>1
  <2>2. BytesBefore(k + 1) = BytesBefore(k)
    BY <2>1 DEF BytesBefore
  <2> QED BY <2>2 DEF OffsetAt, BytesBefore
<1>2. ASSUME NEW p \in Busy(parts), parts[p].rank = k
      PROVE  OffsetAt(k + 1) <= OffsetAt(k) + parts[p].size
  <2> DEFINE A == BytesBefore(k)
             B == {p} \X (1 .. parts[p].size)
  <2>1. ASSUME NEW q \in Busy(parts), parts[q].rank < k + 1, q # p PROVE parts[q].rank < k
    BY <1>0, <1>2, <2>1 DEF ListOK
  <2>2. BytesBefore(k + 1) \in SUBSET (A \cup B)
    <3>1. ASSUME NEW x \in BytesBefore(k + 1) PROVE x \in A \cup B
      <4>1. /\ x[1] \in Busy(parts) /\ x[2] \in 1 .. MemorySize /\ x = <<x[1], x[2]>>
            /\ parts[x[1]].rank < k + 1 /\ x[2] <= parts[x[1]].size
        BY DEF BytesBefore
      <4>2. CASE x[1] = p
        <5>1. x[2] \in 1 .. parts[p].size
          BY <1>0, <4>1, <4>2, CacheAssumption
        <5> QED BY <4>1, <4>2, <5>1
      <4>3. CASE x[1] # p
        <5>1. x \in A
          BY <2>1, <4>1, <4>3 DEF BytesBefore
        <5> QED BY <5>1
      <4> QED BY <4>2, <4>3
    <3> QED BY <3>1
  <2>3. IsFiniteSet(B) /\ Cardinality(B) = parts[p].size
    <3>1. IsFiniteSet({p}) /\ Cardinality({p}) = 1
      BY FS_Singleton
    <3>2. 1 \in Int /\ parts[p].size \in Int /\ parts[p].size \in Nat
      BY <1>0
    <3>3. IsFiniteSet(1 .. parts[p].size) /\ Cardinality(1 .. parts[p].size) = parts[p].size
      <4>1. /\ IsFiniteSet(1 .. parts[p].size)
            /\ Cardinality(1 .. parts[p].size) =
                 IF 1 > parts[p].size THEN 0 ELSE parts[p].size - 1 + 1
        BY <3>2, FS_Interval
      <4> QED BY <3>2, <4>1
    <3>4. IsFiniteSet(B) /\ Cardinality(B) = Cardinality({p}) * Cardinality(1 .. parts[p].size)
      BY <3>1, <3>3, FS_Product
    <3> QED BY <3>1, <3>2, <3>3, <3>4
  <2>4. IsFiniteSet(A) /\ IsFiniteSet(BytesBefore(k + 1))
    BY BytesFinite
  <2> HIDE DEF A, B
  <2>5. /\ IsFiniteSet(A \cup B)
        /\ Cardinality(A \cup B) = Cardinality(A) + Cardinality(B) - Cardinality(A \cap B)
        /\ IsFiniteSet(A \cap B)
    BY <2>3, <2>4, FS_Union, FS_Intersection
  <2>6. Cardinality(BytesBefore(k + 1)) <= Cardinality(A \cup B)
    BY <2>2, <2>5, FS_Subset
  <2>7. /\ Cardinality(A) \in Nat /\ Cardinality(B) \in Nat /\ Cardinality(A \cap B) \in Nat
        /\ Cardinality(BytesBefore(k + 1)) \in Nat /\ Cardinality(A \cup B) \in Nat
    BY <2>3, <2>4, <2>5, FS_CardinalityType
  <2>8. Cardinality(BytesBefore(k + 1)) <= Cardinality(A) + parts[p].size
    BY <2>3, <2>5, <2>6, <2>7
  <2> QED BY <2>8 DEF OffsetAt, BytesBefore, A
<1> QED BY <1>1, <1>2

LEMMA Reached ==
  ASSUME DynInv, NEW r \in Nat, NEW a \in Nat, a < OffsetAt(r)
  PROVE  \E p \in Busy(parts) : NewBegin(p) <= a /\ a < NewBegin(p) + parts[p].size
<1> DEFINE R == {k \in Nat : a < OffsetAt(k)}
<1>1. R \in SUBSET Nat /\ R # {}
  OBVIOUS
<1>2. PICK k \in R : \A j \in R : k <= j
  <2> HIDE DEF R
  <2> QED BY <1>1, LeastNatural
<1>3. OffsetAt(0) = 0
  <2>1. ASSUME NEW p \in Busy(parts) PROVE ~ (parts[p].rank < 0)
    BY Sizes DEF Busy
  <2>2. BytesBefore(0) = {}
    BY <2>1 DEF BytesBefore
  <2> QED BY <2>2, FS_EmptySet DEF OffsetAt, BytesBefore
<1>4. k - 1 \in Nat /\ ~ (a < OffsetAt(k - 1)) /\ (k - 1) + 1 = k
  <2>1. k \in Nat /\ a < OffsetAt(k)
    BY <1>2
  <2>2. k # 0
    BY <1>3, <2>1
  <2>3. k - 1 \in Nat /\ ~ (k <= k - 1)
    BY <2>1, <2>2
  <2>4. k - 1 \notin R
    BY <1>2, <2>3
  <2> QED BY <2>1, <2>3, <2>4
<1>5. OffsetAt(k) \in Nat /\ OffsetAt(k - 1) \in Nat /\ a < OffsetAt(k)
  BY <1>2, OffsetType DEF DynInv, TypeInv
<1>6. \/ OffsetAt(k) = OffsetAt(k - 1)
      \/ \E p \in Busy(parts) : /\ parts[p].rank = k - 1
                                /\ OffsetAt(k) <= OffsetAt(k - 1) + parts[p].size
  <2> HIDE DEF R
  <2>1. \A j \in Nat : \/ OffsetAt(j + 1) = OffsetAt(j)
                       \/ \E p \in Busy(parts) : /\ parts[p].rank = j
                                                 /\ OffsetAt(j + 1) <= OffsetAt(j) + parts[p].size
    BY OffsetNext
  <2>2. \/ OffsetAt((k - 1) + 1) = OffsetAt(k - 1)
        \/ \E p \in Busy(parts) : /\ parts[p].rank = k - 1
                                  /\ OffsetAt((k - 1) + 1) <= OffsetAt(k - 1) + parts[p].size
    BY <1>4, <2>1
  <2> QED BY <1>4, <2>2
<1>7. PICK p \in Busy(parts) : /\ parts[p].rank = k - 1
                               /\ OffsetAt(k) <= OffsetAt(k - 1) + parts[p].size
  BY <1>4, <1>5, <1>6
<1>8. NewBegin(p) = OffsetAt(k - 1) /\ parts[p].size \in Nat
  BY <1>7, Sizes DEF NewBegin, Busy
<1> QED BY <1>4, <1>5, <1>7, <1>8

LEMMA SpaceCompact ==
  ASSUME Dynamic, SpaceInv, Compact, DynInv' PROVE SpaceKept'
<1> DEFINE total == OffsetAt(nextRank)
<1>0. DynInv /\ TypeInv /\ TypeOK /\ PartitionsDisjoint /\ nextRank \in Nat
  BY DEF SpaceInv, DynInv, TypeInv, TypeOK
<1>1. /\ DOMAIN parts' = Busy(parts) \cup {nextId} /\ nextId \notin Busy(parts)
      /\ parts'[nextId] = FreePartition(total, MemorySize - total, nextRank, 0)
      /\ \A p \in Busy(parts) : parts'[p] = [parts[p] EXCEPT !.begin = NewBegin(p)]
  BY <1>0 DEF Compact, TypeOK, Busy
<1>2. \A p \in Busy(parts) : /\ parts'[p].begin = NewBegin(p) /\ parts'[p].size = parts[p].size
                             /\ ~ parts'[p].free
  <2> SUFFICES ASSUME NEW p \in Busy(parts)
               PROVE  /\ parts'[p].begin = NewBegin(p) /\ parts'[p].size = parts[p].size
                      /\ ~ parts'[p].free
    OBVIOUS
  <2>1. parts[p] \in Partition /\ ~ parts[p].free
    BY <1>0 DEF TypeOK, Busy
  <2>2. parts'[p] = [parts[p] EXCEPT !.begin = NewBegin(p)]
    BY <1>1
  <2> QED BY <2>1, <2>2 DEF Partition
<1>3. /\ parts'[nextId].begin = total /\ parts'[nextId].size = MemorySize - total
      /\ total \in Nat /\ total <= MemorySize /\ MemorySize \in Nat
  BY <1>0, <1>1, OffsetType, OffsetBound, CacheAssumption DEF FreePartition
<1>4. NoMemoryLost'
  <2> SUFFICES ASSUME NEW a \in Nat, a < MemorySize
               PROVE  \E p \in DOMAIN parts' : /\ parts'[p].begin <= a
                                               /\ a < parts'[p].begin + parts'[p].size
    BY Covers
  <2>1. CASE a < total
    <3>1. PICK p \in Busy(parts) : NewBegin(p) <= a /\ a < NewBegin(p) + parts[p].size
      BY <1>0, <2>1, Reached
    <3> QED BY <1>1, <1>2, <3>1
  <2>2. CASE ~ (a < total)
    <3> HIDE DEF total
    <3> QED BY <1>1, <1>3, <2>2
  <2> QED BY <2>1, <2>2
<1>5. MergedInv'
  <2> SUFFICES ASSUME NEW p \in DOMAIN parts', NEW q \in DOMAIN parts', Adjacent(p, q)'
               PROVE  FALSE
    BY DEF MergedInv
  <2>1. p = nextId /\ q = nextId
    BY <1>1, <1>2 DEF Adjacent
  <2> HIDE DEF total
  <2> QED BY <1>3, <2>1 DEF Adjacent, End
<1> QED BY <1>4, <1>5 DEF SpaceKept

-----------------------------------------------------------------------------
LEMMA SpaceStep == ASSUME Dynamic PROVE SpaceInv /\ [Next]_vars => SpaceInv'
<1> SUFFICES ASSUME SpaceInv, [Next]_vars PROVE SpaceInv'
  OBVIOUS
<1>1. DynInv'
  BY DynStep DEF SpaceInv
<1>2. TypeOK /\ Required \in Int /\ MemorySize \in Int
  BY CacheAssumption DEF SpaceInv, DynInv, TypeInv, TypeOK, Required
<1>3. SpaceKept'
  <2>1. CASE /\ UNCHANGED parts
             /\ pc # "consolidate"
    BY <2>1, PlacesKept
  <2>2. CASE UNCHANGED vars
    BY <2>2 DEF vars, SpaceInv, SpaceKept, NoMemoryLost, MergedInv, Adjacent, End
  <2>3. ASSUME NEW S \in SUBSET DOMAIN cached, UpdateClockOn(S) PROVE SpaceKept'
    <3>1. PICK now : parts' = [p \in DOMAIN parts |->
                                 IF \E m \in S : cached[m].part = p
                                 THEN [parts[p] EXCEPT !.stamp = now] ELSE parts[p]]
      BY <2>3 DEF UpdateClockOn
    <3>2. /\ DOMAIN parts' = DOMAIN parts
          /\ \A p \in DOMAIN parts : /\ parts'[p].begin = parts[p].begin
                                     /\ parts'[p].size = parts[p].size
                                     /\ parts'[p].free = parts[p].free
      BY <1>2, <3>1 DEF TypeOK, Partition
    <3>3. pc # "consolidate"
      BY <2>3 DEF UpdateClockOn
    <3> QED BY <3>2, <3>3, PlacesKept
  <2>4. CASE TakePartition
    <3>1. PICK now : parts' = [parts EXCEPT ![save.target].free = FALSE,
                                            ![save.target].stamp = now,
                                            ![save.target].rank = RankTaken(save.target)]
      BY <2>4 DEF TakePartition
    <3>2. pc = "place" /\ save.target \in DOMAIN parts
      BY <2>4 DEF TakePartition, SpaceInv, DynInv, TypeInv, SaveOK
    <3>3. /\ DOMAIN parts' = DOMAIN parts
          /\ \A p \in DOMAIN parts : /\ parts'[p].begin = parts[p].begin
                                     /\ parts'[p].size = parts[p].size
      BY <1>2, <3>1, <3>2 DEF TypeOK, Partition
    <3>4. ASSUME NEW p \in DOMAIN parts, parts'[p].free PROVE parts[p].free
      BY <1>2, <3>1, <3>2, <3>4 DEF TypeOK, Partition
    <3> QED BY <3>2, <3>3, <3>4, PlacesKept
  <2>5. CASE SaveMessage \/ FindTooLarge \/ FindFits \/ FindNothing \/ RetryFits \/ RetryNothing
             \/ ReselectFits \/ ReselectNothing \/ Publish
    BY <2>1, <2>5 DEF SaveMessage, FindTooLarge, FindFits, FindNothing, RetryFits, RetryNothing,
                      ReselectFits, ReselectNothing, Publish
  <2>6. ~ ConsolidateBuddies /\ ~ NoBuddyLeft /\ ~ SplitBuddy
    BY DEF ConsolidateBuddies, NoBuddyLeft, SplitBuddy
  <2> QED BY <1>1, <2>2, <2>3, <2>4, <2>5, <2>6, SpaceEvict, SpaceConsolidate, SpaceCompact,
             SpaceCarve DEF Next, SaveStep
<1>4. RoomInv'
  <2>1. ASSUME pc' \in Searching PROVE Required' <= MemorySize
    <3>1. CASE FindNothing
      <4>1. save'.len = save.len
        BY <1>2, <3>1 DEF FindNothing, TypeOK
      <4> QED BY <3>1, <4>1 DEF FindNothing, Required
    <3>2. CASE ~ FindNothing
      <4>1. pc \in Searching /\ save'.len = save.len
        BY <1>2, <2>1, <3>2
           DEF Next, SaveStep, vars, Searching, UpdateClockOn, SaveMessage, FindTooLarge, FindFits, Evict,
               ConsolidateDynamic, ConsolidateBuddies, NoBuddyLeft, RetryFits, RetryNothing,
               Compact, ReselectFits, ReselectNothing, TakePartition, CarvePartition, SplitBuddy,
               Publish, LoopHead, TypeOK
      <4>2. Required' = Required
        BY <4>1 DEF Required
      <4> QED BY <4>1, <4>2 DEF SpaceInv, RoomInv
    <3> QED BY <3>1, <3>2
  <2>2. ASSUME pc' = "evict" PROVE Busy(parts)' # {}
    <3>1. CASE UNCHANGED vars
      BY <2>2, <3>1 DEF vars, SpaceInv, RoomInv, Busy
    <3>2. CASE FindNothing \/ RetryNothing \/ ReselectNothing
      <4>1. /\ UNCHANGED parts /\ pc \in {"find", "retry", "reselect"}
            /\ pc = "find" => Required <= MemorySize
            /\ Select(parts, Required) = {}
        BY <3>2 DEF FindNothing, RetryNothing, ReselectNothing
      <4>2. Required <= MemorySize
        BY <4>1 DEF SpaceInv, RoomInv, Searching
      <4>3. Busy(parts) # {}
        BY <4>1, <4>2, VictimExists
      <4> QED BY <4>1, <4>3 DEF Busy
    <3>3. UNCHANGED vars \/ FindNothing \/ RetryNothing \/ ReselectNothing
      BY <2>2 DEF Next, SaveStep, UpdateClockOn, SaveMessage, FindTooLarge, FindFits, Evict,
                  ConsolidateDynamic, ConsolidateBuddies, NoBuddyLeft, RetryFits,
                  Compact, ReselectFits, TakePartition, CarvePartition, SplitBuddy, Publish
    <3> QED BY <3>1, <3>2, <3>3
  <2> QED BY <2>1, <2>2 DEF RoomInv
<1> QED BY <1>1, <1>3, <1>4 DEF SpaceInv, SpaceKept

LEMMA SpaceAlways == ASSUME Dynamic PROVE Spec => []SpaceInv
<1>1. Init => SpaceInv
  BY SpaceInit
<1>2. SpaceInv /\ [Next]_vars => SpaceInv'
  BY SpaceStep
<1> QED BY <1>1, <1>2, PTL DEF Spec

(* Under dynamic partitioning every byte of the memory is in a partition,  *)
(* after any merges, splits and compactions.                               *)
THEOREM DynamicNoMemoryLost == ASSUME Dynamic PROVE Spec => []NoMemoryLost
<1>1. Spec => []SpaceInv
  BY SpaceAlways
<1>2. SpaceInv => NoMemoryLost
  BY DEF SpaceInv
<1> QED BY <1>1, <1>2, PTL

(* Under dynamic partitioning save_message never dereferences a NULL that  *)
(* a search of a list gave it: there is a victim whenever it evicts, and   *)
(* the neighbours it looks for are there.                                  *)
THEOREM DynamicNoNull == ASSUME Dynamic PROVE Spec => []NoNullDereference
<1>1. Spec => []SpaceInv
  BY SpaceAlways
<1>2. SpaceInv => NoNullDereference
  <2> SUFFICES ASSUME SpaceInv PROVE NoNullDereference
    OBVIOUS
  <2>1. pc = "evict" => Busy(parts) # {}
    BY DEF SpaceInv, RoomInv
  <2>2. ASSUME pc = "consolidate"
        PROVE  /\ parts[save.target].begin # 0 => LeftOf(save.target) # {}
               /\ End(parts, save.target) < MemorySize => RightOf(save.target) # {}
    <3>1. DynInv /\ NoMemoryLost /\ TypeOK
      BY DEF SpaceInv, DynInv, TypeInv
    <3>2. save.target \in DOMAIN parts /\ parts[save.target].size > 0
      BY <2>2, <3>1 DEF DynInv, TypeInv, SaveOK, TargetOK
    <3>3. ASSUME parts[save.target].begin # 0 PROVE LeftOf(save.target) # {}
      <4>1. parts[save.target].begin > 0
        BY <3>1, <3>2, <3>3, Sizes
      <4>2. {p \in DOMAIN parts : End(parts, p) = parts[save.target].begin} # {}
        BY <3>1, <3>2, <4>1, Preceded
      <4> QED BY <3>1, <4>2, SomeFirst DEF LeftOf
    <3>4. ASSUME End(parts, save.target) < MemorySize PROVE RightOf(save.target) # {}
      <4>1. {p \in DOMAIN parts : parts[p].begin = End(parts, save.target)} # {}
        BY <3>1, <3>2, <3>4, Followed
      <4> QED BY <3>1, <4>1, SomeFirst DEF RightOf
    <3> QED BY <3>3, <3>4
  <2>3. \A m \in DOMAIN cached : cached[m].part \in DOMAIN parts
    BY DEF SpaceInv, DynInv, BusyIsCached, Busy
  <2> QED BY <2>1, <2>2, <2>3 DEF NoNullDereference
<1> QED BY <1>1, <1>2, PTL

-----------------------------------------------------------------------------
(* With compaction after a number of evictions, or after all of them, no   *)
(* partition is ever empty: a search evicts before it compacts, and then   *)
(* compaction has something left to give.                                  *)

Compacts == Frequency > 0 \/ Frequency = -1

FullInv ==
  /\ \A p \in DOMAIN parts : parts[p].size > 0
  /\ pc \in Searching => save.busy > 0
  /\ pc \in {"consolidate", "retry", "compact"} => \E p \in DOMAIN parts : parts[p].free

(* The offset leaves out the bytes of a free partition. *)
LEMMA OffsetLeaves ==
  ASSUME DynInv, NEW p \in DOMAIN parts, parts[p].free, parts[p].size > 0, NEW r
  PROVE  OffsetAt(r) < MemorySize
<1> DEFINE T == (0 .. MemorySize - 1) \ {parts[p].begin}
<1>1. \A q \in Busy(parts) : \A n \in 1 .. MemorySize :
        n <= parts[q].size => parts[q].begin + n - 1 \in T
  <2> SUFFICES ASSUME NEW q \in Busy(parts), NEW n \in 1 .. MemorySize, n <= parts[q].size
               PROVE  parts[q].begin + n - 1 \in T
    OBVIOUS
  <2>1. q \in DOMAIN parts /\ q # p
    BY DEF Busy
  <2> QED BY <2>1, Sizes, Apart, CacheAssumption
<1>2. IsFiniteSet(0 .. MemorySize - 1) /\ Cardinality(0 .. MemorySize - 1) = MemorySize
  <2>1. 0 \in Int /\ MemorySize - 1 \in Int /\ ~ (0 > MemorySize - 1)
    BY CacheAssumption
  <2> QED BY <2>1, FS_Interval, CacheAssumption
<1>3. parts[p].begin \in 0 .. MemorySize - 1
  BY Sizes, CacheAssumption
<1>4. IsFiniteSet(T) /\ Cardinality(T) = MemorySize - 1
  <2> DEFINE All == 0 .. MemorySize - 1
             b == parts[p].begin
  <2>1. IsFiniteSet(All) /\ Cardinality(All) = MemorySize /\ b \in All
    BY <1>2, <1>3
  <2>2. T = All \ {b}
    OBVIOUS
  <2> HIDE DEF All, b, T
  <2> QED BY <2>1, <2>2, FS_RemoveElement
<1>5. T \in SUBSET (0 .. MemorySize - 1)
  OBVIOUS
<1> HIDE DEF T
<1>6. OffsetAt(r) <= MemorySize - 1
  BY <1>1, <1>4, <1>5, OffsetWithin DEF DynInv, TypeInv
<1>7. OffsetAt(r) \in Nat
  BY OffsetType DEF DynInv, TypeInv
<1> QED BY <1>6, <1>7, CacheAssumption

LEMMA FullStep == ASSUME Dynamic, Compacts PROVE SpaceInv /\ FullInv /\ [Next]_vars => FullInv'
<1> SUFFICES ASSUME SpaceInv, FullInv, [Next]_vars PROVE FullInv'
  OBVIOUS
<1>1. DynInv /\ TypeInv /\ TypeOK
  BY DEF SpaceInv, DynInv, TypeInv
<1>2. CASE UNCHANGED vars
  BY <1>2 DEF vars, FullInv
<1>3. ASSUME NEW S \in SUBSET DOMAIN cached, UpdateClockOn(S) PROVE FullInv'
  <2>1. PICK now : parts' = [p \in DOMAIN parts |->
                               IF \E m \in S : cached[m].part = p
                               THEN [parts[p] EXCEPT !.stamp = now] ELSE parts[p]]
    BY <1>3 DEF UpdateClockOn
  <2>2. /\ DOMAIN parts' = DOMAIN parts
        /\ \A p \in DOMAIN parts : parts'[p].size = parts[p].size
    BY <1>1, <2>1 DEF TypeOK, Partition
  <2>3. pc' = "idle"
    BY <1>3 DEF UpdateClockOn
  <2> QED BY <2>2, <2>3 DEF FullInv, Searching
<1>4. CASE SaveMessage \/ FindTooLarge \/ FindFits \/ RetryFits \/ ReselectFits \/ Publish
  <2>1. UNCHANGED parts /\ pc' \notin Searching
    BY <1>4 DEF SaveMessage, FindTooLarge, FindFits, RetryFits, ReselectFits, Publish, Searching
  <2> QED BY <2>1 DEF FullInv, Searching
<1>5. CASE FindNothing
  <2>1. /\ UNCHANGED parts /\ pc = "find" /\ Required <= MemorySize
        /\ Select(parts, Required) = {}
        /\ save' = [save EXCEPT !.busy = Cardinality(Busy(parts))]
        /\ pc' = LoopHead(CompactionFrequency')
    BY <1>5 DEF FindNothing
  <2>2. save'.busy = Cardinality(Busy(parts))
    BY <1>1, <2>1 DEF TypeOK
  <2>3. Busy(parts) # {}
    BY <2>1, VictimExists
  <2>4. IsFiniteSet(Busy(parts))
    <3>1. Busy(parts) \in SUBSET (0 .. nextId - 1)
      BY <1>1 DEF TypeOK, Busy
    <3>2. 0 \in Int /\ nextId - 1 \in Int
      BY <1>1 DEF TypeOK
    <3> QED BY <3>1, <3>2, FS_Interval, FS_Subset
  <2>5. save'.busy > 0
    <3>1. Cardinality(Busy(parts)) \in Nat /\ Cardinality(Busy(parts)) # 0
      BY <2>3, <2>4, FS_CardinalityType, FS_EmptySet
    <3> QED BY <2>2, <3>1
  <2>6. CompactionFrequency' > 0
    BY <2>5 DEF CompactionFrequency, Compacts
  <2>7. pc' = "evict"
    BY <2>1, <2>6 DEF LoopHead
  <2> QED BY <2>1, <2>5, <2>7 DEF FullInv, Searching
<1>6. CASE RetryNothing
  <2>1. /\ UNCHANGED parts /\ pc = "retry" /\ pc' \in {"compact", "evict"}
        /\ save'.busy = save.busy
    BY <1>1, <1>6 DEF RetryNothing, TypeOK
  <2> QED BY <2>1 DEF FullInv, Searching
<1>7. CASE ReselectNothing
  <2>1. UNCHANGED <<parts, save>> /\ pc = "reselect" /\ pc' = LoopHead(CompactionFrequency)
    BY <1>7 DEF ReselectNothing
  <2>2. CompactionFrequency > 0
    BY <2>1 DEF FullInv, Searching, CompactionFrequency, Compacts
  <2>3. pc' = "evict"
    BY <2>1, <2>2 DEF LoopHead
  <2> QED BY <2>1, <2>3 DEF FullInv, Searching
<1>8. CASE Evict
  <2>1. PICK v \in Victims : /\ parts' = [parts EXCEPT ![v].free = TRUE, ![v].stamp = 0]
                             /\ save' = [save EXCEPT !.target = v]
    BY <1>8 DEF Evict
  <2>2. v \in DOMAIN parts /\ pc = "evict" /\ pc' = "consolidate" /\ save'.busy = save.busy
    BY <1>1, <1>8, <2>1 DEF Victims, FirstOf, Busy, Evict, TypeOK
  <2>3. /\ DOMAIN parts' = DOMAIN parts /\ parts'[v].free
        /\ \A p \in DOMAIN parts : parts'[p].size = parts[p].size
    BY <1>1, <2>1, <2>2, ZenonT(30) DEF TypeOK, Partition
  <2> QED BY <2>2, <2>3 DEF FullInv, Searching
<1>9. CASE ConsolidateDynamic
  <2>1. pc = "consolidate" /\ pc' = "retry" /\ UNCHANGED save
    BY <1>9 DEF ConsolidateDynamic
  <2>2. CASE parts[save.target].size = MemorySize
    <3>1. UNCHANGED parts
      BY <1>9, <2>2 DEF ConsolidateDynamic
    <3> QED BY <2>1, <3>1 DEF FullInv, Searching
  <2>3. CASE parts[save.target].size # MemorySize
    <3>1. PICK l, r : Merges(save.target, l, r)
      BY <1>1, <1>9, <2>3, ConsolidateMerges
    <3>2. /\ l \in DOMAIN parts' /\ parts'[l].free /\ parts'[l].size > 0
          /\ \A p \in DOMAIN parts' : p # l => p \in DOMAIN parts /\ parts'[p] = parts[p]
      BY <3>1 DEF Merges
    <3>3. \A p \in DOMAIN parts' : parts'[p].size > 0
      BY <3>2 DEF FullInv
    <3> QED BY <2>1, <3>2, <3>3 DEF FullInv, Searching
  <2> QED BY <2>2, <2>3
<1>10. CASE Compact
  <2> DEFINE total == OffsetAt(nextRank)
  <2>1. /\ DOMAIN parts' = Busy(parts) \cup {nextId} /\ nextId \notin Busy(parts)
        /\ parts'[nextId] = FreePartition(total, MemorySize - total, nextRank, 0)
        /\ \A p \in Busy(parts) : parts'[p] = [parts[p] EXCEPT !.begin = NewBegin(p)]
        /\ pc = "compact" /\ pc' = "reselect" /\ UNCHANGED save
    BY <1>1, <1>10 DEF Compact, TypeOK, Busy
  <2>2. PICK p \in DOMAIN parts : parts[p].free /\ parts[p].size > 0
    BY <2>1 DEF FullInv
  <2>3. total \in Nat /\ total < MemorySize
    BY <1>1, <2>2, OffsetLeaves, OffsetType
  <2>4. parts'[nextId].size > 0
    <3>1. parts'[nextId].size = MemorySize - total
      BY <2>1 DEF FreePartition
    <3> HIDE DEF total
    <3> QED BY <2>3, <3>1, CacheAssumption
  <2>5. ASSUME NEW q \in Busy(parts) PROVE parts'[q].size > 0
    <3>1. parts[q] \in Partition /\ parts[q].size > 0 /\ parts'[q] = [parts[q] EXCEPT !.begin = NewBegin(q)]
      BY <1>1, <2>1 DEF TypeOK, Busy, FullInv
    <3> QED BY <3>1 DEF Partition
  <2> QED BY <2>1, <2>4, <2>5 DEF FullInv, Searching
<1>11. CASE TakePartition
  <2>1. PICK now : parts' = [parts EXCEPT ![save.target].free = FALSE,
                                          ![save.target].stamp = now,
                                          ![save.target].rank = RankTaken(save.target)]
    BY <1>11 DEF TakePartition
  <2>2. /\ DOMAIN parts' = DOMAIN parts
        /\ \A p \in DOMAIN parts : parts'[p].size = parts[p].size
    BY <1>1, <2>1 DEF TypeOK, Partition
  <2>3. pc' = "publish"
    BY <1>11 DEF TakePartition
  <2> QED BY <2>2, <2>3 DEF FullInv, Searching
<1>12. CASE CarvePartition
  <2> DEFINE t == save.target
             n == Required
  <2>1. /\ t \in DOMAIN parts /\ nextId \notin DOMAIN parts /\ pc' = "publish"
        /\ n \in Nat \ {0} /\ parts[t].size > n /\ parts[t].size \in Nat
    <3>1. /\ t \in DOMAIN parts /\ nextId \notin DOMAIN parts
          /\ pc = "place" /\ pc' = "publish" /\ parts[t].size >= n /\ parts[t].size # n
      BY <1>1, <1>12 DEF DynInv, TypeInv, CarvePartition, TakenWhole, TypeOK, SaveOK, TargetOK
    <3>2. n \in Nat \ {0}
      BY <1>1, <3>1, RequiredType
    <3> QED BY <1>1, <3>1, <3>2, Sizes
  <2>2. PICK now \in Readings :
          parts' = [p \in DOMAIN parts \cup {nextId} |->
                      IF p = nextId
                      THEN [FreePartition(parts[t].begin, Required, nextRank, 0)
                              EXCEPT !.free = FALSE, !.stamp = now]
                      ELSE IF p = t
                      THEN [parts[t] EXCEPT !.begin = @ + Required, !.size = @ - Required]
                      ELSE parts[p]]
    BY <1>12 DEF CarvePartition
  <2>3. /\ DOMAIN parts' = DOMAIN parts \cup {nextId}
        /\ parts'[nextId].size = n /\ parts'[t].size = parts[t].size - n
        /\ \A p \in DOMAIN parts : p # t => parts'[p] = parts[p]
    BY <1>1, <2>1, <2>2 DEF FreePartition, TypeOK, Partition
  <2> HIDE DEF t, n
  <2>4. \A p \in DOMAIN parts' : parts'[p].size > 0
    BY <2>1, <2>3 DEF FullInv
  <2> QED BY <2>1, <2>4 DEF FullInv, Searching
<1>13. ~ ConsolidateBuddies /\ ~ NoBuddyLeft /\ ~ SplitBuddy
  BY DEF ConsolidateBuddies, NoBuddyLeft, SplitBuddy
<1> QED BY <1>2, <1>3, <1>4, <1>5, <1>6, <1>7, <1>8, <1>9, <1>10, <1>11, <1>12, <1>13
        DEF Next, SaveStep

(* Under dynamic partitioning, with a compaction frequency that is         *)
(* positive or -1, two neighbours are both free only during a save.  With  *)
(* another frequency a full memory may be compacted, which leaves an empty *)
(* partition at its end.                                                   *)
THEOREM DynamicNeighboursMerged ==
  ASSUME Dynamic, Frequency > 0 \/ Frequency = -1 PROVE Spec => []FreeNeighboursMerged
<1>1. Compacts
  BY DEF Compacts
<1>2. Init => SpaceInv /\ FullInv
  <2> SUFFICES ASSUME Init PROVE SpaceInv /\ FullInv
    OBVIOUS
  <2>1. DOMAIN parts = {0} /\ parts[0] = FreePartition(0, MemorySize, 0, 0) /\ pc = "idle"
    BY DEF Init
  <2> QED BY <2>1, SpaceInit, CacheAssumption DEF FullInv, Searching, FreePartition
<1>3. SpaceInv /\ FullInv /\ [Next]_vars => (SpaceInv /\ FullInv)'
  BY <1>1, SpaceStep, FullStep
<1>4. SpaceInv /\ FullInv => FreeNeighboursMerged
  BY DEF SpaceInv, FullInv, MergedInv, Adjacent, FreeNeighboursMerged
<1> QED BY <1>2, <1>3, <1>4, PTL DEF Spec


-----------------------------------------------------------------------------
(* Order: the list of partitions is in the order of the messages, and a    *)
(* partition is stamped when its message is.                               *)

(* A partition's stamp is the last use of its message.                     *)
StampInv ==
  /\ \A m \in DOMAIN cached : parts[cached[m].part].stamp = cached[m].used
  /\ pc = "publish" => parts[save.target].stamp = clock

(* An older message has a partition that comes earlier in the list.        *)
RankInv ==
  /\ \A m, n \in DOMAIN cached : m < n => parts[cached[m].part].rank < parts[cached[n].part].rank
  /\ pc = "publish" => \A m \in DOMAIN cached :
                         parts[cached[m].part].rank < parts[save.target].rank

OrderKept == StampInv /\ RankInv /\ save.firstOne
OrderInv  == ContentInv /\ OrderKept

(* A step that keeps the stamp and the rank of each message it keeps. *)
LEMMA OrderSame ==
  ASSUME OrderInv, pc' # "publish", save'.firstOne,
         DOMAIN cached' \subseteq DOMAIN cached,
         \A m \in DOMAIN cached' :
           /\ cached'[m] = cached[m]
           /\ parts'[cached[m].part].stamp = parts[cached[m].part].stamp
           /\ parts'[cached[m].part].rank = parts[cached[m].part].rank
  PROVE  OrderKept'
BY DEF OrderInv, OrderKept, StampInv, RankInv

LEMMA OrderRead ==
  ASSUME OrderInv, NEW S \in SUBSET DOMAIN cached, UpdateClockOn(S)
  PROVE  OrderKept'
<1>0. DynInv /\ TypeOK
  BY DEF OrderInv, ContentInv, DynInv, TypeInv
<1>1. PICK now :
        /\ parts' = [p \in DOMAIN parts |->
                       IF \E m \in S : cached[m].part = p
                       THEN [parts[p] EXCEPT !.stamp = now] ELSE parts[p]]
        /\ cached' = [m \in DOMAIN cached |->
                        IF m \in S THEN [cached[m] EXCEPT !.used = now] ELSE cached[m]]
  BY DEF UpdateClockOn
<1>2. ASSUME NEW m \in DOMAIN cached
      PROVE  /\ cached'[m].part = cached[m].part
             /\ parts'[cached[m].part].rank = parts[cached[m].part].rank
             /\ parts'[cached[m].part].stamp = cached'[m].used
  <2>1. /\ cached[m] \in [part : Nat, len : Lens, used : Nat]
        /\ cached[m].part \in DOMAIN parts /\ parts[cached[m].part] \in Partition
    BY <1>0, CachedPart DEF TypeOK
  <2>2. \A n \in S : cached[n].part = cached[m].part => n = m
    BY <1>0 DEF DynInv, BusyIsCached
  <2>3. parts[cached[m].part].stamp = cached[m].used
    BY DEF OrderInv, OrderKept, StampInv
  <2>4. CASE m \in S
    <3>1. /\ cached'[m] = [cached[m] EXCEPT !.used = now]
          /\ parts'[cached[m].part] = [parts[cached[m].part] EXCEPT !.stamp = now]
      BY <1>1, <2>1, <2>4
    <3> QED BY <2>1, <3>1 DEF Partition
  <2>5. CASE m \notin S
    <3>1. cached'[m] = cached[m] /\ parts'[cached[m].part] = parts[cached[m].part]
      BY <1>1, <2>1, <2>2, <2>5
    <3> QED BY <2>3, <3>1
  <2> QED BY <2>4, <2>5
<1>3. DOMAIN cached' = DOMAIN cached
  BY <1>1
<1>4. pc' # "publish" /\ save' = save
  BY DEF UpdateClockOn
<1>5. StampInv'
  BY <1>2, <1>3, <1>4 DEF StampInv
<1>6. RankInv'
  BY <1>2, <1>3, <1>4 DEF OrderInv, OrderKept, RankInv
<1> QED BY <1>4, <1>5, <1>6 DEF OrderInv, OrderKept

(* Evict keeps all but the message of the victim. *)
LEMMA EvictDrops ==
  ASSUME DynInv, Evict
  PROVE  \E v \in Victims :
           /\ v \in DOMAIN parts
           /\ \A p \in DOMAIN parts : p # v => parts'[p] = parts[p]
           /\ DOMAIN cached' = {m \in DOMAIN cached : cached[m].part # v}
           /\ \A m \in DOMAIN cached' : cached'[m] = cached[m]
           /\ \E k \in DOMAIN cached : cached[k].part = v
           /\ save' = [save EXCEPT !.target = v]
<1>1. PICK v \in Victims :
        /\ parts' = [parts EXCEPT ![v].free = TRUE, ![v].stamp = 0]
        /\ cached' = [m \in DOMAIN cached \ MessageIn(v) |-> cached[m]]
        /\ save' = [save EXCEPT !.target = v]
  BY DEF Evict
<1>2. v \in Busy(parts) /\ v \in DOMAIN parts
  BY DEF Victims, FirstOf, Busy
<1>3. MessageIn(v) = {m \in DOMAIN cached : cached[m].part = v}
  <2>1. \A m, n \in DOMAIN cached : cached[m].part = cached[n].part => m = n
    BY DEF DynInv, BusyIsCached
  <2>2. \A m \in DOMAIN cached : m \in Nat /\ m <= m
    BY DEF DynInv, TypeInv, TypeOK
  <2>3. ASSUME NEW m \in DOMAIN cached, cached[m].part = v PROVE m \in MessageIn(v)
    <3>1. \A n \in DOMAIN cached : cached[n].part = v => m = n
      BY <2>1, <2>3
    <3> QED BY <2>2, <2>3, <3>1 DEF MessageIn
  <2> QED BY <2>3 DEF MessageIn
<1>4. \A p \in DOMAIN parts : p # v => parts'[p] = parts[p]
  BY <1>1
<1>5. \E k \in DOMAIN cached : cached[k].part = v
  BY <1>2 DEF DynInv, BusyIsCached, Evict
<1>6. DOMAIN cached' = {m \in DOMAIN cached : cached[m].part # v}
  BY <1>1, <1>3
<1>7. \A m \in DOMAIN cached' : cached'[m] = cached[m]
  BY <1>1
<1> QED BY <1>1, <1>2, <1>4, <1>5, <1>6, <1>7

LEMMA OrderEvict == ASSUME OrderInv, Evict PROVE OrderKept'
<1>0. DynInv /\ TypeOK
  BY DEF OrderInv, ContentInv, DynInv, TypeInv
<1>1. PICK v \in Victims :
           /\ v \in DOMAIN parts
           /\ \A p \in DOMAIN parts : p # v => parts'[p] = parts[p]
           /\ DOMAIN cached' = {m \in DOMAIN cached : cached[m].part # v}
           /\ \A m \in DOMAIN cached' : cached'[m] = cached[m]
           /\ save' = [save EXCEPT !.target = v]
  BY <1>0, EvictDrops
<1>2. pc' # "publish"
  BY DEF Evict
<1>3. save'.firstOne
  BY <1>0, <1>1 DEF OrderInv, OrderKept, TypeOK
<1>4. \A m \in DOMAIN cached' : parts'[cached[m].part] = parts[cached[m].part]
  BY <1>0, <1>1, CachedPart
<1> QED BY <1>1, <1>2, <1>3, <1>4, OrderSame

LEMMA OrderCompact == ASSUME OrderInv, Compact PROVE OrderKept'
<1>0. DynInv /\ TypeOK
  BY DEF OrderInv, ContentInv, DynInv, TypeInv
<1>1. /\ pc' # "publish" /\ cached' = cached /\ save' = save
      /\ \A p \in Busy(parts) : parts'[p] = [parts[p] EXCEPT !.begin = NewBegin(p)]
  <2>1. nextId \notin Busy(parts)
    BY <1>0 DEF TypeOK, Busy
  <2> QED BY <2>1 DEF Compact
<1>2. ASSUME NEW m \in DOMAIN cached
      PROVE  /\ parts'[cached[m].part].stamp = parts[cached[m].part].stamp
             /\ parts'[cached[m].part].rank = parts[cached[m].part].rank
  <2>1. cached[m].part \in Busy(parts) /\ parts[cached[m].part] \in Partition
    BY <1>0, CachedPart DEF TypeOK
  <2>2. parts'[cached[m].part] = [parts[cached[m].part] EXCEPT !.begin = NewBegin(cached[m].part)]
    BY <1>1, <2>1
  <2> QED BY <2>1, <2>2 DEF Partition
<1>3. save'.firstOne
  BY <1>1 DEF OrderInv, OrderKept
<1> QED BY <1>1, <1>2, <1>3, OrderSame

(* Taking a partition puts it at the end of the list and stamps it now. *)
Takes(t) ==
  /\ pc' = "publish" /\ cached' = cached /\ save'.target = t /\ save'.firstOne
  /\ parts'[t].rank = nextRank /\ parts'[t].stamp = clock'
  /\ \A m \in DOMAIN cached :
       /\ parts'[cached[m].part].stamp = parts[cached[m].part].stamp
       /\ parts'[cached[m].part].rank = parts[cached[m].part].rank

LEMMA OrderTakes == ASSUME OrderInv, NEW t, Takes(t) PROVE OrderKept'
<1>0. DynInv
  BY DEF OrderInv, ContentInv
<1>1. \A m \in DOMAIN cached : parts[cached[m].part].rank < nextRank
  BY <1>0, CachedPart DEF DynInv, ListOK
<1>2. StampInv'
  BY DEF OrderInv, OrderKept, StampInv, Takes
<1>3. RankInv'
  BY <1>1 DEF OrderInv, OrderKept, RankInv, Takes
<1> QED BY <1>2, <1>3 DEF OrderKept, Takes

LEMMA TakeTakes == ASSUME OrderInv, TakePartition PROVE Takes(save.target)
<1> DEFINE t == save.target
<1>0. DynInv /\ TypeOK /\ t \in DOMAIN parts /\ parts[t].free /\ parts[t] \in Partition
  BY DEF OrderInv, ContentInv, DynInv, TypeInv, SaveOK, TargetOK, TakePartition, TypeOK
<1>1. PICK now \in Readings :
        /\ clock' = now
        /\ parts' = [parts EXCEPT ![t].free = FALSE, ![t].stamp = now, ![t].rank = RankTaken(t)]
  BY DEF TakePartition
<1>2. RankTaken(t) = nextRank
  BY DEF RankTaken, OrderInv, OrderKept
<1>3. parts'[t].rank = nextRank /\ parts'[t].stamp = now
  <2>1. parts'[t] = [parts[t] EXCEPT !.free = FALSE, !.stamp = now, !.rank = RankTaken(t)]
    BY <1>0, <1>1
  <2> HIDE DEF t
  <2> QED BY <1>0, <1>2, <2>1 DEF Partition
<1>4. \A p \in DOMAIN parts : p # t => parts'[p] = parts[p]
  BY <1>1
<1>5. \A m \in DOMAIN cached : cached[m].part # t /\ cached[m].part \in DOMAIN parts
  BY <1>0, CachedPart
<1>6. pc' = "publish" /\ cached' = cached /\ save' = save
  BY DEF TakePartition
<1> QED BY <1>1, <1>3, <1>4, <1>5, <1>6 DEF Takes, OrderInv, OrderKept

LEMMA CarveTakes == ASSUME OrderInv, CarvePartition PROVE Takes(nextId)
<1> DEFINE t == save.target
<1>0. /\ DynInv /\ TypeOK /\ t \in DOMAIN parts /\ parts[t].free /\ parts[t] \in Partition
      /\ nextId \notin DOMAIN parts
  BY DEF OrderInv, ContentInv, DynInv, TypeInv, SaveOK, TargetOK, CarvePartition, TypeOK
<1>1. PICK now \in Readings :
        /\ clock' = now
        /\ parts' = [p \in DOMAIN parts \cup {nextId} |->
                      IF p = nextId
                      THEN [FreePartition(parts[t].begin, Required, nextRank, 0)
                              EXCEPT !.free = FALSE, !.stamp = now]
                      ELSE IF p = t
                      THEN [parts[t] EXCEPT !.begin = @ + Required, !.size = @ - Required]
                      ELSE parts[p]]
  BY DEF CarvePartition
<1>3. parts'[nextId].rank = nextRank /\ parts'[nextId].stamp = now
  BY <1>1 DEF FreePartition
<1>4. \A p \in DOMAIN parts : p # t => parts'[p] = parts[p]
  BY <1>0, <1>1
<1>5. \A m \in DOMAIN cached : cached[m].part # t /\ cached[m].part \in DOMAIN parts
  BY <1>0, CachedPart
<1>6. pc' = "publish" /\ cached' = cached /\ save'.target = nextId /\ save'.firstOne
  BY <1>0 DEF CarvePartition, OrderInv, OrderKept, TypeOK
<1> QED BY <1>1, <1>3, <1>4, <1>5, <1>6 DEF Takes

LEMMA OrderPublish == ASSUME OrderInv, Publish PROVE OrderKept'
<1>0. DynInv /\ TypeOK
  BY DEF OrderInv, ContentInv, DynInv, TypeInv
<1>1. /\ pc = "publish" /\ pc' = "idle" /\ parts' = parts /\ save'.firstOne
      /\ DOMAIN cached' = DOMAIN cached \cup {save.msg}
      /\ save.msg \notin DOMAIN cached
      /\ cached'[save.msg].part = save.target /\ cached'[save.msg].used = clock
      /\ \A m \in DOMAIN cached : cached'[m] = cached[m]
  BY <1>0 DEF Publish, DynInv, TargetOK, NoSave
<1>2. \A m \in DOMAIN cached : m \in Int /\ m < save.msg /\ save.msg \in Int
  BY <1>0, <1>1 DEF TypeOK, DynInv, TypeInv, SaveOK
<1>3. StampInv'
  BY <1>1 DEF OrderInv, OrderKept, StampInv
<1>4. RankInv'
  <2>1. ASSUME NEW m \in DOMAIN cached', NEW n \in DOMAIN cached', m < n
        PROVE  parts[cached'[m].part].rank < parts[cached'[n].part].rank
    <3>1. CASE n \in DOMAIN cached
      <4>1. m \in DOMAIN cached
        BY <1>1, <1>2, <2>1, <3>1
      <4> QED BY <1>1, <2>1, <3>1, <4>1 DEF OrderInv, OrderKept, RankInv
    <3>2. CASE n = save.msg
      <4>1. m \in DOMAIN cached
        BY <1>0, <1>1, <2>1, <3>2 DEF TypeOK
      <4> QED BY <1>1, <3>2, <4>1 DEF OrderInv, OrderKept, RankInv
    <3> QED BY <1>1, <3>1, <3>2
  <2> QED BY <1>1, <2>1 DEF RankInv
<1> QED BY <1>1, <1>3, <1>4 DEF OrderKept

LEMMA OrderStep == ASSUME Dynamic PROVE OrderInv /\ [Next]_vars => OrderInv'
<1> SUFFICES ASSUME OrderInv, [Next]_vars PROVE OrderInv'
  OBVIOUS
<1>0. DynInv /\ TypeOK
  BY DEF OrderInv, ContentInv, DynInv, TypeInv
<1>1. ContentInv'
  BY ContentStep DEF OrderInv
<1> SUFFICES OrderKept'
  BY <1>1 DEF OrderInv
<1>2. CASE UNCHANGED vars
  BY <1>2 DEF vars, OrderInv, OrderKept, StampInv, RankInv
<1>3. CASE SaveMessage \/ FindFits \/ RetryFits \/ ReselectFits
           \/ FindTooLarge \/ FindNothing \/ RetryNothing \/ ReselectNothing
  <2>1. UNCHANGED <<parts, cached>> /\ pc' # "publish"
    BY <1>3 DEF SaveMessage, FindFits, RetryFits, ReselectFits, FindTooLarge, FindNothing,
                RetryNothing, ReselectNothing, LoopHead
  <2>2. save'.firstOne
    BY <1>0, <1>3 DEF SaveMessage, FindFits, RetryFits, ReselectFits, FindTooLarge, FindNothing,
                RetryNothing, ReselectNothing, LoopHead, NoSave, OrderInv, OrderKept, TypeOK
  <2> QED BY <2>1, <2>2, OrderSame
<1>4. CASE ConsolidateDynamic
  <2>1. cached' = cached /\ save' = save /\ pc' # "publish"
    BY <1>4 DEF ConsolidateDynamic
  <2>2. \A m \in DOMAIN cached : parts'[cached[m].part] = parts[cached[m].part]
    BY <1>0, <1>4, CachedPart, ConsolidateKeepsBusy
  <2>3. save'.firstOne
    BY <2>1 DEF OrderInv, OrderKept
  <2> QED BY <2>1, <2>2, <2>3, OrderSame
<1>5. ~ ConsolidateBuddies /\ ~ NoBuddyLeft /\ ~ SplitBuddy
  BY DEF ConsolidateBuddies, NoBuddyLeft, SplitBuddy
<1>6. CASE TakePartition \/ CarvePartition
  BY <1>6, TakeTakes, CarveTakes, OrderTakes
<1>7. CASE \E S \in SUBSET DOMAIN cached \ {{}} : UpdateClockOn(S)
  BY <1>7, OrderRead
<1> QED BY <1>2, <1>3, <1>4, <1>5, <1>6, <1>7, OrderEvict, OrderCompact, OrderPublish
        DEF Next, SaveStep

LEMMA OrderInit == Dynamic /\ Init => OrderInv
BY DynInit DEF Init, OrderInv, OrderKept, StampInv, RankInv, NoSave, ContentInv, ContentIntact, CopyOK

LEMMA OrderAlways == ASSUME Dynamic PROVE Spec => []OrderInv
BY OrderInit, OrderStep, PTL DEF Spec

(* LRU under dynamic partitioning: Evict alone drops a message, and the    *)
(* partition it takes has the least stamp, which is its message's last use. *)
THEOREM DynamicLeastRecentlyUsed == ASSUME Dynamic PROVE Spec => LeastRecentlyUsedGoes
<1> DEFINE A == ~ Fifo => \A m \in DOMAIN cached \ DOMAIN cached' : \A n \in DOMAIN cached' :
                            cached[m].used <= cached'[n].used
<1>1. OrderInv /\ [Next]_vars => [A]_vars
  <2> SUFFICES ASSUME OrderInv, Next, ~ Fifo,
                      NEW m \in DOMAIN cached \ DOMAIN cached', NEW n \in DOMAIN cached'
               PROVE  cached[m].used <= cached'[n].used
    OBVIOUS
  <2>0. DynInv
    BY DEF OrderInv, ContentInv
  <2>1. CASE Evict
    <3>1. PICK v \in Victims :
            /\ v \in DOMAIN parts
            /\ DOMAIN cached' = {k \in DOMAIN cached : cached[k].part # v}
            /\ \A k \in DOMAIN cached' : cached'[k] = cached[k]
      BY <2>0, <2>1, EvictDrops
    <3>2. cached[m].part = v /\ n \in DOMAIN cached /\ cached'[n] = cached[n]
      BY <3>1
    <3>3. parts[v].stamp <= parts[cached[n].part].stamp
      BY <2>0, <3>1, <3>2, CachedPart DEF Victims
    <3> QED BY <3>2, <3>3 DEF OrderInv, OrderKept, StampInv
  <2>2. CASE ~ Evict
    <3>1. DOMAIN cached \subseteq DOMAIN cached'
      BY <2>2 DEF Next, SaveStep, SaveMessage, UpdateClockOn, FindTooLarge, FindFits, FindNothing,
                  ConsolidateDynamic, ConsolidateBuddies, NoBuddyLeft, RetryFits, RetryNothing,
                  Compact, ReselectFits, ReselectNothing, TakePartition, CarvePartition,
                  SplitBuddy, Publish
    <3> QED BY <3>1
  <2> QED BY <2>1, <2>2
<1>2. Spec => [][A]_vars
  BY <1>1, OrderAlways, PTL DEF Spec
<1> QED BY <1>2 DEF LeastRecentlyUsedGoes

-----------------------------------------------------------------------------
(* The refinement of MessageStore. *)

(* MessageStore's sum of the sizes, as a sum over a finite set. *)
LEMMA OccupiedIsOver ==
  ASSUME NEW s, IsFiniteSet(DOMAIN s)
  PROVE  Store!Occupied(s) = Over([m \in DOMAIN s |-> s[m].len], DOMAIN s)
<1> DEFINE T == DOMAIN s
           f == [m \in T |-> s[m].len]
           F(g) == g = [u \in SUBSET T |->
                          IF u = {} THEN 0
                          ELSE LET x == CHOOSE x \in u : TRUE IN s[x].len + g[u \ {x}]]
           it == CHOOSE g : F(g)
<1>1. Store!Occupied(s) = it[T]
  BY DEF Store!Occupied, Store!MapThenSumSet, Store!MapThenFoldSet
<1>2. ASSUME NEW g PROVE F(g) <=> Adds(g, f, T)
  <2>1. \A u \in SUBSET T : u # {} => First(u) \in T
    BY FirstIsIn
  <2> DEFINE left == [u \in SUBSET T |-> IF u = {} THEN 0 ELSE s[First(u)].len + g[u \ {First(u)}]]
             right == [u \in SUBSET T |-> IF u = {} THEN 0 ELSE f[First(u)] + g[u \ {First(u)}]]
  <2>2. \A u \in SUBSET T : left[u] = right[u]
    BY <2>1
  <2>3. left = right
    BY <2>2
  <2>4. F(g) <=> g = left
    BY DEF First
  <2>5. Adds(g, f, T) <=> g = right
    BY DEF Adds
  <2> HIDE DEF left, right, F
  <2> QED BY <2>3, <2>4, <2>5
<1>3. UniquelyAdds(f, T)
  BY EveryFiniteAdds
<1>4. \E g : F(g)
  <2>1. PICK g : Adds(g, f, T)
    BY <1>3 DEF UniquelyAdds
  <2> HIDE DEF f, F
  <2> QED BY <1>2, <2>1
<1>5. F(it)
  BY <1>4
<1>6. it = Adder(f, T)
  <2> HIDE DEF f, F, it
  <2> QED BY <1>2, <1>3, <1>5, AdderAdds
<1> QED BY <1>1, <1>6 DEF Over

LEMMA CachedFinite == ASSUME TypeOK PROVE IsFiniteSet(DOMAIN cached)
<1>1. DOMAIN cached \in SUBSET (1 .. lastSaved) /\ 1 \in Int /\ lastSaved \in Int
  BY DEF TypeOK
<1>2. IsFiniteSet(1 .. lastSaved)
  BY <1>1, FS_Interval
<1> QED BY <1>1, <1>2, FS_Subset

(* The messages that read back have that many bytes of their own.          *)
HeldBy(T) == {a \in Addresses : bytes[a] \in T}

LEMMA HeldFinite == ASSUME NEW T PROVE IsFiniteSet(HeldBy(T)) /\ Cardinality(HeldBy(T)) \in Nat
                                       /\ Cardinality(HeldBy(T)) <= MemorySize
<1>1. 0 \in Int /\ MemorySize - 1 \in Int /\ ~ (0 > MemorySize - 1)
  BY CacheAssumption
<1>2. IsFiniteSet(Addresses) /\ Cardinality(Addresses) = MemorySize
  <2>1. IsFiniteSet(0 .. MemorySize - 1) /\ Cardinality(0 .. MemorySize - 1) = MemorySize - 1 - 0 + 1
    BY <1>1, FS_Interval
  <2> QED BY <2>1, CacheAssumption DEF Addresses
<1>3. HeldBy(T) \in SUBSET Addresses
  BY DEF HeldBy
<1> QED BY <1>2, <1>3, FS_Subset, FS_CardinalityType

LEMMA HeldByOne ==
  ASSUME ContentInv, NEW m \in DOMAIN cached
  PROVE  cached[m].len <= Cardinality(HeldBy({m}))
<1> DEFINE b == parts[cached[m].part].begin
           n == cached[m].len
<1>1. /\ cached[m].part \in DOMAIN parts
      /\ \A a \in b .. b + n - 1 : a \in Addresses /\ bytes[a] = m
  BY DEF ContentInv, ContentIntact
<1>2. TypeOK
  BY DEF ContentInv, DynInv, TypeInv
<1>3. n \in Nat \ {0} /\ b \in Int
  BY <1>1, <1>2, CacheAssumption DEF TypeOK, Partition
<1> HIDE DEF b, n
<1>4. b .. b + n - 1 \in SUBSET HeldBy({m})
  BY <1>1 DEF HeldBy
<1>5. Cardinality(b .. b + n - 1) = n
  <2>1. b \in Int /\ b + n - 1 \in Int /\ ~ (b > b + n - 1)
    BY <1>3
  <2>2. Cardinality(b .. b + n - 1) = (b + n - 1) - b + 1
    BY <2>1, FS_Interval
  <2> QED BY <1>3, <2>2
<1>6. Cardinality(b .. b + n - 1) <= Cardinality(HeldBy({m}))
  BY <1>4, HeldFinite, FS_Subset
<1> QED BY <1>5, <1>6 DEF n

LEMMA SizesFit ==
  ASSUME ContentInv
  PROVE  Over([m \in DOMAIN cached |-> cached[m].len], DOMAIN cached) <= MemorySize
<1> DEFINE D == DOMAIN cached
           len == [m \in D |-> cached[m].len]
           Good == {T \in SUBSET D : Over(len, T) <= Cardinality(HeldBy(T))}
<1>1. TypeOK
  BY DEF ContentInv, DynInv, TypeInv
<1>2. IsFiniteSet(D)
  BY <1>1, CachedFinite
<1>3. \A m \in D : len[m] \in Int
  BY <1>1, CacheAssumption DEF TypeOK
<1>4. ASSUME NEW m \in D PROVE len[m] <= Cardinality(HeldBy({m}))
  BY HeldByOne
<1> HIDE DEF len
<1>5. ASSUME NEW T \in SUBSET D, \A U \in SUBSET T : U # T => U \in Good
      PROVE  T \in Good
  <2>1. CASE T = {}
    <3>1. Over(len, {}) = 0
      BY OverEmpty
    <3>2. Cardinality(HeldBy({})) \in Nat
      BY HeldFinite
    <3> QED BY <2>1, <3>1, <3>2
  <2>2. CASE T # {}
    <3> DEFINE m == First(T)
               U == T \ {m}
    <3>1. m \in T /\ U # T /\ U \in SUBSET T /\ U \in SUBSET D
      BY <2>2, FirstIsIn
    <3>2. Over(len, T) = len[m] + Over(len, U)
      <4>1. IsFiniteSet(T)
        BY <1>2, FS_Subset
      <4> QED BY <2>2, <4>1, OverFirst
    <3>3. Over(len, U) <= Cardinality(HeldBy(U))
      BY <1>5, <3>1
    <3>4. Over(len, U) \in Int /\ len[m] \in Int /\ len[m] <= Cardinality(HeldBy({m}))
      BY <1>2, <1>3, <1>4, <3>1, OverInt
    <3> HIDE DEF U
    <3>5. /\ HeldBy(T) = HeldBy({m}) \cup HeldBy(U)
          /\ HeldBy({m}) \cap HeldBy(U) = {}
      BY <3>1 DEF HeldBy, U
    <3> HIDE DEF m
    <3>6. Cardinality(HeldBy(T)) = Cardinality(HeldBy({m})) + Cardinality(HeldBy(U))
      <4> DEFINE A == HeldBy({m})
                 B == HeldBy(U)
      <4>1. /\ IsFiniteSet(A) /\ IsFiniteSet(B)
            /\ Cardinality(A) \in Nat /\ Cardinality(B) \in Nat /\ A \cap B = {}
        BY <3>5, HeldFinite
      <4> HIDE DEF A, B
      <4>2. Cardinality(A \cup B) = Cardinality(A) + Cardinality(B) - Cardinality(A \cap B)
        BY <4>1, FS_Union
      <4>3. Cardinality(A \cap B) = 0
        BY <4>1, FS_EmptySet
      <4>4. Cardinality(A \cup B) = Cardinality(A) + Cardinality(B)
        BY <4>1, <4>2, <4>3
      <4> QED BY <3>5, <4>4 DEF A, B
    <3>7. Cardinality(HeldBy({m})) \in Nat /\ Cardinality(HeldBy(U)) \in Nat
      BY HeldFinite
    <3>8. Over(len, T) <= Cardinality(HeldBy(T))
      BY <3>2, <3>3, <3>4, <3>6, <3>7
    <3> QED BY <3>8
  <2> QED BY <2>1, <2>2
<1>6. \A T \in SUBSET D : T \in Good
  <2> HIDE DEF Good
  <2> QED BY <1>2, <1>5, SubsetInduction
<1>7. Over(len, D) <= Cardinality(HeldBy(D))
  BY <1>6
<1>8. Over(len, D) \in Int /\ Cardinality(HeldBy(D)) \in Nat /\ Cardinality(HeldBy(D)) <= MemorySize
  BY <1>2, <1>3, OverInt, HeldFinite
<1>9. Over(len, D) <= MemorySize
  BY <1>7, <1>8, CacheAssumption
<1> QED BY <1>9 DEF len

LEMMA SizesFitNext ==
  ContentInv' => Over([m \in DOMAIN cached' |-> cached'[m].len], DOMAIN cached') <= MemorySize
<1>1. ContentInv => Over([m \in DOMAIN cached |-> cached[m].len], DOMAIN cached) <= MemorySize
  BY SizesFit
<1>2. (ContentInv => Over([m \in DOMAIN cached |-> cached[m].len], DOMAIN cached) <= MemorySize)'
  BY <1>1, PTL
<1> QED BY <1>2

(* The store the cache shows: what is cached, read back as it was saved. *)
ReadBack == [m \in DOMAIN cached |-> [len |-> cached[m].len, content |-> ContentOf(m)]]
Kept == [m \in DOMAIN cached |-> [len |-> cached[m].len, content |-> m]]

LEMMA AllReadBack == OrderInv => ReadBack = Kept
<1> SUFFICES ASSUME OrderInv PROVE ReadBack = Kept
  OBVIOUS
<1>1. ASSUME NEW m \in DOMAIN cached PROVE ContentOf(m) = m
  BY DEF OrderInv, ContentInv, ContentIntact, ContentOf
<1> QED BY <1>1 DEF ReadBack, Kept

LEMMA AllReadBackNext == OrderInv' => ReadBack' = Kept'
<1>1. OrderInv => ReadBack = Kept
  BY AllReadBack
<1>2. (OrderInv => ReadBack = Kept)'
  BY <1>1, PTL
<1> QED BY <1>2

LEMMA BeginMaps == ASSUME OrderInv, ReadBack' = ReadBack, SaveMessage PROVE Store!Begin
<1>1. save.msg = 0 /\ save'.msg = lastSaved + 1 /\ lastSaved' = lastSaved + 1 /\ lastSaved < NMessages
  BY DEF SaveMessage, OrderInv, ContentInv, DynInv, TypeInv, SaveOK, NoSave, NoMessage
<1> QED BY <1>1 DEF Store!Begin, Store!NoMessage, ReadBack

LEMMA GiveUpMaps ==
  ASSUME OrderInv, ReadBack = Kept, ReadBack' = Kept', Evict
  PROVE  \E k \in DOMAIN ReadBack : Store!GiveUp(k)
<1>0. DynInv /\ TypeOK
  BY DEF OrderInv, ContentInv, DynInv, TypeInv
<1>1. PICK v \in Victims :
        /\ DOMAIN cached' = {m \in DOMAIN cached : cached[m].part # v}
        /\ \A m \in DOMAIN cached' : cached'[m] = cached[m]
        /\ \E k \in DOMAIN cached : cached[k].part = v
        /\ save' = [save EXCEPT !.target = v]
  BY <1>0, EvictDrops
<1>2. PICK k \in DOMAIN cached : cached[k].part = v
  BY <1>1
<1>3. DOMAIN cached' = DOMAIN cached \ {k}
  <2>1. \A m \in DOMAIN cached : cached[m].part = v => m = k
    BY <1>0, <1>2 DEF DynInv, BusyIsCached
  <2> QED BY <1>1, <1>2, <2>1
<1>4. ReadBack' = [n \in DOMAIN ReadBack \ {k} |-> ReadBack[n]]
  <2>1. Kept' = [n \in DOMAIN cached \ {k} |-> [len |-> cached[n].len, content |-> n]]
    BY <1>1, <1>3 DEF Kept
  <2>2. [n \in DOMAIN Kept \ {k} |-> Kept[n]]
          = [n \in DOMAIN cached \ {k} |-> [len |-> cached[n].len, content |-> n]]
    BY DEF Kept
  <2> QED BY <2>1, <2>2
<1>5. DOMAIN ReadBack = DOMAIN cached
  BY DEF ReadBack
<1>6. ASSUME Fifo, NEW n \in DOMAIN cached PROVE k <= n
  <2>1. k \in Int /\ n \in Int
    BY <1>0, <1>2 DEF TypeOK
  <2>2. cached[n].part \in Busy(parts) /\ cached[n].part \in DOMAIN parts /\ v \in DOMAIN parts
    BY <1>0, <1>2, CachedPart
  <2>3. parts[v].rank <= parts[cached[n].part].rank
    BY <1>1, <1>6, <2>2 DEF Victims, FirstOf
  <2>4. ASSUME n < k PROVE FALSE
    <3>1. parts[cached[n].part].rank < parts[v].rank
      BY <1>2, <2>4 DEF OrderInv, OrderKept, RankInv
    <3>2. parts[v].rank \in Nat /\ parts[cached[n].part].rank \in Nat
      BY <1>0, <2>2 DEF TypeOK, Partition
    <3> QED BY <2>3, <3>1, <3>2
  <2> QED BY <2>1, <2>4
<1>7. save.msg # 0 /\ save'.msg = save.msg /\ lastSaved' = lastSaved
  BY <1>0, <1>1 DEF Evict, DynInv, TypeInv, SaveOK, TypeOK
<1>8. Store!GiveUp(k)
  BY <1>4, <1>5, <1>6, <1>7 DEF Store!GiveUp, Store!NoMessage, ReadBack
<1> QED BY <1>2, <1>5, <1>8

LEMMA FinishMaps ==
  ASSUME OrderInv, OrderInv', ReadBack = Kept, ReadBack' = Kept', Publish
  PROVE  Store!Finish
<1>0. DynInv /\ TypeOK
  BY DEF OrderInv, ContentInv, DynInv, TypeInv
<1>1. /\ DOMAIN cached' = DOMAIN cached \cup {save.msg}
      /\ save.msg \notin DOMAIN cached /\ save.len \in Lens /\ save.msg # 0
      /\ cached'[save.msg].len = save.len
      /\ \A m \in DOMAIN cached : cached'[m] = cached[m]
      /\ save'.msg = 0 /\ lastSaved' = lastSaved
  BY <1>0 DEF Publish, DynInv, TargetOK, TypeInv, SaveOK, NoSave, NoMessage
<1>2. ReadBack' = [n \in DOMAIN ReadBack \cup {save.msg} |->
                     IF n = save.msg THEN [len |-> save.len, content |-> save.msg]
                     ELSE ReadBack[n]]
  <2> DEFINE new == [n \in DOMAIN cached \cup {save.msg} |->
                       IF n = save.msg THEN [len |-> save.len, content |-> save.msg]
                       ELSE [len |-> cached[n].len, content |-> n]]
  <2>1. Kept' = new
    BY <1>1 DEF Kept
  <2>2. [n \in DOMAIN Kept \cup {save.msg} |->
           IF n = save.msg THEN [len |-> save.len, content |-> save.msg] ELSE Kept[n]] = new
    BY DEF Kept
  <2> HIDE DEF new
  <2> QED BY <2>1, <2>2
<1>3. Store!Occupied(ReadBack') <= MemorySize
  <2>1. DOMAIN ReadBack' = DOMAIN cached'
    BY DEF ReadBack
  <2>2. IsFiniteSet(DOMAIN cached')
    <3>1. IsFiniteSet(DOMAIN cached)
      BY <1>0, CachedFinite
    <3>2. IsFiniteSet(DOMAIN cached \cup {save.msg})
      BY <3>1, FS_AddElement
    <3> QED BY <1>1, <3>2
  <2>3. Store!Occupied(ReadBack') =
          Over([m \in DOMAIN ReadBack' |-> ReadBack'[m].len], DOMAIN ReadBack')
    BY <2>1, <2>2, OccupiedIsOver
  <2>4. [m \in DOMAIN ReadBack' |-> ReadBack'[m].len] = [m \in DOMAIN cached' |-> cached'[m].len]
    BY <2>1 DEF ReadBack
  <2>5. Over([m \in DOMAIN cached' |-> cached'[m].len], DOMAIN cached') <= MemorySize
    BY SizesFitNext DEF OrderInv
  <2> QED BY <2>1, <2>3, <2>4, <2>5
<1> QED BY <1>1, <1>2, <1>3 DEF Store!Finish, Store!NoMessage, ReadBack

LEMMA StoreStep ==
  ASSUME Dynamic, OrderInv, OrderInv', [Next]_vars
  PROVE  [Store!Next]_(Store!vars)
<1>0. DynInv /\ TypeOK
  BY DEF OrderInv, ContentInv, DynInv, TypeInv
<1>1. ReadBack = Kept /\ ReadBack' = Kept'
  BY AllReadBack, AllReadBackNext
<1>2. ASSUME Kept' = Kept, save'.msg = save.msg, lastSaved' = lastSaved PROVE UNCHANGED Store!vars
  BY <1>1, <1>2 DEF Store!vars, ReadBack
<1>3. CASE SaveMessage
  <2>1. Kept' = Kept
    BY <1>3 DEF SaveMessage, Kept
  <2> QED BY <1>1, <1>3, <2>1, BeginMaps DEF Store!Next
<1>4. CASE Evict
  BY <1>1, <1>4, GiveUpMaps DEF Store!Next, ReadBack
<1>5. CASE Publish
  BY <1>1, <1>5, FinishMaps DEF Store!Next
<1>6. CASE \E S \in SUBSET DOMAIN cached \ {{}} : UpdateClockOn(S)
  <2>1. PICK S \in SUBSET DOMAIN cached : UpdateClockOn(S)
    BY <1>6
  <2>2. PICK now : cached' = [m \in DOMAIN cached |->
                                IF m \in S THEN [cached[m] EXCEPT !.used = now] ELSE cached[m]]
    BY <2>1 DEF UpdateClockOn
  <2>3. DOMAIN cached' = DOMAIN cached /\ \A m \in DOMAIN cached : cached'[m].len = cached[m].len
    BY <1>0, <2>2 DEF TypeOK
  <2>4. Kept' = Kept
    BY <2>3 DEF Kept
  <2>5. save' = save /\ lastSaved' = lastSaved
    BY <2>1 DEF UpdateClockOn
  <2> QED BY <1>2, <2>4, <2>5
<1>7. CASE UNCHANGED vars \/ FindTooLarge \/ FindFits \/ FindNothing \/ ConsolidateDynamic
           \/ RetryFits \/ RetryNothing \/ Compact \/ ReselectFits \/ ReselectNothing
           \/ TakePartition \/ CarvePartition
  <2>1. cached' = cached /\ lastSaved' = lastSaved
    BY <1>7 DEF vars, FindTooLarge, FindFits, FindNothing, ConsolidateDynamic, RetryFits,
                RetryNothing, Compact, ReselectFits, ReselectNothing, TakePartition,
                CarvePartition
  <2>2. save'.msg = save.msg
    BY <1>0, <1>7 DEF vars, FindTooLarge, FindFits, FindNothing, ConsolidateDynamic, RetryFits,
                RetryNothing, Compact, ReselectFits, ReselectNothing, TakePartition,
                CarvePartition, TypeOK
  <2>3. Kept' = Kept
    BY <2>1 DEF Kept
  <2> QED BY <1>2, <2>1, <2>2, <2>3
<1>8. ~ ConsolidateBuddies /\ ~ NoBuddyLeft /\ ~ SplitBuddy
  BY DEF ConsolidateBuddies, NoBuddyLeft, SplitBuddy
<1> QED BY <1>3, <1>4, <1>5, <1>6, <1>7, <1>8 DEF Next, SaveStep

LEMMA StoreInit == Init => Store!Init
<1> SUFFICES ASSUME Init PROVE Store!Init
  OBVIOUS
<1>1. DOMAIN cached = {} /\ save.msg = 0 /\ lastSaved = 0
  BY DEF Init, NoSave, NoMessage
<1> QED BY <1>1 DEF Store!Init, Store!NoMessage

(* Under dynamic partitioning the cache is the store the broker was        *)
(* promised: whatever is searched, evicted, merged, compacted or split, a  *)
(* reader sees messages that were saved, as they were saved, that go only  *)
(* while room is made, the oldest first under FIFO, and that fit together. *)
THEOREM DynamicImplementsStore == ASSUME Dynamic PROVE Spec => ImplementsStore
<1>1. OrderInv /\ OrderInv' /\ [Next]_vars => [Store!Next]_(Store!vars)
  BY StoreStep
<1>2. Spec => Store!Init /\ [][Store!Next]_(Store!vars)
  BY <1>1, StoreInit, OrderAlways, PTL DEF Spec
<1> QED BY <1>2 DEF ImplementsStore, Store!Spec
=============================================================================

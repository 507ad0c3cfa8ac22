-------------------------- MODULE BlockBitmap_proofs --------------------------
(***************************************************************************)
(* Theorems about BlockBitmap, for any names, number and size of blocks,   *)
(* length of lines, lines per file and restarts.                           *)
(***************************************************************************)
EXTENDS BlockBitmap, TLAPS

(* Who asks for blocks has mutexBitArray from the search to the post, and  *)
(* the block that it found, which exists, is nobody's until its bit is on. *)
Locked == {"search", "loadOn", "storeOn", "copyOn", "unlock"}
Asking == {"lock", "write", "save"} \cup Locked
Giving == {"remove", "loadOff", "storeOff", "copyOff", "next"}

Bits == 0 .. MaxBit - 1   \* the blocks that have one

LockInv ==
  \A p \in Pokemons : op[p].pc \in Locked <=> p \in allocating

OneLocks == \A p, q \in allocating : p = q

FoundInv ==
  \A p \in Pokemons :
    /\ op[p].pc \in {"loadOn", "storeOn"} => op[p].at \in Bits \ bits
    /\ op[p].pc \in {"copyOn", "unlock"} => op[p].at \in bits /\ op[p].at \notin ToSet(op[p].list)

(* The block that is given back is the one the operation is at, and no     *)
(* list has a block twice.                                                 *)
Distinct(list) == \A i, j \in DOMAIN list : list[i] = list[j] => i = j

GiveInv ==
  \A p \in Pokemons :
    /\ op[p].pc \in Giving => op[p].k \in DOMAIN op[p].list
    /\ op[p].pc \in {"loadOff", "storeOff"} => op[p].at = op[p].list[op[p].k]

ListInv ==
  \A p \in Pokemons : Distinct(op[p].list) /\ Distinct(files[p].list)

(* A file whose operation was killed has none any more. *)
RestInv == \A p \in Pokemons : /\ op[p].pc = "idle" => op[p] = Idle
                               /\ p \in unfinished => op[p] = Idle

(* What an operation that asks for blocks has so far is in the mapped      *)
(* file, and what it wrote is there.                                       *)
MappedInv ==
  \A p \in Alive :
    /\ op[p].pc = "idle" => ToSet(files[p].list) \subseteq mapped
    /\ op[p].pc \in Asking => ToSet(op[p].list) \subseteq mapped
    /\ op[p].pc = "unlock" => op[p].at \in mapped

WrittenInv ==
  \A p \in Alive :
    /\ op[p].pc = "idle" => \A b \in ToSet(files[p].list) : content[b] = p
    /\ op[p].pc = "save" => \A b \in ToSet(op[p].list) : content[b] = p

HeldInv ==
  /\ \A p, q \in Alive : p # q => \A b \in Held(p) : b \notin Held(q)
  /\ \A p \in Alive : Held(p) \subseteq bits
  /\ restarts = 0 => unfinished = {} /\ bits \subseteq UNION {Held(p) : p \in Pokemons}

(* The blocks that a size needs. *)
Fits(blocks, size) == size <= blocks * BlockSize /\ blocks * BlockSize < size + BlockSize
Lines(size) == \E n \in Nat : size = n * LineSize

SizeInv ==
  /\ \A p \in Pokemons : Fits(Len(files[p].list), files[p].size) /\ Lines(files[p].size)
  /\ \A p \in Pokemons :
       LET o == op[p] IN
       /\ Lines(o.size)
       /\ o.pc \in Asking => Fits(Len(o.list) + o.left, o.size)
       /\ o.pc \in {"lock"} \cup Locked => o.left > 0
       /\ o.pc \in {"write", "save"} => o.left = 0

BlockInv ==
  /\ LockInv /\ OneLocks /\ FoundInv /\ GiveInv /\ ListInv /\ RestInv
  /\ MappedInv /\ WrittenInv /\ HeldInv

IInv == TypeOK /\ SizeInv /\ (Sound => BlockInv)

-----------------------------------------------------------------------------
(* Lemmas about the operators.                                             *)

LEMMA MaxBitIsNat == MaxBit \in Nat
BY BlockBitmapAssumption DEF MaxBit, Bytes

LEMMA ToSetEmpty == ToSet(<<>>) = {}
BY DEF ToSet

LEMMA ToSetAppend ==
  ASSUME NEW S, NEW list \in Seq(S), NEW x \in S
  PROVE  ToSet(Append(list, x)) = ToSet(list) \cup {x}
<1> DEFINE more == Append(list, x)
<1>1. /\ DOMAIN more = DOMAIN list \cup {Len(list) + 1}
      /\ \A i \in DOMAIN list : more[i] = list[i]
      /\ more[Len(list) + 1] = x
  OBVIOUS
<1> HIDE DEF more
<1>2. ASSUME NEW b PROVE b \in ToSet(more) <=> b \in ToSet(list) \cup {x}
  BY <1>1 DEF ToSet
<1> QED BY <1>2 DEF more

LEMMA DistinctAppend ==
  ASSUME NEW S, NEW list \in Seq(S), NEW x \in S, Distinct(list), x \notin ToSet(list)
  PROVE  Distinct(Append(list, x))
BY DEF ToSet, Distinct

LEMMA FromFirst ==
  ASSUME NEW S, NEW list \in Seq(S)
  PROVE  From(list, 1) = ToSet(list)
BY DEF From, ToSet

LEMMA FromStep ==
  ASSUME NEW S, NEW list \in Seq(S), NEW k \in DOMAIN list, Distinct(list)
  PROVE  From(list, k + 1) = From(list, k) \ {list[k]} /\ list[k] \in From(list, k)
BY DEF From, Distinct

LEMMA FromPastEnd ==
  ASSUME NEW S, NEW list \in Seq(S)
  PROVE  From(list, Len(list) + 1) = {}
BY DEF From

LEMMA HeldByPc ==
  ASSUME NEW o, NEW file
  PROVE  /\ o.pc = "idle" => HeldOf(o, file) = ToSet(file.list)
         /\ o.pc \in GivesBack => HeldOf(o, file) = From(o.list, o.k)
         /\ o.pc \in GaveBack => HeldOf(o, file) = From(o.list, o.k + 1)
         /\ o.pc \in {"copyOn", "unlock"} => HeldOf(o, file) = ToSet(o.list) \cup {o.at}
         /\ o.pc \in {"lock", "search", "loadOn", "storeOn", "write", "save"} =>
              HeldOf(o, file) = ToSet(o.list)
BY DEF HeldOf, GivesBack, GaveBack

(* Blocks for a size, and the number of bytes of lines. *)
LEMMA DivBounds ==
  ASSUME NEW a \in Nat, NEW b \in Nat \ {0}
  PROVE  /\ (a + b - 1) \div b \in Nat
         /\ a <= ((a + b - 1) \div b) * b
         /\ ((a + b - 1) \div b) * b < a + b
OBVIOUS

LEMMA Distribute ==
  ASSUME NEW a \in Nat, NEW b \in Nat, NEW c \in Nat
  PROVE  (a + b) * c = a * c + b * c
OBVIOUS

LEMMA MoreLines ==
  ASSUME NEW size \in Nat, Lines(size) PROVE Lines(size + LineSize)
<1>1. PICK n \in Nat : size = n * LineSize
  BY DEF Lines
<1>2. size + LineSize = (n + 1) * LineSize
  BY <1>1, BlockBitmapAssumption
<1> QED BY <1>2 DEF Lines

LEMMA FewerLines ==
  ASSUME NEW size \in Nat, Lines(size), size > 0
  PROVE  size - LineSize \in Nat /\ Lines(size - LineSize)
<1>1. PICK n \in Nat : size = n * LineSize
  BY DEF Lines
<1>2. n # 0
  BY <1>1, BlockBitmapAssumption
<1>3. size - LineSize = (n - 1) * LineSize
  BY <1>1, <1>2, BlockBitmapAssumption
<1>4. n - 1 \in Nat
  BY <1>2
<1>5. (n - 1) * LineSize \in Nat
  BY <1>4, BlockBitmapAssumption
<1> QED BY <1>3, <1>4, <1>5 DEF Lines

LEMMA FitsMore ==
  ASSUME NEW len \in Nat, NEW n \in Nat, NEW size \in Nat, NEW old \in Nat,
         len * BlockSize <= size + old,
         size + old - len * BlockSize <= n * BlockSize,
         n * BlockSize < size + old - len * BlockSize + BlockSize
  PROVE  Fits(len + n, old + size)
<1>1. BlockSize \in Nat
  BY BlockBitmapAssumption
<1>2. (len + n) * BlockSize = len * BlockSize + n * BlockSize
  BY <1>1, Distribute
<1>3. len * BlockSize \in Nat /\ n * BlockSize \in Nat
  BY <1>1
<1> DEFINE have == len * BlockSize
           new == n * BlockSize
<1>5. have \in Nat /\ new \in Nat
  BY <1>3
<1> HIDE DEF have, new
<1>6. old + size <= have + new /\ have + new < old + size + BlockSize
  BY <1>1, <1>5 DEF have, new
<1> QED BY <1>2, <1>6 DEF Fits, have, new

LEMMA AmountFits ==
  ASSUME NEW size \in Nat, NEW file, file.size \in Nat, NEW S, file.list \in Seq(S),
         Fits(Len(file.list), file.size)
  PROVE  /\ AmountOfBlocks(size, file) \in Nat
         /\ Fits(Len(file.list) + AmountOfBlocks(size, file), file.size + size)
<1> DEFINE len == Len(file.list)
           have == len * BlockSize
           room == have - file.size
           more == size - room
<1>1. BlockSize \in Nat \ {0} /\ len \in Nat /\ have \in Nat
  BY BlockBitmapAssumption
<1>2. BlockSize * len = have
  BY <1>1
<1>3. room \in 0 .. BlockSize - 1 /\ (file.list = <<>> => room = 0)
  BY <1>1 DEF Fits
<1>4. AmountOfBlocks(size, file) = IF more <= 0 THEN 0 ELSE (more + BlockSize - 1) \div BlockSize
  BY <1>1, <1>2, <1>3 DEF AmountOfBlocks
<1>5. CASE more <= 0
  BY <1>1, <1>3, <1>4, <1>5 DEF Fits
<1>6. CASE more > 0
  <2> DEFINE n == (more + BlockSize - 1) \div BlockSize
  <2>1. more \in Nat
    BY <1>1, <1>3, <1>6
  <2>2. n \in Nat /\ more <= n * BlockSize /\ n * BlockSize < more + BlockSize
    <3> HIDE DEF more
    <3> QED BY <1>1, <2>1, DivBounds
  <2>3. AmountOfBlocks(size, file) = n
    <3>1. ~(more <= 0)
      BY <1>6, <2>1
    <3> HIDE DEF more
    <3> QED BY <1>4, <3>1
  <2> HIDE DEF n, have
  <2>4. more = size + file.size - have
    BY <1>1
  <2>5. have <= size + file.size
    BY <1>1, <1>6
  <2> HIDE DEF more, len
  <2>6. Fits(len + n, file.size + size)
    BY <1>1, <2>2, <2>4, <2>5, FitsMore DEF have
  <2> QED BY <2>2, <2>3, <2>6 DEF len
<1> QED BY <1>1, <1>3, <1>5, <1>6

-----------------------------------------------------------------------------
(* The steps.  Each is of one pokemon's operation: the others have theirs, *)
(* and their files, as before, and what they hold.                         *)

Moves(p) ==
  /\ op' \in [Pokemons -> OpRecords]
  /\ \A q \in Pokemons \ {p} : op'[q] = op[q]

Same(p) ==
  /\ op'[p].list = op[p].list /\ op'[p].size = op[p].size
  /\ op'[p].left = op[p].left /\ op'[p].k = op[p].k

Pcs == {"idle", "lock", "search", "loadOn", "storeOn", "copyOn", "unlock", "remove",
        "loadOff", "storeOff", "copyOff", "next", "write", "save"}

OthersFiles(p) == \A q \in Pokemons \ {p} : files'[q] = files[q]

LEMMA Moved ==
  ASSUME TypeOK, NEW p \in Pokemons, NEW o \in OpRecords, op' = [op EXCEPT ![p] = o]
  PROVE  Moves(p) /\ op'[p] = o
BY DEF TypeOK, Moves

LEMMA HeldFrame ==
  ASSUME HeldInv, NEW p \in Pokemons, Moves(p), OthersFiles(p), Held(p)' = Held(p),
         bits' = bits, restarts' = restarts, unfinished' = unfinished
  PROVE  HeldInv'
<1>1. \A q \in Pokemons : HeldOf(op'[q], files'[q]) = HeldOf(op[q], files[q])
  BY DEF Held, Moves, OthersFiles
<1>2. Alive \subseteq Pokemons
  BY DEF Alive
<1> QED BY <1>1, <1>2 DEF HeldInv, Held, Alive

LEMMA IdleIsRecord == Idle \in OpRecords
BY MaxBitIsNat DEF Idle, OpRecords

LEMMA AddLineKeeps ==
  ASSUME TypeOK, SizeInv, BlockInv, Sound, NEW p \in Pokemons, AddLine(p)
  PROVE  TypeOK' /\ SizeInv' /\ (Sound' => BlockInv')
<1> DEFINE left == AmountOfBlocks(LineSize, files[p])
           pc == AsksOrWrites(left)
           size == files[p].size + LineSize
<1>1. LineSize \in Nat /\ files[p].size \in Nat /\ files[p].list \in Seq(0 .. MaxBit + 1)
  BY BlockBitmapAssumption DEF TypeOK
<1>2. /\ left \in Nat /\ size \in Nat
      /\ Fits(Len(files[p].list) + left, size)
      /\ Lines(size)
  <2>1. Fits(Len(files[p].list), files[p].size) /\ Lines(files[p].size)
    BY DEF SizeInv
  <2>2. left \in Nat /\ Fits(Len(files[p].list) + left, files[p].size + LineSize)
    BY <1>1, <2>1, AmountFits
  <2> HIDE DEF left
  <2>3. Lines(size)
    BY <1>1, <2>1, MoreLines
  <2> QED BY <1>1, <2>2, <2>3
<1>3. pc = (IF left > 0 THEN "lock" ELSE "write")
  BY DEF AsksOrWrites
<1>4. /\ op' = [op EXCEPT ![p] = [Idle EXCEPT !.pc = pc, !.list = files[p].list, !.size = size, !.left = left]]
      /\ UNCHANGED <<bits, mapped, allocating, content, files, restarts, unfinished, torn, past>>
      /\ op[p].pc = "idle" /\ p \notin unfinished
  BY DEF AddLine
<1> HIDE DEF left, pc, size
<1>5. Moves(p)
  <2> DEFINE o == [Idle EXCEPT !.pc = pc, !.list = files[p].list, !.size = size, !.left = left]
  <2>1. o \in OpRecords
    BY <1>1, <1>2, <1>3, IdleIsRecord DEF OpRecords
  <2> HIDE DEF o
  <2> QED BY <1>4, <2>1, Moved DEF o
<1>6. /\ op'[p].pc = pc /\ op'[p].list = files[p].list /\ op'[p].size = size /\ op'[p].left = left
      /\ pc \in {"lock", "write"}
  BY <1>3, <1>4 DEF TypeOK, OpRecords, Idle
<1>7. OthersFiles(p)
  BY <1>4 DEF OthersFiles
<1>h. Held(p)' = Held(p)
  <2>1. HeldOf(op[p], files[p]) = ToSet(files[p].list)
    BY <1>4, HeldByPc
  <2>2. HeldOf(op'[p], files'[p]) = ToSet(op'[p].list)
    BY <1>6, HeldByPc
  <2> QED BY <1>6, <2>1, <2>2 DEF Held
<1>t. TypeOK'
  BY <1>3, <1>4, <1>6, <1>7, <1>5 DEF TypeOK, Moves
<1>s. SizeInv'
  BY <1>3, <1>4, <1>6, <1>7, <1>5, <1>2 DEF SizeInv, Moves, OthersFiles, Locked, Asking, Giving
<1>b. ASSUME Sound' PROVE BlockInv'
  <2> USE <1>b DEF BlockInv
  <2>1. LockInv'
    BY <1>3, <1>4, <1>6, <1>7, <1>5 DEF LockInv, Moves, Locked
  <2>2. OneLocks'
    BY <1>3, <1>4, <1>6, <1>7, <1>5 DEF OneLocks, TypeOK
  <2>3. FoundInv'
    BY <1>3, <1>4, <1>6, <1>7, <1>5 DEF FoundInv, Moves, Locked
  <2>4. GiveInv'
    BY <1>3, <1>4, <1>6, <1>7, <1>5 DEF GiveInv, Moves, Giving
  <2>5. ListInv'
    BY <1>3, <1>4, <1>6, <1>7, <1>5 DEF ListInv, Moves, OthersFiles
  <2>6. RestInv'
    BY <1>3, <1>4, <1>6, <1>7, <1>5 DEF RestInv, Moves, OthersFiles
  <2>7. MappedInv'
    BY <1>3, <1>4, <1>6, <1>7, <1>5 DEF MappedInv, Moves, OthersFiles, Alive, Locked, Asking
  <2>8. WrittenInv'
    BY <1>3, <1>4, <1>6, <1>7, <1>5 DEF WrittenInv, Moves, OthersFiles, Alive
  <2>9. HeldInv'
    BY <1>3, <1>4, <1>6, <1>7, <1>5, <1>h, HeldFrame
  <2> QED BY <2>1, <2>2, <2>3, <2>4, <2>5, <2>6, <2>7, <2>8, <2>9
<1> QED BY <1>t, <1>s, <1>b

LEMMA RemoveLineKeeps ==
  ASSUME TypeOK, SizeInv, BlockInv, Sound, NEW p \in Pokemons, RemoveLine(p)
  PROVE  TypeOK' /\ SizeInv' /\ (Sound' => BlockInv')
<1> DEFINE size == files[p].size - LineSize
<1>1. /\ op' = [op EXCEPT ![p] = [Idle EXCEPT !.pc = "remove", !.list = files[p].list, !.size = size]]
      /\ UNCHANGED <<bits, mapped, allocating, content, files, restarts, unfinished, torn, past>>
      /\ op[p].pc = "idle" /\ p \notin unfinished /\ files[p].size > 0
  BY DEF RemoveLine
<1>2. /\ files[p].size \in Nat /\ files[p].list \in Seq(0 .. MaxBit + 1)
      /\ Fits(Len(files[p].list), files[p].size) /\ Lines(files[p].size)
  BY DEF TypeOK, SizeInv
<1>3. size \in Nat /\ Lines(size)
  BY <1>1, <1>2, FewerLines
<1>4. 1 \in DOMAIN files[p].list
  <2>1. Len(files[p].list) # 0
    BY <1>1, <1>2, BlockBitmapAssumption DEF Fits
  <2> QED BY <1>2, <2>1
<1> HIDE DEF size
<1>5. Moves(p)
  <2> DEFINE o == [Idle EXCEPT !.pc = "remove", !.list = files[p].list, !.size = size]
  <2>1. o \in OpRecords
    BY <1>2, <1>3, IdleIsRecord DEF OpRecords
  <2> HIDE DEF o
  <2> QED BY <1>1, <2>1, Moved DEF o
<1>6. /\ op'[p].pc = "remove" /\ op'[p].list = files[p].list /\ op'[p].size = size
      /\ op'[p].k = 1
  BY <1>1 DEF TypeOK, OpRecords, Idle
<1>7. OthersFiles(p)
  BY <1>1 DEF OthersFiles
<1>h. Held(p)' = Held(p)
  <2>1. HeldOf(op[p], files[p]) = ToSet(files[p].list)
    BY <1>1, HeldByPc
  <2>2. HeldOf(op'[p], files'[p]) = From(op'[p].list, op'[p].k)
    BY <1>6, HeldByPc DEF GivesBack
  <2>3. From(files[p].list, 1) = ToSet(files[p].list)
    BY <1>2, FromFirst
  <2> QED BY <1>6, <2>1, <2>2, <2>3 DEF Held
<1>t. TypeOK'
  BY <1>1, <1>5, <1>6, <1>7 DEF TypeOK, Moves
<1>s. SizeInv'
  BY <1>1, <1>5, <1>6, <1>7, <1>3 DEF SizeInv, Moves, OthersFiles, Locked, Asking, Giving
<1>b. ASSUME Sound' PROVE BlockInv'
  <2> USE <1>b DEF BlockInv
  <2>1. LockInv'
    BY <1>1, <1>5, <1>6, <1>7 DEF LockInv, Moves, Locked
  <2>2. OneLocks'
    BY <1>1, <1>5, <1>6, <1>7 DEF OneLocks, TypeOK
  <2>3. FoundInv'
    BY <1>1, <1>5, <1>6, <1>7 DEF FoundInv, Moves, Locked
  <2>4. GiveInv'
    BY <1>1, <1>5, <1>6, <1>7, <1>4 DEF GiveInv, Moves, Giving
  <2>5. ListInv'
    BY <1>1, <1>5, <1>6, <1>7 DEF ListInv, Moves, OthersFiles
  <2>6. RestInv'
    BY <1>1, <1>5, <1>6, <1>7 DEF RestInv, Moves, OthersFiles
  <2>7. MappedInv'
    BY <1>1, <1>5, <1>6, <1>7 DEF MappedInv, Moves, OthersFiles, Alive, Locked, Asking
  <2>8. WrittenInv'
    BY <1>1, <1>5, <1>6, <1>7 DEF WrittenInv, Moves, OthersFiles, Alive
  <2>9. HeldInv'
    BY <1>1, <1>5, <1>6, <1>7, <1>h, HeldFrame
  <2> QED BY <2>1, <2>2, <2>3, <2>4, <2>5, <2>6, <2>7, <2>8, <2>9
<1> QED BY <1>t, <1>s, <1>b

(* What an operation does is done for a file that is not closed. *)
LEMMA WorksOnLiveFile ==
  ASSUME BlockInv, NEW p \in Pokemons, op[p].pc # "idle"
  PROVE  p \notin unfinished /\ p \in Alive
BY DEF BlockInv, RestInv, Alive, Idle

(* Changing two fields of an operation, or one. *)
SetsPcAt(p, pc, at) == op' = [op EXCEPT ![p].pc = pc, ![p].at = at]
SetsPcMem(p, pc, mem) == op' = [op EXCEPT ![p].pc = pc, ![p].mem = mem]
SetsPc(p, pc) == op' = [op EXCEPT ![p].pc = pc]
SetsAt(p, at) == op' = [op EXCEPT ![p].at = at]

LEMMA MovedPcAt ==
  ASSUME TypeOK, NEW p \in Pokemons, NEW pc \in Pcs, NEW at \in 0 .. MaxBit + 1,
         SetsPcAt(p, pc, at)
  PROVE  /\ Moves(p)
         /\ op'[p].pc = pc /\ op'[p].at = at /\ op'[p].mem = op[p].mem /\ Same(p)
<1> DEFINE o == [op[p] EXCEPT !.pc = pc, !.at = at]
<1>1. op[p] \in OpRecords
  BY DEF TypeOK
<1>2. /\ o \in OpRecords /\ o.pc = pc /\ o.at = at /\ o.mem = op[p].mem
      /\ o.list = op[p].list /\ o.size = op[p].size /\ o.left = op[p].left /\ o.k = op[p].k
  BY <1>1 DEF OpRecords, Pcs
<1>3. op' = [op EXCEPT ![p] = o]
  BY DEF TypeOK, SetsPcAt
<1> HIDE DEF o
<1> QED BY <1>2, <1>3, Moved DEF Same

LEMMA MovedPcMem ==
  ASSUME TypeOK, NEW p \in Pokemons, NEW pc \in Pcs, NEW mem \in SUBSET (0 .. MaxBit - 1),
         SetsPcMem(p, pc, mem)
  PROVE  /\ Moves(p)
         /\ op'[p].pc = pc /\ op'[p].mem = mem /\ op'[p].at = op[p].at /\ Same(p)
<1> DEFINE o == [op[p] EXCEPT !.pc = pc, !.mem = mem]
<1>1. op[p] \in OpRecords
  BY DEF TypeOK
<1>2. /\ o \in OpRecords /\ o.pc = pc /\ o.mem = mem /\ o.at = op[p].at
      /\ o.list = op[p].list /\ o.size = op[p].size /\ o.left = op[p].left /\ o.k = op[p].k
  BY <1>1 DEF OpRecords, Pcs
<1>3. op' = [op EXCEPT ![p] = o]
  BY DEF TypeOK, SetsPcMem
<1> HIDE DEF o
<1> QED BY <1>2, <1>3, Moved DEF Same

LEMMA MovedPc ==
  ASSUME TypeOK, NEW p \in Pokemons, NEW pc \in Pcs, SetsPc(p, pc)
  PROVE  /\ Moves(p)
         /\ op'[p].pc = pc /\ op'[p].at = op[p].at /\ op'[p].mem = op[p].mem /\ Same(p)
<1> DEFINE o == [op[p] EXCEPT !.pc = pc]
<1>1. op[p] \in OpRecords
  BY DEF TypeOK
<1>2. /\ o \in OpRecords /\ o.pc = pc /\ o.mem = op[p].mem /\ o.at = op[p].at
      /\ o.list = op[p].list /\ o.size = op[p].size /\ o.left = op[p].left /\ o.k = op[p].k
  BY <1>1 DEF OpRecords, Pcs
<1>3. op' = [op EXCEPT ![p] = o]
  BY DEF TypeOK, SetsPc
<1> HIDE DEF o
<1> QED BY <1>2, <1>3, Moved DEF Same

LEMMA MovedAt ==
  ASSUME TypeOK, NEW p \in Pokemons, NEW at \in 0 .. MaxBit + 1, SetsAt(p, at)
  PROVE  /\ Moves(p)
         /\ op'[p].pc = op[p].pc /\ op'[p].at = at /\ op'[p].mem = op[p].mem /\ Same(p)
<1> DEFINE o == [op[p] EXCEPT !.at = at]
<1>1. op[p] \in OpRecords
  BY DEF TypeOK
<1>2. /\ o \in OpRecords /\ o.pc = op[p].pc /\ o.mem = op[p].mem /\ o.at = at
      /\ o.list = op[p].list /\ o.size = op[p].size /\ o.left = op[p].left /\ o.k = op[p].k
  BY <1>1 DEF OpRecords
<1>3. op' = [op EXCEPT ![p] = o]
  BY DEF TypeOK, SetsAt
<1> HIDE DEF o
<1> QED BY <1>2, <1>3, Moved DEF Same

LEMMA LockKeeps ==
  ASSUME TypeOK, SizeInv, BlockInv, Sound, NEW p \in Pokemons, Lock(p)
  PROVE  TypeOK' /\ SizeInv' /\ (Sound' => BlockInv')
<1>1. /\ op[p].pc = "lock" /\ allocating = {} /\ allocating' = {p}
      /\ op' = [op EXCEPT ![p].pc = "search", ![p].at = 0]
      /\ UNCHANGED <<bits, mapped, content, files, restarts, unfinished, torn, past>>
  BY DEF Lock
<1>2. p \notin unfinished
  BY <1>1, WorksOnLiveFile
<1>5. Moves(p) /\ op'[p].pc = "search" /\ Same(p)
  <2>1. SetsPcAt(p, "search", 0)
    BY <1>1 DEF SetsPcAt
  <2> QED BY <2>1, MaxBitIsNat, MovedPcAt DEF Pcs
<1>6. /\ op'[p].pc = "search" /\ op'[p].list = op[p].list /\ op'[p].size = op[p].size
      /\ op'[p].left = op[p].left
  BY <1>5 DEF Same
<1>7. OthersFiles(p)
  BY <1>1 DEF OthersFiles
<1>h. Held(p)' = Held(p)
  <2>1. /\ HeldOf(op[p], files[p]) = ToSet(op[p].list)
        /\ HeldOf(op'[p], files'[p]) = ToSet(op'[p].list)
    BY <1>1, <1>6, HeldByPc
  <2> QED BY <1>6, <2>1 DEF Held
<1>t. TypeOK'
  BY <1>1, <1>2, <1>5, <1>6, <1>7 DEF TypeOK, Moves
<1>s. SizeInv'
  BY <1>1, <1>2, <1>5, <1>6, <1>7 DEF SizeInv, Moves, OthersFiles, Locked, Asking, Giving
<1>b. ASSUME Sound' PROVE BlockInv'
  <2> USE <1>b DEF BlockInv
  <2>1. LockInv'
    BY <1>1, <1>2, <1>5, <1>6, <1>7 DEF LockInv, Moves, Locked
  <2>2. OneLocks'
    BY <1>1, <1>2, <1>5, <1>6, <1>7 DEF OneLocks, TypeOK
  <2>3. FoundInv'
    BY <1>1, <1>2, <1>5, <1>6, <1>7 DEF FoundInv, Moves, Locked
  <2>4. GiveInv'
    BY <1>1, <1>2, <1>5, <1>6, <1>7 DEF GiveInv, Moves, Giving
  <2>5. ListInv'
    BY <1>1, <1>2, <1>5, <1>6, <1>7 DEF ListInv, Moves, OthersFiles
  <2>6. RestInv'
    BY <1>1, <1>2, <1>5, <1>6, <1>7 DEF RestInv, Moves, OthersFiles
  <2>7. MappedInv'
    BY <1>1, <1>2, <1>5, <1>6, <1>7 DEF MappedInv, Moves, OthersFiles, Alive, Locked, Asking
  <2>8. WrittenInv'
    BY <1>1, <1>2, <1>5, <1>6, <1>7 DEF WrittenInv, Moves, OthersFiles, Alive
  <2>9. HeldInv'
    BY <1>1, <1>2, <1>5, <1>6, <1>7, <1>h, HeldFrame
  <2> QED BY <2>1, <2>2, <2>3, <2>4, <2>5, <2>6, <2>7, <2>8, <2>9
<1> QED BY <1>t, <1>s, <1>b

LEMMA SearchKeeps ==
  ASSUME TypeOK, SizeInv, BlockInv, Sound, NEW p \in Pokemons, Search(p)
  PROVE  TypeOK' /\ SizeInv' /\ (Sound' => BlockInv')
<1>1. /\ op[p].pc = "search"
      /\ UNCHANGED <<bits, mapped, allocating, content, files, restarts, unfinished, torn>>
  BY DEF Search
<1>2. /\ bits \subseteq 0 .. MaxBit - 1
      /\ op[p].at \in 0 .. MaxBit + 1
      /\ op \in [Pokemons -> OpRecords]
  BY DEF TypeOK, OpRecords
<1>4. p \notin unfinished
  BY <1>1, WorksOnLiveFile
<1>5. /\ Moves(p) /\ Same(p)
      /\ op'[p].pc \in {"search", "loadOn"} /\ past' \in BOOLEAN
      /\ ~past' /\ op'[p].pc = "loadOn" => op'[p].at \in Bits \ bits
  <2>1. CASE op[p].at \in bits /\ op' = [op EXCEPT ![p].at = @ + 1] /\ UNCHANGED past
    <3>1. SetsAt(p, op[p].at + 1)
      BY <2>1 DEF SetsAt, TypeOK
    <3>2. op[p].at + 1 \in 0 .. MaxBit + 1
      BY <1>2, <2>1, MaxBitIsNat
    <3> QED BY <1>1, <2>1, <3>1, <3>2, MovedAt DEF TypeOK
  <2>2. CASE op[p].at < MaxBit /\ op[p].at \notin bits /\ op' = [op EXCEPT ![p].pc = "loadOn"] /\ UNCHANGED past
    <3>1. SetsPc(p, "loadOn")
      BY <2>2 DEF SetsPc
    <3>2. Moves(p) /\ Same(p) /\ op'[p].pc = "loadOn" /\ op'[p].at = op[p].at
      BY <3>1, MovedPc DEF Pcs
    <3> QED BY <1>1, <1>2, <2>2, <3>2, MaxBitIsNat DEF TypeOK, Bits
  <2>3. CASE past' = TRUE /\ \E block \in {MaxBit, MaxBit + 1} : op' = [op EXCEPT ![p].pc = "loadOn", ![p].at = block]
    <3>1. PICK block \in {MaxBit, MaxBit + 1} : SetsPcAt(p, "loadOn", block)
      BY <2>3 DEF SetsPcAt
    <3>2. block \in 0 .. MaxBit + 1
      BY <3>1, MaxBitIsNat
    <3> QED BY <2>3, <3>1, <3>2, MovedPcAt DEF Pcs
  <2> QED BY <2>1, <2>2, <2>3 DEF Search
<1>6. /\ op'[p].pc \in {"search", "loadOn"} /\ op'[p].list = op[p].list
      /\ op'[p].size = op[p].size /\ op'[p].left = op[p].left
  BY <1>5 DEF Same
<1>7. OthersFiles(p)
  BY <1>1 DEF OthersFiles
<1>h. Held(p)' = Held(p)
  <2>1. /\ HeldOf(op[p], files[p]) = ToSet(op[p].list)
        /\ HeldOf(op'[p], files'[p]) = ToSet(op'[p].list)
    BY <1>1, <1>6, HeldByPc
  <2> QED BY <1>6, <2>1 DEF Held
<1>t. TypeOK'
  BY <1>1, <1>4, <1>5, <1>6, <1>7 DEF TypeOK, Moves
<1>s. SizeInv'
  BY <1>1, <1>4, <1>5, <1>6, <1>7 DEF SizeInv, Moves, OthersFiles, Locked, Asking, Giving
<1>b. ASSUME Sound' PROVE BlockInv'
  <2> USE <1>b DEF BlockInv
  <2>1. LockInv'
    BY <1>1, <1>4, <1>5, <1>6, <1>7 DEF LockInv, Moves, Locked
  <2>2. OneLocks'
    BY <1>1, <1>4, <1>5, <1>6, <1>7 DEF OneLocks, TypeOK
  <2>3. FoundInv'
    BY <1>1, <1>4, <1>5, <1>6, <1>7 DEF FoundInv, Moves, Locked, Sound
  <2>4. GiveInv'
    BY <1>1, <1>4, <1>5, <1>6, <1>7 DEF GiveInv, Moves, Giving
  <2>5. ListInv'
    BY <1>1, <1>4, <1>5, <1>6, <1>7 DEF ListInv, Moves, OthersFiles
  <2>6. RestInv'
    BY <1>1, <1>4, <1>5, <1>6, <1>7 DEF RestInv, Moves, OthersFiles
  <2>7. MappedInv'
    BY <1>1, <1>4, <1>5, <1>6, <1>7 DEF MappedInv, Moves, OthersFiles, Alive, Locked, Asking
  <2>8. WrittenInv'
    BY <1>1, <1>4, <1>5, <1>6, <1>7 DEF WrittenInv, Moves, OthersFiles, Alive
  <2>9. HeldInv'
    BY <1>1, <1>4, <1>5, <1>6, <1>7, <1>h, HeldFrame
  <2> QED BY <2>1, <2>2, <2>3, <2>4, <2>5, <2>6, <2>7, <2>8, <2>9
<1> QED BY <1>t, <1>s, <1>b

LEMMA LoadOnKeeps ==
  ASSUME TypeOK, SizeInv, BlockInv, Sound, NEW p \in Pokemons, Load(p, "loadOn", "storeOn")
  PROVE  TypeOK' /\ SizeInv' /\ (Sound' => BlockInv')
<1>1. /\ op[p].pc = "loadOn"
      /\ op' = [op EXCEPT ![p].pc = "storeOn", ![p].mem = bits \cap ByteOf(op[p].at)]
      /\ UNCHANGED <<bits, mapped, allocating, content, files, restarts, unfinished, torn, past>>
  BY DEF Load
<1>2. p \notin unfinished
  BY <1>1, WorksOnLiveFile
<1>5. Moves(p) /\ op'[p].pc = "storeOn" /\ Same(p) /\ op'[p].at = op[p].at
  <2>1. SetsPcMem(p, "storeOn", bits \cap ByteOf(op[p].at))
    BY <1>1 DEF SetsPcMem
  <2>2. bits \cap ByteOf(op[p].at) \in SUBSET (0 .. MaxBit - 1)
    BY DEF TypeOK
  <2> QED BY <2>1, <2>2, MovedPcMem DEF Pcs
<1>6. /\ op'[p].pc = "storeOn"
      /\ op'[p].list = op[p].list /\ op'[p].size = op[p].size
      /\ op'[p].left = op[p].left /\ op'[p].k = op[p].k /\ op'[p].at = op[p].at
  BY <1>5 DEF Same
<1>7. OthersFiles(p)
  BY <1>1 DEF OthersFiles
<1>h. Held(p)' = Held(p)
  <2>1. /\ HeldOf(op[p], files[p]) = ToSet(op[p].list)
        /\ HeldOf(op'[p], files'[p]) = ToSet(op'[p].list)
    BY <1>1, <1>6, HeldByPc DEF GivesBack, GaveBack
  <2> QED BY <1>6, <2>1 DEF Held
<1>t. TypeOK'
  BY <1>1, <1>2, <1>5, <1>6, <1>7 DEF TypeOK, Moves
<1>s. SizeInv'
  BY <1>1, <1>2, <1>5, <1>6, <1>7 DEF SizeInv, Moves, OthersFiles, Locked, Asking, Giving
<1>b. ASSUME Sound' PROVE BlockInv'
  <2> USE <1>b DEF BlockInv
  <2>1. LockInv'
    BY <1>1, <1>2, <1>5, <1>6, <1>7 DEF LockInv, Moves, Locked
  <2>2. OneLocks'
    BY <1>1, <1>2, <1>5, <1>6, <1>7 DEF OneLocks, TypeOK
  <2>3. FoundInv'
    BY <1>1, <1>2, <1>5, <1>6, <1>7 DEF FoundInv, Moves, Locked
  <2>4. GiveInv'
    BY <1>1, <1>2, <1>5, <1>6, <1>7 DEF GiveInv, Moves, Giving
  <2>5. ListInv'
    BY <1>1, <1>2, <1>5, <1>6, <1>7 DEF ListInv, Moves, OthersFiles
  <2>6. RestInv'
    BY <1>1, <1>2, <1>5, <1>6, <1>7 DEF RestInv, Moves, OthersFiles
  <2>7. MappedInv'
    BY <1>1, <1>2, <1>5, <1>6, <1>7 DEF MappedInv, Moves, OthersFiles, Alive, Locked, Asking
  <2>8. WrittenInv'
    BY <1>1, <1>2, <1>5, <1>6, <1>7 DEF WrittenInv, Moves, OthersFiles, Alive
  <2>9. HeldInv'
    BY <1>1, <1>2, <1>5, <1>6, <1>7, <1>h, HeldFrame
  <2> QED BY <2>1, <2>2, <2>3, <2>4, <2>5, <2>6, <2>7, <2>8, <2>9
<1> QED BY <1>t, <1>s, <1>b

LEMMA LoadOffKeeps ==
  ASSUME TypeOK, SizeInv, BlockInv, Sound, NEW p \in Pokemons, Load(p, "loadOff", "storeOff")
  PROVE  TypeOK' /\ SizeInv' /\ (Sound' => BlockInv')
<1>1. /\ op[p].pc = "loadOff"
      /\ op' = [op EXCEPT ![p].pc = "storeOff", ![p].mem = bits \cap ByteOf(op[p].at)]
      /\ UNCHANGED <<bits, mapped, allocating, content, files, restarts, unfinished, torn, past>>
  BY DEF Load
<1>2. p \notin unfinished
  BY <1>1, WorksOnLiveFile
<1>5. Moves(p) /\ op'[p].pc = "storeOff" /\ Same(p) /\ op'[p].at = op[p].at
  <2>1. SetsPcMem(p, "storeOff", bits \cap ByteOf(op[p].at))
    BY <1>1 DEF SetsPcMem
  <2>2. bits \cap ByteOf(op[p].at) \in SUBSET (0 .. MaxBit - 1)
    BY DEF TypeOK
  <2> QED BY <2>1, <2>2, MovedPcMem DEF Pcs
<1>6. /\ op'[p].pc = "storeOff"
      /\ op'[p].list = op[p].list /\ op'[p].size = op[p].size
      /\ op'[p].left = op[p].left /\ op'[p].k = op[p].k /\ op'[p].at = op[p].at
  BY <1>5 DEF Same
<1>7. OthersFiles(p)
  BY <1>1 DEF OthersFiles
<1>h. Held(p)' = Held(p)
  <2>1. /\ HeldOf(op[p], files[p]) = From(op[p].list, op[p].k)
        /\ HeldOf(op'[p], files'[p]) = From(op'[p].list, op'[p].k)
    BY <1>1, <1>6, HeldByPc DEF GivesBack, GaveBack
  <2> QED BY <1>6, <2>1 DEF Held
<1>t. TypeOK'
  BY <1>1, <1>2, <1>5, <1>6, <1>7 DEF TypeOK, Moves
<1>s. SizeInv'
  BY <1>1, <1>2, <1>5, <1>6, <1>7 DEF SizeInv, Moves, OthersFiles, Locked, Asking, Giving
<1>b. ASSUME Sound' PROVE BlockInv'
  <2> USE <1>b DEF BlockInv
  <2>1. LockInv'
    BY <1>1, <1>2, <1>5, <1>6, <1>7 DEF LockInv, Moves, Locked
  <2>2. OneLocks'
    BY <1>1, <1>2, <1>5, <1>6, <1>7 DEF OneLocks, TypeOK
  <2>3. FoundInv'
    BY <1>1, <1>2, <1>5, <1>6, <1>7 DEF FoundInv, Moves, Locked
  <2>4. GiveInv'
    BY <1>1, <1>2, <1>5, <1>6, <1>7 DEF GiveInv, Moves, Giving
  <2>5. ListInv'
    BY <1>1, <1>2, <1>5, <1>6, <1>7 DEF ListInv, Moves, OthersFiles
  <2>6. RestInv'
    BY <1>1, <1>2, <1>5, <1>6, <1>7 DEF RestInv, Moves, OthersFiles
  <2>7. MappedInv'
    BY <1>1, <1>2, <1>5, <1>6, <1>7 DEF MappedInv, Moves, OthersFiles, Alive, Locked, Asking
  <2>8. WrittenInv'
    BY <1>1, <1>2, <1>5, <1>6, <1>7 DEF WrittenInv, Moves, OthersFiles, Alive
  <2>9. HeldInv'
    BY <1>1, <1>2, <1>5, <1>6, <1>7, <1>h, HeldFrame
  <2> QED BY <2>1, <2>2, <2>3, <2>4, <2>5, <2>6, <2>7, <2>8, <2>9
<1> QED BY <1>t, <1>s, <1>b

LEMMA HeldInBits ==
  ASSUME BlockInv, NEW q \in Alive
  PROVE  /\ op[q].pc = "idle" => ToSet(files[q].list) \subseteq bits
         /\ op[q].pc \in Asking => ToSet(op[q].list) \subseteq bits
         /\ op[q].pc \in {"copyOn", "unlock"} => op[q].at \in bits
<1>1. HeldOf(op[q], files[q]) \subseteq bits
  BY DEF BlockInv, HeldInv, Held
<1>2. CASE op[q].pc = "idle"
  BY <1>1, <1>2, HeldByPc DEF Asking, Locked
<1>3. CASE op[q].pc \in Asking \ {"copyOn", "unlock"}
  <2>1. HeldOf(op[q], files[q]) = ToSet(op[q].list)
    BY <1>3, HeldByPc DEF Asking, Locked
  <2> QED BY <1>1, <1>3, <2>1 DEF Asking, Locked
<1>4. CASE op[q].pc \in {"copyOn", "unlock"}
  <2>1. HeldOf(op[q], files[q]) = ToSet(op[q].list) \cup {op[q].at}
    BY <1>4, HeldByPc
  <2> QED BY <1>1, <1>4, <2>1
<1> QED BY <1>2, <1>3, <1>4

LEMMA CopyOnKeeps ==
  ASSUME TypeOK, SizeInv, BlockInv, Sound, NEW p \in Pokemons, Copy(p, "copyOn", "unlock")
  PROVE  TypeOK' /\ SizeInv' /\ (Sound' => BlockInv')
<1>1. /\ op[p].pc = "copyOn" /\ op' = [op EXCEPT ![p].pc = "unlock"] /\ mapped' = bits
      /\ UNCHANGED <<bits, allocating, content, files, restarts, unfinished, torn, past>>
  BY DEF Copy, Step
<1>2. p \notin unfinished
  BY <1>1, WorksOnLiveFile
<1>5. Moves(p) /\ op'[p].pc = "unlock" /\ Same(p) /\ op'[p].at = op[p].at
  <2>1. SetsPc(p, "unlock")
    BY <1>1 DEF SetsPc
  <2> QED BY <2>1, MovedPc DEF Pcs
<1>6. /\ op'[p].pc = "unlock"
      /\ op'[p].list = op[p].list /\ op'[p].size = op[p].size
      /\ op'[p].left = op[p].left /\ op'[p].k = op[p].k /\ op'[p].at = op[p].at
  BY <1>5 DEF Same
<1>7. OthersFiles(p)
  BY <1>1 DEF OthersFiles
<1>h. Held(p)' = Held(p)
  <2>1. /\ HeldOf(op[p], files[p]) = ToSet(op[p].list) \cup {op[p].at}
        /\ HeldOf(op'[p], files'[p]) = ToSet(op'[p].list) \cup {op'[p].at}
    BY <1>1, <1>6, HeldByPc DEF GivesBack, GaveBack
  <2> QED BY <1>6, <2>1 DEF Held
<1>t. TypeOK'
  BY <1>1, <1>2, <1>5, <1>6, <1>7 DEF TypeOK, Moves
<1>s. SizeInv'
  BY <1>1, <1>2, <1>5, <1>6, <1>7 DEF SizeInv, Moves, OthersFiles, Locked, Asking, Giving
<1>b. ASSUME Sound' PROVE BlockInv'
  <2> USE <1>b DEF BlockInv
  <2>1. LockInv'
    BY <1>1, <1>2, <1>5, <1>6, <1>7 DEF LockInv, Moves, Locked
  <2>2. OneLocks'
    BY <1>1, <1>2, <1>5, <1>6, <1>7 DEF OneLocks, TypeOK
  <2>3. FoundInv'
    BY <1>1, <1>2, <1>5, <1>6, <1>7 DEF FoundInv, Moves, Locked
  <2>4. GiveInv'
    BY <1>1, <1>2, <1>5, <1>6, <1>7 DEF GiveInv, Moves, Giving
  <2>5. ListInv'
    BY <1>1, <1>2, <1>5, <1>6, <1>7 DEF ListInv, Moves, OthersFiles
  <2>6. RestInv'
    BY <1>1, <1>2, <1>5, <1>6, <1>7 DEF RestInv, Moves, OthersFiles
  <2>7. MappedInv'
    <3>1. Alive \subseteq Pokemons /\ Alive' = Alive
      BY <1>1 DEF Alive
    <3>2. SUFFICES ASSUME NEW q \in Alive
                   PROVE  /\ op'[q].pc = "idle" => ToSet(files'[q].list) \subseteq bits
                          /\ op'[q].pc \in Asking => ToSet(op'[q].list) \subseteq bits
                          /\ op'[q].pc = "unlock" => op'[q].at \in bits
      BY <1>1, <3>1 DEF MappedInv
    <3>3. /\ op[q].pc = "idle" => ToSet(files[q].list) \subseteq bits
          /\ op[q].pc \in Asking => ToSet(op[q].list) \subseteq bits
          /\ op[q].pc \in {"copyOn", "unlock"} => op[q].at \in bits
      BY HeldInBits
    <3>4. CASE q = p
      BY <1>1, <1>6, <3>3, <3>4 DEF Asking, Locked
    <3>5. CASE q # p
      <4>1. op'[q] = op[q] /\ files'[q] = files[q]
        BY <1>5, <1>7, <3>1, <3>5 DEF Moves, OthersFiles
      <4> QED BY <3>3, <4>1
    <3> QED BY <3>4, <3>5
  <2>8. WrittenInv'
    BY <1>1, <1>2, <1>5, <1>6, <1>7 DEF WrittenInv, Moves, OthersFiles, Alive
  <2>9. HeldInv'
    BY <1>1, <1>2, <1>5, <1>6, <1>7, <1>h, HeldFrame
  <2> QED BY <2>1, <2>2, <2>3, <2>4, <2>5, <2>6, <2>7, <2>8, <2>9
<1> QED BY <1>t, <1>s, <1>b

LEMMA CopyOffKeeps ==
  ASSUME TypeOK, SizeInv, BlockInv, Sound, NEW p \in Pokemons, Copy(p, "copyOff", "next")
  PROVE  TypeOK' /\ SizeInv' /\ (Sound' => BlockInv')
<1>1. /\ op[p].pc = "copyOff" /\ op' = [op EXCEPT ![p].pc = "next"] /\ mapped' = bits
      /\ UNCHANGED <<bits, allocating, content, files, restarts, unfinished, torn, past>>
  BY DEF Copy, Step
<1>2. p \notin unfinished
  BY <1>1, WorksOnLiveFile
<1>5. Moves(p) /\ op'[p].pc = "next" /\ Same(p) /\ op'[p].at = op[p].at
  <2>1. SetsPc(p, "next")
    BY <1>1 DEF SetsPc
  <2> QED BY <2>1, MovedPc DEF Pcs
<1>6. /\ op'[p].pc = "next"
      /\ op'[p].list = op[p].list /\ op'[p].size = op[p].size
      /\ op'[p].left = op[p].left /\ op'[p].k = op[p].k /\ op'[p].at = op[p].at
  BY <1>5 DEF Same
<1>7. OthersFiles(p)
  BY <1>1 DEF OthersFiles
<1>h. Held(p)' = Held(p)
  <2>1. /\ HeldOf(op[p], files[p]) = From(op[p].list, op[p].k + 1)
        /\ HeldOf(op'[p], files'[p]) = From(op'[p].list, op'[p].k + 1)
    BY <1>1, <1>6, HeldByPc DEF GivesBack, GaveBack
  <2> QED BY <1>6, <2>1 DEF Held
<1>t. TypeOK'
  BY <1>1, <1>2, <1>5, <1>6, <1>7 DEF TypeOK, Moves
<1>s. SizeInv'
  BY <1>1, <1>2, <1>5, <1>6, <1>7 DEF SizeInv, Moves, OthersFiles, Locked, Asking, Giving
<1>b. ASSUME Sound' PROVE BlockInv'
  <2> USE <1>b DEF BlockInv
  <2>1. LockInv'
    BY <1>1, <1>2, <1>5, <1>6, <1>7 DEF LockInv, Moves, Locked
  <2>2. OneLocks'
    BY <1>1, <1>2, <1>5, <1>6, <1>7 DEF OneLocks, TypeOK
  <2>3. FoundInv'
    BY <1>1, <1>2, <1>5, <1>6, <1>7 DEF FoundInv, Moves, Locked
  <2>4. GiveInv'
    BY <1>1, <1>2, <1>5, <1>6, <1>7 DEF GiveInv, Moves, Giving
  <2>5. ListInv'
    BY <1>1, <1>2, <1>5, <1>6, <1>7 DEF ListInv, Moves, OthersFiles
  <2>6. RestInv'
    BY <1>1, <1>2, <1>5, <1>6, <1>7 DEF RestInv, Moves, OthersFiles
  <2>7. MappedInv'
    <3>1. Alive \subseteq Pokemons /\ Alive' = Alive
      BY <1>1 DEF Alive
    <3>2. SUFFICES ASSUME NEW q \in Alive
                   PROVE  /\ op'[q].pc = "idle" => ToSet(files'[q].list) \subseteq bits
                          /\ op'[q].pc \in Asking => ToSet(op'[q].list) \subseteq bits
                          /\ op'[q].pc = "unlock" => op'[q].at \in bits
      BY <1>1, <3>1 DEF MappedInv
    <3>3. /\ op[q].pc = "idle" => ToSet(files[q].list) \subseteq bits
          /\ op[q].pc \in Asking => ToSet(op[q].list) \subseteq bits
          /\ op[q].pc \in {"copyOn", "unlock"} => op[q].at \in bits
      BY HeldInBits
    <3>4. CASE q = p
      BY <1>1, <1>6, <3>3, <3>4 DEF Asking, Locked
    <3>5. CASE q # p
      <4>1. op'[q] = op[q] /\ files'[q] = files[q]
        BY <1>5, <1>7, <3>1, <3>5 DEF Moves, OthersFiles
      <4> QED BY <3>3, <4>1
    <3> QED BY <3>4, <3>5
  <2>8. WrittenInv'
    BY <1>1, <1>2, <1>5, <1>6, <1>7 DEF WrittenInv, Moves, OthersFiles, Alive
  <2>9. HeldInv'
    BY <1>1, <1>2, <1>5, <1>6, <1>7, <1>h, HeldFrame
  <2> QED BY <2>1, <2>2, <2>3, <2>4, <2>5, <2>6, <2>7, <2>8, <2>9
<1> QED BY <1>t, <1>s, <1>b

LEMMA StoreOnKeeps ==
  ASSUME TypeOK, SizeInv, BlockInv, Sound, NEW p \in Pokemons,
         Store(p, "storeOn", "copyOn", op[p].mem \cup {op[p].at})
  PROVE  TypeOK' /\ SizeInv' /\ (Sound' => BlockInv')
<1> DEFINE at == op[p].at
           own == ByteOf(at)
<1>1. /\ op[p].pc = "storeOn"
      /\ op' = [op EXCEPT ![p].pc = "copyOn", ![p].mem = {}]
      /\ UNCHANGED <<mapped, allocating, content, files, restarts, unfinished, past>>
      /\ bits' = (bits \ own) \cup ((op[p].mem \cup {at}) \cap own)
      /\ torn' = (torn \/ bits \cap own # op[p].mem)
  BY DEF Store
<1>2. p \notin unfinished /\ p \in Alive
  BY <1>1, WorksOnLiveFile
<1>3. /\ at \in own /\ at \notin bits /\ own \subseteq 0 .. MaxBit - 1
      /\ bits \subseteq 0 .. MaxBit - 1
  <2>1. at \in Bits \ bits
    <3>1. FoundInv /\ op[p].pc = "storeOn"
      BY <1>1 DEF BlockInv
    <3> QED BY <3>1 DEF FoundInv
  <2> QED BY <2>1 DEF ByteOf, TypeOK, Bits
<1>4. ASSUME Sound' PROVE bits' = bits \cup {at}
  BY <1>1, <1>3, <1>4 DEF Sound
<1>9. bits' \subseteq 0 .. MaxBit - 1 /\ torn' \in BOOLEAN
  BY <1>1, <1>3 DEF TypeOK
<1> HIDE DEF own
<1>5. Moves(p) /\ op'[p].pc = "copyOn" /\ Same(p) /\ op'[p].at = at
  <2>1. SetsPcMem(p, "copyOn", {})
    BY <1>1 DEF SetsPcMem
  <2> QED BY <2>1, MovedPcMem DEF Pcs
<1>6. /\ op'[p].pc = "copyOn"
      /\ op'[p].list = op[p].list /\ op'[p].size = op[p].size
      /\ op'[p].left = op[p].left /\ op'[p].k = op[p].k /\ op'[p].at = at
  BY <1>5 DEF Same
<1>7. OthersFiles(p)
  BY <1>1 DEF OthersFiles
<1>h. Held(p) = ToSet(op[p].list) /\ HeldOf(op'[p], files'[p]) = Held(p) \cup {at}
  <2>1. /\ HeldOf(op[p], files[p]) = ToSet(op[p].list)
        /\ HeldOf(op'[p], files'[p]) = ToSet(op'[p].list) \cup {op'[p].at}
    BY <1>1, <1>6, HeldByPc
  <2> QED BY <1>6, <2>1 DEF Held
<1>t. TypeOK'
  BY <1>1, <1>2, <1>5, <1>6, <1>7, <1>9 DEF TypeOK, Moves
<1>s. SizeInv'
  BY <1>1, <1>2, <1>5, <1>6, <1>7 DEF SizeInv, Moves, OthersFiles, Locked, Asking, Giving
<1>b. ASSUME Sound' PROVE BlockInv'
  <2> USE <1>b DEF BlockInv
  <2>1. LockInv'
    BY <1>1, <1>2, <1>5, <1>6, <1>7 DEF LockInv, Moves, Locked
  <2>2. OneLocks'
    BY <1>1, <1>2, <1>5, <1>6, <1>7 DEF OneLocks, TypeOK
  <2>3. FoundInv'
    <3>1. Held(p) \subseteq bits
      BY <1>2 DEF HeldInv
    <3>2. at \notin ToSet(op[p].list) /\ at \in bits'
      BY <1>3, <1>4, <1>h, <3>1
    <3>3. \A q \in Pokemons \ {p} : op[q].pc \notin Locked
      BY <1>1 DEF LockInv, OneLocks, Locked
    <3> QED BY <1>5, <1>6, <3>2, <3>3 DEF FoundInv, Moves, Locked
  <2>4. GiveInv'
    BY <1>1, <1>2, <1>5, <1>6, <1>7 DEF GiveInv, Moves, Giving
  <2>5. ListInv'
    BY <1>1, <1>2, <1>5, <1>6, <1>7 DEF ListInv, Moves, OthersFiles
  <2>6. RestInv'
    BY <1>1, <1>2, <1>5, <1>6, <1>7 DEF RestInv, Moves, OthersFiles
  <2>7. MappedInv'
    BY <1>1, <1>2, <1>5, <1>6, <1>7 DEF MappedInv, Moves, OthersFiles, Alive, Locked, Asking
  <2>8. WrittenInv'
    BY <1>1, <1>2, <1>5, <1>6, <1>7 DEF WrittenInv, Moves, OthersFiles, Alive
  <2>9. HeldInv'
    <3>1. /\ Alive \subseteq Pokemons /\ Alive' = Alive
      BY <1>1 DEF Alive
    <3>2. \A q \in Pokemons \ {p} : HeldOf(op'[q], files'[q]) = Held(q)
      BY <1>5, <1>7 DEF Held, Moves, OthersFiles
    <3>3. \A q \in Alive : at \notin Held(q)
      BY <1>3 DEF HeldInv
    <3>4. \A q, r \in Alive : q # r => \A b \in HeldOf(op'[q], files'[q]) : b \notin HeldOf(op'[r], files'[r])
      BY <1>2, <1>h, <3>1, <3>2, <3>3 DEF HeldInv
    <3>5. \A q \in Alive : HeldOf(op'[q], files'[q]) \subseteq bits'
      BY <1>2, <1>4, <1>h, <3>1, <3>2 DEF HeldInv
    <3>6. restarts' = 0 => /\ unfinished' = {}
                          /\ bits' \subseteq UNION {HeldOf(op'[q], files'[q]) : q \in Pokemons}
      <4>1. SUFFICES ASSUME restarts = 0, NEW b \in bits'
                     PROVE  \E q \in Pokemons : b \in HeldOf(op'[q], files'[q])
        BY <1>1 DEF HeldInv
      <4>2. CASE b = at
        BY <1>h, <4>2
      <4>3. CASE b \in bits
        <5>1. PICK q \in Pokemons : b \in Held(q)
          BY <4>1, <4>3 DEF HeldInv
        <5> QED BY <1>h, <3>2, <5>1
      <4> QED BY <1>4, <4>1, <4>2, <4>3
    <3> QED BY <3>1, <3>4, <3>5, <3>6 DEF HeldInv, Held
  <2> QED BY <2>1, <2>2, <2>3, <2>4, <2>5, <2>6, <2>7, <2>8, <2>9
<1> QED BY <1>t, <1>s, <1>b

LEMMA StoreOffKeeps ==
  ASSUME TypeOK, SizeInv, BlockInv, Sound, NEW p \in Pokemons,
         Store(p, "storeOff", "copyOff", op[p].mem \ {op[p].at})
  PROVE  TypeOK' /\ SizeInv' /\ (Sound' => BlockInv')
<1> DEFINE at == op[p].at
           own == ByteOf(at)
<1>1. /\ op[p].pc = "storeOff"
      /\ op' = [op EXCEPT ![p].pc = "copyOff", ![p].mem = {}]
      /\ UNCHANGED <<mapped, allocating, content, files, restarts, unfinished, past>>
      /\ bits' = (bits \ own) \cup ((op[p].mem \ {at}) \cap own)
      /\ torn' = (torn \/ bits \cap own # op[p].mem)
  BY DEF Store
<1>2. p \notin unfinished /\ p \in Alive
  BY <1>1, WorksOnLiveFile
<1>3. /\ op[p].list \in Seq(0 .. MaxBit + 1) /\ op[p].k \in DOMAIN op[p].list
      /\ Distinct(op[p].list) /\ at = op[p].list[op[p].k]
  BY <1>1 DEF BlockInv, GiveInv, ListInv, TypeOK, OpRecords, Giving
<1>h. Held(p) = From(op[p].list, op[p].k)
  BY <1>1, HeldByPc DEF Held, GivesBack
<1>8. at \in Held(p) /\ From(op[p].list, op[p].k + 1) = Held(p) \ {at}
  BY <1>3, <1>h, FromStep
<1>4. at \in own /\ own \subseteq 0 .. MaxBit - 1 /\ bits \subseteq 0 .. MaxBit - 1
  <2>1. at \in bits
    BY <1>2, <1>8 DEF BlockInv, HeldInv
  <2> QED BY <2>1 DEF ByteOf, TypeOK
<1>9. bits' \subseteq 0 .. MaxBit - 1 /\ torn' \in BOOLEAN
  BY <1>1, <1>4 DEF TypeOK
<1> HIDE DEF own
<1>5. Moves(p) /\ op'[p].pc = "copyOff" /\ Same(p) /\ op'[p].at = at
  <2>1. SetsPcMem(p, "copyOff", {})
    BY <1>1 DEF SetsPcMem
  <2> QED BY <2>1, MovedPcMem DEF Pcs
<1>6. /\ op'[p].pc = "copyOff"
      /\ op'[p].list = op[p].list /\ op'[p].size = op[p].size
      /\ op'[p].left = op[p].left /\ op'[p].k = op[p].k /\ op'[p].at = at
  BY <1>5 DEF Same
<1>7. OthersFiles(p)
  BY <1>1 DEF OthersFiles
<1>g. HeldOf(op'[p], files'[p]) = Held(p) \ {at}
  <2>1. HeldOf(op'[p], files'[p]) = From(op'[p].list, op'[p].k + 1)
    BY <1>6, HeldByPc DEF GaveBack
  <2> QED BY <1>6, <1>8, <2>1
<1>c. ASSUME Sound' PROVE bits' = bits \ {at}
  BY <1>1, <1>4, <1>c DEF Sound
<1>t. TypeOK'
  BY <1>1, <1>2, <1>5, <1>6, <1>7, <1>9 DEF TypeOK, Moves
<1>s. SizeInv'
  BY <1>1, <1>2, <1>5, <1>6, <1>7 DEF SizeInv, Moves, OthersFiles, Locked, Asking, Giving
<1>b. ASSUME Sound' PROVE BlockInv'
  <2> USE <1>b DEF BlockInv
  <2>1. LockInv'
    BY <1>1, <1>2, <1>5, <1>6, <1>7 DEF LockInv, Moves, Locked
  <2>2. OneLocks'
    BY <1>1, <1>2, <1>5, <1>6, <1>7 DEF OneLocks, TypeOK
  <2>3. FoundInv'
    <3>1. bits' = bits \ {at}
      BY <1>c
    <3>2. SUFFICES ASSUME NEW q \in Pokemons, q # p
                   PROVE  /\ op[q].pc \in {"loadOn", "storeOn"} => op[q].at \in Bits \ bits'
                          /\ op[q].pc \in {"copyOn", "unlock"} => op[q].at \in bits' /\ op[q].at \notin ToSet(op[q].list)
      BY <1>5, <1>6 DEF FoundInv, Moves
    <3>3. CASE op[q].pc \in {"copyOn", "unlock"}
      <4>1. q \in Alive
        BY <3>3, WorksOnLiveFile
      <4>2. op[q].at \in Held(q)
        BY <3>3, HeldByPc DEF Held
      <4>3. op[q].at # at
        BY <1>2, <1>8, <3>2, <4>1, <4>2 DEF HeldInv
      <4> QED BY <3>1, <3>3, <4>3 DEF FoundInv
    <3>4. CASE op[q].pc \notin {"copyOn", "unlock"}
      <4>1. op[q].pc \in {"loadOn", "storeOn"} => op[q].at \in Bits \ bits
        BY DEF FoundInv
      <4> QED BY <3>1, <3>4, <4>1
    <3> QED BY <3>3, <3>4
  <2>4. GiveInv'
    BY <1>1, <1>2, <1>5, <1>6, <1>7 DEF GiveInv, Moves, Giving
  <2>5. ListInv'
    BY <1>1, <1>2, <1>5, <1>6, <1>7 DEF ListInv, Moves, OthersFiles
  <2>6. RestInv'
    BY <1>1, <1>2, <1>5, <1>6, <1>7 DEF RestInv, Moves, OthersFiles
  <2>7. MappedInv'
    BY <1>1, <1>2, <1>5, <1>6, <1>7 DEF MappedInv, Moves, OthersFiles, Alive, Locked, Asking
  <2>8. WrittenInv'
    BY <1>1, <1>2, <1>5, <1>6, <1>7 DEF WrittenInv, Moves, OthersFiles, Alive
  <2>9. HeldInv'
    <3>1. /\ Alive \subseteq Pokemons /\ Alive' = Alive
      BY <1>1 DEF Alive
    <3>2. \A q \in Pokemons \ {p} : HeldOf(op'[q], files'[q]) = Held(q)
      BY <1>5, <1>7 DEF Held, Moves, OthersFiles
    <3>3. \A q \in Alive \ {p} : at \notin Held(q)
      BY <1>2, <1>8 DEF HeldInv
    <3>4. \A q, r \in Alive : q # r => \A b \in HeldOf(op'[q], files'[q]) : b \notin HeldOf(op'[r], files'[r])
      BY <1>2, <1>g, <3>1, <3>2, <3>3 DEF HeldInv
    <3>5. \A q \in Alive : HeldOf(op'[q], files'[q]) \subseteq bits'
      BY <1>2, <1>c, <1>g, <3>1, <3>2, <3>3 DEF HeldInv
    <3>6. restarts' = 0 => /\ unfinished' = {}
                          /\ bits' \subseteq UNION {HeldOf(op'[q], files'[q]) : q \in Pokemons}
      <4>1. SUFFICES ASSUME restarts = 0, NEW b \in bits \ {at}
                     PROVE  \E q \in Pokemons : b \in HeldOf(op'[q], files'[q])
        BY <1>1, <1>c DEF HeldInv
      <4>2. PICK q \in Pokemons : b \in Held(q)
        BY <4>1 DEF HeldInv
      <4> QED BY <1>g, <3>2, <4>1, <4>2
    <3> QED BY <3>1, <3>4, <3>5, <3>6 DEF HeldInv, Held
  <2> QED BY <2>1, <2>2, <2>3, <2>4, <2>5, <2>6, <2>7, <2>8, <2>9
<1> QED BY <1>t, <1>s, <1>b

LEMMA UnlockKeeps ==
  ASSUME TypeOK, SizeInv, BlockInv, Sound, NEW p \in Pokemons, Unlock(p)
  PROVE  TypeOK' /\ SizeInv' /\ (Sound' => BlockInv')
<1> DEFINE at == op[p].at
           left == op[p].left - 1
           pc == AsksOrWrites(left)
           list == Append(op[p].list, at)
<1>1. /\ op[p].pc = "unlock" /\ allocating' = allocating \ {p}
      /\ op' = [op EXCEPT ![p].pc = pc, ![p].left = left, ![p].list = list]
      /\ UNCHANGED <<bits, mapped, content, files, restarts, unfinished, torn, past>>
  BY DEF Unlock, TypeOK
<1>2. p \notin unfinished /\ p \in Alive
  BY <1>1, WorksOnLiveFile
<1>3. /\ op[p].list \in Seq(0 .. MaxBit + 1) /\ at \in 0 .. MaxBit + 1
      /\ op[p].left \in Nat /\ op[p].left > 0
      /\ op[p].size \in Nat /\ Lines(op[p].size) /\ Fits(Len(op[p].list) + op[p].left, op[p].size)
  BY <1>1 DEF SizeInv, TypeOK, OpRecords, Asking, Locked
<1>4. /\ left \in Nat /\ list \in Seq(0 .. MaxBit + 1)
      /\ Len(list) + left = Len(op[p].list) + op[p].left
  <2>1. list \in Seq(0 .. MaxBit + 1) /\ Len(list) = Len(op[p].list) + 1
    BY <1>3
  <2>2. Len(op[p].list) \in Nat
    BY <1>3
  <2>3. left \in Nat
    BY <1>3
  <2>4. left + 1 = op[p].left
    BY <1>3
  <2> HIDE DEF list, left
  <2> QED BY <2>1, <2>2, <2>3, <2>4
<1>8. pc = (IF left > 0 THEN "lock" ELSE "write")
  BY DEF AsksOrWrites
<1>9. at \notin ToSet(op[p].list) /\ Distinct(op[p].list)
  BY <1>1 DEF BlockInv, FoundInv, ListInv
<1>l. ToSet(list) = ToSet(op[p].list) \cup {at} /\ Distinct(list)
  <2> DEFINE old == op[p].list
             new == op[p].at
             S == 0 .. MaxBit + 1
  <2>1. old \in Seq(S) /\ new \in S /\ new \notin ToSet(old) /\ Distinct(old)
    BY <1>3, <1>9
  <2>2. list = Append(old, new)
    OBVIOUS
  <2> HIDE DEF old, new, S
  <2>3. ToSet(Append(old, new)) = ToSet(old) \cup {new} /\ Distinct(Append(old, new))
    BY <2>1, ToSetAppend, DistinctAppend
  <2> QED BY <2>2, <2>3 DEF old, new
<1> HIDE DEF left, pc, list
<1>5. /\ Moves(p) /\ op'[p].pc = pc /\ op'[p].left = left /\ op'[p].list = list
      /\ op'[p].size = op[p].size
  <2> DEFINE o == [op[p] EXCEPT !.pc = pc, !.left = left, !.list = list]
  <2>1. op[p] \in OpRecords
    BY DEF TypeOK
  <2>2. o \in OpRecords /\ o.pc = pc /\ o.left = left /\ o.list = list /\ o.size = op[p].size
    BY <1>4, <1>8, <2>1 DEF OpRecords
  <2>3. op' = [op EXCEPT ![p] = o]
    BY <1>1 DEF TypeOK
  <2> HIDE DEF o
  <2> QED BY <2>2, <2>3, Moved
<1>6. /\ op'[p].pc = pc /\ op'[p].left = left /\ op'[p].list = list /\ op'[p].size = op[p].size
      /\ pc \in {"lock", "write"}
  BY <1>5, <1>8
<1>7. OthersFiles(p)
  BY <1>1 DEF OthersFiles
<1>h. Held(p)' = Held(p)
  <2>1. HeldOf(op[p], files[p]) = ToSet(op[p].list) \cup {op[p].at}
    BY <1>1, HeldByPc
  <2>2. HeldOf(op'[p], files'[p]) = ToSet(op'[p].list)
    BY <1>6, HeldByPc
  <2> QED BY <1>6, <1>l, <2>1, <2>2 DEF Held
<1>t. TypeOK'
  BY <1>1, <1>2, <1>5, <1>6, <1>7 DEF TypeOK, Moves
<1>s. SizeInv'
  BY <1>1, <1>2, <1>5, <1>6, <1>7, <1>3, <1>4, <1>8 DEF SizeInv, Moves, OthersFiles, Locked, Asking, Giving
<1>b. ASSUME Sound' PROVE BlockInv'
  <2> USE <1>b DEF BlockInv
  <2>1. LockInv'
    BY <1>1, <1>2, <1>5, <1>6, <1>7 DEF LockInv, Moves, Locked
  <2>2. OneLocks'
    BY <1>1, <1>2, <1>5, <1>6, <1>7 DEF OneLocks, TypeOK
  <2>3. FoundInv'
    BY <1>1, <1>2, <1>5, <1>6, <1>7 DEF FoundInv, Moves, Locked
  <2>4. GiveInv'
    BY <1>1, <1>2, <1>5, <1>6, <1>7 DEF GiveInv, Moves, Giving
  <2>5. ListInv'
    BY <1>1, <1>2, <1>5, <1>6, <1>7, <1>l DEF ListInv, Moves, OthersFiles
  <2>6. RestInv'
    BY <1>1, <1>2, <1>5, <1>6, <1>7 DEF RestInv, Moves, OthersFiles
  <2>7. MappedInv'
    BY <1>1, <1>2, <1>5, <1>6, <1>7, <1>l DEF MappedInv, Moves, OthersFiles, Alive, Locked, Asking
  <2>8. WrittenInv'
    BY <1>1, <1>2, <1>5, <1>6, <1>7 DEF WrittenInv, Moves, OthersFiles, Alive
  <2>9. HeldInv'
    BY <1>1, <1>2, <1>5, <1>6, <1>7, <1>h, HeldFrame
  <2> QED BY <2>1, <2>2, <2>3, <2>4, <2>5, <2>6, <2>7, <2>8, <2>9
<1> QED BY <1>t, <1>s, <1>b

LEMMA ElementsIn ==
  ASSUME NEW S, NEW list \in Seq(S)
  PROVE  ToSet(list) \subseteq S /\ \A k \in DOMAIN list : list[k] \in S
BY DEF ToSet

LEMMA RemoveBlockKeeps ==
  ASSUME TypeOK, SizeInv, BlockInv, Sound, NEW p \in Pokemons, RemoveBlock(p)
  PROVE  TypeOK' /\ SizeInv' /\ (Sound' => BlockInv')
<1> DEFINE block == op[p].list[op[p].k]
<1>1. /\ op[p].pc = "remove"
      /\ op' = [op EXCEPT ![p].pc = "loadOff", ![p].at = block]
      /\ content' = [content EXCEPT ![block] = "none"]
      /\ UNCHANGED <<bits, mapped, allocating, files, restarts, unfinished, torn, past>>
  BY DEF RemoveBlock
<1>2. p \notin unfinished /\ p \in Alive
  BY <1>1, WorksOnLiveFile
<1>3. op[p].list \in Seq(0 .. MaxBit + 1) /\ op[p].k \in DOMAIN op[p].list /\ Distinct(op[p].list)
  BY <1>1 DEF BlockInv, GiveInv, ListInv, TypeOK, OpRecords, Giving
<1>4. block \in 0 .. MaxBit + 1 /\ block \in Held(p)
  <2>1. Held(p) = From(op[p].list, op[p].k)
    BY <1>1, HeldByPc DEF Held, GivesBack
  <2>2. block \in Held(p)
    BY <1>3, <2>1, FromStep
  <2> DEFINE S == 0 .. MaxBit + 1
  <2>3. op[p].list \in Seq(S)
    BY <1>3
  <2> HIDE DEF S
  <2>4. block \in S
    BY <1>3, <2>3, ElementsIn
  <2> QED BY <2>2, <2>4 DEF S
<1> HIDE DEF block
<1>5. Moves(p) /\ op'[p].pc = "loadOff" /\ Same(p) /\ op'[p].at = block
  <2>1. SetsPcAt(p, "loadOff", block)
    BY <1>1 DEF SetsPcAt
  <2> QED BY <1>4, <2>1, MovedPcAt DEF Pcs
<1>6. /\ op'[p].pc = "loadOff" /\ op'[p].list = op[p].list /\ op'[p].size = op[p].size
      /\ op'[p].left = op[p].left /\ op'[p].k = op[p].k /\ op'[p].at = op[p].list[op[p].k]
  BY <1>5 DEF Same, block
<1>7. OthersFiles(p)
  BY <1>1 DEF OthersFiles
<1>8. \A b : b # block => content'[b] = content[b]
  BY <1>1 DEF TypeOK
<1>9. content' \in [0 .. MaxBit + 1 -> Pokemons \cup {"none"}]
  BY <1>1, <1>4 DEF TypeOK
<1>h. Held(p)' = Held(p)
  <2>1. /\ HeldOf(op[p], files[p]) = From(op[p].list, op[p].k)
        /\ HeldOf(op'[p], files'[p]) = From(op'[p].list, op'[p].k)
    BY <1>1, <1>6, HeldByPc DEF GivesBack, GaveBack
  <2> QED BY <1>6, <2>1 DEF Held
<1>t. TypeOK'
  BY <1>1, <1>2, <1>5, <1>6, <1>7, <1>9 DEF TypeOK, Moves
<1>s. SizeInv'
  BY <1>1, <1>2, <1>5, <1>6, <1>7 DEF SizeInv, Moves, OthersFiles, Locked, Asking, Giving
<1>b. ASSUME Sound' PROVE BlockInv'
  <2> USE <1>b DEF BlockInv
  <2>1. LockInv'
    BY <1>1, <1>2, <1>5, <1>6, <1>7 DEF LockInv, Moves, Locked
  <2>2. OneLocks'
    BY <1>1, <1>2, <1>5, <1>6, <1>7 DEF OneLocks, TypeOK
  <2>3. FoundInv'
    BY <1>1, <1>2, <1>5, <1>6, <1>7 DEF FoundInv, Moves, Locked
  <2>4. GiveInv'
    BY <1>1, <1>2, <1>5, <1>6, <1>7 DEF GiveInv, Moves, Giving
  <2>5. ListInv'
    BY <1>1, <1>2, <1>5, <1>6, <1>7 DEF ListInv, Moves, OthersFiles
  <2>6. RestInv'
    BY <1>1, <1>2, <1>5, <1>6, <1>7 DEF RestInv, Moves, OthersFiles
  <2>7. MappedInv'
    BY <1>1, <1>2, <1>5, <1>6, <1>7 DEF MappedInv, Moves, OthersFiles, Alive, Locked, Asking
  <2>8. WrittenInv'
    <3>1. SUFFICES ASSUME NEW q \in Alive, q # p
                   PROVE  /\ op[q].pc = "idle" => \A b \in ToSet(files[q].list) : content'[b] = q
                          /\ op[q].pc = "save" => \A b \in ToSet(op[q].list) : content'[b] = q
      BY <1>1, <1>5, <1>6, <1>7 DEF WrittenInv, Moves, OthersFiles, Alive
    <3>2. /\ op[q].pc = "idle" => ToSet(files[q].list) = Held(q)
          /\ op[q].pc = "save" => ToSet(op[q].list) = Held(q)
      BY HeldByPc DEF Held
    <3>3. block \notin Held(q)
      BY <1>2, <1>4, <3>1 DEF HeldInv
    <3> QED BY <1>8, <3>2, <3>3 DEF WrittenInv
  <2>9. HeldInv'
    BY <1>1, <1>2, <1>5, <1>6, <1>7, <1>h, HeldFrame
  <2> QED BY <2>1, <2>2, <2>3, <2>4, <2>5, <2>6, <2>7, <2>8, <2>9
<1> QED BY <1>t, <1>s, <1>b

LEMMA AmountAnew ==
  ASSUME NEW size \in Nat, NEW file, file.list = <<>>
  PROVE  AmountOfBlocks(size, file) \in Nat /\ Fits(AmountOfBlocks(size, file), size)
<1>1. BlockSize \in Nat \ {0}
  BY BlockBitmapAssumption
<1>2. AmountOfBlocks(size, file) = IF size <= 0 THEN 0 ELSE (size + BlockSize - 1) \div BlockSize
  BY DEF AmountOfBlocks
<1>3. CASE size <= 0
  BY <1>1, <1>2, <1>3 DEF Fits
<1>4. CASE size > 0
  <2> DEFINE n == (size + BlockSize - 1) \div BlockSize
  <2>1. AmountOfBlocks(size, file) = n
    BY <1>2, <1>4
  <2>2. n \in Nat /\ size <= n * BlockSize /\ n * BlockSize < size + BlockSize
    BY <1>1, DivBounds
  <2> HIDE DEF n
  <2> QED BY <2>1, <2>2 DEF Fits
<1> QED BY <1>3, <1>4

LEMMA NextBlockKeeps ==
  ASSUME TypeOK, SizeInv, BlockInv, Sound, NEW p \in Pokemons, NextBlock(p)
  PROVE  TypeOK' /\ SizeInv' /\ (Sound' => BlockInv')
<1> DEFINE size == op[p].size
           rest == [list |-> <<>>, size |-> size]
           left == AmountOfBlocks(size, rest)
           pc == AsksOrWrites(left)
           k == op[p].k
<1>1. /\ op[p].pc = "next"
      /\ op' = [op EXCEPT ![p] =
                  IF k < Len(op[p].list) THEN [op[p] EXCEPT !.pc = "remove", !.k = @ + 1]
                  ELSE [Idle EXCEPT !.pc = pc, !.size = size, !.left = left]]
      /\ UNCHANGED <<bits, mapped, allocating, content, files, restarts, unfinished, torn, past>>
  BY DEF NextBlock
<1>2. p \notin unfinished
  BY <1>1, WorksOnLiveFile
<1>3. /\ op[p] \in OpRecords /\ op[p].list \in Seq(0 .. MaxBit + 1)
      /\ Len(op[p].list) \in Nat /\ k \in 1 .. Len(op[p].list)
      /\ size \in Nat /\ Lines(size)
  BY <1>1 DEF BlockInv, GiveInv, TypeOK, SizeInv, OpRecords, Giving
<1>7. OthersFiles(p)
  BY <1>1 DEF OthersFiles
<1>h. Held(p) = From(op[p].list, k + 1)
  BY <1>1, HeldByPc DEF Held, GaveBack
<1>4. CASE k < Len(op[p].list)
  <2> DEFINE m == k + 1
             o == [op[p] EXCEPT !.pc = "remove", !.k = m]
  <2>0. m \in Nat \ {0}
    BY <1>3
  <2> HIDE DEF m
  <2>1. /\ o \in OpRecords /\ o.pc = "remove" /\ o.k = m
        /\ o.list = op[p].list /\ o.size = size
    BY <1>3, <2>0 DEF OpRecords
  <2>2. op' = [op EXCEPT ![p] = o]
    BY <1>1, <1>4 DEF m
  <2> HIDE DEF o
  <2>3. Moves(p) /\ op'[p] = o
    BY <2>1, <2>2, Moved
  <2>4. /\ op'[p].pc = "remove" /\ op'[p].k = k + 1 /\ op'[p].list = op[p].list
        /\ op'[p].size = size
        /\ k + 1 \in DOMAIN op[p].list
    BY <1>3, <1>4, <2>1, <2>3 DEF m
  <2>5. Held(p)' = Held(p)
    <3>1. HeldOf(op'[p], files'[p]) = From(op'[p].list, op'[p].k)
      BY <2>4, HeldByPc DEF GivesBack
    <3> QED BY <1>h, <2>4, <3>1 DEF Held
  <2>t. TypeOK'
    BY <1>1, <1>2, <1>7, <2>3, <2>4 DEF TypeOK, Moves
  <2>s. SizeInv'
    BY <1>1, <1>2, <1>7, <2>3, <2>4, <1>3 DEF SizeInv, Moves, OthersFiles, Locked, Asking, Giving
  <2>b. ASSUME Sound' PROVE BlockInv'
    <3> USE <2>b DEF BlockInv
    <3>1. LockInv'
      BY <1>1, <1>2, <1>7, <2>3, <2>4 DEF LockInv, Moves, Locked
    <3>2. OneLocks'
      BY <1>1, <1>2, <1>7, <2>3, <2>4 DEF OneLocks, TypeOK
    <3>3. FoundInv'
      BY <1>1, <1>2, <1>7, <2>3, <2>4 DEF FoundInv, Moves, Locked
    <3>4. GiveInv'
      BY <1>1, <1>2, <1>7, <2>3, <2>4 DEF GiveInv, Moves, Giving
    <3>5. ListInv'
      BY <1>1, <1>2, <1>7, <2>3, <2>4 DEF ListInv, Moves, OthersFiles
    <3>6. RestInv'
      BY <1>1, <1>2, <1>7, <2>3, <2>4 DEF RestInv, Moves, OthersFiles
    <3>7. MappedInv'
      BY <1>1, <1>2, <1>7, <2>3, <2>4 DEF MappedInv, Moves, OthersFiles, Alive, Locked, Asking
    <3>8. WrittenInv'
      BY <1>1, <1>2, <1>7, <2>3, <2>4 DEF WrittenInv, Moves, OthersFiles, Alive
    <3>9. HeldInv'
      BY <1>1, <1>2, <1>7, <2>3, <2>4, <2>5, HeldFrame
    <3> QED BY <3>1, <3>2, <3>3, <3>4, <3>5, <3>6, <3>7, <3>8, <3>9
  <2> QED BY <2>t, <2>s, <2>b
<1>5. CASE ~(k < Len(op[p].list))
  <2>1. left \in Nat /\ Fits(left, size) /\ pc = (IF left > 0 THEN "lock" ELSE "write")
    <3>1. rest.list = <<>>
      OBVIOUS
    <3> HIDE DEF rest
    <3> QED BY <1>3, <3>1, AmountAnew DEF AsksOrWrites
  <2> HIDE DEF left, pc
  <2> DEFINE o == [Idle EXCEPT !.pc = pc, !.size = size, !.left = left]
  <2>2. /\ o \in OpRecords /\ o.pc = pc /\ o.size = size /\ o.left = left /\ o.list = <<>>
    BY <1>3, <2>1, IdleIsRecord DEF Idle, OpRecords
  <2>3. op' = [op EXCEPT ![p] = o]
    BY <1>1, <1>5
  <2> HIDE DEF o
  <2>4. Moves(p) /\ op'[p] = o
    BY <2>2, <2>3, Moved
  <2>5. /\ op'[p].pc = pc /\ op'[p].size = size /\ op'[p].left = left /\ op'[p].list = <<>>
        /\ pc \in {"lock", "write"} /\ Len(op'[p].list) = 0 /\ ToSet(op'[p].list) = {}
        /\ Distinct(op'[p].list)
    BY <2>1, <2>2, <2>4, ToSetEmpty DEF Distinct
  <2>6. Held(p)' = Held(p)
    <3>1. HeldOf(op'[p], files'[p]) = ToSet(op'[p].list)
      BY <2>5, HeldByPc
    <3>2. k = Len(op[p].list)
      BY <1>3, <1>5
    <3>3. From(op[p].list, k + 1) = {}
      BY <1>3, <3>2, FromPastEnd
    <3> QED BY <1>h, <2>5, <3>1, <3>3 DEF Held
  <2>t. TypeOK'
    BY <1>1, <1>2, <1>7, <2>4, <2>5 DEF TypeOK, Moves
  <2>s. SizeInv'
    BY <1>1, <1>2, <1>7, <2>4, <2>5, <1>3, <2>1 DEF SizeInv, Moves, OthersFiles, Locked, Asking, Giving
  <2>b. ASSUME Sound' PROVE BlockInv'
    <3> USE <2>b DEF BlockInv
    <3>1. LockInv'
      BY <1>1, <1>2, <1>7, <2>4, <2>5 DEF LockInv, Moves, Locked
    <3>2. OneLocks'
      BY <1>1, <1>2, <1>7, <2>4, <2>5 DEF OneLocks, TypeOK
    <3>3. FoundInv'
      BY <1>1, <1>2, <1>7, <2>4, <2>5 DEF FoundInv, Moves, Locked
    <3>4. GiveInv'
      BY <1>1, <1>2, <1>7, <2>4, <2>5 DEF GiveInv, Moves, Giving
    <3>5. ListInv'
      BY <1>1, <1>2, <1>7, <2>4, <2>5 DEF ListInv, Moves, OthersFiles
    <3>6. RestInv'
      BY <1>1, <1>2, <1>7, <2>4, <2>5 DEF RestInv, Moves, OthersFiles
    <3>7. MappedInv'
      BY <1>1, <1>2, <1>7, <2>4, <2>5 DEF MappedInv, Moves, OthersFiles, Alive, Locked, Asking
    <3>8. WrittenInv'
      BY <1>1, <1>2, <1>7, <2>4, <2>5 DEF WrittenInv, Moves, OthersFiles, Alive
    <3>9. HeldInv'
      BY <1>1, <1>2, <1>7, <2>4, <2>5, <2>6, HeldFrame
    <3> QED BY <3>1, <3>2, <3>3, <3>4, <3>5, <3>6, <3>7, <3>8, <3>9
  <2> QED BY <2>t, <2>s, <2>b
<1> QED BY <1>4, <1>5

LEMMA WriteBlocksKeeps ==
  ASSUME TypeOK, SizeInv, BlockInv, Sound, NEW p \in Pokemons, WriteBlocks(p)
  PROVE  TypeOK' /\ SizeInv' /\ (Sound' => BlockInv')
<1> DEFINE mine == ToSet(op[p].list)
<1>1. /\ op[p].pc = "write" /\ op' = [op EXCEPT ![p].pc = "save"]
      /\ content' = [b \in DOMAIN content |-> IF b \in mine THEN p ELSE content[b]]
      /\ UNCHANGED <<bits, mapped, allocating, files, restarts, unfinished, torn, past>>
  BY DEF WriteBlocks, Step
<1>2. p \notin unfinished /\ p \in Alive
  BY <1>1, WorksOnLiveFile
<1>3. mine \subseteq 0 .. MaxBit + 1
  BY ElementsIn DEF TypeOK, OpRecords
<1>4. mine = Held(p)
  BY <1>1, HeldByPc DEF Held
<1> HIDE DEF mine
<1>5. Moves(p) /\ op'[p].pc = "save" /\ Same(p)
  <2>1. SetsPc(p, "save")
    BY <1>1 DEF SetsPc
  <2> QED BY <2>1, MovedPc DEF Pcs
<1>6. /\ op'[p].pc = "save" /\ op'[p].list = op[p].list /\ op'[p].size = op[p].size
      /\ op'[p].left = op[p].left
  BY <1>5 DEF Same
<1>7. OthersFiles(p)
  BY <1>1 DEF OthersFiles
<1>8. /\ \A b \in mine : content'[b] = p
      /\ \A b \in 0 .. MaxBit + 1 : b \notin mine => content'[b] = content[b]
  BY <1>1, <1>3 DEF TypeOK
<1>9. content' \in [0 .. MaxBit + 1 -> Pokemons \cup {"none"}]
  BY <1>1 DEF TypeOK
<1>h. Held(p)' = Held(p)
  <2>1. /\ HeldOf(op[p], files[p]) = ToSet(op[p].list)
        /\ HeldOf(op'[p], files'[p]) = ToSet(op'[p].list)
    BY <1>1, <1>6, HeldByPc
  <2> QED BY <1>6, <2>1 DEF Held
<1>t. TypeOK'
  BY <1>1, <1>2, <1>5, <1>6, <1>7, <1>9 DEF TypeOK, Moves
<1>s. SizeInv'
  BY <1>1, <1>2, <1>5, <1>6, <1>7 DEF SizeInv, Moves, OthersFiles, Locked, Asking, Giving
<1>b. ASSUME Sound' PROVE BlockInv'
  <2> USE <1>b DEF BlockInv
  <2>1. LockInv'
    BY <1>1, <1>2, <1>5, <1>6, <1>7 DEF LockInv, Moves, Locked
  <2>2. OneLocks'
    BY <1>1, <1>2, <1>5, <1>6, <1>7 DEF OneLocks, TypeOK
  <2>3. FoundInv'
    BY <1>1, <1>2, <1>5, <1>6, <1>7 DEF FoundInv, Moves, Locked
  <2>4. GiveInv'
    BY <1>1, <1>2, <1>5, <1>6, <1>7 DEF GiveInv, Moves, Giving
  <2>5. ListInv'
    BY <1>1, <1>2, <1>5, <1>6, <1>7 DEF ListInv, Moves, OthersFiles
  <2>6. RestInv'
    BY <1>1, <1>2, <1>5, <1>6, <1>7 DEF RestInv, Moves, OthersFiles
  <2>7. MappedInv'
    BY <1>1, <1>2, <1>5, <1>6, <1>7 DEF MappedInv, Moves, OthersFiles, Alive, Locked, Asking
  <2>8. WrittenInv'
    <3>1. SUFFICES ASSUME NEW q \in Alive
                   PROVE  /\ op'[q].pc = "idle" => \A b \in ToSet(files'[q].list) : content'[b] = q
                          /\ op'[q].pc = "save" => \A b \in ToSet(op'[q].list) : content'[b] = q
      BY <1>1 DEF WrittenInv, Alive
    <3>2. CASE q = p
      BY <1>6, <1>8, <3>2 DEF mine
    <3>3. CASE q # p
      <4>1. op'[q] = op[q] /\ files'[q] = files[q] /\ q \in Pokemons
        BY <1>5, <1>7, <3>1, <3>3 DEF Moves, OthersFiles, Alive
      <4>2. /\ op[q].pc = "idle" => ToSet(files[q].list) = Held(q)
            /\ op[q].pc = "save" => ToSet(op[q].list) = Held(q)
        BY HeldByPc DEF Held
      <4>3. \A b \in Held(q) : b \notin mine
        BY <1>2, <1>4, <3>1, <3>3 DEF HeldInv
      <4>4. ToSet(files[q].list) \subseteq 0 .. MaxBit + 1 /\ ToSet(op[q].list) \subseteq 0 .. MaxBit + 1
        <5>1. files[q].list \in Seq(0 .. MaxBit + 1) /\ op[q].list \in Seq(0 .. MaxBit + 1)
          BY <4>1 DEF TypeOK, OpRecords
        <5> QED BY <5>1, ElementsIn
      <4> QED BY <1>8, <3>1, <4>1, <4>2, <4>3, <4>4 DEF WrittenInv
    <3> QED BY <3>2, <3>3
  <2>9. HeldInv'
    BY <1>1, <1>2, <1>5, <1>6, <1>7, <1>h, HeldFrame
  <2> QED BY <2>1, <2>2, <2>3, <2>4, <2>5, <2>6, <2>7, <2>8, <2>9
<1> QED BY <1>t, <1>s, <1>b

LEMMA SaveMetadataKeeps ==
  ASSUME TypeOK, SizeInv, BlockInv, Sound, NEW p \in Pokemons, SaveMetadata(p)
  PROVE  TypeOK' /\ SizeInv' /\ (Sound' => BlockInv')
<1> DEFINE file == [list |-> op[p].list, size |-> op[p].size]
<1>1. /\ op[p].pc = "save" /\ op' = [op EXCEPT ![p] = Idle]
      /\ files' = [files EXCEPT ![p] = file]
      /\ UNCHANGED <<bits, mapped, allocating, content, restarts, unfinished, torn, past>>
  BY DEF SaveMetadata
<1>2. p \notin unfinished /\ p \in Alive
  BY <1>1, WorksOnLiveFile
<1>3. /\ op[p].list \in Seq(0 .. MaxBit + 1) /\ Len(op[p].list) \in Nat
      /\ op[p].size \in Nat /\ Lines(op[p].size) /\ op[p].left = 0
      /\ Fits(Len(op[p].list), op[p].size)
  <2>1. /\ Fits(Len(op[p].list) + op[p].left, op[p].size) /\ op[p].left = 0
        /\ Lines(op[p].size)
    BY <1>1 DEF SizeInv, Asking
  <2>2. op[p].list \in Seq(0 .. MaxBit + 1) /\ op[p].size \in Nat
    BY DEF TypeOK, OpRecords
  <2> QED BY <2>1, <2>2
<1>4. /\ files'[p].list = op[p].list /\ files'[p].size = op[p].size
      /\ \A q \in Pokemons \ {p} : files'[q] = files[q]
      /\ files' \in [Pokemons -> [list : Seq(0 .. MaxBit + 1), size : Nat]]
  BY <1>1, <1>3 DEF TypeOK
<1>5. Moves(p) /\ op'[p] = Idle
  BY <1>1, IdleIsRecord, Moved
<1>6. op'[p].pc = "idle" /\ op'[p].list = <<>> /\ op'[p].size = 0 /\ Distinct(<<>>) /\ Lines(0)
  <2>1. Lines(0)
    BY BlockBitmapAssumption DEF Lines
  <2> QED BY <1>5, <2>1 DEF Idle, Distinct
<1>7. OthersFiles(p)
  BY <1>4 DEF OthersFiles
<1>h. Held(p)' = Held(p)
  <2>1. HeldOf(op[p], files[p]) = ToSet(op[p].list)
    BY <1>1, HeldByPc
  <2>2. HeldOf(op'[p], files'[p]) = ToSet(files'[p].list)
    BY <1>6, HeldByPc
  <2> QED BY <1>4, <2>1, <2>2 DEF Held
<1>t. TypeOK'
  BY <1>1, <1>2, <1>4, <1>5, <1>6, <1>7 DEF TypeOK, Moves
<1>s. SizeInv'
  BY <1>1, <1>2, <1>4, <1>5, <1>6, <1>7, <1>3 DEF SizeInv, Moves, OthersFiles, Locked, Asking, Giving
<1>b. ASSUME Sound' PROVE BlockInv'
  <2> USE <1>b DEF BlockInv
  <2>1. LockInv'
    BY <1>1, <1>2, <1>4, <1>5, <1>6, <1>7 DEF LockInv, Moves, Locked
  <2>2. OneLocks'
    BY <1>1, <1>2, <1>4, <1>5, <1>6, <1>7 DEF OneLocks, TypeOK
  <2>3. FoundInv'
    BY <1>1, <1>2, <1>4, <1>5, <1>6, <1>7 DEF FoundInv, Moves, Locked
  <2>4. GiveInv'
    BY <1>1, <1>2, <1>4, <1>5, <1>6, <1>7 DEF GiveInv, Moves, Giving
  <2>5. ListInv'
    BY <1>1, <1>2, <1>4, <1>5, <1>6, <1>7 DEF ListInv, Moves, OthersFiles
  <2>6. RestInv'
    BY <1>1, <1>2, <1>4, <1>5, <1>6, <1>7 DEF RestInv, Moves, OthersFiles
  <2>7. MappedInv'
    BY <1>1, <1>2, <1>4, <1>5, <1>6, <1>7 DEF MappedInv, Moves, OthersFiles, Alive, Locked, Asking
  <2>8. WrittenInv'
    BY <1>1, <1>2, <1>4, <1>5, <1>6, <1>7 DEF WrittenInv, Moves, OthersFiles, Alive
  <2>9. HeldInv'
    BY <1>1, <1>2, <1>4, <1>5, <1>6, <1>7, <1>h, HeldFrame
  <2> QED BY <2>1, <2>2, <2>3, <2>4, <2>5, <2>6, <2>7, <2>8, <2>9
<1> QED BY <1>t, <1>s, <1>b

LEMMA RestartKeeps ==
  ASSUME TypeOK, SizeInv, BlockInv, Sound, Restart
  PROVE  TypeOK' /\ SizeInv' /\ (Sound' => BlockInv')
<1>1. /\ restarts < MaxRestarts /\ restarts' = restarts + 1
      /\ bits' = mapped /\ allocating' = {}
      /\ unfinished' = unfinished \cup {p \in Pokemons : op[p].pc # "idle"}
      /\ op' = [p \in Pokemons |-> Idle]
      /\ UNCHANGED <<mapped, content, files, torn, past>>
  BY DEF Restart
<1>2. \A p \in Pokemons : op'[p] = Idle
  BY <1>1
<1>3. /\ Idle.pc = "idle" /\ Idle.list = <<>> /\ Idle.size = 0
      /\ Distinct(<<>>) /\ Lines(0)
  <2>1. Lines(0)
    BY BlockBitmapAssumption DEF Lines
  <2> QED BY <2>1 DEF Idle, Distinct
<1>4. \A p \in Alive' : /\ p \in Alive /\ p \in Pokemons /\ op[p].pc = "idle"
                        /\ HeldOf(op'[p], files'[p]) = Held(p)
                        /\ Held(p) = ToSet(files[p].list)
  <2>1. SUFFICES ASSUME NEW p \in Alive'
                 PROVE  /\ p \in Alive /\ p \in Pokemons /\ op[p].pc = "idle"
                        /\ HeldOf(op'[p], files'[p]) = Held(p)
                        /\ Held(p) = ToSet(files[p].list)
    OBVIOUS
  <2>2. p \in Alive /\ p \in Pokemons /\ op[p].pc = "idle"
    BY <1>1 DEF Alive
  <2>3. op'[p].pc = "idle"
    BY <1>2, <1>3, <2>2
  <2> QED BY <1>1, <2>2, <2>3, HeldByPc DEF Held
<1>t. TypeOK'
  <2>1. restarts' \in 0 .. MaxRestarts
    BY <1>1, BlockBitmapAssumption DEF TypeOK
  <2>2. op' \in [Pokemons -> OpRecords]
    BY <1>1, IdleIsRecord
  <2> QED BY <1>1, <2>1, <2>2 DEF TypeOK
<1>s. SizeInv'
  BY <1>1, <1>2, <1>3 DEF SizeInv, Asking, Locked
<1>b. BlockInv'
  <2> USE DEF BlockInv
  <2>1. LockInv' /\ OneLocks' /\ FoundInv' /\ GiveInv'
    BY <1>1, <1>2, <1>3 DEF LockInv, OneLocks, FoundInv, GiveInv, Locked, Giving
  <2>2. ListInv'
    BY <1>1, <1>2, <1>3 DEF ListInv
  <2>3. RestInv'
    BY <1>2 DEF RestInv
  <2>4. MappedInv'
    BY <1>1, <1>2, <1>3, <1>4 DEF MappedInv, Asking, Locked
  <2>5. WrittenInv'
    BY <1>1, <1>2, <1>3, <1>4 DEF WrittenInv
  <2>6. HeldInv'
    <3>1. \A p \in Alive' : HeldOf(op'[p], files'[p]) \subseteq bits'
      BY <1>1, <1>4 DEF MappedInv
    <3>2. \A p, q \in Alive' : p # q => \A b \in HeldOf(op'[p], files'[p]) : b \notin HeldOf(op'[q], files'[q])
      BY <1>4 DEF HeldInv
    <3>3. restarts' # 0
      BY <1>1 DEF TypeOK
    <3> QED BY <3>1, <3>2, <3>3 DEF HeldInv, Held
  <2> QED BY <2>1, <2>2, <2>3, <2>4, <2>5, <2>6
<1> QED BY <1>t, <1>s, <1>b

-----------------------------------------------------------------------------
LEMMA InitHolds == Init => IInv
<1> SUFFICES ASSUME Init PROVE IInv
  OBVIOUS
<1>1. \A p \in Pokemons : op[p] = Idle /\ files[p] = [list |-> <<>>, size |-> 0]
  BY DEF Init
<1>2. /\ Idle.pc = "idle" /\ Idle.list = <<>> /\ Idle.size = 0
      /\ Distinct(<<>>) /\ Lines(0) /\ Fits(0, 0) /\ Len(<<>>) = 0
  <2>1. Lines(0) /\ Fits(0, 0)
    BY BlockBitmapAssumption DEF Lines, Fits
  <2> QED BY <2>1 DEF Idle, Distinct
<1>3. \A p \in Pokemons : Held(p) = {} /\ ToSet(files[p].list) = {}
  <2>1. SUFFICES ASSUME NEW p \in Pokemons PROVE Held(p) = {} /\ ToSet(files[p].list) = {}
    OBVIOUS
  <2>2. op[p].pc = "idle" /\ files[p].list = <<>>
    BY <1>1, <1>2
  <2> QED BY <2>2, HeldByPc, ToSetEmpty DEF Held
<1>4. TypeOK
  <2>1. op \in [Pokemons -> OpRecords]
    BY IdleIsRecord DEF Init
  <2>2. content \in [0 .. MaxBit + 1 -> Pokemons \cup {"none"}]
    BY DEF Init
  <2>3. files \in [Pokemons -> [list : Seq(0 .. MaxBit + 1), size : Nat]]
    BY DEF Init
  <2>4. restarts \in 0 .. MaxRestarts
    BY BlockBitmapAssumption DEF Init
  <2> QED BY <2>1, <2>2, <2>3, <2>4 DEF Init, TypeOK
<1>5. SizeInv
  BY <1>1, <1>2 DEF SizeInv, Asking, Locked
<1>6. BlockInv
  <2>1. LockInv /\ OneLocks /\ FoundInv /\ GiveInv
    BY <1>1, <1>2 DEF Init, LockInv, OneLocks, FoundInv, GiveInv, Locked, Giving
  <2>2. ListInv
    BY <1>1, <1>2 DEF ListInv
  <2>3. RestInv
    BY <1>1 DEF RestInv
  <2>4. MappedInv /\ WrittenInv
    BY <1>1, <1>2, <1>3 DEF MappedInv, WrittenInv, Alive, Asking, Locked
  <2>5. HeldInv
    BY <1>3 DEF Init, HeldInv, Alive
  <2> QED BY <2>1, <2>2, <2>3, <2>4, <2>5 DEF BlockInv
<1> QED BY <1>4, <1>5, <1>6 DEF IInv

LEMMA NextKeeps == IInv /\ [Next]_vars => IInv'
<1> SUFFICES ASSUME IInv, [Next]_vars PROVE IInv'
  OBVIOUS
<1>1. CASE UNCHANGED vars
  BY <1>1 DEF IInv, vars, TypeOK, SizeInv, Sound, BlockInv, LockInv, OneLocks, FoundInv, GiveInv,
     ListInv, RestInv, MappedInv, WrittenInv, HeldInv, Held, Alive
<1>2. CASE Next
  <2>1. TypeOK /\ SizeInv /\ BlockInv /\ Sound
    BY <1>2 DEF IInv, Next
  <2>2. CASE Restart
    BY <2>1, <2>2, RestartKeeps DEF IInv
  <2>3. ASSUME NEW p \in Pokemons, Operation(p) PROVE IInv'
    <3>1. CASE AddLine(p) \/ RemoveLine(p)
      BY <2>1, <3>1, AddLineKeeps, RemoveLineKeeps DEF IInv
    <3>2. CASE Lock(p) \/ Search(p) \/ Unlock(p)
      BY <2>1, <3>2, LockKeeps, SearchKeeps, UnlockKeeps DEF IInv
    <3>3. CASE TurnBitOn(p)
      BY <2>1, <3>3, LoadOnKeeps, StoreOnKeeps, CopyOnKeeps DEF IInv, TurnBitOn
    <3>4. CASE TurnBitOff(p)
      BY <2>1, <3>4, LoadOffKeeps, StoreOffKeeps, CopyOffKeeps DEF IInv, TurnBitOff
    <3>5. CASE RemoveBlock(p) \/ NextBlock(p)
      BY <2>1, <3>5, RemoveBlockKeeps, NextBlockKeeps DEF IInv
    <3>6. CASE WriteBlocks(p) \/ SaveMetadata(p)
      BY <2>1, <3>6, WriteBlocksKeeps, SaveMetadataKeeps DEF IInv
    <3> QED BY <2>3, <3>1, <3>2, <3>3, <3>4, <3>5, <3>6 DEF Operation
  <2> QED BY <1>2, <2>2, <2>3 DEF Next
<1> QED BY <1>1, <1>2

(* The strengthening: whatever the order of the operations and the moments *)
(* at which the process is killed.                                         *)
THEOREM Invariance == Spec => []IInv
<1> QED BY InitHolds, NextKeeps, PTL DEF Spec

(* The values that the arrays, the files and the operations have.          *)
THEOREM TypeCorrect == Spec => []TypeOK
<1>1. IInv => TypeOK
  BY DEF IInv
<1> QED BY Invariance, <1>1, PTL

(* get_first_free_block, turn_bit_on and turn_bit_off: as long as no byte  *)
(* was stored over another's change and no block that does not exist was   *)
(* given, no block is held by two files that are not closed.               *)
THEOREM BlocksHaveOneOwner == Spec => []OneOwner
<1>1. IInv => OneOwner
  <2> SUFFICES ASSUME IInv, Sound, NEW p \in Alive, NEW q \in Alive, p # q
               PROVE  Held(p) \cap Held(q) = {}
    BY DEF OneOwner
  <2>1. \A b \in Held(p) : b \notin Held(q)
    BY DEF IInv, BlockInv, HeldInv
  <2> QED BY <2>1
<1> QED BY Invariance, <1>1, PTL

(* The same: the bit of every block of a file is on, and before the first  *)
(* restart no other bit is.                                                *)
THEOREM BitsAreOfHeldBlocks == Spec => []BitsOfHeldBlocks
<1>1. IInv => BitsOfHeldBlocks
  BY DEF IInv, BlockInv, HeldInv, BitsOfHeldBlocks
<1> QED BY Invariance, <1>1, PTL

(* delete_block_file and write_blocks: what is written for a file stays in *)
(* its blocks while it is at rest.                                         *)
THEOREM FilesKeepTheirContent == Spec => []ContentKept
<1>1. IInv => ContentKept
  BY DEF IInv, BlockInv, WrittenInv, ContentKept
<1> QED BY Invariance, <1>1, PTL

(* The bitmap that a new process reads has the blocks of every file at     *)
(* rest.                                                                   *)
THEOREM MappedFileHasFiles == Spec => []MappedHasFiles
<1>1. IInv => MappedHasFiles
  BY DEF IInv, BlockInv, MappedInv, MappedHasFiles
<1> QED BY Invariance, <1>1, PTL

(* get_amount_of_blocks: the number of blocks of a file is its size in     *)
(* bytes, over that of a block, rounded up, also after torn bytes.         *)
THEOREM FilesHaveTheBlocksTheyNeed == Spec => []BlocksFitSize
<1>1. IInv => BlocksFitSize
  BY DEF IInv, SizeInv, Fits, BlocksFitSize
<1> QED BY Invariance, <1>1, PTL
=============================================================================

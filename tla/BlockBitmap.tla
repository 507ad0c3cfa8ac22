------------------------------ MODULE BlockBitmap ------------------------------
(***************************************************************************)
(* The blocks of GameCard's file system (GameCard/src/GameCard.c): a bit   *)
(* for each block in memory, a copy of the bits in a mapped file, the      *)
(* block files and the list of blocks in each pokemon's metadata.          *)
(* Operations on one pokemon have its file to themselves (PokemonFile);    *)
(* those on different pokemons meet here.  One that needs blocks searches  *)
(* and sets bits under mutexBitArray; one that gives blocks back clears    *)
(* bits without it, and a bit is changed by loading and storing its byte.  *)
(* The process may be killed and started again.                            *)
(*                                                                         *)
(* An operation is seen by what it does to the file's size: it adds a line *)
(* or takes one away.  What is written over without blocks being added or  *)
(* given back is left out.                                                 *)
(***************************************************************************)
EXTENDS Integers, Sequences, FiniteSets, SequencesExt

CONSTANTS
  Pokemons,     \* the names, one file for each
  Blocks,       \* GameCard->blocks, as the configuration says
  CharBit,      \* CHAR_BIT
  BlockSize,    \* GameCard->block_size, in bytes
  LineSize,     \* the bytes of a line of a file
  MaxLines,     \* bound: the lines of a file
  MaxRestarts   \* bound: the times that the process is killed

ASSUME BlockBitmapAssumption ==
  /\ {CharBit, BlockSize, LineSize} \subseteq Nat \ {0}
  /\ {Blocks, MaxLines, MaxRestarts} \subseteq Nat

VARIABLES
  bits,       \* GameCard->bitArray: the blocks whose bit is on
  mapped,     \* GameCard->fileMapped, likewise
  allocating, \* who holds mutexBitArray, as a set of at most one
  content,    \* [block -> the pokemon whose data its file has, or "none"]
  files,      \* each metadata.bin: [list, size]; none has no blocks
  op,         \* the operation on each file: [pc, list, size, left, k, at, mem]
  restarts,   \* how many times the process was started again
  unfinished, \* history: the files whose operation was killed; OPEN stays "S"
  torn, past  \* history: a byte was stored over another's change; a block past
              \* the end was given

vars == <<bits, mapped, allocating, content, files, op, restarts, unfinished, torn, past>>

(* GameCard_Initialize_bitarray: the blocks beyond whole bytes have no bit. *)
Bytes == Blocks \div CharBit
MaxBit == Bytes * CharBit
ByteOf(b) == {c \in 0 .. MaxBit - 1 : c \div CharBit = b \div CharBit}

Idle == [pc |-> "idle", list |-> <<>>, size |-> 0, left |-> 0, k |-> 1, at |-> 0, mem |-> {}]

Init ==
  /\ bits = {} /\ mapped = {} /\ allocating = {}
  /\ content = [b \in 0 .. MaxBit + 1 |-> "none"]
  /\ files = [p \in Pokemons |-> [list |-> <<>>, size |-> 0]]
  /\ op = [p \in Pokemons |-> Idle]
  /\ restarts = 0 /\ unfinished = {} /\ torn = FALSE /\ past = FALSE

(* get_amount_of_blocks: how many more hold `size' bytes, besides what is  *)
(* left of the last of those there are.                                    *)
AmountOfBlocks_NoRoom(size, file) == (size + BlockSize - 1) \div BlockSize
AmountOfBlocks(size, file) ==
  LET room == IF file.list = <<>> THEN 0 ELSE BlockSize * Len(file.list) - file.size
      more == IF room > 0 THEN size - room ELSE size IN
  IF more <= 0 THEN 0 ELSE (more + BlockSize - 1) \div BlockSize

Step(p, from, to) == op[p].pc = from /\ op' = [op EXCEPT ![p].pc = to]
AsksOrWrites(left) == IF left > 0 THEN "lock" ELSE "write"

-----------------------------------------------------------------------------
(* create_poke_file and modify_poke_file: a line more. *)
AddLine(p) ==
  LET file == files[p]  left == AmountOfBlocks(LineSize, file) IN
  /\ op[p].pc = "idle" /\ p \notin unfinished
  /\ file.size < MaxLines * LineSize
  /\ op' = [op EXCEPT ![p] = [Idle EXCEPT !.pc = AsksOrWrites(left), !.list = file.list,
                                          !.size = file.size + LineSize, !.left = left]]
  /\ UNCHANGED <<bits, mapped, allocating, content, files, restarts, unfinished, torn, past>>

(* catch_a_pokemon, of the last pokemon of a line: every block is given    *)
(* back, and those that the rest needs are asked for.                      *)
RemoveLine_Blocks(p) ==
  /\ op[p].pc = "idle" /\ p \notin unfinished
  /\ files[p].size > 0
  /\ op' = [op EXCEPT ![p] = [Idle EXCEPT !.pc = "remove", !.list = files[p].list,
                       !.size = files[p].size - BlockSize * Len(files[p].list)]]
  /\ UNCHANGED <<bits, mapped, allocating, content, files, restarts, unfinished, torn, past>>
RemoveLine(p) ==
  /\ op[p].pc = "idle" /\ p \notin unfinished
  /\ files[p].size > 0
  /\ op' = [op EXCEPT ![p] = [Idle EXCEPT !.pc = "remove", !.list = files[p].list,
                                          !.size = files[p].size - LineSize]]
  /\ UNCHANGED <<bits, mapped, allocating, content, files, restarts, unfinished, torn, past>>

-----------------------------------------------------------------------------
(* Metadata_File_Add_Blocks, for one block. *)
Lock_Shared(p) ==
  /\ op[p].pc = "lock"
  /\ allocating' = allocating \cup {p}
  /\ op' = [op EXCEPT ![p].pc = "search", ![p].at = 0]
  /\ UNCHANGED <<bits, mapped, content, files, restarts, unfinished, torn, past>>
Lock(p) ==
  /\ op[p].pc = "lock" /\ allocating = {}
  /\ allocating' = {p}
  /\ op' = [op EXCEPT ![p].pc = "search", ![p].at = 0]
  /\ UNCHANGED <<bits, mapped, content, files, restarts, unfinished, torn, past>>

(* get_first_free_block, one bit at a time.  What lies past the end is     *)
(* anything: the bit behind the last may look free or not, and the one     *)
(* after it is given without a look.                                       *)
Search(p) ==
  LET at == op[p].at IN
  /\ op[p].pc = "search"
  /\ \/ /\ at \in bits
        /\ op' = [op EXCEPT ![p].at = @ + 1]
        /\ UNCHANGED past
     \/ /\ at < MaxBit /\ at \notin bits
        /\ op' = [op EXCEPT ![p].pc = "loadOn"]
        /\ UNCHANGED past
     \/ /\ at = MaxBit
        /\ past' = TRUE
        /\ \E block \in {MaxBit, MaxBit + 1} :
             op' = [op EXCEPT ![p].pc = "loadOn", ![p].at = block]
  /\ UNCHANGED <<bits, mapped, allocating, content, files, restarts, unfinished, torn>>

(* bitarray_set_bit and bitarray_clean_bit.  A byte past the end is not    *)
(* the array's.                                                            *)
Load(p, from, to) ==
  /\ op[p].pc = from
  /\ op' = [op EXCEPT ![p].pc = to, ![p].mem = bits \cap ByteOf(op[p].at)]
  /\ UNCHANGED <<bits, mapped, allocating, content, files, restarts, unfinished, torn, past>>

Store(p, from, to, byte) ==
  LET own == ByteOf(op[p].at) IN
  /\ op[p].pc = from
  /\ bits' = (bits \ own) \cup (byte \cap own)
  /\ torn' = (torn \/ bits \cap own # op[p].mem)
  /\ op' = [op EXCEPT ![p].pc = to, ![p].mem = {}]
  /\ UNCHANGED <<mapped, allocating, content, files, restarts, unfinished, past>>

(* turn_bit_on and turn_bit_off copy the array to the mapped file, one at  *)
(* a time: semMap.                                                         *)
Copy_Forgets(p, from, to) ==
  /\ Step(p, from, to)
  /\ UNCHANGED <<bits, mapped, allocating, content, files, restarts, unfinished, torn, past>>
Copy(p, from, to) ==
  /\ Step(p, from, to)
  /\ mapped' = bits
  /\ UNCHANGED <<bits, allocating, content, files, restarts, unfinished, torn, past>>

TurnBitOn(p) ==
  \/ Load(p, "loadOn", "storeOn")
  \/ Store(p, "storeOn", "copyOn", op[p].mem \cup {op[p].at})
  \/ Copy(p, "copyOn", "unlock")

Unlock(p) ==
  /\ op[p].pc = "unlock"
  /\ allocating' = allocating \ {p}
  /\ op' = [op EXCEPT ![p].pc = AsksOrWrites(op[p].left - 1), ![p].left = @ - 1,
                      ![p].list = Append(@, op[p].at)]
  /\ UNCHANGED <<bits, mapped, content, files, restarts, unfinished, torn, past>>

-----------------------------------------------------------------------------
(* delete_block_file: the file of each block is removed, then its bit is   *)
(* turned off.  Afterwards the list is empty, and the rest of the file     *)
(* needs blocks again.                                                     *)
RemoveBlock_Late(p) ==
  /\ op[p].pc = "remove"
  /\ content' = IF op[p].k = 1 THEN content
                ELSE [content EXCEPT ![op[p].list[op[p].k - 1]] = "none"]
  /\ op' = [op EXCEPT ![p].pc = "loadOff", ![p].at = op[p].list[op[p].k]]
  /\ UNCHANGED <<bits, mapped, allocating, files, restarts, unfinished, torn, past>>
RemoveBlock(p) ==
  LET block == op[p].list[op[p].k] IN
  /\ op[p].pc = "remove"
  /\ content' = [content EXCEPT ![block] = "none"]
  /\ op' = [op EXCEPT ![p].pc = "loadOff", ![p].at = block]
  /\ UNCHANGED <<bits, mapped, allocating, files, restarts, unfinished, torn, past>>

TurnBitOff(p) ==
  \/ Load(p, "loadOff", "storeOff")
  \/ Store(p, "storeOff", "copyOff", op[p].mem \ {op[p].at})
  \/ Copy(p, "copyOff", "next")

NextBlock_KeepsLast(p) ==
  LET o == op[p]  left == AmountOfBlocks(o.size, [list |-> <<>>, size |-> o.size]) IN
  /\ o.pc = "next"
  /\ op' = [op EXCEPT ![p] =
              IF o.k < Len(o.list) - 1 THEN [o EXCEPT !.pc = "remove", !.k = @ + 1]
              ELSE [Idle EXCEPT !.pc = AsksOrWrites(left), !.size = o.size, !.left = left]]
  /\ UNCHANGED <<bits, mapped, allocating, content, files, restarts, unfinished, torn, past>>
NextBlock(p) ==
  LET o == op[p]  left == AmountOfBlocks(o.size, [list |-> <<>>, size |-> o.size]) IN
  /\ o.pc = "next"
  /\ op' = [op EXCEPT ![p] =
              IF o.k < Len(o.list) THEN [o EXCEPT !.pc = "remove", !.k = @ + 1]
              ELSE [Idle EXCEPT !.pc = AsksOrWrites(left), !.size = o.size, !.left = left]]
  /\ UNCHANGED <<bits, mapped, allocating, content, files, restarts, unfinished, torn, past>>

-----------------------------------------------------------------------------
(* write_blocks, then the metadata, which is removed if nothing is left.   *)
WriteBlocks(p) ==
  /\ Step(p, "write", "save")
  /\ content' = [b \in DOMAIN content |-> IF b \in ToSet(op[p].list) THEN p ELSE content[b]]
  /\ UNCHANGED <<bits, mapped, allocating, files, restarts, unfinished, torn, past>>

SaveMetadata(p) ==
  /\ op[p].pc = "save"
  /\ files' = [files EXCEPT ![p] = [list |-> op[p].list, size |-> op[p].size]]
  /\ op' = [op EXCEPT ![p] = Idle]
  /\ UNCHANGED <<bits, mapped, allocating, content, restarts, unfinished, torn, past>>

(* The mapped file outlives the process, which reads it when it starts. *)
Restart ==
  /\ restarts < MaxRestarts
  /\ restarts' = restarts + 1
  /\ bits' = mapped
  /\ allocating' = {}
  /\ unfinished' = unfinished \cup {p \in Pokemons : op[p].pc # "idle"}
  /\ op' = [p \in Pokemons |-> Idle]
  /\ UNCHANGED <<mapped, content, files, torn, past>>

Operation(p) ==
  \/ AddLine(p) \/ RemoveLine(p) \/ Lock(p) \/ Search(p) \/ TurnBitOn(p) \/ Unlock(p)
  \/ RemoveBlock(p) \/ TurnBitOff(p) \/ NextBlock(p) \/ WriteBlocks(p) \/ SaveMetadata(p)

(* Bound: after a torn byte, or a block that does not exist, nothing is    *)
(* followed, since nothing of the bits can be relied on.                   *)
Sound == ~torn /\ ~past

Next == Sound /\ (Restart \/ \E p \in Pokemons : Operation(p))

Spec == Init /\ [][Next]_vars
-----------------------------------------------------------------------------
OpRecords ==
  [pc : {"idle", "lock", "search", "loadOn", "storeOn", "copyOn", "unlock", "remove",
         "loadOff", "storeOff", "copyOff", "next", "write", "save"},
   list : Seq(0 .. MaxBit + 1), size : Nat, left : Nat, k : Nat \ {0},
   at : 0 .. MaxBit + 1, mem : SUBSET (0 .. MaxBit - 1)]

TypeOK ==
  /\ {bits, mapped} \subseteq SUBSET (0 .. MaxBit - 1)
  /\ allocating \subseteq Pokemons /\ unfinished \subseteq Pokemons
  /\ content \in [0 .. MaxBit + 1 -> Pokemons \cup {"none"}]
  /\ files \in [Pokemons -> [list : Seq(0 .. MaxBit + 1), size : Nat]]
  /\ op \in [Pokemons -> OpRecords]
  /\ restarts \in 0 .. MaxRestarts
  /\ {torn, past} \subseteq BOOLEAN

(* The blocks that are a file's, in its metadata or in the hands of the    *)
(* operation on it.                                                        *)
GivesBack == {"remove", "loadOff", "storeOff"}
GaveBack == {"copyOff", "next"}
From(list, k) == {list[i] : i \in k .. Len(list)}
HeldOf(o, file) ==
  CASE o.pc = "idle" -> ToSet(file.list)
    [] o.pc \in GivesBack -> From(o.list, o.k)
    [] o.pc \in GaveBack -> From(o.list, o.k + 1)
    [] o.pc \in {"copyOn", "unlock"} -> ToSet(o.list) \cup {o.at}
    [] OTHER -> ToSet(o.list)
Held(p) == HeldOf(op[p], files[p])

Alive == Pokemons \ unfinished

(* A block belongs to one file, whichever operations ask for blocks and    *)
(* give them back at once, and wherever the process was killed; only files *)
(* whose operation was killed may share theirs, and those stay closed.     *)
(* The two ways in which this fails are known: a byte changed by two at    *)
(* once, since blocks are given back without mutexBitArray, and a search   *)
(* that finds no free block and gives one that does not exist.             *)
OneOwner ==
  Sound => \A p, q \in Alive : p # q => Held(p) \cap Held(q) = {}

(* The bits are those of the blocks that files hold: none of a live file   *)
(* looks free, and none is lost but to a restart.                          *)
BitsOfHeldBlocks ==
  Sound =>
    /\ \A p \in Alive : Held(p) \subseteq bits
    /\ restarts = 0 => bits \subseteq UNION {Held(p) : p \in Pokemons}

(* A file at rest keeps its data: its blocks have what was written to them *)
(* for it, while other operations remove block files and write others.     *)
ContentKept ==
  Sound => \A p \in Alive : op[p].pc = "idle" =>
             \A b \in ToSet(files[p].list) : content[b] = p

(* Every block of a file at rest is taken in the mapped file too, so that  *)
(* a restart at any moment does not give it to somebody else.              *)
MappedHasFiles ==
  Sound => \A p \in Alive : op[p].pc = "idle" => ToSet(files[p].list) \subseteq mapped

(* A file has the blocks that its size needs, and no more, through any     *)
(* sequence of lines added and taken away.                                 *)
BlocksFitSize ==
  \A p \in Pokemons :
    LET blocks == Len(files[p].list) * BlockSize IN
    files[p].size <= blocks /\ blocks < files[p].size + BlockSize
=============================================================================

---------------------------- MODULE MessageStore ----------------------------
(***************************************************************************)
(* What the message cache promises to the broker: it keeps messages until  *)
(* room is needed for another one, gives them back as they were saved, and *)
(* under FIFO replacement gives up the oldest first.  How the memory is    *)
(* divided, searched and compacted does not show.  CacheMemory implements  *)
(* this specification.                                                     *)
(***************************************************************************)
EXTENDS Integers, FiniteSetsExt

CONSTANTS
  Capacity,   \* the bytes there are
  Lens,       \* the sizes a message may have
  NMessages,  \* bound: how many messages are saved
  Fifo        \* the oldest message is the one given up

NoMessage == 0

VARIABLES
  stored,     \* message -> [len, content]: what can be read back
  saving,     \* the message being saved, NoMessage when there is none
  lastSaved   \* the last message that was given to save

vars == <<stored, saving, lastSaved>>

Init == /\ stored = [m \in {} |-> [len |-> 0, content |-> NoMessage]]
        /\ saving = NoMessage
        /\ lastSaved = 0

(* Bytes the stored messages need. *)
Occupied(s) == MapThenSumSet(LAMBDA m : s[m].len, DOMAIN s)

Begin == /\ saving = NoMessage
         /\ lastSaved < NMessages
         /\ lastSaved' = lastSaved + 1
         /\ saving' = lastSaved + 1
         /\ UNCHANGED stored

(* Messages are given up only to make room for another one. *)
GiveUp(m) == /\ saving # NoMessage
             /\ Fifo => \A n \in DOMAIN stored : m <= n
             /\ stored' = [n \in DOMAIN stored \ {m} |-> stored[n]]
             /\ UNCHANGED <<saving, lastSaved>>

(* What is stored is the content that was given, and it all fits. *)
Finish == /\ saving # NoMessage
          /\ \E len \in Lens :
               stored' = [n \in DOMAIN stored \cup {saving} |->
                            IF n = saving THEN [len |-> len, content |-> saving]
                            ELSE stored[n]]
          /\ Occupied(stored') <= Capacity
          /\ saving' = NoMessage
          /\ UNCHANGED lastSaved

Next == Begin \/ Finish \/ \E m \in DOMAIN stored : GiveUp(m)

Spec == Init /\ [][Next]_vars
=============================================================================

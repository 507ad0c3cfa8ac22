---------------------------- MODULE MCCacheMemory ----------------------------
(* CacheMemory for TLC, and the specification it implements. *)
EXTENDS CacheMemory

(* What a reader gets for message m: the message, if every byte of it is   *)
(* still there.                                                            *)
ContentOf(m) ==
  LET begin == parts[cached[m].part].begin
  IN  IF \A a \in begin .. begin + cached[m].len - 1 : a \in Addresses /\ bytes[a] = m
      THEN m ELSE NoMessage

Store == INSTANCE MessageStore WITH
  Capacity <- MemorySize,
  stored   <- [m \in DOMAIN cached |-> [len |-> cached[m].len, content |-> ContentOf(m)]],
  saving   <- save.msg

(* The cache implements MessageStore: reads always give back what was      *)
(* saved, messages go only while room is made for another, under FIFO the  *)
(* oldest first, and what is kept never exceeds the memory.                *)
ImplementsStore == Store!Spec
=============================================================================

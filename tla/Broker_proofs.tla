----------------------------- MODULE Broker_proofs -----------------------------
(***************************************************************************)
(* Theorems about Broker, for any queues and any numbers of clients.       *)
(***************************************************************************)
EXTENDS Broker, FiniteSetTheorems, TLAPS

Packages == Requests \cup {Acknowledge(m) : m \in Nat}
ServePcs == {"none", "read", "lock", "list", "map", "walk", "take", "remove", "close", "done", "crashed"}
SenderPcs == {"get", "send", "note", "wait", "receive", "remove", "close", "done"}

Served == [pc : ServePcs, package : Packages, msg : Nat, i : Nat, listed : SUBSET Nat]
Sent == [msg : Nat, fd : Fds, at : 0 .. NConns, for : 0 .. NConns, pc : SenderPcs]
Ids == Nat \X {"newSubscriber", "newMessage"} \X Nat

Types ==
  /\ fdOf \in Seq(Fds) /\ Len(fdOf) <= NConns
  /\ sockets \in [Fds -> 0 .. Len(fdOf)]
  /\ open \subseteq Accepted
  /\ inbox \in [Conns -> Seq(Packages)]
  /\ toAck \in [Conns -> Seq(Nat)]
  /\ serving \in [Conns -> Served]
  /\ ID \in Nat
  /\ suscriptors \in [Queues -> Seq(Fds)]
  /\ DOMAIN cached \subseteq 1 .. ID
  /\ DOMAIN senders \subseteq Ids
  /\ senders \in [DOMAIN senders -> Sent]

(* No more connections than clients of each kind. *)
OfKind(op) == {j \in Accepted : request[j].op = op}
Kinds == {"SUBSCRIPTION", "MESSAGE", "NOTHING"}
CountInv ==
  /\ request \in [Conns -> Requests]
  /\ \A op \in Kinds : Cardinality(OfKind(op)) <= Bound(op)

FirstIn(fds, k) == \A j \in 1 .. k - 1 : fds[j] # fds[k]

(* A descriptor is open on the last connection that was given it. *)
SocketInv ==
  \A fd \in Fds : sockets[fd] # None =>
    /\ sockets[fd] \in Accepted /\ fdOf[sockets[fd]] = fd
    /\ \A j \in Accepted : fdOf[j] = fd => j <= sockets[fd]

(* One thread at most is in recive_message. *)
Handling == {"list", "map", "walk", "take"}
HandlerInv ==
  /\ \A j, k \in Conns : serving[j].pc \in Handling /\ serving[k].pc \in Handling => j = k
  /\ \A k \in Conns : /\ serving[k].pc # "none" => k \in Accepted
                      /\ serving[k].pc \in Handling => QueueOf(k) \in Queues
                      /\ serving[k].pc = "map" => serving[k].listed \subseteq DOMAIN cached
                      /\ serving[k].pc # "map" => serving[k].listed = {}

(* A descriptor in a list was put there by a connection that had it, and   *)
(* one of a first connection that is still open only once.                 *)
Listed == {"list", "map", "done"}
ListInv ==
  \A q \in Queues : \A i \in DOMAIN suscriptors[q] :
    LET fd == suscriptors[q][i] IN
    /\ \E j \in Conns : j \in Accepted /\ fdOf[j] = fd /\ serving[j].pc \in Listed
    /\ sockets[fd] # None /\ FirstIn(fdOf, sockets[fd]) =>
         \A n \in DOMAIN suscriptors[q] : suscriptors[q][n] = fd => n = i

(* Whom a sender thread was started for, and by whom. *)
SenderInv ==
  \A s \in DOMAIN senders :
    LET k == senders[s].for IN
    /\ senders[s].msg = s[1] /\ s[1] <= ID
    /\ k # None => k \in Accepted /\ fdOf[k] = senders[s].fd
    /\ s[2] = "newSubscriber" =>
         /\ s[3] \in Conns /\ s[3] \in Accepted /\ serving[s[3]].pc = "done"
         /\ fdOf[s[3]] = senders[s].fd
         /\ k # None => s[3] <= k
    /\ s[2] = "newMessage" /\ k # None /\ FirstIn(fdOf, k) =>
         /\ k \in Conns /\ serving[k].pc = "done"
         /\ <<s[1], "newSubscriber", k>> \notin DOMAIN senders

(* The walk over a list leaves behind whom it has served.  An entry that   *)
(* moves, because one before it is removed, moves towards the beginning.   *)
WalkInv ==
  \A k \in Conns : serving[k].pc \in {"walk", "take"} =>
    /\ serving[k].msg <= ID /\ serving[k].i >= 1
    /\ \A s \in DOMAIN senders : s[1] = serving[k].msg =>
         /\ s[2] = "newMessage" /\ s[3] < serving[k].i
         /\ LET for == senders[s].for IN
            for # None /\ FirstIn(fdOf, for) /\ sockets[fdOf[for]] = for =>
              \A n \in DOMAIN suscriptors[QueueOf(k)] :
                suscriptors[QueueOf(k)][n] = fdOf[for] => n < serving[k].i

Once ==
  \A s, t \in DOMAIN senders :
    /\ s[2] = "newMessage" /\ t[2] = "newMessage" /\ s # t /\ s[1] = t[1]
    /\ senders[s].for # None /\ FirstIn(fdOf, senders[s].for)
    => senders[s].for # senders[t].for

IInv == Types /\ CountInv /\ SocketInv /\ HandlerInv /\ ListInv /\ SenderInv /\ WalkInv /\ Once

-----------------------------------------------------------------------------
(* Lemmas about the operators.                                             *)

LEMMA Bounds ==
  /\ NSubscribers \in Nat /\ NMessages \in Nat /\ NSilent \in Nat /\ NConns \in Nat
  /\ Bound("SUBSCRIPTION") = NSubscribers
  /\ Bound("MESSAGE") = NMessages
  /\ Bound("NOTHING") = NSilent
BY BrokerAssumption DEF NConns, Bound

LEMMA RequestKinds ==
  /\ \A r \in Requests : r.op \in Kinds
  /\ \A r \in Requests \cup {Acknowledge(m) : m \in Nat} :
       r.op \in {"SUBSCRIPTION", "MESSAGE"} => r.arg \in Queues
BY DEF Requests, Kinds, Subscription, Message, Nothing, Acknowledge

(* There is a connection for every client that the bounds let come. *)
LEMMA RoomForOneMore ==
  ASSUME Types, CountInv, NEW op \in Kinds, Cardinality(OfKind(op)) < Bound(op)
  PROVE  Len(fdOf) + 1 \in Conns
<1> DEFINE A == OfKind("SUBSCRIPTION")
           B == OfKind("MESSAGE")
           C == OfKind("NOTHING")
<1>1. Len(fdOf) \in Nat /\ Accepted = 1 .. Len(fdOf)
  BY DEF Types, Accepted
<1>2. IsFiniteSet(Accepted) /\ Cardinality(Accepted) = Len(fdOf)
  <2> DEFINE n == Len(fdOf)
  <2> HIDE DEF n
  <2>1. n \in Nat /\ Accepted = 1 .. n
    BY <1>1 DEF n
  <2>2. IsFiniteSet(1 .. n) /\ Cardinality(1 .. n) = n
    BY <2>1, FS_Interval
  <2> QED BY <2>1, <2>2 DEF n
<1>3. /\ A \in SUBSET Accepted /\ B \in SUBSET Accepted /\ C \in SUBSET Accepted
  BY DEF OfKind
<1>4. Accepted = (A \cup B) \cup C
  <2>1. \A j \in Accepted : request[j].op \in Kinds
    <3>1. Accepted \subseteq Conns
      BY <1>1, Bounds DEF Types, Conns
    <3> QED BY <3>1, RequestKinds DEF CountInv
  <2> QED BY <1>3, <2>1 DEF OfKind, Kinds
<1> HIDE DEF A, B, C
<1>5. IsFiniteSet(A) /\ IsFiniteSet(B) /\ IsFiniteSet(C) /\ IsFiniteSet(A \cup B)
      /\ IsFiniteSet(A \cap B) /\ IsFiniteSet((A \cup B) \cap C)
  BY <1>2, <1>3, FS_Subset
<1>6. /\ Cardinality(A) \in Nat /\ Cardinality(B) \in Nat /\ Cardinality(C) \in Nat
      /\ Cardinality(A \cup B) \in Nat /\ Cardinality(A \cap B) \in Nat
      /\ Cardinality((A \cup B) \cap C) \in Nat
  BY <1>5, FS_CardinalityType
<1>7. /\ Cardinality(A \cup B) = Cardinality(A) + Cardinality(B) - Cardinality(A \cap B)
      /\ Cardinality(Accepted) = Cardinality(A \cup B) + Cardinality(C) - Cardinality((A \cup B) \cap C)
  BY <1>4, <1>5, FS_Union
<1>8. Len(fdOf) <= Cardinality(A) + Cardinality(B) + Cardinality(C)
  BY <1>2, <1>6, <1>7
<1>9. /\ Cardinality(A) <= NSubscribers /\ Cardinality(B) <= NMessages /\ Cardinality(C) <= NSilent
      /\ \/ Cardinality(A) < NSubscribers \/ Cardinality(B) < NMessages \/ Cardinality(C) < NSilent
  BY Bounds DEF CountInv, Kinds, A, B, C
<1>10. Len(fdOf) < NSubscribers + NMessages + NSilent
  BY <1>1, <1>6, <1>8, <1>9, Bounds
<1> QED BY <1>1, <1>10, Bounds DEF Conns, NConns

(* Removing the first entry moves those behind it by one. *)
OldPlace(a, i) == IF i < a THEN i ELSE i + 1
Shortened(new, list) ==
  \E a \in Nat : \A i \in DOMAIN new :
    OldPlace(a, i) \in DOMAIN list /\ new[i] = list[OldPlace(a, i)]

LEMMA RemoveFirstShortens ==
  ASSUME NEW list \in Seq(Fds), NEW fd
  PROVE  RemoveFirst(list, fd) \in Seq(Fds) /\ Shortened(RemoveFirst(list, fd), list)
<1> DEFINE At == {i \in 1 .. Len(list) : list[i] = fd /\ \A j \in 1 .. i - 1 : list[j] # fd}
<1>1. Len(list) \in Nat
  OBVIOUS
<1>2. RemoveFirst(list, fd) =
        [i \in 1 .. Len(list) - Cardinality(At) |->
           IF \E j \in At : j <= i THEN list[i + 1] ELSE list[i]]
  BY DEF RemoveFirst
<1>3. CASE At = {}
  <2>1. Cardinality(At) = 0
    BY <1>3, FS_EmptySet
  <2>2. RemoveFirst(list, fd) = [i \in 1 .. Len(list) |-> list[i]]
    BY <1>1, <1>2, <1>3, <2>1
  <2>3. \A i \in DOMAIN RemoveFirst(list, fd) :
          OldPlace(Len(list) + 1, i) \in DOMAIN list /\ RemoveFirst(list, fd)[i] = list[OldPlace(Len(list) + 1, i)]
    BY <1>1, <2>2 DEF OldPlace
  <2>4. RemoveFirst(list, fd) \in Seq(Fds)
    BY <1>1, <2>2
  <2>5. Len(list) + 1 \in Nat
    BY <1>1
  <2> QED BY <2>3, <2>4, <2>5 DEF Shortened
<1>4. CASE At # {}
  <2>1. PICK a \in At : TRUE
    BY <1>4
  <2>2. a \in 1 .. Len(list) /\ At = {a}
    BY <1>1, <2>1
  <2>3. Cardinality(At) = 1
    BY <2>2, FS_Singleton
  <2>4. RemoveFirst(list, fd) = [i \in 1 .. Len(list) - 1 |-> IF a <= i THEN list[i + 1] ELSE list[i]]
    BY <1>2, <2>2, <2>3
  <2> HIDE DEF At
  <2>5. \A i \in DOMAIN RemoveFirst(list, fd) :
          OldPlace(a, i) \in DOMAIN list /\ RemoveFirst(list, fd)[i] = list[OldPlace(a, i)]
    BY <1>1, <2>2, <2>4 DEF OldPlace
  <2>6. RemoveFirst(list, fd) \in Seq(Fds)
    <3>1. \A i \in 1 .. Len(list) - 1 : (IF a <= i THEN list[i + 1] ELSE list[i]) \in Fds
      BY <1>1, <2>2
    <3>2. Len(list) - 1 \in Nat
      BY <1>1, <2>2
    <3> QED BY <2>4, <3>1, <3>2
  <2> QED BY <2>2, <2>5, <2>6 DEF Shortened
<1> QED BY <1>3, <1>4

(* Starting threads. *)
LEMMA StartedThreads ==
  ASSUME Types, NEW ids \in SUBSET Ids, NEW fd \in Fds, senders' = Started(ids, fd)
  PROVE  /\ DOMAIN senders' = DOMAIN senders \cup ids
         /\ senders' \in [DOMAIN senders' -> Sent]
         /\ DOMAIN senders' \subseteq Ids
         /\ \A s \in ids : senders'[s] = Sender(s[1], fd)
         /\ \A s \in DOMAIN senders \ ids : senders'[s] = senders[s]
<1>1. \A s \in ids : Sender(s[1], fd) \in Sent
  <2>1. sockets[fd] \in 0 .. NConns /\ 0 \in 0 .. NConns
    BY Bounds DEF Types
  <2>2. \A s \in ids : s[1] \in Nat
    BY DEF Ids
  <2> QED BY <2>1, <2>2 DEF Sender, Sent, SenderPcs, None
<1> QED BY <1>1 DEF Started, Types

-----------------------------------------------------------------------------
(* Most steps leave what the invariant speaks of alone, or take from it: a *)
(* descriptor is closed, an entry of the lists removed, a thread goes on.  *)

Rest == CountInv /\ SocketInv /\ HandlerInv /\ ListInv /\ SenderInv /\ WalkInv /\ Once

LessSockets == \A fd \in Fds : sockets'[fd] \in {sockets[fd], None}
LessLists == \A q \in Queues : suscriptors'[q] \in Seq(Fds) /\ Shortened(suscriptors'[q], suscriptors[q])
QuietThreads ==
  \A j \in Conns :
    /\ serving[j].pc \in {"none", "list", "map", "done"} => serving'[j] = serving[j]
    /\ serving[j].pc \notin {"none", "list", "map", "done"} =>
         serving'[j].pc \notin {"none", "list", "map"}
    /\ serving'[j].pc \in {"walk", "take"} =>
         /\ serving[j].pc \in {"walk", "take"} /\ serving'[j].package = serving[j].package
         /\ serving'[j].msg = serving[j].msg /\ serving'[j].i = serving[j].i
    /\ serving'[j].listed = serving[j].listed
SameSenders ==
  /\ DOMAIN senders' = DOMAIN senders
  /\ senders' \in [DOMAIN senders -> Sent]
  /\ \A s \in DOMAIN senders :
       /\ senders'[s].msg = senders[s].msg /\ senders'[s].fd = senders[s].fd
       /\ senders'[s].for = senders[s].for

LEMMA Frame ==
  ASSUME Types, Rest, LessSockets, LessLists, QuietThreads, SameSenders,
         UNCHANGED <<fdOf, request, ID>>, DOMAIN cached' = DOMAIN cached
  PROVE  Rest'
<1>1. Accepted' = Accepted
  BY DEF Accepted
<1>2. CountInv'
  BY DEF Rest, CountInv, OfKind, Accepted
<1>3. SocketInv'
  BY <1>1 DEF Rest, SocketInv, LessSockets
<1>4. HandlerInv'
  BY <1>1 DEF Rest, HandlerInv, QuietThreads, Handling, QueueOf
<1>5. \A q \in Queues : \A i \in DOMAIN suscriptors'[q] :
        \E old \in DOMAIN suscriptors[q] :
          /\ suscriptors'[q][i] = suscriptors[q][old] /\ i <= old
          /\ \A n \in DOMAIN suscriptors'[q] : n # i =>
               \E m \in DOMAIN suscriptors[q] : suscriptors'[q][n] = suscriptors[q][m] /\ m # old
  <2>1. SUFFICES ASSUME NEW q \in Queues, NEW i \in DOMAIN suscriptors'[q]
                 PROVE  \E old \in DOMAIN suscriptors[q] :
                          /\ suscriptors'[q][i] = suscriptors[q][old] /\ i <= old
                          /\ \A n \in DOMAIN suscriptors'[q] : n # i =>
                               \E m \in DOMAIN suscriptors[q] : suscriptors'[q][n] = suscriptors[q][m] /\ m # old
    OBVIOUS
  <2>2. PICK a \in Nat : \A j \in DOMAIN suscriptors'[q] :
          OldPlace(a, j) \in DOMAIN suscriptors[q] /\ suscriptors'[q][j] = suscriptors[q][OldPlace(a, j)]
    BY DEF LessLists, Shortened
  <2>3. \A j \in DOMAIN suscriptors'[q] : j \in Nat
    BY DEF LessLists
  <2>4. /\ i <= OldPlace(a, i)
        /\ \A n \in DOMAIN suscriptors'[q] : n # i => OldPlace(a, n) # OldPlace(a, i)
    BY <2>2, <2>3 DEF OldPlace
  <2> QED BY <2>2, <2>4
<1>6. ListInv'
  <2>1. SUFFICES ASSUME NEW q \in Queues, NEW i \in DOMAIN suscriptors'[q],
                        NEW fd, fd = suscriptors'[q][i]
                 PROVE  /\ \E j \in Conns : j \in Accepted /\ fdOf[j] = fd /\ serving'[j].pc \in Listed
                        /\ sockets'[fd] # None /\ FirstIn(fdOf, sockets'[fd]) =>
                             \A n \in DOMAIN suscriptors'[q] : suscriptors'[q][n] = fd => n = i
    BY <1>1 DEF ListInv
  <2>2. PICK old \in DOMAIN suscriptors[q] :
          /\ fd = suscriptors[q][old]
          /\ \A n \in DOMAIN suscriptors'[q] : n # i =>
               \E m \in DOMAIN suscriptors[q] : suscriptors'[q][n] = suscriptors[q][m] /\ m # old
    BY <1>5, <2>1
  <2>3. PICK j \in Conns : j \in Accepted /\ fdOf[j] = fd /\ serving[j].pc \in Listed
    BY <2>2 DEF Rest, ListInv
  <2>4. serving'[j].pc \in Listed
    BY <2>3 DEF QuietThreads, Listed
  <2>5. sockets'[fd] # None => sockets'[fd] = sockets[fd]
    <3>1. fd \in Fds
      BY <2>1 DEF LessLists
    <3> QED BY <3>1 DEF LessSockets
  <2>6. sockets[fd] # None /\ FirstIn(fdOf, sockets[fd]) =>
          \A n \in DOMAIN suscriptors[q] : suscriptors[q][n] = fd => n = old
    BY <2>2 DEF Rest, ListInv
  <2> QED BY <2>2, <2>3, <2>4, <2>5, <2>6
<1>7. SenderInv'
  BY <1>1 DEF Rest, SenderInv, SameSenders, QuietThreads
<1>8. WalkInv'
  <2>1. SUFFICES ASSUME NEW k \in Conns, serving'[k].pc \in {"walk", "take"}
                 PROVE  /\ serving'[k].msg <= ID /\ serving'[k].i >= 1
                        /\ \A s \in DOMAIN senders : s[1] = serving'[k].msg =>
                             /\ s[2] = "newMessage" /\ s[3] < serving'[k].i
                             /\ LET for == senders[s].for IN
                                for # None /\ FirstIn(fdOf, for) /\ sockets'[fdOf[for]] = for =>
                                  \A n \in DOMAIN suscriptors'[QueueOf(k)'] :
                                    suscriptors'[QueueOf(k)'][n] = fdOf[for] => n < serving'[k].i
    BY <1>1 DEF WalkInv, SameSenders
  <2>2. /\ serving[k].pc \in {"walk", "take"} /\ QueueOf(k)' = QueueOf(k)
        /\ serving'[k].msg = serving[k].msg /\ serving'[k].i = serving[k].i
        /\ serving[k].i \in Nat /\ QueueOf(k) \in Queues
    BY <2>1 DEF QuietThreads, QueueOf, Types, Served, Rest, HandlerInv, Handling
  <2>3. ASSUME NEW s \in DOMAIN senders, s[1] = serving[k].msg,
               NEW for, for = senders[s].for, for # None, FirstIn(fdOf, for),
               sockets'[fdOf[for]] = for,
               NEW n \in DOMAIN suscriptors'[QueueOf(k)], suscriptors'[QueueOf(k)][n] = fdOf[for]
        PROVE  n < serving[k].i
    <3>1. PICK old \in DOMAIN suscriptors[QueueOf(k)] :
            suscriptors[QueueOf(k)][old] = fdOf[for] /\ n <= old
      BY <1>5, <2>2, <2>3
    <3>2. fdOf[for] \in Fds
      BY <2>2, <3>1 DEF Types
    <3>3. sockets[fdOf[for]] = for
      BY <2>3, <3>2 DEF LessSockets
    <3>4. old < serving[k].i
      BY <2>2, <2>3, <3>1, <3>3 DEF Rest, WalkInv
    <3>5. n \in Nat /\ old \in Nat
      <4>1. suscriptors'[QueueOf(k)] \in Seq(Fds) /\ suscriptors[QueueOf(k)] \in Seq(Fds)
        BY <2>2 DEF LessLists, Types
      <4> QED BY <2>3, <3>1, <4>1
    <3> QED BY <2>2, <3>1, <3>4, <3>5
  <2> QED BY <2>2, <2>3 DEF Rest, WalkInv
<1>9. Once'
  BY <1>1 DEF Rest, Once, SameSenders
<1> QED BY <1>2, <1>3, <1>4, <1>6, <1>7, <1>8, <1>9 DEF Rest

LEMMA SameLists ==
  ASSUME Types, UNCHANGED suscriptors
  PROVE  LessLists
<1>1. SUFFICES ASSUME NEW q \in Queues PROVE suscriptors[q] \in Seq(Fds) /\ Shortened(suscriptors[q], suscriptors[q])
  BY DEF LessLists
<1>2. suscriptors[q] \in Seq(Fds)
  BY DEF Types
<1>3. Len(suscriptors[q]) + 1 \in Nat /\ DOMAIN suscriptors[q] = 1 .. Len(suscriptors[q])
  BY <1>2
<1>4. \A i \in DOMAIN suscriptors[q] : OldPlace(Len(suscriptors[q]) + 1, i) = i
  BY <1>3 DEF OldPlace
<1> QED BY <1>2, <1>3, <1>4 DEF Shortened

LEMMA RemovedFromLists ==
  ASSUME Types, NEW fd, RemoveFromQueues(fd)
  PROVE  LessLists /\ suscriptors' \in [Queues -> Seq(Fds)]
<1>1. suscriptors' = [q \in Queues |-> RemoveFirst(suscriptors[q], fd)]
  BY DEF RemoveFromQueues
<1>2. \A q \in Queues : /\ RemoveFirst(suscriptors[q], fd) \in Seq(Fds)
                        /\ Shortened(RemoveFirst(suscriptors[q], fd), suscriptors[q])
  BY RemoveFirstShortens DEF Types
<1> QED BY <1>1, <1>2 DEF LessLists

LEMMA WentOn ==
  ASSUME Types, NEW s \in DOMAIN senders, NEW pc \in SenderPcs, senders' = Goto(s, pc)
  PROVE  SameSenders
BY DEF Types, Sent, Goto, SameSenders

-----------------------------------------------------------------------------
(* The sender threads. *)

LEMMA SameThreads == ASSUME UNCHANGED serving PROVE QuietThreads
BY DEF QuietThreads

LEMMA SameSockets == ASSUME UNCHANGED sockets PROVE LessSockets
BY DEF LessSockets

LEMMA SenderGetKeeps ==
  ASSUME Types, Rest, NEW s \in DOMAIN senders, SenderGet(s)
  PROVE  Types' /\ Rest'
<1>1. UNCHANGED <<fdOf, sockets, clientVars, inbox, serving, ID, suscriptors, cached>>
  BY DEF SenderGet
<1>2. SameSenders
  BY WentOn DEF SenderGet, SenderPcs
<1>3. Types'
  BY <1>1, <1>2 DEF Types, SameSenders, clientVars, Accepted
<1> QED BY <1>1, <1>2, <1>3, Frame, SameLists, SameThreads, SameSockets DEF clientVars

LEMMA SenderSendKeeps ==
  ASSUME Types, Rest, NEW s \in DOMAIN senders, SenderSend(s)
  PROVE  Types' /\ Rest'
<1>1. UNCHANGED <<fdOf, sockets, open, request, inbox, serving, ID, suscriptors, cached>>
  BY DEF SenderSend
<1>2. SameSenders
  BY WentOn DEF SenderSend, SenderPcs
<1>3. toAck' \in [Conns -> Seq(Nat)]
  <2>1. senders[s].msg \in Nat
    BY DEF Types, Sent
  <2>2. ASSUME NEW k, toAck' = [toAck EXCEPT ![k] = Append(@, senders[s].msg)]
        PROVE  toAck' \in [Conns -> Seq(Nat)]
    <3>1. \A c \in Conns : Append(toAck[c], senders[s].msg) \in Seq(Nat)
      BY <2>1 DEF Types
    <3> QED BY <2>2, <3>1 DEF Types
  <2> QED BY <2>2 DEF SenderSend, Types
<1>4. Types'
  BY <1>1, <1>2, <1>3 DEF Types, SameSenders, Accepted
<1> QED BY <1>1, <1>2, <1>4, Frame, SameLists, SameThreads, SameSockets

LEMMA SenderNoteKeeps ==
  ASSUME Types, Rest, NEW s \in DOMAIN senders, SenderNote(s)
  PROVE  Types' /\ Rest'
<1>1. /\ UNCHANGED <<fdOf, sockets, clientVars, inbox, serving, ID, suscriptors>>
      /\ DOMAIN cached' = DOMAIN cached
  BY DEF SenderNote
<1>2. SameSenders
  BY WentOn DEF SenderNote, SenderPcs
<1>3. Types'
  BY <1>1, <1>2 DEF Types, SameSenders, clientVars, Accepted
<1> QED BY <1>1, <1>2, <1>3, Frame, SameLists, SameThreads, SameSockets DEF clientVars

LEMMA SenderWaitKeeps ==
  ASSUME Types, Rest, NEW s \in DOMAIN senders, SenderWait(s)
  PROVE  Types' /\ Rest'
<1>1. UNCHANGED <<fdOf, sockets, clientVars, inbox, serving, ID, suscriptors, cached>>
  BY DEF SenderWait
<1>2. SameSenders
  <2>1. CASE senders' = Goto(s, "remove")
    BY <2>1, WentOn DEF SenderPcs
  <2>2. CASE senders' = [senders EXCEPT ![s].pc = "receive", ![s].at = sockets[senders[s].fd]]
    <3>1. sockets[senders[s].fd] \in 0 .. NConns
      BY Bounds DEF Types, Sent
    <3> DEFINE k == sockets[senders[s].fd]
    <3> HIDE DEF k
    <3>2. senders' = [senders EXCEPT ![s].pc = "receive", ![s].at = k] /\ k \in 0 .. NConns
      BY <2>2, <3>1 DEF k
    <3> QED BY <3>2, ZenonT(40) DEF Types, Sent, SenderPcs, SameSenders
  <2> QED BY <2>1, <2>2 DEF SenderWait
<1>3. Types'
  BY <1>1, <1>2 DEF Types, SameSenders, clientVars, Accepted
<1> QED BY <1>1, <1>2, <1>3, Frame, SameLists, SameThreads, SameSockets DEF clientVars

(* Taking a package from a connection. *)
LEMMA Received ==
  ASSUME Types, NEW k \in Conns, inbox[k] # <<>>, inbox' = [inbox EXCEPT ![k] = Tail(@)]
  PROVE  inbox' \in [Conns -> Seq(Packages)] /\ Head(inbox[k]) \in Packages
<1>1. inbox[k] \in Seq(Packages)
  BY DEF Types
<1>2. Tail(inbox[k]) \in Seq(Packages) /\ Head(inbox[k]) \in Packages
  BY <1>1
<1> QED BY <1>2 DEF Types

LEMMA SenderReceiveKeeps ==
  ASSUME Types, Rest, NEW s \in DOMAIN senders, SenderReceive(s)
  PROVE  Types' /\ Rest'
<1>1. /\ UNCHANGED <<fdOf, sockets, clientVars, serving, ID, suscriptors>>
      /\ DOMAIN cached' = DOMAIN cached
  BY DEF SenderReceive, Acknowledged
<1>2. SameSenders
  BY WentOn DEF SenderReceive, SenderPcs, Unexpected
<1>3. inbox' \in [Conns -> Seq(Packages)]
  <2> DEFINE k == senders[s].at
  <2>1. CASE inbox[k] # <<>> /\ inbox' = [inbox EXCEPT ![k] = Tail(@)] /\ k \in Conns
    BY <2>1, Received
  <2>2. CASE inbox' = [inbox EXCEPT ![k] = Tail(@)] /\ k \notin Conns
    BY <2>2 DEF Types
  <2>3. CASE UNCHANGED inbox
    BY <2>3 DEF Types
  <2> QED BY <2>1, <2>2, <2>3 DEF SenderReceive
<1>4. Types'
  BY <1>1, <1>2, <1>3 DEF Types, SameSenders, clientVars, Accepted
<1> QED BY <1>1, <1>2, <1>4, Frame, SameLists, SameThreads, SameSockets DEF clientVars

LEMMA SenderRemoveKeeps ==
  ASSUME Types, Rest, NEW s \in DOMAIN senders, SenderRemove(s)
  PROVE  Types' /\ Rest'
<1>1. UNCHANGED <<fdOf, sockets, clientVars, inbox, serving, ID, cached>>
  BY DEF SenderRemove
<1>2. SameSenders
  BY WentOn DEF SenderRemove, SenderPcs
<1>3. LessLists /\ suscriptors' \in [Queues -> Seq(Fds)]
  BY RemovedFromLists DEF SenderRemove
<1>4. Types'
  BY <1>1, <1>2, <1>3 DEF Types, SameSenders, clientVars, Accepted
<1> QED BY <1>1, <1>2, <1>3, <1>4, Frame, SameThreads, SameSockets DEF clientVars

LEMMA ClosedSocket ==
  ASSUME Types, NEW fd, sockets' = Closed(fd)
  PROVE  LessSockets /\ sockets' \in [Fds -> 0 .. Len(fdOf)]
<1>1. 0 \in 0 .. Len(fdOf)
  BY DEF Types
<1>2. sockets' = [sockets EXCEPT ![fd] = 0]
  BY DEF Closed, None
<1> QED BY <1>1, <1>2 DEF Types, LessSockets, None

LEMMA SenderCloseKeeps ==
  ASSUME Types, Rest, NEW s \in DOMAIN senders, SenderClose(s)
  PROVE  Types' /\ Rest'
<1>1. UNCHANGED <<fdOf, clientVars, inbox, serving, ID, suscriptors, cached>>
  BY DEF SenderClose
<1>2. SameSenders
  BY WentOn DEF SenderClose, SenderPcs
<1>3. LessSockets /\ sockets' \in [Fds -> 0 .. Len(fdOf)]
  BY ClosedSocket DEF SenderClose
<1>4. Types'
  BY <1>1, <1>2, <1>3 DEF Types, SameSenders, clientVars, Accepted
<1> QED BY <1>1, <1>2, <1>3, <1>4, Frame, SameThreads, SameLists DEF clientVars

-----------------------------------------------------------------------------
(* The clients, and the threads that serve them. *)

LEMMA ClientAckKeeps ==
  ASSUME Types, Rest, NEW k \in Conns, ClientAck(k)
  PROVE  Types' /\ Rest'
<1>1. UNCHANGED <<fdOf, sockets, open, request, serving, ID, suscriptors, cached, senders>>
  BY DEF ClientAck
<1>2. toAck[k] \in Seq(Nat) /\ toAck[k] # <<>> /\ inbox[k] \in Seq(Packages)
  BY DEF ClientAck, Types
<1>3. Head(toAck[k]) \in Nat /\ Tail(toAck[k]) \in Seq(Nat)
  BY <1>2
<1>4. Append(inbox[k], Acknowledge(Head(toAck[k]))) \in Seq(Packages)
  <2>1. Acknowledge(Head(toAck[k])) \in Packages
    BY <1>3 DEF Packages
  <2> QED BY <1>2, <2>1
<1>5. inbox' \in [Conns -> Seq(Packages)] /\ toAck' \in [Conns -> Seq(Nat)]
  BY <1>3, <1>4 DEF ClientAck, Types
<1>6. SameSenders
  BY <1>1 DEF SameSenders, Types
<1>7. Types'
  BY <1>1, <1>5 DEF Types, Accepted
<1> QED BY <1>1, <1>6, <1>7, Frame, SameLists, SameThreads, SameSockets

LEMMA ClientCloseKeeps ==
  ASSUME Types, Rest, NEW k \in Conns, ClientClose(k)
  PROVE  Types' /\ Rest'
<1>1. /\ UNCHANGED <<fdOf, sockets, request, inbox, serving, ID, suscriptors, cached, senders>>
      /\ open' \subseteq Accepted
  BY DEF ClientClose, Types
<1>2. toAck' \in [Conns -> Seq(Nat)]
  BY DEF ClientClose, Types
<1>3. SameSenders
  BY <1>1 DEF SameSenders, Types
<1>4. Types'
  BY <1>1, <1>2 DEF Types, Accepted
<1> QED BY <1>1, <1>3, <1>4, Frame, SameLists, SameThreads, SameSockets

(* A thread goes on, neither to a list nor to the end of one. *)
LEMMA QuietStep ==
  ASSUME Types, NEW k \in Conns, NEW pc \in ServePcs, serving' = [serving EXCEPT ![k].pc = pc],
         serving[k].pc \notin {"none", "list", "map", "done"},
         pc \notin {"none", "list", "map"},
         pc \in {"walk", "take"} => serving[k].pc \in {"walk", "take"}
  PROVE  QuietThreads /\ serving' \in [Conns -> Served]
BY DEF Types, Served, QuietThreads

LEMMA ServeReadKeeps ==
  ASSUME Types, Rest, NEW k \in Conns, ServeRead(k)
  PROVE  Types' /\ Rest'
<1>1. UNCHANGED <<fdOf, sockets, clientVars, ID, suscriptors, cached, senders>>
  BY DEF ServeRead
<1>2. SameSenders
  BY <1>1 DEF SameSenders, Types
<1>3. inbox' \in [Conns -> Seq(Packages)] /\ QuietThreads /\ serving' \in [Conns -> Served]
  <2> DEFINE at == sockets[fdOf[k]]
  <2>1. CASE /\ at # None /\ inbox[at] # <<>>
             /\ serving' = [serving EXCEPT ![k].pc = "lock", ![k].package = Head(inbox[at])]
             /\ inbox' = [inbox EXCEPT ![at] = Tail(@)]
    <3>1. at \in Conns
      <4>1. fdOf[k] \in Fds
        BY DEF ServeRead, Types, Accepted
      <4>2. at \in 0 .. Len(fdOf)
        BY <4>1 DEF Types
      <4> QED BY <2>1, <4>2, Bounds DEF Types, Conns, None
    <3>2. inbox' \in [Conns -> Seq(Packages)] /\ Head(inbox[at]) \in Packages
      BY <2>1, <3>1, Received
    <3> DEFINE package == Head(inbox[at])
    <3>3. serving' = [serving EXCEPT ![k].pc = "lock", ![k].package = package] /\ package \in Packages
      BY <2>1, <3>2
    <3> HIDE DEF package
    <3>4. serving[k].pc = "read"
      BY DEF ServeRead
    <3> QED BY <3>2, <3>3, <3>4, ZenonT(40) DEF Types, Served, ServePcs, QuietThreads
  <2>2. CASE serving' = [serving EXCEPT ![k].pc = "remove"] /\ UNCHANGED inbox
    BY <2>2, QuietStep DEF ServeRead, ServePcs, Types
  <2>3. CASE serving' = [serving EXCEPT ![k].pc = "done"] /\ UNCHANGED inbox
    BY <2>3, QuietStep DEF ServeRead, ServePcs, Types
  <2> QED BY <2>1, <2>2, <2>3 DEF ServeRead
<1>4. Types'
  BY <1>1, <1>3 DEF Types, clientVars, Accepted
<1> QED BY <1>1, <1>2, <1>3, <1>4, Frame, SameLists, SameSockets DEF clientVars

LEMMA ServeRemoveKeeps ==
  ASSUME Types, Rest, NEW k \in Conns, ServeRemove(k)
  PROVE  Types' /\ Rest'
<1>1. UNCHANGED <<fdOf, sockets, clientVars, inbox, ID, cached, senders>>
  BY DEF ServeRemove
<1>2. SameSenders
  BY <1>1 DEF SameSenders, Types
<1>3. QuietThreads /\ serving' \in [Conns -> Served]
  BY QuietStep DEF ServeRemove, ServePcs
<1>4. LessLists /\ suscriptors' \in [Queues -> Seq(Fds)]
  BY RemovedFromLists DEF ServeRemove
<1>5. Types'
  BY <1>1, <1>3, <1>4 DEF Types, clientVars, Accepted
<1> QED BY <1>1, <1>2, <1>3, <1>4, <1>5, Frame, SameSockets DEF clientVars

LEMMA ServeCloseKeeps ==
  ASSUME Types, Rest, NEW k \in Conns, ServeClose(k)
  PROVE  Types' /\ Rest'
<1>1. UNCHANGED <<fdOf, clientVars, inbox, ID, suscriptors, cached, senders>>
  BY DEF ServeClose
<1>2. SameSenders
  BY <1>1 DEF SameSenders, Types
<1>3. QuietThreads /\ serving' \in [Conns -> Served]
  BY QuietStep DEF ServeClose, ServePcs
<1>4. LessSockets /\ sockets' \in [Fds -> 0 .. Len(fdOf)]
  BY ClosedSocket DEF ServeClose
<1>5. Types'
  BY <1>1, <1>3, <1>4 DEF Types, clientVars, Accepted
<1> QED BY <1>1, <1>2, <1>3, <1>4, <1>5, Frame, SameLists DEF clientVars

LEMMA GetAcknowledgeKeeps ==
  ASSUME Types, Rest, NEW k \in Conns, GetAcknowledge(k)
  PROVE  Types' /\ Rest'
<1>1. UNCHANGED <<fdOf, sockets, clientVars, inbox, ID, suscriptors, cached, senders>>
  BY DEF GetAcknowledge
<1>2. SameSenders
  BY <1>1 DEF SameSenders, Types
<1>3. QuietThreads /\ serving' \in [Conns -> Served]
  BY QuietStep DEF GetAcknowledge, ServePcs
<1>4. Types'
  BY <1>1, <1>3 DEF Types, clientVars, Accepted
<1> QED BY <1>1, <1>2, <1>3, <1>4, Frame, SameLists, SameSockets DEF clientVars

LEMMA WalkOnKeeps ==
  ASSUME Types, Rest, NEW k \in Conns, WalkOn(k)
  PROVE  Types' /\ Rest'
<1>1. UNCHANGED <<fdOf, sockets, clientVars, inbox, ID, suscriptors, cached, senders>>
  BY DEF WalkOn
<1>2. SameSenders
  BY <1>1 DEF SameSenders, Types
<1>3. QuietThreads /\ serving' \in [Conns -> Served]
  <2>1. CASE serving' = [serving EXCEPT ![k].pc = "take"]
    BY <2>1, QuietStep DEF WalkOn, ServePcs
  <2>2. CASE serving' = [serving EXCEPT ![k].pc = "done"]
    BY <2>2, QuietStep DEF WalkOn, ServePcs
  <2> QED BY <2>1, <2>2 DEF WalkOn
<1>4. Types'
  BY <1>1, <1>3 DEF Types, clientVars, Accepted
<1> QED BY <1>1, <1>2, <1>3, <1>4, Frame, SameLists, SameSockets DEF clientVars

LEMMA AcceptKeeps ==
  ASSUME Types, Rest, Accept
  PROVE  Types' /\ Rest'
<1>1. PICK r \in Requests, fd \in Fds :
        LET k == Len(fdOf) + 1 IN
        /\ sockets[fd] = None
        /\ Cardinality({j \in Accepted : request[j].op = r.op}) < Bound(r.op)
        /\ fdOf' = Append(fdOf, fd)
        /\ sockets' = [sockets EXCEPT ![fd] = k]
        /\ open' = IF r = Nothing THEN open ELSE open \cup {k}
        /\ request' = [request EXCEPT ![k] = r]
        /\ inbox' = [inbox EXCEPT ![k] = IF r = Nothing THEN <<>> ELSE <<r>>]
        /\ serving' = [serving EXCEPT ![k].pc = "read"]
  BY DEF Accept
<1> DEFINE len == Len(fdOf)
           k == len + 1
<1>2. UNCHANGED <<toAck, ID, suscriptors, cached, senders>>
  BY DEF Accept
<1>3. k \in Conns
  <2>1. r.op \in Kinds
    BY RequestKinds
  <2>2. Cardinality(OfKind(r.op)) < Bound(r.op)
    BY <1>1 DEF OfKind
  <2> QED BY <2>1, <2>2, RoomForOneMore DEF Rest
<1>4. /\ len \in Nat /\ Accepted = 1 .. len /\ Accepted' = 1 .. len + 1 /\ k \notin Accepted
      /\ Len(fdOf') = len + 1 /\ fdOf' \in Seq(Fds)
      /\ fdOf'[k] = fd /\ \A j \in Accepted : fdOf'[j] = fdOf[j]
  BY <1>1 DEF Accepted, Types
<1>5. /\ serving[k].pc = "none"
      /\ serving' \in [Conns -> Served]
      /\ \A j \in Conns \ {k} : serving'[j] = serving[j]
      /\ serving'[k].pc = "read" /\ serving'[k].listed = serving[k].listed
  <2>1. serving[k].pc = "none"
    BY <1>3, <1>4 DEF Rest, HandlerInv
  <2> QED BY <1>1, <1>3, <2>1 DEF Types, Served, ServePcs
<1>6. /\ sockets'[fd] = k /\ \A e \in Fds \ {fd} : sockets'[e] = sockets[e]
      /\ \A e \in Fds : sockets[e] \in 0 .. len
  BY <1>1 DEF Types
<1>7. /\ request' \in [Conns -> Requests] /\ request'[k] = r
      /\ \A j \in Conns \ {k} : request'[j] = request[j]
  BY <1>1, <1>3 DEF Rest, CountInv
<1> HIDE DEF len
<1>8. \A j \in Accepted : FirstIn(fdOf', j) <=> FirstIn(fdOf, j)
  BY <1>4 DEF FirstIn
<1>9. Types'
  <2>1. inbox' \in [Conns -> Seq(Packages)]
    <3>1. (IF r = Nothing THEN <<>> ELSE <<r>>) \in Seq(Packages)
      <4>1. <<>> \in Seq(Packages) /\ r \in Packages
        BY DEF Packages
      <4>2. <<r>> \in Seq(Packages)
        BY <4>1
      <4> QED BY <4>1, <4>2
    <3> QED BY <1>1, <3>1 DEF Types
  <2>2. sockets' \in [Fds -> 0 .. len + 1]
    BY <1>1, <1>4, <1>6 DEF Types, len
  <2>3. len + 1 <= NConns
    BY <1>3, <1>4 DEF Conns
  <2>4. open' \subseteq 1 .. len + 1
    <3>1. open \subseteq 1 .. len
      BY <1>4 DEF Types
    <3>2. open' = IF r = Nothing THEN open ELSE open \cup {len + 1}
      BY <1>1 DEF len
    <3> QED BY <1>4, <3>1, <3>2
  <2> QED BY <1>2, <1>4, <1>5, <2>1, <2>2, <2>3, <2>4 DEF Types
<1>10. CountInv'
  <2>1. SUFFICES ASSUME NEW op \in Kinds
                 PROVE  Cardinality(OfKind(op)') <= Bound(op)
    BY <1>7 DEF CountInv
  <2>2. OfKind(op)' = IF r.op = op THEN OfKind(op) \cup {k} ELSE OfKind(op)
    <3>1. Accepted' = Accepted \cup {k} /\ \A j \in Accepted : j \in Conns \ {k}
      <4>1. len + 1 <= NConns /\ NConns \in Nat
        BY <1>3, <1>4, Bounds DEF Conns
      <4> QED BY <1>4, <4>1 DEF Conns
    <3>2. OfKind(op)' = {j \in Accepted' : request'[j].op = op}
      BY DEF OfKind
    <3> QED BY <1>7, <3>1, <3>2 DEF OfKind
  <2>3. k \notin OfKind(op) /\ IsFiniteSet(OfKind(op))
    <3>1. IsFiniteSet(1 .. len)
      BY <1>4, FS_Interval
    <3>2. OfKind(op) \in SUBSET (1 .. len)
      BY <1>4 DEF OfKind
    <3> QED BY <1>4, <3>1, <3>2, FS_Subset
  <2>4. Cardinality(OfKind(op)) \in Nat
    BY <2>3, FS_CardinalityType
  <2>5. Bound(op) \in Nat
    BY Bounds DEF Kinds
  <2>6. CASE r.op = op
    <3>1. Cardinality(OfKind(op)) < Bound(op)
      BY <1>1, <2>6 DEF OfKind
    <3>2. Cardinality(OfKind(op) \cup {k}) = Cardinality(OfKind(op)) + 1
      BY <2>3, FS_AddElement
    <3> QED BY <2>2, <2>4, <2>5, <2>6, <3>1, <3>2
  <2>7. CASE r.op # op
    BY <2>2, <2>7 DEF Rest, CountInv
  <2> QED BY <2>6, <2>7
<1>11. SocketInv'
  BY <1>4, <1>6 DEF Rest, SocketInv, None
<1>12. HandlerInv'
  BY <1>2, <1>4, <1>5 DEF Rest, HandlerInv, Handling, QueueOf
<1>13. ListInv'
  <2>1. SUFFICES ASSUME NEW q \in Queues, NEW i \in DOMAIN suscriptors[q],
                        NEW e, e = suscriptors[q][i]
                 PROVE  /\ \E j \in Conns : j \in Accepted' /\ fdOf'[j] = e /\ serving'[j].pc \in Listed
                        /\ sockets'[e] # None /\ FirstIn(fdOf', sockets'[e]) =>
                             \A n \in DOMAIN suscriptors[q] : suscriptors[q][n] = e => n = i
    BY <1>2 DEF ListInv
  <2>2. PICK j \in Conns : j \in Accepted /\ fdOf[j] = e /\ serving[j].pc \in Listed
    BY <2>1 DEF Rest, ListInv
  <2>3. j # k /\ j \in Accepted' /\ fdOf'[j] = e /\ serving'[j].pc \in Listed
    BY <1>4, <1>5, <2>2
  <2>4. CASE e = fd
    <3>1. ~FirstIn(fdOf', k)
      BY <1>4, <2>2, <2>3, <2>4 DEF FirstIn
    <3> QED BY <1>6, <2>3, <2>4, <3>1
  <2>5. CASE e # fd
    <3>1. e \in Fds
      BY <2>1 DEF Types
    <3>2. sockets'[e] = sockets[e]
      BY <1>6, <2>5, <3>1
    <3>3. sockets[e] # None => sockets[e] \in Accepted
      BY <3>1 DEF Rest, SocketInv
    <3> QED BY <1>8, <2>1, <2>3, <3>2, <3>3 DEF Rest, ListInv
  <2> QED BY <2>4, <2>5
<1>14. SenderInv'
  BY <1>2, <1>4, <1>5, <1>8 DEF Rest, SenderInv
<1>15. WalkInv'
  <2>1. \A j \in Conns : serving'[j].pc \in {"walk", "take"} =>
          j # k /\ serving'[j] = serving[j] /\ QueueOf(j)' = QueueOf(j)
    BY <1>5 DEF QueueOf
  <2>2. \A s \in DOMAIN senders : LET for == senders[s].for IN
          for # None => /\ for \in Accepted /\ fdOf'[for] = fdOf[for]
                        /\ FirstIn(fdOf', for) <=> FirstIn(fdOf, for)
                        /\ sockets'[fdOf[for]] = for => sockets[fdOf[for]] = for
    <3>1. SUFFICES ASSUME NEW for \in Accepted
                   PROVE  sockets'[fdOf[for]] = for => sockets[fdOf[for]] = for
      BY <1>4, <1>8 DEF Rest, SenderInv
    <3>2. for # k /\ fdOf[for] \in Fds
      BY <1>4 DEF Types, len
    <3> QED BY <1>6, <3>2
  <2> QED BY <1>2, <2>1, <2>2 DEF Rest, WalkInv
<1>16. Once'
  BY <1>2, <1>8, ZenonT(40) DEF Rest, Once, SenderInv
<1> QED BY <1>9, <1>10, <1>11, <1>12, <1>13, <1>14, <1>15, <1>16 DEF Rest

LEMMA SuscribeKeeps ==
  ASSUME Types, Rest, NEW k \in Conns, Suscribe(k)
  PROVE  Types' /\ Rest'
<1> DEFINE q0 == QueueOf(k)
           fd == fdOf[k]
<1>1. /\ serving[k].pc = "lock" /\ serving[k].package.op = "SUBSCRIPTION"
      /\ \A j \in Conns : serving[j].pc \notin Handling
      /\ suscriptors' = [suscriptors EXCEPT ![q0] = Append(@, fd)]
      /\ serving' = [serving EXCEPT ![k].pc = "list"]
      /\ UNCHANGED <<fdOf, sockets, clientVars, inbox, ID, cached, senders>>
  BY DEF Suscribe, HandlerFree, Handling
<1>2. q0 \in Queues
  <2>1. serving[k].package \in Packages
    BY DEF Types, Served
  <2> QED BY <1>1, <2>1, RequestKinds DEF Packages, QueueOf
<1>3. k \in Accepted /\ fd \in Fds
  BY <1>1 DEF Rest, HandlerInv, Types, Accepted
<1>4. /\ serving' \in [Conns -> Served] /\ serving'[k].pc = "list"
      /\ serving'[k].package = serving[k].package /\ serving'[k].listed = serving[k].listed
      /\ \A j \in Conns \ {k} : serving'[j] = serving[j]
  BY <1>1 DEF Types, Served, ServePcs
<1>5. /\ \A q \in Queues \ {q0} : suscriptors'[q] = suscriptors[q]
      /\ suscriptors'[q0] = Append(suscriptors[q0], fd)
  BY <1>1, <1>2 DEF Types
<1> DEFINE old == suscriptors[q0]
           len == Len(suscriptors[q0])
<1>6. /\ old \in Seq(Fds) /\ len \in Nat /\ DOMAIN old = 1 .. len
      /\ suscriptors'[q0] \in Seq(Fds)
      /\ DOMAIN suscriptors'[q0] = DOMAIN old \cup {len + 1} /\ len + 1 \notin DOMAIN old
      /\ suscriptors'[q0][len + 1] = fd
      /\ \A i \in DOMAIN old : suscriptors'[q0][i] = old[i]
  BY <1>2, <1>3, <1>5, SMTT(30) DEF Types
<1>7. QueueOf(k)' = q0 /\ UNCHANGED <<Accepted>>
  BY <1>1, <1>4 DEF QueueOf, Accepted
<1> HIDE DEF q0, fd, len
<1>8. Types'
  <2>1. suscriptors' \in [Queues -> Seq(Fds)]
    BY <1>1, <1>2, <1>5, <1>6 DEF Types
  <2> QED BY <1>1, <1>4, <1>7, <2>1 DEF Types, clientVars
<1>9. CountInv' /\ SocketInv'
  BY <1>1, <1>7 DEF Rest, CountInv, OfKind, SocketInv, clientVars
<1>10. HandlerInv'
  BY <1>1, <1>2, <1>3, <1>4, <1>7 DEF Rest, HandlerInv, Handling, QueueOf
<1>11. ListInv'
  <2>1. \A j \in Conns : serving[j].pc \in Listed => j # k /\ serving'[j].pc \in Listed
    BY <1>1, <1>4 DEF Listed
  <2>2. \A i \in DOMAIN old : old[i] = fd =>
          ~(sockets[fd] # None /\ FirstIn(fdOf, sockets[fd]))
    <3>1. SUFFICES ASSUME NEW i \in DOMAIN old, old[i] = fd,
                          sockets[fd] # None, FirstIn(fdOf, sockets[fd])
                   PROVE  FALSE
      OBVIOUS
    <3>2. PICK j \in Conns : j \in Accepted /\ fdOf[j] = fd /\ serving[j].pc \in Listed
      BY <1>2, <3>1 DEF Rest, ListInv
    <3>3. j # k
      BY <2>1, <3>2
    <3>4. /\ fdOf[k] = fd /\ fdOf[sockets[fd]] = fd /\ j <= sockets[fd] /\ k <= sockets[fd]
          /\ sockets[fd] \in Nat /\ j \in 1 .. Len(fdOf) /\ k \in 1 .. Len(fdOf)
      <4>1. SocketInv /\ fd \in Fds /\ fdOf[k] = fd /\ k \in Accepted /\ j \in Accepted
        BY <1>3, <3>2 DEF Rest, Types, fd
      <4>2. fdOf[sockets[fd]] = fd /\ sockets[fd] \in Accepted
            /\ j <= sockets[fd] /\ k <= sockets[fd]
        BY <3>1, <3>2, <4>1 DEF SocketInv
      <4>3. Accepted = 1 .. Len(fdOf) /\ Len(fdOf) \in Nat
        BY DEF Types, Accepted
      <4> QED BY <4>1, <4>2, <4>3
    <3> QED BY <3>1, <3>2, <3>3, <3>4 DEF FirstIn
  <2>3. SUFFICES ASSUME NEW q \in Queues, NEW i \in DOMAIN suscriptors'[q],
                        NEW e, e = suscriptors'[q][i]
                 PROVE  /\ \E j \in Conns : j \in Accepted /\ fdOf[j] = e /\ serving'[j].pc \in Listed
                        /\ sockets[e] # None /\ FirstIn(fdOf, sockets[e]) =>
                             \A n \in DOMAIN suscriptors'[q] : suscriptors'[q][n] = e => n = i
    BY <1>1, <1>7 DEF ListInv
  <2>4. CASE q # q0
    BY <1>5, <2>1, <2>3, <2>4 DEF Rest, ListInv
  <2>5. CASE q = q0 /\ i = len + 1
    <3>1. e = fd /\ k \in Accepted /\ fdOf[k] = e /\ serving'[k].pc \in Listed
      BY <1>3, <1>4, <1>6, <2>3, <2>5 DEF fd, Listed
    <3> QED BY <1>6, <2>2, <2>5, <3>1
  <2>6. CASE q = q0 /\ i # len + 1
    <3>1. i \in DOMAIN old /\ e = old[i]
      BY <1>6, <2>3, <2>6
    <3>2. \E j \in Conns : j \in Accepted /\ fdOf[j] = e /\ serving'[j].pc \in Listed
      BY <1>2, <2>1, <3>1 DEF Rest, ListInv
    <3>3. sockets[e] # None /\ FirstIn(fdOf, sockets[e]) =>
            e # fd /\ \A n \in DOMAIN old : old[n] = e => n = i
      BY <1>2, <2>2, <3>1 DEF Rest, ListInv
    <3> QED BY <1>6, <2>6, <3>2, <3>3
  <2> QED BY <2>4, <2>5, <2>6
<1>12. SenderInv'
  BY <1>1, <1>4, <1>7 DEF Rest, SenderInv
<1>13. WalkInv'
  BY <1>1, <1>4 DEF WalkInv, Handling
<1>14. Once'
  BY <1>1 DEF Rest, Once
<1> QED BY <1>8, <1>9, <1>10, <1>11, <1>12, <1>13, <1>14 DEF Rest

(* A thread that has put its descriptor in a list keeps it there. *)
LEMMA ListedStay ==
  ASSUME Types, ListInv, UNCHANGED <<fdOf, sockets, suscriptors>>,
         \A j \in Conns : serving[j].pc \in Listed => serving'[j].pc \in Listed
  PROVE  ListInv'
<1>1. SUFFICES ASSUME NEW q \in Queues, NEW i \in DOMAIN suscriptors[q],
                      NEW e, e = suscriptors[q][i]
               PROVE  /\ \E j \in Conns : j \in Accepted' /\ fdOf[j] = e /\ serving'[j].pc \in Listed
                      /\ sockets[e] # None /\ FirstIn(fdOf, sockets[e]) =>
                           \A n \in DOMAIN suscriptors[q] : suscriptors[q][n] = e => n = i
  BY DEF ListInv
<1>2. UNCHANGED Accepted
  BY DEF Accepted
<1>3. PICK j \in Conns : j \in Accepted /\ fdOf[j] = e /\ serving[j].pc \in Listed
  BY <1>1 DEF ListInv
<1>4. sockets[e] # None /\ FirstIn(fdOf, sockets[e]) =>
        \A n \in DOMAIN suscriptors[q] : suscriptors[q][n] = e => n = i
  BY <1>1 DEF ListInv
<1> QED BY <1>2, <1>3, <1>4

LEMMA ListMessagesKeeps ==
  ASSUME Types, Rest, NEW k \in Conns, ListMessages(k)
  PROVE  Types' /\ Rest'
<1> DEFINE listed == NotSent(k)
<1>1. /\ serving[k].pc = "list"
      /\ serving' = [serving EXCEPT ![k].pc = "map", ![k].listed = listed]
      /\ UNCHANGED <<fdOf, sockets, clientVars, inbox, ID, suscriptors, cached, senders>>
      /\ listed \subseteq DOMAIN cached
  BY DEF ListMessages, NotSent
<1>2. listed \in SUBSET Nat
  BY <1>1 DEF Types
<1> HIDE DEF listed
<1>3. /\ serving' \in [Conns -> Served]
      /\ serving'[k].pc = "map" /\ serving'[k].listed = listed
      /\ serving'[k].package = serving[k].package
      /\ \A j \in Conns \ {k} : serving'[j] = serving[j]
  BY <1>1, <1>2, ZenonT(40) DEF Types, Served, ServePcs
<1>4. UNCHANGED Accepted /\ \A j \in Conns : QueueOf(j)' = QueueOf(j)
  BY <1>1, <1>3 DEF Accepted, QueueOf
<1>5. Types'
  BY <1>1, <1>3, <1>4 DEF Types, clientVars
<1>6. CountInv' /\ SocketInv'
  BY <1>1, <1>4 DEF Rest, CountInv, OfKind, SocketInv, clientVars
<1>7. HandlerInv'
  BY <1>1, <1>3, <1>4 DEF Rest, HandlerInv, Handling
<1>8. ListInv'
  <2>1. \A j \in Conns : serving[j].pc \in Listed => serving'[j].pc \in Listed
    BY <1>1, <1>3 DEF Listed
  <2> QED BY <1>1, <2>1, ListedStay DEF Rest
<1>9. SenderInv'
  BY <1>1, <1>3, <1>4 DEF Rest, SenderInv
<1>10. WalkInv'
  BY <1>1, <1>3 DEF Rest, WalkInv, HandlerInv, Handling
<1>11. Once'
  BY <1>1 DEF Rest, Once
<1> QED BY <1>5, <1>6, <1>7, <1>8, <1>9, <1>10, <1>11 DEF Rest

LEMMA MapMessagesKeeps ==
  ASSUME Types, Rest, NEW k \in Conns, MapMessages(k)
  PROVE  Types' /\ Rest'
<1> DEFINE ids == {<<m, "newSubscriber", k>> : m \in serving[k].listed}
           fd == fdOf[k]
<1>1. /\ serving[k].pc = "map"
      /\ senders' = Started(ids, fd)
      /\ serving' = [serving EXCEPT ![k].pc = "done", ![k].listed = {}]
      /\ UNCHANGED <<fdOf, sockets, clientVars, inbox, ID, suscriptors, cached>>
  BY DEF MapMessages
<1>2. /\ k \in Accepted /\ fd \in Fds /\ serving[k].listed \subseteq DOMAIN cached
      /\ k \in Nat
  BY <1>1, Bounds DEF Rest, HandlerInv, Types, Accepted, Conns
<1>3. /\ ids \in SUBSET Ids
      /\ \A s \in ids : s[1] \in 1 .. ID /\ s[2] = "newSubscriber" /\ s[3] = k
      /\ \A m, n : <<m, "newSubscriber", n>> \in ids => n = k
  BY <1>2 DEF Types, Ids
<1> HIDE DEF ids, fd
<1>4. /\ DOMAIN senders' = DOMAIN senders \cup ids
      /\ senders' \in [DOMAIN senders' -> Sent]
      /\ DOMAIN senders' \subseteq Ids
      /\ \A s \in ids : /\ senders'[s].msg = s[1] /\ senders'[s].fd = fd
                        /\ senders'[s].for = sockets[fd]
      /\ \A s \in DOMAIN senders \ ids : senders'[s] = senders[s]
  <2>1. /\ DOMAIN senders' = DOMAIN senders \cup ids
        /\ senders' \in [DOMAIN senders' -> Sent]
        /\ DOMAIN senders' \subseteq Ids
        /\ \A s \in ids : senders'[s] = Sender(s[1], fd)
        /\ \A s \in DOMAIN senders \ ids : senders'[s] = senders[s]
    BY <1>1, <1>2, <1>3, StartedThreads
  <2> QED BY <2>1 DEF Sender
<1>5. /\ serving' \in [Conns -> Served]
      /\ serving'[k].pc = "done" /\ serving'[k].listed = {}
      /\ \A j \in Conns \ {k} : serving'[j] = serving[j]
  BY <1>1, ZenonT(40) DEF Types, Served, ServePcs
<1>6. UNCHANGED Accepted /\ \A j \in Conns : serving'[j].package = serving[j].package
  BY <1>1, <1>5 DEF Accepted, Types, Served
<1>7. \A j \in Conns : j # k => serving[j].pc \notin Handling
  BY <1>1 DEF Rest, HandlerInv, Handling
<1>8. Types'
  BY <1>1, <1>4, <1>5, <1>6 DEF Types, clientVars
<1>9. CountInv' /\ SocketInv'
  BY <1>1, <1>6 DEF Rest, CountInv, OfKind, SocketInv, clientVars
<1>10. HandlerInv'
  BY <1>1, <1>2, <1>5, <1>6 DEF Rest, HandlerInv, Handling, QueueOf
<1>11. ListInv'
  <2>1. \A j \in Conns : serving[j].pc \in Listed => serving'[j].pc \in Listed
    BY <1>1, <1>5 DEF Listed
  <2> QED BY <1>1, <2>1, ListedStay DEF Rest
<1>12. SenderInv'
  <2>1. SUFFICES ASSUME NEW s \in DOMAIN senders'
                 PROVE  LET for == senders'[s].for IN
                        /\ senders'[s].msg = s[1] /\ s[1] <= ID
                        /\ for # None => for \in Accepted /\ fdOf[for] = senders'[s].fd
                        /\ s[2] = "newSubscriber" =>
                             /\ s[3] \in Conns /\ s[3] \in Accepted /\ serving'[s[3]].pc = "done"
                             /\ fdOf[s[3]] = senders'[s].fd
                             /\ for # None => s[3] <= for
                        /\ s[2] = "newMessage" /\ for # None /\ FirstIn(fdOf, for) =>
                             /\ for \in Conns /\ serving'[for].pc = "done"
                             /\ <<s[1], "newSubscriber", for>> \notin DOMAIN senders'
    BY <1>1, <1>6 DEF SenderInv
  <2> DEFINE for == senders'[s].for
  <2>2. CASE s \in ids
    <3>1. for = sockets[fd] /\ senders'[s].fd = fd /\ senders'[s].msg = s[1]
      BY <1>4, <2>1, <2>2
    <3>2. for # None => for \in Accepted /\ fdOf[for] = fd /\ k <= for
      BY <1>2, <3>1 DEF Rest, SocketInv, fd
    <3>3. s[1] <= ID
      BY <1>3, <2>2 DEF Types
    <3>4. fdOf[k] = fd
      BY DEF fd
    <3> QED BY <1>2, <1>3, <1>5, <2>2, <3>1, <3>2, <3>3, <3>4
  <2>3. CASE s \notin ids
    <3>1. s \in DOMAIN senders /\ senders'[s] = senders[s]
      BY <1>4, <2>3
    <3>2. s[2] = "newMessage" /\ for # None /\ FirstIn(fdOf, for) =>
            <<s[1], "newSubscriber", for>> \notin ids
      BY <1>1, <1>3, <2>1, <3>1 DEF Rest, SenderInv
    <3> QED BY <1>4, <1>5, <2>1, <3>1, <3>2 DEF Rest, SenderInv
  <2> QED BY <2>2, <2>3
<1>13. WalkInv'
  BY <1>5, <1>7 DEF WalkInv, Handling
<1>14. Once'
  BY <1>1, <1>3, <1>4 DEF Rest, Once
<1> QED BY <1>8, <1>9, <1>10, <1>11, <1>12, <1>13, <1>14 DEF Rest


LEMMA ProcessMessageKeeps ==
  ASSUME Types, Rest, NEW k \in Conns, ProcessMessage(k)
  PROVE  Types' /\ Rest'
<1>1. /\ serving[k].pc = "lock" /\ serving[k].package.op = "MESSAGE"
      /\ \A j \in Conns : serving[j].pc \notin Handling
      /\ ID' = ID + 1
      /\ serving' = [serving EXCEPT ![k].pc = "walk", ![k].msg = ID', ![k].i = 1]
      /\ UNCHANGED <<fdOf, sockets, clientVars, inbox, suscriptors, senders>>
  BY DEF ProcessMessage, HandlerFree, Handling
<1>2. DOMAIN cached' \subseteq 1 .. ID'
  <2>1. PICK kept \in SUBSET DOMAIN cached :
          cached' = [m \in kept \cup {ID'} |->
                       IF m = ID' THEN [queue |-> QueueOf(k), sent |-> {}, left |-> 0]
                       ELSE cached[m]]
    BY DEF ProcessMessage
  <2>2. DOMAIN cached' = kept \cup {ID'}
    BY <2>1
  <2> QED BY <1>1, <2>2 DEF Types
<1>3. QueueOf(k) \in Queues
  <2>1. serving[k].package \in Packages
    BY DEF Types, Served
  <2> QED BY <1>1, <2>1, RequestKinds DEF Packages, QueueOf
<1>4. k \in Accepted
  BY <1>1 DEF Rest, HandlerInv
<1>5. ID \in Nat /\ ID' \in Nat
  BY <1>1 DEF Types
<1>6. /\ serving' \in [Conns -> Served] /\ serving'[k].pc = "walk"
      /\ serving'[k].package = serving[k].package /\ serving'[k].listed = serving[k].listed
      /\ serving'[k].msg = ID' /\ serving'[k].i = 1
      /\ \A j \in Conns \ {k} : serving'[j] = serving[j]
  BY <1>1, <1>5, ZenonT(40) DEF Types, Served, ServePcs
<1>7. UNCHANGED Accepted /\ \A j \in Conns : QueueOf(j)' = QueueOf(j)
  BY <1>1, <1>6 DEF QueueOf, Accepted
<1>8. Types'
  BY <1>1, <1>2, <1>5, <1>6, <1>7 DEF Types, clientVars
<1>9. CountInv' /\ SocketInv'
  BY <1>1, <1>7 DEF Rest, CountInv, OfKind, SocketInv, clientVars
<1>10. HandlerInv'
  <2>1. serving[k].listed = {} /\ \A j \in Conns : serving[j].pc # "map"
    BY <1>1 DEF Rest, HandlerInv, Handling
  <2> QED BY <1>1, <1>3, <1>4, <1>6, <1>7, <2>1 DEF Rest, HandlerInv, Handling
<1>11. ListInv'
  <2>1. \A j \in Conns : serving[j].pc \in Listed => serving'[j].pc \in Listed
    BY <1>1, <1>6 DEF Listed
  <2> QED BY <1>1, <2>1, ListedStay DEF Rest
<1>12. \A s \in DOMAIN senders : s[1] \in Nat /\ s[1] <= ID
  BY DEF Rest, SenderInv, Types, Ids
<1>13. SenderInv'
  <2>1. \A j \in Conns : serving[j].pc = "done" => serving'[j].pc = "done"
    BY <1>1, <1>6
  <2>2. \A s \in DOMAIN senders : s[1] <= ID'
    BY <1>1, <1>5, <1>12
  <2> QED BY <1>1, <1>7, <2>1, <2>2 DEF Rest, SenderInv
<1>14. WalkInv'
  <2>1. \A j \in Conns : serving'[j].pc \in {"walk", "take"} => j = k
    BY <1>1, <1>6 DEF Handling
  <2>2. \A s \in DOMAIN senders' : s[1] # ID'
    BY <1>1, <1>5, <1>12
  <2>3. serving'[k].msg <= ID'
    BY <1>5, <1>6
  <2> QED BY <1>6, <2>1, <2>2, <2>3 DEF WalkInv
<1>15. Once'
  BY <1>1 DEF Rest, Once
<1> QED BY <1>8, <1>9, <1>10, <1>11, <1>13, <1>14, <1>15 DEF Rest

LEMMA TakeSuscriptorKeeps ==
  ASSUME Types, Rest, NEW k \in Conns, TakeSuscriptor(k)
  PROVE  Types' /\ Rest'
<1> DEFINE m == serving[k].msg
           i == serving[k].i
           q == QueueOf(k)
           list == suscriptors[q]
           fd == list[i]
           new == <<m, "newMessage", i>>
<1>1. serving[k].pc = "take" /\ UNCHANGED <<fdOf, sockets, clientVars, inbox, ID, suscriptors, cached>>
  BY DEF TakeSuscriptor
<1>2. CASE ~ InList(k)
  <2>1. serving' = [serving EXCEPT ![k].pc = "crashed"] /\ UNCHANGED senders
    BY <1>2 DEF TakeSuscriptor
  <2>2. SameSenders
    BY <2>1 DEF SameSenders, Types
  <2>3. QuietThreads /\ serving' \in [Conns -> Served]
    BY <1>1, <2>1, QuietStep DEF ServePcs
  <2>4. Types'
    BY <1>1, <2>1, <2>3 DEF Types, clientVars, Accepted
  <2> QED BY <1>1, <2>2, <2>3, <2>4, Frame, SameLists, SameSockets DEF clientVars
<1>3. CASE InList(k)
  <2>1. /\ senders' = Started({new}, fd)
        /\ serving' = [serving EXCEPT ![k].pc = "walk", ![k].i = i + 1]
    BY <1>3 DEF TakeSuscriptor
  <2>2. q \in Queues /\ m \in Nat /\ i \in Nat /\ m <= ID /\ i >= 1 /\ i + 1 \in Nat
    BY <1>1 DEF Rest, HandlerInv, Handling, WalkInv, Types, Served
  <2>3. ASSUME NEW s \in DOMAIN senders, s[1] = m
        PROVE  /\ s[2] = "newMessage" /\ s[3] < i
               /\ LET for == senders[s].for IN
                  for # None /\ FirstIn(fdOf, for) /\ sockets[fdOf[for]] = for =>
                    \A n \in DOMAIN list : list[n] = fdOf[for] => n < i
    BY <1>1, <2>3 DEF Rest, WalkInv
  <2>4. i \in DOMAIN list /\ fd \in Fds /\ DOMAIN list \subseteq Nat
    <3>1. list \in Seq(Fds)
      BY <2>2 DEF Types
    <3> QED BY <1>3, <2>2, <3>1 DEF InList
  <2>5. new \in Ids /\ new[1] = m /\ new[2] = "newMessage" /\ new[3] = i
    BY <2>2 DEF Ids
  <2>6. serving[k].pc \notin Listed /\ \A j \in Conns : j # k => serving[j].pc \notin Handling
    BY <1>1 DEF Rest, HandlerInv, Handling, Listed
  <2>7. new \notin DOMAIN senders
    BY <2>2, <2>3, <2>5
  <2>8. /\ QueueOf(k) = q /\ suscriptors[q] = list /\ list[i] = fd
        /\ serving[k].i = i /\ serving[k].msg = m
    OBVIOUS
  <2> HIDE DEF m, i, q, list, fd, new
  <2>9. /\ serving' \in [Conns -> Served] /\ serving'[k].pc = "walk"
        /\ serving'[k].package = serving[k].package /\ serving'[k].listed = serving[k].listed
        /\ serving'[k].msg = m /\ serving'[k].i = i + 1
        /\ \A j \in Conns \ {k} : serving'[j] = serving[j]
    BY <2>1, <2>2, <2>8 DEF Types, Served, ServePcs
  <2>10. UNCHANGED Accepted /\ \A j \in Conns : QueueOf(j)' = QueueOf(j)
    BY <1>1, <2>9 DEF Accepted, QueueOf
  <2>11. /\ DOMAIN senders' = DOMAIN senders \cup {new}
         /\ senders' \in [DOMAIN senders' -> Sent]
         /\ DOMAIN senders' \subseteq Ids
         /\ senders'[new] = Sender(m, fd)
         /\ \A s \in DOMAIN senders \ {new} : senders'[s] = senders[s]
    <3>1. {new} \in SUBSET Ids
      BY <2>5
    <3> QED BY <2>1, <2>4, <2>5, <3>1, StartedThreads
  <2>12. /\ senders'[new].msg = m /\ senders'[new].fd = fd /\ senders'[new].for = sockets[fd]
         /\ \A s \in DOMAIN senders : senders'[s] = senders[s]
    BY <2>7, <2>11 DEF Sender
  <2> DEFINE for == sockets[fd]
  (* Whom the entry of the list stands for. *)
  <2>13. for # None => for \in Accepted /\ fdOf[for] = fd
    BY <2>4 DEF Rest, SocketInv
  <2>14. for # None /\ FirstIn(fdOf, for) =>
           /\ for \in Conns /\ for # k /\ serving[for].pc = "done"
           /\ \A n \in DOMAIN list : list[n] = fd => n = i
    <3>1. SUFFICES ASSUME for # None, FirstIn(fdOf, for)
                   PROVE  /\ for \in Conns /\ for # k /\ serving[for].pc = "done"
                          /\ \A n \in DOMAIN list : list[n] = fd => n = i
      OBVIOUS
    <3>2. PICK j \in Conns : j \in Accepted /\ fdOf[j] = fd /\ serving[j].pc \in Listed
      BY <2>2, <2>4, <2>8 DEF Rest, ListInv
    <3>3. j <= for /\ fdOf[for] = fd /\ for \in Accepted /\ j \in Nat /\ for \in Nat /\ j >= 1
      BY <2>4, <3>1, <3>2 DEF Rest, SocketInv, Accepted, Types
    <3>4. j = for
      BY <3>1, <3>2, <3>3 DEF FirstIn
    <3>5. \A n \in DOMAIN list : list[n] = fd => n = i
      BY <2>2, <2>4, <2>8, <3>1 DEF Rest, ListInv
    <3> QED BY <2>6, <3>2, <3>4, <3>5 DEF Listed, Handling
  <2> HIDE DEF for
  <2>15. Types'
    BY <1>1, <2>9, <2>10, <2>11 DEF Types, clientVars
  <2>16. CountInv' /\ SocketInv'
    BY <1>1, <2>10 DEF Rest, CountInv, OfKind, SocketInv, clientVars
  <2>17. HandlerInv'
    BY <1>1, <2>9, <2>10 DEF Rest, HandlerInv, Handling
  <2>18. ListInv'
    <3>1. \A j \in Conns : serving[j].pc \in Listed => serving'[j].pc \in Listed
      BY <2>6, <2>9
    <3> QED BY <1>1, <3>1, ListedStay DEF Rest
  <2>19. SenderInv'
    <3>1. \A j \in Conns : serving[j].pc = "done" => serving'[j].pc = "done"
      BY <1>1, <2>9
    <3>2. SUFFICES ASSUME NEW s \in DOMAIN senders'
                   PROVE  LET c == senders'[s].for IN
                          /\ senders'[s].msg = s[1] /\ s[1] <= ID
                          /\ c # None => c \in Accepted /\ fdOf[c] = senders'[s].fd
                          /\ s[2] = "newSubscriber" =>
                               /\ s[3] \in Conns /\ s[3] \in Accepted /\ serving'[s[3]].pc = "done"
                               /\ fdOf[s[3]] = senders'[s].fd
                               /\ c # None => s[3] <= c
                          /\ s[2] = "newMessage" /\ c # None /\ FirstIn(fdOf, c) =>
                               /\ c \in Conns /\ serving'[c].pc = "done"
                               /\ <<s[1], "newSubscriber", c>> \notin DOMAIN senders'
      BY <1>1, <2>10 DEF SenderInv
    <3>3. \A c : <<m, "newSubscriber", c>> \notin DOMAIN senders'
      <4>1. SUFFICES ASSUME NEW c PROVE <<m, "newSubscriber", c>> \notin DOMAIN senders'
        OBVIOUS
      <4>2. <<m, "newSubscriber", c>>[1] = m /\ <<m, "newSubscriber", c>>[2] = "newSubscriber"
        OBVIOUS
      <4> QED BY <2>3, <2>5, <2>11, <4>2
    <3>4. CASE s = new
      BY <2>2, <2>5, <2>12, <2>13, <2>14, <3>1, <3>3, <3>4 DEF for
    <3>5. CASE s # new
      <4>1. s \in DOMAIN senders /\ senders'[s] = senders[s]
        BY <2>11, <2>12, <3>5
      <4>2. ASSUME NEW c PROVE <<s[1], "newSubscriber", c>> # new
        BY <2>5
      <4>3. ASSUME NEW c PROVE <<s[1], "newSubscriber", c>> \in DOMAIN senders' =>
                               <<s[1], "newSubscriber", c>> \in DOMAIN senders
        BY <2>11, <4>2
      <4> QED BY <3>1, <4>1, <4>3 DEF Rest, SenderInv
    <3> QED BY <3>4, <3>5
  <2>20. WalkInv'
    <3>1. \A j \in Conns : serving'[j].pc \in {"walk", "take"} => j = k
      BY <2>6, <2>9 DEF Handling
    <3>2. ASSUME NEW s \in DOMAIN senders', s[1] = m
          PROVE  /\ s[2] = "newMessage" /\ s[3] < i + 1
                 /\ LET c == senders'[s].for IN
                    c # None /\ FirstIn(fdOf, c) /\ sockets[fdOf[c]] = c =>
                      \A n \in DOMAIN list : list[n] = fdOf[c] => n < i + 1
      <4>1. CASE s = new
        BY <2>2, <2>4, <2>5, <2>12, <2>13, <2>14, <4>1 DEF for
      <4>2. CASE s # new
        <5>1. s \in DOMAIN senders /\ senders'[s] = senders[s] /\ s[3] \in Nat
          BY <2>11, <2>12, <4>2 DEF Ids
        <5>2. s[2] = "newMessage" /\ s[3] < i + 1
          BY <2>2, <2>3, <3>2, <5>1
        <5> DEFINE c == senders[s].for
        <5>3. c # None /\ FirstIn(fdOf, c) /\ sockets[fdOf[c]] = c =>
                \A n \in DOMAIN list : list[n] = fdOf[c] => n < i
          BY <2>3, <3>2, <5>1
        <5> HIDE DEF c
        <5>4. c # None /\ FirstIn(fdOf, c) /\ sockets[fdOf[c]] = c =>
                \A n \in DOMAIN list : list[n] = fdOf[c] => n < i + 1
          BY <2>2, <2>4, <5>3
        <5> QED BY <5>1, <5>2, <5>4 DEF c
      <4> QED BY <4>1, <4>2
    <3>3. serving'[k].msg = m /\ serving'[k].i = i + 1 /\ i + 1 >= 1 /\ m <= ID
          /\ suscriptors' = suscriptors /\ QueueOf(k)' = q
          /\ suscriptors[q] = list /\ fdOf' = fdOf /\ sockets' = sockets /\ ID' = ID
      BY <1>1, <2>2, <2>8, <2>9, <2>10
    <3> QED BY <3>1, <3>2, <3>3 DEF WalkInv
  <2>21. Once'
    <3>1. \A t \in DOMAIN senders : t[1] = m /\ senders[t].for # None
            /\ FirstIn(fdOf, senders[t].for) => senders[t].for # for
      <4>1. SUFFICES ASSUME NEW t \in DOMAIN senders, t[1] = m, senders[t].for = for,
                            for # None, FirstIn(fdOf, for)
                     PROVE  FALSE
        OBVIOUS
      <4>2. sockets[fdOf[for]] = for /\ fdOf[for] = fd
        BY <2>13, <4>1 DEF for
      <4>3. \A n \in DOMAIN list : list[n] = fd => n < i
        BY <2>3, <4>1, <4>2
      <4> QED BY <2>2, <2>4, <2>8, <4>3
    <3>2. SUFFICES ASSUME NEW s \in DOMAIN senders', NEW t \in DOMAIN senders',
                          s[2] = "newMessage", t[2] = "newMessage", s # t, s[1] = t[1],
                          senders'[s].for # None, FirstIn(fdOf, senders'[s].for)
                   PROVE  senders'[s].for # senders'[t].for
      BY <1>1 DEF Once
    <3>3. CASE s = new
      <4>1. t \in DOMAIN senders /\ senders'[t] = senders[t] /\ senders'[s].for = for /\ t[1] = m
        BY <2>5, <2>11, <2>12, <3>2, <3>3 DEF for
      <4> QED BY <3>1, <3>2, <4>1
    <3>4. CASE t = new
      <4>1. s \in DOMAIN senders /\ senders'[s] = senders[s] /\ senders'[t].for = for /\ s[1] = m
        BY <2>5, <2>11, <2>12, <3>2, <3>4 DEF for
      <4> QED BY <3>1, <3>2, <4>1
    <3>5. CASE s # new /\ t # new
      <4>1. s \in DOMAIN senders /\ senders'[s] = senders[s]
            /\ t \in DOMAIN senders /\ senders'[t] = senders[t]
        BY <2>11, <2>12, <3>2, <3>5
      <4> QED BY <3>2, <4>1 DEF Rest, Once
    <3> QED BY <3>3, <3>4, <3>5
  <2> QED BY <2>15, <2>16, <2>17, <2>18, <2>19, <2>20, <2>21 DEF Rest
<1> QED BY <1>2, <1>3

-----------------------------------------------------------------------------
LEMMA InitHolds == Init => IInv
<1> SUFFICES ASSUME Init PROVE IInv
  OBVIOUS
<1>1. /\ fdOf = <<>> /\ Len(fdOf) = 0 /\ Accepted = {}
  BY DEF Init, Accepted
<1>2. NConns \in Nat /\ 0 \in 0 .. 0
  BY Bounds
<1>3. Nothing \in Requests /\ Nothing \in Packages
  BY DEF Requests, Packages
<1>4. DOMAIN cached = {} /\ DOMAIN senders = {}
  BY DEF Init
<1>5. NoThread \in Served
  BY <1>3 DEF NoThread, Served, ServePcs, None
<1>6. \A j \in Conns : serving[j] = NoThread
  BY DEF Init
<1>7. Types
  <2>1. fdOf \in Seq(Fds)
    BY <1>1
  <2>2. inbox \in [Conns -> Seq(Packages)] /\ toAck \in [Conns -> Seq(Nat)] /\ suscriptors \in [Queues -> Seq(Fds)]
    BY DEF Init
  <2>3. sockets \in [Fds -> 0 .. Len(fdOf)]
    BY <1>1, <1>2 DEF Init, None
  <2>4. senders \in [DOMAIN senders -> Sent]
    BY DEF Init
  <2> QED BY <1>1, <1>2, <1>4, <1>5, <2>1, <2>2, <2>3, <2>4 DEF Init, Types
<1>8. CountInv
  <2>1. \A op \in Kinds : OfKind(op) = {}
    BY <1>1 DEF OfKind
  <2>2. Cardinality({}) = 0
    BY FS_EmptySet
  <2>3. \A op \in Kinds : Bound(op) \in Nat
    BY Bounds DEF Kinds
  <2>4. request \in [Conns -> Requests]
    BY <1>3 DEF Init
  <2>5. \A op \in Kinds : Cardinality(OfKind(op)) <= Bound(op)
    <3>1. ASSUME NEW op \in Kinds PROVE Cardinality(OfKind(op)) <= Bound(op)
      <4>1. Cardinality(OfKind(op)) = 0
        BY <2>1, <2>2
      <4> QED BY <4>1, <2>3
    <3> QED BY <3>1
  <2> QED BY <2>4, <2>5 DEF CountInv
<1>9. SocketInv /\ ListInv /\ SenderInv /\ Once
  BY <1>4 DEF Init, SocketInv, ListInv, SenderInv, Once
<1>10. HandlerInv /\ WalkInv
  BY <1>6 DEF HandlerInv, WalkInv, NoThread, Handling
<1> QED BY <1>7, <1>8, <1>9, <1>10 DEF IInv

LEMMA StutterKeeps == ASSUME IInv, UNCHANGED vars PROVE IInv'
BY DEF IInv, vars, clientVars, Types, CountInv, SocketInv, HandlerInv, ListInv, SenderInv,
       WalkInv, Once, OfKind, Accepted, QueueOf

LEMMA NextKeeps ==
  ASSUME IInv, [Next]_vars
  PROVE  IInv'
<1>1. Types /\ Rest
  BY DEF IInv, Rest
<1>2. SUFFICES ASSUME Next PROVE Types' /\ Rest'
  BY StutterKeeps DEF IInv, Rest
<1>3. CASE Accept
  BY <1>1, <1>3, AcceptKeeps
<1>4. CASE \E k \in Conns : ClientAck(k) \/ ClientClose(k) \/ ServeStep(k)
  <2>1. PICK k \in Conns : ClientAck(k) \/ ClientClose(k) \/ ServeStep(k)
    BY <1>4
  <2> USE <1>1
  <2>2. CASE ClientAck(k)      BY <2>2, ClientAckKeeps
  <2>3. CASE ClientClose(k)    BY <2>3, ClientCloseKeeps
  <2>4. CASE ServeRead(k)      BY <2>4, ServeReadKeeps
  <2>5. CASE ServeRemove(k)    BY <2>5, ServeRemoveKeeps
  <2>6. CASE ServeClose(k)     BY <2>6, ServeCloseKeeps
  <2>7. CASE Suscribe(k)       BY <2>7, SuscribeKeeps
  <2>8. CASE ListMessages(k)   BY <2>8, ListMessagesKeeps
  <2>9. CASE MapMessages(k)    BY <2>9, MapMessagesKeeps
  <2>10. CASE ProcessMessage(k) BY <2>10, ProcessMessageKeeps
  <2>11. CASE WalkOn(k)         BY <2>11, WalkOnKeeps
  <2>12. CASE TakeSuscriptor(k) BY <2>12, TakeSuscriptorKeeps
  <2>13. CASE GetAcknowledge(k) BY <2>13, GetAcknowledgeKeeps
  <2> QED BY <2>1, <2>2, <2>3, <2>4, <2>5, <2>6, <2>7, <2>8, <2>9, <2>10, <2>11, <2>12, <2>13 DEF ServeStep
<1>5. CASE \E s \in DOMAIN senders : SenderStep(s)
  <2>1. PICK s \in DOMAIN senders : SenderStep(s)
    BY <1>5
  <2> USE <1>1
  <2>2. CASE SenderGet(s)      BY <2>2, SenderGetKeeps
  <2>3. CASE SenderSend(s)     BY <2>3, SenderSendKeeps
  <2>4. CASE SenderNote(s)     BY <2>4, SenderNoteKeeps
  <2>5. CASE SenderWait(s)     BY <2>5, SenderWaitKeeps
  <2>6. CASE SenderReceive(s)  BY <2>6, SenderReceiveKeeps
  <2>7. CASE SenderRemove(s)   BY <2>7, SenderRemoveKeeps
  <2>8. CASE SenderClose(s)    BY <2>8, SenderCloseKeeps
  <2> QED BY <2>1, <2>2, <2>3, <2>4, <2>5, <2>6, <2>7, <2>8 DEF SenderStep
<1> QED BY <1>2, <1>3, <1>4, <1>5 DEF Next

(* The strengthening holds in every state of every behaviour of the        *)
(* specification.                                                          *)
THEOREM Invariance == Spec => []IInv
<1>1. Init => IInv
  BY InitHolds
<1>2. IInv /\ [Next]_vars => IInv'
  BY NextKeeps
<1> QED BY <1>1, <1>2, PTL DEF Spec

(* The thread that answers a new subscriber reads the messages it listed   *)
(* after it gave mutex_saving back; they are still there, because the one  *)
(* operation that evicts, save_message in broker_process_message, needs    *)
(* mutex_handle_message, which this thread holds throughout.               *)
THEOREM ListedMessagesStay == Spec => []ListedStillCached
<1>1. IInv => ListedStillCached
  BY DEF IInv, HandlerInv, ListedStillCached
<1> QED BY <1>1, Invariance, PTL

LEMMA NeverTwice == IInv => ServedOnce
<1>1. SUFFICES ASSUME IInv, NEW s \in DOMAIN senders, NEW t \in DOMAIN senders,
                      s # t, senders[s].msg = senders[t].msg,
                      NEW k \in Accepted, k = senders[s].for, k = senders[t].for,
                      FirstIn(fdOf, k)
               PROVE  FALSE
  BY DEF ServedOnce, FirstOnItsDescriptor, FirstIn
<1>2. SenderInv /\ Once /\ Types
  BY <1>1 DEF IInv
<1>3. s \in Ids /\ t \in Ids
  BY <1>2 DEF Types
<1>4. s[1] = t[1]
  BY <1>1, <1>2 DEF SenderInv
<1>5. k # None /\ k \in Nat /\ k >= 1
  BY <1>2 DEF Accepted, Types, None
(* A subscription's thread is the connection's own. *)
<1>6. ASSUME NEW r \in DOMAIN senders, r[2] = "newSubscriber", senders[r].for = k
      PROVE  r[3] = k
  <2>1. /\ fdOf[r[3]] = senders[r].fd /\ fdOf[k] = senders[r].fd /\ r[3] <= k
        /\ r[3] \in Accepted
    BY <1>2, <1>5, <1>6 DEF SenderInv
  <2>2. r[3] \in Nat /\ r[3] >= 1
    BY <1>2, <2>1 DEF Accepted, Types
  <2> QED BY <1>1, <1>5, <2>1, <2>2 DEF FirstIn
<1>7. ASSUME NEW r \in DOMAIN senders, r[2] = "newMessage", senders[r].for = k
      PROVE  <<r[1], "newSubscriber", k>> \notin DOMAIN senders
  BY <1>1, <1>2, <1>5, <1>7 DEF SenderInv
<1>8. \A r \in Ids : r = <<r[1], r[2], r[3]>> /\ r[2] \in {"newSubscriber", "newMessage"}
  BY DEF Ids
<1>9. CASE s[2] = "newMessage" /\ t[2] = "newMessage"
  BY <1>1, <1>2, <1>4, <1>5, <1>9 DEF Once
<1>10. CASE s[2] = "newSubscriber" /\ t[2] = "newSubscriber"
  BY <1>1, <1>3, <1>4, <1>6, <1>8, <1>10
<1>11. CASE s[2] = "newSubscriber" /\ t[2] = "newMessage"
  BY <1>1, <1>3, <1>4, <1>6, <1>7, <1>8, <1>11
<1>12. CASE s[2] = "newMessage" /\ t[2] = "newSubscriber"
  BY <1>1, <1>3, <1>4, <1>6, <1>7, <1>8, <1>12
<1> QED BY <1>3, <1>8, <1>9, <1>10, <1>11, <1>12

(* A subscriber and a message that arrive together get one sender thread:  *)
(* the subscription lists the message or the walk meets the subscriber.    *)
THEOREM NobodyIsServedTwice == Spec => []ServedOnce
BY NeverTwice, Invariance, PTL

-----------------------------------------------------------------------------
(* Delivery: a subscriber that stays connected stays subscribed, and is    *)
(* missed by no message.                                                   *)


(* Who is sent a message had, when the thread started, its descriptor in a *)
(* list; a thread reads from a connection that had the descriptor.         *)
SenderFdInv ==
  \A s \in DOMAIN senders :
    /\ \E j \in Conns : j \in Accepted /\ fdOf[j] = senders[s].fd /\ serving[j].pc \in Listed
    /\ senders[s].pc = "receive" =>
         senders[s].at \in Accepted /\ fdOf[senders[s].at] = senders[s].fd

InQueue(fd, q) == \E i \in DOMAIN suscriptors[q] : suscriptors[q][i] = fd

(* A first connection whose client is there: nobody closes its descriptor, *)
(* nobody but its own thread reads its request, nobody removes its entry.  *)
OpenInv ==
  \A k \in open : FirstIn(fdOf, k) =>
    /\ sockets[fdOf[k]] = k
    /\ serving[k].pc \notin {"none", "remove", "close"}
    /\ serving[k].pc = "read" => inbox[k] # <<>> /\ Head(inbox[k]) = request[k]
    /\ serving[k].pc # "read" => serving[k].package = request[k]
    /\ serving[k].pc \in {"walk", "take"} => request[k].op = "MESSAGE"
    /\ request[k].op = "SUBSCRIPTION" /\ serving[k].pc \in Listed => InQueue(fdOf[k], request[k].arg)
    /\ \A s \in DOMAIN senders :
         senders[s].fd = fdOf[k] => senders[s].pc \notin {"remove", "close"}

ConnInv == SenderFdInv /\ OpenInv

(* A first connection whose descriptor has not been closed. *)
Alive(k) == k \in Accepted /\ FirstIn(fdOf, k) /\ sockets[fdOf[k]] = k

Records == [queue : Queues, sent : SUBSET Fds, left : Int]

CachedInv ==
  /\ cached \in [DOMAIN cached -> Records]
  /\ \A m \in DOMAIN cached : \A fd \in cached[m].sent :
       \E s \in DOMAIN senders : senders[s].msg = m /\ senders[s].fd = fd
  /\ \A h \in Conns :
       serving[h].pc \in {"walk", "take"} /\ serving[h].msg \in DOMAIN cached =>
         cached[serving[h].msg].queue = QueueOf(h)

AliveInv ==
  \A k \in Conns : Alive(k) =>
    /\ \A s \in DOMAIN senders : senders[s].fd = fdOf[k] => senders[s].for = k
    /\ \A q \in Queues : InQueue(fdOf[k], q) => serving[k].pc \in Listed /\ QueueOf(k) = q

(* Who is still to give message m to connection k, listed at place n. *)
Given(k, m) == \E s \in DOMAIN senders : senders[s].msg = m /\ senders[s].for = k
ToMap(k, m) == serving[k].pc = "list" \/ (serving[k].pc = "map" /\ m \in serving[k].listed)
ToWalk(m, n) == \E h \in Conns : /\ serving[h].pc \in {"walk", "take"}
                                 /\ serving[h].msg = m /\ serving[h].i <= n

MissedInv ==
  \A k \in Conns : Alive(k) =>
    \A m \in DOMAIN cached \ disturbed : \A n \in DOMAIN suscriptors[cached[m].queue] :
      suscriptors[cached[m].queue][n] = fdOf[k] => Given(k, m) \/ ToMap(k, m) \/ ToWalk(m, n)

LiveInv == CachedInv /\ AliveInv /\ MissedInv

-----------------------------------------------------------------------------
(* Lemmas about the operators.                                             *)

(* An entry of another descriptor is still there when one is removed.      *)
LEMMA OthersStay ==
  ASSUME NEW list \in Seq(Fds), NEW fd, NEW i \in DOMAIN list, list[i] # fd
  PROVE  \E n \in DOMAIN RemoveFirst(list, fd) : RemoveFirst(list, fd)[n] = list[i]
<1> DEFINE At == {j \in 1 .. Len(list) : list[j] = fd /\ \A n \in 1 .. j - 1 : list[n] # fd}
<1>1. Len(list) \in Nat /\ DOMAIN list = 1 .. Len(list)
  OBVIOUS
<1>2. RemoveFirst(list, fd) =
        [j \in 1 .. Len(list) - Cardinality(At) |->
           IF \E n \in At : n <= j THEN list[j + 1] ELSE list[j]]
  BY DEF RemoveFirst
<1>3. CASE At = {}
  <2>1. Cardinality(At) = 0
    BY <1>3, FS_EmptySet
  <2>2. RemoveFirst(list, fd) = [j \in 1 .. Len(list) |-> list[j]]
    BY <1>1, <1>2, <1>3, <2>1
  <2> QED BY <1>1, <2>2
<1>4. CASE At # {}
  <2>1. PICK a \in At : TRUE
    BY <1>4
  <2>2. a \in 1 .. Len(list) /\ At = {a} /\ list[a] = fd
    BY <1>1, <2>1
  <2>3. Cardinality(At) = 1
    BY <2>2, FS_Singleton
  <2>4. RemoveFirst(list, fd) = [j \in 1 .. Len(list) - 1 |-> IF a <= j THEN list[j + 1] ELSE list[j]]
    BY <1>2, <2>2, <2>3
  <2> HIDE DEF At
  <2>5. CASE i < a
    <3>1. i \in 1 .. Len(list) - 1 /\ ~ (a <= i)
      BY <1>1, <2>2, <2>5
    <3> QED BY <2>4, <3>1
  <2>6. CASE i > a
    <3>1. i - 1 \in 1 .. Len(list) - 1 /\ a <= i - 1 /\ (i - 1) + 1 = i
      BY <1>1, <2>2, <2>6
    <3> QED BY <2>4, <3>1
  <2> QED BY <1>1, <2>2, <2>5, <2>6
<1> QED BY <1>3, <1>4

(* A list that does not have the descriptor stays as it is.                *)
LEMMA AbsentRemovesNothing ==
  ASSUME NEW list \in Seq(Fds), NEW fd, \A i \in DOMAIN list : list[i] # fd
  PROVE  RemoveFirst(list, fd) = list
<1> DEFINE At == {j \in 1 .. Len(list) : list[j] = fd /\ \A n \in 1 .. j - 1 : list[n] # fd}
<1>1. Len(list) \in Nat /\ DOMAIN list = 1 .. Len(list)
  OBVIOUS
<1>2. RemoveFirst(list, fd) =
        [j \in 1 .. Len(list) - Cardinality(At) |->
           IF \E n \in At : n <= j THEN list[j + 1] ELSE list[j]]
  BY DEF RemoveFirst
<1>3. At = {}
  BY <1>1
<1>4. Cardinality(At) = 0
  BY <1>3, FS_EmptySet
<1>5. RemoveFirst(list, fd) = [j \in 1 .. Len(list) |-> list[j]]
  BY <1>1, <1>2, <1>3, <1>4
<1> QED BY <1>1, <1>5

(* What a removal of another descriptor does to the entries of this one.   *)
EntriesStay(fd) ==
  \A q \in Queues :
    (\E i \in DOMAIN suscriptors[q] : suscriptors[q][i] = fd) =>
      \E i \in DOMAIN suscriptors'[q] : suscriptors'[q][i] = fd

(* An entry may move, but not in a list somebody walks over undisturbed.   *)
PlacesStay ==
  \A q \in Queues : \A n \in DOMAIN suscriptors'[q] :
    \E old \in DOMAIN suscriptors[q] :
      /\ suscriptors[q][old] = suscriptors'[q][n]
      /\ \/ old = n
         \/ \A h \in Conns : serving[h].pc \in {"walk", "take"} /\ QueueOf(h) = q =>
              serving[h].msg \in disturbed'

LEMMA SameListsStay ==
  ASSUME UNCHANGED suscriptors
  PROVE  PlacesStay /\ \A fd : EntriesStay(fd)
BY DEF PlacesStay, EntriesStay

LEMMA RemovedStay ==
  ASSUME Types, NEW gone, RemoveFromQueues(gone)
  PROVE  /\ PlacesStay
         /\ \A fd : fd # gone => EntriesStay(fd)
         /\ disturbed \subseteq disturbed'
<1>1. /\ suscriptors' = [q \in Queues |-> RemoveFirst(suscriptors[q], gone)]
      /\ disturbed' = disturbed \cup
           {serving[k].msg : k \in {j \in Conns :
              /\ serving[j].pc \in {"walk", "take"}
              /\ \E i \in DOMAIN suscriptors[QueueOf(j)] : suscriptors[QueueOf(j)][i] = gone}}
  BY DEF RemoveFromQueues
<1>2. ASSUME NEW q \in Queues
      PROVE  /\ suscriptors[q] \in Seq(Fds) /\ suscriptors'[q] = RemoveFirst(suscriptors[q], gone)
             /\ Shortened(suscriptors'[q], suscriptors[q])
  BY <1>1, RemoveFirstShortens DEF Types
<1>3. PlacesStay
  <2>1. SUFFICES ASSUME NEW q \in Queues, NEW n \in DOMAIN suscriptors'[q]
                 PROVE  \E old \in DOMAIN suscriptors[q] :
                          /\ suscriptors[q][old] = suscriptors'[q][n]
                          /\ \/ old = n
                             \/ \A h \in Conns : serving[h].pc \in {"walk", "take"} /\ QueueOf(h) = q =>
                                  serving[h].msg \in disturbed'
    BY DEF PlacesStay
  <2>2. CASE \A i \in DOMAIN suscriptors[q] : suscriptors[q][i] # gone
    <3>1. suscriptors'[q] = suscriptors[q]
      BY <1>2, <2>2, AbsentRemovesNothing
    <3> QED BY <2>1, <3>1
  <2>3. CASE \E i \in DOMAIN suscriptors[q] : suscriptors[q][i] = gone
    <3>1. \E old \in DOMAIN suscriptors[q] : suscriptors[q][old] = suscriptors'[q][n]
      BY <1>2, <2>1 DEF Shortened
    <3>2. \A h \in Conns : serving[h].pc \in {"walk", "take"} /\ QueueOf(h) = q =>
            serving[h].msg \in disturbed'
      BY <1>1, <2>3
    <3> QED BY <3>1, <3>2
  <2> QED BY <2>2, <2>3
<1>4. ASSUME NEW fd, fd # gone PROVE EntriesStay(fd)
  <2>1. SUFFICES ASSUME NEW q \in Queues, NEW i \in DOMAIN suscriptors[q], suscriptors[q][i] = fd
                 PROVE  \E n \in DOMAIN suscriptors'[q] : suscriptors'[q][n] = fd
    BY DEF EntriesStay
  <2> QED BY <1>2, <1>4, <2>1, OthersStay
<1> QED BY <1>1, <1>3, <1>4

(* A first connection is the only one on its descriptor while it is open.  *)
LEMMA AliveAlone ==
  ASSUME Types, SocketInv, NEW k, Alive(k)
  PROVE  /\ k \in Conns /\ k # None /\ fdOf[k] \in Fds
         /\ \A j \in Accepted : fdOf[j] = fdOf[k] => j = k
<1>1. /\ k \in Accepted /\ FirstIn(fdOf, k) /\ sockets[fdOf[k]] = k
      /\ Len(fdOf) \in Nat /\ Len(fdOf) <= NConns /\ NConns \in Nat /\ Accepted = 1 .. Len(fdOf)
  BY Bounds DEF Alive, Types, Accepted
<1>2. k \in Conns /\ k # None /\ fdOf[k] \in Fds
  BY <1>1 DEF Types, Conns, None
<1>3. ASSUME NEW j \in Accepted, fdOf[j] = fdOf[k] PROVE j = k
  <2>1. j <= k
    BY <1>1, <1>2, <1>3 DEF SocketInv
  <2>2. j \notin 1 .. k - 1
    BY <1>1, <1>3 DEF FirstIn
  <2> QED BY <1>1, <2>1, <2>2
<1> QED BY <1>2, <1>3

LEMMA OpenAlive ==
  ASSUME Types, OpenInv, NEW k \in open, FirstIn(fdOf, k)
  PROVE  Alive(k)
BY DEF Types, OpenInv, Alive

(* Its sender threads were started after it had entered a list.            *)
LEMMA SentAreListed ==
  ASSUME Types, SocketInv, SenderFdInv, NEW k, Alive(k),
         NEW s \in DOMAIN senders, senders[s].fd = fdOf[k]
  PROVE  serving[k].pc \in Listed
BY AliveAlone DEF SenderFdInv

-----------------------------------------------------------------------------
(* Most steps neither start a thread nor end one that gives a message.     *)

(* A connection whose client is there keeps what it has.                   *)
Undisturbed(k) ==
  /\ sockets'[fdOf[k]] = k
  /\ EntriesStay(fdOf[k])
  /\ \A s \in DOMAIN senders :
       senders[s].fd = fdOf[k] => senders'[s].pc \notin {"remove", "close"}
  /\ \/ /\ serving'[k] = serving[k]
        /\ serving[k].pc = "read" => inbox'[k] # <<>> /\ Head(inbox'[k]) = Head(inbox[k])
     \/ /\ serving'[k].pc \notin {"none", "read", "remove", "close"}
        /\ serving'[k].package = request[k]
        /\ serving'[k].pc \in {"walk", "take"} => request[k].op = "MESSAGE"
        /\ serving'[k].pc \in Listed /\ request[k].op = "SUBSCRIPTION" =>
             \/ serving[k].pc \in Listed
             \/ \E i \in DOMAIN suscriptors'[request[k].arg] : suscriptors'[request[k].arg][i] = fdOf[k]

ListedGoOn == \A j \in Conns : serving[j].pc \in Listed => serving'[j].pc \in Listed

(* A sender thread goes on, or is new.                                     *)
SendersGoOn ==
  \A s \in DOMAIN senders' :
    \/ /\ s \in DOMAIN senders /\ senders'[s].fd = senders[s].fd
       /\ senders'[s].pc = "receive" =>
            \/ senders[s].pc = "receive" /\ senders'[s].at = senders[s].at
            \/ senders'[s].at \in Accepted /\ fdOf[senders'[s].at] = senders[s].fd
    \/ /\ s \notin DOMAIN senders /\ senders'[s].pc = "get"
       /\ \E j \in Conns : j \in Accepted /\ fdOf[j] = senders'[s].fd /\ serving'[j].pc \in Listed

LEMMA ConnStep ==
  ASSUME IInv, ConnInv, ListedGoOn, SendersGoOn,
         UNCHANGED <<fdOf, request>>, open' \subseteq open,
         \A k \in open' : FirstIn(fdOf, k) => Undisturbed(k)
  PROVE  ConnInv'
<1>1. Accepted' = Accepted /\ open \subseteq Accepted /\ Accepted \subseteq Conns
  BY Bounds DEF IInv, Types, Accepted, Conns
<1>2. SenderFdInv'
  <2>1. SUFFICES ASSUME NEW s \in DOMAIN senders'
                 PROVE  /\ \E j \in Conns : j \in Accepted /\ fdOf[j] = senders'[s].fd /\ serving'[j].pc \in Listed
                        /\ senders'[s].pc = "receive" =>
                             senders'[s].at \in Accepted /\ fdOf[senders'[s].at] = senders'[s].fd
    BY <1>1 DEF SenderFdInv
  <2>2. CASE s \in DOMAIN senders
    <3>1. \E j \in Conns : j \in Accepted /\ fdOf[j] = senders[s].fd /\ serving[j].pc \in Listed
      BY <2>2 DEF ConnInv, SenderFdInv
    <3>2. senders[s].pc = "receive" => senders[s].at \in Accepted /\ fdOf[senders[s].at] = senders[s].fd
      BY <2>2 DEF ConnInv, SenderFdInv
    <3>3. /\ senders'[s].fd = senders[s].fd
          /\ senders'[s].pc = "receive" =>
               \/ senders[s].pc = "receive" /\ senders'[s].at = senders[s].at
               \/ senders'[s].at \in Accepted /\ fdOf[senders'[s].at] = senders[s].fd
      BY <2>1, <2>2 DEF SendersGoOn
    <3> QED BY <3>1, <3>2, <3>3 DEF ListedGoOn
  <2>3. CASE s \notin DOMAIN senders
    BY <2>1, <2>3 DEF SendersGoOn
  <2> QED BY <2>2, <2>3
<1>3. OpenInv'
  <2>1. SUFFICES ASSUME NEW k \in open', FirstIn(fdOf, k)
                 PROVE  /\ sockets'[fdOf[k]] = k
                        /\ serving'[k].pc \notin {"none", "remove", "close"}
                        /\ serving'[k].pc = "read" => inbox'[k] # <<>> /\ Head(inbox'[k]) = request[k]
                        /\ serving'[k].pc # "read" => serving'[k].package = request[k]
                        /\ serving'[k].pc \in {"walk", "take"} => request[k].op = "MESSAGE"
                        /\ request[k].op = "SUBSCRIPTION" /\ serving'[k].pc \in Listed =>
                             \E i \in DOMAIN suscriptors'[request[k].arg] :
                               suscriptors'[request[k].arg][i] = fdOf[k]
                        /\ \A s \in DOMAIN senders' :
                             senders'[s].fd = fdOf[k] => senders'[s].pc \notin {"remove", "close"}
    BY DEF OpenInv, InQueue
  <2>2. Undisturbed(k) /\ k \in Conns
    BY <1>1, <2>1
  <2>3. /\ serving[k].pc \notin {"none", "remove", "close"}
        /\ serving[k].pc = "read" => inbox[k] # <<>> /\ Head(inbox[k]) = request[k]
        /\ serving[k].pc # "read" => serving[k].package = request[k]
        /\ serving[k].pc \in {"walk", "take"} => request[k].op = "MESSAGE"
        /\ request[k].op = "SUBSCRIPTION" /\ serving[k].pc \in Listed => InQueue(fdOf[k], request[k].arg)
    BY <2>1 DEF ConnInv, OpenInv
  <2>4. \A s \in DOMAIN senders' :
          senders'[s].fd = fdOf[k] => senders'[s].pc \notin {"remove", "close"}
    BY <2>2 DEF SendersGoOn, Undisturbed
  <2>5. request[k].op = "SUBSCRIPTION" /\ serving'[k].pc \in Listed =>
          \E i \in DOMAIN suscriptors'[request[k].arg] : suscriptors'[request[k].arg][i] = fdOf[k]
    <3>1. SUFFICES ASSUME request[k].op = "SUBSCRIPTION", serving'[k].pc \in Listed
                   PROVE  \E i \in DOMAIN suscriptors'[request[k].arg] : suscriptors'[request[k].arg][i] = fdOf[k]
      OBVIOUS
    <3>2. request[k].arg \in Queues
      BY <2>2, <3>1, RequestKinds DEF IInv, CountInv
    <3>3. EntriesStay(fdOf[k])
      BY <2>2 DEF Undisturbed
    <3>4. CASE serving[k].pc \in Listed
      BY <2>3, <3>1, <3>2, <3>3, <3>4 DEF InQueue, EntriesStay
    <3>5. CASE serving[k].pc \notin Listed
      BY <2>2, <3>1, <3>5 DEF Undisturbed
    <3> QED BY <3>4, <3>5
  <2>6. sockets'[fdOf[k]] = k
    BY <2>2 DEF Undisturbed
  <2>7. CASE /\ serving'[k] = serving[k]
             /\ serving[k].pc = "read" => inbox'[k] # <<>> /\ Head(inbox'[k]) = Head(inbox[k])
    BY <2>3, <2>4, <2>5, <2>6, <2>7
  <2>8. CASE /\ serving'[k].pc \notin {"none", "read", "remove", "close"}
             /\ serving'[k].package = request[k]
             /\ serving'[k].pc \in {"walk", "take"} => request[k].op = "MESSAGE"
    BY <2>4, <2>5, <2>6, <2>8
  <2> QED BY <2>2, <2>7, <2>8 DEF Undisturbed
<1> QED BY <1>2, <1>3 DEF ConnInv

LEMMA ConnFrame ==
  ASSUME IInv, ConnInv, QuietThreads, SameSenders,
         UNCHANGED <<fdOf, request>>, open' \subseteq open,
         \A s \in DOMAIN senders : senders'[s].pc = "receive" =>
           \/ senders[s].pc = "receive" /\ senders'[s].at = senders[s].at
           \/ senders'[s].at \in Accepted /\ fdOf[senders'[s].at] = senders[s].fd,
         \A k \in open' : FirstIn(fdOf, k) => Undisturbed(k)
  PROVE  ConnInv'
<1>1. ListedGoOn
  BY DEF QuietThreads, ListedGoOn, Listed
<1>2. SendersGoOn
  BY DEF SameSenders, SendersGoOn
<1> QED BY <1>1, <1>2, ConnStep

(* What a step may do to the cache without touching what it owes.          *)
NotesOnly ==
  /\ DOMAIN cached' = DOMAIN cached
  /\ cached' \in [DOMAIN cached -> Records]
  /\ \A m \in DOMAIN cached :
       /\ cached'[m].queue = cached[m].queue
       /\ \A fd \in cached'[m].sent : fd \in cached[m].sent \/
            \E s \in DOMAIN senders : senders[s].msg = m /\ senders[s].fd = fd

(* A walk goes on, or has come to the end of its list.                     *)
WalksGoOn ==
  \A h \in Conns : serving[h].pc \in {"walk", "take"} =>
    \/ /\ serving'[h].pc \in {"walk", "take"}
       /\ serving'[h].msg = serving[h].msg /\ serving'[h].i = serving[h].i
    \/ \A n \in DOMAIN suscriptors[QueueOf(h)] : ~ (serving[h].i <= n)

LEMMA LiveFrame ==
  ASSUME IInv, LiveInv, LessSockets, PlacesStay, QuietThreads, SameSenders, NotesOnly, WalksGoOn,
         UNCHANGED fdOf, disturbed \subseteq disturbed'
  PROVE  LiveInv'
<1> USE DEF InQueue
<1>1. /\ Accepted' = Accepted
      /\ \A k \in Conns : Alive(k)' => Alive(k)
  <2>1. Accepted' = Accepted
    BY DEF Accepted
  <2>2. ASSUME NEW k \in Conns, Alive(k)' PROVE Alive(k)
    <3>1. k \in Accepted /\ FirstIn(fdOf, k) /\ sockets'[fdOf[k]] = k
      BY <2>1, <2>2 DEF Alive
    <3>2. fdOf[k] \in Fds /\ k # None
      BY <3>1 DEF IInv, Types, Accepted, None
    <3> QED BY <3>1, <3>2 DEF LessSockets, Alive
  <2> QED BY <2>1, <2>2
<1>2. CachedInv'
  <2>1. cached' \in [DOMAIN cached' -> Records]
    BY DEF NotesOnly
  <2>2. ASSUME NEW m \in DOMAIN cached', NEW fd \in cached'[m].sent
        PROVE  \E s \in DOMAIN senders' : senders'[s].msg = m /\ senders'[s].fd = fd
    <3>1. \E s \in DOMAIN senders : senders[s].msg = m /\ senders[s].fd = fd
      BY <2>2 DEF NotesOnly, LiveInv, CachedInv
    <3> QED BY <3>1 DEF SameSenders
  <2>3. ASSUME NEW h \in Conns, serving'[h].pc \in {"walk", "take"}, serving'[h].msg \in DOMAIN cached'
        PROVE  cached'[serving'[h].msg].queue = QueueOf(h)'
    BY <2>3 DEF NotesOnly, QuietThreads, QueueOf, LiveInv, CachedInv
  <2> QED BY <2>1, <2>2, <2>3 DEF CachedInv
<1>3. AliveInv'
  <2>1. SUFFICES ASSUME NEW k \in Conns, Alive(k)'
                 PROVE  /\ \A s \in DOMAIN senders' : senders'[s].fd = fdOf[k] => senders'[s].for = k
                        /\ \A q \in Queues : \A i \in DOMAIN suscriptors'[q] : suscriptors'[q][i] = fdOf[k] =>
                             serving'[k].pc \in Listed /\ QueueOf(k)' = q
    BY DEF AliveInv
  <2>2. \A s \in DOMAIN senders' : senders'[s].fd = fdOf[k] => senders'[s].for = k
    BY <1>1, <2>1 DEF SameSenders, LiveInv, AliveInv
  <2>3. ASSUME NEW q \in Queues, NEW i \in DOMAIN suscriptors'[q], suscriptors'[q][i] = fdOf[k]
        PROVE  serving'[k].pc \in Listed /\ QueueOf(k)' = q
    <3>1. \E old \in DOMAIN suscriptors[q] : suscriptors[q][old] = fdOf[k]
      BY <2>3 DEF PlacesStay
    <3>2. serving[k].pc \in Listed /\ QueueOf(k) = q
      BY <1>1, <2>1, <3>1 DEF LiveInv, AliveInv
    <3> QED BY <3>2 DEF QuietThreads, Listed, QueueOf
  <2> QED BY <2>2, <2>3
<1>4. MissedInv'
  <2>1. SUFFICES ASSUME NEW k \in Conns, Alive(k)', NEW m \in DOMAIN cached' \ disturbed',
                        NEW n \in DOMAIN suscriptors'[cached'[m].queue],
                        suscriptors'[cached'[m].queue][n] = fdOf[k]
                 PROVE  Given(k, m)' \/ ToMap(k, m)' \/ ToWalk(m, n)'
    BY DEF MissedInv
  <2>2. m \in DOMAIN cached \ disturbed /\ cached'[m].queue = cached[m].queue /\ cached[m].queue \in Queues
    BY <2>1 DEF NotesOnly, LiveInv, CachedInv, Records
  <2> DEFINE q == cached[m].queue
  <2>3. PICK old \in DOMAIN suscriptors[q] :
          /\ suscriptors[q][old] = fdOf[k]
          /\ \/ old = n
             \/ \A h \in Conns : serving[h].pc \in {"walk", "take"} /\ QueueOf(h) = q =>
                  serving[h].msg \in disturbed'
    BY <2>1, <2>2 DEF PlacesStay
  <2>4. Given(k, m) \/ ToMap(k, m) \/ ToWalk(m, old)
    BY <1>1, <2>1, <2>2, <2>3 DEF LiveInv, MissedInv
  <2>5. CASE Given(k, m)
    BY <2>5 DEF Given, SameSenders
  <2>6. CASE ToMap(k, m)
    BY <2>6 DEF ToMap, QuietThreads
  <2>7. CASE ToWalk(m, old)
    <3>1. PICK h \in Conns : /\ serving[h].pc \in {"walk", "take"}
                             /\ serving[h].msg = m /\ serving[h].i <= old
      BY <2>7 DEF ToWalk
    <3>2. QueueOf(h) = q
      BY <2>2, <3>1 DEF LiveInv, CachedInv
    <3>3. old = n
      BY <2>1, <2>3, <3>1, <3>2
    <3>4. /\ serving'[h].pc \in {"walk", "take"}
          /\ serving'[h].msg = serving[h].msg /\ serving'[h].i = serving[h].i
      BY <2>3, <3>1, <3>2 DEF WalksGoOn
    <3> QED BY <3>1, <3>3, <3>4 DEF ToWalk
  <2> QED BY <2>4, <2>5, <2>6, <2>7
<1> QED BY <1>2, <1>3, <1>4 DEF LiveInv

LEMMA NoNotes == ASSUME LiveInv, UNCHANGED cached PROVE NotesOnly
BY DEF LiveInv, CachedInv, NotesOnly

LEMMA SameWalks == ASSUME UNCHANGED serving PROVE WalksGoOn
BY DEF WalksGoOn

-----------------------------------------------------------------------------
(* The sender threads. *)

LEMMA GoneOn ==
  ASSUME Types, NEW s \in DOMAIN senders, NEW pc, senders' = Goto(s, pc)
  PROVE  /\ senders'[s].pc = pc /\ senders'[s].at = senders[s].at
         /\ \A t \in DOMAIN senders \ {s} : senders'[t] = senders[t]
BY DEF Types, Sent, Goto

(* A first connection with its client is alive, and one of the sender's.   *)
LEMMA OpenFacts ==
  ASSUME IInv, ConnInv, NEW k \in open, FirstIn(fdOf, k)
  PROVE  /\ Alive(k) /\ k \in Conns /\ k # None /\ fdOf[k] \in Fds /\ sockets[fdOf[k]] = k
         /\ \A j \in Accepted : fdOf[j] = fdOf[k] => j = k
         /\ \A s \in DOMAIN senders : senders[s].fd = fdOf[k] =>
              /\ senders[s].pc \notin {"remove", "close"}
              /\ serving[k].pc \in Listed
<1>1. Types /\ SocketInv /\ SenderFdInv /\ OpenInv
  BY DEF IInv, ConnInv
<1>2. Alive(k) /\ sockets[fdOf[k]] = k
  BY <1>1, OpenAlive DEF OpenInv
<1>3. /\ k \in Conns /\ k # None /\ fdOf[k] \in Fds
      /\ \A j \in Accepted : fdOf[j] = fdOf[k] => j = k
  BY <1>1, <1>2, AliveAlone
<1> QED BY <1>1, <1>2, <1>3, SentAreListed DEF OpenInv

(* A sender thread's step leaves a connection alone unless it is about to  *)
(* remove the client, and takes no request from it.                        *)
LEMMA SenderDisturbsNobody ==
  ASSUME IInv, ConnInv, NEW s \in DOMAIN senders, NEW k \in open, FirstIn(fdOf, k),
         UNCHANGED <<fdOf, serving>>, sockets'[fdOf[k]] = k, EntriesStay(fdOf[k]),
         \A t \in DOMAIN senders \ {s} : senders'[t] = senders[t],
         senders[s].fd = fdOf[k] => senders'[s].pc \notin {"remove", "close"},
         serving[k].pc = "read" => inbox'[k] = inbox[k]
  PROVE  Undisturbed(k)
<1>1. \A t \in DOMAIN senders : senders[t].fd = fdOf[k] => senders[t].pc \notin {"remove", "close"}
  BY OpenFacts
<1>2. serving[k].pc = "read" => inbox[k] # <<>>
  BY DEF ConnInv, OpenInv
<1> QED BY <1>1, <1>2 DEF Undisturbed

LEMMA SenderGetDelivers ==
  ASSUME IInv, ConnInv, LiveInv, NEW s \in DOMAIN senders, SenderGet(s)
  PROVE  ConnInv' /\ LiveInv'
<1>1. UNCHANGED <<fdOf, sockets, open, request, inbox, serving, ID, suscriptors, cached, disturbed>>
  BY DEF SenderGet, clientVars
<1>2. Types
  BY DEF IInv
<1>3. SameSenders
  BY <1>2, WentOn DEF SenderGet, SenderPcs
<1>4. /\ senders'[s].pc \in {"send", "done"}
      /\ \A t \in DOMAIN senders \ {s} : senders'[t] = senders[t]
  BY <1>2, GoneOn DEF SenderGet
<1>5. QuietThreads /\ LessSockets /\ WalksGoOn /\ NotesOnly /\ PlacesStay /\ \A fd : EntriesStay(fd)
  BY <1>1, SameThreads, SameSockets, SameWalks, NoNotes, SameListsStay
<1>6. ASSUME NEW k \in open', FirstIn(fdOf, k) PROVE Undisturbed(k)
  <2>1. k \in open /\ sockets'[fdOf[k]] = k
    BY <1>1, <1>6, OpenFacts
  <2> QED BY <1>1, <1>4, <1>5, <1>6, <2>1, SenderDisturbsNobody
<1>7. ConnInv'
  BY <1>1, <1>3, <1>4, <1>5, <1>6, ConnFrame
<1>8. LiveInv'
  BY <1>1, <1>3, <1>5, LiveFrame
<1> QED BY <1>7, <1>8

LEMMA SenderSendDelivers ==
  ASSUME IInv, ConnInv, LiveInv, NEW s \in DOMAIN senders, SenderSend(s)
  PROVE  ConnInv' /\ LiveInv'
<1>1. UNCHANGED <<fdOf, sockets, open, request, inbox, serving, ID, suscriptors, cached, disturbed>>
  BY DEF SenderSend
<1>2. Types
  BY DEF IInv
<1>3. SameSenders
  BY <1>2, WentOn DEF SenderSend, SenderPcs
<1>4. /\ \/ senders'[s].pc = "note"
         \/ senders'[s].pc = "remove" /\ sockets[senders[s].fd] \notin open
      /\ \A t \in DOMAIN senders \ {s} : senders'[t] = senders[t]
  BY <1>2, GoneOn DEF SenderSend
<1>5. QuietThreads /\ LessSockets /\ WalksGoOn /\ NotesOnly /\ PlacesStay /\ \A fd : EntriesStay(fd)
  BY <1>1, SameThreads, SameSockets, SameWalks, NoNotes, SameListsStay
<1>6. ASSUME NEW k \in open', FirstIn(fdOf, k) PROVE Undisturbed(k)
  <2>1. k \in open /\ sockets[fdOf[k]] = k /\ sockets'[fdOf[k]] = k
    BY <1>1, <1>6, OpenFacts
  <2>2. senders[s].fd = fdOf[k] => senders'[s].pc \notin {"remove", "close"}
    BY <1>4, <2>1
  <2> QED BY <1>1, <1>4, <1>5, <1>6, <2>1, <2>2, SenderDisturbsNobody
<1>7. ConnInv'
  BY <1>1, <1>3, <1>4, <1>5, <1>6, ConnFrame
<1>8. LiveInv'
  BY <1>1, <1>3, <1>5, LiveFrame
<1> QED BY <1>7, <1>8

LEMMA SenderNoteDelivers ==
  ASSUME IInv, ConnInv, LiveInv, NEW s \in DOMAIN senders, SenderNote(s)
  PROVE  ConnInv' /\ LiveInv'
<1> DEFINE m == senders[s].msg
           fd == senders[s].fd
<1>1. UNCHANGED <<fdOf, sockets, open, request, inbox, serving, ID, suscriptors, disturbed>>
  BY DEF SenderNote, clientVars
<1>2. Types
  BY DEF IInv
<1>3. SameSenders
  BY <1>2, WentOn DEF SenderNote, SenderPcs
<1>4. /\ senders'[s].pc = "wait"
      /\ \A t \in DOMAIN senders \ {s} : senders'[t] = senders[t]
  BY <1>2, GoneOn DEF SenderNote
<1>5. QuietThreads /\ LessSockets /\ WalksGoOn /\ PlacesStay /\ \A e : EntriesStay(e)
  BY <1>1, SameThreads, SameSockets, SameWalks, SameListsStay
<1>6. NotesOnly
  <2>1. cached \in [DOMAIN cached -> Records] /\ fd \in Fds
    BY <1>2 DEF LiveInv, CachedInv, Types, Sent
  <2>2. CASE m \in DOMAIN cached
    <3> DEFINE noted == Noted(m, fd)
    <3>1. /\ noted \in Records /\ noted.queue = cached[m].queue
          /\ noted.sent = cached[m].sent \cup {fd}
      <4>1. cached[m] \in Records
        BY <2>1, <2>2
      <4>2. PICK r \in Records : r = cached[m]
        BY <4>1
      <4> DEFINE more == r.sent \cup {fd}
                 next == r.left + 1
      <4>3. more \in SUBSET Fds /\ next \in Int
        <5>1. r.sent \in SUBSET Fds /\ r.left \in Int
          BY <4>2 DEF Records
        <5> QED BY <2>1, <5>1
      <4>4. PICK sent \in SUBSET Fds, left \in Int : sent = more /\ left = next
        BY <4>3
      <4>5. noted = [r EXCEPT !.sent = sent, !.left = left]
        BY <4>2, <4>4 DEF Noted
      <4>6. noted \in Records /\ noted.queue = r.queue /\ noted.sent = sent
        BY <4>5, ZenonT(40) DEF Records
      <4> QED BY <4>2, <4>4, <4>6
    <3>2. cached' = [cached EXCEPT ![m] = noted]
      BY <2>2 DEF SenderNote
    <3> HIDE DEF noted
    <3>3. DOMAIN cached' = DOMAIN cached /\ cached'[m] = noted
          /\ \A n \in DOMAIN cached \ {m} : cached'[n] = cached[n]
      BY <2>1, <2>2, <3>2
    <3>4. cached' \in [DOMAIN cached -> Records]
      BY <2>1, <3>1, <3>2
    <3>5. ASSUME NEW n \in DOMAIN cached
          PROVE  /\ cached'[n].queue = cached[n].queue
                 /\ \A e \in cached'[n].sent : e \in cached[n].sent \/
                      \E t \in DOMAIN senders : senders[t].msg = n /\ senders[t].fd = e
      BY <3>1, <3>3
    <3> QED BY <3>3, <3>4, <3>5 DEF NotesOnly
  <2>3. CASE m \notin DOMAIN cached
    BY <2>3, NoNotes DEF SenderNote
  <2> QED BY <2>2, <2>3
<1>7. ASSUME NEW k \in open', FirstIn(fdOf, k) PROVE Undisturbed(k)
  <2>1. k \in open /\ sockets'[fdOf[k]] = k
    BY <1>1, <1>7, OpenFacts
  <2> QED BY <1>1, <1>4, <1>5, <1>7, <2>1, SenderDisturbsNobody
<1>8. ConnInv'
  BY <1>1, <1>3, <1>4, <1>5, <1>7, ConnFrame
<1>9. LiveInv'
  BY <1>1, <1>3, <1>5, <1>6, LiveFrame
<1> QED BY <1>8, <1>9

LEMMA SenderWaitDelivers ==
  ASSUME IInv, ConnInv, LiveInv, NEW s \in DOMAIN senders, SenderWait(s)
  PROVE  ConnInv' /\ LiveInv'
<1> DEFINE c == sockets[senders[s].fd]
<1>1. UNCHANGED <<fdOf, sockets, open, request, inbox, serving, ID, suscriptors, cached, disturbed>>
  BY DEF SenderWait, clientVars
<1>2. Types /\ SocketInv
  BY DEF IInv
<1>3. c \in 0 .. NConns /\ (c # None => c \in Accepted /\ fdOf[c] = senders[s].fd)
  BY <1>2, Bounds DEF Types, Sent, SocketInv
<1>4. /\ SameSenders
      /\ \/ senders'[s].pc = "remove" /\ c = None
         \/ senders'[s].pc = "receive" /\ senders'[s].at = c /\ c # None
      /\ \A t \in DOMAIN senders \ {s} : senders'[t] = senders[t]
  <2>1. CASE c = None
    <3>1. senders' = Goto(s, "remove")
      BY <2>1 DEF SenderWait
    <3> QED BY <1>2, <2>1, <3>1, WentOn, GoneOn DEF SenderPcs
  <2>2. CASE c # None
    <3>1. senders' = [senders EXCEPT ![s].pc = "receive", ![s].at = c]
      BY <2>2 DEF SenderWait
    <3> HIDE DEF c
    <3> QED BY <1>2, <1>3, <2>2, <3>1, ZenonT(40) DEF Types, Sent, SenderPcs, SameSenders
  <2> QED BY <2>1, <2>2
<1>5. QuietThreads /\ LessSockets /\ WalksGoOn /\ NotesOnly /\ PlacesStay /\ \A fd : EntriesStay(fd)
  BY <1>1, SameThreads, SameSockets, SameWalks, NoNotes, SameListsStay
<1>6. ASSUME NEW k \in open', FirstIn(fdOf, k) PROVE Undisturbed(k)
  <2>1. k \in open /\ k # None /\ sockets[fdOf[k]] = k /\ sockets'[fdOf[k]] = k
    BY <1>1, <1>6, OpenFacts
  <2>2. senders[s].fd = fdOf[k] => senders'[s].pc \notin {"remove", "close"}
    BY <1>4, <2>1
  <2> QED BY <1>1, <1>4, <1>5, <1>6, <2>1, <2>2, SenderDisturbsNobody
<1>7. ConnInv'
  BY <1>1, <1>3, <1>4, <1>5, <1>6, ConnFrame
<1>8. LiveInv'
  BY <1>1, <1>4, <1>5, LiveFrame
<1> QED BY <1>7, <1>8

LEMMA SenderReceiveDelivers ==
  ASSUME IInv, ConnInv, LiveInv, NEW s \in DOMAIN senders, SenderReceive(s)
  PROVE  ConnInv' /\ LiveInv'
<1> DEFINE at == senders[s].at
           m == senders[s].msg
<1>1. UNCHANGED <<fdOf, sockets, open, request, serving, ID, suscriptors, disturbed>>
  BY DEF SenderReceive, clientVars
<1>2. Types /\ SenderFdInv
  BY DEF IInv, ConnInv
<1>3. SameSenders
  BY <1>2, WentOn DEF SenderReceive, SenderPcs, Unexpected
<1>4. at \in Accepted /\ fdOf[at] = senders[s].fd
  BY <1>2 DEF SenderReceive, SenderFdInv
<1>5. /\ \/ senders'[s].pc = "done"
         \/ senders'[s].pc = "remove" /\ at \notin open
      /\ \A t \in DOMAIN senders \ {s} : senders'[t] = senders[t]
  BY <1>2, GoneOn DEF SenderReceive, Unexpected, Garbage
<1>6. \/ UNCHANGED inbox \/ inbox' = [inbox EXCEPT ![at] = Tail(@)]
  BY DEF SenderReceive
<1>7. NotesOnly
  <2>1. cached' \in {cached, Acknowledged(m)}
    BY DEF SenderReceive
  <2>2. CASE cached' = Acknowledged(m) /\ m \in DOMAIN cached
    <3>1. cached \in [DOMAIN cached -> Records]
      BY DEF LiveInv, CachedInv
    <3>2. /\ cached' \in [DOMAIN cached -> Records]
          /\ \A n \in DOMAIN cached : cached'[n].queue = cached[n].queue /\ cached'[n].sent = cached[n].sent
      BY <2>2, <3>1 DEF Acknowledged, Records
    <3> QED BY <3>2 DEF NotesOnly
  <2>3. CASE cached' = cached
    BY <2>3, NoNotes
  <2> QED BY <2>1, <2>2, <2>3 DEF Acknowledged
<1>8. QuietThreads /\ LessSockets /\ WalksGoOn /\ PlacesStay /\ \A fd : EntriesStay(fd)
  BY <1>1, SameThreads, SameSockets, SameWalks, SameListsStay
<1>9. ASSUME NEW k \in open', FirstIn(fdOf, k) PROVE Undisturbed(k)
  <2>1. /\ k \in open /\ k \in Conns /\ sockets'[fdOf[k]] = k
        /\ senders[s].fd = fdOf[k] => at = k /\ serving[k].pc \in Listed
        /\ \A j \in Accepted : fdOf[j] = fdOf[k] => j = k
    BY <1>1, <1>4, <1>9, OpenFacts
  <2>2. senders[s].fd = fdOf[k] => senders'[s].pc \notin {"remove", "close"}
    BY <1>5, <2>1
  <2>3. serving[k].pc = "read" => inbox'[k] = inbox[k]
    <3>1. serving[k].pc = "read" => at # k
      BY <1>4, <2>1 DEF Listed
    <3> HIDE DEF at
    <3> QED BY <1>2, <1>6, <2>1, <3>1 DEF Types
  <2> QED BY <1>1, <1>5, <1>8, <1>9, <2>1, <2>2, <2>3, SenderDisturbsNobody
<1>10. ConnInv'
  BY <1>1, <1>3, <1>5, <1>8, <1>9, ConnFrame
<1>11. LiveInv'
  BY <1>1, <1>3, <1>7, <1>8, LiveFrame
<1> QED BY <1>10, <1>11

LEMMA SenderRemoveDelivers ==
  ASSUME IInv, ConnInv, LiveInv, NEW s \in DOMAIN senders, SenderRemove(s)
  PROVE  ConnInv' /\ LiveInv'
<1>1. UNCHANGED <<fdOf, sockets, open, request, inbox, serving, ID, cached>>
  BY DEF SenderRemove, clientVars
<1>2. Types
  BY DEF IInv
<1>3. SameSenders
  BY <1>2, WentOn DEF SenderRemove, SenderPcs
<1>4. /\ senders[s].pc = "remove" /\ senders'[s].pc = "close"
      /\ \A t \in DOMAIN senders \ {s} : senders'[t] = senders[t]
  BY <1>2, GoneOn DEF SenderRemove
<1>5. QuietThreads /\ LessSockets /\ WalksGoOn /\ NotesOnly
  BY <1>1, SameThreads, SameSockets, SameWalks, NoNotes
<1>6. PlacesStay /\ (\A fd : fd # senders[s].fd => EntriesStay(fd)) /\ disturbed \subseteq disturbed'
  BY <1>2, RemovedStay DEF SenderRemove
<1>7. ASSUME NEW k \in open', FirstIn(fdOf, k) PROVE Undisturbed(k)
  <2>1. k \in open /\ sockets'[fdOf[k]] = k /\ senders[s].fd # fdOf[k]
    BY <1>1, <1>4, <1>7, OpenFacts
  <2>2. EntriesStay(fdOf[k])
    BY <1>6, <2>1
  <2> QED BY <1>1, <1>4, <1>7, <2>1, <2>2, SenderDisturbsNobody
<1>8. ConnInv'
  BY <1>1, <1>3, <1>4, <1>5, <1>7, ConnFrame
<1>9. LiveInv'
  BY <1>1, <1>3, <1>5, <1>6, LiveFrame
<1> QED BY <1>8, <1>9

LEMMA SenderCloseDelivers ==
  ASSUME IInv, ConnInv, LiveInv, NEW s \in DOMAIN senders, SenderClose(s)
  PROVE  ConnInv' /\ LiveInv'
<1>1. /\ UNCHANGED <<fdOf, open, request, inbox, serving, ID, suscriptors, cached, disturbed>>
      /\ sockets' = Closed(senders[s].fd)
  BY DEF SenderClose, clientVars
<1>2. Types
  BY DEF IInv
<1>3. SameSenders
  BY <1>2, WentOn DEF SenderClose, SenderPcs
<1>4. /\ senders[s].pc = "close" /\ senders'[s].pc = "done"
      /\ \A t \in DOMAIN senders \ {s} : senders'[t] = senders[t]
  BY <1>2, GoneOn DEF SenderClose
<1>5. QuietThreads /\ WalksGoOn /\ NotesOnly /\ PlacesStay /\ \A fd : EntriesStay(fd)
  BY <1>1, SameThreads, SameWalks, NoNotes, SameListsStay
<1>6. LessSockets
  BY <1>1, <1>2, ClosedSocket
<1>7. ASSUME NEW k \in open', FirstIn(fdOf, k) PROVE Undisturbed(k)
  <2>1. k \in open /\ sockets[fdOf[k]] = k /\ senders[s].fd # fdOf[k] /\ fdOf[k] \in Fds
    BY <1>1, <1>4, <1>7, OpenFacts
  <2>2. sockets'[fdOf[k]] = k
    BY <1>1, <1>2, <2>1 DEF Closed, Types
  <2> QED BY <1>1, <1>4, <1>5, <1>7, <2>1, <2>2, SenderDisturbsNobody
<1>8. ConnInv'
  BY <1>1, <1>3, <1>4, <1>5, <1>7, ConnFrame
<1>9. LiveInv'
  BY <1>1, <1>3, <1>5, <1>6, LiveFrame
<1> QED BY <1>8, <1>9

-----------------------------------------------------------------------------
(* The clients, and the threads that serve them. *)

LEMMA SameThreadsOfSenders ==
  ASSUME Types, UNCHANGED senders
  PROVE  /\ SameSenders
         /\ \A s \in DOMAIN senders : senders'[s].pc = "receive" =>
              senders[s].pc = "receive" /\ senders'[s].at = senders[s].at
BY DEF SameSenders, Types

(* A step of another connection's thread leaves this one alone unless it   *)
(* is about to remove the client.                                          *)
LEMMA ThreadDisturbsNobody ==
  ASSUME IInv, ConnInv, NEW k \in open, FirstIn(fdOf, k), UNCHANGED <<fdOf, senders>>,
         sockets'[fdOf[k]] = k, EntriesStay(fdOf[k]), serving'[k] = serving[k],
         serving[k].pc = "read" => inbox'[k] # <<>> /\ Head(inbox'[k]) = Head(inbox[k])
  PROVE  Undisturbed(k)
<1>1. \A t \in DOMAIN senders : senders[t].fd = fdOf[k] => senders[t].pc \notin {"remove", "close"}
  BY OpenFacts
<1> QED BY <1>1 DEF Undisturbed

LEMMA ClientAckDelivers ==
  ASSUME IInv, ConnInv, LiveInv, NEW c \in Conns, ClientAck(c)
  PROVE  ConnInv' /\ LiveInv'
<1>1. UNCHANGED <<fdOf, sockets, open, request, serving, ID, suscriptors, cached, senders, disturbed>>
  BY DEF ClientAck
<1>2. Types
  BY DEF IInv
<1>3. PICK ack : inbox' = [inbox EXCEPT ![c] = Append(@, ack)]
  BY DEF ClientAck
<1>4. /\ SameSenders
      /\ \A s \in DOMAIN senders : senders'[s].pc = "receive" =>
           senders[s].pc = "receive" /\ senders'[s].at = senders[s].at
  BY <1>1, <1>2, SameThreadsOfSenders
<1>5. QuietThreads /\ LessSockets /\ WalksGoOn /\ NotesOnly /\ PlacesStay /\ \A fd : EntriesStay(fd)
  BY <1>1, SameThreads, SameSockets, SameWalks, NoNotes, SameListsStay
<1>6. ASSUME NEW k \in open', FirstIn(fdOf, k) PROVE Undisturbed(k)
  <2>1. k \in open /\ k \in Conns /\ sockets'[fdOf[k]] = k
    BY <1>1, <1>6, OpenFacts
  <2>2. serving[k].pc = "read" => inbox[k] # <<>>
    BY <1>6, <2>1 DEF ConnInv, OpenInv
  <2>3. serving[k].pc = "read" => inbox'[k] # <<>> /\ Head(inbox'[k]) = Head(inbox[k])
    <3>1. CASE k = c
      <4>1. inbox[k] \in Seq(Packages) /\ inbox'[k] = Append(inbox[k], ack)
        BY <1>2, <1>3, <2>1, <3>1 DEF Types
      <4> QED BY <2>2, <4>1
    <3>2. CASE k # c
      <4>1. inbox'[k] = inbox[k]
        BY <1>2, <1>3, <2>1, <3>2 DEF Types
      <4> QED BY <2>2, <4>1
    <3> QED BY <3>1, <3>2
  <2> QED BY <1>1, <1>5, <1>6, <2>1, <2>3, ThreadDisturbsNobody
<1>7. ConnInv'
  BY <1>1, <1>4, <1>5, <1>6, ConnFrame
<1>8. LiveInv'
  BY <1>1, <1>4, <1>5, LiveFrame
<1> QED BY <1>7, <1>8

LEMMA ClientCloseDelivers ==
  ASSUME IInv, ConnInv, LiveInv, NEW c \in Conns, ClientClose(c)
  PROVE  ConnInv' /\ LiveInv'
<1>1. /\ UNCHANGED <<fdOf, sockets, request, inbox, serving, ID, suscriptors, cached, senders, disturbed>>
      /\ open' \subseteq open
  BY DEF ClientClose
<1>2. Types
  BY DEF IInv
<1>3. /\ SameSenders
      /\ \A s \in DOMAIN senders : senders'[s].pc = "receive" =>
           senders[s].pc = "receive" /\ senders'[s].at = senders[s].at
  BY <1>1, <1>2, SameThreadsOfSenders
<1>4. QuietThreads /\ LessSockets /\ WalksGoOn /\ NotesOnly /\ PlacesStay /\ \A fd : EntriesStay(fd)
  BY <1>1, SameThreads, SameSockets, SameWalks, NoNotes, SameListsStay
<1>5. ASSUME NEW k \in open', FirstIn(fdOf, k) PROVE Undisturbed(k)
  <2>1. k \in open /\ sockets'[fdOf[k]] = k
    BY <1>1, <1>5, OpenFacts
  <2>2. serving[k].pc = "read" => inbox[k] # <<>>
    BY <1>5, <2>1 DEF ConnInv, OpenInv
  <2> QED BY <1>1, <1>4, <1>5, <2>1, <2>2, ThreadDisturbsNobody
<1>6. ConnInv'
  BY <1>1, <1>3, <1>4, <1>5, ConnFrame
<1>7. LiveInv'
  BY <1>1, <1>3, <1>4, LiveFrame
<1> QED BY <1>6, <1>7

(* A thread goes on that walks over no list.                               *)
LEMMA NobodyWalks ==
  ASSUME NEW c \in Conns, serving[c].pc \notin {"walk", "take"},
         \A j \in Conns \ {c} : serving'[j] = serving[j]
  PROVE  WalksGoOn
BY DEF WalksGoOn

LEMMA ThreadGoesOn ==
  ASSUME Types, NEW c \in Conns, NEW pc, serving' = [serving EXCEPT ![c].pc = pc]
  PROVE  /\ serving'[c].pc = pc /\ serving'[c].package = serving[c].package
         /\ serving'[c].msg = serving[c].msg /\ serving'[c].i = serving[c].i
         /\ \A j \in Conns \ {c} : serving'[j] = serving[j]
BY DEF Types, Served

LEMMA ServeReadDelivers ==
  ASSUME IInv, ConnInv, LiveInv, NEW c \in Conns, ServeRead(c)
  PROVE  ConnInv' /\ LiveInv'
<1> DEFINE at == sockets[fdOf[c]]
<1>1. /\ UNCHANGED <<fdOf, sockets, open, request, ID, suscriptors, cached, senders, disturbed>>
      /\ c \in Accepted /\ serving[c].pc = "read"
  BY DEF ServeRead, clientVars
<1>2. Types /\ SocketInv
  BY DEF IInv
<1>3. /\ SameSenders
      /\ \A s \in DOMAIN senders : senders'[s].pc = "receive" =>
           senders[s].pc = "receive" /\ senders'[s].at = senders[s].at
  BY <1>1, <1>2, SameThreadsOfSenders
<1>4. at # None => at \in Conns /\ at \in Accepted /\ fdOf[at] = fdOf[c]
  <2>1. fdOf[c] \in Fds
    BY <1>1, <1>2 DEF Types, Accepted
  <2> QED BY <1>2, <2>1, Bounds DEF SocketInv, Types, Accepted, Conns
<1>5. /\ QuietThreads
      /\ \A j \in Conns \ {c} : serving'[j] = serving[j]
      /\ \/ /\ at # None /\ inbox[at] # <<>>
            /\ serving'[c].pc = "lock" /\ serving'[c].package = Head(inbox[at])
            /\ inbox' = [inbox EXCEPT ![at] = Tail(@)]
         \/ at \notin open /\ UNCHANGED inbox
  <2>1. CASE /\ at # None /\ inbox[at] # <<>>
             /\ serving' = [serving EXCEPT ![c].pc = "lock", ![c].package = Head(inbox[at])]
             /\ inbox' = [inbox EXCEPT ![at] = Tail(@)]
    <3> DEFINE package == Head(inbox[at])
    <3>1. package \in Packages
      BY <1>2, <1>4, <2>1, Received
    <3>2. serving' = [serving EXCEPT ![c].pc = "lock", ![c].package = package]
      BY <2>1
    <3> HIDE DEF package
    <3>3. /\ serving'[c].pc = "lock" /\ serving'[c].package = package
          /\ \A j \in Conns \ {c} : serving'[j] = serving[j]
      BY <1>2, <3>1, <3>2, ZenonT(40) DEF Types, Served, ServePcs
    <3>4. QuietThreads
      BY <1>1, <1>2, <3>1, <3>2, ZenonT(40) DEF Types, Served, ServePcs, QuietThreads
    <3> QED BY <2>1, <3>3, <3>4 DEF package
  <2>2. CASE /\ at = None \/ Garbage(at)
             /\ \/ serving' = [serving EXCEPT ![c].pc = "remove"]
                \/ serving' = [serving EXCEPT ![c].pc = "done"]
             /\ UNCHANGED inbox
    <3>1. QuietThreads
      BY <1>1, <1>2, <2>2, QuietStep DEF ServePcs
    <3>2. \A j \in Conns \ {c} : serving'[j] = serving[j]
      BY <1>2, <2>2, ThreadGoesOn
    <3>3. at \notin open
      BY <1>2, <2>2, Bounds DEF Garbage, Types, Accepted, None
    <3> QED BY <2>2, <3>1, <3>2, <3>3
  <2> QED BY <2>1, <2>2 DEF ServeRead
<1>6. LessSockets /\ WalksGoOn /\ NotesOnly /\ PlacesStay /\ \A fd : EntriesStay(fd)
  BY <1>1, <1>5, SameSockets, NobodyWalks, NoNotes, SameListsStay
<1>7. ASSUME NEW k \in open', FirstIn(fdOf, k) PROVE Undisturbed(k)
  <2>1. /\ k \in open /\ k \in Conns /\ k # None /\ sockets[fdOf[k]] = k /\ sockets'[fdOf[k]] = k
        /\ \A j \in Accepted : fdOf[j] = fdOf[k] => j = k
        /\ \A t \in DOMAIN senders : senders[t].fd = fdOf[k] => senders[t].pc \notin {"remove", "close"}
    BY <1>1, <1>7, OpenFacts
  <2>2. serving[k].pc = "read" => inbox[k] # <<>> /\ Head(inbox[k]) = request[k]
    BY <1>7, <2>1 DEF ConnInv, OpenInv
  <2>3. CASE k = c
    <3>1. at = k
      BY <2>1, <2>3
    <3>2. serving'[k].pc = "lock" /\ serving'[k].package = request[k]
      BY <1>1, <1>5, <2>1, <2>2, <2>3, <3>1
    <3> QED BY <1>1, <1>6, <2>1, <3>2 DEF Undisturbed, Listed
  <2>4. CASE k # c
    <3>1. at # k
      BY <1>1, <1>4, <2>1, <2>4
    <3>2. inbox'[k] = inbox[k]
      <4> HIDE DEF at
      <4> QED BY <1>2, <1>5, <2>1, <3>1 DEF Types
    <3>3. serving'[k] = serving[k]
      BY <1>5, <2>1, <2>4
    <3> QED BY <1>1, <1>6, <1>7, <2>1, <2>2, <3>2, <3>3, ThreadDisturbsNobody
  <2> QED BY <2>3, <2>4
<1> HIDE DEF at
<1>8. ConnInv'
  BY <1>1, <1>3, <1>5, <1>7, ConnFrame
<1>9. LiveInv'
  BY <1>1, <1>3, <1>5, <1>6, LiveFrame
<1> QED BY <1>8, <1>9

LEMMA ServeRemoveDelivers ==
  ASSUME IInv, ConnInv, LiveInv, NEW c \in Conns, ServeRemove(c)
  PROVE  ConnInv' /\ LiveInv'
<1>1. /\ UNCHANGED <<fdOf, sockets, open, request, inbox, ID, cached, senders>>
      /\ serving[c].pc = "remove" /\ serving' = [serving EXCEPT ![c].pc = "close"]
  BY DEF ServeRemove, clientVars
<1>2. Types /\ HandlerInv
  BY DEF IInv
<1>3. /\ SameSenders
      /\ \A s \in DOMAIN senders : senders'[s].pc = "receive" =>
           senders[s].pc = "receive" /\ senders'[s].at = senders[s].at
  BY <1>1, <1>2, SameThreadsOfSenders
<1>4. QuietThreads /\ \A j \in Conns \ {c} : serving'[j] = serving[j]
  BY <1>1, <1>2, QuietStep, ThreadGoesOn DEF ServePcs
<1>5. LessSockets /\ WalksGoOn /\ NotesOnly
  BY <1>1, <1>4, SameSockets, NobodyWalks, NoNotes
<1>6. PlacesStay /\ (\A fd : fd # fdOf[c] => EntriesStay(fd)) /\ disturbed \subseteq disturbed'
  BY <1>2, RemovedStay DEF ServeRemove
<1>7. ASSUME NEW k \in open', FirstIn(fdOf, k) PROVE Undisturbed(k)
  <2>1. /\ k \in open /\ k \in Conns /\ sockets'[fdOf[k]] = k
        /\ \A j \in Accepted : fdOf[j] = fdOf[k] => j = k
    BY <1>1, <1>7, OpenFacts
  <2>2. /\ serving[k].pc # "remove"
        /\ serving[k].pc = "read" => inbox[k] # <<>>
    BY <1>7, <2>1 DEF ConnInv, OpenInv
  <2>3. k # c /\ c \in Accepted
    BY <1>1, <1>2, <2>2 DEF HandlerInv
  <2>4. EntriesStay(fdOf[k]) /\ serving'[k] = serving[k]
    BY <1>4, <1>6, <2>1, <2>3
  <2> QED BY <1>1, <1>7, <2>1, <2>2, <2>4, ThreadDisturbsNobody
<1>8. ConnInv'
  BY <1>1, <1>3, <1>4, <1>7, ConnFrame
<1>9. LiveInv'
  BY <1>1, <1>3, <1>4, <1>5, <1>6, LiveFrame
<1> QED BY <1>8, <1>9

LEMMA ServeCloseDelivers ==
  ASSUME IInv, ConnInv, LiveInv, NEW c \in Conns, ServeClose(c)
  PROVE  ConnInv' /\ LiveInv'
<1>1. /\ UNCHANGED <<fdOf, open, request, inbox, ID, suscriptors, cached, senders, disturbed>>
      /\ serving[c].pc = "close" /\ serving' = [serving EXCEPT ![c].pc = "done"]
      /\ sockets' = Closed(fdOf[c])
  BY DEF ServeClose, clientVars
<1>2. Types /\ HandlerInv
  BY DEF IInv
<1>3. /\ SameSenders
      /\ \A s \in DOMAIN senders : senders'[s].pc = "receive" =>
           senders[s].pc = "receive" /\ senders'[s].at = senders[s].at
  BY <1>1, <1>2, SameThreadsOfSenders
<1>4. QuietThreads /\ \A j \in Conns \ {c} : serving'[j] = serving[j]
  BY <1>1, <1>2, QuietStep, ThreadGoesOn DEF ServePcs
<1>5. LessSockets
  BY <1>1, <1>2, ClosedSocket
<1>6. WalksGoOn /\ NotesOnly /\ PlacesStay /\ \A fd : EntriesStay(fd)
  BY <1>1, <1>4, NobodyWalks, NoNotes, SameListsStay
<1>7. ASSUME NEW k \in open', FirstIn(fdOf, k) PROVE Undisturbed(k)
  <2>1. /\ k \in open /\ k \in Conns /\ sockets[fdOf[k]] = k /\ fdOf[k] \in Fds
        /\ \A j \in Accepted : fdOf[j] = fdOf[k] => j = k
    BY <1>1, <1>7, OpenFacts
  <2>2. /\ serving[k].pc # "close"
        /\ serving[k].pc = "read" => inbox[k] # <<>>
    BY <1>7, <2>1 DEF ConnInv, OpenInv
  <2>3. k # c /\ c \in Accepted
    BY <1>1, <1>2, <2>2 DEF HandlerInv
  <2>4. sockets'[fdOf[k]] = k /\ serving'[k] = serving[k]
    BY <1>1, <1>2, <1>4, <2>1, <2>3 DEF Closed, Types
  <2> QED BY <1>1, <1>6, <1>7, <2>1, <2>2, <2>4, ThreadDisturbsNobody
<1>8. ConnInv'
  BY <1>1, <1>3, <1>4, <1>7, ConnFrame
<1>9. LiveInv'
  BY <1>1, <1>3, <1>4, <1>5, <1>6, LiveFrame
<1> QED BY <1>8, <1>9

LEMMA GetAcknowledgeDelivers ==
  ASSUME IInv, ConnInv, LiveInv, NEW c \in Conns, GetAcknowledge(c)
  PROVE  ConnInv' /\ LiveInv'
<1>1. /\ UNCHANGED <<fdOf, sockets, open, request, inbox, ID, suscriptors, cached, senders, disturbed>>
      /\ serving[c].pc = "lock" /\ serving[c].package.op = "ACKNOWLEDGE"
      /\ serving' = [serving EXCEPT ![c].pc = "done"]
  BY DEF GetAcknowledge, clientVars
<1>2. Types
  BY DEF IInv
<1>3. /\ SameSenders
      /\ \A s \in DOMAIN senders : senders'[s].pc = "receive" =>
           senders[s].pc = "receive" /\ senders'[s].at = senders[s].at
  BY <1>1, <1>2, SameThreadsOfSenders
<1>4. /\ QuietThreads /\ serving'[c].pc = "done" /\ serving'[c].package = serving[c].package
      /\ \A j \in Conns \ {c} : serving'[j] = serving[j]
  BY <1>1, <1>2, QuietStep, ThreadGoesOn DEF ServePcs
<1>5. LessSockets /\ WalksGoOn /\ NotesOnly /\ PlacesStay /\ \A fd : EntriesStay(fd)
  BY <1>1, <1>4, SameSockets, NobodyWalks, NoNotes, SameListsStay
<1>6. ASSUME NEW k \in open', FirstIn(fdOf, k) PROVE Undisturbed(k)
  <2>1. /\ k \in open /\ k \in Conns /\ sockets'[fdOf[k]] = k
        /\ \A t \in DOMAIN senders : senders[t].fd = fdOf[k] => senders[t].pc \notin {"remove", "close"}
    BY <1>1, <1>6, OpenFacts
  <2>2. /\ serving[k].pc = "read" => inbox[k] # <<>>
        /\ serving[k].pc # "read" => serving[k].package = request[k]
    BY <1>6, <2>1 DEF ConnInv, OpenInv
  <2>3. CASE k = c
    BY <1>1, <1>4, <1>5, <2>1, <2>2, <2>3 DEF Undisturbed
  <2>4. CASE k # c
    BY <1>1, <1>4, <1>5, <1>6, <2>1, <2>2, <2>4, ThreadDisturbsNobody
  <2> QED BY <2>3, <2>4
<1>7. ConnInv'
  BY <1>1, <1>3, <1>4, <1>6, ConnFrame
<1>8. LiveInv'
  BY <1>1, <1>3, <1>4, <1>5, LiveFrame
<1> QED BY <1>7, <1>8

LEMMA WalkOnDelivers ==
  ASSUME IInv, ConnInv, LiveInv, NEW c \in Conns, WalkOn(c)
  PROVE  ConnInv' /\ LiveInv'
<1>1. /\ UNCHANGED <<fdOf, sockets, open, request, inbox, ID, suscriptors, cached, senders, disturbed>>
      /\ serving[c].pc = "walk"
  BY DEF WalkOn, clientVars
<1>2. Types /\ HandlerInv
  BY DEF IInv
<1>3. /\ SameSenders
      /\ \A s \in DOMAIN senders : senders'[s].pc = "receive" =>
           senders[s].pc = "receive" /\ senders'[s].at = senders[s].at
  BY <1>1, <1>2, SameThreadsOfSenders
<1>4. PICK pc \in {"take", "done"} : /\ serving' = [serving EXCEPT ![c].pc = pc]
                                     /\ pc = "done" => ~ InList(c)
  BY DEF WalkOn
<1>5. /\ QuietThreads /\ serving'[c].pc = pc /\ serving'[c].package = serving[c].package
      /\ serving'[c].msg = serving[c].msg /\ serving'[c].i = serving[c].i
      /\ \A j \in Conns \ {c} : serving'[j] = serving[j]
  BY <1>1, <1>2, <1>4, QuietStep, ThreadGoesOn DEF ServePcs
<1>6. WalksGoOn
  <2>1. pc = "done" => \A n \in DOMAIN suscriptors[QueueOf(c)] : ~ (serving[c].i <= n)
    <3>1. /\ QueueOf(c) \in Queues /\ suscriptors[QueueOf(c)] \in Seq(Fds)
          /\ serving[c].i \in Nat
      BY <1>1, <1>2 DEF HandlerInv, Handling, Types, Served
    <3> QED BY <1>4, <3>1 DEF InList
  <2> QED BY <1>5, <2>1 DEF WalksGoOn
<1>7. LessSockets /\ NotesOnly /\ PlacesStay /\ \A fd : EntriesStay(fd)
  BY <1>1, SameSockets, NoNotes, SameListsStay
<1>8. ASSUME NEW k \in open', FirstIn(fdOf, k) PROVE Undisturbed(k)
  <2>1. /\ k \in open /\ k \in Conns /\ sockets'[fdOf[k]] = k
        /\ \A t \in DOMAIN senders : senders[t].fd = fdOf[k] => senders[t].pc \notin {"remove", "close"}
    BY <1>1, <1>8, OpenFacts
  <2>2. /\ serving[k].pc = "read" => inbox[k] # <<>>
        /\ serving[k].pc # "read" => serving[k].package = request[k]
        /\ serving[k].pc \in {"walk", "take"} => request[k].op = "MESSAGE"
    BY <1>8, <2>1 DEF ConnInv, OpenInv
  <2>3. CASE k = c
    BY <1>1, <1>5, <1>7, <2>1, <2>2, <2>3 DEF Undisturbed
  <2>4. CASE k # c
    BY <1>1, <1>5, <1>7, <1>8, <2>1, <2>2, <2>4, ThreadDisturbsNobody
  <2> QED BY <2>3, <2>4
<1>9. ConnInv'
  BY <1>1, <1>3, <1>5, <1>8, ConnFrame
<1>10. LiveInv'
  BY <1>1, <1>3, <1>5, <1>6, <1>7, LiveFrame
<1> QED BY <1>9, <1>10

-----------------------------------------------------------------------------
(* The steps that put a descriptor in a list, list messages, start threads *)
(* or walks.                                                               *)

ListedKeepQueue ==
  \A j \in Conns : serving[j].pc \in Listed =>
    serving'[j].pc \in Listed /\ serving'[j].package = serving[j].package

StartedFor ==
  \A s \in DOMAIN senders' :
    \/ s \in DOMAIN senders /\ senders'[s].fd = senders[s].fd /\ senders'[s].for = senders[s].for
    \/ senders'[s].for = sockets[senders'[s].fd]

EntriesOfListed ==
  \A q \in Queues : \A i \in DOMAIN suscriptors'[q] :
    \/ \E old \in DOMAIN suscriptors[q] : suscriptors[q][old] = suscriptors'[q][i]
    \/ \E c \in Conns : /\ c \in Accepted /\ fdOf[c] = suscriptors'[q][i]
                        /\ serving'[c].pc \in Listed /\ serving'[c].package.arg = q

LEMMA AliveStep ==
  ASSUME IInv, AliveInv, UNCHANGED <<fdOf, sockets>>, ListedKeepQueue, StartedFor, EntriesOfListed
  PROVE  AliveInv'
<1>1. Accepted' = Accepted /\ Types /\ SocketInv
  BY DEF Accepted, IInv
<1>2. SUFFICES ASSUME NEW k \in Conns, Alive(k)
               PROVE  /\ \A s \in DOMAIN senders' : senders'[s].fd = fdOf[k] => senders'[s].for = k
                      /\ \A q \in Queues : \A i \in DOMAIN suscriptors'[q] : suscriptors'[q][i] = fdOf[k] =>
                           serving'[k].pc \in Listed /\ serving'[k].package.arg = q
  BY <1>1 DEF AliveInv, Alive, InQueue, QueueOf
<1>3. sockets[fdOf[k]] = k /\ \A j \in Accepted : fdOf[j] = fdOf[k] => j = k
  BY <1>1, <1>2, AliveAlone DEF Alive
<1>4. \A s \in DOMAIN senders' : senders'[s].fd = fdOf[k] => senders'[s].for = k
  BY <1>2, <1>3 DEF StartedFor, AliveInv
<1>5. ASSUME NEW q \in Queues, NEW i \in DOMAIN suscriptors'[q], suscriptors'[q][i] = fdOf[k]
      PROVE  serving'[k].pc \in Listed /\ serving'[k].package.arg = q
  <2>1. CASE \E old \in DOMAIN suscriptors[q] : suscriptors[q][old] = suscriptors'[q][i]
    BY <1>2, <1>5, <2>1 DEF AliveInv, InQueue, QueueOf, ListedKeepQueue
  <2>2. CASE \E c \in Conns : /\ c \in Accepted /\ fdOf[c] = suscriptors'[q][i]
                              /\ serving'[c].pc \in Listed /\ serving'[c].package.arg = q
    BY <1>3, <1>5, <2>2
  <2> QED BY <1>5, <2>1, <2>2 DEF EntriesOfListed
<1> QED BY <1>4, <1>5

LEMMA CachedStep ==
  ASSUME CachedInv, UNCHANGED cached,
         \A s \in DOMAIN senders : s \in DOMAIN senders' /\ senders'[s] = senders[s],
         \A h \in Conns : serving'[h].pc \in {"walk", "take"} =>
           /\ serving[h].pc \in {"walk", "take"}
           /\ serving'[h].msg = serving[h].msg /\ serving'[h].package = serving[h].package
  PROVE  CachedInv'
<1>1. \A m \in DOMAIN cached' : \A fd \in cached'[m].sent :
        \E s \in DOMAIN senders' : senders'[s].msg = m /\ senders'[s].fd = fd
  BY DEF CachedInv
<1>2. \A h \in Conns :
        serving'[h].pc \in {"walk", "take"} /\ serving'[h].msg \in DOMAIN cached' =>
          cached'[serving'[h].msg].queue = serving'[h].package.arg
  BY DEF CachedInv, QueueOf
<1> QED BY <1>1, <1>2 DEF CachedInv, QueueOf

LEMMA ListMessagesDelivers ==
  ASSUME IInv, ConnInv, LiveInv, NEW c \in Conns, ListMessages(c)
  PROVE  ConnInv' /\ LiveInv'
<1> DEFINE listed == NotSent(c)
<1>1. /\ UNCHANGED <<fdOf, sockets, open, request, inbox, ID, suscriptors, cached, senders, disturbed>>
      /\ serving[c].pc = "list"
      /\ serving' = [serving EXCEPT ![c].pc = "map", ![c].listed = listed]
  BY DEF ListMessages, clientVars
<1>2. Types /\ HandlerInv
  BY DEF IInv
<1>3. listed \in SUBSET Nat
  BY <1>2 DEF NotSent, Types
<1> HIDE DEF listed
<1>4. /\ serving'[c].pc = "map" /\ serving'[c].listed = listed
      /\ serving'[c].package = serving[c].package
      /\ \A j \in Conns \ {c} : serving'[j] = serving[j]
  BY <1>1, <1>2, <1>3, ZenonT(40) DEF Types, Served, ServePcs
<1>5. ListedKeepQueue /\ ListedGoOn
  BY <1>1, <1>4 DEF ListedKeepQueue, ListedGoOn, Listed
<1>6. SendersGoOn /\ StartedFor /\ EntriesOfListed /\ \A fd : EntriesStay(fd)
  BY <1>1, SameListsStay DEF SendersGoOn, StartedFor, EntriesOfListed
<1>7. ASSUME NEW k \in open', FirstIn(fdOf, k) PROVE Undisturbed(k)
  <2>1. /\ k \in open /\ k \in Conns /\ sockets'[fdOf[k]] = k
        /\ \A t \in DOMAIN senders : senders[t].fd = fdOf[k] => senders[t].pc \notin {"remove", "close"}
    BY <1>1, <1>7, OpenFacts
  <2>2. /\ serving[k].pc = "read" => inbox[k] # <<>>
        /\ serving[k].pc # "read" => serving[k].package = request[k]
    BY <1>7, <2>1 DEF ConnInv, OpenInv
  <2>3. CASE k = c
    BY <1>1, <1>4, <1>6, <2>1, <2>2, <2>3 DEF Undisturbed, Listed
  <2>4. CASE k # c
    BY <1>1, <1>4, <1>6, <1>7, <2>1, <2>2, <2>4, ThreadDisturbsNobody
  <2> QED BY <2>3, <2>4
<1>8. ConnInv'
  BY <1>1, <1>5, <1>6, <1>7, ConnStep
<1>9. AliveInv'
  BY <1>1, <1>5, <1>6, AliveStep DEF LiveInv
<1>10. CachedInv'
  <2>1. \A h \in Conns : serving'[h].pc \in {"walk", "take"} => serving'[h] = serving[h]
    BY <1>4
  <2> QED BY <1>1, <2>1, CachedStep DEF LiveInv
<1>11. MissedInv'
  <2>1. SUFFICES ASSUME NEW k \in Conns, Alive(k), NEW m \in DOMAIN cached \ disturbed,
                        NEW n \in DOMAIN suscriptors[cached[m].queue],
                        suscriptors[cached[m].queue][n] = fdOf[k]
                 PROVE  Given(k, m)' \/ ToMap(k, m)' \/ ToWalk(m, n)'
    BY <1>1 DEF MissedInv, Alive, Accepted
  <2>2. Given(k, m) \/ ToMap(k, m) \/ ToWalk(m, n)
    BY <2>1 DEF LiveInv, MissedInv
  <2>3. CASE Given(k, m)
    BY <1>1, <2>3 DEF Given
  <2>4. CASE ToWalk(m, n)
    BY <1>1, <1>4, <2>4 DEF ToWalk
  <2>5. CASE ToMap(k, m) /\ k # c
    BY <1>4, <2>5 DEF ToMap
  (* The thread itself: what it does not list has a thread already. *)
  <2>6. CASE k = c
    <3>1. cached[m].queue \in Queues /\ InQueue(fdOf[k], cached[m].queue)
      BY <2>1 DEF LiveInv, CachedInv, Records, InQueue
    <3>2. cached[m].queue = QueueOf(c)
      BY <2>1, <2>6, <3>1 DEF LiveInv, AliveInv
    <3>3. CASE fdOf[c] \in cached[m].sent
      <4>1. PICK s \in DOMAIN senders : senders[s].msg = m /\ senders[s].fd = fdOf[c]
        BY <2>1, <3>3 DEF LiveInv, CachedInv
      <4>2. senders[s].for = k
        BY <2>1, <2>6, <4>1 DEF LiveInv, AliveInv
      <4> QED BY <1>1, <4>1, <4>2 DEF Given
    <3>4. CASE fdOf[c] \notin cached[m].sent
      <4>1. m \in listed
        BY <2>1, <3>2, <3>4 DEF listed, NotSent
      <4> QED BY <1>4, <2>6, <4>1 DEF ToMap
    <3> QED BY <3>3, <3>4
  <2> QED BY <2>2, <2>3, <2>4, <2>5, <2>6
<1> QED BY <1>8, <1>9, <1>10, <1>11 DEF LiveInv

LEMMA SuscribeDelivers ==
  ASSUME IInv, ConnInv, LiveInv, NEW c \in Conns, Suscribe(c)
  PROVE  ConnInv' /\ LiveInv'
<1> DEFINE q0 == QueueOf(c)
           fd == fdOf[c]
           len == Len(suscriptors[q0])
<1>1. /\ serving[c].pc = "lock" /\ serving[c].package.op = "SUBSCRIPTION"
      /\ \A j \in Conns : serving[j].pc \notin Handling
      /\ suscriptors' = [suscriptors EXCEPT ![q0] = Append(@, fd)]
      /\ serving' = [serving EXCEPT ![c].pc = "list"]
      /\ UNCHANGED <<fdOf, sockets, open, request, inbox, ID, cached, senders, disturbed>>
  BY DEF Suscribe, HandlerFree, Handling, clientVars
<1>2. Types /\ HandlerInv /\ SocketInv
  BY DEF IInv
<1>3. q0 \in Queues
  <2>1. serving[c].package \in Packages
    BY <1>2 DEF Types, Served
  <2> QED BY <1>1, <2>1, RequestKinds DEF Packages, QueueOf
<1>4. c \in Accepted /\ fd \in Fds
  BY <1>1, <1>2 DEF HandlerInv, Types, Accepted
<1>5. /\ serving'[c].pc = "list" /\ serving'[c].package = serving[c].package
      /\ \A j \in Conns \ {c} : serving'[j] = serving[j]
  BY <1>1, <1>2, ThreadGoesOn
<1>6. /\ \A q \in Queues \ {q0} : suscriptors'[q] = suscriptors[q]
      /\ suscriptors'[q0] = Append(suscriptors[q0], fd)
      /\ suscriptors[q0] \in Seq(Fds)
  BY <1>1, <1>2, <1>3 DEF Types
<1>7. /\ DOMAIN suscriptors'[q0] = DOMAIN suscriptors[q0] \cup {len + 1}
      /\ len + 1 \notin DOMAIN suscriptors[q0] /\ suscriptors'[q0][len + 1] = fd
      /\ \A i \in DOMAIN suscriptors[q0] : suscriptors'[q0][i] = suscriptors[q0][i]
  BY <1>4, <1>6, SMTT(30)
<1>8. serving[c].package.arg = q0 /\ fdOf[c] = fd
  BY DEF QueueOf
<1> HIDE DEF q0, fd, len
<1>9. ListedKeepQueue /\ ListedGoOn
  BY <1>1, <1>5 DEF ListedKeepQueue, ListedGoOn, Listed
<1>10. SendersGoOn /\ StartedFor
  BY <1>1 DEF SendersGoOn, StartedFor
<1>11. EntriesOfListed
  <2>1. SUFFICES ASSUME NEW q \in Queues, NEW i \in DOMAIN suscriptors'[q]
                 PROVE  \/ \E old \in DOMAIN suscriptors[q] : suscriptors[q][old] = suscriptors'[q][i]
                        \/ \E j \in Conns : /\ j \in Accepted /\ fdOf[j] = suscriptors'[q][i]
                                            /\ serving'[j].pc \in Listed /\ serving'[j].package.arg = q
    BY DEF EntriesOfListed
  <2>2. CASE q # q0
    BY <1>6, <2>1, <2>2
  <2>3. CASE q = q0 /\ i \in DOMAIN suscriptors[q]
    BY <1>7, <2>3
  <2>4. CASE q = q0 /\ i = len + 1
    BY <1>4, <1>5, <1>7, <1>8, <2>4 DEF Listed
  <2> QED BY <1>7, <2>1, <2>2, <2>3, <2>4
<1>12. ASSUME NEW e PROVE EntriesStay(e)
  <2>1. SUFFICES ASSUME NEW q \in Queues, NEW i \in DOMAIN suscriptors[q], suscriptors[q][i] = e
                 PROVE  \E n \in DOMAIN suscriptors'[q] : suscriptors'[q][n] = e
    BY DEF EntriesStay
  <2>2. CASE q # q0
    BY <1>6, <2>1, <2>2
  <2>3. CASE q = q0
    BY <1>7, <2>1, <2>3
  <2> QED BY <2>2, <2>3
<1>13. ASSUME NEW k \in open', FirstIn(fdOf, k) PROVE Undisturbed(k)
  <2>1. /\ k \in open /\ k \in Conns /\ sockets'[fdOf[k]] = k
        /\ \A t \in DOMAIN senders : senders[t].fd = fdOf[k] => senders[t].pc \notin {"remove", "close"}
    BY <1>1, <1>13, OpenFacts
  <2>2. /\ serving[k].pc = "read" => inbox[k] # <<>>
        /\ serving[k].pc # "read" => serving[k].package = request[k]
    BY <1>13, <2>1 DEF ConnInv, OpenInv
  <2>3. CASE k = c
    <3>1. serving'[k].package = request[k] /\ request[k].arg = q0
      BY <1>1, <1>5, <1>8, <2>2, <2>3
    <3>2. \E i \in DOMAIN suscriptors'[request[k].arg] : suscriptors'[request[k].arg][i] = fdOf[k]
      BY <1>7, <1>8, <2>3, <3>1
    <3> QED BY <1>1, <1>5, <1>12, <2>1, <2>3, <3>1, <3>2 DEF Undisturbed
  <2>4. CASE k # c
    BY <1>1, <1>5, <1>12, <1>13, <2>1, <2>2, <2>4, ThreadDisturbsNobody
  <2> QED BY <2>3, <2>4
<1>14. ConnInv'
  BY <1>1, <1>9, <1>10, <1>13, ConnStep
<1>15. AliveInv'
  BY <1>1, <1>9, <1>10, <1>11, AliveStep DEF LiveInv
<1>16. CachedInv'
  <2>1. \A h \in Conns : serving'[h].pc \in {"walk", "take"} => serving'[h] = serving[h]
    BY <1>5
  <2> QED BY <1>1, <2>1, CachedStep DEF LiveInv
<1>17. MissedInv'
  <2>1. SUFFICES ASSUME NEW k \in Conns, Alive(k), NEW m \in DOMAIN cached \ disturbed,
                        NEW n \in DOMAIN suscriptors'[cached[m].queue],
                        suscriptors'[cached[m].queue][n] = fdOf[k]
                 PROVE  Given(k, m)' \/ ToMap(k, m)' \/ ToWalk(m, n)'
    BY <1>1 DEF MissedInv, Alive, Accepted
  <2>2. cached[m].queue \in Queues
    BY <2>1 DEF LiveInv, CachedInv, Records
  <2>3. CASE n \in DOMAIN suscriptors[cached[m].queue]
    <3>1. suscriptors[cached[m].queue][n] = fdOf[k]
      BY <1>6, <1>7, <2>1, <2>2, <2>3
    <3>2. Given(k, m) \/ ToMap(k, m) \/ ToWalk(m, n)
      BY <2>1, <2>3, <3>1 DEF LiveInv, MissedInv
    (* Nobody else was in recive_message. *)
    <3>3. Given(k, m)
      BY <1>1, <3>2 DEF ToMap, ToWalk, Handling
    <3> QED BY <1>1, <3>3 DEF Given
  <2>4. CASE n \notin DOMAIN suscriptors[cached[m].queue]
    <3>1. cached[m].queue = q0 /\ n = len + 1
      BY <1>6, <1>7, <2>1, <2>2, <2>4
    <3>2. fdOf[k] = fdOf[c]
      BY <1>7, <1>8, <2>1, <3>1
    <3>3. k = c
      BY <1>2, <1>4, <2>1, <3>2, AliveAlone
    <3> QED BY <1>5, <3>3 DEF ToMap
  <2> QED BY <2>3, <2>4
<1> QED BY <1>14, <1>15, <1>16, <1>17 DEF LiveInv

LEMMA MapMessagesDelivers ==
  ASSUME IInv, ConnInv, LiveInv, NEW c \in Conns, MapMessages(c)
  PROVE  ConnInv' /\ LiveInv'
<1> DEFINE ids == {<<m, "newSubscriber", c>> : m \in serving[c].listed}
           fd == fdOf[c]
<1>1. /\ serving[c].pc = "map"
      /\ senders' = Started(ids, fd)
      /\ serving' = [serving EXCEPT ![c].pc = "done", ![c].listed = {}]
      /\ UNCHANGED <<fdOf, sockets, open, request, inbox, ID, suscriptors, cached, disturbed>>
  BY DEF MapMessages, clientVars
<1>2. Types /\ HandlerInv /\ SocketInv /\ SenderInv
  BY DEF IInv
<1>3. c \in Accepted /\ fd \in Fds /\ c \in Nat /\ serving[c].listed \in SUBSET Nat
  BY <1>1, <1>2, Bounds DEF HandlerInv, Types, Served, Accepted, Conns
<1>4. ids \in SUBSET Ids /\ \A m \in serving[c].listed : <<m, "newSubscriber", c>> \in ids
  BY <1>3 DEF Ids
<1>5. ids \cap DOMAIN senders = {}
  <2>1. SUFFICES ASSUME NEW m \in serving[c].listed, <<m, "newSubscriber", c>> \in DOMAIN senders
                 PROVE  FALSE
    OBVIOUS
  <2> DEFINE s == <<m, "newSubscriber", c>>
  <2>2. s[2] = "newSubscriber" /\ s[3] = c /\ s \in DOMAIN senders
    BY <2>1
  <2> HIDE DEF s
  <2>3. serving[c].pc = "done"
    BY <1>2, <2>2 DEF SenderInv
  <2> QED BY <1>1, <2>3
<1>6. \A s \in ids : s[1] \in serving[c].listed
  OBVIOUS
<1>7. fdOf[c] = fd /\ \A m \in serving[c].listed : \E s \in ids : s[1] = m
  <2>1. ASSUME NEW m \in serving[c].listed PROVE \E s \in ids : s[1] = m
    <3>1. <<m, "newSubscriber", c>>[1] = m
      OBVIOUS
    <3> QED BY <1>4, <2>1, <3>1
  <2> QED BY <2>1
<1> HIDE DEF ids, fd
<1>8. /\ DOMAIN senders' = DOMAIN senders \cup ids
      /\ \A s \in ids : /\ senders'[s].msg = s[1] /\ senders'[s].fd = fd
                        /\ senders'[s].for = sockets[fd] /\ senders'[s].pc = "get"
      /\ \A s \in DOMAIN senders : senders'[s] = senders[s] /\ s \notin ids
  <2>1. /\ DOMAIN senders' = DOMAIN senders \cup ids
        /\ \A s \in ids : senders'[s] = Sender(s[1], fd)
        /\ \A s \in DOMAIN senders \ ids : senders'[s] = senders[s]
    BY <1>1, <1>2, <1>3, <1>4, StartedThreads
  <2> QED BY <1>5, <2>1 DEF Sender
<1>9. /\ serving'[c].pc = "done" /\ serving'[c].package = serving[c].package
      /\ \A j \in Conns \ {c} : serving'[j] = serving[j]
  BY <1>1, <1>2, ZenonT(40) DEF Types, Served, ServePcs
<1>10. ListedKeepQueue /\ ListedGoOn
  BY <1>1, <1>9 DEF ListedKeepQueue, ListedGoOn, Listed
<1>11. StartedFor /\ EntriesOfListed /\ \A e : EntriesStay(e)
  BY <1>1, <1>8, SameListsStay DEF StartedFor, EntriesOfListed
<1>12. SendersGoOn
  <2>1. \A s \in ids : \E j \in Conns : j \in Accepted /\ fdOf[j] = senders'[s].fd /\ serving'[j].pc \in Listed
    BY <1>3, <1>7, <1>8, <1>9 DEF Listed
  <2> QED BY <1>8, <2>1 DEF SendersGoOn
<1>13. ASSUME NEW k \in open', FirstIn(fdOf, k) PROVE Undisturbed(k)
  <2>1. /\ k \in open /\ k \in Conns /\ sockets'[fdOf[k]] = k
        /\ \A t \in DOMAIN senders : senders[t].fd = fdOf[k] => senders'[t].pc \notin {"remove", "close"}
    BY <1>1, <1>8, <1>13, OpenFacts
  <2>2. /\ serving[k].pc = "read" => inbox[k] # <<>>
        /\ serving[k].pc # "read" => serving[k].package = request[k]
    BY <1>13, <2>1 DEF ConnInv, OpenInv
  <2>3. CASE k = c
    BY <1>1, <1>9, <1>11, <2>1, <2>2, <2>3 DEF Undisturbed, Listed
  <2>4. CASE k # c
    BY <1>1, <1>9, <1>11, <2>1, <2>2, <2>4 DEF Undisturbed
  <2> QED BY <2>3, <2>4
<1>14. ConnInv'
  BY <1>1, <1>10, <1>12, <1>13, ConnStep
<1>15. AliveInv'
  BY <1>1, <1>10, <1>11, AliveStep DEF LiveInv
<1>16. CachedInv'
  <2>1. \A h \in Conns : serving'[h].pc \in {"walk", "take"} => serving'[h] = serving[h]
    BY <1>9
  <2> QED BY <1>1, <1>8, <2>1, CachedStep DEF LiveInv
<1>17. MissedInv'
  <2>1. SUFFICES ASSUME NEW k \in Conns, Alive(k), NEW m \in DOMAIN cached \ disturbed,
                        NEW n \in DOMAIN suscriptors[cached[m].queue],
                        suscriptors[cached[m].queue][n] = fdOf[k]
                 PROVE  Given(k, m)' \/ ToMap(k, m)' \/ ToWalk(m, n)'
    BY <1>1 DEF MissedInv, Alive, Accepted
  <2>2. Given(k, m) \/ ToMap(k, m) \/ ToWalk(m, n)
    BY <2>1 DEF LiveInv, MissedInv
  <2>3. CASE Given(k, m)
    BY <1>8, <2>3 DEF Given
  <2>4. CASE ToWalk(m, n)
    BY <1>1, <1>9, <2>4 DEF ToWalk
  <2>5. CASE ToMap(k, m) /\ k # c
    BY <1>9, <2>5 DEF ToMap
  (* The thread itself: what it listed gets a thread now. *)
  <2>6. CASE ToMap(k, m) /\ k = c
    <3>1. m \in serving[c].listed
      BY <1>1, <2>6 DEF ToMap
    <3>2. PICK s \in ids : s[1] = m
      BY <1>7, <3>1
    <3>3. s \in DOMAIN senders' /\ senders'[s].msg = m /\ senders'[s].for = sockets[fd]
      BY <1>8, <3>2
    <3>4. sockets[fd] = k
      BY <1>7, <2>1, <2>6 DEF Alive
    <3> QED BY <3>3, <3>4 DEF Given
  <2> QED BY <2>2, <2>3, <2>4, <2>5, <2>6
<1> QED BY <1>14, <1>15, <1>16, <1>17 DEF LiveInv

LEMMA ProcessMessageDelivers ==
  ASSUME IInv, ConnInv, LiveInv, NEW c \in Conns, ProcessMessage(c)
  PROVE  ConnInv' /\ LiveInv'
<1>1. /\ serving[c].pc = "lock" /\ serving[c].package.op = "MESSAGE"
      /\ \A j \in Conns : serving[j].pc \notin Handling
      /\ ID' = ID + 1
      /\ serving' = [serving EXCEPT ![c].pc = "walk", ![c].msg = ID', ![c].i = 1]
      /\ UNCHANGED <<fdOf, sockets, open, request, inbox, suscriptors, senders, disturbed>>
  BY DEF ProcessMessage, HandlerFree, Handling, clientVars
<1>2. Types /\ HandlerInv
  BY DEF IInv
<1>3. ID \in Nat /\ ID' \in Nat /\ ID' # ID /\ ID' \notin DOMAIN cached
  BY <1>1, <1>2 DEF Types
<1>4. QueueOf(c) \in Queues
  <2>1. serving[c].package \in Packages
    BY <1>2 DEF Types, Served
  <2> QED BY <1>1, <2>1, RequestKinds DEF Packages, QueueOf
<1>5. /\ serving'[c].pc = "walk" /\ serving'[c].package = serving[c].package
      /\ serving'[c].msg = ID' /\ serving'[c].i = 1
      /\ \A j \in Conns \ {c} : serving'[j] = serving[j]
  BY <1>1, <1>2, <1>3, ZenonT(40) DEF Types, Served, ServePcs
<1>6. /\ cached' \in [DOMAIN cached' -> Records]
      /\ ID' \in DOMAIN cached' /\ cached'[ID'].queue = QueueOf(c) /\ cached'[ID'].sent = {}
      /\ \A m \in DOMAIN cached' \ {ID'} : m \in DOMAIN cached /\ cached'[m] = cached[m]
  <2>1. PICK kept \in SUBSET DOMAIN cached :
          cached' = [m \in kept \cup {ID'} |->
                       IF m = ID' THEN [queue |-> QueueOf(c), sent |-> {}, left |-> 0]
                       ELSE cached[m]]
    BY DEF ProcessMessage
  <2>2. cached \in [DOMAIN cached -> Records]
    BY DEF LiveInv, CachedInv
  <2>3. /\ DOMAIN cached' = kept \cup {ID'}
        /\ cached'[ID'] = [queue |-> QueueOf(c), sent |-> {}, left |-> 0]
        /\ \A m \in DOMAIN cached' \ {ID'} : m \in DOMAIN cached /\ cached'[m] = cached[m]
    BY <2>1
  <2>4. [queue |-> QueueOf(c), sent |-> {}, left |-> 0] \in Records
    BY <1>4 DEF Records
  <2>5. \A m \in DOMAIN cached' : cached'[m] \in Records
    BY <2>2, <2>3, <2>4
  <2>6. cached' = [m \in DOMAIN cached' |-> cached'[m]]
    BY <2>1
  <2>7. cached' \in [DOMAIN cached' -> Records]
    BY <2>5, <2>6
  <2> QED BY <2>3, <2>7
<1>7. ListedKeepQueue /\ ListedGoOn
  BY <1>1, <1>5 DEF ListedKeepQueue, ListedGoOn, Listed
<1>8. SendersGoOn /\ StartedFor /\ EntriesOfListed /\ \A e : EntriesStay(e)
  BY <1>1, SameListsStay DEF SendersGoOn, StartedFor, EntriesOfListed
<1>9. ASSUME NEW k \in open', FirstIn(fdOf, k) PROVE Undisturbed(k)
  <2>1. /\ k \in open /\ k \in Conns /\ sockets'[fdOf[k]] = k
        /\ \A t \in DOMAIN senders : senders[t].fd = fdOf[k] => senders[t].pc \notin {"remove", "close"}
    BY <1>1, <1>9, OpenFacts
  <2>2. /\ serving[k].pc = "read" => inbox[k] # <<>>
        /\ serving[k].pc # "read" => serving[k].package = request[k]
    BY <1>9, <2>1 DEF ConnInv, OpenInv
  <2>3. CASE k = c
    BY <1>1, <1>5, <1>8, <2>1, <2>2, <2>3 DEF Undisturbed, Listed
  <2>4. CASE k # c
    BY <1>1, <1>5, <1>8, <1>9, <2>1, <2>2, <2>4, ThreadDisturbsNobody
  <2> QED BY <2>3, <2>4
<1>10. ConnInv'
  BY <1>1, <1>7, <1>8, <1>9, ConnStep
<1>11. AliveInv'
  BY <1>1, <1>7, <1>8, AliveStep DEF LiveInv
<1>12. \A h \in Conns : serving'[h].pc \in {"walk", "take"} => h = c
  BY <1>1, <1>5 DEF Handling
<1>13. CachedInv'
  <2>1. ASSUME NEW m \in DOMAIN cached', NEW fd \in cached'[m].sent
        PROVE  \E s \in DOMAIN senders' : senders'[s].msg = m /\ senders'[s].fd = fd
    <3>1. m \in DOMAIN cached /\ fd \in cached[m].sent
      BY <1>6, <2>1
    <3> QED BY <1>1, <3>1 DEF LiveInv, CachedInv
  <2>2. cached'[serving'[c].msg].queue = serving'[c].package.arg
    BY <1>5, <1>6 DEF QueueOf
  <2> QED BY <1>6, <1>12, <2>1, <2>2 DEF CachedInv, QueueOf
<1>14. MissedInv'
  <2>1. SUFFICES ASSUME NEW k \in Conns, Alive(k), NEW m \in DOMAIN cached' \ disturbed,
                        NEW n \in DOMAIN suscriptors[cached'[m].queue],
                        suscriptors[cached'[m].queue][n] = fdOf[k]
                 PROVE  Given(k, m)' \/ ToMap(k, m)' \/ ToWalk(m, n)'
    BY <1>1 DEF MissedInv, Alive, Accepted
  <2>2. CASE m # ID'
    <3>1. m \in DOMAIN cached \ disturbed /\ cached'[m] = cached[m]
      BY <1>6, <2>1, <2>2
    <3>2. Given(k, m) \/ ToMap(k, m) \/ ToWalk(m, n)
      BY <2>1, <3>1 DEF LiveInv, MissedInv
    <3>3. Given(k, m)
      BY <1>1, <3>2 DEF ToMap, ToWalk, Handling
    <3> QED BY <1>1, <3>3 DEF Given
  <2>3. CASE m = ID'
    <3>1. n \in Nat /\ n >= 1
      <4>1. suscriptors[QueueOf(c)] \in Seq(Fds)
        BY <1>2, <1>4 DEF Types
      <4> QED BY <1>6, <2>1, <2>3, <4>1
    <3> QED BY <1>5, <2>3, <3>1 DEF ToWalk
  <2> QED BY <2>2, <2>3
<1> QED BY <1>10, <1>11, <1>13, <1>14 DEF LiveInv

LEMMA TakeSuscriptorDelivers ==
  ASSUME IInv, ConnInv, LiveInv, NEW c \in Conns, TakeSuscriptor(c)
  PROVE  ConnInv' /\ LiveInv'
<1> DEFINE m0 == serving[c].msg
           i == serving[c].i
           q == QueueOf(c)
           fd == suscriptors[q][i]
           new == <<m0, "newMessage", i>>
<1>1. /\ serving[c].pc = "take"
      /\ UNCHANGED <<fdOf, sockets, open, request, inbox, ID, suscriptors, cached, disturbed>>
  BY DEF TakeSuscriptor, clientVars
<1>2. Types /\ HandlerInv /\ SocketInv /\ ListInv /\ WalkInv
  BY DEF IInv
<1>3. /\ q \in Queues /\ suscriptors[q] \in Seq(Fds)
      /\ m0 \in Nat /\ i \in Nat /\ i >= 1 /\ i + 1 \in Nat
  BY <1>1, <1>2 DEF HandlerInv, Handling, WalkInv, Types, Served
<1>4. \A e : EntriesStay(e)
  BY <1>1, SameListsStay
<1>5. CASE ~ InList(c)
  <2>1. serving' = [serving EXCEPT ![c].pc = "crashed"] /\ UNCHANGED senders
    BY <1>5 DEF TakeSuscriptor
  <2>2. /\ SameSenders
        /\ \A s \in DOMAIN senders : senders'[s].pc = "receive" =>
             senders[s].pc = "receive" /\ senders'[s].at = senders[s].at
    BY <1>2, <2>1, SameThreadsOfSenders
  <2>3. /\ QuietThreads /\ serving'[c].pc = "crashed" /\ serving'[c].package = serving[c].package
        /\ \A j \in Conns \ {c} : serving'[j] = serving[j]
    BY <1>1, <1>2, <2>1, QuietStep, ThreadGoesOn DEF ServePcs
  <2>4. WalksGoOn
    <3>1. \A n \in DOMAIN suscriptors[QueueOf(c)] : ~ (serving[c].i <= n)
      BY <1>3, <1>5 DEF InList
    <3> QED BY <2>3, <3>1 DEF WalksGoOn
  <2>5. LessSockets /\ NotesOnly /\ PlacesStay
    BY <1>1, SameSockets, NoNotes, SameListsStay
  <2>6. ASSUME NEW k \in open', FirstIn(fdOf, k) PROVE Undisturbed(k)
    <3>1. /\ k \in open /\ k \in Conns /\ sockets'[fdOf[k]] = k
          /\ \A t \in DOMAIN senders : senders[t].fd = fdOf[k] => senders[t].pc \notin {"remove", "close"}
      BY <1>1, <2>6, OpenFacts
    <3>2. /\ serving[k].pc = "read" => inbox[k] # <<>>
          /\ serving[k].pc # "read" => serving[k].package = request[k]
      BY <2>6, <3>1 DEF ConnInv, OpenInv
    <3>3. CASE k = c
      BY <1>1, <1>4, <2>1, <2>3, <3>1, <3>2, <3>3 DEF Undisturbed, Listed
    <3>4. CASE k # c
      BY <1>1, <1>4, <2>1, <2>3, <2>6, <3>1, <3>2, <3>4, ThreadDisturbsNobody
    <3> QED BY <3>3, <3>4
  <2>7. ConnInv'
    BY <1>1, <2>2, <2>3, <2>6, ConnFrame
  <2>8. LiveInv'
    BY <1>1, <2>2, <2>3, <2>4, <2>5, LiveFrame
  <2> QED BY <2>7, <2>8
<1>6. CASE InList(c)
  <2>1. /\ senders' = Started({new}, fd)
        /\ serving' = [serving EXCEPT ![c].pc = "walk", ![c].i = i + 1]
    BY <1>6 DEF TakeSuscriptor
  <2>2. i \in DOMAIN suscriptors[q] /\ fd \in Fds /\ DOMAIN suscriptors[q] \subseteq Nat
    BY <1>3, <1>6 DEF InList
  <2>3. new \in Ids /\ new[1] = m0 /\ new[2] = "newMessage" /\ new[3] = i
    BY <1>3 DEF Ids
  <2>4. new \notin DOMAIN senders
    <3>1. \A s \in DOMAIN senders : s[1] = m0 => s[3] < i
      BY <1>1, <1>2 DEF WalkInv
    <3> QED BY <1>3, <2>3, <3>1
  <2>5. /\ serving[c].i = i /\ serving[c].msg = m0 /\ serving[c].package.arg = q
        /\ suscriptors[q][i] = fd
    BY DEF QueueOf
  <2> HIDE DEF m0, i, q, fd, new
  <2>6. /\ serving'[c].pc = "walk" /\ serving'[c].package = serving[c].package
        /\ serving'[c].msg = m0 /\ serving'[c].i = i + 1
        /\ \A j \in Conns \ {c} : serving'[j] = serving[j]
    BY <1>2, <1>3, <2>1, <2>5 DEF Types, Served, ServePcs
  <2>7. /\ DOMAIN senders' = DOMAIN senders \cup {new}
        /\ senders'[new].msg = m0 /\ senders'[new].fd = fd
        /\ senders'[new].for = sockets[fd] /\ senders'[new].pc = "get"
        /\ \A s \in DOMAIN senders : senders'[s] = senders[s]
    <3>1. {new} \in SUBSET Ids
      BY <2>3
    <3>2. /\ DOMAIN senders' = DOMAIN senders \cup {new}
          /\ \A s \in {new} : senders'[s] = Sender(s[1], fd)
          /\ \A s \in DOMAIN senders \ {new} : senders'[s] = senders[s]
      BY <1>2, <2>1, <2>2, <3>1, StartedThreads
    <3> QED BY <2>3, <2>4, <3>2 DEF Sender
  <2>8. ListedKeepQueue /\ ListedGoOn
    BY <1>1, <2>6 DEF ListedKeepQueue, ListedGoOn, Listed
  <2>9. StartedFor /\ EntriesOfListed
    BY <1>1, <2>7 DEF StartedFor, EntriesOfListed
  (* The descriptor was put in the list by a thread that is done with it. *)
  <2>10. SendersGoOn
    <3>1. PICK j \in Conns : j \in Accepted /\ fdOf[j] = fd /\ serving[j].pc \in Listed
      BY <1>2, <1>3, <2>2, <2>5 DEF ListInv
    <3>2. serving'[j].pc \in Listed
      BY <2>8, <3>1 DEF ListedGoOn
    <3> QED BY <2>4, <2>7, <3>1, <3>2 DEF SendersGoOn
  <2>11. ASSUME NEW k \in open', FirstIn(fdOf, k) PROVE Undisturbed(k)
    <3>1. /\ k \in open /\ k \in Conns /\ sockets'[fdOf[k]] = k
          /\ \A t \in DOMAIN senders : senders[t].fd = fdOf[k] => senders'[t].pc \notin {"remove", "close"}
      BY <1>1, <2>7, <2>11, OpenFacts
    <3>2. /\ serving[k].pc = "read" => inbox[k] # <<>>
          /\ serving[k].pc # "read" => serving[k].package = request[k]
          /\ serving[k].pc \in {"walk", "take"} => request[k].op = "MESSAGE"
      BY <2>11, <3>1 DEF ConnInv, OpenInv
    <3>3. CASE k = c
      BY <1>1, <1>4, <2>6, <3>1, <3>2, <3>3 DEF Undisturbed, Listed
    <3>4. CASE k # c
      BY <1>1, <1>4, <2>6, <3>1, <3>2, <3>4 DEF Undisturbed
    <3> QED BY <3>3, <3>4
  <2>12. ConnInv'
    BY <1>1, <2>8, <2>10, <2>11, ConnStep
  <2>13. AliveInv'
    BY <1>1, <2>8, <2>9, AliveStep DEF LiveInv
  <2>14. CachedInv'
    <3>1. \A h \in Conns : serving'[h].pc \in {"walk", "take"} =>
            /\ serving[h].pc \in {"walk", "take"}
            /\ serving'[h].msg = serving[h].msg /\ serving'[h].package = serving[h].package
      BY <1>1, <2>5, <2>6
    <3> QED BY <1>1, <2>7, <3>1, CachedStep DEF LiveInv
  <2>15. MissedInv'
    <3>1. SUFFICES ASSUME NEW k \in Conns, Alive(k), NEW m \in DOMAIN cached \ disturbed,
                          NEW n \in DOMAIN suscriptors[cached[m].queue],
                          suscriptors[cached[m].queue][n] = fdOf[k]
                   PROVE  Given(k, m)' \/ ToMap(k, m)' \/ ToWalk(m, n)'
      BY <1>1 DEF MissedInv, Alive, Accepted
    <3>2. Given(k, m) \/ ToMap(k, m) \/ ToWalk(m, n)
      BY <3>1 DEF LiveInv, MissedInv
    <3>3. CASE Given(k, m)
      BY <2>7, <3>3 DEF Given
    <3>4. CASE ToMap(k, m)
      BY <1>1, <2>6, <3>4 DEF ToMap
    <3>5. CASE ToWalk(m, n)
      <4>1. PICK h \in Conns : /\ serving[h].pc \in {"walk", "take"}
                               /\ serving[h].msg = m /\ serving[h].i <= n
        BY <3>5 DEF ToWalk
      <4>2. CASE h # c
        BY <2>6, <4>1, <4>2 DEF ToWalk
      <4>3. CASE h = c
        <5>1. cached[m].queue = q /\ m = m0 /\ i <= n /\ n \in Nat
          BY <2>2, <2>5, <3>1, <4>1, <4>3 DEF LiveInv, CachedInv, QueueOf
        <5>2. CASE n = i
          <6>1. senders'[new].for = k
            BY <2>5, <2>7, <3>1, <5>1, <5>2 DEF Alive
          <6> QED BY <2>7, <5>1, <6>1 DEF Given
        <5>3. CASE n # i
          <6>1. i + 1 <= n
            BY <1>3, <2>5, <5>1, <5>3 DEF i
          <6> QED BY <2>6, <5>1, <6>1 DEF ToWalk
        <5> QED BY <5>2, <5>3
      <4> QED BY <4>2, <4>3
    <3> QED BY <3>2, <3>3, <3>4, <3>5
  <2> QED BY <2>12, <2>13, <2>14, <2>15 DEF LiveInv
<1> QED BY <1>5, <1>6

LEMMA AcceptDelivers ==
  ASSUME IInv, IInv', ConnInv, LiveInv, Accept
  PROVE  ConnInv' /\ LiveInv'
<1>1. PICK r \in Requests, fd \in Fds :
        LET k == Len(fdOf) + 1 IN
        /\ sockets[fd] = None
        /\ fdOf' = Append(fdOf, fd)
        /\ sockets' = [sockets EXCEPT ![fd] = k]
        /\ open' = IF r = Nothing THEN open ELSE open \cup {k}
        /\ request' = [request EXCEPT ![k] = r]
        /\ inbox' = [inbox EXCEPT ![k] = IF r = Nothing THEN <<>> ELSE <<r>>]
        /\ serving' = [serving EXCEPT ![k].pc = "read"]
  BY DEF Accept
<1> DEFINE c == Len(fdOf) + 1
<1>2. UNCHANGED <<toAck, ID, suscriptors, cached, senders, disturbed>>
  BY DEF Accept
<1>3. Types /\ HandlerInv /\ SocketInv /\ ListInv /\ SenderFdInv /\ Types'
  BY DEF IInv, ConnInv
<1>4. /\ Len(fdOf) \in Nat /\ c \in Nat /\ c # None /\ Accepted = 1 .. Len(fdOf)
      /\ c \notin Accepted /\ Accepted' = Accepted \cup {c}
      /\ fdOf'[c] = fd /\ \A j \in Accepted : fdOf'[j] = fdOf[j]
  BY <1>1, <1>3 DEF Types, Accepted, None
<1>5. c \in Conns /\ \A j \in Accepted : j \in Conns /\ j # c /\ fdOf[j] \in Fds
  <2>1. Len(fdOf') <= NConns /\ Len(fdOf') = c
    BY <1>1, <1>3 DEF Types
  <2>2. c <= NConns /\ NConns \in Nat
    BY <2>1, Bounds
  <2>3. ASSUME NEW j \in Accepted PROVE fdOf[j] \in Fds /\ j \in 1 .. NConns /\ j # c
    <3>1. fdOf \in Seq(Fds) /\ Len(fdOf) <= NConns
      BY <1>3 DEF Types
    <3>2. j \in 1 .. Len(fdOf)
      BY <1>4
    <3> QED BY <1>4, <2>2, <3>1, <3>2
  <2> QED BY <1>4, <2>2, <2>3 DEF Conns
<1>6. /\ sockets'[fd] = c /\ \A e \in Fds \ {fd} : sockets'[e] = sockets[e]
      /\ request'[c] = r /\ \A j \in Conns \ {c} : request'[j] = request[j]
      /\ inbox'[c] = (IF r = Nothing THEN <<>> ELSE <<r>>)
      /\ \A j \in Conns \ {c} : inbox'[j] = inbox[j]
      /\ serving'[c].pc = "read" /\ \A j \in Conns \ {c} : serving'[j] = serving[j]
  BY <1>1, <1>3, <1>5, SMTT(30) DEF IInv, CountInv, Types, Served
<1>7. sockets[fd] = None /\ serving[c].pc = "none"
  BY <1>1, <1>3, <1>4, <1>5 DEF HandlerInv
<1> HIDE DEF c
<1>8. \A j \in Accepted : FirstIn(fdOf', j) <=> FirstIn(fdOf, j)
  BY <1>4 DEF FirstIn
<1>9. \A j \in Conns : serving[j].pc # "none" => serving'[j] = serving[j] /\ j # c
  BY <1>6, <1>7
(* No earlier connection that is alive has this descriptor, and if this is *)
(* the first that has it nothing in the broker speaks of it.               *)
<1>10. \A k \in Accepted : sockets[fdOf[k]] = k => fdOf[k] # fd /\ sockets'[fdOf[k]] = k
  BY <1>4, <1>5, <1>6, <1>7 DEF None
<1>11. FirstIn(fdOf', c) => \A j \in Accepted : fdOf[j] # fd
  <2>1. Accepted = 1 .. c - 1
    BY <1>4 DEF c
  <2> QED BY <1>4, <2>1 DEF FirstIn
<1>12. FirstIn(fdOf', c) =>
         /\ \A s \in DOMAIN senders : senders[s].fd # fd
         /\ \A q \in Queues : \A i \in DOMAIN suscriptors[q] : suscriptors[q][i] # fd
  BY <1>3, <1>11 DEF SenderFdInv, ListInv
<1>13. SenderFdInv'
  <2>1. SUFFICES ASSUME NEW s \in DOMAIN senders
                 PROVE  /\ \E j \in Conns : j \in Accepted' /\ fdOf'[j] = senders[s].fd /\ serving'[j].pc \in Listed
                        /\ senders[s].pc = "receive" =>
                             senders[s].at \in Accepted' /\ fdOf'[senders[s].at] = senders[s].fd
    BY <1>2 DEF SenderFdInv
  <2>2. PICK j \in Conns : j \in Accepted /\ fdOf[j] = senders[s].fd /\ serving[j].pc \in Listed
    BY <1>3 DEF SenderFdInv
  <2>3. j \in Accepted' /\ fdOf'[j] = senders[s].fd /\ serving'[j].pc \in Listed
    BY <1>4, <1>9, <2>2 DEF Listed
  <2>4. senders[s].pc = "receive" => senders[s].at \in Accepted /\ fdOf[senders[s].at] = senders[s].fd
    BY <1>3 DEF SenderFdInv
  <2> QED BY <1>4, <2>3, <2>4
<1>14. OpenInv'
  <2>1. SUFFICES ASSUME NEW k \in open', FirstIn(fdOf', k)
                 PROVE  /\ sockets'[fdOf'[k]] = k
                        /\ serving'[k].pc \notin {"none", "remove", "close"}
                        /\ serving'[k].pc = "read" => inbox'[k] # <<>> /\ Head(inbox'[k]) = request'[k]
                        /\ serving'[k].pc # "read" => serving'[k].package = request'[k]
                        /\ serving'[k].pc \in {"walk", "take"} => request'[k].op = "MESSAGE"
                        /\ request'[k].op = "SUBSCRIPTION" /\ serving'[k].pc \in Listed =>
                             \E i \in DOMAIN suscriptors[request'[k].arg] :
                               suscriptors[request'[k].arg][i] = fdOf'[k]
                        /\ \A s \in DOMAIN senders :
                             senders[s].fd = fdOf'[k] => senders[s].pc \notin {"remove", "close"}
    BY <1>2 DEF OpenInv, InQueue
  <2>2. CASE k = c
    <3>1. r # Nothing
      <4>1. c \notin open
        BY <1>3, <1>4 DEF Types
      <4> QED BY <1>1, <2>1, <2>2, <4>1
    <3>2. inbox'[k] = <<r>> /\ request'[k] = r
      BY <1>6, <2>2, <3>1
    <3>3. inbox'[k] # <<>> /\ Head(inbox'[k]) = request'[k]
      BY <3>2
    <3> QED BY <1>4, <1>6, <1>12, <2>1, <2>2, <3>3 DEF Listed
  <2>3. CASE k # c
    <3>1. k \in open /\ k \in Accepted
      <4>1. k \in open
        BY <1>1, <2>1, <2>3 DEF c
      <4> QED BY <1>3, <4>1 DEF Types
    <3>2. /\ FirstIn(fdOf, k) /\ fdOf'[k] = fdOf[k] /\ serving'[k] = serving[k]
          /\ request'[k] = request[k] /\ inbox'[k] = inbox[k]
      BY <1>4, <1>5, <1>6, <1>8, <2>1, <2>3, <3>1
    <3>3. /\ sockets[fdOf[k]] = k
          /\ serving[k].pc \notin {"none", "remove", "close"}
          /\ serving[k].pc = "read" => inbox[k] # <<>> /\ Head(inbox[k]) = request[k]
          /\ serving[k].pc # "read" => serving[k].package = request[k]
          /\ serving[k].pc \in {"walk", "take"} => request[k].op = "MESSAGE"
          /\ request[k].op = "SUBSCRIPTION" /\ serving[k].pc \in Listed =>
               \E i \in DOMAIN suscriptors[request[k].arg] : suscriptors[request[k].arg][i] = fdOf[k]
          /\ \A s \in DOMAIN senders :
               senders[s].fd = fdOf[k] => senders[s].pc \notin {"remove", "close"}
      BY <3>1, <3>2 DEF ConnInv, OpenInv, InQueue
    <3>4. sockets'[fdOf[k]] = k
      BY <1>10, <3>1, <3>3
    <3> QED BY <3>2, <3>3, <3>4
  <2> QED BY <2>2, <2>3
<1>15. ASSUME NEW k \in Conns, Alive(k)'
       PROVE  \/ k = c /\ FirstIn(fdOf', c) /\ fdOf'[k] = fd
              \/ /\ Alive(k) /\ fdOf'[k] = fdOf[k] /\ k # c
                 /\ serving'[k] = serving[k]
  <2>1. k \in Accepted' /\ FirstIn(fdOf', k) /\ sockets'[fdOf'[k]] = k
    BY <1>15 DEF Alive
  <2>2. CASE k = c
    BY <1>4, <2>1, <2>2
  <2>3. CASE k # c
    <3>1. k \in Accepted /\ fdOf'[k] = fdOf[k] /\ FirstIn(fdOf, k) /\ fdOf[k] \in Fds
      BY <1>4, <1>5, <1>8, <2>1, <2>3
    <3>2. fdOf[k] # fd
      BY <1>6, <2>1, <2>3, <3>1
    <3>3. sockets[fdOf[k]] = k
      BY <1>6, <2>1, <3>1, <3>2
    <3> QED BY <1>6, <2>3, <3>1, <3>3 DEF Alive
  <2> QED BY <2>2, <2>3
<1>16. CachedInv'
  <2>1. \A h \in Conns : serving'[h].pc \in {"walk", "take"} => serving'[h] = serving[h]
    BY <1>6
  <2> QED BY <1>2, <2>1, CachedStep DEF LiveInv
<1>17. AliveInv'
  <2>1. SUFFICES ASSUME NEW k \in Conns, Alive(k)'
                 PROVE  /\ \A s \in DOMAIN senders : senders[s].fd = fdOf'[k] => senders[s].for = k
                        /\ \A q \in Queues : \A i \in DOMAIN suscriptors[q] : suscriptors[q][i] = fdOf'[k] =>
                             serving'[k].pc \in Listed /\ serving'[k].package.arg = q
    BY <1>2 DEF AliveInv, InQueue, QueueOf
  <2>2. CASE k = c /\ FirstIn(fdOf', c) /\ fdOf'[k] = fd
    BY <1>12, <2>2
  <2>3. CASE Alive(k) /\ fdOf'[k] = fdOf[k] /\ k # c /\ serving'[k] = serving[k]
    BY <2>3 DEF LiveInv, AliveInv, InQueue, QueueOf
  <2> QED BY <1>15, <2>1, <2>2, <2>3
<1>18. MissedInv'
  <2>1. SUFFICES ASSUME NEW k \in Conns, Alive(k)', NEW m \in DOMAIN cached \ disturbed,
                        NEW n \in DOMAIN suscriptors[cached[m].queue],
                        suscriptors[cached[m].queue][n] = fdOf'[k]
                 PROVE  Given(k, m)' \/ ToMap(k, m)' \/ ToWalk(m, n)'
    BY <1>2 DEF MissedInv
  <2>2. CASE k = c /\ FirstIn(fdOf', c) /\ fdOf'[k] = fd
    <3>1. cached[m].queue \in Queues
      BY <2>1 DEF LiveInv, CachedInv, Records
    <3> QED BY <1>12, <2>1, <2>2, <3>1
  <2>3. CASE Alive(k) /\ fdOf'[k] = fdOf[k] /\ k # c /\ serving'[k] = serving[k]
    <3>1. Given(k, m) \/ ToMap(k, m) \/ ToWalk(m, n)
      BY <2>1, <2>3 DEF LiveInv, MissedInv
    <3>2. CASE Given(k, m)
      BY <1>2, <3>2 DEF Given
    <3>3. CASE ToMap(k, m)
      BY <2>3, <3>3 DEF ToMap
    <3>4. CASE ToWalk(m, n)
      BY <1>9, <3>4 DEF ToWalk
    <3> QED BY <3>1, <3>2, <3>3, <3>4
  <2> QED BY <1>15, <2>1, <2>2, <2>3
<1> QED BY <1>13, <1>14, <1>16, <1>17, <1>18 DEF ConnInv, LiveInv

-----------------------------------------------------------------------------
LEMMA InitDelivers == Init => ConnInv /\ LiveInv
<1> SUFFICES ASSUME Init PROVE ConnInv /\ LiveInv
  OBVIOUS
<1>1. Accepted = {} /\ DOMAIN senders = {} /\ DOMAIN cached = {} /\ open = {}
  BY DEF Init, Accepted
<1>2. \A h \in Conns : serving[h].pc = "none"
  BY DEF Init, NoThread
<1>3. SenderFdInv /\ OpenInv
  BY <1>1 DEF SenderFdInv, OpenInv
<1>4. cached \in [DOMAIN cached -> Records]
  BY <1>1 DEF Init
<1>5. CachedInv /\ AliveInv /\ MissedInv
  BY <1>1, <1>2, <1>4 DEF CachedInv, AliveInv, MissedInv, Alive
<1> QED BY <1>3, <1>5 DEF ConnInv, LiveInv

LEMMA StutterDelivers ==
  ASSUME ConnInv, LiveInv, UNCHANGED vars
  PROVE  ConnInv' /\ LiveInv'
<1>1. ConnInv'
  BY DEF vars, clientVars, ConnInv, SenderFdInv, OpenInv, InQueue, Accepted
<1>2. CachedInv' /\ AliveInv' /\ MissedInv'
  BY DEF vars, clientVars, LiveInv, CachedInv, AliveInv, MissedInv, Alive, InQueue, Accepted,
         QueueOf, Given, ToMap, ToWalk
<1> QED BY <1>1, <1>2 DEF LiveInv

LEMMA NextDelivers ==
  ASSUME IInv, ConnInv, LiveInv, [Next]_vars
  PROVE  ConnInv' /\ LiveInv'
<1>1. SUFFICES ASSUME Next PROVE ConnInv' /\ LiveInv'
  BY StutterDelivers
<1>2. CASE Accept
  <2>1. IInv'
    BY NextKeeps
  <2> QED BY <1>2, <2>1, AcceptDelivers
<1>3. CASE \E k \in Conns : ClientAck(k) \/ ClientClose(k) \/ ServeStep(k)
  <2>1. PICK k \in Conns : ClientAck(k) \/ ClientClose(k) \/ ServeStep(k)
    BY <1>3
  <2>2. CASE ClientAck(k)       BY <2>2, ClientAckDelivers
  <2>3. CASE ClientClose(k)     BY <2>3, ClientCloseDelivers
  <2>4. CASE ServeRead(k)       BY <2>4, ServeReadDelivers
  <2>5. CASE ServeRemove(k)     BY <2>5, ServeRemoveDelivers
  <2>6. CASE ServeClose(k)      BY <2>6, ServeCloseDelivers
  <2>7. CASE Suscribe(k)        BY <2>7, SuscribeDelivers
  <2>8. CASE ListMessages(k)    BY <2>8, ListMessagesDelivers
  <2>9. CASE MapMessages(k)     BY <2>9, MapMessagesDelivers
  <2>10. CASE ProcessMessage(k) BY <2>10, ProcessMessageDelivers
  <2>11. CASE WalkOn(k)         BY <2>11, WalkOnDelivers
  <2>12. CASE TakeSuscriptor(k) BY <2>12, TakeSuscriptorDelivers
  <2>13. CASE GetAcknowledge(k) BY <2>13, GetAcknowledgeDelivers
  <2> QED BY <2>1, <2>2, <2>3, <2>4, <2>5, <2>6, <2>7, <2>8, <2>9, <2>10, <2>11, <2>12, <2>13 DEF ServeStep
<1>4. CASE \E s \in DOMAIN senders : SenderStep(s)
  <2>1. PICK s \in DOMAIN senders : SenderStep(s)
    BY <1>4
  <2>2. CASE SenderGet(s)     BY <2>2, SenderGetDelivers
  <2>3. CASE SenderSend(s)    BY <2>3, SenderSendDelivers
  <2>4. CASE SenderNote(s)    BY <2>4, SenderNoteDelivers
  <2>5. CASE SenderWait(s)    BY <2>5, SenderWaitDelivers
  <2>6. CASE SenderReceive(s) BY <2>6, SenderReceiveDelivers
  <2>7. CASE SenderRemove(s)  BY <2>7, SenderRemoveDelivers
  <2>8. CASE SenderClose(s)   BY <2>8, SenderCloseDelivers
  <2> QED BY <2>1, <2>2, <2>3, <2>4, <2>5, <2>6, <2>7, <2>8 DEF SenderStep
<1> QED BY <1>1, <1>2, <1>3, <1>4 DEF Next

(* The strengthening: whichever threads subscribe, publish, send, wait and *)
(* leave, and whenever a descriptor is closed and given to another client. *)
THEOREM Deliveries == Spec => [](ConnInv /\ LiveInv)
<1>1. Init => IInv /\ ConnInv /\ LiveInv
  BY InitHolds, InitDelivers
<1>2. IInv /\ (ConnInv /\ LiveInv) /\ [Next]_vars => (ConnInv /\ LiveInv)'
  BY NextDelivers
<1> QED BY <1>1, <1>2, Invariance, PTL DEF Spec

(* Whoever else leaves, whatever threads wait on whose descriptor and in   *)
(* whatever order the acknowledgements come: the threads that remove a     *)
(* client and close its descriptor have all seen that client gone.         *)
THEOREM SubscriberStays == Spec => []ConnectedStaySubscribed
<1>1. IInv /\ ConnInv => ConnectedStaySubscribed
  <2>1. SUFFICES ASSUME IInv, ConnInv, NEW k \in open, request[k].op = "SUBSCRIPTION",
                        FirstIn(fdOf, k), serving[k].pc \in Listed
                 PROVE  sockets[fdOf[k]] = k /\ InQueue(fdOf[k], request[k].arg)
    BY DEF ConnectedStaySubscribed, FirstOnItsDescriptor, FirstIn, Listed, InQueue
  <2> QED BY <2>1 DEF ConnInv, OpenInv
<1> QED BY <1>1, Deliveries, Invariance, PTL

(* A message and a subscriber that arrive together do not miss each other: *)
(* the subscriber is in the list before it looks at the cache, the message *)
(* is in the cache before the walk over the list, and each subscriber that *)
(* is listed either has its thread, is about to list the message, or is    *)
(* ahead of the walk.                                                      *)
THEOREM NobodyIsMissed == Spec => []NobodyMissed
<1>1. IInv /\ LiveInv => NobodyMissed
  <2>1. SUFFICES ASSUME IInv, LiveInv, HandlerFree, NEW k \in Accepted,
                        NEW m \in DOMAIN cached \ disturbed,
                        FirstIn(fdOf, k), sockets[fdOf[k]] = k,
                        NEW n \in DOMAIN suscriptors[cached[m].queue],
                        suscriptors[cached[m].queue][n] = fdOf[k]
                 PROVE  Given(k, m)
    BY DEF NobodyMissed, FirstOnItsDescriptor, FirstIn, Given
  <2>2. k \in Conns /\ Alive(k)
    BY <2>1, Bounds DEF Alive, Accepted, Conns, IInv, Types
  <2>3. Given(k, m) \/ ToMap(k, m) \/ ToWalk(m, n)
    BY <2>1, <2>2 DEF LiveInv, MissedInv
  <2> QED BY <2>1, <2>2, <2>3 DEF HandlerFree, ToMap, ToWalk
<1> QED BY <1>1, Deliveries, Invariance, PTL
=============================================================================

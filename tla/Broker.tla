-------------------------------- MODULE Broker --------------------------------
(***************************************************************************)
(* The delivery side of the broker (Broker/src/Broker.c and the functions  *)
(* of CacheMemory.c that keep a message's deliveries): connections, the    *)
(* subscriber lists of the queues, one detached thread per message and     *)
(* subscriber, acknowledgements, and the removal of clients that left.     *)
(*                                                                         *)
(* The broker knows a client by its file descriptor, and so do the lists   *)
(* of subscribers and the list of who was sent a message.  The kernel      *)
(* hands a closed descriptor out again, so the model keeps connections     *)
(* (numbered as they are accepted) and descriptors apart.                  *)
(*                                                                         *)
(* The cache is seen through what CacheMemory promises: saving a message   *)
(* keeps it and gives up any older ones.  mutex_saving makes each of the   *)
(* cache's operations one step.  A thread that dies on a bad pointer takes *)
(* the process with it: that behaviour stops there.                        *)
(***************************************************************************)
EXTENDS Integers, Sequences, FiniteSets

CONSTANTS
  Queues,        \* the message queues
  AckedQueues,   \* those whose subscribers acknowledge what they receive
  NSubscribers,  \* bound: how many clients connect to subscribe
  NMessages,     \* bound: how many connect to publish a message
  NSilent        \* bound: how many connect and leave without a request

ASSUME BrokerAssumption ==
  /\ AckedQueues \subseteq Queues
  /\ NSubscribers \in Nat /\ NMessages \in Nat /\ NSilent \in Nat

NConns   == NSubscribers + NMessages + NSilent
Conns    == 1 .. NConns
Messages == 1 .. NMessages
Fds      == Conns    \* a connection takes the lowest free descriptor
None     == 0

VARIABLES
  fdOf,         \* the descriptor each accepted connection was given, in order
  sockets,      \* the connection each descriptor is open on, or None
  open,         \* the connections whose client has not gone
  request,      \* what each connection's client sent first
  inbox,        \* what each client sent and no thread has read
  toAck,        \* what each client received and has not acknowledged
  serving,      \* the threads in serve_client and recive_message, by connection
  ID,           \* the last message id given out
  suscriptors,  \* the descriptors in each queue's list of subscribers
  cached,       \* cached messages: [queue, sent, left]
  senders,      \* the threads in queue_handler_send_message
  disturbed     \* history: messages published while a subscriber was removed

clientVars == <<open, request, toAck>>
vars == <<fdOf, sockets, clientVars, inbox, serving, ID, suscriptors, cached,
          senders, disturbed>>

-----------------------------------------------------------------------------
Subscription(q) == [op |-> "SUBSCRIPTION", arg |-> q]
Message(q)      == [op |-> "MESSAGE", arg |-> q]
Acknowledge(m)  == [op |-> "ACKNOWLEDGE", arg |-> m]
Nothing         == [op |-> "NOTHING", arg |-> None]

Requests == {Subscription(q) : q \in Queues} \cup {Message(q) : q \in Queues} \cup {Nothing}

Accepted == 1 .. Len(fdOf)

(* The bound on the connections that make a request of a kind. *)
Bound(op) == CASE op = "SUBSCRIPTION" -> NSubscribers
               [] op = "MESSAGE"      -> NMessages
               [] op = "NOTHING"      -> NSilent

NoThread == [pc |-> "none", package |-> Nothing, msg |-> None, i |-> 0, listed |-> {}]

(* The queue the thread of connection k works on. *)
QueueOf(k) == serving[k].package.arg

(* The arguments of a new sender thread, and the connection it is meant for. *)
Sender(m, fd) ==
  [msg |-> m, fd |-> fd, pc |-> "get", at |-> None, for |-> sockets[fd]]

(* pthread_create of queue_handler_send_message, for each of these.        *)
Started(ids, fd) ==
  [s \in DOMAIN senders \cup ids |-> IF s \in ids THEN Sender(s[1], fd) ELSE senders[s]]

(* close: what is left of a connection is whatever other threads hold of it. *)
Closed(fd) == [sockets EXCEPT ![fd] = None]

RemoveFirst_Head(list, fd) == IF list = <<>> THEN list ELSE Tail(list)

(* list_remove_by_condition: the first entry of the descriptor leaves.     *)
RemoveFirst(list, fd) ==
  LET at == {i \in 1 .. Len(list) : list[i] = fd /\ \A j \in 1 .. i - 1 : list[j] # fd}
  IN  [i \in 1 .. Len(list) - Cardinality(at) |->
         IF \E j \in at : j <= i THEN list[i + 1] ELSE list[i]]

(* remove_disconnected_from_queues, on every queue. *)
RemoveFromQueues(fd) ==
  /\ suscriptors' = [q \in Queues |-> RemoveFirst(suscriptors[q], fd)]
  /\ disturbed' = disturbed \cup
       {serving[k].msg : k \in {j \in Conns :
          /\ serving[j].pc \in {"walk", "take"}
          /\ \E i \in DOMAIN suscriptors[QueueOf(j)] : suscriptors[QueueOf(j)][i] = fd}}

-----------------------------------------------------------------------------
(* accept in main, and pthread_create of serve_client.  The client sends   *)
(* its one request right after it connects, or leaves without any.         *)
Accept ==
  /\ \E r \in Requests, fd \in Fds :
       LET k == Len(fdOf) + 1 IN
       /\ sockets[fd] = None /\ \A e \in 1 .. fd - 1 : sockets[e] # None
       /\ Cardinality({j \in Accepted : request[j].op = r.op}) < Bound(r.op)
       /\ fdOf' = Append(fdOf, fd)
       /\ sockets' = [sockets EXCEPT ![fd] = k]
       /\ open' = IF r = Nothing THEN open ELSE open \cup {k}
       /\ request' = [request EXCEPT ![k] = r]
       /\ inbox' = [inbox EXCEPT ![k] = IF r = Nothing THEN <<>> ELSE <<r>>]
       /\ serving' = [serving EXCEPT ![k].pc = "read"]
  /\ UNCHANGED <<toAck, ID, suscriptors, cached, senders, disturbed>>

(* The client acknowledges, in the order it received them. *)
ClientAck(k) ==
  /\ k \in open
  /\ toAck[k] # <<>>
  /\ inbox' = [inbox EXCEPT ![k] = Append(@, Acknowledge(Head(toAck[k])))]
  /\ toAck' = [toAck EXCEPT ![k] = Tail(@)]
  /\ UNCHANGED <<fdOf, sockets, open, request, serving, ID, suscriptors, cached,
                 senders, disturbed>>

ClientClose(k) ==
  /\ k \in open
  /\ open' = open \ {k}
  /\ toAck' = [toAck EXCEPT ![k] = <<>>]
  /\ UNCHANGED <<fdOf, sockets, request, inbox, serving, ID, suscriptors, cached,
                 senders, disturbed>>

-----------------------------------------------------------------------------
(* RecievePackage on connection k when its client is gone and nothing is   *)
(* left to read: recv returns 0, which GetPackage does not treat as an     *)
(* error, and the package is made of what was in memory.  It may have no   *)
(* valid op_code (-1) or look like any package.                            *)
Garbage(k) == k # None /\ k \notin open /\ inbox[k] = <<>>

(* serve_client reads the request. *)
ServeRead(k) ==
  LET at == sockets[fdOf[k]] IN
  /\ k \in Accepted
  /\ serving[k].pc = "read"
  /\ \/ /\ at # None /\ inbox[at] # <<>>
        /\ serving' = [serving EXCEPT ![k].pc = "lock", ![k].package = Head(inbox[at])]
        /\ inbox' = [inbox EXCEPT ![at] = Tail(@)]
     \/ /\ at = None \/ Garbage(at)
        /\ serving' = [serving EXCEPT ![k].pc = "remove"]
        /\ UNCHANGED inbox
     \/ /\ Garbage(at)
        /\ serving' = [serving EXCEPT ![k].pc = "done"]
        /\ UNCHANGED inbox
  /\ UNCHANGED <<fdOf, sockets, clientVars, ID, suscriptors, cached, senders, disturbed>>

(* RemoveClient from serve_client: first the lists, then the descriptor. *)
ServeRemove(k) ==
  /\ serving[k].pc = "remove"
  /\ RemoveFromQueues(fdOf[k])
  /\ serving' = [serving EXCEPT ![k].pc = "close"]
  /\ UNCHANGED <<fdOf, sockets, clientVars, inbox, ID, cached, senders>>

ServeClose(k) ==
  /\ serving[k].pc = "close"
  /\ sockets' = Closed(fdOf[k])
  /\ serving' = [serving EXCEPT ![k].pc = "done"]
  /\ UNCHANGED <<fdOf, clientVars, inbox, ID, suscriptors, cached, senders, disturbed>>

-----------------------------------------------------------------------------
(* recive_message, under mutex_handle_message. *)

HandlerFree_Ignored == TRUE
HandlerFree == \A k \in Conns : serving[k].pc \notin {"list", "map", "walk", "take"}

(* broker_suscribe_process, up to GetAllMessagesForSuscriptor. *)
Suscribe(k) ==
  /\ serving[k].pc = "lock" /\ serving[k].package.op = "SUBSCRIPTION"
  /\ HandlerFree
  /\ suscriptors' = [suscriptors EXCEPT ![QueueOf(k)] = Append(@, fdOf[k])]
  /\ serving' = [serving EXCEPT ![k].pc = "list"]
  /\ UNCHANGED <<fdOf, sockets, clientVars, inbox, ID, cached, senders, disturbed>>

(* The filter of GetAllMessagesForSuscriptor. *)
NotSent(k) ==
  {m \in DOMAIN cached : cached[m].queue = QueueOf(k) /\ fdOf[k] \notin cached[m].sent}

ListMessages(k) ==
  /\ serving[k].pc = "list"
  /\ serving' = [serving EXCEPT ![k].pc = "map", ![k].listed = NotSent(k)]
  /\ UNCHANGED <<fdOf, sockets, clientVars, inbox, ID, suscriptors, cached, senders, disturbed>>

(* The rest, which no longer holds mutex_saving: list_map reads the cached *)
(* messages it was given, and each gets a thread.                          *)
MapMessages(k) ==
  /\ serving[k].pc = "map"
  /\ senders' = Started({<<m, "newSubscriber", k>> : m \in serving[k].listed}, fdOf[k])
  /\ serving' = [serving EXCEPT ![k].pc = "done", ![k].listed = {}]
  /\ UNCHANGED <<fdOf, sockets, clientVars, inbox, ID, suscriptors, cached, disturbed>>

(* broker_process_message up to save_message, which may give up any older  *)
(* messages to make room.                                                  *)
ProcessMessage(k) ==
  /\ serving[k].pc = "lock" /\ serving[k].package.op = "MESSAGE"
  /\ HandlerFree
  /\ ID' = ID + 1
  /\ \E kept \in SUBSET DOMAIN cached :
       cached' = [m \in kept \cup {ID'} |->
                    IF m = ID' THEN [queue |-> QueueOf(k), sent |-> {}, left |-> 0]
                    ELSE cached[m]]
  /\ serving' = [serving EXCEPT ![k].pc = "walk", ![k].msg = ID', ![k].i = 1]
  /\ UNCHANGED <<fdOf, sockets, clientVars, inbox, suscriptors, senders, disturbed>>

(* Whether list_get finds an element at the index of thread k's walk. *)
InList_OneShort(k) == serving[k].i < Len(suscriptors[QueueOf(k)])
InList(k) == serving[k].i <= Len(suscriptors[QueueOf(k)])

(* The loop of queue_handler_process_message looks an element up twice: to *)
(* see that there is one, and to take it, when the pointer may be NULL.    *)
WalkOn(k) ==
  /\ serving[k].pc = "walk"
  /\ serving' = [serving EXCEPT ![k].pc = IF InList(k) THEN "take" ELSE "done"]
  /\ UNCHANGED <<fdOf, sockets, clientVars, inbox, ID, suscriptors, cached, senders, disturbed>>

TakeSuscriptor(k) ==
  LET m == serving[k].msg
      i == serving[k].i
  IN
  /\ serving[k].pc = "take"
  /\ IF InList(k)
     THEN /\ senders' = Started({<<m, "newMessage", i>>}, suscriptors[QueueOf(k)][i])
          /\ serving' = [serving EXCEPT ![k].pc = "walk", ![k].i = i + 1]
     ELSE /\ serving' = [serving EXCEPT ![k].pc = "crashed"]
          /\ UNCHANGED senders
  /\ UNCHANGED <<fdOf, sockets, clientVars, inbox, ID, suscriptors, cached, disturbed>>

(* An acknowledgement that serve_client reads is dropped. *)
GetAcknowledge(k) ==
  /\ serving[k].pc = "lock" /\ serving[k].package.op = "ACKNOWLEDGE"
  /\ HandlerFree
  /\ serving' = [serving EXCEPT ![k].pc = "done"]
  /\ UNCHANGED <<fdOf, sockets, clientVars, inbox, ID, suscriptors, cached, senders, disturbed>>

-----------------------------------------------------------------------------
(* queue_handler_send_message. *)

Goto(s, pc) == [senders EXCEPT ![s].pc = pc]

(* GetMessage. *)
SenderGet(s) ==
  /\ senders[s].pc = "get"
  /\ senders' = Goto(s, IF senders[s].msg \in DOMAIN cached THEN "send" ELSE "done")
  /\ UNCHANGED <<fdOf, sockets, clientVars, inbox, serving, ID, suscriptors, cached,
                 disturbed>>

(* SendMessage: on a closed descriptor it fails; when the client is gone   *)
(* it may fail, or the message is lost.                                    *)
SenderSend(s) ==
  LET k == sockets[senders[s].fd] IN
  /\ senders[s].pc = "send"
  /\ \/ /\ k \in open
        /\ toAck' = [toAck EXCEPT ![k] = Append(@, senders[s].msg)]
        /\ senders' = Goto(s, "note")
     \/ /\ k \notin open
        /\ senders' = Goto(s, "remove")
        /\ UNCHANGED toAck
     \/ /\ k # None /\ k \notin open
        /\ senders' = Goto(s, "note")
        /\ UNCHANGED toAck
  /\ UNCHANGED <<fdOf, sockets, open, request, inbox, serving, ID, suscriptors, cached,
                 disturbed>>

Noted(m, fd) == [cached[m] EXCEPT !.sent = @ \cup {fd}, !.left = @ + 1]

(* AddASentSubscriberToMessage, which does nothing when the message is gone. *)
SenderNote(s) ==
  LET m == senders[s].msg IN
  /\ senders[s].pc = "note"
  /\ cached' = IF m \in DOMAIN cached
               THEN [cached EXCEPT ![m] = Noted(m, senders[s].fd)] ELSE cached
  /\ senders' = Goto(s, "wait")
  /\ UNCHANGED <<fdOf, sockets, clientVars, inbox, serving, ID, suscriptors, disturbed>>

(* RecievePackage blocks on the connection its descriptor is open on now,  *)
(* and stays with it if the descriptor is closed meanwhile.                *)
SenderWait(s) ==
  LET k == sockets[senders[s].fd] IN
  /\ senders[s].pc = "wait"
  /\ senders' = IF k = None THEN Goto(s, "remove")
                ELSE [senders EXCEPT ![s].pc = "receive", ![s].at = k]
  /\ UNCHANGED <<fdOf, sockets, clientVars, inbox, serving, ID, suscriptors, cached,
                 disturbed>>

(* AddAcknowledgeToMessage. *)
Acknowledged(m) ==
  IF m \in DOMAIN cached THEN [cached EXCEPT ![m].left = @ - 1] ELSE cached

Unexpected_Waits(s) == Goto(s, "wait")
Unexpected(s) == Goto(s, "done")

(* What was read counts only if it is the acknowledgement of this message; *)
(* anything else, another message's acknowledgement included, is dropped.  *)
SenderReceive(s) ==
  LET k == senders[s].at
      m == senders[s].msg
  IN
  /\ senders[s].pc = "receive"
  /\ \/ /\ inbox[k] # <<>> /\ Head(inbox[k]) = Acknowledge(m)
        /\ inbox' = [inbox EXCEPT ![k] = Tail(@)]
        /\ cached' = Acknowledged(m)
        /\ senders' = Goto(s, "done")
     \/ /\ inbox[k] # <<>> /\ Head(inbox[k]) # Acknowledge(m)
        /\ inbox' = [inbox EXCEPT ![k] = Tail(@)]
        /\ senders' = Unexpected(s)
        /\ UNCHANGED cached
     \/ /\ Garbage(k)
        /\ \/ senders' = Goto(s, "remove") /\ UNCHANGED cached
           \/ senders' = Goto(s, "done") /\ cached' \in {cached, Acknowledged(m)}
        /\ UNCHANGED inbox
  /\ UNCHANGED <<fdOf, sockets, clientVars, serving, ID, suscriptors, disturbed>>

(* RemoveClient: neither half is under a lock. *)
SenderRemove(s) ==
  /\ senders[s].pc = "remove"
  /\ RemoveFromQueues(senders[s].fd)
  /\ senders' = Goto(s, "close")
  /\ UNCHANGED <<fdOf, sockets, clientVars, inbox, serving, ID, cached>>

SenderClose(s) ==
  /\ senders[s].pc = "close"
  /\ sockets' = Closed(senders[s].fd)
  /\ senders' = Goto(s, "done")
  /\ UNCHANGED <<fdOf, clientVars, inbox, serving, ID, suscriptors, cached, disturbed>>

-----------------------------------------------------------------------------
Init ==
  /\ fdOf = <<>>
  /\ sockets = [fd \in Fds |-> None]
  /\ open = {}
  /\ request = [k \in Conns |-> Nothing]
  /\ inbox = [k \in Conns |-> <<>>]
  /\ toAck = [k \in Conns |-> <<>>]
  /\ serving = [k \in Conns |-> NoThread]
  /\ ID = 0
  /\ suscriptors = [q \in Queues |-> <<>>]
  /\ cached = [m \in {} |-> [queue |-> None, sent |-> {}, left |-> 0]]
  /\ senders = <<>>
  /\ disturbed = {}

ServeStep(k) ==
  \/ ServeRead(k) \/ ServeRemove(k) \/ ServeClose(k)
  \/ Suscribe(k) \/ ListMessages(k) \/ MapMessages(k)
  \/ ProcessMessage(k) \/ WalkOn(k) \/ TakeSuscriptor(k)
  \/ GetAcknowledge(k)

SenderStep(s) ==
  \/ SenderGet(s) \/ SenderSend(s) \/ SenderNote(s) \/ SenderWait(s)
  \/ SenderReceive(s) \/ SenderRemove(s) \/ SenderClose(s)

Running == \A k \in Conns : serving[k].pc # "crashed"

Next ==
  /\ Running
  /\ \/ Accept
     \/ \E k \in Conns : ClientAck(k) \/ ClientClose(k) \/ ServeStep(k)
     \/ \E s \in DOMAIN senders : SenderStep(s)

Spec == Init /\ [][Next]_vars

SenderIds == Messages \X {"newSubscriber", "newMessage"} \X Conns

(* The operating system lets the threads that can go on do so, and the     *)
(* clients subscribed to AckedQueues (the Game Card) acknowledge in a loop; *)
(* those subscribed to the others (the Team) never send an acknowledgement. *)
(* Nobody has to connect, or to leave.  The weak fairness of each group is *)
(* enough, since a thread takes a bounded number of steps.                 *)
FairSpec ==
  /\ Spec
  /\ WF_vars(Running /\ \E k \in Conns : ServeStep(k))
  /\ WF_vars(Running /\ \E k \in Conns : request[k].arg \in AckedQueues /\ ClientAck(k))
  /\ WF_vars(Running /\ \E s \in DOMAIN senders : SenderStep(s))
-----------------------------------------------------------------------------
(* Properties. *)

(* Types; in particular ack_by_subscribers_left never goes below zero: no  *)
(* acknowledgement is counted before its message was noted as sent.        *)
TypeOK ==
  /\ fdOf \in Seq(Fds) /\ Len(fdOf) <= NConns
  /\ sockets \in [Fds -> 0 .. Len(fdOf)]
  /\ open \subseteq Accepted
  /\ request \in [Conns -> Requests]
  /\ inbox \in [Conns -> Seq(Requests \cup {Acknowledge(m) : m \in Messages})]
  /\ toAck \in [Conns -> Seq(Messages)]
  /\ ID \in 0 .. NMessages
  /\ suscriptors \in [Queues -> Seq(Fds)]
  /\ DOMAIN cached \subseteq 1 .. ID
  /\ cached \in [DOMAIN cached -> [queue : Queues, sent : SUBSET Fds, left : Nat]]
  /\ \A k \in Conns : serving[k].pc \in {"none", "read", "lock", "list", "map", "walk", "take",
                                       "remove", "close", "done", "crashed"}
  /\ DOMAIN senders \subseteq SenderIds
  /\ senders \in [DOMAIN senders ->
        [msg : Messages, fd : Fds, at : 0 .. NConns, for : 0 .. NConns,
         pc : {"get", "send", "note", "wait", "receive", "remove", "close", "done"}]]
  /\ disturbed \subseteq Messages

(* Connection k is the first on its descriptor.  What the broker knows by  *)
(* the descriptor it then knows of this connection alone; a connection on  *)
(* a descriptor that was used before inherits the traces of the earlier    *)
(* ones, and no property of this section speaks of it.                     *)
FirstOnItsDescriptor(k) == \A j \in 1 .. k - 1 : fdOf[j] # fdOf[k]

(* A message and a subscriber that arrive together get one thread, not     *)
(* two: the subscription either sees the message in the cache or is seen   *)
(* by the walk over the subscribers, never both.                           *)
ServedOnce ==
  \A s, t \in DOMAIN senders :
    /\ s # t /\ senders[s].msg = senders[t].msg
    /\ senders[s].for \in Accepted /\ FirstOnItsDescriptor(senders[s].for)
    => senders[s].for # senders[t].for

(* ... and never neither: when no handler is at work, every subscriber was *)
(* given a thread for every cached message of its queue, except those whose *)
(* walk over the list was disturbed by the removal of another subscriber.  *)
NobodyMissed ==
  HandlerFree =>
    \A k \in Accepted, m \in DOMAIN cached \ disturbed :
      /\ FirstOnItsDescriptor(k) /\ sockets[fdOf[k]] = k
      /\ \E i \in DOMAIN suscriptors[cached[m].queue] :
            suscriptors[cached[m].queue][i] = fdOf[k]
      => \E s \in DOMAIN senders : senders[s].msg = m /\ senders[s].for = k

(* The messages a subscription selected under mutex_saving are still in    *)
(* the cache when list_map reads them after mutex_saving was released      *)
(* (CacheMemory.c:534): an eviction would have freed them.                 *)
ListedStillCached ==
  \A k \in Conns : serving[k].pc = "map" => serving[k].listed \subseteq DOMAIN cached

(* A client that subscribed and has not left keeps its subscription and    *)
(* its connection, whatever its acknowledgements' order and whichever      *)
(* other clients leave.                                                    *)
ConnectedStaySubscribed ==
  \A k \in open :
    /\ request[k].op = "SUBSCRIPTION" /\ FirstOnItsDescriptor(k)
    /\ serving[k].pc \in {"list", "map", "done"}
    => /\ sockets[fdOf[k]] = k
       /\ \E i \in DOMAIN suscriptors[request[k].arg] : suscriptors[request[k].arg][i] = fdOf[k]

(* Every thread that serves a client which acknowledges comes to its end,  *)
(* although each takes whatever acknowledgement is next, as long as no     *)
(* descriptor is given out twice.                                          *)
Sending(m) ==
  \E s \in DOMAIN senders :
    LET k == senders[s].for IN
    /\ senders[s].msg = m /\ senders[s].pc # "done"
    /\ k \in Accepted /\ request[k].arg \in AckedQueues
SendersEnd ==
  [](Running /\ \A k \in Accepted : FirstOnItsDescriptor(k)) =>
    \A m \in Messages : Sending(m) ~> ~ Sending(m)

(* The comment "GetAllMessagesFromQueue that were not sent to him"         *)
(* (Broker.c:230): a new subscriber is given every cached message of its   *)
(* queue for which it has no thread yet.                                   *)
NewSubscriberCatchesUp ==
  \A k \in Conns : serving[k].pc = "map" =>
    \A m \in DOMAIN cached :
      /\ cached[m].queue = QueueOf(k)
      /\ \A s \in DOMAIN senders : senders[s].msg = m => senders[s].for # k
      => m \in serving[k].listed
=============================================================================

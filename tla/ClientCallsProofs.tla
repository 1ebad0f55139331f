-------------------------- MODULE ClientCallsProofs --------------------------
(***************************************************************************)
(* What TLAPS proves of ClientCalls, for every number of threads, calls    *)
(* and cookies.                                                            *)
(***************************************************************************)
EXTENDS ClientCalls, TLAPS

-----------------------------------------------------------------------------
(***************************************************************************)
(* The invariant of a call, whatever the constants are.                    *)
(***************************************************************************)
Task == [task : {"FinishCall", "HandleContextObjectMessage"}, msg : Packet]

(* FinishCall is posted to the strand after the promise is set.            *)
TasksFor(set) == {x \in Task : x.task = "FinishCall" => x.msg.cookie \in set}

FinishInv == strand_ \in Seq(TasksFor(DOMAIN promise))

InCall(t) == thread[t].pc \in {"started", "waiting", "returned"}

(* What pending_calls_ and promise have for a thread in Transact is of its *)
(* call.                                                                   *)
ThreadInv ==
  \A t \in Threads : InCall(t) =>
    LET c == thread[t].cookie
    IN  /\ c < next_cookie_
        /\ thread[t].pc = "returned" => c \in DOMAIN promise
        /\ c \in DOMAIN pending_calls_ => pending_calls_[c] = thread[t].call
        /\ c \in DOMAIN promise => ~IsAcknowledgement(promise[c], thread[t].call)

CallInv == TypeOK /\ FinishInv /\ WaitingCallIsPending /\ ThreadInv

-----------------------------------------------------------------------------
(***************************************************************************)
(* The invariant of answers, for cookies of calls that are kept whole by   *)
(* BinaryReader and apart from those the server numbers its own messages   *)
(* with.                                                                   *)
(***************************************************************************)
CookiesApart ==
  /\ MaxCookies <= 256 /\ MaxIncoming <= FirstCookie
  /\ MaxUnasked = 0 \/ FirstCookie > 0

(* A message about a call below n, under the cookie of that call.          *)
CallPacket(n) ==
  {m \in Packet : m.of = Id("call", m.cookie) /\ m.cookie < n /\ m.cookie < MaxCookies}

(* A message on its way to the server, and one on its way to the client.   *)
RequestPacket(n) ==
  CallPacket(n) \cup {m \in Packet : m.type \in {"Status", "TransactionReply"}}

AnswerPacket(n) ==
  CallPacket(n) \cup {m \in Packet : m.of.kind # "call" /\
                                     (m.type = "LogEntry" \/ m.cookie < FirstCookie)}

(* The messages on the two directions of the socket.                       *)
SocketInv ==
  /\ to_server \in Seq(RequestPacket(next_cookie_))
  /\ at_target \subseteq CallPacket(next_cookie_)
  /\ from_server \in Seq(AnswerPacket(next_cookie_))

(* What the client keeps of its calls.                                     *)
KeptInv ==
  /\ FirstCookie <= next_cookie_
  /\ DOMAIN pending_calls_ \subseteq FirstCookie .. MaxCookies - 1
  /\ \A t \in Threads : InCall(t) => thread[t].cookie < MaxCookies
  /\ \A c \in DOMAIN promise : promise[c].of = Id("call", c)

-----------------------------------------------------------------------------
(***************************************************************************)
(* The invariant of a two-way call: what will settle it is in one place.   *)
(***************************************************************************)
TwoWayOnly == \A call \in Calls \cup NestedCalls : ~call.one_way

(* The requests of call c, those of another type than call has, and the    *)
(* messages that settle it.                                                *)
RequestFor(c) == {m \in Packet : m.type \in {"Transaction", "Acquire"} /\ m.cookie = c}

WrongRequest(c, call) == {m \in RequestFor(c) : m.type # call.type}

AnswerTo(c, call) ==
  {m \in Packet : m.of = Id("call", c) /\ ~IsAcknowledgement(m, call)}

None(q, S) == \A i \in DOMAIN q : q[i] \notin S

AtMostOne(q, S) == \A i, j \in DOMAIN q : q[i] \in S /\ q[j] \in S => i = j

(* The four places, when there is nothing in them for call c.              *)
Unrequested(c) == None(to_server, RequestFor(c))

Untargeted(c) == \A m \in at_target : m.cookie # c

Unanswered(c, call) == None(from_server, AnswerTo(c, call))

Unset(c) == c \notin DOMAIN promise

OneTarget(c) == \A m, n \in at_target : m.cookie = c /\ n.cookie = c => m = n

Starting(t, c) == thread[t].pc = "started" /\ thread[t].cookie = c

Calling(t, c) == InCall(t) /\ thread[t].cookie = c

PlaceInv(c, call) ==
  /\ ~call.one_way
  /\ AtMostOne(to_server, RequestFor(c)) /\ None(to_server, WrongRequest(c, call))
  /\ AtMostOne(from_server, AnswerTo(c, call))
  /\ OneTarget(c)
  /\ Unrequested(c) \/ (Untargeted(c) /\ Unanswered(c, call) /\ Unset(c))
  /\ Untargeted(c) \/ (call.type = "Transaction" /\ Unanswered(c, call) /\ Unset(c))
  /\ Unanswered(c, call) \/ Unset(c)
  /\ \A t \in Threads : Starting(t, c) =>
       /\ Unrequested(c) /\ Untargeted(c) /\ Unanswered(c, call) /\ Unset(c)
       /\ \A u \in Threads \ {t} : ~Calling(u, c)

PlacesInv ==
  \A c \in Nat, call \in Call :
    c \in DOMAIN pending_calls_ /\ pending_calls_[c] = call => PlaceInv(c, call)

-----------------------------------------------------------------------------
(***************************************************************************)
(* The invariant of the transactions the client serves: a transaction, or  *)
(* its answer, is in one place.                                            *)
(***************************************************************************)
ServedApart == CookiesApart /\ MaxIncoming <= 256

(* The messages that carry transaction c of another client, or answer it.  *)
For(c) == {m \in Packet : m.of = Id("Transaction", c)}

(* A message for one of the first n transactions has its cookie.           *)
Meant(m, n) ==
  m.of = Id("Transaction", m.cookie) /\ m.cookie < n /\ m.cookie < 256

Incoming(n) ==
  {m \in Packet :
     m.of.kind = "Transaction" => m.type = "Transaction" /\ Meant(m, n)}

Outgoing(n) ==
  {m \in Packet :
     m.of.kind = "Transaction" => m.type \in {"Status", "TransactionReply"} /\ Meant(m, n)}

(* FinishCall stands for no transaction.                                   *)
ServedTask(n) ==
  {x \in Task : x.msg \in Incoming(n) /\
     (x.task = "FinishCall" => x.msg.of.kind # "Transaction")}

Carried(n) ==
  /\ from_server \in Seq(Incoming(n)) /\ in_messages_ \in Seq(Incoming(n))
  /\ strand_ \in Seq(ServedTask(n)) /\ to_server \in Seq(Outgoing(n))
  /\ \A w \in Workers \cup {Strand} : serving[w] \in Incoming(n)

CarriedInv == Carried(next_transaction_cookie_)

Names == {"from_server", "strand_", "in_messages_", "serving", "to_server"}

(* The places V have at most one message of S between them; they have one. *)
Once(V, S) ==
  /\ \A p \in Names : AtMostOne(V[p], S)
  /\ \A p, q \in Names : p # q => None(V[p], S) \/ None(V[q], S)

Somewhere(V, S) == \E p \in Names : ~None(V[p], S)

OnceAt(c) ==
  /\ Once(InTransit, For(c))
  /\ c \in unanswered => should_exit_ \/ Somewhere(InTransit, For(c))

OnceInv == \A c \in Nat : OnceAt(c)

-----------------------------------------------------------------------------
(***************************************************************************)
(* Messages.                                                               *)
(***************************************************************************)

(* What a sender puts on the socket is a message.                          *)
LEMMA SendType ==
  ASSUME NEW type \in MessageType, NEW cookie \in Nat, NEW ok \in BOOLEAN,
         NEW of \in Ids
  PROVE  /\ Send(type, cookie, ok, of) \in Packet
         /\ Send(type, cookie, ok, of).type = type
         /\ Send(type, cookie, ok, of).cookie = cookie
         /\ Send(type, cookie, ok, of).ok = ok
         /\ Send(type, cookie, ok, of).of = of
BY DEF Send, Packet

(* The parts of a message.                                                 *)
LEMMA PacketFields ==
  ASSUME NEW m \in Packet
  PROVE  /\ m.type \in MessageType /\ m.cookie \in Nat /\ m.ok \in BOOLEAN
         /\ m.of \in Ids
BY DEF Packet

(* Reading the header of a message keeps one byte of its cookie.           *)
LEMMA ReadHeader ==
  ASSUME NEW m \in Packet
  PROVE  LET r == [m EXCEPT !.cookie = ReadValue(m.cookie)]
         IN  /\ r \in Packet /\ r.type = m.type /\ r.ok = m.ok /\ r.of = m.of
             /\ r.cookie = ReadValue(m.cookie) /\ r.cookie <= m.cookie
             /\ m.cookie < 256 => r.cookie = m.cookie
<1> DEFINE k == m.cookie
<1>1. k \in Nat
  BY DEF Packet
<1> HIDE DEF k
<1>2. k % 256 \in Nat /\ k % 256 <= k /\ (k < 256 => k % 256 = k)
  BY <1>1
<1>3. ReadValue(m.cookie) = k % 256
  BY DEF ReadValue, k
<1> QED
  BY <1>2, <1>3 DEF Packet, k

(* What an id is.                                                          *)
LEMMA IdType ==
  ASSUME NEW c \in Nat,
         NEW kind \in {"nothing", "call", "Transaction", "DeadBinder", "LogEntry"}
  PROVE  /\ Id(kind, c) \in Ids /\ Id(kind, c).kind = kind /\ Id(kind, c).cookie = c
BY DEF Id, Ids

(* The message that stands for none.                                       *)
LEMMA NoPacketType ==
  /\ NoPacket \in Packet /\ NoPacket.type = "Unknown" /\ NoPacket.cookie = 0
  /\ \A c \in Nat : /\ FinishTask(c) \in Task
                    /\ FinishTask(c).task = "FinishCall"
                    /\ FinishTask(c).msg.cookie = c
                    /\ FinishTask(c).msg.type = "Unknown"
<1>1. Nothing \in Ids
  BY DEF Nothing, Ids
<1>2. NoPacket \in Packet /\ NoPacket.type = "Unknown" /\ NoPacket.cookie = 0
  BY <1>1 DEF NoPacket, Send, Packet, MessageType
<1>3. ASSUME NEW c \in Nat
      PROVE  /\ FinishTask(c) \in Task
             /\ FinishTask(c).task = "FinishCall"
             /\ FinishTask(c).msg.cookie = c
             /\ FinishTask(c).msg.type = "Unknown"
  <2> DEFINE m == [NoPacket EXCEPT !.cookie = c]
  <2>1. m \in Packet /\ m.cookie = c /\ m.type = "Unknown"
    BY <1>2 DEF Packet
  <2>2. FinishTask(c) = [task |-> "FinishCall", msg |-> m]
    BY DEF FinishTask
  <2> HIDE DEF m
  <2> QED
    BY <2>1, <2>2 DEF Task
<1> QED
  BY <1>2, <1>3

(* The parts of a task of the strand.                                      *)
LEMMA TaskFields ==
  ASSUME NEW x \in Task
  PROVE  /\ x.msg \in Packet
         /\ x.task \in {"FinishCall", "HandleContextObjectMessage"}
BY DEF Task

(* The first element of a queue, and what is left behind it.               *)
LEMMA Dequeued ==
  ASSUME NEW S, NEW q \in Seq(S), q # << >>
  PROVE  Head(q) \in S /\ Tail(q) \in Seq(S)
OBVIOUS

(* A queue with one more element.                                          *)
LEMMA Queued ==
  ASSUME NEW S, NEW q \in Seq(S), NEW e \in S
  PROVE  Append(q, e) \in Seq(S)
OBVIOUS

(* A queue of elements of a set is one of elements of a larger set.        *)
LEMMA LargerSeq ==
  ASSUME NEW S, NEW T, S \subseteq T, NEW q \in Seq(S)
  PROVE  q \in Seq(T)
<1>1. DOMAIN q = 1 .. Len(q) /\ Len(q) \in Nat /\ \A i \in 1 .. Len(q) : q[i] \in S
  OBVIOUS
<1>2. q = [i \in 1 .. Len(q) |-> q[i]]
  OBVIOUS
<1> QED
  BY <1>1, <1>2

(* Insert and Erase on the maps of the client.                             *)
LEMMA InsertMap ==
  ASSUME NEW f, NEW K, NEW V, IsMap(f, K, V), NEW k \in K, NEW v \in V
  PROVE  /\ IsMap(Insert(f, k, v), K, V)
         /\ DOMAIN Insert(f, k, v) = DOMAIN f \cup {k}
         /\ \A x \in DOMAIN f : Insert(f, k, v)[x] = f[x]
         /\ k \notin DOMAIN f => Insert(f, k, v)[k] = v
BY DEF Insert, IsMap

(* The same for Erase.                                                     *)
LEMMA EraseMap ==
  ASSUME NEW f, NEW K, NEW V, IsMap(f, K, V), NEW k
  PROVE  /\ IsMap(Erase(f, k), K, V)
         /\ DOMAIN Erase(f, k) = DOMAIN f \ {k}
         /\ \A x \in DOMAIN f \ {k} : Erase(f, k)[x] = f[x]
BY DEF Erase, IsMap

(* A map into a set of keys is one into a larger set of keys.              *)
LEMMA LargerMap ==
  ASSUME NEW f, NEW K, NEW L, NEW V, IsMap(f, K, V), K \subseteq L
  PROVE  IsMap(f, L, V)
BY DEF IsMap

-----------------------------------------------------------------------------
(***************************************************************************)
(* Types.                                                                  *)
(***************************************************************************)

(* The client and the server at the start.                                 *)
LEMMA InitTypeOK == Init => TypeOK
<1> SUFFICES ASSUME Init PROVE TypeOK
  OBVIOUS
<1>1. \A K, V : IsMap(EmptyMap, K, V)
  BY DEF IsMap, EmptyMap
<1>2. Idle \in ThreadState
  BY DEF Idle, ThreadState, StatusCall, Call
<1>3. NoPacket \in Packet
  BY NoPacketType
<1>4. /\ strand_ \in Seq([task : {"FinishCall", "HandleContextObjectMessage"},
                           msg : Packet])
      /\ in_messages_ \in Seq(Packet)
      /\ to_server \in Seq(Packet) /\ from_server \in Seq(Packet)
  BY DEF Init
<1>5. /\ thread \in [Threads -> ThreadState]
      /\ serving \in [Workers \cup {Strand} -> Packet]
  BY <1>2, <1>3 DEF Init
<1>6. /\ reading \in BOOLEAN /\ should_exit_ \in BOOLEAN /\ aborted \in BOOLEAN
      /\ context_obj_ \in BOOLEAN /\ (context_obj_ => MayServe)
  BY DEF Init
<1>7. /\ next_cookie_ \in Nat /\ next_transaction_cookie_ \in 0 .. MaxIncoming
      /\ unasked \in 0 .. MaxUnasked
      /\ at_target \subseteq Packet /\ unanswered \subseteq Nat
  BY BoundsAssumption DEF Init
<1>8. /\ IsMap(pending_calls_, 0 .. next_cookie_ - 1, Call)
      /\ IsMap(promise, 0 .. next_cookie_ - 1, Packet)
  BY <1>1 DEF Init
<1> QED
  BY <1>4, <1>5, <1>6, <1>7, <1>8 DEF TypeOK

(* The steps of application threads.                                       *)
LEMMA ApplicationTypeOK ==
  ASSUME TypeOK, ApplicationStep
  PROVE  TypeOK'
<1>1. ASSUME NEW t \in Threads, NEW call \in Call, StartCall(t, call)
      PROVE  TypeOK'
  <2> DEFINE c == CookieFor(call)
             n == next_cookie_
  <2>1. n \in Nat /\ c \in Nat /\ c >= n /\ n \in Nat
    BY DEF TypeOK, CookieFor
  <2>2. next_cookie_' = c + 1 /\ c \in 0 .. c /\ 0 .. n - 1 \subseteq 0 .. c
    BY <1>1, <2>1 DEF StartCall
  <2>3. IsMap(pending_calls_, 0 .. c, Call) /\ IsMap(promise, 0 .. c, Packet)
    BY <2>2, LargerMap DEF TypeOK
  <2>4. 0 .. next_cookie_' - 1 = 0 .. c
    BY <2>1, <2>2
  <2>5. IsMap(pending_calls_', 0 .. c, Call)
    <3>1. \/ pending_calls_' = pending_calls_
          \/ pending_calls_' = Insert(pending_calls_, c, call)
      BY <1>1 DEF StartCall
    <3> HIDE DEF c
    <3>2. IsMap(Insert(pending_calls_, c, call), 0 .. c, Call)
      BY <2>2, <2>3, InsertMap
    <3> QED
      BY <2>3, <3>1, <3>2
  <2>6. thread' \in [Threads -> ThreadState]
    <3>1. /\ [pc |-> "started", call |-> call, cookie |-> c] \in ThreadState
          /\ [thread[t] EXCEPT !.pc = "threw"] \in ThreadState
      BY <2>1 DEF TypeOK, ThreadState
    <3>2. \/ thread' = [thread EXCEPT ![t].pc = "threw"]
          \/ thread' = [thread EXCEPT ![t] =
                          [pc |-> "started", call |-> call, cookie |-> c]]
      BY <1>1 DEF StartCall
    <3> QED
      BY <3>1, <3>2 DEF TypeOK
  <2>7. /\ next_cookie_' \in Nat
        /\ IsMap(pending_calls_', 0 .. next_cookie_' - 1, Call)
        /\ IsMap(promise', 0 .. next_cookie_' - 1, Packet)
    <3>1. promise' = promise
      BY <1>1 DEF StartCall
    <3> QED
      BY <2>1, <2>2, <2>3, <2>4, <2>5, <3>1
  <2> QED
    BY <1>1, <2>6, <2>7 DEF StartCall, TypeOK, server_vars
<1>2. ASSUME NEW t \in Threads, QueueMessage(t)
      PROVE  TypeOK'
  <2>1. thread[t] \in ThreadState
    BY DEF TypeOK
  <2>2. thread[t].cookie \in Nat /\ thread[t].call.type \in MessageType
    BY <2>1 DEF ThreadState, Call, MessageType
  <2>3. Send(thread[t].call.type, thread[t].cookie, TRUE,
             Id("call", thread[t].cookie)) \in Packet
    BY <2>2 DEF Send, Packet, Id, Ids
  <2>4. to_server' \in Seq(Packet)
    <3> DEFINE m == Send(thread[t].call.type, thread[t].cookie, TRUE,
                         Id("call", thread[t].cookie))
    <3>1. to_server' = to_server \/ to_server' = Append(to_server, m)
      BY <1>2 DEF QueueMessage
    <3>2. m \in Packet /\ to_server \in Seq(Packet)
      BY <2>3 DEF TypeOK
    <3> HIDE DEF m
    <3>3. Append(to_server, m) \in Seq(Packet)
      BY <3>2, Queued
    <3> QED
      BY <3>1, <3>2, <3>3
  <2>5. thread' \in [Threads -> ThreadState]
    BY <1>2 DEF QueueMessage, TypeOK, ThreadState
  <2>6. serving' \in [Workers \cup {Strand} -> Packet]
    BY <1>2, NoPacketType DEF QueueMessage, TypeOK
  <2> QED
    BY <1>2, <2>4, <2>5, <2>6 DEF QueueMessage, TypeOK, server_vars
<1>3. ASSUME NEW t \in Threads, Return(t)
      PROVE  TypeOK'
  <2>1. thread' \in [Threads -> ThreadState]
    BY <1>3 DEF Return, TypeOK, ThreadState
  <2> QED
    BY <1>3, <2>1 DEF Return, TypeOK, server_vars
<1>4. CASE SetContextObject
  BY <1>4 DEF SetContextObject, TypeOK, server_vars
<1> QED
  BY <1>1, <1>2, <1>3, <1>4, CallsAssumption DEF ApplicationStep

(* What OnNewMessage does with the message it has read.                    *)
Dispatch(msg, cookie) ==
  \/ SkipLogEntry(msg)
  \/ /\ msg.type # "LogEntry"
     /\ \/ Resolve(msg, cookie)
        \/ SkipAcknowledgement(msg, cookie)
        \/ ResolveAgain(msg, cookie)
        \/ PostToContextObject(msg, cookie)
        \/ PushIncoming(msg, cookie)

(* OnNewMessage takes the message at the head of the socket and acts on it *)
(* by the byte of its cookie.                                              *)
LEMMA OnNewMessageReads ==
  ASSUME NEW S, S \subseteq Packet, from_server \in Seq(S), OnNewMessage
  PROVE  \E m \in S, msg \in Packet :
           /\ m = Head(from_server)
           /\ msg.type = m.type /\ msg.ok = m.ok /\ msg.of = m.of
           /\ msg.cookie <= m.cookie /\ (m.cookie < 256 => msg.cookie = m.cookie)
           /\ Dispatch(msg, msg.cookie)
<1> DEFINE m == Head(from_server)
           msg == [m EXCEPT !.cookie = ReadValue(m.cookie)]
<1>1. from_server # << >>
  BY DEF OnNewMessage
<1>2. m \in S /\ m \in Packet
  BY <1>1, Dequeued
<1>3. Dispatch(msg, ReadValue(m.cookie))
  BY DEF OnNewMessage, Dispatch
<1> HIDE DEF m
<1>4. /\ msg \in Packet /\ msg.type = m.type /\ msg.ok = m.ok /\ msg.of = m.of
      /\ msg.cookie = ReadValue(m.cookie) /\ msg.cookie <= m.cookie
      /\ m.cookie < 256 => msg.cookie = m.cookie
  BY <1>2, ReadHeader
<1> HIDE DEF msg
<1> QED
  BY <1>2, <1>3, <1>4 DEF m

(* The steps of the io threads.                                            *)
LEMMA IoTypeOK ==
  ASSUME TypeOK, IoStep
  PROVE  TypeOK'
<1>1. CASE OnNewMessage
  <2>1. Packet \subseteq Packet /\ from_server \in Seq(Packet) /\ strand_ \in Seq(Task)
        /\ in_messages_ \in Seq(Packet)
    BY DEF TypeOK, Task
  <2>2. PICK m \in Packet, msg \in Packet : Dispatch(msg, msg.cookie)
    BY <1>1, <2>1, OnNewMessageReads
  <2> DEFINE c == msg.cookie
             k == [task |-> "HandleContextObjectMessage", msg |-> msg]
  <2>3. c \in Nat /\ FinishTask(c) \in Task /\ k \in Task
    BY NoPacketType, PacketFields DEF Task
  <2>4. from_server' \in Seq(Packet)
    BY <1>1, <2>1, Dequeued DEF OnNewMessage
  <2>5. /\ IsMap(promise', 0 .. next_cookie_ - 1, Packet)
        /\ strand_' \in Seq(Task) /\ in_messages_' \in Seq(Packet)
        /\ reading' \in BOOLEAN
    <3>1. CASE Resolve(msg, c)
      <4>1. c \in 0 .. next_cookie_ - 1
        BY <3>1 DEF Resolve, TypeOK, IsMap
      <4>2. IsMap(Insert(promise, c, msg), 0 .. next_cookie_ - 1, Packet)
        BY <4>1, InsertMap DEF TypeOK
      <4>3. Append(strand_, FinishTask(c)) \in Seq(Task)
        BY <2>1, <2>3, Queued
      <4> QED
        BY <2>1, <3>1, <4>2, <4>3 DEF Resolve, TypeOK
    <3>2. CASE ResolveAgain(msg, c)
      BY <2>1, <3>2 DEF ResolveAgain, TypeOK
    <3>3. CASE PostToContextObject(msg, c)
      <4>1. Append(strand_, k) \in Seq(Task)
        BY <2>1, <2>3, Queued
      <4> QED
        BY <2>1, <3>3, <4>1 DEF PostToContextObject, TypeOK
    <3>4. CASE PushIncoming(msg, c)
      <4>1. Append(in_messages_, msg) \in Seq(Packet)
        BY <2>1, Queued
      <4> QED
        BY <2>1, <3>4, <4>1 DEF PushIncoming, TypeOK
    <3>5. CASE SkipLogEntry(msg) \/ SkipAcknowledgement(msg, c)
      BY <2>1, <3>5 DEF SkipLogEntry, SkipAcknowledgement, TypeOK
    <3> QED
      BY <2>2, <3>1, <3>2, <3>3, <3>4, <3>5 DEF Dispatch
  <2> QED
    BY <1>1, <2>4, <2>5 DEF OnNewMessage, TypeOK, Task, server_vars
<1>2. CASE Terminate
  BY <1>2 DEF Terminate, TypeOK, server_vars
<1>3. CASE FinishCall
  <2>1. strand_' \in Seq(Task)
    <3>1. strand_ \in Seq(Task)
      BY DEF TypeOK, Task
    <3> QED
      BY <1>3, <3>1, Dequeued DEF FinishCall, StrandIsFree
  <2>2. IsMap(pending_calls_', 0 .. next_cookie_ - 1, Call)
    BY <1>3, EraseMap DEF FinishCall, TypeOK
  <2> QED
    BY <1>3, <2>1, <2>2 DEF FinishCall, TypeOK, Task, server_vars
<1>4. CASE HandleContextObjectMessage
  <2>1. strand_' \in Seq(Task) /\ Head(strand_).msg \in Packet
    <3>1. strand_ \in Seq(Task)
      BY DEF TypeOK, Task
    <3> QED
      BY <1>4, <3>1, Dequeued, TaskFields DEF HandleContextObjectMessage, StrandIsFree
  <2>2. serving' \in [Workers \cup {Strand} -> Packet]
    BY <1>4, <2>1 DEF HandleContextObjectMessage, TypeOK
  <2> QED
    BY <1>4, <2>1, <2>2 DEF HandleContextObjectMessage, TypeOK, Task, server_vars
<1>5. CASE ReplyFromContextObject
  <2>1. serving' \in [Workers \cup {Strand} -> Packet]
    BY <1>5, NoPacketType DEF ReplyFromContextObject, TypeOK
  <2>2. Answer("TransactionReply", serving[Strand]) \in Packet
    <3>1. serving[Strand] \in Packet
      BY DEF TypeOK
    <3> QED
      BY <3>1, PacketFields DEF Answer, Send, Packet, MessageType
  <2>3. to_server' \in Seq(Packet)
    BY <1>5, <2>2, Queued DEF ReplyFromContextObject, WriteData, TypeOK
  <2> QED
    BY <1>5, <2>1, <2>3 DEF ReplyFromContextObject, TypeOK, server_vars
<1> QED
  BY <1>1, <1>2, <1>3, <1>4, <1>5 DEF IoStep

(* The steps of the pool and of the server.                                *)
LEMMA PoolTypeOK ==
  ASSUME TypeOK, PoolStep
  PROVE  TypeOK'
<1>1. ASSUME NEW w \in Workers, DequeueMessage(w)
      PROVE  TypeOK'
  <2>1. Head(in_messages_) \in Packet /\ in_messages_' \in Seq(Packet)
    BY <1>1, Dequeued DEF DequeueMessage, TypeOK
  <2>2. serving' \in [Workers \cup {Strand} -> Packet]
    BY <1>1, <2>1 DEF DequeueMessage, TypeOK
  <2> QED
    BY <1>1, <2>1, <2>2 DEF DequeueMessage, TypeOK, server_vars
<1>2. ASSUME NEW w \in Workers, ExecuteCommand(w)
      PROVE  TypeOK'
  <2>1. serving' \in [Workers \cup {Strand} -> Packet]
    BY <1>2, NoPacketType DEF ExecuteCommand, TypeOK
  <2>2. ASSUME NEW type \in {"TransactionReply", "Status"}
        PROVE  Answer(type, serving[w]) \in Packet
    <3>1. serving[w] \in Packet
      BY DEF TypeOK
    <3> QED
      BY <3>1, PacketFields DEF Answer, Send, Packet, MessageType
  <2>3. \/ to_server' = to_server
        \/ \E type \in {"TransactionReply", "Status"} :
             to_server' = Append(to_server, Answer(type, serving[w]))
    BY <1>2 DEF ExecuteCommand, WriteData
  <2>4. to_server' \in Seq(Packet)
    <3>1. to_server \in Seq(Packet)
      BY DEF TypeOK
    <3>2. ASSUME NEW type \in {"TransactionReply", "Status"}
          PROVE  Append(to_server, Answer(type, serving[w])) \in Seq(Packet)
      BY <2>2, <3>1, Queued
    <3> QED
      BY <2>3, <3>1, <3>2
  <2>5. aborted' \in BOOLEAN
    BY <1>2 DEF ExecuteCommand, TypeOK
  <2> QED
    BY <1>2, <2>1, <2>4, <2>5 DEF ExecuteCommand, TypeOK, server_vars
<1> QED
  BY <1>1, <1>2 DEF PoolStep

(* What the server does with a message it has read.                        *)
LEMMA ServerReads ==
  ASSUME NEW S, S \subseteq Packet, to_server \in Seq(S), ServerProcessesMessage
  PROVE  \E m \in S, msg \in Packet :
           /\ m = Head(to_server)
           /\ msg.type = m.type /\ msg.ok = m.ok /\ msg.of = m.of
           /\ msg.cookie <= m.cookie /\ (m.cookie < 256 => msg.cookie = m.cookie)
           /\ ServerRefuses(msg) \/ ServerAcknowledges(msg) \/ ServerTakesAnswer(msg)
<1> DEFINE m == Head(to_server)
           msg == [m EXCEPT !.cookie = ReadValue(m.cookie)]
<1>1. to_server # << >>
  BY DEF ServerProcessesMessage
<1>2. m \in S /\ m \in Packet
  BY <1>1, Dequeued
<1>3. [m EXCEPT !.cookie = ReadValue(@)] = msg
  BY <1>2 DEF Packet
<1>4. ServerRefuses(msg) \/ ServerAcknowledges(msg) \/ ServerTakesAnswer(msg)
  BY <1>3 DEF ServerProcessesMessage
<1> HIDE DEF m
<1>5. /\ msg \in Packet /\ msg.type = m.type /\ msg.ok = m.ok /\ msg.of = m.of
      /\ msg.cookie = ReadValue(m.cookie) /\ msg.cookie <= m.cookie
      /\ m.cookie < 256 => msg.cookie = m.cookie
  BY <1>2, ReadHeader
<1> HIDE DEF msg
<1> QED
  BY <1>2, <1>4, <1>5 DEF m

(* The steps of the server keep the types of both ends of the socket.      *)
LEMMA ServerTypeOK ==
  ASSUME TypeOK, ServerStep
  PROVE  TypeOK'
<1>1. CASE ServerProcessesMessage
  <2>1. Packet \subseteq Packet /\ to_server \in Seq(Packet) /\ from_server \in Seq(Packet)
    BY DEF TypeOK
  <2>2. PICK m \in Packet, msg \in Packet :
          ServerRefuses(msg) \/ ServerAcknowledges(msg) \/ ServerTakesAnswer(msg)
    BY <1>1, <2>1, ServerReads
  <2>3. to_server' \in Seq(Packet)
    BY <1>1, <2>1, Dequeued DEF ServerProcessesMessage
  <2>4. msg.cookie \in Nat /\ msg.of \in Ids
    BY PacketFields
  <2>5. ASSUME NEW ok \in BOOLEAN
        PROVE  Send("Status", msg.cookie, ok, msg.of) \in Packet
    BY <2>4, SendType DEF MessageType
  <2>6. from_server' \in Seq(Packet)
    <3>1. \/ from_server' = from_server
          \/ \E ok \in BOOLEAN :
               from_server' = Append(from_server, Send("Status", msg.cookie, ok, msg.of))
      BY <2>2 DEF ServerRefuses, ServerAcknowledges, ServerTakesAnswer
    <3> QED
      BY <2>1, <2>5, <3>1, Queued
  <2>7. at_target' \subseteq Packet /\ unanswered' \subseteq Nat
    BY <2>2 DEF ServerRefuses, ServerAcknowledges, ServerTakesAnswer, TypeOK
  <2> QED
    BY <1>1, <2>3, <2>6, <2>7 DEF ServerProcessesMessage, TypeOK, client_vars
<1>2. ASSUME NEW msg \in at_target, TargetReplies(msg)
      PROVE  TypeOK'
  <2>1. msg \in Packet
    BY DEF TypeOK
  <2>2. Answer("TransactionReply", msg) \in Packet
    BY <2>1, PacketFields DEF Answer, Send, Packet, MessageType
  <2>3. from_server' \in Seq(Packet)
    BY <1>2, <2>2, Queued DEF TargetReplies, TypeOK
  <2> QED
    BY <1>2, <2>3 DEF TargetReplies, TypeOK, client_vars
<1>3. CASE ServerPostsTransaction
  <2> DEFINE n == next_transaction_cookie_
             m == Send("Transaction", n, TRUE, Id("Transaction", n))
  <2>1. n \in Nat /\ n + 1 \in 0 .. MaxIncoming
    BY <1>3, BoundsAssumption DEF ServerPostsTransaction, TypeOK
  <2>2. m \in Packet
    BY <2>1 DEF Send, Packet, Id, Ids, MessageType
  <2>3. from_server' = Append(from_server, m)
    BY <1>3 DEF ServerPostsTransaction
  <2> HIDE DEF m
  <2>4. from_server' \in Seq(Packet)
    BY <2>2, <2>3, Queued DEF TypeOK
  <2> QED
    BY <1>3, <2>1, <2>4 DEF ServerPostsTransaction, TypeOK, client_vars
<1>4. CASE ServerSendsUnasked
  <2>1. unasked' \in 0 .. MaxUnasked
    BY <1>4, BoundsAssumption DEF ServerSendsUnasked, TypeOK
  <2>2. ASSUME NEW type \in {"DeadBinder", "LogEntry"}
        PROVE  Send(type, 0, TRUE, Id(type, 0)) \in Packet
    BY DEF Send, Packet, Id, Ids, MessageType
  <2>3. \E m \in Packet : from_server' = Append(from_server, m)
    BY <1>4, <2>2 DEF ServerSendsUnasked
  <2>4. from_server' \in Seq(Packet)
    BY <2>3, Queued DEF TypeOK
  <2> QED
    BY <1>4, <2>1, <2>4 DEF ServerSendsUnasked, TypeOK, client_vars
<1> QED
  BY <1>1, <1>2, <1>3, <1>4 DEF ServerStep

(* Every step keeps the types.                                             *)
LEMMA NextTypeOK == TypeOK /\ [Next]_vars => TypeOK'
<1>1. TypeOK /\ UNCHANGED vars => TypeOK'
  BY DEF vars, client_vars, server_vars, TypeOK
<1> QED
  BY <1>1, ApplicationTypeOK, IoTypeOK, PoolTypeOK, ServerTypeOK DEF Next

-----------------------------------------------------------------------------
(***************************************************************************)
(* Calls.                                                                  *)
(***************************************************************************)

(* The invariant of a call without the types.                              *)
CallParts == FinishInv /\ WaitingCallIsPending /\ ThreadInv

call_vars == <<next_cookie_, pending_calls_, promise, strand_, thread>>

(* Steps that leave the calls alone.                                       *)
LEMMA FrameCallParts == CallParts /\ UNCHANGED call_vars => CallParts'
BY DEF CallParts, FinishInv, WaitingCallIsPending, ThreadInv, InCall, call_vars

(* The cookies in the two maps were given out before.                      *)
LEMMA MapsBelow ==
  ASSUME TypeOK
  PROVE  /\ next_cookie_ \in Nat
         /\ \A c \in DOMAIN pending_calls_ : c \in Nat /\ c < next_cookie_
         /\ \A c \in DOMAIN promise : c \in Nat /\ c < next_cookie_
<1>1. /\ DOMAIN pending_calls_ \subseteq 0 .. next_cookie_ - 1
      /\ DOMAIN promise \subseteq 0 .. next_cookie_ - 1 /\ next_cookie_ \in Nat
  BY DEF TypeOK, IsMap
<1> QED
  BY <1>1

(* StartCall: the cookie is new to both maps and to every thread.          *)
LEMMA StartCallParts ==
  ASSUME TypeOK, CallParts, NEW t \in Threads, NEW call \in Call, StartCall(t, call)
  PROVE  /\ CallParts'
         /\ CookieFor(call) \in Nat /\ CookieFor(call) >= next_cookie_
         /\ next_cookie_' = CookieFor(call) + 1
         /\ thread' = [thread EXCEPT ![t] =
              [pc |-> "started", call |-> call, cookie |-> CookieFor(call)]]
         /\ pending_calls_' = Insert(pending_calls_, CookieFor(call), call)
         /\ CookieFor(call) \notin DOMAIN pending_calls_ \cup DOMAIN promise
<1> DEFINE c == CookieFor(call)
           n == next_cookie_
           r == [pc |-> "started", call |-> call, cookie |-> c]
<1>1. n \in Nat /\ c \in Nat /\ c >= n
  BY DEF TypeOK, CookieFor
<1>2. c \notin DOMAIN pending_calls_ /\ c \notin DOMAIN promise
  BY <1>1, MapsBelow
<1>3. /\ next_cookie_' = c + 1 /\ UNCHANGED <<promise, strand_>>
      /\ thread' = [thread EXCEPT ![t] = r]
      /\ pending_calls_' = Insert(pending_calls_, c, call)
  BY <1>2 DEF StartCall
<1>4. /\ DOMAIN pending_calls_' = DOMAIN pending_calls_ \cup {c}
      /\ \A d \in DOMAIN pending_calls_ : pending_calls_'[d] = pending_calls_[d]
      /\ pending_calls_'[c] = call
  BY <1>2, <1>3 DEF Insert
<1>5. thread'[t] = r /\ \A u \in Threads : u # t => thread'[u] = thread[u]
  BY <1>3 DEF TypeOK
<1>6. r.cookie = c /\ r.call = call /\ r.pc = "started"
  OBVIOUS
<1> HIDE DEF c, r, n
<1>7. FinishInv'
  BY <1>3 DEF CallParts, FinishInv
<1>8. WaitingCallIsPending'
  BY <1>3, <1>4, <1>5, <1>6 DEF CallParts, WaitingCallIsPending
<1>9. ThreadInv'
  <2> SUFFICES ASSUME NEW u \in Threads, InCall(u)'
               PROVE  LET d == thread'[u].cookie
                      IN  /\ d < next_cookie_'
                          /\ thread'[u].pc = "returned" => d \in DOMAIN promise'
                          /\ d \in DOMAIN pending_calls_' =>
                               pending_calls_'[d] = thread'[u].call
                          /\ d \in DOMAIN promise' =>
                               ~IsAcknowledgement(promise'[d], thread'[u].call)
    BY DEF ThreadInv
  <2>1. CASE u = t
    BY <1>1, <1>2, <1>3, <1>4, <1>5, <1>6, <2>1
  <2>2. CASE u # t
    <3>1. InCall(u) /\ thread'[u] = thread[u] /\ thread[u].cookie \in Nat
      BY <1>5, <2>2 DEF InCall, TypeOK, ThreadState
    <3>2. thread[u].cookie < n
      BY <3>1 DEF CallParts, ThreadInv, n
    <3>3. thread[u].cookie # c /\ thread[u].cookie < c + 1
      BY <1>1, <3>1, <3>2
    <3> QED
      BY <1>3, <1>4, <3>1, <3>3 DEF CallParts, ThreadInv
  <2> QED
    BY <2>1, <2>2
<1> QED
  BY <1>1, <1>2, <1>3, <1>7, <1>8, <1>9 DEF CallParts, c, n, r

(* QueueMessage and Return only move a thread on.                          *)
LEMMA ThreadMovesParts ==
  ASSUME TypeOK, CallParts, NEW t \in Threads, QueueMessage(t) \/ Return(t)
  PROVE  CallParts'
<1>1. PICK pc \in {"threw", "waiting", "returned"} :
        /\ thread' = [thread EXCEPT ![t].pc = pc]
        /\ UNCHANGED <<next_cookie_, pending_calls_, promise, strand_>>
        /\ thread[t].pc \in {"started", "waiting"}
        /\ pc = "returned" => thread[t].cookie \in DOMAIN promise
  <2>1. CASE QueueMessage(t)
    BY <2>1 DEF QueueMessage
  <2>2. CASE Return(t)
    BY <2>2 DEF Return
  <2> QED
    BY <2>1, <2>2
<1>2. /\ thread'[t].pc = pc /\ thread'[t].call = thread[t].call
      /\ thread'[t].cookie = thread[t].cookie
      /\ \A u \in Threads : u # t => thread'[u] = thread[u]
  BY <1>1 DEF TypeOK, ThreadState
<1>3. FinishInv' /\ WaitingCallIsPending'
  BY <1>1, <1>2 DEF CallParts, FinishInv, WaitingCallIsPending
<1>4. ThreadInv'
  BY <1>1, <1>2 DEF CallParts, ThreadInv, InCall
<1> QED
  BY <1>3, <1>4 DEF CallParts

(* Resolve sets the promise of a call with what is no acknowledgement of   *)
(* that call.                                                              *)
LEMMA ResolveParts ==
  ASSUME TypeOK, CallParts, NEW msg \in Packet, Resolve(msg, msg.cookie),
         UNCHANGED <<next_cookie_, pending_calls_, thread>>
  PROVE  CallParts'
<1> DEFINE c == msg.cookie
<1>1. /\ c \in Nat /\ c \in DOMAIN pending_calls_ /\ c \notin DOMAIN promise
      /\ ~IsAcknowledgement(msg, pending_calls_[c])
      /\ promise' = Insert(promise, c, msg)
      /\ strand_' = Append(strand_, FinishTask(c))
  BY PacketFields DEF Resolve
<1>2. /\ DOMAIN promise' = DOMAIN promise \cup {c}
      /\ \A d \in DOMAIN promise : promise'[d] = promise[d]
      /\ promise'[c] = msg
  BY <1>1 DEF Insert
<1>3. FinishInv'
  <2> DEFINE D == DOMAIN promise
             E == DOMAIN promise'
             S == TasksFor(D)
             T == TasksFor(E)
  <2>1. S \subseteq T
    BY <1>2 DEF TasksFor
  <2>2. strand_ \in Seq(S)
    BY DEF CallParts, FinishInv
  <2>3. FinishTask(c) \in T
    BY <1>1, <1>2, NoPacketType DEF TasksFor
  <2> HIDE DEF S, T
  <2>4. strand_ \in Seq(T)
    BY <2>1, <2>2, LargerSeq
  <2>5. Append(strand_, FinishTask(c)) \in Seq(T)
    BY <2>3, <2>4, Queued
  <2> QED
    BY <1>1, <2>5 DEF FinishInv, T
<1>4. WaitingCallIsPending'
  BY <1>2 DEF CallParts, WaitingCallIsPending
<1> HIDE DEF c
<1>5. ThreadInv'
  BY <1>1, <1>2 DEF CallParts, ThreadInv, InCall
<1> QED
  BY <1>3, <1>4, <1>5 DEF CallParts

(* OnNewMessage.                                                           *)
LEMMA OnNewMessageParts ==
  ASSUME TypeOK, CallParts, OnNewMessage
  PROVE  CallParts'
<1>1. UNCHANGED <<next_cookie_, pending_calls_, thread>>
  BY DEF OnNewMessage
<1>2. PICK msg \in Packet : Dispatch(msg, msg.cookie)
  <2>1. Packet \subseteq Packet /\ from_server \in Seq(Packet)
    BY DEF TypeOK
  <2> QED
    BY <2>1, OnNewMessageReads
<1>3. CASE Resolve(msg, msg.cookie)
  BY <1>1, <1>3, ResolveParts
<1>4. CASE PostToContextObject(msg, msg.cookie)
  <2> DEFINE k == [task |-> "HandleContextObjectMessage", msg |-> msg]
             S == TasksFor(DOMAIN promise)
  <2>1. k \in S
    BY DEF TasksFor, Task
  <2>2. strand_' = Append(strand_, k) /\ UNCHANGED promise
    BY <1>4 DEF PostToContextObject
  <2>3. strand_ \in Seq(S)
    BY DEF CallParts, FinishInv
  <2> HIDE DEF k, S
  <2>4. strand_' \in Seq(S)
    BY <2>1, <2>2, <2>3, Queued
  <2>5. FinishInv'
    BY <2>2, <2>4 DEF FinishInv, S
  <2>6. WaitingCallIsPending' /\ ThreadInv'
    BY <1>1, <2>2 DEF CallParts, WaitingCallIsPending, ThreadInv, InCall
  <2> QED
    BY <2>5, <2>6 DEF CallParts
<1>5. CASE UNCHANGED <<promise, strand_>>
  BY <1>1, <1>5, FrameCallParts DEF call_vars
<1> QED
  BY <1>2, <1>3, <1>4, <1>5 DEF Dispatch, SkipLogEntry, SkipAcknowledgement,
     ResolveAgain, PushIncoming

(* The strand: FinishCall forgets a call whose promise is set.             *)
LEMMA StrandParts ==
  ASSUME TypeOK, CallParts, FinishCall \/ HandleContextObjectMessage
  PROVE  CallParts'
<1> DEFINE S == TasksFor(DOMAIN promise)
           k == Head(strand_)
<1>1. /\ strand_ # << >> /\ strand_' = Tail(strand_)
      /\ UNCHANGED <<next_cookie_, promise, thread>>
  BY DEF FinishCall, HandleContextObjectMessage, StrandIsFree
<1>2. k \in S /\ strand_' \in Seq(S)
  <2>1. strand_ \in Seq(S)
    BY DEF CallParts, FinishInv
  <2> HIDE DEF S
  <2> QED
    BY <1>1, <2>1, Dequeued
<1>3. FinishInv'
  BY <1>1, <1>2 DEF FinishInv
<1>4. CASE HandleContextObjectMessage
  <2>1. UNCHANGED pending_calls_
    BY <1>4 DEF HandleContextObjectMessage
  <2>2. WaitingCallIsPending' /\ ThreadInv'
    BY <1>1, <2>1 DEF CallParts, WaitingCallIsPending, ThreadInv, InCall
  <2> QED
    BY <1>3, <2>2 DEF CallParts
<1>5. CASE FinishCall
  <2>1. k.msg.cookie \in DOMAIN promise
    BY <1>2, <1>5 DEF FinishCall, TasksFor
  <2>2. /\ DOMAIN pending_calls_' = DOMAIN pending_calls_ \ {k.msg.cookie}
        /\ \A c \in DOMAIN pending_calls_' : pending_calls_'[c] = pending_calls_[c]
    BY <1>5 DEF FinishCall, Erase
  <2>3. WaitingCallIsPending' /\ ThreadInv'
    BY <1>1, <2>1, <2>2 DEF CallParts, WaitingCallIsPending, ThreadInv, InCall
  <2> QED
    BY <1>3, <2>3 DEF CallParts
<1> QED
  BY <1>4, <1>5

(* Every step keeps the invariant of the calls.                            *)
LEMMA NextCallParts ==
  ASSUME TypeOK, CallParts, [Next]_vars
  PROVE  CallParts'
<1>3. ASSUME UNCHANGED call_vars PROVE CallParts'
  BY <1>3, FrameCallParts
<1>4. CASE ApplicationStep
  <2>1. CASE SetContextObject
    BY <1>3, <2>1 DEF SetContextObject, call_vars
  <2>2. ASSUME NEW t \in Threads, NEW call \in Call, StartCall(t, call)
        PROVE  CallParts'
    BY <2>2, StartCallParts
  <2>3. ASSUME NEW t \in Threads, QueueMessage(t) \/ Return(t) PROVE CallParts'
    BY <2>3, ThreadMovesParts
  <2> QED
    BY <1>4, <2>1, <2>2, <2>3, CallsAssumption DEF ApplicationStep
<1>5. CASE IoStep
  <2>1. CASE Terminate \/ ReplyFromContextObject
    BY <1>3, <2>1 DEF Terminate, ReplyFromContextObject, call_vars
  <2> QED
    BY <1>5, <2>1, OnNewMessageParts, StrandParts DEF IoStep
<1>6. CASE PoolStep
  BY <1>3, <1>6 DEF PoolStep, DequeueMessage, ExecuteCommand, call_vars
<1>7. CASE ServerStep
  BY <1>3, <1>7 DEF ServerStep, ServerProcessesMessage, TargetReplies,
     ServerPostsTransaction, ServerSendsUnasked, call_vars, client_vars
<1>8. CASE UNCHANGED vars
  BY <1>3, <1>8 DEF vars, client_vars, call_vars
<1> QED
  BY <1>4, <1>5, <1>6, <1>7, <1>8 DEF Next

(* The calls at the start.                                                 *)
LEMMA InitCallParts == Init => CallParts
<1> SUFFICES ASSUME Init PROVE CallParts
  OBVIOUS
<1>1. FinishInv
  BY DEF Init, FinishInv
<1>2. \A t \in Threads : thread[t].pc = "idle"
  BY DEF Init, Idle
<1> QED
  BY <1>1, <1>2 DEF CallParts, WaitingCallIsPending, ThreadInv, InCall

(* Whatever the constants are, the types hold and the invariant of the     *)
(* calls: FinishCall runs only for calls whose promise OnNewMessage set,   *)
(* so what a thread in Transact waits for is never taken from it.          *)
THEOREM CallInvariant == Spec => []CallInv
<1>1. Init => CallInv
  BY InitTypeOK, InitCallParts DEF CallInv, CallParts
<1>2. CallInv /\ [Next]_vars => CallInv'
  <2> SUFFICES ASSUME CallInv, [Next]_vars PROVE CallInv'
    OBVIOUS
  <2>1. TypeOK /\ CallParts
    BY DEF CallInv, CallParts
  <2>2. TypeOK' /\ CallParts'
    BY <2>1, NextTypeOK, NextCallParts
  <2> QED
    BY <2>2 DEF CallInv, CallParts
<1> QED
  BY <1>1, <1>2, PTL DEF Spec

(* Every variable of the client keeps its type, and pending_calls_ holds   *)
(* only cookies that NewCookie gave out.                                   *)
THEOREM ClientTypes == Spec => []TypeOK
<1>1. CallInv => TypeOK
  BY DEF CallInv
<1> QED
  BY <1>1, CallInvariant, PTL

(* A thread between StartCall and the return of its future can always be   *)
(* woken: FinishCall on the strand never erases a call whose promise is    *)
(* not set.                                                                *)
THEOREM WaitingCallsStayPending == Spec => []WaitingCallIsPending
<1>1. CallInv => WaitingCallIsPending
  BY DEF CallInv
<1> QED
  BY <1>1, CallInvariant, PTL

-----------------------------------------------------------------------------
(***************************************************************************)
(* Answers.                                                                *)
(***************************************************************************)

(* What is a message about a call stays one when more cookies are used.    *)
LEMMA LaterPackets ==
  ASSUME NEW k \in Nat, NEW n \in Nat, k <= n
  PROVE  /\ CallPacket(k) \subseteq CallPacket(n)
         /\ RequestPacket(k) \subseteq RequestPacket(n)
         /\ AnswerPacket(k) \subseteq AnswerPacket(n)
<1>1. ASSUME NEW m \in CallPacket(k) PROVE m \in CallPacket(n)
  <2>1. m \in Packet /\ m.cookie < k /\ m.cookie \in Nat
    BY PacketFields DEF CallPacket
  <2>2. m.cookie < n
    BY <2>1
  <2> QED
    BY <2>2 DEF CallPacket
<1> QED
  BY <1>1 DEF RequestPacket, AnswerPacket

(* Messages about calls are messages.                                      *)
LEMMA CallPackets ==
  ASSUME NEW n
  PROVE  /\ CallPacket(n) \subseteq Packet /\ RequestPacket(n) \subseteq Packet
         /\ AnswerPacket(n) \subseteq Packet
BY DEF CallPacket, RequestPacket, AnswerPacket

(* A new call: cookies grow.                                               *)
LEMMA StartCallAnswers ==
  ASSUME TypeOK, CallParts, SocketInv, KeptInv,
         NEW t \in Threads, NEW call \in Call, StartCall(t, call)
  PROVE  SocketInv' /\ KeptInv'
<1> DEFINE c == CookieFor(call)
           n == next_cookie_
           r == [pc |-> "started", call |-> call, cookie |-> c]
<1>1. /\ c \in Nat /\ c >= n /\ next_cookie_' = c + 1 /\ n \in Nat
      /\ thread' = [thread EXCEPT ![t] = r]
      /\ pending_calls_' = Insert(pending_calls_, c, call)
  BY StartCallParts DEF TypeOK
<1>2. c < MaxCookies /\ UNCHANGED <<promise, to_server, from_server, at_target>>
  BY DEF StartCall, server_vars
<1> HIDE DEF c
<1>3. n <= c + 1 /\ c + 1 \in Nat
  BY <1>1
<1>4. SocketInv'
  <2> DEFINE C == CallPacket(c + 1)
             R == RequestPacket(c + 1)
             A == AnswerPacket(c + 1)
  <2>1. CallPacket(n) \subseteq C /\ RequestPacket(n) \subseteq R /\ AnswerPacket(n) \subseteq A
    BY <1>1, <1>3, LaterPackets
  <2> HIDE DEF C, R, A
  <2>2. to_server \in Seq(R)
    BY <2>1, LargerSeq DEF SocketInv
  <2>3. from_server \in Seq(A)
    BY <2>1, LargerSeq DEF SocketInv
  <2>4. at_target \subseteq C
    BY <2>1 DEF SocketInv
  <2> QED
    BY <1>1, <1>2, <2>2, <2>3, <2>4 DEF SocketInv, C, R, A
<1>5. DOMAIN pending_calls_' \subseteq FirstCookie .. MaxCookies - 1 /\ FirstCookie <= next_cookie_'
  <2>1. DOMAIN pending_calls_' = DOMAIN pending_calls_ \cup {c}
    BY <1>1 DEF Insert
  <2>2. c \in FirstCookie .. MaxCookies - 1
    BY <1>1, <1>2, BoundsAssumption DEF KeptInv
  <2>3. FirstCookie <= next_cookie_'
    BY <1>1, BoundsAssumption DEF KeptInv
  <2> QED
    BY <2>1, <2>2, <2>3 DEF KeptInv
<1>6. \A u \in Threads : InCall(u)' => thread'[u].cookie < MaxCookies
  <2>1. thread'[t] = r /\ \A u \in Threads : u # t => thread'[u] = thread[u]
    BY <1>1 DEF TypeOK
  <2> QED
    BY <1>2, <2>1 DEF KeptInv, InCall
<1> QED
  BY <1>2, <1>4, <1>5, <1>6 DEF KeptInv

(* QueueMessage sends a message about the call of its thread; Return sends *)
(* none.                                                                   *)
LEMMA ThreadMovesAnswers ==
  ASSUME TypeOK, CallParts, SocketInv, KeptInv,
         NEW t \in Threads, QueueMessage(t) \/ Return(t)
  PROVE  SocketInv' /\ KeptInv'
<1> DEFINE c == thread[t].cookie
           m == Send(thread[t].call.type, c, TRUE, Id("call", c))
           R == RequestPacket(next_cookie_)
<1>1. /\ UNCHANGED <<next_cookie_, pending_calls_, promise, from_server, at_target>>
      /\ \E pc \in {"threw", "waiting", "returned"} : thread' = [thread EXCEPT ![t].pc = pc]
      /\ thread[t].pc \in {"started", "waiting"}
      /\ to_server' = to_server \/ to_server' = Append(to_server, m)
  BY DEF QueueMessage, Return, server_vars
<1>2. InCall(t) /\ c < next_cookie_ /\ c < MaxCookies
  BY <1>1 DEF InCall, CallParts, ThreadInv, KeptInv
<1>3. c \in Nat /\ thread[t].call.type \in MessageType
  BY DEF TypeOK, ThreadState, Call, MessageType
<1> HIDE DEF c
<1>4. m \in R
  <2>1. Id("call", c) \in Ids
    BY <1>3 DEF Id, Ids
  <2>2. m \in Packet /\ m.cookie = c /\ m.of = Id("call", c)
    BY <1>3, <2>1 DEF Send, Packet
  <2> HIDE DEF m
  <2> QED
    BY <1>2, <2>2 DEF RequestPacket, CallPacket
<1> HIDE DEF m, R
<1>5. to_server \in Seq(R) /\ Append(to_server, m) \in Seq(R)
  BY <1>4, Queued DEF SocketInv, R
<1>6. SocketInv'
  BY <1>1, <1>5 DEF SocketInv, R
<1>7. \A u \in Threads : thread'[u].cookie = thread[u].cookie /\ (InCall(u)' => InCall(u))
  BY <1>1, <1>2 DEF InCall, TypeOK, ThreadState
<1>8. KeptInv'
  BY <1>1, <1>7 DEF KeptInv
<1> QED
  BY <1>6, <1>8

(* OnNewMessage sets the promise of a call with a message about that call: *)
(* what the server numbers by itself has a cookie no call of the client    *)
(* has.                                                                    *)
LEMMA OnNewMessageAnswers ==
  ASSUME CookiesApart, TypeOK, SocketInv, KeptInv, OnNewMessage
  PROVE  SocketInv' /\ KeptInv'
<1> DEFINE A == AnswerPacket(next_cookie_)
<1>1. /\ UNCHANGED <<next_cookie_, pending_calls_, thread, to_server, at_target>>
      /\ from_server # << >> /\ from_server' = Tail(from_server)
  BY DEF OnNewMessage, server_vars
<1>2. A \subseteq Packet /\ from_server \in Seq(A)
  BY CallPackets DEF SocketInv
<1> HIDE DEF A
<1>3. from_server' \in Seq(A)
  BY <1>1, <1>2, Dequeued
<1>4. SocketInv'
  BY <1>1, <1>3 DEF SocketInv, A
<1>5. PICK m \in A, msg \in Packet :
        /\ msg.type = m.type /\ msg.of = m.of
        /\ msg.cookie <= m.cookie /\ (m.cookie < 256 => msg.cookie = m.cookie)
        /\ Dispatch(msg, msg.cookie)
  BY <1>2, OnNewMessageReads
<1>6. \/ UNCHANGED promise
      \/ msg.type # "LogEntry" /\ Resolve(msg, msg.cookie)
  BY <1>5 DEF Dispatch, SkipLogEntry, SkipAcknowledgement, ResolveAgain,
     PostToContextObject, PushIncoming
<1>7. ASSUME msg.type # "LogEntry", Resolve(msg, msg.cookie)
      PROVE  \A d \in DOMAIN promise' : promise'[d].of = Id("call", d)
  <2>1. /\ msg.cookie \in DOMAIN pending_calls_ /\ msg.cookie \notin DOMAIN promise
        /\ promise' = Insert(promise, msg.cookie, msg)
    BY <1>7 DEF Resolve
  <2>2. msg.cookie >= FirstCookie /\ msg.cookie \in Nat /\ m.cookie \in Nat
    BY <1>2, <2>1, PacketFields, BoundsAssumption DEF KeptInv
  <2>3. ~(m.cookie < FirstCookie)
    BY <1>5, <2>2, BoundsAssumption
  <2>4. m \in CallPacket(next_cookie_)
    BY <1>5, <1>7, <2>3 DEF A, AnswerPacket
  <2>5. m.of = Id("call", m.cookie) /\ m.cookie < 256
    BY <2>2, <2>4, BoundsAssumption DEF CallPacket, CookiesApart
  <2>6. msg.of = Id("call", msg.cookie)
    BY <1>5, <2>5
  <2>7. /\ DOMAIN promise' = DOMAIN promise \cup {msg.cookie}
        /\ promise'[msg.cookie] = msg
        /\ \A d \in DOMAIN promise : promise'[d] = promise[d]
    BY <2>1 DEF Insert
  <2> QED
    BY <2>6, <2>7 DEF KeptInv
<1>8. KeptInv'
  BY <1>1, <1>6, <1>7 DEF KeptInv, InCall
<1> QED
  BY <1>4, <1>8

(* A reply the client writes is no message about a call.                   *)
LEMMA RepliesAnswers ==
  ASSUME TypeOK, SocketInv, KeptInv, NEW type \in {"TransactionReply", "Status"},
         NEW msg \in Packet,
         to_server' = to_server \/ to_server' = Append(to_server, Answer(type, msg)),
         UNCHANGED <<next_cookie_, pending_calls_, promise, thread, from_server, at_target>>
  PROVE  SocketInv' /\ KeptInv'
<1> DEFINE m == Answer(type, msg)
           R == RequestPacket(next_cookie_)
<1>1. type \in MessageType /\ msg.cookie \in Nat /\ msg.of \in Ids
  BY PacketFields DEF MessageType
<1>2. m \in Packet /\ m.type = type
  BY <1>1 DEF Answer, Send, Packet
<1> HIDE DEF m
<1>3. m \in R
  BY <1>2 DEF RequestPacket
<1> HIDE DEF R
<1>4. to_server \in Seq(R) /\ Append(to_server, m) \in Seq(R)
  BY <1>3, Queued DEF SocketInv, R
<1>5. to_server' \in Seq(R)
  BY <1>4 DEF m
<1>6. SocketInv'
  BY <1>5 DEF SocketInv, R
<1>7. KeptInv'
  BY DEF KeptInv, InCall
<1> QED
  BY <1>6, <1>7

(* Steps that leave sockets and calls alone.                               *)
LEMMA FrameAnswers ==
  ASSUME SocketInv, DOMAIN pending_calls_' \subseteq DOMAIN pending_calls_, KeptInv,
         UNCHANGED <<next_cookie_, promise, thread, to_server, from_server, at_target>>
  PROVE  SocketInv' /\ KeptInv'
BY DEF SocketInv, KeptInv, InCall

(* The server answers a call under the cookie of that call, and gives its  *)
(* own messages cookies below those of the calls.                          *)
LEMMA ServerAnswers ==
  ASSUME CookiesApart, TypeOK, SocketInv, KeptInv, ServerStep
  PROVE  SocketInv' /\ KeptInv'
<1> DEFINE n == next_cookie_
           C == CallPacket(n)
           R == RequestPacket(n)
           A == AnswerPacket(n)
<1>1. UNCHANGED <<next_cookie_, pending_calls_, promise, thread>>
  BY DEF ServerStep, ServerProcessesMessage, TargetReplies, ServerPostsTransaction,
     ServerSendsUnasked, client_vars
<1>2. KeptInv'
  BY <1>1 DEF KeptInv, InCall
<1>3. /\ C \subseteq Packet /\ R \subseteq Packet /\ C \subseteq A
      /\ to_server \in Seq(R) /\ from_server \in Seq(A) /\ at_target \subseteq C
  BY CallPackets DEF SocketInv, AnswerPacket
<1>4. ASSUME NEW msg \in C, NEW type \in {"Status", "TransactionReply"}, NEW ok \in BOOLEAN
      PROVE  Send(type, msg.cookie, ok, msg.of) \in A
  <2> DEFINE m == Send(type, msg.cookie, ok, msg.of)
  <2>1. msg \in Packet /\ type \in MessageType
    BY DEF CallPacket, MessageType
  <2>2. m \in Packet /\ m.cookie = msg.cookie /\ m.of = msg.of
    BY <2>1, PacketFields DEF Send, Packet
  <2> HIDE DEF m
  <2>3. m \in C
    BY <2>2 DEF CallPacket
  <2> QED
    BY <1>3, <2>3 DEF m
<1>5. ASSUME NEW m \in A, from_server' = Append(from_server, m)
      PROVE  from_server' \in Seq(A)
  <2> HIDE DEF A
  <2> QED
    BY <1>3, <1>5, Queued
<1>6. CASE ServerProcessesMessage
  <2> HIDE DEF R
  <2>1. to_server' \in Seq(R)
    BY <1>3, <1>6, Dequeued DEF ServerProcessesMessage
  <2>2. PICK m \in R, msg \in Packet :
          /\ msg.type = m.type /\ msg.of = m.of
          /\ (m.cookie < 256 => msg.cookie = m.cookie)
          /\ ServerRefuses(msg) \/ ServerAcknowledges(msg) \/ ServerTakesAnswer(msg)
    BY <1>3, <1>6, ServerReads
  <2>3. ASSUME msg.type \in {"Acquire", "Transaction"}
        PROVE  msg \in C
    <3>1. m \in C
      BY <2>2, <2>3 DEF R, RequestPacket
    <3>2. m.cookie \in Nat /\ m.cookie < 256
      BY <1>3, <3>1, PacketFields, BoundsAssumption DEF CallPacket, CookiesApart
    <3> QED
      BY <2>2, <3>1, <3>2 DEF CallPacket
  <2>4. at_target' \subseteq C
    BY <1>3, <2>2, <2>3 DEF ServerRefuses, ServerAcknowledges, ServerTakesAnswer
  <2>5. from_server' \in Seq(A)
    <3>1. CASE ServerRefuses(msg)
      BY <1>4, <1>5, <2>3, <3>1 DEF ServerRefuses
    <3>2. CASE ServerAcknowledges(msg)
      BY <1>4, <1>5, <2>3, <3>2 DEF ServerAcknowledges
    <3>3. CASE ServerTakesAnswer(msg)
      BY <1>3, <3>3 DEF ServerTakesAnswer
    <3> QED
      BY <2>2, <3>1, <3>2, <3>3
  <2> QED
    BY <1>1, <1>2, <2>1, <2>4, <2>5 DEF SocketInv, R
<1>7. ASSUME NEW msg \in at_target, TargetReplies(msg)
      PROVE  SocketInv'
  <2>1. msg \in C
    BY <1>3
  <2>2. from_server' = Append(from_server, Send("TransactionReply", msg.cookie, TRUE, msg.of))
    BY <1>7 DEF TargetReplies, Answer
  <2>3. from_server' \in Seq(A)
    BY <1>4, <1>5, <2>1, <2>2
  <2>4. at_target' \subseteq C /\ UNCHANGED to_server
    BY <1>3, <1>7 DEF TargetReplies
  <2> QED
    BY <1>1, <1>3, <2>3, <2>4 DEF SocketInv
<1>8. CASE ServerPostsTransaction
  <2> DEFINE k == next_transaction_cookie_
             m == Send("Transaction", k, TRUE, Id("Transaction", k))
  <2>1. k \in Nat /\ k < FirstCookie
    BY <1>8, BoundsAssumption DEF ServerPostsTransaction, TypeOK, CookiesApart
  <2>2. m \in Packet /\ m.cookie = k /\ m.of.kind = "Transaction"
    BY <2>1 DEF Send, Packet, Id, Ids, MessageType
  <2>3. from_server' = Append(from_server, m) /\ UNCHANGED <<to_server, at_target>>
    BY <1>8 DEF ServerPostsTransaction
  <2> HIDE DEF m, k
  <2>4. m \in A
    BY <2>1, <2>2 DEF AnswerPacket
  <2>5. from_server' \in Seq(A)
    BY <1>5, <2>3, <2>4
  <2>6. to_server' \in Seq(R) /\ at_target' \subseteq C
    BY <1>3, <2>3
  <2> QED
    BY <1>1, <1>2, <2>5, <2>6 DEF SocketInv
<1>9. CASE ServerSendsUnasked
  <2>1. PICK type \in {"DeadBinder", "LogEntry"} :
          from_server' = Append(from_server, Send(type, 0, TRUE, Id(type, 0)))
    BY <1>9 DEF ServerSendsUnasked
  <2> DEFINE m == Send(type, 0, TRUE, Id(type, 0))
  <2>2. m \in Packet /\ m.cookie = 0 /\ m.of.kind = type /\ type # "call"
    BY DEF Send, Packet, Id, Ids, MessageType
  <2>3. 0 < FirstCookie
    BY <1>9, BoundsAssumption DEF ServerSendsUnasked, CookiesApart, TypeOK
  <2>4. from_server' = Append(from_server, m) /\ UNCHANGED <<to_server, at_target>>
    BY <1>9, <2>1 DEF ServerSendsUnasked
  <2> HIDE DEF m
  <2>5. m \in A
    BY <2>2, <2>3 DEF AnswerPacket
  <2>6. from_server' \in Seq(A)
    BY <1>5, <2>4, <2>5
  <2>7. to_server' \in Seq(R) /\ at_target' \subseteq C
    BY <1>3, <2>4
  <2> QED
    BY <1>1, <1>2, <2>6, <2>7 DEF SocketInv
<1>10. SocketInv'
  BY <1>6, <1>7, <1>8, <1>9 DEF ServerStep
<1> QED
  BY <1>2, <1>10

(* Every step keeps the invariant of the answers.                          *)
LEMMA NextAnswers ==
  ASSUME CookiesApart, TypeOK, CallParts, SocketInv, KeptInv, [Next]_vars
  PROVE  SocketInv' /\ KeptInv'
<1>1. CASE ApplicationStep
  <2>1. CASE SetContextObject
    BY <2>1, FrameAnswers DEF SetContextObject, server_vars
  <2>2. ASSUME NEW t \in Threads, NEW call \in Call, StartCall(t, call)
        PROVE  SocketInv' /\ KeptInv'
    BY <2>2, StartCallAnswers
  <2>3. ASSUME NEW t \in Threads, QueueMessage(t) \/ Return(t)
        PROVE  SocketInv' /\ KeptInv'
    BY <2>3, ThreadMovesAnswers
  <2> QED
    BY <1>1, <2>1, <2>2, <2>3, CallsAssumption DEF ApplicationStep
<1>2. CASE IoStep
  <2>1. CASE Terminate \/ HandleContextObjectMessage
    BY <2>1, FrameAnswers DEF Terminate, HandleContextObjectMessage, server_vars
  <2>2. CASE FinishCall
    <3>1. DOMAIN pending_calls_' \subseteq DOMAIN pending_calls_
      BY <2>2 DEF FinishCall, Erase
    <3> QED
      BY <2>2, <3>1, FrameAnswers DEF FinishCall, server_vars
  <2>3. CASE ReplyFromContextObject
    <3>1. serving[Strand] \in Packet
      BY DEF TypeOK
    <3> QED
      BY <2>3, <3>1, RepliesAnswers DEF ReplyFromContextObject, WriteData, server_vars
  <2> QED
    BY <1>2, <2>1, <2>2, <2>3, OnNewMessageAnswers DEF IoStep
<1>3. CASE PoolStep
  <2> SUFFICES ASSUME NEW w \in Workers, DequeueMessage(w) \/ ExecuteCommand(w)
               PROVE  SocketInv' /\ KeptInv'
    BY <1>3 DEF PoolStep
  <2>1. CASE DequeueMessage(w)
    BY <2>1, FrameAnswers DEF DequeueMessage, server_vars
  <2>2. CASE ExecuteCommand(w)
    <3>1. serving[w] \in Packet
      BY DEF TypeOK
    <3>2. \E type \in {"TransactionReply", "Status"} :
            \/ to_server' = to_server
            \/ to_server' = Append(to_server, Answer(type, serving[w]))
      BY <2>2 DEF ExecuteCommand, WriteData
    <3>3. UNCHANGED <<next_cookie_, pending_calls_, promise, thread, from_server, at_target>>
      BY <2>2 DEF ExecuteCommand, server_vars
    <3> QED
      BY <3>1, <3>2, <3>3, RepliesAnswers
  <2> QED
    BY <2>1, <2>2
<1>4. CASE UNCHANGED vars
  BY <1>4, FrameAnswers DEF vars, client_vars, server_vars
<1> QED
  BY <1>1, <1>2, <1>3, <1>4, ServerAnswers DEF Next

(* The answers at the start.                                               *)
LEMMA InitAnswers == Init => SocketInv /\ KeptInv
<1> SUFFICES ASSUME Init PROVE SocketInv /\ KeptInv
  OBVIOUS
<1>1. SocketInv
  BY DEF Init, SocketInv
<1>2. \A t \in Threads : ~InCall(t)
  BY DEF Init, Idle, InCall
<1> QED
  BY <1>1, <1>2, BoundsAssumption DEF Init, KeptInv, EmptyMap

(* With cookies that BinaryReader keeps whole and that are apart from      *)
(* those the server numbers its own messages with, every promise holds an  *)
(* answer to the call of its cookie.                                       *)
THEOREM AnswerInvariant ==
  ASSUME CookiesApart
  PROVE  Spec => [](CallInv /\ SocketInv /\ KeptInv)
<1>1. Init => SocketInv /\ KeptInv
  BY InitAnswers
<1>2. CallInv /\ SocketInv /\ KeptInv /\ [Next]_vars => (SocketInv /\ KeptInv)'
  BY NextAnswers DEF CallInv, CallParts
<1> QED
  BY <1>1, <1>2, CallInvariant, PTL DEF Spec

(* What Transact returns was sent as the answer to that very call, however *)
(* application threads, the reader, the strand and the targets interleave; *)
(* and a two-way transaction does not return the acknowledgement of its    *)
(* delivery.  The hypothesis is needed: the cookie of a call must survive  *)
(* BinaryReader, and be none the server gives to a transaction or a        *)
(* notification of its own.                                                *)
THEOREM AnswersAreForTheirCalls ==
  ASSUME CookiesApart
  PROVE  Spec => []AnswerIsForTheCall
<1>1. CallInv /\ SocketInv /\ KeptInv => AnswerIsForTheCall
  <2> SUFFICES ASSUME CallInv, KeptInv, NEW t \in Threads, thread[t].pc = "returned"
               PROVE  /\ promise[thread[t].cookie].of = Id("call", thread[t].cookie)
                      /\ thread[t].call = [type |-> "Transaction", one_way |-> FALSE] =>
                           \/ promise[thread[t].cookie].type # "Status"
                           \/ ~promise[thread[t].cookie].ok
    BY DEF AnswerIsForTheCall
  <2>1. /\ thread[t].cookie \in DOMAIN promise
        /\ ~IsAcknowledgement(promise[thread[t].cookie], thread[t].call)
    BY DEF CallInv, ThreadInv, InCall
  <2> QED
    BY <2>1 DEF KeptInv, IsAcknowledgement
<1> QED
  BY <1>1, AnswerInvariant, PTL

-----------------------------------------------------------------------------
(***************************************************************************)
(* Queues.                                                                 *)
(***************************************************************************)

(* What one more message does to a queue with at most one message of S.    *)
LEMMA AppendPlace ==
  ASSUME NEW T, NEW q \in Seq(T), NEW e \in T, NEW S
  PROVE  /\ e \notin S /\ None(q, S) => None(Append(q, e), S)
         /\ e \notin S /\ AtMostOne(q, S) => AtMostOne(Append(q, e), S)
         /\ None(q, S) => AtMostOne(Append(q, e), S)
<1> DEFINE n == Len(q)
           r == Append(q, e)
<1>1. /\ n \in Nat /\ DOMAIN q = 1 .. n /\ DOMAIN r = 1 .. n + 1
      /\ \A i \in 1 .. n : r[i] = q[i]
      /\ r[n + 1] = e
  OBVIOUS
<1> HIDE DEF n, r
<1>2. \A i \in DOMAIN r : (i \in DOMAIN q /\ r[i] = q[i]) \/ (i = n + 1 /\ r[i] = e)
  BY <1>1
<1> QED
  BY <1>2 DEF None, AtMostOne, r

(* What is left of such a queue behind its head.                           *)
LEMMA TailPlace ==
  ASSUME NEW T, NEW q \in Seq(T), q # << >>, NEW S
  PROVE  /\ None(q, S) => None(Tail(q), S) /\ Head(q) \notin S
         /\ AtMostOne(q, S) => AtMostOne(Tail(q), S)
         /\ AtMostOne(q, S) /\ Head(q) \in S => None(Tail(q), S)
<1> DEFINE n == Len(q)
           r == Tail(q)
<1>1. /\ n \in Nat /\ n > 0 /\ DOMAIN q = 1 .. n /\ DOMAIN r = 1 .. n - 1
      /\ \A i \in 1 .. n - 1 : r[i] = q[i + 1]
      /\ Head(q) = q[1]
  OBVIOUS
<1> HIDE DEF n, r
<1>2. 1 \in DOMAIN q /\ \A i \in DOMAIN r : i + 1 \in DOMAIN q /\ r[i] = q[i + 1] /\ i + 1 # 1
  BY <1>1
<1>3. \A i, j \in DOMAIN r : i + 1 = j + 1 => i = j
  BY <1>1
<1>4. None(q, S) => None(r, S) /\ Head(q) \notin S
  BY <1>1, <1>2 DEF None
<1>5. AtMostOne(q, S) => AtMostOne(r, S)
  BY <1>2, <1>3 DEF AtMostOne
<1>6. AtMostOne(q, S) /\ Head(q) \in S => None(r, S)
  BY <1>1, <1>2 DEF AtMostOne, None
<1> QED
  BY <1>4, <1>5, <1>6 DEF r

-----------------------------------------------------------------------------
(***************************************************************************)
(* Serving: what is moved from place to place.                             *)
(***************************************************************************)

(* Of the messages of S, q loses e and becomes r, or gains e.              *)
Takes(q, r, e, S) ==
  /\ None(q, S) => None(r, S) /\ e \notin S
  /\ AtMostOne(q, S) => AtMostOne(r, S)
  /\ AtMostOne(q, S) /\ e \in S => None(r, S)
  /\ e \notin S /\ None(r, S) => None(q, S)

Gives(q, r, e, S) ==
  /\ e \notin S /\ None(q, S) => None(r, S)
  /\ e \notin S /\ AtMostOne(q, S) => AtMostOne(r, S)
  /\ None(q, S) => AtMostOne(r, S)
  /\ None(r, S) => None(q, S) /\ e \notin S

(* A queue gives its head and takes at its end.                            *)
LEMMA QueueMoves ==
  ASSUME NEW T, NEW q \in Seq(T), NEW S
  PROVE  /\ q # << >> => Takes(q, Tail(q), Head(q), S)
         /\ \A e \in T : Gives(q, Append(q, e), e, S)
<1>1. ASSUME q # << >> PROVE Takes(q, Tail(q), Head(q), S)
  <2>1. /\ None(q, S) => None(Tail(q), S) /\ Head(q) \notin S
        /\ AtMostOne(q, S) => AtMostOne(Tail(q), S)
        /\ AtMostOne(q, S) /\ Head(q) \in S => None(Tail(q), S)
    BY <1>1, TailPlace
  <2>2. Head(q) \notin S /\ None(Tail(q), S) => None(q, S)
    <3> DEFINE n == Len(q)
               r == Tail(q)
    <3>1. /\ n \in Nat /\ n > 0 /\ DOMAIN q = 1 .. n /\ DOMAIN r = 1 .. n - 1
          /\ \A i \in 1 .. n - 1 : r[i] = q[i + 1]
          /\ Head(q) = q[1]
      BY <1>1
    <3> HIDE DEF n, r
    <3>2. \A i \in DOMAIN q : i = 1 \/ (i - 1 \in DOMAIN r /\ r[i - 1] = q[i])
      BY <3>1
    <3>3. Head(q) \notin S /\ None(r, S) => None(q, S)
      BY <3>1, <3>2 DEF None
    <3> QED
      BY <3>3 DEF r
  <2> QED
    BY <2>1, <2>2 DEF Takes
<1>2. ASSUME NEW e \in T PROVE Gives(q, Append(q, e), e, S)
  <2>1. /\ e \notin S /\ None(q, S) => None(Append(q, e), S)
        /\ e \notin S /\ AtMostOne(q, S) => AtMostOne(Append(q, e), S)
        /\ None(q, S) => AtMostOne(Append(q, e), S)
    BY AppendPlace
  <2>2. None(Append(q, e), S) => None(q, S) /\ e \notin S
    <3> DEFINE n == Len(q)
               r == Append(q, e)
    <3>1. /\ n \in Nat /\ DOMAIN q = 1 .. n /\ DOMAIN r = 1 .. n + 1
          /\ \A i \in 1 .. n : r[i] = q[i]
          /\ r[n + 1] = e
      OBVIOUS
    <3> HIDE DEF n, r
    <3>2. n + 1 \in DOMAIN r /\ \A i \in DOMAIN q : i \in DOMAIN r /\ r[i] = q[i]
      BY <3>1
    <3>3. None(r, S) => None(q, S) /\ e \notin S
      BY <3>1, <3>2 DEF None
    <3> QED
      BY <3>3 DEF r
  <2> QED
    BY <2>1, <2>2 DEF Gives
<1> QED
  BY <1>1, <1>2

(* The messages of the strand's tasks.                                     *)
Messages(q) == [i \in DOMAIN q |-> q[i].msg]

(* So does the strand, with the messages of its tasks.                     *)
LEMMA StrandMoves ==
  ASSUME NEW q \in Seq(Task), NEW S
  PROVE  /\ q # << >> => Takes(Messages(q), Messages(Tail(q)), Head(q).msg, S)
         /\ \A e \in Task : Gives(Messages(q), Messages(Append(q, e)), e.msg, S)
<1> DEFINE T == {x \in Task : x.msg \in S}
<1>1. ASSUME NEW r \in Seq(Task)
      PROVE  /\ None(Messages(r), S) <=> None(r, T)
             /\ AtMostOne(Messages(r), S) <=> AtMostOne(r, T)
  <2>1. \A i \in DOMAIN r : r[i] \in Task
    OBVIOUS
  <2>2. /\ DOMAIN Messages(r) = DOMAIN r
        /\ \A i \in DOMAIN r : Messages(r)[i] \in S <=> r[i] \in T
    BY <2>1 DEF Messages
  <2> HIDE DEF T
  <2> QED
    BY <2>2 DEF None, AtMostOne
<1>2. \A e \in Task : e \in T <=> e.msg \in S
  OBVIOUS
<1> HIDE DEF T
<1>3. ASSUME q # << >> PROVE Takes(Messages(q), Messages(Tail(q)), Head(q).msg, S)
  <2>1. Takes(q, Tail(q), Head(q), T)
    BY <1>3, QueueMoves
  <2>2. Tail(q) \in Seq(Task) /\ Head(q) \in Task
    BY <1>3, Dequeued
  <2> QED
    BY <1>1, <1>2, <2>1, <2>2 DEF Takes
<1>4. ASSUME NEW e \in Task PROVE Gives(Messages(q), Messages(Append(q, e)), e.msg, S)
  <2>1. Gives(q, Append(q, e), e, T)
    BY QueueMoves
  <2>2. Append(q, e) \in Seq(Task)
    BY Queued
  <2> QED
    BY <1>1, <1>2, <2>1, <2>2 DEF Gives
<1> QED
  BY <1>3, <1>4

(* A thread ends serving a message, or begins.                             *)
LEMMA ServingMoves ==
  ASSUME NEW D, NEW f, DOMAIN f = D, NEW w \in D, NEW S, NEW m, NEW none, none \notin S
  PROVE  /\ Takes(f, [f EXCEPT ![w] = none], f[w], S)
         /\ f[w] = none => Gives(f, [f EXCEPT ![w] = m], m, S)
<1> DEFINE r == [f EXCEPT ![w] = none]
           g == [f EXCEPT ![w] = m]
<1>1. DOMAIN r = DOMAIN f /\ r[w] = none /\ \A v \in DOMAIN f : v # w => r[v] = f[v]
  OBVIOUS
<1>2. DOMAIN g = DOMAIN f /\ g[w] = m /\ \A v \in DOMAIN f : v # w => g[v] = f[v]
  OBVIOUS
<1> HIDE DEF r, g
<1>3. Takes(f, r, f[w], S)
  BY <1>1 DEF Takes, None, AtMostOne
<1>4. ASSUME f[w] = none PROVE Gives(f, g, m, S)
  BY <1>2, <1>4 DEF Gives, None, AtMostOne
<1> QED
  BY <1>3, <1>4 DEF r, g

(* One place gives what another takes.                                     *)
LEMMA MoveOnce ==
  ASSUME NEW V, NEW W, NEW S, NEW a \in Names, NEW b \in Names, a # b, NEW d, NEW e,
         Takes(V[a], W[a], d, S), Gives(V[b], W[b], e, S),
         \A p \in Names \ {a, b} : W[p] = V[p], e \in S => d \in S, Once(V, S)
  PROVE  Once(W, S) /\ ((d \in S => e \in S) /\ Somewhere(V, S) => Somewhere(W, S))
<1>1. ASSUME NEW p \in Names PROVE AtMostOne(W[p], S)
  BY <1>1 DEF Takes, Gives, Once
<1>2. ASSUME NEW p \in Names, NEW q \in Names, p # q PROVE None(W[p], S) \/ None(W[q], S)
  BY <1>2 DEF Takes, Gives, Once
<1>3. ASSUME d \in S => e \in S, Somewhere(V, S) PROVE Somewhere(W, S)
  <2>1. PICK p \in Names : ~None(V[p], S)
    BY <1>3 DEF Somewhere
  <2> QED
    BY <1>3, <2>1 DEF Somewhere, Takes, Gives
<1> QED
  BY <1>1, <1>2, <1>3 DEF Once

(* One place loses a message.                                              *)
LEMMA DropOnce ==
  ASSUME NEW V, NEW W, NEW S, NEW a \in Names, NEW d, Takes(V[a], W[a], d, S),
         \A p \in Names \ {a} : W[p] = V[p], Once(V, S)
  PROVE  Once(W, S) /\ (d \notin S /\ Somewhere(V, S) => Somewhere(W, S))
<1>1. ASSUME NEW p \in Names PROVE AtMostOne(W[p], S)
  BY <1>1 DEF Takes, Once
<1>2. ASSUME NEW p \in Names, NEW q \in Names, p # q PROVE None(W[p], S) \/ None(W[q], S)
  BY <1>2 DEF Takes, Once
<1>3. ASSUME d \notin S, Somewhere(V, S) PROVE Somewhere(W, S)
  BY <1>3 DEF Somewhere, Takes
<1> QED
  BY <1>1, <1>2, <1>3 DEF Once

(* One place gains a message.                                              *)
LEMMA AddOnce ==
  ASSUME NEW V, NEW W, NEW S, NEW b \in Names, NEW e, Gives(V[b], W[b], e, S),
         \A p \in Names \ {b} : W[p] = V[p], Once(V, S), e \in S => ~Somewhere(V, S)
  PROVE  Once(W, S) /\ (e \in S \/ Somewhere(V, S) => Somewhere(W, S))
<1>1. ASSUME NEW p \in Names PROVE AtMostOne(W[p], S)
  BY <1>1 DEF Gives, Once, Somewhere
<1>2. ASSUME NEW p \in Names, NEW q \in Names, p # q PROVE None(W[p], S) \/ None(W[q], S)
  BY <1>2 DEF Gives, Once, Somewhere
<1>3. ASSUME e \in S \/ Somewhere(V, S) PROVE Somewhere(W, S)
  BY <1>3 DEF Somewhere, Gives
<1> QED
  BY <1>1, <1>2, <1>3 DEF Once

(* The places.                                                             *)
LEMMA Transit ==
  /\ DOMAIN InTransit = Names
  /\ InTransit["from_server"] = from_server
  /\ InTransit["strand_"] = Messages(strand_)
  /\ InTransit["in_messages_"] = in_messages_
  /\ InTransit["serving"] = serving
  /\ InTransit["to_server"] = to_server
BY DEF InTransit, Names, Messages

(* The places after a step.                                                *)
LEMMA TransitNext ==
  /\ InTransit'["from_server"] = from_server'
  /\ InTransit'["strand_"] = Messages(strand_')
  /\ InTransit'["in_messages_"] = in_messages_'
  /\ InTransit'["serving"] = serving'
  /\ InTransit'["to_server"] = to_server'
BY DEF InTransit, Messages

(* The messages of this part.                                              *)
LEMMA CarriedTypes ==
  ASSUME NEW n \in Nat
  PROVE  /\ Incoming(n) \subseteq Packet /\ ServedTask(n) \subseteq Task
         /\ Outgoing(n) \subseteq Packet
         /\ NoPacket \in Incoming(n) /\ \A c \in Nat : NoPacket \notin For(c)
         /\ \A c \in Nat : FinishTask(c) \in ServedTask(n)
<1>1. /\ Incoming(n) \subseteq Packet /\ ServedTask(n) \subseteq Task
      /\ Outgoing(n) \subseteq Packet
  BY DEF Incoming, ServedTask, Outgoing
<1>2. NoPacket \in Packet /\ NoPacket.of.kind = "nothing"
  BY NoPacketType DEF NoPacket, Send, Nothing
<1>3. NoPacket \in Incoming(n)
  BY <1>2 DEF Incoming
<1>4. ASSUME NEW c \in Nat PROVE NoPacket \notin For(c)
  BY <1>2, IdType DEF For
<1>5. ASSUME NEW c \in Nat PROVE FinishTask(c) \in ServedTask(n)
  <2>1. FinishTask(c) \in Task
    BY NoPacketType
  <2>2. FinishTask(c).msg \in Packet
    BY <2>1, TaskFields
  <2>3. FinishTask(c).msg.of = NoPacket.of
    BY <1>2 DEF FinishTask, Packet
  <2> QED
    BY <1>2, <2>1, <2>2, <2>3 DEF ServedTask, Incoming
<1> QED
  BY <1>1, <1>3, <1>4, <1>5

(* Which transaction a message is for depends on of alone.                 *)
LEMMA SameFor ==
  ASSUME NEW c \in Nat, NEW m \in Packet, NEW k \in Packet, k.of = m.of
  PROVE  /\ m \in For(c) <=> k \in For(c)
         /\ m \in For(c) => m.of.kind = "Transaction"
<1>1. Id("Transaction", c).kind = "Transaction"
  BY IdType
<1> QED
  BY <1>1 DEF For

(* The answer to a message is for the same transaction.                    *)
LEMMA AnswerIsMeant ==
  ASSUME NEW n \in Nat, NEW msg \in Incoming(n), NEW type \in {"Status", "TransactionReply"}
  PROVE  /\ Answer(type, msg) \in Outgoing(n)
         /\ Answer(type, msg).of = msg.of
<1> DEFINE m == Answer(type, msg)
<1>1. msg \in Packet /\ (msg.of.kind = "Transaction" => Meant(msg, n))
  BY DEF Incoming
<1>2. m \in Packet /\ m.of = msg.of /\ m.cookie = msg.cookie /\ m.type = type
  BY <1>1, PacketFields DEF Answer, Send, Packet, MessageType
<1> HIDE DEF m
<1>3. m \in Outgoing(n)
  BY <1>1, <1>2 DEF Outgoing, Meant
<1> QED
  BY <1>2, <1>3 DEF m

(* A step that leaves the server alone and loses no transaction while the  *)
(* connection lives.                                                       *)
LEMMA KeepsOnce ==
  ASSUME NEW c \in Nat, OnceAt(c), Once(InTransit', For(c)),
         UNCHANGED unanswered, should_exit_ => should_exit_',
         \/ should_exit_'
         \/ Somewhere(InTransit, For(c)) => Somewhere(InTransit', For(c))
  PROVE  OnceAt(c)'
BY DEF OnceAt, For

(* The steps of application threads.                                       *)
LEMMA ApplicationServes ==
  ASSUME TypeOK, CarriedInv, OnceInv, ApplicationStep
  PROVE  CarriedInv' /\ OnceInv'
<1> DEFINE n == next_transaction_cookie_
<1>1. n \in Nat
  BY BoundsAssumption DEF TypeOK
<1>2. ASSUME UNCHANGED <<from_server, in_messages_, strand_, to_server, serving,
                         should_exit_, server_vars>>
      PROVE  CarriedInv' /\ OnceInv'
  <2>1. CarriedInv'
    BY <1>2 DEF CarriedInv, Carried, server_vars
  <2>2. InTransit' = InTransit
    BY <1>2 DEF InTransit
  <2> QED
    BY <1>2, <2>1, <2>2 DEF OnceInv, OnceAt, For, server_vars
<1>3. ASSUME NEW t \in Threads, QueueMessage(t) PROVE CarriedInv' /\ OnceInv'
  <2> DEFINE c == thread[t].cookie
             m == Send(thread[t].call.type, c, TRUE, Id("call", c))
  <2>1. thread[t] \in ThreadState
    BY DEF TypeOK
  <2>2. c \in Nat /\ thread[t].call.type \in {"Transaction", "Acquire"}
    BY <2>1 DEF ThreadState, Call
  <2>3. m \in Packet /\ m.of.kind = "call"
    BY <2>2 DEF Send, Packet, Id, Ids, MessageType
  <2>4. /\ \/ /\ should_exit_ /\ to_server' = to_server
              /\ serving' = serving \/ serving' = [serving EXCEPT ![Strand] = NoPacket]
           \/ to_server' = Append(to_server, m) /\ serving' = serving
        /\ UNCHANGED <<from_server, in_messages_, strand_, should_exit_, server_vars>>
    BY <1>3 DEF QueueMessage
  <2> HIDE DEF m, c
  <2>5. m \in Outgoing(n)
    BY <2>3 DEF Outgoing
  <2>6. to_server \in Seq(Outgoing(n)) /\ Append(to_server, m) \in Seq(Outgoing(n))
    BY <2>5, Queued DEF CarriedInv, Carried
  <2>7. NoPacket \in Incoming(n)
    BY <1>1, CarriedTypes
  <2>8. \A w \in Workers \cup {Strand} : serving'[w] \in Incoming(n)
    BY <2>4, <2>7 DEF CarriedInv, Carried, TypeOK
  <2>9. CarriedInv'
    BY <2>4, <2>6, <2>8 DEF CarriedInv, Carried, server_vars
  <2>10. ASSUME NEW d \in Nat PROVE OnceAt(d)'
    <3> DEFINE S == For(d)
    <3>1. NoPacket \notin S /\ m \notin S
      BY <1>1, <2>3, CarriedTypes, SameFor
    <3>2. Once(InTransit, S) /\ OnceAt(d)
      BY DEF OnceInv, OnceAt
    <3> HIDE DEF S
    <3>3. CASE should_exit_ /\ to_server' = to_server /\ serving' = serving
      <4>1. InTransit' = InTransit
        BY <2>4, <3>3 DEF InTransit
      <4> QED
        BY <2>4, <3>2, <4>1, KeepsOnce DEF server_vars, S
    <3>4. CASE /\ should_exit_ /\ to_server' = to_server
               /\ serving' = [serving EXCEPT ![Strand] = NoPacket]
      <4>1. Takes(serving, serving', serving[Strand], S)
        BY <3>1, <3>4, ServingMoves DEF TypeOK
      <4>2. \A p \in Names \ {"serving"} : InTransit'[p] = InTransit[p]
        BY <2>4, <3>4, Transit, TransitNext DEF Names
      <4>3. Once(InTransit', S)
        BY <3>2, <4>1, <4>2, Transit, TransitNext, DropOnce DEF Names
      <4> QED
        BY <2>4, <3>2, <3>4, <4>3, KeepsOnce DEF server_vars, S
    <3>5. CASE to_server' = Append(to_server, m) /\ serving' = serving
      <4>1. Gives(to_server, to_server', m, S)
        BY <2>3, <3>5, QueueMoves DEF TypeOK
      <4>2. \A p \in Names \ {"to_server"} : InTransit'[p] = InTransit[p]
        BY <2>4, <3>5, Transit, TransitNext DEF Names
      <4>3. Once(InTransit', S) /\ (Somewhere(InTransit, S) => Somewhere(InTransit', S))
        BY <3>1, <3>2, <4>1, <4>2, Transit, TransitNext, AddOnce DEF Names
      <4> QED
        BY <2>4, <3>2, <4>3, KeepsOnce DEF server_vars, S
    <3> QED
      BY <2>4, <3>3, <3>4, <3>5
  <2> QED
    BY <2>9, <2>10 DEF OnceInv
<1> QED
  BY <1>2, <1>3 DEF ApplicationStep, StartCall, Return, SetContextObject

(* OnNewMessage hands a transaction to the strand or to the pool: its      *)
(* cookie is one of the server's, so it is taken for no reply.             *)
LEMMA OnNewMessageServes ==
  ASSUME ServedApart, TypeOK, SocketInv, KeptInv, CarriedInv, OnceInv, OnNewMessage
  PROVE  CarriedInv' /\ OnceInv'
<1> DEFINE n == next_transaction_cookie_
<1>1. n \in Nat
  BY BoundsAssumption DEF TypeOK
<1>2. /\ UNCHANGED <<to_server, serving, should_exit_, server_vars>>
      /\ from_server # << >> /\ from_server' = Tail(from_server)
  BY DEF OnNewMessage
<1>3. /\ from_server \in Seq(Incoming(n)) /\ in_messages_ \in Seq(Incoming(n))
      /\ strand_ \in Seq(ServedTask(n)) /\ Incoming(n) \subseteq Packet
      /\ from_server \in Seq(AnswerPacket(next_cookie_))
  BY <1>1, CarriedTypes DEF CarriedInv, Carried, SocketInv
<1>4. PICK m \in Incoming(n), msg \in Packet :
        /\ m = Head(from_server)
        /\ msg.type = m.type /\ msg.of = m.of
        /\ (m.cookie < 256 => msg.cookie = m.cookie)
        /\ Dispatch(msg, msg.cookie)
  BY <1>3, OnNewMessageReads
<1>5. m \in AnswerPacket(next_cookie_) /\ m \in Packet
  BY <1>2, <1>3, <1>4, Dequeued
<1>6. msg \in Incoming(n)
  BY <1>4 DEF Incoming, Meant
<1> DEFINE k == [task |-> "HandleContextObjectMessage", msg |-> msg]
           f == FinishTask(msg.cookie)
<1>7. f \in ServedTask(n) /\ f \in Task /\ f.msg.of.kind # "Transaction" /\ f.msg \in Packet
  <2>1. msg.cookie \in Nat
    BY PacketFields
  <2>2. f \in ServedTask(n) /\ f \in Task /\ f.task = "FinishCall"
    BY <1>1, <2>1, CarriedTypes, NoPacketType
  <2> HIDE DEF f
  <2> QED
    BY <2>2, TaskFields DEF ServedTask
<1>8. k \in ServedTask(n) /\ k \in Task /\ k.msg = msg
  BY <1>6 DEF ServedTask, Task
<1>9. \/ strand_' = strand_ /\ in_messages_' = in_messages_ /\ msg.type = "LogEntry"
      \/ strand_' = strand_ /\ in_messages_' = in_messages_
           /\ msg.cookie \in DOMAIN pending_calls_ /\ msg.type # "LogEntry"
      \/ strand_' = Append(strand_, f) /\ in_messages_' = in_messages_
           /\ msg.cookie \in DOMAIN pending_calls_ /\ msg.type # "LogEntry"
      \/ strand_' = Append(strand_, k) /\ in_messages_' = in_messages_
      \/ strand_' = strand_ /\ in_messages_' = Append(in_messages_, msg)
  BY <1>4 DEF Dispatch, SkipLogEntry, Resolve, SkipAcknowledgement, ResolveAgain,
     PostToContextObject, PushIncoming
<1> HIDE DEF k, f
<1>10. CarriedInv'
  <2>1. from_server' \in Seq(Incoming(n))
    BY <1>2, <1>3, Dequeued
  <2>2. Append(in_messages_, msg) \in Seq(Incoming(n))
    BY <1>3, <1>6, Queued
  <2>3. Append(strand_, f) \in Seq(ServedTask(n)) /\ Append(strand_, k) \in Seq(ServedTask(n))
    BY <1>3, <1>7, <1>8, Queued
  <2>4. in_messages_' \in Seq(Incoming(n)) /\ strand_' \in Seq(ServedTask(n))
    BY <1>3, <1>9, <2>2, <2>3
  <2> QED
    BY <1>2, <2>1, <2>4 DEF CarriedInv, Carried, server_vars
<1>11. ASSUME msg.of.kind = "Transaction"
       PROVE  msg.cookie \notin DOMAIN pending_calls_ /\ msg.type # "LogEntry"
  <2>1. m.type = "Transaction" /\ m.cookie < 256 /\ m.of = Id("Transaction", m.cookie)
    BY <1>4, <1>11 DEF Incoming, Meant
  <2>2. m.cookie \in Nat /\ m.of.kind = "Transaction"
    BY <1>4, <1>5, <1>11, PacketFields
  <2>3. m.cookie < FirstCookie
    BY <1>5, <2>1, <2>2, IdType DEF AnswerPacket, CallPacket
  <2>4. msg.cookie = m.cookie /\ msg.type = "Transaction"
    BY <1>4, <2>1
  <2> QED
    BY <2>2, <2>3, <2>4, BoundsAssumption DEF KeptInv
<1>12. ASSUME NEW d \in Nat PROVE OnceAt(d)'
  <2> DEFINE S == For(d)
  <2>1. /\ m \in S <=> msg \in S
        /\ msg \in S => msg.of.kind = "Transaction"
        /\ f.msg \notin S
    BY <1>4, <1>5, <1>7, SameFor
  <2>2. Once(InTransit, S) /\ OnceAt(d)
    BY DEF OnceInv, OnceAt
  <2> HIDE DEF S
  <2>3. Takes(from_server, from_server', m, S)
    BY <1>2, <1>3, <1>4, QueueMoves
  <2>4. strand_ \in Seq(Task) /\ in_messages_ \in Seq(Packet)
    BY DEF TypeOK, Task
  <2>5. SUFFICES Once(InTransit', S) /\ (Somewhere(InTransit, S) => Somewhere(InTransit', S))
    BY <1>2, <2>2, KeepsOnce DEF server_vars, S
  <2>6. CASE strand_' = strand_ /\ in_messages_' = in_messages_ /\ m \notin S
    <3>1. \A p \in Names \ {"from_server"} : InTransit'[p] = InTransit[p]
      BY <1>2, <2>6, Transit, TransitNext DEF Names
    <3> QED
      BY <2>2, <2>3, <2>6, <3>1, Transit, TransitNext, DropOnce DEF Names
  <2>7. CASE strand_' = Append(strand_, f) /\ in_messages_' = in_messages_ /\ m \notin S
    <3> DEFINE e == f.msg
    <3>1. Gives(Messages(strand_), Messages(strand_'), e, S) /\ e \notin S
      BY <1>7, <2>1, <2>4, <2>7, StrandMoves
    <3>2. \A p \in Names \ {"from_server", "strand_"} : InTransit'[p] = InTransit[p]
      BY <1>2, <2>7, Transit, TransitNext DEF Names
    <3> HIDE DEF e
    <3>3. /\ Takes(InTransit["from_server"], InTransit'["from_server"], m, S)
          /\ Gives(InTransit["strand_"], InTransit'["strand_"], e, S)
      BY <2>3, <3>1, Transit, TransitNext
    <3>4. "from_server" \in Names /\ "strand_" \in Names /\ "from_server" # "strand_"
      BY DEF Names
    <3> QED
      BY <2>2, <2>7, <3>1, <3>2, <3>3, <3>4, MoveOnce
  <2>8. CASE strand_' = Append(strand_, k) /\ in_messages_' = in_messages_
    <3>1. Gives(Messages(strand_), Messages(strand_'), msg, S)
      BY <1>8, <2>4, <2>8, StrandMoves
    <3>2. \A p \in Names \ {"from_server", "strand_"} : InTransit'[p] = InTransit[p]
      BY <1>2, <2>8, Transit, TransitNext DEF Names
    <3> QED
      BY <2>1, <2>2, <2>3, <3>1, <3>2, Transit, TransitNext, MoveOnce DEF Names
  <2>9. CASE strand_' = strand_ /\ in_messages_' = Append(in_messages_, msg)
    <3>1. Gives(in_messages_, in_messages_', msg, S)
      BY <2>4, <2>9, QueueMoves
    <3>2. \A p \in Names \ {"from_server", "in_messages_"} : InTransit'[p] = InTransit[p]
      BY <1>2, <2>9, Transit, TransitNext DEF Names
    <3> QED
      BY <2>1, <2>2, <2>3, <3>1, <3>2, Transit, TransitNext, MoveOnce DEF Names
  <2> QED
    BY <1>9, <1>11, <2>1, <2>6, <2>7, <2>8, <2>9
<1> QED
  BY <1>10, <1>12 DEF OnceInv

(* A thread ends serving a message: its answer is written, or it is lost   *)
(* with the connection, or it was no transaction.                          *)
LEMMA EndServing ==
  ASSUME TypeOK, CarriedInv, OnceInv, NEW w \in Workers \cup {Strand},
         UNCHANGED <<from_server, in_messages_, strand_, should_exit_, server_vars>>,
         serving' = [serving EXCEPT ![w] = NoPacket],
         \/ /\ to_server' = to_server
            /\ should_exit_ \/ serving[w].of.kind # "Transaction"
         \/ \E type \in {"Status", "TransactionReply"} :
              to_server' = Append(to_server, Answer(type, serving[w]))
  PROVE  CarriedInv' /\ OnceInv'
<1> DEFINE n == next_transaction_cookie_
           old == serving[w]
<1>1. n \in Nat
  BY BoundsAssumption DEF TypeOK
<1>2. old \in Incoming(n) /\ old \in Packet /\ NoPacket \in Incoming(n)
  BY <1>1, CarriedTypes DEF CarriedInv, Carried, TypeOK
<1>3. to_server \in Seq(Outgoing(n)) /\ Outgoing(n) \subseteq Packet
  BY <1>1, CarriedTypes DEF CarriedInv, Carried
<1>4. \A v \in Workers \cup {Strand} : serving'[v] \in Incoming(n)
  BY <1>2 DEF CarriedInv, Carried, TypeOK
<1>5. CASE /\ to_server' = to_server
           /\ should_exit_ \/ serving[w].of.kind # "Transaction"
  <2>1. CarriedInv'
    BY <1>3, <1>4, <1>5 DEF CarriedInv, Carried, server_vars
  <2>2. ASSUME NEW d \in Nat PROVE OnceAt(d)'
    <3> DEFINE S == For(d)
    <3>1. NoPacket \notin S /\ (old \in S => old.of.kind = "Transaction")
      BY <1>1, <1>2, CarriedTypes, SameFor
    <3>2. Once(InTransit, S) /\ OnceAt(d)
      BY DEF OnceInv, OnceAt
    <3> HIDE DEF S
    <3>3. Takes(serving, serving', old, S)
      BY <3>1, ServingMoves DEF TypeOK
    <3>4. \A p \in Names \ {"serving"} : InTransit'[p] = InTransit[p]
      BY <1>5, Transit, TransitNext DEF Names
    <3>5. Once(InTransit', S) /\ (old \notin S /\ Somewhere(InTransit, S) => Somewhere(InTransit', S))
      BY <3>2, <3>3, <3>4, Transit, TransitNext, DropOnce DEF Names
    <3> QED
      BY <1>5, <3>1, <3>2, <3>5, KeepsOnce DEF server_vars, S
  <2> QED
    BY <2>1, <2>2 DEF OnceInv
<1>6. ASSUME NEW type \in {"Status", "TransactionReply"},
             to_server' = Append(to_server, Answer(type, serving[w]))
      PROVE  CarriedInv' /\ OnceInv'
  <2> DEFINE m == Answer(type, old)
  <2>1. m \in Outgoing(n) /\ m \in Packet /\ m.of = old.of
    BY <1>1, <1>2, <1>3, AnswerIsMeant
  <2>2. to_server' = Append(to_server, m)
    BY <1>6
  <2> HIDE DEF m
  <2>3. to_server' \in Seq(Outgoing(n))
    BY <1>3, <2>1, <2>2, Queued
  <2>4. CarriedInv'
    BY <1>4, <2>3 DEF CarriedInv, Carried, server_vars
  <2>5. ASSUME NEW d \in Nat PROVE OnceAt(d)'
    <3> DEFINE S == For(d)
    <3>1. NoPacket \notin S /\ (old \in S <=> m \in S)
      BY <1>1, <1>2, <2>1, CarriedTypes, SameFor
    <3>2. Once(InTransit, S) /\ OnceAt(d)
      BY DEF OnceInv, OnceAt
    <3> HIDE DEF S
    <3>3. Takes(serving, serving', old, S)
      BY <3>1, ServingMoves DEF TypeOK
    <3>4. Gives(to_server, to_server', m, S)
      BY <1>3, <2>1, <2>2, QueueMoves
    <3>5. \A p \in Names \ {"serving", "to_server"} : InTransit'[p] = InTransit[p]
      BY Transit, TransitNext DEF Names
    <3> HIDE DEF old
    <3>6. Once(InTransit', S) /\ (Somewhere(InTransit, S) => Somewhere(InTransit', S))
      BY <3>1, <3>2, <3>3, <3>4, <3>5, Transit, TransitNext, MoveOnce DEF Names
    <3> QED
      BY <3>2, <3>6, KeepsOnce DEF server_vars, S
  <2> QED
    BY <2>4, <2>5 DEF OnceInv
<1> QED
  BY <1>5, <1>6

(* A thread begins to serve the message it takes from a queue.             *)
LEMMA BeginServing ==
  ASSUME TypeOK, CarriedInv, OnceInv, NEW w \in Workers \cup {Strand},
         serving[w] = NoPacket, NEW m, serving' = [serving EXCEPT ![w] = m],
         UNCHANGED <<from_server, to_server, should_exit_, server_vars>>,
         \/ /\ in_messages_ # << >> /\ in_messages_' = Tail(in_messages_)
            /\ m = Head(in_messages_) /\ UNCHANGED strand_
         \/ /\ strand_ # << >> /\ strand_' = Tail(strand_)
            /\ m = Head(strand_).msg /\ UNCHANGED in_messages_
  PROVE  CarriedInv' /\ OnceInv'
<1> DEFINE n == next_transaction_cookie_
<1>1. n \in Nat
  BY BoundsAssumption DEF TypeOK
<1>2. in_messages_ \in Seq(Incoming(n)) /\ strand_ \in Seq(ServedTask(n))
  BY DEF CarriedInv, Carried
<1>3. m \in Incoming(n) /\ in_messages_' \in Seq(Incoming(n)) /\ strand_' \in Seq(ServedTask(n))
  <2>1. CASE /\ in_messages_ # << >> /\ in_messages_' = Tail(in_messages_)
             /\ m = Head(in_messages_) /\ UNCHANGED strand_
    BY <1>2, <2>1, Dequeued
  <2>2. CASE /\ strand_ # << >> /\ strand_' = Tail(strand_)
             /\ m = Head(strand_).msg /\ UNCHANGED in_messages_
    <3>1. Head(strand_) \in ServedTask(n) /\ strand_' \in Seq(ServedTask(n))
      BY <1>2, <2>2, Dequeued
    <3> QED
      BY <1>2, <2>2, <3>1 DEF ServedTask
  <2> QED
    BY <2>1, <2>2
<1>4. CarriedInv'
  BY <1>3 DEF CarriedInv, Carried, server_vars, TypeOK
<1>5. ASSUME NEW d \in Nat PROVE OnceAt(d)'
  <2> DEFINE S == For(d)
  <2>1. NoPacket \notin S
    BY <1>1, CarriedTypes
  <2>2. Once(InTransit, S) /\ OnceAt(d)
    BY DEF OnceInv, OnceAt
  <2> HIDE DEF S
  <2>3. Gives(serving, serving', m, S)
    BY <2>1, ServingMoves DEF TypeOK
  <2>4. in_messages_ \in Seq(Packet) /\ strand_ \in Seq(Task)
    BY DEF TypeOK, Task
  <2>5. PICK a \in {"in_messages_", "strand_"} :
          /\ Takes(InTransit[a], InTransit'[a], m, S)
          /\ \A p \in Names \ {a, "serving"} : InTransit'[p] = InTransit[p]
    <3>1. CASE /\ in_messages_ # << >> /\ in_messages_' = Tail(in_messages_)
               /\ m = Head(in_messages_) /\ UNCHANGED strand_
      <4>1. Takes(in_messages_, in_messages_', m, S)
        BY <2>4, <3>1, QueueMoves
      <4>2. \A p \in Names \ {"in_messages_", "serving"} : InTransit'[p] = InTransit[p]
        BY <3>1, Transit, TransitNext DEF Names
      <4> QED
        BY <4>1, <4>2, Transit, TransitNext
    <3>2. CASE /\ strand_ # << >> /\ strand_' = Tail(strand_)
               /\ m = Head(strand_).msg /\ UNCHANGED in_messages_
      <4>1. Takes(Messages(strand_), Messages(strand_'), m, S)
        BY <2>4, <3>2, StrandMoves
      <4>2. \A p \in Names \ {"strand_", "serving"} : InTransit'[p] = InTransit[p]
        BY <3>2, Transit, TransitNext DEF Names
      <4> QED
        BY <4>1, <4>2, Transit, TransitNext
    <3> QED
      BY <3>1, <3>2
  <2>6. a \in Names /\ "serving" \in Names /\ a # "serving"
    BY DEF Names
  <2>7. Gives(InTransit["serving"], InTransit'["serving"], m, S)
    BY <2>3, Transit, TransitNext
  <2>8. Once(InTransit', S) /\ (Somewhere(InTransit, S) => Somewhere(InTransit', S))
    <3> DEFINE V == InTransit
               W == InTransit'
               b == "serving"
    <3>1. /\ Takes(V[a], W[a], m, S) /\ Gives(V[b], W[b], m, S) /\ Once(V, S)
          /\ \A p \in Names \ {a, b} : W[p] = V[p]
          /\ a \in Names /\ b \in Names /\ a # b /\ (m \in S => m \in S)
      BY <2>2, <2>5, <2>6, <2>7
    <3> HIDE DEF V, W, b
    <3>2. Once(W, S) /\ (Somewhere(V, S) => Somewhere(W, S))
      BY <3>1, MoveOnce
    <3> QED
      BY <3>2 DEF V, W
  <2> QED
    BY <2>2, <2>8, KeepsOnce DEF server_vars, S
<1> QED
  BY <1>4, <1>5 DEF OnceInv

(* The steps of the io threads.                                            *)
LEMMA IoServes ==
  ASSUME ServedApart, TypeOK, SocketInv, KeptInv, CarriedInv, OnceInv, IoStep
  PROVE  CarriedInv' /\ OnceInv'
<1>1. CASE Terminate
  <2>1. /\ UNCHANGED <<from_server, in_messages_, strand_, to_server, serving, server_vars>>
        /\ should_exit_'
    BY <1>1 DEF Terminate
  <2>2. CarriedInv'
    BY <2>1 DEF CarriedInv, Carried, server_vars
  <2>3. InTransit' = InTransit
    BY <2>1 DEF InTransit
  <2> QED
    BY <2>1, <2>2, <2>3 DEF OnceInv, OnceAt, For
<1>2. CASE HandleContextObjectMessage
  BY <1>2, BeginServing DEF HandleContextObjectMessage, StrandIsFree
<1>3. CASE ReplyFromContextObject
  BY <1>3, EndServing DEF ReplyFromContextObject, WriteData
<1>4. CASE FinishCall
  <2> DEFINE n == next_transaction_cookie_
             h == Head(strand_)
  <2>1. /\ strand_ # << >> /\ strand_' = Tail(strand_) /\ h.task = "FinishCall"
        /\ UNCHANGED <<from_server, in_messages_, to_server, serving, should_exit_, server_vars>>
    BY <1>4 DEF FinishCall, StrandIsFree
  <2>2. strand_ \in Seq(ServedTask(n)) /\ strand_ \in Seq(Task)
    BY DEF CarriedInv, Carried, TypeOK, Task
  <2>3. h \in ServedTask(n) /\ strand_' \in Seq(ServedTask(n))
    BY <2>1, <2>2, Dequeued
  <2>4. CarriedInv'
    BY <2>1, <2>3 DEF CarriedInv, Carried, server_vars
  <2>5. h.msg \in Packet /\ h.msg.of.kind # "Transaction"
    BY <2>1, <2>3, TaskFields DEF ServedTask
  <2>6. ASSUME NEW d \in Nat PROVE OnceAt(d)'
    <3> DEFINE S == For(d)
               e == h.msg
    <3>1. e \notin S
      BY <2>5, SameFor
    <3>2. Once(InTransit, S) /\ OnceAt(d)
      BY DEF OnceInv, OnceAt
    <3> HIDE DEF S
    <3>3. Takes(Messages(strand_), Messages(strand_'), e, S)
      BY <2>1, <2>2, StrandMoves
    <3> HIDE DEF e, h
    <3>4. Takes(InTransit["strand_"], InTransit'["strand_"], e, S)
      BY <3>3, Transit, TransitNext
    <3>5. \A p \in Names \ {"strand_"} : InTransit'[p] = InTransit[p]
      BY <2>1, Transit, TransitNext DEF Names
    <3>6. Once(InTransit', S) /\ (Somewhere(InTransit, S) => Somewhere(InTransit', S))
      <4>1. "strand_" \in Names
        BY DEF Names
      <4> QED
        BY <3>1, <3>2, <3>4, <3>5, <4>1, DropOnce
    <3> QED
      BY <2>1, <3>2, <3>6, KeepsOnce DEF server_vars, S
  <2> QED
    BY <2>4, <2>6 DEF OnceInv
<1> QED
  BY <1>1, <1>2, <1>3, <1>4, OnNewMessageServes DEF IoStep

(* The steps of the pool.                                                  *)
LEMMA PoolServes ==
  ASSUME TypeOK, CarriedInv, OnceInv, NEW w \in Workers,
         DequeueMessage(w) \/ ExecuteCommand(w)
  PROVE  CarriedInv' /\ OnceInv'
<1>1. CASE DequeueMessage(w)
  BY <1>1, BeginServing DEF DequeueMessage
<1>2. CASE ExecuteCommand(w)
  <2>1. serving[w].of.kind = "Transaction" => serving[w].type = "Transaction"
    BY DEF CarriedInv, Carried, Incoming
  <2>2. /\ UNCHANGED <<from_server, in_messages_, strand_, should_exit_, server_vars>>
        /\ serving' = [serving EXCEPT ![w] = NoPacket]
    BY <1>2 DEF ExecuteCommand
  <2>3. \/ /\ to_server' = to_server
           /\ should_exit_ \/ serving[w].type # "Transaction"
        \/ \E type \in {"Status", "TransactionReply"} :
             to_server' = Append(to_server, Answer(type, serving[w]))
    BY <1>2 DEF ExecuteCommand, WriteData
  <2> QED
    BY <2>1, <2>2, <2>3, EndServing
<1> QED
  BY <1>1, <1>2

(* The server takes the answer of a transaction for that transaction, and  *)
(* posts each under a number of its own.                                   *)
LEMMA ServerServes ==
  ASSUME ServedApart, TypeOK, SocketInv, CarriedInv, OnceInv, ServerStep
  PROVE  CarriedInv' /\ OnceInv'
<1> DEFINE n == next_transaction_cookie_
<1>1. n \in Nat
  BY BoundsAssumption DEF TypeOK
<1>2. UNCHANGED <<in_messages_, strand_, serving, should_exit_>>
  BY DEF ServerStep, ServerProcessesMessage, TargetReplies, ServerPostsTransaction,
     ServerSendsUnasked, client_vars
<1>3. /\ from_server \in Seq(Incoming(n)) /\ to_server \in Seq(Outgoing(n))
      /\ Incoming(n) \subseteq Packet /\ Outgoing(n) \subseteq Packet
      /\ from_server \in Seq(Packet) /\ to_server \in Seq(Packet)
  BY <1>1, CarriedTypes DEF CarriedInv, Carried, TypeOK
<1>4. ASSUME NEW m \in Packet, m.of.kind # "Transaction"
      PROVE  m \in Incoming(n) /\ \A d \in Nat : m \notin For(d)
  BY <1>4, SameFor DEF Incoming
<1>5. ASSUME NEW m \in Packet, m.of.kind # "Transaction",
             from_server' = Append(from_server, m),
             UNCHANGED <<to_server, unanswered, next_transaction_cookie_>>
      PROVE  CarriedInv' /\ OnceInv'
  <2>1. m \in Incoming(n) /\ from_server' \in Seq(Incoming(n))
    BY <1>3, <1>4, <1>5, Queued
  <2>2. CarriedInv'
    BY <1>2, <1>5, <2>1 DEF CarriedInv, Carried
  <2>3. ASSUME NEW d \in Nat PROVE OnceAt(d)'
    <3> DEFINE S == For(d)
    <3>1. m \notin S /\ Once(InTransit, S) /\ OnceAt(d)
      BY <1>4, <1>5 DEF OnceInv, OnceAt
    <3> HIDE DEF S
    <3>2. Gives(from_server, from_server', m, S)
      BY <1>3, <1>5, QueueMoves
    <3>3. \A p \in Names \ {"from_server"} : InTransit'[p] = InTransit[p]
      BY <1>2, <1>5, Transit, TransitNext DEF Names
    <3>4. Once(InTransit', S) /\ (Somewhere(InTransit, S) => Somewhere(InTransit', S))
      BY <3>1, <3>2, <3>3, Transit, TransitNext, AddOnce DEF Names
    <3> QED
      BY <1>2, <1>5, <3>1, <3>4, KeepsOnce DEF S
  <2> QED
    BY <2>2, <2>3 DEF OnceInv
<1>6. CASE ServerProcessesMessage
  <2>1. /\ to_server # << >> /\ to_server' = Tail(to_server)
        /\ next_transaction_cookie_' = next_transaction_cookie_
    BY <1>6 DEF ServerProcessesMessage
  <2>2. PICK m \in Outgoing(n), msg \in Packet :
          /\ m = Head(to_server)
          /\ msg.type = m.type /\ msg.of = m.of
          /\ (m.cookie < 256 => msg.cookie = m.cookie)
          /\ ServerRefuses(msg) \/ ServerAcknowledges(msg) \/ ServerTakesAnswer(msg)
    BY <1>3, <1>6, ServerReads
  <2>3. to_server' \in Seq(Outgoing(n)) /\ m \in Packet
    BY <1>3, <2>1, <2>2, Dequeued
  <2>4. ASSUME NEW S PROVE Takes(to_server, to_server', m, S)
    BY <1>3, <2>1, <2>2, QueueMoves
  <2>5. CASE ServerTakesAnswer(msg)
    <3>1. from_server' = from_server /\ unanswered' = unanswered \ {msg.cookie}
      BY <2>5 DEF ServerTakesAnswer
    <3>2. CarriedInv'
      BY <1>2, <2>1, <2>3, <3>1 DEF CarriedInv, Carried
    <3>3. ASSUME NEW d \in Nat PROVE OnceAt(d)'
      <4> DEFINE S == For(d)
      <4>1. Once(InTransit, S) /\ (d \in unanswered => should_exit_ \/ Somewhere(InTransit, S))
        BY DEF OnceInv, OnceAt
      <4>2. m \in S => d = msg.cookie
        <5>1. SUFFICES ASSUME m \in S PROVE d = msg.cookie
          OBVIOUS
        <5>2. m.of = Id("Transaction", d)
          BY <5>1 DEF For
        <5>3. m.of.kind = "Transaction" /\ m.of.cookie = d
          BY <5>2, IdType
        <5>4. m.of = Id("Transaction", m.cookie) /\ m.cookie < 256 /\ m.cookie \in Nat
          BY <2>2, <2>3, <5>3, PacketFields DEF Outgoing, Meant
        <5> QED
          BY <2>2, <5>3, <5>4, IdType
      <4> HIDE DEF S
      <4>3. \A p \in Names \ {"to_server"} : InTransit'[p] = InTransit[p]
        BY <1>2, <3>1, Transit, TransitNext DEF Names
      <4>4. /\ Once(InTransit', S)
            /\ (m \notin S /\ Somewhere(InTransit, S) => Somewhere(InTransit', S))
        BY <2>4, <4>1, <4>3, Transit, TransitNext, DropOnce DEF Names
      <4> QED
        BY <1>2, <3>1, <4>1, <4>2, <4>4 DEF OnceAt, S, For
    <3> QED
      BY <3>2, <3>3 DEF OnceInv
  <2>6. CASE ServerRefuses(msg) \/ ServerAcknowledges(msg)
    <3>1. PICK ok \in BOOLEAN :
            from_server' = Append(from_server, Send("Status", msg.cookie, ok, msg.of))
      BY <2>6 DEF ServerRefuses, ServerAcknowledges
    <3> DEFINE e == Send("Status", msg.cookie, ok, msg.of)
    <3>2. e \in Packet /\ e.of = msg.of
      BY PacketFields DEF Send, Packet, MessageType
    <3>3. msg.type \in {"Acquire", "Transaction"} /\ unanswered' = unanswered
      BY <2>6 DEF ServerRefuses, ServerAcknowledges
    <3>4. m.of.kind # "Transaction"
      BY <2>2, <3>3 DEF Outgoing
    <3>5. from_server' = Append(from_server, e)
      BY <3>1
    <3> HIDE DEF e
    <3>6. e \in Incoming(n) /\ from_server' \in Seq(Incoming(n))
      BY <1>3, <1>4, <2>2, <3>2, <3>4, <3>5, Queued
    <3>7. CarriedInv'
      BY <1>2, <2>1, <2>3, <3>6 DEF CarriedInv, Carried
    <3>8. ASSUME NEW d \in Nat PROVE OnceAt(d)'
      <4> DEFINE S == For(d)
      <4>1. e \notin S /\ m \notin S /\ Once(InTransit, S) /\ OnceAt(d)
        BY <1>4, <2>2, <2>3, <3>2, <3>4 DEF OnceInv, OnceAt
      <4> HIDE DEF S
      <4>2. Gives(from_server, from_server', e, S) /\ Takes(to_server, to_server', m, S)
        BY <1>3, <2>4, <3>2, <3>5, QueueMoves
      <4>3. \A p \in Names \ {"to_server", "from_server"} : InTransit'[p] = InTransit[p]
        BY <1>2, Transit, TransitNext DEF Names
      <4>4. Once(InTransit', S) /\ (Somewhere(InTransit, S) => Somewhere(InTransit', S))
        BY <4>1, <4>2, <4>3, Transit, TransitNext, MoveOnce DEF Names
      <4> QED
        BY <1>2, <3>3, <4>1, <4>4, KeepsOnce DEF S
    <3> QED
      BY <3>7, <3>8 DEF OnceInv
  <2> QED
    BY <2>2, <2>5, <2>6
<1>7. ASSUME NEW msg \in at_target, TargetReplies(msg) PROVE CarriedInv' /\ OnceInv'
  <2>1. msg \in Packet /\ msg.of = Id("call", msg.cookie)
    BY DEF SocketInv, CallPacket
  <2> DEFINE m == Answer("TransactionReply", msg)
  <2>2. m \in Packet /\ m.of = msg.of
    BY <2>1, PacketFields DEF Answer, Send, Packet, MessageType
  <2>3. msg.of.kind = "call"
    BY <2>1, PacketFields, IdType
  <2>4. /\ from_server' = Append(from_server, m)
        /\ UNCHANGED <<to_server, unanswered, next_transaction_cookie_>>
    BY <1>7 DEF TargetReplies
  <2> HIDE DEF m
  <2> QED
    BY <1>5, <2>2, <2>3, <2>4
<1>8. CASE ServerSendsUnasked
  <2>1. PICK type \in {"DeadBinder", "LogEntry"} :
          from_server' = Append(from_server, Send(type, 0, TRUE, Id(type, 0)))
    BY <1>8 DEF ServerSendsUnasked
  <2> DEFINE m == Send(type, 0, TRUE, Id(type, 0))
  <2>2. m \in Packet /\ m.of.kind = type
    BY DEF Send, Packet, Id, Ids, MessageType
  <2>3. /\ from_server' = Append(from_server, m)
        /\ UNCHANGED <<to_server, unanswered, next_transaction_cookie_>>
    BY <1>8, <2>1 DEF ServerSendsUnasked
  <2> HIDE DEF m
  <2> QED
    BY <1>5, <2>2, <2>3
<1>9. CASE ServerPostsTransaction
  <2> DEFINE m == Send("Transaction", n, TRUE, Id("Transaction", n))
  <2>1. n < 256 /\ n + 1 \in Nat
    BY <1>1, <1>9, BoundsAssumption DEF ServerPostsTransaction, ServedApart
  <2>2. /\ m \in Packet /\ m.cookie = n /\ m.of = Id("Transaction", n)
        /\ m.type = "Transaction"
    BY <1>1 DEF Send, Packet, Id, Ids, MessageType
  <2>3. /\ from_server' = Append(from_server, m) /\ to_server' = to_server
        /\ unanswered' = unanswered \cup {n} /\ next_transaction_cookie_' = n + 1
    BY <1>9 DEF ServerPostsTransaction
  <2> HIDE DEF m
  <2>4. /\ Incoming(n) \subseteq Incoming(n + 1) /\ Outgoing(n) \subseteq Outgoing(n + 1)
        /\ ServedTask(n) \subseteq ServedTask(n + 1)
    <3>1. ASSUME NEW k \in Packet, Meant(k, n) PROVE Meant(k, n + 1)
      BY <1>1, <3>1, PacketFields DEF Meant
    <3>2. Incoming(n) \subseteq Incoming(n + 1) /\ Outgoing(n) \subseteq Outgoing(n + 1)
      BY <3>1 DEF Incoming, Outgoing
    <3> QED
      BY <3>2 DEF ServedTask
  <2>5. m \in Incoming(n + 1)
    BY <1>1, <2>1, <2>2 DEF Incoming, Meant
  <2>6. /\ from_server \in Seq(Incoming(n + 1)) /\ to_server \in Seq(Outgoing(n + 1))
        /\ in_messages_ \in Seq(Incoming(n + 1)) /\ strand_ \in Seq(ServedTask(n + 1))
    BY <2>4, LargerSeq DEF CarriedInv, Carried
  <2>7. from_server' \in Seq(Incoming(n + 1))
    BY <2>3, <2>5, <2>6, Queued
  <2>8. CarriedInv'
    BY <1>2, <2>3, <2>4, <2>6, <2>7 DEF CarriedInv, Carried
  <2>9. ASSUME NEW k \in Incoming(n) \cup Outgoing(n) PROVE k \notin For(n)
    <3>1. k \in Packet /\ (k.of.kind = "Transaction" => Meant(k, n))
      BY <1>3 DEF Incoming, Outgoing
    <3>2. ASSUME k \in For(n) PROVE FALSE
      <4>1. k.of = Id("Transaction", n) /\ k.of.kind = "Transaction" /\ k.of.cookie = n
        BY <1>1, <3>2, IdType DEF For
      <4>2. k.of = Id("Transaction", k.cookie) /\ k.cookie < n /\ k.cookie \in Nat
        BY <3>1, <4>1, PacketFields DEF Meant
      <4> QED
        BY <1>1, <4>1, <4>2, IdType
    <3> QED
      BY <3>2
  <2>10. ~Somewhere(InTransit, For(n))
    <3>1. /\ None(from_server, For(n)) /\ None(in_messages_, For(n))
          /\ None(to_server, For(n)) /\ None(serving, For(n))
      BY <2>9 DEF None, CarriedInv, Carried, TypeOK
    <3>2. None(Messages(strand_), For(n))
      BY <2>9 DEF None, Messages, CarriedInv, Carried, ServedTask
    <3> QED
      BY <3>1, <3>2, Transit DEF Somewhere, Names
  <2>11. ASSUME NEW d \in Nat PROVE OnceAt(d)'
    <3> DEFINE S == For(d)
    <3>1. /\ Once(InTransit, S) /\ (d \in unanswered => should_exit_ \/ Somewhere(InTransit, S))
      BY DEF OnceInv, OnceAt
    <3>2. m \in S <=> d = n
      <4>1. d = n => m \in S
        BY <2>2 DEF For
      <4>2. m \in S => d = n
        BY <1>1, <2>2, IdType DEF For
      <4> QED
        BY <4>1, <4>2
    <3>3. m \in S => ~Somewhere(InTransit, S)
      BY <2>10, <3>2
    <3> HIDE DEF S
    <3>4. Gives(from_server, from_server', m, S)
      BY <1>3, <2>2, <2>3, QueueMoves
    <3>5. \A p \in Names \ {"from_server"} : InTransit'[p] = InTransit[p]
      BY <1>2, <2>3, Transit, TransitNext DEF Names
    <3>6. Once(InTransit', S) /\ (m \in S \/ Somewhere(InTransit, S) => Somewhere(InTransit', S))
      BY <3>1, <3>3, <3>4, <3>5, Transit, TransitNext, AddOnce DEF Names
    <3> QED
      BY <1>2, <2>3, <3>1, <3>2, <3>6 DEF OnceAt, S, For
  <2> QED
    BY <2>8, <2>11 DEF OnceInv
<1> QED
  BY <1>6, <1>7, <1>8, <1>9 DEF ServerStep

(* A transaction of another client is executed once: whatever the reader,  *)
(* the strand, the pool and the application threads interleave with, the   *)
(* message or its answer is in one place at most, and while the server     *)
(* waits for the answer it is in one, unless the connection was given up.  *)
(* Calls must have other cookies than the transactions, and these must fit *)
(* in the byte that is read of them: else OnNewMessage takes a transaction *)
(* for a reply.  Death notifications may be sent at any time.              *)
THEOREM TransactionsAreServedOnce ==
  ASSUME ServedApart
  PROVE  Spec => []ServedOnce
<1> DEFINE Inv == CarriedInv /\ OnceInv
<1>0. CookiesApart
  BY DEF ServedApart
<1>1. Init => Inv
  <2> SUFFICES ASSUME Init PROVE Inv
    OBVIOUS
  <2>1. 0 \in Nat /\ next_transaction_cookie_ = 0
    BY DEF Init
  <2>2. CarriedInv
    BY <2>1, CarriedTypes DEF Init, CarriedInv, Carried
  <2>3. ASSUME NEW d \in Nat PROVE OnceAt(d)
    <3> DEFINE S == For(d)
    <3>1. NoPacket \notin S
      BY <2>1, CarriedTypes
    <3> HIDE DEF S
    <3>2. /\ from_server = << >> /\ to_server = << >> /\ in_messages_ = << >>
          /\ strand_ = << >> /\ serving = [w \in Workers \cup {Strand} |-> NoPacket]
          /\ unanswered = {}
      BY DEF Init
    <3>3. DOMAIN << >> = {}
      OBVIOUS
    <3>4. \A p \in Names : None(InTransit[p], S)
      BY <3>1, <3>2, <3>3, Transit DEF Names, None, Messages
    <3>5. Once(InTransit, S)
      BY <3>4 DEF Once, AtMostOne, None
    <3> QED
      BY <3>2, <3>5 DEF OnceAt, S
  <2> QED
    BY <2>2, <2>3 DEF OnceInv
<1>2. TypeOK /\ SocketInv /\ KeptInv /\ Inv /\ [Next]_vars => Inv'
  <2> SUFFICES ASSUME TypeOK, SocketInv, KeptInv, CarriedInv, OnceInv, [Next]_vars
               PROVE  CarriedInv' /\ OnceInv'
    OBVIOUS
  <2>1. CASE UNCHANGED vars
    <3>1. CarriedInv'
      BY <2>1 DEF vars, client_vars, server_vars, CarriedInv, Carried
    <3>2. InTransit' = InTransit /\ UNCHANGED <<unanswered, should_exit_>>
      BY <2>1 DEF vars, client_vars, server_vars, InTransit
    <3> QED
      BY <3>1, <3>2 DEF OnceInv, OnceAt, For
  <2> QED
    BY <2>1, ApplicationServes, IoServes, PoolServes, ServerServes DEF Next, PoolStep
<1>3. TypeOK /\ Inv => ServedOnce
  <2> SUFFICES ASSUME TypeOK, CarriedInv, OnceInv,
                      NEW c \in 0 .. next_transaction_cookie_ - 1
               PROVE  /\ \A p, q \in Names : \A i \in At(p, c), j \in At(q, c) : p = q /\ i = j
                      /\ c \in unanswered => should_exit_ \/ \E p \in Names : At(p, c) # {}
    BY Transit DEF ServedOnce
  <2> DEFINE S == For(c)
  <2>1. c \in Nat /\ next_transaction_cookie_ \in Nat
    BY BoundsAssumption DEF TypeOK
  <2>2. Once(InTransit, S) /\ (c \in unanswered => should_exit_ \/ Somewhere(InTransit, S))
    BY <2>1 DEF OnceInv, OnceAt
  <2>3. ASSUME NEW p \in Names, NEW i \in DOMAIN InTransit[p]
        PROVE  InTransit[p][i] \in Packet
    <3>1. /\ \A k \in DOMAIN from_server : from_server[k] \in Packet
          /\ \A k \in DOMAIN in_messages_ : in_messages_[k] \in Packet
          /\ \A k \in DOMAIN to_server : to_server[k] \in Packet
          /\ \A k \in DOMAIN serving : serving[k] \in Packet
      BY DEF TypeOK
    <3>2. \A k \in DOMAIN Messages(strand_) : Messages(strand_)[k] \in Packet
      <4>1. strand_ \in Seq(Task)
        BY DEF TypeOK, Task
      <4>2. \A k \in DOMAIN strand_ : strand_[k] \in Task
        BY <4>1
      <4> QED
        BY <4>2, TaskFields DEF Messages
    <3> QED
      BY <3>1, <3>2, Transit DEF Names
  <2>4. ASSUME NEW p \in Names
        PROVE  At(p, c) = {i \in DOMAIN InTransit[p] : InTransit[p][i] \in S}
    BY <2>3 DEF At, For
  <2> HIDE DEF S
  <2>5. ASSUME NEW p \in Names, NEW q \in Names, NEW i \in At(p, c), NEW j \in At(q, c)
        PROVE  p = q /\ i = j
    BY <2>2, <2>4 DEF Once, AtMostOne, None
  <2>6. ASSUME Somewhere(InTransit, S) PROVE \E p \in Names : At(p, c) # {}
    BY <2>4, <2>6 DEF Somewhere, None
  <2> QED
    BY <2>2, <2>5, <2>6
<1> HIDE DEF Inv
<1>4. Spec => [](TypeOK /\ SocketInv /\ KeptInv)
  <2>1. CallInv => TypeOK
    BY DEF CallInv
  <2> QED
    BY <1>0, <2>1, AnswerInvariant, PTL
<1> QED
  BY <1>1, <1>2, <1>3, <1>4, PTL DEF Spec

-----------------------------------------------------------------------------
(***************************************************************************)
(* Two-way calls.                                                          *)
(***************************************************************************)

(* A queue loses its head, or gains a message that is not one of S.        *)
MovesWithout(q, r, S) ==
  \/ r = q
  \/ q # << >> /\ r = Tail(q)
  \/ \E e \in Packet : e \notin S /\ r = Append(q, e)

(* Such a move keeps what is said of the messages of S.                    *)
LEMMA MovePlace ==
  ASSUME NEW q \in Seq(Packet), NEW r, NEW S, MovesWithout(q, r, S)
  PROVE  /\ None(q, S) => None(r, S)
         /\ AtMostOne(q, S) => AtMostOne(r, S)
<1>1. CASE r = q
  BY <1>1
<1>2. CASE q # << >> /\ r = Tail(q)
  BY <1>2, TailPlace
<1>3. ASSUME NEW e \in Packet, e \notin S, r = Append(q, e)
      PROVE  /\ None(q, S) => None(r, S)
             /\ AtMostOne(q, S) => AtMostOne(r, S)
  BY <1>3, AppendPlace
<1> QED
  BY <1>1, <1>2, <1>3 DEF MovesWithout

(* Steps that concern other calls than c.                                  *)
LEMMA OtherCallMoves ==
  ASSUME TypeOK, NEW c \in Nat, NEW call \in Call, PlaceInv(c, call),
         MovesWithout(to_server, to_server', RequestFor(c)),
         MovesWithout(from_server, from_server', AnswerTo(c, call)),
         \A m \in at_target' : m.cookie = c => m \in at_target,
         Unset(c) => Unset(c)', 
         \A t \in Threads : Starting(t, c)' => Starting(t, c),
         \A t \in Threads : Calling(t, c)' => Calling(t, c)
  PROVE  PlaceInv(c, call)'
<1> DEFINE Q == RequestFor(c)
           W == WrongRequest(c, call)
           A == AnswerTo(c, call)
<1>1. to_server \in Seq(Packet) /\ from_server \in Seq(Packet)
  BY DEF TypeOK
<1>2. W \subseteq Q
  BY DEF WrongRequest
<1>3. MovesWithout(to_server, to_server', W)
  BY <1>2 DEF MovesWithout
<1> HIDE DEF Q, W, A
<1>4. None(to_server, W) => None(to_server', W)
  BY <1>1, <1>3, MovePlace
<1>5. /\ None(to_server, Q) => None(to_server', Q)
      /\ AtMostOne(to_server, Q) => AtMostOne(to_server', Q)
  BY <1>1, MovePlace DEF Q
<1>6. /\ None(from_server, A) => None(from_server', A)
      /\ AtMostOne(from_server, A) => AtMostOne(from_server', A)
  BY <1>1, MovePlace DEF A
<1>7. /\ Unrequested(c) => Unrequested(c)'
      /\ Unanswered(c, call) => Unanswered(c, call)'
  BY <1>5, <1>6 DEF Unrequested, Unanswered, Q, A
<1>8. /\ Untargeted(c) => Untargeted(c)'
      /\ OneTarget(c) => OneTarget(c)'
  BY DEF Untargeted, OneTarget
<1>9. /\ AtMostOne(to_server', Q) /\ None(to_server', W) /\ AtMostOne(from_server', A)
  BY <1>4, <1>5, <1>6 DEF PlaceInv, Q, W, A
<1>10. /\ Unrequested(c)' \/ (Untargeted(c)' /\ Unanswered(c, call)' /\ Unset(c)')
       /\ Untargeted(c)' \/ (call.type = "Transaction" /\ Unanswered(c, call)' /\ Unset(c)')
       /\ Unanswered(c, call)' \/ Unset(c)'
       /\ OneTarget(c)' /\ ~call.one_way
  BY <1>7, <1>8 DEF PlaceInv
<1>11. ASSUME NEW t \in Threads, Starting(t, c)'
       PROVE  /\ Unrequested(c)' /\ Untargeted(c)' /\ Unanswered(c, call)' /\ Unset(c)'
              /\ \A u \in Threads \ {t} : ~Calling(u, c)'
  BY <1>7, <1>8, <1>11 DEF PlaceInv
<1> QED
  BY <1>9, <1>10, <1>11 DEF PlaceInv, Q, W, A

(* StartCall: the cookie of the new call is in none of the places.         *)
LEMMA NewCallPlace ==
  ASSUME TypeOK, CallParts, SocketInv, NEW t \in Threads, NEW call \in Call,
         ~call.one_way, StartCall(t, call), NEW c \in Nat, c = CookieFor(call)
  PROVE  PlaceInv(c, call)'
<1> DEFINE n == next_cookie_
           r == [pc |-> "started", call |-> call, cookie |-> c]
<1>1. /\ n \in Nat /\ n <= c /\ thread' = [thread EXCEPT ![t] = r]
      /\ c \notin DOMAIN promise
      /\ UNCHANGED <<to_server, from_server, at_target, promise>>
  BY StartCallParts DEF StartCall, server_vars, TypeOK
<1>2. \A m \in CallPacket(n) : m.cookie # c /\ m.of # Id("call", c)
  <2> SUFFICES ASSUME NEW m \in CallPacket(n) PROVE m.cookie # c /\ m.of # Id("call", c)
    OBVIOUS
  <2>1. m.cookie \in Nat /\ m.cookie < n /\ m.of = Id("call", m.cookie)
    BY PacketFields DEF CallPacket
  <2>2. m.cookie # c
    BY <1>1, <2>1
  <2>3. Id("call", m.cookie).cookie = m.cookie /\ Id("call", c).cookie = c
    BY DEF Id
  <2> QED
    BY <2>1, <2>2, <2>3
<1>3. RequestPacket(n) \cap RequestFor(c) = {}
  BY <1>2 DEF RequestPacket, RequestFor
<1>4. AnswerPacket(n) \cap AnswerTo(c, call) = {}
  <2>1. Id("call", c).kind = "call"
    BY DEF Id
  <2> QED
    BY <1>2, <2>1 DEF AnswerPacket, AnswerTo
<1> DEFINE R == RequestPacket(n)
           A == AnswerPacket(n)
           Q == RequestFor(c)
           S == AnswerTo(c, call)
<1>5. to_server \in Seq(R) /\ from_server \in Seq(A) /\ R \cap Q = {} /\ A \cap S = {}
  BY <1>3, <1>4 DEF SocketInv
<1> HIDE DEF R, A, Q, S
<1>6. None(to_server, Q) /\ None(from_server, S)
  <2>1. /\ \A i \in DOMAIN to_server : to_server[i] \in R
        /\ \A i \in DOMAIN from_server : from_server[i] \in A
    BY <1>5
  <2> QED
    BY <1>5, <2>1 DEF None
<1>7. AtMostOne(to_server, Q) /\ AtMostOne(from_server, S) /\ None(to_server, WrongRequest(c, call))
  BY <1>6 DEF None, AtMostOne, WrongRequest, Q
<1>8. Unrequested(c)' /\ Unanswered(c, call)' /\ Unset(c)'
  BY <1>1, <1>6 DEF Unrequested, Unanswered, Unset, Q, S
<1>9. Untargeted(c)' /\ OneTarget(c)'
  BY <1>1, <1>2 DEF Untargeted, OneTarget, SocketInv
<1>10. ASSUME NEW u \in Threads, Calling(u, c)' PROVE u = t
  <2> SUFFICES ASSUME u # t PROVE FALSE
    OBVIOUS
  <2>1. thread'[u] = thread[u] /\ thread[u].cookie = c /\ InCall(u)
    BY <1>1, <1>10 DEF Calling, InCall, TypeOK
  <2>2. thread[u].cookie < n
    BY <2>1 DEF CallParts, ThreadInv
  <2> QED
    BY <1>1, <2>1, <2>2
<1>11. \A u \in Threads : Starting(u, c)' => u = t
  BY <1>10 DEF Starting, Calling, InCall
<1>12. /\ AtMostOne(to_server', RequestFor(c)) /\ None(to_server', WrongRequest(c, call))
       /\ AtMostOne(from_server', AnswerTo(c, call))
  BY <1>1, <1>7 DEF Q, S
<1> QED
  BY <1>8, <1>9, <1>10, <1>11, <1>12 DEF PlaceInv

(* QueueMessage sends the only request of the call.                        *)
LEMMA RequestPlace ==
  ASSUME TypeOK, CallParts, NEW t \in Threads, NEW c \in Nat, NEW call \in Call,
         PlaceInv(c, call), Starting(t, c), thread[t].call = call,
         to_server' = Append(to_server, Send(call.type, c, TRUE, Id("call", c))),
         thread' = [thread EXCEPT ![t].pc = "waiting"],
         UNCHANGED <<from_server, at_target, promise>>
  PROVE  PlaceInv(c, call)'
<1> DEFINE m == Send(call.type, c, TRUE, Id("call", c))
           Q == RequestFor(c)
           W == WrongRequest(c, call)
<1>1. m \in Packet /\ m.type = call.type
  BY DEF Send, Packet, Id, Ids, Call, MessageType
<1>2. to_server \in Seq(Packet) /\ None(to_server, Q) /\ None(to_server, W)
  BY DEF TypeOK, PlaceInv, Unrequested
<1>3. m \notin W
  BY <1>1 DEF WrongRequest
<1>4. to_server' = Append(to_server, m)
  OBVIOUS
<1> HIDE DEF m, Q, W
<1>5. AtMostOne(to_server', Q) /\ None(to_server', W)
  <2>1. AtMostOne(Append(to_server, m), Q)
    BY <1>1, <1>2, AppendPlace
  <2>2. None(Append(to_server, m), W)
    BY <1>1, <1>2, <1>3, AppendPlace
  <2> QED
    BY <1>4, <2>1, <2>2
<1>6. /\ Untargeted(c)' /\ OneTarget(c)' /\ Unanswered(c, call)' /\ Unset(c)'
      /\ AtMostOne(from_server', AnswerTo(c, call)) /\ ~call.one_way
  BY DEF PlaceInv, Untargeted, OneTarget, Unanswered, Unset
<1>7. \A u \in Threads : ~Starting(u, c)'
  <2>1. thread'[t].pc = "waiting" /\ \A u \in Threads \ {t} : thread'[u] = thread[u]
    BY DEF TypeOK, ThreadState
  <2>2. \A u \in Threads \ {t} : ~Calling(u, c)
    BY DEF PlaceInv
  <2> QED
    BY <2>1, <2>2 DEF Starting, Calling, InCall
<1> QED
  BY <1>5, <1>6, <1>7 DEF PlaceInv, Q, W

(* OnNewMessage takes the answer out of the socket when it sets the        *)
(* promise.                                                                *)
LEMMA AnswerPlace ==
  ASSUME TypeOK, NEW c \in Nat, NEW call \in Call, PlaceInv(c, call),
         from_server # << >>, Head(from_server) \in AnswerTo(c, call),
         from_server' = Tail(from_server), UNCHANGED <<to_server, at_target, thread>>
  PROVE  PlaceInv(c, call)' /\ Unset(c)
<1> DEFINE S == AnswerTo(c, call)
<1>1. from_server \in Seq(Packet) /\ AtMostOne(from_server, S) /\ Head(from_server) \in S
  BY DEF TypeOK, PlaceInv
<1> HIDE DEF S
<1>2. ~None(from_server, S) /\ None(from_server', S) /\ AtMostOne(from_server', S)
  BY <1>1, TailPlace
<1>3. ~Unanswered(c, call) /\ Unanswered(c, call)' /\ AtMostOne(from_server', AnswerTo(c, call))
  BY <1>2 DEF Unanswered, S
<1>4. /\ Unrequested(c)' = Unrequested(c) /\ Untargeted(c)' = Untargeted(c)
      /\ OneTarget(c)' = OneTarget(c)
      /\ \A t \in Threads : Starting(t, c)' = Starting(t, c)
  BY DEF Unrequested, Untargeted, OneTarget, Starting
<1>5. Unrequested(c) /\ Untargeted(c) /\ Unset(c) /\ \A t \in Threads : ~Starting(t, c)
  BY <1>3 DEF PlaceInv
<1>6. AtMostOne(to_server', RequestFor(c)) /\ None(to_server', WrongRequest(c, call))
  BY DEF PlaceInv
<1>7. OneTarget(c) /\ ~call.one_way
  BY DEF PlaceInv
<1> QED
  BY <1>3, <1>4, <1>5, <1>6, <1>7 DEF PlaceInv

(* The server takes the request of a call: it answers it at once, or       *)
(* acknowledges the delivery and leaves it with the target.                *)
LEMMA ServedPlace ==
  ASSUME TypeOK, NEW c \in Nat, NEW call \in Call, PlaceInv(c, call),
         NEW m \in Packet, NEW ok \in BOOLEAN,
         to_server # << >>, Head(to_server) \in RequestFor(c),
         m.type = Head(to_server).type, m.cookie = c, m.of = Id("call", c),
         to_server' = Tail(to_server),
         from_server' = Append(from_server, Send("Status", c, ok, m.of)),
         at_target' = IF ok /\ m.type = "Transaction" THEN at_target \cup {m} ELSE at_target,
         UNCHANGED <<promise, thread>>
  PROVE  PlaceInv(c, call)'
<1> DEFINE Q == RequestFor(c)
           W == WrongRequest(c, call)
           S == AnswerTo(c, call)
           e == Send("Status", c, ok, m.of)
<1>1. /\ to_server \in Seq(Packet) /\ AtMostOne(to_server, Q) /\ None(to_server, W)
      /\ Head(to_server) \in Q
  BY DEF TypeOK, PlaceInv
<1>2. m.type = call.type
  <2> HIDE DEF W
  <2>1. Head(to_server) \notin W
    BY <1>1, TailPlace
  <2> QED
    BY <2>1 DEF W, WrongRequest
<1>3. None(to_server', Q) /\ AtMostOne(to_server', Q) /\ None(to_server', W) /\ ~None(to_server, Q)
  <2> HIDE DEF Q, W
  <2> QED
    BY <1>1, TailPlace
<1>4. Unrequested(c)' /\ ~Unrequested(c)
  BY <1>3 DEF Unrequested
<1>5. /\ Untargeted(c) /\ Unanswered(c, call) /\ Unset(c) /\ ~call.one_way
      /\ \A t \in Threads : ~Starting(t, c)
  BY <1>4 DEF PlaceInv
<1>6. Unset(c)' /\ \A t \in Threads : ~Starting(t, c)'
  BY <1>5 DEF Unset, Starting
<1>7. e \in Packet /\ e.of = Id("call", c) /\ e.type = "Status" /\ e.ok = ok
  BY PacketFields DEF Send, Packet, MessageType
<1>8. from_server' = Append(from_server, e) /\ from_server \in Seq(Packet) /\ None(from_server, S)
  BY <1>5 DEF TypeOK, Unanswered
<1>9. AtMostOne(from_server', S)
  <2> HIDE DEF S, e
  <2> QED
    BY <1>7, <1>8, AppendPlace
<1>10. CASE ok /\ m.type = "Transaction"
  <2>1. e \notin S
    BY <1>2, <1>5, <1>7, <1>10 DEF AnswerTo, IsAcknowledgement
  <2>2. None(from_server', S)
    <3> HIDE DEF S, e
    <3> QED
      BY <1>7, <1>8, <2>1, AppendPlace
  <2>3. Unanswered(c, call)'
    BY <2>2 DEF Unanswered
  <2>4. OneTarget(c)'
    BY <1>5, <1>10 DEF Untargeted, OneTarget
  <2> QED
    BY <1>2, <1>3, <1>4, <1>5, <1>6, <1>9, <1>10, <2>3, <2>4 DEF PlaceInv
<1>11. CASE ~(ok /\ m.type = "Transaction")
  <2>1. Untargeted(c)' /\ OneTarget(c)'
    BY <1>5, <1>11 DEF Untargeted, OneTarget
  <2> QED
    BY <1>3, <1>4, <1>5, <1>6, <1>9, <2>1 DEF PlaceInv
<1> QED
  BY <1>10, <1>11

(* The target of a call answers it once.                                   *)
LEMMA TargetPlace ==
  ASSUME TypeOK, NEW c \in Nat, NEW call \in Call, PlaceInv(c, call),
         NEW m \in at_target, m.cookie = c, NEW e \in Packet,
         from_server' = Append(from_server, e), at_target' = at_target \ {m},
         UNCHANGED <<to_server, promise, thread>>
  PROVE  PlaceInv(c, call)'
<1> DEFINE S == AnswerTo(c, call)
<1>1. ~Untargeted(c) /\ Untargeted(c)' /\ OneTarget(c)'
  BY DEF Untargeted, OneTarget, PlaceInv
<1>2. /\ Unanswered(c, call) /\ Unset(c) /\ Unrequested(c) /\ ~call.one_way
      /\ \A t \in Threads : ~Starting(t, c)
  BY <1>1 DEF PlaceInv
<1>3. Unset(c)' /\ Unrequested(c)' /\ \A t \in Threads : ~Starting(t, c)'
  BY <1>2 DEF Unset, Unrequested, Starting
<1>4. from_server \in Seq(Packet) /\ None(from_server, S)
  BY <1>2 DEF TypeOK, Unanswered
<1>5. AtMostOne(from_server', S)
  <2> HIDE DEF S
  <2> QED
    BY <1>4, AppendPlace
<1>6. AtMostOne(to_server', RequestFor(c)) /\ None(to_server', WrongRequest(c, call))
  BY DEF PlaceInv
<1> QED
  BY <1>1, <1>2, <1>3, <1>5, <1>6 DEF PlaceInv

(* Steps that do not touch the places of any call.                         *)
LEMMA FramePlaces ==
  ASSUME TypeOK, PlacesInv,
         \A c \in DOMAIN pending_calls_' :
           c \in DOMAIN pending_calls_ /\ pending_calls_'[c] = pending_calls_[c],
         \/ UNCHANGED to_server
         \/ \E e \in Packet : /\ e.type \in {"Status", "TransactionReply"}
                              /\ to_server' = Append(to_server, e),
         \/ UNCHANGED from_server
         \/ \E e \in Packet : /\ e.of.kind # "call"
                              /\ from_server' = Append(from_server, e),
         UNCHANGED <<at_target, promise, thread>>
  PROVE  PlacesInv'
<1> SUFFICES ASSUME NEW c \in Nat, NEW call \in Call,
                    c \in DOMAIN pending_calls_', pending_calls_'[c] = call
             PROVE  PlaceInv(c, call)'
  BY DEF PlacesInv
<1>1. PlaceInv(c, call)
  BY DEF PlacesInv
<1>2. MovesWithout(to_server, to_server', RequestFor(c))
  BY DEF MovesWithout, RequestFor
<1>3. MovesWithout(from_server, from_server', AnswerTo(c, call))
  <2>1. Id("call", c).kind = "call"
    BY DEF Id
  <2> QED
    BY <2>1 DEF MovesWithout, AnswerTo
<1>4. /\ Unset(c) => Unset(c)'
      /\ \A t \in Threads : Starting(t, c)' => Starting(t, c)
      /\ \A t \in Threads : Calling(t, c)' => Calling(t, c)
  BY DEF Unset, Starting, Calling, InCall
<1> QED
  BY <1>1, <1>2, <1>3, <1>4, OtherCallMoves

(* The steps of application threads.                                       *)
LEMMA ApplicationPlaces ==
  ASSUME TwoWayOnly, TypeOK, CallParts, SocketInv, PlacesInv, ApplicationStep
  PROVE  PlacesInv'
<1>1. CASE SetContextObject
  BY <1>1, FramePlaces DEF SetContextObject, server_vars
<1>2. ASSUME NEW t \in Threads, NEW call \in Calls \cup NestedCalls, StartCall(t, call)
      PROVE  PlacesInv'
  <2>1. call \in Call /\ ~call.one_way
    BY CallsAssumption DEF TwoWayOnly
  <2> DEFINE k == CookieFor(call)
  <2>2. /\ k \in Nat /\ k \notin DOMAIN pending_calls_
        /\ thread' = [thread EXCEPT ![t] = [pc |-> "started", call |-> call, cookie |-> k]]
        /\ pending_calls_' = Insert(pending_calls_, k, call)
        /\ UNCHANGED <<to_server, from_server, at_target, promise>>
    BY <1>2, <2>1, StartCallParts DEF StartCall, server_vars
  <2> SUFFICES ASSUME NEW c \in Nat, NEW cc \in Call,
                      c \in DOMAIN pending_calls_', pending_calls_'[c] = cc
               PROVE  PlaceInv(c, cc)'
    BY DEF PlacesInv
  <2>3. CASE c = k
    <3>1. cc = call
      BY <2>2, <2>3 DEF Insert
    <3> QED
      BY <1>2, <2>1, <2>3, <3>1, NewCallPlace
  <2>4. CASE c # k
    <3>1. c \in DOMAIN pending_calls_ /\ pending_calls_[c] = cc
      BY <2>2, <2>4 DEF Insert
    <3>2. PlaceInv(c, cc)
      BY <3>1 DEF PlacesInv
    <3> HIDE DEF k
    <3>3. thread'[t].cookie # c /\ \A u \in Threads : u # t => thread'[u] = thread[u]
      BY <2>2, <2>4 DEF TypeOK
    <3>4. /\ Unset(c) => Unset(c)'
          /\ \A u \in Threads : Starting(u, c)' => Starting(u, c)
          /\ \A u \in Threads : Calling(u, c)' => Calling(u, c)
      BY <2>2, <3>3 DEF Unset, Starting, Calling, InCall
    <3>5. /\ MovesWithout(to_server, to_server', RequestFor(c))
          /\ MovesWithout(from_server, from_server', AnswerTo(c, cc))
          /\ \A m \in at_target' : m.cookie = c => m \in at_target
      BY <2>2 DEF MovesWithout
    <3> QED
      BY <3>2, <3>4, <3>5, OtherCallMoves
  <2> QED
    BY <2>3, <2>4
<1>3. ASSUME NEW t \in Threads, QueueMessage(t) \/ Return(t)
      PROVE  PlacesInv'
  <2> DEFINE k == thread[t].cookie
             m == Send(thread[t].call.type, k, TRUE, Id("call", k))
  <2>1. /\ UNCHANGED <<pending_calls_, promise, from_server, at_target>>
        /\ \E pc \in {"threw", "waiting", "returned"} : thread' = [thread EXCEPT ![t].pc = pc]
        /\ thread[t].pc \in {"started", "waiting"}
        /\ \/ to_server' = to_server
           \/ /\ to_server' = Append(to_server, m) /\ thread[t].pc = "started"
              /\ thread' = [thread EXCEPT ![t].pc = "waiting"]
    BY <1>3 DEF QueueMessage, Return, server_vars
  <2>2. k \in Nat /\ thread[t].call \in Call
    BY DEF TypeOK, ThreadState
  <2>3. m \in Packet /\ m.cookie = k
    BY <2>2 DEF Send, Packet, Id, Ids, MessageType, Call
  <2> SUFFICES ASSUME NEW c \in Nat, NEW cc \in Call,
                      c \in DOMAIN pending_calls_', pending_calls_'[c] = cc
               PROVE  PlaceInv(c, cc)'
    BY DEF PlacesInv
  <2>4. c \in DOMAIN pending_calls_ /\ pending_calls_[c] = cc /\ PlaceInv(c, cc)
    BY <2>1 DEF PlacesInv
  <2>5. CASE c = k /\ to_server' = Append(to_server, m) /\ thread[t].pc = "started"
             /\ thread' = [thread EXCEPT ![t].pc = "waiting"]
    <3>1. thread[t].call = cc
      BY <2>4, <2>5 DEF CallParts, ThreadInv, InCall
    <3>2. Starting(t, c)
      BY <2>5 DEF Starting
    <3>3. to_server' = Append(to_server, Send(cc.type, c, TRUE, Id("call", c)))
      BY <2>5, <3>1
    <3> QED
      BY <2>1, <2>4, <2>5, <3>1, <3>2, <3>3, RequestPlace
  <2>6. CASE ~(c = k /\ to_server' = Append(to_server, m) /\ thread[t].pc = "started"
               /\ thread' = [thread EXCEPT ![t].pc = "waiting"])
    <3> HIDE DEF m
    <3>1. MovesWithout(to_server, to_server', RequestFor(c))
      <4>1. CASE to_server' = to_server
        BY <4>1 DEF MovesWithout
      <4>2. CASE to_server' # to_server
        <5>1. c # k /\ to_server' = Append(to_server, m)
          BY <2>1, <2>6, <4>2
        <5>2. m \notin RequestFor(c)
          BY <2>3, <5>1 DEF RequestFor
        <5> QED
          BY <2>3, <5>1, <5>2 DEF MovesWithout
      <4> QED
        BY <4>1, <4>2
    <3>2. /\ \A u \in Threads : thread'[u].cookie = thread[u].cookie
          /\ \A u \in Threads : thread'[u].pc = "started" => thread[u].pc = "started"
          /\ \A u \in Threads : InCall(u)' => InCall(u)
      BY <2>1 DEF TypeOK, ThreadState, InCall
    <3>3. /\ Unset(c) => Unset(c)'
          /\ \A u \in Threads : Starting(u, c)' => Starting(u, c)
          /\ \A u \in Threads : Calling(u, c)' => Calling(u, c)
      BY <2>1, <3>2 DEF Unset, Starting, Calling
    <3>4. /\ MovesWithout(from_server, from_server', AnswerTo(c, cc))
          /\ \A x \in at_target' : x.cookie = c => x \in at_target
      BY <2>1 DEF MovesWithout
    <3> QED
      BY <2>4, <3>1, <3>3, <3>4, OtherCallMoves
  <2> QED
    BY <2>5, <2>6
<1> QED
  BY <1>1, <1>2, <1>3 DEF ApplicationStep

(* OnNewMessage: no promise is set twice.                                  *)
LEMMA OnNewMessagePlaces ==
  ASSUME CookiesApart, TypeOK, SocketInv, KeptInv, PlacesInv, OnNewMessage
  PROVE  PlacesInv' /\ UNCHANGED <<reading, should_exit_>>
<1> DEFINE A == AnswerPacket(next_cookie_)
<1>1. /\ UNCHANGED <<pending_calls_, thread, to_server, at_target, should_exit_>>
      /\ from_server # << >> /\ from_server' = Tail(from_server)
  BY DEF OnNewMessage, server_vars
<1>2. A \subseteq Packet /\ from_server \in Seq(A)
  BY CallPackets DEF SocketInv
<1> HIDE DEF A
<1>3. PICK m \in A, msg \in Packet :
        /\ m = Head(from_server)
        /\ msg.type = m.type /\ msg.ok = m.ok /\ msg.of = m.of
        /\ msg.cookie <= m.cookie /\ (m.cookie < 256 => msg.cookie = m.cookie)
        /\ Dispatch(msg, msg.cookie)
  BY <1>2, OnNewMessageReads
<1> DEFINE k == msg.cookie
<1>4. ASSUME Resolve(msg, k) \/ ResolveAgain(msg, k), msg.type # "LogEntry"
      PROVE  /\ k \in DOMAIN pending_calls_ /\ k \in Nat /\ pending_calls_[k] \in Call
             /\ m \in AnswerTo(k, pending_calls_[k])
  <2>1. k \in DOMAIN pending_calls_ /\ ~IsAcknowledgement(msg, pending_calls_[k])
    BY <1>4 DEF Resolve, ResolveAgain
  <2>2. k >= FirstCookie /\ k \in Nat /\ m.cookie \in Nat
    BY <1>2, <2>1, PacketFields, BoundsAssumption DEF KeptInv
  <2>3. ~(m.cookie < FirstCookie)
    BY <1>3, <2>2, BoundsAssumption
  <2>4. m \in CallPacket(next_cookie_)
    BY <1>3, <1>4, <2>3 DEF A, AnswerPacket
  <2>5. m.of = Id("call", m.cookie) /\ m.cookie < 256
    BY <2>2, <2>4, BoundsAssumption DEF CallPacket, CookiesApart
  <2>6. m.of = Id("call", k)
    BY <1>3, <2>5
  <2>7. ~IsAcknowledgement(m, pending_calls_[k])
    BY <1>3, <2>1 DEF IsAcknowledgement
  <2>8. pending_calls_[k] \in Call
    BY <2>1 DEF TypeOK, IsMap
  <2> QED
    BY <1>2, <2>1, <2>2, <2>6, <2>7, <2>8 DEF AnswerTo
<1>5. ASSUME Resolve(msg, k) \/ ResolveAgain(msg, k), msg.type # "LogEntry"
      PROVE  \E d \in Nat, call \in Call :
               d = k /\ call = pending_calls_[k] /\ PlaceInv(d, call)' /\ Unset(d)
  <2>1. PICK d \in Nat, call \in Call : d = k /\ call = pending_calls_[k]
    BY <1>4, <1>5
  <2>2. PlaceInv(d, call) /\ Head(from_server) \in AnswerTo(d, call)
    BY <1>3, <1>4, <1>5, <2>1 DEF PlacesInv
  <2>3. PlaceInv(d, call)' /\ Unset(d)
    BY <1>1, <2>2, AnswerPlace
  <2> QED
    BY <2>1, <2>3
<1>6. UNCHANGED reading
  <2>1. ~(msg.type # "LogEntry" /\ ResolveAgain(msg, k))
    BY <1>5 DEF ResolveAgain, Unset
  <2> QED
    BY <1>3, <2>1 DEF Dispatch, SkipLogEntry, Resolve, SkipAcknowledgement,
       PostToContextObject, PushIncoming
<1>7. \/ UNCHANGED promise
      \/ /\ msg.type # "LogEntry" /\ Resolve(msg, k)
         /\ DOMAIN promise' = DOMAIN promise \cup {k}
  BY <1>3 DEF Dispatch, SkipLogEntry, SkipAcknowledgement, ResolveAgain,
     PostToContextObject, PushIncoming, Resolve, Insert
<1>8. ASSUME NEW c \in Nat, NEW call \in Call,
             c \in DOMAIN pending_calls_', pending_calls_'[c] = call
      PROVE  PlaceInv(c, call)'
  <2>1. c \in DOMAIN pending_calls_ /\ pending_calls_[c] = call /\ PlaceInv(c, call)
    BY <1>1, <1>8 DEF PlacesInv
  <2>2. CASE msg.type # "LogEntry" /\ Resolve(msg, k) /\ c = k
    BY <1>5, <2>1, <2>2
  <2>3. CASE ~(msg.type # "LogEntry" /\ Resolve(msg, k) /\ c = k)
    <3>1. Unset(c) => Unset(c)'
      BY <1>7, <2>3 DEF Unset
    <3>2. /\ MovesWithout(to_server, to_server', RequestFor(c))
          /\ MovesWithout(from_server, from_server', AnswerTo(c, call))
          /\ \A x \in at_target' : x.cookie = c => x \in at_target
          /\ \A t \in Threads : Starting(t, c)' => Starting(t, c)
          /\ \A t \in Threads : Calling(t, c)' => Calling(t, c)
      BY <1>1 DEF MovesWithout, Starting, Calling, InCall
    <3> QED
      BY <2>1, <3>1, <3>2, OtherCallMoves
  <2> QED
    BY <2>2, <2>3
<1>9. PlacesInv'
  BY <1>8 DEF PlacesInv
<1> QED
  BY <1>1, <1>6, <1>9

(* The server and the targets answer a call in one place.                  *)
LEMMA ServerPlaces ==
  ASSUME CookiesApart, TypeOK, SocketInv, PlacesInv, ServerStep
  PROVE  PlacesInv'
<1>1. UNCHANGED <<pending_calls_, promise, thread>>
  BY DEF ServerStep, ServerProcessesMessage, TargetReplies, ServerPostsTransaction,
     ServerSendsUnasked, client_vars
<1>2. CASE ServerPostsTransaction \/ ServerSendsUnasked
  <2>1. UNCHANGED <<to_server, at_target>>
    BY <1>2 DEF ServerPostsTransaction, ServerSendsUnasked
  <2>2. \E kind \in {"Transaction", "DeadBinder", "LogEntry"}, c \in Nat :
          from_server' = Append(from_server, Send(kind, c, TRUE, Id(kind, c)))
    <3>1. 0 \in Nat /\ next_transaction_cookie_ \in Nat
      BY DEF TypeOK
    <3>2. CASE ServerPostsTransaction
      BY <3>1, <3>2 DEF ServerPostsTransaction
    <3>3. CASE ServerSendsUnasked
      BY <3>1, <3>3 DEF ServerSendsUnasked
    <3> QED
      BY <1>2, <3>2, <3>3
  <2>3. ASSUME NEW kind \in {"Transaction", "DeadBinder", "LogEntry"}, NEW c \in Nat
        PROVE  /\ Send(kind, c, TRUE, Id(kind, c)) \in Packet
               /\ Send(kind, c, TRUE, Id(kind, c)).of.kind # "call"
    BY DEF Send, Packet, Id, Ids, MessageType
  <2>4. \E e \in Packet : e.of.kind # "call" /\ from_server' = Append(from_server, e)
    BY <2>2, <2>3
  <2> QED
    BY <1>1, <2>1, <2>4, FramePlaces
<1>3. ASSUME NEW c \in Nat, NEW call \in Call, c \in DOMAIN pending_calls_',
             pending_calls_'[c] = call
      PROVE  PlaceInv(c, call)
  BY <1>1, <1>3 DEF PlacesInv
<1>4. ASSUME NEW c \in Nat
      PROVE  /\ Unset(c) => Unset(c)'
             /\ \A t \in Threads : Starting(t, c)' => Starting(t, c)
             /\ \A t \in Threads : Calling(t, c)' => Calling(t, c)
  BY <1>1 DEF Unset, Starting, Calling, InCall
<1>5. ASSUME NEW k \in Nat, NEW c \in Nat, k # c, NEW call \in Call,
             NEW type \in MessageType, NEW ok \in BOOLEAN
      PROVE  /\ Send(type, k, ok, Id("call", k)) \in Packet
             /\ Send(type, k, ok, Id("call", k)) \notin AnswerTo(c, call)
  BY <1>5 DEF Send, Packet, Id, Ids, AnswerTo
<1>6. ASSUME NEW m \in at_target, TargetReplies(m)
      PROVE  PlacesInv'
  <2>1. m \in Packet /\ m.cookie \in Nat /\ m.of = Id("call", m.cookie)
    BY PacketFields DEF TypeOK, SocketInv, CallPacket
  <2> DEFINE e == Send("TransactionReply", m.cookie, TRUE, m.of)
  <2>2. /\ from_server' = Append(from_server, e) /\ at_target' = at_target \ {m}
        /\ UNCHANGED to_server
    BY <1>6 DEF TargetReplies, Answer
  <2>3. e \in Packet
    BY <2>1, PacketFields DEF Send, Packet, MessageType
  <2> SUFFICES ASSUME NEW c \in Nat, NEW call \in Call,
                      c \in DOMAIN pending_calls_', pending_calls_'[c] = call
               PROVE  PlaceInv(c, call)'
    BY DEF PlacesInv
  <2>4. CASE c = m.cookie
    <3> HIDE DEF e
    <3> QED
      BY <1>1, <1>3, <2>2, <2>3, <2>4, TargetPlace
  <2>5. CASE c # m.cookie
    <3>1. e \notin AnswerTo(c, call)
      <4>1. "TransactionReply" \in MessageType
        BY DEF MessageType
      <4> QED
        BY <1>5, <2>1, <2>5, <4>1
    <3> HIDE DEF e
    <3>2. /\ MovesWithout(to_server, to_server', RequestFor(c))
          /\ MovesWithout(from_server, from_server', AnswerTo(c, call))
          /\ \A x \in at_target' : x.cookie = c => x \in at_target
      BY <2>2, <2>3, <3>1 DEF MovesWithout
    <3> QED
      BY <1>3, <1>4, <3>2, OtherCallMoves
  <2> QED
    BY <2>4, <2>5
<1>7. CASE ServerProcessesMessage
  <2> DEFINE R == RequestPacket(next_cookie_)
  <2>1. R \subseteq Packet /\ to_server \in Seq(R)
    BY CallPackets DEF SocketInv
  <2> HIDE DEF R
  <2>2. PICK m \in R, msg \in Packet :
          /\ m = Head(to_server) /\ msg.type = m.type /\ msg.of = m.of
          /\ (m.cookie < 256 => msg.cookie = m.cookie)
          /\ ServerRefuses(msg) \/ ServerAcknowledges(msg) \/ ServerTakesAnswer(msg)
    BY <1>7, <2>1, ServerReads
  <2>3. to_server # << >> /\ to_server' = Tail(to_server)
    BY <1>7 DEF ServerProcessesMessage
  <2> SUFFICES ASSUME NEW c \in Nat, NEW call \in Call,
                      c \in DOMAIN pending_calls_', pending_calls_'[c] = call
               PROVE  PlaceInv(c, call)'
    BY DEF PlacesInv
  <2>4. MovesWithout(to_server, to_server', RequestFor(c)) /\ PlaceInv(c, call)
    BY <1>3, <2>3 DEF MovesWithout
  <2>5. CASE ServerTakesAnswer(msg)
    <3>1. /\ MovesWithout(from_server, from_server', AnswerTo(c, call))
          /\ \A x \in at_target' : x.cookie = c => x \in at_target
      BY <2>5 DEF ServerTakesAnswer, MovesWithout
    <3> QED
      BY <1>4, <2>4, <3>1, OtherCallMoves
  <2>6. CASE ServerRefuses(msg) \/ ServerAcknowledges(msg)
    <3>1. msg.type \in {"Acquire", "Transaction"}
      BY <2>6 DEF ServerRefuses, ServerAcknowledges
    <3>2. m \in CallPacket(next_cookie_)
      BY <2>2, <3>1 DEF R, RequestPacket
    <3>3. /\ m.cookie \in Nat /\ m.cookie < 256 /\ m.of = Id("call", m.cookie)
      BY <2>1, <3>2, PacketFields, BoundsAssumption DEF CallPacket, CookiesApart
    <3>4. msg.cookie = m.cookie /\ msg.of = Id("call", msg.cookie) /\ msg.cookie \in Nat
      BY <2>2, <3>3
    <3>5. PICK ok \in BOOLEAN :
            /\ from_server' = Append(from_server, Send("Status", msg.cookie, ok, msg.of))
            /\ at_target' = IF ok /\ msg.type = "Transaction" THEN at_target \cup {msg}
                                                              ELSE at_target
      <4>1. CASE ServerRefuses(msg)
        <5> WITNESS FALSE \in BOOLEAN
        <5> QED
          BY <4>1 DEF ServerRefuses
      <4>2. CASE ServerAcknowledges(msg)
        <5> WITNESS TRUE \in BOOLEAN
        <5> QED
          BY <4>2 DEF ServerAcknowledges
      <4> QED
        BY <2>6, <4>1, <4>2
    <3>6. CASE c = msg.cookie
      <4>1. Head(to_server) \in RequestFor(c)
        BY <2>1, <2>2, <3>1, <3>4, <3>6 DEF RequestFor
      <4> QED
        BY <1>1, <2>2, <2>3, <2>4, <3>4, <3>5, <3>6, <4>1, ServedPlace
    <3>7. CASE c # msg.cookie
      <4> DEFINE e == Send("Status", msg.cookie, ok, msg.of)
      <4>1. e \in Packet /\ e \notin AnswerTo(c, call)
        <5>1. "Status" \in MessageType
          BY DEF MessageType
        <5> QED
          BY <1>5, <3>4, <3>7, <5>1
      <4>2. from_server' = Append(from_server, e)
        BY <3>5
      <4> HIDE DEF e
      <4>3. /\ MovesWithout(from_server, from_server', AnswerTo(c, call))
            /\ \A x \in at_target' : x.cookie = c => x \in at_target
        BY <3>5, <3>7, <4>1, <4>2 DEF MovesWithout
      <4> QED
        BY <1>4, <2>4, <4>3, OtherCallMoves
    <3> QED
      BY <3>6, <3>7
  <2> QED
    BY <2>2, <2>5, <2>6
<1> QED
  BY <1>2, <1>6, <1>7 DEF ServerStep

(* Every step keeps a two-way call in one place, and the reader reading.   *)
LEMMA NextPlaces ==
  ASSUME CookiesApart, TwoWayOnly, TypeOK, CallParts, SocketInv, KeptInv,
         PlacesInv, ReaderKeepsReading, [Next]_vars
  PROVE  PlacesInv' /\ ReaderKeepsReading'
<1>1. CASE ApplicationStep
  <2>1. UNCHANGED <<reading, should_exit_>>
    BY <1>1 DEF ApplicationStep, StartCall, QueueMessage, Return, SetContextObject
  <2> QED
    BY <1>1, <2>1, ApplicationPlaces DEF ReaderKeepsReading
<1>2. ASSUME UNCHANGED <<from_server, at_target, promise, thread>>,
             \A c \in DOMAIN pending_calls_' :
               c \in DOMAIN pending_calls_ /\ pending_calls_'[c] = pending_calls_[c],
             \/ UNCHANGED to_server
             \/ \E type \in {"Status", "TransactionReply"}, msg \in Packet :
                  to_server' = Append(to_server, Answer(type, msg))
      PROVE  PlacesInv'
  <2>1. ASSUME NEW type \in {"Status", "TransactionReply"}, NEW msg \in Packet
        PROVE  Answer(type, msg) \in Packet /\ Answer(type, msg).type = type
    BY PacketFields DEF Answer, Send, Packet, MessageType
  <2>2. \/ UNCHANGED to_server
        \/ \E e \in Packet : /\ e.type \in {"Status", "TransactionReply"}
                             /\ to_server' = Append(to_server, e)
    BY <1>2, <2>1
  <2> QED
    BY <1>2, <2>2, FramePlaces
<1>3. CASE IoStep
  <2>1. CASE OnNewMessage
    BY <2>1, OnNewMessagePlaces DEF ReaderKeepsReading
  <2>2. CASE Terminate \/ HandleContextObjectMessage
    BY <1>2, <2>2 DEF Terminate, HandleContextObjectMessage, server_vars, ReaderKeepsReading
  <2>3. CASE FinishCall
    BY <1>2, <2>3 DEF FinishCall, Erase, server_vars, ReaderKeepsReading
  <2>4. CASE ReplyFromContextObject
    <3>1. serving[Strand] \in Packet
      BY DEF TypeOK
    <3> QED
      BY <1>2, <2>4, <3>1 DEF ReplyFromContextObject, WriteData, server_vars,
         ReaderKeepsReading
  <2> QED
    BY <1>3, <2>1, <2>2, <2>3, <2>4 DEF IoStep
<1>4. CASE PoolStep
  <2> SUFFICES ASSUME NEW w \in Workers, DequeueMessage(w) \/ ExecuteCommand(w)
               PROVE  PlacesInv' /\ ReaderKeepsReading'
    BY <1>4 DEF PoolStep
  <2>1. serving[w] \in Packet
    BY DEF TypeOK
  <2>2. UNCHANGED <<from_server, at_target, promise, thread, pending_calls_, reading,
                    should_exit_>>
    BY DEF DequeueMessage, ExecuteCommand, server_vars
  <2>3. \/ UNCHANGED to_server
        \/ \E type \in {"Status", "TransactionReply"} :
             to_server' = Append(to_server, Answer(type, serving[w]))
    BY DEF DequeueMessage, ExecuteCommand, WriteData
  <2> QED
    BY <1>2, <2>1, <2>2, <2>3 DEF ReaderKeepsReading
<1>5. CASE ServerStep
  <2>1. UNCHANGED <<reading, should_exit_>>
    BY <1>5 DEF ServerStep, ServerProcessesMessage, TargetReplies,
       ServerPostsTransaction, ServerSendsUnasked, client_vars
  <2> QED
    BY <1>5, <2>1, ServerPlaces DEF ReaderKeepsReading
<1>6. CASE UNCHANGED vars
  BY <1>2, <1>6 DEF vars, client_vars, server_vars, ReaderKeepsReading
<1> QED
  BY <1>1, <1>3, <1>4, <1>5, <1>6 DEF Next

(* As long as clients make two-way calls, the io thread never stops        *)
(* reading while the connection is up: no second answer to a call reaches  *)
(* OnNewMessage while the call is pending, so set_value is never called    *)
(* twice on a promise.  A one-way transaction is excluded: its             *)
(* acknowledgement and the reply of its target are two answers.            *)
THEOREM TheReaderKeepsReading ==
  ASSUME CookiesApart, TwoWayOnly
  PROVE  Spec => []ReaderKeepsReading
<1>1. Init => PlacesInv /\ ReaderKeepsReading
  BY DEF Init, PlacesInv, ReaderKeepsReading, EmptyMap
<1>2. /\ CallInv /\ SocketInv /\ KeptInv /\ PlacesInv /\ ReaderKeepsReading /\ [Next]_vars
      => (PlacesInv /\ ReaderKeepsReading)'
  BY NextPlaces DEF CallInv, CallParts
<1> QED
  BY <1>1, <1>2, AnswerInvariant, PTL DEF Spec
=============================================================================

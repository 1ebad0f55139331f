----------------------------- MODULE ClientCalls -----------------------------
(***************************************************************************)
(* One client process (client_impl.cpp): application threads that call     *)
(* Transact and wait on a promise, the io threads that read the socket and *)
(* run the strand, and the thread pool that executes incoming commands.    *)
(* The server at the other end of the socket is reduced to what it sends   *)
(* this client (server_session.cpp) and to how other clients behave        *)
(* through it.                                                             *)
(*                                                                         *)
(* pending_calls_ is read and written by three kinds of threads without a  *)
(* common lock; each access is one step here.                              *)
(***************************************************************************)
EXTENDS BinderTypes

CONSTANTS
  Callers,           \* application threads
  Workers,           \* threads of StartThreadPool
  Strand,            \* the io thread that runs the tasks of strand_
  Calls,             \* calls the application threads make
  NestedCalls,       \* calls the context object makes while it serves one
  MayServe,          \* whether the application may call SetContextObject
  MayDisconnect,     \* whether the connection may be lost
  FirstCookie,       \* calls made, and finished, before the behaviour starts
  MaxCookies,        \* bound: cookies a client uses
  MaxIncoming,       \* bound: transactions the server posts to the client
  MaxUnasked         \* bound: death notifications and log entries it sends

Call == [type : {"Transaction", "Acquire"}, one_way : BOOLEAN]

(***************************************************************************)
(* A request the server answers with a Status, whichever it is: a          *)
(* reference, a registration for a death, or a role such as the monitor's. *)
(***************************************************************************)
StatusCall == [type |-> "Acquire", one_way |-> FALSE]

ASSUME ThreadsAssumption ==
  /\ Strand \notin Callers \cup Workers
  /\ Callers \cap Workers = {}

ASSUME CallsAssumption ==
  Calls \subseteq Call /\ NestedCalls \subseteq Call

ASSUME FlagsAssumption ==
  MayServe \in BOOLEAN /\ MayDisconnect \in BOOLEAN

ASSUME BoundsAssumption ==
  /\ FirstCookie \in Nat /\ MaxCookies \in Nat
  /\ MaxIncoming \in Nat /\ MaxUnasked \in Nat

VARIABLES
  next_cookie_,
  pending_calls_,   \* cookie -> the call, from StartCall to FinishCall
  promise,          \* cookie -> the message its promise was set to
  strand_,          \* tasks posted to the strand, in order
  in_messages_,     \* messages for the thread pool
  reading,          \* whether a read of the next message is under way
  should_exit_,
  context_obj_,     \* whether there is a context object
  thread,           \* per calling thread: its place in Transact
  serving,          \* per worker, and Strand: the message it executes
  aborted,          \* an exception left a pool thread: std::terminate
  to_server,        \* the two directions of the socket
  from_server,
  at_target,        \* transactions of this client that wait for a reply
  unanswered,       \* pending_transactions_ of this client's session
  next_transaction_cookie_,
  unasked           \* death notifications and log entries sent so far

client_vars ==
  <<next_cookie_, pending_calls_, promise, strand_, in_messages_, reading,
    should_exit_, context_obj_, thread, serving, aborted>>

server_vars == <<at_target, unanswered, next_transaction_cookie_, unasked>>

vars == <<client_vars, to_server, from_server, server_vars>>

-----------------------------------------------------------------------------
(***************************************************************************)
(* A message on the socket.  of says what the sender meant it for: the     *)
(* call (in from_server) or the incoming message (in to_server) it is the  *)
(* answer to.  No step of the code reads of.                               *)
(***************************************************************************)
Nothing == [cookie |-> 0, kind |-> "nothing"]

Id(kind, cookie) == [cookie |-> cookie, kind |-> kind]

Ids == [cookie : Nat, kind : {"nothing", "call", "Transaction", "DeadBinder",
                               "LogEntry"}]

Packet == [type : MessageType, cookie : Nat, ok : BOOLEAN, of : Ids]

Send(type, cookie, ok, of) ==
  [type |-> type, cookie |-> cookie, ok |-> ok, of |-> of]

Threads == Callers \cup {Strand}

Idle == [pc |-> "idle", call |-> StatusCall, cookie |-> 0]

ThreadState ==
  [pc : {"idle", "started", "waiting", "returned", "threw"}, call : Call,
   cookie : Nat]

NoPacket == Send("Unknown", 0, TRUE, Nothing)

Init ==
  /\ next_cookie_ = FirstCookie
  /\ pending_calls_ = EmptyMap
  /\ promise = EmptyMap
  /\ strand_ = << >>
  /\ in_messages_ = << >>
  /\ reading = TRUE
  /\ should_exit_ = FALSE
  /\ context_obj_ = FALSE
  /\ thread = [t \in Threads |-> Idle]
  /\ serving = [w \in Workers \cup {Strand} |-> NoPacket]
  /\ aborted = FALSE
  /\ to_server = << >>
  /\ from_server = << >>
  /\ at_target = {}
  /\ unanswered = {}
  /\ next_transaction_cookie_ = 0
  /\ unasked = 0

(* Types of the variables; a pending call has a cookie that NewCookie gave *)
(* out.                                                                    *)
TypeOK ==
  /\ next_cookie_ \in Nat
  /\ IsMap(pending_calls_, 0 .. next_cookie_ - 1, Call)
  /\ IsMap(promise, 0 .. next_cookie_ - 1, Packet)
  /\ strand_ \in Seq([task : {"FinishCall", "HandleContextObjectMessage"},
                      msg : Packet])
  /\ in_messages_ \in Seq(Packet)
  /\ reading \in BOOLEAN /\ should_exit_ \in BOOLEAN /\ aborted \in BOOLEAN
  /\ context_obj_ \in BOOLEAN /\ (context_obj_ => MayServe)
  /\ thread \in [Threads -> ThreadState]
  /\ serving \in [Workers \cup {Strand} -> Packet]
  /\ to_server \in Seq(Packet) /\ from_server \in Seq(Packet)
  /\ at_target \subseteq Packet /\ unanswered \subseteq Nat
  /\ next_transaction_cookie_ \in 0 .. MaxIncoming
  /\ unasked \in 0 .. MaxUnasked

-----------------------------------------------------------------------------
(***************************************************************************)
(* Calling.                                                                *)
(***************************************************************************)

(***************************************************************************)
(* Transact(handle, ...) takes a cookie that StartCall then replaces.      *)
(***************************************************************************)
CookieFor(call) ==
  IF call.type = "Transaction" THEN next_cookie_ + 1 ELSE next_cookie_

(* A mutant: the cookie of the call is taken, but only one is counted.     *)
StartCall_CountsOnce(t, call) ==
  /\ thread[t].pc \in {"idle", "returned"}
  /\ t = Strand => serving[Strand] # NoPacket
  /\ CookieFor(call) < MaxCookies
  /\ next_cookie_' = next_cookie_ + 1
  /\ IF CookieFor(call) \in DOMAIN pending_calls_
       THEN /\ thread' = [thread EXCEPT ![t].pc = "threw"]
            /\ UNCHANGED pending_calls_
       ELSE /\ thread' = [thread EXCEPT ![t] =
                 [pc |-> "started", call |-> call, cookie |-> CookieFor(call)]]
            /\ pending_calls_' = Insert(pending_calls_, CookieFor(call), call)
  /\ UNCHANGED <<promise, strand_, in_messages_, reading, should_exit_,
                 context_obj_, serving, aborted, to_server, from_server,
                 server_vars>>

StartCall(t, call) ==
  /\ thread[t].pc \in {"idle", "returned"}
  /\ t = Strand => serving[Strand] # NoPacket
  /\ CookieFor(call) < MaxCookies
  /\ next_cookie_' = CookieFor(call) + 1
  /\ IF CookieFor(call) \in DOMAIN pending_calls_
       THEN /\ thread' = [thread EXCEPT ![t].pc = "threw"]
            /\ UNCHANGED pending_calls_
       ELSE /\ thread' = [thread EXCEPT ![t] =
                 [pc |-> "started", call |-> call, cookie |-> CookieFor(call)]]
            /\ pending_calls_' = Insert(pending_calls_, CookieFor(call), call)
  /\ UNCHANGED <<promise, strand_, in_messages_, reading, should_exit_,
                 context_obj_, serving, aborted, to_server, from_server,
                 server_vars>>

(***************************************************************************)
(* QueueMessage, after which the thread waits on its promise.  It throws   *)
(* when the client has given up the connection: the call stays in          *)
(* pending_calls_, and a transaction the context object was serving gets   *)
(* no reply.                                                               *)
(***************************************************************************)
QueueMessage(t) ==
  /\ thread[t].pc = "started"
  /\ IF should_exit_
       THEN /\ thread' = [thread EXCEPT ![t].pc = "threw"]
            /\ serving' = IF t = Strand
                            THEN [serving EXCEPT ![Strand] = NoPacket]
                            ELSE serving
            /\ UNCHANGED to_server
       ELSE /\ UNCHANGED serving
            /\ thread' = [thread EXCEPT ![t].pc = "waiting"]
            /\ to_server' = Append(to_server,
                 Send(thread[t].call.type, thread[t].cookie, TRUE,
                      Id("call", thread[t].cookie)))
  /\ UNCHANGED <<next_cookie_, pending_calls_, promise, strand_, in_messages_,
                 reading, should_exit_, context_obj_, aborted, from_server,
                 server_vars>>

Return(t) ==
  /\ thread[t].pc = "waiting"
  /\ thread[t].cookie \in DOMAIN promise
  /\ thread' = [thread EXCEPT ![t].pc = "returned"]
  /\ UNCHANGED <<next_cookie_, pending_calls_, promise, strand_, in_messages_,
                 reading, should_exit_, context_obj_, serving, aborted,
                 to_server, from_server, server_vars>>

(***************************************************************************)
(* SetContextObject, once the server made this client the context manager. *)
(***************************************************************************)
SetContextObject ==
  /\ MayServe /\ ~context_obj_
  /\ context_obj_' = TRUE
  /\ UNCHANGED <<next_cookie_, pending_calls_, promise, strand_, in_messages_,
                 reading, should_exit_, thread, serving, aborted, to_server,
                 from_server, server_vars>>

-----------------------------------------------------------------------------
(***************************************************************************)
(* OnNewMessage on the message at the head of the socket.                  *)
(***************************************************************************)
(* A mutant: the acknowledgement of a delivery ends the call.              *)
IsAcknowledgement_Never(msg, call) == FALSE

IsAcknowledgement(msg, call) ==
  msg.type = "Status" /\ call.type = "Transaction" /\ ~call.one_way /\ msg.ok

FinishTask(cookie) ==
  [task |-> "FinishCall", msg |-> [NoPacket EXCEPT !.cookie = cookie]]

(* Mutants: the call is not finished; the promise is set only when the     *)
(* strand is free.                                                         *)
Resolve_Unfinished(msg, cookie) ==
  /\ cookie \in DOMAIN pending_calls_ \ DOMAIN promise
  /\ ~IsAcknowledgement(msg, pending_calls_[cookie])
  /\ promise' = Insert(promise, cookie, msg)
  /\ UNCHANGED <<strand_, in_messages_, reading>>

Resolve_OnStrand(msg, cookie) ==
  /\ serving[Strand] = NoPacket
  /\ cookie \in DOMAIN pending_calls_ \ DOMAIN promise
  /\ ~IsAcknowledgement(msg, pending_calls_[cookie])
  /\ promise' = Insert(promise, cookie, msg)
  /\ strand_' = Append(strand_, FinishTask(cookie))
  /\ UNCHANGED <<in_messages_, reading>>

Resolve(msg, cookie) ==
  /\ cookie \in DOMAIN pending_calls_
  /\ ~IsAcknowledgement(msg, pending_calls_[cookie])
  /\ cookie \notin DOMAIN promise
  /\ promise' = Insert(promise, cookie, msg)
  /\ strand_' = Append(strand_, FinishTask(cookie))
  /\ UNCHANGED <<in_messages_, reading>>

(* A mutant: the acknowledgement finishes the call nobody was woken for.   *)
SkipAcknowledgement_Finishes(msg, cookie) ==
  /\ cookie \in DOMAIN pending_calls_
  /\ IsAcknowledgement(msg, pending_calls_[cookie])
  /\ strand_' = Append(strand_, FinishTask(cookie))
  /\ UNCHANGED <<promise, in_messages_, reading>>

SkipAcknowledgement(msg, cookie) ==
  /\ cookie \in DOMAIN pending_calls_
  /\ IsAcknowledgement(msg, pending_calls_[cookie])
  /\ UNCHANGED <<promise, strand_, in_messages_, reading>>

(***************************************************************************)
(* A promise is set a second time: std::future_error leaves OnNewMessage,  *)
(* the io thread catches it, and no further read is started.               *)
(***************************************************************************)
ResolveAgain(msg, cookie) ==
  /\ cookie \in DOMAIN pending_calls_
  /\ ~IsAcknowledgement(msg, pending_calls_[cookie])
  /\ cookie \in DOMAIN promise
  /\ reading' = FALSE
  /\ UNCHANGED <<promise, strand_, in_messages_>>

(* A mutant: without the else, the pool gets the message too.              *)
PostToContextObject_AndPush(msg, cookie) ==
  /\ cookie \notin DOMAIN pending_calls_
  /\ msg.type = "Transaction" /\ context_obj_
  /\ strand_' = Append(strand_,
       [task |-> "HandleContextObjectMessage", msg |-> msg])
  /\ in_messages_' = Append(in_messages_, msg)
  /\ UNCHANGED <<promise, reading>>

PostToContextObject(msg, cookie) ==
  /\ cookie \notin DOMAIN pending_calls_
  /\ msg.type = "Transaction" /\ context_obj_
  /\ strand_' = Append(strand_,
       [task |-> "HandleContextObjectMessage", msg |-> msg])
  /\ UNCHANGED <<promise, in_messages_, reading>>

(* A mutant: the message is not queued.                                    *)
PushIncoming_Drops(msg, cookie) ==
  /\ cookie \notin DOMAIN pending_calls_
  /\ ~(msg.type = "Transaction" /\ context_obj_)
  /\ UNCHANGED <<promise, strand_, in_messages_, reading>>

PushIncoming(msg, cookie) ==
  /\ cookie \notin DOMAIN pending_calls_
  /\ ~(msg.type = "Transaction" /\ context_obj_)
  /\ in_messages_' = Append(in_messages_, msg)
  /\ UNCHANGED <<promise, strand_, reading>>

(***************************************************************************)
(* A log entry goes to the handler of the monitor, if there is one.        *)
(***************************************************************************)
SkipLogEntry(msg) ==
  /\ msg.type = "LogEntry"
  /\ UNCHANGED <<promise, strand_, in_messages_, reading>>

OnNewMessage ==
  /\ reading /\ ~should_exit_
  /\ from_server # << >>
  /\ LET cookie == ReadValue(Head(from_server).cookie)
         msg == [Head(from_server) EXCEPT !.cookie = cookie]
     IN  \/ SkipLogEntry(msg)
         \/ /\ msg.type # "LogEntry"
            /\ \/ Resolve(msg, cookie)
               \/ SkipAcknowledgement(msg, cookie)
               \/ ResolveAgain(msg, cookie)
               \/ PostToContextObject(msg, cookie)
               \/ PushIncoming(msg, cookie)
  /\ from_server' = Tail(from_server)
  /\ UNCHANGED <<next_cookie_, pending_calls_, should_exit_, context_obj_,
                 thread, serving, aborted, to_server, server_vars>>

(***************************************************************************)
(* OnNewMessage called with an error: Terminate stops the io threads.  No  *)
(* promise is touched.                                                     *)
(***************************************************************************)
Terminate ==
  /\ MayDisconnect
  /\ reading /\ ~should_exit_
  /\ should_exit_' = TRUE
  /\ reading' = FALSE
  /\ UNCHANGED <<next_cookie_, pending_calls_, promise, strand_, in_messages_,
                 context_obj_, thread, serving, aborted, to_server,
                 from_server, server_vars>>

-----------------------------------------------------------------------------
(***************************************************************************)
(* The strand runs one task at a time, in the order they were posted; the  *)
(* context object may make calls of its own while it serves one.           *)
(***************************************************************************)
StrandIsFree ==
  strand_ # << >> /\ serving[Strand] = NoPacket /\ ~should_exit_

FinishCall ==
  /\ StrandIsFree
  /\ Head(strand_).task = "FinishCall"
  /\ pending_calls_' = Erase(pending_calls_, Head(strand_).msg.cookie)
  /\ strand_' = Tail(strand_)
  /\ UNCHANGED <<next_cookie_, promise, in_messages_, reading, should_exit_,
                 context_obj_, thread, serving, aborted, to_server,
                 from_server, server_vars>>

HandleContextObjectMessage ==
  /\ StrandIsFree
  /\ Head(strand_).task = "HandleContextObjectMessage"
  /\ serving' = [serving EXCEPT ![Strand] = Head(strand_).msg]
  /\ strand_' = Tail(strand_)
  /\ UNCHANGED <<next_cookie_, pending_calls_, promise, in_messages_, reading,
                 should_exit_, context_obj_, thread, aborted, to_server,
                 from_server, server_vars>>

(***************************************************************************)
(* messenger_->WriteData: nothing leaves a closed messenger.               *)
(***************************************************************************)
WriteData(msg) ==
  to_server' = IF should_exit_ THEN to_server ELSE Append(to_server, msg)

Answer(type, msg) == Send(type, msg.cookie, TRUE, msg.of)

ReplyFromContextObject ==
  /\ serving[Strand] # NoPacket
  /\ thread[Strand].pc \in {"idle", "returned"}
  /\ WriteData(Answer("TransactionReply", serving[Strand]))
  /\ serving' = [serving EXCEPT ![Strand] = NoPacket]
  /\ UNCHANGED <<next_cookie_, pending_calls_, promise, strand_, in_messages_,
                 reading, should_exit_, context_obj_, thread, aborted,
                 from_server, server_vars>>

-----------------------------------------------------------------------------
(***************************************************************************)
(* ProcessAndExecuteCommand on a thread of the pool.                       *)
(***************************************************************************)
DequeueMessage(w) ==
  /\ serving[w] = NoPacket
  /\ in_messages_ # << >> /\ ~should_exit_
  /\ serving' = [serving EXCEPT ![w] = Head(in_messages_)]
  /\ in_messages_' = Tail(in_messages_)
  /\ UNCHANGED <<next_cookie_, pending_calls_, promise, strand_, reading,
                 should_exit_, context_obj_, thread, aborted, to_server,
                 from_server, server_vars>>

(***************************************************************************)
(* A transaction is answered with a reply, or with a Status when there is  *)
(* no object for it; a reply that can no longer be queued throws on a      *)
(* thread nobody catches on.  A death notification is acknowledged with a  *)
(* Status; anything else is dropped.                                       *)
(***************************************************************************)
ExecuteCommand(w) ==
  LET msg == serving[w]
  IN  /\ msg # NoPacket
      /\ \/ /\ msg.type = "Transaction" /\ should_exit_
            /\ aborted' = TRUE
            /\ UNCHANGED to_server
         \/ /\ msg.type = "Transaction" /\ ~should_exit_
            /\ WriteData(Answer("TransactionReply", msg))
            /\ UNCHANGED aborted
         \/ /\ msg.type \in {"Transaction", "DeadBinder"}
            /\ WriteData(Answer("Status", msg))
            /\ UNCHANGED aborted
         \/ /\ msg.type \notin {"Transaction", "DeadBinder"}
            /\ UNCHANGED <<to_server, aborted>>
      /\ serving' = [serving EXCEPT ![w] = NoPacket]
      /\ UNCHANGED <<next_cookie_, pending_calls_, promise, strand_,
                     in_messages_, reading, should_exit_, context_obj_, thread,
                     from_server, server_vars>>

-----------------------------------------------------------------------------
(***************************************************************************)
(* The server, as seen from this client.                                   *)
(***************************************************************************)
ServerRefuses(msg) ==
  /\ msg.type \in {"Acquire", "Transaction"}
  /\ from_server' = Append(from_server,
       Send("Status", msg.cookie, FALSE, msg.of))
  /\ UNCHANGED <<at_target, unanswered>>

ServerAcknowledges(msg) ==
  /\ msg.type \in {"Acquire", "Transaction"}
  /\ from_server' = Append(from_server,
       Send("Status", msg.cookie, TRUE, msg.of))
  /\ at_target' = IF msg.type = "Transaction" THEN at_target \cup {msg}
                                              ELSE at_target
  /\ UNCHANGED unanswered

(***************************************************************************)
(* OnReply: whatever arrives first under the cookie of a pending           *)
(* transaction is its answer.                                              *)
(***************************************************************************)
ServerTakesAnswer(msg) ==
  /\ msg.type \in {"Status", "TransactionReply"}
  /\ unanswered' = unanswered \ {msg.cookie}
  /\ UNCHANGED <<from_server, at_target>>

ServerProcessesMessage ==
  /\ to_server # << >>
  /\ LET msg == [Head(to_server) EXCEPT !.cookie = ReadValue(@)]
     IN  \/ ServerRefuses(msg)
         \/ ServerAcknowledges(msg)
         \/ ServerTakesAnswer(msg)
  /\ to_server' = Tail(to_server)
  /\ UNCHANGED <<client_vars, next_transaction_cookie_, unasked>>

(***************************************************************************)
(* The target of a transaction of this client answers, one-way or not: the *)
(* flag did not reach it.                                                  *)
(***************************************************************************)
TargetReplies(msg) ==
  /\ msg \in at_target
  /\ at_target' = at_target \ {msg}
  /\ from_server' = Append(from_server, Answer("TransactionReply", msg))
  /\ UNCHANGED <<client_vars, to_server, unanswered, next_transaction_cookie_,
                 unasked>>

(***************************************************************************)
(* PostTransaction on this client's session numbers the transactions of    *)
(* others from 0.                                                          *)
(***************************************************************************)
ServerPostsTransaction ==
  /\ next_transaction_cookie_ < MaxIncoming
  /\ next_transaction_cookie_' = next_transaction_cookie_ + 1
  /\ unanswered' = unanswered \cup {next_transaction_cookie_}
  /\ from_server' = Append(from_server,
       Send("Transaction", next_transaction_cookie_, TRUE,
            Id("Transaction", next_transaction_cookie_)))
  /\ UNCHANGED <<client_vars, to_server, at_target, unasked>>

(***************************************************************************)
(* SendDeathNotification and ForwardToMonitor leave the cookie of the      *)
(* message at 0.                                                           *)
(***************************************************************************)
ServerSendsUnasked ==
  /\ unasked < MaxUnasked
  /\ unasked' = unasked + 1
  /\ \E type \in {"DeadBinder", "LogEntry"} :
       from_server' = Append(from_server, Send(type, 0, TRUE, Id(type, 0)))
  /\ UNCHANGED <<client_vars, to_server, at_target, unanswered,
                 next_transaction_cookie_>>

-----------------------------------------------------------------------------
ApplicationStep ==
  \/ \E t \in Threads :
       \/ \E call \in IF t = Strand THEN NestedCalls ELSE Calls :
            StartCall(t, call)
       \/ QueueMessage(t)
       \/ Return(t)
  \/ SetContextObject

IoStep ==
  \/ OnNewMessage
  \/ Terminate
  \/ FinishCall
  \/ HandleContextObjectMessage
  \/ ReplyFromContextObject

PoolStep == \E w \in Workers : DequeueMessage(w) \/ ExecuteCommand(w)

ServerStep ==
  \/ ServerProcessesMessage
  \/ \E msg \in at_target : TargetReplies(msg)
  \/ ServerPostsTransaction
  \/ ServerSendsUnasked

Next ==
  \/ ~aborted /\ (ApplicationStep \/ IoStep \/ PoolStep)
  \/ ServerStep

(***************************************************************************)
(* The io threads, the pool and the server keep running, a thread in       *)
(* Transact goes on, and every target answers in the end.  Nobody has to   *)
(* make a call, to end a connection or to send anything unasked.           *)
(***************************************************************************)
Fairness ==
  /\ \A t \in Threads : WF_vars(QueueMessage(t)) /\ WF_vars(Return(t))
  /\ WF_vars(OnNewMessage)
  /\ WF_vars(FinishCall) /\ WF_vars(HandleContextObjectMessage)
  /\ WF_vars(ReplyFromContextObject)
  /\ \A w \in Workers :
       WF_vars(DequeueMessage(w)) /\ WF_vars(ExecuteCommand(w))
  /\ WF_vars(ServerProcessesMessage)
  /\ WF_vars(\E msg \in at_target : TargetReplies(msg))

Spec == Init /\ [][Next]_vars /\ Fairness

-----------------------------------------------------------------------------
(***************************************************************************)
(* Properties.                                                             *)
(***************************************************************************)

(* What Transact hands to its caller was sent as the answer to that call,  *)
(* whatever the order in which threads, targets and the strand run; and a  *)
(* two-way transaction is not answered by the acknowledgement of its       *)
(* delivery: it "still need[s] to await [its] response from the remote     *)
(* object".                                                                *)
AnswerIsForTheCall ==
  \A t \in Threads : thread[t].pc = "returned" =>
    LET answer == promise[thread[t].cookie]
    IN  /\ answer.of = Id("call", thread[t].cookie)
        /\ thread[t].call = [type |-> "Transaction", one_way |-> FALSE] =>
             answer.type # "Status" \/ ~answer.ok

(* A thread that waits can still be woken: its call stays in               *)
(* pending_calls_ until its promise is set, although FinishCall runs on    *)
(* another thread and knows the call by its cookie only.                   *)
WaitingCallIsPending ==
  \A t \in Threads : thread[t].pc \in {"started", "waiting"} =>
    thread[t].cookie \in DOMAIN pending_calls_ \cup DOMAIN promise

(* The client goes on reading its socket until the connection ends: no     *)
(* promise is ever set twice.                                              *)
ReaderKeepsReading == reading \/ should_exit_

(* Where the client, or the socket, may hold the transaction of another    *)
(* client or the answer to it.                                             *)
InTransit ==
  [from_server  |-> from_server,
   strand_      |-> [i \in DOMAIN strand_ |-> strand_[i].msg],
   in_messages_ |-> in_messages_,
   serving      |-> serving,
   to_server    |-> to_server]

At(p, c) ==
  {i \in DOMAIN InTransit[p] : InTransit[p][i].of = Id("Transaction", c)}

(* A transaction of another client is executed once: reader, strand, queue *)
(* and pool hand it on and never have it, or its answer, in two places     *)
(* (OnNewMessage, DequeueMessage), so the context object and the pool do   *)
(* not both serve it; and while the server waits for its answer it is not  *)
(* lost, unless the connection was given up.                               *)
ServedOnce ==
  \A c \in 0 .. next_transaction_cookie_ - 1 :
    /\ \A p, q \in DOMAIN InTransit : \A i \in At(p, c), j \in At(q, c) : p = q /\ i = j
    /\ c \in unanswered => should_exit_ \/ \E p \in DOMAIN InTransit : At(p, c) # {}

(* Every call returns.                                                     *)
EveryCallReturns ==
  \A t \in Threads : thread[t].pc = "waiting" ~> thread[t].pc = "returned"

(* Every call leaves pending_calls_, so the map does not grow with the     *)
(* number of calls made.                                                   *)
PendingCallsDrain ==
  \A c \in FirstCookie .. MaxCookies - 1 :
    c \in DOMAIN pending_calls_ ~> c \notin DOMAIN pending_calls_

(* Every transaction posted to the client is answered, by the pool or by   *)
(* the context object on the strand.                                       *)
IncomingIsAnswered ==
  \A c \in 0 .. MaxIncoming - 1 : c \in unanswered ~> c \notin unanswered
=============================================================================

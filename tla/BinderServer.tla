---------------------------- MODULE BinderServer ----------------------------
(***************************************************************************)
(* The binderd server: the sessions of server_session.cpp, one for each    *)
(* connected client, around one Registry.  binderd's server command runs   *)
(* every handler on one thread, so an action is a whole handler: the       *)
(* message that was read, the state it changes and every message it        *)
(* writes.                                                                 *)
(***************************************************************************)
EXTENDS Registry

CONSTANTS
  ClientMessages,   \* the messages a client may put on its socket
  MaxTransactions   \* bound: transactions posted to one session

ASSUME ClientMessagesAssumption == ClientMessages \subseteq Message

ASSUME MaxTransactionsAssumption == MaxTransactions \in Nat

VARIABLES
  session,                   \* life of each session, see SessionState
  next_transaction_cookie_,  \* per session
  pending_transactions_,     \* per session: cookie -> TransactionRecord
  objects_,                  \* per session: handle -> BinderObject
  death_notifications_,      \* per session: handle -> object id
  handled,                   \* the message the last step processed, if any
  written                    \* what the last step wrote to the sockets

session_vars ==
  <<session, next_transaction_cookie_, pending_transactions_, objects_,
    death_notifications_>>

vars == <<registry_vars, session_vars, handled, written>>

(***************************************************************************)
(* A session is accepted once.  It is "stalled" after an exception left    *)
(* its read handler: the next read is never started, so neither a message  *)
(* nor the end of the connection is seen again.  It is "closed" after      *)
(* Terminate.                                                              *)
(***************************************************************************)
SessionState == {"none", "open", "stalled", "closed"}

Live(s) == session[s] \in {"open", "stalled"}

TransactionRecord == [caller : Sessions, reply_cookie : Nat]

(***************************************************************************)
(* One message on a socket: to whom, its place among the writes of the     *)
(* handler (for death notifications its number among those for the same    *)
(* handle and session), and whether it travels inside a LogEntry.          *)
(***************************************************************************)
Write == [to : Sessions, n : Nat, log : BOOLEAN, msg : Message]

(* Types of every variable, in terms of the members of the classes.        *)
TypeOK ==
  /\ RegistryTypeOK
  /\ session \in [Sessions -> SessionState]
  /\ next_transaction_cookie_ \in [Sessions -> 0 .. MaxTransactions]
  /\ DOMAIN pending_transactions_ = Sessions
  /\ \A s \in Sessions : IsMap(pending_transactions_[s], Nat, TransactionRecord)
  /\ DOMAIN objects_ = Sessions
  /\ \A s \in Sessions : IsMap(objects_[s], Handles, BinderObject)
  /\ DOMAIN death_notifications_ = Sessions
  /\ \A s \in Sessions : IsMap(death_notifications_[s], Nat, Nat)
  /\ handled \subseteq [from : Sessions, msg : Message]
  /\ written \subseteq Write

Init ==
  /\ RegistryInit
  /\ session = [s \in Sessions |-> "none"]
  /\ next_transaction_cookie_ = [s \in Sessions |-> 0]
  /\ pending_transactions_ = [s \in Sessions |-> EmptyMap]
  /\ objects_ = [s \in Sessions |-> EmptyMap]
  /\ death_notifications_ = [s \in Sessions |-> EmptyMap]
  /\ handled = {}
  /\ written = {}

-----------------------------------------------------------------------------
(***************************************************************************)
(* Writing.                                                                *)
(***************************************************************************)
(* A mutant: the monitor is not checked for null.                          *)
ForwardToMonitor_NoCheck(monitor, n, msg) ==
  {[to |-> monitor, n |-> n, log |-> TRUE, msg |-> msg]}

ForwardToMonitor(monitor, n, msg) ==
  IF monitor = NoSession THEN {}
  ELSE {[to |-> monitor, n |-> n, log |-> TRUE, msg |-> msg]}

WriteMessage(monitor, to, n, msg) ==
  {[to |-> to, n |-> n, log |-> FALSE, msg |-> msg]}
    \cup ForwardToMonitor(monitor, n, msg)

(* A mutant: the Status does not carry the cookie of the request.          *)
SendStatus_NoCookie(monitor, to, n, msg, status) ==
  WriteMessage(monitor, to, n, NewMessage("Status", 0, <<status>>))

SendStatus(monitor, to, n, msg, status) ==
  WriteMessage(monitor, to, n, NewMessage("Status", msg.cookie, <<status>>))

(***************************************************************************)
(* SendDeathNotification(handle) on session s, called for the k-th time.   *)
(***************************************************************************)
SendDeathNotification(s, handle, k) ==
  IF handle \notin DOMAIN death_notifications_[s] THEN {}
  ELSE WriteMessage(monitor_, s, k,
         NewMessage("DeadBinder", 0, <<handle, death_notifications_[s][handle]>>))

-----------------------------------------------------------------------------
(***************************************************************************)
(* Object translation.  TranslateObjects walks the objects in order and    *)
(* gives up at the first one of an unknown type; what it has done up to    *)
(* there stays done.                                                       *)
(***************************************************************************)
Walked(objs) ==
  {i \in DOMAIN objs : \A j \in 1 .. i : objs[j].type # "INVALID"}

Exported(objs) == {i \in Walked(objs) : objs[i].type = "BINDER"}

(***************************************************************************)
(* The value of next_object_handle_ when the walk comes to object i.       *)
(***************************************************************************)
HandleAt(next, objs, i) == next + Cardinality({j \in Exported(objs) : j < i})

NewHandles(next, objs) == {HandleAt(next, objs, i) : i \in Exported(objs)}

(* A mutant: the object is not entered in objects_.                        *)
WithExports_NotStored(owned, next, objs) == owned

(***************************************************************************)
(* The map objects_ of the walking session when the walk has ended.        *)
(***************************************************************************)
WithExports(owned, next, objs) ==
  [h \in DOMAIN owned \cup NewHandles(next, objs) |->
     IF h \in DOMAIN owned THEN owned[h]
     ELSE LET i == CHOOSE j \in Exported(objs) : HandleAt(next, objs, j) = h
          IN  [binder |-> objs[i].binder, cookie |-> objs[i].cookie]]

(***************************************************************************)
(* Object i after the walk.  A BINDER becomes the HANDLE just allocated; a *)
(* HANDLE of an object of the walking session becomes a WEAK_BINDER with   *)
(* the cookie of the object, whose binder is lost because handle = 0 is    *)
(* the last write to the union.                                            *)
(***************************************************************************)
TranslateObject(owned, next, objs, i) ==
  LET o == objs[i]
      mine == /\ o.binder \in DOMAIN WithExports(owned, next, objs)
              /\ \/ o.binder \in DOMAIN owned
                 \/ o.binder < HandleAt(next, objs, i)
  IN  IF i \notin Walked(objs) THEN o
      ELSE CASE o.type = "BINDER" ->
                  [type |-> "HANDLE", binder |-> HandleAt(next, objs, i),
                   cookie |-> 0]
             [] o.type = "HANDLE" /\ mine ->
                  [type |-> "WEAK_BINDER", binder |-> 0,
                   cookie |-> WithExports(owned, next, objs)[o.binder].cookie]
             [] OTHER -> o

(* A mutant: an object of an unknown type is not reported.                 *)
TranslateObjects_AlwaysOK(owner, w) ==
  [next    |-> w.next + Cardinality(Exported(w.flat)),
   handles |-> NewObjectHandles(w.handles, NewHandles(w.next, w.flat), owner),
   objects |-> [w.objects EXCEPT
                  ![owner] = WithExports(w.objects[owner], w.next, w.flat)],
   flat    |-> [i \in DOMAIN w.flat |->
                  TranslateObject(w.objects[owner], w.next, w.flat, i)],
   status  |-> OK]

(***************************************************************************)
(* TranslateObjects run by session owner on w: the registry and the object *)
(* maps it works on, the objects of the transaction, and the status.       *)
(***************************************************************************)
TranslateObjects(owner, w) ==
  [next    |-> w.next + Cardinality(Exported(w.flat)),
   handles |-> NewObjectHandles(w.handles, NewHandles(w.next, w.flat), owner),
   objects |-> [w.objects EXCEPT
                  ![owner] = WithExports(w.objects[owner], w.next, w.flat)],
   flat    |-> [i \in DOMAIN w.flat |->
                  TranslateObject(w.objects[owner], w.next, w.flat, i)],
   status  |-> IF Walked(w.flat) = DOMAIN w.flat THEN OK ELSE InvalidOperation]

(* A mutant: handles are numbered by the size of the table.                *)
Untranslated_CountsLive(msg) ==
  [next |-> Cardinality(DOMAIN handles_) + 1, handles |-> handles_,
   objects |-> objects_, flat |-> msg.objects, status |-> OK]

Untranslated(msg) ==
  [next |-> next_object_handle_, handles |-> handles_, objects |-> objects_,
   flat |-> msg.objects, status |-> OK]

StoreTranslation(w) ==
  /\ w.next <= MaxHandle + 1
  /\ next_object_handle_' = w.next
  /\ handles_' = w.handles
  /\ objects_' = w.objects

-----------------------------------------------------------------------------
(***************************************************************************)
(* The handlers of ProcessMessage.  s is the session that read msg.        *)
(***************************************************************************)
OnSetContextManager(s, msg) ==
  /\ msg.type = "SetContextMgr"
  /\ context_mgr_' = IF context_mgr_ = NoSession THEN s ELSE context_mgr_
  /\ written' = ForwardToMonitor(monitor_, 0, msg)
                  \cup SendStatus(monitor_, s, 1, msg,
                         IF context_mgr_ = NoSession THEN OK ELSE AlreadyExists)
  /\ UNCHANGED <<next_object_handle_, handles_, references_, monitor_,
                 session_vars>>

(* A mutant: a second monitor replaces the first.                          *)
OnSetMonitor_TakesOver(s, msg) ==
  /\ msg.type = "SetMonitor"
  /\ monitor_' = s
  /\ written' = SendStatus(s, s, 1, msg, OK)
  /\ UNCHANGED <<next_object_handle_, handles_, references_, context_mgr_,
                 session_vars>>

OnSetMonitor(s, msg) ==
  /\ msg.type = "SetMonitor"
  /\ monitor_' = IF monitor_ = NoSession THEN s ELSE monitor_
  /\ written' = SendStatus(monitor_', s, 1, msg,
                  IF monitor_ = NoSession THEN OK ELSE AlreadyExists)
  /\ UNCHANGED <<next_object_handle_, handles_, references_, context_mgr_,
                 session_vars>>

(***************************************************************************)
(* PostTransaction on session target, for a transaction of session s whose *)
(* objects s has translated to w.  The cookie is used up in any case; the  *)
(* one-way flag is not among the fields that are copied.                   *)
(***************************************************************************)
HasDestination(target, msg, w) ==
  \/ msg.destination \in DOMAIN w.objects[target]
  \/ msg.destination = kContextManagerHandle

PostedMessage(target, msg, w) ==
  LET obj == IF msg.destination \in DOMAIN w.objects[target]
               THEN w.objects[target][msg.destination]
               ELSE [binder |-> 0, cookie |-> 0]
  IN  [type        |-> "Transaction",
       cookie      |-> next_transaction_cookie_[target],
       destination |-> msg.destination,
       words       |-> <<obj.binder, obj.cookie>>,
       objects     |-> TranslateObjects(target, w).flat]

PostTransaction(target, s, msg, w) ==
  LET found  == HasDestination(target, msg, w)
      posted == IF found THEN TranslateObjects(target, w)
                         ELSE [w EXCEPT !.status = InvalidOperation]
  IN  /\ next_transaction_cookie_[target] < MaxTransactions
      /\ next_transaction_cookie_' =
           [next_transaction_cookie_ EXCEPT ![target] = @ + 1]
      /\ StoreTranslation(posted)
      /\ IF posted.status # OK
           THEN /\ written' = SendStatus(monitor_, s, 1, msg, posted.status)
                /\ UNCHANGED pending_transactions_
           ELSE /\ written' = WriteMessage(monitor_, target, 1,
                                 PostedMessage(target, msg, w))
                              \cup SendStatus(monitor_, s, 2, msg, OK)
                /\ pending_transactions_' = [pending_transactions_ EXCEPT
                     ![target] = Insert(@, next_transaction_cookie_[target],
                       [caller |-> s, reply_cookie |-> msg.cookie])]

(***************************************************************************)
(* Whether the constructor of TransactionDataFromMessage gets all it reads *)
(* out of the payload.                                                     *)
(***************************************************************************)
IsReadable(msg) == Len(msg.words) >= 2

(***************************************************************************)
(* OnTransaction.  A payload too short for the fields of a transaction     *)
(* makes the reader throw std::out_of_range; no other exception can come   *)
(* out of the calls in the try block.  The status of the sender's own      *)
(* TranslateObjects is ignored, and what it exported stays exported when   *)
(* there is no target.                                                     *)
(***************************************************************************)
OnUnreadableTransaction(s, msg) ==
  /\ msg.type = "Transaction"
  /\ ~IsReadable(msg)
  /\ written' = SendStatus(monitor_, s, 1, msg, BadValue)
  /\ UNCHANGED <<registry_vars, session_vars>>

OnTransaction(s, msg) ==
  /\ msg.type = "Transaction"
  /\ IsReadable(msg)
  /\ LET w == TranslateObjects(s, Untranslated(msg))
         target == FindSessionByHandle(w.handles, msg.destination)
     IN  \/ /\ target = NoSession
            /\ StoreTranslation(w)
            /\ written' = SendStatus(monitor_, s, 1, msg, NameNotFound)
            /\ UNCHANGED <<next_transaction_cookie_, pending_transactions_>>
         \/ /\ target # NoSession
            /\ PostTransaction(target, s, msg, w)
  /\ UNCHANGED <<references_, context_mgr_, monitor_, session,
                 death_notifications_>>

(* A mutant: the reply goes out under the cookie of the callee.            *)
OnReply_KeepsCookie(s, msg) ==
  /\ msg.type \in {"Status", "TransactionReply"}
  /\ msg.cookie \in DOMAIN pending_transactions_[s]
  /\ written' = WriteMessage(monitor_,
       pending_transactions_[s][msg.cookie].caller, 1, msg)
  /\ pending_transactions_' =
       [pending_transactions_ EXCEPT ![s] = Erase(@, msg.cookie)]
  /\ UNCHANGED <<registry_vars, session, next_transaction_cookie_, objects_,
                 death_notifications_>>

(***************************************************************************)
(* OnReply: the payload is passed on as it is, only the cookie changes.    *)
(***************************************************************************)
OnReply(s, msg) ==
  /\ msg.type \in {"Status", "TransactionReply"}
  /\ \/ /\ msg.cookie \notin DOMAIN pending_transactions_[s]
        /\ written' = {}
        /\ UNCHANGED pending_transactions_
     \/ /\ msg.cookie \in DOMAIN pending_transactions_[s]
        /\ LET record == pending_transactions_[s][msg.cookie]
           IN  written' = WriteMessage(monitor_, record.caller, 1,
                            [msg EXCEPT !.cookie = record.reply_cookie])
        /\ pending_transactions_' =
             [pending_transactions_ EXCEPT ![s] = Erase(@, msg.cookie)]
  /\ UNCHANGED <<registry_vars, session, next_transaction_cookie_, objects_,
                 death_notifications_>>

OnReference(s, msg) ==
  /\ msg.type \in {"Acquire", "Release"}
  /\ Len(msg.words) >= 1
  /\ \E status \in Status :
       /\ IF msg.type = "Acquire"
            THEN AddReferenceForHandle(s, ReadValue(msg.words[1]), status)
            ELSE RemoveReferenceForHandle(s, ReadValue(msg.words[1]), status)
       /\ written' = SendStatus(monitor_, s, 1, msg, status)
  /\ UNCHANGED <<next_object_handle_, handles_, context_mgr_, monitor_,
                 session_vars>>

(***************************************************************************)
(* OnDeathNotification: nothing asks whether the handle is known.          *)
(***************************************************************************)
OnRequestDeathNotification(s, msg) ==
  /\ msg.type = "RequestDeathNotification"
  /\ Len(msg.words) >= 2
  /\ LET handle == ReadValue(msg.words[1])
     IN  IF handle \in DOMAIN death_notifications_[s]
           THEN /\ written' = SendStatus(monitor_, s, 1, msg, AlreadyExists)
                /\ UNCHANGED death_notifications_
           ELSE /\ written' = SendStatus(monitor_, s, 1, msg, OK)
                /\ death_notifications_' = [death_notifications_ EXCEPT
                     ![s] = Insert(@, handle, ReadValue(msg.words[2]))]
  /\ UNCHANGED <<registry_vars, session, next_transaction_cookie_,
                 pending_transactions_, objects_>>

OnClearDeathNotification(s, msg) ==
  /\ msg.type = "ClearDeathNotification"
  /\ Len(msg.words) >= 2
  /\ LET handle == ReadValue(msg.words[1])
     IN  IF handle \notin DOMAIN death_notifications_[s]
           THEN /\ written' = SendStatus(monitor_, s, 1, msg, BadValue)
                /\ UNCHANGED death_notifications_
           ELSE /\ written' = SendStatus(monitor_, s, 1, msg, OK)
                /\ death_notifications_' = [death_notifications_ EXCEPT
                     ![s] = Erase(@, handle)]
  /\ UNCHANGED <<registry_vars, session, next_transaction_cookie_,
                 pending_transactions_, objects_>>

(***************************************************************************)
(* The default case of ProcessMessage.                                     *)
(***************************************************************************)
OnUnsupported(s, msg) ==
  /\ msg.type \in {"DeadBinder", "Version", "LogEntry", "Unknown"}
  /\ written' = SendStatus(monitor_, s, 1, msg, InvalidOperation)
  /\ UNCHANGED <<registry_vars, session_vars>>

(***************************************************************************)
(* A payload that ends before the integers OnReference or                  *)
(* OnDeathNotification reads: the exception passes ReadNextMessage, which  *)
(* then does not start the next read, and ends in ServerImpl::Run.         *)
(***************************************************************************)
ReadHandlerThrows(s, msg) ==
  /\ \/ msg.type \in {"Acquire", "Release"} /\ Len(msg.words) < 1
     \/ /\ msg.type \in {"RequestDeathNotification", "ClearDeathNotification"}
        /\ Len(msg.words) < 2
  /\ session' = [session EXCEPT ![s] = "stalled"]
  /\ written' = {}
  /\ UNCHANGED <<registry_vars, next_transaction_cookie_,
                 pending_transactions_, objects_, death_notifications_>>

ProcessMessage(s, msg) ==
  \/ OnSetContextManager(s, msg)
  \/ OnSetMonitor(s, msg)
  \/ OnUnreadableTransaction(s, msg)
  \/ OnTransaction(s, msg)
  \/ OnReply(s, msg)
  \/ OnReference(s, msg)
  \/ OnRequestDeathNotification(s, msg)
  \/ OnClearDeathNotification(s, msg)
  \/ OnUnsupported(s, msg)
  \/ ReadHandlerThrows(s, msg)

-----------------------------------------------------------------------------
(***************************************************************************)
(* The read handler of an open session, called with a message.             *)
(***************************************************************************)
ReadNextMessage(s, msg) ==
  /\ session[s] = "open"
  /\ ProcessMessage(s, Unpack(msg))
  /\ handled' = {[from |-> s, msg |-> msg]}

(***************************************************************************)
(* The acceptor hands a new connection to a new session.                   *)
(***************************************************************************)
StartAccept(s) ==
  /\ session[s] = "none"
  /\ session' = [session EXCEPT ![s] = "open"]
  /\ handled' = {}
  /\ written' = {}
  /\ UNCHANGED <<registry_vars, next_transaction_cookie_,
                 pending_transactions_, objects_, death_notifications_>>

(* A mutant: the loop over the holders of a handle misses the last.        *)
DeathNotifications_MissesOne(dead) ==
  UNION {UNION {SendDeathNotification(s, h, k) :
                  k \in 1 .. references_[h][s] - 1} :
           h \in dead \cap DOMAIN handles_ \cap DOMAIN references_,
           s \in Sessions}

(***************************************************************************)
(* The read handler called with an error.  The session may outlive this in *)
(* references_ and in the pending transactions of others; its own maps are *)
(* left as they are.                                                       *)
(***************************************************************************)
DeathNotifications(dead) ==
  UNION {UNION {SendDeathNotification(s, h, k) : k \in 1 .. references_[h][s]} :
           h \in dead \cap DOMAIN handles_ \cap DOMAIN references_,
           s \in Sessions}

(* A mutant: the session keeps its roles.                                  *)
Terminate_KeepsRoles(s) ==
  /\ session[s] = "open"
  /\ session' = [session EXCEPT ![s] = "closed"]
  /\ RemoveHandles(DOMAIN objects_[s])
  /\ written' = DeathNotifications(DOMAIN objects_[s])
  /\ handled' = {}
  /\ UNCHANGED <<next_object_handle_, context_mgr_, monitor_,
                 next_transaction_cookie_, pending_transactions_, objects_,
                 death_notifications_>>

Terminate(s) ==
  /\ session[s] = "open"
  /\ session' = [session EXCEPT ![s] = "closed"]
  /\ RemoveHandles(DOMAIN objects_[s])
  /\ written' = DeathNotifications(DOMAIN objects_[s])
  /\ context_mgr_' = IF context_mgr_ = s THEN NoSession ELSE context_mgr_
  /\ monitor_' = IF monitor_ = s THEN NoSession ELSE monitor_
  /\ handled' = {}
  /\ UNCHANGED <<next_object_handle_, next_transaction_cookie_,
                 pending_transactions_, objects_, death_notifications_>>

Next ==
  \E s \in Sessions :
    \/ StartAccept(s)
    \/ Terminate(s)
    \/ \E msg \in ClientMessages : ReadNextMessage(s, msg)

Spec == Init /\ [][Next]_vars

-----------------------------------------------------------------------------
(***************************************************************************)
(* Invariants.                                                             *)
(***************************************************************************)

(* The registry and the object maps agree: a known handle belongs to a     *)
(* session that is not terminated and has an object for it, and every      *)
(* object of such a session is known under its handle.  PostTransaction    *)
(* calls the opposite "really something with the synchronization between   *)
(* the registry and the object map wrong".                                 *)
RegistryInSync ==
  /\ \A h \in DOMAIN handles_ :
       Live(handles_[h]) /\ h \in DOMAIN objects_[handles_[h]]
  /\ \A s \in Sessions : Live(s) =>
       \A h \in DOMAIN objects_[s] : h \in DOMAIN handles_ /\ handles_[h] = s

(* No terminated session is reachable as context manager or as monitor, so *)
(* no transaction is posted to, and no log entry written on, a closed      *)
(* connection: Terminate gives up both roles.                              *)
RolesAreLive ==
  \A role \in {context_mgr_, monitor_} : role # NoSession => Live(role)

(* References are only kept for handles that are known: RemoveHandle drops *)
(* both together, so no session holds a reference nobody will ever be told *)
(* about.                                                                  *)
ReferencesAreKnown == DOMAIN references_ \subseteq DOMAIN handles_

(* Handles are given out in order and never twice: next_object_handle_ is  *)
(* above every handle in the registry and above every key of an object     *)
(* map, those of terminated sessions included.                             *)
HandlesAreAllocated ==
  /\ \A h \in DOMAIN handles_ : h < next_object_handle_
  /\ \A s \in Sessions : \A h \in DOMAIN objects_[s] : h < next_object_handle_

(* A session exports nothing before it is accepted.                        *)
UnstartedExportsNothing ==
  \A s \in Sessions : session[s] = "none" => objects_[s] = EmptyMap

(* The inductive invariant: RegistryInSync needs the other conjuncts, for  *)
(* a new handle must not be in use already and a session that becomes live *)
(* must not own objects the registry does not know.                        *)
IInv ==
  /\ TypeOK
  /\ RegistryInSync
  /\ RolesAreLive
  /\ ReferencesAreKnown
  /\ HandlesAreAllocated
  /\ UnstartedExportsNothing

(* Every request that does not make the reader throw is answered in the    *)
(* same step with exactly one Status that carries its cookie.              *)
StatusesFor(x) ==
  {w \in written : /\ w.to = x.from /\ ~w.log
                   /\ w.msg.type = "Status" /\ w.msg.cookie = x.msg.cookie}

RequestIsAnswered ==
  \A x \in handled :
    session[x.from] = "open" /\ x.msg.type \notin {"Status", "TransactionReply"}
      => Cardinality(StatusesFor(x)) = 1

(* The promise of PostTransaction: the caller of a transaction is told OK  *)
(* only when the transaction was written to a session that is not          *)
(* terminated, which then has a record to route the reply back with the    *)
(* caller's cookie; with any other status nothing was delivered.           *)
Delivered == {w \in written : ~w.log /\ w.msg.type = "Transaction"}

OkMeansDelivered ==
  \A x \in handled : x.msg.type = "Transaction" =>
    LET ok == \E w \in StatusesFor(x) : w.msg.words = <<OK>>
    IN  /\ ok => \E d \in Delivered :
                   /\ Live(d.to)
                   /\ d.msg.cookie \in DOMAIN pending_transactions_[d.to]
                   /\ pending_transactions_[d.to][d.msg.cookie] =
                        [caller |-> x.from, reply_cookie |-> x.msg.cookie]
        /\ ~ok => Delivered = {}

(* TranslateObjects runs for the sender and again for the target, on the   *)
(* same objects.  Whatever else the transaction carries, a local object of *)
(* the sender reaches another session as a handle that leads back to that  *)
(* very object, and never as the sender's pointer.                         *)
ExportLeadsBack ==
  \A x \in handled, d \in Delivered : \A i \in DOMAIN d.msg.objects :
    LET sent == x.msg.objects[i]
        got  == d.msg.objects[i]
    IN  /\ got.type # "BINDER"
        /\ sent.type = "BINDER" /\ d.to # x.from =>
             /\ got.type = "HANDLE"
             /\ got.binder \in DOMAIN handles_
             /\ handles_[got.binder] = x.from
             /\ objects_[x.from][got.binder] =
                  [binder |-> sent.binder, cookie |-> sent.cookie]
        /\ sent.type = "BINDER" /\ d.to = x.from =>
             got.type = "WEAK_BINDER" /\ got.cookie = sent.cookie

-----------------------------------------------------------------------------
(***************************************************************************)
(* Action properties.                                                      *)
(***************************************************************************)

(* A pending transaction is only forgotten when its callee answered, and   *)
(* then its caller is sent the answer under the cookie it chose: no other  *)
(* handler, and no other session's end, touches the record.                *)
PendingIsSettled ==
  [][\A s \in Sessions : \A c \in DOMAIN pending_transactions_[s] :
       LET record == pending_transactions_[s][c]
       IN  \/ /\ c \in DOMAIN pending_transactions_'[s]
              /\ pending_transactions_'[s][c] = record
           \/ \E w \in written', x \in handled' :
                /\ x.from = s
                /\ w.to = record.caller /\ ~w.log
                /\ w.msg.cookie = record.reply_cookie
                /\ w.msg.type = x.msg.type
                /\ w.msg.objects = x.msg.objects]_vars

(* When a handle stops being known, every session that references it and   *)
(* has asked for its death is sent DeadBinder with the id it registered,   *)
(* once for each reference it holds.                                       *)
HoldersLearnOfDeath ==
  [][\A h \in DOMAIN references_ \ DOMAIN handles_' : \A s \in Sessions :
       h \in DOMAIN death_notifications_[s] =>
         Cardinality({w \in written' :
            /\ w.to = s /\ ~w.log /\ w.msg.type = "DeadBinder"
            /\ w.msg.words = <<h, death_notifications_[s][h]>>})
           = references_[h][s]]_vars

(* A handle a client was ever given keeps its meaning: it denotes the same *)
(* object of the same session until that session ends, and after that it   *)
(* is never given out again.                                               *)
HandleKeepsItsMeaning ==
  [][\A h \in DOMAIN handles_' : h < next_object_handle_ =>
       /\ h \in DOMAIN handles_
       /\ handles_'[h] = handles_[h]
       /\ objects_'[handles_[h]][h] = objects_[handles_[h]][h]]_vars

(* A role is taken only while it is free and lost only with the session    *)
(* that has it: "Trying again to become context manager will always fail". *)
RoleIsKept ==
  [][/\ context_mgr_ # NoSession =>
          context_mgr_' = context_mgr_ \/ session'[context_mgr_] = "closed"
     /\ monitor_ # NoSession =>
          monitor_' = monitor_ \/ session'[monitor_] = "closed"]_vars

=============================================================================

------------------------- MODULE BinderServerProofs -------------------------
(***************************************************************************)
(* What TLAPS proves of BinderServer, for every set of sessions, every set *)
(* of client messages and every value of the bounds.                       *)
(***************************************************************************)
EXTENDS BinderServer, FiniteSetTheorems, TLAPS

-----------------------------------------------------------------------------
(***************************************************************************)
(* Handles given out by one walk over the objects of a transaction.        *)
(***************************************************************************)

(* The walk of TranslateObjects exports finitely many objects, and the     *)
(* handle it takes for each lies in the block that starts at               *)
(* next_object_handle_ and has one handle for each exported object.        *)
LEMMA HandleAtType ==
  ASSUME NEW objs \in Seq(FlatObject), NEW next \in Nat
  PROVE  /\ IsFiniteSet(Exported(objs))
         /\ Cardinality(Exported(objs)) \in Nat
         /\ \A i \in DOMAIN objs : HandleAt(next, objs, i) \in Nat
         /\ \A i \in DOMAIN objs : HandleAt(next, objs, i) >= next
         /\ \A i \in Exported(objs) :
              HandleAt(next, objs, i) < next + Cardinality(Exported(objs))
<1>1. IsFiniteSet(DOMAIN objs)
  <2>1. DOMAIN objs = 1 .. Len(objs) /\ Len(objs) \in Nat
    OBVIOUS
  <2> QED
    BY <2>1, FS_Interval
<1>2. Exported(objs) \subseteq DOMAIN objs
  BY DEF Exported, Walked
<1>3. IsFiniteSet(Exported(objs)) /\ Cardinality(Exported(objs)) \in Nat
  BY <1>1, <1>2, FS_Subset, FS_CardinalityType
<1>4. ASSUME NEW i \in DOMAIN objs
      PROVE  Cardinality({j \in Exported(objs) : j < i}) \in Nat
  <2>1. {j \in Exported(objs) : j < i} \subseteq Exported(objs)
    OBVIOUS
  <2> QED
    BY <1>3, <2>1, FS_Subset, FS_CardinalityType
<1>5. ASSUME NEW i \in Exported(objs)
      PROVE  Cardinality({j \in Exported(objs) : j < i})
               < Cardinality(Exported(objs))
  <2> DEFINE before == {j \in Exported(objs) : j < i}
  <2>1. before \subseteq Exported(objs) /\ i \notin before
    <3>1. i \in Nat
      BY <1>2
    <3> QED
      BY <3>1
  <2>2. before # Exported(objs)
    BY <2>1
  <2>3. Cardinality(before) \in Nat
    BY <1>2, <1>4
  <2>4. Cardinality(before) <= Cardinality(Exported(objs))
    BY <1>3, <2>1, FS_Subset
  <2>5. Cardinality(before) # Cardinality(Exported(objs))
    BY <1>3, <2>1, <2>2, FS_Subset
  <2> QED
    BY <1>3, <2>3, <2>4, <2>5
<1> QED
  BY <1>2, <1>3, <1>4, <1>5 DEF HandleAt

(* No two objects of a transaction get the same handle.                    *)
LEMMA HandleAtInjective ==
  ASSUME NEW objs \in Seq(FlatObject), NEW next \in Nat,
         NEW i \in Exported(objs), NEW j \in Exported(objs),
         HandleAt(next, objs, i) = HandleAt(next, objs, j)
  PROVE  i = j
<1> DEFINE before(k) == {l \in Exported(objs) : l < k}
<1>1. Exported(objs) \subseteq Nat
  <2>1. DOMAIN objs \subseteq Nat
    OBVIOUS
  <2> QED
    BY <2>1 DEF Exported, Walked
<1>2. \A k : IsFiniteSet(before(k)) /\ Cardinality(before(k)) \in Nat
  BY HandleAtType, FS_Subset, FS_CardinalityType
<1>3. Cardinality(before(i)) = Cardinality(before(j))
  <2> DEFINE bi == Cardinality(before(i))
             bj == Cardinality(before(j))
  <2>1. bi \in Nat /\ bj \in Nat
    BY <1>2
  <2>2. next + bi = next + bj
    BY DEF HandleAt
  <2> HIDE DEF bi, bj
  <2>3. bi = bj
    BY <2>1, <2>2
  <2> QED
    BY <2>3 DEF bi, bj
<1>4. ASSUME NEW k \in Exported(objs), NEW l \in Exported(objs), k < l,
             Cardinality(before(k)) = Cardinality(before(l))
      PROVE  FALSE
  <2>1. before(k) \subseteq before(l)
    BY <1>1, <1>4
  <2>2. k \in before(l) /\ k \notin before(k)
    BY <1>1, <1>4
  <2>3. before(k) = before(l)
    BY <1>2, <1>4, <2>1, FS_Subset
  <2> QED
    BY <2>2, <2>3
<1>5. ~(i < j)
  BY <1>3, <1>4
<1>6. ~(j < i)
  BY <1>3, <1>4
<1> QED
  BY <1>1, <1>5, <1>6

(* A walk over well-formed objects leaves well-formed objects, as many of  *)
(* them, when the map of the walking session is well formed.               *)
LEMMA TranslateObjectType ==
  ASSUME NEW objs \in Seq(FlatObject), NEW next \in Nat,
         NEW owned, IsMap(owned, Nat, BinderObject)
  PROVE  /\ IsMap(WithExports(owned, next, objs), Nat, BinderObject)
         /\ [i \in DOMAIN objs |-> TranslateObject(owned, next, objs, i)]
              \in Seq(FlatObject)
<1>1. NewHandles(next, objs) \subseteq Nat
  <2>1. Exported(objs) \subseteq DOMAIN objs
    BY DEF Exported, Walked
  <2> QED
    BY <2>1, HandleAtType DEF NewHandles
<1>2. IsMap(WithExports(owned, next, objs), Nat, BinderObject)
  <2> DEFINE f == WithExports(owned, next, objs)
  <2>1. DOMAIN f = DOMAIN owned \cup NewHandles(next, objs)
    BY DEF WithExports
  <2>2. ASSUME NEW h \in DOMAIN f
        PROVE  f[h] \in BinderObject
    <3>1. CASE h \in DOMAIN owned
      BY <3>1, <2>1 DEF WithExports, IsMap
    <3>2. CASE h \notin DOMAIN owned
      <4> DEFINE i == CHOOSE j \in Exported(objs) : HandleAt(next, objs, j) = h
      <4>1. i \in Exported(objs)
        BY <3>2, <2>1 DEF NewHandles
      <4>2. objs[i] \in FlatObject
        BY <4>1 DEF Exported, Walked
      <4>3. f[h] = [binder |-> objs[i].binder, cookie |-> objs[i].cookie]
        BY <3>2, <2>1 DEF WithExports
      <4> HIDE DEF i
      <4> QED
        BY <4>2, <4>3 DEF FlatObject, BinderObject
    <3> QED
      BY <3>1, <3>2
  <2>3. f \in [DOMAIN f -> BinderObject]
    BY <2>2 DEF WithExports
  <2> QED
    BY <1>1, <2>1, <2>3 DEF IsMap
<1>3. ASSUME NEW i \in DOMAIN objs
      PROVE  TranslateObject(owned, next, objs, i) \in FlatObject
  <2> DEFINE o == objs[i]
             f == WithExports(owned, next, objs)
  <2>1. o \in FlatObject
    OBVIOUS
  <2>2. HandleAt(next, objs, i) \in Nat
    BY HandleAtType
  <2>3. o.binder \in DOMAIN f => f[o.binder].cookie \in Nat
    <3>1. o.binder \in DOMAIN f => f[o.binder] \in BinderObject
      BY <1>2 DEF IsMap
    <3> QED
      BY <3>1 DEF BinderObject
  <2> QED
    BY <2>1, <2>2, <2>3 DEF TranslateObject, FlatObject, ObjectType
<1>4. [i \in DOMAIN objs |-> TranslateObject(owned, next, objs, i)]
        \in [1 .. Len(objs) -> FlatObject]
  BY <1>3
<1>5. [i \in DOMAIN objs |-> TranslateObject(owned, next, objs, i)]
        \in Seq(FlatObject)
  <2>1. Len(objs) \in Nat
    OBVIOUS
  <2>2. \A f, n \in Nat : f \in [1 .. n -> FlatObject] => f \in Seq(FlatObject)
    OBVIOUS
  <2> QED
    BY <1>4, <2>1, <2>2
<1> QED
  BY <1>2, <1>5

-----------------------------------------------------------------------------
(***************************************************************************)
(* The state of a translation: the registry's table and the object maps    *)
(* agree, all their handles are below the next one, and a session that was *)
(* not accepted owns nothing.                                              *)
(***************************************************************************)
TranslationInSync(w) ==
  /\ w.next \in Nat \ {0}
  /\ IsMap(w.handles, 1 .. w.next - 1, Sessions)
  /\ DOMAIN w.objects = Sessions
  /\ \A s \in Sessions : IsMap(w.objects[s], 1 .. w.next - 1, BinderObject)
  /\ w.flat \in Seq(FlatObject)
  /\ w.status \in Status
  /\ \A h \in DOMAIN w.handles :
       Live(w.handles[h]) /\ h \in DOMAIN w.objects[w.handles[h]]
  /\ \A s \in Sessions : Live(s) =>
       \A h \in DOMAIN w.objects[s] : h \in DOMAIN w.handles /\ w.handles[h] = s
  /\ \A s \in Sessions : session[s] = "none" => w.objects[s] = EmptyMap

(* TranslateObjects keeps the registry and the object maps in agreement,   *)
(* run by any live session: the handles it adds are new to both, and it    *)
(* adds them to both under the same session.                               *)
LEMMA TranslateObjectsKeepsSync ==
  ASSUME NEW w, TranslationInSync(w), NEW owner \in Sessions, Live(owner)
  PROVE  /\ TranslationInSync(TranslateObjects(owner, w))
         /\ DOMAIN w.handles \subseteq DOMAIN TranslateObjects(owner, w).handles
<1> DEFINE v     == TranslateObjects(owner, w)
           fresh == NewHandles(w.next, w.flat)
           n     == Cardinality(Exported(w.flat))
           owned == w.objects[owner]
<1>1. /\ w.next \in Nat \ {0} /\ w.flat \in Seq(FlatObject)
      /\ DOMAIN w.objects = Sessions
  BY DEF TranslationInSync
<1>2. /\ v.next = w.next + n
      /\ v.handles = NewObjectHandles(w.handles, fresh, owner)
      /\ v.objects = [w.objects EXCEPT
                        ![owner] = WithExports(owned, w.next, w.flat)]
      /\ v.flat = [i \in DOMAIN w.flat |->
                     TranslateObject(owned, w.next, w.flat, i)]
      /\ v.status \in Status
  BY DEF TranslateObjects, Status
<1>3. n \in Nat
  BY <1>1, HandleAtType
<1>4. \A h \in fresh : h \in Nat /\ h >= w.next /\ h < w.next + n
  <2>1. Exported(w.flat) \subseteq DOMAIN w.flat
    BY DEF Exported, Walked
  <2> QED
    BY <1>1, <2>1, HandleAtType DEF NewHandles
<1>5. /\ DOMAIN v.handles = DOMAIN w.handles \cup fresh
      /\ \A h \in DOMAIN w.handles : v.handles[h] = w.handles[h]
      /\ \A h \in fresh \ DOMAIN w.handles : v.handles[h] = owner
  BY <1>2 DEF NewObjectHandles
<1>6. /\ DOMAIN v.objects = Sessions
      /\ \A s \in Sessions \ {owner} : v.objects[s] = w.objects[s]
      /\ v.objects[owner] = WithExports(owned, w.next, w.flat)
      /\ DOMAIN v.objects[owner] = DOMAIN owned \cup fresh
  BY <1>1, <1>2 DEF WithExports
<1>7. /\ DOMAIN w.handles \subseteq 1 .. w.next - 1
      /\ \A s \in Sessions : DOMAIN w.objects[s] \subseteq 1 .. w.next - 1
      /\ \A s \in Sessions : IsMap(w.objects[s], Nat, BinderObject)
  BY DEF TranslationInSync, IsMap
<1>8. /\ v.flat \in Seq(FlatObject)
      /\ IsMap(v.objects[owner], Nat, BinderObject)
  BY <1>1, <1>2, <1>6, <1>7, TranslateObjectType
<1>9. v.next \in Nat \ {0} /\ 1 .. w.next - 1 \subseteq 1 .. v.next - 1
  BY <1>1, <1>2, <1>3
<1>10. fresh \subseteq 1 .. v.next - 1 /\ \A h \in fresh : h \notin 1 .. w.next - 1
  BY <1>1, <1>2, <1>3, <1>4
<1> HIDE DEF v, fresh, n, owned
<1>11. IsMap(v.handles, 1 .. v.next - 1, Sessions)
  <2>1. DOMAIN v.handles \subseteq 1 .. v.next - 1
    BY <1>5, <1>7, <1>9, <1>10
  <2>2. \A h \in DOMAIN v.handles : v.handles[h] \in Sessions
    BY <1>5 DEF TranslationInSync, IsMap
  <2>3. v.handles \in [DOMAIN v.handles -> Sessions]
    BY <1>2, <2>2 DEF NewObjectHandles
  <2> QED
    BY <2>1, <2>3 DEF IsMap
<1>12. ASSUME NEW s \in Sessions
       PROVE  IsMap(v.objects[s], 1 .. v.next - 1, BinderObject)
  <2>1. CASE s = owner
    <3>1. DOMAIN owned \subseteq 1 .. w.next - 1
      BY <1>7 DEF owned
    <3>2. DOMAIN v.objects[owner] \subseteq 1 .. v.next - 1
      BY <3>1, <1>6, <1>9, <1>10
    <3> QED
      BY <2>1, <3>2, <1>8 DEF IsMap
  <2>2. CASE s # owner
    BY <2>2, <1>6, <1>7, <1>9 DEF IsMap
  <2> QED
    BY <2>1, <2>2
<1>13. ASSUME NEW h \in DOMAIN v.handles
       PROVE  Live(v.handles[h]) /\ h \in DOMAIN v.objects[v.handles[h]]
  <2>1. CASE h \in DOMAIN w.handles
    <3>1. Live(w.handles[h]) /\ h \in DOMAIN w.objects[w.handles[h]]
      BY <2>1 DEF TranslationInSync
    <3>2. w.handles[h] \in Sessions
      BY <2>1 DEF TranslationInSync, IsMap
    <3> QED
      BY <2>1, <3>1, <3>2, <1>5, <1>6 DEF owned
  <2>2. CASE h \notin DOMAIN w.handles
    BY <2>2, <1>5, <1>6
  <2> QED
    BY <2>1, <2>2
<1>14. ASSUME NEW s \in Sessions, Live(s), NEW h \in DOMAIN v.objects[s]
       PROVE  h \in DOMAIN v.handles /\ v.handles[h] = s
  <2>1. CASE h \in DOMAIN w.objects[s]
    BY <1>14, <2>1, <1>5 DEF TranslationInSync
  <2>2. CASE h \notin DOMAIN w.objects[s]
    <3>1. s = owner /\ h \in fresh
      BY <2>2, <1>6 DEF owned
    <3>2. h \notin DOMAIN w.handles
      BY <3>1, <1>7, <1>10
    <3> QED
      BY <3>1, <3>2, <1>5
  <2> QED
    BY <2>1, <2>2
<1>15. \A s \in Sessions : session[s] = "none" => v.objects[s] = EmptyMap
  <2>1. session[owner] # "none"
    BY DEF Live
  <2> QED
    BY <2>1, <1>6 DEF TranslationInSync
<1>16. TranslationInSync(v)
  BY <1>2, <1>6, <1>8, <1>9, <1>11, <1>12, <1>13, <1>14, <1>15
     DEF TranslationInSync
<1> QED
  BY <1>5, <1>16 DEF v

-----------------------------------------------------------------------------
(***************************************************************************)
(* Well-typed messages.                                                    *)
(***************************************************************************)

(* Reading the header of a message leaves a message.                       *)
LEMMA UnpackType ==
  ASSUME NEW msg \in Message
  PROVE  Unpack(msg) \in Message
<1>1. ReadValue(msg.cookie) \in Nat /\ ReadValue(msg.destination) \in Nat
  BY DEF Message, ReadValue
<1> QED
  BY <1>1 DEF Unpack, Message

(* A message made of integers is a message.                                *)
LEMMA NewMessageType ==
  ASSUME NEW type \in MessageType, NEW cookie \in Nat, NEW words \in Seq(Int)
  PROVE  NewMessage(type, cookie, words) \in Message
<1>1. << >> \in Seq(FlatObject)
  OBVIOUS
<1> QED
  BY <1>1 DEF NewMessage, Message

(* What WriteMessage and SendStatus put on the sockets is well typed.      *)
LEMMA WriteMessageType ==
  ASSUME NEW monitor \in Sessions \cup {NoSession}, NEW to \in Sessions,
         NEW n \in Nat, NEW msg \in Message
  PROVE  /\ ForwardToMonitor(monitor, n, msg) \subseteq Write
         /\ WriteMessage(monitor, to, n, msg) \subseteq Write
<1>1. TRUE \in BOOLEAN /\ FALSE \in BOOLEAN
  OBVIOUS
<1>2. ASSUME NEW r \in Sessions, NEW log \in BOOLEAN
      PROVE  [to |-> r, n |-> n, log |-> log, msg |-> msg] \in Write
  BY Zenon DEF Write
<1>3. ForwardToMonitor(monitor, n, msg) \subseteq Write
  BY <1>1, <1>2, Zenon DEF ForwardToMonitor
<1>4. [to |-> to, n |-> n, log |-> FALSE, msg |-> msg] \in Write
  BY <1>1, <1>2, Zenon
<1> QED
  BY <1>3, <1>4, Zenon DEF WriteMessage

(* A Status answering a message of a session is a well-typed write.        *)
LEMMA SendStatusType ==
  ASSUME NEW monitor \in Sessions \cup {NoSession}, NEW to \in Sessions,
         NEW n \in Nat, NEW msg \in Message, NEW status \in Status
  PROVE  SendStatus(monitor, to, n, msg, status) \subseteq Write
<1>1. msg.cookie \in Nat
  BY DEF Message
<1>2. status \in Int
  BY DEF Status, OK, NameNotFound, AlreadyExists, BadValue, DeadObject,
         InvalidOperation
<1>3. NewMessage("Status", msg.cookie, <<status>>) \in Message
  <2>1. "Status" \in MessageType
    BY DEF MessageType
  <2>2. <<status>> \in Seq(Int)
    BY <1>2
  <2> QED
    BY <1>1, <2>1, <2>2, NewMessageType
<1> QED
  BY <1>3, WriteMessageType DEF SendStatus

-----------------------------------------------------------------------------
(***************************************************************************)
(* The inductive invariant.                                                *)
(***************************************************************************)

(* It holds of a server that has just been started.                        *)
LEMMA InitIInv == Init => IInv
<1> SUFFICES ASSUME Init PROVE IInv
  OBVIOUS
<1>1. IsMap(EmptyMap, Nat, Nat) /\ DOMAIN EmptyMap = {}
  BY DEF IsMap, EmptyMap
<1>2. \A K, V : IsMap(EmptyMap, K, V)
  BY DEF IsMap, EmptyMap
<1>3. TypeOK
  BY <1>2, MaxHandleAssumption, MaxTransactionsAssumption
     DEF Init, RegistryInit, TypeOK, RegistryTypeOK, SessionState
<1>4. RegistryInSync /\ RolesAreLive /\ ReferencesAreKnown
  BY <1>1 DEF Init, RegistryInit, RegistryInSync, RolesAreLive,
             ReferencesAreKnown, Live
<1>5. HandlesAreAllocated /\ UnstartedExportsNothing
  BY <1>1 DEF Init, RegistryInit, HandlesAreAllocated, UnstartedExportsNothing
<1> QED
  BY <1>3, <1>4, <1>5 DEF IInv

(* A handler that leaves the registry's table, the object maps and the     *)
(* life of the sessions alone keeps what the invariant says of them.       *)
LEMMA FrameIInv ==
  ASSUME IInv, TypeOK', RolesAreLive', ReferencesAreKnown',
         UNCHANGED <<next_object_handle_, handles_, objects_, session>>
  PROVE  IInv'
  BY DEF IInv, RegistryInSync, HandlesAreAllocated, UnstartedExportsNothing,
         Live

(* OnSetContextManager: the only role it gives out goes to the session     *)
(* that sent the message, which is open.                                   *)
LEMMA OnSetContextManagerIInv ==
  ASSUME IInv, NEW s \in Sessions, session[s] = "open", NEW msg \in Message,
         OnSetContextManager(s, msg),
         handled' \subseteq [from : Sessions, msg : Message]
  PROVE  IInv'
<1>1. /\ monitor_ \in Sessions \cup {NoSession}
      /\ context_mgr_' \in Sessions \cup {NoSession}
  BY DEF IInv, TypeOK, RegistryTypeOK, OnSetContextManager
<1>2. written' \subseteq Write
  <2>1. OK \in Status /\ AlreadyExists \in Status
    BY DEF Status
  <2> QED
    BY <1>1, <2>1, WriteMessageType, SendStatusType DEF OnSetContextManager
<1>3. TypeOK'
  BY <1>1, <1>2 DEF IInv, TypeOK, RegistryTypeOK, OnSetContextManager,
                    session_vars
<1>4. RolesAreLive' /\ ReferencesAreKnown'
  BY DEF IInv, RolesAreLive, ReferencesAreKnown, Live, OnSetContextManager,
         session_vars
<1> QED
  BY <1>3, <1>4, FrameIInv DEF OnSetContextManager, session_vars

(* OnSetMonitor: as for the context manager.                               *)
LEMMA OnSetMonitorIInv ==
  ASSUME IInv, NEW s \in Sessions, session[s] = "open", NEW msg \in Message,
         OnSetMonitor(s, msg),
         handled' \subseteq [from : Sessions, msg : Message]
  PROVE  IInv'
<1>1. monitor_' \in Sessions \cup {NoSession}
  BY DEF IInv, TypeOK, RegistryTypeOK, OnSetMonitor
<1>2. written' \subseteq Write
  <2>1. OK \in Status /\ AlreadyExists \in Status
    BY DEF Status
  <2> QED
    BY <1>1, <2>1, SendStatusType DEF OnSetMonitor
<1>3. TypeOK'
  BY <1>1, <1>2 DEF IInv, TypeOK, RegistryTypeOK, OnSetMonitor, session_vars
<1>4. RolesAreLive' /\ ReferencesAreKnown'
  BY DEF IInv, RolesAreLive, ReferencesAreKnown, Live, OnSetMonitor,
         session_vars
<1> QED
  BY <1>3, <1>4, FrameIInv DEF OnSetMonitor, session_vars

(* The two handlers that only write a Status, OnUnsupported and the catch  *)
(* block of OnTransaction, change nothing the invariant is about.          *)
LEMMA AnswerOnlyIInv ==
  ASSUME IInv, NEW s \in Sessions, NEW msg \in Message,
         NEW status \in Status,
         written' = SendStatus(monitor_, s, 1, msg, status),
         UNCHANGED <<registry_vars, session_vars>>,
         handled' \subseteq [from : Sessions, msg : Message]
  PROVE  IInv'
<1>1. written' \subseteq Write
  BY SendStatusType DEF IInv, TypeOK, RegistryTypeOK
<1>2. TypeOK'
  BY <1>1 DEF IInv, TypeOK, RegistryTypeOK, registry_vars, session_vars
<1>3. RolesAreLive' /\ ReferencesAreKnown'
  BY DEF IInv, RolesAreLive, ReferencesAreKnown, Live, registry_vars,
         session_vars
<1> QED
  BY <1>2, <1>3, FrameIInv DEF registry_vars, session_vars

(* OnReply takes a record out of one map and passes the message on to a    *)
(* session the record names, so the maps and the writes stay well typed.   *)
LEMMA OnReplyIInv ==
  ASSUME IInv, NEW s \in Sessions, session[s] = "open", NEW msg \in Message,
         OnReply(s, msg),
         handled' \subseteq [from : Sessions, msg : Message]
  PROVE  IInv'
<1>1. TypeOK
  BY DEF IInv
<1>2. IsMap(pending_transactions_[s], Nat, TransactionRecord)
  BY <1>1 DEF TypeOK
<1>3. CASE msg.cookie \notin DOMAIN pending_transactions_[s]
  BY <1>1, <1>3 DEF OnReply, TypeOK, registry_vars, IInv, RegistryTypeOK,
     RegistryInSync, RolesAreLive, ReferencesAreKnown, HandlesAreAllocated,
     UnstartedExportsNothing, Live
<1>4. CASE msg.cookie \in DOMAIN pending_transactions_[s]
  <2> DEFINE record == pending_transactions_[s][msg.cookie]
  <2>1. record.caller \in Sessions /\ record.reply_cookie \in Nat
    BY <1>2, <1>4 DEF IsMap, TransactionRecord
  <2>2. [msg EXCEPT !.cookie = record.reply_cookie] \in Message
    BY <2>1 DEF Message
  <2>3. written' \subseteq Write
    <3>1. monitor_ \in Sessions \cup {NoSession}
      BY <1>1 DEF TypeOK, RegistryTypeOK
    <3>2. written' = WriteMessage(monitor_, record.caller, 1,
                       [msg EXCEPT !.cookie = record.reply_cookie])
      BY <1>4 DEF OnReply
    <3> QED
      BY <2>1, <2>2, <3>1, <3>2, WriteMessageType
  <2>4. \A t \in Sessions :
          IsMap(pending_transactions_'[t], Nat, TransactionRecord)
    <3>1. IsMap(Erase(pending_transactions_[s], msg.cookie), Nat,
                TransactionRecord)
      BY <1>2 DEF Erase, IsMap
    <3> QED
      BY <1>1, <1>4, <3>1 DEF OnReply, TypeOK
  <2>5. TypeOK'
    BY <1>1, <1>4, <2>3, <2>4 DEF OnReply, TypeOK, RegistryTypeOK, registry_vars
  <2>6. RolesAreLive' /\ ReferencesAreKnown'
    BY DEF IInv, RolesAreLive, ReferencesAreKnown, Live, OnReply, registry_vars
  <2> QED
    BY <2>5, <2>6, FrameIInv DEF OnReply, registry_vars
<1> QED
  BY <1>3, <1>4

(* OnReference: a reference is added only under a known handle, and a      *)
(* count is only lowered when it is positive.                              *)
LEMMA OnReferenceIInv ==
  ASSUME IInv, NEW s \in Sessions, session[s] = "open", NEW msg \in Message,
         OnReference(s, msg),
         handled' \subseteq [from : Sessions, msg : Message]
  PROVE  IInv'
<1>1. TypeOK
  BY DEF IInv
<1> DEFINE handle == ReadValue(msg.words[1])
<1>2. PICK status \in Status :
        /\ \/ AddReferenceForHandle(s, handle, status)
           \/ RemoveReferenceForHandle(s, handle, status)
        /\ written' = SendStatus(monitor_, s, 1, msg, status)
  BY DEF OnReference
<1>3. UNCHANGED <<next_object_handle_, handles_, context_mgr_, monitor_,
                  session_vars>>
  BY DEF OnReference
<1> HIDE DEF handle
<1>4. written' \subseteq Write
  BY <1>1, <1>2, SendStatusType DEF TypeOK, RegistryTypeOK
<1>5. /\ IsMap(references_', Handles, [Sessions -> Nat])
      /\ ReferencesAreKnown'
  <2>1. CASE UNCHANGED references_
    BY <1>1, <1>3, <2>1 DEF TypeOK, RegistryTypeOK, IInv, ReferencesAreKnown
  <2>2. CASE AddReferenceForHandle(s, handle, status) /\ IsHandleKnown(handle)
    <3>1. handle \in DOMAIN handles_ /\ handle \in Handles
      BY <1>1, <2>2 DEF IsHandleKnown, TypeOK, RegistryTypeOK, IsMap
    <3>2. ReferencesTo(handle) \in [Sessions -> Nat]
      BY <1>1 DEF ReferencesTo, NoReferences, TypeOK, RegistryTypeOK, IsMap
    <3>3. [ReferencesTo(handle) EXCEPT ![s] = @ + 1] \in [Sessions -> Nat]
      BY <3>2
    <3>4. references_' = [h \in DOMAIN references_ \cup {handle} |->
            IF h = handle THEN [ReferencesTo(handle) EXCEPT ![s] = @ + 1]
                          ELSE references_[h]]
      BY <2>2 DEF AddReferenceForHandle
    <3>5. IsMap(references_', Handles, [Sessions -> Nat])
      BY <1>1, <3>1, <3>3, <3>4 DEF TypeOK, RegistryTypeOK, IsMap
    <3> QED
      BY <1>3, <3>1, <3>4, <3>5 DEF IInv, ReferencesAreKnown
  <2>3. CASE /\ RemoveReferenceForHandle(s, handle, status)
             /\ ReferencesTo(handle)[s] > 0
    <3>1. CASE handle \in DOMAIN references_
      <4>1. references_ \in [DOMAIN references_ -> [Sessions -> Nat]]
        BY <1>1 DEF TypeOK, RegistryTypeOK, IsMap
      <4>2. CASE references_' = [references_ EXCEPT ![handle][s] = @ - 1]
        <5>1. references_[handle][s] > 0
          BY <2>3, <3>1 DEF ReferencesTo
        <5>2. references_[handle][s] - 1 \in Nat
          BY <3>1, <4>1, <5>1
        <5>3. references_' \in [DOMAIN references_ -> [Sessions -> Nat]]
          BY <3>1, <4>1, <4>2, <5>2
        <5> QED
          BY <1>1, <1>3, <5>3 DEF TypeOK, RegistryTypeOK, IsMap, IInv,
             ReferencesAreKnown
      <4> QED
        BY <2>1, <2>3, <4>2 DEF RemoveReferenceForHandle
    <3>2. CASE handle \notin DOMAIN references_
      BY <2>3, <3>2 DEF ReferencesTo, NoReferences
    <3> QED
      BY <3>1, <3>2
  <2> QED
    BY <1>2, <2>1, <2>2, <2>3 DEF AddReferenceForHandle, RemoveReferenceForHandle
<1>6. TypeOK'
  BY <1>1, <1>3, <1>4, <1>5 DEF TypeOK, RegistryTypeOK, session_vars
<1>7. RolesAreLive'
  BY <1>3 DEF IInv, RolesAreLive, Live, session_vars
<1> QED
  BY <1>3, <1>5, <1>6, <1>7, FrameIInv DEF session_vars

(* OnDeathNotification, the branch that registers: the handle it stores is *)
(* what ReadValue returned, a natural number.                              *)
LEMMA OnRequestDeathNotificationIInv ==
  ASSUME IInv, NEW s \in Sessions, session[s] = "open", NEW msg \in Message,
         OnRequestDeathNotification(s, msg),
         handled' \subseteq [from : Sessions, msg : Message]
  PROVE  IInv'
<1>1. TypeOK
  BY DEF IInv
<1> DEFINE handle == ReadValue(msg.words[1])
           f == Insert(death_notifications_[s], handle, ReadValue(msg.words[2]))
<1>2. written' \subseteq Write
  <2>1. OK \in Status /\ AlreadyExists \in Status
    BY DEF Status
  <2>2. monitor_ \in Sessions \cup {NoSession}
    BY <1>1 DEF TypeOK, RegistryTypeOK
  <2>3. \/ written' = SendStatus(monitor_, s, 1, msg, OK)
        \/ written' = SendStatus(monitor_, s, 1, msg, AlreadyExists)
    BY DEF OnRequestDeathNotification
  <2> QED
    BY <2>1, <2>2, <2>3, SendStatusType
<1>3. \A t \in Sessions : IsMap(death_notifications_'[t], Nat, Nat)
  <2>1. CASE UNCHANGED death_notifications_
    BY <1>1, <2>1 DEF TypeOK
  <2>2. CASE death_notifications_' = [death_notifications_ EXCEPT ![s] = f]
    <3>1. IsMap(f, Nat, Nat)
      <4>1. handle \in Nat /\ ReadValue(msg.words[2]) \in Nat
        <5>1. msg.words[1] \in Int /\ msg.words[2] \in Int
          BY DEF OnRequestDeathNotification, Message
        <5> QED
          BY <5>1 DEF handle, ReadValue
      <4> QED
        BY <1>1, <2>2, <4>1 DEF TypeOK, IsMap, Insert
    <3> HIDE DEF f
    <3> QED
      BY <1>1, <2>2, <3>1 DEF TypeOK
  <2> QED
    BY <2>1, <2>2 DEF OnRequestDeathNotification
<1>4. DOMAIN death_notifications_' = Sessions
  BY <1>1 DEF OnRequestDeathNotification, TypeOK
<1>5. TypeOK'
  BY <1>1, <1>2, <1>3, <1>4
     DEF OnRequestDeathNotification, TypeOK, RegistryTypeOK, registry_vars
<1>6. RolesAreLive' /\ ReferencesAreKnown'
  BY DEF IInv, RolesAreLive, ReferencesAreKnown, Live, registry_vars,
         OnRequestDeathNotification
<1> QED
  BY <1>5, <1>6, FrameIInv DEF OnRequestDeathNotification, registry_vars

(* OnDeathNotification, the branch that clears: the map loses one entry.   *)
LEMMA OnClearDeathNotificationIInv ==
  ASSUME IInv, NEW s \in Sessions, session[s] = "open", NEW msg \in Message,
         OnClearDeathNotification(s, msg),
         handled' \subseteq [from : Sessions, msg : Message]
  PROVE  IInv'
<1>1. TypeOK
  BY DEF IInv
<1> DEFINE handle == ReadValue(msg.words[1])
           f == Erase(death_notifications_[s], handle)
<1>2. written' \subseteq Write
  <2>1. OK \in Status /\ BadValue \in Status
    BY DEF Status
  <2>2. monitor_ \in Sessions \cup {NoSession}
    BY <1>1 DEF TypeOK, RegistryTypeOK
  <2>3. \/ written' = SendStatus(monitor_, s, 1, msg, OK)
        \/ written' = SendStatus(monitor_, s, 1, msg, BadValue)
    BY DEF OnClearDeathNotification
  <2> QED
    BY <2>1, <2>2, <2>3, SendStatusType
<1>3. \A t \in Sessions : IsMap(death_notifications_'[t], Nat, Nat)
  <2>1. CASE UNCHANGED death_notifications_
    BY <1>1, <2>1 DEF TypeOK
  <2>2. CASE death_notifications_' = [death_notifications_ EXCEPT ![s] = f]
    <3>1. IsMap(f, Nat, Nat)
      BY <1>1 DEF TypeOK, IsMap, Erase
    <3> HIDE DEF f
    <3> QED
      BY <1>1, <2>2, <3>1 DEF TypeOK
  <2> QED
    BY <2>1, <2>2 DEF OnClearDeathNotification
<1>4. DOMAIN death_notifications_' = Sessions
  BY <1>1 DEF OnClearDeathNotification, TypeOK
<1>5. TypeOK'
  BY <1>1, <1>2, <1>3, <1>4
     DEF OnClearDeathNotification, TypeOK, RegistryTypeOK, registry_vars
<1>6. RolesAreLive' /\ ReferencesAreKnown'
  BY DEF IInv, RolesAreLive, ReferencesAreKnown, Live, registry_vars,
         OnClearDeathNotification
<1> QED
  BY <1>5, <1>6, FrameIInv DEF OnClearDeathNotification, registry_vars

(* The invariant says of the server's state what TranslationInSync says of *)
(* a translation that starts from it, and back.                            *)
LEMMA UntranslatedInSync ==
  ASSUME IInv, NEW msg \in Message
  PROVE  TranslationInSync(Untranslated(msg))
<1> DEFINE u == Untranslated(msg)
<1>1. /\ u.next = next_object_handle_ /\ u.handles = handles_
      /\ u.objects = objects_ /\ u.flat = msg.objects /\ u.status = OK
  BY DEF Untranslated
<1> HIDE DEF u
<1>2. TypeOK /\ HandlesAreAllocated
  BY DEF IInv
<1>3. next_object_handle_ \in Nat \ {0} /\ Handles \subseteq Nat \ {0}
  BY <1>2, MaxHandleAssumption DEF TypeOK, RegistryTypeOK, Handles
<1>4. IsMap(handles_, 1 .. next_object_handle_ - 1, Sessions)
  BY <1>2, <1>3 DEF TypeOK, RegistryTypeOK, IsMap, HandlesAreAllocated
<1>5. \A s \in Sessions :
        IsMap(objects_[s], 1 .. next_object_handle_ - 1, BinderObject)
  <2> SUFFICES ASSUME NEW s \in Sessions
               PROVE  IsMap(objects_[s], 1 .. next_object_handle_ - 1,
                            BinderObject)
    OBVIOUS
  <2>1. IsMap(objects_[s], Handles, BinderObject)
    BY <1>2 DEF TypeOK
  <2>2. \A h \in DOMAIN objects_[s] : h < next_object_handle_
    BY <1>2 DEF HandlesAreAllocated
  <2>3. DOMAIN objects_[s] \subseteq Handles
    BY <2>1 DEF IsMap
  <2>4. ASSUME NEW h \in DOMAIN objects_[s]
        PROVE  h \in 1 .. next_object_handle_ - 1
    <3>1. h \in Nat \ {0} /\ h < next_object_handle_
      BY <1>3, <2>2, <2>3
    <3> QED
      BY <1>3, <3>1
  <2> QED
    BY <2>1, <2>4 DEF IsMap
<1>6. u.flat \in Seq(FlatObject) /\ u.status \in Status
  BY <1>1 DEF Message, Status
<1>7. /\ \A h \in DOMAIN u.handles :
           Live(u.handles[h]) /\ h \in DOMAIN u.objects[u.handles[h]]
      /\ \A s \in Sessions : Live(s) =>
           \A h \in DOMAIN u.objects[s] :
             h \in DOMAIN u.handles /\ u.handles[h] = s
  BY <1>1 DEF IInv, RegistryInSync
<1>8. \A s \in Sessions : session[s] = "none" => u.objects[s] = EmptyMap
  BY <1>1 DEF IInv, UnstartedExportsNothing
<1>9. DOMAIN u.objects = Sessions
  BY <1>1, <1>2 DEF TypeOK
<1>10. TranslationInSync(u)
  BY <1>1, <1>3, <1>4, <1>5, <1>6, <1>7, <1>8, <1>9 DEF TranslationInSync
<1> QED
  BY <1>10 DEF u

(* Storing a translation that is in sync keeps the registry in sync.       *)
LEMMA StoreTranslationIInv ==
  ASSUME IInv, NEW v, TranslationInSync(v), StoreTranslation(v),
         DOMAIN handles_ \subseteq DOMAIN v.handles,
         UNCHANGED <<references_, context_mgr_, monitor_, session,
                     death_notifications_>>,
         next_transaction_cookie_' \in [Sessions -> 0 .. MaxTransactions],
         DOMAIN pending_transactions_' = Sessions,
         \A t \in Sessions :
           IsMap(pending_transactions_'[t], Nat, TransactionRecord),
         written' \subseteq Write,
         handled' \subseteq [from : Sessions, msg : Message]
  PROVE  IInv'
<1>1. /\ next_object_handle_' = v.next /\ handles_' = v.handles
      /\ objects_' = v.objects /\ v.next <= MaxHandle + 1
  BY DEF StoreTranslation
<1>2. v.next \in 1 .. MaxHandle + 1 /\ 1 .. v.next - 1 \subseteq Handles
  BY <1>1, MaxHandleAssumption DEF TranslationInSync, Handles
<1>3. /\ IsMap(handles_', Handles, Sessions)
      /\ \A t \in Sessions : IsMap(objects_'[t], Handles, BinderObject)
  BY <1>1, <1>2 DEF TranslationInSync, IsMap
<1>4. DOMAIN objects_' = Sessions
  BY <1>1 DEF TranslationInSync
<1>5. TypeOK'
  BY <1>1, <1>2, <1>3, <1>4 DEF IInv, TypeOK, RegistryTypeOK, Handles
<1>6. RegistryInSync' /\ UnstartedExportsNothing'
  BY <1>1 DEF TranslationInSync, RegistryInSync, UnstartedExportsNothing, Live
<1>7. RolesAreLive' /\ ReferencesAreKnown'
  BY <1>1 DEF IInv, RolesAreLive, ReferencesAreKnown, Live
<1>8. HandlesAreAllocated'
  <2>1. /\ DOMAIN v.handles \subseteq 1 .. v.next - 1
        /\ \A t \in Sessions : DOMAIN v.objects[t] \subseteq 1 .. v.next - 1
    BY DEF TranslationInSync, IsMap
  <2> QED
    BY <1>1, <1>2, <2>1 DEF HandlesAreAllocated
<1> QED
  BY <1>5, <1>6, <1>7, <1>8 DEF IInv

(* OnTransaction with all it calls: both walks over the objects keep the   *)
(* registry in sync, whatever the outcome of PostTransaction.              *)
LEMMA OnTransactionIInv ==
  ASSUME IInv, NEW s \in Sessions, session[s] = "open", NEW msg \in Message,
         OnTransaction(s, msg),
         handled' \subseteq [from : Sessions, msg : Message]
  PROVE  IInv'
<1> DEFINE u == Untranslated(msg)
           w == TranslateObjects(s, u)
           target == FindSessionByHandle(w.handles, msg.destination)
<1>1. TypeOK /\ monitor_ \in Sessions \cup {NoSession}
  BY DEF IInv, TypeOK, RegistryTypeOK
<1>2. /\ TranslationInSync(w)
      /\ DOMAIN handles_ \subseteq DOMAIN w.handles
  <2>1. Live(s) /\ u.handles = handles_
    BY DEF Live, Untranslated
  <2> QED
    BY <2>1, UntranslatedInSync, TranslateObjectsKeepsSync
<1>3. UNCHANGED <<references_, context_mgr_, monitor_, session,
                  death_notifications_>>
  BY DEF OnTransaction
<1>4. \/ /\ target = NoSession
         /\ StoreTranslation(w)
         /\ written' = SendStatus(monitor_, s, 1, msg, NameNotFound)
         /\ UNCHANGED <<next_transaction_cookie_, pending_transactions_>>
      \/ /\ target # NoSession
         /\ PostTransaction(target, s, msg, w)
  BY DEF OnTransaction
<1>5. target # NoSession => target \in Sessions /\ Live(target)
  <2>1. context_mgr_ # NoSession => context_mgr_ \in Sessions /\ Live(context_mgr_)
    BY <1>1 DEF IInv, RolesAreLive, TypeOK, RegistryTypeOK
  <2>2. \A h \in DOMAIN w.handles : w.handles[h] \in Sessions /\ Live(w.handles[h])
    BY <1>2 DEF TranslationInSync, IsMap
  <2> HIDE DEF w
  <2> QED
    BY <2>1, <2>2 DEF FindSessionByHandle
<1>6. msg.cookie \in Nat /\ msg.destination \in Nat
  BY DEF Message
<1> HIDE DEF w, target, u
<1>7. CASE target = NoSession
  <2>1. NameNotFound \in Status
    BY DEF Status
  <2>2. written' \subseteq Write
    BY <1>1, <1>4, <1>7, <2>1, SendStatusType
  <2>3. /\ StoreTranslation(w)
        /\ UNCHANGED <<next_transaction_cookie_, pending_transactions_>>
    BY <1>4, <1>7
  <2>4. /\ next_transaction_cookie_' \in [Sessions -> 0 .. MaxTransactions]
        /\ DOMAIN pending_transactions_' = Sessions
        /\ \A t \in Sessions :
             IsMap(pending_transactions_'[t], Nat, TransactionRecord)
    BY <1>1, <2>3 DEF TypeOK
  <2> QED
    BY <1>2, <1>3, <2>2, <2>3, <2>4, StoreTranslationIInv
<1>8. CASE target # NoSession
  <2> DEFINE found == HasDestination(target, msg, w)
             p == TranslateObjects(target, w)
             posted == IF found THEN p ELSE [w EXCEPT !.status = InvalidOperation]
             c == next_transaction_cookie_[target]
             record == [caller |-> s, reply_cookie |-> msg.cookie]
  <2>1. target \in Sessions /\ Live(target)
    BY <1>5, <1>8
  <2>2. PostTransaction(target, s, msg, w)
    BY <1>4, <1>8
  <2>3. /\ TranslationInSync(p)
        /\ DOMAIN w.handles \subseteq DOMAIN p.handles
    BY <1>2, <2>1, TranslateObjectsKeepsSync
  <2>4. /\ TranslationInSync(posted)
        /\ DOMAIN handles_ \subseteq DOMAIN posted.handles
        /\ posted.status \in Status
    <3>1. CASE found
      BY <3>1, <1>2, <2>3 DEF TranslationInSync
    <3>2. CASE ~found
      <4>1. /\ posted.next = w.next /\ posted.handles = w.handles
            /\ posted.objects = w.objects /\ posted.flat = w.flat
            /\ posted.status = InvalidOperation
        <5>1. w = [next |-> w.next, handles |-> w.handles,
                   objects |-> w.objects, flat |-> w.flat, status |-> w.status]
          BY DEF w, TranslateObjects
        <5> QED
          BY <3>2, <5>1
      <4>2. InvalidOperation \in Status
        BY DEF Status
      <4> HIDE DEF posted
      <4> QED
        BY <1>2, <4>1, <4>2 DEF TranslationInSync
    <3> QED
      BY <3>1, <3>2
  <2>5. /\ StoreTranslation(posted)
        /\ c < MaxTransactions
        /\ next_transaction_cookie_' =
             [next_transaction_cookie_ EXCEPT ![target] = c + 1]
        /\ \/ /\ written' = SendStatus(monitor_, s, 1, msg, posted.status)
              /\ UNCHANGED pending_transactions_
           \/ /\ found
              /\ written' = WriteMessage(monitor_, target, 1,
                               PostedMessage(target, msg, w))
                            \cup SendStatus(monitor_, s, 2, msg, OK)
              /\ pending_transactions_' = [pending_transactions_ EXCEPT
                   ![target] = Insert(@, c, record)]
    <3>1. InvalidOperation # OK
      BY DEF InvalidOperation, OK
    <3>2. ~found => posted.status = InvalidOperation
      BY DEF w, TranslateObjects
    <3> QED
      BY <2>2, <3>1, <3>2 DEF PostTransaction
  <2>6. c \in Nat /\ c + 1 \in 0 .. MaxTransactions
    BY <1>1, <2>1, <2>5, MaxTransactionsAssumption DEF TypeOK
  <2>7. PostedMessage(target, msg, w) \in Message
    <3> DEFINE obj == IF msg.destination \in DOMAIN w.objects[target]
                        THEN w.objects[target][msg.destination]
                        ELSE [binder |-> 0, cookie |-> 0]
    <3>1. obj \in BinderObject
      BY <1>2, <2>1 DEF TranslationInSync, IsMap, BinderObject
    <3>2. <<obj.binder, obj.cookie>> \in Seq(Int)
      BY <3>1 DEF BinderObject
    <3>3. p.flat \in Seq(FlatObject)
      BY <2>3 DEF TranslationInSync
    <3>4. PostedMessage(target, msg, w) =
            [type |-> "Transaction", cookie |-> c,
             destination |-> msg.destination,
             words |-> <<obj.binder, obj.cookie>>, objects |-> p.flat]
      BY DEF PostedMessage
    <3>5. "Transaction" \in MessageType
      BY DEF MessageType
    <3> HIDE DEF obj, p, c
    <3> QED
      BY <1>6, <2>6, <3>2, <3>3, <3>4, <3>5 DEF Message
  <2> HIDE DEF posted, found, p, c
  <2>8. written' \subseteq Write
    <3>1. /\ WriteMessage(monitor_, target, 1, PostedMessage(target, msg, w))
               \subseteq Write
          /\ SendStatus(monitor_, s, 2, msg, OK) \subseteq Write
          /\ SendStatus(monitor_, s, 1, msg, posted.status) \subseteq Write
      <4>1. OK \in Status
        BY DEF Status
      <4> QED
        BY <1>1, <2>1, <2>4, <2>7, <4>1, WriteMessageType, SendStatusType
    <3> QED
      BY <2>5, <3>1
  <2>9. next_transaction_cookie_' \in [Sessions -> 0 .. MaxTransactions]
    BY <1>1, <2>1, <2>5, <2>6 DEF TypeOK
  <2>10. /\ DOMAIN pending_transactions_' = Sessions
         /\ \A t \in Sessions :
              IsMap(pending_transactions_'[t], Nat, TransactionRecord)
    <3>1. record \in TransactionRecord
      BY <1>6 DEF TransactionRecord
    <3>2. IsMap(Insert(pending_transactions_[target], c, record), Nat,
                TransactionRecord)
      BY <1>1, <2>1, <2>6, <3>1 DEF TypeOK, IsMap, Insert
    <3> QED
      BY <1>1, <2>1, <2>5, <3>2 DEF TypeOK
  <2> QED
    BY <1>3, <2>4, <2>5, <2>8, <2>9, <2>10, StoreTranslationIInv
<1> QED
  BY <1>7, <1>8

(* A read handler that throws leaves a stalled session, which still counts *)
(* as live: its objects stay known and its roles stay taken.               *)
LEMMA ReadHandlerThrowsIInv ==
  ASSUME IInv, NEW s \in Sessions, session[s] = "open", NEW msg \in Message,
         ReadHandlerThrows(s, msg),
         handled' \subseteq [from : Sessions, msg : Message]
  PROVE  IInv'
<1>1. /\ UNCHANGED <<registry_vars, next_transaction_cookie_,
                     pending_transactions_, objects_, death_notifications_>>
      /\ session' = [session EXCEPT ![s] = "stalled"]
      /\ written' = {}
  BY DEF ReadHandlerThrows
<1>2. session \in [Sessions -> SessionState]
  BY DEF IInv, TypeOK
<1>3. /\ session' \in [Sessions -> SessionState]
      /\ \A t \in Sessions : Live(t)' <=> Live(t)
      /\ \A t \in Sessions : session'[t] = "none" => session[t] = "none"
  BY <1>1, <1>2 DEF Live, SessionState
<1>4. TypeOK'
  BY <1>1, <1>3 DEF IInv, TypeOK, RegistryTypeOK, registry_vars
<1>5. RegistryInSync' /\ RolesAreLive'
  BY <1>1, <1>3 DEF IInv, TypeOK, RegistryTypeOK, IsMap, RegistryInSync,
     RolesAreLive, registry_vars
<1>6. ReferencesAreKnown' /\ HandlesAreAllocated' /\ UnstartedExportsNothing'
  BY <1>1, <1>3 DEF IInv, ReferencesAreKnown, HandlesAreAllocated,
     UnstartedExportsNothing, registry_vars
<1> QED
  BY <1>4, <1>5, <1>6 DEF IInv

(* A session that becomes live owns no objects yet, so there is nothing    *)
(* the registry could fail to know.                                        *)
LEMMA StartAcceptIInv ==
  ASSUME IInv, NEW s \in Sessions, StartAccept(s)
  PROVE  IInv'
<1>1. /\ UNCHANGED <<registry_vars, next_transaction_cookie_,
                     pending_transactions_, objects_, death_notifications_>>
      /\ session[s] = "none"
      /\ session' = [session EXCEPT ![s] = "open"]
      /\ written' = {} /\ handled' = {}
  BY DEF StartAccept
<1>2. session \in [Sessions -> SessionState]
  BY DEF IInv, TypeOK
<1>3. /\ session' \in [Sessions -> SessionState]
      /\ \A t \in Sessions : Live(t)' <=> Live(t) \/ t = s
      /\ \A t \in Sessions : session'[t] = "none" => session[t] = "none"
  BY <1>1, <1>2 DEF Live, SessionState
<1>4. DOMAIN objects_[s] = {}
  BY <1>1 DEF IInv, UnstartedExportsNothing, EmptyMap
<1>5. TypeOK'
  BY <1>1, <1>3 DEF IInv, TypeOK, RegistryTypeOK, registry_vars
<1>6. RegistryInSync'
  <2>1. /\ handles_' = handles_ /\ objects_' = objects_
        /\ \A h \in DOMAIN handles_ : handles_[h] \in Sessions
    BY <1>1 DEF IInv, TypeOK, RegistryTypeOK, IsMap, registry_vars
  <2>2. RegistryInSync
    BY DEF IInv
  <2> QED
    BY <1>3, <1>4, <2>1, <2>2 DEF RegistryInSync, Live
<1>7. RolesAreLive'
  BY <1>1, <1>3 DEF IInv, TypeOK, RegistryTypeOK, RolesAreLive, Live,
     registry_vars
<1>8. ReferencesAreKnown' /\ HandlesAreAllocated' /\ UnstartedExportsNothing'
  BY <1>1, <1>3 DEF IInv, ReferencesAreKnown, HandlesAreAllocated,
     UnstartedExportsNothing, registry_vars
<1> QED
  BY <1>5, <1>6, <1>7, <1>8 DEF IInv

(* The death notifications of any set of handles are well-typed writes.    *)
LEMMA DeathNotificationsType ==
  ASSUME TypeOK, NEW dead
  PROVE  DeathNotifications(dead) \subseteq Write
<1>1. ASSUME NEW h \in DOMAIN handles_, NEW s \in Sessions, NEW k \in Nat
      PROVE  SendDeathNotification(s, h, k) \subseteq Write
  <2>1. CASE h \notin DOMAIN death_notifications_[s]
    BY <2>1 DEF SendDeathNotification
  <2>2. CASE h \in DOMAIN death_notifications_[s]
    <3> DEFINE id == death_notifications_[s][h]
    <3>1. h \in Nat /\ id \in Nat
      BY <2>2 DEF TypeOK, IsMap
    <3>2. <<h, id>> \in Seq(Int) /\ "DeadBinder" \in MessageType /\ 0 \in Nat
      BY <3>1 DEF MessageType
    <3>3. NewMessage("DeadBinder", 0, <<h, id>>) \in Message
      BY <3>2, NewMessageType
    <3>4. monitor_ \in Sessions \cup {NoSession}
      BY DEF TypeOK, RegistryTypeOK
    <3> QED
      BY <2>2, <3>3, <3>4, WriteMessageType DEF SendDeathNotification
  <2> QED
    BY <2>1, <2>2
<1> QED
  BY <1>1 DEF DeathNotifications

(* Terminate takes every handle of the session, with its references, out   *)
(* of the registry and gives up both roles in the same step.               *)
LEMMA TerminateIInv ==
  ASSUME IInv, NEW s \in Sessions, Terminate(s)
  PROVE  IInv'
<1> DEFINE dead == DOMAIN objects_[s]
<1>1. /\ UNCHANGED <<next_object_handle_, next_transaction_cookie_,
                     pending_transactions_, objects_, death_notifications_>>
      /\ session[s] = "open"
      /\ session' = [session EXCEPT ![s] = "closed"]
      /\ context_mgr_' = IF context_mgr_ = s THEN NoSession ELSE context_mgr_
      /\ monitor_' = IF monitor_ = s THEN NoSession ELSE monitor_
      /\ handled' = {}
  BY DEF Terminate
<1>2. /\ references_' = [h \in DOMAIN references_ \ (dead \cap DOMAIN handles_) |->
                          references_[h]]
      /\ handles_' = [h \in DOMAIN handles_ \ dead |-> handles_[h]]
  BY DEF Terminate, RemoveHandles
<1>3. TypeOK
  BY DEF IInv
<1>4. /\ session' \in [Sessions -> SessionState]
      /\ \A t \in Sessions : Live(t)' <=> Live(t) /\ t # s
      /\ \A t \in Sessions : session'[t] = "none" => session[t] = "none"
  BY <1>1, <1>3 DEF Live, SessionState, TypeOK
<1>5. written' \subseteq Write
  BY <1>3, DeathNotificationsType DEF Terminate
<1>6. \A h \in DOMAIN handles_ : handles_[h] = s <=> h \in dead
  <2>1. Live(s)
    BY <1>1 DEF Live
  <2> QED
    BY <2>1 DEF IInv, RegistryInSync
<1> HIDE DEF dead
<1>7. /\ IsMap(handles_', Handles, Sessions)
      /\ IsMap(references_', Handles, [Sessions -> Nat])
  BY <1>2, <1>3 DEF TypeOK, RegistryTypeOK, IsMap
<1>8. TypeOK'
  <2>1. RegistryTypeOK'
    BY <1>1, <1>3, <1>7 DEF TypeOK, RegistryTypeOK
  <2> QED
    BY <1>1, <1>3, <1>4, <1>5, <2>1 DEF TypeOK
<1>9. RegistryInSync'
  <2>1. ASSUME NEW h \in DOMAIN handles_'
        PROVE  /\ session'[handles_'[h]] \in {"open", "stalled"}
               /\ h \in DOMAIN objects_'[handles_'[h]]
    <3>1. /\ h \in DOMAIN handles_ /\ h \notin dead
          /\ handles_'[h] = handles_[h] /\ handles_[h] \in Sessions
      BY <1>2, <1>3 DEF TypeOK, RegistryTypeOK, IsMap
    <3>2. Live(handles_[h]) /\ h \in DOMAIN objects_[handles_[h]]
      BY <3>1 DEF IInv, RegistryInSync
    <3>3. handles_[h] # s
      BY <1>6, <3>1
    <3> QED
      BY <1>1, <1>4, <3>1, <3>2, <3>3 DEF Live
  <2>2. ASSUME NEW t \in Sessions, session'[t] \in {"open", "stalled"},
               NEW h \in DOMAIN objects_'[t]
        PROVE  h \in DOMAIN handles_' /\ handles_'[h] = t
    <3>1. Live(t) /\ t # s /\ h \in DOMAIN objects_[t]
      BY <1>1, <1>4, <2>2 DEF Live
    <3>2. h \in DOMAIN handles_ /\ handles_[h] = t
      BY <3>1 DEF IInv, RegistryInSync
    <3> QED
      BY <1>2, <1>6, <3>1, <3>2
  <2> QED
    BY <2>1, <2>2 DEF RegistryInSync, Live
<1>10. RolesAreLive'
  <2>1. context_mgr_' # NoSession => context_mgr_' = context_mgr_ /\ context_mgr_ # s
    BY <1>1
  <2>2. monitor_' # NoSession => monitor_' = monitor_ /\ monitor_ # s
    BY <1>1
  <2>3. /\ context_mgr_ # NoSession => context_mgr_ \in Sessions /\ Live(context_mgr_)
        /\ monitor_ # NoSession => monitor_ \in Sessions /\ Live(monitor_)
    BY <1>3 DEF IInv, RolesAreLive, TypeOK, RegistryTypeOK
  <2> QED
    BY <1>4, <2>1, <2>2, <2>3 DEF RolesAreLive
<1>11. ReferencesAreKnown' /\ HandlesAreAllocated' /\ UnstartedExportsNothing'
  BY <1>1, <1>2, <1>4 DEF IInv, ReferencesAreKnown, HandlesAreAllocated,
     UnstartedExportsNothing
<1> QED
  BY <1>8, <1>9, <1>10, <1>11 DEF IInv

(* Every step of the server keeps the invariant.                           *)
LEMMA NextIInv == IInv /\ [Next]_vars => IInv'
<1> SUFFICES ASSUME IInv, [Next]_vars PROVE IInv'
  OBVIOUS
<1>1. ASSUME NEW s \in Sessions, StartAccept(s) PROVE IInv'
  BY <1>1, StartAcceptIInv
<1>2. ASSUME NEW s \in Sessions, Terminate(s) PROVE IInv'
  BY <1>2, TerminateIInv
<1>3. ASSUME NEW s \in Sessions, NEW raw \in ClientMessages,
             ReadNextMessage(s, raw)
      PROVE  IInv'
  <2> DEFINE msg == Unpack(raw)
  <2>1. raw \in Message /\ msg \in Message
    BY ClientMessagesAssumption, UnpackType
  <2>2. session[s] = "open" /\ ProcessMessage(s, msg)
    BY <1>3 DEF ReadNextMessage
  <2>3. handled' \subseteq [from : Sessions, msg : Message]
    BY <1>3, <2>1 DEF ReadNextMessage
  <2> HIDE DEF msg
  <2>4. CASE OnSetContextManager(s, msg)
    BY <2>1, <2>2, <2>3, <2>4, OnSetContextManagerIInv
  <2>5. CASE OnSetMonitor(s, msg)
    BY <2>1, <2>2, <2>3, <2>5, OnSetMonitorIInv
  <2>6. CASE OnUnreadableTransaction(s, msg)
    <3>1. BadValue \in Status
      BY DEF Status
    <3> QED
      BY <2>1, <2>3, <2>6, <3>1, AnswerOnlyIInv DEF OnUnreadableTransaction
  <2>7. CASE OnTransaction(s, msg)
    BY <2>1, <2>2, <2>3, <2>7, OnTransactionIInv
  <2>8. CASE OnReply(s, msg)
    BY <2>1, <2>2, <2>3, <2>8, OnReplyIInv
  <2>9. CASE OnReference(s, msg)
    BY <2>1, <2>2, <2>3, <2>9, OnReferenceIInv
  <2>10. CASE OnRequestDeathNotification(s, msg)
    BY <2>1, <2>2, <2>3, <2>10, OnRequestDeathNotificationIInv
  <2>11. CASE OnClearDeathNotification(s, msg)
    BY <2>1, <2>2, <2>3, <2>11, OnClearDeathNotificationIInv
  <2>12. CASE OnUnsupported(s, msg)
    <3>1. InvalidOperation \in Status
      BY DEF Status
    <3> QED
      BY <2>1, <2>3, <2>12, <3>1, AnswerOnlyIInv DEF OnUnsupported
  <2>13. CASE ReadHandlerThrows(s, msg)
    BY <2>1, <2>2, <2>3, <2>13, ReadHandlerThrowsIInv
  <2> QED
    BY <2>2, <2>4, <2>5, <2>6, <2>7, <2>8, <2>9, <2>10, <2>11, <2>12, <2>13
       DEF ProcessMessage
<1>4. CASE UNCHANGED vars
  BY <1>4 DEF vars, registry_vars, session_vars, IInv, TypeOK, RegistryTypeOK,
     RegistryInSync, RolesAreLive, ReferencesAreKnown, HandlesAreAllocated,
     UnstartedExportsNothing, Live
<1> QED
  BY <1>1, <1>2, <1>3, <1>4 DEF Next

(* What a step may do to the two roles, for a step from a typed state.     *)
RoleStep ==
  /\ context_mgr_ # NoSession =>
       context_mgr_' = context_mgr_ \/ session'[context_mgr_] = "closed"
  /\ monitor_ # NoSession =>
       monitor_' = monitor_ \/ session'[monitor_] = "closed"

(* Every step keeps a role that is taken, or closes the session that has   *)
(* it: the two Set handlers test the role first, and only Terminate gives  *)
(* one up.                                                                 *)
LEMMA NextRoleStep == TypeOK /\ [Next]_vars => RoleStep
<1> SUFFICES ASSUME TypeOK, [Next]_vars PROVE RoleStep
  OBVIOUS
<1>1. ASSUME UNCHANGED <<context_mgr_, monitor_>> PROVE RoleStep
  BY <1>1 DEF RoleStep
<1>2. ASSUME NEW s \in Sessions, StartAccept(s) PROVE RoleStep
  BY <1>1, <1>2 DEF StartAccept, registry_vars
<1>3. ASSUME NEW s \in Sessions, Terminate(s) PROVE RoleStep
  <2>1. session \in [Sessions -> SessionState]
    BY DEF TypeOK
  <2>2. session'[s] = "closed"
    BY <1>3, <2>1 DEF Terminate
  <2> QED
    BY <1>3, <2>2 DEF Terminate, RoleStep
<1>4. ASSUME NEW s \in Sessions, NEW raw \in ClientMessages,
             ReadNextMessage(s, raw)
      PROVE  RoleStep
  <2> DEFINE msg == Unpack(raw)
  <2>1. ProcessMessage(s, msg)
    BY <1>4 DEF ReadNextMessage
  <2> HIDE DEF msg
  <2>2. CASE OnSetContextManager(s, msg)
    BY <2>2 DEF OnSetContextManager, RoleStep
  <2>3. CASE OnSetMonitor(s, msg)
    BY <2>3 DEF OnSetMonitor, RoleStep
  <2>4. CASE OnUnreadableTransaction(s, msg)
    BY <1>1, <2>4 DEF OnUnreadableTransaction, registry_vars
  <2>5. CASE OnTransaction(s, msg)
    BY <1>1, <2>5 DEF OnTransaction
  <2>6. CASE OnReply(s, msg)
    BY <1>1, <2>6 DEF OnReply, registry_vars
  <2>7. CASE OnReference(s, msg)
    BY <1>1, <2>7 DEF OnReference
  <2>8. CASE OnRequestDeathNotification(s, msg)
    BY <1>1, <2>8 DEF OnRequestDeathNotification, registry_vars
  <2>9. CASE OnClearDeathNotification(s, msg)
    BY <1>1, <2>9 DEF OnClearDeathNotification, registry_vars
  <2>10. CASE OnUnsupported(s, msg)
    BY <1>1, <2>10 DEF OnUnsupported, registry_vars
  <2>11. CASE ReadHandlerThrows(s, msg)
    BY <1>1, <2>11 DEF ReadHandlerThrows, registry_vars
  <2> QED
    BY <2>1, <2>2, <2>3, <2>4, <2>5, <2>6, <2>7, <2>8, <2>9, <2>10, <2>11
       DEF ProcessMessage
<1>5. CASE UNCHANGED vars
  BY <1>1, <1>5 DEF vars, registry_vars
<1> QED
  BY <1>2, <1>3, <1>4, <1>5 DEF Next

-----------------------------------------------------------------------------
(***************************************************************************)
(* Handles keep their meaning.  The handles of v below the next one of u   *)
(* are handles of u, of the same sessions and for the same objects.        *)
(***************************************************************************)
KeepsMeaning(u, v) ==
  /\ u.next <= v.next
  /\ DOMAIN v.handles \subseteq Nat
  /\ \A h \in DOMAIN v.handles : h < u.next =>
       /\ h \in DOMAIN u.handles
       /\ v.handles[h] = u.handles[h]
       /\ v.objects[u.handles[h]][h] = u.objects[u.handles[h]][h]

(* One walk of TranslateObjects adds handles from the next one on and      *)
(* leaves every object that was exported before as it was.                 *)
LEMMA TranslateObjectsKeepsMeaning ==
  ASSUME NEW w, TranslationInSync(w), NEW owner \in Sessions
  PROVE  KeepsMeaning(w, TranslateObjects(owner, w))
<1> DEFINE v     == TranslateObjects(owner, w)
           fresh == NewHandles(w.next, w.flat)
           n     == Cardinality(Exported(w.flat))
           owned == w.objects[owner]
<1>1. /\ w.next \in Nat \ {0} /\ w.flat \in Seq(FlatObject)
      /\ DOMAIN w.objects = Sessions
  BY DEF TranslationInSync
<1>2. /\ v.next = w.next + n
      /\ v.handles = NewObjectHandles(w.handles, fresh, owner)
      /\ v.objects = [w.objects EXCEPT
                        ![owner] = WithExports(owned, w.next, w.flat)]
  BY DEF TranslateObjects
<1>3. n \in Nat
  BY <1>1, HandleAtType
<1>4. \A h \in fresh : h \in Nat /\ h >= w.next
  <2>1. Exported(w.flat) \subseteq DOMAIN w.flat
    BY DEF Exported, Walked
  <2> QED
    BY <1>1, <2>1, HandleAtType DEF NewHandles
<1>5. /\ DOMAIN v.handles = DOMAIN w.handles \cup fresh
      /\ \A h \in DOMAIN w.handles : v.handles[h] = w.handles[h]
  BY <1>2 DEF NewObjectHandles
<1>6. /\ \A s \in Sessions \ {owner} : v.objects[s] = w.objects[s]
      /\ \A h \in DOMAIN owned : v.objects[owner][h] = owned[h]
  BY <1>1, <1>2 DEF WithExports
<1>7. \A h \in DOMAIN w.handles :
        w.handles[h] \in Sessions /\ h \in DOMAIN w.objects[w.handles[h]]
  BY DEF TranslationInSync, IsMap
<1> HIDE DEF v, fresh, n
<1>8. ASSUME NEW h \in DOMAIN v.handles, h < w.next
      PROVE  /\ h \in DOMAIN w.handles
             /\ v.handles[h] = w.handles[h]
             /\ v.objects[w.handles[h]][h] = w.objects[w.handles[h]][h]
  <2>1. h \in DOMAIN w.handles
    BY <1>1, <1>4, <1>5, <1>8
  <2> QED
    BY <1>5, <1>6, <1>7, <2>1
<1>9. w.next <= v.next
  BY <1>1, <1>2, <1>3
<1>10. DOMAIN v.handles \subseteq Nat
  BY <1>4, <1>5 DEF TranslationInSync, IsMap
<1> QED
  BY <1>8, <1>9, <1>10 DEF KeepsMeaning, v

(* The step of HandleKeepsItsMeaning.                                      *)
MeaningStep ==
  \A h \in DOMAIN handles_' : h < next_object_handle_ =>
    /\ h \in DOMAIN handles_
    /\ handles_'[h] = handles_[h]
    /\ objects_'[handles_[h]][h] = objects_[handles_[h]][h]

(* A transaction is walked by its sender and, when there is a target, once *)
(* more by that: neither walk changes what was exported before.            *)
LEMMA OnTransactionMeaning ==
  ASSUME IInv, NEW s \in Sessions, session[s] = "open", NEW msg \in Message,
         OnTransaction(s, msg)
  PROVE  MeaningStep
<1> DEFINE u == Untranslated(msg)
           w == TranslateObjects(s, u)
           target == FindSessionByHandle(w.handles, msg.destination)
           p == TranslateObjects(target, w)
           failed == [w EXCEPT !.status = InvalidOperation]
<1>1. /\ u.next = next_object_handle_ /\ u.handles = handles_
      /\ u.objects = objects_
  BY DEF Untranslated
<1>2. TranslationInSync(u) /\ TranslationInSync(w) /\ KeepsMeaning(u, w)
  <2>1. TranslationInSync(u) /\ Live(s)
    BY UntranslatedInSync DEF Live
  <2> HIDE DEF u
  <2> QED
    BY <2>1, TranslateObjectsKeepsSync, TranslateObjectsKeepsMeaning
<1>3. ASSUME NEW v, KeepsMeaning(u, v), StoreTranslation(v)
      PROVE  MeaningStep
  BY <1>1, <1>3 DEF KeepsMeaning, StoreTranslation, MeaningStep
<1>4. failed.next = w.next /\ failed.handles = w.handles
      /\ failed.objects = w.objects
  <2>1. w = [next |-> w.next, handles |-> w.handles,
             objects |-> w.objects, flat |-> w.flat, status |-> w.status]
    BY DEF TranslateObjects
  <2> QED
    BY <2>1
<1>5. \/ StoreTranslation(w)
      \/ target # NoSession /\ StoreTranslation(p)
      \/ StoreTranslation(failed)
  BY DEF OnTransaction, PostTransaction
<1>6. target # NoSession => target \in Sessions
  <2>1. context_mgr_ # NoSession => context_mgr_ \in Sessions
    BY DEF IInv, TypeOK, RegistryTypeOK
  <2>2. \A h \in DOMAIN w.handles : w.handles[h] \in Sessions
    BY <1>2 DEF TranslationInSync, IsMap
  <2> HIDE DEF w
  <2> QED
    BY <2>1, <2>2 DEF FindSessionByHandle
<1> HIDE DEF u, w, target, failed
<1>7. CASE StoreTranslation(w)
  BY <1>2, <1>3, <1>7
<1>8. CASE target # NoSession /\ StoreTranslation(p)
  <2>1. KeepsMeaning(w, p)
    BY <1>2, <1>6, <1>8, TranslateObjectsKeepsMeaning
  <2>2. u.next \in Nat /\ w.next \in Nat
    BY <1>2 DEF TranslationInSync
  <2> HIDE DEF p
  <2>3. ASSUME NEW h \in DOMAIN handles_', h < next_object_handle_
        PROVE  /\ h \in DOMAIN handles_
               /\ handles_'[h] = handles_[h]
               /\ objects_'[handles_[h]][h] = objects_[handles_[h]][h]
    <3>1. handles_' = p.handles /\ objects_' = p.objects
      BY <1>8 DEF StoreTranslation
    <3>2. h < w.next
      BY <1>1, <1>2, <2>1, <2>2, <2>3, <3>1 DEF KeepsMeaning
    <3>3. /\ h \in DOMAIN w.handles /\ p.handles[h] = w.handles[h]
          /\ p.objects[w.handles[h]][h] = w.objects[w.handles[h]][h]
      BY <2>1, <3>1, <3>2 DEF KeepsMeaning
    <3> QED
      BY <1>1, <1>2, <2>3, <3>1, <3>3 DEF KeepsMeaning
  <2> QED
    BY <2>3 DEF MeaningStep
<1>9. CASE StoreTranslation(failed)
  <2>1. KeepsMeaning(u, failed)
    BY <1>2, <1>4 DEF KeepsMeaning
  <2> QED
    BY <1>3, <1>9, <2>1
<1> QED
  BY <1>5, <1>7, <1>8, <1>9

(* No other step changes the meaning of a handle: only Terminate touches   *)
(* the two maps, and it removes handles without changing any.              *)
LEMMA NextMeaningStep == IInv /\ [Next]_vars => MeaningStep
<1> SUFFICES ASSUME IInv, [Next]_vars PROVE MeaningStep
  OBVIOUS
<1>1. ASSUME UNCHANGED <<handles_, objects_>> PROVE MeaningStep
  BY <1>1 DEF MeaningStep
<1>2. ASSUME NEW s \in Sessions, StartAccept(s) PROVE MeaningStep
  BY <1>1, <1>2 DEF StartAccept, registry_vars
<1>3. ASSUME NEW s \in Sessions, Terminate(s) PROVE MeaningStep
  BY <1>3 DEF Terminate, RemoveHandles, MeaningStep
<1>4. ASSUME NEW s \in Sessions, NEW raw \in ClientMessages,
             ReadNextMessage(s, raw)
      PROVE  MeaningStep
  <2> DEFINE msg == Unpack(raw)
  <2>1. msg \in Message
    BY ClientMessagesAssumption, UnpackType
  <2>2. session[s] = "open" /\ ProcessMessage(s, msg)
    BY <1>4 DEF ReadNextMessage
  <2> HIDE DEF msg
  <2>3. CASE OnTransaction(s, msg)
    BY <2>1, <2>2, <2>3, OnTransactionMeaning
  <2>4. CASE \/ OnSetContextManager(s, msg) \/ OnSetMonitor(s, msg)
             \/ OnReference(s, msg)
    BY <1>1, <2>4 DEF OnSetContextManager, OnSetMonitor, OnReference,
       session_vars
  <2>5. CASE \/ OnUnreadableTransaction(s, msg) \/ OnReply(s, msg)
             \/ OnUnsupported(s, msg)
    BY <1>1, <2>5 DEF OnUnreadableTransaction, OnReply, OnUnsupported,
       registry_vars, session_vars
  <2>6. CASE \/ OnRequestDeathNotification(s, msg)
             \/ OnClearDeathNotification(s, msg) \/ ReadHandlerThrows(s, msg)
    BY <1>1, <2>6 DEF OnRequestDeathNotification, OnClearDeathNotification,
       ReadHandlerThrows, registry_vars
  <2> QED
    BY <2>2, <2>3, <2>4, <2>5, <2>6 DEF ProcessMessage
<1>5. CASE UNCHANGED vars
  BY <1>1, <1>5 DEF vars, registry_vars, session_vars
<1> QED
  BY <1>2, <1>3, <1>4, <1>5 DEF Next

-----------------------------------------------------------------------------
(***************************************************************************)
(* The theorems.                                                           *)
(***************************************************************************)

(* The inductive invariant holds in every state of every behaviour.        *)
THEOREM InductiveInvariant == Spec => []IInv
  BY InitIInv, NextIInv, PTL DEF Spec

(* Every variable of the server keeps its type; in particular what is      *)
(* written to a socket is always a message to a known session.             *)
THEOREM TypeCorrectness == Spec => []TypeOK
<1>1. IInv => TypeOK
  BY DEF IInv
<1> QED
  BY <1>1, InductiveInvariant, PTL

(* The registry and the object maps never disagree, so the branch of       *)
(* PostTransaction that reports a handle without an object is never taken. *)
THEOREM RegistryStaysInSync == Spec => []RegistryInSync
<1>1. IInv => RegistryInSync
  BY DEF IInv
<1> QED
  BY <1>1, InductiveInvariant, PTL

(* No terminated session is the context manager or the monitor.            *)
THEOREM RolesStayLive == Spec => []RolesAreLive
<1>1. IInv => RolesAreLive
  BY DEF IInv
<1> QED
  BY <1>1, InductiveInvariant, PTL

(* References are kept for known handles only.                             *)
THEOREM ReferencesStayKnown == Spec => []ReferencesAreKnown
<1>1. IInv => ReferencesAreKnown
  BY DEF IInv
<1> QED
  BY <1>1, InductiveInvariant, PTL

(* A role is never taken over: it changes hands only when the session that *)
(* has it ends.                                                            *)
THEOREM RolesAreKept == Spec => RoleIsKept
<1>1. TypeOK /\ [Next]_vars => [RoleStep]_vars
  BY NextRoleStep
<1>2. RoleIsKept <=> [][RoleStep]_vars
  BY DEF RoleIsKept, RoleStep
<1> QED
  BY <1>1, <1>2, TypeCorrectness, PTL DEF Spec

(* A handle denotes the same object of the same session as long as that    *)
(* session lives, and no handle is ever given out a second time.           *)
THEOREM HandlesKeepTheirMeaning == Spec => HandleKeepsItsMeaning
<1>1. IInv /\ [Next]_vars => [MeaningStep]_vars
  BY NextMeaningStep
<1>2. HandleKeepsItsMeaning <=> [][MeaningStep]_vars
  BY DEF HandleKeepsItsMeaning, MeaningStep
<1> QED
  BY <1>1, <1>2, InductiveInvariant, PTL DEF Spec

-----------------------------------------------------------------------------
(***************************************************************************)
(* The messages a BinderServer writes: answers, transactions passed on,    *)
(* and death notifications.                                                *)
(***************************************************************************)

-----------------------------------------------------------------------------
(***************************************************************************)
(* Writes.                                                                 *)
(***************************************************************************)

(* WriteMessage puts one message on the socket; what goes to the monitor   *)
(* travels inside a LogEntry.                                              *)
LEMMA WriteMessageMembers ==
  ASSUME NEW monitor, NEW to, NEW n, NEW msg
  PROVE  /\ [to |-> to, n |-> n, log |-> FALSE, msg |-> msg]
              \in WriteMessage(monitor, to, n, msg)
         /\ \A w \in WriteMessage(monitor, to, n, msg) :
              w = [to |-> to, n |-> n, log |-> FALSE, msg |-> msg] \/ w.log
         /\ \A w \in ForwardToMonitor(monitor, n, msg) : w.log
<1>1. \A w \in ForwardToMonitor(monitor, n, msg) : w.log
  BY DEF ForwardToMonitor
<1> QED
  BY <1>1 DEF WriteMessage

-----------------------------------------------------------------------------
(***************************************************************************)
(* Pending transactions.                                                   *)
(***************************************************************************)

(* The step of PendingIsSettled.                                           *)
SettledStep ==
  \A s \in Sessions : \A c \in DOMAIN pending_transactions_[s] :
    LET record == pending_transactions_[s][c]
    IN  \/ /\ c \in DOMAIN pending_transactions_'[s]
           /\ pending_transactions_'[s][c] = record
        \/ \E w \in written', x \in handled' :
             /\ x.from = s
             /\ w.to = record.caller /\ ~w.log
             /\ w.msg.cookie = record.reply_cookie
             /\ w.msg.type = x.msg.type
             /\ w.msg.objects = x.msg.objects

(* A record that is inserted does not displace another one.                *)
LEMMA PostTransactionSettled ==
  ASSUME TypeOK, NEW target \in Sessions, NEW s, NEW msg, NEW v,
         PostTransaction(target, s, msg, v)
  PROVE  SettledStep
<1>1. CASE UNCHANGED pending_transactions_
  BY <1>1 DEF SettledStep
<1>2. CASE pending_transactions_' = [pending_transactions_ EXCEPT
             ![target] = Insert(@, next_transaction_cookie_[target],
               [caller |-> s, reply_cookie |-> msg.cookie])]
  <2> SUFFICES ASSUME NEW t \in Sessions, NEW c \in DOMAIN pending_transactions_[t]
               PROVE  /\ c \in DOMAIN pending_transactions_'[t]
                      /\ pending_transactions_'[t][c] = pending_transactions_[t][c]
    BY DEF SettledStep
  <2>1. DOMAIN pending_transactions_ = Sessions
    BY DEF TypeOK
  <2>2. CASE t # target
    BY <1>2, <2>1, <2>2
  <2>3. CASE t = target
    <3>1. pending_transactions_'[t] = Insert(pending_transactions_[t],
            next_transaction_cookie_[target], [caller |-> s, reply_cookie |-> msg.cookie])
      BY <1>2, <2>1, <2>3
    <3> QED
      BY <3>1 DEF Insert
  <2> QED
    BY <2>2, <2>3
<1> QED
  BY <1>1, <1>2 DEF PostTransaction

(* OnReply takes out the record of the answered transaction, and passes    *)
(* the answer on.                                                          *)
LEMMA OnReplySettled ==
  ASSUME TypeOK, NEW s \in Sessions, NEW raw \in Message, OnReply(s, Unpack(raw)),
         handled' = {[from |-> s, msg |-> raw]}
  PROVE  SettledStep
<1> DEFINE msg == Unpack(raw)
<1>1. /\ msg.type = raw.type /\ msg.objects = raw.objects
      /\ msg \in Message
  BY UnpackType DEF Unpack, Message
<1>2. CASE UNCHANGED pending_transactions_
  BY <1>2 DEF SettledStep
<1>3. CASE msg.cookie \in DOMAIN pending_transactions_[s]
  <2> DEFINE record == pending_transactions_[s][msg.cookie]
             reply == [msg EXCEPT !.cookie = record.reply_cookie]
             out == [to |-> record.caller, n |-> 1, log |-> FALSE, msg |-> reply]
  <2>1. /\ written' = WriteMessage(monitor_, record.caller, 1, reply)
        /\ pending_transactions_' =
             [pending_transactions_ EXCEPT ![s] = Erase(@, msg.cookie)]
    BY <1>3 DEF OnReply
  <2>2. /\ reply.cookie = record.reply_cookie /\ reply.type = raw.type
        /\ reply.objects = raw.objects
    BY <1>1 DEF Message
  <2> HIDE DEF msg, reply
  <2>3. out \in written'
    BY <2>1, WriteMessageMembers
  <2>4. DOMAIN pending_transactions_ = Sessions
    BY DEF TypeOK
  <2>5. ASSUME NEW t \in Sessions, NEW c \in DOMAIN pending_transactions_[t],
               t # s \/ c # msg.cookie
        PROVE  /\ c \in DOMAIN pending_transactions_'[t]
               /\ pending_transactions_'[t][c] = pending_transactions_[t][c]
    <3>1. CASE t # s
      BY <2>1, <2>4, <3>1
    <3>2. CASE t = s /\ c # msg.cookie
      <4>1. pending_transactions_'[t] = Erase(pending_transactions_[t], msg.cookie)
        BY <2>1, <2>4, <3>2
      <4> QED
        BY <3>2, <4>1 DEF Erase
    <3> QED
      BY <2>5, <3>1, <3>2
  <2>6. \E w \in written', x \in handled' :
          /\ x.from = s
          /\ w.to = record.caller /\ ~w.log
          /\ w.msg.cookie = record.reply_cookie
          /\ w.msg.type = x.msg.type
          /\ w.msg.objects = x.msg.objects
    <3>1. [from |-> s, msg |-> raw] \in handled'
      OBVIOUS
    <3> QED
      BY <2>2, <2>3, <3>1
  <2> QED
    BY <2>5, <2>6 DEF SettledStep
<1> QED
  BY <1>2, <1>3 DEF OnReply

(* No other step touches a record.                                         *)
LEMMA NextSettledStep == IInv /\ [Next]_vars => SettledStep
<1> SUFFICES ASSUME IInv, [Next]_vars PROVE SettledStep
  OBVIOUS
<1>1. ASSUME UNCHANGED pending_transactions_ PROVE SettledStep
  BY <1>1 DEF SettledStep
<1>2. ASSUME NEW s \in Sessions, StartAccept(s) \/ Terminate(s) PROVE SettledStep
  BY <1>1, <1>2 DEF StartAccept, Terminate
<1>3. ASSUME NEW s \in Sessions, NEW raw \in ClientMessages,
             ReadNextMessage(s, raw)
      PROVE  SettledStep
  <2> DEFINE msg == Unpack(raw)
  <2>1. /\ TypeOK /\ raw \in Message
    BY ClientMessagesAssumption DEF IInv
  <2>2. ProcessMessage(s, msg) /\ handled' = {[from |-> s, msg |-> raw]}
    BY <1>3 DEF ReadNextMessage
  <2>3. CASE OnTransaction(s, msg)
    <3> DEFINE w == TranslateObjects(s, Untranslated(msg))
               target == FindSessionByHandle(w.handles, msg.destination)
    <3>1. \/ UNCHANGED pending_transactions_
          \/ target # NoSession /\ PostTransaction(target, s, msg, w)
      BY <2>3 DEF OnTransaction
    <3>2. target # NoSession => target \in Sessions
      <4>1. msg \in Message /\ Live(s)
        BY <1>3, <2>1, UnpackType DEF ReadNextMessage, Live
      <4>2. TranslationInSync(w)
        <5> HIDE DEF msg
        <5>1. TranslationInSync(Untranslated(msg))
          BY <4>1, UntranslatedInSync
        <5> QED
          BY <4>1, <5>1, TranslateObjectsKeepsSync
      <4>3. \A h \in DOMAIN w.handles : w.handles[h] \in Sessions
        BY <4>2 DEF TranslationInSync, IsMap
      <4>4. context_mgr_ # NoSession => context_mgr_ \in Sessions
        BY <2>1 DEF TypeOK, RegistryTypeOK
      <4> HIDE DEF w
      <4> QED
        BY <4>3, <4>4 DEF FindSessionByHandle
    <3> QED
      BY <1>1, <2>1, <3>1, <3>2, PostTransactionSettled
  <2>4. CASE OnReply(s, msg)
    BY <2>1, <2>2, <2>4, OnReplySettled
  <2>5. CASE UNCHANGED pending_transactions_
    BY <1>1, <2>5
  <2> QED
    BY <2>2, <2>3, <2>4, <2>5
       DEF ProcessMessage, OnSetContextManager, OnSetMonitor, OnReference,
           OnUnreadableTransaction, OnUnsupported, OnRequestDeathNotification,
           OnClearDeathNotification, ReadHandlerThrows, session_vars
<1>4. CASE UNCHANGED vars
  BY <1>1, <1>4 DEF vars, session_vars
<1> QED
  BY <1>2, <1>3, <1>4 DEF Next

-----------------------------------------------------------------------------
(***************************************************************************)
(* Death notifications.                                                    *)
(***************************************************************************)

(* The step of HoldersLearnOfDeath.                                        *)
DeathStep ==
  \A h \in DOMAIN references_ \ DOMAIN handles_' : \A s \in Sessions :
    h \in DOMAIN death_notifications_[s] =>
      Cardinality({w \in written' :
         /\ w.to = s /\ ~w.log /\ w.msg.type = "DeadBinder"
         /\ w.msg.words = <<h, death_notifications_[s][h]>>})
        = references_[h][s]

(* The target of a transaction is a session that is not terminated.        *)
LEMMA TargetIsLive ==
  ASSUME IInv, NEW s \in Sessions, session[s] = "open", NEW msg \in Message
  PROVE  LET w == TranslateObjects(s, Untranslated(msg))
             target == FindSessionByHandle(w.handles, msg.destination)
         IN  /\ TranslationInSync(w)
             /\ DOMAIN handles_ \subseteq DOMAIN w.handles
             /\ target # NoSession => target \in Sessions /\ Live(target)
<1> DEFINE u == Untranslated(msg)
           w == TranslateObjects(s, u)
           target == FindSessionByHandle(w.handles, msg.destination)
<1>1. TranslationInSync(w) /\ DOMAIN handles_ \subseteq DOMAIN w.handles
  <2>1. Live(s) /\ u.handles = handles_
    BY DEF Live, Untranslated
  <2> QED
    BY <2>1, UntranslatedInSync, TranslateObjectsKeepsSync
<1>2. target # NoSession => target \in Sessions /\ Live(target)
  <2>1. context_mgr_ # NoSession => context_mgr_ \in Sessions /\ Live(context_mgr_)
    BY DEF IInv, RolesAreLive, TypeOK, RegistryTypeOK
  <2>2. \A h \in DOMAIN w.handles : w.handles[h] \in Sessions /\ Live(w.handles[h])
    BY <1>1 DEF TranslationInSync, IsMap
  <2> HIDE DEF w
  <2> QED
    BY <2>1, <2>2 DEF FindSessionByHandle
<1> QED
  BY <1>1, <1>2

(* Neither walk over the objects of a transaction forgets a handle.        *)
LEMMA OnTransactionKeepsHandles ==
  ASSUME IInv, NEW s \in Sessions, session[s] = "open", NEW msg \in Message,
         OnTransaction(s, msg)
  PROVE  DOMAIN handles_ \subseteq DOMAIN handles_'
<1> DEFINE w == TranslateObjects(s, Untranslated(msg))
           target == FindSessionByHandle(w.handles, msg.destination)
           p == TranslateObjects(target, w)
           failed == [w EXCEPT !.status = InvalidOperation]
<1>1. /\ TranslationInSync(w) /\ DOMAIN handles_ \subseteq DOMAIN w.handles
      /\ target # NoSession => target \in Sessions /\ Live(target)
  BY TargetIsLive
<1>2. \/ StoreTranslation(w) \/ StoreTranslation(failed)
      \/ target # NoSession /\ StoreTranslation(p)
  BY DEF OnTransaction, PostTransaction
<1>3. failed.handles = w.handles
  BY DEF TranslateObjects
<1> HIDE DEF w, target, failed
<1>4. target # NoSession => DOMAIN w.handles \subseteq DOMAIN p.handles
  BY <1>1, TranslateObjectsKeepsSync
<1> QED
  BY <1>1, <1>2, <1>3, <1>4 DEF StoreTranslation

(* The writes to one session of one message under the numbers 1 to N.      *)
Numbered(N, to, msg) ==
  {[to |-> to, n |-> k, log |-> FALSE, msg |-> msg] : k \in 1 .. N}

(* The notifications for one handle to one session differ in their number  *)
(* only, so that there are as many as the session holds references.        *)
LEMMA NumberedWrites ==
  ASSUME NEW N \in Nat, NEW to, NEW msg
  PROVE  Cardinality(Numbered(N, to, msg)) = N
<1> DEFINE W == Numbered(N, to, msg)
           f == [k \in 1 .. N |-> [to |-> to, n |-> k, log |-> FALSE, msg |-> msg]]
<1>1. f \in [1 .. N -> W]
  BY DEF Numbered
<1>2. \A j, k \in 1 .. N : f[j] = f[k] => j = k
  OBVIOUS
<1>3. \A w \in W : \E k \in 1 .. N : f[k] = w
  BY DEF Numbered
<1> HIDE DEF f, W
<1>4. f \in Surjection(1 .. N, W) /\ f \in Injection(1 .. N, W)
  BY <1>1, <1>2, <1>3 DEF Surjection, Injection, IsInjective
<1>5. IsFiniteSet(1 .. N) /\ Cardinality(1 .. N) = N
  BY FS_Interval
<1>6. Cardinality(W) = N
  BY <1>4, <1>5, FS_Surjection
<1> QED
  BY <1>6 DEF W

(* SendDeathNotification writes nothing for a handle the session did not   *)
(* ask about, and DeadBinder with the registered id otherwise.             *)
LEMMA SendDeathNotificationMembers ==
  ASSUME NEW s, NEW h, NEW k
  PROVE  LET out == [to |-> s, n |-> k, log |-> FALSE,
                     msg |-> NewMessage("DeadBinder", 0,
                               <<h, death_notifications_[s][h]>>)]
         IN  /\ h \in DOMAIN death_notifications_[s]
                  => out \in SendDeathNotification(s, h, k)
             /\ \A w \in SendDeathNotification(s, h, k) : w = out \/ w.log
BY WriteMessageMembers DEF SendDeathNotification

(* Terminate tells every holder of every handle that goes.                 *)
LEMMA TerminateDeathStep ==
  ASSUME IInv, NEW t \in Sessions, Terminate(t)
  PROVE  DeathStep
<1> SUFFICES ASSUME NEW h \in DOMAIN references_ \ DOMAIN handles_',
                    NEW s \in Sessions, h \in DOMAIN death_notifications_[s]
             PROVE  Cardinality({w \in written' :
                       /\ w.to = s /\ ~w.log /\ w.msg.type = "DeadBinder"
                       /\ w.msg.words = <<h, death_notifications_[s][h]>>})
                      = references_[h][s]
  BY DEF DeathStep
<1> DEFINE dead == DOMAIN objects_[t]
           id(r, g) == death_notifications_[r][g]
           msg(r, g) == NewMessage("DeadBinder", 0, <<g, id(r, g)>>)
           out(r, g, k) == [to |-> r, n |-> k, log |-> FALSE, msg |-> msg(r, g)]
           W == {w \in written' : /\ w.to = s /\ ~w.log /\ w.msg.type = "DeadBinder"
                                  /\ w.msg.words = <<h, id(s, h)>>}
           N == references_[h][s]
<1>1. h \in dead \cap DOMAIN handles_ \cap DOMAIN references_
  BY DEF IInv, ReferencesAreKnown, Terminate, RemoveHandles
<1>2. N \in Nat
  BY DEF IInv, TypeOK, RegistryTypeOK, IsMap
<1>3. written' = DeathNotifications(dead)
  BY DEF Terminate
<1>4. \A k \in 1 .. N : out(s, h, k) \in W
  <2> SUFFICES ASSUME NEW k \in 1 .. N PROVE out(s, h, k) \in W
    OBVIOUS
  <2>1. out(s, h, k) \in SendDeathNotification(s, h, k)
    BY SendDeathNotificationMembers
  <2>2. out(s, h, k) \in written'
    <3> DEFINE all(g, r) == UNION {SendDeathNotification(r, g, j) :
                                     j \in 1 .. references_[g][r]}
    <3>1. out(s, h, k) \in all(h, s)
      BY <2>1
    <3>2. DeathNotifications(dead)
            = UNION {all(g, r) : g \in dead \cap DOMAIN handles_ \cap DOMAIN references_,
                                 r \in Sessions}
      BY DEF DeathNotifications
    <3> HIDE DEF all
    <3> QED
      BY <1>1, <1>3, <3>1, <3>2
  <2>3. msg(s, h).type = "DeadBinder" /\ msg(s, h).words = <<h, id(s, h)>>
    BY DEF NewMessage
  <2> QED
    BY <2>2, <2>3
<1>5. ASSUME NEW w \in W
      PROVE  \E k \in 1 .. N : w = out(s, h, k)
  <2>1. PICK g \in dead \cap DOMAIN handles_ \cap DOMAIN references_,
             r \in Sessions :
             \E k \in 1 .. references_[g][r] : w \in SendDeathNotification(r, g, k)
    BY <1>3 DEF DeathNotifications
  <2>2. PICK k \in 1 .. references_[g][r] : w = out(r, g, k)
    BY <2>1, SendDeathNotificationMembers
  <2>3. w.to = r /\ w.msg.words = <<g, id(r, g)>>
    BY <2>2 DEF NewMessage
  <2>4. r = s
    BY <2>3
  <2>5. g = h
    <3>1. <<g, id(r, g)>> = <<h, id(s, h)>>
      BY <2>3
    <3> QED
      BY <3>1
  <2> QED
    BY <2>1, <2>2, <2>4, <2>5
<1>6. Cardinality(W) = N
  <2> DEFINE m == msg(s, h)
  <2> HIDE DEF N, W, m
  <2>1. W = Numbered(N, s, m)
    BY <1>4, <1>5 DEF m, Numbered
  <2> QED
    BY <1>2, <2>1, NumberedWrites
<1> QED
  BY <1>6

(* No other step forgets a handle.                                         *)
LEMMA NextDeathStep == IInv /\ [Next]_vars => DeathStep
<1> SUFFICES ASSUME IInv, [Next]_vars PROVE DeathStep
  OBVIOUS
<1>1. ASSUME DOMAIN handles_ \subseteq DOMAIN handles_' PROVE DeathStep
  BY <1>1 DEF DeathStep, IInv, ReferencesAreKnown
<1>2. ASSUME NEW s \in Sessions, StartAccept(s) PROVE DeathStep
  BY <1>1, <1>2 DEF StartAccept, registry_vars
<1>3. ASSUME NEW s \in Sessions, NEW raw \in ClientMessages,
             ReadNextMessage(s, raw)
      PROVE  DeathStep
  <2> DEFINE msg == Unpack(raw)
  <2>1. msg \in Message
    BY ClientMessagesAssumption, UnpackType
  <2>2. session[s] = "open" /\ ProcessMessage(s, msg)
    BY <1>3 DEF ReadNextMessage
  <2> HIDE DEF msg
  <2>3. CASE OnTransaction(s, msg)
    BY <1>1, <2>1, <2>2, <2>3, OnTransactionKeepsHandles
  <2>4. CASE UNCHANGED handles_
    BY <1>1, <2>4
  <2> QED
    BY <2>2, <2>3, <2>4
       DEF ProcessMessage, OnSetContextManager, OnSetMonitor, OnReference, OnReply,
           OnUnreadableTransaction, OnUnsupported, OnRequestDeathNotification,
           OnClearDeathNotification, ReadHandlerThrows, registry_vars
<1>4. CASE UNCHANGED vars
  BY <1>1, <1>4 DEF vars, registry_vars
<1> QED
  BY <1>2, <1>3, <1>4, TerminateDeathStep DEF Next

-----------------------------------------------------------------------------
(***************************************************************************)
(* Cookies of pending transactions.                                        *)
(***************************************************************************)

(* The cookie of a pending transaction was given out before, so that the   *)
(* next one does not meet an old record, which insert would keep.          *)
CookiesAreUsedUp ==
  \A s \in Sessions : \A c \in DOMAIN pending_transactions_[s] :
    c < next_transaction_cookie_[s]

(* A transaction is recorded under the cookie that is used up for it.      *)
LEMMA PostTransactionCookies ==
  ASSUME TypeOK, CookiesAreUsedUp, NEW target \in Sessions, NEW s, NEW msg, NEW v,
         PostTransaction(target, s, msg, v)
  PROVE  CookiesAreUsedUp'
<1> DEFINE c == next_transaction_cookie_[target]
<1>1. /\ next_transaction_cookie_ \in [Sessions -> Nat]
      /\ DOMAIN pending_transactions_ = Sessions
      /\ \A t \in Sessions : DOMAIN pending_transactions_[t] \subseteq Nat
  BY MaxTransactionsAssumption DEF TypeOK, IsMap
<1>2. /\ next_transaction_cookie_' = [next_transaction_cookie_ EXCEPT ![target] = @ + 1]
      /\ \/ UNCHANGED pending_transactions_
         \/ pending_transactions_' = [pending_transactions_ EXCEPT
              ![target] = Insert(@, c, [caller |-> s, reply_cookie |-> msg.cookie])]
  BY DEF PostTransaction
<1>3. ASSUME NEW t \in Sessions
      PROVE  /\ next_transaction_cookie_'[t] \in Nat
             /\ next_transaction_cookie_'[t] >= next_transaction_cookie_[t]
             /\ t = target => next_transaction_cookie_'[t] = c + 1
  BY <1>1, <1>2
<1>4. ASSUME NEW t \in Sessions
      PROVE  DOMAIN pending_transactions_'[t] \subseteq
               DOMAIN pending_transactions_[t] \cup (IF t = target THEN {c} ELSE {})
  <2>1. CASE UNCHANGED pending_transactions_
    BY <2>1
  <2>2. CASE pending_transactions_' = [pending_transactions_ EXCEPT
               ![target] = Insert(@, c, [caller |-> s, reply_cookie |-> msg.cookie])]
    BY <1>1, <2>2 DEF Insert
  <2> QED
    BY <1>2, <2>1, <2>2
<1> SUFFICES ASSUME NEW t \in Sessions, NEW d \in DOMAIN pending_transactions_'[t]
             PROVE  d < next_transaction_cookie_'[t]
  BY DEF CookiesAreUsedUp
<1>5. CASE d \in DOMAIN pending_transactions_[t]
  <2>1. d < next_transaction_cookie_[t] /\ d \in Nat /\ next_transaction_cookie_[t] \in Nat
    BY <1>1, <1>5 DEF CookiesAreUsedUp
  <2> QED
    BY <1>3, <2>1
<1>6. CASE t = target /\ d = c
  BY <1>1, <1>3, <1>6
<1> QED
  BY <1>4, <1>5, <1>6

(* Every step keeps it.                                                    *)
LEMMA NextCookies == IInv /\ CookiesAreUsedUp /\ [Next]_vars => CookiesAreUsedUp'
<1> SUFFICES ASSUME IInv, CookiesAreUsedUp, [Next]_vars PROVE CookiesAreUsedUp'
  OBVIOUS
<1>1. ASSUME UNCHANGED <<pending_transactions_, next_transaction_cookie_>>
      PROVE  CookiesAreUsedUp'
  BY <1>1 DEF CookiesAreUsedUp
<1>2. ASSUME NEW s \in Sessions, StartAccept(s) \/ Terminate(s)
      PROVE  CookiesAreUsedUp'
  BY <1>1, <1>2 DEF StartAccept, Terminate
<1>3. ASSUME NEW s \in Sessions, NEW raw \in ClientMessages,
             ReadNextMessage(s, raw)
      PROVE  CookiesAreUsedUp'
  <2> DEFINE msg == Unpack(raw)
  <2>1. msg \in Message /\ TypeOK
    BY ClientMessagesAssumption, UnpackType DEF IInv
  <2>2. session[s] = "open" /\ ProcessMessage(s, msg)
    BY <1>3 DEF ReadNextMessage
  <2> HIDE DEF msg
  <2>3. CASE OnTransaction(s, msg)
    <3> DEFINE w == TranslateObjects(s, Untranslated(msg))
               target == FindSessionByHandle(w.handles, msg.destination)
    <3>1. \/ UNCHANGED <<pending_transactions_, next_transaction_cookie_>>
          \/ target # NoSession /\ PostTransaction(target, s, msg, w)
      BY <2>3 DEF OnTransaction
    <3>2. target # NoSession => target \in Sessions
      BY <2>1, <2>2, TargetIsLive
    <3> HIDE DEF target, w
    <3> QED
      BY <1>1, <2>1, <3>1, <3>2, PostTransactionCookies
  <2>4. CASE OnReply(s, msg)
    <3>1. DOMAIN pending_transactions_ = Sessions
      BY <2>1 DEF TypeOK
    <3>2. UNCHANGED next_transaction_cookie_
      BY <2>4 DEF OnReply
    <3>3. \A t \in Sessions :
            DOMAIN pending_transactions_'[t] \subseteq DOMAIN pending_transactions_[t]
      <4>1. CASE UNCHANGED pending_transactions_
        BY <4>1
      <4>2. CASE pending_transactions_' =
                   [pending_transactions_ EXCEPT ![s] = Erase(@, msg.cookie)]
        BY <3>1, <4>2 DEF Erase
      <4> QED
        BY <2>4, <4>1, <4>2 DEF OnReply
    <3> QED
      BY <3>2, <3>3 DEF CookiesAreUsedUp
  <2>5. CASE UNCHANGED <<pending_transactions_, next_transaction_cookie_>>
    BY <1>1, <2>5
  <2> QED
    BY <2>2, <2>3, <2>4, <2>5
       DEF ProcessMessage, OnSetContextManager, OnSetMonitor, OnReference,
           OnUnreadableTransaction, OnUnsupported, OnRequestDeathNotification,
           OnClearDeathNotification, ReadHandlerThrows, session_vars
<1>4. CASE UNCHANGED vars
  BY <1>1, <1>4 DEF vars, session_vars
<1> QED
  BY <1>2, <1>3, <1>4 DEF Next

-----------------------------------------------------------------------------
(***************************************************************************)
(* Answers.                                                                *)
(***************************************************************************)

(* BinaryReader keeps one byte of a cookie: answers carry the cookie of    *)
(* the request when it fits.                                               *)
CookiesFitOneByte == \A msg \in ClientMessages : msg.cookie < 256

(* Message::Unpack leaves a cookie of one byte as it is.                   *)
LEMMA UnpackKeepsCookie ==
  ASSUME NEW raw \in Message, raw.cookie < 256
  PROVE  Unpack(raw).cookie = raw.cookie
<1>1. raw.cookie \in Nat
  BY DEF Message
<1>2. raw.cookie % 256 = raw.cookie
  BY <1>1
<1> QED
  BY <1>2 DEF Unpack, ReadValue, Message

(* The step writes one Status to session s with the given status, and      *)
(* other writes are other messages or log entries.                         *)
Answers(s, cookie, status) ==
  \E n, others :
    /\ [to |-> s, n |-> n, log |-> FALSE,
        msg |-> NewMessage("Status", cookie, <<status>>)] \in written'
    /\ \A w \in written' :
         \/ w = [to |-> s, n |-> n, log |-> FALSE,
                 msg |-> NewMessage("Status", cookie, <<status>>)]
         \/ w \in others
    /\ \A w \in others : w.log \/ w.msg.type # "Status"

(* SendStatus, next to whatever goes to the monitor, is such an answer.    *)
LEMMA SendStatusAnswers ==
  ASSUME NEW monitor, NEW s, NEW n, NEW msg, NEW status, NEW others,
         written' = others \cup SendStatus(monitor, s, n, msg, status),
         \A w \in others : w.log \/ w.msg.type # "Status"
  PROVE  Answers(s, msg.cookie, status)
<1> DEFINE m == NewMessage("Status", msg.cookie, <<status>>)
           out == [to |-> s, n |-> n, log |-> FALSE, msg |-> m]
           rest == {w \in written' : w.log \/ w.msg.type # "Status"}
<1>1. /\ out \in SendStatus(monitor, s, n, msg, status)
      /\ \A w \in SendStatus(monitor, s, n, msg, status) : w = out \/ w.log
  BY WriteMessageMembers DEF SendStatus
<1> HIDE DEF m, out
<1>2. out \in written' /\ \A w \in written' : w = out \/ w \in rest
  BY <1>1
<1>3. \A w \in rest : w.log \/ w.msg.type # "Status"
  OBVIOUS
<1> HIDE DEF rest
<1> QED
  BY <1>2, <1>3 DEF Answers, out, m

(* The sender of a message is told OK.                                     *)
IsToldOk(x) == \E w \in StatusesFor(x) : w.msg.words = <<OK>>

(* An answer is the only Status for the request, and has its status.       *)
LEMMA AnswersOnce ==
  ASSUME NEW x, NEW status, Answers(x.from, x.msg.cookie, status)
  PROVE  /\ Cardinality(StatusesFor(x)') = 1
         /\ IsToldOk(x)' <=> status = OK
<1> DEFINE s == x.from
           cookie == x.msg.cookie
           m == NewMessage("Status", cookie, <<status>>)
           statuses == {w \in written' :
             /\ w.to = s /\ ~w.log
             /\ w.msg.type = "Status" /\ w.msg.cookie = cookie}
<1>1. PICK n, others :
        /\ [to |-> s, n |-> n, log |-> FALSE, msg |-> m] \in written'
        /\ \A w \in written' :
             w = [to |-> s, n |-> n, log |-> FALSE, msg |-> m] \/ w \in others
        /\ \A w \in others : w.log \/ w.msg.type # "Status"
  BY DEF Answers
<1>2. m.type = "Status" /\ m.cookie = cookie /\ m.words = <<status>>
  BY DEF NewMessage
<1> DEFINE out == [to |-> s, n |-> n, log |-> FALSE, msg |-> m]
<1>3. out.to = s /\ ~out.log /\ out.msg = m
  OBVIOUS
<1> HIDE DEF m, s, cookie
<1>4. statuses = {out}
  BY <1>1, <1>2, <1>3
<1>5. <<status>> = <<OK>> <=> status = OK
  OBVIOUS
<1> HIDE DEF out, statuses
<1>6. Cardinality(statuses) = 1
  BY <1>4, FS_Singleton
<1>7. (\E w \in statuses : w.msg.words = <<OK>>) <=> status = OK
  BY <1>2, <1>3, <1>4, <1>5
<1> QED
  BY <1>6, <1>7 DEF statuses, StatusesFor, IsToldOk, s, cookie

(* So is SendStatus on its own.                                            *)
LEMMA SendStatusAlone ==
  ASSUME NEW monitor, NEW s, NEW n, NEW msg, NEW status,
         written' = SendStatus(monitor, s, n, msg, status)
  PROVE  Answers(s, msg.cookie, status)
<1> DEFINE others == {}
<1>1. /\ written' = others \cup SendStatus(monitor, s, n, msg, status)
      /\ \A w \in others : w.log \/ w.msg.type # "Status"
  OBVIOUS
<1> HIDE DEF others
<1> QED
  BY <1>1, SendStatusAnswers

(* The two outcomes of a transaction with a readable payload.              *)
Refused(s, msg) ==
  \E status \in Status \ {OK} : written' = SendStatus(monitor_, s, 1, msg, status)

Posted(target, s, msg) ==
  LET w == TranslateObjects(s, Untranslated(msg))
  IN  /\ target \in Sessions /\ Live(target)
      /\ TranslateObjects(target, w).status = OK
      /\ StoreTranslation(TranslateObjects(target, w))
      /\ written' = WriteMessage(monitor_, target, 1, PostedMessage(target, msg, w))
                      \cup SendStatus(monitor_, s, 2, msg, OK)
      /\ pending_transactions_' = [pending_transactions_ EXCEPT
           ![target] = Insert(@, next_transaction_cookie_[target],
             [caller |-> s, reply_cookie |-> msg.cookie])]

(* OnTransaction refuses, or posts the transaction to a live session.      *)
LEMMA OnTransactionOutcome ==
  ASSUME IInv, NEW s \in Sessions, session[s] = "open", NEW msg \in Message,
         OnTransaction(s, msg)
  PROVE  Refused(s, msg) \/ \E target \in Sessions : Posted(target, s, msg)
<1> DEFINE w == TranslateObjects(s, Untranslated(msg))
           target == FindSessionByHandle(w.handles, msg.destination)
           p == TranslateObjects(target, w)
           failed == [w EXCEPT !.status = InvalidOperation]
<1>1. /\ NameNotFound \in Status \ {OK} /\ InvalidOperation \in Status \ {OK}
  BY DEF Status, OK, NameNotFound, InvalidOperation
<1>2. target # NoSession => target \in Sessions /\ Live(target)
  BY TargetIsLive
<1>3. failed.status = InvalidOperation
  BY DEF TranslateObjects
<1>4. p.status \in {OK, InvalidOperation}
  BY DEF TranslateObjects
<1>5. CASE target = NoSession
  <2>1. written' = SendStatus(monitor_, s, 1, msg, NameNotFound)
    BY <1>5 DEF OnTransaction
  <2> QED
    BY <1>1, <2>1 DEF Refused
<1>6. CASE target # NoSession
  <2>1. PostTransaction(target, s, msg, w)
    BY <1>6 DEF OnTransaction
  <2> HIDE DEF w, target, p, failed
  <2>2. CASE ~HasDestination(target, msg, w)
    <3>1. written' = SendStatus(monitor_, s, 1, msg, failed.status)
      BY <1>1, <1>3, <2>1, <2>2 DEF PostTransaction, failed
    <3> QED
      BY <1>1, <1>3, <3>1 DEF Refused
  <2>3. CASE HasDestination(target, msg, w) /\ p.status # OK
    <3>1. written' = SendStatus(monitor_, s, 1, msg, p.status)
      BY <2>1, <2>3 DEF PostTransaction, p
    <3> QED
      BY <1>1, <1>4, <2>3, <3>1 DEF Refused
  <2>4. CASE HasDestination(target, msg, w) /\ p.status = OK
    <3>1. /\ StoreTranslation(p)
          /\ written' = WriteMessage(monitor_, target, 1, PostedMessage(target, msg, w))
                          \cup SendStatus(monitor_, s, 2, msg, OK)
          /\ pending_transactions_' = [pending_transactions_ EXCEPT
               ![target] = Insert(@, next_transaction_cookie_[target],
                 [caller |-> s, reply_cookie |-> msg.cookie])]
      BY <2>1, <2>4 DEF PostTransaction, p
    <3>2. Posted(target, s, msg)
      BY <1>2, <1>6, <2>4, <3>1 DEF Posted, p, w
    <3> QED
      BY <1>2, <1>6, <3>2
  <2> QED
    BY <2>2, <2>3, <2>4
<1> QED
  BY <1>5, <1>6

(* A transaction is answered, with OK exactly when it was posted.          *)
LEMMA OnTransactionAnswers ==
  ASSUME NEW s \in Sessions, NEW msg \in Message
  PROVE  /\ Refused(s, msg) => \E status \in Status \ {OK} : Answers(s, msg.cookie, status)
         /\ \A target \in Sessions :
              Posted(target, s, msg) => Answers(s, msg.cookie, OK)
<1>1. ASSUME NEW status, written' = SendStatus(monitor_, s, 1, msg, status)
      PROVE  Answers(s, msg.cookie, status)
  BY <1>1, SendStatusAlone
<1>2. ASSUME NEW target \in Sessions, Posted(target, s, msg)
      PROVE  Answers(s, msg.cookie, OK)
  <2> DEFINE w0 == TranslateObjects(s, Untranslated(msg))
             m == PostedMessage(target, msg, w0)
             others == WriteMessage(monitor_, target, 1, m)
  <2>1. m.type = "Transaction"
    BY DEF PostedMessage
  <2>2. written' = others \cup SendStatus(monitor_, s, 2, msg, OK)
    BY <1>2 DEF Posted
  <2> HIDE DEF m
  <2>3. \A w \in others : w.log \/ w.msg.type # "Status"
    <3>1. \A w \in others :
            w = [to |-> target, n |-> 1, log |-> FALSE, msg |-> m] \/ w.log
      BY WriteMessageMembers
    <3> HIDE DEF others
    <3> QED
      BY <2>1, <3>1
  <2> QED
    BY <2>2, <2>3, SendStatusAnswers
<1> QED
  BY <1>1, <1>2 DEF Refused

(* Every handler but OnReply answers, unless the reader throws.            *)
LEMMA ProcessMessageAnswers ==
  ASSUME IInv, NEW s \in Sessions, session[s] = "open", NEW msg \in Message,
         ProcessMessage(s, msg), session'[s] = "open",
         msg.type \notin {"Status", "TransactionReply"}
  PROVE  \E status : Answers(s, msg.cookie, status)
<1>1. ASSUME NEW monitor, NEW status, written' = SendStatus(monitor, s, 1, msg, status)
      PROVE  Answers(s, msg.cookie, status)
  BY <1>1, SendStatusAlone
<1>2. CASE OnSetContextManager(s, msg)
  <2>1. PICK status : written' = ForwardToMonitor(monitor_, 0, msg)
                                   \cup SendStatus(monitor_, s, 1, msg, status)
    BY <1>2 DEF OnSetContextManager
  <2>2. \A w \in ForwardToMonitor(monitor_, 0, msg) : w.log \/ w.msg.type # "Status"
    BY WriteMessageMembers
  <2> QED
    BY <2>1, <2>2, SendStatusAnswers
<1>3. CASE OnSetMonitor(s, msg)
  BY <1>1, <1>3 DEF OnSetMonitor
<1>4. CASE OnUnreadableTransaction(s, msg) \/ OnUnsupported(s, msg)
  BY <1>1, <1>4 DEF OnUnreadableTransaction, OnUnsupported
<1>5. CASE OnTransaction(s, msg)
  BY <1>5, OnTransactionOutcome, OnTransactionAnswers
<1>6. CASE OnReference(s, msg)
  BY <1>1, <1>6 DEF OnReference
<1>7. CASE OnRequestDeathNotification(s, msg) \/ OnClearDeathNotification(s, msg)
  <2>1. \E status : written' = SendStatus(monitor_, s, 1, msg, status)
    BY <1>7 DEF OnRequestDeathNotification, OnClearDeathNotification
  <2> QED
    BY <1>1, <2>1
<1>8. CASE ReadHandlerThrows(s, msg)
  <2>1. session'[s] = "stalled"
    BY <1>8 DEF ReadHandlerThrows, IInv, TypeOK
  <2> QED
    BY <2>1
<1>9. ~OnReply(s, msg)
  BY DEF OnReply
<1> QED
  BY <1>2, <1>3, <1>4, <1>5, <1>6, <1>7, <1>8, <1>9 DEF ProcessMessage

(* The answer to the message that was handled is there after the step.     *)
LEMMA NextAnswered ==
  ASSUME CookiesFitOneByte, IInv, RequestIsAnswered, [Next]_vars
  PROVE  RequestIsAnswered'
<1>1. CASE handled' = {}
  BY <1>1 DEF RequestIsAnswered
<1>2. ASSUME NEW s \in Sessions, NEW raw \in ClientMessages, ReadNextMessage(s, raw)
      PROVE  RequestIsAnswered'
  <2> DEFINE msg == Unpack(raw)
             x == [from |-> s, msg |-> raw]
  <2>1. /\ raw \in Message /\ msg \in Message /\ msg.cookie = raw.cookie
        /\ msg.type = raw.type
    BY ClientMessagesAssumption, UnpackType, UnpackKeepsCookie
       DEF CookiesFitOneByte, Unpack, Message
  <2>2. session[s] = "open" /\ ProcessMessage(s, msg) /\ handled' = {x}
    BY <1>2 DEF ReadNextMessage
  <2> HIDE DEF msg
  <2>3. ASSUME session'[s] = "open", raw.type \notin {"Status", "TransactionReply"}
        PROVE  Cardinality(StatusesFor(x)') = 1
    <3>1. PICK status : Answers(s, msg.cookie, status)
      BY <2>1, <2>2, <2>3, ProcessMessageAnswers
    <3>2. Answers(x.from, x.msg.cookie, status)
      BY <2>1, <3>1
    <3> HIDE DEF x
    <3> QED
      BY <3>2, AnswersOnce
  <2>4. x.from = s /\ x.msg = raw
    OBVIOUS
  <2> HIDE DEF x
  <2> QED
    BY <2>2, <2>3, <2>4 DEF RequestIsAnswered
<1>3. CASE UNCHANGED vars
  BY <1>3 DEF RequestIsAnswered, StatusesFor, vars, session_vars
<1> QED
  BY <1>1, <1>2, <1>3 DEF Next, StartAccept, Terminate

-----------------------------------------------------------------------------
(***************************************************************************)
(* Deliveries.                                                             *)
(***************************************************************************)

(* A refused transaction reaches nobody.                                   *)
LEMMA RefusedDeliversNothing ==
  ASSUME NEW monitor, NEW s, NEW msg, NEW n, NEW status,
         written' = SendStatus(monitor, s, n, msg, status)
  PROVE  Delivered' = {}
<1> DEFINE m == NewMessage("Status", msg.cookie, <<status>>)
<1>1. m.type = "Status"
  BY DEF NewMessage
<1> HIDE DEF m
<1>2. written' = WriteMessage(monitor, s, n, m)
  BY DEF SendStatus, m
<1>3. \A w \in written' : w = [to |-> s, n |-> n, log |-> FALSE, msg |-> m] \/ w.log
  BY <1>2, WriteMessageMembers
<1> QED
  BY <1>1, <1>3 DEF Delivered

(* A posted transaction reaches its target, and nobody else.               *)
LEMMA PostedIsDelivered ==
  ASSUME NEW s, NEW msg, NEW target, Posted(target, s, msg)
  PROVE  LET w == TranslateObjects(s, Untranslated(msg))
         IN  Delivered' = {[to |-> target, n |-> 1, log |-> FALSE,
                            msg |-> PostedMessage(target, msg, w)]}
<1> DEFINE w0 == TranslateObjects(s, Untranslated(msg))
           p == PostedMessage(target, msg, w0)
           m == NewMessage("Status", msg.cookie, <<OK>>)
           out == [to |-> target, n |-> 1, log |-> FALSE, msg |-> p]
<1>1. p.type = "Transaction" /\ m.type = "Status"
  BY DEF PostedMessage, NewMessage
<1>2. written' = WriteMessage(monitor_, target, 1, p)
                   \cup WriteMessage(monitor_, s, 2, m)
  BY DEF Posted, SendStatus
<1> HIDE DEF p, m
<1>3. /\ out \in WriteMessage(monitor_, target, 1, p)
      /\ \A w \in WriteMessage(monitor_, target, 1, p) : w = out \/ w.log
  BY WriteMessageMembers
<1>4. \A w \in WriteMessage(monitor_, s, 2, m) :
        w = [to |-> s, n |-> 2, log |-> FALSE, msg |-> m] \/ w.log
  BY WriteMessageMembers
<1>5. \A w \in WriteMessage(monitor_, s, 2, m) : w.msg.type # "Transaction" \/ w.log
  BY <1>1, <1>4
<1>6. ~out.log /\ out.msg = p
  OBVIOUS
<1> HIDE DEF out
<1>7. Delivered' = {out}
  BY <1>1, <1>2, <1>3, <1>5, <1>6 DEF Delivered
<1> QED
  BY <1>7 DEF out, p

(* OK is said of a transaction that has been written to a live session and *)
(* that the session has a record of.                                       *)
LEMMA NextDelivered ==
  ASSUME CookiesFitOneByte, IInv, CookiesAreUsedUp, OkMeansDelivered, [Next]_vars
  PROVE  OkMeansDelivered'
<1>1. CASE handled' = {}
  BY <1>1 DEF OkMeansDelivered
<1>2. ASSUME NEW s \in Sessions, NEW raw \in ClientMessages, ReadNextMessage(s, raw)
      PROVE  OkMeansDelivered'
  <2> DEFINE msg == Unpack(raw)
             x == [from |-> s, msg |-> raw]
             ok == IsToldOk(x)'
  <2>1. /\ raw \in Message /\ msg \in Message /\ msg.cookie = raw.cookie
        /\ msg.type = raw.type
    BY ClientMessagesAssumption, UnpackType, UnpackKeepsCookie
       DEF CookiesFitOneByte, Unpack, Message
  <2>2. session[s] = "open" /\ ProcessMessage(s, msg) /\ handled' = {x}
    BY <1>2 DEF ReadNextMessage
  <2>3. x.from = s /\ x.msg = raw
    OBVIOUS
  <2> HIDE DEF msg, x
  <2>4. ASSUME NEW status, Answers(s, msg.cookie, status)
        PROVE  ok <=> status = OK
    <3>1. Answers(x.from, x.msg.cookie, status)
      BY <2>1, <2>3, <2>4
    <3> QED
      BY <3>1, AnswersOnce
  <2> HIDE DEF ok
  <2> SUFFICES ASSUME raw.type = "Transaction"
               PROVE  /\ ok => \E d \in Delivered' :
                           /\ Live(d.to)'
                           /\ d.msg.cookie \in DOMAIN pending_transactions_'[d.to]
                           /\ pending_transactions_'[d.to][d.msg.cookie] =
                                [caller |-> s, reply_cookie |-> raw.cookie]
                      /\ ~ok => Delivered' = {}
    BY <2>2, <2>3 DEF OkMeansDelivered, IsToldOk, ok
  <2>5. OnUnreadableTransaction(s, msg) \/ OnTransaction(s, msg)
    BY <2>1, <2>2 DEF ProcessMessage, OnSetContextManager, OnSetMonitor, OnReply,
                      OnReference, OnRequestDeathNotification,
                      OnClearDeathNotification, OnUnsupported, ReadHandlerThrows
  <2>6. CASE Refused(s, msg) \/ OnUnreadableTransaction(s, msg)
    <3>1. PICK status \in Status \ {OK} : written' = SendStatus(monitor_, s, 1, msg, status)
      <4>1. BadValue \in Status \ {OK}
        BY DEF Status, BadValue, OK
      <4> QED
        BY <2>6, <4>1 DEF Refused, OnUnreadableTransaction
    <3>2. ~ok
      BY <2>4, <3>1, SendStatusAlone
    <3>3. Delivered' = {}
      BY <3>1, RefusedDeliversNothing
    <3> QED
      BY <3>2, <3>3
  <2>7. ASSUME NEW target \in Sessions, Posted(target, s, msg), OnTransaction(s, msg)
        PROVE  /\ ok
               /\ \E d \in Delivered' :
                    /\ Live(d.to)'
                    /\ d.msg.cookie \in DOMAIN pending_transactions_'[d.to]
                    /\ pending_transactions_'[d.to][d.msg.cookie] =
                         [caller |-> s, reply_cookie |-> raw.cookie]
    <3> DEFINE w == TranslateObjects(s, Untranslated(msg))
               p == PostedMessage(target, msg, w)
               d == [to |-> target, n |-> 1, log |-> FALSE, msg |-> p]
               c == next_transaction_cookie_[target]
               r == [caller |-> s, reply_cookie |-> raw.cookie]
    <3>1. ok
      BY <2>1, <2>4, <2>7, OnTransactionAnswers
    <3>2. d \in Delivered'
      BY <2>7, PostedIsDelivered
    <3>3. Live(target)'
      BY <2>7 DEF Posted, Live, OnTransaction
    <3>4. p.cookie = c
      BY DEF PostedMessage
    <3>5. d.to = target /\ d.msg = p
      OBVIOUS
    <3> HIDE DEF d, p, r
    <3>6. pending_transactions_'[target] = Insert(pending_transactions_[target], c, r)
      <4>1. DOMAIN pending_transactions_ = Sessions
        BY DEF IInv, TypeOK
      <4> QED
        BY <2>1, <2>7, <4>1 DEF Posted, r
    <3>7. c \notin DOMAIN pending_transactions_[target]
      <4>1. c \in Nat
        BY MaxTransactionsAssumption DEF IInv, TypeOK
      <4>2. ~(c < c)
        BY <4>1
      <4> QED
        BY <4>2 DEF CookiesAreUsedUp
    <3>8. /\ c \in DOMAIN pending_transactions_'[target]
          /\ pending_transactions_'[target][c] = r
      BY <3>6, <3>7 DEF Insert
    <3> QED
      BY <3>1, <3>2, <3>3, <3>4, <3>5, <3>8 DEF r
  <2> QED
    BY <2>1, <2>2, <2>5, <2>6, <2>7, OnTransactionOutcome
<1>3. CASE UNCHANGED vars
  <2>1. UNCHANGED <<handled, written, session, pending_transactions_>>
    BY <1>3 DEF vars, session_vars
  <2>2. Delivered' = Delivered /\ \A t : Live(t)' <=> Live(t)
    BY <2>1 DEF Delivered, Live
  <2>3. \A x : StatusesFor(x)' = StatusesFor(x)
    BY <2>1 DEF StatusesFor
  <2> QED
    BY <2>1, <2>2, <2>3 DEF OkMeansDelivered
<1> QED
  BY <1>1, <1>2, <1>3 DEF Next, StartAccept, Terminate

-----------------------------------------------------------------------------
(***************************************************************************)
(* Exports.                                                                *)
(***************************************************************************)

(* The objects of a transaction after one walk.                            *)
Translated(owned, next, objs) ==
  [i \in DOMAIN objs |-> TranslateObject(owned, next, objs, i)]

(* A second walk that meets no unknown type shows that the first met none  *)
(* either, since what the first does not reach it leaves as it is.  The    *)
(* first walk leaves no BINDER, so the second allocates no handle.         *)
LEMMA SecondWalk ==
  ASSUME NEW objs \in Seq(FlatObject), NEW next, NEW owned,
         Walked(Translated(owned, next, objs)) = DOMAIN objs
  PROVE  /\ Walked(objs) = DOMAIN objs
         /\ \A i \in DOMAIN objs : Translated(owned, next, objs)[i].type # "BINDER"
         /\ Exported(Translated(owned, next, objs)) = {}
<1> DEFINE first == Translated(owned, next, objs)
<1>1. /\ DOMAIN first = DOMAIN objs
      /\ \A i \in DOMAIN objs : first[i] = TranslateObject(owned, next, objs, i)
  BY DEF Translated
<1>2. \A i \in DOMAIN objs : i \in Nat /\ 1 .. i \subseteq DOMAIN objs /\ i \in 1 .. i
  <2>1. DOMAIN objs = 1 .. Len(objs) /\ Len(objs) \in Nat
    OBVIOUS
  <2> QED
    BY <2>1
<1> HIDE DEF first
<1>3. ASSUME NEW i \in DOMAIN objs, i \notin Walked(objs)
      PROVE  FALSE
  <2>1. PICK j \in 1 .. i : objs[j].type = "INVALID"
    BY <1>3 DEF Walked
  <2>2. j \in DOMAIN objs /\ j \in 1 .. j /\ j \notin Walked(objs)
    BY <1>2, <2>1 DEF Walked
  <2>3. first[j] = objs[j]
    BY <1>1, <2>2 DEF TranslateObject
  <2>4. j \notin Walked(first)
    BY <2>1, <2>2, <2>3 DEF Walked
  <2> QED
    BY <2>2, <2>4 DEF first
<1>4. Walked(objs) = DOMAIN objs
  BY <1>3 DEF Walked
<1>5. ASSUME NEW i \in DOMAIN objs
      PROVE  first[i].type # "BINDER"
  <2> DEFINE o == objs[i]
             r == TranslateObject(owned, next, objs, i)
  <2>1. CASE o.type = "BINDER"
    <3>1. r.type = "HANDLE"
      BY <1>4, <2>1 DEF TranslateObject
    <3> QED
      BY <1>1, <3>1
  <2>2. CASE o.type # "BINDER"
    <3>1. r = o \/ r.type = "WEAK_BINDER"
      BY <1>4, <2>2 DEF TranslateObject
    <3> QED
      BY <1>1, <2>2, <3>1
  <2> QED
    BY <1>1, <2>1, <2>2
<1>6. Exported(first) = {}
  BY <1>1, <1>5 DEF Exported, Walked
<1> QED
  BY <1>4, <1>5, <1>6 DEF first

(* A BINDER that is walked becomes a new HANDLE, under which the walking   *)
(* session then has the object.                                            *)
LEMMA ExportedIsOwned ==
  ASSUME NEW objs \in Seq(FlatObject), NEW next \in Nat, NEW owned,
         IsMap(owned, 1 .. next - 1, BinderObject), NEW i \in Exported(objs)
  PROVE  /\ HandleAt(next, objs, i) \in Nat /\ HandleAt(next, objs, i) >= next
         /\ HandleAt(next, objs, i) \in NewHandles(next, objs)
         /\ Translated(owned, next, objs)[i] =
              [type |-> "HANDLE", binder |-> HandleAt(next, objs, i), cookie |-> 0]
         /\ HandleAt(next, objs, i) \in DOMAIN WithExports(owned, next, objs)
         /\ WithExports(owned, next, objs)[HandleAt(next, objs, i)] =
              [binder |-> objs[i].binder, cookie |-> objs[i].cookie]
<1> DEFINE h == HandleAt(next, objs, i)
           k == CHOOSE j \in Exported(objs) : HandleAt(next, objs, j) = h
<1>1. i \in DOMAIN objs /\ i \in Walked(objs) /\ objs[i].type = "BINDER"
  BY DEF Exported, Walked
<1>2. h \in Nat /\ h >= next
  BY <1>1, HandleAtType
<1>3. h \in NewHandles(next, objs)
  BY DEF NewHandles
<1>4. Translated(owned, next, objs)[i] = [type |-> "HANDLE", binder |-> h, cookie |-> 0]
  BY <1>1 DEF Translated, TranslateObject
<1>5. h \notin DOMAIN owned
  BY <1>2 DEF IsMap
<1>6. k = i
  <2>1. k \in Exported(objs) /\ HandleAt(next, objs, k) = h
    OBVIOUS
  <2> HIDE DEF k
  <2> QED
    BY <2>1, HandleAtInjective
<1>7. /\ h \in DOMAIN WithExports(owned, next, objs)
      /\ WithExports(owned, next, objs)[h] =
           [binder |-> objs[k].binder, cookie |-> objs[k].cookie]
  BY <1>3, <1>5 DEF WithExports
<1> HIDE DEF k
<1> QED
  BY <1>2, <1>3, <1>4, <1>6, <1>7

(* A walk without a BINDER changes neither map, and turns a HANDLE of an   *)
(* object of the walking session, and no other, into a WEAK_BINDER.        *)
LEMMA WalkWithoutExports ==
  ASSUME NEW objs, NEW next, NEW owned, Exported(objs) = {},
         Walked(objs) = DOMAIN objs, NEW i \in DOMAIN objs
  PROVE  /\ NewHandles(next, objs) = {}
         /\ DOMAIN WithExports(owned, next, objs) = DOMAIN owned
         /\ \A h \in DOMAIN owned : WithExports(owned, next, objs)[h] = owned[h]
         /\ Translated(owned, next, objs)[i].type # "BINDER"
         /\ objs[i].type = "HANDLE" =>
              Translated(owned, next, objs)[i] =
                IF objs[i].binder \in DOMAIN owned
                  THEN [type |-> "WEAK_BINDER", binder |-> 0,
                        cookie |-> owned[objs[i].binder].cookie]
                  ELSE objs[i]
<1>1. NewHandles(next, objs) = {}
  BY DEF NewHandles
<1>2. /\ DOMAIN WithExports(owned, next, objs) = DOMAIN owned
      /\ \A h \in DOMAIN owned : WithExports(owned, next, objs)[h] = owned[h]
  BY <1>1 DEF WithExports
<1>3. i \in Walked(objs) /\ objs[i].type # "BINDER"
  BY DEF Exported
<1>4. Translated(owned, next, objs)[i] = TranslateObject(owned, next, objs, i)
  BY DEF Translated
<1>5. TranslateObject(owned, next, objs, i).type # "BINDER"
  BY <1>3 DEF TranslateObject
<1>6. ASSUME objs[i].type = "HANDLE"
      PROVE  TranslateObject(owned, next, objs, i) =
                IF objs[i].binder \in DOMAIN owned
                  THEN [type |-> "WEAK_BINDER", binder |-> 0,
                        cookie |-> owned[objs[i].binder].cookie]
                  ELSE objs[i]
  BY <1>2, <1>3, <1>6 DEF TranslateObject
<1> QED
  BY <1>1, <1>2, <1>4, <1>5, <1>6

(* What ExportLeadsBack says after a step of one object of a message that  *)
(* session s sent and that has been delivered to session to.               *)
LeadsBack(s, to, sent, got) ==
  /\ got.type # "BINDER"
  /\ sent.type = "BINDER" /\ to # s =>
       /\ got.type = "HANDLE"
       /\ got.binder \in DOMAIN handles_'
       /\ handles_'[got.binder] = s
       /\ objects_'[s][got.binder] = [binder |-> sent.binder, cookie |-> sent.cookie]
  /\ sent.type = "BINDER" /\ to = s =>
       got.type = "WEAK_BINDER" /\ got.cookie = sent.cookie

(* The objects of a transaction that is posted lead back to its sender:    *)
(* each handle the first walk allocates is new, so the target does not     *)
(* take it for its own unless the target is the sender.                    *)
LEMMA PostedLeadsBack ==
  ASSUME IInv, NEW s \in Sessions, session[s] = "open", NEW msg \in Message,
         NEW target \in Sessions, Posted(target, s, msg)
  PROVE  LET w == TranslateObjects(s, Untranslated(msg))
             p == TranslateObjects(target, w)
         IN  /\ DOMAIN p.flat = DOMAIN msg.objects
             /\ \A i \in DOMAIN p.flat : LeadsBack(s, target, msg.objects[i], p.flat[i])
<1> DEFINE u == Untranslated(msg)
           w == TranslateObjects(s, u)
           p == TranslateObjects(target, w)
           objs == msg.objects
           next == next_object_handle_
           first == Translated(objects_[s], next, objs)
           owned == w.objects[target]
<1>1. /\ objs \in Seq(FlatObject) /\ next \in Nat
      /\ DOMAIN objects_ = Sessions
      /\ \A t \in Sessions : IsMap(objects_[t], 1 .. next - 1, BinderObject)
      /\ DOMAIN handles_ \subseteq 1 .. next - 1
  <2>1. TranslationInSync(u)
    BY UntranslatedInSync
  <2>2. /\ u.next = next /\ u.objects = objects_ /\ u.handles = handles_
        /\ u.flat = objs
    BY DEF Untranslated
  <2> HIDE DEF u
  <2> QED
    BY <2>1, <2>2 DEF TranslationInSync, IsMap
<1>2. /\ w.handles = NewObjectHandles(handles_, NewHandles(next, objs), s)
      /\ w.objects = [objects_ EXCEPT ![s] = WithExports(objects_[s], next, objs)]
      /\ w.flat = first
  BY DEF TranslateObjects, Untranslated, Translated
<1>3. /\ p.status = OK => Walked(w.flat) = DOMAIN w.flat
      /\ p.handles = NewObjectHandles(w.handles, NewHandles(w.next, w.flat), target)
      /\ p.objects = [w.objects EXCEPT ![target] = WithExports(owned, w.next, w.flat)]
      /\ p.flat = Translated(owned, w.next, w.flat)
  <2>1. p.status = IF Walked(w.flat) = DOMAIN w.flat THEN OK ELSE InvalidOperation
    BY DEF TranslateObjects
  <2>2. OK # InvalidOperation
    BY DEF OK, InvalidOperation
  <2>3. /\ p.handles = NewObjectHandles(w.handles, NewHandles(w.next, w.flat), target)
        /\ p.objects = [w.objects EXCEPT ![target] = WithExports(owned, w.next, w.flat)]
        /\ p.flat = Translated(owned, w.next, w.flat)
    BY DEF TranslateObjects, Translated
  <2> QED
    BY <2>1, <2>2, <2>3
<1>4. p.status = OK /\ handles_' = p.handles /\ objects_' = p.objects
  BY DEF Posted, StoreTranslation
<1>5. DOMAIN first = DOMAIN objs
  BY DEF Translated
<1> HIDE DEF u, w, p, objs, next, first, owned
<1>6. /\ Walked(objs) = DOMAIN objs
      /\ \A i \in DOMAIN objs : first[i].type # "BINDER"
      /\ Exported(first) = {} /\ Walked(first) = DOMAIN first
  BY <1>1, <1>2, <1>3, <1>4, <1>5, SecondWalk DEF first
<1>7. DOMAIN p.flat = DOMAIN objs
  BY <1>2, <1>3, <1>5 DEF Translated
<1>8. ASSUME NEW i \in DOMAIN objs
      PROVE  LeadsBack(s, target, objs[i], p.flat[i])
  <2> DEFINE sent == objs[i]
             got == p.flat[i]
             h == HandleAt(next, objs, i)
             o == [binder |-> sent.binder, cookie |-> sent.cookie]
  <2>1. /\ NewHandles(w.next, w.flat) = {}
        /\ DOMAIN WithExports(owned, w.next, w.flat) = DOMAIN owned
        /\ \A g \in DOMAIN owned : WithExports(owned, w.next, w.flat)[g] = owned[g]
        /\ got.type # "BINDER"
        /\ first[i].type = "HANDLE" =>
             got = IF first[i].binder \in DOMAIN owned
                     THEN [type |-> "WEAK_BINDER", binder |-> 0,
                           cookie |-> owned[first[i].binder].cookie]
                     ELSE first[i]
    BY <1>2, <1>3, <1>5, <1>6, WalkWithoutExports
  <2>2. ASSUME sent.type = "BINDER"
        PROVE  /\ h \in Nat /\ h >= next /\ h \in NewHandles(next, objs)
               /\ first[i] = [type |-> "HANDLE", binder |-> h, cookie |-> 0]
               /\ h \in DOMAIN WithExports(objects_[s], next, objs)
               /\ WithExports(objects_[s], next, objs)[h] = o
    <3>1. i \in Exported(objs)
      BY <1>6, <2>2 DEF Exported
    <3> DEFINE mine == objects_[s]
    <3>2. IsMap(mine, 1 .. next - 1, BinderObject)
      BY <1>1
    <3>3. first = Translated(mine, next, objs)
      BY DEF first
    <3> HIDE DEF mine
    <3>4. /\ HandleAt(next, objs, i) \in Nat /\ HandleAt(next, objs, i) >= next
          /\ HandleAt(next, objs, i) \in NewHandles(next, objs)
          /\ first[i] = [type |-> "HANDLE", binder |-> HandleAt(next, objs, i), cookie |-> 0]
          /\ HandleAt(next, objs, i) \in DOMAIN WithExports(mine, next, objs)
          /\ WithExports(mine, next, objs)[HandleAt(next, objs, i)] =
               [binder |-> objs[i].binder, cookie |-> objs[i].cookie]
      BY <1>1, <3>1, <3>2, <3>3, ExportedIsOwned
    <3> QED
      BY <3>4 DEF mine
  <2> HIDE DEF got, h
  <2>3. ASSUME sent.type = "BINDER", target # s
        PROVE  /\ got.type = "HANDLE" /\ got.binder \in DOMAIN handles_'
               /\ handles_'[got.binder] = s /\ objects_'[s][got.binder] = o
    <3>1. owned = objects_[target]
      BY <1>1, <1>2, <2>3 DEF owned
    <3>2. h \notin DOMAIN owned /\ h \notin DOMAIN handles_
      BY <1>1, <2>2, <2>3, <3>1 DEF IsMap
    <3>3. got.type = "HANDLE" /\ got.binder = h
      BY <2>1, <2>2, <2>3, <3>2
    <3>4. h \in DOMAIN w.handles /\ w.handles[h] = s
      BY <1>2, <2>2, <2>3, <3>2 DEF NewObjectHandles
    <3>5. h \in DOMAIN p.handles /\ p.handles[h] = s
      BY <1>3, <3>4 DEF NewObjectHandles
    <3>6. p.objects[s] = WithExports(objects_[s], next, objs)
      BY <1>1, <1>2, <1>3, <2>3
    <3> QED
      BY <1>4, <2>2, <2>3, <3>3, <3>5, <3>6
  <2>4. ASSUME sent.type = "BINDER", target = s
        PROVE  got.type = "WEAK_BINDER" /\ got.cookie = sent.cookie
    <3>1. owned = WithExports(objects_[s], next, objs)
      BY <1>1, <1>2, <2>4 DEF owned
    <3> QED
      BY <2>1, <2>2, <2>4, <3>1
  <2>5. got.type # "BINDER"
    BY <2>1
  <2> QED
    BY <2>3, <2>4, <2>5 DEF LeadsBack, got
<1> QED
  BY <1>7, <1>8 DEF p, objs, w, u

(* Only OnTransaction delivers a transaction, and what it delivers leads   *)
(* back.                                                                   *)
LEMMA NextExport ==
  ASSUME IInv, ExportLeadsBack, [Next]_vars
  PROVE  ExportLeadsBack'
<1>1. CASE handled' = {}
  BY <1>1 DEF ExportLeadsBack
<1>2. ASSUME NEW s \in Sessions, NEW raw \in ClientMessages, ReadNextMessage(s, raw)
      PROVE  ExportLeadsBack'
  <2> DEFINE msg == Unpack(raw)
             x == [from |-> s, msg |-> raw]
  <2>1. /\ msg \in Message /\ msg.objects = raw.objects /\ raw \in Message
    BY ClientMessagesAssumption, UnpackType DEF Unpack, Message
  <2>2. session[s] = "open" /\ ProcessMessage(s, msg) /\ handled' = {x}
    BY <1>2 DEF ReadNextMessage
  <2>3. x.from = s /\ x.msg = raw
    OBVIOUS
  <2> HIDE DEF msg, x
  <2>4. CASE Delivered' = {}
    BY <2>4 DEF ExportLeadsBack
  <2>5. ASSUME NEW target \in Sessions, Posted(target, s, msg)
        PROVE  ExportLeadsBack'
    <3> DEFINE w == TranslateObjects(s, Untranslated(msg))
               p == PostedMessage(target, msg, w)
               d == [to |-> target, n |-> 1, log |-> FALSE, msg |-> p]
               flat == TranslateObjects(target, w).flat
    <3>1. p.objects = flat
      BY DEF PostedMessage
    <3>2. Delivered' = {d}
      BY <2>5, PostedIsDelivered
    <3>3. \A i \in DOMAIN flat : LeadsBack(s, target, msg.objects[i], flat[i])
      BY <2>1, <2>2, <2>5, PostedLeadsBack
    <3>4. d.to = target /\ d.msg = p
      OBVIOUS
    <3> HIDE DEF d, p, flat, w
    <3> QED
      BY <2>1, <2>2, <2>3, <3>1, <3>2, <3>3, <3>4 DEF ExportLeadsBack, LeadsBack
  <2>6. ASSUME NEW monitor, NEW status, written' = SendStatus(monitor, s, 1, msg, status)
        PROVE  ExportLeadsBack'
    BY <2>4, <2>6, RefusedDeliversNothing
  <2>7. CASE OnTransaction(s, msg)
    BY <2>1, <2>2, <2>5, <2>6, <2>7, OnTransactionOutcome DEF Refused
  <2>8. CASE \/ OnUnreadableTransaction(s, msg) \/ OnUnsupported(s, msg)
             \/ OnReference(s, msg) \/ OnRequestDeathNotification(s, msg)
             \/ OnClearDeathNotification(s, msg)
    <3>1. \E status : written' = SendStatus(monitor_, s, 1, msg, status)
      BY <2>8 DEF OnUnreadableTransaction, OnUnsupported, OnReference,
                  OnRequestDeathNotification, OnClearDeathNotification
    <3> QED
      BY <2>6, <3>1
  <2>9. CASE OnSetMonitor(s, msg)
    BY <2>6, <2>9 DEF OnSetMonitor
  <2>10. CASE OnSetContextManager(s, msg)
    <3>1. PICK status : written' = ForwardToMonitor(monitor_, 0, msg)
                                     \cup SendStatus(monitor_, s, 1, msg, status)
      BY <2>10 DEF OnSetContextManager
    <3> DEFINE m == NewMessage("Status", msg.cookie, <<status>>)
    <3>2. m.type = "Status"
      BY DEF NewMessage
    <3> HIDE DEF m
    <3>3. \A y \in ForwardToMonitor(monitor_, 0, msg) : y.log
      BY WriteMessageMembers
    <3>4. \A y \in WriteMessage(monitor_, s, 1, m) :
            y = [to |-> s, n |-> 1, log |-> FALSE, msg |-> m] \/ y.log
      BY WriteMessageMembers
    <3>5. \A y \in written' : y.log \/ y.msg.type = "Status"
      BY <3>1, <3>2, <3>3, <3>4 DEF SendStatus, m
    <3> QED
      BY <2>4, <3>5 DEF Delivered
  <2>11. CASE OnReply(s, msg) \/ ReadHandlerThrows(s, msg)
    <3>1. CASE written' = {}
      BY <2>4, <3>1 DEF Delivered
    <3>2. ASSUME NEW to, NEW cookie,
                 written' = WriteMessage(monitor_, to, 1, [msg EXCEPT !.cookie = cookie])
          PROVE  Delivered' = {}
      <4> DEFINE m == [msg EXCEPT !.cookie = cookie]
      <4>1. m.type = msg.type
        BY <2>1 DEF Message
      <4>2. msg.type # "Transaction"
        BY <2>11 DEF OnReply, ReadHandlerThrows
      <4>. written' = WriteMessage(monitor_, to, 1, m)
        BY <3>2
      <4> HIDE DEF m
      <4>3. \A y \in WriteMessage(monitor_, to, 1, m) :
              y = [to |-> to, n |-> 1, log |-> FALSE, msg |-> m] \/ y.log
        BY WriteMessageMembers
      <4> QED
        BY <4>1, <4>2, <4>3 DEF Delivered
    <3> QED
      BY <2>4, <2>11, <3>1, <3>2 DEF OnReply, ReadHandlerThrows
  <2> QED
    BY <2>2, <2>7, <2>8, <2>9, <2>10, <2>11 DEF ProcessMessage
<1>3. CASE UNCHANGED vars
  <2>1. UNCHANGED <<handled, written, handles_, objects_>>
    BY <1>3 DEF vars, session_vars, registry_vars
  <2>2. Delivered' = Delivered
    BY <2>1 DEF Delivered
  <2>3. ASSUME NEW x \in handled', NEW d \in Delivered', NEW i \in DOMAIN d.msg.objects
        PROVE  LeadsBack(x.from, d.to, x.msg.objects[i], d.msg.objects[i])
    <3>1. x \in handled /\ d \in Delivered
      BY <2>1, <2>2
    <3>2. handles_' = handles_ /\ objects_' = objects_
      BY <2>1
    <3> QED
      BY <3>1, <3>2 DEF ExportLeadsBack, LeadsBack
  <2> QED
    BY <2>3 DEF ExportLeadsBack, LeadsBack
<1> QED
  BY <1>1, <1>2, <1>3 DEF Next, StartAccept, Terminate

-----------------------------------------------------------------------------
(***************************************************************************)
(* The theorems.                                                           *)
(***************************************************************************)

(* A session never gives out a cookie that still has a record, so Insert,  *)
(* which keeps an entry that is there, never drops a new record.           *)
THEOREM CookiesStayFresh == Spec => []CookiesAreUsedUp
<1>1. Init => CookiesAreUsedUp
  BY DEF Init, CookiesAreUsedUp, EmptyMap
<1> QED
  BY <1>1, NextCookies, InductiveInvariant, PTL DEF Spec

(* Every request that leaves its session open is answered in the same step *)
(* by exactly one Status with its cookie, whatever handler ran, for        *)
(* clients whose cookies the one byte BinaryReader keeps can hold.         *)
THEOREM RequestsAreAnswered ==
  ASSUME CookiesFitOneByte
  PROVE  Spec => []RequestIsAnswered
<1>1. Init => RequestIsAnswered
  BY DEF Init, RequestIsAnswered
<1>2. IInv /\ RequestIsAnswered /\ [Next]_vars => RequestIsAnswered'
  BY NextAnswered
<1> QED
  BY <1>1, <1>2, InductiveInvariant, PTL DEF Spec

(* A caller is told OK only of a transaction that a live session has been  *)
(* sent and has a record for, and a transaction that is refused reaches    *)
(* nobody, under the same restriction on the clients' cookies.             *)
THEOREM OkIsDelivered ==
  ASSUME CookiesFitOneByte
  PROVE  Spec => []OkMeansDelivered
<1>1. Init => OkMeansDelivered
  BY DEF Init, OkMeansDelivered
<1>2. IInv /\ CookiesAreUsedUp /\ OkMeansDelivered /\ [Next]_vars => OkMeansDelivered'
  BY NextDelivered
<1> QED
  BY <1>1, <1>2, InductiveInvariant, CookiesStayFresh, PTL DEF Spec

(* A local object in a transaction reaches another session as a handle     *)
(* that the registry and the sender's map lead back to that very object,   *)
(* and the sender itself as its own object; no pointer of a sender is ever *)
(* delivered, through both walks of TranslateObjects.                      *)
THEOREM ExportsLeadBack == Spec => []ExportLeadsBack
<1>1. Init => ExportLeadsBack
  BY DEF Init, ExportLeadsBack
<1>2. IInv /\ ExportLeadsBack /\ [Next]_vars => ExportLeadsBack'
  BY NextExport
<1> QED
  BY <1>1, <1>2, InductiveInvariant, PTL DEF Spec

(* A record of pending_transactions_ goes only with an answer of its       *)
(* callee, which is then sent to the caller under the caller's cookie.     *)
THEOREM PendingIsOnlySettled == Spec => PendingIsSettled
<1>1. IInv /\ [Next]_vars => [SettledStep]_vars
  BY NextSettledStep
<1>2. PendingIsSettled <=> [][SettledStep]_vars
  BY DEF PendingIsSettled, SettledStep
<1> QED
  BY <1>1, <1>2, InductiveInvariant, PTL DEF Spec

(* When the handles of a session go, every session that references one and *)
(* has asked for its death is sent DeadBinder once for each reference.     *)
THEOREM DeathIsReported == Spec => HoldersLearnOfDeath
<1>1. IInv /\ [Next]_vars => [DeathStep]_vars
  BY NextDeathStep
<1>2. HoldersLearnOfDeath <=> [][DeathStep]_vars
  BY DEF HoldersLearnOfDeath, DeathStep
<1> QED
  BY <1>1, <1>2, InductiveInvariant, PTL DEF Spec
=============================================================================

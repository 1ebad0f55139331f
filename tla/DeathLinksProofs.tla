-------------------------- MODULE DeathLinksProofs --------------------------
(***************************************************************************)
(* What TLAPS proves of DeathLinks, for every number of remote objects,    *)
(* handles, recipients and threads.                                        *)
(***************************************************************************)
EXTENDS DeathLinks, TLAPS

-----------------------------------------------------------------------------
(***************************************************************************)
(* Types.                                                                  *)
(***************************************************************************)

(* A thread in LinkToDeath or UnlinkToDeath calls on an object that was    *)
(* created.                                                                *)
CallsOnCreated ==
  \A t \in Threads : thread[t] # Idle => handle_[thread[t].proxy] # 0

TypeInv == TypeOK /\ CallsOnCreated

(* The places of a thread and of a worker.                                 *)
LEMMA PlaceTypes ==
  ASSUME TypeOK
  PROVE  /\ Idle.pc = "idle"
         /\ \A t \in Threads : thread[t].pc # "idle" => thread[t] # Idle /\ thread[t] \in Calling
         /\ \A w \in Workers : serving[w].pc # "idle" => serving[w] # Idle /\ serving[w] \in Executing
         /\ \A t \in Threads : thread[t] # Idle => thread[t].pc # "idle"
         /\ \A w \in Workers : serving[w] # Idle => serving[w].pc # "idle"
<1>1. Idle.pc = "idle"
  BY DEF Idle
<1>2. \A x \in Calling \cup Executing : x.pc # "idle"
  BY DEF Calling, Executing
<1>3. /\ \A t \in Threads : thread[t] = Idle \/ thread[t] \in Calling
      /\ \A w \in Workers : serving[w] = Idle \/ serving[w] \in Executing
  BY DEF TypeOK
<1> QED
  BY <1>1, <1>2, <1>3

(* The iterators of workers go stale, and nothing else about them changes. *)
LEMMA InvalidatedType ==
  ASSUME TypeOK
  PROVE  /\ Invalidated \in [Workers -> {Idle} \cup Executing]
         /\ \A w \in Workers :
              /\ Invalidated[w].pc = serving[w].pc
              /\ Invalidated[w] # Idle => serving[w] # Idle
              /\ Invalidated[w] # Idle => Invalidated[w].proxy = serving[w].proxy
<1> SUFFICES ASSUME NEW w \in Workers
             PROVE  /\ Invalidated[w] \in {Idle} \cup Executing
                    /\ Invalidated[w].pc = serving[w].pc
                    /\ Invalidated[w] # Idle => serving[w] # Idle
                    /\ Invalidated[w] # Idle => Invalidated[w].proxy = serving[w].proxy
  BY DEF Invalidated
<1>1. serving[w] \in {Idle} \cup Executing
  BY DEF TypeOK
<1>2. Invalidated[w] = IF serving[w] # Idle /\ serving[w].pc # "dequeued"
                         THEN [serving[w] EXCEPT !.stale = TRUE] ELSE serving[w]
  BY DEF Invalidated
<1>3. CASE serving[w] = Idle
  BY <1>2, <1>3
<1>4. CASE serving[w] # Idle
  <2> DEFINE s == serving[w]
  <2>1. s \in Executing
    BY <1>1, <1>4
  <2> HIDE DEF s
  <2>2. /\ [s EXCEPT !.stale = TRUE] \in Executing /\ [s EXCEPT !.stale = TRUE].pc = s.pc
        /\ [s EXCEPT !.stale = TRUE].proxy = s.proxy
    BY <2>1 DEF Executing
  <2> QED
    BY <1>2, <1>4, <2>1, <2>2 DEF s
<1> QED
  BY <1>3, <1>4

(* Insert and Erase on the maps of client and server.                      *)
LEMMA InsertMap ==
  ASSUME NEW f, NEW K, NEW V, IsMap(f, K, V), NEW k \in K, NEW v \in V
  PROVE  /\ IsMap(Insert(f, k, v), K, V)
         /\ DOMAIN Insert(f, k, v) = DOMAIN f \cup {k}
         /\ \A x \in DOMAIN f : Insert(f, k, v)[x] = f[x]
         /\ k \notin DOMAIN f => Insert(f, k, v)[k] = v
BY DEF Insert, IsMap

(* The same for Erase.                                                     *)
LEMMA EraseMap ==
  ASSUME NEW f, NEW K, NEW V, IsMap(f, K, V), NEW k
  PROVE  /\ IsMap(Erase(f, k), K, V)
         /\ DOMAIN Erase(f, k) = DOMAIN f \ {k}
         /\ \A x \in DOMAIN f \ {k} : Erase(f, k)[x] = f[x]
BY DEF Erase, IsMap

(* The first element of a queue, and what is left behind it.               *)
LEMMA Dequeued ==
  ASSUME NEW S, NEW q \in Seq(S), q # << >>
  PROVE  Head(q) \in S /\ Tail(q) \in Seq(S)
OBVIOUS

(* A queue with n more messages about the same object.                     *)
LEMMA Repeated ==
  ASSUME NEW S, NEW q \in Seq(S), NEW p \in S, NEW n \in Nat
  PROVE  q \o [i \in 1 .. n |-> p] \in Seq(S)
<1>1. [i \in 1 .. n |-> p] \in Seq(S)
  OBVIOUS
<1> QED
  BY <1>1

(* A queue of elements of a set is one of elements of a larger set.        *)
LEMMA LargerSeq ==
  ASSUME NEW S, NEW T, S \subseteq T, NEW q \in Seq(S)
  PROVE  q \in Seq(T)
<1>1. DOMAIN q = 1 .. Len(q) /\ Len(q) \in Nat /\ \A i \in 1 .. Len(q) : q[i] \in S
  OBVIOUS
<1>2. q = [i \in 1 .. Len(q) |-> q[i]]
  OBVIOUS
<1> QED
  BY <1>1, <1>2

(* The client and the server at the start.                                 *)
LEMMA InitTypeInv == Init => TypeInv
<1> SUFFICES ASSUME Init PROVE TypeInv
  OBVIOUS
<1>1. \A K, V : IsMap(EmptyMap, K, V)
  BY DEF IsMap, EmptyMap
<1>2. IsMap(dead_recipients_, Proxies, Nat \ {0}) /\ IsMap(death_notifications_, Handles, Proxies)
  BY <1>1 DEF Init
<1>3. /\ thread \in [Threads -> {Idle} \cup Calling]
      /\ serving \in [Workers -> {Idle} \cup Executing] /\ in_messages_ \in Seq(Proxies)
  BY DEF Init
<1>4. /\ handle_ \in [Proxies -> Handles \cup {0}] /\ freed \subseteq Proxies
      /\ lock_ \in [Proxies -> Threads \cup {Nobody}]
      /\ obituaries_ \in [Proxies -> SUBSET Recipients]
      /\ obituaries_sent_ \in [Proxies -> BOOLEAN]
  BY DEF Init
<1>5. links \in 0 .. MaxLinks
  BY MaxLinksAssumption DEF Init
<1>6. /\ crashed \in BOOLEAN /\ known \subseteq Handles /\ owed \subseteq Proxies \X Recipients
      /\ references_ \in [Handles -> Nat] /\ misled \subseteq Proxies
  BY DEF Init
<1>7. reported \in [Proxies \X Recipients -> Nat]
  BY DEF Init
<1>8. CallsOnCreated
  BY DEF Init, CallsOnCreated
<1> QED
  BY <1>2, <1>3, <1>4, <1>5, <1>6, <1>7, <1>8 DEF TypeInv, TypeOK

(* The life of a remote object.                                            *)
LEMMA ObjectTypeInv ==
  ASSUME TypeInv, NEW p \in Proxies, NEW h \in Handles, Create(p, h) \/ Destroy(p)
  PROVE  TypeInv'
<1>1. CASE Create(p, h)
  <2>1. references_' \in [Handles -> Nat]
    BY <1>1 DEF Create, TypeInv, TypeOK
  <2>2. reported' \in [Proxies \X Recipients -> Nat]
    BY <1>1 DEF Create, TypeInv, TypeOK
  <2>3. handle_' \in [Proxies -> Handles \cup {0}] /\ h # 0
    BY <1>1, HandlesAssumption DEF Create, TypeInv, TypeOK
  <2>4. CallsOnCreated'
    <3>1. \A t \in Threads : thread[t] # Idle => thread[t].proxy \in Proxies
      BY DEF TypeInv, TypeOK, Calling
    <3> QED
      BY <1>1, <2>3, <3>1 DEF Create, TypeInv, TypeOK, CallsOnCreated, client_vars
  <2> QED
    BY <1>1, <2>1, <2>2, <2>3, <2>4 DEF Create, TypeInv, TypeOK, client_vars
<1>2. CASE Destroy(p)
  <2>1. references_' \in [Handles -> Nat]
    <3>1. ASSUME NEW k \in Handles, references_[k] > 0 PROVE references_[k] - 1 \in Nat
      BY <3>1 DEF TypeInv, TypeOK
    <3>2. handle_[p] \in known => handle_[p] \in Handles
      BY DEF TypeInv, TypeOK
    <3> QED
      BY <1>2, <3>1, <3>2 DEF Destroy, TypeInv, TypeOK
  <2> QED
    BY <1>2, <2>1 DEF Destroy, TypeInv, TypeOK, CallsOnCreated, client_vars, history_vars
<1> QED
  BY <1>1, <1>2

(* The two calls of an application thread, up to the server.               *)
LEMMA LinkTypeInv ==
  ASSUME TypeInv, NEW t \in Threads, NEW p \in Proxies, NEW r \in Recipients,
         LinkToDeath(t, p, r) \/ UnlinkToDeath(t, p, r)
  PROVE  TypeInv'
<1>1. PICK pc \in {"request", "clear"} : Begins(t, p, r, pc)
  BY DEF LinkToDeath, UnlinkToDeath
<1> DEFINE c == [pc |-> pc, proxy |-> p, recipient |-> r, status |-> OK]
<1>2. c \in Calling /\ c.proxy = p
  BY DEF Calling, Status
<1>3. thread' = [thread EXCEPT ![t] = c] /\ lock_' = [lock_ EXCEPT ![p] = t] /\ handle_[p] # 0
  BY <1>1 DEF Begins, Lives
<1> HIDE DEF c
<1>4. thread' \in [Threads -> {Idle} \cup Calling]
  BY <1>2, <1>3 DEF TypeInv, TypeOK
<1>5. lock_' \in [Proxies -> Threads \cup {Nobody}]
  BY <1>3 DEF TypeInv, TypeOK
<1>6. serving' \in [Workers -> {Idle} \cup Executing]
  BY InvalidatedType DEF LinkToDeath, UnlinkToDeath, TypeInv, TypeOK
<1>7. IsMap(dead_recipients_', Proxies, Nat \ {0}) /\ links' \in 0 .. MaxLinks
  <2>1. CASE LinkToDeath(t, p, r)
    BY <2>1, MaxLinksAssumption DEF LinkToDeath, TypeInv, TypeOK, IsMap
  <2>2. CASE UnlinkToDeath(t, p, r)
    <3>1. IsMap(Erase(dead_recipients_, p), Proxies, Nat \ {0})
      BY EraseMap DEF TypeInv, TypeOK
    <3>2. dead_recipients_[p] > 1 =>
            IsMap([dead_recipients_ EXCEPT ![p] = @ - 1], Proxies, Nat \ {0})
      BY <2>2 DEF UnlinkToDeath, TypeInv, TypeOK, IsMap
    <3> QED
      BY <2>2, <3>1, <3>2 DEF UnlinkToDeath, TypeInv, TypeOK
  <2> QED
    BY <2>1, <2>2
<1>8. /\ UNCHANGED <<handle_, freed, obituaries_, obituaries_sent_, in_messages_,
                     crashed, known, references_, death_notifications_, reported, owed, misled>>
  BY DEF LinkToDeath, UnlinkToDeath, server_vars, history_vars
<1>9. CallsOnCreated'
  BY <1>2, <1>3, <1>8 DEF TypeInv, TypeOK, CallsOnCreated
<1> QED
  BY <1>4, <1>5, <1>6, <1>7, <1>8, <1>9 DEF TypeInv, TypeOK

(* The rest of the calls.                                                  *)
LEMMA ThreadTypeInv ==
  ASSUME TypeInv, NEW t \in Threads, ThreadStep(t)
  PROVE  TypeInv'
<1>1. thread[t].pc # "idle"
  BY DEF ThreadStep, OnRequestDeathNotification, Linked, OnClearDeathNotification, Unlinked
<1>2. thread[t] # Idle /\ thread[t] \in Calling
  BY <1>1, PlaceTypes DEF TypeInv
<1>3. /\ thread[t].proxy \in Proxies /\ thread[t].recipient \in Recipients
      /\ handle_[thread[t].proxy] \in Handles
  BY <1>2 DEF Calling, TypeInv, TypeOK, CallsOnCreated
<1>4. CASE OnRequestDeathNotification(t) \/ OnClearDeathNotification(t)
  <2>1. PICK pc \in {"requested", "cleared"}, s \in Status :
          thread' = [thread EXCEPT ![t].pc = pc, ![t].status = s]
    BY <1>4 DEF OnRequestDeathNotification, OnClearDeathNotification, Status
  <2>2. /\ thread' \in [Threads -> {Idle} \cup Calling] /\ thread'[t].proxy = thread[t].proxy
        /\ \A u \in Threads \ {t} : thread'[u] = thread[u]
    BY <1>2, <2>1 DEF TypeInv, TypeOK, Calling
  <2>3. IsMap(death_notifications_', Handles, Proxies)
    <3> DEFINE k == handle_[thread[t].proxy]
               p == thread[t].proxy
               d == death_notifications_
    <3>1. k \in Handles /\ p \in Proxies /\ IsMap(d, Handles, Proxies)
      BY <1>3 DEF TypeInv, TypeOK
    <3>2. death_notifications_' = Insert(d, k, p) \/ death_notifications_' = Erase(d, k)
      BY <1>4 DEF OnRequestDeathNotification, OnClearDeathNotification
    <3> HIDE DEF k, p, d
    <3>3. IsMap(Insert(d, k, p), Handles, Proxies) /\ IsMap(Erase(d, k), Handles, Proxies)
      BY <3>1, InsertMap, EraseMap
    <3> QED
      BY <3>2, <3>3
  <2>4. UNCHANGED <<object_vars, dead_recipients_, serving, in_messages_, crashed,
                    links, known, references_, reported, owed, misled>>
    BY <1>4 DEF OnRequestDeathNotification, OnClearDeathNotification, history_vars
  <2>5. CallsOnCreated'
    BY <1>2, <2>2, <2>4 DEF TypeInv, CallsOnCreated, object_vars
  <2> QED
    BY <2>2, <2>3, <2>4, <2>5 DEF TypeInv, TypeOK, object_vars
<1>5. CASE Linked(t) \/ Unlinked(t)
  <2>1. thread' = [thread EXCEPT ![t] = Idle] /\ lock_' = [lock_ EXCEPT ![thread[t].proxy] = Nobody]
    BY <1>5 DEF Linked, Unlinked
  <2>2. /\ thread' \in [Threads -> {Idle} \cup Calling]
        /\ lock_' \in [Proxies -> Threads \cup {Nobody}]
    BY <1>3, <2>1 DEF TypeInv, TypeOK
  <2>3. obituaries_' \in [Proxies -> SUBSET Recipients] /\ owed' \subseteq Proxies \X Recipients
    <3>1. owed' \subseteq owed
      BY <1>5 DEF Linked, Unlinked, history_vars
    <3>2. obituaries_' \in [Proxies -> SUBSET Recipients]
      BY <1>3, <1>5 DEF Linked, Unlinked, TypeInv, TypeOK
    <3> QED
      BY <3>1, <3>2 DEF TypeInv, TypeOK
  <2>4. UNCHANGED <<handle_, freed, obituaries_sent_, dead_recipients_, serving,
                    in_messages_, crashed, links, server_vars, reported, misled>>
    BY <1>5 DEF Linked, Unlinked, history_vars
  <2>5. CallsOnCreated'
    BY <2>1, <2>4 DEF TypeInv, TypeOK, CallsOnCreated
  <2> QED
    BY <2>2, <2>3, <2>4, <2>5 DEF TypeInv, TypeOK, server_vars
<1> QED
  BY <1>4, <1>5 DEF ThreadStep

(* The end of the session that exported a handle.                          *)
LEMMA HandleDiesTypeInv ==
  ASSUME TypeInv, NEW h \in Handles, HandleDies(h)
  PROVE  TypeInv'
<1>1. in_messages_' \in Seq(Proxies)
  <2>1. in_messages_ \in Seq(Proxies) /\ references_[h] \in Nat
    BY DEF TypeInv, TypeOK
  <2>2. ASSUME h \in DOMAIN death_notifications_
        PROVE  in_messages_ \o [i \in 1 .. references_[h] |-> death_notifications_[h]]
                 \in Seq(Proxies)
    <3>1. death_notifications_[h] \in Proxies
      BY <2>2 DEF TypeInv, TypeOK, IsMap
    <3> QED
      BY <2>1, <3>1, Repeated
  <2> QED
    BY <2>1, <2>2 DEF HandleDies
<1>2. /\ references_' \in [Handles -> Nat] /\ known' \subseteq Handles
      /\ owed' \subseteq Proxies \X Recipients
  BY DEF HandleDies, TypeInv, TypeOK, LinksTo
<1> QED
  BY <1>1, <1>2 DEF HandleDies, TypeInv, TypeOK, CallsOnCreated, object_vars

(* The workers.                                                            *)
LEMMA WorkerTypeInv ==
  ASSUME TypeInv, NEW w \in Workers, WorkerStep(w)
  PROVE  TypeInv'
<1>1. UNCHANGED <<handle_, freed, lock_, obituaries_, thread, links, server_vars>>
  BY DEF WorkerStep, DequeueMessage, FindRecipient, SendObituary, OnObjectDied,
     EraseRecipient, object_vars
<1>2. CallsOnCreated'
  BY <1>1 DEF TypeInv, CallsOnCreated
<1>3. serving[w].pc # "idle" => serving[w] \in Executing /\ serving[w].proxy \in Proxies
  BY PlaceTypes DEF TypeInv, Executing
<1>4. CASE DequeueMessage(w)
  <2> DEFINE p == Head(in_messages_)
             s == [pc |-> "dequeued", stale |-> FALSE, proxy |-> p]
  <2>1. p \in Proxies /\ in_messages_' \in Seq(Proxies)
    BY <1>4, Dequeued DEF DequeueMessage, TypeInv, TypeOK
  <2>2. s \in Executing
    BY <2>1 DEF Executing
  <2>3. serving' = [serving EXCEPT ![w] = s]
    BY <1>4 DEF DequeueMessage
  <2> HIDE DEF s
  <2>4. serving' \in [Workers -> {Idle} \cup Executing]
    BY <2>2, <2>3 DEF TypeInv, TypeOK
  <2> QED
    BY <1>1, <1>2, <1>4, <2>1, <2>4
    DEF DequeueMessage, TypeInv, TypeOK, server_vars, object_vars, history_vars
<1>5. CASE FindRecipient(w) \/ SendObituary(w)
  <2>1. serving[w] \in Executing
    BY <1>3, <1>5 DEF FindRecipient, SendObituary
  <2>2. \E s \in {Idle} \cup Executing : serving' = [serving EXCEPT ![w] = s]
    <3>1. CASE FindRecipient(w)
      <4>1. [serving[w] EXCEPT !.pc = "found"] \in Executing
        BY <2>1 DEF Executing
      <4> QED
        BY <3>1, <4>1 DEF FindRecipient
    <3>2. CASE SendObituary(w)
      <4>1. PICK pc \in {"sent", "sending"} : serving' = [serving EXCEPT ![w].pc = pc]
        BY <3>2 DEF SendObituary
      <4>2. [serving[w] EXCEPT !.pc = pc] \in Executing
        BY <2>1 DEF Executing
      <4>3. serving' = [serving EXCEPT ![w] = [serving[w] EXCEPT !.pc = pc]]
        BY <4>1 DEF TypeInv, TypeOK
      <4> QED
        BY <4>2, <4>3
    <3> QED
      BY <1>5, <3>1, <3>2
  <2>3. serving' \in [Workers -> {Idle} \cup Executing]
    BY <2>2 DEF TypeInv, TypeOK
  <2> QED
    BY <1>1, <1>2, <1>5, <2>3
    DEF FindRecipient, SendObituary, TypeInv, TypeOK, server_vars, object_vars, history_vars
<1>6. CASE OnObjectDied(w)
  <2>1. serving[w] \in Executing /\ serving[w].proxy \in Proxies
    BY <1>3, <1>6 DEF OnObjectDied
  <2>2. serving' \in [Workers -> {Idle} \cup Executing]
    BY <1>6, <2>1 DEF OnObjectDied, TypeInv, TypeOK, Executing
  <2>3. /\ reported' \in [Proxies \X Recipients -> Nat]
        /\ owed' \subseteq Proxies \X Recipients
        /\ obituaries_sent_' \in [Proxies -> BOOLEAN]
    BY <1>6, <2>1 DEF OnObjectDied, TypeInv, TypeOK
  <2> QED
    BY <1>1, <1>2, <1>6, <2>2, <2>3 DEF OnObjectDied, TypeInv, TypeOK, server_vars
<1>7. CASE EraseRecipient(w)
  <2>1. serving' \in [Workers -> {Idle} \cup Executing]
    BY <1>7, InvalidatedType DEF EraseRecipient, TypeInv
  <2>2. /\ IsMap(dead_recipients_', Proxies, Nat \ {0}) /\ crashed' \in BOOLEAN
        /\ misled' \subseteq Proxies
    <3>1. \A q : IsMap(Erase(dead_recipients_, q), Proxies, Nat \ {0})
      BY EraseMap DEF TypeInv, TypeOK
    <3>2. misled' \subseteq misled \cup DOMAIN dead_recipients_
      BY <1>7 DEF EraseRecipient
    <3>3. DOMAIN dead_recipients_ \subseteq Proxies
      BY DEF TypeInv, TypeOK, IsMap
    <3>4. misled' \subseteq Proxies
      BY <3>2, <3>3 DEF TypeInv, TypeOK
    <3>5. IsMap(dead_recipients_', Proxies, Nat \ {0})
      <4>1. UNCHANGED dead_recipients_ \/ \E q : dead_recipients_' = Erase(dead_recipients_, q)
        BY <1>7 DEF EraseRecipient
      <4> QED
        BY <3>1, <4>1 DEF TypeInv, TypeOK
    <3>6. crashed' \in BOOLEAN
      BY <1>7 DEF EraseRecipient, TypeInv, TypeOK
    <3> QED
      BY <3>4, <3>5, <3>6
  <2> QED
    BY <1>1, <1>2, <1>7, <2>1, <2>2 DEF EraseRecipient, TypeInv, TypeOK, server_vars, object_vars
<1> QED
  BY <1>4, <1>5, <1>6, <1>7 DEF WorkerStep

(* Every step keeps the types.                                             *)
LEMMA NextTypeInv == TypeInv /\ [Next]_vars => TypeInv'
<1>1. TypeInv /\ UNCHANGED vars => TypeInv'
  BY DEF TypeInv, TypeOK, CallsOnCreated, vars, object_vars, client_vars, server_vars, history_vars
<1>2. ASSUME TypeInv, NEW p \in Proxies, Destroy(p) PROVE TypeInv'
  <2>1. handle_[p] \in Handles
    BY <1>2 DEF Destroy, Lives, TypeInv, TypeOK
  <2> QED
    BY <1>2, <2>1, ObjectTypeInv
<1> QED
  BY <1>1, <1>2, ObjectTypeInv, LinkTypeInv, ThreadTypeInv, HandleDiesTypeInv, WorkerTypeInv
  DEF Next

(* The invariant of types.                                                 *)
LEMMA TypeInvariant == Spec => []TypeInv
BY InitTypeInv, NextTypeInv, PTL DEF Spec

(* Every variable keeps its type.  Not obvious of the server's             *)
(* registrations: a request reaches it with the handle of an object, never *)
(* with that of one not created.                                           *)
THEOREM LinkTypes == Spec => []TypeOK
<1>1. TypeInv => TypeOK
  BY DEF TypeInv
<1> QED
  BY <1>1, TypeInvariant, PTL

-----------------------------------------------------------------------------
(***************************************************************************)
(* A death is reported once, by one worker.                                *)
(***************************************************************************)
OneWorker == \A v, w \in Workers : v = w

(* Nothing was reported before obituaries_sent_ is set, and the worker     *)
(* that reports has seen it unset.                                         *)
ReportedInv ==
  /\ \A x \in Proxies \X Recipients :
       reported[x] <= 1 /\ (~obituaries_sent_[x[1]] => reported[x] = 0)
  /\ \A w \in Workers :
       serving[w].pc = "sending" => ~obituaries_sent_[serving[w].proxy]

(* Steps that report nothing and let no worker begin to.                   *)
LEMMA FrameReported ==
  ASSUME ReportedInv, UNCHANGED <<reported, obituaries_sent_>>,
         \A w \in Workers : serving'[w].pc = "sending" =>
           serving[w].pc = "sending" /\ serving'[w].proxy = serving[w].proxy
  PROVE  ReportedInv'
BY DEF ReportedInv

(* A remote object that is created has told nobody.                        *)
LEMMA CreateReported ==
  ASSUME TypeInv, ReportedInv, NEW p \in Proxies, NEW h \in Handles, Create(p, h)
  PROVE  ReportedInv'
<1>1. /\ UNCHANGED serving /\ obituaries_sent_' = [obituaries_sent_ EXCEPT ![p] = FALSE]
      /\ reported' = [x \in DOMAIN reported |-> IF x[1] = p THEN 0 ELSE reported[x]]
  BY DEF Create, client_vars
<1>2. DOMAIN reported = Proxies \X Recipients /\ obituaries_sent_ \in [Proxies -> BOOLEAN]
  BY DEF TypeInv, TypeOK
<1>3. \A x \in Proxies \X Recipients : x[1] \in Proxies
  OBVIOUS
<1>4. \A w \in Workers : serving[w].pc = "sending" => serving[w].proxy \in Proxies
  BY PlaceTypes DEF TypeInv, Executing
<1>5. \A q \in Proxies : ~obituaries_sent_[q] => ~obituaries_sent_'[q]
  BY <1>1, <1>2
<1>6. \A q \in Proxies : q # p => obituaries_sent_'[q] = obituaries_sent_[q]
  BY <1>1, <1>2
<1>7. ASSUME NEW x \in Proxies \X Recipients
      PROVE  reported'[x] <= 1 /\ (~obituaries_sent_'[x[1]] => reported'[x] = 0)
  <2>1. reported'[x] = IF x[1] = p THEN 0 ELSE reported[x]
    BY <1>1, <1>2
  <2> QED
    BY <1>3, <1>6, <2>1 DEF ReportedInv
<1> QED
  BY <1>1, <1>4, <1>5, <1>7 DEF ReportedInv

(* The worker reports and marks the object.                                *)
LEMMA DiedReported ==
  ASSUME OneWorker, TypeInv, ReportedInv, NEW w \in Workers, OnObjectDied(w)
  PROVE  ReportedInv'
<1> DEFINE p == serving[w].proxy
           told == {p} \X obituaries_[p]
<1>1. /\ serving[w].pc = "sending" /\ serving' = [serving EXCEPT ![w].pc = "sent"]
      /\ obituaries_sent_' = [obituaries_sent_ EXCEPT ![p] = TRUE]
      /\ reported' = [x \in DOMAIN reported |->
                        IF x \in told THEN reported[x] + 1 ELSE reported[x]]
  BY DEF OnObjectDied
<1>2. /\ reported \in [Proxies \X Recipients -> Nat] /\ obituaries_sent_ \in [Proxies -> BOOLEAN]
      /\ p \in Proxies
  BY <1>1, PlaceTypes DEF TypeInv, TypeOK, Executing
<1>3. serving'[w].pc = "sent"
  BY <1>1, PlaceTypes DEF TypeInv, TypeOK, Executing
<1>4. \A v \in Workers : serving'[v].pc # "sending"
  BY <1>3 DEF OneWorker
<1>5. ~obituaries_sent_[p]
  BY <1>1 DEF ReportedInv
<1>6. ASSUME NEW x \in Proxies \X Recipients
      PROVE  reported'[x] <= 1 /\ (~obituaries_sent_'[x[1]] => reported'[x] = 0)
  <2>1. reported'[x] = (IF x \in told THEN reported[x] + 1 ELSE reported[x]) /\ reported[x] \in Nat
    BY <1>1, <1>2
  <2>2. x[1] \in Proxies /\ (x \in told => x[1] = p)
    OBVIOUS
  <2>3. CASE x \in told
    <3>1. reported[x] = 0 /\ x[1] = p
      BY <1>5, <2>2, <2>3 DEF ReportedInv
    <3>2. reported'[x] = 1 /\ obituaries_sent_'[x[1]]
      BY <1>1, <1>2, <2>1, <2>3, <3>1
    <3> QED
      BY <3>2
  <2>4. CASE x \notin told
    <3>1. ~obituaries_sent_'[x[1]] => ~obituaries_sent_[x[1]]
      BY <1>1, <1>2, <2>2
    <3> QED
      BY <2>1, <2>4, <3>1 DEF ReportedInv
  <2> QED
    BY <2>3, <2>4
<1> QED
  BY <1>4, <1>6 DEF ReportedInv

(* The other steps of the worker.                                          *)
LEMMA WorkerReported ==
  ASSUME OneWorker, TypeInv, ReportedInv, NEW w \in Workers, WorkerStep(w)
  PROVE  ReportedInv'
<1>1. \A v \in Workers : v = w
  BY DEF OneWorker
<1>2. serving[w] \in {Idle} \cup Executing /\ DOMAIN serving = Workers
  BY DEF TypeInv, TypeOK
<1>3. CASE DequeueMessage(w) \/ FindRecipient(w) \/ EraseRecipient(w)
  <2>1. UNCHANGED <<reported, obituaries_sent_>>
    BY <1>3 DEF DequeueMessage, FindRecipient, EraseRecipient, object_vars, history_vars
  <2>2. serving'[w].pc # "sending"
    <3>1. CASE DequeueMessage(w)
      BY <1>2, <3>1 DEF DequeueMessage
    <3>2. CASE FindRecipient(w)
      <4>1. serving[w] \in Executing
        BY <3>2, PlaceTypes DEF FindRecipient, TypeInv
      <4>2. serving'[w] = Idle \/ serving'[w] = [serving[w] EXCEPT !.pc = "found"]
        BY <1>2, <3>2 DEF FindRecipient
      <4> QED
        BY <4>1, <4>2 DEF Idle, Executing
    <3>3. CASE EraseRecipient(w)
      <4>1. serving'[w] = Idle
        BY <3>3 DEF EraseRecipient, Invalidated
      <4> QED
        BY <4>1 DEF Idle
    <3> QED
      BY <1>3, <3>1, <3>2, <3>3
  <2> QED
    BY <1>1, <2>1, <2>2, FrameReported
<1>4. CASE SendObituary(w)
  <2>1. serving[w] \in Executing
    BY <1>4, PlaceTypes DEF SendObituary, TypeInv
  <2>2. UNCHANGED <<reported, obituaries_sent_>>
    BY <1>4 DEF SendObituary, object_vars, history_vars
  <2>3. /\ serving'[w].proxy = serving[w].proxy
        /\ serving'[w].pc = "sending" => ~obituaries_sent_[serving[w].proxy]
    BY <1>2, <1>4, <2>1 DEF SendObituary, Executing
  <2> QED
    BY <1>1, <2>2, <2>3 DEF ReportedInv
<1> QED
  BY <1>3, <1>4, DiedReported DEF WorkerStep

(* However many references the client holds, and although the server sends *)
(* a DeadBinder for each, a client with one thread in the pool reports the *)
(* death of an object once to each of its recipients: SendObituary tests   *)
(* and sets obituaries_sent_ on that thread only.  DeathLinksTwice shows   *)
(* two threads report it twice.                                            *)
THEOREM OneWorkerReportsOnce ==
  ASSUME OneWorker
  PROVE  Spec => []ReportedOnce
<1>1. Init => ReportedInv
  BY DEF Init, ReportedInv, Idle
<1>2. TypeInv /\ ReportedInv /\ [Next]_vars => ReportedInv'
  <2> SUFFICES ASSUME TypeInv, ReportedInv, [Next]_vars PROVE ReportedInv'
    OBVIOUS
  <2>1. CASE UNCHANGED <<serving, reported, obituaries_sent_>>
    BY <2>1, FrameReported
  <2>2. ASSUME NEW t \in Threads, NEW p \in Proxies, NEW r \in Recipients,
               LinkToDeath(t, p, r) \/ UnlinkToDeath(t, p, r)
        PROVE  ReportedInv'
    <3>1. UNCHANGED <<reported, obituaries_sent_>> /\ serving' \in {serving, Invalidated}
      BY <2>2 DEF LinkToDeath, UnlinkToDeath, history_vars
    <3>2. \A w \in Workers : serving'[w].pc = "sending" =>
            serving[w].pc = "sending" /\ serving'[w].proxy = serving[w].proxy
      BY <3>1, InvalidatedType DEF TypeInv, Idle
    <3> QED
      BY <3>1, <3>2, FrameReported
  <2>3. ASSUME NEW p \in Proxies, Destroy(p) PROVE ReportedInv'
    BY <2>1, <2>3 DEF Destroy, client_vars, history_vars
  <2>4. ASSUME NEW t \in Threads, ThreadStep(t) PROVE ReportedInv'
    BY <2>1, <2>4 DEF ThreadStep, OnRequestDeathNotification, Linked,
       OnClearDeathNotification, Unlinked, object_vars, history_vars
  <2>5. ASSUME NEW h \in Handles, HandleDies(h) PROVE ReportedInv'
    BY <2>1, <2>5 DEF HandleDies, object_vars
  <2>6. CASE UNCHANGED vars
    BY <2>1, <2>6 DEF vars, object_vars, client_vars, history_vars
  <2> QED
    BY <2>2, <2>3, <2>4, <2>5, <2>6, CreateReported, WorkerReported DEF Next
<1>3. TypeInv /\ ReportedInv => ReportedOnce
  BY DEF ReportedInv, ReportedOnce, TypeInv, TypeOK
<1> QED
  BY <1>1, <1>2, <1>3, TypeInvariant, PTL DEF Spec

-----------------------------------------------------------------------------
(***************************************************************************)
(* What is said of the death of an object is true, as long as no address   *)
(* is given out twice.                                                     *)
(***************************************************************************)
DeadProxies == {p \in Proxies : handle_[p] \in Handles \ known}

(* A registration names an object of its handle, and the messages that are *)
(* queued, executed or were reported are about dead objects.               *)
DeadInv ==
  /\ \A h \in DOMAIN death_notifications_ : handle_[death_notifications_[h]] = h
  /\ in_messages_ \in Seq(DeadProxies)
  /\ \A w \in Workers : serving[w] # Idle => serving[w].proxy \in DeadProxies
  /\ \A x \in Proxies \X Recipients : reported[x] > 0 => x[1] \in DeadProxies

(* Steps after which the dead are still dead.                              *)
LEMMA FrameDead ==
  ASSUME DeadInv, UNCHANGED <<death_notifications_, in_messages_, reported, handle_, known>>,
         \A w \in Workers : serving'[w] # Idle =>
           serving[w] # Idle /\ serving'[w].proxy = serving[w].proxy
  PROVE  DeadInv'
<1>1. DeadProxies' = DeadProxies
  BY DEF DeadProxies
<1> HIDE DEF DeadProxies
<1> QED
  BY <1>1 DEF DeadInv

(* A new object is at an address nothing refers to yet.                    *)
LEMMA CreateDead ==
  ASSUME MayReuse = FALSE, TypeInv, DeadInv, NEW p \in Proxies, NEW h \in Handles, Create(p, h)
  PROVE  DeadInv'
<1>1. /\ handle_[p] = 0 /\ handle_' = [handle_ EXCEPT ![p] = h]
      /\ UNCHANGED <<serving, in_messages_, death_notifications_, known>>
      /\ reported' = [x \in DOMAIN reported |-> IF x[1] = p THEN 0 ELSE reported[x]]
  BY DEF Create, client_vars
<1>2. \A q \in Proxies \ {p} : handle_'[q] = handle_[q]
  BY <1>1 DEF TypeInv, TypeOK
<1>3. 0 \notin Handles
  BY HandlesAssumption
<1>4. DeadProxies \subseteq DeadProxies'
  BY <1>1, <1>2, <1>3 DEF DeadProxies
<1>5. \A k \in DOMAIN death_notifications_' : handle_'[death_notifications_'[k]] = k
  <2>1. \A k \in DOMAIN death_notifications_ :
          death_notifications_[k] \in Proxies /\ k \in Handles
    BY DEF TypeInv, TypeOK, IsMap
  <2> QED
    BY <1>1, <1>2, <1>3, <2>1 DEF DeadInv
<1> DEFINE D == DeadProxies
           E == DeadProxies'
<1>6. D \subseteq E /\ in_messages_ \in Seq(D)
  BY <1>4 DEF DeadInv
<1>7. ASSUME NEW x \in Proxies \X Recipients, reported'[x] > 0 PROVE x[1] \in E
  <2>1. reported'[x] = IF x[1] = p THEN 0 ELSE reported[x]
    BY <1>1 DEF TypeInv, TypeOK
  <2>2. reported[x] > 0
    BY <1>7, <2>1
  <2> QED
    BY <1>6, <2>2 DEF DeadInv
<1>8. \A w \in Workers : serving'[w] # Idle => serving'[w].proxy \in E
  BY <1>1, <1>6 DEF DeadInv
<1> HIDE DEF D, E
<1>9. in_messages_ \in Seq(E)
  BY <1>6, LargerSeq
<1> QED
  BY <1>1, <1>5, <1>7, <1>8, <1>9 DEF DeadInv, E

(* The messages the server sends when a handle dies.                       *)
LEMMA HandleDiesDead ==
  ASSUME TypeInv, DeadInv, NEW h \in Handles, HandleDies(h)
  PROVE  DeadInv'
<1> DEFINE D == DeadProxies
           E == DeadProxies'
           n == references_[h]
           p == death_notifications_[h]
<1>1. /\ UNCHANGED <<handle_, serving, death_notifications_, reported>>
      /\ h \in known /\ known' = known \ {h}
      /\ in_messages_' = IF h \notin DOMAIN death_notifications_ THEN in_messages_
                           ELSE in_messages_ \o [i \in 1 .. n |-> p]
  BY DEF HandleDies, object_vars
<1>2. D \subseteq E
  BY <1>1 DEF DeadProxies
<1>3. h \in DOMAIN death_notifications_ => p \in E
  BY <1>1 DEF DeadInv, DeadProxies, TypeInv, TypeOK, IsMap
<1>4. in_messages_ \in Seq(D) /\ n \in Nat
  BY DEF DeadInv, TypeInv, TypeOK
<1>5. /\ \A w \in Workers : serving'[w] # Idle => serving'[w].proxy \in E
      /\ \A x \in Proxies \X Recipients : reported'[x] > 0 => x[1] \in E
  BY <1>1, <1>2 DEF DeadInv
<1> HIDE DEF D, E, n, p
<1>6. in_messages_ \in Seq(E)
  BY <1>2, <1>4, LargerSeq
<1>7. in_messages_' \in Seq(E)
  <2>1. p \in E => in_messages_ \o [i \in 1 .. n |-> p] \in Seq(E)
    BY <1>4, <1>6, Repeated
  <2> QED
    BY <1>1, <1>3, <1>6, <2>1
<1> QED
  BY <1>1, <1>5, <1>7 DEF DeadInv, E

(* A registration is entered under the handle of the object.               *)
LEMMA ThreadDead ==
  ASSUME TypeInv, DeadInv, NEW t \in Threads, ThreadStep(t)
  PROVE  DeadInv'
<1>1. UNCHANGED <<serving, in_messages_, reported, handle_, known>>
  BY DEF ThreadStep, OnRequestDeathNotification, Linked, OnClearDeathNotification,
     Unlinked, object_vars, server_vars, history_vars
<1>2. DeadProxies' = DeadProxies
  BY <1>1 DEF DeadProxies
<1>3. \A k \in DOMAIN death_notifications_' : handle_[death_notifications_'[k]] = k
  <2>1. \/ UNCHANGED death_notifications_
        \/ death_notifications_' =
             Insert(death_notifications_, handle_[thread[t].proxy], thread[t].proxy)
        \/ death_notifications_' = Erase(death_notifications_, handle_[thread[t].proxy])
    BY DEF ThreadStep, OnRequestDeathNotification, Linked, OnClearDeathNotification,
       Unlinked, server_vars
  <2> QED
    BY <2>1 DEF DeadInv, Insert, Erase
<1> HIDE DEF DeadProxies
<1> QED
  BY <1>1, <1>2, <1>3 DEF DeadInv

(* A worker takes a message, and reports what it says.                     *)
LEMMA WorkerDead ==
  ASSUME TypeInv, DeadInv, NEW w \in Workers, WorkerStep(w)
  PROVE  DeadInv'
<1>1. UNCHANGED <<handle_, known, death_notifications_>>
  BY DEF WorkerStep, DequeueMessage, FindRecipient, SendObituary, OnObjectDied,
     EraseRecipient, object_vars, server_vars
<1>2. DeadProxies' = DeadProxies
  BY <1>1 DEF DeadProxies
<1>3. serving[w].pc # "idle" => serving[w] \in Executing /\ serving[w] # Idle
  BY PlaceTypes DEF TypeInv
<1>4. DOMAIN serving = Workers
  BY DEF TypeInv, TypeOK
<1>5. CASE DequeueMessage(w)
  <2> DEFINE D == DeadProxies
  <2>1. in_messages_ \in Seq(D) /\ in_messages_ # << >>
    BY <1>5 DEF DeadInv, DequeueMessage
  <2> HIDE DEF D
  <2>2. Head(in_messages_) \in D /\ Tail(in_messages_) \in Seq(D)
    BY <2>1, Dequeued
  <2>3. /\ serving'[w].proxy = Head(in_messages_) /\ \A v \in Workers \ {w} : serving'[v] = serving[v]
        /\ in_messages_' = Tail(in_messages_) /\ UNCHANGED reported
    BY <1>4, <1>5 DEF DequeueMessage, history_vars
  <2> QED
    BY <1>1, <1>2, <2>2, <2>3 DEF DeadInv, D
<1>6. CASE FindRecipient(w) \/ SendObituary(w) \/ EraseRecipient(w)
  <2>1. UNCHANGED <<in_messages_, reported>>
    BY <1>6 DEF FindRecipient, SendObituary, EraseRecipient, history_vars
  <2>2. serving[w] \in Executing /\ serving[w] # Idle
    BY <1>3, <1>6 DEF FindRecipient, SendObituary, EraseRecipient
  <2>3. \A v \in Workers : serving'[v] # Idle =>
          serving[v] # Idle /\ serving'[v].proxy = serving[v].proxy
    <3>1. CASE FindRecipient(w)
      BY <1>4, <2>2, <3>1 DEF FindRecipient, Executing
    <3>2. CASE SendObituary(w)
      BY <1>4, <2>2, <3>2 DEF SendObituary, Executing
    <3>3. CASE EraseRecipient(w)
      <4>1. \A v \in Workers : serving'[v] = IF v = w THEN Idle ELSE Invalidated[v]
        BY <3>3 DEF EraseRecipient, Invalidated
      <4> QED
        BY <4>1, InvalidatedType DEF TypeInv
    <3> QED
      BY <1>6, <3>1, <3>2, <3>3
  <2> QED
    BY <1>1, <2>1, <2>3, FrameDead
<1>7. CASE OnObjectDied(w)
  <2> DEFINE p == serving[w].proxy
             told == {p} \X obituaries_[p]
  <2>1. /\ UNCHANGED in_messages_ /\ serving[w].pc = "sending"
        /\ serving' = [serving EXCEPT ![w].pc = "sent"]
        /\ reported' = [x \in DOMAIN reported |->
                          IF x \in told THEN reported[x] + 1 ELSE reported[x]]
    BY <1>7 DEF OnObjectDied
  <2>2. p \in DeadProxies
    BY <1>3, <2>1 DEF DeadInv
  <2>3. \A v \in Workers : serving'[v] # Idle =>
          serving[v] # Idle /\ serving'[v].proxy = serving[v].proxy
    BY <1>3, <1>4, <2>1 DEF Executing
  <2>4. ASSUME NEW x \in Proxies \X Recipients, reported'[x] > 0 PROVE x[1] \in DeadProxies
    <3>1. reported'[x] = IF x \in told THEN reported[x] + 1 ELSE reported[x]
      BY <2>1 DEF TypeInv, TypeOK
    <3>2. CASE x \in told
      BY <2>2, <3>2
    <3>3. CASE x \notin told
      BY <2>4, <3>1, <3>3 DEF DeadInv
    <3> QED
      BY <3>2, <3>3
  <2> HIDE DEF DeadProxies
  <2> QED
    BY <1>1, <1>2, <2>1, <2>3, <2>4 DEF DeadInv
<1> QED
  BY <1>5, <1>6, <1>7 DEF WorkerStep

(* Every step keeps the invariant of the dead.                             *)
LEMMA NextDead ==
  ASSUME MayReuse = FALSE, TypeInv, DeadInv, [Next]_vars
  PROVE  DeadInv'
<1>1. CASE UNCHANGED <<serving, death_notifications_, in_messages_, reported, handle_, known>>
  BY <1>1, FrameDead
<1>2. ASSUME NEW t \in Threads, NEW p \in Proxies, NEW r \in Recipients,
             LinkToDeath(t, p, r) \/ UnlinkToDeath(t, p, r)
      PROVE  DeadInv'
  <2>1. UNCHANGED <<death_notifications_, in_messages_, reported, handle_, known>>
    BY <1>2 DEF LinkToDeath, UnlinkToDeath, server_vars, history_vars
  <2>2. \A w \in Workers : serving'[w] # Idle =>
          serving[w] # Idle /\ serving'[w].proxy = serving[w].proxy
    BY <1>2, InvalidatedType DEF LinkToDeath, UnlinkToDeath, TypeInv
  <2> QED
    BY <2>1, <2>2, FrameDead
<1>3. ASSUME NEW p \in Proxies, Destroy(p) PROVE DeadInv'
  BY <1>1, <1>3 DEF Destroy, client_vars, history_vars
<1>4. CASE UNCHANGED vars
  BY <1>1, <1>4 DEF vars, object_vars, client_vars, server_vars, history_vars
<1> QED
  BY <1>2, <1>3, <1>4, CreateDead, HandleDiesDead, ThreadDead, WorkerDead DEF Next

(* Nobody is told of the death of an object that is alive, with any number *)
(* of threads in the pool and any order of link, unlink and death, unless  *)
(* an address is used again while a message about the object that had it   *)
(* before is on its way.                                                   *)
THEOREM ObituariesAreTrue ==
  ASSUME MayReuse = FALSE
  PROVE  Spec => []NoFalseObituary
<1>1. Init => DeadInv
  <2> SUFFICES ASSUME Init PROVE DeadInv
    OBVIOUS
  <2>1. in_messages_ \in Seq(DeadProxies)
    BY DEF Init
  <2> QED
    BY <2>1 DEF Init, DeadInv, EmptyMap
<1>2. TypeInv /\ DeadInv /\ [Next]_vars => DeadInv'
  BY NextDead
<1>3. TypeInv /\ DeadInv => NoFalseObituary
  BY DEF DeadInv, NoFalseObituary, DeadProxies, TypeInv, TypeOK
<1> QED
  BY <1>1, <1>2, <1>3, TypeInvariant, PTL DEF Spec

-----------------------------------------------------------------------------
(***************************************************************************)
(* Registrations of the server and recipients of the client stay in step.  *)
(***************************************************************************)

(* A thread in a call holds the mutex of the object.                       *)
LockInv == \A t \in Threads : thread[t] # Idle => lock_[thread[t].proxy] = t

(* What a thread is about to register has an entry, is dead, or has lost   *)
(* its entry to a stale iterator.                                          *)
RequestInv ==
  \A t \in Threads : thread[t].pc = "request" =>
    \/ thread[t].proxy \in DOMAIN dead_recipients_ \cup misled
    \/ handle_[thread[t].proxy] \notin known

RegisteredInv == LockInv /\ RequestInv /\ RegisteredHasRecipient

Clearing(t, p) == thread[t] # Idle /\ thread[t].proxy = p /\ thread[t].pc = "clear"

ClearingAfter(t, p) == thread'[t] # Idle /\ thread'[t].proxy = p /\ thread'[t].pc = "clear"

(* RegisteredHasRecipient in those words.                                  *)
LEMMA RegisteredWords ==
  /\ RegisteredHasRecipient <=>
       \A h \in known \cap DOMAIN death_notifications_ :
         \/ death_notifications_[h] \in DOMAIN dead_recipients_ \cup misled
         \/ \E t \in Threads : Clearing(t, death_notifications_[h])
  /\ RegisteredHasRecipient' <=>
       \A h \in known' \cap DOMAIN death_notifications_' :
         \/ death_notifications_'[h] \in DOMAIN dead_recipients_' \cup misled'
         \/ \E t \in Threads : ClearingAfter(t, death_notifications_'[h])
BY DEF RegisteredHasRecipient, Clearing, ClearingAfter

(* LinkToDeath and UnlinkToDeath change the entry of an object whose mutex *)
(* they have.                                                              *)
LEMMA LinkRegistered ==
  ASSUME TypeInv, RegisteredInv, NEW t \in Threads, NEW p \in Proxies, NEW r \in Recipients,
         LinkToDeath(t, p, r) \/ UnlinkToDeath(t, p, r)
  PROVE  RegisteredInv'
<1> DEFINE d == DOMAIN dead_recipients_
<1>1. PICK pc \in {"request", "clear"} :
        /\ Begins(t, p, r, pc)
        /\ pc = "request" => DOMAIN dead_recipients_' = d \cup {p}
        /\ pc = "clear" => d \ {p} \subseteq DOMAIN dead_recipients_'
  <2>1. CASE LinkToDeath(t, p, r)
    BY <2>1 DEF LinkToDeath
  <2>2. CASE UnlinkToDeath(t, p, r)
    BY <2>2 DEF UnlinkToDeath, Erase
  <2> QED
    BY <2>1, <2>2
<1>2. UNCHANGED <<handle_, known, death_notifications_, misled>>
  BY DEF LinkToDeath, UnlinkToDeath, server_vars, history_vars
<1>3. /\ thread[t] = Idle /\ lock_[p] = Nobody /\ lock_' = [lock_ EXCEPT ![p] = t]
      /\ thread'[t].pc = pc /\ thread'[t].proxy = p /\ \A u \in Threads \ {t} : thread'[u] = thread[u]
  BY <1>1 DEF Begins, TypeInv, TypeOK
<1>4. thread'[t] # Idle
  BY <1>3 DEF Idle
<1>5. \A u \in Threads \ {t} : thread[u] # Idle => thread[u].proxy # p /\ thread[u].proxy \in Proxies
  BY <1>3, ThreadsAssumption DEF RegisteredInv, LockInv, TypeInv, TypeOK, Calling
<1>6. LockInv'
  BY <1>3, <1>5 DEF RegisteredInv, LockInv, TypeInv, TypeOK
<1>7. RequestInv'
  <2> SUFFICES ASSUME NEW u \in Threads, thread'[u].pc = "request"
               PROVE  \/ thread'[u].proxy \in DOMAIN dead_recipients_' \cup misled'
                      \/ handle_'[thread'[u].proxy] \notin known'
    BY DEF RequestInv
  <2>1. CASE u = t
    BY <1>1, <1>3, <2>1
  <2>2. CASE u # t
    <3>1. thread'[u] = thread[u] /\ thread[u] # Idle
      BY <1>3, <2>2 DEF Idle
    <3>2. thread[u].proxy \in DOMAIN dead_recipients_ => thread[u].proxy \in DOMAIN dead_recipients_'
      BY <1>1, <1>5, <2>2, <3>1
    <3> QED
      BY <1>2, <3>1, <3>2 DEF RegisteredInv, RequestInv
  <2> QED
    BY <2>1, <2>2
<1>8. RegisteredHasRecipient'
  <2> SUFFICES ASSUME NEW h \in known \cap DOMAIN death_notifications_
               PROVE  \/ death_notifications_[h] \in DOMAIN dead_recipients_' \cup misled
                      \/ \E u \in Threads : ClearingAfter(u, death_notifications_[h])
    BY <1>2, RegisteredWords
  <2>1. CASE death_notifications_[h] \in DOMAIN dead_recipients_
    <3>1. pc = "clear" => ClearingAfter(t, p)
      BY <1>3, <1>4 DEF Clearing, ClearingAfter
    <3> QED
      BY <1>1, <2>1, <3>1
  <2>2. ASSUME NEW u \in Threads, Clearing(u, death_notifications_[h])
        PROVE  ClearingAfter(u, death_notifications_[h])
    <3>1. u # t
      BY <1>3, <2>2 DEF Clearing, ClearingAfter
    <3> QED
      BY <1>2, <1>3, <2>2, <3>1 DEF Clearing, ClearingAfter
  <2> QED
    BY <2>1, <2>2, RegisteredWords DEF RegisteredInv
<1> QED
  BY <1>6, <1>7, <1>8 DEF RegisteredInv

(* The server registers and clears; the mutex is released.                 *)
LEMMA ThreadRegistered ==
  ASSUME TypeInv, DeadInv, RegisteredInv, NEW t \in Threads, ThreadStep(t)
  PROVE  RegisteredInv'
<1> DEFINE p == thread[t].proxy
           k == handle_[p]
<1>1. thread[t].pc # "idle" /\ UNCHANGED <<handle_, known, dead_recipients_, misled>>
  BY DEF ThreadStep, OnRequestDeathNotification, Linked, OnClearDeathNotification,
     Unlinked, object_vars, server_vars, history_vars
<1>2. thread[t] # Idle /\ thread[t] \in Calling /\ p \in Proxies /\ lock_[p] = t
  BY <1>1, PlaceTypes DEF TypeInv, Calling, RegisteredInv, LockInv
<1>3. \A u \in Threads \ {t} : thread[u] # Idle => thread[u].proxy # p /\ thread[u].proxy \in Proxies
  BY <1>2 DEF RegisteredInv, LockInv, TypeInv, TypeOK, Calling
<1>4. CASE OnRequestDeathNotification(t) \/ OnClearDeathNotification(t)
  <2>1. UNCHANGED lock_ /\ \A u \in Threads \ {t} : thread'[u] = thread[u]
    BY <1>4 DEF OnRequestDeathNotification, OnClearDeathNotification, object_vars, TypeInv, TypeOK
  <2>2. /\ thread'[t].proxy = p /\ thread'[t].pc \in {"requested", "cleared"}
    BY <1>2, <1>4 DEF OnRequestDeathNotification, OnClearDeathNotification, TypeInv, TypeOK,
       Calling
  <2>3. LockInv'
    BY <1>2, <2>1, <2>2 DEF RegisteredInv, LockInv
  <2>4. RequestInv'
    BY <1>1, <2>1, <2>2 DEF RegisteredInv, RequestInv
  <2>5. RegisteredHasRecipient'
    <3> SUFFICES ASSUME NEW h \in known \cap DOMAIN death_notifications_'
                 PROVE  \/ death_notifications_'[h] \in DOMAIN dead_recipients_ \cup misled
                        \/ \E u \in Threads : ClearingAfter(u, death_notifications_'[h])
      BY <1>1, RegisteredWords
    <3>1. ASSUME NEW u \in Threads, u # t, h \in DOMAIN death_notifications_,
                 Clearing(u, death_notifications_[h]),
                 death_notifications_'[h] = death_notifications_[h]
          PROVE  ClearingAfter(u, death_notifications_'[h])
      BY <2>1, <3>1 DEF Clearing, ClearingAfter
    <3>2. CASE OnRequestDeathNotification(t)
      <4>1. thread[t].pc = "request" /\ death_notifications_' = Insert(death_notifications_, k, p)
        BY <3>2 DEF OnRequestDeathNotification
      <4>2. CASE h \in DOMAIN death_notifications_
        <5>1. death_notifications_'[h] = death_notifications_[h]
          BY <4>1, <4>2 DEF Insert
        <5>2. ~Clearing(t, death_notifications_[h])
          BY <4>1 DEF Clearing, ClearingAfter
        <5> QED
          BY <3>1, <4>2, <5>1, <5>2, RegisteredWords DEF RegisteredInv
      <4>3. CASE h \notin DOMAIN death_notifications_
        <5>1. h = k /\ death_notifications_'[h] = p
          BY <4>1, <4>3 DEF Insert
        <5> QED
          BY <4>1, <5>1 DEF RegisteredInv, RequestInv
      <4> QED
        BY <4>2, <4>3
    <3>3. CASE OnClearDeathNotification(t)
      <4>1. death_notifications_' = Erase(death_notifications_, k)
        BY <3>3 DEF OnClearDeathNotification
      <4>2. /\ h \in DOMAIN death_notifications_ /\ h # k
            /\ death_notifications_'[h] = death_notifications_[h]
        BY <4>1 DEF Erase
      <4>3. ~Clearing(t, death_notifications_[h])
        BY <4>2 DEF Clearing, ClearingAfter, DeadInv
      <4> QED
        BY <3>1, <4>2, <4>3, RegisteredWords DEF RegisteredInv
    <3> QED
      BY <1>4, <3>2, <3>3
  <2> QED
    BY <2>3, <2>4, <2>5 DEF RegisteredInv
<1>5. CASE Linked(t) \/ Unlinked(t)
  <2>1. /\ thread[t].pc \in {"requested", "cleared"} /\ UNCHANGED death_notifications_
        /\ thread' = [thread EXCEPT ![t] = Idle] /\ lock_' = [lock_ EXCEPT ![p] = Nobody]
    BY <1>5 DEF Linked, Unlinked, server_vars
  <2>2. thread'[t] = Idle /\ \A u \in Threads \ {t} : thread'[u] = thread[u]
    BY <2>1 DEF TypeInv, TypeOK
  <2>3. LockInv'
    BY <1>2, <1>3, <2>1, <2>2 DEF RegisteredInv, LockInv, TypeInv, TypeOK
  <2>4. RequestInv'
    BY <1>1, <2>2 DEF RegisteredInv, RequestInv, Idle
  <2>5. RegisteredHasRecipient'
    <3> SUFFICES ASSUME NEW h \in known \cap DOMAIN death_notifications_
                 PROVE  \/ death_notifications_[h] \in DOMAIN dead_recipients_ \cup misled
                        \/ \E u \in Threads : ClearingAfter(u, death_notifications_'[h])
      BY <1>1, <2>1, RegisteredWords
    <3>1. ASSUME NEW u \in Threads, Clearing(u, death_notifications_[h])
          PROVE  ClearingAfter(u, death_notifications_[h])
      BY <2>1, <2>2, <3>1 DEF Clearing, ClearingAfter
    <3> QED
      BY <2>1, <3>1, RegisteredWords DEF RegisteredInv
  <2> QED
    BY <2>3, <2>4, <2>5 DEF RegisteredInv
<1> QED
  BY <1>4, <1>5 DEF ThreadStep

(* A worker that erases an entry: it is that of the dead object it serves, *)
(* or another that is now marked as lost.                                  *)
LEMMA EraseRegistered ==
  ASSUME TypeInv, DeadInv, RegisteredInv, NEW w \in Workers, EraseRecipient(w)
  PROVE  RegisteredInv'
<1> DEFINE p == serving[w].proxy
           d == DOMAIN dead_recipients_
           e == DOMAIN dead_recipients_'
<1>1. UNCHANGED <<handle_, known, death_notifications_, lock_, thread>>
  BY DEF EraseRecipient, object_vars, server_vars
<1>2. LockInv'
  BY <1>1 DEF RegisteredInv, LockInv
<1>3. (d \cup misled) \ {p} \subseteq e \cup misled'
  BY DEF EraseRecipient, Erase
<1>4. p \in DeadProxies
  BY PlaceTypes DEF EraseRecipient, DeadInv, TypeInv
<1>5. handle_[p] \notin known
  BY <1>4 DEF DeadProxies
<1> HIDE DEF p
<1>6. RequestInv'
  BY <1>1, <1>3, <1>5 DEF RegisteredInv, RequestInv
<1>7. RegisteredHasRecipient'
  <2> SUFFICES ASSUME NEW h \in known \cap DOMAIN death_notifications_
               PROVE  \/ death_notifications_[h] \in e \cup misled'
                      \/ \E u \in Threads : ClearingAfter(u, death_notifications_[h])
    BY <1>1, RegisteredWords
  <2>1. death_notifications_[h] # p
    BY <1>5 DEF DeadInv
  <2>2. \A u \in Threads : Clearing(u, death_notifications_[h]) =>
                           ClearingAfter(u, death_notifications_[h])
    BY <1>1 DEF Clearing, ClearingAfter
  <2> QED
    BY <1>3, <2>1, <2>2, RegisteredWords DEF RegisteredInv
<1> QED
  BY <1>2, <1>6, <1>7 DEF RegisteredInv

(* Every step keeps them in step.                                          *)
LEMMA NextRegistered ==
  ASSUME MayReuse = FALSE, TypeInv, DeadInv, RegisteredInv, [Next]_vars
  PROVE  RegisteredInv'
<1>1. ASSUME UNCHANGED <<death_notifications_, dead_recipients_, lock_, thread, misled>>,
             known' \subseteq known,
             \A t \in Threads : thread[t] # Idle =>
               handle_'[thread[t].proxy] = handle_[thread[t].proxy]
      PROVE  RegisteredInv'
  <2>1. LockInv'
    BY <1>1 DEF RegisteredInv, LockInv
  <2>2. RequestInv'
    BY <1>1 DEF RegisteredInv, RequestInv, Idle
  <2>3. RegisteredHasRecipient'
    <3> SUFFICES ASSUME NEW h \in known' \cap DOMAIN death_notifications_
                 PROVE  \/ death_notifications_[h] \in DOMAIN dead_recipients_ \cup misled
                        \/ \E u \in Threads : ClearingAfter(u, death_notifications_[h])
      BY <1>1, RegisteredWords
    <3>1. \A u \in Threads : Clearing(u, death_notifications_[h]) =>
                             ClearingAfter(u, death_notifications_[h])
      BY <1>1 DEF Clearing, ClearingAfter
    <3> QED
      BY <1>1, <3>1, RegisteredWords DEF RegisteredInv
  <2> QED
    BY <2>1, <2>2, <2>3 DEF RegisteredInv
<1>2. ASSUME NEW p \in Proxies, NEW h \in Handles, Create(p, h) PROVE RegisteredInv'
  <2>1. /\ handle_[p] = 0 /\ handle_' = [handle_ EXCEPT ![p] = h]
        /\ UNCHANGED <<death_notifications_, dead_recipients_, lock_, thread, known, misled>>
    BY <1>2 DEF Create, client_vars
  <2>2. \A t \in Threads : thread[t] # Idle =>
          handle_'[thread[t].proxy] = handle_[thread[t].proxy]
    BY <2>1 DEF TypeInv, TypeOK, CallsOnCreated, Calling
  <2> QED
    BY <1>1, <2>1, <2>2
<1>3. ASSUME NEW p \in Proxies, Destroy(p) PROVE RegisteredInv'
  BY <1>1, <1>3 DEF Destroy, client_vars, history_vars
<1>4. ASSUME NEW h \in Handles, HandleDies(h) PROVE RegisteredInv'
  BY <1>1, <1>4 DEF HandleDies, object_vars
<1>5. ASSUME NEW w \in Workers, WorkerStep(w) PROVE RegisteredInv'
  <2>1. CASE EraseRecipient(w)
    BY <2>1, EraseRegistered
  <2>2. CASE ~EraseRecipient(w)
    BY <1>1, <1>5, <2>2 DEF WorkerStep, DequeueMessage, FindRecipient, SendObituary,
       OnObjectDied, object_vars, server_vars, history_vars
  <2> QED
    BY <2>1, <2>2
<1>6. CASE UNCHANGED vars
  BY <1>1, <1>6 DEF vars, object_vars, client_vars, server_vars, history_vars
<1> QED
  BY <1>2, <1>3, <1>4, <1>5, <1>6, LinkRegistered, ThreadRegistered DEF Next

(* The two sides at the start.                                             *)
LEMMA InitRegistered == Init => DeadInv /\ RegisteredInv
<1> SUFFICES ASSUME Init PROVE DeadInv /\ RegisteredInv
  OBVIOUS
<1>1. in_messages_ \in Seq(DeadProxies)
  BY DEF Init
<1>2. DeadInv
  BY <1>1 DEF Init, DeadInv, EmptyMap
<1>3. RegisteredInv
  BY DEF Init, RegisteredInv, LockInv, RequestInv, RegisteredHasRecipient, Idle, EmptyMap
<1> QED
  BY <1>2, <1>3

(* With any number of handles, objects, application threads and pool       *)
(* threads, link, unlink and refused requests in any order: the id that    *)
(* the server has registered for a live handle leads to an entry of        *)
(* dead_recipients_, or a thread is about to clear it.  The one way to     *)
(* lose an entry is the erase of ProcessAndExecuteCommand through an       *)
(* iterator that went stale while it served the death of another object.   *)
THEOREM RegisteredUnlessStale ==
  ASSUME MayReuse = FALSE
  PROVE  Spec => []RegisteredHasRecipient
<1>1. TypeInv /\ DeadInv /\ RegisteredInv /\ [Next]_vars => (DeadInv /\ RegisteredInv)'
  BY NextDead, NextRegistered
<1>2. RegisteredInv => RegisteredHasRecipient
  BY DEF RegisteredInv
<1> QED
  BY <1>1, <1>2, InitRegistered, TypeInvariant, PTL DEF Spec

(* RegisteredHasRecipient without the objects that lost their entry.       *)
RegisteredFindsEntry ==
  \A h \in known \cap DOMAIN death_notifications_ :
    \/ death_notifications_[h] \in DOMAIN dead_recipients_
    \/ \E t \in Threads : Clearing(t, death_notifications_[h])

(* With one handle a stale iterator does no harm, and no object that is    *)
(* registered lacks its entry: when a worker has a message, the handle is  *)
(* dead, so whatever entry it takes out belongs to the dead.               *)
THEOREM OneHandleIsRegistered ==
  ASSUME MayReuse = FALSE, \A g, h \in Handles : g = h
  PROVE  Spec => []RegisteredFindsEntry
<1> DEFINE Harmless == misled = {} \/ known = {}
<1>1. Init => Harmless
  BY DEF Init
<1>2. TypeInv /\ DeadInv /\ Harmless /\ [Next]_vars => Harmless'
  <2> SUFFICES ASSUME TypeInv, DeadInv, Harmless, [Next]_vars PROVE Harmless'
    OBVIOUS
  <2>1. CASE \E w \in Workers : EraseRecipient(w)
    <3>1. PICK w \in Workers : EraseRecipient(w)
      BY <2>1
    <3>2. serving[w].proxy \in DeadProxies
      BY <3>1, PlaceTypes DEF EraseRecipient, DeadInv, TypeInv
    <3>3. known = {}
      BY <3>2 DEF DeadProxies, TypeInv, TypeOK
    <3> QED
      BY <3>1, <3>3 DEF EraseRecipient, server_vars
  <2>2. CASE ~\E w \in Workers : EraseRecipient(w)
    <3>1. UNCHANGED misled /\ known' \subseteq known
      BY <2>2 DEF Next, Create, Destroy, LinkToDeath, UnlinkToDeath, ThreadStep,
         OnRequestDeathNotification, Linked, OnClearDeathNotification, Unlinked, HandleDies,
         WorkerStep, DequeueMessage, FindRecipient, SendObituary, OnObjectDied,
         vars, server_vars, history_vars
    <3> QED
      BY <3>1
  <2> QED
    BY <2>1, <2>2
<1>3. TypeInv /\ DeadInv /\ [Next]_vars => DeadInv'
  BY NextDead
<1>4. Harmless /\ RegisteredHasRecipient => RegisteredFindsEntry
  BY RegisteredWords DEF RegisteredFindsEntry
<1>5. Spec => []RegisteredHasRecipient
  BY RegisteredUnlessStale
<1> QED
  BY <1>1, <1>2, <1>3, <1>4, <1>5, InitRegistered, TypeInvariant, PTL DEF Spec
=============================================================================

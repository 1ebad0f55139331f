---------------------------- MODULE ObjectPassing ----------------------------
(***************************************************************************)
(* Objects as destinations, arguments and results of transactions: the     *)
(* parcel's WriteObject and ReadObject, ObjectPool and ObjectTranslator of *)
(* each client, and the translation between ids and handles in the server. *)
(*                                                                         *)
(* An address of a local object is the object itself.  A reference is what *)
(* a flat_binder_object holds: BINDER with an address or an id, HANDLE     *)
(* with a handle.  Clients stay connected; the end of a session, pending   *)
(* transactions and statuses are those of BinderServer and ClientCalls.    *)
(* Messages may overtake each other here, which no property depends on.    *)
(***************************************************************************)
EXTENDS Integers, Sequences, FiniteSets

CONSTANTS
  Clients,       \* the connected clients
  Manager,       \* the one with a context object
  Objects,       \* local objects of the clients, apart from the context object
  OwnerOf,       \* Objects -> Clients
  ContextObject, \* what handle 0 stands for
  Null,          \* nullptr
  CountMod,      \* 2^32: Reference::count is a uint32_t
  MaxCalls, MaxHandles, MaxCounts  \* bounds

ASSUME PassingAssumption ==
  /\ Manager \in Clients
  /\ OwnerOf \in [Objects -> Clients]
  /\ ContextObject \notin Objects /\ Null \notin Objects
  /\ IsFiniteSet(Objects)
  /\ CountMod \in Nat \ {0}

VARIABLES
  references_,  \* ObjectPool of each client: object -> count
  objects_,     \* ObjectTranslator of each client: the object of each id
  exported,     \* the server's objects: handle -> session, cookie and, as
                \* history, the object that was meant
  held,         \* proxies each client's application has
  requests,     \* transactions on their way to the server
  posted,       \* transactions on their way to their target
  replies,      \* replies on their way to the caller
  calls,        \* transactions so far
  counts,       \* calls of AddRef and Release so far
  dispatched,   \* history: the object a transaction reached, and was meant for
  received      \* history: the reference that was read, and the one meant

vars == <<references_, objects_, exported, held, requests, posted, replies,
          calls, counts, dispatched, received>>

Ref(type, ref) == [type |-> type, ref |-> ref]
Nothing == Ref("NONE", 0)

Own(c) == {o \in Objects : OwnerOf[o] = c}

(***************************************************************************)
(* The types of the variables.  A client has at most one id for each of    *)
(* its objects, and the server stores nothing but ids: never an address    *)
(* (TranslateOrAddObject, ProcessBinderObject).                            *)
(***************************************************************************)
TypeOK ==
  /\ \A c \in Clients :
       /\ DOMAIN references_[c] \subseteq Own(c)
       /\ \A o \in DOMAIN references_[c] : references_[c][o] \in 0 .. CountMod - 1
       /\ objects_[c] \in Seq(Own(c)) /\ Len(objects_[c]) <= Cardinality(Own(c))
       /\ held[c] \subseteq 0 .. Len(exported)
  /\ exported \in Seq([owner : Clients, cookie : 1 .. Cardinality(Objects), object : Objects])

Init ==
  /\ references_ = [c \in Clients |-> << >>]
  /\ objects_ = [c \in Clients |-> << >>]
  /\ exported = << >>
  /\ held = [c \in Clients |-> {0}]
  /\ requests = {} /\ posted = {} /\ replies = {}
  /\ calls = 0 /\ counts = 0
  /\ dispatched = {} /\ received = {}

-----------------------------------------------------------------------------
(* What a reference in a client's hands stands for.                        *)
Meaning(r) ==
  CASE r.type = "BINDER" -> r.ref
    [] r.type = "HANDLE" -> IF r.ref = 0 THEN ContextObject ELSE exported[r.ref].object
    [] OTHER             -> Null

(* What WriteObject may be called with and writes: the address of a local  *)
(* object or the handle of a proxy.                                        *)
Writable(c) ==
  {Nothing} \cup {Ref("HANDLE", h) : h \in held[c]}
            \cup {Ref("BINDER", o) : o \in Own(c)}

(* WriteObject: a local object is adopted with a count of 0.               *)
Adopt(pool, r) ==
  IF r.type = "BINDER" /\ r.ref \notin DOMAIN pool
    THEN [o \in DOMAIN pool \cup {r.ref} |-> IF o = r.ref THEN 0 ELSE pool[o]]
    ELSE pool

(* TranslateObject: 0 is Invalid.                                          *)
TranslateObject(table, o) ==
  IF \E id \in DOMAIN table : table[id] = o
    THEN CHOOSE id \in DOMAIN table : table[id] = o ELSE 0

(* A mutant: next_object_id_ is not advanced, so that only the first       *)
(* insert has an effect.                                                   *)
TranslateOrAddObject_NoIncrement(table, o) ==
  [table |-> IF table = << >> THEN <<o>> ELSE table, id |-> 1]

TranslateOrAddObject(table, o) ==
  LET id == TranslateObject(table, o)
  IN  IF id # 0 THEN [table |-> table, id |-> id]
                ELSE [table |-> Append(table, o), id |-> Len(table) + 1]

(* A mutant: addresses are sent.                                           *)
Out_Address(table, r) == [table |-> table, ref |-> r]

(* ProcessTransaction, Direction::Out.                                     *)
Out(table, r) ==
  LET t == TranslateOrAddObject(table, r.ref)
  IN  IF r.type = "BINDER" THEN [table |-> t.table, ref |-> Ref("BINDER", t.id)]
                           ELSE [table |-> table, ref |-> r]

(* TranslateCookie.                                                        *)
TranslateCookie(table, cookie) ==
  IF cookie \in DOMAIN table THEN table[cookie] ELSE Null

(* ProcessTransaction, Direction::In.  Its callers ignore BadValue, which  *)
(* leaves an unknown cookie as it is.                                      *)
In(table, r) ==
  IF r.type = "BINDER" /\ r.ref \in DOMAIN table
    THEN Ref("BINDER", table[r.ref]) ELSE r

(* ReadObject: GetObject of the pool may not know the address, and a weak  *)
(* binder is not read.                                                     *)
ReadObject(pool, r) ==
  IF r.type = "HANDLE" \/ (r.type = "BINDER" /\ r.ref \in DOMAIN pool)
    THEN r ELSE Nothing

Hold(c, r) == held' = [held EXCEPT ![c] = IF r.type = "HANDLE" THEN @ \cup {r.ref} ELSE @]

-----------------------------------------------------------------------------
(* A mutant: the handle of the export before.                              *)
TranslateObjects_OffByOne(session, objects, r, object) ==
  IF r.type = "BINDER"
    THEN [objects |-> Append(objects, [owner |-> session, cookie |-> r.ref,
                                       object |-> object]),
          ref     |-> Ref("HANDLE", IF objects = << >> THEN 1 ELSE Len(objects))]
    ELSE [objects |-> objects, ref |-> r]

(* TranslateObjects of a ServerSession: every export gets a handle of its  *)
(* own, a handle of the session's own object becomes a weak binder.        *)
TranslateObjects(session, objects, r, object) ==
  CASE r.type = "BINDER" ->
         [objects |-> Append(objects, [owner |-> session, cookie |-> r.ref,
                                       object |-> object]),
          ref     |-> Ref("HANDLE", Len(objects) + 1)]
    [] r.type = "HANDLE" /\ r.ref # 0 /\ objects[r.ref].owner = session ->
         [objects |-> objects, ref |-> Ref("WEAK_BINDER", objects[r.ref].cookie)]
    [] OTHER -> [objects |-> objects, ref |-> r]

(***************************************************************************)
(* RemoteObject::Transact, up to WriteData: the request is written and its *)
(* objects are translated.                                                 *)
(***************************************************************************)
Transact(c, h, arg) ==
  /\ calls < MaxCalls /\ h \in held[c]
  /\ arg.type = "BINDER" => Len(exported) + Cardinality(requests) < MaxHandles
  /\ calls' = calls + 1
  /\ references_' = [references_ EXCEPT ![c] = Adopt(@, arg)]
  /\ LET o == Out(objects_[c], arg)
     IN  /\ objects_' = [objects_ EXCEPT ![c] = o.table]
         /\ requests' = requests \cup {[id |-> calls, from |-> c, to |-> h, arg |-> o.ref,
                                        meant |-> Meaning(arg)]}
  /\ UNCHANGED <<exported, held, posted, replies, counts, dispatched, received>>

(***************************************************************************)
(* OnTransaction: the sender's session translates, then the target's; the  *)
(* export stays when there is no target.                                   *)
(***************************************************************************)
OnTransaction(m) ==
  /\ requests' = requests \ {m}
  /\ LET target == IF m.to = 0 THEN Manager ELSE exported[m.to].owner
         cookie == IF m.to = 0 THEN 0 ELSE exported[m.to].cookie
         sender == TranslateObjects(m.from, exported, m.arg, m.meant)
         there  == TranslateObjects(target, sender.objects, sender.ref, m.meant)
     IN  /\ exported' = there.objects
         /\ posted' = posted \cup
              {[id |-> m.id, from |-> m.from, to |-> target, cookie |-> cookie,
                arg |-> there.ref, meant |-> m.meant,
                target |-> Meaning(Ref("HANDLE", m.to))]}
  /\ UNCHANGED <<references_, objects_, held, replies, calls, counts, dispatched,
                 received>>

(* Which object a transaction reaches: all of a manager's transactions go  *)
(* to its context object, whatever their cookie (OnNewMessage).            *)
Lookup(c, cookie) ==
  LET o == TranslateCookie(objects_[c], cookie)
  IN  IF c = Manager THEN ContextObject
      ELSE IF o \in DOMAIN references_[c] THEN o ELSE Null

(***************************************************************************)
(* ProcessAndExecuteCommand on a pool thread or, for the manager,          *)
(* HandleContextObjectMessage on the strand, which translates nothing: the *)
(* object reads its argument and answers with any reference it has.        *)
(***************************************************************************)
Execute(m, answer) ==
  LET c   == m.to
      obj == Lookup(c, m.cookie)
      arg == ReadObject(references_[c],
                        IF c = Manager THEN m.arg ELSE In(objects_[c], m.arg))
      o   == IF c = Manager THEN [table |-> objects_[c], ref |-> answer]
                            ELSE Out(objects_[c], answer)
  IN  /\ posted' = posted \ {m}
      /\ dispatched' = dispatched \cup {[object |-> obj, meant |-> m.target]}
      /\ IF obj = Null
           THEN /\ answer = Nothing
                /\ UNCHANGED <<references_, objects_, held, replies, received>>
           ELSE /\ Hold(c, arg)
                /\ received' = received \cup
                     {[via |-> "request", got |-> Meaning(arg), meant |-> m.meant]}
                /\ references_' = [references_ EXCEPT ![c] = Adopt(@, answer)]
                /\ objects_' = [objects_ EXCEPT ![c] = o.table]
                /\ replies' = replies \cup {[id |-> m.id, to |-> m.from, arg |-> o.ref,
                                             was |-> answer.type, meant |-> Meaning(answer)]}
      /\ UNCHANGED <<exported, requests, calls, counts>>

(* LocalObject::Transact refuses the codes of every binder object: the     *)
(* reply is a status.                                                      *)
ExecuteBaseCode(m) ==
  /\ posted' = posted \ {m}
  /\ m.to # Manager
  /\ dispatched' = dispatched \cup
       {[object |-> Lookup(m.to, m.cookie), meant |-> m.target]}
  /\ UNCHANGED <<references_, objects_, exported, held, requests, replies, calls,
                 counts, received>>

(* The rest of Transact: OnReply of the server has forwarded the reply as  *)
(* it was.                                                                 *)
Return(m) ==
  LET c   == m.to
      arg == ReadObject(references_[c], In(objects_[c], m.arg))
  IN  /\ replies' = replies \ {m}
      /\ Hold(c, arg)
      /\ received' = received \cup
           {[via |-> m.was, got |-> Meaning(arg), meant |-> m.meant]}
      /\ UNCHANGED <<references_, objects_, exported, requests, posted, calls,
                     counts, dispatched>>

(***************************************************************************)
(* ObjectPool::AddRef and Release, which the program itself never calls    *)
(* but offers with GetObjectPool.  A count of 0 wraps around.              *)
(***************************************************************************)
AddRef(c, o) ==
  /\ counts < MaxCounts /\ o \in DOMAIN references_[c]
  /\ counts' = counts + 1
  /\ references_' = [references_ EXCEPT ![c][o] = (@ + 1) % CountMod]
  /\ UNCHANGED <<objects_, exported, held, requests, posted, replies, calls,
                 dispatched, received>>

Release(c, o) ==
  /\ counts < MaxCounts /\ o \in DOMAIN references_[c]
  /\ counts' = counts + 1
  /\ LET left == (references_[c][o] - 1) % CountMod
     IN  references_' = [references_ EXCEPT ![c] =
                           IF left = 0 THEN [p \in DOMAIN @ \ {o} |-> @[p]]
                                       ELSE [@ EXCEPT ![o] = left]]
  /\ UNCHANGED <<objects_, exported, held, requests, posted, replies, calls,
                 dispatched, received>>

Next ==
  \/ \E c \in Clients : \E h \in held[c], arg \in Writable(c) : Transact(c, h, arg)
  \/ \E m \in requests : OnTransaction(m)
  \/ \E m \in posted : \E answer \in Writable(m.to) : Execute(m, answer)
  \/ \E m \in posted : ExecuteBaseCode(m)
  \/ \E m \in replies : Return(m)
  \/ \E o \in Objects : AddRef(OwnerOf[o], o) \/ Release(OwnerOf[o], o)

Spec == Init /\ [][Next]_vars

-----------------------------------------------------------------------------
(***************************************************************************)
(* A transaction reaches the object whose reference its caller used, or    *)
(* none: handle, cookie, id, address and pool (TranslateCookie, GetObject) *)
(* lead back along the way the object took when it was passed out.  The    *)
(* context object gets what is meant for any object of the manager, and    *)
(* nothing else.                                                           *)
(***************************************************************************)
RightObject ==
  \A d \in dispatched :
    \/ d.object \in {d.meant, Null}
    \/ d.object = ContextObject /\ d.meant \in Own(Manager)

(***************************************************************************)
(* An object passed in a request, or a proxy passed in a reply, is read as *)
(* that object or as none, through both translations of the server.  It is *)
(* none when it comes back to its owner, as a weak binder.                 *)
(***************************************************************************)
ReceivedIsMeant ==
  \A r \in received : r.via # "BINDER" => r.got \in {r.meant, Null}

(***************************************************************************)
(* What ObjectTranslator says of itself: the table gives the right address *)
(* for a binder object that comes in, in a reply too.                      *)
(***************************************************************************)
RightAddress == \A r \in received : r.got \in {r.meant, Null}
=============================================================================

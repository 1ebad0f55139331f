------------------------- MODULE ObjectPassingProofs -------------------------
(***************************************************************************)
(* Proofs about ObjectPassing, for any clients, any finite set of objects  *)
(* and any number of transactions.                                         *)
(*                                                                         *)
(* The argument: the ids of a client (objects_ of its ObjectTranslator)    *)
(* are never taken back or given to another object, so that an id keeps    *)
(* its meaning while it is on its way, and so does a handle of the server, *)
(* which is an owner and an id.  PassingInv says of every message on its   *)
(* way that the reference in it still means what its sender meant.         *)
(***************************************************************************)
EXTENDS ObjectPassing, FunctionTheorems, FiniteSetTheorems, TLAPS

(* The shape of the variables that TypeOK leaves open.                     *)
ShapeOK ==
  /\ DOMAIN references_ = Clients
  /\ objects_ \in [Clients -> Seq(Objects)]
  /\ held \in [Clients -> SUBSET Nat]
  /\ exported \in Seq([owner : Clients, cookie : Nat, object : Objects])

(* The pool of a client holds counts of the client's own objects.          *)
PoolsOK ==
  \A c \in Clients :
    /\ DOMAIN references_[c] \subseteq Own(c)
    /\ \A o \in DOMAIN references_[c] : references_[c][o] \in 0 .. CountMod - 1

(* The table of a client holds each of the client's own objects once.      *)
TablesOK ==
  \A c \in Clients :
    /\ \A i \in DOMAIN objects_[c] : objects_[c][i] \in Own(c)
    /\ \A i, j \in DOMAIN objects_[c] : objects_[c][i] = objects_[c][j] => i = j

(* The proxies of the applications have handles of the server.             *)
HeldOK == \A c \in Clients : held[c] \subseteq 0 .. Len(exported)

(* A handle of the server is an id of its owner, and means that object.    *)
ExportOK(e) ==
  /\ e.owner \in Clients
  /\ e.cookie \in DOMAIN objects_[e.owner]
  /\ e.object = objects_[e.owner][e.cookie]

ExportsOK == \A h \in DOMAIN exported : ExportOK(exported[h])

(* A reference without an address, and what it means.                      *)
PlainOK(r, meant) ==
  \/ r.type = "NONE" /\ meant = Null
  \/ r.type = "HANDLE" /\ r.ref \in 0 .. Len(exported) /\ meant = Meaning(r)

RequestOK(m) ==
  /\ m.from \in Clients /\ m.to \in 0 .. Len(exported)
  /\ \/ PlainOK(m.arg, m.meant)
     \/ /\ m.arg.type = "BINDER"
        /\ m.arg.ref \in DOMAIN objects_[m.from]
        /\ m.meant = objects_[m.from][m.arg.ref]

PostedOK(m) ==
  /\ m.from \in Clients /\ m.to \in Clients
  /\ \/ m.to = Manager /\ m.target = ContextObject
     \/ /\ m.cookie \in DOMAIN objects_[m.to]
        /\ m.target = objects_[m.to][m.cookie]
  /\ PlainOK(m.arg, m.meant) \/ m.arg.type = "WEAK_BINDER"

ReplyOK(m) ==
  /\ m.to \in Clients
  /\ m.was = m.arg.type
  /\ PlainOK(m.arg, m.meant) \/ m.arg.type = "BINDER"

RequestsOK == \A m \in requests : RequestOK(m)
PostsOK == \A m \in posted : PostedOK(m)
RepliesOK == \A m \in replies : ReplyOK(m)

(* The inductive invariant.                                                *)
PassingInv ==
  /\ ShapeOK /\ PoolsOK /\ TablesOK /\ HeldOK /\ ExportsOK
  /\ RequestsOK /\ PostsOK /\ RepliesOK
  /\ RightObject /\ ReceivedIsMeant

-----------------------------------------------------------------------------
(* A table that only got longer, one without repetitions, and what it      *)
(* means for the variables to have grown.                                  *)
Extends(new, old) ==
  /\ Len(old) <= Len(new)
  /\ \A i \in 1 .. Len(old) : new[i] = old[i]

Distinct(table) == \A i, j \in DOMAIN table : table[i] = table[j] => i = j

Grown ==
  /\ \A c \in Clients : Extends(objects_'[c], objects_[c])
  /\ Extends(exported', exported)

(* Appending extends a table.                                              *)
LEMMA AppendExtends ==
  ASSUME NEW S, NEW s \in Seq(S), NEW e \in S
  PROVE  /\ Append(s, e) \in Seq(S)
         /\ Len(Append(s, e)) = Len(s) + 1
         /\ Append(s, e)[Len(s) + 1] = e
         /\ \A i \in 1 .. Len(s) : Append(s, e)[i] = s[i]
         /\ Extends(Append(s, e), s)
  BY DEF Extends

(* TranslateOrAddObject of an ObjectTranslator keeps the ids there are,    *)
(* and the id it returns is that of the object, which has one id only.     *)
LEMMA TranslateOrAddObjectAdds ==
  ASSUME NEW table \in Seq(Objects), NEW o \in Objects, Distinct(table)
  PROVE  LET t == TranslateOrAddObject(table, o)
         IN  /\ t.table \in Seq(Objects)
             /\ Extends(t.table, table)
             /\ Distinct(t.table)
             /\ t.id \in DOMAIN t.table /\ t.table[t.id] = o
             /\ \A i \in DOMAIN t.table : t.table[i] = o \/ i \in DOMAIN table
  <1>1. CASE \E id \in DOMAIN table : table[id] = o
    <2> DEFINE k == CHOOSE id \in DOMAIN table : table[id] = o
    <2>1. k \in DOMAIN table /\ table[k] = o
      BY <1>1
    <2>2. TranslateObject(table, o) = k
      BY <1>1 DEF TranslateObject
    <2> HIDE DEF k
    <2>3. k # 0
      BY <2>1
    <2>4. TranslateOrAddObject(table, o) = [table |-> table, id |-> k]
      BY <2>2, <2>3 DEF TranslateOrAddObject
    <2> QED
      BY <2>1, <2>4 DEF Extends
  <1>2. CASE ~ \E id \in DOMAIN table : table[id] = o
    <2> DEFINE new == Append(table, o)
               n == Len(table) + 1
    <2>1. TranslateObject(table, o) = 0
      BY <1>2 DEF TranslateObject
    <2>2. TranslateOrAddObject(table, o) = [table |-> new, id |-> n]
      BY <2>1 DEF TranslateOrAddObject
    <2>3. /\ new \in Seq(Objects) /\ Len(new) = n /\ new[n] = o
          /\ \A i \in 1 .. Len(table) : new[i] = table[i]
          /\ Extends(new, table)
      BY AppendExtends
    <2>4. DOMAIN new = 1 .. n /\ DOMAIN table = 1 .. Len(table) /\ Len(table) \in Nat
      BY <2>3
    <2> HIDE DEF new
    <2>5. \A i \in DOMAIN new : i = n \/ i \in DOMAIN table
      BY <2>4
    <2>6. Distinct(new)
      BY <1>2, <2>3, <2>4, <2>5 DEF Distinct
    <2> QED
      BY <2>2, <2>3, <2>4, <2>5, <2>6
  <1> QED
    BY <1>1, <1>2

(* A message keeps its meaning while the tables of the clients and the     *)
(* server grow.                                                            *)
LEMMA MeaningsStay ==
  ASSUME ShapeOK, ShapeOK', Grown
  PROVE  /\ \A r, meant : PlainOK(r, meant) => PlainOK(r, meant)'
         /\ \A m : RequestOK(m) => RequestOK(m)'
         /\ \A m : PostedOK(m) => PostedOK(m)'
         /\ \A m : ReplyOK(m) => ReplyOK(m)'
         /\ \A e : ExportOK(e) => ExportOK(e)'
         /\ \A i \in 0 .. Len(exported) : i \in 0 .. Len(exported')
  <1>1. Len(exported) \in Nat /\ Len(exported') \in Nat /\ Len(exported) <= Len(exported')
    BY DEF ShapeOK, Grown, Extends
  <1>2. ASSUME NEW r, NEW meant, PlainOK(r, meant)
        PROVE  PlainOK(r, meant)'
    <2>1. CASE r.type = "NONE" /\ meant = Null
      BY <2>1 DEF PlainOK
    <2>2. CASE r.type = "HANDLE" /\ r.ref \in 0 .. Len(exported) /\ meant = Meaning(r)
      <3>1. r.ref = 0 \/ r.ref \in 1 .. Len(exported)
        BY <2>2, <1>1
      <3>2. r.ref # 0 => exported'[r.ref] = exported[r.ref]
        BY <3>1 DEF Grown, Extends
      <3>3. Meaning(r)' = Meaning(r)
        BY <2>2, <3>2 DEF Meaning
      <3> QED
        BY <2>2, <3>3, <1>1 DEF PlainOK
    <2> QED
      BY <1>2, <2>1, <2>2 DEF PlainOK
  <1>3. ASSUME NEW c \in Clients, NEW i \in DOMAIN objects_[c]
        PROVE  i \in DOMAIN objects_'[c] /\ objects_'[c][i] = objects_[c][i]
    <2>1. objects_[c] \in Seq(Objects) /\ objects_'[c] \in Seq(Objects)
      BY DEF ShapeOK
    <2>2. i \in 1 .. Len(objects_[c])
      BY <2>1
    <2>3. Len(objects_[c]) <= Len(objects_'[c]) /\ objects_'[c][i] = objects_[c][i]
      BY <2>2 DEF Grown, Extends
    <2> QED
      BY <2>1, <2>2, <2>3
  <1>4. \A m : RequestOK(m) => RequestOK(m)'
    BY <1>1, <1>2, <1>3 DEF RequestOK
  <1>5. \A m : PostedOK(m) => PostedOK(m)'
    BY <1>2, <1>3 DEF PostedOK
  <1>6. \A m : ReplyOK(m) => ReplyOK(m)'
    BY <1>2 DEF ReplyOK
  <1>7. \A e : ExportOK(e) => ExportOK(e)'
    BY <1>3 DEF ExportOK
  <1> QED
    BY <1>1, <1>2, <1>4, <1>5, <1>6, <1>7

(* What the parcel of a client may be given: a local object, or what needs *)
(* no translation.                                                         *)
LEMMA WritableKinds ==
  ASSUME ShapeOK, HeldOK, NEW c \in Clients, NEW r \in Writable(c)
  PROVE  \/ r.type = "BINDER" /\ r.ref \in Own(c) /\ r.ref \in Objects
            /\ OwnerOf[r.ref] = c /\ Meaning(r) = r.ref
         \/ r.type # "BINDER" /\ PlainOK(r, Meaning(r))
  <1>1. CASE r = Nothing
    BY <1>1 DEF Nothing, Ref, PlainOK, Meaning
  <1>2. ASSUME NEW h \in held[c], r = Ref("HANDLE", h)
        PROVE  r.type # "BINDER" /\ PlainOK(r, Meaning(r))
    BY <1>2 DEF Ref, PlainOK, HeldOK
  <1>3. ASSUME NEW o \in Own(c), r = Ref("BINDER", o)
        PROVE  r.type = "BINDER" /\ r.ref \in Own(c) /\ r.ref \in Objects
               /\ OwnerOf[r.ref] = c /\ Meaning(r) = r.ref
    BY <1>3 DEF Ref, Meaning, Own
  <1> QED
    BY <1>1, <1>2, <1>3 DEF Writable

(* ProcessTransaction, Direction::Out: the id that is sent is that of the  *)
(* local object that was written.                                          *)
LEMMA OutKeepsTables ==
  ASSUME ShapeOK, TablesOK, HeldOK, NEW c \in Clients, NEW r \in Writable(c)
  PROVE  LET o == Out(objects_[c], r)
         IN  /\ o.table \in Seq(Objects)
             /\ Extends(o.table, objects_[c])
             /\ Distinct(o.table)
             /\ \A i \in DOMAIN o.table : o.table[i] \in Own(c)
             /\ o.ref.type = r.type
             /\ r.type # "BINDER" => o.ref = r
             /\ r.type = "BINDER" => /\ o.ref.ref \in DOMAIN o.table
                                     /\ o.table[o.ref.ref] = r.ref
  <1> DEFINE table == objects_[c]
  <1>1. /\ table \in Seq(Objects) /\ Distinct(table)
        /\ \A i \in DOMAIN table : table[i] \in Own(c)
    BY DEF ShapeOK, TablesOK, Distinct
  <1> HIDE DEF table
  <1>2. CASE r.type = "BINDER"
    <2> DEFINE t == TranslateOrAddObject(table, r.ref)
    <2>1. r.ref \in Objects /\ r.ref \in Own(c)
      BY <1>2, WritableKinds
    <2>2. /\ t.table \in Seq(Objects)
          /\ Extends(t.table, table)
          /\ Distinct(t.table)
          /\ t.id \in DOMAIN t.table /\ t.table[t.id] = r.ref
          /\ \A i \in DOMAIN t.table : t.table[i] = r.ref \/ i \in DOMAIN table
      BY <1>1, <2>1, TranslateOrAddObjectAdds
    <2>3. Out(table, r) = [table |-> t.table, ref |-> [type |-> "BINDER", ref |-> t.id]]
      BY <1>2 DEF Out, Ref
    <2> HIDE DEF t
    <2>4. \A i \in DOMAIN t.table : t.table[i] \in Own(c)
      <3> TAKE i \in DOMAIN t.table
      <3>1. CASE t.table[i] = r.ref
        BY <3>1, <2>1
      <3>2. CASE i \in DOMAIN table
        BY <3>2, <1>1, <2>2 DEF Extends
      <3> QED
        BY <3>1, <3>2, <2>2
    <2>5. Out(table, r).table = t.table /\ Out(table, r).ref.type = "BINDER"
          /\ Out(table, r).ref.ref = t.id
      BY <2>3
    <2> QED
      BY <1>2, <2>2, <2>4, <2>5 DEF table
  <1>3. CASE r.type # "BINDER"
    <2>1. Out(table, r).table = table /\ Out(table, r).ref = r
      BY <1>3 DEF Out
    <2>2. Extends(table, table)
      BY <1>1 DEF Extends
    <2> QED
      BY <1>1, <1>3, <2>1, <2>2 DEF table
  <1> QED
    BY <1>2, <1>3

(* WriteObject adopts a local object of the client.                        *)
LEMMA AdoptKeepsPools ==
  ASSUME ShapeOK, PoolsOK, HeldOK, NEW c \in Clients, NEW r \in Writable(c),
         references_' = [references_ EXCEPT ![c] = Adopt(@, r)]
  PROVE  DOMAIN references_' = Clients /\ PoolsOK'
  <1> DEFINE pool == Adopt(references_[c], r)
  <1>1. 0 \in 0 .. CountMod - 1
    BY PassingAssumption
  <1>2. /\ DOMAIN pool \subseteq Own(c)
        /\ \A o \in DOMAIN pool : pool[o] \in 0 .. CountMod - 1
    <2>1. CASE r.type = "BINDER" /\ r.ref \notin DOMAIN references_[c]
      <3>1. r.ref \in Own(c)
        BY <2>1, WritableKinds
      <3>2. /\ DOMAIN pool = DOMAIN references_[c] \cup {r.ref}
            /\ \A o \in DOMAIN pool : pool[o] = IF o = r.ref THEN 0 ELSE references_[c][o]
        BY <2>1 DEF Adopt
      <3> HIDE DEF pool
      <3> QED
        BY <3>1, <3>2, <1>1 DEF PoolsOK
    <2>2. CASE ~ (r.type = "BINDER" /\ r.ref \notin DOMAIN references_[c])
      BY <2>2 DEF Adopt, PoolsOK
    <2> QED
      BY <2>1, <2>2
  <1>3. /\ DOMAIN references_' = Clients
        /\ \A d \in Clients : references_'[d] = IF d = c THEN pool ELSE references_[d]
    BY DEF ShapeOK
  <1> HIDE DEF pool
  <1>4. ASSUME NEW d \in Clients
        PROVE  /\ DOMAIN references_'[d] \subseteq Own(d)
               /\ \A o \in DOMAIN references_'[d] : references_'[d][o] \in 0 .. CountMod - 1
    <2>1. CASE d = c
      BY <1>2, <1>3, <2>1
    <2>2. CASE d # c
      BY <1>3, <2>2 DEF PoolsOK
    <2> QED
      BY <2>1, <2>2
  <1> QED
    BY <1>3, <1>4 DEF PoolsOK, Own

(* Writing an object changes the table of the writer only.                 *)
LEMMA WriteKeepsTables ==
  ASSUME ShapeOK, TablesOK, HeldOK, NEW c \in Clients, NEW r \in Writable(c),
         objects_' = [objects_ EXCEPT ![c] = Out(objects_[c], r).table]
  PROVE  /\ objects_' \in [Clients -> Seq(Objects)]
         /\ objects_'[c] = Out(objects_[c], r).table
         /\ TablesOK'
         /\ \A d \in Clients : Extends(objects_'[d], objects_[d])
  <1> DEFINE new == Out(objects_[c], r).table
  <1>1. /\ new \in Seq(Objects) /\ Extends(new, objects_[c])
        /\ Distinct(new) /\ \A i \in DOMAIN new : new[i] \in Own(c)
    BY OutKeepsTables
  <1>2. objects_' = [objects_ EXCEPT ![c] = new]
    OBVIOUS
  <1> HIDE DEF new
  <1>3. /\ objects_' \in [Clients -> Seq(Objects)]
        /\ \A d \in Clients : objects_'[d] = IF d = c THEN new ELSE objects_[d]
    BY <1>1, <1>2 DEF ShapeOK
  <1>4. \A d \in Clients : Extends(objects_'[d], objects_[d])
    <2> TAKE d \in Clients
    <2>1. objects_[d] \in Seq(Objects)
      BY DEF ShapeOK
    <2>2. Extends(objects_[d], objects_[d])
      BY <2>1 DEF Extends
    <2> QED
      BY <1>1, <1>3, <2>2
  <1>5. TablesOK'
    <2> SUFFICES ASSUME NEW d \in Clients
                 PROVE  /\ \A i \in DOMAIN objects_'[d] : objects_'[d][i] \in Own(d)
                        /\ Distinct(objects_'[d])
      BY DEF TablesOK, Own, Distinct
    <2>1. CASE d = c
      BY <2>1, <1>1, <1>3
    <2>2. CASE d # c
      BY <2>2, <1>3 DEF TablesOK, Distinct
    <2> QED
      BY <2>1, <2>2
  <1>6. objects_'[c] = new
    BY <1>3
  <1> QED
    BY <1>3, <1>4, <1>5, <1>6 DEF new

-----------------------------------------------------------------------------
(* Transact writes a reference that means what its caller meant.           *)
LEMMA TransactKeeps ==
  ASSUME PassingInv, NEW c \in Clients, NEW h \in held[c], NEW arg \in Writable(c),
         Transact(c, h, arg)
  PROVE  PassingInv'
  <1> USE DEF PassingInv
  <1> DEFINE o == Out(objects_[c], arg)
             new == [id |-> calls, from |-> c, to |-> h, arg |-> o.ref, meant |-> Meaning(arg)]
  <1>1. /\ references_' = [references_ EXCEPT ![c] = Adopt(@, arg)]
        /\ objects_' = [objects_ EXCEPT ![c] = o.table]
        /\ requests' = requests \cup {new}
        /\ UNCHANGED <<exported, held, posted, replies, dispatched, received>>
    BY DEF Transact
  <1>2. DOMAIN references_' = Clients /\ PoolsOK'
    BY <1>1, AdoptKeepsPools
  <1>3. /\ objects_' \in [Clients -> Seq(Objects)] /\ objects_'[c] = o.table
        /\ TablesOK'
        /\ \A d \in Clients : Extends(objects_'[d], objects_[d])
    BY <1>1, WriteKeepsTables
  <1>4. ShapeOK' /\ Extends(exported', exported)
    BY <1>1, <1>2, <1>3 DEF ShapeOK, Extends
  <1>5. Grown
    BY <1>3, <1>4 DEF Grown
  <1>6. HeldOK' /\ ExportsOK' /\ PostsOK' /\ RepliesOK'
    BY <1>1, <1>4, <1>5, MeaningsStay DEF HeldOK, ExportsOK, PostsOK, RepliesOK
  <1>7. ASSUME NEW m, m = new
        PROVE  RequestOK(m)'
    <2>1. m.from = c /\ m.to = h /\ m.arg = o.ref /\ m.meant = Meaning(arg)
      BY <1>7
    <2>2. /\ arg.type # "BINDER" => m.arg = arg
          /\ arg.type = "BINDER" => /\ m.arg.type = "BINDER"
                                    /\ m.arg.ref \in DOMAIN o.table
                                    /\ o.table[m.arg.ref] = arg.ref
      BY <2>1, OutKeepsTables
    <2>3. h \in 0 .. Len(exported')
      BY <1>1 DEF HeldOK
    <2> HIDE DEF o, new
    <2>4. CASE arg.type = "BINDER"
      <3>1. Meaning(arg) = arg.ref
        BY <2>4 DEF Meaning
      <3> QED
        BY <2>1, <2>2, <2>3, <2>4, <3>1, <1>3 DEF RequestOK
    <2>5. CASE arg.type # "BINDER"
      <3>1. PlainOK(m.arg, m.meant)
        BY <2>1, <2>2, <2>5, WritableKinds
      <3>2. PlainOK(m.arg, m.meant)'
        BY <3>1, <1>4, <1>5, MeaningsStay
      <3> QED
        BY <2>1, <2>3, <3>2 DEF RequestOK
    <2> QED
      BY <2>4, <2>5
  <1>8. RequestsOK'
    <2>1. \A m \in requests' : m \in requests \/ m = new
      BY <1>1
    <2> HIDE DEF new
    <2> QED
      BY <2>1, <1>4, <1>5, <1>7, MeaningsStay DEF RequestsOK
  <1>9. RightObject' /\ ReceivedIsMeant'
    BY <1>1 DEF RightObject, ReceivedIsMeant
  <1> QED
    BY <1>2, <1>3, <1>4, <1>6, <1>8, <1>9

(* What the sender's session of the server leaves of the reference in a    *)
(* request: a handle with the same meaning, or the id of the sender's own  *)
(* object as a weak binder.  An export that is made leads back to the      *)
(* object.                                                                 *)
LEMMA SenderTranslates ==
  ASSUME ShapeOK, TablesOK, ExportsOK, NEW m, RequestOK(m)
  PROVE  LET s == TranslateObjects(m.from, exported, m.arg, m.meant)
         IN  /\ s.objects \in Seq([owner : Clients, cookie : Nat, object : Objects])
             /\ Extends(s.objects, exported)
             /\ \A h \in DOMAIN s.objects : ExportOK(s.objects[h])
             /\ \/ s.ref.type = "NONE" /\ m.meant = Null
                \/ s.ref.type = "WEAK_BINDER"
                \/ /\ s.ref.type = "HANDLE" /\ s.ref.ref \in 0 .. Len(s.objects)
                   /\ m.meant = IF s.ref.ref = 0 THEN ContextObject
                                                 ELSE s.objects[s.ref.ref].object
  <1> DEFINE s == TranslateObjects(m.from, exported, m.arg, m.meant)
             Export == [owner : Clients, cookie : Nat, object : Objects]
  <1>1. exported \in Seq(Export) /\ Extends(exported, exported)
    BY DEF ShapeOK, Extends
  <1>2. CASE m.arg.type = "BINDER"
    <2> DEFINE e == [owner |-> m.from, cookie |-> m.arg.ref, object |-> m.meant]
               n == Len(exported) + 1
    <2>1. /\ m.from \in Clients
          /\ m.arg.ref \in DOMAIN objects_[m.from]
          /\ m.meant = objects_[m.from][m.arg.ref]
      BY <1>2 DEF RequestOK, PlainOK
    <2>2. objects_[m.from] \in Seq(Objects)
      BY <2>1 DEF ShapeOK
    <2>3. m.arg.ref \in Nat /\ m.meant \in Objects
      BY <2>1, <2>2
    <2>4. e \in Export /\ ExportOK(e) /\ e.object = m.meant
      BY <2>1, <2>3 DEF ExportOK
    <2>5. s = [objects |-> Append(exported, e), ref |-> [type |-> "HANDLE", ref |-> n]]
      BY <1>2 DEF TranslateObjects, Ref
    <2>6. s.objects = Append(exported, e) /\ s.ref.type = "HANDLE" /\ s.ref.ref = n
      BY <2>5
    <2> HIDE DEF e, s, Export
    <2>7. /\ s.objects \in Seq(Export)
          /\ Len(s.objects) = n /\ s.objects[n] = e
          /\ \A i \in 1 .. Len(exported) : s.objects[i] = exported[i]
          /\ Extends(s.objects, exported)
      BY <1>1, <2>4, <2>6, AppendExtends
    <2>8. DOMAIN s.objects = 1 .. n /\ Len(exported) \in Nat /\ DOMAIN exported = 1 .. Len(exported)
      BY <2>7, <1>1
    <2>9. \A h \in DOMAIN s.objects : h = n \/ h \in 1 .. Len(exported)
      BY <2>8
    <2>10. \A h \in DOMAIN s.objects : ExportOK(s.objects[h])
      BY <2>4, <2>7, <2>8, <2>9 DEF ExportsOK
    <2>11. n # 0 /\ n \in 0 .. Len(s.objects)
      BY <2>7, <2>8
    <2> QED
      BY <2>4, <2>6, <2>7, <2>10, <2>11 DEF s, Export
  <1>3. CASE m.arg.type = "HANDLE" /\ m.arg.ref # 0 /\ exported[m.arg.ref].owner = m.from
    <2>1. s = [objects |-> exported,
               ref |-> [type |-> "WEAK_BINDER", ref |-> exported[m.arg.ref].cookie]]
      BY <1>3 DEF TranslateObjects, Ref
    <2>2. s.objects = exported /\ s.ref.type = "WEAK_BINDER"
      BY <2>1
    <2> HIDE DEF s
    <2> QED
      BY <1>1, <2>2 DEF s, ExportsOK
  <1>4. CASE /\ m.arg.type # "BINDER"
             /\ ~ (m.arg.type = "HANDLE" /\ m.arg.ref # 0
                   /\ exported[m.arg.ref].owner = m.from)
    <2>1. s = [objects |-> exported, ref |-> m.arg]
      BY <1>4 DEF TranslateObjects
    <2>2. s.objects = exported /\ s.ref = m.arg
      BY <2>1
    <2>3. PlainOK(m.arg, m.meant)
      BY <1>4 DEF RequestOK
    <2> HIDE DEF s
    <2>4. \/ s.ref.type = "NONE" /\ m.meant = Null
          \/ /\ s.ref.type = "HANDLE" /\ s.ref.ref \in 0 .. Len(s.objects)
             /\ m.meant = IF s.ref.ref = 0 THEN ContextObject
                                           ELSE s.objects[s.ref.ref].object
      BY <2>2, <2>3 DEF PlainOK, Meaning
    <2> QED
      BY <1>1, <2>2, <2>4 DEF s, ExportsOK
  <1> QED
    BY <1>2, <1>3, <1>4

(* The target's session exports nothing and leaves the reference, or makes *)
(* a weak binder of it.                                                    *)
LEMMA TargetTranslates ==
  ASSUME NEW target, NEW objects, NEW r, NEW object,
         r.type \in {"NONE", "WEAK_BINDER", "HANDLE"}
  PROVE  LET s == TranslateObjects(target, objects, r, object)
         IN  /\ s.objects = objects
             /\ s.ref = r \/ s.ref.type = "WEAK_BINDER"
  <1>1. CASE r.type = "HANDLE" /\ r.ref # 0 /\ objects[r.ref].owner = target
    BY <1>1 DEF TranslateObjects, Ref
  <1>2. CASE ~ (r.type = "HANDLE" /\ r.ref # 0 /\ objects[r.ref].owner = target)
    <2>1. TranslateObjects(target, objects, r, object) = [objects |-> objects, ref |-> r]
      BY <1>2 DEF TranslateObjects
    <2> QED
      BY <2>1
  <1> QED
    BY <1>1, <1>2

(* OnTransaction of the server finds the owner of the handle, and posts a  *)
(* reference that means what was meant, or a weak binder.                  *)
LEMMA OnTransactionKeeps ==
  ASSUME PassingInv, NEW m \in requests, OnTransaction(m)
  PROVE  PassingInv'
  <1> USE DEF PassingInv
  <1> DEFINE target == IF m.to = 0 THEN Manager ELSE exported[m.to].owner
             cookie == IF m.to = 0 THEN 0 ELSE exported[m.to].cookie
             s == TranslateObjects(m.from, exported, m.arg, m.meant)
             there == TranslateObjects(target, s.objects, s.ref, m.meant)
             new == [id |-> m.id, from |-> m.from, to |-> target, cookie |-> cookie,
                     arg |-> there.ref, meant |-> m.meant,
                     target |-> Meaning(Ref("HANDLE", m.to))]
  <1>1. /\ requests' = requests \ {m}
        /\ exported' = there.objects
        /\ posted' = posted \cup {new}
        /\ UNCHANGED <<references_, objects_, held, replies, dispatched, received>>
    BY DEF OnTransaction
  <1>2. RequestOK(m)
    BY DEF RequestsOK
  <1>3. /\ s.objects \in Seq([owner : Clients, cookie : Nat, object : Objects])
        /\ Extends(s.objects, exported)
        /\ \A h \in DOMAIN s.objects : ExportOK(s.objects[h])
        /\ \/ s.ref.type = "NONE" /\ m.meant = Null
           \/ s.ref.type = "WEAK_BINDER"
           \/ /\ s.ref.type = "HANDLE" /\ s.ref.ref \in 0 .. Len(s.objects)
              /\ m.meant = IF s.ref.ref = 0 THEN ContextObject
                                            ELSE s.objects[s.ref.ref].object
    BY <1>2, SenderTranslates
  <1> HIDE DEF s
  <1>4. there.objects = s.objects /\ (there.ref = s.ref \/ there.ref.type = "WEAK_BINDER")
    BY <1>3, TargetTranslates
  <1>5. /\ new.from = m.from /\ new.to = target /\ new.cookie = cookie
        /\ new.arg = there.ref /\ new.meant = m.meant
        /\ new.target = Meaning(Ref("HANDLE", m.to))
    OBVIOUS
  <1> HIDE DEF there, new
  <1>6. ShapeOK'
    BY <1>1, <1>3, <1>4 DEF ShapeOK
  <1>7. Grown
    <2>1. \A c \in Clients : objects_'[c] \in Seq(Objects) /\ objects_'[c] = objects_[c]
      BY <1>1 DEF ShapeOK
    <2>2. \A c \in Clients : Extends(objects_'[c], objects_[c])
      BY <2>1 DEF Extends
    <2> QED
      BY <1>1, <1>3, <1>4, <2>2 DEF Grown
  <1>8. ExportsOK'
    BY <1>1, <1>3, <1>4 DEF ExportsOK, ExportOK
  <1>9. HeldOK' /\ RequestsOK' /\ RepliesOK'
    BY <1>1, <1>6, <1>7, MeaningsStay DEF HeldOK, RequestsOK, RepliesOK
  <1>10. ASSUME NEW p, p = new
         PROVE  PostedOK(p)'
    <2>1. m.from \in Clients /\ m.to \in 0 .. Len(exported)
      BY <1>2 DEF RequestOK
    <2>2. PlainOK(p.arg, p.meant)' \/ p.arg.type = "WEAK_BINDER"
      BY <1>1, <1>3, <1>4, <1>5, <1>10 DEF PlainOK, Meaning
    <2>3. CASE m.to = 0
      <3>1. target = Manager /\ Meaning(Ref("HANDLE", m.to)) = ContextObject
        BY <2>3 DEF Meaning, Ref
      <3> QED
        BY <1>5, <1>10, <2>1, <2>2, <3>1, PassingAssumption DEF PostedOK
    <2>4. CASE m.to # 0
      <3>1. m.to \in DOMAIN exported
        BY <2>1, <2>4 DEF ShapeOK
      <3>2. ExportOK(exported[m.to])
        BY <3>1 DEF ExportsOK
      <3>3. /\ target = exported[m.to].owner /\ cookie = exported[m.to].cookie
            /\ Meaning(Ref("HANDLE", m.to)) = exported[m.to].object
        BY <2>4 DEF Meaning, Ref
      <3> HIDE DEF target, cookie
      <3>4. /\ p.to \in Clients /\ p.cookie \in DOMAIN objects_'[p.to]
            /\ p.target = objects_'[p.to][p.cookie]
        BY <1>1, <1>5, <1>10, <3>2, <3>3 DEF ExportOK
      <3> QED
        BY <1>5, <1>10, <2>1, <2>2, <3>4 DEF PostedOK
    <2> QED
      BY <2>3, <2>4
  <1>11. PostsOK'
    <2>1. \A p \in posted' : p \in posted \/ p = new
      BY <1>1
    <2> QED
      BY <2>1, <1>6, <1>7, <1>10, MeaningsStay DEF PostsOK
  <1>12. PoolsOK' /\ TablesOK' /\ RightObject' /\ ReceivedIsMeant'
    BY <1>1 DEF PoolsOK, TablesOK, RightObject, ReceivedIsMeant
  <1> QED
    BY <1>6, <1>8, <1>9, <1>11, <1>12

(* The object a transaction reaches is the one it was meant for, none, or  *)
(* the context object for another object of the manager.                   *)
LEMMA LookupIsRight ==
  ASSUME ShapeOK, TablesOK, NEW m, PostedOK(m)
  PROVE  \/ Lookup(m.to, m.cookie) \in {m.target, Null}
         \/ Lookup(m.to, m.cookie) = ContextObject /\ m.target \in Own(Manager)
  <1>1. CASE m.to = Manager
    <2>1. Lookup(m.to, m.cookie) = ContextObject
      BY <1>1 DEF Lookup
    <2>2. CASE m.target = ContextObject
      BY <2>1, <2>2
    <2>3. CASE m.cookie \in DOMAIN objects_[m.to] /\ m.target = objects_[m.to][m.cookie]
      <3>1. m.target \in Own(Manager)
        BY <1>1, <2>3, PassingAssumption DEF TablesOK
      <3> QED
        BY <2>1, <3>1
    <2> QED
      BY <2>2, <2>3 DEF PostedOK
  <1>2. CASE m.to # Manager
    <2>1. TranslateCookie(objects_[m.to], m.cookie) = m.target
      BY <1>2 DEF PostedOK, TranslateCookie
    <2> QED
      BY <1>2, <2>1 DEF Lookup
  <1> QED
    BY <1>1, <1>2

(* ProcessTransaction, Direction::In, and ReadObject: what is read of a    *)
(* reference that is no address is the reference or nothing.               *)
LEMMA ReadIsMeant ==
  ASSUME NEW pool, NEW table, NEW r, NEW meant,
         PlainOK(r, meant) \/ r.type = "WEAK_BINDER"
  PROVE  /\ ReadObject(pool, In(table, r)) = ReadObject(pool, r)
         /\ Meaning(ReadObject(pool, r)) \in {meant, Null}
         /\ ReadObject(pool, r).type = "HANDLE" => ReadObject(pool, r).ref \in 0 .. Len(exported)
  <1>1. r.type # "BINDER"
    BY DEF PlainOK
  <1>2. In(table, r) = r
    BY <1>1 DEF In
  <1>3. CASE r.type = "HANDLE"
    <2>1. ReadObject(pool, r) = r
      BY <1>3 DEF ReadObject
    <2> QED
      BY <1>2, <1>3, <2>1 DEF PlainOK
  <1>4. CASE r.type # "HANDLE"
    <2>1. ReadObject(pool, r) = [type |-> "NONE", ref |-> 0]
      BY <1>1, <1>4 DEF ReadObject, Nothing, Ref
    <2> QED
      BY <1>2, <2>1 DEF Meaning
  <1> QED
    BY <1>3, <1>4

(* A proxy that ReadObject returns has a handle of the server.             *)
LEMMA HoldKeeps ==
  ASSUME ShapeOK, HeldOK, NEW c \in Clients, NEW r, Hold(c, r), exported' = exported,
         r.type = "HANDLE" => r.ref \in 0 .. Len(exported)
  PROVE  held' \in [Clients -> SUBSET Nat] /\ HeldOK'
  <1>1. \A d \in Clients :
          held'[d] = IF d = c /\ r.type = "HANDLE" THEN held[d] \cup {r.ref} ELSE held[d]
    BY DEF Hold, ShapeOK
  <1>2. Len(exported) \in Nat
    BY DEF ShapeOK
  <1>3. r.type = "HANDLE" => r.ref \in Nat
    BY <1>2
  <1>4. DOMAIN held' = Clients /\ held' = [d \in Clients |-> held'[d]]
    BY DEF Hold, ShapeOK
  <1>5. \A d \in Clients : held'[d] \in SUBSET Nat
    BY <1>1, <1>3 DEF ShapeOK
  <1>6. HeldOK'
    BY <1>1 DEF HeldOK
  <1> QED
    BY <1>4, <1>5, <1>6

(* Execute: the object reads its argument as it was meant, and its answer  *)
(* means what it meant unless it is a local object.                        *)
LEMMA ExecuteKeeps ==
  ASSUME PassingInv, NEW m \in posted, NEW answer \in Writable(m.to), Execute(m, answer)
  PROVE  PassingInv'
  <1> USE DEF PassingInv
  <1> DEFINE c == m.to
             obj == Lookup(c, m.cookie)
             arg == ReadObject(references_[c],
                               IF c = Manager THEN m.arg ELSE In(objects_[c], m.arg))
             o == IF c = Manager THEN [table |-> objects_[c], ref |-> answer]
                                 ELSE Out(objects_[c], answer)
             dnew == [object |-> obj, meant |-> m.target]
             rnew == [via |-> "request", got |-> Meaning(arg), meant |-> m.meant]
             new == [id |-> m.id, to |-> m.from, arg |-> o.ref,
                     was |-> answer.type, meant |-> Meaning(answer)]
  <1>1. /\ posted' = posted \ {m}
        /\ dispatched' = dispatched \cup {dnew}
        /\ UNCHANGED <<exported, requests>>
        /\ \/ UNCHANGED <<references_, objects_, held, replies, received>>
           \/ /\ Hold(c, arg)
              /\ received' = received \cup {rnew}
              /\ references_' = [references_ EXCEPT ![c] = Adopt(@, answer)]
              /\ objects_' = [objects_ EXCEPT ![c] = o.table]
              /\ replies' = replies \cup {new}
    BY DEF Execute
  <1>2. PostedOK(m) /\ c \in Clients
    BY DEF PostsOK, PostedOK
  <1>3. RightObject'
    <2>1. obj \in {m.target, Null} \/ (obj = ContextObject /\ m.target \in Own(Manager))
      BY <1>2, LookupIsRight
    <2>2. dnew.object = obj /\ dnew.meant = m.target
      OBVIOUS
    <2> HIDE DEF dnew, obj
    <2> QED
      BY <1>1, <2>1, <2>2 DEF RightObject
  <1>4. /\ Meaning(arg) \in {m.meant, Null}
        /\ arg.type = "HANDLE" => arg.ref \in 0 .. Len(exported)
    BY <1>2, ReadIsMeant DEF PostedOK
  <1>5. /\ o.table = objects_[c] \/ o.table = Out(objects_[c], answer).table
        /\ o.ref.type = answer.type /\ (answer.type # "BINDER" => o.ref = answer)
    <2>1. CASE c = Manager
      BY <2>1
    <2>2. CASE c # Manager
      BY <1>2, <2>2, OutKeepsTables
    <2> QED
      BY <2>1, <2>2
  <1>6. /\ new.to = m.from /\ new.arg = o.ref /\ new.was = answer.type
        /\ new.meant = Meaning(answer)
        /\ rnew.got = Meaning(arg) /\ rnew.meant = m.meant
    OBVIOUS
  <1> HIDE DEF obj, arg, o, dnew, rnew, new
  <1>7. CASE UNCHANGED <<references_, objects_, held, replies, received>>
    <2>1. ShapeOK' /\ PoolsOK' /\ TablesOK' /\ HeldOK' /\ ExportsOK' /\ ReceivedIsMeant'
      BY <1>1, <1>7 DEF ShapeOK, PoolsOK, TablesOK, HeldOK, ExportsOK, ExportOK, ReceivedIsMeant
    <2>2. Grown
      <3>1. \A d \in Clients : objects_'[d] \in Seq(Objects) /\ objects_'[d] = objects_[d]
        BY <1>7 DEF ShapeOK
      <3>2. \A d \in Clients : Extends(objects_'[d], objects_[d])
        BY <3>1 DEF Extends
      <3>3. Extends(exported', exported)
        BY <1>1 DEF ShapeOK, Extends
      <3> QED
        BY <3>2, <3>3 DEF Grown
    <2>3. RequestsOK' /\ PostsOK' /\ RepliesOK'
      BY <1>1, <1>7, <2>1, <2>2, MeaningsStay DEF RequestsOK, PostsOK, RepliesOK
    <2> QED
      BY <1>3, <2>1, <2>3
  <1>8. CASE /\ Hold(c, arg)
             /\ received' = received \cup {rnew}
             /\ references_' = [references_ EXCEPT ![c] = Adopt(@, answer)]
             /\ objects_' = [objects_ EXCEPT ![c] = o.table]
             /\ replies' = replies \cup {new}
    <2>1. DOMAIN references_' = Clients /\ PoolsOK'
      BY <1>2, <1>8, AdoptKeepsPools
    <2>2. /\ objects_' \in [Clients -> Seq(Objects)] /\ TablesOK'
          /\ \A d \in Clients : Extends(objects_'[d], objects_[d])
      <3>1. CASE o.table = Out(objects_[c], answer).table
        BY <1>2, <1>8, <3>1, WriteKeepsTables
      <3>2. CASE o.table = objects_[c]
        <4>1. objects_' = objects_
          BY <1>2, <1>8, <3>2 DEF ShapeOK
        <4>2. \A d \in Clients : objects_[d] \in Seq(Objects)
          BY DEF ShapeOK
        <4>3. \A d \in Clients : Extends(objects_'[d], objects_[d])
          BY <4>1, <4>2 DEF Extends
        <4> QED
          BY <4>1, <4>3 DEF ShapeOK, TablesOK
      <3> QED
        BY <1>5, <3>1, <3>2
    <2>3. held' \in [Clients -> SUBSET Nat] /\ HeldOK'
      BY <1>1, <1>2, <1>4, <1>8, HoldKeeps
    <2>4. ShapeOK' /\ Extends(exported', exported)
      BY <1>1, <2>1, <2>2, <2>3 DEF ShapeOK, Extends
    <2>5. Grown
      BY <2>2, <2>4 DEF Grown
    <2>6. ExportsOK' /\ RequestsOK' /\ PostsOK'
      BY <1>1, <2>4, <2>5, MeaningsStay DEF ExportsOK, RequestsOK, PostsOK
    <2>7. ASSUME NEW p, p = new
          PROVE  ReplyOK(p)'
      <3>1. o.ref.type = answer.type /\ (answer.type # "BINDER" => o.ref = answer)
        BY <1>5
      <3>2. answer.type = "BINDER" \/ PlainOK(answer, Meaning(answer))
        BY <1>2, WritableKinds
      <3>3. /\ p.to \in Clients /\ p.was = p.arg.type
            /\ p.arg.type = "BINDER" \/ PlainOK(p.arg, p.meant)
        BY <1>2, <1>6, <2>7, <3>1, <3>2 DEF PostedOK
      <3> QED
        BY <3>3, <2>4, <2>5, MeaningsStay DEF ReplyOK
    <2>8. RepliesOK'
      <3>1. \A p \in replies' : p \in replies \/ p = new
        BY <1>8
      <3> QED
        BY <3>1, <2>4, <2>5, <2>7, MeaningsStay DEF RepliesOK
    <2>9. ReceivedIsMeant'
      <3>1. \A r \in received' : r \in received \/ r = rnew
        BY <1>8
      <3> QED
        BY <3>1, <1>4, <1>6 DEF ReceivedIsMeant
    <2> QED
      BY <1>3, <2>1, <2>2, <2>3, <2>4, <2>6, <2>8, <2>9
  <1> QED
    BY <1>1, <1>7, <1>8

(* Steps that leave the tables of the clients and the server alone.        *)
LEMMA SameTables ==
  ASSUME PassingInv, ShapeOK', UNCHANGED <<objects_, exported>>,
         requests' \subseteq requests, posted' \subseteq posted, replies' \subseteq replies
  PROVE  /\ TablesOK' /\ ExportsOK' /\ RequestsOK' /\ PostsOK' /\ RepliesOK'
         /\ held' = held => HeldOK'
  <1> USE DEF PassingInv
  <1>1. TablesOK' /\ ExportsOK' /\ (held' = held => HeldOK')
    BY DEF TablesOK, ExportsOK, ExportOK, HeldOK
  <1>2. Grown
    <2>1. \A d \in Clients : objects_'[d] \in Seq(Objects) /\ objects_'[d] = objects_[d]
      BY DEF ShapeOK
    <2>2. \A d \in Clients : Extends(objects_'[d], objects_[d])
      BY <2>1 DEF Extends
    <2>3. Extends(exported', exported)
      BY DEF ShapeOK, Extends
    <2> QED
      BY <2>2, <2>3 DEF Grown
  <1>3. RequestsOK' /\ PostsOK' /\ RepliesOK'
    BY <1>2, MeaningsStay DEF RequestsOK, PostsOK, RepliesOK
  <1> QED
    BY <1>1, <1>3

(* A transaction with a code that LocalObject itself refuses.              *)
LEMMA ExecuteBaseCodeKeeps ==
  ASSUME PassingInv, NEW m \in posted, ExecuteBaseCode(m)
  PROVE  PassingInv'
  <1> USE DEF PassingInv
  <1> DEFINE dnew == [object |-> Lookup(m.to, m.cookie), meant |-> m.target]
  <1>1. /\ posted' \subseteq posted
        /\ dispatched' = dispatched \cup {dnew}
        /\ UNCHANGED <<references_, objects_, exported, held, requests, replies, received>>
    BY DEF ExecuteBaseCode
  <1>2. ShapeOK' /\ PoolsOK' /\ ReceivedIsMeant'
    BY <1>1 DEF ShapeOK, PoolsOK, ReceivedIsMeant
  <1>3. TablesOK' /\ ExportsOK' /\ RequestsOK' /\ PostsOK' /\ RepliesOK' /\ HeldOK'
    BY <1>1, <1>2, SameTables
  <1>4. RightObject'
    <2>1. /\ dnew.meant = m.target
          /\ \/ dnew.object \in {m.target, Null}
             \/ dnew.object = ContextObject /\ m.target \in Own(Manager)
      BY LookupIsRight DEF PostsOK
    <2> HIDE DEF dnew
    <2> QED
      BY <1>1, <2>1 DEF RightObject
  <1> QED
    BY <1>2, <1>3, <1>4

(* The caller reads a reply as it was meant, unless the reply holds a      *)
(* local object of the answering client.                                   *)
LEMMA ReturnKeeps ==
  ASSUME PassingInv, NEW m \in replies, Return(m)
  PROVE  PassingInv'
  <1> USE DEF PassingInv
  <1> DEFINE arg == ReadObject(references_[m.to], In(objects_[m.to], m.arg))
             rnew == [via |-> m.was, got |-> Meaning(arg), meant |-> m.meant]
  <1>1. /\ replies' = replies \ {m}
        /\ Hold(m.to, arg)
        /\ received' = received \cup {rnew}
        /\ UNCHANGED <<references_, objects_, exported, requests, posted, dispatched>>
    BY DEF Return
  <1>2. ReplyOK(m) /\ m.to \in Clients
    BY DEF RepliesOK, ReplyOK
  <1>3. /\ m.was # "BINDER" => Meaning(arg) \in {m.meant, Null}
        /\ arg.type = "HANDLE" => arg.ref \in 0 .. Len(exported)
    <2>1. CASE m.arg.type = "BINDER"
      <3>1. In(objects_[m.to], m.arg).type = "BINDER"
        BY <2>1 DEF In, Ref
      <3>2. arg.type # "HANDLE"
        BY <3>1 DEF ReadObject, Nothing, Ref
      <3> QED
        BY <1>2, <2>1, <3>2 DEF ReplyOK
    <2>2. CASE m.arg.type # "BINDER"
      <3>1. PlainOK(m.arg, m.meant)
        BY <1>2, <2>2 DEF ReplyOK
      <3> QED
        BY <3>1, ReadIsMeant
    <2> QED
      BY <2>1, <2>2
  <1>4. rnew.via = m.was /\ rnew.got = Meaning(arg) /\ rnew.meant = m.meant
    OBVIOUS
  <1> HIDE DEF arg, rnew
  <1>5. held' \in [Clients -> SUBSET Nat] /\ HeldOK'
    BY <1>1, <1>2, <1>3, HoldKeeps
  <1>6. ShapeOK' /\ PoolsOK' /\ RightObject'
    BY <1>1, <1>5 DEF ShapeOK, PoolsOK, RightObject
  <1>7. TablesOK' /\ ExportsOK' /\ RequestsOK' /\ PostsOK' /\ RepliesOK'
    <2>1. replies' \subseteq replies
      BY <1>1
    <2> QED
      BY <1>1, <1>6, <2>1, SameTables
  <1>8. ReceivedIsMeant'
    BY <1>1, <1>3, <1>4 DEF ReceivedIsMeant
  <1> QED
    BY <1>5, <1>6, <1>7, <1>8

(* AddRef and Release of an ObjectPool keep the counts in the range of a   *)
(* uint32_t and drop the object or leave it where it is.                   *)
LEMMA CountsKeep ==
  ASSUME PassingInv, NEW c \in Clients, NEW o, AddRef(c, o) \/ Release(c, o)
  PROVE  PassingInv'
  <1> USE DEF PassingInv
  <1>1. /\ o \in DOMAIN references_[c]
        /\ UNCHANGED <<objects_, exported, held, requests, posted, replies,
                       dispatched, received>>
    BY DEF AddRef, Release
  <1>2. references_[c][o] \in Int /\ CountMod \in Nat /\ CountMod > 0
    BY <1>1, PassingAssumption DEF PoolsOK
  <1>3. ASSUME NEW n \in Int PROVE n % CountMod \in 0 .. CountMod - 1
    BY <1>2
  <1>4. \E pool :
          /\ references_' = [references_ EXCEPT ![c] = pool]
          /\ DOMAIN pool \subseteq DOMAIN references_[c]
          /\ \A p \in DOMAIN pool : pool[p] = references_[c][p] \/ pool[p] \in 0 .. CountMod - 1
    <2>1. CASE AddRef(c, o)
      <3> DEFINE pool == [references_[c] EXCEPT ![o] = (@ + 1) % CountMod]
      <3>1. references_' = [references_ EXCEPT ![c] = pool]
        BY <2>1 DEF AddRef
      <3>2. (references_[c][o] + 1) % CountMod \in 0 .. CountMod - 1
        BY <1>2, <1>3
      <3>3. \A p \in DOMAIN pool : pool[p] = references_[c][p] \/ pool[p] \in 0 .. CountMod - 1
        BY <3>2
      <3> QED
        BY <3>1, <3>3
    <2>2. CASE Release(c, o)
      <3> DEFINE left == (references_[c][o] - 1) % CountMod
                 pool == IF left = 0
                           THEN [p \in DOMAIN references_[c] \ {o} |-> references_[c][p]]
                           ELSE [references_[c] EXCEPT ![o] = left]
      <3>1. references_' = [references_ EXCEPT ![c] = pool]
        BY <2>2 DEF Release
      <3>2. left \in 0 .. CountMod - 1
        BY <1>2, <1>3
      <3> HIDE DEF left
      <3>3. /\ DOMAIN pool \subseteq DOMAIN references_[c]
            /\ \A p \in DOMAIN pool : pool[p] = references_[c][p] \/ pool[p] \in 0 .. CountMod - 1
        BY <3>2
      <3> QED
        BY <3>1, <3>3
    <2> QED
      BY <2>1, <2>2
  <1>5. PICK pool :
          /\ references_' = [references_ EXCEPT ![c] = pool]
          /\ DOMAIN pool \subseteq DOMAIN references_[c]
          /\ \A p \in DOMAIN pool : pool[p] = references_[c][p] \/ pool[p] \in 0 .. CountMod - 1
    BY <1>4
  <1>6. /\ DOMAIN references_' = Clients
        /\ \A d \in Clients : references_'[d] = IF d = c THEN pool ELSE references_[d]
    BY <1>5 DEF ShapeOK
  <1>7. PoolsOK'
    <2> SUFFICES ASSUME NEW d \in Clients
                 PROVE  /\ DOMAIN references_'[d] \subseteq Own(d)
                        /\ \A p \in DOMAIN references_'[d] :
                             references_'[d][p] \in 0 .. CountMod - 1
      BY DEF PoolsOK, Own
    <2> QED
      BY <1>5, <1>6 DEF PoolsOK
  <1>8. ShapeOK'
    BY <1>1, <1>6 DEF ShapeOK
  <1>9. TablesOK' /\ ExportsOK' /\ RequestsOK' /\ PostsOK' /\ RepliesOK' /\ HeldOK'
    BY <1>1, <1>8, SameTables
  <1> QED
    BY <1>1, <1>7, <1>8, <1>9 DEF RightObject, ReceivedIsMeant

-----------------------------------------------------------------------------
(* The inductive invariant holds, whatever the clients pass to each other. *)
THEOREM PassingInvariant == Spec => []PassingInv
  <1>1. Init => PassingInv
    <2> SUFFICES ASSUME Init PROVE PassingInv
      OBVIOUS
    <2>1. ShapeOK /\ PoolsOK /\ TablesOK
      BY DEF Init, ShapeOK, PoolsOK, TablesOK
    <2>2. HeldOK /\ ExportsOK /\ RequestsOK /\ PostsOK /\ RepliesOK
      BY DEF Init, HeldOK, ExportsOK, RequestsOK, PostsOK, RepliesOK
    <2>3. RightObject /\ ReceivedIsMeant
      BY DEF Init, RightObject, ReceivedIsMeant
    <2> QED
      BY <2>1, <2>2, <2>3 DEF PassingInv
  <1>2. PassingInv /\ [Next]_vars => PassingInv'
    <2> SUFFICES ASSUME PassingInv, [Next]_vars PROVE PassingInv'
      OBVIOUS
    <2>1. ASSUME NEW c \in Clients, NEW h \in held[c], NEW arg \in Writable(c),
                 Transact(c, h, arg)
          PROVE  PassingInv'
      BY <2>1, TransactKeeps
    <2>2. ASSUME NEW m \in requests, OnTransaction(m) PROVE PassingInv'
      BY <2>2, OnTransactionKeeps
    <2>3. ASSUME NEW m \in posted, NEW answer \in Writable(m.to), Execute(m, answer)
          PROVE  PassingInv'
      BY <2>3, ExecuteKeeps
    <2>4. ASSUME NEW m \in posted, ExecuteBaseCode(m) PROVE PassingInv'
      BY <2>4, ExecuteBaseCodeKeeps
    <2>5. ASSUME NEW m \in replies, Return(m) PROVE PassingInv'
      BY <2>5, ReturnKeeps
    <2>6. ASSUME NEW o \in Objects, AddRef(OwnerOf[o], o) \/ Release(OwnerOf[o], o)
          PROVE  PassingInv'
      <3>1. OwnerOf[o] \in Clients
        BY PassingAssumption
      <3> QED
        BY <2>6, <3>1, CountsKeep
    <2>7. CASE UNCHANGED vars
      <3>1. ShapeOK' /\ PoolsOK' /\ RightObject' /\ ReceivedIsMeant'
        BY <2>7 DEF vars, PassingInv, ShapeOK, PoolsOK, RightObject, ReceivedIsMeant
      <3>2. UNCHANGED <<objects_, exported, held, requests, posted, replies>>
        BY <2>7 DEF vars
      <3>3. TablesOK' /\ ExportsOK' /\ RequestsOK' /\ PostsOK' /\ RepliesOK' /\ HeldOK'
        BY <3>1, <3>2, SameTables
      <3> QED
        BY <3>1, <3>3 DEF PassingInv
    <2> QED
      BY <2>1, <2>2, <2>3, <2>4, <2>5, <2>6, <2>7 DEF Next
  <1> QED
    BY <1>1, <1>2, PTL DEF Spec

(* A table without repetitions has at most as many ids as the client has   *)
(* objects.                                                                *)
LEMMA TablesAreShort ==
  ASSUME ShapeOK, TablesOK, NEW c \in Clients
  PROVE  /\ Len(objects_[c]) <= Cardinality(Own(c))
         /\ Cardinality(Own(c)) <= Cardinality(Objects)
         /\ Len(objects_[c]) \in Nat /\ Cardinality(Own(c)) \in Nat
         /\ Cardinality(Objects) \in Nat
  <1> DEFINE table == objects_[c]
             n == Len(table)
  <1>1. table \in Seq(Objects) /\ n \in Nat /\ DOMAIN table = 1 .. n
    BY DEF ShapeOK
  <1>2. Own(c) \in SUBSET Objects
    BY DEF Own
  <1>3. IsFiniteSet(Objects) /\ IsFiniteSet(Own(c))
        /\ Cardinality(Own(c)) <= Cardinality(Objects)
    BY <1>2, FS_Subset, PassingAssumption
  <1>4. table \in [1 .. n -> Own(c)]
    BY <1>1 DEF TablesOK
  <1>5. table \in Injection(1 .. n, Own(c))
    BY <1>1, <1>4 DEF TablesOK, Injection, IsInjective
  <1>6. Cardinality(1 .. n) <= Cardinality(Own(c))
    BY <1>3, <1>5, FS_Injection
  <1> HIDE DEF n
  <1>7. Cardinality(1 .. n) = n
    BY <1>1, FS_Interval
  <1>8. Cardinality(Own(c)) \in Nat /\ Cardinality(Objects) \in Nat
    BY <1>3, FS_CardinalityType
  <1> QED
    BY <1>1, <1>3, <1>6, <1>7, <1>8 DEF n

(***************************************************************************)
(* Pools, tables, proxies and exports have their types: a client has at    *)
(* most one id for each of its objects (TranslateOrAddObject), and the     *)
(* server stores ids, never addresses, whatever AddRef and Release do.     *)
(***************************************************************************)
THEOREM PassingTypes == Spec => []TypeOK
  <1>1. PassingInv => TypeOK
    <2> SUFFICES ASSUME PassingInv PROVE TypeOK
      OBVIOUS
    <2> USE DEF PassingInv
    <2>1. ASSUME NEW c \in Clients
          PROVE  /\ DOMAIN references_[c] \subseteq Own(c)
                 /\ \A o \in DOMAIN references_[c] : references_[c][o] \in 0 .. CountMod - 1
                 /\ objects_[c] \in Seq(Own(c)) /\ Len(objects_[c]) <= Cardinality(Own(c))
                 /\ held[c] \subseteq 0 .. Len(exported)
      <3>1. objects_[c] \in Seq(Objects) /\ \A i \in DOMAIN objects_[c] : objects_[c][i] \in Own(c)
        BY DEF ShapeOK, TablesOK
      <3>2. objects_[c] \in Seq(Own(c))
        BY <3>1
      <3> QED
        BY <3>2, TablesAreShort DEF PoolsOK, HeldOK
    <2>2. exported \in Seq([owner : Clients, cookie : 1 .. Cardinality(Objects),
                            object : Objects])
      <3> DEFINE Small == [owner : Clients, cookie : 1 .. Cardinality(Objects),
                           object : Objects]
                 Any == [owner : Clients, cookie : Nat, object : Objects]
      <3>1. exported \in Seq(Any)
        BY DEF ShapeOK
      <3>2. ASSUME NEW h \in DOMAIN exported
            PROVE  exported[h] \in Small
        <4> DEFINE e == exported[h]
        <4>1. e \in Any
          <5> HIDE DEF Any
          <5> QED
            BY <3>1
        <4>2. e.cookie \in DOMAIN objects_[e.owner] /\ e.owner \in Clients
          BY DEF ExportsOK, ExportOK
        <4> HIDE DEF e
        <4>3. objects_[e.owner] \in Seq(Objects)
          BY <4>2 DEF ShapeOK
        <4>4. e.cookie \in 1 .. Len(objects_[e.owner])
          BY <4>2, <4>3
        <4>5. e.cookie \in 1 .. Cardinality(Objects)
          BY <4>2, <4>4, TablesAreShort
        <4>6. e \in Small
          BY <4>1, <4>5
        <4> QED
          BY <4>6 DEF e
      <3> HIDE DEF Small
      <3>3. exported \in Seq(Small)
        BY <3>1, <3>2
      <3> QED
        BY <3>3 DEF Small
    <2> QED
      BY <2>1, <2>2 DEF TypeOK
  <1> QED
    BY <1>1, PassingInvariant, PTL

(***************************************************************************)
(* A transaction reaches the object its caller meant, or none: for any     *)
(* clients, objects and interleaving, the handle, the id of the export,    *)
(* the table of the owner and its pool lead back to it (OnTransaction,     *)
(* TranslateCookie, GetObject), although the tables grow meanwhile.  What  *)
(* is meant for an object of the context manager reaches the context       *)
(* object instead (OnNewMessage), and nothing else does.                   *)
(***************************************************************************)
THEOREM TransactionsReachTheirObject == Spec => []RightObject
  <1>1. PassingInv => RightObject
    BY DEF PassingInv
  <1> QED
    BY <1>1, PassingInvariant, PTL

(***************************************************************************)
(* An object that is passed in a request, or a proxy that is passed in a   *)
(* reply, is read as that object or as none (WriteObject, both             *)
(* TranslateObjects of the server, ReadObject).                            *)
(***************************************************************************)
THEOREM ReferencesArriveAsMeant == Spec => []ReceivedIsMeant
  <1>1. PassingInv => ReceivedIsMeant
    BY DEF PassingInv
  <1> QED
    BY <1>1, PassingInvariant, PTL
=============================================================================

------------------------ MODULE ServiceManagerProofs ------------------------
(***************************************************************************)
(* Proofs about ServiceManager, for any names, any number of services and  *)
(* calls and any pool.                                                     *)
(*                                                                         *)
(* The argument: a handle is never used again, so that a handle that is    *)
(* not alive stays so, and the manager's registrations and DeadBinder      *)
(* messages name proxies of the handle they are about.  A listing that saw *)
(* no change of the map holds the names of the entries it has passed.      *)
(***************************************************************************)
EXTENDS ServiceManager, FunctionTheorems, FiniteSetTheorems, SequenceTheorems,
        WellFoundedInduction, TLAPS

AnyName == Names \cup {Idle.name}
Entry == [name : AnyName, proxy : Nat]
Proxy == [handle : Nat, linked : BOOLEAN, sent : BOOLEAN]
Place == [pc : {"idle", "acquire", "insert", "release", "request", "linked"},
          name : AnyName, proxy : Nat]

Types ==
  /\ started \in 0 .. MaxServices
  /\ alive \subseteq 1 .. started /\ known \subseteq 1 .. started
  /\ \A r \in adds : r.name \in Names /\ r.handle \in 1 .. started
  /\ at \in [Threads -> Place]
  /\ proxies \in Seq(Proxy)
  /\ references_ \in [Handles -> Int]
  /\ death_notifications_ \in [Handles -> Nat]
  /\ in_messages_ \in Seq(Nat)
  /\ services_ \in Seq(Entry)
  /\ listing \in [n : Nat, names : Seq(AnyName), changed : BOOLEAN, done : BOOLEAN]

(* A proxy is one of a service that was started.                           *)
ProxiesInv == \A p \in DOMAIN proxies : proxies[p].handle \in 1 .. started

(* A thread in AddService has a proxy.                                     *)
PlacesInv == \A x \in Threads : at[x].pc # "idle" => at[x].proxy \in DOMAIN proxies

(* The server has a proxy of the handle registered for the handle.         *)
RegisteredInv ==
  \A h \in Handles : death_notifications_[h] # 0 =>
    /\ death_notifications_[h] \in DOMAIN proxies
    /\ proxies[death_notifications_[h]].handle = h

(* A DeadBinder message is about a service that has ended.                 *)
MessagesInv ==
  \A i \in DOMAIN in_messages_ :
    /\ in_messages_[i] \in DOMAIN proxies
    /\ proxies[in_messages_[i]].handle \notin alive

(* An entry of the map has a proxy.                                        *)
EntriesInv == \A i \in DOMAIN services_ : services_[i].proxy \in DOMAIN proxies

(* A listing that saw no change has the names of the first n entries.      *)
ListingInv ==
  (~listing.done /\ ~listing.changed) =>
    /\ listing.n <= Len(services_)
    /\ Len(listing.names) = listing.n
    /\ \A i \in 1 .. listing.n : listing.names[i] = services_[i].name

(* The inductive invariant.                                                *)
ManagerInv ==
  /\ Types /\ ProxiesInv /\ PlacesInv /\ RegisteredInv /\ MessagesInv
  /\ EntriesInv /\ ListingInv

-----------------------------------------------------------------------------
(* A set of numbers that is not empty has a least one.                     *)
LEMMA MinIsMember ==
  ASSUME NEW S \in SUBSET Nat, S # {}
  PROVE  Min(S) \in S
  <1> DEFINE R == OpToRel(<, Nat)
  <1>1. IsWellFoundedOn(R, Nat)
    BY NatLessThanWellFounded
  <1> HIDE DEF R
  <1>2. PICK x \in S : \A y \in S : ~ (<<y, x>> \in R)
    BY <1>1, WFMin
  <1>3. \A y \in S : x <= y
    <2> TAKE y \in S
    <2>1. x \in Nat /\ y \in Nat
      OBVIOUS
    <2>2. y < x => <<y, x>> \in R
      BY <2>1 DEF R, OpToRel
    <2> QED
      BY <1>2, <2>1, <2>2
  <1> QED
    BY <1>3 DEF Min

(* Erasing one entry keeps the others.                                     *)
LEMMA RemoveAtKeepsOthers ==
  ASSUME NEW S, NEW s \in Seq(S), NEW k \in 1 .. Len(s)
  PROVE  /\ RemoveAt(s, k) \in Seq(S)
         /\ \A i \in DOMAIN s : s[i] \in Range(RemoveAt(s, k)) \/ i = k
         /\ \A i \in DOMAIN RemoveAt(s, k) : RemoveAt(s, k)[i] \in Range(s)
  <1> DEFINE a == SubSeq(s, 1, k - 1)
             b == SubSeq(s, k + 1, Len(s))
             t == a \o b
  <1>1. Len(s) \in Nat /\ k \in Nat /\ 1 <= k /\ k <= Len(s)
    OBVIOUS
  <1>2. /\ a \in Seq(S) /\ Len(a) = k - 1
        /\ \A i \in 1 .. k - 1 : a[i] = s[i]
    BY <1>1
  <1>3. /\ b \in Seq(S) /\ Len(b) = Len(s) - k
        /\ \A i \in 1 .. Len(s) - k : b[i] = s[i + k]
    BY <1>1
  <1> HIDE DEF a, b
  <1>4. /\ t \in Seq(S) /\ Len(t) = Len(s) - 1
        /\ \A i \in 1 .. k - 1 : t[i] = a[i]
        /\ \A i \in k .. Len(s) - 1 : t[i] = b[i - (k - 1)]
    <2>1. /\ t \in Seq(S) /\ Len(t) = Len(a) + Len(b)
          /\ \A i \in 1 .. Len(a) + Len(b) :
               t[i] = IF i <= Len(a) THEN a[i] ELSE b[i - Len(a)]
      BY <1>2, <1>3, ConcatProperties
    <2> HIDE DEF t
    <2>2. Len(t) = Len(s) - 1
      BY <1>1, <1>2, <1>3, <2>1
    <2>3. ASSUME NEW i \in 1 .. k - 1 PROVE t[i] = a[i]
      BY <1>1, <1>2, <1>3, <2>1
    <2>4. ASSUME NEW i \in k .. Len(s) - 1 PROVE t[i] = b[i - (k - 1)]
      <3>1. i \in 1 .. Len(a) + Len(b) /\ ~ i <= Len(a)
        BY <1>1, <1>2, <1>3
      <3> QED
        BY <1>2, <2>1, <3>1
    <2> QED
      BY <2>1, <2>2, <2>3, <2>4
  <1>5. RemoveAt(s, k) = t
    BY DEF RemoveAt, a, b
  <1> HIDE DEF t
  <1>6. ASSUME NEW i \in DOMAIN s, i # k
        PROVE  s[i] \in Range(t)
    <2>1. CASE i < k
      <3>1. i \in DOMAIN t /\ t[i] = s[i]
        BY <1>1, <1>2, <1>4, <2>1
      <3> QED
        BY <3>1 DEF Range
    <2>2. CASE i > k
      <3>1. i - 1 \in DOMAIN t /\ t[i - 1] = b[i - k]
        BY <1>1, <1>4, <2>2
      <3>2. b[i - k] = s[i]
        BY <1>1, <1>3, <2>2
      <3> QED
        BY <3>1, <3>2 DEF Range
    <2> QED
      BY <1>1, <1>6, <2>1, <2>2
  <1>7. ASSUME NEW i \in DOMAIN t
        PROVE  t[i] \in Range(s)
    <2>1. i \in 1 .. Len(s) - 1
      BY <1>1, <1>4
    <2>2. CASE i < k
      <3>1. i \in DOMAIN s /\ t[i] = s[i]
        BY <1>1, <1>2, <1>4, <2>1, <2>2
      <3> QED
        BY <3>1 DEF Range
    <2>3. CASE ~ i < k
      <3>1. i + 1 \in DOMAIN s /\ t[i] = b[i - (k - 1)]
        BY <1>1, <1>4, <2>1, <2>3
      <3>2. b[i - (k - 1)] = s[i + 1]
        BY <1>1, <1>3, <2>1, <2>3
      <3> QED
        BY <3>1, <3>2 DEF Range
    <2> QED
      BY <2>2, <2>3
  <1> QED
    BY <1>4, <1>5, <1>6, <1>7

(* OnObjectDied erases nothing but an entry of the object that died.       *)
LEMMA OnObjectDiedErases ==
  ASSUME services_ \in Seq(Entry), NEW p
  PROVE  /\ OnObjectDied(p) \in Seq(Entry)
         /\ \A e \in Entries : e \in Range(OnObjectDied(p)) \/ e.proxy = p
         /\ \A i \in DOMAIN OnObjectDied(p) : OnObjectDied(p)[i] \in Entries
  <1> DEFINE I == {i \in 1 .. Len(services_) : services_[i].proxy = p}
             k == Min(I)
  <1>1. CASE \E i \in 1 .. Len(services_) : services_[i].proxy = p
    <2>1. I # {} /\ I \in SUBSET Nat
      BY <1>1
    <2>2. k \in I
      <3> HIDE DEF I
      <3> QED
        BY <2>1, MinIsMember
    <2>3. OnObjectDied(p) = RemoveAt(services_, k)
      BY <1>1, <2>1 DEF OnObjectDied, RemoveFirstMatch, SelectInSeq
    <2>4. k \in 1 .. Len(services_) /\ services_[k].proxy = p
      BY <2>2
    <2> HIDE DEF k
    <2>5. /\ RemoveAt(services_, k) \in Seq(Entry)
          /\ \A i \in DOMAIN services_ :
               services_[i] \in Range(RemoveAt(services_, k)) \/ i = k
          /\ \A i \in DOMAIN RemoveAt(services_, k) :
               RemoveAt(services_, k)[i] \in Range(services_)
      <3> HIDE DEF Entry
      <3> QED
        BY <2>4, RemoveAtKeepsOthers
    <2> QED
      BY <2>3, <2>4, <2>5 DEF Entries, Range
  <1>2. CASE ~ \E i \in 1 .. Len(services_) : services_[i].proxy = p
    BY <1>2 DEF OnObjectDied, RemoveFirstMatch, Entries, Range
  <1> QED
    BY <1>1, <1>2

(* A sequence of all elements of a set has them all.                       *)
LEMMA SetToSeqsHasAll ==
  ASSUME NEW T, NEW S \in SUBSET T, IsFiniteSet(S), NEW s \in SetToSeqs(S)
  PROVE  s \in Seq(T) /\ Range(s) = S
  <1> DEFINE n == Cardinality(S)
  <1>1. n \in Nat
    BY FS_CardinalityType
  <1>2. s \in [1 .. n -> S] /\ \A i, j \in 1 .. n : i # j => s[i] # s[j]
    BY DEF SetToSeqs
  <1>3. s \in Injection(1 .. n, S)
    BY <1>2 DEF Injection, IsInjective
  <1>4. Cardinality(1 .. n) = n
    <2> HIDE DEF n
    <2> QED
      BY <1>1, FS_Interval
  <1>5. s \in Surjection(1 .. n, S)
    BY <1>3, <1>4, FS_Injection
  <1>6. s \in Seq(T)
    <2> HIDE DEF n
    <2> QED
      BY <1>1, <1>2
  <1> QED
    BY <1>2, <1>5, <1>6 DEF Surjection, Range

(* The map has finitely many entries.                                      *)
LEMMA EntriesAreFinite ==
  ASSUME NEW s \in Seq(Entry)
  PROVE  IsFiniteSet(Range(s)) /\ Range(s) \subseteq Entry
  <1> HIDE DEF Entry
  <1> DEFINE n == Len(s)
  <1>1. n \in Nat /\ DOMAIN s = 1 .. n /\ \A i \in 1 .. n : s[i] \in Entry
    OBVIOUS
  <1> HIDE DEF n
  <1>2. s \in Surjection(1 .. n, Range(s))
    BY <1>1 DEF Surjection, Range
  <1>3. IsFiniteSet(1 .. n)
    BY <1>1, FS_Interval
  <1> QED
    BY <1>1, <1>2, <1>3, FS_Surjection DEF Range

-----------------------------------------------------------------------------
(* Steps that change none of the invariant's variables.                    *)
LEMMA SameKeeps ==
  ASSUME ManagerInv, UNCHANGED <<client_vars, server_vars, in_messages_, known, adds, listing>>
  PROVE  ManagerInv'
  <1>1. UNCHANGED <<services_, at, proxies, started, alive, references_,
                    death_notifications_, in_messages_, known, adds, listing>>
    BY DEF client_vars, server_vars
  <1> QED
    BY <1>1 DEF ManagerInv, Types, ProxiesInv, PlacesInv, RegisteredInv, MessagesInv, EntriesInv, ListingInv

(* AddService of a process: the handle is that of a service.               *)
LEMMA RequestAddKeeps ==
  ASSUME NEW name \in Names, NEW h \in 1 .. started', RequestAdd(name, h), Types,
         started <= started', started' \in Nat
  PROVE  \A r \in adds' : r.name \in Names /\ r.handle \in 1 .. started'
  <1>1. PICK early \in {FALSE, manager = "role"} :
          adds' = adds \cup {[name |-> name, handle |-> h, early |-> early]}
    BY DEF RequestAdd
  <1>2. started \in Nat
    BY ManagerAssumption DEF Types
  <1>3. \A i \in 1 .. started : i \in 1 .. started'
    BY <1>2
  <1> QED
    BY <1>1, <1>3 DEF Types

(* The server gives a service that starts a handle that no proxy has.      *)
LEMMA StartServiceKeeps ==
  ASSUME ManagerInv, NEW name \in Names, StartService(name)
  PROVE  ManagerInv'
  <1> USE DEF ManagerInv
  <1>1. /\ started < MaxServices /\ started' = started + 1
        /\ alive' = alive \cup {started'}
        /\ RequestAdd(name, started')
        /\ UNCHANGED <<services_, at, proxies, known, in_messages_, references_,
                       death_notifications_, listing>>
    BY DEF StartService, client_vars
  <1>2. started \in Nat /\ started' \in 0 .. MaxServices /\ started <= started'
        /\ started' \in 1 .. started' /\ started' \notin 1 .. started /\ started' \in Nat
        /\ \A i \in 1 .. started : i \in 1 .. started'
    BY <1>1, ManagerAssumption DEF Types
  <1>3. \A r \in adds' : r.name \in Names /\ r.handle \in 1 .. started'
    BY <1>1, <1>2, RequestAddKeeps
  <1>4. Types'
    BY <1>1, <1>2, <1>3 DEF Types
  <1>5. ProxiesInv' /\ PlacesInv' /\ RegisteredInv' /\ EntriesInv' /\ ListingInv'
    BY <1>1, <1>2 DEF ProxiesInv, PlacesInv, RegisteredInv, EntriesInv, ListingInv
  <1>6. MessagesInv'
    BY <1>1, <1>2 DEF ProxiesInv, MessagesInv
  <1> QED
    BY <1>4, <1>5, <1>6

(* AddService with an object that came from GetService.                    *)
LEMMA AddAgainKeeps ==
  ASSUME ManagerInv, NEW name \in Names, NEW h \in known, AddAgain(name, h)
  PROVE  ManagerInv'
  <1> USE DEF ManagerInv
  <1>1. /\ RequestAdd(name, h)
        /\ UNCHANGED <<services_, at, proxies, started, alive, references_,
                       death_notifications_, in_messages_, known, listing>>
    BY DEF AddAgain, client_vars, server_vars
  <1>2. h \in 1 .. started' /\ started <= started' /\ started' \in Nat
    BY <1>1, ManagerAssumption DEF Types
  <1>3. \A r \in adds' : r.name \in Names /\ r.handle \in 1 .. started'
    BY <1>1, <1>2, RequestAddKeeps
  <1>4. Types'
    BY <1>1, <1>3 DEF Types
  <1>5. ProxiesInv' /\ PlacesInv' /\ RegisteredInv' /\ EntriesInv' /\ ListingInv' /\ MessagesInv'
    BY <1>1 DEF ProxiesInv, PlacesInv, RegisteredInv, EntriesInv, ListingInv, MessagesInv
  <1> QED
    BY <1>4, <1>5

(* A sequence of one value, as often as is asked for.                      *)
LEMMA SameValues ==
  ASSUME NEW S, NEW v \in S, NEW n \in Int
  PROVE  [i \in 1 .. n |-> v] \in Seq(S)
  <1>1. CASE n \in Nat
    BY <1>1
  <1>2. CASE n \notin Nat
    <2>1. 1 .. n = 1 .. 0
      BY <1>2
    <2>2. [i \in 1 .. 0 |-> v] \in Seq(S)
      OBVIOUS
    <2> QED
      BY <2>1, <2>2
  <1> QED
    BY <1>1, <1>2

(* RemoveHandle of the server: the messages it posts are about the service *)
(* that ends.                                                              *)
LEMMA ServiceEndsKeeps ==
  ASSUME ManagerInv, NEW h \in alive, ServiceEnds(h)
  PROVE  ManagerInv'
  <1> USE DEF ManagerInv
  <1> DEFINE p == death_notifications_[h]
             more == IF p = 0 THEN << >> ELSE [i \in 1 .. references_[h] |-> p]
  <1>1. /\ alive' = alive \ {h}
        /\ in_messages_' = in_messages_ \o more
        /\ references_' = [references_ EXCEPT ![h] = 0]
        /\ UNCHANGED <<services_, at, proxies, started, death_notifications_, known,
                       adds, listing>>
    BY DEF ServiceEnds, client_vars
  <1>2. h \in Handles
    BY ManagerAssumption DEF Types, Handles
  <1>3. p \in Nat /\ references_[h] \in Int
    BY <1>2 DEF Types
  <1>4. p # 0 => p \in DOMAIN proxies /\ proxies[p].handle = h
    BY <1>2 DEF RegisteredInv
  <1>5. more \in Seq(Nat) /\ \A i \in DOMAIN more : more[i] = p /\ p # 0
    <2>1. CASE p = 0
      BY <2>1
    <2>2. CASE p # 0
      <3>1. more = [i \in 1 .. references_[h] |-> p]
        BY <2>2
      <3>2. [i \in 1 .. references_[h] |-> p] \in Seq(Nat)
        BY <1>3, SameValues
      <3> HIDE DEF p
      <3> QED
        BY <2>2, <3>1, <3>2
    <2> QED
      BY <2>1, <2>2
  <1> HIDE DEF p, more
  <1>6. in_messages_ \in Seq(Nat)
    BY DEF Types
  <1>7. /\ in_messages_' \in Seq(Nat)
        /\ Len(in_messages_') = Len(in_messages_) + Len(more)
        /\ \A i \in 1 .. Len(in_messages_) + Len(more) :
             in_messages_'[i] = IF i <= Len(in_messages_) THEN in_messages_[i]
                                ELSE more[i - Len(in_messages_)]
    BY <1>1, <1>5, <1>6, ConcatProperties
  <1>8. ASSUME NEW i \in DOMAIN in_messages_'
        PROVE  \/ in_messages_'[i] = p /\ p # 0
               \/ \E j \in DOMAIN in_messages_ : in_messages_'[i] = in_messages_[j]
    <2>1. i \in 1 .. Len(in_messages_) + Len(more) /\ Len(in_messages_) \in Nat /\ Len(more) \in Nat
      BY <1>5, <1>6, <1>7
    <2>2. CASE i <= Len(in_messages_)
      <3>1. i \in DOMAIN in_messages_ /\ in_messages_'[i] = in_messages_[i]
        BY <1>6, <1>7, <2>1, <2>2
      <3> QED
        BY <3>1
    <2>3. CASE ~ i <= Len(in_messages_)
      <3>1. i - Len(in_messages_) \in DOMAIN more
        BY <1>5, <2>1, <2>3
      <3> QED
        BY <1>5, <1>7, <2>1, <2>3, <3>1
    <2> QED
      BY <2>2, <2>3
  <1>9. references_' \in [Handles -> Int]
    BY <1>1, <1>2 DEF Types
  <1>10. Types'
    BY <1>1, <1>7, <1>9 DEF Types
  <1>11. ProxiesInv' /\ PlacesInv' /\ RegisteredInv' /\ EntriesInv' /\ ListingInv'
    BY <1>1 DEF ProxiesInv, PlacesInv, RegisteredInv, EntriesInv, ListingInv
  <1>12. MessagesInv'
    BY <1>1, <1>4, <1>8 DEF MessagesInv
  <1> QED
    BY <1>10, <1>11, <1>12

-----------------------------------------------------------------------------
(* Steps of a thread of the manager that only move it on: they leave the   *)
(* map, the proxies and the messages alone.                                *)
LEMMA MoveKeeps ==
  ASSUME ManagerInv, NEW x \in Threads, NEW to \in Place,
         at' = [at EXCEPT ![x] = to],
         to.pc # "idle" => to.proxy \in DOMAIN proxies,
         references_' \in [Handles -> Int],
         UNCHANGED <<services_, proxies, started, alive, death_notifications_,
                     in_messages_, known, adds, listing>>
  PROVE  ManagerInv'
  <1> USE DEF ManagerInv
  <1>1. /\ at' \in [Threads -> Place]
        /\ \A y \in Threads : at'[y] = IF y = x THEN to ELSE at[y]
    BY DEF Types
  <1>2. Types'
    BY <1>1 DEF Types
  <1>3. PlacesInv'
    BY <1>1 DEF PlacesInv
  <1>4. ProxiesInv' /\ RegisteredInv' /\ EntriesInv' /\ ListingInv' /\ MessagesInv'
    BY DEF ProxiesInv, RegisteredInv, EntriesInv, ListingInv, MessagesInv
  <1> QED
    BY <1>2, <1>3, <1>4

(* Where a thread goes when it is done, and when only its place changes.   *)
LEMMA PlacesAre ==
  ASSUME Types, NEW x \in Threads,
         NEW pc \in {"idle", "acquire", "insert", "release", "request", "linked"}
  PROVE  /\ Idle \in Place /\ Idle.pc = "idle"
         /\ [at[x] EXCEPT !.pc = pc] \in Place
         /\ [at[x] EXCEPT !.pc = pc].pc = pc
         /\ [at[x] EXCEPT !.pc = pc].proxy = at[x].proxy
  <1>1. at[x] \in Place
    BY DEF Types
  <1>2. Idle \in Place /\ Idle.pc = "idle"
    BY DEF Idle, Place, AnyName
  <1>3. [at[x] EXCEPT !.pc = pc] \in Place
    BY <1>1 DEF Place
  <1>4. [at[x] EXCEPT !.pc = pc].pc = pc /\ [at[x] EXCEPT !.pc = pc].proxy = at[x].proxy
    BY <1>1 DEF Place
  <1> QED
    BY <1>2, <1>3, <1>4

(* ReadObject creates a proxy of the handle in the request.                *)
LEMMA ReadObjectKeeps ==
  ASSUME ManagerInv, NEW x \in Threads, NEW r \in adds, ReadObject(x, r)
  PROVE  ManagerInv'
  <1> USE DEF ManagerInv
  <1> DEFINE p == [handle |-> r.handle, linked |-> FALSE, sent |-> FALSE]
             to == [pc |-> "acquire", name |-> r.name, proxy |-> Len(proxies')]
  <1>1. /\ adds' = adds \ {r}
        /\ proxies' = Append(proxies, p)
        /\ at' = [at EXCEPT ![x] = to]
        /\ UNCHANGED <<services_, started, alive, references_, death_notifications_,
                       in_messages_, known, listing>>
    BY DEF ReadObject, server_vars
  <1>2. /\ r.name \in Names /\ r.handle \in 1 .. started
        /\ started \in Nat
        /\ proxies \in Seq(Proxy) /\ Len(proxies) \in Nat
    BY ManagerAssumption DEF Types
  <1>3. p \in Proxy /\ p.handle = r.handle
    BY <1>2 DEF Proxy
  <1> HIDE DEF p
  <1>4. /\ proxies' \in Seq(Proxy) /\ Len(proxies') = Len(proxies) + 1
        /\ proxies'[Len(proxies) + 1] = p
        /\ \A i \in 1 .. Len(proxies) : proxies'[i] = proxies[i]
    <2> HIDE DEF Proxy
    <2> QED
      BY <1>1, <1>2, <1>3
  <1>5. /\ DOMAIN proxies = 1 .. Len(proxies) /\ DOMAIN proxies' = 1 .. Len(proxies) + 1
        /\ \A i \in DOMAIN proxies : i \in DOMAIN proxies' /\ proxies'[i] = proxies[i]
        /\ \A i \in DOMAIN proxies' : i \in DOMAIN proxies \/ i = Len(proxies) + 1
        /\ Len(proxies') \in DOMAIN proxies' /\ Len(proxies') \in Nat
    BY <1>2, <1>4
  <1>6. to \in Place /\ to.proxy = Len(proxies')
    BY <1>2, <1>5 DEF Place, AnyName
  <1> HIDE DEF to
  <1>7. /\ at' \in [Threads -> Place]
        /\ \A y \in Threads : at'[y] = IF y = x THEN to ELSE at[y]
    BY <1>1, <1>6 DEF Types
  <1>8. Types'
    BY <1>1, <1>4, <1>7 DEF Types
  <1>9. ProxiesInv'
    BY <1>1, <1>2, <1>3, <1>4, <1>5 DEF ProxiesInv
  <1>10. PlacesInv'
    BY <1>5, <1>6, <1>7 DEF PlacesInv
  <1>11. RegisteredInv' /\ MessagesInv' /\ EntriesInv' /\ ListingInv'
    BY <1>1, <1>5 DEF RegisteredInv, MessagesInv, EntriesInv, ListingInv
  <1> QED
    BY <1>8, <1>9, <1>10, <1>11

(* AddReference and ReleaseReference of the proxy.                         *)
LEMMA CountingKeeps ==
  ASSUME ManagerInv, NEW x \in Threads, AddReference(x) \/ ReleaseReference(x)
  PROVE  ManagerInv'
  <1> USE DEF ManagerInv
  <1> DEFINE h == proxies[at[x].proxy].handle
  <1>1. at[x].pc \in {"acquire", "release"}
    BY DEF AddReference, ReleaseReference
  <1>2. at[x].proxy \in DOMAIN proxies
    BY <1>1 DEF PlacesInv
  <1>3. h \in Handles
    BY <1>2, ManagerAssumption DEF ProxiesInv, Types, Handles
  <1>4. references_[h] \in Int
    BY <1>3 DEF Types
  <1>5. /\ \/ references_' = references_
           \/ references_' = [references_ EXCEPT ![h] = @ + 1]
           \/ references_' = [references_ EXCEPT ![h] = @ - 1]
        /\ UNCHANGED <<services_, proxies, started, alive, death_notifications_,
                       in_messages_, known, adds, listing>>
    BY DEF AddReference, ReleaseReference
  <1> HIDE DEF h
  <1>6. references_' \in [Handles -> Int]
    BY <1>3, <1>4, <1>5 DEF Types
  <1>7. CASE AddReference(x)
    <2> DEFINE to == [at[x] EXCEPT !.pc = "insert"]
    <2>1. at' = [at EXCEPT ![x] = to]
      BY <1>7 DEF AddReference
    <2>2. to \in Place /\ to.proxy = at[x].proxy
      BY PlacesAre
    <2> HIDE DEF to
    <2> QED
      BY <1>2, <1>5, <1>6, <2>1, <2>2, MoveKeeps
  <1>8. CASE ReleaseReference(x)
    <2>1. at' = [at EXCEPT ![x] = Idle]
      BY <1>8 DEF ReleaseReference
    <2>2. Idle \in Place /\ Idle.pc = "idle"
      BY PlacesAre
    <2> QED
      BY <1>5, <1>6, <2>1, <2>2, MoveKeeps
  <1> QED
    BY <1>7, <1>8

(* The server registers the proxy of a thread for the handle of the proxy. *)
LEMMA RequestDeathNotificationKeeps ==
  ASSUME ManagerInv, NEW x \in Threads, RequestDeathNotification(x)
  PROVE  ManagerInv'
  <1> USE DEF ManagerInv
  <1> DEFINE p == at[x].proxy
             h == proxies[p].handle
             to == [at[x] EXCEPT !.pc = "linked"]
  <1>1. /\ at[x].pc = "request"
        /\ UNCHANGED <<services_, proxies, in_messages_, known, adds, started, alive,
                       references_, listing>>
        /\ \/ /\ death_notifications_' = [death_notifications_ EXCEPT ![h] = p]
              /\ at' = [at EXCEPT ![x] = to]
           \/ at' = [at EXCEPT ![x] = Idle] /\ UNCHANGED death_notifications_
    BY DEF RequestDeathNotification
  <1>2. p \in DOMAIN proxies /\ p \in Nat
    BY <1>1 DEF PlacesInv, Types
  <1>3. h \in Handles
    BY <1>2, ManagerAssumption DEF ProxiesInv, Types, Handles
  <1>4. to \in Place /\ to.proxy = p /\ Idle \in Place /\ Idle.pc = "idle"
    BY PlacesAre
  <1> HIDE DEF to
  <1>5. CASE at' = [at EXCEPT ![x] = Idle] /\ UNCHANGED death_notifications_
    <2>1. references_' \in [Handles -> Int]
      BY <1>1 DEF Types
    <2> QED
      BY <1>1, <1>4, <1>5, <2>1, MoveKeeps
  <1>6. CASE /\ death_notifications_' = [death_notifications_ EXCEPT ![h] = p]
             /\ at' = [at EXCEPT ![x] = to]
    <2>1. /\ at' \in [Threads -> Place]
          /\ \A y \in Threads : at'[y] = IF y = x THEN to ELSE at[y]
      BY <1>4, <1>6 DEF Types
    <2>2. /\ death_notifications_' \in [Handles -> Nat]
          /\ \A k \in Handles :
               death_notifications_'[k] = IF k = h THEN p ELSE death_notifications_[k]
      BY <1>2, <1>3, <1>6 DEF Types
    <2>3. h = proxies[p].handle
      OBVIOUS
    <2> HIDE DEF p, h
    <2>4. Types'
      BY <1>1, <2>1, <2>2 DEF Types
    <2>5. PlacesInv'
      BY <1>1, <1>2, <1>4, <2>1 DEF PlacesInv
    <2>6. RegisteredInv'
      BY <1>1, <1>2, <2>2, <2>3 DEF RegisteredInv
    <2>7. ProxiesInv' /\ EntriesInv' /\ ListingInv' /\ MessagesInv'
      BY <1>1 DEF ProxiesInv, EntriesInv, ListingInv, MessagesInv
    <2> QED
      BY <2>4, <2>5, <2>6, <2>7
  <1> QED
    BY <1>1, <1>5, <1>6

(* An insertion into the map keeps its entries, whatever it does to their  *)
(* order.                                                                  *)
LEMMA InsertionAdds ==
  ASSUME Types, NEW e \in Entry, services_' \in SetToSeqs(Entries \cup {e})
  PROVE  services_' \in Seq(Entry) /\ Range(services_') = Entries \cup {e}
  <1>1. IsFiniteSet(Entries) /\ Entries \subseteq Entry
    BY EntriesAreFinite DEF Types, Entries
  <1>2. IsFiniteSet(Entries \cup {e})
    BY <1>1, FS_AddElement
  <1>3. Entries \cup {e} \in SUBSET Entry
    BY <1>1
  <1> QED
    BY <1>2, <1>3, SetToSeqsHasAll

(* A change of the map is noted in a listing under way.                    *)
LEMMA ChangedNotes ==
  ASSUME Types, Changed
  PROVE  /\ listing' \in [n : Nat, names : Seq(AnyName), changed : BOOLEAN, done : BOOLEAN]
         /\ listing'.done = listing.done
         /\ listing'.changed = ~listing.done
  <1> DEFINE L == [n : Nat, names : Seq(AnyName), changed : BOOLEAN, done : BOOLEAN]
  <1>1. listing \in L /\ listing' = [listing EXCEPT !.changed = ~listing.done]
    BY DEF Types, Changed
  <1>2. (~listing.done) \in BOOLEAN
    OBVIOUS
  <1>3. listing'.done = listing.done /\ listing'.changed = ~listing.done
    BY <1>1
  <1>4. listing' \in L
    BY <1>1, <1>2
  <1> QED
    BY <1>3, <1>4

(* AddService of the manager: a known name is refused.                     *)
LEMMA AddServiceKeeps ==
  ASSUME ManagerInv, NEW x \in Threads, AddService(x)
  PROVE  ManagerInv' /\ Entries \subseteq Range(services_')
  <1> USE DEF ManagerInv
  <1> DEFINE e == [name |-> at[x].name, proxy |-> at[x].proxy]
             refused == [at[x] EXCEPT !.pc = "release"]
             entered == [at[x] EXCEPT !.pc = "request"]
  <1>1. /\ at[x].pc = "insert"
        /\ UNCHANGED <<proxies, in_messages_, known, adds, started, alive, references_,
                       death_notifications_>>
        /\ \/ at' = [at EXCEPT ![x] = refused] /\ UNCHANGED <<services_, listing>>
           \/ /\ services_' \in SetToSeqs(Entries \cup {e})
              /\ at' = [at EXCEPT ![x] = entered]
              /\ Changed
    BY DEF AddService, server_vars
  <1>2. at[x].proxy \in DOMAIN proxies
    BY <1>1 DEF PlacesInv
  <1>3. /\ refused \in Place /\ refused.proxy = at[x].proxy
        /\ entered \in Place /\ entered.proxy = at[x].proxy
    BY PlacesAre
  <1>4. e \in Entry /\ e.proxy = at[x].proxy
    BY DEF Types, Place, Entry
  <1> HIDE DEF e, refused, entered
  <1>5. CASE at' = [at EXCEPT ![x] = refused] /\ UNCHANGED <<services_, listing>>
    <2>1. references_' \in [Handles -> Int]
      BY <1>1 DEF Types
    <2>2. Entries \subseteq Range(services_')
      BY <1>5 DEF Entries
    <2> QED
      BY <1>1, <1>2, <1>3, <1>5, <2>1, <2>2, MoveKeeps
  <1>6. CASE /\ services_' \in SetToSeqs(Entries \cup {e})
             /\ at' = [at EXCEPT ![x] = entered]
             /\ Changed
    <2>1. services_' \in Seq(Entry) /\ Range(services_') = Entries \cup {e}
      BY <1>4, <1>6, InsertionAdds
    <2>2. /\ listing' \in [n : Nat, names : Seq(AnyName), changed : BOOLEAN, done : BOOLEAN]
          /\ listing'.done = listing.done
          /\ listing'.changed = ~listing.done
      BY <1>6, ChangedNotes
    <2>3. /\ at' \in [Threads -> Place]
          /\ \A y \in Threads : at'[y] = IF y = x THEN entered ELSE at[y]
      BY <1>3, <1>6 DEF Types
    <2>4. Types'
      BY <1>1, <2>1, <2>2, <2>3 DEF Types
    <2>5. PlacesInv'
      BY <1>1, <1>2, <1>3, <2>3 DEF PlacesInv
    <2>6. EntriesInv'
      <3>1. \A f \in Entries : f.proxy \in DOMAIN proxies
        BY DEF EntriesInv, Entries, Range
      <3>2. \A i \in DOMAIN services_' : services_'[i] \in Entries \cup {e}
        BY <2>1 DEF Range
      <3> QED
        BY <1>1, <1>2, <1>4, <3>1, <3>2 DEF EntriesInv
    <2>7. ListingInv'
      BY <2>2 DEF ListingInv
    <2>8. ProxiesInv' /\ RegisteredInv' /\ MessagesInv'
      BY <1>1 DEF ProxiesInv, RegisteredInv, MessagesInv
    <2> QED
      BY <2>1, <2>4, <2>5, <2>6, <2>7, <2>8
  <1> QED
    BY <1>1, <1>5, <1>6

(* A change of obituaries_ or obituaries_sent_ keeps the handle.           *)
LEMMA FlagsKeepHandles ==
  ASSUME proxies \in Seq(Proxy), NEW p \in DOMAIN proxies,
         \/ proxies' = [proxies EXCEPT ![p].linked = TRUE]
         \/ proxies' = [proxies EXCEPT ![p].sent = TRUE]
  PROVE  /\ proxies' \in Seq(Proxy) /\ DOMAIN proxies' = DOMAIN proxies
         /\ \A q \in DOMAIN proxies : proxies'[q].handle = proxies[q].handle
  <1> DEFINE a == [proxies[p] EXCEPT !.linked = TRUE]
             b == [proxies[p] EXCEPT !.sent = TRUE]
  <1>1. proxies[p] \in Proxy
    <2> HIDE DEF Proxy
    <2> QED
      OBVIOUS
  <1>2. a \in Proxy /\ a.handle = proxies[p].handle /\ b \in Proxy /\ b.handle = proxies[p].handle
    BY <1>1 DEF Proxy
  <1>3. proxies' = [proxies EXCEPT ![p] = a] \/ proxies' = [proxies EXCEPT ![p] = b]
    OBVIOUS
  <1> HIDE DEF a, b, Proxy
  <1>4. PICK c \in Proxy : proxies' = [proxies EXCEPT ![p] = c] /\ c.handle = proxies[p].handle
    BY <1>2, <1>3
  <1>5. proxies' \in Seq(Proxy) /\ DOMAIN proxies' = DOMAIN proxies
    BY <1>4
  <1>6. \A q \in DOMAIN proxies : proxies'[q] = IF q = p THEN c ELSE proxies[q]
    BY <1>4
  <1> QED
    BY <1>4, <1>5, <1>6

(* The parts that depend on the proxies, when only flags change.           *)
LEMMA HandlesKeep ==
  ASSUME ManagerInv, DOMAIN proxies' = DOMAIN proxies,
         \A q \in DOMAIN proxies : proxies'[q].handle = proxies[q].handle,
         UNCHANGED <<started, alive, death_notifications_>>
  PROVE  ProxiesInv' /\ RegisteredInv'
  BY DEF ManagerInv, ProxiesInv, RegisteredInv

(* The end of LinkToDeath.                                                 *)
LEMMA LinkedKeeps ==
  ASSUME ManagerInv, NEW x \in Threads, Linked(x)
  PROVE  ManagerInv'
  <1> USE DEF ManagerInv
  <1>1. /\ at[x].pc = "linked"
        /\ proxies' = [proxies EXCEPT ![at[x].proxy].linked = TRUE]
        /\ at' = [at EXCEPT ![x] = Idle]
        /\ UNCHANGED <<services_, started, alive, references_, death_notifications_,
                       in_messages_, known, adds, listing>>
    BY DEF Linked, server_vars
  <1>2. /\ proxies' \in Seq(Proxy) /\ DOMAIN proxies' = DOMAIN proxies
        /\ \A q \in DOMAIN proxies : proxies'[q].handle = proxies[q].handle
    <2>1. at[x].proxy \in DOMAIN proxies /\ proxies \in Seq(Proxy)
      BY <1>1 DEF PlacesInv, Types
    <2> QED
      BY <1>1, <2>1, FlagsKeepHandles
  <1>3. Idle \in Place /\ Idle.pc = "idle"
    BY PlacesAre
  <1>4. /\ at' \in [Threads -> Place]
        /\ \A y \in Threads : at'[y] = IF y = x THEN Idle ELSE at[y]
    BY <1>1, <1>3 DEF Types
  <1>5. Types'
    BY <1>1, <1>2, <1>4 DEF Types
  <1>6. ProxiesInv' /\ RegisteredInv'
    BY <1>1, <1>2, HandlesKeep
  <1>7. PlacesInv' /\ MessagesInv' /\ EntriesInv' /\ ListingInv'
    BY <1>1, <1>2, <1>3, <1>4 DEF PlacesInv, MessagesInv, EntriesInv, ListingInv
  <1> QED
    BY <1>5, <1>6, <1>7

(* SendObituary is about a service that has ended, and OnObjectDied erases *)
(* no entry but the one of its proxy.                                      *)
LEMMA SendObituaryKeeps ==
  ASSUME ManagerInv, SendObituary
  PROVE  /\ ManagerInv'
         /\ \A e \in Entries : e \notin Range(services_') => proxies[e.proxy].handle \notin alive
         /\ listing'.done = listing.done
  <1> USE DEF ManagerInv
  <1> DEFINE p == Head(in_messages_)
  <1>1. /\ in_messages_ # << >> /\ in_messages_' = Tail(in_messages_)
        /\ UNCHANGED <<at, known, adds, started, alive, references_, death_notifications_>>
        /\ \/ UNCHANGED <<proxies, services_, listing>>
           \/ /\ proxies' = [proxies EXCEPT ![p].sent = TRUE]
              /\ services_' = services_ \/ services_' = OnObjectDied(p)
              /\ IF services_' # services_ THEN Changed ELSE UNCHANGED listing
    BY DEF SendObituary, server_vars
  <1>2. in_messages_ \in Seq(Nat) /\ services_ \in Seq(Entry) /\ proxies \in Seq(Proxy)
    BY DEF Types
  <1>3. p = in_messages_[1] /\ 1 \in DOMAIN in_messages_
    BY <1>1, <1>2
  <1>4. p \in DOMAIN proxies /\ proxies[p].handle \notin alive
    BY <1>3 DEF MessagesInv
  <1>5. /\ in_messages_' \in Seq(Nat)
        /\ \A i \in DOMAIN in_messages_' :
             i + 1 \in DOMAIN in_messages_ /\ in_messages_'[i] = in_messages_[i + 1]
    BY <1>1, <1>2
  <1> HIDE DEF p
  <1>6. /\ proxies' \in Seq(Proxy) /\ DOMAIN proxies' = DOMAIN proxies
        /\ \A q \in DOMAIN proxies : proxies'[q].handle = proxies[q].handle
    <2>1. CASE proxies' = proxies
      BY <1>2, <2>1
    <2>2. CASE proxies' = [proxies EXCEPT ![p].sent = TRUE]
      BY <1>2, <1>4, <2>2, FlagsKeepHandles
    <2> QED
      BY <1>1, <2>1, <2>2
  <1>7. /\ services_' \in Seq(Entry)
        /\ \A e \in Entries : e \in Range(services_') \/ e.proxy = p
        /\ \A i \in DOMAIN services_' : services_'[i] \in Entries
    <2>1. CASE services_' = services_
      BY <1>2, <2>1 DEF Entries, Range
    <2>2. CASE services_' = OnObjectDied(p)
      BY <1>2, <2>2, OnObjectDiedErases
    <2> QED
      BY <1>1, <2>1, <2>2
  <1>8. /\ listing' \in [n : Nat, names : Seq(AnyName), changed : BOOLEAN, done : BOOLEAN]
        /\ listing'.done = listing.done
        /\ \/ listing' = listing /\ services_' = services_
           \/ listing'.changed = ~listing.done
    <2>1. CASE services_' # services_
      <3>1. Changed
        BY <1>1, <2>1
      <3> QED
        BY <3>1, ChangedNotes
    <2>2. CASE services_' = services_
      BY <1>1, <2>2 DEF Types
    <2> QED
      BY <2>1, <2>2
  <1>9. Types'
    BY <1>1, <1>5, <1>6, <1>7, <1>8 DEF Types
  <1>10. ProxiesInv' /\ RegisteredInv'
    BY <1>1, <1>6, HandlesKeep
  <1>11. PlacesInv'
    BY <1>1, <1>6 DEF PlacesInv
  <1>12. MessagesInv'
    BY <1>1, <1>5, <1>6 DEF MessagesInv
  <1>13. EntriesInv'
    <2>1. \A e \in Entries : e.proxy \in DOMAIN proxies
      BY DEF EntriesInv, Entries, Range
    <2> QED
      BY <1>6, <1>7, <2>1 DEF EntriesInv
  <1>14. ListingInv'
    <2>1. CASE listing' = listing /\ services_' = services_
      BY <2>1 DEF ListingInv
    <2>2. CASE listing'.changed = ~listing.done
      BY <1>8, <2>2 DEF ListingInv
    <2> QED
      BY <1>8, <2>1, <2>2
  <1>15. \A e \in Entries : e \notin Range(services_') => proxies[e.proxy].handle \notin alive
    BY <1>4, <1>7
  <1> QED
    BY <1>8, <1>9, <1>10, <1>11, <1>12, <1>13, <1>14, <1>15

(* GetService returns the handle of an entry.                              *)
LEMMA RunClientKeeps ==
  ASSUME ManagerInv, NEW name \in Names, RunClient(name)
  PROVE  ManagerInv'
  <1> USE DEF ManagerInv
  <1>1. UNCHANGED <<services_, at, proxies, started, alive, references_,
                    death_notifications_, in_messages_, adds, listing>>
    BY DEF RunClient, client_vars, server_vars
  <1>2. PICK h \in Reply(name) : known' = known \cup {h}
    BY DEF RunClient, GetService
  <1>3. PICK e \in Entries : h = proxies[e.proxy].handle
    BY DEF Reply, Find
  <1>4. e.proxy \in DOMAIN proxies
    BY DEF EntriesInv, Entries, Range
  <1>5. h \in 1 .. started
    BY <1>3, <1>4 DEF ProxiesInv
  <1>6. Types'
    BY <1>1, <1>2, <1>5 DEF Types
  <1>7. ProxiesInv' /\ PlacesInv' /\ RegisteredInv' /\ MessagesInv' /\ EntriesInv' /\ ListingInv'
    BY <1>1 DEF ProxiesInv, PlacesInv, RegisteredInv, MessagesInv, EntriesInv, ListingInv
  <1> QED
    BY <1>6, <1>7

(* The parts of the invariant a listing leaves alone.                      *)
LEMMA ListingOnlyKeeps ==
  ASSUME ManagerInv, ListingInv',
         UNCHANGED <<client_vars, server_vars, in_messages_, known, adds>>,
         listing' \in [n : Nat, names : Seq(AnyName), changed : BOOLEAN, done : BOOLEAN]
  PROVE  ManagerInv'
  <1> USE DEF ManagerInv
  <1>1. UNCHANGED <<services_, at, proxies, started, alive, references_,
                    death_notifications_, in_messages_, known, adds>>
    BY DEF client_vars, server_vars
  <1>2. Types'
    BY <1>1 DEF Types
  <1>3. ProxiesInv' /\ PlacesInv' /\ RegisteredInv' /\ MessagesInv' /\ EntriesInv'
    BY <1>1 DEF ProxiesInv, PlacesInv, RegisteredInv, MessagesInv, EntriesInv
  <1> QED
    BY <1>2, <1>3

(* A listing starts with no names.                                         *)
LEMMA ListingsStart ==
  /\ NoListing \in [n : Nat, names : Seq(AnyName), changed : BOOLEAN, done : BOOLEAN]
  /\ NoListing.done = TRUE
  /\ NewListing \in [n : Nat, names : Seq(AnyName), changed : BOOLEAN, done : BOOLEAN]
  /\ NewListing.n = 0 /\ NewListing.names = << >> /\ NewListing.done = FALSE
  <1> DEFINE L == [n : Nat, names : Seq(AnyName), changed : BOOLEAN, done : BOOLEAN]
  <1>1. /\ NoListing \in L
        /\ NoListing.n = 0 /\ NoListing.names = << >> /\ NoListing.done = TRUE
    BY DEF NoListing
  <1>2. /\ NewListing \in L
        /\ NewListing.n = NoListing.n /\ NewListing.names = NoListing.names
        /\ NewListing.done = FALSE
    BY <1>1 DEF NewListing
  <1> QED
    BY <1>1, <1>2

(* service --list.                                                         *)
LEMMA RunListKeeps ==
  ASSUME ManagerInv, RunList
  PROVE  ManagerInv' /\ listing.done
  <1>1. /\ listing.done /\ listing' = NewListing
        /\ UNCHANGED <<client_vars, server_vars, in_messages_, known, adds>>
    BY DEF RunList
  <1>2. services_' \in Seq(Entry)
    BY <1>1 DEF ManagerInv, Types, client_vars
  <1>3. Len(services_') \in Nat
    <2> HIDE DEF Entry
    <2> QED
      BY <1>2
  <1>4. ListingInv'
    BY <1>1, <1>3, ListingsStart DEF ListingInv
  <1> QED
    BY <1>1, <1>4, ListingsStart, ListingOnlyKeeps

(* One round of ListServices appends the name of the next entry; it ends   *)
(* when there is none.                                                     *)
LEMMA ListServicesKeeps ==
  ASSUME ManagerInv, ListServices
  PROVE  /\ ManagerInv'
         /\ (~listing.done /\ listing'.done /\ ~listing.changed) =>
              listing.names = [i \in DOMAIN services_ |-> services_[i].name]
  <1> USE DEF ManagerInv
  <1> DEFINE L == [n : Nat, names : Seq(AnyName), changed : BOOLEAN, done : BOOLEAN]
             k == listing.n
  <1>1. /\ ~listing.done
        /\ UNCHANGED <<client_vars, server_vars, in_messages_, known, adds>>
        /\ services_' = services_
    BY DEF ListServices, client_vars
  <1>2. services_ \in Seq(Entry) /\ listing \in L
    BY DEF Types
  <1>3. /\ DOMAIN services_ = 1 .. Len(services_) /\ Len(services_) \in Nat
        /\ \A i \in DOMAIN services_ : services_[i].name \in AnyName
    <2>1. \A i \in DOMAIN services_ : services_[i] \in Entry
      <3> HIDE DEF Entry
      <3> QED
        BY <1>2
    <2> QED
      BY <1>2, <2>1 DEF Entry
  <1>4. /\ Listed \in Seq(AnyName) /\ Len(Listed) = Len(services_)
        /\ \A i \in 1 .. Len(services_) : Listed[i] = services_[i].name
    BY <1>3 DEF Listed
  <1>5. k \in Nat /\ listing.names \in Seq(AnyName) /\ listing.changed \in BOOLEAN
    BY <1>2
  <1>6. CASE InRange(k)
    <2> DEFINE names == Append(listing.names, Listed[k + 1])
               new == [listing EXCEPT !.n = @ + 1, !.names = Append(@, Listed[k + 1])]
    <2>1. k < Len(services_)
      BY <1>4, <1>6 DEF InRange
    <2>2. k + 1 \in 1 .. Len(services_)
      BY <1>3, <1>5, <2>1
    <2>3. Listed[k + 1] = services_[k + 1].name /\ Listed[k + 1] \in AnyName
      BY <1>3, <1>4, <2>2
    <2>4. listing' = new
      BY <1>6 DEF ListServices
    <2>5. /\ names \in Seq(AnyName) /\ Len(names) = Len(listing.names) + 1
          /\ names[Len(listing.names) + 1] = Listed[k + 1]
          /\ \A i \in 1 .. Len(listing.names) : names[i] = listing.names[i]
      <3> HIDE DEF AnyName
      <3> QED
        BY <1>5, <2>3
    <2>6. new = [listing EXCEPT !.n = k + 1, !.names = names]
      OBVIOUS
    <2> HIDE DEF names, new
    <2>7. listing' \in L /\ listing'.n = k + 1 /\ listing'.names = names
          /\ listing'.changed = listing.changed /\ listing'.done = listing.done
      <3>1. ASSUME NEW r \in L, NEW n \in Nat, NEW s \in Seq(AnyName),
                   NEW q, q = [r EXCEPT !.n = n, !.names = s]
            PROVE  /\ q \in L /\ q.n = n /\ q.names = s
                   /\ q.changed = r.changed /\ q.done = r.done
        BY <3>1
      <3>2. k + 1 \in Nat
        BY <1>5
      <3> QED
        BY <1>2, <2>4, <2>5, <2>6, <3>1, <3>2
    <2>8. ListingInv'
      <3> SUFFICES ASSUME ~listing.changed
                   PROVE  /\ k + 1 <= Len(services_)
                          /\ Len(names) = k + 1
                          /\ \A i \in 1 .. k + 1 : names[i] = services_[i].name
        BY <1>1, <2>7 DEF ListingInv
      <3>1. /\ k <= Len(services_) /\ Len(listing.names) = k
            /\ \A i \in 1 .. k : listing.names[i] = services_[i].name
        BY <1>1 DEF ListingInv
      <3>2. ASSUME NEW i \in 1 .. k + 1 PROVE names[i] = services_[i].name
        <4>1. i \in 1 .. k \/ i = k + 1
          BY <1>5
        <4> QED
          BY <2>3, <2>5, <3>1, <4>1
      <3> QED
        BY <1>3, <1>5, <2>2, <2>5, <3>1, <3>2
    <2>9. ManagerInv'
      BY <1>1, <2>7, <2>8, ListingOnlyKeeps
    <2> QED
      BY <1>1, <2>7, <2>9
  <1>7. CASE ~InRange(k)
    <2>1. listing' = NoListing
      BY <1>7 DEF ListServices
    <2>2. ListingInv'
      BY <2>1, ListingsStart DEF ListingInv
    <2>3. ManagerInv'
      BY <1>1, <2>1, <2>2, ListingsStart, ListingOnlyKeeps
    <2>4. ASSUME ~listing.changed
          PROVE  listing.names = [i \in DOMAIN services_ |-> services_[i].name]
      <3>1. /\ k <= Len(services_) /\ Len(listing.names) = k
            /\ \A i \in 1 .. k : listing.names[i] = services_[i].name
        BY <1>1, <2>4 DEF ListingInv
      <3>2. k = Len(services_)
        BY <1>3, <1>4, <1>5, <1>7, <3>1 DEF InRange
      <3>3. DOMAIN listing.names = DOMAIN services_
        BY <1>3, <1>5, <3>1, <3>2
      <3>4. listing.names = [i \in DOMAIN listing.names |-> listing.names[i]]
        <4> HIDE DEF AnyName
        <4> QED
          BY <1>5
      <3> QED
        BY <1>3, <3>1, <3>2, <3>3, <3>4
    <2> QED
      BY <2>3, <2>4
  <1> QED
    BY <1>6, <1>7

-----------------------------------------------------------------------------
(* What a step may do to the map and to a listing.                         *)
NamesStep ==
  \A e \in Entries : e \notin Range(services_') => proxies[e.proxy].handle \notin alive

ListingStep ==
  (~listing.done /\ listing'.done /\ ~listing.changed) =>
    listing.names = [i \in DOMAIN services_ |-> services_[i].name]

(* A step that changes neither is allowed.                                 *)
LEMMA UnlistedSteps ==
  ASSUME UNCHANGED <<services_, listing>>
  PROVE  NamesStep /\ ListingStep
  BY DEF NamesStep, ListingStep, Entries

(* The steps of the manager's threads.                                     *)
LEMMA ThreadStepKeeps ==
  ASSUME ManagerInv, NEW x \in Threads, ThreadStep(x)
  PROVE  ManagerInv' /\ NamesStep /\ ListingStep
  <1>1. ASSUME NEW r \in adds, ReadObject(x, r)
        PROVE  ManagerInv' /\ NamesStep /\ ListingStep
    <2>1. UNCHANGED <<services_, listing>>
      BY <1>1 DEF ReadObject
    <2> QED
      BY <1>1, <2>1, ReadObjectKeeps, UnlistedSteps
  <1>2. CASE AddReference(x) \/ ReleaseReference(x)
    <2>1. UNCHANGED <<services_, listing>>
      BY <1>2 DEF AddReference, ReleaseReference
    <2> QED
      BY <1>2, <2>1, CountingKeeps, UnlistedSteps
  <1>3. CASE AddService(x)
    <2>1. listing' = listing \/ Changed
      BY <1>3 DEF AddService
    <2>2. listing'.done = listing.done
      BY <2>1, ChangedNotes DEF ManagerInv
    <2> QED
      BY <1>3, <2>2, AddServiceKeeps DEF NamesStep, ListingStep
  <1>4. CASE RequestDeathNotification(x)
    <2>1. UNCHANGED <<services_, listing>>
      BY <1>4 DEF RequestDeathNotification
    <2> QED
      BY <1>4, <2>1, RequestDeathNotificationKeeps, UnlistedSteps
  <1>5. CASE Linked(x)
    <2>1. UNCHANGED <<services_, listing>>
      BY <1>5 DEF Linked
    <2> QED
      BY <1>5, <2>1, LinkedKeeps, UnlistedSteps
  <1> QED
    BY <1>1, <1>2, <1>3, <1>4, <1>5 DEF ThreadStep

(* Every step keeps the invariant, the names and the listing.              *)
LEMMA StepKeeps ==
  ASSUME ManagerInv, [Next]_vars
  PROVE  ManagerInv' /\ NamesStep /\ ListingStep
  <1>1. CASE BecomeContextManager \/ SetContextObject \/ UNCHANGED vars
    <2>1. UNCHANGED <<client_vars, server_vars, in_messages_, known, adds, listing>>
      BY <1>1 DEF BecomeContextManager, SetContextObject, vars
    <2>2. UNCHANGED <<services_, listing>>
      BY <2>1 DEF client_vars
    <2> QED
      BY <2>1, <2>2, SameKeeps, UnlistedSteps
  <1>2. ASSUME NEW n \in Names, StartService(n) \/ RunClient(n)
        PROVE  ManagerInv' /\ NamesStep /\ ListingStep
    <2>1. UNCHANGED <<services_, listing>>
      BY <1>2 DEF StartService, RunClient, client_vars
    <2> QED
      BY <1>2, <2>1, StartServiceKeeps, RunClientKeeps, UnlistedSteps
  <1>3. ASSUME NEW n \in Names, NEW h \in known, AddAgain(n, h)
        PROVE  ManagerInv' /\ NamesStep /\ ListingStep
    <2>1. UNCHANGED <<services_, listing>>
      BY <1>3 DEF AddAgain, client_vars
    <2> QED
      BY <1>3, <2>1, AddAgainKeeps, UnlistedSteps
  <1>4. ASSUME NEW h \in alive, ServiceEnds(h)
        PROVE  ManagerInv' /\ NamesStep /\ ListingStep
    <2>1. UNCHANGED <<services_, listing>>
      BY <1>4 DEF ServiceEnds, client_vars
    <2> QED
      BY <1>4, <2>1, ServiceEndsKeeps, UnlistedSteps
  <1>5. ASSUME NEW x \in Threads, ThreadStep(x)
        PROVE  ManagerInv' /\ NamesStep /\ ListingStep
    BY <1>5, ThreadStepKeeps
  <1>6. CASE RunList
    <2>1. services_' = services_
      BY <1>6 DEF RunList, client_vars
    <2> QED
      BY <1>6, <2>1, RunListKeeps DEF NamesStep, ListingStep, Entries
  <1>7. CASE ListServices
    <2>1. services_' = services_
      BY <1>7 DEF ListServices, client_vars
    <2> QED
      BY <1>7, <2>1, ListServicesKeeps DEF NamesStep, ListingStep, Entries
  <1>8. CASE SendObituary
    BY <1>8, SendObituaryKeeps DEF NamesStep, ListingStep
  <1> QED
    BY <1>1, <1>2, <1>3, <1>4, <1>5, <1>6, <1>7, <1>8 DEF Next

(* The inductive invariant holds of the service manager and the server's   *)
(* part of its death notifications.                                        *)
THEOREM ManagerInvariant == Spec => []ManagerInv
  <1>1. Init => ManagerInv
    <2> SUFFICES ASSUME Init PROVE ManagerInv
      OBVIOUS
    <2>1. \A x \in Threads : at[x] = Idle
      BY DEF Init
    <2>2. Idle \in Place /\ Idle.pc = "idle"
      BY DEF Idle, Place, AnyName
    <2>3. at \in [Threads -> Place]
      BY <2>1, <2>2 DEF Init
    <2>4. started \in 0 .. MaxServices
      BY ManagerAssumption DEF Init
    <2>5. /\ listing \in [n : Nat, names : Seq(AnyName), changed : BOOLEAN, done : BOOLEAN]
          /\ listing.done = TRUE
      BY ListingsStart DEF Init
    <2>6. Types
      BY <2>3, <2>4, <2>5 DEF Init, Types
    <2>7. PlacesInv
      BY <2>1, <2>2 DEF PlacesInv
    <2>8. ProxiesInv /\ RegisteredInv /\ MessagesInv /\ EntriesInv
      BY DEF Init, ProxiesInv, RegisteredInv, MessagesInv, EntriesInv
    <2> QED
      BY <2>5, <2>6, <2>7, <2>8 DEF ManagerInv, ListingInv
  <1>2. ManagerInv /\ [Next]_vars => ManagerInv'
    BY StepKeeps
  <1> QED
    BY <1>1, <1>2, PTL DEF Spec

(***************************************************************************)
(* An entry leaves services_ only when the service of its proxy has ended: *)
(* OnObjectDied erases what the DeadBinder message is about, for any       *)
(* number of threads that add services meanwhile, and AddService loses no  *)
(* entry.                                                                  *)
(***************************************************************************)
THEOREM NamesAreKept == Spec => NameIsKept
  <1>1. ManagerInv /\ [Next]_vars =>
          [\A e \in Entries : e \notin Range(services_') =>
             proxies[e.proxy].handle \notin alive]_vars
    BY StepKeeps DEF NamesStep
  <1> QED
    BY <1>1, ManagerInvariant, PTL DEF Spec, NameIsKept

(***************************************************************************)
(* A listing (the loop of ServiceManagerProxy::ListServices) during which  *)
(* no service came or went ends with all names in the order of the map,    *)
(* however many transactions of other processes come between its rounds.   *)
(***************************************************************************)
THEOREM ListingsAreExact == Spec => ListingIsExact
  <1>1. ManagerInv /\ [Next]_vars =>
          [(~listing.done /\ listing'.done /\ ~listing.changed) =>
             listing.names = [i \in DOMAIN services_ |-> services_[i].name]]_vars
    BY StepKeeps DEF ListingStep
  <1> QED
    BY <1>1, ManagerInvariant, PTL DEF Spec, ListingIsExact
=============================================================================

--------------------------- MODULE ServiceManager ---------------------------
(***************************************************************************)
(* The service manager: the command that becomes the context manager,      *)
(* ServiceManagerService in its process, ServiceManagerProxy and the       *)
(* commands in the processes that call it, and the part of the server it   *)
(* relies on to hear of the death of a service.                            *)
(*                                                                         *)
(* The manager's strand executes one transaction at a time and waits in it *)
(* for the server (AddReference, RequestDeathNotification).  Transactions  *)
(* that were read before SetContextObject are executed by the pool, beside *)
(* the strand, and a thread of the pool executes DeadBinder messages.  A   *)
(* service is the handle of its object; a process provides one, and may    *)
(* end at any time.  A proxy is its number in the order of ReadObject.     *)
(***************************************************************************)
EXTENDS Integers, Sequences, FiniteSets, SequencesExt

CONSTANTS
  Names,        \* names of services
  Strand,       \* the thread that runs the manager's strand
  Pool,         \* its pool threads that execute transactions
  MaxServices,  \* bound: services that are started
  MaxAdds       \* bound: calls of AddService

ASSUME ManagerAssumption ==
  /\ Strand \notin Pool
  /\ MaxServices \in Nat /\ MaxAdds \in Nat

VARIABLES
  manager,        \* how far the service-manager command is
  services_,      \* entries of the map, in the order of iteration
  at,             \* where each thread of the manager is in AddService
  proxies,        \* the RemoteObjects: handle, obituaries_, obituaries_sent_
  dead_recipients_,  \* proxies the manager has asked notifications for
  in_messages_,   \* DeadBinder messages for the manager's pool
  known,          \* handles other processes have from GetService
  adds,           \* AddService requests: the ones not executed yet
  started,        \* services so far: their handles are 1 .. started
  alive,          \* server: known handles
  references_,    \* server: references of the manager's session
  death_notifications_,  \* server: handle -> proxy, or 0
  listing,        \* the loop of a ServiceManagerProxy::ListServices
  lost            \* history: proxies that were linked when their service ended

client_vars == <<services_, at, proxies, dead_recipients_>>
server_vars == <<started, alive, references_, death_notifications_>>
vars == <<client_vars, server_vars, manager, in_messages_, known, adds, listing,
          lost>>

Handles == 1 .. MaxServices
Proxies == 1 .. MaxAdds
Entries == Range(services_)
Threads == Pool \cup {Strand}
Idle == [pc |-> "idle", name |-> CHOOSE n \in Names : TRUE, proxy |-> 0]

NoListing == [n |-> 0, names |-> << >>, changed |-> FALSE, done |-> TRUE]

Init ==
  /\ manager = "off"
  /\ services_ = << >> /\ at = [x \in Threads |-> Idle] /\ proxies = << >>
  /\ dead_recipients_ = {} /\ in_messages_ = << >> /\ known = {} /\ adds = {}
  /\ started = 0 /\ alive = {}
  /\ references_ = [h \in Handles |-> 0]
  /\ death_notifications_ = [h \in Handles |-> 0]
  /\ listing = NoListing
  /\ lost = {}

(* services_.find.                                                         *)
Find(name) == {e \in Entries : e.name = name}

(* What a change of the map means for a listing that is under way.         *)
Changed == listing' = [listing EXCEPT !.changed = ~listing.done]

-----------------------------------------------------------------------------
(***************************************************************************)
(* The service-manager command.  Its pool starts with the context object.  *)
(***************************************************************************)
BecomeContextManager ==
  /\ manager = "off"
  /\ manager' = "role"
  /\ UNCHANGED <<client_vars, server_vars, in_messages_, known, adds, listing,
                 lost>>

SetContextObject ==
  /\ manager = "role"
  /\ manager' = "on"
  /\ UNCHANGED <<client_vars, server_vars, in_messages_, known, adds, listing,
                 lost>>

-----------------------------------------------------------------------------
(***************************************************************************)
(* Other processes.                                                        *)
(***************************************************************************)
(* AddService of the proxy, which the server refuses while there is no     *)
(* context manager: such a service is never heard of.  early: the manager  *)
(* reads the request before it has its context object.                     *)
RequestAdd(name, h) ==
  /\ manager # "off"
  /\ Cardinality(adds) + Len(proxies) < MaxAdds
  /\ \E early \in {FALSE, manager = "role"} :
       adds' = adds \cup {[name |-> name, handle |-> h, early |-> early]}

(* client --service: the status of AddService is not looked at.  The       *)
(* server exports the object under a new handle.                           *)
StartService(name) ==
  /\ started < MaxServices
  /\ started' = started + 1
  /\ alive' = alive \cup {started'}
  /\ RequestAdd(name, started')
  /\ UNCHANGED <<client_vars, manager, in_messages_, known, references_,
                 death_notifications_, listing, lost>>

(* A process that has got a service calls AddService with it.              *)
AddAgain(name, h) ==
  /\ RequestAdd(name, h)
  /\ UNCHANGED <<client_vars, server_vars, manager, in_messages_, known, listing, lost>>

(* The manager hears of the end of the service of p.                       *)
Watched(p) ==
  LET h == proxies[p].handle
  IN  h \in alive /\ references_[h] > 0 /\ death_notifications_[h] = p
        /\ proxies[p].linked

(* A service ends: RemoveHandle notifies once for each reference.          *)
ServiceEnds(h) ==
  /\ alive' = alive \ {h}
  /\ in_messages_' = in_messages_ \o
       (IF death_notifications_[h] = 0 THEN << >>
        ELSE [i \in 1 .. references_[h] |-> death_notifications_[h]])
  /\ references_' = [references_ EXCEPT ![h] = 0]
  /\ lost' = lost \cup {p \in DOMAIN proxies : Watched(p) /\ proxies[p].handle = h}
  /\ UNCHANGED <<client_vars, manager, known, adds, started, death_notifications_, listing>>

-----------------------------------------------------------------------------
(***************************************************************************)
(* AddService on thread x of the manager.                                  *)
(***************************************************************************)
(* OnTransact: ReadObject creates a proxy; whether the interface is the    *)
(* right one is not looked at.                                             *)
ReadObject(x, r) ==
  /\ manager = "on" /\ at[x].pc = "idle"
  /\ r.early <=> x \in Pool
  /\ adds' = adds \ {r}
  /\ proxies' = Append(proxies, [handle |-> r.handle, linked |-> FALSE, sent |-> FALSE])
  /\ at' = [at EXCEPT ![x] =
       [pc |-> "acquire", name |-> r.name, proxy |-> Len(proxies')]]
  /\ UNCHANGED <<server_vars, manager, services_, dead_recipients_, in_messages_, known,
                 listing, lost>>

(* AddReference of the proxy's constructor: its status is not looked at.   *)
AddReference(x) ==
  /\ at[x].pc = "acquire"
  /\ LET h == proxies[at[x].proxy].handle
     IN  references_' = IF h \in alive THEN [references_ EXCEPT ![h] = @ + 1]
                                       ELSE references_
  /\ at' = [at EXCEPT ![x].pc = "insert"]
  /\ UNCHANGED <<manager, services_, proxies, dead_recipients_, in_messages_, known,
                 adds, started, alive, death_notifications_, listing, lost>>

(***************************************************************************)
(* AddService: a known name is refused.  An insertion may change the order *)
(* of iteration.  LinkToDeath enters the proxy in dead_recipients_ before  *)
(* it asks the server.                                                     *)
(***************************************************************************)
AddService(x) ==
  /\ at[x].pc = "insert"
  /\ IF Find(at[x].name) # {}
       THEN /\ at' = [at EXCEPT ![x].pc = "release"]
            /\ UNCHANGED <<services_, dead_recipients_, listing>>
       ELSE /\ services_' \in SetToSeqs(Entries \cup
                                {[name |-> at[x].name, proxy |-> at[x].proxy]})
            /\ dead_recipients_' = dead_recipients_ \cup {at[x].proxy}
            /\ at' = [at EXCEPT ![x].pc = "request"]
            /\ Changed
  /\ UNCHANGED <<server_vars, manager, proxies, in_messages_, known, adds, lost>>

(* The proxy of a refused AddService is destroyed.                         *)
ReleaseReference(x) ==
  /\ at[x].pc = "release"
  /\ LET h == proxies[at[x].proxy].handle
     IN  references_' = IF h \in alive THEN [references_ EXCEPT ![h] = @ - 1]
                                       ELSE references_
  /\ at' = [at EXCEPT ![x] = Idle]
  /\ UNCHANGED <<manager, services_, proxies, dead_recipients_, in_messages_, known,
                 adds, started, alive, death_notifications_, listing, lost>>

(* The server registers one proxy for each handle, alive or not.  The      *)
(* manager answers its caller OK either way.                               *)
RequestDeathNotification(x) ==
  /\ at[x].pc = "request"
  /\ LET h == proxies[at[x].proxy].handle
     IN  IF death_notifications_[h] = 0
           THEN /\ death_notifications_' = [death_notifications_ EXCEPT ![h] = at[x].proxy]
                /\ at' = [at EXCEPT ![x].pc = "linked"]
           ELSE at' = [at EXCEPT ![x] = Idle] /\ UNCHANGED death_notifications_
  /\ UNCHANGED <<manager, services_, proxies, dead_recipients_, in_messages_, known,
                 adds, started, alive, references_, listing, lost>>

(* The rest of LinkToDeath.                                                *)
Linked(x) ==
  /\ at[x].pc = "linked"
  /\ proxies' = [proxies EXCEPT ![at[x].proxy].linked = TRUE]
  /\ at' = [at EXCEPT ![x] = Idle]
  /\ UNCHANGED <<server_vars, manager, services_, dead_recipients_, in_messages_, known,
                 adds, listing, lost>>

-----------------------------------------------------------------------------
(***************************************************************************)
(* GetService, CheckService and ListServices, once the manager is up: the  *)
(* strand executes each in one step.                                       *)
(***************************************************************************)
Serving == manager = "on" /\ at[Strand].pc = "idle"

(* The object in the manager's reply to GetService, by its handle.         *)
Reply(name) == {proxies[e.proxy].handle : e \in Find(name)}

(* GetService of the proxy: the caller has a proxy of its own from now on. *)
GetService(name) == \E h \in Reply(name) : known' = known \cup {h}

(* client: it ends when there is no such service.                          *)
RunClient(name) ==
  /\ Serving
  /\ GetService(name)
  /\ UNCHANGED <<client_vars, server_vars, manager, in_messages_, adds, listing, lost>>

(* The list the manager makes for each index it is asked for.              *)
Listed == [i \in DOMAIN services_ |-> services_[i].name]

(* A mutant: the index of the last name is out of range.                   *)
InRange_OffByOne(n) == n < Len(Listed) - 1

(* ListServices of OnTransact: BadValue for an index out of range.         *)
InRange(n) == n < Len(Listed)

(* ListServices of the proxy starts over.                                  *)
NewListing == [NoListing EXCEPT !.done = FALSE]

(* service --list.                                                         *)
RunList ==
  /\ manager = "on" /\ listing.done
  /\ listing' = NewListing
  /\ UNCHANGED <<client_vars, server_vars, manager, in_messages_, known, adds, lost>>

(* One round of the loop of the proxy; BadValue ends it, and it returns.   *)
ListServices ==
  /\ Serving /\ ~listing.done
  /\ listing' = IF InRange(listing.n)
                  THEN [listing EXCEPT !.n = @ + 1,
                          !.names = Append(@, Listed[listing.n + 1])]
                  ELSE NoListing
  /\ UNCHANGED <<client_vars, server_vars, manager, in_messages_, known, adds, lost>>

-----------------------------------------------------------------------------
(* Mutants: the first service is erased, whoever died; none is.            *)
OnObjectDied_First(p) == IF services_ = << >> THEN services_ ELSE Tail(services_)

OnObjectDied_None(p) == services_

(* OnObjectDied erases the first entry with the object that died.          *)
OnObjectDied(p) == RemoveFirstMatch(services_, LAMBDA e : e.proxy = p)

(***************************************************************************)
(* A pool thread executes a DeadBinder message: SendObituary tells the     *)
(* recipients there are, once.                                             *)
(***************************************************************************)
SendObituary ==
  /\ in_messages_ # << >>
  /\ in_messages_' = Tail(in_messages_)
  /\ LET p == Head(in_messages_)
     IN  IF p \in dead_recipients_
           THEN /\ dead_recipients_' = dead_recipients_ \ {p}
                /\ proxies' = [proxies EXCEPT ![p].sent = TRUE]
                /\ services_' = IF proxies[p].linked /\ ~proxies[p].sent
                                  THEN OnObjectDied(p) ELSE services_
                /\ IF services_' # services_ THEN Changed ELSE UNCHANGED listing
           ELSE UNCHANGED <<dead_recipients_, proxies, services_, listing>>
  /\ UNCHANGED <<server_vars, manager, at, known, adds, lost>>

-----------------------------------------------------------------------------
ThreadStep(x) ==
  \/ \E r \in adds : ReadObject(x, r)
  \/ AddReference(x) \/ AddService(x) \/ ReleaseReference(x)
  \/ RequestDeathNotification(x) \/ Linked(x)

Next ==
  \/ BecomeContextManager \/ SetContextObject
  \/ \E n \in Names : StartService(n) \/ RunClient(n)
  \/ \E n \in Names, h \in known : AddAgain(n, h)
  \/ \E h \in alive : ServiceEnds(h)
  \/ \E x \in Threads : ThreadStep(x)
  \/ RunList \/ ListServices \/ SendObituary

(***************************************************************************)
(* Fairness: the strand and the pool go on with the transactions they have *)
(* (the server answers their calls), and the pool has a thread for         *)
(* DeadBinder.                                                             *)
(***************************************************************************)
Spec ==
  /\ Init /\ [][Next]_vars
  /\ \A x \in Threads : WF_vars(ThreadStep(x))
  /\ WF_vars(SendObituary)

-----------------------------------------------------------------------------
(***************************************************************************)
(* A name keeps its object: an entry leaves services_ (OnObjectDied) only  *)
(* when its service has ended, and no other entry leaves with it.          *)
(***************************************************************************)
NameIsKept ==
  [][\A e \in Entries : e \notin Range(services_') => proxies[e.proxy].handle \notin alive]_vars

(***************************************************************************)
(* A listing during which no service came or went is the list of all names *)
(* (ListServices of both ends), although every name is asked for with a    *)
(* transaction of its own.                                                 *)
(***************************************************************************)
ListingIsExact ==
  [][(~listing.done /\ listing'.done /\ ~listing.changed) =>
       listing.names = [i \in DOMAIN services_ |-> services_[i].name]]_vars

(***************************************************************************)
(* The manager forgets a service that ended (ServiceEnds, SendObituary)    *)
(* after it was linked.  One that ended before, or whose handle was linked *)
(* under another name, stays.                                              *)
(***************************************************************************)
EndedIsForgotten ==
  \A p \in Proxies : (p \in lost) ~> (\A e \in Entries : e.proxy # p)
=============================================================================

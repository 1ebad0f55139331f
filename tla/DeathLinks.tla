----------------------------- MODULE DeathLinks -----------------------------
(***************************************************************************)
(* Who is told when a remote object dies.  One client process: its remote  *)
(* objects (remote_object.cpp), the part of client_impl.cpp that links     *)
(* them to the death of their handle and the pool threads that execute the *)
(* DeadBinder messages; and what the client's session at the server keeps  *)
(* for it (server_session.cpp, registry.cpp).                              *)
(*                                                                         *)
(* A remote object is known by its address: ObjectTranslator gives an      *)
(* address one id and never forgets it, so the address stands for the id.  *)
(***************************************************************************)
EXTENDS BinderTypes

CONSTANTS
  Proxies,      \* addresses of remote objects
  Handles,      \* the handles they are made for
  Recipients,   \* death recipients
  Threads,      \* application threads
  Workers,      \* threads that call ProcessAndExecuteCommand
  Nobody,       \* no thread
  MayReuse,     \* whether a freed address may be given out again
  MaxLinks      \* bound: how often LinkToDeath asks the server

ASSUME HandlesAssumption == Handles \subseteq Nat \ {0}

ASSUME ThreadsAssumption == Nobody \notin Threads

ASSUME MayReuseAssumption == MayReuse \in BOOLEAN

ASSUME MaxLinksAssumption == MaxLinks \in Nat

VARIABLES
  handle_,               \* per address: its handle; 0 when never used
  freed,                 \* addresses whose remote object was destroyed
  lock_,                 \* per address: the thread that holds the mutex
  obituaries_,           \* per address: the linked recipients, never twice
  obituaries_sent_,
  dead_recipients_,      \* address -> how often its handle is in handles
  thread,                \* per application thread: its place in a call
  serving,               \* per worker: its place in a DeadBinder message
  in_messages_,          \* the id in each DeadBinder message
  crashed,               \* an iterator of dead_recipients_ was stale
  links,                 \* RequestDeathNotification calls made so far
  known,                 \* handles in the registry of the server
  references_,           \* handle -> references of this client
  death_notifications_,  \* handle -> id, of this client's session
  reported,              \* OnObjectDied calls, per address and recipient
  owed,                  \* links that were in place when the handle died
  misled                 \* addresses whose entry a stale iterator took out

object_vars == <<handle_, freed, lock_, obituaries_, obituaries_sent_>>

client_vars == <<dead_recipients_, thread, serving, in_messages_, crashed, links>>

server_vars == <<known, references_, death_notifications_>>

history_vars == <<reported, owed, misled>>

vars == <<object_vars, client_vars, server_vars, history_vars>>

Idle == [pc |-> "idle"]

Calling == [pc : {"request", "requested", "clear", "cleared"}, proxy : Proxies,
            recipient : Recipients, status : Status]

Executing == [pc : {"dequeued", "found", "sending", "sent"}, proxy : Proxies,
              stale : BOOLEAN]

(* Types of the variables.                                                 *)
TypeOK ==
  /\ handle_ \in [Proxies -> Handles \cup {0}]
  /\ freed \subseteq Proxies
  /\ lock_ \in [Proxies -> Threads \cup {Nobody}]
  /\ obituaries_ \in [Proxies -> SUBSET Recipients]
  /\ obituaries_sent_ \in [Proxies -> BOOLEAN]
  /\ IsMap(dead_recipients_, Proxies, Nat \ {0})
  /\ thread \in [Threads -> {Idle} \cup Calling]
  /\ serving \in [Workers -> {Idle} \cup Executing]
  /\ in_messages_ \in Seq(Proxies)
  /\ crashed \in BOOLEAN
  /\ links \in 0 .. MaxLinks
  /\ known \subseteq Handles
  /\ references_ \in [Handles -> Nat]
  /\ IsMap(death_notifications_, Handles, Proxies)
  /\ reported \in [Proxies \X Recipients -> Nat]
  /\ owed \subseteq Proxies \X Recipients
  /\ misled \subseteq Proxies

Init ==
  /\ handle_ = [p \in Proxies |-> 0]
  /\ freed = {}
  /\ lock_ = [p \in Proxies |-> Nobody]
  /\ obituaries_ = [p \in Proxies |-> {}]
  /\ obituaries_sent_ = [p \in Proxies |-> FALSE]
  /\ dead_recipients_ = EmptyMap
  /\ thread = [t \in Threads |-> Idle]
  /\ serving = [w \in Workers |-> Idle]
  /\ in_messages_ = << >>
  /\ crashed = FALSE
  /\ links = 0
  /\ known = Handles
  /\ references_ = [h \in Handles |-> 0]
  /\ death_notifications_ = EmptyMap
  /\ reported = [x \in Proxies \X Recipients |-> 0]
  /\ owed = {}
  /\ misled = {}

Lives(p) == handle_[p] # 0 /\ p \notin freed

(***************************************************************************)
(* The workers after an entry was added to dead_recipients_ or erased from *)
(* it: the iterator of a worker that has found its entry is stale.         *)
(***************************************************************************)
Invalidated ==
  [w \in Workers |-> IF serving[w] # Idle /\ serving[w].pc # "dequeued"
                       THEN [serving[w] EXCEPT !.stale = TRUE]
                       ELSE serving[w]]

-----------------------------------------------------------------------------
(***************************************************************************)
(* The life of a remote object: the constructor takes a reference and does *)
(* not look at the status, the destructor gives one back.  Both wait for   *)
(* the server; nobody else knows the object meanwhile.                     *)
(***************************************************************************)
Create(p, h) ==
  /\ handle_[p] # 0 => MayReuse /\ p \in freed
  /\ handle_' = [handle_ EXCEPT ![p] = h]
  /\ freed' = freed \ {p}
  /\ obituaries_' = [obituaries_ EXCEPT ![p] = {}]
  /\ obituaries_sent_' = [obituaries_sent_ EXCEPT ![p] = FALSE]
  /\ references_' = IF h \in known THEN [references_ EXCEPT ![h] = @ + 1]
                                   ELSE references_
  /\ reported' = [x \in DOMAIN reported |-> IF x[1] = p THEN 0 ELSE reported[x]]
  /\ UNCHANGED <<lock_, client_vars, known, death_notifications_, owed, misled>>

(***************************************************************************)
(* dead_recipients_, a thread in a call and a worker hold the object.      *)
(***************************************************************************)
InUse(p) ==
  \/ p \in DOMAIN dead_recipients_
  \/ \E t \in Threads : thread[t] # Idle /\ thread[t].proxy = p
  \/ \E w \in Workers : /\ serving[w] # Idle /\ serving[w].proxy = p
                        /\ serving[w].pc # "dequeued"

Destroy(p) ==
  /\ Lives(p) /\ ~InUse(p)
  /\ freed' = freed \cup {p}
  /\ references_' = IF handle_[p] \in known /\ references_[handle_[p]] > 0
                      THEN [references_ EXCEPT ![handle_[p]] = @ - 1]
                      ELSE references_
  /\ UNCHANGED <<handle_, lock_, obituaries_, obituaries_sent_, client_vars,
                 known, death_notifications_, history_vars>>

-----------------------------------------------------------------------------
(***************************************************************************)
(* LinkToDeath and RequestDeathNotification: the recipient is entered in   *)
(* dead_recipients_ before the server is asked, and stays there when the   *)
(* server refuses.  A call that returns before it asks changes nothing.    *)
(***************************************************************************)
Begins(t, p, r, pc) ==
  /\ thread[t] = Idle /\ Lives(p)
  /\ lock_[p] = Nobody
  /\ ~obituaries_sent_[p]
  /\ lock_' = [lock_ EXCEPT ![p] = t]
  /\ thread' = [thread EXCEPT ![t] = [pc |-> pc, proxy |-> p, recipient |-> r,
                                      status |-> OK]]

LinkToDeath(t, p, r) ==
  /\ Begins(t, p, r, "request")
  /\ links < MaxLinks /\ links' = links + 1
  /\ dead_recipients_' = [q \in DOMAIN dead_recipients_ \cup {p} |->
       IF q \notin DOMAIN dead_recipients_ THEN 1
       ELSE IF q = p THEN dead_recipients_[p] + 1 ELSE dead_recipients_[q]]
  /\ serving' = IF p \in DOMAIN dead_recipients_ THEN serving ELSE Invalidated
  /\ UNCHANGED <<handle_, freed, obituaries_, obituaries_sent_, in_messages_,
                 crashed, server_vars, history_vars>>

(***************************************************************************)
(* The server takes a request for any handle, one registration for each.   *)
(***************************************************************************)
OnRequestDeathNotification(t) ==
  /\ thread[t].pc = "request"
  /\ LET h == handle_[thread[t].proxy]
         free == h \notin DOMAIN death_notifications_
     IN  /\ thread' = [thread EXCEPT ![t].pc = "requested",
                         ![t].status = IF free THEN OK ELSE AlreadyExists]
         /\ death_notifications_' =
              Insert(death_notifications_, h, thread[t].proxy)
  /\ UNCHANGED <<object_vars, dead_recipients_, serving, in_messages_, crashed,
                 links, known, references_, history_vars>>

Linked(t) ==
  /\ thread[t].pc = "requested"
  /\ LET p == thread[t].proxy
     IN  /\ obituaries_' = IF thread[t].status = OK
              THEN [obituaries_ EXCEPT ![p] = @ \cup {thread[t].recipient}]
              ELSE obituaries_
         /\ lock_' = [lock_ EXCEPT ![p] = Nobody]
  /\ thread' = [thread EXCEPT ![t] = Idle]
  /\ UNCHANGED <<handle_, freed, obituaries_sent_, dead_recipients_, serving,
                 in_messages_, crashed, links, server_vars, history_vars>>

(***************************************************************************)
(* UnlinkToDeath and ClearDeathNotification: dead_recipients_ is updated   *)
(* before the server is asked.                                             *)
(***************************************************************************)
(* Mutants: the server is not told; an entry without handles is kept.      *)
UnlinkToDeath_Silent(t, p, r) ==
  /\ Begins(t, p, r, "cleared")
  /\ r \in obituaries_[p]
  /\ p \in DOMAIN dead_recipients_
  /\ dead_recipients_' = Erase(dead_recipients_, p)
  /\ UNCHANGED <<handle_, freed, obituaries_, obituaries_sent_, serving,
                 in_messages_, crashed, links, server_vars, history_vars>>

UnlinkToDeath_KeepsEmpty(t, p, r) ==
  /\ Begins(t, p, r, "clear")
  /\ r \in obituaries_[p]
  /\ p \in DOMAIN dead_recipients_
  /\ dead_recipients_' = [dead_recipients_ EXCEPT ![p] = @ - 1]
  /\ UNCHANGED <<handle_, freed, obituaries_, obituaries_sent_, serving,
                 in_messages_, crashed, links, server_vars, history_vars>>

UnlinkToDeath(t, p, r) ==
  /\ Begins(t, p, r, "clear")
  /\ r \in obituaries_[p]
  /\ p \in DOMAIN dead_recipients_
  /\ IF dead_recipients_[p] > 1
       THEN /\ dead_recipients_' = [dead_recipients_ EXCEPT ![p] = @ - 1]
            /\ UNCHANGED serving
       ELSE /\ dead_recipients_' = Erase(dead_recipients_, p)
            /\ serving' = Invalidated
  /\ UNCHANGED <<handle_, freed, obituaries_, obituaries_sent_, in_messages_,
                 crashed, links, server_vars, history_vars>>

OnClearDeathNotification(t) ==
  /\ thread[t].pc = "clear"
  /\ LET h == handle_[thread[t].proxy]
     IN  /\ thread' = [thread EXCEPT ![t].pc = "cleared",
              ![t].status = IF h \in DOMAIN death_notifications_ THEN OK
                                                                 ELSE BadValue]
         /\ death_notifications_' = Erase(death_notifications_, h)
  /\ UNCHANGED <<object_vars, dead_recipients_, serving, in_messages_, crashed,
                 links, known, references_, history_vars>>

Unlinked(t) ==
  /\ thread[t].pc = "cleared"
  /\ LET p == thread[t].proxy
         r == thread[t].recipient
     IN  /\ IF thread[t].status = OK
              THEN /\ obituaries_' = [obituaries_ EXCEPT ![p] = @ \ {r}]
                   /\ owed' = owed \ {<<p, r>>}
              ELSE UNCHANGED <<obituaries_, owed>>
         /\ lock_' = [lock_ EXCEPT ![p] = Nobody]
  /\ thread' = [thread EXCEPT ![t] = Idle]
  /\ UNCHANGED <<handle_, freed, obituaries_sent_, dead_recipients_, serving,
                 in_messages_, crashed, links, server_vars, reported, misled>>

-----------------------------------------------------------------------------
(***************************************************************************)
(* The links that are in place on h.                                       *)
(***************************************************************************)
LinksTo(h) ==
  {x \in Proxies \X Recipients :
     Lives(x[1]) /\ handle_[x[1]] = h /\ x[2] \in obituaries_[x[1]]}

(* Mutants: the references are dropped before the loop over them; the      *)
(* messages carry the id registered for any handle.                        *)
HandleDies_NoReferences(h) ==
  /\ h \in known
  /\ known' = known \ {h}
  /\ references_' = [references_ EXCEPT ![h] = 0]
  /\ owed' = owed \cup LinksTo(h)
  /\ UNCHANGED <<object_vars, client_vars, death_notifications_, reported, misled>>

HandleDies_OtherId(h) ==
  /\ h \in known
  /\ known' = known \ {h}
  /\ references_' = [references_ EXCEPT ![h] = 0]
  /\ \E g \in DOMAIN death_notifications_ :
       in_messages_' = in_messages_ \o
         [i \in 1 .. references_[h] |-> death_notifications_[g]]
  /\ owed' = owed \cup LinksTo(h)
  /\ UNCHANGED <<object_vars, dead_recipients_, thread, serving, crashed,
                 links, death_notifications_, reported, misled>>

(***************************************************************************)
(* The session that exported h ends: RemoveHandle sends a DeadBinder for   *)
(* every reference of this client, if it is registered.  The registration  *)
(* itself stays.                                                           *)
(***************************************************************************)
HandleDies(h) ==
  /\ h \in known
  /\ known' = known \ {h}
  /\ references_' = [references_ EXCEPT ![h] = 0]
  /\ in_messages_' = IF h \notin DOMAIN death_notifications_ THEN in_messages_
       ELSE in_messages_ \o
              [i \in 1 .. references_[h] |-> death_notifications_[h]]
  /\ owed' = owed \cup LinksTo(h)
  /\ UNCHANGED <<object_vars, dead_recipients_, thread, serving, crashed,
                 links, death_notifications_, reported, misled>>

-----------------------------------------------------------------------------
(***************************************************************************)
(* ProcessAndExecuteCommand on a DeadBinder message.  dead_recipients_ is  *)
(* searched, SendObituary runs, and then the entry is erased through the   *)
(* iterator of the search.  No step takes a lock.                          *)
(***************************************************************************)
DequeueMessage(w) ==
  /\ serving[w] = Idle
  /\ in_messages_ # << >>
  /\ serving' = [serving EXCEPT ![w] = [pc |-> "dequeued", stale |-> FALSE,
                                        proxy |-> Head(in_messages_)]]
  /\ in_messages_' = Tail(in_messages_)
  /\ UNCHANGED <<object_vars, dead_recipients_, thread, crashed, links,
                 server_vars, history_vars>>

FindRecipient(w) ==
  /\ serving[w].pc = "dequeued"
  /\ serving' = [serving EXCEPT ![w] =
       IF serving[w].proxy \in DOMAIN dead_recipients_
         THEN [@ EXCEPT !.pc = "found"]
         ELSE Idle]
  /\ UNCHANGED <<object_vars, dead_recipients_, thread, in_messages_, crashed,
                 links, server_vars, history_vars>>

SendObituary(w) ==
  /\ serving[w].pc = "found"
  /\ serving' = [serving EXCEPT ![w].pc =
       IF obituaries_sent_[serving[w].proxy] THEN "sent" ELSE "sending"]
  /\ UNCHANGED <<object_vars, dead_recipients_, thread, in_messages_, crashed,
                 links, server_vars, history_vars>>

(* A mutant: obituaries_sent_ is not set.                                  *)
OnObjectDied_NotMarked(w) ==
  /\ serving[w].pc = "sending"
  /\ LET told == {serving[w].proxy} \X obituaries_[serving[w].proxy]
     IN  /\ reported' = [x \in DOMAIN reported |->
                           IF x \in told THEN reported[x] + 1 ELSE reported[x]]
         /\ owed' = owed \ told
  /\ serving' = [serving EXCEPT ![w].pc = "sent"]
  /\ UNCHANGED <<object_vars, dead_recipients_, thread, in_messages_, crashed,
                 links, server_vars, misled>>

OnObjectDied(w) ==
  /\ serving[w].pc = "sending"
  /\ LET p == serving[w].proxy
         told == {p} \X obituaries_[p]
     IN  /\ reported' = [x \in DOMAIN reported |->
                           IF x \in told THEN reported[x] + 1 ELSE reported[x]]
         /\ owed' = owed \ told
         /\ obituaries_sent_' = [obituaries_sent_ EXCEPT ![p] = TRUE]
  /\ serving' = [serving EXCEPT ![w].pc = "sent"]
  /\ UNCHANGED <<handle_, freed, lock_, obituaries_, dead_recipients_, thread,
                 in_messages_, crashed, links, server_vars, misled>>

(***************************************************************************)
(* Erasing through a stale iterator is undefined: it takes out whatever    *)
(* entry is there now, or ends the process.  misled remembers the objects  *)
(* that lost their entry this way to the death of another.                 *)
(***************************************************************************)
EraseRecipient(w) ==
  /\ serving[w].pc = "sent"
  /\ \/ /\ ~serving[w].stale
        /\ dead_recipients_' = Erase(dead_recipients_, serving[w].proxy)
        /\ UNCHANGED <<crashed, misled>>
     \/ /\ serving[w].stale
        /\ \E q \in DOMAIN dead_recipients_ :
             /\ dead_recipients_' = Erase(dead_recipients_, q)
             /\ misled' = misled \cup ({q} \ {serving[w].proxy})
        /\ UNCHANGED crashed
     \/ /\ serving[w].stale
        /\ crashed' = TRUE
        /\ UNCHANGED <<dead_recipients_, misled>>
  /\ serving' = [Invalidated EXCEPT ![w] = Idle]
  /\ UNCHANGED <<object_vars, thread, in_messages_, links, server_vars,
                 reported, owed>>

-----------------------------------------------------------------------------
ThreadStep(t) ==
  \/ OnRequestDeathNotification(t)
  \/ Linked(t)
  \/ OnClearDeathNotification(t)
  \/ Unlinked(t)

WorkerStep(w) ==
  \/ DequeueMessage(w)
  \/ FindRecipient(w)
  \/ SendObituary(w)
  \/ OnObjectDied(w)
  \/ EraseRecipient(w)

Next ==
  /\ ~crashed
  /\ \/ \E p \in Proxies, h \in Handles : Create(p, h)
     \/ \E p \in Proxies : Destroy(p)
     \/ \E t \in Threads, p \in Proxies, r \in Recipients :
          LinkToDeath(t, p, r) \/ UnlinkToDeath(t, p, r)
     \/ \E t \in Threads : ThreadStep(t)
     \/ \E h \in Handles : HandleDies(h)
     \/ \E w \in Workers : WorkerStep(w)

(***************************************************************************)
(* A call to the server is answered and its thread goes on; the workers    *)
(* keep executing commands.  Nobody has to link, to unlink or to die.      *)
(***************************************************************************)
Fairness ==
  /\ \A t \in Threads : WF_vars(~crashed /\ ThreadStep(t))
  /\ \A w \in Workers : WF_vars(~crashed /\ WorkerStep(w))

Spec == Init /\ [][Next]_vars /\ Fairness

-----------------------------------------------------------------------------
(***************************************************************************)
(* Properties.                                                             *)
(***************************************************************************)

(* While a handle is alive, the id the server would send for its death     *)
(* leads to an entry of dead_recipients_, so the message does not get lost *)
(* in the client: link and unlink of several threads, several proxies of   *)
(* the same handle and refused requests keep the two sides in step.  Only  *)
(* an entry that a worker erased through a stale iterator, serving another *)
(* object's death, is missing.                                             *)
RegisteredHasRecipient ==
  \A h \in known \cap DOMAIN death_notifications_ :
    LET p == death_notifications_[h]
    IN  \/ p \in DOMAIN dead_recipients_
        \/ p \in misled
        \/ \E t \in Threads : thread[t] # Idle /\ thread[t].proxy = p
                              /\ thread[t].pc = "clear"

(* "Sending the death notification for the same object should not lead to  *)
(* the death being reported twice", although the server sends one message  *)
(* for every reference the client holds.                                   *)
ReportedOnce == \A x \in DOMAIN reported : reported[x] <= 1

(* Nobody is told of the death of an object that is alive, while others    *)
(* die, are linked and unlinked, and share recipients with it.             *)
NoFalseObituary ==
  \A x \in DOMAIN reported : reported[x] > 0 => handle_[x[1]] \notin known

(* A recipient that was linked when the object died is told in the end,    *)
(* unless it is unlinked before that, or the entry of the object was       *)
(* erased through a stale iterator.                                        *)
OwedIsReported ==
  \A x \in Proxies \X Recipients :
    x \in owed ~> (x \notin owed \/ crashed \/ x[1] \in misled)
=============================================================================

# A TLA+ verification of binderd

binderd replaces the Android binder kernel driver by a user space server.
Clients connect to it over a UNIX socket, export objects, call the objects of
other clients through handles, take references and ask to be told when an
object dies. The program's own code is `src/src/binderd` (about 7000 lines of
C++); `src/external` is vendored. There is no prose documentation: what the
program promises is taken from its comments, log messages and unit tests
(`src/tests/unit`).

Paths below are relative to `src/src/binderd` unless they say otherwise.

## 1. Inventory

| Component | State | Operations | Talks to |
|---|---|---|---|
| `Registry` (registry.cpp) | `handles_`: handle to exporting session; `references_`: handle to vector of sessions; `context_mgr_`, `monitor_`; `next_object_handle_` | NewObjectHandle, FindSessionByHandle, AddReferenceForHandle, RemoveReferenceForHandle, RemoveHandle | calls SendDeathNotification of the referencing sessions |
| `ServerSession` (server_session.cpp) | `objects_`, `pending_transactions_`, `death_notifications_`, `next_transaction_cookie_` | ProcessMessage and its handlers, PostTransaction, TranslateObjects, Terminate | Registry; PostTransaction of the target session; its Messenger; the monitor |
| `ServerImpl` (server_impl.cpp) | the socket file, acceptor, list of sessions, io threads, `exit_` | constructor (remove_socket_if_stale), StartAccept, Run, RunAsync, Stop | creates sessions; swallows exceptions of handlers |
| `ClientImpl` (client_impl.cpp) | `pending_calls_` (a promise each), `in_messages_`, `dead_recipients_`, `next_cookie_`, strand, two io threads, thread pool | Transact and the calls built on it, OnNewMessage, HandleContextObjectMessage, ProcessAndExecuteCommand, Terminate | Messenger, ObjectPool, ObjectTranslator, RemoteObject |
| `RemoteObject` (remote_object.cpp) | handle, recipients, `obituaries_sent_`, a mutex | constructor and destructor (acquire, release), LinkToDeath, UnlinkToDeath, SendObituary | ClientImpl |
| `SocketMessenger` (socket_messenger.cpp) | `write_queue_`, `body_` (read buffer) | ReadNextMessage, WriteData, WriteNext, OnMessageSent | asio; its user's read handler |
| Messages (message.cpp, buffer.cpp, common/binary\_*) | a header and a payload, which is a view of the read buffer | Pack, Unpack, readers and writers | - |
| `ObjectTranslator`, `ObjectPool`, parcel reader and writer | ids for addresses; reference counts of local objects | Adopt, Release, Find | ClientImpl |
| Service manager (service_manager_*.cpp) | names to objects, with a death link each | AddService, GetService, CheckService, ListServices | RemoteObject, ClientImpl |
| Commands (cmds/*.cpp, client.cpp) | - | server, service-manager, client, service, monitor | start and use the above |
| CLI, daemon, logger | - | options, text | - |

What is hard here:

- *Concurrency.* The server command runs every handler on one thread
  (`cmds/server.cpp:27-28`), so its difficulty is in sequences of messages and
  disconnects of several clients. A client has application threads, two io
  threads, a strand and up to 15 pool threads on maps without a common lock.
- *Two maps for one fact.* A handle is in `Registry::handles_` and in the
  `objects_` of one session; a transaction is in `pending_transactions_` of the
  callee and in `pending_calls_` of the caller; a death link is in
  `obituaries_`, in `dead_recipients_` and in `death_notifications_`.
- *Partial work.* TranslateObjects stops in the middle; PostTransaction fails
  after the sender's objects were exported; an exception leaves a read handler
  and no further read is started.
- *Cookies.* Calls and incoming transactions are numbered independently and
  looked up in one map; cookies are written as 64 bits and read back as one
  byte.
- *Death.* Disconnects race with references, registrations, and with several
  notifications of one death.

- *Bytes.* Integers and lengths are written in 2, 4 or 8 bytes and read back as
  one; strings are padded and terminated by one end and not by the other.
- *Objects.* An object is an address, an id, a cookie or a handle, depending on
  where it is, and every step of a transaction translates between two of them.
- *Buffers.* A message is a view of the read buffer; a buffer that is being
  written is released when the function that started the write returns.
- *Crashes.* A server that is killed leaves its socket file behind.

Every hazard, with its line and the properties that address it, is in
`PROJECT.json`.

The properties that make the parts correct:

- Registry and sessions: the two maps agree; a handle keeps its meaning and is
  not reused; roles belong to live sessions; every request is answered once; OK
  means delivered; a reply goes to its caller; reference holders learn of
  deaths.
- Client: a call returns with its own answer, can always be woken, does
  return, and leaves `pending_calls_`; the reader keeps reading; an incoming
  transaction is served once and answered.
- Death links: a registration has a recipient; a death is reported, once, and
  only when it happened.
- Messenger: one write at a time; messages arrive in order and once; what is
  used is what was sent; a queued message is delivered. A damaged length ends
  this, and what is left then is stated too.
- Wire format: what is read is what was written, a frame is one message, a
  status in a reply is understood.
- Objects: a transaction reaches the object that was meant; what is received is
  what was passed.
- Service manager: a name keeps its object; a listing is exact; a service that
  ended is forgotten.
- Server process: a stale socket file is told from one in use; every
  connection is served.

## 2. Plan

Models done: `BinderTypes`, `Registry` and `BinderServer`; `ClientCalls`; `DeathLinks`; `SocketMessenger`, shown to implement the abstract
`Channel`; `WireFormat`; `ObjectPassing`; `ServiceManager`; `ServerLifecycle`.

Proofs done: every safety and action property that a run of these modules
checks is a theorem (section 5), and so is the refinement of `Channel`.

Left, in this order:

1. Weaker hypotheses for the theorems that have one: `ReaderKeepsReading` with
   one-way transactions whose targets do not reply, and `NoFalseObituary` with
   addresses that are reused only when no message about them is under way.
2. The shutdown of the thread pool (Terminate notifies without `read_lock_`).
3. `BinderSystem`: the server of `BinderServer` with several clients of
   `ClientCalls`, where calls travel the whole way and a target may die in
   between. It would replace the server's half of `ClientCalls`, which is the
   environment of one client.

Abstract specifications: `Channel`, and still to be written a *directory of
objects*, in which a handle is a name that is bound once, resolved while its
owner lives and never bound again; `HandlesKeepTheirMeaning` is its core. Runs
stay few: a finding that needs a run of its own gives way to a new module, and
section 6 keeps it with the constants that reproduce it.

## 3. Modules

### BinderTypes

Status codes, message types, flat objects and messages. A message keeps its
type, cookie, destination, the integers its handler reads and its objects; the
data bytes and the transaction code are dropped, since the server copies them
and decides nothing on them. `ReadValue` is what `BinaryReader::ReadValue` does
to an integer: it keeps the lowest byte (`common/binary_reader.cpp:83`). `Insert`
and `Erase` are the operations of `std::unordered_map` the code uses.

### Registry and BinderServer

The variables have the names of the members. A variable of a session is a
function on `Sessions`. `references_` counts how often a session is in the vector
of a handle: order in the vector is only the order of the notifications.
`session` is the life of a connection: `none`, `open`, `stalled` (an exception
left its read handler, so nothing of it is read again, not even its end) and
`closed`. `handled` and `written` hold the message the last step processed and
what it wrote; only properties read them.

An action is a whole handler: `ReadNextMessage(s, msg)` for each message,
`StartAccept` and `Terminate`. `ProcessMessage` is the switch of
`server_session.cpp:345-373`; under it there is one disjunct per handler, and one
for the exceptions (`ReadHandlerThrows`, `OnUnreadableTransaction`).
`TranslateObjects` is the loop of lines 174-225 as a function of the objects: it
runs for the sender on the state before, and for the target on the result; the
walk ends at the first object of an unknown type and keeps what it did. A
message may ask for anything at any time: clients are not assumed to behave.

### ClientCalls

One client. `thread` is where a calling thread is in Transact: StartCall,
QueueMessage and the wait are separate steps, because OnNewMessage and
FinishCall run on other threads in between. `promise` holds what a promise was
set to, `strand_` the tasks of the strand, `serving` what a pool thread or the
strand executes. The strand may make calls of its own (`NestedCalls`): the
context object does so when it serves a transaction. `reading` becomes FALSE
when an exception leaves OnNewMessage before the next read is started.

The server is reduced to what this client sees of it: it acknowledges or
refuses, takes answers under the first cookie that matches, posts transactions
numbered from 0 and sends death notifications with cookie 0. Each message
carries `of`, what its sender meant it for; no step of the model reads it except
to copy it, so it serves the properties only.

### DeathLinks

The remote objects of one client, the part of ClientImpl behind LinkToDeath and
UnlinkToDeath, the pool threads on a DeadBinder message, and what the client's
session keeps at the server. A call to the server is three steps (client,
server, client) under the mutex of the object; executing a DeadBinder is five,
without it. Erasing through an iterator of `dead_recipients_` that has become
stale is undefined behaviour: it takes out whatever entry is there, or the process
ends (`crashed`). `owed`, `reported` and `misled`, the objects that lost their entry
to the death of another this way, are for the properties.

### SocketMessenger and Channel

One direction of a connection. A message is a frame of two parts, length and
body, and the socket has room for a few parts, so that a write may be taken in
pieces. `pc` is where each caller of WriteData and the write strand is:
push, test of the size, WriteNext, and pop, test, WriteNext and close are
separate steps because a client takes them on different threads (`Concurrent`).
The buffer of a write is released when WriteNext returns; a part taken after
that is intact or damaged (`TakeRest`). ReadMessageAsync checks nothing: it
resizes `body_` to whatever length it read, waits for as many bytes, calls the
handler and reads on. So a damaged length puts the reader out of step
(`broken`): from then on a read may end in the middle of a part or behind it,
a length of 0 calls the handler at once, the bytes of one part can make up
several messages, and the reader may come in step again by chance. When the
user's work throws on such a message, no further read is started
(`HandlerReturns`). The reader has one buffer, `body_`; a message in use is a view
of it (`UseMessage`), and a client keeps messages across the next read
(`KeepsMessages`).

`Channel` is a queue: Send appends, Deliver takes the head and hands it over, or a
damaged message in its place. It may Break, when the two ends no longer agree
on where messages begin; then messages are lost from the head (Lose) and damaged
ones are made up (MakeUp). `SocketMessenger` is mapped to it by
`queued <- SubSeq(sent, (gone \div 2) + 1, Len(sent))`: everything given to
WriteData whose body was not read off the socket yet. WriteData is Send,
ReadBody in step is Deliver, the first damaged length is Break, reads out of step
are MakeUp, Lose or nothing, every other step stutters.

### WireFormat

The bytes. A writer is a sequence of bytes with a position, as in
BinaryWriter: it grows in steps, and `Unwritten` stands for what realloc
left there. WriteData pads and masks the padding; strings of 16-bit units are
written with a terminator. A reader takes whole words and keeps the lowest byte.
Around them are the transaction (flags, code, data, objects), the message header
and MessageParser. One behaviour writes up to `MaxFields` fields, sends them
plainly or as a transaction, or sends a status, and reads everything back; an
exception is `failed`, or `threw` in the parser.

The assumptions on the constants are the C++ types. `FieldsAssumption`: a field is
an integer of 2, 4 or 8 bytes, bytes, or units of 16 bits; integers of 64 bits
are numbers that fit in 32, since TLC has no others. `StatusesAssumption`: a status
is an `int32_t`, and of the values in `status.h` only OK and UnknownError
(`INT32_MIN`) have a lowest byte of 0; `MCStatuses` lists all of them and TLC
evaluates the assumption on the list. `WireAssumption`: destination, cookie and
code are read as they were written, which is so below 256 only.

### ObjectPassing

Three clients, one of which is the context manager; any of them, the manager too,
owns objects. An address of a local object is the object itself. WriteObject adopts an object (`references_`), the
translator of the sender replaces its address by an id (`objects_`), the server
gives the id a handle (`exported`), and the receiver reads a proxy; a handle that
comes back to its owner becomes a weak binder, which ReadObject does not know. A
transaction to a handle goes the same way back: handle to cookie, cookie to id,
id to address, address to an entry of the pool; at the manager it goes to the
context object whatever its cookie (`Lookup`, client_impl.cpp:137). Replies go through the
translators of the clients but not through the server's. Each message carries, as
history, what its sender meant. AddRef and Release are actions of the pool
although the program never calls them; their counter wraps at `CountMod`, which
stands for 2^32.

### ServiceManager

The service-manager command from BecomeContextManager on, the service and its map,
the commands that add, get and list, and what the server and RemoteObject do
for a death link. Requests that are read between BecomeContextManager and
SetContextObject are executed by the pool (`early`), beside the strand; AddService
is five steps because it waits for the server twice. The order of the map may
change with every insertion. A listing is one transaction for each index.

### ServerLifecycle

ServerImpl as a process: the test of the file, the search of /proc/net/unix, the
removal and the bind are separate steps; workers leave `io_->run()` when it is
stopped or a handler throws; the accept loop starts itself again, after an error
too (`AcceptFails`): such an error leaves the connection in the backlog, for asio
itself retries the accept when a connection was aborted
(src/external/asio, `socket_ops.ipp:248-263`). A crash closes the sockets and
leaves the file. Clients are created, wait to be accepted, have a session or a
stuck one.

### MCBinderServer, MCClientCalls, MCWireFormat, MCObjectPassing

The messages, calls, fields, statuses and owners the runs use. The other modules
need no definitions and are run as they are.

## 4. Runs

Sizes are distinct states. All runs end within three minutes on two cores.

| Run | States | Instance | What it shows |
|---|---|---|---|
| ServerTransactions | 274 000 | 3 sessions, 3 handles, 2 transactions per target; transactions to handles 0 and 1 with a handle and a local object, with two local objects around an unknown one, an unreadable one; SetContextMgr; a Status and a reply with an object, under the cookies 1 and 0, from anybody | `RegistryInSync`, `RequestIsAnswered`, `OkMeansDelivered`, `ExportLeadsBack`, `PendingIsSettled`, `HandleKeepsItsMeaning` |
| ServerReferences | 264 000 | 3 sessions, 2 handles, 2 references each; acquire, release, register, clear, monitor, unsupported, cut short | `TypeOK`, `RolesAreLive`, `ReferencesAreKnown`, `HoldersLearnOfDeath`, `RoleIsKept` |
| ClientCaller | 2 393 000 | 2 calling threads, 1 pool thread, 3 cookies, every kind of call, a context object that is set at some time, an incoming transaction, a death or a log entry, loss of the connection | `TypeOK`, `AnswerIsForTheCall`, `WaitingCallIsPending`, `ServedOnce` |
| ClientLive | 74 000 | 1 calling thread, 1 pool thread, a context object that is set at some time and calls back, 2 incoming transactions | `ReaderKeepsReading`, `EveryCallReturns`, `PendingCallsDrain`, `IncomingIsAnswered` |
| DeathLinks | 465 000 | 2 remote objects, 2 handles, 1 recipient, 2 threads, 1 pool thread, 4 links | `TypeOK`, `RegisteredHasRecipient`, `ReportedOnce`, `NoFalseObituary`, `OwedIsReported` |
| SocketMessenger | 114 000 | 2 callers, 4 messages, 6 calls of the read handler, room for one frame and a half | `OneWriteAtATime`, `UsedAsSent`, `ImplementsChannel`, `QueuedIsDelivered` |
| WireFormat | 34 000 | up to 3 of 13 fields on both sides of the limits of one byte, all statuses | `TypeOK`, `FieldsRoundTrip`, `FrameHoldsOneMessage`, `StatusArrivesInPart` |
| ObjectPassing | 2 610 000 | 3 clients, 3 objects (two of one client, one of the manager), 3 transactions, 2 handles, 2 calls of AddRef or Release | `TypeOK`, `RightObject`, `ReceivedIsMeant` |
| ServiceManager | 753 000 | 2 services, 3 calls of AddService, 2 names, strand and 1 pool thread | `ListingIsExact`, `NameIsKept`, `EndedIsForgotten` |
| ServerLifecycle | 50 000 | 2 servers, 3 starts, 2 workers, 2 clients, 2 accepts that fail | `StaleIsTold`, `ConnectionIsServed` |
| ObjectReplies, DeathLinksTwice | | | one finding each, section 6 |

Why the bounds are enough to be interesting. Three sessions are a caller, a
callee and a bystander whose end must not matter (or a holder whose references
must). Two handles let one outlive the other; three let one transaction export
twice. Two transactions per target let answers come in the wrong order. Two
references per holder tell "once" from "once for each". Three cookies let two
threads have a call in flight and a third call follow; with two threads all
orders of the promise, the strand and the second message occur. Two remote
objects of one handle compete for the single registration the server keeps; of
two handles, one can be alive while the death of the other is reported. One
recipient is enough: the server takes one registration for a handle and refuses
a second link of the same recipient as it would one of another, so an object
never has two linked; four links let it be linked again after an unlink and
a refusal. A socket with room for three parts is full
in the middle of the second frame; four messages let one be pushed while a
second is written and a third waits; six calls of the read handler leave room
for two that nobody sent. Data of 208 and 256 bytes take the
transaction, the message and the field over 255 bytes, one after the other.
Three transactions let an object be passed, passed on and called. Three calls of
AddService let one name be refused and one object be listed twice. Three starts
let a server find what a crash of the one before it left. Sessions are
symmetric: no message names one. In ObjectPassing the two objects of one client
are alike.

Conditions under which the runs pass, with what happens without them in
section 6:

- ClientCaller, ClientLive: `FirstCookie` is above the cookies of the incoming
  transactions the run lets happen: the client has made, and finished, some calls
  before another client calls it. Otherwise the two number spaces collide. In
  ClientLive no call is one-way, nothing arrives unasked and the connection lasts.
- DeathLinks: one thread executes commands, as in a client that calls
  ProcessAndExecuteCommand itself, and an address is not used again
  (`MayReuse = FALSE`). `RegisteredHasRecipient` and `OwedIsReported` except the
  objects that lost their entry to a stale iterator (`misled`), which is
  undefined behaviour the run does reach.
- SocketMessenger: the server's connections, where one thread does everything
  and a message is used before the next read. `QueuedIsDelivered` excepts a
  reader that is out of step.
- ObjectPassing: `RightObject` lets the context object of the manager have what is
  meant for another object of the manager, since that is what
  `client_impl.cpp:137` does; `ReceivedIsMeant` leaves local objects in replies to
  `ObjectReplies`.
- WireFormat: the properties are about integers of one byte, data and u16strings of
  fewer than 256 elements, and payloads of fewer than 256 bytes (`Agreed`, `Fits`).
  The run contains the others; for them nothing is claimed.
  A status message is claimed to arrive as its lowest byte and no more.
- ServerLifecycle: servers are started one after the other (`Exclusive = TRUE`), and
  accepts fail `MaxErrors` times: an error that never passes would make the loop
  spin and the connection wait.

*Deadlock.* CHECK_DEADLOCK is off in all runs: bounds end every behaviour, and a
system in which nobody sends anything may rest. That nobody waits forever is
what the liveness properties say instead.

*Fairness.* `BinderServer`, `WireFormat` and `ObjectPassing` have none and are
checked for safety only. In `ClientCalls` a thread inside Transact continues, asio
keeps running handlers and the strand, pool threads keep taking messages, the
server processes what it reads, and a target replies at some time; a target
that hangs or dies is deliberately outside (nothing bounds the wait in the
code). In `DeathLinks` calls are answered and pool threads continue. In
`SocketMessenger` threads and handlers continue and the kernel moves bytes while
there is room. In `ServiceManager` the strand, the pool and the server continue. In
`ServerLifecycle` threads are scheduled and a connection that waits while a worker
is inside `io_->run()` is accepted, as soon as what made an accept fail has passed. Starting a call, linking, unlinking, dying,
stopping, crashing and losing the connection are never fair. All of it is weak
fairness of threads that have nothing else to do.

## 5. What is proved

A theorem is about every value of the constants that its hypotheses allow: any
number of sessions, threads, objects, messages and calls, not the few of a run.
All constants of the runs in section 4 satisfy the hypotheses of the theorem
about the same property. The modules with proofs:

| Module | About |
|---|---|
| `BinderServerProofs` | `Registry`, `BinderServer` |
| `ClientCallsProofs` | `ClientCalls` |
| `DeathLinksProofs` | `DeathLinks` |
| `SocketMessengerProofs` | `SocketMessenger`, `Channel` |
| `ObjectPassingProofs` | `ObjectPassing` |
| `ServiceManagerProofs` | `ServiceManager` |
| `ServerLifecycleProofs` | `ServerLifecycle` |
| `WireFormatProofs` | `WireFormat` |

### The maps of the server

`BinderServerProofs` proves, for any set of sessions, any bounds and any set of
client messages, and so without the limits of the runs:

| Theorem | Statement |
|---|---|
| `InductiveInvariant` | `Spec => []IInv` |
| `TypeCorrectness` | `Spec => []TypeOK` |
| `RegistryStaysInSync` | `Spec => []RegistryInSync` |
| `RolesStayLive` | `Spec => []RolesAreLive` |
| `ReferencesStayKnown` | `Spec => []ReferencesAreKnown` |
| `HandlesKeepTheirMeaning` | `Spec => HandleKeepsItsMeaning` (action property) |
| `RolesAreKept` | `Spec => RoleIsKept` (action property) |

Assumptions: `NoSession` is not a session, the three bounds are naturals, and
`ClientMessages` is a set of messages. All are weaker than what the code has.

The argument. `RegistryInSync` is not inductive: a new handle might already be in
the table, and a session that becomes live might own objects the registry does
not know. `IInv` adds `HandlesAreAllocated` (everything in either map is below
`next_object_handle_`, the maps of closed sessions included) and
`UnstartedExportsNothing`. The step for a transaction is the difficult one, since
two sessions translate the same objects one after the other before anything is
stored: `TranslationInSync` states the invariant of the intermediate result,
`UntranslatedInSync` that it holds at the start, `TranslateObjectsKeepsSync` that
one walk keeps it, `StoreTranslationIInv` that storing it yields `IInv'`.
Under the walk are `HandleAtType` and `HandleAtInjective` (the handles a walk gives
out are new and distinct), by cardinality of the exports before a position.
Terminate needs both halves of `RegistryInSync`: the handles removed are exactly
those that lead to the session. There is one lemma per handler, and `FrameIInv` for
the handlers that do not touch the maps. Type correctness carries more than
types: `written` is a set of messages to sessions, so no handler ever writes to
the null monitor.

The two action properties follow from `IInv` step by step. For handles,
`KeepsMeaning(u, v)` relates two states of a translation; one walk satisfies it
(`TranslateObjectsKeepsMeaning`), `OnTransactionMeaning` composes the walk of the
sender with that of the target, and every other step leaves the maps alone or,
as Terminate does, only removes handles. For roles, `NextRoleStep` needs no more
than `TypeOK`.

`IInv` is an invariant for the proof and no run checks it by itself; its parts
`RegistryInSync`, `RolesAreLive`, `ReferencesAreKnown` and `TypeOK` are in the runs of
the server.

### What the server writes

The second half of `BinderServerProofs` builds on `IInv`.

| Theorem | Statement |
|---|---|
| `CookiesStayFresh` | `Spec => []CookiesAreUsedUp` |
| `RequestsAreAnswered` | `CookiesFitOneByte` implies `Spec => []RequestIsAnswered` |
| `OkIsDelivered` | `CookiesFitOneByte` implies `Spec => []OkMeansDelivered` |
| `ExportsLeadBack` | `Spec => []ExportLeadsBack` |
| `PendingIsOnlySettled` | `Spec => PendingIsSettled` (action property) |
| `DeathIsReported` | `Spec => HoldersLearnOfDeath` (action property) |

`CookiesFitOneByte` says that the clients' cookies are below 256. It is needed:
`BinaryReader` keeps one byte of a cookie, so that the answer to a request with a
larger one carries another cookie (section 6). `CookiesAreUsedUp` (a session's
`next_cookie_` is above all cookies that have a record) is what `OkMeansDelivered`
and `PendingIsSettled` need, since the map's insert does not replace a record. For
`ExportsLeadBack` the argument of the maps is used again: both walks of a
transaction are followed object by object, and what the second leaves of the
first is a handle of another session or a binder of the target itself.
`DeathIsReported` needs `RegistryInSync`: the handles that Terminate walks over are
exactly those of the session.

### Calls of a client

| Theorem | Statement |
|---|---|
| `CallInvariant`, `ClientTypes` | `Spec => []CallInv`, `Spec => []TypeOK` |
| `WaitingCallsStayPending` | `Spec => []WaitingCallIsPending` |
| `AnswerInvariant` | `CookiesApart` implies `Spec => [](CallInv /\ SocketInv /\ KeptInv)` |
| `AnswersAreForTheirCalls` | `CookiesApart` implies `Spec => []AnswerIsForTheCall` |
| `TransactionsAreServedOnce` | `ServedApart` implies `Spec => []ServedOnce` |
| `TheReaderKeepsReading` | `CookiesApart`, `TwoWayOnly` imply `Spec => []ReaderKeepsReading` |

The first two need nothing. `WaitingCallIsPending` is inductive with `FinishInv`
(a FinishCall on the strand is of a call whose promise is set) and `ThreadInv`
(what `pending_calls_` and the promise hold under the cookie of a thread is of the
thread's call).

The hypotheses of the others are the conditions under which the protocol works
at all, and section 6 says what happens without them:

- `CookiesApart`: cookies of calls are at most 255, and none of them is a cookie
  the server gives to a message of its own. The client looks up every message
  under its cookie, whoever chose it.
- `ServedApart`: the same, and cookies of the server's transactions that fit in a
  byte. Death notifications may come at any time; their acknowledgement with
  cookie 0 is one more message that is in no place of a transaction.
- `TwoWayOnly`: no one-way calls. The server acknowledges the delivery of one with
  the status that settles it, and the target's reply is a second answer.

`AnswerInvariant` says of each queue, task and thread which messages may be in it:
every message under the cookie of a call was caused by that call.
`TheReaderKeepsReading` needs more, that there is one such message that settles
the call: `PlacesInv` says that the request, the transaction at its target, the
answer and the set promise exclude each other, and that there is at most one of
each. `ServedOnce` is inductive with `CarriedInv`, which says of each place (socket,
strand, queue, pool, socket) what it may hold of a transaction, and `OnceInv`,
which says of each pair of places that they do not hold the same one.

### Death links

| Theorem | Statement |
|---|---|
| `LinkTypes` | `Spec => []TypeOK` |
| `OneWorkerReportsOnce` | `OneWorker` implies `Spec => []ReportedOnce` |
| `ObituariesAreTrue` | `MayReuse = FALSE` implies `Spec => []NoFalseObituary` |
| `RegisteredUnlessStale` | `MayReuse = FALSE` implies `Spec => []RegisteredHasRecipient` |
| `OneHandleIsRegistered` | `MayReuse = FALSE` and one handle imply `Spec => []RegisteredFindsEntry` |

`OneWorker` is a client that calls ProcessAndExecuteCommand itself; with two
threads the run `DeathLinksTwice` shows the violation. `MayReuse = FALSE` says that
the allocator does not give the address of a destroyed object to a new one while
a message with the old one is on its way: the address is the only name of an
object in `dead_recipients_` and in the server. `ObituariesAreTrue` needs `DeadInv`,
that registrations name an object of their handle and that the messages under
way are about handles the server no longer knows. A
worker keeps an iterator into `dead_recipients_` without a lock, and
erasing through one that went stale may take the entry of another object.
`RegisteredHasRecipient` excepts the objects this happened to, and
`RegisteredUnlessStale` says that nothing else can part the two sides.
`RegisteredFindsEntry` is the same without the exception, and holds with one
handle: whoever executes a DeadBinder then can only harm the dead.

### Messages on a connection

| Theorem | Statement |
|---|---|
| `MessengerInvariant` | `Concurrent = FALSE` implies `Spec => []IInv` |
| `WritesOneAtATime` | `Concurrent = FALSE` implies `Spec => []OneWriteAtATime` |
| `MessengerImplementsChannel` | `Concurrent = FALSE` implies `Spec => ImplementsChannel` |
| `MessagesAreUsedAsSent` | `Concurrent = FALSE`, `KeepsMessages = FALSE` imply `Spec => []UsedAsSent` |

`Concurrent = FALSE` is the server, where one thread runs all handlers;
`KeepsMessages = FALSE` is a user that is done with a message when its read handler
returns, as the server's session is. The parts of all frames are numbered in
the order in which they go through the socket: message m is part 2m-1, its
length, and part 2m, its body. `IInv` says which number is next for the write
under way and the socket, that they have no gap between them, and that the
reader, until it has read a length that is none, has handed over as many
messages as it has read bodies (`ReadInv`). `HarmInv` says that only parts taken
late do harm: a body to its message, a length to its message and all behind it.
A step appends to the channel's queue (WriteData), takes its head (a body is
read) or leaves it, which follows from the numbers, in step or out of it.

### Objects as arguments

| Theorem | Statement |
|---|---|
| `PassingInvariant` | `Spec => []PassingInv` |
| `PassingTypes` | `Spec => []TypeOK` |
| `TransactionsReachTheirObject` | `Spec => []RightObject` |
| `ReferencesArriveAsMeant` | `Spec => []ReceivedIsMeant` |

For any clients and any finite set of objects. Neither property says anything of
messages under way, so neither is inductive. `PassingInv` says of each request,
posted transaction and reply that the reference in it still means what its
sender meant: an id is in the table of the client that sent it, at that object; a
handle is an owner and an id of the owner's table. `MeaningsStay` is the core:
this is kept by any step after which the tables of clients and server extend
what they were (`Grown`), and all steps are of that kind. `TablesOK` (an object has
one id) gives the bound on ids in `TypeOK` by counting. Two things remain
excepted: a local object in a reply, whose id the server does not translate (the
run `ObjectReplies` shows what happens to it), and in `RightObject` a
transaction for an object of the context manager, which its context object gets.

### Names of services

| Theorem | Statement |
|---|---|
| `ManagerInvariant` | `Spec => []ManagerInv` |
| `NamesAreKept` | `Spec => NameIsKept` (action property) |
| `ListingsAreExact` | `Spec => ListingIsExact` (action property) |

For any names, services, calls and pool. `NameIsKept` needs that a DeadBinder
message is about a service that has ended (`MessagesInv`), which needs that the
proxy the server has for a handle is one of that handle (`RegisteredInv`) and that
a handle that is not alive stays so, because handles are numbered upwards
(`ProxiesInv`). `ListingIsExact` needs `ListingInv`: while the map has not changed,
the names so far are those of the first n entries. An insertion may give the map
any order; that it keeps all entries is a matter of counting
(`SetToSeqsHasAll`).

### Start of a server

`StaleFilesAreTold`: `Exclusive = TRUE` implies `Spec => []StaleIsTold`. Servers are
started one after the other; started at once, one may remove the socket another
has just bound, which section 6 reports. `PathInv` says of a start under way that
what it has learned of the path still holds.

### Bytes of a message

| Theorem | Statement |
|---|---|
| `WireInvariant` | `Spec => []WireInv` |
| `SentBytesAreWritten` | `Spec => []TypeOK` |
| `FramesHoldOneMessage` | `Spec => []FrameHoldsOneMessage` |
| `StatusesArriveInPart` | `Spec => []StatusArrivesInPart` |
| `FieldsComeBack` | `Spec => []FieldsRoundTrip` |

For any fields of the types above, any number of them in any order, any
contents and all statuses; the run has 13 fields and at most three in a message.
The limits of one byte are in the properties themselves (`Agreed`, `Fits`) and not
hypotheses of the theorems. The assumptions are the three of section 3.

No function of the writer or reader is recursive: each puts or takes one run of
bytes. The repetition is in the behaviour, so an invariant takes the place of
an induction over data. The properties speak of the ends, what was written and
what was read; `WireInv` of the bytes between:

- `IsWriter`: all of the buffer is written, and written with bytes, so that padding
  is never what realloc left there.
- `LaidOut(fields, writer.buffer, off)`: there are offsets such that field i lies
  between `off[i - 1]` and `off[i]` in the encoding of its kind. `LayoutGrows` keeps
  it when a field is added, since bytes that were written stay (`At`).
- `SentInv`: a sent frame is `Pack` of one message, the payload of which is the
  parcel, the transaction around it, or a status; and if it fits, MessageParser has
  read nothing yet or has read exactly that message and stands at the end of the
  frame. `FrameIsRead` is the core: header, length, data and padding are taken
  apart as they were put together, and the padded end is the length of the frame.
- `InStep(off)`: as long as the fields so far were agreed on, the receiver's reader
  has the bytes of the parcel and stands at `off[Len(got)]`. `ParcelOpens` shows that
  the transaction around the parcel comes off whole.
- `IdleInv`: what is empty before a message is sent and before it is opened.

Under these are lemmas on the encodings: an integer's first byte is its value
modulo 256 and its four bytes give back an `int32_t` (`LittleEndianBytes`,
`Int32Bytes`), a string of units gives back its units (`UnitValue` and the lemmas
after it), and each function of the reader undoes its counterpart of the writer
at the place where it wrote. For a status message, where one byte is read of four,
`StatusesAssumption` is exactly what is needed.

### Only model-checked

Liveness (`EveryCallReturns`, `PendingCallsDrain`, `IncomingIsAnswered`,
`OwedIsReported`, `QueuedIsDelivered`, `EndedIsForgotten`, `ConnectionIsServed`) is
beyond the prover. Every other property of a passing run is a theorem. The
inductive invariants were checked by TLC on the constants of the runs before
they were proved.

## 6. Where the code and its texts disagree

Each of these has a run that ends in a counterexample:

- **DeathLinksTwice.** SendObituary tests `obituaries_sent_` without the mutex; two
  pool threads report one death twice, which the test at
  `src/tests/unit/client_tests.cpp:342` excludes.
- **ObjectReplies.** A local object in a reply arrives as the id its owner gave it:
  OnReply does not translate objects (`server_session.cpp:262`). The caller looks
  the id up in its own table and is handed an object of its own, or none, though
  `object_translator.cpp:104-106` speaks of "the right address".

These are found by changing the constants of a run:

- ClientCalls, one caller, `TwoWayCalls`, `FirstCookie = 0`, `MaxCookies = 3`,
  `MaxIncoming = 1`: `AnswerIsForTheCall` fails. OnNewMessage looks every cookie up in
  `pending_calls_`, whatever the type. A transaction of another client with the
  cookie of a call is taken for its answer and never executed
  (`client_impl.cpp:119`).
- ClientCalls, `OneWayOnly`, `FirstCookie = 0`, `MaxCookies = 2`: `ReaderKeepsReading`
  fails. PostTransaction does not copy the one-way flag, so the target replies; if
  the reply is read before FinishCall has run, the promise is set twice,
  `std::future_error` leaves OnNewMessage and the client never reads again
  (`client_impl.cpp:135`).
- ClientCalls, `AcquireOnly`, `FirstCookie = 254`, `MaxCookies = 258`: `EveryCallReturns`
  fails. The answer to cookie 256 comes back as cookie 0; the call never returns,
  though the comment at `client_impl.cpp:188-190` expects 64 bits.
- SocketMessenger, `Concurrent = TRUE`: `OneWriteAtATime` fails. A message pushed
  between the pop and the test of OnMessageSent is written by both
  (`socket_messenger.cpp:46-47`, `85-89`).
- SocketMessenger, `KeepsMessages = TRUE`: `UsedAsSent` fails. A message in
  `in_messages_` or in a promise is a view of `body_`, which the next read overwrites
  (`socket_messenger.cpp:104`).
- ServerLifecycle, `Exclusive = FALSE`: `StaleIsTold` fails. Of two servers started at
  once, one removes the socket the other has just bound (`server_impl.cpp:74-75`).
- DeathLinks, `MayReuse = TRUE`: `NoFalseObituary` fails. A late DeadBinder for a
  destroyed object is reported to its successor at the same address
  (`client_impl.cpp:348`).

Seen in the models as well, without a run of their own:

- The Status a client sends for a DeadBinder has cookie 0, and the server takes it
  for the answer to transaction 0 of that client (`client_impl.cpp:513`;
  `ServerTakesAnswer` of ClientCalls).
- Of a status message one byte is read: a caller is given 239 for AlreadyExists
  (-17), while `src/tests/integration/server_client_tests.cpp:59`, `72`, `96`, `112`
  and `134` compare with BadValue, NameNotFound and AlreadyExists
  (`StatusArrivesInPart` is what arrives). In a reply the status arrives whole.
- All transactions to a context manager go to its context object, the ones for its
  other objects too (`client_impl.cpp:137`), though the comment at
  `client_impl.cpp:447-449` says "This is either specified by the cookie or the
  context object if we don't have a valid cookie".
  ObjectPassing has objects of the manager, and `RightObject` excepts them by name.
- RemoveHandle notifies reference holders only; a client that registered
  without a reference is not told (`registry.cpp:60-75`; the comment at
  `server_session.cpp:67` says everyone is).
- A registration for handle 1337, as in `server_session_tests.cpp:155`, is stored
  under handle 57, for integers are read as one byte.
- The monitor sees what the server writes and of the requests only
  SetContextMgr, though its command is described as showing all messages
  (`cmds/monitor.cpp:37`).
- Loss of the connection sets no promise: a call in progress waits forever
  (`client_impl.cpp:86-91`), though callers handle a missing reply.
- A truncated Acquire, Release or death notification request stalls its session:
  its objects stay known and its roles stay taken (`stalled`).
- While a DeadBinder is executed, a link or an unlink on another thread makes
  the iterator into `dead_recipients_` stale, and the erase at
  `client_impl.cpp:509` may take out the entry of another object, whose death is
  then never reported (`misled`, which the run DeathLinks reaches).
- A socket that is full takes the rest of a write from a buffer that was released
  (`socket_messenger.cpp:73-78`); the message, or the length of the frame, may be
  damaged. After a damaged length the reader takes bytes of later messages for
  lengths and bodies, and nothing tells it so (`socket_messenger.cpp:103-116`).
- A payload of 256 bytes or more is cut and its rest parsed as further messages;
  a `std::string` is written with its terminator counted and read without; an empty
  u16string is written without the terminator the reader skips. `UnknownError`, whose
  lowest byte is 0, is read as OK from a Status message. `GetBytesRead` is
  absolute, so the parser counts the first message twice when there is a second
  (`message_parser.cpp`).
- An object that returns to its owner becomes a weak binder and is read as
  nullptr.
- A service that ends before its death link is complete, or whose handle was
  linked under another name (the server answers AlreadyExists), stays listed for
  good: AddService ignores the status of LinkToDeath
  (`service_manager_service.cpp:59`). A listing during which services come and go may
  miss a name or have one twice.

## 7. Not modelled

- The shutdown of the thread pool: planned (section 2). In `ClientCalls` a pool
  thread that finds `should_exit_` set stops at once.
- Handlers of several sessions at the same time: the server command does not use
  RunAsync, only a test does. `ServerLifecycle` has the threads, `BinderServer` one
  handler at a time.
- Memory: sessions kept alive by `references_` and `pending_transactions_`, buffers
  that cannot be allocated.
- A corrupted container from unsynchronised access (`pending_calls_`,
  `services_`): each access is one atomic step.
- Frames of 64 KiB and more, whose length does not fit in 16 bits.
- Transaction data and codes beyond what `WireFormat` says, user and process ids:
  copied, never decided upon. The texts of names and interface tokens: the manager
  compares names for equality and does not look at the token.
- The composition of a server with several whole clients: the modules meet at
  the messages, and each contains the part of the other end it depends on.
- Command line, daemon, logger, helpers in `common` and the printing of messages:
  text, and no state the protocol depends on. `src/tools`: a demonstration. `external`:
  vendored.

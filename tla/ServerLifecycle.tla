--------------------------- MODULE ServerLifecycle ---------------------------
(***************************************************************************)
(* ServerImpl from its constructor to its end, on a machine where binder   *)
(* servers are started, stopped and killed: the socket file, the accept    *)
(* loop, the worker threads and the sessions.                              *)
(*                                                                         *)
(* The file at socket_path is none, a file that is no socket, or the       *)
(* socket of the server that bound it.  It outlives that server.           *)
(***************************************************************************)
EXTENDS Integers, FiniteSets

CONSTANTS
  Servers,    \* processes that run the server
  Workers,    \* threads in Run
  Clients,    \* processes that connect
  Exclusive,  \* whether servers are started one after the other
  NoFile, OtherFile, NoServer,
  MaxStarts,  \* bound: starts of a server
  MaxErrors   \* bound: accepts that fail

ASSUME LifecycleAssumption ==
  /\ {NoFile, OtherFile, NoServer} \cap Servers = {}
  /\ Exclusive \in BOOLEAN /\ MaxStarts \in Nat /\ MaxErrors \in Nat

VARIABLES
  file,      \* what is at socket_path
  bound,     \* servers with a socket of that name in /proc/net/unix
  proc,      \* where a server is
  taken,     \* history: the path was in use when the server was started
  refused,   \* history: whether the path was in use, for starts that failed
  starts,    \* starts so far
  exit_, stopped,  \* exit_ and the state of io_
  worker,    \* where each thread of a server is in Run
  accepting, \* whether an async_accept is under way
  client,    \* what a client has: its server and a connection
  sessions,  \* sessions_
  errors     \* accepts that failed so far

start_vars == <<file, bound, proc, taken, refused, starts>>
run_vars == <<exit_, stopped, worker>>
vars == <<start_vars, run_vars, accepting, client, sessions, errors>>

Starting(v) == proc[v] \in {"stat", "unix", "remove", "bind"}
Out == [server |-> NoServer, state |-> "out"]
Has(c, v, state) == client[c] = [server |-> v, state |-> state]
Becomes(c, v, state) == client' = [client EXCEPT ![c] = [server |-> v, state |-> state]]

Init ==
  /\ file \in {NoFile, OtherFile} /\ bound = {}
  /\ proc = [v \in Servers |-> "down"] /\ taken = [v \in Servers |-> FALSE]
  /\ refused = {} /\ starts = 0
  /\ exit_ = [v \in Servers |-> FALSE] /\ stopped = [v \in Servers |-> FALSE]
  /\ worker = [v \in Servers |-> [w \in Workers |-> "off"]]
  /\ accepting = [v \in Servers |-> FALSE]
  /\ client = [c \in Clients |-> Out] /\ sessions = [v \in Servers |-> {}]
  /\ errors = 0

-----------------------------------------------------------------------------
(***************************************************************************)
(* The constructor.                                                        *)
(***************************************************************************)
Start(v) ==
  /\ proc[v] = "down" /\ starts < MaxStarts
  /\ Exclusive => \A u \in Servers : ~Starting(u)
  /\ proc' = [proc EXCEPT ![v] = "stat"]
  /\ taken' = [taken EXCEPT ![v] = bound # {} \/ file = OtherFile]
  /\ starts' = starts + 1
  /\ UNCHANGED <<file, bound, refused, run_vars, accepting, client, sessions, errors>>

(* socket_file_exists: only a socket may be stale.                         *)
SocketFileExists(v) ==
  /\ proc[v] = "stat"
  /\ proc' = [proc EXCEPT ![v] = IF file \in Servers THEN "unix" ELSE "bind"]
  /\ UNCHANGED <<file, bound, taken, refused, starts, run_vars, accepting, client,
                 sessions, errors>>

(* A mutant: every socket file is taken for a stale one.                   *)
SocketExists_Never(v) ==
  /\ proc[v] = "unix"
  /\ proc' = [proc EXCEPT ![v] = "remove"]
  /\ UNCHANGED <<file, bound, taken, refused, starts, run_vars, accepting, client,
                 sessions, errors>>

(* socket_exists: a socket of that name is open, whoever has it.           *)
SocketExists(v) ==
  /\ proc[v] = "unix"
  /\ proc' = [proc EXCEPT ![v] = IF bound # {} THEN "bind" ELSE "remove"]
  /\ UNCHANGED <<file, bound, taken, refused, starts, run_vars, accepting, client,
                 sessions, errors>>

Fail(v) ==
  /\ proc' = [proc EXCEPT ![v] = "down"]
  /\ refused' = refused \cup {taken[v]}

(* The rest of remove_socket_if_stale: whatever is there now is removed.   *)
RemoveSocket(v) ==
  /\ proc[v] = "remove"
  /\ IF file = NoFile
       THEN Fail(v) /\ UNCHANGED file
       ELSE file' = NoFile /\ proc' = [proc EXCEPT ![v] = "bind"] /\ UNCHANGED refused
  /\ UNCHANGED <<bound, taken, starts, run_vars, accepting, client, sessions, errors>>

RunAsync(v) == worker' = [worker EXCEPT ![v] = [w \in Workers |-> "test"]]

(* The acceptor binds, which needs a free name; StartAccept and RunAsync.  *)
Bind(v) ==
  /\ proc[v] = "bind"
  /\ IF file # NoFile
       THEN Fail(v) /\ UNCHANGED <<file, bound, run_vars, accepting>>
       ELSE /\ file' = v /\ bound' = bound \cup {v}
            /\ proc' = [proc EXCEPT ![v] = "up"]
            /\ accepting' = [accepting EXCEPT ![v] = TRUE]
            /\ RunAsync(v)
            /\ exit_' = [exit_ EXCEPT ![v] = FALSE]
            /\ stopped' = [stopped EXCEPT ![v] = FALSE]
            /\ UNCHANGED refused
  /\ UNCHANGED <<taken, starts, client, sessions, errors>>

-----------------------------------------------------------------------------
(***************************************************************************)
(* Run: the loop of a worker around io_->run(), which returns when io_ is  *)
(* stopped or a handler throws.                                            *)
(***************************************************************************)
TestExit(v, w) ==
  /\ worker[v][w] = "test"
  /\ worker' = [worker EXCEPT ![v][w] = IF exit_[v] THEN "ended" ELSE "run"]
  /\ UNCHANGED <<start_vars, exit_, stopped, accepting, client, sessions, errors>>

RunReturns(v, w) ==
  /\ worker[v][w] = "run" /\ stopped[v]
  /\ worker' = [worker EXCEPT ![v][w] = "test"]
  /\ UNCHANGED <<start_vars, exit_, stopped, accepting, client, sessions, errors>>

Handling(v) == ~stopped[v] /\ \E w \in Workers : worker[v][w] = "run"

(* Connect of the messenger finds the socket at the path, or fails.        *)
Connects(c) == \E v \in bound : file = v /\ Becomes(c, v, "waiting")

(* A client is created; one that could not connect remains of no use.      *)
CreateClient(c) ==
  /\ client[c] = Out
  /\ Connects(c)
  /\ UNCHANGED <<start_vars, run_vars, accepting, sessions, errors>>

(* The handler of async_accept adds and starts a session; StartAccept.     *)
OnAccept(v, c) ==
  /\ Handling(v) /\ accepting[v] /\ Has(c, v, "waiting")
  /\ Becomes(c, v, "session") /\ sessions' = [sessions EXCEPT ![v] = @ \cup {c}]
  /\ UNCHANGED <<start_vars, run_vars, accepting, errors>>

(* A connection waits and accept fails, for want of descriptors or memory. *)
AcceptError(v) ==
  /\ Handling(v) /\ accepting[v] /\ \E c \in Clients : Has(c, v, "waiting")
  /\ errors < MaxErrors /\ errors' = errors + 1

(* A mutant: an error ends the accept loop.                                *)
AcceptFails_EndsLoop(v) ==
  /\ AcceptError(v)
  /\ accepting' = [accepting EXCEPT ![v] = FALSE]
  /\ UNCHANGED <<start_vars, run_vars, client, sessions>>

(* The handler of async_accept with an error: it is logged; StartAccept.   *)
(* The connection is left where it waits.                                  *)
AcceptFails(v) ==
  /\ AcceptError(v)
  /\ UNCHANGED <<start_vars, run_vars, accepting, client, sessions>>

(* A session's read handler throws: Run goes on, the session does not.     *)
HandlerThrows(v, w, c) ==
  /\ worker[v][w] = "run" /\ ~stopped[v] /\ Has(c, v, "session")
  /\ worker' = [worker EXCEPT ![v][w] = "test"]
  /\ Becomes(c, v, "stuck")
  /\ UNCHANGED <<start_vars, exit_, stopped, accepting, sessions, errors>>

(* Terminate of a session: sessions_->Remove.                              *)
SessionEnds(v, c) ==
  /\ Handling(v) /\ Has(c, v, "session")
  /\ client' = [client EXCEPT ![c] = Out]
  /\ sessions' = [sessions EXCEPT ![v] = @ \ {c}]
  /\ UNCHANGED <<start_vars, run_vars, accepting, errors>>

-----------------------------------------------------------------------------
Stop(v) ==
  /\ proc[v] = "up" /\ ~exit_[v]
  /\ exit_' = [exit_ EXCEPT ![v] = TRUE]
  /\ stopped' = [stopped EXCEPT ![v] = TRUE]
  /\ UNCHANGED <<start_vars, worker, accepting, client, sessions, errors>>

(* The process is gone: its sockets are closed, the file stays.            *)
Gone(v) ==
  /\ proc' = [proc EXCEPT ![v] = "down"]
  /\ bound' = bound \ {v}
  /\ worker' = [worker EXCEPT ![v] = [w \in Workers |-> "off"]]
  /\ accepting' = [accepting EXCEPT ![v] = FALSE]
  /\ client' = [c \in Clients |-> IF client[c].server = v THEN Out ELSE client[c]]
  /\ sessions' = [sessions EXCEPT ![v] = {}]
  /\ UNCHANGED <<file, taken, refused, starts, exit_, stopped, errors>>

(* Stop has joined the workers; the destructors of the acceptor and of     *)
(* Sessions follow.                                                        *)
Joined(v) ==
  /\ proc[v] = "up" /\ exit_[v]
  /\ \A w \in Workers : worker[v][w] = "ended"
  /\ Gone(v)

Crash(v) == proc[v] = "up" /\ Gone(v)

-----------------------------------------------------------------------------
ServerStep(v) ==
  \/ SocketFileExists(v) \/ SocketExists(v) \/ RemoveSocket(v) \/ Bind(v)
  \/ Joined(v)

WorkerStep(v, w) == TestExit(v, w) \/ RunReturns(v, w)

Next ==
  \/ \E v \in Servers : Start(v) \/ ServerStep(v) \/ Stop(v) \/ Crash(v)
  \/ \E v \in Servers : AcceptFails(v)
  \/ \E v \in Servers, w \in Workers : WorkerStep(v, w)
  \/ \E c \in Clients : CreateClient(c)
  \/ \E v \in Servers, c \in Clients : OnAccept(v, c) \/ SessionEnds(v, c)
  \/ \E v \in Servers, w \in Workers, c \in Clients : HandlerThrows(v, w, c)

(***************************************************************************)
(* Fairness: threads are scheduled, asio runs a handler that is due on any *)
(* thread that is inside run(), connections are accepted in the order in   *)
(* which they wait, and what makes an accept fail passes.                  *)
(***************************************************************************)
Spec ==
  /\ Init /\ [][Next]_vars
  /\ \A v \in Servers : WF_vars(ServerStep(v))
  /\ \A v \in Servers, c \in Clients : WF_vars(OnAccept(v, c))
  /\ \A v \in Servers, w \in Workers : WF_vars(WorkerStep(v, w))

-----------------------------------------------------------------------------
(***************************************************************************)
(* remove_socket_if_stale tells a file left by a server that ended from    *)
(* one in use: a server that runs is the one clients reach, and a start    *)
(* fails only when the path was in use, never because of what a crash left *)
(* behind.  This is for servers that are started one after the other.      *)
(***************************************************************************)
StaleIsTold ==
  /\ \A v \in Servers : proc[v] = "up" => file = v
  /\ FALSE \notin refused

(***************************************************************************)
(* A client that connected gets its session, or the server ends            *)
(* (StartAccept, Run, Stop): neither an accept that fails, of its own or   *)
(* of another connection, nor an exception of a handler leaves it waiting. *)
(***************************************************************************)
ConnectionIsServed ==
  \A v \in Servers, c \in Clients :
    Has(c, v, "waiting") ~> (Has(c, v, "session") \/ proc[v] = "down")
=============================================================================

------------------------ MODULE ServerLifecycleProofs ------------------------
(***************************************************************************)
(* Proofs about ServerLifecycle: servers that are started one after the    *)
(* other tell a socket file that is in use from one a crash left behind.   *)
(***************************************************************************)
EXTENDS ServerLifecycle, TLAPS

(* Types of the variables that say who has the path.                       *)
PathTypeOK ==
  /\ file \in Servers \cup {NoFile, OtherFile}
  /\ bound \subseteq Servers
  /\ proc \in [Servers -> {"down", "stat", "unix", "remove", "bind", "up"}]
  /\ taken \in [Servers -> BOOLEAN]

(* Only one server is in its constructor.                                  *)
OneStarts == \A u, v \in Servers : Starting(u) /\ Starting(v) => u = v

(* A socket of that name is open while the server runs.                    *)
BoundIsUp == \A v \in Servers : v \in bound <=> proc[v] = "up"

(* What a constructor has learned of the path still holds: in particular a *)
(* socket that nobody had open when it looked is nobody's when it removes  *)
(* the file.                                                               *)
LearnedHolds ==
  \A v \in Servers :
    /\ proc[v] = "stat"   => taken[v] \/ (bound = {} /\ file # OtherFile)
    /\ proc[v] = "unix"   => file \in Servers /\ (taken[v] \/ bound = {})
    /\ proc[v] = "remove" => file \in Servers /\ bound = {}
    /\ proc[v] = "bind"   => taken[v] \/ file = NoFile

(* The inductive invariant.                                                *)
PathInv == PathTypeOK /\ OneStarts /\ BoundIsUp /\ LearnedHolds /\ StaleIsTold

(* Every step of a server, of a worker and of a client keeps it.           *)
LEMMA NextPathInv ==
  ASSUME Exclusive = TRUE, PathInv, [Next]_vars
  PROVE  PathInv'
<1> USE DEF PathInv, PathTypeOK, OneStarts, BoundIsUp, LearnedHolds, StaleIsTold,
            Starting
<1>1. ASSUME UNCHANGED start_vars PROVE PathInv'
  BY <1>1 DEF start_vars
<1>2. ASSUME NEW v \in Servers, Start(v) PROVE PathInv'
  BY <1>2 DEF Start
<1>3. ASSUME NEW v \in Servers, SocketFileExists(v) PROVE PathInv'
  BY <1>3, LifecycleAssumption DEF SocketFileExists
<1>4. ASSUME NEW v \in Servers, SocketExists(v) PROVE PathInv'
  BY <1>4 DEF SocketExists
<1>5. ASSUME NEW v \in Servers, RemoveSocket(v) PROVE PathInv'
  <2>1. file # NoFile
    BY <1>5, LifecycleAssumption DEF RemoveSocket
  <2>2. /\ proc[v] = "remove" /\ file' = NoFile
        /\ proc' = [proc EXCEPT ![v] = "bind"]
        /\ UNCHANGED <<bound, taken, refused>>
    BY <1>5, <2>1 DEF RemoveSocket
  <2>3. bound = {} /\ \A u \in Servers : proc[u] # "up" /\ (Starting(u) => u = v)
    BY <2>2
  <2>4. PathTypeOK' /\ OneStarts' /\ BoundIsUp'
    BY <2>2, <2>3
  <2>5. LearnedHolds' /\ StaleIsTold'
    BY <2>2, <2>3
  <2> QED
    BY <2>4, <2>5
<1>6. ASSUME NEW v \in Servers, Bind(v) PROVE PathInv'
  <2>1. CASE file # NoFile
    <3>1. /\ proc' = [proc EXCEPT ![v] = "down"]
          /\ refused' = refused \cup {taken[v]}
          /\ UNCHANGED <<file, bound, taken>>
      BY <1>6, <2>1 DEF Bind, Fail
    <3>2. taken[v] = TRUE
      BY <1>6, <2>1 DEF Bind
    <3>3. FALSE \notin refused'
      BY <3>1, <3>2
    <3>4. PathTypeOK' /\ OneStarts' /\ LearnedHolds'
      BY <3>1
    <3>5. BoundIsUp'
      BY <1>6, <3>1 DEF Bind
    <3>6. StaleIsTold'
      BY <3>1, <3>3
    <3> QED
      BY <3>4, <3>5, <3>6
  <2>2. CASE file = NoFile
    <3>1. \A u \in Servers : proc[u] # "up"
      BY <2>2, LifecycleAssumption
    <3> QED
      <4>1. /\ file' = v /\ bound' = bound \cup {v}
            /\ proc' = [proc EXCEPT ![v] = "up"]
            /\ UNCHANGED <<taken, refused>>
        BY <1>6, <2>2 DEF Bind
      <4>2. PathTypeOK' /\ BoundIsUp' /\ StaleIsTold'
        BY <3>1, <4>1
      <4>3. OneStarts' /\ \A u \in Servers : ~Starting(u)'
        BY <1>6, <4>1 DEF Bind
      <4> QED
        BY <4>2, <4>3
  <2> QED
    BY <2>1, <2>2
<1>7. ASSUME NEW v \in Servers, Joined(v) \/ Crash(v) PROVE PathInv'
  BY <1>7 DEF Joined, Crash, Gone
<1>8. ASSUME NEW v \in Servers, Stop(v) PROVE PathInv'
  BY <1>1, <1>8 DEF Stop
<1>9. ASSUME NEW v \in Servers, NEW w \in Workers, WorkerStep(v, w) PROVE PathInv'
  BY <1>1, <1>9 DEF WorkerStep, TestExit, RunReturns
<1>10. ASSUME NEW v \in Servers, NEW c \in Clients,
              OnAccept(v, c) \/ SessionEnds(v, c) \/ CreateClient(c)
       PROVE  PathInv'
  BY <1>1, <1>10 DEF OnAccept, SessionEnds, CreateClient
<1>11. ASSUME NEW v \in Servers, NEW w \in Workers, NEW c \in Clients,
              HandlerThrows(v, w, c)
       PROVE  PathInv'
  BY <1>1, <1>11 DEF HandlerThrows
<1>12. ASSUME NEW c \in Clients, CreateClient(c) PROVE PathInv'
  BY <1>1, <1>12 DEF CreateClient
<1>13. CASE UNCHANGED vars
  BY <1>1, <1>13 DEF vars
<1>14. ASSUME NEW v \in Servers, AcceptFails(v) PROVE PathInv'
  BY <1>1, <1>14 DEF AcceptFails
<1> HIDE DEF PathInv
<1> QED
  BY <1>2, <1>3, <1>4, <1>5, <1>6, <1>7, <1>8, <1>9, <1>10, <1>11, <1>12, <1>13,
     <1>14
     DEF Next, ServerStep

(* remove_socket_if_stale, for servers that are started one after the      *)
(* other: whatever crashes came before, a server that runs has the path,   *)
(* and a start fails only when the path was in use.                        *)
THEOREM StaleFilesAreTold ==
  ASSUME Exclusive = TRUE
  PROVE  Spec => []StaleIsTold
<1>1. Init => PathInv
  BY LifecycleAssumption
     DEF Init, PathInv, PathTypeOK, OneStarts, BoundIsUp, LearnedHolds,
         StaleIsTold, Starting
<1>2. PathInv /\ [Next]_vars => PathInv'
  BY NextPathInv
<1>3. PathInv => StaleIsTold
  BY DEF PathInv
<1> QED
  BY <1>1, <1>2, <1>3, PTL DEF Spec
=============================================================================

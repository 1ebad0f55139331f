------------------------------ MODULE Registry ------------------------------
(***************************************************************************)
(* registry.cpp: the table the server keeps of every exported object, of   *)
(* the sessions that hold a reference to one, and of the two sessions with *)
(* a role of their own.  One Registry is shared by all the sessions.       *)
(***************************************************************************)
EXTENDS BinderTypes

CONSTANTS
  Sessions,       \* the connections a server accepts over its life
  NoSession,      \* the null ServerSessionPtr
  MaxHandle,      \* bound: handles a behaviour allocates
  MaxReferences   \* bound: references one session takes on one handle

ASSUME NoSessionAssumption == NoSession \notin Sessions

ASSUME MaxHandleAssumption == MaxHandle \in Nat

ASSUME MaxReferencesAssumption == MaxReferences \in Nat

VARIABLES
  next_object_handle_,  \* the next handle to give out
  handles_,             \* handle -> the session that exported the object
  references_,          \* handle -> how often each session is in the vector
  context_mgr_,
  monitor_

registry_vars ==
  <<next_object_handle_, handles_, references_, context_mgr_, monitor_>>

Handles == 1 .. MaxHandle

kContextManagerHandle == 0

RegistryTypeOK ==
  /\ next_object_handle_ \in 1 .. MaxHandle + 1
  /\ IsMap(handles_, Handles, Sessions)
  /\ IsMap(references_, Handles, [Sessions -> Nat])
  /\ context_mgr_ \in Sessions \cup {NoSession}
  /\ monitor_ \in Sessions \cup {NoSession}

RegistryInit ==
  /\ next_object_handle_ = 1
  /\ handles_ = EmptyMap
  /\ references_ = EmptyMap
  /\ context_mgr_ = NoSession
  /\ monitor_ = NoSession

IsHandleKnown(handle) == handle \in DOMAIN handles_

(***************************************************************************)
(* Looks a handle up in a table that may already hold the handles the      *)
(* running handler has just allocated.                                     *)
(***************************************************************************)
FindSessionByHandle(table, handle) ==
  IF handle = kContextManagerHandle THEN context_mgr_
  ELSE IF handle \in DOMAIN table THEN table[handle] ELSE NoSession

(***************************************************************************)
(* The table after NewObjectHandle(session) has run once for every handle  *)
(* of fresh.                                                               *)
(***************************************************************************)
NewObjectHandles(table, fresh, session) ==
  [h \in DOMAIN table \cup fresh |->
     IF h \in DOMAIN table THEN table[h] ELSE session]

NoReferences == [s \in Sessions |-> 0]

ReferencesTo(handle) ==
  IF handle \in DOMAIN references_ THEN references_[handle] ELSE NoReferences

AddReferenceForHandle(session, handle, status) ==
  \/ /\ ~IsHandleKnown(handle)
     /\ status = DeadObject
     /\ UNCHANGED references_
  \/ /\ IsHandleKnown(handle)
     /\ ReferencesTo(handle)[session] < MaxReferences
     /\ status = OK
     /\ references_' =
          [h \in DOMAIN references_ \cup {handle} |->
             IF h = handle
               THEN [ReferencesTo(handle) EXCEPT ![session] = @ + 1]
               ELSE references_[h]]

(***************************************************************************)
(* The vector of a handle stays in the map when its last element goes.     *)
(***************************************************************************)
RemoveReferenceForHandle(session, handle, status) ==
  \/ /\ ~IsHandleKnown(handle)
     /\ status = DeadObject
     /\ UNCHANGED references_
  \/ /\ IsHandleKnown(handle)
     /\ ReferencesTo(handle)[session] = 0
     /\ status = BadValue
     /\ UNCHANGED references_
  \/ /\ IsHandleKnown(handle)
     /\ ReferencesTo(handle)[session] > 0
     /\ status = OK
     /\ references_' = [references_ EXCEPT ![handle][session] = @ - 1]

(* Mutants: the references, or the entries of the table, are kept.         *)
RemoveHandles_KeepsReferences(dead) ==
  /\ handles_' = [h \in DOMAIN handles_ \ dead |-> handles_[h]]
  /\ UNCHANGED references_

RemoveHandles_KeepsTable(dead) ==
  /\ references_' =
       [h \in DOMAIN references_ \ (dead \cap DOMAIN handles_) |->
          references_[h]]
  /\ UNCHANGED handles_

(***************************************************************************)
(* RemoveHandle for every handle of dead; a handle that is not in handles_ *)
(* is skipped, its references with it.                                     *)
(***************************************************************************)
RemoveHandles(dead) ==
  /\ references_' =
       [h \in DOMAIN references_ \ (dead \cap DOMAIN handles_) |->
          references_[h]]
  /\ handles_' = [h \in DOMAIN handles_ \ dead |-> handles_[h]]
=============================================================================

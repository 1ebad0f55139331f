--------------------------- MODULE MCBinderServer ---------------------------
(***************************************************************************)
(* Instances of BinderServer for TLC: what the clients may send.           *)
(***************************************************************************)
EXTENDS BinderServer, TLC

Object(type, binder, cookie) ==
  [type |-> type, binder |-> binder, cookie |-> cookie]

Transaction(cookie, destination, objects) ==
  [type |-> "Transaction", cookie |-> cookie, destination |-> destination,
   words |-> <<0, 0>>, objects |-> objects]

(***************************************************************************)
(* A local object, a handle that may or may not be the receiver's own, and *)
(* an object no switch knows.                                              *)
(***************************************************************************)
Binder  == Object("BINDER", 7, 8)
Handle1 == Object("HANDLE", 1, 0)
Invalid == Object("INVALID", 5, 0)

(***************************************************************************)
(* Transactions of every kind between sessions, and answers to the first   *)
(* transactions a session is posted, with and without an object in them,   *)
(* or to none.                                                             *)
(***************************************************************************)
TransactionMessages ==
  {NewMessage("SetContextMgr", 3, << >>),
   NewMessage("Transaction", 4, << >>)}
    \cup {Transaction(2, 0, <<Handle1, Binder>>),
          Transaction(2, 0, <<Binder, Invalid, Binder>>),
          Transaction(2, 1, <<Handle1>>)}
    \cup {NewMessage("Status", 1, <<OK>>),
          [NewMessage("TransactionReply", 0, <<OK>>) EXCEPT
             !.objects = <<Binder>>]}

(***************************************************************************)
(* References and death notifications, with an export to refer to, the     *)
(* monitor, a message the server does not support and requests cut short.  *)
(***************************************************************************)
ReferenceMessages ==
  {NewMessage("SetMonitor", 3, << >>),
   NewMessage("Version", 4, << >>),
   Transaction(2, 0, <<Binder>>),
   NewMessage("Acquire", 5, <<1>>),
   NewMessage("Release", 5, <<1>>),
   NewMessage("RequestDeathNotification", 6, <<1, 9>>),
   NewMessage("ClearDeathNotification", 6, <<1, 9>>),
   NewMessage("ClearDeathNotification", 7, <<1>>)}

SessionSymmetry == Permutations(Sessions)
=============================================================================

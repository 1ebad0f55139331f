---------------------------- MODULE BinderTypes ----------------------------
(***************************************************************************)
(* The values that cross a binderd socket: status codes (status.h), flat   *)
(* binder objects (binder_api.h), messages (message.h), and the reading of *)
(* an integer from the wire (binary_reader.cpp).                           *)
(***************************************************************************)
EXTENDS Integers, Sequences, FiniteSets

(***************************************************************************)
(* The members of enum Status the modelled code produces, with the errno   *)
(* values of Linux.                                                        *)
(***************************************************************************)
OK               == 0
NameNotFound     == -2
AlreadyExists    == -17
BadValue         == -22
DeadObject       == -32
InvalidOperation == -38

Status == {OK, NameNotFound, AlreadyExists, BadValue, DeadObject,
           InvalidOperation}

(***************************************************************************)
(* Message::Type.                                                          *)
(***************************************************************************)
MessageType ==
  {"Transaction", "TransactionReply", "Acquire", "Release",
   "RequestDeathNotification", "ClearDeathNotification", "DeadBinder",
   "SetContextMgr", "SetMonitor", "Version", "LogEntry", "Status", "Unknown"}

(***************************************************************************)
(* struct flat_binder_object.  binder and handle share a union, here the   *)
(* field binder: a HANDLE keeps its handle in it.  "INVALID" stands for    *)
(* every value of type the switch in TranslateObjects does not list.       *)
(***************************************************************************)
ObjectType == {"BINDER", "HANDLE", "WEAK_BINDER", "WEAK_HANDLE", "FD",
               "INVALID"}

FlatObject == [type : ObjectType, binder : Nat, cookie : Nat]

BinderObject == [binder : Nat, cookie : Nat]

(***************************************************************************)
(* A message: the header fields, the integers at the front of the payload  *)
(* in the order a handler reads them, and the objects of a transaction in  *)
(* the order of their offsets.  The data bytes and the transaction code    *)
(* are left out: the server copies them and decides nothing on them.       *)
(***************************************************************************)
Message == [type : MessageType, cookie : Nat, destination : Nat,
            words : Seq(Int), objects : Seq(FlatObject)]

NewMessage(type, cookie, words) ==
  [type |-> type, cookie |-> cookie, destination |-> 0, words |-> words,
   objects |-> << >>]

(***************************************************************************)
(* BinaryReader::ReadValue casts one byte of the buffer to the integer     *)
(* type it was asked for and skips the rest of the bytes the writer wrote. *)
(***************************************************************************)
ReadValue(v) == v % 256

(***************************************************************************)
(* Message::Unpack, as far as integers of the header are concerned.        *)
(***************************************************************************)
Unpack(msg) == [msg EXCEPT !.cookie = ReadValue(msg.cookie),
                           !.destination = ReadValue(msg.destination)]

(***************************************************************************)
(* The associative containers of the code: insert keeps an entry that is   *)
(* already there, erase removes one.                                       *)
(***************************************************************************)
IsMap(f, K, V) == DOMAIN f \subseteq K /\ f \in [DOMAIN f -> V]

EmptyMap == [k \in {} |-> 0]

Insert(f, k, v) ==
  [x \in DOMAIN f \cup {k} |-> IF x \in DOMAIN f THEN f[x] ELSE v]

Erase(f, k) == [x \in DOMAIN f \ {k} |-> f[x]]
=============================================================================

---------------------------- MODULE MCWireFormat ----------------------------
(* Fields, statuses and bounds for the runs of WireFormat.                 *)
EXTENDS WireFormat

Value(w, v) == [kind |-> "value", width |-> w, value |-> v]
Sized(k, s) == [kind |-> k, value |-> s]

(* Integers on both sides of one byte, data whose length makes the parcel, *)
(* the transaction or the message pass 255, strings with and without room  *)
(* in their last word.                                                     *)
MCFields ==
  {Value(2, 10), Value(4, 255), Value(4, -1), Value(8, 256)}
    \cup {Sized("data", Filled(n, 9)) : n \in {0, 5, 208, 256}}
    \cup {Sized("string", Filled(n, 65)) : n \in {2, 3}}
    \cup {Sized("string16", Filled(n, 321)) : n \in {0, 1, 2}}

(* All values of Status: the errno values and the ones from UnknownError.  *)
MCStatuses ==
  {0, -12, -38, -22, -2, -1, -19, -17, -32, -75, -61, -11, -110, -74}
    \cup {UnknownError + i : i \in {0, 1, 2, 7, 8}}
=============================================================================

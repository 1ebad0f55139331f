------------------------------- MODULE Channel -------------------------------
(***************************************************************************)
(* What the users of a Messenger (messenger.h) rely on: messages come out  *)
(* at the other end in the order of WriteData and once each.  A message    *)
(* may come out damaged, but never in the place of another one, until the  *)
(* channel breaks: then messages get lost and damaged ones are made up,    *)
(* and only order and the absence of duplicates are left.                  *)
(***************************************************************************)
EXTENDS Sequences

CONSTANTS Messages, Damaged

VARIABLES
  queued,     \* messages given to WriteData and not delivered or lost yet
  delivered,  \* messages handed to the read handler
  broken      \* whether the two ends disagree on where messages begin

Init == queued = << >> /\ delivered = << >> /\ broken = FALSE

Send(m) == queued' = Append(queued, m) /\ UNCHANGED <<delivered, broken>>

Deliver ==
  /\ queued # << >>
  /\ queued' = Tail(queued)
  /\ \E m \in {Head(queued), Damaged} : delivered' = Append(delivered, m)
  /\ UNCHANGED broken

MakeUp == delivered' = Append(delivered, Damaged) /\ UNCHANGED queued

Break == broken' = TRUE /\ (MakeUp \/ UNCHANGED <<queued, delivered>>)

Lose == queued # << >> /\ queued' = Tail(queued) /\ UNCHANGED delivered

OutOfStep == broken /\ (MakeUp \/ Lose) /\ UNCHANGED broken

Next == (\E m \in Messages : Send(m)) \/ Deliver \/ Break \/ OutOfStep

Spec == Init /\ [][Next]_<<queued, delivered, broken>>
=============================================================================

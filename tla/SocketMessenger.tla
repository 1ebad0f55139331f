--------------------------- MODULE SocketMessenger ---------------------------
(***************************************************************************)
(* One direction of a connection: a SocketMessenger that writes, the       *)
(* socket, and the SocketMessenger at the other end that reads.            *)
(*                                                                         *)
(* A message is its number in the order of WriteData.  On the socket it is *)
(* a frame of two parts, the length and the body, each of which is intact  *)
(* or not.  A length that is none puts the reader out of step: from then   *)
(* on it may stop in the middle of a part.  The server calls everything    *)
(* from one thread and is done with a message when its read handler        *)
(* returns (Concurrent = KeepsMessages = FALSE); a client calls WriteData  *)
(* on any thread next to the strand and keeps messages for other threads   *)
(* (both TRUE).                                                            *)
(***************************************************************************)
EXTENDS Integers, Sequences, FiniteSets

CONSTANTS
  Writers,        \* callers of WriteData
  Strand,         \* write_strand_, which runs OnMessageSent
  Concurrent,     \* whether threads may be inside the messenger together
  KeepsMessages,  \* whether messages are used after the read handler
  Room,           \* parts of frames the socket holds
  MaxMessages,    \* bound: calls of WriteData
  MaxDelivered    \* bound: calls of the read handler (out of step, the bytes
                  \* of one part can make up several messages)

ASSUME MessengerAssumption ==
  /\ Strand \notin Writers
  /\ Concurrent \in BOOLEAN /\ KeepsMessages \in BOOLEAN
  /\ Room \in Nat \ {0} /\ MaxMessages \in Nat /\ MaxDelivered \in Nat

VARIABLES
  write_queue_,  \* messages, the first of which is being written
  exit_,         \* set by Close
  pc,            \* where each thread is in WriteData or OnMessageSent
  writes,        \* async_writes the socket has not taken completely
  completions,   \* handlers posted to write_strand_: TRUE without an error
  socket,        \* the parts in the socket
  closed,        \* no more parts are taken: socket_ is closed or has no peer
  reader,        \* what the reading end waits for
  header_,       \* the message whose length was read last, Damaged if none
  body_,         \* what is in the read buffer
  in_use,        \* messages handed to the read handler and not used yet
  sent, delivered, used,  \* history: WriteData, the handler, the user
  late,          \* history: the parts <<message, kind>> that were taken late
  gone,          \* history: parts that were read completely
  broken         \* history: a length was read that is none

writer_vars == <<write_queue_, exit_, pc, writes, completions, closed>>
reader_vars == <<reader, header_, body_, in_use, delivered, used>>
vars == <<writer_vars, reader_vars, socket, sent, late, gone, broken>>

Threads == Writers \cup {Strand}
Messages == 1 .. MaxMessages
Damaged == 0

Frame(m, intact) ==
  <<[msg |-> m, kind |-> "header", intact |-> intact],
    [msg |-> m, kind |-> "body",   intact |-> intact]>>

Init ==
  /\ write_queue_ = << >> /\ exit_ = FALSE /\ closed = FALSE
  /\ pc = [t \in Threads |-> "idle"]
  /\ writes = {} /\ completions = << >> /\ socket = << >>
  /\ reader = "header" /\ header_ = Damaged /\ body_ = Damaged /\ in_use = 0
  /\ sent = << >> /\ delivered = << >> /\ used = << >> /\ late = {}
  /\ gone = 0 /\ broken = FALSE

-----------------------------------------------------------------------------
(***************************************************************************)
(* Writing.  A thread may enter while no other is inside, or at any time   *)
(* in a client.                                                            *)
(***************************************************************************)
MayEnter(t) == pc[t] = "idle" /\ (Concurrent \/ \A u \in Threads : pc[u] = "idle")

Goto(t, l) == pc' = [pc EXCEPT ![t] = l]

(* WriteData, up to push_back.                                             *)
WriteData(t) ==
  /\ MayEnter(t) /\ t \in Writers
  /\ Len(sent) < MaxMessages
  /\ LET m == Len(sent) + 1
     IN  sent' = Append(sent, m) /\ write_queue_' = Append(write_queue_, m)
  /\ Goto(t, "pushed")
  /\ UNCHANGED <<reader_vars, exit_, writes, completions, socket, closed, late,
                 gone, broken>>

(* A mutant: a write is started whatever else is in the queue.             *)
TestSize_Always(t) ==
  /\ pc[t] = "pushed"
  /\ Goto(t, "next")
  /\ UNCHANGED <<reader_vars, write_queue_, exit_, writes, completions, socket,
                 closed, sent, late, gone, broken>>

(* The rest of WriteData: only the first message starts a write.           *)
TestSize(t) ==
  /\ pc[t] = "pushed"
  /\ Goto(t, IF Len(write_queue_) > 1 THEN "idle" ELSE "next")
  /\ UNCHANGED <<reader_vars, write_queue_, exit_, writes, completions, socket,
                 closed, sent, late, gone, broken>>

(***************************************************************************)
(* asio::async_write tries the socket at once; what it does not take then  *)
(* is read from the buffer later.                                          *)
(***************************************************************************)
AsyncWrite(m) ==
  LET free == Room - Len(socket)
      n    == IF free < 2 THEN free ELSE 2
  IN  /\ socket' = socket \o SubSeq(Frame(m, TRUE), 1, n)
      /\ IF n = 2
           THEN completions' = Append(completions, TRUE) /\ UNCHANGED writes
           ELSE /\ writes' = writes \cup {[msg |-> m, taken |-> n]}
                /\ UNCHANGED completions

WriteNext(t) ==
  /\ pc[t] = "next"
  /\ write_queue_ # << >>
  /\ Goto(t, IF t = Strand THEN "done" ELSE "idle")
  /\ \/ exit_ /\ UNCHANGED <<socket, writes, completions>>
     \/ ~exit_ /\ ~closed /\ AsyncWrite(Head(write_queue_))
     \/ /\ ~exit_ /\ closed
        /\ completions' = Append(completions, FALSE)
        /\ UNCHANGED <<socket, writes>>
  /\ UNCHANGED <<reader_vars, write_queue_, exit_, closed, sent, late, gone, broken>>

(***************************************************************************)
(* The socket takes one more part of a write that did not fit.  The buffer *)
(* whole_message was released when WriteNext returned, so the part may be  *)
(* anything; the memory may also still hold it.                            *)
(***************************************************************************)
TakeRest(w) ==
  \/ /\ ~closed
     /\ Len(socket) < Room
     /\ \E intact \in BOOLEAN :
          socket' = Append(socket, Frame(w.msg, intact)[w.taken + 1])
     /\ late' = late \cup {<<w.msg, IF w.taken = 0 THEN "header" ELSE "body">>}
     /\ IF w.taken = 1
          THEN writes' = writes \ {w} /\ completions' = Append(completions, TRUE)
          ELSE /\ writes' = (writes \ {w}) \cup {[w EXCEPT !.taken = 1]}
               /\ UNCHANGED completions
     /\ UNCHANGED <<reader_vars, write_queue_, exit_, pc, closed, sent,
                    gone, broken>>
  \/ /\ closed
     /\ writes' = writes \ {w} /\ completions' = Append(completions, FALSE)
     /\ UNCHANGED <<reader_vars, write_queue_, exit_, pc, closed, sent, socket, late,
                    gone, broken>>

(* A mutant: the message that was sent stays in the queue.                 *)
OnMessageSent_NoPop ==
  /\ MayEnter(Strand)
  /\ completions # << >>
  /\ completions' = Tail(completions)
  /\ Goto(Strand, "popped")
  /\ UNCHANGED <<reader_vars, write_queue_, exit_, writes, socket, closed, sent,
                 late, gone, broken>>

(* OnMessageSent: an error leaves the queue as it is, for good.            *)
OnMessageSent ==
  /\ MayEnter(Strand)
  /\ completions # << >>
  /\ completions' = Tail(completions)
  /\ IF Head(completions)
       THEN /\ write_queue_ # << >>
            /\ write_queue_' = Tail(write_queue_)
            /\ Goto(Strand, "popped")
       ELSE UNCHANGED <<write_queue_, pc>>
  /\ UNCHANGED <<reader_vars, exit_, writes, socket, closed, sent, late, gone, broken>>

(* A mutant: the rest of the queue waits for the next WriteData.           *)
TestEmpty_NoNext ==
  /\ pc[Strand] = "popped"
  /\ Goto(Strand, "done")
  /\ UNCHANGED <<reader_vars, write_queue_, exit_, writes, completions, socket,
                 closed, sent, late, gone, broken>>

TestEmpty ==
  /\ pc[Strand] = "popped"
  /\ Goto(Strand, IF write_queue_ # << >> THEN "next" ELSE "done")
  /\ UNCHANGED <<reader_vars, write_queue_, exit_, writes, completions, socket,
                 closed, sent, late, gone, broken>>

(* The end of OnMessageSent: shutdown and close after Close.               *)
CloseSocket ==
  /\ pc[Strand] = "done"
  /\ closed' = (closed \/ exit_)
  /\ Goto(Strand, "idle")
  /\ UNCHANGED <<reader_vars, write_queue_, exit_, writes, completions, socket,
                 sent, late, gone, broken>>

Close ==
  /\ ~exit_
  /\ exit_' = TRUE
  /\ UNCHANGED <<reader_vars, write_queue_, pc, writes, completions, socket,
                 closed, sent, late, gone, broken>>

-----------------------------------------------------------------------------
(***************************************************************************)
(* Reading.  The messages given to the handler are views of body_.         *)
(***************************************************************************)
(* The rest of what is first in the socket is read.                        *)
TakePart == socket' = Tail(socket) /\ gone' = gone + 1

(* Out of step, a read may leave some of it for the next one.              *)
TakeBytes == TakePart \/ UNCHANGED <<socket, gone>>

Deliver(m) ==
  /\ Len(delivered) < MaxDelivered
  /\ body_' = m /\ delivered' = Append(delivered, m)
  /\ in_use' = in_use + 1
  /\ reader' = "handler"

AwaitBody == reader' = "body" /\ body_' = Damaged /\ UNCHANGED <<delivered, in_use>>

(***************************************************************************)
(* ReadMessageAsync, with the header in: body_ is resized to whatever the  *)
(* two bytes say.  What is read for a length is one if it is the intact    *)
(* header and the reader is, or has come, in step; else the length may be  *)
(* anything, and at 0 the handler is called at once.                       *)
(***************************************************************************)
ReadHeader ==
  /\ reader = "header"
  /\ socket # << >>
  /\ LET p == Head(socket)
     IN  \/ /\ p.intact /\ p.kind = "header"
            /\ TakePart
            /\ header_' = p.msg
            /\ AwaitBody
            /\ UNCHANGED broken
         \/ /\ broken \/ ~p.intact
            /\ IF broken THEN TakeBytes ELSE TakePart
            /\ header_' = Damaged /\ broken' = TRUE
            /\ AwaitBody \/ Deliver(Damaged)
  /\ UNCHANGED <<writer_vars, used, sent, late>>

(***************************************************************************)
(* ReadMessageAsync, with the body in: the handler is called.  A body of   *)
(* an arbitrary length ends anywhere in a part, or goes on behind it.      *)
(***************************************************************************)
ReadBody ==
  /\ reader = "body"
  /\ socket # << >>
  /\ LET p == Head(socket)
     IN  \/ /\ header_ # Damaged
            /\ TakePart
            /\ Deliver(IF p.intact THEN p.msg ELSE Damaged)
         \/ /\ header_ = Damaged
            /\ (TakeBytes /\ Deliver(Damaged)) \/ (TakePart /\ AwaitBody)
  /\ UNCHANGED <<writer_vars, header_, used, sent, late, broken>>

(* The user works on the oldest message it has.                            *)
UseMessage ==
  /\ in_use > 0
  /\ in_use' = in_use - 1
  /\ used' = Append(used, body_)
  /\ UNCHANGED <<writer_vars, reader, header_, body_, delivered, socket, sent, late,
                 gone, broken>>

(* A mutant: the next read is started first.                               *)
HandlerReturns_Early ==
  /\ reader = "handler"
  /\ reader' = "header"
  /\ UNCHANGED <<writer_vars, header_, body_, in_use, delivered, used, socket,
                 sent, late, gone, broken>>

(* The read handler starts the next read when it is done, or never when    *)
(* the user's work has thrown: then the connection is left as it is.       *)
HandlerReturns ==
  /\ reader = "handler"
  /\ KeepsMessages \/ in_use = 0
  /\ reader' \in {"header", "ended"}
  /\ UNCHANGED <<writer_vars, header_, body_, in_use, delivered, used, socket,
                 sent, late, gone, broken>>

(* The reading end goes away.                                              *)
Disconnect ==
  /\ reader # "ended"
  /\ reader' = "ended"
  /\ closed' = TRUE
  /\ UNCHANGED <<write_queue_, exit_, pc, writes, completions, header_, body_,
                 in_use, delivered, used, socket, sent, late, gone, broken>>

-----------------------------------------------------------------------------
WriterStep ==
  \/ \E t \in Writers : TestSize(t)
  \/ \E t \in Threads : WriteNext(t)
  \/ \E w \in writes : TakeRest(w)
  \/ OnMessageSent \/ TestEmpty \/ CloseSocket

ReaderStep == ReadHeader \/ ReadBody \/ UseMessage \/ HandlerReturns

Next ==
  \/ \E t \in Writers : WriteData(t)
  \/ WriterStep \/ ReaderStep
  \/ Close \/ Disconnect

(***************************************************************************)
(* Fairness: a thread inside a function goes on, asio runs the handlers    *)
(* that are due and the kernel moves bytes while there is room.            *)
(***************************************************************************)
Fairness == WF_vars(WriterStep) /\ WF_vars(ReaderStep)

Spec == Init /\ [][Next]_vars /\ Fairness

-----------------------------------------------------------------------------
(***************************************************************************)
(* The queue and the writes agree (WriteData, OnMessageSent): at most one  *)
(* write is started, under way or waiting for its handler, and only for a  *)
(* message that is in the queue, so that front and pop_front never meet an *)
(* empty deque.                                                            *)
(***************************************************************************)
Underway ==
  Cardinality({t \in Threads : pc[t] = "next"}) + Cardinality(writes)
    + Len(completions)

OneWriteAtATime ==
  /\ Underway <= 1
  /\ Underway = 1 => write_queue_ # << >>

(***************************************************************************)
(* Messenger keeps its promise (messenger.h): order, and neither loss in   *)
(* the middle nor duplicates, until a length was read that is none.  Then  *)
(* messages get lost and others appear that nobody sent, but what still    *)
(* comes through intact is in order and never there twice.                 *)
(***************************************************************************)
Queue == INSTANCE Channel
           WITH queued <- SubSeq(sent, (gone \div 2) + 1, Len(sent))

ImplementsChannel == Queue!Spec

(***************************************************************************)
(* What the user of a message works on is what was sent: no read is        *)
(* started into body_ under a message in use (ReadNextMessage), nothing is *)
(* handed over before it is complete (ReadMessageAsync).  Only parts that  *)
(* a full socket took after WriteNext had released whole_message do harm:  *)
(* a body to its message, a length to its message and all behind it.       *)
(***************************************************************************)
UsedAsSent ==
  \A i \in DOMAIN used :
    \/ i \in DOMAIN sent /\ used[i] = sent[i]
    \/ <<i, "body">> \in late
    \/ \E j \in 1 .. i : <<j, "header">> \in late

(***************************************************************************)
(* A message given to WriteData is delivered, unless the connection ends,  *)
(* the user's work throws or a damaged length has put the reader out of    *)
(* step.                                                                   *)
(***************************************************************************)
QueuedIsDelivered ==
  \A n \in Messages :
    (Len(sent) >= n)
      ~> (Len(delivered) >= n \/ exit_ \/ reader = "ended" \/ broken)
=============================================================================

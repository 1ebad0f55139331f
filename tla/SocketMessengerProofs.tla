------------------------ MODULE SocketMessengerProofs ------------------------
(***************************************************************************)
(* What TLAPS proves of SocketMessenger, for every set of writers, every   *)
(* room of the socket and every number of messages.                        *)
(***************************************************************************)
EXTENDS SocketMessenger, FiniteSetTheorems, SequenceTheorems, TLAPS

-----------------------------------------------------------------------------
(***************************************************************************)
(* The inductive invariant.  The parts of the frames are numbered in the   *)
(* order in which they go through the socket: message m is part 2m-1, its  *)
(* length, and part 2m, its body.                                          *)
(***************************************************************************)
Part == [msg : Messages, kind : {"header", "body"}, intact : BOOLEAN]

TypeInv ==
  /\ write_queue_ \in Seq(Messages) /\ sent \in Seq(Messages)
  /\ exit_ \in BOOLEAN /\ closed \in BOOLEAN
  /\ pc \in [Threads -> {"idle", "pushed", "next", "popped", "done"}]
  /\ \A t \in Threads : t # Strand => pc[t] \in {"idle", "pushed", "next"}
  /\ pc[Strand] # "pushed"
  /\ writes \in SUBSET [msg : Messages, taken : {0, 1}]
  /\ completions \in Seq(BOOLEAN)
  /\ socket \in Seq(Part) /\ Len(socket) <= Room
  /\ reader \in {"header", "body", "handler", "ended"}
  /\ header_ \in Messages \cup {Damaged}
  /\ body_ \in Messages \cup {Damaged}
  /\ in_use \in Nat
  /\ delivered \in Seq(Messages \cup {Damaged})
  /\ used \in Seq(Messages \cup {Damaged})
  /\ late \in SUBSET (Messages \X {"header", "body"})
  /\ gone \in Nat /\ broken \in BOOLEAN

(* What is in the queue is the end of what was given to WriteData.         *)
Written == Len(sent) - Len(write_queue_)

QueueInv ==
  /\ Len(write_queue_) <= Len(sent)
  /\ \A i \in DOMAIN sent : sent[i] = i
  /\ \A k \in DOMAIN write_queue_ : write_queue_[k] = Written + k

(* One thread is inside, and a write that it may start is the only one.    *)
Quiet == writes = {} /\ completions = << >>

WriteInv ==
  /\ \A t, u \in Threads : pc[t] # "idle" /\ pc[u] # "idle" => t = u
  /\ \A v, w \in writes : v = w
  /\ completions = << >> \/ Len(completions) = 1
  /\ writes # {} => completions = << >>
  /\ \A t \in Threads : pc[t] \in {"next", "popped"} => Quiet
  /\ write_queue_ = << >> => Quiet /\ \A t \in Threads : pc[t] \notin {"next", "pushed"}
  /\ (\E t \in Threads : pc[t] = "pushed") /\ Len(write_queue_) = 1 => Quiet

(* The parts the socket has taken: those that were read and those in it.   *)
Taken == gone + Len(socket)

(* The socket holds the next parts in order, and what it has taken is what *)
(* the state of the write says.  This is so whether or not the reader is   *)
(* in step.                                                                *)
PartInv ==
  \A k \in DOMAIN socket :
    /\ \/ socket[k].kind = "header" /\ gone + k = 2 * socket[k].msg - 1
       \/ socket[k].kind = "body"   /\ gone + k = 2 * socket[k].msg
    /\ socket[k].intact \/ <<socket[k].msg, socket[k].kind>> \in late

TakenInv ==
  /\ Taken >= 2 * Written
  /\ Taken <= 2 * Written + 2
  /\ write_queue_ = << >> => Taken = 2 * Written
  /\ \A t \in Threads : pc[t] \in {"next", "popped"} => Taken = 2 * Written
  /\ (\E t \in Threads : pc[t] = "pushed") /\ Len(write_queue_) = 1
       => Taken = 2 * Written
  /\ \A w \in writes : Taken = 2 * Written + w.taken
  /\ completions # << >> /\ completions[1] => Taken = 2 * Written + 2

(* A write is for the message at the head of the queue.                    *)
HeadInv == \A w \in writes : w.msg = Written + 1

(* The reader that waits for a body has read the length before it, and is  *)
(* where its messages say until it has read a length that is none.         *)
ReadInv ==
  /\ reader = "body" /\ header_ # Damaged => gone = 2 * header_ - 1
  /\ reader = "body" /\ header_ = Damaged => broken
  /\ ~broken /\ reader # "ended" =>
       gone = 2 * Len(delivered) + (IF reader = "body" THEN 1 ELSE 0)

(* Where a message, or a made up one, may be other than what was sent.     *)
Harmed(i) == <<i, "body">> \in late \/ \E j \in 1 .. i : <<j, "header">> \in late

HarmInv ==
  /\ broken => \E j \in 1 .. Len(delivered) + 1 : <<j, "header">> \in late
  /\ \A i \in DOMAIN delivered :
       (i <= Len(sent) /\ delivered[i] = i) \/ Harmed(i)

IInv ==
  /\ TypeInv /\ QueueInv /\ WriteInv /\ HeadInv /\ ReadInv /\ HarmInv
  /\ PartInv /\ TakenInv

(* One message is in use at a time, and the buffer still holds it.         *)
UseInv ==
  /\ Len(used) + in_use = Len(delivered) /\ in_use <= 1
  /\ in_use = 1 => /\ reader \in {"handler", "ended"}
                   /\ body_ = delivered[Len(delivered)]
  /\ \A i \in DOMAIN used : used[i] = delivered[i]

-----------------------------------------------------------------------------
(***************************************************************************)
(* The sequences of the messenger.                                         *)
(***************************************************************************)

(* A frame is a length and a body.                                         *)
LEMMA FrameParts ==
  ASSUME NEW m \in Messages, NEW intact \in BOOLEAN
  PROVE  /\ Frame(m, intact) \in Seq(Part) /\ Len(Frame(m, intact)) = 2
         /\ Frame(m, intact)[1] = [msg |-> m, kind |-> "header", intact |-> intact]
         /\ Frame(m, intact)[2] = [msg |-> m, kind |-> "body", intact |-> intact]
BY DEF Frame, Part

(* What asio::async_write puts into the socket at once: as many parts of   *)
(* the frame as there is room for, behind what is there.                   *)
LEMMA ConcatFrame ==
  ASSUME NEW m \in Messages, NEW n \in {0, 1, 2}, NEW s \in Seq(Part)
  PROVE  LET t == s \o SubSeq(Frame(m, TRUE), 1, n)
         IN  /\ t \in Seq(Part) /\ Len(t) = Len(s) + n
             /\ \A k \in 1 .. Len(s) : t[k] = s[k]
             /\ n >= 1 => t[Len(s) + 1]
                            = [msg |-> m, kind |-> "header", intact |-> TRUE]
             /\ n = 2 => t[Len(s) + 2]
                           = [msg |-> m, kind |-> "body", intact |-> TRUE]
<1> DEFINE f == Frame(m, TRUE)
           g == SubSeq(f, 1, n)
           t == s \o g
           l == Len(s)
<1>1. /\ f \in Seq(Part) /\ Len(f) = 2
      /\ f[1] = [msg |-> m, kind |-> "header", intact |-> TRUE]
      /\ f[2] = [msg |-> m, kind |-> "body", intact |-> TRUE]
  BY FrameParts
<1> HIDE DEF f
<1>2. g \in Seq(Part) /\ Len(g) = n /\ \A k \in 1 .. n : g[k] = f[k]
  <2>1. \A i \in 1 .. n : i \in 1 .. 2
    OBVIOUS
  <2>2. \A i \in 1 .. n : f[i] \in Part
    BY <1>1, <2>1, ElementOfSeq
  <2>3. /\ g \in Seq(Part)
        /\ Len(g) = IF 1 <= n THEN n - 1 + 1 ELSE 0
        /\ \A k \in 1 .. n - 1 + 1 : g[k] = f[1 + k - 1]
    BY <2>2, SubSeqProperties
  <2> QED
    BY <2>3
<1> HIDE DEF g
<1>3. l \in Nat
  OBVIOUS
<1>4. t \in Seq(Part) /\ Len(t) = l + n
  BY <1>2, ConcatProperties
<1>5. \A k \in 1 .. l + n : t[k] = IF k <= l THEN s[k] ELSE g[k - l]
  BY <1>2, ConcatProperties
<1> HIDE DEF l, t
<1>6. \A k \in 1 .. l : t[k] = s[k]
  BY <1>3, <1>5
<1>7. n >= 1 => t[l + 1] = f[1]
  BY <1>2, <1>3, <1>5
<1>8. n = 2 => t[l + 2] = f[2]
  BY <1>2, <1>3, <1>5
<1> QED
  BY <1>1, <1>4, <1>6, <1>7, <1>8 DEF l, t, g, f

(* What push_back and Append leave of a sequence.                          *)
LEMMA Pushed ==
  ASSUME NEW S, NEW s \in Seq(S), NEW e \in S, NEW t, t = Append(s, e)
  PROVE  /\ t \in Seq(S) /\ Len(t) = Len(s) + 1 /\ t # << >>
         /\ Len(s) \in Nat /\ DOMAIN t = 1 .. Len(s) + 1 /\ DOMAIN s = 1 .. Len(s)
         /\ \A k \in DOMAIN s : t[k] = s[k]
         /\ t[Len(s) + 1] = e
OBVIOUS

(* A completion posted to write_strand_ when there is none.                *)
LEMMA PostedAlone ==
  ASSUME NEW b \in BOOLEAN, NEW s, s = << >>, NEW t, t = Append(s, b)
  PROVE  t \in Seq(BOOLEAN) /\ Len(t) = 1 /\ t[1] = b /\ t # << >>
<1>1. s \in Seq(BOOLEAN) /\ Len(s) = 0
  OBVIOUS
<1> QED
  BY <1>1, Pushed

(* What pop_front and Tail leave of a sequence.                            *)
LEMMA Popped ==
  ASSUME NEW S, NEW s \in Seq(S), s # << >>, NEW t, t = Tail(s)
  PROVE  /\ t \in Seq(S) /\ Len(t) = Len(s) - 1
         /\ Len(t) \in Nat /\ DOMAIN s = 1 .. Len(s) /\ DOMAIN t = 1 .. Len(s) - 1
         /\ \A k \in DOMAIN t : t[k] = s[k + 1] /\ k + 1 \in DOMAIN s
         /\ Head(s) = s[1] /\ 1 \in DOMAIN s /\ s[1] \in S
         /\ Len(s) = 1 <=> t = << >>
<1>1. t \in Seq(S) /\ Len(t) = Len(s) - 1 /\ Len(s) \in Nat \ {0}
  OBVIOUS
<1>2. DOMAIN s = 1 .. Len(s) /\ DOMAIN t = 1 .. Len(s) - 1
  BY <1>1
<1>3. \A k \in DOMAIN t : t[k] = s[k + 1] /\ k + 1 \in DOMAIN s
  BY <1>1, <1>2
<1>4. Head(s) = s[1] /\ 1 \in DOMAIN s /\ s[1] \in S
  BY <1>1, <1>2
<1>5. Len(s) = 1 <=> t = << >>
  BY <1>1
<1> QED
  BY <1>1, <1>2, <1>3, <1>4, <1>5

-----------------------------------------------------------------------------
(***************************************************************************)
(* Every step keeps the invariant, when one thread is inside the messenger *)
(* at a time.                                                              *)
(***************************************************************************)

(* A new messenger has an empty queue and an empty socket.                 *)
LEMMA InitIInv == Init => IInv /\ UseInv
<1> SUFFICES ASSUME Init PROVE IInv /\ UseInv
  OBVIOUS
<1> USE MessengerAssumption DEF Init, Threads
<1>1. TypeInv
  <2>1. /\ pc \in [Threads -> {"idle", "pushed", "next", "popped", "done"}]
        /\ \A t \in Threads : pc[t] = "idle"
        /\ Strand \in Threads
    OBVIOUS
  <2>2. /\ write_queue_ \in Seq(Messages) /\ sent \in Seq(Messages)
        /\ completions \in Seq(BOOLEAN) /\ socket \in Seq(Part) /\ Len(socket) = 0
        /\ delivered \in Seq(Messages \cup {Damaged})
        /\ used \in Seq(Messages \cup {Damaged})
    OBVIOUS
  <2>3. /\ exit_ \in BOOLEAN /\ closed \in BOOLEAN
        /\ writes \in SUBSET [msg : Messages, taken : {0, 1}]
        /\ header_ \in Messages \cup {Damaged} /\ body_ \in Messages \cup {Damaged}
        /\ late \in SUBSET Messages
    OBVIOUS
  <2>4. in_use \in Nat /\ Len(socket) <= Room
    BY <2>2
  <2>5. /\ \A t \in Threads : t # Strand => pc[t] \in {"idle", "pushed", "next"}
        /\ pc[Strand] # "pushed"
    BY <2>1
  <2>6. reader \in {"header", "body", "handler", "ended"}
    OBVIOUS
  <2> QED
    BY <2>1, <2>2, <2>3, <2>4, <2>5, <2>6 DEF TypeInv
<1>2. QueueInv /\ WriteInv /\ HeadInv
  BY DEF QueueInv, WriteInv, HeadInv, Written, Quiet
<1>3. ReadInv /\ HarmInv /\ UseInv
  BY DEF ReadInv, HarmInv, UseInv
<1>4. PartInv /\ TakenInv
  BY DEF PartInv, TakenInv, Taken, Written
<1> QED
  BY <1>1, <1>2, <1>3, <1>4 DEF IInv

(* More messages and more harm change nothing of what was delivered.       *)
LEMMA HarmGrows ==
  ASSUME HarmInv, UNCHANGED <<delivered, broken>>, late \subseteq late',
         NEW a \in Int, a = Len(sent), NEW b \in Int, b = Len(sent'), a <= b,
         DOMAIN delivered \subseteq Int
  PROVE  HarmInv'
<1>1. \A i : Harmed(i) => Harmed(i)'
  BY DEF Harmed
<1>2. \A i \in DOMAIN delivered : i <= a => i <= b
  OBVIOUS
<1>3. \A i \in DOMAIN delivered : (i <= b /\ delivered[i] = i) \/ Harmed(i)'
  BY <1>1, <1>2 DEF HarmInv
<1> QED
  BY <1>3 DEF HarmInv

(* The invariant speaks of nothing but the variables.                      *)
LEMMA FrameIInv == IInv /\ UNCHANGED vars => IInv'
<1> SUFFICES ASSUME IInv, UNCHANGED vars PROVE IInv'
  OBVIOUS
<1> USE DEF vars, writer_vars, reader_vars
<1>1. TypeInv'
  BY DEF IInv, TypeInv
<1>2. QueueInv' /\ HeadInv' /\ WriteInv'
  BY DEF IInv, QueueInv, HeadInv, WriteInv, Quiet, Written
<1>3. ReadInv' /\ HarmInv'
  BY DEF IInv, ReadInv, HarmInv, Harmed
<1>4. PartInv' /\ TakenInv'
  BY DEF IInv, PartInv, TakenInv, Taken, Written
<1> QED
  BY <1>1, <1>2, <1>3, <1>4 DEF IInv

(* WriteData appends to what was sent and to the queue alike.              *)
LEMMA WriteDataIInv ==
  ASSUME Concurrent = FALSE, IInv, NEW th \in Writers, WriteData(th)
  PROVE  IInv'
<1> DEFINE m == Len(sent) + 1
<1> USE MessengerAssumption
<1>1. /\ th \in Threads /\ \A u \in Threads : pc[u] = "idle"
      /\ Len(sent) \in Nat /\ m \in Messages
      /\ sent' = Append(sent, m) /\ write_queue_' = Append(write_queue_, m)
      /\ pc' = [pc EXCEPT ![th] = "pushed"]
      /\ UNCHANGED <<exit_, writes, completions, socket, closed, reader, header_,
                     body_, in_use, delivered, used, late, gone, broken>>
  BY DEF IInv, TypeInv, WriteData, MayEnter, Goto, Threads, Messages, reader_vars
<1> HIDE DEF m
<1>2. /\ sent' \in Seq(Messages) /\ Len(sent') = Len(sent) + 1
      /\ DOMAIN sent' = 1 .. Len(sent) + 1 /\ DOMAIN sent = 1 .. Len(sent)
      /\ \A k \in DOMAIN sent : sent'[k] = sent[k]
      /\ sent'[Len(sent) + 1] = m
  BY <1>1, Pushed DEF IInv, TypeInv
<1>3. /\ write_queue_' \in Seq(Messages) /\ write_queue_' # << >>
      /\ Len(write_queue_) \in Nat /\ Len(write_queue_') = Len(write_queue_) + 1
      /\ DOMAIN write_queue_' = 1 .. Len(write_queue_) + 1
      /\ DOMAIN write_queue_ = 1 .. Len(write_queue_)
      /\ \A k \in DOMAIN write_queue_ : write_queue_'[k] = write_queue_[k]
      /\ write_queue_'[Len(write_queue_) + 1] = m
  <2>1. write_queue_ \in Seq(Messages)
    BY DEF IInv, TypeInv
  <2> QED
    BY <1>1, <2>1, Pushed
<1>4. Written' = Written
  BY <1>1, <1>2, <1>3 DEF Written
<1>5. TypeInv'
  BY <1>1, <1>2, <1>3 DEF IInv, TypeInv, Threads
<1>6. QueueInv'
  <2> DEFINE a == Len(sent)
             b == Len(write_queue_)
  <2>1. /\ a \in Nat /\ b \in Nat /\ b <= a /\ Written = a - b /\ m = a + 1
        /\ \A i \in 1 .. a : sent[i] = i
        /\ \A k \in 1 .. b : write_queue_[k] = Written + k
    BY <1>1, <1>2, <1>3 DEF IInv, QueueInv, Written, m
  <2>2. /\ Len(sent') = a + 1 /\ Len(write_queue_') = b + 1
        /\ DOMAIN sent' = 1 .. a + 1 /\ DOMAIN write_queue_' = 1 .. b + 1
        /\ \A k \in 1 .. a : sent'[k] = sent[k]
        /\ \A k \in 1 .. b : write_queue_'[k] = write_queue_[k]
        /\ sent'[a + 1] = m /\ write_queue_'[b + 1] = m
    BY <1>2, <1>3
  <2> HIDE DEF a, b
  <2>3. Len(write_queue_') <= Len(sent')
    BY <2>1, <2>2
  <2>4. \A i \in 1 .. a + 1 : sent'[i] = i
    BY <2>1, <2>2
  <2>5. \A k \in 1 .. b + 1 : write_queue_'[k] = Written + k
    BY <2>1, <2>2
  <2> QED
    BY <1>4, <2>2, <2>3, <2>4, <2>5 DEF QueueInv
<1>7. WriteInv' /\ HeadInv'
  <2>1. pc' \in [Threads -> {"idle", "pushed"}] /\ \A u \in Threads : pc'[u] # "idle" => u = th
    BY <1>1 DEF IInv, TypeInv
  <2>2. Len(write_queue_') = 1 => Quiet'
    BY <1>1, <1>3 DEF IInv, WriteInv, Quiet, TypeInv
  <2> QED
    BY <1>1, <1>3, <1>4, <2>1, <2>2 DEF IInv, WriteInv, HeadInv, Quiet
<1>8. ReadInv' /\ HarmInv'
  <2>1. ReadInv'
    BY <1>1 DEF IInv, ReadInv
  <2>2. /\ HarmInv /\ late \subseteq late' /\ DOMAIN delivered \subseteq Int
        /\ Len(sent) \in Int /\ Len(sent') \in Int /\ Len(sent) <= Len(sent')
    BY <1>1, <1>2 DEF IInv, TypeInv
  <2> QED
    BY <1>1, <2>1, <2>2, HarmGrows
<1>9. PartInv' /\ TakenInv'
  <2>1. gone' = gone /\ Taken' = Taken
    BY <1>1 DEF Taken
  <2>2. PartInv'
    BY <1>1, <2>1 DEF IInv, PartInv
  <2>3. Len(write_queue_') = 1 => Taken = 2 * Written
    BY <1>1, <1>3 DEF IInv, TakenInv, TypeInv
  <2>4. TakenInv'
    BY <1>1, <1>3, <1>4, <2>1, <2>3 DEF IInv, TakenInv, TypeInv
  <2> QED
    BY <2>2, <2>4
<1> QED
  BY <1>5, <1>6, <1>7, <1>8, <1>9 DEF IInv

(* A step that moves no message keeps what is said of messages.            *)
LEMMA NoMessageMoves ==
  ASSUME IInv,
         UNCHANGED <<write_queue_, sent, writes, completions, socket, reader,
                     header_, delivered, late, gone, broken>>
  PROVE  /\ QueueInv' /\ HeadInv' /\ ReadInv' /\ HarmInv'
         /\ Written' = Written /\ Taken' = Taken /\ Quiet' = Quiet
         /\ PartInv'
BY DEF IInv, QueueInv, HeadInv, ReadInv, HarmInv, Harmed, PartInv, Written, Taken, Quiet

(* WriteData starts a write only for a message that is alone in the queue: *)
(* then none is under way.                                                 *)
LEMMA TestSizeIInv ==
  ASSUME Concurrent = FALSE, IInv, NEW th \in Writers, TestSize(th)
  PROVE  IInv'
<1> USE MessengerAssumption
<1>1. /\ th \in Threads /\ pc[th] = "pushed" /\ Len(write_queue_) \in Nat
      /\ pc' = [pc EXCEPT ![th] = IF Len(write_queue_) > 1 THEN "idle" ELSE "next"]
      /\ UNCHANGED <<exit_, writes, completions, socket, closed, reader, header_,
                     body_, in_use, delivered, used, late, gone, broken, write_queue_, sent>>
  BY DEF IInv, TypeInv, TestSize, Goto, Threads, reader_vars
<1>2. /\ QueueInv' /\ HeadInv' /\ ReadInv' /\ HarmInv'
      /\ Written' = Written /\ Taken' = Taken /\ Quiet' = Quiet
      /\ PartInv'
  BY <1>1, NoMessageMoves
<1>3. TypeInv'
  BY <1>1 DEF IInv, TypeInv, Threads
<1>4. \A u \in Threads : u # th => pc[u] = "idle" /\ pc'[u] = "idle"
  BY <1>1 DEF IInv, WriteInv, TypeInv
<1>5. /\ pc'[th] \in {"idle", "next"}
      /\ pc'[th] = "next" => Len(write_queue_) = 1
  <2>1. Len(write_queue_) # 0
    BY <1>1 DEF IInv, WriteInv, TypeInv
  <2>2. pc'[th] = IF Len(write_queue_) > 1 THEN "idle" ELSE "next"
    BY <1>1 DEF IInv, TypeInv
  <2>3. Len(write_queue_) \in Nat
    BY <1>1
  <2>4. Len(write_queue_) > 1 \/ Len(write_queue_) = 1
    <3> DEFINE q == Len(write_queue_)
    <3> HIDE DEF q
    <3>1. q \in Nat /\ q # 0 => q > 1 \/ q = 1
      OBVIOUS
    <3> QED
      BY <2>1, <2>3, <3>1 DEF q
  <2>5. CASE Len(write_queue_) > 1
    BY <2>2, <2>5
  <2>6. CASE Len(write_queue_) = 1
    BY <2>2, <2>6
  <2> QED
    BY <2>4, <2>5, <2>6
<1>6. WriteInv'
  BY <1>1, <1>2, <1>4, <1>5 DEF IInv, WriteInv, Quiet
<1>7. TakenInv'
  BY <1>1, <1>2, <1>4, <1>5 DEF IInv, TakenInv
<1> QED
  BY <1>2, <1>3, <1>6, <1>7 DEF IInv

(* OnMessageSent goes on with the next message, if there is one.           *)
LEMMA TestEmptyIInv ==
  ASSUME Concurrent = FALSE, IInv, TestEmpty
  PROVE  IInv'
<1> USE MessengerAssumption
<1>1. /\ Strand \in Threads /\ pc[Strand] = "popped"
      /\ pc' = [pc EXCEPT ![Strand] = IF write_queue_ # << >> THEN "next" ELSE "done"]
      /\ UNCHANGED <<exit_, writes, completions, socket, closed, reader, header_,
                     body_, in_use, delivered, used, late, gone, broken, write_queue_, sent>>
  BY DEF TestEmpty, Goto, Threads, reader_vars
<1>2. /\ QueueInv' /\ HeadInv' /\ ReadInv' /\ HarmInv'
      /\ Written' = Written /\ Taken' = Taken /\ Quiet' = Quiet
      /\ PartInv'
  BY <1>1, NoMessageMoves
<1>3. TypeInv'
  BY <1>1 DEF IInv, TypeInv, Threads
<1>4. \A u \in Threads : u # Strand => pc[u] = "idle" /\ pc'[u] = "idle"
  BY <1>1 DEF IInv, WriteInv, TypeInv
<1>5. /\ pc'[Strand] \in {"next", "done"}
      /\ pc'[Strand] = "next" => write_queue_ # << >>
  BY <1>1 DEF IInv, TypeInv
<1>6. WriteInv'
  BY <1>1, <1>2, <1>4, <1>5 DEF IInv, WriteInv, Quiet
<1>7. TakenInv'
  BY <1>1, <1>2, <1>4, <1>5 DEF IInv, TakenInv
<1> QED
  BY <1>2, <1>3, <1>6, <1>7 DEF IInv

(* The end of OnMessageSent and Close move no message.                     *)
LEMMA CloseIInv ==
  ASSUME Concurrent = FALSE, IInv, CloseSocket \/ Close
  PROVE  IInv'
<1> USE MessengerAssumption
<1>1. /\ Strand \in Threads
      /\ closed' \in BOOLEAN /\ exit_' \in BOOLEAN
      /\ pc' = pc \/ pc' = [pc EXCEPT ![Strand] = "idle"]
      /\ UNCHANGED <<writes, completions, socket, reader, header_,
                     body_, in_use, delivered, used, late, gone, broken, write_queue_, sent>>
  BY DEF IInv, TypeInv, CloseSocket, Close, Goto, Threads, reader_vars
<1>2. /\ QueueInv' /\ HeadInv' /\ ReadInv' /\ HarmInv'
      /\ Written' = Written /\ Taken' = Taken /\ Quiet' = Quiet
      /\ PartInv'
  BY <1>1, NoMessageMoves
<1>3. TypeInv'
  BY <1>1 DEF IInv, TypeInv, Threads
<1>4. \A u \in Threads : pc'[u] \in {pc[u], "idle"}
  BY <1>1 DEF IInv, TypeInv
<1>5. WriteInv'
  BY <1>1, <1>2, <1>4 DEF IInv, WriteInv, Quiet
<1>6. TakenInv'
  BY <1>1, <1>2, <1>4 DEF IInv, TakenInv
<1> QED
  BY <1>2, <1>3, <1>5, <1>6 DEF IInv

(* The read handler's return, a message's use and the reading end's        *)
(* departure move no message either.                                       *)
LEMMA HandlerIInv ==
  ASSUME Concurrent = FALSE, IInv, UseMessage \/ HandlerReturns \/ Disconnect
  PROVE  IInv'
<1>1. /\ UNCHANGED <<writes, completions, socket, header_, body_, delivered, late, gone, broken,
                     write_queue_, sent, pc, exit_>>
      /\ closed' \in BOOLEAN
      /\ reader' \in {"header", "handler", "body", "ended"}
      /\ (reader' = "body") = (reader = "body") \/ reader' = "ended"
      /\ reader = "ended" => reader' = "ended"
      /\ reader' = "body" => reader = "body"
  BY DEF IInv, TypeInv, UseMessage, HandlerReturns, Disconnect, writer_vars
<1>2. TypeInv'
  <2>1. in_use' \in Nat
    BY DEF IInv, TypeInv, UseMessage, HandlerReturns, Disconnect
  <2>2. used' \in Seq(Messages \cup {Damaged})
    <3>1. /\ body_ \in Messages \cup {Damaged}
          /\ used \in Seq(Messages \cup {Damaged})
          /\ used' = Append(used, body_) \/ used' = used
      BY DEF IInv, TypeInv, UseMessage, HandlerReturns, Disconnect
    <3> QED
      BY <3>1
  <2> QED
    BY <1>1, <2>1, <2>2 DEF IInv, TypeInv
<1>3. QueueInv' /\ HeadInv' /\ WriteInv' /\ ReadInv' /\ HarmInv'
  BY <1>1 DEF IInv, QueueInv, HeadInv, WriteInv, ReadInv, HarmInv, Harmed, Written, Quiet
<1>4. PartInv' /\ TakenInv'
  BY <1>1 DEF IInv, PartInv, TakenInv, Taken, Written
<1> QED
  BY <1>2, <1>3, <1>4 DEF IInv

(* What is first in the socket is the part whose turn it is, of a message  *)
(* that was sent.                                                          *)
LEMMA FirstPart ==
  ASSUME IInv, socket # << >>, NEW p, p = Head(socket)
  PROVE  /\ p \in Part /\ p.msg \in Messages
         /\ \/ p.kind = "header" /\ gone + 1 = 2 * p.msg - 1
            \/ p.kind = "body" /\ gone + 1 = 2 * p.msg
         /\ p.intact \/ <<p.msg, p.kind>> \in late
         /\ p.msg \in Nat /\ p.msg >= 1 /\ p.msg <= Len(sent)
<1>1. socket \in Seq(Part)
  BY DEF IInv, TypeInv
<1>2. p = socket[1] /\ 1 \in DOMAIN socket /\ p \in Part
  BY <1>1, Popped
<1>3. /\ \/ p.kind = "header" /\ gone + 1 = 2 * p.msg - 1
         \/ p.kind = "body" /\ gone + 1 = 2 * p.msg
      /\ p.intact \/ <<p.msg, p.kind>> \in late
  BY <1>2 DEF IInv, PartInv
<1>4. p.msg \in Messages /\ p.msg \in Nat /\ p.msg >= 1
  BY <1>2, MessengerAssumption DEF Part, Messages
<1>5. p.msg <= Len(sent)
  <2>1. Len(sent) \in Nat /\ Len(write_queue_) \in Nat /\ Len(socket) \in Nat \ {0}
        /\ gone \in Nat
    BY <1>1 DEF IInv, TypeInv
  <2>2. Taken <= 2 * Written + 2 /\ (Len(write_queue_) = 0 => Taken = 2 * Written)
    BY DEF IInv, TakenInv, TypeInv
  <2>3. Taken = gone + Len(socket) /\ Written = Len(sent) - Len(write_queue_)
    BY DEF Taken, Written
  <2> DEFINE s == Len(sent)
             q == Len(write_queue_)
             l == Len(socket)
  <2> HIDE DEF s, q, l
  <2>4. /\ s \in Nat /\ q \in Nat /\ l \in Nat \ {0} /\ gone \in Nat
        /\ gone + l <= 2 * (s - q) + 2 /\ (q = 0 => gone + l = 2 * (s - q))
    BY <2>1, <2>2, <2>3 DEF s, q, l
  <2>5. gone + 1 <= 2 * s
    BY <2>4
  <2>6. p.msg <= s
    BY <1>3, <1>4, <2>4, <2>5
  <2> QED
    BY <2>6 DEF s
<1> QED
  BY <1>2, <1>3, <1>4, <1>5

(* A read takes the first part, or leaves some of it: the parts stay in    *)
(* their order either way.                                                 *)
LEMMA ReadKeepsParts ==
  ASSUME IInv, socket # << >>, TakeBytes,
         UNCHANGED <<write_queue_, sent, writes, completions, pc, late>>
  PROVE  /\ socket' \in Seq(Part) /\ Len(socket') <= Room /\ gone' \in Nat
         /\ PartInv' /\ TakenInv'
<1>1. /\ socket \in Seq(Part) /\ gone \in Nat /\ Len(socket) \in Nat
      /\ Len(socket) <= Room
  BY DEF IInv, TypeInv
<1>2. CASE UNCHANGED <<socket, gone>>
  BY <1>1, <1>2 DEF IInv, PartInv, TakenInv, Taken, Written
<1>3. CASE TakePart
  <2>1. socket' = Tail(socket) /\ gone' = gone + 1
    BY <1>3 DEF TakePart
  <2>2. /\ socket' \in Seq(Part) /\ Len(socket') = Len(socket) - 1
        /\ Len(socket') \in Nat
        /\ DOMAIN socket = 1 .. Len(socket) /\ DOMAIN socket' = 1 .. Len(socket) - 1
        /\ \A k \in DOMAIN socket' : socket'[k] = socket[k + 1] /\ k + 1 \in DOMAIN socket
    BY <1>1, <2>1, Popped
  <2>3. Taken' = Taken /\ Written' = Written
    BY <1>1, <2>1, <2>2 DEF Taken, Written
  <2>4. PartInv'
    <3> SUFFICES ASSUME NEW k \in DOMAIN socket'
                 PROVE  PartInv!(k)'
      BY DEF PartInv
    <3>1. gone' + k = gone + (k + 1)
      BY <1>1, <2>1, <2>2
    <3> QED
      BY <2>2, <3>1 DEF IInv, PartInv
  <2>5. TakenInv'
    BY <2>3 DEF IInv, TakenInv
  <2>6. Len(socket') <= Room
    BY <1>1, <2>2, MessengerAssumption
  <2> QED
    BY <1>1, <2>1, <2>2, <2>4, <2>5, <2>6
<1> QED
  BY <1>2, <1>3 DEF TakeBytes

(* The read handler is called with the message of its turn, or with one    *)
(* that has been harmed.                                                   *)
LEMMA DeliverHarm ==
  ASSUME IInv, NEW m \in Messages \cup {Damaged},
         delivered' = Append(delivered, m), UNCHANGED <<late, sent>>,
         broken' => \E j \in 1 .. Len(delivered) + 1 : <<j, "header">> \in late,
         \/ m = Len(delivered) + 1 /\ m <= Len(sent)
         \/ Harmed(Len(delivered) + 1)
  PROVE  /\ HarmInv' /\ Len(delivered') = Len(delivered) + 1
         /\ delivered' \in Seq(Messages \cup {Damaged})
<1>1. /\ delivered' \in Seq(Messages \cup {Damaged})
      /\ Len(delivered) \in Nat /\ Len(delivered') = Len(delivered) + 1
      /\ DOMAIN delivered' = 1 .. Len(delivered) + 1
      /\ DOMAIN delivered = 1 .. Len(delivered)
      /\ \A k \in DOMAIN delivered : delivered'[k] = delivered[k]
      /\ delivered'[Len(delivered) + 1] = m
  <2>1. delivered \in Seq(Messages \cup {Damaged})
    BY DEF IInv, TypeInv
  <2> QED
    BY <2>1, Pushed
<1>2. \A i : Harmed(i)' = Harmed(i)
  BY DEF Harmed
<1>3. ASSUME NEW i \in DOMAIN delivered'
      PROVE  (i <= Len(sent') /\ delivered'[i] = i) \/ Harmed(i)'
  <2>1. CASE i \in DOMAIN delivered
    BY <1>1, <1>2, <2>1 DEF IInv, HarmInv
  <2>2. CASE i = Len(delivered) + 1
    BY <1>1, <1>2, <2>2
  <2> QED
    BY <1>1, <1>3, <2>1, <2>2
<1>4. broken' => \E j \in 1 .. Len(delivered') + 1 : <<j, "header">> \in late'
  <2> SUFFICES ASSUME broken'
               PROVE  \E j \in 1 .. Len(delivered') + 1 : <<j, "header">> \in late'
    OBVIOUS
  <2>1. PICK j \in 1 .. Len(delivered) + 1 : <<j, "header">> \in late
    OBVIOUS
  <2>2. j \in 1 .. Len(delivered') + 1
    BY <1>1
  <2> QED
    BY <2>1, <2>2
<1> QED
  BY <1>1, <1>3, <1>4 DEF HarmInv

(* ReadMessageAsync takes a length, or what it takes for one.              *)
LEMMA ReadHeaderIInv ==
  ASSUME Concurrent = FALSE, IInv, ReadHeader
  PROVE  IInv'
<1> DEFINE p == Head(socket)
           l == Len(delivered)
<1>1. /\ UNCHANGED <<write_queue_, exit_, pc, writes, completions, closed, used,
                     sent, late>>
      /\ reader = "header" /\ socket # << >> /\ TakeBytes
  BY DEF ReadHeader, writer_vars, TakeBytes
<1>2. /\ p \in Part /\ p.msg \in Messages
      /\ \/ p.kind = "header" /\ gone + 1 = 2 * p.msg - 1
         \/ p.kind = "body" /\ gone + 1 = 2 * p.msg
      /\ p.intact \/ <<p.msg, p.kind>> \in late
      /\ p.msg \in Nat /\ p.msg >= 1 /\ p.msg <= Len(sent)
  BY <1>1, FirstPart
<1>3. /\ socket' \in Seq(Part) /\ Len(socket') <= Room /\ gone' \in Nat
      /\ PartInv' /\ TakenInv'
  BY <1>1, ReadKeepsParts
<1>4. QueueInv' /\ HeadInv' /\ WriteInv'
  BY <1>1 DEF IInv, QueueInv, HeadInv, WriteInv, Written, Quiet
<1>5. /\ \/ /\ p.intact /\ p.kind = "header" /\ TakePart /\ header_' = p.msg
            /\ AwaitBody /\ broken' = broken
         \/ /\ broken \/ (~p.intact /\ TakePart)
            /\ header_' = Damaged /\ broken' = TRUE
            /\ AwaitBody \/ Deliver(Damaged)
  BY DEF ReadHeader
<1>6. l \in Nat /\ gone \in Nat /\ (~broken => gone = 2 * l)
  BY <1>1 DEF IInv, TypeInv, ReadInv
<1>7. broken' => \E j \in 1 .. l + 1 : <<j, "header">> \in late
  <2>1. CASE broken
    BY <2>1 DEF IInv, HarmInv
  <2>2. CASE ~broken /\ ~p.intact
    <3> HIDE DEF l, p
    <3>1. p.kind = "header" /\ p.msg = l + 1
      BY <1>2, <1>6, <2>2
    <3>2. l + 1 \in 1 .. l + 1
      BY <1>6
    <3> QED
      BY <1>2, <2>2, <3>1, <3>2
  <2>3. CASE ~broken /\ p.intact
    BY <1>5, <2>3
  <2> QED
    BY <2>1, <2>2, <2>3
<1> HIDE DEF p
<1>8. CASE AwaitBody
  <2>1. reader' = "body" /\ body_' = Damaged /\ UNCHANGED <<delivered, in_use>>
    BY <1>8 DEF AwaitBody
  <2>2. header_' \in Messages \cup {Damaged} /\ broken' \in BOOLEAN
    BY <1>2, <1>5 DEF IInv, TypeInv
  <2>3. TypeInv'
    BY <1>1, <1>3, <2>1, <2>2 DEF IInv, TypeInv
  <2>4. HarmInv'
    <3>1. \A i : Harmed(i)' = Harmed(i)
      BY <1>1 DEF Harmed
    <3> QED
      BY <1>1, <1>7, <2>1, <3>1 DEF IInv, HarmInv
  <2>5. ReadInv'
    <3>1. CASE p.intact /\ p.kind = "header" /\ TakePart /\ header_' = p.msg
               /\ broken' = broken
      <4>1. gone' = gone + 1 /\ gone + 1 = 2 * p.msg - 1
        BY <1>2, <3>1 DEF TakePart
      <4>2. Len(delivered') = l
        BY <2>1
      <4>3. ~broken' => gone' = 2 * Len(delivered') + 1
        BY <1>6, <3>1, <4>1, <4>2
      <4>4. header_' # Damaged
        BY <1>2, <3>1 DEF Damaged
      <4> QED
        BY <2>1, <3>1, <4>1, <4>3, <4>4 DEF ReadInv
    <3>2. CASE header_' = Damaged /\ broken' = TRUE
      BY <3>2 DEF ReadInv
    <3> QED
      BY <1>5, <3>1, <3>2
  <2> QED
    BY <1>3, <1>4, <2>3, <2>4, <2>5 DEF IInv
<1>9. CASE header_' = Damaged /\ broken' = TRUE /\ Deliver(Damaged)
  <2>1. /\ reader' = "handler" /\ body_' = Damaged /\ in_use' = in_use + 1
        /\ delivered' = Append(delivered, Damaged)
    BY <1>9 DEF Deliver
  <2>2. Harmed(l + 1) /\ Damaged \in Messages \cup {Damaged}
    BY <1>7, <1>9 DEF Harmed
  <2>3. HarmInv' /\ delivered' \in Seq(Messages \cup {Damaged})
    BY <1>1, <1>7, <2>1, <2>2, DeliverHarm
  <2>4. TypeInv'
    <3>1. in_use' \in Nat
      BY <2>1 DEF IInv, TypeInv
    <3> QED
      BY <1>1, <1>3, <1>9, <2>1, <2>3, <3>1 DEF IInv, TypeInv
  <2>5. ReadInv'
    BY <1>9, <2>1 DEF ReadInv
  <2> QED
    BY <1>3, <1>4, <2>3, <2>4, <2>5 DEF IInv
<1> QED
  BY <1>5, <1>8, <1>9

(* ReadMessageAsync hands the next message to the handler, as it was sent  *)
(* or with a body that was taken late; out of step, whatever it has read.  *)
LEMMA ReadBodyIInv ==
  ASSUME Concurrent = FALSE, IInv, ReadBody
  PROVE  IInv'
<1> DEFINE p == Head(socket)
           l == Len(delivered)
           m == IF header_ # Damaged /\ p.intact THEN p.msg ELSE Damaged
<1>1. /\ UNCHANGED <<write_queue_, exit_, pc, writes, completions, closed, used,
                     sent, late, header_, broken>>
      /\ reader = "body" /\ socket # << >> /\ TakeBytes
      /\ \/ header_ # Damaged /\ TakePart /\ Deliver(m)
         \/ header_ = Damaged /\ Deliver(m)
         \/ header_ = Damaged /\ AwaitBody
  BY DEF ReadBody, writer_vars, TakeBytes
<1>2. /\ p \in Part /\ p.msg \in Messages
      /\ \/ p.kind = "header" /\ gone + 1 = 2 * p.msg - 1
         \/ p.kind = "body" /\ gone + 1 = 2 * p.msg
      /\ p.intact \/ <<p.msg, p.kind>> \in late
      /\ p.msg \in Nat /\ p.msg >= 1 /\ p.msg <= Len(sent)
  BY <1>1, FirstPart
<1>3. /\ socket' \in Seq(Part) /\ Len(socket') <= Room /\ gone' \in Nat
      /\ PartInv' /\ TakenInv'
  BY <1>1, ReadKeepsParts
<1>4. QueueInv' /\ HeadInv' /\ WriteInv'
  BY <1>1 DEF IInv, QueueInv, HeadInv, WriteInv, Written, Quiet
<1>5. /\ l \in Nat /\ gone \in Nat /\ (~broken => gone = 2 * l + 1)
      /\ header_ = Damaged => broken
      /\ broken => \E j \in 1 .. l + 1 : <<j, "header">> \in late
  <2>1. l \in Nat /\ gone \in Nat
    BY DEF IInv, TypeInv
  <2>2. (~broken => gone = 2 * l + 1) /\ (header_ = Damaged => broken)
    BY <1>1 DEF IInv, ReadInv
  <2>3. broken => \E j \in 1 .. l + 1 : <<j, "header">> \in late
    BY DEF IInv, HarmInv
  <2> QED
    BY <2>1, <2>2, <2>3
<1> HIDE DEF p
<1>6. CASE Deliver(m) /\ (header_ = Damaged \/ TakePart)
  <2>1. /\ reader' = "handler" /\ body_' = m /\ in_use' = in_use + 1
        /\ delivered' = Append(delivered, m)
    BY <1>6 DEF Deliver
  <2>2. m \in Messages \cup {Damaged}
    BY <1>2
  <2>3. (m = l + 1 /\ m <= Len(sent)) \/ Harmed(l + 1)
    <3>1. CASE broken
      BY <1>5, <3>1 DEF Harmed
    <3>2. CASE ~broken
      <4>1. p.kind = "body" /\ p.msg = l + 1
        <5> HIDE DEF l
        <5> QED
          BY <1>2, <1>5, <3>2
      <4>2. header_ # Damaged
        BY <1>5, <3>2
      <4>3. CASE p.intact
        BY <1>2, <4>1, <4>2, <4>3
      <4>4. CASE ~p.intact
        BY <1>2, <4>1, <4>4 DEF Harmed
      <4> QED
        BY <4>3, <4>4
    <3> QED
      BY <3>1, <3>2
  <2> HIDE DEF m
  <2>4. HarmInv' /\ delivered' \in Seq(Messages \cup {Damaged}) /\ Len(delivered') = l + 1
    BY <1>1, <1>5, <2>1, <2>2, <2>3, DeliverHarm
  <2>5. TypeInv'
    <3>1. in_use' \in Nat
      BY <2>1 DEF IInv, TypeInv
    <3> QED
      BY <1>1, <1>3, <2>1, <2>2, <2>4, <3>1 DEF IInv, TypeInv
  <2>6. ReadInv'
    <3>1. ~broken => gone' = 2 * (l + 1)
      <4> SUFFICES ASSUME ~broken PROVE gone' = 2 * (l + 1)
        OBVIOUS
      <4>1. gone' = gone + 1
        BY <1>5, <1>6 DEF TakePart
      <4> HIDE DEF l
      <4> QED
        BY <1>5, <4>1
    <3> QED
      BY <1>1, <2>1, <2>4, <3>1 DEF ReadInv
  <2> QED
    BY <1>3, <1>4, <2>4, <2>5, <2>6 DEF IInv
<1>7. CASE header_ = Damaged /\ AwaitBody
  <2>1. reader' = "body" /\ body_' = Damaged /\ UNCHANGED <<delivered, in_use>>
    BY <1>7 DEF AwaitBody
  <2>2. TypeInv'
    BY <1>1, <1>3, <2>1 DEF IInv, TypeInv
  <2>3. HarmInv'
    <3>1. \A i : Harmed(i)' = Harmed(i)
      BY <1>1 DEF Harmed
    <3> QED
      BY <1>1, <2>1, <3>1 DEF IInv, HarmInv
  <2>4. ReadInv'
    BY <1>1, <1>5, <1>7, <2>1 DEF ReadInv
  <2> QED
    BY <1>3, <1>4, <2>2, <2>3, <2>4 DEF IInv
<1> QED
  BY <1>1, <1>6, <1>7

(* OnMessageSent takes the message off the queue whose frame the socket    *)
(* has taken, and leaves the queue alone after an error.                   *)
LEMMA OnMessageSentIInv ==
  ASSUME Concurrent = FALSE, IInv, OnMessageSent
  PROVE  IInv'
<1> USE MessengerAssumption
<1>1. /\ Strand \in Threads /\ \A u \in Threads : pc[u] = "idle"
      /\ completions # << >> /\ completions' = Tail(completions)
      /\ UNCHANGED <<exit_, writes, socket, closed, reader, header_,
                     body_, in_use, delivered, used, late, gone, broken, sent>>
  BY DEF OnMessageSent, MayEnter, Threads, reader_vars
<1>2. /\ completions' = << >> /\ Len(completions) = 1
      /\ Head(completions) = completions[1] /\ writes = {}
  <2>1. completions \in Seq(BOOLEAN) /\ Len(completions) = 1 /\ writes = {}
    BY <1>1 DEF IInv, TypeInv, WriteInv
  <2> QED
    BY <1>1, <2>1, Popped
<1>3. completions' \in Seq(BOOLEAN)
  BY <1>2
<1>4. CASE ~Head(completions)
  <2>1. UNCHANGED <<write_queue_, pc>>
    BY <1>4 DEF OnMessageSent
  <2>2. TypeInv'
    BY <1>1, <1>3, <2>1 DEF IInv, TypeInv
  <2>3. QueueInv' /\ HeadInv' /\ WriteInv' /\ ReadInv' /\ HarmInv'
    <3>1. QueueInv' /\ HeadInv' /\ ReadInv' /\ HarmInv'
      BY <1>1, <2>1 DEF IInv, QueueInv, HeadInv, ReadInv, HarmInv, Harmed, Written
    <3>2. WriteInv'
      BY <1>1, <1>2, <1>3, <2>1 DEF IInv, WriteInv, Quiet
    <3> QED
      BY <3>1, <3>2
  <2>4. PartInv' /\ TakenInv'
    BY <1>1, <1>2, <2>1 DEF IInv, PartInv, TakenInv, Written, Taken
  <2> QED
    BY <2>2, <2>3, <2>4 DEF IInv
<1>5. CASE Head(completions)
  <2>1. /\ write_queue_ \in Seq(Messages) /\ write_queue_ # << >>
        /\ write_queue_' = Tail(write_queue_)
        /\ pc' = [pc EXCEPT ![Strand] = "popped"]
    BY <1>5 DEF OnMessageSent, Goto, IInv, TypeInv
  <2>2. /\ write_queue_' \in Seq(Messages) /\ Len(write_queue_') = Len(write_queue_) - 1
        /\ Len(write_queue_') \in Nat
        /\ DOMAIN write_queue_ = 1 .. Len(write_queue_)
        /\ DOMAIN write_queue_' = 1 .. Len(write_queue_) - 1
        /\ \A k \in DOMAIN write_queue_' :
             write_queue_'[k] = write_queue_[k + 1] /\ k + 1 \in DOMAIN write_queue_
    BY <2>1, Popped
  <2>3. Len(sent) \in Nat /\ Written \in Int /\ Written' = Written + 1
    BY <1>1, <2>2, <2>1 DEF Written, IInv, TypeInv
  <2>4. /\ \A u \in Threads : u # Strand => pc'[u] = "idle"
        /\ pc'[Strand] = "popped"
        /\ pc' \in [Threads -> {"idle", "pushed", "next", "popped", "done"}]
    BY <1>1, <2>1 DEF IInv, TypeInv
  <2>5. TypeInv'
    BY <1>1, <1>3, <2>1, <2>2, <2>4 DEF IInv, TypeInv
  <2>6. QueueInv'
    <3>1. Len(write_queue_') <= Len(sent')
      BY <1>1, <2>1, <2>2, <2>3 DEF IInv, QueueInv
    <3>2. ASSUME NEW k \in DOMAIN write_queue_'
          PROVE  write_queue_'[k] = Written' + k
      <4>1. write_queue_[k + 1] = Written + (k + 1)
        BY <2>2, <3>2 DEF IInv, QueueInv
      <4> QED
        BY <2>2, <2>3, <3>2, <4>1
    <3> QED
      BY <1>1, <3>1, <3>2 DEF IInv, QueueInv
  <2>7. HeadInv' /\ WriteInv' /\ ReadInv' /\ HarmInv'
    <3>1. HeadInv' /\ ReadInv' /\ HarmInv'
      BY <1>1, <1>2 DEF IInv, HeadInv, ReadInv, HarmInv, Harmed
    <3>2. WriteInv'
      BY <1>1, <1>2, <1>3, <2>4 DEF WriteInv, Quiet
    <3> QED
      BY <3>1, <3>2
  <2>8. PartInv' /\ TakenInv'
    <3>1. Taken' = Taken /\ gone' = gone
      BY <1>1 DEF Taken
    <3>2. Taken = 2 * Written'
      <4>1. Taken = 2 * Written + 2
        BY <1>1, <1>2, <1>5 DEF IInv, TakenInv
      <4> QED
        BY <2>3, <4>1
    <3>3. PartInv'
      BY <1>1, <3>1 DEF IInv, PartInv
    <3>4. TakenInv'
      BY <1>1, <1>2, <2>3, <2>4, <3>1, <3>2 DEF TakenInv
    <3> QED
      BY <3>3, <3>4
  <2> QED
    BY <2>5, <2>6, <2>7, <2>8 DEF IInv
<1> QED
  BY <1>4, <1>5

(* A part is appended to those in the socket in its turn.                  *)
LEMMA TakeOnePart ==
  ASSUME IInv, NEW p \in Part,
         gone' = gone, late \subseteq late',
         socket' = Append(socket, p),
         p.intact \/ <<p.msg, p.kind>> \in late',
         \/ p.kind = "header" /\ Taken + 1 = 2 * p.msg - 1
         \/ p.kind = "body" /\ Taken + 1 = 2 * p.msg
  PROVE  Taken' = Taken + 1 /\ PartInv'
<1>1. /\ Len(socket) \in Nat /\ socket \in Seq(Part)
      /\ gone \in Nat /\ gone' = gone
  BY DEF IInv, TypeInv
<1>2. /\ Len(socket') = Len(socket) + 1
      /\ DOMAIN socket = 1 .. Len(socket) /\ DOMAIN socket' = 1 .. Len(socket) + 1
      /\ \A k \in DOMAIN socket : socket'[k] = socket[k]
      /\ socket'[Len(socket) + 1] = p
  BY <1>1, Pushed
<1>3. Taken' = Taken + 1 /\ Taken = gone + Len(socket)
  BY <1>1, <1>2 DEF Taken
<1>4. ASSUME NEW k \in DOMAIN socket'
      PROVE  PartInv!(k)'
  <2>1. CASE k \in DOMAIN socket
    BY <1>1, <1>2, <2>1 DEF IInv, PartInv
  <2>2. CASE k = Len(socket) + 1
    <3>1. gone' + k = Taken + 1
      BY <1>1, <1>3, <2>2
    <3> QED
      BY <1>2, <2>2, <3>1
  <2>3. k \in DOMAIN socket \/ k = Len(socket) + 1
    <3>1. \A a \in Nat : \A b \in 1 .. a + 1 : b \in 1 .. a \/ b = a + 1
      OBVIOUS
    <3> QED
      BY <1>1, <1>2, <3>1
  <2> QED
    BY <2>1, <2>2, <2>3
<1> QED
  BY <1>1, <1>3, <1>4 DEF PartInv

(* WriteNext writes the first message of the queue, of which no part was   *)
(* taken before, when no write is under way.                               *)
LEMMA WriteNextIInv ==
  ASSUME Concurrent = FALSE, IInv, NEW th \in Threads, WriteNext(th)
  PROVE  IInv'
<1> USE MessengerAssumption
<1> DEFINE m == Head(write_queue_)
           Failed == \/ completions' = << >>
                     \/ /\ completions' \in Seq(BOOLEAN) /\ Len(completions') = 1
                        /\ ~completions'[1]
<1>1. /\ pc[th] = "next" /\ write_queue_ # << >>
      /\ pc' = [pc EXCEPT ![th] = IF th = Strand THEN "done" ELSE "idle"]
      /\ UNCHANGED <<write_queue_, exit_, closed, reader, header_,
                     body_, in_use, delivered, used, late, gone, broken, sent>>
  BY DEF WriteNext, Goto, reader_vars
<1>2. /\ writes = {} /\ completions = << >>
      /\ \A u \in Threads : u # th => pc[u] = "idle"
  BY <1>1 DEF IInv, WriteInv, Quiet
<1>3. /\ \A u \in Threads : pc'[u] \in {"idle", "done"}
      /\ \A u \in Threads : pc'[u] # "idle" => u = th
      /\ pc' \in [Threads -> {"idle", "pushed", "next", "popped", "done"}]
      /\ \A t \in Threads : t # Strand => pc'[t] \in {"idle", "pushed", "next"}
      /\ pc'[Strand] # "pushed"
  BY <1>1, <1>2 DEF IInv, TypeInv, Threads
<1>4. m \in Messages /\ m = Written + 1 /\ m \in Nat /\ Written \in Int
  <2>1. write_queue_ \in Seq(Messages) /\ Len(sent) \in Nat /\ Len(write_queue_) \in Nat
    BY DEF IInv, TypeInv
  <2>2. m = write_queue_[1] /\ 1 \in DOMAIN write_queue_ /\ write_queue_[1] \in Messages
    BY <1>1, <2>1, Popped
  <2> QED
    BY <2>1, <2>2 DEF IInv, QueueInv, Written, Messages
<1>5. QueueInv' /\ ReadInv' /\ HarmInv' /\ Written' = Written
  BY <1>1 DEF IInv, QueueInv, ReadInv, HarmInv, Harmed, Written
<1>6. PartInv /\ Taken = 2 * Written
  BY <1>1 DEF IInv, TakenInv
<1>7. Len(socket) \in Nat /\ Len(delivered) \in Nat /\ gone \in Nat
      /\ Taken = gone + Len(socket)
  BY DEF IInv, TypeInv, Taken
<1>8. CASE UNCHANGED <<socket, writes>> /\ Failed
  <2>1. TypeInv'
    <3>1. completions' \in Seq(BOOLEAN)
      <4>1. << >> \in Seq(BOOLEAN)
        OBVIOUS
      <4> QED
        BY <1>8, <4>1
    <3> QED
      BY <1>1, <1>3, <1>8, <3>1 DEF IInv, TypeInv
  <2>2. HeadInv' /\ WriteInv'
    BY <1>1, <1>2, <1>3, <1>8 DEF HeadInv, WriteInv, Quiet
  <2>3. PartInv' /\ TakenInv'
    <3>1. gone' = gone /\ Taken' = Taken
      BY <1>1, <1>8 DEF Taken
    <3>2. PartInv'
      BY <1>1, <1>6, <1>8, <3>1 DEF PartInv
    <3>3. TakenInv'
      BY <1>1, <1>2, <1>3, <1>4, <1>5, <1>6, <1>8, <3>1 DEF TakenInv
    <3> QED
      BY <3>2, <3>3
  <2> QED
    BY <1>5, <2>1, <2>2, <2>3 DEF IInv
<1>9. CASE AsyncWrite(m)
  <2> DEFINE free == Room - Len(socket)
             n == IF free < 2 THEN free ELSE 2
  <2>1. free \in Nat
    BY <1>7 DEF IInv, TypeInv
  <2>2. n \in {0, 1, 2} /\ Len(socket) + n <= Room
    BY <1>7, <2>1
  <2>3. /\ socket' = socket \o SubSeq(Frame(m, TRUE), 1, n)
        /\ n = 2 => completions' = Append(completions, TRUE) /\ writes' = writes
        /\ n # 2 => /\ writes' = writes \cup {[msg |-> m, taken |-> n]}
                    /\ completions' = completions
    BY <1>9 DEF AsyncWrite
  <2> HIDE DEF m, n
  <2>4. /\ n = 2 => /\ completions' \in Seq(BOOLEAN) /\ Len(completions') = 1
                    /\ completions'[1] /\ writes' = {}
        /\ n # 2 => completions' = << >> /\ writes' = {[msg |-> m, taken |-> n]}
    BY <1>2, <2>3, PostedAlone
  <2>5. /\ socket' \in Seq(Part) /\ Len(socket') = Len(socket) + n
        /\ \A k \in 1 .. Len(socket) : socket'[k] = socket[k]
        /\ n >= 1 => socket'[Len(socket) + 1]
                       = [msg |-> m, kind |-> "header", intact |-> TRUE]
        /\ n = 2 => socket'[Len(socket) + 2]
                      = [msg |-> m, kind |-> "body", intact |-> TRUE]
    <3>1. socket \in Seq(Part)
      BY DEF IInv, TypeInv
    <3> DEFINE t == socket \o SubSeq(Frame(m, TRUE), 1, n)
    <3>2. /\ t \in Seq(Part) /\ Len(t) = Len(socket) + n
          /\ \A k \in 1 .. Len(socket) : t[k] = socket[k]
          /\ n >= 1 => t[Len(socket) + 1]
                         = [msg |-> m, kind |-> "header", intact |-> TRUE]
          /\ n = 2 => t[Len(socket) + 2]
                        = [msg |-> m, kind |-> "body", intact |-> TRUE]
      BY <1>4, <2>2, <3>1, ConcatFrame
    <3>3. socket' = t
      BY <2>3
    <3> HIDE DEF t
    <3> QED
      BY <3>2, <3>3
  <2>6. /\ writes' \in SUBSET [msg : Messages, taken : {0, 1}]
        /\ completions' \in Seq(BOOLEAN)
        /\ completions' = << >> \/ Len(completions') = 1
    <3>1. CASE n = 2
      BY <2>4, <3>1
    <3>2. CASE n # 2
      <4>1. n \in {0, 1} /\ << >> \in Seq(BOOLEAN)
        BY <2>2, <3>2
      <4> QED
        BY <1>4, <2>4, <3>2, <4>1
    <3> QED
      BY <3>1, <3>2
  <2>7. TypeInv'
    <3>1. Len(socket') <= Room
      BY <2>2, <2>5
    <3> QED
      BY <1>1, <1>3, <2>5, <2>6, <3>1 DEF IInv, TypeInv
  <2>8. HeadInv' /\ WriteInv'
    <3>1. \A w \in writes' : w.msg = m
      BY <2>4
    <3>2. \A v, w \in writes' : v = w
      BY <2>4
    <3>3. writes' # {} => completions' = << >>
      BY <2>4
    <3> QED
      BY <1>1, <1>3, <1>4, <1>5, <2>6, <3>1, <3>2, <3>3 DEF HeadInv, WriteInv, Quiet, m
  <2>9. PartInv' /\ TakenInv'
    <3>1. gone' = gone /\ Taken' = Taken + n /\ Taken = 2 * Written
      <4>1. gone' = gone
        BY <1>1
      <4>2. Taken' = gone + Len(socket')
        BY <4>1 DEF Taken
      <4> QED
        BY <1>1, <1>6, <1>7, <2>2, <2>5, <4>1, <4>2
    <3>2. PartInv'
      <4> SUFFICES ASSUME NEW k \in DOMAIN socket'
                   PROVE  PartInv!(k)'
        BY DEF PartInv
      <4>1. DOMAIN socket' = 1 .. Len(socket) + n /\ DOMAIN socket = 1 .. Len(socket)
        BY <2>5 DEF IInv, TypeInv
      <4>2. CASE k \in 1 .. Len(socket)
        BY <1>1, <1>6, <2>5, <3>1, <4>1, <4>2 DEF PartInv
      <4>3. CASE k = Len(socket) + 1 /\ n >= 1
        <5>1. gone' + k = 2 * m - 1
          BY <1>4, <1>7, <3>1, <4>3 DEF m
        <5> QED
          BY <2>5, <4>3, <5>1
      <4>4. CASE k = Len(socket) + 2 /\ n = 2
        <5>1. gone' + k = 2 * m
          BY <1>4, <1>7, <3>1, <4>4 DEF m
        <5> QED
          BY <2>5, <4>4, <5>1
      <4>5. \/ k \in 1 .. Len(socket)
            \/ k = Len(socket) + 1 /\ n >= 1
            \/ k = Len(socket) + 2 /\ n = 2
        BY <1>7, <2>2, <4>1
      <4> QED
        BY <4>2, <4>3, <4>4, <4>5
    <3>3. TakenInv'
      <4>1. Taken' = 2 * Written' + n
        BY <1>5, <3>1
      <4>2. \A w \in writes' : w.taken = n
        BY <2>4
      <4>3. completions' # << >> => n = 2
        BY <2>4
      <4>4. Taken' >= 2 * Written' /\ Taken' <= 2 * Written' + 2
        BY <1>4, <1>5, <2>2, <4>1
      <4> QED
        BY <1>1, <1>3, <4>1, <4>2, <4>3, <4>4 DEF TakenInv
    <3> QED
      BY <3>2, <3>3
  <2> QED
    BY <1>5, <2>7, <2>8, <2>9 DEF IInv
<1>10. (UNCHANGED <<socket, writes>> /\ Failed) \/ AsyncWrite(m)
  <2>1. completions' = Append(completions, FALSE) => Failed
    BY <1>2, PostedAlone
  <2> QED
    BY <1>2, <2>1 DEF WriteNext
<1> QED
  BY <1>8, <1>9, <1>10

(* What the socket takes later of a write is its next part; damaged or     *)
(* not, it is in its place.                                                *)
LEMMA TakeRestIInv ==
  ASSUME Concurrent = FALSE, IInv, NEW w \in writes, TakeRest(w)
  PROVE  IInv'
<1> USE MessengerAssumption
<1>1. /\ UNCHANGED <<write_queue_, exit_, pc, closed, reader, header_,
                     body_, in_use, delivered, used, sent, gone, broken>>
      /\ completions = << >> /\ writes = {w}
      /\ w.msg \in Messages /\ w.taken \in {0, 1} /\ w.msg = Written + 1
      /\ w = [msg |-> w.msg, taken |-> w.taken]
      /\ ~Quiet /\ write_queue_ # << >>
      /\ \A t \in Threads : pc[t] \notin {"next", "popped"}
      /\ ~((\E t \in Threads : pc[t] = "pushed") /\ Len(write_queue_) = 1)
  <2>1. UNCHANGED <<write_queue_, exit_, pc, closed, reader, header_,
                    body_, in_use, delivered, used, sent, gone, broken>>
    BY DEF TakeRest, reader_vars
  <2>2. ~Quiet
    BY DEF Quiet
  <2>3. /\ completions = << >> /\ writes = {w}
        /\ write_queue_ # << >> /\ \A t \in Threads : pc[t] \notin {"next", "popped"}
        /\ ~((\E t \in Threads : pc[t] = "pushed") /\ Len(write_queue_) = 1)
    BY <2>2 DEF IInv, WriteInv
  <2>4. w \in [msg : Messages, taken : {0, 1}] /\ w.msg = Written + 1
    BY DEF IInv, TypeInv, HeadInv
  <2> QED
    BY <2>1, <2>2, <2>3, <2>4
<1>2. QueueInv' /\ ReadInv' /\ HarmInv' /\ Written' = Written /\ Written \in Int
  <2>1. late \subseteq late'
    BY DEF TakeRest
  <2>2. Len(sent) \in Nat /\ Len(write_queue_) \in Nat
    BY DEF IInv, TypeInv
  <2> QED
    <3>1. /\ HarmInv /\ DOMAIN delivered \subseteq Int
          /\ Len(sent) \in Int /\ Len(sent') \in Int /\ Len(sent) <= Len(sent')
      BY <1>1, <2>2 DEF IInv, TypeInv
    <3>2. HarmInv'
      BY <1>1, <2>1, <3>1, HarmGrows
    <3> QED
      BY <1>1, <2>2, <3>2 DEF IInv, QueueInv, ReadInv, Written
<1>3. CASE closed
  <2>1. UNCHANGED <<socket, late, gone, broken>> /\ writes' = {} /\ completions' = Append(completions, FALSE)
    BY <1>1, <1>3 DEF TakeRest
  <2>2. completions' \in Seq(BOOLEAN) /\ Len(completions') = 1 /\ ~completions'[1]
    BY <1>1, <2>1, PostedAlone
  <2>3. TypeInv'
    BY <1>1, <2>1, <2>2 DEF IInv, TypeInv
  <2>4. HeadInv' /\ WriteInv'
    BY <1>1, <2>1, <2>2 DEF IInv, HeadInv, WriteInv
  <2>5. PartInv' /\ TakenInv'
    <3>1. gone' = gone /\ Taken' = Taken
      BY <1>1, <2>1 DEF Taken
    <3>2. PartInv'
      BY <1>1, <2>1, <3>1 DEF IInv, PartInv
    <3>3. TakenInv'
      BY <1>1, <1>2, <2>1, <2>2, <3>1 DEF IInv, TakenInv
    <3> QED
      BY <3>2, <3>3
  <2> QED
    BY <1>2, <2>3, <2>4, <2>5 DEF IInv
<1>4. CASE ~closed
  <2>1. PICK intact \in BOOLEAN : socket' = Append(socket, Frame(w.msg, intact)[w.taken + 1])
    BY <1>4 DEF TakeRest
  <2> DEFINE p == Frame(w.msg, intact)[w.taken + 1]
             d == <<w.msg, IF w.taken = 0 THEN "header" ELSE "body">>
  <2>2. /\ Len(socket) < Room /\ late' = late \cup {d}
        /\ w.taken = 1 => writes' = {} /\ completions' = Append(completions, TRUE)
        /\ w.taken = 0 => /\ writes' = {[msg |-> w.msg, taken |-> 1]}
                          /\ completions' = completions
    <3>1. writes \ {w} = {} /\ [w EXCEPT !.taken = 1] = [msg |-> w.msg, taken |-> 1]
      BY <1>1
    <3> DEFINE x == [w EXCEPT !.taken = 1]
    <3>2. /\ Len(socket) < Room /\ late' = late \cup {d}
          /\ w.taken = 1 => writes' = writes \ {w} /\ completions' = Append(completions, TRUE)
          /\ w.taken # 1 => writes' = (writes \ {w}) \cup {x} /\ completions' = completions
      BY <1>4 DEF TakeRest
    <3>3. w.taken = 0 => writes' = {x}
      <4> HIDE DEF x
      <4> QED
        BY <3>1, <3>2
    <3> QED
      BY <3>1, <3>2, <3>3
  <2>3. /\ p \in Part /\ p.msg = w.msg
        /\ w.taken = 0 => p.kind = "header"
        /\ w.taken = 1 => p.kind = "body"
    <3>1. /\ Frame(w.msg, intact)[1] = [msg |-> w.msg, kind |-> "header", intact |-> intact]
          /\ Frame(w.msg, intact)[2] = [msg |-> w.msg, kind |-> "body", intact |-> intact]
      BY <1>1, FrameParts
    <3>2. CASE w.taken = 0
      BY <1>1, <3>1, <3>2 DEF Part
    <3>3. CASE w.taken = 1
      BY <1>1, <3>1, <3>3 DEF Part
    <3> QED
      BY <1>1, <3>2, <3>3
  <2> HIDE DEF p
  <2>4. /\ completions' \in Seq(BOOLEAN)
        /\ w.taken = 1 => Len(completions') = 1 /\ completions'[1]
        /\ w.taken = 0 => completions' = << >>
    <3>1. << >> \in Seq(BOOLEAN)
      OBVIOUS
    <3> QED
      BY <1>1, <2>2, <3>1, PostedAlone
  <2>5. TypeInv'
    <3>1. socket' \in Seq(Part) /\ Len(socket') <= Room
      <4>1. socket \in Seq(Part) /\ Len(socket) \in Nat /\ Room \in Nat
        BY DEF IInv, TypeInv
      <4>2. socket' \in Seq(Part) /\ Len(socket') = Len(socket) + 1
        BY <2>1, <2>3, <4>1, Pushed DEF p
      <4> QED
        BY <2>2, <4>1, <4>2
    <3>2. writes' \in SUBSET [msg : Messages, taken : {0, 1}]
      <4>1. [msg |-> w.msg, taken |-> 1] \in [msg : Messages, taken : {0, 1}]
        BY <1>1
      <4>2. writes' = {} \/ writes' = {[msg |-> w.msg, taken |-> 1]}
        BY <1>1, <2>2
      <4> QED
        BY <4>1, <4>2
    <3>3. late' \in SUBSET (Messages \X {"header", "body"})
      <4>1. d \in Messages \X {"header", "body"}
        BY <1>1
      <4> HIDE DEF d
      <4> QED
        BY <2>2, <4>1 DEF IInv, TypeInv
    <3> QED
      BY <1>1, <2>4, <3>1, <3>2, <3>3 DEF IInv, TypeInv
  <2>6. HeadInv' /\ WriteInv'
    <3>1. CASE w.taken = 0
      <4>1. /\ \A v \in writes' : v.msg = w.msg
            /\ \A u, v \in writes' : u = v
            /\ completions' = << >>
        BY <2>2, <2>4, <3>1
      <4> QED
        BY <1>1, <1>2, <4>1 DEF IInv, HeadInv, WriteInv
    <3>2. CASE w.taken = 1
      BY <1>1, <1>2, <2>2, <2>4, <3>2 DEF IInv, HeadInv, WriteInv
    <3> QED
      BY <1>1, <3>1, <3>2
  <2>7. PartInv' /\ TakenInv'
    <3>1. Taken = 2 * Written + w.taken
      BY <1>1 DEF IInv, TakenInv
    <3>2. \/ p.kind = "header" /\ Taken + 1 = 2 * p.msg - 1
          \/ p.kind = "body" /\ Taken + 1 = 2 * p.msg
      BY <1>1, <1>2, <2>3, <3>1
    <3>3. Taken' = Taken + 1 /\ PartInv'
      <4>1. d = <<p.msg, p.kind>>
        BY <1>1, <2>3
      <4>3. late \subseteq late' /\ <<p.msg, p.kind>> \in late'
        <5> HIDE DEF d
        <5> QED
          BY <2>2, <4>1
      <4>2. socket' = Append(socket, p)
        BY <2>1 DEF p
      <4> QED
        BY <1>1, <2>3, <3>2, <4>2, <4>3, TakeOnePart
    <3>4. Taken' = 2 * Written' + w.taken + 1
      BY <1>1, <1>2, <3>1, <3>3
    <3>5. TakenInv'
      <4>1. \A v \in writes' : w.taken = 0 /\ v.taken = 1
        <5>1. w.taken = 0 => \A v \in writes' : v.taken = 1
          BY <2>2
        <5>2. w.taken = 1 => writes' = {}
          BY <2>2
        <5> QED
          BY <1>1, <5>1, <5>2
      <4>2. completions' # << >> => w.taken = 1
        BY <1>1, <2>4
      <4>3. Taken' >= 2 * Written' /\ Taken' <= 2 * Written' + 2
        BY <1>1, <1>2, <3>4
      <4>4. \A v \in writes' : Taken' = 2 * Written' + v.taken
        BY <1>2, <3>4, <4>1
      <4>5. completions' # << >> => Taken' = 2 * Written' + 2
        BY <1>2, <3>4, <4>2
      <4> QED
        BY <1>1, <4>3, <4>4, <4>5 DEF TakenInv
    <3> QED
      BY <3>3, <3>5
  <2> QED
    BY <1>2, <2>5, <2>6, <2>7 DEF IInv
<1> QED
  BY <1>3, <1>4

(* Every step of the messenger keeps the invariant.                        *)
LEMMA NextIInv ==
  ASSUME Concurrent = FALSE, IInv, [Next]_vars
  PROVE  IInv'
<1>1. CASE UNCHANGED vars
  BY <1>1, FrameIInv
<1>2. CASE \E t \in Writers : WriteData(t)
  BY <1>2, WriteDataIInv
<1>3. CASE WriterStep
  BY <1>3, TestSizeIInv, WriteNextIInv, TakeRestIInv, OnMessageSentIInv,
     TestEmptyIInv, CloseIInv DEF WriterStep
<1>4. CASE ReaderStep
  BY <1>4, ReadHeaderIInv, ReadBodyIInv, HandlerIInv DEF ReaderStep
<1>5. CASE Close \/ Disconnect
  BY <1>5, CloseIInv, HandlerIInv
<1> QED
  BY <1>1, <1>2, <1>3, <1>4, <1>5 DEF Next

-----------------------------------------------------------------------------
(***************************************************************************)
(* What follows from the invariant.                                        *)
(***************************************************************************)

(* At most one write is started, under way or waiting for its handler.     *)
LEMMA IInvOneWrite == IInv => OneWriteAtATime
<1> SUFFICES ASSUME IInv PROVE OneWriteAtATime
  OBVIOUS
<1> DEFINE N == {t \in Threads : pc[t] = "next"}
           c == Cardinality(N)
           d == Cardinality(writes)
           e == Len(completions)
<1>1. Cardinality({}) = 0
  BY FS_EmptySet
<1>2. \/ N = {} /\ c = 0
      \/ (\E t \in Threads : pc[t] = "next") /\ c = 1
  <2>1. CASE N = {}
    BY <1>1, <2>1
  <2>2. CASE N # {}
    <3>1. PICK t \in Threads : pc[t] = "next"
      BY <2>2
    <3>2. N = {t}
      BY <3>1 DEF IInv, WriteInv
    <3> QED
      BY <3>1, <3>2, FS_Singleton
  <2> QED
    BY <2>1, <2>2
<1>3. (writes = {} /\ d = 0) \/ (writes # {} /\ d = 1)
  <2>1. CASE writes = {}
    <3>1. Cardinality(writes) = 0
      BY <1>1, <2>1, Zenon
    <3> QED
      BY <2>1, <3>1
  <2>2. CASE writes # {}
    <3>1. PICK w \in writes : TRUE
      BY <2>2
    <3>2. writes = {w}
      BY <3>1 DEF IInv, WriteInv
    <3> QED
      BY <2>2, <3>2, FS_Singleton
  <2> QED
    BY <2>1, <2>2
<1>4. (completions = << >> /\ e = 0) \/ (completions # << >> /\ e = 1)
  <2>1. completions = << >> \/ Len(completions) = 1
    BY DEF IInv, WriteInv
  <2>2. Len(<< >>) = 0
    OBVIOUS
  <2>3. completions = << >> => e = 0
    BY <2>2, Zenon
  <2>4. e = 1 => completions # << >>
    BY <2>3
  <2> QED
    BY <2>1, <2>3, <2>4
<1>5. Underway = c + d + e
  BY DEF Underway
<1>6. /\ (\E t \in Threads : pc[t] = "next") => writes = {} /\ completions = << >>
      /\ writes # {} => completions = << >>
      /\ write_queue_ = << >> =>
           writes = {} /\ completions = << >> /\ \A t \in Threads : pc[t] # "next"
  BY DEF IInv, WriteInv, Quiet
<1>7. write_queue_ = << >> => c = 0 /\ d = 0 /\ e = 0
  BY <1>2, <1>3, <1>4, <1>6
<1> HIDE DEF c, d, e, N
<1>8. Underway <= 1
  BY <1>2, <1>3, <1>4, <1>5, <1>6
<1>9. Underway = 1 => write_queue_ # << >>
  BY <1>2, <1>3, <1>4, <1>5, <1>7
<1> QED
  BY <1>8, <1>9 DEF OneWriteAtATime

(* What is left of a sequence behind its first d members.                  *)
LEMMA SuffixProperties ==
  ASSUME NEW S, NEW s \in Seq(S), NEW d \in Nat, d <= Len(s)
  PROVE  LET q == SubSeq(s, d + 1, Len(s))
         IN  /\ q \in Seq(S) /\ Len(q) = Len(s) - d
             /\ \A i \in 1 .. Len(s) - d : q[i] = s[d + i]
<1> DEFINE j == d + 1
           n == Len(s)
           q == SubSeq(s, j, n)
<1>1. j \in Int /\ n \in Nat /\ \A i \in j .. n : s[i] \in S
  BY ElementOfSeq
<1> HIDE DEF j, n
<1>2. /\ q \in Seq(S)
      /\ Len(q) = IF j <= n THEN n - j + 1 ELSE 0
      /\ \A i \in 1 .. n - j + 1 : q[i] = s[j + i - 1]
  BY <1>1, SubSeqProperties
<1> HIDE DEF q
<1>3. Len(q) = n - d
  BY <1>1, <1>2 DEF j, n
<1>4. \A i \in 1 .. n - d : q[i] = s[d + i]
  BY <1>1, <1>2 DEF j
<1> QED
  BY <1>2, <1>3, <1>4 DEF q, j, n

(* push_back lengthens it by the new member.                               *)
LEMMA SuffixAppend ==
  ASSUME NEW S, NEW s \in Seq(S), NEW d \in Nat, d <= Len(s), NEW e \in S
  PROVE  SubSeq(Append(s, e), d + 1, Len(s) + 1)
           = Append(SubSeq(s, d + 1, Len(s)), e)
<1> DEFINE n == Len(s)
           t == Append(s, e)
           q == SubSeq(s, d + 1, Len(s))
           z == SubSeq(t, d + 1, Len(t))
           r == Append(q, e)
<1>1. /\ t \in Seq(S) /\ Len(t) = n + 1 /\ n \in Nat
      /\ \A i \in 1 .. n : t[i] = s[i]
      /\ t[n + 1] = e
  OBVIOUS
<1>2. q \in Seq(S) /\ Len(q) = n - d /\ \A i \in 1 .. n - d : q[i] = s[d + i]
  BY SuffixProperties
<1>3. z \in Seq(S) /\ Len(z) = n + 1 - d /\ \A i \in 1 .. n + 1 - d : z[i] = t[d + i]
  <2>1. d <= Len(t)
    BY <1>1
  <2> HIDE DEF t
  <2>2. z \in Seq(S) /\ Len(z) = Len(t) - d /\ \A i \in 1 .. Len(t) - d : z[i] = t[d + i]
    BY <1>1, <2>1, SuffixProperties
  <2> QED
    BY <1>1, <2>2
<1> HIDE DEF q, z
<1>4. /\ r \in Seq(S) /\ Len(r) = Len(q) + 1
      /\ \A i \in 1 .. Len(q) : r[i] = q[i]
      /\ r[Len(q) + 1] = e
  BY <1>2
<1> HIDE DEF r, t, n
<1>5. Len(z) = Len(r)
  BY <1>1, <1>2, <1>3, <1>4
<1>6. ASSUME NEW i \in 1 .. Len(z)
      PROVE  z[i] = r[i]
  <2>1. i \in 1 .. n + 1 - d /\ z[i] = t[d + i]
    BY <1>3
  <2>2. CASE i = n + 1 - d
    <3>1. d + i = n + 1 /\ i = Len(q) + 1
      BY <1>1, <1>2, <2>2
    <3> QED
      BY <1>1, <1>4, <2>1, <3>1
  <2>3. CASE i # n + 1 - d
    <3>1. d + i \in 1 .. n /\ i \in 1 .. n - d /\ i \in 1 .. Len(q)
      BY <1>1, <1>2, <2>1, <2>3
    <3> QED
      BY <1>1, <1>2, <1>4, <2>1, <3>1
  <2> QED
    BY <2>2, <2>3
<1>7. z = r
  BY <1>3, <1>4, <1>5, <1>6, SeqEqual
<1> QED
  BY <1>1, <1>7 DEF z, r, q, t, n

(* A part that is read completely takes nothing off the channel if it is a *)
(* length, and the next message if it is a body.                           *)
LEMMA TakePartChannel ==
  ASSUME IInv, socket # << >>, NEW p, p = Head(socket), TakePart, UNCHANGED sent,
         NEW q, q = SubSeq(sent, (gone \div 2) + 1, Len(sent)),
         NEW r, r = SubSeq(sent', (gone' \div 2) + 1, Len(sent'))
  PROVE  /\ p.kind = "header" => r = q
         /\ p.kind = "body" => q # << >> /\ r = Tail(q) /\ Head(q) = p.msg
<1> DEFINE n == Len(sent)
<1>1. /\ \/ p.kind = "header" /\ gone + 1 = 2 * p.msg - 1
         \/ p.kind = "body" /\ gone + 1 = 2 * p.msg
      /\ p.msg \in Nat /\ p.msg >= 1 /\ p.msg <= n
  BY FirstPart
<1>2. /\ sent \in Seq(Messages) /\ n \in Nat /\ gone \in Nat /\ gone' = gone + 1
      /\ \A i \in 1 .. n : sent[i] = i
  BY DEF IInv, TypeInv, QueueInv, TakePart
<1>3. CASE p.kind = "header"
  <2>1. gone = 2 * p.msg - 2
    BY <1>1, <1>2, <1>3
  <2>2. \A m \in Nat, g \in Nat : g = 2 * m - 2 => g \div 2 = (g + 1) \div 2
    OBVIOUS
  <2>3. gone \div 2 = gone' \div 2
    BY <1>1, <1>2, <2>1, <2>2
  <2> QED
    BY <1>3, <2>3
<1>4. CASE p.kind = "body"
  <2>1. gone = 2 * p.msg - 1
    BY <1>1, <1>2, <1>4
  <2>2. \A m \in Nat, g \in Nat : g = 2 * m - 1 => g \div 2 = m - 1 /\ (g + 1) \div 2 = m
    OBVIOUS
  <2>3. gone \div 2 = p.msg - 1 /\ gone' \div 2 = p.msg
    BY <1>1, <1>2, <2>1, <2>2
  <2> DEFINE d == p.msg - 1
  <2>4. d \in Nat /\ d < n /\ d + 1 = p.msg
    <3> HIDE DEF n
    <3> QED
      BY <1>1, <1>2
  <2>5. q = SubSeq(sent, d + 1, n) /\ r = SubSeq(sent, d + 1 + 1, n)
    <3>1. (gone \div 2) + 1 = d + 1 /\ (gone' \div 2) + 1 = d + 1 + 1
      BY <2>3, <2>4
    <3> HIDE DEF d
    <3> QED
      BY <3>1
  <2> HIDE DEF d, n
  <2>6. d + 1 \in 1 .. n /\ n \in d + 1 .. n
    BY <1>2, <2>4
  <2>7. Head(q) = sent[d + 1] /\ Tail(q) = SubSeq(sent, d + 1 + 1, n)
    BY <1>2, <2>5, <2>6, HeadTailOfSubSeq DEF n
  <2>8. q # << >>
    <3>0. d <= n
      BY <1>2, <2>4
    <3>1. d <= Len(sent) /\ q = SubSeq(sent, d + 1, Len(sent))
      BY <2>5, <3>0 DEF n
    <3>2. Len(q) = Len(sent) - d
      BY <1>2, <2>4, <3>1, SuffixProperties
    <3>3. Len(q) # 0
      <4>1. n - d # 0
        BY <1>2, <2>4
      <4> QED
        BY <3>2, <4>1 DEF n
    <3> QED
      BY <3>3
  <2>9. sent[d + 1] = p.msg
    BY <1>2, <2>4, <2>6
  <2> QED
    BY <1>4, <2>5, <2>7, <2>8, <2>9
<1> QED
  BY <1>1, <1>3, <1>4

(* Every step is a step of the channel: WriteData sends, the call of the   *)
(* read handler delivers, a length that is none breaks it and nothing else *)
(* is visible before.                                                      *)
LEMMA NextChannel ==
  ASSUME Concurrent = FALSE, IInv, [Next]_vars
  PROVE  [Queue!Next]_<<SubSeq(sent, (gone \div 2) + 1, Len(sent)), delivered, broken>>
<1> DEFINE q == SubSeq(sent, (gone \div 2) + 1, Len(sent))
           p == Head(socket)
<1>1. CASE UNCHANGED <<sent, delivered, gone, broken>>
  BY <1>1
<1>2. CASE \E t \in Writers : WriteData(t)
  <2> DEFINE m == Len(sent) + 1
             d == gone \div 2
  <2>1. /\ sent' = Append(sent, m) /\ m \in Messages /\ sent \in Seq(Messages)
        /\ UNCHANGED <<delivered, gone, broken>>
    BY <1>2, MessengerAssumption DEF WriteData, reader_vars, Messages, IInv, TypeInv
  <2>2. Len(sent') = m
    BY <2>1
  <2>3. q' = SubSeq(Append(sent, m), d + 1, Len(sent) + 1)
    BY <2>1, <2>2
  <2>4. d \in Nat /\ d <= Len(sent)
    <3>1. /\ Len(sent) \in Nat /\ Len(write_queue_) \in Nat /\ gone \in Nat
          /\ Len(socket) \in Nat /\ Taken <= 2 * Written + 2
          /\ Len(write_queue_) = 0 => Taken = 2 * Written
      BY DEF IInv, TypeInv, TakenInv
    <3> DEFINE a == Len(sent)
               b == Len(write_queue_)
               c == Len(socket)
    <3> HIDE DEF a, b, c
    <3>2. /\ a \in Nat /\ b \in Nat /\ c \in Nat /\ gone \in Nat
          /\ gone + c <= 2 * (a - b) + 2
          /\ b = 0 => gone + c = 2 * (a - b)
      BY <3>1 DEF a, b, c, Taken, Written
    <3>3. gone <= 2 * a
      BY <3>2
    <3>4. \A g \in Nat, x \in Nat : g <= 2 * x => g \div 2 \in Nat /\ g \div 2 <= x
      OBVIOUS
    <3> QED
      BY <3>2, <3>3, <3>4 DEF a
  <2> HIDE DEF d
  <2>5. q' = Append(SubSeq(sent, d + 1, Len(sent)), m)
    BY <2>1, <2>3, <2>4, SuffixAppend
  <2> QED
    BY <2>1, <2>5 DEF Queue!Next, Queue!Send, d
<1>3. ASSUME socket # << >>, TakePart, UNCHANGED sent
      PROVE  /\ p.kind = "header" => q' = q
             /\ p.kind = "body" => q # << >> /\ q' = Tail(q) /\ Head(q) = p.msg
  BY <1>3, TakePartChannel
<1>4. ASSUME socket # << >>
      PROVE  /\ p.kind \in {"header", "body"} /\ p.msg \in Nat
             /\ \/ p.kind = "header" /\ gone + 1 = 2 * p.msg - 1
                \/ p.kind = "body" /\ gone + 1 = 2 * p.msg
  BY <1>4, FirstPart
<1>5. ASSUME socket # << >>, TakeBytes, UNCHANGED sent
      PROVE  q' = q \/ (q # << >> /\ q' = Tail(q))
  <2>1. CASE UNCHANGED <<socket, gone>>
    BY <1>5, <2>1
  <2>2. CASE TakePart
    BY <1>3, <1>4, <1>5, <2>2, Zenon
  <2> QED
    BY <1>5, <2>1, <2>2 DEF TakeBytes
<1> HIDE DEF q
<1>6. ASSUME broken, broken' = broken, q' = q \/ (q # << >> /\ q' = Tail(q)),
             delivered' = delivered \/ delivered' = Append(delivered, Damaged)
      PROVE  [Queue!Next]_<<q, delivered, broken>>
  <2> USE DEF Queue!Next, Queue!OutOfStep, Queue!MakeUp, Queue!Lose, Queue!Deliver
  <2>1. CASE q' = q /\ delivered' = delivered
    BY <1>6, <2>1
  <2>2. CASE q' = q /\ delivered' = Append(delivered, Damaged)
    BY <1>6, <2>2 DEF q
  <2>3. CASE q # << >> /\ q' = Tail(q) /\ delivered' = delivered
    BY <1>6, <2>3 DEF q
  <2>4. CASE q # << >> /\ q' = Tail(q) /\ delivered' = Append(delivered, Damaged)
    BY <1>6, <2>4 DEF q
  <2> QED
    BY <1>6, <2>1, <2>2, <2>3, <2>4
<1>7. CASE ReadHeader
  <2>1. reader = "header" /\ socket # << >> /\ sent' = sent
    BY <1>7 DEF ReadHeader
  <2>2. delivered' = delivered \/ delivered' = Append(delivered, Damaged)
    BY <1>7 DEF ReadHeader, AwaitBody, Deliver
  <2>3. CASE broken
    <3>1. TakeBytes /\ broken' = broken
      BY <1>7, <2>3 DEF ReadHeader, TakeBytes, IInv, TypeInv
    <3>2. q' = q \/ (q # << >> /\ q' = Tail(q))
      BY <1>5, <2>1, <3>1
    <3> QED
      BY <1>6, <2>2, <2>3, <3>1, <3>2 DEF q
  <2>4. CASE ~broken
    <3>1. TakePart
      BY <1>7, <2>4 DEF ReadHeader
    <3>2. p.kind = "header"
      <4>1. gone = 2 * Len(delivered) /\ Len(delivered) \in Nat
        BY <2>1, <2>4 DEF IInv, TypeInv, ReadInv
      <4> DEFINE l == Len(delivered)
      <4> HIDE DEF l, p
      <4>2. gone = 2 * l /\ l \in Nat
        BY <4>1 DEF l
      <4> QED
        BY <1>4, <2>1, <4>2
    <3>3. q' = q
      BY <1>3, <2>1, <3>1, <3>2
    <3>4. CASE broken' = broken /\ delivered' = delivered
      BY <3>3, <3>4 DEF q
    <3>5. CASE broken' = TRUE
      BY <2>2, <3>3, <3>5 DEF q, Queue!Next, Queue!Break, Queue!MakeUp
    <3> QED
      BY <1>7, <3>4, <3>5 DEF ReadHeader, AwaitBody
  <2> QED
    BY <2>3, <2>4
<1>8. CASE ReadBody
  <2>1. reader = "body" /\ socket # << >> /\ sent' = sent /\ broken' = broken
    BY <1>8 DEF ReadBody
  <2>2. CASE header_ = Damaged
    <3>1. /\ TakeBytes
          /\ delivered' = delivered \/ delivered' = Append(delivered, Damaged)
      BY <1>8, <2>2 DEF ReadBody, TakeBytes, AwaitBody, Deliver
    <3>2. broken
      BY <2>1, <2>2 DEF IInv, ReadInv
    <3>3. q' = q \/ (q # << >> /\ q' = Tail(q))
      BY <1>5, <2>1, <3>1
    <3> QED
      BY <1>6, <2>1, <3>1, <3>2, <3>3 DEF q
  <2>3. CASE header_ # Damaged
    <3>1. /\ TakePart
          /\ \/ delivered' = Append(delivered, p.msg)
             \/ delivered' = Append(delivered, Damaged)
      BY <1>8, <2>3 DEF ReadBody, Deliver
    <3>2. p.kind = "body"
      <4>1. gone = 2 * header_ - 1 /\ header_ \in Nat
        BY <2>1, <2>3, MessengerAssumption DEF IInv, TypeInv, ReadInv, Messages
      <4> HIDE DEF p
      <4> QED
        BY <1>4, <2>1, <4>1
    <3>3. q # << >> /\ q' = Tail(q) /\ Head(q) = p.msg
      BY <1>3, <2>1, <3>1, <3>2
    <3> QED
      BY <2>1, <3>1, <3>3 DEF q, Queue!Next, Queue!Deliver
  <2> QED
    BY <2>2, <2>3
<1>9. \/ UNCHANGED <<sent, delivered, gone, broken>>
      \/ \E t \in Writers : WriteData(t)
      \/ ReadHeader \/ ReadBody
  BY DEF Next, WriterStep, ReaderStep, TestSize, WriteNext, TakeRest, OnMessageSent,
         TestEmpty, CloseSocket, UseMessage, HandlerReturns, Close,
         Disconnect, vars, reader_vars
<1> QED
  BY <1>1, <1>2, <1>7, <1>8, <1>9 DEF q

(* The user works on one message at a time and on nothing but what was     *)
(* delivered: the next read into body_ starts when the handler is done.    *)
LEMMA NextUseInv ==
  ASSUME Concurrent = FALSE, KeepsMessages = FALSE, IInv, UseInv, [Next]_vars
  PROVE  UseInv'
<1> DEFINE l == Len(delivered)
           u == Len(used)
           T == Messages \cup {Damaged}
<1>1. /\ delivered \in Seq(T) /\ used \in Seq(T) /\ body_ \in T
      /\ DOMAIN delivered = 1 .. l /\ DOMAIN used = 1 .. u
      /\ l \in Nat /\ u \in Nat /\ in_use \in {0, 1} /\ u + in_use = l
  BY DEF IInv, TypeInv, UseInv
<1>2. CASE UNCHANGED <<reader, body_, in_use, delivered, used>>
  BY <1>2 DEF UseInv
<1>3. ASSUME NEW m \in T, Deliver(m), reader \in {"header", "body"}, UNCHANGED used
      PROVE  UseInv'
  <2>1. /\ reader' = "handler" /\ in_use' = in_use + 1 /\ body_' = m
        /\ used' = used /\ delivered' = Append(delivered, m)
    BY <1>3 DEF Deliver
  <2>2. in_use = 0
    BY <1>1, <1>3 DEF UseInv
  <2>3. /\ Len(delivered') = l + 1 /\ delivered'[l + 1] = m
        /\ \A k \in 1 .. l : delivered'[k] = delivered[k]
    BY <1>1, <1>3, <2>1, Pushed
  <2> HIDE DEF l, u, T
  <2>4. u = l /\ in_use' = 1
    BY <1>1, <2>1, <2>2
  <2> QED
    BY <1>1, <2>1, <2>2, <2>3, <2>4 DEF UseInv, u, l
<1>4. CASE UseMessage
  <2>1. /\ in_use > 0 /\ in_use' = in_use - 1 /\ used' = Append(used, body_)
        /\ UNCHANGED <<reader, body_, delivered>>
    BY <1>4 DEF UseMessage
  <2>2. /\ Len(used') = u + 1 /\ used'[u + 1] = body_ /\ DOMAIN used' = 1 .. u + 1
        /\ \A k \in 1 .. u : used'[k] = used[k]
    BY <1>1, <2>1, Pushed
  <2>3. in_use = 1 /\ in_use' = 0 /\ u + 1 = l
    <3> HIDE DEF l, u
    <3> QED
      BY <1>1, <2>1
  <2>4. body_ = delivered[l]
    BY <2>3 DEF UseInv
  <2> QED
    BY <1>1, <2>1, <2>2, <2>3, <2>4 DEF UseInv
<1>5. CASE HandlerReturns
  <2>1. in_use = 0 /\ UNCHANGED <<body_, in_use, delivered, used>>
    BY <1>5 DEF HandlerReturns
  <2> QED
    BY <2>1 DEF UseInv
<1>6. ASSUME AwaitBody, reader \in {"header", "body"}, UNCHANGED used
      PROVE  UseInv'
  <2>1. UNCHANGED <<in_use, delivered, used>>
    BY <1>6 DEF AwaitBody
  <2>2. in_use = 0
    BY <1>1, <1>6 DEF UseInv
  <2> QED
    BY <2>1, <2>2 DEF UseInv
<1>7. CASE Disconnect
  <2>1. reader' = "ended" /\ UNCHANGED <<body_, in_use, delivered, used>>
    BY <1>7 DEF Disconnect
  <2> QED
    BY <2>1 DEF UseInv
<1>8. CASE ReadHeader
  <2>1. Damaged \in T
    OBVIOUS
  <2>2. reader = "header" /\ UNCHANGED used /\ (AwaitBody \/ Deliver(Damaged))
    BY <1>8 DEF ReadHeader
  <2> QED
    BY <1>3, <1>6, <2>1, <2>2
<1>9. CASE ReadBody
  <2>1. \A m : m \in Messages \/ m = Damaged => m \in T
    OBVIOUS
  <2>2. Head(socket).msg \in Messages
    BY <1>9, FirstPart DEF ReadBody
  <2>3. /\ reader = "body" /\ UNCHANGED used
        /\ AwaitBody \/ Deliver(Damaged) \/ Deliver(Head(socket).msg)
    BY <1>9 DEF ReadBody
  <2> HIDE DEF T
  <2> QED
    BY <1>3, <1>6, <2>1, <2>2, <2>3
<1>10. \/ UNCHANGED <<reader, body_, in_use, delivered, used>>
      \/ ReadBody \/ UseMessage \/ HandlerReturns \/ ReadHeader \/ Disconnect
  BY DEF Next, WriterStep, ReaderStep, WriteData, TestSize, WriteNext, TakeRest,
         OnMessageSent, TestEmpty, CloseSocket, Close, vars, reader_vars
<1> QED
  BY <1>2, <1>4, <1>5, <1>7, <1>8, <1>9, <1>10

-----------------------------------------------------------------------------
(***************************************************************************)
(* The theorems, of a messenger as the server uses it: one thread, and     *)
(* messages that are done with when the read handler returns.              *)
(***************************************************************************)

(* The queue, the write under way and the socket always agree: message m   *)
(* is part 2m-1 and part 2m of what goes through the socket, for a reader  *)
(* in step (ReadMessageAsync) and for one that a damaged length has put    *)
(* out of it.                                                              *)
THEOREM MessengerInvariant ==
  ASSUME Concurrent = FALSE
  PROVE  Spec => []IInv
<1>1. Init => IInv
  BY InitIInv
<1>2. IInv /\ [Next]_vars => IInv'
  BY NextIInv
<1> QED
  BY <1>1, <1>2, PTL DEF Spec

(* WriteData and OnMessageSent never have two writes under way, and        *)
(* neither front nor pop_front meets an empty write_queue_.                *)
THEOREM WritesOneAtATime ==
  ASSUME Concurrent = FALSE
  PROVE  Spec => []OneWriteAtATime
BY MessengerInvariant, IInvOneWrite, PTL

(* SocketMessenger implements the channel its users rely on: messages are  *)
(* handed to the read handler once each and in the order of WriteData,     *)
(* however the socket cuts and delays their parts, until a length is read  *)
(* that is none; behind it they may be lost or made up, but what is intact *)
(* is still in order and never there twice.                                *)
THEOREM MessengerImplementsChannel ==
  ASSUME Concurrent = FALSE
  PROVE  Spec => ImplementsChannel
<1>1. Init => Queue!Init
  <2> SUFFICES ASSUME Init PROVE Queue!Init
    OBVIOUS
  <2>1. /\ sent = << >> /\ delivered = << >> /\ Len(sent) = 0 /\ gone = 0
        /\ broken = FALSE
    BY DEF Init
  <2>2. SubSeq(sent, (gone \div 2) + 1, Len(sent)) = << >>
    <3>1. 0 \div 2 = 0
      OBVIOUS
    <3>2. (gone \div 2) + 1 = 1
      BY <2>1, <3>1
    <3> QED
      BY <2>1, <3>2, SubSeqEmpty
  <2> QED
    BY <2>1, <2>2 DEF Queue!Init
<1>2. IInv /\ [Next]_vars
        => [Queue!Next]_<<SubSeq(sent, (gone \div 2) + 1, Len(sent)), delivered, broken>>
  BY NextChannel
<1> QED
  BY <1>1, <1>2, MessengerInvariant, PTL DEF Spec, ImplementsChannel, Queue!Spec

(* What the user works on is the message of its turn, as it was given to   *)
(* WriteData, unless its body, or the length of it or of one before it,    *)
(* was taken after WriteNext had released the buffer.                      *)
THEOREM MessagesAreUsedAsSent ==
  ASSUME Concurrent = FALSE, KeepsMessages = FALSE
  PROVE  Spec => []UsedAsSent
<1>1. Init => IInv /\ UseInv
  BY InitIInv
<1>2. IInv /\ UseInv /\ [Next]_vars => IInv' /\ UseInv'
  BY NextIInv, NextUseInv
<1>3. IInv /\ UseInv => UsedAsSent
  <2> SUFFICES ASSUME IInv, UseInv, NEW i \in DOMAIN used
               PROVE  (i \in DOMAIN sent /\ used[i] = sent[i]) \/ Harmed(i)
    BY DEF UsedAsSent, Harmed
  <2>1. /\ DOMAIN used = 1 .. Len(used) /\ DOMAIN delivered = 1 .. Len(delivered)
        /\ DOMAIN sent = 1 .. Len(sent)
        /\ Len(used) \in Nat /\ Len(delivered) \in Nat /\ Len(sent) \in Nat
    BY DEF IInv, TypeInv
  <2>2. Len(used) <= Len(delivered)
    BY <2>1 DEF IInv, TypeInv, UseInv
  <2>3. i \in DOMAIN delivered /\ used[i] = delivered[i]
    BY <2>1, <2>2 DEF UseInv
  <2>4. (i <= Len(sent) /\ used[i] = i) \/ Harmed(i)
    BY <2>3 DEF IInv, HarmInv
  <2>5. i <= Len(sent) => i \in DOMAIN sent
    BY <2>1
  <2> QED
    BY <2>4, <2>5 DEF IInv, QueueInv
<1> QED
  BY <1>1, <1>2, <1>3, PTL DEF Spec
=============================================================================

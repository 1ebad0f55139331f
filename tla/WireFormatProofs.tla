-------------------------- MODULE WireFormatProofs --------------------------
(***************************************************************************)
(* What TLAPS proves of WireFormat, for every set of fields and statuses   *)
(* and any number of fields in a message.                                  *)
(***************************************************************************)
EXTENDS WireFormat, SequenceTheorems, TLAPS

-----------------------------------------------------------------------------
(***************************************************************************)
(* The inductive invariant.                                                *)
(***************************************************************************)

(* A writer whose buffer is full: everything in it was written.            *)
IsWriter(w) ==
  w \in [buffer : Seq(Byte), current : Nat] /\ w.current = Len(w.buffer)

(* The bytes are in the buffer, behind the first a.                        *)
At(buf, a, bytes) ==
  /\ a + Len(bytes) <= Len(buf)
  /\ \A i \in 1 .. Len(bytes) : buf[a + i] = bytes[i]

(* A reader that has read the first a bytes and did not throw.             *)
Reads(r, buf, a) ==
  /\ DOMAIN r = {"buffer", "current", "value", "failed"}
  /\ r.buffer = buf /\ r.current = a /\ r.failed = FALSE

(* An agreed field lies between a and b.                                   *)
FieldAt(f, buf, a, b) ==
  /\ b <= Len(buf)
  /\ f.kind = "value" =>
       /\ b = a + f.width
       /\ At(buf, a, LittleEndian(f.value, f.width))
  /\ f.kind = "data" =>
       /\ b = a + 4 + pad_size(Len(f.value))
       /\ At(buf, a, LittleEndian(Len(f.value), 4))
       /\ At(buf, a + 4, f.value)
  /\ f.kind = "string16" =>
       /\ b = a + 4 + pad_size(2 * (Len(f.value) + 1))
       /\ At(buf, a, LittleEndian(Len(f.value), 4))
       /\ At(buf, a + 4, UnitBytes(f.value))

(* Field i of fs lies between off[i - 1] and off[i].                       *)
LaidOut(fs, buf, off) ==
  /\ off \in [0 .. Len(fs) -> Nat]
  /\ off[0] = 0 /\ off[Len(fs)] = Len(buf)
  /\ \A i \in 1 .. Len(fs) : Agreed(fs[i]) => FieldAt(fs[i], buf, off[i - 1], off[i])

(* While it met agreed fields only, the receiver's reader is where the     *)
(* next field begins, in a copy of the parcel.                             *)
InStep(off) ==
  (parser = "opened" /\ Fits) =>
    /\ Len(got) <= Len(fields)
    /\ (\A j \in 1 .. Len(got) : Agreed(fields[j])) =>
         Reads(reader, writer.buffer, off[Len(got)])

Parcel(data) ==
  WriteData(NewWriter, TransactionPack(WritableTransactionData(data)), ToWord).buffer

StatusReply(s) == WriteData(NewWriter, TransactionPack(TransactionStatus(s)), ToWord).buffer

(* What a message of a type carries.                                       *)
Carries(t) ==
  \/ t = "Acquire" /\ status = << >> /\ payload = writer.buffer
  \/ t = "Transaction" /\ status = << >> /\ payload = Parcel(writer.buffer)
  \/ /\ fields = << >>
     /\ \E s \in Statuses :
          /\ status = <<s>>
          /\ \/ t = "Status" /\ payload = WriteValue(NewWriter, 4, s).buffer
             \/ t = "TransactionReply" /\ payload = StatusReply(s)

(* Where MessageParser is in a frame whose length fits.                    *)
Parsed(t) ==
  \/ parser = "next" /\ consumed = 0 /\ messages = << >>
  \/ /\ parser \in {"next", "done", "opened"}
     /\ consumed = Len(frame) /\ Len(messages) = 1
     /\ messages[1] = Message(t, payload)

SentInv ==
  parser # "idle" =>
    \E t \in DOMAIN MessageTypes :
      /\ Carries(t) /\ payload \in Seq(Byte)
      /\ frame = Pack(Message(t, payload))
      /\ Fits => Parsed(t)

IdleInv ==
  /\ parser = "idle" => status = << >> /\ consumed = 0 /\ messages = << >>
  /\ status # << >> => fields = << >>
  /\ got # << >> => parser = IF status = << >> THEN "opened" ELSE "done"
  /\ parser = "opened" => fields # << >>
  /\ \E S : got \in Seq(S)

WireInv ==
  /\ TypeOK /\ IsWriter(writer) /\ IdleInv /\ SentInv
  /\ \E off : LaidOut(fields, writer.buffer, off) /\ InStep(off)
  /\ FieldsRoundTrip /\ StatusArrivesInPart

-----------------------------------------------------------------------------
(***************************************************************************)
(* Bytes.                                                                  *)
(***************************************************************************)

(* The widths the writer is called with.                                   *)
LEMMA WidthValues == 4 \in Widths /\ 8 \in Widths /\ Widths \subseteq Nat \ {0}
  BY DEF Widths

(* A function on 1 .. n is a sequence: how the model writes a run of bytes *)
(* (Filled, LittleEndian, UnitBytes, Units).                               *)
LEMMA FunctionIsSeq ==
  ASSUME NEW S, NEW n \in Nat, NEW f \in [1 .. n -> S]
  PROVE  f \in Seq(S) /\ Len(f) = n
  OBVIOUS

(* Filled is a sequence of its length; ensure_size and the padding use it. *)
LEMMA FilledIsSeq ==
  ASSUME NEW S, NEW n \in Nat, NEW b \in S
  PROVE  /\ Filled(n, b) \in Seq(S) /\ Len(Filled(n, b)) = n
         /\ \A i \in 1 .. n : Filled(n, b)[i] = b
<1>1. Filled(n, b) \in [1 .. n -> S]
  BY DEF Filled
<1> QED
  BY <1>1, FunctionIsSeq DEF Filled

(* An integer is written as bytes, and the byte ReadValue takes is its     *)
(* remainder (WriteValue, two's complement).                               *)
LEMMA LittleEndianBytes ==
  ASSUME NEW v \in Int, NEW width \in Widths
  PROVE  /\ LittleEndian(v, width) \in Seq(Byte)
         /\ Len(LittleEndian(v, width)) = width
         /\ LittleEndian(v, width)[1] = v % 256
<1> DEFINE le == LittleEndian(v, width)
<1>0. width \in Nat /\ width > 0
  BY WidthValues
<1>1. \A i \in 1 .. width : le[i] \in Byte
  <2> TAKE i \in 1 .. width
  <2>1. CASE i <= 4
    <3>1. i \in {1, 2, 3, 4}
      BY <1>0, <2>1
    <3>2. (v \div 1) % 256 \in Byte /\ (v \div 256) % 256 \in Byte
          /\ (v \div 65536) % 256 \in Byte /\ (v \div 16777216) % 256 \in Byte
      BY DEF Byte
    <3> QED
      BY <2>1, <3>1, <3>2 DEF LittleEndian
  <2>2. CASE ~(i <= 4)
    BY <1>0, <2>2 DEF LittleEndian, Byte
  <2> QED
    BY <2>1, <2>2
<1>2. le \in [1 .. width -> Byte]
  BY <1>1 DEF LittleEndian
<1>3. le[1] = (v \div 1) % 256
  BY <1>0, SMTT(60) DEF LittleEndian
<1>4. (v \div 1) % 256 = v % 256
  OBVIOUS
<1>5. le \in Seq(Byte) /\ Len(le) = width
  <2> HIDE DEF le
  <2> QED
    BY <1>0, <1>2, FunctionIsSeq
<1> QED
  BY <1>3, <1>4, <1>5

(* The four bytes of an int32_t give it back (TransactionStatus,           *)
(* GetStatus).                                                             *)
LEMMA Int32Bytes ==
  ASSUME NEW v \in Int32, NEW td, td.data = LittleEndian(v, 4)
  PROVE  GetStatus(td) = v
<1>1. /\ td.data[1] = (v \div 1) % 256 /\ td.data[2] = (v \div 256) % 256
      /\ td.data[3] = (v \div 65536) % 256 /\ td.data[4] = (v \div 16777216) % 256
  BY SMT DEF LittleEndian
<1>2. v \in Int /\ -2147483648 <= v /\ v <= 2147483647
  <2>1. UnknownError \in Int
    BY SMT DEF UnknownError
  <2>2. UnknownError = -2147483648
    BY SMT DEF UnknownError
  <2>3. v \in Int /\ UnknownError <= v /\ v <= 2147483647
    BY <2>1, SMT DEF Int32
  <2> QED
    BY <2>1, <2>2, <2>3, SMT
<1>3. ASSUME NEW a, NEW b, NEW c, NEW d,
             a = (v \div 1) % 256, b = (v \div 256) % 256,
             c = (v \div 65536) % 256, d = (v \div 16777216) % 256
      PROVE  a + 256 * b + 65536 * c + 16777216 * (IF d > 127 THEN d - 256 ELSE d) = v
  BY <1>2, <1>3, SMT
<1> QED
  BY <1>1, <1>3, SMT DEF GetStatus

(* The padded size of data: up to three bytes more.                        *)
LEMMA PaddedSize ==
  ASSUME NEW n \in Nat, NEW padding \in BOOLEAN
  PROVE  /\ Padded(n, padding) \in Nat /\ pad_size(n) \in Nat
         /\ n <= Padded(n, padding) /\ n <= pad_size(n)
  BY DEF Padded, pad_size

(* What the two values of the argument padding mean.                       *)
LEMMA PaddingValues ==
  /\ ToWord \in BOOLEAN /\ Unpadded \in BOOLEAN
  /\ \A n : Padded(n, ToWord) = pad_size(n) /\ Padded(n, Unpadded) = n
  BY DEF Padded, ToWord, Unpadded

(* The same of the length of data.                                         *)
LEMMA PaddedLen ==
  ASSUME NEW data \in Seq(Byte), NEW padding \in BOOLEAN
  PROVE  /\ Len(data) \in Nat /\ Padded(Len(data), padding) \in Nat
         /\ Len(data) <= Padded(Len(data), padding)
<1> DEFINE n == Len(data)
<1>1. n \in Nat
  OBVIOUS
<1> HIDE DEF n
<1>2. Padded(n, padding) \in Nat /\ n <= Padded(n, padding)
  BY <1>1, PaddedSize
<1> QED
  BY <1>1, <1>2 DEF n

-----------------------------------------------------------------------------
(***************************************************************************)
(* What is at a place in a buffer.                                         *)
(***************************************************************************)

(* What was written stays where it is when more is appended.               *)
LEMMA AtExtended ==
  ASSUME NEW buf \in Seq(Byte), NEW more \in Seq(Byte), NEW a \in Nat,
         NEW S, NEW bytes \in Seq(S), At(buf, a, bytes)
  PROVE  At(buf \o more, a, bytes)
<1>1. Len(bytes) \in Nat /\ Len(buf) \in Nat /\ Len(more) \in Nat
  OBVIOUS
<1>2. \A i \in 1 .. Len(buf) : (buf \o more)[i] = buf[i]
  BY <1>1, ConcatProperties
<1>3. Len(buf \o more) = Len(buf) + Len(more)
  BY ConcatProperties
<1>4. \A i \in 1 .. Len(bytes) : a + i \in 1 .. Len(buf)
  BY <1>1 DEF At
<1> QED
  BY <1>1, <1>2, <1>3, <1>4 DEF At

(* What is appended is behind what was there.                              *)
LEMMA AtEnd ==
  ASSUME NEW buf \in Seq(Byte), NEW more \in Seq(Byte)
  PROVE  At(buf \o more, Len(buf), more)
<1>1. Len(buf) \in Nat /\ Len(more) \in Nat
  OBVIOUS
<1>2. \A i \in 1 .. Len(more) : (buf \o more)[Len(buf) + i] = more[i]
  <2> TAKE i \in 1 .. Len(more)
  <2>1. Len(buf) + i \in 1 .. Len(buf) + Len(more) /\ ~(Len(buf) + i <= Len(buf))
        /\ (Len(buf) + i) - Len(buf) = i
    BY <1>1
  <2> QED
    BY <2>1, ConcatProperties
<1>3. Len(buf \o more) = Len(buf) + Len(more)
  BY ConcatProperties
<1> QED
  BY <1>1, <1>2, <1>3 DEF At

(* The parts of what is at a place.                                        *)
LEMMA AtSplit ==
  ASSUME NEW buf, NEW a \in Nat, NEW x \in Seq(Byte), NEW y \in Seq(Byte),
         Len(buf) \in Nat, At(buf, a, x \o y)
  PROVE  At(buf, a, x) /\ At(buf, a + Len(x), y)
<1>1. Len(x) \in Nat /\ Len(y) \in Nat /\ Len(x \o y) = Len(x) + Len(y)
  BY ConcatProperties
<1>2. \A i \in 1 .. Len(x) : i \in 1 .. Len(x) + Len(y) /\ (x \o y)[i] = x[i]
  BY <1>1, ConcatProperties
<1>3. \A i \in 1 .. Len(y) : /\ Len(x) + i \in 1 .. Len(x) + Len(y)
                             /\ (x \o y)[Len(x) + i] = y[i]
  BY AtEnd, <1>1 DEF At
<1>4. \A i \in 1 .. Len(x) : buf[a + i] = x[i]
  BY <1>1, <1>2 DEF At
<1>5. \A i \in 1 .. Len(y) : buf[a + Len(x) + i] = y[i]
  <2> TAKE i \in 1 .. Len(y)
  <2>1. buf[a + (Len(x) + i)] = y[i]
    BY <1>1, <1>3 DEF At
  <2>2. a + (Len(x) + i) = a + Len(x) + i
    BY <1>1
  <2> QED
    BY <2>1, <2>2
<1> QED
  BY <1>1, <1>4, <1>5 DEF At

(* A place inside a part of the buffer.                                    *)
LEMMA AtNested ==
  ASSUME NEW buf, NEW a \in Nat, NEW b \in Nat, Len(buf) \in Nat,
         NEW inner \in Seq(Byte), At(buf, a, inner),
         NEW S, NEW bytes \in Seq(S), At(inner, b, bytes)
  PROVE  At(buf, a + b, bytes)
<1>1. Len(inner) \in Nat /\ Len(bytes) \in Nat
  OBVIOUS
<1>2. \A i \in 1 .. Len(bytes) : b + i \in 1 .. Len(inner) /\ a + b + i = a + (b + i)
  BY <1>1 DEF At
<1>3. \A i \in 1 .. Len(bytes) : buf[a + (b + i)] = bytes[i]
  BY <1>2 DEF At
<1> QED
  BY <1>1, <1>2, <1>3 DEF At

-----------------------------------------------------------------------------
(***************************************************************************)
(* BinaryWriter appends.                                                   *)
(***************************************************************************)

(* A full buffer grows by what is put into it: nothing of the memory that  *)
(* ensure_size gets is left over, and what was there stays.                *)
LEMMA PutAppends ==
  ASSUME NEW w, IsWriter(w), NEW bytes \in Seq(Byte), NEW p, p = Put(w, bytes)
  PROVE  IsWriter(p) /\ p.buffer = w.buffer \o bytes
<1> DEFINE m == Len(w.buffer)
           n == Len(bytes)
           g == ensure_size(w, n)
           all == w.buffer \o bytes
<1>1. w.buffer \in Seq(Byte) /\ m \in Nat /\ n \in Nat /\ w.current = m
  BY DEF IsWriter
<1>2. all \in Seq(Byte) /\ Len(all) = m + n
      /\ \A i \in 1 .. m + n : all[i] = IF i <= m THEN w.buffer[i] ELSE bytes[i - m]
  BY <1>1, ConcatProperties
<1>3. g.current = m /\ g.buffer \in Seq(Int) /\ Len(g.buffer) = m + n
      /\ \A i \in 1 .. m : g.buffer[i] = w.buffer[i]
  <2>1. w.buffer \in Seq(Int)
    <3>1. Byte \subseteq Int
      BY DEF Byte
    <3> QED
      BY <1>1, <3>1, SeqMonotonic
  <2>2. CASE n = 0
    BY <1>1, <2>1, <2>2 DEF ensure_size
  <2>3. CASE n # 0
    <3> DEFINE more == Filled(n, Unwritten)
    <3>1. more \in Seq(Int) /\ Len(more) = n
      <4>1. Unwritten \in Int
        BY DEF Unwritten
      <4> HIDE DEF n
      <4> QED
        BY <1>1, <4>1, FilledIsSeq
    <3>2. g = [w EXCEPT !.buffer = w.buffer \o more]
      BY <1>1, <2>3 DEF ensure_size
    <3>3. g.current = m /\ g.buffer = w.buffer \o more
      BY <1>1, <3>2 DEF IsWriter
    <3> HIDE DEF g, more
    <3>4. w.buffer \o more \in Seq(Int) /\ Len(w.buffer \o more) = Len(w.buffer) + Len(more)
          /\ \A i \in 1 .. Len(w.buffer) + Len(more) :
               (w.buffer \o more)[i] = IF i <= Len(w.buffer) THEN w.buffer[i]
                                                           ELSE more[i - Len(w.buffer)]
      BY <2>1, <3>1, ConcatProperties
    <3>5. \A i \in 1 .. m : i \in 1 .. m + n /\ i <= m
      <4> HIDE DEF m, n
      <4> QED
        BY <1>1
    <3> QED
      BY <3>1, <3>3, <3>4, <3>5
  <2> QED
    BY <2>2, <2>3
<1>4. /\ p = [buffer |-> p.buffer, current |-> m + n]
      /\ p.buffer = [i \in 1 .. m + n |-> IF i \in m + 1 .. m + n
                                            THEN bytes[i - m] ELSE g.buffer[i]]
  <2>1. DOMAIN g.buffer = 1 .. m + n
    BY <1>3
  <2> HIDE DEF g
  <2>2. p = [buffer  |-> [i \in DOMAIN g.buffer |->
                            IF i \in m + 1 .. m + n
                              THEN bytes[i - m] ELSE g.buffer[i]],
             current |-> m + n]
    BY <1>3 DEF Put, g
  <2> QED
    BY <2>1, <2>2
<1>5. \A i \in 1 .. m + n : p.buffer[i] = all[i]
  <2> HIDE DEF g, all, m, n
  <2> TAKE i \in 1 .. m + n
  <2>1. CASE i <= m
    <3>1. i \in 1 .. m /\ i \notin m + 1 .. m + n
      BY <1>1, <2>1
    <3> QED
      BY <1>2, <1>3, <1>4, <2>1, <3>1
  <2>2. CASE ~(i <= m)
    BY <1>1, <1>2, <1>3, <1>4, <2>2
  <2> QED
    BY <2>1, <2>2
<1>6. p.buffer = all
  <2>1. all = [i \in 1 .. m + n |-> all[i]]
    BY <1>2
  <2> HIDE DEF g, all, m, n
  <2> QED
    BY <1>1, <1>4, <1>5, <2>1
<1> QED
  <2> HIDE DEF all, m, n
  <2>1. p.buffer \in Seq(Byte) /\ p.current = Len(p.buffer) /\ p.current \in Nat
    <3>1. p.current = m + n
      BY <1>4
    <3> QED
      BY <1>1, <1>2, <1>6, <3>1
  <2> QED
    BY <1>4, <1>6, <2>1 DEF IsWriter, all

(* The places of Put: what it adds is at the end, the rest as before.      *)
LEMMA PutPlaces ==
  ASSUME NEW w, IsWriter(w), NEW bytes \in Seq(Byte), NEW p, p = Put(w, bytes)
  PROVE  /\ IsWriter(p) /\ Len(p.buffer) = Len(w.buffer) + Len(bytes)
         /\ At(p.buffer, Len(w.buffer), bytes)
         /\ \A a \in Nat, x \in Seq(Byte) : At(w.buffer, a, x) => At(p.buffer, a, x)
<1>1. IsWriter(p) /\ p.buffer = w.buffer \o bytes
  BY PutAppends
<1>2. w.buffer \in Seq(Byte)
  BY DEF IsWriter
<1> QED
  BY <1>1, <1>2, AtEnd, AtExtended, ConcatProperties

(* The writer p is w with n bytes more.                                    *)
Grows(w, p, n) ==
  /\ IsWriter(p) /\ Len(p.buffer) = Len(w.buffer) + n
  /\ \A a \in Nat, x \in Seq(Byte) : At(w.buffer, a, x) => At(p.buffer, a, x)

(* WriteValue appends its bytes.                                           *)
LEMMA WriteValuePlaces ==
  ASSUME NEW w, IsWriter(w), NEW width \in Widths, NEW v \in Int,
         NEW p, p = WriteValue(w, width, v)
  PROVE  Grows(w, p, width) /\ At(p.buffer, Len(w.buffer), LittleEndian(v, width))
<1> DEFINE le == LittleEndian(v, width)
<1>1. le \in Seq(Byte) /\ Len(le) = width /\ p = Put(w, le)
  BY LittleEndianBytes DEF WriteValue
<1> HIDE DEF le
<1>2. /\ IsWriter(p) /\ Len(p.buffer) = Len(w.buffer) + Len(le)
      /\ At(p.buffer, Len(w.buffer), le)
      /\ \A a \in Nat, x \in Seq(Byte) : At(w.buffer, a, x) => At(p.buffer, a, x)
  BY <1>1, PutPlaces
<1> QED
  BY <1>1, <1>2 DEF Grows, le

(* WriteData appends the data and zeros up to the next word.               *)
LEMMA WriteDataPlaces ==
  ASSUME NEW w, IsWriter(w), NEW data \in Seq(Byte), NEW padding \in BOOLEAN,
         NEW p, p = WriteData(w, data, padding)
  PROVE  /\ Grows(w, p, Padded(Len(data), padding))
         /\ At(p.buffer, Len(w.buffer), data)
<1> DEFINE n == Padded(Len(data), padding) - Len(data)
           zeros == Filled(n, 0)
           bytes == data \o zeros
<1>1. Len(data) \in Nat /\ Padded(Len(data), padding) \in Nat /\ n \in Nat
      /\ Len(data) + n = Padded(Len(data), padding)
  BY PaddedLen
<1>2. zeros \in Seq(Byte) /\ Len(zeros) = n
  <2>1. 0 \in Byte
    BY DEF Byte
  <2> HIDE DEF n
  <2> QED
    BY <1>1, <2>1, FilledIsSeq
<1> HIDE DEF zeros
<1>3. bytes \in Seq(Byte) /\ Len(bytes) = Len(data) + n
  BY <1>2, ConcatProperties
<1>4. p = Put(w, bytes)
  BY DEF WriteData, zeros
<1> HIDE DEF bytes
<1>5. /\ IsWriter(p) /\ Len(p.buffer) = Len(w.buffer) + Len(bytes)
      /\ At(p.buffer, Len(w.buffer), bytes)
      /\ \A a \in Nat, x \in Seq(Byte) : At(w.buffer, a, x) => At(p.buffer, a, x)
  BY <1>3, <1>4, PutPlaces
<1>6. Len(w.buffer) \in Nat /\ Len(p.buffer) \in Nat
  BY <1>5 DEF IsWriter
<1>7. At(p.buffer, Len(w.buffer), data)
  BY <1>2, <1>5, <1>6, AtSplit DEF bytes
<1> QED
  BY <1>1, <1>3, <1>5, <1>7 DEF Grows

(* Places survive a growth after a growth.                                 *)
LEMMA GrowsTwice ==
  ASSUME NEW w, IsWriter(w), NEW p, NEW q, NEW m \in Nat, NEW n \in Nat,
         Grows(w, p, m), Grows(p, q, n)
  PROVE  Grows(w, q, m + n)
<1>1. Len(w.buffer) \in Nat
  BY DEF IsWriter
<1>2. Len(q.buffer) = Len(w.buffer) + (m + n)
  <2>1. Len(p.buffer) = Len(w.buffer) + m /\ Len(q.buffer) = Len(p.buffer) + n
    BY DEF Grows
  <2>2. \A x \in Nat : \A y, z : y = x + m /\ z = y + n => z = x + (m + n)
    OBVIOUS
  <2> QED
    BY <1>1, <2>1, <2>2
<1> QED
  BY <1>2 DEF Grows

(* WriteSizedData: the length, then the data.                              *)
LEMMA WriteSizedPlaces ==
  ASSUME NEW w, IsWriter(w), NEW data \in Seq(Byte), NEW padding \in BOOLEAN,
         NEW p, p = WriteSizedData(w, data, padding)
  PROVE  /\ Grows(w, p, 4 + Padded(Len(data), padding))
         /\ At(p.buffer, Len(w.buffer), LittleEndian(Len(data), 4))
         /\ At(p.buffer, Len(w.buffer) + 4, data)
<1> DEFINE q == WriteValue(w, 4, Len(data))
<1>1. Len(data) \in Int /\ Padded(Len(data), padding) \in Nat /\ Len(w.buffer) \in Nat
  BY PaddedLen DEF IsWriter
<1>2. Grows(w, q, 4) /\ At(q.buffer, Len(w.buffer), LittleEndian(Len(data), 4))
  BY <1>1, WidthValues, WriteValuePlaces
<1>3. p = WriteData(q, data, padding)
  BY DEF WriteSizedData
<1> HIDE DEF q
<1>4. IsWriter(q) /\ Len(q.buffer) = Len(w.buffer) + 4
  BY <1>2 DEF Grows
<1>5. Grows(q, p, Padded(Len(data), padding)) /\ At(p.buffer, Len(q.buffer), data)
  BY <1>3, <1>4, WriteDataPlaces
<1>6. LittleEndian(Len(data), 4) \in Seq(Byte)
  BY <1>1, WidthValues, LittleEndianBytes
<1>7. At(p.buffer, Len(w.buffer), LittleEndian(Len(data), 4))
  BY <1>1, <1>2, <1>5, <1>6 DEF Grows
<1>8. Grows(w, p, 4 + Padded(Len(data), padding))
  BY <1>1, <1>2, <1>5, GrowsTwice
<1> QED
  BY <1>4, <1>5, <1>7, <1>8

-----------------------------------------------------------------------------
(***************************************************************************)
(* BinaryReader takes what is at its place.                                *)
(***************************************************************************)

(* Inside the buffer nothing is thrown.                                    *)
LEMMA TakeReads ==
  ASSUME NEW r, NEW buf \in Seq(Byte), NEW a \in Nat, Reads(r, buf, a),
         NEW n \in Nat, a + n <= Len(buf), NEW v
  PROVE  Reads(Take(r, n, v), buf, a + n) /\ Take(r, n, v).value = v
<1>1. Take(r, n, v) = [r EXCEPT !.current = r.current + n, !.value = v]
  BY DEF Take, Reads
<1> QED
  BY <1>1 DEF Reads

(* The same, for any reader, bytes and value.                              *)
LEMMA TakeMoves ==
  ASSUME NEW r, NEW buf, NEW v, NEW n, NEW a \in Nat,
         n \in Nat, buf \in Seq(Byte), Reads(r, buf, a), a + n <= Len(buf)
  PROVE  Reads(Take(r, n, v), buf, a + n) /\ Take(r, n, v).value = v
<1>1. Take(r, n, v) = [r EXCEPT !.current = r.current + n, !.value = v]
  BY DEF Take, Reads
<1> QED
  BY <1>1 DEF Reads

(* ReadValue takes the lowest byte.                                        *)
LEMMA ReadValueReads ==
  ASSUME NEW r, NEW buf, NEW width, NEW a \in Nat,
         buf \in Seq(Byte), width \in Widths, Reads(r, buf, a),
         NEW v \in Int, At(buf, a, LittleEndian(v, width)),
         NEW q, q = ReadValue(r, width)
  PROVE  Reads(q, buf, a + width) /\ q.value = LittleEndian(v, width)[1]
<1> DEFINE le == LittleEndian(v, width)
<1>1. width \in Nat /\ width > 0 /\ Len(le) = width
  BY WidthValues, LittleEndianBytes
<1> HIDE DEF le
<1>2. a + width <= Len(buf) /\ buf[a + 1] = le[1]
  BY <1>1 DEF At, le
<1>3. q = Take(r, width, le[1])
  BY <1>2 DEF ReadValue, Reads
<1>4. Reads(q, buf, a + width) /\ q.value = le[1]
  BY <1>1, <1>2, <1>3, TakeReads
<1> QED
  BY <1>4 DEF le

(* A value of one byte is read as it was written.                          *)
LEMMA ReadByteReads ==
  ASSUME NEW r, NEW buf \in Seq(Byte), NEW a \in Nat, Reads(r, buf, a),
         NEW v \in Byte, NEW width \in Widths, At(buf, a, LittleEndian(v, width)),
         NEW q, q = ReadValue(r, width)
  PROVE  Reads(q, buf, a + width) /\ q.value = v
<1>1. v \in Int
  BY DEF Byte
<1>2. v % 256 = v
  BY <1>1 DEF Byte
<1>3. LittleEndian(v, width)[1] = v
  BY <1>1, <1>2, LittleEndianBytes
<1> QED
  BY <1>1, <1>3, ReadValueReads

(* The bytes a reader copies are the ones at its place.                    *)
LEMMA ViewReads ==
  ASSUME NEW r, NEW buf \in Seq(Byte), NEW a \in Nat, Reads(r, buf, a),
         NEW data \in Seq(Byte), At(buf, a, data)
  PROVE  View(r, Len(data)) = data
<1> DEFINE n == Len(data)
           s == SubSeq(buf, a + 1, a + n)
<1>1. n \in Nat /\ Len(buf) \in Nat
  OBVIOUS
<1>2. \A i \in a + 1 .. a + n : buf[i] \in Byte
  BY <1>1 DEF At
<1>3. s \in Seq(Byte) /\ Len(s) = n /\ \A i \in 1 .. n : s[i] = buf[a + i]
  <2> HIDE DEF n
  <2>1. /\ s \in Seq(Byte)
        /\ Len(s) = IF a + 1 <= a + n THEN a + n - (a + 1) + 1 ELSE 0
        /\ \A i \in 1 .. a + n - (a + 1) + 1 : s[i] = buf[a + 1 + i - 1]
    BY <1>1, <1>2, SubSeqProperties
  <2> HIDE DEF s
  <2> QED
    BY <1>1, <2>1
<1> HIDE DEF s
<1>4. s = data
  BY <1>1, <1>3, SeqEqual DEF At
<1> QED
  BY <1>4 DEF View, Reads, s

(* Data and its padding take k bytes behind their length.                  *)
SizedAt(data, buf, a, k) ==
  /\ Len(data) \in Byte /\ a + 4 + k <= Len(buf)
  /\ At(buf, a, LittleEndian(Len(data), 4)) /\ At(buf, a + 4, data)

(* Sized data is read as it was written, when its length fits in a byte.   *)
LEMMA ReadSizedReads ==
  ASSUME NEW r, NEW buf, NEW data, NEW padding, NEW k, NEW a \in Nat,
         buf \in Seq(Byte), data \in Seq(Byte), padding \in BOOLEAN,
         k = Padded(Len(data), padding), Reads(r, buf, a), SizedAt(data, buf, a, k),
         NEW q, q = ReadSizedData(r, padding)
  PROVE  Reads(q, buf, a + 4 + k) /\ q.value = data
<1> DEFINE s == ReadValue(r, 4)
           n == Len(data)
           b == a + 4
<1>0. k \in Nat
  BY PaddedLen
<1>1. n \in Nat /\ n \in Byte /\ At(buf, a, LittleEndian(n, 4)) /\ k = Padded(n, padding)
  BY DEF SizedAt
<1>2. b \in Nat /\ b + k <= Len(buf) /\ At(buf, b, data)
  BY <1>0 DEF SizedAt
<1>3. Reads(s, buf, b) /\ s.value = n
  <2>1. \A j \in Widths : At(buf, a, LittleEndian(n, j)) =>
          Reads(ReadValue(r, j), buf, a + j) /\ ReadValue(r, j).value = n
    <3> HIDE DEF n
    <3> QED
      BY <1>1, ReadByteReads
  <2> HIDE DEF n
  <2> QED
    BY <1>1, <2>1, WidthValues
<1>4. q = ReadData(s, n, padding)
  BY <1>3 DEF ReadSizedData, Reads
<1> HIDE DEF s, b
<1>5. CASE n = 0
  <2>1. q = [s EXCEPT !.value = << >>]
    BY <1>4, <1>5 DEF ReadData
  <2>2. data = << >>
    BY <1>5
  <2>3. k = 0
    BY <1>1, <1>5 DEF Padded, pad_size
  <2>4. Reads(q, buf, b) /\ q.value = data
    BY <1>3, <2>1, <2>2 DEF Reads
  <2> QED
    BY <1>2, <2>3, <2>4 DEF b
<1>6. CASE n # 0
  <2>1. q = Take(s, k, View(s, n))
    BY <1>1, <1>4, <1>6 DEF ReadData
  <2>2. View(s, n) = data
    BY <1>2, <1>3, ViewReads
  <2>3. q = Take(s, k, data)
    BY <2>1, <2>2
  <2> HIDE DEF n
  <2>4. Reads(q, buf, b + k) /\ q.value = data
    BY <1>0, <1>2, <1>3, <2>3, TakeMoves
  <2> QED
    BY <2>4 DEF b
<1> QED
  BY <1>5, <1>6

(* Where it is not padded, as in a transaction.                            *)
LEMMA ReadUnpadded ==
  ASSUME NEW r, NEW buf \in Seq(Byte), NEW a \in Nat, Reads(r, buf, a),
         NEW data \in Seq(Byte), SizedAt(data, buf, a, Len(data)),
         NEW q, q = ReadSizedData(r, Unpadded)
  PROVE  Reads(q, buf, a + 4 + Len(data)) /\ q.value = data
<1> DEFINE k == Padded(Len(data), Unpadded)
<1>1. SizedAt(data, buf, a, k)
  BY PaddingValues
<1>2. Reads(q, buf, a + 4 + k) /\ q.value = data
  BY <1>1, PaddingValues, ReadSizedReads
<1> QED
  BY <1>2, PaddingValues

(* Where it is padded, as in a message and in a parcel.                    *)
LEMMA ReadPadded ==
  ASSUME NEW r, NEW buf \in Seq(Byte), NEW a \in Nat, Reads(r, buf, a),
         NEW data \in Seq(Byte), NEW k \in Nat, k = pad_size(Len(data)),
         SizedAt(data, buf, a, k), NEW q, q = ReadSizedData(r, ToWord)
  PROVE  Reads(q, buf, a + 4 + k) /\ q.value = data
  BY PaddingValues, ReadSizedReads

(* ReadValue at the widths of the headers.                                 *)
LEMMA ReadWord ==
  ASSUME NEW r, NEW buf \in Seq(Byte), NEW a \in Nat, Reads(r, buf, a), NEW v \in Byte
  PROVE  /\ At(buf, a, LittleEndian(v, 4)) =>
              Reads(ReadValue(r, 4), buf, a + 4) /\ ReadValue(r, 4).value = v
         /\ At(buf, a, LittleEndian(v, 8)) =>
              Reads(ReadValue(r, 8), buf, a + 8) /\ ReadValue(r, 8).value = v
<1>1. \A k \in Widths : At(buf, a, LittleEndian(v, k)) =>
        Reads(ReadValue(r, k), buf, a + k) /\ ReadValue(r, k).value = v
  BY ReadByteReads
<1> QED
  BY <1>1, WidthValues

-----------------------------------------------------------------------------
(***************************************************************************)
(* Message::Pack and Unpack.                                               *)
(***************************************************************************)

(* A new BinaryWriter has an empty buffer.                                 *)
LEMMA NewWriterIsEmpty == IsWriter(NewWriter) /\ Len(NewWriter.buffer) = 0
  BY DEF NewWriter, IsWriter

(* WriteValue at the widths of the headers.                                *)
LEMMA WriteWord ==
  ASSUME NEW w, IsWriter(w), NEW v \in Int
  PROVE  /\ Grows(w, WriteValue(w, 4, v), 4) /\ Grows(w, WriteValue(w, 8, v), 8)
         /\ At(WriteValue(w, 4, v).buffer, Len(w.buffer), LittleEndian(v, 4))
         /\ At(WriteValue(w, 8, v).buffer, Len(w.buffer), LittleEndian(v, 8))
<1>1. \A k \in Widths : /\ Grows(w, WriteValue(w, k, v), k)
                         /\ At(WriteValue(w, k, v).buffer, Len(w.buffer), LittleEndian(v, k))
  BY WriteValuePlaces
<1> QED
  BY <1>1, WidthValues

(* Where the parts of a message are in a frame.                            *)
Framed(P, type, dest, cookie, data) ==
  /\ P \in Seq(Byte) /\ Len(P) = 24 + pad_size(Len(data))
  /\ At(P, 0, LittleEndian(type, 4)) /\ At(P, 4, LittleEndian(dest, 8))
  /\ At(P, 12, LittleEndian(cookie, 8))
  /\ At(P, 20, LittleEndian(Len(data), 4)) /\ At(P, 24, data)

(* Message::Pack puts them there.                                          *)
LEMMA PackLayout ==
  ASSUME NEW type \in Byte, NEW dest \in Byte, NEW cookie \in Byte,
         NEW data \in Seq(Byte),
         NEW P, P = Pack([type |-> type, destination |-> dest, cookie |-> cookie,
                          data |-> data])
  PROVE  Framed(P, type, dest, cookie, data)
<1> DEFINE w0 == NewWriter
           w1 == WriteValue(w0, 4, type)
           w2 == WriteValue(w1, 8, dest)
           w3 == WriteValue(w2, 8, cookie)
           w4 == WriteSizedData(w3, data, ToWord)
           n  == Padded(Len(data), ToWord)
<1>1. P = w4.buffer
  BY DEF Pack
<1>2. n \in Nat /\ type \in Int /\ dest \in Int /\ cookie \in Int /\ Len(data) \in Int
  <2>1. type \in Int /\ dest \in Int /\ cookie \in Int
    BY DEF Byte
  <2>2. n \in Nat
    BY PaddedLen, PaddingValues
  <2> QED
    BY <2>1, <2>2
<1>3. \A v \in Int, k \in Widths : LittleEndian(v, k) \in Seq(Byte)
  BY LittleEndianBytes
<1>4. IsWriter(w0) /\ Len(w0.buffer) = 0
  BY NewWriterIsEmpty
<1> HIDE DEF w0
<1>5. Grows(w0, w1, 4) /\ At(w1.buffer, 0, LittleEndian(type, 4))
  BY <1>2, <1>4, WriteWord
<1>6. IsWriter(w1) /\ Len(w1.buffer) = 4
  BY <1>4, <1>5 DEF Grows
<1> HIDE DEF w1
<1>7. Grows(w1, w2, 8) /\ At(w2.buffer, 4, LittleEndian(dest, 8))
  BY <1>2, <1>6, WriteWord
<1>8. IsWriter(w2) /\ Len(w2.buffer) = 12
  BY <1>6, <1>7 DEF Grows
<1> HIDE DEF w2
<1>9. Grows(w2, w3, 8) /\ At(w3.buffer, 12, LittleEndian(cookie, 8))
  BY <1>2, <1>8, WriteWord
<1>10. IsWriter(w3) /\ Len(w3.buffer) = 20
  BY <1>8, <1>9 DEF Grows
<1> HIDE DEF w3
<1>11. /\ Grows(w3, w4, 4 + n) /\ At(w4.buffer, 20, LittleEndian(Len(data), 4))
       /\ At(w4.buffer, 24, data)
  <2>1. /\ Grows(w3, w4, 4 + n) /\ At(w4.buffer, Len(w3.buffer), LittleEndian(Len(data), 4))
        /\ At(w4.buffer, Len(w3.buffer) + 4, data)
    BY <1>10, PaddingValues, WriteSizedPlaces
  <2>2. Len(w3.buffer) + 4 = 24
    BY <1>10
  <2> QED
    BY <1>10, <2>1, <2>2
<1> HIDE DEF w4, n
<1>12. At(w4.buffer, 0, LittleEndian(type, 4))
  BY <1>2, <1>3, <1>5, <1>7, <1>9, <1>11, WidthValues DEF Grows
<1>13. At(w4.buffer, 4, LittleEndian(dest, 8))
  BY <1>2, <1>3, <1>7, <1>9, <1>11, WidthValues DEF Grows
<1>14. At(w4.buffer, 12, LittleEndian(cookie, 8))
  BY <1>2, <1>3, <1>9, <1>11, WidthValues DEF Grows
<1>15. w4.buffer \in Seq(Byte) /\ Len(w4.buffer) = 24 + n
  BY <1>2, <1>10, <1>11 DEF Grows, IsWriter
<1> QED
  BY <1>1, <1>11, <1>12, <1>13, <1>14, <1>15, PaddingValues DEF n, Framed

(* Message::Unpack finds them there.                                       *)
LEMMA UnpackLayout ==
  ASSUME NEW type \in Byte, NEW dest \in Byte, NEW cookie \in Byte,
         NEW data \in Seq(Byte), Len(data) \in Byte,
         NEW P, Framed(P, type, dest, cookie, data), NEW U, U = Unpack(P, 0),
         NEW m, m = [type |-> type, destination |-> dest, cookie |-> cookie, data |-> data]
  PROVE  ~U.failed /\ U.used = Len(P) /\ U.msg = m
<1>0. \A v \in Byte, a \in Nat : \A r :
        /\ Reads(r, P, a) /\ At(P, a, LittleEndian(v, 4)) =>
             Reads(ReadValue(r, 4), P, a + 4) /\ ReadValue(r, 4).value = v
        /\ Reads(r, P, a) /\ At(P, a, LittleEndian(v, 8)) =>
             Reads(ReadValue(r, 8), P, a + 8) /\ ReadValue(r, 8).value = v
  BY ReadWord DEF Framed
<1> DEFINE r0 == NewReader(P, 0)
           r1 == ReadValue(r0, 4)
           r2 == ReadValue(r1, 8)
           r3 == ReadValue(r2, 8)
           r4 == ReadSizedData(r3, ToWord)
           n  == Padded(Len(data), ToWord)
<1>1. n \in Nat
  BY PaddedLen, PaddingValues
<1>2. U = [failed |-> r4.failed, used |-> r4.current,
           msg |-> [type |-> r1.value, destination |-> r2.value,
                    cookie |-> r3.value, data |-> r4.value]]
  BY DEF Unpack
<1>3. Reads(r0, P, 0)
  BY DEF NewReader, Reads
<1> HIDE DEF r0
<1>4. Reads(r1, P, 4) /\ r1.value = type
  BY <1>0, <1>3 DEF Framed
<1> HIDE DEF r1
<1>5. Reads(r2, P, 12) /\ r2.value = dest
  BY <1>0, <1>4 DEF Framed
<1> HIDE DEF r2
<1>6. Reads(r3, P, 20) /\ r3.value = cookie
  BY <1>0, <1>5 DEF Framed
<1> HIDE DEF r3
<1>7. Reads(r4, P, 24 + n) /\ r4.value = data
  <2>1. n = pad_size(Len(data))
    BY PaddingValues
  <2>2. SizedAt(data, P, 20, n) /\ P \in Seq(Byte)
    BY <2>1 DEF SizedAt, Framed
  <2>3. \A a \in Nat : Reads(r3, P, a) /\ SizedAt(data, P, a, n) =>
          Reads(r4, P, a + 4 + n) /\ r4.value = data
    <3> HIDE DEF n
    <3> QED
      BY <1>1, <2>1, <2>2, ReadPadded
  <2> HIDE DEF n, r4
  <2>4. Reads(r4, P, 20 + 4 + n) /\ r4.value = data
    BY <1>6, <2>2, <2>3
  <2> QED
    BY <1>1, <2>4
<1> HIDE DEF r4, n
<1> QED
  BY <1>2, <1>4, <1>5, <1>6, <1>7, PaddingValues DEF Reads, n, Framed

(* A message comes out of its frame as it was packed, and nothing of the   *)
(* frame is left, when its length fits in a byte.                          *)
LEMMA MessageRoundTrip ==
  ASSUME NEW type \in Byte, NEW dest \in Byte, NEW cookie \in Byte,
         NEW data \in Seq(Byte), Len(data) \in Byte,
         NEW m, m = [type |-> type, destination |-> dest, cookie |-> cookie, data |-> data],
         NEW P, P = Pack(m), NEW U, U = Unpack(P, 0)
  PROVE  ~U.failed /\ U.used = Len(P) /\ U.msg = m
<1>1. Framed(P, type, dest, cookie, data)
  BY PackLayout
<1> QED
  BY <1>1, UnpackLayout

-----------------------------------------------------------------------------
(***************************************************************************)
(* A reader in any bytes stays in its buffer.                              *)
(***************************************************************************)

(* A reader of a buffer, wherever it is.                                   *)
IsReader(r, buf) ==
  /\ DOMAIN r = {"buffer", "current", "value", "failed"}
  /\ r.buffer = buf /\ r.current \in Nat /\ r.failed \in BOOLEAN

(* Take leaves a reader, and throws or returns the value.                  *)
LEMMA TakeIsReader ==
  ASSUME NEW r, NEW buf \in Seq(Byte), IsReader(r, buf), NEW n \in Nat, NEW v,
         NEW q, q = Take(r, n, v)
  PROVE  IsReader(q, buf) /\ (~q.failed => q.value = v /\ r.current + n <= Len(buf))
<1>1. CASE r.failed \/ r.current + n > Len(r.buffer)
  <2>1. q = [r EXCEPT !.failed = TRUE]
    BY <1>1 DEF Take
  <2> QED
    BY <2>1 DEF IsReader
<1>2. CASE ~(r.failed \/ r.current + n > Len(r.buffer))
  <2>1. q = [r EXCEPT !.current = r.current + n, !.value = v]
    BY <1>2 DEF Take
  <2>2. r.current + n <= Len(buf)
    BY <1>2 DEF IsReader
  <2> QED
    BY <2>1, <2>2 DEF IsReader
<1> QED
  BY <1>1, <1>2

(* ReadValue returns a byte of the buffer.                                 *)
LEMMA ReadValueIsReader ==
  ASSUME NEW r, NEW buf \in Seq(Byte), IsReader(r, buf), NEW width \in Widths,
         NEW q, q = ReadValue(r, width)
  PROVE  IsReader(q, buf) /\ (~q.failed => q.value \in Byte)
<1>1. width \in Nat /\ width > 0
  BY WidthValues
<1>2. q = Take(r, width, buf[r.current + 1])
  BY DEF ReadValue, IsReader
<1>3. IsReader(q, buf) /\ (~q.failed => /\ q.value = buf[r.current + 1]
                                        /\ r.current + width <= Len(buf))
  BY <1>1, <1>2, TakeIsReader
<1>4. r.current + width <= Len(buf) => buf[r.current + 1] \in Byte
  BY <1>1 DEF IsReader
<1> QED
  BY <1>3, <1>4

(* ReadSizedData leaves a reader, whatever the length it reads.            *)
LEMMA ReadSizedIsReader ==
  ASSUME NEW r, NEW buf \in Seq(Byte), IsReader(r, buf), NEW padding \in BOOLEAN,
         NEW q, q = ReadSizedData(r, padding)
  PROVE  IsReader(q, buf)
<1> DEFINE s == ReadValue(r, 4)
           n == s.value
<1>1. IsReader(s, buf) /\ (~s.failed => n \in Byte)
  <2>1. \A k \in Widths : /\ IsReader(ReadValue(r, k), buf)
                          /\ ~ReadValue(r, k).failed => ReadValue(r, k).value \in Byte
    BY ReadValueIsReader
  <2> QED
    BY <2>1, WidthValues
<1>2. q = IF s.failed THEN s ELSE ReadData(s, n, padding)
  BY DEF ReadSizedData
<1> HIDE DEF s
<1>3. CASE s.failed
  BY <1>1, <1>2, <1>3
<1>4. CASE ~s.failed /\ n = 0
  <2>1. q = [s EXCEPT !.value = << >>]
    BY <1>2, <1>4 DEF ReadData
  <2> QED
    BY <1>1, <2>1 DEF IsReader
<1>5. CASE ~s.failed /\ n # 0
  <2>1. q = Take(s, Padded(n, padding), View(s, n))
    BY <1>2, <1>5 DEF ReadData
  <2>2. n \in Nat
    <3>1. Byte \subseteq Nat
      BY DEF Byte
    <3> QED
      BY <1>1, <1>5, <3>1
  <2> HIDE DEF n
  <2>3. Padded(n, padding) \in Nat
    BY <2>2, PaddedSize
  <2> QED
    BY <1>1, <2>1, <2>3, TakeIsReader
<1> QED
  BY <1>3, <1>4, <1>5

(* Message::Unpack counts what it read, in whatever bytes.                 *)
LEMMA UnpackCounts ==
  ASSUME NEW buf \in Seq(Byte), NEW offset \in Nat
  PROVE  Unpack(buf, offset).used \in Nat
<1>0. \A r : IsReader(r, buf) =>
        IsReader(ReadValue(r, 4), buf) /\ IsReader(ReadValue(r, 8), buf)
  <2>1. \A k \in Widths : \A r : IsReader(r, buf) => IsReader(ReadValue(r, k), buf)
    BY ReadValueIsReader
  <2> QED
    BY <2>1, WidthValues
<1> DEFINE r0 == NewReader(buf, offset)
           r1 == ReadValue(r0, 4)
           r2 == ReadValue(r1, 8)
           r3 == ReadValue(r2, 8)
           r4 == ReadSizedData(r3, ToWord)
<1>1. IsReader(r0, buf)
  BY DEF NewReader, IsReader
<1>2. Unpack(buf, offset).used = r4.current
  BY DEF Unpack
<1> HIDE DEF r0
<1>3. IsReader(r1, buf)
  BY <1>0, <1>1
<1> HIDE DEF r1
<1>4. IsReader(r2, buf)
  BY <1>0, <1>3
<1> HIDE DEF r2
<1>5. IsReader(r3, buf)
  BY <1>0, <1>4
<1> HIDE DEF r3
<1>6. IsReader(r4, buf)
  BY <1>5, PaddingValues, ReadSizedIsReader
<1> HIDE DEF r4
<1> QED
  BY <1>2, <1>6 DEF IsReader

-----------------------------------------------------------------------------
(***************************************************************************)
(* TransactionData::Pack and TransactionDataFromMessage.                   *)
(***************************************************************************)

(* Where the parts of a transaction without objects are.                   *)
Packed(P, binder, cookie, code, flags, data) ==
  /\ P \in Seq(Byte)
  /\ At(P, 0, LittleEndian(binder, 8)) /\ At(P, 8, LittleEndian(cookie, 8))
  /\ At(P, 16, LittleEndian(code, 4)) /\ At(P, 20, LittleEndian(flags, 4))
  /\ At(P, 24, LittleEndian(Len(data), 4)) /\ At(P, 28, data)
  /\ At(P, 28 + Len(data), LittleEndian(0, 4))

(* The header of a transaction.                                            *)
LEMMA HeaderLayout ==
  ASSUME NEW binder \in Byte, NEW cookie \in Byte, NEW code \in Byte, NEW flags \in Byte,
         NEW w, w = WriteValue(WriteValue(WriteValue(WriteValue(
                      NewWriter, 8, binder), 8, cookie), 4, code), 4, flags)
  PROVE  /\ IsWriter(w) /\ Len(w.buffer) = 24
         /\ At(w.buffer, 0, LittleEndian(binder, 8)) /\ At(w.buffer, 8, LittleEndian(cookie, 8))
         /\ At(w.buffer, 16, LittleEndian(code, 4)) /\ At(w.buffer, 20, LittleEndian(flags, 4))
<1> DEFINE w0 == NewWriter
           w1 == WriteValue(w0, 8, binder)
           w2 == WriteValue(w1, 8, cookie)
           w3 == WriteValue(w2, 4, code)
           w4 == WriteValue(w3, 4, flags)
<1>0. w = w4
  OBVIOUS
<1>1. binder \in Int /\ cookie \in Int /\ code \in Int /\ flags \in Int
  BY DEF Byte
<1>2. IsWriter(w0) /\ Len(w0.buffer) = 0
  BY NewWriterIsEmpty
<1> HIDE DEF w0
<1>3. Grows(w0, w1, 8) /\ At(w1.buffer, 0, LittleEndian(binder, 8))
  BY <1>1, <1>2, WriteWord
<1> HIDE DEF w1
<1>4. IsWriter(w1) /\ Len(w1.buffer) = 8
  BY <1>2, <1>3 DEF Grows
<1>5. Grows(w1, w2, 8) /\ At(w2.buffer, 8, LittleEndian(cookie, 8))
  BY <1>1, <1>4, WriteWord
<1> HIDE DEF w2
<1>6. IsWriter(w2) /\ Len(w2.buffer) = 16
  BY <1>4, <1>5 DEF Grows
<1>7. Grows(w2, w3, 4) /\ At(w3.buffer, 16, LittleEndian(code, 4))
  BY <1>1, <1>6, WriteWord
<1> HIDE DEF w3
<1>8. IsWriter(w3) /\ Len(w3.buffer) = 20
  BY <1>6, <1>7 DEF Grows
<1>9. Grows(w3, w4, 4) /\ At(w4.buffer, 20, LittleEndian(flags, 4))
  BY <1>1, <1>8, WriteWord
<1> HIDE DEF w4
<1>10. IsWriter(w4) /\ Len(w4.buffer) = 24
  BY <1>8, <1>9 DEF Grows
<1>11. \A v \in Int, k \in Widths : LittleEndian(v, k) \in Seq(Byte)
  BY LittleEndianBytes
<1>12. At(w4.buffer, 0, LittleEndian(binder, 8))
  BY <1>1, <1>3, <1>5, <1>7, <1>9, <1>11, WidthValues DEF Grows
<1>13. At(w4.buffer, 8, LittleEndian(cookie, 8))
  BY <1>1, <1>5, <1>7, <1>9, <1>11, WidthValues DEF Grows
<1>14. At(w4.buffer, 16, LittleEndian(code, 4))
  BY <1>1, <1>7, <1>9, <1>11, WidthValues DEF Grows
<1> QED
  BY <1>0, <1>9, <1>10, <1>12, <1>13, <1>14

(* The flags that Pack writes: a status is marked as one.                  *)
PackedFlags(has_status) == IF has_status THEN 24 ELSE 16

(* TransactionData::Pack puts the parts of a transaction there.            *)
LEMMA TransactionLayout ==
  ASSUME NEW td, td.binder \in Byte, td.cookie \in Byte, td.code \in Byte,
         td.one_way = FALSE, td.has_status \in BOOLEAN, td.data \in Seq(Byte),
         td.objects = << >>, NEW P, P = TransactionPack(td)
  PROVE  /\ Packed(P, td.binder, td.cookie, td.code, PackedFlags(td.has_status), td.data)
         /\ Len(P) = 32 + Len(td.data)
<1> DEFINE binder == td.binder
           cookie == td.cookie
           code == td.code
           data == td.data
<1>0. binder \in Byte /\ cookie \in Byte /\ code \in Byte /\ data \in Seq(Byte)
  OBVIOUS
<1> DEFINE flags == PackedFlags(td.has_status)
           w1 == WriteValue(NewWriter, 8, binder)
           w2 == WriteValue(w1, 8, cookie)
           w3 == WriteValue(w2, 4, code)
           w4 == WriteValue(w3, 4, flags)
           w5 == WriteSizedData(w4, data, Unpadded)
           w6 == WriteSizedData(w5, << >>, Unpadded)
           n  == Len(data)
<1>1. flags = AcceptFds + (IF td.one_way THEN OneWay ELSE 0)
                        + (IF td.has_status THEN HasStatusFlag ELSE 0)
  BY DEF PackedFlags, AcceptFds, OneWay, HasStatusFlag
<1>2. P = w6.buffer
  <2> HIDE DEF flags
  <2> QED
    BY <1>1 DEF TransactionPack
<1>3. flags \in Byte
  BY DEF PackedFlags, Byte
<1> HIDE DEF flags, binder, cookie, code, data
<1>4. /\ IsWriter(w4) /\ Len(w4.buffer) = 24
      /\ At(w4.buffer, 0, LittleEndian(binder, 8)) /\ At(w4.buffer, 8, LittleEndian(cookie, 8))
      /\ At(w4.buffer, 16, LittleEndian(code, 4))
      /\ At(w4.buffer, 20, LittleEndian(flags, 4))
  BY <1>0, <1>3, HeaderLayout
<1> HIDE DEF w4
<1>5. \A v \in Int, k \in Widths : LittleEndian(v, k) \in Seq(Byte)
  BY LittleEndianBytes
<1>6. /\ binder \in Int /\ cookie \in Int /\ code \in Int /\ flags \in Int
      /\ n \in Nat /\ n \in Int
  <2>1. Byte \subseteq Int
    BY DEF Byte
  <2> QED
    BY <1>0, <1>3, <2>1
<1>7. Grows(w4, w5, 4 + n) /\ At(w5.buffer, 24, LittleEndian(n, 4)) /\ At(w5.buffer, 28, data)
  <2>1. /\ Grows(w4, w5, 4 + Padded(n, Unpadded))
        /\ At(w5.buffer, Len(w4.buffer), LittleEndian(n, 4))
        /\ At(w5.buffer, Len(w4.buffer) + 4, data)
    BY <1>0, <1>4, PaddingValues, WriteSizedPlaces
  <2>2. Len(w4.buffer) + 4 = 28
    BY <1>4
  <2> HIDE DEF w5, n
  <2> QED
    BY <1>4, <2>1, <2>2, PaddingValues
<1> HIDE DEF w5
<1>8. IsWriter(w5) /\ Len(w5.buffer) = 28 + n
  BY <1>4, <1>6, <1>7 DEF Grows
<1>9. Grows(w5, w6, 4 + 0) /\ At(w6.buffer, Len(w5.buffer), LittleEndian(0, 4))
  <2>1. << >> \in Seq(Byte) /\ Len(<< >>) = 0
    OBVIOUS
  <2> DEFINE e == << >>
  <2> HIDE DEF e
  <2>2. \A p : p = WriteSizedData(w5, e, Unpadded) =>
          /\ Grows(w5, p, 4 + Padded(Len(e), Unpadded))
          /\ At(p.buffer, Len(w5.buffer), LittleEndian(Len(e), 4))
    BY <1>8, <2>1, PaddingValues, WriteSizedPlaces DEF e
  <2> QED
    BY <2>1, <2>2, PaddingValues DEF e
<1> HIDE DEF w6
<1>10. \A a \in Nat, x \in Seq(Byte) : At(w4.buffer, a, x) => At(w6.buffer, a, x)
  BY <1>7, <1>9 DEF Grows
<1>11. \A a \in Nat, x \in Seq(Byte) : At(w5.buffer, a, x) => At(w6.buffer, a, x)
  BY <1>9 DEF Grows
<1>12. w6.buffer \in Seq(Byte)
  BY <1>9 DEF Grows, IsWriter
<1>13. /\ LittleEndian(binder, 8) \in Seq(Byte) /\ LittleEndian(cookie, 8) \in Seq(Byte)
       /\ LittleEndian(code, 4) \in Seq(Byte)
       /\ LittleEndian(flags, 4) \in Seq(Byte) /\ LittleEndian(n, 4) \in Seq(Byte)
  <2> HIDE DEF n
  <2> QED
    BY <1>5, <1>6, WidthValues
<1>14. /\ At(w6.buffer, 0, LittleEndian(binder, 8)) /\ At(w6.buffer, 8, LittleEndian(cookie, 8))
       /\ At(w6.buffer, 16, LittleEndian(code, 4)) /\ At(w6.buffer, 20, LittleEndian(flags, 4))
  BY <1>4, <1>10, <1>13
<1>15. At(w6.buffer, 24, LittleEndian(n, 4)) /\ At(w6.buffer, 28, data)
  BY <1>0, <1>7, <1>11, <1>13
<1>16. At(w6.buffer, 28 + n, LittleEndian(0, 4))
  BY <1>8, <1>9
<1>17. Len(w6.buffer) = 32 + n
  BY <1>6, <1>8, <1>9 DEF Grows
<1> QED
  BY <1>2, <1>12, <1>14, <1>15, <1>16, <1>17 DEF Packed, flags, binder, cookie, code, data

(* The bytes that WriteData adds to a word leave the parts where they are. *)
LEMMA PackedIsPadded ==
  ASSUME NEW binder \in Byte, NEW cookie \in Byte, NEW code \in Byte, NEW flags \in Byte,
         NEW data \in Seq(Byte),
         NEW inner, Packed(inner, binder, cookie, code, flags, data),
         NEW P, P = WriteData(NewWriter, inner, ToWord).buffer
  PROVE  Packed(P, binder, cookie, code, flags, data)
<1> DEFINE w == WriteData(NewWriter, inner, ToWord)
           n == Len(data)
<1>1. inner \in Seq(Byte)
  BY DEF Packed
<1>2. IsWriter(w) /\ At(w.buffer, 0, inner)
  BY <1>1, NewWriterIsEmpty, PaddingValues, WriteDataPlaces DEF Grows
<1> HIDE DEF w
<1>3. P = w.buffer /\ P \in Seq(Byte) /\ Len(P) \in Nat
  BY <1>2 DEF IsWriter, w
<1>4. At(P, 0, inner)
  BY <1>2, <1>3
<1>5. \A b \in Nat, bytes \in Seq(Byte) : At(inner, b, bytes) => At(P, 0 + b, bytes)
  BY <1>1, <1>3, <1>4, AtNested
<1>6. \A b \in Nat, bytes \in Seq(Byte) : At(inner, b, bytes) => At(P, b, bytes)
  <2>1. \A b \in Nat : 0 + b = b
    OBVIOUS
  <2> QED
    BY <1>5, <2>1
<1>7. n \in Nat /\ n \in Int /\ 28 + n \in Nat
  OBVIOUS
<1>8. /\ LittleEndian(binder, 8) \in Seq(Byte) /\ LittleEndian(cookie, 8) \in Seq(Byte)
      /\ LittleEndian(code, 4) \in Seq(Byte) /\ LittleEndian(flags, 4) \in Seq(Byte)
      /\ LittleEndian(n, 4) \in Seq(Byte) /\ LittleEndian(0, 4) \in Seq(Byte)
  <2>1. \A v \in Int, k \in Widths : LittleEndian(v, k) \in Seq(Byte)
    BY LittleEndianBytes
  <2>2. Byte \subseteq Int /\ 0 \in Int
    BY DEF Byte
  <2> HIDE DEF n
  <2> QED
    BY <1>7, <2>1, <2>2, WidthValues
<1>9. /\ At(inner, 0, LittleEndian(binder, 8)) /\ At(inner, 8, LittleEndian(cookie, 8))
      /\ At(inner, 16, LittleEndian(code, 4)) /\ At(inner, 20, LittleEndian(flags, 4))
      /\ At(inner, 24, LittleEndian(n, 4)) /\ At(inner, 28, data)
      /\ At(inner, 28 + n, LittleEndian(0, 4))
  BY DEF Packed
<1>10. /\ At(P, 0, LittleEndian(binder, 8)) /\ At(P, 8, LittleEndian(cookie, 8))
       /\ At(P, 16, LittleEndian(code, 4)) /\ At(P, 20, LittleEndian(flags, 4))
       /\ At(P, 24, LittleEndian(n, 4)) /\ At(P, 28, data)
       /\ At(P, 28 + n, LittleEndian(0, 4))
  <2> HIDE DEF n
  <2> QED
    BY <1>6, <1>7, <1>8, <1>9
<1> QED
  BY <1>3, <1>10 DEF Packed

(* A transaction is longer than the data in it.                            *)
LEMMA PackedIsLonger ==
  ASSUME NEW binder, NEW cookie, NEW code, NEW flags, NEW data \in Seq(Byte),
         NEW P, Packed(P, binder, cookie, code, flags, data)
  PROVE  28 + Len(data) + 4 <= Len(P)
<1>1. Len(LittleEndian(0, 4)) = 4
  <2>1. \A v \in Int, k \in Widths : Len(LittleEndian(v, k)) = k
    BY LittleEndianBytes
  <2>2. 0 \in Int
    OBVIOUS
  <2> QED
    BY <2>1, <2>2, WidthValues, Zenon
<1> QED
  BY <1>1 DEF Packed, At

(* TransactionDataFromMessage finds the parts, when the length of the data *)
(* fits in a byte.                                                         *)
LEMMA TransactionUnpack ==
  ASSUME NEW binder \in Byte, NEW cookie \in Byte, NEW code \in Byte,
         NEW has_status \in BOOLEAN, NEW data \in Seq(Byte), Len(data) \in Byte,
         NEW m, Packed(m.data, binder, cookie, code, PackedFlags(has_status), data),
         NEW td, td = TransactionDataFromMessage(m)
  PROVE  ~td.failed /\ td.data = data /\ (td.has_status <=> has_status)
<1> DEFINE P == m.data
           flags == PackedFlags(has_status)
           n == Len(data)
           r0 == NewReader(P, 0)
           r1 == ReadValue(r0, 8)
           r2 == ReadValue(r1, 8)
           r3 == ReadValue(r2, 4)
           r4 == ReadValue(r3, 4)
           r5 == ReadSizedData(r4, Unpadded)
           r6 == ReadSizedData(r5, Unpadded)
<1>1. flags \in Byte /\ (HasFlag(flags, HasStatusFlag) <=> has_status)
  BY DEF PackedFlags, Byte, HasFlag, HasStatusFlag
<1>2. td = IF r6.failed
             THEN [failed |-> TRUE]
             ELSE [failed |-> FALSE, binder |-> r1.value, cookie |-> r2.value,
                   code |-> r3.value, one_way |-> HasFlag(r4.value, OneWay),
                   has_status |-> HasFlag(r4.value, HasStatusFlag),
                   data |-> r5.value, objects |-> r6.value]
  BY DEF TransactionDataFromMessage
<1>3. /\ P \in Seq(Byte)
      /\ At(P, 0, LittleEndian(binder, 8)) /\ At(P, 8, LittleEndian(cookie, 8))
      /\ At(P, 16, LittleEndian(code, 4)) /\ At(P, 20, LittleEndian(flags, 4))
      /\ At(P, 24, LittleEndian(n, 4)) /\ At(P, 28, data)
      /\ At(P, 28 + n, LittleEndian(0, 4))
  BY DEF Packed
<1>4. 28 + n + 4 <= Len(P)
  BY PackedIsLonger
<1> HIDE DEF P, flags, n
<1>5. \A v \in Byte, a \in Nat : \A r :
        /\ Reads(r, P, a) /\ At(P, a, LittleEndian(v, 4)) =>
             Reads(ReadValue(r, 4), P, a + 4) /\ ReadValue(r, 4).value = v
        /\ Reads(r, P, a) /\ At(P, a, LittleEndian(v, 8)) =>
             Reads(ReadValue(r, 8), P, a + 8) /\ ReadValue(r, 8).value = v
  BY <1>3, ReadWord
<1>6. Reads(r0, P, 0)
  BY DEF NewReader, Reads
<1> HIDE DEF r0
<1>7. Reads(r1, P, 8)
  BY <1>3, <1>5, <1>6
<1> HIDE DEF r1
<1>8. Reads(r2, P, 16)
  BY <1>3, <1>5, <1>7
<1> HIDE DEF r2
<1>9. Reads(r3, P, 20)
  BY <1>3, <1>5, <1>8
<1> HIDE DEF r3
<1>10. Reads(r4, P, 24) /\ r4.value = flags
  BY <1>1, <1>3, <1>5, <1>9
<1> HIDE DEF r4
<1>11. \A d \in Seq(Byte), a \in Nat : \A r :
         Reads(r, P, a) /\ SizedAt(d, P, a, Len(d)) =>
           /\ Reads(ReadSizedData(r, Unpadded), P, a + 4 + Len(d))
           /\ ReadSizedData(r, Unpadded).value = d
  BY <1>3, ReadUnpadded
<1>12. Reads(r5, P, 28 + n) /\ r5.value = data
  <2>1. n \in Nat /\ n = Len(data)
    BY DEF n
  <2>2. SizedAt(data, P, 24, Len(data))
    BY <1>3, <1>4, <2>1 DEF SizedAt
  <2>3. Reads(r5, P, 24 + 4 + n) /\ r5.value = data
    BY <1>10, <1>11, <2>1, <2>2
  <2> QED
    BY <2>1, <2>3
<1> HIDE DEF r5
<1>13. Reads(r6, P, 32 + n)
  <2> DEFINE e == << >>
  <2>1. e \in Seq(Byte) /\ Len(e) = 0 /\ 0 \in Byte
    BY DEF Byte
  <2> HIDE DEF e
  <2>2. n \in Nat /\ Len(P) \in Nat
    BY <1>3 DEF n
  <2>3. At(P, 28 + n + 4, e) /\ 28 + n \in Nat /\ 28 + n + 4 + Len(e) <= Len(P)
    BY <1>4, <2>1, <2>2 DEF At
  <2>4. SizedAt(e, P, 28 + n, Len(e))
    BY <1>3, <2>1, <2>3 DEF SizedAt
  <2>5. Reads(r6, P, 28 + n + 4 + Len(e))
    BY <1>11, <1>12, <2>1, <2>3, <2>4
  <2>6. 28 + n + 4 + Len(e) = 32 + n
    BY <2>1, <2>2
  <2> QED
    BY <2>5, <2>6
<1> HIDE DEF r6
<1> QED
  BY <1>1, <1>2, <1>10, <1>12, <1>13 DEF Reads

-----------------------------------------------------------------------------
(***************************************************************************)
(* Strings of 16-bit units.                                                *)
(***************************************************************************)
(* A unit is its two bytes.                                                *)
LEMMA UnitValue ==
  ASSUME NEW x \in Unit
  PROVE  /\ x % 256 \in Byte /\ x \div 256 \in Byte
         /\ (x % 256) + 256 * (x \div 256) = x
<1>1. x \in Int /\ 0 <= x /\ x <= 65535
  BY SMTT(30) DEF Unit
<1>2. x % 256 \in Byte
  BY <1>1, SMT DEF Byte
<1>3. 0 <= x \div 256 /\ x \div 256 <= 255 /\ x \div 256 \in Int
  BY <1>1, SMT
<1>4. (x % 256) + 256 * (x \div 256) = x
  BY <1>1, SMT
<1> QED
  BY <1>2, <1>3, <1>4 DEF Byte

(* The terminator is a unit.                                               *)
LEMMA ZeroUnit == 0 \in Unit
  BY DEF Unit

(* The two bytes of each unit, the lower one first.                        *)
LEMMA UnitBytesParts ==
  ASSUME NEW s \in Seq(Unit), NEW i \in 1 .. Len(s)
  PROVE  /\ 2 * i - 1 \in 1 .. 2 * Len(s) /\ 2 * i \in 1 .. 2 * Len(s)
         /\ UnitBytes(s)[2 * i - 1] = s[i] % 256
         /\ UnitBytes(s)[2 * i] = s[i] \div 256
<1> DEFINE n == Len(s)
<1>1. n \in Nat /\ i \in 1 .. n
  OBVIOUS
<1> HIDE DEF n
<1>2. 2 * i - 1 \in 1 .. 2 * n /\ 2 * i \in 1 .. 2 * n
  BY <1>1
<1>3. /\ (2 * i - 1) % 2 = 1 /\ (2 * i) % 2 # 1
      /\ ((2 * i - 1) + 1) \div 2 = i /\ (2 * i) \div 2 = i
  BY <1>1
<1>4. \A j \in 1 .. 2 * n :
        UnitBytes(s)[j] = IF j % 2 = 1 THEN s[(j + 1) \div 2] % 256 ELSE s[j \div 2] \div 256
  BY DEF UnitBytes, n
<1>5. UnitBytes(s)[2 * i - 1] = s[i] % 256
  BY <1>2, <1>3, <1>4
<1>6. UnitBytes(s)[2 * i] = s[i] \div 256
  BY <1>2, <1>3, <1>4
<1> QED
  BY <1>2, <1>5, <1>6 DEF n

(* Every byte is one of a unit.                                            *)
LEMMA UnitBytesCovered ==
  ASSUME NEW n \in Nat, NEW j \in 1 .. 2 * n
  PROVE  \E i \in 1 .. n : j = 2 * i - 1 \/ j = 2 * i
<1>1. CASE j % 2 = 1
  <2>1. (j + 1) \div 2 \in 1 .. n /\ j = 2 * ((j + 1) \div 2) - 1
    BY <1>1
  <2> QED
    BY <2>1
<1>2. CASE j % 2 # 1
  <2>1. j \div 2 \in 1 .. n /\ j = 2 * (j \div 2)
    BY <1>2
  <2> QED
    BY <2>1
<1> QED
  BY <1>1, <1>2

(* The bytes of a string are bytes, two for each unit.                     *)
LEMMA UnitBytesIsSeq ==
  ASSUME NEW s \in Seq(Unit)
  PROVE  UnitBytes(s) \in Seq(Byte) /\ Len(UnitBytes(s)) = 2 * Len(s)
<1> DEFINE n == Len(s)
           u == UnitBytes(s)
<1>1. n \in Nat /\ 2 * n \in Nat
  OBVIOUS
<1>2. \A x \in Unit : x % 256 \in Byte /\ x \div 256 \in Byte
  BY UnitValue
<1>3. \A i \in 1 .. n : u[2 * i - 1] \in Byte /\ u[2 * i] \in Byte
  <2> TAKE i \in 1 .. n
  <2>1. s[i] \in Unit
    OBVIOUS
  <2> QED
    BY <1>2, <2>1, UnitBytesParts
<1>4. u = [j \in 1 .. 2 * n |-> u[j]]
  BY DEF UnitBytes
<1> HIDE DEF n, u
<1>5. \A j \in 1 .. 2 * n : u[j] \in Byte
  BY <1>1, <1>3, UnitBytesCovered
<1>6. u \in [1 .. 2 * n -> Byte]
  BY <1>4, <1>5
<1>7. u \in Seq(Byte) /\ Len(u) = 2 * n
  BY <1>1, <1>6, FunctionIsSeq
<1> QED
  BY <1>7 DEF n, u

(* The terminator comes behind the string.                                 *)
LEMMA UnitBytesTerminated ==
  ASSUME NEW s \in Seq(Unit)
  PROVE  /\ Append(s, 0) \in Seq(Unit) /\ Len(Append(s, 0)) = Len(s) + 1
         /\ At(UnitBytes(Append(s, 0)), 0, UnitBytes(s))
<1> DEFINE n == Len(s)
           t == Append(s, 0)
<1>1. n \in Nat /\ 0 \in Unit
  BY ZeroUnit
<1>2. /\ t \in Seq(Unit) /\ Len(t) = n + 1
      /\ \A i \in 1 .. n : t[i] = s[i] /\ i \in 1 .. Len(t)
  BY <1>1
<1> HIDE DEF t
<1>3. /\ UnitBytes(s) \in Seq(Byte) /\ Len(UnitBytes(s)) = 2 * n
      /\ UnitBytes(t) \in Seq(Byte) /\ Len(UnitBytes(t)) = 2 * Len(t)
  BY <1>2, UnitBytesIsSeq
<1>4. \A i \in 1 .. n : /\ UnitBytes(t)[2 * i - 1] = UnitBytes(s)[2 * i - 1]
                        /\ UnitBytes(t)[2 * i] = UnitBytes(s)[2 * i]
  <2> TAKE i \in 1 .. n
  <2>1. UnitBytes(s)[2 * i - 1] = s[i] % 256 /\ UnitBytes(s)[2 * i] = s[i] \div 256
    BY UnitBytesParts
  <2>2. UnitBytes(t)[2 * i - 1] = t[i] % 256 /\ UnitBytes(t)[2 * i] = t[i] \div 256
    <3>1. t \in Seq(Unit) /\ i \in 1 .. Len(t)
      BY <1>2
    <3> QED
      BY <3>1, UnitBytesParts
  <2> QED
    BY <1>2, <2>1, <2>2
<1> HIDE DEF n
<1>5. \A j \in 1 .. 2 * n : UnitBytes(t)[j] = UnitBytes(s)[j]
  BY <1>1, <1>4, UnitBytesCovered
<1>6. 0 + 2 * n <= 2 * Len(t) /\ \A j \in 1 .. 2 * n : 0 + j = j
  BY <1>1, <1>2
<1>7. At(UnitBytes(t), 0, UnitBytes(s))
  BY <1>3, <1>5, <1>6 DEF At
<1> QED
  BY <1>2, <1>7 DEF n, t

(* Units gives the string of its bytes.                                    *)
LEMMA UnitsOfBytes ==
  ASSUME NEW s \in Seq(Unit)
  PROVE  Units(UnitBytes(s)) = s
<1> DEFINE n == Len(s)
           u == UnitBytes(s)
<1>1. n \in Nat /\ Len(u) = 2 * n /\ (2 * n) \div 2 = n
  BY UnitBytesIsSeq
<1>2. \A x \in Unit : (x % 256) + 256 * (x \div 256) = x
  BY UnitValue
<1>3. \A i \in 1 .. n : u[2 * i - 1] + 256 * u[2 * i] = s[i]
  <2> TAKE i \in 1 .. n
  <2>1. s[i] \in Unit
    OBVIOUS
  <2> QED
    BY <1>2, <2>1, UnitBytesParts
<1>4. Units(u) = [i \in 1 .. n |-> u[2 * i - 1] + 256 * u[2 * i]]
  BY <1>1 DEF Units
<1>5. s = [i \in 1 .. n |-> s[i]]
  OBVIOUS
<1> HIDE DEF n, u
<1>6. Units(u) = s
  BY <1>3, <1>4, <1>5
<1> QED
  BY <1>6 DEF u

(* A string of units that is not empty: its length, then its bytes and the *)
(* terminator (WriteString of a std::u16string).                           *)
LEMMA WriteString16Places ==
  ASSUME NEW w, IsWriter(w), NEW s \in Seq(Unit), s # << >>,
         NEW p, p = WriteString16(w, s, ToWord)
  PROVE  /\ Grows(w, p, 4 + pad_size(2 * (Len(s) + 1)))
         /\ At(p.buffer, Len(w.buffer), LittleEndian(Len(s), 4))
         /\ At(p.buffer, Len(w.buffer) + 4, UnitBytes(s))
<1> DEFINE n == Len(s)
           v == WriteValue(w, 4, n)
           u == UnitBytes(Append(s, 0))
           k == pad_size(2 * (n + 1))
<1>1. n \in Nat /\ n \in Int /\ Len(w.buffer) \in Nat
  BY DEF IsWriter
<1>2. p = WriteData(v, u, ToWord)
  BY DEF WriteString16
<1>3. u \in Seq(Byte) /\ Len(u) = 2 * (n + 1) /\ At(u, 0, UnitBytes(s))
      /\ UnitBytes(s) \in Seq(Byte)
  <2> DEFINE t == Append(s, 0)
  <2>1. t \in Seq(Unit) /\ Len(t) = n + 1 /\ At(UnitBytes(t), 0, UnitBytes(s))
    BY UnitBytesTerminated
  <2> HIDE DEF t
  <2>2. UnitBytes(t) \in Seq(Byte) /\ Len(UnitBytes(t)) = 2 * Len(t)
        /\ UnitBytes(s) \in Seq(Byte)
    BY <2>1, UnitBytesIsSeq
  <2> QED
    BY <2>1, <2>2 DEF t
<1> HIDE DEF u, n
<1>4. Grows(w, v, 4) /\ At(v.buffer, Len(w.buffer), LittleEndian(n, 4))
  BY <1>1, WriteWord
<1> HIDE DEF v
<1>5. IsWriter(v) /\ Len(v.buffer) = Len(w.buffer) + 4
  BY <1>4 DEF Grows
<1>6. Grows(v, p, Padded(Len(u), ToWord)) /\ At(p.buffer, Len(v.buffer), u)
  BY <1>2, <1>3, <1>5, PaddingValues, WriteDataPlaces
<1>7. Padded(Len(u), ToWord) = k
  BY <1>3, PaddingValues
<1>8. k \in Nat
  <2>1. 2 * (n + 1) \in Nat
    BY <1>1
  <2>2. \A j \in Nat : pad_size(j) \in Nat
    BY PaddedSize
  <2> QED
    BY <2>1, <2>2
<1> HIDE DEF k
<1>9. Grows(w, p, 4 + k)
  BY <1>4, <1>6, <1>7, <1>8, GrowsTwice
<1>10. At(p.buffer, Len(w.buffer), LittleEndian(n, 4))
  <2>1. LittleEndian(n, 4) \in Seq(Byte)
    BY <1>1, LittleEndianBytes, WidthValues
  <2> QED
    BY <1>1, <1>4, <1>6, <2>1 DEF Grows
<1>11. At(p.buffer, Len(w.buffer) + 4, UnitBytes(s))
  <2>1. Len(v.buffer) \in Nat /\ Len(p.buffer) \in Nat
    BY <1>5, <1>6 DEF Grows, IsWriter
  <2>2. At(p.buffer, Len(v.buffer) + 0, UnitBytes(s))
    BY <1>3, <1>6, <2>1, AtNested
  <2> QED
    BY <1>5, <2>1, <2>2
<1> QED
  BY <1>9, <1>10, <1>11 DEF n, k

(* A string of units and its terminator take k bytes behind their length.  *)
StringAt(s, buf, a, k) ==
  /\ k = pad_size(2 * (Len(s) + 1)) /\ a + 4 + k <= Len(buf)
  /\ At(buf, a, LittleEndian(Len(s), 4)) /\ At(buf, a + 4, UnitBytes(s))

(* The string is read as it was written, when its length fits in a byte.   *)
LEMMA ReadString16Reads ==
  ASSUME NEW r, NEW buf \in Seq(Byte), NEW a \in Nat, Reads(r, buf, a),
         NEW s \in Seq(Unit), Len(s) \in Byte,
         NEW k \in Nat, StringAt(s, buf, a, k),
         NEW q, q = ReadString16(r, ToWord)
  PROVE  Reads(q, buf, a + 4 + k) /\ q.value = s
<1> DEFINE n == Len(s)
           h == ReadValue(r, 4)
           u == UnitBytes(s)
<1>1. n \in Nat /\ n \in Byte /\ At(buf, a, LittleEndian(n, 4))
  BY DEF StringAt
<1>2. u \in Seq(Byte) /\ Len(u) = 2 * n /\ At(buf, a + 4, u) /\ Units(u) = s
  BY UnitBytesIsSeq, UnitsOfBytes DEF StringAt
<1> HIDE DEF u
<1>4. q = IF h.failed THEN h
          ELSE Take(h, Padded(2 * (h.value + 1), ToWord), Units(View(h, 2 * h.value)))
  BY DEF ReadString16
<1> HIDE DEF n
<1>5. Reads(h, buf, a + 4) /\ h.value = n
  BY <1>1, ReadWord
<1> HIDE DEF h
<1>7. Padded(2 * (n + 1), ToWord) = k
  BY PaddingValues DEF n, StringAt
<1>8. View(h, 2 * n) = u
  <2>1. a + 4 \in Nat
    OBVIOUS
  <2>2. View(h, Len(u)) = u
    BY <1>2, <1>5, <2>1, ViewReads
  <2> QED
    BY <1>2, <2>2
<1>9. ~h.failed
  BY <1>5 DEF Reads
<1>10. q = Take(h, k, s)
  BY <1>2, <1>4, <1>5, <1>7, <1>8, <1>9
<1>11. Reads(q, buf, a + 4 + k) /\ q.value = s
  <2> DEFINE c == a + 4
  <2>1. c \in Nat /\ c + k <= Len(buf) /\ Reads(h, buf, c)
    BY <1>5 DEF StringAt
  <2> HIDE DEF c
  <2>2. Reads(q, buf, c + k) /\ q.value = s
    BY <1>10, <2>1, TakeReads
  <2> QED
    BY <2>2 DEF c
<1> QED
  BY <1>11

-----------------------------------------------------------------------------
(***************************************************************************)
(* A field of any kind.                                                    *)
(***************************************************************************)

(* The kinds of fields and the types of their values.                      *)
LEMMA FieldTypes ==
  ASSUME NEW f \in Fields
  PROVE  /\ f.kind \in {"value", "data", "string", "string16"}
         /\ f.kind = "value" => f.width \in Widths /\ f.value \in Int
         /\ f.kind \in {"data", "string"} => f.value \in Seq(Byte)
         /\ f.kind = "string16" => f.value \in Seq(Unit)
<1>1. Int32 \subseteq Int
  <2>1. UnknownError \in Int
    BY SMT DEF UnknownError
  <2> QED
    BY <2>1, SMT DEF Int32
<1> QED
  BY <1>1, FieldsAssumption

(* A field that was written stays where it is.                             *)
LEMMA FieldStays ==
  ASSUME NEW f \in Fields, NEW w, IsWriter(w), NEW p, NEW n \in Nat, Grows(w, p, n),
         NEW a \in Nat, NEW b \in Nat, FieldAt(f, w.buffer, a, b)
  PROVE  FieldAt(f, p.buffer, a, b)
<1>1. Len(w.buffer) \in Nat /\ Len(p.buffer) = Len(w.buffer) + n
  BY DEF IsWriter, Grows
<1>2. b <= Len(p.buffer)
  BY <1>1 DEF FieldAt
<1>3. \A c \in Nat, x \in Seq(Byte) : At(w.buffer, c, x) => At(p.buffer, c, x)
  BY DEF Grows
<1>4. \A v \in Int, k \in Widths : LittleEndian(v, k) \in Seq(Byte)
  BY LittleEndianBytes
<1>5. a + 4 \in Nat
  OBVIOUS
<1>6. CASE f.kind = "value"
  <2>1. LittleEndian(f.value, f.width) \in Seq(Byte)
    BY <1>4, <1>6, FieldTypes
  <2> QED
    BY <1>2, <1>3, <1>6, <2>1 DEF FieldAt
<1>7. CASE f.kind = "data"
  <2>1. f.value \in Seq(Byte) /\ Len(f.value) \in Int
    BY <1>7, FieldTypes
  <2>2. LittleEndian(Len(f.value), 4) \in Seq(Byte)
    BY <1>4, <2>1, WidthValues
  <2> QED
    BY <1>2, <1>3, <1>5, <1>7, <2>1, <2>2 DEF FieldAt
<1>8. CASE f.kind = "string16"
  <2>1. f.value \in Seq(Unit) /\ Len(f.value) \in Int
    BY <1>8, FieldTypes
  <2>2. LittleEndian(Len(f.value), 4) \in Seq(Byte) /\ UnitBytes(f.value) \in Seq(Byte)
    BY <1>4, <2>1, UnitBytesIsSeq, WidthValues
  <2> QED
    BY <1>2, <1>3, <1>5, <1>8, <2>2 DEF FieldAt
<1>9. CASE f.kind = "string"
  BY <1>2, <1>9 DEF FieldAt
<1> QED
  BY <1>6, <1>7, <1>8, <1>9, FieldTypes

(* The writer p is w with the field f behind it.                           *)
Adds(w, f, p) ==
  \E n \in Nat : /\ Grows(w, p, n)
                 /\ Agreed(f) => FieldAt(f, p.buffer, Len(w.buffer), Len(w.buffer) + n)

(* An integer.                                                             *)
LEMMA ValueIsAdded ==
  ASSUME NEW f \in Fields, f.kind = "value", NEW w, IsWriter(w),
         NEW p, p = WriteValue(w, f.width, f.value)
  PROVE  Adds(w, f, p)
<1>1. f.width \in Widths /\ f.value \in Int /\ f.width \in Nat
  BY FieldTypes, WidthValues
<1>2. /\ Grows(w, p, f.width)
      /\ At(p.buffer, Len(w.buffer), LittleEndian(f.value, f.width))
  BY <1>1, WriteValuePlaces
<1>3. Len(w.buffer) + f.width <= Len(p.buffer)
  BY <1>1, <1>2 DEF Grows, IsWriter
<1>4. FieldAt(f, p.buffer, Len(w.buffer), Len(w.buffer) + f.width)
  BY <1>2, <1>3 DEF FieldAt
<1> QED
  BY <1>1, <1>2, <1>4 DEF Adds

(* Sized data.                                                             *)
LEMMA DataIsAdded ==
  ASSUME NEW f \in Fields, f.kind = "data", NEW w, IsWriter(w),
         NEW p, p = WriteSizedData(w, f.value, ToWord)
  PROVE  Adds(w, f, p)
<1> DEFINE d == f.value
           k == pad_size(Len(d))
           n == 4 + k
<1>1. d \in Seq(Byte)
  BY FieldTypes
<1>2. Padded(Len(d), ToWord) = k /\ k \in Nat
  BY <1>1, PaddedLen, PaddingValues
<1>3. p = WriteSizedData(w, d, ToWord)
  OBVIOUS
<1> HIDE DEF d
<1>4. /\ Grows(w, p, 4 + Padded(Len(d), ToWord))
      /\ At(p.buffer, Len(w.buffer), LittleEndian(Len(d), 4))
      /\ At(p.buffer, Len(w.buffer) + 4, d)
  BY <1>1, <1>3, PaddingValues, WriteSizedPlaces
<1>5. Grows(w, p, n) /\ n \in Nat
  BY <1>2, <1>4
<1>6. Len(w.buffer) + n <= Len(p.buffer) /\ Len(w.buffer) + n = Len(w.buffer) + 4 + k
  <2> HIDE DEF k
  <2> QED
    BY <1>2, <1>5 DEF Grows, IsWriter
<1> HIDE DEF n, k
<1>7. FieldAt(f, p.buffer, Len(w.buffer), Len(w.buffer) + n)
  BY <1>4, <1>6 DEF FieldAt, d, k
<1> QED
  BY <1>5, <1>7 DEF Adds

(* A string of bytes: both ends do not agree on it.                        *)
LEMMA StringIsAdded ==
  ASSUME NEW f \in Fields, f.kind = "string", NEW w, IsWriter(w),
         NEW p, p = WriteString(w, f.value, ToWord)
  PROVE  Adds(w, f, p)
<1> DEFINE d == Append(f.value, 0)
           n == 4 + Padded(Len(d), ToWord)
<1>1. d \in Seq(Byte)
  <2>1. f.value \in Seq(Byte) /\ 0 \in Byte
    BY FieldTypes DEF Byte
  <2> QED
    BY <2>1
<1>2. p = WriteSizedData(w, d, ToWord)
  BY DEF WriteString
<1> HIDE DEF d
<1>3. Grows(w, p, n)
  BY <1>1, <1>2, PaddingValues, WriteSizedPlaces
<1>4. n \in Nat
  BY <1>1, PaddedLen, PaddingValues
<1>5. ~Agreed(f)
  BY DEF Agreed
<1> HIDE DEF n
<1> QED
  BY <1>3, <1>4, <1>5 DEF Adds

(* A string of units.                                                      *)
LEMMA String16IsAdded ==
  ASSUME NEW f \in Fields, f.kind = "string16", NEW w, IsWriter(w),
         NEW p, p = WriteString16(w, f.value, ToWord)
  PROVE  Adds(w, f, p)
<1>1. f.value \in Seq(Unit)
  BY FieldTypes
<1>2. CASE f.value = << >>
  <2>1. p = WriteValue(w, 4, 0)
    BY <1>2 DEF WriteString16
  <2>2. Grows(w, p, 4)
    BY <2>1, WriteWord
  <2>3. ~Agreed(f)
    BY <1>2 DEF Agreed
  <2> QED
    BY <2>2, <2>3 DEF Adds
<1>3. CASE f.value # << >>
  <2> DEFINE s == f.value
             k == pad_size(2 * (Len(s) + 1))
             n == 4 + k
  <2>1. s \in Seq(Unit) /\ s # << >> /\ p = WriteString16(w, s, ToWord)
    BY <1>1, <1>3
  <2> HIDE DEF s
  <2>2. /\ Grows(w, p, n)
        /\ At(p.buffer, Len(w.buffer), LittleEndian(Len(s), 4))
        /\ At(p.buffer, Len(w.buffer) + 4, UnitBytes(s))
    BY <2>1, WriteString16Places
  <2>3. k \in Nat
    <3>1. 2 * (Len(s) + 1) \in Nat
      BY <2>1
    <3>2. \A j \in Nat : pad_size(j) \in Nat
      BY PaddedSize
    <3> QED
      BY <3>1, <3>2
  <2>4. /\ n \in Nat /\ Len(w.buffer) + n <= Len(p.buffer)
        /\ Len(w.buffer) + n = Len(w.buffer) + 4 + k
    <3> HIDE DEF k
    <3> QED
      BY <2>2, <2>3 DEF Grows, IsWriter
  <2> HIDE DEF n, k
  <2>5. FieldAt(f, p.buffer, Len(w.buffer), Len(w.buffer) + n)
    BY <2>2, <2>4 DEF FieldAt, s, k
  <2> QED
    BY <2>2, <2>4, <2>5 DEF Adds
<1> QED
  BY <1>2, <1>3

(* A field that both ends agree on is read as it was written, and the      *)
(* reader is behind it then.                                               *)
ReadAs(q, f, buf, b) == Reads(q, buf, b) /\ q.value = f.value

(* An integer.                                                             *)
LEMMA ValueIsRead ==
  ASSUME NEW f \in Fields, f.kind = "value", Agreed(f), NEW r, NEW buf \in Seq(Byte),
         NEW a \in Nat, NEW b \in Nat, Reads(r, buf, a), FieldAt(f, buf, a, b),
         NEW q, q = ReadValue(r, f.width)
  PROVE  ReadAs(q, f, buf, b)
<1> DEFINE v == f.value
           k == f.width
<1>1. k \in Widths /\ v \in Byte
  BY FieldTypes DEF Agreed
<1>2. At(buf, a, LittleEndian(v, k)) /\ q = ReadValue(r, k)
  BY DEF FieldAt
<1>3. b = a + k
  BY DEF FieldAt
<1> HIDE DEF v, k
<1>4. Reads(q, buf, a + k) /\ q.value = v
  BY <1>1, <1>2, ReadByteReads
<1> QED
  BY <1>3, <1>4 DEF ReadAs, v

(* Sized data.                                                             *)
LEMMA DataIsRead ==
  ASSUME NEW f \in Fields, f.kind = "data", Agreed(f), NEW r, NEW buf \in Seq(Byte),
         NEW a \in Nat, NEW b \in Nat, Reads(r, buf, a), FieldAt(f, buf, a, b),
         NEW q, q = ReadSizedData(r, ToWord)
  PROVE  ReadAs(q, f, buf, b)
<1> DEFINE d == f.value
           k == pad_size(Len(d))
<1>1. d \in Seq(Byte) /\ SizedAt(d, buf, a, k)
  BY FieldTypes DEF Agreed, FieldAt, SizedAt
<1>2. b = a + 4 + k
  BY DEF FieldAt
<1>3. k = pad_size(Len(d)) /\ k \in Nat
  BY <1>1, PaddedLen, PaddingValues
<1> HIDE DEF d, k
<1>4. Reads(q, buf, a + 4 + k) /\ q.value = d
  BY <1>1, <1>3, ReadPadded
<1> QED
  BY <1>2, <1>4 DEF ReadAs, d

(* A string of units.                                                      *)
LEMMA String16IsRead ==
  ASSUME NEW f \in Fields, f.kind = "string16", Agreed(f), NEW r, NEW buf \in Seq(Byte),
         NEW a \in Nat, NEW b \in Nat, Reads(r, buf, a), FieldAt(f, buf, a, b),
         NEW q, q = ReadString16(r, ToWord)
  PROVE  ReadAs(q, f, buf, b)
<1> DEFINE s == f.value
           k == pad_size(2 * (Len(s) + 1))
<1>1. s \in Seq(Unit) /\ Len(s) \in Byte
  BY FieldTypes DEF Agreed
<1>2. StringAt(s, buf, a, k) /\ b = a + 4 + k
  BY DEF FieldAt, StringAt
<1> HIDE DEF s
<1>3. k \in Nat
  <2>1. 2 * (Len(s) + 1) \in Nat
    BY <1>1
  <2>2. \A j \in Nat : pad_size(j) \in Nat
    BY PaddedSize
  <2> QED
    BY <2>1, <2>2
<1> HIDE DEF k
<1>4. Reads(q, buf, a + 4 + k) /\ q.value = s
  BY <1>1, <1>2, <1>3, ReadString16Reads
<1> QED
  BY <1>2, <1>4 DEF ReadAs, s

-----------------------------------------------------------------------------
(***************************************************************************)
(* The parcel, field by field.                                             *)
(***************************************************************************)

(* A field that is written goes behind the others (WriteField).            *)
LEMMA LayoutGrows ==
  ASSUME NEW fs \in Seq(Fields), NEW f \in Fields, NEW w, IsWriter(w),
         NEW p, Adds(w, f, p), NEW off, LaidOut(fs, w.buffer, off)
  PROVE  \E to : LaidOut(Append(fs, f), p.buffer, to)
<1> DEFINE m == Len(fs)
           gs == Append(fs, f)
           to == [i \in 0 .. m + 1 |-> IF i = m + 1 THEN Len(p.buffer) ELSE off[i]]
<1>1. PICK n \in Nat : /\ Grows(w, p, n)
                       /\ Agreed(f) => FieldAt(f, p.buffer, Len(w.buffer), Len(w.buffer) + n)
  BY DEF Adds
<1>2. /\ m \in Nat /\ Len(w.buffer) \in Nat /\ Len(p.buffer) = Len(w.buffer) + n
      /\ Len(p.buffer) \in Nat
  BY <1>1 DEF IsWriter, Grows
<1>3. /\ Len(gs) = m + 1 /\ gs[m + 1] = f
      /\ \A i \in 1 .. m : gs[i] = fs[i] /\ fs[i] \in Fields
  OBVIOUS
<1>4. /\ off \in [0 .. m -> Nat] /\ off[0] = 0 /\ off[m] = Len(w.buffer)
      /\ \A i \in 1 .. m : Agreed(fs[i]) => FieldAt(fs[i], w.buffer, off[i - 1], off[i])
  BY DEF LaidOut
<1> HIDE DEF m, gs
<1>5. \A i \in 0 .. m : i \in 0 .. m + 1 /\ i # m + 1
  BY <1>2
<1>6. /\ to[m + 1] = Len(p.buffer)
      /\ \A i \in 0 .. m : to[i] = off[i]
  BY <1>2, <1>5
<1>7. to \in [0 .. m + 1 -> Nat] /\ to[0] = 0
  <2>1. \A i \in 0 .. m + 1 : i = m + 1 \/ i \in 0 .. m
    BY <1>2
  <2>2. 0 \in 0 .. m
    BY <1>2
  <2>3. \A i \in 0 .. m + 1 : (IF i = m + 1 THEN Len(p.buffer) ELSE off[i]) \in Nat
    BY <1>2, <1>4, <2>1
  <2>4. to \in [0 .. m + 1 -> Nat]
    BY <2>3
  <2> QED
    BY <1>4, <1>6, <2>2, <2>4
<1> HIDE DEF to
<1>8. ASSUME NEW i \in 1 .. m + 1, Agreed(gs[i])
      PROVE  FieldAt(gs[i], p.buffer, to[i - 1], to[i])
  <2>1. CASE i = m + 1
    <3>1. i - 1 = m /\ m \in 0 .. m
      BY <1>2, <2>1
    <3>2. to[i - 1] = Len(w.buffer) /\ to[i] = Len(w.buffer) + n /\ gs[i] = f
      BY <1>2, <1>3, <1>4, <1>6, <2>1, <3>1
    <3>3. Agreed(f)
      BY <1>8, <3>2
    <3> QED
      BY <1>1, <3>2, <3>3
  <2>2. CASE i # m + 1
    <3>1. i \in 1 .. m /\ i \in 0 .. m /\ i - 1 \in 0 .. m
      BY <1>2, <2>2
    <3>2. gs[i] = fs[i] /\ fs[i] \in Fields
      BY <1>3, <3>1
    <3>3. to[i - 1] = off[i - 1] /\ to[i] = off[i] /\ off[i - 1] \in Nat /\ off[i] \in Nat
      BY <1>4, <1>6, <3>1
    <3>4. Agreed(fs[i])
      BY <1>8, <3>2
    <3>5. FieldAt(fs[i], w.buffer, off[i - 1], off[i])
      BY <1>4, <3>1, <3>4
    <3>6. FieldAt(fs[i], p.buffer, off[i - 1], off[i])
      BY <1>1, <3>2, <3>3, <3>5, FieldStays
    <3> QED
      BY <3>2, <3>3, <3>6
  <2> QED
    BY <2>1, <2>2
<1>9. LaidOut(gs, p.buffer, to)
  BY <1>3, <1>6, <1>7, <1>8 DEF LaidOut
<1> QED
  BY <1>9 DEF gs

-----------------------------------------------------------------------------
(***************************************************************************)
(* What each kind of message carries.                                      *)
(***************************************************************************)

(* Less than a byte is one.                                                *)
LEMMA BelowByte ==
  ASSUME NEW x \in Nat, NEW y \in Byte, x <= y
  PROVE  x \in Byte
  BY DEF Byte

(* The ids of a message are bytes.                                         *)
LEMMA IdsAreBytes ==
  /\ Destination \in Byte /\ Cookie \in Byte /\ Code \in Byte /\ 0 \in Byte
  /\ \A t \in DOMAIN MessageTypes : MessageTypes[t] \in Byte
<1>1. Destination \in Byte /\ Cookie \in Byte /\ Code \in Byte /\ 0 \in Byte
  BY WireAssumption DEF Byte
<1>2. DOMAIN MessageTypes = {"Transaction", "TransactionReply", "Acquire", "Status"}
      /\ MessageTypes["Transaction"] = 1 /\ MessageTypes["TransactionReply"] = 2
      /\ MessageTypes["Acquire"] = 3 /\ MessageTypes["Status"] = 12
  BY DEF MessageTypes
<1>3. 1 \in Byte /\ 2 \in Byte /\ 3 \in Byte /\ 12 \in Byte
  BY DEF Byte
<1> QED
  BY <1>1, <1>2, <1>3

(* A frame is bytes, and the first message in it is the one that was       *)
(* packed, whose length is that of the frame (Pack, MessageParser::Next).  *)
LEMMA FrameIsRead ==
  ASSUME NEW t \in DOMAIN MessageTypes, NEW data \in Seq(Byte),
         NEW F, F = Pack(Message(t, data))
  PROVE  /\ F \in Seq(Byte) /\ Len(F) > 0
         /\ Len(data) \in Byte =>
              /\ ~Unpack(F, 0).failed /\ Unpack(F, 0).used = Len(F)
              /\ Unpack(F, 0).msg = Message(t, data)
<1> DEFINE type == MessageTypes[t]
           m == [type |-> type, destination |-> Destination, cookie |-> Cookie,
                 data |-> data]
<1>1. type \in Byte /\ Destination \in Byte /\ Cookie \in Byte
  BY IdsAreBytes
<1>2. Message(t, data) = m
  BY DEF Message
<1> HIDE DEF type
<1>3. F = Pack(m)
  BY <1>2
<1>4. Framed(F, type, Destination, Cookie, data)
  BY <1>1, <1>3, PackLayout
<1>5. F \in Seq(Byte) /\ Len(F) > 0
  <2>1. pad_size(Len(data)) \in Nat
    BY PaddedLen, PaddingValues
  <2> QED
    BY <1>4, <2>1 DEF Framed
<1>6. ASSUME Len(data) \in Byte
      PROVE  ~Unpack(F, 0).failed /\ Unpack(F, 0).used = Len(F) /\ Unpack(F, 0).msg = m
  BY <1>1, <1>4, <1>6, UnpackLayout
<1> QED
  BY <1>2, <1>5, <1>6

(* A transaction of the parcel: the receiver's copy of the data is the     *)
(* writer's buffer (Transact, TransactionDataFromMessage).                 *)
LEMMA ParcelOpens ==
  ASSUME NEW data \in Seq(Byte), NEW P, P = Parcel(data)
  PROVE  /\ P \in Seq(Byte)
         /\ Len(P) \in Byte => \A m : m.data = P =>
              /\ ~TransactionDataFromMessage(m).failed
              /\ TransactionDataFromMessage(m).data = data
<1> DEFINE td == WritableTransactionData(data)
           inner == TransactionPack(td)
           h == FALSE
           flags == PackedFlags(h)
           zero == 0
<1>1. /\ td.binder = zero /\ td.cookie = zero /\ td.code = Code /\ td.one_way = FALSE
      /\ td.has_status = h /\ h \in BOOLEAN /\ td.data = data /\ td.objects = << >>
  BY DEF WritableTransactionData
<1>2. zero \in Byte /\ Code \in Byte
  BY IdsAreBytes
<1>3. flags \in Byte
  BY DEF PackedFlags, Byte
<1> HIDE DEF td, zero, h
<1>4. Packed(inner, zero, zero, Code, flags, data)
  <2>1. Packed(inner, td.binder, td.cookie, td.code, PackedFlags(td.has_status), td.data)
    BY <1>1, <1>2, TransactionLayout
  <2> QED
    BY <1>1, <2>1
<1>5. P = WriteData(NewWriter, inner, ToWord).buffer
  BY DEF Parcel, td
<1> HIDE DEF inner, flags
<1>6. Packed(P, zero, zero, Code, flags, data)
  BY <1>2, <1>3, <1>4, <1>5, PackedIsPadded
<1>7. P \in Seq(Byte)
  BY <1>6 DEF Packed
<1>8. ASSUME Len(P) \in Byte PROVE Len(data) \in Byte
  <2>1. 28 + Len(data) + 4 <= Len(P)
    BY <1>6, PackedIsLonger
  <2>2. Len(data) \in Nat /\ Len(P) \in Nat /\ Len(data) <= Len(P)
    BY <1>7, <2>1
  <2> QED
    BY <1>8, <2>2, BelowByte
<1>9. ASSUME Len(P) \in Byte, NEW m, m.data = P
      PROVE  /\ ~TransactionDataFromMessage(m).failed
             /\ TransactionDataFromMessage(m).data = data
  <2>1. Len(data) \in Byte
    BY <1>8, <1>9
  <2>2. Packed(m.data, zero, zero, Code, PackedFlags(h), data)
    BY <1>6, <1>9 DEF flags
  <2> QED
    BY <1>1, <1>2, <2>1, <2>2, TransactionUnpack
<1> QED
  BY <1>7, <1>9

(* A reply that is a status: it fits, and the caller finds the mark and    *)
(* the four bytes (TransactionStatus).                                     *)
LEMMA StatusReplyOpens ==
  ASSUME NEW s \in Int, NEW P, P = StatusReply(s)
  PROVE  /\ P \in Seq(Byte) /\ Len(P) \in Byte
         /\ \A m : m.data = P =>
              /\ ~TransactionDataFromMessage(m).failed
              /\ TransactionDataFromMessage(m).has_status
              /\ TransactionDataFromMessage(m).data = LittleEndian(s, 4)
<1> DEFINE td == TransactionStatus(s)
           data == LittleEndian(s, 4)
           inner == TransactionPack(td)
           h == TRUE
           flags == PackedFlags(h)
           zero == 0
           w == WriteData(NewWriter, inner, ToWord)
<1>1. /\ td.binder = zero /\ td.cookie = zero /\ td.code = zero /\ td.one_way = FALSE
      /\ td.has_status = h /\ h \in BOOLEAN /\ td.data = data /\ td.objects = << >>
  BY DEF TransactionStatus
<1>2. zero \in Byte
  BY IdsAreBytes
<1>3. flags \in Byte
  BY DEF PackedFlags, Byte
<1>0. data \in Seq(Byte) /\ Len(data) = 4 /\ Len(data) \in Byte
  <2>1. \A k \in Widths : LittleEndian(s, k) \in Seq(Byte) /\ Len(LittleEndian(s, k)) = k
    BY LittleEndianBytes
  <2>2. 4 \in Byte
    BY DEF Byte
  <2> QED
    BY <2>1, <2>2, WidthValues
<1>4. data \in Seq(Byte) /\ Len(data) \in Byte
  BY <1>0
<1> HIDE DEF td, zero, data, h
<1>5. Packed(inner, zero, zero, zero, flags, data) /\ Len(inner) = 32 + Len(data)
  <2>1. /\ Packed(inner, td.binder, td.cookie, td.code, PackedFlags(td.has_status), td.data)
        /\ Len(inner) = 32 + Len(td.data)
    BY <1>1, <1>2, <1>4, TransactionLayout
  <2> QED
    BY <1>1, <2>1
<1>6. P = w.buffer
  BY DEF StatusReply, td
<1> HIDE DEF inner, flags
<1>7. Packed(P, zero, zero, zero, flags, data)
  BY <1>2, <1>3, <1>4, <1>5, <1>6, PackedIsPadded
<1>8. P \in Seq(Byte) /\ Len(P) \in Byte
  <2>1. inner \in Seq(Byte) /\ Len(inner) = 36
    BY <1>0, <1>5 DEF Packed
  <2>2. Grows(NewWriter, w, Padded(Len(inner), ToWord))
    BY <2>1, NewWriterIsEmpty, PaddingValues, WriteDataPlaces
  <2>3. Padded(Len(inner), ToWord) = 36
    BY <2>1, PaddingValues DEF pad_size
  <2> HIDE DEF w
  <2>4. Len(w.buffer) = 36
    BY <2>2, <2>3, NewWriterIsEmpty DEF Grows
  <2> QED
    BY <1>6, <1>7, <2>4 DEF Packed, Byte
<1>9. ASSUME NEW m, m.data = P
      PROVE  /\ ~TransactionDataFromMessage(m).failed
             /\ TransactionDataFromMessage(m).has_status
             /\ TransactionDataFromMessage(m).data = data
  <2>1. Packed(m.data, zero, zero, zero, PackedFlags(h), data)
    BY <1>7, <1>9 DEF flags
  <2> QED
    <3>1. /\ ~TransactionDataFromMessage(m).failed
          /\ (TransactionDataFromMessage(m).has_status <=> h)
          /\ TransactionDataFromMessage(m).data = data
      BY <1>1, <1>2, <1>4, <2>1, TransactionUnpack
    <3> QED
      BY <3>1 DEF h
<1> QED
  BY <1>8, <1>9 DEF data

(* A word that is read: its lowest byte.                                   *)
LEMMA LowestByte ==
  ASSUME NEW r, NEW P \in Seq(Byte), NEW a \in Nat, Reads(r, P, a), NEW s \in Int
  PROVE  At(P, a, LittleEndian(s, 4)) => ReadValue(r, 4).value = s % 256
<1> DEFINE x == s % 256
<1>1. \A k \in Widths : LittleEndian(s, k)[1] = x
  BY LittleEndianBytes
<1> HIDE DEF x
<1>2. ASSUME NEW k \in Widths, At(P, a, LittleEndian(s, k)), NEW q, q = ReadValue(r, k)
      PROVE  Reads(q, P, a + k) /\ q.value = x
  <2>1. LittleEndian(s, k)[1] = x
    BY <1>1, <1>2
  <2> QED
    BY <1>2, <2>1, ReadValueReads
<1> QED
  BY <1>2, WidthValues DEF x

(* A status message: four bytes, of which the reader takes the lowest.     *)
LEMMA StatusMessage ==
  ASSUME NEW s \in Int, NEW P, P = WriteValue(NewWriter, 4, s).buffer
  PROVE  /\ P \in Seq(Byte) /\ Len(P) \in Byte
         /\ ReadValue(NewReader(P, 0), 4).value = s % 256
<1> DEFINE w == WriteValue(NewWriter, 4, s)
           r == NewReader(P, 0)
<1>1. Grows(NewWriter, w, 4) /\ At(w.buffer, 0, LittleEndian(s, 4))
  BY NewWriterIsEmpty, WriteWord
<1>2. P = w.buffer
  OBVIOUS
<1> HIDE DEF w
<1>3. P \in Seq(Byte) /\ Len(P) = 4
  BY <1>1, <1>2, NewWriterIsEmpty DEF Grows, IsWriter
<1>4. Reads(r, P, 0)
  BY DEF NewReader, Reads
<1> HIDE DEF r
<1>5. ReadValue(r, 4).value = s % 256
  BY <1>1, <1>2, <1>3, <1>4, LowestByte
<1> QED
  BY <1>3, <1>5 DEF Byte, r

-----------------------------------------------------------------------------
(***************************************************************************)
(* Each action keeps the invariant.                                        *)
(***************************************************************************)

(* Nothing is read or taken for a status before the receiver reads, so     *)
(* that what it got is right is trivial then.                              *)
LEMMA NothingGot ==
  /\ got = << >> =>
       FieldsRoundTrip /\ StatusArrivesInPart /\ \E S : got \in Seq(S)
  /\ got' = << >> =>
       FieldsRoundTrip' /\ StatusArrivesInPart' /\ \E S : got' \in Seq(S)
<1>1. got = << >> => FieldsRoundTrip /\ StatusArrivesInPart
  BY DEF FieldsRoundTrip, StatusArrivesInPart
<1>2. got' = << >> => FieldsRoundTrip' /\ StatusArrivesInPart'
  BY DEF FieldsRoundTrip, StatusArrivesInPart
<1>3. << >> \in Seq(Nat)
  OBVIOUS
<1> QED
  BY <1>1, <1>2, <1>3

(* The initial state: nothing is written.                                  *)
LEMMA InitInv ==
  ASSUME Init
  PROVE  WireInv
<1>1. TypeOK
  BY DEF Init, TypeOK, NewWriter, Byte
<1>2. IsWriter(writer) /\ Len(writer.buffer) = 0
  BY NewWriterIsEmpty DEF Init
<1>3. FieldsRoundTrip /\ StatusArrivesInPart /\ \E S : got \in Seq(S)
  BY NothingGot DEF Init
<1>4. IdleInv /\ SentInv
  BY <1>3 DEF IdleInv, SentInv, Init
<1>5. LaidOut(fields, writer.buffer, [i \in 0 .. 0 |-> 0])
  BY <1>2 DEF LaidOut, Init
<1>6. \A off : InStep(off)
  BY DEF InStep, Init
<1> QED
  BY <1>1, <1>2, <1>3, <1>4, <1>5, <1>6 DEF WireInv

(* WriteField: the parcel grows by a field.                                *)
LEMMA WriteFieldInv ==
  ASSUME WireInv, NEW f \in Fields, WriteField(f)
  PROVE  WireInv'
<1>1. /\ parser = "idle" /\ fields' = Append(fields, f)
      /\ UNCHANGED <<status, payload, frame, consumed, messages, parser, reader, got>>
  BY DEF WriteField
<1>2. TypeOK /\ IsWriter(writer) /\ IdleInv
  BY DEF WireInv
<1>3. status = << >> /\ consumed = 0 /\ messages = << >> /\ got = << >>
  BY <1>1, <1>2 DEF IdleInv
<1>4. Adds(writer, f, writer')
  <2>1. CASE f.kind = "value"
    <3>1. writer' = WriteValue(writer, f.width, f.value)
      BY <2>1 DEF WriteField
    <3> QED
      BY <1>2, <2>1, <3>1, ValueIsAdded
  <2>2. CASE f.kind = "data"
    <3>1. writer' = WriteSizedData(writer, f.value, ToWord)
      BY <2>2 DEF WriteField
    <3> QED
      BY <1>2, <2>2, <3>1, DataIsAdded
  <2>3. CASE f.kind = "string"
    <3>1. writer' = WriteString(writer, f.value, ToWord)
      BY <2>3 DEF WriteField
    <3> QED
      BY <1>2, <2>3, <3>1, StringIsAdded
  <2>4. CASE f.kind = "string16"
    <3>1. writer' = WriteString16(writer, f.value, ToWord)
      BY <2>4 DEF WriteField
    <3> QED
      BY <1>2, <2>4, <3>1, String16IsAdded
  <2> QED
    BY <2>1, <2>2, <2>3, <2>4, FieldTypes
<1>5. IsWriter(writer')
  BY <1>4 DEF Adds, Grows
<1>6. TypeOK'
  BY <1>1, <1>2, <1>5 DEF TypeOK, IsWriter
<1>7. FieldsRoundTrip' /\ StatusArrivesInPart' /\ \E S : got' \in Seq(S)
  BY <1>1, <1>3, NothingGot
<1>8. IdleInv' /\ SentInv'
  BY <1>1, <1>3, <1>7 DEF IdleInv, SentInv
<1>9. \E off : LaidOut(fields', writer'.buffer, off)
  <2>1. PICK off : LaidOut(fields, writer.buffer, off)
    BY DEF WireInv
  <2>2. fields \in Seq(Fields)
    BY <1>2 DEF TypeOK
  <2>3. \E to : LaidOut(Append(fields, f), writer'.buffer, to)
    BY <1>2, <1>4, <2>1, <2>2, LayoutGrows
  <2> QED
    BY <1>1, <2>3
<1>10. \A off : InStep(off)'
  BY <1>1 DEF InStep
<1> QED
  BY <1>5, <1>6, <1>7, <1>8, <1>9, <1>10 DEF WireInv

(* Send: the message is packed, whatever it carries.                       *)
LEMMA SendInv ==
  ASSUME WireInv, NEW t \in DOMAIN MessageTypes, NEW data \in Seq(Byte),
         Send(t, data), Carries(t)'
  PROVE  WireInv'
<1>1. /\ parser = "idle" /\ payload' = data /\ parser' = "next"
      /\ frame' = Pack(Message(t, data))
      /\ UNCHANGED <<fields, writer, consumed, messages, reader, got>>
  BY DEF Send
<1>2. TypeOK /\ IsWriter(writer) /\ IdleInv
  BY DEF WireInv
<1>3. consumed = 0 /\ messages = << >> /\ got = << >>
  BY <1>1, <1>2 DEF IdleInv
<1>4. frame' \in Seq(Byte)
  BY <1>1, FrameIsRead
<1>5. TypeOK' /\ IsWriter(writer')
  BY <1>1, <1>2, <1>4 DEF TypeOK
<1>6. FieldsRoundTrip' /\ StatusArrivesInPart' /\ \E S : got' \in Seq(S)
  BY <1>1, <1>3, NothingGot
<1>7. IdleInv'
  <2>1. status' # << >> => fields' = << >>
    BY DEF Carries
  <2> QED
    BY <1>1, <1>3, <1>6, <2>1 DEF IdleInv
<1>8. SentInv'
  <2>1. Parsed(t)'
    BY <1>1, <1>3 DEF Parsed
  <2>2. payload' \in Seq(Byte) /\ frame' = Pack(Message(t, payload'))
    BY <1>1
  <2> QED
    BY <2>1, <2>2 DEF SentInv
<1>9. \E off : LaidOut(fields', writer'.buffer, off)
  BY <1>1 DEF WireInv
<1>10. \A off : InStep(off)'
  BY <1>1 DEF InStep
<1> QED
  BY <1>5, <1>6, <1>7, <1>8, <1>9, <1>10 DEF WireInv

(* A status is an int32_t.                                                 *)
LEMMA StatusIsInt == \A s \in Statuses : s \in Int32 /\ s \in Int
<1>1. UnknownError \in Int
  BY SMT DEF UnknownError
<1>2. Int32 \subseteq Int
  BY <1>1, SMT DEF Int32
<1> QED
  BY <1>2, StatusesAssumption

(* The four kinds of messages.                                             *)
LEMMA SendsInv ==
  ASSUME WireInv
  PROVE  /\ SendFields => WireInv'
         /\ SendTransaction => WireInv'
         /\ \A s \in Statuses : SendStatus(s) \/ SendStatusReply(s) => WireInv'
<1>1. /\ "Acquire" \in DOMAIN MessageTypes /\ "Transaction" \in DOMAIN MessageTypes
      /\ "Status" \in DOMAIN MessageTypes /\ "TransactionReply" \in DOMAIN MessageTypes
  BY DEF MessageTypes
<1>2. writer.buffer \in Seq(Byte)
  BY DEF WireInv, IsWriter
<1>3. IdleInv
  BY DEF WireInv
<1>4. ASSUME SendFields PROVE WireInv'
  <2>1. Send("Acquire", writer.buffer) /\ UNCHANGED status
    BY <1>4 DEF SendFields
  <2>2. Carries("Acquire")'
    BY <1>3, <2>1 DEF Carries, Send, IdleInv
  <2> QED
    BY <1>1, <1>2, <2>1, <2>2, SendInv
<1>5. ASSUME SendTransaction PROVE WireInv'
  <2>1. Send("Transaction", Parcel(writer.buffer)) /\ UNCHANGED status
    BY <1>5 DEF SendTransaction, Parcel
  <2>2. Carries("Transaction")'
    BY <1>3, <2>1 DEF Carries, Send, IdleInv
  <2>3. Parcel(writer.buffer) \in Seq(Byte)
    BY <1>2, ParcelOpens
  <2> QED
    BY <1>1, <2>1, <2>2, <2>3, SendInv
<1>6. ASSUME NEW s \in Statuses, SendStatus(s) \/ SendStatusReply(s) PROVE WireInv'
  <2>1. s \in Int
    BY StatusIsInt
  <2>2. CASE SendStatus(s)
    <3> DEFINE P == WriteValue(NewWriter, 4, s).buffer
    <3>1. Send("Status", P) /\ fields = << >> /\ status' = <<s>>
      BY <2>2 DEF SendStatus
    <3>2. P \in Seq(Byte)
      BY <2>1, StatusMessage
    <3>3. Carries("Status")'
      BY <3>1 DEF Carries, Send
    <3> HIDE DEF P
    <3> QED
      BY <1>1, <3>1, <3>2, <3>3, SendInv
  <2>3. CASE SendStatusReply(s)
    <3>1. Send("TransactionReply", StatusReply(s)) /\ fields = << >> /\ status' = <<s>>
      BY <2>3 DEF SendStatusReply, StatusReply
    <3>2. StatusReply(s) \in Seq(Byte)
      BY <2>1, StatusReplyOpens
    <3>3. Carries("TransactionReply")'
      BY <3>1 DEF Carries, Send
    <3> QED
      BY <1>1, <3>1, <3>2, <3>3, SendInv
  <2> QED
    BY <1>6, <2>2, <2>3
<1> QED
  BY <1>4, <1>5, <1>6

(* MessageParser::Next: while the length fits it takes the one message and *)
(* then finds nothing more.                                                *)
LEMMA NextMessageInv ==
  ASSUME WireInv, NextMessage
  PROVE  WireInv'
<1> DEFINE m == Unpack(frame, consumed)
<1>1. /\ parser = "next"
      /\ UNCHANGED <<fields, status, writer, payload, frame, reader, got>>
  BY DEF NextMessage
<1>2. \/ consumed >= Len(frame) /\ parser' = "done" /\ UNCHANGED <<consumed, messages>>
      \/ /\ ~(consumed >= Len(frame)) /\ m.failed
         /\ parser' = "threw" /\ UNCHANGED <<consumed, messages>>
      \/ /\ ~(consumed >= Len(frame)) /\ ~m.failed
         /\ consumed' = consumed + m.used
         /\ messages' = Append(messages, m.msg) /\ UNCHANGED parser
  BY DEF NextMessage
<1>3. TypeOK /\ IsWriter(writer) /\ IdleInv
  BY DEF WireInv
<1>4. got = << >>
  BY <1>1, <1>3 DEF IdleInv
<1>5. frame \in Seq(Byte) /\ consumed \in Nat /\ m.used \in Nat
  BY <1>3, UnpackCounts DEF TypeOK
<1>6. FieldsRoundTrip' /\ StatusArrivesInPart' /\ \E S : got' \in Seq(S)
  BY <1>1, <1>4, NothingGot
<1>7. PICK t \in DOMAIN MessageTypes :
        /\ Carries(t) /\ payload \in Seq(Byte) /\ frame = Pack(Message(t, payload))
        /\ Fits => Parsed(t)
  BY <1>1 DEF WireInv, SentInv
<1>8. Fits => Parsed(t)'
  <2> SUFFICES ASSUME Fits PROVE Parsed(t)'
    OBVIOUS
  <2>1. Parsed(t) /\ Len(payload) \in Byte
    BY <1>7 DEF Fits
  <2>2. CASE consumed = 0 /\ messages = << >>
    <3>1. /\ Len(frame) > 0 /\ ~Unpack(frame, 0).failed
          /\ Unpack(frame, 0).used = Len(frame)
          /\ Unpack(frame, 0).msg = Message(t, payload)
      BY <1>7, <2>1, FrameIsRead
    <3>2. ~m.failed /\ m.used = Len(frame) /\ m.msg = Message(t, payload)
      BY <2>2, <3>1
    <3> HIDE DEF m
    <3>3. ~(consumed >= Len(frame))
      BY <1>5, <2>2, <3>1
    <3>4. /\ consumed' = Len(frame) /\ parser' = "next"
          /\ messages' = Append(<< >>, Message(t, payload))
      BY <1>1, <1>2, <1>5, <2>2, <3>2, <3>3
    <3>5. Len(messages') = 1 /\ messages'[1] = Message(t, payload)
      BY <3>4
    <3> QED
      BY <1>1, <3>4, <3>5 DEF Parsed
  <2>3. CASE ~(consumed = 0 /\ messages = << >>)
    <3>1. consumed = Len(frame) /\ Len(messages) = 1 /\ messages[1] = Message(t, payload)
      BY <2>1, <2>3 DEF Parsed
    <3> HIDE DEF m
    <3>2. consumed >= Len(frame)
      BY <1>5, <3>1
    <3>3. parser' = "done" /\ UNCHANGED <<consumed, messages>>
      BY <1>2, <3>2
    <3> QED
      BY <1>1, <3>1, <3>3 DEF Parsed
  <2> QED
    BY <2>2, <2>3
<1>9. parser' \in {"next", "threw", "done"}
  <2> HIDE DEF m
  <2> QED
    BY <1>1, <1>2
<1>10. consumed' \in Nat
  <2> HIDE DEF m
  <2> QED
    BY <1>2, <1>5
<1> HIDE DEF m
<1>11. TypeOK' /\ IsWriter(writer')
  BY <1>1, <1>3, <1>9, <1>10 DEF TypeOK
<1>12. IdleInv'
  BY <1>1, <1>3, <1>4, <1>6, <1>9 DEF IdleInv
<1>13. SentInv'
  <2>1. Carries(t)' /\ payload' \in Seq(Byte) /\ frame' = Pack(Message(t, payload'))
    BY <1>1, <1>7 DEF Carries
  <2>2. Fits' => Parsed(t)'
    BY <1>1, <1>8 DEF Fits
  <2> QED
    BY <2>1, <2>2 DEF SentInv
<1>14. \E off : LaidOut(fields', writer'.buffer, off)
  BY <1>1 DEF WireInv
<1>15. \A off : InStep(off)'
  BY <1>9 DEF InStep
<1> QED
  BY <1>6, <1>11, <1>12, <1>13, <1>14, <1>15 DEF WireInv

(* OpenMessage: the receiver has the writer's buffer, from a message of    *)
(* its own or from a transaction, and reads where it begins.               *)
LEMMA OpenMessageInv ==
  ASSUME WireInv, OpenMessage
  PROVE  WireInv'
<1> DEFINE m == Head(messages)
           td == TransactionDataFromMessage(m)
<1>1. /\ parser = "done" /\ messages # << >> /\ fields # << >> /\ parser' = "opened"
      /\ UNCHANGED <<fields, status, writer, payload, frame, consumed, messages, got>>
  BY DEF OpenMessage
<1>2. reader' = IF m.type # MessageTypes["Transaction"] THEN NewReader(m.data, 0)
                ELSE IF td.failed THEN [NewReader(m.data, 0) EXCEPT !.failed = TRUE]
                ELSE NewReader(td.data, 0)
  BY DEF OpenMessage
<1>3. TypeOK /\ IsWriter(writer) /\ IdleInv
  BY DEF WireInv
<1>4. status = << >> /\ got = << >>
  BY <1>1, <1>3 DEF IdleInv
<1>5. PICK t \in DOMAIN MessageTypes :
        /\ Carries(t) /\ payload \in Seq(Byte) /\ frame = Pack(Message(t, payload))
        /\ Fits => Parsed(t)
  BY <1>1 DEF WireInv, SentInv
<1>6. PICK off : LaidOut(fields, writer.buffer, off)
  BY DEF WireInv
<1>7. ASSUME Fits PROVE Reads(reader', writer.buffer, 0)
  <2>1. Len(messages) = 1 /\ messages[1] = Message(t, payload)
    BY <1>1, <1>5, <1>7 DEF Parsed
  <2>2. m = Message(t, payload)
    BY <1>1, <2>1
  <2>3. m.type = MessageTypes[t] /\ m.data = payload
    BY <2>2 DEF Message
  <2>4. Len(payload) \in Byte /\ writer.buffer \in Seq(Byte)
    BY <1>3, <1>7 DEF Fits, IsWriter
  <2> HIDE DEF m
  <2>5. \A buf : Reads(NewReader(buf, 0), buf, 0)
    BY DEF NewReader, Reads
  <2>6. CASE t = "Acquire" /\ payload = writer.buffer
    <3>1. m.type # MessageTypes["Transaction"]
      BY <2>3, <2>6 DEF MessageTypes
    <3>2. reader' = NewReader(writer.buffer, 0)
      BY <1>2, <2>3, <2>6, <3>1
    <3> QED
      BY <2>5, <3>2
  <2>7. CASE t = "Transaction" /\ payload = Parcel(writer.buffer)
    <3>1. m.type = MessageTypes["Transaction"]
      BY <2>3, <2>7
    <3>2. ~td.failed /\ td.data = writer.buffer
      BY <2>3, <2>4, <2>7, ParcelOpens
    <3> HIDE DEF td
    <3>3. reader' = NewReader(writer.buffer, 0)
      BY <1>2, <3>1, <3>2
    <3> QED
      BY <2>5, <3>3
  <2> QED
    BY <1>1, <1>5, <2>6, <2>7 DEF Carries
<1> HIDE DEF m, td
<1>8. TypeOK' /\ IsWriter(writer')
  BY <1>1, <1>3 DEF TypeOK
<1>9. FieldsRoundTrip' /\ StatusArrivesInPart' /\ \E S : got' \in Seq(S)
  BY <1>1, <1>4, NothingGot
<1>10. IdleInv'
  BY <1>1, <1>4, <1>9 DEF IdleInv
<1>11. SentInv'
  <2>1. Carries(t)' /\ payload' \in Seq(Byte) /\ frame' = Pack(Message(t, payload'))
    BY <1>1, <1>5 DEF Carries
  <2>2. Fits' => Parsed(t)'
    BY <1>1, <1>5 DEF Fits, Parsed
  <2> QED
    BY <2>1, <2>2 DEF SentInv
<1>12. LaidOut(fields', writer'.buffer, off) /\ InStep(off)'
  <2>1. Len(got') = 0 /\ off[0] = 0 /\ Len(fields') \in Nat
    BY <1>1, <1>3, <1>4, <1>6 DEF LaidOut, TypeOK
  <2>2. Fits' => Reads(reader', writer'.buffer, off[Len(got')])
    BY <1>1, <1>7, <2>1 DEF Fits
  <2> QED
    BY <1>1, <1>6, <2>1, <2>2 DEF InStep
<1> QED
  BY <1>8, <1>9, <1>10, <1>11, <1>12 DEF WireInv

(* ReadField: an agreed field behind agreed fields is read as it was       *)
(* written, and the next one begins where the reader is then.              *)
LEMMA ReadFieldInv ==
  ASSUME WireInv, ReadField
  PROVE  WireInv'
<1> DEFINE n == Len(got)
           k == n + 1
           f == fields[k]
           x == IF reader'.failed THEN <<"failed">> ELSE <<"value", reader'.value>>
<1>1. /\ parser = "opened" /\ n < Len(fields) /\ got' = Append(got, x)
      /\ UNCHANGED <<fields, status, writer, payload, frame, consumed, messages, parser>>
  BY DEF ReadField
<1>2. TypeOK /\ IsWriter(writer) /\ IdleInv
  BY DEF WireInv
<1>3. status = << >> /\ fields # << >>
  BY <1>1, <1>2 DEF IdleInv
<1>4. PICK S : got \in Seq(S)
  BY <1>2 DEF IdleInv
<1>5. PICK off : LaidOut(fields, writer.buffer, off) /\ InStep(off)
  BY DEF WireInv
<1>6. /\ n \in Nat /\ Len(fields) \in Nat /\ k \in 1 .. Len(fields) /\ f \in Fields
      /\ k - 1 = n /\ n \in 0 .. Len(fields) /\ k \in 0 .. Len(fields)
  <2>1. n \in Nat /\ Len(fields) \in Nat /\ fields \in Seq(Fields)
    BY <1>2, <1>4 DEF TypeOK
  <2>2. k \in 1 .. Len(fields) /\ k - 1 = n /\ n \in 0 .. Len(fields) /\ k \in 0 .. Len(fields)
    <3> HIDE DEF n
    <3> QED
      BY <1>1, <2>1
  <2> HIDE DEF k
  <2> QED
    BY <2>1, <2>2
<1>7. /\ got' \in Seq(S \cup {x}) /\ Len(got') = k /\ DOMAIN got' = 1 .. k
      /\ got'[k] = x /\ DOMAIN got = 1 .. n
      /\ \A i \in 1 .. n : got'[i] = got[i]
  <2> HIDE DEF x
  <2> QED
    BY <1>1, <1>4
<1>8. ASSUME Fits, \A j \in 1 .. k : Agreed(fields[j])
      PROVE  ReadAs(reader', f, writer.buffer, off[k])
  <2>1. Agreed(f)
    <3> HIDE DEF n
    <3> QED
      BY <1>6, <1>8
  <2>2. \A j \in 1 .. n : Agreed(fields[j])
    <3> HIDE DEF n
    <3> QED
      BY <1>6, <1>8
  <2>3. Reads(reader, writer.buffer, off[n])
    BY <1>1, <1>5, <1>8, <2>2 DEF InStep
  <2>4. /\ off[n] \in Nat /\ off[k] \in Nat
        /\ FieldAt(f, writer.buffer, off[n], off[k])
    <3>1. off \in [0 .. Len(fields) -> Nat] /\ FieldAt(f, writer.buffer, off[k - 1], off[k])
      <4> HIDE DEF n, k
      <4> QED
        BY <1>5, <1>6, <2>1 DEF LaidOut
    <3> HIDE DEF n, k
    <3> QED
      BY <1>6, <3>1
  <2>5. writer.buffer \in Seq(Byte) /\ f \in Fields
    BY <1>2, <1>6 DEF IsWriter
  <2>6. reader' = CASE f.kind = "value"    -> ReadValue(reader, f.width)
                    [] f.kind = "data"     -> ReadSizedData(reader, ToWord)
                    [] f.kind = "string"   -> ReadString(reader, ToWord)
                    [] f.kind = "string16" -> ReadString16(reader, ToWord)
    BY DEF ReadField
  <2> DEFINE a == off[n]
             b == off[k]
  <2> HIDE DEF n, k, f, a, b, x
  <2>7. a \in Nat /\ b \in Nat /\ Reads(reader, writer.buffer, a) /\ FieldAt(f, writer.buffer, a, b)
    BY <2>3, <2>4 DEF a, b
  <2>8. CASE f.kind = "value"
    <3>1. reader' = ReadValue(reader, f.width)
      BY <2>6, <2>8
    <3>2. ReadAs(reader', f, writer.buffer, b)
      BY <2>1, <2>5, <2>7, <2>8, <3>1, ValueIsRead
    <3> QED
      BY <3>2 DEF b
  <2>9. CASE f.kind = "data"
    <3>1. reader' = ReadSizedData(reader, ToWord)
      BY <2>6, <2>9
    <3>2. ReadAs(reader', f, writer.buffer, b)
      BY <2>1, <2>5, <2>7, <2>9, <3>1, DataIsRead
    <3> QED
      BY <3>2 DEF b
  <2>10. CASE f.kind = "string16"
    <3>1. reader' = ReadString16(reader, ToWord)
      BY <2>6, <2>10
    <3>2. ReadAs(reader', f, writer.buffer, b)
      BY <2>1, <2>5, <2>7, <2>10, <3>1, String16IsRead
    <3> QED
      BY <3>2 DEF b
  <2>11. f.kind # "string"
    BY <2>1 DEF Agreed
  <2> QED
    BY <2>5, <2>8, <2>9, <2>10, <2>11, FieldTypes
<1>9. ASSUME Fits, \A j \in 1 .. k : Agreed(fields[j])
      PROVE  x = <<"value", fields[k].value>>
  <2>1. ~reader'.failed /\ reader'.value = f.value
    BY <1>8, <1>9 DEF ReadAs, Reads
  <2> QED
    BY <2>1
<1> HIDE DEF x, f
<1>10. FieldsRoundTrip'
  <2> SUFFICES ASSUME Fits, NEW i \in 1 .. k, \A j \in 1 .. i : Agreed(fields[j])
               PROVE  got'[i] = <<"value", fields[i].value>>
    BY <1>1, <1>3, <1>7 DEF FieldsRoundTrip, Fits, AsWritten, Agreed
  <2>1. CASE i = k
    BY <1>7, <1>9, <2>1
  <2>2. CASE i # k
    <3>1. i \in 1 .. n
      <4> HIDE DEF n
      <4> QED
        BY <1>6, <2>2
    <3>2. i \in DOMAIN got /\ got'[i] = got[i]
      BY <1>7, <3>1
    <3>3. got[i] = <<"value", fields[i].value>>
      BY <1>3, <3>2 DEF WireInv, FieldsRoundTrip, AsWritten
    <3> QED
      BY <3>2, <3>3
  <2> QED
    BY <2>1, <2>2
<1>11. LaidOut(fields', writer'.buffer, off) /\ InStep(off)'
  <2>1. Len(got') <= Len(fields')
    <3> HIDE DEF n, k
    <3> QED
      BY <1>1, <1>6, <1>7
  <2>2. ASSUME Fits, \A j \in 1 .. k : Agreed(fields[j])
        PROVE  Reads(reader', writer.buffer, off[k])
    BY <1>8, <2>2 DEF ReadAs
  <2> HIDE DEF k, n
  <2>3. InStep(off)'
    BY <1>1, <1>7, <2>1, <2>2 DEF InStep, Fits, Agreed
  <2> QED
    BY <1>1, <1>5, <2>3
<1> HIDE DEF n, k
<1>12. TypeOK' /\ IsWriter(writer')
  BY <1>1, <1>2 DEF TypeOK
<1>13. IdleInv'
  BY <1>1, <1>2, <1>3, <1>7 DEF IdleInv
<1>14. SentInv'
  BY <1>1 DEF WireInv, SentInv, Carries, Parsed, Fits
<1>15. StatusArrivesInPart'
  BY <1>1, <1>3 DEF StatusArrivesInPart
<1> QED
  BY <1>10, <1>11, <1>12, <1>13, <1>14, <1>15 DEF WireInv

(* ReadStatus: the answer is taken for what was sent.                      *)
LEMMA ReadStatusInv ==
  ASSUME WireInv, ReadStatus
  PROVE  WireInv'
<1> DEFINE m == Head(messages)
           x == Understood(m)
<1>1. /\ status # << >> /\ parser = "done" /\ messages # << >> /\ got' = <<x>>
      /\ UNCHANGED <<fields, status, writer, payload, frame, consumed, messages,
                     parser, reader>>
  BY DEF ReadStatus
<1>2. TypeOK /\ IsWriter(writer) /\ IdleInv
  BY DEF WireInv
<1>3. PICK t \in DOMAIN MessageTypes :
        /\ Carries(t) /\ payload \in Seq(Byte) /\ frame = Pack(Message(t, payload))
        /\ Fits => Parsed(t)
  BY <1>1 DEF WireInv, SentInv
<1>4. PICK s \in Statuses :
        /\ status = <<s>>
        /\ \/ t = "Status" /\ payload = WriteValue(NewWriter, 4, s).buffer
           \/ t = "TransactionReply" /\ payload = StatusReply(s)
  BY <1>1, <1>3 DEF Carries
<1>5. s \in Int /\ s \in Int32
  BY StatusIsInt
<1>6. Fits
  BY <1>4, <1>5, StatusMessage, StatusReplyOpens DEF Fits
<1>7. messages[1] = Message(t, payload) /\ Len(messages) = 1
  BY <1>1, <1>3, <1>6 DEF Parsed
<1>8. /\ m = messages[1] /\ m.type = MessageTypes[t] /\ m.data = payload
      /\ messages[1].type = MessageTypes[t]
  BY <1>1, <1>7 DEF Message
<1>9. /\ MessageTypes["Status"] = 12 /\ MessageTypes["TransactionReply"] = 2
      /\ MessageTypes.Status = 12
  BY DEF MessageTypes
<1>10. ASSUME t = "Status", payload = WriteValue(NewWriter, 4, s).buffer
       PROVE  StatusArrivesInPart'
  <2>1. x = <<"status", s % 256>>
    <3>1. ReadValue(NewReader(payload, 0), 4).value = s % 256
      BY <1>5, <1>10, StatusMessage
    <3> HIDE DEF m
    <3> QED
      BY <1>8, <1>9, <1>10, <3>1 DEF Understood
  <2>2. s % 256 = 0 => s \in {0, UnknownError}
    BY StatusesAssumption
  <2> HIDE DEF m, x
  <2>3. Head(status') = s /\ messages'[1].type = MessageTypes.Status
        /\ got'[1] = <<"status", s % 256>>
    BY <1>1, <1>4, <1>8, <1>9, <1>10, <2>1
  <2> QED
    BY <2>2, <2>3 DEF StatusArrivesInPart
<1>11. ASSUME t = "TransactionReply", payload = StatusReply(s)
       PROVE  StatusArrivesInPart'
  <2> DEFINE td == TransactionDataFromMessage(m)
  <2>1. ~td.failed /\ td.has_status /\ td.data = LittleEndian(s, 4)
    <3> HIDE DEF m
    <3> QED
      BY <1>5, <1>8, <1>11, StatusReplyOpens
  <2>2. GetStatus(td) = s
    BY <1>5, <2>1, Int32Bytes
  <2>3. m.type # MessageTypes.Status
    BY <1>8, <1>9, <1>11
  <2> HIDE DEF m, td
  <2>4. x = <<"status", s>>
    BY <2>1, <2>2, <2>3 DEF Understood, td
  <2> HIDE DEF x
  <2>5. Head(status') = s /\ messages'[1].type # MessageTypes.Status /\ got'[1] = <<"status", s>>
    BY <1>1, <1>4, <1>8, <1>9, <1>11, <2>4
  <2> QED
    BY <2>5 DEF StatusArrivesInPart
<1>12. StatusArrivesInPart'
  BY <1>4, <1>10, <1>11
<1> HIDE DEF m, x
<1>13. TypeOK' /\ IsWriter(writer')
  BY <1>1, <1>2 DEF TypeOK
<1>14. IdleInv'
  <2>1. got' \in Seq({x})
    BY <1>1
  <2> QED
    BY <1>1, <1>2, <2>1 DEF IdleInv
<1>15. SentInv'
  BY <1>1 DEF WireInv, SentInv, Carries, Parsed, Fits
<1>16. \E off : LaidOut(fields', writer'.buffer, off)
  BY <1>1 DEF WireInv
<1>17. \A off : InStep(off)'
  BY <1>1 DEF InStep
<1>18. FieldsRoundTrip'
  BY <1>1 DEF FieldsRoundTrip
<1> QED
  BY <1>12, <1>13, <1>14, <1>15, <1>16, <1>17, <1>18 DEF WireInv

(* A step that changes nothing.                                            *)
LEMMA StutterInv ==
  ASSUME WireInv, UNCHANGED vars
  PROVE  WireInv'
<1>1. /\ fields' = fields /\ status' = status /\ writer' = writer /\ payload' = payload
      /\ frame' = frame /\ consumed' = consumed /\ messages' = messages
      /\ parser' = parser /\ reader' = reader /\ got' = got
  BY DEF vars
<1>2. TypeOK' /\ IsWriter(writer') /\ IdleInv'
  BY <1>1 DEF WireInv, TypeOK, IdleInv
<1>3. SentInv'
  BY <1>1 DEF WireInv, SentInv, Carries, Parsed, Fits
<1>4. PICK off : LaidOut(fields, writer.buffer, off) /\ InStep(off)
  BY DEF WireInv
<1>5. LaidOut(fields', writer'.buffer, off) /\ InStep(off)'
  BY <1>1, <1>4 DEF InStep, Fits
<1>6. FieldsRoundTrip' /\ StatusArrivesInPart'
  BY <1>1 DEF WireInv, FieldsRoundTrip, StatusArrivesInPart, Fits, AsWritten
<1> QED
  BY <1>2, <1>3, <1>5, <1>6 DEF WireInv

-----------------------------------------------------------------------------
(***************************************************************************)
(* What holds of every message.                                            *)
(***************************************************************************)

(* The invariant is inductive: each field stays where the functions of     *)
(* BinaryWriter put it, the frame is the packed message and MessageParser  *)
(* is before or behind it, and the receiver's reader is where the next     *)
(* field begins.                                                           *)
THEOREM WireInvariant == Spec => []WireInv
<1>1. Init => WireInv
  BY InitInv
<1>2. WireInv /\ [Next]_vars => WireInv'
  <2> SUFFICES ASSUME WireInv, [Next]_vars PROVE WireInv'
    OBVIOUS
  <2>1. ASSUME NEW f \in Fields, WriteField(f) PROVE WireInv'
    BY <2>1, WriteFieldInv
  <2>2. CASE SendFields
    BY <2>2, SendsInv
  <2>3. CASE SendTransaction
    BY <2>3, SendsInv
  <2>4. ASSUME NEW s \in Statuses, SendStatus(s) \/ SendStatusReply(s) PROVE WireInv'
    BY <2>4, SendsInv
  <2>5. CASE NextMessage
    BY <2>5, NextMessageInv
  <2>6. CASE OpenMessage
    BY <2>6, OpenMessageInv
  <2>7. CASE ReadField
    BY <2>7, ReadFieldInv
  <2>8. CASE ReadStatus
    BY <2>8, ReadStatusInv
  <2>9. CASE UNCHANGED vars
    BY <2>9, StutterInv
  <2> QED
    BY <2>1, <2>2, <2>3, <2>4, <2>5, <2>6, <2>7, <2>8, <2>9 DEF Next
<1> QED
  BY <1>1, <1>2, PTL DEF Spec

(* What is sent are bytes that BinaryWriter wrote, for any fields: none of *)
(* the memory that ensure_size gets from realloc is left in a frame.       *)
THEOREM SentBytesAreWritten == Spec => []TypeOK
<1>1. WireInv => TypeOK
  BY DEF WireInv
<1> QED
  BY <1>1, WireInvariant, PTL

(* MessageParser::Next returns the one message that Message::Pack put into *)
(* a frame, with its data, cookie and destination, and never throws, while *)
(* the length of the data fits in the byte that is read of it.             *)
THEOREM FramesHoldOneMessage == Spec => []FrameHoldsOneMessage
<1>1. WireInv => FrameHoldsOneMessage
  <2> SUFFICES ASSUME WireInv, Fits, parser # "idle"
               PROVE  /\ parser # "threw"
                      /\ parser \in {"done", "opened"} =>
                           /\ Len(messages) = 1
                           /\ messages[1].data = payload
                           /\ messages[1].cookie = Cookie
                           /\ messages[1].destination = Destination
    BY DEF FrameHoldsOneMessage
  <2>1. PICK t \in DOMAIN MessageTypes : Parsed(t)
    BY DEF WireInv, SentInv
  <2> QED
    BY <2>1 DEF Parsed, Message
<1> QED
  BY <1>1, WireInvariant, PTL

(* A status in a reply arrives whole (TransactionStatus, GetStatus); of a  *)
(* status message the lowest byte does (ReadInt32), which tells OK from    *)
(* every error but UnknownError and is none of the errors themselves.      *)
THEOREM StatusesArriveInPart == Spec => []StatusArrivesInPart
<1>1. WireInv => StatusArrivesInPart
  BY DEF WireInv
<1> QED
  BY <1>1, WireInvariant, PTL

(* Each field is read as it was written, through parcel, transaction,      *)
(* message and frame, while the fields up to it are ones both ends agree   *)
(* on and the length of the message fits in a byte: for integers, data and *)
(* strings of 16-bit units of every length and in every order.             *)
THEOREM FieldsComeBack == Spec => []FieldsRoundTrip
<1>1. WireInv => FieldsRoundTrip
  BY DEF WireInv
<1> QED
  BY <1>1, WireInvariant, PTL
=============================================================================

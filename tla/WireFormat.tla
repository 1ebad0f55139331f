----------------------------- MODULE WireFormat -----------------------------
(***************************************************************************)
(* From the fields an application writes to the bytes of a frame and back: *)
(* BinaryWriter and BinaryReader, the parcel, TransactionData, Message and *)
(* MessageParser.  Bytes are numbers; a writer or a reader is a record and *)
(* each of their functions maps a record to the next one.                  *)
(*                                                                         *)
(* The fields are fixed-width integers (kind "value"), sized data, strings *)
(* of bytes and strings of 16-bit units.                                   *)
(***************************************************************************)
EXTENDS Integers, Sequences

CONSTANTS
  Fields,       \* the fields that may be written
  Statuses,     \* the values of Status that are sent
  Destination, Cookie, Code,  \* of the message and the transaction
  MaxFields     \* bound: fields of a message

Byte == 0 .. 255
Unit == 0 .. 65535   \* a char16_t
Unwritten == -1   \* a byte of memory from realloc

UnknownError == -2147483647 - 1
Int32 == UnknownError .. 2147483647
Widths == {2, 4, 8}   \* in bytes, of the integers

ASSUME WireAssumption ==
  /\ {Destination, Cookie, Code} \subseteq Byte
  /\ MaxFields \in Nat

(* The types the functions of BinaryWriter take; the values of 64 bits are *)
(* numbers that fit in 32.                                                 *)
ASSUME FieldsAssumption ==
  \A f \in Fields :
    \/ f.kind = "value" /\ f.width \in Widths /\ f.value \in Int32
    \/ f.kind \in {"data", "string"} /\ f.value \in Seq(Byte)
    \/ f.kind = "string16" /\ f.value \in Seq(Unit)

(* Status is an int32_t; of its values only OK and UnknownError have 0 as  *)
(* their lowest byte.                                                      *)
ASSUME StatusesAssumption ==
  /\ Statuses \subseteq Int32
  /\ \A s \in Statuses : s % 256 = 0 => s \in {0, UnknownError}

Filled(n, b) == [i \in 1 .. n |-> b]

pad_size(n) == ((n + 3) \div 4) * 4

(* The argument padding of the functions below.                            *)
ToWord == TRUE
Unpadded == FALSE

Padded(n, padding) == IF padding THEN pad_size(n) ELSE n

-----------------------------------------------------------------------------
(***************************************************************************)
(* BinaryWriter: the buffer and how much of it is written.                 *)
(***************************************************************************)
NewWriter == [buffer |-> << >>, current |-> 0]

ensure_size(w, n) ==
  IF Len(w.buffer) - w.current >= n
    THEN w
    ELSE [w EXCEPT !.buffer = @ \o Filled(n, Unwritten)]

Put(w, bytes) ==
  LET g    == ensure_size(w, Len(bytes))
      last == g.current + Len(bytes)
  IN  [buffer  |-> [i \in DOMAIN g.buffer |->
                      IF i \in g.current + 1 .. last
                        THEN bytes[i - g.current] ELSE g.buffer[i]],
       current |-> last]

(* Two's complement, the lowest byte first.                                *)
LittleEndian(v, width) ==
  [i \in 1 .. width |->
     IF i <= 4 THEN (v \div <<1, 256, 65536, 16777216>>[i]) % 256
               ELSE IF v < 0 THEN 255 ELSE 0]

WriteValue(w, width, v) == Put(w, LittleEndian(v, width))

(* A mutant: the padding is left as it is.                                 *)
WriteData_NoMask(w, data, padding) ==
  Put(w, data \o Filled(Padded(Len(data), padding) - Len(data), Unwritten))

(* The bytes up to the next word are cleared.                              *)
WriteData(w, data, padding) ==
  Put(w, data \o Filled(Padded(Len(data), padding) - Len(data), 0))

WriteSizedData(w, data, padding) ==
  WriteData(WriteValue(w, 4, Len(data)), data, padding)

(* WriteString of a std::string: the terminator is counted.                *)
WriteString(w, s, padding) == WriteSizedData(w, Append(s, 0), padding)

UnitBytes(s) == [i \in 1 .. 2 * Len(s) |->
                   IF i % 2 = 1 THEN s[(i + 1) \div 2] % 256 ELSE s[i \div 2] \div 256]

(* A mutant: the terminator is left out.                                   *)
WriteString16_NoTerminator(w, s, padding) ==
  WriteData(WriteValue(w, 4, Len(s)), UnitBytes(s), padding)

(* WriteString of a std::u16string: the terminator is not counted, and not *)
(* written after an empty string.                                          *)
WriteString16(w, s, padding) ==
  LET sized == WriteValue(w, 4, Len(s))
  IN  IF s = << >> THEN sized ELSE WriteData(sized, UnitBytes(Append(s, 0)), padding)

-----------------------------------------------------------------------------
(***************************************************************************)
(* BinaryReader: failed stands for std::out_of_range, value for what the   *)
(* last function returned.                                                 *)
(***************************************************************************)
NewReader(buffer, offset) ==
  [buffer |-> buffer, current |-> offset, value |-> 0, failed |-> FALSE]

Take(r, n, v) ==
  IF r.failed \/ r.current + n > Len(r.buffer)
    THEN [r EXCEPT !.failed = TRUE]
    ELSE [r EXCEPT !.current = @ + n, !.value = v]

View(r, n) == SubSeq(r.buffer, r.current + 1, r.current + n)

(* The width is skipped, one byte is the value.                            *)
ReadValue(r, width) == Take(r, width, r.buffer[r.current + 1])

ReadData(r, n, padding) ==
  IF n = 0 THEN [r EXCEPT !.value = << >>]
           ELSE Take(r, Padded(n, padding), View(r, n))

ReadSizedData(r, padding) ==
  LET s == ReadValue(r, 4) IN IF s.failed THEN s ELSE ReadData(s, s.value, padding)

ReadString(r, padding) ==
  LET s == ReadValue(r, 4)
  IN  IF s.failed THEN s
      ELSE Take(s, Padded(s.value + 1, padding), View(s, s.value))

Units(bytes) ==
  [i \in 1 .. Len(bytes) \div 2 |-> bytes[2 * i - 1] + 256 * bytes[2 * i]]

ReadString16(r, padding) ==
  LET s == ReadValue(r, 4)
  IN  IF s.failed THEN s
      ELSE Take(s, Padded(2 * (s.value + 1), padding), Units(View(s, 2 * s.value)))

-----------------------------------------------------------------------------
(***************************************************************************)
(* TransactionData: never padded inside.                                   *)
(***************************************************************************)
OneWay == 1
HasStatusFlag == 8
AcceptFds == 16

HasFlag(flags, f) == (flags \div f) % 2 = 1

TransactionPack(td) ==
  LET ids   == WriteValue(WriteValue(NewWriter, 8, td.binder), 8, td.cookie)
      flags == AcceptFds + (IF td.one_way THEN OneWay ELSE 0)
                         + (IF td.has_status THEN HasStatusFlag ELSE 0)
      head  == WriteValue(WriteValue(ids, 4, td.code), 4, flags)
  IN  WriteSizedData(WriteSizedData(head, td.data, Unpadded), td.objects, Unpadded).buffer

(* A mutant: the status is not marked as one.                              *)
TransactionStatus_NoFlag(status) ==
  [binder |-> 0, cookie |-> 0, code |-> 0, one_way |-> FALSE, has_status |-> FALSE,
   data |-> LittleEndian(status, 4), objects |-> << >>]

TransactionStatus(status) ==
  [binder |-> 0, cookie |-> 0, code |-> 0, one_way |-> FALSE, has_status |-> TRUE,
   data |-> LittleEndian(status, 4), objects |-> << >>]

(* WritableTransactionData, as the parcel writer's Finalize leaves it.     *)
WritableTransactionData(data) ==
  [binder |-> 0, cookie |-> 0, code |-> Code, one_way |-> FALSE,
   has_status |-> FALSE, data |-> data, objects |-> << >>]

(* TransactionDataFromMessage; its constructor may throw.                  *)
TransactionDataFromMessage(m) ==
  LET binder  == ReadValue(NewReader(m.data, 0), 8)
      cookie  == ReadValue(binder, 8)
      code    == ReadValue(cookie, 4)
      flags   == ReadValue(code, 4)
      data    == ReadSizedData(flags, Unpadded)
      objects == ReadSizedData(data, Unpadded)
  IN  IF objects.failed
        THEN [failed |-> TRUE]
        ELSE [failed |-> FALSE, binder |-> binder.value, cookie |-> cookie.value,
              code |-> code.value, one_way |-> HasFlag(flags.value, OneWay),
              has_status |-> HasFlag(flags.value, HasStatusFlag),
              data |-> data.value, objects |-> objects.value]

(* GetStatus of the variants: all four bytes of the data.                  *)
GetStatus(td) ==
  LET high == td.data[4]
      top  == IF high > 127 THEN high - 256 ELSE high
  IN  td.data[1] + 256 * td.data[2] + 65536 * td.data[3] + 16777216 * top

-----------------------------------------------------------------------------
(***************************************************************************)
(* Message and MessageParser: padded.                                      *)
(***************************************************************************)
MessageTypes ==
  [Transaction |-> 1, TransactionReply |-> 2, Acquire |-> 3, Status |-> 12]

Message(type, data) ==
  [type |-> MessageTypes[type], destination |-> Destination, cookie |-> Cookie,
   data |-> data]

(* A mutant: the cookie before the destination.                            *)
Pack_Swapped(m) ==
  LET type == WriteValue(NewWriter, 4, m.type)
      ids  == WriteValue(WriteValue(type, 8, m.cookie), 8, m.destination)
  IN  WriteSizedData(ids, m.data, ToWord).buffer

Pack(m) ==
  LET type == WriteValue(NewWriter, 4, m.type)
      ids  == WriteValue(WriteValue(type, 8, m.destination), 8, m.cookie)
  IN  WriteSizedData(ids, m.data, ToWord).buffer

(* used counts from the begin of the buffer (GetBytesRead).                *)
Unpack(buffer, offset) ==
  LET type        == ReadValue(NewReader(buffer, offset), 4)
      destination == ReadValue(type, 8)
      cookie      == ReadValue(destination, 8)
      data        == ReadSizedData(cookie, ToWord)
  IN  [failed |-> data.failed, used |-> data.current,
       msg |-> [type |-> type.value, destination |-> destination.value,
                cookie |-> cookie.value, data |-> data.value]]

-----------------------------------------------------------------------------
VARIABLES
  fields,     \* history: the fields written
  status,     \* history: the status that was sent, <<s>>, or << >>
  writer,     \* data_writer_ of the parcel, or the writer of the message
  payload,    \* history: the data of the message that was sent
  frame,      \* the bytes that were sent
  consumed,   \* of the MessageParser
  messages,   \* what Next returned so far
  parser,     \* whether Next may be called, threw or is done, or the first
              \* message is opened
  reader,     \* the reader of the fields, once there is one
  got         \* history: what the receiver read, field by field

vars == <<fields, status, writer, payload, frame, consumed, messages, parser,
          reader, got>>

(***************************************************************************)
(* The types of the variables.  What is sent are bytes somebody wrote      *)
(* (WriteData): nothing that realloc left in the buffer.                   *)
(***************************************************************************)
TypeOK ==
  /\ fields \in Seq(Fields)
  /\ frame \in Seq(Byte)
  /\ consumed \in Nat
  /\ parser \in {"idle", "next", "threw", "done", "opened"}
  /\ writer.current = Len(writer.buffer)

Init ==
  /\ fields = << >> /\ status = << >> /\ writer = NewWriter
  /\ payload = << >> /\ frame = << >>
  /\ consumed = 0 /\ messages = << >> /\ parser = "idle"
  /\ reader = NewReader(<< >>, 0) /\ got = << >>

(* One of the functions of the parcel writer or of BinaryWriter.           *)
WriteField(f) ==
  /\ parser = "idle" /\ Len(fields) < MaxFields
  /\ fields' = Append(fields, f)
  /\ writer' = CASE f.kind = "value"    -> WriteValue(writer, f.width, f.value)
                 [] f.kind = "data"     -> WriteSizedData(writer, f.value, ToWord)
                 [] f.kind = "string"   -> WriteString(writer, f.value, ToWord)
                 [] f.kind = "string16" -> WriteString16(writer, f.value, ToWord)
  /\ UNCHANGED <<status, payload, frame, consumed, messages, parser, reader, got>>

Send(type, data) ==
  /\ parser = "idle"
  /\ payload' = data
  /\ frame' = Pack(Message(type, data))
  /\ parser' = "next"
  /\ UNCHANGED <<fields, writer, consumed, messages, reader, got>>

(* The message's own writer, as AddReference uses it.                      *)
SendFields == Send("Acquire", writer.buffer) /\ UNCHANGED status

(* Transact of ClientImpl: the packed transaction is the data.             *)
SendTransaction ==
  /\ Send("Transaction",
          WriteData(NewWriter, TransactionPack(WritableTransactionData(writer.buffer)),
                    ToWord).buffer)
  /\ UNCHANGED status

(* SendStatus.                                                             *)
SendStatus(s) ==
  /\ fields = << >>
  /\ Send("Status", WriteValue(NewWriter, 4, s).buffer)
  /\ status' = <<s>>

(* A reply that is a status (ProcessAndExecuteCommand).                    *)
SendStatusReply(s) ==
  /\ fields = << >>
  /\ Send("TransactionReply",
          WriteData(NewWriter, TransactionPack(TransactionStatus(s)), ToWord).buffer)
  /\ status' = <<s>>

(* MessageParser::Next, called until it returns nothing.                   *)
NextMessage ==
  /\ parser = "next"
  /\ LET m == Unpack(frame, consumed)
     IN  IF consumed >= Len(frame)
           THEN parser' = "done" /\ UNCHANGED <<consumed, messages>>
           ELSE IF m.failed
           THEN parser' = "threw" /\ UNCHANGED <<consumed, messages>>
           ELSE /\ consumed' = consumed + m.used
                /\ messages' = Append(messages, m.msg)
                /\ UNCHANGED parser
  /\ UNCHANGED <<fields, status, writer, payload, frame, reader, got>>

(* The receiver opens the first message.                                   *)
OpenMessage ==
  /\ parser = "done" /\ messages # << >> /\ fields # << >>
  /\ parser' = "opened"
  /\ LET m  == Head(messages)
         td == TransactionDataFromMessage(m)
     IN  reader' = IF m.type # MessageTypes.Transaction THEN NewReader(m.data, 0)
                   ELSE IF td.failed THEN [NewReader(m.data, 0) EXCEPT !.failed = TRUE]
                   ELSE NewReader(td.data, 0)
  /\ UNCHANGED <<fields, status, writer, payload, frame, consumed, messages, got>>

(* The receiver reads the fields in the order they were written.           *)
ReadField ==
  /\ parser = "opened" /\ ~reader.failed /\ Len(got) < Len(fields)
  /\ LET f == fields[Len(got) + 1]
     IN  reader' = CASE f.kind = "value"    -> ReadValue(reader, f.width)
                     [] f.kind = "data"     -> ReadSizedData(reader, ToWord)
                     [] f.kind = "string"   -> ReadString(reader, ToWord)
                     [] f.kind = "string16" -> ReadString16(reader, ToWord)
  /\ got' = Append(got, IF reader'.failed THEN <<"failed">> ELSE <<"value", reader'.value>>)
  /\ UNCHANGED <<fields, status, writer, payload, frame, consumed, messages, parser>>

(***************************************************************************)
(* What the caller takes an answer for: OnNewMessage and the call wrappers *)
(* read a status message, Transact the status of a reply.                  *)
(***************************************************************************)
Understood(m) ==
  IF m.type = MessageTypes.Status
    THEN <<"status", ReadValue(NewReader(m.data, 0), 4).value>>
    ELSE LET td == TransactionDataFromMessage(m)
         IN  IF td.failed THEN <<"failed">>
             ELSE IF td.has_status THEN <<"status", GetStatus(td)>>
             ELSE <<"reply">>

ReadStatus ==
  /\ status # << >> /\ parser = "done" /\ got = << >> /\ messages # << >>
  /\ got' = <<Understood(Head(messages))>>
  /\ UNCHANGED <<fields, status, writer, payload, frame, consumed, messages,
                 parser, reader>>

Next ==
  \/ \E f \in Fields : WriteField(f)
  \/ SendFields \/ SendTransaction
  \/ \E s \in Statuses : SendStatus(s) \/ SendStatusReply(s)
  \/ NextMessage \/ OpenMessage \/ ReadField \/ ReadStatus

Spec == Init /\ [][Next]_vars

-----------------------------------------------------------------------------
(***************************************************************************)
(* The fields both ends agree on: an integer is one byte, a length too,    *)
(* the terminator of a string is counted by one end only (WriteString,     *)
(* ReadString), an empty u16string is written without the terminator that  *)
(* ReadString16 skips.                                                     *)
(***************************************************************************)
Agreed(f) ==
  CASE f.kind = "value"    -> f.value \in Byte
    [] f.kind = "data"     -> Len(f.value) \in Byte
    [] f.kind = "string"   -> FALSE
    [] f.kind = "string16" -> f.value # << >> /\ Len(f.value) \in Byte

Fits == Len(payload) \in Byte

AsWritten(i) == got[i] = <<"value", fields[i].value>>

(***************************************************************************)
(* Through parcel, transaction, message and frame and back, each field is  *)
(* read as it was written, while the fields up to it are agreed on and the *)
(* message's length fits the one byte that is read of it.                  *)
(***************************************************************************)
FieldsRoundTrip ==
  (Fits /\ status = << >>) =>
    \A i \in DOMAIN got : (\A j \in 1 .. i : Agreed(fields[j])) => AsWritten(i)

(***************************************************************************)
(* A frame holds one message (Pack, MessageParser::Next): the parser       *)
(* returns the message that was sent and nothing else, whatever its        *)
(* padding, while its length fits.                                         *)
(***************************************************************************)
FrameHoldsOneMessage ==
  Fits =>
    /\ parser # "threw"
    /\ parser \in {"done", "opened"} =>
         /\ Len(messages) = 1
         /\ messages[1].data = payload
         /\ messages[1].cookie = Cookie /\ messages[1].destination = Destination

(***************************************************************************)
(* A status in a reply arrives whole (TransactionStatus, GetStatus).  Of a *)
(* status message the caller gets the lowest byte (OnNewMessage and the    *)
(* wrappers around a call, ReadInt32): 239 for AlreadyExists, so never the *)
(* error that the integration tests compare it with.  It is enough to tell *)
(* OK from every error but UnknownError.                                   *)
(***************************************************************************)
StatusArrivesInPart ==
  (status # << >> /\ got # << >>) =>
    LET s == Head(status)
    IN  IF messages[1].type = MessageTypes.Status
          THEN /\ got[1] = <<"status", s % 256>>
               /\ got[1][2] = 0 => s \in {0, UnknownError}
          ELSE got[1] = <<"status", s>>
=============================================================================

-------------------------------- MODULE Codec --------------------------------
(***************************************************************************)
(* The way of a channel from the brain to the browser and back: its schema *)
(* written into a broadcast, validated, decoded into a Part; then values   *)
(* written into a data message, read into that Part, shown by the JSON     *)
(* visitors, and set by ResponseJSONVisitor to what the browser submits;   *)
(* at last the answers of the board, the acknowledgement of the broadcast  *)
(* and the response the brain asks for.  The brain has the same library,   *)
(* so both the writers and the readers are this repository's; cJSON is     *)
(* external.                                                               *)
(*                                                                         *)
(* A number is its bytes (write_number and get_number copy memory); a      *)
(* string is a sequence of non-zero bytes.  A Part is a record with its    *)
(* type, its name and, for a Record, its fields.  The values of a Part are *)
(* the values of its leaves in the order in which every traversal meets    *)
(* them.                                                                   *)
(***************************************************************************)
EXTENDS Crc32, FiniteSets

CONSTANTS Parts,      \* the Parts a brain may register, those that nest d deep at place d
          Strings,    \* the values of its strings
          ByteValues, \* the bytes of its numbers
          ChannelId,
          WideBytes,  \* sizeof(uint64_t): 8 in the code, less for TLC's integers
          Entered,    \* the integers a browser submits
          QueueSizes, \* how many responses are queued when the brain asks
          JsonIntMax  \* the largest valueint of cJSON: 2^31 - 1 in the code

VARIABLES pc, schema, values,  \* what the brain writes
          packet, damaged,     \* what is on its way, and whether the line changed it
          read_head,           \* PacketReader
          stack,               \* Record constructors under way, innermost last
          part, held,          \* the listener's Part and the values of its leaves
          shown,               \* what the browser is told: description and data
          submitted,           \* what it sends back, a JSON item for each leaf
          sent                 \* the last packet the board sent to the brain

vars == <<pc, schema, values, packet, damaged, read_head, stack, part, held, shown,
          submitted, sent>>

-----------------------------------------------------------------------------
(* Parts *)

TypeCode == [Record |-> 0, String |-> 1, Double |-> 2, Float |-> 3, Boolean |-> 4,
             Uint8 |-> 5, Uint16 |-> 6, Uint32 |-> 7, Uint64 |-> 8,
             Int8 |-> 9, Int16 |-> 10, Int32 |-> 11, Int64 |-> 12]
Width == [Boolean |-> 1, Uint8 |-> 1, Uint16 |-> 2, Uint32 |-> 4, Uint64 |-> 8,
          Int8 |-> 1, Int16 |-> 2, Int32 |-> 4, Int64 |-> 8, Float |-> 4, Double |-> 8]

Text == Seq(1..255)
Leaf == [type : DOMAIN TypeCode \ {"Record"}, name : Text]
Nested(d) == UNION {Parts[e] : e \in 1..d}
Part == Nested(Len(Parts))

\* The number of fields is written as a uint32_t.
IsUint32(n) == n \div 16777216 < 256

ASSUME PartsAssumption ==
  /\ Len(Parts) \in Nat /\ DOMAIN Parts = 1..Len(Parts)
  /\ \A d \in DOMAIN Parts : \A p \in Parts[d] :
       \/ p \in Leaf
       \/ /\ p \in [type : {"Record"}, name : Text, fields : Seq(Nested(d - 1))]
          /\ IsUint32(Len(p.fields))

ASSUME ValuesAssumption ==
  /\ Strings \subseteq Text /\ ByteValues \subseteq 0..255 /\ ChannelId \in 0..255
  /\ Entered \subseteq Int /\ QueueSizes \subseteq Nat /\ JsonIntMax \in Nat

-----------------------------------------------------------------------------
(* PacketWriter *)

PacketType     == [Broadcast |-> 0, Data |-> 128]
PacketFunction == [Send |-> 0, Acknowledge |-> 32, Response |-> 64, Request |-> 96]

\* make_header_byte: the two have no bit in common.
make_header_byte(type, func) == PacketType[type] + PacketFunction[func]

write_number(n) == <<n % 256, (n \div 256) % 256, (n \div 65536) % 256, n \div 16777216>>

write_string(s) == Append(s, 0)

write_schema[p \in Part] ==
  <<TypeCode[p.type]>> \o write_string(p.name) \o
    (IF p.type = "Record"
     THEN write_number(Len(p.fields))
            \o FlattenSeq([i \in DOMAIN p.fields |-> write_schema[p.fields[i]]])
     ELSE <<>>)

\* The order in which Record visits, writes and reads what it contains.
Leaves[p \in Part] ==
  IF p.type = "Record" THEN FlattenSeq([i \in DOMAIN p.fields |-> Leaves[p.fields[i]]])
                       ELSE <<p>>

write_leaf(t, value) == IF t = "String" THEN write_string(value) ELSE value
write_message(p, v) ==
  FlattenSeq([i \in DOMAIN Leaves[p] |-> write_leaf(Leaves[p][i].type, v[i])])

ChecksumBytes(data) ==
  LET crc == calculate(data) IN [k \in 1..4 |-> crc[2 * k - 1] + 16 * crc[2 * k]]

WithChecksum(data) == data \o ChecksumBytes(data)

write_channel_broadcast(p) ==
  WithChecksum(<<make_header_byte("Broadcast", "Send"), ChannelId>> \o write_schema[p])

write_data_message(p, v) ==
  WithChecksum(<<make_header_byte("Data", "Send"), ChannelId>> \o write_message(p, v))

write_channel_acknowledge ==
  WithChecksum(<<make_header_byte("Broadcast", "Acknowledge"), ChannelId>>)

write_request == WithChecksum(<<make_header_byte("Broadcast", "Request")>>)

\* set_data puts the channel's Part into the record it submits once for itself and
\* once for each item of the frame's "data", which has one for a record's object.
Copies(p) == IF p.type = "Record" THEN 2 ELSE 1

\* The number of queued responses is one byte.  (Slip: the channel comes first.)
ResponseHeadSwapped(queued) == <<make_header_byte("Data", "Response"), ChannelId, queued % 256>>
ResponseHead(queued)        == <<make_header_byte("Data", "Response"), queued % 256, ChannelId>>
write_response(p, v, queued) ==
  WithChecksum(ResponseHead(queued) \o FlattenSeq([k \in 1..Copies(p) |-> write_message(p, v)]))

-----------------------------------------------------------------------------
(* PacketReader and validate_packet *)

Size == Len(packet)
ByteAt(pac, head) == pac[head + 1]

\* get_string reads up to a zero and has no check for the packet's end.
HasString(pac, head) == \E k \in head..(Len(pac) - 1) : ByteAt(pac, k) = 0
StringEnd(pac, head) == CHOOSE k \in head..(Len(pac) - 1) :
                          ByteAt(pac, k) = 0 /\ \A j \in head..(k - 1) : ByteAt(pac, j) # 0
StringAt(pac, head)  == SubSeq(pac, head + 1, StringEnd(pac, head))

\* (Slip: the zero is left for the next read.)
AtTerminator(pac, head)   == StringEnd(pac, head)
PastTerminator(pac, head) == StringEnd(pac, head) + 1

\* A field count is a uint32_t; one that would end past the packet is 0 and moves
\* nothing.
CountWidth == 4
CountFits(head) == head + CountWidth <= Size
CountAt(head)   == IF CountFits(head)
                   THEN ByteAt(packet, head) + 256 * ByteAt(packet, head + 1)
                        + 65536 * ByteAt(packet, head + 2) + 16777216 * ByteAt(packet, head + 3)
                   ELSE 0
PastCount(head) == IF CountFits(head) THEN head + CountWidth ELSE head

\* read_data_from_message of a leaf: its value, and where the reader is then.  A
\* number that would end past the packet is 0 and moves nothing; a string and a bool
\* have no such check.
RunsOut(pac, head, t) == \/ t = "String" /\ ~HasString(pac, head)
                         \/ t = "Boolean" /\ head >= Len(pac)
GetLeaf(pac, head, t) ==
  IF t = "String"
  THEN [value |-> StringAt(pac, head), head |-> PastTerminator(pac, head)]
  ELSE IF head + Width[t] <= Len(pac)
  THEN [value |-> SubSeq(pac, head + 1, head + Width[t]), head |-> head + Width[t]]
  ELSE [value |-> [k \in 1..Width[t] |-> 0], head |-> head]

validate_packet(pac) ==
  LET size == Len(pac) IN
  IF size < 5 THEN "TooSmall"
  ELSE IF SubSeq(pac, size - 3, size) = ChecksumBytes(SubSeq(pac, 1, size - 4))
  THEN "Ok" ELSE "BadChecksum"

\* decode_header_byte with its two masks.
HeaderType(hb) == (hb \div 128) * 128
HeaderFunc(hb) == ((hb % 128) \div 32) * 32

-----------------------------------------------------------------------------
NoPart == [type |-> "null"]

Init ==
  /\ pc = "idle" /\ schema \in Part /\ values = <<>>
  /\ packet = <<>> /\ damaged = FALSE /\ read_head = 0 /\ stack = <<>>
  /\ part = NoPart /\ held = <<>> /\ shown = <<>> /\ submitted = <<>> /\ sent = <<>>

WriteBroadcast ==
  /\ pc = "idle" /\ pc' = "arrives"
  /\ packet' = write_channel_broadcast(schema)
  /\ UNCHANGED <<schema, values, damaged, read_head, stack, part, held, shown, submitted, sent>>

\* A bool is written as the byte 0 or 1.
ValuesOf(leaf) ==
  CASE leaf.type = "String" -> Strings
    [] leaf.type = "Boolean" -> {<<0>>, <<1>>}
    [] OTHER -> [1..Width[leaf.type] -> ByteValues]
WriteData ==
  /\ pc = "acknowledged" /\ pc' = "arrives"
  /\ LET ls == Leaves[schema] IN
       \E v \in [DOMAIN ls -> UNION {ValuesOf(ls[i]) : i \in DOMAIN ls}] :
         /\ \A i \in DOMAIN ls : v[i] \in ValuesOf(ls[i])
         /\ values' = v
         /\ packet' = write_data_message(schema, v)
  /\ UNCHANGED <<schema, damaged, read_head, stack, part, held, shown, submitted, sent>>

\* The line: a burst of wrong bits of up to two bytes, or a lost tail.
Flip(byte, mask) == Xor[byte % 16][mask % 16] + 16 * Xor[byte \div 16][mask \div 16]
Burst(at, mask)  == [k \in DOMAIN packet |->
                       IF k = at \/ (k = at + 1 /\ mask > 127) THEN Flip(packet[k], mask)
                       ELSE packet[k]]
Damage ==
  /\ pc = "arrives" /\ ~damaged
  /\ damaged' = TRUE
  /\ \E k \in DOMAIN packet :
       \/ \E mask \in {1, 16, 128, 255} : packet' = Burst(k, mask)
       \/ packet' = SubSeq(packet, 1, k - 1)
  /\ UNCHANGED <<pc, schema, values, read_head, stack, part, held, shown, submitted, sent>>

-----------------------------------------------------------------------------
(* take_packet *)

Branch(hb) ==
  IF HeaderFunc(hb) = PacketFunction["Request"] THEN "request"
  ELSE IF HeaderFunc(hb) # PacketFunction["Send"] THEN "ignored"
  ELSE IF HeaderType(hb) = PacketType["Data"] THEN "message" ELSE "schema"

\* decode_broadcast reads the header and the id away.
SchemaStart == 2

\* PacketReader reader{pac, 2}.  (Slip: at the channel id.)
DataStartAtId == 1
DataStart     == 2

TakePacket ==
  /\ pc = "arrives"
  /\ IF validate_packet(packet) = "Ok"
     THEN /\ pc' = Branch(packet[1])
          /\ read_head' = CASE pc' = "message" -> DataStart
                             [] pc' = "schema" -> SchemaStart
                             [] OTHER -> read_head
     ELSE pc' = "refused" /\ UNCHANGED read_head
  /\ UNCHANGED <<schema, values, packet, damaged, stack, part, held, shown, submitted, sent>>

\* A decoded Part goes into the Record under construction or is the channel's.
Place(p, records) ==
  IF records = <<>>
  THEN part' = p /\ stack' = <<>> /\ pc' = "stored"
  ELSE /\ stack' = [records EXCEPT ![Len(records)].fields = Append(@, p),
                                   ![Len(records)].left = @ - 1]
       /\ UNCHANGED <<part, pc>>

\* (Slip: the loop over the fields ends before the last one.)
RecordShort    == stack # <<>> /\ Last(stack).left <= 1
RecordComplete == stack # <<>> /\ Last(stack).left = 0

\* make_decoder: type and name, and for a Record the number of its fields.
DecodePart ==
  /\ pc = "schema" /\ ~RecordComplete
  /\ IF read_head < Size /\ HasString(packet, read_head + 1)
     THEN LET name == StringAt(packet, read_head + 1)
              rest == PastTerminator(packet, read_head + 1)
              types == {t \in DOMAIN TypeCode : TypeCode[t] = ByteAt(packet, read_head)}
          IN IF types = {}
             THEN read_head' = rest /\ Place(NoPart, stack)
             ELSE LET t == CHOOSE t \in types : TRUE IN
                  IF t = "Record"
                  THEN /\ stack' = Append(stack, [name |-> name, left |-> CountAt(rest), fields |-> <<>>])
                       /\ read_head' = PastCount(rest)
                       /\ UNCHANGED <<part, pc>>
                  ELSE read_head' = rest /\ Place([type |-> t, name |-> name], stack)
     ELSE pc' = "outside" /\ UNCHANGED <<read_head, stack, part>>
  /\ UNCHANGED <<schema, values, packet, damaged, held, shown, submitted, sent>>

\* The Record constructor returns when it has all its fields.
CloseRecord ==
  /\ pc = "schema" /\ RecordComplete
  /\ Place([type |-> "Record", name |-> Last(stack).name, fields |-> Last(stack).fields],
           Front(stack))
  /\ UNCHANGED <<schema, values, packet, damaged, read_head, held, shown, submitted, sent>>

\* write_channel_acknowledge, once the channel is stored.
Acknowledge ==
  /\ pc = "stored" /\ pc' = "acknowledged"
  /\ sent' = write_channel_acknowledge
  /\ UNCHANGED <<schema, values, packet, damaged, read_head, stack, part, held, shown, submitted>>

\* read_data_from_message of the next leaf.
ReadLeaf ==
  /\ pc = "message" /\ Len(held) < Len(Leaves[part])
  /\ LET t == Leaves[part][Len(held) + 1].type IN
     IF RunsOut(packet, read_head, t)
     THEN pc' = "outside" /\ UNCHANGED <<held, read_head>>
     ELSE /\ held' = Append(held, GetLeaf(packet, read_head, t).value)
          /\ read_head' = GetLeaf(packet, read_head, t).head
          /\ UNCHANGED pc
  /\ UNCHANGED <<schema, values, packet, damaged, stack, part, shown, submitted, sent>>

-----------------------------------------------------------------------------
(* UpcastNumbersVisitor *)

UnsignedTypes == {"Uint8", "Uint16", "Uint32", "Uint64"}
SignedTypes   == {"Int8", "Int16", "Int32", "Int64"}
\* 256 to the n.
Power[n \in 0..8] == IF n = 0 THEN 1 ELSE 256 * Power[n - 1]
Wide == Power[WideBytes]

\* The lowest byte comes first.
Unsigned(bytes) ==
  LET low[k \in 0..Len(bytes)] == IF k = 0 THEN 0 ELSE low[k - 1] + Power[k - 1] * bytes[k]
  IN low[Len(bytes)]
Signed(bytes) == LET n == Unsigned(bytes) IN
                 IF Last(bytes) >= 128 THEN n - Power[Len(bytes)] ELSE n
NumberOf(t, bytes) == IF t \in SignedTypes THEN Signed(bytes) ELSE Unsigned(bytes)

\* Every integer goes through VisitAnyUint(uint64_t), the signed ones too.
VisitAnyUint(t, bytes) == NumberOf(t, bytes) % Wide

Integral(leaf) == leaf.type \in UnsignedTypes \cup SignedTypes

ASSUME WideAssumption ==
  /\ WideBytes \in 0..8
  /\ \A p \in Part : Integral(p) => Width[p.type] <= WideBytes

(* ChannelVisitor, DataJSONVisitor: a JSON object is the sequence of its members. *)

Kind(t) == CASE t = "Record" -> "record" [] t = "String" -> "string"
             [] t = "Boolean" -> "bool" [] t \in {"Float", "Double"} -> "float"
             [] OTHER -> "uint"

Describe[p \in Part] ==
  [name |-> p.name, type |-> Kind(p.type),
   fields |-> IF p.type = "Record" THEN [i \in DOMAIN p.fields |-> Describe[p.fields[i]]]
              ELSE <<>>]

\* Those of v that belong to the i-th field.
FieldValues(p, v, i) ==
  LET before == Len(FlattenSeq([j \in 1..(i - 1) |-> Leaves[p.fields[j]]]))
  IN SubSeq(v, before + 1, before + Len(Leaves[p.fields[i]]))

\* (Slip: the new object is not pushed, so the fields go to the one around it.)
AddUnpushed(name, inner) == Append(inner, [key |-> name, item |-> <<>>])
AddRecord(name, inner)   == <<[key |-> name, item |-> inner]>>

Members[p \in Part] == [v \in Seq(Seq(0..255)) |->
  IF p.type = "Record"
  THEN AddRecord(p.name, FlattenSeq([i \in DOMAIN p.fields |->
                                       Members[p.fields[i]][FieldValues(p, v, i)]]))
  ELSE <<[key |-> p.name,
          item |-> IF Integral(p) THEN VisitAnyUint(p.type, v[1]) ELSE v[1]]>>]

\* The data callback: the data message, and with it or before it the advertisement.
Show ==
  /\ pc = "message" /\ Len(held) = Len(Leaves[part])
  /\ pc' = "shown"
  /\ shown' = [schema |-> Describe[part], data |-> Members[part][held]]
  /\ UNCHANGED <<schema, values, packet, damaged, read_head, stack, part, held, submitted, sent>>

-----------------------------------------------------------------------------
(* ResponseJSONVisitor *)

NA == [type |-> "String", text |-> <<78, 47, 65>>]

\* A frame has an item for every leaf, in the order of the leaves, since VisitRecord
\* takes the items of an object by their place; for a channel that is a leaf itself
\* the item is "data".  cJSON: an item has a number or a string, true and false
\* have none; valueint stops at the ends of int.
ItemsFor(leaf) ==
  {NA} \cup
  (CASE Integral(leaf) -> [type : {"Number"}, number : Entered]
     [] leaf.type = "Boolean" -> [type : {"True", "False"}]
     [] leaf.type = "String" -> [type : {"String"}, text : Strings]
     [] OTHER -> {})
valueint(n) == IF n > JsonIntMax THEN JsonIntMax
               ELSE IF n < -JsonIntMax - 1 THEN -JsonIntMax - 1 ELSE n

\* The cast of an int to an integer of some width.  (Slip: to its lowest byte.)
CastLow(n, width) == [k \in 1..width |-> IF k = 1 THEN n % 256 ELSE 0]
Cast(n, width)    == LET m == n % Power[width]
                     IN [k \in 1..width |-> (m \div Power[k - 1]) % 256]

\* numeric_limits<T>().min(), and for a bool set_value(2).  The smallest positive
\* float is the value for a double as well.
NoValue(t) ==
  CASE t \in SignedTypes -> [k \in 1..Width[t] |-> IF k = Width[t] THEN 128 ELSE 0]
    [] t \in UnsignedTypes -> [k \in 1..Width[t] |-> 0]
    [] t = "Boolean" -> <<1>>
    [] t = "Float" -> <<0, 0, 128, 0>>
    [] t = "Double" -> <<0, 0, 0, 0, 0, 0, 16, 56>>
    [] t = "String" -> NA.text

\* The Visit of a leaf.  A bool is set from valuedouble, which is 0 for a JSON true.
SetFrom(t, item) ==
  IF item = NA THEN NoValue(t)
  ELSE IF t = "String" THEN item.text
  ELSE IF t = "Boolean" THEN <<0>>
  ELSE Cast(valueint(item.number), Width[t])

SetData ==
  /\ pc = "shown" /\ pc' = "submitted"
  /\ LET ls == Leaves[part] IN
       \E items \in [DOMAIN ls -> UNION {ItemsFor(ls[i]) : i \in DOMAIN ls}] :
         /\ \A i \in DOMAIN ls : items[i] \in ItemsFor(ls[i])
         /\ submitted' = items
         /\ held' = [i \in DOMAIN ls |-> SetFrom(ls[i].type, items[i])]
  /\ UNCHANGED <<schema, values, packet, damaged, read_head, stack, part, shown, sent>>

-----------------------------------------------------------------------------
(* The brain asks for what was submitted. *)

WriteRequest ==
  /\ pc = "submitted" /\ pc' = "arrives"
  /\ packet' = write_request
  /\ UNCHANGED <<schema, values, damaged, read_head, stack, part, held, shown, submitted, sent>>

\* The response is at the front of as many as the browser submitted since.
Respond ==
  /\ pc = "request" /\ pc' = "responded"
  /\ \E queued \in QueueSizes : sent' = write_response(part, held, queued)
  /\ UNCHANGED <<schema, values, packet, damaged, read_head, stack, part, held, shown, submitted>>

Done == pc \in {"responded", "refused"} /\ UNCHANGED vars

Next == \/ WriteBroadcast \/ WriteData \/ WriteRequest \/ Damage
        \/ TakePacket \/ DecodePart \/ CloseRecord \/ Acknowledge
        \/ ReadLeaf \/ Show \/ SetData \/ Respond \/ Done

Spec == Init /\ [][Next]_vars

-----------------------------------------------------------------------------
(* Properties *)

TypeOK ==
  /\ pc \in {"idle", "arrives", "schema", "stored", "acknowledged", "message",
             "shown", "submitted", "request", "responded", "refused", "ignored", "outside"}
  /\ packet \in Seq(0..255) /\ sent \in Seq(0..255) /\ damaged \in BOOLEAN
  /\ read_head \in Nat
  /\ \A i \in DOMAIN stack : stack[i].left \in Nat
  /\ \A i \in DOMAIN held : held[i] \in Seq(0..255)
  /\ DOMAIN shown \subseteq {"schema", "data"}

\* The readers mirror the writers byte for byte: they never touch the checksum or
\* what lies behind the packet, where nothing stops get_byte and get_string, and
\* they leave nothing unread.
ReaderInsidePacket ==
  /\ pc # "outside"
  /\ pc \in {"schema", "message"} => read_head <= Size - 4
  /\ pc \in {"stored", "shown"} => read_head = Size - 4

\* make_decoder builds the Part that write_schema was given, however its records
\* nest, empty records and empty names included.
SchemaRoundTrip == part # NoPart => part = schema

\* Every leaf of the listener's Part holds the value its namesake had on the brain.
DataRoundTrip == pc = "shown" => held = values

\* A packet damaged by a short burst or by a lost tail is refused: what the other
\* models call a lost packet.
DamageIsFound == damaged => pc \in {"arrives", "refused"}

\* The two table look-ups per byte compute the CRC-32 of its definition.
ChecksumIsCrc32 ==
  pc = "arrives" /\ ~damaged =>
    LET data == SubSeq(packet, 1, Size - 4) IN Bits(calculate(data)) = DefinedCrc(data)

\* The values the brain reads out of a response, with the same schema and behind the
\* channel id.
ValuesIn(pac) ==
  LET ls == Leaves[schema]
      got[i \in 0..Len(ls)] == IF i = 0 THEN [value |-> <<>>, head |-> 3]
                               ELSE GetLeaf(pac, got[i - 1].head, ls[i].type)
  IN [i \in DOMAIN ls |-> got[i].value]

\* The brain can read what the board sends back: the acknowledgement names the
\* channel, and a response, wherever the count of queued ones wraps, leads to what
\* the browser submitted: every text, and every integer that fits both cJSON's int
\* and the type of its leaf.
Fits(n, t) == LET half == 128 * Power[Width[t] - 1]
              IN n \in (IF t \in SignedTypes THEN (-half)..(half - 1) ELSE 0..(2 * half - 1))
SubmittedReachesBrain ==
  /\ sent # <<>> => validate_packet(sent) = "Ok"
  /\ pc = "acknowledged" => /\ HeaderFunc(sent[1]) = PacketFunction["Acknowledge"]
                            /\ sent[2] = ChannelId
  /\ pc = "responded" =>
       /\ HeaderFunc(sent[1]) = PacketFunction["Response"] /\ sent[3] = ChannelId
       /\ \A i \in DOMAIN submitted :
            LET item == submitted[i]
                t    == Leaves[schema][i].type
                v    == ValuesIn(sent)[i]
            IN /\ t = "String" => v = item.text
               /\ item.type = "Number" /\ valueint(item.number) = item.number
                    /\ Fits(item.number, t) => NumberOf(t, v) = item.number
=============================================================================

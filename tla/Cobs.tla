-------------------------------- MODULE Cobs --------------------------------
(***************************************************************************)
(* CobsEncode and CobsDecode of vdb_device.cpp, one loop iteration a step. *)
(* A byte is a number of 0..ByteMax; the code has ByteMax = 255, and 254   *)
(* and 255 in its text are ByteMax - 1 and ByteMax here, so that TLC meets *)
(* a full block in a short input.                                          *)
(*                                                                         *)
(* A behaviour encodes an input, cuts the result at its delimiters as      *)
(* handle_uart_bytes of the receiver does, and decodes the first packet;   *)
(* or it decodes a packet that came off the wire in any state.             *)
(* Vectors are sequences: out[i] of the code is out[i + 1] here.           *)
(***************************************************************************)
EXTENDS Integers, Sequences

CONSTANTS ByteMax,   \* 0xff
          Inputs,    \* packets to encode
          Wires      \* packets off the wire to decode: no zero, maybe damaged

ASSUME CobsAssumption ==
  /\ ByteMax \in Nat /\ ByteMax >= 2
  /\ Inputs \subseteq Seq(0..ByteMax)
  /\ Wires \subseteq Seq(1..ByteMax)

VARIABLES pc,               \* "encode", "cut", "decode" or "done"
          input, out,       \* in and out of CobsEncode
          output_code_head, code_value, input_head, output_head, length,
          wire, read_head,  \* the packet cut from out, in of CobsDecode; bytes consumed
          decoded,          \* out of CobsDecode up to write_head
          code, left_in_block

encodeVars == <<input, out, output_code_head, code_value, input_head,
                output_head, length>>
decodeVars == <<wire, read_head, decoded, code, left_in_block>>
vars == <<pc, encodeVars, decodeVars>>

FullBlock == ByteMax - 1

-----------------------------------------------------------------------------
\* output_size of CobsEncode: the bytes, a code byte per block, two delimiters.
\* (Slip: room for one delimiter only.)
OutputSizeShort(n) == n + n \div FullBlock + 1 + 1
OutputSize(n)      == n + n \div FullBlock + 1 + 2

\* out.resize(..) of CobsDecode.  (Slip: the code bytes discounted.)
DecodedSizeTight(n) == n - 1 - n \div FullBlock
DecodedSize(n)      == n + n \div FullBlock

\* The conversion to uint8_t of a stored code value.  (Slip: a wider element.)
AsWord(v) == v
AsByte(v) == v % (ByteMax + 1)

\* A code value counts itself.  (Slip: it does not.)
FirstCodeValueZero == 0
FirstCodeValue     == 1

Init ==
  /\ output_code_head = 1 /\ code_value = FirstCodeValue
  /\ input_head = 0 /\ output_head = 2 /\ length = 0
  /\ read_head = 0 /\ decoded = <<>> /\ code = ByteMax /\ left_in_block = 0
  /\ \/ /\ pc = "encode" /\ wire = <<>>
        /\ input \in Inputs \ {<<>>}
        /\ out = [i \in 1..OutputSize(Len(input)) |-> 0]
     \/ /\ pc = "decode" /\ input = <<>> /\ out = <<>>
        /\ wire \in Wires \ {<<>>}

-----------------------------------------------------------------------------
Encoding == pc = "encode" /\ input_head < Len(input)
EndOfBlock == input[input_head + 1] = 0 \/ length = ByteMax

\* A zero or a full block: its code is stored and the next block begins.
CloseBlock ==
  /\ Encoding /\ EndOfBlock
  /\ out' = [out EXCEPT ![output_code_head + 1] = AsByte(code_value)]
  /\ code_value' = FirstCodeValue
  /\ output_code_head' = output_head
  /\ output_head' = output_head + 1
  /\ input_head' = IF input[input_head + 1] = 0 THEN input_head + 1 ELSE input_head
  /\ length' = 1
  /\ UNCHANGED <<pc, input, decodeVars>>

CopyByte ==
  /\ Encoding /\ ~EndOfBlock
  /\ out' = [out EXCEPT ![output_head + 1] = input[input_head + 1]]
  /\ code_value' = code_value + 1
  /\ input_head' = input_head + 1
  /\ output_head' = output_head + 1
  /\ length' = length + 1
  /\ UNCHANGED <<pc, input, output_code_head, decodeVars>>

\* The last code, the trailing delimiter, and the cut to size.
FinishEncode ==
  /\ pc = "encode" /\ input_head = Len(input)
  /\ out' = SubSeq([out EXCEPT ![output_code_head + 1] = AsByte(code_value),
                               ![output_head + 1] = 0], 1, output_head + 1)
  /\ output_head' = output_head + 1
  /\ pc' = "cut"
  /\ UNCHANGED <<input, output_code_head, code_value, input_head, length, decodeVars>>

\* handle_uart_bytes of the receiver, up to the first packet it makes.
CutByte ==
  /\ pc = "cut" /\ read_head < Len(out)
  /\ LET b == out[read_head + 1] IN
       IF b = 0 /\ wire # <<>>
       THEN pc' = "decode" /\ read_head' = 0 /\ UNCHANGED wire
       ELSE /\ wire' = IF b = 0 THEN wire ELSE Append(wire, b)
            /\ read_head' = read_head + 1 /\ UNCHANGED pc
  /\ UNCHANGED <<encodeVars, decoded, code, left_in_block>>

-----------------------------------------------------------------------------
Decoding == pc = "decode" /\ read_head < Len(wire)
Byte == wire[read_head + 1]

DecodeData ==
  /\ Decoding /\ left_in_block > 0
  /\ decoded' = Append(decoded, Byte)
  /\ left_in_block' = left_in_block - 1
  /\ read_head' = read_head + 1
  /\ UNCHANGED <<pc, encodeVars, wire, code>>

\* A code byte: the block before it ended in a zero unless it was full.
DecodeCode ==
  /\ Decoding /\ left_in_block = 0
  /\ decoded' = IF code # ByteMax THEN Append(decoded, 0) ELSE decoded
  /\ code' = Byte
  /\ left_in_block' = Byte - 1
  /\ read_head' = read_head + 1
  /\ UNCHANGED <<pc, encodeVars, wire>>

\* The end of the packet: no packet of the receiver has the zero that would end
\* the loop early.
FinishDecode ==
  /\ pc = "decode" /\ read_head = Len(wire)
  /\ pc' = "done"
  /\ UNCHANGED <<encodeVars, decodeVars>>

Done == pc = "done" /\ UNCHANGED vars

Next == CloseBlock \/ CopyByte \/ FinishEncode \/ CutByte
          \/ DecodeData \/ DecodeCode \/ FinishDecode \/ Done

Spec == Init /\ [][Next]_vars

-----------------------------------------------------------------------------
(* Properties *)

TypeOK ==
  /\ pc \in {"encode", "cut", "decode", "done"}
  /\ input \in Seq(0..ByteMax)
  /\ out \in Seq(0..ByteMax)
  /\ {output_code_head, code_value, input_head, output_head, length} \subseteq Nat
  /\ wire \in Seq(1..ByteMax)
  /\ read_head \in Nat
  /\ decoded \in Seq(0..ByteMax)
  /\ code \in 0..ByteMax /\ left_in_block \in 0..ByteMax

\* The encoder never writes past the vector it sized in advance: the byte it is
\* about to write, the code byte it will store and the last delimiter all fit.
EncodeInBounds ==
  pc = "encode" => output_code_head < output_head /\ output_head < Len(out)

\* Nor does the decoder, whatever arrives: not even for a damaged packet whose
\* codes point past its end.
DecodeInBounds ==
  pc \in {"decode", "done"} => Len(decoded) <= DecodedSize(Len(wire))

FullRun(p) == \E k \in 1..(Len(p) - FullBlock + 1) :
                \A i \in k..(k + FullBlock - 1) : p[i] # 0

Encoded == pc = "done" /\ input # <<>>

\* A packet without 254 non-zero bytes in a row comes out of the decoder as it
\* went into the encoder, in one piece.
RoundTrip == Encoded /\ ~FullRun(input) => decoded = input

\* vdb_device.h: a wire packet is "0x00 delimeted, cobs encoded", so there is no
\* zero between the two delimiters.
OnlyDelimitersAreZero ==
  Encoded => \A i \in 2..(Len(out) - 1) : out[i] # 0
=============================================================================

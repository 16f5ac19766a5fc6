----------------------------- MODULE Cobs_proofs -----------------------------
(***************************************************************************)
(* Proofs about Cobs for every input, every packet off the wire and every  *)
(* ByteMax from 2 up, 255 of the code among them.                          *)
(***************************************************************************)
EXTENDS Cobs, SequenceTheorems, TLAPS

-----------------------------------------------------------------------------
(* The inductive invariant.  Every block closed because it was full costs one *)
(* byte of output that no input byte pays for; there are at most              *)
(* Len(input) \div FullBlock of them, because each took FullBlock input bytes *)
(* (the first one more) since the block before it.                            *)

FullBlocks == output_head - 2 - input_head

EncodeInv ==
  pc = "encode" =>
    /\ Len(out) = OutputSize(Len(input))
    /\ input_head <= Len(input)
    /\ 0 < output_code_head /\ output_code_head < output_head
    /\ FullBlocks \in Nat
    /\ FullBlock * FullBlocks + (IF length = 0 THEN 0 ELSE length - 1) <= input_head

DecodeInv ==
  /\ pc \in {"encode", "cut"} => decoded = <<>>
  /\ pc \in {"decode", "done"} => read_head <= Len(wire) /\ Len(decoded) <= read_head

IInv == TypeOK /\ EncodeInv /\ DecodeInv

-----------------------------------------------------------------------------
\* A quotient is at least as large as whatever fits so many times.
LEMMA FitsQuotient ==
  ASSUME NEW F \in Nat \ {0}, NEW f \in Nat, NEW n \in Nat, F * f <= n
  PROVE  f <= n \div F
<1>. DEFINE q == n \div F
<1>1. q \in Int /\ n < F * (q + 1)
  OBVIOUS
<1>. SUFFICES ASSUME f >= q + 1 PROVE FALSE
  BY <1>1
<1>. HIDE DEF q
<1>2. F * f >= F * (q + 1)
  <2>1. \A d \in Nat : F * (q + 1 + d) = F * (q + 1) + F * d /\ F * d >= 0
    BY <1>1
  <2>2. f - (q + 1) \in Nat
    BY <1>1
  <2>3. F * (q + 1 + (f - (q + 1))) >= F * (q + 1)
    <3>1. /\ F * (q + 1 + (f - (q + 1))) = F * (q + 1) + F * (f - (q + 1))
          /\ F * (f - (q + 1)) >= 0
      BY <2>1, <2>2
    <3>. QED
      BY <1>1, <3>1
  <2>4. q + 1 + (f - (q + 1)) = f
    BY <1>1
  <2>. QED
    BY <2>3, <2>4
<1>. QED
  BY <1>1, <1>2

LEMMA FullBlockStep ==
  ASSUME NEW f \in Int
  PROVE  /\ FullBlock \in Nat \ {0}
         /\ FullBlock * f \in Int
         /\ FullBlock * (f + 1) = FullBlock * f + FullBlock
<1>1. FullBlock \in Nat \ {0}
  BY CobsAssumption DEF FullBlock
<1>. HIDE DEF FullBlock
<1>. QED
  BY <1>1

\* The sizes the two functions reserve are natural numbers, and the decoder's is
\* never smaller than the packet.
LEMMA Sizes ==
  ASSUME NEW n \in Nat
  PROVE  /\ n \div FullBlock \in Nat
         /\ OutputSize(n) = n + n \div FullBlock + 3
         /\ DecodedSize(n) >= n
<1>1. FullBlock \in Nat \ {0}
  BY CobsAssumption DEF FullBlock
<1>. HIDE DEF FullBlock
<1>2. n \div FullBlock \in Nat
  BY <1>1
<1>. QED
  BY <1>2 DEF OutputSize, DecodedSize

\* What the encoder is about to write fits.
LEMMA Room ==
  ASSUME IInv, pc = "encode"
  PROVE  /\ output_code_head < output_head /\ output_head < Len(out)
         /\ out \in Seq(0..ByteMax)
<1>1. /\ Len(input) \in Nat /\ {input_head, output_head, length, output_code_head} \subseteq Nat
      /\ out \in Seq(0..ByteMax)
  BY DEF IInv, TypeOK
<1>. DEFINE f == FullBlocks
            n == Len(input)
<1>2. /\ Len(out) = OutputSize(n) /\ input_head <= n /\ f \in Nat
      /\ output_code_head < output_head
      /\ FullBlock * f + (IF length = 0 THEN 0 ELSE length - 1) <= input_head
  BY DEF IInv, EncodeInv
<1>3. FullBlock \in Nat \ {0} /\ FullBlock * f \in Int
  BY <1>2, FullBlockStep
<1>4. FullBlock * f <= n
  BY <1>1, <1>2, <1>3
<1>5. f <= n \div FullBlock
  BY <1>1, <1>2, <1>3, <1>4, FitsQuotient
<1>6. n \div FullBlock \in Nat /\ OutputSize(n) = n + n \div FullBlock + 3
  BY <1>1, Sizes
<1>7. output_head = f + 2 + input_head
  BY <1>1 DEF FullBlocks
<1>8. output_head < OutputSize(n)
  <2>1. n \in Nat /\ f \in Nat /\ input_head \in Nat /\ input_head <= n
    BY <1>1, <1>2
  <2>. DEFINE q == n \div FullBlock
  <2>2. q \in Nat /\ OutputSize(n) = n + q + 3 /\ f <= q
    BY <1>5, <1>6
  <2>. HIDE DEF f, n, q
  <2>. QED
    BY <1>7, <2>1, <2>2
<1>. QED
  BY <1>1, <1>2, <1>8

-----------------------------------------------------------------------------
LEMMA IInvInit == Init => IInv
<1>. SUFFICES ASSUME Init PROVE IInv
  OBVIOUS
<1>1. ByteMax \in Nat /\ ByteMax >= 2
  BY CobsAssumption
<1>2. CASE pc = "encode" /\ input \in Inputs
  <2>1. input \in Seq(0..ByteMax) /\ Len(input) \in Nat
    BY <1>2, CobsAssumption
  <2>2. out = [i \in 1..OutputSize(Len(input)) |-> 0]
    BY <1>2 DEF Init
  <2>3. OutputSize(Len(input)) \in Nat
    <3>. DEFINE q == Len(input) \div FullBlock
    <3>1. q \in Nat /\ OutputSize(Len(input)) = Len(input) + q + 3
      BY <2>1, Sizes
    <3>. HIDE DEF q
    <3>. QED
      BY <2>1, <3>1
  <2>4. out \in Seq(0..ByteMax) /\ Len(out) = OutputSize(Len(input))
    BY <1>1, <2>2, <2>3
  <2>5. FullBlock * 0 = 0
    BY <1>1 DEF FullBlock
  <2>6. TypeOK
    BY <1>1, <1>2, <2>1, <2>4 DEF Init, TypeOK, FirstCodeValue
  <2>. QED
    BY <1>1, <1>2, <2>1, <2>4, <2>5, <2>6
       DEF Init, IInv, EncodeInv, DecodeInv, FullBlocks, FirstCodeValue
<1>3. CASE pc = "decode" /\ wire \in Wires
  <2>1. wire \in Seq(1..ByteMax) /\ Len(wire) \in Nat
    BY <1>3, CobsAssumption
  <2>. QED
    BY <1>1, <1>3, <2>1 DEF Init, IInv, TypeOK, EncodeInv, DecodeInv, FirstCodeValue
<1>. QED
  BY <1>2, <1>3 DEF Init

LEMMA IInvNext == IInv /\ [Next]_vars => IInv'
<1>. SUFFICES ASSUME IInv, [Next]_vars PROVE IInv'
  OBVIOUS
<1>0. /\ ByteMax \in Nat /\ ByteMax >= 2
      /\ input \in Seq(0..ByteMax) /\ Len(input) \in Nat
      /\ output_code_head \in Nat /\ code_value \in Nat /\ input_head \in Nat
      /\ output_head \in Nat /\ length \in Nat /\ read_head \in Nat
      /\ TypeOK
  BY CobsAssumption DEF IInv, TypeOK
<1>1. ASSUME Encoding, CloseBlock \/ CopyByte PROVE IInv'
  <2>1. /\ output_code_head < output_head /\ output_head < Len(out)
        /\ out \in Seq(0..ByteMax) /\ Len(out) \in Nat
    BY <1>1, Room DEF Encoding
  <2>2. /\ input_head < Len(input) /\ pc = "encode" /\ pc' = "encode" /\ input' = input
        /\ input[input_head + 1] \in 0..ByteMax
    BY <1>0, <1>1 DEF Encoding, CloseBlock, CopyByte
  <2>3. AsByte(code_value) \in 0..ByteMax
    BY <1>0 DEF AsByte
  <2>4. out' \in Seq(0..ByteMax) /\ Len(out') = Len(out)
    <3>1. output_code_head + 1 \in 1..Len(out) /\ output_head + 1 \in 1..Len(out)
      BY <1>0, <2>1
    <3>2. CASE CloseBlock
      <4>1. out' = [out EXCEPT ![output_code_head + 1] = AsByte(code_value)]
        BY <3>2 DEF CloseBlock
      <4>. QED
        BY <2>1, <2>3, <3>1, <4>1, ExceptSeq
    <3>3. CASE CopyByte
      <4>1. out' = [out EXCEPT ![output_head + 1] = input[input_head + 1]]
        BY <3>3 DEF CopyByte
      <4>. QED
        BY <2>1, <2>2, <3>1, <4>1, ExceptSeq
    <3>. QED
      BY <1>1, <3>2, <3>3
  <2>5. UNCHANGED decodeVars
    BY <1>1 DEF CloseBlock, CopyByte
  <2>. DEFINE f == FullBlocks
  <2>6. /\ Len(out) = OutputSize(Len(input)) /\ f \in Nat
        /\ 0 < output_code_head
        /\ FullBlock * f + (IF length = 0 THEN 0 ELSE length - 1) <= input_head
    BY <2>2 DEF IInv, EncodeInv
  <2>7. /\ FullBlock * f \in Int /\ FullBlock * (f + 1) = FullBlock * f + FullBlock
        /\ FullBlock = ByteMax - 1
    BY <2>6, FullBlockStep DEF FullBlock
  <2>8. f = output_head - 2 - input_head /\ f' = output_head' - 2 - input_head'
    BY DEF FullBlocks
  <2>9. TypeOK'
    <3>1. {output_code_head', code_value', input_head', output_head', length'} \subseteq Nat
      <4>1. CASE CloseBlock
        BY <1>0, <4>1 DEF CloseBlock, FirstCodeValue
      <4>2. CASE CopyByte
        BY <1>0, <4>2 DEF CopyByte
      <4>. QED
        BY <1>1, <4>1, <4>2
    <3>. QED
      BY <1>0, <2>2, <2>4, <2>5, <3>1 DEF TypeOK, decodeVars
  <2>10. EncodeInv'
    <3>1. CASE CopyByte
      <4>1. /\ length' = length + 1 /\ input_head' = input_head + 1
            /\ output_head' = output_head + 1 /\ output_code_head' = output_code_head
        BY <3>1 DEF CopyByte
      <4>2. f' = f
        BY <1>0, <2>8, <4>1
      <4>3. FullBlock * f' + (IF length' = 0 THEN 0 ELSE length' - 1) <= input_head'
        <5>. HIDE DEF f
        <5>. QED
          BY <1>0, <2>6, <2>7, <4>1, <4>2
      <4>. QED
        BY <1>0, <2>1, <2>2, <2>4, <2>6, <4>1, <4>2, <4>3 DEF EncodeInv
    <3>2. CASE CloseBlock /\ input[input_head + 1] = 0
      <4>1. /\ length' = 1 /\ input_head' = input_head + 1
            /\ output_head' = output_head + 1 /\ output_code_head' = output_head
        BY <3>2 DEF CloseBlock
      <4>2. f' = f
        BY <1>0, <2>8, <4>1
      <4>3. FullBlock * f' + (IF length' = 0 THEN 0 ELSE length' - 1) <= input_head'
        <5>. HIDE DEF f
        <5>. QED
          BY <1>0, <2>6, <2>7, <4>1, <4>2
      <4>. QED
        BY <1>0, <2>1, <2>2, <2>4, <2>6, <4>1, <4>2, <4>3 DEF EncodeInv
    <3>3. CASE CloseBlock /\ input[input_head + 1] # 0
      <4>1. /\ length = ByteMax /\ length' = 1 /\ input_head' = input_head
            /\ output_head' = output_head + 1 /\ output_code_head' = output_head
        BY <3>3 DEF CloseBlock, EndOfBlock
      <4>2. f' = f + 1
        BY <1>0, <2>8, <4>1
      <4>3. FullBlock * f' + (IF length' = 0 THEN 0 ELSE length' - 1) <= input_head'
        <5>1. FullBlock * f + FullBlock <= input_head
          <6>. HIDE DEF f
          <6>. QED
            BY <1>0, <2>6, <2>7, <4>1
        <5>. HIDE DEF f
        <5>. QED
          BY <1>0, <2>7, <4>1, <4>2, <5>1
      <4>4. f' \in Nat
        BY <2>6, <4>2
      <4>. QED
        BY <1>0, <2>1, <2>2, <2>4, <2>6, <4>1, <4>3, <4>4 DEF EncodeInv
    <3>. QED
      BY <1>1, <3>1, <3>2, <3>3
  <2>11. DecodeInv'
    BY <2>2, <2>5 DEF IInv, DecodeInv, decodeVars
  <2>. QED
    BY <2>9, <2>10, <2>11 DEF IInv
<1>2. ASSUME FinishEncode PROVE IInv'
  <2>1. /\ output_code_head < output_head /\ output_head < Len(out)
        /\ out \in Seq(0..ByteMax) /\ Len(out) \in Nat
    BY <1>2, Room DEF FinishEncode
  <2>2. AsByte(code_value) \in 0..ByteMax /\ 0 \in 0..ByteMax
    BY <1>0 DEF AsByte
  <2>. DEFINE full == [out EXCEPT ![output_code_head + 1] = AsByte(code_value),
                                  ![output_head + 1] = 0]
  <2>3. full \in Seq(0..ByteMax) /\ Len(full) = Len(out)
    <3>1. output_code_head + 1 \in 1..Len(out) /\ output_head + 1 \in 1..Len(out)
      BY <1>0, <2>1
    <3>. QED
      BY <2>1, <2>2, <3>1, ExceptSeq
  <2>4. out' = SubSeq(full, 1, output_head + 1)
    BY <1>2 DEF FinishEncode
  <2>. HIDE DEF full
  <2>5. out' \in Seq(0..ByteMax)
    <3>1. \A i \in 1..(output_head + 1) : full[i] \in 0..ByteMax
      BY <1>0, <2>1, <2>3
    <3>. QED
      BY <1>0, <2>4, <3>1, SubSeqProperties
  <2>6. TypeOK'
    <3>1. /\ pc' = "cut" /\ UNCHANGED <<input, decodeVars>>
          /\ {output_code_head', code_value', input_head', output_head', length'} \subseteq Nat
      BY <1>0, <1>2 DEF FinishEncode
    <3>. QED
      BY <1>0, <2>5, <3>1 DEF TypeOK, decodeVars
  <2>. QED
    BY <1>2, <2>6 DEF FinishEncode, IInv, EncodeInv, DecodeInv, decodeVars
<1>3. ASSUME CutByte PROVE IInv'
  <2>1. /\ out \in Seq(0..ByteMax) /\ wire \in Seq(1..ByteMax)
        /\ out[read_head + 1] \in 0..ByteMax
    <3>1. out \in Seq(0..ByteMax) /\ wire \in Seq(1..ByteMax) /\ read_head < Len(out)
      BY <1>0, <1>3 DEF CutByte, TypeOK
    <3>2. read_head + 1 \in 1..Len(out)
      BY <1>0, <3>1, LenProperties
    <3>. QED
      BY <3>1, <3>2, ElementOfSeq
  <2>2. wire' \in Seq(1..ByteMax) /\ Len(wire') \in Nat
    <3>1. \/ wire' = wire
          \/ out[read_head + 1] # 0 /\ wire' = Append(wire, out[read_head + 1])
      BY <1>3 DEF CutByte
    <3>2. CASE wire' = wire
      BY <2>1, <3>2
    <3>3. CASE out[read_head + 1] # 0 /\ wire' = Append(wire, out[read_head + 1])
      <4>1. out[read_head + 1] \in 1..ByteMax
        BY <1>0, <2>1, <3>3
      <4>. QED
        BY <2>1, <3>3, <4>1, AppendProperties
    <3>. QED
      BY <3>1, <3>2, <3>3
  <2>3. /\ pc = "cut" /\ pc' \in {"cut", "decode"} /\ read_head' \in Nat
        /\ pc' = "decode" => read_head' = 0
        /\ UNCHANGED <<encodeVars, decoded, code, left_in_block>>
    BY <1>0, <1>3 DEF CutByte
  <2>4. decoded = <<>>
    BY <2>3 DEF IInv, DecodeInv
  <2>5. TypeOK'
    BY <1>0, <2>2, <2>3 DEF TypeOK, encodeVars
  <2>. QED
    BY <2>2, <2>3, <2>4, <2>5 DEF IInv, EncodeInv, DecodeInv
<1>4. ASSUME DecodeData \/ DecodeCode PROVE IInv'
  <2>1. /\ wire \in Seq(1..ByteMax) /\ Byte \in 1..ByteMax
        /\ read_head < Len(wire) /\ Len(wire) \in Nat
        /\ decoded \in Seq(0..ByteMax) /\ pc = "decode" /\ pc' = "decode"
        /\ left_in_block \in 0..ByteMax /\ code \in 0..ByteMax
    <3>1. /\ wire \in Seq(1..ByteMax) /\ decoded \in Seq(0..ByteMax)
          /\ left_in_block \in 0..ByteMax /\ code \in 0..ByteMax
      BY <1>0 DEF TypeOK
    <3>2. read_head < Len(wire) /\ pc = "decode" /\ pc' = "decode"
      BY <1>4 DEF DecodeData, DecodeCode, Decoding
    <3>3. Len(wire) \in Nat
      BY <3>1, LenProperties
    <3>4. read_head + 1 \in 1..Len(wire)
      BY <1>0, <3>2, <3>3
    <3>5. Byte \in 1..ByteMax
      BY <3>1, <3>4, ElementOfSeq DEF Byte
    <3>. QED
      BY <3>1, <3>2, <3>3, <3>5
  <2>2. /\ read_head' = read_head + 1 /\ UNCHANGED <<encodeVars, wire>>
        /\ left_in_block' \in 0..ByteMax /\ code' \in 0..ByteMax
    <3>1. CASE DecodeData
      BY <1>0, <2>1, <3>1 DEF DecodeData
    <3>2. CASE DecodeCode
      <4>1. Byte - 1 \in 0..ByteMax /\ Byte \in 0..ByteMax
        BY <1>0, <2>1
      <4>. QED
        BY <3>2, <4>1 DEF DecodeCode
    <3>. QED
      BY <1>4, <3>1, <3>2
  <2>3. \/ decoded' = Append(decoded, Byte)
        \/ decoded' = Append(decoded, 0)
        \/ decoded' = decoded
    BY <1>4 DEF DecodeData, DecodeCode
  <2>4. decoded' \in Seq(0..ByteMax) /\ Len(decoded') <= Len(decoded) + 1
    <3>1. Byte \in 0..ByteMax /\ 0 \in 0..ByteMax
      BY <1>0, <2>1
    <3>2. \A b \in 0..ByteMax : /\ Append(decoded, b) \in Seq(0..ByteMax)
                                /\ Len(Append(decoded, b)) = Len(decoded) + 1
      BY <2>1, AppendProperties
    <3>3. Len(decoded) \in Nat
      BY <2>1
    <3>4. ASSUME NEW b \in 0..ByteMax, decoded' = Append(decoded, b)
          PROVE  decoded' \in Seq(0..ByteMax) /\ Len(decoded') <= Len(decoded) + 1
      <4>1. decoded' \in Seq(0..ByteMax) /\ Len(decoded') = Len(decoded) + 1
        BY <3>2, <3>4
      <4>. QED
        BY <3>3, <4>1
    <3>5. ASSUME decoded' = decoded
          PROVE  decoded' \in Seq(0..ByteMax) /\ Len(decoded') <= Len(decoded) + 1
      BY <2>1, <3>3, <3>5
    <3>. QED
      BY <2>3, <3>1, <3>4, <3>5
  <2>5. Len(decoded) \in Nat /\ Len(decoded') \in Nat /\ Len(decoded) <= read_head
    BY <2>1, <2>4 DEF IInv, DecodeInv
  <2>6. TypeOK'
    BY <1>0, <2>1, <2>2, <2>4 DEF TypeOK, encodeVars
  <2>7. DecodeInv'
    BY <1>0, <2>1, <2>2, <2>4, <2>5 DEF DecodeInv
  <2>. QED
    BY <2>1, <2>6, <2>7 DEF IInv, EncodeInv
<1>5. ASSUME FinishDecode PROVE IInv'
  BY <1>0, <1>5 DEF FinishDecode, IInv, TypeOK, EncodeInv, DecodeInv, encodeVars, decodeVars
<1>6. ASSUME UNCHANGED vars PROVE IInv'
  BY <1>0, <1>6 DEF vars, encodeVars, decodeVars, IInv, TypeOK, EncodeInv, DecodeInv, FullBlocks
<1>. QED
  BY <1>1, <1>2, <1>3, <1>4, <1>5, <1>6 DEF Next, Done, CloseBlock, CopyByte

LEMMA Invariant == Spec => []IInv
BY IInvInit, IInvNext, PTL DEF Spec

\* Every variable of the two loops keeps its type; in particular the vector a code
\* value is stored into holds bytes.
THEOREM TypeCorrect == Spec => []TypeOK
<1>1. IInv => TypeOK
  BY DEF IInv
<1>. QED
  BY <1>1, Invariant, PTL

\* CobsEncode never writes outside the vector it has sized, for no packet of any
\* length: in.size() + in.size() / 254 + 1 + 2 is enough, and just enough.
THEOREM EncodeStaysInBounds == Spec => []EncodeInBounds
<1>1. IInv => EncodeInBounds
  BY Room DEF EncodeInBounds
<1>. QED
  BY <1>1, Invariant, PTL

\* CobsDecode never writes outside its vector, for no packet, damaged or not.
THEOREM DecodeStaysInBounds == Spec => []DecodeInBounds
<1>1. IInv => DecodeInBounds
  <2>. SUFFICES ASSUME IInv, pc \in {"decode", "done"}
                PROVE  Len(decoded) <= DecodedSize(Len(wire))
    BY DEF DecodeInBounds
  <2>1. Len(wire) \in Nat /\ Len(decoded) \in Nat /\ read_head \in Nat
    BY DEF IInv, TypeOK
  <2>2. Len(decoded) <= read_head /\ read_head <= Len(wire)
    BY DEF IInv, DecodeInv
  <2>3. DecodedSize(Len(wire)) \in Int /\ Len(wire) <= DecodedSize(Len(wire))
    BY <2>1, Sizes DEF DecodedSize
  <2>. QED
    BY <2>1, <2>2, <2>3
<1>. QED
  BY <1>1, Invariant, PTL

-----------------------------------------------------------------------------
(* The round trip.  In an ordinary packet no block is ever full, so every byte  *)
(* has its place: what stands for byte i of the packet is byte i + 2 of out     *)
(* and byte i + 1 of the packet that is cut from it, itself if it is not zero,  *)
(* else the distance to the next zero or the end; and a zero seems to come      *)
(* before the packet.  The decoder, i + 1 bytes on, has written the first i.    *)

Ordinary(p) == p # <<>> /\ ~FullRun(p)

\* From place i it is c to the next zero, or to the end.
IsCode(p, i, c) ==
  /\ c >= 1 /\ i + c <= Len(p) + 1
  /\ \A j \in (i + 1)..(i + c - 1) : p[j] # 0
  /\ i + c = Len(p) + 1 \/ p[i + c] = 0

Image(p, i, b) == IF i = 0 \/ p[i] = 0 THEN IsCode(p, i, b) /\ b < ByteMax ELSE b = p[i]

\* The encoder: the block under way began at output_code_head - 1, and but for its
\* code everything up to input_head is written.
BlockInv ==
  /\ output_head = input_head + 2
  /\ output_code_head = 1 \/ input[output_code_head - 1] = 0
  /\ \A j \in output_code_head..input_head : input[j] # 0
  /\ code_value = input_head - output_code_head + 2
  /\ length = IF output_code_head = 1 THEN input_head ELSE code_value
  /\ out[1] = 0
  /\ \A i \in 0..input_head : i # output_code_head - 1 => Image(input, i, out[i + 2])

CutInv ==
  /\ Len(out) = Len(input) + 3 /\ out[1] = 0 /\ out[Len(input) + 3] = 0
  /\ \A i \in 0..Len(input) : Image(input, i, out[i + 2])
  /\ read_head <= Len(input) + 2
  /\ Len(wire) = IF read_head = 0 THEN 0 ELSE read_head - 1
  /\ \A k \in 1..Len(wire) : wire[k] = out[k + 1]

WireInv ==
  /\ Len(wire) = Len(input) + 1
  /\ \A i \in 0..Len(input) : Image(input, i, wire[i + 1])
  /\ Len(decoded) = IF read_head = 0 THEN 0 ELSE read_head - 1
  /\ \A k \in 1..Len(decoded) : decoded[k] = input[k]
  /\ IF read_head = 0 THEN code = ByteMax /\ left_in_block = 0
                      ELSE code < ByteMax /\ IsCode(input, read_head - 1, left_in_block + 1)

TripInv ==
  Ordinary(input) =>
    /\ pc = "encode" => BlockInv
    /\ pc = "encode" => wire = <<>> /\ read_head = 0
    /\ pc \in {"encode", "cut"} => code = ByteMax /\ left_in_block = 0
    /\ pc = "cut" => CutInv
    /\ pc \in {"decode", "done"} => WireInv
    /\ pc = "done" => read_head = Len(wire)

\* A run of non-zero bytes in an ordinary packet is shorter than a block.
LEMMA ShortRun ==
  ASSUME NEW p \in Seq(0..ByteMax), Ordinary(p), NEW k \in Nat \ {0}, NEW l \in Nat,
         l <= Len(p), \A j \in k..l : p[j] # 0
  PROVE  l - k + 2 <= FullBlock /\ l - k + 2 < ByteMax
<1>1. FullBlock \in Nat \ {0} /\ FullBlock < ByteMax /\ ByteMax \in Nat /\ Len(p) \in Nat
  BY CobsAssumption DEF FullBlock
<1>2. SUFFICES ASSUME l - k + 1 >= FullBlock PROVE FALSE
  BY <1>1
<1>3. k \in 1..(Len(p) - FullBlock + 1)
  BY <1>1, <1>2
<1>4. \A i \in k..(k + FullBlock - 1) : p[i] # 0
  BY <1>1, <1>2
<1> QED BY <1>3, <1>4 DEF Ordinary, FullRun

\* A byte is stored as it is.
LEMMA StoredAsItIs == ASSUME NEW v \in Nat, v < ByteMax PROVE AsByte(v) = v
<1>1. ByteMax \in Nat
  BY CobsAssumption
<1>. QED
  BY <1>1 DEF AsByte

LEMMA TripInit == Init => TripInv
<1> SUFFICES ASSUME Init, Ordinary(input) PROVE TripInv
  BY DEF TripInv
<1>1. pc = "encode" /\ wire = <<>> /\ read_head = 0 /\ code = ByteMax /\ left_in_block = 0
  BY DEF Init, Ordinary
<1>2. input \in Seq(0..ByteMax) /\ Len(input) \in Nat
  BY <1>1, CobsAssumption DEF Init
<1>3. out = [i \in 1..OutputSize(Len(input)) |-> 0] /\ OutputSize(Len(input)) >= 3
  BY <1>1, <1>2, Sizes DEF Init
<1>4. out[1] = 0
  BY <1>2, <1>3, Sizes
<1>5. BlockInv
  BY <1>4 DEF Init, BlockInv, FirstCodeValue
<1> QED BY <1>1, <1>5 DEF TripInv

\* The encoder's steps.  The end of a block is a zero: its length tells nothing.
LEMMA BlockStep ==
  ASSUME IInv, Ordinary(input), BlockInv, CloseBlock \/ CopyByte
  PROVE  BlockInv'
<1>1. /\ ByteMax \in Nat /\ ByteMax >= 2 /\ input \in Seq(0..ByteMax) /\ Len(input) \in Nat
      /\ output_code_head \in Nat /\ input_head \in Nat /\ output_head \in Nat
      /\ code_value \in Nat
  BY CobsAssumption DEF IInv, TypeOK
<1>2. pc = "encode" /\ input_head < Len(input) /\ input' = input
  BY DEF CloseBlock, CopyByte, Encoding
<1>3. /\ output_code_head < output_head /\ output_head < Len(out) /\ out \in Seq(0..ByteMax)
      /\ Len(out) \in Nat /\ 0 < output_code_head
  BY <1>2, Room DEF IInv, EncodeInv
<1>4. /\ output_head = input_head + 2
      /\ output_code_head = 1 \/ input[output_code_head - 1] = 0
      /\ \A j \in output_code_head..input_head : input[j] # 0
      /\ code_value = input_head - output_code_head + 2
      /\ length = (IF output_code_head = 1 THEN input_head ELSE code_value)
      /\ out[1] = 0
      /\ \A i \in 0..input_head : i # output_code_head - 1 => Image(input, i, out[i + 2])
  BY DEF BlockInv
<1>5. code_value <= FullBlock /\ code_value < ByteMax /\ code_value >= 1
  <2>0. output_code_head \in Nat \ {0} /\ input_head <= Len(input)
    BY <1>1, <1>2, <1>3
  <2>1. input_head - output_code_head + 2 <= FullBlock /\ input_head - output_code_head + 2 < ByteMax
    <3>1. \A j \in output_code_head..input_head : input[j] # 0
      BY <1>4
    <3>. QED
      BY <1>1, <2>0, <3>1, ShortRun
  <2> QED BY <1>1, <1>3, <1>4, <2>1
<1>6. length # ByteMax
  BY <1>1, <1>4, <1>5
<1>7. output_code_head + 1 \in 1..Len(out) /\ output_head + 1 \in 1..Len(out)
  BY <1>1, <1>3
<1>8. CASE CopyByte
  <2>1. /\ input[input_head + 1] # 0 /\ output_code_head' = output_code_head
        /\ input_head' = input_head + 1 /\ output_head' = output_head + 1
        /\ code_value' = code_value + 1 /\ length' = length + 1
        /\ out' = [out EXCEPT ![output_head + 1] = input[input_head + 1]]
    BY <1>8 DEF CopyByte, EndOfBlock
  <2>2. /\ out'[input_head + 3] = input[input_head + 1]
        /\ \A k \in 1..(input_head + 2) : out'[k] = out[k]
    <3>1. output_head + 1 = input_head + 3
      BY <1>1, <1>4
    <3>2. \A k \in 1..(input_head + 2) : k \in 1..Len(out) /\ k # output_head + 1
      BY <1>1, <1>3, <1>4
    <3>3. /\ out'[output_head + 1] = input[input_head + 1]
          /\ \A k \in 1..Len(out) : k # output_head + 1 => out'[k] = out[k]
      BY <1>3, <1>7, <2>1
    <3>. QED
      BY <3>1, <3>2, <3>3
  <2>3. ASSUME NEW i \in 0..input_head', i # output_code_head - 1 PROVE Image(input, i, out'[i + 2])
    <3>1. CASE i = input_head + 1
      <4>1. out'[i + 2] = input[i] /\ input[i] # 0 /\ i # 0
        BY <1>1, <2>1, <2>2, <3>1
      <4> QED BY <4>1 DEF Image
    <3>2. CASE i # input_head + 1
      <4>1. i \in 0..input_head /\ i + 2 \in 1..(input_head + 2)
        BY <1>1, <2>1, <3>2
      <4> QED BY <1>4, <2>2, <2>3, <4>1
    <3> QED BY <3>1, <3>2
  <2>4. \A j \in output_code_head..input_head' : input[j] # 0
    <3>1. \A j \in output_code_head..(input_head + 1) : j = input_head + 1 \/ j \in output_code_head..input_head
      BY <1>1
    <3> QED BY <1>4, <2>1, <3>1
  <2>5. /\ output_head' = input_head' + 2 /\ code_value' = input_head' - output_code_head' + 2
        /\ length' = (IF output_code_head' = 1 THEN input_head' ELSE code_value')
        /\ out'[1] = 0
    BY <1>1, <1>4, <2>1, <2>2
  <2> QED BY <1>2, <1>4, <2>1, <2>3, <2>4, <2>5 DEF BlockInv
<1>9. CASE CloseBlock
  <2>1. /\ input[input_head + 1] = 0 /\ output_code_head' = output_head
        /\ input_head' = input_head + 1 /\ output_head' = output_head + 1
        /\ code_value' = 1 /\ length' = 1
        /\ out' = [out EXCEPT ![output_code_head + 1] = AsByte(code_value)]
    BY <1>6, <1>9 DEF CloseBlock, EndOfBlock, FirstCodeValue
  <2>2. AsByte(code_value) = code_value
    BY <1>1, <1>5, StoredAsItIs
  <2>3. /\ out'[output_code_head + 1] = code_value
        /\ \A k \in 1..Len(out) : k # output_code_head + 1 => out'[k] = out[k]
    BY <1>3, <1>7, <2>1, <2>2
  <2>4. ASSUME NEW i \in 0..input_head', i # output_head - 1 PROVE Image(input, i, out'[i + 2])
    <3>1. i \in 0..input_head
      BY <1>1, <1>4, <2>1, <2>4
    <3>2. CASE i = output_code_head - 1
      <4>1. out'[i + 2] = code_value
        BY <1>1, <2>3, <3>2
      <4>2. i = 0 \/ input[i] = 0
        BY <1>1, <1>4, <3>2
      <4>3. i + code_value = input_head + 1 /\ i + 1 = output_code_head
        BY <1>1, <1>4, <3>2
      <4>4. IsCode(input, i, code_value)
        BY <1>1, <1>2, <1>4, <1>5, <2>1, <4>3 DEF IsCode
      <4> QED BY <1>5, <4>1, <4>2, <4>4 DEF Image
    <3>3. CASE i # output_code_head - 1
      <4>1. i + 2 \in 1..Len(out) /\ i + 2 # output_code_head + 1
        BY <1>1, <1>3, <1>4, <3>1, <3>3
      <4> QED BY <1>4, <2>3, <3>1, <3>3, <4>1
    <3> QED BY <3>2, <3>3
  <2>5. \A j \in output_head..(input_head + 1) : FALSE
    BY <1>1, <1>4
  <2>6. input[output_head - 1] = 0
    BY <1>1, <1>4, <2>1
  <2>7. out'[1] = 0
    <3>1. 1 \in 1..Len(out) /\ 1 # output_code_head + 1
      BY <1>1, <1>3
    <3>. QED
      BY <1>4, <2>3, <3>1
  <2>8. output_head' = input_head' + 2 /\ code_value' = input_head' - output_code_head' + 2
        /\ output_code_head' # 1
    BY <1>1, <1>4, <2>1
  <2> QED BY <1>2, <2>1, <2>4, <2>5, <2>6, <2>7, <2>8 DEF BlockInv
<1> QED BY <1>8, <1>9

\* The last code, whose distance is that to the end, and the delimiter.
LEMMA FinishStep ==
  ASSUME IInv, TripInv, Ordinary(input), FinishEncode
  PROVE  CutInv'
<1>1. /\ ByteMax \in Nat /\ ByteMax >= 2 /\ input \in Seq(0..ByteMax) /\ Len(input) \in Nat
      /\ output_code_head \in Nat /\ input_head \in Nat /\ output_head \in Nat
      /\ code_value \in Nat
  BY CobsAssumption DEF IInv, TypeOK
<1>2. pc = "encode" /\ input_head = Len(input) /\ UNCHANGED <<input, wire, read_head>>
  BY DEF FinishEncode, decodeVars
<1>3. /\ output_code_head < output_head /\ output_head < Len(out) /\ out \in Seq(0..ByteMax)
      /\ Len(out) \in Nat /\ 0 < output_code_head
  BY <1>2, Room DEF IInv, EncodeInv
<1>4. /\ output_head = input_head + 2
      /\ output_code_head = 1 \/ input[output_code_head - 1] = 0
      /\ \A j \in output_code_head..input_head : input[j] # 0
      /\ code_value = input_head - output_code_head + 2
      /\ out[1] = 0
      /\ \A i \in 0..input_head : i # output_code_head - 1 => Image(input, i, out[i + 2])
      /\ wire = <<>> /\ read_head = 0
  BY <1>2 DEF TripInv, BlockInv
<1>5. code_value < ByteMax /\ code_value >= 1
  <2>0. output_code_head \in Nat \ {0} /\ input_head <= Len(input)
    BY <1>1, <1>2, <1>3
  <2>1. input_head - output_code_head + 2 < ByteMax
    <3>1. \A j \in output_code_head..input_head : input[j] # 0
      BY <1>4
    <3>. QED
      BY <1>1, <2>0, <3>1, ShortRun
  <2> QED BY <1>1, <1>3, <1>4, <2>1
<1>6. AsByte(code_value) = code_value
  BY <1>1, <1>5, StoredAsItIs
<1> DEFINE full == [out EXCEPT ![output_code_head + 1] = AsByte(code_value),
                               ![output_head + 1] = 0]
<1>7. output_code_head + 1 \in 1..Len(out) /\ output_head + 1 \in 1..Len(out)
      /\ output_code_head + 1 # output_head + 1
  BY <1>1, <1>3
<1>8. /\ full[output_code_head + 1] = code_value /\ full[output_head + 1] = 0
      /\ \A k \in 1..Len(out) : k # output_code_head + 1 /\ k # output_head + 1 => full[k] = out[k]
  BY <1>3, <1>6, <1>7
<1>9. out' = SubSeq(full, 1, output_head + 1)
  BY DEF FinishEncode
<1> HIDE DEF full
<1>10. Len(out') = Len(input) + 3 /\ \A k \in 1..(Len(input) + 3) : out'[k] = full[k]
  <2>1. \A k \in 1..(output_head + 1) : full[k] \in 0..ByteMax
    <3>1. code_value \in 0..ByteMax /\ 0 \in 0..ByteMax
      BY <1>1, <1>4, <1>5
    <3>2. \A k \in 1..Len(out) : out[k] \in 0..ByteMax
      BY <1>3, ElementOfSeq
    <3>3. \A k \in 1..(output_head + 1) : k \in 1..Len(out)
      BY <1>1, <1>3
    <3> QED BY <1>8, <3>1, <3>2, <3>3
  <2>2. 1 \in Int /\ output_head + 1 \in Int
    BY <1>1
  <2>3. /\ Len(out') = IF 1 <= output_head + 1 THEN (output_head + 1) - 1 + 1 ELSE 0
        /\ \A k \in 1..((output_head + 1) - 1 + 1) : out'[k] = full[1 + k - 1]
    BY <1>9, <2>1, <2>2, SubSeqProperties
  <2>4. output_head + 1 = Len(input) + 3
    BY <1>1, <1>2, <1>4
  <2> QED BY <1>1, <2>3, <2>4
<1>11. out'[1] = 0 /\ out'[Len(input) + 3] = 0
  <2>1. /\ output_head + 1 = Len(input) + 3 /\ Len(input) + 3 \in 1..(Len(input) + 3)
        /\ 1 \in 1..(Len(input) + 3) /\ 1 \in 1..Len(out)
        /\ 1 # output_code_head + 1 /\ 1 # output_head + 1
    BY <1>1, <1>2, <1>3, <1>4
  <2>2. full[1] = 0 /\ full[Len(input) + 3] = 0
    BY <1>4, <1>8, <2>1
  <2>. QED
    BY <1>10, <2>1, <2>2
<1>12. ASSUME NEW i \in 0..Len(input) PROVE Image(input, i, out'[i + 2])
  <2>1. out'[i + 2] = full[i + 2] /\ i + 2 \in 1..Len(out) /\ i + 2 # output_head + 1
    <3>1. i + 2 \in 1..(Len(input) + 3) /\ i + 2 \in 1..Len(out) /\ i + 2 # output_head + 1
      BY <1>1, <1>2, <1>3, <1>4
    <3>. QED
      BY <1>10, <3>1
  <2>2. CASE i = output_code_head - 1
    <3>1. out'[i + 2] = code_value /\ (i = 0 \/ input[i] = 0)
      BY <1>1, <1>4, <1>8, <2>1, <2>2
    <3>2. i + code_value = Len(input) + 1 /\ i + 1 = output_code_head
      BY <1>1, <1>2, <1>4, <2>2
    <3>3. IsCode(input, i, code_value)
      <4>1. i + code_value - 1 = input_head
        BY <1>1, <1>2, <3>2
      <4>2. \A j \in (i + 1)..(i + code_value - 1) : input[j] # 0
        BY <1>4, <3>2, <4>1
      <4>3. i + code_value <= Len(input) + 1
        BY <1>1, <3>2
      <4>. QED
        BY <1>5, <3>2, <4>2, <4>3 DEF IsCode
    <3> QED BY <1>5, <3>1, <3>3 DEF Image
  <2>3. CASE i # output_code_head - 1
    <3>1. full[i + 2] = out[i + 2]
      BY <1>1, <1>8, <2>1, <2>3
    <3> QED BY <1>2, <1>4, <2>1, <2>3, <3>1
  <2> QED BY <2>2, <2>3
<1>13. Len(<<>>) = 0
  OBVIOUS
<1> QED BY <1>1, <1>2, <1>4, <1>10, <1>11, <1>12, <1>13 DEF CutInv

\* handle_uart_bytes: what lies between the delimiters becomes one packet.
LEMMA CutStep ==
  ASSUME IInv, TripInv, Ordinary(input), CutByte
  PROVE  IF pc' = "cut" THEN CutInv' ELSE WireInv'
<1>1. /\ input \in Seq(0..ByteMax) /\ Len(input) \in Nat /\ read_head \in Nat
      /\ wire \in Seq(1..ByteMax) /\ Len(wire) \in Nat
  BY DEF IInv, TypeOK
<1>2. /\ pc = "cut" /\ read_head < Len(out)
      /\ UNCHANGED <<input, out, decoded, code, left_in_block>>
  BY DEF CutByte, encodeVars
<1>3. /\ CutInv /\ code = ByteMax /\ left_in_block = 0 /\ decoded = <<>>
  BY <1>2 DEF TripInv, IInv, DecodeInv
<1>4. /\ Len(out) = Len(input) + 3 /\ out[1] = 0 /\ out[Len(input) + 3] = 0
      /\ \A i \in 0..Len(input) : Image(input, i, out[i + 2])
      /\ read_head <= Len(input) + 2
      /\ Len(wire) = IF read_head = 0 THEN 0 ELSE read_head - 1
      /\ \A k \in 1..Len(wire) : wire[k] = out[k + 1]
  BY <1>3 DEF CutInv
<1>5. CASE read_head = 0
  <2>1. wire = <<>>
    BY <1>1, <1>4, <1>5, EmptySeq
  <2>2. wire' = wire /\ read_head' = 1 /\ pc' = "cut"
    BY <1>2, <1>4, <1>5, <2>1 DEF CutByte
  <2>3. read_head' <= Len(input) + 2 /\ read_head' # 0 /\ read_head' - 1 = 0 /\ Len(wire) = 0
    BY <1>1, <1>4, <1>5, <2>2
  <2>. QED
    BY <1>2, <1>4, <2>2, <2>3 DEF CutInv
<1>6. CASE read_head \in 1..(Len(input) + 1)
  <2>. DEFINE b == out[read_head + 1]
  <2>1. read_head - 1 \in 0..Len(input) /\ read_head - 1 + 2 = read_head + 1
    BY <1>1, <1>6
  <2>2. Image(input, read_head - 1, b)
    BY <1>4, <2>1
  <2>3. b # 0
    BY <2>2 DEF Image, IsCode
  <2>4. wire' = Append(wire, b) /\ read_head' = read_head + 1 /\ pc' = "cut"
    BY <1>2, <2>3 DEF CutByte
  <2>5. Len(wire) = read_head - 1 /\ read_head # 0
    BY <1>4, <1>6
  <2>6. Len(wire') = read_head /\ read_head' # 0 /\ read_head' - 1 = read_head
        /\ read_head' <= Len(input) + 2
    <3>1. Len(wire') = Len(wire) + 1
      BY <1>1, <2>4
    <3>. QED
      BY <1>1, <1>6, <2>4, <2>5, <3>1
  <2>7. ASSUME NEW k \in 1..Len(wire') PROVE wire'[k] = out[k + 1]
    <3>1. CASE k = read_head
      BY <1>1, <2>4, <2>5, <3>1
    <3>2. CASE k # read_head
      <4>1. k \in 1..Len(wire)
        BY <1>1, <2>5, <2>6, <3>2
      <4>2. wire'[k] = wire[k]
        BY <1>1, <2>4, <4>1
      <4>. QED
        BY <1>4, <4>1, <4>2
    <3>. QED
      BY <3>1, <3>2
  <2>. QED
    BY <1>2, <1>4, <2>4, <2>6, <2>7 DEF CutInv
<1>7. CASE read_head = Len(input) + 2
  <2>1. out[read_head + 1] = 0 /\ read_head # 0 /\ Len(wire) = Len(input) + 1
    BY <1>1, <1>4, <1>7
  <2>2. wire # <<>>
    BY <1>1, <2>1
  <2>3. pc' = "decode" /\ read_head' = 0 /\ wire' = wire
    BY <2>1, <2>2 DEF CutByte
  <2>4. ASSUME NEW i \in 0..Len(input) PROVE Image(input, i, wire[i + 1])
    <3>1. i + 1 \in 1..Len(wire) /\ (i + 1) + 1 = i + 2
      BY <1>1, <2>1
    <3>. QED
      BY <1>4, <3>1
  <2>5. Len(decoded) = 0 /\ \A k \in 1..Len(decoded) : decoded[k] = input[k]
    BY <1>3
  <2>. QED
    BY <1>2, <1>3, <2>1, <2>3, <2>4, <2>5 DEF WireInv
<1>. QED
  BY <1>1, <1>4, <1>5, <1>6, <1>7

LEMMA OneMoreByte ==
  ASSUME NEW x \in Seq(0..ByteMax), NEW d \in Seq(0..ByteMax), NEW n \in Nat \ {0},
         Len(d) = n - 1, \A k \in 1..Len(d) : d[k] = x[k]
  PROVE  /\ Len(Append(d, x[n])) = n
         /\ \A k \in 1..n : Append(d, x[n])[k] = x[k]
<1>. DEFINE e == Append(d, x[n])
<1>1. Len(e) = Len(d) + 1 /\ e[Len(d) + 1] = x[n] /\ \A k \in 1..Len(d) : e[k] = d[k]
  OBVIOUS
<1>. HIDE DEF e
<1>2. Len(e) = n /\ e[n] = x[n]
  BY <1>1
<1>3. ASSUME NEW k \in 1..n PROVE e[k] = x[k]
  <2>1. k = n \/ k \in 1..Len(d)
    OBVIOUS
  <2>. QED
    BY <1>1, <1>2, <2>1
<1>. QED
  BY <1>2, <1>3 DEF e

\* The decoder: a byte of a block is a byte of the packet, and a code byte stands
\* for the zero that the code before it has counted down to.
LEMMA DecodeStep ==
  ASSUME IInv, Ordinary(input), WireInv, DecodeData \/ DecodeCode
  PROVE  WireInv'
<1>1. /\ input \in Seq(0..ByteMax) /\ Len(input) \in Nat /\ read_head \in Nat
      /\ wire \in Seq(1..ByteMax) /\ Len(wire) \in Nat
      /\ decoded \in Seq(0..ByteMax) /\ Len(decoded) \in Nat
      /\ left_in_block \in Nat /\ ByteMax \in Nat
  BY CobsAssumption DEF IInv, TypeOK
<1>2. /\ read_head < Len(wire) /\ read_head' = read_head + 1 /\ UNCHANGED <<input, wire>>
      /\ read_head + 1 \in 1..Len(wire) /\ Byte \in 1..ByteMax
  <2>1. read_head < Len(wire) /\ read_head' = read_head + 1 /\ UNCHANGED <<input, wire>>
    BY DEF DecodeData, DecodeCode, Decoding, encodeVars
  <2>2. read_head + 1 \in 1..Len(wire)
    BY <1>1, <2>1
  <2>. QED
    BY <1>1, <2>1, <2>2, ElementOfSeq DEF Byte
<1>3. /\ Len(wire) = Len(input) + 1
      /\ \A i \in 0..Len(input) : Image(input, i, wire[i + 1])
      /\ Len(decoded) = IF read_head = 0 THEN 0 ELSE read_head - 1
      /\ \A k \in 1..Len(decoded) : decoded[k] = input[k]
      /\ read_head = 0 => code = ByteMax /\ left_in_block = 0
      /\ read_head # 0 => code < ByteMax /\ IsCode(input, read_head - 1, left_in_block + 1)
  BY DEF WireInv
<1>4. read_head \in 0..Len(input) /\ Image(input, read_head, Byte)
  BY <1>1, <1>2, <1>3 DEF Byte
<1>5. read_head' # 0 /\ read_head' - 1 = read_head
  BY <1>1, <1>2
<1>6. CASE read_head = 0
  <2>1. DecodeCode /\ decoded' = decoded /\ code' = Byte /\ left_in_block' = Byte - 1
    BY <1>3, <1>6 DEF DecodeData, DecodeCode
  <2>2. IsCode(input, 0, Byte) /\ Byte < ByteMax
    BY <1>4, <1>6 DEF Image
  <2>3. left_in_block' + 1 = Byte /\ Len(decoded') = 0
    BY <1>2, <1>3, <1>6, <2>1
  <2>. QED
    BY <1>2, <1>3, <1>5, <1>6, <2>1, <2>2, <2>3 DEF WireInv
<1>7. CASE read_head # 0 /\ DecodeData
  <2>1. /\ decoded' = Append(decoded, Byte) /\ left_in_block' = left_in_block - 1
        /\ code' = code /\ left_in_block > 0
    BY <1>7 DEF DecodeData
  <2>2. IsCode(input, read_head - 1, left_in_block + 1) /\ code < ByteMax
        /\ Len(decoded) = read_head - 1
    BY <1>3, <1>7
  <2>3. /\ (read_head - 1) + (left_in_block + 1) <= Len(input) + 1
        /\ \A j \in ((read_head - 1) + 1)..((read_head - 1) + (left_in_block + 1) - 1) : input[j] # 0
        /\ \/ (read_head - 1) + (left_in_block + 1) = Len(input) + 1
           \/ input[(read_head - 1) + (left_in_block + 1)] = 0
    BY <2>2 DEF IsCode
  <2>4. /\ (read_head - 1) + (left_in_block + 1) = read_head + left_in_block
        /\ (read_head - 1) + 1 = read_head
        /\ (read_head - 1) + (left_in_block + 1) - 1 = read_head + left_in_block - 1
    BY <1>1
  <2>5. \A j \in read_head..(read_head + left_in_block - 1) : input[j] # 0
    BY <2>3, <2>4
  <2>6. input[read_head] # 0
    BY <1>1, <2>1, <2>5
  <2>7. Byte = input[read_head]
    BY <1>4, <1>7, <2>6 DEF Image
  <2>8. IsCode(input, read_head, left_in_block)
    <3>1. left_in_block >= 1 /\ read_head + left_in_block <= Len(input) + 1
      BY <1>1, <2>1, <2>3
    <3>2. \A j \in (read_head + 1)..(read_head + left_in_block - 1) : input[j] # 0
      BY <1>1, <2>5
    <3>3. read_head + left_in_block = Len(input) + 1 \/ input[read_head + left_in_block] = 0
      BY <2>3, <2>4
    <3>. QED
      BY <3>1, <3>2, <3>3 DEF IsCode
  <2>9. left_in_block' + 1 = left_in_block
    BY <1>1, <2>1
  <2>10. Len(decoded') = read_head /\ \A k \in 1..Len(decoded') : decoded'[k] = input[k]
    <3>1. read_head \in Nat \ {0} /\ decoded' = Append(decoded, input[read_head])
      BY <1>1, <1>7, <2>1, <2>7
    <3>2. Len(decoded) = read_head - 1 /\ \A k \in 1..Len(decoded) : decoded[k] = input[k]
      BY <1>3, <2>2
    <3>. DEFINE e == Append(decoded, input[read_head])
    <3>3. Len(e) = read_head /\ \A k \in 1..read_head : e[k] = input[k]
      BY <1>1, <3>1, <3>2, OneMoreByte
    <3>. HIDE DEF e
    <3>4. decoded' = e
      BY <3>1 DEF e
    <3>. QED
      BY <3>3, <3>4
  <2>. QED
    BY <1>2, <1>3, <1>5, <2>1, <2>2, <2>8, <2>9, <2>10 DEF WireInv
<1>8. CASE read_head # 0 /\ DecodeCode
  <2>1. IsCode(input, read_head - 1, left_in_block + 1) /\ code < ByteMax
        /\ Len(decoded) = read_head - 1 /\ left_in_block = 0
    BY <1>3, <1>8 DEF DecodeCode
  <2>2. code # ByteMax
    <3>1. code \in 0..ByteMax
      BY DEF IInv, TypeOK
    <3>. QED
      BY <1>1, <2>1, <3>1
  <2>3. decoded' = Append(decoded, 0) /\ code' = Byte /\ left_in_block' = Byte - 1
    BY <1>8, <2>2 DEF DecodeCode
  <2>4. input[read_head] = 0
    <3>1. (read_head - 1) + (left_in_block + 1) = read_head
      BY <1>1, <2>1
    <3>2. read_head = Len(input) + 1 \/ input[read_head] = 0
      BY <2>1, <3>1 DEF IsCode
    <3>. QED
      BY <1>1, <1>4, <3>2
  <2>5. IsCode(input, read_head, Byte) /\ Byte < ByteMax
    BY <1>4, <2>4 DEF Image
  <2>6. left_in_block' + 1 = Byte
    BY <1>1, <1>2, <2>3
  <2>7. Len(decoded') = read_head /\ \A k \in 1..Len(decoded') : decoded'[k] = input[k]
    <3>1. read_head \in Nat \ {0} /\ decoded' = Append(decoded, input[read_head])
      BY <1>1, <1>8, <2>3, <2>4
    <3>2. Len(decoded) = read_head - 1 /\ \A k \in 1..Len(decoded) : decoded[k] = input[k]
      BY <1>3, <2>1
    <3>. DEFINE e == Append(decoded, input[read_head])
    <3>3. Len(e) = read_head /\ \A k \in 1..read_head : e[k] = input[k]
      BY <1>1, <3>1, <3>2, OneMoreByte
    <3>. HIDE DEF e
    <3>4. decoded' = e
      BY <3>1 DEF e
    <3>. QED
      BY <3>3, <3>4
  <2>. QED
    BY <1>2, <1>3, <1>5, <2>3, <2>5, <2>6, <2>7 DEF WireInv
<1>. QED
  BY <1>6, <1>7, <1>8

LEMMA TripNext == IInv /\ TripInv /\ [Next]_vars => TripInv'
<1>. SUFFICES ASSUME IInv, TripInv, [Next]_vars PROVE TripInv'
  OBVIOUS
<1>1. input' = input
  BY DEF Next, Done, vars, encodeVars, CloseBlock, CopyByte, FinishEncode, CutByte,
         DecodeData, DecodeCode, FinishDecode
<1>. SUFFICES ASSUME Ordinary(input) PROVE TripInv'
  <2>1. Ordinary(input') = Ordinary(input)
    BY <1>1
  <2>. QED
    BY <2>1 DEF TripInv
<1>2. ASSUME CloseBlock \/ CopyByte PROVE TripInv'
  <2>1. pc = "encode" /\ pc' = "encode" /\ UNCHANGED decodeVars
    BY <1>2 DEF CloseBlock, CopyByte, Encoding
  <2>2. BlockInv'
    BY <1>2, <2>1, BlockStep DEF TripInv
  <2>. QED
    BY <2>1, <2>2 DEF TripInv, decodeVars
<1>3. ASSUME FinishEncode PROVE TripInv'
  <2>1. pc = "encode" /\ pc' = "cut" /\ UNCHANGED decodeVars
    BY <1>3 DEF FinishEncode
  <2>2. CutInv'
    BY <1>3, FinishStep
  <2>. QED
    BY <2>1, <2>2 DEF TripInv, decodeVars
<1>4. ASSUME CutByte PROVE TripInv'
  <2>1. pc = "cut" /\ pc' \in {"cut", "decode"} /\ UNCHANGED <<code, left_in_block>>
    BY <1>4 DEF CutByte
  <2>2. IF pc' = "cut" THEN CutInv' ELSE WireInv'
    BY <1>4, CutStep
  <2>. QED
    BY <2>1, <2>2 DEF TripInv
<1>5. ASSUME DecodeData \/ DecodeCode PROVE TripInv'
  <2>1. pc = "decode" /\ pc' = "decode"
    BY <1>5 DEF DecodeData, DecodeCode, Decoding
  <2>2. WireInv'
    BY <1>5, <2>1, DecodeStep DEF TripInv
  <2>. QED
    BY <2>1, <2>2 DEF TripInv
<1>6. ASSUME FinishDecode PROVE TripInv'
  BY <1>6 DEF FinishDecode, encodeVars, decodeVars, TripInv, WireInv
<1>7. ASSUME UNCHANGED vars PROVE TripInv'
  BY <1>7 DEF vars, encodeVars, decodeVars, TripInv, BlockInv, CutInv, WireInv
<1>. QED
  BY <1>2, <1>3, <1>4, <1>5, <1>6, <1>7 DEF Next, Done

LEMMA TripHolds == Spec => []TripInv
BY TripInit, TripNext, Invariant, PTL DEF Spec

\* CobsDecode undoes CobsEncode: whatever the length of a packet that has no 254
\* non-zero bytes in a row, handle_uart_bytes cuts one packet from what was sent,
\* and that decodes to the bytes that were encoded.
THEOREM RoundTripHolds == Spec => []RoundTrip
<1>1. IInv /\ TripInv => RoundTrip
  <2>. SUFFICES ASSUME IInv, TripInv, Encoded, ~FullRun(input) PROVE decoded = input
    BY DEF RoundTrip
  <2>1. WireInv /\ read_head = Len(wire)
    BY DEF TripInv, Ordinary, Encoded
  <2>2. /\ input \in Seq(0..ByteMax) /\ decoded \in Seq(0..ByteMax) /\ Len(input) \in Nat
    BY DEF IInv, TypeOK
  <2>3. Len(decoded) = Len(input)
    BY <2>1, <2>2 DEF WireInv
  <2>4. \A k \in 1..Len(decoded) : decoded[k] = input[k]
    BY <2>1 DEF WireInv
  <2>. QED
    BY <2>2, <2>3, <2>4, SeqEqual
<1>. QED
  BY <1>1, Invariant, TripHolds, PTL
=============================================================================

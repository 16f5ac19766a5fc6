------------------------------- MODULE MCCobs -------------------------------
(* Cobs on bytes of 0..ByteMax for a small ByteMax.  The encoder only tells zero
   from non-zero, so inputs are made of 0 and 1; the decoder reads every byte as
   a possible code, so damaged packets are made of every non-zero byte.       *)
EXTENDS Cobs, SequencesExt

CONSTANTS MaxInput, MaxWire
MCInputs == BoundedSeq({0, 1}, MaxInput)
MCWires  == BoundedSeq(1..ByteMax, MaxWire)
=============================================================================

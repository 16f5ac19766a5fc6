-------------------------------- MODULE Crc32 --------------------------------
(***************************************************************************)
(* crc32.cpp: the checksum, half a byte at a time.  The 32-bit register is *)
(* the sequence of its eight half bytes, the least significant first.      *)
(*                                                                         *)
(* An operator marked as a slip is a mistake this code could contain and   *)
(* does not; the properties are tested against it.                         *)
(***************************************************************************)
EXTENDS Integers, Sequences, SequencesExt

Nibble == 0..15
TwoTo == <<1, 2, 4, 8, 16, 32, 64, 128>>
Bit(n, k) == (n \div TwoTo[k + 1]) % 2
BitSum(a, b, power) == power * ((a \div power + b \div power) % 2)
Xor == [a \in Nibble |-> [b \in Nibble |->
          BitSum(a, b, 1) + BitSum(a, b, 2) + BitSum(a, b, 4) + BitSum(a, b, 8)]]

\* crc32_table, 0x1db71064 being <<4, 6, 0, 1, 7, 11, 13, 1>>.
crc32_table ==
  << <<0,0,0,0,0,0,0,0>>, <<4,6,0,1,7,11,13,1>>,
     <<8,12,0,2,14,6,11,3>>, <<12,10,0,3,9,13,6,2>>,
     <<0,9,1,4,12,13,6,7>>, <<4,15,1,5,11,6,11,6>>,
     <<8,5,1,6,2,11,13,4>>, <<12,3,1,7,5,0,0,5>>,
     <<0,2,3,8,8,11,13,14>>, <<4,4,3,9,15,0,0,15>>,
     <<8,14,3,10,6,13,6,13>>, <<12,8,3,11,1,6,11,12>>,
     <<0,11,2,12,4,6,11,9>>, <<4,13,2,13,3,13,6,8>>,
     <<8,7,2,14,10,0,0,10>>, <<12,1,2,15,13,11,13,11>> >>

\* _state = ~0L.
Reset == [k \in 1..8 |-> 15]

\* One of the two table steps of update.
TableStep(state, nibble) ==
  LET row == crc32_table[Xor[state[1]][nibble] + 1]
  IN [k \in 1..8 |-> IF k = 8 THEN row[8] ELSE Xor[row[k]][state[k + 1]]]

\* The low half of a byte comes first.  (Slips: the high half does; the second
\* step looks at the low half again.)
NibblesSwapped(byte) == <<byte \div 16, byte % 16>>
NibblesLow(byte)     == <<byte % 16, byte % 16>>
Nibbles(byte)        == <<byte % 16, byte \div 16>>

update(state, byte) == TableStep(TableStep(state, Nibbles(byte)[1]), Nibbles(byte)[2])

\* finalize.  (Slip: -_state for ~_state.)
Negated(n) == 16 - n
Inverted(n) == 15 - n

calculate(data) ==
  LET state[i \in 0..Len(data)] == IF i = 0 THEN Reset ELSE update(state[i - 1], data[i])
      final == state[Len(data)]
  IN [k \in 1..8 |-> Inverted(final[k])]

-----------------------------------------------------------------------------
(* CRC-32 by its definition: the remainder of the division by the polynomial
   0xedb88320, a bit at a time, on a register of 32 bits.                     *)

Bits(nibbles) == [i \in 1..(4 * Len(nibbles)) |->
                    Bit(nibbles[(i - 1) \div 4 + 1], (i - 1) % 4)]
Polynomial == Bits(<<0, 2, 3, 8, 8, 11, 13, 14>>)

DivideBit(register, bit) ==
  LET feedback == (register[1] + bit) % 2
  IN [k \in 1..32 |-> ((IF k = 32 THEN 0 ELSE register[k + 1])
                         + feedback * Polynomial[k]) % 2]

\* A byte is divided from its lowest bit on.
DivideByte(register, byte) ==
  LET after[k \in 0..8] == IF k = 0 THEN register ELSE DivideBit(after[k - 1], Bit(byte, k - 1))
  IN after[8]

DefinedCrc(data) ==
  LET register[i \in 0..Len(data)] ==
        IF i = 0 THEN [k \in 1..32 |-> 1] ELSE DivideByte(register[i - 1], data[i])
  IN [k \in 1..32 |-> 1 - register[Len(data)][k]]
=============================================================================

------------------------------ MODULE FrameLink ------------------------------
(***************************************************************************)
(* What the serial path promises the code behind its callback: a link that *)
(* may lose bytes and may cut and join what the brain framed, but that     *)
(* never invents, repeats or reorders anything.  This is all that          *)
(* RegistryListener takes for granted of the wire; a torn packet is told   *)
(* from a whole one by its checksum (Codec).                               *)
(*                                                                         *)
(* A byte is its place in the brain's stream.                              *)
(***************************************************************************)
EXTENDS Naturals, Sequences, Functions

CONSTANT Delimiters     \* the places of the stream that hold 0x00

VARIABLES sent,         \* bytes the brain has put on the wire
          delivered     \* packets the callback was given

Before(p, q) == \A b \in Range(p), c \in Range(q) : b < c
Ascending(p) == \A i, j \in DOMAIN p : i < j => p[i] < p[j]

Init == sent = 0 /\ delivered = <<>>

Send == sent' \in Nat /\ sent' > sent /\ UNCHANGED delivered

\* One more packet: some bytes that were sent, later than all delivered so far, in
\* the order they were sent, and none of them a delimiter.
Deliver ==
  /\ \E p \in Range(delivered') :
       /\ delivered' = Append(delivered, p)
       /\ p # <<>> /\ Ascending(p)
       /\ Range(p) \subseteq (0..(sent - 1)) \ Delimiters
       /\ \A q \in Range(delivered) : Before(q, p)
  /\ UNCHANGED sent

Next == Send \/ Deliver

Spec == Init /\ [][Next]_<<sent, delivered>>
=============================================================================

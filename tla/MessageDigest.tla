--------------------------- MODULE MessageDigest ----------------------------
(***************************************************************************)
(* What a streaming hash promises: the digest is that of all the bytes     *)
(* since the start, however they were cut into updates.  A digest stands   *)
(* for what is compressed: the message, a bit, as few zeros as make whole  *)
(* blocks, and the length.                                                 *)
(***************************************************************************)
EXTENDS Integers, Sequences

CONSTANTS
  Byte,          \* the bytes; 0 and 128 are two of them
  Block,         \* bytes of a block (64)
  LengthBytes,   \* bytes of an encoded length (8)
  Encoded(_)     \* the big-endian bytes of a length in bits

VARIABLES message, digest

hvars == <<message, digest>>

Zeros(n) == [i \in 1 .. n |-> 0]

\* Zeros after n bytes and a bit.
Filling(n) ==
  CHOOSE k \in 0 .. Block - 1 : (n + 1 + k + LengthBytes) % Block = 0

Padded(m) == m \o (<<128>> \o Zeros(Filling(Len(m))) \o Encoded(8 * Len(m)))

Init == message = << >> /\ digest = << >>
Start == message' = << >> /\ digest' = << >>
Extend ==
  /\ message' \in Seq(Byte)
  /\ Len(message') >= Len(message)
  /\ SubSeq(message', 1, Len(message)) = message
  /\ UNCHANGED digest
Digest == digest' = Padded(message) /\ UNCHANGED message
Next == Start \/ Extend \/ Digest
Spec == Init /\ [][Next]_hvars
=============================================================================

------------------------------- MODULE Sha256 -------------------------------
(***************************************************************************)
(* The streaming hash of the HACL library that computes every SHA-256 on   *)
(* native platforms.  The state is what was compressed, a buffer of one    *)
(* block and the number of bytes so far.  A full buffer is compressed only *)
(* when more bytes come: the last block belongs to finish.                 *)
(*                                                                         *)
(* Compressing appends to block_state: a hash is what was compressed.      *)
(***************************************************************************)
EXTENDS Integers, Sequences

CONSTANTS
  Byte, Block, LengthBytes, Encoded(_),   \* see MessageDigest
  Inputs,                                 \* byte arrays that are hashed
  MaxTotal                                \* bound of the model: bytes of a message

ASSUME BlockAssumption ==
  Block \in Nat /\ LengthBytes \in Nat /\ LengthBytes + 1 < Block

ASSUME ByteAssumption ==
  /\ 0 \in Byte /\ 128 \in Byte
  /\ MaxTotal \in Nat
  /\ \A n \in 0 .. 8 * (MaxTotal + Block) : Encoded(n) \in [1 .. LengthBytes -> Byte]
  /\ Inputs \subseteq Seq(Byte)

VARIABLES
  allocated,   \* there is a state
  state,       \* block_state, buf and total_len
  message,     \* history: the bytes given to update since create
  digest       \* what finish wrote last since create

hashVars == <<allocated, state, message, digest>>

Zeros(n) == [i \in 1 .. n |-> 0]
First(s, n) == SubSeq(s, 1, n)
Rest(s, n) == SubSeq(s, n + 1, Len(s))

\* memcpy to an offset of the buffer.
Memcpy(buf, offset, data) ==
  [i \in 1 .. Block |-> IF offset < i /\ i <= offset + Len(data) THEN data[i - offset] ELSE buf[i]]

-----------------------------------------------------------------------------
\* A mutant: a full buffer counts as an empty one.
KeptEagerly(n) == n % Block

(***************************************************************************)
(* The bytes of n that are kept back: a whole block, if n ends in one.     *)
(***************************************************************************)
Kept(n) == IF n % Block = 0 /\ n > 0 THEN Block ELSE n % Block

\* A mutant: what stays in the buffer is not counted.
FillUncounted(s, data) ==
  [block_state |-> s.block_state,
   buf |-> Memcpy(s.buf, Kept(s.total_len), data),
   total_len |-> s.total_len]

\* update, of what fits: it goes to the buffer.
Fill(s, data) ==
  [block_state |-> s.block_state,
   buf |-> Memcpy(s.buf, Kept(s.total_len), data),
   total_len |-> s.total_len + Len(data)]

\* A mutant: the buffer is left behind.
AbsorbData(s, data) ==
  LET blocks == Len(data) - Kept(Len(data))
  IN  [block_state |-> s.block_state \o First(data, blocks),
       buf |-> Memcpy(s.buf, 0, Rest(data, blocks)),
       total_len |-> s.total_len + Len(data)]

(***************************************************************************)
(* What does not fit: the buffer and the whole blocks are compressed, the  *)
(* rest is kept.                                                           *)
(***************************************************************************)
Absorb(s, data) ==
  LET blocks == Len(data) - Kept(Len(data))
      buffered == IF Kept(s.total_len) = 0 THEN << >> ELSE s.buf
  IN  [block_state |-> s.block_state \o (buffered \o First(data, blocks)),
       buf |-> Memcpy(s.buf, 0, Rest(data, blocks)),
       total_len |-> s.total_len + Len(data)]

\* update fills a buffer up before it compresses it.
Updated(s, data) ==
  LET diff == Block - Kept(s.total_len)
  IN  IF Len(data) <= diff THEN Fill(s, data)
      ELSE IF diff = Block THEN Absorb(s, data)
      ELSE Absorb(Fill(s, First(data, diff)), Rest(data, diff))

-----------------------------------------------------------------------------
\* A mutant: the bit is not counted.
PadZerosOneMore(n) == (2 * Block - (LengthBytes + (n % Block))) % Block

(***************************************************************************)
(* pad: a bit, zeros and the length in bits.                               *)
(***************************************************************************)
PadZeros(n) == (2 * Block - (LengthBytes + 1 + (n % Block))) % Block

Pad(n) == <<128>> \o Zeros(PadZeros(n)) \o Encoded(8 * n)

\* A mutant: only the bytes of the last call are counted.
UpdateLastAlone(block_state, prev_len, input) ==
  LET blocks == (Len(input) \div Block) * Block
      tmp == Rest(input, blocks) \o Pad(Len(input))
  IN  block_state \o First(input, blocks) \o First(tmp, (Len(tmp) \div Block) * Block)

\* Compresses the whole blocks of the input, then the rest with its padding.
UpdateLast(block_state, prev_len, input) ==
  LET blocks == (Len(input) \div Block) * Block
      tmp == Rest(input, blocks) \o Pad(prev_len + Len(input))
  IN  block_state \o First(input, blocks) \o First(tmp, (Len(tmp) \div Block) * Block)

\* finish works on a copy of block_state.
Finished(s) ==
  UpdateLast(s.block_state, s.total_len - Kept(s.total_len), First(s.buf, Kept(s.total_len)))

\* A hash of an HMAC: of the key block, which is compressed first unless
\* nothing follows it, and the data.
HashAfter(block, data) ==
  IF Len(data) = 0 THEN UpdateLast(<< >>, 0, block) ELSE UpdateLast(block, Block, data)

\* The hash of a key longer than a block in one call.
Hashed(data) ==
  LET blocks == Len(data) - Kept(Len(data))
  IN  UpdateLast(First(data, blocks), blocks, Rest(data, blocks))

-----------------------------------------------------------------------------
NewState == [block_state |-> << >>, buf |-> Zeros(Block), total_len |-> 0]

HashInit ==
  /\ allocated = FALSE
  /\ state = NewState
  /\ message = << >>
  /\ digest = << >>

Create ==
  /\ ~allocated
  /\ allocated' = TRUE
  /\ state' = NewState
  /\ message' = << >>
  /\ digest' = << >>

Update(data) ==
  /\ allocated
  /\ Len(message) + Len(data) <= MaxTotal
  /\ state' = Updated(state, data)
  /\ message' = message \o data
  /\ UNCHANGED <<allocated, digest>>

Finish ==
  /\ allocated
  /\ digest' = Finished(state)
  /\ UNCHANGED <<allocated, state, message>>

Free ==
  /\ allocated
  /\ allocated' = FALSE
  /\ UNCHANGED <<state, message, digest>>

HashNext == Create \/ (\E data \in Inputs : Update(data)) \/ Finish \/ Free

HashSpec == HashInit /\ [][HashNext]_hashVars

-----------------------------------------------------------------------------
HashTypeOK ==
  /\ allocated \in BOOLEAN
  /\ state.buf \in [1 .. Block -> Byte]
  /\ state.total_len = Len(message)

(***************************************************************************)
(* No byte is lost, doubled or misplaced at the edge of a block: what was  *)
(* compressed, which is whole blocks, and the kept part of the buffer are  *)
(* the message.                                                            *)
(***************************************************************************)
NothingLost ==
  /\ message = state.block_state \o First(state.buf, Kept(state.total_len))
  /\ Len(state.block_state) % Block = 0

Abstract == INSTANCE MessageDigest

(***************************************************************************)
(* The hashes that are not streamed pad like the promised digest, with no  *)
(* data and with data that end in a whole block.                           *)
(***************************************************************************)
OneShotsExact ==
  /\ Hashed(message) = Abstract!Padded(message)
  /\ HashAfter(state.buf, message) = Abstract!Padded(state.buf \o message)

(***************************************************************************)
(* Streaming implements the promise: finish always writes the digest of    *)
(* the whole message, and can be called again, also after more updates.    *)
(***************************************************************************)
ImplementsDigest == Abstract!Spec
=============================================================================

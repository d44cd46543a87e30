# A TLA+ model of the ElectionGuard encryption API

The repository is a Kotlin multiplatform library (JVM and native) that turns
voted ballots into ElectionGuard ciphertext ballots: it validates manifests
and ballots, encrypts ballots in a chain of confirmation codes, keeps
Chaum-Pedersen proofs with them, and holds the group arithmetic and the
discrete-log engine that decryption and verification need. The modules here
describe its behaviour, down to the functions of the vendored HACL library that
the native platform computes with. TLC checks them on small instances, and
TLAPS proves all their safety properties for every value of the constants: every
manifest, ballot, batch, prime order, width of a word and number of threads.

Paths below are under `src/src/commonMain/kotlin/electionguard/` unless they
start with `jvm:` (`src/src/jvmMain/kotlin/electionguard/`), `native:`
(`src/src/nativeMain/kotlin/electionguard/`) or `src/`.

## 1. Inventory

| Component | State | Operations | What makes it correct |
|---|---|---|---|
| `DLog` (jvm: and native: `core/DLog.kt`) | the memo from powers to exponents, the last power enumerated, its counter, a coroutine mutex; shared by all threads that decrypt under one base | `dLog(input, maxResult)` | the memo is append-only and ordered, racing callers agree, `null` only for elements out of reach, every call returns |
| `Encryptor` (`encrypt/Encryptor.kt`) | inside one call: the list built so far and the code seed of the next ballot | `encrypt`, `encryptWithFixedNonces`, `encryptBallot`, `encryptContest`, `encryptSelection` | proofs verify for every mix of votes and undervotes, votes and write-ins are preserved, nonces do not repeat, ballots look alike but for their write-ins, the codes form a chain, all or nothing |
| `EncryptorSimple` (`encrypt/EncryptorSimple.kt`) | none | the same for `ManifestSimple` | the same |
| `ContestPrecompute` (`encrypt/ContestPrecompute.kt`) | votes, placeholders marked, the encryption kept of each contest | constructor, `vote`, `encrypt` | the kept encryption is current, it is what `Encryptor` makes, overvotes are refused |
| `SelectionPrecompute` (`encrypt/SelectionPrecompute.kt`) | votes, placeholders marked, encryptions of 0 and 1 made ahead | constructor, `vote`, `encrypt` | the same; encrypting twice gives the same ballot |
| `CiphertextBallot`, `EncryptedBallot`, `EncryptedTally` | immutable records | `ballotNonce`, `submit` | the nonces can be computed from the master nonce |
| Input validation (`input/*Validation.kt`) | messages collected | `validate` of a manifest, of a ballot | what it lets through can be encrypted without loss |
| `RandomBallotProvider` | none | ballots for tests | its ballots pass validation |
| `Manifest`, `ManifestSimple`, `PlaintextBallot`, election records | immutable records | hashes, maps from styles to contests | hashes separate what they must |
| `EncryptorApi` (`api/EncryptorApi.kt`) | one process-wide encryptor | `setElectionApi`, `encryptApi` | no null is dereferenced, a thread that knows an election is never told that there is none |
| ElGamal, Chaum-Pedersen, Schnorr, hashed ElGamal (`core/`) | none | key generation, encryption, three ways to decrypt, homomorphic sum, making and checking proofs | decryption inverts encryption, proofs verify exactly when they should |
| Hash, `Nonces`, `UInt256` | none | hashing, nonce sequences | different uses get different nonces |
| Group arithmetic (jvm: and native: `core/Group.kt`, `core/GroupCommon.kt`) | contexts, built lazily | addition, multiplication, inverse, powers, Montgomery form | both platforms compute the same residues |
| `PowRadix` | a table of powers | `pow` | it is exponentiation |
| Serialization (`serialize/`) | none | publish, import | import inverts publish, malformed records are refused |
| HACL (`src/libhacl/src/Hacl_Bignum*.c`, `Hacl_GenericField64.c`) | Montgomery contexts | addition, multiplication, Montgomery reduction, powers, comparison of word arrays | it is arithmetic modulo the prime, carries and limits included |
| SHA-256 and HMAC (native: `core/Sha256.kt`, `src/libhacl/src/Hacl_Streaming_SHA2.c`, `Hacl_Hash_SHA2.c`, `Hacl_HMAC.c`) | what was compressed, a buffer of one block, a length | `create`, `update`, `finish`, `free`; two hashes in one call | no byte is lost at the edge of a block, the padding is the standard's |
| Base16, Base64, random numbers, logging | none | conversions | byte-level code |

How they interact. A caller validates the manifest once and every ballot, then
passes the valid ballots to `Encryptor` in one call (or votes selection by
selection on a precomputing object and calls `encrypt` at the end). Encryption
reads the manifest, derives a nonce for each selection from a hash of the
ballot's master nonce, and makes a proof per selection and one per contest.
Decryption ends in `DLog`, the only object that several threads share by
design; `EncryptorApi` shares one by accident of being a top-level `var`.
Every element is made and combined by the group of the platform, fixed bases
through a `PowRadix` table; on native platforms both end in HACL, as every hash does.
Nothing is persisted and no messages are sent, so there are no crash recovery
and no delivery hazards here.

Hard behaviours. The interleavings of `DLog`, whose reads go around the mutex
and whose counter moves on failure; long sequences of `vote` and `encrypt`,
some of which throw half-way, on objects that keep derived state; the
interplay of validation, style, placeholders and proofs over malformed
ballots; and numeric edges: contests without selections, zero votes allowed,
limits of search, words with carries, edges of blocks. The list with lines is `hazards` in PROJECT.json.

## 2. Modules

    DLogTable    what callers of DLog may rely on      (abstract)
    DLog         the engine; implements DLogTable      ThreadProofs: theorems
    Manifest         manifests, ballots, hashes, styles
    InputValidation  EXTENDS Manifest: both validators
    Encryption       EXTENDS Manifest: one selection, one contest, verification
                                                       EncryptionProofs: lemmas
    Encryptor            EXTENDS InputValidation, Encryption: the batch calls
                                                       EncryptorProofs: theorems
    ContestPrecompute    EXTENDS Encryption
                                                       ContestPrecomputeProofs: theorems
    SelectionPrecompute  EXTENDS Encryption
                                                       SelectionPrecomputeProofs: theorems
    ElGamal          keys, ciphertexts, decryption, as exponents modulo Q
    ChaumPedersen    EXTENDS ElGamal: making and checking the proofs
    ContestProof     EXTENDS ChaumPedersen: one contest from votes to result
                                                       CryptoProofs: theorems
    EncryptorApi     threads at the shared encryptor     ThreadProofs: theorems
    MessageDigest    what a streaming hash promises    (abstract)
    Sha256           the streaming hash, HMAC's hashes; implements MessageDigest
                                                       CryptoProofs: theorems
    Bignum           words with carries: the used part of HACL
                                                       BignumProofs: theorems
    NativeGroup      EXTENDS Bignum: the native group
    JvmGroup         the group of the JVM
    PowRadix         powers by table, over any kind of element
    Group            EXTENDS NativeGroup, with instances of JvmGroup and PowRadix:
                     both platforms side by side       GroupProofs: theorems
    MCDLog, MCEncryptor, MCElections, MCContestPrecompute, MCSelectionPrecompute,
    MCContestProof, MCSha256   values of the constants for TLC

**DLog.** A power b^e is represented by e, an element that is no small power
by `Outside`. Per caller a program counter walks through `dLog`: `check` (the
`in` of the lock-free path), `fetch` (the second read, `[]`), `lock`
(suspended at the mutex), `locked` (the second look), `search` (the loop) and
`done`. Each access to the shared map by a reader that holds no lock is a step
of its own. One round of the loop is one step, although it does three writes:
the element and the counter are private to the mutex holder, so the insertion
into the map is all that others can see of it. The counter is
incremented in the condition of the `if`, so also by the round that gives up;
`GiveUp` does so. `LockFreeReads` chooses between the JVM and the native class,
which differ only in the path before the mutex. The history variable `misses`
counts the calls that gave up.

**DLogTable.** Three actions: a caller asks, the table gains a power with an
exponent above all others, a caller is answered from the table or with null.
There are no locks, no limits and no enumeration order. That `DLog` implements
it is linearizability in one formula: `Fetch`, `LockedHit`, `GiveUp` and
`Found` are the answers, `Advance` is the extension, everything else a stutter.

**Manifest, InputValidation.** Records with the fields that behaviour depends
on. A hash is the tuple of what is hashed. The validators give the sets of
the rules that are broken, under the names of the messages. Rule A.2 of the manifest (parties)
is left out, as parties are. `sortedBy` is given by where an element goes: its `Place` is one
more than the number of elements that precede it, with equal orders in the order of the list.
`IsManifest` and `IsPlaintextBallot` are the types of the Kotlin classes.

**Encryption.** ElGamal is symbolic: a ciphertext is its plaintext together
with its nonce, the accumulation of a contest encrypts the sum of the
plaintexts, and the constant proof verifies exactly if that sum is the
constant. Placeholders, sequence numbers, sorting and the derivation of nonces
are as in the code, because the properties are about them. A write-in
(`extendedData`) is a text of some number of bytes, or none; its hashed ElGamal
ciphertext is the text with a nonce of its own, and what is seen of it is that
it is there and its `numBytes`. As in the code, it is encrypted for any
selection that has one, whatever the vote, is in no crypto hash, and the precomputing
classes have none.

**Encryptor.** State: the valid ballots of the caller, the phase of the call,
the random numbers drawn, the code seed, the list built so far. One action per
round of either loop, one for a ballot that throws, one for the return.
Validation is part of the caller's step `Accept`, as the class comment asks of
it.

**ContestPrecompute, SelectionPrecompute.** The state of the Kotlin objects:
the contests of the style (which the constructor copies out of the manifest),
votes, how many placeholders are marked (marking goes from the first and never
back, so a number is enough), and the encryption kept or the ballot returned
last. `Vote` and `Encrypt` are atomic (the objects are not shared), but not
indivisible: an exception in the middle leaves behind what was assigned
before it, and the caller goes on. Voting on an unknown contest or selection
is `RefuseVote`. The constructor is `Init`; its failing cases are in
`Constructible`. For votes below zero the modules follow the code too, but
no run uses them.

**ElGamal, ChaumPedersen.** Pure operators. An element g^e of the subgroup of
order Q is represented by e, so a power is a product and a product is a sum
modulo Q; that makes discrete logarithms trivial, which is no loss for
properties about what is computed (they say nothing about secrecy). The hash is an
oracle: a challenge can be any exponent, and a verifier obtains the same one exactly
if it hashes the same elements; so a proof carries what its challenge was
hashed from, and checking a challenge is comparing that.

**ContestProof.** The life of one contest over these operators:
`EncryptSelection` (`Int.encrypt` with its two exceptions, then the
disjunctive proof with its third), `EncryptContest` (sum of the ciphertexts, sum of the
nonces, constant proof with the nonce), `ProveResult` (constant proof with
the secret key; the repository offers it to the tally's holder and calls it from
tests only). The steps take any randomness, challenge, limit and result, so also wrong ones.
`ContestProofExact` is the discharge of what `Encryption` assumes with
its symbolic ciphertexts (`ProofVerifies`): the two are separate modules, since a
model with both a real group and whole ballots would have too many states.

**EncryptorApi.** The variable `encryptor` is neither volatile nor locked, so
its state is the list of values written, and for each thread how far in it the
thread has seen; a read may return anything from there on. That a thread does
not go back is not the rule of the memory model for two plain reads, but holds
here because a call of `println`, which is synchronized, lies between any two of
them. One action per access: `Check` and `Encrypt` are the two reads of `encryptApi`,
`BeginSet` and `Assign` enclose the parsing of `setElectionApi`, which may throw, as
encryption may.

**MessageDigest, Sha256.** A digest is the bytes that were compressed: the
compression function is a parameter that appears nowhere else. The state is the C
structure, and one action is one call of the library. `ByteArray.sha256` makes one update and one
finish of each state; the model allows any number, as the library promises, so that
the theorems hold for any caller. `Updated` has the three cases of
`Hacl_Streaming_SHA2_update_256`, `Finished` works on a copy as the code does. Block
length, the length's encoding and the bytes are constants. `Hashed` and `HashAfter`
are the two hashes that an HMAC computes without streaming.

**Bignum, NativeGroup.** An array of 64-bit words is a sequence of
numbers below W = 2^WordBits. The chains of carries and borrows are recursive
functions over the words; Karatsuba's halves and signs, the passes of a Montgomery
reduction with their carry out, the conditional last subtraction, the doublings that make
the context, and the windows of an exponent are those of the C code, loops unrolled by four being
one loop. Two copies of the code, for the width of Q (`Hacl_Bignum256`) and for
that of P (`Hacl_Bignum64`, by length), have one definition here. `ModExpVartime` has the
table of the long exponent only, since callers always pass 256 bits. A byte of a
big-endian array stands for the bytes of one word.

**JvmGroup, PowRadix, Group.** The JVM's elements are integers. `PowRadix` is over
any `Times`; its option without acceleration is `powP` itself. `Group` computes one
value twice, one operation after the other, on both platforms; each operation of
`GroupContext` and of the elements is an action, so any sequence of them is a behaviour.
`addQ` and `multP` are folds of `plus` and `times`.

## 3. Runs

| Run | Asks | Bounds, and why they are enough |
|---|---|---|
| `dlog_jvm` | two threads, JVM class: order, drift, agreement, stability, implementation of the table, every call returns | Limits 3 (the default) and 0, five powers, calls start until 2 misses: enough for a caller to wait at the mutex while the other passes its element, for a miss to shift the counter before and after a success, for limits to differ between callers. The theorems remove the bounds for all but liveness. |
| `dlog_exact` | *violation*: "this will find e" | one caller, native class |
| `encrypt` | one-ballot calls over several manifests, of which the ballots are all lists of up to two entries for a contest of two candidates with votes 0 to 2, a write-in, wrong orders, unknown and repeated names, all votes of a contest with three candidates, unknown contests and styles; and batches of up to 3 of a few ballots (`BatchBallots`), two of them with one id, two with equally long write-ins, and a manifest on which every call throws | A contest's encryption depends on no other contest, so one ballot with two contests shows every case; the chain and uniqueness concern pairs of ballots, so three leave room for a neighbour on both sides. |
| `precompute_contest` | every sequence of votes of 0, 1, 2 and encrypts on a ballot with an n-of-m (2 of 3) and a one-of-m contest, unknown names, calls that throw | unbounded sequences: the state space is finite |
| `precompute_selection` | the same for the other class: votes of 2, which it encrypts as 1, and encrypting again after more votes included | unbounded sequences |
| `contest_proof` | do proofs verify exactly when they should, do all ways to decrypt agree | Q = 5, all secret keys, nonces and challenges, randomness 0 and 3, votes -1 to 2, limits and results 0 to 2, two selections: one selection shows both halves of the disjunctive proof, two are the least sum, and in Q = 5 the nonces of two selections can add up to zero. The theorems remove the bound Q for all but the sum of many selections. |
| `precompute_undervotes`, `precompute_nonce` | *violations*, see section 5 | |
| `native_group` | do the native group and the JVM's compute, refuse and answer the same, whatever sequence of operations | order 11 modulo 199, words of two bits, P of four words and Q of two, both above half of their width (as the real primes are): every element of Q and every residue is an operand of sums and products, four exponents (0, 1, one in the middle, Q - 1) and the residues they give are those of `powP` and `div`, whose left operands are all values below P; arrays of every length up to one more than fits, with all values; Karatsuba from four words on. Only residues are accelerated, as the code accelerates public keys and the generator. The exponents sliced have 8 bytes of two nibbles, which is 2 modulo 3 like the real 32, with bytes 0, 1 and 2: each nibble is zero or not. |
| `native_zero` | *violation*: "Checks whether this element is zero." | the same group |
| `sha256` | messages of up to 11 bytes in updates of 0, 1, 2, 4, 5 and 9 bytes, digests at any time | blocks of four bytes: the updates end before, at and after the edge of a block, and reach one and two blocks beyond |
| `encryptor_api` | two threads, two elections, three assignments, encryption and parsing that throw | each thread can read an old value while the other writes, between its two reads too, and more than once. The theorems remove the bounds. |

The bounds of behaviours are `MaxMisses` of `DLog`, which stops new calls (not running
ones) once that many calls gave up, since each moves the counter further; `MaxBallots`,
the length of a batch; `MaxWrites`, the assignments to the shared encryptor; and `MaxTotal`,
the bytes of a message. `Group` bounds operands only (`Exponents`, `MaxMinimum`,
`SliceBytes`, `SliceValues`); its sequences of operations are unbounded. Deadlock checking is off in the
runs of `DLog` (after the last call allowed by the bound nothing is left to do) and of
`Encryptor` and `ContestProof` (a call that has returned, a result that is announced,
is the end of the behaviour), and of `Group` and `Sha256`, where a null or the last update ends what can be
done; it is on in the others. `MaxSelections` bounds a contest.

What the properties say, beyond types:

* `DriftBounded`, `OrderPreserved`, `AnswersAgree`, `NullOnlyOutOfReach`,
  `MemoStable`: the positive side of the drift described in section 5. Exponents
  are too large by at most the number of misses, never out of order, never
  changed, the same for everybody; a waiting caller cannot miss an element
  that another caller enumerated past.
* `ValidBatchEncrypts`, `ContestsVerify`, `VotesPreserved`: validation and
  encryption fit together. Whatever passes the two validators is encrypted
  (save for empty contests), with proofs that verify and the votes intact.
  `VotesPreserved` includes the write-ins: each stays with its own selection.
* `NoncesDistinct`, `InspectionShowsWriteInsOnly`, `ChainLinked`, `BatchEnds`: no two
  encrypted votes share a nonce, also for ballots with equal ids; all ballots of an
  election look alike, save for the places and lengths of their write-ins, which
  the documentation forgets (section 5); the codes form a chain; and a batch ends.
* `KeptIsCurrent`, `MatchesEncryptor`, `CountsInBounds`:
  what `ContestPrecompute` keeps is of the present votes unless the last vote
  threw, where its proof verifies it is exactly what `Encryptor` would make, and it never
  has too few votes in all, nor too many of the voter's.
* `FirstMatchesEncryptor`, `VerifiedMatchesEncryptor`, `FirstProofsTellVotes`,
  `EncryptIsStable` for `SelectionPrecompute`, which marks placeholders in `encrypt` and
  encrypts every vote but 0 as 1. The first ballot is what `Encryptor` would make. Any
  later one, after votes in between or an `encrypt` that threw half-way, has
  wrong contests only where their proof fails. In the first ballot the proof
  tells just the contests with a vote above 1, which the overvote check and the
  placeholders count in full. And encrypting again, without a vote, changes nothing.
* `SelectionProofVerifies`, `ContestProofExact`, `ResultProofExact`,
  `DecryptionsAgree`: for any randomness, zero included, a selection's
  proof verifies; a contest's and a result's verify for the right total and, save for
  the challenge zero, for no other; secret key, guardians' shares and aggregate
  nonce decrypt to the same.
* `PlatformsAgree`, `QueriesAgree`, `SlicesAddUp`: after any sequence of
  operations the words are the number that the JVM has, in Montgomery form too; the
  same arrays are refused; comparisons answer the same (with the exceptions of section 5);
  the slices of an exponent are the exponent, in all three widths.
* `NothingLost`, `OneShotsExact`, `ImplementsDigest`: what was compressed and what
  is buffered are the message; every digest, streamed or not, is of the whole
  message with the standard's padding, however it was cut.
* `NullOnlyWhileUnset`: the two reads of `encryptApi` are not atomic, and
  need not see the last write, but the second never finds null, and null is answered
  only to a thread that has neither set an election nor encrypted for one.

Each property has a mutant of the modelled code that breaks it, kept next to
the definition it replaces.

Fairness. A thread that runs keeps running: weak fairness of the steps of a
caller inside `dLog`. A caller at the mutex is resumed in turn: the mutex is
kotlinx.coroutines' `Mutex`, which is fair (first in, first out), so strong
fairness of `Lock`. Nobody is obliged to call. The loop of `Encryptor` is
sequential code, so weak fairness of its steps together; the caller is not
obliged to start it.

## 4. Proofs

All thirty-four invariants of the passing runs, and the action properties
and refinements, are theorems. What each module of proofs adds to the runs is below; what
only the runs check is at the end of the section.

`ThreadProofs` proves of `DLog`, for any number of callers, both classes, any limits and
any number of misses:

| Theorem | Property |
|---|---|
| `TypeCorrect` | `TypeOK` |
| `DriftIsBounded` | `DriftBounded` |
| `OrderIsPreserved` | `OrderPreserved` |
| `Agreement` | `AnswersAgree` |
| `NullIsOutOfReach` | `NullOnlyOutOfReach` |
| `MemoIsStable` | `MemoStable` |
| `Implementation` | `ImplementsTable` |

Assumed: `DLogAssumption`. The limits are integers, the special values are no
integers, and the powers up to one more than the largest limit are distinct. The last
part holds because the base generates a group of order q (256 bits) while
limits are `Int`.

None of the properties is inductive. What they need in addition, and what the
invariant `IInv` adds:

* `SingleWriter`: who holds the mutex is exactly who is past it. Without it,
  two searches could advance one counter.
* `CounterBounded`: the counter is at least the exponent recorded for the last
  power, and at most that power plus the misses. The first half makes the next
  record the largest (`OrderPreserved`) and, with the limit, keeps the
  enumeration within the distinct powers (`TypeOK`); the second is the drift.
* `SearchesUnknown`: a searching caller looks for an element that the memo
  lacks, or has just reached it, with the counter and the memo in agreement.
  It is what the second look under the mutex buys, and it makes the answer of
  `Found`, which is the counter and not the memo's entry, right; and the
  `null` of `GiveUp`.
* `FetchesKnown`: between the two lock-free reads the element stays known.
* `AnswersFromMemo`: an answer is what the memo says, now and ever after.

`StepIInv` has a step per action, or per group of actions that touch the same
variables, and under it one step per conjunct. `Implementation` maps every step
to an abstract step or a stutter from the same invariant; it uses the primed
invariant once, for the order of the new exponent.

`CryptoProofs` proves of `ContestProof`, for a group of any order Q > 1 (prime where said):

| Theorem | What it says |
|---|---|
| `TypeCorrect` | `TypeOK` of `ContestProof` |
| `SelectionProofsVerify` | `SelectionProofVerifies`, an invariant together with the types |
| `DisjunctiveProofComplete` | the disjunctive proof of 0 or 1 verifies for every key, nonce, randomness and challenge |
| `SumEncryptsSum` | a sum of ciphertexts is a ciphertext of the sum of the messages, with the sum of the nonces |
| `DecryptionInverts` | decryption with the secret key and with the nonce give key^message |
| `ConstantProofExact` | for prime Q, a contest's proof verifies exactly if the constant is the total modulo Q or the challenge is zero |
| `KeyProofExact` | the same of a result's proof, made with the secret key |
| `ContestProofsAreExact` | `ContestProofExact` |
| `ResultProofsAreExact` | `ResultProofExact` |
| `DecryptionsAlwaysAgree` | `DecryptionsAgree` |

Assumed: `QAssumption` (Q > 1), `ContestProofAssumption` (what the inputs range over) and
`OrderAssumption`: no product of nonzero exponents is zero, as Q is prime, and Q is above the
number of selections and the limits, which are `Int`s while Q has 256 bits. Without the second
half a contest could hold Q votes too many and be proved; the first is needed for exactness only.

The argument starts from a few facts about remainders (`ModUnique`: residues that
differ by a multiple of Q are equal; the rest follows from it), by which
every reduction modulo Q on the way can be dropped. `Recovered` is the core: a verifier that
raises h to the response and divides by the challenge recovers
h^(v - dc), where d is what the claimed message is off by. With d = 0 that
is the commitment of an honest prover; with d = 1 or -1 it is the commitment
that the faked half of a disjunctive proof was built for
(`DisjunctiveProofComplete`); and with any other d it equals the honest
one only if dc is zero modulo Q (`ConstantProofExact`).

`ConstantProofExact` holds of anything that `Encrypts` a message. That the accumulation of a
whole contest does, for any number of selections, is `SelectionsAccumulate`: three folds, over
the votes, the nonces and the ciphertexts, go through the list in step (`FoldPasses`), and
`OneMore` is the induction step. The invariant `IInv` says besides the types that every
selection of the contest encrypts its vote with its own nonce, and that the proof of the
contest or of the result was made for the accumulation of these selections and for no others.

`CryptoProofs` proves of `Sha256`, for any block length, encoding of lengths, bytes and inputs:

| Theorem | Property |
|---|---|
| `HashTypeCorrect` | `HashTypeOK` |
| `NoByteLost` | `NothingLost` |
| `OneShots` | `OneShotsExact` |
| `Implementation` | `ImplementsDigest` |

Assumed: `BlockAssumption` (a block holds a bit and a length, and a byte more)
and `ByteAssumption` (what the bytes and inputs are). The invariant
`NothingLost` is the induction hypothesis: the message is what was compressed, followed by the
kept part of the buffer. `UpdatedKeeps` shows that each of the three cases of an
update keeps it, `FillingIsPadZeros` that the subtraction modulo the block length in
the code is the least number of zeros, which the abstract digest `CHOOSE`s, and
`UpdateLastPads` that compressing the last part in one or two blocks is appending
the padding; `Implementation` then maps `Update` to an extension and `Finish` to a digest.

`ThreadProofs` proves of `EncryptorApi`, for any number of threads and elections:

| Theorem | Property |
|---|---|
| `ApiTypeCorrect` | `ApiTypeOK` |
| `NullIsUnset` | `NullOnlyWhileUnset` |

Assumed: `ApiAssumption` (null is no election). The invariant says that only the first value
is null, so a thread past the check, which has seen a second one, cannot read it
again; and that no thread knows more than it has seen. It does not say that the reads
of one thread only go forward: that is `Readable`, an assumption on the memory.

`EncryptorProofs` proves, for any set of manifests and of ballots, and batches of any length:

| Theorem | Property |
|---|---|
| `TypeCorrect` | `TypeOK` |
| `ChainStaysLinked` | `ChainLinked` |
| `ValidatedBatchEncrypts` | `ValidBatchEncrypts` |
| `EveryContestVerifies` | `ContestsVerify` |
| `NoVoteIsLost` | `VotesPreserved` |
| `BallotsLookAlike` | `InspectionShowsWriteInsOnly` |
| `NonceIsUsedOnce` | `NoncesDistinct` |

Assumed: `BallotsAssumption`, the types of ballots, and `ManifestsAssumption`, the types of
manifests and that no contest allows a negative number of votes. The validator does not refuse
that (section 5), but no election has it; everything else that is needed of a manifest or a
ballot (distinct names and orders, known names, no overvote, votes of 0 and 1) is taken from
the model of the validators, in `ManifestIsValid` and `BallotIsValid`. So the theorems say that validation
and encryption fit together for every manifest, not only for those of the run.

The invariant `Inv` ties the list of encrypted ballots to the list of accepted ones: the i-th
is the encryption of the i-th, by the i-th random nonce and with the code of the ballot
before it, and none of them throws. `ChainLinked` and `ValidBatchEncrypts` follow from it; the other
properties need to know what one encryption does. `EncryptionProofs` says that: a
contest's placeholders bring its votes to the number allowed (`PlaceholdersFollow`, `MarksSum`),
the encrypted list is a permutation of the selections and placeholders, sorted by sequence orders
that are distinct (`ContestOfHas`, `SortedPermutes`, `OrdersAreDistinct`), and sums do not depend on the
order (`SortedSum`). `NoncesDiffer` goes through the four ways in which two selections can be
different (ballot, contest, selection, real or placeholder) and finds for each the
part of the derivation that differs.

`ContestPrecomputeProofs` and `SelectionPrecomputeProofs` prove, for any manifests, votes and
sequences of calls, the failing ones included:

| Theorem | Property |
|---|---|
| `ContestPrecomputeProofs!TypeCorrect` | `TypeOK` |
| `KeptStaysCurrent` | `KeptIsCurrent` |
| `CountsStayInBounds` | `CountsInBounds` |
| `PrecomputeMatchesEncryptor` | `MatchesEncryptor` |
| `SelectionPrecomputeProofs!TypeCorrect` | `TypeOK` |
| `FirstBallotMatchesEncryptor` | `FirstMatchesEncryptor` |
| `VerifiedContestsMatchEncryptor` | `VerifiedMatchesEncryptor` |
| `FirstProofTells` | `FirstProofsTellVotes` |
| `EncryptingAgainIsStable` | `EncryptIsStable` |

Assumed: `VotesAssumption`, votes are integers, and `ManifestsAssumption`, as above and with distinct
names within a contest (these classes take a manifest that was validated).

`Inv` of the first says of each contest that is kept for which votes and with how many marked
placeholders it was made (`Kept`): these make up at least the undervotes, and they are the present
ones unless the last vote threw. `MatchesEncryptor` is then arithmetic: if the proof verifies,
just the undervotes are marked, and those are the placeholders that `Encryptor` would mark. `Inv` of the
second says what holds when `encrypt` has just returned (`Returned`): enough is marked, so a second call marks
nothing more and makes the same ballot; after the first call it is exactly the undervotes.
For `VerifiedMatchesEncryptor` and `FirstProofsTellVotes`, `ReturnedContestIs` takes a returned contest
apart into its ones and its marked placeholders. They are at least as many as are
allowed, and the proof verifies exactly if they are as many; then the marked
ones are those that `Encryptor` marks for the same ones. That votes which are not negative
add up to the number of ones exactly if none is above 1 is `SumTells`.

`BignumProofs` proves, for words of any width, arrays of any length, windows of any size that
divides a word and any threshold of Karatsuba, that each algorithm computes its number:

| Theorem | Of | Says |
|---|---|---|
| `LtMaskLess` | `LtMask` | the mask compares the values |
| `MulProduct`, `SqrProduct` | `Mul`, `Sqr` | Karatsuba multiplies and squares, signs and carries of the middle included |
| `ModInvLimbInverse` | `ModInvLimb` | the loop over the bits of a word inverts an odd word |
| `PrecompR2Value` | `PrecompR2` | the doublings give the square of the radix modulo n |
| `ModPrecompValue` | `ModPrecomp` | two reductions and a product give the remainder modulo n |
| `ModExpVartimeValue` | `ModExpVartime` | the windows give the power modulo n |

Assumed: `BignumAssumption`. A chain of carries is a telescoping sum (`ChainSum`): what is
carried out of a word is carried into the next, so the columns and the words differ by the
last carry alone. `Mul` and `Sqr` are by induction over the length, since a half is shorter
(`MulStep`, `SqrStep`), with `KaratsubaStep` for the three products and `TogetherValue` for the places
where the middle's carries go. `ClearStepValue` shows that one step of a Montgomery reduction clears a word by
adding a multiple of the modulus; that the carry of the last step and one conditional subtraction are
enough is `ReductionValue`. Results of the "almost" functions are reduced up to the length of the array only: `Form`,
congruent to the radix times a number, is what they preserve, and only `FromMont` brings a result
below the modulus.

`GroupProofs` proves, for any primes, generator, operands and sequence of operations:

| Theorem | Property |
|---|---|
| `GroupTypeCorrect` | `TypeOK` |
| `BothPlatformsAgree` | `PlatformsAgree` |
| `BothAnswerAlike` | `QueriesAgree` |
| `ExponentsAreSliced` | `SlicesAddUp` |

Assumed: `NativeGroupAssumption` (P and Q are odd, in the upper half of their words, Q divides
P - 1) and `GroupAssumption` (a power Q - 1 is one modulo Q, which holds of primes and is all that
division needs; the generator has order Q; a byte is two nibbles, and exponents have 2 modulo 6 bytes,
as 32 are). TLC evaluates them on the run. Since a byte stands for a word in this model, the real
sizes that satisfy them are those of words of 8 bits, Q of 32 and P of 512; the theorems of `BignumProofs` hold
for words of 64 bits as well.

The properties are not inductive as they stand: that the numbers agree says nothing of a next
operation unless the words are known to be of the right width and below the prime, or to be
the constant zero. The invariant `IInv` says so (`IsQ`, `IsP`), and of a sliced exponent that its bytes are
its number; TLC has checked it on the run's instance. For each operation one lemma shows that both
platforms keep the relation. `PlusQValue` needs that Q fills the upper half of its words: a sum with a carry is brought below
Q by adding 2^256 - Q once. `MultInvPValue` is where the subgroup is needed (`ResidueInverts`), so `Group` inverts
only there. The tables are by induction over rows and columns (`PowersForm`, `RowForm`), and a power
by table is a power since the slices are the digits of the exponent (`LowSlices`,
`ExtremeSlices`, `HighSlices`). That the JVM's Montgomery product divides without a remainder is `RedcExact`.

Induction. The library's induction theorems cannot be used, as they take an operator as a
parameter. `EncryptionProofs` goes around that for two forms, in which the induction is over a
set: `SubsetInduction`, over the subsets of a finite set, and `NatSetInduction`, over the
numbers (in `BignumProofs` too, with `RecursionExists` for the loops). Both come from a least counterexample under strict inclusion, which
`FS_StrictSubsetOrderingWellFounded` of the library provides. Folds of the community modules are
recursive functions under a CHOOSE; `SumExists` and `FoldExists` prove that they exist, and
`SumIterUnique` and `FoldPasses` what they compute.

Only model-checked: liveness (`CallsReturn`, `BatchEnds`), which is beyond the provers.

## 5. Where code and documentation part

With a run:

* **DLog drifts** (`dlog_exact`; jvm: and native: `core/DLog.kt`). The comparison
  `dLogMaxExponent++ > dlogMax` increments when it gives up as well. After a
  search that fails, each further power is recorded with an exponent
  that is one too large, against "this will find e" (`core/DLog.kt:18`). By
  the same drift, an element below the limit that was not enumerated yet is
  reported as not found after enough misses.
* **Placeholders stay marked** (`precompute_undervotes`;
  `encrypt/ContestPrecompute.kt:127`). A second vote in a contest with two votes
  allowed encrypts three votes in all; its constant proof is wrong.
* **The null master nonce** (`precompute_nonce`;
  `encrypt/ContestPrecompute.kt:35`). In an initializer the constructor parameter hides
  the property, so with null the nonces do not follow from the ballot's master nonce.
* **A zero that is not zero** (`native_zero`; native: `core/Group.kt:299`). The
  native `zeroModQ` has the width of P, `isZero` compares arrays, and every
  zero that was computed has four words. For the same reason `ZERO_MOD_Q`
  compares as greater than such a zero, and has another hash code, though it equals it.

Seen while modelling, without a run of their own:

* An encrypted ballot shows, without decryption, for which selections something was
  written in and how long it is: `extendedData` is attached to those selections only, and
  its ciphertext carries the number of bytes (`encrypt/Encryptor.kt:210`). `ballot/EncryptedBallot.kt:7` says
  that "an inspection of an EncryptedBallot reveals no information";
  `InspectionShowsWriteInsOnly` says that it reveals nothing else.
* `SelectionPrecompute.encrypt`, then `vote`, then `encrypt` again has the
  stale placeholders too (`encrypt/SelectionPrecompute.kt:115`), and so may the first
  `encrypt` that succeeds after one that threw. That is why
  `FirstMatchesEncryptor` is about the first call only; `VerifiedMatchesEncryptor` says of
  all calls that such a contest has a proof that fails.
* `SelectionPrecompute` encrypts a vote of 2 as 1 (`encrypt/SelectionPrecompute.kt:186`) but fills up
  the undervotes as if it were two: the contest's proof fails (`FirstProofsTellVotes`).
* `src/docs/InputValidation.md:60` asks 0 < votes_allowed of an n_of_m contest; the
  code checks the upper bound only (`input/ManifestInputValidation.kt:128`).
* A contest without selections passes manifest validation (approval, with no votes
  allowed) and makes `maxOf` throw (`encrypt/Encryptor.kt:152`); the whole batch is lost.
  `ValidBatchEncrypts` excepts it.
* After an overvote threw in `ContestPrecompute.vote`, the vote stays set and the
  encryption from before is kept; `encrypt` returns it (`encrypt/ContestPrecompute.kt:113`).
* `README.md:67` says that all code is thread-safe. `EncryptorApi.kt:19` is a plain
  variable: a thread may encrypt for an election long replaced. The model allows it, and
  shows what holds nevertheless.
* A malformed public key becomes zero (`api/EncryptorApi.kt:31`), and `setElectionApi`
  answers true.
* The platforms differ where `Group` does not go: `binaryToElement` of an array with several leading
  zeros too many is null on native platforms and a value on the JVM; `safeBinaryToElementModQ` of more
  than 32 bytes is hashed there (native: `core/Group.kt:424`) and reduced here; of an
  array longer than P `safeBinaryToElementModP` takes the lower bytes there (native:
  `core/Group.kt:383`) and reduces the whole number here; the
  native inverse of P (line 756) is right in the subgroup only; the JVM's inverse
  of zero throws.
* `ProductionMontgomeryElementModP.equals` compares with another class (native:
  `core/Group.kt:836`), so no two of them are equal.
* `countEncryptions` (`input/ManifestInputValidation.kt:191`) counts the
  contests of a style, while `Encryptor` encrypts all contests of the manifest
  whatever the ballot's style; they agree for styles with all contests.

What no property decides. Some hazards of PROJECT.json bite in a case that the properties
leave out, because code and documentation promise nothing for it, or because a
property would only repeat one line: the empty contest (`encrypt/Encryptor.kt:152`), which
`ValidBatchEncrypts` excepts; the one-sided bound of votes allowed
(`input/ManifestInputValidation.kt:128`); the malformed key (`api/EncryptorApi.kt:31`) and
the election long replaced (line 41); the comparison with the native `zeroModQ` (native:
`core/Group.kt:299`), which `QueriesAgree` excepts; arrays that are too long (lines 383 and
414) and inverses outside the subgroup (line 756), which no run has as inputs; the
old contest after an overvote (`encrypt/ContestPrecompute.kt:124`), which `KeptIsCurrent` and
`MatchesEncryptor` except; and the import of malformed records, as serialization is not
modelled. The others are described above.

## 6. Not modelled

Not yet, see the plan: `RandomBallotProvider`, Schnorr proofs, the blocks and the key
derivation of hashed ElGamal (whose ciphertexts `Encryption` has as symbols), serialization. Of the Chaum-Pedersen proofs, the generic fake one
(which tests use) and the optional expected constant of the verification. Not at
all: Base16 and Base64, random numbers and logging (byte-level or platform code
without state of the system's own); the compression function of SHA-256, which is a
formula; names, parties, contact information and dates of the manifest (data
that only hashes read); timestamps of ballots; the tally
and election records, which nothing in the repository operates on.
`EncryptorSimple` is a copy of `Encryptor` and is covered by its module, except
that it hashes the placeholder's description in its own way.

The vendored library `src/libhacl/` is by far the most of the repository's C, and
the program calls little of it: the curves, ciphers, MACs, Merkle trees and other
hashes in it are never reached from Kotlin and are no part of the system. What is
called, `Hacl_Bignum256`, `Hacl_Bignum64`, `Hacl_GenericField64`, the SHA-256 stream and
HMAC, is modelled with the functions beneath. In those, paths that no caller takes
are left out: exponents of fewer than 200 bits, bits of an exponent that no full
window covers, and the constant-time variants.

## 7. Plan

1. Done: `DLog` with its abstract table and proofs; validation, encryption and
   the batch encryptor; the precomputing classes.
2. Done: `ElGamal`, `ChaumPedersen` and `ContestProof` over a small group, and all their
   invariants as theorems for a group of any prime order. Left: Schnorr proofs and the inside of hashed ElGamal.
3. Done: `Bignum`, `NativeGroup`, `JvmGroup`, `PowRadix` and `Group`, and `Sha256`, with all
   their invariants as theorems for words, primes and blocks of any size.
4. Done: `EncryptorApi` and its theorems. Left: import of malformed records.
5. Left: `RandomBallotProvider` as a source of ballots for `Encryptor`.
6. Done: theorems for every safety property of `Encryptor`, `ContestPrecompute` and
   `SelectionPrecompute`.

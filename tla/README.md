# PPFE in TLA+

TLA+ models, model checks and proofs for PPFE (preprocessed private function
evaluation): a client that looks up entries of a server's table through hints
it prepares in advance, on top of a homomorphic encryption library that is part
of the repository. Every definition is translated from the source;
`PROJECT.json` maps each to the lines it stands for. In this file `client.cpp`
and the like are under `src/src/`, the library's files under `src/encryption/`.

Contents: [The system](#the-system), [Modules](#modules),
[How the models correspond](#how-the-models-correspond-to-the-code),
[Runs](#runs), [Fairness](#fairness), [What the violations show](#what-the-violations-show),
[Proofs](#proofs), [Observations](#observations), [Not modelled](#not-modelled),
[Plan](#plan).

## The system

### The protocol

| Component | State | Operations | Source |
|---|---|---|---|
| Offline phase | M hints (`HintID`, `ExtraPart`, `ExtraOffset`, `IndicatorBit`), cutoffs, `ciParity`, position in the dummy stream | cutoffs, extra entries, streaming the partitions, `precomputeEncZeros` | `client.cpp`, `utils.cpp` |
| Online query | the same, `NextHintIndex`, `encZeroNext`, results | `find_hint`, building and sending a query, decoding, refreshing the hint | `client_main.cpp`, `client.cpp` |
| PIR server | encrypted database | `preprocessDatabase`, `onlineQuery` | `server.cpp` |
| Helpers | none | `FindCutoff`, `AddSignedMod`, `SecureRandomUint64Below`, degree selection and validation | `utils.cpp` |
| Session | program counters of two processes, two connections, query counters | start, handshake, OT connection, query loop, end signal, faults | `client_main.cpp`, `server_main.cpp` |
| Transport | bytes in transit, statistics | `sendData`, `recvData`, `sendBatchQueries`, `recvBatchQueries` | `network.cpp` |
| Local driver | as the online query | `OneSVClient::Online`, `test_pir` | `client.cpp`, `main.cpp` |

The database is split into `PartNum` partitions of `PartSize` entries. The
server sends it encrypted; the client adds up, for each hint, one entry of every
partition the hint selects (PRF value below the hint's median cutoff) and one
extra entry. A query names a group of partitions that, together with the queried
entry, make up a hint; the server returns the hint's parity minus either group,
and an oblivious transfer (OT) gives the client the one it wants. The used hint
is then replaced by a backup hint with the queried entry as its extra entry.
Each program runs one thread. Queries travel on the main TCP connection, answers
on the OT connection.

### The encryption library

| Component | State | Operations | Source |
|---|---|---|---|
| Multi-word and modular arithmetic | none | words with carries, Barrett reduction, lazy products | `utils/basics`, `utils/uint_small_mod`, `modulus` |
| Number theory | none | inverses, primality, roots of unity, choice of moduli | `utils/number_theory`, `coeff_modulus` |
| Residue number systems | precomputed bases | decompose and compose, base conversion, division by the last modulus, decryption rounding | `utils/rns_base`, `utils/rns_tool` |
| Transforms and kernels | root tables, shared memory of a block | NTT on host and device, arithmetic on arrays of residues | `utils/ntt`, `fgk/`, `utils/poly_small_mod` |
| Evaluator | ciphertexts with headers | addition, products, switching of modulus and keys, rotation, LWE packing | `evaluator*` |
| Encryption, encoders | keys, shared array of secret key powers | all forms of encryption, decryption, batch, CKKS and ring encoders | `encryptor`, `decryptor`, `utils/rlwe`, `*_encoder`, `app/bfv_ring2k` |
| Linear helpers | block sizes | matrix products, convolutions, their encoding and decoding | `app/` |
| Objects | chain of contexts, ciphertexts, plaintexts, keys, streams | construction, conveying, saving, loading | `he_context`, `ciphertext`, `plaintext`, `kswitch_keys` |
| Galois tool | permutation tables made on first use, a readers-writer lock | automorphisms | `utils/galois` |
| Memory | pools of device blocks shared by threads | allocation, copies, release | `utils/memory_pool*`, `utils/dynamic_array`, `utils/box` |
| Random generator | seed and counter | blocks, uniform words, small polynomials | `utils/random_generator` |

The PPFE programs use the library from one thread on the host, yet it is written
for several host threads and for kernels on a device; both are modelled.
`src/troy-nova` is a second copy of the same library with its tests.

### What is hard here

A mistake in a refresh shows only queries later; the rare rows (few kept values,
repeated medians, no matching hint, no backup left) are almost never met with
the real parameters; the arithmetic crosses two moduli; query and answer use
different connections; either program may go away at any moment, and partial
sends and receives are normal. In the library, words wrap around by design and
are right only within margins of a few bits; kernels depend on where their
barriers stand; threads read what others are extending; objects are reused as
destinations and keep parts of their old headers; the same operation exists up
to six times (host, device, batched, in place, fused, with bias). `hazards` in
`PROJECT.json` names each place with its line and the properties that cover it.

## Modules

| Module | Models |
|---|---|
| `PirBase` | sizes, formal sums, PRF table, `FindCutoff` as a set definition |
| `OneSVClient` | the server's `preprocessDatabase` and `onlineQuery` on formal sums; the client's offline phase, query loop and refresh; the properties |
| `LookupService` | abstract specification of what the client promises |
| `CutoffLoop` | `FindCutoff` as the in-place loop of `utils.cpp` |
| `ModArith`, `ArithCalls` | modular arithmetic with wrapping words, and calls of it |
| `AnswerArith` | the numbers of one query, and the masking of `OneSVClient::Online` |
| `Session` | sizes and degree; the two programs, their connections and faults |
| `Transport` | partial sends and receives, batch packing and parsing |
| `WideInt`, `WideIntCalls` | multi-word integers, bit by bit division |
| `SmallMod`, `SmallModCalls` | arithmetic modulo a word |
| `NumberTheory` | number theory and the choice of moduli |
| `Rns` | bases, conversions, `RNSTool` and its fused kernels |
| `Ntt`, `NttKernel`, `PolySmallMod` | transforms on the host and as kernels, kernels on residues |
| `KeySwitch`, `Rotations`, `GaloisTables` | key switching, rotations put together from keys, shared permutation tables |
| `Evaluator`, `EvaluatorCalls` | the evaluator's operations, and programs that call them |
| `Crypt`, `SecretPowers` | encryption and decryption, shared powers of the secret key |
| `BatchEncoder`, `CkksEncoder`, `BfvRing2k` | the encoders |
| `Packing`, `Linear` | LWE ciphertexts and packing, matrix products and convolutions |
| `Objects`, `Memory`, `RandomGenerator` | objects and streams, arrays and pools, sampling |
| `OneSVClientProofs`, `AnswerProofs` (of `AnswerArith` and `CutoffLoop`), `SessionProofs`, `TransportProofs`, `EvaluatorProofs`, `MemoryProofs`, `SecretPowersProofs`; the last part of `GaloisTables` | theorems and proofs |
| `MCOneSVClient`, `MCSession`, `MCNumbers`, `MCKernels`, `MCMoves`, `MCPrograms` | inputs for TLC and the runs of several modules |

Modules compose in three ways. `OneSVClient` extends `PirBase`; `AnswerArith`,
`Evaluator`, `NttKernel`, `Rns` and others extend the arithmetic they use. `OneSVClient` instantiates `LookupService` with a
refinement mapping. The MC modules with parts extend or instantiate several
modules (`MCSession` extends `Session` and `Transport`, `MCMoves` extends `Rotations` and
`Memory`, others share one set of variables); `part` says whose behaviour it is.

## How the models correspond to the code

**Formal sums.** Only coefficient `PartSize - 1` of a ciphertext is ever read,
and it is a sum of database entries. `OneSVClient` represents it by the
multiplicity of every entry, so equality of two sums means equality for every
database. The mask, which cancels, and the noise are left to `AnswerArith`,
which works with numbers modulo q and p and shows that the client decodes the
entry as long as the errors stay below half a step of the plaintext grid
(`BudgetAssumption`; with p of 20 and q of 54 bits the room is 2^33, the noise
has standard deviation 2^22).

**PRF.** A key's PRF is a table: `v` (select values), `r` (offsets), `d` (dummy
stream). Proofs hold for every table; runs use tables with proper, filtered and
repeated medians.

**Actions of `OneSVClient`.** `OfflineCutoffs`, `OfflineExtra(n)` (the extra
partition is draw n), `OfflineStream` (one partition into all parities),
`PrecomputeEncZeros`; then for each query `SendQuery` or `SendWithoutHint`,
`Answer`, `Refresh(n)` (n the next valid backup), with the error ends
`NoEncZero` (exception) and `NoBackup` / the assertion in `Refresh`.
`SendWithoutHint` is what the code does when no hint matches: `find_hint`
returns M + 1, which the caller's test does not catch, so it reads past the end
of four arrays (any value of `Garbage`) and, at the refresh, overwrites cutoff
and parity of backup hint M + 1. `damaged` records that this hit a live backup;
from then on soundness is not claimed. Writes past the arrays are taken to hit
no other modelled array; the ID read there is taken to be one of a built hint.

**Session.** Messages carry the number of their query. A process that dies
closes its sockets; of what it had sent, any suffix may be lost. A send to a
closed peer may succeed, fail or kill the process, as no `SIGPIPE` handling is
set. External behaviour of the OT library: `sendOne` needs the receiver's
choice, connecting is retried until the server listens and may throw when the
server is gone. `PeersFollow` names two exceptions, real ones: the server waits
for the OT connection without watching the main one, and the client may try to
open it to a server that is gone.

**Library.** A call is one step when nothing else can run during it; a
kernel's thread moves from barrier to barrier, a host thread from one lock
operation or unlocked access to the next. Words have `WordBits` bits and wrap
around. Numbers are kept where their wrap matters (`WideInt`, `SmallMod`, `Ntt`,
`Rns`, `KeySwitch`), and replaced by what they stand for above (`Evaluator`
keeps headers and a residue, `Packing` and `Linear` a polynomial without noise,
`Objects` words as they are written). Each layer uses of the one below exactly
what the latter's properties establish. Random draws and the errors of doubles
are choices, the latter within a slack. A call that throws leaves what the code
had written by then. A pool's block may still be written by work its last
owner queued; the pool is that of the default build (`TROY_MEMORY_POOL` on, the
unsafe one off, `DEVICE_SYNCHRONIZE_ON_MULTIPLE_THREAD` on).

## Runs

| Run | Bounds | Shows |
|---|---|---|
| `queries` | 2x2 database, 8 hints, 4 backups, 60 PRF tables, 3 Enc(0) for up to 4 queries | `TypeOK`, `HintsSound`, `BackupsSound`, `AnswersCorrect`, `RepeatedQueryHits`, `HintIDsDistinct`, `AbortOnlyWhenUsedUp`, `RefreshIsLocal`, `ImplementsLookup` |
| `offline` | 4x4 database, 8 hints, 4 backups, 12 PRF tables, 2 queries | `Supplied` (the inductive invariant of the proofs), `QueryBalanced`, `Terminates` |
| `session` | Log2DBSize 2 to 5, 7 and 9, of which the server refuses some; 4-bit bytes, 2 and 8 partitions, two batches | `ParametersAgree`, `AnswersMatched`, `ServedInOrder`, `SessionCompletes`, `PeersFollow`, `BatchesIntact`, `EveryBatchArrives` |
| `numbers` | words of 2, 6, 8 and 14 bits; rings of degree two for the switch | `WordsExact`, `NumbersQualify`, `RnsExact`, `SwitchKeepsPhase` |
| `kernels` | transforms of degree 4 to 16, blocks of 4 threads; 3 host threads, 2 elements, powers up to 3 | `LaunchSafe`, `TransformsExact`, `ActsOnIntegers`, `SharedDataComplete`, `SharedDataKept`, `EveryCallEnds` |
| `evaluator` | programs of 3 calls on 3 ciphertexts, 3 schemes | `DecryptsToMessage`, `HeadersTrue` |
| `moves` | ring of degree 32, steps -16 to 16; two threads, three arrays, two pools, 7 words on the device, 3 calls (4 with one pool and one length) | `Rotates`, `MemorySafe` |
| `programs` | eleven parts, each with its own inputs | `ProtocolArithmeticExact`, `CoefficientsGathered`, `ProductsExact`, `MessagesReturn`, `EncodingsReturn`, `ObjectsReturn`, `StreamsConsistent` |
| `miss` (violation) | as `queries` with fewer tables | `MissIsSkipped` |
| `local_online` (violation) | p = 3, q = 59, no error, no noise | `OnlineResultIsEntry` |
| `conveyed` (violation) | the objects part of `programs` | `ConveyedKeysUsable` |
| `sampled` (violation) | the stream part of `programs` | `SamplersAgree` |

**Protocol bounds.** Two partitions are the smallest database with a median,
four the smallest with a repeated median that is not filtered out and with
partitions that are neither queried nor extra. With four backups of which some
are invalid, three queries reach the skipping of invalid backups, the
assertion, the empty end of the list and a refreshed hint that is used and
refreshed again; a fourth query meets the empty Enc(0) cache. The session's
sizes have one to nine queries and the sizes the server or its validation
refuses. Two partitions fill part of a byte, eight of them two bytes.

**Number bounds.** Two-bit words give every pattern of carries over two and
three words. Six bits leave the three free bits of a modulus and three bits of
modulus, so the Barrett guess is off by one for some operands and sums of
products reach their limit. Fourteen bits hold moduli of eleven. The moduli of
`Rns` have the orders that matter (the plain modulus below, between and above,
a base that needs one prime more). Degree two is the least in which forms and
negacyclic wrap can be told apart; `NttKernel` uses degrees up to sixteen, where a block
has a stride and a launch several blocks. Rotations need degree 32: it is the
least at which a step in range has half the degree as a term of its non-adjacent
form and no key of its own among the default ones.

**Program bounds.** Two or three calls are what it takes for one call's leftover
(scale, correction factor, seed, place, counter) to reach another. The lists
contain the lengths on either side of each batching threshold, sizes that do
and do not fill a block, and the arguments the code refuses. Matrices have up to
3 x 5 x 4 entries in polynomials of degree 16, so products need several blocks
in each direction.

Bounds by name: `NumQueries`, `EncZeroCount`, `DummyPeriod` (a run's dummy
stream repeats), `EncErr`, `FloatErr`, `NoiseBound`, `LogSizes`, `MaxLog`,
`MaxCalls`, `MaxApplied`, `MaxAdded`, `MaxOps`, `MaxPolys`, `MaxLwes`,
`MaxPower`, `Calls`, `Capacity`. The code's values are larger: `LAMBDA` 30,
Log2DBSize below 32, words of 64 bits, degrees up to 2^17.

Every property of a passing run has a mutant in `PROJECT.json`: a definition
`Mutant...` beside the original, with which the run fails.

## Fairness

- `Terminates` (`offline`) assumes weak fairness of the whole step: client and
  server alternate, and neither idles.
- `session` assumes weak fairness of each program's steps and of either end of
  a connection: a thread that is not blocked runs, `send()` and `recv()` make
  progress while the peer is there. Nothing is assumed of faults or of
  `ConnectOTThrows`.
- `kernels` assumes weak fairness of each host thread: the scheduler runs every
  thread that is not waiting for a lock. A thread need not call again. Weak
  fairness is enough for the locks because a waiting thread's calls are finite.
- The other runs state no liveness and assume no fairness.

## What the violations show

1. `miss`: the test at `client_main.cpp:360` compares with `ciParity.size()`
   (2M), `find_hint` returns M + 1; the message says the query is skipped, it
   is sent.
2. `local_online`: `OneSVClient::Online` (`client.cpp:476`) unmasks modulo p an
   answer that `onlineQuery` gives modulo q.
3. `conveyed`: `KSwitchKeys::to_device_inplace` (`kswitch_keys.h:101`) moves the
   words of the keys and copies the list of their addresses as it was.
4. `sampled`: from one seed, host and device draw different small polynomials
   (`random_generator.cu:450`, `:602`); the library's test of their agreement
   says otherwise.

## Proofs

TLAPS checks every proof to its leaves, with no statement left unproved. The
theorems hold for every value of the constants under these assumptions:

- `SizeAssumption` (`PirBase`): `PartNum` is an even number above one, `PartSize`
  is positive, and there are at least two backup hints (`Half > 1`). `PartNum` is even because it is
  `1 << (LogN / 2)`; only `QueryBalanced` needs it.
- `PrfAssumption`: the PRF tables are any tables of natural numbers with the
  code's shapes; the filter bounds are naturals.
- `QueryAssumption`: the numbers of queries and Enc(0) are naturals; what is read
  past the arrays has the types of their elements.
- `LogSizesAssumption` (`Session`): the server may be started with any natural.
  `DegreeAssumption`: `MinDegree` is positive and `MaxDegree` is `MinDegree`
  doubled some number of times (32768 = 2048 * 2^4 in `utils.h`).
- `TransportConstants`: a byte has some bits, there is at least one batch, every
  query has the shapes of `BatchQuery`; batches may be empty or of any size, and
  a call of send() or recv() may move any number of cells up to any bound.
- `GaloisTablesConstants`, `SecretPowersConstants`, `CutoffConstants`,
  `WidthAssumption`, `BudgetAssumption`, which, like the last, the theorems of these
  modules take as hypotheses: any set of threads and elements, any number of calls; rows of
  naturals; words of two bits or more; moduli 1 < p < q < 2^W, any masks below
  q, and errors that satisfy p * (2 * (EncErr + FloatErr + NoiseBound) + 3) <= q.

- `EvaluatorConstants`, `ProgramConstants`: any plain modulus above one, any chain of
  primes with positive bit lengths, any bound above one on the polynomials of a
  ciphertext; fresh scales fit the top level.
- `MemoryAssumption`: at least one thread, any numbers of arrays, pools, lengths and
  words of room; "none", "array" and "call" name no pool.

TLC evaluates all of them for the instances it checks.

**`OneSVClientProofs`**: `TypeCorrect`, `HintsAlwaysSound`,
`BackupsAlwaysSound`, `AnswersAlwaysCorrect`, `ClientImplementsLookup`.
`HintsSound` alone is not inductive. While the database is streamed, a parity
holds only the entries of the partitions seen so far (`StreamSound`), which in
turn needs that the extra partition is one the hint does not select
(`OfflineSound`). A refresh is sound only if the backup's parity is
(`BackupsSound`) and the value added is the queried entry, which `QuerySound`
carries from the sending of the query to the answer. `Sound` is the
conjunction; `SoundNext` has one step per action. The core is `QueryGroup`: for
a sound hint that matches the query, the group of the chosen bit is the hint's
entries without the queried one, so the difference of formal sums is that
entry. The refinement maps every step of client and server to a step or a
stutter of `LookupService`, and uses `Sound` for the value of an answer.

The second half of the module has `AlwaysSupplied`, `QueriesAlwaysBalanced`,
`HintIDsAlwaysDistinct`, `RepeatedQueriesAlwaysHit`, `AbortsOnlyWhenUsedUp`,
`RefreshesAreLocal`. The inductive invariant `Supplied` adds to `Sound`:
`CutoffsKept` (the cutoff of every live hint is the median of the row of its
ID, or zero), `IDsFresh` (the IDs of hints come from different places, and those
from `NextHintIndex` on are unused), `ResultsCounted` (each recorded result has
spent a valid backup, which bounds `NextHintIndex` from below and is why the
client gives up only when the valid backups are spent), and the properties
themselves. A query is balanced because a cutoff that is the median selects
exactly half of the partitions (`Cardinality` lemmas), and the group of a query
differs from a half by moving the queried partition out and the extra
one in; this is the place where an odd `PartNum` would break the claim.

**`AnswerProofs`**: `SignedAddIsExact`, `AnswersDecode`, `DrawsAreUniform`. `AddSignedMod` is
addition modulo its modulus for every width of word: each of its subtractions
stays within a word although one operand is the negation of the least signed
number (`NoWrap`). Decoding is then a calculation with quotients and remainders
(`DecodeExact`): mask, sums modulo p and every wrap modulo q add a multiple of
q to the phase, which vanishes modulo p after the rescaling, and what is left
beside the entry is below half a step. The invariant `Decoding` carries from the
hint to the answer what the hint was made of: the partial sums of its group and
its error. Besides the three errors the budget has to pay for two roundings, of
the scaled plaintext and of the scaled sum, which together take up to one and a
half units: with room for one only, as p = 4 and q = 9 have without any error, an
entry 3 whose group has the sum 3 is decoded as 0. `DrawsAreUniform` is about
the mask: the accepted draws are a whole number of bounds (`AcceptedAre`), so
adding `r`, or wrapping around by that number, takes the draws that give 0 one
to one to those that give `r`.

Of `FindCutoff`, the same module shows `AlwaysSelecting`, `LoopReturnsMedian`,
`MedianAlwaysInPrefix`. For a row of any length, any values and any two filters,
the loop that moves the kept values to the front of the array it is reading
returns what the set definition says. The inductive invariant `Selecting` says
that the counts are those of the values read so far (`Counted`), and that the
front of the array holds exactly the kept ones, each once (`Gathered`, by a
one-to-one map from the front to the places of the row they came from), while
everything from the reading place on is untouched, so no value is overwritten
unread (`MedianInPrefix`). When the median is selected, its rank among the kept values is the rank
in the row less the number of values filtered out below (`MedianPlaced`), by counting arguments with `Cardinality`.

**`SessionProofs`**: `SessionInStep`, `AnswersAlwaysMatched`,
`AlwaysServedInOrder`, `ServerAlwaysUnderstood`, `AllAnswersRecorded`,
`ParametersAlwaysAgree`. That
answers are paired is not inductive: nothing in an answer says which query it is
for. `InStep` says where both programs can be relative to each other: `Paired`
(results so far), `QueryFlow` (what the server has still to read is exactly what
the client has sent of its query; an answer or a choice on the OT connection is
for that query; nothing else is on the way once it has answered), `Spoken` (the
unread part of the handshake is the part the client waits for, and a program
that is gone explains what is missing), `Cached` and `Understood`. Loss is
covered since what is lost is always a suffix, and only of a program that is
gone. The action property follows from `ServerReads`: the only step that counts
an answer is taken while the server works on query `queryCount`.
`ParametersAlwaysAgree` is about numbers: the degree the client finds by
doubling, and the entry `QueryAt` asks for. Induction over naturals is had from
the least element of a set of counterexamples (`LeastOf`, from the library's
well-founded order), the facts about powers of two from counting subsets
(`PowerOf`, `PowerAdds`). With them the recursive doubling is well defined
(`DoublesFrom`), and since `MaxDegree` is `MinDegree` doubled some number of
times, as 32768 is 2048, it never steps over `MaxDegree` (`DoublingFits`). The
invariant `Typed` keeps what `TypeOK` says of the variables.

**`TransportProofs`**: `AlwaysFramed`, `BatchesAlwaysIntact`. That what was
received equals what was sent is not inductive, as most of the time most of it is
in neither place. `Framed` names one stream of frames (`Cells`: per batch a size
and a payload) and says where the two ends are in it: the sender has sent up to
`SentTo`, the receiver has taken up to `ReadTo`, the wire is the piece between
(`OnWire`, whose end alone is missing once the sender has stopped), and the
receiver's buffer is the beginning of the payload of the batch it is at
(`HasPayload`, `Parses`). What a call of send() or recv() moves keeps the wire
such a piece however long it is (`BetweenAppends`, `BetweenTakes`). The other half
is that parsing undoes packing: the bits come back from bit `k % 8` of byte
`k / 8` (`BitPlace`), a query read where it was packed is that query
(`ReadBack`), and query m + 1 begins where the first m end (`Payload`), so that
the size checks never fail and the last query uses the payload up. Payload and
stream are concatenations given by recursive functions; that these are well
defined is shown from a least counterexample (`LeastOf`, `IterationExists`). The
run `session` checks the same `BatchesIntact` on its connection.

**`EvaluatorProofs`**: `HeadersInvariant`, `HeadersAreTrue`. For any chain of
primes and any number of calls, the flag `is_ntt_form` tells the form of the data,
fields a scheme does not use are neutral, and a CKKS scale fits its level.
`HeadersTrue` is not inductive: it says nothing of a ciphertext whose call threw,
which the next call may take up, nor of levels and sizes, which decide whether
that call throws. `HeadersKept` adds that every ciphertext has a header of its
scheme (`Kept`), whatever was thrown, that those no call threw on are `Whole`, and
the same of the plaintext. Each operation has a lemma of its own that its result
is such a header or an error; the calls then differ only in where they put it
(`IntoKeeps` and its like).

**`MemoryProofs`**: `MemoryIsSafe`. That no block is in two hands does not follow
from itself. The inductive invariant `MemoryInv` has these parts.
- `Owned`: every block belongs to one pool, and there to an array, a call inside
  `allocate`, or one entry of the unused ones with its true size; a destroyed pool's
  blocks are zombies, which is why a late release does not throw.
- `CallsReady`: a call that waited for room still has a destination, a source that can
  be read and a pool that exists, although other threads went on meanwhile.
- `WorkOwn`: what a thread has asked of the device works on blocks that are its own or
  that it gave back itself. This is what the thread noted in an unused entry is
  for: `allocate` waits for the device when the note names another thread, so a
  block changes hands with no foreign work on it (`AllocateKeeps`).
- `WordsKept`: an array will hold what is meant once its thread's stream is done. It
  survives a step of another stream because what a stream makes of its
  blocks depends on no others (`RanAgrees`, by a least counterexample along the
  stream).

`HandsKeeps` is the step that assignments, moves and the ends of calls share: a
block passes into an array whose old one is given back.

**`GaloisTables`**: `LockAlwaysSound`, `TablesAlwaysWhole`,
`TablesAlwaysKept`. For any number of threads, `LockSound` (readers are exactly
the threads between their shared lock and unlock, the writer the one in the
unique section, never both) is inductive, and gives that a table is complete
when it is applied, since only the writer marks it, after filling it, and the
second check under the unique lock keeps a table from being built again.

**`SecretPowersProofs`**: `PowersAlwaysSound`, `ReadsAlwaysPowers`,
`PowersAlwaysKept`. The decryptor looks at the length of the array without a
lock. `PowersSound` says why this is harmless: the array is the powers first
and zeros only behind them, and those only in the new array of the thread in the unique
section (`PowersFirst`); a length a thread has seen stays true since the array
only grows (`LengthsSeen`); so reads are in bounds and of powers
(`ReadsInBounds`, `ReadsPowers`), whichever of two lengths was seen.

**Only model-checked.**
- Liveness: `Terminates`, `SessionCompletes`, `PeersFollow`, `EveryBatchArrives`,
  `EveryCallEnds`. The prover does not handle fairness and `ENABLED`.
- What loops over arrays compute: the exactness properties of `numbers` and `kernels`, of
  `programs` (but for `FindCutoff` and the answers), `DecryptsToMessage` and `Rotates`.
  Their loops are recursive functions over words, coefficients and digits; that they are exact for all
  inputs would be one induction over data after the other, and the induction theorems of
  the library cannot be applied.
- `LaunchSafe` (barriers of kernels), and that calls of `GaloisTables` and
  `SecretPowers` fill what they announce (`SharedDataComplete`, `SharedDataKept`) in the run that
  joins the two; the theorems of each cover the parts.

## Observations

Behaviour the models contain as it is in the code, which a reader may want to
know of and no documentation contradicts:

- Arithmetic: the loop of `negate_uint` starts over at word 0, so that it adds
  the 1 only to operands whose lowest word is zero (`basics.h:361`; nothing
  calls it); `divide_uint_mod_inplace` of one word reduces before it divides, so
  its quotient is 0 (`uint_small_mod.cu:13`); the batched cooperative NTT kernel
  has no barrier between items (`fgk/ntt_cooperative.cu:135`).
- Evaluator: batched sums of ciphertexts of different sizes list the second
  operands twice (`evaluator_translate.cu:209`); batched products with a
  plaintext give all results the header of the first ciphertext but for the
  scale (`evaluator_multiply_plain.cu:237`); an accumulated product of mixed
  forms brings its destination back from NTT form whether or not it started it
  (`evaluator_multiply_plain.cu:381`).
- Rotations: 0 steps are a conjugation's element in `get_element_from_step`
  (`galois.cu:47`), and `rotate_internal` returns for them with the destination
  as it was (`evaluator_keyswitching.cu:271`, `:310`), so that the in-place forms
  move an empty ciphertext over their operand (`evaluator.h:766`, `:860`). A step
  whose non-adjacent form has the term N/2 and for which there is no key of its
  own is refused as too large (`galois.cu:53`) though other keys would reach it;
  with the keys of `create_galois_keys` these are the steps with 3|s| > N for
  which N/2 - |s| is not a power of two up to N/8: 11 and 13 at degree 32, none at 16.
  `DefaultKeysReach` (part of `Rotates`) says so.
- Packing: nothing refuses ciphertexts that keep their seeds, and the copies
  drop them (`evaluator_lwes.cu:350`). In BFV the second polynomial is then in NTT
  form (`rlwe.cu:279`), so what is packed is not the messages;
  `CoefficientsGathered` says what it is instead (`Hidden`). Ciphertexts of three
  polynomials are packed when no layer and no trace needs a key.
- Encryption: the noise budget does not expand a seed (`decryptor.cu:581`); a
  BGV encryption of zero throws only after it has sampled (`encryptor.cu:65`).
- Encoders: `encode_slice_batched` compares the number of slices with the slot
  count (`batch_encoder.cu:256`); a CKKS value's size is judged without its
  sign (`ckks_encoder.cu:673`); an even correction factor throws after the
  destination was written.
- Linear helpers: BFV matrix and convolution products of two ciphertexts always
  throw on operands in NTT form; block sizes become 0 when nothing fits.
- Objects: loading CKKS `EncryptionParameters` keeps an old plain modulus
  (`encryption_parameters.cu:102`); `reconfigure_like` and `resize` keep a stale
  seed (`ciphertext.cu:56`); empty `KSwitchKeys` cannot be copied,
  as their place is asked for (`kswitch_keys.h:42`); saving a seeded ciphertext that has not two polynomials
  throws after the header is written (`ciphertext.cu:112`).
- Memory: resizing a moved-from device array uses a null pool
  (`dynamic_array.h:20`).

## Not modelled

- AES and the cipher streams (the PRF is a table, a block an injective function
  of seed and counter), the Gaussian sampler (any noise within a bound), libOTe
  (its contract as used here).
- The bindings, compression, examples, benchmarks and tests; scripts, timing
  and CSV output.
- The server's single-query branch (no client of the repository sends it), the
  array and batch-response formats of `network.cpp` that only it or nothing
  uses, `PRFPartitionID` (unused), the commented-out offline variant.
- The unsafe and the empty memory pool, which are other builds.
- The size of noise in ciphertexts of the library: `Evaluator`, `Packing` and
  `Linear` work without it, `Crypt` and `KeySwitch` with small numbers.

## Plan

1. Done: the protocol, its abstract service and its proofs; the session with
   its proofs; the library's layers from words to linear helpers; the two shared
   structures, the transport, the evaluator's headers and the memory pools with their
   proofs.
2. Prove next: `LaunchSafe` for any number of threads, and
   `SharedDataComplete` of the two shared structures together.
3. Model next: the inputs of the PRF (three uses sharing one block layout),
   several clients in the server's backlog, and `Session` with the contents of
   the queries of `OneSVClient`.

------------------------------ MODULE MCPrograms ------------------------------
(***************************************************************************)
(* What single calls and short programs of calls compute, one part per     *)
(* kind: the arithmetic of the two programs (an answer and the calls it is *)
(* made of, FindCutoff), and what a caller of the encryption library does: *)
(* packing ciphertexts, multiplying encrypted matrices and images,         *)
(* encrypting and decrypting, encoding, keeping and saving objects, and    *)
(* drawing at random. A behaviour is a program of one part; v1 .. v11 hold *)
(* its state in the order its module lists it.                             *)
(***************************************************************************)
EXTENDS Integers, Sequences

VARIABLES part, v1, v2, v3, v4, v5, v6, v7, v8, v9, v10, v11
allVars == <<part, v1, v2, v3, v4, v5, v6, v7, v8, v9, v10, v11>>

-----------------------------------------------------------------------------
(* The answer to a query for every error within the budget, with words of  *)
(* six bits; the calls for all arguments of five; FindCutoff on rows of    *)
(* four select values.                                                     *)
Answer == INSTANCE AnswerArith WITH
  W <- 6, P <- 3, Q <- 59, GroupLen <- 3, EncErr <- 3, FloatErr <- 1, NoiseBound <- 4, Masks <- {0, 1, 17, 57, 58},
  entry <- v1, group <- v2, rando <- v3, phase <- v4, summed <- v5, sum <- v6, answer <- v7, decoded <- v8, stage <- v9
Calls  == INSTANCE ArithCalls WITH W <- 5, call <- v1, result <- v2
ASSUME Answer!BudgetAssumption /\ Answer!WidthAssumption /\ Calls!WidthAssumption
NoTables == {}
Cutoff == INSTANCE CutoffLoop WITH
  PartNum <- 4, PartSize <- 1, Lambda <- 4, LowerFilter <- 2, UpperFilter <- 4,
  DummyPeriod <- 1, PrfTables <- NoTables, PrfVals <- 1 .. 5,
  row <- v1, prfVals <- v2, k <- v3, LowerCnt <- v4, UpperCnt <- v5, MiddleCnt <- v6, pc <- v7, result <- v8

-----------------------------------------------------------------------------
(* Packing in a ring of degree eight: plain sources, one at another level, *)
(* one that keeps its seed and one of three polynomials.                   *)
Quadratic(a, b) == [x \in 0 .. 7 |-> (a * x * x + b * x + a) % 17]
Source(a, b, kept, third, parms) ==
  [message |-> Quadratic(a, b), mask |-> Quadratic(b, a), seed |-> kept, extra |-> third, parms |-> parms]
S1 == Source(3, 5, FALSE, FALSE, 1)
S2 == Source(2, 9, FALSE, FALSE, 1)
S3 == Source(7, 4, FALSE, FALSE, 2)
S4 == Source(6, 1, TRUE, FALSE, 1)
S5 == Source(1, 8, FALSE, TRUE, 1)
PackLists == {<< >>, <<S1>>, <<S2, S1>>, <<S1, S3>>, <<S4>>, <<S5>>, <<S5, S1>>, <<S1, S2, S1>>, <<S2, S1, S1, S2, S1>>}
PackSecret == [x \in 0 .. 7 |-> <<1, 0, 16, 1, 1, 0, 0, 16>>[x + 1]]
Pack == INSTANCE Packing WITH
  LogN <- 3, P <- 17, Secret <- PackSecret, Sources <- {S1, S2, S3, S4, S5}, Lists <- PackLists,
  Shifts <- {0, 15, 13}, Intervals <- {1, 2, 3, 4, 8, 16}, Terms <- {0, 7}, MaxLwes <- 3,
  BATCH_OP_THRESHOLD <- 2,
  scheme <- v1, device <- v2, autoKeys <- v3, lwes <- v4, hidden <- v5, packed <- v6, expects <- v7, ended <- v8

-----------------------------------------------------------------------------
(* Products of matrices and convolutions in a ring of degree sixteen:      *)
(* shapes that fill a block, that do not, and that need several.           *)
Entries(a, b, c) == [k \in 0 .. 200 |-> (a * k * k + b * k + c) % 97]
LeftEntries  == Entries(3, 7, 2)
RightEntries == Entries(5, 11, 4)
BiasEntries  == Entries(2, 13, 6)
Goals    == {"EncryptLeft", "EncryptRight", "Crossed"}
Encoders == {"bfv", "bgv", "ckks", "ring2k"}
Mat(b, i, o, g, p, e, md) ==
  [op |-> "matmul", batch |-> b, inputs |-> i, outputs |-> o, objective |-> g, pack |-> p,
   batched |-> g = "Crossed", device |-> (b + o) % 2 = 0, enc |-> e, mode |-> md, bias |-> i # 1,
   height |-> 1, width |-> 1, kh |-> 1, kw |-> 1]
Conv(b, i, o, g, e, md, d) ==
  [op |-> "conv", batch |-> b, inputs |-> i, outputs |-> o, objective |-> g, pack |-> FALSE,
   batched |-> FALSE, device |-> FALSE, enc |-> e, mode |-> md, bias |-> TRUE,
   height |-> d[1], width |-> d[2], kh |-> d[3], kw |-> d[4]]
LinearJobs ==
  {Mat(b, i, o, g, p, "bgv", "left") : b \in {1, 3}, i \in {1, 2, 5}, o \in {1, 4}, g \in Goals, p \in BOOLEAN}
  \cup {Mat(3, 5, 4, "EncryptLeft", p, e, md) : p \in BOOLEAN, e \in Encoders, md \in {"left", "right", "both", "fly"}}
  \cup {Conv(2, 2, 3, g, "bgv", "left", d) : g \in Goals, d \in {<<2, 2, 1, 2>>, <<3, 4, 3, 1>>}}
  \cup {Conv(1, 2, 3, g, "bgv", "left", <<4, 5, 2, 2>>) : g \in Goals}
  \cup {Conv(1, 2, 2, "EncryptLeft", e, md, <<3, 3, 2, 2>>) : e \in Encoders, md \in {"left", "right", "both"}}
Products == INSTANCE Linear WITH
  LogN <- 4, P <- 97, X <- LeftEntries, W <- RightEntries, Bias <- BiasEntries, Jobs <- LinearJobs,
  job <- v1, lhs <- v2, rhs <- v3, prods <- v4, shape <- v5, shares <- v6, stage <- v7, answer <- v8

-----------------------------------------------------------------------------
(* Encryption in a ring of degree two, with a plain modulus that divides   *)
(* no prime's predecessor and one that is larger than a prime.             *)
CryptSetup(sc, p, r, t) == [scheme |-> sc, primes |-> p, roots |-> r, t |-> t]
CryptSetups ==
  {CryptSetup(sc, <<37, 17, 29>>, <<6, 4, 12>>, 5) : sc \in {"BFV", "BGV", "CKKS"}}
  \cup {CryptSetup(sc, <<13, 17, 29>>, <<5, 4, 12>>, 15) : sc \in {"BFV", "BGV"}}
CryptSamples ==
  {[seed |-> 1, u |-> <<1, -1>>, e |-> << <<1, -1>>, <<-1, -1>> >>],
   [seed |-> 2, u |-> <<-1, -1>>, e |-> << <<-1, -1>>, <<1, 1>> >>]}
CryptWords  == << <<1234, 777>>, <<4321, 98>> >>
CryptNoises == {<<1, -1>>}
Crypts == INSTANCE Crypt WITH
  Setups <- CryptSetups, Secrets <- CryptNoises, Noises <- CryptNoises, Samples <- CryptSamples,
  Words <- CryptWords, Messages <- {<<4, 3>>, <<14, 7>>}, MaxAdded <- 2,
  setup <- v1, keys <- v2, secret <- v3, pk <- v4, plains <- v5, texts <- v6,
  cts <- v7, added <- v8, spent <- v9, outs <- v10, status <- v11

-----------------------------------------------------------------------------
(* The batch encoder with four slots, and a plain modulus without batching.*)
BatchSetup(sc, t, r) == [scheme |-> sc, logn |-> 2, t |-> t, root |-> r, moduli |-> <<6497, 2311>>]
BatchSetups == {BatchSetup(sc, 17, 2) : sc \in {"BFV", "BGV", "CKKS"}} \cup {BatchSetup(sc, 15, 0) : sc \in {"BFV", "BGV"}}
BatchLists ==
  << << >>, << <<1, 2, 3, 16>> >>, << <<5, 0, 9>> >>, << <<1, 2, 3, 16>>, <<7>>, <<4, 4, 11, 12>> >>,
     << <<1, 2, 3, 4, 5>>, <<1>> >>, << <<3>>, <<1, 2, 3, 4, 5>> >>, << <<1>>, <<1>>, <<1>>, <<1>>, <<1>> >> >>
Batching == INSTANCE BatchEncoder WITH
  Setups <- BatchSetups, Batches <- BatchLists, Factors <- {1, 3}, MaxApplied <- 2, BATCH_OP_THRESHOLD <- 2,
  setup <- v1, contextDev <- v2, encoder <- v3, plains <- v4, meant <- v5, applied <- v6, read <- v7, refused <- v8

(* The approximate encoder with one and two slots and with none, numbers   *)
(* that fit a word, two words and neither.                                 *)
CkksSetup(sc, l, p, r) == [scheme |-> sc, logn |-> l, primes |-> p, roots |-> r]
CkksSetups ==
  {CkksSetup("CKKS", 2, <<73, 17, 41>>, <<10, 2, 3>>), CkksSetup("CKKS", 1, <<73, 17, 41>>, <<27, 4, 9>>),
   CkksSetup("BFV", 2, <<73, 17, 41>>, <<10, 2, 3>>), CkksSetup("CKKS", 0, <<73>>, <<1>>)}
C4(a, b, c, d) == [k \in 0 .. 3 |-> <<a, b, c, d>>[k + 1]]
C2(a, b) == [k \in 0 .. 1 |-> <<a, b>>[k + 1]]
CkksVectors == [l \in 0 .. 2 |->
  CASE l = 2 -> {<<C4(1, 0, 2, 0), C4(-3, 0, 1, 0)>>, <<C4(2, 1, 0, -1)>>,
                 <<C4(1, 0, 0, 0), C4(0, 0, 0, 0), C4(1, 0, 0, 0)>>, <<C4(-90, 0, 1, 0), C4(-95, 0, 0, 0)>>}
    [] l = 1 -> {<<C2(1, -2)>>, << >>}
    [] OTHER -> {}]
CkksHalves    == {<<1, 0, 7, -9>>, <<-150, 3>>, <<1, 1, 1, 1, 1>>}
CkksIntegrals == {<<-73, 5>>, <<7, -2, 0, 100>>}
Approximate == INSTANCE CkksEncoder WITH
  Setups <- CkksSetups, Vectors <- CkksVectors, Halves <- CkksHalves, Integrals <- CkksIntegrals,
  Scales <- {9, 128, 40000}, FactorScale <- 5, UsedLevels <- {0, 2}, MaxApplied <- 2, WordBits <- 7,
  setup <- v1, contextDev <- v2, encoder <- v3, plains <- v4, meant <- v5, applied <- v6, read <- v7, refused <- v8

(* The encoder for powers of two, with words of the type's width and twice *)
(* it, and a k on either side of the word.                                 *)
RingSetup(sc, b, k, g) == [scheme |-> sc, primes |-> <<31, 29, 23, 19>>, gamma |-> g, bits |-> b, k |-> k]
RingSetups ==
  {RingSetup("BFV", 8, 8, 61), RingSetup("BFV", 8, 7, 61), RingSetup("BGV", 16, 9, 61), RingSetup("BFV", 4, 4, 61),
   RingSetup("BFV", 4, 3, 61), RingSetup("CKKS", 8, 8, 61), RingSetup("BFV", 8, 4, 61), RingSetup("BFV", 8, 9, 61),
   RingSetup("BFV", 8, 8, 31)}
Powers == INSTANCE BfvRing2k WITH
  Setups <- RingSetups, Sources <- {<<0, 127>>, <<255, 128>>, <<129>>, <<1, 2, 3>>},
  Factors <- {1, 2, 5}, WordBits <- 8, MaxApplied <- 1, BATCH_OP_THRESHOLD <- 2,
  setup <- v1, contextDev <- v2, helpers <- v3, plains <- v4, meant <- v5, applied <- v6, read <- v7, refused <- v8

-----------------------------------------------------------------------------
(* The library's objects, with parameters that fail each of the checks,    *)
(* and contexts of two and three primes.                                   *)
ObjectParms(sc, q, t) == [kind |-> "parms", scheme |-> sc, degree |-> 2, moduli |-> q, plain |-> t,
                          special |-> FALSE, device |-> FALSE, id |-> <<sc, 2, q, t>>]
ObjectModuli == {<<13, 17, 5>>, <<17>>, <<17, 17>>, <<13, 15>>, <<5, 13>>, <<3, 1>>, <<13, 17, 5, 29>>}
ObjectBits  == [n \in {2, 4} |-> IF n = 2 THEN 10 ELSE 12]
ObjectRoots == [q \in {5, 13, 17} |-> CASE q = 5 -> 2 [] q = 13 -> 5 [] q = 17 -> 4]
ObjectOps   == [parms |-> 3, cipher |-> 1, plain |-> 2, keys |-> 2]
Objs == INSTANCE Objects WITH
  Degrees <- {0, 2, 3, 4}, Moduli <- ObjectModuli, Plains <- {1, 3, 17, 40}, MaxBitCount <- ObjectBits,
  HE_COEFF_MOD_COUNT_MAX <- 3, HE_USER_MOD_BIT_COUNT_MAX <- 5, HE_POLY_MOD_DEGREE_MAX <- 8,
  ContextParms <- {ObjectParms("BFV", <<13, 17, 5>>, 7), ObjectParms("BGV", <<13, 17, 5>>, 3), ObjectParms("CKKS", <<13, 17>>, 0)},
  Roots <- ObjectRoots, Words <- CryptWords, TermLists <- {<<1>>, << >>, <<1, 0>>}, Overheads <- {-7, 3}, MaxOps <- ObjectOps,
  obj <- v1, context <- v2, stream <- v3, meant <- v4, report <- v5, loaded <- v6, ops <- v7, ended <- v8

(* The generator with blocks of four bytes, and counters about to carry. *)
NearCarry == [low |-> 14, high |-> 0]
Stream == INSTANCE RandomGenerator WITH
  BlockBytes <- 4, WordBytes <- 2, HalfBits <- 4, Seeds <- {1, 2}, Counters <- {NearCarry},
  Lengths <- {3, 4, 9}, Degrees <- {2, 5}, Batches <- {1, 3}, ModulusCount <- 2, BATCH_OP_THRESHOLD <- 2, MaxCalls <- 2,
  gens <- v1, outs <- v2, drawn <- v3, again <- v4, kinds <- v5, calls <- v6, refused <- v7

-----------------------------------------------------------------------------
Unused == << >>
Rest   == v9 = Unused /\ v10 = Unused /\ v11 = Unused
Start ==
  \/ part = "answer" /\ Answer!Init /\ v10 = Unused /\ v11 = Unused
  \/ part = "calls" /\ Calls!Init /\ v3 = Unused /\ v4 = Unused /\ v5 = Unused /\ v6 = Unused /\ v7 = Unused
     /\ v8 = Unused /\ Rest
  \/ part = "cutoff" /\ Cutoff!CutoffInit /\ Rest
  \/ part = "pack" /\ Pack!Init /\ Rest
  \/ part = "products" /\ Products!Init /\ Rest
  \/ part = "crypt" /\ Crypts!Init
  \/ part = "batch" /\ Batching!Init /\ Rest
  \/ part = "ckks" /\ Approximate!Init /\ Rest
  \/ part = "ring2k" /\ Powers!Init /\ Rest
  \/ part = "objects" /\ Objs!Init /\ Rest
  \/ part = "stream" /\ Stream!Init /\ v8 = Unused /\ Rest
Run ==
  \/ part = "answer" /\ Answer!Next /\ UNCHANGED <<part, v10, v11>>
  \/ part = "calls" /\ Calls!Next /\ UNCHANGED <<part, v3, v4, v5, v6, v7, v8, v9, v10, v11>>
  \/ part = "cutoff" /\ Cutoff!CutoffNext /\ UNCHANGED <<part, v9, v10, v11>>
  \/ part = "pack" /\ Pack!Next /\ UNCHANGED <<part, v9, v10, v11>>
  \/ part = "products" /\ Products!Next /\ UNCHANGED <<part, v9, v10, v11>>
  \/ part = "crypt" /\ Crypts!Next /\ UNCHANGED part
  \/ part = "batch" /\ Batching!Next /\ UNCHANGED <<part, v9, v10, v11>>
  \/ part = "ckks" /\ Approximate!Next /\ UNCHANGED <<part, v9, v10, v11>>
  \/ part = "ring2k" /\ Powers!Next /\ UNCHANGED <<part, v9, v10, v11>>
  \/ part = "objects" /\ Objs!Next /\ UNCHANGED <<part, v9, v10, v11>>
  \/ part = "stream" /\ Stream!Next /\ UNCHANGED <<part, v8, v9, v10, v11>>
Spec == Start /\ [][Run]_allVars
ObjectsSpec == part = "objects" /\ Objs!Init /\ Rest /\ [][Run]_allVars
StreamSpec  == part = "stream" /\ Stream!Init /\ v8 = Unused /\ Rest /\ [][Run]_allVars

-----------------------------------------------------------------------------
(* client_main.cpp, server.cpp: mask, scaling and noise cancel to the      *)
(* queried entry; utils.cpp: AddSignedMod overflows for no arguments,      *)
(* SecureRandomUint64Below favours no value, and FindCutoff returns the    *)
(* median of its row and overwrites no value it has still to read.         *)
ProtocolArithmeticExact ==
  /\ part = "answer" => Answer!DecodesEntry
  /\ part = "calls" => Calls!SignedAddExact /\ Calls!DrawIsUniform
  /\ part = "cutoff" => Cutoff!ReturnsMedian /\ Cutoff!MedianInPrefix

(* evaluator_lwes.cu: what is packed decrypts to the coefficients that     *)
(* were extracted, at the places the caller asked for.                     *)
CoefficientsGathered == part = "pack" => Pack!CoefficientsGathered

(* matmul.cu, conv2d.cu: what the helpers decrypt is the product of the    *)
(* operands plus what was added, and they refuse only what they must.      *)
ProductsExact == part = "products" => Products!ProductsExact /\ Products!RefusedOnlyIf

(* encryptor.cu, decryptor.cu, rlwe.cu: a ciphertext of any form, after    *)
(* the additions the program made, decrypts to the sum of its messages.    *)
MessagesReturn == part = "crypt" => Crypts!DecryptsMessage

(* batch_encoder.cu, ckks_encoder.cu, bfv_ring2k.cu: decoding what was     *)
(* encoded, after ring operations, gives those operations on the numbers.  *)
EncodingsReturn ==
  /\ part = "batch" => Batching!SlotsReturn
  /\ part = "ckks" => Approximate!NumbersReturn
  /\ part = "ring2k" => Powers!RingReturns

(* he_context.cu, ciphertext.cu, plaintext.cu, kswitch_keys.cu: the chain  *)
(* is complete and its levels valid, headers agree with the words they     *)
(* describe, what is loaded is what was saved, and sizes are true.         *)
ObjectsReturn == part = "objects" => Objs!ObjectsReturn

(* kswitch_keys.h: keys brought to the device can be used there, since     *)
(* their list of addresses is that of the words that were brought.         *)
ConveyedKeysUsable == part = "objects" => Objs!ConveyedKeysUsable

(* random_generator.cu: batched, single, host's and device's forms draw    *)
(* the same stream, and draw no part of it twice, where they are meant to. *)
StreamsConsistent == part = "stream" => Stream!StreamsConsistent

(* random_generator.cu: the host and the device draw the same samples from *)
(* the same seed, as the library's test says.                              *)
SamplersAgree == part = "stream" => Stream!SamplersAgree
=============================================================================

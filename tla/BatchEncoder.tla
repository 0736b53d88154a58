---------------------------- MODULE BatchEncoder ----------------------------
(***************************************************************************)
(* The batch encoder (batch_encoder.cu): vectors of words modulo the plain *)
(* modulus become polynomials such that products of polynomials multiply   *)
(* the slots and automorphisms permute them.  A plaintext is held with its *)
(* place (host or device), its level (0: modulo t) and its coefficients;   *)
(* one at a level is held as integers below that level's modulus, what its *)
(* residues stand for (Rns).  Words given to the encoder are below t.      *)
(***************************************************************************)
EXTENDS Integers, Sequences, FiniteSets, SequencesExt

CONSTANTS
  Setups,       \* the scheme, the degree's logarithm, t, a root (0 if t does not batch), moduli
  Batches,      \* lists of vectors to encode
  Factors,      \* correction factors
  MaxApplied,   \* bound: ring operations on one plaintext
  BATCH_OP_THRESHOLD

VARIABLES setup, contextDev, encoder, plains, meant, applied, read, refused
vars == <<setup, contextDev, encoder, plains, meant, applied, read, refused>>

Degree == 2 ^ setup.logn
T      == setup.t
GALOIS_GENERATOR == 3
Pow(b, e, m) == LET r[i \in 0 .. e] == IF i = 0 THEN 1 ELSE LET prev == r[i - 1] IN (prev * b) % m IN r[e]
TotalOf(f, n, m) == LET r[i \in 0 .. n] == IF i = 0 THEN 0 ELSE LET prev == r[i - 1] IN (prev + f[i - 1]) % m IN r[n]
InverseMod(x, m) == CHOOSE y \in 0 .. m - 1 : (x * y) % m = 1
Invertible(x, m) == \E y \in 0 .. m - 1 : (x * y) % m = 1
reverse_bits_uint64(x, bits) ==
  LET r[i \in 0 .. bits] == IF i = 0 THEN 0 ELSE LET prev == r[i - 1] IN 2 * prev + ((x \div 2 ^ (i - 1)) % 2)
  IN  r[bits]

(* The transforms of the plain modulus, by what they compute (Ntt).        *)
Exponent(i) == 2 * reverse_bits_uint64(i, setup.logn) + 1
ntt_inplace(c) ==
  [i \in 0 .. Degree - 1 |->
     TotalOf([k \in 0 .. Degree - 1 |-> c[k] * Pow(setup.root, Exponent(i) * k, T)], Degree, T)]
intt_inplace(v) ==
  LET inverse == InverseMod(setup.root, T)
      scale   == InverseMod(Degree, T)
  IN  [k \in 0 .. Degree - 1 |->
         (scale * TotalOf([i \in 0 .. Degree - 1 |-> v[i] * Pow(inverse, Exponent(i) * k, T)], Degree, T)) % T]

-----------------------------------------------------------------------------
(* The constructor: where the matrix's two rows go.                        *)
matrix_reps_index_map ==
  LET row  == Degree \div 2
      pos(i) == Pow(GALOIS_GENERATOR, i, 2 * Degree)
  IN  [i \in 0 .. Degree - 1 |->
         reverse_bits_uint64(IF i < row THEN (pos(i) - 1) \div 2
                             ELSE (2 * Degree - pos(i - row) - 1) \div 2, setup.logn)]
using_batching == setup.root # 0
(* to_device_inplace of an empty map still moves the encoder.              *)
on_device == encoder.dev
pool_compatible(pool) == on_device => pool
reverse_bits(input, n) == [i \in 0 .. n - 1 |-> input[reverse_bits_uint64(i, setup.logn)]]

(* Words beyond the vector's end are zero.                                 *)
encode_set_values(values) ==
  LET at == [j \in 0 .. Degree - 1 |-> CHOOSE i \in 0 .. Degree - 1 : encoder.map[i] = j]
  IN  [j \in 0 .. Degree - 1 |-> IF at[j] < Len(values) THEN values[at[j] + 1] ELSE 0]
decode_set_values(v) == [i \in 1 .. Degree |-> v[encoder.map[i - 1]]]

Plain(dev, data, size) == [dev |-> dev, level |-> 0, ntt |-> FALSE, data |-> data, size |-> size]
Nothing == Plain(FALSE, << >>, 0)
(* A destination after a call: what it holds, and whether the call threw.  *)
Kept(p)       == [plain |-> p, threw |-> TRUE]
Written(p)    == [plain |-> p, threw |-> FALSE]

(* The values may be on either side: they are copied to the encoder's.     *)
(* With the context on the other side the destination was already written. *)
encode_slice(values, pool, destination) ==
  IF \/ ~pool_compatible(pool) \/ encoder.map = << >> \/ Len(values) > Degree
  THEN Kept(destination)
  ELSE LET set == encode_set_values(values)
       IN  IF on_device # contextDev THEN Kept(Plain(on_device, set, Degree))
           ELSE Written(Plain(on_device, intt_inplace(set), Degree))
(* It is the number of slices that is compared with the slot count; a      *)
(* longer slice then indexes the map beyond its end: nothing is promised   *)
(* of what it leaves (LongSlice).                                          *)
encode_slice_batched(lists, onDevice, pool, destinations) ==
  LET single == [i \in 1 .. Len(lists) |-> encode_slice(lists[i], pool, destinations[i])]
      bad    == {i \in 1 .. Len(lists) : single[i].threw}
  IN  IF ~on_device \/ Len(lists) < BATCH_OP_THRESHOLD
      THEN [threw |-> bad # {},
            plains |-> [i \in 1 .. Len(lists) |->
                          IF bad = {} \/ \A b \in bad : i <= b THEN single[i].plain ELSE destinations[i]]]
      ELSE IF \/ ~pool_compatible(pool) \/ ~onDevice \/ encoder.map = << >> \/ Len(lists) > Degree
           THEN [threw |-> TRUE, plains |-> destinations]
           ELSE LET set == [i \in 1 .. Len(lists) |-> encode_set_values(lists[i])]
                IN  [threw |-> ~contextDev,
                     plains |-> [i \in 1 .. Len(lists) |->
                                   Plain(TRUE, IF contextDev THEN intt_inplace(set[i]) ELSE set[i], Degree)]]
LongSlice(lists) == on_device /\ Len(lists) >= BATCH_OP_THRESHOLD /\ \E i \in 1 .. Len(lists) : Len(lists[i]) > Degree
encode_polynomial_slice(values, pool, destination) ==
  IF ~pool_compatible(pool) \/ Len(values) > Degree \/ on_device # contextDev
  THEN Kept(destination)
  ELSE Written(Plain(on_device, [k \in 0 .. Len(values) - 1 |-> values[k + 1] % T], Len(values)))

(* A plaintext at a level has a component for every prime: its words do    *)
(* not fit unless there is one prime.                                      *)
PrimesAt(level) == IF level = 0 THEN 1 ELSE Len(setup.moduli) + 1 - level
Padded(p) == [k \in 0 .. Degree - 1 |-> IF k < p.size THEN p.data[k] ELSE 0]
decodable(p, pool) ==
  /\ pool_compatible(pool) /\ encoder.map # << >> /\ ~p.ntt
  /\ PrimesAt(p.level) = 1 /\ p.size <= Degree /\ on_device = contextDev /\ p.dev = on_device
decode_slice(p) == decode_set_values(ntt_inplace(Padded(p)))
(* Destinations are on the device; all plaintexts have one length.         *)
decode_slice_batched(ps, onDevice, pool) ==
  IF ~on_device \/ Len(ps) < BATCH_OP_THRESHOLD
  THEN IF \A i \in 1 .. Len(ps) : decodable(ps[i], pool)
       THEN [i \in 1 .. Len(ps) |-> decode_slice(ps[i])] ELSE << >>
  ELSE IF /\ onDevice /\ \A i \in 1 .. Len(ps) : decodable(ps[i], pool) /\ ps[i].size = ps[1].size
       THEN [i \in 1 .. Len(ps) |-> decode_slice(ps[i])] ELSE << >>
decode_polynomial_slice(p) == [k \in 1 .. p.size |-> p.data[k - 1]]

-----------------------------------------------------------------------------
(* scaling_variant.cu on integers: a plaintext is raised to a level, where *)
(* a ciphertext's multiple of it can be taken, and brought back.           *)
Modulus(level) == setup.moduli[level]
Map1(p, level, Op(_)) == [p EXCEPT !.level = level, !.data = [k \in 0 .. p.size - 1 |-> Op(p.data[k])]]
scale_up_new(p, level) ==
  LET q == Modulus(level)
  IN  Map1(p, level, LAMBDA x : (q \div T) * x + ((((q % T) * x) + ((T + 1) \div 2)) \div T))
scale_down_new(p) ==
  LET q == Modulus(p.level) IN Map1(p, 0, LAMBDA x : ((2 * T * x + q) \div (2 * q)) % T)
centralize_new(p, level) ==
  LET q == Modulus(level) IN Map1(p, level, LAMBDA x : IF x >= (T + 1) \div 2 THEN x + (q - T) ELSE x)
decentralize_new(p, correction_factor) ==
  LET q   == Modulus(p.level)
      fix == InverseMod(correction_factor, T)
  IN  Map1(p, 0, LAMBDA x : ((IF 2 * x > q THEN x - q ELSE x) * fix) % T)

(* What the evaluator does to plaintexts and what they carry: products in  *)
(* the ring and automorphisms.                                             *)
RingProduct(p, q, m) ==
  LET a == Padded(p)
      b == Padded(q)
      Term(k, j) == IF j <= k THEN a[j] * b[k - j] ELSE -(a[j] * b[Degree + k - j])
  IN  [p EXCEPT !.size = Degree,
                !.data = [k \in 0 .. Degree - 1 |-> TotalOf([j \in 0 .. Degree - 1 |-> Term(k, j) % m], Degree, m)]]
Automorphism(p, g) ==
  LET a   == Padded(p)
      src == [k \in 0 .. Degree - 1 |-> CHOOSE j \in 0 .. Degree - 1 : (j * g) % Degree = k]
  IN  [p EXCEPT !.size = Degree,
                !.data = [k \in 0 .. Degree - 1 |->
                            IF (src[k] * g) % (2 * Degree) < Degree THEN a[src[k]] ELSE (-a[src[k]]) % T]]

-----------------------------------------------------------------------------
(* What a plaintext is to carry: its slots, and how it was raised.         *)
Slots(values)   == [i \in 1 .. Degree |-> IF i <= Len(values) THEN values[i] % T ELSE 0]
(* Slot i of a polynomial: its value at the root's 3^i-th power, and in    *)
(* the second row at the inverse.                                          *)
Evaluated(values) ==
  LET row == Degree \div 2
      at  == [i \in 0 .. Degree - 1 |-> IF i < row THEN Pow(3, i, 2 * Degree) ELSE 2 * Degree - Pow(3, i - row, 2 * Degree)]
      One(i) == TotalOf([k \in 0 .. Degree - 1 |->
                          IF k < Len(values) THEN (values[k + 1] % T) * Pow(setup.root, at[i] * k, T) ELSE 0], Degree, T)
  IN  [i \in 1 .. Degree |-> IF using_batching THEN One(i - 1) ELSE 0]
Meant(slots)    == [slots |-> slots, coeffs |-> << >>, raised |-> "no"]
Unknown         == [slots |-> << >>, coeffs |-> << >>, raised |-> "no"]

Ready == encoder # << >>
Result(r, i, m) ==
  /\ plains' = [plains EXCEPT ![i] = r.plain]
  /\ meant'  = [meant EXCEPT ![i] = IF ~r.threw THEN m ELSE IF r.plain = plains[i] THEN @ ELSE Unknown]
  /\ refused' = r.threw

Init ==
  /\ setup \in Setups /\ contextDev = FALSE /\ encoder = << >>
  /\ plains = [i \in 1 .. 3 |-> Nothing] /\ meant = [i \in 1 .. 3 |-> Unknown]
  /\ applied = 0 /\ read = << >> /\ refused = FALSE

ContextToDevice ==
  /\ ~contextDev /\ plains[1] = Nothing
  /\ contextDev' = TRUE
  /\ UNCHANGED <<setup, encoder, plains, meant, applied, read, refused>>

(* An encoder is made on the host, for BFV and BGV.                        *)
Construct ==
  /\ encoder = << >> /\ ~refused
  /\ LET fails == contextDev \/ setup.scheme = "CKKS"
     IN  /\ refused' = fails
         /\ encoder' = IF fails THEN << >>
                       ELSE [dev |-> FALSE, map |-> IF using_batching THEN matrix_reps_index_map ELSE << >>]
  /\ UNCHANGED <<setup, contextDev, plains, meant, applied, read>>

ToDevice ==
  /\ Ready /\ ~encoder.dev /\ plains[1] = Nothing
  /\ encoder' = [encoder EXCEPT !.dev = TRUE]
  /\ UNCHANGED <<setup, contextDev, plains, meant, applied, read, refused>>

Encode(values, pool) ==
  /\ Ready /\ ~refused /\ applied = 0 /\ plains[1] = Nothing
  /\ Result(encode_slice(values, pool, plains[1]), 1, Meant(Slots(values)))
  /\ UNCHANGED <<setup, contextDev, encoder, applied, read>>

EncodePolynomial(values, pool) ==
  /\ Ready /\ ~refused /\ applied = 0
  /\ \E i \in {1, 2} :
       /\ plains[i] = Nothing
       /\ Result(encode_polynomial_slice(values, pool, plains[i]), i,
                 [Meant(Evaluated(values)) EXCEPT !.coeffs = [k \in 1 .. Len(values) |-> values[k] % T]])
  /\ UNCHANGED <<setup, contextDev, encoder, applied, read>>

EncodeBatched(lists, onDevice, pool) ==
  /\ Ready /\ ~refused /\ plains[1] = Nothing /\ plains[2] = Nothing /\ lists # << >>
  /\ LET made == encode_slice_batched(lists, onDevice, pool, [i \in 1 .. Len(lists) |-> Nothing])
     IN  /\ refused' = made.threw
         /\ plains' = [i \in 1 .. 3 |-> IF i <= Len(lists) THEN made.plains[i] ELSE Nothing]
         /\ meant' = [i \in 1 .. 3 |-> IF i > Len(lists) \/ made.threw \/ LongSlice(lists) THEN Unknown ELSE Meant(Slots(lists[i]))]
  /\ UNCHANGED <<setup, contextDev, encoder, applied, read>>

(* Products modulo t, or of a scaled and a centralized plaintext at one    *)
(* level (BFV), or of two centralized ones: one product, which the moduli  *)
(* have room for.                                                          *)
Multiply ==
  /\ applied < (IF plains[1].level = 0 THEN MaxApplied ELSE 1) /\ ~refused
  /\ meant[1].slots # << >> /\ meant[2].slots # << >> /\ plains[1].level = plains[2].level /\ read = << >>
  /\ meant[2].raised \in {"no", "centralized"} /\ (setup.scheme = "BGV" => meant[1].raised # "scaled")
  /\ LET m == IF plains[1].level = 0 THEN T ELSE Modulus(plains[1].level)
     IN  plains' = [plains EXCEPT ![1] = RingProduct(plains[1], plains[2], m)]
  /\ meant' = [meant EXCEPT ![1].coeffs = << >>,
                            ![1].slots = [i \in 1 .. Degree |-> (meant[1].slots[i] * meant[2].slots[i]) % T]]
  /\ applied' = applied + 1
  /\ UNCHANGED <<setup, contextDev, encoder, read, refused>>

(* Rotation of both rows to the left by k, or an exchange of the rows.     *)
Rotate ==
  /\ applied < MaxApplied /\ ~refused /\ meant[1].slots # << >> /\ plains[1].level = 0 /\ read = << >>
  /\ LET row == Degree \div 2
     IN  \E k \in 0 .. row :
           /\ plains' = [plains EXCEPT ![1] = Automorphism(@, IF k = row THEN 2 * Degree - 1 ELSE Pow(3, k, 2 * Degree))]
           /\ meant' = [meant EXCEPT ![1].coeffs = << >>,
                          ![1].slots = [i \in 1 .. Degree |->
                             IF k = row THEN @[((i - 1 + row) % Degree) + 1]
                             ELSE @[((i - 1) \div row) * row + ((i - 1 + k) % row) + 1]]]
  /\ applied' = applied + 1
  /\ UNCHANGED <<setup, contextDev, encoder, read, refused>>

Raise(i, up, level) ==
  /\ Ready /\ ~refused /\ meant[i].slots # << >> /\ meant[i].raised = "no" /\ applied = 0 /\ read = << >>
  /\ LET fails == \/ up /\ setup.scheme # "BFV"
                  \/ plains[i].dev # contextDev
     IN  /\ refused' = fails
         /\ plains' = IF fails THEN plains
                      ELSE [plains EXCEPT ![i] = IF up THEN scale_up_new(@, level) ELSE centralize_new(@, level)]
         /\ meant' = IF fails THEN meant
                     ELSE [meant EXCEPT ![i].raised = IF up THEN "scaled" ELSE "centralized"]
  /\ UNCHANGED <<setup, contextDev, encoder, applied, read>>

Lower(i, down, factor) ==
  /\ Ready /\ ~refused /\ meant[i].slots # << >> /\ read = << >>
  /\ applied' = MaxApplied
  /\ IF down THEN meant[i].raised \in {"no", "scaled"} ELSE meant[i].raised \in {"no", "centralized"}
  /\ LET fails == \/ down /\ setup.scheme # "BFV"
                  \/ plains[i].level = 0
                  \/ plains[i].dev # contextDev
                  \/ ~down /\ factor # 1 /\ ~Invertible(factor, T)
     IN  /\ refused' = fails
         /\ plains' = IF fails THEN plains
                      ELSE [plains EXCEPT ![i] = IF down THEN scale_down_new(@) ELSE decentralize_new(@, factor)]
         /\ meant' = IF fails THEN meant
                     ELSE [meant EXCEPT ![i] = [@ EXCEPT !.raised = "no",
                             !.coeffs = [k \in DOMAIN @ |-> (@[k] * (IF down THEN 1 ELSE InverseMod(factor, T))) % T],
                             !.slots = [k \in DOMAIN @ |-> (@[k] * (IF down THEN 1 ELSE InverseMod(factor, T))) % T]]]
  /\ UNCHANGED <<setup, contextDev, encoder, read>>

Decode(pool) ==
  /\ Ready /\ ~refused /\ read = << >> /\ meant[1].slots # << >>
  /\ refused' = ~decodable(plains[1], pool)
  /\ read' = IF decodable(plains[1], pool)
             THEN <<[got |-> decode_slice(plains[1]), want |-> meant[1].slots, raised |-> meant[1].raised]>> ELSE << >>
  /\ UNCHANGED <<setup, contextDev, encoder, plains, meant, applied>>

DecodePolynomial ==
  /\ Ready /\ ~refused /\ read = << >> /\ meant[1].slots # << >> /\ meant[1].coeffs # << >>
  /\ refused' = (plains[1].ntt \/ plains[1].level # 0)
  /\ read' = IF refused' THEN << >> ELSE <<[got |-> decode_polynomial_slice(plains[1]), want |-> meant[1].coeffs, raised |-> "no"]>>
  /\ UNCHANGED <<setup, contextDev, encoder, plains, meant, applied>>

DecodeBatched(onDevice, pool) ==
  /\ Ready /\ ~refused /\ read = << >> /\ \A i \in 1 .. 3 : meant[i].slots # << >>
  /\ LET got == decode_slice_batched(plains, onDevice, pool)
     IN  /\ refused' = (got = << >>)
         /\ read' = [i \in DOMAIN got |-> [got |-> got[i], want |-> meant[i].slots, raised |-> meant[i].raised]]
  /\ UNCHANGED <<setup, contextDev, encoder, plains, meant, applied>>

Singles == {Batches[i][1] : i \in {j \in DOMAIN Batches : Len(Batches[j]) > 0}}
Next ==
  \/ ContextToDevice \/ Construct \/ ToDevice \/ Multiply \/ Rotate \/ DecodePolynomial
  \/ \E pool \in BOOLEAN : Decode(pool) \/ (\E v \in Singles : Encode(v, pool) \/ EncodePolynomial(v, pool))
  \/ \E onDevice, pool \in BOOLEAN :
       DecodeBatched(onDevice, pool) \/ (\E b \in DOMAIN Batches : EncodeBatched(Batches[b], onDevice, pool))
  \/ \E i \in {1, 2}, up \in BOOLEAN, level \in 1 .. Len(setup.moduli) : Raise(i, up, level)
  \/ \E i \in {1, 2}, down \in BOOLEAN, f \in Factors : Lower(i, down, f)
Spec == Init /\ [][Next]_vars

(* batch_encoder.cu:14 -- what is decoded is what the plaintext was made   *)
(* to carry: the encoded words, multiplied slot by slot by the ring's      *)
(* products and moved by its automorphisms, through every change of level, *)
(* on the host or the device.  A plaintext still raised to a level with    *)
(* one prime is decoded without an error, to words that mean nothing.      *)
SlotsReturn == \A i \in DOMAIN read : read[i].raised = "no" => read[i].got = read[i].want
=============================================================================

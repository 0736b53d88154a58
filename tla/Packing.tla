-------------------------------- MODULE Packing --------------------------------
(***************************************************************************)
(* LWE ciphertexts and packing (evaluator_lwes.cu, lwe_ciphertext.cu):     *)
(* single coefficients are extracted from ciphertexts, and coefficients    *)
(* that lie input_interval apart in several ciphertexts are gathered in    *)
(* one.  A ciphertext is the sequence of its polynomials, without noise,   *)
(* over the integers modulo an odd prime P; the prime stands for the whole *)
(* coefficient modulus, whose residues are all treated alike.  Data is     *)
(* kept in coefficient form, and ntt says which form the code holds; where *)
(* the code's data is not in the form ntt says, its words are kept.        *)
(***************************************************************************)
EXTENDS Integers, Sequences, FiniteSets

CONSTANTS
  LogN, P,
  Secret,              \* the secret key polynomial
  Sources,             \* what the ciphertexts given to a call hide, and the mask of each
  Lists, Shifts, Intervals,   \* calls that pack ciphertexts
  Terms,               \* coefficients that are extracted
  MaxLwes,             \* a bound on the number of LWE ciphertexts of a program
  BATCH_OP_THRESHOLD   \* groups below this number are packed one by one

VARIABLES scheme, device, autoKeys, lwes, hidden, packed, expects, ended
vars == <<scheme, device, autoKeys, lwes, hidden, packed, expects, ended>>

Degree == 2 ^ LogN
Coeffs == 0 .. Degree - 1
Zero   == [x \in Coeffs |-> 0]
Plus(a, b)  == [x \in Coeffs |-> (a[x] + b[x]) % P]
Minus(a, b) == [x \in Coeffs |-> (a[x] + P - b[x]) % P]
Times(a, k) == [x \in Coeffs |-> (a[x] * k) % P]
(* utils::negacyclic_shift_ps: multiplication by the shift-th power of X. *)
negacyclic_shift(a, shift) ==
  [x \in Coeffs |-> LET from == (x + 2 * Degree - shift) % (2 * Degree)
                    IN  IF from < Degree THEN a[from] ELSE (P - a[from - Degree]) % P]
Product(a, b) ==
  LET r[i \in -1 .. Degree - 1] ==
        IF i = -1 THEN Zero
        ELSE LET prev == r[i - 1]
             IN  IF a[i] = 0 THEN prev ELSE Plus(prev, Times(negacyclic_shift(b, i), a[i]))
  IN  r[Degree - 1]
Automorphism(a, g) ==
  [y \in Coeffs |-> LET x == CHOOSE v \in Coeffs : (v * g) % Degree = y
                    IN  IF (x * g) % (2 * Degree) < Degree THEN a[x] ELSE (P - a[x]) % P]
InverseOf(k) == CHOOSE v \in 1 .. P - 1 : (v * k) % P = 1

(* What a ciphertext of any size decrypts to. *)
Phase(c) ==
  LET r[i \in 1 .. Len(c.polys) + 1] ==
        IF i > Len(c.polys) THEN Zero ELSE Plus(c.polys[i], Product(Secret, r[i + 1]))
  IN  r[1]
Map1(c, poly(_)) == [c EXCEPT !.polys = [i \in 1 .. Len(c.polys) |-> poly(c.polys[i])]]
Map2(c, d, poly(_, _)) == [c EXCEPT !.polys = [i \in 1 .. Len(c.polys) |-> poly(c.polys[i], d.polys[i])]]
Shifted(c, shift) == Map1(c, LAMBDA a : negacyclic_shift(a, shift))
Added(c, d)       == Map2(c, d, Plus)
Subtracted(c, d)  == Map2(c, d, Minus)

(* Evaluator::apply_galois; what the key switch makes of the second        *)
(* polynomial is left to KeySwitch.                                        *)
apply_galois(c, g) ==
  LET c1 == Automorphism(c.polys[2], g)
  IN  [c EXCEPT !.polys = <<Plus(Automorphism(c.polys[1], g),
                                 Product(c1, Minus(Automorphism(Secret, g), Secret))), c1>>]

(* Evaluator::divide_by_poly_modulus_degree_inplace and its batched form.  *)
divide_by_poly_modulus_degree(c, mul) ==
  Map1(c, LAMBDA a : Times(a, (InverseOf(Degree % P) * mul) % P))

-----------------------------------------------------------------------------
(* An LWE ciphertext: a coefficient of the first polynomial, and the       *)
(* second one shifted so that its phase has the coefficient in place 0.    *)
extract_lwe_gather_c0(c, term) == c.polys[1][term]
extract_lwe_new(c, term) ==
  LET shift == IF term = 0 THEN 0 ELSE 2 * Degree - term
  IN  [c0 |-> extract_lwe_gather_c0(c, term), c1 |-> negacyclic_shift(c.polys[2], shift),
       parms |-> c.parms, scale |-> c.scale]
assemble_lwe_set(c0) == [Zero EXCEPT ![0] = c0]
assemble_lwe(l) ==
  [polys |-> <<assemble_lwe_set(l.c0), l.c1>>, ntt |-> FALSE, seed |-> FALSE,
   parms |-> l.parms, scale |-> l.scale]
assemble_lwe_batched(list) == [i \in 1 .. Len(list) |-> assemble_lwe(list[i])]

(* Evaluator::field_trace_inplace: the degree is halved until 2^logn       *)
(* coefficients are kept.                                                  *)
TraceElements(logn) == {2 ^ k + 1 : k \in logn + 1 .. LogN}
field_trace(c, logn) ==
  LET r[k \in logn .. LogN] ==        \* r[k]: after the degrees above 2^k
        IF k = LogN THEN c
        ELSE LET prev == r[k + 1] IN Added(prev, apply_galois(prev, 2 ^ (k + 1) + 1))
  IN  r[logn]

PowerOfTwo(n) == \E k \in 0 .. LogN : n = 2 ^ k
Log2(n) == CHOOSE k \in 0 .. LogN : n = 2 ^ k
ReverseBits(i, bits) ==
  LET r[k \in 0 .. bits] == IF k = 0 THEN 0 ELSE 2 * r[k - 1] + ((i \div 2 ^ (k - 1)) % 2)
  IN  r[bits]

(* One layer: what lies gap apart is paired, the odd one moved next to the *)
(* even one.  The host leaves out the places that hold no ciphertext; the  *)
(* device has filled them with zeros.                                      *)
Pair(even, odd, shift, g) ==
  IF odd = << >>
  THEN IF even = << >> THEN even ELSE Added(even, apply_galois(even, g))
  ELSE LET temp == Shifted(odd, shift)
       IN  IF even = << >> THEN Added(apply_galois(Map1(temp, LAMBDA a : Minus(Zero, a)), g), temp)
           ELSE Added(Added(even, temp), apply_galois(Subtracted(even, temp), g))
MutantGaloisElement(input_interval, layer) ==   \* the element of the layer before
  (Degree \div input_interval) * 2 ^ layer + 1
GaloisElement(input_interval, layer) == (Degree \div input_interval) * 2 ^ (layer + 1) + 1
Layers(rlwes, layers, input_interval) ==
  LET count == 2 ^ layers
      r[k \in 0 .. layers] ==
        IF k = 0 THEN rlwes
        ELSE LET prev == r[k - 1]
                 gap  == 2 ^ (k - 1)
             IN  [i \in 0 .. count - 1 |->
                    IF i % (2 * gap) = 0
                    THEN Pair(prev[i], prev[i + gap], input_interval \div 2 ^ k,
                              GaloisElement(input_interval, k - 1))
                    ELSE prev[i]]
  IN  r[layers][0]

(* The checks of pack_rlwe_ciphertexts_new and of its batched form, and of *)
(* the calls it makes: apply_galois wants a key and two polynomials.  None *)
(* asks for a seed; Ciphertext::like makes the copies without it.          *)
SameHeaders(ciphers) ==
  \A i, j \in DOMAIN ciphers : /\ ciphers[i].parms = ciphers[j].parms
                               /\ ciphers[i].ntt = ciphers[j].ntt
                               /\ Len(ciphers[i].polys) = Len(ciphers[j].polys)
                               /\ scheme # "BFV" => ciphers[i].scale = ciphers[j].scale
IntervalsFit(ciphers, input_interval, output_interval) ==
  /\ Len(ciphers) > 0
  /\ input_interval <= Degree /\ output_interval <= input_interval
  /\ PowerOfTwo(input_interval) /\ PowerOfTwo(output_interval)
  /\ Len(ciphers) <= input_interval \div output_interval
ElementsFor(input_interval, output_interval, trace) ==
  {GaloisElement(input_interval, l) : l \in 0 .. Log2(input_interval \div output_interval) - 1}
    \cup IF output_interval # 1 /\ trace THEN TraceElements(Log2(Degree \div output_interval)) ELSE {}
Packable(ciphers, input_interval, output_interval, trace) ==
  /\ SameHeaders(ciphers) /\ IntervalsFit(ciphers, input_interval, output_interval)
  /\ LET elements == ElementsFor(input_interval, output_interval, trace)
     IN  elements \subseteq autoKeys /\ (elements # {} => Len(ciphers[1].polys) = 2)

Prepared(c, shift, input_interval) ==
  LET d == divide_by_poly_modulus_degree([c EXCEPT !.ntt = FALSE, !.seed = FALSE], Degree \div input_interval)
  IN  IF shift # 0 THEN Shifted(d, shift) ELSE d
Placed(ciphers, layers, shift, input_interval, filled) ==
  LET blank == [Prepared(ciphers[1], 0, input_interval) EXCEPT !.polys = <<Zero, Zero>>]
  IN  [i \in 0 .. 2 ^ layers - 1 |->
         LET index == ReverseBits(i, layers)
         IN  IF index < Len(ciphers) THEN Prepared(ciphers[index + 1], shift, input_interval)
             ELSE IF filled THEN blank ELSE << >>]
output_ntt_form == scheme # "BFV"
pack_rlwe_ciphertexts_new(ciphers, shift, input_interval, output_interval, trace) ==
  LET layers == Log2(input_interval \div output_interval)
      first  == Layers(Placed(ciphers, layers, shift, input_interval, device), layers, input_interval)
      ret    == [first EXCEPT !.ntt = output_ntt_form]
  IN  IF output_interval # 1 /\ trace THEN field_trace(ret, Log2(Degree \div output_interval)) ELSE ret
(* Groups: one by one on the host and when they are few; otherwise all     *)
(* together, every empty place filled with zeros.                          *)
pack_rlwe_ciphertexts_batched(groups, shift, input_interval, output_interval, trace) ==
  IF ~device \/ Len(groups) < BATCH_OP_THRESHOLD
  THEN [j \in 1 .. Len(groups) |->
          pack_rlwe_ciphertexts_new(groups[j], shift, input_interval, output_interval, trace)]
  ELSE LET layers == Log2(input_interval \div output_interval)
           Packs(g) == Layers(Placed(g, layers, shift, input_interval, TRUE), layers, input_interval)
           ret == [j \in 1 .. Len(groups) |-> [Packs(groups[j]) EXCEPT !.ntt = output_ntt_form]]
       IN  IF output_interval # 1 /\ trace
           THEN [j \in 1 .. Len(groups) |-> field_trace(ret[j], Log2(Degree \div output_interval))]
           ELSE ret

(* The output interval of LWE ciphertexts: room for as many as the largest *)
(* group has.                                                              *)
Interval(count) == Degree \div 2 ^ (CHOOSE l \in 0 .. LogN : count <= 2 ^ l /\ (l > 0 => 2 ^ (l - 1) < count))
pack_lwe_ciphertexts_new(list, trace) ==
  pack_rlwe_ciphertexts_new(assemble_lwe_batched(list), 0, Degree, Interval(Len(list)), trace)
pack_lwe_ciphertexts_batched(groups, trace) ==
  LET most == CHOOSE m \in {Len(groups[j]) : j \in 1 .. Len(groups)} : \A j \in 1 .. Len(groups) : Len(groups[j]) <= m
  IN  pack_rlwe_ciphertexts_batched([j \in 1 .. Len(groups) |-> assemble_lwe_batched(groups[j])],
                                    0, Degree, Interval(most), trace)

-----------------------------------------------------------------------------
(* A program: it extracts coefficients, and packs them or ciphertexts.     *)
(* The second polynomial of a BFV ciphertext that keeps its seed is left   *)
(* as the NTT made it, until the seed is expanded (rlwe.cu).               *)
PowerMod(r, e) == LET p[i \in 0 .. e] == IF i = 0 THEN 1 ELSE (p[i - 1] * r) % P IN p[e]
Root == CHOOSE r \in 1 .. P - 1 :
          PowerMod(r, Degree) = P - 1 /\ \A v \in 1 .. r - 1 : PowerMod(v, Degree) # P - 1
NttForm(a) ==
  [x \in Coeffs |-> LET w == PowerMod(Root, 2 * ReverseBits(x, LogN) + 1)
                        v[i \in 0 .. Degree] == IF i = Degree THEN 0 ELSE (a[i] + w * v[i + 1]) % P
                    IN  v[0]]
InNttForm(s) == s.seed /\ scheme = "BFV"
Encrypted(s) ==
  LET mask  == IF InNttForm(s) THEN NttForm(s.mask) ELSE s.mask
      extra == IF s.extra THEN <<s.mask>> ELSE << >>
      rest  == [polys |-> <<Zero, s.mask>> \o extra]
  IN  [polys |-> <<Minus(s.message, Phase(rest)), mask>> \o extra,
       ntt |-> scheme # "BFV", seed |-> s.seed, parms |-> s.parms, scale |-> 1]
(* What a ciphertext's words hide: its message, or nothing meant.          *)
Hidden(s) == IF InNttForm(s) THEN Phase(Encrypted(s)) ELSE s.message
AutomorphismElements == {2 ^ k + 1 : k \in 1 .. LogN}

Init ==
  /\ scheme \in {"BFV", "CKKS", "BGV"} /\ device \in BOOLEAN
  /\ autoKeys \in {AutomorphismElements, AutomorphismElements \ {Degree + 1}}
  /\ lwes = << >> /\ hidden = << >> /\ packed = << >> /\ expects = << >> /\ ended = "no"

Extract(s, term) ==
  /\ ended = "no" /\ Len(lwes) < MaxLwes
  /\ IF s.seed \/ s.extra
     THEN ended' = "thrown" /\ UNCHANGED <<lwes, hidden>>
     ELSE /\ lwes' = Append(lwes, extract_lwe_new(Encrypted(s), term))
          /\ hidden' = Append(hidden, s.message[term])
          /\ UNCHANGED ended
  /\ UNCHANGED <<scheme, device, autoKeys, packed, expects>>

Finish(allowed, result, wants) ==
  /\ ended' = IF allowed THEN "packed" ELSE "thrown"
  /\ packed' = IF allowed THEN result ELSE << >>
  /\ expects' = IF allowed THEN wants ELSE << >>
  /\ UNCHANGED <<scheme, device, autoKeys, lwes, hidden>>

PackLwes(trace) ==
  /\ ended = "no" /\ Len(lwes) > 0
  /\ LET oi == Interval(Len(lwes))
     IN  Finish(Packable(assemble_lwe_batched(lwes), Degree, oi, trace),
                <<pack_lwe_ciphertexts_new(lwes, trace)>>,
                <<[values |-> [k \in 1 .. Len(lwes) |-> [j \in 0 .. 0 |-> hidden[k]]],
                   ii |-> Degree, oi |-> oi, trace |-> trace]>>)

PackLweGroups(cut, trace) ==
  /\ ended = "no" /\ cut < Len(lwes)
  /\ LET groups == <<SubSeq(lwes, 1, cut), SubSeq(lwes, cut + 1, Len(lwes))>>
         known  == <<SubSeq(hidden, 1, cut), SubSeq(hidden, cut + 1, Len(lwes))>>
         oi     == Interval(IF 2 * cut > Len(lwes) THEN cut ELSE Len(lwes) - cut)
     IN  Finish(/\ SameHeaders(assemble_lwe_batched(lwes))
                /\ \A j \in 1 .. 2 : Packable(assemble_lwe_batched(groups[j]), Degree, oi, trace),
                pack_lwe_ciphertexts_batched(groups, trace),
                [j \in 1 .. 2 |->
                   [values |-> [k \in 1 .. Len(known[j]) |-> [x \in 0 .. 0 |-> known[j][k]]],
                    ii |-> Degree, oi |-> oi, trace |-> trace]])

PackRlwes(list, shift, input_interval, output_interval, trace) ==
  /\ ended = "no" /\ lwes = << >>
  /\ LET ciphers == [i \in 1 .. Len(list) |-> Encrypted(list[i])]
     IN  Finish(Packable(ciphers, input_interval, output_interval, trace),
                pack_rlwe_ciphertexts_batched(<<ciphers, ciphers>>, shift, input_interval, output_interval, trace),
                [j \in 1 .. 2 |->
                   [values |-> [k \in 1 .. Len(list) |->
                                  [x \in 0 .. (Degree \div input_interval) - 1 |->
                                     negacyclic_shift(Hidden(list[k]), shift)[x * input_interval]]],
                    ii |-> input_interval, oi |-> output_interval, trace |-> trace]])

Next ==
  \/ \E s \in Sources, t \in Terms : Extract(s, t)
  \/ \E trace \in BOOLEAN : PackLwes(trace) \/ \E cut \in 1 .. MaxLwes : PackLweGroups(cut, trace)
  \/ \E list \in Lists, trace \in BOOLEAN, shift \in Shifts, ii, oi \in Intervals :
       PackRlwes(list, shift, ii, oi, trace)
Spec == Init /\ [][Next]_vars

-----------------------------------------------------------------------------
(* evaluator.h, pack_rlwe_ciphertexts_new: coefficient i * input_interval  *)
(* of ciphertext k is found output_interval * k places further on, whether *)
(* the host skips the empty places or the device fills them; a field trace *)
(* clears every other coefficient, and without one the gathered values     *)
(* stay divided by output_interval.  The coefficients are those of the     *)
(* messages, except for BFV ciphertexts that keep their seeds: no check    *)
(* refuses these, and what comes out then is what their words would        *)
(* decrypt to with the second polynomial taken to be in the other form.    *)
CoefficientsGathered ==
  ended = "packed" =>
    \A j \in 1 .. Len(packed) :
      LET e == expects[j]
          m == Phase(packed[j])
          Held(x) == LET k == (x % e.ii) \div e.oi
                     IN  IF k < Len(e.values) THEN e.values[k + 1][x \div e.ii] ELSE 0
      IN  /\ packed[j].ntt = output_ntt_form
          /\ \A x \in Coeffs :
               IF x % e.oi # 0 THEN e.trace => m[x] = 0
               ELSE (m[x] * (IF e.trace THEN 1 ELSE e.oi)) % P = Held(x)
=============================================================================

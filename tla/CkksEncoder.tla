---------------------------- MODULE CkksEncoder -----------------------------
(***************************************************************************)
(* The CKKS encoder (ckks_encoder.cu).  Complex numbers are exact: those   *)
(* of the ring of integers of the 2N-th roots of unity, a function k |->   *)
(* the coefficient of the root's k-th power; a real part is A + B sqrt(2)  *)
(* over 2.  Doubles are exact here, so that what is left of the error is   *)
(* what the conversions to words lose.  A plaintext holds its residues in  *)
(* NTT form; words have WordBits bits and stand for the code's 64.         *)
(***************************************************************************)
EXTENDS Integers, Sequences, FiniteSets

CONSTANTS
  Setups,       \* the degree's logarithm (1 or 2), primes and their 2N-th roots
  Vectors,      \* lists of complex numbers
  Halves,       \* lists of twice the coefficients of real polynomials
  Integrals,    \* lists of integers
  Scales, FactorScale,   \* scales of a first plaintext and of one it is multiplied by
  UsedLevels, MaxApplied, WordBits

VARIABLES setup, contextDev, encoder, plains, meant, applied, read, refused
vars == <<setup, contextDev, encoder, plains, meant, applied, read, refused>>

LogN   == setup.logn
Degree == 2 ^ setup.logn
slots_ == Degree \div 2
Ix     == 0 .. Degree - 1
GALOIS_GENERATOR == 3
Pow(b, e, m) == LET r[i \in 0 .. e] == IF i = 0 THEN 1 ELSE LET prev == r[i - 1] IN (prev * b) % m IN r[e]
TotalOf(f) == LET r[i \in 0 .. Degree] == IF i = 0 THEN 0 ELSE LET prev == r[i - 1] IN prev + f[i - 1] IN r[Degree]
reverse_bits_uint64(x, bits) ==
  LET r[i \in 0 .. bits] == IF i = 0 THEN 0 ELSE LET prev == r[i - 1] IN 2 * prev + ((x \div 2 ^ (i - 1)) % 2)
  IN  r[bits]

(* Op(x), with x evaluated once.                                           *)
Once(x, Op(_)) == CHOOSE r \in {Op(y) : y \in {x}} : TRUE

(* CustomComplex: arithmetic of the ring, conj, and mirror, which swaps    *)
(* the real and the imaginary part.                                        *)
add(x, y) == [k \in Ix |-> x[k] + y[k]]
sub(x, y) == [k \in Ix |-> x[k] - y[k]]
mul(x, y) == Once(<<x, y>>, LAMBDA v :
               [k \in Ix |-> TotalOf([j \in Ix |-> IF j <= k THEN v[1][j] * v[2][k - j] ELSE -(v[1][j] * v[2][Degree + k - j])])])
neg(x)    == [k \in Ix |-> -x[k]]
conj(x)   == [k \in Ix |-> IF k = 0 THEN x[0] ELSE -x[Degree - k]]
Unit(k)   == [j \in Ix |-> IF j = k THEN 1 ELSE 0]
RootPower(e) == IF e % (2 * Degree) < Degree THEN Unit(e % Degree) ELSE neg(Unit(e % Degree))
mirror(x) == mul(RootPower(Degree \div 2), conj(x))
(* Twice the real part, as <<A, B>> for A + B sqrt(2).                     *)
TwiceReal(x) == IF Degree = 2 THEN <<2 * x[0], 0>> ELSE <<2 * x[0], x[1] - x[3]>>
TwiceImag(x) == IF Degree = 2 THEN <<2 * x[1], 0>> ELSE <<2 * x[2], x[1] + x[3]>>

(* Integer part of the square root, and of A + B sqrt(2) over D.           *)
Root2(b) ==
  LET s[n \in 0 .. 16] == IF n = 0 THEN 0
                          ELSE LET prev == s[n - 1]
                                   up   == prev + 2 ^ (16 - n)
                               IN  IF up * up <= 2 * b * b /\ up < 46340 THEN up ELSE prev
  IN  s[16]
Floor(a, b, d) == (IF b >= 0 THEN a + Root2(b) ELSE a - Root2(-b) - 1) \div d
IsNegative(v) == Floor(v[1], v[2], 1) < 0
Absolute(v)   == IF IsNegative(v) THEN <<-v[1], -v[2]>> ELSE v

-----------------------------------------------------------------------------
(* ComplexRoots: an eighth of the roots is kept, the others follow.        *)
get_root(index) ==
  LET m == 2 * Degree
      r[i \in 0 .. m - 1] ==
        CASE i <= m \div 8               -> RootPower(i)
          [] m \div 8 < i /\ i <= m \div 4 -> mirror(RootPower((m \div 4) - i))
          [] m \div 4 < i /\ i < m \div 2  -> neg(conj(r[(m \div 2) - i]))
          [] m \div 2 <= i /\ i <= (3 * m) \div 4 -> neg(r[i - (m \div 2)])
          [] OTHER                       -> conj(r[m - i])
  IN  r[index % m]
root_powers_ ==
  [i \in 1 .. Degree - 1 |->
     IF Degree = 2 THEN Unit(1) ELSE get_root(reverse_bits_uint64(i, LogN))]
inv_root_powers_ ==
  [i \in 1 .. Degree - 1 |->
     IF Degree = 2 THEN neg(Unit(1)) ELSE conj(get_root(reverse_bits_uint64(i - 1, LogN) + 1))]
matrix_reps_index_map ==
  LET pos(i) == Pow(GALOIS_GENERATOR, i, 2 * Degree)
  IN  [i \in Ix |-> reverse_bits_uint64(IF i < slots_ THEN (pos(i) - 1) \div 2
                                        ELSE (2 * Degree - pos(i - slots_) - 1) \div 2, LogN)]

(* The two transforms, layer by layer; the division by N is left to the    *)
(* scale.                                                                  *)
fft_transform_from_rev_layer(layer, x) ==
  LET gap == 2 ^ layer
      m   == 2 ^ (LogN - 1 - layer)
      rid(c) == Degree - 2 * m + 1 + (c \div (2 * gap))
  IN  [c \in Ix |-> IF (c \div gap) % 2 = 0 THEN add(x[c], x[c + gap])
                    ELSE mul(sub(x[c - gap], x[c]), encoder.inv[rid(c)])]
fft_transform_from_rev(x) ==
  LET r[l \in 0 .. LogN] == IF l = 0 THEN x ELSE Once(r[l - 1], LAMBDA y : fft_transform_from_rev_layer(l - 1, y))
  IN  r[LogN]
fft_transform_to_rev_layer(layer, x) ==
  LET gap == 2 ^ (LogN - 1 - layer)
      rid(c) == 2 ^ layer + (c \div (2 * gap))
  IN  [c \in Ix |-> IF (c \div gap) % 2 = 0 THEN add(x[c], mul(x[c + gap], encoder.pow[rid(c)]))
                    ELSE sub(x[c - gap], mul(x[c], encoder.pow[rid(c)]))]
fft_transform_to_rev(x) ==
  LET r[l \in 0 .. LogN] == IF l = 0 THEN x ELSE Once(r[l - 1], LAMBDA y : fft_transform_to_rev_layer(l - 1, y))
  IN  r[LogN]

set_conjugate_values(from) ==
  LET at == [j \in Ix |-> CHOOSE i \in Ix : encoder.map[i] = j]
      One(i) == IF (i % slots_) >= Len(from) THEN [k \in Ix |-> 0]
                ELSE IF i < slots_ THEN from[i + 1] ELSE conj(from[i - slots_ + 1])
  IN  [j \in Ix |-> One(at[j])]
retrieve_conjugate_values(from) == [i \in 1 .. slots_ |-> from[encoder.map[i - 1]]]

-----------------------------------------------------------------------------
(* The modulus of a level: the primes that are left.                       *)
SizeAt(level) == Len(setup.primes) + 1 - level
Levels == 1 .. Len(setup.primes)
Prime(j) == setup.primes[j]
Modulus(level) == LET r[i \in 0 .. SizeAt(level)] == IF i = 0 THEN 1 ELSE r[i - 1] * Prime(i) IN r[SizeAt(level)]
BitCount(x) == CHOOSE b \in 0 .. 31 : x < 2 ^ b /\ (b > 0 => x >= 2 ^ (b - 1))

(* The transforms modulo a prime, by what they compute (Ntt).              *)
Exponent(i) == 2 * reverse_bits_uint64(i, LogN) + 1
Powers(j) == [e \in 0 .. 2 * Degree - 1 |-> Pow(setup.roots[j], e, Prime(j))]
ntt_inplace_p(words) ==
  LET One(w, at, q) == [i \in Ix |-> LET e == Exponent(i)
                                     IN  TotalOf([k \in Ix |-> w[k] * at[(e * k) % (2 * Degree)]]) % q]
  IN  [j \in DOMAIN words |-> Once(<<words[j], Powers(j)>>, LAMBDA v : One(v[1], v[2], Prime(j)))]
intt_inplace_p(words) ==
  LET One(w, at, q) == LET scale == Pow(Degree, q - 2, q)
                           ex    == [i \in Ix |-> Exponent(i)]
                       IN  [k \in Ix |-> (scale * (TotalOf([i \in Ix |-> w[i] * at[(-(ex[i] * k)) % (2 * Degree)]]) % q)) % q]
  IN  [j \in DOMAIN words |-> Once(<<words[j], Powers(j)>>, LAMBDA v : One(v[1], v[2], Prime(j)))]

(* A double becomes a word.  One out of the word's range is undefined: the *)
(* high bit, the largest word or the wrapped number, by processor.         *)
Converted(a, bits, cast) ==
  LET w == 2 ^ bits
  IN  CASE a < w -> a
        [] a >= w /\ cast = "high" -> w \div 2
        [] a >= w /\ cast = "largest" -> w - 1
        [] OTHER -> a % w
(* The two fast ways cut the fraction off; the general one rounds.         *)
set_plaintext_value_array_64bits(v, d, cast) ==
  LET a == Absolute(v)
      u == Converted(Floor(a[1], a[2], d), WordBits, cast)
  IN  IF IsNegative(v) THEN -u ELSE u
set_plaintext_value_array_128bits(v, d, cast) ==
  LET a == Absolute(v)
      u == Converted(Floor(a[1], a[2], d), 2 * WordBits, cast)
  IN  IF IsNegative(v) THEN -u ELSE u
set_plaintext_value_array_general(v, d) ==
  LET a == Absolute(v)
      u == Floor(2 * a[1] + d, 2 * a[2], 2 * d)
  IN  IF IsNegative(v) THEN -u ELSE u
(* It is the largest coefficient, with its sign, that selects the way.     *)
max(values, d) ==
  LET up(v) == -Floor(-v[1], -v[2], d)
  IN  CHOOSE m \in {up(values[i]) : i \in DOMAIN values} : \A i \in DOMAIN values : up(values[i]) <= m
max_coeff_bit_count(values, d) ==
  LET m == max(values, d) IN CHOOSE b \in 0 .. 31 : m <= 2 ^ b /\ (b > 0 => m > 2 ^ (b - 1))
set_plaintext_value_array(values, d, level, cast) ==
  LET bits == max_coeff_bit_count(values, d)
      coeff(i) == CASE bits <= WordBits -> set_plaintext_value_array_64bits(values[i], d, cast)
                    [] WordBits < bits /\ bits <= 2 * WordBits -> set_plaintext_value_array_128bits(values[i], d, cast)
                    [] OTHER -> set_plaintext_value_array_general(values[i], d)
  IN  [j \in 1 .. SizeAt(level) |-> [i \in Ix |-> coeff(i) % Prime(j)]]
(* A coefficient that the selected way cannot hold, or the modulus cannot. *)
Lost(values, d, level) ==
  LET bits == max_coeff_bit_count(values, d)
      size == [i \in DOMAIN values |-> LET a == Absolute(values[i]) IN Floor(a[1], a[2], d)]
  IN  \E i \in DOMAIN values :
        \/ bits <= WordBits /\ size[i] >= 2 ^ WordBits
        \/ WordBits < bits /\ bits <= 2 * WordBits /\ size[i] >= 2 ^ (2 * WordBits)
        \/ 2 * (size[i] + 1) >= Modulus(level)
reduce_values(values, level) ==
  [j \in 1 .. SizeAt(level) |->
     [k \in Ix |-> IF k >= Len(values) THEN 0
                   ELSE IF values[k + 1] < 0 THEN Prime(j) - ((-values[k + 1]) % Prime(j))
                   ELSE values[k + 1] % Prime(j)]]

pool_compatible(pool) == encoder.dev => pool
ScaleFits(scale, level) == scale > 0 /\ 2 * scale < 2 ^ BitCount(Modulus(level))
Plain(words, level, scale) == [dev |-> encoder.dev, level |-> level, words |-> words, scale |-> scale]
Nothing == [dev |-> FALSE, level |-> 0, words |-> << >>, scale |-> 1]

encode_internal_complex_simd_slice(values, level, scale, cast) ==
  LET Reals(x) == [k \in Ix |-> <<scale * TwiceReal(x[k])[1], scale * TwiceReal(x[k])[2]>>]
  IN  Once(Once(fft_transform_from_rev(set_conjugate_values(values)), Reals), LAMBDA reals :
      [lost |-> Lost(reals, 2 * Degree, level),
       plain |-> Plain(ntt_inplace_p(set_plaintext_value_array(reals, 2 * Degree, level, cast)), level, scale)])
encode_internal_double_polynomial_slice(halves, level, scale, cast) ==
  LET reals == [k \in Ix |-> <<IF k < Len(halves) THEN scale * halves[k + 1] ELSE 0, 0>>]
  IN  [lost |-> Lost(reals, 2, level),
       plain |-> Plain(ntt_inplace_p(set_plaintext_value_array(reals, 2, level, cast)), level, scale)]
(* The same word in every place of the NTT form.                           *)
encode_internal_double_single(half, level, scale, cast) ==
  LET reals == [k \in Ix |-> <<scale * half, 0>>]
  IN  [lost |-> Lost(reals, 2, level),
       plain |-> Plain(set_plaintext_value_array(reals, 2, level, cast), level, scale)]
encode_internal_integer_polynomial_slice(values, level) ==
  [lost |-> \E k \in DOMAIN values : 2 * values[k] >= Modulus(level) \/ -2 * values[k] >= Modulus(level),
   plain |-> Plain(ntt_inplace_p(reduce_values(values, level)), level, 1)]
encode_internal_integer_single(x, level) ==
  encode_internal_integer_polynomial_slice([k \in 1 .. Degree |-> IF k = 1 THEN x ELSE 0], level)

(* RNSBase::compose_array, and the centred coefficients.                   *)
compose(words, level) ==
  LET one(k) ==
        LET x[i \in 1 .. Len(words)] ==
              IF i = 1 THEN words[1][k]
              ELSE LET prev == x[i - 1]
                       step == LET r[n \in 0 .. i - 1] == IF n = 0 THEN 1 ELSE r[n - 1] * Prime(n) IN r[i - 1]
                   IN  prev + step * (CHOOSE e \in 0 .. Prime(i) - 1 : (prev + step * e) % Prime(i) = words[i][k])
        IN  x[Len(words)]
  IN  [k \in Ix |-> one(k)]
upper_half_threshold(level) == (Modulus(level) + 1) \div 2
Mutantaccumulate_complex(x, level) == x   \* numbers above half the modulus stay positive
accumulate_complex(x, level) == [k \in Ix |-> IF x[k] >= upper_half_threshold(level) THEN x[k] - Modulus(level) ELSE x[k]]
Coefficients(p) == Once(Once(intt_inplace_p(p.words), LAMBDA w : compose(w, p.level)),
                        LAMBDA x : accumulate_complex(x, p.level))
(* Both decode to the numbers times the scale.                             *)
decode_internal_simd_slice(p) ==
  LET Complex(c) == [k \in Ix |-> [j \in Ix |-> IF j = 0 THEN c[k] ELSE 0]]
  IN  Once(Once(Coefficients(p), Complex), LAMBDA x : retrieve_conjugate_values(fft_transform_to_rev(x)))
decode_internal_polynomial_slice(p) == Coefficients(p)
decodable(p, pool) == pool_compatible(pool) /\ p.level \in Levels /\ encoder.dev = contextDev /\ p.dev = encoder.dev

-----------------------------------------------------------------------------
(* Evaluator operations on NTT forms at one level.                         *)
Dyadic(p, q) ==
  [p EXCEPT !.scale = p.scale * q.scale,
            !.words = [j \in DOMAIN p.words |-> [i \in Ix |-> (p.words[j][i] * q.words[j][i]) % Prime(j)]]]
Automorphism(p, g) ==
  LET src == [k \in Ix |-> CHOOSE j \in Ix : (j * g) % Degree = k]
      Moved(a) == [j \in DOMAIN a |-> [k \in Ix |->
                     IF (src[k] * g) % (2 * Degree) < Degree THEN a[j][src[k]] ELSE (-a[j][src[k]]) % Prime(j)]]
  IN  [p EXCEPT !.words = Once(Once(intt_inplace_p(p.words), Moved), ntt_inplace_p)]

(* What a plaintext is to carry: its slots times scale times den, by how   *)
(* much they may be off, and a bound on their size.                        *)
Size(x) == TotalOf([k \in Ix |-> IF x[k] < 0 THEN -x[k] ELSE x[k]])
Bound(slots, den) == LET s == {Size(slots[i]) : i \in DOMAIN slots}
                     IN  ((CHOOSE m \in s : \A n \in s : n <= m) + den - 1) \div den
Meant(slots, den, slack, lost) == [slots |-> slots, den |-> den, slack |-> slack, lost |-> lost, size |-> Bound(slots, den)]
Unknown == [slots |-> << >>, den |-> 1, slack |-> 0, lost |-> FALSE, size |-> 0]
Zero == [k \in Ix |-> 0]
Times(x, c) == [k \in Ix |-> x[k] * c]
(* Slot i of a polynomial is its value at the 3^i-th power of the root.    *)
EvaluatedAt(f, i) ==
  LET r[k \in 0 .. Len(f)] == IF k = 0 THEN Zero
                              ELSE Once(r[k - 1], LAMBDA sum : add(sum, Times(RootPower(Pow(3, i, 2 * Degree) * (k - 1)), f[k])))
  IN  r[Len(f)]
Close(got, m) ==
  \A i \in 1 .. slots_ :
     LET d == sub(Times(got[i], m.den), m.slots[i])
         off(v) == LET a == Absolute(v) IN Floor(a[1], a[2], 1) <= 2 * m.den * m.slack
     IN  off(TwiceReal(d)) /\ off(TwiceImag(d))

Ready == encoder # << >>
Init ==
  /\ setup \in Setups /\ contextDev = FALSE /\ encoder = << >>
  /\ plains = [i \in 1 .. 2 |-> Nothing] /\ meant = [i \in 1 .. 2 |-> Unknown]
  /\ applied = 0 /\ read = << >> /\ refused = FALSE

ContextToDevice ==
  /\ ~contextDev /\ plains[1] = Nothing
  /\ contextDev' = TRUE
  /\ UNCHANGED <<setup, encoder, plains, meant, applied, read, refused>>

Construct ==
  /\ encoder = << >> /\ ~refused
  /\ refused' = (contextDev \/ setup.scheme # "CKKS" \/ Degree < 2)
  /\ encoder' = IF refused' THEN << >>
                ELSE [dev |-> FALSE, map |-> matrix_reps_index_map, pow |-> root_powers_, inv |-> inv_root_powers_]
  /\ UNCHANGED <<setup, contextDev, plains, meant, applied, read>>

ToDevice ==
  /\ Ready /\ ~encoder.dev /\ plains[1] = Nothing
  /\ encoder' = [encoder EXCEPT !.dev = TRUE]
  /\ UNCHANGED <<setup, contextDev, plains, meant, applied, read, refused>>

(* An encode call into place i: refused, or done.                          *)
Written(i, fails, made, slots, den, slack) ==
  /\ refused' = fails
  /\ plains' = IF fails THEN plains ELSE [plains EXCEPT ![i] = made.plain]
  /\ meant' = IF fails THEN meant ELSE [meant EXCEPT ![i] = Meant(slots, den, slack, made.lost)]
  /\ UNCHANGED <<setup, contextDev, encoder, applied, read>>
CanEncode(i) == Ready /\ ~refused /\ applied = 0 /\ read = << >> /\ plains[i] = Nothing /\ (i = 2 => plains[1] # Nothing)
Off(level) == level \notin Levels \/ encoder.dev # contextDev

EncodeComplex(i, v, level, scale, cast, pool) ==
  /\ CanEncode(i)
  /\ LET fails == \/ ~pool_compatible(pool) \/ Off(level) \/ Len(v) > slots_ \/ ~ScaleFits(scale, level)
     IN  Written(i, fails, encode_internal_complex_simd_slice(v, level, scale, cast),
                 [n \in 1 .. slots_ |-> IF n <= Len(v) THEN Times(v[n], scale) ELSE Zero], 1, Degree)
EncodeDoublePolynomial(i, v, level, scale, cast, pool) ==
  /\ CanEncode(i)
  /\ LET fails == \/ ~pool_compatible(pool) \/ Off(level) \/ Len(v) > Degree \/ ~ScaleFits(scale, level)
     IN  Written(i, fails, encode_internal_double_polynomial_slice(v, level, scale, cast),
                 [n \in 1 .. slots_ |-> Times(EvaluatedAt(v, n - 1), scale)], 2, Degree)
(* The forms for one number do not look at the pool.                       *)
EncodeDoubleSingle(i, x, level, scale, cast) ==
  /\ CanEncode(i)
  /\ Written(i, Off(level) \/ ~ScaleFits(scale, level), encode_internal_double_single(x, level, scale, cast),
             [n \in 1 .. slots_ |-> Times(Unit(0), x * scale)], 2, 1)
(* The length of an integer polynomial is not compared with the degree.    *)
EncodeIntegerPolynomial(i, v, level, pool) ==
  /\ CanEncode(i) /\ Len(v) <= Degree
  /\ Written(i, ~pool_compatible(pool) \/ Off(level), encode_internal_integer_polynomial_slice(v, level),
             [n \in 1 .. slots_ |-> EvaluatedAt(v, n - 1)], 1, 0)
EncodeIntegerSingle(i, x, level) ==
  /\ CanEncode(i)
  /\ Written(i, Off(level), encode_internal_integer_single(x, level), [n \in 1 .. slots_ |-> Times(Unit(0), x)], 1, 0)

Operable == applied < MaxApplied /\ ~refused /\ read = << >> /\ meant[1].slots # << >>
Multiply ==
  /\ Operable /\ meant[2].slots # << >> /\ plains[1].level = plains[2].level /\ ~meant[1].lost /\ ~meant[2].lost
  /\ LET a == meant[1]
         b == meant[2]
         product == [n \in 1 .. slots_ |-> mul(a.slots[n], b.slots[n])]
         size  == a.size * b.size
         slack == a.size * b.slack + b.size * a.slack + a.slack * b.slack
     IN  /\ plains' = [plains EXCEPT ![1] = Dyadic(plains[1], plains[2])]
         /\ meant' = [meant EXCEPT ![1] = [slots |-> product, den |-> a.den * b.den, slack |-> slack,
                        lost |-> a.lost \/ b.lost \/ 2 * (size + slack) >= Modulus(plains[1].level), size |-> size]]
  /\ applied' = applied + 1
  /\ UNCHANGED <<setup, contextDev, encoder, read, refused>>
(* Rotation of the slots to the left by k, or their conjugates.            *)
Rotate ==
  /\ Operable
  /\ \E k \in 0 .. slots_ :
       /\ plains' = [plains EXCEPT ![1] = Automorphism(@, IF k = slots_ THEN 2 * Degree - 1 ELSE Pow(3, k, 2 * Degree))]
       /\ meant' = [meant EXCEPT ![1].slots = [n \in 1 .. slots_ |->
                      IF k = slots_ THEN conj(@[n]) ELSE @[((n - 1 + k) % slots_) + 1]]]
  /\ applied' = applied + 1
  /\ UNCHANGED <<setup, contextDev, encoder, read, refused>>

Decode(pool) ==
  /\ Ready /\ ~refused /\ read = << >> /\ meant[1].slots # << >>
  /\ refused' = ~decodable(plains[1], pool)
  /\ read' = IF refused' THEN << >> ELSE decode_internal_simd_slice(plains[1])
  /\ UNCHANGED <<setup, contextDev, encoder, plains, meant, applied>>
(* The polynomial's values at the root's powers are to be the slots.       *)
DecodePolynomial(pool) ==
  /\ Ready /\ ~refused /\ read = << >> /\ meant[1].slots # << >>
  /\ refused' = ~decodable(plains[1], pool)
  /\ read' = IF refused' THEN << >>
             ELSE LET c == decode_internal_polynomial_slice(plains[1])
                  IN  Once([k \in 1 .. Degree |-> c[k - 1]], LAMBDA f : [n \in 1 .. slots_ |-> EvaluatedAt(f, n - 1)])
  /\ UNCHANGED <<setup, contextDev, encoder, plains, meant, applied>>

Casts == {"high", "largest", "wrapped"}
Next ==
  \/ ContextToDevice \/ Construct \/ ToDevice \/ Multiply \/ Rotate
  \/ \E pool \in BOOLEAN : Decode(pool) \/ DecodePolynomial(pool)
  \/ \E pool \in BOOLEAN, level \in UsedLevels, cast \in Casts :
       \/ \E scale \in Scales :
            \/ \E v \in Vectors[setup.logn] : EncodeComplex(1, v, level, scale, cast, pool)
            \/ \E v \in Halves : EncodeDoublePolynomial(1, v, level, scale, cast, pool)
            \/ \E v \in Halves : EncodeDoubleSingle(1, v[1], level, scale, cast)
       \/ \E v \in Integrals : EncodeIntegerPolynomial(1, v, level, pool) \/ EncodeIntegerSingle(1, v[1], level)
  \/ \E v \in Vectors[setup.logn] : EncodeComplex(2, v, plains[1].level, FactorScale, "high", TRUE)
  \/ \E v \in Integrals : EncodeIntegerPolynomial(2, v, plains[1].level, TRUE)
Spec == Init /\ [][Next]_vars

(* ckks_encoder.cu:673 -- what is decoded is what the plaintext was made   *)
(* to carry, up to what the cut-off fractions explain, after products,     *)
(* rotations and conjugation; unless a coefficient did not fit the way its *)
(* conversion was selected for (only positive ones select it), or the      *)
(* modulus.                                                                *)
NumbersReturn == read # << >> /\ ~meant[1].lost => Close(read, meant[1])
=============================================================================

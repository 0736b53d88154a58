------------------------------- MODULE SmallMod -------------------------------
(***************************************************************************)
(* Arithmetic modulo one word (modulus.h, modulus.cu, uint_small_mod).   *)
(* A modulus is its value with the Barrett ratio floor(B^2 / value); it    *)
(* keeps three bits of a word free, as the 61 bits of 64 do.  No operation *)
(* divides: each one multiplies by the ratio, in words that wrap around,   *)
(* and corrects its guess by one subtraction.                              *)
(***************************************************************************)
EXTENDS WideInt, SequencesExt

HE_MOD_BIT_COUNT_MAX == WordBits - 3
ModulusValues == 2 .. 2 ^ HE_MOD_BIT_COUNT_MAX - 1

(* Modulus::set_value: B^2 divided by the value, of which the ratio keeps  *)
(* two words of quotient and one of remainder.                             *)
Modulus(v) ==
  [value       |-> v,
   const_ratio |-> <<(B ^ 2 \div v) % B, (B ^ 2 \div v) \div B, B ^ 2 % v>>]

CorrectOnce(x, m) == IF x >= m.value THEN x - m.value ELSE x

reduce(x, m) ==
  CorrectOnce((x - multiply_uint64_high_word(x, m.const_ratio[2]) * m.value) % B, m)

Mutantreduce_uint128_limbs(s, m) ==   \* the carry of the second round is lost
  LET r     == m.const_ratio
      low   == multiply_uint64_uint64(s[1], r[2])
      one   == add_uint64(low[1], multiply_uint64_high_word(s[1], r[1]))
      tmp3  == low[2] + one.carry
      cross == multiply_uint64_uint64(s[2], r[1])
      guess == (s[2] * r[2] + tmp3 + cross[2]) % B
  IN  CorrectOnce((s[1] - guess * m.value) % B, m)
reduce_uint128_limbs(s, m) ==
  LET r     == m.const_ratio
      low   == multiply_uint64_uint64(s[1], r[2])
      one   == add_uint64(low[1], multiply_uint64_high_word(s[1], r[1]))
      tmp3  == low[2] + one.carry
      cross == multiply_uint64_uint64(s[2], r[1])
      two   == add_uint64(one.result, cross[1])
      guess == (s[2] * r[2] + tmp3 + cross[2] + two.carry) % B
  IN  CorrectOnce((s[1] - guess * m.value) % B, m)

reduce_mul_uint64(x, y, m) == reduce_uint128_limbs(multiply_uint64_uint64(x, y), m)

-----------------------------------------------------------------------------
(* Operations on reduced operands. *)

increment_uint64_mod(x, m) == CorrectOnce(x + 1, m)
decrement_uint64_mod(x, m) == IF x = 0 THEN m.value - 1 ELSE x - 1
negate_uint64_mod(x, m)    == IF x = 0 THEN 0 ELSE m.value - x
add_uint64_mod(x, y, m)    == CorrectOnce((x + y) % B, m)
sub_uint64_mod(x, y, m)    == LET d == sub_uint64(x, y)
                              IN  IF d.carry > 0 THEN (d.result + m.value) % B
                                  ELSE d.result
multiply_uint64_mod(x, y, m) == reduce_mul_uint64(x, y, m)

divide2_uint64_mod(x, m) ==
  LET sum == add_uint64(x, m.value)
  IN  IF x % 2 = 0 THEN x \div 2
      ELSE (sum.result \div 2) + (IF sum.carry > 0 THEN B \div 2 ELSE 0)

(* An operand with its quotient floor(operand * B / modulus): a product    *)
(* then costs one high word and one subtraction, or none when it may stay  *)
(* below twice the modulus.                                                *)
MultiplyUint64Operand(x, m) ==
  [operand |-> x, quotient |-> divide_uint128_uint64(<<0, x>>, m.value).quotient[1]]

multiply_uint64operand_mod_lazy(x, y, m) ==
  (y.operand * x - multiply_uint64_high_word(x, y.quotient) * m.value) % B

multiply_uint64operand_mod(x, y, m) ==
  CorrectOnce(multiply_uint64operand_mod_lazy(x, y, m), m)

multiply_add_uint64_mod(x, y, z, m) ==
  LET p == multiply_uint64_uint64(x, y)
      a == add_uint64(p[1], z)
  IN  reduce_uint128_limbs(<<a.result, (p[2] + a.carry) % B>>, m)

multiply_uint64operand_add_uint64_mod(x, y, z, m) ==
  add_uint64_mod(multiply_uint64operand_mod(x, y, m), reduce(z, m), m)

-----------------------------------------------------------------------------
(* Loops over words and bits. *)

(* The words from the top down, the residue carried as the high word. *)
modulo_uint(s, m) ==
  LET n == Len(s)
      r[i \in 1 .. n] ==
        IF i = n THEN s[n]
        ELSE LET high == r[i + 1] IN reduce_uint128_limbs(<<s[i], high>>, m)
  IN  IF n > 1 THEN r[1] ELSE IF s[1] < m.value THEN s[1] ELSE reduce(s[1], m)

(* Square and multiply, the low bit first.  An exponent of 1 returns the  *)
(* operand as it is.                                                       *)
exponentiate_uint64_mod(x, e, m) ==
  LET r[i \in 0 .. get_significant_bit_count(e)] ==
        IF i = 0 THEN [power |-> x, intermediate |-> 1]
        ELSE LET prev == r[i - 1]
             IN  [power        |-> multiply_uint64_mod(prev.power, prev.power, m),
                  intermediate |->
                    IF (e \div 2 ^ (i - 1)) % 2 = 1
                    THEN multiply_uint64_mod(prev.power, prev.intermediate, m)
                    ELSE prev.intermediate]
  IN  CASE e = 0 -> 1
        [] e = 1 -> x
        [] OTHER -> r[get_significant_bit_count(e)].intermediate

(* The sum of the products in two words, reduced once at the end. *)
dot_product_mod(s, t, m) ==
  LET sum[i \in 0 .. Len(s)] ==
        IF i = 0 THEN 0 ELSE (sum[i - 1] + s[i] * t[i]) % B ^ 2
  IN  reduce_uint128_limbs(<<sum[Len(s)] % B, sum[Len(s)] \div B>>, m)

(* Numerators of one word reduce it before they divide it. *)
divide_uint_mod_1(x, m) ==
  LET r == reduce(x, m) IN [remainder |-> r, quotient |-> r \div m.value]

(* Three words: x1 * B^2 + x2, where B^2 is known by its quotient and      *)
(* remainder from the ratio.  What is left has up to three words again,    *)
(* the third then 1.                                                       *)
divide_uint_mod_3(s, m) ==
  LET Folded(x, Rest(_)) ==
        LET x1   == SubSeq(x, 3, 3)
            quot == multiply_uint(x1, SubSeq(m.const_ratio, 1, 2), 3)
            rem  == add_uint(multiply_uint_uint64(x1, m.const_ratio[3], 3),
                             SubSeq(x, 1, 2), 3).result
            n    == get_significant_uint64_count_uint(rem)
            one  == divide_uint_mod_1(rem[1], m)
            low  == CASE n = 0 -> [quotient |-> << >>, remainder |-> 0]
                      [] n = 1 -> [quotient |-> <<one.quotient>>, remainder |-> one.remainder]
                      [] n = 2 -> divide_uint128_uint64(SubSeq(rem, 1, 2), m.value)
                      [] n = 3 -> Rest(rem)
        IN  [remainder |-> low.remainder,
             quotient  |-> add_uint(low.quotient, quot, 3).result]
  IN  Folded(s, LAMBDA r : Folded(r, LAMBDA x : << >>))

-----------------------------------------------------------------------------
(* Euclid's algorithm, the inverse it gives, and the non-adjacent form     *)
(* (number_theory).                                                        *)

(* Euclid.  The loop keeps two rows <<remainder, x, y>>. *)

XgcdStep(u, w) ==
  LET q == u[1] \div w[1]
  IN  <<u[1] % w[1], u[2] - q * w[2], u[3] - q * w[3]>>

xgcd(x, y) ==
  LET row[i \in Nat] ==
        IF i = 0 THEN <<<<x, 1, 0>>, <<y, 0, 1>>>>
        ELSE LET prev == row[i - 1]
             IN  IF prev[2][1] = 0 THEN prev
                 ELSE <<prev[2], XgcdStep(prev[1], prev[2])>>
  IN  row[2 * WordBits + 2][1]   \* more turns than any two words need

gcd(x, y) == xgcd(x, y)[1]

NoInverse == -1
try_invert_uint64_mod(x, v) ==
  LET r == xgcd(x, v)
  IN  IF x = 0 \/ r[1] # 1 THEN NoInverse
      ELSE IF r[2] < 0 THEN v + r[2] ELSE r[2]

(* The non-adjacent form: the signed powers of two of the value. *)
naf(value) ==
  LET sign == IF value < 0 THEN -1 ELSE 1
      size == IF value < 0 THEN -value ELSE value
      r[i \in Nat] ==   \* after i turns of the loop
        IF i = 0 THEN [value |-> size, res |-> << >>]
        ELSE LET prev == r[i - 1]
                 zi   == IF prev.value % 2 = 1 THEN 2 - (prev.value % 4) ELSE 0
             IN  [value |-> (prev.value - zi) \div 2,
                  res   |-> IF zi = 0 THEN prev.res
                            ELSE Append(prev.res, sign * zi * 2 ^ (i - 1))]
  IN  r[size + 1].res
=============================================================================

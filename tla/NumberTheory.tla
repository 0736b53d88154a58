----------------------------- MODULE NumberTheory -----------------------------
(***************************************************************************)
(* Number theory of the encryption library (number_theory, is_prime of     *)
(* uint_small_mod.h) and the choice of moduli (coeff_modulus,              *)
(* he_standard_params).  Random draws are choices: is_prime may return any *)
(* verdict some sequence of bases leads to.                                *)
(***************************************************************************)
EXTENDS SmallMod, TLC

CONSTANTS
  Inversions,   \* moduli that every smaller value is inverted for
  NafMax,       \* naf is called with -NafMax .. NafMax
  Candidates,   \* values is_prime is called with
  RootModuli,   \* primes that roots of unity are looked for in
  Degrees,      \* degrees of roots of unity, and of the polynomials of create
  BitSizes,     \* lists of bit sizes that create is called with
  TRY_PRIMITIVE_ROOT_NUM_ROUNDS,
  HE_USER_MOD_BIT_COUNT_MAX, HE_USER_MOD_BIT_COUNT_MIN

-----------------------------------------------------------------------------
(* is_prime: trial division by the primes to 13, then Miller-Rabin with    *)
(* base 2 and random bases.                                                *)

SmallPrimes == {2, 3, 5, 7, 11, 13}
OddPart(x) == Max({d \in 1 .. x : d % 2 = 1 /\ \E r \in 0 .. WordBits : d * 2 ^ r = x})

WitnessPasses(v, base) ==
  LET d == OddPart(v - 1)
      r == CHOOSE n \in 1 .. WordBits : d * 2 ^ n = v - 1
      x[i \in 0 .. r] ==
        IF i = 0 THEN exponentiate_uint64_mod(base, d, Modulus(v))
        ELSE LET prev == x[i - 1] IN multiply_uint64_mod(prev, prev, Modulus(v))
  IN  x[0] = 1 \/ \E i \in 0 .. Max({1, r - 1}) : x[i] = v - 1

is_prime_outcomes(v) ==
  IF v < 2 THEN {FALSE}
  ELSE IF v \in SmallPrimes THEN {TRUE}
  ELSE IF \E p \in SmallPrimes : v % p = 0 THEN {FALSE}
  ELSE IF ~ WitnessPasses(v, 2) THEN {FALSE}
  ELSE {TRUE} \cup {FALSE : base \in {b \in 3 .. v - 1 : ~ WitnessPasses(v, b)}}

Throw == << >>

(* get_primes: down from the largest value of that size congruent to 1,    *)
(* with the verdict of base 2 (the moduli of the runs have no strong       *)
(* pseudoprime to base 2 below them).                                      *)
get_primes(factor, bit_size, count) ==
  LET top == ((2 ^ bit_size - 1) \div factor) * factor + 1
      ok(v) == v > 2 ^ (bit_size - 1) /\ is_prime_outcomes(v) = {TRUE}
      all == SelectSeq([i \in 1 .. top \div factor + 1 |-> top - (i - 1) * factor], ok)
  IN  IF Len(all) < count THEN Throw ELSE SubSeq(all, 1, count)

(* create: the primes of each size are searched once, as many as that size *)
(* occurs, and handed out from the back.                                   *)
Mutantcreate(degree, bits) ==   \* every size is searched on its own
  [i \in 1 .. Len(bits) |-> get_primes(2 * degree, bits[i], 1)[1]]
create(degree, bits) ==
  LET count(b)  == Cardinality({i \in 1 .. Len(bits) : bits[i] = b})
      table     == [b \in ToSet(bits) |-> get_primes(2 * degree, b, count(b))]
      before(i) == Cardinality({j \in 1 .. i - 1 : bits[j] = bits[i]})
  IN  IF Max(ToSet(bits)) \notin HE_USER_MOD_BIT_COUNT_MIN .. HE_USER_MOD_BIT_COUNT_MAX
         \/ \E b \in ToSet(bits) : table[b] = Throw
      THEN Throw
      ELSE [i \in 1 .. Len(bits) |-> table[bits[i]][count(bits[i]) - before(i)]]

-----------------------------------------------------------------------------
(* The standard's bounds on the bits of the coefficient modulus, and the   *)
(* default moduli, each by its bit count and its last 16 bits.             *)

StandardDegrees == {1024, 2048, 4096, 8192, 16384, 32768}
Table(s) == [n \in StandardDegrees |-> s[CHOOSE i \in 1 .. 6 : 2 ^ (i + 9) = n]]
params_classical_128 == Table(<<27, 54, 109, 218, 438, 881>>)
params_classical_192 == Table(<<19, 37, 75, 152, 305, 611>>)
params_classical_256 == Table(<<14, 29, 58, 118, 237, 476>>)
max_bit_count(degree, level) ==
  CASE level = 128 -> params_classical_128[degree]
    [] level = 192 -> params_classical_192[degree]
    [] level = 256 -> params_classical_256[degree]

bfv_default_128 == Table(<<
    <<<<27, 1>>>>,
    <<<<54, 1>>>>,
    <<<<36, 57345>>, <<36, 16385>>, <<37, 1>>>>,
    <<<<43, 32769>>, <<43, 32769>>, <<44, 49153>>, <<44, 49153>>,
       <<44, 49153>>>>,
    <<<<48, 32769>>, <<48, 1>>, <<48, 1>>, <<49, 32769>>,
       <<49, 1>>, <<49, 32769>>, <<49, 1>>, <<49, 32769>>,
       <<49, 32769>>>>,
    <<<<55, 1>>, <<55, 1>>, <<55, 1>>, <<55, 1>>, <<55, 1>>,
       <<55, 1>>, <<55, 1>>, <<55, 1>>, <<55, 1>>, <<55, 1>>,
       <<55, 1>>, <<55, 1>>, <<55, 1>>, <<55, 1>>, <<55, 1>>,
       <<56, 1>>>>>>)
bfv_default_192 == Table(<<
    <<<<19, 61441>>>>,
    <<<<37, 1>>>>,
    <<<<25, 49153>>, <<25, 57345>>, <<25, 1>>>>,
    <<<<38, 49153>>, <<38, 16385>>, <<38, 32769>>, <<38, 32769>>>>,
    <<<<50, 1>>, <<50, 32769>>, <<50, 1>>, <<50, 32769>>,
       <<50, 1>>, <<50, 1>>>>,
    <<<<54, 1>>, <<54, 1>>, <<54, 1>>, <<54, 1>>, <<54, 1>>,
       <<55, 1>>, <<55, 1>>, <<55, 1>>, <<55, 1>>, <<55, 1>>,
       <<55, 1>>>>>>)
bfv_default_256 == Table(<<
    <<<<14, 12289>>>>,
    <<<<29, 1>>>>,
    <<<<58, 1>>>>,
    <<<<39, 49153>>, <<39, 1>>, <<40, 49153>>>>,
    <<<<47, 32769>>, <<47, 1>>, <<47, 1>>, <<48, 32769>>,
       <<48, 1>>>>,
    <<<<52, 1>>, <<53, 1>>, <<53, 1>>, <<53, 1>>, <<53, 1>>,
       <<53, 1>>, <<53, 1>>, <<53, 1>>, <<53, 1>>>>>>)
bfv_default_vector(degree, level) ==
  CASE level = 128 -> bfv_default_128[degree]
    [] level = 192 -> bfv_default_192[degree]
    [] level = 256 -> bfv_default_256[degree]

-----------------------------------------------------------------------------
(* Primitive roots of unity of a degree that is a power of two. *)

is_primitive_root(root, degree, m) ==
  root # 0 /\ exponentiate_uint64_mod(root, degree \div 2, m) = m.value - 1

VARIABLES call, ret,
          attempts, root   \* the loop of try_primitive_root
vars == <<call, ret, attempts, root>>

None == << >>

Calls ==
  [op : {"naf"}, value : -NafMax .. NafMax]
  \cup UNION {[op : {"invert"}, v : {v}, x : 0 .. v - 1] : v \in Inversions}
  \cup [op : {"is_prime"}, v : Candidates]
  \cup [op : {"create"}, degree : Degrees, bits : BitSizes]
  \cup [op : {"default"}, degree : StandardDegrees, level : {128, 192, 256}]
  \cup [op : {"root"}, degree : Degrees, v : RootModuli]

Init == call \in Calls /\ ret = None /\ attempts = 0 /\ root = 0

Return(op, value) ==
  /\ ret = None /\ call.op = op
  /\ ret' = <<value>>
  /\ UNCHANGED <<call, attempts, root>>

Invert  == Return("invert", try_invert_uint64_mod(call.x, call.v))
Naf     == Return("naf", naf(call.value))
IsPrime == call.op = "is_prime"
           /\ \E verdict \in is_prime_outcomes(call.v) : Return("is_prime", verdict)
Default == Return("default", bfv_default_vector(call.degree, call.level))
Create  == Return("create", create(call.degree, call.bits))

(* try_primitive_root: random elements of the quotient group. *)
GroupFits == (call.v - 1) % call.degree = 0
TryRoot ==
  /\ call.op = "root" /\ ret = None /\ GroupFits
  /\ attempts = 0 \/ /\ ~ is_primitive_root(root, call.degree, Modulus(call.v))
                     /\ attempts < TRY_PRIMITIVE_ROOT_NUM_ROUNDS
  /\ attempts' = attempts + 1
  /\ \E draw \in 0 .. call.v - 1 :
       root' = exponentiate_uint64_mod(draw, (call.v - 1) \div call.degree, Modulus(call.v))
  /\ UNCHANGED <<call, ret>>

(* try_minimal_primitive_root: the least of the odd powers of that root.   *)
MinimalRoot ==
  LET m  == Modulus(call.v)
      sq == multiply_uint64_mod(root, root, m)
      generator[i \in 0 .. (call.degree + 1) \div 2] ==
        IF i = 0 THEN root ELSE multiply_uint64_mod(generator[i - 1], sq, m)
  IN  /\ call.op = "root" /\ ret = None
      /\ attempts > 0 /\ is_primitive_root(root, call.degree, m)
      /\ ret' = <<Min({generator[i] : i \in 0 .. (call.degree + 1) \div 2 - 1})>>
      /\ UNCHANGED <<call, attempts, root>>

NoRoot ==
  /\ \/ ~ GroupFits
     \/ /\ attempts = TRY_PRIMITIVE_ROOT_NUM_ROUNDS
        /\ ~ is_primitive_root(root, call.degree, Modulus(call.v))
  /\ Return("root", 0)

Next == Invert \/ Naf \/ IsPrime \/ Default \/ Create
        \/ (call.op = "root" /\ (TryRoot \/ MinimalRoot \/ NoRoot))

Spec == Init /\ [][Next]_vars

-----------------------------------------------------------------------------
Returned(op) == ret # None /\ call.op = op
Prime(v)     == v > 1 /\ \A d \in 2 .. v - 1 : d * d > v \/ v % d # 0

(* An inverse is returned exactly for the units, is reduced, and is one.   *)
InverseExact ==
  Returned("invert") =>
    LET units == {y \in 0 .. call.v - 1 : (call.x * y) % call.v = 1 % call.v}
    IN  IF units = {} THEN ret[1] = NoInverse ELSE ret[1] \in units

(* naf represents the value with signed powers of two of which no two      *)
(* neighbouring ones occur: the rotations key generation makes keys for    *)
(* suffice, and no rotation needs more than half of them.                  *)
NafRepresents ==
  Returned("naf") =>
    LET size(x) == IF x < 0 THEN -x ELSE x
    IN  /\ FoldLeft(+, 0, ret[1]) = call.value
        /\ \A i \in 1 .. Len(ret[1]) - 1 : size(ret[1][i + 1]) >= 4 * size(ret[1][i])

(* Whatever bases are drawn, is_prime never rejects a prime, and accepts a *)
(* composite only if it is a strong pseudoprime to base 2 (the least one   *)
(* is 2047).                                                               *)
PrimesAccepted ==
  Returned("is_prime") =>
    /\ ret = <<FALSE>> => ~ Prime(call.v)
    /\ ret = <<TRUE>>  => Prime(call.v) \/ call.v >= 2047

(* CoeffModulus::create returns pairwise different primes, each of the bit *)
(* size asked for at its place and congruent to 1 modulo twice the degree, *)
(* and throws only if there are not as many.                               *)
ModuliQualify ==
  Returned("create") =>
    LET qualify(b) == {v \in 2 ^ (b - 1) .. 2 ^ b - 1 :
                         v % (2 * call.degree) = 1 /\ Prime(v)}
        bits == call.bits
        need(b) == Cardinality({i \in 1 .. Len(bits) : bits[i] = b})
    IN  IF ret[1] = Throw
        THEN \E b \in ToSet(bits) : \/ Cardinality(qualify(b)) < need(b)
                                    \/ b > HE_USER_MOD_BIT_COUNT_MAX
        ELSE /\ \A i \in 1 .. Len(bits) : ret[1][i] \in qualify(bits[i])
             /\ IsInjective(ret[1])

(* The default moduli of every level stay within the standard's bound for  *)
(* their degree, and each admits the roots of unity of the NTT.            *)
DefaultsFit ==
  Returned("default") =>
    /\ FoldLeft(LAMBDA sum, q : sum + q[1], 0, ret[1])
         <= max_bit_count(call.degree, call.level)
    /\ \A i \in DOMAIN ret[1] : ret[1][i][2] % (2 * call.degree) = 1

(* The root of unity the NTT tables are built from does not depend on the  *)
(* random draws: it is the least primitive one.                            *)
RootIsLeast ==
  Returned("root") /\ ret # <<0>> =>
    LET power(x) == LET p[e \in 0 .. call.degree \div 2] ==
                          IF e = 0 THEN 1 ELSE (x * p[e - 1]) % call.v
                    IN  p[call.degree \div 2]
    IN  ret = <<Min({x \in 1 .. call.v - 1 : power(x) = call.v - 1})>>

=============================================================================

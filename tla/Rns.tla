---------------------------------- MODULE Rns ----------------------------------
(***************************************************************************)
(* Residue number systems: RNSBase and BaseConverter (rns_base) and the    *)
(* constants and conversions of RNSTool (rns_tool) that carry ciphertexts  *)
(* between the coefficient modulus q, the auxiliary bases of a BFV product *)
(* and the plain modulus t.  A coefficient is the sequence of its residues;*)
(* arrays are flat, as in the code, where their layout matters.  Reductions *)
(* and inverses are exact (modules SmallMod and NumberTheory); sums the    *)
(* code leaves unreduced are kept as words.                                *)
(***************************************************************************)
EXTENDS Integers, Sequences, FiniteSetsExt, Functions

CONSTANTS
  WordBits,         \* bits of a machine word (64)
  ReservedBits,     \* bits kept for the growth of a product (32)
  InternalBits,     \* bits of an internal prime (61)
  InternalPrimes,   \* what get_primes returns: m_sk, gamma, then base B
  MTilde,           \* the auxiliary modulus m_tilde (2^32)
  FloatSlack        \* how close to a half, in units of 1/Q, doubles may err

Word(x)    == x % 2 ^ WordBits
Product(s) == FoldFunction(LAMBDA a, b : a * b, 1, s)
Coprime(a, b)   == \A d \in 2 .. a : ~(a % d = 0 /\ b % d = 0)
InverseMod(a, m) == IF m = 1 THEN 0 ELSE CHOOSE x \in 1 .. m - 1 : (a * x) % m = 1
BitCount(x)     == CHOOSE n \in 0 .. 30 : (n = 0 \/ 2 ^ (n - 1) <= x) /\ x < 2 ^ n

\* add_uint64_mod and sub_uint64_mod correct once: they need not reduce
AddMod(x, y, m) == LET s == Word(x + y) IN IF s >= m THEN s - m ELSE s
SubMod(x, y, m) == IF x >= y THEN x - y ELSE Word(x - y + m)

-----------------------------------------------------------------------------
Invalid == << >>

\* RNSBase::RNSBase and initialize: what is thrown comes back as Invalid
RNSBase(s) ==
  IF s = << >> \/ \E i \in DOMAIN s : s[i] = 0 \/
       \E j \in DOMAIN s : i < j /\ ~Coprime(s[i], s[j])
  THEN Invalid
  ELSE LET punctured == [i \in DOMAIN s |->
                           Product([j \in DOMAIN s |-> IF j = i THEN 1 ELSE s[j]])]
       IN  [base      |-> s,
            prod      |-> Product(s),
            punctured |-> punctured,
            inv       |-> [i \in DOMAIN s |->
                             IF Len(s) = 1 THEN 1 ELSE InverseMod(punctured[i] % s[i], s[i])]]

extend_modulus(b, m)   == RNSBase(Append(b.base, m))

\* decompose_single: a number is reduced modulo each modulus, unless there is
\* only one
decompose_single(b, x) ==
  IF Len(b.base) = 1 THEN <<x>> ELSE [i \in DOMAIN b.base |-> x % b.base[i]]

compose_single(b, r) ==
  IF Len(b.base) = 1 THEN r[1]
  ELSE MapThenSumSet(LAMBDA i : ((r[i] * b.inv[i]) % b.base[i]) * b.punctured[i],
                     DOMAIN b.base) % b.prod

\* decompose_array: number i of count goes to places i, count + i, ...
decompose_array(b, values) ==
  LET n == Len(b.base)  count == Len(values)
  IN  IF n = 1 THEN values
      ELSE [k \in 1 .. n * count |->
              values[((k - 1) % count) + 1] % b.base[((k - 1) \div count) + 1]]

\* compose_array: rnsbase_compose_rearrange_array, then one number at a time
compose_array(b, flat) ==
  LET n == Len(b.base)  count == Len(flat) \div n
  IN  [i \in 1 .. count |->
         compose_single(b, [j \in 1 .. n |-> flat[(j - 1) * count + i]])]

BaseConverter(ib, ob) ==
  [ibase |-> ib, obase |-> ob,
   matrix |-> [i \in DOMAIN ob.base |-> [j \in DOMAIN ib.base |->
                 ib.punctured[j] % ob.base[i]]]]

Scaled(b, r) == [i \in DOMAIN b.base |-> (r[i] * b.inv[i]) % b.base[i]]

fast_convert_array(conv, r) ==
  LET temp == Scaled(conv.ibase, r)
  IN  [i \in DOMAIN conv.obase.base |->
         MapThenSumSet(LAMBDA j : temp[j] * conv.matrix[i][j], DOMAIN temp) % conv.obase.base[i]]

\* exact_convey_array: the multiples of Q to take off are counted in doubles
\* and rounded, so close to a half either count is possible
exact_convey_array(conv, r) ==
  LET temp == Scaled(conv.ibase, r)
      Q    == conv.ibase.prod
      p    == conv.obase.base[1]
      sum  == MapThenSumSet(LAMBDA j : temp[j] * conv.ibase.punctured[j], DOMAIN temp)
      v    == (2 * sum + Q) \div (2 * Q)
      off  == (2 * sum + Q) % (2 * Q)
      vs   == {v} \cup (IF off <= FloatSlack /\ v > 0 THEN {v - 1} ELSE {})
                  \cup (IF off >= 2 * Q - FloatSlack THEN {v + 1} ELSE {})
  IN  {SubMod(MapThenSumSet(LAMBDA j : temp[j] * conv.matrix[1][j], DOMAIN temp) % p,
              (w * (Q % p)) % p, p) : w \in vs}

-----------------------------------------------------------------------------
\* base B has as many primes as q, and one more when a product could outgrow it
BaseBSize(q, t) ==
  IF ReservedBits + BitCount(t) + BitCount(Product(q)) >= InternalBits * Len(q) + InternalBits
  THEN Len(q) + 1 ELSE Len(q)

\* RNSTool::RNSTool: the bases and the converters between them
BaseB(q, t) == RNSBase(SubSeq(InternalPrimes, 3, 2 + BaseBSize(q, t)))
ToolOver(bq, t, msk, bB, bBsk) ==
  [q |-> bq, t |-> t, m_sk |-> msk, gamma |-> InternalPrimes[2],
   B |-> bB, Bsk |-> bBsk,
   q_to_Bsk     |-> BaseConverter(bq, bBsk),
   q_to_m_tilde |-> BaseConverter(bq, RNSBase(<<MTilde>>)),
   B_to_q       |-> BaseConverter(bB, bq),
   B_to_m_sk    |-> BaseConverter(bB, RNSBase(<<msk>>)),
   q_to_t_gamma |-> BaseConverter(bq, RNSBase(<<t, InternalPrimes[2]>>)),
   q_to_t       |-> BaseConverter(bq, RNSBase(<<t>>))]
RNSTool(q, t) ==
  ToolOver(RNSBase(q), t, InternalPrimes[1], BaseB(q, t), extend_modulus(BaseB(q, t), InternalPrimes[1]))

\* the products and inverses the constructor keeps with them
ToolConstants(tool) ==
  LET Q == tool.q.prod  q == tool.q.base  last == q[Len(q)]  t == tool.t
  IN  [prod_B_mod_q         |-> [i \in DOMAIN q |-> tool.B.prod % q[i]],
       inv_prod_q_mod_Bsk   |-> [i \in DOMAIN tool.Bsk.base |->
                                   InverseMod(Q % tool.Bsk.base[i], tool.Bsk.base[i])],
       inv_prod_B_mod_m_sk  |-> InverseMod(tool.B.prod % tool.m_sk, tool.m_sk),
       inv_m_tilde_mod_Bsk  |-> [i \in DOMAIN tool.Bsk.base |->
                                   InverseMod(MTilde % tool.Bsk.base[i], tool.Bsk.base[i])],
       neg_inv_prod_q_mod_m_tilde |-> (MTilde - InverseMod(Q % MTilde, MTilde)) % MTilde,
       prod_q_mod_Bsk       |-> [i \in DOMAIN tool.Bsk.base |-> Q % tool.Bsk.base[i]],
       inv_gamma_mod_t      |-> InverseMod(tool.gamma % t, t),
       prod_t_gamma_mod_q   |-> [i \in DOMAIN q |-> (t * tool.gamma) % q[i]],
       neg_inv_q_mod_t_gamma |-> [i \in 1 .. 2 |->
          LET m == <<t, tool.gamma>>[i] IN (m - InverseMod(Q % m, m)) % m],
       inv_q_last_mod_q     |-> [i \in 1 .. Len(q) - 1 |-> InverseMod(last % q[i], q[i])],
       inv_q_last_mod_t     |-> InverseMod(last % t, t),
       q_last_half          |-> last \div 2]

-----------------------------------------------------------------------------
\* A polynomial is the sequence of its coefficients, each a residue sequence;
\* ntt and intt, component by component, are any transform T of the caller's.

DivideByLast(tool, k, i, sub) ==
  (sub * k.inv_q_last_mod_q[i]) % tool.q.base[i]

\* divide_and_round_q_last: half is added before the division and what that
\* puts in is taken off again, residue by residue
divide_and_round_q_last(tool, k, c) ==
  LET q == tool.q.base  L == Len(q)
      last == AddMod(c[L], k.q_last_half, q[L])
  IN  [i \in 1 .. L - 1 |->
         DivideByLast(tool, k, i,
           SubMod(c[i], SubMod(last % q[i], k.q_last_half % q[i], q[i]), q[i]))]

\* Mutant: the half that was added is not taken off again
MutantRoundedLast(tool, k, clast, i) ==
  LET q == tool.q.base  L == Len(q)
  IN  AddMod(clast, k.q_last_half, q[L]) % q[i]

\* divide_and_round_q_last_ntt, step 1: no reduction for the larger moduli
RoundedLast(tool, k, clast, i) ==
  LET q == tool.q.base  L == Len(q)
      last == AddMod(clast, k.q_last_half, q[L])
  IN  SubMod(IF q[i] < q[L] THEN last % q[i] ELSE last, k.q_last_half % q[i], q[i])

\* step 2: four moduli are added before the subtraction, reduced by neither
SubtractLazily(tool, k, x, temp, i) ==
  LET q == tool.q.base[i]
  IN  DivideByLast(tool, k, i, SubMod(AddMod(x, Word(q * 4), q), temp, q))

\* divide_and_round_q_last_ntt, step by step on whole polynomials: what goes
\* through the transform of each component, and the end with it transformed
RoundedLastPoly(tool, k, clast) ==
  [i \in 1 .. Len(tool.q.base) - 1 |-> [j \in DOMAIN clast |-> RoundedLast(tool, k, clast[j], i)]]
divide_and_round_q_last_ntt(tool, k, P, temp) ==
  [i \in DOMAIN temp |-> [j \in DOMAIN temp[i] |-> SubtractLazily(tool, k, P[i][j], temp[i][j], i)]]

\* minus the last residue over q_last, modulo t
NegLastModT(tool, k, clast) ==
  LET neg == (tool.t - (clast % tool.t)) % tool.t
  IN  IF k.inv_q_last_mod_t = 1 THEN neg ELSE (neg * k.inv_q_last_mod_t) % tool.t

\* mod_t_and_divide_q_last_inplace: two moduli keep the difference positive
mod_t_and_divide_q_last(tool, k, c) ==
  LET q == tool.q.base  L == Len(q)  neg == NegLastModT(tool, k, c[L])
  IN  [i \in 1 .. L - 1 |->
         LET delta == ((neg % q[i]) * q[L]) % q[i]
         IN  DivideByLast(tool, k, i, Word(c[i] + 2 * q[i] - (c[L] % q[i]) - delta))]

\* the same in NTT form, step 1: everything to be taken off, in one polynomial
DeltaModQ(tool, k, clast, i) ==
  LET q == tool.q.base
  IN  AddMod(((NegLastModT(tool, k, clast) % q[i]) * q[Len(q)]) % q[i], clast % q[i], q[i])

\* step 2
SubtractDelta(tool, k, x, delta, i) ==
  DivideByLast(tool, k, i, SubMod(x, delta, tool.q.base[i]))

DeltaPoly(tool, k, clast) ==
  [i \in 1 .. Len(tool.q.base) - 1 |-> [j \in DOMAIN clast |-> DeltaModQ(tool, k, clast[j], i)]]
mod_t_and_divide_q_last_ntt(tool, k, P, delta) ==
  [i \in DOMAIN delta |-> [j \in DOMAIN delta[i] |-> SubtractDelta(tool, k, P[i][j], delta[i][j], i)]]

-----------------------------------------------------------------------------
\* fast_b_conv_m_tilde: m_tilde times the coefficient, in Bsk and m_tilde
fast_b_conv_m_tilde(tool, c) ==
  LET temp == [i \in DOMAIN c |-> (c[i] * MTilde) % tool.q.base[i]]
  IN  [Bsk     |-> fast_convert_array(tool.q_to_Bsk, temp),
       m_tilde |-> fast_convert_array(tool.q_to_m_tilde, temp)[1]]

\* the remainder modulo m_tilde stands for a number of either sign
SignedRemainder(r, m) == IF r >= MTilde \div 2 THEN r + m - MTilde ELSE r

\* sm_mrq: the multiples of q the conversion left in are taken out again with
\* the remainder modulo m_tilde, read as a signed number
sm_mrq(tool, k, x) ==
  LET r == (x.m_tilde * k.neg_inv_prod_q_mod_m_tilde) % MTilde
  IN  [i \in DOMAIN tool.Bsk.base |->
         LET m == tool.Bsk.base[i]
         IN  (((SignedRemainder(r, m) * k.prod_q_mod_Bsk[i] + x.Bsk[i]) % m) * k.inv_m_tilde_mod_Bsk[i]) % m]

fast_b_conv_m_tilde_sm_mrq(tool, k, c) == sm_mrq(tool, k, fast_b_conv_m_tilde(tool, c))

\* fast_floor: (x - x mod q) / q in Bsk, where x mod q comes from a fast
\* conversion and may be some multiples of q too large
fast_floor(tool, k, xq, xBsk) ==
  LET conv == fast_convert_array(tool.q_to_Bsk, xq)
  IN  [i \in DOMAIN tool.Bsk.base |->
         (Word(xBsk[i] + tool.Bsk.base[i] - conv[i]) * k.inv_prod_q_mod_Bsk[i])
           % tool.Bsk.base[i]]

\* fast_b_conv_sk: from B to q, m_sk counting the multiples of B to take off
fast_b_conv_sk(tool, k, x) ==
  LET inB   == SubSeq(x, 1, Len(x) - 1)
      dest  == fast_convert_array(tool.B_to_q, inB)
      temp  == fast_convert_array(tool.B_to_m_sk, inB)[1]
      alpha == (Word(temp + (tool.m_sk - x[Len(x)])) * k.inv_prod_B_mod_m_sk) % tool.m_sk
  IN  [i \in DOMAIN tool.q.base |->
         LET m == tool.q.base[i]
         IN  IF alpha > tool.m_sk \div 2
             THEN ((tool.m_sk - alpha) * k.prod_B_mod_q[i] + dest[i]) % m
             ELSE (alpha * (m - k.prod_B_mod_q[i]) + dest[i]) % m]

fast_floor_fast_b_conv_sk(tool, k, xq, xBsk) ==
  LET Times(r, b) == [i \in DOMAIN r |-> (r[i] * tool.t) % b.base[i]]
  IN  fast_b_conv_sk(tool, k, fast_floor(tool, k, Times(xq, tool.q), Times(xBsk, tool.Bsk)))

\* decrypt_scale_and_round: |gamma t c|_q in {t, gamma}, over -q; the part
\* modulo gamma is the rounding to take off
decrypt_scale_and_round(tool, k, c) ==
  LET temp == [i \in DOMAIN c |-> (c[i] * k.prod_t_gamma_mod_q[i]) % tool.q.base[i]]
      conv == fast_convert_array(tool.q_to_t_gamma, temp)
      tg   == [i \in 1 .. 2 |-> (conv[i] * k.neg_inv_q_mod_t_gamma[i]) % <<tool.t, tool.gamma>>[i]]
      d    == IF tg[2] > tool.gamma \div 2
              THEN AddMod(tg[1], (tool.gamma - tg[2]) % tool.t, tool.t)
              ELSE SubMod(tg[1], tg[2] % tool.t, tool.t)
  IN  IF d = 0 THEN 0 ELSE (d * k.inv_gamma_mod_t) % tool.t

-----------------------------------------------------------------------------
\* The kernels that fuse these steps for one coefficient on a device.  Each
\* scales the residues for a conversion once and uses them for all targets.
DotMod(temp, row, m) == MapThenSumSet(LAMBDA j : temp[j] * row[j], DOMAIN temp) % m

kernel_fast_b_conv_m_tilde_sm_mrq(tool, k, c) ==
  LET punc == Scaled(tool.q, [i \in DOMAIN c |-> (c[i] * MTilde) % tool.q.base[i]])
      r    == (DotMod(punc, tool.q_to_m_tilde.matrix[1], MTilde)
                * k.neg_inv_prod_q_mod_m_tilde) % MTilde
  IN  [i \in DOMAIN tool.Bsk.base |->
         LET m == tool.Bsk.base[i]
         IN  (((SignedRemainder(r, m) * k.prod_q_mod_Bsk[i] + DotMod(punc, tool.q_to_Bsk.matrix[i], m)) % m)
                * k.inv_m_tilde_mod_Bsk[i]) % m]

kernel_fast_floor_fast_b_conv_sk(tool, k, xq, xBsk) ==
  LET nB    == Len(tool.B.base)
      punc  == Scaled(tool.q, [i \in DOMAIN xq |-> (xq[i] * tool.t) % tool.q.base[i]])
      floor == [i \in DOMAIN xBsk |->
                  LET m == tool.Bsk.base[i]
                  IN  (Word(((xBsk[i] * tool.t) % m) + m - DotMod(punc, tool.q_to_Bsk.matrix[i], m))
                         * k.inv_prod_q_mod_Bsk[i]) % m]
      puncB == Scaled(tool.B, SubSeq(floor, 1, nB))
      alpha == (Word(DotMod(puncB, tool.B_to_m_sk.matrix[1], tool.m_sk)
                       + (tool.m_sk - floor[nB + 1])) * k.inv_prod_B_mod_m_sk) % tool.m_sk
  IN  [i \in DOMAIN xq |->
         LET m == tool.q.base[i]  dest == DotMod(puncB, tool.B_to_q.matrix[i], m)
         IN  IF alpha > tool.m_sk \div 2
             THEN ((tool.m_sk - alpha) * k.prod_B_mod_q[i] + dest) % m
             ELSE (alpha * (m - k.prod_B_mod_q[i]) + dest) % m]

kernel_decrypt_scale_and_round_fused(tool, k, c) ==
  LET punc == Scaled(tool.q, [i \in DOMAIN c |-> (c[i] * k.prod_t_gamma_mod_q[i]) % tool.q.base[i]])
      tg   == [i \in 1 .. 2 |->
                 LET m == <<tool.t, tool.gamma>>[i]
                 IN  (DotMod(punc, tool.q_to_t_gamma.matrix[i], m) * k.neg_inv_q_mod_t_gamma[i]) % m]
  IN  (k.inv_gamma_mod_t *
         (IF tg[2] > tool.gamma \div 2
          THEN AddMod(tg[1], (tool.gamma - tg[2]) % tool.t, tool.t)
          ELSE SubMod(tg[1], tg[2] % tool.t, tool.t))) % tool.t

decrypt_mod_t(tool, c) == exact_convey_array(tool.q_to_t, c)

-----------------------------------------------------------------------------
(* Calls of RNSBase, BaseConverter and RNSTool: one coefficient or one     *)
(* polynomial of two, over every coefficient the moduli of Tools allow.    *)

CONSTANTS
  Tools,      \* pairs <<q, t>> to build an RNSTool from
  Bases       \* sequences offered to RNSBase

Kinds == {"divide", "modt", "extend", "product", "decrypt", "centre"}

VARIABLES call, ret
vars == <<call, ret>>

\* a square root of -1, the root of unity of the transform of two coefficients
Root(m) == CHOOSE r \in 1 .. m - 1 : (r * r + 1) % m = 0
NttOf(q, i, s) ==
  <<(s[1] + Root(q[i]) * s[2]) % q[i], (s[1] - Root(q[i]) * s[2]) % q[i]>>
InttOf(q, i, s) ==
  LET half == (q[i] + 1) \div 2
  IN  <<((s[1] + s[2]) * half) % q[i],
        ((s[2] - s[1]) * half * Root(q[i])) % q[i]>>

Growth == 2 ^ (ReservedBits - 1)     \* what the reserved bits leave room for
Corners(Q) == {0, Q \div 2, Q - 1}

Coeffs(tool) == 0 .. Product(tool[1]) - 1
ArgsOf(kind, tool) ==
  LET Q == Product(tool[1])
  IN  CASE kind \in {"divide", "modt"} -> [x : Coeffs(tool), y : Corners(Q)]
        [] kind \in {"extend", "decrypt", "centre"} -> [x : Coeffs(tool)]
        [] kind = "product" ->
             [x : {s * ((Growth * Q * Q) \div 40) + d : s \in -40 .. 40, d \in {-1, 0, 1}}
                  \cap (-(Growth * Q * Q) .. Growth * Q * Q)]

Init ==
  /\ ret = << >>
  /\ \/ \E k \in Kinds, tool \in Tools : \E args \in ArgsOf(k, tool) :
          /\ k \in {"divide", "modt"} => Len(tool[1]) > 1
          /\ call = [kind |-> k, tool |-> tool, args |-> args]
     \/ \E b \in Bases : \E x, y \in 0 .. Max({Product(b) - 1, 0}) :
          call = [kind |-> "base", tool |-> <<b, 0>>, args |-> [x |-> x, y |-> y]]

a    == call.args
tool == RNSTool(call.tool[1], call.tool[2])
k    == ToolConstants(tool)
q    == call.tool[1]
Q    == Product(q)
t    == call.tool[2]
L    == Len(q)
Residues(x) == [i \in 1 .. L |-> x % q[i]]
InNtt(x, y) == [i \in 1 .. L |-> NttOf(q, i, <<x % q[i], y % q[i]>>)]

Return(kind, value) ==
  /\ ret = << >> /\ call.kind = kind
  /\ ret' = <<value>>
  /\ UNCHANGED call

Base ==
  LET b == RNSBase(q)
  IN  Return("base",
        IF b = Invalid THEN Invalid
        ELSE <<decompose_array(b, <<a.x, a.y>>),
               compose_array(b, decompose_array(b, <<a.x, a.y>>)),
               compose_single(b, decompose_single(b, a.x))>>)

\* the plain and the NTT form of one division, the second brought back
Constant(P) == [i \in 1 .. L - 1 |-> InttOf(q, i, P[i])[1]]
Transformed(P) == [i \in 1 .. L - 1 |-> NttOf(q, i, P[i])]
Divided(T, K, C) ==
  [plain |-> divide_and_round_q_last(T, K, Residues(a.x)),
   ntt   |-> Constant(divide_and_round_q_last_ntt(T, K, C,
               Transformed(RoundedLastPoly(T, K, InttOf(q, L, C[L])))))]
Divide == Return("divide", Divided(tool, k, InNtt(a.x, a.y)))

DividedModT(T, K, C) ==
  [plain |-> mod_t_and_divide_q_last(T, K, Residues(a.x)),
   ntt   |-> Constant(mod_t_and_divide_q_last_ntt(T, K, C,
               Transformed(DeltaPoly(T, K, InttOf(q, L, C[L])))))]
ModT == Return("modt", DividedModT(tool, k, InNtt(a.x, a.y)))

\* the host's sequence of operations and the device's fused kernel
Both(host, device) == [host |-> host, device |-> device]
Extended(T, K, x) == Both(fast_b_conv_m_tilde_sm_mrq(T, K, x), kernel_fast_b_conv_m_tilde_sm_mrq(T, K, x))
Extend == Return("extend", Extended(tool, k, Residues(a.x)))

ProductScaledDown(T, K, xq, xBsk) ==
  Both(fast_floor_fast_b_conv_sk(T, K, xq, xBsk), kernel_fast_floor_fast_b_conv_sk(T, K, xq, xBsk))
ScaledDown(T, K) == ProductScaledDown(T, K, Residues(a.x), [i \in DOMAIN T.Bsk.base |-> a.x % T.Bsk.base[i]])
ScaleProduct == Return("product", ScaledDown(tool, k))

Decrypted(T, K, x) == Both(decrypt_scale_and_round(T, K, x), kernel_decrypt_scale_and_round_fused(T, K, x))
Decrypt == Return("decrypt", Decrypted(tool, k, Residues(a.x)))

Centre ==
  /\ call.kind = "centre"
  /\ \E v \in decrypt_mod_t(tool, Residues(a.x)) : Return("centre", v)

Next == Base \/ Divide \/ ModT \/ Extend \/ ScaleProduct \/ Decrypt \/ Centre

Spec == Init /\ [][Next]_vars

-----------------------------------------------------------------------------
Returned(kind) == ret # << >> /\ call.kind = kind
Signed(x) == IF 2 * x > Q THEN x - Q ELSE x

(* RNSBase refuses an empty base, a zero modulus and moduli with a common  *)
(* factor; otherwise decompose_array lays out the residues by modulus and  *)
(* compose_array gives back every number below the product.                *)
ComposeInverts ==
  Returned("base") =>
    IF q = << >> \/ \E i \in 1 .. L : q[i] = 0 \/ \E j \in 1 .. L : i # j /\ ~Coprime(q[i], q[j])
    THEN ret[1] = Invalid
    ELSE /\ \A i \in 1 .. L : ret[1][1][2 * i - 1] = a.x % q[i] /\ ret[1][1][2 * i] = a.y % q[i]
         /\ ret[1][2] = <<a.x, a.y>> /\ ret[1][3] = a.x

(* divide_and_round_q_last drops the last modulus by rounding to nearest,  *)
(* and its NTT form, with its unreduced sums, gives the same polynomial.   *)
DivisionRounds ==
  Returned("divide") =>
    /\ ret[1].plain = [i \in 1 .. L - 1 |-> ((a.x + q[L] \div 2) \div q[L]) % q[i]]
    /\ ret[1].ntt = ret[1].plain

(* mod_t_and_divide_q_last divides by q_last up to an error that is a      *)
(* multiple of t away from hiding the message: the quotient times q_last   *)
(* is the coefficient modulo t, and it is within t of the true quotient.   *)
MessageSurvivesModT ==
  Returned("modt") =>
    /\ ret[1].ntt = ret[1].plain
    /\ \E d \in 0 .. t - 1 :
         LET y == a.x \div q[L] - d
         IN  /\ (y * q[L] - a.x) % t = 0
             /\ \A i \in 1 .. L - 1 : ret[1].plain[i] = y % q[i]

(* Extending a coefficient to Bsk (fast_b_conv_m_tilde, sm_mrq) keeps it   *)
(* modulo q and leaves it about half of q in size, in every residue alike. *)
ExtensionIsSmall ==
  Returned("extend") =>
    \E e \in {-1, 0} :
      LET y == a.x + e * Q
      IN  /\ ret[1].host = [i \in DOMAIN tool.Bsk.base |-> y % tool.Bsk.base[i]]
          /\ 2 * MTilde * (IF y < 0 THEN -y ELSE y) <= Q * (MTilde + 2 * (L + 1))

(* t/q times a product, over the whole range BaseBSize reserves room for,  *)
(* comes back to base q as the floor, short by at most the number of       *)
(* moduli (fast_floor, fast_b_conv_sk).                                    *)
ProductScaled ==
  Returned("product") =>
    \E e \in 0 .. L - 1 :
      ret[1].host = [i \in 1 .. L |-> ((t * a.x) \div Q - e) % q[i]]

(* BFV decryption rounds t/q times the phase to nearest, unless it lies    *)
(* within the error of one fast conversion over gamma of a half.           *)
DecryptionRounds ==
  Returned("decrypt") =>
    LET off == (2 * t * a.x + Q) % (2 * Q)
    IN  tool.gamma * Min({off, 2 * Q - off}) > 2 * Q * L
          => ret[1].host = ((2 * t * a.x + Q) \div (2 * Q)) % t

(* The kernels that fuse a whole conversion for a device give, coefficient *)
(* by coefficient, what the host's sequence of array operations gives.     *)
FusedAgrees ==
  Returned("extend") \/ Returned("product") \/ Returned("decrypt")
    => ret[1].device = ret[1].host

(* decrypt_mod_t reduces the phase, read as a signed number, modulo t; the *)
(* doubles it counts with matter only next to q/2.                         *)
CentredModT ==
  Returned("centre") =>
    \/ ret[1] = Signed(a.x) % t
    \/ (IF 2 * a.x > Q THEN 2 * a.x - Q ELSE Q - 2 * a.x) <= FloatSlack
=============================================================================

----------------------------- MODULE BfvRing2k ------------------------------
(***************************************************************************)
(* The encoder for plain moduli 2^k (app/bfv_ring2k.cu): polynomials of    *)
(* degree two modulo 2^k are scaled up or centralized into residues modulo *)
(* the primes of a level, and scaled down or decentralized from them.      *)
(* Words have WordBits bits and stand for the code's 64; the template's    *)
(* type has half, once or twice as many.  Doubles are exact here.          *)
(***************************************************************************)
EXTENDS Integers, Sequences, FiniteSets

CONSTANTS
  Setups,      \* the scheme, the primes, gamma, the type's bits and k
  Sources,     \* polynomials, taken modulo 2^k
  Factors,     \* correction factors
  WordBits, MaxApplied, BATCH_OP_THRESHOLD

VARIABLES setup, contextDev, helpers, plains, meant, applied, read, refused
vars == <<setup, contextDev, helpers, plains, meant, applied, read, refused>>

K         == setup.k
T         == 2 ^ setup.k
TypeSize  == 2 ^ setup.bits
Gamma     == setup.gamma
Prime(j)  == setup.primes[j]
SizeAt(level) == Len(setup.primes) + 1 - level
Levels    == 1 .. Len(setup.primes)
Modulus(level) == LET r[i \in 0 .. SizeAt(level)] == IF i = 0 THEN 1 ELSE r[i - 1] * Prime(i) IN r[SizeAt(level)]
TotalOf(n, f) == LET r[i \in 0 .. n] == IF i = 0 THEN 0 ELSE LET prev == r[i - 1] IN prev + f[i] IN r[n]
InverseMod(x, m) == CHOOSE y \in 0 .. m - 1 : (x * y) % m = 1
(* Products of words of the type, cut to its bits.                         *)
Times(x, y, m) == ((((x * (y \div 256)) % m) * 256) + ((x * (y % 256)) % m)) % m

(* An odd word's power of order 2^(bits-1) - 1 is its inverse.             *)
inverse_ring2k(x) ==
  LET step[i \in 0 .. setup.bits - 1] ==
        IF i = 0 THEN [inv |-> 1, p |-> x]
        ELSE LET prev == step[i - 1]
             IN  [inv |-> Times(prev.inv, prev.p, TypeSize), p |-> Times(prev.p, prev.p, TypeSize)]
  IN  step[setup.bits - 1].inv
general_reduce(x, j) == x % Prime(j)
modulo_from_limbs(x) == x % T
(* What the constructor computes for a level.                              *)
PolynomialEncoderRNSHelper(level) ==
  LET q == Modulus(level)
      k == SizeAt(level)
  IN  [Q_mod_t |-> modulo_from_limbs(q),
       Q_div_t_mod_qi |-> [j \in 1 .. k |-> (q \div T) % Prime(j)],
       punctured_q_mod_t |-> [j \in 1 .. k |-> modulo_from_limbs(q \div Prime(j))],
       inv_punctured |-> [j \in 1 .. k |-> InverseMod((q \div Prime(j)) % Prime(j), Prime(j))],
       punctured_mod_gamma |-> [j \in 1 .. k |-> (q \div Prime(j)) % Gamma],
       neg_inv_Q_mod_t |-> (-inverse_ring2k(q % TypeSize)) % T,
       inv_gamma_mod_t |-> inverse_ring2k(Gamma) % T,
       neg_inv_Q_mod_gamma |-> (-InverseMod(q % Gamma, Gamma)) % Gamma,
       gamma_t_mod_Q |-> [j \in 1 .. k |-> (Gamma * (T % Prime(j))) % Prime(j)]]
t_half == T \div 2

(* The sum of u and v is a word (twice a word for the widest type): for k  *)
(* as large as that it may wrap.                                           *)
SumBits == IF setup.bits > WordBits THEN 2 * WordBits ELSE WordBits
Rounded(h, x) == (h.Q_mod_t * x + t_half) \div T
Scaled(h, x, j) == ((general_reduce(x, j) * h.Q_div_t_mod_qi[j]) % Prime(j))
scale_up(h, x, level) ==
  [j \in 1 .. SizeAt(level) |-> [i \in 1 .. Len(x) |-> general_reduce((Scaled(h, x[i], j) + Rounded(h, x[i])) % (2 ^ SumBits), j)]]
Wraps(h, x, level) ==
  \E j \in 1 .. SizeAt(level), i \in 1 .. Len(x) : Scaled(h, x[i], j) + Rounded(h, x[i]) >= 2 ^ SumBits
centralize(x, level) ==
  [j \in 1 .. SizeAt(level) |->
     [i \in 1 .. Len(x) |-> IF x[i] > t_half THEN (-general_reduce((-x[i]) % T, j)) % Prime(j)
                            ELSE general_reduce(x[i], j)]]

(* Bajard et al.: through gamma the rounding error is found and removed.   *)
scale_down(h, words) ==
  LET k == Len(words)
      tmp(i) == [j \in 1 .. k |-> (((words[j][i] * h.gamma_t_mod_Q[j]) % Prime(j)) * h.inv_punctured[j]) % Prime(j)]
      on_gamma(y) == ((TotalOf(k, [j \in 1 .. k |-> y[j] * h.punctured_mod_gamma[j]]) % Gamma) * h.neg_inv_Q_mod_gamma) % Gamma
      on_t(y) == Times(TotalOf(k, [j \in 1 .. k |-> y[j] * h.punctured_q_mod_t[j]]) % TypeSize, h.neg_inv_Q_mod_t, TypeSize) % T
      One(y) == LET g == on_gamma(y)
                    b == on_t(y)
                IN  Times((IF g > Gamma \div 2 THEN b + Gamma - g ELSE b - g) % T, h.inv_gamma_mod_t, T)
  IN  [i \in DOMAIN words[1] |-> One(tmp(i))]
decentralize_step1(h, words, i) == [j \in 1 .. Len(words) |-> (words[j][i] * h.inv_punctured[j]) % Prime(j)]
(* The sum of the quotients tmp_j / q_j, rounded.                          *)
decentralize_step2(h, y, level) ==
  LET q == Modulus(level)
      k == SizeAt(level)
      v == (2 * TotalOf(k, [j \in 1 .. k |-> y[j] * (q \div Prime(j))]) + q) \div (2 * q)
  IN  (TotalOf(k, [j \in 1 .. k |-> y[j] * h.punctured_q_mod_t[j]]) - v * h.Q_mod_t) % T
decentralize(h, words, level, correction_factor) ==
  LET fix == IF correction_factor = 1 THEN 1 ELSE inverse_ring2k(correction_factor % TypeSize) % T
  IN  [i \in DOMAIN words[1] |-> Times(decentralize_step2(h, decentralize_step1(h, words, i), level), fix, T)]

-----------------------------------------------------------------------------
(* What the evaluator's product of a ciphertext and a plaintext does to    *)
(* their polynomials, residue by residue, and to the messages.             *)
Product(a, b, m) ==
  LET At(v, i) == IF i <= Len(v) THEN v[i] ELSE 0
  IN  <<(At(a, 1) * At(b, 1) - At(a, 2) * At(b, 2)) % m, (At(a, 1) * At(b, 2) + At(a, 2) * At(b, 1)) % m>>
Cut(x) == [i \in 1 .. Len(x) |-> x[i] % T]

Nothing == [level |-> 0, words |-> << >>, dev |-> FALSE]
Unknown == [form |-> "none", value |-> << >>, wraps |-> FALSE]
Ready == helpers # << >>
Helper(level) == helpers[level]
get_helper(level) == level \in DOMAIN helpers

Init ==
  /\ setup \in Setups /\ contextDev = FALSE /\ helpers = << >>
  /\ plains = <<Nothing, Nothing>> /\ meant = <<Unknown, Unknown>>
  /\ applied = 0 /\ read = << >> /\ refused = FALSE

ContextToDevice ==
  /\ ~contextDev /\ plains[1] = Nothing
  /\ contextDev' = TRUE
  /\ UNCHANGED <<setup, helpers, plains, meant, applied, read, refused>>

(* One helper for every level, from the key level down.                    *)
Construct ==
  /\ helpers = << >> /\ ~refused
  /\ refused' = (\/ 2 * K <= setup.bits \/ K > setup.bits \/ setup.scheme = "CKKS" \/ contextDev
                 \/ \E j \in Levels : Prime(j) = Gamma)
  /\ helpers' = IF refused' THEN << >>
                ELSE [l \in Levels |-> [dev |-> FALSE, made |-> PolynomialEncoderRNSHelper(l)]]
  /\ UNCHANGED <<setup, contextDev, plains, meant, applied, read>>

ToDevice ==
  /\ Ready /\ ~helpers[1].dev /\ plains[1] = Nothing
  /\ helpers' = [l \in DOMAIN helpers |-> [helpers[l] EXCEPT !.dev = TRUE]]
  /\ UNCHANGED <<setup, contextDev, plains, meant, applied, read, refused>>

(* Slices are used where they are; vectors are copied to the context's     *)
(* side (dev).  A helper on the device reads the context's primes there.   *)
Raised(up, x, level) ==
  [level |-> level, dev |-> Helper(level).dev,
   words |-> IF up THEN scale_up(Helper(level).made, x, level) ELSE centralize(x, level)]
MeantBy(up, x, level) ==
  [form |-> IF up THEN "scaled" ELSE "centralized", value |-> x, wraps |-> up /\ Wraps(Helper(level).made, x, level)]
Raise(i, up, x, level, dev) ==
  /\ Ready /\ ~refused /\ applied = 0 /\ read = << >> /\ plains[i] = Nothing /\ (i = 2 => plains[1] # Nothing)
  /\ dev => contextDev
  /\ refused' = (~get_helper(level) \/ dev # Helper(level).dev \/ Len(x) > 2)
  /\ plains' = IF refused' THEN plains ELSE [plains EXCEPT ![i] = Raised(up, x, level)]
  /\ meant' = IF refused' THEN meant ELSE [meant EXCEPT ![i] = MeantBy(up, x, level)]
  /\ UNCHANGED <<setup, contextDev, helpers, applied, read>>

(* On the device a list is not compared with the helper's place: it is on  *)
(* the device with the helper.  There the plaintexts are resized one after *)
(* the other before any is computed, so a second list that is refused      *)
(* leaves the first without its words; one by one, the first is computed.  *)
Resized(level) == [Nothing EXCEPT !.level = level, !.dev = Helper(level).dev]
RaiseBatched(up, x, y, level) ==
  /\ Ready /\ ~refused /\ applied = 0 /\ read = << >> /\ plains = <<Nothing, Nothing>>
  /\ LET batched == contextDev /\ 2 >= BATCH_OP_THRESHOLD
         bad(z)  == Len(z) > 2 \/ (~batched /\ contextDev # Helper(level).dev)
     IN  /\ batched => Helper(level).dev
         /\ refused' = (bad(x) \/ bad(y))
         /\ plains' = <<IF bad(x) THEN Nothing
                        ELSE IF batched /\ bad(y) THEN Resized(level) ELSE Raised(up, x, level),
                        IF bad(x) \/ bad(y) THEN Nothing ELSE Raised(up, y, level)>>
         /\ meant' = IF refused' THEN meant ELSE <<MeantBy(up, x, level), MeantBy(up, y, level)>>
  /\ UNCHANGED <<setup, contextDev, helpers, applied, read>>

(* A scaled plaintext times a centralized one, or two centralized ones,    *)
(* where the modulus has room.                                             *)
Multiply ==
  /\ ~refused /\ read = << >> /\ applied < MaxApplied
  /\ meant[1].form # "none" /\ meant[2].form = "centralized" /\ plains[1].level = plains[2].level
  /\ Modulus(plains[1].level) > T * T
  /\ plains' = [plains EXCEPT ![1].words = [j \in DOMAIN @ |-> Product(@[j], plains[2].words[j], Prime(j))]]
  /\ meant' = [meant EXCEPT ![1].value = Product(@, meant[2].value, T)]
  /\ applied' = applied + 1
  /\ UNCHANGED <<setup, contextDev, helpers, read, refused>>

Lower(down, factor, dev) ==
  /\ Ready /\ ~refused /\ read = << >> /\ meant[1].form # "none" /\ Modulus(plains[1].level) > T * T
  /\ down <=> meant[1].form = "scaled"
  /\ LET level == plains[1].level
         words == plains[1].words
         fails == \/ plains[1].dev # Helper(level).dev \/ plains[1].dev # dev
                  \/ ~down /\ factor % 2 = 0
     IN  /\ refused' = fails
         /\ read' = IF fails THEN << >>
                    ELSE IF down THEN <<[got |-> scale_down(Helper(level).made, words), want |-> meant[1].value]>>
                    ELSE <<[got |-> decentralize(Helper(level).made, words, level, factor),
                            want |-> [i \in DOMAIN meant[1].value |-> Times(meant[1].value[i], InverseMod(factor, T), T)]]>>
  /\ UNCHANGED <<setup, contextDev, helpers, plains, meant, applied>>

Next ==
  \/ ContextToDevice \/ Construct \/ ToDevice \/ Multiply
  \/ \E i \in 1 .. 2, up, dev \in BOOLEAN, x \in Sources, level \in 0 .. Len(setup.primes) : Raise(i, up, Cut(x), level, dev)
  \/ \E up \in BOOLEAN, x, y \in Sources, level \in Levels : RaiseBatched(up, Cut(x), Cut(y), level)
  \/ \E down, dev \in BOOLEAN, f \in Factors : Lower(down, f, dev)
Spec == Init /\ [][Next]_vars

(* bfv_ring2k.cu:331 -- what is scaled down or decentralized is what was   *)
(* scaled up or centralized, modulo 2^k, also after a product at its       *)
(* level; unless the addition of a scale-up wrapped around its word, which *)
(* only happens for k as large as the word.                                *)
RingReturns ==
  /\ \A i \in DOMAIN read : ~meant[1].wraps => read[i].got = read[i].want
  /\ \A i \in 1 .. 2 : meant[i].wraps => K = SumBits
=============================================================================

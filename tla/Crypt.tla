-------------------------------- MODULE Crypt --------------------------------
(***************************************************************************)
(* Encryption and decryption (encryptor.cu, decryptor.cu, utils/rlwe.cu,   *)
(* utils/scaling_variant.cu, fgk/translate_plain.cu) on numbers, in a ring *)
(* of degree two: a polynomial is a pair of words for every prime, in      *)
(* coefficient or in NTT form, and each transform of the code is taken.    *)
(* What RNSTool's divisions compute is established in Rns; here they are   *)
(* the roundings of integers.  Samples come from small sets.               *)
(***************************************************************************)
EXTENDS Integers, Sequences, FiniteSets

CONSTANTS
  Setups,      \* the key-level primes, their square roots of -1, and the plain modulus
  Secrets, Noises,   \* polynomials that are sampled
  Samples,     \* what an encryption samples: a seed, a ternary polynomial, the noise of each part
  Words,       \* what a seed makes of a word: Words[seed] is a pair of integers
  Messages, MaxAdded

VARIABLES setup, keys, secret, pk, plains, texts, cts, added, spent, outs, status
vars == <<setup, keys, secret, pk, plains, texts, cts, added, spent, outs, status>>

(* Levels of the chain: 1 is the key level; each drops the last prime, as  *)
(* long as the plain modulus stays below the coefficient modulus.          *)
KeySize == Len(setup.primes)
SizeAt(level) == KeySize + 1 - level
Prime(j) == setup.primes[j]
Root(j)  == setup.roots[j]
ProductOf(k) == LET r[i \in 0 .. k] == IF i = 0 THEN 1 ELSE r[i - 1] * Prime(i) IN r[k]
Modulus(level) == ProductOf(SizeAt(level))
Levels == {l \in 1 .. KeySize : \A m \in 1 .. l : setup.scheme # "CKKS" => setup.t < Modulus(m)}
FirstLevel == 2

Map(p, f(_, _)) == [j \in 1 .. Len(p) |-> f(j, p[j])]
Sum(p, q)     == [j \in 1 .. Len(p) |-> <<(p[j][1] + q[j][1]) % Prime(j), (p[j][2] + q[j][2]) % Prime(j)>>]
Neg(p)        == Map(p, LAMBDA j, w : <<(-w[1]) % Prime(j), (-w[2]) % Prime(j)>>)
Scaled(p, c)  == Map(p, LAMBDA j, w : <<(w[1] * c) % Prime(j), (w[2] * c) % Prime(j)>>)
Dyadic(p, q)  == [j \in 1 .. Len(p) |-> <<(p[j][1] * q[j][1]) % Prime(j), (p[j][2] * q[j][2]) % Prime(j)>>]
ntt(p)        == Map(p, LAMBDA j, w : <<(w[1] + w[2] * Root(j)) % Prime(j), (w[1] - w[2] * Root(j)) % Prime(j)>>)
intt(p)       == Map(p, LAMBDA j, w :
                   LET half == (Prime(j) + 1) \div 2
                   IN  <<((w[1] + w[2]) * half) % Prime(j), ((((w[2] - w[1]) * Root(j)) % Prime(j)) * half) % Prime(j)>>)
Form(p, in_ntt) == IF in_ntt THEN ntt(p) ELSE p
Residues(v, k)  == [j \in 1 .. k |-> <<v[1] % Prime(j), v[2] % Prime(j)>>]
First(p, k)     == [j \in 1 .. k |-> p[j]]

(* The integer below the product of the first primes with given residues.  *)
Compose1(r) ==
  LET x[i \in 1 .. Len(r)] ==
        IF i = 1 THEN r[1]
        ELSE LET prev == x[i - 1]
                 step == ProductOf(i - 1)
             IN  prev + step * (CHOOSE d \in 0 .. Prime(i) - 1 : (prev + step * d) % Prime(i) = r[i])
  IN  x[Len(r)]
Compose(p)  == <<Compose1([j \in 1 .. Len(p) |-> p[j][1]]), Compose1([j \in 1 .. Len(p) |-> p[j][2]])>>
Centered(x, q) == IF 2 * x > q THEN x - q ELSE x

-----------------------------------------------------------------------------
(* rlwe.cu.  RandomGenerator::sample_poly_uniform with a given seed; the   *)
(* words mean an NTT form or coefficients, whichever the caller takes them *)
(* for.                                                                    *)
sample_poly_uniform(seed, k) == Residues(Words[seed], k)
ErrorFactor == IF setup.scheme = "BGV" THEN setup.t ELSE 1
(* With its seed kept, a ciphertext in coefficient form leaves its second  *)
(* polynomial in NTT form: it is to be sampled again from the seed.        *)
Mutantsymmetric_with_c1_prng(level, is_ntt_form, save_seed, seed, noise) ==
  LET k   == SizeAt(level)
      raw == sample_poly_uniform(seed, k)
      a   == raw   \* the sample is taken to be in NTT form
      as  == Dyadic(First(secret, k), a)
      e   == Scaled(Form(Residues(noise, k), is_ntt_form), ErrorFactor)
      c0  == Neg(Sum(IF is_ntt_form THEN as ELSE intt(as), e))
  IN  [polys |-> <<c0, IF ~is_ntt_form /\ ~save_seed THEN intt(a) ELSE a>>,
       level |-> level, ntt |-> is_ntt_form, seed |-> IF save_seed THEN seed ELSE 0,
       scale |-> 1, factor |-> 1]
symmetric_with_c1_prng(level, is_ntt_form, save_seed, seed, noise) ==
  LET k   == SizeAt(level)
      raw == sample_poly_uniform(seed, k)
      a   == IF is_ntt_form \/ ~save_seed THEN raw ELSE ntt(raw)
      as  == Dyadic(First(secret, k), a)
      e   == Scaled(Form(Residues(noise, k), is_ntt_form), ErrorFactor)
      c0  == Neg(Sum(IF is_ntt_form THEN as ELSE intt(as), e))
  IN  [polys |-> <<c0, IF ~is_ntt_form /\ ~save_seed THEN intt(a) ELSE a>>,
       level |-> level, ntt |-> is_ntt_form, seed |-> IF save_seed THEN seed ELSE 0,
       scale |-> 1, factor |-> 1]
asymmetric_with_u_prng(level, is_ntt_form, u, errors) ==
  LET k == SizeAt(level)
      un == ntt(Residues(u, k))
      Part(j) == LET p == Dyadic(un, First(pk[j], k))
                     e == Scaled(Form(Residues(errors[j], k), is_ntt_form), ErrorFactor)
                 IN  Sum(IF is_ntt_form THEN p ELSE intt(p), e)
  IN  [polys |-> <<Part(1), Part(2)>>, level |-> level, ntt |-> is_ntt_form, seed |-> 0,
       scale |-> 1, factor |-> 1]

(* RNSTool::divide_and_round_q_last and mod_t_and_divide_q_last, in either *)
(* form.                                                                   *)
Divided(p) ==
  LET k == Len(p)
      x == Compose(p)
      Q1(v) == LET d == IF setup.scheme = "BGV"
                        THEN (v % Prime(k)) + Prime(k) * (CHOOSE n \in 0 .. setup.t - 1 : ((v % Prime(k)) + Prime(k) * n) % setup.t = 0)
                        ELSE v % Prime(k)
                   c == IF setup.scheme = "BGV" THEN Centered(d, Prime(k) * setup.t) ELSE Centered(d, Prime(k))
               IN  (v - c) \div Prime(k)
  IN  Residues(<<Q1(x[1]), Q1(x[2])>>, k - 1)
divide_q_last(p, is_ntt_form) == IF is_ntt_form THEN ntt(Divided(intt(p))) ELSE Divided(p)

(* Encryptor::encrypt_zero_internal and its batched form: under the public *)
(* key, one level up, from where the last prime is divided out.            *)
ZeroThrows(level, is_ntt_form, is_asymmetric, save_seed) ==
  \/ is_asymmetric /\ "public" \notin keys
  \/ ~is_asymmetric /\ "secret" \notin keys
  \/ save_seed /\ is_asymmetric
  \/ level \notin Levels
  \/ is_asymmetric /\ level > 1 /\ setup.scheme = "BGV" /\ ~is_ntt_form
OneLevelDown(temp) ==
  [temp EXCEPT !.polys = <<divide_q_last(@[1], temp.ntt), divide_q_last(@[2], temp.ntt)>>, !.level = @ + 1]
encrypt_zero_internal(level, is_ntt_form, is_asymmetric, save_seed, sample) ==
  IF ~is_asymmetric
  THEN symmetric_with_c1_prng(level, is_ntt_form, save_seed, sample.seed, sample.e[1])
  ELSE IF level = 1 THEN asymmetric_with_u_prng(level, is_ntt_form, sample.u, sample.e)
  ELSE OneLevelDown(asymmetric_with_u_prng(level - 1, is_ntt_form, sample.u, sample.e))

-----------------------------------------------------------------------------
(* scaling_variant.cu, translate_plain.cu, with the constants of           *)
(* ContextData::validate.  A plaintext of level 0 holds words below the    *)
(* plain modulus; one of another level has words for each prime.           *)
plain_upper_half_threshold == (setup.t + 1) \div 2
coeff_div_plain_modulus(level, j) == (Modulus(level) \div setup.t) % Prime(j)
coeff_modulus_mod_plain_modulus(level) == Modulus(level) % setup.t
using_fast_plain_lift(level) == \A j \in 1 .. SizeAt(level) : setup.t < Prime(j)
Coefficient(plain, i) == IF i <= plain.count THEN plain.poly[i] ELSE 0
multiply_translate_plain(from, plain, level, subtract) ==
  LET fix(m) == (m * coeff_modulus_mod_plain_modulus(level) + plain_upper_half_threshold) \div setup.t
      Up(j, i) == LET m == Coefficient(plain, i)
                  IN  (m * coeff_div_plain_modulus(level, j) + fix(m)) % Prime(j)
      Into(old, v, j) == (IF subtract THEN old - v ELSE old + v) % Prime(j)
  IN  [j \in 1 .. SizeAt(level) |->
         [i \in 1 .. 2 |-> IF i <= plain.count THEN Into(from[j][i], Up(j, i), j) ELSE from[j][i]]]
scatter_translate_copy(from, plain, subtract) ==
  [j \in 1 .. Len(from) |-> [i \in 1 .. 2 |->
     IF i > plain.count THEN from[j][i]
     ELSE (IF subtract THEN from[j][i] - plain.poly[j][i] ELSE from[j][i] + plain.poly[j][i]) % Prime(j)]]
centralize(plain, level) ==
  LET fast(m, j) == IF m >= plain_upper_half_threshold THEN m + (Prime(j) - setup.t) ELSE m
      wide(m) == IF m >= plain_upper_half_threshold THEN m + (Modulus(level) - setup.t) ELSE m
  IN  [j \in 1 .. SizeAt(level) |-> [i \in 1 .. 2 |->
         LET m == Coefficient(plain, i)
         IN  IF using_fast_plain_lift(level) THEN fast(m, j) ELSE wide(m) % Prime(j)]]

(* Encryptor::encrypt_internal.  BGV always encrypts at the first level.   *)
TargetLevel(plain) == IF setup.scheme = "BGV" \/ plain.level = 0 THEN FirstLevel ELSE plain.level
TargetForm(plain)  == CASE setup.scheme = "BGV" -> TRUE
                        [] setup.scheme = "BFV" -> plain.ntt /\ plain.level # 0
                        [] setup.scheme = "CKKS" -> plain.ntt
EncryptThrows(plain, is_asymmetric, save_seed) ==
  \/ keys = {}                                                   \* Encryptor::on_device
  \/ setup.scheme = "BFV" /\ plain.level = 0 /\ plain.ntt
  \/ setup.scheme = "CKKS" /\ plain.level \notin Levels
  \/ ZeroThrows(TargetLevel(plain), TargetForm(plain), is_asymmetric, save_seed)
Onto(zero, plain) ==
  [zero EXCEPT
     !.polys[1] = CASE setup.scheme = "BFV" /\ plain.level = 0 -> multiply_translate_plain(@, plain, FirstLevel, FALSE)
                    [] setup.scheme = "BFV" /\ plain.level # 0 -> scatter_translate_copy(@, plain, FALSE)
                    [] setup.scheme = "CKKS" \/ (setup.scheme = "BGV" /\ plain.ntt) -> Sum(@, plain.poly)
                    [] setup.scheme = "BGV" /\ ~plain.ntt -> Sum(@, ntt(centralize(plain, FirstLevel))),
     !.scale = IF setup.scheme = "CKKS" THEN plain.scale ELSE @]
encrypt_internal(plain, is_asymmetric, save_seed, sample) ==
  Onto(encrypt_zero_internal(TargetLevel(plain), TargetForm(plain), is_asymmetric, save_seed, sample), plain)
(* encrypt_internal_batched asks that the plaintexts look alike.           *)
BatchedThrows(list, is_asymmetric, save_seed) ==
  \/ Len(list) > 1 /\ \E i \in 1 .. Len(list) : \/ list[i].level # list[1].level \/ list[i].ntt # list[1].ntt
                                                \/ list[i].count # list[1].count
  \/ \E i \in 1 .. Len(list) : EncryptThrows(list[i], is_asymmetric, save_seed)

(* Ciphertext::expand_seed. *)
expand_seed(c) == [c EXCEPT !.polys[2] = sample_poly_uniform(c.seed, SizeAt(c.level)), !.seed = 0]

-----------------------------------------------------------------------------
(* Decryptor::dot_product_ct_sk_array and its batched form: the powers of  *)
(* the secret key are in NTT form, for all primes.                         *)
Power(i, k) == LET r[n \in 1 .. i] == IF n = 1 THEN First(secret, k) ELSE Dyadic(r[n - 1], First(secret, k)) IN r[i]
dot_product_ct_sk_array(c) ==
  LET k == SizeAt(c.level)
      n == Len(c.polys) - 1
      Term(i) == Dyadic(IF c.ntt THEN c.polys[i + 1] ELSE ntt(c.polys[i + 1]), Power(i, k))
      total[i \in 1 .. n] == IF i = 1 THEN Term(1) ELSE Sum(total[i - 1], Term(i))
  IN  Sum(c.polys[1], IF c.ntt THEN total[n] ELSE intt(total[n]))
Back(p, in_ntt) == IF in_ntt THEN intt(p) ELSE p
Phase(c) == Compose(Back(dot_product_ct_sk_array(c), c.ntt))

DecryptThrows(c) == c.seed # 0 \/ Len(c.polys) < 2 \/ c.ntt # (setup.scheme # "BFV")
(* RNSTool::decrypt_scale_and_round and decrypt_mod_t. *)
scale_and_round(x, q) ==
  LET Down(v) == ((2 * setup.t * v + q) \div (2 * q)) % setup.t IN <<Down(x[1]), Down(x[2])>>
bfv_decrypt(c) == scale_and_round(Phase(c), Modulus(c.level))
decentralize(x, q, factor) ==
  LET fix == CHOOSE f \in 1 .. setup.t - 1 : (f * factor) % setup.t = 1
      Mod(v) == (Centered(v, q) * fix) % setup.t
  IN  <<Mod(x[1]), Mod(x[2])>>
bgv_decrypt(c)  == decentralize(Phase(c), Modulus(c.level), c.factor)
center(x, q)    == <<Centered(x[1], q), Centered(x[2], q)>>
ckks_decrypt(c) == center(Phase(c), Modulus(c.level))
decrypt(c) == CASE setup.scheme = "BFV" -> bfv_decrypt(c) [] setup.scheme = "BGV" -> bgv_decrypt(c)
                [] setup.scheme = "CKKS" -> ckks_decrypt(c)

poly_infty_norm(x, q) ==
  LET Abs(v) == IF v >= (q + 1) \div 2 THEN q - v ELSE v
  IN  IF Abs(x[1]) > Abs(x[2]) THEN Abs(x[1]) ELSE Abs(x[2])
Bits(n) == CHOOSE b \in 0 .. 30 : n < 2 ^ b /\ (b > 0 => 2 ^ (b - 1) <= n)
(* It does not ask whether the seed was expanded. *)
Budget(x, q) ==
  LET v == IF setup.scheme = "BFV" THEN <<(x[1] * setup.t) % q, (x[2] * setup.t) % q>> ELSE x
      diff == Bits(q) - Bits(poly_infty_norm(v, q)) - 1
  IN  IF diff < 0 THEN 0 ELSE diff
invariant_noise_budget(c) == Budget(Phase(c), Modulus(c.level))

-----------------------------------------------------------------------------
Plain(m, count) == [poly |-> m, level |-> 0, ntt |-> FALSE, count |-> count, scale |-> 1]
Truncated(m, count) == IF count = 2 THEN m ELSE <<m[1], 0>>
(* What the encoders and Evaluator::transform_plain_to_ntt hand over.      *)
Prepared(m, kind, level) ==
  LET p == Plain(m, 2)
      zero == Residues(<<0, 0>>, SizeAt(level))
  IN  CASE kind = "words"  -> p
        [] kind = "short"  -> Plain(m, 1)
        [] kind = "scaled" -> [p EXCEPT !.poly = multiply_translate_plain(zero, p, level, FALSE), !.level = level]
        [] kind = "scaled_ntt" -> [p EXCEPT !.poly = ntt(multiply_translate_plain(zero, p, level, FALSE)),
                                            !.level = level, !.ntt = TRUE]
        [] kind = "lifted" -> [p EXCEPT !.poly = ntt(centralize(p, level)), !.level = level, !.ntt = TRUE]
        [] kind = "ckks"   -> [p EXCEPT !.poly = ntt(Residues(m, SizeAt(level))), !.level = level,
                                        !.ntt = TRUE, !.scale = 4]
Kinds == CASE setup.scheme = "BFV" -> {"words", "short", "scaled", "scaled_ntt"}
           [] setup.scheme = "BGV" -> {"words", "short", "lifted"}
           [] setup.scheme = "CKKS" -> {"ckks"}

Reduced(m) == IF setup.scheme = "CKKS" THEN m ELSE <<m[1] % setup.t, m[2] % setup.t>>

Init ==
  /\ setup \in Setups
  /\ keys \in SUBSET {"public", "secret"}
  /\ \E s \in Secrets : secret = ntt(Residues(s, KeySize))
  /\ \E e \in Noises : pk = symmetric_with_c1_prng(1, TRUE, FALSE, 1, e).polys   \* KeyGenerator::generate_pk
  /\ plains = << >> /\ texts = << >> /\ cts = << >> /\ outs = << >>
  /\ added = 0 /\ spent = FALSE /\ status = "start"

Prepare(m, kind, level) ==
  /\ status = "start" /\ Len(plains) < 2
  /\ kind \in Kinds /\ level \in Levels \ {1}
  /\ kind \in {"words", "short", "lifted"} => level = FirstLevel
  /\ plains' = Append(plains, Prepared(Reduced(m), kind, level))
  /\ texts' = Append(texts, Truncated(Reduced(m), IF kind = "short" THEN 1 ELSE 2))
  /\ UNCHANGED <<setup, keys, secret, pk, cts, added, spent, outs, status>>

Exhausted(list) == setup.scheme # "CKKS" /\ \E i \in 1 .. Len(list) : list[i].seed = 0 /\ invariant_noise_budget(list[i]) = 0
OtherSample(s) == [seed |-> 3 - s.seed, u |-> <<s.u[2], s.u[1]>>, e |-> <<s.e[2], s.e[1]>>]
Encrypt(is_asymmetric, save_seed, sample) ==
  /\ status = "start" /\ plains # << >>
  /\ IF BatchedThrows(plains, is_asymmetric, save_seed)
     THEN status' = "thrown" /\ UNCHANGED <<cts, spent>>
     ELSE /\ status' = "encrypted"
          /\ cts' = [i \in 1 .. Len(plains) |->
                       encrypt_internal(plains[i], is_asymmetric, save_seed, IF i = 1 THEN sample ELSE OtherSample(sample))]
          /\ spent' = Exhausted(cts')
  /\ UNCHANGED <<setup, keys, secret, pk, plains, texts, added, outs>>

EncryptZero(level, is_asymmetric, save_seed, sample) ==
  /\ status = "start" /\ plains = << >>
  /\ LET form == setup.scheme # "BFV"
     IN  IF ZeroThrows(level, form, is_asymmetric, save_seed)
         THEN status' = "thrown" /\ UNCHANGED <<texts, cts, spent>>
         ELSE /\ status' = "encrypted" /\ texts' = << <<0, 0>> >>
              /\ cts' = <<encrypt_zero_internal(level, form, is_asymmetric, save_seed, sample)>>
              /\ spent' = Exhausted(cts')
  /\ UNCHANGED <<setup, keys, secret, pk, plains, added, outs>>

Changed(new) == cts' = new /\ spent' = (spent \/ Exhausted(new))
ExpandSeed ==
  /\ status = "encrypted" /\ \E i \in 1 .. Len(cts) : cts[i].seed # 0
  /\ Changed([i \in 1 .. Len(cts) |-> expand_seed(cts[i])])
  /\ UNCHANGED <<setup, keys, secret, pk, plains, texts, added, outs, status>>

(* Evaluator::add_plain and sub_plain under BFV. *)
TranslatePlain(m, kind, subtract) ==
  /\ status = "encrypted" /\ setup.scheme = "BFV" /\ kind \in {"words", "short", "scaled"}
  /\ added = 0 /\ Len(cts) = 1 /\ Len(cts[1].polys) = 2
  /\ \A i \in 1 .. Len(cts) : cts[i].seed = 0 /\ ~cts[i].ntt
  /\ LET One(c) == LET p == Prepared(Reduced(m), kind, c.level)
                   IN  [c EXCEPT !.polys[1] = IF p.level = 0 THEN multiply_translate_plain(@, p, c.level, subtract)
                                              ELSE scatter_translate_copy(@, p, subtract)]
         d == Truncated(Reduced(m), IF kind = "short" THEN 1 ELSE 2)
         Moved(v, w) == (IF subtract THEN v - w ELSE v + w) % setup.t
     IN  /\ Changed([i \in 1 .. Len(cts) |-> One(cts[i])])
         /\ texts' = [i \in 1 .. Len(texts) |-> <<Moved(texts[i][1], d[1]), Moved(texts[i][2], d[2])>>]
  /\ added' = 1
  /\ UNCHANGED <<setup, keys, secret, pk, plains, outs, status>>

(* What homomorphic operations do to a ciphertext: a ciphertext that hides *)
(* zero adds its noise (Evaluator::translate), here with no second         *)
(* polynomial of its own, and a product has a third polynomial.  Only      *)
(* single ciphertexts go through it.                                       *)
AddNoise(e) ==
  /\ status = "encrypted" /\ added < MaxAdded /\ Len(cts) = 1
  /\ \A i \in 1 .. Len(cts) : cts[i].seed = 0
  /\ Changed([i \in 1 .. Len(cts) |->
                [cts[i] EXCEPT !.polys[1] = Sum(@, Scaled(Form(Residues(e, SizeAt(cts[i].level)), cts[i].ntt), ErrorFactor))]])
  /\ added' = added + 1
  /\ UNCHANGED <<setup, keys, secret, pk, plains, texts, outs, status>>
Lengthen(seed) ==
  /\ status = "encrypted" /\ Len(cts) = 1
  /\ \A i \in 1 .. Len(cts) : cts[i].seed = 0 /\ Len(cts[i].polys) = 2
  /\ LET One(c) == LET k  == SizeAt(c.level)
                       c2 == sample_poly_uniform(seed, k)
                       p  == Neg(Dyadic(c2, Power(2, k)))
                   IN  [c EXCEPT !.polys = <<Sum(@[1], IF c.ntt THEN p ELSE intt(p)), @[2], IF c.ntt THEN c2 ELSE intt(c2)>>]
     IN  Changed([i \in 1 .. Len(cts) |-> One(cts[i])])
  /\ UNCHANGED <<setup, keys, secret, pk, plains, texts, added, outs, status>>

Decrypt ==
  /\ status = "encrypted"
  /\ IF \E i \in 1 .. Len(cts) : DecryptThrows(cts[i])
     THEN status' = "thrown" /\ UNCHANGED outs
     ELSE status' = "decrypted" /\ outs' = [i \in 1 .. Len(cts) |-> decrypt(cts[i])]
  /\ UNCHANGED <<setup, keys, secret, pk, plains, texts, cts, added, spent>>

Next ==
  \/ \E m \in Messages, kind \in {"words", "short", "scaled", "scaled_ntt", "lifted", "ckks"}, l \in 2 .. 3 :
       Prepare(m, kind, l)
  \/ \E asym, seeded \in BOOLEAN, s \in Samples :
       \/ Encrypt(asym, seeded, s) \/ \E l \in 1 .. 4 : EncryptZero(l, asym, seeded, s)
  \/ ExpandSeed
  \/ \E m \in Messages, kind \in {"words", "short", "scaled"}, sub \in BOOLEAN : TranslatePlain(m, kind, sub)
  \/ \E e \in Noises : AddNoise(e)
  \/ Lengthen(2)
  \/ Decrypt
Spec == Init /\ [][Next]_vars

-----------------------------------------------------------------------------
(* With coefficients of at most 1 sampled: three products and sums at the  *)
(* key level; below it, roundings and what is left of them.                *)
FreshNoise(level) == IF level = 1 THEN 5 ELSE 2

(* encryptor.cu, decryptor.cu: a fresh encryption, made by either key, at  *)
(* any level and in any form, with its seed expanded, decrypts to the      *)
(* message, and goes on doing so while noise is added until its noise      *)
(* budget was once used up.  Under CKKS the noise stays in the message.    *)
DecryptsMessage ==
  status = "decrypted" =>
    \A i \in 1 .. Len(outs) :
      IF setup.scheme = "CKKS"
      THEN \A x \in 1 .. 2 : LET most == added + FreshNoise(cts[i].level)
                             IN  outs[i][x] - texts[i][x] \in -most .. most
      ELSE added = 0 \/ ~spent => outs[i] = texts[i]
=============================================================================

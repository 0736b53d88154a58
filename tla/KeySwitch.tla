------------------------------- MODULE KeySwitch -------------------------------
(***************************************************************************)
(* Evaluator::switch_key_internal and its callers, on numbers: the ring is *)
(* Z_q[X]/(X^2 + 1), in which the NTT of <<a, b>> is its values at Psi and *)
(* -Psi, so that data in the wrong form is different data.  A call queues  *)
(* the switches it makes; each of them accumulates the products with the   *)
(* key modulo the primes of the level and the special prime, and is then   *)
(* divided by the special prime, by the host's loops or the kernels.       *)
(***************************************************************************)
EXTENDS Integers, Sequences, FiniteSetsExt, SequencesExt

CONSTANTS
  KeyModulus,     \* the primes of the key level, the special prime last
  Psi,            \* for each, a square root of -1
  PlainModulus,   \* t, of BGV
  LazyBound,      \* HE_MULTIPLY_ACCUMULATE_USER_MOD_MAX
  Word,           \* 2^64
  BatchThreshold, \* BATCH_OP_THRESHOLD
  Schemes, BgvForms, \* the schemes, and the NTT forms of BGV ciphertexts
  Secrets,        \* secret keys, ternary polynomials
  Noises,         \* noise polynomials of the keys
  CtPolys         \* polynomials of ciphertexts, over the integers

VARIABLES par,    \* the scheme, the keys and the device
          cts,    \* the ciphertexts of the call: level, form, polynomials
          caller,     \* the call
          jobs,   \* its switches still to make, in groups launched together
          prod,   \* the accumulated products of the first group
          dst     \* the destinations
vars == <<par, cts, caller, jobs, prod, dst>>

K == Len(KeyModulus)
P == KeyModulus[K]
Methods == {"AddInplace", "Overwrite", "OverwriteExceptFirst"}

KeySwitchConstants ==
  /\ \A i \in 1 .. K : (Psi[i] * Psi[i] + 1) % KeyModulus[i] = 0
  /\ LazyBound > K                       \* HE_COEFF_MOD_COUNT_MAX is 64
  /\ \A i \in 1 .. K : 8 * KeyModulus[i] <= Word   \* HE_USER_MOD_BIT_COUNT_MAX is below 62

(* Polynomials of two coefficients, over the integers and modulo a prime.  *)
PolyMul(a, b) == <<a[1] * b[1] - a[2] * b[2], a[1] * b[2] + a[2] * b[1]>>
PolyAdd(a, b) == <<a[1] + b[1], a[2] + b[2]>>
PolyNeg(a) == <<-a[1], -a[2]>>
Reduce(a, q) == <<a[1] % q, a[2] % q>>
Dyadic(a, b, q) == <<(a[1] * b[1]) % q, (a[2] * b[2]) % q>>
Inv(x, q) == CHOOSE y \in 1 .. q - 1 : (x * y) % q = 1
NTT(a, i) == Reduce(<<a[1] + a[2] * Psi[i], a[1] - a[2] * Psi[i]>>, KeyModulus[i])
INTT(v, i) == LET q == KeyModulus[i]
                  h == Inv(2, q)
              IN  Reduce(<<(v[1] + v[2]) * h, ((v[2] - v[1]) * h * Psi[i])>>, q)
Rns(a, D) == [i \in 1 .. D |-> Reduce(a, KeyModulus[i])]
InForm(r, ntt) == IF ntt THEN [i \in 1 .. Len(r) |-> NTT(r[i], i)] ELSE r

---------------------------------------------------------------------------
(* Keys.  a and e stand for what the sampler drew for key j.               *)
KeyNoise(j, scheme, e) ==
  LET n == IF j % 2 = 1 THEN e ELSE PolyNeg(e)
  IN  IF scheme = "BGV" THEN <<PlainModulus * n[1], PlainModulus * n[2]>> ELSE n
Uniform(j, i) == <<(7 * i + 5 * j) % KeyModulus[i], (3 * i + 11 * j) % KeyModulus[i]>>

symmetric(sk, j, i, scheme, e) ==   \* in NTT form
  LET q == KeyModulus[i]
      body == PolyAdd(Dyadic(Uniform(j, i), NTT(sk, i), q), NTT(KeyNoise(j, scheme, e), i))
  IN  <<Reduce(PolyNeg(body), q), Uniform(j, i)>>
generate_one_kswitch_key(sk, new, scheme, e) ==
  [j \in 1 .. K - 1 |->
     [i \in 1 .. K |->
        LET c == symmetric(sk, j, i, scheme, e)
            q == KeyModulus[i]
        IN  IF i # j THEN c
            ELSE <<Reduce(PolyAdd(c[1], Dyadic(<<P % q, P % q>>, NTT(new, i), q)), q), c[2]>>]]

(* A ciphertext under par.old is switched to par.sk; relinearization keys  *)
(* are for the powers of par.sk, the Galois key for its image under        *)
(* X -> X^3, the only element there is.                                    *)
apply_ps(a) == <<a[1], -a[2]>>
SecretPower(sk, n) == CASE n = 1 -> sk [] n = 2 -> PolyMul(sk, sk) [] n = 3 -> PolyMul(sk, PolyMul(sk, sk))
KeyTarget(kind, index) ==
  CASE kind = "kswitch" -> par.old
    [] kind = "galois"  -> apply_ps(par.sk)
    [] kind = "relin"   -> SecretPower(par.sk, index + 2)
Key(kind, index) == generate_one_kswitch_key(par.sk, KeyTarget(kind, index), par.scheme, par.noise)

---------------------------------------------------------------------------
(* Accumulation.                                                           *)
KeyIndex(i, D) == IF i = D + 1 THEN K ELSE i
set_accumulate(t, i, j, D) ==
  IF KeyModulus[j] <= KeyModulus[KeyIndex(i, D)] THEN t[j] ELSE Reduce(t[j], KeyModulus[KeyIndex(i, D)])
CoeffForm(t, ntt) == IF ntt THEN [j \in 1 .. Len(t) |-> INTT(t[j], j)] ELSE t

(* The host keeps a double word per coefficient and reduces it at the end; *)
(* the counter starts at the bound, and one that comes back to the bound   *)
(* takes the low word as it is.                                            *)
HostOperand(t, ntt, i, j, D) ==
  IF ntt /\ i = j THEN t[j] ELSE NTT(set_accumulate(CoeffForm(t, ntt), i, j, D), KeyIndex(i, D))
ski_util2(acc, operand, k) ==
  [x \in 1 .. 2 |-> (acc[x] + operand[x] * k[x]) % (Word * Word)]
ski_util4(acc, q) == Reduce(acc, q)
ski_util3(acc) == <<acc[1] % Word, acc[2] % Word>>
HostAccumulate(t, ntt, key, D, c) ==
  [i \in 1 .. D + 1 |->
     LET lazy[j \in 0 .. D] ==
           IF j = 0 THEN <<0, 0>>
           ELSE LET prev == lazy[j - 1]
                IN  ski_util2(prev, HostOperand(t, ntt, i, j, D), key[j][KeyIndex(i, D)][c])
     IN  IF D % LazyBound = 0 THEN ski_util3(lazy[D])
         ELSE ski_util4(lazy[D], KeyModulus[KeyIndex(i, D)])]

(* A kernel reduces every sum.                                             *)
DeviceAccumulate(t, ntt, key, D, c) ==
  LET coeff == CoeffForm(t, ntt)
  IN  [i \in 1 .. D + 1 |->
         LET m == KeyIndex(i, D)
             acc[j \in 0 .. D] ==
               IF j = 0 THEN <<0, 0>>
               ELSE LET prev == acc[j - 1]
                        operand == NTT(set_accumulate(coeff, i, j, D), m)
                    IN  Reduce(ski_util2(prev, operand, key[j][m][c]), KeyModulus[m])
         IN  acc[D]]

---------------------------------------------------------------------------
(* Division by the special prime of one component: BGV makes the dropped   *)
(* part a multiple of t, the others round.                                 *)
Mutantski_util5(pr, D) ==   \* the dropped part is not made a multiple of t
  LET last == INTT(pr[D + 1], K)
  IN  [j \in 1 .. D |->
         LET q == KeyModulus[j]
             d == NTT(Reduce(last, q), j)
         IN  Dyadic(Reduce(PolyAdd(pr[j], PolyNeg(d)), q), <<Inv(P % q, q), Inv(P % q, q)>>, q)]
ski_util5(pr, D) ==
  LET last == INTT(pr[D + 1], K)
      k == [x \in 1 .. 2 |-> ((PlainModulus - (last[x] % PlainModulus)) * Inv(P % PlainModulus, PlainModulus)) % PlainModulus]
  IN  [j \in 1 .. D |->
         LET q == KeyModulus[j]
             delta == NTT(Reduce(<<k[1] * P + last[1], k[2] * P + last[2]>>, q), j)
         IN  Dyadic(Reduce(PolyAdd(pr[j], PolyNeg(delta)), q), <<Inv(P % q, q), Inv(P % q, q)>>, q)]

Rounding(last, j) ==   \* ski_util6
  LET q == KeyModulus[j]
      r == Reduce(PolyAdd(last, <<P \div 2, P \div 2>>), P)
      fix == q - ((P \div 2) % q)
  IN  PolyAdd(IF P > q THEN Reduce(r, q) ELSE r, <<fix, fix>>)
ski_util7(pr, t, scheme, q) ==
  LET twice == (IF scheme = "CKKS" THEN 4 ELSE 2) * q
      dest == [x \in 1 .. 2 |-> (pr[x] + twice - t[x]) % Word]
  IN  Dyadic(Reduce(dest, q), <<Inv(P % q, q), Inv(P % q, q)>>, q)
ModDown(pr, ntt, scheme, D) ==
  IF scheme = "BGV" THEN ski_util5(pr, D)
  ELSE LET last == INTT(pr[D + 1], K)
       IN  [j \in 1 .. D |->
              IF ntt THEN ski_util7(pr[j], NTT(Rounding(last, j), j), scheme, KeyModulus[j])
              ELSE ski_util7(INTT(pr[j], j), Rounding(last, j), scheme, KeyModulus[j])]

AddsInplace(method, c) == method = "AddInplace" \/ (c = 1 /\ method = "OverwriteExceptFirst")
Assigned(old, new, method, c) ==
  IF AddsInplace(method, c)
  THEN [j \in 1 .. Len(new) |-> Reduce(PolyAdd(old[j], new[j]), KeyModulus[j])] ELSE new

---------------------------------------------------------------------------
(* A switch reads its target from a ciphertext or, after a rotation, from  *)
(* the destination it overwrites.                                          *)
Switch(b, src, poly, kind, index, method) ==
  [b |-> b, src |-> src, poly |-> poly, kind |-> kind, index |-> index, method |-> method]
Target(s) == IF s.src = "dst" THEN dst[s.b].polys[s.poly] ELSE cts[s.b].polys[s.poly]
Products(s, device) ==
  LET D == cts[s.b].lvl
      key == Key(s.kind, s.index)
  IN  [c \in 1 .. 2 |-> IF device THEN DeviceAccumulate(Target(s), cts[s.b].ntt, key, D, c)
                        ELSE HostAccumulate(Target(s), cts[s.b].ntt, key, D, c)]

ZeroPoly(D) == [i \in 1 .. D |-> <<0, 0>>]
like(ct, n) == [ct EXCEPT !.polys = [i \in 1 .. n |-> ZeroPoly(ct.lvl)]]

(* Groups: a batch is launched together on the device once it is large     *)
(* enough, and one ciphertext at a time otherwise.                         *)
Grouped(ss) == IF par.device /\ Len(ss) >= BatchThreshold THEN <<ss>> ELSE [b \in 1 .. Len(ss) |-> <<ss[b]>>]

Idle == caller = "none" /\ jobs = << >>
Start(name, d, js) == /\ caller' = name /\ dst' = d /\ jobs' = js /\ UNCHANGED <<par, cts, prod>>

(* apply_keyswitching fills a new destination and adds the first           *)
(* polynomial at the end; in place the destination is the operand.         *)
apply_keyswitching ==
  /\ Idle /\ \A b \in 1 .. Len(cts) : Len(cts[b].polys) = 2
  /\ Start("apply_keyswitching", [b \in 1 .. Len(cts) |-> like(cts[b], 2)],
           Grouped([b \in 1 .. Len(cts) |-> Switch(b, "ct", 2, "kswitch", 0, "Overwrite")]))
apply_keyswitching_inplace ==
  /\ Idle /\ \A b \in 1 .. Len(cts) : Len(cts[b].polys) = 2
  /\ Start("apply_keyswitching_inplace", cts,
           Grouped([b \in 1 .. Len(cts) |-> Switch(b, "dst", 2, "kswitch", 0, "OverwriteExceptFirst")]))

(* Relinearization takes off one polynomial at a time, the last first.     *)
relinearize_inplace_internal ==
  /\ Idle /\ Len(cts) = 1 /\ Len(cts[1].polys) > 2
  /\ LET n == Len(cts[1].polys)
     IN  Start("relinearize_inplace", cts,
               [r \in 1 .. n - 2 |-> <<Switch(1, "dst", n + 1 - r, "relin", n - 2 - r, "AddInplace")>>])
relinearize_internal ==
  /\ Idle /\ Len(cts) = 1 /\ Len(cts[1].polys) > 2
  /\ LET n == Len(cts[1].polys)
     IN  Start("relinearize", <<like(cts[1], 2)>>,
               [r \in 1 .. n - 2 |-> <<Switch(1, "ct", n + 1 - r, "relin", n - 2 - r,
                                              IF r = 1 THEN "Overwrite" ELSE "AddInplace")>>])

(* The element X -> X^3: in NTT form the two values change places.         *)
Rotated(r, ntt) == [i \in 1 .. Len(r) |-> IF ntt THEN <<r[i][2], r[i][1]>>
                                          ELSE Reduce(apply_ps(r[i]), KeyModulus[i])]
apply_galois ==
  /\ Idle /\ \A b \in 1 .. Len(cts) : Len(cts[b].polys) = 2
  /\ Start("apply_galois",
           [b \in 1 .. Len(cts) |->
              [cts[b] EXCEPT !.polys = [i \in 1 .. 2 |-> Rotated(cts[b].polys[i], cts[b].ntt)]]],
           Grouped([b \in 1 .. Len(cts) |-> Switch(b, "dst", 2, "galois", 0, "OverwriteExceptFirst")]))

(* One switch: the products, then the division, the polynomials beyond the *)
(* second cleared first unless the result is added.                        *)
Accumulate ==
  /\ jobs # << >> /\ prod = << >>
  /\ prod' = [x \in 1 .. Len(Head(jobs)) |-> Products(Head(jobs)[x], par.device)]
  /\ UNCHANGED <<par, cts, caller, jobs, dst>>
SwitchInto(s, d, pr) ==
  [d EXCEPT !.polys =
     [i \in 1 .. Len(d.polys) |->
        IF i > 2 THEN IF s.method = "AddInplace" THEN d.polys[i] ELSE ZeroPoly(d.lvl)
        ELSE Assigned(d.polys[i], ModDown(pr[i], cts[s.b].ntt, par.scheme, d.lvl), s.method, i)]]
Divide ==
  /\ prod # << >>
  /\ dst' = [b \in 1 .. Len(dst) |->
               IF \E x \in 1 .. Len(prod) : Head(jobs)[x].b = b
               THEN LET x == CHOOSE x \in 1 .. Len(prod) : Head(jobs)[x].b = b
                    IN  SwitchInto(Head(jobs)[x], dst[b], prod[x])
               ELSE dst[b]]
  /\ prod' = << >> /\ jobs' = Tail(jobs)
  /\ UNCHANGED <<par, cts, caller>>

(* What the caller does after the last switch.                             *)
AddPolys(d, e, n) ==
  [d EXCEPT !.polys = [i \in 1 .. Len(d.polys) |->
     IF i > n THEN d.polys[i]
     ELSE [j \in 1 .. d.lvl |-> Reduce(PolyAdd(d.polys[i][j], e.polys[i][j]), KeyModulus[j])]]]
Finished(d, e) ==
  CASE caller = "apply_keyswitching"  -> AddPolys(d, e, 1)
    [] caller = "relinearize"         -> AddPolys(d, e, 2)
    [] caller = "relinearize_inplace" -> [d EXCEPT !.polys = SubSeq(@, 1, 2)]
    [] OTHER                      -> d
Finish ==
  /\ caller \notin {"none", "done"} /\ jobs = << >> /\ prod = << >>
  /\ dst' = [b \in 1 .. Len(dst) |-> Finished(dst[b], cts[b])]
  /\ par' = [par EXCEPT !.made = caller] /\ caller' = "done"
  /\ UNCHANGED <<cts, jobs, prod>>

Ciphertext(scheme, ntt, D, ps) ==
  [lvl |-> D, ntt |-> ntt, polys |-> [i \in 1 .. Len(ps) |-> InForm(Rns(ps[i], D), ntt)]]
Init ==
  /\ \E sc \in Schemes, dev \in BOOLEAN, sk \in Secrets, old \in Secrets, e \in Noises :
       par = [scheme |-> sc, device |-> dev, sk |-> sk, old |-> old, noise |-> e, made |-> "none"]
  /\ \E n \in 1 .. 2, D \in 1 .. K - 1, ntt \in (IF par.scheme = "BGV" THEN BgvForms ELSE BOOLEAN), ps \in CtPolys :
       cts = [b \in 1 .. n |-> Ciphertext(par.scheme, ntt, D,
                IF b = 1 THEN ps ELSE [i \in 1 .. 2 |-> PolyNeg(ps[i])])]
  /\ \A b \in 2 .. Len(cts) : Len(cts[1].polys) = 2
  /\ caller = "none" /\ jobs = << >> /\ prod = << >> /\ dst = << >>
Next == \/ apply_keyswitching \/ apply_keyswitching_inplace
        \/ relinearize_inplace_internal \/ relinearize_internal \/ apply_galois
        \/ Accumulate \/ Divide \/ Finish

---------------------------------------------------------------------------
(* Decryption: the value of the ciphertext at the secrets, by the integer  *)
(* between -Q/2 and Q/2 that has these residues.                           *)
QProd(D) == FoldLeft(LAMBDA a, b : a * b, 1, SubSeq(KeyModulus, 1, D))
Plain(ct, i) == [j \in 1 .. ct.lvl |-> IF ct.ntt THEN INTT(ct.polys[i][j], j) ELSE ct.polys[i][j]]
PhaseResidues(ct, secrets) ==   \* secrets[i] multiplies polynomial i
  [j \in 1 .. ct.lvl |->
     LET term(i) == PolyMul(Plain(ct, i)[j], secrets[i])
         sum[i \in 0 .. Len(ct.polys)] == IF i = 0 THEN <<0, 0>> ELSE PolyAdd(sum[i - 1], term(i))
     IN  Reduce(sum[Len(ct.polys)], KeyModulus[j])]
Centred(residues, x, D) ==
  LET v == CHOOSE v \in 0 .. QProd(D) - 1 : \A j \in 1 .. D : v % KeyModulus[j] = residues[j][x]
  IN  IF 2 * v > QProd(D) THEN v - QProd(D) ELSE v

Wanted(ct) ==   \* the phase the result must have, but for the switching error
  CASE par.made \in {"apply_keyswitching", "apply_keyswitching_inplace"} -> PhaseResidues(ct, << <<1, 0>>, par.old >>)
    [] par.made = "apply_galois" ->
         [j \in 1 .. ct.lvl |-> Reduce(apply_ps(PhaseResidues(ct, << <<1, 0>>, par.sk >>)[j]), KeyModulus[j])]
    [] OTHER -> PhaseResidues(ct, [i \in 1 .. Len(ct.polys) |-> IF i = 1 THEN <<1, 0>> ELSE SecretPower(par.sk, i - 1)])
Error(d, ct, x) ==
  LET got == PhaseResidues(d, << <<1, 0>>, par.sk >>)
      diff == [j \in 1 .. ct.lvl |-> Reduce(PolyAdd(got[j], PolyNeg(Wanted(ct)[j])), KeyModulus[j])]
  IN  Centred(diff, x, ct.lvl)

(* The noise a switch may add: the noises of the keys times the residues,  *)
(* over the special prime, and what dividing both components leaves.       *)
ErrorBound(ct) ==
  LET t == IF par.scheme = "BGV" THEN PlainModulus ELSE 1
      switches == IF par.made \in {"relinearize", "relinearize_inplace"} THEN Len(ct.polys) - 2 ELSE 1
      fromKeys == (2 * t * ct.lvl * FoldLeft(LAMBDA a, b : IF a > b THEN a ELSE b, 0, SubSeq(KeyModulus, 1, ct.lvl))) \div P
  IN  switches * (fromKeys + 3 * t + 1)

PhaseKept(b) ==
  \A x \in 1 .. 2 : LET err == Error(dst[b], cts[b], x)
                    IN  /\ err <= ErrorBound(cts[b]) /\ -err <= ErrorBound(cts[b])
                        /\ par.scheme = "BGV" => err % PlainModulus = 0

(* A finished call leaves two polynomials that decrypt, under the secret   *)
(* key, to what the operand meant, up to the switching error; for BGV the  *)
(* error is a multiple of the plain modulus, or the message would change.  *)
(* It is about every residue: the digits, the shared loop over the primes  *)
(* and the division by the special prime must agree on the prime they use, *)
(* on the host and in the kernels, alone and in a batch.                   *)
SwitchKeepsPhase ==
  caller = "done" => \A b \in 1 .. Len(dst) : Len(dst[b].polys) = 2 /\ PhaseKept(b)

(* The host's lazy accumulation and the kernels' eager one give the same   *)
(* residues, for every switch the calls make.                              *)
HostAgrees ==
  prod # << >> => \A x \in 1 .. Len(prod) : prod[x] = Products(Head(jobs)[x], ~par.device)

TypeOK ==
  /\ caller \in {"none", "done", "apply_keyswitching", "apply_keyswitching_inplace", "relinearize",
             "relinearize_inplace", "apply_galois"}
  /\ \A g \in 1 .. Len(jobs) : \A x \in 1 .. Len(jobs[g]) : jobs[g][x].method \in Methods
  /\ \A b \in 1 .. Len(dst) : \A i \in 1 .. Len(dst[b].polys) : \A j \in 1 .. dst[b].lvl :
       \A x \in 1 .. 2 : dst[b].polys[i][j][x] \in 0 .. KeyModulus[j] - 1
=============================================================================

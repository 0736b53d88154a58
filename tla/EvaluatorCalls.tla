---------------------------- MODULE EvaluatorCalls ----------------------------
(***************************************************************************)
(* A program that calls the evaluator: three ciphertexts and a plaintext,  *)
(* and the message each should hold.  A call writes its destination even   *)
(* when it throws after having prepared it; the in-place forms work on a   *)
(* temporary and keep the operand then.  failed holds the destinations a   *)
(* call has thrown on: the program does not use them before it has written *)
(* them again.                                                             *)
(***************************************************************************)
EXTENDS Evaluator

(* The operations on plaintexts, and on a ciphertext and a plaintext.  A   *)
(* plaintext of level 0 is modulo t; one of level l is modulo the first l  *)
(* primes, either centralized, to be multiplied by, or scaled up by Delta, *)
(* to be added.                                                            *)

NoPlaintext == [lvl |-> 0, ntt |-> FALSE, dat |-> 0, scale |-> 0, val |-> 0]

(* From modulo t to modulo the primes. *)
bfv_centralize(p, l, d) ==
  IF p.ntt \/ p.lvl # 0 \/ l = 0 THEN Threw(d) ELSE Done([p EXCEPT !.lvl = l])
bfv_scale_up(p, l, d) ==
  IF p.ntt \/ p.lvl # 0 \/ l = 0 THEN Threw(d)
  ELSE Done([p EXCEPT !.lvl = l, !.val = (p.val * Delta(l)) % T])

(* The form with a destination resizes it before it compares the levels. *)
transform_plain_to_ntt(p, l, d) ==
  IF p.ntt \/ l = 0 THEN Threw(d)
  ELSE IF p.lvl \notin {0, l} THEN Threw([p EXCEPT !.lvl = l, !.dat = Garbage])
  ELSE Done([p EXCEPT !.lvl = l, !.ntt = TRUE, !.dat = @ + 1])
transform_plain_to_ntt_inplace(p, l) ==
  IF p.ntt \/ l = 0 \/ p.lvl \notin {0, l} THEN Threw(p)
  ELSE Done([p EXCEPT !.lvl = l, !.ntt = TRUE, !.dat = @ + 1,
                      !.scale = IF p.lvl = 0 THEN 0 ELSE p.scale])
transform_plain_from_ntt(p, d) ==
  IF ~p.ntt \/ p.lvl = 0 THEN Threw(d)
  ELSE Done([p EXCEPT !.ntt = FALSE, !.dat = @ - 1])

mod_switch_plain_to(p, l, d) ==
  IF ~p.ntt \/ p.lvl = 0 \/ l = 0 \/ p.lvl < l THEN Threw(d)
  ELSE IF p.lvl = l THEN Done(p)
  ELSE IF p.lvl = 1 \/ ~is_scale_within_bounds(p.scale, l) THEN Threw(d)
  ELSE Done([p EXCEPT !.lvl = l])

mod_switch_plain_to_next(p, d) ==
  IF p.lvl <= 1 \/ ~p.ntt \/ ~is_scale_within_bounds(p.scale, p.lvl - 1) THEN Threw(d)
  ELSE Done([p EXCEPT !.lvl = @ - 1])

(* Adding a plaintext to a ciphertext.  A plaintext modulo t is scaled up  *)
(* on the way (BFV) or brought under the ciphertext's correction factor    *)
(* (BGV); one modulo the primes is added as it is.                         *)
TranslatePlainRefuses(e, p) ==
  \/ contains_seed(e) \/ e.lvl = 0
  \/ CASE scheme = "BFV"  -> e.ntt # p.ntt \/ (p.lvl = 0 /\ e.ntt)
       [] scheme = "CKKS" -> ~e.ntt \/ p.scale # e.scale \/ ~p.ntt
       [] scheme = "BGV"  -> ~e.ntt \/ p.ntt

(* A plaintext of fewer primes is read past its end: CKKS addition  *)
(* and all but the single product in the NTT domain compare no levels.     *)
PlainForm(e, p) == IF p.lvl = 0 \/ p.lvl >= e.lvl THEN p.dat ELSE Garbage

Addend(e, p) ==   \* its residue and its form
  CASE scheme = "BFV" -> <<IF p.lvl = 0 THEN p.val * Delta(e.lvl) ELSE p.val, p.dat>>
    [] scheme = "CKKS" -> <<p.val, PlainForm(e, p)>>
    [] scheme = "BGV" -> <<p.val * e.cf, p.dat + 1>>

translate_plain(e, p, d, sub) ==
  IF TranslatePlainRefuses(e, p) THEN Threw(d)
  ELSE IF scheme # "CKKS" /\ p.lvl \notin {0, e.lvl}
  THEN Threw([like(e, e.polys) EXCEPT !.dat = Garbage])
  ELSE LET a == Addend(e, p)
           x == IF sub THEN (T - 1) * a[1] ELSE a[1]
       IN  Done([like(e, [e.polys EXCEPT ![1] = (@ + x) % T])
                   EXCEPT !.dat = SameForm(e.dat, a[2])])
translate_plain_inplace(e, p, sub) ==
  LET r == translate_plain(e, p, e, sub) IN IF r.err THEN Threw(e) ELSE r

(* Multiplying by a plaintext.  The normal form transforms both operands   *)
(* and transforms the product back.                                        *)
Scaled(e, p, r) ==   \* the CKKS scale, and its check, come last
  IF scheme # "CKKS" THEN Done(r)
  ELSE [err |-> ~is_scale_within_bounds(e.scale + p.scale, e.lvl),
        ct  |-> [r EXCEPT !.scale = e.scale + p.scale]]
ProductPolys(e, p) == [i \in DOMAIN e.polys |-> (e.polys[i] * p.val) % T]

multiply_plain_normal(e, p, d) ==
  IF contains_seed(e) \/ e.lvl = 0 THEN Threw(d)
  ELSE Scaled(e, p, [like(e, ProductPolys(e, p))
                       EXCEPT !.dat = DyadicForm(e.dat + 1, PlainForm(e, p) + 1) - 1])
multiply_plain_ntt(e, p, d) ==
  IF contains_seed(e) \/ e.lvl # p.lvl \/ e.lvl = 0 THEN Threw(d)
  ELSE Scaled(e, p, [like(e, ProductPolys(e, p)) EXCEPT !.dat = DyadicForm(e.dat, p.dat)])

multiply_plain(e, p, d) ==
  IF e.ntt /\ p.ntt THEN multiply_plain_ntt(e, p, d)
  ELSE IF ~e.ntt /\ ~p.ntt THEN multiply_plain_normal(e, p, d)
  ELSE IF e.ntt
  THEN LET q == transform_plain_to_ntt(p, e.lvl, NoPlaintext)
       IN  IF q.err THEN Threw(d) ELSE multiply_plain_ntt(e, q.ct, d)
  ELSE LET f == transform_to_ntt(e, NoCiphertext)
           r == multiply_plain_ntt(f.ct, p, d)
       IN  IF f.err THEN Threw(d) ELSE IF r.err THEN r ELSE transform_from_ntt(r.ct, r.ct)

(* The batched form prepares every destination like the first ciphertext   *)
(* (in the NTT domain; like its own ciphertext otherwise) and does not     *)
(* compare the plaintexts' level with the ciphertexts'.                    *)
multiply_plain_ntt_batched(es, ps, ds) ==
  IF ~SameHeader(es) \/ es[1].lvl = 0 \/ \E i \in DOMAIN es : contains_seed(es[i])
  THEN [i \in DOMAIN es |-> Threw(ds[i])]
  ELSE [i \in DOMAIN es |->
          Scaled(es[i], ps[i], [like(es[1], ProductPolys(es[i], ps[i]))
                                  EXCEPT !.dat = DyadicForm(es[i].dat, PlainForm(es[i], ps[i]))])]

multiply_plain_batched(es, ps, ds) ==
  IF \E i, j \in DOMAIN es : es[i].ntt # es[j].ntt \/ ps[i].ntt # ps[j].ntt
  THEN [i \in DOMAIN es |-> Threw(ds[i])]
  ELSE LET f == [i \in DOMAIN es |-> IF es[i].ntt THEN Done(es[i]) ELSE transform_to_ntt(es[i], NoCiphertext)]
           q == [i \in DOMAIN es |->
                   IF ps[i].ntt THEN Done(ps[i]) ELSE transform_plain_to_ntt(ps[i], es[1].lvl, NoPlaintext)]
           fs == [i \in DOMAIN es |-> f[i].ct]
           r == multiply_plain_ntt_batched(fs, [i \in DOMAIN es |-> q[i].ct], ds)
       IN  IF ~es[1].ntt /\ ~ps[1].ntt
           THEN IF ~SameHeader(es) THEN [i \in DOMAIN es |-> Threw(ds[i])]
                ELSE [i \in DOMAIN es |-> multiply_plain_normal(es[i], ps[i], ds[i])]
           ELSE IF \E i \in DOMAIN es : f[i].err \/ q[i].err THEN [i \in DOMAIN es |-> Threw(ds[i])]
           ELSE IF es[1].ntt \/ r[1].err THEN r
           ELSE [i \in DOMAIN es |-> transform_from_ntt(r[i].ct, r[i].ct)]

(* Accumulation: every product is added into its destination, and several  *)
(* may share one.  The transform back goes over the list of destinations.  *)
AccumulateInto(d, e, p) ==
  [d EXCEPT !.polys = [i \in DOMAIN d.polys |-> (@[i] + e.polys[i] * p.val) % T],
            !.dat = IF DyadicForm(e.dat, PlainForm(e, p)) = 1 THEN SameForm(@, 1) ELSE Garbage,
            !.scale = IF scheme = "CKKS" THEN e.scale + p.scale ELSE @]
(* Two products accumulated into one destination d. *)
multiply_plain_accumulate(es, ps, d, set_zero) ==
  IF \/ \E i, j \in DOMAIN es : es[i].ntt # es[j].ntt \/ ps[i].ntt # ps[j].ntt
     \/ ~SameHeader(es) \/ es[1].lvl = 0 \/ \E i \in DOMAIN es : contains_seed(es[i])
  THEN Threw(d)
  ELSE LET ntt == es[1].ntt \/ ps[1].ntt    \* the domain the products are taken in
           f(i) == IF ntt /\ ~es[i].ntt THEN [es[i] EXCEPT !.ntt = TRUE, !.dat = @ + 1] ELSE es[i]
           q(i) == IF ntt /\ ~ps[i].ntt THEN transform_plain_to_ntt(ps[i], es[1].lvl, NoPlaintext)
                   ELSE Done(ps[i])
           last == Len(es)
           zero == [like(f(last), [i \in DOMAIN es[1].polys |-> 0]) EXCEPT !.dat = IF ntt THEN 1 ELSE 0]
           d0 == IF set_zero THEN zero ELSE d
           acc[i \in 0 .. last] ==
             IF i = 0 THEN d0
             ELSE LET a == acc[i - 1]
                  IN  IF ntt THEN AccumulateInto(a, f(i), q(i).ct)
                      ELSE LET m == multiply_plain_normal(es[i], ps[i], NoCiphertext).ct
                           IN  translate([a EXCEPT !.scale = m.scale], m, NoCiphertext, FALSE).ct
           back == [acc[last] EXCEPT !.ntt = FALSE, !.dat = @ - last]
       IN  IF \/ \E i \in DOMAIN es : q(i).err
              \/ ~set_zero /\ (d.lvl # es[1].lvl \/ d.ntt # f(1).ntt)
           THEN Threw(d)
           ELSE [err |-> scheme = "CKKS" /\ ~is_scale_within_bounds(acc[last].scale, es[1].lvl),
                 ct  |-> IF ~es[1].ntt /\ ps[1].ntt THEN back ELSE acc[last]]

-----------------------------------------------------------------------------
(* The program. *)
CONSTANTS
  Messages,    \* the messages encrypted and encoded
  Mask,        \* the second polynomial of a fresh ciphertext
  FreshScale,  \* the scale of fresh CKKS ciphertexts and plaintexts
  MaxCalls     \* a bound on the length of the program

(* Messages are modulo t and a fresh ciphertext's scale has room. *)
ASSUME ProgramConstants ==
  /\ Messages \subseteq 0 .. T - 1 /\ Mask \in 0 .. T - 1
  /\ Top >= 1 /\ FreshScale \in Nat /\ FreshScale < total_bits(Top)

MCQBits == <<5, 3, 4>>   \* a chain of three primes, whose bit lengths differ

VARIABLES reg, msg, failed, pl, plmsg, kind, calls
vars == <<scheme, reg, msg, failed, pl, plmsg, kind, calls>>
plvars == <<pl, plmsg, kind>>

Regs == 1 .. 3

(* A ciphertext encrypted with its seed kept holds c1 all the same, but    *)
(* outside the NTT domain (BFV) c1 is still in it: here 0 stands for that. *)
Fresh(m, seeded) ==
  LET c == [NoCiphertext EXCEPT !.lvl = Top, !.ntt = scheme # "BFV",
                                !.dat = IF scheme = "BFV" THEN 0 ELSE 1,
                                !.scale = IF scheme = "CKKS" THEN FreshScale ELSE 0]
      c0 == (m * Factor(c) + (T - 1) * Mask * Secret) % T
  IN  IF seeded THEN [c EXCEPT !.polys = <<c0, IF c.ntt THEN Mask ELSE 0>>, !.seed = Mask + 1]
      ELSE [c EXCEPT !.polys = <<c0, Mask>>]
Encoded(m, l) ==
  IF scheme = "CKKS"
  THEN [lvl |-> l, ntt |-> TRUE, dat |-> 1, scale |-> FreshScale, val |-> (m * Pow2(FreshScale)) % T]
  ELSE [NoPlaintext EXCEPT !.val = m]

Init ==
  /\ scheme \in {"BFV", "CKKS", "BGV"}
  /\ \E m1, m2 \in Messages, seeded \in BOOLEAN :
       /\ m1 < m2   \* different, to tell them apart
       /\ reg = <<Fresh(m1, FALSE), Fresh(m2, seeded), NoCiphertext>>
       /\ msg = <<m1, m2, 0>>
       /\ pl = Encoded(m2, Top) /\ plmsg = m2   \* Encode makes others
  /\ failed = {}
  /\ kind = IF scheme = "CKKS" THEN "scaled" ELSE "modt"
  /\ calls = 0

Call == calls < MaxCalls /\ calls' = calls + 1 /\ UNCHANGED scheme
Usable(s) == s \notin failed

(* A call with a destination, and one in place. *)
Into(r, res, m) ==
  /\ reg' = [reg EXCEPT ![r] = res.ct]
  /\ msg' = [msg EXCEPT ![r] = IF res.ct = reg[r] THEN @ ELSE m]
  /\ failed' = IF res.err /\ res.ct # reg[r] THEN failed \cup {r} ELSE
               IF res.err THEN failed ELSE failed \ {r}
  /\ UNCHANGED plvars
InPlace(r, res, m) ==
  /\ reg' = IF res.err THEN reg ELSE [reg EXCEPT ![r] = res.ct]
  /\ msg' = IF res.err THEN msg ELSE [msg EXCEPT ![r] = m]
  /\ UNCHANGED <<failed, plvars>>

Minus(m) == (T - m) % T
Plus(a, b, sub) == (a + (IF sub THEN T - b ELSE b)) % T

ExpandSeed(r) ==
  /\ Call /\ Usable(r) /\ contains_seed(reg[r])
  /\ InPlace(r, Done(expand_seed(reg[r])), msg[r])

Negate(r, s) ==
  /\ Call /\ Usable(s)
  /\ IF r = s THEN InPlace(r, negate(reg[s], NoCiphertext), Minus(msg[s]))
     ELSE Into(r, negate(reg[s], reg[r]), Minus(msg[s]))

AddSub(r, s1, s2, sub) ==
  /\ Call /\ Usable(s1) /\ Usable(s2) /\ r # s2
  /\ IF r = s1
     THEN InPlace(r, translate_inplace(reg[s1], reg[s2], sub), Plus(msg[s1], msg[s2], sub))
     ELSE Into(r, translate(reg[s1], reg[s2], reg[r], sub), Plus(msg[s1], msg[s2], sub))

AddSubBatched(r, s1, s2, sub) ==   \* lists of one ciphertext
  /\ Call /\ Usable(s1) /\ Usable(s2) /\ r \notin {s1, s2}
  /\ LET res == translate_batched(<<reg[s1]>>, <<reg[s2]>>, <<reg[r]>>, sub)[1]
     IN  Into(r, res, Plus(msg[s1], msg[s2], sub))

Multiply(r, s1, s2) ==
  /\ Call /\ Usable(s1) /\ Usable(s2) /\ r # s2
  /\ LET m == (msg[s1] * msg[s2]) % T
     IN  IF r = s1 THEN InPlace(r, multiply(reg[s1], reg[s2], NoCiphertext), m)
         ELSE Into(r, multiply(reg[s1], reg[s2], reg[r]), m)

Square(r, s) ==
  /\ Call /\ Usable(s)
  /\ LET m == (msg[s] * msg[s]) % T
     IN  IF r = s THEN InPlace(r, square(reg[s], NoCiphertext), m)
         ELSE Into(r, square(reg[s], reg[r]), m)

(* A ciphertext of two polynomials given to the form with a destination    *)
(* leaves it as it was, and the _new form returns an empty ciphertext: the *)
(* program relinearizes what a product gave it, BGV in NTT form.           *)
Relinearize(r, s) ==
  /\ Call /\ Usable(s)
  /\ scheme = "BGV" => reg[s].ntt
  /\ IF r = s THEN InPlace(r, relinearize_inplace_internal(reg[s]), msg[s])
     ELSE /\ Len(reg[s].polys) # 2
          /\ Into(r, relinearize_internal(reg[s], reg[r]), msg[s])

ModSwitchToNext(r, s) ==
  /\ Call /\ Usable(s)
  /\ IF r = s THEN InPlace(r, mod_switch_to_next(reg[s], NoCiphertext), msg[s])
     ELSE Into(r, mod_switch_to_next(reg[s], reg[r]), msg[s])

ModSwitchTo(r, s, l) ==
  /\ Call /\ Usable(s)
  /\ IF r = s THEN InPlace(r, mod_switch_to(reg[s], l, NoCiphertext), msg[s])
     ELSE Into(r, mod_switch_to(reg[s], l, reg[r]), msg[s])

RescaleToNext(r, s) ==
  /\ Call /\ Usable(s)
  /\ IF r = s THEN InPlace(r, rescale_to_next(reg[s], NoCiphertext), msg[s])
     ELSE Into(r, rescale_to_next(reg[s], reg[r]), msg[s])

TransformCiphertext(r, s) ==
  /\ Call /\ Usable(s)
  /\ \E op \in {"to", "from"} :
       LET Op(e, d) == IF op = "to" THEN transform_to_ntt(e, d) ELSE transform_from_ntt(e, d)
       IN  IF r = s THEN InPlace(r, Op(reg[s], NoCiphertext), msg[s])
           ELSE Into(r, Op(reg[s], reg[r]), msg[s])

(* Plaintexts. *)
Encode ==
  /\ Call
  /\ \E m \in Messages, l \in 1 .. Top :
       /\ pl' = Encoded(m, l) /\ plmsg' = m
       /\ kind' = IF scheme = "CKKS" THEN "scaled" ELSE "modt"
  /\ UNCHANGED <<reg, msg, failed>>

PlainCall(res, k) ==
  /\ pl' = IF res.err THEN pl ELSE res.ct
  /\ kind' = IF res.err THEN kind ELSE k
  /\ UNCHANGED <<reg, msg, failed, plmsg>>

Centralize(l) == Call /\ scheme = "BFV" /\ PlainCall(bfv_centralize(pl, l, NoPlaintext), "central")
ScaleUp(l) == Call /\ scheme = "BFV" /\ PlainCall(bfv_scale_up(pl, l, NoPlaintext), "scaled")
TransformPlain(l) ==
  /\ Call
  /\ LET k == IF kind = "modt" THEN "central" ELSE kind
     IN  \/ PlainCall(transform_plain_to_ntt(pl, l, NoPlaintext), k)
         \/ PlainCall(transform_plain_to_ntt_inplace(pl, l), k)
         \/ PlainCall(transform_plain_from_ntt(pl, NoPlaintext), kind)
ModSwitchPlain(l) ==   \* a scaled plaintext is scaled for its own level
  /\ Call /\ (kind = "scaled" => scheme = "CKKS" \/ l = pl.lvl)
  /\ PlainCall(mod_switch_plain_to(pl, l, NoPlaintext), kind)
ModSwitchPlainToNext ==
  /\ Call /\ (kind = "scaled" => scheme = "CKKS")
  /\ PlainCall(mod_switch_plain_to_next(pl, NoPlaintext), kind)

(* A plaintext modulo the primes that is to be added is a scaled one, and  *)
(* one that is to be multiplied is not (evaluator_transform_ntt.cu:21-34); *)
(* in CKKS either may be, and its level is the ciphertext's.               *)
Addable(e) == (kind = "modt" \/ kind = "scaled") /\ (scheme = "CKKS" => pl.lvl = e.lvl)
Multiplier(e) == /\ kind = "scaled" => scheme = "CKKS"
                 /\ pl.lvl = 0 \/ pl.lvl = e.lvl

AddSubPlain(r, s, sub) ==
  /\ Call /\ Usable(s) /\ Addable(reg[s])
  /\ LET m == Plus(msg[s], plmsg, sub)
     IN  IF r = s THEN InPlace(r, translate_plain_inplace(reg[s], pl, sub), m)
         ELSE Into(r, translate_plain(reg[s], pl, reg[r], sub), m)

MultiplyPlain(r, s) ==
  /\ Call /\ Usable(s) /\ Multiplier(reg[s])
  /\ LET m == (msg[s] * plmsg) % T
     IN  IF r = s THEN InPlace(r, multiply_plain(reg[s], pl, NoCiphertext), m)
         ELSE Into(r, multiply_plain(reg[s], pl, reg[r]), m)

(* The first two ciphertexts as a batch, in place. *)
Batch == <<reg[1], reg[2]>>
BatchInPlace(res, m1, m2) ==
  LET bad == res[1].err \/ res[2].err
  IN  /\ reg' = IF bad THEN reg ELSE <<res[1].ct, res[2].ct, reg[3]>>
      /\ msg' = IF bad THEN msg ELSE <<m1, m2, msg[3]>>
      /\ UNCHANGED <<failed, plvars>>
NegateBatched ==
  /\ Call /\ Usable(1) /\ Usable(2)
  /\ BatchInPlace(negate_inplace_batched(Batch), Minus(msg[1]), Minus(msg[2]))
AddSubInPlaceBatched(sub) ==   \* the third ciphertext is added to the first two
  /\ Call /\ \A r \in Regs : Usable(r)
  /\ BatchInPlace(translate_inplace_batched(Batch, <<reg[3], reg[3]>>, sub),
                  Plus(msg[1], msg[3], sub), Plus(msg[2], msg[3], sub))
ModSwitchToBatched(l) ==
  /\ Call /\ Usable(1) /\ Usable(2)
  /\ BatchInPlace(mod_switch_to_inplace_batched(Batch, l), msg[1], msg[2])
TransformBatched(to) ==
  /\ Call /\ Usable(1) /\ Usable(2)
  /\ BatchInPlace(transform_inplace_batched(Batch, to), msg[1], msg[2])
MultiplyPlainBatched ==
  /\ Call /\ Usable(1) /\ Usable(2)
  /\ Multiplier(reg[1]) /\ Multiplier(reg[2]) /\ SameFactor(Batch)
  /\ BatchInPlace(multiply_plain_batched(Batch, <<pl, pl>>, <<NoCiphertext, NoCiphertext>>),
                  (msg[1] * plmsg) % T, (msg[2] * plmsg) % T)

(* Both products accumulated into the third ciphertext.  Products taken in the  *)
(* other domain are transformed back once per product, also when they make one  *)
(* destination; the program does not ask for that.                              *)
MultiplyPlainAccumulate(set_zero) ==
  /\ Call /\ \A r \in (IF set_zero THEN {1, 2} ELSE Regs) : Usable(r)
  /\ Multiplier(reg[1]) /\ Multiplier(reg[2]) /\ SameFactor(Batch)
  /\ reg[1].ntt \/ ~pl.ntt
  /\ ~set_zero => /\ SameFactor(<<reg[1], reg[3]>>) /\ Len(reg[3].polys) = Len(reg[1].polys)
                  /\ reg[3].scale = reg[1].scale + pl.scale
  /\ LET m == ((IF set_zero THEN 0 ELSE msg[3]) + (msg[1] + msg[2]) * plmsg) % T
     IN  Into(3, multiply_plain_accumulate(Batch, <<pl, pl>>, reg[3], set_zero), m)

Next ==
  \/ \E r \in Regs : ExpandSeed(r)
  \/ \E r, s \in Regs : \/ Negate(r, s) \/ Square(r, s) \/ Relinearize(r, s)
                        \/ ModSwitchToNext(r, s) \/ RescaleToNext(r, s) \/ TransformCiphertext(r, s)
                        \/ MultiplyPlain(r, s)
  \/ \E r, s1, s2 \in Regs : Multiply(r, s1, s2)
  \/ \E r, s1, s2 \in Regs, sub \in BOOLEAN : AddSub(r, s1, s2, sub) \/ AddSubBatched(r, s1, s2, sub)
  \/ \E r, s \in Regs, l \in 1 .. Top : ModSwitchTo(r, s, l)
  \/ \E r, s \in Regs, sub \in BOOLEAN : AddSubPlain(r, s, sub)
  \/ Encode
  \/ \E l \in 1 .. Top : Centralize(l) \/ ScaleUp(l) \/ TransformPlain(l) \/ ModSwitchPlain(l)
  \/ ModSwitchPlainToNext \/ NegateBatched \/ MultiplyPlainBatched
  \/ \E b \in BOOLEAN : AddSubInPlaceBatched(b) \/ TransformBatched(b)
  \/ \E l \in 1 .. Top : ModSwitchToBatched(l)
  \/ \E set_zero \in BOOLEAN : MultiplyPlainAccumulate(set_zero)

Spec == Init /\ [][Next]_vars

Live == {r \in Regs : r \notin failed /\ reg[r].lvl # 0}

(* Whatever the program computed, a ciphertext decrypts, under the scale   *)
(* or correction factor in its header, to the message the same operations  *)
(* give on the plain values.                                               *)
DecryptsToMessage ==
  \A r \in Live : ~contains_seed(reg[r]) => Message(reg[r]) = msg[r]

(* The form flag of a ciphertext or plaintext tells the truth about its    *)
(* data, across the mixed products and the transforms.                     *)
FormsTrue ==
  /\ \A r \in Live : reg[r].dat = IF reg[r].ntt THEN 1 ELSE 0
  /\ pl.dat = IF pl.ntt THEN 1 ELSE 0

(* A CKKS ciphertext a call returned has a scale its level has room for:   *)
(* rescaling checks nothing and relies on the product's check before it.   *)
ScaleHasRoom ==
  \A r \in Live : scheme = "CKKS" => is_scale_within_bounds(reg[r].scale, reg[r].lvl)

(* The header fields a scheme does not use keep their neutral value, also  *)
(* where modulus switching leaves what the destination had.                *)
UnusedFieldsNeutral ==
  \A r \in Live : /\ scheme # "CKKS" => reg[r].scale = 0
                  /\ scheme # "BGV" => reg[r].cf = 1

(* The header of a ciphertext is true of it: its form, its scale and the   *)
(* fields its scheme does not use.                                         *)
HeadersTrue == FormsTrue /\ UnusedFieldsNeutral /\ ScaleHasRoom
=============================================================================

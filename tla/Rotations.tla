------------------------------- MODULE Rotations -------------------------------
(***************************************************************************)
(* Rotations, conjugations and automorphisms of ciphertexts (Evaluator's   *)
(* rotate_*, complex_conjugate, apply_galois and their wrappers).  What    *)
(* key switching adds is left to KeySwitch: a ciphertext is the polynomial *)
(* it hides, modulo every prime, in either form.  A rotation without a key *)
(* of its own is made of rotations by the signed powers of two of its      *)
(* non-adjacent form, one after another.                                   *)
(*                                                                         *)
(* The maps X -> X^g themselves (utils/galois) come first: on              *)
(* coefficients, where a coefficient moves and may change its sign, and on *)
(* values in the order the NTT leaves them, where a table permutes them.   *)
(* A buffer holds pcount polynomials, each modulo every prime.             *)
(***************************************************************************)
EXTENDS Ntt

CONSTANTS
  LogN,            \* coeff_count_power
  Primes,          \* the coefficient modulus
  StepLists,       \* keys made for lists of steps
  Calls,           \* calls: records of op, steps or element, scheme, form, ...
  KERNEL_THREAD_COUNT

VARIABLES keys,    \* the elements the Galois keys are for
          call,    \* the call under way
          encrypted, destination,   \* one entry per ciphertext of the batch
          todo,    \* signed powers of two still to rotate by
          phase
vars == <<keys, call, encrypted, destination, todo, phase>>

GALOIS_GENERATOR == 3
None == << >>   \* an exception, or an empty ciphertext

generate_table_ntt(ld, g) ==
  LET n == 2 ^ ld
      raw(i) == Low((g * reverse_bits_uint64(i + n, ld + 1)) \div 2, ld)
  IN  [i \in 0 .. n - 1 |-> reverse_bits_uint64(raw(i), ld)]

PowerOf(g, e, m) ==
  LET p[i \in 0 .. e] == IF i = 0 THEN 1 ELSE LET prev == p[i - 1] IN (prev * g) % m IN p[e]

get_element_from_step(ld, step) ==
  LET n     == 2 ^ ld
      size  == IF step < 0 THEN -step ELSE step
      steps == IF step < 0 THEN n \div 2 - size ELSE size
  IN  IF step = 0 THEN <<2 * n - 1>>
      ELSE IF size >= n \div 2 THEN None
      ELSE <<PowerOf(GALOIS_GENERATOR, steps, 2 * n)>>

get_elements_all(ld) ==
  LET m == 2 ^ (ld + 1)
  IN  {m - 1} \cup {PowerOf(g, 2 ^ i, m) : i \in 0 .. ld - 2,
                                          g \in {GALOIS_GENERATOR, try_invert_uint64_mod(GALOIS_GENERATOR, m)}}

get_index_from_element(g) == (g - 1) \div 2

-----------------------------------------------------------------------------
(* The host's loops, by place; ms are the moduli, short buffers read 0.    *)
Cells(ld, pcount, ms) == 0 .. 2 ^ ld * pcount * Len(ms) - 1
PrimeOf(ld, ms, cell) == ms[((cell \div 2 ^ ld) % Len(ms)) + 1]
Read(polys, cell) == IF cell \in DOMAIN polys THEN polys[cell] ELSE 0

Moved(ld, g, ms, polys, cell) ==   \* what one turn of the loop, or one thread, writes
  LET n   == 2 ^ ld
      raw == (cell % n) * g
      x   == Read(polys, cell)
  IN  [at    |-> (cell \div n) * n + Low(raw, ld),
       value |-> IF Low(Shr(raw, ld), 1) > 0 THEN negate_uint64_mod(x, PrimeOf(ld, ms, cell)) ELSE x]

Written(cells, writes) ==
  [c \in cells |-> (CHOOSE w \in writes : w.at = c).value]

host_apply_ps(ld, polys, pcount, g, ms) ==
  Written(Cells(ld, pcount, ms), {Moved(ld, g, ms, polys, c) : c \in Cells(ld, pcount, ms)})

(* A kernel has whole blocks; the threads past the end return at once.     *)
kernel_apply_ps(ld, polys, pcount, g, ms, block) ==
  LET total   == 2 ^ ld * pcount * Len(ms)
      threads == 0 .. ((total + block - 1) \div block) * block - 1
  IN  Written(Cells(ld, pcount, ms), {Moved(ld, g, ms, polys, c) : c \in {t \in threads : t < total}})

host_apply_ntt_ps(ld, polys, pcount, primes, table) ==
  [c \in 0 .. 2 ^ ld * pcount * primes - 1 |-> polys[(c \div 2 ^ ld) * 2 ^ ld + table[c % 2 ^ ld]]]

-----------------------------------------------------------------------------
N == 2 ^ LogN
Moduli == [i \in 1 .. Len(Primes) |-> Modulus(Primes[i])]
Tables == [i \in 1 .. Len(Primes) |-> NTTTables(LogN, Primes[i])]
Rows(buffer) == [i \in 1 .. Len(Primes) |-> [x \in 0 .. N - 1 |-> buffer[(i - 1) * N + x]]]
Flat(rows) == [c \in 0 .. N * Len(Primes) - 1 |-> rows[(c \div N) + 1][c % N]]
ToNtt(buffer) ==
  LET rows == Rows(buffer) IN Flat([i \in 1 .. Len(Primes) |-> host_ntt(rows[i], LogN, Tables[i])])
Message(b) == [c \in 0 .. N * Len(Primes) - 1 |-> (((c + 5) % N) * (b + 2)) % Primes[(c \div N) + 1]]
Messages == [b \in 1 .. 2 |-> Message(b)]
NttMessages == [b \in 1 .. 2 |-> ToNtt(Message(b))]
Fresh(b, ntt) == IF ntt THEN NttMessages[b] ELSE Messages[b]

Rotating == {"rotate_rows", "rotate_vector"}
Conjugating == {"rotate_columns", "complex_conjugate"}
SchemeFits(name, scheme) ==
  /\ name \in {"rotate_rows", "rotate_columns"} => scheme \in {"BFV", "BGV"}
  /\ name \in {"rotate_vector", "complex_conjugate"} => scheme = "CKKS"

(* KeyGenerator::create_galois_keys, create_galois_keys_from_steps and     *)
(* create_automorphism_keys.                                               *)
create_galois_keys == get_elements_all(LogN)
create_galois_keys_from_steps(steps) == {get_element_from_step(LogN, s)[1] : s \in steps}
create_automorphism_keys == {2 ^ k + 1 : k \in 1 .. LogN}
KeySets == {create_galois_keys, create_automorphism_keys}
             \cup {create_galois_keys_from_steps(l) : l \in StepLists}

---------------------------------------------------------------------------
(* GaloisTool::apply_ps, apply_ntt_ps and their batched forms, on one      *)
(* polynomial of a ciphertext.                                             *)
Permuted(x, g) ==
  IF call.ntt THEN host_apply_ntt_ps(LogN, x, 1, Len(Primes), generate_table_ntt(LogN, g))
  ELSE IF call.device
  THEN kernel_apply_ps(LogN, x, 1, g, Moduli, KERNEL_THREAD_COUNT)
  ELSE host_apply_ps(LogN, x, 1, g, Moduli)
apply_galois(from, g) == [b \in 1 .. Len(from) |-> Permuted(from[b], g)]
GaloisAllowed(g) == g \in keys /\ g % 2 = 1 /\ g <= 2 * N

Throw == phase' = "thrown" /\ UNCHANGED <<keys, call, encrypted, destination, todo>>
ApplyTo(from, g) ==
  IF GaloisAllowed(g)
  THEN destination' = apply_galois(from, g) /\ UNCHANGED <<keys, call, encrypted>>
  ELSE FALSE

Init ==
  /\ keys \in KeySets /\ phase = "called" /\ todo = << >>
  /\ call \in Calls
  /\ encrypted = [b \in 1 .. call.batch |-> Fresh(b, call.ntt)]
  /\ destination = [b \in 1 .. call.batch |-> None]

(* rotate_internal with the steps of the caller. *)
Rotate ==
  /\ phase = "called" /\ call.op \in Rotating
  /\ LET g   == get_element_from_step(LogN, call.steps)
         terms == naf(call.steps)
     IN  IF ~SchemeFits(call.op, call.scheme) \/ ~call.batching THEN Throw
         ELSE IF call.steps = 0
         THEN phase' = "returning" /\ UNCHANGED <<keys, call, encrypted, destination, todo>>
         ELSE IF g = None THEN Throw
         ELSE IF g[1] \in keys
         THEN ApplyTo(encrypted, g[1]) /\ phase' = "returning" /\ UNCHANGED todo
         ELSE IF Len(terms) = 1 THEN Throw
         ELSE phase' = "first" /\ todo' = terms /\ UNCHANGED <<keys, call, encrypted, destination>>

MutantTermSource == encrypted   \* every term starts from the operand
TermSource == IF phase = "first" THEN encrypted ELSE destination

(* rotate_internal with one term of the non-adjacent form: its own form is *)
(* that one term, so a missing key is an exception.                        *)
RotateTerm ==
  /\ phase \in {"first", "next"}
  /\ LET g == get_element_from_step(LogN, Head(todo))
     IN  IF g = None \/ g[1] \notin keys THEN Throw
         ELSE /\ ApplyTo(TermSource, g[1])
              /\ todo' = Tail(todo)
              /\ phase' = IF Tail(todo) = << >> THEN "returning" ELSE "next"

Conjugate ==
  /\ phase = "called" /\ call.op \in Conjugating
  /\ LET g == get_element_from_step(LogN, 0)[1]
     IN  IF ~SchemeFits(call.op, call.scheme) \/ ~call.batching \/ ~GaloisAllowed(g) THEN Throw
         ELSE ApplyTo(encrypted, g) /\ phase' = "returning" /\ UNCHANGED todo

ApplyGalois ==
  /\ phase = "called" /\ call.op = "apply_galois"
  /\ IF ~GaloisAllowed(call.element) THEN Throw
     ELSE ApplyTo(encrypted, call.element) /\ phase' = "returning" /\ UNCHANGED todo

(* apply_galois_plain: no key is needed. *)
ApplyGaloisPlain ==
  /\ phase = "called" /\ call.op = "apply_galois_plain"
  /\ IF call.element % 2 = 0 \/ call.element > 2 * N THEN Throw
     ELSE /\ destination' = apply_galois(encrypted, call.element) /\ phase' = "returning"
          /\ UNCHANGED <<keys, call, encrypted, todo>>

(* The wrappers: in place, the destination is moved over the operand.      *)
Return ==
  /\ phase = "returning" /\ phase' = "done"
  /\ encrypted' = IF call.inplace THEN destination ELSE encrypted
  /\ UNCHANGED <<keys, call, destination, todo>>

Next == Rotate \/ RotateTerm \/ Conjugate \/ ApplyGalois \/ ApplyGaloisPlain \/ Return

---------------------------------------------------------------------------
IsBuffer(x) == /\ DOMAIN x = 0 .. N * Len(Primes) - 1
               /\ \A c \in DOMAIN x : x[c] \in 0 .. Primes[(c \div N) + 1] - 1
(* Every residue of every ciphertext stays reduced. *)
TypeOK ==
  /\ keys \in KeySets /\ phase \in {"called", "first", "next", "returning", "done", "thrown"}
  /\ todo \in Seq(Int)
  /\ \A b \in 1 .. call.batch : \A x \in {encrypted[b], destination[b]} : x = None \/ IsBuffer(x)

(* X -> X^g by its meaning: coefficient j comes from the i with            *)
(* i * g = j modulo 2N, or from the one with i * g = j + N, negated.       *)
Automorphism(f, g) ==
  [c \in DOMAIN f |->
     LET j == c % N
         q == Primes[(c \div N) + 1]
         i == CHOOSE k \in 0 .. N - 1 : (k * g) % (2 * N) \in {j, j + N}
         x == f[(c - j) + i]
     IN  IF (i * g) % (2 * N) = j THEN x ELSE (q - x) % q]
Asked == CASE call.op \in Rotating -> PowerOf(GALOIS_GENERATOR, call.steps % (N \div 2), 2 * N)
           [] call.op \in Conjugating -> 2 * N - 1
           [] OTHER -> call.element
Expected(b) == LET f == Automorphism(Messages[b], Asked) IN IF call.ntt THEN ToNtt(f) ELSE f

(* A call that returns has applied the automorphism it was asked for,      *)
(* whatever keys the steps had to be put together from, to every           *)
(* ciphertext of the batch, in the form it came in.  A rotation by no      *)
(* steps is no copy: evaluator_keyswitching.cu:271 returns before the      *)
(* destination is written, and the in-place wrapper (evaluator.h:766-770)  *)
(* moves that empty ciphertext over its operand.                           *)
Outcome(b) == IF call.op \in Rotating /\ call.steps = 0 THEN None ELSE Expected(b)
RotatesAsAsked ==
  phase = "done" =>
    \A b \in 1 .. call.batch :
      /\ destination[b] = Outcome(b)
      /\ encrypted[b] = IF call.inplace THEN Outcome(b) ELSE Fresh(b, call.ntt)

(* An exception, also one in the middle of a rotation made of several,     *)
(* leaves the operand of an in-place call as it was.                       *)
ThrowKeepsOperand ==
  phase = "thrown" => \A b \in 1 .. call.batch : encrypted[b] = Fresh(b, call.ntt)

(* How far the keys of create_galois_keys reach, for fewer steps than half *)
(* of the slots: a rotation by more than N / 3 steps has N / 2 as a term   *)
(* of its non-adjacent form, which get_element_from_step refuses           *)
(* (galois.cu:53), and so fails, unless it is a power of two short of N /  *)
(* 2 and has a key of its own; every other one succeeds.                   *)
DefaultKeysReach ==
  LET size == IF call.steps < 0 THEN -call.steps ELSE call.steps
  IN  /\ phase \in {"done", "thrown"} /\ keys = create_galois_keys
      /\ call.op \in Rotating /\ SchemeFits(call.op, call.scheme) /\ call.batching
      /\ size < N \div 2
      => (phase = "thrown" <=> 3 * size > N /\ \A i \in 0 .. LogN - 2 : N \div 2 - size # 2 ^ i)
=============================================================================

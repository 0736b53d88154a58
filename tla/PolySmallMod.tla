----------------------------- MODULE PolySmallMod -----------------------------
(***************************************************************************)
(* Arithmetic on arrays of polynomials in residue form (poly_small_mod,    *)
(* fgk/dyadic_convolute).  An array is flat: polynomial, then modulus,     *)
(* then coefficient.  A device call starts one thread per word of the      *)
(* result, in no particular order, and may work in place; host and batched *)
(* calls run the same thread bodies in a loop.                             *)
(***************************************************************************)
EXTENDS SmallMod

CONSTANTS
  Moduli,    \* the coefficient moduli, a sequence of Modulus records with coprime values
  Shapes,    \* <<polynomials, degree>>
  Fills,     \* seeds of the words the arrays are filled with
  Scalars    \* scalars, below every modulus

C            == Len(Moduli)
Words(p, n)  == 0 .. p * C * n - 1
At(i, j, k, n) == (i * C + j) * n + k
PolyOf(x, n)  == x \div (C * n)
ModOf(x, n)   == (x \div n) % C
CoeffOf(x, n) == x % n
Mod(x, n)     == Moduli[ModOf(x, n) + 1]

VARIABLES call, polys1, polys2, res, todo, phase
vars == <<call, polys1, polys2, res, todo, phase>>

Elementwise == {"modulo", "negate", "add", "sub", "add_scalar", "sub_scalar", "multiply_scalar",
                "multiply_scalars", "multiply_uint64operand", "dyadic_product",
                "dyadic_broadcast_product", "dyadic_broadcast_product_accumulate"}
Partial     == {"scatter_partial", "add_partial", "sub_partial"}
Scaling     == {"add_scalar", "sub_scalar", "multiply_scalar", "negacyclic_multiply_mononomial"}
Others      == {"negacyclic_multiply_mononomial", "dyadic_convolute", "dyadic_square"}

Fill(p, n, seed) ==
  [x \in Words(p, n) |-> (seed * (x + 1) + (x \div 2)) % Mod(x, n).value]
FillUnreduced(p, n, seed) == [x \in Words(p, n) |-> (seed * (37 * x + 11)) % B]

(* Degrees of the partial operands: the second may be shorter. *)
Deg2(c) == IF c.op \in Partial THEN c.n - 1 ELSE c.n
PolysOf(c, which) ==
  CASE which = "b" /\ c.op \in {"dyadic_broadcast_product", "dyadic_broadcast_product_accumulate"} -> 1
    [] which = "res" /\ c.op \in {"dyadic_convolute", "dyadic_square"} -> 2 * c.p - 1
    [] OTHER -> c.p

Init ==
  /\ call \in [op : Elementwise \cup Partial \cup Others, shape : Shapes, seed : Fills,
               scalar : Scalars, in_place : BOOLEAN]
  /\ call.op \in Scaling \/ call.scalar = 0   \* the others take none
  /\ call.op = "dyadic_square" => call.shape[1] = 2
  /\ call.op \in Partial \cup {"dyadic_convolute", "dyadic_square"} => ~call.in_place
  /\ LET c == [op |-> call.op, p |-> call.shape[1], n |-> call.shape[2]]
     IN  /\ polys1 = IF c.op = "modulo" THEN FillUnreduced(c.p, c.n, call.seed)
                ELSE Fill(c.p, IF c.op = "scatter_partial" THEN c.n - 1 ELSE c.n, call.seed)
         /\ polys2 = IF c.op = "scatter_partial" THEN << >>
                ELSE Fill(PolysOf(c, "b"), Deg2(c), call.seed + 3)
         /\ res = IF call.in_place THEN polys1
                  ELSE [x \in Words(PolysOf(c, "res"), c.n) |-> IF c.op \in
                         {"dyadic_broadcast_product_accumulate"} THEN 1 ELSE 0]
         /\ todo = Words(IF c.op = "dyadic_square" THEN 1 ELSE PolysOf(c, "res"), c.n)
  /\ phase = 1

P    == call.shape[1]
N    == call.shape[2]
This == [op |-> call.op, p |-> P, n |-> N]
Operand == IF call.in_place THEN res ELSE polys1   \* what a thread reads as polys1

-----------------------------------------------------------------------------
(* The thread bodies: the word that a thread of the launch computes. *)

modulo_ps(x)     == reduce(Operand[x], Mod(x, N))
negate_ps(x)     == IF Operand[x] = 0 THEN 0 ELSE Mod(x, N).value - Operand[x]
add_ps(x)        == CorrectOnce((Operand[x] + polys2[x]) % B, Mod(x, N))
sub_ps(x)        == IF Operand[x] >= polys2[x] THEN Operand[x] - polys2[x]
                    ELSE Mod(x, N).value - polys2[x] + Operand[x]
add_scalar_ps(x) == CorrectOnce((Operand[x] + call.scalar) % B, Mod(x, N))
sub_scalar_ps(x) == IF Operand[x] >= call.scalar THEN Operand[x] - call.scalar
                    ELSE Mod(x, N).value - call.scalar + Operand[x]
multiply_scalar_ps(x)  == multiply_uint64_mod(Operand[x], call.scalar, Mod(x, N))
ScalarAt(j)            == (call.seed + 7) % Moduli[j + 1].value   \* a scalar in residue form
multiply_scalars_ps(x) == multiply_uint64_mod(Operand[x], ScalarAt(ModOf(x, N)), Mod(x, N))
multiply_uint64operand_ps(x) ==
  multiply_uint64operand_mod(Operand[x],
    MultiplyUint64Operand(ScalarAt(ModOf(x, N)), Mod(x, N)), Mod(x, N))
dyadic_product_ps(x)   == multiply_uint64_mod(Operand[x], polys2[x], Mod(x, N))
dyadic_broadcast_product(x) ==
  multiply_uint64_mod(Operand[x], polys2[x % (C * N)], Mod(x, N))
dyadic_broadcast_product_accumulate(x) ==
  add_uint64_mod(res[x], dyadic_broadcast_product(x), Mod(x, N))

scatter_partial_ps(x) ==   \* a has degree N - 1 here
  IF CoeffOf(x, N) < N - 1
  THEN polys1[At(PolyOf(x, N), ModOf(x, N), CoeffOf(x, N), N - 1)] ELSE 0
Padded(x) ==
  IF CoeffOf(x, N) < Deg2(This)
  THEN polys2[At(PolyOf(x, N), ModOf(x, N), CoeffOf(x, N), Deg2(This))] ELSE 0
add_partial_ps(x) == CorrectOnce((polys1[x] + Padded(x)) % B, Mod(x, N))
sub_partial_ps(x) == IF polys1[x] >= Padded(x) THEN polys1[x] - Padded(x)
                     ELSE Mod(x, N).value - Padded(x) + polys1[x]

kernel_dyadic_convolute(x) ==
  LET k      == PolyOf(x, N)
      offset == x % (C * N)
      first  == IF k + 1 > P THEN k + 1 - P ELSE 0
      last   == IF P - 1 < k THEN P - 1 ELSE k
      sum[i \in first - 1 .. last] ==
        IF i < first THEN 0
        ELSE LET prev == sum[i - 1]
             IN  add_uint64_mod(prev, multiply_uint64_mod(polys1[offset + i * C * N],
                   polys2[offset + (k - i) * C * N], Mod(x, N)), Mod(x, N))
  IN  sum[last]

(* The host's convolution: every product is added into the zeroed result. *)
dyadic_convolute ==
  LET pairs == [i \in 1 .. P * P |-> <<(i - 1) \div P, (i - 1) % P>>]
      after[s \in 0 .. P * P] ==
        IF s = 0 THEN [x \in Words(2 * P - 1, N) |-> 0]
        ELSE LET prev == after[s - 1]
                 i    == pairs[s][1]
                 j    == pairs[s][2]
             IN  [x \in DOMAIN prev |->
                   IF PolyOf(x, N) # i + j THEN prev[x]
                   ELSE add_uint64_mod(prev[x],
                          multiply_uint64_mod(polys1[(x % (C * N)) + i * C * N],
                                              polys2[(x % (C * N)) + j * C * N], Mod(x, N)),
                          Mod(x, N))]
  IN  after[P * P]

dyadic_square(x) ==   \* one thread writes three words
  LET c0    == polys1[x]
      c1    == polys1[x + C * N]
      m     == Mod(x, N)
      cross == multiply_uint64_mod(c0, c1, m)
  IN  [res EXCEPT ![x] = multiply_uint64_mod(c0, c0, m),
                  ![x + C * N] = add_uint64_mod(cross, cross, m),
                  ![x + 2 * C * N] = multiply_uint64_mod(c1, c1, m)]

Mutantnegacyclic_shift_ps(from, x, shift) ==   \* the sign of a second turn is lost
  <<At(PolyOf(x, N), ModOf(x, N), (CoeffOf(x, N) + shift) % N, N),
    IF from[x] = 0 \/ CoeffOf(x, N) + shift < N THEN from[x] ELSE Mod(x, N).value - from[x]>>
negacyclic_shift_ps(from, x, shift) ==
  <<At(PolyOf(x, N), ModOf(x, N), (CoeffOf(x, N) + shift) % N, N),
    IF from[x] = 0 \/ ((CoeffOf(x, N) + shift) \div N) % 2 = 0 THEN from[x]
    ELSE Mod(x, N).value - from[x]>>

Body(op, x) ==
  CASE op = "modulo"                 -> modulo_ps(x)
    [] op = "negate"                 -> negate_ps(x)
    [] op = "add"                    -> add_ps(x)
    [] op = "sub"                    -> sub_ps(x)
    [] op = "add_scalar"             -> add_scalar_ps(x)
    [] op = "sub_scalar"             -> sub_scalar_ps(x)
    [] op = "multiply_scalar"        -> multiply_scalar_ps(x)
    [] op = "multiply_scalars"       -> multiply_scalars_ps(x)
    [] op = "multiply_uint64operand" -> multiply_uint64operand_ps(x)
    [] op = "dyadic_product"         -> dyadic_product_ps(x)
    [] op = "dyadic_broadcast_product" -> dyadic_broadcast_product(x)
    [] op = "dyadic_broadcast_product_accumulate" -> dyadic_broadcast_product_accumulate(x)
    [] op = "scatter_partial"        -> scatter_partial_ps(x)
    [] op = "add_partial"            -> add_partial_ps(x)
    [] op = "sub_partial"            -> sub_partial_ps(x)
    [] op = "dyadic_convolute"       -> kernel_dyadic_convolute(x)

-----------------------------------------------------------------------------
Thread(x) ==
  /\ x \in todo
  /\ call.op \notin {"negacyclic_multiply_mononomial", "dyadic_square"}
  /\ res' = [res EXCEPT ![x] = Body(call.op, x)]
  /\ todo' = todo \ {x}
  /\ UNCHANGED <<call, polys1, polys2, phase>>

SquareThread(x) ==
  /\ x \in todo /\ call.op = "dyadic_square"
  /\ res' = dyadic_square(x)
  /\ todo' = todo \ {x}
  /\ UNCHANGED <<call, polys1, polys2, phase>>

(* negacyclic_multiply_mononomial: the product by the coefficient goes to  *)
(* a temporary array (here b); the shift scatters it to the result, which  *)
(* may be the operand.  The exponent is below twice the degree.            *)
Exponent == call.seed % (2 * N)
ScaleThread(x) ==
  /\ x \in todo /\ phase = 1 /\ call.op = "negacyclic_multiply_mononomial"
  /\ polys2' = [polys2 EXCEPT ![x] = multiply_scalar_ps(x)]
  /\ phase' = IF todo = {x} THEN 2 ELSE 1
  /\ todo' = IF todo = {x} THEN Words(P, N) ELSE todo \ {x}
  /\ UNCHANGED <<call, polys1, res>>
ShiftThread(x) ==
  /\ x \in todo /\ phase = 2
  /\ LET w == negacyclic_shift_ps(polys2, x, Exponent)
     IN  res' = [res EXCEPT ![w[1]] = w[2]]
  /\ todo' = todo \ {x}
  /\ UNCHANGED <<call, polys1, polys2, phase>>

Next == \E x \in todo : Thread(x) \/ SquareThread(x) \/ ScaleThread(x) \/ ShiftThread(x)

-----------------------------------------------------------------------------
Finished == todo = {} /\ (call.op = "negacyclic_multiply_mononomial" => phase = 2)

Q == FoldSeq(LAMBDA m, y : m.value * y, 1, Moduli)
(* The integer below Q that coefficient k of polynomial i stands for. *)
IntegerAt(f, i, k, n) ==
  CHOOSE v \in 0 .. Q - 1 : \A j \in 0 .. C - 1 : v % Moduli[j + 1].value = f[At(i, j, k, n)] % Moduli[j + 1].value
Scalar == CHOOSE v \in 0 .. Q - 1 : \A j \in 0 .. C - 1 : v % Moduli[j + 1].value = ScalarAt(j)

Expected(i, k) ==
  LET u == IntegerAt(polys1, i, k, N)   \* used by the operations whose operands have degree N
      v == IntegerAt(polys2, i, k, N)
      w == IntegerAt(polys2, 0, k, N)
      short == IF k < Deg2(This) /\ call.op # "scatter_partial" THEN IntegerAt(polys2, i, k, Deg2(This)) ELSE 0
  IN  CASE call.op = "modulo"          -> u
        [] call.op = "negate"          -> -u
        [] call.op = "add"             -> u + v
        [] call.op = "sub"             -> u - v
        [] call.op = "add_scalar"      -> u + call.scalar
        [] call.op = "sub_scalar"      -> u - call.scalar
        [] call.op = "multiply_scalar" -> u * call.scalar
        [] call.op \in {"multiply_scalars", "multiply_uint64operand"} -> u * Scalar
        [] call.op = "dyadic_product"  -> u * v
        [] call.op = "dyadic_broadcast_product" -> u * w
        [] call.op = "dyadic_broadcast_product_accumulate" ->
             (IF call.in_place THEN u ELSE 1) + u * w
        [] call.op = "scatter_partial" -> IF k < N - 1 THEN IntegerAt(polys1, i, k, N - 1) ELSE 0
        [] call.op = "add_partial"     -> u + short
        [] call.op = "sub_partial"     -> u - short
        [] call.op \in {"dyadic_convolute", "dyadic_square"} ->
             LET other == IF call.op = "dyadic_square" THEN polys1 ELSE polys2
             IN  MapThenSumSet(LAMBDA s : IF i - s \in 0 .. P - 1
                                          THEN IntegerAt(polys1, s, k, N) * IntegerAt(other, i - s, k, N) ELSE 0,
                               0 .. P - 1)

(* Whatever order the threads run in, and also when the result is written  *)
(* over the operand, an operation on residues is that operation on the     *)
(* integers modulo the product of the moduli, coefficient by coefficient,  *)
(* and leaves every word reduced (the _ps functions and their kernels).    *)
ActsOnIntegers ==
  (Finished /\ call.op # "negacyclic_multiply_mononomial") =>
    /\ \A x \in DOMAIN res : res[x] < Mod(x, N).value
    /\ \A i \in 0 .. PolysOf(This, "res") - 1, k \in 0 .. N - 1 :
         IntegerAt(res, i, k, N) = Expected(i, k) % Q

(* A polynomial times c * x^e modulo x^N + 1, for exponents up to 2N, in   *)
(* any order of threads and in place (negacyclic_multiply_mononomial_ps).  *)
MonomialProduct ==
  (Finished /\ call.op = "negacyclic_multiply_mononomial") =>
    \A i \in 0 .. P - 1, k \in 0 .. N - 1 :
      LET turned == (k - Exponent) % (2 * N)   \* where coefficient k comes from
          sign   == IF turned >= N THEN -1 ELSE 1
      IN  IntegerAt(res, i, k, N)
            = (sign * call.scalar * IntegerAt(polys1, i, turned % N, N)) % Q

(* The device's convolution and the host's, which sum in different orders  *)
(* and from different starting points, give the same words                 *)
(* (dyadic_convolute).                                                     *)
HostAgrees ==
  (Finished /\ call.op = "dyadic_convolute") => res = dyadic_convolute
=============================================================================

----------------------------- MODULE SmallModCalls -----------------------------
(***************************************************************************)
(* Every call of the operations of SmallMod with operands inside their     *)
(* stated range: words and pairs of words for the reductions, residues for *)
(* the arithmetic, and sums of products up to the number of terms the free *)
(* bits leave room for.                                                    *)
(***************************************************************************)
EXTENDS SmallMod

VARIABLES call, ret
vars == <<call, ret>>

Res(v)   == 0 .. v - 1
DotTerms == 2 ^ (2 * (WordBits - HE_MOD_BIT_COUNT_MAX))   \* 64 in the program

CallsOf(v) ==
  [reduce  |-> [x : Word],
   limbs   |-> [s : [1 .. 2 -> Word]],
   pair    |-> [x : Res(v), y : Res(v)],
   operand |-> [x : Word, y : Res(v), z : Word],
   modulo  |-> [s : [1 .. 1 -> Word] \cup [1 .. 3 -> {0, 1, v - 1, v, B - 1}]],
   power   |-> [x : Res(v), e : 0 .. 2 * v],
   dot     |-> [s : [1 .. 2 -> Res(v)], t : [1 .. 2 -> Res(v)]]
               \cup {[s |-> [i \in 1 .. n |-> v - 1], t |-> [i \in 1 .. n |-> v - 1]] :
                       n \in 0 .. DotTerms},
   divide  |-> [s : [1 .. 3 -> {0, 1, v, B - 1}]],
   divide1 |-> [s : [1 .. 1 -> Word]]]

Init ==
  /\ ret = << >>
  /\ \E v \in ModulusValues : \E k \in DOMAIN CallsOf(v) : \E c \in CallsOf(v)[k] :
       call = [kind |-> k, m |-> Modulus(v), args |-> c]

a == call.args
m == call.m

Return(kind, value) ==
  /\ ret = << >> /\ call.kind = kind
  /\ ret' = value
  /\ UNCHANGED call

Reduce      == Return("reduce", <<reduce(a.x, m)>>)
ReduceLimbs == Return("limbs", <<reduce_uint128_limbs(a.s, m)>>)
Arithmetic  ==
  Return("pair", [inc |-> increment_uint64_mod(a.x, m), dec |-> decrement_uint64_mod(a.x, m),
                  neg |-> negate_uint64_mod(a.x, m), half |-> divide2_uint64_mod(a.x, m),
                  sum |-> add_uint64_mod(a.x, a.y, m), diff |-> sub_uint64_mod(a.x, a.y, m),
                  prod |-> multiply_uint64_mod(a.x, a.y, m)])
ByOperand ==
  LET y == MultiplyUint64Operand(a.y, m)
  IN  Return("operand",
        [prod |-> multiply_uint64operand_mod(a.x, y, m),
         lazy |-> multiply_uint64operand_mod_lazy(a.x, y, m),
         add  |-> multiply_uint64operand_add_uint64_mod(a.x, y, a.z, m),
         wide |-> multiply_add_uint64_mod(a.x, a.y, a.z, m)])
Modulo     == Return("modulo", <<modulo_uint(a.s, m)>>)
Power      == Return("power", <<exponentiate_uint64_mod(a.x, a.e, m)>>)
DotProduct == Return("dot", <<dot_product_mod(a.s, a.t, m)>>)
DivideMod  == \/ Return("divide", divide_uint_mod_3(a.s, m))
              \/ Return("divide1", divide_uint_mod_1(a.s[1], m))

Next == Reduce \/ ReduceLimbs \/ Arithmetic \/ ByOperand \/ Modulo \/ Power
        \/ DotProduct \/ DivideMod

Spec == Init /\ [][Next]_vars

-----------------------------------------------------------------------------
Returned(kind) == ret # << >> /\ call.kind = kind
Mod(x)    == x % m.value
Residue(x) == x \in Res(m.value)

(* Barrett's guess is never off by more than the one subtraction corrects: *)
(* Modulus::reduce and reduce_uint128_limbs return the residue of every    *)
(* word and of every pair of words, modulo_uint and divide_uint_mod_inplace  *)
(* those of three words.                                                   *)
ReductionsExact ==
  /\ Returned("reduce") => ret = <<Mod(a.x)>>
  /\ Returned("limbs")  => ret = <<Mod(Value(a.s))>>
  /\ Returned("modulo") => ret = <<Mod(Value(a.s))>>
  /\ Returned("divide") => ret.remainder = Mod(Value(a.s))

(* Products with a prepared operand are the residue of the product for     *)
(* every word, reduced or not, and lazy ones stay below twice the modulus; *)
(* a product and a sum may be reduced together.                            *)
OperandProductsExact ==
  Returned("operand") =>
    /\ ret.prod = Mod(a.x * a.y)
    /\ ret.lazy < 2 * m.value /\ Mod(ret.lazy) = Mod(a.x * a.y)
    /\ ret.add = Mod(a.x * a.y + a.z) /\ ret.wide = ret.add

(* The operations on residues are those of the ring of integers modulo the *)
(* value, each returns a residue, and halving undoes doubling for odd ones.*)
RingOperations ==
  Returned("pair") =>
    /\ \A f \in {"inc", "dec", "neg", "sum", "diff", "prod"} : Residue(ret[f])
    /\ ret.inc = Mod(a.x + 1) /\ ret.dec = Mod(a.x - 1) /\ ret.neg = Mod(-a.x)
    /\ ret.sum = Mod(a.x + a.y) /\ ret.diff = Mod(a.x - a.y)
    /\ ret.prod = Mod(a.x * a.y)
    /\ m.value % 2 = 1 => Residue(ret.half) /\ Mod(2 * ret.half) = a.x

(* A sum of products that is reduced once at the end does not overflow its *)
(* two words for as many terms as the free bits leave room for.            *)
DotProductExact ==
  Returned("dot") =>
    ret = <<Mod(FoldLeftDomain(LAMBDA acc, i : acc + a.s[i] * a.t[i], 0, a.s))>>

(* Square and multiply computes the power. *)
PowersExact ==
  Returned("power") =>
    LET p[e \in 0 .. a.e] == IF e = 0 THEN 1 ELSE Mod(a.x * p[e - 1])
    IN  a.e = 0 \/ ret = <<p[a.e]>>

=============================================================================

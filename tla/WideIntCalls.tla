----------------------------- MODULE WideIntCalls -----------------------------
(***************************************************************************)
(* Calls of the functions of WideInt on every small operand, and the bit   *)
(* by bit division loop of utils/basics.cu.                                *)
(***************************************************************************)
EXTENDS WideInt

VARIABLES
  call,   \* the function called and its operands
  ret,    \* what it returned, << >> before
  numerator, quotient, numerator_bits, remaining_shifts   \* the division loop

division == <<numerator, quotient, numerator_bits, remaining_shifts>>
vars     == <<call, ret, division>>

Numbers(k) == [1 .. k -> Word]

Sums     == [op : {"add", "sub"}, s : Numbers(2), t : Numbers(1) \cup Numbers(2),
             c : {0, 1}, k : {2, 3}]
Mods     == {x \in [op : {"mod"}, s : Numbers(2), t : Numbers(2), m : Numbers(2)] :
               Value(x.s) < Value(x.m) /\ Value(x.t) < Value(x.m)}
Shifts   == [op : {"left", "right", "left192", "right192"}, s : Numbers(3),
             n : 0 .. 3 * WordBits - 1]
Products == [op : {"mul"}, s : Numbers(1) \cup Numbers(2),
             t : Numbers(1) \cup Numbers(2), k : 2 .. 4]
Manys    == [op : {"many"}, s : Numbers(3), k : {3, 4}]
Halves   == [op : {"half"}, s : Numbers(1) \cup Numbers(2)]
Negated  == [op : {"negate"}, s : Numbers(1) \cup Numbers(2)]

(* numerator / denominator, of as many words each.  The loop of the        *)
(* three-word function shifts with left_shift_uint192.                     *)
Divisions ==
  {x \in [op : {"div", "div192"}, s : Numbers(3), d : Numbers(3)] :
     /\ Value(x.d) > 0
     /\ x.op = "div192" => Value(x.s) = B ^ 2 /\ Value(x.d) < B}

Calls ==
  Sums \cup Mods \cup Shifts \cup Products \cup Manys \cup Halves \cup Negated \cup Divisions

Init ==
  /\ call \in Calls
  /\ ret = << >>
  /\ numerator = << >> /\ quotient = << >>
  /\ numerator_bits = 0 /\ remaining_shifts = 0

Return(op, value) ==
  /\ ret = << >> /\ call.op = op
  /\ ret' = value
  /\ UNCHANGED <<call, division>>

Add == Return("add", add_uint_carry(call.s, call.t, call.c, call.k))
Subtract == Return("sub", sub_uint_borrow(call.s, call.t, call.c, call.k))
AddSubMod == Return("mod", [sum  |-> add_uint_mod(call.s, call.t, call.m, 2),
                            diff |-> sub_uint_mod(call.s, call.t, call.m, 2)])
ShiftWords ==
  \/ Return("left", left_shift_uint(call.s, call.n, 3))
  \/ Return("right", right_shift_uint(call.s, call.n, 3))
  \/ Return("left192", left_shift_uint192(call.s, call.n))
  \/ Return("right192", right_shift_uint192(call.s, call.n))
Multiply == Return("mul", multiply_uint(call.s, call.t, call.k))
MultiplyMany == Return("many", multiply_many_uint64(call.s, call.k))
HalfRoundUp == Return("half", half_round_up_uint(call.s, Len(call.s)))
Negate == Return("negate", negate_uint(call.s, Len(call.s)))

-----------------------------------------------------------------------------
(* divide_uint_inplace and divide_uint192_uint64_inplace.  The denominator *)
(* is shifted until its top bit is that of the numerator.                  *)

NumBits    == get_significant_bit_count_uint(call.s)
DenBits    == get_significant_bit_count_uint(call.d)
Count      == (NumBits + WordBits - 1) \div WordBits
DenShift   == NumBits - DenBits
Left(x, n) == IF call.op = "div192" THEN left_shift_uint192(x, n)
              ELSE left_shift_uint(x, n, Count)
Right(x, n) == IF call.op = "div192" THEN right_shift_uint192(x, n)
               ELSE right_shift_uint(x, n, Count)
ShiftedDen == Left(call.d, DenShift)

Dividing == ret = << >> /\ call.op \in {"div", "div192"}

DivideSmall ==
  /\ Dividing /\ quotient = << >>
  /\ NumBits < DenBits \/ Count = 1
  /\ ret' = IF NumBits < DenBits THEN [quotient |-> <<0>>, remainder |-> call.s]
            ELSE [quotient  |-> <<call.s[1] \div call.d[1]>>,
                  remainder |-> <<call.s[1] % call.d[1]>>]
  /\ UNCHANGED <<call, division>>

DivideStart ==
  /\ Dividing /\ quotient = << >>
  /\ NumBits >= DenBits /\ Count > 1
  /\ numerator' = SubSeq(call.s, 1, Count) /\ quotient' = Zeros(Count)
  /\ numerator_bits' = NumBits /\ remaining_shifts' = DenShift
  /\ UNCHANGED <<call, ret>>

(* One turn of the loop: subtract, or double and subtract, then shift the  *)
(* remainder and the quotient until the top bits meet again.               *)
DivideStep ==
  LET less  == sub_uint(numerator, ShiftedDen, Count)
      borrow == less.carry # 0
      diff  == IF borrow THEN add_uint(less.result, numerator, Count).result
               ELSE less.result
      q     == IF borrow THEN Left(quotient, 1) ELSE quotient
      q1    == [q EXCEPT ![1] = @ - (@ % 2) + 1]
      left  == IF borrow THEN remaining_shifts - 1 ELSE remaining_shifts
      bits  == get_significant_bit_count_uint(diff)
      shift == Min({NumBits - bits, left})
  IN  /\ Dividing /\ quotient # << >> /\ numerator_bits = NumBits
      /\ ~ (borrow /\ remaining_shifts = 0)
      /\ numerator' = IF bits > 0 THEN Left(diff, shift) ELSE Zeros(Count)
      /\ numerator_bits' = IF bits > 0 THEN bits + shift ELSE 0
      /\ quotient' = Left(q1, shift)
      /\ remaining_shifts' = left - shift
      /\ UNCHANGED <<call, ret>>

DivideDone ==
  /\ Dividing /\ quotient # << >>
  /\ \/ numerator_bits # NumBits
     \/ /\ sub_uint(numerator, ShiftedDen, Count).carry # 0
        /\ remaining_shifts = 0
  /\ ret' = [quotient  |-> quotient,
             remainder |-> IF numerator_bits > 0 THEN Right(numerator, DenShift)
                           ELSE numerator]
  /\ UNCHANGED <<call, division>>

Divide == DivideSmall \/ DivideStart \/ DivideStep \/ DivideDone

Next ==
  \/ Add \/ Subtract \/ AddSubMod \/ ShiftWords \/ Multiply \/ MultiplyMany
  \/ HalfRoundUp \/ Negate \/ Divide

Spec == Init /\ [][Next]_vars

-----------------------------------------------------------------------------

Got(ops) == ret # << >> /\ call.op \in ops

(* Carries and borrows ripple through every word: a sum, a difference and  *)
(* their reduced forms are exact, the carry out included, although each    *)
(* carry is only a comparison of wrapped words.                            *)
SumsExact ==
  /\ Got({"add"}) => Value(ret.result) + ret.carry * B ^ call.k
                       = Value(call.s) + Value(call.t) + call.c
  /\ Got({"sub"}) => Value(ret.result) - ret.carry * B ^ call.k
                       = Value(call.s) - Value(call.t) - call.c
  /\ Got({"mod"}) =>
       /\ Value(ret.sum) = (Value(call.s) + Value(call.t)) % Value(call.m)
       /\ Value(ret.diff) = (Value(call.s) - Value(call.t)) % Value(call.m)

(* Shifts of any amount below the width move every bit to its place, also  *)
(* across words and with the special case of a multiple of the word size.  *)
ShiftsExact ==
  /\ Got({"left", "left192"}) =>
       Value(ret) = (Value(call.s) * 2 ^ call.n) % B ^ 3
  /\ Got({"right", "right192"}) => Value(ret) = Value(call.s) \div 2 ^ call.n
  /\ Got({"half"}) => Value(ret) = (Value(call.s) + 1) \div 2

(* Products are exact modulo the width of a result of two or more words,   *)
(* shorter than the operands or longer.                                    *)
ProductsExact ==
  /\ Got({"mul"}) => Value(ret) = (Value(call.s) * Value(call.t)) % B ^ call.k
  /\ Got({"many"}) => Value(ret) = call.s[1] * call.s[2] * call.s[3]

(* The division loop keeps numerator * 2^done = quotient * denominator +   *)
(* remainder, with both sides aligned, and never shifts too far.           *)
DivisionAligned ==
  Dividing /\ quotient # << >> =>
    /\ remaining_shifts \in 0 .. DenShift
    /\ Value(call.s) * 2 ^ (DenShift - remaining_shifts)
         = Value(quotient) * Value(ShiftedDen) + Value(numerator)

(* Quotient and remainder are those of the division: the ratio a modulus   *)
(* keeps for its reductions depends on them.                               *)
DivisionExact ==
  Got({"div", "div192"}) =>
    /\ Value(call.s) = Value(ret.quotient) * Value(call.d) + Value(ret.remainder)
    /\ Value(ret.remainder) < Value(call.d)

=============================================================================

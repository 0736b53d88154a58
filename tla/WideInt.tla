------------------------------- MODULE WideInt -------------------------------
(***************************************************************************)
(* The multi-word integers of the encryption library (utils/basics.h): a   *)
(* number is a sequence of words, least significant first.  The program's  *)
(* words have 64 bits, here WordBits.  Carries and borrows are computed    *)
(* with the comparisons of the code, on words that wrap around.            *)
(***************************************************************************)
EXTENDS Integers, Sequences, FiniteSetsExt

CONSTANT WordBits

WordAssumption == WordBits \in Nat /\ WordBits > 0

B    == 2 ^ WordBits
Word == 0 .. B - 1

(* The number a sequence of words stands for, and the word at index i of a *)
(* number that may be shorter.                                             *)
Value(s)   == LET v[i \in 0 .. Len(s)] ==
                    IF i = 0 THEN 0 ELSE v[i - 1] + s[i] * B ^ (i - 1)
              IN  v[Len(s)]
WordAt(s, i) == IF i <= Len(s) THEN s[i] ELSE 0
Zeros(k)   == [i \in 1 .. k |-> 0]
NotWord(x) == B - 1 - x
Flag(b)    == IF b THEN 1 ELSE 0

-----------------------------------------------------------------------------
(* Bit counts. *)

get_significant_bit_count(x) ==
  IF x = 0 THEN 0 ELSE Max({n \in 1 .. WordBits : 2 ^ (n - 1) <= x})

get_significant_uint64_count_uint(s) ==
  Max({0} \cup {i \in 1 .. Len(s) : s[i] # 0})

get_significant_bit_count_uint(s) ==
  LET c == Max({1, get_significant_uint64_count_uint(s)})
  IN  get_significant_bit_count(s[c]) + (c - 1) * WordBits

-----------------------------------------------------------------------------
(* Addition and subtraction, word by word. *)

add_uint64(x, y) ==
  LET r == (x + y) % B IN [result |-> r, carry |-> Flag(r < x)]

add_uint64_carry(x, y, c) ==
  LET temp == (x + y) % B
  IN  [result |-> (temp + c) % B,
       carry  |-> Flag(temp < y \/ NotWord(temp) < c)]

sub_uint64(x, y) ==
  LET r == (x - y) % B IN [result |-> r, carry |-> Flag(r > x)]

sub_uint64_borrow(x, y, b) ==
  LET temp == (x - y) % B
  IN  [result |-> (temp - Flag(b # 0)) % B,
       carry  |-> Flag(temp > x \/ temp < b)]

(* Op on k words of s and t, the carry passed upwards from word first. *)
Chain(Op(_, _, _), s, t, first, k) ==
  LET r[i \in 0 .. k] ==
        IF i = 0 THEN [result |-> << >>, carry |-> first]
        ELSE LET prev == r[i - 1]
                 d == Op(WordAt(s, i), WordAt(t, i), prev.carry)
             IN  [result |-> Append(prev.result, d.result), carry |-> d.carry]
  IN  r[k]

add_uint_carry(s, t, c, k)  == Chain(add_uint64_carry, s, t, c, k)
sub_uint_borrow(s, t, b, k) == Chain(sub_uint64_borrow, s, t, b, k)
add_uint(s, t, k) == add_uint_carry(s, t, 0, k)
sub_uint(s, t, k) == sub_uint_borrow(s, t, 0, k)

(* A first word of its own, the carry passed on through the others. *)
WithFirst(first, Op(_, _, _), s, k) ==
  LET rest == Chain(Op, Tail(s), << >>, first.carry, k - 1)
  IN  [result |-> <<first.result>> \o rest.result, carry |-> rest.carry]

add_uint_uint64(s, y, k) == WithFirst(add_uint64(s[1], y), add_uint64_carry, s, k)
sub_uint_u64(s, y, k)    == WithFirst(sub_uint64(s[1], y), sub_uint64_borrow, s, k)

(* The loop starts over at word 0, with the carry out of word 0. *)
negate_uint(s, k) ==
  LET inverted == [i \in 1 .. k |-> NotWord(s[i])]
  IN  add_uint_carry(inverted, << >>, add_uint64(inverted[1], 1).carry, k).result

compare_uint(s, t) ==
  LET n       == Max({Len(s), Len(t)})
      differ  == {i \in 1 .. n : WordAt(s, i) # WordAt(t, i)}
      top     == Max(differ)
  IN  IF differ = {} THEN 0
      ELSE IF WordAt(s, top) > WordAt(t, top) THEN 1 ELSE -1

add_uint_mod(s, t, m, k) ==
  LET a == add_uint(s, t, k)
  IN  IF a.carry # 0 \/ compare_uint(a.result, m) >= 0
      THEN sub_uint(a.result, m, k).result ELSE a.result

sub_uint_mod(s, t, m, k) ==
  LET d == sub_uint(s, t, k)
  IN  IF d.carry # 0 THEN add_uint(d.result, m, k).result ELSE d.result

-----------------------------------------------------------------------------
(* Shifts: by whole words, then by the bits that are left. *)

ShiftLeft(s, words, bits, k) ==
  LET moved == [i \in 1 .. k |-> IF i > words THEN s[i - words] ELSE 0]
  IN  [i \in 1 .. k |-> ((moved[i] * 2 ^ bits) % B)
         + (IF bits > 0 /\ i > 1 THEN moved[i - 1] \div 2 ^ (WordBits - bits)
            ELSE 0)]

ShiftRight(s, words, bits, k) ==
  LET moved == [i \in 1 .. k |-> IF i + words <= k THEN s[i + words] ELSE 0]
  IN  [i \in 1 .. k |-> (moved[i] \div 2 ^ bits)
         + (IF bits > 0 /\ i < k
            THEN (moved[i + 1] * 2 ^ (WordBits - bits)) % B ELSE 0)]

left_shift_uint(s, n, k)  == ShiftLeft(s, n \div WordBits, n % WordBits, k)
right_shift_uint(s, n, k) == ShiftRight(s, n \div WordBits, n % WordBits, k)

(* The three-word shifts test single bits of the amount: two words when    *)
(* the bit of 128 is set, else one when that of 64 is.                     *)
Words192(n) == LET w == n \div WordBits
               IN  IF (w \div 2) % 2 = 1 THEN 2 ELSE w % 2
left_shift_uint192(s, n)  == ShiftLeft(s, Words192(n), n % WordBits, 3)
right_shift_uint192(s, n) == ShiftRight(s, Words192(n), n % WordBits, 3)

half_round_up_uint(s, k) ==
  LET halved == ShiftRight(s, 0, 1, k)
  IN  IF s[1] % 2 = 1 THEN add_uint_uint64(halved, 1, k).result ELSE halved

-----------------------------------------------------------------------------
(* Products. *)

multiply_uint64_uint64(x, y) == <<(x * y) % B, (x * y) \div B>>
multiply_uint64_high_word(x, y) == (x * y) \div B

multiply_uint_uint64(s, y, k) ==
  LET n == Min({Len(s), k})
      r[i \in 0 .. n] ==
        IF i = 0 THEN [result |-> Zeros(k), carry |-> 0]
        ELSE LET prev == r[i - 1]
                 p == multiply_uint64_uint64(s[i], y)
                 a == add_uint64_carry(p[1], prev.carry, 0)
             IN  [result |-> [prev.result EXCEPT ![i] = a.result],
                  carry  |-> (p[2] + a.carry) % B]
      row == r[n]
  IN  IF Len(s) = 0 \/ y = 0 THEN Zeros(k)
      ELSE IF k = 1 THEN <<(s[1] * y) % B>>
      ELSE IF n < k THEN [row.result EXCEPT ![n + 1] = row.carry]
      ELSE row.result

(* One row of the schoolbook product: s[i] times t added at word i. *)
ProductRow(result, x, t, i, k) ==
  LET n == Min({Len(t), k - i + 1})
      r[j \in 0 .. n] ==
        IF j = 0 THEN [result |-> result, carry |-> 0]
        ELSE LET prev == r[j - 1]
                 p == multiply_uint64_uint64(x, t[j])
                 a == add_uint64_carry(p[1], prev.carry, 0)
                 b == add_uint64_carry(prev.result[i + j - 1], a.result, 0)
             IN  [result |-> [prev.result EXCEPT ![i + j - 1] = b.result],
                  carry  |-> (p[2] + a.carry + b.carry) % B]
      row == r[n]
  IN  IF i + n <= k THEN [row.result EXCEPT ![i + n] = row.carry]
      ELSE row.result

(* A one-word result is the square of the first operand, whatever the      *)
(* second is.                                                              *)
multiply_uint(s, t, k) ==
  LET rows[i \in 0 .. Min({Len(s), k})] ==
        IF i = 0 THEN Zeros(k) ELSE ProductRow(rows[i - 1], s[i], t, i, k)
      one(x) == get_significant_uint64_count_uint(x) = 1
  IN  IF Len(s) = 0 \/ Len(t) = 0 THEN Zeros(k)
      ELSE IF k = 1 THEN <<(s[1] * s[1]) % B>>
      ELSE IF one(s) THEN multiply_uint_uint64(t, s[1], k)
      ELSE IF one(t) THEN multiply_uint_uint64(s, t[1], k)
      ELSE rows[Min({Len(s), k})]

(* The product of several words, in a result of k words. *)
multiply_many_uint64(ops, k) ==
  LET n == Len(ops)
      r[i \in 1 .. n] ==
        IF i = 1 THEN <<ops[1]>> \o Zeros(k - 1)
        ELSE LET prev == r[i - 1]
                 temp == multiply_uint_uint64(prev, ops[i], n)
             IN  [j \in 1 .. k |-> IF j <= i THEN temp[j] ELSE prev[j]]
  IN  r[n]

(* A two-word number by a word: quotient and remainder. *)
divide_uint128_uint64(s, d) ==
  [quotient  |-> <<(Value(s) \div d) % B, (Value(s) \div d) \div B>>,
   remainder |-> Value(s) % d]

=============================================================================

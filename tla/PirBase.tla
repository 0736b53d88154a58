------------------------------- MODULE PirBase -------------------------------
(***************************************************************************)
(* What the client and the server of PPFE share: the shape of the          *)
(* database, the values a ciphertext can stand for, the keyed PRF and the  *)
(* median cutoff of a hint.                                                *)
(*                                                                         *)
(* A ciphertext of the program is a polynomial, of which only the          *)
(* coefficient PartSize - 1 is ever read.  That coefficient is a sum of    *)
(* database entries, so it is modelled by a FORMAL SUM: a function that    *)
(* gives every database entry its multiplicity.  Two formal sums are equal *)
(* exactly when the two coefficients agree for EVERY database.  The moduli,*)
(* the mask and the noise are the subject of module AnswerArith.           *)
(***************************************************************************)
EXTENDS Integers, FiniteSets

CONSTANTS
  PartNum,      \* number of partitions
  PartSize,     \* entries in one partition
  Lambda,       \* correctness parameter, LAMBDA = 30 in utils.h
  LowerFilter,  \* FindCutoff looks for the median between these two values
  UpperFilter,
  DummyPeriod,  \* bound: the dummy index stream repeats after this many draws
  PrfTables     \* the PRF tables (one per key) a run ranges over

M    == Lambda * PartSize     \* number of hints
Half == M \div 2              \* number of backup hints

Parts   == 0 .. PartNum - 1
Offsets == 0 .. PartSize - 1
Entries == Parts \X Offsets
Hints   == 0 .. M - 1
Backups == M .. M + Half - 1
HintIds == 0 .. M + Half - 1  \* every hint and backup hint built offline
Slots   == 0 .. 2 * M - 1     \* indices of ciParity
Bit     == {0, 1}

(* A key's PRF: v decides the partitions a hint selects, r the offset in   *)
(* each partition, d is the stream of dummy indices.                       *)
PrfTable == [v : [HintIds -> [Parts -> Nat]],
             r : [HintIds -> [Parts -> Nat]],
             d : [0 .. DummyPeriod - 1 -> Nat]]

ASSUME SizeAssumption ==
  /\ PartNum \in Nat /\ PartNum > 1
  /\ PartNum % 2 = 0   \* PartNum = 1 << (LogN / 2)
  /\ PartSize \in Nat /\ PartSize > 0
  /\ Lambda \in Nat
  /\ M \in Nat /\ Half \in Nat /\ Half > 1 /\ M >= 2 * Half

ASSUME PrfAssumption ==
  /\ LowerFilter \in Nat /\ UpperFilter \in Nat
  /\ DummyPeriod \in Nat /\ DummyPeriod > 0
  /\ PrfTables \subseteq PrfTable

-----------------------------------------------------------------------------
(* Bits of the code, as the numbers 0 and 1. *)

Not(b)    == 1 - b
Xor(a, b) == IF a = b THEN 0 ELSE 1

(* Formal sums of database entries. *)

FormalSum == [Entries -> Int]
Sum(S)    == [e \in Entries |-> IF e \in S THEN 1 ELSE 0]
Zero      == [e \in Entries |-> 0]
Add(x, y) == [e \in Entries |-> x[e] + y[e]]
Sub(x, y) == [e \in Entries |-> x[e] - y[e]]

(* Query number q of the API is the entry (q / PartSize, q % PartSize). *)
Unit(e) == Sum({e})

-----------------------------------------------------------------------------
(* The PRF of hint h at partition k. *)

PRF4Select(prf, h, k, cutoff) == IF prf.v[h][k] < cutoff THEN 1 ELSE 0
PRF4Idx(prf, h, k)            == prf.r[h][k]

(* The entries of hint h, with this cutoff, in the partitions with select  *)
(* bit b: one per such partition.                                          *)
Selected(prf, h, cutoff, b) ==
  {e \in Entries : /\ PRF4Select(prf, h, e[1], cutoff) = b
                   /\ e[2] = PRF4Idx(prf, h, e[1]) % PartSize}

(* Draw number n of the dummy index stream. *)
DummyIdx(prf, n) == prf.d[n % DummyPeriod]

MutantFindCutoff(row) ==   \* a median that occurs twice is accepted
  LET below(c) == {k \in Parts : row[k] < c}
      upTo(c)  == {k \in Parts : row[k] <= c}
      lower    == below(LowerFilter)
      upper    == {k \in Parts : row[k] > UpperFilter}
      median   == {k \in Parts \ (lower \cup upper) :
                     /\ Cardinality(below(row[k])) <= PartNum \div 2
                     /\ Cardinality(upTo(row[k])) > PartNum \div 2}
  IN  IF \/ Cardinality(lower) >= PartNum \div 2
         \/ Cardinality(upper) >= PartNum \div 2
         \/ median = {}
      THEN 0
      ELSE row[CHOOSE k \in median : TRUE]

(***************************************************************************)
(* The median of a row of PRF values, or 0 when the filters keep too       *)
(* little or when the median value occurs twice.  Module CutoffLoop models *)
(* the loop that computes it in place.                                     *)
(***************************************************************************)
FindCutoff(row) ==
  LET below(c) == {k \in Parts : row[k] < c}
      lower    == below(LowerFilter)
      upper    == {k \in Parts : row[k] > UpperFilter}
      median   == {k \in Parts \ (lower \cup upper) :
                     /\ Cardinality(below(row[k])) = PartNum \div 2
                     /\ \A j \in Parts \ {k} : row[j] # row[k]}
  IN  IF \/ Cardinality(lower) >= PartNum \div 2
         \/ Cardinality(upper) >= PartNum \div 2
         \/ median = {}
      THEN 0
      ELSE row[CHOOSE k \in median : TRUE]

=============================================================================

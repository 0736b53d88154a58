----------------------------- MODULE MemoryProofs -----------------------------
(***************************************************************************)
(* Arrays and memory pools, for any number of threads, arrays and pools    *)
(* and any room on the device: no block is in two hands or lost, work of   *)
(* one thread never reaches a block that another one has, and what an      *)
(* array holds is what the program put there.                              *)
(***************************************************************************)
EXTENDS Memory, SequenceTheorems, FiniteSetTheorems, WellFoundedInduction, TLAPS

(* The least of a set of numbers, for arguments by least counterexample.   *)
LessOnNat == {pair \in Nat \X Nat : pair[1] < pair[2]}

(* Every nonempty set of naturals has a least member.                      *)
LEMMA LeastOf ==
  ASSUME NEW Values, Values \subseteq Nat, Values # {}
  PROVE  \E m \in Values : \A l \in Values : m <= l
<1>1. IsWellFoundedOn(LessOnNat, Nat)
  BY NatLessThanWellFounded DEF OpToRel, LessOnNat
<1>2. PICK m \in Values : \A l \in Values : ~ (<<l, m>> \in LessOnNat)
  BY <1>1, WFMin
<1>3. \A l \in Values : ~ (l < m)
  BY <1>2 DEF LessOnNat
<1> QED
  BY <1>3

(* A sequence of anything.                                                 *)
List(q) == \E S : q \in Seq(S)

(* A function on 1 .. n is a sequence.                                     *)
LEMMA ListOf ==
  ASSUME NEW n \in Nat, NEW q, q = [j \in 1 .. n |-> q[j]]
  PROVE  List(q) /\ Len(q) = n /\ DOMAIN q = 1 .. n
<1> DEFINE S == {q[j] : j \in 1 .. n}
<1>1. q \in [1 .. n -> S]
  OBVIOUS
<1>2. q \in Seq(S)
  BY <1>1, SeqDef
<1> HIDE DEF S
<1>3. Len(q) = n
  BY <1>1, <1>2, LenProperties
<1> QED
  BY <1>2, <1>1 DEF List

(* What is known of a sequence of anything.                                *)
LEMMA ListIs ==
  ASSUME NEW q, List(q)
  PROVE  Len(q) \in Nat /\ DOMAIN q = 1 .. Len(q) /\ q = [j \in 1 .. Len(q) |-> q[j]]
<1>1. PICK S : q \in Seq(S)
  BY DEF List
<1>2. Len(q) \in Nat /\ q \in [1 .. Len(q) -> S]
  BY <1>1, LenProperties
<1> QED
  BY <1>2

(* The empty sequence, and one element more, at the end; one element less, *)
(* at the front.                                                           *)
LEMMA ListEmpty == List(<< >>) /\ Len(<< >>) = 0 /\ DOMAIN << >> = {}
<1>1. << >> \in Seq({})
  OBVIOUS
<1> QED
  BY <1>1 DEF List

(* A sequence with one element more.                                       *)
LEMMA ListAppend ==
  ASSUME NEW q, NEW e, List(q)
  PROVE  /\ List(Append(q, e)) /\ Len(Append(q, e)) = Len(q) + 1 /\ Len(q) \in Nat
         /\ \A j \in 1 .. Len(q) : Append(q, e)[j] = q[j]
         /\ Append(q, e)[Len(q) + 1] = e
<1>1. Len(q) \in Nat /\ q = [j \in 1 .. Len(q) |-> q[j]]
  BY ListIs
<1> DEFINE S == {q[j] : j \in 1 .. Len(q)} \cup {e}
<1>2. q \in [1 .. Len(q) -> S] /\ e \in S
  BY <1>1
<1>3. q \in Seq(S)
  BY <1>1, <1>2, SeqDef
<1> HIDE DEF S
<1>4. /\ Append(q, e) \in Seq(S) /\ Len(Append(q, e)) = Len(q) + 1
      /\ \A j \in 1 .. Len(q) : Append(q, e)[j] = q[j]
      /\ Append(q, e)[Len(q) + 1] = e
  BY <1>2, <1>3, AppendProperties
<1> QED
  BY <1>1, <1>4 DEF List

(* Two sequences, one after the other.                                     *)
LEMMA ListConcat ==
  ASSUME NEW q, NEW r, List(q), List(r)
  PROVE  /\ List(q \o r) /\ Len(q \o r) = Len(q) + Len(r) /\ Len(q) \in Nat /\ Len(r) \in Nat
         /\ \A j \in 1 .. Len(q) : (q \o r)[j] = q[j]
         /\ \A j \in 1 .. Len(r) : (q \o r)[Len(q) + j] = r[j]
<1>1. /\ Len(q) \in Nat /\ q = [j \in 1 .. Len(q) |-> q[j]]
      /\ Len(r) \in Nat /\ r = [j \in 1 .. Len(r) |-> r[j]]
  BY ListIs
<1> DEFINE S == {q[j] : j \in 1 .. Len(q)} \cup {r[j] : j \in 1 .. Len(r)}
<1>2. q \in [1 .. Len(q) -> S] /\ r \in [1 .. Len(r) -> S]
  BY <1>1
<1>3. q \in Seq(S) /\ r \in Seq(S)
  BY <1>1, <1>2, SeqDef
<1> HIDE DEF S
<1>4. /\ q \o r \in Seq(S) /\ Len(q \o r) = Len(q) + Len(r)
      /\ \A j \in 1 .. Len(q) + Len(r) : (q \o r)[j] = IF j <= Len(q) THEN q[j] ELSE r[j - Len(q)]
  BY <1>3, ConcatProperties
<1> QED
  BY <1>1, <1>4 DEF List

(* A sequence without its first element.                                   *)
LEMMA ListTail ==
  ASSUME NEW q, List(q), q # << >>
  PROVE  /\ List(Tail(q)) /\ Len(Tail(q)) = Len(q) - 1 /\ Len(q) \in Nat \ {0} /\ Head(q) = q[1]
         /\ \A j \in 1 .. Len(q) - 1 : Tail(q)[j] = q[j + 1]
<1>1. PICK S : q \in Seq(S)
  BY DEF List
<1>2. /\ Tail(q) \in Seq(S) /\ Len(Tail(q)) = Len(q) - 1 /\ Head(q) = q[1]
      /\ \A j \in 1 .. Len(q) - 1 : Tail(q)[j] = q[j + 1]
  BY <1>1, HeadTailProperties
<1>3. Len(q) \in Nat /\ Len(q) # 0
  BY <1>1, LenProperties, EmptySeq
<1> QED
  BY <1>2, <1>3 DEF List

-----------------------------------------------------------------------------
(* Memory is a table of blocks, each a sequence of words.                  *)
Table(m)  == m = [a \in DOMAIN m |-> m[a]]
Blocks(m) == Table(m) /\ \A a \in DOMAIN m : List(m[a])

(* The word at place i of the block an operation writes.                   *)
WordAfter(m, o, i) ==
  IF i <= o.first \/ i > o.last THEN m[o.dst][i]
  ELSE CASE o.op = "copy" -> m[o.src][i]
         [] o.op = "write" -> o.vals[i]
         [] o.op = "zero" -> 0
         [] OTHER -> Increased(m[o.dst][i])

(* One operation changes the block it writes and no other.                 *)
LEMMA PerformIs ==
  ASSUME NEW m, NEW o, Table(m)
  PROVE  /\ Table(Perform(m, o)) /\ DOMAIN Perform(m, o) = DOMAIN m
         /\ \A a \in DOMAIN m : a # o.dst => Perform(m, o)[a] = m[a]
         /\ o.dst \in DOMAIN m =>
              Perform(m, o)[o.dst] = [i \in DOMAIN m[o.dst] |-> WordAfter(m, o, i)]
<1> DEFINE block == [i \in DOMAIN m[o.dst] |-> WordAfter(m, o, i)]
<1>1. Perform(m, o) = [m EXCEPT ![o.dst] = block]
  BY DEF Perform, WordAfter
<1> HIDE DEF block
<1>2. [m EXCEPT ![o.dst] = block] = [a \in DOMAIN m |-> IF a = o.dst THEN block ELSE m[a]]
  BY DEF Table
<1>3. Perform(m, o) = [a \in DOMAIN m |-> IF a = o.dst THEN block ELSE m[a]]
  BY <1>1, <1>2
<1>4. DOMAIN Perform(m, o) = DOMAIN m /\ \A a \in DOMAIN m : Perform(m, o)[a] = IF a = o.dst THEN block ELSE m[a]
  BY <1>3
<1>5. Table(Perform(m, o))
  BY <1>3, <1>4 DEF Table
<1> QED
  BY <1>4, <1>5 DEF block

(* An operation leaves every block alone but its destination,              *)
LEMMA PerformElsewhere ==
  ASSUME NEW m, NEW o, Table(m), NEW a \in DOMAIN m, a # o.dst
  PROVE  Perform(m, o)[a] = m[a]
BY PerformIs

(* and what it makes of that block, word by word.                          *)
LEMMA PerformThere ==
  ASSUME NEW m, NEW o, Table(m), o.dst \in DOMAIN m
  PROVE  Perform(m, o)[o.dst] = [i \in DOMAIN m[o.dst] |-> WordAfter(m, o, i)]
BY PerformIs

(* g[i] is the memory after the first i operations of q.                   *)
Path(g, m, q, n) ==
  /\ g = [i \in 0 .. n |-> g[i]]
  /\ g[0] = m
  /\ \A i \in 1 .. n : g[i] = Perform(g[i - 1], q[i])

(* The tables on the way through the first n operations exist: by the      *)
(* least number for which they would not.                                  *)
LEMMA PathExists ==
  ASSUME NEW m, NEW q, NEW n \in Nat
  PROVE  \E g : Path(g, m, q, n)
<1> DEFINE Bad == {k \in Nat : ~ \E g : Path(g, m, q, k)}
<1> SUFFICES ASSUME Bad # {} PROVE FALSE
  OBVIOUS
<1>1. Bad \subseteq Nat
  OBVIOUS
<1>2. PICK k \in Bad : \A l \in Bad : k <= l
  <2> HIDE DEF Bad
  <2> QED
    BY <1>1, LeastOf
<1>3. CASE k = 0
  <2> DEFINE g == [i \in 0 .. 0 |-> m]
  <2>1. Path(g, m, q, 0)
    BY DEF Path
  <2> QED
    BY <1>2, <1>3, <2>1
<1>4. CASE k # 0
  <2>1. k \in Nat /\ k - 1 \in Nat /\ k - 1 \notin Bad
    BY <1>2, <1>4
  <2>2. PICK g : Path(g, m, q, k - 1)
    BY <2>1
  <2> DEFINE h == [i \in 0 .. k |-> IF i = k THEN Perform(g[k - 1], q[k]) ELSE g[i]]
  <2>3. h = [i \in 0 .. k |-> h[i]] /\ h[0] = m
    BY <1>4, <2>1, <2>2 DEF Path
  <2>4. \A i \in 1 .. k : h[i] = Perform(h[i - 1], q[i])
    <3> SUFFICES ASSUME NEW i \in 1 .. k PROVE h[i] = Perform(h[i - 1], q[i])
      OBVIOUS
    <3>1. h[i - 1] = g[i - 1]
      BY <2>1
    <3>2. CASE i = k
      BY <2>1, <3>1, <3>2
    <3>3. CASE i # k
      <4>1. i \in 1 .. k - 1 /\ h[i] = g[i]
        BY <2>1, <3>3
      <4> QED
        BY <2>2, <3>1, <4>1 DEF Path
    <3> QED
      BY <3>2, <3>3
  <2> HIDE DEF h
  <2>5. Path(h, m, q, k)
    BY <2>3, <2>4 DEF Path
  <2> QED
    BY <1>2, <2>5
<1> QED
  BY <1>3, <1>4

(* Paths over sequences that begin alike are alike.                        *)
LEMMA PathUnique ==
  ASSUME NEW m, NEW q, NEW r, NEW n \in Nat, NEW g, NEW h,
         Path(g, m, q, n), Path(h, m, r, n), \A i \in 1 .. n : q[i] = r[i]
  PROVE  \A i \in 0 .. n : g[i] = h[i]
<1> DEFINE Bad == {k \in 0 .. n : g[k] # h[k]}
<1> SUFFICES ASSUME Bad # {} PROVE FALSE
  OBVIOUS
<1>1. Bad \subseteq Nat
  OBVIOUS
<1>2. PICK k \in Bad : \A l \in Bad : k <= l
  <2> HIDE DEF Bad
  <2> QED
    BY <1>1, LeastOf
<1>3. k # 0 /\ k \in 1 .. n /\ k - 1 \in 0 .. n /\ k - 1 \notin Bad
  BY <1>2 DEF Path
<1>4. g[k - 1] = h[k - 1]
  BY <1>3
<1>5. g[k] = Perform(g[k - 1], q[k]) /\ h[k] = Perform(h[k - 1], r[k]) /\ q[k] = r[k]
  BY <1>3 DEF Path
<1> QED
  BY <1>2, <1>4, <1>5

(* What the device has when it is done with a stream is the end of a path. *)
LEMMA RanPath ==
  ASSUME NEW m, NEW q, Len(q) \in Nat
  PROVE  /\ \E g : Path(g, m, q, Len(q))
         /\ \A g : Path(g, m, q, Len(q)) => Ran(m, q) = g[Len(q)]
<1> DEFINE n    == Len(q)
           done == CHOOSE g : g = [i \in 0 .. n |-> IF i = 0 THEN m ELSE Perform(g[i - 1], q[i])]
<1>1. PICK g : Path(g, m, q, n)
  BY PathExists
<1>2. g = [i \in 0 .. n |-> IF i = 0 THEN m ELSE Perform(g[i - 1], q[i])]
  <2>1. \A i \in 0 .. n : g[i] = IF i = 0 THEN m ELSE Perform(g[i - 1], q[i])
    BY <1>1 DEF Path
  <2> QED
    BY <1>1, <2>1 DEF Path
<1>3. done = [i \in 0 .. n |-> IF i = 0 THEN m ELSE Perform(done[i - 1], q[i])]
  BY <1>2
<1>4. Ran(m, q) = done[n]
  BY DEF Ran
<1> HIDE DEF done
<1>5. Path(done, m, q, n)
  <2>1. \A i \in 0 .. n : done[i] = IF i = 0 THEN m ELSE Perform(done[i - 1], q[i])
    BY <1>3
  <2>2. done = [i \in 0 .. n |-> done[i]]
    BY <1>3
  <2> QED
    BY <2>1, <2>2 DEF Path
<1>6. ASSUME NEW h, Path(h, m, q, n) PROVE Ran(m, q) = h[n]
  <2>1. \A i \in 0 .. n : done[i] = h[i]
    BY <1>5, <1>6, PathUnique
  <2> QED
    BY <1>4, <2>1
<1> QED
  BY <1>5, <1>6

(* Nothing to do; one thing more to do, at the end; the first thing done.  *)
LEMMA RanNothing == ASSUME NEW m PROVE Ran(m, << >>) = m
<1>1. Len(<< >>) = 0
  OBVIOUS
<1>2. PICK g : Path(g, m, << >>, 0)
  BY PathExists
<1> QED
  BY <1>1, <1>2, RanPath DEF Path

(* One operation more is performed after all the others,                   *)
LEMMA RanAppend ==
  ASSUME NEW m, NEW q, NEW o, List(q)
  PROVE  Ran(m, Append(q, o)) = Perform(Ran(m, q), o)
<1> DEFINE n == Len(q)
           r == Append(q, o)
<1>1. /\ n \in Nat /\ Len(r) = n + 1 /\ r[n + 1] = o /\ \A i \in 1 .. n : r[i] = q[i]
  BY ListAppend
<1> HIDE DEF n, r
<1>2. PICK g : Path(g, m, r, n + 1)
  BY <1>1, PathExists
<1> DEFINE h == [i \in 0 .. n |-> g[i]]
<1>3. Path(h, m, q, n)
  <2>1. h = [i \in 0 .. n |-> h[i]] /\ h[0] = m
    BY <1>1, <1>2 DEF Path
  <2>2. ASSUME NEW i \in 1 .. n PROVE h[i] = Perform(h[i - 1], q[i])
    <3>1. h[i] = g[i] /\ h[i - 1] = g[i - 1] /\ i \in 1 .. n + 1
      BY <1>1
    <3> HIDE DEF h
    <3> QED
      BY <1>1, <1>2, <3>1 DEF Path
  <2> HIDE DEF h
  <2> QED
    BY <2>1, <2>2 DEF Path
<1>4. h[n] = g[n] /\ g[n + 1] = Perform(g[n], o)
  <2>1. n + 1 \in 1 .. n + 1 /\ n + 1 - 1 = n /\ n \in 0 .. n
    BY <1>1
  <2>2. \A j \in 1 .. n + 1 : g[j] = Perform(g[j - 1], r[j])
    BY <1>2 DEF Path
  <2>3. g[n + 1] = Perform(g[n + 1 - 1], r[n + 1])
    BY <2>1, <2>2
  <2> QED
    BY <1>1, <2>1, <2>3
<1> HIDE DEF h
<1>5. Ran(m, r) = g[n + 1]
  BY <1>1, <1>2, RanPath
<1>6. Ran(m, q) = h[n]
  BY <1>1, <1>3, RanPath DEF n
<1> QED
  BY <1>4, <1>5, <1>6 DEF r

(* and the first one before all the others.                                *)
LEMMA RanHead ==
  ASSUME NEW m, NEW q, List(q), q # << >>
  PROVE  Ran(m, q) = Ran(Perform(m, Head(q)), Tail(q))
<1> DEFINE n == Len(q)
           r == Tail(q)
           k == n - 1
<1>1. /\ n \in Nat \ {0} /\ Len(r) = k /\ k \in Nat /\ Head(q) = q[1] /\ \A i \in 1 .. k : r[i] = q[i + 1]
  BY ListTail
<1> HIDE DEF n, r
<1>2. PICK g : Path(g, m, q, n)
  BY <1>1, PathExists
<1> DEFINE h == [i \in 0 .. k |-> g[i + 1]]
<1>3. Path(h, Perform(m, Head(q)), r, k)
  <2>1. h = [i \in 0 .. k |-> h[i]] /\ h[0] = g[1]
    BY <1>1
  <2>2. g[1] = Perform(m, q[1])
    <3>1. 1 \in 1 .. n /\ 1 - 1 = 0
      BY <1>1
    <3>2. g[1] = Perform(g[1 - 1], q[1]) /\ g[0] = m
      BY <1>2, <3>1 DEF Path
    <3> QED
      BY <3>1, <3>2
  <2>3. ASSUME NEW i \in 1 .. k PROVE h[i] = Perform(h[i - 1], r[i])
    <3>1. h[i] = g[i + 1] /\ h[i - 1] = g[i] /\ i + 1 \in 1 .. n /\ i + 1 - 1 = i
      BY <1>1
    <3> HIDE DEF h
    <3>2. \A j \in 1 .. n : g[j] = Perform(g[j - 1], q[j])
      BY <1>2 DEF Path
    <3>3. g[i + 1] = Perform(g[i + 1 - 1], q[i + 1])
      BY <3>1, <3>2
    <3> QED
      BY <1>1, <3>1, <3>3
  <2> HIDE DEF h
  <2> QED
    BY <1>1, <2>1, <2>2, <2>3 DEF Path
<1>4. h[k] = g[n]
  BY <1>1
<1> HIDE DEF h
<1>5. Ran(m, q) = g[n]
  BY <1>1, <1>2, RanPath DEF n
<1>6. Ran(Perform(m, Head(q)), r) = h[k]
  BY <1>1, <1>3, RanPath
<1> QED
  BY <1>4, <1>5, <1>6 DEF r

(* The same blocks, with perhaps other words in them.                      *)
SameShape(m, w) == /\ Blocks(w) /\ DOMAIN w = DOMAIN m
                   /\ \A a \in DOMAIN m : Len(w[a]) = Len(m[a])

(* An operation keeps the blocks and their lengths.                        *)
LEMMA PerformShape ==
  ASSUME NEW m, NEW o, Blocks(m)
  PROVE  SameShape(m, Perform(m, o))
<1> DEFINE w == Perform(m, o)
<1>1. /\ Table(w) /\ DOMAIN w = DOMAIN m
      /\ \A a \in DOMAIN m : a # o.dst => w[a] = m[a]
      /\ o.dst \in DOMAIN m => w[o.dst] = [i \in DOMAIN m[o.dst] |-> WordAfter(m, o, i)]
  BY PerformIs DEF Blocks
<1> HIDE DEF w
<1>2. ASSUME NEW a \in DOMAIN m PROVE List(w[a]) /\ Len(w[a]) = Len(m[a])
  <2>1. CASE a # o.dst
    BY <1>1, <2>1 DEF Blocks
  <2>2. CASE a = o.dst
    <3> DEFINE b == w[a]
               n == Len(m[a])
    <3>1. n \in Nat /\ DOMAIN m[a] = 1 .. n
      BY ListIs DEF Blocks
    <3>2. b = [i \in 1 .. n |-> WordAfter(m, o, i)]
      BY <1>1, <2>2, <3>1
    <3> HIDE DEF b, n
    <3>3. b = [i \in 1 .. n |-> b[i]]
      BY <3>2
    <3>4. List(b) /\ Len(b) = n
      BY <3>1, <3>3, ListOf
    <3> QED
      BY <3>4 DEF b, n
  <2> QED
    BY <2>1, <2>2
<1> QED
  BY <1>1, <1>2 DEF SameShape, Blocks, w

(* Keeping blocks and lengths is transitive.                               *)
LEMMA ShapeChain ==
  ASSUME NEW m, NEW w, NEW v, SameShape(m, w), SameShape(w, v)
  PROVE  SameShape(m, v)
BY DEF SameShape

(* A stream changes the words of the blocks it writes, and nothing else.   *)
LEMMA RanKeeps ==
  ASSUME NEW m, NEW q, Blocks(m), Len(q) \in Nat
  PROVE  /\ SameShape(m, Ran(m, q))
         /\ \A a \in DOMAIN m : (\A i \in 1 .. Len(q) : q[i].dst # a) => Ran(m, q)[a] = m[a]
<1> DEFINE n == Len(q)
           Kept(w) == /\ SameShape(m, w)
                      /\ \A a \in DOMAIN m : (\A i \in 1 .. n : q[i].dst # a) => w[a] = m[a]
<1>1. PICK g : Path(g, m, q, n)
  BY PathExists
<1> DEFINE Bad == {k \in 0 .. n : ~ Kept(g[k])}
<1>2. Bad = {}
  <2> SUFFICES ASSUME Bad # {} PROVE FALSE
    OBVIOUS
  <2>1. Bad \subseteq Nat
    OBVIOUS
  <2>2. PICK k \in Bad : \A l \in Bad : k <= l
    <3> HIDE DEF Bad
    <3> QED
      BY <2>1, LeastOf
  <2>3. CASE k = 0
    <3>1. g[0] = m
      BY <1>1 DEF Path
    <3>2. Kept(m)
      BY DEF SameShape
    <3> QED
      BY <2>2, <2>3, <3>1, <3>2
  <2>4. CASE k # 0
    <3>1. k \in 1 .. n /\ k - 1 \in 0 .. n /\ k - 1 \notin Bad
      BY <2>2, <2>4
    <3>2. Kept(g[k - 1])
      BY <3>1
    <3>3. g[k] = Perform(g[k - 1], q[k])
      BY <1>1, <3>1 DEF Path
    <3>4. SameShape(g[k - 1], g[k])
      BY <3>2, <3>3, PerformShape DEF SameShape
    <3>5. SameShape(m, g[k])
      BY <3>2, <3>4, ShapeChain
    <3>6. \A a \in DOMAIN m : q[k].dst # a => g[k][a] = g[k - 1][a]
      <4> DEFINE v == g[k - 1]
                 o == q[k]
      <4>1. Table(v) /\ DOMAIN v = DOMAIN m /\ g[k] = Perform(v, o)
        BY <3>2, <3>3 DEF SameShape, Blocks
      <4> HIDE DEF v, o
      <4>2. \A a \in DOMAIN v : a # o.dst => Perform(v, o)[a] = v[a]
        BY <4>1, PerformElsewhere
      <4> QED
        BY <4>1, <4>2 DEF v, o
    <3>7. Kept(g[k])
      BY <3>1, <3>2, <3>5, <3>6
    <3> QED
      BY <2>2, <3>7
  <2> QED
    BY <2>3, <2>4
<1>3. n \in 0 .. n
  OBVIOUS
<1>4. Kept(g[n])
  BY <1>2, <1>3
<1>5. Ran(m, q) = g[n]
  BY <1>1, RanPath
<1> QED
  BY <1>4, <1>5

(* The operations of q work on the blocks of F.                            *)
Within(q, F) == \A i \in 1 .. Len(q) : q[i].dst \in F /\ (q[i].op = "copy" => q[i].src \in F)

(* Memories that agree there agree there afterwards.                       *)
Agreeing(m, w, F) == F \subseteq DOMAIN m /\ F \subseteq DOMAIN w /\ \A a \in F : m[a] = w[a]

(* Tables that agree on the blocks an operation works on agree on them     *)
(* after it,                                                               *)
LEMMA PerformAgrees ==
  ASSUME NEW m, NEW w, NEW o, NEW F, Table(m), Table(w), Agreeing(m, w, F),
         o.dst \in F, o.op = "copy" => o.src \in F
  PROVE  Agreeing(Perform(m, o), Perform(w, o), F)
<1>1. ASSUME NEW a \in F, a # o.dst PROVE Perform(m, o)[a] = Perform(w, o)[a]
  <2>1. a \in DOMAIN m /\ a \in DOMAIN w /\ m[a] = w[a]
    BY DEF Agreeing
  <2>2. Perform(m, o)[a] = m[a] /\ Perform(w, o)[a] = w[a]
    BY <1>1, <2>1, PerformElsewhere
  <2> QED
    BY <2>1, <2>2
<1>2. Perform(m, o)[o.dst] = Perform(w, o)[o.dst]
  <2>1. o.dst \in DOMAIN m /\ o.dst \in DOMAIN w /\ m[o.dst] = w[o.dst] /\ (o.op = "copy" => m[o.src] = w[o.src])
    BY DEF Agreeing
  <2>2. /\ Perform(m, o)[o.dst] = [i \in DOMAIN m[o.dst] |-> WordAfter(m, o, i)]
        /\ Perform(w, o)[o.dst] = [i \in DOMAIN w[o.dst] |-> WordAfter(w, o, i)]
    BY <2>1, PerformThere
  <2>3. ASSUME NEW i PROVE WordAfter(m, o, i) = WordAfter(w, o, i)
    BY <2>1 DEF WordAfter
  <2> QED
    BY <2>1, <2>2, <2>3
<1>3. DOMAIN Perform(m, o) = DOMAIN m /\ DOMAIN Perform(w, o) = DOMAIN w
  BY PerformIs
<1> QED
  BY <1>1, <1>2, <1>3 DEF Agreeing

(* and so they do after a whole stream: what a stream makes of its blocks  *)
(* does not depend on any other block.                                     *)
LEMMA RanAgrees ==
  ASSUME NEW m, NEW w, NEW q, NEW F, Blocks(m), Blocks(w), Len(q) \in Nat,
         Agreeing(m, w, F), Within(q, F)
  PROVE  Agreeing(Ran(m, q), Ran(w, q), F)
<1> DEFINE n == Len(q)
           Agree(v, x) == SameShape(m, v) /\ SameShape(w, x) /\ Agreeing(v, x, F)
<1>1. PICK g : Path(g, m, q, n)
  BY PathExists
<1>2. PICK h : Path(h, w, q, n)
  BY PathExists
<1> DEFINE Bad == {k \in 0 .. n : ~ Agree(g[k], h[k])}
<1>3. Bad = {}
  <2> SUFFICES ASSUME Bad # {} PROVE FALSE
    OBVIOUS
  <2>1. Bad \subseteq Nat
    OBVIOUS
  <2>2. PICK k \in Bad : \A l \in Bad : k <= l
    <3> HIDE DEF Bad
    <3> QED
      BY <2>1, LeastOf
  <2>3. CASE k = 0
    <3>1. g[0] = m /\ h[0] = w
      BY <1>1, <1>2 DEF Path
    <3>2. Agree(m, w)
      BY DEF SameShape
    <3> QED
      BY <2>2, <2>3, <3>1, <3>2
  <2>4. CASE k # 0
    <3>1. k \in 1 .. n /\ k - 1 \in 0 .. n /\ k - 1 \notin Bad
      BY <2>2, <2>4
    <3>2. Agree(g[k - 1], h[k - 1])
      BY <3>1
    <3>3. g[k] = Perform(g[k - 1], q[k]) /\ h[k] = Perform(h[k - 1], q[k])
      BY <1>1, <1>2, <3>1 DEF Path
    <3>4. SameShape(g[k - 1], g[k]) /\ SameShape(h[k - 1], h[k])
      BY <3>2, <3>3, PerformShape DEF SameShape
    <3>5. SameShape(m, g[k]) /\ SameShape(w, h[k])
      BY <3>2, <3>4, ShapeChain
    <3>6. q[k].dst \in F /\ (q[k].op = "copy" => q[k].src \in F)
      BY <3>1 DEF Within
    <3>7. /\ Table(g[k - 1]) /\ Table(h[k - 1]) /\ Agreeing(g[k - 1], h[k - 1], F)
      BY <3>2 DEF SameShape, Blocks
    <3>8. Agreeing(g[k], h[k], F)
      BY <3>3, <3>6, <3>7, PerformAgrees
    <3>9. Agree(g[k], h[k])
      BY <3>5, <3>8
    <3> QED
      BY <2>2, <3>9
  <2> QED
    BY <2>3, <2>4
<1>4. n \in 0 .. n
  OBVIOUS
<1>5. Agree(g[n], h[n])
  BY <1>3, <1>4
<1>6. Ran(m, q) = g[n] /\ Ran(w, q) = h[n]
  BY <1>1, <1>2, RanPath
<1> QED
  BY <1>5, <1>6

(* When the device is done with every thread's stream, and no two of them  *)
(* work on the same blocks, each thread's blocks hold what they would hold *)
(* had its stream run alone.                                               *)
LEMMA SyncIs ==
  ASSUME NEW F, Blocks(mem), NumThreads \in Nat, \A t \in Threads : List(streams[t]),
         \A t \in Threads : F[t] \subseteq DOMAIN mem /\ Within(streams[t], F[t]),
         \A t, u \in Threads : t # u => F[t] \cap F[u] = {}
  PROVE  /\ SameShape(mem, cudaDeviceSynchronize(mem))
         /\ \A t \in Threads : \A a \in F[t] : cudaDeviceSynchronize(mem)[a] = Finished(mem, t)[a]
<1> DEFINE n    == NumThreads
           done == CHOOSE g : g = [t \in 0 .. n |-> IF t = 0 THEN mem ELSE Finished(g[t - 1], t)]
           step == [t \in 0 .. n |-> t]
<1>1. \E g : g = [t \in 0 .. n |-> IF t = 0 THEN mem ELSE Finished(g[t - 1], t)]
  <2> DEFINE Bad == {k \in Nat : ~ \E g : g = [t \in 0 .. k |-> IF t = 0 THEN mem ELSE Finished(g[t - 1], t)]}
  <2> SUFFICES ASSUME Bad # {} PROVE FALSE
    OBVIOUS
  <2>1. Bad \subseteq Nat
    OBVIOUS
  <2>2. PICK k \in Bad : \A l \in Bad : k <= l
    <3> HIDE DEF Bad
    <3> QED
      BY <2>1, LeastOf
  <2>3. CASE k = 0
    <3> DEFINE g == [t \in 0 .. 0 |-> mem]
    <3>1. g = [t \in 0 .. 0 |-> IF t = 0 THEN mem ELSE Finished(g[t - 1], t)]
      OBVIOUS
    <3> QED
      BY <2>2, <2>3, <3>1
  <2>4. CASE k # 0
    <3>1. k \in Nat /\ k - 1 \in Nat /\ k - 1 \notin Bad
      <4> HIDE DEF Bad
      <4> QED
        BY <2>1, <2>2, <2>4
    <3>2. PICK g : g = [t \in 0 .. k - 1 |-> IF t = 0 THEN mem ELSE Finished(g[t - 1], t)]
      BY <3>1
    <3> DEFINE h == [t \in 0 .. k |-> IF t = k THEN Finished(g[k - 1], k) ELSE g[t]]
    <3>3. \A t \in 0 .. k : h[t] = IF t = 0 THEN mem ELSE Finished(h[t - 1], t)
      <4> SUFFICES ASSUME NEW t \in 0 .. k PROVE h[t] = IF t = 0 THEN mem ELSE Finished(h[t - 1], t)
        OBVIOUS
      <4>1. CASE t = 0
        <5>1. h[0] = g[0] /\ 0 \in 0 .. k - 1
          BY <2>4, <3>1
        <5>2. g[0] = mem
          BY <3>2, <5>1
        <5> QED
          BY <4>1, <5>1, <5>2
      <4>2. CASE t # 0
        <5>1. h[t - 1] = g[t - 1] /\ t - 1 \in 0 .. k - 1
          BY <3>1, <4>2
        <5>2. CASE t = k
          BY <4>2, <5>1, <5>2
        <5>3. CASE t # k
          <6>1. h[t] = g[t] /\ t \in 0 .. k - 1
            BY <3>1, <5>3
          <6> HIDE DEF h
          <6>2. g[t] = Finished(g[t - 1], t)
            BY <3>2, <4>2, <6>1
          <6> QED
            BY <4>2, <5>1, <6>1, <6>2
        <5> QED
          BY <5>2, <5>3
      <4> QED
        BY <4>1, <4>2
    <3>4. h = [t \in 0 .. k |-> h[t]]
      OBVIOUS
    <3> HIDE DEF h
    <3>5. h = [t \in 0 .. k |-> IF t = 0 THEN mem ELSE Finished(h[t - 1], t)]
      BY <3>3, <3>4
    <3> QED
      BY <2>2, <3>5
  <2> QED
    BY <2>3, <2>4
<1>2. done = [t \in 0 .. n |-> IF t = 0 THEN mem ELSE Finished(done[t - 1], t)]
  BY <1>1
<1>3. cudaDeviceSynchronize(mem) = done[n]
  BY DEF cudaDeviceSynchronize
<1> HIDE DEF done
<1>4. \A t \in 0 .. n : done[t] = IF t = 0 THEN mem ELSE Finished(done[t - 1], t)
  BY <1>2
<1> DEFINE Alone(u) == Ran(mem, streams[u])
           Right(k) == /\ SameShape(mem, done[k])
                       /\ \A u \in Threads : \A a \in F[u] :
                            done[k][a] = IF u <= k THEN Alone(u)[a] ELSE mem[a]
           Bad == {k \in 0 .. n : ~ Right(k)}
<1>5. Bad = {}
  <2> SUFFICES ASSUME Bad # {} PROVE FALSE
    OBVIOUS
  <2>1. Bad \subseteq Nat
    OBVIOUS
  <2>2. PICK k \in Bad : \A l \in Bad : k <= l
    <3> HIDE DEF Bad
    <3> QED
      BY <2>1, LeastOf
  <2>3. CASE k = 0
    <3>1. done[0] = mem
      BY <1>4
    <3>2. SameShape(mem, mem)
      BY DEF SameShape
    <3>3. \A u \in Threads : ~ (u <= 0)
      BY DEF Threads
    <3>4. Right(0)
      BY <3>1, <3>2, <3>3
    <3> QED
      BY <2>2, <2>3, <3>4
  <2>4. CASE k # 0
    <3>1. k \in Threads /\ k - 1 \in 0 .. n /\ k \in 0 .. n /\ k - 1 \notin Bad
      BY <2>2, <2>4 DEF Threads
    <3>2. Right(k - 1)
      BY <3>1
    <3> DEFINE v == done[k - 1]
               q == streams[k]
    <3>3. done[k] = Ran(v, q)
      BY <1>4, <2>4, <3>1 DEF Finished
    <3>4. Blocks(v) /\ DOMAIN v = DOMAIN mem /\ Len(q) \in Nat /\ SameShape(mem, v)
      BY <3>1, <3>2, ListIs DEF SameShape
    <3> HIDE DEF v, q
    <3>5. SameShape(v, Ran(v, q)) /\ \A a \in DOMAIN v : (\A i \in 1 .. Len(q) : q[i].dst # a) => Ran(v, q)[a] = v[a]
      BY <3>4, RanKeeps
    <3>6. SameShape(mem, done[k])
      BY <3>3, <3>4, <3>5, ShapeChain
    <3>7. ASSUME NEW u \in Threads, NEW a \in F[u]
          PROVE  done[k][a] = IF u <= k THEN Alone(u)[a] ELSE mem[a]
      <4>1. v[a] = IF u <= k - 1 THEN Alone(u)[a] ELSE mem[a]
        BY <3>2 DEF v
      <4>2. u \in Nat /\ k \in Nat /\ a \in DOMAIN v
        BY <3>1, <3>4 DEF Threads
      <4>3. CASE u = k
        <5>1. \A b \in F[k] : v[b] = mem[b]
          <6>1. ~ (k <= k - 1)
            BY <4>2
          <6> QED
            BY <3>1, <3>2, <6>1 DEF v
        <5>2. Within(q, F[k]) /\ F[k] \subseteq DOMAIN mem
          BY <3>1 DEF q
        <5>3. Agreeing(v, mem, F[k])
          BY <3>4, <5>1, <5>2 DEF Agreeing
        <5>4. Agreeing(Ran(v, q), Ran(mem, q), F[k])
          BY <3>4, <5>2, <5>3, RanAgrees
        <5> QED
          BY <3>3, <4>2, <4>3, <5>4 DEF q, Agreeing
      <4>4. CASE u # k
        <5>1. \A i \in 1 .. Len(q) : q[i].dst # a
          <6>1. a \notin F[k]
            BY <3>1, <4>4
          <6> QED
            BY <3>1, <6>1 DEF Within, q
        <5>2. done[k][a] = v[a]
          BY <3>3, <3>5, <4>2, <5>1
        <5>3. (u <= k - 1) <=> (u <= k)
          BY <4>2, <4>4
        <5> QED
          BY <4>1, <5>2, <5>3
      <4> QED
        BY <4>3, <4>4
    <3>8. Right(k)
      BY <3>6, <3>7
    <3> QED
      BY <2>2, <3>8
  <2> QED
    BY <2>3, <2>4
<1>6. n \in 0 .. n /\ \A u \in Threads : u <= n
  BY DEF Threads
<1>7. Right(n)
  BY <1>5, <1>6
<1>8. ASSUME NEW t \in Threads, NEW a \in F[t] PROVE done[n][a] = Finished(mem, t)[a]
  BY <1>6, <1>7 DEF Finished
<1> QED
  BY <1>3, <1>7, <1>8

-----------------------------------------------------------------------------
(* The inductive invariant, part by part.  The records the state is made   *)
(* of, with words of any kind:                                             *)
PoolNames   == Pools \cup {NoPool}
Entries     == [size : Nat, ptr : Addresses, thread : Threads]
PoolStates  == [unused : Seq(Entries), allocated : SUBSET Addresses, zombie : SUBSET Addresses,
                destroyed : BOOLEAN, denying : BOOLEAN]
Plans       == [dest : Nat, len : Nat, device : BOOLEAN, pool : PoolNames, from : Nat, take : Nat,
                rest : {0, 1, Garbage}]
Stages      == {"idle", "allocate", "try", "free", "again", "build"}
CallStates  == [stage : Stages, plan : Plans, got : Addresses \cup {0}]
ArrayLike(a) == a \in [pointer : Addresses \cup {0}, len : Nat, device : BOOLEAN, pool : PoolNames,
                       words : {a.words}]
Typed ==
  /\ arrays = [s \in Slots |-> arrays[s]] /\ \A s \in Slots : ArrayLike(arrays[s])
  /\ Blocks(mem) /\ DOMAIN mem \subseteq Addresses
  /\ pools \in [Pools -> PoolStates]
  /\ streams = [t \in Threads |-> streams[t]] /\ \A t \in Threads : List(streams[t])
  /\ running \in [Threads -> CallStates]
  /\ meant = [s \in Slots |-> meant[s]]

(* an array on the host has its words, one on the device has a block, of a *)
(* pool, unless it is empty;                                               *)
SizedAt(s) ==
  /\ meant[s] = [i \in 1 .. arrays[s].len |-> meant[s][i]]
  /\ ~arrays[s].device => /\ arrays[s].pointer = 0
                          /\ arrays[s].words = [i \in 1 .. arrays[s].len |-> arrays[s].words[i]]
  /\ arrays[s].device /\ arrays[s].len > 0 => arrays[s].pointer # 0
  /\ arrays[s].pointer # 0 => arrays[s].pool \in Pools
Sized == \A s \in Slots : SizedAt(s)

(* the blocks of the device are those of the pools, a destroyed pool has   *)
(* none;                                                                   *)
BlocksOwned ==
  /\ \A a \in Addresses : a \in DOMAIN mem <=> \E p \in Pools : a \in pools[p].allocated
  /\ \A p, q \in Pools : \A a \in Addresses : a \in pools[p].allocated /\ a \in pools[q].allocated => p = q
  /\ \A p \in Pools : pools[p].destroyed => pools[p].allocated = {} /\ pools[p].unused = << >>

(* unused blocks are the pool's, each listed once, with its true size;     *)
UnusedOwned ==
  \A p \in Pools : \A i \in 1 .. Len(pools[p].unused) :
    /\ pools[p].unused[i].ptr \in pools[p].allocated
    /\ pools[p].unused[i].size = Len(mem[pools[p].unused[i].ptr])
    /\ \A j \in 1 .. Len(pools[p].unused) : j # i => pools[p].unused[j].ptr # pools[p].unused[i].ptr

(* the block of an array is large enough and neither unused nor another    *)
(* array's, or it is a zombie of a pool that was destroyed;                *)
ArrayOwned(s) ==
  arrays[s].pointer # 0 =>
    /\ pools[arrays[s].pool].destroyed => arrays[s].pointer \in pools[arrays[s].pool].zombie
    /\ ~pools[arrays[s].pool].destroyed =>
         /\ arrays[s].pointer \in pools[arrays[s].pool].allocated
         /\ Len(mem[arrays[s].pointer]) >= arrays[s].len
         /\ \A i \in 1 .. Len(pools[arrays[s].pool].unused) :
              pools[arrays[s].pool].unused[i].ptr # arrays[s].pointer
    /\ \A r \in Slots : r # s /\ arrays[r].pool = arrays[s].pool => arrays[r].pointer # arrays[s].pointer
ArraysOwned == \A s \in Slots : ArrayOwned(s)

(* the block a call has got is large enough and nobody else's;             *)
CallOwned(t) ==
  running[t].got # 0 =>
    /\ running[t].plan.pool \in Pools
    /\ running[t].got \in pools[running[t].plan.pool].allocated
    /\ Len(mem[running[t].got]) >= running[t].plan.len
    /\ \A i \in 1 .. Len(pools[running[t].plan.pool].unused) :
         pools[running[t].plan.pool].unused[i].ptr # running[t].got
    /\ \A s \in Slots : arrays[s].pool = running[t].plan.pool => arrays[s].pointer # running[t].got
    /\ \A u \in Threads : u # t => running[u].got # running[t].got
CallsOwned == \A t \in Threads : CallOwned(t)

(* and every block of a pool is held by somebody.                          *)
HeldBy(p, a) ==
  \/ \E s \in Slots : arrays[s].pointer = a /\ arrays[s].pool = p
  \/ \E t \in Threads : running[t].got = a
  \/ \E i \in 1 .. Len(pools[p].unused) : pools[p].unused[i].ptr = a
NoneLost == \A p \in Pools : \A a \in pools[p].allocated : HeldBy(p, a)

Owned == BlocksOwned /\ UnusedOwned /\ ArraysOwned /\ CallsOwned /\ NoneLost

(* A plan is for a slot of the thread, from a slot of the thread that can  *)
(* be read, and takes no more words than there are on either side.         *)
PlanReady(t, plan) ==
  /\ plan \in Plans
  /\ plan.dest \in Slots /\ ThreadOf(plan.dest) = t
  /\ plan.device => plan.pool \in Pools /\ plan.rest # 1
  /\ plan.from = 0 => plan.take = 0
  /\ plan.from # 0 => /\ plan.from \in Slots /\ ThreadOf(plan.from) = t /\ Usable(plan.from)
                      /\ plan.take <= plan.len /\ plan.take <= arrays[plan.from].len
CallReady(t) ==
  /\ running[t].got # 0 <=> running[t].stage = "build"
  /\ running[t].stage # "idle" =>
       /\ PlanReady(t, running[t].plan) /\ running[t].plan.device /\ running[t].plan.len > 0
       /\ ~pools[running[t].plan.pool].destroyed
CallsReady == \A t \in Threads : CallReady(t)

(* A thread's stream works on the blocks of its arrays and of its call,    *)
(* and on the unused ones that it gave back.                               *)
Mine(t, a) ==
  \/ \E s \in Slots : /\ ThreadOf(s) = t /\ arrays[s].pointer = a
                      /\ ~pools[arrays[s].pool].destroyed
  \/ running[t].got = a
  \/ \E p \in Pools : \E i \in 1 .. Len(pools[p].unused) :
       pools[p].unused[i].ptr = a /\ pools[p].unused[i].thread = t
Foot(t) == {a \in DOMAIN mem : Mine(t, a)}
WorkOwn == \A t \in Threads : Within(streams[t], Foot(t))

KeptAt(s) ==
  Usable(s) /\ arrays[s].len > 0 =>
    Agrees(IF arrays[s].device THEN Finished(mem, ThreadOf(s))[arrays[s].pointer] ELSE arrays[s].words, s)

MemoryInv == Typed /\ Sized /\ Owned /\ CallsReady /\ WorkOwn /\ WordsKept /\ ~fault

-----------------------------------------------------------------------------
(* The constants and the sets named after them.                            *)
LEMMA Names ==
  /\ NumThreads \in Nat \ {0} /\ NumSlots \in Nat /\ Capacity \in Nat
  /\ \A s \in Slots : ThreadOf(s) \in Threads /\ s \in Nat \ {0}
  /\ 1 \in Threads /\ Threads \subseteq Nat
  /\ 0 \notin Addresses /\ Addresses \subseteq Nat /\ NoPool \notin Pools
BY MemoryAssumption DEF Slots, ThreadOf, Threads, Addresses, NoPool

(* The fields of an array, a pool, a call.                                 *)
LEMMA ArrayFields ==
  ASSUME Typed, NEW s \in Slots
  PROVE  /\ arrays[s].pointer \in Addresses \cup {0} /\ arrays[s].len \in Nat /\ arrays[s].device \in BOOLEAN
         /\ arrays[s].pool \in PoolNames
BY DEF Typed, ArrayLike

(* What is known of a pool's fields,                                       *)
LEMMA PoolFields ==
  ASSUME Typed, NEW p \in Pools
  PROVE  /\ pools[p].unused \in Seq(Entries) /\ pools[p].allocated \subseteq Addresses
         /\ pools[p].zombie \subseteq Addresses /\ pools[p].destroyed \in BOOLEAN /\ pools[p].denying \in BOOLEAN
         /\ Len(pools[p].unused) \in Nat
         /\ \A i \in 1 .. Len(pools[p].unused) :
              /\ pools[p].unused[i].size \in Nat /\ pools[p].unused[i].ptr \in Addresses
              /\ pools[p].unused[i].thread \in Threads
<1>1. /\ pools[p].unused \in Seq(Entries) /\ pools[p].allocated \subseteq Addresses
      /\ pools[p].zombie \subseteq Addresses /\ pools[p].destroyed \in BOOLEAN /\ pools[p].denying \in BOOLEAN
  BY DEF Typed, PoolStates
<1>2. Len(pools[p].unused) \in Nat /\ \A i \in 1 .. Len(pools[p].unused) : pools[p].unused[i] \in Entries
  BY <1>1
<1> QED
  BY <1>1, <1>2 DEF Entries

(* and of a call's.                                                        *)
LEMMA CallFields ==
  ASSUME Typed, NEW t \in Threads
  PROVE  /\ running[t].stage \in Stages /\ running[t].got \in Addresses \cup {0}
         /\ running[t].plan \in Plans /\ running[t].plan.len \in Nat /\ running[t].plan.pool \in PoolNames
BY DEF Typed, CallStates, Plans

(* No block is of two threads.                                             *)
LEMMA FootApart ==
  ASSUME Typed, Sized, Owned, NEW t \in Threads, NEW u \in Threads, t # u
  PROVE  Foot(t) \cap Foot(u) = {}
<1> SUFFICES ASSUME NEW a \in DOMAIN mem, Mine(t, a), Mine(u, a) PROVE FALSE
  BY DEF Foot
<1>1. a \in Addresses /\ a # 0
  BY Names DEF Typed
<1>2. \A p, q \in Pools : a \in pools[p].allocated /\ a \in pools[q].allocated => p = q
  BY <1>1 DEF Owned, BlocksOwned
<1>3. ASSUME NEW s \in Slots, arrays[s].pointer = a, ~pools[arrays[s].pool].destroyed
      PROVE  /\ arrays[s].pool \in Pools /\ a \in pools[arrays[s].pool].allocated
             /\ \A i \in 1 .. Len(pools[arrays[s].pool].unused) : pools[arrays[s].pool].unused[i].ptr # a
             /\ \A r \in Slots : r # s /\ arrays[r].pool = arrays[s].pool => arrays[r].pointer # a
  BY <1>1, <1>3 DEF Sized, SizedAt, Owned, ArraysOwned, ArrayOwned
<1>4. ASSUME NEW v \in Threads, running[v].got = a
      PROVE  /\ running[v].plan.pool \in Pools /\ a \in pools[running[v].plan.pool].allocated
             /\ \A i \in 1 .. Len(pools[running[v].plan.pool].unused) : pools[running[v].plan.pool].unused[i].ptr # a
             /\ \A s \in Slots : arrays[s].pool = running[v].plan.pool => arrays[s].pointer # a
             /\ \A w \in Threads : w # v => running[w].got # a
  BY <1>1, <1>4 DEF Owned, CallsOwned, CallOwned
<1>5. ASSUME NEW p \in Pools, NEW i \in 1 .. Len(pools[p].unused), pools[p].unused[i].ptr = a
      PROVE  /\ a \in pools[p].allocated
             /\ \A j \in 1 .. Len(pools[p].unused) : j # i => pools[p].unused[j].ptr # a
  BY <1>5 DEF Owned, UnusedOwned
<1>6. CASE \E s \in Slots : ThreadOf(s) = t /\ arrays[s].pointer = a /\ ~pools[arrays[s].pool].destroyed
  <2>1. PICK s \in Slots : ThreadOf(s) = t /\ arrays[s].pointer = a /\ ~pools[arrays[s].pool].destroyed
    BY <1>6
  <2>2. /\ arrays[s].pool \in Pools /\ a \in pools[arrays[s].pool].allocated
        /\ \A i \in 1 .. Len(pools[arrays[s].pool].unused) : pools[arrays[s].pool].unused[i].ptr # a
        /\ \A r \in Slots : r # s /\ arrays[r].pool = arrays[s].pool => arrays[r].pointer # a
    BY <1>3, <2>1
  <2>3. ASSUME NEW r \in Slots, ThreadOf(r) = u, arrays[r].pointer = a, ~pools[arrays[r].pool].destroyed
        PROVE  FALSE
    BY <1>2, <1>3, <2>1, <2>2, <2>3
  <2>4. running[u].got # a
    BY <1>2, <1>4, <2>1, <2>2
  <2>5. ASSUME NEW p \in Pools, NEW i \in 1 .. Len(pools[p].unused), pools[p].unused[i].ptr = a PROVE FALSE
    BY <1>2, <1>5, <2>2, <2>5
  <2> QED
    BY <2>3, <2>4, <2>5 DEF Mine
<1>7. CASE running[t].got = a
  <2>1. /\ running[t].plan.pool \in Pools /\ a \in pools[running[t].plan.pool].allocated
        /\ \A i \in 1 .. Len(pools[running[t].plan.pool].unused) : pools[running[t].plan.pool].unused[i].ptr # a
        /\ \A s \in Slots : arrays[s].pool = running[t].plan.pool => arrays[s].pointer # a
        /\ \A w \in Threads : w # t => running[w].got # a
    BY <1>4, <1>7
  <2>2. ASSUME NEW r \in Slots, arrays[r].pointer = a, ~pools[arrays[r].pool].destroyed PROVE FALSE
    BY <1>2, <1>3, <2>1, <2>2
  <2>3. ASSUME NEW p \in Pools, NEW i \in 1 .. Len(pools[p].unused), pools[p].unused[i].ptr = a PROVE FALSE
    BY <1>2, <1>5, <2>1, <2>3
  <2> QED
    BY <2>1, <2>2, <2>3 DEF Mine
<1>8. CASE \E p \in Pools : \E i \in 1 .. Len(pools[p].unused) :
             pools[p].unused[i].ptr = a /\ pools[p].unused[i].thread = t
  <2>1. PICK p \in Pools : \E i \in 1 .. Len(pools[p].unused) :
             pools[p].unused[i].ptr = a /\ pools[p].unused[i].thread = t
    BY <1>8
  <2>2. PICK i \in 1 .. Len(pools[p].unused) : pools[p].unused[i].ptr = a /\ pools[p].unused[i].thread = t
    BY <2>1
  <2>3. /\ a \in pools[p].allocated
        /\ \A j \in 1 .. Len(pools[p].unused) : j # i => pools[p].unused[j].ptr # a
    BY <1>5, <2>2
  <2>4. ASSUME NEW r \in Slots, arrays[r].pointer = a, ~pools[arrays[r].pool].destroyed PROVE FALSE
    BY <1>2, <1>3, <2>2, <2>3, <2>4
  <2>5. running[u].got # a
    BY <1>2, <1>4, <2>2, <2>3
  <2>6. ASSUME NEW r \in Pools, NEW j \in 1 .. Len(pools[r].unused),
               pools[r].unused[j].ptr = a, pools[r].unused[j].thread = u
        PROVE  FALSE
    <3>1. r = p
      BY <1>2, <1>5, <2>3, <2>6
    <3> QED
      BY <2>2, <2>3, <2>6, <3>1
  <2> QED
    BY <2>4, <2>5, <2>6 DEF Mine
<1> QED
  BY <1>6, <1>7, <1>8 DEF Mine

(* What an array in use on the device holds on to.                         *)
LEMMA InUse ==
  ASSUME Typed, Sized, Owned, NEW s \in Slots, Usable(s), arrays[s].pointer # 0
  PROVE  /\ arrays[s].pool \in Pools /\ arrays[s].pointer \in pools[arrays[s].pool].allocated
         /\ ~pools[arrays[s].pool].destroyed /\ arrays[s].device
         /\ arrays[s].pointer \in DOMAIN mem /\ arrays[s].pointer \in Foot(ThreadOf(s))
         /\ Len(mem[arrays[s].pointer]) >= arrays[s].len
<1>1. /\ arrays[s].pool \in Pools /\ ~pools[arrays[s].pool].destroyed /\ arrays[s].device
      /\ arrays[s].pointer \in Addresses
  BY ArrayFields DEF Usable, Sized, SizedAt
<1>2. /\ arrays[s].pointer \in pools[arrays[s].pool].allocated
      /\ Len(mem[arrays[s].pointer]) >= arrays[s].len
  BY <1>1 DEF Owned, ArraysOwned, ArrayOwned
<1>3. arrays[s].pointer \in DOMAIN mem
  BY <1>1, <1>2 DEF Owned, BlocksOwned
<1>4. Mine(ThreadOf(s), arrays[s].pointer)
  BY <1>1 DEF Mine
<1> QED
  BY <1>1, <1>2, <1>3, <1>4 DEF Foot

(* What the device holds when it is done with every stream.                *)
LEMMA SyncValue ==
  ASSUME Typed, Sized, Owned, WorkOwn
  PROVE  /\ SameShape(mem, cudaDeviceSynchronize(mem))
         /\ \A t \in Threads : \A a \in Foot(t) :
              cudaDeviceSynchronize(mem)[a] = Ran(mem, streams[t])[a]
<1> DEFINE F == [t \in Threads |-> Foot(t)]
<1>1. \A t \in Threads : F[t] = Foot(t)
  OBVIOUS
<1> HIDE DEF F
<1>2. /\ Blocks(mem) /\ NumThreads \in Nat /\ \A t \in Threads : List(streams[t])
  BY Names DEF Typed
<1>3. \A t \in Threads : F[t] \subseteq DOMAIN mem /\ Within(streams[t], F[t])
  BY <1>1 DEF Foot, WorkOwn
<1>4. \A t, u \in Threads : t # u => F[t] \cap F[u] = {}
  BY <1>1, FootApart
<1>5. /\ SameShape(mem, cudaDeviceSynchronize(mem))
      /\ \A t \in Threads : \A a \in F[t] : cudaDeviceSynchronize(mem)[a] = Finished(mem, t)[a]
  BY <1>2, <1>3, <1>4, SyncIs
<1> QED
  BY <1>1, <1>5 DEF Finished

(* What a thread's stream will leave in a block.                           *)
Value(t, a) == Ran(mem, streams[t])[a]

(* An array that a step leaves alone is still what it was meant to be, if  *)
(* its block holds what it held.                                           *)
LEMMA KeptFrame ==
  ASSUME Typed, Sized, Owned, NEW s \in Slots, KeptAt(s), arrays'[s] = arrays[s], meant'[s] = meant[s],
         Usable(s)' => Usable(s),
         \A a \in Foot(ThreadOf(s)) : a = arrays[s].pointer /\ Usable(s)' =>
            Value(ThreadOf(s), a)' = Value(ThreadOf(s), a)
  PROVE  KeptAt(s)'
<1> SUFFICES ASSUME Usable(s)', arrays[s].len > 0
             PROVE  Agrees(IF arrays[s].device THEN Finished(mem, ThreadOf(s))[arrays[s].pointer]
                           ELSE arrays[s].words, s)'
  BY DEF KeptAt
<1>1. Agrees(IF arrays[s].device THEN Value(ThreadOf(s), arrays[s].pointer) ELSE arrays[s].words, s)
  BY DEF KeptAt, Value, Finished
<1>2. CASE arrays[s].device
  <2>1. arrays[s].pointer # 0
    BY <1>2 DEF Sized, SizedAt
  <2>2. arrays[s].pointer \in Foot(ThreadOf(s))
    BY <2>1, InUse
  <2>3. Value(ThreadOf(s), arrays[s].pointer)' = Value(ThreadOf(s), arrays[s].pointer)
    BY <2>2
  <2>4. Agrees(Value(ThreadOf(s), arrays[s].pointer), s)'
    BY <1>1, <1>2, <2>3 DEF Agrees
  <2> QED
    BY <1>2, <2>4 DEF Value, Finished
<1>3. CASE ~arrays[s].device
  <2>1. Agrees(arrays[s].words, s)'
    BY <1>1, <1>3 DEF Agrees
  <2> QED
    BY <1>3, <2>1
<1> QED
  BY <1>2, <1>3

-----------------------------------------------------------------------------
(* Frames: parts of the invariant under steps that leave what they are     *)
(* about alone.                                                            *)
LEMMA WordsSame ==
  ASSUME WordsKept, UNCHANGED <<arrays, mem, streams, meant>>, \A p \in Pools : pools'[p].destroyed = pools[p].destroyed,
         Sized
  PROVE  WordsKept'
<1> SUFFICES ASSUME NEW s \in Slots, Usable(s)', arrays[s].len > 0
             PROVE  Agrees(IF arrays[s].device THEN Finished(mem, ThreadOf(s))[arrays[s].pointer]
                           ELSE arrays[s].words, s)'
  BY DEF WordsKept
<1>1. Usable(s)
  BY DEF Usable, Sized, SizedAt
<1>2. Agrees(IF arrays[s].device THEN Finished(mem, ThreadOf(s))[arrays[s].pointer] ELSE arrays[s].words, s)
  BY <1>1 DEF WordsKept
<1> QED
  BY <1>2 DEF Agrees, Finished

(* Streams that stay, of threads that lose no block, still work on their   *)
(* threads' blocks;                                                        *)
LEMMA WorkFrame ==
  ASSUME WorkOwn, streams' = streams, \A t \in Threads : Foot(t) \subseteq Foot(t)'
  PROVE  WorkOwn'
<1> SUFFICES ASSUME NEW t \in Threads PROVE Within(streams[t], Foot(t)')
  BY DEF WorkOwn
<1>1. Within(streams[t], Foot(t)) /\ Foot(t) \subseteq Foot(t)'
  BY DEF WorkOwn
<1> DEFINE F == Foot(t)
           G == Foot(t)'
<1> HIDE DEF F, G
<1> QED
  BY <1>1 DEF Within, F, G

(* empty streams do so in any case, and what the blocks hold is what they  *)
(* will hold.                                                              *)
LEMMA WorkDrained ==
  ASSUME streams' = Drained
  PROVE  /\ WorkOwn' /\ streams' = [t \in Threads |-> streams'[t]] /\ \A t \in Threads : List(streams'[t])
         /\ \A t \in Threads : \A a : Value(t, a)' = mem'[a]
<1>1. \A t \in Threads : streams'[t] = << >>
  BY DEF Drained
<1>2. WorkOwn'
  BY <1>1, ListEmpty DEF WorkOwn, Within
<1> QED
  BY <1>1, <1>2, ListEmpty, RanNothing DEF Drained, Value

(* A step of a call that has no block yet.                                 *)
LEMMA OnlyRunning ==
  ASSUME MemoryInv, NEW t \in Threads, NEW c \in CallStates,
         UNCHANGED <<arrays, mem, pools, streams, meant, fault>>,
         running' = [running EXCEPT ![t] = c], running[t].got = 0, c.got = 0, c.stage # "build",
         c.stage # "idle" => /\ PlanReady(t, c.plan) /\ c.plan.device /\ c.plan.len > 0
                             /\ ~pools[c.plan.pool].destroyed
  PROVE  MemoryInv'
<1> USE DEF MemoryInv
<1>1. running'[t] = c /\ \A u \in Threads : u # t => running'[u] = running[u]
  BY DEF Typed
<1>2. Typed'
  <2>1. running' \in [Threads -> CallStates]
    BY DEF Typed
  <2> QED
    BY <2>1 DEF Typed, ArrayLike
<1>3. Sized'
  BY DEF Sized, SizedAt
<1>4. \A u \in Threads : running'[u].got = running[u].got
  BY <1>1
<1>5. Owned'
  <2>1. BlocksOwned' /\ UnusedOwned' /\ ArraysOwned'
    BY DEF Owned, BlocksOwned, UnusedOwned, ArraysOwned, ArrayOwned
  <2>2. ASSUME NEW u \in Threads PROVE CallOwned(u)'
    <3>1. CASE u = t
      BY <1>1, <3>1 DEF CallOwned
    <3>2. CASE u # t
      BY <1>1, <1>4, <3>2 DEF CallOwned, Owned, CallsOwned
    <3> QED
      BY <3>1, <3>2
  <2>3. NoneLost'
    BY <1>4 DEF Owned, NoneLost, HeldBy
  <2> QED
    BY <2>1, <2>2, <2>3 DEF Owned, CallsOwned
<1>6. CallsReady'
  <2> SUFFICES ASSUME NEW u \in Threads PROVE CallReady(u)'
    BY DEF CallsReady
  <2>1. CASE u = t
    <3>1. c.stage # "idle" => PlanReady(t, c.plan)'
      BY DEF PlanReady, Usable
    <3> QED
      BY <1>1, <2>1, <3>1 DEF CallReady
  <2>2. CASE u # t
    BY <1>1, <2>2 DEF CallsReady, CallReady, PlanReady, Usable
  <2> QED
    BY <2>1, <2>2
<1>7. WorkOwn'
  <2>1. \A u \in Threads : Foot(u) \subseteq Foot(u)'
    BY <1>4 DEF Foot, Mine
  <2> QED
    BY <2>1, WorkFrame
<1>8. WordsKept'
  BY WordsSame
<1> QED
  BY <1>2, <1>3, <1>5, <1>6, <1>7, <1>8

(* A pool is told to deny.                                                 *)
LEMMA DenyKeeps ==
  ASSUME MemoryInv, NEW t \in Threads, NEW p \in Pools, NEW set \in BOOLEAN, deny(t, p, set)
  PROVE  MemoryInv'
<1> USE DEF MemoryInv
<1>1. UNCHANGED <<arrays, mem, streams, running, meant, fault>> /\ pools' = [pools EXCEPT ![p].denying = set]
  BY DEF deny
<1>2. /\ pools' \in [Pools -> PoolStates]
      /\ \A q \in Pools : /\ pools'[q].destroyed = pools[q].destroyed /\ pools'[q].unused = pools[q].unused
                          /\ pools'[q].allocated = pools[q].allocated /\ pools'[q].zombie = pools[q].zombie
  BY <1>1 DEF Typed, PoolStates
<1> HIDE DEF deny
<1>3. Typed'
  BY <1>1, <1>2 DEF Typed, ArrayLike
<1>4. Sized'
  BY <1>1 DEF Sized, SizedAt
<1>5. Owned'
  <2>1. BlocksOwned'
    BY <1>1, <1>2 DEF Owned, BlocksOwned
  <2>2. UnusedOwned'
    BY <1>1, <1>2 DEF Owned, UnusedOwned
  <2>3. ArraysOwned'
    BY <1>1, <1>2 DEF Owned, ArraysOwned, ArrayOwned, Sized, SizedAt
  <2>4. CallsOwned'
    BY <1>1, <1>2 DEF Owned, CallsOwned, CallOwned
  <2>5. NoneLost'
    BY <1>1, <1>2 DEF Owned, NoneLost, HeldBy
  <2> QED
    BY <2>1, <2>2, <2>3, <2>4, <2>5 DEF Owned
<1>6. CallsReady'
  BY <1>1, <1>2 DEF CallsReady, CallReady, PlanReady, Usable, Sized, SizedAt
<1>7. WorkOwn'
  <2>1. \A u \in Threads : Foot(u) \subseteq Foot(u)'
    <3> SUFFICES ASSUME NEW u \in Threads, NEW a \in DOMAIN mem, Mine(u, a) PROVE Mine(u, a)'
      BY <1>1 DEF Foot
    <3>1. a # 0
      BY Names DEF Typed
    <3> QED
      BY <1>1, <1>2, <3>1 DEF Mine, Sized, SizedAt
  <2> QED
    BY <1>1, <2>1, WorkFrame
<1>8. WordsKept'
  BY <1>1, <1>2, WordsSame
<1> QED
  BY <1>1, <1>3, <1>4, <1>5, <1>6, <1>7, <1>8

(* Unused blocks are marked as this thread's.                              *)
LEMMA ForceKeeps ==
  ASSUME MemoryInv, NEW t \in Threads, NEW p \in Pools, force_set_thread_id(t, p)
  PROVE  MemoryInv'
<1> USE DEF MemoryInv
<1> DEFINE old == pools[p].unused
           new == [i \in DOMAIN old |-> [old[i] EXCEPT !.thread = t]]
<1>1. /\ UNCHANGED <<arrays, mem, streams, running, meant, fault>> /\ streams' = Drained
      /\ pools' = [pools EXCEPT ![p].unused = new]
  BY DEF force_set_thread_id
<1>2. old \in Seq(Entries) /\ Len(old) \in Nat /\ DOMAIN old = 1 .. Len(old)
  BY PoolFields
<1>3. \A i \in 1 .. Len(old) : /\ new[i] \in Entries /\ new[i].ptr = old[i].ptr /\ new[i].size = old[i].size
  <2> SUFFICES ASSUME NEW i \in 1 .. Len(old)
               PROVE  new[i] \in Entries /\ new[i].ptr = old[i].ptr /\ new[i].size = old[i].size
    OBVIOUS
  <2>1. old[i] \in Entries /\ new[i] = [old[i] EXCEPT !.thread = t]
    BY <1>2
  <2> HIDE DEF old, new
  <2> QED
    BY <2>1 DEF Entries
<1>4. new \in [1 .. Len(old) -> Entries]
  BY <1>2, <1>3
<1>5. new \in Seq(Entries) /\ Len(new) = Len(old)
  <2> HIDE DEF new
  <2>1. new \in Seq(Entries)
    BY <1>2, <1>4, SeqDef
  <2>2. Len(new) = Len(old)
    BY <1>2, <1>4, <2>1, LenProperties
  <2> QED
    BY <2>1, <2>2
<1> HIDE DEF new
<1>6. /\ pools' \in [Pools -> PoolStates] /\ pools'[p].unused = new
      /\ \A q \in Pools : /\ pools'[q].destroyed = pools[q].destroyed
                          /\ q # p => pools'[q].unused = pools[q].unused
                          /\ pools'[q].allocated = pools[q].allocated /\ pools'[q].zombie = pools[q].zombie
  BY <1>1, <1>5 DEF Typed, PoolStates
<1>7. /\ \A q \in Pools : Len(pools'[q].unused) = Len(pools[q].unused)
      /\ \A q \in Pools : \A i \in 1 .. Len(pools[q].unused) :
           pools'[q].unused[i].ptr = pools[q].unused[i].ptr /\ pools'[q].unused[i].size = pools[q].unused[i].size
  BY <1>3, <1>5, <1>6
<1>8. Typed'
  BY <1>1, <1>6 DEF Typed, ArrayLike
<1>9. Sized'
  BY <1>1 DEF Sized, SizedAt
<1>10. Owned'
  <2>1. BlocksOwned'
    <3>1. old # << >>
      BY DEF force_set_thread_id
    <3>2. \A q \in Pools : pools[q].unused = << >> => pools'[q].unused = << >>
      BY <1>6, <3>1
    <3> QED
      BY <1>1, <1>6, <3>2 DEF Owned, BlocksOwned
  <2>2. UnusedOwned'
    BY <1>1, <1>6, <1>7 DEF Owned, UnusedOwned
  <2>3. ArraysOwned'
    BY <1>1, <1>6, <1>7 DEF Owned, ArraysOwned, ArrayOwned, Sized, SizedAt
  <2>4. CallsOwned'
    BY <1>1, <1>6, <1>7 DEF Owned, CallsOwned, CallOwned
  <2>5. NoneLost'
    BY <1>1, <1>6, <1>7 DEF Owned, NoneLost, HeldBy
  <2> QED
    BY <2>1, <2>2, <2>3, <2>4, <2>5 DEF Owned
<1>11. CallsReady'
  BY <1>1, <1>6 DEF CallsReady, CallReady, PlanReady, Usable, Sized, SizedAt
<1>12. WorkOwn'
  BY <1>1, WorkDrained
<1>13. WordsKept'
  BY <1>1, <1>6, WordsSame
<1> QED
  BY <1>1, <1>8, <1>9, <1>10, <1>11, <1>12, <1>13

-----------------------------------------------------------------------------
(* Steps of the device: the blocks keep their sizes and their owners.      *)
LEMMA OwnersKept ==
  ASSUME MemoryInv, SameShape(mem, mem'), UNCHANGED <<arrays, pools, running, meant, fault>>
  PROVE  Sized' /\ Owned' /\ CallsReady' /\ \A t \in Threads : Foot(t)' = Foot(t)
<1> USE DEF MemoryInv
<1>1. DOMAIN mem' = DOMAIN mem /\ \A a \in DOMAIN mem : Len(mem'[a]) = Len(mem[a])
  BY DEF SameShape
<1>2. Sized'
  BY DEF Sized, SizedAt
<1>3. Owned'
  <2>1. BlocksOwned'
    BY <1>1 DEF Owned, BlocksOwned
  <2>2. UnusedOwned'
    <3>1. \A p \in Pools : \A i \in 1 .. Len(pools[p].unused) : pools[p].unused[i].ptr \in DOMAIN mem
      BY PoolFields DEF Owned, BlocksOwned, UnusedOwned
    <3> QED
      BY <1>1, <3>1 DEF Owned, UnusedOwned
  <2>3. ArraysOwned'
    <3>1. \A s \in Slots : arrays[s].pointer # 0 /\ ~pools[arrays[s].pool].destroyed => arrays[s].pointer \in DOMAIN mem
      BY InUse DEF Usable
    <3> QED
      BY <1>1, <3>1 DEF Owned, ArraysOwned, ArrayOwned
  <2>4. CallsOwned'
    <3>1. \A t \in Threads : running[t].got # 0 => running[t].got \in DOMAIN mem
      BY CallFields DEF Owned, BlocksOwned, CallsOwned, CallOwned
    <3> QED
      BY <1>1, <3>1 DEF Owned, CallsOwned, CallOwned
  <2>5. NoneLost'
    BY DEF Owned, NoneLost, HeldBy
  <2> QED
    BY <2>1, <2>2, <2>3, <2>4, <2>5 DEF Owned
<1>4. CallsReady'
  BY DEF CallsReady, CallReady, PlanReady, Usable
<1>5. \A t \in Threads : Foot(t)' = Foot(t)
  BY <1>1 DEF Foot, Mine
<1> QED
  BY <1>2, <1>3, <1>4, <1>5

(* Work of another thread's stream leaves the blocks of this one.          *)
LEMMA OthersKept ==
  ASSUME Typed, Sized, Owned, WorkOwn, NEW t \in Threads, NEW u \in Threads, u # t, NEW w,
         SameShape(mem, w), \A a \in Foot(u) : w[a] = mem[a]
  PROVE  \A a \in Foot(u) : Ran(w, streams[u])[a] = Value(u, a)
<1>1. Blocks(w) /\ Blocks(mem) /\ DOMAIN w = DOMAIN mem /\ Len(streams[u]) \in Nat
  BY ListIs DEF Typed, SameShape
<1>2. Agreeing(w, mem, Foot(u)) /\ Within(streams[u], Foot(u))
  BY <1>1 DEF Agreeing, Foot, WorkOwn
<1>3. Agreeing(Ran(w, streams[u]), Ran(mem, streams[u]), Foot(u))
  BY <1>1, <1>2, RanAgrees
<1> QED
  BY <1>3 DEF Agreeing, Value

(* A step of the device on one stream keeps the invariant: no other        *)
(* thread's blocks change.                                                 *)
LEMMA DeviceKeeps ==
  ASSUME MemoryInv, NEW t \in Threads, Device(t)
  PROVE  MemoryInv'
<1> USE DEF MemoryInv
<1> DEFINE q == streams[t]
           o == Head(q)
<1>1. /\ q # << >> /\ mem' = Perform(mem, o) /\ streams' = [streams EXCEPT ![t] = Tail(q)]
      /\ UNCHANGED <<arrays, pools, running, meant, fault>>
  BY DEF Device
<1>2. /\ List(Tail(q)) /\ Len(Tail(q)) = Len(q) - 1 /\ Len(q) \in Nat \ {0} /\ o = q[1]
      /\ \A j \in 1 .. Len(q) - 1 : Tail(q)[j] = q[j + 1]
  BY <1>1, ListTail DEF Typed
<1>3. streams'[t] = Tail(q) /\ \A u \in Threads : u # t => streams'[u] = streams[u]
  BY <1>1 DEF Typed
<1>4. SameShape(mem, mem')
  BY <1>1, PerformShape DEF Typed
<1>5. Sized' /\ Owned' /\ CallsReady' /\ \A u \in Threads : Foot(u)' = Foot(u)
  BY <1>1, <1>4, OwnersKept
<1>6. Typed'
  <2>1. Blocks(mem') /\ DOMAIN mem' \subseteq Addresses
    BY <1>4 DEF SameShape, Typed
  <2>2. streams' = [u \in Threads |-> streams'[u]] /\ \A u \in Threads : List(streams'[u])
    BY <1>1, <1>2, <1>3 DEF Typed
  <2> QED
    BY <1>1, <2>1, <2>2 DEF Typed, ArrayLike
<1>7. Within(q, Foot(t)) /\ o.dst \in Foot(t)
  <2>1. Within(q, Foot(t))
    BY DEF WorkOwn
  <2> QED
    BY <1>2, <2>1 DEF Within
<1>8. WorkOwn'
  <2>1. Within(Tail(q), Foot(t))
    <3>1. \A j \in 1 .. Len(q) - 1 : j + 1 \in 1 .. Len(q)
      BY <1>2
    <3> QED
      BY <1>2, <1>7, <3>1 DEF Within
  <2>2. \A u \in Threads : Within(streams'[u], Foot(u))
    BY <1>3, <2>1 DEF WorkOwn
  <2> QED
    BY <1>5, <2>2 DEF WorkOwn
<1>9. \A u \in Threads : \A a \in Foot(u) : Value(u, a)' = Value(u, a)
  <2>1. Value(t, 0) = Value(t, 0) /\ \A a : Value(t, a)' = Value(t, a)
    <3>1. Ran(mem, q) = Ran(mem', Tail(q))
      BY <1>1, RanHead DEF Typed
    <3> QED
      BY <1>3, <3>1 DEF Value
  <2>2. ASSUME NEW u \in Threads, u # t, NEW a \in Foot(u) PROVE Value(u, a)' = Value(u, a)
    <3>1. \A b \in Foot(u) : mem'[b] = mem[b]
      <4> SUFFICES ASSUME NEW b \in Foot(u) PROVE mem'[b] = mem[b]
        OBVIOUS
      <4>1. b # o.dst /\ b \in DOMAIN mem
        BY <1>7, <2>2, FootApart DEF Foot
      <4> QED
        BY <1>1, <4>1, PerformElsewhere DEF Typed, Blocks
    <3>2. Ran(mem', streams[u])[a] = Value(u, a)
      BY <1>4, <2>2, <3>1, OthersKept
    <3> QED
      BY <1>3, <2>2, <3>2 DEF Value
  <2> QED
    BY <2>1, <2>2
<1>10. WordsKept'
  <2>1. ASSUME NEW s \in Slots PROVE KeptAt(s)'
    <3>1. KeptAt(s) /\ arrays'[s] = arrays[s] /\ meant'[s] = meant[s] /\ (Usable(s)' => Usable(s))
      BY <1>1 DEF WordsKept, KeptAt, Usable
    <3>2. ThreadOf(s) \in Threads
      BY Names
    <3> QED
      BY <1>9, <3>1, <3>2, KeptFrame
  <2> QED
    BY <2>1 DEF WordsKept, KeptAt
<1> QED
  BY <1>1, <1>5, <1>6, <1>8, <1>10

-----------------------------------------------------------------------------
(* Steps that wait for the device: what an array in use will hold is then  *)
(* what its block holds.                                                   *)
LEMMA SyncedWords ==
  ASSUME MemoryInv, UNCHANGED <<arrays, meant>>, streams' = Drained,
         \A s \in Slots : Usable(s)' => Usable(s),
         \A s \in Slots : Usable(s)' /\ arrays[s].pointer # 0 =>
            mem'[arrays[s].pointer] = cudaDeviceSynchronize(mem)[arrays[s].pointer]
  PROVE  WordsKept'
<1> USE DEF MemoryInv
<1>1. ASSUME NEW s \in Slots PROVE KeptAt(s)'
  <2>1. KeptAt(s) /\ ThreadOf(s) \in Threads
    BY Names DEF WordsKept, KeptAt
  <2>2. ASSUME NEW a \in Foot(ThreadOf(s)), a = arrays[s].pointer, Usable(s)'
        PROVE  Value(ThreadOf(s), a)' = Value(ThreadOf(s), a)
    <3>1. a # 0
      BY Names DEF Foot, Typed
    <3>2. mem'[a] = cudaDeviceSynchronize(mem)[a]
      BY <2>2, <3>1
    <3>3. cudaDeviceSynchronize(mem)[a] = Value(ThreadOf(s), a)
      BY <2>1, <2>2, SyncValue DEF Value
    <3>4. Value(ThreadOf(s), a)' = mem'[a]
      BY <2>1, WorkDrained
    <3> QED
      BY <3>2, <3>3, <3>4
  <2> QED
    BY <2>1, <2>2, KeptFrame
<1> QED
  BY <1>1 DEF WordsKept, KeptAt

(* What is left of the device's memory when some blocks are freed.         *)
LEMMA WithoutIs ==
  ASSUME NEW m, NEW U, Blocks(m)
  PROVE  /\ Blocks(Without(m, U)) /\ DOMAIN Without(m, U) = DOMAIN m \ U
         /\ \A a \in DOMAIN m \ U : Without(m, U)[a] = m[a]
BY DEF Without, Blocks, Table

(* The unused blocks of a pool, by their entries.                          *)
LEMMA UnusedIs ==
  ASSUME Typed, Sized, Owned, NEW p \in Pools
  PROVE  /\ \A a : a \in UnusedBlocks(pools[p]) <=> \E i \in 1 .. Len(pools[p].unused) : pools[p].unused[i].ptr = a
         /\ UnusedBlocks(pools[p]) \subseteq pools[p].allocated
<1>1. DOMAIN pools[p].unused = 1 .. Len(pools[p].unused)
  BY PoolFields
<1> QED
  BY <1>1 DEF UnusedBlocks, Owned, UnusedOwned

(* Freeing a pool's unused blocks keeps the invariant: no array, no call   *)
(* and no stream has them after the wait.                                  *)
LEMMA FreeKeeps ==
  ASSUME MemoryInv, NEW p \in Pools, pools[p].unused # << >>, FreeUnused(p),
         UNCHANGED <<arrays, meant, fault>>, running' \in [Threads -> CallStates],
         \A u \in Threads : /\ running'[u].got = running[u].got /\ running'[u].plan = running[u].plan
                            /\ running'[u].stage = "idle" <=> running[u].stage = "idle"
                            /\ running'[u].stage = "build" <=> running[u].stage = "build"
  PROVE  MemoryInv'
<1> USE DEF MemoryInv
<1> DEFINE U == UnusedBlocks(pools[p])
           sync == cudaDeviceSynchronize(mem)
<1>1. /\ mem' = Without(sync, U) /\ streams' = Drained
      /\ pools' = [pools EXCEPT ![p] = WithoutUnused(pools[p])]
  BY DEF FreeUnused
<1>2. SameShape(mem, sync)
  BY SyncValue
<1> DEFINE Un(a) == \E i \in 1 .. Len(pools[p].unused) : pools[p].unused[i].ptr = a
<1>3. U \subseteq pools[p].allocated /\ \A a : a \in U <=> Un(a)
  BY UnusedIs
<1> HIDE DEF U, sync, Un
<1>4. /\ Blocks(mem') /\ DOMAIN mem' = DOMAIN mem \ U
      /\ \A a \in DOMAIN mem \ U : mem'[a] = sync[a] /\ Len(mem'[a]) = Len(mem[a])
  <2>1. Blocks(sync) /\ DOMAIN sync = DOMAIN mem /\ \A a \in DOMAIN mem : Len(sync[a]) = Len(mem[a])
    BY <1>2 DEF SameShape
  <2>2. /\ Blocks(Without(sync, U)) /\ DOMAIN Without(sync, U) = DOMAIN sync \ U
        /\ \A a \in DOMAIN sync \ U : Without(sync, U)[a] = sync[a]
    BY <2>1, WithoutIs
  <2> QED
    BY <1>1, <2>1, <2>2
<1>5. WithoutUnused(pools[p]) = [pools[p] EXCEPT !.allocated = @ \ U, !.unused = << >>]
  BY DEF WithoutUnused, U, UnusedBlocks
<1>6. /\ pools' \in [Pools -> PoolStates] /\ pools'[p].unused = << >> /\ pools'[p].allocated = pools[p].allocated \ U
      /\ \A q \in Pools : /\ pools'[q].destroyed = pools[q].destroyed /\ pools'[q].zombie = pools[q].zombie
                          /\ q # p => pools'[q].unused = pools[q].unused /\ pools'[q].allocated = pools[q].allocated
  <2> DEFINE old == pools[p]
             new == [old EXCEPT !.allocated = @ \ U, !.unused = << >>]
  <2>1. << >> \in Seq(Entries) /\ old \in PoolStates
    BY DEF Typed
  <2>2. /\ new \in PoolStates /\ new.unused = << >> /\ new.allocated = old.allocated \ U
        /\ new.destroyed = old.destroyed /\ new.zombie = old.zombie
    <3> HIDE DEF old
    <3> QED
      BY <2>1 DEF PoolStates
  <2>3. pools' = [pools EXCEPT ![p] = new]
    BY <1>1, <1>5
  <2> HIDE DEF new
  <2> QED
    BY <2>2, <2>3 DEF Typed
<1>7. Len(<< >>) = 0
  OBVIOUS
<1>8. \A q \in Pools : \A a \in Addresses : a \in pools'[q].allocated <=> a \in pools[q].allocated /\ a \notin U
  <2> SUFFICES ASSUME NEW q \in Pools, NEW a \in Addresses
               PROVE  a \in pools'[q].allocated <=> a \in pools[q].allocated /\ a \notin U
    OBVIOUS
  <2>1. CASE q = p
    BY <1>6, <2>1
  <2>2. CASE q # p
    BY <1>3, <1>6, <2>2 DEF Owned, BlocksOwned
  <2> QED
    BY <2>1, <2>2
<1>9. Typed'
  <2>1. DOMAIN mem' \subseteq Addresses
    BY <1>4 DEF Typed
  <2> QED
    BY <1>4, <1>6, <2>1, <1>1, WorkDrained DEF Typed, ArrayLike
<1>10. Sized'
  BY DEF Sized, SizedAt
<1>11. ASSUME NEW a \in Addresses, NEW q \in Pools, a \in pools[q].allocated, a \notin U
       PROVE  a \in DOMAIN mem' /\ a \in pools'[q].allocated /\ Len(mem'[a]) = Len(mem[a])
  BY <1>4, <1>8, <1>11 DEF Owned, BlocksOwned
<1>12. ASSUME NEW s \in Slots, arrays[s].pointer # 0, ~pools[arrays[s].pool].destroyed
       PROVE  arrays[s].pool \in Pools /\ arrays[s].pointer \notin U /\ arrays[s].pointer \in pools[arrays[s].pool].allocated
  <2>1. arrays[s].pool \in Pools /\ arrays[s].pointer \in pools[arrays[s].pool].allocated /\ arrays[s].pointer \in Addresses
    BY <1>12, ArrayFields DEF Sized, SizedAt, Owned, ArraysOwned, ArrayOwned
  <2>2. CASE arrays[s].pool = p
    BY <1>3, <1>12, <2>1, <2>2 DEF Un, Owned, ArraysOwned, ArrayOwned
  <2>3. CASE arrays[s].pool # p
    BY <1>3, <2>1, <2>3 DEF Owned, BlocksOwned
  <2> QED
    BY <2>1, <2>2, <2>3
<1>13. ASSUME NEW t \in Threads, running[t].got # 0
       PROVE  /\ running[t].plan.pool \in Pools /\ running[t].got \notin U
              /\ running[t].got \in pools[running[t].plan.pool].allocated /\ running[t].got \in Addresses
  <2>1. /\ running[t].plan.pool \in Pools /\ running[t].got \in pools[running[t].plan.pool].allocated
        /\ running[t].got \in Addresses
    <3>1. running[t].got \in Addresses
      BY <1>13, CallFields
    <3> QED
      BY <1>13, <3>1 DEF Owned, CallsOwned, CallOwned
  <2>2. CASE running[t].plan.pool = p
    <3>1. \A i \in 1 .. Len(pools[p].unused) : pools[p].unused[i].ptr # running[t].got
      BY <1>13, <2>2 DEF Owned, CallsOwned, CallOwned
    <3>2. running[t].got \notin U
      BY <1>3, <3>1 DEF Un
    <3> QED
      BY <2>1, <3>2
  <2>3. CASE running[t].plan.pool # p
    BY <1>3, <2>1, <2>3 DEF Owned, BlocksOwned
  <2> QED
    BY <2>1, <2>2, <2>3
<1>14. Owned'
  <2>1. BlocksOwned'
    <3>1. \A a \in Addresses : a \in DOMAIN mem' <=> \E q \in Pools : a \in pools'[q].allocated
      BY <1>4, <1>8 DEF Owned, BlocksOwned
    <3>2. \A q \in Pools : pools'[q].destroyed => pools'[q].allocated = {} /\ pools'[q].unused = << >>
      BY <1>6 DEF Owned, BlocksOwned
    <3>3. \A q, r \in Pools : \A a \in Addresses : a \in pools'[q].allocated /\ a \in pools'[r].allocated => q = r
      BY <1>8 DEF Owned, BlocksOwned
    <3> QED
      BY <3>1, <3>2, <3>3 DEF BlocksOwned
  <2>2. UnusedOwned'
    <3> SUFFICES ASSUME NEW q \in Pools, NEW i \in 1 .. Len(pools'[q].unused)
                 PROVE  /\ pools'[q].unused[i].ptr \in pools'[q].allocated
                        /\ pools'[q].unused[i].size = Len(mem'[pools'[q].unused[i].ptr])
                        /\ \A j \in 1 .. Len(pools'[q].unused) : j # i => pools'[q].unused[j].ptr # pools'[q].unused[i].ptr
      BY DEF UnusedOwned
    <3>1. q # p /\ pools'[q].unused = pools[q].unused
      BY <1>6, <1>7
    <3>2. /\ pools[q].unused[i].ptr \in pools[q].allocated /\ pools[q].unused[i].ptr \in Addresses
          /\ pools[q].unused[i].size = Len(mem[pools[q].unused[i].ptr])
          /\ \A j \in 1 .. Len(pools[q].unused) : j # i => pools[q].unused[j].ptr # pools[q].unused[i].ptr
      BY <3>1, PoolFields DEF Owned, UnusedOwned
    <3>3. pools[q].unused[i].ptr \notin U
      BY <1>3, <3>1, <3>2 DEF Owned, BlocksOwned
    <3> QED
      BY <1>11, <3>1, <3>2, <3>3
  <2>3. ArraysOwned'
    <3> SUFFICES ASSUME NEW s \in Slots PROVE ArrayOwned(s)'
      BY DEF ArraysOwned
    <3>1. ArrayOwned(s) /\ arrays[s].pointer \in Addresses \cup {0}
      BY ArrayFields DEF Owned, ArraysOwned
    <3>2. CASE arrays[s].pointer = 0
      BY <3>2 DEF ArrayOwned
    <3>3. CASE arrays[s].pointer # 0 /\ pools[arrays[s].pool].destroyed
      <4>1. arrays[s].pool \in Pools
        BY <3>3 DEF Sized, SizedAt
      <4> QED
        BY <1>6, <3>1, <3>3, <4>1 DEF ArrayOwned
    <3>4. CASE arrays[s].pointer # 0 /\ ~pools[arrays[s].pool].destroyed
      <4>1. /\ arrays[s].pool \in Pools /\ arrays[s].pointer \in pools'[arrays[s].pool].allocated
            /\ Len(mem'[arrays[s].pointer]) = Len(mem[arrays[s].pointer])
        BY <1>11, <1>12, <3>1, <3>4
      <4>2. \A i \in 1 .. Len(pools'[arrays[s].pool].unused) : pools'[arrays[s].pool].unused[i].ptr # arrays[s].pointer
        BY <1>6, <1>7, <3>1, <3>4, <4>1 DEF ArrayOwned
      <4> QED
        BY <1>6, <3>1, <3>4, <4>1, <4>2 DEF ArrayOwned
    <3> QED
      BY <3>2, <3>3, <3>4
  <2>4. CallsOwned'
    <3> SUFFICES ASSUME NEW t \in Threads, running[t].got # 0 PROVE CallOwned(t)'
      BY DEF CallsOwned, CallOwned
    <3>1. CallOwned(t)
      BY DEF Owned, CallsOwned
    <3>2. /\ running[t].plan.pool \in Pools /\ running[t].got \in pools'[running[t].plan.pool].allocated
          /\ Len(mem'[running[t].got]) = Len(mem[running[t].got])
      BY <1>11, <1>13
    <3>3. \A i \in 1 .. Len(pools'[running[t].plan.pool].unused) : pools'[running[t].plan.pool].unused[i].ptr # running[t].got
      <4>1. CASE running[t].plan.pool = p
        BY <1>6, <1>7, <4>1
      <4>2. CASE running[t].plan.pool # p
        BY <1>6, <3>1, <3>2, <4>2 DEF CallOwned
      <4> QED
        BY <4>1, <4>2
    <3> QED
      BY <3>1, <3>2, <3>3 DEF CallOwned
  <2>5. NoneLost'
    <3> SUFFICES ASSUME NEW q \in Pools, NEW a \in pools'[q].allocated PROVE HeldBy(q, a)'
      BY DEF NoneLost
    <3>1. a \in pools[q].allocated /\ a \notin U
      BY <1>3, <1>6, <1>8 DEF PoolStates
    <3>2. HeldBy(q, a)
      BY <3>1 DEF Owned, NoneLost
    <3>3. \A i \in 1 .. Len(pools[q].unused) : pools[q].unused[i].ptr = a => q # p
      BY <1>3, <3>1 DEF Un
    <3> QED
      BY <1>6, <3>2, <3>3 DEF HeldBy
  <2> QED
    BY <2>1, <2>2, <2>3, <2>4, <2>5 DEF Owned
<1>15. CallsReady'
  <2> SUFFICES ASSUME NEW t \in Threads PROVE CallReady(t)'
    BY DEF CallsReady
  <2>1. PlanReady(t, running[t].plan) => PlanReady(t, running[t].plan)'
    BY <1>6 DEF PlanReady, Usable, Sized, SizedAt
  <2> QED
    BY <1>6, <2>1 DEF CallsReady, CallReady, PlanReady
<1>16. WorkOwn'
  BY <1>1, WorkDrained
<1>17. WordsKept'
  <2>1. \A s \in Slots : Usable(s)' => Usable(s)
    BY <1>6 DEF Usable, Sized, SizedAt
  <2>2. \A s \in Slots : Usable(s)' /\ arrays[s].pointer # 0 => mem'[arrays[s].pointer] = cudaDeviceSynchronize(mem)[arrays[s].pointer]
    BY <1>4, <1>12, <2>1, InUse DEF sync, Usable
  <2> QED
    BY <1>1, <2>1, <2>2, SyncedWords
<1> QED
  BY <1>9, <1>10, <1>14, <1>15, <1>16, <1>17

(* A call goes on to its next stage;                                       *)
LEMMA GoesIs ==
  ASSUME Typed, NEW t \in Threads, NEW stage \in Stages, Goes(t, stage)
  PROVE  /\ running' \in [Threads -> CallStates] /\ running'[t] = [running[t] EXCEPT !.stage = stage]
         /\ running'[t].stage = stage /\ running'[t].plan = running[t].plan /\ running'[t].got = running[t].got
         /\ \A u \in Threads : u # t => running'[u] = running[u]
<1> DEFINE c == running[t]
           d == [c EXCEPT !.stage = stage]
<1>1. running' = [running EXCEPT ![t] = d]
  BY DEF Goes
<1>2. c \in CallStates
  BY DEF Typed
<1>3. d \in CallStates /\ d.stage = stage /\ d.plan = c.plan /\ d.got = c.got
  <2> HIDE DEF c
  <2> QED
    BY <1>2 DEF CallStates
<1> HIDE DEF d
<1>4. running' \in [Threads -> CallStates] /\ running'[t] = d /\ \A u \in Threads : u # t => running'[u] = running[u]
  BY <1>1, <1>3 DEF Typed
<1> QED
  BY <1>3, <1>4 DEF d

(* a call gets its block.                                                  *)
LEMMA GotIs ==
  ASSUME Typed, NEW t \in Threads, NEW ptr \in Addresses, Got(t, ptr)
  PROVE  /\ running' \in [Threads -> CallStates]
         /\ running'[t].stage = "build" /\ running'[t].plan = running[t].plan /\ running'[t].got = ptr
         /\ \A u \in Threads : u # t => running'[u] = running[u]
<1> DEFINE c == running[t]
           d == [c EXCEPT !.stage = "build", !.got = ptr]
<1>1. running' = [running EXCEPT ![t] = d]
  BY DEF Got, Typed
<1>2. c \in CallStates
  BY DEF Typed
<1>3. d \in CallStates /\ d.stage = "build" /\ d.plan = c.plan /\ d.got = ptr
  <2> HIDE DEF c
  <2> QED
    BY <1>2 DEF CallStates, Stages
<1> HIDE DEF d
<1>4. running' \in [Threads -> CallStates] /\ running'[t] = d /\ \A u \in Threads : u # t => running'[u] = running[u]
  BY <1>1, <1>3 DEF Typed
<1> QED
  BY <1>3, <1>4

(* The call looks for no more unused blocks, or finds no room.             *)
LEMMA GoesKeeps ==
  ASSUME MemoryInv, NEW t \in Threads, NEW stage \in {"try", "free", "again"}, Goes(t, stage),
         running[t].stage \in {"allocate", "try", "free"},
         UNCHANGED <<arrays, mem, pools, streams, meant, fault>>
  PROVE  MemoryInv'
<1> DEFINE c == running'[t]
<1>1. stage \in Stages /\ Typed
  BY DEF Stages, MemoryInv
<1>2. /\ c \in CallStates /\ c.stage = stage /\ c.plan = running[t].plan /\ c.got = running[t].got
      /\ running' = [running EXCEPT ![t] = c]
  <2>1. /\ running' \in [Threads -> CallStates] /\ c.stage = stage /\ c.plan = running[t].plan /\ c.got = running[t].got
        /\ c = [running[t] EXCEPT !.stage = stage]
    BY <1>1, GoesIs
  <2>2. running' = [running EXCEPT ![t] = c]
    BY <2>1 DEF Goes
  <2> QED
    BY <2>1, <2>2
<1>3. /\ running[t].got = 0
      /\ PlanReady(t, running[t].plan) /\ running[t].plan.device /\ running[t].plan.len > 0
      /\ ~pools[running[t].plan.pool].destroyed
  BY DEF MemoryInv, CallsReady, CallReady
<1> HIDE DEF c
<1> QED
  BY <1>2, <1>3, OnlyRunning

(* A call that ends without a block keeps the invariant.                   *)
LEMMA GivesUpKeeps ==
  ASSUME MemoryInv, NEW t \in Threads, running' = [running EXCEPT ![t] = Idle], running[t].got = 0,
         UNCHANGED <<arrays, mem, pools, streams, meant, fault>>
  PROVE  MemoryInv'
<1>1. Idle \in CallStates /\ Idle.got = 0 /\ Idle.stage = "idle"
  BY DEF Idle, CallStates, Plan, Plans, Stages, PoolNames
<1> HIDE DEF Idle
<1> QED
  BY <1>1, OnlyRunning

(* A thread frees what is unused, on its own account or in a call.         *)
LEMMA ReleaseUnusedKeeps ==
  ASSUME MemoryInv, NEW t \in Threads, NEW p \in Pools, ReleaseUnused(t, p)
  PROVE  MemoryInv'
<1>1. /\ pools[p].unused # << >> /\ FreeUnused(p) /\ UNCHANGED <<arrays, running, meant, fault>>
  BY DEF ReleaseUnused
<1>2. running' \in [Threads -> CallStates]
  BY <1>1 DEF MemoryInv, Typed
<1> QED
  BY <1>1, <1>2, FreeKeeps

(* try_allocate's second half keeps the invariant.                         *)
LEMMA FreeAndTryAgainKeeps ==
  ASSUME MemoryInv, NEW t \in Threads, FreeAndTryAgain(t)
  PROVE  MemoryInv'
<1> DEFINE p == running[t].plan.pool
<1>1. /\ running[t].stage = "free" /\ FreeUnused(p) /\ Goes(t, "again") /\ UNCHANGED <<arrays, meant, fault>>
  BY DEF FreeAndTryAgain
<1>2. /\ running' \in [Threads -> CallStates]
      /\ running'[t].stage = "again" /\ running'[t].plan = running[t].plan /\ running'[t].got = running[t].got
      /\ \A u \in Threads : u # t => running'[u] = running[u]
  BY <1>1, GoesIs DEF Stages, MemoryInv
<1>3. p \in Pools
  BY <1>1 DEF MemoryInv, CallsReady, CallReady, PlanReady
<1>4. CASE pools[p].unused # << >>
  <2>1. \A u \in Threads : /\ running'[u].got = running[u].got /\ running'[u].plan = running[u].plan
                           /\ running'[u].stage = "idle" <=> running[u].stage = "idle"
                           /\ running'[u].stage = "build" <=> running[u].stage = "build"
    BY <1>1, <1>2
  <2> HIDE DEF p
  <2> QED
    BY <1>1, <1>2, <1>3, <1>4, <2>1, FreeKeeps
<1>5. CASE pools[p].unused = << >>
  <2>1. UNCHANGED <<mem, streams>> /\ pools' = [pools EXCEPT ![p] = WithoutUnused(pools[p])]
    BY <1>1, <1>5 DEF FreeUnused
  <2>2. WithoutUnused(pools[p]) = pools[p]
    <3> DEFINE old == pools[p]
    <3>1. old \in PoolStates /\ old.unused = << >> /\ DOMAIN << >> = {}
      BY <1>3, <1>5, ListEmpty DEF MemoryInv, Typed
    <3>2. {old.unused[i].ptr : i \in DOMAIN old.unused} = {}
      BY <3>1
    <3>3. WithoutUnused(old) = [old EXCEPT !.allocated = @ \ {}, !.unused = << >>]
      BY <3>2 DEF WithoutUnused
    <3> HIDE DEF old
    <3>4. [old EXCEPT !.allocated = @ \ {}, !.unused = << >>] = old
      BY <3>1 DEF PoolStates
    <3> QED
      BY <3>3, <3>4 DEF old
  <2>3. pools' = pools
    BY <1>3, <2>1, <2>2 DEF MemoryInv, Typed
  <2> QED
    BY <1>1, <2>1, <2>3, GoesKeeps
<1> QED
  BY <1>4, <1>5

-----------------------------------------------------------------------------
(* A pool is destroyed.                                                    *)
LEMMA DestroyKeeps ==
  ASSUME MemoryInv, NEW p \in Pools, destroy(p)
  PROVE  MemoryInv'
<1> USE DEF MemoryInv
<1> DEFINE U == pools[p].allocated
           sync == cudaDeviceSynchronize(mem)
<1>1. /\ mem' = Without(sync, U) /\ streams' = Drained /\ ~pools[p].destroyed
      /\ UNCHANGED <<arrays, running, meant, fault>>
      /\ \A t \in Threads : running[t].stage = "idle" /\ running[t].got = 0
  BY DEF destroy, MayCall, CallsReady, CallReady
<1>2. SameShape(mem, sync)
  BY SyncValue
<1>3. /\ pools' \in [Pools -> PoolStates] /\ pools'[p].unused = << >> /\ pools'[p].allocated = {}
      /\ pools'[p].destroyed = TRUE /\ pools'[p].zombie = U \ UnusedBlocks(pools[p])
      /\ \A q \in Pools : q # p => pools'[q] = pools[q]
  <2> DEFINE old == pools[p]
             gone == U \ UnusedBlocks(old)
             new == [old EXCEPT !.zombie = gone, !.allocated = {}, !.unused = << >>, !.destroyed = TRUE]
  <2>1. old \in PoolStates /\ << >> \in Seq(Entries)
    BY DEF Typed
  <2>2. gone \in SUBSET Addresses
    BY <2>1 DEF PoolStates
  <2>3. WithoutUnused(old).allocated = gone
    <3>1. WithoutUnused(old) = [old EXCEPT !.allocated = gone, !.unused = << >>]
      BY DEF WithoutUnused, UnusedBlocks
    <3> HIDE DEF old, gone
    <3> QED
      BY <2>1, <3>1 DEF PoolStates
  <2>4. pools' = [pools EXCEPT ![p] = new]
    BY <2>3 DEF destroy
  <2> HIDE DEF gone
  <2>5. new \in PoolStates /\ new.zombie = gone /\ new.allocated = {} /\ new.unused = << >> /\ new.destroyed = TRUE
    <3> HIDE DEF old
    <3> QED
      BY <2>1, <2>2 DEF PoolStates
  <2> HIDE DEF new
  <2> QED
    BY <2>4, <2>5 DEF Typed, gone
<1> HIDE DEF U, sync
<1>4. /\ Blocks(mem') /\ DOMAIN mem' = DOMAIN mem \ U
      /\ \A a \in DOMAIN mem \ U : mem'[a] = sync[a] /\ Len(mem'[a]) = Len(mem[a])
  <2>1. Blocks(sync) /\ DOMAIN sync = DOMAIN mem /\ \A a \in DOMAIN mem : Len(sync[a]) = Len(mem[a])
    BY <1>2 DEF SameShape
  <2>2. /\ Blocks(Without(sync, U)) /\ DOMAIN Without(sync, U) = DOMAIN sync \ U
        /\ \A a \in DOMAIN sync \ U : Without(sync, U)[a] = sync[a]
    BY <2>1, WithoutIs
  <2> QED
    BY <1>1, <2>1, <2>2
<1>5. Len(<< >>) = 0
  OBVIOUS
<1>6. Typed'
  <2>1. DOMAIN mem' \subseteq Addresses
    BY <1>4 DEF Typed
  <2> QED
    BY <1>1, <1>3, <1>4, <2>1, WorkDrained DEF Typed, ArrayLike
<1>7. Sized'
  BY <1>1 DEF Sized, SizedAt
<1>8. ASSUME NEW a \in Addresses, NEW q \in Pools, q # p, a \in pools[q].allocated
      PROVE  a \notin U /\ a \in DOMAIN mem' /\ Len(mem'[a]) = Len(mem[a])
  <2>1. a \notin U /\ a \in DOMAIN mem
    BY <1>8 DEF U, Owned, BlocksOwned
  <2> QED
    BY <1>4, <2>1
<1>9. Owned'
  <2>1. BlocksOwned'
    <3>1. ASSUME NEW a \in Addresses PROVE a \in DOMAIN mem' <=> \E q \in Pools : a \in pools'[q].allocated
      <4>1. ASSUME a \in DOMAIN mem' PROVE \E q \in Pools : a \in pools'[q].allocated
        <5>1. PICK q \in Pools : a \in pools[q].allocated
          BY <1>4, <4>1 DEF Owned, BlocksOwned
        <5>2. q # p
          BY <1>4, <4>1, <5>1 DEF U
        <5> QED
          BY <1>3, <5>1, <5>2
      <4>2. ASSUME NEW q \in Pools, a \in pools'[q].allocated PROVE a \in DOMAIN mem'
        <5>1. q # p /\ a \in pools[q].allocated
          BY <1>3, <4>2
        <5> QED
          BY <1>8, <5>1
      <4> QED
        BY <4>1, <4>2
    <3>2. ASSUME NEW q \in Pools PROVE pools'[q].destroyed => pools'[q].allocated = {} /\ pools'[q].unused = << >>
      <4>1. CASE q = p
        BY <1>3, <4>1
      <4>2. CASE q # p
        BY <1>3, <4>2 DEF Owned, BlocksOwned
      <4> QED
        BY <4>1, <4>2
    <3>3. ASSUME NEW q \in Pools, NEW r \in Pools, NEW a \in Addresses, a \in pools'[q].allocated, a \in pools'[r].allocated
          PROVE  q = r
      <4>1. q # p /\ r # p /\ pools'[q] = pools[q] /\ pools'[r] = pools[r]
        BY <1>3, <3>3
      <4> QED
        BY <3>3, <4>1 DEF Owned, BlocksOwned
    <3> QED
      BY <3>1, <3>2, <3>3 DEF BlocksOwned
  <2>2. UnusedOwned'
    <3> SUFFICES ASSUME NEW q \in Pools, NEW i \in 1 .. Len(pools'[q].unused)
                 PROVE  /\ pools'[q].unused[i].ptr \in pools'[q].allocated
                        /\ pools'[q].unused[i].size = Len(mem'[pools'[q].unused[i].ptr])
                        /\ \A j \in 1 .. Len(pools'[q].unused) : j # i => pools'[q].unused[j].ptr # pools'[q].unused[i].ptr
      BY DEF UnusedOwned
    <3>1. q # p /\ pools'[q] = pools[q]
      BY <1>3, <1>5
    <3>2. /\ pools[q].unused[i].ptr \in pools[q].allocated /\ pools[q].unused[i].ptr \in Addresses
          /\ pools[q].unused[i].size = Len(mem[pools[q].unused[i].ptr])
          /\ \A j \in 1 .. Len(pools[q].unused) : j # i => pools[q].unused[j].ptr # pools[q].unused[i].ptr
      BY <3>1, PoolFields DEF Owned, UnusedOwned
    <3> QED
      BY <1>8, <3>1, <3>2
  <2>3. ArraysOwned'
    <3> SUFFICES ASSUME NEW s \in Slots, arrays[s].pointer # 0 PROVE ArrayOwned(s)'
      BY <1>1 DEF ArraysOwned, ArrayOwned
    <3>1. /\ ArrayOwned(s) /\ arrays[s].pointer \in Addresses /\ arrays[s].pool \in Pools
      BY ArrayFields DEF Owned, ArraysOwned, Sized, SizedAt
    <3>2. CASE arrays[s].pool = p
      <4>1. /\ arrays[s].pointer \in U
            /\ \A i \in 1 .. Len(pools[p].unused) : pools[p].unused[i].ptr # arrays[s].pointer
        BY <1>1, <3>1, <3>2 DEF ArrayOwned, U
      <4>2. arrays[s].pointer \notin UnusedBlocks(pools[p])
        BY <4>1, UnusedIs
      <4> QED
        BY <1>1, <1>3, <3>1, <3>2, <4>1, <4>2 DEF ArrayOwned
    <3>3. CASE arrays[s].pool # p
      <4>1. pools'[arrays[s].pool] = pools[arrays[s].pool]
        BY <1>3, <3>1, <3>3
      <4>2. ~pools[arrays[s].pool].destroyed => Len(mem'[arrays[s].pointer]) = Len(mem[arrays[s].pointer])
        BY <1>8, <3>1, <3>3 DEF ArrayOwned
      <4> QED
        BY <1>1, <3>1, <4>1, <4>2 DEF ArrayOwned
    <3> QED
      BY <3>2, <3>3
  <2>4. CallsOwned'
    BY <1>1 DEF CallsOwned, CallOwned
  <2>5. NoneLost'
    <3> SUFFICES ASSUME NEW q \in Pools, NEW a \in pools'[q].allocated PROVE HeldBy(q, a)'
      BY DEF NoneLost
    <3>1. q # p /\ pools'[q] = pools[q]
      BY <1>3
    <3>2. HeldBy(q, a)
      BY <3>1 DEF Owned, NoneLost
    <3> QED
      BY <1>1, <3>1, <3>2 DEF HeldBy
  <2> QED
    BY <2>1, <2>2, <2>3, <2>4, <2>5 DEF Owned
<1>10. CallsReady'
  BY <1>1 DEF CallsReady, CallReady
<1>11. WorkOwn'
  BY <1>1, WorkDrained
<1>12. WordsKept'
  <2>1. ASSUME NEW s \in Slots, Usable(s)', arrays[s].pointer # 0
        PROVE  /\ Usable(s) /\ mem'[arrays[s].pointer] = cudaDeviceSynchronize(mem)[arrays[s].pointer]
    <3>1. arrays[s].pool \in Pools /\ arrays[s].pool # p
      BY <1>1, <1>3, <2>1 DEF Usable, Sized, SizedAt
    <3>2. Usable(s)
      BY <1>1, <1>3, <2>1, <3>1 DEF Usable
    <3>3. arrays[s].pointer \in pools[arrays[s].pool].allocated /\ arrays[s].pointer \in DOMAIN mem
      BY <2>1, <3>2, InUse
    <3>4. arrays[s].pointer \notin U
      BY <1>8, <3>1, <3>3 DEF Typed
    <3> QED
      BY <1>4, <3>2, <3>3, <3>4 DEF sync
  <2>2. \A s \in Slots : Usable(s)' => Usable(s)
    BY <1>1, <2>1 DEF Usable
  <2> QED
    BY <1>1, <2>1, <2>2, SyncedWords
<1> QED
  BY <1>1, <1>6, <1>7, <1>9, <1>10, <1>11, <1>12

-----------------------------------------------------------------------------
(* A call gets a block: a new one of the device's memory,                  *)
LEMMA MallocKeeps ==
  ASSUME MemoryInv, NEW t \in Threads, running[t].stage \in {"try", "again"}, cudaMalloc(t)
  PROVE  MemoryInv'
<1> USE DEF MemoryInv
<1> DEFINE q == running[t].plan.pool
           n == running[t].plan.len
<1>1. PICK ptr \in Addresses \ DOMAIN mem :
        /\ Got(t, ptr)
        /\ mem' = [a \in DOMAIN mem \cup {ptr} |-> IF a = ptr THEN FreshWords(n) ELSE mem[a]]
        /\ pools' = [pools EXCEPT ![q].allocated = @ \cup {ptr}]
        /\ UNCHANGED <<arrays, streams, meant, fault>>
  BY DEF cudaMalloc
<1>2. /\ running' \in [Threads -> CallStates]
      /\ running'[t].stage = "build" /\ running'[t].plan = running[t].plan /\ running'[t].got = ptr
      /\ \A u \in Threads : u # t => running'[u] = running[u]
  BY <1>1, GotIs
<1>3. /\ running[t].got = 0 /\ PlanReady(t, running[t].plan) /\ running[t].plan.device /\ n > 0
      /\ q \in Pools /\ ~pools[q].destroyed /\ n \in Nat
  BY CallFields DEF CallsReady, CallReady, PlanReady
<1>4. /\ pools' \in [Pools -> PoolStates]
      /\ pools'[q].allocated = pools[q].allocated \cup {ptr}
      /\ \A p \in Pools : /\ pools'[p].unused = pools[p].unused /\ pools'[p].destroyed = pools[p].destroyed
                          /\ pools'[p].zombie = pools[p].zombie
                          /\ p # q => pools'[p].allocated = pools[p].allocated
  <2> DEFINE old == pools[q]
             more == old.allocated \cup {ptr}
             new == [old EXCEPT !.allocated = more]
  <2>1. old \in PoolStates /\ more \in SUBSET Addresses
    BY <1>3 DEF Typed, PoolStates
  <2>2. pools' = [pools EXCEPT ![q] = new]
    BY <1>1, <1>3 DEF Typed
  <2>3. /\ new \in PoolStates /\ new.unused = old.unused /\ new.destroyed = old.destroyed /\ new.zombie = old.zombie
        /\ new.allocated = more
    <3> HIDE DEF old, more
    <3> QED
      BY <2>1 DEF PoolStates
  <2> HIDE DEF new
  <2> QED
    BY <1>3, <2>2, <2>3 DEF Typed
<1>5. /\ Blocks(mem') /\ DOMAIN mem' = DOMAIN mem \cup {ptr} /\ \A a \in DOMAIN mem : mem'[a] = mem[a]
      /\ Len(mem'[ptr]) = n
  <2> DEFINE b == FreshWords(n)
  <2>1. b = [i \in 1 .. n |-> b[i]]
    BY DEF FreshWords
  <2> HIDE DEF b, n
  <2>2. List(b) /\ Len(b) = n
    BY <1>3, <2>1, ListOf
  <2>3. /\ DOMAIN mem' = DOMAIN mem \cup {ptr} /\ Table(mem') /\ mem'[ptr] = b
        /\ \A a \in DOMAIN mem : mem'[a] = mem[a]
    BY <1>1 DEF b, Table
  <2>4. \A a \in DOMAIN mem' : List(mem'[a])
    BY <2>2, <2>3 DEF Typed, Blocks
  <2> QED
    BY <2>2, <2>3, <2>4 DEF Blocks
<1> HIDE DEF q, n
<1>6. ptr \in Addresses /\ ptr # 0 /\ ptr \notin DOMAIN mem /\ \A p \in Pools : ptr \notin pools[p].allocated
  BY <1>1, Names DEF Owned, BlocksOwned
<1>7. Typed'
  <2>1. DOMAIN mem' \subseteq Addresses
    BY <1>5, <1>6 DEF Typed
  <2> QED
    BY <1>1, <1>2, <1>4, <1>5, <2>1 DEF Typed, ArrayLike
<1>8. Sized'
  BY <1>1 DEF Sized, SizedAt
<1>9. ASSUME NEW a \in Addresses, NEW p \in Pools, a \in pools[p].allocated
      PROVE  a # ptr /\ a \in DOMAIN mem /\ a \in pools'[p].allocated /\ mem'[a] = mem[a]
  BY <1>4, <1>5, <1>6, <1>9 DEF Owned, BlocksOwned
<1>10. Owned'
  <2>1. BlocksOwned'
    <3>1. \A p \in Pools : \A a \in Addresses : a \in pools'[p].allocated <=> a \in pools[p].allocated \/ (p = q /\ a = ptr)
      BY <1>4
    <3>2. \A a \in Addresses : a \in DOMAIN mem' <=> \E p \in Pools : a \in pools'[p].allocated
      BY <1>3, <1>5, <3>1 DEF Owned, BlocksOwned
    <3>3. \A p, r \in Pools : \A a \in Addresses : a \in pools'[p].allocated /\ a \in pools'[r].allocated => p = r
      BY <1>6, <3>1 DEF Owned, BlocksOwned
    <3>4. \A p \in Pools : pools'[p].destroyed => pools'[p].allocated = {} /\ pools'[p].unused = << >>
      BY <1>3, <1>4 DEF Owned, BlocksOwned
    <3> QED
      BY <3>2, <3>3, <3>4 DEF BlocksOwned
  <2>2. UnusedOwned'
    <3> SUFFICES ASSUME NEW p \in Pools, NEW i \in 1 .. Len(pools[p].unused)
                 PROVE  /\ pools[p].unused[i].ptr \in pools'[p].allocated
                        /\ pools[p].unused[i].size = Len(mem'[pools[p].unused[i].ptr])
                        /\ \A j \in 1 .. Len(pools[p].unused) : j # i => pools[p].unused[j].ptr # pools[p].unused[i].ptr
      BY <1>4 DEF UnusedOwned
    <3>1. /\ pools[p].unused[i].ptr \in pools[p].allocated /\ pools[p].unused[i].ptr \in Addresses
          /\ pools[p].unused[i].size = Len(mem[pools[p].unused[i].ptr])
          /\ \A j \in 1 .. Len(pools[p].unused) : j # i => pools[p].unused[j].ptr # pools[p].unused[i].ptr
      BY PoolFields DEF Owned, UnusedOwned
    <3> QED
      BY <1>9, <3>1
  <2>3. ArraysOwned'
    <3> SUFFICES ASSUME NEW s \in Slots, arrays[s].pointer # 0 PROVE ArrayOwned(s)'
      BY <1>1 DEF ArraysOwned, ArrayOwned
    <3>1. ArrayOwned(s) /\ arrays[s].pointer \in Addresses /\ arrays[s].pool \in Pools
      BY ArrayFields DEF Owned, ArraysOwned, Sized, SizedAt
    <3>2. ~pools[arrays[s].pool].destroyed =>
             arrays[s].pointer \in pools'[arrays[s].pool].allocated /\ mem'[arrays[s].pointer] = mem[arrays[s].pointer]
      BY <1>9, <3>1 DEF ArrayOwned
    <3> QED
      BY <1>1, <1>4, <3>1, <3>2 DEF ArrayOwned
  <2>4. CallsOwned'
    <3>1. CallOwned(t)'
      <4>1. /\ running'[t].plan.pool = q /\ running'[t].plan.len = n
        BY <1>2 DEF q, n
      <4>2. \A i \in 1 .. Len(pools[q].unused) : pools[q].unused[i].ptr # ptr
        BY <1>3, <1>6 DEF Owned, UnusedOwned
      <4>3. \A s \in Slots : arrays[s].pool = q => arrays[s].pointer # ptr
        BY <1>3, <1>6 DEF Owned, ArraysOwned, ArrayOwned
      <4>4. \A u \in Threads : u # t => running[u].got # ptr
        BY <1>6 DEF Owned, CallsOwned, CallOwned
      <4>5. n >= n
        BY <1>3
      <4> QED
        BY <1>1, <1>2, <1>3, <1>4, <1>5, <4>1, <4>2, <4>3, <4>4, <4>5 DEF CallOwned
    <3>2. ASSUME NEW u \in Threads, u # t, running[u].got # 0 PROVE CallOwned(u)'
      <4>1. CallOwned(u) /\ running'[u] = running[u] /\ running[u].got \in Addresses
        BY <1>2, <3>2, CallFields DEF Owned, CallsOwned
      <4>2. /\ running[u].plan.pool \in Pools
            /\ running[u].got # ptr /\ running[u].got \in pools'[running[u].plan.pool].allocated
            /\ mem'[running[u].got] = mem[running[u].got]
        BY <1>9, <3>2, <4>1 DEF CallOwned
      <4>3. \A v \in Threads : v # u => running'[v].got # running[u].got
        BY <1>2, <3>2, <4>1, <4>2 DEF CallOwned
      <4> QED
        BY <1>1, <1>4, <3>2, <4>1, <4>2, <4>3 DEF CallOwned
    <3> QED
      BY <1>2, <3>1, <3>2 DEF CallsOwned, CallOwned
  <2>5. NoneLost'
    <3> SUFFICES ASSUME NEW p \in Pools, NEW a \in pools'[p].allocated PROVE HeldBy(p, a)'
      BY DEF NoneLost
    <3>1. CASE a = ptr
      BY <1>2, <3>1 DEF HeldBy
    <3>2. CASE a # ptr
      <4>1. a \in pools[p].allocated /\ a \in Addresses
        <5>1. p = q \/ p # q
          OBVIOUS
        <5>2. a \in pools[p].allocated
          BY <1>4, <3>2, <5>1
        <5> QED
          BY <5>2, PoolFields
      <4>2. HeldBy(p, a)
        BY <4>1 DEF Owned, NoneLost
      <4>3. \A u \in Threads : running[u].got = a => running'[u].got = a
        BY <1>2, <1>3, <4>1, Names
      <4> QED
        BY <1>1, <1>4, <4>2, <4>3 DEF HeldBy
    <3> QED
      BY <3>1, <3>2
  <2> QED
    BY <2>1, <2>2, <2>3, <2>4, <2>5 DEF Owned
<1>11. CallsReady'
  <2> SUFFICES ASSUME NEW u \in Threads PROVE CallReady(u)'
    BY DEF CallsReady
  <2>1. \A plan : PlanReady(u, plan) => PlanReady(u, plan)'
    BY <1>1, <1>4 DEF PlanReady, Usable, Sized, SizedAt
  <2>2. CASE u = t
    <3>1. PlanReady(t, running[t].plan)'
      BY <1>1, <1>2, <1>3, <1>4 DEF PlanReady, Usable, Sized, SizedAt
    <3>2. running'[t].plan.device /\ running'[t].plan.len > 0 /\ ~pools'[running'[t].plan.pool].destroyed
      BY <1>2, <1>3, <1>4 DEF q, n
    <3> QED
      BY <1>2, <1>6, <2>2, <3>1, <3>2 DEF CallReady
  <2>3. CASE u # t
    <3>1. CallReady(u) /\ running'[u] = running[u]
      BY <1>2, <2>3 DEF CallsReady
    <3>2. running[u].stage # "idle" => running[u].plan.pool \in Pools
      BY <3>1 DEF CallReady, PlanReady
    <3> QED
      BY <1>4, <2>1, <3>1, <3>2 DEF CallReady
  <2> QED
    BY <2>2, <2>3
<1>12. \A u \in Threads : Foot(u) \subseteq Foot(u)'
  <2> SUFFICES ASSUME NEW u \in Threads, NEW a \in DOMAIN mem, Mine(u, a) PROVE Mine(u, a)'
    BY <1>5 DEF Foot
  <2>1. a # 0
    BY Names DEF Typed
  <2>2. running[u].got = a => running'[u].got = a
    BY <1>2, <1>3, <2>1
  <2> QED
    BY <1>1, <1>4, <2>1, <2>2 DEF Mine, Sized, SizedAt
<1>13. WorkOwn'
  BY <1>1, <1>12, WorkFrame
<1>14. \A u \in Threads : \A a \in Foot(u) : Value(u, a)' = Value(u, a)
  <2> SUFFICES ASSUME NEW u \in Threads PROVE \A a \in Foot(u) : Value(u, a)' = Value(u, a)
    OBVIOUS
  <2>1. /\ Blocks(mem) /\ Blocks(mem') /\ Len(streams[u]) \in Nat /\ Within(streams[u], Foot(u))
        /\ Agreeing(mem', mem, Foot(u))
    BY <1>5, ListIs DEF Typed, WorkOwn, Agreeing, Foot
  <2>2. Agreeing(Ran(mem', streams[u]), Ran(mem, streams[u]), Foot(u))
    BY <2>1, RanAgrees
  <2> QED
    BY <1>1, <2>2 DEF Agreeing, Value
<1>15. WordsKept'
  <2>1. ASSUME NEW s \in Slots PROVE KeptAt(s)'
    <3>1. KeptAt(s) /\ arrays'[s] = arrays[s] /\ meant'[s] = meant[s] /\ (Usable(s)' => Usable(s))
      BY <1>1, <1>4 DEF WordsKept, KeptAt, Usable, Sized, SizedAt
    <3>2. ThreadOf(s) \in Threads
      BY Names
    <3> QED
      BY <1>14, <3>1, <3>2, KeptFrame
  <2> QED
    BY <2>1 DEF WordsKept, KeptAt
<1> QED
  BY <1>1, <1>7, <1>8, <1>10, <1>11, <1>13, <1>15

-----------------------------------------------------------------------------
(* or an unused one.  What is left of a sequence without one of its        *)
(* elements:                                                               *)
LEMMA RemoveAtIs ==
  ASSUME NEW S, NEW q \in Seq(S), NEW i \in 1 .. Len(q)
  PROVE  /\ RemoveAt(q, i) \in Seq(S) /\ Len(q) \in Nat /\ Len(RemoveAt(q, i)) = Len(q) - 1
         /\ \A j \in 1 .. Len(q) - 1 : RemoveAt(q, i)[j] = q[IF j < i THEN j ELSE j + 1]
<1> DEFINE n == Len(q)
           a == SubSeq(q, 1, i - 1)
           b == SubSeq(q, i + 1, n)
<1>1. n \in Nat /\ \A j \in 1 .. n : q[j] \in S
  OBVIOUS
<1>2. RemoveAt(q, i) = a \o b
  BY DEF RemoveAt
<1> HIDE DEF n
<1>3. i \in 1 .. n
  BY DEF n
<1>4. /\ a \in Seq(S) /\ Len(a) = i - 1 /\ \A j \in 1 .. i - 1 : a[j] = q[j]
  <2>1. /\ a \in Seq(S) /\ Len(a) = IF 1 <= i - 1 THEN i - 1 - 1 + 1 ELSE 0
        /\ \A j \in 1 .. i - 1 - 1 + 1 : a[j] = q[1 + j - 1]
    <3>1. 1 \in Int /\ i - 1 \in Int /\ \A j \in 1 .. i - 1 : q[j] \in S
      BY <1>1, <1>3
    <3> QED
      BY <3>1, SubSeqProperties
  <2> HIDE DEF a
  <2> QED
    BY <1>1, <1>3, <2>1
<1>5. /\ b \in Seq(S) /\ Len(b) = n - i /\ \A j \in 1 .. n - i : b[j] = q[i + j]
  <2>1. /\ b \in Seq(S) /\ Len(b) = IF i + 1 <= n THEN n - (i + 1) + 1 ELSE 0
        /\ \A j \in 1 .. n - (i + 1) + 1 : b[j] = q[i + 1 + j - 1]
    <3>1. i + 1 \in Int /\ n \in Int /\ \A j \in i + 1 .. n : q[j] \in S
      BY <1>1, <1>3
    <3> QED
      BY <3>1, SubSeqProperties
  <2> HIDE DEF b
  <2> QED
    BY <1>1, <1>3, <2>1
<1> HIDE DEF a, b
<1>6. /\ a \o b \in Seq(S) /\ Len(a \o b) = Len(a) + Len(b)
      /\ \A j \in 1 .. Len(a) + Len(b) : (a \o b)[j] = IF j <= Len(a) THEN a[j] ELSE b[j - Len(a)]
  BY <1>4, <1>5, ConcatProperties
<1>7. Len(a \o b) = n - 1
  BY <1>1, <1>3, <1>4, <1>5, <1>6
<1>8. ASSUME NEW j \in 1 .. n - 1 PROVE (a \o b)[j] = q[IF j < i THEN j ELSE j + 1]
  <2>1. j \in 1 .. Len(a) + Len(b)
    BY <1>1, <1>3, <1>4, <1>5
  <2>2. (a \o b)[j] = IF j <= i - 1 THEN a[j] ELSE b[j - (i - 1)]
    BY <1>4, <1>6, <2>1
  <2>3. CASE j < i
    <3>1. j <= i - 1 /\ j \in 1 .. i - 1
      BY <1>1, <1>3, <2>3
    <3> QED
      BY <1>4, <2>2, <2>3, <3>1
  <2>4. CASE ~ (j < i)
    <3>1. ~ (j <= i - 1) /\ j - (i - 1) \in 1 .. n - i /\ i + (j - (i - 1)) = j + 1
      BY <1>1, <1>3, <2>4
    <3>2. b[j - (i - 1)] = q[i + (j - (i - 1))]
      BY <1>5, <3>1
    <3> QED
      BY <2>2, <2>4, <3>1, <3>2
  <2> QED
    BY <2>3, <2>4
<1> QED
  BY <1>1, <1>2, <1>6, <1>7, <1>8 DEF n

(* Among the unused blocks that are large enough there is a first of the   *)
(* smallest.                                                               *)
LEMMA BestIs ==
  ASSUME NEW p, p.unused \in Seq(Entries), NEW required \in Nat, Candidates(p, required) # {}
  PROVE  Best(p, required) \in Candidates(p, required)
<1> DEFINE C     == Candidates(p, required)
           sizes == {p.unused[i].size : i \in C}
<1>1. \A i \in DOMAIN p.unused : i \in Nat /\ p.unused[i].size \in Nat
  <2>1. \A i \in DOMAIN p.unused : i \in Nat /\ p.unused[i] \in Entries
    OBVIOUS
  <2> QED
    BY <2>1 DEF Entries
<1>2. C \subseteq DOMAIN p.unused
  BY DEF Candidates
<1>3. sizes \subseteq Nat /\ sizes # {}
  BY <1>1, <1>2
<1>4. PICK m \in sizes : \A l \in sizes : m <= l
  <2> HIDE DEF sizes
  <2> QED
    BY <1>3, LeastOf
<1> DEFINE first == {i \in C : p.unused[i].size = m}
<1>5. first \subseteq Nat /\ first # {}
  BY <1>1, <1>2, <1>4
<1>6. PICK i \in first : \A j \in first : i <= j
  <2> HIDE DEF first
  <2> QED
    BY <1>5, LeastOf
<1>7. i \in C /\ \A j \in C \ {i} : \/ p.unused[i].size < p.unused[j].size
                                    \/ p.unused[i].size = p.unused[j].size /\ i < j
  <2> SUFFICES ASSUME NEW j \in C \ {i}
               PROVE  \/ p.unused[i].size < p.unused[j].size
                      \/ p.unused[i].size = p.unused[j].size /\ i < j
    BY <1>6
  <2>1. p.unused[i].size = m /\ m <= p.unused[j].size /\ i \in Nat /\ j \in Nat /\ p.unused[j].size \in Nat /\ m \in Nat
    BY <1>1, <1>2, <1>3, <1>4, <1>6
  <2>2. CASE p.unused[j].size = m
    <3>1. i <= j /\ i # j
      BY <1>6, <2>2
    <3> QED
      BY <2>1, <2>2, <3>1
  <2>3. CASE p.unused[j].size # m
    BY <2>1, <2>3
  <2> QED
    BY <2>2, <2>3
<1> HIDE DEF C
<1> QED
  BY <1>7, Zenon DEF Best, C

(* allocate keeps the invariant: a block that was unused goes to the call, *)
(* and the call waits for the device when another thread gave it back.     *)
LEMMA AllocateKeeps ==
  ASSUME MemoryInv, NEW t \in Threads, allocate(t)
  PROVE  MemoryInv'
<1> USE DEF MemoryInv
<1> DEFINE plan == running[t].plan
           q    == plan.pool
           old  == pools[q].unused
           C    == Candidates(pools[q], plan.len)
           i    == Best(pools[q], plan.len)
           new  == RemoveAt(old, i)
           ptr  == old[i].ptr
           sync == cudaDeviceSynchronize(mem)
<1>1. running[t].stage = "allocate" /\ UNCHANGED <<arrays, meant, fault>>
  BY DEF allocate
<1>2. /\ running[t].got = 0 /\ PlanReady(t, plan) /\ plan.device /\ plan.len > 0
      /\ q \in Pools /\ ~pools[q].destroyed /\ plan.len \in Nat
  BY <1>1, CallFields DEF CallsReady, CallReady, PlanReady
<1>3. CASE C = {} \/ old[i].size >= plan.len * 2
  <2>1. Goes(t, "try") /\ UNCHANGED <<mem, pools, streams>>
    BY <1>3 DEF allocate
  <2> QED
    BY <1>1, <2>1, GoesKeeps
<1>4. CASE ~ (C = {} \/ old[i].size >= plan.len * 2)
  <2>1. /\ Got(t, ptr) /\ pools' = [pools EXCEPT ![q].unused = new]
        /\ IF old[i].thread # t THEN mem' = sync /\ streams' = Drained ELSE UNCHANGED <<mem, streams>>
    BY <1>4 DEF allocate
  <2>2. old \in Seq(Entries) /\ DOMAIN old = 1 .. Len(old)
    BY <1>2, PoolFields
  <2>3. i \in 1 .. Len(old) /\ old[i].size >= plan.len
    <3>1. i \in C
      BY <1>2, <1>4, <2>2, BestIs
    <3> QED
      BY <2>2, <3>1 DEF Candidates
  <2> HIDE DEF i, C, sync
  <2>4. /\ ptr \in Addresses /\ ptr \in pools[q].allocated /\ old[i].size = Len(mem[ptr]) /\ ptr # 0
        /\ \A k \in 1 .. Len(old) : k # i => old[k].ptr # ptr
    <3>1. ptr \in Addresses
      BY <1>2, <2>3, PoolFields
    <3> QED
      BY <1>2, <2>3, <3>1, Names DEF Owned, UnusedOwned
  <2>5. ptr \in DOMAIN mem
    BY <1>2, <2>4 DEF Owned, BlocksOwned
  <2>6. /\ new \in Seq(Entries) /\ Len(old) \in Nat /\ Len(new) = Len(old) - 1
        /\ \A j \in 1 .. Len(old) - 1 : new[j] = old[IF j < i THEN j ELSE j + 1]
    BY <2>2, <2>3, RemoveAtIs
  <2>7. ASSUME NEW j \in 1 .. Len(new)
        PROVE  \E k \in 1 .. Len(old) : k # i /\ new[j] = old[k] /\ k = IF j < i THEN j ELSE j + 1
    <3>1. (IF j < i THEN j ELSE j + 1) \in 1 .. Len(old) /\ (IF j < i THEN j ELSE j + 1) # i
      BY <2>3, <2>6
    <3> QED
      BY <2>6, <3>1
  <2>8. ASSUME NEW k \in 1 .. Len(old), k # i
        PROVE  \E j \in 1 .. Len(new) : new[j] = old[k]
    <3> DEFINE j == IF k < i THEN k ELSE k - 1
    <3>1. j \in 1 .. Len(old) - 1 /\ (IF j < i THEN j ELSE j + 1) = k
      BY <2>3, <2>6, <2>8
    <3>2. new[j] = old[k]
      BY <2>6, <3>1
    <3> QED
      BY <2>6, <3>1, <3>2
  <2>9. /\ running' \in [Threads -> CallStates]
        /\ running'[t].stage = "build" /\ running'[t].plan = plan /\ running'[t].got = ptr
        /\ \A u \in Threads : u # t => running'[u] = running[u]
    BY <2>1, <2>4, GotIs
  <2> HIDE DEF new
  <2>10. /\ pools' \in [Pools -> PoolStates] /\ pools'[q].unused = new
         /\ \A p \in Pools : /\ pools'[p].allocated = pools[p].allocated /\ pools'[p].destroyed = pools[p].destroyed
                             /\ pools'[p].zombie = pools[p].zombie
                             /\ p # q => pools'[p].unused = pools[p].unused
    <3> DEFINE was == pools[q]
               now == [was EXCEPT !.unused = new]
    <3>1. was \in PoolStates
      BY <1>2 DEF Typed
    <3>2. pools' = [pools EXCEPT ![q] = now]
      BY <1>2, <2>1 DEF Typed
    <3>3. /\ now \in PoolStates /\ now.unused = new /\ now.destroyed = was.destroyed /\ now.zombie = was.zombie
          /\ now.allocated = was.allocated
      <4>1. new \in Seq(Entries)
        BY <2>6
      <4> HIDE DEF was
      <4> QED
        BY <3>1, <4>1 DEF PoolStates
    <3> HIDE DEF now
    <3> QED
      BY <1>2, <3>2, <3>3 DEF Typed
  <2>11. SameShape(mem, mem')
    <3>1. SameShape(mem, mem)
      BY DEF SameShape, Typed
    <3>2. SameShape(mem, sync)
      BY SyncValue DEF sync
    <3> QED
      BY <2>1, <3>1, <3>2
  <2>12. DOMAIN mem' = DOMAIN mem /\ \A a \in DOMAIN mem : Len(mem'[a]) = Len(mem[a])
    BY <2>11 DEF SameShape
  <2> HIDE DEF q, old, ptr, plan
  <2>13. \A p \in Pools : \A a \in Addresses : a \in pools[p].allocated => a \in DOMAIN mem /\ Len(mem'[a]) = Len(mem[a])
    BY <2>12 DEF Owned, BlocksOwned
  (* The entries of the pools are the ones there were, but for the block's. *)
  <2>14. ASSUME NEW p \in Pools, NEW j \in 1 .. Len(pools'[p].unused)
         PROVE  /\ \E k \in 1 .. Len(pools[p].unused) : pools'[p].unused[j] = pools[p].unused[k]
                /\ pools'[p].unused[j].ptr # ptr
    <3>1. CASE p = q
      <4>1. j \in 1 .. Len(new)
        BY <2>10, <3>1
      <4>2. PICK k \in 1 .. Len(old) : k # i /\ new[j] = old[k]
        BY <2>7, <4>1
      <4> QED
        BY <2>4, <2>10, <3>1, <4>2 DEF old
    <3>2. CASE p # q
      <4>1. pools'[p].unused = pools[p].unused
        BY <2>10, <3>2
      <4>2. pools[p].unused[j].ptr \in pools[p].allocated
        BY <4>1 DEF Owned, UnusedOwned
      <4>3. ptr \notin pools[p].allocated
        BY <1>2, <2>4, <3>2 DEF Owned, BlocksOwned
      <4> QED
        BY <4>1, <4>2, <4>3
    <3> QED
      BY <3>1, <3>2
  <2>15. ASSUME NEW p \in Pools, NEW k \in 1 .. Len(pools[p].unused), pools[p].unused[k].ptr # ptr
         PROVE  \E j \in 1 .. Len(pools'[p].unused) : pools'[p].unused[j] = pools[p].unused[k]
    <3>1. CASE p = q
      <4>1. k \in 1 .. Len(old) /\ k # i
        BY <2>15, <3>1 DEF old, ptr
      <4> QED
        BY <2>8, <2>10, <3>1, <4>1 DEF old
    <3>2. CASE p # q
      BY <2>10, <3>2
    <3> QED
      BY <3>1, <3>2
  <2>16. Typed'
    <3>1. Blocks(mem') /\ DOMAIN mem' \subseteq Addresses
      BY <2>11, <2>12 DEF SameShape, Typed
    <3>2. streams' = [u \in Threads |-> streams'[u]] /\ \A u \in Threads : List(streams'[u])
      BY <2>1, WorkDrained DEF Typed
    <3> QED
      BY <1>1, <2>9, <2>10, <3>1, <3>2 DEF Typed, ArrayLike
  <2>17. Sized'
    BY <1>1 DEF Sized, SizedAt
  <2>18. Owned'
    <3>1. BlocksOwned'
      <4>1. \A p \in Pools : pools[p].unused = << >> => pools'[p].unused = << >>
        <5> SUFFICES ASSUME pools[q].unused = << >> PROVE FALSE
          BY <2>10
        <5>1. Len(<< >>) = 0
          OBVIOUS
        <5> QED
          BY <2>3, <2>6, <5>1 DEF old
      <4> QED
        BY <2>10, <2>12, <4>1 DEF Owned, BlocksOwned
    <3>2. UnusedOwned'
      <4> SUFFICES ASSUME NEW p \in Pools, NEW j \in 1 .. Len(pools'[p].unused)
                   PROVE  /\ pools'[p].unused[j].ptr \in pools'[p].allocated
                          /\ pools'[p].unused[j].size = Len(mem'[pools'[p].unused[j].ptr])
                          /\ \A l \in 1 .. Len(pools'[p].unused) : l # j => pools'[p].unused[l].ptr # pools'[p].unused[j].ptr
        BY DEF UnusedOwned
      <4>1. PICK k \in 1 .. Len(pools[p].unused) : pools'[p].unused[j] = pools[p].unused[k]
        BY <2>14
      <4>2. /\ pools[p].unused[k].ptr \in pools[p].allocated /\ pools[p].unused[k].size = Len(mem[pools[p].unused[k].ptr])
            /\ pools[p].unused[k].ptr \in Addresses
        BY PoolFields DEF Owned, UnusedOwned
      <4>3. pools'[p].unused[j].ptr \in pools'[p].allocated /\ pools'[p].unused[j].size = Len(mem'[pools'[p].unused[j].ptr])
        BY <2>10, <2>13, <4>1, <4>2
      <4>4. ASSUME NEW l \in 1 .. Len(pools'[p].unused), l # j
            PROVE  pools'[p].unused[l].ptr # pools'[p].unused[j].ptr
        <5>1. CASE p = q
          <6>1. l \in 1 .. Len(new) /\ j \in 1 .. Len(new)
            BY <2>10, <5>1
          <6>2. PICK k1 \in 1 .. Len(old) : new[j] = old[k1] /\ k1 = IF j < i THEN j ELSE j + 1
            BY <2>7, <6>1
          <6>3. PICK k2 \in 1 .. Len(old) : new[l] = old[k2] /\ k2 = IF l < i THEN l ELSE l + 1
            BY <2>7, <6>1
          <6>4. k1 # k2
            <7>1. j \in Nat /\ l \in Nat /\ i \in Nat
              BY <2>3, <2>6, <6>1
            <7> QED
              BY <4>4, <6>2, <6>3, <7>1
          <6>5. old[k2].ptr # old[k1].ptr
            BY <1>2, <6>4 DEF Owned, UnusedOwned, old
          <6> QED
            BY <2>10, <5>1, <6>2, <6>3, <6>5
        <5>2. CASE p # q
          <6>1. pools'[p].unused = pools[p].unused
            BY <2>10, <5>2
          <6>2. j \in 1 .. Len(pools[p].unused) /\ l \in 1 .. Len(pools[p].unused)
            BY <6>1
          <6>3. pools[p].unused[l].ptr # pools[p].unused[j].ptr
            BY <4>4, <6>2 DEF Owned, UnusedOwned
          <6> QED
            BY <6>1, <6>3
        <5> QED
          BY <5>1, <5>2
      <4> QED
        BY <4>3, <4>4
    <3>3. ArraysOwned'
      <4> SUFFICES ASSUME NEW s \in Slots, arrays[s].pointer # 0 PROVE ArrayOwned(s)'
        BY <1>1 DEF ArraysOwned, ArrayOwned
      <4>1. ArrayOwned(s) /\ arrays[s].pointer \in Addresses /\ arrays[s].pool \in Pools
        BY ArrayFields DEF Owned, ArraysOwned, Sized, SizedAt
      <4>2. ~pools[arrays[s].pool].destroyed => Len(mem'[arrays[s].pointer]) = Len(mem[arrays[s].pointer])
        BY <2>13, <4>1 DEF ArrayOwned
      <4>3. ~pools[arrays[s].pool].destroyed =>
              \A j \in 1 .. Len(pools'[arrays[s].pool].unused) : pools'[arrays[s].pool].unused[j].ptr # arrays[s].pointer
        BY <2>14, <4>1 DEF ArrayOwned
      <4> QED
        BY <1>1, <2>10, <4>1, <4>2, <4>3 DEF ArrayOwned
    <3>4. CallsOwned'
      <4>1. CallOwned(t)'
        <5>1. /\ running'[t].plan.pool = q /\ running'[t].plan.len = plan.len
          BY <2>9 DEF q
        <5>2. ptr \in pools'[q].allocated /\ Len(mem'[ptr]) >= plan.len
          BY <1>2, <2>3, <2>4, <2>10, <2>13
        <5>3. \A j \in 1 .. Len(pools'[q].unused) : pools'[q].unused[j].ptr # ptr
          BY <1>2, <2>14
        <5>4. \A s \in Slots : arrays[s].pool = q => arrays[s].pointer # ptr
          BY <1>2, <2>3, <2>4 DEF Owned, ArraysOwned, ArrayOwned, ptr, old
        <5>5. \A u \in Threads : u # t => running[u].got # ptr
          <6> SUFFICES ASSUME NEW u \in Threads, running[u].got = ptr PROVE FALSE
            OBVIOUS
          <6>1. CallOwned(u)
            BY DEF Owned, CallsOwned
          <6>2. running[u].plan.pool = q
            BY <1>2, <2>4, <6>1 DEF CallOwned, Owned, BlocksOwned
          <6> QED
            BY <2>3, <2>4, <6>1, <6>2 DEF CallOwned, ptr, old
        <5> QED
          BY <1>1, <1>2, <2>9, <5>1, <5>2, <5>3, <5>4, <5>5 DEF CallOwned
      <4>2. ASSUME NEW u \in Threads, u # t, running[u].got # 0 PROVE CallOwned(u)'
        <5>1. CallOwned(u) /\ running'[u] = running[u] /\ running[u].got \in Addresses /\ running[u].plan.pool \in Pools
          BY <2>9, <4>2, CallFields DEF Owned, CallsOwned, CallOwned
        <5>2. running[u].got # ptr
          <6> SUFFICES ASSUME running[u].got = ptr PROVE FALSE
            OBVIOUS
          <6>1. running[u].plan.pool = q
            BY <1>2, <2>4, <4>2, <5>1 DEF CallOwned, Owned, BlocksOwned
          <6> QED
            BY <2>3, <2>4, <5>1, <6>1 DEF CallOwned, ptr, old
        <5>3. /\ Len(mem'[running[u].got]) = Len(mem[running[u].got])
              /\ \A j \in 1 .. Len(pools'[running[u].plan.pool].unused) :
                   pools'[running[u].plan.pool].unused[j].ptr # running[u].got
          BY <2>13, <2>14, <4>2, <5>1 DEF CallOwned
        <5>4. \A v \in Threads : v # u => running'[v].got # running[u].got
          BY <2>9, <4>2, <5>1, <5>2 DEF CallOwned
        <5> QED
          BY <1>1, <2>10, <4>2, <5>1, <5>3, <5>4 DEF CallOwned
      <4> QED
        BY <2>9, <4>1, <4>2 DEF CallsOwned, CallOwned
    <3>5. NoneLost'
      <4> SUFFICES ASSUME NEW p \in Pools, NEW a \in pools[p].allocated PROVE HeldBy(p, a)'
        BY <2>10 DEF NoneLost
      <4>1. CASE a = ptr
        BY <2>9, <4>1 DEF HeldBy
      <4>2. CASE a # ptr
        <5>1. HeldBy(p, a) /\ a # 0
          BY PoolFields, Names DEF Owned, NoneLost
        <5>2. \A u \in Threads : running[u].got = a => running'[u].got = a
          BY <1>2, <2>9, <5>1
        <5>3. ASSUME NEW k \in 1 .. Len(pools[p].unused), pools[p].unused[k].ptr = a
              PROVE  \E j \in 1 .. Len(pools'[p].unused) : pools'[p].unused[j].ptr = a
          BY <2>15, <4>2, <5>3
        <5> QED
          BY <1>1, <5>1, <5>2, <5>3 DEF HeldBy
      <4> QED
        BY <4>1, <4>2
    <3> QED
      BY <3>1, <3>2, <3>3, <3>4, <3>5 DEF Owned
  <2>19. CallsReady'
    <3> SUFFICES ASSUME NEW u \in Threads PROVE CallReady(u)'
      BY DEF CallsReady
    <3>1. CASE u = t
      <4>1. PlanReady(t, running[t].plan)'
        BY <1>1, <1>2, <2>9, <2>10 DEF PlanReady, Usable, Sized, SizedAt
      <4>2. running'[t].plan.device /\ running'[t].plan.len > 0 /\ ~pools'[running'[t].plan.pool].destroyed
        BY <1>2, <2>9, <2>10 DEF q
      <4> QED
        BY <2>4, <2>9, <3>1, <4>1, <4>2 DEF CallReady
    <3>2. CASE u # t
      <4>1. CallReady(u) /\ running'[u] = running[u]
        BY <2>9, <3>2 DEF CallsReady
      <4>2. running[u].stage # "idle" => running[u].plan.pool \in Pools /\ PlanReady(u, running[u].plan)'
        BY <1>1, <2>10, <4>1 DEF CallReady, PlanReady, Usable, Sized, SizedAt
      <4> QED
        BY <2>10, <4>1, <4>2 DEF CallReady
    <3> QED
      BY <3>1, <3>2
  <2>20. CASE old[i].thread # t
    <3>1. mem' = sync /\ streams' = Drained
      BY <2>1, <2>20
    <3>2. WorkOwn'
      BY <3>1, WorkDrained
    <3>3. \A s \in Slots : Usable(s)' => Usable(s)
      BY <1>1, <2>10 DEF Usable, Sized, SizedAt
    <3>4. WordsKept'
      BY <1>1, <3>1, <3>3, SyncedWords DEF sync
    <3> QED
      BY <1>1, <2>16, <2>17, <2>18, <2>19, <3>2, <3>4
  <2>21. CASE old[i].thread = t
    <3>1. UNCHANGED <<mem, streams>>
      BY <2>1, <2>21
    <3>2. \A u \in Threads : Foot(u) \subseteq Foot(u)'
      <4> SUFFICES ASSUME NEW u \in Threads, NEW a \in DOMAIN mem, Mine(u, a) PROVE Mine(u, a)'
        BY <3>1 DEF Foot
      <4>1. a # 0
        BY Names DEF Typed
      <4>2. ASSUME NEW s \in Slots, ThreadOf(s) = u, arrays[s].pointer = a, ~pools[arrays[s].pool].destroyed
            PROVE  Mine(u, a)'
        BY <1>1, <2>10, <4>1, <4>2 DEF Mine, Sized, SizedAt
      <4>3. CASE running[u].got = a
        BY <1>2, <2>9, <4>1, <4>3 DEF Mine
      <4>4. ASSUME NEW p \in Pools, NEW k \in 1 .. Len(pools[p].unused), pools[p].unused[k].ptr = a,
                   pools[p].unused[k].thread = u
            PROVE  Mine(u, a)'
        <5>1. CASE a = ptr
          <6>1. p = q
            <7>1. pools[p].unused[k].ptr \in pools[p].allocated
              BY DEF Owned, UnusedOwned
            <7> QED
              BY <1>2, <2>4, <4>4, <5>1, <7>1 DEF Owned, BlocksOwned
          <6>2. k = i
            BY <2>3, <2>4, <4>4, <5>1, <6>1 DEF old
          <6>3. u = t
            BY <2>21, <4>4, <6>1, <6>2 DEF old
          <6> QED
            BY <2>9, <5>1, <6>3 DEF Mine
        <5>2. CASE a # ptr
          <6>1. PICK j \in 1 .. Len(pools'[p].unused) : pools'[p].unused[j] = pools[p].unused[k]
            BY <2>15, <4>4, <5>2
          <6> QED
            BY <4>4, <6>1 DEF Mine
        <5> QED
          BY <5>1, <5>2
      <4> QED
        BY <4>2, <4>3, <4>4 DEF Mine
    <3>3. WorkOwn'
      BY <3>1, <3>2, WorkFrame
    <3>4. WordsKept'
      BY <1>1, <2>10, <3>1, WordsSame
    <3> QED
      BY <1>1, <2>16, <2>17, <2>18, <2>19, <3>3, <3>4
  <2> QED
    BY <2>20, <2>21
<1> QED
  BY <1>3, <1>4

-----------------------------------------------------------------------------
(* Streams that work on their threads' blocks; and a step after which all  *)
(* blocks but one will hold what they would have held.                     *)
Working(q)   == /\ q = [u \in Threads |-> q[u]]
                /\ \A u \in Threads : List(q[u]) /\ Within(q[u], Foot(u))
SteadyBut(b) == \A u \in Threads : \A a \in Foot(u) : a # b => Value(u, a)' = Value(u, a)

(* One thing more in a thread's stream changes what one block will hold.   *)
LEMMA AppendIs ==
  ASSUME Typed, Sized, Owned, WorkOwn, NEW t \in Threads, NEW o, o.dst \in Foot(t),
         o.op = "copy" => o.src \in Foot(t), mem' = mem, streams' = [streams EXCEPT ![t] = Append(@, o)]
  PROVE  /\ Working(streams') /\ SteadyBut(o.dst)
         /\ Value(t, o.dst)' = [i \in 1 .. Len(mem[o.dst]) |-> WordAfter(Ran(mem, streams[t]), o, i)]
<1> DEFINE q == streams[t]
           r == Append(q, o)
           V == Ran(mem, q)
<1>1. /\ List(r) /\ Len(r) = Len(q) + 1 /\ Len(q) \in Nat /\ r[Len(q) + 1] = o /\ \A j \in 1 .. Len(q) : r[j] = q[j]
  BY ListAppend DEF Typed
<1>2. streams'[t] = r /\ \A u \in Threads : u # t => streams'[u] = streams[u]
  BY DEF Typed
<1>3. Ran(mem, r) = Perform(V, o)
  BY RanAppend DEF Typed
<1>4. SameShape(mem, V)
  BY <1>1, RanKeeps DEF Typed
<1>5. streams' = [u \in Threads |-> streams'[u]] /\ \A u \in Threads : List(streams'[u])
  BY <1>1, <1>2 DEF Typed
<1> HIDE DEF V, r
<1>6. \A u \in Threads : Within(streams'[u], Foot(u))
  <2>1. Within(r, Foot(t))
    <3>1. Within(q, Foot(t))
      BY DEF WorkOwn
    <3> SUFFICES ASSUME NEW j \in 1 .. Len(r) PROVE r[j].dst \in Foot(t) /\ (r[j].op = "copy" => r[j].src \in Foot(t))
      BY DEF Within
    <3>2. CASE j = Len(q) + 1
      BY <1>1, <3>2
    <3>3. CASE j # Len(q) + 1
      <4>1. j \in 1 .. Len(q) /\ r[j] = q[j]
        BY <1>1, <3>3
      <4> QED
        BY <3>1, <4>1 DEF Within
    <3> QED
      BY <3>2, <3>3
  <2> QED
    BY <1>2, <2>1 DEF WorkOwn
<1>7. Table(V) /\ DOMAIN V = DOMAIN mem /\ o.dst \in DOMAIN mem /\ List(V[o.dst]) /\ Len(V[o.dst]) = Len(mem[o.dst])
  BY <1>4 DEF SameShape, Blocks, Foot
<1>8. ASSUME NEW u \in Threads, NEW a \in Foot(u), a # o.dst PROVE Value(u, a)' = Value(u, a)
  <2>1. CASE u = t
    <3>1. a \in DOMAIN V
      BY <1>7 DEF Foot
    <3>2. Perform(V, o)[a] = V[a]
      BY <1>7, <1>8, <3>1, PerformElsewhere
    <3> QED
      BY <1>2, <1>3, <2>1, <3>2 DEF Value, V
  <2>2. CASE u # t
    BY <1>2, <2>2 DEF Value
  <2> QED
    BY <2>1, <2>2
<1>9. Value(t, o.dst)' = [i \in 1 .. Len(mem[o.dst]) |-> WordAfter(V, o, i)]
  <2>1. Perform(V, o)[o.dst] = [i \in DOMAIN V[o.dst] |-> WordAfter(V, o, i)]
    BY <1>7, PerformThere
  <2>2. DOMAIN V[o.dst] = 1 .. Len(mem[o.dst])
    BY <1>7, ListIs
  <2> QED
    BY <1>2, <1>3, <2>1, <2>2 DEF Value
<1> QED
  BY <1>5, <1>6, <1>8, <1>9 DEF V, Working, SteadyBut

(* When a thread waits for its own stream, no block will hold anything     *)
(* else.                                                                   *)
LEMMA WaitIs ==
  ASSUME Typed, Sized, Owned, WorkOwn, NEW t \in Threads,
         mem' = Finished(mem, t), streams' = [streams EXCEPT ![t] = << >>]
  PROVE  /\ SameShape(mem, mem') /\ Working(streams') /\ \A b : SteadyBut(b)
         /\ \A u \in Threads : \A a \in Foot(u) : Value(u, a)' = Value(u, a)
<1> DEFINE q == streams[t]
<1>1. mem' = Ran(mem, q) /\ List(q) /\ Len(q) \in Nat
  BY ListIs DEF Finished, Typed
<1>2. streams'[t] = << >> /\ \A u \in Threads : u # t => streams'[u] = streams[u]
  BY DEF Typed
<1>3. SameShape(mem, mem') /\ \A a \in DOMAIN mem : (\A i \in 1 .. Len(q) : q[i].dst # a) => mem'[a] = mem[a]
  BY <1>1, RanKeeps DEF Typed
<1>4. streams' = [u \in Threads |-> streams'[u]] /\ \A u \in Threads : List(streams'[u])
  BY <1>2, ListEmpty DEF Typed
<1>5. \A u \in Threads : Within(streams'[u], Foot(u))
  <2>1. Within(<< >>, Foot(t))
    BY ListEmpty DEF Within
  <2> QED
    BY <1>2, <2>1 DEF WorkOwn
<1>6. ASSUME NEW u \in Threads, NEW a \in Foot(u) PROVE Value(u, a)' = Value(u, a)
  <2>1. CASE u = t
    <3>1. Ran(mem', << >>) = mem'
      BY RanNothing
    <3> QED
      BY <1>1, <1>2, <2>1, <3>1 DEF Value
  <2>2. CASE u # t
    <3>1. \A b \in Foot(u) : mem'[b] = mem[b]
      <4> SUFFICES ASSUME NEW b \in Foot(u) PROVE mem'[b] = mem[b]
        OBVIOUS
      <4>1. b \notin Foot(t) /\ b \in DOMAIN mem
        BY <2>2, FootApart DEF Foot
      <4>2. \A i \in 1 .. Len(q) : q[i].dst # b
        BY <4>1 DEF WorkOwn, Within
      <4> QED
        BY <1>3, <4>1, <4>2
    <3>2. Ran(mem', streams[u])[a] = Value(u, a)
      BY <1>3, <2>2, <3>1, OthersKept
    <3> QED
      BY <1>2, <2>2, <3>2 DEF Value
  <2> QED
    BY <2>1, <2>2
<1> QED
  BY <1>3, <1>4, <1>5, <1>6 DEF Working, SteadyBut

(* When streams and memory stay, everything does.                          *)
LEMMA StayIs ==
  ASSUME Typed, WorkOwn, mem' = mem, streams' = streams
  PROVE  /\ SameShape(mem, mem') /\ Working(streams') /\ \A b : SteadyBut(b)
         /\ \A u \in Threads : \A a : Value(u, a)' = Value(u, a)
<1>1. \A u \in Threads : \A a : Value(u, a)' = Value(u, a)
  BY DEF Value
<1> QED
  BY <1>1 DEF Typed, WorkOwn, Working, SteadyBut, SameShape

(* Words are written: who holds which block stays.                         *)
LEMMA HoldersKept ==
  ASSUME MemoryInv, SameShape(mem, mem'), UNCHANGED <<pools, running>>,
         \A s \in Slots : /\ arrays'[s].pointer = arrays[s].pointer /\ arrays'[s].len = arrays[s].len
                          /\ arrays'[s].device = arrays[s].device /\ arrays'[s].pool = arrays[s].pool
  PROVE  Owned' /\ CallsReady' /\ (\A t \in Threads : Foot(t)' = Foot(t)) /\ \A s \in Slots : Usable(s)' <=> Usable(s)
<1> USE DEF MemoryInv
<1>1. DOMAIN mem' = DOMAIN mem /\ \A a \in DOMAIN mem : Len(mem'[a]) = Len(mem[a])
  BY DEF SameShape
<1>2. Owned'
  <2>1. BlocksOwned'
    BY <1>1 DEF Owned, BlocksOwned
  <2>2. UnusedOwned'
    <3>1. \A p \in Pools : \A i \in 1 .. Len(pools[p].unused) : pools[p].unused[i].ptr \in DOMAIN mem
      BY PoolFields DEF Owned, BlocksOwned, UnusedOwned
    <3>2. pools' = pools
      OBVIOUS
    <3>3. UnusedOwned
      BY DEF Owned
    <3> HIDE DEF MemoryInv
    <3> QED
      BY ONLY <1>1, <3>1, <3>2, <3>3 DEF UnusedOwned
  <2>3. ArraysOwned'
    <3> SUFFICES ASSUME NEW s \in Slots PROVE ArrayOwned(s)'
      BY DEF ArraysOwned
    <3>1. arrays[s].pointer # 0 /\ ~pools[arrays[s].pool].destroyed => arrays[s].pointer \in DOMAIN mem
      BY InUse DEF Usable
    <3>2. ArrayOwned(s)
      BY DEF Owned, ArraysOwned
    <3> QED
      BY <1>1, <3>1, <3>2 DEF ArrayOwned
  <2>4. CallsOwned'
    <3>1. \A t \in Threads : running[t].got # 0 => running[t].got \in DOMAIN mem
      BY CallFields DEF Owned, BlocksOwned, CallsOwned, CallOwned
    <3> QED
      BY <1>1, <3>1 DEF Owned, CallsOwned, CallOwned
  <2>5. NoneLost'
    BY DEF Owned, NoneLost, HeldBy
  <2> QED
    BY <2>1, <2>2, <2>3, <2>4, <2>5 DEF Owned
<1>3. CallsReady'
  <2> SUFFICES ASSUME NEW u \in Threads PROVE CallReady(u)'
    BY DEF CallsReady
  <2>1. CallReady(u)
    BY DEF CallsReady
  <2>2. PlanReady(u, running[u].plan) => PlanReady(u, running[u].plan)'
    BY DEF PlanReady, Usable
  <2> QED
    BY <2>1, <2>2 DEF CallReady
<1>4. \A t \in Threads : Foot(t)' = Foot(t)
  BY <1>1 DEF Foot, Mine
<1>5. \A s \in Slots : Usable(s)' <=> Usable(s)
  BY DEF Usable
<1> QED
  BY <1>2, <1>3, <1>4, <1>5

(* Words written to an array on the host; one on the device stays as it    *)
(* is.                                                                     *)
LEMMA WrittenIs ==
  ASSUME Typed, NEW d \in Slots, NEW words, WrittenTo(d, words)
  PROVE  /\ arrays' = [s \in Slots |-> arrays'[s]]
         /\ \A s \in Slots : /\ ArrayLike(arrays'[s])
                             /\ arrays'[s].pointer = arrays[s].pointer /\ arrays'[s].len = arrays[s].len
                             /\ arrays'[s].device = arrays[s].device /\ arrays'[s].pool = arrays[s].pool
                             /\ s # d \/ arrays[s].device => arrays'[s] = arrays[s]
         /\ ~arrays[d].device => arrays'[d].words = words
<1>1. CASE arrays[d].device
  BY <1>1 DEF WrittenTo, Typed
<1>2. CASE ~arrays[d].device
  <2> DEFINE a == arrays[d]
             b == [a EXCEPT !.words = words]
  <2>1. ArrayLike(a)
    BY DEF Typed
  <2>2. /\ b \in [pointer : Addresses \cup {0}, len : Nat, device : BOOLEAN, pool : PoolNames, words : {words}]
        /\ b.words = words /\ b.pointer = a.pointer /\ b.len = a.len /\ b.device = a.device /\ b.pool = a.pool
    <3> HIDE DEF a
    <3> QED
      BY <2>1 DEF ArrayLike
  <2>3. arrays' = [arrays EXCEPT ![d] = b]
    BY <1>2 DEF WrittenTo, Typed
  <2> HIDE DEF b
  <2>4. arrays' = [s \in Slots |-> arrays'[s]] /\ arrays'[d] = b /\ \A s \in Slots : s # d => arrays'[s] = arrays[s]
    BY <2>3 DEF Typed
  <2>5. ArrayLike(b)
    BY <2>2 DEF ArrayLike
  <2> QED
    BY <1>2, <2>2, <2>4, <2>5 DEF Typed
<1> QED
  BY <1>1, <1>2

(* Words of an array d are written: words where it is on the host; its     *)
(* block, b, will hold now where it is on the device.                      *)
Writes(t, d, b, words, mean, now) ==
  /\ ThreadOf(d) = t /\ Usable(d) /\ WrittenTo(d, words) /\ UNCHANGED <<pools, running, fault>>
  /\ SameShape(mem, mem') /\ Working(streams') /\ b = arrays[d].pointer /\ SteadyBut(b)
  /\ meant' = [meant EXCEPT ![d] = mean] /\ mean = [i \in 1 .. arrays[d].len |-> mean[i]]
  /\ ~arrays[d].device => words = [i \in 1 .. arrays[d].len |-> words[i]]
  /\ now = (IF arrays[d].device THEN Value(t, b)' ELSE words)
  /\ \A i \in 1 .. arrays[d].len : mean[i] \in {Garbage, now[i]}

(* Writing to one's own array, here or by one's stream, keeps the          *)
(* invariant.                                                              *)
LEMMA WrittenKeeps ==
  ASSUME MemoryInv, NEW t \in Threads, NEW d \in Slots, NEW b, NEW words, NEW mean, NEW now,
         Writes(t, d, b, words, mean, now)
  PROVE  MemoryInv'
<1> SUFFICES ASSUME
         ThreadOf(d) = t, Usable(d), WrittenTo(d, words),
         UNCHANGED <<pools, running, fault>>, SameShape(mem, mem'), Working(streams'),
         b = arrays[d].pointer, SteadyBut(b),
         meant' = [meant EXCEPT ![d] = mean], mean = [i \in 1 .. arrays[d].len |-> mean[i]],
         ~arrays[d].device => words = [i \in 1 .. arrays[d].len |-> words[i]],
         now = (IF arrays[d].device THEN Value(t, b)' ELSE words),
         \A i \in 1 .. arrays[d].len : mean[i] \in {Garbage, now[i]}
       PROVE MemoryInv'
  BY DEF Writes
<1> USE DEF MemoryInv
<1>1. /\ arrays' = [s \in Slots |-> arrays'[s]]
      /\ \A s \in Slots : /\ ArrayLike(arrays'[s])
                          /\ arrays'[s].pointer = arrays[s].pointer /\ arrays'[s].len = arrays[s].len
                          /\ arrays'[s].device = arrays[s].device /\ arrays'[s].pool = arrays[s].pool
                          /\ s # d \/ arrays[s].device => arrays'[s] = arrays[s]
      /\ ~arrays[d].device => arrays'[d].words = words
  BY WrittenIs
<1>2. Owned' /\ CallsReady' /\ (\A u \in Threads : Foot(u)' = Foot(u)) /\ \A s \in Slots : Usable(s)' <=> Usable(s)
  BY <1>1, HoldersKept
<1>3. meant' = [s \in Slots |-> meant'[s]] /\ meant'[d] = mean /\ \A s \in Slots : s # d => meant'[s] = meant[s]
  BY DEF Typed
<1>4. Typed'
  BY <1>1, <1>3 DEF Typed, SameShape, Working
<1>5. Sized'
  <2> SUFFICES ASSUME NEW s \in Slots PROVE SizedAt(s)'
    BY DEF Sized
  <2>1. SizedAt(s)
    BY DEF Sized
  <2>2. CASE s = d
    BY <1>1, <1>3, <2>1, <2>2 DEF SizedAt
  <2>3. CASE s # d
    BY <1>1, <1>3, <2>1, <2>3 DEF SizedAt
  <2> QED
    BY <2>2, <2>3
<1>6. WorkOwn'
  BY <1>2 DEF WorkOwn, Working
<1>7. WordsKept'
  <2>1. ASSUME NEW s \in Slots, s # d PROVE KeptAt(s)'
    <3>1. KeptAt(s) /\ arrays'[s] = arrays[s] /\ meant'[s] = meant[s] /\ (Usable(s)' => Usable(s)) /\ ThreadOf(s) \in Threads
      BY <1>1, <1>2, <1>3, <2>1, Names DEF WordsKept, KeptAt
    <3>2. ASSUME NEW a \in Foot(ThreadOf(s)), a = arrays[s].pointer, Usable(s)'
          PROVE  Value(ThreadOf(s), a)' = Value(ThreadOf(s), a)
      <4>1. a # 0 /\ Usable(s)
        BY <1>2, <3>2, Names DEF Foot, Typed
      <4>2. a # arrays[d].pointer
        <5> SUFFICES ASSUME a = arrays[d].pointer PROVE FALSE
          OBVIOUS
        <5>1. CASE arrays[d].pool = arrays[s].pool
          BY <2>1, <3>2, <4>1, <5>1 DEF Owned, ArraysOwned, ArrayOwned
        <5>2. CASE arrays[d].pool # arrays[s].pool
          <6>1. arrays[s].pool \in Pools /\ a \in pools[arrays[s].pool].allocated /\ a \in Foot(ThreadOf(s)) /\ a \in Addresses
            BY <3>2, <4>1, InUse, ArrayFields
          <6>2. arrays[d].pool \in Pools /\ a \in pools[arrays[d].pool].allocated
            BY <4>1, InUse
          <6> QED
            BY <5>2, <6>1, <6>2 DEF Owned, BlocksOwned
        <5> QED
          BY <5>1, <5>2
      <4> QED
        BY <3>1, <3>2, <4>2 DEF SteadyBut
    <3> QED
      BY <3>1, <3>2, KeptFrame
  <2>2. KeptAt(d)'
    <3> SUFFICES ASSUME Usable(d)', arrays'[d].len > 0
                 PROVE  Agrees(IF arrays[d].device THEN Finished(mem, ThreadOf(d))[arrays[d].pointer]
                               ELSE arrays[d].words, d)'
      BY DEF KeptAt
    <3>1. Usable(d) /\ DOMAIN meant'[d] = 1 .. arrays[d].len
      BY <1>2, <1>3
    <3>2. CASE arrays[d].device
      <4>1. \A i \in DOMAIN meant'[d] : meant'[d][i] \in {Garbage, Value(t, b)'[i]}
        BY <1>3, <3>1, <3>2
      <4>2. Value(t, b)' = Finished(mem, ThreadOf(d))'[arrays'[d].pointer]
        BY <1>1 DEF Value, Finished
      <4>3. arrays'[d].device
        BY <1>1, <3>2
      <4> QED
        BY <4>1, <4>2, <4>3 DEF Agrees
    <3>3. CASE ~arrays[d].device
      <4>1. \A i \in DOMAIN meant'[d] : meant'[d][i] \in {Garbage, words[i]}
        BY <1>3, <3>1, <3>3
      <4>2. arrays'[d].words = words /\ ~arrays'[d].device
        BY <1>1, <3>3
      <4> QED
        BY <4>1, <4>2 DEF Agrees
    <3> QED
      BY <3>2, <3>3
  <2> QED
    BY <2>1, <2>2 DEF WordsKept, KeptAt
<1> QED
  BY <1>2, <1>4, <1>5, <1>6, <1>7

(* The block of an array that can be used is its thread's.                 *)
LEMMA BlockOf ==
  ASSUME MemoryInv, NEW s \in Slots, Usable(s), arrays[s].device, arrays[s].len > 0
  PROVE  /\ arrays[s].pointer # 0 /\ arrays[s].pointer \in Foot(ThreadOf(s)) /\ arrays[s].pointer \in DOMAIN mem
         /\ Len(mem[arrays[s].pointer]) \in Nat /\ Len(mem[arrays[s].pointer]) >= arrays[s].len
         /\ arrays[s].len \in Nat /\ ThreadOf(s) \in Threads
<1> USE DEF MemoryInv
<1>1. arrays[s].pointer # 0
  BY DEF Sized, SizedAt
<1>2. /\ arrays[s].pointer \in Foot(ThreadOf(s)) /\ arrays[s].pointer \in DOMAIN mem
      /\ Len(mem[arrays[s].pointer]) >= arrays[s].len
  BY <1>1, InUse
<1>3. Len(mem[arrays[s].pointer]) \in Nat
  BY <1>2, ListIs DEF Typed, Blocks
<1> QED
  BY <1>1, <1>2, <1>3, ArrayFields, Names

(* The thread's stream gets one thing more to do on the block of an array  *)
(* of the device: the array will hold what that leaves there.              *)
Queues(t, d, o, mean) ==
  /\ ThreadOf(d) = t /\ Usable(d) /\ arrays[d].device /\ arrays[d].len > 0
  /\ o.dst = arrays[d].pointer /\ (o.op = "copy" => o.src \in Foot(t))
  /\ UNCHANGED <<arrays, mem, pools, running, fault>> /\ streams' = [streams EXCEPT ![t] = Append(@, o)]
  /\ meant' = [meant EXCEPT ![d] = mean] /\ mean = [i \in 1 .. arrays[d].len |-> mean[i]]
  /\ \A i \in 1 .. arrays[d].len : mean[i] \in {Garbage, WordAfter(Ran(mem, streams[t]), o, i)}

(* One thing more asked of the device, for one's own block, keeps the      *)
(* invariant.                                                              *)
LEMMA QueuedKeeps ==
  ASSUME MemoryInv, NEW t \in Threads, NEW d \in Slots, NEW o, NEW mean, Queues(t, d, o, mean)
  PROVE  MemoryInv'
<1> SUFFICES ASSUME
         ThreadOf(d) = t, Usable(d), arrays[d].device, arrays[d].len > 0,
         o.dst = arrays[d].pointer, o.op = "copy" => o.src \in Foot(t),
         UNCHANGED <<arrays, mem, pools, running, fault>>, streams' = [streams EXCEPT ![t] = Append(@, o)],
         meant' = [meant EXCEPT ![d] = mean], mean = [i \in 1 .. arrays[d].len |-> mean[i]],
         \A i \in 1 .. arrays[d].len : mean[i] \in {Garbage, WordAfter(Ran(mem, streams[t]), o, i)}
       PROVE MemoryInv'
  BY DEF Queues
<1>1. PICK b : b = arrays[d].pointer
  OBVIOUS
<1>2. b \in Foot(t) /\ Len(mem[b]) \in Nat /\ Len(mem[b]) >= arrays[d].len /\ arrays[d].len \in Nat
  BY <1>1, BlockOf
<1>3. o.dst = b
  BY <1>1
<1>4. /\ Working(streams') /\ SteadyBut(b)
      /\ Value(t, b)' = [i \in 1 .. Len(mem[b]) |-> WordAfter(Ran(mem, streams[t]), o, i)]
  BY <1>2, <1>3, AppendIs DEF MemoryInv
<1>5. PICK now : now = (IF arrays[d].device THEN Value(t, b)' ELSE << >>)
  OBVIOUS
<1>6. \A i \in 1 .. arrays[d].len : mean[i] \in {Garbage, now[i]}
  <2> SUFFICES ASSUME NEW i \in 1 .. arrays[d].len PROVE mean[i] \in {Garbage, now[i]}
    OBVIOUS
  <2>1. now[i] = WordAfter(Ran(mem, streams[t]), o, i)
    BY <1>2, <1>4, <1>5
  <2> QED
    BY <2>1
<1>7. SameShape(mem, mem')
  BY DEF MemoryInv, Typed, SameShape
<1>8. WrittenTo(d, << >>)
  BY DEF WrittenTo
<1>9. Working(streams') /\ SteadyBut(b)
  BY <1>4
<1>10. UNCHANGED <<pools, running, fault>>
  OBVIOUS
<1>11. ~arrays[d].device => << >> = [i \in 1 .. arrays[d].len |-> << >>[i]]
  OBVIOUS
<1>12. Writes(t, d, b, << >>, mean, now)
  BY <1>1, <1>5, <1>6, <1>7, <1>8, <1>9, <1>10, <1>11 DEF Writes
<1> QED
  BY <1>12, WrittenKeeps

(* set_zero keeps the invariant.                                           *)
LEMMA SetZeroKeeps ==
  ASSUME MemoryInv, NEW t \in Threads, NEW s \in Slots, ThreadOf(s) = t, Usable(s), set_zero(t, s)
  PROVE  MemoryInv'
<1>1. PICK n, ptr, words, o :
        n = arrays[s].len /\ ptr = arrays[s].pointer /\ words = ZeroWords(n) /\ o = Zero(ptr, 0, n)
  OBVIOUS
<1>2. /\ n > 0 /\ WrittenTo(s, words) /\ UNCHANGED <<mem, pools, running, fault>>
      /\ streams' = (IF arrays[s].device THEN [streams EXCEPT ![t] = Append(@, o)] ELSE streams)
      /\ meant' = [meant EXCEPT ![s] = words]
  BY <1>1 DEF set_zero, Queued
<1>3. words = [i \in 1 .. n |-> words[i]] /\ \A i \in 1 .. n : words[i] = 0
  BY <1>1 DEF ZeroWords
<1>4. SameShape(mem, mem')
  BY <1>2 DEF MemoryInv, Typed, SameShape
<1>5. CASE arrays[s].device
  <2>1. arrays' = arrays /\ streams' = [streams EXCEPT ![t] = Append(@, o)]
    BY <1>2, <1>5 DEF WrittenTo
  <2>2. o.dst = ptr /\ o.op = "zero" /\ o.first = 0 /\ o.last = n /\ n \in Nat
    BY <1>1, <1>2, <1>5, BlockOf DEF Zero
  <2>3. \A i \in 1 .. n : words[i] \in {Garbage, WordAfter(Ran(mem, streams[t]), o, i)}
    BY <1>3, <2>2 DEF WordAfter
  <2>4. Queues(t, s, o, words)
    BY <1>1, <1>2, <1>3, <1>5, <2>1, <2>2, <2>3 DEF Queues
  <2> QED
    BY <2>4, QueuedKeeps
<1>6. CASE ~arrays[s].device
  <2>1. Working(streams') /\ SteadyBut(ptr)
    BY <1>2, <1>6, StayIs DEF MemoryInv
  <2>2. Writes(t, s, ptr, words, words, words)
    BY <1>1, <1>2, <1>3, <1>4, <1>6, <2>1 DEF Writes
  <2> QED
    BY <2>2, WrittenKeeps
<1> QED
  BY <1>5, <1>6

(* A kernel on an array keeps the invariant.                               *)
LEMMA LaunchKeeps ==
  ASSUME MemoryInv, NEW t \in Threads, NEW s \in Slots, ThreadOf(s) = t, Usable(s), Launch(t, s)
  PROVE  MemoryInv'
<1>1. PICK n, ptr, mean, was, o :
        /\ n = arrays[s].len /\ ptr = arrays[s].pointer /\ was = meant[s]
        /\ mean = [i \in DOMAIN was |-> Increased(was[i])] /\ o = Kernel(ptr, n)
  OBVIOUS
<1>2. /\ n > 0 /\ arrays[s].device /\ UNCHANGED <<arrays, mem, pools, running, fault>>
      /\ streams' = [streams EXCEPT ![t] = Append(@, o)] /\ meant' = [meant EXCEPT ![s] = mean]
  BY <1>1 DEF Launch, Queued, MemoryInv, Typed
<1>3. DOMAIN was = 1 .. n /\ mean = [i \in 1 .. n |-> mean[i]]
  BY <1>1 DEF MemoryInv, Sized, SizedAt
<1>4. o.dst = ptr /\ o.op = "kernel" /\ o.first = 0 /\ o.last = n /\ n \in Nat
  BY <1>1, <1>2, BlockOf DEF Kernel
<1>5. ASSUME NEW i \in 1 .. n PROVE mean[i] \in {Garbage, WordAfter(Ran(mem, streams[t]), o, i)}
  <2> DEFINE word == Ran(mem, streams[t])[ptr][i]
  <2>1. was[i] \in {Garbage, word}
    BY <1>1, <1>2, <1>3 DEF MemoryInv, WordsKept, Agrees, Finished
  <2>2. WordAfter(Ran(mem, streams[t]), o, i) = Increased(word)
    BY <1>4 DEF WordAfter
  <2>3. mean[i] = Increased(was[i])
    BY <1>1, <1>3
  <2>4. Increased(Garbage) = Garbage
    BY DEF Increased
  <2> QED
    BY <2>1, <2>2, <2>3, <2>4
<1>6. Queues(t, s, o, mean)
  BY <1>1, <1>2, <1>3, <1>4, <1>5 DEF Queues
<1> QED
  BY <1>6, QueuedKeeps

(* What an array that can be read holds once its thread's stream is done.  *)
Holds(t, s) == IF arrays[s].device THEN Ran(mem, streams[t])[arrays[s].pointer] ELSE arrays[s].words
(* An array in use will hold the words that are meant.                     *)
LEMMA HoldsIs ==
  ASSUME MemoryInv, NEW s \in Slots, Usable(s), NEW t, t = ThreadOf(s), arrays[s].len > 0
  PROVE  /\ meant[s] = [i \in 1 .. arrays[s].len |-> meant[s][i]]
         /\ \A i \in 1 .. arrays[s].len : meant[s][i] \in {Garbage, Holds(t, s)[i]}
<1>1. meant[s] = [i \in 1 .. arrays[s].len |-> meant[s][i]]
  BY DEF MemoryInv, Sized, SizedAt
<1>2. DOMAIN meant[s] = 1 .. arrays[s].len
  BY <1>1
<1>3. \A i \in DOMAIN meant[s] : meant[s][i] \in {Garbage, Holds(t, s)[i]}
  BY DEF MemoryInv, WordsKept, Agrees, Finished, Holds
<1> QED
  BY <1>1, <1>2, <1>3

(* copy_from_slice keeps the invariant, between host and device in each    *)
(* direction.                                                              *)
LEMMA CopyKeeps ==
  ASSUME MemoryInv, NEW t \in Threads, NEW d \in Slots, NEW s \in Slots, ThreadOf(d) = t, ThreadOf(s) = t,
         Usable(d), Usable(s), copy_from_slice(t, d, s)
  PROVE  MemoryInv'
<1>1. PICK n, dst, src, mean, after, held :
        /\ n = arrays[s].len /\ dst = arrays[d].pointer /\ src = arrays[s].pointer /\ mean = meant[s]
        /\ after = Ran(mem, streams[t]) /\ held = Holds(t, s)
  OBVIOUS
<1>2. PICK words, o :
        /\ words = (IF arrays[s].device THEN SubSeq(after[src], 1, n) ELSE arrays[s].words)
        /\ o = IF arrays[s].device THEN Copy(dst, src, n) ELSE Upload(dst, words)
  OBVIOUS
<1>3. /\ n = arrays[d].len /\ n > 0 /\ WrittenTo(d, words) /\ UNCHANGED <<pools, running, fault>>
      /\ meant' = [meant EXCEPT ![d] = mean]
      /\ IF arrays[s].device /\ ~arrays[d].device THEN mem' = after /\ streams' = [streams EXCEPT ![t] = << >>]
         ELSE mem' = mem /\ streams' = IF arrays[d].device THEN [streams EXCEPT ![t] = Append(@, o)] ELSE streams
  BY <1>1, <1>2 DEF copy_from_slice, Queued, Finished
<1>4. n \in Nat
  BY <1>1, ArrayFields DEF MemoryInv
<1>5. mean = [i \in 1 .. n |-> mean[i]] /\ \A i \in 1 .. n : mean[i] \in {Garbage, held[i]}
  BY <1>1, <1>3, HoldsIs
<1>6. words = [i \in 1 .. n |-> words[i]] /\ (\A i \in 1 .. n : words[i] = held[i]) /\ Len(words) = n
  <2>1. CASE arrays[s].device
    <3>1. src \in DOMAIN mem /\ Len(mem[src]) \in Nat /\ Len(mem[src]) >= n
      BY <1>1, <1>3, <2>1, BlockOf
    <3>2. List(after[src]) /\ Len(after[src]) = Len(mem[src]) /\ held = after[src]
      <4>1. SameShape(mem, after)
        BY <1>1, RanKeeps, ListIs DEF MemoryInv, Typed
      <4> QED
        BY <1>1, <2>1, <3>1, <4>1 DEF SameShape, Blocks, Holds
    <3>3. PICK S : after[src] \in Seq(S)
      BY <3>2 DEF List
    <3>4. SubSeq(after[src], 1, n) = [i \in 1 .. n |-> after[src][i]]
      <4>1. \A i \in 1 .. n : i \in 1 .. Len(after[src])
        BY <1>4, <3>1, <3>2
      <4> QED
        BY <1>4, <3>1, <3>2, <3>3, <4>1
    <3>5. words = [i \in 1 .. n |-> held[i]]
      BY <1>2, <2>1, <3>2, <3>4
    <3> QED
      BY <1>4, <3>5, ListOf
  <2>2. CASE ~arrays[s].device
    <3>1. words = held /\ words = [i \in 1 .. n |-> words[i]]
      BY <1>1, <1>2, <2>2 DEF MemoryInv, Sized, SizedAt, Holds
    <3> QED
      BY <1>4, <3>1, ListOf
  <2> QED
    BY <2>1, <2>2
<1>7. CASE arrays[d].device
  <2>1. o.dst = dst /\ (o.op = "copy" => o.src \in Foot(t))
    BY <1>1, <1>2, <1>3, BlockOf DEF Copy, Upload
  <2>2. ASSUME NEW i \in 1 .. n PROVE WordAfter(after, o, i) = held[i]
    <3>1. CASE arrays[s].device
      <4>1. o.op = "copy" /\ o.first = 0 /\ o.last = n /\ o.src = src
        BY <1>2, <3>1 DEF Copy
      <4>2. held = after[src]
        BY <1>1, <3>1 DEF Holds
      <4> QED
        BY <1>4, <4>1, <4>2 DEF WordAfter
    <3>2. CASE ~arrays[s].device
      <4>1. o.op = "write" /\ o.first = 0 /\ o.last = n /\ o.vals = words
        BY <1>2, <1>6, <3>2 DEF Upload
      <4> QED
        BY <1>4, <1>6, <4>1 DEF WordAfter
    <3> QED
      BY <3>1, <3>2
  <2>3. arrays' = arrays /\ mem' = mem /\ streams' = [streams EXCEPT ![t] = Append(@, o)]
    BY <1>3, <1>7 DEF WrittenTo
  <2>4. Queues(t, d, o, mean)
    BY <1>1, <1>3, <1>5, <1>7, <2>1, <2>2, <2>3 DEF Queues
  <2> QED
    BY <2>4, QueuedKeeps
<1>8. CASE ~arrays[d].device
  <2>1. SameShape(mem, mem') /\ Working(streams') /\ SteadyBut(dst)
    <3>1. CASE arrays[s].device
      <4>1. mem' = Finished(mem, t) /\ streams' = [streams EXCEPT ![t] = << >>]
        BY <1>1, <1>3, <1>8, <3>1 DEF Finished
      <4> QED
        BY <4>1, WaitIs DEF MemoryInv
    <3>2. CASE ~arrays[s].device
      <4>1. mem' = mem /\ streams' = streams
        BY <1>3, <1>8, <3>2
      <4> QED
        BY <4>1, StayIs DEF MemoryInv
    <3> QED
      BY <3>1, <3>2
  <2>2. Writes(t, d, dst, words, mean, words)
    BY <1>1, <1>3, <1>5, <1>6, <1>8, <2>1 DEF Writes
  <2> QED
    BY <2>2, WrittenKeeps
<1> QED
  BY <1>7, <1>8

-----------------------------------------------------------------------------
(* An array d of thread t is released: its block is unused, or no zombie   *)
(* any more; nothing else changes in the pools.                            *)
Frees(d, p) == p = arrays[d].pool /\ arrays[d].pointer # 0 /\ ~pools[p].destroyed
ReturnedTo(p, d, t) ==
  /\ pools'[p].allocated = pools[p].allocated /\ pools'[p].destroyed = pools[p].destroyed
  /\ Frees(d, p) => Len(pools'[p].unused) = Len(pools[p].unused) + 1
  /\ ~Frees(d, p) => pools'[p].unused = pools[p].unused
  /\ \A i \in 1 .. Len(pools[p].unused) : pools'[p].unused[i] = pools[p].unused[i]
  /\ Frees(d, p) => /\ pools'[p].unused[Len(pools[p].unused) + 1].ptr = arrays[d].pointer
                    /\ pools'[p].unused[Len(pools[p].unused) + 1].size = Len(mem[arrays[d].pointer])
                    /\ pools'[p].unused[Len(pools[p].unused) + 1].thread = t
  /\ \A a \in pools[p].zombie : a \in pools'[p].zombie \/ (p = arrays[d].pool /\ a = arrays[d].pointer)
Returned(d, t) == pools' \in [Pools -> PoolStates] /\ \A p \in Pools : ReturnedTo(p, d, t)

(* Nothing is given back of an array without a block.                      *)
LEMMA ReturnedSame ==
  ASSUME Typed, NEW d \in Slots, NEW t, pools' = pools, arrays[d].pointer = 0
  PROVE  Returned(d, t)
<1> SUFFICES ASSUME NEW p \in Pools PROVE ReturnedTo(p, d, t)
  BY DEF Returned, Typed
<1> QED
  BY DEF ReturnedTo, Frees

(* Array::release gives the block back, never twice, and never throws: the *)
(* block is allocated, or a zombie of a destroyed pool.                    *)
LEMMA ReleasedIs ==
  ASSUME MemoryInv, NEW d \in Slots, NEW t \in Threads,
         NEW r, r = Released(arrays[d], t), pools' = r[1], fault' = r[2]
  PROVE  Returned(d, t) /\ ~fault'
<1>0. Typed /\ Sized /\ Owned /\ ~fault
  BY DEF MemoryInv
<1>1. PICK a, q, ptr : a = arrays[d] /\ q = a.pool /\ ptr = a.pointer
  OBVIOUS
<1>2. a.device \in BOOLEAN /\ ptr \in Addresses \cup {0} /\ 0 \notin Addresses /\ (~a.device => ptr = 0)
  BY <1>0, <1>1, ArrayFields, Names DEF Sized, SizedAt
<1>3. CASE ptr = 0
  <2>1. r = <<pools, fault>>
    BY <1>1, <1>3 DEF Released
  <2>2. pools' = pools /\ fault' = fault /\ arrays[d].pointer = 0
    BY <1>1, <1>3, <2>1
  <2> QED
    BY <1>0, <2>2, ReturnedSame
<1>4. CASE ptr # 0
  <2>1. a.device /\ q \in Pools /\ ptr \in Addresses
    BY <1>0, <1>1, <1>2, <1>4 DEF Sized, SizedAt
  <2>2. PICK old, n : old = pools[q] /\ n = Len(mem[ptr])
    OBVIOUS
  <2>3. /\ old \in PoolStates /\ old.unused \in Seq(Entries) /\ old.allocated \subseteq Addresses
        /\ old.zombie \subseteq Addresses /\ old.destroyed \in BOOLEAN /\ old.denying \in BOOLEAN /\ Len(old.unused) \in Nat
    BY <1>0, <2>1, <2>2, PoolFields DEF Typed
  <2>4. /\ (old.destroyed => ptr \in old.zombie)
        /\ (~old.destroyed => ptr \in old.allocated /\ n \in Nat)
    <3>1. ArrayOwned(d)
      BY <1>0 DEF Owned, ArraysOwned
    <3>2. ~old.destroyed => n \in Nat
      <4>1. ~old.destroyed => ptr \in DOMAIN mem
        BY <1>0, <1>1, <1>4, <2>2, InUse DEF Usable
      <4> QED
        BY <1>0, <2>2, <4>1, ListIs DEF Typed, Blocks
    <3> QED
      BY <1>1, <1>4, <2>2, <3>1, <3>2 DEF ArrayOwned
  <2>5. PICK res : res = release(old, ptr, t)
    OBVIOUS
  <2>6. r = <<[pools EXCEPT ![q] = res[1]], fault \/ res[2]>>
    BY <1>1, <1>4, <2>1, <2>2, <2>5 DEF Released
  <2>7. PICK new : new = res[1]
    OBVIOUS
  <2>8. pools' = [pools EXCEPT ![q] = new] /\ fault' = (fault \/ res[2])
    BY <2>6, <2>7
  <2>9. pools'[q] = new /\ \A p \in Pools : p # q => pools'[p] = pools[p]
    BY <1>0, <2>1, <2>8 DEF Typed
  <2>10. ASSUME NEW p \in Pools, p # q PROVE ReturnedTo(p, d, t)
    <3>1. pools'[p] = pools[p] /\ p # arrays[d].pool
      BY <1>1, <2>9, <2>10
    <3> QED
      BY <3>1 DEF ReturnedTo, Frees
  <2>11. ASSUME new \in PoolStates, ReturnedTo(q, d, t) PROVE Returned(d, t)
    <3>1. pools' \in [Pools -> PoolStates]
      BY <1>0, <2>1, <2>8, <2>11 DEF Typed
    <3> QED
      BY <2>10, <2>11, <3>1 DEF Returned
  <2>12. CASE old.destroyed
    <3>1. res = <<[old EXCEPT !.zombie = @ \ {ptr}], FALSE>>
      BY <2>4, <2>5, <2>12 DEF release
    <3>2. new = [old EXCEPT !.zombie = @ \ {ptr}] /\ ~fault'
      BY <1>0, <2>7, <2>8, <3>1
    <3>3. /\ new \in PoolStates /\ new.unused = old.unused /\ new.allocated = old.allocated
          /\ new.zombie = old.zombie \ {ptr} /\ new.destroyed = old.destroyed
      BY <2>3, <3>2 DEF PoolStates
    <3>4. ~Frees(d, q)
      BY <1>1, <2>2, <2>12 DEF Frees
    <3>5. ReturnedTo(q, d, t)
      <4>1. pools[q] = old /\ pools'[q] = new
        BY <2>2, <2>9
      <4>2. \A x \in old.zombie : x \in new.zombie \/ x = arrays[d].pointer
        BY <1>1, <3>3
      <4>3. q = arrays[d].pool
        BY <1>1
      <4> QED
        BY <3>3, <3>4, <4>1, <4>2, <4>3 DEF ReturnedTo
    <3> QED
      BY <2>11, <3>2, <3>3, <3>5
  <2>13. CASE ~old.destroyed
    <3> DEFINE e == [size |-> n, ptr |-> ptr, thread |-> t]
               more == Append(old.unused, e)
    <3>1. res = <<[old EXCEPT !.unused = more], FALSE>>
      <4>1. release(old, ptr, t) = <<[old EXCEPT !.unused = Append(@, [size |-> n, ptr |-> ptr, thread |-> t])], FALSE>>
        BY <2>2, <2>4, <2>13 DEF release
      <4> QED
        BY <2>3, <2>5, <4>1
    <3>2. e \in Entries /\ e.ptr = ptr /\ e.size = n /\ e.thread = t
      BY <2>1, <2>4, <2>13 DEF Entries
    <3> HIDE DEF e
    <3>3. /\ more \in Seq(Entries) /\ Len(more) = Len(old.unused) + 1 /\ more[Len(old.unused) + 1] = e
          /\ \A i \in 1 .. Len(old.unused) : more[i] = old.unused[i]
      BY <2>3, <3>2
    <3> HIDE DEF more
    <3>4. new = [old EXCEPT !.unused = more] /\ ~fault'
      BY <1>0, <2>7, <2>8, <3>1
    <3>5. /\ new \in PoolStates /\ new.unused = more /\ new.allocated = old.allocated
          /\ new.zombie = old.zombie /\ new.destroyed = old.destroyed
      BY <2>3, <3>3, <3>4 DEF PoolStates
    <3>6. Frees(d, q)
      BY <1>1, <1>4, <2>2, <2>13 DEF Frees
    <3>7. ReturnedTo(q, d, t)
      <4>1. pools[q] = old /\ pools'[q] = new
        BY <2>2, <2>9
      <4>2. ptr = arrays[d].pointer /\ n = Len(mem[arrays[d].pointer])
        BY <1>1, <2>2
      <4>3. new.unused[Len(old.unused) + 1] = e
        BY <3>3, <3>5
      <4> QED
        BY <3>2, <3>3, <3>5, <3>6, <4>1, <4>2, <4>3 DEF ReturnedTo
    <3> QED
      BY <2>11, <3>4, <3>5, <3>7
  <2> QED
    BY <2>3, <2>12, <2>13
<1> QED
  BY <1>3, <1>4

(* An unused block afterwards is one from before, or the array's.          *)
LEMMA ReturnedEntry ==
  ASSUME Typed, NEW d \in Slots, NEW t, Returned(d, t), NEW p \in Pools, NEW i \in 1 .. Len(pools'[p].unused)
  PROVE  \/ i \in 1 .. Len(pools[p].unused) /\ pools'[p].unused[i] = pools[p].unused[i]
         \/ /\ i = Len(pools[p].unused) + 1 /\ Frees(d, p) /\ pools'[p].unused[i].ptr = arrays[d].pointer
            /\ pools'[p].unused[i].size = Len(mem[arrays[d].pointer]) /\ pools'[p].unused[i].thread = t
<1>1. ReturnedTo(p, d, t) /\ Len(pools[p].unused) \in Nat
  BY PoolFields DEF Returned
<1>2. CASE i \in 1 .. Len(pools[p].unused)
  BY <1>1, <1>2 DEF ReturnedTo
<1>3. CASE i \notin 1 .. Len(pools[p].unused)
  <2>1. Frees(d, p) /\ Len(pools'[p].unused) = Len(pools[p].unused) + 1
    BY <1>1, <1>3 DEF ReturnedTo
  <2>2. i = Len(pools[p].unused) + 1
    BY <1>1, <1>3, <2>1
  <2> QED
    BY <1>1, <2>1, <2>2 DEF ReturnedTo
<1> QED
  BY <1>2, <1>3

(* A block that is not given back does not become unused.                  *)
LEMMA ReturnedBlock ==
  ASSUME Typed, NEW d \in Slots, NEW t, Returned(d, t), NEW p \in Pools, NEW a,
         \A i \in 1 .. Len(pools[p].unused) : pools[p].unused[i].ptr # a, Frees(d, p) => arrays[d].pointer # a
  PROVE  \A i \in 1 .. Len(pools'[p].unused) : pools'[p].unused[i].ptr # a
<1> SUFFICES ASSUME NEW i \in 1 .. Len(pools'[p].unused) PROVE pools'[p].unused[i].ptr # a
  OBVIOUS
<1> QED
  BY ReturnedEntry

(* What giving a block back leaves of the pools.                           *)
LEMMA ReturnedPools ==
  ASSUME Typed, NEW d \in Slots, NEW t, Returned(d, t), NEW p \in Pools
  PROVE  /\ pools'[p].allocated = pools[p].allocated /\ (pools'[p].destroyed <=> pools[p].destroyed)
         /\ Len(pools[p].unused) \in Nat /\ Len(pools'[p].unused) \in Nat
         /\ \A i \in 1 .. Len(pools[p].unused) : i \in 1 .. Len(pools'[p].unused) /\ pools'[p].unused[i] = pools[p].unused[i]
         /\ Frees(d, p) => \E i \in 1 .. Len(pools'[p].unused) :
                             pools'[p].unused[i].ptr = arrays[d].pointer /\ pools'[p].unused[i].thread = t
<1>1. ReturnedTo(p, d, t) /\ Len(pools[p].unused) \in Nat
  BY PoolFields DEF Returned
<1>2. CASE Frees(d, p)
  <2>1. Len(pools'[p].unused) = Len(pools[p].unused) + 1
    BY <1>1, <1>2 DEF ReturnedTo
  <2>2. Len(pools[p].unused) + 1 \in 1 .. Len(pools'[p].unused)
    BY <1>1, <2>1
  <2>3. \A i \in 1 .. Len(pools[p].unused) : i \in 1 .. Len(pools'[p].unused)
    BY <1>1, <2>1
  <2>4. \E i \in 1 .. Len(pools'[p].unused) : pools'[p].unused[i].ptr = arrays[d].pointer /\ pools'[p].unused[i].thread = t
    <3>1. /\ pools'[p].unused[Len(pools[p].unused) + 1].ptr = arrays[d].pointer
          /\ pools'[p].unused[Len(pools[p].unused) + 1].thread = t
      BY <1>1, <1>2 DEF ReturnedTo
    <3> QED
      BY <2>2, <3>1
  <2>5. pools'[p].allocated = pools[p].allocated /\ pools'[p].destroyed = pools[p].destroyed
    BY <1>1 DEF ReturnedTo
  <2>6. \A i \in 1 .. Len(pools[p].unused) : pools'[p].unused[i] = pools[p].unused[i]
    BY <1>1 DEF ReturnedTo
  <2> QED
    BY <1>1, <2>1, <2>3, <2>4, <2>5, <2>6
<1>3. CASE ~Frees(d, p)
  BY <1>1, <1>3 DEF ReturnedTo
<1> QED
  BY <1>2, <1>3

(* A block x of pool q passes to the array d of thread t, whose old block  *)
(* is given back: from another array of the thread, or from its call.      *)
Hands(t, d, x, q, n) ==
  /\ ThreadOf(d) = t /\ Returned(d, t) /\ SameShape(mem, mem')
  /\ arrays'[d].pointer = x /\ arrays'[d].pool = q /\ arrays'[d].len = n
  /\ ~(x # 0 /\ arrays[d].pointer = x /\ arrays[d].pool = q)
  /\ \A s \in Slots \ {d} :
       \/ arrays'[s] = arrays[s] /\ ~(x # 0 /\ arrays[s].pointer = x /\ arrays[s].pool = q)
       \/ arrays'[s].pointer = 0 /\ ThreadOf(s) = t /\ arrays[s].pointer = x /\ arrays[s].pool = q
  /\ \A u \in Threads \ {t} : running'[u] = running[u]
  /\ running' \in [Threads -> CallStates] /\ running'[t].stage = "idle" /\ running'[t].got = 0
  /\ running[t].got # 0 => running[t].got = x /\ q \in Pools /\ x \in pools[q].allocated
  /\ x # 0 => /\ q \in Pools /\ x \in Addresses
              /\ pools[q].destroyed => x \in pools[q].zombie
              /\ ~pools[q].destroyed => /\ x \in pools[q].allocated /\ Len(mem[x]) >= n
                                        /\ \A i \in 1 .. Len(pools[q].unused) : pools[q].unused[i].ptr # x
                                        /\ \A u \in Threads \ {t} : running[u].got # x

(* The hand over of a block keeps all blocks and their lengths,            *)
LEMMA HandsShape ==
  ASSUME NEW t, NEW d, NEW x, NEW q, NEW n, Hands(t, d, x, q, n)
  PROVE  Returned(d, t) /\ DOMAIN mem' = DOMAIN mem /\ \A a \in DOMAIN mem : Len(mem'[a]) = Len(mem[a])
BY DEF Hands, SameShape

(* the pools' blocks and entries apart,                                    *)
LEMMA HandsPools ==
  ASSUME MemoryInv, NEW t \in Threads, NEW d \in Slots, NEW x, NEW q, NEW n, Hands(t, d, x, q, n)
  PROVE  BlocksOwned' /\ UnusedOwned'
<1>0. Typed /\ Sized /\ Owned /\ BlocksOwned /\ UnusedOwned /\ ArrayOwned(d)
  BY DEF MemoryInv, Owned, ArraysOwned
<1>1. Returned(d, t) /\ DOMAIN mem' = DOMAIN mem /\ \A a \in DOMAIN mem : Len(mem'[a]) = Len(mem[a])
  BY HandsShape
<1>2. BlocksOwned'
  <2>1. \A p \in Pools : /\ pools'[p].allocated = pools[p].allocated /\ (pools'[p].destroyed <=> pools[p].destroyed)
    BY <1>0, <1>1, ReturnedPools
  <2>2. \A p \in Pools : pools[p].destroyed => pools'[p].unused = pools[p].unused
    BY <1>1 DEF Returned, ReturnedTo, Frees
  <2> QED
    BY <1>0, <1>1, <2>1, <2>2 DEF BlocksOwned
<1>3. UnusedOwned'
  <2> SUFFICES ASSUME NEW p \in Pools, NEW i \in 1 .. Len(pools'[p].unused)
               PROVE  /\ pools'[p].unused[i].ptr \in pools'[p].allocated
                      /\ pools'[p].unused[i].size = Len(mem'[pools'[p].unused[i].ptr])
                      /\ \A j \in 1 .. Len(pools'[p].unused) : j # i => pools'[p].unused[j].ptr # pools'[p].unused[i].ptr
    BY DEF UnusedOwned
  <2> DEFINE L == Len(pools[p].unused)
             y == arrays[d].pointer
  <2>1. L \in Nat /\ pools'[p].allocated = pools[p].allocated
    BY <1>0, <1>1, ReturnedPools
  <2>2. \A k \in 1 .. L : /\ pools[p].unused[k].ptr \in pools[p].allocated
                          /\ pools[p].unused[k].ptr \in DOMAIN mem
                          /\ pools[p].unused[k].size = Len(mem[pools[p].unused[k].ptr])
                          /\ \A j \in 1 .. L : j # k => pools[p].unused[j].ptr # pools[p].unused[k].ptr
    BY <1>0, PoolFields DEF UnusedOwned, BlocksOwned
  <2>3. Frees(d, p) => /\ y \in pools[p].allocated /\ y \in DOMAIN mem
                       /\ \A k \in 1 .. L : pools[p].unused[k].ptr # y
    <3>1. Frees(d, p) => y \in DOMAIN mem
      BY <1>0, InUse DEF Frees, Usable
    <3> QED
      BY <1>0, <3>1 DEF Frees, ArrayOwned
  <2> DEFINE old(k) == k \in 1 .. L /\ pools'[p].unused[k] = pools[p].unused[k]
             new(k) == /\ k = L + 1 /\ Frees(d, p) /\ pools'[p].unused[k].ptr = y
                       /\ pools'[p].unused[k].size = Len(mem[y])
  <2>4. \A k \in 1 .. Len(pools'[p].unused) : old(k) \/ new(k)
    BY <1>0, <1>1, ReturnedEntry
  <2> DEFINE was == pools[p].unused
             now == pools'[p].unused
  <2>5. CASE old(i)
    <3>1. was[i].ptr \in DOMAIN mem /\ was[i].ptr \in pools[p].allocated /\ was[i].size = Len(mem[was[i].ptr])
      BY <2>2, <2>5
    <3>2. ASSUME NEW j \in 1 .. Len(now), j # i PROVE now[j].ptr # now[i].ptr
      <4>1. CASE old(j)
        BY <2>2, <2>5, <3>2, <4>1
      <4>2. CASE new(j)
        BY <2>3, <2>5, <4>2
      <4> QED
        BY <2>4, <4>1, <4>2
    <3> QED
      BY <1>1, <2>1, <2>5, <3>1, <3>2
  <2>6. CASE new(i)
    <3>1. y \in DOMAIN mem /\ y \in pools[p].allocated
      BY <2>3, <2>6
    <3>2. ASSUME NEW j \in 1 .. Len(now), j # i PROVE now[j].ptr # now[i].ptr
      <4>1. CASE old(j)
        BY <2>3, <2>6, <4>1
      <4>2. CASE new(j)
        BY <2>6, <3>2, <4>2
      <4> QED
        BY <2>4, <4>1, <4>2
    <3> QED
      BY <1>1, <2>1, <2>6, <3>1, <3>2
  <2> QED
    BY <2>4, <2>5, <2>6
<1> QED
  BY <1>2, <1>3

(* the arrays' blocks apart,                                               *)
LEMMA HandsArrays ==
  ASSUME MemoryInv, NEW t \in Threads, NEW d \in Slots, NEW x, NEW q, NEW n, Hands(t, d, x, q, n)
  PROVE  ArraysOwned'
<1>0. Typed /\ Sized /\ Owned /\ \A s \in Slots : ArrayOwned(s)
  BY DEF MemoryInv, Owned, ArraysOwned
<1>1. Returned(d, t) /\ DOMAIN mem' = DOMAIN mem /\ \A a \in DOMAIN mem : Len(mem'[a]) = Len(mem[a])
  BY HandsShape
<1>2. \A p \in Pools : pools'[p].allocated = pools[p].allocated /\ (pools'[p].destroyed <=> pools[p].destroyed)
  BY <1>0, <1>1, ReturnedPools
<1>3. /\ arrays'[d].pointer = x /\ arrays'[d].pool = q /\ arrays'[d].len = n
      /\ \A s \in Slots \ {d} :
           \/ arrays'[s] = arrays[s] /\ ~(x # 0 /\ arrays[s].pointer = x /\ arrays[s].pool = q)
           \/ arrays'[s].pointer = 0
  BY DEF Hands
<1>4. ASSUME NEW s \in Slots, s # d PROVE ArrayOwned(s)'
  <2> SUFFICES ASSUME arrays'[s].pointer # 0 PROVE ArrayOwned(s)'
    BY DEF ArrayOwned
  <2>1. arrays'[s] = arrays[s] /\ arrays[s].pointer # 0 /\ ~(arrays[s].pointer = x /\ arrays[s].pool = q)
    BY <1>3, <1>4
  <2>2. PICK a, p : a = arrays[s].pointer /\ p = arrays[s].pool
    OBVIOUS
  <2>3. ArrayOwned(s) /\ p \in Pools /\ a # 0
    BY <1>0, <2>1, <2>2 DEF Sized, SizedAt
  <2>4. arrays[d].pool = p => arrays[d].pointer # a
    BY <1>4, <2>1, <2>2, <2>3 DEF ArrayOwned
  <2>5. pools'[p].destroyed => a \in pools'[p].zombie
    <3>1. pools[p].destroyed => a \in pools[p].zombie
      BY <2>1, <2>2, <2>3 DEF ArrayOwned
    <3> QED
      BY <1>1, <1>2, <2>3, <2>4, <3>1 DEF Returned, ReturnedTo
  <2>6. ~pools'[p].destroyed => /\ a \in pools'[p].allocated /\ Len(mem'[a]) >= arrays[s].len
                                /\ \A i \in 1 .. Len(pools'[p].unused) : pools'[p].unused[i].ptr # a
    <3> SUFFICES ASSUME ~pools[p].destroyed
                 PROVE  /\ a \in pools'[p].allocated /\ Len(mem'[a]) >= arrays[s].len
                        /\ \A i \in 1 .. Len(pools'[p].unused) : pools'[p].unused[i].ptr # a
      BY <1>2, <2>3
    <3>1. /\ a \in pools[p].allocated /\ Len(mem[a]) >= arrays[s].len
          /\ \A i \in 1 .. Len(pools[p].unused) : pools[p].unused[i].ptr # a
      BY <2>1, <2>2, <2>3 DEF ArrayOwned
    <3>2. a \in DOMAIN mem
      BY <1>0, <2>1, <2>2, InUse DEF Usable
    <3>3. Frees(d, p) => arrays[d].pointer # a
      BY <2>4 DEF Frees
    <3>4. \A i \in 1 .. Len(pools'[p].unused) : pools'[p].unused[i].ptr # a
      BY <1>0, <1>1, <2>3, <3>1, <3>3, ReturnedBlock
    <3> QED
      BY <1>1, <1>2, <2>3, <3>1, <3>2, <3>4
  <2>7. \A r \in Slots : r # s /\ arrays'[r].pool = p => arrays'[r].pointer # a
    <3> SUFFICES ASSUME NEW r \in Slots, r # s, arrays'[r].pool = p PROVE arrays'[r].pointer # a
      OBVIOUS
    <3>1. CASE r = d
      BY <1>3, <2>1, <2>2, <3>1
    <3>2. CASE r # d
      BY <1>3, <2>1, <2>2, <2>3, <3>2 DEF ArrayOwned
    <3> QED
      BY <3>1, <3>2
  <2> QED
    BY <2>1, <2>2, <2>5, <2>6, <2>7 DEF ArrayOwned
<1>5. ArrayOwned(d)'
  <2> SUFFICES ASSUME x # 0
               PROVE  /\ pools'[q].destroyed => x \in pools'[q].zombie
                      /\ ~pools'[q].destroyed =>
                           /\ x \in pools'[q].allocated /\ Len(mem'[x]) >= n
                           /\ \A i \in 1 .. Len(pools'[q].unused) : pools'[q].unused[i].ptr # x
                      /\ \A r \in Slots : r # d /\ arrays'[r].pool = q => arrays'[r].pointer # x
    BY <1>3 DEF ArrayOwned
  <2>1. /\ q \in Pools /\ x \in Addresses
        /\ pools[q].destroyed => x \in pools[q].zombie
        /\ ~pools[q].destroyed => /\ x \in pools[q].allocated /\ Len(mem[x]) >= n
                                  /\ \A i \in 1 .. Len(pools[q].unused) : pools[q].unused[i].ptr # x
        /\ ~(arrays[d].pointer = x /\ arrays[d].pool = q)
    BY DEF Hands
  <2>2. pools'[q].destroyed => x \in pools'[q].zombie
    BY <1>1, <1>2, <2>1 DEF Returned, ReturnedTo
  <2>3. ASSUME ~pools[q].destroyed
        PROVE  /\ x \in pools'[q].allocated /\ Len(mem'[x]) >= n
               /\ \A i \in 1 .. Len(pools'[q].unused) : pools'[q].unused[i].ptr # x
    <3>1. x \in DOMAIN mem
      BY <1>0, <2>1, <2>3 DEF Owned, BlocksOwned
    <3>2. Frees(d, q) => arrays[d].pointer # x
      BY <2>1 DEF Frees
    <3>3. \A i \in 1 .. Len(pools'[q].unused) : pools'[q].unused[i].ptr # x
      BY <1>0, <1>1, <2>1, <2>3, <3>2, ReturnedBlock
    <3> QED
      BY <1>1, <1>2, <2>1, <2>3, <3>1, <3>3
  <2>4. \A r \in Slots : r # d /\ arrays'[r].pool = q => arrays'[r].pointer # x
    BY <1>3
  <2> QED
    BY <1>2, <2>1, <2>2, <2>3, <2>4
<1> QED
  BY <1>4, <1>5 DEF ArraysOwned

(* the calls' blocks apart and their plans ready,                          *)
LEMMA HandsCalls ==
  ASSUME MemoryInv, NEW t \in Threads, NEW d \in Slots, NEW x, NEW q, NEW n, Hands(t, d, x, q, n)
  PROVE  CallsOwned' /\ CallsReady'
<1>0. Typed /\ Sized /\ Owned /\ \A u \in Threads : CallOwned(u) /\ CallReady(u)
  BY DEF MemoryInv, Owned, CallsOwned, CallsReady
<1>1. Returned(d, t) /\ DOMAIN mem' = DOMAIN mem /\ \A a \in DOMAIN mem : Len(mem'[a]) = Len(mem[a])
  BY HandsShape
<1>2. \A p \in Pools : pools'[p].allocated = pools[p].allocated /\ (pools'[p].destroyed <=> pools[p].destroyed)
  BY <1>0, <1>1, ReturnedPools
<1>3. /\ ThreadOf(d) = t /\ running'[t].got = 0 /\ running'[t].stage = "idle" /\ \A u \in Threads : u # t => running'[u] = running[u]
      /\ \A s \in Slots \ {d} : arrays'[s] = arrays[s] \/ (arrays'[s].pointer = 0 /\ ThreadOf(s) = t)
  BY DEF Hands
<1>4. ASSUME NEW u \in Threads, u # t PROVE CallOwned(u)'
  <2> SUFFICES ASSUME running[u].got # 0 PROVE CallOwned(u)'
    BY <1>3, <1>4 DEF CallOwned
  <2>1. PICK a, p : a = running[u].got /\ p = running[u].plan.pool
    OBVIOUS
  <2>2. /\ a # 0 /\ p \in Pools /\ a \in pools[p].allocated /\ Len(mem[a]) >= running[u].plan.len
        /\ \A i \in 1 .. Len(pools[p].unused) : pools[p].unused[i].ptr # a
        /\ \A s \in Slots : arrays[s].pool = p => arrays[s].pointer # a
        /\ \A v \in Threads : v # u => running[v].got # a
    BY <1>0, <2>1 DEF CallOwned
  <2>3. a \in DOMAIN mem /\ a \in Addresses /\ ~pools[p].destroyed
    BY <1>0, <2>2, PoolFields DEF Owned, BlocksOwned
  <2>4. \A i \in 1 .. Len(pools'[p].unused) : pools'[p].unused[i].ptr # a
    <3>1. Frees(d, p) => arrays[d].pointer # a
      BY <2>2 DEF Frees
    <3> QED
      BY <1>0, <1>1, <2>2, <3>1, ReturnedBlock
  <2>5. ASSUME NEW s \in Slots, arrays'[s].pool = p PROVE arrays'[s].pointer # a
    <3>1. CASE s = d
      <4>1. arrays'[d].pointer = x /\ arrays'[d].pool = q
        BY DEF Hands
      <4>2. x # 0 /\ ~pools[q].destroyed => running[u].got # x
        BY <1>4 DEF Hands
      <4> QED
        BY <2>1, <2>2, <2>3, <2>5, <3>1, <4>1, <4>2
    <3>2. CASE s # d
      BY <1>3, <2>2, <2>5, <3>2
    <3> QED
      BY <3>1, <3>2
  <2>6. \A v \in Threads : v # u => running'[v].got # a
    BY <1>3, <2>2
  <2> QED
    BY <1>1, <1>2, <1>3, <1>4, <2>1, <2>2, <2>3, <2>4, <2>5, <2>6 DEF CallOwned
<1>5. CallOwned(t)'
  BY <1>3 DEF CallOwned
<1>6. ASSUME NEW u \in Threads, u # t PROVE CallReady(u)'
  <2>1. running'[u] = running[u] /\ CallReady(u)
    BY <1>0, <1>3, <1>6
  <2>2. PICK plan : plan = running[u].plan
    OBVIOUS
  <2>3. ASSUME PlanReady(u, plan) PROVE PlanReady(u, plan)'
    <3>1. \A s \in Slots : ThreadOf(s) = u => arrays'[s] = arrays[s]
      BY <1>3, <1>6
    <3>2. \A s \in Slots : ThreadOf(s) = u /\ Usable(s) => Usable(s)'
      <4> SUFFICES ASSUME NEW s \in Slots, ThreadOf(s) = u, Usable(s) PROVE Usable(s)'
        OBVIOUS
      <4>1. arrays'[s] = arrays[s] /\ (arrays[s].pointer # 0 => arrays[s].pool \in Pools)
        BY <1>0, <3>1 DEF Sized, SizedAt
      <4> QED
        BY <1>2, <4>1 DEF Usable
    <3> QED
      BY <2>3, <3>1, <3>2 DEF PlanReady
  <2>4. running[u].stage # "idle" => PlanReady(u, plan)
    BY <2>1, <2>2 DEF CallReady
  <2>5. running[u].stage # "idle" => plan.pool \in Pools
    BY <2>1, <2>2 DEF CallReady, PlanReady
  <2> QED
    BY <1>2, <2>1, <2>2, <2>3, <2>4, <2>5 DEF CallReady
<1>7. CallReady(t)'
  BY <1>3 DEF CallReady
<1> QED
  BY <1>4, <1>5, <1>6, <1>7 DEF CallsOwned, CallsReady

(* every block in a hand, and every thread's blocks its own.               *)
LEMMA HandsHeld ==
  ASSUME MemoryInv, NEW t \in Threads, NEW d \in Slots, NEW x, NEW q, NEW n, Hands(t, d, x, q, n)
  PROVE  NoneLost' /\ \A u \in Threads : Foot(u) \subseteq Foot(u)'
<1>0. Typed /\ Sized /\ Owned
  BY DEF MemoryInv
<1>1. Returned(d, t) /\ DOMAIN mem' = DOMAIN mem
  BY HandsShape
<1>2. \A p \in Pools : pools'[p].allocated = pools[p].allocated /\ (pools'[p].destroyed <=> pools[p].destroyed)
  BY <1>0, <1>1, ReturnedPools
<1>3. /\ ThreadOf(d) = t /\ arrays'[d].pointer = x /\ arrays'[d].pool = q
      /\ \A s \in Slots \ {d} :
           \/ arrays'[s] = arrays[s]
           \/ ThreadOf(s) = t /\ arrays[s].pointer = x /\ arrays[s].pool = q
      /\ \A u \in Threads \ {t} : running'[u] = running[u]
      /\ running[t].got # 0 => running[t].got = x /\ q \in Pools /\ x \in pools[q].allocated
  BY DEF Hands
<1>4. NoneLost'
  <2> SUFFICES ASSUME NEW p \in Pools, NEW a \in pools[p].allocated PROVE HeldBy(p, a)'
    BY <1>2 DEF NoneLost
  <2>1. HeldBy(p, a) /\ ~pools[p].destroyed /\ a \in Addresses /\ a # 0
    BY <1>0, PoolFields, Names DEF Owned, NoneLost, BlocksOwned
  <2>2. ASSUME NEW i \in 1 .. Len(pools[p].unused), pools[p].unused[i].ptr = a PROVE HeldBy(p, a)'
    <3>1. i \in 1 .. Len(pools'[p].unused) /\ pools'[p].unused[i] = pools[p].unused[i]
      BY <1>0, <1>1, ReturnedPools
    <3> QED
      BY <2>2, <3>1 DEF HeldBy
  <2>3. ASSUME NEW s \in Slots, arrays[s].pointer = a, arrays[s].pool = p PROVE HeldBy(p, a)'
    <3>1. CASE s = d
      <4>1. Frees(d, p) /\ arrays[d].pointer = a
        BY <2>1, <2>3, <3>1 DEF Frees
      <4> QED
        BY <1>0, <1>1, <4>1, ReturnedPools DEF HeldBy
    <3>2. CASE s # d
      <4>1. CASE arrays'[s] = arrays[s]
        BY <2>3, <4>1 DEF HeldBy
      <4>2. CASE arrays'[s] # arrays[s]
        BY <1>3, <2>3, <3>2, <4>2 DEF HeldBy
      <4> QED
        BY <4>1, <4>2
    <3> QED
      BY <3>1, <3>2
  <2>4. ASSUME NEW u \in Threads, running[u].got = a PROVE HeldBy(p, a)'
    <3>1. CASE u = t
      <4>1. x = a /\ q = p
        BY <1>0, <1>3, <2>1, <2>4, <3>1 DEF Owned, BlocksOwned
      <4> QED
        BY <1>3, <4>1 DEF HeldBy
    <3>2. CASE u # t
      BY <1>3, <2>4, <3>2 DEF HeldBy
    <3> QED
      BY <3>1, <3>2
  <2> QED
    BY <2>1, <2>2, <2>3, <2>4 DEF HeldBy
<1>5. ASSUME NEW u \in Threads, NEW a \in Foot(u) PROVE a \in Foot(u)'
  <2>1. Mine(u, a) /\ a \in DOMAIN mem /\ a \in Addresses /\ a # 0
    BY <1>0, <1>5, Names DEF Foot, Typed
  <2>2. ASSUME Mine(u, a)' PROVE a \in Foot(u)'
    BY <1>1, <2>1, <2>2 DEF Foot
  <2>3. ASSUME NEW s \in Slots, ThreadOf(s) = u, arrays[s].pointer = a, ~pools[arrays[s].pool].destroyed
        PROVE  Mine(u, a)'
    <3>1. arrays[s].pool \in Pools
      BY <1>0, <2>1, <2>3 DEF Sized, SizedAt
    <3>2. CASE s = d
      <4>1. Frees(d, arrays[d].pool)
        BY <2>1, <2>3, <3>2 DEF Frees
      <4>2. u = t
        BY <1>3, <2>3, <3>2
      <4>3. \E i \in 1 .. Len(pools'[arrays[d].pool].unused) :
              pools'[arrays[d].pool].unused[i].ptr = a /\ pools'[arrays[d].pool].unused[i].thread = t
        BY <1>0, <1>1, <2>3, <3>1, <3>2, <4>1, ReturnedPools
      <4> QED
        BY <3>1, <3>2, <4>2, <4>3 DEF Mine
    <3>3. CASE s # d /\ arrays'[s] = arrays[s]
      BY <1>2, <2>3, <3>1, <3>3 DEF Mine
    <3>4. CASE s # d /\ arrays'[s] # arrays[s]
      <4>1. u = t /\ a = x /\ arrays[s].pool = q
        BY <1>3, <2>3, <3>4
      <4>2. ~pools'[q].destroyed
        BY <1>2, <2>3, <3>1, <4>1
      <4> QED
        BY <1>3, <4>1, <4>2 DEF Mine
    <3> QED
      BY <3>2, <3>3, <3>4
  <2>4. ASSUME running[u].got = a PROVE Mine(u, a)'
    <3>1. CASE u = t
      <4>1. x = a /\ q \in Pools /\ a \in pools[q].allocated
        BY <1>3, <2>1, <2>4, <3>1
      <4>2. ~pools[q].destroyed
        BY <1>0, <4>1 DEF Owned, BlocksOwned
      <4>3. ~pools'[arrays'[d].pool].destroyed
        BY <1>2, <1>3, <4>1, <4>2
      <4> QED
        BY <1>3, <3>1, <4>1, <4>3 DEF Mine
    <3>2. CASE u # t
      BY <1>3, <2>4, <3>2 DEF Mine
    <3> QED
      BY <3>1, <3>2
  <2>5. ASSUME NEW p \in Pools, NEW i \in 1 .. Len(pools[p].unused), pools[p].unused[i].ptr = a, pools[p].unused[i].thread = u
        PROVE  Mine(u, a)'
    <3>1. i \in 1 .. Len(pools'[p].unused) /\ pools'[p].unused[i] = pools[p].unused[i]
      BY <1>0, <1>1, ReturnedPools
    <3> QED
      BY <2>5, <3>1 DEF Mine
  <2> QED
    BY <2>1, <2>2, <2>3, <2>4, <2>5 DEF Mine
<1> QED
  BY <1>4, <1>5

(* A block passes into array d, whose old one is given back: owners stay   *)
(* single.                                                                 *)
LEMMA HandsKeeps ==
  ASSUME MemoryInv, NEW t \in Threads, NEW d \in Slots, NEW x, NEW q, NEW n, Hands(t, d, x, q, n)
  PROVE  Owned' /\ CallsReady' /\ \A u \in Threads : Foot(u) \subseteq Foot(u)'
<1>1. BlocksOwned' /\ UnusedOwned'
  BY HandsPools
<1>2. ArraysOwned'
  BY HandsArrays
<1>3. CallsOwned' /\ CallsReady'
  BY HandsCalls
<1>4. NoneLost' /\ \A u \in Threads : Foot(u) \subseteq Foot(u)'
  BY HandsHeld
<1> QED
  BY <1>1, <1>2, <1>3, <1>4 DEF Owned

(* An array that is not handed over keeps its words, if its block does.    *)
LEMMA HandsOthers ==
  ASSUME MemoryInv, NEW t \in Threads, NEW d \in Slots, NEW x, NEW q, NEW n, Hands(t, d, x, q, n),
         NEW s \in Slots, s # d, arrays'[s] = arrays[s], meant'[s] = meant[s],
         \A a \in Foot(ThreadOf(s)) : a # x \/ pools[q].destroyed => Value(ThreadOf(s), a)' = Value(ThreadOf(s), a)
  PROVE  KeptAt(s)'
<1>1. Typed /\ Sized /\ Owned /\ KeptAt(s) /\ ThreadOf(s) \in Threads
  BY Names DEF MemoryInv, WordsKept, KeptAt
<1>2. \A p \in Pools : pools'[p].allocated = pools[p].allocated /\ (pools'[p].destroyed <=> pools[p].destroyed)
  BY <1>1, HandsShape, ReturnedPools
<1>3. Usable(s)' => Usable(s)
  <2>1. arrays[s].pointer # 0 => arrays[s].pool \in Pools
    BY <1>1 DEF Sized, SizedAt
  <2> QED
    BY <1>2, <2>1 DEF Usable
<1>4. ASSUME NEW a \in Foot(ThreadOf(s)), a = arrays[s].pointer, Usable(s)' PROVE a # x \/ pools[q].destroyed
  <2> SUFFICES ASSUME a = x, ~pools[q].destroyed PROVE FALSE
    OBVIOUS
  <2>1. a \in Addresses /\ a # 0 /\ Usable(s)
    BY <1>1, <1>3, <1>4, Names DEF Foot, Typed
  <2>2. arrays[s].pool \in Pools /\ a \in pools[arrays[s].pool].allocated /\ ~pools[arrays[s].pool].destroyed
    BY <1>1, <1>4, <2>1, InUse
  <2>3. /\ arrays[s].pool # q /\ q \in Pools
    <3>1. arrays[s].pool # q
      BY <1>4, <2>1 DEF Hands
    <3>2. q \in Pools
      BY <2>1 DEF Hands
    <3> QED
      BY <3>1, <3>2
  <2>4. x \in pools[q].allocated
    BY <2>1 DEF Hands
  <2> QED
    BY <1>1, <2>1, <2>2, <2>3, <2>4 DEF Owned, BlocksOwned
<1>5. \A a \in Foot(ThreadOf(s)) : a = arrays[s].pointer /\ Usable(s)' => Value(ThreadOf(s), a)' = Value(ThreadOf(s), a)
  BY <1>4
<1> QED
  BY <1>1, <1>3, <1>5, KeptFrame

(* A block that an array owns is no call's.                                *)
LEMMA NotGot ==
  ASSUME Typed, Sized, Owned, NEW s \in Slots, NEW x, x = arrays[s].pointer, x # 0, ~pools[arrays[s].pool].destroyed
  PROVE  \A u \in Threads : running[u].got # x
<1> SUFFICES ASSUME NEW u \in Threads, running[u].got = x PROVE FALSE
  OBVIOUS
<1>1. arrays[s].pool \in Pools /\ x \in pools[arrays[s].pool].allocated /\ x \in Addresses
  BY InUse, ArrayFields DEF Usable
<1>2. /\ running[u].plan.pool \in Pools /\ x \in pools[running[u].plan.pool].allocated
      /\ arrays[s].pool # running[u].plan.pool
  BY DEF Owned, CallsOwned, CallOwned
<1> QED
  BY <1>1, <1>2 DEF Owned, BlocksOwned

(* A move is such a hand over: the block of s goes to d,                   *)
LEMMA MoveHands ==
  ASSUME MemoryInv, NEW t \in Threads, NEW d \in Slots, NEW s \in Slots, ThreadOf(d) = t, ThreadOf(s) = t, Move(t, d, s),
         NEW x, NEW q, NEW n, x = arrays[s].pointer, q = arrays[s].pool, n = arrays[s].len
  PROVE  Hands(t, d, x, q, n) /\ ~fault'
<1>0. Typed /\ Sized /\ Owned /\ ArrayOwned(s) /\ ArrayOwned(d) /\ CallReady(t)
  BY DEF MemoryInv, Owned, ArraysOwned, CallsReady
<1>1. /\ d # s /\ UNCHANGED <<mem, streams, running>> /\ running[t].stage = "idle"
      /\ arrays' = [arrays EXCEPT ![d] = arrays[s], ![s] = [Array EXCEPT !.device = arrays[s].device]]
      /\ meant' = [meant EXCEPT ![d] = meant[s], ![s] = << >>]
  BY DEF Move, MayCall
<1>2. Returned(d, t) /\ ~fault'
  <2>1. PICK r : r = Released(arrays[d], t)
    OBVIOUS
  <2>2. pools' = r[1] /\ fault' = r[2]
    BY <2>1 DEF Move
  <2> QED
    BY <2>1, <2>2, ReleasedIs
<1>3. arrays'[d] = arrays[s] /\ arrays'[s] = [Array EXCEPT !.device = arrays[s].device]
      /\ \A r \in Slots : r # d /\ r # s => arrays'[r] = arrays[r]
  BY <1>0, <1>1 DEF Typed
<1>4. arrays'[s].pointer = 0
  BY <1>3 DEF Array
<1>5. running'[t].stage = "idle" /\ running'[t].got = 0 /\ running[t].got = 0 /\ running' \in [Threads -> CallStates]
  BY <1>0, <1>1 DEF CallReady, Typed
<1>6. x # 0 => \A r \in Slots : r # s => ~(arrays[r].pointer = x /\ arrays[r].pool = q)
  BY <1>0 DEF ArrayOwned
<1>7. x # 0 => /\ q \in Pools /\ x \in Addresses
               /\ pools[q].destroyed => x \in pools[q].zombie
               /\ ~pools[q].destroyed => /\ x \in pools[q].allocated /\ Len(mem[x]) >= n
                                         /\ \A i \in 1 .. Len(pools[q].unused) : pools[q].unused[i].ptr # x
                                         /\ \A u \in Threads \ {t} : running[u].got # x
  <2> SUFFICES ASSUME x # 0
               PROVE  /\ q \in Pools /\ x \in Addresses
                      /\ pools[q].destroyed => x \in pools[q].zombie
                      /\ ~pools[q].destroyed => /\ x \in pools[q].allocated /\ Len(mem[x]) >= n
                                                /\ \A i \in 1 .. Len(pools[q].unused) : pools[q].unused[i].ptr # x
                                                /\ \A u \in Threads \ {t} : running[u].got # x
    OBVIOUS
  <2>1. q \in Pools /\ x \in Addresses
    BY <1>0, ArrayFields DEF Sized, SizedAt
  <2>2. ~pools[q].destroyed => \A u \in Threads : running[u].got # x
    BY <1>0, NotGot
  <2> QED
    BY <1>0, <2>1, <2>2 DEF ArrayOwned
<1>8. SameShape(mem, mem')
  BY <1>0, <1>1 DEF Typed, SameShape
<1> QED
  BY <1>1, <1>2, <1>3, <1>4, <1>5, <1>6, <1>7, <1>8 DEF Hands

(* and keeps the invariant.                                                *)
LEMMA MoveKeeps ==
  ASSUME MemoryInv, NEW t \in Threads, NEW d \in Slots, NEW s \in Slots, ThreadOf(d) = t, ThreadOf(s) = t, Move(t, d, s)
  PROVE  MemoryInv'
<1>0. Typed /\ Sized /\ Owned /\ WorkOwn /\ WordsKept
  BY DEF MemoryInv
<1>1. PICK x, q, n : x = arrays[s].pointer /\ q = arrays[s].pool /\ n = arrays[s].len
  OBVIOUS
<1>2. Hands(t, d, x, q, n) /\ ~fault'
  BY <1>1, MoveHands
<1>3. Owned' /\ CallsReady' /\ \A u \in Threads : Foot(u) \subseteq Foot(u)'
  BY <1>2, HandsKeeps
<1>4. /\ d # s /\ UNCHANGED <<mem, streams, running>>
      /\ arrays' = [arrays EXCEPT ![d] = arrays[s], ![s] = [Array EXCEPT !.device = arrays[s].device]]
      /\ meant' = [meant EXCEPT ![d] = meant[s], ![s] = << >>]
  BY DEF Move
<1>5. PICK dev, e : dev = arrays[s].device /\ e = [Array EXCEPT !.device = dev]
  OBVIOUS
<1>6. /\ arrays' = [r \in Slots |-> arrays'[r]] /\ meant' = [r \in Slots |-> meant'[r]]
      /\ arrays'[d] = arrays[s] /\ arrays'[s] = e /\ meant'[d] = meant[s] /\ meant'[s] = << >>
      /\ \A r \in Slots : r # d /\ r # s => arrays'[r] = arrays[r] /\ meant'[r] = meant[r]
  BY <1>0, <1>4, <1>5 DEF Typed
<1>7. dev \in BOOLEAN
  BY <1>0, <1>5, ArrayFields
<1>8. /\ e.pointer = 0 /\ e.len = 0 /\ e.device = dev /\ e.pool = NoPool /\ e.words = << >> /\ ArrayLike(e)
  <2>1. e = [pointer |-> 0, len |-> 0, device |-> dev, pool |-> NoPool, words |-> << >>]
    BY <1>5 DEF Array
  <2> QED
    BY <1>7, <2>1 DEF ArrayLike, PoolNames
<1>9. Typed'
  <2>1. \A r \in Slots : ArrayLike(arrays'[r])
    BY <1>0, <1>6, <1>8 DEF Typed
  <2>2. pools' \in [Pools -> PoolStates]
    BY <1>2 DEF Hands, Returned
  <2> QED
    BY <1>0, <1>4, <1>6, <2>1, <2>2 DEF Typed
<1>10. Sized'
  <2> SUFFICES ASSUME NEW r \in Slots PROVE SizedAt(r)'
    BY DEF Sized
  <2>1. CASE r = d
    <3>1. SizedAt(s)
      BY <1>0 DEF Sized
    <3> QED
      BY <1>6, <2>1, <3>1 DEF SizedAt
  <2>2. CASE r = s
    <3>1. << >> = [i \in 1 .. 0 |-> << >>[i]]
      OBVIOUS
    <3> QED
      BY <1>6, <1>8, <2>2, <3>1 DEF SizedAt
  <2>3. CASE r # d /\ r # s
    <3>1. SizedAt(r)
      BY <1>0 DEF Sized
    <3> QED
      BY <1>6, <2>3, <3>1 DEF SizedAt
  <2> QED
    BY <2>1, <2>2, <2>3
<1>11. WorkOwn'
  BY <1>0, <1>3, <1>4, WorkFrame
<1>12. WordsKept'
  <2>1. \A u \in Threads : \A a : Value(u, a)' = Value(u, a)
    BY <1>0, <1>4, StayIs
  <2>2. \A p \in Pools : (pools'[p].destroyed <=> pools[p].destroyed)
    BY <1>0, <1>2, HandsShape, ReturnedPools
  <2>3. KeptAt(d)'
    <3>1. KeptAt(s) /\ ThreadOf(d) = ThreadOf(s)
      BY <1>0 DEF WordsKept, KeptAt
    <3>2. Usable(d)' => Usable(s)
      <4>1. arrays[s].pointer # 0 => arrays[s].pool \in Pools
        BY <1>0 DEF Sized, SizedAt
      <4> QED
        BY <1>6, <2>2, <4>1 DEF Usable
    <3>3. mem' = mem /\ streams' = streams
      BY <1>4
    <3> QED
      BY <1>6, <3>1, <3>2, <3>3 DEF KeptAt, Agrees, Finished
  <2>4. KeptAt(s)'
    BY <1>6, <1>8 DEF KeptAt
  <2>5. ASSUME NEW r \in Slots, r # d, r # s PROVE KeptAt(r)'
    <3>1. arrays'[r] = arrays[r] /\ meant'[r] = meant[r] /\ ThreadOf(r) \in Threads
      BY <1>6, <2>5, Names
    <3> QED
      BY <1>2, <2>1, <2>5, <3>1, HandsOthers
  <2> QED
    BY <2>3, <2>4, <2>5 DEF WordsKept, KeptAt
<1> QED
  BY <1>2, <1>3, <1>9, <1>10, <1>11, <1>12 DEF MemoryInv

-----------------------------------------------------------------------------
(* The last part of a call.  Its stream is longer by nothing, by one thing *)
(* or by two.                                                              *)
LEMMA ListSame ==
  ASSUME NEW q, NEW r, List(q), List(r), Len(q) = Len(r), \A j \in 1 .. Len(q) : q[j] = r[j]
  PROVE  q = r
<1>1. Len(q) \in Nat /\ q = [j \in 1 .. Len(q) |-> q[j]] /\ r = [j \in 1 .. Len(r) |-> r[j]]
  BY ListIs
<1> QED
  BY <1>1

(* The sequence of one element.                                            *)
LEMMA ListOne == ASSUME NEW e PROVE List(<<e>>) /\ Len(<<e>>) = 1 /\ <<e>>[1] = e
<1>1. <<e>> \in Seq({e})
  OBVIOUS
<1> QED
  BY <1>1 DEF List

(* Nothing more to do,                                                     *)
LEMMA ConcatNone == ASSUME NEW q, List(q) PROVE q \o << >> = q
<1>1. List(q \o << >>) /\ Len(q \o << >>) = Len(q) + 0 /\ Len(q) \in Nat /\ \A j \in 1 .. Len(q) : (q \o << >>)[j] = q[j]
  BY ListEmpty, ListConcat
<1>2. Len(q \o << >>) = Len(q)
  BY <1>1
<1> QED
  BY <1>1, <1>2, ListSame

(* one thing more,                                                         *)
LEMMA ConcatOne == ASSUME NEW q, List(q), NEW e PROVE q \o <<e>> = Append(q, e)
<1> DEFINE r == q \o <<e>>
           a == Append(q, e)
<1>1. /\ List(r) /\ Len(r) = Len(q) + 1 /\ Len(q) \in Nat /\ (\A j \in 1 .. Len(q) : r[j] = q[j])
      /\ \A j \in 1 .. 1 : r[Len(q) + j] = <<e>>[j]
  <2>1. List(<<e>>) /\ Len(<<e>>) = 1
    BY ListOne
  <2>2. /\ List(r) /\ Len(r) = Len(q) + Len(<<e>>) /\ Len(q) \in Nat /\ (\A j \in 1 .. Len(q) : r[j] = q[j])
        /\ \A j \in 1 .. Len(<<e>>) : r[Len(q) + j] = <<e>>[j]
    BY <2>1, ListConcat
  <2> QED
    BY <2>1, <2>2
<1>2. /\ List(a) /\ Len(a) = Len(q) + 1 /\ (\A j \in 1 .. Len(q) : a[j] = q[j]) /\ a[Len(q) + 1] = e
  BY ListAppend
<1>3. r[Len(q) + 1] = e
  <2>1. 1 \in 1 .. 1
    OBVIOUS
  <2>2. r[Len(q) + 1] = <<e>>[1]
    BY <1>1, <2>1
  <2> QED
    BY <2>2, ListOne
<1> HIDE DEF r, a
<1>4. \A j \in 1 .. Len(r) : r[j] = a[j]
  <2> SUFFICES ASSUME NEW j \in 1 .. Len(r) PROVE r[j] = a[j]
    OBVIOUS
  <2>1. CASE j = Len(q) + 1
    BY <1>2, <1>3, <2>1
  <2>2. CASE j # Len(q) + 1
    <3>1. j \in 1 .. Len(q)
      BY <1>1, <2>2
    <3> QED
      BY <1>1, <1>2, <3>1
  <2> QED
    BY <2>1, <2>2
<1>5. Len(r) = Len(a)
  BY <1>1, <1>2
<1>6. r = a
  BY <1>1, <1>2, <1>4, <1>5, ListSame
<1> QED
  BY <1>6 DEF r, a

(* two things more.                                                        *)
LEMMA ConcatTwo == ASSUME NEW q, List(q), NEW e, NEW f PROVE q \o (<<e>> \o <<f>>) = Append(Append(q, e), f)
<1> DEFINE s == <<e>> \o <<f>>
           r == q \o s
           b == Append(q, e)
           a == Append(b, f)
<1>2. List(s) /\ Len(s) = 2 /\ s[1] = e /\ s[2] = f
  <2>1. s = Append(<<e>>, f) /\ List(<<e>>) /\ Len(<<e>>) = 1 /\ <<e>>[1] = e
    BY ListOne, ConcatOne
  <2>2. /\ List(Append(<<e>>, f)) /\ Len(Append(<<e>>, f)) = Len(<<e>>) + 1
        /\ (\A j \in 1 .. Len(<<e>>) : Append(<<e>>, f)[j] = <<e>>[j]) /\ Append(<<e>>, f)[Len(<<e>>) + 1] = f
    BY <2>1, ListAppend
  <2> HIDE DEF s
  <2>3. List(s) /\ Len(s) = 1 + 1 /\ s[1] = <<e>>[1] /\ s[1 + 1] = f
    BY <2>1, <2>2
  <2> QED
    BY <2>1, <2>3
<1> HIDE DEF s
<1>3. /\ List(r) /\ Len(r) = Len(q) + Len(s) /\ Len(q) \in Nat /\ (\A j \in 1 .. Len(q) : r[j] = q[j])
      /\ \A j \in 1 .. Len(s) : r[Len(q) + j] = s[j]
  BY <1>2, ListConcat
<1>4. /\ List(b) /\ Len(b) = Len(q) + 1 /\ (\A j \in 1 .. Len(q) : b[j] = q[j]) /\ b[Len(q) + 1] = e
  BY ListAppend
<1> HIDE DEF b
<1>5. /\ List(a) /\ Len(a) = Len(b) + 1 /\ (\A j \in 1 .. Len(b) : a[j] = b[j]) /\ a[Len(b) + 1] = f
  BY <1>4, ListAppend
<1> HIDE DEF r, a
<1>6. r[Len(q) + 1] = e /\ r[Len(q) + 2] = f
  BY <1>2, <1>3
<1>7. Len(a) = Len(q) + 2 /\ Len(r) = Len(q) + 2
  BY <1>2, <1>3, <1>4, <1>5
<1>8. \A j \in 1 .. Len(r) : r[j] = a[j]
  <2> SUFFICES ASSUME NEW j \in 1 .. Len(r) PROVE r[j] = a[j]
    OBVIOUS
  <2>1. CASE j = Len(q) + 2
    BY <1>4, <1>5, <1>6, <1>3, <2>1
  <2>2. CASE j = Len(q) + 1
    <3>1. j \in 1 .. Len(b)
      BY <1>3, <1>4, <2>2
    <3> QED
      BY <1>4, <1>5, <1>6, <2>2, <3>1
  <2>3. CASE j \in 1 .. Len(q)
    <3>1. j \in 1 .. Len(b)
      BY <1>3, <1>4, <2>3
    <3> QED
      BY <1>3, <1>4, <1>5, <2>3, <3>1
  <2> QED
    BY <1>3, <1>7, <2>1, <2>2, <2>3
<1>9. r = a
  BY <1>3, <1>5, <1>7, <1>8, ListSame
<1> QED
  BY <1>9 DEF r, a, b, s

(* r does on the thread's blocks what its stream does, and more on x.      *)
Longer(t, x, r) ==
  /\ List(r) /\ Within(r, Foot(t)) /\ Table(Ran(mem, r))
  /\ \A a \in Foot(t) : a # x => Ran(mem, r)[a] = Ran(mem, streams[t])[a]
  /\ \A a \in DOMAIN mem : a \in DOMAIN Ran(mem, r) /\ DOMAIN Ran(mem, r)[a] = 1 .. Len(mem[a])

(* A stream is as long as itself;                                          *)
LEMMA LongerSame ==
  ASSUME Typed, WorkOwn, NEW t \in Threads, NEW x
  PROVE  Longer(t, x, streams[t])
<1> DEFINE q == streams[t]
           w == Ran(mem, q)
<1>1. List(q) /\ Within(q, Foot(t)) /\ Blocks(mem)
  BY DEF Typed, WorkOwn
<1>2. SameShape(mem, w)
  BY <1>1, ListIs, RanKeeps
<1> HIDE DEF w
<1>3. Table(w) /\ \A a \in DOMAIN mem : a \in DOMAIN w /\ DOMAIN w[a] = 1 .. Len(mem[a])
  <2>1. Blocks(w) /\ DOMAIN w = DOMAIN mem /\ \A a \in DOMAIN mem : Len(w[a]) = Len(mem[a])
    BY <1>2 DEF SameShape
  <2>2. \A a \in DOMAIN w : DOMAIN w[a] = 1 .. Len(w[a])
    BY <2>1, ListIs DEF Blocks
  <2> QED
    BY <2>1, <2>2 DEF Blocks
<1> QED
  BY <1>1, <1>3 DEF Longer, w

(* one operation on block x more, which reads its own thread's blocks, and *)
(* what it writes;                                                         *)
LEMMA LongerStill ==
  ASSUME Typed, NEW t \in Threads, NEW x \in Foot(t), NEW r, Longer(t, x, r),
         NEW o, o.dst = x, o.op = "copy" => o.src \in Foot(t)
  PROVE  /\ Longer(t, x, Append(r, o))
         /\ Ran(mem, Append(r, o))[x] = [i \in 1 .. Len(mem[x]) |-> WordAfter(Ran(mem, r), o, i)]
<1> DEFINE s == Append(r, o)
           v == Ran(mem, r)
           w == Ran(mem, s)
<1>1. /\ List(r) /\ List(s) /\ Len(r) \in Nat /\ Len(s) = Len(r) + 1 /\ s[Len(r) + 1] = o
      /\ \A j \in 1 .. Len(r) : s[j] = r[j]
  BY ListAppend DEF Longer
<1>2. w = Perform(v, o)
  BY <1>1, RanAppend
<1>3. Within(s, Foot(t))
  <2>1. Within(r, Foot(t))
    BY DEF Longer
  <2> SUFFICES ASSUME NEW j \in 1 .. Len(s) PROVE s[j].dst \in Foot(t) /\ (s[j].op = "copy" => s[j].src \in Foot(t))
    BY DEF Within
  <2>2. CASE j = Len(r) + 1
    BY <1>1, <2>2
  <2>3. CASE j # Len(r) + 1
    <3>1. j \in 1 .. Len(r)
      BY <1>1, <2>3
    <3> QED
      BY <1>1, <2>1, <3>1 DEF Within
  <2> QED
    BY <2>2, <2>3
<1>4. Table(v) /\ x \in DOMAIN mem /\ \A a \in DOMAIN mem : a \in DOMAIN v /\ DOMAIN v[a] = 1 .. Len(mem[a])
  BY DEF Longer, Foot
<1>5. \A a \in Foot(t) : a # x => v[a] = Ran(mem, streams[t])[a]
  BY DEF Longer
<1> HIDE DEF v, w, s
<1>6. /\ Table(w) /\ DOMAIN w = DOMAIN v /\ w[x] = [i \in 1 .. Len(mem[x]) |-> WordAfter(v, o, i)]
      /\ \A a \in DOMAIN v : a # x => w[a] = v[a]
  <2>1. Perform(v, o)[o.dst] = [i \in DOMAIN v[o.dst] |-> WordAfter(v, o, i)]
    BY <1>4, PerformThere
  <2>2. Table(Perform(v, o)) /\ DOMAIN Perform(v, o) = DOMAIN v /\ \A a \in DOMAIN v : a # o.dst => Perform(v, o)[a] = v[a]
    BY <1>4, PerformIs
  <2> QED
    BY <1>2, <1>4, <2>1, <2>2
<1>7. \A a \in DOMAIN mem : a \in DOMAIN w /\ DOMAIN w[a] = 1 .. Len(mem[a])
  <2> SUFFICES ASSUME NEW a \in DOMAIN mem PROVE a \in DOMAIN w /\ DOMAIN w[a] = 1 .. Len(mem[a])
    OBVIOUS
  <2>1. CASE a = x
    BY <1>4, <1>6, <2>1
  <2>2. CASE a # x
    BY <1>4, <1>6, <2>2
  <2> QED
    BY <2>1, <2>2
<1>8. \A a \in Foot(t) : a # x => w[a] = Ran(mem, streams[t])[a]
  BY <1>4, <1>5, <1>6 DEF Foot
<1> QED
  BY <1>1, <1>3, <1>6, <1>7, <1>8 DEF Longer, v, w, s

(* a step that makes one stream longer so leaves every other block's words *)
(* as they were.                                                           *)
LEMMA LongerIs ==
  ASSUME Typed, WorkOwn, NEW t \in Threads, NEW x, NEW r, Longer(t, x, r),
         mem' = mem, streams' = [streams EXCEPT ![t] = r]
  PROVE  /\ Working(streams') /\ SteadyBut(x) /\ SameShape(mem, mem')
         /\ \A a : Value(t, a)' = Ran(mem, r)[a]
<1>1. streams'[t] = r /\ \A u \in Threads : u # t => streams'[u] = streams[u]
  BY DEF Typed
<1>2. streams' = [u \in Threads |-> streams'[u]] /\ \A u \in Threads : List(streams'[u]) /\ Within(streams'[u], Foot(u))
  BY <1>1 DEF Typed, WorkOwn, Longer
<1>3. \A a : Value(t, a)' = Ran(mem, r)[a]
  BY <1>1 DEF Value
<1>4. ASSUME NEW u \in Threads, NEW a \in Foot(u), a # x PROVE Value(u, a)' = Value(u, a)
  <2>1. CASE u = t
    BY <1>3, <1>4, <2>1 DEF Value, Longer
  <2>2. CASE u # t
    BY <1>1, <2>2 DEF Value
  <2> QED
    BY <2>1, <2>2
<1> QED
  BY <1>2, <1>3, <1>4 DEF Working, SteadyBut, SameShape, Typed

(* A call whose plan is ready, with the block it got or with none to get.  *)
Ready(t, plan, got) ==
  /\ PlanReady(t, plan)
  /\ \/ got = 0 /\ running[t].stage = "idle" /\ ~(plan.device /\ plan.len > 0)
     \/ /\ got # 0 /\ running[t].got = got /\ running[t].plan = plan /\ plan.device /\ plan.len > 0
        /\ ~pools[plan.pool].destroyed
FillWord(plan, word, i) == IF i <= plan.take THEN word ELSE IF i <= Unfilled(plan) THEN Garbage ELSE plan.rest

(* The smaller of two numbers is a number.                                 *)
LEMMA MinIs == ASSUME NEW a \in Nat, NEW b \in Nat PROVE Min({a, b}) \in Nat
<1>1. \E x \in {a, b} : \A y \in {a, b} : x <= y
  BY a <= b \/ b <= a
<1>2. Min({a, b}) \in {a, b}
  BY <1>1 DEF Min
<1> QED
  BY <1>2

(* What is known of a plan's fields.                                       *)
LEMMA PlanFields ==
  ASSUME NEW plan \in Plans
  PROVE  /\ plan.dest \in Nat /\ plan.len \in Nat /\ plan.device \in BOOLEAN /\ plan.pool \in PoolNames
         /\ plan.from \in Nat /\ plan.take \in Nat /\ plan.rest \in {0, 1, Garbage}
BY DEF Plans

(* What a plan leaves to fill begins behind the words it takes.            *)
LEMMA UnfilledIs ==
  ASSUME Typed, NEW t, NEW plan, PlanReady(t, plan)
  PROVE  Unfilled(plan) \in Nat /\ plan.take <= Unfilled(plan)
<1>1. plan.take \in Nat /\ plan.len \in Nat
  BY PlanFields DEF PlanReady
<1>2. CASE plan.from # 0 /\ plan.take = 0
  <2>1. arrays[plan.from].len \in Nat
    BY <1>2, ArrayFields DEF PlanReady
  <2>2. Min({plan.len, arrays[plan.from].len}) \in Nat
    BY <1>1, <2>1, MinIs
  <2> QED
    BY <1>1, <1>2, <2>2 DEF Unfilled
<1>3. CASE ~(plan.from # 0 /\ plan.take = 0)
  BY <1>1, <1>3 DEF Unfilled
<1> QED
  BY <1>2, <1>3

(* The array a plan takes words from is in use and will hold the words     *)
(* that are meant.                                                         *)
LEMMA SourceIs ==
  ASSUME MemoryInv, NEW t \in Threads, NEW plan, PlanReady(t, plan), plan.take # 0
  PROVE  /\ plan.from # 0 /\ plan.from \in Slots /\ ThreadOf(plan.from) = t /\ Usable(plan.from)
         /\ plan.take \in Nat /\ plan.take > 0 /\ arrays[plan.from].len \in Nat
         /\ plan.take <= arrays[plan.from].len /\ arrays[plan.from].len > 0
         /\ \A i \in 1 .. plan.take : meant[plan.from][i] \in {Garbage, Holds(t, plan.from)[i]}
<1>1. plan.take \in Nat
  BY PlanFields DEF PlanReady
<1>2. /\ plan.from # 0 /\ plan.from \in Slots /\ ThreadOf(plan.from) = t /\ Usable(plan.from)
      /\ plan.take <= arrays[plan.from].len
  BY DEF PlanReady
<1>3. arrays[plan.from].len \in Nat
  BY <1>2, ArrayFields DEF MemoryInv
<1>4. arrays[plan.from].len > 0
  BY <1>1, <1>2, <1>3
<1>5. \A i \in 1 .. arrays[plan.from].len : meant[plan.from][i] \in {Garbage, Holds(t, plan.from)[i]}
  BY <1>2, <1>4, HoldsIs
<1>6. \A i \in 1 .. plan.take : i \in 1 .. arrays[plan.from].len
  BY <1>1, <1>2, <1>3
<1> QED
  BY <1>1, <1>2, <1>3, <1>4, <1>5, <1>6

(* The words an array built by a plan begins with.                         *)
LEMMA FilledIs ==
  ASSUME NEW plan, NEW c
  PROVE  /\ Filled(plan, c) = [i \in 1 .. plan.len |-> Filled(plan, c)[i]]
         /\ \A i \in 1 .. plan.len : Filled(plan, c)[i] = FillWord(plan, c[i], i)
BY DEF Filled, FillWord

(* What Build leaves of the arrays,                                        *)
LEMMA BuiltArrays ==
  ASSUME MemoryInv, NEW t \in Threads, NEW plan, NEW got, Ready(t, plan, got), Build(t, plan, got)
  PROVE  /\ arrays' = [s \in Slots |-> arrays'[s]] /\ ArrayLike(arrays'[plan.dest])
         /\ arrays'[plan.dest].pointer = got /\ arrays'[plan.dest].len = plan.len
         /\ arrays'[plan.dest].device = plan.device /\ arrays'[plan.dest].pool = plan.pool
         /\ ~plan.device =>
              /\ arrays'[plan.dest].words = [i \in 1 .. plan.len |-> arrays'[plan.dest].words[i]]
              /\ \A i \in 1 .. plan.len : arrays'[plan.dest].words[i] = FillWord(plan, Holds(t, plan.from)[i], i)
         /\ \A s \in Slots : s # plan.dest => arrays'[s] = arrays[s]
<1>1. PICK words :
        words = IF plan.device THEN << >>
                ELSE Filled(plan, IF plan.take = 0 THEN << >>
                                  ELSE IF (IF plan.from = 0 THEN Array ELSE arrays[plan.from]).device
                                       THEN Finished(mem, t)[(IF plan.from = 0 THEN Array ELSE arrays[plan.from]).pointer]
                                       ELSE (IF plan.from = 0 THEN Array ELSE arrays[plan.from]).words)
  OBVIOUS
<1> DEFINE a == [pointer |-> got, len |-> plan.len, device |-> plan.device, pool |-> plan.pool, words |-> words]
<1>2. arrays' = [arrays EXCEPT ![plan.dest] = a]
  BY <1>1 DEF Build
<1>3. plan \in Plans /\ plan.dest \in Slots /\ got \in Addresses \cup {0}
  <2>1. running[t].got \in Addresses \cup {0}
    BY CallFields DEF MemoryInv
  <2> QED
    BY <2>1 DEF Ready, PlanReady
<1>4. plan.len \in Nat /\ plan.device \in BOOLEAN /\ plan.pool \in PoolNames /\ plan.take \in Nat
  BY <1>3, PlanFields
<1>5. /\ a.pointer = got /\ a.len = plan.len /\ a.device = plan.device /\ a.pool = plan.pool /\ a.words = words
      /\ a \in [pointer : Addresses \cup {0}, len : Nat, device : BOOLEAN, pool : PoolNames, words : {words}]
  BY <1>3, <1>4
<1> HIDE DEF a
<1>6. arrays' = [s \in Slots |-> arrays'[s]] /\ arrays'[plan.dest] = a /\ \A s \in Slots : s # plan.dest => arrays'[s] = arrays[s]
  BY <1>2, <1>3 DEF MemoryInv, Typed
<1>7. ArrayLike(a)
  BY <1>5 DEF ArrayLike
<1>8. ASSUME ~plan.device
      PROVE  /\ words = [i \in 1 .. plan.len |-> words[i]]
             /\ \A i \in 1 .. plan.len : words[i] = FillWord(plan, Holds(t, plan.from)[i], i)
  <2>1. CASE plan.take = 0
    <3>1. words = Filled(plan, << >>)
      BY <1>1, <1>8, <2>1
    <3>2. \A i \in 1 .. plan.len : FillWord(plan, << >>[i], i) = FillWord(plan, Holds(t, plan.from)[i], i)
      BY <1>4, <2>1 DEF FillWord
    <3> QED
      BY <3>1, <3>2, FilledIs
  <2>2. CASE plan.take # 0
    <3>1. plan.from # 0
      BY <2>2 DEF Ready, PlanReady
    <3>2. words = Filled(plan, Holds(t, plan.from))
      BY <1>1, <1>8, <2>2, <3>1 DEF Holds, Finished
    <3> QED
      BY <3>2, FilledIs
  <2> QED
    BY <2>1, <2>2
<1> QED
  BY <1>5, <1>6, <1>7, <1>8

(* and of everything else but the blocks and streams.                      *)
LEMMA BuiltRest ==
  ASSUME MemoryInv, NEW t \in Threads, NEW plan, NEW got, Ready(t, plan, got), Build(t, plan, got)
  PROVE  /\ meant' = [s \in Slots |-> meant'[s]]
         /\ meant'[plan.dest] = [i \in 1 .. plan.len |-> meant'[plan.dest][i]]
         /\ \A i \in 1 .. plan.len : meant'[plan.dest][i] = FillWord(plan, meant[plan.from][i], i)
         /\ \A s \in Slots : s # plan.dest => meant'[s] = meant[s]
         /\ Returned(plan.dest, t) /\ ~fault'
         /\ running' \in [Threads -> CallStates] /\ running'[t] = Idle
         /\ \A u \in Threads \ {t} : running'[u] = running[u]
<1>1. PICK c, w : c = (IF plan.from = 0 THEN << >> ELSE meant[plan.from]) /\ w = Filled(plan, c)
  OBVIOUS
<1>2. meant' = [meant EXCEPT ![plan.dest] = w]
  BY <1>1 DEF Build
<1>3. plan \in Plans /\ plan.dest \in Slots /\ (plan.from = 0 => plan.take = 0) /\ plan.take \in Nat /\ plan.len \in Nat
  BY PlanFields DEF Ready, PlanReady
<1>4. meant' = [s \in Slots |-> meant'[s]] /\ meant'[plan.dest] = w /\ \A s \in Slots : s # plan.dest => meant'[s] = meant[s]
  BY <1>2, <1>3 DEF MemoryInv, Typed
<1>5. w = [i \in 1 .. plan.len |-> w[i]] /\ \A i \in 1 .. plan.len : w[i] = FillWord(plan, c[i], i)
  BY <1>1, FilledIs
<1>6. \A i \in 1 .. plan.len : FillWord(plan, c[i], i) = FillWord(plan, meant[plan.from][i], i)
  <2>1. CASE plan.from = 0
    BY <1>3, <2>1 DEF FillWord
  <2>2. CASE plan.from # 0
    BY <1>1, <2>2
  <2> QED
    BY <2>1, <2>2
<1>7. Returned(plan.dest, t) /\ ~fault'
  <2>1. PICK r : r = Released(arrays[plan.dest], t)
    OBVIOUS
  <2>2. pools' = r[1] /\ fault' = r[2]
    BY <2>1 DEF Build
  <2>3. PICK d : d = plan.dest /\ d \in Slots
    BY <1>3
  <2> QED
    BY <2>1, <2>2, <2>3, ReleasedIs
<1>8. Idle \in CallStates
  BY DEF Idle, Plan, CallStates, Plans, Stages, PoolNames
<1>9. running' = [running EXCEPT ![t] = Idle]
  BY DEF Build
<1>10. running' \in [Threads -> CallStates] /\ running'[t] = Idle /\ \A u \in Threads \ {t} : running'[u] = running[u]
  BY <1>8, <1>9 DEF MemoryInv, Typed
<1> QED
  BY <1>4, <1>5, <1>6, <1>7, <1>10

(* What a call adds to its thread's stream.                                *)
LEMMA BuiltStream ==
  ASSUME MemoryInv, NEW t \in Threads, NEW plan, NEW got, Build(t, plan, got), PlanReady(t, plan), plan.device, plan.len > 0,
         NEW c, NEW z, NEW r, NEW s,
         c = (IF arrays[plan.from].device THEN Copy(got, arrays[plan.from].pointer, plan.take)
              ELSE Upload(got, SubSeq(arrays[plan.from].words, 1, plan.take))),
         z = Zero(got, Unfilled(plan), plan.len),
         r = (IF plan.take = 0 THEN streams[t] ELSE Append(streams[t], c)),
         s = (IF plan.rest = 0 /\ plan.len > Unfilled(plan) THEN Append(r, z) ELSE r)
  PROVE  mem' = mem /\ streams' = [streams EXCEPT ![t] = s]
<1>1. PICK fills :
        fills = (IF plan.take = 0 THEN << >>
                 ELSE IF (IF plan.from = 0 THEN Array ELSE arrays[plan.from]).device
                      THEN <<Copy(got, (IF plan.from = 0 THEN Array ELSE arrays[plan.from]).pointer, plan.take)>>
                 ELSE <<Upload(got, SubSeq((IF plan.from = 0 THEN Array ELSE arrays[plan.from]).words, 1, plan.take))>>)
                \o (IF plan.rest = 0 /\ plan.len > Unfilled(plan) THEN <<Zero(got, Unfilled(plan), plan.len)>> ELSE << >>)
  OBVIOUS
<1>2. mem' = mem /\ streams' = [streams EXCEPT ![t] = @ \o fills]
  BY <1>1 DEF Build
<1>3. fills = (IF plan.take = 0 THEN << >> ELSE <<c>>)
              \o (IF plan.rest = 0 /\ plan.len > Unfilled(plan) THEN <<z>> ELSE << >>)
  <2>1. plan.take # 0 => plan.from # 0
    BY DEF PlanReady
  <2>2. CASE plan.take = 0
    BY <1>1, <2>2
  <2>3. CASE plan.take # 0
    BY <1>1, <2>1, <2>3
  <2> QED
    BY <2>2, <2>3
<1>4. PICK q : q = streams[t] /\ List(q)
  BY DEF MemoryInv, Typed
<1>5. q \o fills = s
  <2> DEFINE zeros == plan.rest = 0 /\ plan.len > Unfilled(plan)
  <2>1. CASE plan.take = 0 /\ ~zeros
    <3>1. fills = << >> \o << >>
      BY <1>3, <2>1
    <3>2. fills = << >>
      BY <3>1, ListEmpty, ConcatNone
    <3> QED
      BY <1>4, <2>1, <3>2, ConcatNone
  <2>2. CASE plan.take # 0 /\ ~zeros
    <3>1. fills = <<c>> \o << >>
      BY <1>3, <2>2
    <3>2. fills = <<c>>
      BY <3>1, ListOne, ConcatNone
    <3> QED
      BY <1>4, <2>2, <3>2, ConcatOne
  <2>3. CASE plan.take = 0 /\ zeros
    <3>1. fills = << >> \o <<z>>
      BY <1>3, <2>3
    <3>2. fills = Append(<< >>, z)
      BY <3>1, ListEmpty, ConcatOne
    <3>3. fills = <<z>>
      BY <3>2
    <3> QED
      BY <1>4, <2>3, <3>3, ConcatOne
  <2>4. CASE plan.take # 0 /\ zeros
    <3>1. fills = <<c>> \o <<z>>
      BY <1>3, <2>4
    <3> QED
      BY <1>4, <2>4, <3>1, ConcatTwo
  <2> QED
    BY <2>1, <2>2, <2>3, <2>4
<1> QED
  BY <1>2, <1>4, <1>5

(* The block of a call is its thread's.                                    *)
LEMMA GotBlock ==
  ASSUME MemoryInv, NEW t \in Threads, NEW plan, NEW got, Ready(t, plan, got), got # 0
  PROVE  /\ got \in Foot(t) /\ got \in DOMAIN mem /\ Len(mem[got]) \in Nat /\ Len(mem[got]) >= plan.len
         /\ plan.pool \in Pools /\ got \in pools[plan.pool].allocated /\ got \in Addresses
         /\ \A i \in 1 .. Len(pools[plan.pool].unused) : pools[plan.pool].unused[i].ptr # got
         /\ \A s \in Slots : arrays[s].pool = plan.pool => arrays[s].pointer # got
         /\ \A u \in Threads : u # t => running[u].got # got
<1>0. Typed /\ Owned /\ CallOwned(t)
  BY DEF MemoryInv, Owned, CallsOwned
<1>1. running[t].got = got /\ running[t].plan = plan
  BY DEF Ready
<1>2. /\ plan.pool \in Pools /\ got \in pools[plan.pool].allocated /\ Len(mem[got]) >= plan.len
      /\ \A i \in 1 .. Len(pools[plan.pool].unused) : pools[plan.pool].unused[i].ptr # got
      /\ \A s \in Slots : arrays[s].pool = plan.pool => arrays[s].pointer # got
      /\ \A u \in Threads : u # t => running[u].got # got
  BY <1>0, <1>1 DEF CallOwned
<1>3. got \in DOMAIN mem /\ got \in Addresses
  BY <1>0, <1>2, PoolFields DEF Owned, BlocksOwned
<1>4. got \in Foot(t)
  BY <1>1, <1>3 DEF Foot, Mine
<1>5. Len(mem[got]) \in Nat
  BY <1>0, <1>3, ListIs DEF Typed, Blocks
<1> QED
  BY <1>2, <1>3, <1>4, <1>5

(* The words a copy onto a new block leaves there.                         *)
LEMMA CopiedWords ==
  ASSUME MemoryInv, NEW t \in Threads, NEW plan, NEW got, Ready(t, plan, got), got # 0, plan.take # 0,
         NEW c, c = (IF arrays[plan.from].device THEN Copy(got, arrays[plan.from].pointer, plan.take)
                     ELSE Upload(got, SubSeq(arrays[plan.from].words, 1, plan.take)))
  PROVE  /\ c.dst = got /\ (c.op = "copy" => c.src \in Foot(t))
         /\ \A i \in 1 .. plan.take : WordAfter(Ran(mem, streams[t]), c, i) = Holds(t, plan.from)[i]
<1>0. PlanReady(t, plan)
  BY DEF Ready
<1>1. PICK n, f : n = plan.take /\ f = plan.from
  OBVIOUS
<1>2. /\ f \in Slots /\ ThreadOf(f) = t /\ Usable(f) /\ n \in Nat /\ n > 0 /\ n <= arrays[f].len
      /\ arrays[f].len > 0 /\ arrays[f].len \in Nat
  BY <1>0, <1>1, SourceIs
<1>3. CASE arrays[f].device
  <2>1. c.op = "copy" /\ c.dst = got /\ c.first = 0 /\ c.last = n /\ c.src = arrays[f].pointer
    BY <1>1, <1>3 DEF Copy
  <2>2. arrays[f].pointer \in Foot(t)
    BY <1>2, <1>3, BlockOf
  <2>3. \A i \in 1 .. n : WordAfter(Ran(mem, streams[t]), c, i) = Ran(mem, streams[t])[arrays[f].pointer][i]
    BY <1>2, <2>1 DEF WordAfter
  <2>4. Holds(t, f) = Ran(mem, streams[t])[arrays[f].pointer]
    BY <1>3 DEF Holds
  <2> QED
    BY <1>1, <2>1, <2>2, <2>3, <2>4
<1>4. CASE ~arrays[f].device
  <2>1. PICK w, v : w = arrays[f].words /\ v = SubSeq(w, 1, n)
    OBVIOUS
  <2>2. w = [i \in 1 .. arrays[f].len |-> w[i]]
    BY <1>2, <1>4, <2>1 DEF MemoryInv, Sized, SizedAt
  <2>3. List(w) /\ Len(w) = arrays[f].len
    BY <1>2, <2>2, ListOf
  <2>4. PICK S : w \in Seq(S)
    BY <2>3 DEF List
  <2>5. v = [i \in 1 .. n |-> w[i]]
    <3>1. \A i \in 1 .. n : i \in 1 .. Len(w)
      BY <1>2, <2>3
    <3> QED
      BY <1>2, <2>1, <2>3, <2>4, <3>1
  <2>6. Len(v) = n
    BY <1>2, <2>5, ListOf
  <2>7. c.op = "write" /\ c.dst = got /\ c.first = 0 /\ c.last = n /\ c.vals = v
    BY <1>1, <1>4, <2>1, <2>6 DEF Upload
  <2>8. \A i \in 1 .. n : WordAfter(Ran(mem, streams[t]), c, i) = w[i]
    BY <1>2, <2>5, <2>7 DEF WordAfter
  <2>9. Holds(t, f) = w
    BY <1>4, <2>1 DEF Holds
  <2> QED
    BY <1>1, <2>7, <2>8, <2>9
<1> QED
  BY <1>3, <1>4

(* On the device, the new block will hold the words that are meant,        *)
LEMMA BuiltOnDevice ==
  ASSUME MemoryInv, NEW t \in Threads, NEW plan, NEW got, Ready(t, plan, got), Build(t, plan, got), got # 0
  PROVE  /\ SameShape(mem, mem') /\ Working(streams') /\ SteadyBut(got)
         /\ \A i \in 1 .. plan.len : FillWord(plan, meant[plan.from][i], i) \in {Garbage, Value(t, got)'[i]}
<1>0. Typed /\ WorkOwn /\ PlanReady(t, plan) /\ plan.device /\ plan.len > 0
  BY DEF MemoryInv, Ready
<1>1. /\ plan.len \in Nat /\ plan.take \in Nat /\ plan.rest \in {0, Garbage} /\ Unfilled(plan) \in Nat
      /\ plan.take <= Unfilled(plan)
  BY <1>0, PlanFields, UnfilledIs DEF PlanReady
<1>2. got \in Foot(t) /\ Len(mem[got]) \in Nat /\ Len(mem[got]) >= plan.len
  BY GotBlock
<1>3. PICK c, z, u :
        /\ c = (IF arrays[plan.from].device THEN Copy(got, arrays[plan.from].pointer, plan.take)
                ELSE Upload(got, SubSeq(arrays[plan.from].words, 1, plan.take)))
        /\ u = Unfilled(plan) /\ z = Zero(got, u, plan.len)
  OBVIOUS
<1>4. PICK q, r : q = streams[t] /\ r = (IF plan.take = 0 THEN streams[t] ELSE Append(streams[t], c))
  OBVIOUS
<1>5. PICK s : s = (IF plan.rest = 0 /\ plan.len > Unfilled(plan) THEN Append(r, z) ELSE r)
  OBVIOUS
<1>6. mem' = mem /\ streams' = [streams EXCEPT ![t] = s]
  BY <1>0, <1>3, <1>4, <1>5, BuiltStream
<1>7. Longer(t, got, q)
  BY <1>0, <1>4, LongerSame
<1> DEFINE size == Len(mem[got])
<1>8. Longer(t, got, r) /\ \A i \in 1 .. plan.take : i <= size => Ran(mem, r)[got][i] = Holds(t, plan.from)[i]
  <2>1. CASE plan.take = 0
    BY <1>4, <1>7, <2>1
  <2>2. CASE plan.take # 0
    <3>1. /\ c.dst = got /\ (c.op = "copy" => c.src \in Foot(t))
          /\ \A i \in 1 .. plan.take : WordAfter(Ran(mem, q), c, i) = Holds(t, plan.from)[i]
      BY <1>3, <1>4, <2>2, CopiedWords
    <3>2. r = Append(q, c)
      BY <1>4, <2>2
    <3>3. /\ Longer(t, got, Append(q, c))
          /\ Ran(mem, Append(q, c))[got] = [i \in 1 .. Len(mem[got]) |-> WordAfter(Ran(mem, q), c, i)]
      BY <1>0, <1>2, <1>7, <3>1, LongerStill
    <3>4. \A i \in 1 .. size : Ran(mem, r)[got][i] = WordAfter(Ran(mem, q), c, i)
      BY <3>2, <3>3
    <3>5. \A i \in 1 .. plan.take : i <= size => i \in 1 .. size
      BY <1>1, <1>2
    <3> QED
      BY <3>1, <3>2, <3>3, <3>4, <3>5
  <2> QED
    BY <2>1, <2>2
<1>9. /\ Longer(t, got, s)
      /\ \A i \in 1 .. plan.len : /\ i <= plan.take => Ran(mem, s)[got][i] = Holds(t, plan.from)[i]
                                  /\ i > Unfilled(plan) /\ plan.rest = 0 => Ran(mem, s)[got][i] = 0
  <2>0. \A i \in 1 .. plan.len : i \in 1 .. size /\ i <= size /\ i \in Nat
    BY <1>1, <1>2
  <2>1. \A i \in 1 .. plan.len : i <= plan.take => i \in 1 .. plan.take
    BY <1>1
  <2>2. CASE ~(plan.rest = 0 /\ plan.len > Unfilled(plan))
    <3>1. s = r
      BY <1>5, <2>2
    <3>2. \A i \in 1 .. plan.len : ~(i > Unfilled(plan) /\ plan.rest = 0)
      BY <1>1, <2>2
    <3> QED
      BY <1>8, <2>0, <2>1, <3>1, <3>2
  <2>3. CASE plan.rest = 0 /\ plan.len > Unfilled(plan)
    <3>1. s = Append(r, z)
      BY <1>5, <2>3
    <3>2. z.dst = got /\ z.op = "zero" /\ z.first = u /\ z.last = plan.len /\ u = Unfilled(plan)
      BY <1>3 DEF Zero
    <3>3. /\ Longer(t, got, Append(r, z))
          /\ Ran(mem, Append(r, z))[got] = [i \in 1 .. Len(mem[got]) |-> WordAfter(Ran(mem, r), z, i)]
      BY <1>0, <1>2, <1>8, <3>2, LongerStill
    <3>4. \A i \in 1 .. size : Ran(mem, s)[got][i] = WordAfter(Ran(mem, r), z, i)
      BY <3>1, <3>3
    <3>5. ASSUME NEW i \in 1 .. plan.len, i <= plan.take PROVE Ran(mem, s)[got][i] = Holds(t, plan.from)[i]
      <4>1. WordAfter(Ran(mem, r), z, i) = Ran(mem, r)[got][i]
        BY <1>1, <2>0, <3>2, <3>5 DEF WordAfter
      <4> QED
        BY <1>8, <2>0, <2>1, <3>4, <3>5, <4>1
    <3>6. ASSUME NEW i \in 1 .. plan.len, i > Unfilled(plan) PROVE Ran(mem, s)[got][i] = 0
      <4>1. WordAfter(Ran(mem, r), z, i) = 0
        BY <1>1, <2>0, <3>2, <3>6 DEF WordAfter
      <4> QED
        BY <2>0, <3>4, <4>1
    <3> QED
      BY <3>1, <3>3, <3>5, <3>6
  <2> QED
    BY <2>2, <2>3
<1>10. /\ Working(streams') /\ SteadyBut(got) /\ SameShape(mem, mem') /\ \A a : Value(t, a)' = Ran(mem, s)[a]
  BY <1>0, <1>6, <1>9, LongerIs
<1>11. ASSUME NEW i \in 1 .. plan.len PROVE FillWord(plan, meant[plan.from][i], i) \in {Garbage, Ran(mem, s)[got][i]}
  <2>1. i \in Nat
    OBVIOUS
  <2>2. CASE i <= plan.take
    <3>1. plan.take # 0 /\ i \in 1 .. plan.take
      BY <1>1, <2>1, <2>2
    <3>2. meant[plan.from][i] \in {Garbage, Holds(t, plan.from)[i]}
      BY <1>0, <3>1, SourceIs
    <3>3. FillWord(plan, meant[plan.from][i], i) = meant[plan.from][i]
      BY <2>2 DEF FillWord
    <3> QED
      BY <1>9, <2>2, <3>2, <3>3
  <2>3. CASE i > plan.take /\ i <= Unfilled(plan)
    BY <1>1, <2>1, <2>3 DEF FillWord
  <2>4. CASE i > plan.take /\ i > Unfilled(plan)
    <3>1. FillWord(plan, meant[plan.from][i], i) = plan.rest
      BY <1>1, <2>1, <2>4 DEF FillWord
    <3> QED
      BY <1>1, <1>9, <2>4, <3>1
  <2> QED
    BY <1>1, <2>1, <2>2, <2>3, <2>4
<1>12. Value(t, got)' = Ran(mem, s)[got]
  BY <1>10
<1> QED
  BY <1>10, <1>11, <1>12

(* and without a block only the own stream is finished.                    *)
LEMMA BuiltElsewhere ==
  ASSUME MemoryInv, NEW t \in Threads, NEW plan, NEW got, Ready(t, plan, got), Build(t, plan, got), got = 0
  PROVE  SameShape(mem, mem') /\ Working(streams') /\ SteadyBut(got)
<1>0. PlanReady(t, plan) /\ ~(plan.device /\ plan.len > 0) /\ Typed /\ Sized /\ Owned /\ WorkOwn
  BY DEF Ready, MemoryInv
<1>1. PICK waits : waits = (~plan.device /\ (IF plan.from = 0 THEN Array ELSE arrays[plan.from]).device /\ plan.take > 0)
  OBVIOUS
<1>2. CASE waits
  <2>1. mem' = Finished(mem, t) /\ streams' = [streams EXCEPT ![t] = << >>]
    BY <1>1, <1>2 DEF Build
  <2> QED
    BY <1>0, <2>1, WaitIs
<1>3. CASE ~waits
  <2>1. mem' = mem /\ streams' = streams
    BY <1>0, <1>1, <1>3 DEF Build
  <2> QED
    BY <1>0, <2>1, StayIs
<1> QED
  BY <1>1, <1>2, <1>3

(* Build hands the call's block over to the array it makes,                *)
LEMMA BuildHands ==
  ASSUME MemoryInv, NEW t \in Threads, NEW plan, NEW got, Ready(t, plan, got), Build(t, plan, got),
         NEW d, NEW q, NEW n, d = plan.dest, q = plan.pool, n = plan.len
  PROVE  /\ Hands(t, d, got, q, n)
<1>1. SameShape(mem, mem')
  BY BuiltOnDevice, BuiltElsewhere
<1>2. d \in Slots /\ ThreadOf(d) = t
  BY DEF Ready, PlanReady
<1>3. /\ arrays'[d].pointer = got /\ arrays'[d].len = n /\ arrays'[d].pool = q
      /\ \A s \in Slots : s # d => arrays'[s] = arrays[s]
  <2>1. /\ arrays' = [s \in Slots |-> arrays'[s]] /\ ArrayLike(arrays'[plan.dest])
        /\ arrays'[plan.dest].pointer = got /\ arrays'[plan.dest].len = plan.len
        /\ arrays'[plan.dest].device = plan.device /\ arrays'[plan.dest].pool = plan.pool
        /\ ~plan.device =>
             /\ arrays'[plan.dest].words = [i \in 1 .. plan.len |-> arrays'[plan.dest].words[i]]
             /\ \A i \in 1 .. plan.len : arrays'[plan.dest].words[i] = FillWord(plan, Holds(t, plan.from)[i], i)
        /\ \A s \in Slots : s # plan.dest => arrays'[s] = arrays[s]
    BY BuiltArrays
  <2> QED
    BY <2>1
<1>4. /\ Returned(d, t) /\ running' \in [Threads -> CallStates] /\ running'[t] = Idle
      /\ \A u \in Threads \ {t} : running'[u] = running[u]
  BY BuiltRest
<1>5. running'[t].stage = "idle" /\ running'[t].got = 0
  BY <1>4 DEF Idle
<1>6. got # 0 =>
        /\ q \in Pools /\ got \in pools[q].allocated /\ got \in Addresses /\ Len(mem[got]) >= n
        /\ \A i \in 1 .. Len(pools[q].unused) : pools[q].unused[i].ptr # got
        /\ \A s \in Slots : arrays[s].pool = q => arrays[s].pointer # got
        /\ \A u \in Threads : u # t => running[u].got # got
  BY GotBlock
<1>7. got # 0 => ~pools[q].destroyed /\ running[t].got = got
  BY DEF Ready
<1>8. got = 0 => running[t].got = 0
  <2>1. CallReady(t)
    BY DEF MemoryInv, CallsReady
  <2> QED
    BY <2>1 DEF Ready, CallReady
<1> QED
  BY <1>1, <1>2, <1>3, <1>4, <1>5, <1>6, <1>7, <1>8 DEF Hands

(* and keeps the invariant.                                                *)
LEMMA BuildKeeps ==
  ASSUME MemoryInv, NEW t \in Threads, NEW plan, NEW got, Ready(t, plan, got), Build(t, plan, got)
  PROVE  MemoryInv'
<1>0. Typed /\ Sized /\ Owned /\ WorkOwn /\ WordsKept /\ PlanReady(t, plan)
  BY DEF MemoryInv, Ready
<1>1. PICK d, q, n, from : d = plan.dest /\ q = plan.pool /\ n = plan.len /\ from = plan.from
  OBVIOUS
<1>2. Hands(t, d, got, q, n)
  BY <1>1, BuildHands
<1>3. d \in Slots /\ ThreadOf(d) = t /\ n \in Nat /\ plan.device \in BOOLEAN
  BY <1>0, <1>1, PlanFields DEF PlanReady
<1>4. Owned' /\ CallsReady' /\ \A u \in Threads : Foot(u) \subseteq Foot(u)'
  BY <1>2, <1>3, HandsKeeps
<1>5. /\ arrays' = [s \in Slots |-> arrays'[s]] /\ ArrayLike(arrays'[d])
      /\ arrays'[d].pointer = got /\ arrays'[d].len = n /\ arrays'[d].device = plan.device /\ arrays'[d].pool = q
      /\ ~plan.device => /\ arrays'[d].words = [i \in 1 .. n |-> arrays'[d].words[i]]
                         /\ \A i \in 1 .. n : arrays'[d].words[i] = FillWord(plan, Holds(t, from)[i], i)
      /\ \A s \in Slots : s # d => arrays'[s] = arrays[s]
  <2>1. /\ arrays' = [s \in Slots |-> arrays'[s]] /\ ArrayLike(arrays'[plan.dest])
        /\ arrays'[plan.dest].pointer = got /\ arrays'[plan.dest].len = plan.len
        /\ arrays'[plan.dest].device = plan.device /\ arrays'[plan.dest].pool = plan.pool
        /\ ~plan.device =>
             /\ arrays'[plan.dest].words = [i \in 1 .. plan.len |-> arrays'[plan.dest].words[i]]
             /\ \A i \in 1 .. plan.len : arrays'[plan.dest].words[i] = FillWord(plan, Holds(t, plan.from)[i], i)
        /\ \A s \in Slots : s # plan.dest => arrays'[s] = arrays[s]
    BY BuiltArrays
  <2> QED
    BY <1>1, <2>1
<1>6. /\ meant' = [s \in Slots |-> meant'[s]] /\ meant'[d] = [i \in 1 .. n |-> meant'[d][i]]
      /\ \A i \in 1 .. n : meant'[d][i] = FillWord(plan, meant[from][i], i)
      /\ \A s \in Slots : s # d => meant'[s] = meant[s]
      /\ ~fault' /\ running' \in [Threads -> CallStates]
  <2>1. /\ meant' = [s \in Slots |-> meant'[s]]
        /\ meant'[plan.dest] = [i \in 1 .. plan.len |-> meant'[plan.dest][i]]
        /\ \A i \in 1 .. plan.len : meant'[plan.dest][i] = FillWord(plan, meant[plan.from][i], i)
        /\ \A s \in Slots : s # plan.dest => meant'[s] = meant[s]
        /\ ~fault' /\ running' \in [Threads -> CallStates]
    BY BuiltRest
  <2> QED
    BY <1>1, <2>1
<1>7. SameShape(mem, mem') /\ Working(streams') /\ SteadyBut(got)
  BY BuiltOnDevice, BuiltElsewhere
<1>8. /\ got # 0 <=> plan.device /\ n > 0
      /\ got # 0 => q \in Pools /\ got \in pools[q].allocated /\ ~pools[q].destroyed
  <2>1. got # 0 => plan.device /\ plan.len > 0 /\ ~pools[plan.pool].destroyed
    BY DEF Ready
  <2>2. got = 0 => ~(plan.device /\ plan.len > 0)
    BY DEF Ready
  <2>3. got # 0 => plan.pool \in Pools /\ got \in pools[plan.pool].allocated
    BY GotBlock
  <2> QED
    BY <1>1, <2>1, <2>2, <2>3
<1>9. Typed'
  <2>1. \A s \in Slots : ArrayLike(arrays'[s])
    BY <1>0, <1>5 DEF Typed
  <2>2. pools' \in [Pools -> PoolStates]
    BY <1>2 DEF Hands, Returned
  <2>3. Blocks(mem') /\ DOMAIN mem' \subseteq Addresses
    BY <1>0, <1>7 DEF SameShape, Typed
  <2>4. streams' = [u \in Threads |-> streams'[u]] /\ \A u \in Threads : List(streams'[u])
    BY <1>7 DEF Working
  <2> QED
    BY <1>5, <1>6, <2>1, <2>2, <2>3, <2>4 DEF Typed
<1>10. Sized'
  <2> SUFFICES ASSUME NEW s \in Slots PROVE SizedAt(s)'
    BY DEF Sized
  <2>1. CASE s = d
    BY <1>5, <1>6, <1>8, <2>1 DEF SizedAt
  <2>2. CASE s # d
    <3>1. SizedAt(s) /\ arrays'[s] = arrays[s] /\ meant'[s] = meant[s]
      BY <1>0, <1>5, <1>6, <2>2 DEF Sized
    <3> QED
      BY <3>1 DEF SizedAt
  <2> QED
    BY <2>1, <2>2
<1>11. WorkOwn'
  <2> SUFFICES ASSUME NEW u \in Threads PROVE Within(streams'[u], Foot(u)')
    BY DEF WorkOwn
  <2>1. Within(streams'[u], Foot(u)) /\ Foot(u) \subseteq Foot(u)'
    BY <1>4, <1>7 DEF Working
  <2> DEFINE F == Foot(u)
             G == Foot(u)'
  <2>2. Within(streams'[u], F) /\ F \subseteq G
    BY <2>1
  <2> HIDE DEF F, G
  <2>3. Within(streams'[u], G)
    BY <2>2 DEF Within
  <2> QED
    BY <2>3 DEF G
<1>12. WordsKept'
  <2>1. ASSUME NEW s \in Slots, s # d PROVE KeptAt(s)'
    <3>1. arrays'[s] = arrays[s] /\ meant'[s] = meant[s] /\ ThreadOf(s) \in Threads
      BY <1>5, <1>6, <2>1, Names
    <3>2. ASSUME NEW a \in Foot(ThreadOf(s)), a # got \/ pools[q].destroyed
          PROVE  Value(ThreadOf(s), a)' = Value(ThreadOf(s), a)
      <4>1. a # 0
        BY <1>0, <3>2, Names DEF Foot, Typed
      <4>2. a # got
        BY <1>8, <3>2, <4>1
      <4> QED
        BY <1>7, <3>1, <4>2 DEF SteadyBut
    <3> QED
      BY <1>2, <1>3, <2>1, <3>1, <3>2, HandsOthers
  <2>2. KeptAt(d)'
    <3> SUFFICES ASSUME Usable(d)', arrays'[d].len > 0
                 PROVE  Agrees(IF arrays[d].device THEN Finished(mem, ThreadOf(d))[arrays[d].pointer]
                               ELSE arrays[d].words, d)'
      BY DEF KeptAt
    <3>1. DOMAIN meant'[d] = 1 .. n /\ n > 0
      BY <1>5, <1>6
    <3>2. CASE plan.device
      <4>1. got # 0
        BY <1>8, <3>1, <3>2
      <4>2. \A i \in 1 .. plan.len : FillWord(plan, meant[plan.from][i], i) \in {Garbage, Value(t, got)'[i]}
        BY <4>1, BuiltOnDevice
      <4>3. \A i \in DOMAIN meant'[d] : meant'[d][i] \in {Garbage, Value(t, got)'[i]}
        BY <1>1, <1>6, <3>1, <4>2
      <4>4. Value(t, got)' = Finished(mem, ThreadOf(d))'[arrays'[d].pointer] /\ arrays'[d].device
        BY <1>3, <1>5, <3>2 DEF Value, Finished
      <4> QED
        BY <4>3, <4>4 DEF Agrees
    <3>3. CASE ~plan.device
      <4>1. ASSUME NEW i \in 1 .. n PROVE meant'[d][i] \in {Garbage, arrays'[d].words[i]}
        <5>1. /\ meant'[d][i] = FillWord(plan, meant[from][i], i)
              /\ arrays'[d].words[i] = FillWord(plan, Holds(t, from)[i], i)
          BY <1>5, <1>6, <3>3
        <5>2. CASE i <= plan.take
          <6>1. plan.take \in Nat
            BY <1>0, PlanFields DEF PlanReady
          <6>2. plan.take # 0 /\ i \in 1 .. plan.take
            BY <1>3, <5>2, <6>1
          <6>3. meant[from][i] \in {Garbage, Holds(t, from)[i]}
            BY <1>0, <1>1, <6>2, SourceIs
          <6> QED
            BY <5>1, <5>2, <6>3 DEF FillWord
        <5>3. CASE ~(i <= plan.take)
          BY <5>1, <5>3 DEF FillWord
        <5> QED
          BY <5>2, <5>3
      <4>2. \A i \in DOMAIN meant'[d] : meant'[d][i] \in {Garbage, arrays'[d].words[i]}
        BY <3>1, <4>1
      <4>3. ~arrays'[d].device
        BY <1>5, <3>3
      <4> QED
        BY <4>2, <4>3 DEF Agrees
    <3> QED
      BY <3>2, <3>3
  <2> QED
    BY <2>1, <2>2 DEF WordsKept, KeptAt
<1> QED
  BY <1>4, <1>6, <1>9, <1>10, <1>11, <1>12 DEF MemoryInv

(* The end of a call that got its block keeps the invariant,               *)
LEMMA FinishKeeps ==
  ASSUME MemoryInv, NEW t \in Threads, Finish(t)
  PROVE  MemoryInv'
<1>1. PICK plan, got : plan = running[t].plan /\ got = running[t].got
  OBVIOUS
<1>2. CallReady(t) /\ running[t].stage = "build" /\ Build(t, plan, got)
  BY <1>1 DEF MemoryInv, CallsReady, Finish
<1>3. Ready(t, plan, got)
  BY <1>1, <1>2 DEF CallReady, Ready
<1> QED
  BY <1>2, <1>3, BuildKeeps

(* and so does its beginning.                                              *)
LEMMA BeginKeeps ==
  ASSUME MemoryInv, NEW t \in Threads, NEW plan, PlanReady(t, plan), Begin(t, plan)
  PROVE  MemoryInv'
<1>1. running[t].stage = "idle" /\ running[t].got = 0
  <2>1. CallReady(t) /\ running[t].stage = "idle"
    BY DEF MemoryInv, CallsReady, Begin, MayCall
  <2> QED
    BY <2>1 DEF CallReady
<1>2. CASE plan.device /\ plan.len > 0
  <2>1. /\ UNCHANGED <<arrays, mem, pools, streams, meant, fault>>
        /\ running' = [running EXCEPT ![t] =
              IF pools[plan.pool].denying \/ pools[plan.pool].destroyed THEN Idle
              ELSE [stage |-> "allocate", plan |-> plan, got |-> 0]]
    BY <1>2 DEF Begin
  <2>2. CASE pools[plan.pool].denying \/ pools[plan.pool].destroyed
    <3>1. running' = [running EXCEPT ![t] = Idle]
      BY <2>1, <2>2
    <3> QED
      BY <1>1, <2>1, <3>1, GivesUpKeeps
  <2>3. CASE ~(pools[plan.pool].denying \/ pools[plan.pool].destroyed)
    <3>1. PICK c : c = [stage |-> "allocate", plan |-> plan, got |-> 0]
      OBVIOUS
    <3>2. running' = [running EXCEPT ![t] = c]
      BY <2>1, <2>3, <3>1
    <3>3. c \in CallStates /\ c.got = 0 /\ c.stage = "allocate" /\ c.plan = plan
      BY <3>1 DEF CallStates, Stages, PlanReady
    <3>4. c.stage # "build" /\ PlanReady(t, c.plan) /\ c.plan.device /\ c.plan.len > 0 /\ ~pools[c.plan.pool].destroyed
      BY <1>2, <2>3, <3>3
    <3> QED
      BY <1>1, <2>1, <3>2, <3>3, <3>4, OnlyRunning
  <2> QED
    BY <2>2, <2>3
<1>3. CASE ~(plan.device /\ plan.len > 0)
  <2>1. PICK got : got = 0
    OBVIOUS
  <2>2. Build(t, plan, got)
    BY <1>3, <2>1 DEF Begin
  <2>3. Ready(t, plan, got)
    BY <1>1, <1>3, <2>1 DEF Ready
  <2> QED
    BY <2>2, <2>3, BuildKeeps
<1> QED
  BY <1>2, <1>3

-----------------------------------------------------------------------------
(* Every call that makes an array begins with a plan that is ready.        *)
LEMMA PlanIs ==
  ASSUME NEW t, NEW d \in Slots, ThreadOf(d) = t, NEW len \in Nat, NEW device \in BOOLEAN, NEW pool \in PoolNames,
         NEW from \in Slots \cup {0}, NEW take \in Nat, NEW rest \in {0, 1, Garbage},
         device => pool \in Pools /\ rest # 1, from = 0 => take = 0,
         from # 0 => ThreadOf(from) = t /\ Usable(from) /\ take <= len /\ take <= arrays[from].len
  PROVE  PlanReady(t, Plan(d, len, device, pool, from, take, rest))
<1> DEFINE plan == Plan(d, len, device, pool, from, take, rest)
<1>1. /\ plan.dest = d /\ plan.len = len /\ plan.device = device /\ plan.pool = pool
      /\ plan.from = from /\ plan.take = take /\ plan.rest = rest
  BY DEF Plan
<1>2. plan \in Plans
  BY Names DEF Plan, Plans, Slots
<1> HIDE DEF plan
<1>3. PlanReady(t, plan)
  BY <1>1, <1>2 DEF PlanReady
<1> QED
  BY <1>3 DEF plan

(* A new array's plan is ready:                                            *)
LEMMA NewPlan ==
  ASSUME NEW t \in Threads, NEW d \in Slots, ThreadOf(d) = t, NEW len \in NewLens, NEW device \in BOOLEAN,
         NEW pool \in PoolNames, NEW rest \in {0, 1, Garbage}, device => pool \in Pools /\ rest # 1
  PROVE  PlanReady(t, Plan(d, len, device, pool, 0, 0, rest))
<1>1. len \in Nat /\ 0 \in Nat /\ 0 \in Slots \cup {0}
  BY MemoryAssumption
<1> QED
  BY <1>1, PlanIs

(* a copy's,                                                               *)
LEMMA CopyPlan ==
  ASSUME MemoryInv, NEW t \in Threads, NEW d \in Slots, ThreadOf(d) = t, NEW s \in Slots, ThreadOf(s) = t, Usable(s),
         NEW device \in BOOLEAN, NEW pool \in PoolNames, device => pool \in Pools
  PROVE  PlanReady(t, Plan(d, arrays[s].len, device, pool, s, arrays[s].len, Garbage))
<1>1. PICK n : n = arrays[s].len /\ n \in Nat
  BY ArrayFields DEF MemoryInv
<1>2. Garbage \in {0, 1, Garbage} /\ Garbage # 1 /\ s \in Slots \cup {0} /\ s # 0 /\ n <= n
  BY <1>1, Names DEF Garbage
<1>3. PlanReady(t, Plan(d, n, device, pool, s, n, Garbage))
  BY <1>1, <1>2, PlanIs
<1> QED
  BY <1>1, <1>3

(* a resize's,                                                             *)
LEMMA ResizePlan ==
  ASSUME MemoryInv, NEW t \in Threads, NEW d \in Slots, ThreadOf(d) = t, Usable(d), ~MovedFrom(d),
         NEW n \in Lens, NEW zeros \in BOOLEAN, NEW copy \in BOOLEAN
  PROVE  PlanReady(t, resize_internal(d, n, zeros, copy))
<1>1. PICK len, device, pool : /\ len = arrays[d].len /\ device = arrays[d].device /\ pool = arrays[d].pool
                               /\ len \in Nat /\ device \in BOOLEAN /\ pool \in PoolNames
  BY ArrayFields DEF MemoryInv
<1>2. n \in Nat /\ (device => pool \in Pools)
  BY <1>1, MemoryAssumption DEF MovedFrom, PoolNames
<1>3. PICK take : take = IF copy THEN Min({n, len}) ELSE 0
  OBVIOUS
<1>4. take \in Nat /\ take <= n /\ take <= len
  <2>1. CASE copy
    <3>1. \E x \in {n, len} : \A y \in {n, len} : x <= y
      BY <1>1, <1>2, n <= len \/ len <= n
    <3>2. take \in {n, len} /\ \A y \in {n, len} : take <= y
      BY <1>3, <2>1, <3>1 DEF Min
    <3> QED
      BY <1>1, <1>2, <3>2
  <2>2. CASE ~copy
    BY <1>1, <1>2, <1>3, <2>2
  <2> QED
    BY <2>1, <2>2
<1>5. PICK rest : rest = IF zeros THEN 0 ELSE Garbage
  OBVIOUS
<1>6. rest \in {0, 1, Garbage} /\ rest # 1
  BY <1>5 DEF Garbage
<1>7. d \in Slots \cup {0} /\ d # 0
  BY Names
<1>8. PlanReady(t, Plan(d, n, device, pool, d, take, rest))
  BY <1>1, <1>2, <1>4, <1>6, <1>7, PlanIs
<1> QED
  BY <1>1, <1>3, <1>5, <1>8 DEF resize_internal

(* and that of a copy to the host.                                         *)
LEMMA HostPlan ==
  ASSUME MemoryInv, NEW t \in Threads, NEW d \in Slots, ThreadOf(d) = t, NEW s \in Slots, ThreadOf(s) = t, Usable(s)
  PROVE  PlanReady(t, to_host(d, s))
<1>1. NoPool \in PoolNames
  BY DEF PoolNames
<1>2. PlanReady(t, Plan(d, arrays[s].len, FALSE, NoPool, s, arrays[s].len, Garbage))
  BY <1>1, CopyPlan
<1>3. arrays[s].device \in BOOLEAN
  BY ArrayFields DEF MemoryInv
<1>4. CASE arrays[s].device
  BY <1>2, <1>4 DEF to_host
<1>5. CASE ~arrays[s].device
  <2>1. arrays[s].device = FALSE
    BY <1>3, <1>5
  <2>2. to_host(d, s) = Plan(d, arrays[s].len, arrays[s].device, NoPool, s, arrays[s].len, Garbage)
    BY <1>5 DEF to_host, clone
  <2> QED
    BY <1>2, <2>1, <2>2
<1> QED
  BY <1>4, <1>5

(* Every call that makes an array keeps the invariant,                     *)
LEMMA MakeKeeps ==
  ASSUME MemoryInv, NEW t \in Threads, Make(t)
  PROVE  MemoryInv'
<1>1. PoolsOf(t) \subseteq Pools /\ \A p \in PoolsOf(t) : p \in PoolNames
  BY MemoryAssumption DEF PoolsOf, PoolNames
<1>2. ASSUME NEW plan, PlanReady(t, plan), Begin(t, plan) PROVE MemoryInv'
  BY <1>2, BeginKeeps
<1>3. PICK d \in Slots : ThreadOf(d) = t /\
    \/ \E n \in NewLens, p \in PoolsOf(t) :
         Begin(t, Constructed(d, n, TRUE, p)) \/ Begin(t, create_uninitialized(d, n, TRUE, p))
    \/ \E n \in NewLens : Begin(t, from_vector(d, n)) \/ Begin(t, Constructed(d, n, FALSE, NoPool))
    \/ \E s \in Slots : ThreadOf(s) = t /\ Usable(s) /\
         \/ Begin(t, to_host(d, s))
         \/ \E p \in PoolsOf(t) : Begin(t, clone(d, s, p)) \/ Begin(t, to_device(d, s, p))
         \/ \E p \in PoolsOf(t), device \in BOOLEAN : Begin(t, create_and_copy_from_slice(d, s, device, p))
    \/ /\ Usable(d)
       /\ \/ arrays[d].device /\ Begin(t, to_host_inplace(d))
          \/ \E p \in PoolsOf(t) :
               \/ (arrays[d].device => p # arrays[d].pool) /\ Begin(t, to_device_inplace(d, p))
               \/ arrays[d].device /\ Begin(t, to_pool_inplace(d, p))
          \/ ~MovedFrom(d) /\ \E n \in Lens \ {arrays[d].len}, zeros, copy \in BOOLEAN :
               (zeros \/ copy) /\ Begin(t, resize_internal(d, n, zeros, copy))
  BY DEF Make
<1>4. NoPool \in PoolNames /\ TRUE \in BOOLEAN /\ FALSE \in BOOLEAN
  BY DEF PoolNames
<1>5. ASSUME NEW n \in NewLens, NEW p \in PoolsOf(t),
             Begin(t, Constructed(d, n, TRUE, p)) \/ Begin(t, create_uninitialized(d, n, TRUE, p))
      PROVE  MemoryInv'
  <2>1. PICK a, b : a = Constructed(d, n, TRUE, p) /\ b = create_uninitialized(d, n, TRUE, p)
    OBVIOUS
  <2>2. a = Plan(d, n, TRUE, p, 0, 0, 0) /\ b = Plan(d, n, TRUE, p, 0, 0, Garbage)
    BY <2>1 DEF Constructed, create_uninitialized
  <2>3. 0 # 1 /\ Garbage # 1
    BY DEF Garbage
  <2>4. PlanReady(t, a) /\ PlanReady(t, b)
    BY <1>1, <1>3, <2>2, <2>3, NewPlan
  <2>5. Begin(t, a) \/ Begin(t, b)
    BY <1>5, <2>1
  <2> QED
    BY <1>2, <2>4, <2>5
<1>6. ASSUME NEW n \in NewLens, Begin(t, from_vector(d, n)) \/ Begin(t, Constructed(d, n, FALSE, NoPool))
      PROVE  MemoryInv'
  <2>1. PICK a, b : a = from_vector(d, n) /\ b = Constructed(d, n, FALSE, NoPool)
    OBVIOUS
  <2>2. a = Plan(d, n, FALSE, NoPool, 0, 0, 1) /\ b = Plan(d, n, FALSE, NoPool, 0, 0, 0)
    BY <2>1 DEF Constructed, from_vector
  <2>3. PlanReady(t, a) /\ PlanReady(t, b)
    BY <1>3, <1>4, <2>2, NewPlan
  <2>4. Begin(t, a) \/ Begin(t, b)
    BY <1>6, <2>1
  <2> QED
    BY <1>2, <2>3, <2>4
<1>7. ASSUME NEW s \in Slots, ThreadOf(s) = t, Usable(s), NEW p \in PoolsOf(t), NEW device \in BOOLEAN,
             \/ Begin(t, clone(d, s, p)) \/ Begin(t, to_device(d, s, p))
             \/ Begin(t, create_and_copy_from_slice(d, s, device, p))
      PROVE  MemoryInv'
  <2>1. PICK a, b, c : a = clone(d, s, p) /\ b = to_device(d, s, p) /\ c = create_and_copy_from_slice(d, s, device, p)
    OBVIOUS
  <2>2. PICK dev, q : dev = arrays[s].device /\ dev \in BOOLEAN /\ q = IF device THEN p ELSE NoPool
    BY ArrayFields DEF MemoryInv
  <2>3. q \in PoolNames /\ (device => q \in Pools) /\ p \in Pools /\ p \in PoolNames
    BY <1>1, <1>4, <2>2
  <2>4. PlanReady(t, Plan(d, arrays[s].len, dev, p, s, arrays[s].len, Garbage))
    BY <1>3, <1>7, <2>2, <2>3, CopyPlan
  <2>5. PlanReady(t, Plan(d, arrays[s].len, TRUE, p, s, arrays[s].len, Garbage))
    BY <1>3, <1>4, <1>7, <2>3, CopyPlan
  <2>6. PlanReady(t, Plan(d, arrays[s].len, device, q, s, arrays[s].len, Garbage))
    BY <1>3, <1>7, <2>3, CopyPlan
  <2>7. PlanReady(t, a) /\ PlanReady(t, b) /\ PlanReady(t, c)
    BY <2>1, <2>2, <2>4, <2>5, <2>6 DEF clone, to_device, create_and_copy_from_slice
  <2>8. Begin(t, a) \/ Begin(t, b) \/ Begin(t, c)
    BY <1>7, <2>1
  <2> QED
    BY <1>2, <2>7, <2>8
<1>8. ASSUME NEW s \in Slots, ThreadOf(s) = t, Usable(s), Begin(t, to_host(d, s)) PROVE MemoryInv'
  <2>1. PICK a : a = to_host(d, s)
    OBVIOUS
  <2>2. PlanReady(t, a) /\ Begin(t, a)
    BY <1>3, <1>8, <2>1, HostPlan
  <2> QED
    BY <1>2, <2>2
<1>9. ASSUME Usable(d), Begin(t, to_host_inplace(d)) PROVE MemoryInv'
  BY <1>3, <1>8, <1>9 DEF to_host_inplace
<1>10. ASSUME Usable(d), NEW p \in PoolsOf(t), Begin(t, to_device_inplace(d, p)) \/ Begin(t, to_pool_inplace(d, p))
       PROVE  MemoryInv'
  <2>1. PICK a, b : a = to_device_inplace(d, p) /\ b = to_pool_inplace(d, p)
    OBVIOUS
  <2>2. PlanReady(t, Plan(d, arrays[d].len, TRUE, p, d, arrays[d].len, Garbage))
    BY <1>1, <1>3, <1>4, <1>10, CopyPlan
  <2>3. PlanReady(t, a) /\ PlanReady(t, b)
    BY <2>1, <2>2 DEF to_device_inplace, to_pool_inplace, to_device
  <2>4. Begin(t, a) \/ Begin(t, b)
    BY <1>10, <2>1
  <2> QED
    BY <1>2, <2>3, <2>4
<1>11. ASSUME Usable(d), ~MovedFrom(d), NEW n \in Lens, NEW zeros \in BOOLEAN, NEW copy \in BOOLEAN,
              Begin(t, resize_internal(d, n, zeros, copy))
       PROVE  MemoryInv'
  <2>1. PICK a : a = resize_internal(d, n, zeros, copy)
    OBVIOUS
  <2>2. PlanReady(t, a) /\ Begin(t, a)
    BY <1>3, <1>11, <2>1, ResizePlan
  <2> QED
    BY <1>2, <2>2
<1> QED
  BY <1>3, <1>5, <1>6, <1>7, <1>8, <1>9, <1>10, <1>11

-----------------------------------------------------------------------------
(* The invariant holds at first, and every step keeps it.                  *)
LEMMA InitInv == ASSUME MemoryInit PROVE MemoryInv
<1> USE DEF MemoryInit
<1>1. /\ Array.pointer = 0 /\ Array.len = 0 /\ Array.device = FALSE /\ Array.pool = NoPool /\ Array.words = << >>
      /\ ArrayLike(Array)
  BY DEF Array, ArrayLike, PoolNames
<1>2. \A s \in Slots : arrays[s] = Array /\ meant[s] = << >>
  OBVIOUS
<1>3. /\ Pool0 \in PoolStates /\ Pool0.unused = << >> /\ Pool0.allocated = {} /\ Pool0.destroyed = FALSE
      /\ \A p \in Pools : pools[p] = Pool0
  BY DEF Pool0, PoolStates
<1>4. Idle \in CallStates /\ Idle.got = 0 /\ Idle.stage = "idle" /\ \A t \in Threads : running[t] = Idle
  BY DEF Idle, Plan, CallStates, Plans, Stages, PoolNames
<1>5. DOMAIN mem = {} /\ Blocks(mem)
  <2>1. DOMAIN mem = {}
    BY ListEmpty
  <2>2. mem = [a \in {} |-> mem[a]]
    OBVIOUS
  <2> QED
    BY <2>1, <2>2 DEF Blocks, Table
<1>6. streams = [t \in Threads |-> streams[t]] /\ \A t \in Threads : streams[t] = << >> /\ List(streams[t])
  BY ListEmpty DEF Drained
<1>7. Len(<< >>) = 0 /\ << >> = [i \in 1 .. 0 |-> << >>[i]]
  OBVIOUS
<1> HIDE DEF MemoryInit
<1>8. Typed
  <2>1. arrays = [s \in Slots |-> arrays[s]] /\ meant = [s \in Slots |-> meant[s]]
    BY DEF MemoryInit
  <2>2. pools \in [Pools -> PoolStates] /\ running \in [Threads -> CallStates]
    BY <1>3, <1>4 DEF MemoryInit
  <2> QED
    BY <1>1, <1>2, <1>5, <1>6, <2>1, <2>2 DEF Typed
<1>9. Sized
  BY <1>1, <1>2, <1>7 DEF Sized, SizedAt
<1>10. Owned
  <2>1. BlocksOwned
    BY <1>3, <1>5 DEF BlocksOwned
  <2>2. UnusedOwned
    BY <1>3, <1>7 DEF UnusedOwned
  <2>3. ArraysOwned
    BY <1>1, <1>2 DEF ArraysOwned, ArrayOwned
  <2>4. CallsOwned
    BY <1>4 DEF CallsOwned, CallOwned
  <2>5. NoneLost
    BY <1>3 DEF NoneLost
  <2> QED
    BY <2>1, <2>2, <2>3, <2>4, <2>5 DEF Owned
<1>11. CallsReady
  BY <1>4 DEF CallsReady, CallReady
<1>12. WorkOwn
  BY <1>6, <1>7 DEF WorkOwn, Within
<1>13. WordsKept
  BY <1>1, <1>2 DEF WordsKept
<1>14. ~fault
  BY DEF MemoryInit
<1> QED
  BY <1>8, <1>9, <1>10, <1>11, <1>12, <1>13, <1>14 DEF MemoryInv

(* every step inside such a call,                                          *)
LEMMA InsideKeeps ==
  ASSUME MemoryInv, NEW t \in Threads, Inside(t)
  PROVE  MemoryInv'
<1>1. CASE allocate(t)
  BY <1>1, AllocateKeeps
<1>2. CASE try_allocate(t)
  <2>1. running[t].stage = "try"
    BY <1>2 DEF try_allocate
  <2>2. CASE cudaMalloc(t)
    BY <2>1, <2>2, MallocKeeps
  <2>3. CASE ~cudaMalloc(t)
    <3>1. PICK stage \in {"try", "free", "again"} : stage = "free"
      OBVIOUS
    <3>2. Goes(t, stage) /\ UNCHANGED <<arrays, mem, pools, streams, meant, fault>>
      BY <1>2, <2>3, <3>1 DEF try_allocate
    <3> QED
      BY <2>1, <3>2, GoesKeeps
  <2> QED
    BY <2>2, <2>3
<1>3. CASE FreeAndTryAgain(t)
  BY <1>3, FreeAndTryAgainKeeps
<1>4. CASE TryAgain(t)
  <2>1. running[t].stage = "again"
    BY <1>4 DEF TryAgain
  <2>2. CASE cudaMalloc(t)
    BY <2>1, <2>2, MallocKeeps
  <2>3. CASE ~cudaMalloc(t)
    <3>1. running' = [running EXCEPT ![t] = Idle] /\ UNCHANGED <<arrays, mem, pools, streams, meant, fault>>
      BY <1>4, <2>3 DEF TryAgain
    <3>2. running[t].got = 0
      BY <2>1, CallFields DEF MemoryInv, CallsReady, CallReady
    <3> QED
      BY <3>1, <3>2, GivesUpKeeps
  <2> QED
    BY <2>2, <2>3
<1>5. CASE Finish(t)
  BY <1>5, FinishKeeps
<1> QED
  BY <1>1, <1>2, <1>3, <1>4, <1>5 DEF Inside

(* every call that uses arrays,                                            *)
LEMMA UseKeeps ==
  ASSUME MemoryInv, NEW t \in Threads, Use(t)
  PROVE  MemoryInv'
<1>1. ASSUME NEW d \in Slots, NEW s \in Slots, ThreadOf(d) = t, ThreadOf(s) = t, Move(t, d, s)
      PROVE  MemoryInv'
  BY <1>1, MoveKeeps
<1>2. ASSUME NEW d \in Slots, NEW s \in Slots, ThreadOf(d) = t, ThreadOf(s) = t, Usable(s), Usable(d), copy_from_slice(t, d, s)
      PROVE  MemoryInv'
  BY <1>2, CopyKeeps
<1>3. ASSUME NEW s \in Slots, ThreadOf(s) = t, Usable(s), set_zero(t, s) PROVE MemoryInv'
  BY <1>3, SetZeroKeeps
<1>4. ASSUME NEW s \in Slots, ThreadOf(s) = t, Usable(s), Launch(t, s) PROVE MemoryInv'
  BY <1>4, LaunchKeeps
<1> QED
  BY <1>1, <1>2, <1>3, <1>4 DEF Use

(* and every call to a pool.                                               *)
LEMMA ManageKeeps ==
  ASSUME MemoryInv, NEW t \in Threads, Manage(t)
  PROVE  MemoryInv'
<1>1. PICK p \in PoolsOf(t) : ReleaseUnused(t, p) \/ force_set_thread_id(t, p) \/ \E set \in BOOLEAN : deny(t, p, set)
  BY DEF Manage
<1>2. p \in Pools
  BY MemoryAssumption DEF PoolsOf
<1> QED
  BY <1>1, <1>2, ReleaseUnusedKeeps, ForceKeeps, DenyKeeps

(* Every step keeps the invariant.                                         *)
LEMMA NextInv == ASSUME MemoryInv, [MemoryNext]_memoryVars PROVE MemoryInv'
<1>1. ASSUME NEW t \in Threads, Inside(t) PROVE MemoryInv'
  BY <1>1, InsideKeeps
<1>2. ASSUME NEW t \in Threads, Make(t) PROVE MemoryInv'
  BY <1>2, MakeKeeps
<1>3. ASSUME NEW t \in Threads, Use(t) PROVE MemoryInv'
  BY <1>3, UseKeeps
<1>4. ASSUME NEW t \in Threads, Manage(t) PROVE MemoryInv'
  BY <1>4, ManageKeeps
<1>5. ASSUME NEW t \in Threads, Device(t) PROVE MemoryInv'
  BY <1>5, DeviceKeeps
<1>6. ASSUME NEW p \in Pools, destroy(p) PROVE MemoryInv'
  BY <1>6, DestroyKeeps
<1>7. CASE UNCHANGED memoryVars
  <2>1. arrays' = arrays /\ mem' = mem /\ pools' = pools /\ streams' = streams /\ running' = running
        /\ meant' = meant /\ fault' = fault
    BY <1>7 DEF memoryVars
  <2>2. SameShape(mem, mem') /\ (\A u \in Threads : \A a : Value(u, a)' = Value(u, a))
    BY <2>1, StayIs DEF MemoryInv
  <2>3. Sized' /\ Owned' /\ CallsReady' /\ \A t \in Threads : Foot(t)' = Foot(t)
    BY <2>1, <2>2, OwnersKept
  <2>4. WorkOwn'
    BY <2>1, <2>3, WorkFrame DEF MemoryInv
  <2>5. WordsKept'
    BY <2>1, WordsSame DEF MemoryInv
  <2> QED
    BY <2>1, <2>3, <2>4, <2>5 DEF MemoryInv, Typed
<1> QED
  BY <1>1, <1>2, <1>3, <1>4, <1>5, <1>6, <1>7 DEF MemoryNext

-----------------------------------------------------------------------------
(* Who holds a block: the invariant leaves one.                            *)
LEMMA HoldersAre ==
  ASSUME Typed, NEW ptr, NEW h
  PROVE  h \in Holders(ptr) <=>
           \/ \E s \in Slots : /\ h = <<"array", s>> /\ arrays[s].device /\ arrays[s].pointer = ptr
                               /\ ~pools[arrays[s].pool].destroyed
           \/ \E t \in Threads : h = <<"call", t>> /\ running[t].got = ptr
           \/ \E p \in Pools : \E i \in 1 .. Len(pools[p].unused) : h = <<p, i>> /\ pools[p].unused[i].ptr = ptr
<1>1. \A p \in Pools : DOMAIN pools[p].unused = 1 .. Len(pools[p].unused)
  BY PoolFields
<1>2. h \in {<<"array", s>> : s \in {s \in Slots : arrays[s].device /\ arrays[s].pointer = ptr
                                                   /\ ~pools[arrays[s].pool].destroyed}}
      <=> \E s \in Slots : /\ h = <<"array", s>> /\ arrays[s].device /\ arrays[s].pointer = ptr
                           /\ ~pools[arrays[s].pool].destroyed
  OBVIOUS
<1>3. h \in {<<"call", t>> : t \in {t \in Threads : running[t].got = ptr}}
      <=> \E t \in Threads : h = <<"call", t>> /\ running[t].got = ptr
  OBVIOUS
<1>4. h \in UNION {{<<p, i>> : i \in {i \in DOMAIN pools[p].unused : pools[p].unused[i].ptr = ptr}} : p \in Pools}
      <=> \E p \in Pools : \E i \in 1 .. Len(pools[p].unused) : h = <<p, i>> /\ pools[p].unused[i].ptr = ptr
  BY <1>1
<1> QED
  BY <1>2, <1>3, <1>4 DEF Holders

(* A holder of a block p owns: as an array, as a call, as an unused block. *)
LEMMA OneArray ==
  ASSUME Typed, Sized, Owned, NEW p \in Pools, NEW a \in pools[p].allocated, NEW s \in Slots,
         arrays[s].pointer = a, arrays[s].device, ~pools[arrays[s].pool].destroyed
  PROVE  /\ arrays[s].pool = p
         /\ \A r \in Slots : arrays[r].pointer = a /\ arrays[r].device /\ ~pools[arrays[r].pool].destroyed => r = s
         /\ \A t \in Threads : running[t].got # a
         /\ \A q \in Pools : \A i \in 1 .. Len(pools[q].unused) : pools[q].unused[i].ptr # a
<1>1. a \in Addresses /\ a # 0
  BY PoolFields, Names
<1>2. \A r \in Slots : arrays[r].pointer = a /\ ~pools[arrays[r].pool].destroyed => arrays[r].pool = p
  <2> SUFFICES ASSUME NEW r \in Slots, arrays[r].pointer = a, ~pools[arrays[r].pool].destroyed PROVE arrays[r].pool = p
    OBVIOUS
  <2>1. arrays[r].pool \in Pools /\ a \in pools[arrays[r].pool].allocated
    BY <1>1, InUse DEF Usable
  <2> QED
    BY <1>1, <2>1 DEF Owned, BlocksOwned
<1>3. ArrayOwned(s) /\ arrays[s].pool = p
  BY <1>2 DEF Owned, ArraysOwned
<1>4. \A r \in Slots : arrays[r].pointer = a /\ ~pools[arrays[r].pool].destroyed => r = s
  BY <1>1, <1>2, <1>3 DEF ArrayOwned
<1>5. \A t \in Threads : running[t].got # a
  BY <1>1, NotGot
<1>6. ASSUME NEW q \in Pools, NEW i \in 1 .. Len(pools[q].unused) PROVE pools[q].unused[i].ptr # a
  <2> SUFFICES ASSUME pools[q].unused[i].ptr = a PROVE FALSE
    OBVIOUS
  <2>1. a \in pools[q].allocated
    BY <1>6 DEF Owned, UnusedOwned
  <2>2. q = p
    BY <1>1, <2>1 DEF Owned, BlocksOwned
  <2> QED
    BY <1>1, <1>3, <2>2 DEF ArrayOwned
<1> QED
  BY <1>3, <1>4, <1>5, <1>6

(* A call's block is no other call's and not unused;                       *)
LEMMA OneCall ==
  ASSUME Typed, Sized, Owned, NEW p \in Pools, NEW a \in pools[p].allocated, NEW t \in Threads, running[t].got = a
  PROVE  /\ \A u \in Threads : running[u].got = a => u = t
         /\ \A q \in Pools : \A i \in 1 .. Len(pools[q].unused) : pools[q].unused[i].ptr # a
<1>1. a \in Addresses /\ a # 0
  BY PoolFields, Names
<1>2. CallOwned(t)
  BY DEF Owned, CallsOwned
<1>3. running[t].plan.pool = p
  BY <1>1, <1>2 DEF CallOwned, Owned, BlocksOwned
<1>4. ASSUME NEW q \in Pools, NEW i \in 1 .. Len(pools[q].unused) PROVE pools[q].unused[i].ptr # a
  <2> SUFFICES ASSUME pools[q].unused[i].ptr = a PROVE FALSE
    OBVIOUS
  <2>1. a \in pools[q].allocated
    BY <1>4 DEF Owned, UnusedOwned
  <2>2. q = p
    BY <1>1, <2>1 DEF Owned, BlocksOwned
  <2> QED
    BY <1>1, <1>2, <1>3, <2>2 DEF CallOwned
<1> QED
  BY <1>1, <1>2, <1>4 DEF CallOwned

(* an unused block is listed once;                                         *)
LEMMA OneUnused ==
  ASSUME Typed, Sized, Owned, NEW p \in Pools, NEW a \in pools[p].allocated,
         NEW i \in 1 .. Len(pools[p].unused), pools[p].unused[i].ptr = a
  PROVE  \A q \in Pools : \A j \in 1 .. Len(pools[q].unused) : pools[q].unused[j].ptr = a => q = p /\ j = i
<1>1. a \in Addresses
  BY PoolFields
<1> SUFFICES ASSUME NEW q \in Pools, NEW j \in 1 .. Len(pools[q].unused), pools[q].unused[j].ptr = a
             PROVE  q = p /\ j = i
  OBVIOUS
<1>2. a \in pools[q].allocated
  BY DEF Owned, UnusedOwned
<1>3. q = p
  BY <1>1, <1>2 DEF Owned, BlocksOwned
<1> QED
  BY <1>3 DEF Owned, UnusedOwned

Only(S, h) == \A x : x \in S <=> x = h
(* a set with exactly one element has the size one:                        *)
LEMMA OnlyOne ==
  ASSUME NEW S, NEW h, Only(S, h)
  PROVE  Cardinality(S) = 1
<1>1. S = {h}
  BY DEF Only
<1> QED
  BY <1>1, FS_Singleton

(* every block is in one hand.                                             *)
LEMMA HeldOnce ==
  ASSUME MemoryInv, NEW p \in Pools, NEW ptr \in pools[p].allocated
  PROVE  Cardinality(Holders(ptr)) = 1
<1>0. Typed /\ Sized /\ Owned /\ ptr \in Addresses /\ ptr # 0 /\ ~pools[p].destroyed
  <2>1. Typed /\ Sized /\ Owned
    BY DEF MemoryInv
  <2> QED
    BY <2>1, PoolFields, Names DEF Owned, BlocksOwned
<1>2. HeldBy(p, ptr)
  BY <1>0 DEF Owned, NoneLost
<1>3. CASE \E s \in Slots : arrays[s].pointer = ptr /\ arrays[s].pool = p
  <2>1. PICK s \in Slots : arrays[s].pointer = ptr /\ arrays[s].pool = p
    BY <1>3
  <2>2. arrays[s].device /\ ~pools[arrays[s].pool].destroyed
    BY <1>0, <2>1, InUse DEF Usable
  <2>3. /\ \A r \in Slots : arrays[r].pointer = ptr /\ arrays[r].device /\ ~pools[arrays[r].pool].destroyed => r = s
        /\ \A t \in Threads : running[t].got # ptr
        /\ \A q \in Pools : \A i \in 1 .. Len(pools[q].unused) : pools[q].unused[i].ptr # ptr
    BY <1>0, <2>1, <2>2, OneArray
  <2>4. \A x : x \in Holders(ptr) <=> x = <<"array", s>>
    BY <1>0, <2>1, <2>2, <2>3, HoldersAre
  <2>5. PICK S, h : S = Holders(ptr) /\ h = <<"array", s>>
    OBVIOUS
  <2>6. Only(S, h)
    BY <2>4, <2>5 DEF Only
  <2>7. Cardinality(S) = 1
    BY <2>6, OnlyOne
  <2> QED
    BY <2>5, <2>7
<1>4. CASE \E t \in Threads : running[t].got = ptr
  <2>1. PICK t \in Threads : running[t].got = ptr
    BY <1>4
  <2>2. /\ \A u \in Threads : running[u].got = ptr => u = t
        /\ \A q \in Pools : \A i \in 1 .. Len(pools[q].unused) : pools[q].unused[i].ptr # ptr
    BY <1>0, <2>1, OneCall
  <2>3. \A s \in Slots : ~(arrays[s].device /\ arrays[s].pointer = ptr /\ ~pools[arrays[s].pool].destroyed)
    BY <1>0, <2>1, OneArray
  <2>4. \A x : x \in Holders(ptr) <=> x = <<"call", t>>
    BY <1>0, <2>1, <2>2, <2>3, HoldersAre
  <2>5. PICK S, h : S = Holders(ptr) /\ h = <<"call", t>>
    OBVIOUS
  <2>6. Only(S, h)
    BY <2>4, <2>5 DEF Only
  <2>7. Cardinality(S) = 1
    BY <2>6, OnlyOne
  <2> QED
    BY <2>5, <2>7
<1>5. CASE \E i \in 1 .. Len(pools[p].unused) : pools[p].unused[i].ptr = ptr
  <2>1. PICK i \in 1 .. Len(pools[p].unused) : pools[p].unused[i].ptr = ptr
    BY <1>5
  <2>2. \A q \in Pools : \A j \in 1 .. Len(pools[q].unused) : pools[q].unused[j].ptr = ptr => q = p /\ j = i
    BY <1>0, <2>1, OneUnused
  <2>3. \A s \in Slots : ~(arrays[s].device /\ arrays[s].pointer = ptr /\ ~pools[arrays[s].pool].destroyed)
    BY <1>0, <2>1, OneArray
  <2>4. \A t \in Threads : running[t].got # ptr
    BY <1>0, <2>1, OneCall
  <2>5. \A x : x \in Holders(ptr) <=> x = <<p, i>>
    BY <1>0, <2>1, <2>2, <2>3, <2>4, HoldersAre
  <2>6. PICK S, h : S = Holders(ptr) /\ h = <<p, i>>
    OBVIOUS
  <2>7. Only(S, h)
    BY <2>5, <2>6 DEF Only
  <2>8. Cardinality(S) = 1
    BY <2>7, OnlyOne
  <2> QED
    BY <2>6, <2>8
<1> QED
  BY <1>2, <1>3, <1>4, <1>5 DEF HeldBy

(* The invariant says all that is claimed.                                 *)
LEMMA InvSafe == ASSUME MemoryInv PROVE MemorySafe
<1>0. Typed /\ Sized /\ Owned /\ BlocksOwned
  BY DEF MemoryInv, Owned
<1>1. DOMAIN mem = UNION {pools[p].allocated : p \in Pools}
  <2>1. DOMAIN mem \subseteq Addresses /\ \A p \in Pools : pools[p].allocated \subseteq Addresses
    BY <1>0, PoolFields DEF Typed
  <2>2. \A a : a \in DOMAIN mem <=> \E p \in Pools : a \in pools[p].allocated
    BY <1>0, <2>1 DEF BlocksOwned
  <2>3. \A a : a \in UNION {pools[p].allocated : p \in Pools} <=> \E p \in Pools : a \in pools[p].allocated
    OBVIOUS
  <2> QED
    BY <2>2, <2>3
<1>2. \A p, q \in Pools : p # q => pools[p].allocated \cap pools[q].allocated = {}
  BY <1>0, PoolFields DEF BlocksOwned
<1>3. \A ptr \in DOMAIN mem : Cardinality(Holders(ptr)) = 1
  BY <1>1, HeldOnce
<1>4. \A s \in Slots : arrays[s].device /\ arrays[s].pointer # 0 =>
        IF pools[arrays[s].pool].destroyed THEN arrays[s].pointer \in pools[arrays[s].pool].zombie
        ELSE arrays[s].pointer \in pools[arrays[s].pool].allocated /\ Len(mem[arrays[s].pointer]) >= arrays[s].len
  BY <1>0 DEF Owned, ArraysOwned, ArrayOwned
<1>5. OneHolder
  BY <1>1, <1>2, <1>3, <1>4 DEF OneHolder
<1> QED
  BY <1>5 DEF MemoryInv, MemorySafe

(* box.h, memory_pool_safe.in: whatever the threads, pools, lengths and    *)
(* calls, no block of the device is in two hands or lost, an array holds   *)
(* what the program put there however late the streams run, and giving a   *)
(* block back never throws, after its pool was destroyed neither.          *)
THEOREM MemoryIsSafe == MemorySpec => []MemorySafe
<1>1. MemoryInit => MemoryInv
  BY InitInv
<1>2. MemoryInv /\ [MemoryNext]_memoryVars => MemoryInv'
  BY NextInv
<1>3. MemoryInv => MemorySafe
  BY InvSafe
<1> QED
  BY <1>1, <1>2, <1>3, PTL DEF MemorySpec
=============================================================================

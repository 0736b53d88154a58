-------------------------- MODULE OneSVClientProofs --------------------------
(***************************************************************************)
(* For every database shape, every PRF and every sequence of queries: the  *)
(* hints stay sound and every query that found a hint gets its entry.      *)
(***************************************************************************)
EXTENDS OneSVClient, FiniteSetTheorems, TLAPS

(* Lemmas about formal sums. *)

(* A sum of distinct entries is a formal sum, and so are sums and          *)
(* differences of formal sums.                                             *)
LEMMA SumTypes ==
  /\ Zero \in FormalSum
  /\ \A S : Sum(S) \in FormalSum
  /\ \A x, y \in FormalSum : Add(x, y) \in FormalSum /\ Sub(x, y) \in FormalSum
BY DEF Zero, FormalSum, Sum, Add, Sub

(* Adding an entry that is not in a sum yet. *)
LEMMA AddUnit ==
  ASSUME NEW S, NEW e \in Entries, e \notin S
  PROVE  Add(Sum(S), Unit(e)) = Sum(S \cup {e})
BY DEF Add, Sum, Unit

(* Taking all entries but one away from a sum leaves that one. *)
LEMMA SubAllButOne ==
  ASSUME NEW S, NEW e \in Entries, e \in S
  PROVE  Sub(Sum(S), Sum(S \ {e})) = Unit(e)
BY DEF Sub, Sum, Unit

(* Adding nothing to a sum (a partition a hint takes no entry of). *)
LEMMA AddZero ==
  ASSUME NEW x \in FormalSum PROVE Add(x, Zero) = x
BY DEF Add, Zero, FormalSum

-----------------------------------------------------------------------------
(* Lemmas about the PRF. *)

(* Reduced PRF outputs are offsets and partitions. *)
LEMMA ModType ==
  ASSUME NEW n \in Nat
  PROVE  n % PartSize \in Offsets /\ n % PartNum \in Parts
BY SizeAssumption DEF Offsets, Parts

(* PRF4Idx gives a number, and an offset once it is masked. *)
LEMMA PrfTypes ==
  ASSUME NEW p \in PrfTable, NEW h \in HintIds, NEW k \in Parts
  PROVE  /\ p.v[h][k] \in Nat /\ p.r[h][k] \in Nat
         /\ PRF4Idx(p, h, k) % PartSize \in Offsets
BY ModType DEF PrfTable, PRF4Idx

(* PRF4Select gives a bit. *)
LEMMA SelectType ==
  \A p, h, k, c : PRF4Select(p, h, k, c) \in Bit
BY DEF PRF4Select, Bit

(* Every draw of NextDummyIdx is a number. *)
LEMMA DummyType ==
  ASSUME NEW p \in PrfTable, NEW n \in Nat
  PROVE  DummyIdx(p, n) \in Nat
<1>1. n % DummyPeriod \in 0 .. DummyPeriod - 1
  BY PrfAssumption
<1> QED
  BY <1>1 DEF DummyIdx, PrfTable

(* FindCutoff gives a number: a value of the row, or 0. *)
LEMMA FindCutoffType ==
  ASSUME NEW row \in [Parts -> Nat] PROVE FindCutoff(row) \in Nat
<1> DEFINE below(c) == {k \in Parts : row[k] < c}
           lower    == below(LowerFilter)
           upper    == {k \in Parts : row[k] > UpperFilter}
           median   == {k \in Parts \ (lower \cup upper) :
                          /\ Cardinality(below(row[k])) = PartNum \div 2
                          /\ \A j \in Parts \ {k} : row[j] # row[k]}
<1>1. median # {} => (CHOOSE k \in median : TRUE) \in Parts
  <2>1. median \subseteq Parts
    OBVIOUS
  <2> HIDE DEF median
  <2> QED BY <2>1
<1>2. median # {} => row[CHOOSE k \in median : TRUE] \in Nat
  BY <1>1
<1> QED
  BY <1>2 DEF FindCutoff

(* A partition holds at most one entry of a hint's selection. *)
LEMMA SelectedOnce ==
  ASSUME NEW p, NEW h, NEW c, NEW b, NEW e \in Entries
  PROVE  e \in Selected(p, h, c, b) <=>
           /\ PRF4Select(p, h, e[1], c) = b
           /\ e[2] = PRF4Idx(p, h, e[1]) % PartSize
BY DEF Selected

-----------------------------------------------------------------------------
(* Type correctness. *)

(* Index arithmetic of the client: where the hints, the backup hints and   *)
(* the two halves of ciParity lie.                                         *)
LEMMA SizeFacts ==
  /\ PartNum \in Nat /\ PartNum > 1 /\ PartSize \in Nat /\ PartSize > 0
  /\ M \in Nat /\ Half \in Nat /\ Half > 1 /\ M >= 2 * Half
  /\ M + 1 \in Backups /\ M \in HintIds
  /\ Hints \subseteq HintIds /\ Backups \subseteq HintIds
  /\ HintIds \subseteq Slots
  /\ \A n \in Backups, b \in Bit : n + b * Half \in Slots
<1>1. \A n \in Backups : n + 0 * Half \in Slots /\ n + 1 * Half \in Slots
  BY SizeAssumption DEF Backups, Slots
<1> QED
  BY <1>1, SizeAssumption DEF Hints, HintIds, Backups, Slots, Bit

(* Shifting partition k by PartSize - r - 1 brings its entry r to the      *)
(* coefficient that is read.                                               *)
LEMMA EntryAtUnit ==
  ASSUME NEW k \in Parts, NEW r \in Offsets
  PROVE  EntryAt(k, r) = Unit(<<k, r>>)
<1>1. PartSize - 1 - (PartSize - r - 1) = r
  BY SizeAssumption DEF Offsets
<1> QED
  BY <1>1 DEF EntryAt, ShiftedCoeff, EncryptedDB

(* One entry is a formal sum. *)
LEMMA UnitType == \A e : Unit(e) \in FormalSum
BY SumTypes DEF Unit

(* The offset of a hint in a partition lies in the partition. *)
LEMMA IdxType ==
  ASSUME TypeOK, NEW h \in HintIds, NEW k \in Parts
  PROVE  Idx(h, k) \in Offsets
<1>1. prf \in PrfTable
  BY DEF TypeOK
<1> QED BY <1>1, PrfTypes DEF Idx

(* So does every dummy offset drawn for a query. *)
LEMMA DummyStreamType ==
  ASSUME TypeOK, NEW n \in Nat
  PROVE  Dummy(n) \in Nat
<1>1. prf \in PrfTable /\ dummyIdxUsed + n \in Nat
  BY DEF TypeOK
<1> QED BY <1>1, DummyType DEF Dummy

(* What a streamed partition adds to a parity is a formal sum. *)
LEMMA StreamedType ==
  ASSUME TypeOK, NEW k \in Parts, NEW s \in Slots
  PROVE  Streamed(k, s) \in FormalSum
<1>1. \A h \in HintIds : EntryAt(k, Idx(h, k)) \in FormalSum
  <2>1. SUFFICES ASSUME NEW h \in HintIds
                 PROVE  EntryAt(k, Idx(h, k)) \in FormalSum
    OBVIOUS
  <2>2. Idx(h, k) \in Offsets
    BY IdxType
  <2> QED BY <2>2, EntryAtUnit, UnitType
<1>2. s < M => /\ EntryAt(k, Idx(s, k)) \in FormalSum
               /\ EntryAt(k, ExtraOffset[s]) \in FormalSum
  <2>1. s < M => s \in Hints /\ s \in HintIds
    BY SizeFacts DEF Slots, Hints, HintIds
  <2> QED
    BY <1>1, <2>1, EntryAtUnit, UnitType DEF TypeOK
<1>3. \A h \in Backups : EntryAt(k, Idx(h, k)) \in FormalSum
  BY <1>1, SizeFacts
<1> QED
  BY <1>2, <1>3, SumTypes DEF Streamed

(* The query message has its type, whichever hint it is built from. *)
LEMMA BuildQueryType ==
  ASSUME TypeOK, NEW q \in Entries, NEW h \in Hints \cup {M + 1},
         NEW id \in HintIds, NEW ep \in Nat, NEW eo \in Offsets,
         NEW b \in Bit, NEW flip \in Bit
  PROVE  BuildQuery(q, h, id, ep, eo, b, flip) \in
           [bvec : [Parts -> Bit], Svec : [Parts -> Offsets], c : FormalSum]
<1> DEFINE sel(k)  == PRF4Select(prf, id, k, SelectCutoff[h])
           real(k) == /\ k # q[1]
                      /\ ep = k \/ sel(k) = b
           drawn(k) == Cardinality({j \in Parts : j < k /\ ~ real(j)})
<1>1. \A k \in Parts : Dummy(drawn(k)) % PartSize \in Offsets
  <2>1. SUFFICES ASSUME NEW k \in Parts PROVE Dummy(drawn(k)) % PartSize \in Offsets
    OBVIOUS
  <2>2. IsFiniteSet(Parts)
    BY FS_Interval, SizeFacts DEF Parts
  <2>3. drawn(k) \in Nat
    BY <2>2, FS_Subset, FS_CardinalityType
  <2> HIDE DEF drawn
  <2>4. Dummy(drawn(k)) \in Nat
    BY <2>3, DummyStreamType
  <2> QED BY <2>4, ModType
<1>2. \A k \in Parts : PRF4Idx(prf, id, k) % PartSize \in Offsets
  BY PrfTypes DEF TypeOK
<1>3. \A x, y : Xor(x, y) \in Bit
  BY DEF Xor, Bit
<1>4. ciParity[h] \in FormalSum
  BY SizeFacts DEF TypeOK
<1> HIDE DEF real, drawn, sel
<1>5. BuildQuery(q, h, id, ep, eo, b, flip) =
       [bvec |-> [k \in Parts |-> Xor(IF k = q[1] THEN Not(b)
                                     ELSE IF ep = k THEN b ELSE sel(k), flip)],
       Svec |-> [k \in Parts |-> IF ~ real(k) THEN Dummy(drawn(k)) % PartSize
                                 ELSE IF ep = k THEN eo
                                 ELSE PRF4Idx(prf, id, k) % PartSize],
       c    |-> ciParity[h]]
  BY DEF BuildQuery, real, drawn, sel
<1> QED
  BY <1>1, <1>2, <1>3, <1>4, <1>5

(* Writing into an array keeps its type. *)
LEMMA PutType ==
  ASSUME NEW D, NEW R, NEW f \in [D -> R], NEW x, NEW v \in R
  PROVE  Put(f, x, v) \in [D -> R]
BY DEF Put

(* The number of dummy offsets a query draws is a number. *)
LEMMA DrawnType ==
  ASSUME NEW q, NEW h, NEW id, NEW ep, NEW b
  PROVE  DummiesDrawn(q, h, id, ep, b) \in Nat
<1>1. IsFiniteSet(Parts)
  BY FS_Interval, SizeFacts DEF Parts
<1> QED
  BY <1>1, FS_Subset, FS_CardinalityType DEF DummiesDrawn

(* Building and sending a query keeps the types. *)
LEMMA SendType ==
  ASSUME TypeOK, NEW q \in Entries, NEW h \in Hints \cup {M + 1},
         NEW id \in HintIds, NEW ep \in Nat, NEW eo \in Offsets,
         NEW b \in Bit, NEW flip \in Bit,
         Send(q, h, id, ep, eo, b, flip)
  PROVE  TypeOK'
<1>1. req' \in [bvec : [Parts -> Bit], Svec : [Parts -> Offsets], c : FormalSum]
  BY BuildQueryType DEF Send, ResultBit
<1>2. dummyIdxUsed' \in Nat /\ encZeroNext' \in Nat
  BY DrawnType DEF Send, ResultBit, TypeOK
<1>3. cur' \in [query : Entries, hint : Hints \cup {M + 1}, bit : Bit]
  BY DEF Send, ResultBit, Bit
<1> QED
  BY <1>1, <1>2, <1>3 DEF Send, ResultBit, TypeOK, hints, store, Phases

(* The state the constructor leaves is well typed. *)
LEMMA TypeInit == Init => TypeOK
<1> SUFFICES ASSUME Init PROVE TypeOK
  OBVIOUS
<1>1. prf \in PrfTable
  BY PrfAssumption DEF Init
<1>2. /\ HintID \in [Hints -> HintIds] /\ ExtraPart \in [Hints -> Parts]
      /\ ExtraOffset \in [Hints -> Offsets] /\ IndicatorBit \in [Hints -> Bit]
      /\ SelectCutoff \in [HintIds -> Nat] /\ NextHintIndex \in M .. M + Half
  BY SizeFacts DEF Init, HintIds, Parts, Offsets, Bit
<1>3. ciParity \in [Slots -> FormalSum] /\ resp \in [Bit -> FormalSum]
  BY SumTypes DEF Init, NoResp
<1>4. cur \in [query : Entries, hint : Hints \cup {M + 1}, bit : Bit]
  BY SizeFacts DEF Init, NoCur, Entries, Parts, Offsets, Hints, Bit
<1>5. req \in [bvec : [Parts -> Bit], Svec : [Parts -> Offsets], c : FormalSum]
  BY SizeFacts, SumTypes DEF Init, NoReq, Offsets, Bit
<1>6. queryResults \in Seq([query : Entries, result : FormalSum,
                            hit : BOOLEAN])
  BY DEF Init
<1>7. pc \in Phases /\ i \in Nat /\ dummyIdxUsed \in Nat /\ encZeroNext \in Nat
  BY DEF Init, Phases
<1>8. damaged \in BOOLEAN
  BY DEF Init
<1> QED
  BY <1>1, <1>2, <1>3, <1>4, <1>5, <1>6, <1>7, <1>8 DEF TypeOK

(* Every step of the client keeps the types, the refresh of a query        *)
(* without a hint included.                                                *)
LEMMA TypeNext == TypeOK /\ [Next]_vars => TypeOK'
<1> SUFFICES ASSUME TypeOK, [Next]_vars PROVE TypeOK'
  OBVIOUS
<1>1. CASE OfflineCutoffs
  <2>1. \A h \in HintIds : prf.v[h] \in [Parts -> Nat]
    BY DEF TypeOK, PrfTable
  <2>2. SelectCutoff' \in [HintIds -> Nat]
    BY <1>1, <2>1, FindCutoffType DEF OfflineCutoffs
  <2> QED BY <1>1, <2>2 DEF OfflineCutoffs, TypeOK, hints, Phases
<1>2. ASSUME NEW n \in 0 .. DummyPeriod - 1, OfflineExtra(n) PROVE TypeOK'
  <2>1. n \in Nat /\ n + 1 \in Nat
    BY PrfAssumption
  <2>2. Dummy(n) % PartNum \in Parts /\ Dummy(n + 1) % PartSize \in Offsets
    BY <2>1, DummyStreamType, ModType
  <2>3. i \in HintIds
    BY <1>2, SizeFacts DEF OfflineExtra, TypeOK, HintIds
  <2>4. /\ HintID' \in [Hints -> HintIds] /\ ExtraPart' \in [Hints -> Parts]
        /\ ExtraOffset' \in [Hints -> Offsets]
    BY <1>2, <2>2, <2>3, PutType DEF OfflineExtra, TypeOK
  <2> QED BY <1>2, <2>1, <2>4 DEF OfflineExtra, TypeOK, store
<1>3. CASE ExtrasDone
  BY <1>3 DEF ExtrasDone, TypeOK, hints, store, Phases
<1>4. CASE OfflineStream
  <2>1. i \in Parts
    BY <1>4, SizeFacts DEF OfflineStream, TypeOK, Parts
  <2>2. \A s \in Slots : Add(ciParity[s], Streamed(i, s)) \in FormalSum
    <3>1. SUFFICES ASSUME NEW s \in Slots
                   PROVE  Add(ciParity[s], Streamed(i, s)) \in FormalSum
      OBVIOUS
    <3>2. ciParity[s] \in FormalSum
      BY DEF TypeOK
    <3> QED BY <2>1, <3>2, StreamedType, SumTypes
  <2>3. ciParity' \in [Slots -> FormalSum]
    BY <1>4, <2>2 DEF OfflineStream
  <2> QED BY <1>4, <2>3 DEF OfflineStream, TypeOK, hints
<1>5. CASE StreamDone
  BY <1>5, SizeFacts DEF StreamDone, TypeOK, hints, Phases
<1>6. CASE PrecomputeEncZeros
  BY <1>6 DEF PrecomputeEncZeros, TypeOK, hints, store, Phases
<1>7. ASSUME NEW q \in Entries, NEW h \in Hints, NEW flip \in Bit,
             SendQuery(q, h, flip)
      PROVE  TypeOK'
  <2>1. HintID[h] \in HintIds /\ ExtraPart[h] \in Nat
        /\ ExtraOffset[h] \in Offsets /\ IndicatorBit[h] \in Bit
    BY SizeFacts DEF TypeOK, Parts
  <2> QED BY <1>7, <2>1, SendType DEF SendQuery
<1>8. ASSUME NEW q \in Entries, NEW g \in Garbage, NEW b \in Bit,
             NEW flip \in Bit, SendWithoutHint(q, g, b, flip)
      PROVE  TypeOK'
  <2>1. g.id \in HintIds /\ g.part \in Nat /\ g.offset \in Offsets
    BY QueryAssumption
  <2> QED BY <1>8, <2>1, SendType DEF SendWithoutHint
<1>9. CASE NoEncZero
  BY <1>9 DEF NoEncZero, TypeOK, hints, store, Phases
<1>10. CASE Answer
  <2>1. resp' \in [Bit -> FormalSum]
    BY <1>10, SumTypes DEF Answer, OnlineQuery, GroupSum, TypeOK
  <2>2. req' \in [bvec : [Parts -> Bit], Svec : [Parts -> Offsets],
                  c : FormalSum]
    BY <1>10, SizeFacts, SumTypes DEF Answer, NoReq, Offsets, Bit
  <2> QED BY <1>10, <2>1, <2>2 DEF Answer, TypeOK, hints, store, Phases
<1>11. ASSUME NEW n \in Backups, Refresh(n) PROVE TypeOK'
  <2> DEFINE b == Not(Select(n, cur.query[1]))
             result == resp[cur.bit]
  <2>1. b \in Bit
    BY SelectType DEF Select, Not, Bit
  <2>2. ciParity[n + b * Half] \in FormalSum
    BY <2>1, SizeFacts DEF TypeOK
  <2>3. result \in FormalSum
    BY DEF TypeOK
  <2>4. cur.query \in Entries /\ cur.query[1] \in Parts
        /\ cur.query[2] \in Offsets
    BY DEF TypeOK, Entries
  <2>5. n \in HintIds /\ SelectCutoff[n] \in Nat
        /\ n + 1 \in M .. M + Half
    BY SizeFacts DEF TypeOK, Backups
  <2> HIDE DEF b, result
  <2>6. /\ HintID' = Put(HintID, cur.hint, n)
        /\ SelectCutoff' = Put(SelectCutoff, cur.hint, SelectCutoff[n])
        /\ ExtraPart' = Put(ExtraPart, cur.hint, cur.query[1])
        /\ ExtraOffset' = Put(ExtraOffset, cur.hint, cur.query[2])
        /\ IndicatorBit' = Put(IndicatorBit, cur.hint, b)
        /\ ciParity' = Put(ciParity, cur.hint,
                           Add(ciParity[n + b * Half], result))
    BY <1>11 DEF Refresh, NextBackup, NewIndicator, NewParity, BackupsLeft,
       b, result
  <2>7. /\ HintID' \in [Hints -> HintIds] /\ SelectCutoff' \in [HintIds -> Nat]
        /\ ExtraPart' \in [Hints -> Parts] /\ ExtraOffset' \in [Hints -> Offsets]
        /\ IndicatorBit' \in [Hints -> Bit]
    BY <2>1, <2>4, <2>5, <2>6, PutType DEF TypeOK
  <2>8. ciParity' \in [Slots -> FormalSum]
    <3>1. Add(ciParity[n + b * Half], result) \in FormalSum
      BY <2>2, <2>3, SumTypes
    <3> QED BY <2>6, <3>1, PutType DEF TypeOK
  <2>9. /\ queryResults' \in Seq([query : Entries, result : FormalSum,
                                  hit : BOOLEAN])
        /\ i' \in Nat /\ pc' \in Phases
    <3> DEFINE Rec == [query : Entries, result : FormalSum, hit : BOOLEAN]
               ok  == cur.hint \in Hints
               rec == [query |-> cur.query, result |-> result, hit |-> ok]
    <3>1. ok \in BOOLEAN
      OBVIOUS
    <3> HIDE DEF ok
    <3>2. rec \in Rec
      BY <2>3, <2>4, <3>1
    <3>3. queryResults' \in {queryResults, Append(queryResults, rec)}
      BY <1>11 DEF Refresh, NextBackup, NewIndicator, NewParity, BackupsLeft,
         ok, result
    <3> HIDE DEF rec, Rec
    <3>4. queryResults \in Seq(Rec)
      BY DEF TypeOK, Rec
    <3>5. queryResults' \in Seq(Rec)
      BY <3>2, <3>3, <3>4
    <3>6. i' \in Nat /\ pc' \in Phases
      BY <1>11 DEF Refresh, NextBackup, NewIndicator, NewParity, BackupsLeft,
         TypeOK, Phases
    <3> QED BY <3>5, <3>6 DEF Rec
  <2>10. cur' \in [query : Entries, hint : Hints \cup {M + 1}, bit : Bit]
    BY <1>11, SizeFacts DEF Refresh, NextBackup, NewIndicator, NewParity,
       BackupsLeft, NoCur, Entries, Parts, Offsets, Hints, Bit
  <2>11. resp' \in [Bit -> FormalSum]
    BY <1>11, SumTypes DEF Refresh, NextBackup, NewIndicator, NewParity,
       BackupsLeft, NoResp
  <2> QED
    BY <1>11, <2>5, <2>7, <2>8, <2>9, <2>10, <2>11 DEF Refresh, NextBackup,
       NewIndicator, NewParity, BackupsLeft, TypeOK
<1>12. CASE NoBackup
  BY <1>12 DEF NoBackup, TypeOK, hints, store, Phases
<1>13. CASE LoopDone
  BY <1>13 DEF LoopDone, TypeOK, hints, store, Phases
<1>14. CASE UNCHANGED vars
  BY <1>14 DEF vars, TypeOK, hints, store
<1> QED
  BY <1>1, <1>2, <1>3, <1>4, <1>5, <1>6, <1>7, <1>8, <1>9, <1>10, <1>11,
     <1>12, <1>13, <1>14 DEF Next, Ended

(* Every index the client computes stays inside its arrays, whatever the   *)
(* database shape, the PRF and the queries.                                *)
THEOREM TypeCorrect == Spec => []TypeOK
BY TypeInit, TypeNext, PTL DEF Spec

-----------------------------------------------------------------------------
(* The offline phase. *)

(* Streaming partition k into a hint that has entry o of it, or none. *)
LEMMA GrowOne ==
  ASSUME NEW S \in SUBSET Entries, NEW k \in Parts, NEW o \in Offsets,
         \A x \in Offsets : <<k, x>> \in S <=> x = o
  PROVE  Add(Sum({e \in S : e[1] < k}), Unit(<<k, o>>))
           = Sum({e \in S : e[1] < k + 1})
<1>1. <<k, o>> \in Entries /\ <<k, o>> \notin {e \in S : e[1] < k}
  BY DEF Entries, Parts
<1>2. {e \in S : e[1] < k + 1} = {e \in S : e[1] < k} \cup {<<k, o>>}
  <2>1. \A e \in S : e = <<e[1], e[2]>> /\ e[1] \in Int /\ e[2] \in Offsets
    BY DEF Entries, Parts
  <2>2. \A e \in S : e[1] < k + 1 <=> (e[1] < k \/ e[1] = k)
    BY <2>1 DEF Parts
  <2>3. \A e \in S : e[1] = k <=> e = <<k, o>>
    BY <2>1
  <2>4. <<k, o>> \in S
    OBVIOUS
  <2> QED BY <2>2, <2>3, <2>4
<1> QED
  BY <1>1, <1>2, AddUnit

(* Streaming partition k into a hint that has no entry of it. *)
LEMMA GrowNone ==
  ASSUME NEW S \in SUBSET Entries, NEW k \in Parts,
         \A x \in Offsets : <<k, x>> \notin S
  PROVE  Add(Sum({e \in S : e[1] < k}), Zero) = Sum({e \in S : e[1] < k + 1})
<1>1. {e \in S : e[1] < k + 1} = {e \in S : e[1] < k}
  <2>1. \A e \in S : e = <<e[1], e[2]>> /\ e[1] \in Int /\ e[2] \in Offsets
    BY DEF Entries, Parts
  <2>2. \A e \in S : e[1] # k
    BY <2>1
  <2> QED BY <2>1, <2>2 DEF Parts
<1> QED
  BY <1>1, AddZero, SumTypes

(* A hint's selection has one entry in each partition it selects. *)
LEMMA SelectedAt ==
  ASSUME NEW p \in PrfTable, NEW h \in HintIds, NEW c, NEW b,
         NEW k \in Parts, NEW x \in Offsets
  PROVE  <<k, x>> \in Selected(p, h, c, b) <=>
           PRF4Select(p, h, k, c) = b /\ x = PRF4Idx(p, h, k) % PartSize
BY SelectedOnce DEF Entries

(* One partition streamed into hint h. *)
LEMMA StreamHint ==
  ASSUME TypeOK, NEW h \in Hints, NEW k \in Parts,
         HintID[h] = h, IndicatorBit[h] = 1, Select(h, ExtraPart[h]) = 0
  PROVE  Add(Sum({e \in HintEntries(h) : e[1] < k}), Streamed(k, h))
           = Sum({e \in HintEntries(h) : e[1] < k + 1})
<1> DEFINE S  == HintEntries(h)
           ep == ExtraPart[h]
           eo == ExtraOffset[h]
<1>1. h \in HintIds /\ prf \in PrfTable /\ ep \in Parts /\ eo \in Offsets /\ h < M
  BY SizeFacts DEF TypeOK, Hints
<1>2. S \in SUBSET Entries
  BY <1>1 DEF HintEntries, Selected, Entries
<1>3. Idx(h, k) \in Offsets
  BY <1>1, IdxType
<1>4. \A x \in Offsets : <<k, x>> \in S <=>
         \/ Select(h, k) = 1 /\ x = Idx(h, k)
         \/ k = ep /\ x = eo
  <2>1. S = Selected(prf, h, SelectCutoff[h], 1) \cup {<<ep, eo>>}
    BY DEF HintEntries
  <2> QED BY <2>1, <1>1, SelectedAt DEF Select, Idx
<1> HIDE DEF S
<1>5. CASE Select(h, k) = 1
  <2>1. k # ep
    BY <1>5
  <2>2. Streamed(k, h) = Unit(<<k, Idx(h, k)>>)
    BY <1>1, <1>3, <1>5, EntryAtUnit DEF Streamed
  <2> QED BY <2>1, <2>2, <1>2, <1>3, <1>4, <1>5, GrowOne DEF S
<1>6. CASE Select(h, k) # 1 /\ ep = k
  <2>1. Streamed(k, h) = Unit(<<k, eo>>)
    BY <1>1, <1>6, EntryAtUnit DEF Streamed
  <2> QED BY <2>1, <1>1, <1>2, <1>4, <1>6, GrowOne DEF S
<1>7. CASE Select(h, k) # 1 /\ ep # k
  <2>1. Streamed(k, h) = Zero
    BY <1>1, <1>7 DEF Streamed
  <2> QED BY <2>1, <1>2, <1>4, <1>7, GrowNone DEF S
<1> QED
  BY <1>5, <1>6, <1>7

(* One partition streamed into the two parities of backup hint h. *)
LEMMA StreamBackup ==
  ASSUME TypeOK, NEW h \in Backups, NEW k \in Parts, NEW b \in Bit
  PROVE  Add(Sum({e \in BackupEntries(h, b) : e[1] < k}), Streamed(k, h + b * Half))
           = Sum({e \in BackupEntries(h, b) : e[1] < k + 1})
<1> DEFINE S == BackupEntries(h, b)
<1>1. h \in HintIds /\ prf \in PrfTable
  BY SizeFacts DEF TypeOK
<1>2. S \in SUBSET Entries
  BY DEF BackupEntries, Selected
<1>3. Idx(h, k) \in Offsets
  BY <1>1, IdxType
<1>4. \A x \in Offsets : <<k, x>> \in S <=> Select(h, k) = b /\ x = Idx(h, k)
  BY <1>1, SelectedAt DEF BackupEntries, Select, Idx
<1>5. Streamed(k, h + b * Half) =
        IF Select(h, k) = b THEN EntryAt(k, Idx(h, k)) ELSE Zero
  <2>1. Select(h, k) \in Bit
    BY SelectType DEF Select
  <2>2. CASE b = 0
    <3>1. h + b * Half = h /\ ~ (h < M) /\ h < M + Half
      BY <2>2, SizeFacts DEF Backups
    <3>2. h = h + Select(h, k) * Half <=> Select(h, k) = 0
      BY <2>1, SizeFacts DEF Backups, Bit
    <3>3. BackupOf(h) = h
      BY <3>1 DEF BackupOf
    <3> QED BY <2>2, <3>1, <3>2, <3>3 DEF Streamed
  <2>3. CASE b = 1
    <3>1. /\ h + b * Half = h + Half /\ ~ (h + Half < M)
          /\ ~ (h + Half < M + Half) /\ h + Half - Half = h
      BY <2>3, SizeFacts DEF Backups
    <3>2. h + Half = h + Select(h, k) * Half <=> Select(h, k) = 1
      BY <2>1, SizeFacts DEF Backups, Bit
    <3>3. BackupOf(h + Half) = h
      BY SizeFacts DEF BackupOf, Backups
    <3> QED BY <2>3, <3>1, <3>2, <3>3 DEF Streamed
  <2> QED BY <2>2, <2>3 DEF Bit
<1> HIDE DEF S
<1>6. CASE Select(h, k) = b
  <2>1. Streamed(k, h + b * Half) = Unit(<<k, Idx(h, k)>>)
    BY <1>3, <1>5, <1>6, EntryAtUnit
  <2> QED BY <2>1, <1>2, <1>3, <1>4, <1>6, GrowOne DEF S
<1>7. CASE Select(h, k) # b
  BY <1>2, <1>4, <1>5, <1>7, GrowNone DEF S
<1> QED
  BY <1>6, <1>7

-----------------------------------------------------------------------------
(* The online phase. *)

(* What find_hint returns holds the queried entry, and is valid. *)
LEMMA MatchIsEntry ==
  ASSUME NEW q \in Entries, NEW h \in Matches(q)
  PROVE  h \in Hints /\ SelectCutoff[h] # 0 /\ q \in HintEntries(h)
BY DEF Matches, HintEntries, Selected

(* The group the client picks takes everything but the queried entry away  *)
(* from the parity of a sound hint.                                        *)
LEMMA QueryGroup ==
  ASSUME TypeOK, NEW q \in Entries, NEW h \in Hints, NEW flip \in Bit,
         q \in HintEntries(h), ~ InHint(h, ExtraPart[h]),
         ciParity[h] = Sum(HintEntries(h)),
         NEW R, R = BuildQuery(q, h, HintID[h], ExtraPart[h], ExtraOffset[h],
                               IndicatorBit[h], flip),
         NEW bit, bit = IF Xor(Not(IndicatorBit[h]), flip) = 1 THEN 0 ELSE 1
  PROVE  Sub(R.c, GroupSum(R.bvec, R.Svec, bit)) = Unit(q)
<1> DEFINE id == HintID[h]
           ep == ExtraPart[h]
           eo == ExtraOffset[h]
           b  == IndicatorBit[h]
           S  == HintEntries(h)
           sel(k) == PRF4Select(prf, id, k, SelectCutoff[h])
           idx(k) == PRF4Idx(prf, id, k) % PartSize
<1>1. /\ id \in HintIds /\ ep \in Parts /\ eo \in Offsets /\ b \in Bit
      /\ prf \in PrfTable
  BY DEF TypeOK
<1>2. sel(ep) # b /\ \A k : sel(k) \in Bit
  BY SelectType DEF InHint
<1>3. \A k \in Parts, x \in Offsets :
        <<k, x>> \in S <=> (sel(k) = b /\ x = idx(k)) \/ (k = ep /\ x = eo)
  <2>1. S = Selected(prf, id, SelectCutoff[h], b) \cup {<<ep, eo>>}
    BY DEF HintEntries
  <2>2. \A k \in Parts, x \in Offsets :
          <<k, x>> \in Selected(prf, id, SelectCutoff[h], b)
            <=> sel(k) = b /\ x = idx(k)
    BY DEF Selected, Entries
  <2> HIDE DEF S, sel, idx
  <2> QED BY <2>1, <2>2
<1>4. q = <<q[1], q[2]>> /\ q[1] \in Parts /\ q[2] \in Offsets
  BY DEF Entries
<1>5. \A k \in Parts :
        /\ R.bvec[k] = Xor(IF k = q[1] THEN Not(b)
                           ELSE IF ep = k THEN b ELSE sel(k), flip)
        /\ k # q[1] /\ ep = k => R.Svec[k] = eo
        /\ k # q[1] /\ ep # k /\ sel(k) = b => R.Svec[k] = idx(k)
  BY DEF BuildQuery
<1>6. R.c = Sum(S)
  BY DEF BuildQuery
<1> HIDE DEF id, ep, eo, b, S, sel, idx
<1>7. \A k \in Parts, x \in Offsets :
        (R.bvec[k] = bit /\ x = R.Svec[k]) <=> (<<k, x>> \in S /\ <<k, x>> # q)
  <2> SUFFICES ASSUME NEW k \in Parts, NEW x \in Offsets
               PROVE  (R.bvec[k] = bit /\ x = R.Svec[k])
                        <=> (<<k, x>> \in S /\ <<k, x>> # q)
    OBVIOUS
  <2>0. bit = IF Xor(Not(b), flip) = 1 THEN 0 ELSE 1
    BY DEF b
  <2>1. CASE k = q[1]
    <3>1. R.bvec[k] = Xor(Not(b), flip)
      BY <1>5, <2>1
    <3>2. R.bvec[k] # bit
      BY <3>1, <2>0 DEF Xor
    <3>3. <<k, q[2]>> \in S /\ (<<k, x>> \in S => x = q[2])
      <4>1. <<k, q[2]>> \in S
        BY <1>4, <2>1 DEF S
      <4>2. sel(k) = b => k # ep
        BY <1>2
      <4> QED BY <4>1, <4>2, <1>3, <1>4
    <3> QED BY <3>2, <3>3, <1>4, <2>1
  <2>2. CASE k # q[1] /\ k = ep
    <3>1. R.bvec[k] = Xor(b, flip) /\ R.Svec[k] = eo
      BY <1>5, <2>2
    <3>2. Xor(b, flip) = bit
      BY <1>1, <2>0 DEF Xor, Not, Bit
    <3>3. <<k, x>> \in S <=> x = eo
      BY <1>2, <1>3, <2>2
    <3>4. <<k, x>> # q
      BY <1>4, <2>2
    <3> QED BY <3>1, <3>2, <3>3, <3>4
  <2>3. CASE k # q[1] /\ k # ep
    <3>1. R.bvec[k] = Xor(sel(k), flip) /\ (sel(k) = b => R.Svec[k] = idx(k))
      BY <1>5, <2>3
    <3>2. Xor(sel(k), flip) = bit <=> sel(k) = b
      BY <1>1, <1>2, <2>0 DEF Xor, Not, Bit
    <3>3. <<k, x>> \in S <=> sel(k) = b /\ x = idx(k)
      BY <1>3, <2>3
    <3>4. <<k, x>> # q
      BY <1>4, <2>3
    <3> QED BY <3>1, <3>2, <3>3, <3>4
  <2> QED BY <2>1, <2>2, <2>3
<1>8. \A e \in Entries :
        (R.bvec[e[1]] = bit /\ e[2] = R.Svec[e[1]]) <=> (e \in S \ {q})
  <2>1. \A e \in Entries : e = <<e[1], e[2]>> /\ e[1] \in Parts /\ e[2] \in Offsets
    BY DEF Entries
  <2> QED BY <2>1, <1>7
<1>9. GroupSum(R.bvec, R.Svec, bit) = Sum(S \ {q})
  BY <1>8 DEF GroupSum, Sum
<1> QED
  BY <1>6, <1>9, SubAllButOne DEF S

(* Steps that leave the hints alone keep them sound. *)
LEMMA KeepHints ==
  ASSUME HintsSound, BackupsSound, UNCHANGED <<prf, hints, store, damaged>>,
         pc \notin {"cutoffs", "extras", "stream"}
  PROVE  HintsSound' /\ BackupsSound'
BY DEF HintsSound, BackupsSound, HintsBuilt, HintEntries, BackupEntries,
       InHint, hints, store

(* Sending a query built from a matching hint. *)
LEMMA SendSound ==
  ASSUME Sound, NEW q \in Entries, NEW h \in Hints, NEW flip \in Bit,
         SendQuery(q, h, flip)
  PROVE  Sound'
<1>1. TypeOK'
  BY TypeNext DEF Sound, Next
<1>2. pc = "ready" /\ pc' = "sent" /\ UNCHANGED <<prf, hints, store, damaged,
                                                  queryResults>>
  BY DEF SendQuery, Send, ResultBit, CanQuery
<1>3. HintsSound' /\ BackupsSound'
  BY <1>2, KeepHints DEF Sound
<1>4. OfflineSound' /\ StreamSound'
  BY <1>2 DEF OfflineSound, StreamSound
<1>5. AnswersCorrect'
  BY <1>2 DEF Sound, AnswersCorrect
<1>6. QuerySound'
  <2> SUFFICES ASSUME ~ damaged
               PROVE  Sub(req'.c, GroupSum(req'.bvec, req'.Svec, cur'.bit))
                        = Unit(cur'.query)
    BY <1>2 DEF QuerySound
  <2>1. q \in HintEntries(h) /\ SelectCutoff[h] # 0
    BY MatchIsEntry DEF SendQuery, FirstMatch
  <2>2. ciParity[h] = Sum(HintEntries(h)) /\ ~ InHint(h, ExtraPart[h])
    BY <1>2, <2>1 DEF Sound, HintsSound, HintsBuilt
  <2>3. /\ req' = BuildQuery(q, h, HintID[h], ExtraPart[h], ExtraOffset[h],
                             IndicatorBit[h], flip)
        /\ cur'.query = q
        /\ cur'.bit = IF Xor(Not(IndicatorBit[h]), flip) = 1 THEN 0 ELSE 1
    BY DEF SendQuery, Send, ResultBit
  <2> QED BY <2>1, <2>2, <2>3, QueryGroup DEF Sound
<1> QED
  BY <1>1, <1>3, <1>4, <1>5, <1>6 DEF Sound

(* Replacing the used hint by backup hint n. *)
LEMMA RefreshSound ==
  ASSUME Sound, NEW n \in Backups, Refresh(n)
  PROVE  Sound'
<1>0. PICK h : h = cur.hint
  OBVIOUS
<1> DEFINE q == cur.query
           b == Not(Select(n, q[1]))
           result == resp[cur.bit]
<1>1. TypeOK /\ TypeOK'
  BY TypeNext DEF Sound, Next
<1>2. /\ pc = "answered" /\ pc' \in {"ready", "aborted"}
      /\ n \in Nat /\ M \in Nat /\ n >= M /\ n < M + Half
      /\ h \in Hints \cup {M + 1} /\ q \in Entries
      /\ q[1] \in Parts /\ q[2] \in Offsets /\ b \in Bit
      /\ Select(n, q[1]) # b
  <2>1. Select(n, q[1]) \in Bit
    BY SelectType DEF Select
  <2>2. b \in Bit /\ Select(n, q[1]) # b
    BY <2>1 DEF Not, Bit
  <2> QED BY <1>0, <1>1, <2>2, SizeFacts DEF Refresh, NextBackup, NewIndicator, NewParity, BackupsLeft, TypeOK, Entries, Backups
<1>3. /\ HintID' = Put(HintID, h, n)
      /\ SelectCutoff' = Put(SelectCutoff, h, SelectCutoff[n])
      /\ ExtraPart' = Put(ExtraPart, h, q[1])
      /\ ExtraOffset' = Put(ExtraOffset, h, q[2])
      /\ IndicatorBit' = Put(IndicatorBit, h, b)
      /\ ciParity' = Put(ciParity, h, Add(ciParity[n + b * Half], result))
      /\ NextHintIndex' = n + 1 /\ n >= NextHintIndex /\ prf' = prf
      /\ damaged' = (damaged \/ (h = M + 1 /\ n <= M))
  BY <1>0 DEF Refresh, NextBackup, NewIndicator, NewParity, BackupsLeft
<1> HIDE DEF q, b, result
<1>4. OfflineSound' /\ StreamSound' /\ QuerySound'
  BY <1>2 DEF OfflineSound, StreamSound, QuerySound
<1>5. CASE damaged'
  BY <1>1, <1>4, <1>5 DEF Sound, HintsSound, BackupsSound, HintsBuilt,
                          AnswersCorrect
<1>6. CASE ~ damaged'
  <2>1. ~ damaged /\ HintsBuilt /\ ~ (h = M + 1 /\ n <= M)
    BY <1>2, <1>3, <1>6 DEF HintsBuilt
  <2>2. h \in Hints => result = Unit(q)
    BY <1>0, <1>2, <2>1 DEF Sound, QuerySound, q, result
  (* Unused backup hints are untouched: the write goes to a hint, or to    *)
  (* slot M + 1 of a backup hint that is used up.                          *)
  <2>3. \A m \in Backups : m >= n + 1 =>
          /\ SelectCutoff'[m] = SelectCutoff[m]
          /\ ciParity'[m] = ciParity[m]
          /\ ciParity'[m + Half] = ciParity[m + Half]
    <3> SUFFICES ASSUME NEW m \in Backups, m >= n + 1
                 PROVE  /\ SelectCutoff'[m] = SelectCutoff[m]
                        /\ ciParity'[m] = ciParity[m]
                        /\ ciParity'[m + Half] = ciParity[m + Half]
      OBVIOUS
    <3>1. m # h /\ m + Half # h
      BY <1>2, <2>1, SizeFacts DEF Backups, Hints
    <3>2. m \in HintIds /\ m \in Slots /\ m + Half \in Slots
      BY SizeFacts DEF Backups, Slots, HintIds
    <3>3. DOMAIN SelectCutoff = HintIds /\ DOMAIN ciParity = Slots
      BY <1>1 DEF TypeOK
    <3> QED BY <1>3, <3>1, <3>2, <3>3 DEF Put
  <2>4. BackupsSound'
    <3> SUFFICES ASSUME NEW m \in Backups, m >= n + 1
                 PROVE  /\ ciParity'[m] = Sum(BackupEntries(m, 0)')
                        /\ ciParity'[m + Half] = Sum(BackupEntries(m, 1)')
      BY <1>3 DEF BackupsSound
    <3>1. m >= NextHintIndex
      BY <1>1, <1>2, <1>3 DEF Backups, TypeOK
    <3>2. BackupEntries(m, 0)' = BackupEntries(m, 0)
          /\ BackupEntries(m, 1)' = BackupEntries(m, 1)
      BY <1>3, <2>3 DEF BackupEntries
    <3> QED BY <2>1, <2>3, <3>1, <3>2 DEF Sound, BackupsSound
  (* The used hint becomes the half of backup hint n that avoids the       *)
  (* queried partition, with the queried entry as its extra entry.         *)
  <2>5. h \in Hints =>
          /\ ciParity'[h] = Sum(HintEntries(h)')
          /\ ~ InHint(h, ExtraPart[h])'
    <3> SUFFICES ASSUME h \in Hints
                 PROVE  /\ ciParity'[h] = Sum(HintEntries(h)')
                        /\ ~ InHint(h, ExtraPart[h])'
      OBVIOUS
    <3>1. /\ HintID'[h] = n /\ SelectCutoff'[h] = SelectCutoff[n]
          /\ ExtraPart'[h] = q[1] /\ ExtraOffset'[h] = q[2]
          /\ IndicatorBit'[h] = b
          /\ ciParity'[h] = Add(ciParity[n + b * Half], result)
      <4>1. h \in HintIds /\ h \in Slots
        BY SizeFacts
      <4>2. /\ DOMAIN HintID = Hints /\ DOMAIN SelectCutoff = HintIds
            /\ DOMAIN ExtraPart = Hints /\ DOMAIN ExtraOffset = Hints
            /\ DOMAIN IndicatorBit = Hints /\ DOMAIN ciParity = Slots
        BY <1>1 DEF TypeOK
      <4> QED BY <1>3, <4>1, <4>2 DEF Put
    <3>2. ciParity[n + b * Half] = Sum(BackupEntries(n, b))
      <4>1. ciParity[n] = Sum(BackupEntries(n, 0))
            /\ ciParity[n + Half] = Sum(BackupEntries(n, 1))
        BY <1>3, <2>1 DEF Sound, BackupsSound
      <4>2. n + 0 * Half = n /\ n + 1 * Half = n + Half
        BY <1>2, SizeFacts
      <4> QED BY <1>2, <4>1, <4>2 DEF Bit
    <3>3. q \notin BackupEntries(n, b)
      BY <1>2, SelectedOnce DEF BackupEntries, Select
    <3>4. q = <<q[1], q[2]>>
      BY <1>2 DEF Entries
    <3>5. HintEntries(h)' = BackupEntries(n, b) \cup {q}
      BY <1>3, <3>1, <3>4 DEF HintEntries, BackupEntries
    <3>6. ~ InHint(h, ExtraPart[h])'
      BY <1>2, <1>3, <3>1 DEF InHint, Select
    <3> QED BY <1>2, <2>2, <3>1, <3>2, <3>3, <3>5, <3>6, AddUnit
  <2>6. \A g \in Hints : g # h =>
          /\ HintID'[g] = HintID[g] /\ SelectCutoff'[g] = SelectCutoff[g]
          /\ ExtraPart'[g] = ExtraPart[g] /\ ExtraOffset'[g] = ExtraOffset[g]
          /\ IndicatorBit'[g] = IndicatorBit[g] /\ ciParity'[g] = ciParity[g]
    <3>1. \A g \in Hints : g \in HintIds /\ g \in Slots
      BY SizeFacts
    <3>2. /\ DOMAIN HintID = Hints /\ DOMAIN SelectCutoff = HintIds
          /\ DOMAIN ExtraPart = Hints /\ DOMAIN ExtraOffset = Hints
          /\ DOMAIN IndicatorBit = Hints /\ DOMAIN ciParity = Slots
      BY <1>1 DEF TypeOK
    <3> QED BY <1>3, <3>1, <3>2 DEF Put
  <2>7. HintsSound'
    <3> SUFFICES ASSUME NEW g \in Hints, SelectCutoff'[g] # 0
                 PROVE  /\ ciParity'[g] = Sum(HintEntries(g)')
                        /\ ~ InHint(g, ExtraPart[g])'
      BY DEF HintsSound
    <3>1. CASE g = h
      BY <2>5, <3>1
    <3>2. CASE g # h
      <4>1. HintEntries(g)' = HintEntries(g)
        BY <1>3, <2>6, <3>2 DEF HintEntries
      <4>2. InHint(g, ExtraPart[g])' <=> InHint(g, ExtraPart[g])
        BY <1>3, <2>6, <3>2 DEF InHint
      <4> QED BY <2>1, <2>6, <3>2, <4>1, <4>2 DEF Sound, HintsSound
    <3> QED BY <3>1, <3>2
  <2>8. AnswersCorrect'
    <3> DEFINE rec == [query |-> q, result |-> result, hit |-> h \in Hints]
    <3>1. queryResults' = queryResults \/ queryResults' = Append(queryResults, rec)
      BY <1>0 DEF Refresh, NextBackup, NewIndicator, NewParity, BackupsLeft,
         q, result
    <3>2. rec.hit => rec.result = Unit(rec.query)
      BY <2>2
    <3>3. \A m \in 1 .. Len(queryResults) : queryResults[m].hit =>
            queryResults[m].result = Unit(queryResults[m].query)
      BY <2>1 DEF Sound, AnswersCorrect
    <3>4. queryResults \in Seq([query : Entries, result : FormalSum,
                                hit : BOOLEAN])
      BY <1>1 DEF TypeOK
    <3> HIDE DEF rec
    <3>5. CASE queryResults' = Append(queryResults, rec)
      <4>1. Len(queryResults') = Len(queryResults) + 1
            /\ Len(queryResults) \in Nat
        BY <3>4, <3>5
      <4>2. \A m \in 1 .. Len(queryResults) :
              queryResults'[m] = queryResults[m]
        BY <3>4, <3>5
      <4>3. queryResults'[Len(queryResults) + 1] = rec
        BY <3>4, <3>5
      <4>4. \A m \in 1 .. Len(queryResults') :
              m \in 1 .. Len(queryResults) \/ m = Len(queryResults) + 1
        BY <4>1
      <4> QED BY <3>2, <3>3, <4>2, <4>3, <4>4 DEF AnswersCorrect
    <3> QED BY <3>1, <3>3, <3>5 DEF AnswersCorrect
  <2> QED
    BY <1>1, <1>4, <2>4, <2>7, <2>8 DEF Sound
<1> QED
  BY <1>5, <1>6

(* The offline steps. *)
LEMMA ExtraSound ==
  ASSUME Sound, NEW n \in 0 .. DummyPeriod - 1, OfflineExtra(n)
  PROVE  Sound'
<1>1. TypeOK /\ TypeOK'
  BY TypeNext DEF Sound, Next
<1>2. /\ pc = "extras" /\ pc' = "extras" /\ i \in Hints /\ i' = i + 1
      /\ HintID' = Put(HintID, i, i)
      /\ ExtraPart' = Put(ExtraPart, i, Dummy(n) % PartNum)
      /\ Select(i, Dummy(n) % PartNum) = 0
      /\ UNCHANGED <<prf, IndicatorBit, store, queryResults, damaged>>
  BY <1>1, SizeFacts DEF OfflineExtra, TypeOK, Hints
<1>3. \A h \in 0 .. i : HintID'[h] = h /\ Select(h, ExtraPart'[h]) = 0
  <2> SUFFICES ASSUME NEW h \in 0 .. i
               PROVE  HintID'[h] = h /\ Select(h, ExtraPart'[h]) = 0
    OBVIOUS
  <2>1. h \in Hints /\ DOMAIN HintID = Hints /\ DOMAIN ExtraPart = Hints
    BY <1>1, <1>2, SizeFacts DEF Hints, TypeOK
  <2>2. CASE h = i
    BY <1>2, <2>1, <2>2 DEF Put
  <2>3. CASE h # i
    <3>1. h \in 0 .. i - 1
      BY <1>2, <2>3 DEF Hints
    <3>2. HintID[h] = h /\ Select(h, ExtraPart[h]) = 0
      BY <1>2, <3>1 DEF Sound, OfflineSound
    <3> QED BY <1>2, <2>1, <2>3, <3>2 DEF Put
  <2> QED BY <2>2, <2>3
<1>4. \A h \in 0 .. i' - 1 : HintID'[h] = h /\ Select(h, ExtraPart[h])' = 0
  <2>1. 0 .. i' - 1 = 0 .. i
    BY <1>2 DEF Hints
  <2> QED BY <1>2, <1>3, <2>1 DEF Select, store
<1>5. OfflineSound'
  <2>1. i' <= M
    BY <1>2, SizeFacts DEF Hints
  <2> QED BY <1>2, <1>4, <2>1 DEF Sound, OfflineSound, store
<1> QED
  BY <1>1, <1>2, <1>5 DEF Sound, StreamSound, HintsSound, BackupsSound,
     HintsBuilt, QuerySound, AnswersCorrect

(* Before the first partition every parity is empty. *)
LEMMA ExtrasDoneSound ==
  ASSUME Sound, ExtrasDone
  PROVE  Sound'
<1>1. TypeOK /\ TypeOK'
  BY TypeNext DEF Sound, Next
<1>2. /\ pc = "extras" /\ i = M /\ pc' = "stream" /\ i' = 0
      /\ UNCHANGED <<prf, hints, store, queryResults, damaged>>
  BY DEF ExtrasDone
<1>3. \A h \in Hints : HintID[h] = h /\ Select(h, ExtraPart[h]) = 0
  BY <1>2 DEF Sound, OfflineSound, Hints
<1>4. OfflineSound'
  BY <1>2, <1>3, SizeFacts DEF Sound, OfflineSound, hints, store, Select
<1>5. StreamSound'
  <2>1. \A s \in Slots : ciParity'[s] = Zero
    BY <1>2 DEF Sound, OfflineSound, store
  <2>3. Sum({}) = Zero
    BY DEF Sum, Zero
  <2>4. \A h \in Hints : HintEntries(h)' \in SUBSET Entries /\ h \in Slots
    BY <1>1, SizeFacts DEF HintEntries, Selected, TypeOK, Entries
  <2>5. \A h \in Backups : /\ BackupEntries(h, 0)' \in SUBSET Entries
                           /\ BackupEntries(h, 1)' \in SUBSET Entries
                           /\ h \in Slots /\ h + Half \in Slots
    <3>1. \A h \in Backups : h \in Slots /\ h + Half \in Slots
      BY SizeFacts DEF Backups, Slots
    <3> QED BY <3>1 DEF BackupEntries, Selected
  <2>6. \A h \in Hints : Seen(HintEntries(h))' = {}
    BY <1>2, <2>4 DEF Seen, Entries, Parts
  <2>7. \A h \in Backups : Seen(BackupEntries(h, 0))' = {}
                           /\ Seen(BackupEntries(h, 1))' = {}
    BY <1>2, <2>5 DEF Seen, Entries, Parts
  <2>8. \A h \in Hints : ciParity'[h] = Sum(Seen(HintEntries(h))')
    BY <2>1, <2>3, <2>4, <2>6
  <2>9. \A h \in Backups : /\ ciParity'[h] = Sum(Seen(BackupEntries(h, 0))')
                           /\ ciParity'[h + Half] = Sum(Seen(BackupEntries(h, 1))')
    BY <2>1, <2>3, <2>5, <2>7
  <2> QED BY <2>8, <2>9 DEF StreamSound
<1> QED
  BY <1>1, <1>2, <1>4, <1>5 DEF Sound, HintsSound, BackupsSound,
     HintsBuilt, QuerySound, AnswersCorrect

(* One partition streamed into all parities. *)
LEMMA StreamStepSound ==
  ASSUME Sound, OfflineStream
  PROVE  Sound'
<1>1. TypeOK /\ TypeOK'
  BY TypeNext DEF Sound, Next
<1>2. /\ pc = "stream" /\ pc' = "stream" /\ i \in Parts /\ i' = i + 1
      /\ i' <= PartNum
      /\ ciParity' = [s \in Slots |-> Add(ciParity[s], Streamed(i, s))]
      /\ UNCHANGED <<prf, hints, SelectCutoff, NextHintIndex, queryResults,
                     damaged>>
  BY <1>1, SizeFacts DEF OfflineStream, TypeOK, Parts
<1>3. OfflineSound'
  BY <1>2 DEF Sound, OfflineSound, hints, Select
<1>4. \A h \in Hints : ciParity'[h] = Sum(Seen(HintEntries(h))')
  <2> SUFFICES ASSUME NEW h \in Hints
               PROVE  ciParity'[h] = Sum(Seen(HintEntries(h))')
    OBVIOUS
  <2>1. HintEntries(h)' = HintEntries(h)
    BY <1>2 DEF HintEntries, hints
  <2>2. ciParity[h] = Sum({e \in HintEntries(h) : e[1] < i})
    BY <1>2 DEF Sound, StreamSound, Seen
  <2>3. HintID[h] = h /\ IndicatorBit[h] = 1 /\ Select(h, ExtraPart[h]) = 0
    BY <1>2 DEF Sound, OfflineSound
  <2>4. ciParity'[h] = Add(ciParity[h], Streamed(i, h))
    BY <1>2, SizeFacts
  <2>5. ciParity'[h] = Sum({e \in HintEntries(h) : e[1] < i + 1})
    BY <1>1, <1>2, <2>2, <2>3, <2>4, StreamHint
  <2> QED BY <1>2, <2>1, <2>5 DEF Seen
<1>5. \A h \in Backups, b \in Bit :
        ciParity[h + b * Half] = Sum({e \in BackupEntries(h, b) : e[1] < i})
        => ciParity'[h + b * Half] = Sum({e \in BackupEntries(h, b) : e[1] < i + 1})
  <2> SUFFICES ASSUME NEW h \in Backups, NEW b \in Bit,
                      ciParity[h + b * Half]
                        = Sum({e \in BackupEntries(h, b) : e[1] < i})
               PROVE  ciParity'[h + b * Half]
                        = Sum({e \in BackupEntries(h, b) : e[1] < i + 1})
    OBVIOUS
  <2>1. h + b * Half \in Slots
    BY SizeFacts
  <2>2. ciParity'[h + b * Half]
          = Add(ciParity[h + b * Half], Streamed(i, h + b * Half))
    BY <1>2, <2>1
  <2> QED BY <1>1, <1>2, <2>2, StreamBackup
<1>6. \A h \in Backups :
        /\ ciParity'[h] = Sum(Seen(BackupEntries(h, 0))')
        /\ ciParity'[h + Half] = Sum(Seen(BackupEntries(h, 1))')
  <2> SUFFICES ASSUME NEW h \in Backups
               PROVE  /\ ciParity'[h] = Sum(Seen(BackupEntries(h, 0))')
                      /\ ciParity'[h + Half] = Sum(Seen(BackupEntries(h, 1))')
    OBVIOUS
  <2>1. /\ BackupEntries(h, 0)' = BackupEntries(h, 0)
        /\ BackupEntries(h, 1)' = BackupEntries(h, 1)
    BY <1>2 DEF BackupEntries
  <2>2. /\ ciParity[h] = Sum({e \in BackupEntries(h, 0) : e[1] < i})
        /\ ciParity[h + Half] = Sum({e \in BackupEntries(h, 1) : e[1] < i})
    BY <1>2 DEF Sound, StreamSound, Seen
  <2>3. h + 0 * Half = h /\ h + 1 * Half = h + Half /\ 0 \in Bit /\ 1 \in Bit
    BY SizeFacts DEF Backups, Bit
  <2>4. /\ ciParity'[h] = Sum({e \in BackupEntries(h, 0) : e[1] < i + 1})
        /\ ciParity'[h + Half] = Sum({e \in BackupEntries(h, 1) : e[1] < i + 1})
    BY <1>5, <2>2, <2>3
  <2> QED BY <1>2, <2>1, <2>4 DEF Seen
<1>7. StreamSound'
  BY <1>4, <1>6 DEF StreamSound
<1> QED
  BY <1>1, <1>2, <1>3, <1>7 DEF Sound, HintsSound, BackupsSound,
     HintsBuilt, QuerySound, AnswersCorrect

(* After the last partition the hints are complete. *)
LEMMA StreamDoneSound ==
  ASSUME Sound, StreamDone
  PROVE  Sound'
<1>1. TypeOK /\ TypeOK'
  BY TypeNext DEF Sound, Next
<1>2. /\ pc = "stream" /\ pc' = "zeros" /\ i = PartNum
      /\ UNCHANGED <<prf, hints, SelectCutoff, ciParity, queryResults, damaged>>
  BY DEF StreamDone
<1>3. \A S \in SUBSET Entries : Seen(S) = S
  <2>1. \A e \in Entries : e[1] < i
    BY <1>2, SizeFacts DEF Entries, Parts
  <2> QED BY <2>1 DEF Seen
<1>4. HintsSound'
  <2> SUFFICES ASSUME NEW h \in Hints
               PROVE  /\ ciParity'[h] = Sum(HintEntries(h)')
                      /\ ~ InHint(h, ExtraPart[h])'
    BY DEF HintsSound
  <2>1. HintEntries(h) \in SUBSET Entries
    <3>1. ExtraPart[h] \in Parts /\ ExtraOffset[h] \in Offsets
      BY <1>1 DEF TypeOK
    <3> QED BY <3>1 DEF HintEntries, Selected, Entries
  <2>2. ciParity[h] = Sum(HintEntries(h))
    BY <1>2, <1>3, <2>1 DEF Sound, StreamSound
  <2>3. HintEntries(h)' = HintEntries(h)
    BY <1>2 DEF HintEntries, hints
  <2>4. HintID[h] = h /\ IndicatorBit[h] = 1 /\ Select(h, ExtraPart[h]) = 0
    BY <1>2 DEF Sound, OfflineSound
  <2>5. ~ InHint(h, ExtraPart[h])'
    BY <1>2, <2>4 DEF InHint, Select, hints
  <2> QED BY <1>2, <2>2, <2>3, <2>5
<1>5. BackupsSound'
  <2> SUFFICES ASSUME NEW h \in Backups
               PROVE  /\ ciParity'[h] = Sum(BackupEntries(h, 0)')
                      /\ ciParity'[h + Half] = Sum(BackupEntries(h, 1)')
    BY DEF BackupsSound
  <2>1. BackupEntries(h, 0) \in SUBSET Entries
        /\ BackupEntries(h, 1) \in SUBSET Entries
    BY DEF BackupEntries, Selected
  <2>2. /\ BackupEntries(h, 0)' = BackupEntries(h, 0)
        /\ BackupEntries(h, 1)' = BackupEntries(h, 1)
    BY <1>2 DEF BackupEntries
  <2> QED BY <1>2, <1>3, <2>1, <2>2 DEF Sound, StreamSound
<1> QED
  BY <1>1, <1>2, <1>4, <1>5 DEF Sound, OfflineSound, StreamSound, QuerySound,
     AnswersCorrect

-----------------------------------------------------------------------------
(* The inductive invariant. *)

(* The inductive invariant holds initially. *)
LEMMA SoundInit == Init => Sound
<1> SUFFICES ASSUME Init PROVE Sound
  OBVIOUS
<1>1. OfflineSound /\ StreamSound
  BY DEF Init, OfflineSound, StreamSound
<1>2. HintsSound /\ BackupsSound
  BY DEF Init, HintsSound, BackupsSound, HintsBuilt
<1>3. QuerySound /\ AnswersCorrect
  BY DEF Init, QuerySound, AnswersCorrect
<1> QED
  BY TypeInit, <1>1, <1>2, <1>3 DEF Sound

(* Every step keeps the inductive invariant. *)
LEMMA SoundNext == Sound /\ [Next]_vars => Sound'
<1> SUFFICES ASSUME Sound, [Next]_vars PROVE Sound'
  OBVIOUS
<1>0. TypeOK'
  BY TypeNext DEF Sound
<1>1. CASE OfflineCutoffs
  BY <1>0, <1>1, SizeFacts DEF OfflineCutoffs, Sound, OfflineSound,
     StreamSound, HintsSound, BackupsSound, HintsBuilt, QuerySound,
     AnswersCorrect, hints
<1>2. ASSUME NEW n \in 0 .. DummyPeriod - 1, OfflineExtra(n) PROVE Sound'
  BY <1>2, ExtraSound
<1>3. CASE ExtrasDone
  BY <1>3, ExtrasDoneSound
<1>4. CASE OfflineStream
  BY <1>4, StreamStepSound
<1>5. CASE StreamDone
  BY <1>5, StreamDoneSound
<1>6. CASE PrecomputeEncZeros
  <2>1. HintsSound' /\ BackupsSound'
    BY <1>6, KeepHints DEF Sound, PrecomputeEncZeros
  <2> QED BY <1>0, <1>6, <2>1 DEF PrecomputeEncZeros, Sound, OfflineSound,
          StreamSound, QuerySound, AnswersCorrect
<1>7. ASSUME NEW q \in Entries, NEW h \in Hints, NEW flip \in Bit,
             SendQuery(q, h, flip)
      PROVE  Sound'
  BY <1>7, SendSound
<1>8. ASSUME NEW q \in Entries, NEW g \in Garbage, NEW b \in Bit,
             NEW flip \in Bit, SendWithoutHint(q, g, b, flip)
      PROVE  Sound'
  <2>1. /\ pc = "ready" /\ pc' = "sent" /\ cur'.hint = M + 1
        /\ UNCHANGED <<prf, hints, store, damaged, queryResults>>
    BY <1>8 DEF SendWithoutHint, Send, ResultBit, CanQuery
  <2>2. HintsSound' /\ BackupsSound'
    BY <2>1, KeepHints DEF Sound
  <2>3. M + 1 \notin Hints
    BY SizeFacts DEF Hints
  <2> QED BY <1>0, <2>1, <2>2, <2>3 DEF Sound, OfflineSound, StreamSound,
          QuerySound, AnswersCorrect
<1>9. CASE NoEncZero
  <2>1. HintsSound' /\ BackupsSound'
    BY <1>9, KeepHints DEF Sound, NoEncZero
  <2> QED BY <1>0, <1>9, <2>1 DEF NoEncZero, Sound, OfflineSound,
          StreamSound, QuerySound, AnswersCorrect
<1>10. CASE Answer
  <2>1. HintsSound' /\ BackupsSound'
    BY <1>10, KeepHints DEF Sound, Answer
  <2>2. QuerySound'
    <3>1. cur.bit \in Bit
      BY DEF Sound, TypeOK
    <3>2. resp'[cur.bit] = Sub(req.c, GroupSum(req.bvec, req.Svec, cur.bit))
      BY <1>10, <3>1 DEF Answer, OnlineQuery
    <3> QED BY <1>10, <3>2 DEF Answer, Sound, QuerySound
  <2> QED BY <1>0, <1>10, <2>1, <2>2 DEF Answer, Sound, OfflineSound,
          StreamSound, AnswersCorrect
<1>11. ASSUME NEW n \in Backups, Refresh(n) PROVE Sound'
  BY <1>11, RefreshSound
<1>12. CASE NoBackup
  <2>1. HintsSound' /\ BackupsSound'
    BY <1>12, KeepHints DEF Sound, NoBackup
  <2> QED BY <1>0, <1>12, <2>1 DEF NoBackup, Sound, OfflineSound,
          StreamSound, QuerySound, AnswersCorrect
<1>13. CASE LoopDone
  <2>1. HintsSound' /\ BackupsSound'
    BY <1>13, KeepHints DEF Sound, LoopDone
  <2> QED BY <1>0, <1>13, <2>1 DEF LoopDone, Sound, OfflineSound,
          StreamSound, QuerySound, AnswersCorrect
<1>14. CASE UNCHANGED vars
  <2>1. OfflineSound'
    BY <1>14 DEF vars, hints, store, Sound, OfflineSound, Select
  <2>2. StreamSound'
    BY <1>14 DEF vars, hints, store, Sound, StreamSound, Seen, HintEntries,
                 BackupEntries
  <2>3. HintsSound' /\ BackupsSound'
    BY <1>14 DEF vars, hints, store, Sound, HintsSound, BackupsSound,
                 HintsBuilt, HintEntries, BackupEntries, InHint
  <2>4. QuerySound' /\ AnswersCorrect'
    BY <1>14 DEF vars, Sound, QuerySound, AnswersCorrect
  <2> QED BY <1>0, <2>1, <2>2, <2>3, <2>4 DEF Sound
<1> QED
  BY <1>1, <1>2, <1>3, <1>4, <1>5, <1>6, <1>7, <1>8, <1>9, <1>10, <1>11,
     <1>12, <1>13, <1>14 DEF Next, Ended

(* The inductive invariant of the client. *)
LEMMA SoundAlways == Spec => []Sound
BY SoundInit, SoundNext, PTL DEF Spec

(* Offline, and every refresh, leaves every valid hint with the parity of  *)
(* exactly the entries it names.                                           *)
THEOREM HintsAlwaysSound == Spec => []HintsSound
<1>1. Sound => HintsSound
  BY DEF Sound
<1> QED BY <1>1, SoundAlways, PTL

(* Both parities of every unused backup hint are right. *)
THEOREM BackupsAlwaysSound == Spec => []BackupsSound
<1>1. Sound => BackupsSound
  BY DEF Sound
<1> QED BY <1>1, SoundAlways, PTL

(* Every recorded result of a query that found a hint is the queried       *)
(* entry: for every database, since results are formal sums.               *)
THEOREM AnswersAlwaysCorrect == Spec => []AnswersCorrect
<1>1. Sound => AnswersCorrect
  BY DEF Sound
<1> QED BY <1>1, SoundAlways, PTL

-----------------------------------------------------------------------------
(* The client implements the lookup service. *)

(* The service starts in its setup phase. *)
LEMMA ServiceInit == Init => Service!Init
BY DEF Init, Service!Init, ServicePhase, OpenQuestion

(* Steps a user of the service does not see. *)
LEMMA ServiceStutter ==
  ASSUME UNCHANGED <<queryResults, damaged, cur>>,
         \/ pc' = pc
         \/ {pc, pc'} \subseteq {"cutoffs", "extras", "stream", "zeros"}
         \/ {pc, pc'} \subseteq {"sent", "answered"}
  PROVE  UNCHANGED Service!vars
<1>1. ServicePhase' = ServicePhase
  BY DEF ServicePhase
<1>2. OpenQuestion' = OpenQuestion
  BY DEF OpenQuestion
<1> QED BY <1>1, <1>2 DEF Service!vars

(* Sending a query asks a question. *)
LEMMA ServiceSend ==
  ASSUME NEW q \in Entries, NEW h, NEW id, NEW ep, NEW eo, NEW b, NEW flip,
         pc = "ready", Send(q, h, id, ep, eo, b, flip)
  PROVE  Service!Next
<1> DEFINE covered == h \in Hints
<1>1. ServicePhase = "idle" /\ ServicePhase' = "busy"
  BY DEF ServicePhase, Send, ResultBit
<1>2. OpenQuestion' = {[key |-> q, covered |-> covered]}
  BY DEF OpenQuestion, Send, ResultBit
<1>3. covered \in BOOLEAN
  OBVIOUS
<1> HIDE DEF covered
<1>4. Service!Ask(q, covered)
  BY <1>1, <1>2 DEF Service!Ask, Send, ResultBit
<1> QED BY <1>3, <1>4 DEF Service!Next

(* A refresh gives the answer, or ends the service at the assertion. *)
LEMMA ServiceRefresh ==
  ASSUME Sound, NEW n \in Backups, Refresh(n)
  PROVE  Service!Next
<1> DEFINE covered == cur.hint \in Hints
           p == [key |-> cur.query, covered |-> covered]
           v == resp[cur.bit]
<1>1. ServicePhase = "busy" /\ OpenQuestion = {p} /\ OpenQuestion' = {}
  BY DEF ServicePhase, OpenQuestion, Refresh, NextBackup, NewIndicator,
     NewParity, BackupsLeft
<1>2. p.covered => damaged' = damaged
  <2>1. covered => cur.hint # M + 1
    BY SizeFacts DEF Hints
  <2>2. covered => (damaged' <=> damaged)
    BY <2>1 DEF Refresh, NextBackup, NewIndicator, NewParity, BackupsLeft
  <2>3. damaged \in BOOLEAN /\ damaged' \in BOOLEAN
    BY TypeNext DEF Sound, Next, TypeOK
  <2> QED BY <2>2, <2>3
<1>3. v \in FormalSum
  BY DEF Sound, TypeOK
<1>4. ~ damaged /\ covered => v = Unit(cur.query)
  BY DEF Sound, QuerySound, Refresh, NextBackup, NewIndicator, NewParity,
     BackupsLeft
<1>5. cur.query \in Entries
  BY DEF Sound, TypeOK
<1>6. CASE n + 1 < M + Half
  <2> DEFINE rec == [query |-> cur.query, result |-> v, hit |-> covered]
  <2>1. queryResults' = Append(queryResults, rec) /\ pc' = "ready"
    BY <1>6 DEF Refresh, NextBackup, NewIndicator, NewParity, BackupsLeft
  <2>2. queryResults \in Seq([query : Entries, result : FormalSum,
                              hit : BOOLEAN])
    BY DEF Sound, TypeOK
  <2>3. rec.result = v
    OBVIOUS
  <2>4. queryResults' # << >> /\ queryResults'[Len(queryResults')] = rec
    <3> HIDE DEF rec
    <3> QED BY <2>1, <2>2
  <2>5. ServicePhase' = "idle"
    BY <2>1 DEF ServicePhase
  <2>6. rec = Service!Record(p, v)
    BY DEF Service!Record
  <2>7. p.covered <=> covered
    OBVIOUS
  <2>8. ~ damaged /\ p.covered => v = [e \in Entries |-> Unit(e)][p.key]
    BY <1>4, <1>5, <2>7
  <2> HIDE DEF rec, p, v, covered
  <2>9. Service!Reply(p)
    BY <1>1, <1>2, <1>3, <2>1, <2>3, <2>4, <2>5, <2>6, <2>8
       DEF Service!Reply, Service!MayDegrade
  <2> QED BY <1>1, <2>9 DEF Service!Next
<1>7. CASE ~ (n + 1 < M + Half)
  <2>1. queryResults' = queryResults /\ pc' = "aborted"
    BY <1>7 DEF Refresh, NextBackup, NewIndicator, NewParity, BackupsLeft
  <2>2. ServicePhase' = "stopped"
    BY <2>1 DEF ServicePhase
  <2> HIDE DEF p
  <2>3. Service!Fail(p)
    BY <1>1, <1>2, <2>1, <2>2 DEF Service!Fail, Service!MayDegrade
  <2> QED BY <1>1, <2>3 DEF Service!Next
<1> QED
  BY <1>6, <1>7

(* Every step of the client is a step of the service or none. *)
LEMMA ServiceNext == Sound /\ [Next]_vars => [Service!Next]_(Service!vars)
<1> SUFFICES ASSUME Sound, [Next]_vars
             PROVE  Service!Next \/ UNCHANGED Service!vars
  OBVIOUS
<1>1. CASE OfflineCutoffs
  BY <1>1, ServiceStutter DEF OfflineCutoffs
<1>2. ASSUME NEW n \in 0 .. DummyPeriod - 1, OfflineExtra(n)
      PROVE  UNCHANGED Service!vars
  BY <1>2, ServiceStutter DEF OfflineExtra
<1>3. CASE ExtrasDone
  BY <1>3, ServiceStutter DEF ExtrasDone
<1>4. CASE OfflineStream
  BY <1>4, ServiceStutter DEF OfflineStream
<1>5. CASE StreamDone
  BY <1>5, ServiceStutter DEF StreamDone
<1>6. CASE PrecomputeEncZeros
  <2>1. Service!Open
    BY <1>6 DEF PrecomputeEncZeros, Service!Open, ServicePhase, OpenQuestion
  <2> QED BY <2>1 DEF Service!Next
<1>7. ASSUME NEW q \in Entries, NEW h \in Hints, NEW flip \in Bit,
             SendQuery(q, h, flip)
      PROVE  Service!Next
  BY <1>7, ServiceSend DEF SendQuery, CanQuery
<1>8. ASSUME NEW q \in Entries, NEW g \in Garbage, NEW b \in Bit,
             NEW flip \in Bit, SendWithoutHint(q, g, b, flip)
      PROVE  Service!Next
  BY <1>8, ServiceSend DEF SendWithoutHint, CanQuery
<1>9. CASE NoEncZero
  <2>1. Service!Stop
    BY <1>9 DEF NoEncZero, Service!Stop, ServicePhase, OpenQuestion
  <2> QED BY <2>1 DEF Service!Next
<1>10. CASE Answer
  BY <1>10, ServiceStutter DEF Answer
<1>11. ASSUME NEW n \in Backups, Refresh(n) PROVE Service!Next
  BY <1>11, ServiceRefresh
<1>12. CASE NoBackup
  <2>1. \A p \in OpenQuestion : Service!Fail(p)
    BY <1>12 DEF NoBackup, Service!Fail, Service!MayDegrade, ServicePhase,
                 OpenQuestion
  <2>2. OpenQuestion # {}
    BY <1>12 DEF NoBackup, OpenQuestion
  <2> QED BY <2>1, <2>2 DEF Service!Next
<1>13. CASE LoopDone
  <2>1. Service!Stop
    BY <1>13 DEF LoopDone, Service!Stop, ServicePhase, OpenQuestion
  <2> QED BY <2>1 DEF Service!Next
<1>14. CASE UNCHANGED vars
  BY <1>14, ServiceStutter DEF vars
<1> QED
  BY <1>1, <1>2, <1>3, <1>4, <1>5, <1>6, <1>7, <1>8, <1>9, <1>10, <1>11,
     <1>12, <1>13, <1>14 DEF Next, Ended

(* The client with its server implements the lookup service: questions are *)
(* answered one at a time, in order, and rightly when a hint covers them.  *)
THEOREM ClientImplementsLookup == Spec => ImplementsLookup
BY ServiceInit, ServiceNext, SoundAlways, PTL
   DEF Spec, ImplementsLookup, Service!Spec


-----------------------------------------------------------------------------
(***************************************************************************)
(* What the client's queries give away and what they use up, for every     *)
(* database shape, every PRF and every sequence of queries: each query     *)
(* names half of the partitions, no hint ID is used twice, a query can be  *)
(* repeated, and the client gives up only when its backup hints are spent. *)
(***************************************************************************)

(* Counting partitions. *)

(* The partitions can be counted. *)
LEMMA PartsFinite ==
  /\ IsFiniteSet(Parts) /\ Cardinality(Parts) = PartNum
  /\ \A S \in SUBSET Parts : IsFiniteSet(S) /\ Cardinality(S) \in Nat
<1>1. 0 \in Int /\ PartNum - 1 \in Int /\ ~ (0 > PartNum - 1)
  BY SizeFacts
<1>2. IsFiniteSet(0 .. PartNum - 1)
      /\ Cardinality(0 .. PartNum - 1) = PartNum - 1 - 0 + 1
  BY <1>1, FS_Interval
<1>3. IsFiniteSet(Parts) /\ Cardinality(Parts) = PartNum
  BY <1>2, SizeFacts DEF Parts
<1> QED
  BY <1>3, FS_Subset, FS_CardinalityType

(* A valid cutoff has half of the row's values below it: the median that   *)
(* FindCutoff accepts is a value of the row that occurs once.              *)
LEMMA CutoffHalves ==
  ASSUME NEW row \in [Parts -> Nat], FindCutoff(row) # 0
  PROVE  Cardinality({k \in Parts : row[k] < FindCutoff(row)}) = PartNum \div 2
<1> DEFINE below(c) == {k \in Parts : row[k] < c}
           lower    == below(LowerFilter)
           upper    == {k \in Parts : row[k] > UpperFilter}
           median   == {k \in Parts \ (lower \cup upper) :
                          /\ Cardinality(below(row[k])) = PartNum \div 2
                          /\ \A j \in Parts \ {k} : row[j] # row[k]}
           chosen   == CHOOSE k \in median : TRUE
<1>1. median # {} /\ FindCutoff(row) = row[chosen]
  BY DEF FindCutoff
<1>2. chosen \in median
  <2> HIDE DEF median
  <2> QED BY <1>1
<1>3. Cardinality(below(row[chosen])) = PartNum \div 2
  <2> HIDE DEF chosen
  <2> QED BY <1>2
<1> HIDE DEF median, chosen
<1> QED BY <1>1, <1>3

(* Moving one partition out of a group and one into it keeps its size. *)
LEMMA SwapKeepsSize ==
  ASSUME NEW S \in SUBSET Parts, NEW x \in S, NEW y \in Parts, y \notin S
  PROVE  Cardinality((S \ {x}) \cup {y}) = Cardinality(S)
<1>1. IsFiniteSet(S) /\ Cardinality(S) \in Nat
  BY PartsFinite
<1>2. IsFiniteSet(S \ {x}) /\ Cardinality(S \ {x}) = Cardinality(S) - 1
  BY <1>1, FS_RemoveElement
<1>3. Cardinality((S \ {x}) \cup {y}) = Cardinality(S \ {x}) + 1
  BY <1>2, FS_AddElement
<1> QED BY <1>1, <1>2, <1>3

(* The partitions outside a half are a half, their number being even. *)
LEMMA OtherHalf ==
  ASSUME NEW S \in SUBSET Parts, Cardinality(S) = PartNum \div 2
  PROVE  Cardinality(Parts \ S) = PartNum \div 2
<1>1. Parts \cap S = S
  OBVIOUS
<1>2. Cardinality(Parts \ S) = Cardinality(Parts) - Cardinality(Parts \cap S)
  BY PartsFinite, FS_Difference
<1>3. Cardinality(Parts \ S) = PartNum - PartNum \div 2
  BY <1>1, <1>2, PartsFinite
<1> QED BY <1>3, SizeAssumption

(* A query built from a hint with a valid cutoff puts half of the          *)
(* partitions in either group, whichever entry it asks for.                *)
LEMMA QueryHalves ==
  ASSUME TypeOK, NEW q \in Entries, NEW h \in Hints, NEW flip \in Bit,
         q \in HintEntries(h), ~ InHint(h, ExtraPart[h]),
         SelectCutoff[h] # 0,
         SelectCutoff[h] = FindCutoff(prf.v[HintID[h]]),
         NEW R, R = BuildQuery(q, h, HintID[h], ExtraPart[h], ExtraOffset[h],
                               IndicatorBit[h], flip)
  PROVE  Cardinality({k \in Parts : R.bvec[k] = 1}) = PartNum \div 2
<1> DEFINE id == HintID[h]
           ep == ExtraPart[h]
           b  == IndicatorBit[h]
           sel(k) == PRF4Select(prf, id, k, SelectCutoff[h])
           T  == {k \in Parts : sel(k) = 1}
           raw(k) == IF k = q[1] THEN Not(b) ELSE IF ep = k THEN b ELSE sel(k)
           U  == {k \in Parts : raw(k) = 1}
<1>1. id \in HintIds /\ ep \in Parts /\ b \in Bit /\ prf \in PrfTable
      /\ q[1] \in Parts
  BY DEF TypeOK, Entries
<1>2. \A k : sel(k) \in Bit
  BY SelectType
<1>3. Cardinality(T) = PartNum \div 2
  <2>1. prf.v[id] \in [Parts -> Nat]
    BY <1>1 DEF PrfTable
  <2>2. T = {k \in Parts : prf.v[id][k] < FindCutoff(prf.v[id])}
    BY DEF PRF4Select
  <2> HIDE DEF T, id
  <2> QED BY <2>1, <2>2, CutoffHalves DEF id
<1>4. sel(ep) = Not(b)
  BY <1>1, <1>2 DEF InHint, Not, Bit
<1>5. q[1] = ep \/ sel(q[1]) = b
  <2>1. q \in Selected(prf, id, SelectCutoff[h], b) \/ q[1] = ep
    BY DEF HintEntries
  <2> QED BY <2>1 DEF Selected
<1>6. R.bvec = [k \in Parts |-> Xor(raw(k), flip)]
  BY DEF BuildQuery
<1> HIDE DEF id, ep, b, sel
<1>7. \A k : raw(k) \in Bit
  BY <1>1, <1>2 DEF Not, Bit
<1>8. Cardinality(U) = PartNum \div 2
  <2>1. CASE q[1] = ep
    <3>1. U = T
      BY <1>4, <2>1
    <3> QED BY <3>1, <1>3
  <2>2. CASE q[1] # ep /\ b = 1
    <3>1. sel(q[1]) = 1 /\ sel(ep) = 0
      BY <1>4, <1>5, <2>2 DEF Not
    <3>2. U = (T \ {q[1]}) \cup {ep}
      BY <1>1, <3>1, <2>2 DEF Not
    <3>3. q[1] \in T /\ ep \notin T
      BY <1>1, <3>1
    <3> HIDE DEF T, U
    <3> QED BY <1>1, <1>3, <3>2, <3>3, SwapKeepsSize DEF T
  <2>3. CASE q[1] # ep /\ b = 0
    <3>1. sel(q[1]) = 0 /\ sel(ep) = 1
      BY <1>4, <1>5, <2>3 DEF Not
    <3>2. U = (T \ {ep}) \cup {q[1]}
      BY <1>1, <3>1, <2>3 DEF Not
    <3>3. ep \in T /\ q[1] \notin T
      BY <1>1, <3>1
    <3> HIDE DEF T, U
    <3> QED BY <1>1, <1>3, <3>2, <3>3, SwapKeepsSize DEF T
  <2> QED BY <1>1, <2>1, <2>2, <2>3 DEF Bit
<1>9. {k \in Parts : R.bvec[k] = 1} = IF flip = 0 THEN U ELSE Parts \ U
  <2> HIDE DEF raw
  <2>1. \A k \in Parts : R.bvec[k] = 1 <=> raw(k) # flip
    BY <1>6 DEF Xor
  <2>2. \A k \in Parts : R.bvec[k] = 1 <=> IF flip = 0 THEN raw(k) = 1
                                           ELSE raw(k) # 1
    BY <1>7, <2>1 DEF Bit
  <2> QED BY <2>2
<1> HIDE DEF raw
<1>10. U \in SUBSET Parts
  OBVIOUS
<1> HIDE DEF U
<1> QED BY <1>8, <1>9, <1>10, OtherHalf


-----------------------------------------------------------------------------
(* Counting backup hints. *)

(* The valid backup hints can be counted. *)
LEMMA ValidFinite ==
  \A S \in SUBSET ValidBackups : IsFiniteSet(S) /\ Cardinality(S) \in Nat
<1>1. IsFiniteSet(M .. M + Half - 1)
  <2>1. M \in Int /\ M + Half - 1 \in Int
    BY SizeFacts
  <2> QED BY <2>1, FS_Interval
<1>2. IsFiniteSet(Backups)
  BY <1>1 DEF Backups
<1>3. \A S \in SUBSET ValidBackups : S \in SUBSET Backups
  BY DEF ValidBackups
<1> QED BY <1>2, <1>3, FS_Subset, FS_CardinalityType

(* Taking backup hint n spends exactly one valid backup hint: those the    *)
(* search passed over have no cutoff.                                      *)
LEMMA SpendOne ==
  ASSUME TypeOK, CutoffsKept, ~ damaged, pc = "answered",
         NEW n \in Backups, NextBackup(n)
  PROVE  /\ {h \in ValidBackups : h < n + 1} = Spent \cup {n}
         /\ Cardinality(Spent \cup {n}) = Cardinality(Spent) + 1
<1>1. \A m \in Backups : m \in Int
  BY SizeFacts DEF Backups
<1>2. NextHintIndex \in Int /\ n \in Int /\ NextHintIndex <= n
  BY <1>1, SizeFacts DEF TypeOK, NextBackup
<1>3. \A m \in Backups : m >= NextHintIndex =>
        SelectCutoff[m] = FindCutoff(prf.v[m])
  BY DEF CutoffsKept
<1>4. n \in ValidBackups /\ n \notin Spent
  BY <1>2, <1>3 DEF NextBackup, ValidBackups, Spent
<1>5. \A m \in ValidBackups : m < n + 1 <=> (m < NextHintIndex \/ m = n)
  <2> SUFFICES ASSUME NEW m \in ValidBackups
               PROVE  m < n + 1 <=> (m < NextHintIndex \/ m = n)
    OBVIOUS
  <2>1. m \in Backups /\ m \in Int /\ FindCutoff(prf.v[m]) # 0
    BY <1>1 DEF ValidBackups
  <2>2. m >= NextHintIndex /\ m < n => SelectCutoff[m] = 0
    BY <1>2, <2>1 DEF NextBackup
  <2>3. ~ (m >= NextHintIndex /\ m < n)
    BY <1>3, <2>1, <2>2
  <2> QED BY <1>2, <2>1, <2>3
<1>6. {h \in ValidBackups : h < n + 1} = Spent \cup {n}
  BY <1>4, <1>5 DEF Spent
<1>7. IsFiniteSet(Spent)
  BY ValidFinite DEF Spent
<1>8. Cardinality(Spent \cup {n}) = Cardinality(Spent) + 1
  BY <1>4, <1>7, FS_AddElement
<1> QED BY <1>6, <1>8

(* Nothing is spent before the first query. *)
LEMMA NothingSpent == NextHintIndex = M => Cardinality(Spent) = 0
<1> SUFFICES ASSUME NextHintIndex = M PROVE Cardinality(Spent) = 0
  OBVIOUS
<1>1. \A h \in ValidBackups : ~ (h < NextHintIndex)
  BY SizeFacts DEF ValidBackups, Backups
<1>2. Spent = {}
  BY <1>1 DEF Spent
<1> QED BY <1>2, FS_EmptySet

-----------------------------------------------------------------------------
(* The inductive invariant, action by action. *)

(* Steps of the query loop that leave the hints and the results alone keep *)
(* the cutoffs, the IDs and the count.                                     *)
LEMMA KeepSupply ==
  ASSUME Supplied, UNCHANGED <<prf, hints, store, queryResults, damaged>>,
         pc \in {"zeros", "ready", "sent", "answered"},
         pc' \in {"ready", "sent", "answered", "done", "threw", "aborted"}
  PROVE  CutoffsKept' /\ IDsFresh' /\ ResultsCounted'
<1>1. CutoffsKept'
  BY DEF Supplied, CutoffsKept, hints, store
<1>2. IDsFresh'
  BY DEF Supplied, IDsFresh, hints, store
<1>3. Spent' = Spent
  BY DEF Spent, ValidBackups, store
<1>4. ResultsCounted'
  BY <1>3 DEF Supplied, ResultsCounted, store
<1> QED BY <1>1, <1>2, <1>4

(* The offline steps. *)
LEMMA OfflineSupply ==
  ASSUME Supplied, Sound',
         \/ OfflineCutoffs
         \/ \E n \in 0 .. DummyPeriod - 1 : OfflineExtra(n)
         \/ ExtrasDone \/ OfflineStream \/ StreamDone
  PROVE  Supplied'
<1>1. /\ pc \in {"cutoffs", "extras", "stream"}
      /\ pc' \in {"extras", "stream", "zeros"}
      /\ prf' = prf /\ queryResults' = queryResults /\ damaged' = damaged
  BY DEF OfflineCutoffs, OfflineExtra, ExtrasDone, OfflineStream, StreamDone
<1>2. NextHintIndex = M /\ NextHintIndex' = M
  BY DEF OfflineCutoffs, OfflineExtra, ExtrasDone, OfflineStream, StreamDone,
     Supplied, Sound, OfflineSound, store
<1>3. queryResults = << >> /\ ~ damaged
  BY <1>1 DEF Supplied, ResultsCounted
<1>4. CutoffsKept'
  <2>1. CASE OfflineCutoffs
    <3>1. \A h \in HintIds : SelectCutoff'[h] = FindCutoff(prf.v[h])
      BY <2>1 DEF OfflineCutoffs
    <3>2. pc' = "extras"
      BY <2>1 DEF OfflineCutoffs
    <3> QED BY <1>1, <3>1, <3>2, SizeFacts DEF CutoffsKept
  <2>2. CASE pc = "extras" /\ pc' = "extras" /\ SelectCutoff' = SelectCutoff
    BY <1>1, <1>2, <1>3, <2>2 DEF Supplied, CutoffsKept
  <2>3. CASE ExtrasDone
    <3>1. \A h \in Hints : HintID'[h] = h
      BY <2>3 DEF ExtrasDone, Sound, OfflineSound
    <3> QED BY <1>1, <1>2, <1>3, <2>3, <3>1
            DEF Supplied, CutoffsKept, ExtrasDone, store
  <2>4. CASE OfflineStream \/ StreamDone
    BY <1>1, <1>2, <1>3, <2>4 DEF Supplied, CutoffsKept, OfflineStream,
       StreamDone, hints
  <2>5. \/ OfflineCutoffs \/ ExtrasDone \/ OfflineStream \/ StreamDone
        \/ pc = "extras" /\ pc' = "extras" /\ SelectCutoff' = SelectCutoff
    BY DEF OfflineExtra, store
  <2> QED BY <2>1, <2>2, <2>3, <2>4, <2>5
<1>5. IDsFresh'
  <2> SUFFICES ASSUME pc' = "zeros" PROVE IDsFresh'
    BY <1>1 DEF IDsFresh
  <2>1. StreamDone
    BY <1>1 DEF OfflineCutoffs, OfflineExtra, ExtrasDone, OfflineStream
  <2>2. \A h \in Hints : HintID'[h] = h /\ h < M
    BY <2>1, SizeFacts DEF StreamDone, hints, Supplied, Sound, OfflineSound,
       Hints
  <2> QED BY <1>2, <2>2 DEF IDsFresh
<1>6. ResultsCounted'
  <2>1. Cardinality(Spent') = 0
    <3>1. Spent' = Spent
      BY <1>1, <1>2 DEF Spent, ValidBackups
    <3> QED BY <1>2, <3>1, NothingSpent
  <2>2. Len(queryResults') = 0
    BY <1>1, <1>3
  <2> QED BY <1>1, <1>2, <1>3, <2>1, <2>2 DEF ResultsCounted
<1>7. QueryBalanced' /\ RepeatedQueryHits' /\ AbortOnlyWhenUsedUp'
  BY <1>1 DEF QueryBalanced, RepeatedQueryHits, AbortOnlyWhenUsedUp
<1> QED BY <1>4, <1>5, <1>6, <1>7 DEF Supplied

(* A query sent from a hint is balanced. *)
LEMMA SendSupply ==
  ASSUME Supplied, Sound', NEW q \in Entries, NEW h \in Hints,
         NEW flip \in Bit, SendQuery(q, h, flip)
  PROVE  Supplied'
<1>1. /\ pc = "ready" /\ pc' = "sent" /\ cur'.hint = h
      /\ req' = BuildQuery(q, h, HintID[h], ExtraPart[h], ExtraOffset[h],
                           IndicatorBit[h], flip)
      /\ UNCHANGED <<prf, hints, store, queryResults, damaged>>
  BY DEF SendQuery, Send, CanQuery
<1>2. CutoffsKept' /\ IDsFresh' /\ ResultsCounted'
  BY <1>1, KeepSupply
<1>3. QueryBalanced'
  <2> SUFFICES ASSUME ~ damaged
               PROVE  Cardinality({k \in Parts : req'.bvec[k] = 1}) = PartNum \div 2
    BY <1>1 DEF QueryBalanced
  <2>1. SelectCutoff[h] # 0 /\ q \in HintEntries(h)
    BY MatchIsEntry DEF SendQuery, FirstMatch
  <2>2. TypeOK /\ ~ InHint(h, ExtraPart[h])
    BY <1>1, <2>1 DEF Supplied, Sound, HintsSound, HintsBuilt
  <2>3. SelectCutoff[h] = FindCutoff(prf.v[HintID[h]])
    BY <1>1 DEF Supplied, CutoffsKept
  <2> QED BY <1>1, <2>1, <2>2, <2>3, QueryHalves
<1>4. RepeatedQueryHits' /\ AbortOnlyWhenUsedUp'
  BY <1>1 DEF RepeatedQueryHits, AbortOnlyWhenUsedUp
<1> QED BY <1>2, <1>3, <1>4 DEF Supplied

(* A refresh: the backup hint takes the place of the used hint. *)
LEMMA RefreshSupply ==
  ASSUME Supplied, Sound', NEW n \in Backups, Refresh(n)
  PROVE  Supplied'
<1> DEFINE h == cur.hint
<1>1. /\ pc = "answered" /\ NextBackup(n) /\ prf' = prf
      /\ HintID' = Put(HintID, h, n)
      /\ SelectCutoff' = Put(SelectCutoff, h, SelectCutoff[n])
      /\ ExtraPart' = Put(ExtraPart, h, cur.query[1])
      /\ ExtraOffset' = Put(ExtraOffset, h, cur.query[2])
      /\ NextHintIndex' = n + 1
      /\ damaged' <=> (damaged \/ (h = M + 1 /\ n <= M))
  BY DEF Refresh
<1>2. /\ n + 1 < M + Half =>
           /\ pc' = "ready"
           /\ queryResults' =
                Append(queryResults, [query |-> cur.query,
                                      result |-> resp[cur.bit],
                                      hit |-> h \in Hints])
      /\ ~ (n + 1 < M + Half) => pc' = "aborted" /\ queryResults' = queryResults
  BY DEF Refresh, BackupsLeft
<1>3. TypeOK /\ TypeOK'
  BY DEF Supplied, Sound
<1>4. /\ n \in Int /\ NextHintIndex \in Int /\ NextHintIndex <= n /\ M <= n
      /\ n < M + Half
  BY <1>1, <1>3, SizeFacts DEF TypeOK, NextBackup, Backups
<1>5. /\ \A g \in Hints : g \in Int /\ g < M
      /\ \A m \in Backups : m \in Int /\ M <= m /\ m < M + Half
      /\ h \in Hints \/ h = M + 1
  <2>1. h \in Hints \/ h = M + 1
    BY <1>3 DEF TypeOK
  <2>2. \A g \in Hints : g \in Int /\ g < M
    BY SizeFacts DEF Hints
  <2>3. \A m \in Backups : m \in Int /\ M <= m /\ m < M + Half
    BY SizeFacts DEF Backups
  <2> QED BY <2>1, <2>2, <2>3
<1>6. /\ \A g \in Hints : HintID'[g] = IF g = h THEN n ELSE HintID[g]
      /\ \A m \in HintIds : SelectCutoff'[m]
                               = IF m = h THEN SelectCutoff[n] ELSE SelectCutoff[m]
  BY <1>1, <1>3 DEF TypeOK, Put
<1> HIDE DEF h
<1>7. CutoffsKept'
  <2> SUFFICES ASSUME ~ damaged'
               PROVE  /\ \A m \in Backups : m >= n + 1 =>
                           SelectCutoff'[m] = FindCutoff(prf.v[m])
                      /\ \A g \in Hints : SelectCutoff'[g]
                                           = FindCutoff(prf.v[HintID'[g]])
    BY <1>1, <1>2 DEF CutoffsKept
  <2>1. ~ damaged /\ (h = M + 1 => n > M)
    BY <1>1, <1>4, SizeFacts
  <2>2. /\ \A m \in Backups : m >= NextHintIndex =>
             SelectCutoff[m] = FindCutoff(prf.v[m])
        /\ \A g \in Hints : SelectCutoff[g] = FindCutoff(prf.v[HintID[g]])
    BY <1>1, <2>1 DEF Supplied, CutoffsKept
  <2>3. \A m \in Backups : m >= n + 1 =>
           m # h /\ m >= NextHintIndex /\ m \in HintIds
    BY <1>4, <1>5, <2>1, SizeFacts
  <2>4. SelectCutoff[n] = FindCutoff(prf.v[n])
    BY <1>4, <2>2
  <2> QED BY <1>6, <2>2, <2>3, <2>4, SizeFacts
<1>8. IDsFresh'
  <2>1. \A f, g \in Hints : /\ HintID[g] \in Int /\ HintID[g] < NextHintIndex
                            /\ f # g => HintID[f] # HintID[g]
    BY <1>1, <1>3, SizeFacts DEF Supplied, IDsFresh, TypeOK, HintIds
  <2>2. \A g \in Hints : HintID[g] < n /\ HintID[g] < n + 1 /\ n < n + 1
    BY <1>4, <2>1
  <2>3. \A f, g \in Hints : HintID'[g] < n + 1 /\ (f # g => HintID'[f] # HintID'[g])
    BY <1>4, <1>6, <2>1, <2>2
  <2> QED BY <1>1, <2>3 DEF IDsFresh
<1>9. ResultsCounted' /\ AbortOnlyWhenUsedUp'
  <2> SUFFICES ASSUME ~ damaged'
               PROVE  /\ pc' # "aborted" => Cardinality(Spent') = Len(queryResults')
                      /\ pc' = "aborted" =>
                           Len(queryResults') + 1 >= Cardinality(ValidBackups')
    BY <1>2 DEF ResultsCounted, AbortOnlyWhenUsedUp
  <2>1. ~ damaged
    BY <1>1
  <2>2. /\ {m \in ValidBackups : m < n + 1} = Spent \cup {n}
        /\ Cardinality(Spent \cup {n}) = Cardinality(Spent) + 1
    BY <1>1, <1>3, <2>1, SpendOne DEF Supplied
  <2>3. Cardinality(Spent) = Len(queryResults)
    BY <1>1, <2>1 DEF Supplied, ResultsCounted
  <2>4. ValidBackups' = ValidBackups /\ Spent' = {m \in ValidBackups : m < n + 1}
    BY <1>1 DEF ValidBackups, Spent
  <2>5. Cardinality(Spent') = Len(queryResults) + 1
    BY <2>2, <2>3, <2>4
  <2>6. CASE n + 1 < M + Half
    <3>1. Len(queryResults') = Len(queryResults) + 1
      BY <1>2, <1>3, <2>6 DEF TypeOK
    <3> QED BY <1>2, <2>5, <2>6, <3>1
  <2>7. CASE ~ (n + 1 < M + Half)
    <3>1. Spent' = ValidBackups'
      <4>1. \A m \in ValidBackups : m < n + 1
        BY <1>4, <1>5, <2>7, SizeFacts DEF ValidBackups
      <4> QED BY <2>4, <4>1
    <3>2. Len(queryResults) \in Nat
      BY <1>3 DEF TypeOK
    <3> QED BY <1>2, <2>5, <2>7, <3>1, <3>2
  <2> QED BY <2>6, <2>7
<1>10. RepeatedQueryHits'
  <2>0. PICK q \in Entries : q = cur.query
    BY <1>3 DEF TypeOK
  <2> DEFINE ok  == h \in Hints
             rec == [query |-> q, result |-> resp[cur.bit], hit |-> ok]
  <2>1. q = <<q[1], q[2]>>
    BY DEF Entries
  <2>2. h \in Hints => h \in Matches(q)'
    <3> SUFFICES ASSUME h \in Hints PROVE h \in Matches(q)'
      OBVIOUS
    <3>1. SelectCutoff'[h] # 0
      BY <1>1, <1>6, SizeFacts DEF NextBackup
    <3>2. ExtraPart'[h] = q[1] /\ ExtraOffset'[h] = q[2]
      BY <1>1, <1>3, <2>0 DEF TypeOK, Put, h
    <3> QED BY <2>1, <3>1, <3>2 DEF Matches
  <2>3. CASE n + 1 < M + Half
    <3>1. queryResults' = Append(queryResults, rec)
      BY <1>2, <2>0, <2>3 DEF h
    <3>2. queryResults \in Seq([query : Entries, result : FormalSum,
                                hit : BOOLEAN])
      BY <1>3 DEF TypeOK
    <3>3. queryResults'[Len(queryResults')] = rec
      <4> HIDE DEF rec
      <4> QED BY <3>1, <3>2
    <3>4. rec.query = q /\ (rec.hit <=> h \in Hints)
      OBVIOUS
    <3>5. PICK r : r = rec
      OBVIOUS
    <3> HIDE DEF rec, ok
    <3>6. r.query = q /\ (r.hit <=> h \in Hints) /\ queryResults'[Len(queryResults')] = r
      BY <3>3, <3>4, <3>5
    <3>7. r.hit => Matches(r.query)' # {}
      BY <2>2, <3>6
    <3> QED BY <3>6, <3>7 DEF RepeatedQueryHits, Matches
  <2>4. CASE ~ (n + 1 < M + Half)
    BY <1>2, <2>4 DEF RepeatedQueryHits
  <2> QED BY <2>3, <2>4
<1>11. QueryBalanced'
  BY <1>2 DEF QueryBalanced
<1> QED BY <1>7, <1>8, <1>9, <1>10, <1>11 DEF Supplied

(* The client gives up when no backup hint is left. *)
LEMMA NoBackupSupply ==
  ASSUME Supplied, Sound', NoBackup
  PROVE  Supplied'
<1>1. /\ pc = "answered" /\ pc' = "aborted"
      /\ UNCHANGED <<prf, hints, store, queryResults, damaged>>
      /\ \A m \in NextHintIndex .. M + Half - 1 : SelectCutoff[m] = 0
  BY DEF NoBackup
<1>2. CutoffsKept' /\ IDsFresh' /\ ResultsCounted'
  BY <1>1, KeepSupply
<1>3. AbortOnlyWhenUsedUp'
  <2> SUFFICES ASSUME ~ damaged
               PROVE  Len(queryResults) + 1 >= Cardinality(ValidBackups)
    BY <1>1 DEF AbortOnlyWhenUsedUp, ValidBackups
  <2>1. \A m \in ValidBackups : m < NextHintIndex
    <3> SUFFICES ASSUME NEW m \in ValidBackups, ~ (m < NextHintIndex)
                 PROVE  FALSE
      OBVIOUS
    <3>1. m \in Backups /\ FindCutoff(prf.v[m]) # 0
      BY DEF ValidBackups
    <3>2. m \in NextHintIndex .. M + Half - 1 /\ m >= NextHintIndex
      BY <3>1, SizeFacts DEF Backups, Supplied, Sound, TypeOK
    <3>3. SelectCutoff[m] = FindCutoff(prf.v[m])
      BY <1>1, <3>1, <3>2 DEF Supplied, CutoffsKept
    <3> QED BY <1>1, <3>1, <3>2, <3>3
  <2>2. Spent = ValidBackups
    BY <2>1 DEF Spent
  <2>3. Cardinality(ValidBackups) = Len(queryResults)
    BY <1>1, <2>2 DEF Supplied, ResultsCounted
  <2>4. Len(queryResults) \in Nat
    BY DEF Supplied, Sound, TypeOK
  <2> QED BY <2>3, <2>4
<1>4. QueryBalanced' /\ RepeatedQueryHits'
  BY <1>1 DEF QueryBalanced, RepeatedQueryHits
<1> QED BY <1>2, <1>3, <1>4 DEF Supplied

(* The inductive invariant holds initially. *)
LEMMA SuppliedInit == Init => Supplied
<1> SUFFICES ASSUME Init PROVE Supplied
  OBVIOUS
<1>1. CutoffsKept /\ IDsFresh
  BY DEF Init, CutoffsKept, IDsFresh
<1>2. ResultsCounted
  <2>1. Cardinality(Spent) = 0
    BY NothingSpent DEF Init
  <2>2. Len(queryResults) = 0
    BY DEF Init
  <2> QED BY <2>1, <2>2 DEF Init, ResultsCounted
<1>3. QueryBalanced /\ RepeatedQueryHits /\ AbortOnlyWhenUsedUp
  BY DEF Init, QueryBalanced, RepeatedQueryHits, AbortOnlyWhenUsedUp
<1> QED BY <1>1, <1>2, <1>3, SoundInit DEF Supplied

(* Every step keeps the inductive invariant. *)
LEMMA SuppliedNext == Supplied /\ [Next]_vars => Supplied'
<1> SUFFICES ASSUME Supplied, [Next]_vars PROVE Supplied'
  OBVIOUS
<1>0. Sound'
  BY SoundNext DEF Supplied
<1>1. CASE \/ OfflineCutoffs
           \/ \E n \in 0 .. DummyPeriod - 1 : OfflineExtra(n)
           \/ ExtrasDone \/ OfflineStream \/ StreamDone
  BY <1>0, <1>1, OfflineSupply
<1>2. CASE PrecomputeEncZeros
  <2>1. /\ pc = "zeros" /\ pc' = "ready"
        /\ UNCHANGED <<prf, hints, store, queryResults, damaged>>
    BY <1>2 DEF PrecomputeEncZeros
  <2>2. CutoffsKept' /\ IDsFresh' /\ ResultsCounted'
    BY <2>1, KeepSupply
  <2>3. queryResults' = << >>
    BY <2>1 DEF Supplied, ResultsCounted
  <2> QED BY <1>0, <2>1, <2>2, <2>3 DEF Supplied, QueryBalanced,
          RepeatedQueryHits, AbortOnlyWhenUsedUp
<1>3. ASSUME NEW q \in Entries, NEW h \in Hints, NEW flip \in Bit,
             SendQuery(q, h, flip)
      PROVE  Supplied'
  BY <1>0, <1>3, SendSupply
<1>4. ASSUME NEW q \in Entries, NEW g \in Garbage, NEW b \in Bit,
             NEW flip \in Bit, SendWithoutHint(q, g, b, flip)
      PROVE  Supplied'
  <2>1. /\ pc = "ready" /\ pc' = "sent" /\ cur'.hint = M + 1
        /\ UNCHANGED <<prf, hints, store, queryResults, damaged>>
    BY <1>4 DEF SendWithoutHint, Send, CanQuery
  <2>2. CutoffsKept' /\ IDsFresh' /\ ResultsCounted'
    BY <2>1, KeepSupply
  <2>3. M + 1 \notin Hints
    BY SizeFacts DEF Hints
  <2> QED BY <1>0, <2>1, <2>2, <2>3 DEF Supplied, QueryBalanced,
          RepeatedQueryHits, AbortOnlyWhenUsedUp
<1>5. CASE NoEncZero \/ Answer \/ LoopDone
  <2>1. /\ pc \in {"ready", "sent"} /\ pc' \in {"threw", "answered", "done"}
        /\ UNCHANGED <<prf, hints, store, queryResults, damaged>>
    BY <1>5 DEF NoEncZero, Answer, LoopDone
  <2>2. CutoffsKept' /\ IDsFresh' /\ ResultsCounted'
    BY <2>1, KeepSupply
  <2> QED BY <1>0, <2>1, <2>2 DEF Supplied, QueryBalanced,
          RepeatedQueryHits, AbortOnlyWhenUsedUp
<1>6. ASSUME NEW n \in Backups, Refresh(n) PROVE Supplied'
  BY <1>0, <1>6, RefreshSupply
<1>7. CASE NoBackup
  BY <1>0, <1>7, NoBackupSupply
<1>8. CASE UNCHANGED vars
  <2>1. CutoffsKept' /\ IDsFresh'
    BY <1>8 DEF vars, hints, store, Supplied, CutoffsKept, IDsFresh
  <2>2. ResultsCounted' /\ AbortOnlyWhenUsedUp'
    BY <1>8 DEF vars, store, Supplied, ResultsCounted, AbortOnlyWhenUsedUp,
                Spent, ValidBackups
  <2>3. QueryBalanced' /\ RepeatedQueryHits'
    BY <1>8 DEF vars, hints, store, Supplied, QueryBalanced,
                RepeatedQueryHits, Matches
  <2> QED BY <1>0, <2>1, <2>2, <2>3 DEF Supplied
<1> QED
  BY <1>1, <1>2, <1>3, <1>4, <1>5, <1>6, <1>7, <1>8 DEF Next, Ended

-----------------------------------------------------------------------------
(* The theorems. *)

(* The inductive invariant of the client: sound hints, median cutoffs,     *)
(* fresh IDs and one spent backup hint per result, in every state.         *)
THEOREM AlwaysSupplied == Spec => []Supplied
BY SuppliedInit, SuppliedNext, PTL DEF Spec

(* Every query built from a hint names half of the partitions in either    *)
(* group, whatever it asks for: the server learns nothing from the sizes.  *)
THEOREM QueriesAlwaysBalanced == Spec => []QueryBalanced
<1>1. Supplied => QueryBalanced
  BY DEF Supplied
<1> QED BY <1>1, AlwaysSupplied, PTL

(* No backup hint is used twice: two valid hints never share an ID.        *)
THEOREM HintIDsAlwaysDistinct == Spec => []HintIDsDistinct
<1>1. Supplied => HintIDsDistinct
  BY DEF Supplied, IDsFresh, HintIDsDistinct, HintsBuilt
<1> QED BY <1>1, AlwaysSupplied, PTL

(* After a query that found a hint its entry is covered again. *)
THEOREM RepeatedQueriesAlwaysHit == Spec => []RepeatedQueryHits
<1>1. Supplied => RepeatedQueryHits
  BY DEF Supplied
<1> QED BY <1>1, AlwaysSupplied, PTL

(* Every completed query costs exactly one valid backup hint: the client   *)
(* aborts only when at most one of them was left.                          *)
THEOREM AbortsOnlyWhenUsedUp == Spec => []AbortOnlyWhenUsedUp
<1>1. Supplied => AbortOnlyWhenUsedUp
  BY DEF Supplied
<1> QED BY <1>1, AlwaysSupplied, PTL

(* A refresh writes the parity of the used hint and of no other slot, and  *)
(* moves on to later backup hints; no other online step writes a parity.   *)
THEOREM RefreshesAreLocal == Spec => RefreshIsLocal
<1> DEFINE Local ==
      (pc \in {"zeros", "ready", "sent", "answered"} /\ cur.hint \in Hints) =>
         \A s \in Slots : ciParity'[s] # ciParity[s] =>
           s = cur.hint /\ NextHintIndex' > NextHintIndex
<1>1. ASSUME TypeOK, [Next]_vars PROVE Local
  <2>1. ASSUME NEW n \in Backups, Refresh(n) PROVE Local
    <3>1. /\ ciParity' = Put(ciParity, cur.hint,
                            Add(ciParity[n + NewIndicator(n) * Half],
                                resp[cur.bit]))
          /\ NextHintIndex' = n + 1 /\ n >= NextHintIndex
      BY <2>1 DEF Refresh, NewParity, NextBackup
    <3>2. \A s \in Slots : s # cur.hint => ciParity'[s] = ciParity[s]
      BY <1>1, <3>1 DEF TypeOK, Put
    <3>3. NextHintIndex' > NextHintIndex
      BY <1>1, <3>1, SizeFacts DEF TypeOK, Backups
    <3> QED BY <3>2, <3>3
  <2>2. CASE ciParity' = ciParity
    BY <2>2
  <2>3. CASE pc \in {"cutoffs", "extras", "stream"}
    BY <2>3
  <2>4. \/ \E n \in Backups : Refresh(n)
        \/ ciParity' = ciParity
        \/ pc \in {"cutoffs", "extras", "stream"}
    BY <1>1 DEF Next, vars, store, OfflineCutoffs, OfflineExtra, ExtrasDone,
       OfflineStream, StreamDone, PrecomputeEncZeros, SendQuery,
       SendWithoutHint, Send, NoEncZero, Answer, NoBackup, LoopDone, Ended
  <2> QED BY <2>1, <2>2, <2>3, <2>4
<1>2. TypeOK /\ [Next]_vars => [Local]_vars
  BY <1>1
<1> QED BY <1>2, TypeCorrect, PTL DEF Spec, RefreshIsLocal

=============================================================================

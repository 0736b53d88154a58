----------------------------- MODULE OneSVClient -----------------------------
(***************************************************************************)
(* The client of PPFE and its dialogue with the server: the offline phase  *)
(* that builds the hints (OneSVClient::Offline), and the query loop of     *)
(* client_main.cpp (find a hint, build the query, receive the answer,      *)
(* replace the used hint by a backup hint).  The client runs one thread;   *)
(* every loop body or message exchange is one step.                        *)
(*                                                                         *)
(* A query that finds no hint goes on with index M + 1, as find_hint       *)
(* returns it: past the end of HintID, ExtraPart, ExtraOffset and          *)
(* IndicatorBit (M elements), inside SelectCutoff and ciParity (2 * M).    *)
(* Reads past an array give any value of Garbage (an offset past the       *)
(* partition would only change that query's answer, which no property      *)
(* constrains); writes past an array land in the allocator's slack and     *)
(* reach no other modelled array.                                          *)
(***************************************************************************)
EXTENDS PirBase, Sequences

CONSTANTS
  NumQueries,    \* bound: iterations of the query loop
  EncZeroCount,  \* Enc(0) ciphertexts prepared by precomputeEncZeros
  Garbage        \* what a read past the hint arrays may return

ASSUME QueryAssumption ==
  /\ NumQueries \in Nat /\ EncZeroCount \in Nat
  /\ Garbage \subseteq [id : HintIds, part : Nat, offset : Offsets]

-----------------------------------------------------------------------------
(* The server: it encrypts the database partition by partition and answers *)
(* a query with two candidate values, one per group of partitions.         *)

(* Partition k as a polynomial: coefficient o is entry o of the partition. *)
EncryptedDB == [k \in Parts |-> [o \in Offsets |-> Unit(<<k, o>>)]]

(* Coefficient PartSize - 1 of the polynomial times X^s.  No coefficient   *)
(* wraps around with a minus sign, as s < PartSize <= polynomial degree.   *)
ShiftedCoeff(poly, s) == poly[PartSize - 1 - s]

(* The sum of the entries the query names in the partitions of group b. *)
GroupSum(bvec, Svec, b) ==
  Sum({e \in Entries : bvec[e[1]] = b /\ e[2] = Svec[e[1]]})

(* Both candidate answers: the decrypted coefficient minus either group. *)
OnlineQuery(req) ==
  [b \in Bit |-> Sub(req.c, GroupSum(req.bvec, req.Svec, b))]

-----------------------------------------------------------------------------
(* The client.                                                             *)

VARIABLES
  prf,           \* the PRF under the client's key
  pc,            \* phase of the client
  i,             \* loop counter of the current phase
  HintID, ExtraPart, ExtraOffset, IndicatorBit,   \* the M hints
  SelectCutoff,  \* cutoffs of hints and backup hints
  ciParity,      \* parities: M hints, then Half backup hints for either bit
  NextHintIndex, \* next backup hint
  dummyIdxUsed,  \* draws from the dummy index stream
  encZeroNext,   \* Enc(0) ciphertexts used
  cur,           \* locals of the query in progress
  req,           \* the query message
  resp,          \* the server's two candidate answers
  queryResults,  \* the results, in order
  damaged        \* history: a query without a hint overwrote a live backup

hints == <<HintID, ExtraPart, ExtraOffset, IndicatorBit>>
store == <<SelectCutoff, ciParity, NextHintIndex>>
vars  == <<prf, pc, i, hints, store, dummyIdxUsed, encZeroNext, cur, req,
           resp, queryResults, damaged>>

Phases == {"cutoffs", "extras", "stream", "zeros", "ready", "sent",
           "answered", "done", "aborted", "threw"}
NoCur  == [query |-> <<0, 0>>, hint |-> 0, bit |-> 0]
NoReq  == [bvec |-> [k \in Parts |-> 0], Svec |-> [k \in Parts |-> 0],
           c |-> Zero]
NoResp == [b \in Bit |-> Zero]

Select(h, k) == PRF4Select(prf, h, k, SelectCutoff[h])
Idx(h, k)    == PRF4Idx(prf, h, k) % PartSize
Dummy(n)     == DummyIdx(prf, dummyIdxUsed + n)

(* Write v at index x of an array; outside the array nothing modelled      *)
(* changes.                                                                *)
Put(f, x, v) == [y \in DOMAIN f |-> IF y = x THEN v ELSE f[y]]

Init ==
  /\ prf \in PrfTables
  /\ pc = "cutoffs" /\ i = 0
  /\ HintID = [h \in Hints |-> 0]
  /\ ExtraPart = [h \in Hints |-> 0]
  /\ ExtraOffset = [h \in Hints |-> 0]
  /\ IndicatorBit = [h \in Hints |-> 1]
  /\ SelectCutoff = [h \in HintIds |-> 0]
  /\ ciParity = [s \in Slots |-> Zero]
  /\ NextHintIndex = M
  /\ dummyIdxUsed = 0 /\ encZeroNext = 0
  /\ cur = NoCur /\ req = NoReq /\ resp = NoResp
  /\ queryResults = << >> /\ damaged = FALSE

-----------------------------------------------------------------------------
(* Offline phase. *)

(* The cutoff of every hint and backup hint. *)
OfflineCutoffs ==
  /\ pc = "cutoffs"
  /\ SelectCutoff' = [h \in HintIds |-> FindCutoff(prf.v[h])]
  /\ pc' = "extras"
  /\ UNCHANGED <<prf, i, hints, ciParity, NextHintIndex, dummyIdxUsed,
                 encZeroNext, cur, req, resp, queryResults, damaged>>

MutantOfflineExtra(n) ==   \* the offset is not reduced to the partition
  /\ pc = "extras" /\ i < M
  /\ Select(i, Dummy(n) % PartNum) = 0
  /\ \A m \in 0 .. n - 1 : Select(i, Dummy(m) % PartNum) = 1
  /\ HintID' = Put(HintID, i, i)
  /\ ExtraPart' = Put(ExtraPart, i, Dummy(n) % PartNum)
  /\ ExtraOffset' = Put(ExtraOffset, i, Dummy(n + 1))
  /\ dummyIdxUsed' = dummyIdxUsed + n + 2
  /\ i' = i + 1
  /\ UNCHANGED <<prf, pc, IndicatorBit, store, encZeroNext, cur, req, resp,
                 queryResults, damaged>>

MutantDrawnOnce(n) ==   \* a partition that is refused is not drawn again
  /\ pc = "extras" /\ i < M /\ n = 0
  /\ IF Select(i, Dummy(0) % PartNum) = 1 THEN UNCHANGED vars
     ELSE /\ HintID' = Put(HintID, i, i)
          /\ ExtraPart' = Put(ExtraPart, i, Dummy(0) % PartNum)
          /\ ExtraOffset' = Put(ExtraOffset, i, Dummy(1) % PartSize)
          /\ dummyIdxUsed' = dummyIdxUsed + 2
          /\ i' = i + 1
          /\ UNCHANGED <<prf, pc, IndicatorBit, store, encZeroNext, cur, req, resp,
                         queryResults, damaged>>

(* Hint i draws partitions until draw n is one it does not select, then an *)
(* offset in it.                                                           *)
OfflineExtra(n) ==
  /\ pc = "extras" /\ i < M
  /\ Select(i, Dummy(n) % PartNum) = 0
  /\ \A m \in 0 .. n - 1 : Select(i, Dummy(m) % PartNum) = 1
  /\ HintID' = Put(HintID, i, i)
  /\ ExtraPart' = Put(ExtraPart, i, Dummy(n) % PartNum)
  /\ ExtraOffset' = Put(ExtraOffset, i, Dummy(n + 1) % PartSize)
  /\ dummyIdxUsed' = dummyIdxUsed + n + 2
  /\ i' = i + 1
  /\ UNCHANGED <<prf, pc, IndicatorBit, store, encZeroNext, cur, req, resp,
                 queryResults, damaged>>

ExtrasDone ==
  /\ pc = "extras" /\ i = M
  /\ pc' = "stream" /\ i' = 0
  /\ UNCHANGED <<prf, hints, store, dummyIdxUsed, encZeroNext, cur, req,
                 resp, queryResults, damaged>>

(* Partition k is streamed: what it adds to the parity in slot s.  Slot s  *)
(* of a hint takes the entry the hint selects or its extra entry; slots of *)
(* backup hint h take its entry where the select bit is 0 (slot h) or 1    *)
(* (slot h + Half).                                                        *)
EntryAt(k, r) == ShiftedCoeff(EncryptedDB[k], PartSize - r - 1)

BackupOf(s) == IF s < M + Half THEN s ELSE s - Half

MutantStreamed(k, s) ==   \* the halves of a backup hint are swapped
  IF s < M
  THEN IF Select(s, k) = 1 THEN EntryAt(k, Idx(s, k))
       ELSE IF ExtraPart[s] = k THEN EntryAt(k, ExtraOffset[s]) ELSE Zero
  ELSE IF /\ BackupOf(s) \in Backups
          /\ s = BackupOf(s) + Not(Select(BackupOf(s), k)) * Half
       THEN EntryAt(k, Idx(BackupOf(s), k)) ELSE Zero

MutantStreamedNoExtra(k, s) ==   \* the extra entry is left out
  IF s < M
  THEN IF Select(s, k) = 1 THEN EntryAt(k, Idx(s, k)) ELSE Zero
  ELSE IF /\ BackupOf(s) \in Backups
          /\ s = BackupOf(s) + Select(BackupOf(s), k) * Half
       THEN EntryAt(k, Idx(BackupOf(s), k)) ELSE Zero

Streamed(k, s) ==
  IF s < M
  THEN IF Select(s, k) = 1 THEN EntryAt(k, Idx(s, k))
       ELSE IF ExtraPart[s] = k THEN EntryAt(k, ExtraOffset[s]) ELSE Zero
  ELSE IF /\ BackupOf(s) \in Backups
          /\ s = BackupOf(s) + Select(BackupOf(s), k) * Half
       THEN EntryAt(k, Idx(BackupOf(s), k)) ELSE Zero

OfflineStream ==
  /\ pc = "stream" /\ i < PartNum
  /\ ciParity' = [s \in Slots |-> Add(ciParity[s], Streamed(i, s))]
  /\ i' = i + 1
  /\ UNCHANGED <<prf, pc, hints, SelectCutoff, NextHintIndex, dummyIdxUsed,
                 encZeroNext, cur, req, resp, queryResults, damaged>>

StreamDone ==
  /\ pc = "stream" /\ i = PartNum
  /\ NextHintIndex' = M
  /\ pc' = "zeros" /\ i' = 0
  /\ UNCHANGED <<prf, hints, SelectCutoff, ciParity, dummyIdxUsed,
                 encZeroNext, cur, req, resp, queryResults, damaged>>

PrecomputeEncZeros ==
  /\ pc = "zeros"
  /\ encZeroNext' = 0
  /\ pc' = "ready"
  /\ UNCHANGED <<prf, i, hints, store, dummyIdxUsed, cur, req, resp,
                 queryResults, damaged>>

-----------------------------------------------------------------------------
(* Online phase: iteration i of the query loop asks for entry q. *)

MutantMatches(q) ==   \* the extra entry is not looked at
  {h \in Hints :
     /\ SelectCutoff[h] # 0
     /\ PRF4Idx(prf, HintID[h], q[1]) % PartSize = q[2]
     /\ PRF4Select(prf, HintID[h], q[1], SelectCutoff[h]) = IndicatorBit[h]}

(* The hints find_hint accepts for entry q. *)
Matches(q) ==
  {h \in Hints :
     /\ SelectCutoff[h] # 0
     /\ \/ <<ExtraPart[h], ExtraOffset[h]>> = q
        \/ /\ PRF4Idx(prf, HintID[h], q[1]) % PartSize = q[2]
           /\ PRF4Select(prf, HintID[h], q[1], SelectCutoff[h])
                = IndicatorBit[h]}

FirstMatch(q, h) == h \in Matches(q) /\ \A g \in Matches(q) : h <= g

(* After a search in vain b_indicator is that of the last valid hint. *)
LastIndicator(b) ==
  LET valid == {h \in Hints : SelectCutoff[h] # 0}
  IN  IF valid = {} THEN b = 0
      ELSE \E h \in valid : b = IndicatorBit[h] /\ \A g \in valid : g <= h

MutantBuildQuery(q, h, id, ep, eo, b, flip) ==   \* the extra partition stays
  LET sel(k)  == PRF4Select(prf, id, k, SelectCutoff[h])   \* in its group
      real(k) == k # q[1] /\ (ep = k \/ sel(k) = b)
  IN  [bvec |-> [k \in Parts |-> Xor(IF k = q[1] THEN Not(b) ELSE sel(k), flip)],
       Svec |-> [k \in Parts |-> IF ~ real(k) THEN Dummy(0) % PartSize
                                 ELSE IF ep = k THEN eo
                                 ELSE PRF4Idx(prf, id, k) % PartSize],
       c    |-> ciParity[h]]

(***************************************************************************)
(* The query built from hint index h with ID id, extra entry (ep, eo) and  *)
(* indicator b.  The queried partition changes groups and gets a dummy     *)
(* offset, the extra partition joins the hint's group; the dummy offsets   *)
(* are drawn in the order of the partitions.                               *)
(***************************************************************************)
BuildQuery(q, h, id, ep, eo, b, flip) ==
  LET sel(k)  == PRF4Select(prf, id, k, SelectCutoff[h])
      real(k) == /\ k # q[1]
                 /\ ep = k \/ sel(k) = b
      drawn(k) == Cardinality({j \in Parts : j < k /\ ~ real(j)})
  IN  [bvec |-> [k \in Parts |-> Xor(IF k = q[1] THEN Not(b)
                                     ELSE IF ep = k THEN b ELSE sel(k), flip)],
       Svec |-> [k \in Parts |-> IF ~ real(k) THEN Dummy(drawn(k)) % PartSize
                                 ELSE IF ep = k THEN eo
                                 ELSE PRF4Idx(prf, id, k) % PartSize],
       c    |-> ciParity[h]]

DummiesDrawn(q, h, id, ep, b) ==
  Cardinality({k \in Parts : \/ k = q[1]
                             \/ /\ ep # k
                                /\ PRF4Select(prf, id, k, SelectCutoff[h]) # b})

(* Which of the two candidate answers the client will pick: that of the    *)
(* group the queried partition is not in.                                  *)
MutantResultBit(b, flip) == IF Not(b) = 1 THEN 0 ELSE 1   \* flip forgotten
ResultBit(b, flip) == IF Xor(Not(b), flip) = 1 THEN 0 ELSE 1

(* What client_main.cpp does with hint index h from find_hint. *)
Send(q, h, id, ep, eo, b, flip) ==
  /\ req' = BuildQuery(q, h, id, ep, eo, b, flip)
  /\ cur' = [query |-> q, hint |-> h, bit |-> ResultBit(b, flip)]
  /\ dummyIdxUsed' = dummyIdxUsed + DummiesDrawn(q, h, id, ep, b)
  /\ encZeroNext' = encZeroNext + 1
  /\ pc' = "sent"
  /\ UNCHANGED <<prf, i, hints, store, resp, queryResults, damaged>>

CanQuery == pc = "ready" /\ i < NumQueries /\ encZeroNext < EncZeroCount

SendQuery(q, h, flip) ==
  /\ CanQuery
  /\ FirstMatch(q, h)
  /\ Send(q, h, HintID[h], ExtraPart[h], ExtraOffset[h], IndicatorBit[h], flip)

SendWithoutHint(q, g, b, flip) ==
  /\ CanQuery
  /\ Matches(q) = {} /\ LastIndicator(b)
  /\ Send(q, M + 1, g.id, g.part, g.offset, b, flip)

(* getNextEncZero throws rather than hand out a randomizer twice. *)
NoEncZero ==
  /\ pc = "ready" /\ i < NumQueries /\ encZeroNext >= EncZeroCount
  /\ pc' = "threw"
  /\ UNCHANGED <<prf, i, hints, store, dummyIdxUsed, encZeroNext, cur, req,
                 resp, queryResults, damaged>>

(* The server's side of one query. *)
Answer ==
  /\ pc = "sent"
  /\ resp' = OnlineQuery(req)
  /\ req' = NoReq
  /\ pc' = "answered"
  /\ UNCHANGED <<prf, i, hints, store, dummyIdxUsed, encZeroNext, cur,
                 queryResults, damaged>>

(* Backup hint n is the next valid one. *)
MutantNextBackup(n) ==   \* the search starts over at the first backup hint
  /\ n >= M /\ SelectCutoff[n] # 0
  /\ \A m \in M .. n - 1 : SelectCutoff[m] = 0
NextBackup(n) ==
  /\ n >= NextHintIndex
  /\ SelectCutoff[n] # 0
  /\ \A m \in NextHintIndex .. n - 1 : SelectCutoff[m] = 0

(* The indicator of backup hint n once it stands for a hint: the half of   *)
(* its partitions that excludes the queried one.                           *)
MutantNewIndicator(n) == Select(n, cur.query[1])   \* not negated
NewIndicator(n) == Not(Select(n, cur.query[1]))

(* Hint h gets the parity of that half plus the queried entry. *)
MutantNewParity(h, n, b, result) ==   \* the entry is added in place
  LET sum == Add(ciParity[n + b * Half], result)
  IN  Put(Put(ciParity, n + b * Half, sum), h, sum)
NewParity(h, n, b, result) ==
  Put(ciParity, h, Add(ciParity[n + b * Half], result))

(* assert(nextIdx < M + M / 2). *)
MutantBackupsLeft(n) == n + 1 < M + Half - 1
BackupsLeft(n) == n + 1 < M + Half

(***************************************************************************)
(* The oblivious transfer hands over candidate cur.bit.  Backup hint n,    *)
(* the next valid one, replaces the used hint with the queried entry as    *)
(* its extra entry.  The assertion that a backup is left comes before the  *)
(* result is recorded.                                                     *)
(***************************************************************************)
Refresh(n) ==
  LET result == resp[cur.bit]
      h      == cur.hint
      b      == NewIndicator(n)
  IN  /\ pc = "answered"
      /\ NextBackup(n)
      /\ HintID' = Put(HintID, h, n)
      /\ SelectCutoff' = Put(SelectCutoff, h, SelectCutoff[n])
      /\ ExtraPart' = Put(ExtraPart, h, cur.query[1])
      /\ ExtraOffset' = Put(ExtraOffset, h, cur.query[2])
      /\ IndicatorBit' = Put(IndicatorBit, h, b)
      /\ ciParity' = NewParity(h, n, b, result)
      /\ NextHintIndex' = n + 1
      /\ IF BackupsLeft(n)
         THEN /\ queryResults' =
                   Append(queryResults, [query |-> cur.query,
                                         result |-> result,
                                         hit |-> h \in Hints])
              /\ pc' = "ready" /\ i' = i + 1
         ELSE pc' = "aborted" /\ UNCHANGED <<queryResults, i>>
      /\ damaged' = (damaged \/ (h = M + 1 /\ n <= M))
      /\ cur' = NoCur /\ resp' = NoResp
      /\ UNCHANGED <<prf, dummyIdxUsed, encZeroNext, req>>

(* No valid backup is left: the search runs into the uninitialised end of  *)
(* SelectCutoff, and the assertion (or the bad read) ends the process.     *)
NoBackup ==
  /\ pc = "answered"
  /\ \A m \in NextHintIndex .. M + Half - 1 : SelectCutoff[m] = 0
  /\ pc' = "aborted"
  /\ UNCHANGED <<prf, i, hints, store, dummyIdxUsed, encZeroNext, cur, req,
                 resp, queryResults, damaged>>

LoopDone ==
  /\ pc = "ready" /\ i = NumQueries
  /\ pc' = "done"
  /\ UNCHANGED <<prf, i, hints, store, dummyIdxUsed, encZeroNext, cur, req,
                 resp, queryResults, damaged>>

(* The process has ended. *)
Ended ==
  /\ pc \in {"done", "aborted", "threw"}
  /\ UNCHANGED vars

Next ==
  \/ OfflineCutoffs
  \/ \E n \in 0 .. DummyPeriod - 1 : OfflineExtra(n)
  \/ ExtrasDone
  \/ OfflineStream
  \/ StreamDone
  \/ PrecomputeEncZeros
  \/ \E q \in Entries, h \in Hints, flip \in Bit : SendQuery(q, h, flip)
  \/ \E q \in Entries, g \in Garbage, b, flip \in Bit :
       SendWithoutHint(q, g, b, flip)
  \/ NoEncZero
  \/ Answer
  \/ \E n \in Backups : Refresh(n)
  \/ NoBackup
  \/ LoopDone
  \/ Ended

Spec == Init /\ [][Next]_vars

(* The client and the server each run one thread that never idles. *)
FairSpec == Spec /\ WF_vars(Next)

-----------------------------------------------------------------------------
(* Properties. *)

(* The entries hint h stands for: one per partition it selects, and the    *)
(* extra entry.                                                            *)
InHint(h, k) ==
  PRF4Select(prf, HintID[h], k, SelectCutoff[h]) = IndicatorBit[h]

HintEntries(h) ==
  Selected(prf, HintID[h], SelectCutoff[h], IndicatorBit[h])
    \cup {<<ExtraPart[h], ExtraOffset[h]>>}

(* The entries of backup hint h in the partitions with select bit b. *)
BackupEntries(h, b) == Selected(prf, h, SelectCutoff[h], b)

(* Hints built offline and not yet damaged by a query without a hint. *)
HintsBuilt == pc \notin {"cutoffs", "extras", "stream"} /\ ~ damaged

(* Every variable has its type: indices stay within the client's arrays.   *)
TypeOK ==
  /\ prf \in PrfTable /\ pc \in Phases /\ i \in Nat
  /\ HintID \in [Hints -> HintIds]
  /\ ExtraPart \in [Hints -> Parts]
  /\ ExtraOffset \in [Hints -> Offsets]
  /\ IndicatorBit \in [Hints -> Bit]
  /\ SelectCutoff \in [HintIds -> Nat]
  /\ ciParity \in [Slots -> FormalSum]
  /\ NextHintIndex \in M .. M + Half
  /\ dummyIdxUsed \in Nat /\ encZeroNext \in Nat
  /\ cur \in [query : Entries, hint : Hints \cup {M + 1}, bit : Bit]
  /\ req \in [bvec : [Parts -> Bit], Svec : [Parts -> Offsets],
              c : FormalSum]
  /\ resp \in [Bit -> FormalSum]
  /\ queryResults \in Seq([query : Entries, result : FormalSum,
                           hit : BOOLEAN])
  /\ damaged \in BOOLEAN

(* Every valid hint's ciphertext is the sum of exactly the entries its     *)
(* PRF, indicator bit and extra entry name, and the extra entry lies in a  *)
(* partition the hint does not select.  Offline and every refresh must     *)
(* keep it; the decrypted answer is only as good as this.                  *)
HintsSound ==
  HintsBuilt => \A h \in Hints :
    SelectCutoff[h] # 0 =>
      /\ ciParity[h] = Sum(HintEntries(h))
      /\ ~ InHint(h, ExtraPart[h])

(* Both ciphertexts of every backup hint not yet used are the sums of its  *)
(* two halves (the dst = hint_i + b * M / 2 layout of Offline).            *)
BackupsSound ==
  HintsBuilt => \A h \in Backups : h >= NextHintIndex =>
    /\ ciParity[h] = Sum(BackupEntries(h, 0))
    /\ ciParity[h + Half] = Sum(BackupEntries(h, 1))

(* While the database is streamed, every hint and backup hint holds        *)
(* exactly its entries of the partitions already seen.                     *)
Seen(S) == {e \in S : e[1] < i}

StreamSound ==
  pc = "stream" =>
    /\ \A h \in Hints : ciParity[h] = Sum(Seen(HintEntries(h)))
    /\ \A h \in Backups :
         /\ ciParity[h] = Sum(Seen(BackupEntries(h, 0)))
         /\ ciParity[h + Half] = Sum(Seen(BackupEntries(h, 1)))

(* The candidate the oblivious transfer picks is the queried entry, for    *)
(* every recorded result of a query that found a hint.                     *)
AnswersCorrect ==
  ~ damaged => \A n \in 1 .. Len(queryResults) :
    queryResults[n].hit => queryResults[n].result = Unit(queryResults[n].query)

(* What the offline loops have established so far.  With StreamSound it    *)
(* makes HintsSound inductive.                                             *)
OfflineSound ==
  /\ pc \in {"cutoffs", "extras", "stream"} =>
       IndicatorBit = [h \in Hints |-> 1] /\ NextHintIndex = M
  /\ pc \in {"cutoffs", "extras"} => ciParity = [s \in Slots |-> Zero]
  /\ pc = "cutoffs" => i = 0
  /\ pc = "extras" =>
       i <= M /\ \A h \in 0 .. i - 1 : HintID[h] = h /\ Select(h, ExtraPart[h]) = 0
  /\ pc = "stream" =>
       i <= PartNum /\ \A h \in Hints : HintID[h] = h /\ Select(h, ExtraPart[h]) = 0

(* The query in progress: the group the client will pick takes everything  *)
(* but the queried entry away from the hint's parity.                      *)
QuerySound ==
  ~ damaged /\ cur.hint \in Hints =>
    /\ pc = "sent" =>
         Sub(req.c, GroupSum(req.bvec, req.Svec, cur.bit)) = Unit(cur.query)
    /\ pc = "answered" => resp[cur.bit] = Unit(cur.query)

(* The inductive invariant of module OneSVClientProofs. *)
Sound ==
  /\ TypeOK
  /\ OfflineSound /\ StreamSound
  /\ HintsSound /\ BackupsSound
  /\ QuerySound /\ AnswersCorrect

(* A query built from a hint puts half of the partitions in either group,  *)
(* whatever it asks for: the median cutoff, the moved query partition and  *)
(* the extra partition balance out.                                        *)
QueryBalanced ==
  pc = "sent" /\ cur.hint \in Hints /\ ~ damaged =>
    Cardinality({k \in Parts : req.bvec[k] = 1}) = PartNum \div 2

(* Right after a query its entry is covered again: the refreshed hint has  *)
(* it as its extra entry, so that asking again cannot miss.                *)
RepeatedQueryHits ==
  pc = "ready" /\ queryResults # << >> =>
    LET last == queryResults[Len(queryResults)]
    IN  last.hit => Matches(last.query) # {}

(* Two valid hints never share a hint ID: no backup hint is used twice.    *)
HintIDsDistinct ==
  HintsBuilt => \A g, h \in Hints :
    SelectCutoff[g] # 0 /\ SelectCutoff[h] # 0 /\ g # h =>
      HintID[g] # HintID[h]

(* Every completed query costs exactly one valid backup hint, so that the  *)
(* client aborts only when at most one of them was left.                   *)
ValidBackups == {h \in Backups : FindCutoff(prf.v[h]) # 0}

AbortOnlyWhenUsedUp ==
  pc = "aborted" /\ ~ damaged =>
    Len(queryResults) + 1 >= Cardinality(ValidBackups)

(* What the balance of a query rests on: a live cutoff is the median of    *)
(* the PRF row of the hint that uses it, from the offline phase on and     *)
(* through every refresh.                                                  *)
CutoffsKept ==
  pc # "cutoffs" /\ ~ damaged =>
    /\ \A n \in Backups : n >= NextHintIndex =>
         SelectCutoff[n] = FindCutoff(prf.v[n])
    /\ \A h \in Hints : SelectCutoff[h] =
         FindCutoff(prf.v[IF pc = "extras" THEN h ELSE HintID[h]])

(* No hint uses the ID of a backup hint still to come, or another hint's.  *)
IDsFresh ==
  pc \notin {"cutoffs", "extras", "stream"} => \A g, h \in Hints :
    /\ HintID[h] < NextHintIndex
    /\ g # h => HintID[g] # HintID[h]

(* Valid backup hints the refreshes have passed. *)
Spent == {h \in ValidBackups : h < NextHintIndex}

(* One valid backup hint is spent per recorded result, and none before the *)
(* first query.                                                            *)
ResultsCounted ==
  /\ pc \in {"cutoffs", "extras", "stream", "zeros"} =>
       queryResults = << >> /\ NextHintIndex = M /\ ~ damaged
  /\ pc # "aborted" /\ ~ damaged => Cardinality(Spent) = Len(queryResults)

(* The inductive invariant of the whole client (module OneSVClientProofs): *)
(* with Sound it keeps the queries balanced and accounts for the backups.  *)
Supplied ==
  /\ Sound
  /\ CutoffsKept /\ IDsFresh /\ ResultsCounted
  /\ QueryBalanced /\ RepeatedQueryHits /\ AbortOnlyWhenUsedUp

(* A step changes the ciphertext of at most one hint and never that of an  *)
(* unused backup hint, once the hints are built and as long as every query *)
(* finds a hint.                                                           *)
RefreshIsLocal ==
  [][(pc \in {"zeros", "ready", "sent", "answered"} /\ cur.hint \in Hints) =>
       \A s \in Slots : ciParity'[s] # ciParity[s] =>
         s = cur.hint /\ NextHintIndex' > NextHintIndex]_vars

(* The client comes to an end: all queries are served or it stops with an  *)
(* error.  No draw loop or search loop of the code runs for ever.          *)
Terminates == <>(pc \in {"done", "aborted", "threw"})

(* "No valid hint found, skipping query" (client_main.cpp): a query that   *)
(* no hint covers is not sent.                                             *)
MissIsSkipped == pc = "sent" => cur.hint \in Hints

(* The phase and the open question a user of the client sees. *)
ServicePhase ==
  CASE pc \in {"cutoffs", "extras", "stream", "zeros"} -> "setup"
    [] pc = "ready" -> "idle"
    [] pc \in {"sent", "answered"} -> "busy"
    [] OTHER -> "stopped"

OpenQuestion ==
  IF pc \in {"sent", "answered"}
  THEN {[key |-> cur.query, covered |-> cur.hint \in Hints]} ELSE {}

Service == INSTANCE LookupService WITH
  Key <- Entries, Value <- FormalSum, Right <- [e \in Entries |-> Unit(e)],
  phase <- ServicePhase, pending <- OpenQuestion, results <- queryResults,
  degraded <- damaged

(* The client with its server implements the lookup service.               *)
ImplementsLookup == Service!Spec

=============================================================================

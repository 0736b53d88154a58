------------------------------ MODULE SessionProofs ------------------------------
(***************************************************************************)
(* The two programs stay in step over their two connections, whatever dies *)
(* and whatever is lost: every answer belongs to the query last sent, the  *)
(* server answers in order, the client neither rejects the server nor runs *)
(* out of Enc(0), and both derive parameters that fit the database.        *)
(***************************************************************************)
EXTENDS Session, SequenceTheorems, FiniteSetTheorems, FunctionTheorems, WellFoundedInduction, TLAPS

(* Sequences of one or two messages: what they are, and what is appended, *)
(* read and lost.                                                         *)
LEMMA SmallSeqs ==
  ASSUME NEW m, NEW n
  PROVE  /\ << >> \in Seq({m, n}) /\ << m >> \in Seq({m, n}) /\ << m, n >> \in Seq({m, n})
         /\ << m >> # << >> /\ << m, n >> # << >> /\ << m, n >> # << m >>
OBVIOUS

(* Queues of one and of two messages: adding one,                          *)
LEMMA SmallAppend ==
  ASSUME NEW m, NEW n
  PROVE  Append(<< >>, m) = << m >> /\ Append(<< m >>, n) = << m, n >>
<1> DEFINE S == {m, n}
<1>1. << >> \in Seq(S) /\ << m >> \in Seq(S) /\ << m, n >> \in Seq(S) /\ m \in S /\ n \in S
  OBVIOUS
<1> HIDE DEF S
<1>2. /\ Append(<< >>, m) \in Seq(S) /\ Len(Append(<< >>, m)) = 1 /\ Append(<< >>, m)[1] = m
      /\ Append(<< m >>, n) \in Seq(S) /\ Len(Append(<< m >>, n)) = 2
      /\ Append(<< m >>, n)[1] = m /\ Append(<< m >>, n)[2] = n
  BY <1>1, AppendProperties
<1>3. Append(<< >>, m) = << m >>
  <2>1. \A l \in 1 .. 1 : Append(<< >>, m)[l] = << m >>[l]
    BY <1>2
  <2> QED
    BY <1>1, <1>2, <2>1, SeqEqual
<1>4. Append(<< m >>, n) = << m, n >>
  <2>1. \A l \in 1 .. 2 : Append(<< m >>, n)[l] = << m, n >>[l]
    BY <1>2
  <2> QED
    BY <1>1, <1>2, <2>1, SeqEqual
<1> QED
  BY <1>3, <1>4

(* the first one,                                                          *)
LEMMA SmallHead ==
  ASSUME NEW m, NEW n
  PROVE  Head(<< m >>) = m /\ Head(<< m, n >>) = m
BY SmallSeqs

(* the others,                                                             *)
LEMMA SmallTail ==
  ASSUME NEW m, NEW n
  PROVE  Tail(<< m >>) = << >> /\ Tail(<< m, n >>) = << n >>
BY SmallSeqs

(* and what may be left of them when the sender dies.                      *)
LEMMA SmallPrefixes ==
  ASSUME NEW m, NEW n
  PROVE  /\ Prefixes(<< >>) = {<< >>} /\ Prefixes(<< m >>) = {<< >>, << m >>}
         /\ Prefixes(<< m, n >>) = {<< >>, << m >>, << m, n >>}
<1> DEFINE S == {m, n}
<1>1. << >> \in Seq(S) /\ << m >> \in Seq(S) /\ << m, n >> \in Seq(S) /\ m \in S /\ n \in S
  OBVIOUS
<1>2. 0 .. Len(<< >>) = {0} /\ 0 .. Len(<< m >>) = {0, 1} /\ 0 .. Len(<< m, n >>) = {0, 1, 2}
  OBVIOUS
<1> HIDE DEF S
<1>3. \A s : SubSeq(s, 1, 0) = << >>
  BY SubSeqEmpty
<1>4. SubSeq(<< m >>, 1, 1) = << m >>
  <2>1. \A l \in 1 .. 1 : << m >>[l] \in S
    BY <1>1
  <2>2. /\ SubSeq(<< m >>, 1, 1) \in Seq(S) /\ Len(SubSeq(<< m >>, 1, 1)) = 1
        /\ SubSeq(<< m >>, 1, 1)[1] = m
    BY <2>1, SubSeqProperties
  <2>3. \A l \in 1 .. 1 : SubSeq(<< m >>, 1, 1)[l] = << m >>[l]
    BY <2>2
  <2> QED
    BY <1>1, <2>2, <2>3, SeqEqual
<1>5. SubSeq(<< m, n >>, 1, 1) = << m >>
  <2>1. \A l \in 1 .. 1 : << m, n >>[l] \in S
    BY <1>1
  <2>2. /\ SubSeq(<< m, n >>, 1, 1) \in Seq(S) /\ Len(SubSeq(<< m, n >>, 1, 1)) = 1
        /\ SubSeq(<< m, n >>, 1, 1)[1] = m
    BY <2>1, SubSeqProperties
  <2>3. \A l \in 1 .. 1 : SubSeq(<< m, n >>, 1, 1)[l] = << m >>[l]
    BY <2>2
  <2> QED
    BY <1>1, <2>2, <2>3, SeqEqual
<1>6. SubSeq(<< m, n >>, 1, 2) = << m, n >>
  <2>1. \A l \in 1 .. 2 : << m, n >>[l] \in S
    BY <1>1
  <2>2. /\ SubSeq(<< m, n >>, 1, 2) \in Seq(S) /\ Len(SubSeq(<< m, n >>, 1, 2)) = 2
        /\ SubSeq(<< m, n >>, 1, 2)[1] = m /\ SubSeq(<< m, n >>, 1, 2)[2] = n
    BY <2>1, SubSeqProperties
  <2>3. \A l \in 1 .. 2 : SubSeq(<< m, n >>, 1, 2)[l] = << m, n >>[l]
    BY <2>2
  <2> QED
    BY <1>1, <2>2, <2>3, SeqEqual
<1> QED
  BY <1>2, <1>3, <1>4, <1>5, <1>6 DEF Prefixes

(* What may be left to read, by where the client is. *)
LEMMA UnreadIs ==
  ASSUME NEW n
  PROVE  /\ UnreadAt("sendBatch", n) = {<< TypeMsg >>}
         /\ UnreadAt("choose", n) = {<< TypeMsg, BatchMsg(n) >>}
         /\ UnreadAt("await", n) = {<< TypeMsg, BatchMsg(n) >>}
         /\ UnreadAt("close", n) = {<< >>, << EndMsg >>} /\ UnreadAt("exited", n) = {<< >>, << EndMsg >>}
         /\ UnreadAt("died", n) = {<< >>, << TypeMsg >>, << TypeMsg, BatchMsg(n) >>, << EndMsg >>}
BY DEF UnreadAt

Talking == {"sendBatch", "choose", "await", "close", "exited", "died"}
(* Outside the handshake nothing of it is unread.                          *)
LEMMA UnreadElse ==
  ASSUME NEW n, NEW c, c \notin Talking
  PROVE  UnreadAt(c, n) = {<< >>}
BY DEF UnreadAt, Talking

(* A client that dies leaves less to read. *)
LEMMA UnreadDied ==
  ASSUME NEW n, NEW c, NEW s \in UnreadAt(c, n), NEW r \in Prefixes(s)
  PROVE  r \in UnreadAt("died", n)
<1> DEFINE T == TypeMsg
           B == BatchMsg(n)
           E == EndMsg
<1>1. s \in {<< >>, << T >>, << T, B >>, << E >>}
  BY DEF UnreadAt
<1> HIDE DEF T, B, E
<1>2. r \in {<< >>, << T >>, << T, B >>, << E >>}
  <2>1. /\ Prefixes(<< >>) = {<< >>} /\ Prefixes(<< T >>) = {<< >>, << T >>}
        /\ Prefixes(<< T, B >>) = {<< >>, << T >>, << T, B >>} /\ Prefixes(<< E >>) = {<< >>, << E >>}
    BY SmallPrefixes
  <2> QED
    BY <1>1, <2>1
<1> QED
  BY <1>2, UnreadIs DEF T, B, E

(* The variables the flow of the queries depends on. *)
flow == <<spc, cpc, toServer, choice, answers, i, results, serving, queryCount>>

(* The server moves on where it neither reads a query nor answers one, or  *)
(* stops; what it has sent may then be lost.                               *)
LEMMA ServerMoves ==
  ASSUME QueryFlow, i \in Nat, NEW l, spc' = l, l \notin {"recvBatch", "sendOT"},
         l \in ServerEnd \/ (~ serverGone /\ spc \notin {"recvBatch", "sendOT"}),
         answers' = answers \/ answers' \in Prefixes(answers),
         UNCHANGED <<cpc, toServer, choice, i, results, serving, queryCount>>
  PROVE  QueryFlow'
<1>1. AtQuery'
  <2>1. queryCount = i => answers' = << >>
    BY SmallPrefixes DEF QueryFlow, AtQuery
  <2>2. queryCount = i + 1 => answers' \in {<< >>, << i >>}
    BY SmallPrefixes DEF QueryFlow, AtQuery
  <2> QED
    BY <2>1, <2>2 DEF QueryFlow, AtQuery
<1>2. ServerReads'
  BY DEF ServerReads
<1>3. Unread'
  BY DEF QueryFlow, Unread, serverGone
<1> QED
  BY <1>1, <1>2, <1>3 DEF QueryFlow

(* The client moves on where it has nothing to read or to ask. *)
LEMMA ClientMoves ==
  ASSUME QueryFlow, i \in Nat, NEW l, cpc' = l, l \notin Talking, cpc \notin Talking,
         UNCHANGED <<spc, toServer, choice, answers, i, results, serving, queryCount>>
  PROVE  QueryFlow'
<1>1. AtQuery'
  BY DEF QueryFlow, AtQuery, Talking
<1>2. ServerReads'
  BY DEF QueryFlow, ServerReads, Talking, Asking
<1>3. Unread'
  BY UnreadElse DEF QueryFlow, Unread, serverGone
<1> QED
  BY <1>1, <1>2, <1>3 DEF QueryFlow

(* The client dies; what it has sent may be lost. *)
LEMMA ClientLost ==
  ASSUME QueryFlow, i \in Nat, cpc' = "died", toServer' \in Prefixes(toServer), choice' \in Prefixes(choice),
         cpc \notin {"close", "exited"} \/ spc \notin {"recvBatch", "sendOT"},
         UNCHANGED <<spc, answers, i, results, serving, queryCount>>
  PROVE  QueryFlow'
<1>1. AtQuery'
  <2>1. Prefixes(<< >>) = {<< >>} /\ Prefixes(<< i >>) = {<< >>, << i >>}
    BY SmallPrefixes
  <2>2. choice' \in {<< >>, << i >>} /\ (choice' # << >> => choice # << >>)
    BY <2>1 DEF QueryFlow, AtQuery
  <2>3. queryCount = i + 1 => toServer' = << >>
    BY <2>1 DEF QueryFlow, AtQuery
  <2> QED
    BY <2>2, <2>3 DEF QueryFlow, AtQuery
<1>2. ServerReads'
  BY SmallPrefixes DEF QueryFlow, ServerReads, Asking
<1>3. Unread'
  BY UnreadDied DEF QueryFlow, Unread, serverGone
<1> QED
  BY <1>1, <1>2, <1>3 DEF QueryFlow

(* The client sends the type of the query, ... *)
LEMMA TypeSent ==
  ASSUME QueryFlow, i \in Nat, cpc = "sendType", cpc' = "sendBatch", toServer' = Append(toServer, TypeMsg),
         UNCHANGED <<spc, choice, answers, i, results, serving, queryCount>>
  PROVE  QueryFlow'
<1>1. queryCount = i /\ spc \notin {"recvBatch", "sendOT"}
  BY DEF QueryFlow, AtQuery, ServerReads, Asking
<1>2. AtQuery'
  BY <1>1 DEF QueryFlow, AtQuery
<1>3. ~ serverGone => toServer' = << TypeMsg >>
  <2>1. UnreadAt("sendType", i) = {<< >>}
    BY UnreadElse DEF Talking
  <2> QED
    BY <1>1, <2>1, SmallAppend DEF QueryFlow, Unread
<1> QED
  BY <1>1, <1>2, <1>3, UnreadIs DEF QueryFlow, ServerReads, Unread, serverGone

(* ... the batch, ... *)
LEMMA BatchSent ==
  ASSUME QueryFlow, i \in Nat, cpc = "sendBatch", cpc' = "choose", toServer' = Append(toServer, BatchMsg(i)),
         UNCHANGED <<spc, choice, answers, i, results, serving, queryCount>>
  PROVE  QueryFlow'
<1>1. queryCount = i /\ spc # "sendOT"
  BY DEF QueryFlow, AtQuery, ServerReads, Asking
<1>2. AtQuery'
  BY <1>1 DEF QueryFlow, AtQuery
<1>3. spc = "recvBatch" => toServer' = << BatchMsg(i) >>
  BY SmallAppend DEF QueryFlow, ServerReads
<1>4. ~ serverGone /\ spc # "recvBatch" => toServer' = << TypeMsg, BatchMsg(i) >>
  BY <1>1, UnreadIs, SmallAppend DEF QueryFlow, Unread
<1> QED
  BY <1>1, <1>2, <1>3, <1>4, UnreadIs DEF QueryFlow, ServerReads, Unread, serverGone, Asking

(* ... its choice, ... *)
LEMMA ChoiceSent ==
  ASSUME QueryFlow, i \in Nat, cpc = "choose", cpc' = "await", choice' = Append(choice, i),
         UNCHANGED <<spc, toServer, answers, i, results, serving, queryCount>>
  PROVE  QueryFlow'
<1>1. queryCount = i /\ choice' = << i >>
  BY SmallAppend DEF QueryFlow, AtQuery
<1> QED
  BY <1>1, UnreadIs DEF QueryFlow, AtQuery, ServerReads, Unread, serverGone, Asking

(* ... and in the end the end signal. *)
LEMMA EndSent ==
  ASSUME QueryFlow, i \in Nat, cpc = "verify", cpc' = "close",
         toServer' = Append(toServer, EndMsg) \/ (serverGone /\ toServer' = toServer),
         UNCHANGED <<spc, choice, answers, i, results, serving, queryCount>>
  PROVE  QueryFlow'
<1>1. queryCount = i /\ spc \notin {"recvBatch", "sendOT"}
  BY DEF QueryFlow, AtQuery, ServerReads, Asking
<1>2. AtQuery'
  BY <1>1 DEF QueryFlow, AtQuery
<1>3. ~ serverGone => toServer' = << EndMsg >>
  <2>1. UnreadAt("verify", i) = {<< >>}
    BY UnreadElse DEF Talking
  <2> QED
    BY <1>1, <2>1, SmallAppend DEF QueryFlow, Unread
<1> QED
  BY <1>1, <1>2, <1>3, UnreadIs DEF QueryFlow, ServerReads, Unread, serverGone

(* The server reads what the client has sent: the type of a query or the   *)
(* end signal, ...                                                         *)
LEMMA TypeRead ==
  ASSUME QueryFlow, i \in Nat, spc = "serve", toServer # << >>, toServer' = Tail(toServer),
         spc' = IF Head(toServer).kind = "end" THEN "close" ELSE "recvBatch",
         UNCHANGED <<cpc, choice, answers, i, results, serving, queryCount>>
  PROVE  QueryFlow'
<1>1. queryCount = i /\ ~ serverGone /\ toServer \in UnreadAt(cpc, i)
  BY DEF QueryFlow, AtQuery, Unread, serverGone, ServerEnd
<1>2. AtQuery'
  BY <1>1 DEF QueryFlow, AtQuery
<1>3. cpc \in Talking
  BY <1>1, UnreadElse
<1>4. TypeMsg.kind = "type" /\ EndMsg.kind = "end"
  BY DEF TypeMsg, EndMsg
<1>5. CASE toServer = << EndMsg >> /\ cpc \in {"close", "exited", "died"}
  <2>1. spc' = "close" /\ toServer' = << >>
    BY <1>4, <1>5, SmallHead, SmallTail
  <2> QED
    BY <1>2, <1>5, <2>1, UnreadIs DEF QueryFlow, ServerReads, Unread
<1>6. CASE toServer = << TypeMsg >> /\ cpc \in {"sendBatch", "died"}
  <2>1. spc' = "recvBatch" /\ toServer' = << >>
    BY <1>4, <1>6, SmallHead, SmallTail
  <2> QED
    BY <1>2, <1>6, <2>1 DEF QueryFlow, ServerReads, Unread, Asking
<1>7. CASE toServer = << TypeMsg, BatchMsg(i) >> /\ cpc \in {"choose", "await", "died"}
  <2>1. spc' = "recvBatch" /\ toServer' = << BatchMsg(i) >>
    BY <1>4, <1>7, SmallHead, SmallTail
  <2> QED
    BY <1>2, <1>7, <2>1 DEF QueryFlow, ServerReads, Unread, Asking
<1> QED
  BY <1>1, <1>3, <1>5, <1>6, <1>7, UnreadIs DEF Talking

(* ... the batch, ... *)
LEMMA BatchRead ==
  ASSUME QueryFlow, i \in Nat, spc = "recvBatch", toServer # << >>, toServer' = Tail(toServer),
         spc' = "sendOT", serving' = Head(toServer).query,
         UNCHANGED <<cpc, choice, answers, i, results, queryCount>>
  PROVE  QueryFlow'
<1>1. queryCount = i /\ toServer = << BatchMsg(i) >> /\ cpc \in Asking
  BY DEF QueryFlow, AtQuery, ServerReads, Asking
<1>2. serving' = i /\ toServer' = << >>
  BY <1>1, SmallHead, SmallTail DEF BatchMsg
<1> QED
  BY <1>1, <1>2 DEF QueryFlow, AtQuery, ServerReads, Unread

(* ... and answers it once the choice is there. *)
LEMMA AnswerSent ==
  ASSUME QueryFlow, i \in Nat, spc = "sendOT", choice # << >>, choice' = Tail(choice),
         answers' = Append(answers, serving), queryCount' = queryCount + 1, spc' = "serve",
         UNCHANGED <<cpc, toServer, i, results, serving>>
  PROVE  QueryFlow' /\ serving = queryCount /\ cpc # "exited"
<1>1. queryCount = i /\ choice = << i >> /\ cpc \in {"await", "died"} /\ serving = i /\ answers = << >>
      /\ toServer = << >>
  BY DEF QueryFlow, AtQuery, ServerReads
<1>2. choice' = << >> /\ answers' = << i >> /\ queryCount' = i + 1 /\ i + 1 # i
  BY <1>1, SmallTail, SmallAppend
<1> QED
  BY <1>1, <1>2 DEF QueryFlow, AtQuery, ServerReads, Unread

(* A server that finds the connection closed stops reading. *)
LEMMA ReadFails ==
  ASSUME QueryFlow, i \in Nat, spc \in {"serve", "recvBatch"}, toServer = << >>, clientGone, spc' = "close",
         UNCHANGED <<cpc, toServer, choice, answers, i, results, serving, queryCount>>
  PROVE  QueryFlow'
<1>1. CASE spc = "serve"
  BY <1>1, ServerMoves DEF serverGone, ServerEnd
<1>2. CASE spc = "recvBatch"
  <2>1. cpc = "died" /\ queryCount = i
    BY <1>2 DEF QueryFlow, AtQuery, ServerReads, Asking, clientGone, ClientEnd
  <2> QED
    BY <2>1, UnreadIs DEF QueryFlow, AtQuery, ServerReads, Unread
<1> QED
  BY <1>1, <1>2

(* The results recorded, and the messages of the greeting. *)
Results == [query : Nat, answer : Nat, entry : {QueryAt(l, k) : l \in LogSizes, k \in Nat}]
Paired  == i \in Nat /\ results \in Seq(Results) /\ AnswersPaired

(* The client takes the answer to its query, and goes on to the next one. *)
LEMMA AnswerRead ==
  ASSUME QueryFlow, Paired, NEW e, [query |-> i, answer |-> i, entry |-> e] \in Results,
         cpc = "await", answers # << >>, answers' = Tail(answers),
         results' = Append(results, [query |-> i, answer |-> Head(answers), entry |-> e]),
         i' = i + 1, cpc' = "loop",
         UNCHANGED <<spc, toServer, choice, serving, queryCount>>
  PROVE  QueryFlow' /\ Paired'
<1> DEFINE r == [query |-> i, answer |-> i, entry |-> e]
<1>1. /\ queryCount = i + 1 /\ answers = << i >> /\ choice = << >> /\ toServer = << >>
      /\ spc \notin {"recvBatch", "sendOT"} /\ Len(results) = i /\ i + 1 # i /\ i \in Nat
  BY DEF QueryFlow, AtQuery, Paired
<1>2. answers' = << >> /\ Head(answers) = i
  BY <1>1, SmallHead, SmallTail
<1>3. results' = Append(results, r) /\ r \in Results /\ r.query = i /\ r.answer = i
  BY <1>2
<1> HIDE DEF r
<1>4. /\ results' \in Seq(Results) /\ Len(results') = i + 1
      /\ \A n \in 1 .. i : results'[n] = results[n]
      /\ results'[i + 1] = r
  BY <1>1, <1>3, AppendProperties DEF Paired
<1>5. Paired'
  <2>1. \A n \in 1 .. i + 1 : results'[n].query = n - 1 /\ results'[n].answer = n - 1
    <3> SUFFICES ASSUME NEW n \in 1 .. i + 1
                 PROVE  results'[n].query = n - 1 /\ results'[n].answer = n - 1
      OBVIOUS
    <3>1. CASE n \in 1 .. i
      BY <1>1, <1>4, <3>1 DEF Paired, AnswersPaired
    <3>2. CASE n = i + 1
      BY <1>1, <1>3, <1>4, <3>2
    <3> QED
      BY <1>1, <3>1, <3>2
  <2> QED
    BY <1>1, <1>4, <2>1 DEF Paired, AnswersPaired
<1>6. AtQuery'
  BY <1>1, <1>2, <1>4 DEF AtQuery
<1>7. ServerReads' /\ Unread'
  <2>1. UnreadAt("loop", i + 1) = {<< >>}
    BY UnreadElse DEF Talking
  <2> QED
    BY <1>1, <2>1 DEF ServerReads, Unread
<1> QED
  BY <1>5, <1>6, <1>7 DEF QueryFlow

(* What is left of a sequence of messages begins as it did. *)
LEMMA PrefixKeeps ==
  ASSUME NEW S, NEW s \in Seq(S), NEW r \in Prefixes(s)
  PROVE  /\ r \in Seq(S) /\ Len(r) \in Nat /\ Len(r) <= Len(s)
         /\ \A n \in 1 .. Len(r) : r[n] = s[n]
<1>1. PICK m \in 0 .. Len(s) : r = SubSeq(s, 1, m)
  BY DEF Prefixes
<1>2. m \in Nat /\ Len(s) \in Nat /\ m <= Len(s)
  BY <1>1
<1>3. \A n \in 1 .. m : s[n] \in S
  BY <1>2
<1>4. /\ r \in Seq(S) /\ Len(r) = IF 1 <= m THEN m - 1 + 1 ELSE 0
      /\ \A n \in 1 .. m - 1 + 1 : r[n] = s[1 + n - 1]
  BY <1>1, <1>2, <1>3, SubSeqProperties
<1>5. Len(r) = m
  BY <1>2, <1>4
<1> QED
  BY <1>2, <1>4, <1>5

(* The messages of the greeting. *)
Words == {Greeting[n] : n \in 1 .. 4}
Spoken == log \in LogSizes /\ toClient \in Seq(Words) /\ Greeted
(* The words of the handshake that were sent and taken are at most four.   *)
LEMMA Counted == Sent \in 0 .. 4 /\ Taken \in 0 .. 4
BY DEF Sent, Taken

(* The server says the next word, ... *)
LEMMA WordSent ==
  ASSUME Spoken, ~ serverGone, Sent < 4, Sent' = Sent + 1,
         toClient' = Append(toClient, Greeting[Sent + 1]), ~ serverGone',
         spc \notin {"setup", "died", "failed"}, UNCHANGED <<log, cpc, received>>
  PROVE  Spoken'
<1>1. Greeting' = Greeting /\ Words' = Words /\ Taken' = Taken /\ (clientGone' <=> clientGone)
  BY DEF Greeting, Words, Taken, clientGone
<1>2. toClient \in Seq(Words) /\ Greeting[Sent + 1] \in Words /\ Len(toClient) \in Nat
  BY Counted DEF Spoken, Words
<1>3. /\ toClient' \in Seq(Words) /\ Len(toClient') = Len(toClient) + 1
      /\ \A n \in 1 .. Len(toClient) : toClient'[n] = toClient[n]
      /\ toClient'[Len(toClient) + 1] = Greeting[Sent + 1]
  BY <1>2, AppendProperties
<1>4. ~ clientGone => /\ \A n \in 1 .. Len(toClient') : n + Taken <= 4 /\ toClient'[n] = Greeting[n + Taken]
                      /\ Len(toClient') + Taken = Sent'
  BY <1>2, <1>3, Counted DEF Spoken, Greeted
<1>5. SelectPolyModulusDegree(log) # 0
  BY DEF Spoken, Greeted
<1> QED
  BY <1>1, <1>3, <1>4, <1>5 DEF Spoken, Greeted

(* ... stops, with what it has said lost in part, ... *)
LEMMA ServerSilent ==
  ASSUME Spoken, serverGone', toClient' = toClient \/ toClient' \in Prefixes(toClient),
         spc' \notin {"setup", "died", "failed"} => spc \notin {"setup", "died", "failed"},
         UNCHANGED <<log, cpc, received>>
  PROVE  Spoken'
<1>1. Greeting' = Greeting /\ Words' = Words /\ Taken' = Taken /\ (clientGone' <=> clientGone)
  BY DEF Greeting, Words, Taken, clientGone
<1>2. toClient \in Seq(Words)
  BY DEF Spoken
<1>3. /\ toClient' \in Seq(Words) /\ Len(toClient') \in Nat /\ Len(toClient') <= Len(toClient)
      /\ \A n \in 1 .. Len(toClient') : toClient'[n] = toClient[n]
  BY <1>2, PrefixKeeps
<1>4. ~ clientGone => \A n \in 1 .. Len(toClient') : n + Taken <= 4 /\ toClient'[n] = Greeting[n + Taken]
  BY <1>2, <1>3, Counted DEF Spoken, Greeted
<1> QED
  BY <1>1, <1>3, <1>4 DEF Spoken, Greeted

(* ... or does something else. *)
LEMMA ServerQuiet ==
  ASSUME Spoken, ~ serverGone, Sent' = Sent, toClient' = toClient,
         spc = "setup" => SelectPolyModulusDegree(log) # 0, UNCHANGED <<log, cpc, received>>
  PROVE  Spoken'
<1>1. Greeting' = Greeting /\ Words' = Words /\ Taken' = Taken /\ (clientGone' <=> clientGone)
  BY DEF Greeting, Words, Taken, clientGone
<1>2. SelectPolyModulusDegree(log) # 0
  BY DEF Spoken, Greeted, serverGone, ServerEnd
<1> QED
  BY <1>1, <1>2 DEF Spoken, Greeted

(* The first word in transit is the one the client takes next. *)
LEMMA HeadOfGreeting ==
  ASSUME Spoken, ~ clientGone, toClient # << >>, Taken < 4
  PROVE  Head(toClient) = Greeting[Taken + 1]
<1>1. toClient \in Seq(Words) /\ Len(toClient) \in Nat /\ Len(toClient) >= 1
  BY EmptySeq DEF Spoken
<1>2. Head(toClient) = toClient[1]
  BY <1>1
<1> QED
  BY <1>1, <1>2, Counted DEF Spoken, Greeted

(* The client takes the next word, ... *)
LEMMA WordTaken ==
  ASSUME Spoken, ~ clientGone, toClient # << >>, Taken < 4, Taken' = Taken + 1, toClient' = Tail(toClient),
         cpc # "start", received' = [log |-> log, p |-> Greeting[1].p], UNCHANGED <<log, spc>>
  PROVE  Spoken'
<1>1. /\ Greeting' = Greeting /\ Words' = Words /\ Sent' = Sent /\ (serverGone' <=> serverGone)
  BY DEF Greeting, Words, Sent, serverGone
<1>2. toClient \in Seq(Words) /\ Len(toClient) \in Nat /\ Len(toClient) >= 1
  BY EmptySeq DEF Spoken
<1>3. /\ toClient' \in Seq(Words) /\ Len(toClient') = Len(toClient) - 1
      /\ \A n \in 1 .. Len(toClient') : toClient'[n] = toClient[n + 1]
  BY <1>2, HeadTailProperties
<1>4. \A n \in 1 .. Len(toClient') : n + Taken' <= 4 /\ toClient'[n] = Greeting[n + Taken']
  <2> SUFFICES ASSUME NEW n \in 1 .. Len(toClient')
               PROVE  n + Taken' <= 4 /\ toClient'[n] = Greeting[n + Taken']
    OBVIOUS
  <2>1. n + 1 \in 1 .. Len(toClient) /\ (n + 1) + Taken = n + Taken'
    BY <1>2, <1>3, Counted
  <2> QED
    BY <1>3, <2>1 DEF Spoken, Greeted
<1>5. ~ serverGone => Len(toClient') + Taken' = Sent
  BY <1>2, <1>3, Counted DEF Spoken, Greeted
<1>6. SelectPolyModulusDegree(log) # 0
  BY DEF Spoken, Greeted, clientGone, ClientEnd
<1> QED
  BY <1>1, <1>3, <1>4, <1>5, <1>6 DEF Spoken, Greeted

(* ... ends, ... *)
LEMMA ClientDeaf ==
  ASSUME Spoken, clientGone', cpc \notin {"start", "refused"} \/ cpc' = "refused", UNCHANGED <<log, spc, toClient>>
  PROVE  Spoken'
<1>1. Greeting' = Greeting /\ Words' = Words
  BY DEF Greeting, Words
<1>2. cpc' \in ClientEnd
  BY DEF clientGone
<1>3. spc \notin {"setup", "died", "failed"} \/ cpc' \notin {"start", "refused"} => SelectPolyModulusDegree(log) # 0
  BY DEF Spoken, Greeted
<1> QED
  BY <1>1, <1>2, <1>3 DEF Spoken, Greeted, clientGone

(* ... or does something else. *)
LEMMA ClientQuiet ==
  ASSUME Spoken, ~ clientGone, Taken' = Taken, cpc = "start" => spc = "accept" /\ cpc' = "recvConfig",
         cpc # "start" => cpc' \notin {"start", "recvConfig"} /\ cpc # "recvConfig",
         UNCHANGED <<log, spc, toClient, received>>
  PROVE  Spoken'
<1>1. Greeting' = Greeting /\ Words' = Words /\ Sent' = Sent /\ (serverGone' <=> serverGone)
  BY DEF Greeting, Words, Sent, serverGone
<1>2. SelectPolyModulusDegree(log) # 0
  BY DEF Spoken, Greeted, clientGone, ClientEnd
<1>3. cpc' \notin {"start", "recvConfig"} \cup ClientEnd => received = [log |-> log, p |-> Greeting[1].p]
  BY DEF Spoken, Greeted, clientGone
<1> QED
  BY <1>1, <1>2, <1>3 DEF Spoken, Greeted

(* What a send of the server does to the queries. *)
LEMMA FlowSpeaks ==
  ASSUME QueryFlow, i \in Nat, NEW m, NEW next, NEW failed, ServerSend(m, next, failed),
         ~ serverGone, spc \notin {"recvBatch", "sendOT"}, next \notin {"recvBatch", "sendOT"},
         failed \in ServerEnd \/ failed = next,
         UNCHANGED <<cpc, toServer, choice, i, results, serving, queryCount>>
  PROVE  QueryFlow'
<1>1. \E l : /\ spc' = l /\ l \notin {"recvBatch", "sendOT"}
             /\ answers' = answers \/ answers' \in Prefixes(answers)
  BY DEF ServerSend, ServerStops, ServerEnd
<1> QED
  BY <1>1, ServerMoves

(* A step keeps the two programs at the same query. *)
LEMMA FlowStep ==
  ASSUME QueryFlow, Paired, Spoken, Next
  PROVE  QueryFlow' /\ Paired'
<1>i. i \in Nat
  BY DEF Paired
<1> USE DEF otCh, main, local, svr
<1>1. CASE ServerStart \/ AcceptClient \/ ListenOT \/ AcceptOT \/ ServerClose
  <2>1. /\ UNCHANGED <<cpc, toServer, choice, i, results, serving, queryCount, answers>>
        /\ spc \in {"setup", "accept", "otListen", "otAccept", "close"}
        /\ spc' \notin {"recvBatch", "sendOT"}
    BY <1>1 DEF ServerStart, AcceptClient, ListenOT, AcceptOT, ServerClose, ServerStops
  <2>2. QueryFlow'
    BY <1>i, <2>1, ServerMoves DEF serverGone, ServerEnd
  <2> QED
    BY <2>1, <2>2 DEF Paired, AnswersPaired
<1>2. CASE SendConfig \/ SendParams \/ SendPublicKey \/ SendDatabase
  <2>1. /\ UNCHANGED <<cpc, toServer, choice, i, results, serving, queryCount>>
        /\ spc \in {"sendConfig", "sendParams", "sendKey", "sendDB"}
        /\ \E m : \E next \in {"sendParams", "sendKey", "sendDB", "otListen"} :
             ServerSend(m, next, next) \/ ServerSend(m, next, "failed")
    BY <1>2 DEF SendConfig, SendParams, SendPublicKey, SendDatabase
  <2>2. QueryFlow'
    BY <1>i, <2>1, FlowSpeaks DEF serverGone, ServerEnd
  <2> QED
    BY <2>1, <2>2 DEF Paired, AnswersPaired
<1>3. CASE SendOneThrows \/ ServerDies
  <2>1. /\ UNCHANGED <<cpc, toServer, choice, i, results, serving, queryCount>>
        /\ spc' = "died" /\ answers' \in Prefixes(answers)
    BY <1>3 DEF SendOneThrows, ServerDies, ServerStops
  <2>2. QueryFlow'
    BY <1>i, <2>1, ServerMoves DEF ServerEnd
  <2> QED
    BY <2>1, <2>2 DEF Paired, AnswersPaired
<1>4. CASE RecvQueryType
  BY <1>4, <1>i, TypeRead DEF RecvQueryType, Paired, AnswersPaired
<1>5. CASE RecvBatch
  BY <1>5, <1>i, BatchRead DEF RecvBatch, Paired, AnswersPaired
<1>6. CASE ServerRecvFails
  BY <1>6, <1>i, ReadFails DEF ServerRecvFails, ServerEOF, Paired, AnswersPaired
<1>7. CASE SendOne
  BY <1>7, <1>i, AnswerSent DEF SendOne, Paired, AnswersPaired
<1>8. CASE \/ Connect \/ RecvConfig \/ RecvParams \/ RecvPublicKey \/ RecvDatabase \/ ClientRecvFails
           \/ OfflinePhase \/ ConnectOT \/ PrepareQuery \/ LoopDone
  <2>1. /\ UNCHANGED <<spc, toServer, choice, answers, i, results, serving, queryCount>>
        /\ cpc \notin Talking /\ cpc' \notin Talking
    BY <1>8 DEF Connect, RecvConfig, RecvParams, RecvPublicKey, RecvDatabase, ClientRecvFails, OfflinePhase,
       ConnectOT, PrepareQuery, LoopDone, ClientStops, Talking
  <2>2. QueryFlow'
    BY <1>i, <2>1, ClientMoves
  <2> QED
    BY <2>1, <2>2 DEF Paired, AnswersPaired
<1>9. CASE RecvOneThrows \/ ClientDies \/ ConnectOTThrows
  <2>1. /\ UNCHANGED <<spc, answers, i, results, serving, queryCount>>
        /\ cpc' = "died" /\ toServer' \in Prefixes(toServer) /\ choice' \in Prefixes(choice)
    BY <1>9 DEF RecvOneThrows, ClientDies, ConnectOTThrows, ClientStops
  <2>2. cpc \notin {"close", "exited"} \/ spc \notin {"recvBatch", "sendOT"}
    BY DEF QueryFlow, ServerReads, Asking
  <2>3. QueryFlow'
    BY <1>i, <2>1, <2>2, ClientLost
  <2> QED
    BY <2>1, <2>3 DEF Paired, AnswersPaired
<1>10. CASE SendQueryType \/ SendBatch \/ SendEnd
  <2>1. UNCHANGED <<spc, answers, i, results, serving, queryCount>> /\ cpc \in {"sendType", "sendBatch", "verify"}
    BY <1>10 DEF SendQueryType, SendBatch, SendEnd
  <2>p. Paired'
    BY <2>1 DEF Paired, AnswersPaired
  <2>2. CASE cpc' = "died" /\ toServer' \in Prefixes(toServer) /\ choice' \in Prefixes(choice)
    <3>1. cpc \notin {"close", "exited"} \/ spc \notin {"recvBatch", "sendOT"}
      BY DEF QueryFlow, ServerReads, Asking
    <3> QED
      BY <1>i, <2>1, <2>p, <2>2, <3>1, ClientLost
  <2>3. CASE SendQueryType /\ cpc' = "sendBatch" /\ toServer' = Append(toServer, TypeMsg) /\ UNCHANGED choice
    BY <1>i, <2>1, <2>p, <2>3, TypeSent DEF SendQueryType
  <2>4. CASE SendBatch /\ cpc' = "choose" /\ toServer' = Append(toServer, BatchMsg(i)) /\ UNCHANGED choice
    BY <1>i, <2>1, <2>p, <2>4, BatchSent DEF SendBatch
  <2>5. CASE SendEnd /\ cpc' = "close" /\ UNCHANGED choice
             /\ (toServer' = Append(toServer, EndMsg) \/ (serverGone /\ toServer' = toServer))
    BY <1>i, <2>1, <2>p, <2>5, EndSent DEF SendEnd
  <2>6. CASE cpc \in {"sendType", "sendBatch"} /\ cpc' = "verify" /\ serverGone /\ UNCHANGED <<toServer, choice>>
    BY <1>i, <2>1, <2>p, <2>6 DEF QueryFlow, AtQuery, ServerReads, Unread, serverGone, ServerEnd
  <2> QED
    BY <1>10, <2>2, <2>3, <2>4, <2>5, <2>6 DEF SendQueryType, SendBatch, SendEnd, ClientSend, ClientStops,
       TypeMsg, BatchMsg, EndMsg
<1>11. CASE Choose
  BY <1>11, <1>i, ChoiceSent DEF Choose, Paired, AnswersPaired
<1>12. CASE RecvOne
  <2>1. received.log = log /\ log \in LogSizes
    BY <1>12 DEF RecvOne, Spoken, Greeted, ClientEnd
  <2>2. [query |-> i, answer |-> i, entry |-> QueryAt(received.log, i)] \in Results
    BY <1>i, <2>1 DEF Results
  <2> QED
    BY <1>12, <2>2, AnswerRead DEF RecvOne
<1>13. CASE Disconnect
  <2>1. /\ UNCHANGED <<spc, toServer, choice, answers, i, results, serving, queryCount>>
        /\ cpc = "close" /\ cpc' = "exited"
    BY <1>13 DEF Disconnect, ClientStops
  <2>2. QueryFlow'
    BY <1>i, <2>1, UnreadIs DEF QueryFlow, AtQuery, ServerReads, Unread, serverGone, Asking
  <2> QED
    BY <2>1, <2>2 DEF Paired, AnswersPaired
<1>14. CASE Finished
  BY <1>14 DEF Finished, vars, QueryFlow, AtQuery, ServerReads, Unread, serverGone, Paired, AnswersPaired
<1> QED
  BY <1>1, <1>2, <1>3, <1>4, <1>5, <1>6, <1>7, <1>8, <1>9, <1>10, <1>11, <1>12, <1>13, <1>14
  DEF Next, ServerStep, ClientStep

(* What a send of the server does to the greeting. *)
LEMMA SpeaksNext ==
  ASSUME Spoken, NEW next, NEW failed, ServerSend(Greeting[Sent + 1], next, failed),
         ~ serverGone, spc # "setup", Sent < 4, spc' = next => Sent' = Sent + 1,
         next \notin ServerEnd, failed = "failed" \/ failed = next, UNCHANGED <<log, cpc, received>>
  PROVE  Spoken'
<1>1. CASE spc' = next /\ toClient' = Append(toClient, Greeting[Sent + 1])
  BY <1>1, WordSent DEF serverGone, ServerEnd
<1>2. CASE spc' \in {"failed", "died"} /\ (toClient' = toClient \/ toClient' \in Prefixes(toClient))
  BY <1>2, ServerSilent DEF serverGone, ServerEnd
<1> QED
  BY <1>1, <1>2 DEF ServerSend, ServerStops

(* A step keeps the greeting in order, and the client understands it. *)
LEMMA SpokenStep ==
  ASSUME Spoken, Understood, Next
  PROVE  Spoken' /\ cpc' # "rejected"
<1> USE DEF otCh, main, local, svr
<1>g. /\ Greeting[1].log = log
      /\ Greeting[2].degree = SelectPolyModulusDegree(log)
      /\ Greeting[1].p = PlainModulus(Greeting[2].degree, Greeting[2].pBits)
      /\ Greeting[2].qBits = CoeffBits /\ Greeting[2].pBits = PlainBits
      /\ Greeting[4].count = PartNumOf(log)
  BY DEF Greeting
<1>1. CASE ServerStart
  <2>1. UNCHANGED <<log, cpc, received, toClient>> /\ spc = "setup"
    BY <1>1 DEF ServerStart
  <2>2. CASE SelectPolyModulusDegree(log) # 0 /\ spc' = "accept"
    <3>1. Sent' = Sent /\ ~ serverGone
      BY <2>1, <2>2 DEF Sent, serverGone, ServerEnd
    <3> QED
      BY <2>1, <2>2, <3>1, ServerQuiet DEF Understood
  <2>3. CASE spc' \in {"died", "failed"}
    BY <2>1, <2>3, ServerSilent DEF serverGone, ServerEnd, Understood
  <2> QED
    BY <1>1, <2>2, <2>3 DEF ServerStart
<1>2. CASE \/ AcceptClient \/ ListenOT \/ AcceptOT \/ RecvQueryType \/ RecvBatch \/ ServerRecvFails \/ SendOne
  <2>1. /\ UNCHANGED <<log, cpc, received, toClient>> /\ spc # "setup" /\ ~ serverGone
        /\ \/ spc = "accept" /\ spc' = "sendConfig"
           \/ /\ spc \in {"otListen", "otAccept", "serve", "recvBatch", "sendOT"}
              /\ spc' \in {"otAccept", "serve", "close", "recvBatch", "sendOT"}
    BY <1>2 DEF AcceptClient, ListenOT, AcceptOT, RecvQueryType, RecvBatch, ServerRecvFails, SendOne,
       serverGone, ServerEnd
  <2>2. Sent' = Sent
    BY <2>1 DEF Sent
  <2> QED
    BY <2>1, <2>2, ServerQuiet DEF Understood
<1>3. CASE SendConfig \/ SendParams \/ SendPublicKey \/ SendDatabase
  <2>1. /\ UNCHANGED <<log, cpc, received>>
        /\ spc \in {"sendConfig", "sendParams", "sendKey", "sendDB"}
    BY <1>3 DEF SendConfig, SendParams, SendPublicKey, SendDatabase
  <2>2. \E failed : \E next \in {"sendParams", "sendKey", "sendDB", "otListen"} :
          /\ ServerSend(Greeting[Sent + 1], next, failed) /\ (failed = "failed" \/ failed = next)
          /\ spc' = next => Sent' = Sent + 1
    BY <1>3 DEF SendConfig, SendParams, SendPublicKey, SendDatabase, Greeting, Sent
  <2>3. Sent < 4 /\ ~ serverGone /\ spc # "setup"
    BY <2>1 DEF Sent, serverGone, ServerEnd
  <2> QED
    BY <2>1, <2>2, <2>3, SpeaksNext DEF ServerEnd, Understood
<1>4. CASE SendOneThrows \/ ServerDies \/ ServerClose
  <2>1. /\ UNCHANGED <<log, cpc, received>> /\ spc' \in {"died", "exited"}
        /\ spc \notin {"setup", "failed", "died"}
        /\ toClient' = toClient \/ toClient' \in Prefixes(toClient)
    BY <1>4 DEF SendOneThrows, ServerDies, ServerClose, ServerStops, serverGone, ServerEnd
  <2> QED
    BY <2>1, ServerSilent DEF serverGone, ServerEnd, Understood
<1>5. CASE RecvConfig \/ RecvParams \/ RecvPublicKey \/ RecvDatabase
  <2>1. /\ UNCHANGED <<log, spc>> /\ toClient # << >> /\ toClient' = Tail(toClient)
        /\ cpc \in {"recvConfig", "recvParams", "recvKey", "recvDB"}
    BY <1>5 DEF RecvConfig, RecvParams, RecvPublicKey, RecvDatabase
  <2>2. ~ clientGone /\ Taken < 4
    BY <2>1 DEF clientGone, ClientEnd, Taken
  <2>3. Head(toClient) = Greeting[Taken + 1]
    BY <2>1, <2>2, HeadOfGreeting
  <2>4. SelectPolyModulusDegree(log) # 0
    BY <2>1 DEF Spoken, Greeted
  <2>5. CASE RecvConfig
    <3>1. Head(toClient) = Greeting[1] /\ cpc' = "recvParams"
      BY <2>3, <2>5 DEF RecvConfig, Taken
    <3>2. received' = [log |-> log, p |-> Greeting[1].p]
      BY <1>g, <2>5, <3>1 DEF RecvConfig
    <3>3. Taken' = Taken + 1
      BY <2>5, <3>1 DEF RecvConfig, Taken
    <3> QED
      BY <2>1, <2>2, <3>1, <3>2, <3>3, WordTaken
  <2>6. CASE RecvParams \/ RecvPublicKey \/ RecvDatabase
    <3>1. received = [log |-> log, p |-> Greeting[1].p] /\ received' = received
      BY <2>1, <2>6 DEF RecvParams, RecvPublicKey, RecvDatabase, Spoken, Greeted, ClientEnd
    <3>2. Taken' = Taken + 1 /\ cpc' # "rejected"
      <4>1. CASE RecvParams
        <5>1. Head(toClient) = Greeting[2]
          BY <2>3, <4>1 DEF RecvParams, Taken
        <5>2. Accepts(Head(toClient))
          BY <1>g, <2>4, <3>1, <5>1 DEF Accepts, ValidatePolyModulusDegree, ValidateProtocolParameters
        <5> QED
          BY <4>1, <5>2 DEF RecvParams, Taken
      <4>2. CASE RecvPublicKey
        BY <4>2 DEF RecvPublicKey, Taken
      <4>3. CASE RecvDatabase
        <5>1. Head(toClient) = Greeting[4]
          BY <2>3, <4>3 DEF RecvDatabase, Taken
        <5>2. Head(toClient).count = PartNumOf(received.log)
          BY <1>g, <3>1, <5>1
        <5> QED
          BY <4>3, <5>2 DEF RecvDatabase, Taken
      <4> QED
        BY <2>6, <4>1, <4>2, <4>3
    <3> QED
      BY <2>1, <2>2, <3>1, <3>2, WordTaken
  <2> QED
    BY <1>5, <2>5, <2>6
<1>6. CASE ClientRecvFails \/ RecvOneThrows \/ ClientDies \/ ConnectOTThrows \/ Disconnect
  <2>1. /\ UNCHANGED <<log, spc, toClient>> /\ cpc' \in {"failed", "died", "exited"}
        /\ cpc \notin {"start", "refused"}
    BY <1>6 DEF ClientRecvFails, RecvOneThrows, ClientDies, ConnectOTThrows, Disconnect, ClientStops,
       clientGone, ClientEnd
  <2> QED
    BY <2>1, ClientDeaf DEF clientGone, ClientEnd
<1>7. CASE \/ Connect \/ OfflinePhase \/ ConnectOT \/ PrepareQuery \/ SendQueryType \/ SendBatch \/ Choose
           \/ RecvOne \/ LoopDone \/ SendEnd
  <2>1. /\ UNCHANGED <<log, spc, toClient, received>>
        /\ \/ cpc = "start" /\ spc = "accept" /\ cpc' = "recvConfig"
           \/ cpc = "start" /\ cpc' = "refused"
           \/ /\ cpc \in {"offline", "otConnect", "loop", "sendType", "sendBatch", "choose", "await", "verify"}
              /\ cpc' \in {"otConnect", "loop", "sendType", "sendBatch", "choose", "await", "verify", "close",
                           "exhausted", "died"}
    BY <1>7 DEF Connect, OfflinePhase, ConnectOT, PrepareQuery, SendQueryType, SendBatch, Choose, RecvOne,
       LoopDone, SendEnd, ClientSend, ClientStops
  <2>2. CASE cpc' \in {"refused", "exhausted", "died"}
    BY <2>1, <2>2, ClientDeaf DEF clientGone, ClientEnd
  <2>3. CASE cpc' \notin {"refused", "exhausted", "died"}
    <3>1. Taken' = Taken /\ ~ clientGone
      BY <2>1, <2>3 DEF Taken, clientGone, ClientEnd
    <3> QED
      BY <2>1, <2>3, <3>1, ClientQuiet
  <2> QED
    BY <2>2, <2>3
<1>8. CASE Finished
  <2>1. UNCHANGED <<log, spc, cpc, toClient, received>>
    BY <1>8 DEF Finished, vars
  <2> QED
    BY <2>1 DEF Spoken, Greeted, Greeting, Words, Sent, Taken, clientGone, serverGone, Understood
<1> QED
  BY <1>1, <1>2, <1>3, <1>4, <1>5, <1>6, <1>7, <1>8 DEF Next, ServerStep, ClientStep

(* The number of queries is a number. *)
LEMMA QueriesCounted == ASSUME log \in LogSizes PROVE NumQueriesOf(log) \in Int
<1>1. log \in Nat
  BY LogSizesAssumption
<1>2. log \div 2 + (log % 2) \in Nat
  BY <1>1
<1> QED
  BY <1>2 DEF NumQueriesOf, PartSizeOf

(* The Enc(0) cache and the loop counter, with their types. *)
Cached == CacheKept /\ AllAsked /\ encZeros \in Int /\ fault \in BOOLEAN

(* A step keeps one Enc(0) for every query to come. *)
LEMMA CacheStep ==
  ASSUME Cached, Understood, Spoken, i \in Nat, Next, cpc' # "rejected"
  PROVE  Cached' /\ Understood'
<1> USE DEF otCh, main, local, svr
<1>n. NumQueriesOf(log) \in Int /\ log' = log
  <2>1. NumQueriesOf(log) \in Int
    BY QueriesCounted DEF Spoken
  <2>2. log' = log
    BY DEF Next, ServerStep, ClientStep, ServerStart, AcceptClient, SendConfig, SendParams, SendPublicKey,
       SendDatabase, ListenOT, AcceptOT, RecvQueryType, RecvBatch, ServerRecvFails, SendOne, SendOneThrows,
       ServerClose, Connect, RecvConfig, RecvParams, RecvPublicKey, RecvDatabase, ClientRecvFails, OfflinePhase,
       ConnectOT, PrepareQuery, SendQueryType, SendBatch, Choose, RecvOne, RecvOneThrows, LoopDone, SendEnd,
       Disconnect, ServerDies, ClientDies, ConnectOTThrows, Finished, vars
  <2> QED
    BY <2>1, <2>2
<1>r. cpc \notin {"start", "recvConfig"} \cup ClientEnd => received.log = log
  BY DEF Spoken, Greeted
<1> DEFINE N == NumQueriesOf(log)
<1>N. N \in Int /\ NumQueriesOf(log)' = N
  BY <1>n
<1> HIDE DEF N
<1>c. /\ cpc \in InHandshake \cup {"offline", "otConnect"} => i = 0
      /\ cpc \in {"otConnect", "loop"} => encZeros = N - i
      /\ cpc \in {"sendType", "sendBatch", "choose", "await"} => encZeros = N - i - 1
      /\ cpc \in {"verify", "close", "exited"} /\ ~ fault => i = N
      /\ encZeros \in Int /\ fault \in BOOLEAN
  BY DEF Cached, CacheKept, AllAsked, N
<1> SUFFICES
      /\ cpc' \in InHandshake \cup {"offline", "otConnect"} => i' = 0
      /\ cpc' \in {"otConnect", "loop"} => encZeros' = N - i'
      /\ cpc' \in {"sendType", "sendBatch", "choose", "await"} => encZeros' = N - i' - 1
      /\ cpc' \in {"verify", "close", "exited"} /\ ~ fault' => i' = N
      /\ encZeros' \in Int /\ fault' \in BOOLEAN
      /\ cpc' # "exhausted"
      /\ cpc' \notin InHandshake \cup ClientEnd => received.log = log /\ received' = received
  BY <1>n, <1>N DEF Cached, CacheKept, AllAsked, Understood
<1>1. CASE ServerStep \/ ServerDies \/ Finished
  <2>1. /\ UNCHANGED <<cpc, i, encZeros, received>> /\ (fault' = fault \/ fault' = TRUE)
    BY <1>1 DEF ServerStep, ServerStart, AcceptClient, SendConfig, SendParams, SendPublicKey,
       SendDatabase, ListenOT, AcceptOT, RecvQueryType, RecvBatch, ServerRecvFails, SendOne, SendOneThrows,
       ServerClose, ServerDies, Finished, vars, ServerSend
  <2> QED
    BY <1>c, <1>r, <2>1 DEF Understood, InHandshake
<1>2. CASE \/ Connect \/ RecvConfig \/ RecvParams \/ RecvPublicKey \/ RecvDatabase
  <2>1. /\ UNCHANGED <<i, encZeros, fault>> /\ cpc \in InHandshake
        /\ \/ cpc' \in {"recvConfig", "refused", "recvParams", "recvKey", "recvDB"}
           \/ cpc' = "offline" /\ cpc = "recvDB" /\ received' = received
    BY <1>2 DEF Connect, RecvConfig, RecvParams, RecvPublicKey, RecvDatabase, InHandshake
  <2> QED
    BY <1>c, <1>r, <2>1 DEF InHandshake, ClientEnd
<1>3. CASE \/ ClientRecvFails \/ RecvOneThrows \/ ClientDies \/ ConnectOTThrows
  <2>1. /\ UNCHANGED <<i, encZeros>> /\ (fault' = fault \/ fault' = TRUE) /\ cpc' \in {"failed", "died"}
    BY <1>3 DEF ClientRecvFails, RecvOneThrows, ClientDies, ConnectOTThrows, ClientStops
  <2> QED
    BY <1>c, <2>1 DEF InHandshake, ClientEnd
<1>4. CASE OfflinePhase
  BY <1>4, <1>c, <1>r, <1>N DEF OfflinePhase, InHandshake, ClientEnd, N
<1>5. CASE ConnectOT \/ Choose \/ Disconnect
  <2>1. /\ UNCHANGED <<i, encZeros, fault, received>>
        /\ \/ cpc = "otConnect" /\ cpc' = "loop"
           \/ cpc = "choose" /\ cpc' = "await"
           \/ cpc = "close" /\ cpc' = "exited"
    BY <1>5 DEF ConnectOT, Choose, Disconnect, ClientStops
  <2> QED
    BY <1>c, <1>r, <2>1 DEF InHandshake, ClientEnd
<1>6. CASE PrepareQuery
  <2>1. /\ UNCHANGED <<i, fault, received>> /\ cpc = "loop" /\ i < NumQueriesOf(received.log)
        /\ \/ encZeros > 0 /\ encZeros' = encZeros - 1 /\ cpc' = "sendType"
           \/ encZeros = 0 /\ cpc' = "exhausted" /\ UNCHANGED encZeros
    BY <1>6 DEF PrepareQuery
  <2>2. i < N /\ encZeros = N - i /\ received.log = log
    BY <1>c, <1>r, <2>1 DEF N, ClientEnd
  <2> QED
    BY <1>c, <1>N, <2>1, <2>2 DEF InHandshake
<1>7. CASE SendQueryType \/ SendBatch \/ SendEnd
  <2>1. /\ UNCHANGED <<i, encZeros, received>>
        /\ \/ /\ fault' = fault
              /\ \/ cpc = "sendType" /\ cpc' = "sendBatch"
                 \/ cpc = "sendBatch" /\ cpc' = "choose"
                 \/ cpc = "verify" /\ cpc' = "close"
           \/ /\ fault' = TRUE /\ cpc' \in {"verify", "close", "died"}
              /\ cpc \in {"sendType", "sendBatch", "verify"}
    BY <1>7 DEF SendQueryType, SendBatch, SendEnd, ClientSend, ClientStops
  <2> QED
    BY <1>c, <1>r, <2>1 DEF InHandshake, ClientEnd
<1>8. CASE RecvOne
  <2>1. /\ UNCHANGED <<encZeros, fault, received>> /\ cpc = "await" /\ cpc' = "loop" /\ i' = i + 1
    BY <1>8 DEF RecvOne
  <2> QED
    BY <1>c, <1>r, <1>N, <2>1 DEF InHandshake, ClientEnd
<1>9. CASE LoopDone
  <2>1. /\ UNCHANGED <<i, encZeros, fault, received>> /\ cpc = "loop" /\ cpc' = "verify"
        /\ i = NumQueriesOf(received.log)
    BY <1>9 DEF LoopDone
  <2>2. i = N /\ received.log = log
    BY <1>r, <2>1 DEF N, ClientEnd
  <2> QED
    BY <1>c, <2>1, <2>2 DEF InHandshake
<1> QED
  BY <1>1, <1>2, <1>3, <1>4, <1>5, <1>6, <1>7, <1>8, <1>9 DEF Next, ClientStep

(* All of it: the inductive invariant of the session. *)
InStep == Paired /\ QueryFlow /\ Spoken /\ Cached /\ Understood

(* Both programs are in step at first,                                     *)
LEMMA InStepInit == Init => InStep
<1> SUFFICES ASSUME Init PROVE InStep
  OBVIOUS
<1>1. Paired
  BY DEF Init, Paired, AnswersPaired
<1>2. QueryFlow
  <2>1. UnreadAt("start", 0) = {<< >>}
    BY UnreadElse DEF Talking
  <2>2. AtQuery /\ ServerReads
    BY DEF Init, AtQuery, ServerReads
  <2>3. Unread
    BY <2>1 DEF Init, Unread
  <2> QED
    BY <2>2, <2>3 DEF QueryFlow
<1>3. Spoken
  <2>1. Sent = 0 /\ Taken = 0 /\ Len(toClient) = 0 /\ toClient \in Seq(Words) /\ log \in LogSizes
    BY DEF Init, Sent, Taken
  <2> QED
    BY <2>1 DEF Init, Spoken, Greeted
<1>4. CacheKept /\ AllAsked /\ Understood
  BY DEF Init, CacheKept, AllAsked, Understood, InHandshake
<1>5. Cached
  <2>1. encZeros \in Int
    BY DEF Init
  <2>2. fault \in BOOLEAN
    BY Zenon DEF Init
  <2> QED
    BY <1>4, <2>1, <2>2 DEF Cached
<1> QED
  BY <1>1, <1>2, <1>3, <1>4, <1>5 DEF InStep

(* and every step, loss or death keeps them so.                            *)
LEMMA InStepNext == InStep /\ [Next]_vars => InStep'
<1> SUFFICES ASSUME InStep, [Next]_vars PROVE InStep'
  OBVIOUS
<1>1. CASE Next
  <2>1. QueryFlow' /\ Paired'
    BY <1>1, FlowStep DEF InStep
  <2>2. Spoken' /\ cpc' # "rejected"
    BY <1>1, SpokenStep DEF InStep
  <2>3. Cached' /\ Understood'
    BY <1>1, <2>2, CacheStep DEF InStep, Paired
  <2> QED
    BY <2>1, <2>2, <2>3 DEF InStep
<1>2. CASE UNCHANGED vars
  BY <1>2 DEF vars, main, otCh, local, svr, InStep, Paired, AnswersPaired, QueryFlow, AtQuery, ServerReads, Unread,
     Spoken, Greeted, Greeting, Words, Sent, Taken, Cached, CacheKept, AllAsked, Understood, serverGone, clientGone
<1> QED
  BY <1>1, <1>2

(* The programs stay in step, whatever dies and whatever is lost. *)
THEOREM SessionInStep == Spec => []InStep
BY InStepInit, InStepNext, PTL DEF Spec

(* Every answer is the one to the query it is recorded for, and the        *)
(* programs count the same: the answer that client_main.cpp takes from the *)
(* OT connection belongs to the query it last sent on the other one.       *)
THEOREM AnswersAlwaysMatched == Spec => []AnswersMatched
<1>1. InStep => AnswersMatched
  <2> SUFFICES ASSUME InStep PROVE AnswersMatched
    OBVIOUS
  <2>1. CountsAgree
    BY DEF InStep, Paired, QueryFlow, AtQuery, CountsAgree
  <2> QED
    BY <2>1 DEF InStep, Paired, AnswersMatched
<1> QED
  BY <1>1, SessionInStep, PTL

(* server_main.cpp answers every query once and in order, and never after  *)
(* the client has ended.                                                   *)
THEOREM AlwaysServedInOrder == Spec => ServedInOrder
<1> DEFINE OnceInOrder ==
      queryCount' # queryCount => queryCount' = queryCount + 1 /\ serving = queryCount /\ cpc # "exited"
<1>1. ASSUME InStep, [Next]_vars PROVE [OnceInOrder]_vars
  <2>1. SendOne \/ queryCount' = queryCount
    BY <1>1 DEF Next, ServerStep, ClientStep, ServerStart, AcceptClient, SendConfig, SendParams, SendPublicKey,
       SendDatabase, ListenOT, AcceptOT, RecvQueryType, RecvBatch, ServerRecvFails, SendOneThrows,
       ServerClose, Connect, RecvConfig, RecvParams, RecvPublicKey, RecvDatabase, ClientRecvFails, OfflinePhase,
       ConnectOT, PrepareQuery, SendQueryType, SendBatch, Choose, RecvOne, RecvOneThrows, LoopDone, SendEnd,
       Disconnect, ServerDies, ClientDies, ConnectOTThrows, Finished, vars, svr
  <2>2. CASE SendOne
    BY <1>1, <2>2, AnswerSent DEF SendOne, InStep, Paired, main, local
  <2> QED
    BY <2>1, <2>2
<1>2. Spec => [][OnceInOrder]_vars
  BY <1>1, SessionInStep, PTL DEF Spec
<1> QED
  BY <1>2, PTL DEF ServedInOrder

(* The client never rejects the parameters of its server, both work with   *)
(* the same database size, and the Enc(0) cache filled in the offline      *)
(* phase lasts for all queries.                                            *)
THEOREM ServerAlwaysUnderstood == Spec => [](Understood /\ Greeted /\ CacheKept)
<1>1. InStep => Understood /\ Greeted /\ CacheKept
  BY DEF InStep, Spoken, Cached
<1> QED
  BY <1>1, SessionInStep, PTL

(* A client that ends without a fault has recorded the answers to all its  *)
(* queries.                                                                *)
THEOREM AllAnswersRecorded == Spec => [](cpc = "exited" /\ ~ fault => Len(results) = NumQueriesOf(log))
<1>1. InStep => (cpc = "exited" /\ ~ fault => Len(results) = NumQueriesOf(log))
  BY DEF InStep, Cached, AllAsked, QueryFlow, AtQuery
<1> QED
  BY <1>1, SessionInStep, PTL

-----------------------------------------------------------------------------
(* Natural numbers: the least of a set, and powers of two, by counting     *)
(* subsets.                                                                *)
LessOnNat == {pair \in Nat \X Nat : pair[1] < pair[2]}

(* Every nonempty set of naturals has a least member.                      *)
LEMMA LeastOf ==
  ASSUME NEW T, T \subseteq Nat, T # {}
  PROVE  \E m \in T : \A n \in T : m <= n
<1>1. IsWellFoundedOn(LessOnNat, Nat)
  BY NatLessThanWellFounded DEF OpToRel, LessOnNat
<1>2. PICK m \in T : \A n \in T : ~ (<<n, m>> \in LessOnNat)
  BY <1>1, WFMin
<1>3. \A n \in T : ~ (n < m)
  BY <1>2 DEF LessOnNat
<1> QED
  BY <1>3

Block(a, b) == a + 1 .. a + b

(* A block of b numbers has 2^b subsets.                                   *)
LEMMA SubsetsOf ==
  ASSUME NEW a \in Nat, NEW b \in Nat
  PROVE  IsFiniteSet(SUBSET Block(a, b)) /\ Cardinality(SUBSET Block(a, b)) = 2 ^ b
<1>1. IsFiniteSet(Block(a, b)) /\ Cardinality(Block(a, b)) = b
  BY FS_Interval DEF Block
<1> QED
  BY <1>1, FS_SUBSET

(* A power of two is a positive number,                                    *)
LEMMA PowerOf ==
  ASSUME NEW b \in Nat
  PROVE  2 ^ b \in Nat /\ 2 ^ b > 0
<1> DEFINE S == SUBSET Block(0, b)
<1>1. IsFiniteSet(S) /\ Cardinality(S) = 2 ^ b
  BY SubsetsOf
<1>2. S # {}
  OBVIOUS
<1> HIDE DEF S
<1>3. Cardinality(S) \in Nat /\ Cardinality(S) # 0
  BY <1>1, <1>2, FS_CardinalityType, FS_EmptySet
<1> QED
  BY <1>1, <1>3

(* and the product of two is the one of the sum of their exponents.        *)
LEMMA PowerAdds ==
  ASSUME NEW a \in Nat, NEW b \in Nat
  PROVE  2 ^ (a + b) = 2 ^ a * 2 ^ b
<1> DEFINE A == Block(0, a)
           B == Block(a, b)
           C == Block(0, a + b)
           f == [pair \in (SUBSET A) \X (SUBSET B) |-> pair[1] \cup pair[2]]
<1>1. A \cup B = C /\ A \cap B = {}
  BY DEF Block
<1>2. /\ IsFiniteSet(SUBSET A) /\ Cardinality(SUBSET A) = 2 ^ a
      /\ IsFiniteSet(SUBSET B) /\ Cardinality(SUBSET B) = 2 ^ b
      /\ IsFiniteSet(SUBSET C) /\ Cardinality(SUBSET C) = 2 ^ (a + b)
  <2>1. 0 \in Nat /\ a + b \in Nat
    OBVIOUS
  <2> QED
    BY <2>1, SubsetsOf
<1> HIDE DEF A, B, C
<1>3. IsFiniteSet((SUBSET A) \X (SUBSET B)) /\ Cardinality((SUBSET A) \X (SUBSET B)) = 2 ^ a * 2 ^ b
  BY <1>2, FS_Product
<1>4. f \in [(SUBSET A) \X (SUBSET B) -> SUBSET C]
  <2>1. \A p1 \in SUBSET A, p2 \in SUBSET B : p1 \cup p2 \in SUBSET C
    BY <1>1
  <2>2. \A pair \in (SUBSET A) \X (SUBSET B) : pair[1] \in SUBSET A /\ pair[2] \in SUBSET B
    OBVIOUS
  <2>3. \A pair \in (SUBSET A) \X (SUBSET B) : pair[1] \cup pair[2] \in SUBSET C
    BY <2>1, <2>2
  <2> QED
    BY <2>3
<1>5. \A p, q \in (SUBSET A) \X (SUBSET B) : f[p] = f[q] => p = q
  <2> SUFFICES ASSUME NEW p \in (SUBSET A) \X (SUBSET B), NEW q \in (SUBSET A) \X (SUBSET B), f[p] = f[q]
               PROVE  p = q
    OBVIOUS
  <2>1. p[1] \cup p[2] = q[1] \cup q[2]
    OBVIOUS
  <2>2. /\ p[1] \subseteq A /\ p[2] \subseteq B /\ q[1] \subseteq A /\ q[2] \subseteq B
        /\ p = <<p[1], p[2]>> /\ q = <<q[1], q[2]>>
    OBVIOUS
  <2> DEFINE p1 == p[1]
             p2 == p[2]
             q1 == q[1]
             q2 == q[2]
  <2>3. p1 = (p1 \cup p2) \cap A /\ p2 = (p1 \cup p2) \cap B /\ q1 = (q1 \cup q2) \cap A /\ q2 = (q1 \cup q2) \cap B
    <3> HIDE DEF f
    <3>1. p1 \subseteq A /\ p2 \subseteq B /\ q1 \subseteq A /\ q2 \subseteq B
      BY <2>2
    <3> HIDE DEF p1, p2, q1, q2
    <3> QED
      BY <1>1, <3>1
  <2>4. p1 = q1 /\ p2 = q2
    BY <2>1, <2>3
  <2> QED
    BY <2>2, <2>4
<1>6. \A s \in SUBSET C : \E p \in (SUBSET A) \X (SUBSET B) : f[p] = s
  <2> SUFFICES ASSUME NEW s \in SUBSET C
               PROVE  \E p \in (SUBSET A) \X (SUBSET B) : f[p] = s
    OBVIOUS
  <2>1. <<s \cap A, s \cap B>> \in (SUBSET A) \X (SUBSET B) /\ (s \cap A) \cup (s \cap B) = s
    BY <1>1
  <2> QED
    BY <2>1
<1>7. ExistsBijection((SUBSET A) \X (SUBSET B), SUBSET C)
  <2> HIDE DEF f
  <2>1. f \in Bijection((SUBSET A) \X (SUBSET B), SUBSET C)
    BY <1>4, <1>5, <1>6, Fun_IsBij
  <2> QED
    BY <2>1 DEF ExistsBijection
<1> QED
  BY <1>2, <1>3, <1>7, FS_Bijection

(* The doubling loop of SelectPolyModulusDegree, as a recursive function,  *)
(* is well defined: it only looks at larger numbers, which are bounded.    *)
Doubles(g, size, n) ==
  g = [d \in n .. 2 * MaxDegree |-> IF d < size /\ d < MaxDegree THEN g[2 * d] ELSE d]

(* The recursive doubling is well defined from every degree upwards.       *)
LEMMA DoublesFrom ==
  ASSUME NEW size
  PROVE  \A m \in 0 .. 2 * MaxDegree : \E g : Doubles(g, size, 2 * MaxDegree + 1 - m)
<1> DEFINE Top    == 2 * MaxDegree
           Bad    == {m \in 0 .. Top : ~ \E g : Doubles(g, size, Top + 1 - m)}
<1>1. MaxDegree \in Nat /\ Top \in Nat
  BY DegreeAssumption
<1>2. SUFFICES ASSUME Bad # {} PROVE FALSE
  OBVIOUS
<1>3. PICK m \in Bad : \A n \in Bad : m <= n
  <2>1. Bad \subseteq Nat
    OBVIOUS
  <2> HIDE DEF Bad
  <2> QED
    BY <1>2, <2>1, LeastOf
<1>4. m \in 0 .. Top /\ ~ \E g : Doubles(g, size, Top + 1 - m)
  OBVIOUS
<1>5. CASE m = 0
  <2> DEFINE g == [d \in Top + 1 .. Top |-> d]
  <2>1. Top + 1 .. Top = {}
    BY <1>1
  <2>2. Doubles(g, size, Top + 1)
    BY <2>1 DEF Doubles
  <2> QED
    BY <1>1, <1>4, <1>5, <2>2
<1>6. CASE m # 0
  <2>1. m - 1 \in 0 .. Top /\ m - 1 \notin Bad
    BY <1>1, <1>3, <1>4, <1>6
  <2>2. PICK g : Doubles(g, size, Top + 1 - (m - 1))
    BY <2>1
  <2> DEFINE n == Top + 1 - m
             h == [d \in n .. Top |->
                     IF d = n THEN (IF n < size /\ n < MaxDegree THEN g[2 * n] ELSE n) ELSE g[d]]
  <2>3. n \in 1 .. Top /\ Top + 1 - (m - 1) = n + 1
    BY <1>1, <1>4, <1>6
  <2>4. g = [d \in n + 1 .. Top |-> IF d < size /\ d < MaxDegree THEN g[2 * d] ELSE d]
    BY <2>2, <2>3 DEF Doubles
  <2> HIDE DEF n
  <2>5. \A d \in n .. Top : h[d] = IF d < size /\ d < MaxDegree THEN h[2 * d] ELSE d
    <3> SUFFICES ASSUME NEW d \in n .. Top
                 PROVE  h[d] = IF d < size /\ d < MaxDegree THEN h[2 * d] ELSE d
      OBVIOUS
    <3>1. d < MaxDegree => 2 * d \in n + 1 .. Top /\ 2 * d \in n .. Top /\ 2 * d # n
      BY <1>1, <2>3
    <3>2. d < MaxDegree => h[2 * d] = g[2 * d]
      BY <3>1
    <3>3. CASE d = n
      BY <3>2, <3>3
    <3>4. CASE d # n
      <4>1. d \in n + 1 .. Top
        BY <2>3, <3>4
      <4>2. g[d] = IF d < size /\ d < MaxDegree THEN g[2 * d] ELSE d
        BY <2>4, <4>1
      <4> QED
        BY <3>2, <3>4, <4>2
    <3> QED
      BY <3>3, <3>4
  <2>6. Doubles(h, size, n)
    <3> DEFINE rhs == [d \in n .. Top |-> IF d < size /\ d < MaxDegree THEN h[2 * d] ELSE d]
    <3>1. \A d \in n .. Top : h[d] = rhs[d]
      BY <2>5
    <3>2. h = [d \in n .. Top |-> h[d]] /\ rhs = [d \in n .. Top |-> rhs[d]]
      OBVIOUS
    <3> HIDE DEF h, rhs
    <3>3. h = rhs
      BY <3>1, <3>2
    <3> QED
      BY <3>3 DEF Doubles, rhs
  <2> QED
    BY <1>4, <2>6 DEF n
<1> QED
  BY <1>5, <1>6

(* The doubling ends at the greatest degree at most.                       *)
LEMMA DoublingFits ==
  ASSUME NEW size
  PROVE  DoubleUpTo(size) \in Nat /\ DoubleUpTo(size) <= MaxDegree
<1> DEFINE Top    == 2 * MaxDegree
           degree == CHOOSE g : Doubles(g, size, 1)
<1>1. MaxDegree \in Nat /\ MinDegree \in Nat /\ 0 < MinDegree
  BY DegreeAssumption
<1>2. PICK j \in 0 .. MaxDegree : MaxDegree = MinDegree * 2 ^ j
  BY DegreeAssumption
<1>3. Doubles(degree, size, 1)
  <2>1. Top \in 0 .. Top /\ Top + 1 - Top = 1
    BY <1>1
  <2>2. \E g : Doubles(g, size, 1)
    BY <2>1, DoublesFrom
  <2> QED
    BY <2>2
<1>4. DoubleUpTo(size) = degree[MinDegree]
  BY DEF DoubleUpTo, Doubles
<1> HIDE DEF degree
<1>5. \A d \in 1 .. Top : degree[d] = IF d < size /\ d < MaxDegree THEN degree[2 * d] ELSE d
  BY <1>3 DEF Doubles
<1> DEFINE At(m)  == MinDegree * 2 ^ (j - m)
           Bad    == {m \in 0 .. j : ~ (degree[At(m)] \in 0 .. MaxDegree)}
<1>6. \A m \in 0 .. j : At(m) \in 1 .. MaxDegree
  <2> SUFFICES ASSUME NEW m \in 0 .. j PROVE At(m) \in 1 .. MaxDegree
    OBVIOUS
  <2>1. j - m \in Nat /\ m \in Nat /\ (j - m) + m = j
    OBVIOUS
  <2> DEFINE x == 2 ^ (j - m)
             y == 2 ^ m
  <2>2. x \in Nat /\ x > 0 /\ y \in Nat /\ y > 0
    BY <2>1, PowerOf
  <2>3. 2 ^ j = x * y
    BY <2>1, PowerAdds
  <2> HIDE DEF x, y
  <2>4. MaxDegree = (MinDegree * x) * y
    BY <1>1, <1>2, <2>2, <2>3
  <2>5. MinDegree * x \in Nat /\ MinDegree * x > 0
    BY <1>1, <2>2
  <2>6. (MinDegree * x) * y >= MinDegree * x
    BY <2>2, <2>5
  <2> QED
    BY <1>1, <2>4, <2>5, <2>6 DEF x
<1>7. Bad = {}
  <2> SUFFICES ASSUME Bad # {} PROVE FALSE
    OBVIOUS
  <2>1. PICK m \in Bad : \A n \in Bad : m <= n
    <3>1. Bad \subseteq Nat
      OBVIOUS
    <3> HIDE DEF Bad
    <3> QED
      BY <3>1, LeastOf
  <2>2. m \in 0 .. j /\ ~ (degree[At(m)] \in 0 .. MaxDegree)
    OBVIOUS
  <2>3. At(m) \in 1 .. MaxDegree /\ At(m) \in 1 .. Top
    BY <1>1, <1>6, <2>2
  <2>4. degree[At(m)] = degree[2 * At(m)] /\ At(m) < MaxDegree
    <3> DEFINE d == At(m)
    <3>1. d \in 1 .. Top /\ d \in 1 .. MaxDegree /\ ~ (degree[d] \in 0 .. MaxDegree)
      BY <2>2, <2>3
    <3> HIDE DEF d
    <3>2. degree[d] = degree[2 * d] /\ d < MaxDegree
      BY <1>1, <1>5, <3>1
    <3> QED
      BY <3>2 DEF d
  <2>5. m # 0
    <3>1. m = 0 => At(m) = MaxDegree
      BY <1>2
    <3> QED
      BY <1>1, <2>4, <3>1
  <2>6. m - 1 \in 0 .. j /\ m - 1 \notin Bad
    BY <2>1, <2>2, <2>5
  <2>7. At(m - 1) = 2 * At(m)
    <3>1. j - m \in Nat /\ j - (m - 1) = (j - m) + 1 /\ 2 ^ 1 = 2
      BY <2>2
    <3>2. 2 ^ ((j - m) + 1) = 2 ^ (j - m) * 2 /\ 2 ^ (j - m) \in Nat
      BY <3>1, PowerAdds, PowerOf
    <3> QED
      BY <1>1, <3>1, <3>2
  <2> QED
    BY <2>2, <2>4, <2>6, <2>7
<1>8. degree[MinDegree] \in 0 .. MaxDegree
  <2>1. j \in 0 .. j /\ At(j) = MinDegree
    <3>1. 2 ^ 0 = 1 /\ j - j = 0
      OBVIOUS
    <3> QED
      BY <1>1, <3>1
  <2> QED
    BY <1>7, <2>1
<1> QED
  BY <1>4, <1>8

(* Every entry asked for exists.                                           *)
LEMMA QueryFits ==
  ASSUME NEW size \in Nat, NEW n \in Nat
  PROVE  QueryAt(size, n) < 2 ^ size
<1> DEFINE h    == size \div 2
           x    == 2 ^ h
           y    == 2 ^ (size % 2)
           part == n % x
<1>1. h \in Nat /\ size % 2 \in Nat /\ h + h \in Nat /\ size = (h + h) + (size % 2)
  OBVIOUS
<1>2. x \in Nat /\ x > 0 /\ y \in Nat /\ y > 0
  BY <1>1, PowerOf
<1>3. 2 ^ size = (x * x) * y
  <2>1. 2 ^ ((h + h) + (size % 2)) = 2 ^ (h + h) * y /\ 2 ^ (h + h) = x * x
    BY <1>1, PowerAdds
  <2> QED
    BY <1>1, <2>1
<1>4. QueryAt(size, n) = part * x + part
  BY DEF QueryAt
<1> HIDE DEF h, x, y
<1>5. part \in Nat /\ part < x
  BY <1>2
<1> HIDE DEF part
<1>6. part * x + part < x * x
  <2>1. part <= x - 1 /\ part * x <= (x - 1) * x /\ (x - 1) * x = x * x - x /\ x * x \in Nat /\ part * x \in Nat
    BY <1>2, <1>5
  <2> QED
    BY <1>2, <1>5, <2>1
<1>7. x * x <= (x * x) * y
  <2>1. x * x \in Nat
    BY <1>2
  <2> QED
    BY <1>2, <2>1
<1> QED
  BY <1>2, <1>3, <1>4, <1>5, <1>6, <1>7

(* The types, and what the benchmark loop has asked for. *)
Asked == \A n \in 1 .. Len(results) : results[n].entry < 2 ^ log
Typed == TypeOK /\ Asked

(* The variables have their types at first,                                *)
LEMMA TypedInit == Init => Typed
<1> SUFFICES ASSUME Init PROVE Typed
  OBVIOUS
<1>1. fault \in BOOLEAN
  BY Zenon DEF Init
<1>2. TypeOK
  BY <1>1 DEF Init, TypeOK, NoConfig
<1>3. Asked
  BY DEF Init, Asked
<1> QED
  BY <1>2, <1>3 DEF Typed

(* What one step does to the variables that no lemma above is about.       *)
LEMMA StepsOf ==
  ASSUME Next
  PROVE  /\ log' = log
         /\ received' = received \/ cpc' = "recvParams"
         /\ results' = results \/ RecvOne
         /\ encZeros' = encZeros \/ OfflinePhase \/ (encZeros > 0 /\ encZeros' = encZeros - 1)
         /\ serving' = serving \/ RecvBatch
         /\ ot' \in {ot, "none", "listening", "up"}
<1>1. log' = log
  BY DEF Next, ServerStep, ClientStep, ServerStart, AcceptClient, SendConfig, SendParams, SendPublicKey,
     SendDatabase, ListenOT, AcceptOT, RecvQueryType, RecvBatch, ServerRecvFails, SendOne, SendOneThrows,
     ServerClose, Connect, RecvConfig, RecvParams, RecvPublicKey, RecvDatabase, ClientRecvFails, OfflinePhase,
     ConnectOT, PrepareQuery, SendQueryType, SendBatch, Choose, RecvOne, RecvOneThrows, LoopDone, SendEnd,
     Disconnect, ServerDies, ClientDies, ConnectOTThrows, Finished, vars, local, svr, otCh, main
<1>2. received' = received \/ cpc' = "recvParams"
  BY DEF Next, ServerStep, ClientStep, ServerStart, AcceptClient, SendConfig, SendParams, SendPublicKey,
     SendDatabase, ListenOT, AcceptOT, RecvQueryType, RecvBatch, ServerRecvFails, SendOne, SendOneThrows,
     ServerClose, Connect, RecvConfig, RecvParams, RecvPublicKey, RecvDatabase, ClientRecvFails, OfflinePhase,
     ConnectOT, PrepareQuery, SendQueryType, SendBatch, Choose, RecvOne, RecvOneThrows, LoopDone, SendEnd,
     Disconnect, ServerDies, ClientDies, ConnectOTThrows, Finished, vars, local, svr, otCh, main
<1>3. results' = results \/ RecvOne
  BY DEF Next, ServerStep, ClientStep, ServerStart, AcceptClient, SendConfig, SendParams, SendPublicKey,
     SendDatabase, ListenOT, AcceptOT, RecvQueryType, RecvBatch, ServerRecvFails, SendOne, SendOneThrows,
     ServerClose, Connect, RecvConfig, RecvParams, RecvPublicKey, RecvDatabase, ClientRecvFails, OfflinePhase,
     ConnectOT, PrepareQuery, SendQueryType, SendBatch, Choose, RecvOne, RecvOneThrows, LoopDone, SendEnd,
     Disconnect, ServerDies, ClientDies, ConnectOTThrows, Finished, vars, local, svr, otCh, main
<1>4. encZeros' = encZeros \/ OfflinePhase \/ (encZeros > 0 /\ encZeros' = encZeros - 1)
  <2>1. encZeros' = encZeros \/ OfflinePhase \/ PrepareQuery
    BY DEF Next, ServerStep, ClientStep, ServerStart, AcceptClient, SendConfig, SendParams, SendPublicKey,
     SendDatabase, ListenOT, AcceptOT, RecvQueryType, RecvBatch, ServerRecvFails, SendOne, SendOneThrows,
     ServerClose, Connect, RecvConfig, RecvParams, RecvPublicKey, RecvDatabase, ClientRecvFails, OfflinePhase,
     ConnectOT, PrepareQuery, SendQueryType, SendBatch, Choose, RecvOne, RecvOneThrows, LoopDone, SendEnd,
     Disconnect, ServerDies, ClientDies, ConnectOTThrows, Finished, vars, local, svr, otCh, main
  <2> QED
    BY <2>1 DEF PrepareQuery
<1>5. serving' = serving \/ RecvBatch
  BY DEF Next, ServerStep, ClientStep, ServerStart, AcceptClient, SendConfig, SendParams, SendPublicKey,
     SendDatabase, ListenOT, AcceptOT, RecvQueryType, RecvBatch, ServerRecvFails, SendOne, SendOneThrows,
     ServerClose, Connect, RecvConfig, RecvParams, RecvPublicKey, RecvDatabase, ClientRecvFails, OfflinePhase,
     ConnectOT, PrepareQuery, SendQueryType, SendBatch, Choose, RecvOne, RecvOneThrows, LoopDone, SendEnd,
     Disconnect, ServerDies, ClientDies, ConnectOTThrows, Finished, vars, local, svr, otCh, main
<1>6. ot' \in {ot, "none", "listening", "up"}
  <2> DEFINE Known == ot' \in {ot, "none", "listening", "up"}
  <2>1. \A how : ServerStops(how) => Known
    BY DEF ServerStops
  <2>2. \A m, next, failed : ServerSend(m, next, failed) => Known
    BY <2>1 DEF ServerSend
  <2>3. CASE ServerStep
    BY <2>1, <2>2, <2>3 DEF ServerStep, ServerStart, AcceptClient, SendConfig, SendParams, SendPublicKey,
     SendDatabase, ListenOT, AcceptOT, RecvQueryType, RecvBatch, ServerRecvFails, SendOne, SendOneThrows,
     ServerClose, otCh
  <2>4. CASE ClientStep
    BY <2>4 DEF ClientStep, Connect, RecvConfig, RecvParams, RecvPublicKey, RecvDatabase, ClientRecvFails,
     OfflinePhase, ConnectOT, PrepareQuery, SendQueryType, SendBatch, Choose, RecvOne, RecvOneThrows, LoopDone,
     SendEnd, Disconnect, otCh
  <2> QED
    BY <2>1, <2>3, <2>4 DEF Next, ServerDies, ClientDies, ConnectOTThrows, Finished, vars, otCh
<1> QED
  BY <1>1, <1>2, <1>3, <1>4, <1>5, <1>6

(* and every step keeps them.                                              *)
LEMMA TypedNext == InStep /\ InStep' /\ Typed /\ [Next]_vars => Typed'
<1> SUFFICES ASSUME InStep, InStep', Typed, [Next]_vars PROVE Typed'
  OBVIOUS
<1>1. CASE Next
  <2>1. /\ log \in LogSizes /\ received.log \in LogSizes \cup {0} /\ ot \in {"none", "listening", "up"}
        /\ i \in Nat /\ encZeros \in Nat /\ serving \in Nat /\ Asked
    BY DEF Typed, TypeOK
  <2>2. log' = log
    BY <1>1, StepsOf
  <2>3. received'.log \in LogSizes \cup {0}
    <3>1. CASE received' = received
      BY <2>1, <3>1
    <3>2. CASE cpc' = "recvParams"
      <4>1. received' = [log |-> log', p |-> Greeting'[1].p]
        BY <3>2 DEF InStep, Spoken, Greeted, ClientEnd
      <4> QED
        BY <2>1, <2>2, <4>1
    <3> QED
      BY <1>1, <3>1, <3>2, StepsOf
  <2>4. ot' \in {"none", "listening", "up"}
    BY <1>1, <2>1, StepsOf
  <2>5. i' \in Nat /\ queryCount' \in Nat
    <3>1. i' \in Nat
      BY DEF InStep, Paired
    <3>2. PICK n \in Nat : n = i'
      BY <3>1
    <3>3. queryCount' = n \/ queryCount' = n + 1
      BY <3>2 DEF InStep, QueryFlow, AtQuery
    <3> QED
      BY <3>1, <3>3
  <2>6. fault' \in BOOLEAN
    BY DEF InStep, Cached
  <2>7. encZeros' \in Nat
    <3>1. CASE OfflinePhase
      <4>1. encZeros' = NumQueriesOf(log)
        BY <3>1 DEF OfflinePhase, InStep, Understood, InHandshake, ClientEnd
      <4>2. log \in Nat /\ (log \div 2 + (log % 2)) \in Nat
        BY <2>1, LogSizesAssumption
      <4> QED
        BY <4>1, <4>2, PowerOf DEF NumQueriesOf, PartSizeOf
    <3> QED
      BY <1>1, <2>1, <3>1, StepsOf
  <2>8. serving' \in Nat
    <3>1. CASE RecvBatch
      <4>1. toServer = << BatchMsg(i) >>
        BY <3>1 DEF RecvBatch, InStep, QueryFlow, ServerReads
      <4>2. serving' = i
        BY <3>1, <4>1, SmallHead DEF RecvBatch, BatchMsg
      <4> QED
        BY <2>1, <4>2
    <3> QED
      BY <1>1, <2>1, <3>1, StepsOf
  <2>9. Asked'
    <3>1. CASE results' = results
      BY <2>1, <2>2, <3>1 DEF Asked
    <3>2. CASE RecvOne
      <4>1. received.log = log
        BY <3>2 DEF RecvOne, InStep, Understood, InHandshake, ClientEnd
      <4> DEFINE r == [query |-> i, answer |-> Head(answers), entry |-> QueryAt(log, i)]
      <4>2. results' = Append(results, r) /\ results \in Seq(Results) /\ results' \in Seq(Results)
        BY <3>2, <4>1 DEF RecvOne, InStep, Paired
      <4>3. r.entry < 2 ^ log
        BY <2>1, LogSizesAssumption, QueryFits
      <4> HIDE DEF r
      <4>4. /\ Len(results) \in Nat /\ Len(results') = Len(results) + 1 /\ results'[Len(results) + 1] = r
            /\ \A n \in 1 .. Len(results) : results'[n] = results[n]
        BY <4>2
      <4>5. \A n \in 1 .. Len(results') : results'[n].entry < 2 ^ log
        BY <2>1, <4>3, <4>4 DEF Asked
      <4> QED
        BY <2>2, <4>5 DEF Asked
    <3> QED
      BY <1>1, <3>1, <3>2, StepsOf
  <2> QED
    BY <2>1, <2>2, <2>3, <2>4, <2>5, <2>6, <2>7, <2>8, <2>9 DEF Typed, TypeOK
<1>2. CASE UNCHANGED vars
  BY <1>2 DEF vars, main, otCh, local, svr, Typed, TypeOK, Asked
<1> QED
  BY <1>1, <1>2

(* utils.cpp and the two main functions: both programs work with the same  *)
(* parameters for every Log2DBSize the server is started with.  A degree   *)
(* it finds holds a partition and does not exceed the greatest one, every  *)
(* query of the benchmark loop is for an entry that exists, and there is   *)
(* an Enc(0) for it.                                                       *)
THEOREM ParametersAlwaysAgree == Spec => []ParametersAgree
<1>1. InStep /\ Typed => ParametersAgree
  <2> SUFFICES ASSUME InStep, Typed PROVE ParametersAgree
    OBVIOUS
  <2>1. TypeOK /\ Greeted /\ CacheKept /\ AllAsked /\ Understood /\ Asked
    BY DEF InStep, Spoken, Cached, Typed
  <2>2. ASSUME cpc \notin InHandshake \cup ClientEnd
        PROVE  /\ PartSizeOf(received.log) <= SelectPolyModulusDegree(log)
               /\ SelectPolyModulusDegree(log) <= MaxDegree
    <3>1. received.log = log /\ SelectPolyModulusDegree(log) # 0
      BY <2>1, <2>2 DEF Understood, Greeted, InHandshake, ClientEnd
    <3>2. /\ SelectPolyModulusDegree(log) = DoubleUpTo(PartSizeOf(log))
          /\ ~ (DoubleUpTo(PartSizeOf(log)) < PartSizeOf(log))
      BY <3>1 DEF SelectPolyModulusDegree
    <3>3. DoubleUpTo(PartSizeOf(log)) \in Nat /\ DoubleUpTo(PartSizeOf(log)) <= MaxDegree
      BY DoublingFits
    <3>4. PartSizeOf(log) \in Nat
      <4>1. log \in Nat /\ (log \div 2 + (log % 2)) \in Nat
        BY <2>1, LogSizesAssumption DEF TypeOK
      <4> QED
        BY <4>1, PowerOf DEF PartSizeOf
    <3> QED
      BY <3>1, <3>2, <3>3, <3>4
  <2> QED
    BY <2>1, <2>2 DEF ParametersAgree, HandshakeAgrees, WorkloadFits, Asked
<1>2. Spec => [](InStep /\ Typed)
  <2>1. InStep /\ Typed /\ InStep' /\ [Next]_vars => Typed'
    BY TypedNext
  <2> QED
    BY <2>1, TypedInit, SessionInStep, PTL DEF Spec
<1> QED
  BY <1>1, <1>2, PTL

=============================================================================

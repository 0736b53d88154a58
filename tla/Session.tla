------------------------------- MODULE Session -------------------------------
(***************************************************************************)
(* The two processes of PPFE, server_main.cpp and client_main.cpp, and     *)
(* their two connections: the main TCP connection (handshake, encrypted    *)
(* database, queries, end signal) and the connection of the oblivious      *)
(* transfers that carries the answers.  What a query and an answer hold is *)
(* the subject of module OneSVClient; here they carry the number of the    *)
(* query they belong to.                                                   *)
(*                                                                         *)
(* Either process may die at any moment.  What it had sent may then be     *)
(* lost from some point on; the other side reads what is left and then the *)
(* end of the stream.  A send on a connection the peer has closed may      *)
(* succeed, fail, or kill the sender (SIGPIPE: no flag or handler is set). *)
(***************************************************************************)
EXTENDS Integers, Sequences

CONSTANTS
  LogSizes,   \* the values of Log2DBSize the server is started with
  MaxLog,     \* bound of Log2DBSize, 32 in the code
  MinDegree,  \* PPFE_MIN_POLY_MODULUS_DEGREE
  MaxDegree,  \* PPFE_MAX_POLY_MODULUS_DEGREE
  CoeffBits,  \* PPFE_COEFF_MODULUS_BITS
  PlainBits   \* PPFE_PLAIN_MODULUS_BITS

ASSUME LogSizesAssumption == LogSizes \subseteq Nat
ASSUME DegreeAssumption ==
  /\ MaxLog \in Nat /\ MinDegree \in Nat /\ MaxDegree \in Nat
  /\ 0 < MinDegree
  /\ \E doublings \in 0 .. MaxDegree : MaxDegree = MinDegree * 2 ^ doublings

-----------------------------------------------------------------------------
(* The sizes both programs derive from Log2DBSize: the partitions, the     *)
(* polynomial degree, the moduli and the queries of the benchmark loop.    *)

PartNumOf(log)  == 2 ^ (log \div 2)
PartSizeOf(log) == 2 ^ (log \div 2 + (log % 2))
NumQueriesOf(log) == PartSizeOf(log)

(* The entry number query i of the benchmark loop asks for. *)
QueryAt(log, i) ==
  LET part == i % (2 ^ (log \div 2)) IN part * 2 ^ (log \div 2) + part

(* The loop that doubles the degree until a partition of this size fits. *)
DoubleUpTo(size) ==
  LET degree[d \in 1 .. 2 * MaxDegree] ==
        IF d < size /\ d < MaxDegree THEN degree[2 * d] ELSE d
  IN  degree[MinDegree]

MutantSelectPolyModulusDegree(log) ==   \* the last test is missing
  IF log >= MaxLog THEN 0 ELSE DoubleUpTo(PartSizeOf(log))

(* 0 stands for the exception. *)
SelectPolyModulusDegree(log) ==
  IF log >= MaxLog \/ DoubleUpTo(PartSizeOf(log)) < PartSizeOf(log) THEN 0
  ELSE DoubleUpTo(PartSizeOf(log))

ValidatePolyModulusDegree(log, degree) ==
  degree # 0 /\ degree = SelectPolyModulusDegree(log)

(* PlainModulus::batching: the first prime found for a degree and a size,  *)
(* the same in both programs.                                              *)
PlainModulus(degree, bits) == <<degree, bits>>

(* The moduli the HE library generates have the sizes asked for. *)
ValidateProtocolParameters(qBits, pBits) ==
  qBits = CoeffBits /\ pBits = PlainBits

-----------------------------------------------------------------------------
(* The two processes.                                                      *)

VARIABLES
  log,        \* Log2DBSize of the server
  spc, cpc,   \* where the server and the client are
  toClient, toServer,        \* main connection: messages in transit
  ot,         \* OT connection: "none", "listening", "up"
  choice,     \* OT: choices sent by the client and not yet used
  answers,    \* OT: answers sent by the server and not yet received
  received,   \* configuration the client received
  i,          \* client: loop counter
  encZeros,   \* client: Enc(0) ciphertexts left
  results,    \* client: number of the query and of its answer, and the entry
  serving,    \* server: number of the query it works on
  queryCount, \* server: queries answered
  fault       \* history: a process died, or one side gave up on a closed
              \* connection

main  == <<toClient, toServer>>
otCh  == <<ot, choice, answers>>
local == <<received, i, encZeros, results>>
svr   == <<serving, queryCount>>
vars  == <<log, spc, cpc, main, otCh, local, svr, fault>>

(* The process has ended; its sockets are closed. *)
ServerEnd == {"exited", "failed", "died"}
ClientEnd == {"exited", "failed", "refused", "rejected", "exhausted", "died"}
serverGone == spc \in ServerEnd
clientGone == cpc \in ClientEnd

NoConfig == [log |-> 0, p |-> <<0, 0>>]

(* The prefixes of a sequence: what survives of it when its sender dies. *)
Prefixes(s) == {SubSeq(s, 1, n) : n \in 0 .. Len(s)}

Init ==
  /\ log \in LogSizes
  /\ spc = "setup" /\ cpc = "start"
  /\ toClient = << >> /\ toServer = << >>
  /\ ot = "none" /\ choice = << >> /\ answers = << >>
  /\ received = NoConfig
  /\ i = 0 /\ encZeros = 0 /\ results = << >>
  /\ serving = 0 /\ queryCount = 0
  /\ fault = FALSE

-----------------------------------------------------------------------------
(* Connections. *)

(* The server process is gone: its sockets are closed; with dying, part of *)
(* what it sent may be lost.                                               *)
ServerStops(how) ==
  /\ spc' = how
  /\ ot' = IF ot = "up" THEN "up" ELSE "none"
  /\ toClient' \in IF how = "died" THEN Prefixes(toClient) ELSE {toClient}
  /\ answers' \in IF how = "died" THEN Prefixes(answers) ELSE {answers}

ClientStops(how) ==
  /\ cpc' = how
  /\ toServer' \in IF how = "died" THEN Prefixes(toServer) ELSE {toServer}
  /\ choice' \in IF how = "died" THEN Prefixes(choice) ELSE {choice}

(* sendData of message m by the server, then go to next; go to failed when *)
(* it returns false.                                                       *)
ServerSend(m, next, failed) ==
  \/ /\ spc' = next
     /\ toClient' = Append(toClient, m)
     /\ UNCHANGED <<ot, answers, fault>>
  \/ /\ clientGone /\ failed # next
     /\ ServerStops(failed) /\ fault' = TRUE
  \/ /\ clientGone
     /\ ServerStops("died") /\ fault' = TRUE

(* sendData by the client. *)
ClientSend(m, next, failed) ==
  \/ /\ cpc' = next
     /\ toServer' = Append(toServer, m)
     /\ UNCHANGED <<choice, fault>>
  \/ /\ serverGone
     /\ cpc' = failed /\ fault' = TRUE
     /\ UNCHANGED <<toServer, choice>>
  \/ /\ serverGone
     /\ ClientStops("died") /\ fault' = TRUE

ClientEOF == toClient = << >> /\ serverGone   \* recvData returns false
ServerEOF == toServer = << >> /\ clientGone

-----------------------------------------------------------------------------
(* The server. *)

(* Parameters, database, listening socket; or an exception for a database  *)
(* whose partition exceeds every degree, or a port that cannot be bound.   *)
ServerStart ==
  /\ spc = "setup"
  /\ \/ SelectPolyModulusDegree(log) # 0 /\ spc' = "accept"
     \/ SelectPolyModulusDegree(log) = 0 /\ spc' = "died"
     \/ spc' = "failed"
  /\ UNCHANGED <<log, cpc, main, otCh, local, svr, fault>>

AcceptClient ==
  /\ spc = "accept" /\ cpc \notin {"start", "refused"}
  /\ spc' = "sendConfig"
  /\ UNCHANGED <<log, cpc, toClient, toServer, otCh, local, svr,
                 fault>>

(* The results of the first six sends are ignored. *)
SendConfig ==
  /\ spc = "sendConfig"
  /\ LET degree == SelectPolyModulusDegree(log) IN
     ServerSend([kind |-> "config", log |-> log,
                 p |-> PlainModulus(degree, PlainBits)],
                "sendParams", "sendParams")
  /\ UNCHANGED <<log, cpc, toServer, choice, local, svr>>

SendParams ==
  /\ spc = "sendParams"
  /\ ServerSend([kind |-> "params", degree |-> SelectPolyModulusDegree(log),
                 qBits |-> CoeffBits, pBits |-> PlainBits],
                "sendKey", "sendKey")
  /\ UNCHANGED <<log, cpc, toServer, choice, local, svr>>

SendPublicKey ==
  /\ spc = "sendKey"
  /\ ServerSend([kind |-> "key"], "sendDB", "failed")
  /\ UNCHANGED <<log, cpc, toServer, choice, local, svr>>

SendDatabase ==
  /\ spc = "sendDB"
  /\ ServerSend([kind |-> "db", count |-> PartNumOf(log)], "otListen", "failed")
  /\ UNCHANGED <<log, cpc, toServer, choice, local, svr>>

ListenOT ==
  /\ spc = "otListen"
  /\ ot' = "listening" /\ spc' = "otAccept"
  /\ UNCHANGED <<log, cpc, main, choice, answers, local, svr, fault>>

(* SimplestOTServerSession returns once the client has connected. *)
AcceptOT ==
  /\ spc = "otAccept" /\ ot = "up"
  /\ spc' = "serve"
  /\ UNCHANGED <<log, cpc, main, otCh, local, svr, fault>>

RecvQueryType ==
  /\ spc = "serve" /\ toServer # << >>
  /\ spc' = IF Head(toServer).kind = "end" THEN "close" ELSE "recvBatch"
  /\ toServer' = Tail(toServer)
  /\ UNCHANGED <<log, cpc, toClient, otCh, local, svr,
                 fault>>

MutantRecvBatch ==   \* the previous query is answered again
  /\ spc = "recvBatch" /\ toServer # << >>
  /\ toServer' = Tail(toServer)
  /\ spc' = "sendOT"
  /\ UNCHANGED <<log, cpc, toClient, otCh, local, svr, fault>>

(* recvBatchQueries, then onlineQuery. *)
RecvBatch ==
  /\ spc = "recvBatch" /\ toServer # << >>
  /\ serving' = Head(toServer).query
  /\ toServer' = Tail(toServer)
  /\ spc' = "sendOT"
  /\ UNCHANGED <<log, cpc, toClient, otCh, local,
                 queryCount, fault>>

MutantServerRecvFails ==   \* the loop goes on
  /\ spc \in {"serve", "recvBatch"} /\ ServerEOF
  /\ UNCHANGED vars

(* "Client disconnected", or a batch that does not arrive. *)
ServerRecvFails ==
  /\ spc \in {"serve", "recvBatch"} /\ ServerEOF
  /\ spc' = "close"
  /\ UNCHANGED <<log, cpc, main, otCh, local, svr, fault>>


(* sendOne needs the receiver's choice and does not wait for the answer to *)
(* be read.                                                                *)
SendOne ==
  /\ spc = "sendOT" /\ choice # << >>
  /\ choice' = Tail(choice)
  /\ answers' = Append(answers, serving)
  /\ queryCount' = queryCount + 1
  /\ spc' = "serve"
  /\ UNCHANGED <<log, cpc, main, ot, local, serving, fault>>

(* The transfer throws when the client is gone; nothing catches it. *)
SendOneThrows ==
  /\ spc = "sendOT" /\ choice = << >> /\ clientGone
  /\ ServerStops("died") /\ fault' = TRUE
  /\ UNCHANGED <<log, cpc, toServer, choice, local, svr>>

ServerClose ==
  /\ spc = "close"
  /\ ServerStops("exited")
  /\ UNCHANGED <<log, cpc, toServer, choice, local, svr, fault>>

-----------------------------------------------------------------------------
(* The client. *)

(* Connecting succeeds while the server listens, before it accepts too. *)
Connect ==
  /\ cpc = "start"
  /\ \/ spc = "accept" /\ cpc' = "recvConfig"
     \/ spc # "accept" /\ cpc' = "refused"
  /\ UNCHANGED <<log, spc, toClient, toServer, otCh, local, svr,
                 fault>>


RecvConfig ==
  /\ cpc = "recvConfig" /\ toClient # << >>
  /\ received' = [log |-> Head(toClient).log, p |-> Head(toClient).p]
  /\ toClient' = Tail(toClient)
  /\ cpc' = "recvParams"
  /\ UNCHANGED <<log, spc, toServer, otCh, i, encZeros,
                 results, svr, fault>>

(* The client rejects parameters that do not fit the database size. *)
Accepts(m) ==
  /\ ValidatePolyModulusDegree(received.log, m.degree)
  /\ ValidateProtocolParameters(m.qBits, m.pBits)
  /\ received.p = PlainModulus(m.degree, m.pBits)

RecvParams ==
  /\ cpc = "recvParams" /\ toClient # << >>
  /\ toClient' = Tail(toClient)
  /\ cpc' = IF Accepts(Head(toClient)) THEN "recvKey" ELSE "rejected"
  /\ UNCHANGED <<log, spc, toServer, otCh, local, svr,
                 fault>>

RecvPublicKey ==
  /\ cpc = "recvKey" /\ toClient # << >>
  /\ toClient' = Tail(toClient)
  /\ cpc' = "recvDB"
  /\ UNCHANGED <<log, spc, toServer, otCh, local, svr,
                 fault>>

RecvDatabase ==
  /\ cpc = "recvDB" /\ toClient # << >>
  /\ toClient' = Tail(toClient)
  /\ cpc' = IF Head(toClient).count = PartNumOf(received.log)
            THEN "offline" ELSE "rejected"
  /\ UNCHANGED <<log, spc, toServer, otCh, local, svr,
                 fault>>

(* A missing message of the handshake ends the client with status 1. *)
ClientRecvFails ==
  /\ cpc \in {"recvConfig", "recvParams", "recvKey", "recvDB"} /\ ClientEOF
  /\ ClientStops("failed")
  /\ UNCHANGED <<log, spc, toClient, ot, answers, local, svr, fault>>


(* The hints and the Enc(0) cache. *)
OfflinePhase ==
  /\ cpc = "offline"
  /\ encZeros' = NumQueriesOf(received.log)
  /\ cpc' = "otConnect"
  /\ UNCHANGED <<log, spc, main, otCh, received, i, results, svr, fault>>

(* External: connecting is tried until the server listens. *)
ConnectOT ==
  /\ cpc = "otConnect" /\ ot = "listening"
  /\ ot' = "up" /\ cpc' = "loop"
  /\ UNCHANGED <<log, spc, main, choice, answers, local, svr, fault>>

(* Find a hint, build the query and randomize it with an Enc(0). *)
PrepareQuery ==
  /\ cpc = "loop" /\ i < NumQueriesOf(received.log)
  /\ \/ encZeros > 0 /\ encZeros' = encZeros - 1 /\ cpc' = "sendType"
     \/ encZeros = 0 /\ cpc' = "exhausted" /\ UNCHANGED encZeros
  /\ UNCHANGED <<log, spc, main, otCh, received, i, results, svr, fault>>

SendQueryType ==
  /\ cpc = "sendType"
  /\ ClientSend([kind |-> "type"], "sendBatch", "verify")
  /\ UNCHANGED <<log, spc, toClient, ot, answers, local, svr>>

SendBatch ==
  /\ cpc = "sendBatch"
  /\ ClientSend([kind |-> "batch", query |-> i], "choose", "verify")
  /\ UNCHANGED <<log, spc, toClient, ot, answers, local, svr>>

(* recvOne: the choice goes out, the answer comes back. *)
Choose ==
  /\ cpc = "choose"
  /\ choice' = Append(choice, i)
  /\ cpc' = "await"
  /\ UNCHANGED <<log, spc, main, ot, answers, local, svr, fault>>

MutantRecvOne ==   \* the answer stays in the channel
  /\ cpc = "await" /\ answers # << >>
  /\ results' = Append(results, [query |-> i, answer |-> Head(answers),
                                 entry |-> QueryAt(received.log, i)])
  /\ i' = i + 1
  /\ cpc' = "loop"
  /\ UNCHANGED <<log, spc, main, otCh, received, encZeros, svr, fault>>

(* The answer is decoded, the hint refreshed and the result recorded. *)
RecvOne ==
  /\ cpc = "await" /\ answers # << >>
  /\ answers' = Tail(answers)
  /\ results' = Append(results, [query |-> i, answer |-> Head(answers),
                                   entry |-> QueryAt(received.log, i)])
  /\ i' = i + 1
  /\ cpc' = "loop"
  /\ UNCHANGED <<log, spc, main, ot, choice, received, encZeros, svr, fault>>


(* The transfer throws when the server is gone; nothing catches it. *)
RecvOneThrows ==
  /\ cpc = "await" /\ answers = << >> /\ serverGone
  /\ ClientStops("died") /\ fault' = TRUE
  /\ UNCHANGED <<log, spc, toClient, ot, answers, local, svr>>

MutantLoopDone ==   \* the last query is left out
  /\ cpc = "loop" /\ i = NumQueriesOf(received.log) - 1
  /\ cpc' = "verify"
  /\ UNCHANGED <<log, spc, main, otCh, local, svr, fault>>

LoopDone ==
  /\ cpc = "loop" /\ i = NumQueriesOf(received.log)
  /\ cpc' = "verify"
  /\ UNCHANGED <<log, spc, main, otCh, local, svr, fault>>

(* After the verification report comes the end signal; the result of the   *)
(* send is ignored.                                                        *)
SendEnd ==
  /\ cpc = "verify"
  /\ ClientSend([kind |-> "end"], "close", "close")
  /\ UNCHANGED <<log, spc, toClient, ot, answers, local, svr>>

Disconnect ==
  /\ cpc = "close"
  /\ ClientStops("exited")
  /\ UNCHANGED <<log, spc, toClient, ot, answers, local, svr, fault>>

-----------------------------------------------------------------------------
(* Faults, and the end. *)

ServerDies ==
  /\ spc # "setup" /\ ~ serverGone
  /\ ServerStops("died") /\ fault' = TRUE
  /\ UNCHANGED <<log, cpc, toServer, choice, local, svr>>

(* Including the assertion that a backup hint is left. *)
ClientDies ==
  /\ cpc # "start" /\ ~ clientGone
  /\ ClientStops("died") /\ fault' = TRUE
  /\ UNCHANGED <<log, spc, toClient, ot, answers, local, svr>>

(* External: connecting to a server that is gone may throw, or never end.  *)
ConnectOTThrows ==
  /\ cpc = "otConnect" /\ serverGone
  /\ ClientStops("died") /\ fault' = TRUE
  /\ UNCHANGED <<log, spc, toClient, ot, answers, local, svr>>

Finished ==
  /\ \/ serverGone /\ clientGone
     \/ cpc = "refused" /\ spc = "accept"
     \/ clientGone /\ spc = "otAccept" /\ ot = "listening"
     \/ serverGone /\ cpc = "otConnect" /\ ot = "none"
  /\ UNCHANGED vars

ServerStep ==
  \/ ServerStart \/ AcceptClient \/ SendConfig \/ SendParams \/ SendPublicKey
  \/ SendDatabase \/ ListenOT \/ AcceptOT \/ RecvQueryType \/ RecvBatch
  \/ ServerRecvFails \/ SendOne \/ SendOneThrows \/ ServerClose

ClientStep ==
  \/ Connect \/ RecvConfig \/ RecvParams \/ RecvPublicKey \/ RecvDatabase
  \/ ClientRecvFails \/ OfflinePhase \/ ConnectOT \/ PrepareQuery
  \/ SendQueryType \/ SendBatch \/ Choose \/ RecvOne \/ RecvOneThrows
  \/ LoopDone \/ SendEnd \/ Disconnect

Next ==
  \/ ServerStep \/ ClientStep
  \/ ServerDies \/ ClientDies \/ ConnectOTThrows \/ Finished

(* Either process runs whenever it is not blocked; nothing has to fail.    *)
Spec == Init /\ [][Next]_vars /\ WF_vars(ServerStep) /\ WF_vars(ClientStep)

-----------------------------------------------------------------------------
(* Properties. *)

InHandshake == {"start", "recvConfig", "recvParams", "recvKey", "recvDB"}

(* Every variable has its type. *)
TypeOK ==
  /\ log \in LogSizes /\ received.log \in LogSizes \cup {0}
  /\ ot \in {"none", "listening", "up"}
  /\ i \in Nat /\ encZeros \in Nat /\ serving \in Nat /\ queryCount \in Nat
  /\ fault \in BOOLEAN

(* The client neither rejects the server nor runs out of Enc(0), and both  *)
(* work with the same database size.                                       *)
Understood ==
  /\ cpc \notin {"rejected", "exhausted"}
  /\ cpc \notin InHandshake \cup ClientEnd => received.log = log

(* A server that starts is understood by its client: the parameters it     *)
(* sends pass the client's validation, both work with the same partitions, *)
(* and a partition fits into one polynomial.                               *)
HandshakeAgrees ==
  /\ Understood
  /\ cpc \notin InHandshake \cup ClientEnd =>
       /\ PartSizeOf(received.log) <= SelectPolyModulusDegree(log)
       /\ SelectPolyModulusDegree(log) <= MaxDegree

(* What the server says before the queries, and how much of it is sent and *)
(* taken.  The client reads it in the order it was sent, and connects only *)
(* to a server that found a degree.                                        *)
Greeting == << [kind |-> "config", log |-> log, p |-> PlainModulus(SelectPolyModulusDegree(log), PlainBits)],
               [kind |-> "params", degree |-> SelectPolyModulusDegree(log), qBits |-> CoeffBits, pBits |-> PlainBits],
               [kind |-> "key"],
               [kind |-> "db", count |-> PartNumOf(log)] >>
Sent == CASE spc \in {"setup", "accept", "sendConfig"} -> 0 [] spc = "sendParams" -> 1
          [] spc = "sendKey" -> 2 [] spc = "sendDB" -> 3 [] OTHER -> 4
Taken == CASE cpc \in {"start", "recvConfig"} -> 0 [] cpc = "recvParams" -> 1
           [] cpc = "recvKey" -> 2 [] cpc = "recvDB" -> 3 [] OTHER -> 4

Greeted ==
  /\ spc \notin {"setup", "died", "failed"} \/ cpc \notin {"start", "refused"} => SelectPolyModulusDegree(log) # 0
  /\ cpc \notin {"start", "recvConfig"} \cup ClientEnd => received = [log |-> log, p |-> Greeting[1].p]
  /\ ~ clientGone => \A n \in 1 .. Len(toClient) : n + Taken <= 4 /\ toClient[n] = Greeting[n + Taken]
  /\ ~ clientGone /\ ~ serverGone => Len(toClient) + Taken = Sent

(* The answer that arrives on the OT connection is the one to the query    *)
(* last sent on the main connection.                                       *)
AnswersPaired ==
  \A n \in 1 .. Len(results) :
    results[n].query = n - 1 /\ results[n].answer = n - 1

(* The query the two programs are at.  While the server reads the batch or *)
(* transfers the answer it works on the client's query i; when it has      *)
(* answered that one, nothing else is on the way; else what it has still   *)
(* to read is what the client has sent of query i.                         *)
TypeMsg     == [kind |-> "type"]
BatchMsg(n) == [kind |-> "batch", query |-> n]
EndMsg      == [kind |-> "end"]
Asking == {"choose", "await", "died"}

AtQuery ==
  /\ Len(results) = i /\ queryCount \in {i, i + 1}
  /\ choice \in {<< >>, << i >>} /\ (choice # << >> => cpc \in {"await", "died"} /\ queryCount = i)
  /\ queryCount = i => answers = << >>
  /\ queryCount = i + 1 => /\ cpc \in {"await", "died"} /\ answers \in {<< >>, << i >>}
                           /\ toServer = << >> /\ spc \notin {"recvBatch", "sendOT"}
ServerReads ==
  /\ spc = "recvBatch" => /\ cpc \in Asking \cup {"sendBatch"}
                          /\ cpc = "sendBatch" => toServer = << >>
                          /\ cpc \in {"choose", "await"} => toServer = << BatchMsg(i) >>
                          /\ toServer \in {<< >>, << BatchMsg(i) >>}
  /\ spc = "sendOT" => cpc \in Asking /\ toServer = << >> /\ serving = i
UnreadAt(c, n) ==
  CASE c = "sendBatch" -> {<< TypeMsg >>}
    [] c \in {"choose", "await"} -> {<< TypeMsg, BatchMsg(n) >>}
    [] c \in {"close", "exited"} -> {<< >>, << EndMsg >>}
    [] c = "died" -> {<< >>, << TypeMsg >>, << TypeMsg, BatchMsg(n) >>, << EndMsg >>}
    [] OTHER -> {<< >>}
Unread ==
  ~ serverGone /\ spc \notin {"recvBatch", "sendOT"} /\ queryCount = i => toServer \in UnreadAt(cpc, i)
QueryFlow == AtQuery /\ ServerReads /\ Unread

(* The server counts every answer the client recorded, and at most one     *)
(* more; a client that ran to its end has recorded them all.               *)
CountsAgree ==
  /\ queryCount - Len(results) \in {0, 1}
  /\ cpc = "exited" => queryCount = Len(results)

(* The Enc(0) left are those of the queries to come. *)
CacheKept ==
  /\ cpc \in InHandshake \cup {"offline", "otConnect"} => i = 0
  /\ cpc \in {"otConnect", "loop"} => encZeros = NumQueriesOf(log) - i
  /\ cpc \in {"sendType", "sendBatch", "choose", "await"} => encZeros = NumQueriesOf(log) - i - 1

(* The benchmark loop asks for existing entries, and the Enc(0) cache      *)
(* filled before it lasts for all of its queries.                          *)
WorkloadFits ==
  /\ CacheKept
  /\ \A n \in 1 .. Len(results) : results[n].entry < 2 ^ log

(* Without a fault the client leaves its loop with all answers.            *)
AllAsked == cpc \in {"verify", "close", "exited"} /\ ~ fault => i = NumQueriesOf(log)

(* The server answers every query once and in the order of the queries,    *)
(* and never after the end signal.                                         *)
ServedInOrder ==
  [][queryCount' # queryCount => /\ queryCount' = queryCount + 1
                                 /\ serving = queryCount
                                 /\ cpc # "exited"]_vars

(* Without a fault, a client that has connected gets all its answers and   *)
(* both programs end.                                                      *)
SessionCompletes ==
  cpc = "recvConfig" ~>
    \/ fault
    \/ cpc = "exited" /\ spc = "exited" /\ Len(results) = NumQueriesOf(log)

(* When the client is gone the server ends, whatever it was doing, except  *)
(* that it waits for an OT connection for ever.                            *)
ServerFollows ==
  clientGone /\ cpc # "refused" ~> serverGone \/ spc = "otAccept"

(* When the server is gone the client ends, except that it may try to open *)
(* the OT connection for ever.                                             *)
ClientFollows == serverGone ~> clientGone \/ cpc = "otConnect"

(* Both programs work with the same parameters, and those fit: what the    *)
(* handshake agreed on, the partitions into the polynomials, the Enc(0)    *)
(* cache and the queries into the loop.                                    *)
ParametersAgree == TypeOK /\ Greeted /\ HandshakeAgrees /\ WorkloadFits /\ AllAsked

(* Every query has its own answer: the one that arrives on the other       *)
(* connection is the one to the query last sent, and both programs count   *)
(* the same.                                                               *)
AnswersMatched == AnswersPaired /\ CountsAgree /\ QueryFlow

(* When either program is gone the other ends, but for the two waits for   *)
(* an OT connection that have no end.                                      *)
PeersFollow == ServerFollows /\ ClientFollows

=============================================================================

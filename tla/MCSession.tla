------------------------------- MODULE MCSession -------------------------------
(***************************************************************************)
(* The two programs over their connections, one part per level: the        *)
(* session in whole messages, and the bytes of a connection, where batches *)
(* are packed, sent and received in arbitrary pieces, and parsed.  Bytes   *)
(* have four bits: two partitions fill part of one, eight partitions two.  *)
(* While the part is "wire" the session stays where it begins.             *)
(***************************************************************************)
EXTENDS Session, Transport

VARIABLE part
allVars == <<part, vars, transportVars>>

Query(partNum, bits, ct) ==
  [bvec |-> [k \in 0 .. partNum - 1 |-> IF k \in bits THEN 1 ELSE 0],
   Svec |-> [k \in 0 .. partNum - 1 |-> (3 * k + 1) % 4],
   ciphertext |-> [j \in 1 .. Len(ct) |-> [value |-> ct[j]]]]

(* A lone query, as the client sends it, and a batch of two. *)
MCBatchChoices ==
  {[partNum |-> 2, batches |-> << <<Query(2, b, <<7>>)>>,
                                  <<Query(2, {1}, <<8, 9>>), Query(2, b, << >>)>> >>] :
     b \in SUBSET {0, 1}}
  \cup
  {[partNum |-> 8, batches |-> << <<Query(8, b, <<7, 8>>)>>, <<Query(8, {0}, <<9>>)>> >>] :
     b \in {{}, {3, 4}, {0, 2, 5, 7}, 0 .. 7}}

ASSUME TransportConstants

(* A connection nobody uses. *)
NoWire ==
  /\ TransportInit
  /\ PartNum = 2 /\ batches[1][1].bvec[0] = 0 /\ batches[1][1].bvec[1] = 0
Start ==
  \/ part = "session" /\ Init /\ NoWire
  \/ part = "wire" /\ Init /\ log = 2 /\ TransportInit
OnWire(A)    == part = "wire" /\ A /\ UNCHANGED <<part, vars>>
InSession(A) == part = "session" /\ A /\ UNCHANGED <<part, transportVars>>
Run == InSession(Next) \/ OnWire(TransportNext)

(* Either process, and either end of a connection, runs on whenever it is  *)
(* not blocked; nothing has to fail.                                       *)
MCSpec ==
  /\ Start /\ [][Run]_allVars
  /\ WF_allVars(InSession(ServerStep)) /\ WF_allVars(InSession(ClientStep))
  /\ WF_allVars(OnWire(Send)) /\ WF_allVars(OnWire(Receive))

-----------------------------------------------------------------------------
(* network.cpp: unless the sender goes away, every batch arrives.          *)
EveryBatchArrives == <>(part = "session" \/ Settled)
=============================================================================

------------------------------ MODULE Transport ------------------------------
(***************************************************************************)
(* NetworkHelper's transport of query batches: the sendData and recvData   *)
(* loops around send() and recv(), which may move any part of what is      *)
(* asked for, and the packing and parsing of a batch.  The wire carries    *)
(* cells: a packed byte of selection bits, an offset, a size field or a    *)
(* piece of a ciphertext.  A field is one cell whatever its width.         *)
(***************************************************************************)
EXTENDS Integers, Sequences

CONSTANTS
  ByteBits,     \* bits of a byte
  BatchChoices, \* the sequences of batches a run sends, with their PartNum
  MaxCells      \* bound: cells one call of send() or recv() moves

Byte  == [bits : [0 .. ByteBits - 1 -> {0, 1}]]
Field == [value : Nat]
Cell  == Byte \cup Field

(* What a query holds for partNum partitions; the sender has at least one  *)
(* batch to send.                                                          *)
QueryOf(partNum) ==
  [bvec : [0 .. partNum - 1 -> {0, 1}], Svec : [0 .. partNum - 1 -> Nat],
   ciphertext : Seq(Field)]
TransportConstants ==
  /\ ByteBits \in Nat /\ ByteBits > 0 /\ MaxCells \in Nat
  /\ \A c \in BatchChoices :
       /\ c.partNum \in Nat /\ Len(c.batches) > 0
       /\ c.batches \in Seq(Seq(QueryOf(c.partNum)))

VARIABLES
  PartNum,
  batches,          \* the batches to send, in order
  n,                \* number of batches sent completely
  sending,          \* sender: "size", "payload", "idle"
  totalSent,        \* sender: cells of the current sendData already sent
  wire,             \* cells in transit
  open,             \* the sender's end is open
  recving,          \* receiver: "size", "payload", "parse" or "failed"
  buf,              \* receiver: cells of the current recvData
  payloadSize, off, queries,   \* receiver: parsing state
  delivered,        \* batches handed to the caller
  totalBytesSent, totalBytesRecv

sender        == <<n, sending, totalSent, totalBytesSent>>
receiver      == <<recving, buf, payloadSize, off, queries, delivered, totalBytesRecv>>
transportVars == <<PartNum, batches, sender, wire, open, receiver>>

-----------------------------------------------------------------------------
(* Packing.  A query has partNum selection bits, as many offsets, and a    *)
(* ciphertext of some cells.  Bit k goes into bit k % 8 of byte k / 8; a   *)
(* byte is the function of its bits.                                       *)

ByteCount(partNum) == (partNum + ByteBits - 1) \div ByteBits

MutantPackByte(partNum, bvec, j) ==   \* the last bit of every byte is lost
  [bits |-> [i \in 0 .. ByteBits - 1 |->
     LET k == ByteBits * j + i IN IF k < partNum /\ i < ByteBits - 1 THEN bvec[k] ELSE 0]]
PackByte(partNum, bvec, j) ==
  [bits |-> [i \in 0 .. ByteBits - 1 |->
     LET k == ByteBits * j + i IN IF k < partNum THEN bvec[k] ELSE 0]]

PackField(x) == [value |-> x]

PackQuery(partNum, q) ==
  [j \in 1 .. ByteCount(partNum) |-> PackByte(partNum, q.bvec, j - 1)]
    \o [j \in 1 .. partNum |-> PackField(q.Svec[j - 1])]
    \o <<PackField(Len(q.ciphertext))>> \o q.ciphertext

(* The payload with the first m queries of the batch appended. *)
Packed(partNum, batch) ==
  LET packed[m \in 0 .. Len(batch)] ==
        IF m = 0 THEN <<PackField(Len(batch))>> ELSE packed[m - 1] \o PackQuery(partNum, batch[m])
  IN  packed
PackBatch(partNum, batch) == Packed(partNum, batch)[Len(batch)]

(* The inverse, at offset o of payload p. *)
UnpackBits(partNum, p, o) ==
  [k \in 0 .. partNum - 1 |-> p[o + (k \div ByteBits) + 1].bits[k % ByteBits]]
UnpackOffsets(partNum, p, o) ==
  [k \in 0 .. partNum - 1 |-> p[o + ByteCount(partNum) + k + 1].value]

-----------------------------------------------------------------------------

TransportInit ==
  /\ \E c \in BatchChoices : PartNum = c.partNum /\ batches = c.batches
  /\ n = 0 /\ sending = "size" /\ totalSent = 0
  /\ wire = << >> /\ open = TRUE
  /\ recving = "size" /\ buf = << >> /\ payloadSize = 0 /\ off = 0
  /\ queries = << >> /\ delivered = << >>
  /\ totalBytesSent = 0 /\ totalBytesRecv = 0

(* What the current sendData of sendBatchQueries sends: the size of the    *)
(* payload, then the payload.                                              *)
Data == IF sending = "size" THEN <<PackField(Len(PackBatch(PartNum, batches[n + 1])))>>
        ELSE PackBatch(PartNum, batches[n + 1])

(* send() takes k cells.  The statistics change when all are sent. *)
SendSome(k) ==
  /\ open /\ sending # "idle"
  /\ k <= Len(Data) - totalSent
  /\ wire' = wire \o SubSeq(Data, totalSent + 1, totalSent + k)
  /\ IF totalSent + k < Len(Data)
     THEN totalSent' = totalSent + k
          /\ UNCHANGED <<n, sending, totalBytesSent>>
     ELSE /\ totalSent' = 0
          /\ totalBytesSent' = totalBytesSent + Len(Data)
          /\ n' = IF sending = "size" THEN n ELSE n + 1
          /\ sending' = CASE sending = "size" -> "payload"
                          [] sending = "payload" /\ n + 1 < Len(batches) -> "size"
                          [] OTHER -> "idle"
  /\ UNCHANGED <<PartNum, batches, open, receiver>>

(* The sender goes away; the end of what it sent may be lost. *)
SenderStops ==
  /\ open /\ open' = FALSE
  /\ \E m \in 0 .. Len(wire) : wire' = SubSeq(wire, 1, m)
  /\ UNCHANGED <<PartNum, batches, sender, receiver>>

(* recv() gives k cells; the loop asks for the rest. *)
Wanted == IF recving = "size" THEN 1 ELSE payloadSize

RecvSome(k) ==
  /\ recving \in {"size", "payload"}
  /\ k <= Len(wire) /\ k <= Wanted - Len(buf)
  /\ wire' = SubSeq(wire, k + 1, Len(wire))
  /\ IF Len(buf) + k < Wanted
     THEN /\ buf' = buf \o SubSeq(wire, 1, k)
          /\ UNCHANGED <<recving, payloadSize, off, totalBytesRecv>>
     ELSE /\ totalBytesRecv' = totalBytesRecv + Wanted
          /\ IF recving = "size"
             THEN /\ payloadSize' = Head(wire).value /\ buf' = << >>
                  /\ recving' = "payload" /\ UNCHANGED off
             ELSE /\ buf' = buf \o SubSeq(wire, 1, k)
                  /\ off' = 1     \* the batch size is read
                  /\ recving' = "parse" /\ UNCHANGED payloadSize
  /\ UNCHANGED <<PartNum, batches, sender, open, queries, delivered>>

RecvFails ==
  /\ recving \in {"size", "payload"} /\ wire = << >> /\ ~ open
  /\ recving' = "failed"
  /\ UNCHANGED <<PartNum, batches, sender, wire, open, buf, payloadSize, off,
                 queries, delivered, totalBytesRecv>>

(* recvBatchQueries reads one query at off, or gives up when the payload   *)
(* ends too early.                                                         *)
FixedCells(partNum) == ByteCount(partNum) + partNum + 1

ParseQuery ==
  LET fixed == off + FixedCells(PartNum)
      ct    == IF fixed <= Len(buf) THEN buf[fixed].value ELSE 0
  IN  /\ recving = "parse" /\ Len(queries) < buf[1].value
      /\ IF fixed <= Len(buf) /\ fixed + ct <= Len(buf)
         THEN /\ queries' = Append(queries,
                   [bvec       |-> UnpackBits(PartNum, buf, off),
                    Svec       |-> UnpackOffsets(PartNum, buf, off),
                    ciphertext |-> SubSeq(buf, fixed + 1, fixed + ct)])
              /\ off' = fixed + ct
              /\ UNCHANGED recving
         ELSE recving' = "failed" /\ UNCHANGED <<queries, off>>
      /\ UNCHANGED <<PartNum, batches, sender, wire, open, buf, payloadSize,
                     delivered, totalBytesRecv>>

(* The batch is good when the queries use up the payload. *)
MutantParseDone ==   \* the off-by-one of a size that counts itself
  /\ recving = "parse" /\ Len(queries) = buf[1].value
  /\ IF off + 1 = Len(buf)
     THEN delivered' = Append(delivered, queries) /\ recving' = "size"
     ELSE recving' = "failed" /\ UNCHANGED delivered
  /\ buf' = << >> /\ off' = 0 /\ queries' = << >>
  /\ UNCHANGED <<PartNum, batches, sender, wire, open, payloadSize,
                 totalBytesRecv>>

ParseDone ==
  /\ recving = "parse" /\ Len(queries) = buf[1].value
  /\ IF off = Len(buf)
     THEN delivered' = Append(delivered, queries) /\ recving' = "size"
     ELSE recving' = "failed" /\ UNCHANGED delivered
  /\ buf' = << >> /\ off' = 0 /\ queries' = << >>
  /\ UNCHANGED <<PartNum, batches, sender, wire, open, payloadSize,
                 totalBytesRecv>>

TransportFinished ==
  /\ recving = "failed" /\ ~ open
  /\ UNCHANGED transportVars

Send == \E k \in 1 .. MaxCells : SendSome(k)
Receive ==
  \/ \E k \in 1 .. MaxCells : RecvSome(k)
  \/ RecvFails \/ ParseQuery \/ ParseDone

TransportNext == Send \/ Receive \/ SenderStops \/ TransportFinished

(* Either side runs on while it is not blocked. *)
TransportSpec == TransportInit /\ [][TransportNext]_transportVars /\ WF_transportVars(Send) /\ WF_transportVars(Receive)

-----------------------------------------------------------------------------

(* However the stream is cut up, the receiver hands over the batches as    *)
(* they were sent, in order, and gives up only when the sender is gone: a  *)
(* short read never shifts the frame, and both sides count the same bytes. *)
BatchesIntact ==
  /\ Len(delivered) <= Len(batches)
  /\ delivered = SubSeq(batches, 1, Len(delivered))
  /\ recving = "failed" => ~ open
  /\ sending = "idle" /\ Len(delivered) = Len(batches) => totalBytesRecv = totalBytesSent

(* Unless the sender goes away, every batch arrives.                       *)
Settled   == ~ open \/ delivered = batches
AllArrive == <>Settled

=============================================================================

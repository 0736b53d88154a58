----------------------------- MODULE AnswerArith -----------------------------
(***************************************************************************)
(* The numbers behind one query, which module OneSVClient abstracts to     *)
(* formal sums: the mask modulo q the client adds to the ciphertext, the   *)
(* group sum modulo p the server scales to q and subtracts, the noise it   *)
(* adds, and the client's unmasking and rounding back to p.                *)
(*                                                                         *)
(* A ciphertext is modelled by its phase c0 + c1*s at coefficient          *)
(* PartSize - 1, a number modulo q: encryption gives the plaintext scaled  *)
(* to q and an error, an addition to c0 shifts the phase.                  *)
(***************************************************************************)
EXTENDS ModArith

CONSTANTS
  P, Q,        \* plaintext and ciphertext modulus
  GroupLen,    \* entries in the client's group, the queried one excluded
  EncErr,      \* bound: error of a hint's ciphertext, rounding included
  FloatErr,    \* bound: error of the double-precision scaling
  NoiseBound,  \* bound: magnitude of the answer noise
  Masks        \* the masks a run tries, all below Q

(* Room for the errors and for the two roundings of the scaling: half a    *)
(* step of the plaintext grid.  With p of 20 and q of 54 bits it is 2^33,  *)
(* the noise has standard deviation 2^22.                                  *)
BudgetAssumption ==
  /\ P \in Nat /\ P > 1 /\ Q \in Nat /\ Q > P /\ Q < 2 ^ W
  /\ GroupLen \in Nat /\ EncErr \in Nat /\ FloatErr \in Nat /\ NoiseBound \in Nat
  /\ Masks \subseteq 0 .. Q - 1
  /\ P * (2 * (EncErr + FloatErr + NoiseBound) + 3) <= Q

VARIABLES
  entry,    \* the queried database entry
  group,    \* the other entries of the hint, as the server will read them
  rando,    \* the client's mask
  phase,    \* phase of the ciphertext, masked once the query is built
  summed, sum,   \* the server's loop over the partitions of the group
  answer,   \* what the oblivious transfer hands to the client
  decoded,  \* the client's result
  stage

vars == <<entry, group, rando, phase, summed, sum, answer, decoded, stage>>

(* multiply_translate_plain scales the plaintext m to the ciphertext       *)
(* modulus; RoundScale is rns_tool().decrypt_scale_and_round.              *)
Scale(m)      == (2 * Q * m + P) \div (2 * P)
RoundScale(x) == ((2 * P * x + Q) \div (2 * Q)) % P

(* s[n] is the sum of the first n entries of the group, modulo p.          *)
AddsUp(s) ==
  /\ s[0] = 0
  /\ \A n \in 1 .. GroupLen : s[n] = (s[n - 1] + group[n]) % P
Sums == [0 .. GroupLen -> 0 .. P - 1]

Init ==
  /\ entry \in 0 .. P - 1
  /\ group \in [1 .. GroupLen -> 0 .. P - 1]
  /\ \E s \in Sums, e \in - EncErr .. EncErr :
       AddsUp(s) /\ phase = (Scale((entry + s[GroupLen]) % P) + e) % Q
  /\ rando = 0 /\ summed = 0 /\ sum = 0 /\ answer = 0 /\ decoded = 0
  /\ stage = "hint"

(* The client masks coefficient PartSize - 1 of c0 modulo q. *)
MaskQuery(m) ==
  /\ stage = "hint" /\ stage' = "query"
  /\ rando' = m
  /\ phase' = (phase + m) % Q
  /\ UNCHANGED <<entry, group, summed, sum, answer, decoded>>

(* onlineQuery: the group's sum modulo p, one partition at a time. *)
SumEntry ==
  /\ stage = "query" /\ summed < GroupLen
  /\ summed' = summed + 1
  /\ sum' = (sum + group[summed + 1]) % P
  /\ UNCHANGED <<entry, group, rando, phase, answer, decoded, stage>>

(* The sum scaled to q in doubles (exact for 0), subtracted, and noise.    *)
Scaled(b, d) == ((b * Q) \div P + (IF b = 0 THEN 0 ELSE d)) % Q

AnswerQuery(d, noise) ==
  /\ stage = "query" /\ summed = GroupLen /\ stage' = "answer"
  /\ answer' = AddSignedMod((phase + Q - Scaled(sum, d)) % Q, noise, Q)
  /\ UNCHANGED <<entry, group, rando, phase, summed, sum, decoded>>

MutantDecode ==   \* the difference wraps at the word, not at q
  /\ stage = "answer" /\ stage' = "result"
  /\ decoded' = RoundScale(U(answer - rando) % Q)
  /\ UNCHANGED <<entry, group, rando, phase, summed, sum, answer>>

(* The client takes the mask away and rounds back to the plaintext. *)
Decode ==
  /\ stage = "answer" /\ stage' = "result"
  /\ decoded' = RoundScale((answer + Q - (rando % Q)) % Q)
  /\ UNCHANGED <<entry, group, rando, phase, summed, sum, answer>>

Finished == stage = "result" /\ UNCHANGED vars

Next ==
  \/ \E m \in Masks : MaskQuery(m)
  \/ SumEntry
  \/ \E d \in - FloatErr .. FloatErr, noise \in - NoiseBound .. NoiseBound :
       AnswerQuery(d, noise)
  \/ Decode
  \/ Finished

Spec == Init /\ [][Next]_vars

-----------------------------------------------------------------------------

(* The client decodes the queried entry: the mask cancels modulo q, and    *)
(* the encryption error, the truncated scaling, the reduction of the sum   *)
(* modulo p and the noise stay below half a step of the plaintext grid.    *)
DecodesEntry == stage = "result" => decoded = entry

-----------------------------------------------------------------------------
(* OneSVClient::Online, the query of the single-process driver main.cpp.   *)
(* It talks to the same onlineQuery as client_main.cpp, but masks with a   *)
(* plaintext modulo p and takes the answer as a number modulo p.           *)

(* add_plain_inplace scales the mask like any other plaintext. *)
OnlineMask(m) ==
  /\ stage = "hint" /\ stage' = "query"
  /\ rando' = m
  /\ phase' = (phase + Scale(m)) % Q
  /\ UNCHANGED <<entry, group, summed, sum, answer, decoded>>

OnlineResult ==
  /\ stage = "answer" /\ stage' = "result"
  /\ decoded' = IF answer >= rando THEN answer - rando ELSE P + answer - rando
  /\ UNCHANGED <<entry, group, rando, phase, summed, sum, answer>>

OnlineNext ==
  \/ \E m \in 0 .. P - 1 : OnlineMask(m)
  \/ SumEntry
  \/ \E d \in - FloatErr .. FloatErr, noise \in - NoiseBound .. NoiseBound :
       AnswerQuery(d, noise)
  \/ OnlineResult
  \/ Finished

OnlineSpec == Init /\ [][OnlineNext]_vars

(* "Set the query result to the correct response" (client.cpp): the result *)
(* of Online is the queried entry, as main.cpp checks with                 *)
(* DB[query] != result[0].                                                 *)
OnlineResultIsEntry == stage = "result" => decoded = entry

=============================================================================

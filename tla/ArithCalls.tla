----------------------------- MODULE ArithCalls -----------------------------
(***************************************************************************)
(* Calls of AddSignedMod and SecureRandomUint64Below, with every argument  *)
(* of W bits.                                                              *)
(***************************************************************************)
EXTENDS ModArith

VARIABLES call,    \* the call in progress: its name and its arguments
          result   \* its result, or -1

vars == <<call, result>>

AddCalls   == [op : {"add"}, value : Word, delta : Signed, modulus : Word \ {0}]
BelowCalls == [op : {"below"}, upper_bound : Word \ {0}]

Init ==
  /\ call \in AddCalls \cup BelowCalls
  /\ result = -1

Add ==
  /\ call.op = "add" /\ result = -1
  /\ result' = AddSignedMod(call.value, call.delta, call.modulus)
  /\ UNCHANGED call

(* One draw of SecureRandomUint64: accepted, or rejected and drawn again.  *)
Draw(value) ==
  /\ call.op = "below" /\ result = -1
  /\ value >= RejectionThreshold(call.upper_bound)
  /\ result' = value % call.upper_bound
  /\ UNCHANGED call

Reject(value) ==
  /\ call.op = "below" /\ result = -1
  /\ value < RejectionThreshold(call.upper_bound)
  /\ UNCHANGED vars

Returned == result # -1 /\ UNCHANGED vars

Next ==
  \/ Add
  \/ \E value \in Word : Draw(value) \/ Reject(value)
  \/ Returned

-----------------------------------------------------------------------------

(* Adding a signed number wraps around the modulus and nowhere else: no    *)
(* intermediate value overflows, for the most negative number too.         *)
SignedAddExact ==
  call.op = "add" /\ result # -1 =>
    result = (call.value + call.delta) % call.modulus

(* Every value below the bound has the same number of draws that give it,  *)
(* and more than half of all draws are accepted.                           *)
DrawIsUniform ==
  call.op = "below" =>
    LET accepted == {x \in Word : x >= RejectionThreshold(call.upper_bound)}
        giving(r) == {x \in accepted : x % call.upper_bound = r}
    IN  /\ \A r \in 0 .. call.upper_bound - 1 :
             Cardinality(giving(r)) = Cardinality(giving(0))
        /\ 2 * Cardinality(accepted) > 2 ^ W

=============================================================================

------------------------------- MODULE MCMoves --------------------------------
(***************************************************************************)
(* What moves words, one part per behaviour: the maps of the ring, with    *)
(* rotations put together from the keys there are, in a ring of degree     *)
(* thirty-two; and the arrays of two threads, which move between host, device *)
(* and pools, on a device with room for seven words.                       *)
(***************************************************************************)
EXTENDS Rotations, Memory

VARIABLE part
allVars == <<part, vars, memoryVars>>

ASSUME WordAssumption

MCPrimes == <<193, 257>>
MCStepLists == {{1, -2}, {-1, 4}, {3}}
Call(name, steps, element, scheme, batching, ntt, device, batch, inplace) ==
  [op |-> name, steps |-> steps, element |-> element, scheme |-> scheme, batching |-> batching,
   ntt |-> ntt, device |-> device, batch |-> batch, inplace |-> inplace]
SchemeOf(name) == IF name \in {"rotate_rows", "rotate_columns"} THEN "BFV" ELSE "CKKS"
(* Every step, none and one beyond the limit included; odd elements and    *)
(* two that are refused; contexts of the wrong scheme and without batching.*)
MCCalls ==
  {Call(o, s, 1, SchemeOf(o), TRUE, f, d, 2 - (s % 2), i) :
     o \in Rotating, s \in -16 .. 16, f \in BOOLEAN, d \in BOOLEAN, i \in BOOLEAN}
  \cup {Call(o, 1, 1, SchemeOf(o), TRUE, f, FALSE, n, TRUE) :
          o \in Conjugating, f \in BOOLEAN, n \in 1 .. 2}
  \cup {Call(o, 1, e, "BFV", TRUE, f, TRUE, 1, FALSE) :
          o \in {"apply_galois", "apply_galois_plain"}, e \in {2, 3, 5, 9, 17, 33, 63, 65}, f \in BOOLEAN}
  \cup {Call(o, 1, 1, sc, n, TRUE, TRUE, 1, TRUE) :
          o \in Rotating \cup Conjugating, sc \in {"BFV", "BGV", "CKKS"}, n \in BOOLEAN}

Unused == << >>
NoRotation == /\ keys = Unused /\ call = Unused /\ encrypted = Unused
              /\ destination = Unused /\ todo = Unused /\ phase = Unused

(* Two threads share the global pool, the first has one of its own; three  *)
(* calls.  Four take a block through both threads and back: with the       *)
(* global pool alone, and arrays of one length.                            *)
Passing == /\ pools'["own"] = pools["own"]
           /\ \A s \in Slots : arrays'[s].pool # "own" /\ arrays'[s].len \in {0, 2}
           /\ \A t \in Threads : running'[t].plan.pool # "own" /\ running'[t].plan.len \in {0, 2}
Start == \/ part = "rotation" /\ Init /\ MemoryInit
         \/ part \in {"memory", "passing"} /\ MemoryInit /\ NoRotation
Run   == \/ part = "rotation" /\ Next /\ UNCHANGED <<part, memoryVars>>
         \/ part = "memory" /\ MemoryNext /\ calls' < MaxCalls /\ UNCHANGED <<part, vars>>
         \/ part = "passing" /\ MemoryNext /\ Passing /\ UNCHANGED <<part, vars>>
MCSpec == Start /\ [][Run]_allVars

-----------------------------------------------------------------------------
(* evaluator_keyswitching.cu, galois.cu: a call applies the automorphism   *)
(* it was asked for, or none if that is by no steps; an exception keeps    *)
(* the operand of a call in place; and the default keys rotate by all but  *)
(* the steps whose non-adjacent form needs half of the slots.              *)
Rotates == part = "rotation" => TypeOK /\ RotatesAsAsked /\ ThrowKeepsOperand /\ DefaultKeysReach
=============================================================================

---------------------------- MODULE LookupService ----------------------------
(***************************************************************************)
(* What PPFE promises its user: after a setup phase, questions are asked   *)
(* one at a time and answered in order.  The answer to a covered key is    *)
(* the right one; a key no hint covers may get any answer, and may degrade *)
(* the service for good.  The service may stop between or during questions.*)
(***************************************************************************)
EXTENDS Sequences

CONSTANTS Key, Value,
          Right      \* the function from Key to Value the service looks up

VARIABLES phase,     \* "setup", "idle", "busy" or "stopped"
          pending,   \* the question in progress: at most one
          results,   \* questions and answers, in order
          degraded   \* answers are no longer reliable

vars == <<phase, pending, results, degraded>>

Init ==
  /\ phase = "setup" /\ pending = {} /\ results = << >> /\ degraded = FALSE

Open ==
  /\ phase = "setup" /\ phase' = "idle"
  /\ UNCHANGED <<pending, results, degraded>>

Ask(k, covered) ==
  /\ phase = "idle" /\ phase' = "busy"
  /\ pending' = {[key |-> k, covered |-> covered]}
  /\ UNCHANGED <<results, degraded>>

(* Only a question that is not covered may degrade the service. *)
MayDegrade(p) == p.covered => degraded' = degraded

(* The record the answer v to question p leaves. *)
Record(p, v) == [query |-> p.key, result |-> v, hit |-> p.covered]

Reply(p) ==
  LET v == results'[Len(results')].result
  IN  /\ phase = "busy" /\ phase' = "idle"
      /\ results' # << >> /\ v \in Value
      /\ results' = Append(results, Record(p, v))
      /\ ~ degraded /\ p.covered => v = Right[p.key]
      /\ pending' = {}
      /\ MayDegrade(p)

Fail(p) ==
  /\ phase = "busy" /\ phase' = "stopped"
  /\ pending' = {}
  /\ MayDegrade(p)
  /\ UNCHANGED results

Stop ==
  /\ phase = "idle" /\ phase' = "stopped"
  /\ UNCHANGED <<pending, results, degraded>>

Next ==
  \/ Open
  \/ \E k \in Key, covered \in BOOLEAN : Ask(k, covered)
  \/ \E p \in pending : Reply(p)
  \/ \E p \in pending : Fail(p)
  \/ Stop

Spec == Init /\ [][Next]_vars
=============================================================================

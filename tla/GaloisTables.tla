----------------------------- MODULE GaloisTables -----------------------------
(***************************************************************************)
(* The permutation tables of a GaloisTool, made on first use by whichever  *)
(* thread needs one: a check under the shared lock, the lock let go, a     *)
(* second check under the unique lock before the table is made, and the    *)
(* shared lock again while a polynomial is permuted through the table.     *)
(***************************************************************************)
EXTENDS Integers, FiniteSets, TLAPS

CONSTANTS
  Threads,    \* threads that rotate ciphertexts of one context
  Elements,   \* the Galois elements they use
  Calls,      \* apply_ntt_ps calls per thread, a bound
  OnDevice    \* the tool was moved to the device before

GaloisTablesConstants == Calls \in Nat \ {0} /\ OnDevice \in BOOLEAN

VARIABLES readers, writer,   \* permutation_tables_rwlock
          initialized,       \* initialized[index]
          table,             \* permutation_tables[index]: where a complete table lies
          pc, elt, left
vars == <<readers, writer, initialized, table, pc, elt, left>>

Empty == "empty"
Place == IF OnDevice THEN "device" ELSE "host"
PCs == {"idle", "read", "check", "unique", "recheck", "generate", "move", "mark", "use", "apply", "thrown"}

Init ==
  /\ readers = {} /\ writer = {}
  /\ initialized = [g \in Elements |-> FALSE] /\ table = [g \in Elements |-> Empty]
  /\ pc = [t \in Threads |-> "idle"] /\ elt \in [Threads -> Elements]
  /\ left = [t \in Threads |-> Calls]

Goto(t, l) == pc' = [pc EXCEPT ![t] = l]
SharedLock(t) == writer = {} /\ readers' = readers \cup {t} /\ UNCHANGED writer
SharedUnlock(t) == readers' = readers \ {t} /\ UNCHANGED writer
UniqueLock(t) == writer = {} /\ readers = {} /\ writer' = {t} /\ UNCHANGED readers
UniqueUnlock(t) == writer' = {} /\ UNCHANGED readers
Tables == <<initialized, table>>

(* apply_ntt_ps, apply_ntt_bps: make sure of the table, then use it.       *)
Call(t) ==
  /\ pc[t] = "idle" /\ left[t] > 0
  /\ left' = [left EXCEPT ![t] = @ - 1]
  /\ \E g \in Elements : elt' = [elt EXCEPT ![t] = g]
  /\ Goto(t, "read") /\ UNCHANGED <<readers, writer, Tables>>

(* ensure_permutation_table *)
EnsureRead(t) ==
  /\ pc[t] = "read" /\ SharedLock(t) /\ Goto(t, "check") /\ UNCHANGED <<Tables, elt, left>>
MutantEnsureCheck(t) ==   \* the shared lock is kept while the unique one is asked for
  /\ pc[t] = "check"
  /\ IF initialized[elt[t]] THEN SharedUnlock(t) /\ Goto(t, "use")
     ELSE Goto(t, "unique") /\ UNCHANGED <<readers, writer>>
  /\ UNCHANGED <<Tables, elt, left>>
EnsureCheck(t) ==
  /\ pc[t] = "check" /\ SharedUnlock(t)
  /\ Goto(t, IF initialized[elt[t]] THEN "use" ELSE "unique") /\ UNCHANGED <<Tables, elt, left>>
EnsureUnique(t) ==
  /\ pc[t] = "unique" /\ UniqueLock(t) /\ Goto(t, "recheck") /\ UNCHANGED <<Tables, elt, left>>
MutantEnsureRecheck(t) ==   \* the second check is left out
  /\ pc[t] = "recheck" /\ Goto(t, "generate") /\ UNCHANGED <<readers, writer, Tables, elt, left>>
EnsureRecheck(t) ==
  /\ pc[t] = "recheck"
  /\ IF initialized[elt[t]] THEN UniqueUnlock(t) /\ Goto(t, "use")
     ELSE Goto(t, "generate") /\ UNCHANGED <<readers, writer>>
  /\ UNCHANGED <<Tables, elt, left>>
EnsureGenerate(t) ==
  /\ pc[t] = "generate"
  /\ table' = [table EXCEPT ![elt[t]] = "host"]
  /\ Goto(t, IF OnDevice THEN "move" ELSE "mark") /\ UNCHANGED <<readers, writer, initialized, elt, left>>
EnsureMove(t) ==
  /\ pc[t] = "move"
  /\ table' = [table EXCEPT ![elt[t]] = "device"]
  /\ Goto(t, "mark") /\ UNCHANGED <<readers, writer, initialized, elt, left>>
EnsureMark(t) ==
  /\ pc[t] = "mark" /\ UniqueUnlock(t)
  /\ initialized' = [initialized EXCEPT ![elt[t]] = TRUE]
  /\ Goto(t, "use") /\ UNCHANGED <<table, elt, left>>

(* The permutation, under the shared lock, which a throw lets go too.      *)
Use(t) ==
  /\ pc[t] = "use" /\ writer = {}
  /\ IF initialized[elt[t]] THEN SharedLock(t) /\ Goto(t, "apply")
     ELSE Goto(t, "thrown") /\ UNCHANGED <<readers, writer>>
  /\ UNCHANGED <<Tables, elt, left>>
Apply(t) ==
  /\ pc[t] = "apply" /\ SharedUnlock(t) /\ Goto(t, "idle") /\ UNCHANGED <<Tables, elt, left>>

Step(t) == \/ EnsureRead(t) \/ EnsureCheck(t) \/ EnsureUnique(t) \/ EnsureRecheck(t)
           \/ EnsureGenerate(t) \/ EnsureMove(t) \/ EnsureMark(t) \/ Use(t) \/ Apply(t)
Next == \E t \in Threads : Call(t) \/ Step(t)
Spec == Init /\ [][Next]_vars

---------------------------------------------------------------------------
(* Readers and a writer never hold the lock together. *)
TypeOK ==
  /\ writer = {} \/ readers = {}
  /\ readers \subseteq Threads /\ writer \subseteq Threads
  /\ initialized \in [Elements -> BOOLEAN] /\ table \in [Elements -> {Empty, "host", "device"}]
  /\ pc \in [Threads -> PCs] /\ elt \in [Threads -> Elements] /\ left \in [Threads -> 0 .. Calls]

(* While a thread permutes, its table is complete and where the data is,   *)
(* and no call of apply_ntt_ps throws "Permutation table not initialized". *)
AppliesWholeTable ==
  \A t \in Threads : /\ pc[t] # "thrown"
                     /\ pc[t] = "apply" => initialized[elt[t]] /\ table[elt[t]] = Place

(* A table in use, or marked for use, is not made again: the slices other  *)
(* threads hold stay valid.                                                *)
TableKept == \A g \in Elements : initialized[g] => initialized'[g] /\ table'[g] = table[g]

(* Who holds the lock, read off where the threads are, and what the writer *)
(* has done so far: a table is marked only when it lies where it is used,  *)
(* and a thread goes on to use it only when it is marked.                  *)
LockSound ==
  /\ TypeOK
  /\ \A t \in Threads : t \in readers <=> pc[t] \in {"check", "apply"}
  /\ \A t \in Threads : t \in writer <=> pc[t] \in {"recheck", "generate", "move", "mark"}
  /\ \A t, u \in writer : t = u
  /\ \A g \in Elements : initialized[g] => table[g] = Place
  /\ \A t \in Threads :
       /\ pc[t] \in {"generate", "move", "mark"} => ~ initialized[elt[t]]
       /\ pc[t] = "move" => OnDevice
       /\ pc[t] = "mark" => table[elt[t]] = Place
       /\ pc[t] \in {"use", "apply"} => initialized[elt[t]]
       /\ pc[t] # "thrown"
---------------------------------------------------------------------------
(* Any number of threads may rotate with any Galois elements: no thread    *)
(* permutes through a table that is not complete, and no table is made     *)
(* twice.                                                                  *)

(* The invariant holds before the first call. *)
LEMMA LockInit ==
  ASSUME GaloisTablesConstants, Init
  PROVE  LockSound
BY DEF Init, LockSound, TypeOK, GaloisTablesConstants, Empty, PCs

(* A step of one thread keeps the types. *)
LEMMA TypeStep ==
  ASSUME GaloisTablesConstants, LockSound, NEW t \in Threads, Call(t) \/ Step(t)
  PROVE  TypeOK'
<1> USE DEF LockSound, TypeOK, GaloisTablesConstants, Goto, Tables, PCs,
            SharedLock, SharedUnlock, UniqueLock, UniqueUnlock
<1>1. CASE Call(t)
  BY <1>1 DEF Call
<1>2. CASE EnsureRead(t)
  BY <1>2 DEF EnsureRead
<1>3. CASE EnsureCheck(t)
  BY <1>3 DEF EnsureCheck
<1>4. CASE EnsureUnique(t)
  BY <1>4 DEF EnsureUnique
<1>5. CASE EnsureRecheck(t)
  BY <1>5 DEF EnsureRecheck
<1>6. CASE EnsureGenerate(t)
  BY <1>6 DEF EnsureGenerate
<1>7. CASE EnsureMove(t)
  BY <1>7 DEF EnsureMove
<1>8. CASE EnsureMark(t)
  BY <1>8 DEF EnsureMark
<1>9. CASE Use(t)
  BY <1>9 DEF Use
<1>10. CASE Apply(t)
  BY <1>10 DEF Apply
<1> QED
  BY <1>1, <1>2, <1>3, <1>4, <1>5, <1>6, <1>7, <1>8, <1>9, <1>10 DEF Step

(* A step of one thread keeps the invariant. *)
LEMMA LockStep ==
  ASSUME GaloisTablesConstants, LockSound, NEW t \in Threads, Call(t) \/ Step(t)
  PROVE  LockSound'
<1>0. TypeOK'
  BY TypeStep
<1> USE DEF Goto, Tables, SharedLock, SharedUnlock, UniqueLock, UniqueUnlock
<1>1. CASE Call(t)
  BY <1>0, <1>1 DEF Call, LockSound, TypeOK, Place
<1>2. CASE EnsureRead(t)
  BY <1>0, <1>2 DEF EnsureRead, LockSound, TypeOK, Place
<1>3. CASE EnsureCheck(t)
  BY <1>0, <1>3 DEF EnsureCheck, LockSound, TypeOK, Place
<1>4. CASE EnsureUnique(t)
  BY <1>0, <1>4 DEF EnsureUnique, LockSound, TypeOK, Place
<1>5. CASE EnsureRecheck(t)
  BY <1>0, <1>5 DEF EnsureRecheck, LockSound, TypeOK, Place
<1>6. CASE EnsureGenerate(t)
  BY <1>0, <1>6 DEF EnsureGenerate, LockSound, TypeOK, Place
<1>7. CASE EnsureMove(t)
  BY <1>0, <1>7 DEF EnsureMove, LockSound, TypeOK, Place
<1>8. CASE EnsureMark(t)
  BY <1>0, <1>8 DEF EnsureMark, LockSound, TypeOK, Place
<1>9. CASE Use(t)
  BY <1>0, <1>9 DEF Use, LockSound, TypeOK, Place
<1>10. CASE Apply(t)
  BY <1>0, <1>10 DEF Apply, LockSound, TypeOK, Place
<1> QED
  BY <1>1, <1>2, <1>3, <1>4, <1>5, <1>6, <1>7, <1>8, <1>9, <1>10 DEF Step

(* A table that is marked stays as it is. *)
LEMMA KeptStep ==
  ASSUME LockSound, NEW t \in Threads, Call(t) \/ Step(t)
  PROVE  TableKept
BY DEF Call, Step, EnsureRead, EnsureCheck, EnsureUnique, EnsureRecheck,
   EnsureGenerate, EnsureMove, EnsureMark, Use, Apply, Tables, LockSound,
   TypeOK, TableKept

(* The lock is held as the code means it to be, at every moment. *)
THEOREM LockAlwaysSound ==
  ASSUME GaloisTablesConstants PROVE Spec => []LockSound
<1>1. Init => LockSound
  BY LockInit
<1>2. LockSound /\ [Next]_vars => LockSound'
  <2> SUFFICES ASSUME LockSound, [Next]_vars PROVE LockSound'
    OBVIOUS
  <2>1. CASE Next
    BY <2>1, LockStep DEF Next
  <2>2. CASE UNCHANGED vars
    BY <2>2 DEF vars, LockSound, TypeOK
  <2> QED BY <2>1, <2>2
<1> QED BY <1>1, <1>2, PTL DEF Spec

(* Whatever the threads and the elements, a thread permutes through a      *)
(* complete table where the data is, and no call throws for want of one.   *)
THEOREM TablesAlwaysWhole ==
  ASSUME GaloisTablesConstants PROVE Spec => []AppliesWholeTable
<1>1. LockSound => AppliesWholeTable
  BY DEF LockSound, TypeOK, AppliesWholeTable
<1> QED BY <1>1, LockAlwaysSound, PTL

(* No table another thread may be reading is made again. *)
THEOREM TablesAlwaysKept ==
  ASSUME GaloisTablesConstants PROVE Spec => [][TableKept]_vars
<1>1. LockSound /\ [Next]_vars => [TableKept]_vars
  BY KeptStep DEF Next
<1> QED BY <1>1, LockAlwaysSound, PTL DEF Spec

=============================================================================

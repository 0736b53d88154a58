----------------------------- MODULE CutoffLoop -----------------------------
(***************************************************************************)
(* FindCutoff as utils.cpp runs it: the values the filters keep are moved  *)
(* to the front of the caller's array while it is still being read, the    *)
(* median is selected there with nth_element and its slot is cleared to    *)
(* look for a second occurrence.  Operator FindCutoff of module PirBase is *)
(* the value it must return.                                               *)
(***************************************************************************)
EXTENDS PirBase

CONSTANT PrfVals  \* the values a row may hold

VARIABLES row,        \* the row as passed in (history)
          prfVals,    \* the array
          k, LowerCnt, UpperCnt, MiddleCnt,
          pc, result

cutoffVars == <<row, prfVals, k, LowerCnt, UpperCnt, MiddleCnt, pc, result>>

(* Select values are unsigned words. *)
CutoffConstants == PrfVals \subseteq Nat

CutoffInit ==
  /\ row \in [Parts -> PrfVals]
  /\ prfVals = row
  /\ k = 0 /\ LowerCnt = 0 /\ UpperCnt = 0 /\ MiddleCnt = 0
  /\ pc = "filter" /\ result = 0


(* One value of the array: counted, or moved to the front. *)
Filter ==
  /\ pc = "filter" /\ k < PartNum
  /\ LET x == prfVals[k] IN
       \/ /\ x < LowerFilter
          /\ LowerCnt' = LowerCnt + 1
          /\ UNCHANGED <<UpperCnt, MiddleCnt, prfVals>>
       \/ /\ x >= LowerFilter /\ x > UpperFilter
          /\ UpperCnt' = UpperCnt + 1
          /\ UNCHANGED <<LowerCnt, MiddleCnt, prfVals>>
       \/ /\ x >= LowerFilter /\ x <= UpperFilter
          /\ prfVals' = [prfVals EXCEPT ![MiddleCnt] = x]
          /\ MiddleCnt' = MiddleCnt + 1
          /\ UNCHANGED <<LowerCnt, UpperCnt>>
  /\ k' = k + 1
  /\ UNCHANGED <<row, pc, result>>

FilteredTooMuch ==
  LowerCnt >= PartNum \div 2 \/ UpperCnt >= PartNum \div 2

GiveUp ==
  /\ pc = "filter" /\ k = PartNum /\ FilteredTooMuch
  /\ result' = 0 /\ pc' = "done"
  /\ UNCHANGED <<row, prfVals, k, LowerCnt, UpperCnt, MiddleCnt>>

Median == PartNum \div 2 - LowerCnt
Kept   == 0 .. MiddleCnt - 1

(* std::nth_element: the kept values in some order with the median in its  *)
(* place, nothing greater before it and nothing smaller after it.          *)
NthElement ==
  /\ pc = "filter" /\ k = PartNum /\ ~ FilteredTooMuch
  /\ \E f \in [Kept -> Kept] :
       LET a == [j \in Kept |-> prfVals[f[j]]] IN
         /\ \A j, l \in Kept : f[j] = f[l] => j = l
         /\ \A j \in Kept : /\ j < Median => a[j] <= a[Median]
                            /\ j > Median => a[j] >= a[Median]
         /\ prfVals' = [j \in Parts |-> IF j \in Kept THEN a[j] ELSE prfVals[j]]
  /\ pc' = "scan"
  /\ UNCHANGED <<row, k, LowerCnt, UpperCnt, MiddleCnt, result>>


(* cutoff = *median, *median = 0, and a search for a second occurrence. *)
Scan ==
  /\ pc = "scan"
  /\ LET cutoff  == prfVals[Median]
         cleared == [prfVals EXCEPT ![Median] = 0] IN
       /\ prfVals' = cleared
       /\ result' = IF \E j \in Kept : cleared[j] = cutoff THEN 0 ELSE cutoff
  /\ pc' = "done"
  /\ UNCHANGED <<row, k, LowerCnt, UpperCnt, MiddleCnt>>

Returned == pc = "done" /\ UNCHANGED cutoffVars

CutoffNext == Filter \/ GiveUp \/ NthElement \/ Scan \/ Returned
CutoffSpec == CutoffInit /\ [][CutoffNext]_cutoffVars

-----------------------------------------------------------------------------

(* The in-place loop returns the median of the row it was given, or 0      *)
(* exactly when the filters or a repeated median forbid one.               *)
ReturnsMedian == pc = "done" => result = FindCutoff(row)

(* The median pointer lies inside the kept prefix, and overwriting the     *)
(* front of the array never destroys a value still to be read.             *)
MedianInPrefix ==
  /\ pc = "filter" => \A j \in Parts : j >= k => prfVals[j] = row[j]
  /\ pc = "scan" => Median \in Kept

=============================================================================

------------------------------ MODULE SecretPowers ------------------------------
(***************************************************************************)
(* The powers of the secret key a KeyGenerator and a Decryptor keep and    *)
(* extend on demand while other threads read them.  The key generator asks *)
(* for the size under the shared lock, the decryptor without any lock;     *)
(* both extend the array under the unique lock, where the size is looked   *)
(* at again, and read it under the shared lock.  A power is its exponent;  *)
(* Zero is what a resized array is filled with.                            *)
(***************************************************************************)
EXTENDS Integers, Sequences, FiniteSets

CONSTANTS
  Threads,
  MaxPower,    \* the highest power a call needs, a bound
  Calls        \* calls per thread, a bound

SecretPowersConstants == MaxPower \in Nat \ {0} /\ Calls \in Nat \ {0}

Owners == {"KeyGenerator", "Decryptor"}   \* each with an array and a lock of its own
Zero == 0

VARIABLES array,             \* secret_key_array_ of each owner
          fresh,             \* the new storage a resize is about to move in
          readers, writer,   \* secret_key_array_mutex of each owner
          pc, job,           \* where a thread is; the owner and the power it needs
          seen, got, left
vars == <<array, fresh, readers, writer, pc, job, seen, got, left>>

PCs == {"idle", "size", "peek", "unique", "extend", "move", "fill", "shared", "read"}

Init ==
  /\ array = [o \in Owners |-> <<1>>] /\ fresh = [o \in Owners |-> << >>]
  /\ readers = [o \in Owners |-> {}] /\ writer = [o \in Owners |-> {}]
  /\ pc = [t \in Threads |-> "idle"] /\ job = [t \in Threads |-> [owner |-> "KeyGenerator", power |-> 1]]
  /\ seen = [t \in Threads |-> 0] /\ got = [t \in Threads |-> << >>]
  /\ left = [t \in Threads |-> Calls]

Owner(t) == job[t].owner
Power(t) == job[t].power
Goto(t, l) == pc' = [pc EXCEPT ![t] = l]
Locks == <<readers, writer>>
SharedLock(t) == /\ writer[Owner(t)] = {} /\ readers' = [readers EXCEPT ![Owner(t)] = @ \cup {t}]
                 /\ UNCHANGED writer
SharedUnlock(t) == readers' = [readers EXCEPT ![Owner(t)] = @ \ {t}] /\ UNCHANGED writer
UniqueLock(t) == /\ writer[Owner(t)] = {} /\ readers[Owner(t)] = {}
                 /\ writer' = [writer EXCEPT ![Owner(t)] = {t}] /\ UNCHANGED readers
UniqueUnlock(t) == writer' = [writer EXCEPT ![Owner(t)] = {}] /\ UNCHANGED readers

(* generate_rlk needs the powers up to count + 1; a decryption those below *)
(* the number of polynomials.                                              *)
GenerateRlk(t) ==
  /\ pc[t] = "idle" /\ left[t] > 0
  /\ \E p \in 2 .. MaxPower : job' = [job EXCEPT ![t] = [owner |-> "KeyGenerator", power |-> p]]
  /\ Goto(t, "size") /\ left' = [left EXCEPT ![t] = @ - 1]
  /\ UNCHANGED <<array, fresh, Locks, seen, got>>
DotProduct(t) ==
  /\ pc[t] = "idle" /\ left[t] > 0
  /\ \E p \in 1 .. MaxPower : job' = [job EXCEPT ![t] = [owner |-> "Decryptor", power |-> p]]
  /\ Goto(t, "peek") /\ left' = [left EXCEPT ![t] = @ - 1]
  /\ UNCHANGED <<array, fresh, Locks, seen, got>>

(* compute_secret_key_array: the size is read under the shared lock ... *)
ReadSize(t) ==
  /\ pc[t] = "size" /\ writer[Owner(t)] = {}
  /\ seen' = [seen EXCEPT ![t] = Len(array[Owner(t)])]
  /\ Goto(t, IF Len(array[Owner(t)]) >= Power(t) THEN "shared" ELSE "unique")
  /\ UNCHANGED <<array, fresh, Locks, job, got, left>>
(* ... and dot_product_ct_sk_array reads it without: while another thread  *)
(* moves the new storage in, either length may be seen.                    *)
Racing(o) == {Len(array[o])} \cup (IF fresh[o] # << >> THEN {Len(fresh[o])} ELSE {})
PeekSize(t) ==
  /\ pc[t] = "peek"
  /\ \E n \in Racing(Owner(t)) :
       /\ seen' = [seen EXCEPT ![t] = n]
       /\ Goto(t, IF n < Power(t) THEN "unique" ELSE "shared")
  /\ UNCHANGED <<array, fresh, Locks, job, got, left>>
TakeUnique(t) ==
  /\ pc[t] = "unique" /\ UniqueLock(t) /\ Goto(t, "extend")
  /\ UNCHANGED <<array, fresh, job, seen, got, left>>

(* compute_secret_key_powers *)
Extend(t) ==
  /\ pc[t] = "extend"
  /\ IF Len(array[Owner(t)]) >= Power(t)
     THEN UniqueUnlock(t) /\ Goto(t, "shared") /\ UNCHANGED fresh
     ELSE /\ fresh' = [fresh EXCEPT ![Owner(t)] =
                         [i \in 1 .. Power(t) |-> IF i <= Len(array[Owner(t)]) THEN array[Owner(t)][i] ELSE Zero]]
          /\ Goto(t, "move") /\ UNCHANGED Locks
  /\ UNCHANGED <<array, job, seen, got, left>>
MoveIn(t) ==   \* Array::operator=
  /\ pc[t] = "move"
  /\ array' = [array EXCEPT ![Owner(t)] = fresh[Owner(t)]]
  /\ fresh' = [fresh EXCEPT ![Owner(t)] = << >>]
  /\ Goto(t, "fill") /\ UNCHANGED <<Locks, job, seen, got, left>>
Fill(t) ==   \* one turn of the loop; after the last one the lock is let go
  /\ pc[t] = "fill"
  /\ LET a    == array[Owner(t)]
         open == {i \in 1 .. Len(a) : a[i] = Zero}
         i    == CHOOSE k \in open : \A l \in open : k <= l
     IN  IF open = {} THEN UniqueUnlock(t) /\ Goto(t, "shared") /\ UNCHANGED array
         ELSE array' = [array EXCEPT ![Owner(t)][i] = a[i - 1] + a[1]] /\ UNCHANGED <<Locks, pc>>
  /\ UNCHANGED <<fresh, job, seen, got, left>>

MutantTakeShared(t) ==   \* the array is read without the lock
  /\ pc[t] = "shared" /\ Goto(t, "read")
  /\ UNCHANGED <<array, fresh, Locks, job, seen, got, left>>
TakeShared(t) ==
  /\ pc[t] = "shared" /\ SharedLock(t) /\ Goto(t, "read")
  /\ UNCHANGED <<array, fresh, job, seen, got, left>>
ReadPowers(t) ==
  /\ pc[t] = "read" /\ SharedUnlock(t)
  /\ got' = [got EXCEPT ![t] = SubSeq(array[Owner(t)], 1, Power(t))]
  /\ Goto(t, "idle") /\ UNCHANGED <<array, fresh, job, seen, left>>

Step(t) == \/ ReadSize(t) \/ PeekSize(t) \/ TakeUnique(t) \/ Extend(t) \/ MoveIn(t) \/ Fill(t)
           \/ TakeShared(t) \/ ReadPowers(t)
Next == \E t \in Threads : GenerateRlk(t) \/ DotProduct(t) \/ Step(t)
Spec == Init /\ [][Next]_vars

---------------------------------------------------------------------------
TypeOK ==
  /\ array \in [Owners -> Seq(0 .. MaxPower)] /\ fresh \in [Owners -> Seq(0 .. MaxPower)]
  /\ readers \in [Owners -> SUBSET Threads] /\ writer \in [Owners -> SUBSET Threads]
  /\ pc \in [Threads -> PCs] /\ left \in [Threads -> 0 .. Calls]
  /\ job \in [Threads -> [owner : Owners, power : 1 .. MaxPower]]
  /\ seen \in [Threads -> Nat] /\ got \in [Threads -> Seq(0 .. MaxPower)]

(* What a thread reads are the powers it needs, all of them, never the     *)
(* zeros of an array another thread is still filling.                      *)
ReadsPowers ==
  \A t \in Threads : got[t] # << >> => \A i \in 1 .. Len(got[t]) : got[t][i] = i

(* A thread that reads holds the lock, and the array is long enough.       *)
ReadsInBounds ==
  \A t \in Threads : pc[t] = "read" => /\ Len(array[Owner(t)]) >= Power(t)
                                       /\ writer[Owner(t)] = {}

(* The array never loses a power another call has computed.                *)
PowersKept ==
  \A o \in Owners : /\ Len(array'[o]) >= Len(array[o])
                    /\ \A i \in 1 .. Len(array[o]) : array[o][i] # Zero => array'[o][i] = array[o][i]

(* Sequence a holds the first k powers, and zeros behind them.             *)
Filled(a, k) == k \in 1 .. Len(a) /\ \A i \in 1 .. Len(a) : a[i] = IF i <= k THEN i ELSE Zero

(* Who holds an owner's lock, read off where the threads are. *)
LocksHeld == \A o \in Owners :
  /\ \A t \in Threads : t \in readers[o] <=> Owner(t) = o /\ pc[t] = "read"
  /\ \A t \in Threads : t \in writer[o] <=> Owner(t) = o /\ pc[t] \in {"extend", "move", "fill"}
  /\ writer[o] = {} \/ readers[o] = {}
  /\ \A t, u \in writer[o] : t = u

(* The powers come first; only while a thread fills the array are there    *)
(* zeros behind them, and only while one moves it is there a new storage.  *)
PowersFirst == \A o \in Owners :
  /\ Len(array[o]) \in 1 .. MaxPower
  /\ \E k \in 1 .. Len(array[o]) : Filled(array[o], k)
  /\ (\A t \in writer[o] : pc[t] # "fill") => Filled(array[o], Len(array[o]))
  /\ (\A t \in writer[o] : pc[t] # "move") => fresh[o] = << >>
  /\ \A t \in writer[o] : pc[t] = "move" =>
       /\ Len(fresh[o]) = Power(t) /\ Len(array[o]) < Power(t)
       /\ Filled(fresh[o], Len(array[o]))

(* A thread that was told the length of the new storage finds it moved in  *)
(* once it may read.                                                       *)
LengthsSeen == \A t \in Threads :
  /\ pc[t] = "shared" => \/ Len(array[Owner(t)]) >= Power(t)
                          \/ Len(fresh[Owner(t)]) >= Power(t)
  /\ pc[t] = "fill" => Len(array[Owner(t)]) >= Power(t)

PowersSound ==
  TypeOK /\ LocksHeld /\ PowersFirst /\ LengthsSeen /\ ReadsInBounds /\ ReadsPowers
=============================================================================

--------------------------- MODULE SecretPowersProofs ---------------------------
(***************************************************************************)
(* Any number of threads may extend and read the powers of the secret key: *)
(* none reads a power that is not computed yet, although the decryptor     *)
(* looks at the length without a lock.                                     *)
(***************************************************************************)
EXTENDS SecretPowers, SequenceTheorems, TLAPS

(* The steps of a thread, calls included. *)
Move(t) == GenerateRlk(t) \/ DotProduct(t) \/ Step(t)

(* A function on 1 .. n is a sequence of length n (a resized array). *)
LEMMA FunctionIsSeq ==
  ASSUME NEW S, NEW n \in Nat, NEW f \in [1 .. n -> S]
  PROVE  f \in Seq(S) /\ Len(f) = n
OBVIOUS

(* The owners differ. *)
LEMMA OwnersAre == "KeyGenerator" \in Owners /\ "Decryptor" \in Owners
BY DEF Owners

(* The variables the locks depend on, with their types. *)
LockTypes ==
  /\ readers \in [Owners -> SUBSET Threads] /\ writer \in [Owners -> SUBSET Threads]
  /\ pc \in [Threads -> PCs] /\ job \in [Threads -> [owner : Owners, power : 1 .. MaxPower]]

(* A step that touches no lock and moves its thread within the code that   *)
(* holds the same locks. *)
LEMMA LocksAlone ==
  ASSUME LockTypes, LocksHeld, NEW t \in Threads, NEW l \in PCs,
         UNCHANGED <<readers, writer>>, pc' = [pc EXCEPT ![t] = l],
         pc[t] = "read" <=> l = "read",
         pc[t] \in {"extend", "move", "fill"} <=> l \in {"extend", "move", "fill"},
         \A u \in Threads : job'[u] = job[u] \/ (u = t /\ l \notin {"read", "extend", "move", "fill"})
  PROVE  LocksHeld'
<1> SUFFICES ASSUME NEW o \in Owners
    PROVE  /\ \A u \in Threads : u \in readers[o] <=> job'[u].owner = o /\ pc'[u] = "read"
           /\ \A u \in Threads : u \in writer[o] <=> job'[u].owner = o /\ pc'[u] \in {"extend", "move", "fill"}
           /\ writer[o] = {} \/ readers[o] = {}
           /\ \A u, v \in writer[o] : u = v
  BY DEF LocksHeld, Owner
<1>1. \A u \in Threads : pc'[u] = IF u = t THEN l ELSE pc[u]
  BY DEF LockTypes
<1> QED
  BY <1>1 DEF LocksHeld, Owner

(* A step keeps who holds the locks in line with where the threads are. *)
LEMMA LocksStep ==
  ASSUME TypeOK, LocksHeld, NEW t \in Threads, Move(t)
  PROVE  LocksHeld'
<1>t. LockTypes
  BY DEF TypeOK, LockTypes
<1>o. Owner(t) \in Owners
  BY <1>t DEF LockTypes, Owner
<1> DEFINE Writing == {"extend", "move", "fill"}
<1>1. CASE GenerateRlk(t) \/ DotProduct(t)
  <2>1. /\ UNCHANGED <<readers, writer>> /\ pc[t] = "idle"
        /\ \E l \in {"size", "peek"} : pc' = [pc EXCEPT ![t] = l]
        /\ \A u \in Threads : u # t => job'[u] = job[u]
    BY <1>1, <1>t DEF GenerateRlk, DotProduct, Goto, Locks, LockTypes
  <2> QED
    BY <1>t, <2>1, LocksAlone DEF PCs
<1>2. CASE ReadSize(t) \/ PeekSize(t)
  <2>1. /\ UNCHANGED <<readers, writer, job>> /\ pc[t] \in {"size", "peek"}
        /\ \E l \in {"shared", "unique"} : pc' = [pc EXCEPT ![t] = l]
    BY <1>2 DEF ReadSize, PeekSize, Goto, Locks
  <2> QED
    BY <1>t, <2>1, LocksAlone DEF PCs
<1>3. CASE TakeUnique(t)
  <2>1. /\ pc[t] = "unique" /\ pc' = [pc EXCEPT ![t] = "extend"] /\ UNCHANGED <<job, readers>>
        /\ writer[Owner(t)] = {} /\ readers[Owner(t)] = {}
        /\ writer' = [writer EXCEPT ![Owner(t)] = {t}]
    BY <1>3 DEF TakeUnique, UniqueLock, Goto
  <2> HIDE DEF Writing
  <2> QED
    BY <1>t, <1>o, <2>1 DEF LocksHeld, Owner, LockTypes
<1>5. CASE (Extend(t) /\ pc'[t] = "move") \/ MoveIn(t) \/ (Fill(t) /\ UNCHANGED <<Locks, pc>>)
  <2>1. /\ UNCHANGED <<readers, writer, job>> /\ pc[t] \in Writing
        /\ \E l \in Writing : pc' = [pc EXCEPT ![t] = l]
    BY <1>5, <1>t DEF Extend, MoveIn, Fill, UniqueUnlock, Goto, Locks, LockTypes
  <2> QED
    BY <1>t, <2>1, LocksAlone DEF PCs
<1>6. CASE /\ pc[t] \in Writing /\ UniqueUnlock(t) /\ Goto(t, "shared") /\ UNCHANGED job
  <2>1. /\ pc[t] \in Writing /\ pc' = [pc EXCEPT ![t] = "shared"] /\ UNCHANGED <<job, readers>>
        /\ writer' = [writer EXCEPT ![Owner(t)] = {}]
    BY <1>6 DEF UniqueUnlock, Goto
  <2> QED
    BY <1>t, <1>o, <2>1 DEF LocksHeld, Owner, LockTypes
<1>7. CASE TakeShared(t)
  <2>1. /\ pc[t] = "shared" /\ pc' = [pc EXCEPT ![t] = "read"] /\ UNCHANGED <<job, writer>>
        /\ writer[Owner(t)] = {} /\ readers' = [readers EXCEPT ![Owner(t)] = @ \cup {t}]
    BY <1>7 DEF TakeShared, SharedLock, Goto
  <2> QED
    BY <1>t, <1>o, <2>1 DEF LocksHeld, Owner, LockTypes
<1>8. CASE ReadPowers(t)
  <2>1. /\ pc[t] = "read" /\ pc' = [pc EXCEPT ![t] = "idle"] /\ UNCHANGED <<job, writer>>
        /\ readers' = [readers EXCEPT ![Owner(t)] = @ \ {t}]
    BY <1>8 DEF ReadPowers, SharedUnlock, Goto
  <2> QED
    BY <1>t, <1>o, <2>1 DEF LocksHeld, Owner, LockTypes
<1>9. Extend(t) => \/ Extend(t) /\ pc'[t] = "move"
                   \/ pc[t] \in Writing /\ UniqueUnlock(t) /\ Goto(t, "shared") /\ UNCHANGED job
  BY <1>t DEF Extend, Goto, LockTypes
<1>10. Fill(t) => \/ Fill(t) /\ UNCHANGED <<Locks, pc>>
                  \/ pc[t] \in Writing /\ UniqueUnlock(t) /\ Goto(t, "shared") /\ UNCHANGED job
  BY DEF Fill, Locks
<1>11. (Extend(t) \/ Fill(t)) => LocksHeld'
  BY <1>5, <1>6, <1>9, <1>10
<1> QED
  BY <1>1, <1>2, <1>3, <1>5, <1>7, <1>8, <1>11 DEF Move, Step

(* What a step does to the storage of the owner it works for.              *)
Allocates(t, o) == \E g \in Seq(0 .. MaxPower) :
  /\ pc[t] = "extend" /\ pc' = [pc EXCEPT ![t] = "move"]
  /\ Len(array[o]) < Power(t) /\ Len(g) = Power(t) /\ Filled(g, Len(array[o]))
  /\ fresh' = [fresh EXCEPT ![o] = g] /\ array' = array
MovesIn(t, o) ==
  /\ pc[t] = "move" /\ pc' = [pc EXCEPT ![t] = "fill"]
  /\ array' = [array EXCEPT ![o] = fresh[o]] /\ fresh' = [fresh EXCEPT ![o] = << >>]
Computes(t, o) == \E k \in 1 .. Len(array[o]) - 1 :
  /\ pc[t] = "fill" /\ pc' = pc /\ fresh' = fresh
  /\ Filled(array[o], k) /\ array' = [array EXCEPT ![o] = [array[o] EXCEPT ![k + 1] = k + 1]]
Stores(t, o) == Allocates(t, o) \/ MovesIn(t, o) \/ Computes(t, o)

(* A thread lets the lock go when there is nothing to compute. *)
Releases(t, o) ==
  /\ UniqueUnlock(t) /\ UNCHANGED <<array, fresh, job>> /\ pc' = [pc EXCEPT ![t] = "shared"]
  /\ \/ pc[t] = "extend" /\ Len(array[o]) >= Power(t)
     \/ pc[t] = "fill" /\ Filled(array[o], Len(array[o]))

(* A thread that writes holds the lock of its owner. *)
LEMMA WriterHolds ==
  ASSUME LocksHeld, NEW t \in Threads, Owner(t) \in Owners, pc[t] \in {"extend", "move", "fill"}
  PROVE  writer[Owner(t)] = {t}
BY DEF LocksHeld

(* What the resize of an array of powers gives: the powers, then zeros. *)
LEMMA ResizeFills ==
  ASSUME NEW a \in Seq(0 .. MaxPower), NEW p \in 1 .. MaxPower, MaxPower \in Nat,
         Filled(a, Len(a)), Len(a) < p
  PROVE  LET g == [i \in 1 .. p |-> IF i <= Len(a) THEN a[i] ELSE Zero]
         IN  g \in Seq(0 .. MaxPower) /\ Len(g) = p /\ Filled(g, Len(a))
<1> DEFINE g == [i \in 1 .. p |-> IF i <= Len(a) THEN a[i] ELSE Zero]
<1>1. Len(a) \in Nat /\ p \in Nat /\ Len(a) >= 1
  BY DEF Filled
<1>2. \A i \in 1 .. Len(a) : a[i] = i
  BY <1>1 DEF Filled
<1>3. g \in [1 .. p -> 0 .. MaxPower]
  BY <1>1, <1>2 DEF Zero
<1>4. g \in Seq(0 .. MaxPower) /\ Len(g) = p
  BY <1>1, <1>3, FunctionIsSeq
<1>5. \A i \in 1 .. p : g[i] = IF i <= Len(a) THEN i ELSE Zero
  BY <1>1, <1>2
<1> QED
  BY <1>1, <1>4, <1>5 DEF Filled

(* The first zero follows the last power. *)
LEMMA FirstOpen ==
  ASSUME NEW a \in Seq(0 .. MaxPower), NEW k \in 1 .. Len(a), Filled(a, k),
         NEW open, \A i : i \in open <=> i \in 1 .. Len(a) /\ a[i] = Zero, open # {}
  PROVE  /\ k < Len(a) /\ a[k] + a[1] = k + 1 /\ (k + 1) - 1 = k
         /\ k + 1 \in open /\ \A l \in open : k + 1 <= l
         /\ \A j \in open : (\A l \in open : j <= l) => j = k + 1
<1>1. k \in Nat /\ Len(a) \in Nat /\ 1 <= k /\ k <= Len(a)
  OBVIOUS
<1>2. \A i \in 1 .. Len(a) : i \in open <=> i > k
  BY <1>1 DEF Filled, Zero
<1>3. k < Len(a)
  BY <1>1, <1>2
<1>4. k + 1 \in open /\ \A l \in open : k + 1 <= l
  BY <1>1, <1>2, <1>3
<1>5. \A j \in open : (\A l \in open : j <= l) => j = k + 1
  BY <1>1, <1>4
<1>7. a[k] = k /\ a[1] = 1
  BY <1>1 DEF Filled
<1> QED
  BY <1>1, <1>3, <1>4, <1>5, <1>7

(* A step without the unique lock leaves the arrays alone; one with it     *)
(* stores for its owner or lets the lock go.                               *)
LEMMA StorageStep ==
  ASSUME SecretPowersConstants, PowersSound, NEW t \in Threads, Move(t)
  PROVE  \/ /\ pc[t] \notin {"extend", "move", "fill"} /\ UNCHANGED <<array, fresh>>
            /\ UNCHANGED writer \/ TakeUnique(t)
         \/ Releases(t, Owner(t))
         \/ Stores(t, Owner(t)) /\ UNCHANGED <<job, readers, writer>>
<1>t. /\ array \in [Owners -> Seq(0 .. MaxPower)] /\ fresh \in [Owners -> Seq(0 .. MaxPower)]
      /\ Owner(t) \in Owners /\ Power(t) \in 1 .. MaxPower /\ LocksHeld
  BY DEF PowersSound, TypeOK, Owner, Power
<1> DEFINE o == Owner(t)
<1>1. CASE Extend(t) /\ ~ (Len(array[o]) >= Power(t))
  <2>1. writer[o] = {t} /\ pc[t] = "extend"
    BY <1>1, <1>t, WriterHolds DEF Extend
  <2>2. Filled(array[o], Len(array[o])) /\ ~ (Len(array[o]) >= Power(t))
    BY <1>1, <1>t, <2>1 DEF PowersSound, PowersFirst, Extend
  <2>3. Len(array[o]) < Power(t)
    BY <1>t, <2>2
  <2> DEFINE g == [i \in 1 .. Power(t) |-> IF i <= Len(array[o]) THEN array[o][i] ELSE Zero]
  <2>4. g \in Seq(0 .. MaxPower) /\ Len(g) = Power(t) /\ Filled(g, Len(array[o]))
    <3> HIDE DEF g, o
    <3>1. \A a \in Seq(0 .. MaxPower), p \in 1 .. MaxPower : Filled(a, Len(a)) /\ Len(a) < p =>
            LET h == [i \in 1 .. p |-> IF i <= Len(a) THEN a[i] ELSE Zero]
            IN  h \in Seq(0 .. MaxPower) /\ Len(h) = p /\ Filled(h, Len(a))
      BY ResizeFills DEF SecretPowersConstants
    <3>2. array[o] \in Seq(0 .. MaxPower)
      BY <1>t DEF o
    <3> QED
      BY <1>t, <2>2, <2>3, <3>1, <3>2 DEF g
  <2>5. fresh' = [fresh EXCEPT ![o] = g] /\ array' = array /\ UNCHANGED <<job, readers, writer>>
        /\ pc' = [pc EXCEPT ![t] = "move"]
    BY <1>1, <2>2 DEF Extend, Goto, Locks
  <2> HIDE DEF g
  <2> QED
    BY <2>1, <2>3, <2>4, <2>5 DEF Stores, Allocates
<1>2. CASE MoveIn(t)
  BY <1>2 DEF MoveIn, Goto, Locks, Stores, MovesIn
<1> DEFINE a    == array[o]
           open == {i \in 1 .. Len(a) : a[i] = Zero}
<1>3. CASE Fill(t) /\ open # {}
  <2> DEFINE c    == CHOOSE j \in open : \A l \in open : j <= l
  <2>1. /\ pc[t] = "fill" /\ open # {} /\ UNCHANGED <<pc, fresh, job, readers, writer>>
        /\ array' = [array EXCEPT ![o] = [a EXCEPT ![c] = a[c - 1] + a[1]]]
    BY <1>3 DEF Fill, Locks
  <2>2. PICK k \in 1 .. Len(a) : Filled(a, k)
    BY <1>t DEF PowersSound, PowersFirst
  <2>3. a \in Seq(0 .. MaxPower)
    BY <1>t
  <2>4. k < Len(a) /\ c = k + 1 /\ a[c - 1] + a[1] = k + 1
    <3> HIDE DEF a, open
    <3>0. open # {}
      BY <2>1
    <3>1. \A i : i \in open <=> i \in 1 .. Len(a) /\ a[i] = Zero
      BY DEF open
    <3>2. /\ k < Len(a) /\ a[k] + a[1] = k + 1 /\ (k + 1) - 1 = k
          /\ k + 1 \in open /\ \A l \in open : k + 1 <= l
          /\ \A j \in open : (\A l \in open : j <= l) => j = k + 1
      BY <2>2, <2>3, <3>0, <3>1, FirstOpen
    <3>3. c = k + 1
      BY <3>2
    <3> HIDE DEF c
    <3> QED
      BY <3>2, <3>3
  <2>5. k \in 1 .. Len(a) - 1
    BY <2>3, <2>4
  <2> QED
    BY <2>1, <2>2, <2>4, <2>5 DEF Stores, Computes
<1>4. CASE Extend(t) /\ Len(array[o]) >= Power(t)
  BY <1>4 DEF Extend, Releases, Goto
<1>5. CASE Fill(t) /\ open = {}
  <2>1. PICK k \in 1 .. Len(a) : Filled(a, k)
    BY <1>t DEF PowersSound, PowersFirst
  <2>2. Len(a) \in Nat
    BY <1>t
  <2>3. k = Len(a)
    <3>1. a[Len(a)] # Zero
      BY <1>5, <2>1, <2>2
    <3> QED
      BY <2>1, <2>2, <3>1 DEF Filled
  <2>4. pc[t] = "fill" /\ UniqueUnlock(t) /\ Goto(t, "shared") /\ UNCHANGED <<array, fresh, job>>
    BY <1>5 DEF Fill
  <2> QED
    BY <2>1, <2>3, <2>4 DEF Releases, Goto
<1>6. CASE TakeUnique(t)
  BY <1>6 DEF TakeUnique
<1>7. CASE GenerateRlk(t) \/ DotProduct(t) \/ ReadSize(t) \/ PeekSize(t) \/ TakeShared(t) \/ ReadPowers(t)
  BY <1>7 DEF GenerateRlk, DotProduct, ReadSize, PeekSize, TakeShared, ReadPowers, Locks, SharedLock, SharedUnlock
<1> HIDE DEF open, o
<1> QED
  BY <1>1, <1>2, <1>3, <1>4, <1>5, <1>6, <1>7 DEF Move, Step

(* The storage after a step: the array of no owner gets shorter, and every *)
(* power stays where it is.                                                *)
LEMMA ArraysGrow ==
  ASSUME SecretPowersConstants, PowersSound, NEW t \in Threads, Owner(t) \in Owners, Stores(t, Owner(t)), NEW o \in Owners
  PROVE  /\ Len(array'[o]) >= Len(array[o])
         /\ \A i \in 1 .. Len(array[o]) : array[o][i] # Zero => array'[o][i] = array[o][i]
         /\ array'[o] \in Seq(0 .. MaxPower) /\ fresh'[o] \in Seq(0 .. MaxPower)
<1>t. /\ array \in [Owners -> Seq(0 .. MaxPower)] /\ fresh \in [Owners -> Seq(0 .. MaxPower)]
      /\ Len(array[o]) \in Nat /\ LocksHeld /\ Len(array[o]) <= MaxPower
  BY DEF PowersSound, TypeOK, PowersFirst
<1>1. CASE o # Owner(t) \/ Allocates(t, Owner(t))
  BY <1>1, <1>t DEF Stores, Allocates, MovesIn, Computes
<1>2. CASE o = Owner(t) /\ MovesIn(t, o)
  <2>1. writer[o] = {t} /\ pc[t] = "move"
    BY <1>2, <1>t, WriterHolds DEF MovesIn
  <2>2. Len(fresh[o]) > Len(array[o]) /\ Filled(fresh[o], Len(array[o])) /\ Filled(array[o], Len(array[o]))
    BY <2>1, <1>t DEF PowersSound, PowersFirst, TypeOK
  <2>3. array'[o] = fresh[o] /\ fresh'[o] = << >>
    BY <1>2, <1>t DEF MovesIn
  <2>4. \A a \in Seq(0 .. MaxPower), k \in Nat : Filled(a, k) => \A i \in 1 .. k : a[i] = i
    BY DEF Filled
  <2>5. \A i \in 1 .. Len(array[o]) : array[o][i] = i /\ fresh[o][i] = i
    BY <2>2, <2>4, <1>t
  <2> QED
    BY <1>t, <2>2, <2>3, <2>5
<1>3. CASE o = Owner(t) /\ Computes(t, o)
  <2>1. PICK k \in 1 .. Len(array[o]) - 1 :
          /\ Filled(array[o], k) /\ array'[o] = [array[o] EXCEPT ![k + 1] = k + 1] /\ fresh' = fresh
    BY <1>3, <1>t DEF Computes
  <2>2. k + 1 \in 0 .. MaxPower /\ k + 1 \in 1 .. Len(array[o]) /\ array[o][k + 1] = Zero
    BY <1>t, <2>1 DEF Filled, SecretPowersConstants
  <2>3. array[o] \in Seq(0 .. MaxPower)
    BY <1>t
  <2>4. /\ array'[o] \in Seq(0 .. MaxPower) /\ Len(array'[o]) = Len(array[o])
        /\ \A i \in 1 .. Len(array[o]) : i # k + 1 => array'[o][i] = array[o][i]
    BY <2>1, <2>2, <2>3, ExceptSeq
  <2> QED
    BY <1>t, <2>1, <2>2, <2>4
<1> QED
  BY <1>1, <1>2, <1>3 DEF Stores

(* A step keeps the types. *)
LEMMA TypeStep ==
  ASSUME SecretPowersConstants, PowersSound, NEW t \in Threads, Move(t)
  PROVE  TypeOK'
<1>t. /\ TypeOK /\ Owner(t) \in Owners /\ Power(t) \in 1 .. MaxPower /\ MaxPower \in Nat /\ Calls \in Nat
  BY DEF PowersSound, TypeOK, Owner, Power, SecretPowersConstants
<1>1. array' \in [Owners -> Seq(0 .. MaxPower)] /\ fresh' \in [Owners -> Seq(0 .. MaxPower)]
  <2>1. CASE UNCHANGED <<array, fresh>>
    BY <2>1, <1>t DEF TypeOK
  <2>2. CASE Stores(t, Owner(t))
    <3>1. \A o \in Owners : array'[o] \in Seq(0 .. MaxPower) /\ fresh'[o] \in Seq(0 .. MaxPower)
      BY <1>t, <2>2, ArraysGrow
    <3>2. array' = [o \in Owners |-> array'[o]] /\ fresh' = [o \in Owners |-> fresh'[o]]
      BY <1>t, <2>2 DEF Stores, Allocates, MovesIn, Computes, TypeOK
    <3> QED
      BY <3>1, <3>2
  <2> QED
    BY <2>1, <2>2, StorageStep DEF Releases
<1>2. readers' \in [Owners -> SUBSET Threads] /\ writer' \in [Owners -> SUBSET Threads]
  <2>0. readers \in [Owners -> SUBSET Threads] /\ writer \in [Owners -> SUBSET Threads]
    BY <1>t DEF TypeOK
  <2>1. \/ UNCHANGED <<readers, writer>>
        \/ SharedLock(t) \/ SharedUnlock(t) \/ UniqueLock(t) \/ UniqueUnlock(t)
    BY DEF Move, Step, GenerateRlk, DotProduct, ReadSize, PeekSize, TakeUnique, Extend, MoveIn, Fill,
           TakeShared, ReadPowers, Locks
  <2> QED
    <3>1. CASE SharedLock(t)
      BY <1>t, <2>0, <3>1 DEF SharedLock
    <3>2. CASE SharedUnlock(t)
      BY <1>t, <2>0, <3>2 DEF SharedUnlock
    <3>3. CASE UniqueLock(t) \/ UniqueUnlock(t)
      BY <1>t, <2>0, <3>3 DEF UniqueLock, UniqueUnlock
    <3> QED
      BY <2>0, <2>1, <3>1, <3>2, <3>3
<1>3. pc' \in [Threads -> PCs]
  <2>1. (UNCHANGED pc) \/ \E l \in PCs : pc' = [pc EXCEPT ![t] = l]
    BY DEF Move, Step, GenerateRlk, DotProduct, ReadSize, PeekSize, TakeUnique, Extend, MoveIn, Fill,
           TakeShared, ReadPowers, Goto, PCs
  <2> QED
    BY <1>t, <2>1 DEF TypeOK
<1>4. left' \in [Threads -> 0 .. Calls]
  <2>1. (UNCHANGED left) \/ (left[t] > 0 /\ left' = [left EXCEPT ![t] = @ - 1])
    BY DEF Move, Step, GenerateRlk, DotProduct, ReadSize, PeekSize, TakeUnique, Extend, MoveIn, Fill,
           TakeShared, ReadPowers
  <2>2. left \in [Threads -> 0 .. Calls] /\ left[t] \in 0 .. Calls
    BY <1>t DEF TypeOK
  <2>3. left[t] > 0 => left[t] - 1 \in 0 .. Calls
    BY <1>t, <2>2
  <2> QED
    BY <2>1, <2>2, <2>3
<1>5. job' \in [Threads -> [owner : Owners, power : 1 .. MaxPower]]
  <2>1. \/ UNCHANGED job
        \/ \E o \in Owners, p \in 1 .. MaxPower : job' = [job EXCEPT ![t] = [owner |-> o, power |-> p]]
    BY <1>t, OwnersAre DEF Move, Step, GenerateRlk, DotProduct, ReadSize, PeekSize, TakeUnique, Extend,
           MoveIn, Fill, TakeShared, ReadPowers
  <2>2. job \in [Threads -> [owner : Owners, power : 1 .. MaxPower]]
    BY <1>t DEF TypeOK
  <2> QED
    BY <2>1, <2>2
<1>6. seen' \in [Threads -> Nat]
  <2>1. Len(array[Owner(t)]) \in Nat /\ Len(fresh[Owner(t)]) \in Nat
    BY <1>t DEF TypeOK
  <2>2. (UNCHANGED seen) \/ \E n \in Nat : seen' = [seen EXCEPT ![t] = n]
    BY <2>1 DEF Move, Step, GenerateRlk, DotProduct, ReadSize, PeekSize, TakeUnique, Extend, MoveIn, Fill,
           TakeShared, ReadPowers, Racing
  <2> QED
    BY <1>t, <2>2 DEF TypeOK
<1>7. got' \in [Threads -> Seq(0 .. MaxPower)]
  <2>1. CASE UNCHANGED got
    BY <1>t, <2>1 DEF TypeOK
  <2>2. CASE ReadPowers(t)
    <3>1. array[Owner(t)] \in Seq(0 .. MaxPower) /\ Len(array[Owner(t)]) >= Power(t)
      BY <1>t, <2>2 DEF TypeOK, PowersSound, ReadsInBounds, ReadPowers
    <3>2. SubSeq(array[Owner(t)], 1, Power(t)) \in Seq(0 .. MaxPower)
      BY <1>t, <3>1, SubSeqProperties
    <3> QED
      BY <1>t, <2>2, <3>2 DEF TypeOK, ReadPowers
  <2> QED
    BY <2>1, <2>2 DEF Move, Step, GenerateRlk, DotProduct, ReadSize, PeekSize, TakeUnique, Extend, MoveIn,
           Fill, TakeShared
<1> QED
  BY <1>1, <1>2, <1>3, <1>4, <1>5, <1>6, <1>7 DEF TypeOK

(* PowersFirst, of one owner. *)
PowersAt(o) ==
  /\ Len(array[o]) \in 1 .. MaxPower
  /\ \E k \in 1 .. Len(array[o]) : Filled(array[o], k)
  /\ (\A t \in writer[o] : pc[t] # "fill") => Filled(array[o], Len(array[o]))
  /\ (\A t \in writer[o] : pc[t] # "move") => fresh[o] = << >>
  /\ \A t \in writer[o] : pc[t] = "move" =>
       /\ Len(fresh[o]) = Power(t) /\ Len(array[o]) < Power(t)
       /\ Filled(fresh[o], Len(array[o]))

(* That powers come first, owner by owner.                                 *)
LEMMA PowersAtEach == PowersFirst <=> \A o \in Owners : PowersAt(o)
BY DEF PowersFirst, PowersAt

(* A step that leaves the storage of an owner alone, and does not move a   *)
(* thread into or out of the code that changes it.                         *)
LEMMA PowersAlone ==
  ASSUME NEW o, PowersAt(o), array'[o] = array[o], fresh'[o] = fresh[o],
         \A u \in writer'[o] : u \in writer[o] /\ pc'[u] = pc[u] /\ job'[u] = job[u],
         \A u \in writer[o] : pc[u] \in {"move", "fill"} => u \in writer'[o]
  PROVE  PowersAt(o)'
<1>1. (\A u \in writer'[o] : pc'[u] # "fill") => \A u \in writer[o] : pc[u] # "fill"
  OBVIOUS
<1>2. (\A u \in writer'[o] : pc'[u] # "move") => \A u \in writer[o] : pc[u] # "move"
  OBVIOUS
<1> QED
  BY <1>1, <1>2 DEF PowersAt, Power

(* Of a thread whose step is over, only a writer changed a place a writer  *)
(* can be at.                                                              *)
LEMMA OthersStay ==
  ASSUME LockTypes, NEW t \in Threads, Move(t), NEW u \in Threads, u # t
  PROVE  pc'[u] = pc[u] /\ job'[u] = job[u]
<1>1. \E l : pc' = pc \/ pc' = [pc EXCEPT ![t] = l]
  BY DEF Move, Step, GenerateRlk, DotProduct, ReadSize, PeekSize, TakeUnique, Extend, MoveIn, Fill,
         TakeShared, ReadPowers, Goto
<1>2. \E j : job' = job \/ job' = [job EXCEPT ![t] = j]
  BY DEF Move, Step, GenerateRlk, DotProduct, ReadSize, PeekSize, TakeUnique, Extend, MoveIn, Fill,
         TakeShared, ReadPowers
<1> QED
  BY <1>1, <1>2 DEF LockTypes

(* A step keeps the powers first. *)
LEMMA PowersStep ==
  ASSUME SecretPowersConstants, PowersSound, NEW t \in Threads, Move(t), LocksHeld'
  PROVE  PowersFirst'
<1>t. /\ LockTypes /\ Owner(t) \in Owners /\ Power(t) \in 1 .. MaxPower /\ LocksHeld /\ PowersFirst
      /\ array \in [Owners -> Seq(0 .. MaxPower)] /\ fresh \in [Owners -> Seq(0 .. MaxPower)]
      /\ MaxPower \in Nat
  BY DEF PowersSound, TypeOK, Owner, Power, LockTypes, SecretPowersConstants
<1> SUFFICES ASSUME NEW o \in Owners PROVE PowersAt(o)'
  BY DEF PowersFirst, PowersAt
<1>p. PowersAt(o) /\ Len(array[o]) \in 1 .. MaxPower
  BY <1>t, PowersAtEach DEF PowersAt
<1>1. CASE o # Owner(t)
  <2>1. array'[o] = array[o] /\ fresh'[o] = fresh[o]
    BY <1>1, <1>t, StorageStep DEF Stores, Allocates, MovesIn, Computes, Releases
  <2>2. writer'[o] = writer[o]
    BY <1>1, <1>t DEF Move, Step, GenerateRlk, DotProduct, ReadSize, PeekSize, TakeUnique, Extend, MoveIn,
         Fill, TakeShared, ReadPowers, Locks, SharedLock, SharedUnlock, UniqueLock, UniqueUnlock, LockTypes
  <2>3. \A u \in writer[o] : u \in Threads /\ u # t
    BY <1>1, <1>t DEF LocksHeld, LockTypes
  <2> QED
    BY <1>t, <1>p, <2>1, <2>2, <2>3, OthersStay, PowersAlone
<1>2. CASE o = Owner(t) /\ UNCHANGED <<array, fresh, writer>> /\ ~ (pc[t] \in {"extend", "move", "fill"})
  <2>1. \A u \in writer[o] : u \in Threads /\ u # t
    BY <1>2, <1>t DEF LocksHeld, LockTypes
  <2> QED
    BY <1>2, <1>t, <1>p, <2>1, OthersStay, PowersAlone
<1>3. CASE o = Owner(t) /\ TakeUnique(t)
  <2>1. /\ writer[o] = {} /\ writer'[o] = {t} /\ pc'[t] = "extend" /\ UNCHANGED <<array, fresh>>
    BY <1>3, <1>t DEF TakeUnique, UniqueLock, Goto, LockTypes
  <2> QED
    BY <1>p, <2>1 DEF PowersAt
<1>4. CASE o = Owner(t) /\ Releases(t, o)
  <2>1. writer'[o] = {} /\ writer[o] = {t}
    BY <1>4, <1>t, WriterHolds DEF Releases, UniqueUnlock, LockTypes
  <2> QED
    BY <1>4, <1>p, <2>1 DEF PowersAt, Releases
<1>5. CASE o = Owner(t) /\ Allocates(t, o) /\ UNCHANGED <<job, readers, writer>>
  <2>1. writer'[o] = {t} /\ writer[o] = {t} /\ pc[t] = "extend" /\ pc'[t] = "move"
    BY <1>5, <1>t, WriterHolds DEF Allocates, LockTypes
  <2>2. /\ Len(array[o]) < Power(t) /\ Len(fresh'[o]) = Power(t) /\ Filled(fresh'[o], Len(array[o]))
        /\ array' = array
    BY <1>5, <1>t DEF Allocates
  <2>3. Filled(array[o], Len(array[o]))
    BY <1>p, <2>1 DEF PowersAt
  <2>4. Power(t)' = Power(t)
    BY <1>5 DEF Power
  <2> QED
    BY <1>p, <2>1, <2>2, <2>3, <2>4 DEF PowersAt
<1>6. CASE o = Owner(t) /\ MovesIn(t, o) /\ UNCHANGED <<job, readers, writer>>
  <2>1. writer'[o] = {t} /\ writer[o] = {t} /\ pc[t] = "move" /\ pc'[t] = "fill"
    BY <1>6, <1>t, WriterHolds DEF MovesIn, LockTypes
  <2>2. array'[o] = fresh[o] /\ fresh'[o] = << >>
    BY <1>6, <1>t DEF MovesIn
  <2>3. /\ Len(fresh[o]) = Power(t) /\ Filled(fresh[o], Len(array[o]))
        /\ Len(array[o]) \in 1 .. Len(fresh[o])
    BY <1>p, <1>t, <2>1 DEF PowersAt
  <2> QED
    BY <1>t, <2>1, <2>2, <2>3 DEF PowersAt
<1>7. CASE o = Owner(t) /\ Computes(t, o) /\ UNCHANGED <<job, readers, writer>>
  <2>1. writer'[o] = {t} /\ writer[o] = {t} /\ pc[t] = "fill" /\ pc'[t] = "fill" /\ fresh' = fresh
    BY <1>7, <1>t, WriterHolds DEF Computes, LockTypes
  <2>2. PICK k \in 1 .. Len(array[o]) - 1 :
          Filled(array[o], k) /\ array'[o] = [array[o] EXCEPT ![k + 1] = k + 1]
    BY <1>7, <1>t DEF Computes
  <2>3. k + 1 \in 1 .. Len(array[o]) /\ k + 1 \in 0 .. MaxPower /\ array[o] \in Seq(0 .. MaxPower)
    BY <1>t, <1>p, <2>2
  <2>4. /\ Len(array'[o]) = Len(array[o])
        /\ \A j \in 1 .. Len(array[o]) : array'[o][j] = IF j = k + 1 THEN k + 1 ELSE array[o][j]
    BY <2>2, <2>3, ExceptSeq
  <2>5. Filled(array'[o], k + 1)
    BY <1>p, <2>2, <2>3, <2>4 DEF Filled
  <2> QED
    BY <1>p, <2>1, <2>3, <2>4, <2>5 DEF PowersAt
<1> QED
  BY <1>1, <1>2, <1>3, <1>4, <1>5, <1>6, <1>7, StorageStep DEF Stores

(* A step keeps what a thread was told of the length true. *)
LEMMA LengthsStep ==
  ASSUME SecretPowersConstants, PowersSound, NEW t \in Threads, Move(t), LocksHeld'
  PROVE  LengthsSeen'
<1>t. /\ LockTypes /\ Owner(t) \in Owners /\ Power(t) \in 1 .. MaxPower /\ LocksHeld /\ PowersFirst
      /\ array \in [Owners -> Seq(0 .. MaxPower)] /\ fresh \in [Owners -> Seq(0 .. MaxPower)]
      /\ MaxPower \in Nat /\ LengthsSeen
  BY DEF PowersSound, TypeOK, Owner, Power, LockTypes, SecretPowersConstants
<1> SUFFICES ASSUME NEW u \in Threads
    PROVE  /\ pc'[u] = "shared" => \/ Len(array'[Owner(u)']) >= Power(u)'
                                   \/ Len(fresh'[Owner(u)']) >= Power(u)'
           /\ pc'[u] = "fill" => Len(array'[Owner(u)']) >= Power(u)'
  BY DEF LengthsSeen
<1>u. Owner(u) \in Owners /\ Power(u) \in 1 .. MaxPower
  BY <1>t DEF LockTypes, Owner, Power
<1>n. /\ Len(array[Owner(u)]) \in Nat /\ Len(fresh[Owner(u)]) \in Nat
      /\ Len(array[Owner(t)]) \in Nat /\ Len(fresh[Owner(t)]) \in Nat
  BY <1>t, <1>u
<1>g. Len(array'[Owner(u)]) >= Len(array[Owner(u)])
  <2>1. CASE array' = array
    BY <1>n, <2>1
  <2>2. CASE Stores(t, Owner(t))
    BY <1>t, <1>u, <2>2, ArraysGrow
  <2> QED
    BY <2>1, <2>2, StorageStep DEF Releases
<1>1. CASE u # t
  <2>1. pc'[u] = pc[u] /\ Owner(u)' = Owner(u) /\ Power(u)' = Power(u)
    BY <1>1, <1>t, OthersStay DEF Owner, Power
  <2>2. CASE pc[u] = "fill"
    BY <1>t, <1>u, <1>n, <1>g, <2>1, <2>2 DEF LengthsSeen
  <2>3. CASE pc[u] = "shared" /\ fresh'[Owner(u)] = fresh[Owner(u)]
    BY <1>t, <1>u, <1>n, <1>g, <2>1, <2>3 DEF LengthsSeen
  <2>4. CASE pc[u] = "shared" /\ fresh'[Owner(u)] # fresh[Owner(u)]
    <3>1. Owner(t) = Owner(u) /\ (Allocates(t, Owner(t)) \/ MovesIn(t, Owner(t)))
      BY <1>t, <1>u, <2>4, StorageStep DEF Releases, Stores, Computes, Allocates, MovesIn
    <3>2. writer[Owner(t)] = {t}
      BY <1>t, <3>1, WriterHolds DEF Allocates, MovesIn
    <3>3. CASE Allocates(t, Owner(t))
      <4>1. fresh[Owner(t)] = << >> /\ array' = array
        BY <1>t, <3>2, <3>3 DEF Allocates, PowersFirst
      <4>2. Len(fresh[Owner(u)]) = 0
        BY <3>1, <4>1
      <4> QED
        BY <1>t, <1>u, <1>n, <2>1, <2>4, <4>1, <4>2 DEF LengthsSeen
    <3>4. CASE MovesIn(t, Owner(t))
      <4>1. array'[Owner(u)] = fresh[Owner(u)] /\ Len(array[Owner(u)]) < Len(fresh[Owner(u)])
        BY <1>t, <3>1, <3>2, <3>4 DEF MovesIn, PowersFirst
      <4> QED
        BY <1>t, <1>u, <1>n, <2>1, <2>4, <4>1 DEF LengthsSeen
    <3> QED
      BY <3>1, <3>3, <3>4
  <2> QED
    BY <2>1, <2>2, <2>3, <2>4
<1>2. CASE u = t /\ (ReadSize(t) \/ PeekSize(t))
  <2>1. /\ UNCHANGED <<array, fresh, job>> /\ pc'[t] # "fill"
        /\ pc'[t] = "shared" => Len(array[Owner(t)]) >= Power(t) \/ Len(fresh[Owner(t)]) >= Power(t)
    <3>1. CASE ReadSize(t)
      BY <1>t, <3>1 DEF ReadSize, Goto, LockTypes
    <3>2. CASE PeekSize(t)
      BY <1>t, <1>n, <3>2 DEF PeekSize, Goto, LockTypes, Racing
    <3> QED
      BY <1>2, <3>1, <3>2
  <2> QED
    BY <1>2, <2>1 DEF Owner, Power
<1>3. CASE u = t /\ Releases(t, Owner(t))
  BY <1>3, <1>t DEF Releases, LockTypes, LengthsSeen, Owner, Power
<1>4. CASE u = t /\ Stores(t, Owner(t)) /\ UNCHANGED <<job, readers, writer>>
  <2>0. Owner(u)' = Owner(t) /\ Power(u)' = Power(t)
    BY <1>4 DEF Owner, Power
  <2>1. CASE Allocates(t, Owner(t))
    BY <1>4, <1>t, <2>1 DEF Allocates, LockTypes
  <2>2. CASE MovesIn(t, Owner(t))
    <3>1. writer[Owner(t)] = {t}
      BY <1>t, <2>2, WriterHolds DEF MovesIn
    <3>2. array'[Owner(t)] = fresh[Owner(t)] /\ Len(fresh[Owner(t)]) = Power(t) /\ pc'[t] = "fill"
      BY <1>t, <2>2, <3>1 DEF MovesIn, PowersFirst, LockTypes
    <3> QED
      BY <1>4, <1>t, <2>0, <3>2
  <2>3. CASE Computes(t, Owner(t))
    BY <1>4, <1>t, <1>n, <1>g, <2>0, <2>3 DEF Computes, LengthsSeen
  <2> QED
    BY <1>4, <2>1, <2>2, <2>3 DEF Stores
<1>5. CASE u = t /\ (GenerateRlk(t) \/ DotProduct(t) \/ TakeUnique(t) \/ TakeShared(t) \/ ReadPowers(t))
  BY <1>5, <1>t DEF GenerateRlk, DotProduct, TakeUnique, TakeShared, ReadPowers, Goto, LockTypes
<1>6. Move(t) => \/ GenerateRlk(t) \/ DotProduct(t) \/ TakeUnique(t) \/ TakeShared(t) \/ ReadPowers(t)
                 \/ ReadSize(t) \/ PeekSize(t) \/ pc[t] \in {"extend", "move", "fill"}
  BY DEF Move, Step, Extend, MoveIn, Fill
<1> QED
  BY <1>1, <1>2, <1>3, <1>4, <1>5, <1>6, StorageStep

(* A thread that reads finds the powers it needs. *)
LEMMA ReadsStep ==
  ASSUME SecretPowersConstants, PowersSound, NEW t \in Threads, Move(t), TypeOK', LocksHeld'
  PROVE  ReadsInBounds' /\ ReadsPowers'
<1>t. /\ LockTypes /\ LocksHeld /\ PowersFirst /\ LengthsSeen /\ ReadsInBounds /\ ReadsPowers
      /\ array \in [Owners -> Seq(0 .. MaxPower)] /\ fresh \in [Owners -> Seq(0 .. MaxPower)]
      /\ MaxPower \in Nat /\ got \in [Threads -> Seq(0 .. MaxPower)]
      /\ \A u \in Threads : Owner(u) \in Owners /\ Power(u) \in 1 .. MaxPower
  BY DEF PowersSound, TypeOK, Owner, Power, LockTypes, SecretPowersConstants
<1>1. ReadsInBounds'
  <2> SUFFICES ASSUME NEW u \in Threads, pc'[u] = "read"
      PROVE  Len(array'[Owner(u)']) >= Power(u)' /\ writer'[Owner(u)'] = {}
    BY DEF ReadsInBounds
  <2>1. writer'[Owner(u)'] = {}
    <3>1. Owner(u)' \in Owners
      BY DEF TypeOK, Owner
    <3> QED
      BY <3>1 DEF LocksHeld
  <2>2. CASE u # t
    <3>1. pc'[u] = pc[u] /\ Owner(u)' = Owner(u) /\ Power(u)' = Power(u)
      BY <1>t, <2>2, OthersStay DEF Owner, Power
    <3>2. Len(array[Owner(u)]) >= Power(u) /\ Len(array[Owner(u)]) \in Nat
      BY <1>t, <3>1 DEF ReadsInBounds
    <3>3. CASE array' = array
      BY <2>1, <3>1, <3>2, <3>3
    <3>4. CASE Stores(t, Owner(t))
      <4>1. Len(array'[Owner(u)]) >= Len(array[Owner(u)]) /\ Len(array'[Owner(u)]) \in Nat
        BY <1>t, <3>4, ArraysGrow
      <4> QED
        BY <1>t, <2>1, <3>1, <3>2, <4>1
    <3> QED
      BY <3>3, <3>4, StorageStep DEF Releases
  <2>3. CASE u = t
    <3>1. TakeShared(t)
      BY <1>t, <2>3 DEF Move, Step, GenerateRlk, DotProduct, ReadSize, PeekSize, TakeUnique, Extend, MoveIn,
         Fill, ReadPowers, Goto, LockTypes
    <3>2. /\ pc[t] = "shared" /\ writer[Owner(t)] = {} /\ UNCHANGED <<array, job>>
      BY <3>1 DEF TakeShared, SharedLock
    <3>3. fresh[Owner(t)] = << >>
      BY <1>t, <3>2 DEF PowersFirst
    <3>4. Len(array[Owner(t)]) >= Power(t)
      BY <1>t, <3>2, <3>3 DEF LengthsSeen
    <3> QED
      BY <2>1, <2>3, <3>2, <3>4 DEF Owner, Power
  <2> QED
    BY <2>2, <2>3
<1>2. ReadsPowers'
  <2>1. CASE UNCHANGED got
    BY <1>t, <2>1 DEF ReadsPowers
  <2>2. CASE ReadPowers(t)
    <3> DEFINE a == array[Owner(t)]
    <3>1. pc[t] = "read" /\ got' = [got EXCEPT ![t] = SubSeq(a, 1, Power(t))]
      BY <2>2 DEF ReadPowers
    <3>2. a \in Seq(0 .. MaxPower) /\ Len(a) >= Power(t) /\ Filled(a, Len(a)) /\ Len(a) \in Nat
      <4>1. writer[Owner(t)] = {} /\ Len(a) >= Power(t) /\ Owner(t) \in Owners
        BY <1>t, <3>1 DEF ReadsInBounds
      <4>2. a \in Seq(0 .. MaxPower)
        BY <1>t, <4>1
      <4>3. Filled(a, Len(a))
        BY <1>t, <4>1 DEF PowersFirst
      <4> QED
        BY <4>1, <4>2, <4>3
    <3> HIDE DEF a
    <3>3. \A i \in 1 .. Power(t) : a[i] = i /\ a[i] \in 0 .. MaxPower
      BY <1>t, <3>2 DEF Filled
    <3>4. /\ Len(SubSeq(a, 1, Power(t))) = Power(t)
          /\ \A i \in 1 .. Power(t) : SubSeq(a, 1, Power(t))[i] = a[i]
      BY <1>t, <3>3, SubSeqProperties
    <3>5. \A i \in 1 .. Len(SubSeq(a, 1, Power(t))) : SubSeq(a, 1, Power(t))[i] = i
      BY <1>t, <3>3, <3>4
    <3> QED
      BY <1>t, <3>1, <3>5 DEF ReadsPowers
  <2> QED
    BY <2>1, <2>2 DEF Move, Step, GenerateRlk, DotProduct, ReadSize, PeekSize, TakeUnique, Extend, MoveIn,
       Fill, TakeShared
<1> QED
  BY <1>1, <1>2

(* The first power is there from the start, and no lock is held. *)
LEMMA PowersInit ==
  ASSUME SecretPowersConstants, Init
  PROVE  PowersSound
<1> USE DEF SecretPowersConstants
<1>0. << 1 >> \in Seq(0 .. MaxPower) /\ << >> \in Seq(0 .. MaxPower) /\ Len(<< 1 >>) = 1 /\ Len(<< >>) = 0
  OBVIOUS
<1>1. TypeOK
  BY <1>0, OwnersAre DEF Init, TypeOK, PCs
<1>2. LocksHeld
  BY DEF Init, LocksHeld, Owner
<1>3. Filled(<< 1 >>, 1)
  BY DEF Filled
<1>4. PowersFirst
  BY <1>0, <1>3 DEF Init, PowersFirst
<1>5. LengthsSeen /\ ReadsInBounds /\ ReadsPowers
  BY DEF Init, LengthsSeen, ReadsInBounds, ReadsPowers
<1> QED
  BY <1>1, <1>2, <1>4, <1>5 DEF PowersSound

(* A step of any thread keeps all of it. *)
LEMMA PowersNext ==
  ASSUME SecretPowersConstants, PowersSound, [Next]_vars
  PROVE  PowersSound'
<1>1. CASE UNCHANGED vars
  BY <1>1 DEF vars, PowersSound, TypeOK, LocksHeld, PowersFirst, LengthsSeen, ReadsInBounds, ReadsPowers,
     Owner, Power
<1>2. ASSUME NEW t \in Threads, Move(t) PROVE PowersSound'
  <2>1. TypeOK'
    BY <1>2, TypeStep
  <2>2. LocksHeld'
    BY <1>2, LocksStep DEF PowersSound
  <2>3. PowersFirst' /\ LengthsSeen' /\ ReadsInBounds' /\ ReadsPowers'
    BY <1>2, <2>1, <2>2, PowersStep, LengthsStep, ReadsStep
  <2> QED
    BY <2>1, <2>2, <2>3 DEF PowersSound
<1> QED
  BY <1>1, <1>2 DEF Next, Move

(* The locks are held as the code says, the powers of every array come     *)
(* first, and a thread that reads finds as many as it needs, for every     *)
(* number of threads and calls.                                            *)
THEOREM PowersAlwaysSound == ASSUME SecretPowersConstants PROVE Spec => []PowersSound
BY PowersInit, PowersNext, PTL DEF Spec

(* No thread reads a zero of an array another one is filling, although     *)
(* Decryptor::dot_product_ct_sk_array looks at the length without a lock.  *)
THEOREM ReadsAlwaysPowers == ASSUME SecretPowersConstants PROVE Spec => [](ReadsInBounds /\ ReadsPowers)
<1>1. PowersSound => ReadsInBounds /\ ReadsPowers
  BY DEF PowersSound
<1> QED
  BY <1>1, PowersAlwaysSound, PTL

(* The array never loses a power another call has computed.                *)
THEOREM PowersAlwaysKept == ASSUME SecretPowersConstants PROVE Spec => [][PowersKept]_vars
<1>1. ASSUME PowersSound, [Next]_vars PROVE [PowersKept]_vars
  <2>1. ASSUME array' = array PROVE PowersKept
    <3>1. \A o \in Owners : Len(array[o]) \in Nat
      BY <1>1 DEF PowersSound, TypeOK
    <3> QED
      BY <2>1, <3>1 DEF PowersKept
  <2>2. ASSUME NEW t \in Threads, Move(t) PROVE PowersKept
    <3>1. CASE Stores(t, Owner(t))
      <4>1. Owner(t) \in Owners
        BY <1>1 DEF PowersSound, TypeOK, Owner
      <4>2. \A o \in Owners :
              /\ Len(array'[o]) >= Len(array[o])
              /\ \A i \in 1 .. Len(array[o]) : array[o][i] # Zero => array'[o][i] = array[o][i]
        BY <1>1, <2>2, <3>1, <4>1, ArraysGrow
      <4> QED
        BY <4>2 DEF PowersKept
    <3>2. array' = array \/ Stores(t, Owner(t))
      BY <1>1, <2>2, StorageStep DEF Releases
    <3> QED
      BY <2>1, <3>1, <3>2
  <2> QED
    BY <1>1, <2>1, <2>2 DEF Next, Move, vars
<1> QED
  BY <1>1, PowersAlwaysSound, PTL DEF Spec

=============================================================================

------------------------------- MODULE MCKernels -------------------------------
(***************************************************************************)
(* What runs concurrently in the encryption library, one part per          *)
(* behaviour: the threads of the NTT kernels and of the kernels on arrays  *)
(* of residues, and threads of the host that share a table of Galois       *)
(* permutations or an array of powers of the secret key.                   *)
(***************************************************************************)
EXTENDS NttKernel

CONSTANT HostThreads

VARIABLES
  part,
  call, polys1, polys2, res, todo, phase,        \* kernels on residues
  initialized, table, elt,             \* permutation tables
  array, fresh, job, seen, got,        \* powers of the secret key
  readers, writer, left                \* the reader-writer lock; calls to come
nttVars    == <<shape, item0, dir, buf, sdata>>
polyVars   == <<call, polys1, polys2, res, todo, phase>>
galoisVars == <<initialized, table, elt>>
secretVars == <<array, fresh, job, seen, got>>
lockVars   == <<readers, writer, left>>
allVars    == <<part, nttVars, polyVars, galoisVars, secretVars, lockVars, pc>>

Shape(ld, kind, pcount, components, decomp, moduli, primes) ==
  [ld |-> ld, kind |-> kind, pcount |-> pcount, components |-> components,
   decomp |-> decomp, moduli |-> moduli, primes |-> primes]

(* Two primes side by side; a stride between the words of a block; the two *)
(* orders in which key switching meets the special prime.                  *)
Componentwise == Shape(3, "Componentwise", 1, 2, 0, <<17, 97>>, <<17, 97>>)
Strided       == Shape(4, "Componentwise", 1, 1, 0, <<97>>, <<97>>)
SetProducts   == Shape(2, "KeySwitchingSetProducts", 2, 1, 1, <<17, 41, 73>>, <<17, 73>>)
SkipFinals    == Shape(2, "KeySwitchingSkipFinals", 1, 2, 1, <<17, 41, 73>>, <<17, 73>>)
MCShapes      == {Componentwise, Strided, SetProducts, SkipFinals}

(* Three inputs for the small degree, one for the large ones. *)
MCInputs == [s \in Shapes |->
  LET n      == 2 ^ s.ld
      top(i) == s.primes[i \div n + 1] - 1
      cells  == 0 .. s.pcount * s.components * n - 1
      mixed  == [i \in cells |-> (7 * i + 3) % (top(i) + 1)]
  IN  IF s.ld > 2 THEN {mixed}
      ELSE {mixed, [i \in cells |-> top(i)], [i \in cells |-> IF i % n = 1 THEN top(i) ELSE 0]}]

ResidueModuli == <<Modulus(5), Modulus(7)>>
Residues == INSTANCE PolySmallMod WITH
            Moduli <- ResidueModuli, Shapes <- {<<2, 2>>, <<1, 4>>},
            Fills <- {2, 5, 11}, Scalars <- {0, 3, 4}
Galois == INSTANCE GaloisTables WITH Threads <- HostThreads, Elements <- {3, 11}, Calls <- 2, OnDevice <- TRUE
Secret == INSTANCE SecretPowers WITH Threads <- HostThreads, MaxPower <- 3, Calls <- 1

ASSUME WordAssumption
ASSUME Galois!GaloisTablesConstants /\ Secret!SecretPowersConstants

Unused == << >>
NoNtt    == shape = Unused /\ item0 = Unused /\ dir = Unused /\ buf = Unused /\ sdata = Unused
NoPoly   == call = Unused /\ polys1 = Unused /\ polys2 = Unused /\ res = Unused /\ todo = Unused /\ phase = Unused
NoGalois == initialized = Unused /\ table = Unused /\ elt = Unused
NoSecret == array = Unused /\ fresh = Unused /\ job = Unused /\ seen = Unused /\ got = Unused
NoLock   == readers = Unused /\ writer = Unused /\ left = Unused

Start ==
  \/ part = "ntt" /\ Init /\ NoPoly /\ NoGalois /\ NoSecret /\ NoLock
  \/ part = "poly" /\ Residues!Init /\ NoNtt /\ NoGalois /\ NoSecret /\ NoLock /\ pc = Unused
  \/ part = "galois" /\ Galois!Init /\ NoNtt /\ NoPoly /\ NoSecret
  \/ part = "secret" /\ Secret!Init /\ NoNtt /\ NoPoly /\ NoGalois

NttStep == part = "ntt" /\ Next
           /\ UNCHANGED <<part, polyVars, galoisVars, secretVars, lockVars>>
PolyStep == part = "poly" /\ Residues!Next
            /\ UNCHANGED <<part, nttVars, galoisVars, secretVars, lockVars, pc>>
InGalois(A) == part = "galois" /\ A /\ UNCHANGED <<part, nttVars, polyVars, secretVars>>
InSecret(A) == part = "secret" /\ A /\ UNCHANGED <<part, nttVars, polyVars, galoisVars>>

Run == NttStep \/ PolyStep \/ InGalois(Galois!Next) \/ InSecret(Secret!Next)

(* The host's scheduler runs every thread that is not waiting for a lock;  *)
(* a thread need not call again.                                           *)
Spec ==
  /\ Start /\ [][Run]_allVars
  /\ \A t \in HostThreads : WF_allVars(InGalois(Galois!Step(t))) /\ WF_allVars(InSecret(Secret!Step(t)))

-----------------------------------------------------------------------------
(* ntt_grouped.cu: whatever the order of the threads, no two of them write *)
(* one word between two barriers, no barrier waits for a thread that waits *)
(* for it, and no shared word reaches four times its modulus.              *)
LaunchSafe == part = "ntt" => WritesDisjoint /\ SomeThreadRuns /\ WordsLazy

(* ntt.cu, ntt_grouped.cu: the forward transform evaluates, the inverse    *)
(* gives back the polynomial, and host and device agree word for word.     *)
TransformsExact == part = "ntt" => ForwardEvaluates /\ InverseReturns /\ DeviceAgrees

(* poly_small_mod.cu, dyadic_convolute.cu: an operation on residues, in    *)
(* any order of threads and in place, is that operation on the integers    *)
(* they stand for.                                                         *)
ActsOnIntegers ==
  part = "poly" => Residues!ActsOnIntegers /\ Residues!MonomialProduct /\ Residues!HostAgrees

(* galois.cu, key_generator.cu, decryptor.cu: a thread of the host         *)
(* permutes by a complete table where its data is, and reads complete      *)
(* powers of the secret key inside the array; a reader and a writer never  *)
(* hold a lock together.                                                   *)
SharedDataComplete ==
  /\ part = "galois" => Galois!LockSound /\ Galois!AppliesWholeTable
  /\ part = "secret" => Secret!PowersSound

(* galois.cu, key_generator.cu: a table marked for use is not made again,  *)
(* and no computed power is lost when the array grows.                     *)
SharedDataKept ==
  [][/\ part = "galois" => Galois!TableKept
     /\ part = "secret" => Secret!PowersKept]_allVars

(* Every rotation, decryption and key generation a thread of the host      *)
(* starts comes to its end, whatever the others do with the locks.         *)
EveryCallEnds ==
  LET Idle(t) == part \in {"galois", "secret"} => pc[t] = "idle"
  IN  \A t \in HostThreads : ~Idle(t) ~> Idle(t)
=============================================================================

------------------------------- MODULE NttKernel -------------------------------
(***************************************************************************)
(* The transform on the device: blocks of threads that copy their words to *)
(* the block's shared memory, run a group of layers there with a barrier   *)
(* after each, and write their words back.  The grouped kernel is launched *)
(* once per group; the cooperative one runs all groups, and the items of a *)
(* batch one after another, with a barrier over the grid between groups.   *)
(***************************************************************************)
EXTENDS Ntt

CONSTANTS
  THREAD_COUNT_LOG2,   \* NTT_KERNEL_THREAD_COUNT_LOG2 (8)
  Shapes,              \* what is transformed: degree, polynomials, components and tables
  BatchSize,           \* items one cooperative launch loops over; 1 for the grouped kernel
  Inputs               \* polynomials, as functions of degree, prime and index

VARIABLES shape, item0, dir, buf, sdata, pc
vars == <<shape, item0, dir, buf, sdata, pc>>

Degree(s)  == 2 ^ s.ld
Items      == 0 .. BatchSize - 1
AllTables  == [s \in Shapes |-> [i \in 1 .. Len(s.moduli) |-> NTTTables(s.ld, s.moduli[i])]]
TableOf(s, k, j) == get(s.kind, k, j, s.decomp, AllTables[s])
PrimeAt(s, i)    == Modulus(s.primes[i \div Degree(s) + 1])   \* what word i is a residue of

(* One launch has a block per 2^logT butterflies. *)
LogThreads(s) == IF s.ld <= THREAD_COUNT_LOG2 THEN s.ld - 1 ELSE THREAD_COUNT_LOG2
ThreadsOf(s)    == 0 .. 2 ^ LogThreads(s) - 1
BlocksPer(s)  == 2 ^ (s.ld - 1 - LogThreads(s))
Blocks(s)     == 0 .. s.pcount * s.components * BlocksPer(s) - 1

Group(s, d, lower) ==
  [dir |-> d, ld |-> s.ld, logT |-> LogThreads(s), lower |-> lower,
   upper |-> IF s.ld <= THREAD_COUNT_LOG2 \/ lower + THREAD_COUNT_LOG2 > s.ld THEN s.ld
             ELSE lower + THREAD_COUNT_LOG2]

(* What every thread runs, as a list of steps with the barrier after each. *)
Mutantgroup_steps(s, d, item, lower) ==   \* no barrier after the layers
  LET g == Group(s, d, lower)
  IN  <<[op |-> "load", g |-> g, item |-> item, sync |-> "block"]>>
      \o [i \in 1 .. g.upper - lower |->
           [op |-> "layer", g |-> g, item |-> item, layer |-> lower + i - 1, sync |-> "none"]]
      \o <<[op |-> "store", g |-> g, item |-> item,
            sync |-> IF g.upper < s.ld THEN "grid" ELSE "none"]>>
group_steps(s, d, item, lower) ==
  LET g == Group(s, d, lower)
  IN  <<[op |-> "load", g |-> g, item |-> item, sync |-> "block"]>>
      \o [i \in 1 .. g.upper - lower |->
           [op |-> "layer", g |-> g, item |-> item, layer |-> lower + i - 1, sync |-> "block"]]
      \o <<[op |-> "store", g |-> g, item |-> item,
            sync |-> IF g.upper < s.ld THEN "grid" ELSE "none"]>>

Lowers(s) == {l \in 0 .. s.ld - 1 : l % THREAD_COUNT_LOG2 = 0 /\ (s.ld <= THREAD_COUNT_LOG2 => l = 0)}
Program(s, d) ==
  FoldLeft(LAMBDA done, item :
             done \o FoldLeft(LAMBDA p, l : p \o group_steps(s, d, item, l), << >>,
                              SetToSortSeq(Lowers(s), <)),
           << >>, [i \in 1 .. BatchSize |-> i - 1])
Programs == [s \in Shapes |-> [d \in {"to_rev", "from_rev"} |-> Program(s, d)]]
Steps    == Programs[shape][dir]

-----------------------------------------------------------------------------
Reset(s)  == [b \in Blocks(s) |-> [t \in ThreadsOf(s) |-> 0]]
Init ==
  /\ shape \in Shapes
  /\ item0 \in Inputs[shape]
  /\ dir = "to_rev"
  /\ buf = [i \in Items |-> item0]
  /\ sdata = [b \in Blocks(shape) |-> [c \in 0 .. 2 ^ (LogThreads(shape) + 1) - 1 |-> 0]]
  /\ pc = Reset(shape)

(* A thread may start its next step when its last one's barrier is passed. *)
Released(b, t) ==
  LET sync == IF pc[b][t] = 0 THEN "none" ELSE Steps[pc[b][t]].sync
  IN  /\ sync # "none" => \A u \in ThreadsOf(shape) : pc[b][u] >= pc[b][t]
      /\ sync = "grid" => \A c \in Blocks(shape), u \in ThreadsOf(shape) : pc[c][u] >= pc[b][t]

AtStep(b, t, op) ==
  /\ pc[b][t] < Len(Steps)
  /\ Released(b, t)
  /\ Steps[pc[b][t] + 1].op = op
Advance(b, t) == pc' = [pc EXCEPT ![b][t] = @ + 1] /\ UNCHANGED <<shape, item0, dir>>

Poly(b)       == b \div (shape.components * BlocksPer(shape))
Component(b)  == (b \div BlocksPer(shape)) % shape.components
BlockIdx(b)   == b % BlocksPer(shape)
Table(b)      == TableOf(shape, Poly(b), Component(b))
Offset(b)     == (Poly(b) * shape.components + Component(b)) * Degree(shape)

Load(b, t) ==
  /\ AtStep(b, t, "load")
  /\ LET s == Steps[pc[b][t] + 1]
         e == EPower(s.g)
     IN  sdata' = [sdata EXCEPT
           ![b][SharedX(e, t)] = buf[s.item][Offset(b) + FromX(s.g, BlockIdx(b), t)],
           ![b][SharedY(e, t)] = buf[s.item][Offset(b) + FromY(s.g, BlockIdx(b), t)]]
  /\ Advance(b, t)
  /\ UNCHANGED buf

Layer(b, t) ==
  /\ AtStep(b, t, "layer")
  /\ LET s  == Steps[pc[b][t] + 1]
         e  == EPower(s.g) - layer_shift(s.g, s.layer)
         x  == sdata[b][SharedX(e, t)]
         y  == sdata[b][SharedY(e, t)]
         id == RootIndex(s.g, s.layer, BlockIdx(b), t)
         out == IF dir = "to_rev"
                THEN ToRevButterfly(x, y, Table(b).root_powers[id], Table(b).modulus)
                ELSE FromRevButterfly(x, y, Table(b).inv_root_powers[id], Table(b).modulus)
     IN  sdata' = [sdata EXCEPT ![b][SharedX(e, t)] = out[1], ![b][SharedY(e, t)] = out[2]]
  /\ Advance(b, t)
  /\ UNCHANGED buf

stored(s, w, tab) ==
  LET r == ntt_transfer_last_reduce(w, tab.modulus)
  IN  IF s.g.dir = "from_rev" /\ s.g.upper = s.g.ld THEN MultiplyInvDegreeLazily(r, tab) ELSE r
Store(b, t) ==
  /\ AtStep(b, t, "store")
  /\ LET s == Steps[pc[b][t] + 1]
         e == EPower(s.g)
         x == stored(s, sdata[b][SharedX(e, t)], Table(b))
         y == stored(s, sdata[b][SharedY(e, t)], Table(b))
     IN  /\ sdata' = [sdata EXCEPT ![b][SharedX(e, t)] = x, ![b][SharedY(e, t)] = y]
         /\ buf' = [buf EXCEPT ![s.item][Offset(b) + FromX(s.g, BlockIdx(b), t)] = x,
                               ![s.item][Offset(b) + FromY(s.g, BlockIdx(b), t)] = y]
  /\ Advance(b, t)

(* stream_sync: the host goes on when every thread is through. *)
Finished == \A b \in Blocks(shape), t \in ThreadsOf(shape) : pc[b][t] = Len(Steps)
LaunchInverse ==
  /\ Finished /\ dir = "to_rev"
  /\ dir' = "from_rev" /\ pc' = Reset(shape)
  /\ UNCHANGED <<shape, item0, buf, sdata>>

ThreadStep == \E b \in Blocks(shape), t \in ThreadsOf(shape) :
                Load(b, t) \/ Layer(b, t) \/ Store(b, t)
Next == ThreadStep \/ LaunchInverse

-----------------------------------------------------------------------------
Reference(s, f) ==   \* the values at the odd powers of the root, bit-reversed
  [i \in DOMAIN f |->
    LET n    == Degree(s)
        m    == PrimeAt(s, i)
        base == (i \div n) * n
        w(c) == exponentiate_uint64_mod(try_minimal_primitive_root(2 * n, m),
                  ((2 * reverse_bits_uint64(i % n, s.ld) + 1) * c) % (2 * n), m)
    IN  MapThenSumSet(LAMBDA c : f[base + c] * w(c), 0 .. n - 1) % m.value]
References == [s \in Shapes |-> [f \in Inputs[s] |-> Reference(s, f)]]

(* Whatever the order of the threads, the forward transform of every item  *)
(* is its values at the odd powers of the root, in bit-reversed order and  *)
(* fully reduced: a layer never reads a word its barrier did not wait for, *)
(* and every component meets the table of its own prime                    *)
(* (device_ntt_transfer_to_rev_layers).                                    *)
ForwardEvaluates ==
  (Finished /\ dir = "to_rev") => \A i \in Items : buf[i] = References[shape][item0]

(* The inverse gives back the polynomial, reduced, although its last       *)
(* product by 1/N is left lazy (device_ntt_transfer_from_rev_layers).      *)
InverseReturns ==
  (Finished /\ dir = "from_rev") => \A i \in Items : buf[i] = item0

(* Host and device agree word for word in both directions, so a ciphertext *)
(* can move between them (ntt, intt).                                      *)
Slice(s, f, o) == [c \in 0 .. Degree(s) - 1 |-> f[o * Degree(s) + c]]
DeviceAgrees ==
  (Finished /\ Cardinality(Items) = 1) =>
    \A k \in 0 .. shape.pcount - 1, j \in 0 .. shape.components - 1 :
      LET o == k * shape.components + j
          t == TableOf(shape, k, j)
          fwd == host_ntt(Slice(shape, item0, o), shape.ld, t)
      IN  Slice(shape, buf[0], o)
            = IF dir = "to_rev" THEN fwd ELSE host_intt(fwd, shape.ld, t)

(* No word in shared memory ever reaches four times its modulus, so the    *)
(* sums and differences of the butterflies do not wrap around: the lazy    *)
(* reductions of one layer feed the next one exactly.                      *)
WordsLazy ==
  \A b \in Blocks(shape) : \A c \in DOMAIN sdata[b] :
    sdata[b][c] < 4 * Table(b).modulus.value

SharedCells(s, t) ==
  LET e == EPower(s.g) - (IF s.op = "layer" THEN layer_shift(s.g, s.layer) ELSE 0)
  IN  {SharedX(e, t), SharedY(e, t)}
GlobalCells(s, b, t) == {Offset(b) + FromX(s.g, BlockIdx(b), t), Offset(b) + FromY(s.g, BlockIdx(b), t)}
Pending(b, t) == pc[b][t] < Len(Steps) /\ Released(b, t)

(* Until a launch is through, some thread may go on: no barrier waits for  *)
(* a thread that itself waits, so the launch, whose threads never step     *)
(* back, comes to its end.                                                 *)
SomeThreadRuns == Finished \/ \E b \in Blocks(shape), t \in ThreadsOf(shape) : Pending(b, t)

(* Two threads of a block never write the same shared word between two     *)
(* barriers, and two threads of the grid never the same word of the        *)
(* result.                                                                 *)
WritesDisjoint ==
  \A b, c \in Blocks(shape), t, u \in ThreadsOf(shape) :
    (<<b, t>> # <<c, u>> /\ Pending(b, t) /\ Pending(c, u)) =>
      LET p == Steps[pc[b][t] + 1]
          q == Steps[pc[c][u] + 1]
      IN  /\ b = c => SharedCells(p, t) \cap SharedCells(q, u) = {}
          /\ (p.op = "store" /\ q.op = "store" /\ p.item = q.item)
               => GlobalCells(p, b, t) \cap GlobalCells(q, c, u) = {}
=============================================================================

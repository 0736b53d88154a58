---------------------------------- MODULE Ntt ----------------------------------
(***************************************************************************)
(* The negacyclic number theoretic transform (utils/ntt, fgk/ntt_grouped): *)
(* tables of powers of a root of x^N + 1 in bit-reversed order, one layer  *)
(* of butterflies after another, on words that are kept below four times   *)
(* the modulus and reduced at the end only.                                *)
(***************************************************************************)
EXTENDS SmallMod

Shr(x, p) == x \div 2 ^ p
Shl(x, p) == x * 2 ^ p
Low(x, p) == x % 2 ^ p   \* x & ((1 << p) - 1)

reverse_bits_uint64(x, bits) ==
  MapThenSumSet(LAMBDA i : Low(Shr(x, i), 1) * 2 ^ (bits - 1 - i), 0 .. bits - 1)

try_minimal_primitive_root(degree, m) ==
  CHOOSE r \in 2 .. m.value - 1 :
    /\ exponentiate_uint64_mod(r, degree \div 2, m) = m.value - 1
    /\ \A s \in 2 .. r - 1 : exponentiate_uint64_mod(s, degree \div 2, m) # m.value - 1

NTTTables(ld, q) ==
  LET m        == Modulus(q)
      n        == 2 ^ ld
      root     == try_minimal_primitive_root(2 * n, m)
      inv_root == try_invert_uint64_mod(root, q)
      power(r, e) == MultiplyUint64Operand(exponentiate_uint64_mod(r, e, m), m)
      at(i)    == reverse_bits_uint64(i, ld)
  IN  [modulus         |-> m,
       root_powers     |-> [i \in 0 .. n - 1 |-> power(root, at(i))],
       inv_root_powers |-> [i \in 0 .. n - 1 |->
                             IF i = 0 THEN MultiplyUint64Operand(1, m)
                             ELSE power(inv_root, at(i - 1) + 1)],
       inv_degree      |-> MultiplyUint64Operand(try_invert_uint64_mod(n, q), m)]

-----------------------------------------------------------------------------
(* The two butterflies, and the reduction of a word below 4q. *)

ToRevButterfly(x, y, r, m) ==
  LET two == 2 * m.value
      u   == IF x >= two THEN x - two ELSE x
      v   == multiply_uint64operand_mod_lazy(y, r, m)
  IN  <<(u + v) % B, (u + two - v) % B>>

FromRevButterfly(u, v, r, m) ==
  LET two == 2 * m.value
      sum == (u + v) % B
  IN  <<IF sum > two THEN sum - two ELSE sum,
        multiply_uint64operand_mod_lazy((u + two - v) % B, r, m)>>

ntt_transfer_last_reduce(x, m) ==
  LET y == IF x >= 2 * m.value THEN x - 2 * m.value ELSE x
  IN  CorrectOnce(y, m)

MultiplyInvDegreeLazily(x, t) == multiply_uint64operand_mod_lazy(x, t.inv_degree, t.modulus)

ntt_multiply_inv_degree(x, t, scalar) ==
  multiply_uint64_mod(MultiplyInvDegreeLazily(x, t), scalar, t.modulus)

(* The host's layers, on one polynomial modulo one prime. *)
host_ntt_transfer_to_rev_layer(layer, f, ld, t) ==
  LET gap_power == ld - layer - 1
      pair(c)   == IF Low(Shr(c, gap_power), 1) = 0 THEN <<c, c + 2 ^ gap_power>>
                   ELSE <<c - 2 ^ gap_power, c>>
      rid(c)    == 2 ^ layer + Shr(c, gap_power + 1)
      out(c)    == ToRevButterfly(f[pair(c)[1]], f[pair(c)[2]], t.root_powers[rid(c)], t.modulus)
                     [IF pair(c)[1] = c THEN 1 ELSE 2]
  IN  [c \in 0 .. 2 ^ ld - 1 |->
        IF layer = ld - 1 THEN ntt_transfer_last_reduce(out(c), t.modulus) ELSE out(c)]

host_ntt_transfer_from_rev_layer(layer, f, ld, t) ==
  LET m       == 2 ^ (ld - layer - 1)
      pair(c) == IF Low(Shr(c, layer), 1) = 0 THEN <<c, c + 2 ^ layer>> ELSE <<c - 2 ^ layer, c>>
      rid(c)  == 2 ^ ld - 2 * m + 1 + Shr(c, layer + 1)
      out(c)  == FromRevButterfly(f[pair(c)[1]], f[pair(c)[2]], t.inv_root_powers[rid(c)], t.modulus)
                   [IF pair(c)[1] = c THEN 1 ELSE 2]
  IN  [c \in 0 .. 2 ^ ld - 1 |->
        IF layer = ld - 1
        THEN MultiplyInvDegreeLazily(ntt_transfer_last_reduce(out(c), t.modulus), t)
        ELSE out(c)]

host_ntt(f, ld, t) ==
  LET after[l \in 0 .. ld] ==
        IF l = 0 THEN f
        ELSE LET prev == after[l - 1] IN host_ntt_transfer_to_rev_layer(l - 1, prev, ld, t)
  IN  after[ld]

host_intt(f, ld, t) ==
  LET after[l \in 0 .. ld] ==
        IF l = 0 THEN f
        ELSE LET prev == after[l - 1] IN host_ntt_transfer_from_rev_layer(l - 1, prev, ld, t)
  IN  after[ld]

-----------------------------------------------------------------------------
(* Which prime a component is transformed with. *)

get(kind, k, j, decomp, tables) ==
  CASE kind = "Componentwise"           -> tables[j + 1]
    [] kind = "KeySwitchingSetProducts" -> tables[IF k = decomp THEN Len(tables) ELSE k + 1]
    [] kind = "KeySwitchingSkipFinals"  -> tables[IF j = decomp THEN Len(tables) ELSE j + 1]

-----------------------------------------------------------------------------
(* A thread of a kernel.  g names a group of layers: direction, degree,    *)
(* block size and the layers lower .. upper - 1.  The block copies 2T      *)
(* words, a stride apart, to its shared memory, and works there.           *)

LayerGap(g)     == IF g.dir = "to_rev" THEN g.ld - g.lower - 1 ELSE g.upper - 1
EPower(g)       == IF g.logT < LayerGap(g) THEN g.logT ELSE LayerGap(g)
StridePower(g)  == LayerGap(g) - EPower(g)

FromX(g, block, thread) ==
  Shl(Shr(thread, EPower(g)), LayerGap(g) + 1)
    + Shl(Low(thread, EPower(g)), StridePower(g))
    + Low(block, StridePower(g))
    + Shl(Shr(block, StridePower(g)) * Shr(2 ^ g.logT, EPower(g)), LayerGap(g) + 1)
FromY(g, block, thread) == FromX(g, block, thread) + 2 ^ LayerGap(g)

SharedX(e, thread) == 2 * (thread - Low(thread, e)) + Low(thread, e)
SharedY(e, thread) == SharedX(e, thread) + 2 ^ e

(* How far the exponents have moved when the block is at a layer. *)
layer_shift(g, layer) ==
  IF g.dir = "to_rev" THEN layer - g.lower ELSE g.upper - 1 - layer

MutantRootIndex(g, layer, block, thread) ==   \* the block's place among the strides is left out
  LET e == EPower(g) - layer_shift(g, layer)
  IN  (IF g.dir = "to_rev" THEN 2 ^ layer ELSE 2 ^ g.ld - 2 ^ (g.ld - layer) + 1) + Shr(thread, e)
RootIndex(g, layer, block, thread) ==
  LET e      == EPower(g) - layer_shift(g, layer)
      gap    == LayerGap(g) - layer_shift(g, layer)
      offset == Low(block, StridePower(g))
                  + Shl(Shr(block, StridePower(g)) * Shr(2 ^ g.logT, EPower(g)), LayerGap(g))
  IN  (IF g.dir = "to_rev" THEN 2 ^ layer ELSE 2 ^ g.ld - 2 ^ (g.ld - layer) + 1)
        + Shr(thread, e) + Shr(Shl(Low(thread, e), StridePower(g)) + offset, gap)
=============================================================================

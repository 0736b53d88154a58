--------------------------- MODULE RandomGenerator ---------------------------
(***************************************************************************)
(* RandomGenerator: a stream of blocks, each the encryption of a counter   *)
(* under a seed, and the samplers that take bytes, words and coefficients  *)
(* from it.  A program makes the same calls on three generators: on the    *)
(* host, on the device one buffer at a time, and on the device with the    *)
(* batched forms.  The cipher is taken to be injective: a block is the     *)
(* seed and the counter it was made from, a byte is a block and a place,   *)
(* and what a sampler makes of them names them.                            *)
(***************************************************************************)
EXTENDS Integers, Sequences

CONSTANTS
  BlockBytes, WordBytes,   \* sizeof(ruint128_t) and sizeof(uint64_t)
  HalfBits,                \* bits of low and of high
  Seeds, Counters,         \* what the generators are set to
  Lengths, Degrees, Batches,
  ModulusCount,
  BATCH_OP_THRESHOLD,
  MaxCalls                 \* bound: calls after the last setting

VARIABLES gens, outs, drawn, again, kinds, calls, refused
vars == <<gens, outs, drawn, again, kinds, calls, refused>>

-----------------------------------------------------------------------------
(* ruint128_t. *)
Half == 2 ^ HalfBits
Mutantadd(c, v) == [low |-> (c.low + v) % Half, high |-> c.high]
add(c, v) ==
  LET low == (c.low + v) % Half
  IN  [low |-> low, high |-> (c.high + (IF low < c.low THEN 1 ELSE 0)) % Half]
increase_inplace(c) ==
  LET low == (c.low + 1) % Half
  IN  [low |-> low, high |-> IF low = 0 THEN (c.high + 1) % Half ELSE c.high]
increased(c, n) == LET r[i \in 0 .. n] == IF i = 0 THEN c ELSE increase_inplace(r[i - 1]) IN r[n]
ceil_div(a, b) == (a + b - 1) \div b

encrypt(seed, c) == <<seed, c>>
byte_at(block, i) == [of |-> block, at |-> i]
BytesOf(blocks) ==
  [x \in 1 .. Len(blocks) * BlockBytes |-> byte_at(blocks[1 + (x - 1) \div BlockBytes], (x - 1) % BlockBytes)]
Blank == [seed |-> 0, counter |-> [low |-> 0, high |-> 0]]
Put(buffer, g) == [buffer |-> buffer, gen |-> g]

-----------------------------------------------------------------------------
(* Blocks, one after the other on the host, all at once on the device. *)
fill_uint128s(g, n, device) ==
  Put(BytesOf([i \in 1 .. n |-> encrypt(g.seed, IF device THEN add(g.counter, i - 1) ELSE increased(g.counter, i - 1))]),
      [g EXCEPT !.counter = IF device THEN add(@, n) ELSE increased(@, n)])
host_generate_uint128(g) ==
  Put(encrypt(g.seed, g.counter), [g EXCEPT !.counter = increase_inplace(@)])

(* The bytes of a last, broken block come from the host. *)
fill_bytes(g, length, device) ==
  LET main == fill_uint128s(g, length \div BlockBytes, device)
      tail == length % BlockBytes
      last == host_generate_uint128(main.gen)
  IN  IF tail = 0 THEN main
      ELSE Put(main.buffer \o [i \in 1 .. tail |-> byte_at(last.buffer, i - 1)], last.gen)

fill_uint128s_batched(g, n, count, skip_one) ==
  [k \in 1 .. count |->
     LET ci == add(g.counter, (k - 1) * (n + (IF skip_one THEN 1 ELSE 0)))
     IN  BytesOf([i \in 1 .. n |-> encrypt(g.seed, add(ci, i - 1))])]
fill_bytes_batched_tail(g, length, k) ==
  LET interval == length \div BlockBytes + 1
      value == encrypt(g.seed, add(g.counter, interval * k - 1))
  IN  [i \in 1 .. length % BlockBytes |-> byte_at(value, i - 1)]
fill_bytes_batched(g, length, count) ==
  LET main == length \div BlockBytes
      tail == length % BlockBytes
      mains == fill_uint128s_batched(g, main, count, tail > 0)
  IN  Put([k \in 1 .. count |-> mains[k] \o fill_bytes_batched_tail(g, length, k)],
          [g EXCEPT !.counter = add(@, count * (main + (IF tail > 0 THEN 1 ELSE 0)))])

(* One seed for each buffer, every counter from zero. *)
fill_bytes_many(seeds, length) ==
  [k \in 1 .. Len(seeds) |-> fill_uint128s_batched([Blank EXCEPT !.seed = seeds[k]], length \div BlockBytes, 1, FALSE)[1]
                             \o fill_bytes_batched_tail([Blank EXCEPT !.seed = seeds[k]], length, 1)]

(* Words, reduced modulo the prime of their component. *)
modulo(bytes, degree) ==
  [x \in 1 .. degree * ModulusCount |->
     [draw |-> "uniform", of |-> SubSeq(bytes, (x - 1) * WordBytes + 1, x * WordBytes), prime |-> 1 + (x - 1) \div degree]]
UniformBytes(degree) == degree * ModulusCount * WordBytes
sample_poly_uniform(g, degree, device) ==
  LET r == fill_bytes(g, UniformBytes(degree), device) IN Put(modulo(r.buffer, degree), r.gen)
sample_poly_uniform_batched(g, degree, count) ==
  LET r == fill_bytes_batched(g, UniformBytes(degree), count)
  IN  Put([k \in 1 .. count |-> modulo(r.buffer[k], degree)], r.gen)

(* Small coefficients, the same in every component. *)
Components(draw, degree, Source(_)) ==
  [x \in 1 .. degree * ModulusCount |->
     [draw |-> draw, of |-> Source((x - 1) % degree), prime |-> 1 + (x - 1) \div degree]]

(* On the host a block for each coefficient, as for the noise; on the      *)
(* device a byte for each.                                                 *)
device_sample_poly_ternary(g, degree, counter) ==
  LET Byte(j) == <<byte_at(encrypt(g.seed, add(counter, j \div BlockBytes)), j % BlockBytes)>>
  IN  Components("ternary", degree, Byte)
device_sample_poly_centered_binomial(g, degree, counter) ==
  LET Block(j) == BytesOf(<<encrypt(g.seed, add(counter, j))>>)
  IN  Components("binomial", degree, Block)
HostBinomial(g, degree) ==
  LET Block(j) == BytesOf(<<encrypt(g.seed, increased(g.counter, j))>>)
  IN  Put(Components("binomial", degree, Block), [g EXCEPT !.counter = increased(@, degree)])

sample_poly_ternary(g, degree, device) ==
  IF ~device THEN HostBinomial(g, degree)
  ELSE Put(device_sample_poly_ternary(g, degree, g.counter), [g EXCEPT !.counter = add(@, ceil_div(degree, BlockBytes))])
sample_poly_ternary_batched(g, degree, count) ==
  LET step == ceil_div(degree, BlockBytes)
  IN  Put([k \in 1 .. count |-> device_sample_poly_ternary(g, degree, add(g.counter, step * (k - 1)))],
          [g EXCEPT !.counter = add(@, step * count)])

(* The device takes a block for each coefficient and goes on by half as    *)
(* many.                                                                   *)
sample_poly_centered_binomial(g, degree, device) ==
  IF ~device THEN HostBinomial(g, degree)
  ELSE Put(device_sample_poly_centered_binomial(g, degree, g.counter), [g EXCEPT !.counter = add(@, ceil_div(degree, 2))])
sample_poly_centered_binomial_batched(g, degree, count) ==
  LET step == ceil_div(degree, 2)
  IN  Put([k \in 1 .. count |-> device_sample_poly_centered_binomial(g, degree, add(g.counter, step * (k - 1)))],
          [g EXCEPT !.counter = add(@, step * count)])

-----------------------------------------------------------------------------
Places == {"host", "device", "batched"}
Empty  == [p \in Places |-> << >>]
Fresh(seed, c) ==
  /\ gens = [p \in Places |-> [seed |-> seed, counter |-> c]]
  /\ outs = Empty /\ drawn = [p \in Places |-> {}] /\ again = [p \in Places |-> FALSE] /\ kinds = {}
Init == calls = 0 /\ refused = FALSE /\ \E seed \in Seeds : Fresh(seed, Blank.counter)

(* Buffers one by one: what the loops of the batched forms do on the host, *)
(* and for fewer than BATCH_OP_THRESHOLD buffers.                          *)
OneByOne(g, count, Single(_)) ==
  LET r[k \in 0 .. count] ==
        IF k = 0 THEN Put(<< >>, g)
        ELSE LET prev == r[k - 1]
                 one  == Single(prev.gen)
             IN  Put(Append(prev.buffer, one.buffer), one.gen)
  IN  r[count]

BlocksIn(buffer) ==
  UNION {LET v == buffer[x] IN IF "draw" \in DOMAIN v THEN {v.of[y].of : y \in DOMAIN v.of} ELSE {v.of} :
           x \in DOMAIN buffer}
Repeats(p, buffers) ==
  \E k \in DOMAIN buffers : \/ BlocksIn(buffers[k]) \cap drawn[p] # {}
                            \/ \E l \in 1 .. k - 1 : BlocksIn(buffers[k]) \cap BlocksIn(buffers[l]) # {}
Called(kind, results) ==
  /\ gens' = [p \in Places |-> results[p].gen]
  /\ outs' = [p \in Places |-> results[p].buffer]
  /\ drawn' = [p \in Places |-> drawn[p] \cup UNION {BlocksIn(results[p].buffer[k]) : k \in DOMAIN results[p].buffer}]
  /\ again' = [p \in Places |-> again[p] \/ Repeats(p, results[p].buffer)]
  /\ kinds' = kinds \cup {kind}
  /\ calls' = calls + 1 /\ UNCHANGED refused
Ready == calls < MaxCalls /\ ~refused

(* The three ways of one call. *)
Ways(count, OnHost(_), OnDevice(_), many) ==
  [p \in Places |-> IF p = "host" THEN OneByOne(gens[p], count, OnHost)
                    ELSE IF p = "device" \/ count < BATCH_OP_THRESHOLD THEN OneByOne(gens[p], count, OnDevice)
                    ELSE many]
FillBytes(length, count) ==
  LET H(g) == fill_bytes(g, length, FALSE)
      D(g) == fill_bytes(g, length, TRUE)
  IN  Ready /\ Called("bytes", Ways(count, H, D, fill_bytes_batched(gens["batched"], length, count)))
SampleUniform(degree, count) ==
  LET H(g) == sample_poly_uniform(g, degree, FALSE)
      D(g) == sample_poly_uniform(g, degree, TRUE)
  IN  Ready /\ Called("uniform", Ways(count, H, D, sample_poly_uniform_batched(gens["batched"], degree, count)))
SampleTernary(degree, count) ==
  LET H(g) == sample_poly_ternary(g, degree, FALSE)
      D(g) == sample_poly_ternary(g, degree, TRUE)
  IN  Ready /\ Called("ternary", Ways(count, H, D, sample_poly_ternary_batched(gens["batched"], degree, count)))
SampleBinomial(degree, count) ==
  LET H(g) == sample_poly_centered_binomial(g, degree, FALSE)
      D(g) == sample_poly_centered_binomial(g, degree, TRUE)
  IN  Ready /\ Called("binomial", Ways(count, H, D, sample_poly_centered_binomial_batched(gens["batched"], degree, count)))
SampleUint64 ==
  LET One(g) == LET r == host_generate_uint128(g)
                IN  Put([i \in 1 .. WordBytes |-> byte_at(r.buffer, i - 1)], r.gen)
  IN  Ready /\ Called("word", [p \in Places |-> OneByOne(gens[p], 1, One)])
(* A static method: the generators stay as they are. *)
FillMany(seeds, length) ==
  LET Own(k, device) == fill_bytes([Blank EXCEPT !.seed = seeds[k]], length, device).buffer
      Each(device) == [k \in DOMAIN seeds |-> Own(k, device)]
  IN  /\ Ready
      /\ outs' = [p \in Places |-> IF p = "host" THEN Each(FALSE)
                                   ELSE IF p = "device" \/ Len(seeds) < BATCH_OP_THRESHOLD THEN Each(TRUE)
                                   ELSE fill_bytes_many(seeds, length)]
      /\ calls' = calls + 1 /\ UNCHANGED <<gens, drawn, again, kinds, refused>>
(* Buffers of different lengths. *)
FillUneven == Ready /\ refused' = TRUE /\ UNCHANGED <<gens, outs, drawn, again, kinds, calls>>

(* reset_seed and set_counter: the caller begins again. *)
Begin(seed, c) ==
  /\ ~refused /\ calls = 0 /\ calls' = 0 /\ UNCHANGED refused
  /\ gens' = [p \in Places |-> [seed |-> seed, counter |-> c]]
  /\ outs' = Empty /\ drawn' = [p \in Places |-> {}] /\ again' = [p \in Places |-> FALSE] /\ kinds' = {}

Next ==
  \/ \E n \in Batches :
       \/ \E l \in Lengths : FillBytes(l, n)
       \/ \E d \in Degrees : SampleUniform(d, n) \/ SampleTernary(d, n) \/ SampleBinomial(d, n)
  \/ SampleUint64
  \/ \E l \in Lengths : \E n \in Batches : \E s \in [1 .. n -> Seeds] : FillMany(s, l)
  \/ FillUneven
  \/ \E s \in Seeds, c \in Counters : Begin(s, c)
Spec == Init /\ [][Next]_vars

-----------------------------------------------------------------------------
(* random_generator.cu: the batched forms draw what the same calls one by  *)
(* one would draw and leave the counter where those would; bytes, words    *)
(* and uniform samples are the same on the host and on the device; and no  *)
(* block is drawn twice, on the host by any sampler, on the device unless  *)
(* noise was sampled there.                                                *)
StreamsConsistent ==
  /\ outs["batched"] = outs["device"] /\ gens["batched"] = gens["device"]
  /\ kinds \cap {"ternary", "binomial"} = {} => outs["host"] = outs["device"] /\ gens["host"] = gens["device"]
  /\ ~again["host"]
  /\ again["device"] => "binomial" \in kinds

(* What test/utils/random_generator.cu asserts: the host and the device    *)
(* draw the same samples and their counters stay equal.                    *)
SamplersAgree == outs["host"] = outs["device"] /\ gens["host"].counter = gens["device"].counter
=============================================================================

-------------------------------- MODULE Linear --------------------------------
(***************************************************************************)
(* Matrix products and convolutions on encrypted data (encryption/app:     *)
(* matmul.cu, conv2d.cu, cipher2d.cu, encoder_adapter.h).  A helper cuts   *)
(* the operands into blocks that fit a polynomial and places their entries *)
(* so that one product of polynomials computes a whole block; the results  *)
(* come out at known coefficients.  A ciphertext is the polynomial it      *)
(* hides, over the integers modulo a prime, with what decides whether a    *)
(* call accepts it and how it decodes: its form, a seed not yet expanded,  *)
(* its number of polynomials, and deltas, how often the encoding's scale   *)
(* factor is in it (BFV: Delta; CKKS: the scale, kept in the header).      *)
(***************************************************************************)
EXTENDS Integers, Sequences, FiniteSets, FiniteSetsExt

CONSTANTS
  LogN, P,
  X, W, Bias,   \* the entries of the operands and of what is added, in the caller's order
  Jobs          \* the products asked for: op, sizes, objective, encoder, which side is encrypted

VARIABLES job, lhs, rhs, prods, shape, shares, stage, answer
vars == <<job, lhs, rhs, prods, shape, shares, stage, answer>>

slot_count == 2 ^ LogN
ceil_div(a, b) == (a + b - 1) \div b
Lesser(a, b) == IF a < b THEN a ELSE b
Huge == 2147483647
SchemeOf(enc) == CASE enc = "ckks" -> "CKKS" [] enc = "bgv" -> "BGV" [] OTHER -> "BFV"
AllElements == {2 ^ k + 1 : k \in 1 .. LogN}
Ring == INSTANCE Packing WITH
  Secret <- [x \in 0 .. 2 ^ LogN - 1 |-> 0], Sources <- {}, Terms <- {}, MaxLwes <- 0,
  Lists <- {}, Shifts <- {}, Intervals <- {}, BATCH_OP_THRESHOLD <- 2,
  scheme <- SchemeOf(job.enc), device <- job.device, autoKeys <- AllElements,
  lwes <- << >>, hidden <- << >>, packed <- << >>, expects <- << >>, ended <- "no"
Coeffs == 0 .. slot_count - 1

(* The entry of a polynomial that each cell is written to. *)
Spread(cells, At(_), val(_)) ==
  [x \in Coeffs |-> LET here == {c \in cells : At(c) = x}
                    IN  IF here = {} THEN 0 ELSE val(CHOOSE c \in here : TRUE)]

-----------------------------------------------------------------------------
(* MatmulHelper::determine_block: the first block sizes of least cost.     *)
MatmulCost(j, b, i, o) ==
  LET bc == ceil_div(j.batch, b)
      ic == ceil_div(j.inputs, i)
      oc == ceil_div(j.outputs, o)
  IN  IF j.pack
      THEN CASE j.objective = "EncryptLeft"  -> bc * ic + ceil_div(bc * oc, i)
             [] j.objective = "EncryptRight" -> oc * ic + ceil_div(bc * oc, i)
             [] j.objective = "Crossed"      -> bc * ic + oc * ic + ceil_div(bc * oc, i)
      ELSE CASE j.objective = "EncryptLeft"  -> bc * (ic + oc)
             [] j.objective = "EncryptRight" -> (bc + ic) * oc
             [] j.objective = "Crossed"      -> bc * j.inputs + (bc + ic) * oc
NoBlocks == [b |-> 0, i |-> 0, o |-> 0, cost |-> Huge]
Improved(best, j, b, i) ==
  LET o == Lesser((slot_count \div b) \div i, j.outputs)
      cost == MatmulCost(j, b, i, o)
  IN  IF o < 1 THEN best
      ELSE IF cost >= best.cost THEN best ELSE [b |-> b, i |-> i, o |-> o, cost |-> cost]
(* pow(slot_count, 0.33), compared with powers of two. *)
PackBlock(j) ==
  LET small == 2 ^ Max({0} \cup {k \in 1 .. LogN : 100 * k < 33 * LogN})
  IN  IF small > j.inputs THEN 2 ^ Min({k \in 0 .. LogN : j.inputs <= 2 ^ k}) ELSE small
determine_block(j) ==
  IF j.pack
  THEN LET scan[b \in 0 .. j.batch] ==
             IF b = 0 THEN NoBlocks
             ELSE LET best == scan[b - 1]
                  IN  IF b > slot_count THEN best ELSE Improved(best, j, b, PackBlock(j))
       IN  scan[j.batch]
  ELSE LET scan[b \in 1 .. j.batch + 1] ==
             IF b > j.batch THEN NoBlocks
             ELSE LET best == scan[b + 1]
                      row[i \in 0 .. (slot_count \div b) - 1] ==
                        IF i = 0 THEN best
                        ELSE LET prev == row[i - 1]
                             IN  IF i > j.inputs THEN prev ELSE Improved(prev, j, b, i)
                  IN  IF b >= slot_count \/ 2 * ceil_div(j.batch, b) > best.cost THEN best
                      ELSE row[(slot_count \div b) - 1]
       IN  scan[1]

(* Conv2dHelper::determine_block: larger blocks are tried first. *)
ConvCost(j, b, h, w, ci, co) ==
  LET tiles == ceil_div(j.batch, b) * ceil_div(j.height - j.kh + 1, h - j.kh + 1)
                                    * ceil_div(j.width - j.kw + 1, w - j.kw + 1)
      ic == ceil_div(j.inputs, ci)
      oc == ceil_div(j.outputs, co)
  IN  CASE j.objective = "EncryptLeft"  -> tiles * ic + tiles * oc
        [] j.objective = "EncryptRight" -> ic * oc + tiles * oc
        [] j.objective = "Crossed"      -> tiles * oc + tiles * ic + ic * oc
ConvRank(c) == ((c.b * (slot_count + 1) + c.h) * (slot_count + 1) + c.w) * (slot_count + 1) + c.co
ConvCandidates(j) ==
  LET Room(b, h, w, co) == (((slot_count \div b) \div h) \div w) \div co
      fits == {s \in (1 .. j.batch) \X (j.kh .. j.height) \X (j.kw .. j.width) \X (1 .. j.outputs) :
                 s[1] * s[2] * s[3] * s[4] <= slot_count}
  IN  {LET ci == Lesser(Room(s[1], s[2], s[3], s[4]), j.inputs)
       IN  [b |-> s[1], h |-> s[2], w |-> s[3], co |-> s[4], ci |-> ci,
            cost |-> ConvCost(j, s[1], s[2], s[3], ci, s[4])] : s \in fits}
conv_determine_block(j) ==
  LET all  == ConvCandidates(j)
      best == {c \in all : \A d \in all : c.cost <= d.cost}
  IN  CHOOSE c \in best : \A d \in best : ConvRank(d) <= ConvRank(c)

Blocks(j) == IF j.op = "matmul" THEN determine_block(j) ELSE conv_determine_block(j)

-----------------------------------------------------------------------------
(* Where the entries go.  A cell is <<row, column>> of a matrix, or        *)
(* <<image, channel, row, column>>.                                        *)
From(l, u) == {v \in l .. u : v < u}
encode_inputs_small(j, s, li, lj) ==
  LET ui == Lesser(li + s.b, j.batch)
      uj == Lesser(lj + s.i, j.inputs)
      At(c) == (c[1] - li) * s.i * s.o + (c[2] - lj)
      Entry(c) == X[c[1] * j.inputs + c[2]]
  IN  Spread(From(li, ui) \X From(lj, uj), At, Entry)
encode_weights_small(j, s, li, lj) ==
  LET ui == Lesser(li + s.i, j.inputs)
      uj == Lesser(lj + s.o, j.outputs)
      At(c) == (c[2] - lj) * s.i + s.i - (c[1] - li) - 1
      Entry(c) == W[c[1] * j.outputs + c[2]]
  IN  Spread(From(li, ui) \X From(lj, uj), At, Entry)
MatmulInputs(j, s) ==
  [di \in 1 .. ceil_div(j.batch, s.b) |-> [dj \in 1 .. ceil_div(j.inputs, s.i) |->
     encode_inputs_small(j, s, (di - 1) * s.b, (dj - 1) * s.i)]]
MatmulWeights(j, s) ==
  [di \in 1 .. ceil_div(j.inputs, s.i) |-> [dj \in 1 .. ceil_div(j.outputs, s.o) |->
     encode_weights_small(j, s, (di - 1) * s.i, (dj - 1) * s.o)]]
MatmulPlace(j, s, c) ==
  LET di == c[1] \div s.b
      dj == c[2] \div s.o
      base == (c[1] % s.b) * s.i * s.o + (c[2] % s.o) * s.i
      cipherId == di * ceil_div(j.outputs, s.o) + dj
  IN  IF j.pack THEN <<1, cipherId \div s.i + 1, base + (cipherId % s.i)>>
      ELSE <<di + 1, dj + 1, base + s.i - 1>>

(* Tiles of an image overlap by the kernel's size less one. *)
TilesDown(j, s) == ceil_div(j.height - (j.kh - 1), s.h - (j.kh - 1))
TilesAcross(j, s) == ceil_div(j.width - (j.kw - 1), s.w - (j.kw - 1))
get_total_batch_size(j, s) == ceil_div(j.batch, s.b) * TilesDown(j, s) * TilesAcross(j, s)
ConvInputs(j, s) ==
  [g \in 1 .. get_total_batch_size(j, s) |-> [k \in 1 .. ceil_div(j.inputs, s.ci) |->
     LET tiles == TilesDown(j, s) * TilesAcross(j, s)
         lb  == ((g - 1) \div tiles) * s.b
         si  == (((g - 1) % tiles) \div TilesAcross(j, s)) * (s.h - (j.kh - 1))
         sj  == ((g - 1) % TilesAcross(j, s)) * (s.w - (j.kw - 1))
         lci == (k - 1) * s.ci
         cells == From(lb, Lesser(lb + s.b, j.batch)) \X From(lci, Lesser(lci + s.ci, j.inputs))
                    \X From(si, Lesser(si + s.h, j.height)) \X From(sj, Lesser(sj + s.w, j.width))
         At(c) == (c[1] - lb) * s.ci * s.co * s.h * s.w + (c[2] - lci) * s.h * s.w
                    + (c[3] - si) * s.w + (c[4] - sj)
         Entry(c) == X[((c[1] * j.inputs + c[2]) * j.height + c[3]) * j.width + c[4]]
     IN  Spread(cells, At, Entry)]]
(* Kernels are turned around, and the channels of a block reversed. *)
ConvWeights(j, s) ==
  [m \in 1 .. ceil_div(j.outputs, s.co) |-> [k \in 1 .. ceil_div(j.inputs, s.ci) |->
     LET loc == (m - 1) * s.co
         lic == (k - 1) * s.ci
         cells == From(loc, Lesser(loc + s.co, j.outputs)) \X From(lic, Lesser(lic + s.ci, j.inputs))
                    \X From(0, j.kh) \X From(0, j.kw)
         At(c) == (c[1] - loc) * s.ci * s.h * s.w + (s.ci - 1 - (c[2] - lic)) * s.h * s.w
                    + c[3] * s.w + c[4]
         Entry(c) == W[((c[1] * j.inputs + c[2]) * j.kh + j.kh - c[3] - 1) * j.kw + j.kw - c[4] - 1]
     IN  Spread(cells, At, Entry)]]
MutantConvPlace(j, s, c) ==   \* the first input channel instead of the last
  LET yh == s.h - j.kh + 1
      yw == s.w - j.kw + 1
      tile == ((c[1] \div s.b) * TilesDown(j, s) + c[3] \div yh) * TilesAcross(j, s) + c[4] \div yw
      mask == ((c[1] % s.b) * s.ci * s.co + (c[2] % s.co) * s.ci) * s.h * s.w
                + (s.h - yh + (c[3] % yh)) * s.w + s.w - yw + (c[4] % yw)
  IN  <<tile + 1, c[2] \div s.co + 1, mask>>
ConvPlace(j, s, c) ==
  LET yh == s.h - j.kh + 1
      yw == s.w - j.kw + 1
      tile == ((c[1] \div s.b) * TilesDown(j, s) + c[3] \div yh) * TilesAcross(j, s) + c[4] \div yw
      mask == ((c[1] % s.b) * s.ci * s.co + (c[2] % s.co) * s.ci + s.ci - 1) * s.h * s.w
                + (s.h - yh + (c[3] % yh)) * s.w + s.w - yw + (c[4] % yw)
  IN  <<tile + 1, c[2] \div s.co + 1, mask>>

Outputs(j) == IF j.op = "matmul" THEN From(0, j.batch) \X From(0, j.outputs)
              ELSE From(0, j.batch) \X From(0, j.outputs)
                     \X From(0, j.height - j.kh + 1) \X From(0, j.width - j.kw + 1)
OutputIndex(j, c) == IF j.op = "matmul" THEN c[1] * j.outputs + c[2]
                     ELSE ((c[1] * j.outputs + c[2]) * (j.height - j.kh + 1) + c[3]) * (j.width - j.kw + 1) + c[4]
Place(j, s, c) == IF j.op = "matmul" THEN MatmulPlace(j, s, c) ELSE ConvPlace(j, s, c)

-----------------------------------------------------------------------------
(* The encoders' adapters: BatchEncoder's plaintexts are modulo t and not  *)
(* lifted to the coefficient modulus, CKKS ones are in NTT form, and the   *)
(* ring encoder scales up what will be a ciphertext (or added to one) and  *)
(* centralizes what a ciphertext will be multiplied by.                    *)
Encode(poly, for_cipher) ==
  [poly |-> poly, ntt |-> job.enc = "ckks", lifted |-> job.enc \in {"ckks", "ring2k"},
   deltas |-> IF job.enc = "ckks" \/ (job.enc = "ring2k" /\ for_cipher) THEN 1 ELSE 0]
ensure_ntt_form(p, centralize) ==
  IF p.ntt THEN p
  ELSE [p EXCEPT !.ntt = TRUE, !.lifted = TRUE,
                 !.deltas = IF p.lifted \/ job.enc = "bgv" \/ centralize THEN @ ELSE 1]
(* Encryptor::encrypt_symmetric_batched, the seed kept. *)
EncryptSymmetric(p) ==
  [poly |-> p.poly, ntt |-> p.ntt, seed |-> TRUE, deltas |-> p.deltas, size |-> 2, known |-> Coeffs]
Each2d(m, f(_)) == [r \in 1 .. Len(m) |-> [c \in 1 .. Len(m[r]) |-> f(m[r][c])]]
Encoded2d(polys, for_cipher) ==
  Each2d(polys, LAMBDA q : ensure_ntt_form(Encode(q, for_cipher), ~for_cipher))
encode_inputs(s) == IF job.op = "matmul" THEN MatmulInputs(job, s) ELSE ConvInputs(job, s)
encode_weights(s) == IF job.op = "matmul" THEN MatmulWeights(job, s) ELSE ConvWeights(job, s)

Scheme == SchemeOf(job.enc)
Left  == job.mode \in {"left", "fly", "both"}    \* the inputs are encrypted
Right == job.mode \in {"right", "both"}          \* the weights are encrypted
Cells(m) == {<<r, c>> : r \in 1 .. Len(m), c \in 1 .. Len(m[1])}

Init ==
  /\ job \in Jobs /\ shape = Blocks(job)
  /\ lhs = << >> /\ rhs = << >> /\ prods = << >> /\ answer = << >>
  /\ shares = 0 /\ stage = "start"

EncodeInputs ==
  /\ stage = "start" /\ stage' = "inputs"
  /\ LET plain == Encoded2d(encode_inputs(shape), Left)
     IN  lhs' = IF Left THEN Each2d(plain, EncryptSymmetric) ELSE plain
  /\ UNCHANGED <<job, shape, rhs, prods, shares, answer>>
EncodeWeights ==
  /\ stage = "inputs" /\ stage' = "encoded"
  /\ LET polys == encode_weights(shape)
         plain == Encoded2d(polys, Right)
     IN  rhs' = IF job.mode = "fly" THEN Each2d(polys, LAMBDA q : Encode(q, FALSE))
                ELSE IF Right THEN Each2d(plain, EncryptSymmetric) ELSE plain
  /\ UNCHANGED <<job, shape, lhs, prods, shares, answer>>

(* Cipher2d::save and load, or Cipher2d::expand_seed; a program that does  *)
(* neither keeps the seeds.                                                *)
Expanded(c) == [c EXCEPT !.seed = FALSE]
Carry(how) ==
  /\ stage = "encoded" /\ stage' = "carried"
  /\ lhs' = IF Left /\ how # "kept" THEN Each2d(lhs, Expanded) ELSE lhs
  /\ rhs' = IF Right /\ how # "kept" THEN Each2d(rhs, Expanded) ELSE rhs
  /\ UNCHANGED <<job, shape, prods, shares, answer>>

-----------------------------------------------------------------------------
(* The evaluator's calls, as far as these programs make them.              *)
PlainForProduct(p) == IF p.ntt THEN p ELSE ensure_ntt_form(p, TRUE)   \* transform_plain_to_ntt
MultiplyPlainThrows(c, p) == c.seed \/ (Scheme = "CKKS" /\ ~p.ntt)
multiply_plain(c, p) ==
  [c EXCEPT !.poly = Ring!Product(p.poly, c.poly), !.deltas = @ + PlainForProduct(p).deltas]
MultiplyThrows(c, d) == c.seed \/ d.seed \/ c.ntt # (Scheme # "BFV") \/ d.ntt # (Scheme # "BFV")
multiply(c, d) ==
  [c EXCEPT !.poly = Ring!Product(c.poly, d.poly), !.size = 3,
            !.deltas = IF Scheme = "BFV" THEN @ ELSE @ + d.deltas]
Sum2(c, d) == [c EXCEPT !.poly = Ring!Plus(@, d.poly), !.deltas = IF @ = d.deltas THEN @ ELSE 3]
SumUp(n, f(_)) == LET r[i \in 1 .. n] == IF i = 1 THEN f(1) ELSE LET prev == r[i - 1] IN Sum2(prev, f(i)) IN r[n]
ensure_no_ntt_form(c) == [c EXCEPT !.ntt = FALSE]

Columns == ceil_div(job.outputs, IF job.op = "matmul" THEN shape.o ELSE shape.co)
Splits  == ceil_div(job.inputs, IF job.op = "matmul" THEN shape.i ELSE shape.ci)
Rows    == IF job.op = "matmul" THEN ceil_div(job.batch, shape.b) ELSE get_total_batch_size(job, shape)
Weight(i, o) == IF job.op = "matmul" THEN rhs[i][o] ELSE rhs[o][i]
Throws(c, d) == CASE job.mode = "both"  -> MultiplyThrows(c, d)
                  [] job.mode = "right" -> MultiplyPlainThrows(d, c)
                  [] OTHER              -> MultiplyPlainThrows(c, d)
One(c, d) == CASE job.mode = "both"  -> multiply(c, d)
               [] job.mode = "right" -> multiply_plain(d, c)
               [] OTHER              -> multiply_plain(c, d)
(* matmul, matmul_reverse and matmul_cipher check the operands' sizes.     *)
SizesFit == job.op = "matmul" /\ job.mode # "fly" => Len(lhs) = Rows /\ Len(rhs) = Splits
matmul(r, o) ==
  LET c == SumUp(Splits, LAMBDA i : One(lhs[r][i], rhs[i][o]))
  IN  IF Scheme = "BFV" THEN ensure_no_ntt_form(c) ELSE c
(* The weights were only encoded: multiply_plain brings each to NTT form.  *)
matmul_fly(r, o) ==
  LET c == SumUp(Splits, LAMBDA i : multiply_plain(lhs[r][i], rhs[i][o]))
  IN  IF Scheme = "BFV" THEN ensure_no_ntt_form(c) ELSE c
(* conv2d, conv2d_reverse, conv2d_cipher; the last leaves the form alone.  *)
conv2d(r, o) ==
  LET c == SumUp(Splits, LAMBDA i : One(lhs[r][i], rhs[o][i]))
  IN  IF Scheme = "BFV" /\ job.mode # "both" THEN ensure_no_ntt_form(c) ELSE c
Multiply ==
  /\ stage = "carried"
  /\ IF ~SizesFit \/ \E r \in 1 .. Rows, i \in 1 .. Splits, o \in 1 .. Columns : Throws(lhs[r][i], Weight(i, o))
     THEN stage' = "thrown" /\ UNCHANGED <<lhs, rhs, prods>>
     ELSE /\ stage' = "multiplied" /\ lhs' = << >> /\ rhs' = << >>
          /\ prods' = [r \in 1 .. Rows |-> [o \in 1 .. Columns |->
                         CASE job.op = "conv"    -> conv2d(r, o)
                           [] job.mode = "fly"   -> matmul_fly(r, o)
                           [] OTHER              -> matmul(r, o)]]
  /\ UNCHANGED <<job, shape, shares, answer>>

Relinearize ==   \* Cipher2d::relinearize_inplace
  /\ stage = "multiplied" /\ prods[1][1].size = 3
  /\ prods' = Each2d(prods, LAMBDA c : [c EXCEPT !.size = 2])
  /\ UNCHANGED <<job, shape, lhs, rhs, shares, stage, answer>>

(* MatmulHelper::pack_outputs: as many products as a block has input       *)
(* places go into one ciphertext.                                          *)
ForPacking(c) == [polys |-> <<c.poly, Ring!Zero>>, ntt |-> c.ntt, seed |-> FALSE, parms |-> 1, scale |-> c.deltas]
pack_outputs(m) ==
  LET slots == shape.i
      flat  == [k \in 1 .. Len(m) * Len(m[1]) |-> m[((k - 1) \div Len(m[1])) + 1][((k - 1) % Len(m[1])) + 1]]
      shift == IF slots = 1 THEN 0 ELSE 2 * slot_count - (slots - 1)
      to_pack == [g \in 1 .. ceil_div(Len(flat), slots) |->
                    [k \in 1 .. Lesser(slots, Len(flat) - (g - 1) * slots) |-> ForPacking(flat[(g - 1) * slots + k])]]
      output == IF job.batched THEN Ring!pack_rlwe_ciphertexts_batched(to_pack, shift, slots, 1, TRUE)
                ELSE [g \in 1 .. Len(to_pack) |-> Ring!pack_rlwe_ciphertexts_new(to_pack[g], shift, slots, 1, TRUE)]
  IN  <<[g \in 1 .. Len(to_pack) |-> [m[1][1] EXCEPT !.poly = Ring!Phase(output[g]), !.ntt = output[g].ntt]]>>
Pack ==
  /\ stage = "multiplied" /\ job.op = "matmul" /\ job.pack
  /\ IF prods[1][1].size = 3
     THEN stage' = "thrown" /\ UNCHANGED prods    \* apply_galois
     ELSE stage' = "packed" /\ prods' = pack_outputs(prods)
  /\ UNCHANGED <<job, shape, lhs, rhs, shares, answer>>

-----------------------------------------------------------------------------
Ready == stage = "packed" \/ (stage = "multiplied" /\ ~(job.op = "matmul" /\ job.pack))
(* encode_outputs; Conv2dHelper's writes every group into the buffer of    *)
(* the group before it.                                                    *)
ByPlace == [c \in Outputs(job) |-> Place(job, shape, c)]
CellsOf(r, o) == {c \in Outputs(job) : ByPlace[c][1] = r /\ ByPlace[c][2] = o}
OutputMasks(rows, cols) ==
  LET Value(c) == Bias[OutputIndex(job, c)]
      At(c) == ByPlace[c][3]
      mask[g \in 0 .. rows * cols] ==
        IF g = 0 THEN Ring!Zero
        ELSE LET prev == mask[g - 1]
                 new  == CellsOf(((g - 1) \div cols) + 1, ((g - 1) % cols) + 1)
             IN  [x \in Coeffs |-> IF \E c \in new : At(c) = x THEN Value(CHOOSE c \in new : At(c) = x)
                                   ELSE IF job.op = "conv" THEN prev[x] ELSE 0]
  IN  mask
encode_outputs ==
  LET rows == IF job.op = "matmul" /\ job.pack THEN 1 ELSE Rows
      cols == IF job.op = "matmul" /\ job.pack THEN ceil_div(Rows * Columns, shape.i) ELSE Columns
      mask == OutputMasks(rows, cols)
  IN  [r \in 1 .. rows |-> [c \in 1 .. cols |-> Encode(mask[(r - 1) * cols + c], TRUE)]]
(* add_plain and sub_plain.  A plaintext modulo t is scaled up under BFV;  *)
(* the caller encodes CKKS plaintexts at the product's scale.              *)
translate_plain(c, p, sub) ==
  LET deltas == CASE Scheme = "CKKS" -> c.deltas
                  [] Scheme = "BFV"  -> IF p.lifted THEN p.deltas ELSE 1
                  [] Scheme = "BGV"  -> 0
  IN  [c EXCEPT !.poly = IF sub THEN Ring!Minus(@, p.poly) ELSE Ring!Plus(@, p.poly),
                !.deltas = IF @ = deltas THEN @ ELSE 3]
TranslateThrows(c, p) == c.seed \/ c.ntt # (Scheme # "BFV") \/ (Scheme # "CKKS" /\ p.ntt)
Translated(m, plain, sub) ==
  [r \in 1 .. Len(m) |-> [c \in 1 .. Len(m[r]) |-> translate_plain(m[r][c], plain[r][c], sub)]]
(* Encodes and adds one plaintext after the other, to the ciphertexts the  *)
(* helper expects: nobody compares the numbers of rows and columns.        *)
add_bias_inplace_fly(m) == Translated(m, encode_outputs, FALSE)
(* Cipher2d::translate_plain and its in-place form. *)
TranslatePlain(sub) ==
  /\ Ready /\ shares = 0 /\ job.bias
  /\ LET plain == encode_outputs
     IN  IF \/ Len(prods) # Len(plain) \/ \E r \in 1 .. Len(prods) : Len(prods[r]) # Len(plain[r])
            \/ \E x \in Cells(prods) : TranslateThrows(prods[x[1]][x[2]], plain[x[1]][x[2]])
         THEN stage' = "thrown" /\ UNCHANGED <<prods, shares>>
         ELSE /\ prods' = IF job.mode = "fly" /\ ~sub THEN add_bias_inplace_fly(prods)
                          ELSE Translated(prods, plain, sub)
              /\ shares' = IF sub THEN -1 ELSE 1
              /\ UNCHANGED stage
  /\ UNCHANGED <<job, shape, lhs, rhs, answer>>

(* serialize_outputs and deserialize_outputs: of the first polynomial only *)
(* the coefficients that hold results are kept, packed ciphertexts whole.  *)
(* Conv2dHelper reads rows as long as there are output channels.           *)
NoCipher == [poly |-> << >>, ntt |-> FALSE, seed |-> FALSE, deltas |-> 0, size |-> 0, known |-> {}]
Required(r, o) ==
  IF job.op = "matmul" THEN {ByPlace[c][3] : c \in CellsOf(r, o)}
  ELSE {((b * shape.ci * shape.co + c * shape.ci + shape.ci - 1) * shape.h * shape.w)
          + (shape.h - (shape.h - job.kh + 1) + i) * shape.w + shape.w - (shape.w - job.kw + 1) + j :
            b \in From(0, shape.b), c \in From(0, shape.co),
            i \in From(0, shape.h - job.kh + 1), j \in From(0, shape.w - job.kw + 1)}
SendOutputs ==
  /\ Ready /\ prods[1][1].known = Coeffs /\ Len(prods[1]) <= Columns
  /\ prods' = IF job.op = "matmul" /\ job.pack THEN prods
              ELSE [r \in 1 .. Rows |->
                      [c \in 1 .. IF job.op = "conv" THEN job.outputs ELSE Columns |->
                         IF c > Columns THEN NoCipher ELSE [prods[r][c] EXCEPT !.known = Required(r, c)]]]
  /\ UNCHANGED <<job, shape, lhs, rhs, shares, stage, answer>>

(* decrypt_outputs: a coefficient that was not kept, or that holds another *)
(* number of scale factors than the decryptor divides out, decodes to P,   *)
(* which is no message.                                                    *)
Decodes(c, x) ==
  IF x \in c.known /\ (Scheme = "CKKS" => c.deltas < 3)
     /\ (Scheme = "BFV" => c.deltas = 1) /\ (Scheme = "BGV" => c.deltas = 0)
  THEN c.poly[x] ELSE P
Decrypt ==
  /\ Ready
  /\ IF \E c \in Outputs(job) : LET d == prods[ByPlace[c][1]][ByPlace[c][2]] IN d.seed \/ d.ntt # (Scheme # "BFV")
     THEN stage' = "thrown" /\ UNCHANGED answer
     ELSE stage' = "decrypted"
          /\ answer' = [c \in Outputs(job) |-> Decodes(prods[ByPlace[c][1]][ByPlace[c][2]], ByPlace[c][3])]
  /\ prods' = << >>
  /\ UNCHANGED <<job, shape, lhs, rhs, shares>>

Next == \/ EncodeInputs \/ EncodeWeights
        \/ \E how \in {"sent", "kept"} : Carry(how)
        \/ Multiply \/ Relinearize \/ Pack
        \/ \E sub \in BOOLEAN : TranslatePlain(sub)
        \/ SendOutputs \/ Decrypt
Spec == Init /\ [][Next]_vars

-----------------------------------------------------------------------------
Total(n, f(_)) == LET r[i \in 0 .. n] == IF i = 0 THEN 0 ELSE LET prev == r[i - 1] IN (prev + f(i - 1)) % P IN r[n]
Entry(c) ==
  IF job.op = "matmul"
  THEN Total(job.inputs, LAMBDA k : X[c[1] * job.inputs + k] * W[k * job.outputs + c[2]])
  ELSE Total(job.inputs, LAMBDA k : Total(job.kh, LAMBDA y : Total(job.kw, LAMBDA x :
         X[((c[1] * job.inputs + k) * job.height + c[3] + y) * job.width + c[4] + x]
           * W[((c[2] * job.inputs + k) * job.kh + y) * job.kw + x])))

(* matmul.cu, conv2d.cu: whatever blocks were chosen, whichever side was   *)
(* encrypted and however the results were packed, shared and sent, what is *)
(* decrypted is the product, or the convolution, with what was added.      *)
ProductsExact ==
  stage = "decrypted" =>
    \A c \in Outputs(job) : answer[c] = (Entry(c) + (P + shares) * Bias[OutputIndex(job, c)]) % P

(* matmul.cu, conv2d.cu: with its seeds expanded no program is refused,    *)
(* except BFV products of two ciphertexts, which the helpers leave in NTT  *)
(* form, ciphertexts of three polynomials given to pack_outputs, and rows  *)
(* Conv2dHelper::deserialize_outputs made too long.                        *)
RefusedOnlyIf ==
  stage = "thrown" =>
    \/ job.mode = "both" /\ Scheme = "BFV"
    \/ job.mode = "both" /\ job.op = "matmul" /\ job.pack
    \/ Left /\ lhs # << >> /\ lhs[1][1].seed
    \/ Right /\ rhs # << >> /\ rhs[1][1].seed
    \/ job.op = "conv" /\ prods # << >> /\ Len(prods[1]) > Columns
=============================================================================

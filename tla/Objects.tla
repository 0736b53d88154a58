------------------------------- MODULE Objects -------------------------------
(***************************************************************************)
(* The objects of the library and how they are kept: parameters and the    *)
(* chain of contexts made from them (encryption_parameters, he_context,    *)
(* context_data), ciphertexts, plaintexts and key-switching keys with      *)
(* their headers and their words (ciphertext, plaintext, kswitch_keys),    *)
(* and what is written to and read from streams.  A stream is a sequence   *)
(* of fields with their sizes in bytes.  The hash in a ParmsID is taken to *)
(* be injective: a ParmsID is what is hashed.  A ring has degree two in    *)
(* ciphertexts, where forms matter.                                        *)
(***************************************************************************)
EXTENDS Integers, Sequences, FiniteSets

CONSTANTS
  Degrees, Moduli, Plains,     \* what the setters of the parameters are given
  MaxBitCount,                 \* CoeffModulus::max_bit_count: bits, for each degree
  HE_COEFF_MOD_COUNT_MAX, HE_USER_MOD_BIT_COUNT_MAX, HE_POLY_MOD_DEGREE_MAX,
  ContextParms,                \* parameters of the contexts objects live in
  Roots,                       \* a square root of -1 for each prime
  Words,                       \* what a seed makes of a word: Words[seed] is a pair of integers
  TermLists,                   \* the coefficients a caller asks for
  Overheads,                   \* a compressed size minus the size, in bytes
  MaxOps                       \* bound, for each kind of object: calls before it is saved

VARIABLES obj, context, stream, meant, report, loaded, ops, ended
vars == <<obj, context, stream, meant, report, loaded, ops, ended>>

Zero == << >>                                                \* parms_id_zero
Nothing == [kind |-> "none"]

-----------------------------------------------------------------------------
(* EncryptionParameters. *)
compute_parms_id(p) == [p EXCEPT !.id = <<p.scheme, p.degree, p.moduli, p.plain>>]
Parms(scheme) == [kind |-> "parms", scheme |-> scheme, degree |-> 0, moduli |-> << >>, plain |-> 0,
                  special |-> FALSE, device |-> FALSE, id |-> Zero]

PowersOfTwo == {2 ^ i : i \in 0 .. 17}
Divides(d, n) == n % d = 0
Coprime(a, b) == ~ \E d \in 2 .. (IF a < b THEN a ELSE b) : Divides(d, a) /\ Divides(d, b)
IsPrime(n)    == n > 1 /\ ~ \E d \in 2 .. n - 1 : Divides(d, n)
HasNtt(n, degree) == IsPrime(n) /\ degree > 0 /\ (n - 1) % (2 * degree) = 0
TotalModulus(q) == LET r[i \in 0 .. Len(q)] == IF i = 0 THEN 1 ELSE r[i - 1] * q[i] IN r[Len(q)]
BitCount(n) == CHOOSE b \in 0 .. 30 : n < 2 ^ b /\ (b > 0 => 2 ^ (b - 1) <= n)
BadBits(n)  == n >= 2 ^ HE_USER_MOD_BIT_COUNT_MAX \/ n < 2

(* ContextData::validate: its checks in their order.  RNSTool and          *)
(* GaloisTool can be made whenever the others pass.                        *)
Checks(p, secure) ==
  LET q == p.moduli
      integral == p.scheme \in {"BFV", "BGV"}
      bits == IF p.degree \in DOMAIN MaxBitCount THEN MaxBitCount[p.degree] ELSE 0
  IN  << <<p.device, "CreatedFromDeviceParms">>,
         <<p.scheme = "Nil", "InvalidScheme">>,
         <<Len(q) \notin 1 .. HE_COEFF_MOD_COUNT_MAX, "InvalidCoeffModulusSize">>,
         <<\E i \in DOMAIN q : BadBits(q[i]), "InvalidCoeffModulusBitCount">>,
         <<p.degree \notin 2 .. HE_POLY_MOD_DEGREE_MAX, "InvalidPolyModulusDegree">>,
         <<p.degree \notin PowersOfTwo, "InvalidPolyModulusDegreeNonPowerOfTwo">>,
         <<secure /\ BitCount(TotalModulus(q)) > bits, "InvalidParametersInsecure">>,
         <<\E i, j \in DOMAIN q : i # j /\ ~Coprime(q[i], q[j]), "FailedCreatingRNSBase">>,
         <<\E i \in DOMAIN q : ~HasNtt(q[i], p.degree), "InvalidCoeffModulusNoNTT">>,
         <<integral /\ BadBits(p.plain), "InvalidPlainModulusBitCount">>,
         <<integral /\ \E i \in DOMAIN q : ~Coprime(q[i], p.plain), "InvalidPlainModulusCoprimality">>,
         <<integral /\ p.plain >= TotalModulus(q), "InvalidPlainModulusTooLarge">>,
         <<p.scheme = "CKKS" /\ p.plain # 0, "InvalidPlainModulusNonZero">> >>
FirstFailed(checks) ==
  LET failed == {i \in DOMAIN checks : checks[i][1]}
  IN  IF failed = {} THEN "Success" ELSE checks[CHOOSE i \in failed : \A j \in failed : i <= j][2]
validate(p, secure) == FirstFailed(Checks(p, secure))
Qualified(p, error) ==
  [parameter_error |-> error,
   using_batching |-> error = "Success" /\ (p.scheme = "CKKS" \/ HasNtt(p.plain, p.degree)),
   using_fast_plain_lift |-> error = "Success" /\ p.scheme # "CKKS" /\ \A i \in DOMAIN p.moduli : p.moduli[i] > p.plain,
   using_descending_modulus_chain |->
     error = "Success" /\ \A i \in 2 .. Len(p.moduli) : p.moduli[i - 1] > p.moduli[i]]
qualifiers(p, secure) == Qualified(p, validate(p, secure))

(* HeContext: a list of levels from the key level down, each with its      *)
(* parameters and its place counted from the end.                          *)
ContextData(p, secure) == [parms |-> p, is |-> qualifiers(p, secure), chain_index |-> 0]
NextParms(p) == compute_parms_id([p EXCEPT !.moduli = SubSeq(@, 1, Len(@) - 1)])
Valid(level) == level.is.parameter_error = "Success"
AppendValid(levels, next) == IF Valid(next) THEN Append(levels, next) ELSE levels
create_next_context_data(levels, secure) ==
  AppendValid(levels, ContextData(NextParms(levels[Len(levels)].parms), secure))
MutantExpanded(levels, secure) ==
  LET most == Len(levels[1].parms.moduli)
      grown[n \in 0 .. most] ==
        IF n = 0 THEN levels
        ELSE LET prev == grown[n - 1]
             IN  IF Len(prev[Len(prev)].parms.moduli) > 2 THEN create_next_context_data(prev, secure) ELSE prev
  IN  grown[most]
Expanded(levels, secure) ==
  LET most == Len(levels[1].parms.moduli)
      grown[n \in 0 .. most] ==
        IF n = 0 THEN levels
        ELSE LET prev == grown[n - 1]
             IN  IF Len(prev[Len(prev)].parms.moduli) > 1 THEN create_next_context_data(prev, secure) ELSE prev
  IN  grown[most]
Begun(key, secure) ==
  IF ~Valid(key[1]) \/ Len(key[1].parms.moduli) = 1 \/ key[1].parms.special THEN key
  ELSE create_next_context_data(key, secure)
Chained(levels, first, expand_mod_chain, secure) ==
  [levels |-> [i \in DOMAIN levels |-> [levels[i] EXCEPT !.chain_index = Len(levels) - i]],
   first |-> first, using_keyswitching |-> first # 1, expanded |-> expand_mod_chain,
   secure |-> secure, device |-> FALSE]
Filled(begun, expand_mod_chain, secure) ==
  Chained(IF expand_mod_chain /\ Valid(begun[Len(begun)]) THEN Expanded(begun, secure) ELSE begun,
          Len(begun), expand_mod_chain, secure)
create(p, expand_mod_chain, secure) == Filled(Begun(<<ContextData(p, secure)>>, secure), expand_mod_chain, secure)
parameters_set == context.levels[context.first].is.parameter_error = "Success"
get_context_data(id) == {i \in DOMAIN context.levels : context.levels[i].parms.id = id}
ModuliOf(id) == context.levels[CHOOSE i \in get_context_data(id) : TRUE].parms.moduli
Scheme == context.levels[1].parms.scheme

-----------------------------------------------------------------------------
(* serialize.h: fields, and what a mode of compression makes of them.      *)
Field(bytes, v) == <<[bytes |-> bytes, val |-> v]>>
Array(w) == [i \in 1 .. Len(w) |-> [bytes |-> 8, val |-> w[i]]]
BytesOf(s) == LET r[i \in 0 .. Len(s)] == IF i = 0 THEN 0 ELSE r[i - 1] + s[i].bytes IN r[Len(s)]
Read(s, from, n) == [i \in 1 .. n |-> s[from + i - 1].val]
compress(raw, size, mode, overhead) ==
  IF mode = "Nil" THEN Field(1, "Nil") \o raw
  ELSE IF overhead < 0 THEN Field(1, mode) \o Field(8, size + overhead) \o Field(size + overhead, raw)
  ELSE Field(1, "Nil") \o raw
CompressedSize(size, mode, overhead) == IF mode = "Nil" \/ overhead >= 0 THEN size + 1 ELSE size + overhead + 9
serialized_size_upperbound(size, mode) == IF mode = "Nil" THEN size + 1 ELSE size + 3 + 9
(* What is to be read, and where the reader is afterwards. *)
decompress(s, at) == IF s[at].val = "Nil" THEN [raw |-> s, at |-> at + 1, after |-> 0]
                     ELSE [raw |-> s[at + 2].val, at |-> 1, after |-> at + 3]

-----------------------------------------------------------------------------
(* DynamicArray::resize_internal.  Words nobody wrote are Unset. *)
Unset == -1
resize(data, n, fill_extra_with_zeros, copy_data) ==
  IF n = Len(data) THEN data
  ELSE [x \in 1 .. n |-> IF x <= Len(data) THEN (IF copy_data THEN data[x] ELSE Unset)
                         ELSE IF fill_extra_with_zeros THEN 0 ELSE Unset]

(* Ciphertext. *)
Blank == [kind |-> "cipher", count |-> 0, size |-> 0, degree |-> 0, id |-> Zero, scale |-> 1, ntt |-> FALSE,
          factor |-> 1, seed |-> 0, data |-> << >>, device |-> FALSE]
PolySize(c) == c.size * c.degree
polys(c, from, to) == SubSeq(c.data, from * PolySize(c) + 1, to * PolySize(c))
poly(c, i) == polys(c, i, i + 1)
poly_component(c, i, j) == SubSeq(c.data, c.degree * (i * c.size + j) + 1, c.degree * (i * c.size + j + 1))
sample_poly_uniform(seed, q) == [x \in 1 .. 2 * Len(q) |-> Words[seed][1 + ((x - 1) % 2)] % q[1 + ((x - 1) \div 2)]]
ntt(w, q)  == [x \in 1 .. Len(w) |->
                 LET j == 1 + (x - 1) \div 2
                     a == w[2 * j - 1]
                     b == w[2 * j] * Roots[q[j]]
                 IN  (IF x % 2 = 1 THEN a + b ELSE a - b) % q[j]]
intt(w, q) == [x \in 1 .. Len(w) |->
                 LET j == 1 + (x - 1) \div 2
                     half == (q[j] + 1) \div 2
                     s == w[2 * j - 1] + w[2 * j]
                     d == ((w[2 * j] - w[2 * j - 1]) * Roots[q[j]]) % q[j]
                 IN  ((IF x % 2 = 1 THEN s ELSE d) * half) % q[j]]
Replaced(c, i, w) == [c EXCEPT !.data = [x \in DOMAIN c.data |->
                        LET o == x - i * PolySize(c) IN IF o \in 1 .. PolySize(c) THEN w[o] ELSE c.data[x]]]

like(c, polynomial_count, fill_zeros) ==
  [c EXCEPT !.count = polynomial_count, !.seed = 0,
            !.data = [x \in 1 .. polynomial_count * PolySize(c) |-> IF fill_zeros THEN 0 ELSE Unset]]
resize_internal(c, id, polynomial_count, fill, copy) ==
  LET q == ModuliOf(id)
  IN  [c EXCEPT !.id = id, !.count = polynomial_count, !.size = Len(q), !.degree = id[2],
                !.data = resize(@, polynomial_count * Len(q) * id[2], fill, copy)]
reconfigure_like(c, other, polynomial_count, fill) ==
  [resize_internal(c, other.id, polynomial_count, fill, TRUE) EXCEPT
     !.factor = other.factor, !.scale = other.scale, !.ntt = other.ntt]
CountFits(n) == n \in 2 .. 16
expand_seed(c) == [Replaced(c, 1, sample_poly_uniform(c.seed, ModuliOf(c.id))) EXCEPT !.seed = 0]

Bit(b, n) == IF b THEN n ELSE 0
SchemeFields(c) == (IF Scheme = "CKKS" THEN Field(8, c.scale) ELSE << >>)
                   \o (IF Scheme = "BGV" THEN Field(8, c.factor) ELSE << >>)
Header(c, terms) ==
  Field(32, c.id) \o Field(8, c.count) \o Field(8, c.size) \o Field(8, c.degree)
  \o Field(1, Bit(c.ntt, 1) + Bit(c.seed # 0, 2) + Bit(c.device, 4) + Bit(terms, 8)) \o SchemeFields(c)
(* After the header was written, a seed with other than two polynomials.   *)
SaveThrows(c) == c.seed # 0 /\ c.count # 2
save_raw(c) == Header(c, FALSE) \o (IF c.seed # 0 THEN Field(8, c.seed) \o Array(poly(c, 0)) ELSE Array(c.data))
HeaderSize == 57 + (IF Scheme \in {"CKKS", "BGV"} THEN 8 ELSE 0)
serialized_raw_size(c) == HeaderSize + (IF c.seed # 0 THEN 8 + 8 * PolySize(c) ELSE 8 * PolySize(c) * c.count)

(* The header of what is read replaces that of the object, piece by piece. *)
Loaded(c, s, at) ==
  LET flags == s[at + 4].val
      own   == IF Scheme \in {"CKKS", "BGV"} THEN 1 ELSE 0
      with  == [c EXCEPT !.id = s[at].val, !.count = s[at + 1].val, !.size = s[at + 2].val, !.degree = s[at + 3].val,
                         !.ntt = flags % 2 = 1, !.data = << >>, !.device = FALSE,
                         !.scale = IF Scheme = "CKKS" THEN s[at + 5].val ELSE 1,
                         !.factor = IF Scheme = "BGV" THEN s[at + 5].val ELSE 1]
  IN  [obj |-> with, at |-> at + 5 + own, seeded |-> (flags \div 2) % 2 = 1, device |-> (flags \div 4) % 2 = 1,
       terms |-> (flags \div 8) % 2 = 1]
load_raw(c, s, from) ==
  LET h == Loaded(c, s, from)
      d == PolySize(h.obj)
  IN  IF h.seeded
      THEN [obj |-> expand_seed([h.obj EXCEPT !.seed = s[h.at].val, !.device = h.device,
                                              !.data = resize(Read(s, h.at + 1, d), 2 * d, TRUE, TRUE)]),
            at |-> h.at + 1 + d]
      ELSE [obj |-> [h.obj EXCEPT !.seed = 0, !.device = h.device, !.data = Read(s, h.at, d * h.obj.count)],
            at |-> h.at + d * h.obj.count]

(* With only some coefficients of the first polynomial. *)
TermsOf(c, terms) ==
  LET c0 == IF c.ntt THEN intt(poly(c, 0), ModuliOf(c.id)) ELSE poly(c, 0)
      n  == Len(terms)
  IN  [x \in 1 .. c.size * n |-> c0[((x - 1) \div n) * c.degree + terms[1 + ((x - 1) % n)] + 1]]
FirstKept(c) == IF c.seed # 0 THEN 2 ELSE 1
save_terms_raw(c, terms) ==
  Header(c, TRUE) \o (IF c.seed # 0 THEN Field(8, c.seed) ELSE << >>)
  \o Array(TermsOf(c, terms)) \o Array(polys(c, FirstKept(c), c.count))
serialized_terms_raw_size(c, terms) ==
  HeaderSize + (IF c.seed # 0 THEN 8 ELSE 0) + 8 * Len(terms) * c.size + 8 * PolySize(c) * (c.count - FirstKept(c))
load_terms_raw(c, s, from, terms) ==
  LET h    == Loaded(c, s, from)
      d    == PolySize(h.obj)
      n    == Len(terms)
      at   == IF h.seeded THEN h.at + 1 ELSE h.at
      size == IF h.seeded THEN 2 * d ELSE d * h.obj.count
      kept == IF h.seeded THEN 2 * d ELSE d
      Term(x) == LET i == {k \in 1 .. n : terms[k] = (x - 1) % h.obj.degree}
                 IN  IF i = {} THEN 0
                     ELSE s[at + ((x - 1) \div h.obj.degree) * n + (CHOOSE k \in i : \A l \in i : l <= k) - 1].val
      words == [x \in 1 .. size |-> IF x <= d THEN Term(x) ELSE IF x <= kept THEN 0
                                    ELSE s[at + h.obj.size * n + x - kept - 1].val]
      put  == [h.obj EXCEPT !.data = words, !.device = h.device, !.seed = IF h.seeded THEN s[h.at].val ELSE 0]
      back == IF put.ntt THEN Replaced(put, 0, ntt(poly(put, 0), ModuliOf(put.id))) ELSE put
  IN  IF h.seeded THEN expand_seed(back) ELSE back

-----------------------------------------------------------------------------
(* Plaintext. *)
BlankPlain == [kind |-> "plain", count |-> 0, data |-> << >>, id |-> Zero, scale |-> 1, ntt |-> FALSE,
               size |-> 0, degree |-> 0, device |-> FALSE]
plain_like(p, fill_zeros) == [p EXCEPT !.data = [x \in DOMAIN @ |-> IF fill_zeros THEN 0 ELSE Unset]]
resize_rns_partial(p, id, coeff_count, fill, copy) ==
  [p EXCEPT !.id = id, !.count = coeff_count, !.size = Len(ModuliOf(id)), !.degree = id[2],
            !.data = resize(@, coeff_count * Len(ModuliOf(id)), fill, copy)]
resize_rns(p, id, fill, copy) == resize_rns_partial(p, id, id[2], fill, copy)
component(p, i) == IF p.id = Zero THEN p.data ELSE SubSeq(p.data, i * p.count + 1, (i + 1) * p.count)
plain_save_raw(p) ==
  Field(32, p.id) \o Field(8, p.scale) \o Field(8, p.count) \o Field(1, p.device) \o Field(8, Len(p.data))
  \o Array(p.data) \o Field(1, p.ntt) \o Field(8, p.degree) \o Field(8, p.size)
plain_serialized_raw_size(p) == 32 + 8 + 8 + 1 + 8 + 8 * Len(p.data) + 1 + 8 + 8
plain_load_raw(p, s, at) ==
  LET n == s[at + 4].val
  IN  [p EXCEPT !.id = s[at].val, !.scale = s[at + 1].val, !.count = s[at + 2].val, !.device = s[at + 3].val,
                !.data = Read(s, at + 5, n), !.ntt = s[at + 5 + n].val, !.degree = s[at + 6 + n].val,
                !.size = s[at + 7 + n].val]

(* KSwitchKeys.  Its keys' words are at addresses, of which it keeps a     *)
(* list for the kernels: "at" counts the times the words were allocated    *)
(* anew, "listed" says for which of them the list was made.                *)
IsEmpty(k) == \A i \in DOMAIN k.rows : k.rows[i] = << >>
KeysOnDevice(k) == ~IsEmpty(k) /\ k.rows[CHOOSE i \in DOMAIN k.rows : k.rows[i] # << >>][1].device
SeededKeys(k) == \E i \in DOMAIN k.rows : \E j \in DOMAIN k.rows[i] : k.rows[i][j].seed # 0
build_key_data_ptrs(k) == [k EXCEPT !.listed = k.at]
keys_clone(k) == build_key_data_ptrs([k EXCEPT !.at = @ + 1, !.moved = FALSE])
EachKey(k, Op(_)) == [k EXCEPT !.rows = [i \in DOMAIN @ |-> [j \in DOMAIN @[i] |-> Op(@[i][j])]]]
(* The list goes along as it is. *)
conveyed(k, device) ==
  IF IsEmpty(k) \/ KeysOnDevice(k) = device THEN k
  ELSE LET To(c) == [c EXCEPT !.device = device]
       IN  [EachKey(k, To) EXCEPT !.at = @ + 1, !.moved = TRUE]
keys_expand_seed(k) == LET One(c) == IF c.seed # 0 THEN expand_seed(c) ELSE c IN EachKey(k, One)

Joined(parts) == LET r[i \in 0 .. Len(parts)] == IF i = 0 THEN << >> ELSE r[i - 1] \o parts[i] IN r[Len(parts)]
valid_count(k) == Cardinality({i \in DOMAIN k.rows : k.rows[i] # << >>})
keys_save(k, mode, overhead) ==
  LET One(c)  == compress(save_raw(c), serialized_raw_size(c), mode, overhead)
      Row(i) == IF k.rows[i] = << >> THEN << >>
                ELSE Field(8, i) \o Field(8, Len(k.rows[i])) \o Joined([j \in DOMAIN k.rows[i] |-> One(k.rows[i][j])])
  IN  Field(32, k.id) \o Field(8, Len(k.rows)) \o Field(8, valid_count(k)) \o Joined([i \in DOMAIN k.rows |-> Row(i)])
TotalOver(k, F(_)) ==
  LET row(r) == LET t[j \in 0 .. Len(r)] == IF j = 0 THEN 0 ELSE t[j - 1] + F(r[j]) IN t[Len(r)]
      sum[i \in 0 .. Len(k.rows)] ==
        IF i = 0 THEN 48 ELSE sum[i - 1] + (IF k.rows[i] = << >> THEN 0 ELSE 16 + row(k.rows[i]))
  IN  sum[Len(k.rows)]
keys_saved_size(k, mode, overhead) ==
  LET One(c) == CompressedSize(serialized_raw_size(c), mode, overhead) IN TotalOver(k, One)
keys_serialized_size_upperbound(k, mode) ==
  LET One(c) == serialized_size_upperbound(serialized_raw_size(c), mode) IN TotalOver(k, One)
keys_load(k, s) ==
  LET rowCount == s[2].val
      valid    == s[3].val
      LoadOne(at) == LET d == decompress(s, at)
                         l == load_raw(Blank, d.raw, d.at)
                     IN  [obj |-> l.obj, at |-> IF d.after = 0 THEN l.at ELSE d.after]
      LoadRow(at) == LET size2d == s[at + 1].val
                         got[j \in 0 .. size2d] ==
                           IF j = 0 THEN [row |-> << >>, at |-> at + 2]
                           ELSE LET prev == got[j - 1]
                                    one  == LoadOne(prev.at)
                                IN  [row |-> Append(prev.row, one.obj), at |-> one.at]
                     IN  got[size2d]
      all[n \in 0 .. valid] ==
        IF n = 0 THEN [rows |-> [i \in 1 .. rowCount |-> << >>], at |-> 4]
        ELSE LET prev == all[n - 1]
                 row  == LoadRow(prev.at)
             IN  [rows |-> [prev.rows EXCEPT ![s[prev.at].val] = row.row], at |-> row.at]
  IN  build_key_data_ptrs([k EXCEPT !.id = s[1].val, !.rows = all[valid].rows, !.at = @ + 1, !.moved = FALSE])

(* EncryptionParameters::save and load. *)
parms_save(p) ==
  Field(1, p.scheme) \o Field(8, p.degree) \o Field(8, Len(p.moduli)) \o Array(p.moduli)
  \o (IF p.scheme \in {"BFV", "BGV"} THEN Field(8, p.plain) ELSE << >>) \o Field(1, p.special)
parms_serialized_size(p) == 1 + 8 + 8 + 8 * Len(p.moduli) + (IF p.scheme \in {"BFV", "BGV"} THEN 8 ELSE 0) + 1
parms_load(p, s) ==
  LET n == s[3].val
      integral == s[1].val \in {"BFV", "BGV"}
  IN  compute_parms_id([p EXCEPT !.scheme = s[1].val, !.degree = s[2].val, !.moduli = Read(s, 4, n),
                                 !.plain = IF integral THEN s[4 + n].val ELSE @,
                                 !.special = s[Len(s)].val])

-----------------------------------------------------------------------------
(* What encryption and key generation hand over. *)
WordsFor(q, count) == [x \in 1 .. 2 * Len(q) * count |-> (5 * x + 1) % q[1 + (((x - 1) \div 2) % Len(q))]]
FreshCipher(level, count, form, seed, device) ==
  LET p == context.levels[level].parms
      c == [Blank EXCEPT !.count = count, !.size = Len(p.moduli), !.degree = 2, !.id = p.id, !.ntt = form,
                         !.scale = IF Scheme = "CKKS" THEN 8 ELSE 1, !.factor = IF Scheme = "BGV" THEN 2 ELSE 1,
                         !.seed = seed, !.device = device, !.data = WordsFor(p.moduli, count)]
      a == sample_poly_uniform(seed, p.moduli)
  IN  IF seed = 0 THEN c ELSE Replaced(c, 1, IF form THEN a ELSE ntt(a, p.moduli))
FreshPlain(level, device) ==
  IF level = 0 THEN [BlankPlain EXCEPT !.count = 2, !.data = <<3, 1>>, !.device = device]
  ELSE [resize_rns(BlankPlain, context.levels[level].parms.id, TRUE, TRUE) EXCEPT
          !.data = WordsFor(context.levels[level].parms.moduli, 1), !.device = device, !.ntt = TRUE, !.scale = 4]
FreshKeys(present, seed, device) ==
  LET key == FreshCipher(1, 2, TRUE, seed, device)
  IN  [kind |-> "keys", id |-> key.id, at |-> 1, listed |-> 1, moved |-> FALSE,
       rows |-> [i \in 1 .. 3 |-> IF i \in present THEN [j \in 1 .. context.first |-> key] ELSE << >>]]

Init ==
  /\ stream = << >> /\ meant = Nothing /\ report = 0 /\ loaded = FALSE /\ ops = 0 /\ ended = "no"
  /\ \/ obj \in {Parms(s) : s \in {"BFV", "CKKS", "Nil"}} /\ context = Nothing
     \/ /\ context \in {create(p, TRUE, FALSE) : p \in ContextParms}
        /\ \/ \E l \in DOMAIN context.levels, n \in {2, 3}, f, d \in BOOLEAN, s \in {0, 1} :
                (s # 0 => n = 2) /\ obj = FreshCipher(l, n, f, s, d)
           \/ \E l \in 0 .. 1, d \in BOOLEAN : obj = FreshPlain(l, d)
           \/ \E present \in {{}, {1, 3}}, s \in {0, 1}, d \in BOOLEAN : obj = FreshKeys(present, s, d)

Kind(k) == obj.kind = k /\ ended = "no" /\ ~loaded
Busy(k) == Kind(k) /\ ops < MaxOps[k] /\ ops' = ops + 1 /\ UNCHANGED <<context, stream, meant, report, loaded>>
Become(new) == obj' = new /\ UNCHANGED ended
Throw == ended' = "thrown" /\ UNCHANGED obj

(* The setters throw on the device, and recompute the ParmsID. *)
Set(new) == Busy("parms") /\ context = Nothing /\ IF obj.device THEN Throw ELSE Become(compute_parms_id(new))
SetPolyModulusDegree(n) == Set([obj EXCEPT !.degree = n])
SetCoeffModulus(q)      == Set([obj EXCEPT !.moduli = q])
SetPlainModulus(t)      == Set([obj EXCEPT !.plain = t])
SetUseSpecialPrime(b)   == Busy("parms") /\ context = Nothing /\ Become([obj EXCEPT !.special = b])
ConveyParms(d)          == Busy("parms") /\ context = Nothing /\ Become([obj EXCEPT !.device = d])
CreateContext(expand, secure) ==
  /\ Kind("parms") /\ context = Nothing /\ stream = << >> /\ obj.id # Zero
  /\ IF obj.device THEN Throw /\ UNCHANGED context
     ELSE context' = create(obj, expand, secure) /\ UNCHANGED <<obj, ended>>
  /\ UNCHANGED <<stream, meant, report, loaded, ops>>

Like(n, fill) == Busy("cipher") /\ IF CountFits(n) THEN Become(like(obj, n, fill)) ELSE Throw
Resize(id, n, fill, copy) ==
  Busy("cipher") /\ IF get_context_data(id) # {} /\ CountFits(n) THEN Become(resize_internal(obj, id, n, fill, copy)) ELSE Throw
ReconfigureLike(level, n, fill) ==
  Busy("cipher") /\ IF CountFits(n) THEN Become(reconfigure_like(obj, FreshCipher(level, 2, FALSE, 0, FALSE), n, fill)) ELSE Throw
ConveyCipher(d) == Busy("cipher") /\ IF obj.seed # 0 THEN Throw ELSE Become([obj EXCEPT !.device = d])
ExpandSeed      == Busy("cipher") /\ IF obj.seed = 0 THEN Throw ELSE Become(expand_seed(obj))

PlainLike(fill) == Busy("plain") /\ Become(plain_like(obj, fill))
ResizePlain(n, fill, copy) ==
  Busy("plain") /\ IF obj.id # Zero THEN Throw ELSE Become([obj EXCEPT !.count = n, !.data = resize(@, n, fill, copy)])
ResizeRns(level, n, fill, copy) ==
  Busy("plain") /\ Become(resize_rns_partial(obj, context.levels[level].parms.id, n, fill, copy))
ConveyPlain(d) == Busy("plain") /\ Become([obj EXCEPT !.device = d])

ConveyKeys(d) == Busy("keys") /\ IF SeededKeys(obj) THEN Throw ELSE Become(conveyed(obj, d))
CloneKeys     == Busy("keys") /\ IF IsEmpty(obj) THEN Throw ELSE Become(keys_clone(obj))
ExpandKeys    == Busy("keys") /\ IF SeededKeys(obj) THEN Become(keys_expand_seed(obj)) ELSE Throw

Written(s, n, partly, terms) ==
  /\ stream' = s /\ report' = n /\ meant' = [kind |-> "saved", was |-> obj, partly |-> partly, terms |-> terms]
  /\ UNCHANGED <<obj, context, loaded, ops, ended>>
SaveFails == ended' = "thrown" /\ UNCHANGED <<obj, context, stream, meant, report, loaded, ops>>
CanSave(k) == Kind(k) /\ stream = << >>
SaveParms == /\ CanSave("parms") /\ context = Nothing /\ obj.id # Zero
             /\ IF obj.device THEN SaveFails ELSE Written(parms_save(obj), parms_serialized_size(obj), FALSE, << >>)
SaveCipher(mode, o) ==
  /\ CanSave("cipher")
  /\ IF SaveThrows(obj) THEN SaveFails
     ELSE LET size == serialized_raw_size(obj)
          IN  Written(compress(save_raw(obj), size, mode, o), CompressedSize(size, mode, o), FALSE, << >>)
SaveTerms(terms, mode, o) ==
  /\ CanSave("cipher") /\ Len(obj.data) > 0
  /\ IF SaveThrows(obj) THEN SaveFails
     ELSE LET size == serialized_terms_raw_size(obj, terms)
          IN  Written(compress(save_terms_raw(obj, terms), size, mode, o), CompressedSize(size, mode, o), TRUE, terms)
SavePlain(mode, o) ==
  /\ CanSave("plain")
  /\ LET size == plain_serialized_raw_size(obj)
     IN  Written(compress(plain_save_raw(obj), size, mode, o), CompressedSize(size, mode, o), FALSE, << >>)
SaveKeys(mode, o) == CanSave("keys") /\ Written(keys_save(obj, mode, o), keys_saved_size(obj, mode, o), FALSE, << >>)

(* Loading into a new object, or into one that was used before. *)
Reading(k) == Kind(k) /\ stream # << >> /\ UNCHANGED <<context, stream, meant, report, ops>>
Return(new) == obj' = new /\ loaded' = TRUE /\ UNCHANGED ended
LoadFails == ended' = "thrown" /\ UNCHANGED <<obj, loaded>>
LoadParms(new) == Reading("parms") /\ IF ~new /\ obj.device THEN LoadFails
                                      ELSE Return(parms_load(IF new THEN Parms("Nil") ELSE obj, stream))
LoadCipher(new) ==
  Reading("cipher") /\ LET d == decompress(stream, 1)
                       IN  IF Loaded(Blank, d.raw, d.at).terms THEN LoadFails
                           ELSE Return(load_raw(IF new THEN Blank ELSE obj, d.raw, d.at).obj)
LoadTerms(new) ==
  Reading("cipher") /\ LET d == decompress(stream, 1)
                       IN  IF ~Loaded(Blank, d.raw, d.at).terms THEN LoadFails
                           ELSE Return(load_terms_raw(IF new THEN Blank ELSE obj, d.raw, d.at, meant.terms))
LoadPlain(new) == Reading("plain") /\ LET d == decompress(stream, 1)
                                      IN  Return(plain_load_raw(IF new THEN BlankPlain ELSE obj, d.raw, d.at))
(* Without any key in it, the list cannot be made. *)
LoadKeys == Reading("keys") /\ IF stream[3].val = 0 THEN LoadFails ELSE Return(keys_load(obj, stream))

NextParmsCalls ==
  \/ \E n \in Degrees : SetPolyModulusDegree(n)
  \/ \E q \in Moduli : SetCoeffModulus(q)
  \/ \E t \in Plains : SetPlainModulus(t)
  \/ SetUseSpecialPrime(TRUE)
  \/ \E d \in BOOLEAN : ConveyParms(d)
  \/ \E e, s \in BOOLEAN : CreateContext(e, s)
  \/ SaveParms
  \/ \E new \in BOOLEAN : LoadParms(new)
NextCipherCalls ==
  \/ \E n \in {1, 3}, fill \in BOOLEAN : Like(n, fill)
  \/ \E l \in DOMAIN context.levels, n \in {1, 2, 3}, b \in BOOLEAN : Resize(context.levels[l].parms.id, n, b, b)
  \/ Resize(Zero, 2, TRUE, TRUE)
  \/ \E n \in {1, 3} : ReconfigureLike(Len(context.levels), n, TRUE)
  \/ \E d \in BOOLEAN : ConveyCipher(d)
  \/ ExpandSeed
  \/ \E o \in Overheads, mode \in {"Nil", "Zstd"} : SaveCipher(mode, o) \/ \E t \in TermLists : SaveTerms(t, mode, o)
  \/ \E new \in BOOLEAN : LoadCipher(new) \/ LoadTerms(new)
NextPlainCalls ==
  \/ \E fill \in BOOLEAN : PlainLike(fill)
  \/ \E n \in {0, 3}, b \in BOOLEAN : ResizePlain(n, b, b) \/ \E l \in DOMAIN context.levels : ResizeRns(l, n, b, b)
  \/ \E d \in BOOLEAN : ConveyPlain(d)
  \/ \E o \in Overheads, mode \in {"Nil", "Zstd"} : SavePlain(mode, o)
  \/ \E new \in BOOLEAN : LoadPlain(new)
NextKeysCalls ==
  \/ \E d \in BOOLEAN : ConveyKeys(d)
  \/ CloneKeys \/ ExpandKeys
  \/ \E o \in Overheads, mode \in {"Nil", "Zstd"} : SaveKeys(mode, o)
  \/ LoadKeys
Next ==
  \/ obj.kind = "parms" /\ NextParmsCalls
  \/ obj.kind = "cipher" /\ NextCipherCalls
  \/ obj.kind = "plain" /\ NextPlainCalls
  \/ obj.kind = "keys" /\ NextKeysCalls
Spec == Init /\ [][Next]_vars

-----------------------------------------------------------------------------
(* he_context.cu: every level below the key level is valid and has one     *)
(* prime less than the one above it, levels are found by their ParmsID and *)
(* count down to the last; the chain stops only where the next level would *)
(* not be valid, and keys can be switched exactly when a prime was set     *)
(* aside for it.                                                           *)
ChainHolds ==
  context # Nothing =>
    LET L == context.levels
    IN  /\ \A i \in 2 .. Len(L) : L[i].is.parameter_error = "Success"
        /\ \A i \in DOMAIN L : /\ Len(L[i].parms.moduli) = Len(L[1].parms.moduli) + 1 - i
                               /\ get_context_data(L[i].parms.id) = {i}
                               /\ L[i].chain_index = Len(L) - i
        /\ Len(L) > 1 => L[1].is.parameter_error = "Success"
        /\ context.using_keyswitching <=> context.first = 2
        /\ context.using_keyswitching => ~L[1].parms.special
        /\ context.expanded /\ L[1].is.parameter_error = "Success" =>
             LET p == L[Len(L)].parms
             IN  Len(p.moduli) = 1 \/ validate(NextParms(p), context.secure) # "Success"

(* A ParmsID is that of the parameters it stands for. *)
IdTrue == obj.kind = "parms" /\ obj.id # Zero => obj.id = compute_parms_id(obj).id

(* ciphertext.cu, plaintext.cu: the words are as many as the header says.  *)
ShapeTrue ==
  /\ obj.kind = "cipher" => Len(obj.data) = obj.count * PolySize(obj) /\ obj.size = Len(ModuliOf(obj.id))
  /\ obj.kind = "plain" => Len(obj.data) = obj.count * (IF obj.id = Zero THEN 1 ELSE obj.size)

(* A ciphertext that was given another shape while it kept a seed goes on  *)
(* keeping it.                                                             *)
SeedStale(c) == c.seed # 0 /\ c # FreshCipher(CHOOSE i \in get_context_data(c.id) : TRUE, 2, c.ntt, c.seed, c.device)
WhatWasSaved ==
  LET c == meant.was
      q == ModuliOf(c.id)
      whole == IF c.seed # 0 THEN expand_seed(c) ELSE c
      left == [x \in 1 .. PolySize(c) |-> IF \E k \in DOMAIN meant.terms : meant.terms[k] = (x - 1) % c.degree
                                          THEN (IF c.ntt THEN intt(poly(c, 0), q) ELSE poly(c, 0))[x] ELSE 0]
  IN  IF ~meant.partly THEN whole ELSE Replaced(whole, 0, IF c.ntt THEN ntt(left, q) ELSE left)

(* What is loaded, into a new object or a used one, is what was saved,     *)
(* with its seed expanded and, where only some coefficients were asked     *)
(* for, the others zero.  Parameters of a scheme without a plain modulus   *)
(* leave that of a used object as it was.                                  *)
LoadsWhatWasSaved ==
  loaded =>
    CASE obj.kind = "cipher" -> SeedStale(meant.was) \/ obj = WhatWasSaved
      [] obj.kind = "plain"  -> obj = meant.was
      [] obj.kind = "keys"   -> /\ obj.rows = keys_expand_seed(meant.was).rows
                                /\ obj.id = meant.was.id
      [] obj.kind = "parms"  -> \/ obj = meant.was
                                \/ /\ obj.scheme \notin {"BFV", "BGV"}
                                   /\ obj = compute_parms_id([meant.was EXCEPT !.plain = obj.plain])

(* What a call says it wrote is what it wrote, and no more than it said    *)
(* beforehand that it would.                                               *)
SizesTrue ==
  stream # << >> =>
    /\ report = BytesOf(stream)
    /\ obj.kind = "keys" => report <= keys_serialized_size_upperbound(meant.was, "Zstd")

(* The list of addresses the kernels read the keys from is that of the     *)
(* keys, as long as they were not moved to the device or back.             *)
ListFollows == obj.kind = "keys" => obj.moved \/ obj.listed = obj.at

ObjectsReturn == ended = "no" => ChainHolds /\ IdTrue /\ ShapeTrue /\ LoadsWhatWasSaved /\ SizesTrue /\ ListFollows

(* kswitch_keys.h, readme.md: objects can be conveyed to other devices by  *)
(* calling their to_device, to_device_inplace and clone methods.           *)
ConveyedKeysUsable == obj.kind = "keys" /\ KeysOnDevice(obj) => obj.listed = obj.at
=============================================================================

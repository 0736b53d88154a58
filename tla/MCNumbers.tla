------------------------------- MODULE MCNumbers -------------------------------
(***************************************************************************)
(* The numbers of the encryption library, one part per behaviour:          *)
(* multi-word integers in words of two bits, arithmetic modulo a word in   *)
(* words of six, number theory in words of fourteen (for moduli of up to   *)
(* eleven bits), residue number systems in words of eight, and key         *)
(* switching, which is made of all of them, in a ring of degree two.       *)
(***************************************************************************)
EXTENDS Integers, Sequences

VARIABLES
  part,                                  \* which module is called
  call, w1,                              \* a call and its result
  w2, w3, w4, w5,                        \* the loop of a division
  w6, w7,                                \* the loop of try_primitive_root
  par, cts, caller, jobs, prod, dst      \* a key switch
division     == <<w2, w3, w4, w5>>
search       == <<w6, w7>>
switchVars   == <<par, cts, caller, jobs, prod, dst>>
allVars      == <<part, call, w1, division, search, switchVars>>

Wide  == INSTANCE WideIntCalls WITH
  WordBits <- 2, ret <- w1, numerator <- w2, quotient <- w3, numerator_bits <- w4, remaining_shifts <- w5
Small == INSTANCE SmallModCalls WITH WordBits <- 6, ret <- w1

(* Sizes that repeat, that have too few primes, and one above the limit. *)
Theory == INSTANCE NumberTheory WITH
  WordBits   <- 14,
  Inversions <- {2, 7, 12, 16, 30},
  NafMax     <- 70,
  Candidates <- {0, 1, 2, 9, 13, 14, 17, 121, 169, 257, 289, 323, 341, 353, 361, 391, 437,
                 499, 529, 561, 1387, 2045, 2047},
  RootModuli <- {17, 41, 97},
  Degrees    <- {2, 4, 8},
  BitSizes   <- {<<5>>, <<6, 7, 6>>, <<7, 7, 5, 7>>, <<8, 6, 8, 8>>, <<4, 4>>, <<9, 6>>},
  TRY_PRIMITIVE_ROOT_NUM_ROUNDS <- 2,
  HE_USER_MOD_BIT_COUNT_MAX <- 8,
  HE_USER_MOD_BIT_COUNT_MIN <- 2,
  ret <- w1, attempts <- w6, root <- w7

Residues == INSTANCE Rns WITH
  ret <- w1,
  WordBits <- 8, ReservedBits <- 4, InternalBits <- 6,
  InternalPrimes <- <<61, 59, 53, 47, 43>>,
  MTilde <- 16, FloatSlack <- 2,
  Tools <- {<< <<13, 17>>, 5>>, << <<17, 13>>, 7>>, << <<29, 17>>, 23>>, << <<29>>, 3>>,
            << <<5, 13, 17>>, 3>>},
  Bases <- {<< >>, <<5, 0>>, <<6, 4>>, <<7>>, <<4, 7>>, <<3, 4, 5>>}

(* Two primes, one on either side of the special prime, and ciphertexts of *)
(* two, three and four polynomials.                                        *)
SwitchModulus == <<37, 53, 41>>
SwitchPsi     == <<6, 23, 9>>
SwitchSecrets == {<<1, -1>>, <<-1, 0>>, <<0, 1>>}
SwitchNoises  == {<<0, 0>>, <<1, -1>>}
SwitchPolys   == {<< <<11, 800>>, <<950, 7>> >>, << <<100, -4>>, <<18, 1960>>, <<-700, 33>> >>,
                  << <<5, 6>>, <<400, 900>>, <<-9, 77>>, <<250, 1>> >>}
Switching == INSTANCE KeySwitch WITH
  KeyModulus <- SwitchModulus, Psi <- SwitchPsi, PlainModulus <- 3,
  LazyBound <- 4, Word <- 512, BatchThreshold <- 2,
  Schemes <- {"BFV", "CKKS", "BGV"}, BgvForms <- {TRUE},
  Secrets <- SwitchSecrets, Noises <- SwitchNoises, CtPolys <- SwitchPolys

ASSUME Wide!WordAssumption /\ Small!WordAssumption /\ Theory!WordAssumption
ASSUME Switching!KeySwitchConstants

Unused     == << >>
NoDivision == w2 = Unused /\ w3 = Unused /\ w4 = 0 /\ w5 = 0
NoSearch   == w6 = 0 /\ w7 = 0
NoCall     == w1 = Unused /\ NoDivision /\ NoSearch
NoSwitch   == par = Unused /\ cts = Unused /\ caller = Unused /\ jobs = Unused /\ prod = Unused /\ dst = Unused

Start ==
  \/ part = "wide" /\ Wide!Init /\ NoSearch /\ NoSwitch
  \/ part = "small" /\ Small!Init /\ NoDivision /\ NoSearch /\ NoSwitch
  \/ part = "theory" /\ Theory!Init /\ NoDivision /\ NoSwitch
  \/ part = "rns" /\ Residues!Init /\ NoDivision /\ NoSearch /\ NoSwitch
  \/ part = "switch" /\ Switching!Init /\ call = Unused /\ NoCall

Run ==
  \/ part = "wide" /\ Wide!Next /\ UNCHANGED <<part, search, switchVars>>
  \/ part = "small" /\ Small!Next /\ UNCHANGED <<part, division, search, switchVars>>
  \/ part = "theory" /\ Theory!Next /\ UNCHANGED <<part, division, switchVars>>
  \/ part = "rns" /\ Residues!Next /\ UNCHANGED <<part, division, search, switchVars>>
  \/ part = "switch" /\ Switching!Next /\ UNCHANGED <<part, call, w1, division, search>>
Spec == Start /\ [][Run]_allVars

-----------------------------------------------------------------------------
(* basics.h, basics.cu: carries and borrows ripple through every word,     *)
(* shifts move every bit across words, products are exact modulo the width *)
(* of the result, and the bit by bit division keeps its three numbers      *)
(* aligned until quotient and remainder are those of the division.         *)
WideExact ==
  part = "wide" => /\ Wide!SumsExact /\ Wide!ShiftsExact /\ Wide!ProductsExact
                   /\ Wide!DivisionAligned /\ Wide!DivisionExact

(* modulus.h, uint_small_mod.h: one subtraction corrects every Barrett     *)
(* reduction, products with a prepared operand are right for unreduced     *)
(* words too, sums of products reduced once do not overflow, and the rest  *)
(* is the arithmetic of the ring.                                          *)
SmallExact ==
  part = "small" => /\ Small!ReductionsExact /\ Small!OperandProductsExact
                    /\ Small!RingOperations /\ Small!DotProductExact /\ Small!PowersExact

(* The multi-word integers and the arithmetic modulo a word, together.     *)
WordsExact == WideExact /\ SmallExact

(* number_theory, coeff_modulus: whatever is drawn at random, primes are   *)
(* accepted, the moduli created are different primes that fit, and the     *)
(* root of unity found is the least one; inverses are returned exactly for *)
(* the units, and a non-adjacent form has no two neighbours.               *)
NumbersQualify ==
  part = "theory" => /\ Theory!PrimesAccepted /\ Theory!ModuliQualify /\ Theory!DefaultsFit
                     /\ Theory!RootIsLeast /\ Theory!InverseExact /\ Theory!NafRepresents

(* rns_base.cu, rns_tool.cu: composing inverts decomposing, dropping the   *)
(* last modulus rounds to nearest (and keeps a BGV message), a base        *)
(* extension stays small, t/q times a BFV product comes back as its floor, *)
(* both decryptions round the phase, and the fused kernels agree.          *)
RnsExact ==
  part = "rns" => /\ Residues!ComposeInverts /\ Residues!DivisionRounds /\ Residues!MessageSurvivesModT
                  /\ Residues!ExtensionIsSmall /\ Residues!ProductScaled /\ Residues!FusedAgrees
                  /\ Residues!DecryptionRounds /\ Residues!CentredModT

(* evaluator_keyswitching_core.cu: a switch keeps what a ciphertext means, *)
(* and the host's lazy sums and the kernels' reduced ones agree.           *)
SwitchKeepsPhase ==
  part = "switch" => Switching!TypeOK /\ Switching!SwitchKeepsPhase /\ Switching!HostAgrees
=============================================================================

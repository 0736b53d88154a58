------------------------------ MODULE ModArith ------------------------------
(***************************************************************************)
(* The 64-bit arithmetic of utils.cpp, at a width of W bits: the modular   *)
(* addition of a signed number that the server adds its noise with, and    *)
(* the threshold of the rejection sampler that draws the client's mask.    *)
(***************************************************************************)
EXTENDS Integers, FiniteSets

CONSTANT W  \* width of uint64_t and int64_t

WidthAssumption == W \in Nat /\ W > 1

Word   == 0 .. 2 ^ W - 1
Signed == - (2 ^ (W - 1)) .. 2 ^ (W - 1) - 1
U(x)   == x % 2 ^ W       \* unsigned arithmetic wraps


AddSignedMod(value, delta, modulus) ==
  LET v == value % modulus IN
  IF delta >= 0
  THEN LET addend == delta % modulus IN
       IF addend >= U(modulus - v) THEN U(addend - U(modulus - v))
       ELSE U(v + addend)
  ELSE LET subtrahend == U(U(-(delta + 1)) + 1) % modulus IN
       IF v >= subtrahend THEN U(v - subtrahend)
       ELSE U(modulus - U(subtrahend - v))

RejectionThreshold(upper_bound) == U(- upper_bound) % upper_bound

=============================================================================

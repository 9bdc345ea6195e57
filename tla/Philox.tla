------------------------------- MODULE Philox -------------------------------
(***************************************************************************)
(* The counter-based random numbers of include/llmt/core/rng.h:            *)
(* Philox4x32-10.  A draw encrypts a 128-bit counter made of a stream id   *)
(* and an index under a 64-bit key made of the seed, in Rounds rounds.     *)
(* Draws share nothing, so the draws of one seed are computed in step: a   *)
(* step is one iteration of philox()'s loop in every one of them.  The     *)
(* width of a word and of a float's mantissa are parameters.               *)
(***************************************************************************)
EXTENDS Integers, FiniteSets

CONSTANTS
  Levels, Dropped,   \* 2^24 and 2^8: a word has Levels * Dropped values
  M0, M1, W0, W1,    \* kPhiloxM0, kPhiloxM1, kPhiloxW0, kPhiloxW1
  Rounds,            \* 10
  Xor32(_, _),       \* ^ on words
  Seeds, Streams, Indices

Word == Levels * Dropped
U32 == 0 .. Word - 1
U64 == 0 .. Word * Word - 1

ASSUME PhiloxAssumption ==
  /\ Levels \in Nat \ {0} /\ Dropped \in Nat \ {0}
  /\ W0 \in U32 /\ W1 \in U32 /\ Rounds \in Nat
  /\ Seeds \subseteq U64 /\ Streams \subseteq U64 /\ Indices \subseteq U64

(* An odd factor has an inverse modulo a power of two.                     *)
ASSUME OddAssumption ==
  \A m \in {M0, M1} : m \in U32 /\ \E inverse \in U32 : (m * inverse) % Word = 1 % Word

ASSUME XorAssumption ==
  \A a, b \in U32 :
    Xor32(a, b) \in U32 /\ Xor32(a, b) = Xor32(b, a) /\ Xor32(Xor32(a, b), b) = a

U32x4 == [x : U32, y : U32, z : U32, w : U32]

-----------------------------------------------------------------------------
(* mulhilo: the two halves of the full product.                            *)
MulLo(a, b) == (a * b) % Word
MulHi(a, b) == (a * b) \div Word

(* Mutation: the high half of the product is kept twice.                   *)
RoundWithoutLow(c, k0, k1) ==
  [x |-> Xor32(Xor32(MulHi(M1, c.z), c.y), k0), y |-> MulHi(M1, c.z),
   z |-> Xor32(Xor32(MulHi(M0, c.x), c.w), k1), w |-> MulLo(M0, c.x)]

philox_round(c, k0, k1) ==
  [x |-> Xor32(Xor32(MulHi(M1, c.z), c.y), k0), y |-> MulLo(M1, c.z),
   z |-> Xor32(Xor32(MulHi(M0, c.x), c.w), k1), w |-> MulLo(M0, c.x)]

Draw == [stream : Streams, index : Indices]

Counter(d) ==
  [x |-> d.index % Word, y |-> d.index \div Word,
   z |-> d.stream % Word, w |-> d.stream \div Word]

VARIABLES
  c,        \* philox's block of each draw
  k0, k1,   \* the key
  r         \* iterations done

drawVars == <<c, k0, k1, r>>

InitDraws ==
  /\ c = [d \in Draw |-> Counter(d)]
  /\ \E seed \in Seeds : k0 = seed % Word /\ k1 = seed \div Word
  /\ r = 0

Round ==
  /\ r < Rounds
  /\ c' = [d \in Draw |-> philox_round(c[d], k0, k1)]
  /\ k0' = (k0 + W0) % Word
  /\ k1' = (k1 + W1) % Word
  /\ r' = r + 1

NextDraws == Round

DrawsSpec == InitDraws /\ [][NextDraws]_drawVars

-----------------------------------------------------------------------------
(* What the floats are made of: to_uniform keeps a word's upper bits, and  *)
(* normal() takes the logarithm of u1 and the cosine of u2, in units of    *)
(* 1 / Levels.                                                             *)
to_uniform(u) == u \div Dropped

(* Mutation: the wrap that the note in normal() warns of.                  *)
LogWrapped(block) == to_uniform((block.x + Dropped) % Word)
U1(block) == to_uniform(block.x) + 1
U2(block) == to_uniform(block.y)

DrawsTypeOK ==
  /\ c \in [Draw -> U32x4]
  /\ k0 \in U32 /\ k1 \in U32
  /\ r \in 0 .. Rounds

(* A seed never gives two draws the same four words: no stream of a run    *)
(* repeats another stream's numbers, and no stream repeats its own, however*)
(* close their ids and indices are.                                        *)
DrawsDistinct == Cardinality({c[d] : d \in Draw}) = Cardinality(Draw)

(* Over a whole period of the counter, normal() takes every pair of a      *)
(* logarithm's argument in (0, 1] and an angle in [0, 1) equally often:    *)
(* none is zero or above one, and none leans on the other.                 *)
PairsOf(level, angle) == {d \in Draw : U1(c[d]) = level /\ U2(c[d]) = angle}
DrawsBalanced ==
  r = Rounds /\ Streams = U64 /\ Indices = U64 =>
    \A level \in 1 .. Levels, angle \in 0 .. Levels - 1 :
      Cardinality(PairsOf(level, angle)) * Levels * Levels = Cardinality(Draw)
=============================================================================

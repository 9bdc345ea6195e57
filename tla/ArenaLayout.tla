---------------------------- MODULE ArenaLayout ----------------------------
(***************************************************************************)
(* The size_t arithmetic that the bump allocator (src/core/arena.cu) and   *)
(* the parameter store (src/model/param_store.cpp) lay device memory out   *)
(* with.  A size_t is a natural number below Word (2^64 in the code); a    *)
(* sum that can leave that range is taken modulo Word, as the code's is.   *)
(***************************************************************************)
EXTENDS Integers

CONSTANTS
  Align,  \* Arena::kAlign, 256 in the code
  Word    \* number of values of size_t, 2^64 in the code

ASSUME LayoutAssumption ==
  /\ Align \in Nat \ {0}
  /\ Word \in Nat \ {0}

Size == 0 .. Word - 1

DType == {"FP32", "BF16", "I32"}

DtypeSize(d) == IF d = "BF16" THEN 2 ELSE 4

(* Tensor::bytes: the signed element count is converted to size_t first,   *)
(* so a negative one becomes a huge size.                                  *)
Bytes(numel, d) == (numel * DtypeSize(d)) % Word

(* Mutations of AlignUp: the bias dropped, and the multiplication lost.    *)
AlignUpRoundsDown(n) == (n \div Align) * Align
AlignUpIsIdentity(n) == n

(* (n + kAlign - 1) / kAlign * kAlign.  Only the addition can wrap: what   *)
(* the division cuts off, the product cannot exceed.                       *)
AlignUp(n) == (((n + Align - 1) % Word) \div Align) * Align

(* Where a request lands when `used` bytes are taken, and the value that   *)
(* the capacity check compares.                                            *)
Aligned(used) == AlignUp(used)
End(used, bytes) == (Aligned(used) + bytes) % Word
Exhausted(used, bytes, capacity) == End(used, bytes) > capacity

-----------------------------------------------------------------------------
(* Regions of device memory, for stating properties.                       *)
Region == [off : Nat, bytes : Nat]

RegionsDisjoint(r, s) ==
  \/ r.off + r.bytes <= s.off
  \/ s.off + s.bytes <= r.off
=============================================================================

------------------------------ MODULE MCPhilox ------------------------------
(***************************************************************************)
(* Philox on words of three bits, two of them kept by to_uniform, with the *)
(* whole period of the counter.                                            *)
(***************************************************************************)
EXTENDS Philox, Bitwise

WordXor(a, b) == a ^^ b
SomeSeeds == {0, 1, 7, 8, 9, 21, 27, 34, 46, 55, 62, 63}
=============================================================================

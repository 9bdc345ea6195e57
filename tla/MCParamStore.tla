--------------------------- MODULE MCParamStore ---------------------------
(* Instances of ParamStore for TLC: three usable names and the empty one,  *)
(* an alignment of 8 bytes (two FP32 elements) for 256.                    *)
EXTENDS ParamStore

ShapeNumels == {-1, 0, 1, 2, 3}
AnyDtypes == {[k \in Kind |-> "FP32"],
              [k \in Kind |-> IF k = 0 THEN "BF16" ELSE "FP32"],
              [k \in Kind |-> IF k >= 2 THEN "BF16" ELSE "FP32"]}
=============================================================================

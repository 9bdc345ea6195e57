----------------------------- MODULE StoreCalls -----------------------------
(***************************************************************************)
(* What a program that uses the store expects: every call has its effect,  *)
(* all of it, when it is made.  This is how the header comments read; the  *)
(* calls really return while the device is still working (StoreStream).    *)
(***************************************************************************)
EXTENDS DeviceMemory

VARIABLES
  mem,       \* the memory
  finalized  \* finalize() has run, so the views are valid

vars == <<mem, finalized>>

Init ==
  /\ mem = [loc \in Location |-> Garbage]
  /\ finalized = FALSE

Finalize ==
  /\ ~finalized
  /\ finalized' = TRUE
  /\ mem' = Run(mem, FinalizeOps)

Call(ops) ==
  /\ mem' = Run(mem, ops)
  /\ UNCHANGED finalized

(* init_params fills every parameter, in an order that does not matter.    *)
InitParams ==
  /\ finalized
  /\ mem' = [loc \in Location |->
               LET writers == {p \in Params : loc \in Fill(p).dst} IN
                 IF writers = {} THEN mem[loc]
                 ELSE Value(mem, Fill(CHOOSE p \in writers : TRUE))]
  /\ UNCHANGED finalized

Tensors == {Buffer(b) : b \in Buffers}

Forward ==
  \E p \in Params, y, x \in Tensors :
    finalized /\ y # x /\ Call(ForwardOps(p, y, x))

BackwardCall(p, dx, dy, x) ==
  finalized /\ dx \notin {dy, x} /\ Call(BackwardOps(p, dx, dy, x))

Backward ==
  \E p \in Params, dx, dy, x \in Tensors : BackwardCall(p, dx, dy, x)

(* "y may alias x ...; h may alias neither".                               *)
MlpForward(up, down, y, h, x) ==
  finalized /\ up # down /\ h \notin {x, y} /\ Call(MlpOps(up, down, y, h, x))

Mlp ==
  \E up, down \in Params, y, h, x \in Tensors : MlpForward(up, down, y, h, x)

Upload == \E b \in Buffers : Call(UploadOps(b))
Download == \E loc \in Location \ {Host} : Call(DownloadOps(loc))

Next == Finalize \/ InitParams \/ Forward \/ Backward \/ Mlp \/ Upload \/ Download

Spec == Init /\ [][Next]_vars

-----------------------------------------------------------------------------
(* The zeroing contract: after finalize() "alignment padding inside the    *)
(* spans must STAY zero", whatever runs on the store.                      *)
PaddingStaysZero ==
  finalized => \A kind \in Kind : mem[<<kind, "padding">>] = Zero

(* A gradient stays as it is, or its own parameter's backward() was called *)
(* and added the product of the tensors it was called with.                *)
Accumulation ==
  finalized =>
    \A p \in Params :
      \/ mem'[Grad(p)] = mem[Grad(p)]
      \/ \E dx, dy, x \in Tensors :
           /\ BackwardCall(p, dx, dy, x)
           /\ mem'[Grad(p)] = Sum(mem[Grad(p)], <<"dyT x", mem[dy], mem[x]>>)

(* Invariant 9: backward "accumulates, never overwrites", and nothing else *)
(* touches a gradient between finalize() and the optimizer.                *)
GradAccumulates == [][Accumulation]_vars

Hidden(up, x) == <<"gelu", <<"x WT", mem[x], mem[Weight(up)]>>>>

(* A call that changes nothing has nothing to show.                        *)
Composition ==
  mem' # mem =>
    \A up, down \in Params, y, h, x \in Tensors :
      MlpForward(up, down, y, h, x) =>
        /\ mem'[h] = Hidden(up, x)
        /\ mem'[y] = <<"x WT", Hidden(up, x), mem[Weight(down)]>>

(* The MLP is the composition of its layers, of the x it was called with,  *)
(* also when y is x.                                                       *)
MlpCorrect == [][Composition]_vars
=============================================================================

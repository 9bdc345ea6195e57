---------------------------- MODULE DeviceMemory ----------------------------
(***************************************************************************)
(* The device memory of a finalized ParamStore and of some activation      *)
(* buffers, and the operations on it that finalize, init_params, Linear,   *)
(* MLP and the transfer helpers hand to CUDA.  A location holds a term: the*)
(* expression whose value is there.  Shapes are left out (Gemm checks what *)
(* a product reads and writes).                                            *)
(***************************************************************************)
EXTENDS Sequences, Integers

CONSTANTS
  Params,  \* the registered parameters
  Buffers  \* activation tensors, from an Arena

ASSUME DeviceMemoryAssumption == "padding" \notin Params

Kind == {"Weight", "Grad", "AdamM", "AdamV"}

(* A span is the slices of its parameters and the padding between them.    *)
Span(kind) == {kind} \X (Params \cup {"padding"})
Store == UNION {Span(kind) : kind \in Kind}
Weight(p) == <<"Weight", p>>
Grad(p) == <<"Grad", p>>
Buffer(b) == <<"buffer", b>>
Host == <<"host", "result">>  \* what the last download brought
Location == Store \cup {Buffer(b) : b \in Buffers} \cup {Host}

Garbage == <<"garbage">>
Zero == <<"zero">>
Sum(a, b) == <<"+", a, b>>

(* An operation writes one value to every location of dst.                 *)
Op(kernel, dst, src) == [kernel |-> kernel, dst |-> dst, src |-> src]

(* The value an operation computes from the memory it finds.  With beta 0  *)
(* a product does not read its destination, with beta 1 it adds to it.  A  *)
(* fill or an upload brings a value of its own for what it writes.         *)
Value(mem, op) ==
  LET In(j) == mem[op.src[j]] IN
    CASE op.kernel = "memset" -> Zero
      [] op.kernel = "accumulate" -> Sum(In(3), <<"dyT x", In(1), In(2)>>)
      [] op.kernel \in {"x WT", "dy W", "dyT x"} -> <<op.kernel, In(1), In(2)>>
      [] op.kernel = "gelu" -> <<"gelu", In(1)>>
      [] op.kernel = "copy" -> In(1)
      [] OTHER -> <<op.kernel, op.dst>>

Apply(mem, op) ==
  [loc \in Location |-> IF loc \in op.dst THEN Value(mem, op) ELSE mem[loc]]

(* The memory after a sequence of operations.                              *)
Run(mem, ops) ==
  LET after[n \in 0 .. Len(ops)] ==
        IF n = 0 THEN mem ELSE Apply(after[n - 1], ops[n])
  IN after[Len(ops)]

-----------------------------------------------------------------------------
(* The operations of each call, in the order they are issued.              *)
Memset(kind) == Op("memset", Span(kind), <<>>)

FinalizeOps == <<Memset("Weight"), Memset("Grad"), Memset("AdamM"), Memset("AdamV")>>

(* Mutation: the fill runs over the aligned slice, padding included.       *)
FillAligned(p) == Op("init", {Weight(p), <<"Weight", "padding">>}, <<>>)

(* fill_normal or fill_value, by role: numel elements, not the padding.    *)
Fill(p) == Op("init", {Weight(p)}, <<>>)

ForwardOps(p, y, x) == <<Op("x WT", {y}, <<x, Weight(p)>>)>>

(* Mutation: beta = 0 in the product for the gradient.                     *)
BackwardOverwrites(p, dx, dy, x) ==
  <<Op("dy W", {dx}, <<dy, Weight(p)>>), Op("dyT x", {Grad(p)}, <<dy, x>>)>>

BackwardOps(p, dx, dy, x) ==
  <<Op("dy W", {dx}, <<dy, Weight(p)>>),
    Op("accumulate", {Grad(p)}, <<dy, x, Grad(p)>>)>>

(* Mutation: the second product is issued before the activation.           *)
MlpOpsSwapped(up, down, y, h, x) ==
  ForwardOps(up, h, x) \o ForwardOps(down, y, h) \o <<Op("gelu", {h}, <<h>>)>>

MlpOps(up, down, y, h, x) ==
  ForwardOps(up, h, x) \o <<Op("gelu", {h}, <<h>>)>> \o ForwardOps(down, y, h)

UploadOps(b) == <<Op("data", {Buffer(b)}, <<>>)>>
DownloadOps(loc) == <<Op("copy", {Host}, <<loc>>)>>
=============================================================================

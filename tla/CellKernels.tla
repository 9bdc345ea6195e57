---------------------------- MODULE CellKernels ----------------------------
(***************************************************************************)
(* The kernels of src/kernels and src/core/rng.cu, from the checks of their*)
(* host functions to the index arithmetic of their threads: each output    *)
(* element, pair of elements or row belongs to one worker, a thread or a   *)
(* warp (whose lanes WarpRow and BlockReduce take apart).  Tensors are     *)
(* row-major and flat, and several may lie in one memory; a value is the   *)
(* term that computes it from the elements before the call.                *)
(***************************************************************************)
EXTENDS Integers, Sequences

CONSTANTS
  Block,  \* kBlock, 256 in the code
  Warps,  \* kWarpsPerBlock, 8 in the code
  Calls   \* the calls: see CallType

DType == {"FP32", "BF16", "I32"}
MaxRank == 4
IsShape(s) == s \in Seq(Nat) /\ Len(s) <= MaxRank

(* The arguments of the entries; fill_uniform and fill_normal differ in    *)
(* their formula only: fill_rng.                                           *)
Arguments ==
  [fill_value |-> {"dst"}, fill_rng |-> {"dst"}, gelu_fwd |-> {"x", "y"},
   residual_fwd |-> {"a", "b", "out"}, permute_split |-> {"qkv", "q", "k", "v"},
   permute_merge |-> {"x", "y"}, embedding_fwd |-> {"tokens", "wte", "y"},
   rope_fwd |-> {"q", "k"}, softmax_fwd |-> {"x", "y"},
   rmsnorm_fwd |-> {"x", "g", "y", "rstd"},
   cross_entropy_fwd |-> {"logits", "targets", "mask", "row_nll", "loss"}]

(* fill_rng's length and rope's theta may be any number; the others have   *)
(* no use for param, but permute_split's n_head and softmax's mask (1 is   *)
(* causal) are passed there.  place names the memory of each argument, ids *)
(* the contents of tokens or targets.                                      *)
IsCall(c) ==
  /\ DOMAIN c = {"entry", "arg", "place", "param", "type", "ids"}
  /\ c.entry \in DOMAIN Arguments /\ DOMAIN c.arg = Arguments[c.entry]
  /\ \A a \in DOMAIN c.arg :
       /\ IsShape(c.arg[a].shape)
       /\ c.arg[a].dtype \in DType
       /\ c.arg[a].data \in BOOLEAN
  /\ c.place \in [DOMAIN c.arg -> DOMAIN c.arg]
  /\ c.param \in Int /\ c.type \in DType

(* What the headers ask of a caller and the code does not check: which     *)
(* arguments may be one memory, ids below the vocabulary's size (which is  *)
(* not empty), and a pointer to as many floats as fill_rng is to write.    *)
MayAlias(entry) ==
  CASE entry \in {"gelu_fwd", "residual_fwd", "softmax_fwd"} -> Arguments[entry]
    [] entry = "rmsnorm_fwd" -> {"x", "y"}
    [] OTHER -> {}

IdsBelow(c, vocabulary) ==
  {0} \cup {c.ids[n] : n \in DOMAIN c.ids} \subseteq 0 .. vocabulary - 1

KeepsContract(c) ==
  /\ \A a \in DOMAIN c.arg : c.place[a] # a => {a, c.place[a]} \subseteq MayAlias(c.entry)
  /\ c.entry = "embedding_fwd" /\ Len(c.arg["wte"].shape) = 2 =>
       IdsBelow(c, c.arg["wte"].shape[1])
  /\ c.entry = "cross_entropy_fwd" /\ Len(c.arg["logits"].shape) = 3 =>
       IdsBelow(c, c.arg["logits"].shape[3])
  /\ c.entry = "fill_rng" =>
       /\ c.arg["dst"].data /\ c.arg["dst"].dtype = "FP32"
       /\ Len(c.arg["dst"].shape) = 1 /\ c.param <= c.arg["dst"].shape[1]

ASSUME CellKernelsAssumption ==
  /\ Block \in Nat \ {0} /\ Warps \in Nat \ {0}
  /\ \A c \in Calls : IsCall(c) /\ KeepsContract(c)

VARIABLES
  call,
  pc,     \* "check", a kernel of the call, "done" or "fatal"
  cells   \* the elements that have been written, and their terms

vars == <<call, pc, cells>>

Init ==
  /\ call \in Calls
  /\ pc = "check"
  /\ cells = <<>>

Arg(a) == call.arg[a]
Dim(a, n) == Arg(a).shape[n]
Rank(a) == Len(Arg(a).shape)

(* Shape::numel: a tensor without a shape has no elements.                 *)
Numel(a) ==
  LET s == Arg(a).shape
      product[n \in 0 .. Len(s)] == IF n = 0 THEN 1 ELSE s[n] * product[n - 1]
  IN IF s = <<>> THEN 0 ELSE product[Len(s)]

valid(a) == Arg(a).data /\ Arg(a).shape # <<>>

OfType(names, type) == \A a \in names : Arg(a).dtype = type
OfShape(names, shape) == \A a \in names : Arg(a).shape = shape

-----------------------------------------------------------------------------
(* The host checks, and the types that the switch over DType has an        *)
(* instance for.                                                           *)

HeadDim ==
  CASE call.entry = "permute_split" -> Dim("qkv", 3) \div (3 * call.param)
    [] call.entry = "permute_merge" -> Dim("x", 4)

Causal == call.param = 1

Inner == IF call.entry = "permute_split" THEN Dim("qkv", 3) \div 3 ELSE Dim("x", 2) * HeadDim

Elementwise(x) ==
  OfShape(DOMAIN call.arg, Arg(x).shape) /\ OfType(DOMAIN call.arg, "FP32")

SplitFits ==
  /\ Rank("qkv") = 3
  /\ call.param > 0 /\ Dim("qkv", 3) % (3 * call.param) = 0
  /\ OfShape({"q", "k", "v"}, <<Dim("qkv", 1), call.param, Dim("qkv", 2), HeadDim>>)
  /\ OfType(DOMAIN call.arg, "FP32")

MergeFits ==
  /\ Rank("x") = 4
  /\ Arg("y").shape = <<Dim("x", 1), Dim("x", 3), Dim("x", 2) * Dim("x", 4)>>
  /\ OfType({"x", "y"}, "FP32")

EmbeddingFits ==
  /\ Rank("tokens") = 2 /\ Rank("wte") = 2
  /\ Arg("y").shape = Append(Arg("tokens").shape, Dim("wte", 2))
  /\ OfType({"tokens"}, "I32") /\ OfType({"y", "wte"}, "FP32")

RopeFits ==
  /\ \A a \in {"q", "k"} : Rank(a) = 4 /\ Dim(a, 4) % 2 = 0
  /\ call.param > 0
  /\ OfType({"q", "k"}, "FP32")

SoftmaxFits ==
  /\ Rank("x") = 3
  /\ Arg("y").shape = Arg("x").shape
  /\ Causal => Dim("x", 2) = Dim("x", 3)
  /\ call.type = "FP32" /\ OfType({"x", "y"}, "FP32")

(* Mutation: a gain of any length.                                         *)
AnyGain(g) == TRUE
GainFits(g) == Arg(g).shape = <<Dim("x", 2)>>

RmsnormFits ==
  /\ Rank("x") = 2
  /\ Arg("y").shape = Arg("x").shape
  /\ GainFits("g") /\ Arg("rstd").shape = <<Dim("x", 1)>>
  /\ call.type = "FP32" /\ OfType(DOMAIN call.arg, "FP32")

CrossEntropyFits ==
  /\ Rank("logits") = 3
  /\ OfShape({"targets", "mask", "row_nll"}, SubSeq(Arg("logits").shape, 1, 2))
  /\ Numel("loss") = 1
  /\ OfType({"targets"}, "I32") /\ OfType(DOMAIN call.arg \ {"targets"}, "FP32")
  /\ call.type = "FP32"

(* The reduce type of the policy, or fill_value's T, is call.type.         *)
Fits ==
  CASE call.entry = "fill_value" -> Arg("dst").dtype = call.type
    [] call.entry = "gelu_fwd" -> Elementwise("x")
    [] call.entry = "residual_fwd" -> Elementwise("a")
    [] call.entry = "permute_split" -> SplitFits
    [] call.entry = "permute_merge" -> MergeFits
    [] call.entry = "embedding_fwd" -> EmbeddingFits
    [] call.entry = "rope_fwd" -> RopeFits
    [] call.entry = "softmax_fwd" -> SoftmaxFits
    [] call.entry = "rmsnorm_fwd" -> RmsnormFits
    [] call.entry = "cross_entropy_fwd" -> CrossEntropyFits

(* fill_rng takes a pointer and checks nothing.                            *)
Accepts ==
  call.entry = "fill_rng" \/ (Fits /\ \A a \in DOMAIN call.arg : valid(a))

(* The kernels of a call, named after the tensor or rows they work on.     *)
FirstKernel ==
  CASE call.entry = "rope_fwd" -> "q"
    [] call.entry = "cross_entropy_fwd" -> "rows"
    [] call.entry = "fill_rng" /\ call.param <= 0 -> "done"
    [] OTHER -> "all"

Check ==
  /\ pc = "check"
  /\ pc' = IF Accepts THEN FirstKernel ELSE "fatal"
  /\ UNCHANGED <<call, cells>>

-----------------------------------------------------------------------------
(* The grid of the kernel pc.                                              *)
Rows == CASE call.entry = "softmax_fwd" -> Dim("x", 1) * Dim("x", 2)
          [] call.entry = "rmsnorm_fwd" -> Dim("x", 1)
          [] call.entry = "cross_entropy_fwd" -> Dim("logits", 1) * Dim("logits", 2)

RowKernel == call.entry \in {"softmax_fwd", "rmsnorm_fwd"} \/ pc = "rows"

(* The number of workers that have work: rope has one for each pair.       *)
Work ==
  CASE RowKernel -> Rows
    [] pc = "mean" -> 1
    [] call.entry = "rope_fwd" -> Numel(pc) \div 2
    [] call.entry = "fill_rng" -> call.param
    [] call.entry = "fill_value" -> Numel("dst")
    [] call.entry = "residual_fwd" -> Numel("a")
    [] call.entry = "gelu_fwd" -> Numel("x")
    [] call.entry = "permute_split" -> Numel("q")
    [] OTHER -> Numel("y")

(* The code casts the number of blocks to unsigned, the identity below 2^32*)
(* blocks: with more, of eight rows or of 256 elements, an FP32 tensor     *)
(* would take over 128 GiB for each column, or over 4 TiB.                 *)
PerBlock == IF RowKernel THEN Warps ELSE IF pc = "mean" THEN 1 ELSE Block
Grid == (Work + PerBlock - 1) \div PerBlock

(* Mutation: every worker of the grid works.                               *)
ActiveAll == 0 .. Grid * PerBlock - 1

Active == {i \in 0 .. Grid * PerBlock - 1 : i < Work}

-----------------------------------------------------------------------------
(* What a worker writes: for each of its cells, an operation on cells.     *)

Cell(a, i) == <<call.place[a], i>>
Term(op, from, at) == [op |-> op, from |-> from, at |-> at]
Line(a, row, width) == [n \in 1 .. width |-> Cell(a, row * width + n - 1)]

(* An element of tokens or targets, whatever lies behind their end.        *)
Id(row) == IF row \in DOMAIN call.ids THEN call.ids[row] ELSE 0

Elements(a, i, term) == [c \in {Cell(a, i)} |-> term]

(* Mutation: the head is the faster axis of the output.                    *)
HeadAndTimeSwapped(n, seq) == <<n % call.param, (n \div call.param) % seq>>
HeadAndTime(n, seq) == <<(n \div seq) % call.param, n % seq>>

Split(i) ==
  LET seq == Dim("qkv", 2)
      d == i % HeadDim
      ht == HeadAndTime(i \div HeadDim, seq)
      b == i \div (HeadDim * seq * call.param)
      src == (b * seq + ht[2]) * 3 * Inner + ht[1] * HeadDim + d
  IN [c \in {Cell(a, i) : a \in {"q", "k", "v"}} |->
        Term("copy", <<Cell("qkv", CASE c = Cell("q", i) -> src
                                     [] c = Cell("k", i) -> src + Inner
                                     [] c = Cell("v", i) -> src + 2 * Inner)>>, <<>>)]

Merge(i) ==
  LET seq == Dim("x", 3)
      d == i % HeadDim
      h == (i \div HeadDim) % Dim("x", 2)
      t == (i \div Inner) % seq
      b == i \div (Inner * seq)
  IN Elements("y", i,
       Term("copy", <<Cell("x", ((b * Dim("x", 2) + h) * seq + t) * HeadDim + d)>>, <<>>))

Embed(i) ==
  LET width == Dim("wte", 2)
      row == i \div width
  IN Elements("y", i, Term("gather", <<Cell("wte", Id(row) * width + (i % width)),
                                       Cell("tokens", row)>>, <<>>))

(* Mutation: the neighbour of the channel, not its twin in the other half. *)
TwinNext(d, half) == d + 1
Twin(d, half) == d + half

(* rope writes over what it reads: (x1 c - x2 s, x2 c + x1 s), by an angle *)
(* that depends on the position and the channel of the pair.               *)
Rotate(i) ==
  LET hd == Dim(pc, 4)
      d == i % (hd \div 2)
      row == i \div (hd \div 2)
      x1 == Cell(pc, row * hd + d)
      x2 == Cell(pc, row * hd + Twin(d, hd \div 2))
  IN [c \in {x1, x2} |->
        Term("rotate", IF c = x1 THEN <<x1, x2>> ELSE <<x2, x1>>, <<row % Dim(pc, 3), d>>)]

SoftmaxRow(row) ==
  LET tk == Dim("x", 3)
      limit == IF Causal THEN (row % Dim("x", 2)) + 1 ELSE tk
      seen == SubSeq(Line("x", row, tk), 1, limit)
  IN [c \in {Cell("y", row * tk + n) : n \in 0 .. tk - 1} |->
        IF c[2] - row * tk < limit
          THEN Term("softmax", <<seen[c[2] - row * tk + 1]>> \o seen, <<>>)
          ELSE Term("zero", <<>>, <<>>)]

RmsnormRow(row) ==
  LET width == Dim("x", 2)
      x == Line("x", row, width)
  IN [c \in {Cell("y", row * width + n) : n \in 0 .. width - 1} \cup {Cell("rstd", row)} |->
        IF c = Cell("rstd", row) THEN Term("rstd", x, <<>>)
        ELSE LET n == c[2] - row * width
             IN Term("scaled", <<x[n + 1], Cell("g", n)>> \o x, <<>>)]

LossRow(row) ==
  LET v == Dim("logits", 3)
  IN Elements("row_nll", row,
       Term("nll", <<Cell("mask", row), Cell("targets", row),
                     Cell("logits", row * v + Id(row))>> \o Line("logits", row, v), <<>>))

Mean == Elements("loss", 0, Term("mean", Line("row_nll", 0, Rows) \o Line("mask", 0, Rows), <<>>))

Worker(i) ==
  CASE call.entry = "fill_value" -> Elements("dst", i, Term("value", <<>>, <<>>))
    [] call.entry = "fill_rng" -> Elements("dst", i, Term("draw", <<>>, <<i>>))
    [] call.entry = "gelu_fwd" -> Elements("y", i, Term("gelu", <<Cell("x", i)>>, <<>>))
    [] call.entry = "residual_fwd" ->
         Elements("out", i, Term("add", <<Cell("a", i), Cell("b", i)>>, <<>>))
    [] call.entry = "permute_split" -> Split(i)
    [] call.entry = "permute_merge" -> Merge(i)
    [] call.entry = "embedding_fwd" -> Embed(i)
    [] call.entry = "rope_fwd" -> Rotate(i)
    [] call.entry = "softmax_fwd" -> SoftmaxRow(i)
    [] call.entry = "rmsnorm_fwd" -> RmsnormRow(i)
    [] pc = "rows" -> LossRow(i)
    [] pc = "mean" -> Mean

-----------------------------------------------------------------------------
Kernels == {"all", "q", "k", "rows", "mean"}

(* An element that no kernel of the call has written is a term as well.    *)
Original(c) == Term(c[1], <<>>, <<c[2]>>)
Read(c) == IF c \in DOMAIN cells THEN cells[c] ELSE Original(c)
Evaluate(term) == [term EXCEPT !.from = [n \in DOMAIN term.from |-> Read(term.from[n])]]

(* A grid of zero blocks is an error, which CUDA_CHECK_LAST turns into an  *)
(* abort.  cross_entropy_fwd checks after its second launch only.          *)
LaunchError == Work = 0 \/ (pc = "mean" /\ Rows = 0)

NextKernel ==
  CASE pc = "rows" -> "mean"
    [] pc # "rows" /\ LaunchError -> "fatal"
    [] pc = "q" /\ ~LaunchError -> "k"
    [] pc \in {"all", "k", "mean"} /\ ~LaunchError -> "done"

(* A kernel runs: all its workers, in an order that OneWriter shows to be  *)
(* immaterial.                                                             *)
RunKernel ==
  /\ pc \in Kernels
  /\ LET work == [i \in Active |-> Worker(i)]
         written == UNION {DOMAIN work[i] : i \in Active}
     IN cells' = [c \in written \cup DOMAIN cells |->
                    IF c \in written
                      THEN Evaluate(work[CHOOSE i \in Active : c \in DOMAIN work[i]][c])
                      ELSE cells[c]]
  /\ pc' = NextKernel
  /\ UNCHANGED call

Next == Check \/ RunKernel

Spec == Init /\ [][Next]_vars

-----------------------------------------------------------------------------
(* No worker touches memory outside the tensors that the host has checked, *)
(* in the last block of the grid either, and the elements it finds there   *)
(* are of the type the kernel was instantiated for: a check that a host    *)
(* function leaves out shows here.                                         *)
ElementType(a) ==
  CASE a \in {"tokens", "targets"} -> "I32"
    [] call.entry = "fill_value" -> call.type
    [] OTHER -> "FP32"
InTensor(c) ==
  c[2] \in 0 .. Numel(c[1]) - 1 /\ Arg(c[1]).data /\ Arg(c[1]).dtype = ElementType(c[1])
InBounds ==
  pc \in Kernels =>
    \A i \in Active : LET writes == Worker(i) IN \A c \in DOMAIN writes :
      InTensor(c) /\ \A n \in DOMAIN writes[c].from : InTensor(writes[c].from[n])

(* Every cell a worker writes is its own: no other worker writes it, nor   *)
(* reads it, also when the output lies over an input (rope, and what the   *)
(* headers allow of gelu, residual, softmax and rmsnorm).                  *)
Reads(writes) == UNION {{writes[c].from[n] : n \in DOMAIN writes[c].from} : c \in DOMAIN writes}
OneWriter ==
  pc \in Kernels =>
    LET work == [i \in Active |-> Worker(i)]
    IN \A i, j \in Active :
         i # j => DOMAIN work[i] \cap (DOMAIN work[j] \cup Reads(work[j])) = {}

(* The definitions of the header comments, by coordinates, of the elements *)
(* before the call.                                                        *)
Below(n) == 0 .. n - 1
O(a, i) == Original(Cell(a, i))
Is(a, i, op, from, at) == cells[Cell(a, i)] = Term(op, from, at)
HeadAt(a, b, h, t, d) == ((b * Dim(a, 2) + h) * Dim(a, 3) + t) * Dim(a, 4) + d
RowAt(a, b, t, col) == (b * Dim(a, 2) + t) * Dim(a, 3) + col
Columns(a, first, n) == [k \in 1 .. n |-> O(a, first + k - 1)]

SplitRight ==
  \A b \in Below(Dim("q", 1)), h \in Below(Dim("q", 2)), t \in Below(Dim("q", 3)),
    d \in Below(Dim("q", 4)) :
      LET column == h * Dim("q", 4) + d
          width == Dim("q", 2) * Dim("q", 4)
      IN /\ Is("q", HeadAt("q", b, h, t, d), "copy", <<O("qkv", RowAt("qkv", b, t, column))>>, <<>>)
         /\ Is("k", HeadAt("k", b, h, t, d), "copy",
               <<O("qkv", RowAt("qkv", b, t, width + column))>>, <<>>)
         /\ Is("v", HeadAt("v", b, h, t, d), "copy",
               <<O("qkv", RowAt("qkv", b, t, 2 * width + column))>>, <<>>)

MergeRight ==
  \A b \in Below(Dim("x", 1)), h \in Below(Dim("x", 2)), t \in Below(Dim("x", 3)),
    d \in Below(Dim("x", 4)) :
      Is("y", RowAt("y", b, t, h * Dim("x", 4) + d), "copy", <<O("x", HeadAt("x", b, h, t, d))>>, <<>>)

EmbeddingRight ==
  \A b \in Below(Dim("y", 1)), t \in Below(Dim("y", 2)), k \in Below(Dim("y", 3)) :
    LET n == b * Dim("y", 2) + t
    IN Is("y", RowAt("y", b, t, k), "gather",
          <<O("wte", Id(n) * Dim("y", 3) + k), O("tokens", n)>>, <<>>)

RopeRight ==
  \A a \in {"q", "k"} :
    \A b \in Below(Dim(a, 1)), h \in Below(Dim(a, 2)), t \in Below(Dim(a, 3)),
      d \in Below(Dim(a, 4) \div 2) :
        LET x1 == HeadAt(a, b, h, t, d)
            x2 == HeadAt(a, b, h, t, d + Dim(a, 4) \div 2)
        IN /\ Is(a, x1, "rotate", <<O(a, x1), O(a, x2)>>, <<t, d>>)
           /\ Is(a, x2, "rotate", <<O(a, x2), O(a, x1)>>, <<t, d>>)

SoftmaxRight ==
  \A b \in Below(Dim("x", 1)), q \in Below(Dim("x", 2)), k \in Below(Dim("x", 3)) :
    LET visible == IF Causal THEN q + 1 ELSE Dim("x", 3)
        i == RowAt("x", b, q, k)
    IN IF k < visible
         THEN Is("y", i, "softmax", <<O("x", i)>> \o Columns("x", i - k, visible), <<>>)
         ELSE Is("y", i, "zero", <<>>, <<>>)

RmsnormRight ==
  \A n \in Below(Dim("x", 1)) :
    LET width == Dim("x", 2)
        row == Columns("x", n * width, width)
    IN /\ Is("rstd", n, "rstd", row, <<>>)
       /\ \A k \in Below(width) :
            Is("y", n * width + k, "scaled", <<O("x", n * width + k), O("g", k)>> \o row, <<>>)

CrossEntropyRight ==
  LET v == Dim("logits", 3)
      nll == [n \in 1 .. Rows |-> cells[Cell("row_nll", n - 1)]]
  IN /\ \A n \in Below(Rows) :
          Is("row_nll", n, "nll", <<O("mask", n), O("targets", n), O("logits", n * v + Id(n))>>
                                  \o Columns("logits", n * v, v), <<>>)
     /\ Is("loss", 0, "mean", nll \o Columns("mask", 0, Rows), <<>>)

Outputs ==
  CASE call.entry \in {"fill_value", "fill_rng"} -> {"dst"}
    [] call.entry = "residual_fwd" -> {"out"}
    [] call.entry = "permute_split" -> {"q", "k", "v"}
    [] call.entry = "rope_fwd" -> {"q", "k"}
    [] call.entry = "rmsnorm_fwd" -> {"y", "rstd"}
    [] call.entry = "cross_entropy_fwd" -> {"row_nll", "loss"}
    [] OTHER -> {"y"}
Asked(a) == IF call.entry = "fill_rng" THEN call.param ELSE Numel(a)

(* A call that returns has written every element of its outputs and        *)
(* nothing else, each with what the header defines, for extents that tell  *)
(* heads, positions and channels apart and for outputs over inputs; a call *)
(* on tensors without elements returns only if nothing was to be written.  *)
MatchesHeader ==
  pc = "done" =>
    /\ DOMAIN cells = UNION {{Cell(a, i) : i \in Below(Asked(a))} : a \in Outputs}
    /\ CASE call.entry = "fill_value" ->
              \A i \in Below(Numel("dst")) : Is("dst", i, "value", <<>>, <<>>)
         [] call.entry = "fill_rng" ->
              \A i \in Below(call.param) : Is("dst", i, "draw", <<>>, <<i>>)
         [] call.entry = "gelu_fwd" ->
              \A i \in Below(Numel("x")) : Is("y", i, "gelu", <<O("x", i)>>, <<>>)
         [] call.entry = "residual_fwd" ->
              \A i \in Below(Numel("a")) : Is("out", i, "add", <<O("a", i), O("b", i)>>, <<>>)
         [] call.entry = "permute_split" -> SplitRight
         [] call.entry = "permute_merge" -> MergeRight
         [] call.entry = "embedding_fwd" -> EmbeddingRight
         [] call.entry = "rope_fwd" -> RopeRight
         [] call.entry = "softmax_fwd" -> SoftmaxRight
         [] call.entry = "rmsnorm_fwd" -> RmsnormRight
         [] call.entry = "cross_entropy_fwd" -> CrossEntropyRight
=============================================================================

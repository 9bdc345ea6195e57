--------------------------- MODULE MCCellKernels ---------------------------
(***************************************************************************)
(* Calls for CellKernels: well-formed ones over small extents, zero among  *)
(* them, with every overlay of outputs and inputs the headers allow; and   *)
(* each of some of them with one argument spoilt.  Ids are in range, as the*)
(* headers of embedding_fwd and cross_entropy_fwd demand.                  *)
(***************************************************************************)
EXTENDS CellKernels

CONSTANTS Extents, HeadDims, Vocabulary

T(shape, dtype) == [shape |-> shape, dtype |-> dtype, data |-> TRUE]
F(shape) == T(shape, "FP32")

Call(entry, arg, place, param, type, ids) ==
  [entry |-> entry, arg |-> arg, place |-> place, param |-> param, type |-> type, ids |-> ids]
Apart(arg) == [a \in DOMAIN arg |-> a]
Plain(entry, arg, param) == Call(entry, arg, Apart(arg), param, "FP32", <<>>)

(* The output over an input, or apart.                                     *)
Overlays(arg, output, inputs) ==
  {[Apart(arg) EXCEPT ![output] = a] : a \in inputs \cup {output}}
Placed(call1, output, inputs) ==
  {[call1 EXCEPT !.place = p] : p \in Overlays(call1.arg, output, inputs)}

AnyShape == {<<n>> : n \in 0 .. 7} \cup {<<2, 3>>, <<0, 3>>, <<2, 2, 2>>, <<3, 1, 2, 1>>}

Fills ==
  {Call("fill_value", [dst |-> T(s, t)], [dst |-> "dst"], 0, t, <<>>) :
     s \in AnyShape, t \in {"FP32", "I32"}}
  \cup {Plain("fill_rng", [dst |-> F(<<7>>)], n) : n \in -1 .. 7}

Elements1 ==
  UNION {Placed(Plain("gelu_fwd", [x |-> F(s), y |-> F(s)], 0), "y", {"x"}) : s \in AnyShape}
  \cup UNION {Placed(Plain("residual_fwd", [a |-> F(s), b |-> F(s), out |-> F(s)], 0), "out", {"a", "b"}) :
              s \in AnyShape}
  \cup {[Plain("residual_fwd", [a |-> F(<<7>>), b |-> F(<<7>>), out |-> F(<<7>>)], 0)
           EXCEPT !.place = [a |-> "a", b |-> "a", out |-> "a"]]}

Heads == [b : Extents, h : Extents \ {0}, t : Extents, d : HeadDims]
HeadShape(s) == <<s.b, s.h, s.t, s.d>>

SplitCall(s) ==
  LET x == F(HeadShape(s))
  IN Plain("permute_split", [q |-> x, k |-> x, v |-> x, qkv |-> F(<<s.b, s.t, 3 * s.h * s.d>>)], s.h)
MergeCall(s) ==
  Plain("permute_merge", [x |-> F(HeadShape(s)), y |-> F(<<s.b, s.t, s.h * s.d>>)], 0)
RopeCall(s, h) ==
  Plain("rope_fwd", [q |-> F(HeadShape(s)), k |-> F(<<s.b, h, s.t, s.d>>)], 1)

Ids(n) == [0 .. n - 1 -> 0 .. Vocabulary - 1]

EmbeddingCall(b, t, d, ids) ==
  LET arg == [tokens |-> T(<<b, t>>, "I32"), wte |-> F(<<Vocabulary, d>>), y |-> F(<<b, t, d>>)]
  IN Call("embedding_fwd", arg, Apart(arg), 0, "FP32", ids)
LossCall(b, t, ids, loss) ==
  LET arg == [logits |-> F(<<b, t, Vocabulary>>), targets |-> T(<<b, t>>, "I32"),
              mask |-> F(<<b, t>>), row_nll |-> F(<<b, t>>), loss |-> F(loss)]
  IN Call("cross_entropy_fwd", arg, Apart(arg), 0, "FP32", ids)

SoftmaxCall(b, tq, tk, causal) ==
  Plain("softmax_fwd", [x |-> F(<<b, tq, tk>>), y |-> F(<<b, tq, tk>>)], causal)
RmsnormCall(n, width) ==
  Plain("rmsnorm_fwd", [x |-> F(<<n, width>>), y |-> F(<<n, width>>), g |-> F(<<width>>),
                        rstd |-> F(<<n>>)], 0)

(* Zero extents and odd head sizes are among them: some are refused.       *)
WellFormed ==
  Fills \cup Elements1
  \cup {SplitCall(s) : s \in Heads} \cup {MergeCall(s) : s \in Heads}
  \cup {RopeCall(s, h) : s \in {s \in Heads : s.b \in {0, 2}}, h \in {0, 2}}
  \cup UNION {{EmbeddingCall(b, t, d, ids) : ids \in Ids(b * t)} :
              b \in {0, 2}, t \in {1, 2}, d \in HeadDims}
  \cup UNION {{LossCall(b, t, ids, loss) : ids \in Ids(b * t)} :
              b \in {0, 1, 2}, t \in {1, 2}, loss \in {<<1>>, <<1, 1>>}}
  \cup UNION {Placed(SoftmaxCall(b, tq, tk, causal), "y", {"x"}) :
              b \in Extents, tq \in Extents, tk \in Extents, causal \in {0, 1}}
  \cup UNION {Placed(RmsnormCall(n, width), "y", {"x"}) : n \in 0 .. 7, width \in Extents}

(* One argument without memory, of another type, with an axis too many or  *)
(* too few, with an extent one larger or smaller, or with two exchanged.    *)
SpoiltTensors(t) ==
  {[t EXCEPT !.data = FALSE], [t EXCEPT !.shape = <<>>]}
  \cup {[t EXCEPT !.dtype = type] : type \in DType}
  \cup {[t EXCEPT !.shape = s] : s \in {s \in {Append(t.shape, 1)} : Len(s) <= MaxRank}}
  \cup {[t EXCEPT !.shape = Tail(@)]}
  \cup {[t EXCEPT !.shape[n] = @ + 1] : n \in DOMAIN t.shape}
  \cup {[t EXCEPT !.shape[n] = @ - 1] : n \in DOMAIN t.shape}
  \cup {[t EXCEPT !.shape[n] = t.shape[n + 1], !.shape[n + 1] = t.shape[n]] :
          n \in 1 .. Len(t.shape) - 1}

Spoilt(c) ==
  UNION {{[c EXCEPT !.arg[a] = t] : t \in SpoiltTensors(c.arg[a])} : a \in DOMAIN c.arg}
  \cup {[c EXCEPT !.param = n] : n \in -1 .. 3} \cup {[c EXCEPT !.type = "BF16"]}

Witnesses ==
  LET x == F(<<2, 3>>)
      s == [b |-> 2, h |-> 3, t |-> 2, d |-> 4]
      zeros == [n \in 0 .. 5 |-> 0]
  IN {Call("fill_value", [dst |-> x], [dst |-> "dst"], 0, "FP32", <<>>),
      Plain("gelu_fwd", [x |-> x, y |-> x], 0), Plain("residual_fwd", [a |-> x, b |-> x, out |-> x], 0),
      SplitCall(s), MergeCall(s), RopeCall(s, 1), EmbeddingCall(2, 3, 2, zeros),
      SoftmaxCall(2, 3, 3, 0), SoftmaxCall(2, 3, 3, 1), RmsnormCall(3, 2),
      LossCall(2, 3, zeros, <<1>>)}

AllCalls == WellFormed \cup UNION {Spoilt(c) : c \in Witnesses}
=============================================================================

----------------------------- MODULE GemmProofs -----------------------------
(***************************************************************************)
(* Proofs about Gemm.  The key of the algorithm cache determines the       *)
(* descriptors handed to cuBLASLt for every operand set that check()       *)
(* accepts; so a cached algorithm fits every call that finds it.  The      *)
(* problem without its strides determines the key; so equal problems find  *)
(* the same algorithm.  The column-major product that the descriptors name *)
(* is the row-major one, for every batch that they can describe.           *)
(* And about Attention, which is composed of such products: what each      *)
(* memory holds after each of its kernels, element by element.             *)
(***************************************************************************)
EXTENDS Gemm, Attention, DataFacts, TLAPS

(* What the checks of check() establish about the extents of the operands. *)
LEMMA AcceptedExtents ==
  ASSUME NEW o \in Operands, Accepted(o), NEW p, p = Problem(o)
  PROVE  /\ p.trans_a = o.trans_a /\ p.trans_b = o.trans_b
         /\ o.trans_a \in BOOLEAN /\ o.trans_b \in BOOLEAN
         /\ p.m \in Nat /\ p.n \in Nat /\ p.k \in Nat /\ p.batch \in Nat
         /\ Rows(o.a) = (IF p.trans_a THEN p.k ELSE p.m)
         /\ Cols(o.a) = (IF p.trans_a THEN p.m ELSE p.k)
         /\ Rows(o.b) = (IF p.trans_b THEN p.n ELSE p.k)
         /\ Cols(o.b) = (IF p.trans_b THEN p.k ELSE p.n)
         /\ Rows(o.c) = p.m /\ Cols(o.c) = p.n
         /\ Batch(o.a) = p.batch /\ Batch(o.b) = p.batch /\ Batch(o.c) = p.batch
         /\ p.dtype = "FP32"
         /\ p.stride_a = BatchStride(o.a)
         /\ p.stride_b = BatchStride(o.b)
         /\ p.stride_c = BatchStride(o.c)
<1>1. o \in [c : Tensor, a : Tensor, b : Tensor, trans_a : BOOLEAN, trans_b : BOOLEAN]
  BY GemmAssumption DEF Operands
<1>2. o.a \in Tensor /\ o.b \in Tensor /\ o.c \in Tensor
      /\ o.trans_a \in BOOLEAN /\ o.trans_b \in BOOLEAN
  BY <1>1
<1>3. /\ p.m = (IF o.trans_a THEN Cols(o.a) ELSE Rows(o.a))
      /\ p.n = (IF o.trans_b THEN Rows(o.b) ELSE Cols(o.b))
      /\ p.k = (IF o.trans_a THEN Rows(o.a) ELSE Cols(o.a))
      /\ p.batch = Batch(o.a)
      /\ p.stride_a = BatchStride(o.a)
      /\ p.stride_b = BatchStride(o.b)
      /\ p.stride_c = BatchStride(o.c)
      /\ p.dtype = o.a.dtype
      /\ p.trans_a = o.trans_a /\ p.trans_b = o.trans_b
  BY DEF Problem
<1>4. \A t \in {o.a, o.b, o.c} : Rank(t) \in {2, 3}
  BY DEF Accepted
<1>5. \A t \in {o.a, o.b, o.c} : Rows(t) \in Nat /\ Cols(t) \in Nat /\ Batch(t) \in Nat
  <2> SUFFICES ASSUME NEW t \in {o.a, o.b, o.c}
               PROVE  Rows(t) \in Nat /\ Cols(t) \in Nat /\ Batch(t) \in Nat
    OBVIOUS
  <2>1. t.shape \in Seq(Nat) /\ Len(t.shape) \in {2, 3}
    BY <1>2, <1>4 DEF Tensor, Rank
  <2>2. \A x \in 1 .. Len(t.shape) : t.shape[x] \in Nat
    BY <2>1
  <2>3. CASE Len(t.shape) = 2
    <3>1. Rows(t) = t.shape[1] /\ Cols(t) = t.shape[2] /\ Batch(t) = 1
      BY <2>3 DEF Rows, Cols, Batch, Rank
    <3> QED BY <2>2, <2>3, <3>1
  <2>4. CASE Len(t.shape) = 3
    <3>1. Rows(t) = t.shape[2] /\ Cols(t) = t.shape[3] /\ Batch(t) = t.shape[1]
      BY <2>4 DEF Rows, Cols, Batch, Rank
    <3> QED BY <2>2, <2>4, <3>1
  <2> QED BY <2>1, <2>3, <2>4
<1>6. /\ p.k = (IF o.trans_b THEN Cols(o.b) ELSE Rows(o.b))
      /\ Rows(o.c) = p.m /\ Cols(o.c) = p.n
      /\ Batch(o.b) = p.batch /\ Batch(o.c) = p.batch
      /\ o.a.dtype = "FP32"
  BY DEF Accepted, SameBatches, Problem
<1> QED BY <1>2, <1>3, <1>5, <1>6

(* The stride of a batch of more than one is the size of one item, because *)
(* only rank-3 tensors have such a batch.                                  *)
LEMMA StrideIsItemSize ==
  ASSUME NEW t, Batch(t) > 1
  PROVE  BatchStride(t) = Rows(t) * Cols(t)
BY DEF Batch, BatchStride

(* The flags of the key are the two transposes.                            *)
LEMMA FlagsDetermineTransposes ==
  ASSUME NEW a \in BOOLEAN, NEW b \in BOOLEAN, NEW c \in BOOLEAN, NEW d \in BOOLEAN,
         (IF a THEN 1 ELSE 0) + (IF b THEN 2 ELSE 0)
           = (IF c THEN 1 ELSE 0) + (IF d THEN 2 ELSE 0)
  PROVE  a = c /\ b = d
<1> DEFINE bit(x, w) == IF x THEN w ELSE 0
<1>1. /\ bit(a, 1) \in {0, 1} /\ bit(c, 1) \in {0, 1}
      /\ bit(b, 2) \in {0, 2} /\ bit(d, 2) \in {0, 2}
      /\ bit(a, 1) + bit(b, 2) = bit(c, 1) + bit(d, 2)
  OBVIOUS
<1>2. (a <=> bit(a, 1) = 1) /\ (c <=> bit(c, 1) = 1)
      /\ (b <=> bit(b, 2) = 2) /\ (d <=> bit(d, 2) = 2)
  OBVIOUS
<1> HIDE DEF bit
<1>3. bit(a, 1) = bit(c, 1) /\ bit(b, 2) = bit(d, 2)
  BY <1>1
<1>4. (a <=> c) /\ (b <=> d)
  BY <1>2, <1>3
<1> QED BY <1>4, Zenon

(* The key determines the descriptors: the strides and leading dimensions  *)
(* that it leaves out follow from the extents and the transposes.          *)
LEMMA KeyDeterminesDescriptors ==
  ASSUME NEW o \in Operands, NEW u \in Operands, Accepted(o), Accepted(u),
         Key(Problem(o)) = Key(Problem(u))
  PROVE  Descriptors(Problem(o)) = Descriptors(Problem(u))
<1> DEFINE p == Problem(o)
           q == Problem(u)
<1>1. /\ Key(p).m = p.m /\ Key(p).n = p.n /\ Key(p).k = p.k /\ Key(p).batch = p.batch
      /\ Key(p).flags = (IF p.trans_a THEN 1 ELSE 0) + (IF p.trans_b THEN 2 ELSE 0)
      /\ Key(q).m = q.m /\ Key(q).n = q.n /\ Key(q).k = q.k /\ Key(q).batch = q.batch
      /\ Key(q).flags = (IF q.trans_a THEN 1 ELSE 0) + (IF q.trans_b THEN 2 ELSE 0)
  BY DEF Key
<1>2. /\ p.trans_a \in BOOLEAN /\ p.trans_b \in BOOLEAN
      /\ q.trans_a \in BOOLEAN /\ q.trans_b \in BOOLEAN
  BY AcceptedExtents
<1>3. p.m = q.m /\ p.n = q.n /\ p.k = q.k /\ p.batch = q.batch
  BY <1>1
<1>4. p.trans_a = q.trans_a /\ p.trans_b = q.trans_b
  <2>1. Key(p).flags = Key(q).flags
    OBVIOUS
  <2> HIDE DEF p, q
  <2>2. (IF p.trans_a THEN 1 ELSE 0) + (IF p.trans_b THEN 2 ELSE 0)
          = (IF q.trans_a THEN 1 ELSE 0) + (IF q.trans_b THEN 2 ELSE 0)
    BY <1>1, <2>1, Zenon
  <2> QED BY <1>2, <2>2, FlagsDetermineTransposes, Zenon
<1>5. /\ Rows(o.a) = Rows(u.a) /\ Cols(o.a) = Cols(u.a)
      /\ Rows(o.b) = Rows(u.b) /\ Cols(o.b) = Cols(u.b)
      /\ Rows(o.c) = Rows(u.c) /\ Cols(o.c) = Cols(u.c)
  <2>1. /\ Rows(o.a) = (IF p.trans_a THEN p.k ELSE p.m)
        /\ Cols(o.a) = (IF p.trans_a THEN p.m ELSE p.k)
        /\ Rows(o.b) = (IF p.trans_b THEN p.n ELSE p.k)
        /\ Cols(o.b) = (IF p.trans_b THEN p.k ELSE p.n)
        /\ Rows(o.c) = p.m /\ Cols(o.c) = p.n
    BY AcceptedExtents
  <2>2. /\ Rows(u.a) = (IF q.trans_a THEN q.k ELSE q.m)
        /\ Cols(u.a) = (IF q.trans_a THEN q.m ELSE q.k)
        /\ Rows(u.b) = (IF q.trans_b THEN q.n ELSE q.k)
        /\ Cols(u.b) = (IF q.trans_b THEN q.k ELSE q.n)
        /\ Rows(u.c) = q.m /\ Cols(u.c) = q.n
    BY AcceptedExtents
  <2> HIDE DEF p, q
  <2> QED BY <1>3, <1>4, <2>1, <2>2
<1>6. p.batch > 1 => /\ p.stride_a = q.stride_a
                     /\ p.stride_b = q.stride_b
                     /\ p.stride_c = q.stride_c
  <2> SUFFICES ASSUME p.batch > 1
               PROVE  /\ p.stride_a = q.stride_a
                      /\ p.stride_b = q.stride_b
                      /\ p.stride_c = q.stride_c
    OBVIOUS
  <2>1. /\ Batch(o.a) > 1 /\ Batch(o.b) > 1 /\ Batch(o.c) > 1
        /\ p.stride_a = BatchStride(o.a)
        /\ p.stride_b = BatchStride(o.b)
        /\ p.stride_c = BatchStride(o.c)
    BY AcceptedExtents
  <2>2. /\ Batch(u.a) > 1 /\ Batch(u.b) > 1 /\ Batch(u.c) > 1
        /\ q.stride_a = BatchStride(u.a)
        /\ q.stride_b = BatchStride(u.b)
        /\ q.stride_c = BatchStride(u.c)
    BY <1>3, AcceptedExtents
  <2> HIDE DEF p, q
  <2> QED BY <1>5, <2>1, <2>2, StrideIsItemSize
<1>7. p.dtype = "FP32" /\ q.dtype = "FP32"
  BY AcceptedExtents
<1> HIDE DEF p, q
<1>8. \A rows, cols :
        /\ Layout(rows, cols, p.batch, p.stride_a) = Layout(rows, cols, q.batch, q.stride_a)
        /\ Layout(rows, cols, p.batch, p.stride_b) = Layout(rows, cols, q.batch, q.stride_b)
        /\ Layout(rows, cols, p.batch, p.stride_c) = Layout(rows, cols, q.batch, q.stride_c)
  BY <1>3, <1>6 DEF Layout
<1>9. Descriptors(p) = Descriptors(q)
  BY <1>3, <1>4, <1>7, <1>8 DEF Descriptors
<1> QED BY <1>9 DEF p, q

(* A problem determines its key, and its strides are not needed for that.  *)
LEMMA ProblemDeterminesKey ==
  ASSUME NEW o, NEW u, Unstrided(Problem(o)) = Unstrided(Problem(u))
  PROVE  Key(Problem(o)) = Key(Problem(u))
<1>1. ASSUME NEW x
      PROVE  /\ Unstrided(Problem(x)).m = Problem(x).m
             /\ Unstrided(Problem(x)).n = Problem(x).n
             /\ Unstrided(Problem(x)).k = Problem(x).k
             /\ Unstrided(Problem(x)).batch = Problem(x).batch
             /\ Unstrided(Problem(x)).dtype = Problem(x).dtype
             /\ Unstrided(Problem(x)).trans_a = Problem(x).trans_a
             /\ Unstrided(Problem(x)).trans_b = Problem(x).trans_b
  BY DEF Unstrided, Problem
<1> DEFINE p == Problem(o)
           q == Problem(u)
<1>2. /\ p.m = q.m /\ p.n = q.n /\ p.k = q.k /\ p.batch = q.batch
      /\ p.dtype = q.dtype /\ p.trans_a = q.trans_a /\ p.trans_b = q.trans_b
  BY <1>1, Zenon
<1> HIDE DEF p, q
<1>3. Key(p) = Key(q)
  BY <1>2 DEF Key
<1> QED BY <1>3 DEF p, q

-----------------------------------------------------------------------------
(* Read through the column-major layout of its buffer, the element in row c*)
(* and column r is the row-major element in row r and column c.            *)
LEMMA LayoutTransposes ==
  ASSUME NEW t, Rows(t) \in Nat, Cols(t) \in Nat, Batch(t) \in Nat,
         NEW i \in 0 .. Batch(t) - 1, NEW r \in Nat, NEW c \in Nat
  PROVE  LtOffset(Layout(Rows(t), Cols(t), Batch(t), BatchStride(t)), i, c, r)
           = RowMajor(t, i, r, c)
<1> DEFINE stride == IF Batch(t) > 1 THEN BatchStride(t) ELSE 0
<1>1. LtOffset(Layout(Rows(t), Cols(t), Batch(t), BatchStride(t)), i, c, r)
        = i * stride + c + r * Cols(t)
  BY DEF LtOffset, Layout
<1>2. i * stride = i * (Rows(t) * Cols(t))
  <2>1. CASE Batch(t) > 1
    BY <2>1, StrideIsItemSize
  <2>2. CASE ~(Batch(t) > 1)
    <3>1. i = 0 /\ stride = 0
      BY <2>2
    <3> QED BY <3>1
  <2> QED BY <2>1, <2>2
<1> HIDE DEF stride
<1>3. i * (Rows(t) * Cols(t)) = (i * Rows(t)) * Cols(t)
  OBVIOUS
<1>4. (i * Rows(t)) * Cols(t) + r * Cols(t) = (i * Rows(t) + r) * Cols(t)
  OBVIOUS
<1>5. (i * Rows(t)) * Cols(t) \in Int /\ r * Cols(t) \in Int
  OBVIOUS
<1> QED BY <1>1, <1>2, <1>3, <1>4, <1>5 DEF RowMajor

(* With the operands exchanged and each under its own flag, cuBLASLt reads *)
(* op(B) transposed from the A-slot and op(A) transposed from the B-slot.  *)
LEMMA SlotTransposes ==
  ASSUME NEW t, Rows(t) \in Nat, Cols(t) \in Nat, Batch(t) \in Nat,
         NEW trans \in BOOLEAN,
         NEW i \in 0 .. Batch(t) - 1, NEW r \in Nat, NEW c \in Nat
  PROVE  LtOperand(Layout(Rows(t), Cols(t), Batch(t), BatchStride(t)), Op(trans), i, c, r)
           = Element(t, trans, i, r, c)
<1>1. CASE trans
  BY <1>1, LayoutTransposes DEF LtOperand, Element, Op
<1>2. CASE ~trans
  BY <1>2, LayoutTransposes DEF LtOperand, Element, Op
<1> QED BY <1>1, <1>2

(* The three layouts, in terms of the tensors.                             *)
LEMMA DescribedTensors ==
  ASSUME NEW o \in Operands, Accepted(o), NEW d, d = Descriptors(Problem(o))
  PROVE  /\ d.op_a = Op(o.trans_b) /\ d.op_b = Op(o.trans_a)
         /\ d.a = Layout(Rows(o.b), Cols(o.b), Batch(o.b), BatchStride(o.b))
         /\ d.b = Layout(Rows(o.a), Cols(o.a), Batch(o.a), BatchStride(o.a))
         /\ d.c = Layout(Rows(o.c), Cols(o.c), Batch(o.c), BatchStride(o.c))
<1> DEFINE p == Problem(o)
<1>1. /\ p.trans_a = o.trans_a /\ p.trans_b = o.trans_b
      /\ Rows(o.a) = (IF p.trans_a THEN p.k ELSE p.m)
      /\ Cols(o.a) = (IF p.trans_a THEN p.m ELSE p.k)
      /\ Rows(o.b) = (IF p.trans_b THEN p.n ELSE p.k)
      /\ Cols(o.b) = (IF p.trans_b THEN p.k ELSE p.n)
      /\ Rows(o.c) = p.m /\ Cols(o.c) = p.n
      /\ Batch(o.a) = p.batch /\ Batch(o.b) = p.batch /\ Batch(o.c) = p.batch
      /\ p.stride_a = BatchStride(o.a)
      /\ p.stride_b = BatchStride(o.b)
      /\ p.stride_c = BatchStride(o.c)
  BY AcceptedExtents
<1>2. d = Descriptors(p)
  OBVIOUS
<1> HIDE DEF p
<1>3. /\ d.op_a = Op(p.trans_b) /\ d.op_b = Op(p.trans_a)
      /\ d.a = Layout(IF p.trans_b THEN p.n ELSE p.k,
                      IF p.trans_b THEN p.k ELSE p.n, p.batch, p.stride_b)
      /\ d.b = Layout(IF p.trans_a THEN p.k ELSE p.m,
                      IF p.trans_a THEN p.m ELSE p.k, p.batch, p.stride_a)
      /\ d.c = Layout(p.m, p.n, p.batch, p.stride_c)
  BY <1>2 DEF Descriptors
<1> QED BY <1>1, <1>3, Zenon

(* A batch that make_layout() can describe survives the conversion.        *)
LEMMA CountedBatch ==
  ASSUME NEW n \in 1 .. IntLimit - 1
  PROVE  AsInt32(n) = n
<1>1. IntLimit \in Nat /\ n \in Nat
  BY GemmAssumption
<1>2. /\ n + IntLimit \in Nat /\ 2 * IntLimit \in Nat \ {0}
      /\ n + IntLimit < 2 * IntLimit
  BY <1>1
<1>3. (n + IntLimit) % (2 * IntLimit) = n + IntLimit
  BY ONLY <1>2, SmallModulo
<1> QED BY <1>1, <1>3 DEF AsInt32

(* The dimensions agree, and the ranges of the two products are the same.  *)
LEMMA DescribedExtents ==
  ASSUME NEW o \in Operands, Accepted(o), Counted(o), NEW d, d = Descriptors(Problem(o)),
         NEW p, p = Problem(o)
  PROVE  /\ LtConforms(d)
         /\ d.c.batch = p.batch /\ d.c.rows = p.n /\ d.c.cols = p.m
         /\ OpCols(d.a, d.op_a) = p.k
<1>1. /\ p.trans_a = o.trans_a /\ p.trans_b = o.trans_b
      /\ o.trans_a \in BOOLEAN /\ o.trans_b \in BOOLEAN
      /\ p.m \in Nat /\ p.n \in Nat /\ p.k \in Nat
      /\ Rows(o.a) = (IF p.trans_a THEN p.k ELSE p.m)
      /\ Cols(o.a) = (IF p.trans_a THEN p.m ELSE p.k)
      /\ Rows(o.b) = (IF p.trans_b THEN p.n ELSE p.k)
      /\ Cols(o.b) = (IF p.trans_b THEN p.k ELSE p.n)
      /\ Rows(o.c) = p.m /\ Cols(o.c) = p.n
      /\ Batch(o.a) = p.batch /\ Batch(o.b) = p.batch /\ Batch(o.c) = p.batch
  BY AcceptedExtents
<1>2. /\ d.op_a = Op(o.trans_b) /\ d.op_b = Op(o.trans_a)
      /\ d.a.rows = Cols(o.b) /\ d.a.cols = Rows(o.b)
      /\ d.a.ld = Cols(o.b) /\ d.a.batch = Batch(o.b)
      /\ d.b.rows = Cols(o.a) /\ d.b.cols = Rows(o.a)
      /\ d.b.ld = Cols(o.a) /\ d.b.batch = Batch(o.a)
      /\ d.c.rows = Cols(o.c) /\ d.c.cols = Rows(o.c)
      /\ d.c.ld = Cols(o.c) /\ d.c.batch = Batch(o.c)
  <2>1. /\ d.op_a = Op(o.trans_b) /\ d.op_b = Op(o.trans_a)
        /\ d.a = Layout(Rows(o.b), Cols(o.b), Batch(o.b), BatchStride(o.b))
        /\ d.b = Layout(Rows(o.a), Cols(o.a), Batch(o.a), BatchStride(o.a))
        /\ d.c = Layout(Rows(o.c), Cols(o.c), Batch(o.c), BatchStride(o.c))
    BY DescribedTensors
  <2>2. \A rows, cols, batch, stride :
          /\ Layout(rows, cols, batch, stride).rows = cols
          /\ Layout(rows, cols, batch, stride).cols = rows
          /\ Layout(rows, cols, batch, stride).ld = cols
          /\ Layout(rows, cols, batch, stride).batch = IF batch > 1 THEN AsInt32(batch) ELSE 1
    BY DEF Layout
  <2>3. \A t \in {o.a, o.b, o.c} : Batch(t) \in 1 .. IntLimit - 1
    BY <1>1 DEF Counted
  <2>4. \A t \in {o.a, o.b, o.c} : (IF Batch(t) > 1 THEN AsInt32(Batch(t)) ELSE 1) = Batch(t)
    BY <2>3, CountedBatch, GemmAssumption
  <2> QED BY <2>1, <2>2, <2>4
<1>3. /\ OpRows(d.a, d.op_a) = p.n /\ OpCols(d.a, d.op_a) = p.k
  <2>1. CASE o.trans_b BY <1>1, <1>2, <2>1 DEF Op, OpRows, OpCols
  <2>2. CASE ~o.trans_b BY <1>1, <1>2, <2>2 DEF Op, OpRows, OpCols
  <2> QED BY <2>1, <2>2
<1>4. /\ OpRows(d.b, d.op_b) = p.k /\ OpCols(d.b, d.op_b) = p.m
  <2>1. CASE o.trans_a BY <1>1, <1>2, <2>1 DEF Op, OpRows, OpCols
  <2>2. CASE ~o.trans_a BY <1>1, <1>2, <2>2 DEF Op, OpRows, OpCols
  <2> QED BY <2>1, <2>2
<1>5. d.a.ld >= d.a.rows /\ d.b.ld >= d.b.rows /\ d.c.ld >= d.c.rows
  <2>1. Cols(o.a) \in Nat /\ Cols(o.b) \in Nat /\ Cols(o.c) \in Nat
    BY <1>1
  <2> QED BY <1>2, <2>1
<1> QED BY <1>1, <1>2, <1>3, <1>4, <1>5 DEF LtConforms

(* The products coincide term by term.                                     *)
LEMMA SameProduct ==
  ASSUME NEW o \in Operands, Accepted(o), NEW d, d = Descriptors(Problem(o)),
         NEW p, p = Problem(o),
         NEW i \in 0 .. p.batch - 1, NEW r \in 0 .. p.m - 1,
         NEW c \in 0 .. p.n - 1, NEW z \in 0 .. p.k - 1
  PROVE  <<LtOffset(d.c, i, c, r), LtOperand(d.b, d.op_b, i, z, r),
           LtOperand(d.a, d.op_a, i, c, z)>>
         = <<RowMajor(o.c, i, r, c), Element(o.a, o.trans_a, i, r, z),
             Element(o.b, o.trans_b, i, z, c)>>
<1>1. /\ o.trans_a \in BOOLEAN /\ o.trans_b \in BOOLEAN
      /\ p.m \in Nat /\ p.n \in Nat /\ p.k \in Nat /\ p.batch \in Nat
      /\ Rows(o.a) = (IF p.trans_a THEN p.k ELSE p.m)
      /\ Cols(o.a) = (IF p.trans_a THEN p.m ELSE p.k)
      /\ Rows(o.b) = (IF p.trans_b THEN p.n ELSE p.k)
      /\ Cols(o.b) = (IF p.trans_b THEN p.k ELSE p.n)
      /\ Rows(o.c) = p.m /\ Cols(o.c) = p.n
      /\ Batch(o.a) = p.batch /\ Batch(o.b) = p.batch /\ Batch(o.c) = p.batch
  BY AcceptedExtents
<1>2. \A t \in {o.a, o.b, o.c} :
        Rows(t) \in Nat /\ Cols(t) \in Nat /\ Batch(t) \in Nat /\ i \in 0 .. Batch(t) - 1
  BY <1>1
<1>3. r \in Nat /\ c \in Nat /\ z \in Nat
  BY <1>1
<1>4. LtOffset(d.c, i, c, r) = RowMajor(o.c, i, r, c)
  BY <1>2, <1>3, DescribedTensors, LayoutTransposes
<1>5. LtOperand(d.b, d.op_b, i, z, r) = Element(o.a, o.trans_a, i, r, z)
  BY <1>1, <1>2, <1>3, DescribedTensors, SlotTransposes
<1>6. LtOperand(d.a, d.op_a, i, c, z) = Element(o.b, o.trans_b, i, z, c)
  BY <1>1, <1>2, <1>3, DescribedTensors, SlotTransposes
<1> QED BY <1>4, <1>5, <1>6

-----------------------------------------------------------------------------
(* The inductive invariant.  A call that has passed check() has operands   *)
(* that are accepted and a cache; every cached algorithm was resolved for  *)
(* the descriptors of some accepted problem with that key; and whatever was*)
(* or is about to be launched is what the cache holds under its key.       *)
InCall == pc \in {"lookup", "resolve", "launch"}

CallAccepted == InCall => Accepted(operands) /\ ctx.cache \in Caches

CacheSound ==
  \A h \in Caches : \A key \in DOMAIN cache[h] :
    \E o \in Operands : /\ Accepted(o)
                        /\ key = Key(Problem(o))
                        /\ cache[h][key].for = Descriptors(Problem(o))

CachedFor(o, h, resolved) ==
  /\ Key(Problem(o)) \in DOMAIN cache[h]
  /\ resolved = cache[h][Key(Problem(o))]

ResolvingMissing == pc = "resolve" => Key(Problem(operands)) \notin DOMAIN cache[ctx.cache]
LaunchingCached == pc = "launch" => CachedFor(operands, ctx.cache, algo)

LaunchedCached ==
  \A l \in launches :
    /\ l.cache \in Caches
    /\ \E o \in Operands : /\ Accepted(o)
                           /\ l.problem = Problem(o)
                           /\ CachedFor(o, l.cache, l.algo)

IInv ==
  /\ TypeOK
  /\ CallAccepted /\ ResolvingMissing /\ LaunchingCached
  /\ CacheSound /\ LaunchedCached

LEMMA InitIInv == Init => IInv
<1> SUFFICES ASSUME Init PROVE IInv
  OBVIOUS
<1>1. \A h \in Caches : cache[h] = <<>> /\ DOMAIN cache[h] = {}
  BY DEF Init
<1>2. TypeOK
  BY <1>1 DEF Init, TypeOK, Ctxs, Operands
<1>3. CallAccepted /\ ResolvingMissing /\ LaunchingCached /\ LaunchedCached
  BY DEF Init, CallAccepted, InCall, ResolvingMissing, LaunchingCached, LaunchedCached
<1>4. CacheSound
  BY <1>1 DEF CacheSound
<1> QED BY <1>2, <1>3, <1>4 DEF IInv

(* Steps that leave the caches and the launches alone keep their parts.    *)
LEMMA CachesUnchanged ==
  ASSUME IInv, UNCHANGED <<cache, launches>>
  PROVE  CacheSound' /\ LaunchedCached'
<1>1. CacheSound'
  BY DEF IInv, CacheSound
<1>2. LaunchedCached'
  BY DEF IInv, LaunchedCached, CachedFor
<1> QED BY <1>1, <1>2

LEMMA CallKeepsIInv ==
  ASSUME IInv, UNCHANGED program, NEW x \in Ctxs, NEW o \in Operands, Call(x, o)
  PROVE  IInv'
<1>1. /\ pc' \in {"lookup", "aborted"} /\ ctx' = x /\ operands' = o
      /\ UNCHANGED <<cache, algo, launches>>
  BY DEF Call
<1>2. TypeOK'
  BY <1>1 DEF IInv, TypeOK
<1>3. CallAccepted'
  <2>1. x \in [cache : Caches \cup {NoCache}, gemm_compute : DType, reduce : DType]
    BY GemmAssumption DEF Ctxs
  <2>2. x.cache \in Caches \cup {NoCache}
    BY <2>1
  <2>3. pc' = "lookup" => Accepted(o) /\ x.cache # NoCache
    BY DEF Call
  <2> QED BY <1>1, <2>2, <2>3 DEF CallAccepted, InCall
<1>4. ResolvingMissing' /\ LaunchingCached'
  BY <1>1 DEF ResolvingMissing, LaunchingCached
<1> QED BY <1>1, <1>2, <1>3, <1>4, CachesUnchanged DEF IInv

LEMMA ResolvedIsAnAnswer ==
  /\ NoResolved \notin ResolvedAlgo
  /\ \A answer \in ResolvedAlgo : answer.id \in Algos
  /\ \A id, p : Resolved(id, p).for = Descriptors(p)
<1>1. \A id, p : Resolved(id, p).id = id /\ Resolved(id, p).for = Descriptors(p)
  BY DEF Resolved
<1>2. NoResolved.id = NoAlgo
  BY DEF NoResolved
<1>3. ASSUME NEW r \in ResolvedAlgo PROVE r # NoResolved /\ r.id \in Algos
  <2>1. PICK id \in Algos, o \in Operands : r = Resolved(id, Problem(o))
    BY DEF ResolvedAlgo
  <2> QED BY <1>1, <1>2, <2>1, GemmAssumption
<1> QED BY <1>1, <1>3

LEMMA AbortKeepsIInv ==
  ASSUME IInv, UNCHANGED program, Abort
  PROVE  IInv'
<1>1. pc' = "aborted" /\ UNCHANGED <<cache, ctx, operands, algo, launches>>
  BY DEF Abort
<1>2. TypeOK' /\ CallAccepted' /\ ResolvingMissing' /\ LaunchingCached'
  BY <1>1 DEF IInv, TypeOK, CallAccepted, InCall, ResolvingMissing, LaunchingCached
<1> QED BY <1>1, <1>2, CachesUnchanged DEF IInv

LEMMA LookupKeepsIInv ==
  ASSUME IInv, UNCHANGED program, Lookup
  PROVE  IInv'
<1> DEFINE key == Key(Problem(operands))
           map == cache[ctx.cache]
<1>0. CASE Abort
  BY <1>0, AbortKeepsIInv
<1> SUFFICES ASSUME ~Abort PROVE IInv'
  BY <1>0
<1>1. /\ UNCHANGED <<cache, ctx, operands, launches>>
      /\ Accepted(operands) /\ ctx.cache \in Caches /\ operands \in Operands
  BY DEF Lookup, IInv, CallAccepted, InCall, TypeOK
<1>2. CallAccepted'
  BY <1>1 DEF CallAccepted
<1>3. CASE key \in DOMAIN map
  <2>1. algo' = map[key] /\ pc' = "launch"
    BY <1>3 DEF Lookup
  <2>2. map[key] \in ResolvedAlgo
    BY <1>1, <1>3 DEF IInv, TypeOK
  <2>3. TypeOK'
    BY <1>1, <2>1, <2>2, ResolvedIsAnAnswer DEF IInv, TypeOK
  <2>4. ResolvingMissing' /\ LaunchingCached'
    BY <1>1, <1>3, <2>1 DEF ResolvingMissing, LaunchingCached, CachedFor
  <2> QED BY <1>1, <1>2, <2>3, <2>4, CachesUnchanged DEF IInv
<1>4. CASE key \notin DOMAIN map
  <2>1. algo' = algo /\ pc' = "resolve"
    BY <1>4 DEF Lookup
  <2>2. TypeOK' /\ ResolvingMissing' /\ LaunchingCached'
    BY <1>1, <1>4, <2>1 DEF IInv, TypeOK, ResolvingMissing, LaunchingCached
  <2> QED BY <1>1, <1>2, <2>2, CachesUnchanged DEF IInv
<1> QED BY <1>3, <1>4

(* Storing an answer: what is launched next is in the cache, and what was  *)
(* cached stays what it was.                                               *)
LEMMA ResolveKeepsIInv ==
  ASSUME IInv, UNCHANGED program, Resolve, pc' = "launch"
  PROVE  IInv'
<1> DEFINE key == Key(Problem(operands))
           h == ctx.cache
           map == cache[h]
<1>1. PICK id \in Algos :
        /\ algo' = Resolved(id, Problem(operands))
        /\ cache' = [cache EXCEPT ![h] =
                       [x \in DOMAIN map \cup {key} |->
                          IF x = key THEN algo' ELSE map[x]]]
        /\ UNCHANGED <<ctx, operands, launches>>
  BY DEF Resolve, Abort, Stored, Answers
<1>2. /\ pc = "resolve" /\ Accepted(operands) /\ h \in Caches /\ operands \in Operands
      /\ key \notin DOMAIN map /\ DOMAIN cache = Caches
  BY DEF Resolve, IInv, CallAccepted, InCall, ResolvingMissing, TypeOK
<1>3. /\ DOMAIN cache' = Caches
      /\ DOMAIN cache'[h] = DOMAIN map \cup {key}
      /\ cache'[h][key] = algo'
      /\ \A x \in DOMAIN map : cache'[h][x] = map[x]
      /\ \A g \in Caches : g # h => cache'[g] = cache[g]
  <2> HIDE DEF map
  <2> QED BY <1>1, <1>2 DEF map
<1>4. \A g \in Caches : \A x \in DOMAIN cache[g] :
        x \in DOMAIN cache'[g] /\ cache'[g][x] = cache[g][x]
  BY <1>2, <1>3
<1>5. algo' \in ResolvedAlgo /\ key \in ProblemKey
  BY <1>1, <1>2 DEF ResolvedAlgo, ProblemKey
<1>6. \A g \in Caches : \A x \in DOMAIN cache'[g] :
        \/ x \in DOMAIN cache[g]
        \/ g = h /\ x = key /\ cache'[g][x] = algo'
  BY <1>2, <1>3
<1> HIDE DEF key, map, h
<1>7. TypeOK'
  <2>1. \A g \in Caches : /\ DOMAIN cache'[g] \subseteq ProblemKey
                          /\ \A x \in DOMAIN cache'[g] : cache'[g][x] \in ResolvedAlgo
    BY <1>4, <1>5, <1>6 DEF IInv, TypeOK
  <2> QED BY <1>1, <1>3, <1>5, <2>1, ResolvedIsAnAnswer DEF IInv, TypeOK
<1>8. CallAccepted' /\ ResolvingMissing'
  BY <1>1, <1>2 DEF CallAccepted, ResolvingMissing, h
<1>9. LaunchingCached'
  BY <1>1, <1>3 DEF LaunchingCached, CachedFor, key, h
<1>10. CacheSound'
  <2> SUFFICES ASSUME NEW g \in Caches, NEW x \in DOMAIN cache'[g]
               PROVE  \E o \in Operands : /\ Accepted(o)
                                          /\ x = Key(Problem(o))
                                          /\ cache'[g][x].for = Descriptors(Problem(o))
    BY DEF CacheSound
  <2>1. CASE x \in DOMAIN cache[g]
    BY <1>4, <2>1 DEF IInv, CacheSound
  <2>2. CASE g = h /\ x = key /\ cache'[g][x] = algo'
    BY <1>1, <1>2, <2>2, ResolvedIsAnAnswer DEF key
  <2> QED BY <1>6, <2>1, <2>2
<1>11. LaunchedCached'
  <2> SUFFICES ASSUME NEW l \in launches
               PROVE  /\ l.cache \in Caches
                      /\ \E o \in Operands : /\ Accepted(o)
                                             /\ l.problem = Problem(o)
                                             /\ CachedFor(o, l.cache, l.algo)'
    BY <1>1 DEF LaunchedCached
  <2>1. l.cache \in Caches
    BY DEF IInv, LaunchedCached
  <2>2. PICK o \in Operands : /\ Accepted(o)
                              /\ l.problem = Problem(o)
                              /\ CachedFor(o, l.cache, l.algo)
    BY DEF IInv, LaunchedCached
  <2>3. /\ Key(Problem(o)) \in DOMAIN cache'[l.cache]
        /\ l.algo = cache'[l.cache][Key(Problem(o))]
    BY <1>4, <2>1, <2>2 DEF CachedFor
  <2> QED BY <2>1, <2>2, <2>3 DEF CachedFor
<1> QED BY <1>7, <1>8, <1>9, <1>10, <1>11 DEF IInv

LEMMA LaunchKeepsIInv ==
  ASSUME IInv, UNCHANGED program, Launch, pc' = "idle"
  PROVE  IInv'
<1> DEFINE new == [cache |-> ctx.cache, problem |-> Problem(operands), algo |-> algo]
<1>1. /\ pc = "launch" /\ pc' = "idle" /\ algo' = NoResolved
      /\ launches' = launches \cup {new} /\ UNCHANGED <<cache, ctx, operands>>
  BY DEF Launch, Abort
<1>2. /\ Accepted(operands) /\ ctx.cache \in Caches /\ operands \in Operands
      /\ CachedFor(operands, ctx.cache, algo)
  BY <1>1 DEF IInv, TypeOK, CallAccepted, InCall, LaunchingCached
<1>3. TypeOK' /\ CallAccepted' /\ ResolvingMissing' /\ LaunchingCached'
  BY <1>1 DEF IInv, TypeOK, CallAccepted, InCall, ResolvingMissing, LaunchingCached
<1>4. CacheSound'
  BY <1>1 DEF IInv, CacheSound
<1>5. new.cache = ctx.cache /\ new.problem = Problem(operands) /\ new.algo = algo
  OBVIOUS
<1> HIDE DEF new
<1>6. \A l \in launches \cup {new} :
        /\ l.cache \in Caches
        /\ \E o \in Operands : /\ Accepted(o)
                               /\ l.problem = Problem(o)
                               /\ CachedFor(o, l.cache, l.algo)
  BY <1>2, <1>5 DEF IInv, LaunchedCached
<1>7. LaunchedCached'
  BY <1>1, <1>6 DEF LaunchedCached, CachedFor
<1> QED BY <1>3, <1>4, <1>7 DEF IInv

LEMMA NextKeepsIInv == IInv /\ [Next]_vars => IInv'
<1> SUFFICES ASSUME IInv, [Next]_vars PROVE IInv'
  OBVIOUS
<1>0. UNCHANGED program
  BY DEF Next, vars
<1>1. ASSUME NEW x \in program.ctxs, NEW o \in program.operands, Call(x, o) PROVE IInv'
  <2>1. x \in Ctxs /\ o \in Operands
    BY DEF IInv, TypeOK, Ctxs, Operands
  <2> QED BY <1>0, <1>1, <2>1, CallKeepsIInv
<1>2. CASE Lookup
  BY <1>0, <1>2, LookupKeepsIInv
<1>3. CASE Resolve
  <2>1. Abort \/ pc' = "launch"
    BY <1>3 DEF Resolve
  <2> QED BY <1>0, <1>3, <2>1, AbortKeepsIInv, ResolveKeepsIInv
<1>4. CASE Launch
  <2>1. Abort \/ pc' = "idle"
    BY <1>4 DEF Launch
  <2> QED BY <1>0, <1>4, <2>1, AbortKeepsIInv, LaunchKeepsIInv
<1>5. CASE UNCHANGED vars
  <2>1. UNCHANGED <<program, cache, pc, ctx, operands, algo, launches>>
    BY <1>5 DEF vars
  <2>2. TypeOK' /\ CallAccepted' /\ ResolvingMissing' /\ LaunchingCached'
    BY <2>1 DEF IInv, TypeOK, CallAccepted, InCall, ResolvingMissing,
                LaunchingCached, CachedFor
  <2> QED BY <2>1, <2>2, CachesUnchanged DEF IInv
<1> QED BY <1>1, <1>2, <1>3, <1>4, <1>5 DEF Next

LEMMA SpecIInv == Spec => []IInv
BY InitIInv, NextKeepsIInv, PTL DEF Spec

(* The caches hold answers of the heuristic under keys of accepted         *)
(* problems, and a call launches only with such an answer.                 *)
THEOREM GemmTypeOK == Spec => []TypeOK
<1>1. IInv => TypeOK
  BY DEF IInv
<1> QED BY <1>1, SpecIInv, PTL

(* The product cuBLASLt is asked for is the row-major product of the       *)
(* operands, element by element, for all extents and transposes and every  *)
(* batch of 1 to IntLimit - 1 items.                                       *)
THEOREM GemmComputesProduct == Spec => []ComputesProduct
<1>1. ASSUME NEW o \in Operands, Accepted(o), Counted(o), NEW d, d = Descriptors(Problem(o))
      PROVE  LtConforms(d) /\ LtProducts(d) = RowMajorProducts(o)
  <2> DEFINE p == Problem(o)
             lt(i, r, c, z) == <<LtOffset(d.c, i, c, r), LtOperand(d.b, d.op_b, i, z, r),
                                 LtOperand(d.a, d.op_a, i, c, z)>>
             rm(i, r, c, z) == <<RowMajor(o.c, i, r, c), Element(o.a, o.trans_a, i, r, z),
                                 Element(o.b, o.trans_b, i, z, c)>>
  <2>1. /\ LtConforms(d)
        /\ d.c.batch = p.batch /\ d.c.rows = p.n /\ d.c.cols = p.m
        /\ OpCols(d.a, d.op_a) = p.k
    BY <1>1, DescribedExtents
  <2>2. \A i \in 0 .. p.batch - 1, r \in 0 .. p.m - 1, c \in 0 .. p.n - 1, z \in 0 .. p.k - 1 :
          lt(i, r, c, z) = rm(i, r, c, z)
    BY <1>1, SameProduct
  <2>3. LtProducts(d) = {lt(i, r, c, z) : i \in 0 .. p.batch - 1, c \in 0 .. p.n - 1,
                                          r \in 0 .. p.m - 1, z \in 0 .. p.k - 1}
    BY <2>1 DEF LtProducts
  <2>4. RowMajorProducts(o) = {rm(i, r, c, z) : i \in 0 .. p.batch - 1, r \in 0 .. p.m - 1,
                                                c \in 0 .. p.n - 1, z \in 0 .. p.k - 1}
    BY DEF RowMajorProducts
  <2> HIDE DEF p, lt, rm
  <2>5. LtProducts(d) = RowMajorProducts(o)
    BY <2>2, <2>3, <2>4
  <2> QED BY <2>1, <2>5
<1>2. IInv => ComputesProduct
  BY <1>1 DEF IInv, TypeOK, CallAccepted, InCall, ComputesProduct
<1> QED BY <1>2, SpecIInv, PTL

(* Only an answer of the heuristic is launched, and only with the          *)
(* descriptors it was resolved for.                                        *)
THEOREM GemmAlgorithmFits == Spec => []AlgorithmFits
<1>1. ASSUME IInv, NEW l \in launches PROVE l.algo.id \in Algos /\ l.algo.for = Descriptors(l.problem)
  <2>1. PICK o \in Operands : /\ Accepted(o)
                              /\ l.problem = Problem(o)
                              /\ CachedFor(o, l.cache, l.algo)
    BY <1>1 DEF IInv, LaunchedCached
  <2>2. l.cache \in Caches
    BY <1>1 DEF IInv, LaunchedCached
  <2>3. PICK u \in Operands : /\ Accepted(u)
                              /\ Key(Problem(o)) = Key(Problem(u))
                              /\ cache[l.cache][Key(Problem(o))].for = Descriptors(Problem(u))
    BY <1>1, <2>1, <2>2 DEF IInv, CacheSound, CachedFor
  <2>4. l.algo \in ResolvedAlgo
    BY <1>1, <2>1, <2>2 DEF IInv, TypeOK, CachedFor
  <2> QED BY <2>1, <2>3, <2>4, KeyDeterminesDescriptors, ResolvedIsAnAnswer DEF CachedFor
<1>2. IInv => AlgorithmFits
  BY <1>1 DEF AlgorithmFits
<1> QED BY <1>2, SpecIInv, PTL

(* Equal problems on one device replay one algorithm (invariant 5), those  *)
(* of an empty batch included.                                             *)
THEOREM GemmReplaysAlgorithm == Spec => []ReplaysAlgorithm
<1>1. ASSUME IInv, NEW l \in launches, NEW q \in launches,
             l.cache = q.cache, Unstrided(l.problem) = Unstrided(q.problem)
      PROVE  l.algo = q.algo
  <2>1. PICK o \in Operands : /\ Accepted(o)
                              /\ l.problem = Problem(o)
                              /\ CachedFor(o, l.cache, l.algo)
    BY <1>1 DEF IInv, LaunchedCached
  <2>2. PICK u \in Operands : /\ Accepted(u)
                              /\ q.problem = Problem(u)
                              /\ CachedFor(u, q.cache, q.algo)
    BY <1>1 DEF IInv, LaunchedCached
  <2>3. Key(Problem(o)) = Key(Problem(u))
    BY <1>1, <2>1, <2>2, ProblemDeterminesKey
  <2> QED BY <1>1, <2>1, <2>2, <2>3 DEF CachedFor
<1>2. IInv => ReplaysAlgorithm
  BY <1>1 DEF ReplaysAlgorithm
<1> QED BY <1>2, SpecIInv, PTL

(* A digit below its base under a number below its bound.                  *)
LEMMA DigitBelowBase ==
  ASSUME NEW base \in Nat, NEW bound \in Nat,
         NEW x \in 0 .. bound - 1, NEW digit \in 0 .. base - 1
  PROVE  x * base + digit \in 0 .. bound * base - 1
<1>1. bound - 1 - x \in Nat
  OBVIOUS
<1>2. (bound - 1 - x) * base >= 0
  BY <1>1
<1>3. (bound - 1 - x) * base = bound * base - base - x * base
  OBVIOUS
<1>4. x * base \in Nat /\ bound * base \in Nat
  OBVIOUS
<1> QED BY <1>2, <1>3, <1>4

LEMMA RowMajorBelowNumel ==
  ASSUME NEW t, Rows(t) \in Nat, Cols(t) \in Nat, Batch(t) \in Nat,
         NEW i \in 0 .. Batch(t) - 1, NEW r \in 0 .. Rows(t) - 1, NEW c \in 0 .. Cols(t) - 1
  PROVE  RowMajor(t, i, r, c) < Numel(t)
<1>1. i * Rows(t) + r \in 0 .. Batch(t) * Rows(t) - 1
  BY DigitBelowBase
<1>2. Batch(t) * Rows(t) \in Nat
  OBVIOUS
<1>3. (i * Rows(t) + r) * Cols(t) + c \in 0 .. (Batch(t) * Rows(t)) * Cols(t) - 1
  BY <1>1, <1>2, DigitBelowBase
<1>4. (Batch(t) * Rows(t)) * Cols(t) \in Nat /\ (i * Rows(t) + r) * Cols(t) + c \in Nat
  BY <1>2, <1>3
<1> QED BY <1>3, <1>4 DEF RowMajor, Numel

(* Whatever check() accepts, no element outside the operands is touched,   *)
(* provided the batch is not empty and an int32_t can count it.            *)
THEOREM GemmStaysInTensors == Spec => []StaysInTensors
<1>1. ASSUME NEW o \in Operands, Accepted(o), NEW x \in RowMajorProducts(o)
      PROVE  x[1] < Numel(o.c) /\ x[2] < Numel(o.a) /\ x[3] < Numel(o.b)
  <2> DEFINE p == Problem(o)
  <2>1. /\ p.trans_a = o.trans_a /\ p.trans_b = o.trans_b
        /\ o.trans_a \in BOOLEAN /\ o.trans_b \in BOOLEAN
        /\ p.m \in Nat /\ p.n \in Nat /\ p.k \in Nat /\ p.batch \in Nat
        /\ Rows(o.a) = (IF p.trans_a THEN p.k ELSE p.m)
        /\ Cols(o.a) = (IF p.trans_a THEN p.m ELSE p.k)
        /\ Rows(o.b) = (IF p.trans_b THEN p.n ELSE p.k)
        /\ Cols(o.b) = (IF p.trans_b THEN p.k ELSE p.n)
        /\ Rows(o.c) = p.m /\ Cols(o.c) = p.n
        /\ Batch(o.a) = p.batch /\ Batch(o.b) = p.batch /\ Batch(o.c) = p.batch
    BY <1>1, AcceptedExtents
  <2>2. PICK i \in 0 .. p.batch - 1, r \in 0 .. p.m - 1, c \in 0 .. p.n - 1, z \in 0 .. p.k - 1 :
          x = <<RowMajor(o.c, i, r, c), Element(o.a, o.trans_a, i, r, z),
                Element(o.b, o.trans_b, i, z, c)>>
    BY DEF RowMajorProducts
  <2> HIDE DEF p
  <2>3. x[1] < Numel(o.c)
    BY <2>1, <2>2, RowMajorBelowNumel
  <2>4. Element(o.a, o.trans_a, i, r, z) < Numel(o.a)
    <3>1. CASE o.trans_a
      BY <2>1, <2>2, <3>1, RowMajorBelowNumel DEF Element
    <3>2. CASE ~o.trans_a
      BY <2>1, <2>2, <3>2, RowMajorBelowNumel DEF Element
    <3> QED BY <3>1, <3>2
  <2>5. Element(o.b, o.trans_b, i, z, c) < Numel(o.b)
    <3>1. CASE o.trans_b
      BY <2>1, <2>2, <3>1, RowMajorBelowNumel DEF Element
    <3>2. CASE ~o.trans_b
      BY <2>1, <2>2, <3>2, RowMajorBelowNumel DEF Element
    <3> QED BY <3>1, <3>2
  <2> QED BY <2>2, <2>3, <2>4, <2>5
<1>2. IInv /\ ComputesProduct => StaysInTensors
  BY <1>1 DEF IInv, TypeOK, CallAccepted, InCall, ComputesProduct, StaysInTensors
<1> QED BY <1>2, SpecIInv, GemmComputesProduct, PTL

-----------------------------------------------------------------------------
(* The extents of the head tensors, and where element <b, h, t, n> of a    *)
(* tensor [B, H, T, w] lies.                                               *)
Items == Shape("q")[1]
Heads == Shape("q")[2]
Positions == Shape("q")[3]
Channels == Shape("q")[4]
Flat(b, h, t, w, n) == ((b * Heads + h) * Positions + t) * w + n
Merged(b, h, t, n) == (b * Positions + t) * Heads * Channels + h * Channels + n

HoldScores ==
  \A b \in Below(Items), h \in Below(Heads), t \in Below(Positions), u \in Below(Positions) :
    At("scores", Flat(b, h, t, Positions, u)) = Score(b, h, t, u)
HoldProbs ==
  \A b \in Below(Items), h \in Below(Heads), t \in Below(Positions), u \in Below(Positions) :
    At("scores", Flat(b, h, t, Positions, u)) = Probability(b, h, t, u)
HoldHeads ==
  \A b \in Below(Items), h \in Below(Heads), t \in Below(Positions), n \in Below(Channels) :
    At("y_heads", Flat(b, h, t, Channels, n)) = Output(b, h, t, n)
HoldOutput ==
  \A b \in Below(Items), h \in Below(Heads), t \in Below(Positions), n \in Below(Channels) :
    At("y", Merged(b, h, t, n)) = Output(b, h, t, n)
UntouchedBut(used) ==
  \A m \in Memory \ used, j \in Below(Cells) : mem[m][j] = Original(m, j)

Domains ==
  /\ DOMAIN mem = Memory
  /\ \A m \in Memory : DOMAIN mem[m] = Below(Cells)

(* No axis is empty; a call with an empty axis gets no further than the   *)
(* launch that it leaves without work.                                     *)
NonEmpty == Items > 0 /\ Heads > 0 /\ Positions > 0 /\ Channels > 0

(* The contents of the memories after each step of an admitted call, and   *)
(* what the checks that it has passed so far establish.                    *)
Begun == {"scale", "softmax", "values", "merge", "done"}
AttentionInv ==
  /\ call \in Calls
  /\ Domains
  /\ step \in Begun \cup {"check", "refused", "aborted", "failed"}
  /\ step \in Begun => Admitted
  /\ step \in {"check", "scale"} => UntouchedBut({})
  /\ step \in {"softmax", "values", "merge"} => ScoresReady
  /\ OnlyTypesAbort
  /\ step = "done" => NonEmpty
  /\ PlacesApart(call.place) /\ NonEmpty =>
       /\ step = "softmax" => HoldScores
       /\ step \in {"softmax", "values"} => UntouchedBut({call.place["scores"]})
       /\ step \in {"values", "merge", "done"} => HoldProbs
       /\ step \in {"merge", "done"} => HoldHeads
       /\ step = "done" => HoldOutput

-----------------------------------------------------------------------------
LEMMA HeadRow ==
  ASSUME NEW B \in Nat, NEW H \in Nat, NEW T \in Nat, NEW w \in Nat,
         NEW b \in Nat, b < B, NEW h \in Nat, h < H, NEW t \in Nat, t < T
  PROVE  /\ b * H + h \in Nat /\ b * H + h < B * H
         /\ (b * H + h) * T + t \in Nat /\ (b * H + h) * T + t < (B * H) * T
<1> DEFINE p == b * H + h
           heads == B * H
<1>1. p \in Nat /\ p < heads /\ heads \in Nat
  BY RowElement, SMT
<1> HIDE DEF p, heads
<1>2. p * T + t \in Nat /\ p * T + t < heads * T
  BY ONLY <1>1, RowElement, T \in Nat, t \in Nat, t < T
<1> QED BY <1>1, <1>2 DEF p, heads

-----------------------------------------------------------------------------
LEMMA CallFacts ==
  ASSUME call \in Calls
  PROVE  /\ \A a \in Argument : /\ Shape(a) \in Seq(Nat) /\ call.place[a] \in Memory
                                /\ ShapeNumel(Shape(a)) <= Cells
         /\ Cells \in Nat
         /\ call.supported \in BOOLEAN /\ call.causal \in BOOLEAN
<1>1. call \in [shape : [Argument -> Seq(Nat)], dtype : [Argument -> Storage],
                place : [Argument -> Memory], valid : SUBSET Argument,
                causal : BOOLEAN, backend : {"Naive", "Fused"}, supported : BOOLEAN]
  BY AttentionAssumption
<1> QED BY <1>1, AttentionAssumption DEF Shape

LEMMA NumelOfFour ==
  ASSUME NEW s \in Seq(Nat), Len(s) = 4
  PROVE  ShapeNumel(s) = ((s[1] * s[2]) * s[3]) * s[4]
<1> DEFINE product[n \in 0 .. Len(s)] == IF n = 0 THEN 1 ELSE s[n] * product[n - 1]
<1>1. product = [n \in 0 .. Len(s) |-> IF n = 0 THEN 1 ELSE s[n] * product[n - 1]]
  OBVIOUS
<1>2. ShapeNumel(s) = product[Len(s)]
  BY DEF ShapeNumel
<1> HIDE DEF product
<1>3. Len(s) \in 0 .. 4
  OBVIOUS
<1>4. Len(s) = 4 => product[Len(s)] = ((s[1] * s[2]) * s[3]) * s[4]
  BY ONLY <1>1, <1>3, s \in Seq(Nat), Multiplied
<1> QED BY <1>2, <1>4

LEMMA Shapes ==
  ASSUME call \in Calls, Admitted
  PROVE  /\ Items \in Nat /\ Heads \in Nat /\ Positions \in Nat /\ Channels \in Nat
         /\ Shape("k") = Shape("q") /\ Shape("v") = Shape("q") /\ Shape("y_heads") = Shape("q")
         /\ Shape("scores") = <<Items, Heads, Positions, Positions>>
         /\ Shape("y") = <<Items, Positions, Heads * Channels>>
         /\ ((Items * Heads) * Positions) * Positions <= Cells
         /\ ((Items * Heads) * Positions) * Channels <= Cells
<1>1. /\ \A a \in Argument \ {"y"} : Len(Shape(a)) = 4
      /\ \A a \in {"k", "v", "y_heads"} : Shape(a) = Shape("q")
      /\ Shape("scores") = <<Items, Heads, Positions, Positions>>
      /\ Shape("y") = <<Items, Positions, Heads * Channels>>
  BY DEF Admitted, Items, Heads, Positions, Channels
<1>2. "q" \in Argument /\ "scores" \in Argument /\ "q" # "y" /\ "scores" # "y"
  BY DEF Argument
<1>3. /\ Shape("q") \in Seq(Nat) /\ Shape("scores") \in Seq(Nat)
      /\ ShapeNumel(Shape("q")) <= Cells /\ ShapeNumel(Shape("scores")) <= Cells
  BY <1>2, CallFacts
<1>4. ASSUME NEW s \in Seq(Nat), Len(s) = 4
      PROVE  /\ s[1] \in Nat /\ s[2] \in Nat /\ s[3] \in Nat /\ s[4] \in Nat
             /\ ShapeNumel(s) = ((s[1] * s[2]) * s[3]) * s[4]
  <2> DEFINE size == Len(s)
  <2>1. \A i \in 1 .. size : s[i] \in Nat
    BY ElementInSet
  <2>2. size = 4
    BY <1>4
  <2>3. ShapeNumel(s) = ((s[1] * s[2]) * s[3]) * s[4]
    BY ONLY s \in Seq(Nat), <2>2, NumelOfFour
  <2> HIDE DEF size
  <2>4. s[1] \in Nat /\ s[2] \in Nat /\ s[3] \in Nat /\ s[4] \in Nat
    BY <2>1, <2>2
  <2> QED BY <2>3, <2>4
<1>5. /\ Items \in Nat /\ Heads \in Nat /\ Positions \in Nat /\ Channels \in Nat
      /\ ShapeNumel(Shape("q")) = ((Items * Heads) * Positions) * Channels
  BY <1>1, <1>2, <1>3, <1>4 DEF Items, Heads, Positions, Channels
<1>6. ShapeNumel(Shape("scores")) = ((Items * Heads) * Positions) * Positions
  <2> DEFINE s == Shape("scores")
  <2>1. s[1] = Items /\ s[2] = Heads /\ s[3] = Positions /\ s[4] = Positions
    BY <1>1
  <2>2. ShapeNumel(s) = ((s[1] * s[2]) * s[3]) * s[4]
    BY <1>1, <1>2, <1>3, <1>4
  <2> QED BY <2>1, <2>2
<1> QED BY <1>1, <1>3, <1>5, <1>6

LEMMA Extents ==
  ASSUME call \in Calls, Admitted, NonEmpty
  PROVE  /\ Items \in Nat \ {0} /\ Heads \in Nat \ {0}
         /\ Positions \in Nat \ {0} /\ Channels \in Nat \ {0}
         /\ Shape("k") = Shape("q") /\ Shape("v") = Shape("q") /\ Shape("y_heads") = Shape("q")
         /\ Shape("scores") = <<Items, Heads, Positions, Positions>>
         /\ Shape("y") = <<Items, Positions, Heads * Channels>>
         /\ ((Items * Heads) * Positions) * Positions <= Cells
         /\ ((Items * Heads) * Positions) * Channels <= Cells
<1>1. /\ Items \in Nat \ {0} /\ Heads \in Nat \ {0}
      /\ Positions \in Nat \ {0} /\ Channels \in Nat \ {0}
  BY Shapes DEF NonEmpty
<1> QED BY <1>1, Shapes

LEMMA FoldFacts ==
  ASSUME call \in Calls, Admitted
  PROVE  /\ \A a \in {"q", "k", "v", "y_heads"} :
              Fold(Shape(a)) = <<Items * Heads, Positions, Channels>>
         /\ Fold(Shape("scores")) = <<Items * Heads, Positions, Positions>>
<1>1. \A a \in {"q", "k", "v", "y_heads"} : Shape(a) = Shape("q")
  BY Shapes
<1>2. Fold(Shape("q")) = <<Items * Heads, Positions, Channels>>
  BY DEF Fold, Items, Heads, Positions, Channels
<1>3. Shape("scores") = <<Items, Heads, Positions, Positions>>
  BY Shapes
<1>4. Fold(Shape("scores")) = <<Items * Heads, Positions, Positions>>
  BY <1>3 DEF Fold
<1> QED BY <1>1, <1>2, <1>4

(* No element of a head tensor or of the scores lies outside its memory,   *)
(* and an element's place gives its coordinates.                           *)
LEMMA FlatPlace ==
  ASSUME call \in Calls, Admitted, NonEmpty, NEW w \in {Positions, Channels},
         NEW b \in Below(Items), NEW h \in Below(Heads), NEW t \in Below(Positions),
         NEW n \in Below(w)
  PROVE  /\ Flat(b, h, t, w, n) \in Below(Cells)
         /\ Flat(b, h, t, w, n) < ((Items * Heads) * Positions) * w
         /\ Flat(b, h, t, w, n) % w = n
         /\ (Flat(b, h, t, w, n) \div w) % Positions = t
         /\ Flat(b, h, t, w, n) \div (Positions * w) = b * Heads + h
<1> DEFINE B == Items
           H == Heads
           T == Positions
           j == Flat(b, h, t, w, n)
           p == b * H + h
           r == p * T + t
           rows == (B * H) * T
           e == t * w + n
           width == T * w
<1>1. /\ B \in Nat /\ H \in Nat /\ T \in Nat /\ w \in Nat /\ Cells \in Nat
      /\ ((B * H) * T) * w <= Cells
  BY Extents, CallFacts
<1>2. /\ b \in Nat /\ b < B /\ h \in Nat /\ h < H
      /\ t \in Nat /\ t < T /\ n \in Nat /\ n < w
  BY <1>1 DEF Below
<1>3. j = r * w + n
  BY DEF Flat
<1> HIDE DEF B, H, T, j
<1>4. p \in Nat /\ r \in Nat /\ r < rows /\ rows \in Nat
  BY <1>1, <1>2, HeadRow, SMT
<1>5. e \in Nat /\ e < width /\ width \in Nat
  BY <1>1, <1>2, RowElement, SMT
<1>6. r = p * T + t
  OBVIOUS
<1>7. (p * T + t) * w = p * (T * w) + t * w /\ p * (T * w) \in Nat /\ t * w \in Nat
  BY <1>1, <1>2, <1>4, SMT
<1>8. j = p * width + e
  <2> HIDE DEF p
  <2> QED BY <1>2, <1>3, <1>4, <1>7
<1> HIDE DEF p, r, rows, e, width
<1>9. j \in Nat /\ j < rows * w /\ rows * w \in Nat
  <2>1. j \in Nat /\ j < rows * w
    BY ONLY <1>1, <1>2, <1>3, <1>4, RowElement
  <2> QED BY <1>1, <1>4, <2>1, SMT
<1>10. w \in Nat \ {0} /\ T \in Nat \ {0} /\ width \in Nat \ {0}
  BY <1>1, <1>2, <1>5
<1>11. j \div w = r /\ j % w = n
  BY ONLY <1>2, <1>3, <1>4, <1>10, RowPlace
<1>12. r % T = t
  BY ONLY <1>2, <1>4, <1>6, <1>10, RowPlace
<1>13. j \div width = p
  BY ONLY <1>4, <1>5, <1>8, <1>10, RowPlace
<1>14. j \in Below(Cells)
  BY <1>1, <1>9 DEF Below, rows
<1> QED BY <1>9, <1>11, <1>12, <1>13, <1>14 DEF B, H, T, j, p, rows, width

(* The same of the merged order [B, T, H w].                               *)
LEMMA MergedPlace ==
  ASSUME call \in Calls, Admitted, NonEmpty,
         NEW b \in Below(Items), NEW h \in Below(Heads), NEW t \in Below(Positions),
         NEW n \in Below(Channels)
  PROVE  /\ Merged(b, h, t, n) \in Below(Cells)
         /\ Merged(b, h, t, n) < ((Items * Heads) * Positions) * Channels
         /\ Merged(b, h, t, n) % Channels = n
         /\ (Merged(b, h, t, n) \div Channels) % Heads = h
         /\ (Merged(b, h, t, n) \div (Heads * Channels)) % Positions = t
         /\ Merged(b, h, t, n) \div (Heads * Channels * Positions) = b
<1> DEFINE B == Items
           H == Heads
           T == Positions
           w == Channels
           j == Merged(b, h, t, n)
           p == b * T + t
           e == h * w + n
           width == H * w
           block == width * T
           inner == t * width + e
<1>a. /\ B \in Nat /\ H \in Nat /\ T \in Nat /\ w \in Nat /\ Cells \in Nat
      /\ ((B * H) * T) * w <= Cells
  BY Extents, CallFacts
<1>b. /\ b \in Nat /\ b < B /\ h \in Nat /\ h < H
      /\ t \in Nat /\ t < T /\ n \in Nat /\ n < w
  BY <1>a DEF Below
<1>c. j = p * H * w + h * w + n
  BY DEF Merged
<1> HIDE DEF B, H, T, w, j
<1>1. p \in Nat /\ p < B * T /\ e \in Nat /\ e < width /\ width \in Nat /\ B * T \in Nat
  BY <1>a, <1>b, RowElement, SMT
<1>2. p * H * w = p * width /\ p * width \in Nat /\ h * w \in Nat
  <2>1. \A x, y, z \in Nat : x * y * z = x * (y * z) /\ x * (y * z) \in Nat /\ y * z \in Nat
    BY SMT
  <2> HIDE DEF p
  <2> QED BY <1>a, <1>b, <1>1, <2>1
<1>3. j = p * width + e
  <2>1. j = p * H * w + h * w + n
    BY <1>c
  <2> DEFINE x == p * H * w
             y == h * w
  <2> HIDE DEF p, x, y
  <2>2. j = x + y + n
    BY <2>1 DEF x, y
  <2>3. x = p * width /\ x \in Nat /\ y \in Nat /\ e = y + n
    BY <1>2 DEF x, y
  <2> HIDE DEF width, e
  <2> QED BY <1>b, <2>2, <2>3
<1>4. p = b * T + t
  OBVIOUS
<1>5. (p * H + h) * w = p * H * w + h * w /\ p * H + h \in Nat
  <2>1. \A x, y, z, v \in Nat : (x * y + z) * v = x * y * v + z * v /\ x * y + z \in Nat
    BY SMT
  <2> HIDE DEF p
  <2> QED BY <1>a, <1>b, <1>1, <2>1
<1>6. j = (p * H + h) * w + n
  <2> HIDE DEF p
  <2> QED BY <1>b, <1>c, <1>1, <1>2, <1>5
<1> HIDE DEF p, e, width
<1>7. j \in Nat /\ j < (B * T) * width
  <2> DEFINE rows == B * T
  <2> HIDE DEF rows
  <2>1. rows \in Nat /\ p < rows
    BY <1>1 DEF rows
  <2>2. j \in Nat /\ j < rows * width
    BY ONLY <1>1, <2>1, <1>3, RowElement
  <2> QED BY <2>2 DEF rows
<1>8. (B * T) * width = ((B * H) * T) * w
  <2>1. \A x, y, z, v \in Nat : (x * y) * (z * v) = ((x * z) * y) * v
    BY SMT
  <2> QED BY <1>a, <2>1 DEF width
<1>9. w \in Nat \ {0} /\ H \in Nat \ {0} /\ T \in Nat \ {0} /\ width \in Nat \ {0}
  BY <1>a, <1>b, <1>1
<1>10. j % w = n /\ (j \div w) = p * H + h
  <2> DEFINE q == p * H + h
  <2>1. q \in Nat /\ j = q * w + n
    BY <1>5, <1>6
  <2> HIDE DEF q
  <2>2. j % w = n /\ j \div w = q
    BY ONLY <1>b, <1>9, <2>1, RowPlace
  <2> QED BY <2>2 DEF q
<1>11. (p * H + h) % H = h
  BY ONLY <1>b, <1>1, <1>9, RowPlace
<1>12. j \div width = p
  BY ONLY <1>1, <1>3, <1>9, RowPlace
<1>13. p % T = t
  BY ONLY <1>b, <1>4, <1>9, RowPlace
<1>14. inner \in Nat /\ inner < T * width
  BY ONLY <1>a, <1>b, <1>1, RowElement
<1>15. j = b * block + inner /\ block = T * width /\ block \in Nat
  <2>1. \A x, y, z, v \in Nat : (x * y + z) * v = x * (v * y) + z * v /\ v * y = y * v /\ v * y \in Nat
    BY SMT
  <2>2. p * width = b * block + t * width /\ block = T * width /\ block \in Nat
    BY <1>a, <1>b, <1>1, <1>4, <2>1
  <2>3. t * width \in Nat /\ b * block \in Nat
    <3>1. \A x, y \in Nat : x * y \in Nat
      BY SMT
    <3> HIDE DEF block
    <3> QED BY <1>b, <1>1, <2>2, <3>1
  <2>4. \A x, y, z \in Nat : x + y + z = x + (y + z)
    OBVIOUS
  <2>5. j = b * block + t * width + e
    BY <1>3, <2>2, Zenon
  <2>6. e \in Nat
    BY <1>1
  <2>7. j = b * block + inner
    <3> HIDE DEF block
    <3> QED BY <2>3, <2>4, <2>5, <2>6, Zenon
  <2> QED BY ONLY <2>2, <2>7
<1> HIDE DEF inner, block
<1>16. j \div block = b
  <2>1. block \in Nat \ {0} /\ inner < block
    BY <1>14, <1>15
  <2> QED BY ONLY <1>b, <1>14, <1>15, <2>1, RowPlace
<1>17. j \in Below(Cells) /\ j < ((B * H) * T) * w
  <2> DEFINE size == ((B * H) * T) * w
  <2>1. size = (B * T) * width /\ size <= Cells
    BY <1>a, <1>8
  <2>2. size \in Nat
    <3>1. \A x, y, z, v \in Nat : ((x * y) * z) * v \in Nat
      BY SMT
    <3> QED BY <1>a, <3>1
  <2> HIDE DEF size
  <2>3. j < size
    BY <1>7, <2>1
  <2> QED BY <1>a, <1>7, <2>1, <2>2, <2>3 DEF Below, size
<1>18. (j \div w) % H = h
  BY <1>10, <1>11
<1> QED BY <1>10, <1>12, <1>13, <1>16, <1>17, <1>18 DEF B, H, T, w, j, width, block
-----------------------------------------------------------------------------
(* What a kernel leaves that overwrites one memory.                        *)
LEMMA Overwriting ==
  ASSUME Domains, NEW p \in Memory, NEW new, DOMAIN new = Below(Cells),
         mem' = [mem EXCEPT ![p] = new]
  PROVE  /\ Domains'
         /\ \A m \in Memory \ {p} : mem'[m] = mem[m]
         /\ mem'[p] = new
<1>1. mem'[p] = new
  BY DEF Domains
<1>2. DOMAIN mem' = Memory /\ \A m \in Memory \ {p} : mem'[m] = mem[m]
  BY DEF Domains
<1>3. Domains'
  BY <1>1, <1>2 DEF Domains
<1> QED BY <1>1, <1>2, <1>3

(* A kernel either leaves everything as it is, aborted or failed, or        *)
(* overwrites cells of one memory.                                         *)
LEMMA ScoresOutcome ==
  ASSUME call \in Calls, Domains, Scores
  PROVE  /\ step = "scale" /\ step' \in {"softmax", "aborted", "failed"}
         /\ call' = call /\ Domains'
         /\ step' = "aborted" => ~ProductChecks("scores", "q", "k", TRUE) /\ mem' = mem
         /\ step' = "softmax" => ProductChecks("scores", "q", "k", TRUE)
<1> DEFINE p == call.place["scores"]
           sc == Fold(Shape("scores"))
           sa == Fold(Shape("q"))
           sb == Fold(Shape("k"))
           trans_b == TRUE
           value(j) ==
             LET i == j \div (sc[2] * sc[3])
                 r == (j \div sc[3]) % sc[2]
                 n == j % sc[3]
             IN Dot("scaled_dot",
                 {<<z, At("q", (i * sa[2] + r) * sa[3] + z),
                       At("k", i * sb[2] * sb[3] +
                               (IF trans_b THEN n * sb[3] + z ELSE z * sb[3] + n))>> :
                    z \in 0 .. sa[3] - 1})
           batch == IF sc[1] > 1 THEN sc[1] ELSE 1
           numel == batch * sc[2] * sc[3]
           new == [j \in DOMAIN mem[p] |-> IF j < numel THEN value(j) ELSE mem[p][j]]
<1>1. Kernel("scale", "softmax", ProductChecks("scores", "q", "k", TRUE), TRUE, "scores", numel, value)
  BY DEF Scores, Product
<1> HIDE DEF numel, value, sc, sa, sb, batch, trans_b
<1>2. /\ step = "scale" /\ call' = call
      /\ \/ ~ProductChecks("scores", "q", "k", TRUE) /\ step' = "aborted" /\ mem' = mem
         \/ ProductChecks("scores", "q", "k", TRUE) /\ step' = "failed" /\ mem' = mem
         \/ /\ ProductChecks("scores", "q", "k", TRUE) /\ TRUE
            /\ step' = "softmax" /\ mem' = [mem EXCEPT ![p] = new]
  BY <1>1 DEF Kernel
<1>3. p \in Memory
  BY CallFacts DEF Argument
<1>4. DOMAIN new = Below(Cells)
  BY <1>3 DEF Domains
<1> HIDE DEF new, p
<1>5. Domains'
  <2>1. CASE mem' = mem
    BY <2>1 DEF Domains
  <2>2. CASE mem' = [mem EXCEPT ![p] = new]
    BY <1>3, <1>4, <2>2, Overwriting
  <2> QED BY <1>2, <2>1, <2>2
<1> QED BY <1>2, <1>5

LEMMA SoftmaxOutcome ==
  ASSUME call \in Calls, Domains, Softmax
  PROVE  /\ step = "softmax" /\ step' \in {"values", "aborted", "failed"}
         /\ call' = call /\ Domains'
         /\ step' = "aborted" => ~SoftmaxChecks /\ mem' = mem
         /\ step' = "values" => SoftmaxChecks
<1> DEFINE p == call.place["scores"]
           s == Fold(Shape("scores"))
           value(j) ==
             LET c == j % s[3]
                 first == j - c
                 row == [n \in 0 .. Limit(j, s[2], s[3]) - 1 |-> At("scores", first + n)]
             IN IF c \in DOMAIN row THEN Prob(row, c) ELSE Zero
           numel == s[1] * s[2] * s[3]
           new == [j \in DOMAIN mem[p] |-> IF j < numel THEN value(j) ELSE mem[p][j]]
<1>1. Kernel("softmax", "values", SoftmaxChecks, (s[1] * s[2] > 0), "scores", numel, value)
  BY DEF Softmax
<1> HIDE DEF numel, value, s
<1>2. /\ step = "softmax" /\ call' = call
      /\ \/ ~SoftmaxChecks /\ step' = "aborted" /\ mem' = mem
         \/ SoftmaxChecks /\ step' = "failed" /\ mem' = mem
         \/ /\ SoftmaxChecks /\ (s[1] * s[2] > 0)
            /\ step' = "values" /\ mem' = [mem EXCEPT ![p] = new]
  BY <1>1 DEF Kernel
<1>3. p \in Memory
  BY CallFacts DEF Argument
<1>4. DOMAIN new = Below(Cells)
  BY <1>3 DEF Domains
<1> HIDE DEF new, p
<1>5. Domains'
  <2>1. CASE mem' = mem
    BY <2>1 DEF Domains
  <2>2. CASE mem' = [mem EXCEPT ![p] = new]
    BY <1>3, <1>4, <2>2, Overwriting
  <2> QED BY <1>2, <2>1, <2>2
<1> QED BY <1>2, <1>5

LEMMA ValuesOutcome ==
  ASSUME call \in Calls, Domains, Values
  PROVE  /\ step = "values" /\ step' \in {"merge", "aborted", "failed"}
         /\ call' = call /\ Domains'
         /\ step' = "aborted" => ~ProductChecks("y_heads", "scores", "v", FALSE) /\ mem' = mem
         /\ step' = "merge" => ProductChecks("y_heads", "scores", "v", FALSE)
<1> DEFINE p == call.place["y_heads"]
           sc == Fold(Shape("y_heads"))
           sa == Fold(Shape("scores"))
           sb == Fold(Shape("v"))
           trans_b == FALSE
           value(j) ==
             LET i == j \div (sc[2] * sc[3])
                 r == (j \div sc[3]) % sc[2]
                 n == j % sc[3]
             IN Dot("dot",
                 {<<z, At("scores", (i * sa[2] + r) * sa[3] + z),
                       At("v", i * sb[2] * sb[3] +
                               (IF trans_b THEN n * sb[3] + z ELSE z * sb[3] + n))>> :
                    z \in 0 .. sa[3] - 1})
           batch == IF sc[1] > 1 THEN sc[1] ELSE 1
           numel == batch * sc[2] * sc[3]
           new == [j \in DOMAIN mem[p] |-> IF j < numel THEN value(j) ELSE mem[p][j]]
<1>1. Kernel("values", "merge", ProductChecks("y_heads", "scores", "v", FALSE), TRUE, "y_heads", numel, value)
  BY DEF Values, Product
<1> HIDE DEF numel, value, sc, sa, sb, batch, trans_b
<1>2. /\ step = "values" /\ call' = call
      /\ \/ ~ProductChecks("y_heads", "scores", "v", FALSE) /\ step' = "aborted" /\ mem' = mem
         \/ ProductChecks("y_heads", "scores", "v", FALSE) /\ step' = "failed" /\ mem' = mem
         \/ /\ ProductChecks("y_heads", "scores", "v", FALSE) /\ TRUE
            /\ step' = "merge" /\ mem' = [mem EXCEPT ![p] = new]
  BY <1>1 DEF Kernel
<1>3. p \in Memory
  BY CallFacts DEF Argument
<1>4. DOMAIN new = Below(Cells)
  BY <1>3 DEF Domains
<1> HIDE DEF new, p
<1>5. Domains'
  <2>1. CASE mem' = mem
    BY <2>1 DEF Domains
  <2>2. CASE mem' = [mem EXCEPT ![p] = new]
    BY <1>3, <1>4, <2>2, Overwriting
  <2> QED BY <1>2, <2>1, <2>2
<1> QED BY <1>2, <1>5

MergeNumel ==
  LET s == Shape("y_heads") IN s[1] * s[2] * s[3] * s[4]

LEMMA MergeOutcome ==
  ASSUME call \in Calls, Domains, Merge
  PROVE  /\ step = "merge" /\ step' \in {"done", "aborted", "failed"}
         /\ call' = call /\ Domains'
         /\ step' = "aborted" => ~MergeChecks /\ mem' = mem
         /\ step' = "done" => MergeChecks /\ MergeNumel > 0
<1> DEFINE p == call.place["y"]
           s == Shape("y_heads")
           value(j) ==
             LET d == j % s[4]
                 h == (j \div s[4]) % s[2]
                 t == (j \div (s[2] * s[4])) % s[3]
                 b == j \div (s[2] * s[4] * s[3])
             IN At("y_heads", ((b * s[2] + h) * s[3] + t) * s[4] + d)
           numel == s[1] * s[2] * s[3] * s[4]
           new == [j \in DOMAIN mem[p] |-> IF j < numel THEN value(j) ELSE mem[p][j]]
<1>1. Kernel("merge", "done", MergeChecks, (numel > 0), "y", numel, value)
  BY DEF Merge
<1> HIDE DEF numel, value
<1>2. /\ step = "merge" /\ call' = call
      /\ \/ ~MergeChecks /\ step' = "aborted" /\ mem' = mem
         \/ MergeChecks /\ step' = "failed" /\ mem' = mem
         \/ /\ MergeChecks /\ (numel > 0)
            /\ step' = "done" /\ mem' = [mem EXCEPT ![p] = new]
  BY <1>1 DEF Kernel
<1>3. p \in Memory
  BY CallFacts DEF Argument
<1>4. DOMAIN new = Below(Cells)
  BY <1>3 DEF Domains
<1> HIDE DEF new, p
<1>5. Domains'
  <2>1. CASE mem' = mem
    BY <2>1 DEF Domains
  <2>2. CASE mem' = [mem EXCEPT ![p] = new]
    BY <1>3, <1>4, <2>2, Overwriting
  <2> QED BY <1>2, <2>1, <2>2
<1> QED BY <1>2, <1>5 DEF MergeNumel, numel, s

LEMMA ScoresStep ==
  ASSUME call \in Calls, Admitted, NonEmpty, Domains, Scores, step' = "softmax"
  PROVE  /\ call' = call /\ Domains'
         /\ \A m \in Memory \ {call.place["scores"]} : mem'[m] = mem[m]
         /\ \A b \in Below(Items), h \in Below(Heads), t \in Below(Positions), u \in Below(Positions) :
              mem'[call.place["scores"]][Flat(b, h, t, Positions, u)] =
                Dot("scaled_dot",
                    {<<z, At("q", Flat(b, h, t, Channels, z)), At("k", Flat(b, h, u, Channels, z))>> :
                       z \in Below(Channels)})
<1> DEFINE sc == Fold(Shape("scores"))
           sa == Fold(Shape("q"))
           sb == Fold(Shape("k"))
           p == call.place["scores"]
           trans_b == TRUE
           value(j) ==
             LET i == j \div (sc[2] * sc[3])
                 r == (j \div sc[3]) % sc[2]
                 n == j % sc[3]
             IN Dot("scaled_dot",
                 {<<z, At("q", (i * sa[2] + r) * sa[3] + z),
                       At("k", i * sb[2] * sb[3] +
                               (IF trans_b THEN n * sb[3] + z ELSE z * sb[3] + n))>> :
                    z \in 0 .. sa[3] - 1})
           batch == IF sc[1] > 1 THEN sc[1] ELSE 1
           numel == batch * sc[2] * sc[3]
           new == [j \in DOMAIN mem[p] |-> IF j < numel THEN value(j) ELSE mem[p][j]]
<1>1. /\ sc = <<Items * Heads, Positions, Positions>>
      /\ sa = <<Items * Heads, Positions, Channels>>
      /\ sb = <<Items * Heads, Positions, Channels>>
  BY FoldFacts
<1>2. batch = Items * Heads
  <2>1. Items \in Nat \ {0} /\ Heads \in Nat \ {0}
    BY Extents
  <2>2. Items * Heads \in Nat \ {0}
    BY <2>1, SMT
  <2>3. sc[1] = Items * Heads
    BY <1>1
  <2> HIDE DEF sc
  <2> QED BY <2>2, <2>3
<1>3. Kernel("scale", "softmax", ProductChecks("scores", "q", "k", TRUE), TRUE, "scores", numel, value)
  BY DEF Scores, Product
<1>4. numel = ((Items * Heads) * Positions) * Positions
  BY <1>1, <1>2
<1>5. p \in Memory
  BY CallFacts DEF Argument
<1> HIDE DEF numel, batch
<1>6. call' = call /\ mem' = [mem EXCEPT ![p] = new]
  BY <1>3 DEF Kernel
<1> HIDE DEF value
<1>7. DOMAIN new = Below(Cells) /\ \A j \in Below(Cells) : j < numel => new[j] = value(j)
  BY <1>5 DEF Domains
<1> HIDE DEF new, p
<1>8. Domains' /\ (\A m \in Memory \ {p} : mem'[m] = mem[m]) /\ mem'[p] = new
  BY <1>5, <1>6, <1>7, Overwriting
<1>9. ASSUME NEW b \in Below(Items), NEW h \in Below(Heads), NEW t \in Below(Positions),
             NEW u \in Below(Positions)
      PROVE  mem'[p][Flat(b, h, t, Positions, u)] =
               Dot("scaled_dot",
                   {<<z, At("q", Flat(b, h, t, Channels, z)), At("k", Flat(b, h, u, Channels, z))>> :
                      z \in Below(Channels)})
  <2> DEFINE j == Flat(b, h, t, Positions, u)
  <2>1. /\ j \in Below(Cells) /\ j < numel
        /\ j % Positions = u /\ (j \div Positions) % Positions = t
        /\ j \div (Positions * Positions) = b * Heads + h
    BY <1>4, FlatPlace
  <2> HIDE DEF j
  <2>2. mem'[p][j] = value(j)
    BY <1>7, <1>8, <2>1
  <2>3. value(j) =
          Dot("scaled_dot",
              {<<z, At("q", ((b * Heads + h) * Positions + t) * Channels + z),
                    At("k", (b * Heads + h) * Positions * Channels + (u * Channels + z))>> :
                 z \in 0 .. Channels - 1})
    <3>1. sc[2] = Positions /\ sc[3] = Positions /\ sa[2] = Positions /\ sa[3] = Channels
          /\ sb[2] = Positions /\ sb[3] = Channels
      BY <1>1
    <3> HIDE DEF sc, sa, sb
    <3> QED BY <2>1, <3>1 DEF value
  <2>4. ASSUME NEW z \in Below(Channels)
        PROVE  (b * Heads + h) * Positions * Channels + (u * Channels + z) = Flat(b, h, u, Channels, z)
    <3>1. \A x, y, w, v, k \in Nat : x * y * v + (w * v + k) = (x * y + w) * v + k
      BY SMT
    <3>2. /\ Items \in Nat /\ Heads \in Nat /\ Positions \in Nat /\ Channels \in Nat
          /\ z \in Nat /\ u \in Nat /\ b \in Nat /\ h \in Nat
      BY Extents DEF Below
    <3>3. b * Heads + h \in Nat
      BY <3>2, SMT
    <3> QED BY <3>1, <3>2, <3>3 DEF Flat
  <2> DEFINE X(z) == (b * Heads + h) * Positions * Channels + (u * Channels + z)
  <2>5. \A z \in Below(Channels) : X(z) = Flat(b, h, u, Channels, z)
    BY <2>4
  <2>6. 0 .. Channels - 1 = Below(Channels)
    BY DEF Below
  <2>7. \A z \in Below(Channels) :
          ((b * Heads + h) * Positions + t) * Channels + z = Flat(b, h, t, Channels, z)
    BY DEF Flat
  <2>8. value(j) = Dot("scaled_dot", {<<z, At("q", Flat(b, h, t, Channels, z)), At("k", X(z))>> :
                                        z \in Below(Channels)})
    BY <2>3, <2>6, <2>7
  <2> HIDE DEF X
  <2>9. {<<z, At("q", Flat(b, h, t, Channels, z)), At("k", X(z))>> : z \in Below(Channels)} =
        {<<z, At("q", Flat(b, h, t, Channels, z)), At("k", Flat(b, h, u, Channels, z))>> :
           z \in Below(Channels)}
    BY <2>5
  <2> QED BY <2>2, <2>8, <2>9 DEF j
<1> QED BY <1>6, <1>8, <1>9 DEF p

LEMMA ValuesStep ==
  ASSUME call \in Calls, Admitted, NonEmpty, Domains, Values, step' = "merge"
  PROVE  /\ call' = call /\ Domains'
         /\ \A m \in Memory \ {call.place["y_heads"]} : mem'[m] = mem[m]
         /\ \A b \in Below(Items), h \in Below(Heads), t \in Below(Positions), n \in Below(Channels) :
              mem'[call.place["y_heads"]][Flat(b, h, t, Channels, n)] =
                Dot("dot",
                    {<<z, At("scores", Flat(b, h, t, Positions, z)), At("v", Flat(b, h, z, Channels, n))>> :
                       z \in Below(Positions)})
<1> DEFINE sc == Fold(Shape("y_heads"))
           sa == Fold(Shape("scores"))
           sb == Fold(Shape("v"))
           p == call.place["y_heads"]
           trans_b == FALSE
           value(j) ==
             LET i == j \div (sc[2] * sc[3])
                 r == (j \div sc[3]) % sc[2]
                 n == j % sc[3]
             IN Dot("dot",
                 {<<z, At("scores", (i * sa[2] + r) * sa[3] + z),
                       At("v", i * sb[2] * sb[3] +
                               (IF trans_b THEN n * sb[3] + z ELSE z * sb[3] + n))>> :
                    z \in 0 .. sa[3] - 1})
           batch == IF sc[1] > 1 THEN sc[1] ELSE 1
           numel == batch * sc[2] * sc[3]
           new == [j \in DOMAIN mem[p] |-> IF j < numel THEN value(j) ELSE mem[p][j]]
<1>1. /\ sc = <<Items * Heads, Positions, Channels>>
      /\ sa = <<Items * Heads, Positions, Positions>>
      /\ sb = <<Items * Heads, Positions, Channels>>
  BY FoldFacts
<1>2. batch = Items * Heads
  <2>1. Items \in Nat \ {0} /\ Heads \in Nat \ {0}
    BY Extents
  <2>2. Items * Heads \in Nat \ {0}
    BY <2>1, SMT
  <2>3. sc[1] = Items * Heads
    BY <1>1
  <2> HIDE DEF sc
  <2> QED BY <2>2, <2>3
<1>3. Kernel("values", "merge", ProductChecks("y_heads", "scores", "v", FALSE), TRUE, "y_heads", numel, value)
  BY DEF Values, Product
<1>4. numel = ((Items * Heads) * Positions) * Channels
  BY <1>1, <1>2
<1>5. p \in Memory
  BY CallFacts DEF Argument
<1> HIDE DEF numel, batch
<1>6. call' = call /\ mem' = [mem EXCEPT ![p] = new]
  BY <1>3 DEF Kernel
<1> HIDE DEF value
<1>7. DOMAIN new = Below(Cells) /\ \A j \in Below(Cells) : j < numel => new[j] = value(j)
  BY <1>5 DEF Domains
<1> HIDE DEF new, p
<1>8. Domains' /\ (\A m \in Memory \ {p} : mem'[m] = mem[m]) /\ mem'[p] = new
  BY <1>5, <1>6, <1>7, Overwriting
<1>9. ASSUME NEW b \in Below(Items), NEW h \in Below(Heads), NEW t \in Below(Positions),
             NEW n \in Below(Channels)
      PROVE  mem'[p][Flat(b, h, t, Channels, n)] =
               Dot("dot",
                   {<<z, At("scores", Flat(b, h, t, Positions, z)), At("v", Flat(b, h, z, Channels, n))>> :
                      z \in Below(Positions)})
  <2> DEFINE j == Flat(b, h, t, Channels, n)
  <2>1. /\ j \in Below(Cells) /\ j < numel
        /\ j % Channels = n /\ (j \div Channels) % Positions = t
        /\ j \div (Positions * Channels) = b * Heads + h
    BY <1>4, FlatPlace
  <2> HIDE DEF j
  <2>2. mem'[p][j] = value(j)
    BY <1>7, <1>8, <2>1
  <2>3. value(j) =
          Dot("dot",
              {<<z, At("scores", ((b * Heads + h) * Positions + t) * Positions + z),
                    At("v", (b * Heads + h) * Positions * Channels + (z * Channels + n))>> :
                 z \in 0 .. Positions - 1})
    <3>1. sc[2] = Positions /\ sc[3] = Channels /\ sa[2] = Positions /\ sa[3] = Positions
          /\ sb[2] = Positions /\ sb[3] = Channels
      BY <1>1
    <3> HIDE DEF sc, sa, sb
    <3> QED BY <2>1, <3>1 DEF value
  <2>4. ASSUME NEW z \in Below(Positions)
        PROVE  (b * Heads + h) * Positions * Channels + (z * Channels + n) = Flat(b, h, z, Channels, n)
    <3>1. \A x, y, w, v, k \in Nat : x * y * v + (w * v + k) = (x * y + w) * v + k
      BY SMT
    <3>2. /\ Items \in Nat /\ Heads \in Nat /\ Positions \in Nat /\ Channels \in Nat
          /\ z \in Nat /\ n \in Nat /\ b \in Nat /\ h \in Nat
      BY Extents DEF Below
    <3>3. b * Heads + h \in Nat
      BY <3>2, SMT
    <3> QED BY <3>1, <3>2, <3>3 DEF Flat
  <2> DEFINE X(z) == (b * Heads + h) * Positions * Channels + (z * Channels + n)
  <2>5. \A z \in Below(Positions) : X(z) = Flat(b, h, z, Channels, n)
    BY <2>4
  <2>6. 0 .. Positions - 1 = Below(Positions)
    BY DEF Below
  <2>7. \A z \in Below(Positions) :
          ((b * Heads + h) * Positions + t) * Positions + z = Flat(b, h, t, Positions, z)
    BY DEF Flat
  <2>8. value(j) = Dot("dot", {<<z, At("scores", Flat(b, h, t, Positions, z)), At("v", X(z))>> :
                                        z \in Below(Positions)})
    BY <2>3, <2>6, <2>7
  <2> HIDE DEF X
  <2>9. {<<z, At("scores", Flat(b, h, t, Positions, z)), At("v", X(z))>> : z \in Below(Positions)} =
        {<<z, At("scores", Flat(b, h, t, Positions, z)), At("v", Flat(b, h, z, Channels, n))>> :
           z \in Below(Positions)}
    BY <2>5
  <2> QED BY <2>2, <2>8, <2>9 DEF j
<1> QED BY <1>6, <1>8, <1>9 DEF p

LEMMA SoftmaxStep ==
  ASSUME call \in Calls, Admitted, NonEmpty, Domains, Softmax, step' = "values"
  PROVE  /\ call' = call /\ Domains'
         /\ \A m \in Memory \ {call.place["scores"]} : mem'[m] = mem[m]
         /\ \A b \in Below(Items), h \in Below(Heads), t \in Below(Positions), u \in Below(Positions) :
              mem'[call.place["scores"]][Flat(b, h, t, Positions, u)] =
                IF u \in Attended(t)
                THEN Prob([w \in Attended(t) |-> At("scores", Flat(b, h, t, Positions, w))], u)
                ELSE Zero
<1> DEFINE s == Fold(Shape("scores"))
           p == call.place["scores"]
           value(j) ==
             LET c == j % s[3]
                 first == j - c
                 row == [n \in 0 .. Limit(j, s[2], s[3]) - 1 |-> At("scores", first + n)]
             IN IF c \in DOMAIN row THEN Prob(row, c) ELSE Zero
           numel == s[1] * s[2] * s[3]
           new == [j \in DOMAIN mem[p] |-> IF j < numel THEN value(j) ELSE mem[p][j]]
<1>1. s = <<Items * Heads, Positions, Positions>>
  BY FoldFacts
<1>3. Kernel("softmax", "values", SoftmaxChecks, s[1] * s[2] > 0, "scores", numel, value)
  BY DEF Softmax
<1>4. numel = ((Items * Heads) * Positions) * Positions
  BY <1>1
<1>5. p \in Memory
  BY CallFacts DEF Argument
<1> HIDE DEF numel
<1>6. call' = call /\ mem' = [mem EXCEPT ![p] = new]
  BY <1>3 DEF Kernel
<1> HIDE DEF value
<1>7. DOMAIN new = Below(Cells) /\ \A j \in Below(Cells) : j < numel => new[j] = value(j)
  BY <1>5 DEF Domains
<1> HIDE DEF new, p
<1>8. Domains' /\ (\A m \in Memory \ {p} : mem'[m] = mem[m]) /\ mem'[p] = new
  BY <1>5, <1>6, <1>7, Overwriting
<1>9. ASSUME NEW b \in Below(Items), NEW h \in Below(Heads), NEW t \in Below(Positions),
             NEW u \in Below(Positions)
      PROVE  mem'[p][Flat(b, h, t, Positions, u)] =
               IF u \in Attended(t)
               THEN Prob([w \in Attended(t) |-> At("scores", Flat(b, h, t, Positions, w))], u)
               ELSE Zero
  <2> DEFINE j == Flat(b, h, t, Positions, u)
             row == [n \in 0 .. Limit(j, Positions, Positions) - 1 |-> At("scores", j - u + n)]
  <2>1. /\ j \in Below(Cells) /\ j < numel
        /\ j % Positions = u /\ (j \div Positions) % Positions = t
    BY <1>4, FlatPlace
  <2>2. ASSUME NEW n  \in Nat  PROVE j - u + n = Flat(b, h, t, Positions, n)
    <3>1. /\ Items \in Nat /\ Heads \in Nat /\ Positions \in Nat
          /\ t \in Nat /\ u \in Nat /\ b \in Nat /\ h \in Nat
      BY Extents DEF Below
    <3>2. ((b * Heads + h) * Positions + t) * Positions \in Nat
      <4>1. \A v, w, x, y, z \in Nat : ((v * w + x) * y + z) * y \in Nat
        BY SMT
      <4> QED BY <3>1, <4>1
    <3> QED BY <3>1, <3>2 DEF Flat
  <2> HIDE DEF j
  <2>3. mem'[p][j] = value(j)
    BY <1>7, <1>8, <2>1
  <2>4. value(j) = IF u \in DOMAIN row THEN Prob(row, u) ELSE Zero
    <3>1. s[2] = Positions /\ s[3] = Positions
      BY <1>1
    <3> HIDE DEF s
    <3> QED BY <2>1, <3>1 DEF value
  <2>5. 0 .. Limit(j, Positions, Positions) - 1 = Attended(t)
    <3>1. t \in Nat /\ Positions \in Nat
      BY Extents DEF Below
    <3> QED BY <2>1, <3>1 DEF Limit, Attended, Below, Positions
  <2>6. row = [w \in Attended(t) |-> At("scores", Flat(b, h, t, Positions, w))]
    <3>0. \A w \in Attended(t) : w \in Nat
      <4>1. t \in Nat /\ Positions \in Nat
        BY Extents DEF Below
      <4> QED BY <4>1 DEF Attended, Below, Positions
    <3>1. \A w \in Attended(t) : j - u + w = Flat(b, h, t, Positions, w)
      BY <2>2, <3>0
    <3> QED BY <2>5, <3>1
  <2>7. DOMAIN row = Attended(t)
    BY <2>5
  <2> HIDE DEF row
  <2> QED BY <2>3, <2>4, <2>6, <2>7 DEF j
<1> QED BY <1>6, <1>8, <1>9 DEF p

LEMMA MergeStep ==
  ASSUME call \in Calls, Admitted, NonEmpty, Domains, Merge, step' = "done"
  PROVE  /\ call' = call /\ Domains'
         /\ \A m \in Memory \ {call.place["y"]} : mem'[m] = mem[m]
         /\ \A b \in Below(Items), h \in Below(Heads), t \in Below(Positions), n \in Below(Channels) :
              mem'[call.place["y"]][Merged(b, h, t, n)] = At("y_heads", Flat(b, h, t, Channels, n))
<1> DEFINE s == Shape("y_heads")
           place == call.place["y"]
           value(j) ==
             LET d == j % s[4]
                 h == (j \div s[4]) % s[2]
                 t == (j \div (s[2] * s[4])) % s[3]
                 b == j \div (s[2] * s[4] * s[3])
             IN At("y_heads", ((b * s[2] + h) * s[3] + t) * s[4] + d)
           numel == s[1] * s[2] * s[3] * s[4]
           new == [j \in DOMAIN mem[place] |-> IF j < numel THEN value(j) ELSE mem[place][j]]
<1>1. /\ s[1] = Items /\ s[2] = Heads /\ s[3] = Positions /\ s[4] = Channels
      /\ Shape("y") = <<Items, Positions, Heads * Channels>>
  BY Extents DEF Items, Heads, Positions, Channels
<1>3. Kernel("merge", "done", MergeChecks, numel > 0, "y", numel, value)
  BY DEF Merge
<1>4. numel = ((Items * Heads) * Positions) * Channels
  BY <1>1
<1>5. place \in Memory
  BY CallFacts DEF Argument
<1> HIDE DEF numel
<1>6. call' = call /\ mem' = [mem EXCEPT ![place] = new]
  BY <1>3 DEF Kernel
<1> HIDE DEF value
<1>7. DOMAIN new = Below(Cells) /\ \A j \in Below(Cells) : j < numel => new[j] = value(j)
  BY <1>5 DEF Domains
<1> HIDE DEF new, place
<1>8. Domains' /\ (\A m \in Memory \ {place} : mem'[m] = mem[m]) /\ mem'[place] = new
  BY <1>5, <1>6, <1>7, Overwriting
<1>9. ASSUME NEW b \in Below(Items), NEW h \in Below(Heads), NEW t \in Below(Positions),
             NEW n \in Below(Channels)
      PROVE  mem'[place][Merged(b, h, t, n)] = At("y_heads", Flat(b, h, t, Channels, n))
  <2> DEFINE j == Merged(b, h, t, n)
  <2>1. /\ j \in Below(Cells) /\ j < numel
        /\ j % Channels = n /\ (j \div Channels) % Heads = h
        /\ (j \div (Heads * Channels)) % Positions = t
        /\ j \div (Heads * Channels * Positions) = b
    BY <1>4, MergedPlace
  <2> HIDE DEF j
  <2>2. mem'[place][j] = value(j)
    BY <1>7, <1>8, <2>1
  <2> HIDE DEF s
  <2>3. value(j) = At("y_heads", ((b * Heads + h) * Positions + t) * Channels + n)
    BY <1>1, <2>1 DEF value
  <2> QED BY <2>2, <2>3 DEF j, Flat
<1> QED BY <1>6, <1>8, <1>9 DEF place

-----------------------------------------------------------------------------
(* From the contents of the memories before a kernel to those after it.    *)
LEMMA SameCall ==
  ASSUME call' = call
  PROVE  /\ Admitted' = Admitted
         /\ Items' = Items /\ Heads' = Heads /\ Positions' = Positions /\ Channels' = Channels
         /\ \A b, h, t, u : /\ Score(b, h, t, u)' = Score(b, h, t, u)
                            /\ Probability(b, h, t, u)' = Probability(b, h, t, u)
                            /\ Output(b, h, t, u)' = Output(b, h, t, u)
         /\ \A b, h, t, w, n : Flat(b, h, t, w, n)' = Flat(b, h, t, w, n)
  BY DEF Admitted, Items, Heads, Positions, Channels, Score, Probability, Output, Attended,
         Input, Flat, Shape, Below

LEMMA InputFlat ==
  \A a, b, h, t, d :
    Input(a, b, h, t, d) = Original(call.place[a], Flat(b, h, t, Channels, d))
  BY DEF Input, Flat, Heads, Positions, Channels

LEMMA InputAt ==
  ASSUME call \in Calls, Admitted, NonEmpty, NEW a \in Argument, NEW used, UntouchedBut(used),
         call.place[a] \notin used,
         NEW b \in Below(Items), NEW h \in Below(Heads), NEW t \in Below(Positions),
         NEW d \in Below(Channels)
  PROVE  At(a, Flat(b, h, t, Channels, d)) = Input(a, b, h, t, d)
<1> DEFINE j == Flat(b, h, t, Channels, d)
<1>1. j \in Below(Cells)
  BY FlatPlace
<1>2. call.place[a] \in Memory
  BY CallFacts
<1> HIDE DEF j
<1>3. mem[call.place[a]][j] = Original(call.place[a], j)
  BY <1>1, <1>2 DEF UntouchedBut
<1> QED BY <1>3, InputFlat DEF At, j

LEMMA ScoresHeld ==
  ASSUME call \in Calls, Admitted, NonEmpty, Domains, UntouchedBut({}), Scores,
         step' = "softmax"
  PROVE  HoldScores' /\ UntouchedBut({call.place["scores"]})'
<1>1. /\ call' = call
      /\ \A m \in Memory \ {call.place["scores"]} : mem'[m] = mem[m]
  BY ScoresStep
<1>2. UntouchedBut({call.place["scores"]})'
  BY <1>1 DEF UntouchedBut
<1>3. ASSUME NEW b \in Below(Items), NEW h \in Below(Heads), NEW t \in Below(Positions),
             NEW u \in Below(Positions)
      PROVE  mem'[call.place["scores"]][Flat(b, h, t, Positions, u)] = Score(b, h, t, u)
  <2>1. mem'[call.place["scores"]][Flat(b, h, t, Positions, u)] =
          Dot("scaled_dot",
              {<<z, At("q", Flat(b, h, t, Channels, z)), At("k", Flat(b, h, u, Channels, z))>> :
                 z \in Below(Channels)})
    BY ScoresStep
  <2>2. \A z \in Below(Channels) :
          /\ At("q", Flat(b, h, t, Channels, z)) = Input("q", b, h, t, z)
          /\ At("k", Flat(b, h, u, Channels, z)) = Input("k", b, h, u, z)
    BY InputAt DEF Argument
  <2>3. {<<z, At("q", Flat(b, h, t, Channels, z)), At("k", Flat(b, h, u, Channels, z))>> :
           z \in Below(Channels)} =
        {<<z, Input("q", b, h, t, z), Input("k", b, h, u, z)>> : z \in Below(Channels)}
    BY <2>2
  <2> QED BY <2>1, <2>3 DEF Score, Channels
<1>4. HoldScores'
  BY <1>1, <1>3, SameCall DEF HoldScores, At
<1> QED BY <1>2, <1>4

LEMMA ProbsHeld ==
  ASSUME call \in Calls, Admitted, NonEmpty, Domains, HoldScores,
         UntouchedBut({call.place["scores"]}), Softmax, step' = "values"
  PROVE  HoldProbs' /\ UntouchedBut({call.place["scores"]})'
<1>1. /\ call' = call
      /\ \A m \in Memory \ {call.place["scores"]} : mem'[m] = mem[m]
  BY SoftmaxStep
<1>2. UntouchedBut({call.place["scores"]})'
  BY <1>1 DEF UntouchedBut
<1>3. ASSUME NEW b \in Below(Items), NEW h \in Below(Heads), NEW t \in Below(Positions),
             NEW u \in Below(Positions)
      PROVE  mem'[call.place["scores"]][Flat(b, h, t, Positions, u)] = Probability(b, h, t, u)
  <2>1. mem'[call.place["scores"]][Flat(b, h, t, Positions, u)] =
          IF u \in Attended(t)
          THEN Prob([w \in Attended(t) |-> At("scores", Flat(b, h, t, Positions, w))], u)
          ELSE Zero
    BY SoftmaxStep
  <2>2. \A w \in Attended(t) : w \in Below(Positions)
    <3>1. Positions \in Nat
      BY Extents
    <3> QED BY <3>1 DEF Attended, Below, Positions
  <2>3. \A w \in Attended(t) : At("scores", Flat(b, h, t, Positions, w)) = Score(b, h, t, w)
    BY <2>2 DEF HoldScores
  <2>4. [w \in Attended(t) |-> At("scores", Flat(b, h, t, Positions, w))] =
        [w \in Attended(t) |-> Score(b, h, t, w)]
    BY <2>3
  <2> QED BY <2>1, <2>4 DEF Probability
<1>4. HoldProbs'
  BY <1>1, <1>3, SameCall DEF HoldProbs, At
<1> QED BY <1>2, <1>4

LEMMA HeadsHeld ==
  ASSUME call \in Calls, Admitted, NonEmpty, Domains, HoldProbs, PlacesApart(call.place),
         UntouchedBut({call.place["scores"]}), Values, step' = "merge"
  PROVE  HoldProbs' /\ HoldHeads'
<1>1. /\ call' = call
      /\ \A m \in Memory \ {call.place["y_heads"]} : mem'[m] = mem[m]
  BY ValuesStep
<1>2. /\ call.place["y_heads"] # call.place["scores"]
      /\ call.place["v"] # call.place["scores"]
      /\ call.place["scores"] \in Memory
  BY CallFacts DEF PlacesApart, Argument
<1>3. mem'[call.place["scores"]] = mem[call.place["scores"]]
  BY <1>1, <1>2
<1>4. HoldProbs'
  BY <1>1, <1>3, SameCall DEF HoldProbs, At
<1>5. ASSUME NEW b \in Below(Items), NEW h \in Below(Heads), NEW t \in Below(Positions),
             NEW n \in Below(Channels)
      PROVE  mem'[call.place["y_heads"]][Flat(b, h, t, Channels, n)] = Output(b, h, t, n)
  <2>1. mem'[call.place["y_heads"]][Flat(b, h, t, Channels, n)] =
          Dot("dot",
              {<<z, At("scores", Flat(b, h, t, Positions, z)), At("v", Flat(b, h, z, Channels, n))>> :
                 z \in Below(Positions)})
    BY ValuesStep
  <2>2. \A z \in Below(Positions) :
          /\ At("scores", Flat(b, h, t, Positions, z)) = Probability(b, h, t, z)
          /\ At("v", Flat(b, h, z, Channels, n)) = Input("v", b, h, z, n)
    BY <1>2, InputAt DEF HoldProbs, Argument
  <2>3. {<<z, At("scores", Flat(b, h, t, Positions, z)), At("v", Flat(b, h, z, Channels, n))>> :
           z \in Below(Positions)} =
        {<<z, Probability(b, h, t, z), Input("v", b, h, z, n)>> : z \in Below(Positions)}
    BY <2>2
  <2> QED BY <2>1, <2>3 DEF Output, Positions
<1>6. HoldHeads'
  BY <1>1, <1>5, SameCall DEF HoldHeads, At
<1> QED BY <1>4, <1>6

LEMMA OutputHeld ==
  ASSUME call \in Calls, Admitted, NonEmpty, Domains, HoldProbs, HoldHeads, PlacesApart(call.place),
         Merge, step' = "done"
  PROVE  HoldProbs' /\ HoldHeads' /\ HoldOutput'
<1>1. /\ call' = call
      /\ \A m \in Memory \ {call.place["y"]} : mem'[m] = mem[m]
  BY MergeStep
<1>2. /\ call.place["y"] # call.place["scores"] /\ call.place["y"] # call.place["y_heads"]
      /\ call.place["scores"] \in Memory /\ call.place["y_heads"] \in Memory
  BY CallFacts DEF PlacesApart, Argument
<1>3. /\ mem'[call.place["scores"]] = mem[call.place["scores"]]
      /\ mem'[call.place["y_heads"]] = mem[call.place["y_heads"]]
  BY <1>1, <1>2
<1>4. HoldProbs' /\ HoldHeads'
  BY <1>1, <1>3, SameCall DEF HoldProbs, HoldHeads, At
<1>5. ASSUME NEW b \in Below(Items), NEW h \in Below(Heads), NEW t \in Below(Positions),
             NEW n \in Below(Channels)
      PROVE  mem'[call.place["y"]][Merged(b, h, t, n)] = Output(b, h, t, n)
  BY MergeStep DEF HoldHeads
<1>6. \A b, h, t, n : Merged(b, h, t, n)' = Merged(b, h, t, n)
  BY <1>1, SameCall DEF Merged
<1>7. HoldOutput'
  BY <1>1, <1>5, <1>6, SameCall DEF HoldOutput, At
<1> QED BY <1>4, <1>7

(* Which checks of the callees an admitted call can still fail, and that   *)
(* the merge has work only when no axis is empty.                          *)
LEMMA ChecksLeft ==
  ASSUME call \in Calls, Admitted
  PROVE  /\ ProductChecks("scores", "q", "k", TRUE) <=> ScoresReady
         /\ ScoresReady => SoftmaxChecks
         /\ ScoresReady /\ ~ProductChecks("y_heads", "scores", "v", FALSE)
              => ~Typed({"v", "y_heads", "y"})
         /\ ~MergeChecks => ~Typed({"v", "y_heads", "y"})
<1>1. call.valid = Argument /\ \A a \in Argument \ {"y"} : Len(Shape(a)) = 4
  BY DEF Admitted
<1>2. /\ \A a \in {"q", "k", "v", "y_heads"} :
           Fold(Shape(a)) = <<Items * Heads, Positions, Channels>>
      /\ Fold(Shape("scores")) = <<Items * Heads, Positions, Positions>>
  BY FoldFacts
<1>3. ProductChecks("scores", "q", "k", TRUE) <=> ScoresReady
  <2>1. /\ Fold(Shape("q")) = <<Items * Heads, Positions, Channels>>
        /\ Fold(Shape("k")) = <<Items * Heads, Positions, Channels>>
    BY <1>2
  <2> QED BY <1>1, <1>2, <2>1 DEF ProductChecks, ScoresReady, Typed, Argument
<1>4. ScoresReady => SoftmaxChecks
  BY <1>1, <1>2 DEF SoftmaxChecks, ScoresReady, Typed, Argument
<1>5. ScoresReady /\ ~ProductChecks("y_heads", "scores", "v", FALSE)
        => ~Typed({"v", "y_heads", "y"})
  <2>1. /\ Fold(Shape("v")) = <<Items * Heads, Positions, Channels>>
        /\ Fold(Shape("y_heads")) = <<Items * Heads, Positions, Channels>>
    BY <1>2
  <2> QED BY <1>1, <1>2, <2>1 DEF ProductChecks, ScoresReady, Typed, Argument
<1>6. ~MergeChecks => ~Typed({"v", "y_heads", "y"})
  <2> DEFINE s == Shape("y_heads")
  <2>1. /\ s[1] = Items /\ s[2] = Heads /\ s[3] = Positions /\ s[4] = Channels
        /\ Shape("y") = <<Items, Positions, Heads * Channels>>
    BY Shapes DEF Items, Heads, Positions, Channels
  <2>2. Len(s) = 4
    BY <1>1 DEF Argument
  <2>3. Shape("y") = <<s[1], s[3], s[2] * s[4]>>
    BY <2>1
  <2> QED BY <1>1, <2>2, <2>3 DEF MergeChecks, Typed, Argument
<1> QED BY <1>3, <1>4, <1>5, <1>6

LEMMA MergeNeedsWork ==
  ASSUME call \in Calls, Admitted, MergeNumel > 0
  PROVE  NonEmpty
<1>1. /\ Items \in Nat /\ Heads \in Nat /\ Positions \in Nat /\ Channels \in Nat
      /\ Shape("y_heads") = Shape("q")
  BY Shapes
<1>2. MergeNumel = Items * Heads * Positions * Channels
  BY <1>1 DEF MergeNumel, Items, Heads, Positions, Channels
<1>3. \A w, x, y, z \in Nat : w * x * y * z > 0 => w > 0 /\ x > 0 /\ y > 0 /\ z > 0
  <2> SUFFICES ASSUME NEW w \in Nat, NEW x \in Nat, NEW y \in Nat, NEW z \in Nat,
                      w = 0 \/ x = 0 \/ y = 0 \/ z = 0
               PROVE  w * x * y * z = 0
    BY SMT
  <2> QED BY SMT
<1> QED BY <1>1, <1>2, <1>3 DEF NonEmpty

LEMMA InitAttentionInv == InitAttention => AttentionInv
<1> SUFFICES ASSUME InitAttention PROVE AttentionInv
  OBVIOUS
<1>1. /\ call \in Calls /\ step = "check"
      /\ mem = [m \in Memory |-> [j \in 0 .. Cells - 1 |-> Original(m, j)]]
  BY DEF InitAttention
<1>2. Domains
  BY <1>1 DEF Domains, Below
<1>3. UntouchedBut({})
  BY <1>1 DEF UntouchedBut, Below
<1>4. OnlyTypesAbort
  BY <1>1 DEF OnlyTypesAbort
<1> QED BY <1>1, <1>2, <1>3, <1>4 DEF AttentionInv, Begun

(* A call that ends early.                                                 *)
LEMMA EndedKeepsAttentionInv ==
  ASSUME AttentionInv, call' = call, Domains', step' \in {"refused", "aborted", "failed"},
         step' = "aborted" =>
           IF ScoresReady THEN ~Typed({"v", "y_heads", "y"}) ELSE ~ScratchWritten',
         call \in Calls
  PROVE  AttentionInv'
<1>1. ScoresReady' = ScoresReady /\ Typed({"v", "y_heads", "y"})' = Typed({"v", "y_heads", "y"})
  BY DEF ScoresReady, Typed
<1>2. OnlyTypesAbort'
  BY <1>1 DEF OnlyTypesAbort
<1> QED BY <1>2 DEF AttentionInv, Begun

LEMMA NextKeepsAttentionInv ==
  AttentionInv /\ [NextAttention]_attentionVars => AttentionInv'
<1> SUFFICES ASSUME AttentionInv, [NextAttention]_attentionVars PROVE AttentionInv'
  OBVIOUS
<1>1. /\ call \in Calls /\ Domains
      /\ step \in Begun \cup {"check", "refused", "aborted", "failed"}
      /\ step \in Begun => Admitted
      /\ step \in {"softmax", "values", "merge"} => ScoresReady
  BY DEF AttentionInv
<1>s. call' = call => /\ Admitted' = Admitted /\ ScoresReady' = ScoresReady
                      /\ NonEmpty' = NonEmpty
                      /\ PlacesApart(call.place)' = PlacesApart(call.place)
  <2> SUFFICES ASSUME call' = call
               PROVE  /\ Admitted' = Admitted /\ ScoresReady' = ScoresReady
                      /\ NonEmpty' = NonEmpty
                      /\ PlacesApart(call.place)' = PlacesApart(call.place)
    OBVIOUS
  <2> QED BY SameCall DEF NonEmpty, ScoresReady, Typed, PlacesApart
<1>2. CASE Check
  <2>1. /\ step = "check" /\ call' = call /\ mem' = mem
        /\ step' = IF Admitted THEN "scale" ELSE "refused"
    BY <1>2 DEF Check
  <2>2. UntouchedBut({}) /\ UntouchedBut({})' /\ Domains'
    BY <2>1 DEF AttentionInv, UntouchedBut, Domains
  <2>3. OnlyTypesAbort'
    BY <2>1 DEF OnlyTypesAbort
  <2> QED BY <1>1, <1>s, <2>1, <2>2, <2>3 DEF AttentionInv, Begun
<1>3. CASE Scores
  <2>1. /\ step = "scale" /\ call' = call /\ Domains'
        /\ step' \in {"softmax", "aborted", "failed"}
        /\ step' = "aborted" => ~ProductChecks("scores", "q", "k", TRUE) /\ mem' = mem
        /\ step' = "softmax" => ProductChecks("scores", "q", "k", TRUE)
    BY <1>1, <1>3, ScoresOutcome
  <2>2. Admitted /\ UntouchedBut({})
    BY <2>1 DEF AttentionInv, Begun
  <2>3. CASE step' # "softmax"
    <3>1. step' = "aborted" => ~ScoresReady
      BY <1>1, <2>1, <2>2, ChecksLeft
    <3>2. step' = "aborted" => ~ScratchWritten'
      BY <2>1, <2>2 DEF UntouchedBut, ScratchWritten, Below
    <3> QED BY <1>1, <2>1, <2>3, <3>1, <3>2, EndedKeepsAttentionInv
  <2>4. CASE step' = "softmax"
    <3>1. ScoresReady'
      BY <1>1, <1>s, <2>1, <2>2, <2>4, ChecksLeft
    <3>2. NonEmpty => HoldScores' /\ UntouchedBut({call.place["scores"]})'
      BY <1>1, <1>3, <2>2, <2>4, ScoresHeld
    <3>3. OnlyTypesAbort'
      BY <2>4 DEF OnlyTypesAbort
    <3> QED BY <1>1, <1>s, <2>1, <2>2, <2>4, <3>1, <3>2, <3>3 DEF AttentionInv, Begun
  <2> QED BY <2>3, <2>4
<1>4. CASE Softmax
  <2>1. /\ step = "softmax" /\ call' = call /\ Domains'
        /\ step' \in {"values", "aborted", "failed"}
        /\ step' = "aborted" => ~SoftmaxChecks /\ mem' = mem
    BY <1>1, <1>4, SoftmaxOutcome
  <2>2. Admitted /\ ScoresReady
    BY <1>1, <2>1 DEF Begun
  <2>3. CASE step' # "values"
    <3>1. step' # "aborted"
      BY <1>1, <2>1, <2>2, ChecksLeft
    <3> QED BY <1>1, <2>1, <2>3, <3>1, EndedKeepsAttentionInv
  <2>4. CASE step' = "values"
    <3>1. PlacesApart(call.place) /\ NonEmpty =>
            HoldProbs' /\ UntouchedBut({call.place["scores"]})'
      <4>1. PlacesApart(call.place) /\ NonEmpty =>
              HoldScores /\ UntouchedBut({call.place["scores"]})
        BY <2>1 DEF AttentionInv
      <4> QED BY <1>1, <1>4, <2>2, <2>4, <4>1, ProbsHeld
    <3>2. OnlyTypesAbort'
      BY <2>4 DEF OnlyTypesAbort
    <3> QED BY <1>1, <1>s, <2>1, <2>2, <2>4, <3>1, <3>2 DEF AttentionInv, Begun
  <2> QED BY <2>3, <2>4
<1>5. CASE Values
  <2>1. /\ step = "values" /\ call' = call /\ Domains'
        /\ step' \in {"merge", "aborted", "failed"}
        /\ step' = "aborted" => ~ProductChecks("y_heads", "scores", "v", FALSE) /\ mem' = mem
    BY <1>1, <1>5, ValuesOutcome
  <2>2. Admitted /\ ScoresReady
    BY <1>1, <2>1 DEF Begun
  <2>3. CASE step' # "merge"
    <3>1. step' = "aborted" => ~Typed({"v", "y_heads", "y"})
      BY <1>1, <2>1, <2>2, ChecksLeft
    <3> QED BY <1>1, <2>1, <2>2, <2>3, <3>1, EndedKeepsAttentionInv
  <2>4. CASE step' = "merge"
    <3>1. PlacesApart(call.place) /\ NonEmpty => HoldProbs' /\ HoldHeads'
      <4>1. PlacesApart(call.place) /\ NonEmpty =>
              HoldProbs /\ UntouchedBut({call.place["scores"]})
        BY <2>1 DEF AttentionInv
      <4> QED BY <1>1, <1>5, <2>2, <2>4, <4>1, HeadsHeld
    <3>2. OnlyTypesAbort'
      BY <2>4 DEF OnlyTypesAbort
    <3> QED BY <1>1, <1>s, <2>1, <2>2, <2>4, <3>1, <3>2 DEF AttentionInv, Begun
  <2> QED BY <2>3, <2>4
<1>6. CASE Merge
  <2>1. /\ step = "merge" /\ call' = call /\ Domains'
        /\ step' \in {"done", "aborted", "failed"}
        /\ step' = "aborted" => ~MergeChecks /\ mem' = mem
        /\ step' = "done" => MergeNumel > 0
    BY <1>1, <1>6, MergeOutcome
  <2>2. Admitted /\ ScoresReady
    BY <1>1, <2>1 DEF Begun
  <2>3. CASE step' # "done"
    <3>1. step' = "aborted" => ~Typed({"v", "y_heads", "y"})
      BY <1>1, <2>1, <2>2, ChecksLeft
    <3> QED BY <1>1, <2>1, <2>2, <2>3, <3>1, EndedKeepsAttentionInv
  <2>4. CASE step' = "done"
    <3>1. NonEmpty
      BY <1>1, <2>1, <2>2, <2>4, MergeNeedsWork
    <3>2. PlacesApart(call.place) => HoldProbs' /\ HoldHeads' /\ HoldOutput'
      <4>1. PlacesApart(call.place) => HoldProbs /\ HoldHeads
        BY <2>1, <3>1 DEF AttentionInv
      <4> QED BY <1>1, <1>6, <2>2, <2>4, <3>1, <4>1, OutputHeld
    <3>3. OnlyTypesAbort'
      BY <2>4 DEF OnlyTypesAbort
    <3> QED BY <1>1, <1>s, <2>1, <2>2, <2>4, <3>1, <3>2, <3>3 DEF AttentionInv, Begun
  <2> QED BY <2>3, <2>4
<1>7. CASE UNCHANGED attentionVars
  <2>1. call' = call /\ step' = step /\ mem' = mem
    BY <1>7 DEF attentionVars
  <2>2. \A b, h, t, n : Merged(b, h, t, n)' = Merged(b, h, t, n)
    BY <2>1, SameCall DEF Merged
  <2>3. /\ Domains' = Domains /\ \A used : UntouchedBut(used)' = UntouchedBut(used)
        /\ OnlyTypesAbort' = OnlyTypesAbort
    BY <2>1 DEF Domains, UntouchedBut, OnlyTypesAbort, ScoresReady, Typed, ScratchWritten
  <2>4. HoldScores' = HoldScores /\ HoldProbs' = HoldProbs
    BY <2>1, SameCall DEF HoldScores, HoldProbs, At
  <2>5. HoldHeads' = HoldHeads /\ HoldOutput' = HoldOutput
    BY <2>1, <2>2, SameCall DEF HoldHeads, HoldOutput, At
  <2> QED BY <1>s, <2>1, <2>3, <2>4, <2>5 DEF AttentionInv
<1> QED BY <1>2, <1>3, <1>4, <1>5, <1>6, <1>7 DEF NextAttention

(* The only checks left to the callees are those of the context and of the *)
(* types, and once a scratch tensor has been overwritten only those of the *)
(* types of v, y_heads and y.                                              *)
THEOREM AttentionOnlyTypesAbort == AttentionSpec => []OnlyTypesAbort
<1>1. AttentionInv => OnlyTypesAbort
  BY DEF AttentionInv
<1> QED BY <1>1, InitAttentionInv, NextKeepsAttentionInv, PTL DEF AttentionSpec

(* The composition computes the attention of the tensors as they were at   *)
(* the call, for all extents and wherever y_heads and y lie among the      *)
(* inputs already used up; the scratch tensors hold the probabilities and  *)
(* the heads before the merge.                                             *)
THEOREM AttentionIsCorrect == AttentionSpec => []AttentionCorrect
<1>1. AttentionInv => AttentionCorrect
  <2> SUFFICES ASSUME AttentionInv, step = "done", PlacesApart(call.place)
               PROVE  LET s == Shape("q") IN
                 \A b \in Below(s[1]), h \in Below(s[2]), t \in Below(s[3]) :
                   /\ \A u \in Below(s[3]) :
                        At("scores", ((b * s[2] + h) * s[3] + t) * s[3] + u) = Probability(b, h, t, u)
                   /\ \A d \in Below(s[4]) :
                        /\ At("y_heads", ((b * s[2] + h) * s[3] + t) * s[4] + d) = Output(b, h, t, d)
                        /\ At("y", (b * s[3] + t) * s[2] * s[4] + h * s[4] + d) = Output(b, h, t, d)
    BY DEF AttentionCorrect
  <2>1. HoldProbs /\ HoldHeads /\ HoldOutput
    BY DEF AttentionInv
  <2> QED BY <2>1 DEF HoldProbs, HoldHeads, HoldOutput, Flat, Merged,
                      Items, Heads, Positions, Channels
<1> QED BY <1>1, InitAttentionInv, NextKeepsAttentionInv, PTL DEF AttentionSpec

-----------------------------------------------------------------------------
(* What one pair of a term adds to what the term reads.                    *)
Pair(a, b) == IF Zero \in {a, b} THEN {} ELSE {a, b}

Paired(X, f, g) == {<<x, f[x], g[x]>> : x \in X}
ReadInPairs(X, f, g) == UNION {Pair(f[x], g[x]) : x \in X}

LEMMA ReadsOfDot ==
  ASSUME NEW scale, scale # "cell", NEW X, NEW f, NEW g
  PROVE  Reads(Dot(scale, Paired(X, f, g))) = ReadInPairs(X, f, g)
<1> DEFINE args == {<<x, f[x], g[x]>> : x \in X}
           part(p) == IF Zero \in {p[2], p[3]} THEN {} ELSE {p[2], p[3]}
<1>1. Dot(scale, args).op # "cell" /\ Dot(scale, args).args = args
  BY DEF Dot, Term
<1>2. Reads(Dot(scale, args)) = UNION {part(p) : p \in args}
  BY <1>1 DEF Reads
<1>3. \A x \in X : part(<<x, f[x], g[x]>>) = Pair(f[x], g[x])
  BY DEF Pair
<1> HIDE DEF part
<1>4. {part(p) : p \in args} = {Pair(f[x], g[x]) : x \in X}
  BY <1>3
<1> QED BY <1>2, <1>4 DEF Paired, ReadInPairs

LEMMA ReadsOfProb ==
  ASSUME NEW row, NEW c \in DOMAIN row, \A j \in DOMAIN row : row[j] # Zero
  PROVE  Reads(Prob(row, c)) = {row[j] : j \in DOMAIN row}
<1> DEFINE args == {<<j, row[j], row[c]>> : j \in DOMAIN row}
           part(p) == IF Zero \in {p[2], p[3]} THEN {} ELSE {p[2], p[3]}
<1>1. Prob(row, c).op # "cell" /\ Prob(row, c).args = args
  BY DEF Prob, Term
<1>2. Reads(Prob(row, c)) = UNION {part(p) : p \in args}
  BY <1>1 DEF Reads
<1>3. \A j \in DOMAIN row : part(<<j, row[j], row[c]>>) = {row[j], row[c]}
  OBVIOUS
<1> HIDE DEF part
<1>4. {part(p) : p \in args} = {{row[j], row[c]} : j \in DOMAIN row}
  BY <1>3
<1>5. UNION {{row[j], row[c]} : j \in DOMAIN row} = {row[j] : j \in DOMAIN row}
  OBVIOUS
<1> QED BY <1>2, <1>4, <1>5

LEMMA TermsDiffer ==
  /\ \A m, j : Original(m, j) # Zero /\ Original(m, j).op = "cell"
  /\ \A row, c : Prob(row, c) # Zero
  /\ \A pairs : Dot("scaled_dot", pairs) # Zero
<1>1. \A m, j : Original(m, j).op = "cell"
  BY DEF Original, Term
<1>2. Zero.op = "0"
  BY DEF Zero, Term
<1>3. \A row, c : Prob(row, c).op = "prob"
  BY DEF Prob, Term
<1>4. \A pairs : Dot("scaled_dot", pairs).op = "scaled_dot"
  BY DEF Dot, Term
<1> QED BY <1>1, <1>2, <1>3, <1>4

LEMMA InputIsCell ==
  \A a, b, h, t, d : Input(a, b, h, t, d) # Zero /\ Input(a, b, h, t, d).op = "cell"
BY InputFlat, TermsDiffer

LEMMA ReadsOfScore ==
  ASSUME NEW b, NEW h, NEW t, NEW u
  PROVE  Reads(Score(b, h, t, u)) = {Input("q", b, h, t, e) : e \in Below(Channels)}
                                    \cup {Input("k", b, h, u, e) : e \in Below(Channels)}
<1> DEFINE X == Below(Channels)
           f == [e \in X |-> Input("q", b, h, t, e)]
           g == [e \in X |-> Input("k", b, h, u, e)]
<1>1. Score(b, h, t, u) = Dot("scaled_dot", Paired(X, f, g))
  BY DEF Score, Channels, Paired
<1>2. \A e \in X : Pair(f[e], g[e]) = {f[e], g[e]}
  <2>1. \A e \in X : f[e] # Zero /\ g[e] # Zero
    BY InputIsCell
  <2> HIDE DEF f, g
  <2> QED BY <2>1 DEF Pair
<1>3. /\ {f[e] : e \in X} = {Input("q", b, h, t, e) : e \in Below(Channels)}
      /\ {g[e] : e \in X} = {Input("k", b, h, u, e) : e \in Below(Channels)}
  OBVIOUS
<1> HIDE DEF f, g, X
<1>4. Reads(Score(b, h, t, u)) = ReadInPairs(X, f, g)
  BY <1>1, ReadsOfDot
<1>5. ReadInPairs(X, f, g) = {f[e] : e \in X} \cup {g[e] : e \in X}
  BY <1>2 DEF ReadInPairs
<1>6. Reads(Score(b, h, t, u)) = {f[e] : e \in X} \cup {g[e] : e \in X}
  BY <1>4, <1>5
<1> QED BY <1>3, <1>6

LEMMA ReadsOfProbability ==
  ASSUME NEW b, NEW h, NEW t, NEW u \in Attended(t)
  PROVE  Reads(Probability(b, h, t, u)) = {Score(b, h, t, w) : w \in Attended(t)}
<1> DEFINE row == [w \in Attended(t) |-> Score(b, h, t, w)]
<1>1. Probability(b, h, t, u) = Prob(row, u)
  BY DEF Probability
<1>2. DOMAIN row = Attended(t) /\ u \in DOMAIN row
  OBVIOUS
<1>3. \A w \in DOMAIN row : row[w] # Zero
  BY TermsDiffer DEF Score
<1>4. {row[w] : w \in DOMAIN row} = {Score(b, h, t, w) : w \in Attended(t)}
  OBVIOUS
<1> HIDE DEF row
<1>5. Reads(Prob(row, u)) = {row[w] : w \in DOMAIN row}
  BY <1>2, <1>3, ReadsOfProb
<1> QED BY <1>1, <1>4, <1>5

LEMMA ReadsOfOutput ==
  ASSUME NEW b, NEW h, NEW t, NEW d, Attended(t) \subseteq Below(Positions)
  PROVE  Reads(Output(b, h, t, d)) = {Probability(b, h, t, u) : u \in Attended(t)}
                                     \cup {Input("v", b, h, u, d) : u \in Attended(t)}
<1> DEFINE X == Below(Positions)
           f == [u \in X |-> Probability(b, h, t, u)]
           g == [u \in X |-> Input("v", b, h, u, d)]
<1>1. Output(b, h, t, d) = Dot("dot", Paired(X, f, g))
  BY DEF Output, Positions, Paired
<1>2. \A u \in X : Pair(f[u], g[u]) = IF u \in Attended(t) THEN {f[u], g[u]} ELSE {}
  <2>1. \A u \in X : g[u] # Zero
    BY InputIsCell
  <2>2. \A u : u \notin Attended(t) => Probability(b, h, t, u) = Zero
    BY DEF Probability
  <2>3. \A u : u \in Attended(t) => Probability(b, h, t, u) # Zero
    BY TermsDiffer DEF Probability
  <2>4. \A u \in X : f[u] = Zero <=> u \notin Attended(t)
    BY <2>2, <2>3
  <2> HIDE DEF f, g
  <2> QED BY <2>1, <2>4 DEF Pair
<1> HIDE DEF f, g
<1>3. Reads(Output(b, h, t, d)) = ReadInPairs(X, f, g)
  BY <1>1, ReadsOfDot
<1>4. ReadInPairs(X, f, g) = {f[u] : u \in Attended(t)} \cup {g[u] : u \in Attended(t)}
  <2> HIDE DEF X
  <2>1. ASSUME NEW z \in ReadInPairs(X, f, g)
        PROVE  \E u \in Attended(t) : z = f[u] \/ z = g[u]
    BY <1>2 DEF ReadInPairs
  <2>2. ASSUME NEW u \in Attended(t)
        PROVE  f[u] \in ReadInPairs(X, f, g) /\ g[u] \in ReadInPairs(X, f, g)
    <3>1. u \in X /\ Pair(f[u], g[u]) = {f[u], g[u]}
      BY <1>2 DEF X
    <3> QED BY <3>1 DEF ReadInPairs
  <2> QED BY <2>1, <2>2
<1>5. /\ \A u \in Attended(t) : f[u] = Probability(b, h, t, u)
      /\ \A u \in Attended(t) : g[u] = Input("v", b, h, u, d)
  BY DEF f, g
<1>6. Reads(Output(b, h, t, d)) = {f[u] : u \in Attended(t)} \cup {g[u] : u \in Attended(t)}
  BY <1>3, <1>4
<1> QED BY <1>5, <1>6

LEMMA SourcesOfOutput ==
  ASSUME NEW b, NEW h, NEW t, NEW d, Attended(t) \subseteq Below(Positions), Attended(t) # {}
  PROVE  Sources(Output(b, h, t, d))
           = InputRow("q", b, h, t) \cup (UNION {InputRow("k", b, h, u) : u \in Attended(t)})
             \cup {Input("v", b, h, u, d).cell : u \in Attended(t)}
<1> DEFINE A == Attended(t)
           values == {Input("v", b, h, u, d) : u \in A}
           probs == {Probability(b, h, t, u) : u \in A}
           scores == {Score(b, h, t, u) : u \in A}
           query == {Input("q", b, h, t, e) : e \in Below(Channels)}
           keys(u) == {Input("k", b, h, u, e) : e \in Below(Channels)}
<1>1. Reads(Output(b, h, t, d)) = probs \cup values
  BY ReadsOfOutput
<1>2. \A p \in probs : Reads(p) = scores
  BY ReadsOfProbability
<1>3. \A u \in A : Reads(Score(b, h, t, u)) = query \cup keys(u)
  BY ReadsOfScore
<1>4. \A v \in values : Reads(v) = {v}
  <2>1. \A v \in values : v.op = "cell"
    BY InputIsCell
  <2> QED BY <2>1 DEF Reads
<1>5. probs # {} /\ scores # {}
  OBVIOUS
<1>6. /\ {v.cell : v \in query} = InputRow("q", b, h, t)
      /\ \A u \in A : {v.cell : v \in keys(u)} = InputRow("k", b, h, u)
      /\ {v.cell : v \in values} = {Input("v", b, h, u, d).cell : u \in A}
  BY DEF InputRow, Channels
<1> HIDE DEF values, probs, query, keys
<1>7. Unfold(probs \cup values) = scores \cup values
  BY <1>2, <1>4, <1>5 DEF Unfold
<1>8. Unfold(scores \cup values) = (query \cup UNION {keys(u) : u \in A}) \cup values
  BY <1>3, <1>4, <1>5 DEF Unfold
<1>9. Sources(Output(b, h, t, d))
        = {s.cell : s \in (query \cup UNION {keys(u) : u \in A}) \cup values}
  BY <1>1, <1>7, <1>8 DEF Sources
<1>10. {s.cell : s \in (query \cup UNION {keys(u) : u \in A}) \cup values}
        = ({s.cell : s \in query} \cup {s.cell : s \in UNION {keys(u) : u \in A}})
          \cup {s.cell : s \in values}
  OBVIOUS
<1>11. {s.cell : s \in UNION {keys(u) : u \in A}} = UNION {{s.cell : s \in keys(u)} : u \in A}
  OBVIOUS
<1>12. UNION {{s.cell : s \in keys(u)} : u \in A} = UNION {InputRow("k", b, h, u) : u \in A}
  BY <1>6
<1>13. {s.cell : s \in UNION {keys(u) : u \in A}} = UNION {InputRow("k", b, h, u) : u \in A}
  BY <1>11, <1>12
<1>14. /\ {s.cell : s \in query} = InputRow("q", b, h, t)
       /\ {s.cell : s \in values} = {Input("v", b, h, u, d).cell : u \in A}
  BY <1>6
<1>15. Sources(Output(b, h, t, d))
         = ({s.cell : s \in query} \cup {s.cell : s \in UNION {keys(u) : u \in A}})
           \cup {s.cell : s \in values}
  BY <1>9, <1>10
<1> QED BY <1>13, <1>14, <1>15

(* An output depends on exactly the query at its position, the keys it may *)
(* attend to and their values in its own channel: for all extents, no item *)
(* of the batch, no head and, under the mask, no later position leaks into *)
(* another's output.                                                       *)
THEOREM AttentionSeesOnlyItsPast == AttentionSpec => []SeesOnlyItsPast
<1>1. AttentionInv => SeesOnlyItsPast
  <2> SUFFICES ASSUME AttentionInv, step = "done", PlacesApart(call.place),
                      NEW b \in Below(Items), NEW h \in Below(Heads),
                      NEW t \in Below(Positions), NEW d \in Below(Channels)
               PROVE  Sources(At("y", Merged(b, h, t, d)))
                        = InputRow("q", b, h, t)
                          \cup (UNION {InputRow("k", b, h, u) : u \in Attended(t)})
                          \cup {Input("v", b, h, u, d).cell : u \in Attended(t)}
    BY DEF SeesOnlyItsPast, Merged, Items, Heads, Positions, Channels
  <2>1. HoldOutput /\ call \in Calls /\ Admitted /\ NonEmpty
    BY DEF AttentionInv, Begun
  <2>2. At("y", Merged(b, h, t, d)) = Output(b, h, t, d)
    BY <2>1 DEF HoldOutput
  <2>3. Positions \in Nat \ {0}
    BY <2>1, Extents
  <2>4. Attended(t) \subseteq Below(Positions) /\ t \in Attended(t)
    BY <2>3 DEF Attended, Below, Positions
  <2> QED BY <2>2, <2>4, SourcesOfOutput
<1> QED BY <1>1, InitAttentionInv, NextKeepsAttentionInv, PTL DEF AttentionSpec
=============================================================================

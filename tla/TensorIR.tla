------------------------------ MODULE TensorIR ------------------------------
(***************************************************************************)
(* The tensor language of the jobs (teuton_core/ir.py, teuton_runtime/     *)
(* eval.py and their v2 originals).  A tensor is abstracted to what        *)
(* evaluate() can refuse it for, its dtype and its shape, and to what is   *)
(* known of its rows: "any" vector, "in" the span of a basis, the "basis"  *)
(* itself, the "coords" of rows that were in the span, or the "lossy"      *)
(* coords of rows that need not have been.  An op that torch would reject  *)
(* gives Bad, and Bad is contagious, as an exception is.                   *)
(***************************************************************************)
EXTENDS Integers, Sequences, SequencesExt

Free == <<"any", "">>
Tensor(dt, sh) == [dt |-> dt, sh |-> sh, sp |-> Free]
F32(sh) == Tensor("float32", sh)
I64(sh) == Tensor("int64", sh)
Bad == Tensor("refused", << >>)
Scalar == F32(<< >>)
In(u, t) == [t EXCEPT !.sp = <<"in", u>>]
Basis(u, t) == [t EXCEPT !.sp = <<"basis", u>>]

\* An assignment of a graph builder: f of the value of x.  The loop of a
\* builder over a sequence.
Bind(x, f(_)) == CHOOSE y \in {f(v) : v \in {x}} : TRUE
Unroll(op(_, _), base, seq) ==
    LET f[i \in 0..Len(seq)] == IF i = 0 THEN base ELSE Bind(<<f[i - 1], seq[i]>>, LAMBDA p : op(p[1], p[2]))
    IN  f[Len(seq)]
Numel(sh) == FoldLeft(LAMBDA n, d : n * d, 1, sh)
Axis(t, d) == IF d < 0 THEN Len(t.sh) + d + 1 ELSE d + 1

\* The result of an op over the arguments, unless torch rejects them.
Op(args, ok, result) ==
    IF (\E i \in DOMAIN args : args[i] = Bad) \/ ~ok THEN Bad ELSE result

\* What is known of rows taken from both tensors.
Join(a, b) ==
    IF a.sp = b.sp THEN a.sp
    ELSE IF "lossy" \in {a.sp[1], b.sp[1]} THEN <<"lossy", "">> ELSE Free

-----------------------------------------------------------------------------
(* Elementwise ops.                                                        *)

\* Shapes are aligned at their last axis; an axis of size 1 stretches, and
\* an axis that fits neither way is 0.
Padded(sh, n) == [i \in 1..n |-> IF i > n - Len(sh) THEN sh[i - n + Len(sh)] ELSE 1]
Stretched(s, t) ==
    [i \in DOMAIN s |-> IF t[i] \in {1, s[i]} THEN s[i] ELSE IF s[i] = 1 THEN t[i] ELSE 0]
Broadcast(s, t) ==
    IF s = t THEN s
    ELSE LET n == IF Len(s) > Len(t) THEN Len(s) ELSE Len(t) IN Stretched(Padded(s, n), Padded(t, n))
\* A tensor, unless its shape has an axis of size 0.
Fitting(t) == IF \E i \in DOMAIN t.sh : t.sh[i] = 0 THEN Bad ELSE t
Promote(d, e) ==
    IF d = e THEN d ELSE IF "float32" \in {d, e} THEN "float32" ELSE "int64"

Pairwise(a, b, dt, sp) ==
    Op(<<a, b>>, TRUE, Fitting([dt |-> dt, sh |-> Broadcast(a.sh, b.sh), sp |-> sp]))
Add(a, b) == Pairwise(a, b, Promote(a.dt, b.dt), Join(a, b))
Sub(a, b) == Add(a, b)
Mul(a, b) ==
    Pairwise(a, b, Promote(a.dt, b.dt),
             IF a.sh = << >> THEN b.sp ELSE IF b.sh = << >> THEN a.sp ELSE Free)
Compare(a, b) == Pairwise(a, b, "bool", Free)
Neg(a) == a
Unary(a) == [a EXCEPT !.sp = Free]
Cast(a, dt) == Op(<<a>>, TRUE, [a EXCEPT !.dt = dt])

-----------------------------------------------------------------------------
(* Linear algebra and reductions.                                          *)

Matrix(t) == SubSeq(t.sh, Len(t.sh) - 1, Len(t.sh))
Batch(t) == SubSeq(t.sh, 1, Len(t.sh) - 2)
\* The rows of a @ b are combinations of the rows of b; with a basis for b
\* they are the coordinates of the rows of a.
MatMul(a, b) ==
    Op(<<a, b>>,
       /\ Len(a.sh) >= 2 /\ Len(b.sh) >= 2 /\ a.dt = b.dt
       /\ Matrix(a)[2] = Matrix(b)[1],
       Fitting([dt |-> a.dt,
                sh |-> Broadcast(Batch(a), Batch(b)) \o <<Matrix(a)[1], Matrix(b)[2]>>,
                sp |-> CASE b.sp[1] = "in" -> b.sp
                         [] b.sp[1] = "basis" -> <<IF a.sp = <<"in", b.sp[2]>> THEN "coords" ELSE "lossy", b.sp[2]>>
                         [] OTHER -> Free]))
Permute(a, dims) ==
    Op(<<a>>, Len(dims) = Len(a.sh),
       [dt |-> a.dt, sh |-> [i \in DOMAIN dims |-> a.sh[dims[i] + 1]],
        sp |-> IF a.sp[1] = "basis" THEN <<"in", a.sp[2]>> ELSE Free])
Transposed(a) == Permute(a, <<1, 0>>)
\* einsum "btd,bte->de": the gradient of a matrix shared by every position.
EinsumRows(a, b) ==
    Op(<<a, b>>, Len(a.sh) = 3 /\ Len(b.sh) = 3 /\ SubSeq(a.sh, 1, 2) = SubSeq(b.sh, 1, 2),
       [dt |-> a.dt, sh |-> <<a.sh[3], b.sh[3]>>,
        sp |-> IF b.sp[1] = "in" THEN b.sp ELSE Free])
Reshape(a, sh) ==
    Op(<<a>>, Numel(a.sh) = Numel(sh), [dt |-> a.dt, sh |-> sh, sp |-> Free])
Mean(a, dim) ==
    Op(<<a>>, Axis(a, dim) \in DOMAIN a.sh, [a EXCEPT !.sh = RemoveAt(@, Axis(a, dim))])
Sum(a, dim) == Mean(a, dim)
Kept(a, dim) ==
    Op(<<a>>, Axis(a, dim) \in DOMAIN a.sh,
       [a EXCEPT !.sh = ReplaceAt(@, Axis(a, dim), 1), !.sp = Free])
MeanAll(a) == Op(<<a>>, TRUE, [dt |-> a.dt, sh |-> << >>, sp |-> Free])

-----------------------------------------------------------------------------
(* Shape and indexing ops.                                                 *)

AllJoin(ts) == FoldLeft(LAMBDA t, s : [t EXCEPT !.sp = Join(t, s)], ts[1], ts).sp
Stack(ts, dim) ==
    Op(ts, \A i \in DOMAIN ts : ts[i].sh = ts[1].sh,
       [dt |-> ts[1].dt, sh |-> InsertAt(ts[1].sh, dim + 1, Len(ts)), sp |-> AllJoin(ts)])
Concat(ts, dim) ==
    LET d == Axis(ts[1], dim)
    IN  Op(ts, \A i \in DOMAIN ts : /\ Len(ts[i].sh) = Len(ts[1].sh)
                                    /\ RemoveAt(ts[i].sh, d) = RemoveAt(ts[1].sh, d),
           [dt |-> ts[1].dt, sp |-> AllJoin(ts),
            sh |-> ReplaceAt(ts[1].sh, d, FoldLeft(LAMBDA n, t : n + t.sh[d], 0, ts))])
BroadcastTo(a, sh) ==
    Op(<<a>>, Broadcast(a.sh, sh) = sh,
       [a EXCEPT !.sh = sh])
Squeeze(a, dim) ==
    Op(<<a>>, Axis(a, dim) \in DOMAIN a.sh,
       IF a.sh[Axis(a, dim)] = 1 THEN [a EXCEPT !.sh = RemoveAt(@, Axis(a, dim))] ELSE a)
Unsqueeze(a, dim) ==
    Op(<<a>>, TRUE, [a EXCEPT !.sh = InsertAt(@, IF dim < 0 THEN Len(@) + dim + 2 ELSE dim + 1, 1)])
Slice(a, dim, start, end) ==
    LET d == Axis(a, dim)
    IN  Op(<<a>>, d \in DOMAIN a.sh /\ 0 <= start /\ start <= end /\ end <= a.sh[d],
           [a EXCEPT !.sh = ReplaceAt(@, d, end - start), !.sp = IF @[1] = "basis" THEN Free ELSE @])
Pick(a, i) == Squeeze(Slice(a, 0, i, i + 1), 0)
Scatter(a, index, src) ==
    Op(<<a, index, src>>, Len(index.sh) = Len(a.sh) /\ Len(src.sh) = Len(a.sh), Unary(a))

-----------------------------------------------------------------------------
(* Language-model and wire ops.                                            *)

CrossEntropy(logits, targets) ==
    Op(<<logits, targets>>, Numel(logits.sh) = Numel(targets.sh) * logits.sh[Len(logits.sh)], Scalar)
Embedding(weight, ids) ==
    Op(<<weight, ids>>, Len(weight.sh) = 2, F32(ids.sh \o <<weight.sh[2]>>))
\* (input_ids, target_ids); randint needs at least one starting offset.
DataIndexer(tokens, B, T) ==
    LET n == Numel(tokens.sh)
        ids == Op(<<tokens>>, n >= T + 1 /\ n - T - 1 > 0, I64(<<B, T>>))
    IN  <<ids, ids>>
\* The per-channel scale has size 1 on every axis but dim.
ScaleShape(sh, d) == [i \in DOMAIN sh |-> IF i = d THEN sh[i] ELSE 1]
Quantize(a, dim) ==
    <<Op(<<a>>, TRUE, [a EXCEPT !.dt = "int8"]),
      Op(<<a>>, TRUE, F32(ScaleShape(a.sh, Axis(a, dim))))>>
Dequantize(q, scale) == Pairwise(q, scale, "float32", q.sp)
QuantizePack(a) ==
    Op(<<a>>, TRUE, Tensor("uint8", <<4 * a.sh[Len(a.sh)] + Numel(a.sh)>>))
UnpackDequantize(packed, sh) ==
    Op(<<packed>>, packed.sh = <<4 * sh[Len(sh)] + Numel(sh)>>, F32(sh))

-----------------------------------------------------------------------------
(* Graphs.  A graph is what it declares and the outputs its ops compute    *)
(* from the tensors bound to it.                                           *)

Graph(ins, params, blobs, out) == [ins |-> ins, params |-> params, blobs |-> blobs, out |-> out]
NoBlobs == [name \in {} |-> Bad]
Arg(in, name) == IF name \in DOMAIN in THEN in[name] ELSE Bad

\* Shapes are equal where the declaration does not say -1.
Matches(spec, t) ==
    /\ spec.dt = t.dt /\ Len(spec.sh) = Len(t.sh)
    /\ \A i \in DOMAIN t.sh : spec.sh[i] \in {-1, t.sh[i]}
BlobMatches(spec, t) == spec.dt = t.dt /\ spec.sh = t.sh

\* Does evaluate() return (TRUE) or raise?
Evaluates(g, in, blobs, params) ==
    /\ \A n \in DOMAIN g.ins : n \in DOMAIN in /\ Matches(g.ins[n], in[n])
    /\ g.params \subseteq params
    /\ \A n \in DOMAIN g.blobs : n \in DOMAIN blobs /\ BlobMatches(g.blobs[n], blobs[n])
    /\ \A n \in DOMAIN g.out : g.out[n] # Bad
=============================================================================

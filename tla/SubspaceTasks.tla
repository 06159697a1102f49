--------------------------- MODULE SubspaceTasks ---------------------------
(***************************************************************************)
(* The graphs of the v2 language-model round tasks: tiny_gpt.py and the    *)
(* pluralis_* tasks that keep the second layer's weights in a subspace S   *)
(* spanned by the static basis U_k.  S is a row-space fact the tensors     *)
(* carry: W1 "in" S means W1 = W1 @ U_k @ U_k^T.                           *)
(***************************************************************************)
EXTENDS MlpTasks

V == 32
T == 8
B_LM == 16
B_LM_EVAL == 64
SUBSPACE_K == 8
K_X == 8
K_DY == 6

LmBlobs == [emb_table |-> F32(<<V, D>>), pe |-> F32(<<T, D>>)]
UkBlob == [U_k |-> F32(<<D, SUBSPACE_K>>)]
AsymBlobs == [U_k_x |-> F32(<<D, K_X>>), U_k_dy |-> F32(<<D, K_DY>>)]
LmPack == F32(<<2, B_LM, T, D>>)

-----------------------------------------------------------------------------
(* Pieces the builders share.                                              *)

TokenIds(b, t) == Cast(Mul(F32(<<b, t>>), Scalar), "int64")
OneHot(ids, v) ==
    Cast(Compare(BroadcastTo(Reshape(I64(<<v>>), <<1, 1, v>>), ids.sh \o <<v>>),
                 BroadcastTo(Unsqueeze(ids, -1), ids.sh \o <<v>>)), "float32")
\* dL/dh of the tied head: (softmax(h @ emb^T) - one_hot) @ emb.
LmGrad(h, ids, emb) ==
    MatMul(Mul(Sub(Unary(MatMul(h, Transposed(emb))), OneHot(ids, emb.sh[1])), Scalar), emb)
LmChain(in) ==
    Bind(TokenIds(B_LM, T), LAMBDA ids :
    Bind(Add(Embedding(Arg(in, "emb_table"), ids), Arg(in, "pe")), LAMBDA h0 :
    Bind(MatMul(h0, Arg(in, "weights_0")), LAMBDA h1 :
    Bind(MatMul(h1, Arg(in, "weights_1")), LAMBDA h2 :
    Bind(LmGrad(h2, ids, Arg(in, "emb_table")), LAMBDA dh2 :
    Bind(MatMul(dh2, Transposed(Arg(in, "weights_1"))), LAMBDA dh1 :
        [h0 |-> h0, h1 |-> h1, target_0 |-> Sub(h1, dh1), target_1 |-> Sub(h2, dh2)]))))))
LmEval(in) ==
    Bind(TokenIds(B_LM_EVAL, T), LAMBDA ids :
    Bind(Add(Embedding(Arg(in, "emb_table"), ids), Arg(in, "pe")), LAMBDA h0 :
    Bind(MatMul(MatMul(h0, Arg(in, "weights_0")), Arg(in, "weights_1")), LAMBDA h2 :
    Bind(CrossEntropy(MatMul(h2, Transposed(Arg(in, "emb_table"))), ids), LAMBDA loss :
        Graph(Weights01, {}, LmBlobs, [metrics |-> Unsqueeze(loss, 0)])))))
\* K_INNER steps of SGD over every (batch, position).
LmSgd(x, target, w) ==
    Unroll(LAMBDA v, k : Sub(v, Mul(Scalar, EinsumRows(x, Sub(MatMul(x, v), target)))),
             w, [k \in 1..K_INNER |-> k])
\* w @ (U U^T): every row moves into the span of U.
Project(w, u) == MatMul(w, MatMul(u, Transposed(u)))
\* The unconstrained inner step, shared by every UB-0.
LmInner(in) ==
    LET pack == Arg(in, "target")
        w == Arg(in, "weights")
    IN  Graph([weights |-> W, target |-> LmPack], {}, NoBlobs,
              [delta |-> Sub(LmSgd(Pick(pack, 0), Pick(pack, 1), w), w)])
\* UB-1's inner step from (x, target) rebuilt out of S: SGD, then project.
ProjectedDelta(x, target, w, u) == Sub(Project(LmSgd(x, target, w), u), w)
\* UB-1's inner step from a pack of coordinates.
UnprojectedDelta(coords, w, u) ==
    Bind(MatMul(coords, Transposed(u)), LAMBDA pack : ProjectedDelta(Pick(pack, 0), Pick(pack, 1), w, u))

-----------------------------------------------------------------------------
(* tiny_gpt                                                                *)

GptForward(in) ==
    Bind(LmChain(in), LAMBDA c :
        Graph(Weights01, RoundId, LmBlobs, [target_0 |-> Stack(<<c.h0, c.target_0>>, 0),
                                            target_1 |-> Stack(<<c.h1, c.target_1>>, 0)]))
GptInner(in) == LmInner(in)
GptOuter(in) == AddDelta(W, in)
GptEval(in) == LmEval(in)
GptReduce(ds) == MeanDelta(W, ds)

-----------------------------------------------------------------------------
(* pluralis_subspace: one inner graph, the projection blended in by ub.    *)

SubspaceForward(in) == GptForward(in)
SubspaceInner(in, ub) ==
    LET pack == Arg(in, "target")
        w == Arg(in, "weights")
    IN  Bind(LmSgd(Pick(pack, 0), Pick(pack, 1), w), LAMBDA w_curr :
            Graph([weights |-> W, target |-> LmPack], {"ub"}, UkBlob,
                  [delta |-> Sub(IF ub = 1 THEN Project(w_curr, Arg(in, "U_k")) ELSE w_curr, w)]))
SubspaceOuter(in) == AddDelta(W, in)
SubspaceEval(in) == LmEval(in)
SubspaceReduce(ds) == MeanDelta(W, ds)

-----------------------------------------------------------------------------
(* pluralis_lossless_wire: UB-1's pack crosses the wire as coordinates.    *)

WireForward(in) ==
    Bind(LmChain(in), LAMBDA c :
    Bind(Arg(in, "U_k"), LAMBDA u :
        Graph(Weights01, RoundId, LmBlobs @@ UkBlob,
              [target_0 |-> Stack(<<c.h0, c.target_0>>, 0),
               target_1 |-> Stack(<<MatMul(c.h1, u), MatMul(c.target_1, u)>>, 0)])))
WireInner0(in) == LmInner(in)
WireInner1(in) ==
    Graph([weights |-> W, target |-> F32(<<2, B_LM, T, SUBSPACE_K>>)], {}, UkBlob,
          [delta |-> UnprojectedDelta(Arg(in, "target"), Arg(in, "weights"), Arg(in, "U_k"))])
WireOuter(in) == AddDelta(W, in)
WireEval(in) == LmEval(in)
WireReduce(ds) == MeanDelta(W, ds)

-----------------------------------------------------------------------------
(* pluralis_full (and pluralis_grassmann, which delegates to it): the      *)
(* lossless wire with an AdamW outer step that projects UB-1.              *)

FullForward(in) == WireForward(in)
FullInner0(in) == LmInner(in)
FullInner1(in) == WireInner1(in)
\* Mutant: Adam's step is not projected back.
FullOuterUnprojected(in, project) ==
    Bind(Adam(in, Neg(Arg(in, "reduced_delta"))), LAMBDA a :
        Graph(AdamSpecs(W), RoundId, IF project THEN UkBlob ELSE NoBlobs,
              [new_weights |-> Sub(Arg(in, "weights"), Mul(Scalar, a.update)),
               new_m |-> a.m, new_v |-> a.v]))

FullOuter(in, project) ==
    Bind(Adam(in, Neg(Arg(in, "reduced_delta"))), LAMBDA a :
    Bind(Sub(Arg(in, "weights"), Mul(Scalar, a.update)), LAMBDA raw :
        Graph(AdamSpecs(W), RoundId, IF project THEN UkBlob ELSE NoBlobs,
              [new_weights |-> IF project THEN Project(raw, Arg(in, "U_k")) ELSE raw,
               new_m |-> a.m, new_v |-> a.v])))
FullEval(in) == LmEval(in)
FullReduce(ds) == MeanDelta(W, ds)

-----------------------------------------------------------------------------
(* pluralis_asymmetric: x and target cross with different ranks, on one    *)
(* concatenated axis.                                                      *)

AsymForward(in) ==
    Bind(LmChain(in), LAMBDA c :
        Graph(Weights01, RoundId, LmBlobs @@ AsymBlobs,
              [target_0 |-> Stack(<<c.h0, c.target_0>>, 0),
               target_1 |-> Concat(<<MatMul(c.h1, Arg(in, "U_k_x")),
                                     MatMul(c.target_1, Arg(in, "U_k_dy"))>>, -1)]))
AsymInner0(in) == LmInner(in)
AsymInner1(in) ==
    LET pack == Arg(in, "target")
        x == MatMul(Slice(pack, -1, 0, K_X), Transposed(Arg(in, "U_k_x")))
        target == MatMul(Slice(pack, -1, K_X, K_X + K_DY), Transposed(Arg(in, "U_k_dy")))
    IN  Graph([weights |-> W, target |-> F32(<<B_LM, T, K_X + K_DY>>)], {}, AsymBlobs,
              [delta |-> ProjectedDelta(x, target, Arg(in, "weights"), Arg(in, "U_k_x"))])
AsymOuter(in) == AddDelta(W, in)
AsymEval(in) == LmEval(in)
AsymReduce(ds) == MeanDelta(W, ds)

-----------------------------------------------------------------------------
(* pluralis_int8: the coordinates are quantized per channel; the scale is  *)
(* an extra output of the forward pass, with a dummy for UB-0.             *)

Int8Forward(in) ==
    Bind(WireForward(in), LAMBDA g :
    Bind(Quantize(g.out.target_1, -1), LAMBDA q :
        [g EXCEPT !.out = [target_0 |-> @.target_0, target_1 |-> q[1],
                           scale_0 |-> Unsqueeze(Scalar, 0), scale_1 |-> q[2]]]))
Int8Inner0(in) == LmInner(in)
\* Mutant: the scale is declared per position, as a comment in the task has it.
Int8Inner1PerPosition(in) ==
    Graph([weights |-> W, target |-> Tensor("int8", <<2, B_LM, T, SUBSPACE_K>>),
           scale |-> F32(<<2, B_LM, T, 1>>)], {}, UkBlob,
          [delta |-> UnprojectedDelta(Dequantize(Arg(in, "target"), Arg(in, "scale")),
                                      Arg(in, "weights"), Arg(in, "U_k"))])

Int8Inner1(in) ==
    Graph([weights |-> W, target |-> Tensor("int8", <<2, B_LM, T, SUBSPACE_K>>),
           scale |-> F32(<<1, 1, 1, SUBSPACE_K>>)], {}, UkBlob,
          [delta |-> UnprojectedDelta(Dequantize(Arg(in, "target"), Arg(in, "scale")),
                                      Arg(in, "weights"), Arg(in, "U_k"))])
Int8Outer(in) == AddDelta(W, in)
Int8Eval(in) == LmEval(in)
Int8Reduce(ds) == MeanDelta(W, ds)
=============================================================================

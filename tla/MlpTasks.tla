------------------------------ MODULE MlpTasks ------------------------------
(***************************************************************************)
(* The graphs of the v2 MLP round tasks (teuton_legacy_v2/tasks/*_mlp.py,  *)
(* pluralis_demo.py, pluralis_grouped.py, pluralis_tied.py) and of the v3  *)
(* mlp task: a student x @ W0 @ W1 against a teacher, one definition per   *)
(* graph builder, over the tensors "in" bound to it.                       *)
(***************************************************************************)
EXTENDS TensorIR, TLC

D == 16
K_INNER == 4
B_EVAL == 256
W == F32(<<D, D>>)
Weights01 == [weights_0 |-> W, weights_1 |-> W]
RoundId == {"round_id"}

-----------------------------------------------------------------------------
(* Pieces the builders share.                                              *)

Teacher(x) == MatMul(MatMul(x, W), W)
\* The student's forward pass and the gradients at h and y.
Chain(in, x) ==
    Bind(MatMul(x, Arg(in, "weights_0")), LAMBDA h :
    Bind(MatMul(h, Arg(in, "weights_1")), LAMBDA y :
    Bind(Mul(Sub(y, Teacher(x)), Scalar), LAMBDA dy :
        [x |-> x, h |-> h, y |-> y, dy |-> dy, dh |-> MatMul(dy, Transposed(Arg(in, "weights_1")))])))
Gradients(c) == <<MatMul(Transposed(c.x), c.dh), MatMul(Transposed(c.h), c.dy)>>
\* concat of two unsqueezed tensors: a UB's input and its local target.
Packed(x, target) == Concat(<<Unsqueeze(x, 0), Unsqueeze(target, 0)>>, 0)
LocalTargets(c) == <<Packed(c.x, Sub(c.h, c.dh)), Packed(c.h, Sub(c.y, c.dy))>>
\* K_INNER steps of SGD on the local quadratic.
LocalSgd(x, target, w) ==
    Unroll(LAMBDA v, k : Sub(v, Mul(Scalar, MatMul(Transposed(x), Sub(MatMul(x, v), target)))),
             w, [k \in 1..K_INNER |-> k])
MseLoss(y, truth) == Unsqueeze(MeanAll(Bind(Sub(y, truth), LAMBDA diff : Mul(diff, diff))), 0)
AddDelta(spec, in) ==
    Graph([weights |-> spec, reduced_delta |-> spec], {}, NoBlobs,
          [new_weights |-> Add(Arg(in, "weights"), Mul(Arg(in, "reduced_delta"), Scalar))])
\* AdamW: the new moments and the update they give.
Adam(in, d) ==
    Bind(Add(Mul(Scalar, Arg(in, "m")), Mul(Scalar, d)), LAMBDA m :
    Bind(Add(Mul(Scalar, Arg(in, "v")), Mul(Scalar, Mul(d, d))), LAMBDA v :
        [m |-> m, v |-> v, update |-> Mul(m, Add(Unary(v), Scalar))]))
AdamSpecs(spec) == [weights |-> spec, reduced_delta |-> spec, m |-> spec, v |-> spec]
\* reduce_for_n: the mean of the deltas d_0 .. d_{n-1} (ds, in order).
MeanDelta(spec, ds) ==
    Graph([i \in DOMAIN ds |-> spec], {}, NoBlobs,
          [reduced |-> Mean(IF Len(ds) = 1 THEN Unsqueeze(ds[1], 0)
                            ELSE Concat([i \in DOMAIN ds |-> Unsqueeze(ds[i], 0)], 0), 0)])

-----------------------------------------------------------------------------
(* mlp (v2 and v3): the targets are the negated gradients.                 *)

MlpForward(in) ==
    Bind(Gradients(Chain(in, F32(<<64, D>>))), LAMBDA g :
        Graph(Weights01, RoundId, NoBlobs, [target_0 |-> Neg(g[1]), target_1 |-> Neg(g[2])]))
MlpInner(in) ==
    Graph([weights |-> W, target |-> W], {}, NoBlobs, [delta |-> Mul(Arg(in, "target"), Scalar)])
MlpOuter(in) == AddDelta(W, in)
MlpEval(in) ==
    LET x == F32(<<B_EVAL, D>>)
    IN  Graph(Weights01, {}, NoBlobs, [metrics |-> MseLoss(Chain(in, x).y, Teacher(x))])
MlpReduce(ds) == MeanDelta(W, ds)

MlpV3Forward(in) == MlpForward(in)
MlpV3Inner(in) == MlpInner(in)
MlpV3Outer(in) == AddDelta(W, in)
MlpV3Eval(in) == MlpEval(in)
MlpV3Reduce(ds) == MeanDelta(W, ds)

-----------------------------------------------------------------------------
(* relu_mlp: a hidden ReLU, whose mask gates the gradient.                 *)

ReluTeacher(x) == MatMul(Unary(MatMul(x, W)), W)
ReluForward(in) ==
    Bind(F32(<<64, D>>), LAMBDA x :
    Bind(MatMul(x, Arg(in, "weights_0")), LAMBDA pre :
    Bind(Mul(Sub(MatMul(Unary(pre), Arg(in, "weights_1")), ReluTeacher(x)), Scalar), LAMBDA dy :
    Bind(Mul(MatMul(dy, Transposed(Arg(in, "weights_1"))), Cast(Compare(pre, Scalar), "float32")), LAMBDA dpre :
        Graph(Weights01, RoundId, NoBlobs,
              [target_0 |-> Neg(MatMul(Transposed(x), dpre)),
               target_1 |-> Neg(MatMul(Transposed(Unary(pre)), dy))])))))
ReluInner(in) ==
    Graph([weights |-> W, target |-> W], {}, NoBlobs, [delta |-> Mul(Arg(in, "target"), Scalar)])
ReluOuter(in) == AddDelta(W, in)
ReluEval(in) ==
    LET x == F32(<<B_EVAL, D>>)
        y == MatMul(Unary(MatMul(x, Arg(in, "weights_0"))), Arg(in, "weights_1"))
    IN  Graph(Weights01, {}, NoBlobs, [metrics |-> MseLoss(y, ReluTeacher(x))])
ReluReduce(ds) == MeanDelta(W, ds)

-----------------------------------------------------------------------------
(* locoprop_mlp: each UB gets its input and a local target, (2, B, D).     *)

PackSpec == F32(<<2, 64, D>>)
LocopropForward(in) ==
    Bind(LocalTargets(Chain(in, F32(<<64, D>>))), LAMBDA t :
        Graph(Weights01, RoundId, NoBlobs, [target_0 |-> t[1], target_1 |-> t[2]]))
LocopropInner(in) ==
    LET pack == Arg(in, "target")
        w == Arg(in, "weights")
    IN  Graph([weights |-> W, target |-> PackSpec], {}, NoBlobs,
              [delta |-> Sub(LocalSgd(Pick(pack, 0), Pick(pack, 1), w), w)])
LocopropOuter(in) == AddDelta(W, in)
LocopropEval(in) ==
    LET x == F32(<<B_EVAL, D>>)
    IN  Graph(Weights01, {}, NoBlobs, [metrics |-> MseLoss(Chain(in, x).y, Teacher(x))])
LocopropReduce(ds) == MeanDelta(W, ds)

-----------------------------------------------------------------------------
(* adam_mlp: locoprop with an AdamW outer step and its moments.            *)

AdamForward(in) ==
    Bind(LocalTargets(Chain(in, F32(<<64, D>>))), LAMBDA t :
        Graph(Weights01, RoundId, NoBlobs, [target_0 |-> t[1], target_1 |-> t[2]]))
AdamInner(in) ==
    LET pack == Arg(in, "target")
        w == Arg(in, "weights")
    IN  Graph([weights |-> W, target |-> PackSpec], {}, NoBlobs,
              [delta |-> Sub(LocalSgd(Pick(pack, 0), Pick(pack, 1), w), w)])
AdamOuter(in) ==
    Bind(Adam(in, Neg(Arg(in, "reduced_delta"))), LAMBDA a :
    Bind(Add(a.update, Mul(Scalar, Arg(in, "weights"))), LAMBDA step :
        Graph(AdamSpecs(W), RoundId, NoBlobs,
              [new_weights |-> Sub(Arg(in, "weights"), Mul(Scalar, step)), new_m |-> a.m, new_v |-> a.v])))
AdamEval(in) ==
    LET x == F32(<<B_EVAL, D>>)
    IN  Graph(Weights01, {}, NoBlobs, [metrics |-> MseLoss(Chain(in, x).y, Teacher(x))])
AdamReduce(ds) == MeanDelta(W, ds)

-----------------------------------------------------------------------------
(* sign_loco_mlp: the forward job also ships the true gradients bp_grad,   *)
(* which the outer step's moments follow; its sign comes from the delta.   *)

SignLocoForward(in) ==
    Bind(Chain(in, F32(<<64, D>>)), LAMBDA c :
    Bind(LocalTargets(c), LAMBDA t :
    Bind(Gradients(c), LAMBDA g :
        Graph(Weights01, RoundId, NoBlobs,
              [target_0 |-> t[1], target_1 |-> t[2], bp_grad_0 |-> g[1], bp_grad_1 |-> g[2]]))))
SignLocoInner(in) ==
    LET pack == Arg(in, "target")
        w == Arg(in, "weights")
    IN  Graph([weights |-> W, target |-> PackSpec, bp_grad |-> W], {}, NoBlobs,
              [delta |-> Sub(LocalSgd(Pick(pack, 0), Pick(pack, 1), w), w)])
SignLocoOuter(in) ==
    Bind(Adam(in, Arg(in, "bp_grad")), LAMBDA a :
    Bind(Mul(Unary(a.update), Neg(Unary(Arg(in, "reduced_delta")))), LAMBDA step :
        Graph(AdamSpecs(W) @@ [bp_grad |-> W], RoundId, NoBlobs,
              [new_weights |-> Sub(Arg(in, "weights"), Mul(Scalar, step)),
               new_m |-> a.m, new_v |-> a.v])))
SignLocoEval(in) ==
    LET x == F32(<<B_EVAL, D>>)
    IN  Graph(Weights01, {}, NoBlobs, [metrics |-> MseLoss(Chain(in, x).y, Teacher(x))])
SignLocoReduce(ds) == MeanDelta(W, ds)

-----------------------------------------------------------------------------
(* data_parallel_mlp: one batch per replica, (N, 2, B, D), and an inner    *)
(* job slices its own by the params replica and replica_end_excl.          *)

N_REPLICAS == 4
SeedParams == {"seed_r0", "seed_r1", "seed_r2", "seed_r3"}
DataParallelForward(in) ==
    Bind(Chain(in, Stack([r \in 1..N_REPLICAS |-> F32(<<32, D>>)], 0)), LAMBDA c :
        Graph(Weights01, RoundId \cup SeedParams, NoBlobs,
              [target_0 |-> Stack(<<c.x, Sub(c.h, c.dh)>>, 1), target_1 |-> Stack(<<c.h, Sub(c.y, c.dy)>>, 1)]))
DataParallelInner(in, replica, replicaEndExcl) ==
    LET one == Squeeze(Slice(Arg(in, "target"), 0, replica, replicaEndExcl), 0)
        w == Arg(in, "weights")
    IN  Graph([weights |-> W, target |-> F32(<<N_REPLICAS, 2, 32, D>>)],
              {"replica", "replica_end_excl"}, NoBlobs,
              [delta |-> Sub(LocalSgd(Pick(one, 0), Pick(one, 1), w), w)])
DataParallelOuter(in) == AddDelta(W, in)
DataParallelEval(in) ==
    LET x == F32(<<B_EVAL, D>>)
    IN  Graph(Weights01, {}, NoBlobs, [metrics |-> MseLoss(Chain(in, x).y, Teacher(x))])
DataParallelReduce(ds) == MeanDelta(W, ds)

-----------------------------------------------------------------------------
(* pluralis_demo: the delta keeps its K_DEMO largest DCT coefficients.     *)

K_DEMO == 16
DctBlob == [dct_basis |-> W]
DemoForward(in) ==
    Bind(LocalTargets(Chain(in, F32(<<64, D>>))), LAMBDA t :
        Graph(Weights01, RoundId, NoBlobs, [target_0 |-> t[1], target_1 |-> t[2]]))
\* DCT, threshold at the K_DEMO-th largest magnitude, inverse DCT.
DemoCompressed(delta, dct) ==
    Bind(Reshape(MatMul(MatMul(dct, delta), Transposed(dct)), <<D * D>>), LAMBDA flat :
    Bind(Squeeze(Slice(Unary(flat), -1, K_DEMO - 1, K_DEMO), 0), LAMBDA threshold :
    Bind(Mul(flat, Cast(Compare(Unary(flat), threshold), "float32")), LAMBDA kept :
        MatMul(MatMul(Transposed(dct), Reshape(kept, <<D, D>>)), dct))))
DemoInner(in) ==
    LET pack == Arg(in, "target")
        w == Arg(in, "weights")
        delta == Sub(LocalSgd(Pick(pack, 0), Pick(pack, 1), w), w)
    IN  Graph([weights |-> W, target |-> PackSpec], {}, DctBlob,
              [delta |-> DemoCompressed(delta, Arg(in, "dct_basis"))])
DemoOuter(in) == AddDelta(W, in)
DemoEval(in) ==
    LET x == F32(<<B_EVAL, D>>)
    IN  Graph(Weights01, {}, NoBlobs, [metrics |-> MseLoss(Chain(in, x).y, Teacher(x))])
DemoReduce(ds) == MeanDelta(W, ds)

-----------------------------------------------------------------------------
(* pluralis_grouped: one UB holds both layers, weights (2, D, D).          *)

Group == F32(<<2, D, D>>)
GroupedForward(in) ==
    Bind(Arg(in, "weights_0"), LAMBDA w :
    Bind(Chain([weights_0 |-> Pick(w, 0), weights_1 |-> Pick(w, 1)], F32(<<64, D>>)), LAMBDA c :
        Graph([weights_0 |-> Group], RoundId, NoBlobs, [target_0 |-> Stack(<<c.x, Sub(c.y, c.dy)>>, 0)])))
\* One joint SGD step over both layers.
GroupedStep(x, target, w) ==
    Bind(MatMul(x, w[1]), LAMBDA h :
    Bind(Mul(Sub(MatMul(h, w[2]), target), Scalar), LAMBDA dh2 :
    Bind(MatMul(dh2, Transposed(w[2])), LAMBDA dh1 :
        <<Sub(w[1], Mul(Scalar, MatMul(Transposed(x), dh1))),
          Sub(w[2], Mul(Scalar, MatMul(Transposed(h), dh2)))>>)))
GroupedInner(in) ==
    LET w == Arg(in, "weights")
        pack == Arg(in, "target")
        new == Unroll(LAMBDA v, k : GroupedStep(Pick(pack, 0), Pick(pack, 1), v),
                        <<Pick(w, 0), Pick(w, 1)>>, [k \in 1..K_INNER |-> k])
    IN  Graph([weights |-> Group, target |-> PackSpec], {}, NoBlobs,
              [delta |-> Sub(Stack(new, 0), w)])
GroupedOuter(in) == AddDelta(Group, in)
GroupedEval(in) ==
    LET w == Arg(in, "weights_0")
        x == F32(<<B_EVAL, D>>)
        y == MatMul(MatMul(x, Pick(w, 0)), Pick(w, 1))
    IN  Graph([weights_0 |-> Group], {}, NoBlobs, [metrics |-> MseLoss(y, Teacher(x))])
GroupedReduce(ds) == MeanDelta(Group, ds)

-----------------------------------------------------------------------------
(* pluralis_tied: four layers, each UB's matrix applied twice in a row.    *)

M_PER_UB == 2
TiedForward(in) ==
    LET w0 == Arg(in, "weights_0")
        w1 == Arg(in, "weights_1")
    IN  Bind(Unroll(LAMBDA hs, w : Append(hs, MatMul(Last(hs), w)), <<F32(<<64, D>>)>>, <<w0, w0, w1, w1>>), LAMBDA h :
        Bind(Unroll(LAMBDA ds, w : <<MatMul(Head(ds), Transposed(w))>> \o ds,
                    <<Mul(Sub(h[5], Teacher(h[1])), Scalar)>>, <<w1, w1, w0, w0>>), LAMBDA dh :
        Bind([l \in 1..4 |-> Stack(<<h[l], Sub(h[l + 1], dh[l + 1])>>, 0)], LAMBDA layer :
            Graph(Weights01, RoundId, NoBlobs,
                  [target_0 |-> Stack(<<layer[1], layer[2]>>, 0), target_1 |-> Stack(<<layer[3], layer[4]>>, 0)]))))
TiedInner(in) ==
    LET pack == [m \in 1..M_PER_UB |-> Pick(Arg(in, "target"), m - 1)]
        grad(m, w) == MatMul(Transposed(Pick(pack[m], 0)), Sub(MatMul(Pick(pack[m], 0), w), Pick(pack[m], 1)))
        w == Arg(in, "weights")
        new == Unroll(LAMBDA v, k : Sub(v, Mul(Scalar, Mul(Add(grad(1, v), grad(2, v)), Scalar))),
                        w, [k \in 1..K_INNER |-> k])
    IN  Graph([weights |-> W, target |-> F32(<<M_PER_UB, 2, 64, D>>)], {}, NoBlobs, [delta |-> Sub(new, w)])
TiedOuter(in) == AddDelta(W, in)
TiedEval(in) ==
    LET x == F32(<<B_EVAL, D>>)
        w0 == Arg(in, "weights_0")
        w1 == Arg(in, "weights_1")
        y == MatMul(MatMul(MatMul(MatMul(x, w0), w0), w1), w1)
    IN  Graph(Weights01, {}, NoBlobs, [metrics |-> MseLoss(y, Teacher(x))])
TiedReduce(ds) == MeanDelta(W, ds)
=============================================================================

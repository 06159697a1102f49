----------------------------- MODULE ScaleTasks -----------------------------
(***************************************************************************)
(* The graphs of the v2 mini-GPT round tasks: pluralis_gpt_10M.py, four    *)
(* residual MLP blocks, one per UB, and pluralis_gpt_10M_v3.py, the same   *)
(* model with the activations projected to K_X / K_DY columns on the wire. *)
(***************************************************************************)
EXTENDS SubspaceTasks

V_10M == 2048
D_10M == 256
T_10M == 64
B_10M == 16
B_10M_EVAL == 64
N_BLOCKS == 4
K_10M == 8
V3_K_X == 40
V3_K_DY == 10

Block == F32(<<2, D_10M, D_10M>>)
BlockWeights == [weights_0 |-> Block, weights_1 |-> Block, weights_2 |-> Block, weights_3 |-> Block]
BlockBlobs == [emb_table |-> F32(<<V_10M, D_10M>>), pe |-> F32(<<T_10M, D_10M>>)]
UBasisBlob == [U_basis |-> F32(<<D_10M, D_10M>>)]
BlockArgs(in) == <<Arg(in, "weights_0"), Arg(in, "weights_1"), Arg(in, "weights_2"), Arg(in, "weights_3")>>

-----------------------------------------------------------------------------
(* The residual block out = x + silu(x @ W_a) @ W_b.                       *)

UnpackBlock(w) == <<Pick(w, 0), Pick(w, 1)>>
BlockForward(x, w) ==
    Bind(MatMul(x, w[1]), LAMBDA pre :
        [out |-> Add(x, MatMul(Unary(pre), w[2])), pre |-> pre, post |-> Unary(pre)])
SiluGrad(pre) == Mul(Unary(pre), Add(Scalar, Mul(pre, Sub(Scalar, Unary(pre)))))
BlockBackward(dout, f, w) ==
    Add(MatMul(Mul(MatMul(dout, Transposed(w[2])), SiluGrad(f.pre)), Transposed(w[1])), dout)
\* One SGD step of both matrices on the block's local quadratic.
BlockStep(x, target, w) ==
    Bind(BlockForward(x, w), LAMBDA f :
    Bind(Mul(Sub(f.out, target), Scalar), LAMBDA dout :
    Bind(Mul(MatMul(dout, Transposed(w[2])), SiluGrad(f.pre)), LAMBDA dpre :
        <<Sub(w[1], Mul(Scalar, EinsumRows(x, dpre))), Sub(w[2], Mul(Scalar, EinsumRows(f.post, dout)))>>)))
BlockDelta(x, target, w) ==
    Sub(Stack(Unroll(LAMBDA v, pair : BlockStep(pair[1], pair[2], v), UnpackBlock(w),
                     [k \in 1..K_10M |-> <<x, target>>]), 0), w)
\* Forward through the blocks, back from the tied head: for every cut, the
\* block's input and its local target.
BlockInputs(in, ids, ws) ==
    Unroll(LAMBDA hs, w : Append(hs, BlockForward(Last(hs), w).out),
           <<Add(Embedding(Arg(in, "emb_table"), ids), Arg(in, "pe"))>>, ws)
BlockGrads(dh_last, h, ws) ==
    Unroll(LAMBDA ds, hw : <<BlockBackward(Head(ds), BlockForward(hw[1], hw[2]), hw[2])>> \o ds,
           <<dh_last>>, Reverse([i \in 1..N_BLOCKS |-> <<h[i], ws[i]>>]))
BlockCuts(in) ==
    Bind([i \in 1..N_BLOCKS |-> UnpackBlock(BlockArgs(in)[i])], LAMBDA ws :
    Bind(TokenIds(B_10M, T_10M), LAMBDA ids :
    Bind(BlockInputs(in, ids, ws), LAMBDA h :
    Bind(BlockGrads(LmGrad(Last(h), ids, Arg(in, "emb_table")), h, ws), LAMBDA dh :
        [i \in 1..N_BLOCKS |-> <<h[i], Sub(h[i + 1], dh[i + 1])>>]))))
Cuts(targets) ==
    Bind(targets, LAMBDA t : [target_0 |-> t[1], target_1 |-> t[2], target_2 |-> t[3], target_3 |-> t[4]])

-----------------------------------------------------------------------------
(* pluralis_gpt_10M                                                        *)

BlocksForward(in) ==
    LET packs(cut) == [i \in 1..N_BLOCKS |-> Stack(cut[i], 0)]
    IN  Graph(BlockWeights, RoundId, BlockBlobs, Cuts(Bind(BlockCuts(in), packs)))
BlocksInner(in) ==
    LET pack == Arg(in, "target")
    IN  Graph([weights |-> Block, target |-> F32(<<2, B_10M, T_10M, D_10M>>)], {}, NoBlobs,
              [delta |-> BlockDelta(Pick(pack, 0), Pick(pack, 1), Arg(in, "weights"))])
BlocksOuter(in) ==
    Bind(Adam(in, Neg(Arg(in, "reduced_delta"))), LAMBDA a :
        Graph(AdamSpecs(Block), RoundId, NoBlobs,
              [new_weights |-> Sub(Arg(in, "weights"), Mul(Scalar, a.update)), new_m |-> a.m, new_v |-> a.v]))
BlocksEval(in) ==
    Bind(TokenIds(B_10M_EVAL, T_10M), LAMBDA ids :
    Bind(Unroll(LAMBDA x, w : BlockForward(x, UnpackBlock(w)).out,
                Add(Embedding(Arg(in, "emb_table"), ids), Arg(in, "pe")), BlockArgs(in)), LAMBDA h :
    Bind(CrossEntropy(MatMul(h, Transposed(Arg(in, "emb_table"))), ids), LAMBDA loss :
        Graph(BlockWeights, {}, BlockBlobs, [metrics |-> Unsqueeze(loss, 0)]))))
BlocksReduce(ds) == MeanDelta(Block, ds)

-----------------------------------------------------------------------------
(* pluralis_gpt_10M_v3: the target's K_DY coordinates are zero-padded to   *)
(* K_X so that the pack can be stacked.                                    *)

V3Columns(in, k) == Slice(Arg(in, "U_basis"), 1, 0, k)
V3Forward(in) ==
    LET pad == F32(<<B_10M, T_10M, V3_K_X - V3_K_DY>>)
        packs(cut) == [i \in 1..N_BLOCKS |->
                          Stack(<<MatMul(cut[i][1], V3Columns(in, V3_K_X)),
                                  Concat(<<MatMul(cut[i][2], V3Columns(in, V3_K_DY)), pad>>, -1)>>, 0)]
    IN  Graph(BlockWeights, RoundId, BlockBlobs @@ UBasisBlob, Cuts(Bind(BlockCuts(in), packs)))
V3Inner(in) ==
    LET pack == Arg(in, "target")
        x == MatMul(Pick(pack, 0), Transposed(V3Columns(in, V3_K_X)))
        target == MatMul(Slice(Pick(pack, 1), -1, 0, V3_K_DY), Transposed(V3Columns(in, V3_K_DY)))
    IN  Graph([weights |-> Block, target |-> F32(<<2, B_10M, T_10M, V3_K_X>>)], {}, UBasisBlob,
              [delta |-> BlockDelta(x, target, Arg(in, "weights"))])
V3Outer(in) == BlocksOuter(in)
V3Eval(in) == BlocksEval(in)
V3Reduce(ds) == BlocksReduce(ds)

=============================================================================

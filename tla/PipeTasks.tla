----------------------------- MODULE PipeTasks ------------------------------
(***************************************************************************)
(* The graphs of gpt_pipe (teuton_tasks/gpt_pipe.py and its v2 copy): a    *)
(* GPT cut into pipeline stages whose parameters travel as one 1-D blob.   *)
(* The module's globals, which the builders read, are the record g:        *)
(* dimensions, subspace ranks (0 is None), wire_int8, tied_embed, k_inner. *)
(***************************************************************************)
EXTENDS TensorIR, TLC

Defaults ==
    [VOCAB |-> 50304, D |-> 384, N_HEAD |-> 6, D_FF |-> 1024, T |-> 128, B |-> 4, N_STAGES |-> 4,
     N_BLOCKS |-> 1, N_MB |-> 16, K |-> 0, K_DY |-> 0, INT8 |-> FALSE, TIED |-> FALSE, K_INNER |-> 1]
IsHead(s) == s = 0
IsTail(g, s) == s = g.N_STAGES - 1
KDy(g) == IF g.K_DY # 0 THEN g.K_DY ELSE g.K

-----------------------------------------------------------------------------
(* The layout of a stage's blob: <<name, block>> and shape, in order.      *)

Size(name, b, sh) == [name |-> <<name, b>>, sh |-> sh]
SingleBlockSizes(g, b) ==
    <<Size("g_norm1", b, <<g.D>>), Size("W_qkv", b, <<g.D, 3 * g.D>>), Size("W_o", b, <<g.D, g.D>>),
      Size("g_norm2", b, <<g.D>>), Size("W_ffn1", b, <<g.D, g.D_FF>>), Size("W_ffn2", b, <<g.D, g.D_FF>>),
      Size("W_ffn3", b, <<g.D_FF, g.D>>)>>
BlockSizes(g) == FlattenSeq([b \in 1..g.N_BLOCKS |-> SingleBlockSizes(g, b - 1)])
HeadSizes(g) ==
    (IF g.TIED THEN << >> ELSE <<Size("tok_emb", 0, <<g.VOCAB, g.D>>)>>) \o <<Size("pos_emb", 0, <<g.T, g.D>>)>>
TailSizes(g) ==
    <<Size("g_norm_f", 0, <<g.D>>)>> \o (IF g.TIED THEN << >> ELSE <<Size("W_lm", 0, <<g.D, g.VOCAB>>)>>)
StageSizes(g, s) ==
    (IF IsHead(s) THEN HeadSizes(g) ELSE << >>) \o BlockSizes(g) \o (IF IsTail(g, s) THEN TailSizes(g) ELSE << >>)
StageNumel(g, s) == FoldLeft(LAMBDA n, z : n + Numel(z.sh), 0, StageSizes(g, s))
BlobSpec(g, s) == F32(<<StageNumel(g, s)>>)
\* The named views of a blob.
SplitBlob(g, s, blob) ==
    Unroll(LAMBDA acc, z : [off |-> acc.off + Numel(z.sh),
                            P |-> acc.P @@ (z.name :> Reshape(Slice(blob, 0, acc.off, acc.off + Numel(z.sh)), z.sh))],
           [off |-> 0, P |-> << >>], StageSizes(g, s)).P
\* The gradients packed in the layout's order, zeros where there is none.
PackGrads(g, s, grads) ==
    LET sizes == StageSizes(g, s)
        piece(z) == IF z.name \in DOMAIN grads THEN Reshape(grads[z.name], <<Numel(z.sh)>>) ELSE F32(<<Numel(z.sh)>>)
    IN  Concat([i \in DOMAIN sizes |-> piece(sizes[i])], 0)

-----------------------------------------------------------------------------
(* Transformer fragments, forward and backward.                            *)

Gain(g, gain) == BroadcastTo(Reshape(gain, <<1, 1, g.D>>), <<g.B, g.T, g.D>>)
RmsNorm(g, x, gain) ==
    Bind(Unary(Add(Kept(Mul(x, x), -1), Scalar)), LAMBDA rstd :
    Bind(Mul(x, rstd), LAMBDA xhat :
        [y |-> Mul(xhat, Gain(g, gain)), rstd |-> rstd, xhat |-> xhat]))
RmsNormBack(g, dy, gain, n) ==
    Bind(Mul(dy, Gain(g, gain)), LAMBDA dxh :
        [dx |-> Mul(n.rstd, Sub(dxh, Mul(n.xhat, Kept(Mul(dxh, n.xhat), -1)))),
         dg |-> Sum(Sum(Mul(dy, n.xhat), 0), 0)])

Swapped(a) == Permute(a, <<0, 1, 3, 2>>)
Attn(g, x, W_qkv, W_o) ==
    LET dh == g.D \div g.N_HEAD
        mask == BroadcastTo(Reshape(F32(<<g.T, g.T>>), <<1, 1, g.T, g.T>>), <<g.B, g.N_HEAD, g.T, g.T>>)
    IN  Bind(Permute(Reshape(MatMul(x, W_qkv), <<g.B, g.T, 3, g.N_HEAD, dh>>), <<2, 0, 3, 1, 4>>), LAMBDA qkv :
        Bind([i \in 0..2 |-> Reshape(Slice(qkv, 0, i, i + 1), <<g.B, g.N_HEAD, g.T, dh>>)], LAMBDA part :
        Bind(Unary(Add(Mul(MatMul(part[0], Swapped(part[1])), Scalar), mask)), LAMBDA attn :
        Bind(Reshape(Permute(MatMul(attn, part[2]), <<0, 2, 1, 3>>), <<g.B, g.T, g.D>>), LAMBDA h :
            [y |-> MatMul(h, W_o), q |-> part[0], k |-> part[1], v |-> part[2], attn |-> attn, h |-> h, x |-> x]))))
AttnBack(g, dy, f, W_qkv, W_o) ==
    Bind(Permute(Reshape(MatMul(dy, Transposed(W_o)), <<g.B, g.T, g.N_HEAD, g.D \div g.N_HEAD>>),
                 <<0, 2, 1, 3>>), LAMBDA dh4 :
    Bind(MatMul(dh4, Swapped(f.v)), LAMBDA dattn :
    Bind(Mul(Mul(f.attn, Sub(dattn, Kept(Mul(dattn, f.attn), -1))), Scalar), LAMBDA dscores :
    Bind(Stack(<<MatMul(dscores, f.k), MatMul(Swapped(dscores), f.q), MatMul(Swapped(f.attn), dh4)>>, 0), LAMBDA dqkv :
    Bind(Reshape(Permute(dqkv, <<1, 3, 0, 2, 4>>), <<g.B, g.T, 3 * g.D>>), LAMBDA flat :
        [dx |-> MatMul(flat, Transposed(W_qkv)), dW_qkv |-> EinsumRows(f.x, flat), dW_o |-> EinsumRows(f.h, dy)])))))

Ffn(x, W1, W2, W3) ==
    Bind(MatMul(x, W1), LAMBDA h1 :
    Bind(MatMul(x, W2), LAMBDA h2 :
        [y |-> MatMul(Mul(Unary(h1), h2), W3), x |-> x, h1 |-> h1, h2 |-> h2]))
FfnBack(g, dy, f, W1, W2, W3) ==
    Bind(BroadcastTo(Reshape(Scalar, <<1, 1, 1>>), <<g.B, g.T, g.D_FF>>), LAMBDA one :
    Bind(MatMul(dy, Transposed(W3)), LAMBDA dg :
    Bind(Mul(Unary(f.h1), Add(one, Mul(f.h1, Sub(one, Unary(f.h1))))), LAMBDA dsilu :
    Bind(Mul(Mul(dg, f.h2), dsilu), LAMBDA dh1 :
    Bind(Mul(dg, Unary(f.h1)), LAMBDA dh2 :
        [dx |-> Add(MatMul(dh1, Transposed(W1)), MatMul(dh2, Transposed(W2))),
         dW1 |-> EinsumRows(f.x, dh1), dW2 |-> EinsumRows(f.x, dh2),
         dW3 |-> EinsumRows(Mul(Unary(f.h1), f.h2), dy)])))))

-----------------------------------------------------------------------------
(* Blocks: P is the parameters of the stage.                               *)

BlockFwd(g, x, P, b) ==
    Bind(RmsNorm(g, x, P[<<"g_norm1", b>>]), LAMBDA n1 :
    Bind(Attn(g, n1.y, P[<<"W_qkv", b>>], P[<<"W_o", b>>]), LAMBDA attn :
    Bind(Add(x, attn.y), LAMBDA mid :
    Bind(RmsNorm(g, mid, P[<<"g_norm2", b>>]), LAMBDA n2 :
    Bind(Ffn(n2.y, P[<<"W_ffn1", b>>], P[<<"W_ffn2", b>>], P[<<"W_ffn3", b>>]), LAMBDA ffn :
        [out |-> Add(mid, ffn.y), n1 |-> n1, n2 |-> n2, attn |-> attn, ffn |-> ffn])))))
BlockBack(g, dy, f, P, b) ==
    Bind(FfnBack(g, dy, f.ffn, P[<<"W_ffn1", b>>], P[<<"W_ffn2", b>>], P[<<"W_ffn3", b>>]), LAMBDA ffn :
    Bind(RmsNormBack(g, ffn.dx, P[<<"g_norm2", b>>], f.n2), LAMBDA n2 :
    Bind(Add(dy, n2.dx), LAMBDA dmid :
    Bind(AttnBack(g, dmid, f.attn, P[<<"W_qkv", b>>], P[<<"W_o", b>>]), LAMBDA attn :
    Bind(RmsNormBack(g, attn.dx, P[<<"g_norm1", b>>], f.n1), LAMBDA n1 :
        [dx |-> Add(dmid, n1.dx),
         grads |-> (<<"g_norm1", b>> :> n1.dg) @@ (<<"W_qkv", b>> :> attn.dW_qkv) @@ (<<"W_o", b>> :> attn.dW_o)
                   @@ (<<"g_norm2", b>> :> n2.dg) @@ (<<"W_ffn1", b>> :> ffn.dW1) @@ (<<"W_ffn2", b>> :> ffn.dW2)
                   @@ (<<"W_ffn3", b>> :> ffn.dW3)])))))
Blocks(g) == [i \in 1..g.N_BLOCKS |-> i - 1]
BlocksFwd(g, x, P) ==
    Unroll(LAMBDA acc, b : Bind(BlockFwd(g, acc.out, P, b), LAMBDA f : [out |-> f.out, saved |-> Append(acc.saved, f)]),
           [out |-> x, saved |-> << >>], Blocks(g))
BlocksBack(g, dy, saved, P) ==
    Unroll(LAMBDA acc, b : Bind(BlockBack(g, acc.dx, saved[b + 1], P, b), LAMBDA r :
                                    [dx |-> r.dx, grads |-> r.grads @@ acc.grads]),
           [dx |-> dy, grads |-> << >>], Reverse(Blocks(g)))
LocalStep(P, grads) == [n \in DOMAIN P |-> IF n \in DOMAIN grads THEN Sub(P[n], Mul(Scalar, grads[n])) ELSE P[n]]

-----------------------------------------------------------------------------
(* The wires between stages: k coordinates of a projected activation, or   *)
(* its int8 packing, or the activation itself when there is no subspace.   *)

WireShape(g, k) == <<g.B, g.T, IF k = 0 THEN g.D ELSE k>>
\* Mutant: the scales in front of the packed bytes are forgotten.
WireSpecNoScales(g, k) ==
    IF k # 0 /\ g.INT8 THEN Tensor("uint8", <<g.B * g.T * k>>) ELSE F32(WireShape(g, k))

WireSpec(g, k) ==
    IF k # 0 /\ g.INT8 THEN Tensor("uint8", <<g.B * g.T * k + 4 * k>>) ELSE F32(WireShape(g, k))
ReadWire(g, k, t, u) ==
    IF k = 0 THEN t
    ELSE MatMul(IF g.INT8 THEN UnpackDequantize(t, WireShape(g, k)) ELSE t, Transposed(u))
WriteWire(g, k, x, u) ==
    IF k = 0 THEN x ELSE IF g.INT8 THEN QuantizePack(MatMul(x, u)) ELSE MatMul(x, u)
UkSpec(g, k) == F32(<<g.D, k>>)
\* The static blobs a stage's graphs bind.
StageBlobs(g, dy) ==
    (IF g.K # 0 THEN "u_k" :> UkSpec(g, g.K) ELSE << >>)
    @@ (IF g.K # 0 /\ dy THEN "u_k_dy" :> UkSpec(g, KDy(g)) ELSE << >>)
    @@ (IF g.TIED THEN "tok_emb" :> F32(<<g.VOCAB, g.D>>) ELSE << >>)

-----------------------------------------------------------------------------
(* The graphs of a stage.                                                  *)

\* What the stage's blocks read: embedded tokens at the head, else the wire.
Embedded(g, P, in, blobs) ==
    Add(Embedding(IF g.TIED THEN Arg(blobs, "tok_emb") ELSE P[<<"tok_emb", 0>>],
                  DataIndexer(Arg(in, "tokens"), g.B, g.T)[1]),
        BroadcastTo(Reshape(P[<<"pos_emb", 0>>], <<1, g.T, g.D>>), <<g.B, g.T, g.D>>))
LmHead(g, P, blobs) == IF g.TIED THEN Transposed(Arg(blobs, "tok_emb")) ELSE P[<<"W_lm", 0>>]
Targets(g, in) == DataIndexer(Arg(in, "tokens"), g.B, g.T)[2]
Loss(g, P, out, in, blobs) ==
    LET logits == MatMul(RmsNorm(g, out, P[<<"g_norm_f", 0>>]).y, LmHead(g, P, blobs))
    IN  Unsqueeze(CrossEntropy(Reshape(logits, <<g.B * g.T, g.VOCAB>>),
                               Reshape(Targets(g, in), <<g.B * g.T>>)), 0)

FwdGraph(g, s, in, blobs) ==
    LET x(P) == IF IsHead(s) THEN Embedded(g, P, in, blobs) ELSE ReadWire(g, g.K, Arg(in, "x"), Arg(blobs, "u_k"))
        outs(P, out) ==
            ("x" :> WriteWire(g, IF IsTail(g, s) THEN 0 ELSE g.K, out, Arg(blobs, "u_k")))
            @@ (IF IsTail(g, s) THEN "loss" :> Loss(g, P, out, in, blobs) ELSE << >>)
    IN  Graph(("W" :> BlobSpec(g, s))
                  @@ (IF IsHead(s) \/ IsTail(g, s) THEN "tokens" :> Tensor("int32", <<-1>>) ELSE << >>)
                  @@ (IF IsHead(s) THEN << >> ELSE "x" :> WireSpec(g, g.K)),
              {"mb_seed"}, StageBlobs(g, FALSE),
              Bind(SplitBlob(g, s, Arg(in, "W")), LAMBDA P : Bind(BlocksFwd(g, x(P), P), LAMBDA f : outs(P, f.out))))

\* The tail's gradient of the loss: the head's own gradients and dx_out.
LossGrads(g, P, out, in, blobs) ==
    Bind(RmsNorm(g, out, P[<<"g_norm_f", 0>>]), LAMBDA nf :
    Bind(LmHead(g, P, blobs), LAMBDA lm :
    Bind(Scatter(F32(<<g.B, g.T, g.VOCAB>>), Unsqueeze(Targets(g, in), -1), F32(<<g.B, g.T, 1>>)), LAMBDA one_hot :
    Bind(Mul(Sub(Unary(MatMul(nf.y, lm)), one_hot), Scalar), LAMBDA dlogits :
    Bind(RmsNormBack(g, MatMul(dlogits, Transposed(lm)), P[<<"g_norm_f", 0>>], nf), LAMBDA back :
        [dx |-> back.dx,
         grads |-> (<<"g_norm_f", 0>> :> back.dg)
                   @@ (IF g.TIED THEN << >> ELSE <<"W_lm", 0>> :> EinsumRows(nf.y, dlogits))])))))
\* K_INNER local steps towards x_out - dx_out, from the block's parameters.
LocalSteps(g, x, out, dx, P) ==
    LET target == Sub(out, Mul(Scalar, dx))
    IN  Bind(Unroll(LAMBDA acc, i :
                        Bind(BlocksFwd(g, x, acc.P), LAMBDA f :
                        Bind(BlocksBack(g, Sub(f.out, target), f.saved, acc.P), LAMBDA b :
                            [dx |-> b.dx, P |-> LocalStep(acc.P, b.grads)])),
                    [dx |-> Bad, P |-> P], [i \in 1..g.K_INNER |-> i]), LAMBDA last :
            [dx |-> last.dx,
             grads |-> [n \in {z.name : z \in Range(BlockSizes(g))} |-> Mul(Sub(P[n], last.P[n]), Scalar)]])

BwdGraph(g, s, in, blobs) ==
    LET x(P) == IF IsHead(s) THEN Embedded(g, P, in, blobs) ELSE ReadWire(g, g.K, Arg(in, "x_in"), Arg(blobs, "u_k"))
        k_dy == IF g.K = 0 THEN 0 ELSE KDy(g)
        top(P, out) ==
            IF IsTail(g, s) THEN LossGrads(g, P, out, in, blobs)
            ELSE [dx |-> ReadWire(g, k_dy, Arg(in, "dL_dx_out"), Arg(blobs, "u_k_dy")), grads |-> << >>]
        blocks(P, f, dx) ==
            IF g.K_INNER > 1 THEN LocalSteps(g, x(P), f.out, dx, P) ELSE BlocksBack(g, dx, f.saved, P)
        outs(t, b) ==
            ("dW" :> PackGrads(g, s, t.grads @@ b.grads
                                     @@ (IF IsHead(s) THEN <<"pos_emb", 0>> :> Sum(b.dx, 0) ELSE << >>)))
            @@ (IF IsHead(s) THEN << >> ELSE "dL_dx_in" :> WriteWire(g, k_dy, b.dx, Arg(blobs, "u_k_dy")))
    IN  Graph(("W" :> BlobSpec(g, s))
                  @@ (IF IsHead(s) \/ IsTail(g, s) THEN "tokens" :> Tensor("int32", <<-1>>) ELSE << >>)
                  @@ (IF IsHead(s) THEN << >> ELSE "x_in" :> WireSpec(g, g.K))
                  @@ (IF IsTail(g, s) THEN << >> ELSE "dL_dx_out" :> WireSpec(g, k_dy)),
              {"mb_seed"}, StageBlobs(g, TRUE),
              Bind(SplitBlob(g, s, Arg(in, "W")), LAMBDA P :
              Bind(BlocksFwd(g, x(P), P), LAMBDA f :
              Bind(top(P, f.out), LAMBDA t :
              Bind(blocks(P, f, t.dx), LAMBDA b : outs(t, b))))))

DwNames(M) == {<<"dW", m>> : m \in 0..M - 1}
OuterGraph(g, s, M, in) ==
    LET dWs == [m \in 1..M |-> Arg(in, <<"dW", m - 1>>)]
        mean == IF M = 1 THEN dWs[1] ELSE Mean(Stack(dWs, 0), 0)
    IN  Graph([n \in DwNames(M) \cup {<<"W", 0>>} |-> BlobSpec(g, s)], {}, NoBlobs,
              "W_new" :> Sub(Arg(in, <<"W", 0>>), Mul(Scalar, mean)))

-----------------------------------------------------------------------------
(* gpt_pipe's bootstrap and build_streaming_inputs.  A run's store is its  *)
(* config, its static blobs and its epoch-0 weights; an environment is a   *)
(* partial assignment of the knobs.                                        *)

Counts == {"K_INNER", "N_BLOCKS", "N_MB", "N_STAGES"}
Override(g, knobs, env) ==
    [n \in DOMAIN g |-> IF n \notin knobs \cap DOMAIN env THEN g[n]
                        ELSE IF n \in Counts /\ env[n] < 1 THEN 1 ELSE env[n]]
Knobs == DOMAIN Defaults \ {"VOCAB"}
Corpus(g) == Tensor("int32", <<IF g.VOCAB * 100 > 100000 THEN g.VOCAB * 100 ELSE 100000>>)
InitialBlob(g, s) == BlobSpec(g, s)
SharedCorpus == Tensor("int32", <<1000000>>)
\* Static blobs are written only where there is none; config and weights
\* always (@@ keeps its left argument's value).  A corpus named by the
\* environment is recorded in the config instead of one being made up.
Seeded(st, g, env) ==
    [cfg |-> ("tokens_uri" :> ("tokens_uri" \in DOMAIN env)) @@ g,
     blobs |-> st.blobs @@ StageBlobs(g, TRUE)
                        @@ (IF "tokens_uri" \in DOMAIN env THEN << >> ELSE "tokens" :> Corpus(g)),
     W |-> [s \in 0..g.N_STAGES - 1 |-> InitialBlob(g, s)] @@ st.W]
GptBootstrap(st, g, env) ==
    Bind(Override(g, Knobs, env), LAMBDA h : [g |-> h, st |-> Seeded(st, h, env)])
\* Mutant: whether the embedding is tied is left to the process.
ConfiguredUntied(g, cfg) ==
    [n \in DOMAIN g |-> IF n \in DOMAIN cfg /\ n \notin {"N_MB", "TIED"} /\ ~(n \in {"K", "K_DY"} /\ cfg[n] = 0)
                        THEN cfg[n] ELSE g[n]]

\* Dimensions come from the config; a null rank leaves the global alone, and
\* the number of microbatches is read without touching the global.
Configured(g, cfg) ==
    [n \in DOMAIN g |-> IF n \in DOMAIN cfg /\ n # "N_MB" /\ ~(n \in {"K", "K_DY"} /\ cfg[n] = 0)
                        THEN cfg[n] ELSE g[n]]
MicrobatchCount(g, cfg) == IF "N_MB" \in DOMAIN cfg THEN cfg.N_MB ELSE g.N_MB
Shares(cfg) == "tokens_uri" \in DOMAIN cfg /\ cfg["tokens_uri"]
GptBuild(g, cfg) ==
    Bind(Configured(g, cfg), LAMBDA h : [g |-> h, M |-> MicrobatchCount(g, cfg), shared |-> Shares(cfg)])

-----------------------------------------------------------------------------
(* pipe_train: one square matrix per stage, a squared error at the tail.   *)

Train == [D |-> 512, B |-> 4, T |-> 8, N_STAGES |-> 4, N_MB |-> 32]
TrainX == F32(<<Train.B, Train.T, Train.D>>)
TrainW == F32(<<Train.D, Train.D>>)
TrainTarget == F32(<<Train.D>>)
Spread(t) == BroadcastTo(Reshape(t, <<1, 1, Train.D>>), TrainX.sh)
TrainFwd(s, in) ==
    LET diff(out) == Sub(out, Spread(Arg(in, "target")))
        loss(d) == Unsqueeze(MeanAll(Mul(d, d)), 0)
    IN  Graph(("W" :> TrainW) @@ (IF IsHead(s) THEN << >> ELSE "x" :> TrainX)
                  @@ (IF IsTail(Train, s) THEN "target" :> TrainTarget ELSE << >>),
              {"mb_seed"}, NoBlobs,
              Bind(MatMul(IF IsHead(s) THEN TrainX ELSE Arg(in, "x"), Arg(in, "W")), LAMBDA out :
                  ("x" :> out) @@ (IF IsTail(Train, s) THEN "loss" :> Bind(diff(out), loss) ELSE << >>)))
TrainBwd(s, in) ==
    LET x_in == IF IsHead(s) THEN TrainX ELSE Arg(in, "x_in")
        dx == IF IsTail(Train, s) THEN Mul(Sub(MatMul(x_in, Arg(in, "W")), Spread(Arg(in, "target"))), Scalar)
              ELSE Arg(in, "dL_dx_out")
    IN  Graph(("W" :> TrainW) @@ (IF IsHead(s) THEN << >> ELSE "x_in" :> TrainX)
                  @@ (IF IsTail(Train, s) THEN "target" :> TrainTarget ELSE "dL_dx_out" :> TrainX),
              {"mb_seed"}, NoBlobs,
              ("dW" :> EinsumRows(x_in, dx))
                  @@ (IF IsHead(s) THEN << >> ELSE "dL_dx_in" :> MatMul(dx, Transposed(Arg(in, "W")))))
TrainOuter(M, in) ==
    LET dWs == [m \in 1..M |-> Arg(in, <<"dW", m - 1>>)]
        mean == IF M = 1 THEN dWs[1]
                ELSE Mean(Squeeze(Stack([m \in 1..M |-> Unsqueeze(dWs[m], 0)], 0), 1), 0)
    IN  Graph([n \in DwNames(M) \cup {<<"W", 0>>} |-> TrainW], {}, NoBlobs,
              "W_new" :> Sub(Arg(in, <<"W", 0>>), Mul(Scalar, mean)))
TrainBootstrap(st) ==
    [cfg |-> Train, blobs |-> ("target" :> TrainTarget) @@ st.blobs,
     W |-> [s \in 0..Train.N_STAGES - 1 |-> TrainW] @@ st.W]
TrainBuild(cfg) == [g |-> Train, M |-> MicrobatchCount(Train, cfg)]

-----------------------------------------------------------------------------
(* pipe_demo: forward only, its weights static blobs of the graphs.        *)

Demo == [D |-> 4096, B |-> 8, T |-> 64, N_STAGES |-> 6, N_MB |-> 60]
\* 80 in the code: every one after the first has the shapes of the first.
INNER_MATMULS == 2
DemoX == F32(<<Demo.B, Demo.T, Demo.D>>)
DemoW == F32(<<Demo.D, Demo.D>>)
DemoChain(x, w) == Unroll(LAMBDA h, i : Unary(MatMul(h, w)), x, [i \in 1..INNER_MATMULS |-> i])
DemoStage(s, in, blobs) ==
    Graph(IF IsHead(s) THEN << >> ELSE "x" :> DemoX, {"mb_seed"}, "W" :> DemoW,
          "x" :> DemoChain(IF IsHead(s) THEN DemoX ELSE Arg(in, "x"), Arg(blobs, "W")))
DemoDone(in, blobs) ==
    Graph("x" :> DemoX, {"mb_seed"}, "W" :> DemoW,
          Bind(DemoChain(Arg(in, "x"), Arg(blobs, "W")), LAMBDA h : ("x" :> h) @@ ("done" :> Unsqueeze(MeanAll(h), 0))))
DemoBootstrap(st) ==
    [cfg |-> Demo, blobs |-> st.blobs, W |-> [s \in 0..Demo.N_STAGES - 1 |-> DemoW] @@ st.W]
DemoBuild(cfg) == [g |-> Demo, M |-> MicrobatchCount(Demo, cfg)]
=============================================================================

----------------------------- MODULE RoundTasks -----------------------------
(***************************************************************************)
(* The table of round tasks (teuton_legacy_v2/tasks, and the v3 mlp): the  *)
(* objects a task's bootstrap() writes, the OrchestratorParams and the     *)
(* graphs its build_orchestrator_inputs() returns.                         *)
(***************************************************************************)
EXTENDS ScaleTasks

-----------------------------------------------------------------------------
(* What bootstrap() writes: the round-0 weights of every UB, zeroed        *)
(* optimizer state, and the static blobs the graphs name.                  *)

Written(ws, state, blobs) ==
    [key \in {<<"weights", 0, ub>> : ub \in 0..(Len(ws) - 1)} \cup {<<"blob", b>> : b \in DOMAIN blobs}
             \cup {<<"state", s, 0, ub>> : s \in state, ub \in 0..(Len(ws) - 1)} |->
        CASE key[1] = "weights" -> ws[key[3] + 1]
          [] key[1] = "blob" -> blobs[key[2]]
          [] key[1] = "state" -> F32(ws[key[4] + 1].sh)]
\* initial_weights() of the constrained tasks: w1_raw @ (U_k U_k^T).
InSubspace(u) == <<W, Project(W, u)>>
SubspaceBlobs == LmBlobs @@ [U_k |-> Basis("S", F32(<<D, SUBSPACE_K>>))]
WireBlobs == SubspaceBlobs
FullBlobs == SubspaceBlobs
Int8Blobs == SubspaceBlobs
AsymBasis == [U_k_x |-> Basis("S", F32(<<D, K_X>>)), U_k_dy |-> Basis("S_dy", F32(<<D, K_DY>>))]

MlpBootstrap == Written(<<W, W>>, {}, NoBlobs)
MlpV3Bootstrap == Written(<<W, W>>, {}, NoBlobs)
ReluBootstrap == Written(<<W, W>>, {}, NoBlobs)
LocopropBootstrap == Written(<<W, W>>, {}, NoBlobs)
AdamBootstrap == Written(<<W, W>>, {"m", "v"}, NoBlobs)
SignLocoBootstrap == Written(<<W, W>>, {"m", "v"}, NoBlobs)
DataParallelBootstrap == Written(<<W, W>>, {}, NoBlobs)
DemoBootstrap == Written(<<W, W>>, {}, DctBlob)
GroupedBootstrap == Written(<<Group>>, {}, NoBlobs)
TiedBootstrap == Written(<<W, W>>, {}, NoBlobs)
GptBootstrap == Written(<<W, W>>, {}, LmBlobs)
SubspaceBootstrap ==
    Written(InSubspace(SubspaceBlobs.U_k), {},
            SubspaceBlobs @@ [constrain_flag_ub0 |-> F32(<<1>>), constrain_flag_ub1 |-> F32(<<1>>)])
WireBootstrap == Written(InSubspace(WireBlobs.U_k), {}, WireBlobs)
FullBootstrap == Written(InSubspace(FullBlobs.U_k), {"m", "v"}, FullBlobs)
GrassmannBootstrap == FullBootstrap
AsymBootstrap == Written(InSubspace(AsymBasis.U_k_x), {}, LmBlobs @@ AsymBasis)
Int8Bootstrap == Written(InSubspace(Int8Blobs.U_k), {}, Int8Blobs)
BlocksBootstrap == Written([i \in 1..N_BLOCKS |-> Block], {"m", "v"}, BlockBlobs)
V3Bootstrap == Written([i \in 1..N_BLOCKS |-> Block], {"m", "v"}, BlockBlobs @@ UBasisBlob)

-----------------------------------------------------------------------------
(* What build_orchestrator_inputs() asks of the orchestrator.              *)

\* OrchestratorParams where a task leaves the default.
Params(n_ub, replicas) ==
    [n_ub |-> n_ub, replicas |-> replicas, n_microbatches |-> 1, m_min |-> 1,
     common |-> {}, extras |-> {}, state |-> {}]
MlpParams == Params(2, 2)
\* The v3 run manager waits for every inner step.
MlpV3Params == [Params(2, 2) EXCEPT !.m_min = 2]
ReluParams == Params(2, 2)
LocopropParams == Params(2, 2)
AdamParams == [Params(2, 2) EXCEPT !.state = {"m", "v"}]
SignLocoParams == [Params(2, 2) EXCEPT !.state = {"m", "v"}, !.extras = {"bp_grad"}]
DataParallelParams == [Params(2, N_REPLICAS) EXCEPT !.common = SeedParams]
DemoParams == Params(2, 2)
GroupedParams == Params(1, 2)
TiedParams == Params(2, 2)
GptParams == Params(2, 2)
SubspaceParams == Params(2, 2)
WireParams == Params(2, 2)
FullParams == [Params(2, 2) EXCEPT !.state = {"m", "v"}]
GrassmannParams == FullParams
AsymParams == Params(2, 2)
Int8Params == [Params(2, 2) EXCEPT !.extras = {"scale"}]
BlocksParams == [Params(N_BLOCKS, 1) EXCEPT !.n_microbatches = 8, !.state = {"m", "v"}]
V3Params == [Params(N_BLOCKS, 1) EXCEPT !.state = {"m", "v"}]

-----------------------------------------------------------------------------
(* The tasks by name.                                                      *)

RoundTaskNames ==
    {"mlp", "mlp_v3", "relu_mlp", "locoprop_mlp", "adam_mlp", "sign_loco_mlp",
     "data_parallel_mlp", "pluralis_demo", "pluralis_grouped", "pluralis_tied",
     "tiny_gpt", "pluralis_subspace", "pluralis_lossless_wire", "pluralis_full",
     "pluralis_grassmann", "pluralis_asymmetric", "pluralis_int8",
     "pluralis_gpt_10M", "pluralis_gpt_10M_v3"}
Bootstrap ==
    [mlp |-> MlpBootstrap, mlp_v3 |-> MlpV3Bootstrap, relu_mlp |-> ReluBootstrap,
     locoprop_mlp |-> LocopropBootstrap, adam_mlp |-> AdamBootstrap, sign_loco_mlp |-> SignLocoBootstrap,
     data_parallel_mlp |-> DataParallelBootstrap, pluralis_demo |-> DemoBootstrap,
     pluralis_grouped |-> GroupedBootstrap, pluralis_tied |-> TiedBootstrap, tiny_gpt |-> GptBootstrap,
     pluralis_subspace |-> SubspaceBootstrap, pluralis_lossless_wire |-> WireBootstrap,
     pluralis_full |-> FullBootstrap, pluralis_grassmann |-> GrassmannBootstrap,
     pluralis_asymmetric |-> AsymBootstrap, pluralis_int8 |-> Int8Bootstrap,
     pluralis_gpt_10M |-> BlocksBootstrap, pluralis_gpt_10M_v3 |-> V3Bootstrap]
ParamsOf ==
    [mlp |-> MlpParams, mlp_v3 |-> MlpV3Params, relu_mlp |-> ReluParams, locoprop_mlp |-> LocopropParams,
     adam_mlp |-> AdamParams, sign_loco_mlp |-> SignLocoParams, data_parallel_mlp |-> DataParallelParams,
     pluralis_demo |-> DemoParams, pluralis_grouped |-> GroupedParams, pluralis_tied |-> TiedParams,
     tiny_gpt |-> GptParams, pluralis_subspace |-> SubspaceParams, pluralis_lossless_wire |-> WireParams,
     pluralis_full |-> FullParams, pluralis_grassmann |-> GrassmannParams,
     pluralis_asymmetric |-> AsymParams, pluralis_int8 |-> Int8Params, pluralis_gpt_10M |-> BlocksParams,
     pluralis_gpt_10M_v3 |-> V3Params]
Forward(task, in) ==
    CASE task = "mlp" -> MlpForward(in)
      [] task = "mlp_v3" -> MlpV3Forward(in)
      [] task = "relu_mlp" -> ReluForward(in)
      [] task = "locoprop_mlp" -> LocopropForward(in)
      [] task = "adam_mlp" -> AdamForward(in)
      [] task = "sign_loco_mlp" -> SignLocoForward(in)
      [] task = "data_parallel_mlp" -> DataParallelForward(in)
      [] task = "pluralis_demo" -> DemoForward(in)
      [] task = "pluralis_grouped" -> GroupedForward(in)
      [] task = "pluralis_tied" -> TiedForward(in)
      [] task = "tiny_gpt" -> GptForward(in)
      [] task = "pluralis_subspace" -> SubspaceForward(in)
      [] task = "pluralis_lossless_wire" -> WireForward(in)
      [] task = "pluralis_full" -> FullForward(in)
      [] task = "pluralis_grassmann" -> FullForward(in)
      [] task = "pluralis_asymmetric" -> AsymForward(in)
      [] task = "pluralis_int8" -> Int8Forward(in)
      [] task = "pluralis_gpt_10M" -> BlocksForward(in)
      [] task = "pluralis_gpt_10M_v3" -> V3Forward(in)
Inner(task, in, ub, replica) ==
    CASE task = "mlp" -> MlpInner(in)
      [] task = "mlp_v3" -> MlpV3Inner(in)
      [] task = "relu_mlp" -> ReluInner(in)
      [] task = "locoprop_mlp" -> LocopropInner(in)
      [] task = "adam_mlp" -> AdamInner(in)
      [] task = "sign_loco_mlp" -> SignLocoInner(in)
      [] task = "data_parallel_mlp" -> DataParallelInner(in, replica, replica + 1)
      [] task = "pluralis_demo" -> DemoInner(in)
      [] task = "pluralis_grouped" -> GroupedInner(in)
      [] task = "pluralis_tied" -> TiedInner(in)
      [] task = "tiny_gpt" -> GptInner(in)
      [] task = "pluralis_subspace" -> SubspaceInner(in, ub)
      [] task = "pluralis_lossless_wire" -> IF ub = 0 THEN WireInner0(in) ELSE WireInner1(in)
      [] task = "pluralis_full" -> IF ub = 0 THEN FullInner0(in) ELSE FullInner1(in)
      [] task = "pluralis_grassmann" -> IF ub = 0 THEN FullInner0(in) ELSE FullInner1(in)
      [] task = "pluralis_asymmetric" -> IF ub = 0 THEN AsymInner0(in) ELSE AsymInner1(in)
      [] task = "pluralis_int8" -> IF ub = 0 THEN Int8Inner0(in) ELSE Int8Inner1(in)
      [] task = "pluralis_gpt_10M" -> BlocksInner(in)
      [] task = "pluralis_gpt_10M_v3" -> V3Inner(in)
Reduce(task, ds) ==
    CASE task = "mlp" -> MlpReduce(ds)
      [] task = "mlp_v3" -> MlpV3Reduce(ds)
      [] task = "relu_mlp" -> ReluReduce(ds)
      [] task = "locoprop_mlp" -> LocopropReduce(ds)
      [] task = "adam_mlp" -> AdamReduce(ds)
      [] task = "sign_loco_mlp" -> SignLocoReduce(ds)
      [] task = "data_parallel_mlp" -> DataParallelReduce(ds)
      [] task = "pluralis_demo" -> DemoReduce(ds)
      [] task = "pluralis_grouped" -> GroupedReduce(ds)
      [] task = "pluralis_tied" -> TiedReduce(ds)
      [] task = "tiny_gpt" -> GptReduce(ds)
      [] task = "pluralis_subspace" -> SubspaceReduce(ds)
      [] task = "pluralis_lossless_wire" -> WireReduce(ds)
      [] task = "pluralis_full" -> FullReduce(ds)
      [] task = "pluralis_grassmann" -> FullReduce(ds)
      [] task = "pluralis_asymmetric" -> AsymReduce(ds)
      [] task = "pluralis_int8" -> Int8Reduce(ds)
      [] task = "pluralis_gpt_10M" -> BlocksReduce(ds)
      [] task = "pluralis_gpt_10M_v3" -> V3Reduce(ds)
Outer(task, in, ub) ==
    CASE task = "mlp" -> MlpOuter(in)
      [] task = "mlp_v3" -> MlpV3Outer(in)
      [] task = "relu_mlp" -> ReluOuter(in)
      [] task = "locoprop_mlp" -> LocopropOuter(in)
      [] task = "adam_mlp" -> AdamOuter(in)
      [] task = "sign_loco_mlp" -> SignLocoOuter(in)
      [] task = "data_parallel_mlp" -> DataParallelOuter(in)
      [] task = "pluralis_demo" -> DemoOuter(in)
      [] task = "pluralis_grouped" -> GroupedOuter(in)
      [] task = "pluralis_tied" -> TiedOuter(in)
      [] task = "tiny_gpt" -> GptOuter(in)
      [] task = "pluralis_subspace" -> SubspaceOuter(in)
      [] task = "pluralis_lossless_wire" -> WireOuter(in)
      [] task = "pluralis_full" -> FullOuter(in, ub = 1)
      [] task = "pluralis_grassmann" -> FullOuter(in, ub = 1)
      [] task = "pluralis_asymmetric" -> AsymOuter(in)
      [] task = "pluralis_int8" -> Int8Outer(in)
      [] task = "pluralis_gpt_10M" -> BlocksOuter(in)
      [] task = "pluralis_gpt_10M_v3" -> V3Outer(in)
Eval(task, in) ==
    CASE task = "mlp" -> MlpEval(in)
      [] task = "mlp_v3" -> MlpV3Eval(in)
      [] task = "relu_mlp" -> ReluEval(in)
      [] task = "locoprop_mlp" -> LocopropEval(in)
      [] task = "adam_mlp" -> AdamEval(in)
      [] task = "sign_loco_mlp" -> SignLocoEval(in)
      [] task = "data_parallel_mlp" -> DataParallelEval(in)
      [] task = "pluralis_demo" -> DemoEval(in)
      [] task = "pluralis_grouped" -> GroupedEval(in)
      [] task = "pluralis_tied" -> TiedEval(in)
      [] task = "tiny_gpt" -> GptEval(in)
      [] task = "pluralis_subspace" -> SubspaceEval(in)
      [] task = "pluralis_lossless_wire" -> WireEval(in)
      [] task = "pluralis_full" -> FullEval(in)
      [] task = "pluralis_grassmann" -> FullEval(in)
      [] task = "pluralis_asymmetric" -> AsymEval(in)
      [] task = "pluralis_int8" -> Int8Eval(in)
      [] task = "pluralis_gpt_10M" -> BlocksEval(in)
      [] task = "pluralis_gpt_10M_v3" -> V3Eval(in)
\* The tasks whose second UB is constrained to the subspace S.
Constrained ==
    {"pluralis_subspace", "pluralis_lossless_wire", "pluralis_full", "pluralis_grassmann",
     "pluralis_asymmetric", "pluralis_int8"}
=============================================================================

-------------------------- MODULE LegacyPipeTasks ---------------------------
(***************************************************************************)
(* The v2 originals of the streaming tasks (teuton_legacy_v2/tasks/).  The *)
(* builders are the same code as the native ones; gpt_pipe's bootstrap has *)
(* no knob for the dimensions of the model.                                *)
(***************************************************************************)
EXTENDS PipeTasks

V2Knobs == {"K", "K_DY", "INT8", "TIED", "K_INNER", "N_BLOCKS"}
V2GptBootstrap(st, g, env) ==
    Bind(Override(g, V2Knobs, env), LAMBDA h : [g |-> h, st |-> Seeded(st, h, env)])
V2GptBuild(g, cfg) == GptBuild(g, cfg)
V2FwdGraph(g, s, in, blobs) == FwdGraph(g, s, in, blobs)
V2BwdGraph(g, s, in, blobs) == BwdGraph(g, s, in, blobs)
V2OuterGraph(g, s, M, in) == OuterGraph(g, s, M, in)

V2TrainFwd(s, in) == TrainFwd(s, in)
V2TrainBwd(s, in) == TrainBwd(s, in)
V2TrainOuter(M, in) == TrainOuter(M, in)
V2TrainBootstrap(st) == TrainBootstrap(st)
V2TrainBuild(cfg) == TrainBuild(cfg)

V2DemoStage(s, in, blobs) == DemoStage(s, in, blobs)
V2DemoDone(in, blobs) == DemoDone(in, blobs)
V2DemoBootstrap(st) == DemoBootstrap(st)
V2DemoBuild(cfg) == DemoBuild(cfg)
=============================================================================

CONSTANTS
  Tasks = {"mlp", "mlp_v3", "relu_mlp", "locoprop_mlp", "adam_mlp", "sign_loco_mlp", "data_parallel_mlp", "pluralis_demo", "pluralis_grouped", "pluralis_tied", "tiny_gpt", "pluralis_subspace", "pluralis_lossless_wire", "pluralis_full", "pluralis_grassmann", "pluralis_asymmetric", "pluralis_int8", "pluralis_gpt_10M", "pluralis_gpt_10M_v3"}
  MaxRounds = 2
  Workers = 2
  MicrobatchBound = 1
  MaxStops = 1
SPECIFICATION Spec
INVARIANT NoJobRefused ConstrainedStaysInS
PROPERTY RoundsComplete

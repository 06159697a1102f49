------------------------- MODULE DistributedExecutor -------------------------
(***************************************************************************)
(* A job that several GPUs of one host execute together, and its output,   *)
(* stored as one object per rank and a manifest that names them: the       *)
(* tensor-parallel runner, put_sharded_tensor and get_sharded_tensor.  The *)
(* same job may be executed twice, by hosts with different numbers of      *)
(* GPUs, and an execution may stop at any point; a job that takes the      *)
(* output as its input and the audit of a receipt read meanwhile.          *)
(*                                                                         *)
(* A tensor is a matrix, the sequence of its rows, partition_dim is 0 and  *)
(* a digest is the content it is taken of.  The sizes that ranks share     *)
(* divide by the number of ranks, as all_gather requires.                  *)
(***************************************************************************)
EXTENDS Integers, Sequences, FiniteSets, Functions, SequencesExt

CONSTANTS
    Execs,      \* executions of the job
    Hosts,      \* [Execs -> ...]: the inputs each may find (in), the GPUs of its
                \* host (world), the world_size its output is cut into (cut)
    MaxRanks,   \* the most ranks of any of them
    Readers     \* jobs and audits that read the output

None == "none"
NoTensor == << >>
NoManifest == [shape |-> 0, shards |-> << >>]

VARIABLES
    op,         \* tp_op and parallel_mode of the job
    exec,       \* exec[e]: an execution
    object,     \* object[k]: the shard of rank k in the bucket
    manifest,   \* the manifest in the bucket
    reader      \* reader[d]: a reader

vars == <<op, exec, object, manifest, reader>>

Ranks == 0..(MaxRanks - 1)

-----------------------------------------------------------------------------
\* Matrices.

Total(f) == FoldFunction(+, 0, f)
MatMul(a, b) ==
    [i \in DOMAIN a |-> [j \in DOMAIN b[1] |-> Total([k \in DOMAIN b |-> a[i][k] * b[k][j]])]]
Transpose(a) == [j \in DOMAIN a[1] |-> [i \in DOMAIN a |-> a[i][j]]]
Plus(a, b) == [i \in DOMAIN a |-> [j \in DOMAIN a[1] |-> a[i][j] + b[i][j]]]
PlusBias(a, bias) == [i \in DOMAIN a |-> [j \in DOMAIN a[1] |-> a[i][j] + bias[j]]]

\* The activation and its derivative, some function applied to every element.
Activation(a) == [i \in DOMAIN a |-> [j \in DOMAIN a[1] |-> a[i][j] * a[i][j]]]
TimesGrad(d, a) == [i \in DOMAIN a |-> [j \in DOMAIN a[1] |-> 2 * a[i][j] * d[i][j]]]

\* torch.tensor_split: the first n % world parts have one element more.
SplitForRank(s, r, world) ==
    LET n == Len(s)
        From(k) == k * (n \div world) + (IF k < n % world THEN k ELSE n % world)
    IN  SubSeq(s, From(r) + 1, From(r + 1))
SplitColumns(a, r, world) == [i \in DOMAIN a |-> SplitForRank(a[i], r, world)]

\* _maybe_all_reduce and _maybe_all_gather: what every rank has of the parts.
AllReduce(parts) ==
    LET upTo[r \in DOMAIN parts] == IF r = 0 THEN parts[0] ELSE Plus(upTo[r - 1], parts[r])
    IN  upTo[Cardinality(DOMAIN parts) - 1]
AllGather(parts) ==
    LET world == Cardinality(DOMAIN parts)
    IN  [i \in DOMAIN parts[0] |-> FlattenSeq([r \in 1..world |-> parts[r - 1][i]])]

-----------------------------------------------------------------------------
\* GPTTensorParallelRunner: the part rank r works out before the ranks meet.

ColumnParallel(in, r, world) ==
    PlusBias(MatMul(in.x, SplitColumns(in.w1, r, world)), SplitForRank(in.bias, r, world))

RowPart(x, w, r, world) == MatMul(SplitColumns(x, r, world), SplitForRank(w, r, world))

Hidden(in, r, world) == Activation(MatMul(in.x, SplitColumns(in.w1, r, world)))
MlpPart(in, r, world) == MatMul(Hidden(in, r, world), SplitForRank(in.w2, r, world))

ColumnBackward(in, r, world) ==
    MatMul(SplitColumns(in.dy, r, world), Transpose(SplitColumns(in.w1, r, world)))
RowBackward(in, r, world) == MatMul(in.dy, Transpose(SplitForRank(in.w1, r, world)))

MlpBackward(in, r, world) ==
    LET w1 == SplitColumns(in.w1, r, world)
        pre == MatMul(in.x, w1)
        dHidden == MatMul(in.dy, Transpose(SplitForRank(in.w2, r, world)))
    IN  MatMul(TimesGrad(dHidden, pre), Transpose(w1))

\* dW of a linear layer (dW1 and dW2 of an mlp likewise): no collective joins
\* the slices of the ranks.
WeightGradient(in, r, world) == MatMul(Transpose(in.x), SplitColumns(in.dy, r, world))

Ops == {"linear_column", "linear_row", "linear_backward_column",
        "linear_backward_row", "mlp", "mlp_backward", "weight_gradient"}

Part(o, in, r, world) ==
    CASE o = "linear_column"          -> ColumnParallel(in, r, world)
      [] o = "linear_row"             -> RowPart(in.x, in.w1, r, world)
      [] o = "linear_backward_column" -> ColumnBackward(in, r, world)
      [] o = "linear_backward_row"    -> RowBackward(in, r, world)
      [] o = "mlp"                    -> MlpPart(in, r, world)
      [] o = "mlp_backward"           -> MlpBackward(in, r, world)
      [] o = "weight_gradient"        -> WeightGradient(in, r, world)

\* What rank 0 has once the ranks have met: y, or dX or dW for a backward op.
Meet(o, in, parts) ==
    CASE o \in {"linear_column", "linear_backward_row"}  -> AllGather(parts)
      [] o \in {"mlp", "mlp_backward", "linear_backward_column"} -> AllReduce(parts)
      [] o = "weight_gradient" -> parts[0]
      [] o = "linear_row" -> PlusBias(AllReduce(parts), in.bias)

\* The replay of an audit runs the same op with rank = 0 and world_size = 1.
SingleRank(o, in) == Meet(o, in, [r \in {0} |-> Part(o, in, 0, 1)])

-----------------------------------------------------------------------------
\* DistributedJobExecutor._execute_gpt_tensor_parallel, one execution.

Init ==
    /\ op \in Ops
    /\ \E hosts \in Hosts :
           exec = [e \in Execs |->
               [in |-> hosts[e].in, world |-> hosts[e].world, cut |-> hosts[e].cut, pc |-> "new",
                part |-> [r \in {} |-> None], out |-> NoTensor, shards |-> << >>]]
    /\ object = [k \in Ranks |-> NoTensor]
    /\ manifest = NoManifest
    /\ reader = [d \in Readers |-> [pc |-> "idle", of |-> None, manifest |-> NoManifest,
                                    shards |-> << >>, got |-> NoTensor, status |-> None]]

\* The inputs are loaded and one process per GPU is spawned.
Spawn(e) ==
    /\ exec[e].pc = "new"
    /\ exec' = [exec EXCEPT ![e].pc = "ranks"]
    /\ UNCHANGED <<op, object, manifest, reader>>

\* Rank r comes to the collective with its part.
RankArrives(e, r) ==
    /\ exec[e].pc = "ranks" /\ r < exec[e].world /\ r \notin DOMAIN exec[e].part
    /\ exec' = [exec EXCEPT ![e].part =
           [q \in DOMAIN @ \cup {r} |-> IF q = r THEN Part(op, exec[e].in, r, exec[e].world) ELSE @[q]]]
    /\ UNCHANGED <<op, object, manifest, reader>>

\* With all of them there it completes; rank 0 puts the outputs into the queue,
\* mp.spawn joins the ranks, and the parent takes them.
RanksMeet(e) ==
    /\ exec[e].pc = "ranks" /\ DOMAIN exec[e].part = 0..(exec[e].world - 1)
    /\ exec' = [exec EXCEPT ![e].pc = "put", ![e].out = Meet(op, exec[e].in, exec[e].part)]
    /\ UNCHANGED <<op, object, manifest, reader>>

\* A rank raises, and mp.spawn ends the others and raises; or a PUT raises.
\* What was put before stays.
Fail(e) ==
    /\ exec[e].pc \in {"ranks", "put", "manifest"}
    /\ exec' = [exec EXCEPT ![e].pc = "failed"]
    /\ UNCHANGED <<op, object, manifest, reader>>

\* put_sharded_tensor: the next shard, then the manifest, then the receipt.
PutShard(e) ==
    /\ exec[e].pc = "put" /\ Len(exec[e].shards) < exec[e].cut
    /\ LET rank == Len(exec[e].shards)
           body == SplitForRank(exec[e].out, rank, exec[e].cut)
       IN  /\ object' = [object EXCEPT ![rank] = body]
           /\ exec' = [exec EXCEPT ![e].shards = Append(@, [rank |-> rank, sha256 |-> body])]
    /\ UNCHANGED <<op, manifest, reader>>

PutManifest(e) ==
    /\ exec[e].pc = "put" /\ Len(exec[e].shards) = exec[e].cut
    /\ manifest' = [shape |-> Len(exec[e].out), shards |-> exec[e].shards]
    /\ exec' = [exec EXCEPT ![e].pc = "manifest"]
    /\ UNCHANGED <<op, object, reader>>

PutReceipt(e) ==
    /\ exec[e].pc = "manifest"
    /\ exec' = [exec EXCEPT ![e].pc = "receipt"]
    /\ UNCHANGED <<op, object, manifest, reader>>

-----------------------------------------------------------------------------
\* The readers.  A job's _load_inputs reads the manifest, sees that it is one
\* and calls get_sharded_tensor, which reads it again; an audit knows it from
\* the receipt of an execution.

LoadInput(d) ==
    /\ reader[d].pc = "idle" /\ manifest # NoManifest
    /\ reader' = [reader EXCEPT ![d].pc = "manifest"]
    /\ UNCHANGED <<op, exec, object, manifest>>

CompareOutput(d, e) ==
    /\ reader[d].pc = "idle" /\ exec[e].pc = "receipt"
    /\ reader' = [reader EXCEPT ![d].pc = "manifest", ![d].of = e]
    /\ UNCHANGED <<op, exec, object, manifest>>

GetManifest(d) ==
    /\ reader[d].pc = "manifest"
    /\ reader' = [reader EXCEPT ![d].pc = "shards", ![d].manifest = manifest]
    /\ UNCHANGED <<op, exec, object, manifest>>

\* The next shard in the order of the ranks, against its digest.  A mismatch
\* fails the job, or the audit.
GetShardUnchecked(d) ==
    LET m == reader[d].manifest
        k == Len(reader[d].shards)
    IN  /\ reader[d].pc = "shards" /\ k < Len(m.shards)
        /\ reader' = [reader EXCEPT ![d].shards = Append(@, object[k])]
        /\ UNCHANGED <<op, exec, object, manifest>>

GetShard(d) ==
    LET m == reader[d].manifest
        k == Len(reader[d].shards)
    IN  /\ reader[d].pc = "shards" /\ k < Len(m.shards)
        /\ reader' = [reader EXCEPT ![d] =
               IF object[k] = m.shards[k + 1].sha256
               THEN [@ EXCEPT !.shards = Append(@, object[k])]
               ELSE [@ EXCEPT !.pc = "done", !.status = "fail"]]
        /\ UNCHANGED <<op, exec, object, manifest>>

\* join_shards, the check of the shape and, in an audit, the comparison with
\* the replay of the receipt's job.
Join(d) ==
    LET m == reader[d].manifest
        joined == FlattenSeq(reader[d].shards)
        e == reader[d].of
        ok == /\ Len(joined) = m.shape
              /\ e # None => joined = SingleRank(op, exec[e].in)
    IN  /\ reader[d].pc = "shards" /\ Len(reader[d].shards) = Len(m.shards)
        /\ reader' = [reader EXCEPT ![d].pc = "done", ![d].got = joined,
                                    ![d].status = IF ok THEN "pass" ELSE "fail"]
        /\ UNCHANGED <<op, exec, object, manifest>>

Execution(e) ==
    \/ Spawn(e) \/ RanksMeet(e) \/ Fail(e) \/ PutShard(e) \/ PutManifest(e) \/ PutReceipt(e)
    \/ \E r \in Ranks : RankArrives(e, r)
Read(d) ==
    \/ LoadInput(d) \/ GetManifest(d) \/ GetShard(d) \/ Join(d)
    \/ \E e \in Execs : CompareOutput(d, e)
Next == (\E e \in Execs : Execution(e)) \/ (\E d \in Readers : Read(d))

Spec == Init /\ [][Next]_vars

-----------------------------------------------------------------------------
\* What a reader gets of a sharded output is whole and right: however two
\* executions and the reads interleave, a read that succeeds returns what a
\* single rank would compute from the inputs of one of the executions
\* (get_sharded_tensor's digests, the collectives of distributed_gpt.py), and
\* an execution that alone has written the output passes its audit
\* (AuditReplayRunner.compare_output).  Weight gradients are left out: of them
\* a host with several GPUs stores the slice of rank 0.
ReadIsReplayed ==
    op # "weight_gradient" => \A d \in Readers :
        /\ reader[d].got # NoTensor =>
               \E e \in Execs : reader[d].got = SingleRank(op, exec[e].in)
        /\ LET e == reader[d].of IN
           e # None /\ (\A f \in Execs \ {e} : exec[f].shards = << >>) => reader[d].status # "fail"
==============================================================================

----------------------------- MODULE MCRealTraining -----------------------------
(* RealTraining for TLC: two machines, two contents of the model directory.  *)
EXTENDS RealTraining

MCCorpora == ("small" :> <<"x1", "x2", "x3">>) @@ ("other" :> <<"y1">>)

HfSpec(epochs, batch, accum, clip) ==
  [epochs |-> epochs, batch |-> batch, accum |-> accum, clip |-> clip, trainer |-> "hf",
   provider |-> "huggingface", precision |-> "float32", optimizer |-> "adamw",
   scheduler |-> "constant", checkpoint |-> "none", model |-> "qwen", steps |-> 1,
   tokens |-> 2]

MCPlans == {PlanFor(HfSpec(2, 1, 2, TRUE), "small")}

GoodMachine ==
  [packages |-> ("torch" :> "current") @@ ("transformers" :> "current"), os |-> "linux",
   device |-> "cpu", precisions |-> {"float32"}, count |-> 1, memory |-> 20,
   deterministic |-> TRUE]
MCMachines == {GoodMachine, [GoodMachine EXCEPT !.packages["torch"] = "old"]}
MCModels == {[bytes |-> "m1", parameters |-> 1], [bytes |-> "m2", parameters |-> 1]}
MCTokenizer == [bytes |-> "t1", parameters |-> 0]

\* The second policy approves another backend.
MCLimit(backend) ==
  [slice |-> 3, backend |-> backend, tokens |-> 2, examples |-> 3, epochs |-> 2, steps |-> 4,
   batch |-> 2]
MCLimits == {MCLimit("hf"), MCLimit("other")}
MCModelPolicy(name) ==
  [name |-> name, model |-> "qwen", parameters |-> 2, tokens |-> 4, examples |-> 4,
   epochs |-> 2, steps |-> 8, batch |-> 4]
MCModelPolicies == {MCModelPolicy("mp1"), MCModelPolicy("mp2")}
================================================================================

---------------------------- MODULE MCSequences -----------------------------
(* Small batches for TLC.                                                  *)
EXTENDS PackedForward

Text(n) == [text |-> n, h |-> 0, w |-> 0]
Image(a, b) == [text |-> 0, h |-> a, w |-> b]
Short == <<Text(2)>>
Single == <<Text(1)>>
Exact == <<Text(7)>>
Near == <<Text(8)>>
Long == <<Text(9)>>
Picture == <<Text(1), Image(2, 2), Text(1)>>
Wide == <<Text(1), Image(1, 3), Text(2)>>
Two == <<Text(1), Image(1, 2), Text(1), Image(2, 1), Text(1)>>

(* Two prompts with each engine, truncation and way of sampling... *)
Prompted == [engine : {"spmd", "vllm", "sglang", "hf"}, prompts : {Short, Exact, Long} \X {Single, Long},
             truncation : {"left", "right", "middle", "error"}, mode : {"sample", "validate"}, n : {2}, micro : {1, 2},
             path : {"plain"}, head : {"actor"}, sp : {1}, kv : {2}, tp : {1}, switch : {FALSE}]
(* (a prompt the requests' rows would cut is not cut for their engine)      *)
Requested == [engine : {"requests"}, prompts : {Short, Exact} \X {Single, Exact}, truncation : {"error"},
              mode : {"sample", "validate"}, n : {2}, micro : {2},
              path : {"plain"}, head : {"actor"}, sp : {1}, kv : {2}, tp : {1}, switch : {FALSE}]
Pictured == [engine : {"spmd", "sglang"}, prompts : {Picture, Wide, Two, Long} \X {Picture, Two, Short},
             truncation : {"left"}, mode : {"sample", "greedy"}, n : {2}, micro : {2},
             path : {"plain"}, head : {"actor"}, sp : {1}, kv : {2}, tp : {1}, switch : {FALSE}]
(* ...and every way of going through a model. *)
Forward(prompts, path, heads, sps, kvs, tps) ==
    [engine : {"spmd"}, prompts : prompts, truncation : {"left"}, mode : {"greedy"}, n : {1}, micro : {2},
     path : path, head : heads, sp : sps, kv : kvs, tp : tps, switch : {FALSE}]
Texts == {<<Short, Exact>>, <<Single, Short>>}
Pictures == {<<Picture, Short>>, <<Two, Wide>>}
Supervised == [engine : {"dataset"}, prompts : {Short, Single, Exact, Near, Long} \X {Short, Single},
               truncation : {"left", "right", "error"}, mode : {"greedy"}, n : {1}, micro : {2}, path : {"plain", "text"}, head : {"sft"}, sp : {1, 2}, kv : {2},
               tp : {1}, switch : {FALSE}]

MCJobs ==
    {j \in Prompted : j.micro = 2 \/ j.engine = "hf"} \union Pictured \union Requested
    \union {j \in Supervised : j.path = "plain" => j.sp = 1}
    \union Forward(Texts, {"text"}, {"actor", "critic"}, {1, 2, 4}, {1, 2, 4}, {1})
    \union Forward(Texts, {"fused"}, {"actor"}, {1}, {2}, {1})
    \union Forward(Texts, {"kimi"}, {"actor"}, {1, 2, 4}, {4}, {1})
    \union Forward(Pictures, {"vision"}, {"actor"}, {1, 2, 4}, {1, 2}, {1})
    \union Forward(Texts, {"plain"}, {"critic"}, {1}, {2}, {1})
    \union {[j EXCEPT !.switch = s] : s \in BOOLEAN, j \in Forward(Texts, {"text", "plain", "mcore"}, {"reward"}, {1}, {2}, {1})}
    \union Forward(Texts, {"text"}, {"reward"}, {2}, {2}, {1})
    \union Forward({<<<<Text(3)>>, Exact>>}, {"mcore"}, {"actor", "critic"}, {1, 2}, {2}, {1, 2})
=============================================================================

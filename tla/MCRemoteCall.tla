---------------------------- MODULE MCRemoteCall ----------------------------
(* Deployments on two nodes, whose GPUs may not suffice; every layout with *)
(* the actor alone, one when roles share the workers.                      *)
EXTENDS RemoteCall

All == <<"actor_rollout", "critic", "ref", "rm">>

Deployed(roles, style, mode, lora, gpus) ==
  [roles |-> roles, style |-> style, mode |-> mode, lora |-> lora, gpus |-> gpus,
   layouts |-> {lay \in Layouts(WorldSize) : Len(roles) > 1 => lay.dp = WorldSize},
   infer_tps |-> IF Len(roles) > 1 THEN {IF roles = All THEN WorldSize ELSE 2} ELSE {n \in 1 .. WorldSize : WorldSize % n = 0}]

MCDeployments == {
  Deployed(<<"actor_rollout">>, "dict", "sync", FALSE, <<2, 2>>),
  Deployed(All, "dict", "sync", FALSE, <<4, 3>>),
  Deployed(<<"actor_rollout", "ref">>, "dict", "async", TRUE, <<2, 2>>),
  Deployed(<<"actor_rollout", "ref">>, "fused", "async", FALSE, <<2, 2>>),
  Deployed(<<"actor_rollout">>, "dict", "sync", FALSE, <<1, 3>>),
  Deployed(<<"actor_rollout">>, "dict", "sync", FALSE, <<4, 0>>)}
=============================================================================

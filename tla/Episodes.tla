------------------------------ MODULE Episodes ------------------------------
(* What a rollout promises of a batch of episodes: each runs, ends once    *)
(* with the reward of the step that ended it, and keeps that reward until  *)
(* the whole batch is started afresh.                                      *)
EXTENDS Integers

CONSTANTS Env, Rewards

VARIABLES ended, reward

evars == <<ended, reward>>

EpisodesInit == ended = [i \in Env |-> FALSE] /\ reward = [i \in Env |-> 0]

EndSome ==
  /\ \A i \in Env : ended[i] => ended'[i] /\ reward'[i] = reward[i]
  /\ \A i \in Env : ~ended'[i] => reward'[i] = 0
  /\ reward' \in [Env -> Rewards \cup {0}]
  /\ ended' \in [Env -> BOOLEAN]

StartAfresh == ended' = [i \in Env |-> FALSE] /\ reward' = [i \in Env |-> 0]

EpisodesNext == EndSome \/ StartAfresh

EpisodesSpec == EpisodesInit /\ [][EpisodesNext]_evars
============================================================================

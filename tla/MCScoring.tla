----------------------------- MODULE MCScoring ------------------------------
(* A small instance of Scoring for TLC: answers that pass, that do not      *)
(* compile and that get no reply.                                           *)
EXTENDS Scoring

Reply(api, compile, run) == [api |-> api, compile |-> compile, run |-> run, match |-> TRUE]

MCReplies ==
  {Reply("Success", "ok", "Finished"), Reply("Failed", "Error", "none"), Reply("none", "ok", "none")}
=============================================================================

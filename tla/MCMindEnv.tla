----------------------------- MODULE MCMindEnv -----------------------------
(* Small instances of MindEnv and its manager for TLC. *)
EXTENDS Evaluation

Call(m) == [method |-> m]
AnswerCall(a) == [method |-> "answer", answer |-> a]
RetrieveCall(v) == [method |-> "retrieve", view |-> v]
Obj(n, p, ok) == [name |-> n, pos |-> p, accepted |-> ok]
View(img, i, p, f, ok) == [imageName |-> img, idx |-> i, pos |-> p, facing |-> f, accepted |-> ok]
UpdateCall(os, vs) == [method |-> "update_cogmap", map |-> [objs |-> os, views |-> vs]]
Code(cs) == [wellFormed |-> TRUE, calls |-> cs, mentions |-> {}]
Broken(ks) == [wellFormed |-> FALSE, calls |-> <<>>, mentions |-> ks]

(* Payloads with off-grid positions, a repeated name, the two spellings of  *)
(* a view's name, and entries the dataclasses refuse.                       *)
MCUpdates ==
  { UpdateCall(<<Obj("o1", -3, TRUE), Obj("o1", 1, TRUE)>>, <<View(TRUE, 1, 5, "back", TRUE)>>),
    UpdateCall(<<Obj("o1", 1, TRUE)>>, <<View(TRUE, 2, 0, "up", TRUE)>>),
    UpdateCall(<<Obj("o2", 1, TRUE)>>, <<View(FALSE, 1, 0, "up", TRUE), View(TRUE, 1, 0, "up", TRUE)>>),
    UpdateCall(<<Obj("o1", 1, TRUE), Obj("o2", 0, FALSE)>>, <<View(TRUE, 12, 0, "up", TRUE)>>),
    UpdateCall(<<>>, <<View(TRUE, 12, 1, "up", TRUE), View(TRUE, 3, 0, "up", FALSE)>>) }

MCCalls ==
  {AnswerCall("A"), AnswerCall("B"), RetrieveCall(0), RetrieveCall(2), RetrieveCall(7)} \cup MCUpdates

MCAgentCodes ==
  {Code(<<c>>) : c \in MCCalls}
  \cup {Code(<<Call("goto"), Call("face")>>), Code(<<RetrieveCall(1), AnswerCall("A")>>)}
  \cup {Code(<<Call("goto"), RetrieveCall(1)>>), Code(<<RetrieveCall(1), Call("goto")>>)}
  \cup {Code(<<Call("face"), u>>) : u \in MCUpdates}
  \cup {Code(<<u, Call("face")>>) : u \in {UpdateCall(<<Obj("o2", 0, TRUE)>>, <<>>)}}
  \cup {Code(<<AnswerCall("A"), Call("goto")>>)}

Says(v, f, const) == [view |-> v, facing |-> f, constant |-> const]

Response(f, rs, c, ms) ==
  [form |-> f, reasoning |-> rs, code |-> c, marks |-> ms, callsLast |-> TRUE]

(* Every code in a strict response; answers with reasoning that holds, does *)
(* not hold, cannot be evaluated yet or is constant; a text that marks two  *)
(* letters, or whose call is broken off; code outside of the strict form,   *)
(* and responses without a call.                                            *)
MCResponses ==
  {Response("strict", <<>>, c, {}) : c \in MCAgentCodes}
  \cup {Response("strict", rs, Code(<<AnswerCall(a)>>), {a}) :
          rs \in {<<Says(1, "up", FALSE)>>, <<Says(2, "up", FALSE), Says(1, "left", TRUE)>>}, a \in {"A", "B"}}
  \cup {Response("strict", <<Says(1, "down", FALSE)>>, Code(<<RetrieveCall(1)>>), {}),
        Response("tagged", <<>>, Code(<<AnswerCall("B")>>), {"A", "B"}),
        Response("tagged", <<>>, Broken({"answer"}), {"B"}),
        Response("plain", <<>>, Broken({"retrieve"}), {}),
        [Response("strict", <<Says(1, "up", FALSE)>>, Broken({"answer", "control"}), {}) EXCEPT !.callsLast = FALSE]}

MCCodes == {ProjectedCode(r) : r \in MCResponses}

MCGtObjects == [n \in {"o1"} |-> 1]
MCGtViews == [i \in 1 .. 2 |-> [pos |-> 0, facing |-> "up"]]
MCQuestion == [views |-> {1}, objects |-> {"o1"}, optionsAreObjects |-> TRUE, answer |-> "o2"]
============================================================================

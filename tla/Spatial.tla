------------------------------- MODULE Spatial -------------------------------
(***************************************************************************)
(* The spatial functions the reasoning code of an answer is evaluated      *)
(* with: turn_right, turn_left, turn_back, go_straight and ObjectBase's    *)
(* relations between two objects as seen by a view, on the grid where y    *)
(* grows downwards.  A scene is one view, a source and a target; walking   *)
(* turns the view and moves it forward.                                    *)
(***************************************************************************)
EXTENDS Integers

CONSTANT Coordinate   \* the coordinates of the grid

ASSUME CoordinateAssumption == Coordinate \subseteq Int

Face == {"up", "right", "down", "left"}

VARIABLES position, direction,   \* of the view
          source, target         \* positions

sceneVars == <<position, direction, source, target>>

----------------------------------------------------------------------------
(* context.py; a direction outside Face (inner, outer, None) raises *)

turn_right(face) ==
  CASE face = "up" -> "right" [] face = "right" -> "down" [] face = "down" -> "left" [] face = "left" -> "up"

turn_left(face) ==
  CASE face = "up" -> "left" [] face = "left" -> "down" [] face = "down" -> "right" [] face = "right" -> "up"

turn_back(face) ==
  CASE face = "up" -> "down" [] face = "down" -> "up" [] face = "left" -> "right" [] face = "right" -> "left"

go_straight(face) ==
  CASE face = "up" -> <<0, -1>> [] face = "down" -> <<0, 1>>
    [] face = "left" -> <<-1, 0>> [] face = "right" -> <<1, 0>>

is_right(face, s, t) ==
  CASE face = "up" -> t[1] > s[1]
    [] face = "down" -> t[1] < s[1]
    [] face = "left" -> t[2] < s[2]
    [] face = "right" -> t[2] > s[2]

is_left(face, s, t) ==
  CASE face = "up" -> t[1] < s[1]
    [] face = "down" -> t[1] > s[1]
    [] face = "left" -> t[2] > s[2]
    [] face = "right" -> t[2] < s[2]

(* The axis the view looks along. *)
Axis(face) == IF face \in {"up", "down"} THEN 2 ELSE 1

(* Mutant: the view's side is decided by its facing. *)
IsFrontByFacing(v, face, s, t) ==
  IF face \in {"up", "left"} THEN t[Axis(face)] < s[Axis(face)] ELSE t[Axis(face)] > s[Axis(face)]

is_front(v, face, s, t) ==
  LET a == Axis(face) IN IF v[a] <= s[a] THEN t[a] < s[a] ELSE t[a] > s[a]

(* Mutant: a view level with the source is put on the other side of it.    *)
IsBackBelow(v, face, s, t) ==
  LET a == Axis(face) IN IF v[a] < s[a] THEN t[a] > s[a] ELSE t[a] < s[a]

is_back(v, face, s, t) ==
  LET a == Axis(face) IN IF v[a] <= s[a] THEN t[a] > s[a] ELSE t[a] < s[a]

----------------------------------------------------------------------------
(* Scenes: the view is walked through the grid by turns and single steps. *)

Points == Coordinate \X Coordinate

SceneInit == position \in Points /\ direction \in Face /\ source \in Points /\ target \in Points

TurnRight == direction' = turn_right(direction) /\ UNCHANGED <<position, source, target>>
TurnLeft == direction' = turn_left(direction) /\ UNCHANGED <<position, source, target>>
TurnBack == direction' = turn_back(direction) /\ UNCHANGED <<position, source, target>>

(* Bound: the walk stays on the grid. *)
MoveForward ==
  /\ position' = <<position[1] + go_straight(direction)[1], position[2] + go_straight(direction)[2]>>
  /\ position' \in Points
  /\ UNCHANGED <<direction, source, target>>

SceneNext == TurnRight \/ TurnLeft \/ TurnBack \/ MoveForward

SceneSpec == SceneInit /\ [][SceneNext]_sceneVars

----------------------------------------------------------------------------
(* Properties *)

(* How far t lies from s in the direction of a face. *)
Along(face, s, t) == go_straight(face)[1] * (t[1] - s[1]) + go_straight(face)[2] * (t[2] - s[2])

(* The type of a scene. *)
SceneTypeOK == position \in Points /\ direction \in Face /\ source \in Points /\ target \in Points

(* The sides agree with walking: what is to the right is what lies ahead    *)
(* after turn_right, so a chain of turns and a relation never disagree.     *)
SidesFollowTurns ==
  /\ is_right(direction, source, target) <=> Along(turn_right(direction), source, target) > 0
  /\ is_left(direction, source, target) <=> Along(turn_left(direction), source, target) > 0

(* Front means on the view's side of the source and back the far side, for  *)
(* views on either side of it.  A view level with the source has one side   *)
(* too, though the axis and not the scene says which: what is off the       *)
(* source's line is in front or behind, never both; and turning around      *)
(* takes nothing from the front to the back, level or not.                  *)
DepthIsFromTheView ==
  LET near == Along(direction, source, position)
      t == Along(direction, source, target)
      front(face) == is_front(position, face, source, target)
      back(face) == is_back(position, face, source, target)
  IN  /\ near # 0 => /\ front(direction) <=> (t > 0 <=> near > 0) /\ t # 0
                     /\ back(direction) <=> (t < 0 <=> near > 0) /\ t # 0
      /\ ~(front(direction) /\ back(direction)) /\ (t # 0 <=> front(direction) \/ back(direction))
      /\ front(turn_back(direction)) <=> front(direction)
      /\ back(turn_back(direction)) <=> back(direction)

(* Right and left never hold together, and exactly an object level with the *)
(* source across the view is in neither.                                    *)
SidesExclude ==
  LET right == is_right(direction, source, target)
      left == is_left(direction, source, target)
  IN  ~(right /\ left) /\ (Along(turn_right(direction), source, target) = 0 <=> ~right /\ ~left)

(* The same for front and back, along the view's axis.                      *)
DepthExcludes ==
  LET front == is_front(position, direction, source, target)
      back == is_back(position, direction, source, target)
  IN  ~(front /\ back) /\ (Along(direction, source, target) = 0 <=> ~front /\ ~back)

(* Two opposite relations never hold together, and only an object level     *)
(* with the source is in neither.                                           *)
OppositesExclude == SidesExclude /\ DepthExcludes
=============================================================================

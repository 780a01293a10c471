SPECIFICATION SceneSpec
CONSTANT Coordinate = {0, 1, 2}
INVARIANTS DepthIsFromTheView

SPECIFICATION Spec
CONSTANTS
  None = None
  Hash = {h1, h2, h3}
INVARIANTS DestroysOnlyTheBase FavoursNeitherSide SkipsOnlySettledPaths

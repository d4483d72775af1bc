SPECIFICATION Spec
CONSTANTS
  KMax = 4
  KTile = 2
  Workers = {0, 1, 2, 3}
  Scenes <- MCScenes
  Sizes <- MCSizes
  Papers <- MCPapers
INVARIANTS
  TypeOK
  QueueHoldsScene
  LayersStack
  CanvasStaysOpaque
  LinesAreStraight
  CirclesAreClosed
  OutlineIsRing
  BlendsOnce
PROPERTIES
  ImplementsPainter
CHECK_DEADLOCK FALSE

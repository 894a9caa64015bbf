SPECIFICATION Spec
CONSTANTS
  DrawerHeight = 4
  Height = 5
  TouchSlop = 1
  MaxFiles = 2
  MaxResumes = 3
  MaxClicks = 2
  MaxSessions = 3
  OverDistance = 2
  MaxOffset = 2
  MaxDrag = 3
INVARIANTS
  DrawerSettles
  ContentSettlesUnlessInterrupted
  CameraOpensOnce
  PhotoComesBack
  DialogGoesUnlessBroken
  OneDetailPerClick
  LoadSeesWholeModel
  DragSettlesUnlessCancelled
  DraggedOnlyAtItsEnd
CHECK_DEADLOCK FALSE

SPECIFICATION Spec
CONSTANTS
  Rigs <- Bench
  Dialogs <- Careful
  Busy = FALSE
  MaxChanges = 3
  MaxStalls = 1
INVARIANT PictureIsWhole ScreenIsCurrent
PROPERTY PresentsAreTaken PresentReturns

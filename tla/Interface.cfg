SPECIFICATION Spec
CONSTANTS
  Tests = 3
  Window = 6
  PageLines = 2
  Descs <- MCDescs
  Details <- MCDetails
  Narrating = {2}
  Outputs = {"desk", "page"}
  Buttons = {"A", "B"}
  Leds <- MCLeds
  MaxCount = 2
  MaxMoves = 3
  Boards <- Fleet
INVARIANTS SoundIsTheDialogs DesktopIsTrue PanelsAreTrue

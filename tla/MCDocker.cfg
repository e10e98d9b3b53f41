SPECIFICATION Spec
CONSTANTS
  Img1 = Img1
  Img2 = Img2
  Blank = Blank
  Specs <- MCSpecs
  Injected <- MCInjected
  Foreign <- MCForeign
  ContainerIds <- MCIds
  MaxFaults = 2
  MaxTouches = 1
  MaxEdits = 1
  MaxCrashes = 1
PROPERTIES TakesDownOnlyDrifted ReadyIsTrue Converges
CHECK_DEADLOCK FALSE

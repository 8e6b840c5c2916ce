SPECIFICATION Spec
CONSTANTS
  Countries <- MCCountries
  Items <- MCItems
  Modules <- MCModules
  Sliders <- MCSliders
  SliderValue <- MCSliderValue
  MaxChosen = 2
  MaxReturns = 1
  StartPoints = 12
INVARIANT MismatchesCost
CHECK_DEADLOCK FALSE

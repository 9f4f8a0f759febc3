SPECIFICATION Spec
CONSTANTS
  Lens = {1, 2, 5}
  Sizes = {0, 2, 4}
  HardLimit = 3
  MaxSent = 9
INVARIANTS WholeMessages NoMessageWaits
PROPERTIES DropsOnlyTooLong OverflowIsFinal

SPECIFICATION Spec
CONSTANTS
  MaxConnects = 2
  MaxAccepts = 1
  MaxListens = 2
INVARIANTS TypeOK IndicationsExpected NoDanglingProxy AssertionsKept
CHECK_DEADLOCK FALSE

SPECIFICATION UnhurriedSpec
CONSTANTS
  Plain = {"/", "models"}
  Overview = "/"
  MaxNav = 1
  None = None
INVARIANTS
  PageStandsAlone
CHECK_DEADLOCK FALSE

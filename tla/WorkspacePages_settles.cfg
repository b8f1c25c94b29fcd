SPECIFICATION FairSpec
CONSTANTS
  Plain = {"/", "models"}
  Overview = "/"
  MaxNav = 2
  None = None
INVARIANTS
  TypeOK
  HiddenIsMarked
  SettledView
  OneLinkEach
PROPERTIES
  PlainComesBack
  PageAppears
  SidebarGetsItsLinks
CHECK_DEADLOCK FALSE

SPECIFICATION FairSpec
CONSTANTS
  Inputs = {"mouse"}
  Media = {"audio"}
  MaxQueue = 2
INVARIANTS PermissionsAgree SilentWhenOff
PROPERTY ControlIsWithdrawn
CHECK_DEADLOCK FALSE

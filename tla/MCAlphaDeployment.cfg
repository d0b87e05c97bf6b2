SPECIFICATION Spec
CONSTANTS
  Zero = Zero
  Other = Other
  DemoPools = {"daiDemoPool"}
  MaxChanges = 4
INVARIANTS RolesFollowDeployment NextStepIsOpen
CHECK_DEADLOCK FALSE

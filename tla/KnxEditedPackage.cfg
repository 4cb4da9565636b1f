SPECIFICATION Spec
CONSTANTS
  p1 = p1
  p2 = p2
  old = old
  new = new
  kept = kept
  None = None
  Edit = Edit
  Project = {p1, p2}
  Entity = {old, new, kept}
  EntitiesOf <- MCEntitiesOf
  AddressOf <- MCAddressOf
  OwnFile = FALSE
  MaxDeploys = 3
  MaxCrashes = 1
  MaxFaults = 1
  MaxDisturbances = 1
INVARIANT ModifiedPackageRejected
CHECK_DEADLOCK FALSE

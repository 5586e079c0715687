SPECIFICATION FairSpec
CONSTANTS
  Users = {alice, bob}
  Other = other
  MaxIDs = 5
  MaxVersion = 3
  MaxEdits = 1
  MaxFaults = 1
INVARIANTS AppliedIsServed
PROPERTIES ForeignUntouched Converges

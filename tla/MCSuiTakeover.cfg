SPECIFICATION FairSpec
CONSTANTS
  Users = {alice, bob}
  Other = other
  MaxIDs = 5
  MaxVersion = 3
  MaxEdits = 0
  MaxFaults = 0
PROPERTY UnmanagedUntouched

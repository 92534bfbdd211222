\* Three releases of a schema each, the second broken, two archives, two crashes.
CONSTANTS
  Releases = {1, 2, 3}
  SchemaOf <- MCSchemaOf
  Broken = {2}
  Updaters = {"server", "cli"}
  Archives = {1, 3}
  MaxCrashes = 2
SPECIFICATION FairSpec
INVARIANTS DatabaseFitsRelease RestoreIsConsumed
PROPERTIES UpdateIsDecided GoesBackRestored

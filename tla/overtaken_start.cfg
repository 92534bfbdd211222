\* Two updates, of which the second is prepared while the first release starts.
CONSTANTS
  Releases = {1, 2, 3}
  SchemaOf <- MCSchemaOf
  Broken = {}
  Updaters = {"cli"}
  Archives = {}
  MaxCrashes = 0
SPECIFICATION FairSpec
PROPERTIES RejectedIsRolledBack

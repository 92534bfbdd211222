\* Two updates from the command line, of which the second is overtaken by a start.
CONSTANTS
  Releases = {1, 2, 3}
  SchemaOf <- MCSchemaOf
  Broken = {}
  Updaters = {"cli"}
  Archives = {}
  MaxCrashes = 0
SPECIFICATION Spec
INVARIANT SchemaGuardHolds

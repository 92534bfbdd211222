\* One update, by the serving process, to a release that does not start.
CONSTANTS
  Releases = {1, 2}
  SchemaOf <- MCSchemaOf
  Broken = {2}
  Updaters = {"server"}
  Archives = {}
  MaxCrashes = 0
SPECIFICATION FairSpec
PROPERTIES BrokenIsRolledBack

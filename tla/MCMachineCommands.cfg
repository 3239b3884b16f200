CONSTANTS
  Keys = {1, 2}
  Data = {"old", "new"}
  Aliases = {"data", "info"}
  ArtStorage <- MCArtStorage
  Processes = {"first", "second"}
  Paths = {"base", "./base", "donor", "mid", "out"}
  FileOf <- MCFileOf
  Commands <- MCCommands
  OnDisk <- MCOnDisk
SPECIFICATION CommandSpec
INVARIANT CommandTypeOK
PROPERTIES WholeFilesStay  ReplaceAddsNothing
CHECK_DEADLOCK FALSE

\* Every sequence of five commands by hand, with a failing write among them
\* or the script's, before, between and after runs of the build script.
CONSTANTS
  Apks <- MCApks
  FileOf <- MCFileOf
  MaxCommands = 5
  MaxFaults = 1
SPECIFICATION Spec
INVARIANT BundleCoherent
INVARIANT ScaffoldServes
INVARIANT PhdrsDescribeImage
INVARIANT TablesRead

CONSTANTS
  InitialFiles <- MCInitialFiles
  MaxKeys = 3
SPECIFICATION Spec
INVARIANTS StartsWithWholePair IdentityKept
PROPERTY ForeignFileKept

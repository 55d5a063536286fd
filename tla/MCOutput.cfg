CONSTANTS
  MaxFiles = 2
  Failing = {"fopen", "unlink", "symlink", "fclose"}
SPECIFICATION Spec
INVARIANTS TypeOK LinkNamesFinished FromThisRound RoundPublished
PROPERTIES Recovers

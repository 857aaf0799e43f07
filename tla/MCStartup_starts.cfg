\* Both may die, and be started again, at any time.
CONSTANTS
    daemon = daemon
    command = command
    Process = {daemon, command}
    Release <- Releases
SPECIFICATION SeededSpec
INVARIANTS VersionMeansSchema
PROPERTIES StartsSucceed

SPECIFICATION LiveSpec
CONSTANTS
    old = old
    new = new
    Nobody = Nobody
    Runners <- MCRunners
    N = 3
    Version <- MCVersion
    Compiled <- MCCompiled
    Checksum <- MCChecksum
    Irreversible <- MCIrreversible
    Commands <- MCCommands
    LockKinds = {TRUE, FALSE}
    MaxLeases = 3
    MaxFaults = 2
INVARIANTS DriftBounded RunsAreSound
PROPERTIES CheckpointsAreSound LockReleased
CHECK_DEADLOCK FALSE

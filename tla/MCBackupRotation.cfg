\* A rotation that fails half way may take the last recovery point.
SPECIFICATION BackupSpec
CONSTANTS
    MaxDay = 2
    Retention = 1
    MaxFaults = 1
INVARIANT RecoveryPointAlways
CHECK_DEADLOCK FALSE

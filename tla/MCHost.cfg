\* The backup ends when the last slot has come and the faults are used up.
SPECIFICATION HostSpec
CONSTANTS
    MaxWrites = 2
    MaxDay = 2
    Retention = 1
    MaxFaults = 2
    Limit = 2
    Text = {t1, t2}
    None = None
INVARIANTS DowntimeIsKept TwoWritersOnlyByLoss RecoveryPointKept VectorsAreExplained WithdrawalStopsTheBatch
PROPERTIES NothingAcceptedIsLost NoWayBackAfterTraffic LostLeaseStops LossIsNoticed BackupIsNotDelayed
CHECK_DEADLOCK FALSE

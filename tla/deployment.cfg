\* One fault, two calls of the backup that keeps one.
SPECIFICATION DeploymentSpec
CONSTANTS
    l1 = l1
    None = None
    Logs = {l1}
    MaxFaults = 1
    Nothing = Nothing
    Keep = 1
    MaxBackups = 2
    MaxWrites = 4
INVARIANTS
    DeploymentTypeOK
    StatusTruthful
    LogsSafe
    BackupStands
CHECK_DEADLOCK FALSE

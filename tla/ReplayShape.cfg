SPECIFICATION VerdictSpec
CONSTANTS
    Documents = {"definition", "measurement"}
    Fingerprints = "definition"
    Kinds = {"RESOURCE_ANALYSIS", "DRIFT_ANALYSIS"}
CHECK_DEADLOCK FALSE
INVARIANTS
    NoDifferenceIsEqual

SPECIFICATION Spec
CONSTANTS
    Runs = {"run1", "run2"}
    Leases = {"own", "other", "unnamed"}
    For <- Owner
    Named = {"own", "other"}
    Grants <- Assignments
    None = None
INVARIANTS TypeOK Isolated TenantStays
PROPERTIES Separated

CONSTANTS
    Task = {t1, t2, t3}
    Node = {"root", "f", "fx", "fxy", "g", "gx", "n", "ny"}
    vfs_root = "root"
    Name = {"x", "y"}
    Child <- Entries
    Path <- Paths
    LocalRoot = {"f", "g", "n"}
    File = {"fxy"}
    t1 = t1
    t2 = t2
    t3 = t3
    May <- Roles
    NULL = "none"
SPECIFICATION Spec
INVARIANTS NodesExclusive LookupAtOneMoment
CHECK_DEADLOCK FALSE

SPECIFICATION Spec
CONSTANTS
    None = None
    Gone = Gone
    Writers = {w1}
    Snapshots = {1, 2}
    Rows = {r1}
    Objects = {o1}
    Fragile = {}
    Times = {1}
    Keeps = {1}
    Operations = {"full", "incremental", "compact", "prune", "delete"}
    RestoreModes = {"EmptyDatabase", "DryRun"}
INVARIANTS RestoreExact ProgressHonest
PROPERTIES StaysRestorable

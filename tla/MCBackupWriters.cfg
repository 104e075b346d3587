SPECIFICATION Spec
CONSTANTS
    None = None
    Gone = Gone
    Writers = {w1, w2}
    Snapshots = {1, 2, 3}
    Rows = {r1}
    Objects = {o1}
    Fragile = {o1}
    Times = {1}
    Keeps = {1}
    Operations = {"full", "incremental", "compact", "prune"}
    RestoreModes = {}
SYMMETRY WriterSymmetry
INVARIANTS SingleWriter SnapshotsFaithful
PROPERTIES StaysRestorable

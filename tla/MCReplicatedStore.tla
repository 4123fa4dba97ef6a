------------------------- MODULE MCReplicatedStore -------------------------
\* Small instances of ReplicatedStore: two or three nodes, two or three calls.
EXTENDS StoreClaims, TLC

CONSTANTS p1, f1, j1, d1

PostJob   == [type |-> "add_print_job", id |-> j1, printer |-> p1,
              filament |-> f1, weight |-> 1, status |-> Unset]
StartJob  == [type |-> "update_print_job_status", id |-> j1, status |-> "Running"]

\* The order of these two shows in the database.
PostAndStart  == {PostJob, StartJob}
OnlyStart     == {StartJob}
MCPrinters    == {p1}
MCFilaments   == {f1}
MCJobs        == {j1}
MCDetails     == {d1}
MCWeights     == {1}

Symmetry == Permutations(Nodes) \cup Permutations(Requests)
============================================================================

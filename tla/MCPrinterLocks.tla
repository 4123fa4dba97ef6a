--------------------------- MODULE MCPrinterLocks ---------------------------
\* Two jobs on one roll, a handful of commands and two concurrent GETs.
EXTENDS PrinterLocks, TLC

CONSTANTS p1, f1, j1, j2

Post(j)      == [type |-> "add_print_job", id |-> j, printer |-> p1,
                 filament |-> f1, weight |-> 1, status |-> Unset]
Move(j, s)   == [type |-> "update_print_job_status", id |-> j, status |-> s]

MCCommands   == {[type |-> "add_filament", id |-> f1, remaining |-> 1],
                 Post(j1), Post(j2), Move(j1, "Running"), Move(j1, "Done")}
MCPrinters   == {p1}
MCFilaments  == {f1}
MCJobs       == {j1, j2}
MCDetails    == {"details"}
MCWeights    == {1}

Symmetry == Permutations(Readers)
=============================================================================

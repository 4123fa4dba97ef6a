--------------------------- MODULE MCLeaderWatch ---------------------------
\* One interval is the unit of time.
EXTENDS LeaderWatch
=============================================================================

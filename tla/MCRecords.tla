----------------------------- MODULE MCRecords -----------------------------
EXTENDS Records

Every == AllEvents
Failing == AllFailures
=============================================================================

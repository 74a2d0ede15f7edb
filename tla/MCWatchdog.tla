----------------------------- MODULE MCWatchdog -----------------------------
EXTENDS Watchdog

Every == AllEnds
Any == AllCalls
=============================================================================

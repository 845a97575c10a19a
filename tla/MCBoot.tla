------------------------------- MODULE MCBoot -------------------------------
\* Three rows of the snapshot: an ETF of the board, two funds.
EXTENDS Boot

CONSTANTS web, worker, fundSync, etfSync, etf, f1, f2
Snapshot == <<etf, f1, f2>>
SyncOf == [r \in {etf, f1, f2} |-> IF r = etf THEN etfSync ELSE fundSync]
=============================================================================

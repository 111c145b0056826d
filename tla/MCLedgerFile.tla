---------------------------- MODULE MCLedgerFile ---------------------------
EXTENDS LedgerFile
=============================================================================

------------------------------ MODULE MCBgJobs ------------------------------
EXTENDS BgJobs, TLC
=============================================================================

---------------------------- MODULE MCLiveCard -----------------------------
EXTENDS LiveCard
=============================================================================

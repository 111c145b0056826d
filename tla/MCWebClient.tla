---------------------------- MODULE MCWebClient ----------------------------
EXTENDS WebClient, TLC
=============================================================================

---------------------------- MODULE MCAcpOutput ----------------------------
EXTENDS AcpOutput, TLC
=============================================================================

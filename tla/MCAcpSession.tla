---------------------------- MODULE MCAcpSession ----------------------------
(* A small instance of AcpSession for TLC.  Turns are interchangeable: no  *)
(* definition names one of them.                                           *)
EXTENDS AcpSession, TLC

AnyTurn == Permutations(Turns)
=============================================================================

--------------------------- MODULE MCNotifyServer ---------------------------
(* Instances of NotifyServer for TLC.                                      *)
EXTENDS NotifyServer

CONSTANTS h1, w1, w2
=============================================================================

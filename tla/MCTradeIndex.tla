---------------------------- MODULE MCTradeIndex ----------------------------
(* Three concurrent calls against a small history of earlier installations. *)
EXTENDS TradeIndex

CONSTANTS c1, c2, c3

MCCalls == {c1, c2, c3}
MCDaemonUsed == {1, 3}

\* No restore before this installation.
MCNoAnswers == {}
=============================================================================

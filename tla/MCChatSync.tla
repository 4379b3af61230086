------------------------------ MODULE MCChatSync ------------------------------
(* A message of the counterpart, one of ours and one of the solver.           *)
EXTENDS ChatSync

Msg(at, s, mine) == [at |-> at, scope |-> s, mine |-> mine]

MCMessages == {Msg(1, "order", FALSE), Msg(2, "order", TRUE), Msg(3, "dispute", FALSE)}
MCBackends == {"sqlite", "indexeddb"}
=============================================================================

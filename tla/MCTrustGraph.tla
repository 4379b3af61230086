---------------------------- MODULE MCTrustGraph ----------------------------
(* Small instances of TrustGraph: R and a may trust each other. *)
EXTENDS TrustGraph

CONSTANTS R, a, b, r1, r2

Key(u, v) == <<u, v, "market">>
Rev(at, weight, hint) == [at |-> at, weight |-> weight, hint |-> hint, expires |-> FALSE]

MCKeys == {Key(R, a), Key(a, R)}
MCPlanned ==
    [k \in MCKeys |->
        IF k = Key(a, R) THEN {[Rev(1, 30, r1) EXCEPT !.expires = TRUE]} ELSE {}]
\* a publishes its trust in R and takes it back, as revokeAttestation does
\* when it is given no hint.
MCRevoked ==
    [k \in MCKeys |-> IF k = Key(a, R) THEN {Rev(1, 30, r1), Rev(2, 0, NoHint)} ELSE {}]
MCSeeds == {}
=============================================================================

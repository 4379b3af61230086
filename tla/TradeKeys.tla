------------------------------ MODULE TradeKeys ------------------------------
(***************************************************************************)
(* What the client promises about trade keys: "every trade gets a fresh     *)
(* trade key at a strictly-increasing index" (keys.ts:6).  Index 0 is the   *)
(* identity key and stands for "no key yet".                                *)
(***************************************************************************)
EXTENDS Naturals

CONSTANT Calls

\* The index each call was given.
VARIABLE index

Init == index = [c \in Calls |-> 0]

Issue(c) ==
    /\ index[c] = 0
    /\ \A d \in Calls : index[d] < index'[c]
    /\ index' = [index EXCEPT ![c] = index'[c]]

Next == \E c \in Calls : Issue(c)

Spec == Init /\ [][Next]_index
=============================================================================

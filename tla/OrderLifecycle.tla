---------------------------- MODULE OrderLifecycle ----------------------------
(***************************************************************************)
(* What the client promises about the status it stores for an order,        *)
(* without saying who writes it, in how many steps or from which message:   *)
(* a trade only moves forward through its phases, a finished trade stays    *)
(* finished, and the single way back is a payout that is retried.           *)
(***************************************************************************)
EXTENDS StatusMachine

CONSTANT Orders

\* The status stored for each order; NoStatus before anything is stored.
VARIABLE status

\* The phases, whatever the kind of the order: opening, funding, trading,
\* fiat sent, settled, disputed, finished.
Phase(s) ==
    CASE s = NoStatus                                                   -> 0
      [] s \in {"pending", "waiting-taker-bond", "waiting-maker-bond"}  -> 1
      [] s \in {"waiting-payment", "waiting-buyer-invoice"}             -> 2
      [] s \in {"in-progress", "active"}                                -> 3
      [] s = "fiat-sent"                                                -> 4
      [] s = "settled-hold-invoice"                                     -> 5
      [] s = "dispute"                                                  -> 6
      [] OTHER                                                          -> 7

PayoutRetried(s, t) == s = "success" /\ t = "settled-hold-invoice"

CanFollow(s, t) ==
    \/ s \notin TerminalStatuses /\ Phase(s) =< Phase(t)
    \/ PayoutRetried(s, t)

Init == status = [o \in Orders |-> NoStatus]

Advance(o, t) ==
    /\ CanFollow(status[o], t)
    /\ status' = [status EXCEPT ![o] = t]

Next == \E o \in Orders, t \in Statuses : Advance(o, t)

Spec == Init /\ [][Next]_status
=============================================================================

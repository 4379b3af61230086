---------------------------- MODULE StatusMachine ----------------------------
(***************************************************************************)
(* The status graph of an order and what a Mostro direct message (DM) says  *)
(* about it: src/protocol/stateMachine.ts and the pure half of              *)
(* src/protocol/applicator.ts.  Statuses and actions keep their wire names. *)
(***************************************************************************)
EXTENDS Integers

\* null: no status, no order kind.
NoStatus == "null"
NoKind == "null"

Kinds == {"buy", "sell"}

TerminalStatuses ==
    {"canceled", "canceled-by-admin", "settled-by-admin", "completed-by-admin",
     "expired", "cooperatively-canceled", "success"}

LiveStatuses ==
    {"pending", "waiting-taker-bond", "waiting-maker-bond", "waiting-payment",
     "waiting-buyer-invoice", "in-progress", "active", "fiat-sent",
     "settled-hold-invoice", "dispute"}

Statuses == TerminalStatuses \cup LiveStatuses

\* Orders in these statuses are not tracked again at start-up: success is left
\* out on purpose, so that DMs that follow it still reach the row.
TerminalDmStatuses == TerminalStatuses \ {"success"}

-----------------------------------------------------------------------------

NoRank == -1

\* The phase of a status; the kind of the order decides which of the two
\* waiting phases comes first.
StatusPhaseRank(s, kind) ==
    CASE s \in {"pending", "waiting-taker-bond", "waiting-maker-bond"} -> 0
      [] s = "waiting-payment" /\ kind = "buy"        -> 1
      [] s = "waiting-payment" /\ kind = "sell"       -> 2
      [] s = "waiting-buyer-invoice" /\ kind = "sell" -> 1
      [] s = "waiting-buyer-invoice" /\ kind = "buy"  -> 2
      [] s \in {"in-progress", "active"}              -> 3
      [] s = "fiat-sent"                              -> 4
      [] s = "settled-hold-invoice"                   -> 5
      [] s = "dispute"                                -> 6
      [] s = "success"                                -> 7
      [] OTHER                                        -> NoRank

\* The DM that reports a failed payout and asks for another invoice: the one
\* message that may take an order out of success.
ReopensForPayout(current, candidate, action) ==
    /\ action = "add-invoice"
    /\ current = "success"
    /\ candidate = "settled-hold-invoice"

\* A guard that forgets that terminal statuses are sticky.
ForgetsTerminal(current, candidate, kind, action) ==
    \/ current \in {NoStatus, candidate}
    \/ candidate \in TerminalStatuses
    \/ current \in TerminalStatuses
    \/ StatusPhaseRank(candidate, kind) >= StatusPhaseRank(current, kind)

\* A guard that refuses to skip a phase (a DM that overtakes another is lost).
RefusesToSkipPhases(current, candidate, kind, action) ==
    \/ current \in {NoStatus, candidate}
    \/ /\ current \notin TerminalStatuses
       /\ StatusPhaseRank(current, kind) # NoRank
       /\ StatusPhaseRank(candidate, kind) - StatusPhaseRank(current, kind) \in {0, 1}

\* May a DM with this action take an order of this kind from current to
\* candidate?
ShouldApplyStatusTransition(current, candidate, kind, action) ==
    \/ current \in {NoStatus, candidate}
    \/ ReopensForPayout(current, candidate, action)
    \/ /\ current \notin TerminalStatuses
       /\ \/ candidate \in TerminalStatuses
          \/ /\ StatusPhaseRank(current, kind) # NoRank
             /\ StatusPhaseRank(candidate, kind) >= StatusPhaseRank(current, kind)

-----------------------------------------------------------------------------

\* The status an action implies when the DM carries no order snapshot.
InferredStatusFromTradeAction(action) ==
    CASE action = "canceled"                                       -> "canceled"
      [] action = "cooperative-cancel-accepted"                    -> "cooperatively-canceled"
      [] action \in {"waiting-buyer-invoice", "add-invoice"}       -> "waiting-buyer-invoice"
      [] action \in {"waiting-seller-to-pay", "pay-invoice"}       -> "waiting-payment"
      [] action = "pay-bond-invoice"                               -> "waiting-taker-bond"
      [] action = "admin-canceled"                                 -> "canceled-by-admin"
      [] action = "fiat-sent-ok"                                   -> "fiat-sent"
      [] action \in {"release", "released",
                     "hold-invoice-payment-settled"}               -> "settled-hold-invoice"
      [] action = "purchase-completed"                             -> "success"
      [] action \in {"dispute-initiated-by-you",
                     "dispute-initiated-by-peer"}                  -> "dispute"
      [] OTHER                                                     -> NoStatus

\* The actions whose payload carries an order snapshot the applicator reads.
SnapshotActions ==
    {"add-invoice", "buyer-took-order", "hold-invoice-payment-accepted",
     "new-order", "pay-invoice", "pay-bond-invoice", "add-bond-invoice"}

\* The status a DM proposes: the one of its snapshot first, then the one its
\* action implies.  A cant-do proposes nothing.
ResolvedStatusCandidate(action, snapshotStatus) ==
    CASE action = "cant-do"          -> NoStatus
      [] action # "cant-do" /\ snapshotStatus # NoStatus -> snapshotStatus
      [] OTHER                       -> InferredStatusFromTradeAction(action)
=============================================================================

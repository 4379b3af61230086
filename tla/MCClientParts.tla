---------------------------- MODULE MCClientParts ----------------------------
(***************************************************************************)
(* Four parts of the client that share no state, each explored alone.      *)
(***************************************************************************)
EXTENDS Exchange, ChatEnvelope, OrderTrust, Encryptor

CONSTANTS buyer, seller, solver, server1, server2

VARIABLE part   \* the part of this behaviour

MCTradeKeys == <<"trade1", "trade2">>

\* The seller's client uses one of the two servers.
MCServersOf == [p \in Parties |-> IF p = seller THEN <<server1>> ELSE <<server1, server2>>]

Init ==
    /\ part \in {"exchange", "chat", "trust", "encryptor"}
    /\ ExchangeInit
    /\ IF part = "chat" THEN ChatInit
       ELSE /\ time = 0 /\ ahead = [p \in Parties |-> 0] /\ chats = <<>> /\ blobs = {}
            /\ reading = NoFile /\ download = NoFile
    /\ TrustInit
    /\ IF part = "encryptor" THEN EncryptorInit
       ELSE /\ cached = [salt |-> NoSalt, key |-> NoSalt] /\ salts = 1 /\ column = {}
            /\ call = [c \in Calls |-> Idle]

Next ==
    /\ UNCHANGED part
    /\ \/ part = "exchange" /\ ExchangeNext /\ UNCHANGED <<chatVars, trustVars, encryptorVars>>
       \/ part = "chat" /\ ChatNext /\ UNCHANGED <<exchangeVars, trustVars, encryptorVars>>
       \/ part = "trust" /\ TrustNext /\ UNCHANGED <<exchangeVars, chatVars, encryptorVars>>
       \/ part = "encryptor" /\ EncryptorNext /\ UNCHANGED <<exchangeVars, chatVars, trustVars>>

Spec == Init /\ [][Next]_<<part, exchangeVars, chatVars, trustVars, encryptorVars>>
=============================================================================

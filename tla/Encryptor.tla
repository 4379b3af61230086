------------------------------ MODULE Encryptor ------------------------------
(***************************************************************************)
(* The store's field encryptor (protocol/encryption.ts): calls that run     *)
(* side by side share one cached pair of salt and key, and each gives way   *)
(* to the others while argon2 derives a key and before it uses the pair.    *)
(* close() is left out: no caller in the library has it overlap with a call.*)
(***************************************************************************)
EXTENDS Integers

CONSTANTS
    Calls,      \* calls of encryptUtf8 and decryptToUtf8
    NoSalt,     \* nothing cached, and a call that has no envelope
    MaxSalts    \* bound on the salts that are drawn, 0 included

ASSUME EncryptorAssumption == MaxSalts \in Nat /\ NoSalt \notin 0..MaxSalts

VARIABLES
    cached,     \* [salt, key]; the key is the salt it was derived with
    salts,      \* the next salt that is drawn
    column,     \* the envelopes in the store: [salt, key]
    call        \* where each call is, and the envelope it is at

encryptorVars == <<cached, salts, column, call>>

Idle == [at |-> "idle", salt |-> NoSalt, key |-> NoSalt]
Derived(salt) == [salt |-> salt, key |-> salt]

\* An envelope of an earlier session may be there.
EncryptorInit ==
    /\ cached = [salt |-> NoSalt, key |-> NoSalt] /\ salts = 1
    /\ column \in {{}, {Derived(0)}}
    /\ call = [c \in Calls |-> Idle]

Goes(c, at, salt, key) == call' = [call EXCEPT ![c] = [at |-> at, salt |-> salt, key |-> key]]

\* keyFor(null): with nothing cached a salt is drawn and its key derived.
BeginEncrypt(c) ==
    /\ call[c].at = "idle"
    /\ IF cached.salt # NoSalt
       THEN Goes(c, "encrypt", NoSalt, cached.key) /\ UNCHANGED salts
       ELSE salts <= MaxSalts /\ salts' = salts + 1 /\ Goes(c, "derive", salts, NoSalt)
    /\ UNCHANGED <<cached, column>>

\* argon2 is done; whatever was cached meanwhile is replaced.
KeyForEncrypt(c) ==
    /\ call[c].at = "derive"
    /\ cached' = Derived(call[c].salt)
    /\ Goes(c, "encrypt", NoSalt, call[c].salt)
    /\ UNCHANGED <<salts, column>>

\* The key that keyFor returned, with the salt that is cached by now.
EncryptsWithOwnKey(c) ==
    /\ call[c].at = "encrypt"
    /\ column' = column \cup {[salt |-> cached.salt, key |-> call[c].key]}
    /\ Goes(c, "idle", NoSalt, NoSalt)
    /\ UNCHANGED <<cached, salts>>

\* ensureCache returns the pair that is cached by now.
Encrypt(c) ==
    /\ call[c].at = "encrypt"
    /\ column' = column \cup {cached}
    /\ Goes(c, "idle", NoSalt, NoSalt)
    /\ UNCHANGED <<cached, salts>>

\* keyFor(salt): the cached key, or one that is derived for the envelope.
BeginDecrypt(c) ==
    /\ call[c].at = "idle"
    /\ \E e \in column :
          Goes(c, IF cached.salt = e.salt THEN "open" ELSE "rederive", e.salt,
               IF cached.salt = e.salt THEN cached.key ELSE NoSalt)
    /\ UNCHANGED <<cached, salts, column>>

KeyForDecrypt(c) ==
    /\ call[c].at = "rederive"
    /\ cached' = Derived(call[c].salt)
    /\ Goes(c, "open", call[c].salt, call[c].salt)
    /\ UNCHANGED <<salts, column>>

Decrypted(c) ==
    /\ call[c].at = "open" /\ Goes(c, "idle", NoSalt, NoSalt)
    /\ UNCHANGED <<cached, salts, column>>

\* A new session: nothing cached, the store as it is.
Reopen ==
    /\ cached' = [salt |-> NoSalt, key |-> NoSalt]
    /\ call' = [c \in Calls |-> Idle]
    /\ UNCHANGED <<salts, column>>

EncryptorNext ==
    \/ Reopen
    \/ \E c \in Calls : \/ BeginEncrypt(c) \/ KeyForEncrypt(c) \/ Encrypt(c)
                        \/ BeginDecrypt(c) \/ KeyForDecrypt(c) \/ Decrypted(c)

\* Whatever calls run side by side, in this session and in later ones, every
\* stored envelope is encrypted under the key of the salt it carries, and a
\* decryption has the key of its envelope.
\* encryption.ts:3 "Envelope: MAGIC | salt(16) | nonce(12) | ciphertext | tag(16)."
EnvelopesOpen ==
    /\ \A e \in column : e.key = e.salt /\ e.salt # NoSalt
    /\ \A c \in Calls : call[c].at = "open" => \E e \in column : e.salt = call[c].salt /\ e.key = call[c].key
=============================================================================

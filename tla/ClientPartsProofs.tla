--------------------------- MODULE ClientPartsProofs ---------------------------
(***************************************************************************)
(* Theorems about the parts of the client that share no state, for every    *)
(* number of calls, parties, servers, events and salts.                     *)
(***************************************************************************)
EXTENDS MCClientParts, FiniteSetTheorems, FunctionTheorems, WellFoundedInduction, TLAPS

-----------------------------------------------------------------------------
(* The field encryptor.  Nothing keeps two calls apart, so the argument is   *)
(* that every pair of a salt and a key there ever is, cached or stored, is   *)
(* of a salt and the key derived with it, and that a call on its way to      *)
(* encrypt finds some such pair.                                            *)

Salts == 0..MaxSalts
CallType == [at   : {"idle", "derive", "encrypt", "open", "rederive"},
             salt : Salts \cup {NoSalt},
             key  : Salts \cup {NoSalt}]

\* What a call has at each of its steps, with this pair cached and these
\* envelopes stored.
CallOK(c, pair, envelopes) ==
    /\ c.at = "derive" => c.salt \in Salts
    /\ c.at = "encrypt" => pair.salt # NoSalt
    /\ c.at \in {"open", "rederive"} => \E e \in envelopes : e.salt = c.salt
    /\ c.at = "open" => c.key = c.salt

\* The inductive invariant.
EncryptorInv ==
    /\ salts \in Nat
    /\ cached \in {Derived(s) : s \in Salts \cup {NoSalt}}
    /\ column \subseteq {Derived(s) : s \in Salts}
    /\ call \in [Calls -> CallType]
    /\ \A c \in Calls : CallOK(call[c], cached, column)

LEMMA EncryptorInitInv == Init => EncryptorInv
<1>. SUFFICES ASSUME Init PROVE EncryptorInv
  OBVIOUS
<1>1. Idle \in CallType /\ Idle.at = "idle"
  BY DEF Idle, CallType
<1>2. 0 \in Salts
  BY EncryptorAssumption DEF Salts
<1>3. cached = Derived(NoSalt) /\ call = [c \in Calls |-> Idle] /\ salts = 1
      /\ column \subseteq {Derived(0)}
  BY DEF Init, EncryptorInit, Derived
<1>. QED  BY <1>1, <1>2, <1>3 DEF EncryptorInv, CallOK

\* A call moves, and what it has is in order; no envelope is lost, and what is
\* cached is replaced at most.
LEMMA CallMoves ==
    ASSUME EncryptorInv, NEW c \in Calls, NEW new \in CallType,
           call' = [call EXCEPT ![c] = new],
           salts' \in Nat,
           cached' \in {Derived(s) : s \in Salts \cup {NoSalt}},
           cached.salt # NoSalt => cached'.salt # NoSalt,
           column \subseteq column', column' \subseteq {Derived(s) : s \in Salts},
           CallOK(new, cached', column')
    PROVE  EncryptorInv'
<1>1. call' \in [Calls -> CallType]
  BY DEF EncryptorInv
<1>2. (\A d \in Calls : CallOK(call[d], cached, column))'
  BY DEF EncryptorInv, CallOK
<1>. QED  BY <1>1, <1>2 DEF EncryptorInv

\* What a pair in order looks like.
LEMMA DerivedPairs ==
    ASSUME EncryptorInv
    PROVE  /\ cached.salt \in Salts \cup {NoSalt} /\ cached.key = cached.salt
           /\ cached = Derived(cached.salt)
           /\ \A e \in column : e.salt \in Salts /\ e.key = e.salt
           /\ \A s \in Salts : s # NoSalt
BY EncryptorAssumption DEF EncryptorInv, Derived, Salts

LEMMA BeginEncryptKeepsInv ==
    ASSUME EncryptorInv, NEW c \in Calls, BeginEncrypt(c)
    PROVE  EncryptorInv'
<1>1. cached.key \in Salts \cup {NoSalt} /\ \A s \in Salts : s # NoSalt
  BY DerivedPairs
<1>2. CASE cached.salt # NoSalt
  <2> DEFINE new == [at |-> "encrypt", salt |-> NoSalt, key |-> cached.key]
  <2>1. new \in CallType /\ CallOK(new, cached', column')
    BY <1>1, <1>2 DEF CallType, CallOK, BeginEncrypt
  <2>2. call' = [call EXCEPT ![c] = new]
    BY <1>2 DEF BeginEncrypt, Goes
  <2> HIDE DEF new
  <2>. QED  BY <1>2, <2>1, <2>2, CallMoves DEF BeginEncrypt, EncryptorInv
<1>3. CASE cached.salt = NoSalt
  <2> DEFINE new == [at |-> "derive", salt |-> salts, key |-> NoSalt]
  <2>1. salts \in Salts /\ salts' \in Nat
    BY <1>3, EncryptorAssumption DEF BeginEncrypt, EncryptorInv, Salts
  <2>2. new \in CallType /\ CallOK(new, cached', column')
    BY <2>1 DEF CallType, CallOK
  <2>3. call' = [call EXCEPT ![c] = new]
    BY <1>3 DEF BeginEncrypt, Goes
  <2> HIDE DEF new
  <2>. QED  BY <2>1, <2>2, <2>3, CallMoves DEF BeginEncrypt, EncryptorInv
<1>. QED  BY <1>2, <1>3

\* A derivation that ends, of either kind, caches the pair of its own salt.
LEMMA KeyForKeepsInv ==
    ASSUME EncryptorInv, NEW c \in Calls, KeyForEncrypt(c) \/ KeyForDecrypt(c)
    PROVE  EncryptorInv'
<1>1. /\ call[c].salt \in Salts /\ call[c].salt # NoSalt
      /\ call[c].at = "rederive" => \E e \in column : e.salt = call[c].salt
  BY DerivedPairs DEF KeyForEncrypt, KeyForDecrypt, EncryptorInv, CallOK
<1>2. cached' = Derived(call[c].salt) /\ cached'.salt = call[c].salt /\ column' = column
  BY DEF KeyForEncrypt, KeyForDecrypt, Derived
<1>3. PICK new \in CallType : call' = [call EXCEPT ![c] = new] /\ CallOK(new, cached', column')
  <2>1. CASE KeyForEncrypt(c)
    <3> DEFINE new == [at |-> "encrypt", salt |-> NoSalt, key |-> call[c].salt]
    <3>1. new \in CallType /\ CallOK(new, cached', column')
      BY <1>1, <1>2 DEF CallType, CallOK
    <3>2. call' = [call EXCEPT ![c] = new]
      BY <2>1 DEF KeyForEncrypt, Goes
    <3>. QED  BY <3>1, <3>2
  <2>2. CASE KeyForDecrypt(c)
    <3> DEFINE new == [at |-> "open", salt |-> call[c].salt, key |-> call[c].salt]
    <3>1. new \in CallType /\ CallOK(new, cached', column')
      BY <1>1, <1>2, <2>2 DEF KeyForDecrypt, CallType, CallOK
    <3>2. call' = [call EXCEPT ![c] = new]
      BY <2>2 DEF KeyForDecrypt, Goes
    <3>. QED  BY <3>1, <3>2
  <2>. QED  BY <2>1, <2>2
<1>. QED  BY <1>1, <1>2, <1>3, CallMoves DEF KeyForEncrypt, KeyForDecrypt, EncryptorInv

LEMMA EncryptKeepsInv ==
    ASSUME EncryptorInv, NEW c \in Calls, Encrypt(c)
    PROVE  EncryptorInv'
<1>1. cached.salt \in Salts /\ cached = Derived(cached.salt)
  BY DerivedPairs DEF Encrypt, EncryptorInv, CallOK
<1> DEFINE new == [at |-> "idle", salt |-> NoSalt, key |-> NoSalt]
<1>2. new \in CallType /\ CallOK(new, cached', column')
  BY DEF CallType, CallOK
<1>3. call' = [call EXCEPT ![c] = new]
  BY DEF Encrypt, Goes
<1> HIDE DEF new
<1>4. column \subseteq column' /\ column' \subseteq {Derived(s) : s \in Salts}
  BY <1>1 DEF Encrypt, EncryptorInv
<1>. QED  BY <1>2, <1>3, <1>4, CallMoves DEF Encrypt, EncryptorInv

LEMMA BeginDecryptKeepsInv ==
    ASSUME EncryptorInv, NEW c \in Calls, BeginDecrypt(c)
    PROVE  EncryptorInv'
<1> DEFINE new(e) == [at   |-> IF cached.salt = e.salt THEN "open" ELSE "rederive",
                      salt |-> e.salt,
                      key  |-> IF cached.salt = e.salt THEN cached.key ELSE NoSalt]
<1>1. PICK e \in column : call' = [call EXCEPT ![c] = new(e)]
  BY DEF BeginDecrypt, Goes
<1>2. e.salt \in Salts /\ cached.key = cached.salt /\ cached.salt \in Salts \cup {NoSalt}
  BY DerivedPairs
<1>3. new(e) \in CallType /\ CallOK(new(e), cached', column')
  BY <1>2 DEF CallType, CallOK, BeginDecrypt
<1> HIDE DEF new
<1>. QED  BY <1>1, <1>3, CallMoves DEF BeginDecrypt, EncryptorInv

LEMMA DecryptedKeepsInv ==
    ASSUME EncryptorInv, NEW c \in Calls, Decrypted(c)
    PROVE  EncryptorInv'
<1> DEFINE new == [at |-> "idle", salt |-> NoSalt, key |-> NoSalt]
<1>1. new \in CallType /\ CallOK(new, cached', column')
  BY DEF CallType, CallOK
<1>2. call' = [call EXCEPT ![c] = new]
  BY DEF Decrypted, Goes
<1> HIDE DEF new
<1>. QED  BY <1>1, <1>2, CallMoves DEF Decrypted, EncryptorInv

LEMMA EncryptorNextKeepsInv ==
    ASSUME EncryptorInv, EncryptorNext
    PROVE  EncryptorInv'
<1>1. CASE Reopen
  <2>1. Idle \in CallType /\ Idle.at = "idle"
    BY DEF Idle, CallType
  <2>2. cached' = Derived(NoSalt) /\ call' = [c \in Calls |-> Idle]
        /\ UNCHANGED <<salts, column>>
    BY <1>1 DEF Reopen, Derived
  <2>. QED  BY <2>1, <2>2 DEF EncryptorInv, CallOK
<1>2. ASSUME NEW c \in Calls,
             \/ BeginEncrypt(c) \/ KeyForEncrypt(c) \/ Encrypt(c)
             \/ BeginDecrypt(c) \/ KeyForDecrypt(c) \/ Decrypted(c)
      PROVE  EncryptorInv'
  BY <1>2, BeginEncryptKeepsInv, KeyForKeepsInv, EncryptKeepsInv, BeginDecryptKeepsInv,
     DecryptedKeepsInv
<1>. QED  BY <1>1, <1>2 DEF EncryptorNext

\* Whatever calls run side by side, a stored envelope is encrypted under the
\* key of the salt it carries, and a decryption has the key of its envelope.
THEOREM EnvelopesOpenHolds == Spec => []EnvelopesOpen
<1>1. EncryptorInv /\ [Next]_<<part, exchangeVars, chatVars, trustVars, encryptorVars>>
         => EncryptorInv'
  <2>1. EncryptorInv /\ UNCHANGED encryptorVars => EncryptorInv'
    BY DEF EncryptorInv, CallOK, encryptorVars
  <2>. QED  BY <2>1, EncryptorNextKeepsInv DEF Next
<1>2. EncryptorInv => EnvelopesOpen
  <2>. SUFFICES ASSUME EncryptorInv PROVE EnvelopesOpen
    OBVIOUS
  <2>1. \A e \in column : e.key = e.salt /\ e.salt # NoSalt
    BY DerivedPairs
  <2>. QED  BY <2>1 DEF EnvelopesOpen, EncryptorInv, CallOK
<1>. QED  BY <1>1, <1>2, EncryptorInitInv, PTL DEF Spec

-----------------------------------------------------------------------------
(* Chat.  An event keeps the keys of the conversation it was written in, and *)
(* those of another conversation differ; a file keeps its key and its size.  *)

\* What two parties may write to each other.
Bodies(p, q) ==
    {Text(<<p, q>>, long) : long \in BOOLEAN}
    \cup {Attachment(server, EncryptBlob(GenerateSharedKey(p, q), size)) :
             server \in Servers, size \in Nat}

Event(p, q, body, t) == WrapChatMessage(p, DeriveChatKeys(p, q), body, t)
Chat(p, q, body, t) == [from |-> p, to |-> q, body |-> body, event |-> Event(p, q, body, t)]

Chats == UNION {{Chat(p, q, body, t) : body \in Bodies(p, q), t \in Nat} :
                   p \in Parties, q \in Parties}

\* A file that was sent stays on the server it went to.
FilesStay ==
    \A n \in DOMAIN chats :
        LET body == chats[n].body
        IN body.server # NoFile => <<body.server, body.blob>> \in blobs

\* The inductive invariant.
ChatInv ==
    /\ time \in Nat
    /\ ahead \in [Parties -> 0..MaxAhead]
    /\ chats \in Seq(Chats)
    /\ FilesStay
    /\ reading # NoFile =>
          reading.chat \in DOMAIN chats /\ reading.who \in Parties /\ reading.peer \in Parties
    /\ download # NoFile => download.chat \in DOMAIN chats
    /\ ChatReadByPeer
    /\ AttachmentOpens

\* A set of naturals has a least element.
LEMMA Least ==
    ASSUME NEW S \in SUBSET Nat, S # {}
    PROVE  \E i \in S : \A j \in S : i <= j
<1>1. PICK i \in S : \A j \in S : ~(<<j, i>> \in OpToRel(<, Nat))
  BY WFMin, NatLessThanWellFounded
<1>2. \A j \in S : j < i => <<j, i>> \in OpToRel(<, Nat)
  BY DEF OpToRel
<1> DEFINE smaller(j) == <<j, i>> \in OpToRel(<, Nat)
<1>3. \A j \in S : ~smaller(j) /\ (j < i => smaller(j))
  BY <1>1, <1>2
<1> HIDE DEF smaller
<1>. QED  BY <1>3

\* A file goes to a server of the sender's, if to any.
LEMMA UploadedSomewhere ==
    ASSUME NEW p \in Parties, NEW failing, UploadBlob(ServersOf[p], failing) # NoFile
    PROVE  UploadBlob(ServersOf[p], failing) \in Servers
<1> DEFINE servers == ServersOf[p]
           taking  == {i \in DOMAIN servers : servers[i] \notin failing}
<1>1. servers \in Seq(Servers)
  BY ChatEnvelopeAssumption
<1>2. taking # {}
  BY DEF UploadBlob
<1>3. \E i \in taking : \A j \in taking : i <= j
  <2>1. taking \in SUBSET Nat
    BY <1>1
  <2> HIDE DEF taking
  <2>. QED  BY <1>2, <2>1, Least
<1>. QED  BY <1>1, <1>2, <1>3 DEF UploadBlob

\* An event opens for the two parties of its conversation and for no others.
Opens(from, to, body, t, p, q, now) ==
    IF {p, q} = {from, to} /\ ~body.long /\ t <= now + MaxSkew
    THEN [content |-> body, sender |-> from] ELSE Refused

LEMMA OpensForBoth ==
    ASSUME NEW p \in Parties, NEW q \in Parties, NEW from \in Parties, NEW to \in Parties,
           NEW body \in Bodies(from, to), NEW t \in Nat, NEW now \in Nat
    PROVE  UnwrapChatMessage(Event(from, to, body, t), DeriveChatKeys(p, q), {p, q}, now)
             = Opens(from, to, body, t, p, q, now)
<1> DEFINE event == Event(from, to, body, t)
           keys  == DeriveChatKeys(p, q)
<1>1. /\ event.pubkey = keys.sign <=> {p, q} = {from, to}
      /\ event.p = keys.conv <=> {p, q} = {from, to}
  BY DEF Event, WrapChatMessage, DeriveChatKeys, GenerateSharedKey
<1>2. /\ event.created_at = t
      /\ event.inner = [pubkey |-> from, created_at |-> t, content |-> body]
      /\ Distance(event.inner.created_at, event.created_at) = 0
  BY DEF Event, WrapChatMessage, Distance
<1>3. MaxSkew \in Nat
  BY ChatEnvelopeAssumption
<1>4. event.inner.content = body /\ event.inner.pubkey = from
  BY <1>2
<1> HIDE DEF event, keys
<1>5. CASE {p, q} = {from, to} /\ ~body.long /\ t <= now + MaxSkew
  <2>1. from \in {p, q}
    BY <1>5
  <2>2. ~(t > now + MaxSkew) /\ ~(0 > MaxSkew)
    BY <1>3, <1>5
  <2>. QED  BY <1>1, <1>2, <1>4, <1>5, <2>1, <2>2 DEF Opens, UnwrapChatMessage, event, keys
<1>6. CASE {p, q} # {from, to}
  BY <1>1, <1>6 DEF Opens, UnwrapChatMessage, event, keys
<1>7. CASE body.long
  BY <1>4, <1>7 DEF Opens, UnwrapChatMessage, event, keys
<1>8. CASE ~(t <= now + MaxSkew)
  BY <1>2, <1>3, <1>8 DEF Opens, UnwrapChatMessage, event, keys
<1>. QED  BY <1>5, <1>6, <1>7, <1>8

\* The events there are.
LEMMA ChatsType ==
    \A c : c \in Chats <=>
              \E p \in Parties, q \in Parties : \E body \in Bodies(p, q), t \in Nat :
                 c = Chat(p, q, body, t)
<1>1. ASSUME NEW c, c \in Chats
      PROVE  \E p \in Parties, q \in Parties : \E body \in Bodies(p, q), t \in Nat :
                c = Chat(p, q, body, t)
  <2>1. PICK p \in Parties, q \in Parties :
           c \in {Chat(p, q, body, t) : body \in Bodies(p, q), t \in Nat}
    BY <1>1 DEF Chats
  <2>. QED  BY <2>1
<1>2. ASSUME NEW p \in Parties, NEW q \in Parties, NEW body \in Bodies(p, q), NEW t \in Nat
      PROVE  Chat(p, q, body, t) \in Chats
  <2> DEFINE theirs(r, s) == {Chat(r, s, b, u) : b \in Bodies(r, s), u \in Nat}
  <2>1. Chat(p, q, body, t) \in theirs(p, q)
    OBVIOUS
  <2>2. Chats = UNION {theirs(r, s) : r \in Parties, s \in Parties}
    BY DEF Chats
  <2> HIDE DEF theirs
  <2>. QED  BY <2>1, <2>2
<1>. QED  BY <1>1, <1>2

LEMMA ChatsAre ==
    ASSUME ChatInv, NEW n \in DOMAIN chats
    PROVE  \E p \in Parties, q \in Parties : \E body \in Bodies(p, q), t \in Nat :
              chats[n] = Chat(p, q, body, t)
<1>1. chats[n] \in Chats
  BY DEF ChatInv
<1>. QED  BY <1>1, ChatsType

LEMMA ChatInitInv == Init => ChatInv
<1>. SUFFICES ASSUME Init PROVE ChatInv
  OBVIOUS
<1>1. /\ time = 0 /\ ahead \in [Parties -> 0..MaxAhead]
      /\ chats = <<>> /\ reading = NoFile /\ download = NoFile
  BY ChatEnvelopeAssumption DEF Init, ChatInit
<1>2. chats \in Seq(Chats) /\ DOMAIN chats = {}
  BY <1>1
<1>. QED  BY <1>1, <1>2 DEF ChatInv, FilesStay, ChatReadByPeer, AttachmentOpens

\* Another event moves none that is there.
LEMMA PostKeepsInv ==
    ASSUME ChatInv, NEW p \in Parties, NEW q \in Parties, NEW body \in Bodies(p, q),
           Post(p, q, body),
           blobs \subseteq blobs', body.server # NoFile => <<body.server, body.blob>> \in blobs',
           UNCHANGED <<time, ahead, reading, download>>
    PROVE  ChatInv'
<1> DEFINE new == Chat(p, q, body, Clock(p))
<1>1. Clock(p) \in Nat
  BY ChatEnvelopeAssumption DEF Clock, ChatInv
<1>2. new \in Chats /\ new.body = body
  <2>1. new \in Chats
    BY <1>1, ChatsType
  <2>2. new.body = body
    BY DEF Chat
  <2>. QED  BY <2>1, <2>2
<1>3. chats' = Append(chats, new)
  BY DEF Post, Chat, Event
<1> HIDE DEF new
<1>4. /\ chats' \in Seq(Chats)
      /\ DOMAIN chats' = DOMAIN chats \cup {Len(chats) + 1}
      /\ \A n \in DOMAIN chats : chats'[n] = chats[n] /\ n # Len(chats) + 1
      /\ chats'[Len(chats) + 1] = new
  BY <1>2, <1>3 DEF ChatInv
<1>5. FilesStay'
  BY <1>2, <1>4 DEF ChatInv, FilesStay
<1>6. ChatReadByPeer' /\ AttachmentOpens'
  BY <1>4 DEF ChatInv, ChatReadByPeer, AttachmentOpens
<1>. QED  BY <1>4, <1>5, <1>6 DEF ChatInv

LEMMA SendKeepsInv ==
    ASSUME ChatInv, NEW p \in Parties, NEW q \in Parties,
           SendChatMessage(p, q) \/ SendAttachment(p, q)
    PROVE  ChatInv'
<1>1. CASE SendChatMessage(p, q)
  <2>1. PICK long \in BOOLEAN : Post(p, q, Text(<<p, q>>, long))
    BY <1>1 DEF SendChatMessage
  <2>2. Text(<<p, q>>, long) \in Bodies(p, q) /\ Text(<<p, q>>, long).server = NoFile
    BY DEF Bodies, Text
  <2>. QED  BY <1>1, <2>1, <2>2, PostKeepsInv DEF SendChatMessage
<1>2. CASE SendAttachment(p, q)
  <2>1. PICK size \in 0..(MaxAttachment + 1), failing \in SUBSET Servers :
           LET blob   == EncryptBlob(GenerateSharedKey(p, q), size)
               server == UploadBlob(ServersOf[p], failing)
           IN /\ server # NoFile
              /\ blobs' = blobs \cup {<<server, blob>>}
              /\ Post(p, q, Attachment(server, blob))
              /\ UNCHANGED <<time, ahead, reading, download>>
    BY <1>2 DEF SendAttachment
  <2> DEFINE blob   == EncryptBlob(GenerateSharedKey(p, q), size)
             server == UploadBlob(ServersOf[p], failing)
             body   == Attachment(server, blob)
  <2>2. server \in Servers /\ size \in Nat
    BY <2>1, UploadedSomewhere, ChatEnvelopeAssumption
  <2>3. body \in Bodies(p, q) /\ body.server = server /\ body.blob = blob
    <3>1. body \in Bodies(p, q)
      BY <2>2 DEF Bodies
    <3>2. body.server = server /\ body.blob = blob
      BY DEF Attachment
    <3>. QED  BY <3>1, <3>2
  <2> HIDE DEF blob, server, body
  <2>4. /\ server # NoFile
        /\ blobs' = blobs \cup {<<server, blob>>}
        /\ Post(p, q, body)
        /\ UNCHANGED <<time, ahead, reading, download>>
    BY <2>1 DEF blob, server, body
  <2>. QED  BY <2>3, <2>4, PostKeepsInv
<1>. QED  BY <1>1, <1>2

LEMMA ReceiveKeepsInv ==
    ASSUME ChatInv, NEW p \in Parties, NEW q \in Parties, NEW n \in DOMAIN chats,
           Receive(p, q, n)
    PROVE  ChatInv'
<1>1. PICK from \in Parties, to \in Parties :
         \E body \in Bodies(from, to), t \in Nat : chats[n] = Chat(from, to, body, t)
  BY ChatsAre
<1>2. PICK body \in Bodies(from, to), t \in Nat : chats[n] = Chat(from, to, body, t)
  BY <1>1
<1>3. Clock(p) \in Nat
  BY ChatEnvelopeAssumption DEF Clock, ChatInv
<1> DEFINE outcome == UnwrapChatMessage(chats[n].event, DeriveChatKeys(p, q), {p, q}, Clock(p))
<1>4. /\ chats[n].from = from /\ chats[n].to = to /\ chats[n].body = body
      /\ chats[n].event = Event(from, to, body, t)
      /\ chats[n].event.created_at = t
  BY <1>2 DEF Chat, Event, WrapChatMessage
<1>5. outcome = Opens(from, to, body, t, p, q, Clock(p))
  BY <1>3, <1>4, OpensForBoth
<1>6. /\ reading' = [who |-> p, peer |-> q, chat |-> n, at |-> Clock(p), outcome |-> outcome]
      /\ UNCHANGED <<time, ahead, chats, blobs, download>>
  BY DEF Receive
<1> HIDE DEF outcome
<1>7. ChatReadByPeer'
  BY <1>4, <1>5, <1>6 DEF ChatReadByPeer, Opens
<1>8. FilesStay' /\ AttachmentOpens'
  BY <1>6 DEF ChatInv, FilesStay, AttachmentOpens
<1>. QED  BY <1>6, <1>7, <1>8 DEF ChatInv

\* What was read is a file of this conversation, under its key.
LEMMA DownloadKeepsInv ==
    ASSUME ChatInv, DownloadAttachment
    PROVE  ChatInv'
<1> DEFINE n       == reading.chat
           who     == reading.who
           content == reading.outcome.content
           allowed == {ServersOf[who][i] : i \in DOMAIN ServersOf[who]}
           got     == DownloadBlob(content, allowed)
           outcome == IF got = Refused THEN Refused
                      ELSE DecryptBlob(GenerateSharedKey(who, reading.peer), got)
<1>1. /\ reading # NoFile /\ reading.outcome # Refused /\ content.server # NoFile
      /\ n \in DOMAIN chats
      /\ download' = [who |-> who, chat |-> n, outcome |-> outcome]
      /\ UNCHANGED <<time, ahead, chats, blobs, reading>>
  BY DEF DownloadAttachment, ChatInv
<1>2. {who, reading.peer} = {chats[n].from, chats[n].to} /\ content = chats[n].body
  <2> DEFINE c == chats[n]
  <2>1. reading.outcome = IF /\ {who, reading.peer} = {c.from, c.to} /\ ~c.body.long
                             /\ c.event.created_at <= reading.at + MaxSkew
                          THEN [content |-> c.body, sender |-> c.from] ELSE Refused
    BY <1>1 DEF ChatInv, ChatReadByPeer
  <2> HIDE DEF c
  <2>2. /\ {who, reading.peer} = {c.from, c.to}
        /\ reading.outcome = [content |-> c.body, sender |-> c.from]
    BY <1>1, <2>1
  <2>. QED  BY <2>2 DEF c
<1>3. PICK from \in Parties, to \in Parties :
         \E body \in Bodies(from, to), t \in Nat : chats[n] = Chat(from, to, body, t)
  BY <1>1, ChatsAre
<1>4. chats[n].from = from /\ chats[n].to = to /\ chats[n].body \in Bodies(from, to)
  BY <1>3 DEF Chat
<1>5. PICK server \in Servers, size \in Nat :
         content = Attachment(server, EncryptBlob(GenerateSharedKey(from, to), size))
  BY <1>1, <1>2, <1>4 DEF Bodies, Text
<1> DEFINE blob == EncryptBlob(GenerateSharedKey(from, to), size)
<1>6. /\ content.server = server /\ content.blob = blob
      /\ blob.size = size /\ blob.length = size + Overhead
      /\ blob.key = GenerateSharedKey(who, reading.peer)
  <2>1. content.server = server /\ content.blob = blob
    <3>1. content = Attachment(server, blob)
      BY <1>5
    <3> HIDE DEF content, blob
    <3>. QED  BY <3>1 DEF Attachment
  <2>2. blob = [key |-> {from, to}, size |-> size, length |-> size + Overhead]
    BY DEF EncryptBlob, GenerateSharedKey
  <2>3. GenerateSharedKey(who, reading.peer) = {from, to}
    BY <1>2, <1>4 DEF GenerateSharedKey
  <2> HIDE DEF blob, content
  <2>. QED  BY <2>1, <2>2, <2>3
<1>7. <<server, blob>> \in blobs
  BY <1>1, <1>2, <1>6 DEF ChatInv, FilesStay
<1>8. blob # Refused
  <2>1. Overhead \in Nat /\ {from, to} \in SUBSET Parties
    BY ChatEnvelopeAssumption
  <2>2. blob \in [key : SUBSET Parties, size : Nat, length : Nat]
    BY <2>1 DEF EncryptBlob, GenerateSharedKey
  <2>. QED  BY <2>2, ChatEnvelopeAssumption
<1> HIDE DEF blob, content
<1>9. got = IF server \in allowed /\ size + Overhead <= MaxAttachment THEN blob ELSE Refused
  <2>1. size + Overhead \in Int /\ MaxAttachment \in Int
    BY ChatEnvelopeAssumption
  <2>. QED  BY <1>6, <1>7, <2>1 DEF DownloadBlob
<1> HIDE DEF got
<1>10. outcome = IF server \in allowed /\ size + Overhead <= MaxAttachment
                 THEN size ELSE Refused
  BY <1>6, <1>8, <1>9 DEF DecryptBlob
<1> HIDE DEF outcome
<1>11. AttachmentOpens'
  BY <1>1, <1>2, <1>6, <1>10 DEF AttachmentOpens
<1>12. FilesStay' /\ ChatReadByPeer'
  BY <1>1 DEF ChatInv, FilesStay, ChatReadByPeer
<1>. QED  BY <1>1, <1>11, <1>12 DEF ChatInv

LEMMA ChatNextKeepsInv ==
    ASSUME ChatInv, ChatNext \/ UNCHANGED chatVars
    PROVE  ChatInv'
<1>1. CASE ChatTick \/ UNCHANGED chatVars
  <2>1. /\ UNCHANGED <<ahead, chats, blobs, reading, download>>
        /\ time' \in Nat
    BY <1>1 DEF ChatTick, chatVars, ChatInv
  <2>2. FilesStay' /\ ChatReadByPeer' /\ AttachmentOpens'
    BY <2>1 DEF ChatInv, FilesStay, ChatReadByPeer, AttachmentOpens
  <2>. QED  BY <2>1, <2>2 DEF ChatInv
<1>. QED  BY <1>1, SendKeepsInv, ReceiveKeepsInv, DownloadKeepsInv DEF ChatNext

\* The invariant holds.
LEMMA ChatInvHolds == Spec => []ChatInv
<1>1. ChatInv /\ [Next]_<<part, exchangeVars, chatVars, trustVars, encryptorVars>> => ChatInv'
  BY ChatNextKeepsInv DEF Next
<1>. QED  BY <1>1, ChatInitInv, PTL DEF Spec

\* An event opens in the conversation it was written in and in no other,
\* whenever it comes, unless it is too long or dated too far ahead.
THEOREM ChatReadByPeerHolds == Spec => []ChatReadByPeer
<1>1. ChatInv => ChatReadByPeer
  BY DEF ChatInv
<1>. QED  BY <1>1, ChatInvHolds, PTL

\* A file that could be sent is the one that is downloaded, by either party.
THEOREM AttachmentOpensHolds == Spec => []AttachmentOpens
<1>1. ChatInv => AttachmentOpens
  BY DEF ChatInv
<1>. QED  BY <1>1, ChatInvHolds, PTL

-----------------------------------------------------------------------------
(* Orders and tokens.  A token names, by its nonce, the order it was made    *)
(* for; a copy of its methods is signed if it asks the amounts of that one.  *)

\* The segments there are.
Segments == {Method} \cup [method : {""}, token : Tokens]

BookType == Seq([fa : Amounts38383, pm : Seq(Segments), signer : Makers \cup {Nobody}])

\* An order o of a book b with one token has the methods of the order that token
\* was made for, and the signer of the token if it has the amounts too; one with
\* none or several has no signer.
AsMade(b, o) ==
    /\ \A i \in DOMAIN b[o].pm :
          TokensOf(b[o].pm) = {i} =>
             LET t == b[o].pm[i].token
                 n == t.nonce
             IN /\ n \in DOMAIN b /\ b[n].pm = b[o].pm
                /\ t = BuildPmToken(t.by, b[n].fa, CanonicalBase(b[o].pm), n)
                /\ b[o].signer = IF b[o].fa = b[n].fa THEN t.by ELSE Nobody
    /\ (\A i \in DOMAIN b[o].pm : TokensOf(b[o].pm) # {i}) => b[o].signer = Nobody

BookInv == book \in BookType /\ \A o \in Placed : AsMade(book, o)

ClaimsType == claims \in Seq(Seq(Makers)) /\ Len(claims) = Len(book)

(* What was seen.                                                           *)
SeenAt(o) == {n \in DOMAIN sightings : sightings[n].order = o}

SightingsType ==
    /\ sightings \in Seq([order : Placed, judged : BOOLEAN])
    /\ Len(sightings) <= MaxSightings
    /\ birth \in Seq(1..Unborn) /\ Len(birth) = Len(book)

\* The birth of an order is its first sighting.
BornWhenSeen ==
    \A o \in Placed : /\ \A n \in SeenAt(o) : birth[o] <= n
                      /\ birth[o] \in SeenAt(o) \cup {Unborn}

Bears(o, token) == TokensOf(book[o].pm) # {} /\ TokenOf(o) = token

\* A token belongs to an order that bears it, since the birth of that order.
HonouredSinceBirth ==
    \A t \in DOMAIN first : /\ first[t].order \in Placed
                            /\ Bears(first[t].order, t)
                            /\ birth[first[t].order] = first[t].ts /\ first[t].ts # Unborn

\* The token of an order that was judged belongs to one born no later.
JudgedAreNotFirst ==
    \A n \in DOMAIN sightings :
        sightings[n].judged =>
           LET o == sightings[n].order
           IN /\ TokensOf(book[o].pm) # {} /\ TokenOf(o) \in DOMAIN first
              /\ first[TokenOf(o)].ts <= birth[o]

Rivals(o) == {p \in Placed \ {o} : Bears(p, TokenOf(o)) /\ birth[p] < birth[o]}

\* The last verdict, in terms of births.
VerdictByBirth ==
    judged # Nobody =>
        /\ judged.order \in Placed
        /\ \E n \in SeenAt(judged.order) :
              sightings[n].judged /\ \A k \in DOMAIN sightings : sightings[k].judged => k <= n
        /\ judged.verdict = "invalid" => Rivals(judged.order) # {}
        /\ \A n \in DOMAIN sightings :
              sightings[n].judged /\ sightings[n].order \in Rivals(judged.order)
                 => judged.verdict = "invalid"

\* The inductive invariant.
TrustInv ==
    /\ BookInv /\ ClaimsType
    /\ SightingsType /\ BornWhenSeen /\ HonouredSinceBirth /\ JudgedAreNotFirst /\ VerdictByBirth

-----------------------------------------------------------------------------

\* Of a finite set of naturals there is an n-th.
LEMMA Nth ==
    ASSUME NEW M \in SUBSET Nat, IsFiniteSet(M), NEW n \in 1..Cardinality(M)
    PROVE  NthOf(M, n) \in M
<1> DEFINE upTo(i) == {j \in M : j <= i}
           size == Cardinality(M)
           rank == [i \in M |-> Cardinality(upTo(i))]
<1>1. size \in Nat
  BY FS_CardinalityType
<1>2. \A i \in M : upTo(i) \in SUBSET M /\ i \in upTo(i) /\ \A j \in M : i < j => j \notin upTo(i)
  OBVIOUS
<1>3. \A i, j \in M : i < j => upTo(i) \in SUBSET upTo(j)
  <2>1. \A i, j, k \in M : i < j /\ k <= i => k <= j
    OBVIOUS
  <2>. QED  BY <2>1
<1> HIDE DEF upTo
<1>4. \A i \in M : IsFiniteSet(upTo(i)) /\ Cardinality(upTo(i)) \in Nat /\ Cardinality(upTo(i)) <= size
  BY <1>2, FS_Subset, FS_CardinalityType
<1>5. \A i \in M : Cardinality(upTo(i)) # 0
  BY <1>2, <1>4, FS_EmptySet
<1>6. \A i, j \in M : i < j => Cardinality(upTo(i)) # Cardinality(upTo(j))
  <2> SUFFICES ASSUME NEW i \in M, NEW j \in M, i < j
               PROVE  Cardinality(upTo(i)) # Cardinality(upTo(j))
    OBVIOUS
  <2>1. upTo(i) \in SUBSET upTo(j) /\ upTo(i) # upTo(j)
    BY <1>2, <1>3
  <2>. QED  BY <1>4, <2>1, FS_Subset
<1>7. rank \in [M -> 1..size]
  BY <1>1, <1>4, <1>5
<1>8. \A i, j \in M : rank[i] = rank[j] => i = j
  BY <1>6
<1> HIDE DEF rank
<1>9. rank \in Injection(M, 1..size)
  BY <1>7, <1>8, Fun_IsInj
<1>10. IsFiniteSet(1..size) /\ Cardinality(1..size) = size
  <2>1. 1 \in Int /\ size \in Int
    BY <1>1
  <2>2. IsFiniteSet(1..size) /\ Cardinality(1..size) = IF 1 > size THEN 0 ELSE size - 1 + 1
    BY <2>1, FS_Interval
  <2>. QED  BY <2>2, <1>1
<1>11. rank \in Surjection(M, 1..size)
  BY <1>9, <1>10, FS_Injection
<1>12. \E i \in M : rank[i] = n
  BY <1>11 DEF Surjection
<1>13. \E i \in M : Cardinality({j \in M : j <= i}) = n
  BY <1>12 DEF rank, upTo
<1>. QED  BY <1>13 DEF NthOf

\* The positions of the methods, and the methods there.
LEMMA BasePositions ==
    ASSUME NEW S, NEW s \in Seq(S)
    PROVE  LET methods == DOMAIN s \ TokensOf(s)
           IN /\ methods \in SUBSET Nat /\ IsFiniteSet(methods) /\ Cardinality(methods) \in Nat
              /\ DOMAIN CanonicalBase(s) = 1..Cardinality(methods)
              /\ \A n \in 1..Cardinality(methods) :
                    /\ NthOf(methods, n) \in methods
                    /\ CanonicalBase(s)[n] = s[NthOf(methods, n)]
<1>0. DOMAIN s = 1..Len(s) /\ Len(s) \in Nat
  OBVIOUS
<1> DEFINE methods == DOMAIN s \ TokensOf(s)
<1>1. methods \in SUBSET (1..Len(s)) /\ Len(s) \in Nat
  BY <1>0
<1>2. IsFiniteSet(1..Len(s))
  BY <1>1, FS_Interval
<1>3. methods \in SUBSET Nat /\ IsFiniteSet(methods) /\ Cardinality(methods) \in Nat
  BY <1>1, <1>2, FS_Subset, FS_CardinalityType
<1>4. CanonicalBase(s) = [n \in 1..Cardinality(methods) |-> s[NthOf(methods, n)]]
  BY DEF CanonicalBase
<1> HIDE DEF methods
<1>5. \A n \in 1..Cardinality(methods) : NthOf(methods, n) \in methods
  BY <1>3, Nth
<1>. QED  BY <1>3, <1>4, <1>5 DEF methods

\* A token at the end changes nothing of the base.
LEMMA BaseOfAppended ==
    ASSUME NEW S, NEW s \in Seq(S), NEW x, IsTgToken(x)
    PROVE  /\ CanonicalBase(Append(s, x)) = CanonicalBase(s)
           /\ TokensOf(Append(s, x)) = TokensOf(s) \cup {Len(s) + 1}
           /\ Len(s) + 1 \notin TokensOf(s)
<1> DEFINE t == Append(s, x)
           methods == DOMAIN s \ TokensOf(s)
<1>1. /\ DOMAIN t = DOMAIN s \cup {Len(s) + 1} /\ Len(s) + 1 \notin DOMAIN s
      /\ \A i \in DOMAIN s : t[i] = s[i]
      /\ t[Len(s) + 1] = x
  OBVIOUS
<1> HIDE DEF t
<1>2. TokensOf(t) = TokensOf(s) \cup {Len(s) + 1} /\ Len(s) + 1 \notin TokensOf(s)
  BY <1>1 DEF TokensOf
<1>3. DOMAIN t \ TokensOf(t) = methods
  BY <1>1, <1>2
<1>4. CanonicalBase(t) = [n \in 1..Cardinality(DOMAIN t \ TokensOf(t)) |->
                             t[NthOf(DOMAIN t \ TokensOf(t), n)]]
  BY DEF CanonicalBase
<1>5. CanonicalBase(s) = [n \in 1..Cardinality(methods) |-> s[NthOf(methods, n)]]
  BY DEF CanonicalBase
<1>6. \A n \in 1..Cardinality(methods) : NthOf(methods, n) \in DOMAIN s
  BY BasePositions
<1> HIDE DEF methods
<1>7. CanonicalBase(t) = CanonicalBase(s)
  BY <1>1, <1>3, <1>4, <1>5, <1>6
<1>. QED  BY <1>2, <1>7 DEF t

\* What is a token.
LEMMA SegmentsAre ==
    /\ ~IsTgToken(Method)
    /\ \A x \in Segments : ~IsTgToken(x) => x = Method
    /\ \A m \in Makers, fa \in Amounts38383, base \in Seq({Method}), n \in Nat :
          /\ IsTgToken(TgSegment(m, fa, base, n)) /\ TgSegment(m, fa, base, n) \in Segments
          /\ TgSegment(m, fa, base, n).token = BuildPmToken(m, fa, base, n)
<1>1. ~IsTgToken(Method)
  BY DEF IsTgToken, Method
<1>3. \A x \in Segments : ~IsTgToken(x) => x = Method
  BY OrderTrustAssumption DEF IsTgToken, Segments
<1>2. ASSUME NEW m \in Makers, NEW fa \in Amounts38383, NEW base \in Seq({Method}), NEW n \in Nat
      PROVE  /\ IsTgToken(TgSegment(m, fa, base, n)) /\ TgSegment(m, fa, base, n) \in Segments
             /\ TgSegment(m, fa, base, n).token = BuildPmToken(m, fa, base, n)
  <2>1. VariantOf38383(fa) \in Variants
    BY DEF VariantOf38383, Variants
  <2>2. Challenge(fa, base, n) \in Challenges
    BY <2>1 DEF Challenge, Challenges
  <2>3. BuildPmToken(m, fa, base, n) \in Tokens
    BY <2>1, <2>2 DEF BuildPmToken, Tokens
  <2>4. TgSegment(m, fa, base, n).token = BuildPmToken(m, fa, base, n)
    BY DEF TgSegment
  <2>5. TgSegment(m, fa, base, n) \in Segments
    BY <2>3 DEF Segments, TgSegment
  <2>. QED  BY <2>3, <2>4, <2>5, OrderTrustAssumption DEF IsTgToken
<1>. QED  BY <1>1, <1>2, <1>3

\* The base of what was placed is methods.
LEMMA BaseIsMethods ==
    ASSUME NEW s \in Seq(Segments)
    PROVE  CanonicalBase(s) \in Seq({Method})
<1> DEFINE methods == DOMAIN s \ TokensOf(s)
           base == CanonicalBase(s)
           size == Cardinality(methods)
<1>1. size \in Nat /\ \A n \in 1..size : NthOf(methods, n) \in methods
  BY BasePositions
<1>2. base = [n \in 1..size |-> s[NthOf(methods, n)]]
  BY DEF CanonicalBase
<1>3. \A i \in methods : s[i] = Method
  <2> TAKE i \in methods
  <2>1. s[i] \in Segments /\ ~IsTgToken(s[i])
    BY DEF TokensOf
  <2>. QED  BY <2>1, SegmentsAre
<1> HIDE DEF base, methods, size
<1>4. base \in [1..size -> {Method}]
  BY <1>1, <1>2, <1>3
<1>5. base \in Seq({Method})
  BY <1>1, <1>4
<1>. QED  BY <1>5 DEF base

LEMMA MethodsAreSegments ==
    ASSUME NEW s \in Seq({Method})
    PROVE  s \in Seq(Segments)
<1>1. Method \in Segments
  BY DEF Segments
<1>2. s \in [1..Len(s) -> {Method}] /\ Len(s) \in Nat
  OBVIOUS
<1>3. s \in [1..Len(s) -> Segments]
  BY <1>1, <1>2
<1>. QED  BY <1>2, <1>3

\* Methods are their own base.
LEMMA BaseOfMethods ==
    ASSUME NEW s \in Seq({Method})
    PROVE  CanonicalBase(s) = s /\ TokensOf(s) = {}
<1>1. TokensOf(s) = {}
  BY SegmentsAre DEF TokensOf
<1> DEFINE methods == DOMAIN s \ TokensOf(s)
           base == CanonicalBase(s)
<1>2. methods = 1..Len(s) /\ Len(s) \in Nat /\ DOMAIN s = 1..Len(s)
  BY <1>1
<1>3. Cardinality(methods) = Len(s)
  <2>1. 1 \in Int /\ Len(s) \in Int
    BY <1>2
  <2>2. Cardinality(1..Len(s)) = IF 1 > Len(s) THEN 0 ELSE Len(s) - 1 + 1
    BY <2>1, FS_Interval
  <2> HIDE DEF methods
  <2>. QED  BY <1>2, <2>2
<1>4. base \in Seq({Method}) /\ DOMAIN base = 1..Len(s)
  <2>1. s \in Seq(Segments)
    BY MethodsAreSegments
  <2>2. base \in Seq({Method})
    BY <2>1, BaseIsMethods
  <2>3. DOMAIN base = 1..Cardinality(methods)
    BY BasePositions
  <2>. QED  BY <1>3, <2>2, <2>3
<1> HIDE DEF base
<1>5. base = s
  <2>1. base = [i \in DOMAIN base |-> base[i]] /\ s = [i \in DOMAIN s |-> s[i]]
    BY <1>4
  <2>2. \A i \in 1..Len(s) : base[i] = Method /\ s[i] = Method
    BY <1>4, <1>2
  <2>. QED  BY <1>2, <1>4, <2>1, <2>2
<1>. QED  BY <1>1, <1>5 DEF base

-----------------------------------------------------------------------------

\* A new order leaves the others as they are.
LEMMA PublishKeepsBook ==
    ASSUME BookInv, NEW fa \in Amounts38383, NEW pm \in Seq(Segments),
           NEW signer \in Makers \cup {Nobody}, Publish(fa, pm, signer),
           AsMade(book', Len(book) + 1)
    PROVE  BookInv'
<1> DEFINE new == [fa |-> fa, pm |-> pm, signer |-> signer]
<1>1. book' = Append(book, new) /\ new \in [fa : Amounts38383, pm : Seq(Segments), signer : Makers \cup {Nobody}]
  BY DEF Publish
<1>2. book \in BookType
  BY DEF BookInv
<1> HIDE DEF new
<1>3. book' \in BookType
  BY <1>1, <1>2 DEF BookType
<1>4. /\ DOMAIN book' = DOMAIN book \cup {Len(book) + 1}
      /\ \A o \in DOMAIN book : book'[o] = book[o]
  BY <1>1, <1>2 DEF BookType
<1>5. ASSUME NEW o \in DOMAIN book
      PROVE  AsMade(book', o)
  <2>1. AsMade(book, o)
    BY DEF BookInv, Placed
  <2>. QED  BY <1>4, <2>1 DEF AsMade
<1>. QED  BY <1>3, <1>4, <1>5 DEF BookInv, Placed

\* What the last order is.
LEMMA PublishAppends ==
    ASSUME BookInv, NEW fa, NEW pm, NEW signer, Publish(fa, pm, signer)
    PROVE  /\ \A o : o \in DOMAIN book' <=> o \in DOMAIN book \/ o = Len(book) + 1
           /\ \A o \in DOMAIN book : book'[o] = book[o]
           /\ book'[Len(book) + 1] = [fa |-> fa, pm |-> pm, signer |-> signer]
  BY DEF BookInv, BookType, Publish

LEMMA OrderIs ==
    ASSUME BookInv, NEW o \in Placed
    PROVE  /\ book[o].fa \in Amounts38383 /\ book[o].pm \in Seq(Segments)
           /\ book[o].signer \in Makers \cup {Nobody} /\ AsMade(book, o)
<1> DEFINE Orders == [fa : Amounts38383, pm : Seq(Segments), signer : Makers \cup {Nobody}]
<1>1. book \in Seq(Orders) /\ AsMade(book, o)
  BY DEF BookInv, BookType
<1>2. book[o] \in Orders
  <2> HIDE DEF Orders
  <2>. QED  BY <1>1 DEF Placed
<1>. QED  BY <1>1, <1>2

LEMMA PlaceKeepsBook ==
    ASSUME BookInv, NEW m \in Makers, Place(m)
    PROVE  BookInv'
<1>1. PICK fa \in Amounts38383, old \in {<<Method>>} \cup {book[o].pm : o \in Placed} :
         Publish(fa, BuildOrderBinding(m, fa, old, Len(book) + 1), m)
  BY DEF Place
<1> DEFINE n == Len(book) + 1
           base == CanonicalBase(old)
           segment == TgSegment(m, fa, base, n)
           pm == BuildOrderBinding(m, fa, old, n)
           i == Len(base) + 1
<1>2. old \in Seq(Segments)
  <2>1. <<Method>> \in Seq(Segments)
    BY DEF Segments
  <2>. QED  BY <2>1, OrderIs
<1>3. base \in Seq({Method})
  BY <1>2, BaseIsMethods
<1>4. n \in Nat
  BY DEF BookInv, BookType
<1>5. pm = Append(base, segment)
  BY DEF BuildOrderBinding
<1> HIDE DEF base, n, pm
<1>6. /\ IsTgToken(segment) /\ segment \in Segments
      /\ segment.token = BuildPmToken(m, fa, base, n)
  BY <1>3, <1>4, SegmentsAre
<1> HIDE DEF segment
<1>7. CanonicalBase(base) = base /\ TokensOf(base) = {}
  BY <1>3, BaseOfMethods
<1>8. CanonicalBase(pm) = base /\ TokensOf(pm) = {i}
  BY <1>3, <1>5, <1>6, <1>7, BaseOfAppended
<1>9. pm \in Seq(Segments) /\ pm[i] = segment
  <2>1. base \in Seq(Segments) /\ Len(base) \in Nat
    BY <1>3, MethodsAreSegments
  <2>. QED  BY <1>5, <1>6, <2>1
<1> HIDE DEF i
<1>10. Publish(fa, pm, m)
  BY <1>1 DEF pm, n
<1>11. n \in DOMAIN book' /\ book'[n] = [fa |-> fa, pm |-> pm, signer |-> m]
  BY <1>10, PublishAppends DEF n
<1>12. segment.token.by = m /\ segment.token.nonce = n
  BY <1>6 DEF BuildPmToken
<1>13. AsMade(book', n)
  <2>1. /\ book'[n].fa = fa /\ book'[n].pm = pm /\ book'[n].signer = m
        /\ pm[i].token = BuildPmToken(m, fa, base, n)
        /\ pm[i].token.by = m /\ pm[i].token.nonce = n
    BY <1>6, <1>9, <1>11, <1>12
  <2>2. \A j : TokensOf(pm) = {j} <=> j = i
    BY <1>8
  <2>3. i \in DOMAIN pm
    BY <1>8 DEF TokensOf
  <2>. QED  BY <1>8, <1>11, <2>1, <2>2, <2>3 DEF AsMade
<1>. QED  BY <1>9, <1>10, <1>13, PublishKeepsBook DEF n

LEMMA PlaceWithoutTokenKeepsBook ==
    ASSUME BookInv, PlaceWithoutToken
    PROVE  BookInv'
<1>1. Publish(<<10>>, <<Method>>, Nobody)
  BY DEF PlaceWithoutToken
<1>2. <<Method>> \in Seq({Method}) /\ <<Method>> \in Seq(Segments) /\ <<10>> \in Amounts38383
  BY DEF Segments, Amounts38383
<1>3. TokensOf(<<Method>>) = {}
  BY <1>2, BaseOfMethods
<1>4. book'[Len(book) + 1] = [fa |-> <<10>>, pm |-> <<Method>>, signer |-> Nobody]
  BY <1>1, PublishAppends
<1>5. AsMade(book', Len(book) + 1)
  BY <1>3, <1>4 DEF AsMade
<1>. QED  BY <1>1, <1>2, <1>5, PublishKeepsBook

LEMMA PlaceCopyKeepsBook ==
    ASSUME BookInv, NEW o \in Placed, PlaceCopy(o)
    PROVE  BookInv'
<1>1. PICK fa \in Amounts38383 : Publish(fa, book[o].pm, SignerOf(fa, book[o].pm))
  BY DEF PlaceCopy
<1> DEFINE pm == book[o].pm
           signer == SignerOf(fa, pm)
           same == {c \in Placed : book[c].fa = fa /\ book[c].pm = pm}
           n == Len(book) + 1
<1>2. pm \in Seq(Segments) /\ AsMade(book, o)
  BY OrderIs
<1>3. (signer = Nobody /\ same = {}) \/ \E c \in same : signer = book[c].signer
  BY DEF SignerOf
<1> HIDE DEF signer, same
<1>4. /\ n \in DOMAIN book' /\ DOMAIN book \subseteq DOMAIN book' /\ \A c \in DOMAIN book : book'[c] = book[c]
      /\ book'[n] = [fa |-> fa, pm |-> pm, signer |-> signer]
  BY <1>1, PublishAppends DEF signer
<1>5. \A c \in same : c \in Placed /\ book[c].fa = fa /\ book[c].pm = pm /\ AsMade(book, c)
  BY OrderIs DEF same
<1> HIDE DEF pm, n
<1>6. \A c \in Placed : book[c].fa = fa /\ book[c].pm = pm => c \in same
  BY DEF same
<1>7. signer \in Makers \cup {Nobody}
  BY <1>3, <1>5, OrderIs
<1>8. ASSUME \A i \in DOMAIN pm : TokensOf(pm) # {i}
      PROVE  AsMade(book', n)
  <2>1. signer = Nobody
    BY <1>3, <1>5, <1>8 DEF AsMade
  <2>. QED  BY <1>4, <1>8, <2>1 DEF AsMade
<1>9. ASSUME NEW i \in DOMAIN pm, TokensOf(pm) = {i}
      PROVE  AsMade(book', n)
  <2> DEFINE t == pm[i].token
             p == t.nonce
  <2>1. /\ p \in DOMAIN book /\ book[p].pm = pm
        /\ t = BuildPmToken(t.by, book[p].fa, CanonicalBase(pm), p)
    BY <1>2, <1>9 DEF AsMade, pm
  <2>2. \A c \in same : book[c].signer = IF fa = book[p].fa THEN t.by ELSE Nobody
    BY <1>5, <1>9 DEF AsMade
  <2> HIDE DEF p, t
  <2>3. signer = IF fa = book[p].fa THEN t.by ELSE Nobody
    BY <1>3, <1>6, <2>1, <2>2 DEF Placed
  <2>4. book'[p] = book[p] /\ p \in DOMAIN book'
    BY <1>4, <2>1
  <2>5. \A j \in DOMAIN pm : TokensOf(pm) = {j} => j = i
    BY <1>9
  <2>. QED  BY <1>4, <1>9, <2>1, <2>3, <2>4, <2>5 DEF AsMade, t, p
<1>10. AsMade(book', n)
  BY <1>8, <1>9
<1>. QED  BY <1>1, <1>2, <1>7, <1>10, PublishKeepsBook DEF pm, n, signer

LEMMA PlaceWithTwoTokensKeepsBook ==
    ASSUME BookInv, NEW m \in Makers, NEW o \in Placed, PlaceWithTwoTokens(m, o)
    PROVE  BookInv'
<1> DEFINE old == book[o].pm
           segment == TgSegment(m, book[o].fa, <<Method>>, Len(book) + 1)
           pm == Append(old, segment)
<1>1. TokensOf(old) # {} /\ Publish(book[o].fa, pm, Nobody)
  BY DEF PlaceWithTwoTokens
<1>2. old \in Seq(Segments) /\ book[o].fa \in Amounts38383
  BY OrderIs
<1>3. IsTgToken(segment) /\ segment \in Segments
  <2>1. <<Method>> \in Seq({Method}) /\ Len(book) + 1 \in Nat
    BY DEF BookInv, BookType
  <2>. QED  BY <1>2, <2>1, SegmentsAre
<1> HIDE DEF segment, old
<1>4. TokensOf(pm) = TokensOf(old) \cup {Len(old) + 1} /\ Len(old) + 1 \notin TokensOf(old)
  BY <1>2, <1>3, BaseOfAppended
<1>5. pm \in Seq(Segments)
  BY <1>2, <1>3
<1> HIDE DEF pm
<1>6. \A i \in DOMAIN pm : TokensOf(pm) # {i}
  BY <1>1, <1>4
<1>7. book'[Len(book) + 1] = [fa |-> book[o].fa, pm |-> pm, signer |-> Nobody]
  BY <1>1, PublishAppends
<1>8. AsMade(book', Len(book) + 1)
  BY <1>6, <1>7 DEF AsMade
<1>. QED  BY <1>1, <1>2, <1>5, <1>8, PublishKeepsBook

\* Every step keeps the book.
LEMMA TrustNextKeepsBook ==
    ASSUME BookInv, TrustNext \/ UNCHANGED trustVars
    PROVE  BookInv'
<1>1. ASSUME UNCHANGED book PROVE BookInv'
  BY <1>1 DEF BookInv, Placed, AsMade
<1>2. ASSUME NEW o \in Placed, NoteOrder(o) \/ ObserveOrder(o) PROVE BookInv'
  BY <1>1, <1>2 DEF NoteOrder, ObserveOrder
<1>3. ASSUME NEW m \in Makers, NEW orders \in SUBSET Placed, AddSocialIndex(m, orders)
      PROVE  BookInv'
  BY <1>1, <1>3 DEF AddSocialIndex
<1>4. ASSUME UNCHANGED trustVars PROVE BookInv'
  BY <1>1, <1>4 DEF trustVars
<1>. QED
  BY <1>2, <1>3, <1>4, PlaceKeepsBook, PlaceWithoutTokenKeepsBook, PlaceCopyKeepsBook,
     PlaceWithTwoTokensKeepsBook DEF TrustNext

\* The claims are of identities, for the orders of the book.
LEMMA TrustNextKeepsClaims ==
    ASSUME BookInv, ClaimsType, TrustNext \/ UNCHANGED trustVars
    PROVE  ClaimsType'
<1>1. ASSUME UNCHANGED <<book, claims>> PROVE ClaimsType'
  BY <1>1 DEF ClaimsType
<1>2. ASSUME NEW fa, NEW pm, NEW signer, Publish(fa, pm, signer) PROVE ClaimsType'
  <2>1. book' = Append(book, [fa |-> fa, pm |-> pm, signer |-> signer]) /\ claims' = Append(claims, <<>>)
    BY <1>2 DEF Publish
  <2>2. Len(book') = Len(book) + 1
    BY <2>1 DEF BookInv, BookType
  <2>3. <<>> \in Seq(Makers)
    OBVIOUS
  <2>4. claims' \in Seq(Seq(Makers)) /\ Len(claims') = Len(claims) + 1
    BY <2>1, <2>3 DEF ClaimsType
  <2>. QED  BY <2>2, <2>4 DEF ClaimsType
<1>3. ASSUME NEW m \in Makers, NEW orders \in SUBSET Placed, AddSocialIndex(m, orders)
      PROVE  ClaimsType'
  <2>1. Placed = 1..Len(claims) /\ Len(claims) \in Nat /\ \A o \in Placed : claims[o] \in Seq(Makers)
    BY DEF ClaimsType, BookInv, BookType, Placed
  <2>2. \A o \in Placed : AddClaim(claims[o], m) \in Seq(Makers)
    BY <2>1 DEF AddClaim
  <2>3. claims' \in [Placed -> Seq(Makers)] /\ UNCHANGED book
    BY <1>3, <2>1, <2>2 DEF AddSocialIndex
  <2>4. claims' \in Seq(Seq(Makers)) /\ Len(claims') = Len(claims)
    BY <2>1, <2>3
  <2>. QED  BY <2>3, <2>4 DEF ClaimsType
<1>4. ASSUME NEW o \in Placed, NoteOrder(o) \/ ObserveOrder(o) PROVE ClaimsType'
  BY <1>1, <1>4 DEF NoteOrder, ObserveOrder
<1>5. ASSUME UNCHANGED trustVars PROVE ClaimsType'
  BY <1>1, <1>5 DEF trustVars
<1>6. ASSUME NEW m \in Makers, NEW o \in Placed, PlaceWithTwoTokens(m, o) PROVE ClaimsType'
  BY <1>2, <1>6 DEF PlaceWithTwoTokens
<1>7. ASSUME NEW m \in Makers, Place(m) PROVE ClaimsType'
  BY <1>2, <1>7 DEF Place
<1>8. ASSUME NEW o \in Placed, PlaceCopy(o) PROVE ClaimsType'
  BY <1>2, <1>8 DEF PlaceCopy
<1>9. ASSUME PlaceWithoutToken PROVE ClaimsType'
  BY <1>2, <1>9 DEF PlaceWithoutToken
<1>. QED  BY <1>3, <1>4, <1>5, <1>6, <1>7, <1>8, <1>9 DEF TrustNext

\* The binding of an event is verified for the identity that signed its terms.
LEMMA VerifiesSigner ==
    ASSUME BookInv, NEW o \in Placed, NEW m \in Makers
    PROVE  VerifyOrderBinding(book[o], m) <=> m = book[o].signer
<1> DEFINE pm == book[o].pm
           fa == book[o].fa
           base == CanonicalBase(pm)
<1>1. AsMade(book, o) /\ m # Nobody
  BY OrderIs, OrderTrustAssumption
<1>2. \A i \in TokensOf(pm) : i \in DOMAIN pm
  BY DEF TokensOf
<1>3. CASE \A i \in DOMAIN pm : TokensOf(pm) # {i}
  BY <1>1, <1>2, <1>3 DEF AsMade, VerifyOrderBinding
<1>4. ASSUME NEW i \in DOMAIN pm, TokensOf(pm) = {i}
      PROVE  VerifyOrderBinding(book[o], m) <=> m = book[o].signer
  <2> DEFINE t == pm[i].token
             was == book[t.nonce].fa
  <2>1. /\ t = BuildPmToken(t.by, was, base, t.nonce)
        /\ book[o].signer = IF fa = was THEN t.by ELSE Nobody
    BY <1>1, <1>4 DEF AsMade
  <2> HIDE DEF t, was, base
  <2>2. VerifyOrderBinding(book[o], m) <=> VerifyPmToken(fa, base, t, m)
    BY <1>4 DEF VerifyOrderBinding, base, t
  <2> HIDE DEF pm, fa
  <2>3. t.variant = VariantOf38383(was) /\ t.over = Challenge(was, base, t.nonce)
    BY <2>1 DEF BuildPmToken
  <2>4. Challenge(was, base, t.nonce) = Challenge(fa, base, t.nonce) => was = fa
    BY DEF Challenge
  <2>5. VerifyPmToken(fa, base, t, m) <=> fa = was /\ t.by = m
    BY <2>3, <2>4 DEF VerifyPmToken
  <2>. QED  BY <1>1, <2>1, <2>2, <2>5
<1>. QED  BY <1>3, <1>4

\* So is that of the order read from it.
LEMMA SmallOrderAgrees ==
    ASSUME BookInv, NEW o \in Placed, NEW m \in Makers
    PROVE  VerifyOrderBinding(book[o], m) <=> VerifyOrderBindingFromOrder(SmallOrderOf(book[o]), m)
<1> DEFINE fa == book[o].fa
           small == SmallOrderOf(book[o])
<1>1. small.payment_method = book[o].pm
  BY DEF SmallOrderOf
<1>2. (IF small.min_amount # Nobody /\ small.max_amount # Nobody
       THEN <<small.min_amount, small.max_amount>> ELSE <<small.fiat_amount>>) = fa
  <2>1. CASE fa = <<10>>
    <3>1. Len(fa) = 1 /\ fa[1] = 10
      BY <2>1
    <3>2. small.min_amount = Nobody /\ small.fiat_amount = 10
      BY <3>1 DEF SmallOrderOf
    <3>. QED  BY <2>1, <3>2
  <2>2. CASE fa = <<5, 20>>
    <3>1. Len(fa) = 2 /\ fa[1] = 5 /\ fa[2] = 20
      BY <2>2
    <3>2. small.min_amount = 5 /\ small.max_amount = 20
      BY <3>1 DEF SmallOrderOf
    <3>3. 5 # Nobody /\ 20 # Nobody
      BY OrderTrustAssumption
    <3>. QED  BY <2>2, <3>2, <3>3
  <2>. QED  BY <2>1, <2>2, OrderIs DEF Amounts38383
<1> HIDE DEF small
<1>3. VerifyOrderBindingFromOrder(small, m) <=> VerifyOrderBinding(book[o], m)
  BY <1>1, <1>2 DEF VerifyOrderBindingFromOrder, VerifyOrderBinding
<1>. QED  BY <1>3 DEF small

LEMMA AnnotatesSigner ==
    ASSUME BookInv, ClaimsType
    PROVE  AnnotationMatchesSigner
<1> SUFFICES ASSUME NEW o \in Placed
             PROVE  Annotate(o) = IF \E i \in DOMAIN claims[o] : claims[o][i] = book[o].signer
                                  THEN book[o].signer ELSE Nobody
  BY SmallOrderAgrees DEF AnnotationMatchesSigner
<1> DEFINE list == claims[o]
           signed == SignedAmong(book[o], list)
           least == CHOOSE i \in signed : \A j \in signed : i <= j
<1>1. list \in Seq(Makers)
  BY DEF ClaimsType, BookInv, BookType, Placed
<1>2. Annotate(o) = IF signed = {} THEN Nobody ELSE list[least]
  BY DEF Annotate
<1> HIDE DEF list
<1>3. \A i \in DOMAIN list : list[i] \in Makers /\ i \in Nat
  BY <1>1
<1>4. \A i \in DOMAIN list : VerifyOrderBindingFromOrder(SmallOrderOf(book[o]), list[i])
                              <=> list[i] = book[o].signer
  BY <1>3, VerifiesSigner, SmallOrderAgrees
<1>5. signed = {i \in DOMAIN list : list[i] = book[o].signer}
  BY <1>4 DEF SignedAmong
<1> HIDE DEF signed
<1>6. signed # {} => least \in signed
  BY <1>3, <1>5, Least
<1>. QED  BY <1>2, <1>5, <1>6 DEF list

-----------------------------------------------------------------------------

\* An order whose signer is known bears a token.
LEMMA AnnotatedBears ==
    ASSUME BookInv, NEW o \in Placed, Annotate(o) # Nobody
    PROVE  Bears(o, TokenOf(o))
<1>1. SignedAmong(book[o], claims[o]) # {}
  BY DEF Annotate
<1>2. TokensOf(SmallOrderOf(book[o]).payment_method) # {}
  BY <1>1 DEF SignedAmong, VerifyOrderBindingFromOrder
<1>. QED  BY <1>2 DEF SmallOrderOf, Bears

\* What is in a sequence.
LEMMA Element ==
    ASSUME NEW S, NEW s \in Seq(S), NEW i \in DOMAIN s
    PROVE  s[i] \in S
  OBVIOUS

\* A function on the positions is a sequence.
LEMMA IsSequence ==
    ASSUME NEW S, NEW n \in Nat, NEW s \in [1..n -> S]
    PROVE  s \in Seq(S) /\ Len(s) = n
  OBVIOUS

\* The types of what was seen.
LEMMA SeenAre ==
    ASSUME BookInv, SightingsType, BornWhenSeen
    PROVE  /\ Len(sightings) \in Nat /\ Len(sightings) <= MaxSightings
           /\ DOMAIN sightings = 1..Len(sightings) /\ Unborn \in Nat /\ Unborn = MaxSightings + 1
           /\ DOMAIN birth = Placed /\ 0 \notin Placed /\ Placed \in SUBSET Nat
           /\ \A n \in DOMAIN sightings : sightings[n].order \in Placed
           /\ \A o \in Placed : birth[o] \in Nat /\ birth[o] <= Unborn
           /\ \A n \in DOMAIN sightings : birth[sightings[n].order] <= n
                                        /\ birth[sightings[n].order] < Unborn
<1>1. /\ Len(sightings) \in Nat /\ Len(sightings) <= MaxSightings
      /\ DOMAIN sightings = 1..Len(sightings)
  BY DEF SightingsType
<1>2. Unborn \in Nat /\ Unborn = MaxSightings + 1
  BY OrderTrustAssumption DEF Unborn
<1>3. DOMAIN birth = Placed /\ 0 \notin Placed /\ Placed \in SUBSET Nat
  BY DEF SightingsType, BookInv, BookType, Placed
<1>4. \A n \in DOMAIN sightings : sightings[n] \in [order : Placed, judged : BOOLEAN]
  BY Element DEF SightingsType
<1>5. \A o \in Placed : birth[o] \in 1..Unborn
  BY <1>3, Element DEF SightingsType
<1>6. \A n \in DOMAIN sightings : n \in SeenAt(sightings[n].order)
  BY DEF SeenAt
<1>7. \A n \in DOMAIN sightings : birth[sightings[n].order] <= n
  BY <1>4, <1>6 DEF BornWhenSeen
<1>8. \A n \in DOMAIN sightings : birth[sightings[n].order] < Unborn
  BY <1>1, <1>2, <1>4, <1>5, <1>7, OrderTrustAssumption
<1>9. \A n \in DOMAIN sightings : sightings[n].order \in Placed
  BY <1>4
<1>10. \A o \in Placed : birth[o] \in Nat /\ birth[o] <= Unborn
  BY <1>2, <1>5
<1>. QED  BY <1>1, <1>2, <1>3, <1>7, <1>8, <1>9, <1>10

\* An observation gives its order a birth if it had none, and changes no birth.
LEMMA Observation ==
    ASSUME BookInv, SightingsType, BornWhenSeen, UNCHANGED book,
           NEW o \in Placed, NEW j \in BOOLEAN, Len(sightings) < MaxSightings,
           birth' = [birth EXCEPT ![o] = Earlier(birth[o], Now)],
           sightings' = Append(sightings, [order |-> o, judged |-> j])
    PROVE  /\ SightingsType' /\ BornWhenSeen'
           /\ Now \in Nat /\ Now < Unborn /\ Now \notin DOMAIN sightings
           /\ DOMAIN sightings' = DOMAIN sightings \cup {Now}
           /\ sightings'[Now] = [order |-> o, judged |-> j]
           /\ \A n \in DOMAIN sightings : sightings'[n] = sightings[n] /\ n < Now
           /\ \A p \in Placed : birth[p] # Unborn => birth'[p] = birth[p]
           /\ \A p \in Placed : birth'[p] = birth[p] \/ (birth[p] = Unborn /\ birth'[p] = Now)
           /\ birth'[o] <= Now /\ \A p \in Placed : birth'[p] \in Nat
<1>1. /\ Now \in Nat /\ Now < Unborn /\ Now \notin DOMAIN sightings
      /\ \A n \in DOMAIN sightings : n < Now /\ n \in Nat
  BY SeenAre, OrderTrustAssumption DEF Now
<1>2. /\ DOMAIN sightings' = DOMAIN sightings \cup {Now} /\ Len(sightings') = Now
      /\ sightings'[Now] = [order |-> o, judged |-> j]
      /\ \A n \in DOMAIN sightings : sightings'[n] = sightings[n]
  BY SeenAre DEF SightingsType, Now
<1>3. /\ DOMAIN birth' = Placed /\ birth'[o] = Earlier(birth[o], Now)
      /\ \A p \in Placed : p # o => birth'[p] = birth[p]
  BY SeenAre
<1>4. birth[o] = Unborn \/ birth[o] \in DOMAIN sightings
  BY DEF BornWhenSeen, SeenAt
<1>5. /\ birth'[o] \in Nat /\ birth'[o] <= Now
      /\ birth'[o] = birth[o] \/ (birth[o] = Unborn /\ birth'[o] = Now)
      /\ birth[o] # Unborn => birth'[o] = birth[o]
  <2>1. birth[o] \in Nat /\ Unborn \in Nat
    BY SeenAre
  <2>2. CASE birth[o] = Unborn
    BY <1>1, <1>3, <2>1, <2>2 DEF Earlier
  <2>3. CASE birth[o] \in DOMAIN sightings
    <3>1. birth[o] < Now
      BY <1>1, <2>3
    <3>2. birth'[o] = birth[o]
      BY <1>3, <3>1 DEF Earlier
    <3>. QED  BY <1>1, <2>1, <3>1, <3>2
  <2>. QED  BY <1>4, <2>2, <2>3
<1>6. SightingsType'
  <2>1. sightings' \in Seq([order : Placed, judged : BOOLEAN])
    <3> DEFINE Sightings == [order : Placed, judged : BOOLEAN]
    <3>1. sightings \in Seq(Sightings) /\ [order |-> o, judged |-> j] \in Sightings
      BY DEF SightingsType
    <3> HIDE DEF Sightings
    <3>2. sightings' \in Seq(Sightings)
      BY <3>1
    <3>. QED  BY <3>2 DEF Sightings
  <2>2. Len(sightings') <= MaxSightings
    BY <1>1, <1>2, SeenAre, OrderTrustAssumption
  <2>3. \A p \in Placed : birth[p] \in 1..Unborn
    BY SeenAre, Element DEF SightingsType
  <2>4. birth'[o] \in 1..Unborn
    <3>1. Now \in 1..Unborn
      BY <1>1, SeenAre DEF Now
    <3>. QED  BY <1>5, <2>3, <3>1
  <2>5. birth' \in [Placed -> 1..Unborn]
    <3>1. birth' = [p \in Placed |-> birth'[p]]
      BY <1>3, SeenAre
    <3>2. \A p \in Placed : birth'[p] \in 1..Unborn
      BY <1>3, <2>3, <2>4
    <3>. QED  BY <3>1, <3>2
  <2>8. Placed = 1..Len(book) /\ Len(book) \in Nat
    BY DEF BookInv, BookType, Placed
  <2>6. birth' \in Seq(1..Unborn) /\ Len(birth') = Len(book)
    <3> DEFINE births == 1..Unborn
               n == Len(book)
    <3>1. n \in Nat /\ birth' \in [1..n -> births]
      BY <2>5, <2>8
    <3> HIDE DEF births, n
    <3>2. birth' \in Seq(births) /\ Len(birth') = n
      BY <3>1, IsSequence
    <3>. QED  BY <3>2 DEF births, n
  <2>7. Unborn' = Unborn /\ Placed' = Placed
    BY DEF Unborn, Placed
  <2>. QED  BY <2>1, <2>2, <2>6, <2>7 DEF SightingsType
<1>7. BornWhenSeen'
  <2> SUFFICES ASSUME NEW p \in Placed
               PROVE  /\ \A n \in SeenAt(p)' : birth'[p] <= n
                      /\ birth'[p] \in SeenAt(p)' \cup {Unborn}
    BY DEF BornWhenSeen, Placed, Unborn
  <2>1. SeenAt(p)' = SeenAt(p) \cup IF p = o THEN {Now} ELSE {}
    BY <1>1, <1>2 DEF SeenAt
  <2>2. \A n \in SeenAt(p) : birth[p] <= n /\ birth[p] # Unborn
    BY SeenAre DEF SeenAt
  <2>3. birth[p] \in SeenAt(p) \cup {Unborn}
    BY DEF BornWhenSeen
  <2>4. CASE p # o
    BY <1>3, <2>1, <2>2, <2>3, <2>4
  <2>5. CASE p = o
    <3>1. \A n \in SeenAt(o) : n \in Nat /\ birth'[o] = birth[o] /\ birth[o] <= n
      BY <1>5, <2>2, <2>5, SeenAre DEF SeenAt
    <3>2. SeenAt(o)' = SeenAt(o) \cup {Now}
      BY <2>1, <2>5
    <3>3. \A n \in SeenAt(o)' : birth'[o] <= n
      BY <1>5, <3>1, <3>2
    <3>4. birth'[o] \in SeenAt(o)' \cup {Unborn}
      BY <1>5, <2>3, <2>5, <3>2
    <3>. QED  BY <2>5, <3>3, <3>4
  <2>. QED  BY <2>4, <2>5
<1>8. \A p \in Placed : /\ birth[p] # Unborn => birth'[p] = birth[p]
                        /\ birth'[p] = birth[p] \/ (birth[p] = Unborn /\ birth'[p] = Now)
  BY <1>3, <1>5
<1>9. \A n \in DOMAIN sightings : sightings'[n] = sightings[n] /\ n < Now
  BY <1>1, <1>2
<1>10. \A p \in Placed : birth'[p] \in Nat
  BY <1>1, <1>8, SeenAre
<1>. QED  BY <1>1, <1>2, <1>5, <1>6, <1>7, <1>8, <1>9, <1>10

\* What an observation does not change of the orders a token is honoured for.
LEMMA HonouredStay ==
    ASSUME BookInv, SightingsType, BornWhenSeen, HonouredSinceBirth, JudgedAreNotFirst, UNCHANGED book,
           \A p \in Placed : birth[p] # Unborn => birth'[p] = birth[p]
    PROVE  /\ \A t \in DOMAIN first : /\ first[t].order \in Placed
                                      /\ Bears(first[t].order, t)
                                      /\ birth'[first[t].order] = first[t].ts
                                      /\ first[t].ts # Unborn /\ first[t].ts \in Nat
           /\ \A n \in DOMAIN sightings :
                 sightings[n].judged =>
                    LET o == sightings[n].order
                    IN /\ o \in Placed /\ TokensOf(book[o].pm) # {} /\ TokenOf(o) \in DOMAIN first
                       /\ first[TokenOf(o)].ts <= birth'[o] /\ birth'[o] = birth[o]
<1>1. \A t \in DOMAIN first : /\ first[t].order \in Placed
                              /\ Bears(first[t].order, t)
                              /\ birth[first[t].order] = first[t].ts
                              /\ first[t].ts # Unborn
  BY DEF HonouredSinceBirth
<1>2. \A t \in DOMAIN first : birth'[first[t].order] = first[t].ts /\ first[t].ts \in Nat
  BY <1>1, SeenAre
<1>3. \A n \in DOMAIN sightings : /\ sightings[n].order \in Placed
                                 /\ birth'[sightings[n].order] = birth[sightings[n].order]
  BY SeenAre
<1>. QED  BY <1>1, <1>2, <1>3 DEF JudgedAreNotFirst

\* With the book, what was derived from it stays.
LEMMA BookStays ==
    ASSUME UNCHANGED book
    PROVE  /\ Placed' = Placed /\ Unborn' = Unborn
           /\ \A o, t : Bears(o, t)' <=> Bears(o, t)
           /\ \A o : TokenOf(o)' = TokenOf(o)
  BY DEF Placed, Unborn, Bears, TokenOf

LEMMA NoteKeepsInv ==
    ASSUME TrustInv, BookInv', ClaimsType', NEW o \in Placed, NoteOrder(o)
    PROVE  TrustInv'
<1>1. /\ UNCHANGED book /\ UNCHANGED first /\ UNCHANGED judged /\ Len(sightings) < MaxSightings
      /\ birth' = [birth EXCEPT ![o] = Earlier(birth[o], Now)]
      /\ sightings' = Append(sightings, [order |-> o, judged |-> FALSE])
  BY DEF NoteOrder
<1>2. BookInv /\ SightingsType /\ BornWhenSeen /\ HonouredSinceBirth /\ JudgedAreNotFirst
  BY DEF TrustInv
<1>3. /\ SightingsType' /\ BornWhenSeen'
      /\ Now \in Nat /\ Now < Unborn /\ Now \notin DOMAIN sightings
      /\ DOMAIN sightings' = DOMAIN sightings \cup {Now}
      /\ sightings'[Now] = [order |-> o, judged |-> FALSE]
      /\ \A n \in DOMAIN sightings : sightings'[n] = sightings[n] /\ n < Now
      /\ \A p \in Placed : birth[p] # Unborn => birth'[p] = birth[p]
      /\ \A p \in Placed : birth'[p] = birth[p] \/ (birth[p] = Unborn /\ birth'[p] = Now)
  BY <1>1, <1>2, Observation
<1>4. HonouredSinceBirth'
  BY <1>1, <1>2, <1>3, HonouredStay, BookStays DEF HonouredSinceBirth
<1>5. JudgedAreNotFirst'
  <2> SUFFICES ASSUME NEW n \in DOMAIN sightings', sightings'[n].judged
               PROVE  LET p == sightings'[n].order
                      IN /\ TokensOf(book[p].pm) # {} /\ TokenOf(p) \in DOMAIN first
                         /\ first[TokenOf(p)].ts <= birth'[p]
    BY <1>1, BookStays DEF JudgedAreNotFirst
  <2>1. n \in DOMAIN sightings /\ sightings[n] = sightings'[n]
    BY <1>3
  <2>. QED  BY <1>1, <1>2, <1>3, <2>1, HonouredStay
<1>6. VerdictByBirth'
  <2> SUFFICES ASSUME judged # Nobody
               PROVE  VerdictByBirth'
    BY <1>1 DEF VerdictByBirth
  <2> DEFINE j == judged.order
  <2>1. /\ j \in Placed
        /\ \E n \in SeenAt(j) :
              sightings[n].judged /\ \A k \in DOMAIN sightings : sightings[k].judged => k <= n
        /\ judged.verdict = "invalid" => Rivals(j) # {}
        /\ \A n \in DOMAIN sightings :
              sightings[n].judged /\ sightings[n].order \in Rivals(j) => judged.verdict = "invalid"
    BY DEF TrustInv, VerdictByBirth
  <2>2. birth[j] < Unborn /\ birth[j] < Now /\ birth'[j] = birth[j] /\ birth[j] \in Nat
    BY <1>2, <1>3, <2>1, SeenAre DEF SeenAt
  <2>3. \A p \in Placed : birth'[p] < birth'[j] <=> birth[p] < birth[j]
    BY <1>2, <1>3, <2>1, <2>2, SeenAre
  <2>4. Rivals(j)' = Rivals(j)
    BY <1>1, <2>3, BookStays DEF Rivals
  <2>5. \A n \in SeenAt(j) : n \in SeenAt(j)'
    BY <1>1, <1>3 DEF SeenAt
  <2>6. \A n \in DOMAIN sightings' : sightings'[n].judged
           => n \in DOMAIN sightings /\ sightings[n] = sightings'[n]
    BY <1>3
  <2>7. \E n \in SeenAt(j)' :
           sightings'[n].judged /\ \A k \in DOMAIN sightings' : sightings'[k].judged => k <= n
    BY <1>3, <2>1, <2>5, <2>6 DEF SeenAt
  <2>8. \A n \in DOMAIN sightings' :
           sightings'[n].judged /\ sightings'[n].order \in Rivals(j)' => judged.verdict = "invalid"
    BY <2>1, <2>4, <2>6
  <2>9. judged' = judged /\ j \in Placed'
    BY <1>1, <2>1, BookStays
  <2>. QED  BY <2>1, <2>4, <2>7, <2>8, <2>9 DEF VerdictByBirth
<1>. QED  BY <1>3, <1>4, <1>5, <1>6 DEF TrustInv

\* The three outcomes of the check, in terms of births.
LEMMA Checked ==
    ASSUME BookInv, SightingsType, BornWhenSeen, HonouredSinceBirth, JudgedAreNotFirst, UNCHANGED book,
           NEW o \in Placed, Bears(o, TokenOf(o)),
           \A p \in Placed : birth[p] # Unborn => birth'[p] = birth[p],
           birth'[o] \in Nat, birth'[o] < Unborn, Check(o, TokenOf(o), birth'[o])
    PROVE  /\ judged'.order = o /\ TokenOf(o) \in DOMAIN first' /\ first'[TokenOf(o)].ts <= birth'[o]
           /\ \A t \in DOMAIN first' : /\ first'[t].order \in Placed
                                       /\ Bears(first'[t].order, t)
                                       /\ birth'[first'[t].order] = first'[t].ts
                                       /\ first'[t].ts # Unborn
           /\ \A t \in DOMAIN first : t \in DOMAIN first' /\ first'[t].ts <= first[t].ts
           /\ \/ judged'.verdict = "valid" /\ birth'[o] <= first'[TokenOf(o)].ts
              \/ /\ judged'.verdict = "invalid"
                 /\ \E p \in Placed \ {o} : Bears(p, TokenOf(o)) /\ birth'[p] < birth'[o]
<1> DEFINE token == TokenOf(o)
           ts == birth'[o]
<1>1. \A t \in DOMAIN first : /\ first[t].order \in Placed
                              /\ Bears(first[t].order, t)
                              /\ birth'[first[t].order] = first[t].ts
                              /\ first[t].ts # Unborn /\ first[t].ts \in Nat
  BY HonouredStay
<1>2. o # 0 /\ Unborn \in Nat
  BY SeenAre
<1>3. /\ token \in DOMAIN first => FirstOf(token) = first[token]
      /\ token \notin DOMAIN first => FirstOf(token).order = 0 /\ FirstOf(token).ts = Unborn
  BY DEF FirstOf
<1>4. CASE FirstOf(token).order = o
  <2>1. judged' = [order |-> o, verdict |-> "valid"] /\ first' = first
    BY <1>4 DEF Check
  <2>2. token \in DOMAIN first /\ first[token].order = o
    BY <1>2, <1>3, <1>4
  <2>3. first[token].ts = ts
    BY <1>1, <2>2
  <2>. QED  BY <1>1, <2>1, <2>2, <2>3
<1>5. CASE FirstOf(token).order # o /\ ts > FirstOf(token).ts
  <2>1. judged' = [order |-> o, verdict |-> "invalid"] /\ first' = first
    BY <1>5 DEF Check
  <2>2. token \in DOMAIN first
    BY <1>2, <1>3, <1>5
  <2>3. /\ first[token].order \in Placed \ {o} /\ Bears(first[token].order, token)
        /\ birth'[first[token].order] = first[token].ts
        /\ first[token].ts < ts /\ first[token].ts \in Nat
    BY <1>1, <1>3, <1>5, <2>2
  <2>. QED  BY <1>1, <2>1, <2>2, <2>3
<1>6. CASE FirstOf(token).order # o /\ ~(ts > FirstOf(token).ts)
  <2>1. judged' = [order |-> o, verdict |-> "valid"] /\ Honour(token, o, ts)
    BY <1>6 DEF Check
  <2>2. DOMAIN first' = DOMAIN first \cup {token}
    BY <2>1 DEF Honour
  <2>3. first'[token] = [order |-> o, ts |-> ts]
    BY <2>1 DEF Honour
  <2>4. \A t \in DOMAIN first : t # token => first'[t] = first[t]
    BY <2>1 DEF Honour
  <2>5. first'[token].order = o /\ first'[token].ts = ts
    BY <2>3
  <2>6. \A t \in DOMAIN first : first'[t].ts <= first[t].ts
    <3> TAKE t \in DOMAIN first
    <3>1. CASE t = token
      BY <1>1, <1>3, <1>6, <2>5, <3>1
    <3>2. CASE t # token
      BY <1>1, <2>4, <3>2
    <3>. QED  BY <3>1, <3>2
  <2> HIDE DEF token, ts
  <2>7. ASSUME NEW t \in DOMAIN first'
        PROVE  /\ first'[t].order \in Placed /\ Bears(first'[t].order, t)
               /\ birth'[first'[t].order] = first'[t].ts /\ first'[t].ts # Unborn
    <3>1. CASE t = token
      BY <1>2, <2>5, <3>1 DEF token, ts
    <3>2. CASE t # token
      BY <1>1, <2>2, <2>4, <3>2
    <3>. QED  BY <3>1, <3>2
  <2>8. /\ judged'.order = o /\ judged'.verdict = "valid" /\ token \in DOMAIN first'
        /\ first'[token].ts <= ts /\ ts <= first'[token].ts
    BY <2>1, <2>2, <2>5 DEF ts
  <2>. QED  BY <2>2, <2>6, <2>7, <2>8 DEF token, ts
<1>. QED  BY <1>4, <1>5, <1>6

LEMMA ObserveKeepsInv ==
    ASSUME TrustInv, BookInv', ClaimsType', NEW o \in Placed, ObserveOrder(o)
    PROVE  TrustInv'
<1> DEFINE ts == Earlier(birth[o], Now)
           token == TokenOf(o)
<1>1. /\ UNCHANGED book /\ Len(sightings) < MaxSightings /\ Annotate(o) # Nobody
      /\ birth' = [birth EXCEPT ![o] = ts] /\ Check(o, token, ts)
      /\ sightings' = Append(sightings, [order |-> o, judged |-> TRUE])
  BY DEF ObserveOrder
<1>2. BookInv /\ SightingsType /\ BornWhenSeen /\ HonouredSinceBirth /\ JudgedAreNotFirst
  BY DEF TrustInv
<1>3. /\ SightingsType' /\ BornWhenSeen'
      /\ Now \in Nat /\ Now < Unborn /\ Now \notin DOMAIN sightings
      /\ DOMAIN sightings' = DOMAIN sightings \cup {Now}
      /\ sightings'[Now] = [order |-> o, judged |-> TRUE]
      /\ \A n \in DOMAIN sightings : sightings'[n] = sightings[n] /\ n < Now
      /\ \A p \in Placed : birth[p] # Unborn => birth'[p] = birth[p]
      /\ birth'[o] <= Now /\ \A p \in Placed : birth'[p] \in Nat
  BY <1>1, <1>2, Observation
<1>4. birth'[o] = ts /\ birth'[o] \in Nat /\ birth'[o] < Unborn
  <2>1. birth'[o] = ts
    BY <1>1, <1>2, SeenAre
  <2>2. birth[o] \in Nat /\ Unborn \in Nat
    BY <1>2, SeenAre
  <2>3. ts \in Nat
    BY <1>3, <2>2 DEF Earlier
  <2> HIDE DEF ts
  <2>. QED  BY <1>3, <2>1, <2>2, <2>3
<1>5. Bears(o, token)
  BY <1>1, <1>2, AnnotatedBears
<1>6. /\ judged'.order = o /\ token \in DOMAIN first' /\ first'[token].ts <= birth'[o]
      /\ \A t \in DOMAIN first' : /\ first'[t].order \in Placed
                                  /\ Bears(first'[t].order, t)
                                  /\ birth'[first'[t].order] = first'[t].ts
                                  /\ first'[t].ts # Unborn
      /\ \A t \in DOMAIN first : t \in DOMAIN first' /\ first'[t].ts <= first[t].ts
      /\ \/ judged'.verdict = "valid" /\ birth'[o] <= first'[token].ts
         \/ /\ judged'.verdict = "invalid"
            /\ \E p \in Placed \ {o} : Bears(p, token) /\ birth'[p] < birth'[o]
  <2>1. Check(o, token, birth'[o])
    BY <1>1, <1>4
  <2> HIDE DEF ts
  <2>. QED  BY <1>1, <1>2, <1>3, <1>4, <1>5, <2>1, Checked
<1> HIDE DEF ts, token
<1>7. HonouredSinceBirth'
  BY <1>1, <1>6, BookStays DEF HonouredSinceBirth
<1>8. \A n \in DOMAIN sightings' :
         sightings'[n].judged =>
            LET q == sightings'[n].order
            IN /\ TokensOf(book[q].pm) # {} /\ TokenOf(q) \in DOMAIN first'
               /\ first'[TokenOf(q)].ts <= birth'[q]
  <2> TAKE n \in DOMAIN sightings'
  <2> HAVE sightings'[n].judged
  <2>1. CASE n = Now
    <3>1. sightings'[n].order = o
      BY <1>3, <2>1
    <3>2. TokensOf(book[o].pm) # {}
      BY <1>5 DEF Bears
    <3>. QED  BY <1>6, <3>1, <3>2 DEF token
  <2>2. CASE n # Now
    <3> DEFINE q == sightings[n].order
    <3>1. n \in DOMAIN sightings /\ sightings'[n] = sightings[n] /\ sightings[n].judged
      BY <1>3, <2>2
    <3>2. /\ q \in Placed /\ TokensOf(book[q].pm) # {} /\ TokenOf(q) \in DOMAIN first
          /\ first[TokenOf(q)].ts <= birth'[q] /\ birth'[q] = birth[q]
      BY <1>1, <1>2, <1>3, <3>1, HonouredStay
    <3>3. first[TokenOf(q)].ts \in Nat /\ birth[q] \in Nat
      BY <1>1, <1>2, <1>3, <3>2, HonouredStay, SeenAre
    <3>4. /\ TokenOf(q) \in DOMAIN first' /\ first'[TokenOf(q)].ts <= first[TokenOf(q)].ts
      BY <1>6, <3>2
    <3>5. first'[TokenOf(q)].ts \in Nat
      BY <1>3, <1>6, <3>4
    <3>6. first'[TokenOf(q)].ts <= birth'[q]
      BY <3>2, <3>3, <3>4, <3>5
    <3>. QED  BY <3>1, <3>2, <3>4, <3>6
  <2>. QED  BY <2>1, <2>2
<1>9. JudgedAreNotFirst'
  BY <1>1, <1>8, BookStays DEF JudgedAreNotFirst
<1>10. VerdictByBirth'
  <2>1. o \in Placed' /\ judged'.order = o
    BY <1>1, <1>6, BookStays
  <2>2. Now \in SeenAt(o)' /\ sightings'[Now].judged
    BY <1>3 DEF SeenAt
  <2>3. \A k \in DOMAIN sightings' : k <= Now
    BY <1>2, <1>3, SeenAre
  <2>4. Rivals(o)' = {p \in Placed \ {o} : Bears(p, token) /\ birth'[p] < birth'[o]}
    BY <1>1, BookStays DEF Rivals, token
  <2>5. judged'.verdict = "invalid" => Rivals(o)' # {}
    BY <1>6, <2>4
  <2>6. ASSUME NEW n \in DOMAIN sightings', sightings'[n].judged, sightings'[n].order \in Rivals(o)'
        PROVE  judged'.verdict = "invalid"
    <3> DEFINE q == sightings'[n].order
    <3>1. q \in Placed /\ q # o /\ TokenOf(q) = token /\ birth'[q] < birth'[o]
      BY <2>4, <2>6 DEF Bears
    <3>2. first'[token].ts <= birth'[q]
      BY <1>8, <2>6, <3>1
    <3>3. birth'[q] \in Nat /\ first'[token].ts \in Nat
      BY <1>3, <1>6, <3>1
    <3>4. ~(birth'[o] <= first'[token].ts)
      BY <1>4, <3>1, <3>2, <3>3
    <3>. QED  BY <1>6, <3>4
  <2>. QED  BY <2>1, <2>2, <2>3, <2>5, <2>6 DEF VerdictByBirth
<1>. QED  BY <1>3, <1>7, <1>9, <1>10 DEF TrustInv

\* A new order has no birth yet.
LEMMA PublishKeepsInv ==
    ASSUME TrustInv, BookInv', ClaimsType', NEW fa, NEW pm, NEW signer, Publish(fa, pm, signer)
    PROVE  TrustInv'
<1> DEFINE n == Len(book) + 1
<1>1. /\ book' = Append(book, [fa |-> fa, pm |-> pm, signer |-> signer])
      /\ birth' = Append(birth, Unborn)
      /\ UNCHANGED <<first, sightings, judged>>
  BY DEF Publish
<1>2. BookInv /\ SightingsType /\ BornWhenSeen /\ HonouredSinceBirth /\ JudgedAreNotFirst
  BY DEF TrustInv
<1>3. /\ Len(book) \in Nat /\ Placed = 1..Len(book) /\ Len(book') = n
      /\ \A o \in Placed : book'[o] = book[o]
      /\ \A o : o \in Placed' <=> o \in Placed \/ o = n
  BY <1>1, <1>2 DEF BookInv, BookType, Placed
<1>4. /\ birth' \in Seq(1..Unborn) /\ Len(birth') = n /\ birth'[n] = Unborn
      /\ \A o \in Placed : birth'[o] = birth[o]
  <2>1. Unborn \in 1..Unborn
    BY OrderTrustAssumption DEF Unborn
  <2>2. birth \in Seq(1..Unborn) /\ Len(birth) = Len(book)
    BY <1>2 DEF SightingsType
  <2> HIDE DEF n
  <2>3. birth' \in Seq(1..Unborn)
    BY <1>1, <2>1, <2>2
  <2>4. Len(birth') = n /\ birth'[n] = Unborn /\ \A o \in Placed : birth'[o] = birth[o]
    BY <1>1, <1>3, <2>2 DEF n
  <2>. QED  BY <2>3, <2>4
<1>5. n \notin Placed
  BY <1>3
<1> HIDE DEF n
<1>6. \A o \in Placed : TokenOf(o)' = TokenOf(o)
  BY <1>3 DEF TokenOf
<1>7. \A o \in Placed : \A t : Bears(o, t)' <=> Bears(o, t)
  BY <1>3, <1>6 DEF Bears
<1>8. Unborn' = Unborn /\ \A o : SeenAt(o)' = SeenAt(o)
  BY <1>1 DEF Unborn, SeenAt
<1>9. SightingsType'
  <2>1. sightings \in Seq([order : Placed, judged : BOOLEAN]) /\ Len(sightings) <= MaxSightings
    BY <1>2 DEF SightingsType
  <2>2. \A k \in DOMAIN sightings : sightings[k] \in [order : Placed, judged : BOOLEAN]
    BY <2>1, Element
  <2>3. \A k \in DOMAIN sightings : sightings[k] \in [order : Placed', judged : BOOLEAN]
    BY <1>3, <2>2
  <2>4. /\ sightings = [k \in 1..Len(sightings) |-> sightings[k]] /\ Len(sightings) \in Nat
        /\ DOMAIN sightings = 1..Len(sightings)
    BY <2>1
  <2>5. sightings \in [1..Len(sightings) -> [order : Placed', judged : BOOLEAN]]
    BY <2>3, <2>4
  <2>6. sightings \in Seq([order : Placed', judged : BOOLEAN])
    BY <2>4, <2>5, IsSequence
  <2>. QED  BY <1>1, <1>3, <1>4, <1>8, <2>1, <2>6 DEF SightingsType
<1>10. BornWhenSeen'
  <2>1. SeenAt(n) = {}
    BY <1>2, <1>5, SeenAre DEF SeenAt
  <2>2. \A o \in Placed : /\ \A k \in SeenAt(o) : birth[o] <= k
                          /\ birth[o] \in SeenAt(o) \cup {Unborn}
    BY <1>2 DEF BornWhenSeen
  <2>. QED  BY <1>3, <1>4, <1>8, <2>1, <2>2 DEF BornWhenSeen
<1>11. HonouredSinceBirth'
  BY <1>1, <1>2, <1>3, <1>4, <1>7, <1>8 DEF HonouredSinceBirth
<1>12. JudgedAreNotFirst'
  <2>1. \A k \in DOMAIN sightings : sightings[k].order \in Placed
    BY <1>2, SeenAre
  <2>. QED  BY <1>1, <1>2, <1>3, <1>4, <1>6, <2>1 DEF JudgedAreNotFirst
<1>13. VerdictByBirth'
  <2> SUFFICES ASSUME judged # Nobody
               PROVE  VerdictByBirth'
    BY <1>1 DEF VerdictByBirth
  <2> DEFINE j == judged.order
  <2>1. /\ j \in Placed
        /\ \E k \in SeenAt(j) :
              sightings[k].judged /\ \A l \in DOMAIN sightings : sightings[l].judged => l <= k
        /\ judged.verdict = "invalid" => Rivals(j) # {}
        /\ \A k \in DOMAIN sightings :
              sightings[k].judged /\ sightings[k].order \in Rivals(j) => judged.verdict = "invalid"
    BY DEF TrustInv, VerdictByBirth
  <2>2. birth[j] < Unborn /\ birth[j] \in Nat /\ Unborn \in Nat
    BY <1>2, <2>1, SeenAre DEF SeenAt
  <2>3. ~(birth'[n] < birth'[j])
    BY <1>4, <2>1, <2>2
  <2>4. /\ \A p \in Placed : Bears(p, TokenOf(j))' <=> Bears(p, TokenOf(j))
        /\ birth'[j] = birth[j] /\ \A p \in Placed : birth'[p] = birth[p]
    BY <1>1, <1>4, <1>6, <1>7, <2>1 DEF Bears
  <2>5. Rivals(j)' = {p \in Placed' \ {j} : Bears(p, TokenOf(j))' /\ birth'[p] < birth'[j]}
    BY <1>1 DEF Rivals
  <2>6. Rivals(j)' = Rivals(j)
    BY <1>3, <2>3, <2>4, <2>5 DEF Rivals
  <2>7. judged' = judged /\ j \in Placed' /\ SeenAt(j)' = SeenAt(j)
    BY <1>1, <1>3, <2>1 DEF SeenAt
  <2>. QED  BY <1>1, <2>1, <2>6, <2>7 DEF VerdictByBirth
<1>. QED  BY <1>9, <1>10, <1>11, <1>12, <1>13 DEF TrustInv

LEMMA TrustInitInv == TrustInit => TrustInv
<1>. SUFFICES ASSUME TrustInit PROVE TrustInv
  OBVIOUS
<1>1. book = <<>> /\ claims = <<>> /\ birth = <<>> /\ first = <<>> /\ sightings = <<>> /\ judged = Nobody
  BY DEF TrustInit
<1>2. BookInv /\ Placed = {}
  BY <1>1 DEF BookInv, BookType, Placed
<1>3. ClaimsType
  BY <1>1 DEF ClaimsType
<1>4. SightingsType
  BY <1>1, OrderTrustAssumption DEF SightingsType
<1>5. BornWhenSeen /\ HonouredSinceBirth /\ JudgedAreNotFirst /\ VerdictByBirth
  <2>1. BornWhenSeen
    BY <1>2 DEF BornWhenSeen
  <2>2. DOMAIN first = {} /\ DOMAIN sightings = {}
    BY <1>1
  <2>. QED  BY <1>1, <2>1, <2>2 DEF HonouredSinceBirth, JudgedAreNotFirst, VerdictByBirth
<1>. QED  BY <1>2, <1>3, <1>4, <1>5 DEF TrustInv

LEMMA TrustNextKeepsInv ==
    ASSUME TrustInv, TrustNext \/ UNCHANGED trustVars
    PROVE  TrustInv'
<1>1. BookInv' /\ ClaimsType'
  BY TrustNextKeepsBook, TrustNextKeepsClaims DEF TrustInv
<1>2. ASSUME UNCHANGED <<book, birth, first, sightings, judged>>
      PROVE  TrustInv'
  <2>1. /\ SightingsType' /\ HonouredSinceBirth' /\ JudgedAreNotFirst'
    BY <1>2, BookStays DEF TrustInv, SightingsType, HonouredSinceBirth, JudgedAreNotFirst
  <2>2. \A o : SeenAt(o)' = SeenAt(o) /\ Rivals(o)' = Rivals(o)
    BY <1>2, BookStays DEF SeenAt, Rivals
  <2>3. BornWhenSeen' /\ VerdictByBirth'
    BY <1>2, <2>2, BookStays DEF TrustInv, BornWhenSeen, VerdictByBirth
  <2>. QED  BY <1>1, <2>1, <2>3 DEF TrustInv
<1>3. ASSUME UNCHANGED trustVars PROVE TrustInv'
  BY <1>2, <1>3 DEF trustVars
<1>4. ASSUME NEW m \in Makers, NEW orders \in SUBSET Placed, AddSocialIndex(m, orders)
      PROVE  TrustInv'
  BY <1>2, <1>4 DEF AddSocialIndex
<1>5. ASSUME NEW o \in Placed, NoteOrder(o) PROVE TrustInv'
  BY <1>1, <1>5, NoteKeepsInv
<1>6. ASSUME NEW o \in Placed, ObserveOrder(o) PROVE TrustInv'
  BY <1>1, <1>6, ObserveKeepsInv
<1>7. ASSUME NEW m \in Makers, NEW o \in Placed, PlaceWithTwoTokens(m, o) PROVE TrustInv'
  BY <1>1, <1>7, PublishKeepsInv DEF PlaceWithTwoTokens
<1>8. ASSUME NEW m \in Makers, Place(m) PROVE TrustInv'
  BY <1>1, <1>8, PublishKeepsInv DEF Place
<1>9. ASSUME NEW o \in Placed, PlaceCopy(o) PROVE TrustInv'
  BY <1>1, <1>9, PublishKeepsInv DEF PlaceCopy
<1>10. ASSUME PlaceWithoutToken PROVE TrustInv'
  BY <1>1, <1>10, PublishKeepsInv DEF PlaceWithoutToken
<1>. QED
  BY <1>3, <1>4, <1>5, <1>6, <1>7, <1>8, <1>9, <1>10 DEF TrustNext

\* What the verdict says of births it says of observations.
LEMMA VerdictByObservation == TrustInv => FirstObservedWins
<1> SUFFICES ASSUME TrustInv, judged # Nobody
             PROVE  FirstObservedWins
  BY DEF FirstObservedWins
<1> DEFINE j == judged.order
           before == {p \in Placed \ {j} :
                        /\ TokensOf(book[p].pm) # {} /\ TokenOf(p) = TokenOf(j)
                        /\ \E n \in SeenAt(p) : \A k \in SeenAt(j) : n < k}
           last == CHOOSE n \in SeenAt(j) :
                     sightings[n].judged /\ \A k \in SeenAt(j) : sightings[k].judged => k <= n
<1>1. BookInv /\ SightingsType /\ BornWhenSeen
  BY DEF TrustInv
<1>2. /\ j \in Placed
      /\ \E n \in SeenAt(j) :
            sightings[n].judged /\ \A k \in DOMAIN sightings : sightings[k].judged => k <= n
      /\ judged.verdict = "invalid" => Rivals(j) # {}
      /\ \A n \in DOMAIN sightings :
            sightings[n].judged /\ sightings[n].order \in Rivals(j) => judged.verdict = "invalid"
  BY DEF TrustInv, VerdictByBirth
<1>3. \A o \in Placed : /\ \A n \in SeenAt(o) : birth[o] <= n /\ n \in Nat /\ n \in DOMAIN sightings
                       /\ birth[o] \in SeenAt(o) \cup {Unborn} /\ birth[o] \in Nat
                       /\ birth[o] <= Unborn
  BY <1>1, SeenAre DEF BornWhenSeen, SeenAt
<1>4. birth[j] \in SeenAt(j)
  <2>1. birth[j] < Unborn /\ Unborn \in Nat
    BY <1>1, <1>2, SeenAre DEF SeenAt
  <2>. QED  BY <1>2, <1>3, <2>1
<1>5. before = Rivals(j)
  <2> SUFFICES ASSUME NEW p \in Placed \ {j}
               PROVE  (\E n \in SeenAt(p) : \A k \in SeenAt(j) : n < k) <=> birth[p] < birth[j]
    BY DEF Rivals, Bears
  <2>1. ASSUME NEW n \in SeenAt(p), \A k \in SeenAt(j) : n < k
        PROVE  birth[p] < birth[j]
    <3>1. n < birth[j] /\ birth[p] <= n /\ n \in Nat /\ birth[p] \in Nat /\ birth[j] \in Nat
      BY <1>2, <1>3, <1>4, <2>1
    <3>. QED  BY <3>1
  <2>2. ASSUME birth[p] < birth[j]
        PROVE  \E n \in SeenAt(p) : \A k \in SeenAt(j) : n < k
    <3>1. /\ birth[p] \in Nat /\ birth[j] \in Nat /\ birth[j] <= Unborn
          /\ Unborn \in Nat
      BY <1>1, <1>2, <1>3, SeenAre
    <3>2. birth[p] # Unborn
      BY <2>2, <3>1
    <3>3. birth[p] \in SeenAt(p)
      BY <1>3, <3>2
    <3>4. \A k \in SeenAt(j) : birth[p] < k
      BY <1>2, <1>3, <2>2, <3>1
    <3>. QED  BY <3>3, <3>4
  <2>. QED  BY <2>1, <2>2
<1>6. last \in SeenAt(j)
  BY <1>2, <1>3
<1> HIDE DEF last
<1>7. \A n \in 1..last : n \in DOMAIN sightings
  BY <1>1, <1>2, <1>3, <1>6, SeenAre
<1>8. /\ judged.verdict = "invalid" => before # {}
      /\ (\E n \in 1..last : sightings[n].order \in before /\ sightings[n].judged)
         => judged.verdict = "invalid"
  BY <1>2, <1>5, <1>7
<1>. QED  BY <1>8 DEF FirstObservedWins, SeenAt, last

\* The invariant holds.
LEMMA TrustInvHolds == Spec => []TrustInv
<1>1. Init => TrustInv
  BY TrustInitInv DEF Init
<1>2. TrustInv /\ [Next]_<<part, exchangeVars, chatVars, trustVars, encryptorVars>> => TrustInv'
  BY TrustNextKeepsInv DEF Next
<1>. QED  BY <1>1, <1>2, PTL DEF Spec

\* An order is attributed to the identity that signed its terms as soon as it
\* claims the order, whoever else does, and otherwise to nobody.
THEOREM AnnotationMatchesSignerHolds == Spec => []AnnotationMatchesSigner
<1>1. TrustInv => AnnotationMatchesSigner
  BY AnnotatesSigner DEF TrustInv
<1>. QED  BY <1>1, TrustInvHolds, PTL

\* Of the orders with one token, the one that was observed first is honoured.
THEOREM FirstObservedWinsHolds == Spec => []FirstObservedWins
<1>. QED  BY VerdictByObservation, TrustInvHolds, PTL

-----------------------------------------------------------------------------
(* The exchange with the daemon.  A message that is written is the message  *)
(* that is read; so the daemon has what was sent, and what it answers       *)
(* reaches the call as it was decided.  The invariant keeps, for each DM,   *)
(* that it answers a call or has no request id, which is what tells a       *)
(* call's own answer from the rest.                                         *)

\* What is written is read back.
LEMMA ReadsWritten ==
    ASSUME NEW shape, NEW v, DOMAIN v = Fields(shape), v = [f \in Fields(shape) |-> v[f]],
           \A f \in shape.must : v[f] # Null,
           shape.tuple => shape.omitted = {}
    PROVE  Read(shape, Written(shape, v)) = v
<1> DEFINE json == Written(shape, v)
<1>1. json = [f \in {g \in DOMAIN v : v[g] # Null \/ g \notin shape.omitted} |-> v[f]]
  BY DEF Written
<1>2. /\ \A f \in Fields(shape) : f \in DOMAIN json <=> v[f] # Null \/ f \notin shape.omitted
      /\ \A f \in DOMAIN json : f \in Fields(shape) /\ json[f] = v[f]
  BY <1>1
<1> HIDE DEF json
<1>3. \A f \in shape.must : f \in DOMAIN json /\ json[f] # Null
  BY <1>2 DEF Fields
<1>4. shape.tuple => Fields(shape) \subseteq DOMAIN json
  BY <1>2
<1>5. Read(shape, json) = [f \in Fields(shape) |-> IF f \in DOMAIN json THEN json[f] ELSE Null]
  BY <1>3, <1>4 DEF Read
<1>6. \A f \in Fields(shape) : (IF f \in DOMAIN json THEN json[f] ELSE Null) = v[f]
  BY <1>2
<1>. QED  BY <1>5, <1>6 DEF json

\* The fields that are sent of an object.
LEMMA WrittenIs ==
    ASSUME NEW shape, NEW S, NEW v \in [Fields(shape) -> S]
    PROVE  \E F \in Sent(shape) : Written(shape, v) \in [F -> S]
<1> DEFINE some == {f \in shape.omitted : f \in Fields(shape) /\ v[f] # Null}
           F == (Fields(shape) \ shape.omitted) \cup some
<1>1. F \in Sent(shape)
  BY DEF Sent
<1>2. Written(shape, v) = [f \in F |-> v[f]]
  BY DEF Written
<1>. QED  BY <1>1, <1>2

\* The shapes.
LEMMA ShapesAre ==
    /\ ~OrderShape.tuple /\ ~KindShape.tuple
    /\ Fields(KindShape) = {"action", "request_id", "trade_index", "payload", "id"}
    /\ KindShape.must = {"action"}
    /\ HoldsOrder \subseteq DOMAIN PayloadShape
    /\ \A variant \in DOMAIN PayloadShape :
          PayloadShape[variant].tuple => PayloadShape[variant].omitted = {}
    /\ \A variant \in HoldsOrder :
          "order" \in Fields(PayloadShape[variant]) \ PayloadShape[variant].omitted
<1>1. ~OrderShape.tuple /\ ~KindShape.tuple
  BY DEF OrderShape, KindShape, Object
<1>2. Fields(KindShape) = {"action", "request_id", "trade_index", "payload", "id"} /\ KindShape.must = {"action"}
  BY DEF KindShape, Object, Fields
<1>3. HoldsOrder \subseteq DOMAIN PayloadShape
  BY DEF HoldsOrder, PayloadShape
<1>4. \A variant \in DOMAIN PayloadShape :
          PayloadShape[variant].tuple => PayloadShape[variant].omitted = {}
  <2> DEFINE fits(shape) == shape.tuple => shape.omitted = {}
  <2>1. \A must, nullable : fits(Tuple(must, nullable))
    BY DEF Tuple
  <2>2. \A must, nullable, omitted : fits(Object(must, nullable, omitted))
    BY DEF Object
  <2>3. fits(OrderShape)
    BY <2>2 DEF OrderShape
  <2> HIDE DEF fits
  <2>4. \A variant \in DOMAIN PayloadShape : fits(PayloadShape[variant])
    BY <2>1, <2>2, <2>3 DEF PayloadShape
  <2>. QED  BY <2>4 DEF fits
<1>5. \A variant \in HoldsOrder :
          "order" \in Fields(PayloadShape[variant]) \ PayloadShape[variant].omitted
  BY DEF HoldsOrder, PayloadShape, Tuple, Object, Fields
<1>. QED  BY <1>1, <1>2, <1>3, <1>4, <1>5

\* The fields of an object are those of its shape.
LEMMA ObjectsAre ==
    ASSUME NEW shape, NEW values, NEW v \in ObjectsOf(shape, values)
    PROVE  /\ DOMAIN v = Fields(shape) /\ v = [f \in Fields(shape) |-> v[f]]
           /\ v \in [Fields(shape) -> values \cup {Null}]
           /\ \A f \in shape.must : v[f] # Null
BY DEF ObjectsOf

LEMMA FieldsAreSent ==
    ASSUME NEW shape
    PROVE  Fields(shape) \in Sent(shape)
<1>1. Fields(shape) = (Fields(shape) \ shape.omitted) \cup shape.omitted
  BY DEF Fields
<1>. QED  BY <1>1 DEF Sent

\* Null and Malformed are apart from all the rest.
LEMMA NullIsApart ==
    ASSUME NEW x \in {Null, Malformed}, NEW variant \in DOMAIN PayloadShape,
           NEW F \in Sent(PayloadShape[variant]), NEW G \in Sent(OrderShape)
    PROVE  /\ x \notin Scalars /\ x \notin SmallOrders
           /\ x \notin PayloadValues(variant) /\ x \notin Payloads(variant)
           /\ x \notin Messages(variant)
           /\ x \notin JsonOrders(G) /\ x \notin JsonValues(F, G)
           /\ x \notin JsonPayloads(variant, F, G)
           /\ x \notin JsonKinds(variant, Fields(KindShape), F, G)
BY MessagesAssumption

\* A payload that is sent is the payload that is read.
LEMMA PayloadRoundTrip ==
    ASSUME NEW variant \in DOMAIN PayloadShape, NEW payload \in Payloads(variant)
    PROVE  /\ PayloadFromJson(PayloadToJson(payload)) = payload
           /\ \E F \in Sent(PayloadShape[variant]), G \in Sent(OrderShape) :
                 PayloadToJson(payload) \in JsonPayloads(variant, F, G)
<1> DEFINE shape == PayloadShape[variant]
           v     == payload.value
           w     == Written(shape, v)
           json  == PayloadToJson(payload)
<1>1. /\ payload = [variant |-> variant, value |-> v] /\ payload.variant = variant
      /\ v \in PayloadValues(variant)
  BY DEF Payloads
<1>2. payload # Null /\ payload # Malformed /\ v # Malformed
  BY <1>1, FieldsAreSent, NullIsApart
<1>3. /\ DOMAIN v = Fields(shape) /\ v = [f \in Fields(shape) |-> v[f]]
      /\ \A f \in shape.must : v[f] # Null
  BY <1>1, ObjectsAre DEF PayloadValues
<1>4. Read(shape, w) = v
  BY <1>3, ReadsWritten, ShapesAre
<1>5. ASSUME json = [variant |-> variant, value |-> w], variant \notin HoldsOrder \/ v.order = Null,
             NEW F \in Sent(shape), NEW G \in Sent(OrderShape), w \in JsonValues(F, G)
      PROVE  /\ PayloadFromJson(json) = payload
             /\ json \in JsonPayloads(variant, F, G)
  <2>1. json \in JsonPayloads(variant, F, G)
    BY <1>5 DEF JsonPayloads
  <2>2. json # Null /\ json.variant = variant /\ json.value = w
    BY <1>5, <2>1, NullIsApart
  <2>3. Null # Malformed
    BY MessagesAssumption
  <2>4. PayloadFromJson(json) = [variant |-> variant, value |-> v]
    BY <1>2, <1>4, <1>5, <2>2, <2>3 DEF PayloadFromJson
  <2>. QED  BY <1>1, <2>1, <2>4
<1>6. CASE variant \notin HoldsOrder
  <2>1. v \in [Fields(shape) -> Scalars \cup {Null}]
    BY <1>1, <1>6, ObjectsAre DEF PayloadValues
  <2>2. PICK F \in Sent(shape) : w \in [F -> Scalars \cup {Null}]
    BY <2>1, WrittenIs
  <2>3. PICK G \in Sent(OrderShape) : TRUE
    BY FieldsAreSent
  <2>4. w \in JsonValues(F, G)
    BY <2>2 DEF JsonValues
  <2>5. json = [variant |-> variant, value |-> w]
    BY <1>1, <1>2, <1>6 DEF PayloadToJson
  <2>. QED  BY <1>5, <1>6, <2>4, <2>5
<1>7. CASE variant \in HoldsOrder
  <2>1. \A f \in Fields(shape) : v[f] \in (IF f = "order" THEN SmallOrders ELSE Scalars) \cup {Null}
    BY <1>1, <1>3, <1>7 DEF PayloadValues
  <2>2. "order" \in Fields(shape) /\ "order" \notin shape.omitted
    BY <1>7, ShapesAre
  <2>3. "order" \in DOMAIN w /\ w.order = v.order
    BY <1>3, <2>2 DEF Written
  <2>4. CASE v.order = Null
    <3>1. v \in [Fields(shape) -> Scalars \cup {Null}]
      BY <1>3, <2>1, <2>4
    <3>2. PICK F \in Sent(shape) : w \in [F -> Scalars \cup {Null}]
      BY <3>1, WrittenIs
    <3>3. PICK G \in Sent(OrderShape) : TRUE
      BY FieldsAreSent
    <3>4. w \in JsonValues(F, G)
      BY <3>2 DEF JsonValues
    <3>5. json = [variant |-> variant, value |-> w]
      BY <1>1, <1>2, <2>3, <2>4 DEF PayloadToJson
    <3>. QED  BY <1>5, <2>4, <3>4, <3>5
  <2>5. CASE v.order # Null
    <3> DEFINE o  == v.order
               wo == Written(OrderShape, o)
               v2 == [v EXCEPT !.order = wo]
               w2 == [w EXCEPT !.order = wo]
    <3>1. o \in SmallOrders
      BY <2>1, <2>2, <2>5
    <3>2. PICK G \in Sent(OrderShape) : wo \in JsonOrders(G)
      BY <3>1, ObjectsAre, WrittenIs DEF SmallOrders, JsonOrders
    <3>3. wo # Null /\ o # Malformed
      BY <3>1, <3>2, FieldsAreSent, NullIsApart
    <3>4. Read(OrderShape, wo) = o
      BY <3>1, ObjectsAre, ReadsWritten, ShapesAre DEF SmallOrders
    <3> HIDE DEF o, wo
    <3>5. /\ DOMAIN v2 = Fields(shape) /\ v2 = [f \in Fields(shape) |-> v2[f]]
          /\ \A f \in shape.must : v2[f] # Null
          /\ v2.order = wo /\ \A f \in Fields(shape) \ {"order"} : v2[f] = v[f]
      BY <1>3, <2>2, <3>3 DEF Fields
    <3>6. Written(shape, v2) = w2
      <4> DEFINE D == {g \in Fields(shape) : v[g] # Null \/ g \notin shape.omitted}
      <4>1. w = [f \in D |-> v[f]] /\ "order" \in D
        BY <1>3, <2>2 DEF Written
      <4>2. w2 = [f \in D |-> v2[f]]
        BY <3>5, <4>1
      <4>3. \A g \in Fields(shape) : v2[g] # Null <=> v[g] # Null
        BY <2>5, <3>3, <3>5 DEF o
      <4>4. DOMAIN v2 = Fields(shape)
        BY <3>5
      <4> HIDE DEF v2, w2
      <4>5. {g \in DOMAIN v2 : v2[g] # Null \/ g \notin shape.omitted} = D
        BY <4>3, <4>4
      <4>. QED  BY <4>2, <4>5 DEF Written
    <3>7. Read(shape, w2) = v2
      BY <3>5, <3>6, ReadsWritten, ShapesAre
    <3>8. v2 \in [Fields(shape) -> Scalars \cup JsonOrders(G) \cup {Null}]
      BY <2>1, <3>2, <3>5
    <3>9. PICK F \in Sent(shape) : w2 \in JsonValues(F, G)
      <4> HIDE DEF v2, w2
      <4>1. PICK F \in Sent(shape) : Written(shape, v2) \in [F -> Scalars \cup JsonOrders(G) \cup {Null}]
        BY <3>8, WrittenIs
      <4>. QED  BY <3>6, <4>1 DEF JsonValues
    <3>10. v2 # Malformed
      BY <3>8, FieldsAreSent, NullIsApart DEF JsonValues
    <3>11. json = [variant |-> variant, value |-> w2]
      BY <1>1, <1>2, <1>7, <2>3, <2>5 DEF PayloadToJson, o, wo
    <3>12. json \in JsonPayloads(variant, F, G)
      BY <3>9, <3>11 DEF JsonPayloads
    <3>13. json # Null /\ json.variant = variant /\ json.value = w2
      BY <3>11, <3>12, NullIsApart
    <3>14. PayloadFromJson(json) = [variant |-> variant, value |-> [v2 EXCEPT !.order = o]]
      BY <1>7, <3>3, <3>4, <3>5, <3>7, <3>10, <3>13 DEF PayloadFromJson
    <3>15. [v2 EXCEPT !.order = o] = v
      BY <1>3, <2>2, <3>5 DEF o
    <3>. QED  BY <1>1, <3>12, <3>14, <3>15
  <2>. QED  BY <2>4, <2>5
<1>. QED  BY <1>6, <1>7

\* A message that is sent is the message that is read.
THEOREM MessageRoundTrip ==
    ASSUME NEW variant \in DOMAIN PayloadShape, NEW message \in Messages(variant)
    PROVE  /\ MessageFromJson(MessageToJson(message)) = message
           /\ \E K \in Sent(KindShape), F \in Sent(PayloadShape[variant]), G \in Sent(OrderShape) :
                 MessageToJson(message) \in JsonMessages(variant, K, F, G)
<1> DEFINE kind  == message.value
           pj    == PayloadToJson(kind.payload)
           kind2 == [kind EXCEPT !.payload = pj]
           w     == Written(KindShape, kind2)
           json  == MessageToJson(message)
<1>1. /\ message.variant \in MessageVariant /\ kind \in Kinds(variant)
      /\ message = [variant |-> message.variant, value |-> kind]
  BY DEF Messages
<1>2. kind.payload # Malformed /\ kind.payload \in Payloads(variant) \cup {Null}
  <2>1. Null # Malformed
    BY MessagesAssumption
  <2>. QED  BY <1>1, <2>1, FieldsAreSent, NullIsApart DEF Kinds
<1>3. PICK F \in Sent(PayloadShape[variant]), G \in Sent(OrderShape) :
         pj \in JsonPayloads(variant, F, G) \cup {Null}
  <2>1. CASE kind.payload = Null
    BY <2>1, FieldsAreSent DEF PayloadToJson
  <2>2. CASE kind.payload # Null
    BY <1>2, <2>2, PayloadRoundTrip
  <2>. QED  BY <2>1, <2>2
<1>4. PayloadFromJson(pj) = kind.payload
  <2>1. CASE kind.payload = Null
    BY <2>1 DEF PayloadToJson, PayloadFromJson
  <2>2. CASE kind.payload # Null
    BY <1>2, <2>2, PayloadRoundTrip
  <2>. QED  BY <2>1, <2>2
<1>5. DOMAIN kind = Fields(KindShape) /\ kind = [f \in Fields(KindShape) |-> kind[f]]
  BY <1>1, ShapesAre DEF Kinds
<1>6. \A f \in Fields(KindShape) \ {"payload"} : kind[f] \in Scalars \cup {Null}
  BY <1>1, ShapesAre DEF Kinds, Scalars
<1>7. kind["action"] # Null
  <2>1. kind["action"] \in Scalars
    BY <1>1 DEF Kinds, Scalars
  <2>. QED  BY <2>1, FieldsAreSent, NullIsApart
<1>8. "payload" \in Fields(KindShape) /\ "action" \in Fields(KindShape)
  BY ShapesAre
<1> HIDE DEF pj, kind
<1>9. /\ DOMAIN kind2 = Fields(KindShape) /\ kind2 = [f \in Fields(KindShape) |-> kind2[f]]
      /\ kind2.payload = pj /\ \A f \in Fields(KindShape) \ {"payload"} : kind2[f] = kind[f]
  BY <1>5, <1>8
<1>10. \A f \in KindShape.must : kind2[f] # Null
  BY <1>7, <1>8, <1>9, ShapesAre
<1>11. Read(KindShape, w) = kind2
  BY <1>9, <1>10, ReadsWritten, ShapesAre
<1>12. kind2 \in JsonKinds(variant, Fields(KindShape), F, G)
  BY <1>3, <1>6, <1>9 DEF JsonKinds
<1>13. kind2 # Malformed
  BY <1>12, NullIsApart
<1>14. PICK K \in Sent(KindShape) : w \in JsonKinds(variant, K, F, G)
  BY <1>12, WrittenIs DEF JsonKinds
<1>15. json = [variant |-> message.variant, value |-> w]
  BY DEF MessageToJson, pj, kind
<1>16. [kind2 EXCEPT !.payload = kind.payload] = kind
  BY <1>5, <1>8, <1>9
<1>17. json \in JsonMessages(variant, K, F, G)
  BY <1>1, <1>14, <1>15 DEF JsonMessages
<1>18. MessageFromJson(json) = message
  <2>1. kind2.payload = pj
    BY <1>9
  <2> HIDE DEF kind2, w, json
  <2>2. json.variant = message.variant /\ json.value = w
    BY <1>15
  <2>3. MessageFromJson(json) = [variant |-> message.variant, value |-> kind]
    BY <1>1, <1>2, <1>4, <1>11, <1>13, <1>16, <2>1, <2>2 DEF MessageFromJson, kind
  <2>. QED  BY <1>1, <2>3 DEF kind
<1>. QED  BY <1>17, <1>18

-----------------------------------------------------------------------------
(* The messages that are built.                                             *)

\* The shapes of the payloads that calls and answers have.
LEMMA PayloadShapesAre ==
    /\ PayloadShape["order"] = OrderShape
    /\ Fields(PayloadShape["amount"]) = {"amount"}
    /\ Fields(PayloadShape["payment_request"]) = {"invoice", "order", "amount"}
    /\ PayloadShape["payment_request"].must = {"invoice"}
    /\ Fields(PayloadShape["next_trade"]) = {"pubkey", "index"}
    /\ Fields(PayloadShape["rating_user"]) = {"rating"}
    /\ Fields(PayloadShape["bond_resolution"]) = {"slash_seller", "slash_buyer"}
    /\ Fields(PayloadShape["cant_do"]) = {"reason"} /\ PayloadShape["cant_do"].must = {}
    /\ Fields(PayloadShape["dispute"]) = {"dispute_id", "info"}
    /\ PayloadShape["dispute"].must = {"dispute_id"}
    /\ {"order", "amount", "payment_request", "next_trade", "rating_user", "bond_resolution",
        "cant_do", "dispute"} \subseteq DOMAIN PayloadShape
BY DEF PayloadShape, Tuple, Object, Fields

LEMMA OrderShapeIs ==
    /\ OrderShape.must = {"amount", "fiat_amount", "terms"}
    /\ Fields(OrderShape) = {"amount", "fiat_amount", "terms", "kind", "status", "min_amount",
                             "max_amount", "created_at", "expires_at", "id", "buyer_trade_pubkey",
                             "seller_trade_pubkey", "buyer_invoice"}
BY DEF OrderShape, Object, Fields

\* Values are not Null.
LEMMA ScalarsAreNotNull == \A x \in Scalars \cup SmallOrders : x # Null /\ x # Malformed
BY MessagesAssumption

\* Musts are fields.
LEMMA MustsAreFields == \A shape : shape.must \subseteq Fields(shape)
BY DEF Fields

\* A new order with its amounts and terms.
LEMMA NewSmallOrderType ==
    ASSUME NEW given, \A f \in DOMAIN given : given[f] \in Scalars \cup {Null},
           \A f \in OrderShape.must : f \in DOMAIN given /\ given[f] \in Scalars
    PROVE  NewSmallOrder(given) \in SmallOrders
<1> DEFINE order == NewSmallOrder(given)
<1>1. order = [f \in Fields(OrderShape) |-> IF f \in DOMAIN given THEN given[f] ELSE Null]
  BY DEF NewSmallOrder
<1>2. order \in [Fields(OrderShape) -> Scalars \cup {Null}]
  BY <1>1
<1>3. \A f \in OrderShape.must : order[f] # Null
  BY <1>1, MustsAreFields, ScalarsAreNotNull
<1>. QED  BY <1>2, <1>3 DEF SmallOrders, ObjectsOf

\* A payload of a variant without an order.
LEMMA PlainPayloadType ==
    ASSUME NEW variant \in DOMAIN PayloadShape \ HoldsOrder,
           NEW value \in [Fields(PayloadShape[variant]) -> Scalars \cup {Null}],
           \A f \in PayloadShape[variant].must : value[f] \in Scalars
    PROVE  Payload(variant, value) \in Payloads(variant)
<1>1. \A f \in PayloadShape[variant].must : value[f] # Null
  BY ScalarsAreNotNull
<1>2. value \in PayloadValues(variant)
  BY <1>1 DEF PayloadValues, ObjectsOf
<1>. QED  BY <1>2 DEF Payloads, Payload

LEMMA OrderPayloadType ==
    ASSUME NEW order \in SmallOrders
    PROVE  Payload("order", order) \in Payloads("order")
BY PayloadShapesAre DEF Payloads, Payload, PayloadValues, SmallOrders, HoldsOrder

LEMMA RequestPayloadType ==
    ASSUME NEW order \in SmallOrders \cup {Null}, NEW invoice \in STRING, NEW amount \in Nat \cup {Null}
    PROVE  Request(order, invoice, amount) \in Payloads("payment_request")
<1> DEFINE value == [order |-> order, invoice |-> invoice, amount |-> amount]
<1>1. value \in [Fields(PayloadShape["payment_request"]) -> Scalars \cup SmallOrders \cup {Null}]
  BY PayloadShapesAre DEF Scalars
<1>2. \A f \in PayloadShape["payment_request"].must : value[f] # Null
  <2>1. invoice # Null
    BY ScalarsAreNotNull DEF Scalars
  <2>. QED  BY <2>1, PayloadShapesAre
<1>3. \A f \in DOMAIN value : value[f] \in (IF f = "order" THEN SmallOrders ELSE Scalars) \cup {Null}
  BY DEF Scalars
<1>4. value \in PayloadValues("payment_request")
  BY <1>1, <1>2, <1>3 DEF PayloadValues, ObjectsOf, HoldsOrder
<1>. QED  BY <1>4 DEF Payloads, Payload, Request

LEMMA SimplePayloadTypes ==
    /\ \A a \in Nat : Payload("amount", [amount |-> a]) \in Payloads("amount")
    /\ \A k \in STRING, i \in Nat :
          Payload("next_trade", [pubkey |-> k, index |-> i]) \in Payloads("next_trade")
    /\ \A r \in Nat : Payload("rating_user", [rating |-> r]) \in Payloads("rating_user")
    /\ \A s, b \in BOOLEAN :
          Payload("bond_resolution", [slash_seller |-> s, slash_buyer |-> b]) \in Payloads("bond_resolution")
    /\ Payload("cant_do", [reason |-> Null]) \in Payloads("cant_do")
    /\ \A d \in STRING :
          Payload("dispute", [dispute_id |-> d, info |-> Null]) \in Payloads("dispute")
<1> USE PayloadShapesAre DEF Scalars
<1>0. \A variant \in DOMAIN PayloadShape : PayloadShape[variant].must \subseteq Fields(PayloadShape[variant])
  BY MustsAreFields
<1>1. ASSUME NEW a \in Nat PROVE Payload("amount", [amount |-> a]) \in Payloads("amount")
  <2>1. [amount |-> a] \in [Fields(PayloadShape["amount"]) -> Scalars \cup {Null}]
    OBVIOUS
  <2>2. \A f \in PayloadShape["amount"].must : [amount |-> a][f] \in Scalars
    BY <1>0
  <2>. QED  BY <2>1, <2>2, PlainPayloadType DEF HoldsOrder
<1>2. ASSUME NEW k \in STRING, NEW i \in Nat
      PROVE  Payload("next_trade", [pubkey |-> k, index |-> i]) \in Payloads("next_trade")
  <2> DEFINE v == [pubkey |-> k, index |-> i]
  <2>1. v \in [Fields(PayloadShape["next_trade"]) -> Scalars \cup {Null}]
    OBVIOUS
  <2>2. \A f \in PayloadShape["next_trade"].must : v[f] \in Scalars
    BY <1>0
  <2>. QED  BY <2>1, <2>2, PlainPayloadType DEF HoldsOrder
<1>3. ASSUME NEW r \in Nat PROVE Payload("rating_user", [rating |-> r]) \in Payloads("rating_user")
  <2> DEFINE v == [rating |-> r]
  <2>1. v \in [Fields(PayloadShape["rating_user"]) -> Scalars \cup {Null}]
    OBVIOUS
  <2>2. \A f \in PayloadShape["rating_user"].must : v[f] \in Scalars
    BY <1>0
  <2>. QED  BY <2>1, <2>2, PlainPayloadType DEF HoldsOrder
<1>4. ASSUME NEW s \in BOOLEAN, NEW b \in BOOLEAN
      PROVE  Payload("bond_resolution", [slash_seller |-> s, slash_buyer |-> b]) \in Payloads("bond_resolution")
  <2> DEFINE v == [slash_seller |-> s, slash_buyer |-> b]
  <2>1. v \in [Fields(PayloadShape["bond_resolution"]) -> Scalars \cup {Null}]
    OBVIOUS
  <2>2. \A f \in PayloadShape["bond_resolution"].must : v[f] \in Scalars
    BY <1>0
  <2>. QED  BY <2>1, <2>2, PlainPayloadType DEF HoldsOrder
<1>5. Payload("cant_do", [reason |-> Null]) \in Payloads("cant_do")
  <2> DEFINE v == [reason |-> Null]
  <2>1. v \in [Fields(PayloadShape["cant_do"]) -> Scalars \cup {Null}]
    OBVIOUS
  <2>2. \A f \in PayloadShape["cant_do"].must : v[f] \in Scalars
    OBVIOUS
  <2>. QED  BY <2>1, <2>2, PlainPayloadType DEF HoldsOrder
<1>6. ASSUME NEW d \in STRING
      PROVE  Payload("dispute", [dispute_id |-> d, info |-> Null]) \in Payloads("dispute")
  <2> DEFINE v == [dispute_id |-> d, info |-> Null]
  <2>1. v \in [Fields(PayloadShape["dispute"]) -> Scalars \cup {Null}]
    OBVIOUS
  <2>2. \A f \in PayloadShape["dispute"].must : v[f] \in Scalars
    OBVIOUS
  <2>. QED  BY <2>1, <2>2, PlainPayloadType DEF HoldsOrder
<1>. QED  BY <1>1, <1>2, <1>3, <1>4, <1>5, <1>6

LEMMA NewMessageType ==
    ASSUME NEW variant \in MessageVariant, NEW id \in STRING \cup {Null},
           NEW rid \in Nat \cup {Null}, NEW index \in Nat \cup {Null}, NEW action \in STRING,
           NEW payload, NEW of \in DOMAIN PayloadShape, payload \in Payloads(of) \cup {Null}
    PROVE  NewMessage(variant, id, rid, index, action, payload) \in Messages(of)
BY DEF NewMessage, Messages, Kinds

\* What is asked.
LEMMA OpeningIs ==
    ASSUME NEW input \in Opening
    PROVE  \/ /\ input.op = "create" /\ input.kind = "sell"
              /\ input.amount \in Nat /\ input.days \in Nat
           \/ /\ input.op = "take" /\ input.kind \in {"buy", "sell", Null}
              /\ input.invoice \in {"", "bolt11"} /\ input.amount \in {0, Null}
<1>1. Amounts \subseteq Nat
  BY ExchangeAssumption
<1>2. ASSUME NEW a \in Amounts,
             input = [op |-> "create", kind |-> "sell", amount |-> a, range |-> a = 0, days |-> 1]
      PROVE  /\ input.op = "create" /\ input.kind = "sell"
             /\ input.amount \in Nat /\ input.days \in Nat
  BY <1>1, <1>2
<1>3. ASSUME input = [op |-> "create", kind |-> "sell", amount |-> 0, range |-> FALSE, days |-> 0]
      PROVE  /\ input.op = "create" /\ input.kind = "sell"
             /\ input.amount \in Nat /\ input.days \in Nat
  BY <1>3
<1>4. ASSUME input \in [op : {"take"}, kind : {"buy", "sell"}, invoice : {"", "bolt11"}, amount : {Null, 0}]
      PROVE  /\ input.op = "take" /\ input.kind \in {"buy", "sell", Null}
             /\ input.invoice \in {"", "bolt11"} /\ input.amount \in {0, Null}
  BY <1>4
<1>5. ASSUME input = [op |-> "take", kind |-> Null, invoice |-> "", amount |-> Null]
      PROVE  /\ input.op = "take" /\ input.kind \in {"buy", "sell", Null}
             /\ input.invoice \in {"", "bolt11"} /\ input.amount \in {0, Null}
  BY <1>5
<1>. QED  BY <1>2, <1>3, <1>4, <1>5 DEF Opening

LEMMA FollowingIs ==
    ASSUME NEW input \in Following
    PROVE  \/ input.op = "invoice" /\ input.invoice \in {"ln-address", "gibberish"}
           \/ input.op = "complete" /\ input.action \in {"fiat-sent", "release"} /\ input.fiat \in Nat
           \/ input.op = "rate" /\ input.rating \in Nat
           \/ input.op = "settle" /\ input.slashSeller \in BOOLEAN /\ input.slashBuyer \in BOOLEAN
           \/ input.op \in {"cancel", "dispute"}
<1>1. ASSUME NEW c \in {<<"fiat-sent", 10>>, <<"release", 18>>},
             input = [op |-> "complete", action |-> c[1], fiat |-> c[2]]
      PROVE  input.op = "complete" /\ input.action \in {"fiat-sent", "release"} /\ input.fiat \in Nat
  <2>1. c[1] \in {"fiat-sent", "release"} /\ c[2] \in Nat
    <3>1. CASE c = <<"fiat-sent", 10>>
      BY <3>1
    <3>2. CASE c = <<"release", 18>>
      BY <3>2
    <3>. QED  BY <3>1, <3>2
  <2>. QED  BY <1>1, <2>1
<1> DEFINE sent == {[op |-> "complete", action |-> c[1], fiat |-> c[2]] :
                       c \in {<<"fiat-sent", 10>>, <<"release", 18>>}}
<1>2. CASE input \in sent
  BY <1>1, <1>2
<1>3. ASSUME input \notin sent
      PROVE  \/ input \in {[op |-> "invoice", invoice |-> i] : i \in {"ln-address", "gibberish"}}
             \/ input \in {[op |-> "rate", rating |-> r] : r \in {0, 1}}
             \/ input \in {[op |-> "settle", slashSeller |-> s, slashBuyer |-> FALSE] : s \in BOOLEAN}
             \/ input \in {[op |-> "cancel"], [op |-> "dispute"]}
  BY <1>3 DEF Following
<1> HIDE DEF sent
<1>4. CASE input \in {[op |-> "invoice", invoice |-> i] : i \in {"ln-address", "gibberish"}}
  BY <1>4
<1>5. CASE input \in {[op |-> "rate", rating |-> r] : r \in {0, 1}}
  BY <1>5
<1>6. CASE input \in {[op |-> "settle", slashSeller |-> s, slashBuyer |-> FALSE] : s \in BOOLEAN}
  <2>1. PICK s \in BOOLEAN : input = [op |-> "settle", slashSeller |-> s, slashBuyer |-> FALSE]
    BY <1>6
  <2>2. input.op = "settle" /\ input.slashSeller = s /\ input.slashBuyer = FALSE
    BY <2>1
  <2>. QED  BY <2>2
<1>7. CASE input \in {[op |-> "cancel"], [op |-> "dispute"]}
  BY <1>7
<1>. QED  BY <1>2, <1>3, <1>4, <1>5, <1>6, <1>7

\* A message that was built is a verified one with its call's request id.
BuiltFor(message, rid) ==
    /\ VerifyMessageKind(message.value)
    /\ message.value.request_id = rid
    /\ \E variant \in DOMAIN PayloadShape : message \in Messages(variant)

LEMMA VerifiedIs ==
    ASSUME NEW variant \in MessageVariant, NEW id \in STRING \cup {Null},
           NEW rid \in Nat, NEW index \in Nat \cup {Null}, NEW action \in STRING,
           NEW payload, NEW of \in DOMAIN PayloadShape, payload \in Payloads(of) \cup {Null},
           Verified(NewMessage(variant, id, rid, index, action, payload)) # Null
    PROVE  BuiltFor(Verified(NewMessage(variant, id, rid, index, action, payload)), rid)
<1> DEFINE message == NewMessage(variant, id, rid, index, action, payload)
<1>1. message \in Messages(of)
  BY NewMessageType
<1>2. message.value.request_id = rid
  BY DEF NewMessage
<1> HIDE DEF message
<1>3. Verified(message) = message /\ VerifyMessageKind(message.value)
  BY DEF Verified, message
<1>. QED  BY <1>1, <1>2, <1>3 DEF BuiltFor, message

LEMMA BuildNewOrderIs ==
    ASSUME NEW input, input.kind = "sell", input.amount \in Nat, input.days \in Nat, NEW rid \in Nat,
           NEW last \in Nat, BuildNewOrder(last, input, rid) # Null
    PROVE  BuiltFor(BuildNewOrder(last, input, rid), rid)
<1> DEFINE given == [kind |-> input.kind, status |-> "pending", amount |-> input.amount, terms |-> "usd",
                     fiat_amount |-> IF input.range THEN 0 ELSE 10,
                     min_amount |-> IF input.range THEN 5 ELSE Null,
                     max_amount |-> IF input.range THEN 20 ELSE Null,
                     created_at |-> 0, expires_at |-> input.days]
<1>1. \A f \in DOMAIN given : given[f] \in Scalars \cup {Null}
  <2>1. input.kind \in STRING /\ "pending" \in STRING /\ "usd" \in STRING
    BY StringsAssumption
  <2>2. \A f \in DOMAIN given : given[f] \in STRING \cup Int \cup {Null}
    BY <2>1
  <2>. QED  BY <2>2 DEF Scalars
<1>2. \A f \in OrderShape.must : f \in DOMAIN given /\ given[f] \in Scalars
  <2>1. "usd" \in STRING
    BY StringsAssumption
  <2>2. given.amount \in Nat /\ given.fiat_amount \in Nat /\ given.terms = "usd"
        /\ {"amount", "fiat_amount", "terms"} \subseteq DOMAIN given
    OBVIOUS
  <2> HIDE DEF given
  <2>. QED  BY <2>1, <2>2, OrderShapeIs DEF Scalars
<1>3. NewSmallOrder(given) \in SmallOrders
  <2> HIDE DEF given
  <2>. QED  BY <1>1, <1>2, NewSmallOrderType
<1>4. Payload("order", NewSmallOrder(given)) \in Payloads("order")
  BY <1>3, OrderPayloadType
<1>5. BuildNewOrder(last, input, rid)
      = Verified(NewMessage("order", Null, rid, last + 1, "new-order",
                            Payload("order", NewSmallOrder(given))))
  BY DEF BuildNewOrder
<1>6. "new-order" \in STRING
  BY StringsAssumption
<1>7. "order" \in MessageVariant /\ last + 1 \in Nat
  BY DEF MessageVariant
<1>8. "order" \in DOMAIN PayloadShape
  BY PayloadShapesAre
<1> HIDE DEF given
<1>. QED  BY <1>4, <1>5, <1>6, <1>7, <1>8, VerifiedIs

\* The payload of a take.
LEMMA TakePayloadType ==
    ASSUME NEW action \in {"take-buy", "take-sell"}, NEW invoice \in STRING, NEW amount \in Nat \cup {Null}
    PROVE  LET payload == BuildTakeOrderPayload(action, invoice, amount)
           IN payload \in Payloads("amount") \cup Payloads("payment_request") \cup {Null}
<1>1. CASE action = "take-buy" /\ amount = Null
  BY <1>1 DEF BuildTakeOrderPayload
<1>2. CASE action = "take-buy" /\ amount # Null
  BY <1>2, SimplePayloadTypes DEF BuildTakeOrderPayload
<1>3. CASE action = "take-sell" /\ invoice # ""
  <2>1. Request(Null, invoice, amount) \in Payloads("payment_request")
    BY RequestPayloadType
  <2>. QED  BY <1>3, <2>1 DEF BuildTakeOrderPayload, Request
<1>4. CASE action = "take-sell" /\ invoice = ""
  <2>1. (IF amount = Null THEN 0 ELSE amount) \in Nat
    OBVIOUS
  <2>2. BuildTakeOrderPayload(action, invoice, amount)
        = Payload("amount", [amount |-> IF amount = Null THEN 0 ELSE amount])
    BY <1>4 DEF BuildTakeOrderPayload
  <2>. QED  BY <2>1, <2>2, SimplePayloadTypes
<1>. QED  BY <1>1, <1>2, <1>3, <1>4

LEMMA BuildIs ==
    ASSUME NEW input \in Opening \cup Following, NEW id \in STRING \cup {Null}, NEW rid \in Nat,
           NEW index \in Nat \ {0}, Build(input, id, rid, index) # Null
    PROVE  BuiltFor(Build(input, id, rid, index), rid)
<1>0. /\ "order" \in MessageVariant /\ "dispute" \in MessageVariant
      /\ Null \in Nat \cup {Null} /\ index \in Nat \cup {Null}
      /\ "amount" \in DOMAIN PayloadShape /\ "payment_request" \in DOMAIN PayloadShape
      /\ "next_trade" \in DOMAIN PayloadShape /\ "rating_user" \in DOMAIN PayloadShape
      /\ "bond_resolution" \in DOMAIN PayloadShape
      /\ "take-buy" \in STRING /\ "take-sell" \in STRING /\ "add-invoice" \in STRING
      /\ "rate-user" \in STRING /\ "admin-settle" \in STRING /\ "cancel" \in STRING
      /\ "dispute" \in STRING
  BY PayloadShapesAre, StringsAssumption DEF MessageVariant
<1>1. CASE input.op = "create"
  <2>1. input.kind = "sell" /\ input.amount \in Nat /\ input.days \in Nat
    BY <1>1, OpeningIs, FollowingIs
  <2>2. Build(input, id, rid, index) = BuildNewOrder(index - 1, input, rid)
    BY <1>1 DEF Build
  <2>3. index - 1 \in Nat
    OBVIOUS
  <2>. QED  BY <2>1, <2>2, <2>3, BuildNewOrderIs
<1>2. CASE input.op = "take"
  <2> DEFINE action  == TakeActionForOrder(input)
             payload == BuildTakeOrderPayload(action, input.invoice, input.amount)
  <2>1. input.kind \in {"buy", "sell", Null} /\ input.invoice \in STRING /\ input.amount \in {Null, 0}
    BY <1>2, OpeningIs, FollowingIs, StringsAssumption
  <2>2. Build(input, id, rid, index) = IF action = Null THEN Null
                                       ELSE BuildTradeMessage(id, rid, action, payload, index)
    BY <1>2 DEF Build
  <2>3. action \in {"take-buy", "take-sell", Null}
    BY <2>1 DEF TakeActionForOrder
  <2>4. action \in {"take-buy", "take-sell"}
    BY <2>2, <2>3
  <2>5. payload \in Payloads("amount") \cup Payloads("payment_request") \cup {Null}
    BY <2>1, <2>4, TakePayloadType
  <2>6. Build(input, id, rid, index) = Verified(NewMessage("order", id, rid, index, action, payload))
    BY <2>2, <2>4 DEF BuildTradeMessage
  <2> HIDE DEF action, payload
  <2>7. action \in STRING
    BY <1>0, <2>4
  <2>8. CASE payload \in Payloads("amount") \cup {Null}
    BY <1>0, <2>6, <2>7, <2>8, VerifiedIs
  <2>9. CASE payload \in Payloads("payment_request") \cup {Null}
    BY <1>0, <2>6, <2>7, <2>9, VerifiedIs
  <2>. QED  BY <2>5, <2>8, <2>9
<1>3. CASE input.op = "invoice"
  <2> DEFINE payload == InvoicePayload(input.invoice)
  <2>1. Build(input, id, rid, index)
        = IF payload = Null THEN Null
          ELSE Verified(NewMessage("order", id, rid, Null, "add-invoice", payload))
    BY <1>3 DEF Build, BuildInvoiceMessage
  <2>2. input.invoice \in STRING
    BY <1>3, OpeningIs, FollowingIs, StringsAssumption
  <2>3. Request(Null, input.invoice, Null) \in Payloads("payment_request")
    BY <2>2, RequestPayloadType
  <2>4. payload \in Payloads("payment_request") \cup {Null}
    BY <2>3 DEF InvoicePayload, Request
  <2>5. /\ Build(input, id, rid, index)
              = Verified(NewMessage("order", id, rid, Null, "add-invoice", payload))
        /\ Verified(NewMessage("order", id, rid, Null, "add-invoice", payload)) # Null
    BY <2>1, <2>4
  <2>6. BuiltFor(Verified(NewMessage("order", id, rid, Null, "add-invoice", payload)), rid)
    BY <1>0, <2>1, <2>4, <2>5, VerifiedIs, Zenon
  <2>. QED  BY <2>5, <2>6
<1>4. CASE input.op = "complete"
  <2> DEFINE order   == [min_amount |-> 5, max_amount |-> 20, fiat_amount |-> input.fiat]
             payload == ComputeNextTradePayload(order, "next", index)
  <2>1. Build(input, id, rid, index)
        = Verified(NewMessage("order", id, rid, Null, input.action, payload))
    BY <1>4 DEF Build, BuildTradeMessage
  <2>2. input.action \in STRING
    BY <1>4, OpeningIs, FollowingIs, StringsAssumption
  <2>3. Payload("next_trade", [pubkey |-> "next", index |-> index]) \in Payloads("next_trade")
    BY SimplePayloadTypes, StringsAssumption
  <2>4. payload \in Payloads("next_trade") \cup {Null}
    BY <2>3 DEF ComputeNextTradePayload
  <2> HIDE DEF payload
  <2>5. /\ Build(input, id, rid, index)
              = Verified(NewMessage("order", id, rid, Null, input.action, payload))
        /\ Verified(NewMessage("order", id, rid, Null, input.action, payload)) # Null
    BY <2>1, <2>2, <2>4
  <2>6. BuiltFor(Verified(NewMessage("order", id, rid, Null, input.action, payload)), rid)
    BY <1>0, <2>1, <2>2, <2>4, <2>5, VerifiedIs, Zenon
  <2>. QED  BY <2>5, <2>6
<1>5. CASE input.op = "rate"
  <2>1. input.rating \in Nat
    BY <1>5, OpeningIs, FollowingIs, StringsAssumption
  <2>2. Build(input, id, rid, index)
        = IF input.rating \notin 1..5 THEN Null
          ELSE Verified(NewMessage("order", id, rid, Null, "rate-user",
                                   Payload("rating_user", [rating |-> input.rating])))
    BY <1>5 DEF Build, BuildRateUserMessage
  <2>3. Payload("rating_user", [rating |-> input.rating]) \in Payloads("rating_user") \cup {Null}
    BY <2>1, SimplePayloadTypes
  <2>4. /\ Build(input, id, rid, index)
              = Verified(NewMessage("order", id, rid, Null, "rate-user",
                                    Payload("rating_user", [rating |-> input.rating])))
        /\ Verified(NewMessage("order", id, rid, Null, "rate-user",
                               Payload("rating_user", [rating |-> input.rating]))) # Null
    BY <2>2, <2>3
  <2>5. BuiltFor(Verified(NewMessage("order", id, rid, Null, "rate-user",
                                     Payload("rating_user", [rating |-> input.rating]))), rid)
    BY <1>0, <2>2, <2>3, <2>4, VerifiedIs, Zenon
  <2>. QED  BY <2>4, <2>5
<1>6. CASE input.op = "settle"
  <2> DEFINE payload == BondSlashToPayload(input.slashSeller, input.slashBuyer)
  <2>1. input.slashSeller \in BOOLEAN /\ input.slashBuyer \in BOOLEAN
    BY <1>6, OpeningIs, FollowingIs, StringsAssumption
  <2>2. Build(input, id, rid, index)
        = Verified(NewMessage("dispute", id, rid, Null, "admin-settle", payload))
    BY <1>6 DEF Build, BuildAdminMessage
  <2>3. payload \in Payloads("bond_resolution") \cup {Null}
    BY <2>1, SimplePayloadTypes DEF BondSlashToPayload
  <2> HIDE DEF payload
  <2>4. /\ Build(input, id, rid, index)
              = Verified(NewMessage("dispute", id, rid, Null, "admin-settle", payload))
        /\ Verified(NewMessage("dispute", id, rid, Null, "admin-settle", payload)) # Null
    BY <2>2, <2>3
  <2>5. BuiltFor(Verified(NewMessage("dispute", id, rid, Null, "admin-settle", payload)), rid)
    BY <1>0, <2>2, <2>3, <2>4, VerifiedIs, Zenon
  <2>. QED  BY <2>4, <2>5
<1>7. CASE input.op = "cancel"
  <2>1. Build(input, id, rid, index) = Verified(NewMessage("order", id, rid, Null, "cancel", Null))
    BY <1>7 DEF Build, BuildTradeMessage
  <2>2. Null \in Payloads("amount") \cup {Null}
    OBVIOUS
  <2>3. /\ Build(input, id, rid, index)
              = Verified(NewMessage("order", id, rid, Null, "cancel", Null))
        /\ Verified(NewMessage("order", id, rid, Null, "cancel", Null)) # Null
    BY <2>1, <2>2
  <2>4. BuiltFor(Verified(NewMessage("order", id, rid, Null, "cancel", Null)), rid)
    BY <1>0, <2>1, <2>2, <2>3, VerifiedIs, Zenon
  <2>. QED  BY <2>3, <2>4
<1>8. CASE input.op = "dispute"
  <2>1. Build(input, id, rid, index) = Verified(NewMessage("order", id, rid, Null, "dispute", Null))
    BY <1>8 DEF Build, BuildDisputeMessage
  <2>2. Null \in Payloads("amount") \cup {Null}
    OBVIOUS
  <2>3. /\ Build(input, id, rid, index)
              = Verified(NewMessage("order", id, rid, Null, "dispute", Null))
        /\ Verified(NewMessage("order", id, rid, Null, "dispute", Null)) # Null
    BY <2>1, <2>2
  <2>4. BuiltFor(Verified(NewMessage("order", id, rid, Null, "dispute", Null)), rid)
    BY <1>0, <2>1, <2>2, <2>3, VerifiedIs, Zenon
  <2>. QED  BY <2>3, <2>4
<1>9. input.op \in {"create", "take", "invoice", "complete", "rate", "settle", "cancel", "dispute"}
  BY OpeningIs, FollowingIs
<1>. QED  BY <1>1, <1>2, <1>3, <1>4, <1>5, <1>6, <1>7, <1>8, <1>9

-----------------------------------------------------------------------------
(* The answers.                                                             *)

Ops == {"create", "take", "invoice", "complete", "rate", "settle", "cancel", "dispute"}

ExchangeCallType(asked) ==
    /\ asked.op \in Ops /\ asked.rid \in Nat
    /\ asked.order \in STRING \cup {Null}
    /\ asked.op # "create" => asked.order \in STRING

Refusal == Decision(Failed, "cant-do", Payload("cant_do", [reason |-> Null]))

LEMMA DecidedOnCreate ==
    ASSUME NEW asked, asked.op = "create", NEW d \in Decided(asked)
    PROVE  \/ d = Refusal
           \/ d = Decision(Result("order-created", "new", Null, Null), "new-order",
                           Payload("order", DaemonOrder("new", 0, "pending")))
           \/ \E a \in Amounts :
                 \/ d = Decision(Result("bond-invoice", "new", "bond", a), "pay-bond-invoice",
                                 Request(DaemonOrder("new", a, "waiting-maker-bond"), "bond", Null))
                 \/ d = Decision(Result("bond-invoice", "new", "bond", a), "pay-bond-invoice",
                                 Request(Null, "bond", a))
BY DEF Decided, Refusal

LEMMA DecidedOnTake ==
    ASSUME NEW asked, asked.op = "take", NEW d \in Decided(asked)
    PROVE  \/ d = Refusal
           \/ \E a \in Amounts :
                 \/ d = Decision(Result("hold-invoice", asked.order, "hold", a), "pay-invoice",
                                 Request(DaemonOrder(asked.order, a, "waiting-payment"), "hold", a))
                 \/ d = Decision(Result("bond-invoice", asked.order, "bond", a), "pay-bond-invoice",
                                 Request(Null, "bond", a))
                 \/ d = Decision(Result("add-invoice", asked.order, Null, a), "add-invoice",
                                 Payload("order", DaemonOrder(asked.order, a, "waiting-buyer-invoice")))
BY DEF Decided, Refusal

LEMMA DecidedOnOthers ==
    ASSUME NEW asked, NEW d \in Decided(asked)
    PROVE  /\ asked.op = "invoice" => \/ d = Refusal
                                     \/ \E a \in Expected("invoice") :
                                           d = Decision(Result("accepted", asked.order, Null, Null), a, Null)
           /\ asked.op = "rate" => \/ d = Refusal
                                  \/ d = Decision(Result("rated", asked.order, Null, Null),
                                                  "rate-received", Null)
           /\ asked.op = "settle" =>
                 \/ d = Refusal
                 \/ d = Decision(Result("confirmed", asked.order, Null, Null), "admin-settled", Null)
                 \/ d = Decision(Result("already-cooperatively-canceled", asked.order, Null, Null),
                                 "cooperative-cancel-accepted", Null)
           /\ asked.op = "dispute" =>
                 \/ d = Refusal
                 \/ d = Decision(Result("disputed", asked.order, Null, Null), "dispute-initiated-by-you",
                                 Payload("dispute", [dispute_id |-> "d", info |-> Null]))
           /\ asked.op \in {"complete", "cancel"} =>
                 \/ d = Refusal
                 \/ \E a \in Expected(asked.op) :
                       d = Decision(Result("done", asked.order, Null, Null), a, Null)
<1>1. CASE asked.op = "invoice"
  BY <1>1 DEF Decided, Refusal
<1>2. CASE asked.op = "rate"
  BY <1>2 DEF Decided, Refusal
<1>3. CASE asked.op = "settle"
  BY <1>3 DEF Decided, Refusal
<1>4. CASE asked.op = "dispute"
  BY <1>4 DEF Decided, Refusal
<1>5. CASE asked.op \in {"complete", "cancel"}
  BY <1>5 DEF Decided, Refusal
<1>. QED  BY <1>1, <1>2, <1>3, <1>4, <1>5

LEMMA ExpectedAreStrings == \A op \in {"invoice", "complete", "cancel"} : Expected(op) \subseteq STRING
BY StringsAssumption DEF Expected

LEMMA DaemonOrderType ==
    ASSUME NEW id \in STRING, NEW amount \in Nat, NEW status \in STRING
    PROVE  /\ DaemonOrder(id, amount, status) \in SmallOrders
           /\ DaemonOrder(id, amount, status).id = id
           /\ DaemonOrder(id, amount, status).amount = amount
<1> DEFINE given == [id |-> id, kind |-> "sell", status |-> status, amount |-> amount,
                     fiat_amount |-> 10, terms |-> "usd", created_at |-> 1]
<1>1. "sell" \in STRING /\ "usd" \in STRING
  BY StringsAssumption
<1>2. DOMAIN given = {"id", "kind", "status", "amount", "fiat_amount", "terms", "created_at"}
  OBVIOUS
<1>3. /\ given.id = id /\ given.amount = amount /\ given.fiat_amount = 10 /\ given.terms = "usd"
      /\ \A f \in DOMAIN given : given[f] \in STRING \cup Int
  BY <1>1
<1>4. DaemonOrder(id, amount, status) = NewSmallOrder(given)
  BY DEF DaemonOrder
<1> HIDE DEF given
<1>5. NewSmallOrder(given) \in SmallOrders
  BY <1>1, <1>2, <1>3, OrderShapeIs, NewSmallOrderType DEF Scalars
<1>6. NewSmallOrder(given).id = id /\ NewSmallOrder(given).amount = amount
  BY <1>2, <1>3, OrderShapeIs DEF NewSmallOrder
<1>. QED  BY <1>4, <1>5, <1>6

Results == [type : STRING, order : STRING \cup {Null}, invoice : STRING \cup {Null}, amount : Nat \cup {Null}]


DecisionType(d) ==
    /\ d.result \in Results /\ d.action \in STRING
    /\ \E of \in DOMAIN PayloadShape : d.payload \in Payloads(of) \cup {Null}
    /\ d.action = "cant-do" \/ d.result.order \in STRING
    /\ d.result # Failed => d.result.order \in STRING

LEMMA DecisionHasType ==
    ASSUME NEW type \in STRING, NEW order \in STRING, NEW invoice \in STRING \cup {Null},
           NEW amount \in Nat \cup {Null}, NEW action \in STRING,
           NEW payload, NEW of \in DOMAIN PayloadShape, payload \in Payloads(of) \cup {Null}
    PROVE  DecisionType(Decision(Result(type, order, invoice, amount), action, payload))
<1>1. /\ Result(type, order, invoice, amount) \in Results
      /\ Result(type, order, invoice, amount).order = order
  BY DEF Result, Results
<1>2. ASSUME NEW r, NEW d, d = Decision(r, action, payload)
      PROVE  d.result = r /\ d.action = action /\ d.payload = payload
  BY <1>2 DEF Decision
<1>. QED  BY <1>1, <1>2 DEF DecisionType

LEMMA RefusedHasType == DecisionType(Refusal)
<1>1. "failed" \in STRING /\ "cant-do" \in STRING
  BY StringsAssumption
<1>2. Failed \in Results
  BY <1>1 DEF Failed, Result, Results
<1>3. Payload("cant_do", [reason |-> Null]) \in Payloads("cant_do") /\ "cant_do" \in DOMAIN PayloadShape
  BY SimplePayloadTypes, PayloadShapesAre
<1>4. /\ Refusal.result = Failed /\ Refusal.action = "cant-do"
      /\ Refusal.payload = Payload("cant_do", [reason |-> Null])
  BY DEF Refusal, Decision
<1>. QED  BY <1>1, <1>2, <1>3, <1>4 DEF DecisionType

\* What is decided has its type; only a refusal has no order.
LEMMA DecidedType ==
    ASSUME NEW asked, ExchangeCallType(asked), NEW d \in Decided(asked)
    PROVE  DecisionType(d)
<1>1. /\ "order" \in DOMAIN PayloadShape /\ "payment_request" \in DOMAIN PayloadShape
      /\ "dispute" \in DOMAIN PayloadShape
  BY PayloadShapesAre
<1>2. \A a \in Amounts : a \in Nat /\ a \in Nat \cup {Null}
  BY ExchangeAssumption
<1>3. Null \in STRING \cup {Null} /\ Null \in Nat \cup {Null}
  OBVIOUS
<1>4. CASE asked.op = "create"
  <2>1. "new" \in STRING /\ "bond" \in STRING /\ "bond" \in STRING \cup {Null}
    BY StringsAssumption
  <2>2. "order-created" \in STRING /\ "bond-invoice" \in STRING
    BY StringsAssumption
  <2>3. "new-order" \in STRING /\ "pay-bond-invoice" \in STRING
    BY StringsAssumption
  <2>4. "pending" \in STRING /\ "waiting-maker-bond" \in STRING
    BY StringsAssumption
  <2>5. CASE d = Decision(Result("order-created", "new", Null, Null), "new-order",
                          Payload("order", DaemonOrder("new", 0, "pending")))
    <3>1. DaemonOrder("new", 0, "pending") \in SmallOrders
      BY <2>1, <2>4, DaemonOrderType
    <3>2. Payload("order", DaemonOrder("new", 0, "pending")) \in Payloads("order") \cup {Null}
      BY <3>1, OrderPayloadType
    <3>. QED  BY <1>1, <1>3, <2>1, <2>2, <2>3, <2>5, <3>2, DecisionHasType
  <2>6. ASSUME NEW a \in Amounts,
               d = Decision(Result("bond-invoice", "new", "bond", a), "pay-bond-invoice",
                            Request(DaemonOrder("new", a, "waiting-maker-bond"), "bond", Null))
        PROVE  DecisionType(d)
    <3>1. DaemonOrder("new", a, "waiting-maker-bond") \in SmallOrders \cup {Null}
      BY <1>2, <2>1, <2>4, DaemonOrderType
    <3>2. Request(DaemonOrder("new", a, "waiting-maker-bond"), "bond", Null)
          \in Payloads("payment_request") \cup {Null}
      BY <1>3, <2>1, <3>1, RequestPayloadType
    <3>. QED  BY <1>1, <1>2, <2>1, <2>2, <2>3, <2>6, <3>2, DecisionHasType
  <2>7. ASSUME NEW a \in Amounts,
               d = Decision(Result("bond-invoice", "new", "bond", a), "pay-bond-invoice",
                            Request(Null, "bond", a))
        PROVE  DecisionType(d)
    <3>1. Request(Null, "bond", a) \in Payloads("payment_request") \cup {Null}
      BY <1>2, <2>1, RequestPayloadType
    <3>. QED  BY <1>1, <1>2, <2>1, <2>2, <2>3, <2>7, <3>1, DecisionHasType
  <2>. QED  BY <1>4, <2>5, <2>6, <2>7, DecidedOnCreate, RefusedHasType
<1>5. CASE asked.op = "take"
  <2>1. asked.order \in STRING
    BY <1>5 DEF ExchangeCallType
  <2>2. "hold-invoice" \in STRING /\ "bond-invoice" \in STRING /\ "add-invoice" \in STRING
    BY StringsAssumption
  <2>3. "pay-invoice" \in STRING /\ "pay-bond-invoice" \in STRING
    BY StringsAssumption
  <2>4. "hold" \in STRING /\ "bond" \in STRING /\ "hold" \in STRING \cup {Null} /\ "bond" \in STRING \cup {Null}
    BY StringsAssumption
  <2>5. "waiting-payment" \in STRING /\ "waiting-buyer-invoice" \in STRING
    BY StringsAssumption
  <2>6. ASSUME NEW a \in Amounts,
               d = Decision(Result("hold-invoice", asked.order, "hold", a), "pay-invoice",
                            Request(DaemonOrder(asked.order, a, "waiting-payment"), "hold", a))
        PROVE  DecisionType(d)
    <3>1. DaemonOrder(asked.order, a, "waiting-payment") \in SmallOrders \cup {Null}
      BY <1>2, <2>1, <2>5, DaemonOrderType
    <3>2. Request(DaemonOrder(asked.order, a, "waiting-payment"), "hold", a)
          \in Payloads("payment_request") \cup {Null}
      BY <1>2, <2>4, <3>1, RequestPayloadType
    <3>. QED  BY <1>1, <1>2, <2>1, <2>2, <2>3, <2>4, <2>6, <3>2, DecisionHasType
  <2>7. ASSUME NEW a \in Amounts,
               d = Decision(Result("bond-invoice", asked.order, "bond", a), "pay-bond-invoice",
                            Request(Null, "bond", a))
        PROVE  DecisionType(d)
    <3>1. Request(Null, "bond", a) \in Payloads("payment_request") \cup {Null}
      BY <1>2, <2>4, RequestPayloadType
    <3>. QED  BY <1>1, <1>2, <2>1, <2>2, <2>3, <2>4, <2>7, <3>1, DecisionHasType
  <2>8. ASSUME NEW a \in Amounts,
               d = Decision(Result("add-invoice", asked.order, Null, a), "add-invoice",
                            Payload("order", DaemonOrder(asked.order, a, "waiting-buyer-invoice")))
        PROVE  DecisionType(d)
    <3>1. DaemonOrder(asked.order, a, "waiting-buyer-invoice") \in SmallOrders
      BY <1>2, <2>1, <2>5, DaemonOrderType
    <3>2. Payload("order", DaemonOrder(asked.order, a, "waiting-buyer-invoice")) \in Payloads("order") \cup {Null}
      BY <3>1, OrderPayloadType
    <3>. QED  BY <1>1, <1>2, <1>3, <2>1, <2>2, <2>8, <3>2, DecisionHasType
  <2>. QED  BY <1>5, <2>6, <2>7, <2>8, DecidedOnTake, RefusedHasType
<1>6. CASE asked.op \in Ops \ {"create", "take"} /\ d # Refusal
  <2>1. asked.order \in STRING
    BY <1>6 DEF ExchangeCallType, Ops
  <2>2. Null \in Payloads("order") \cup {Null}
    OBVIOUS
  <2>3. ASSUME NEW t \in STRING, NEW a \in STRING, d = Decision(Result(t, asked.order, Null, Null), a, Null)
        PROVE  DecisionType(d)
    BY <1>1, <1>3, <2>1, <2>2, <2>3, DecisionHasType
  <2>4. "accepted" \in STRING /\ "rated" \in STRING /\ "confirmed" \in STRING /\ "done" \in STRING
    BY StringsAssumption
  <2>5. "already-cooperatively-canceled" \in STRING /\ "rate-received" \in STRING
    BY StringsAssumption
  <2>6. "admin-settled" \in STRING /\ "cooperative-cancel-accepted" \in STRING
    BY StringsAssumption
  <2>7. CASE asked.op = "dispute"
    <3>1. "disputed" \in STRING /\ "dispute-initiated-by-you" \in STRING /\ "d" \in STRING
      BY StringsAssumption
    <3>2. Payload("dispute", [dispute_id |-> "d", info |-> Null]) \in Payloads("dispute") \cup {Null}
      BY <3>1, SimplePayloadTypes
    <3>3. d = Decision(Result("disputed", asked.order, Null, Null), "dispute-initiated-by-you",
                       Payload("dispute", [dispute_id |-> "d", info |-> Null]))
      BY <1>6, <2>7, DecidedOnOthers
    <3>. QED  BY <1>1, <1>3, <2>1, <3>1, <3>2, <3>3, DecisionHasType
  <2>8. CASE asked.op = "invoice"
    <3>1. PICK a \in Expected("invoice") : d = Decision(Result("accepted", asked.order, Null, Null), a, Null)
      BY <1>6, <2>8, DecidedOnOthers
    <3>2. a \in STRING
      BY ExpectedAreStrings
    <3>. QED  BY <2>3, <2>4, <3>1, <3>2
  <2>9. CASE asked.op \in {"complete", "cancel"}
    <3>1. PICK a \in Expected(asked.op) : d = Decision(Result("done", asked.order, Null, Null), a, Null)
      BY <1>6, <2>9, DecidedOnOthers
    <3>2. a \in STRING
      BY <2>9, ExpectedAreStrings
    <3>. QED  BY <2>3, <2>4, <3>1, <3>2
  <2>10. CASE asked.op = "rate"
    BY <1>6, <2>3, <2>4, <2>5, <2>10, DecidedOnOthers
  <2>11. CASE asked.op = "settle"
    BY <1>6, <2>3, <2>4, <2>5, <2>6, <2>11, DecidedOnOthers
  <2>. QED  BY <1>6, <2>7, <2>8, <2>9, <2>10, <2>11 DEF Ops
<1>. QED  BY <1>4, <1>5, <1>6, RefusedHasType DEF ExchangeCallType

\* The daemon reads what was wrapped for it.
LEMMA EventRead ==
    ASSUME NEW of \in DOMAIN PayloadShape, NEW message \in Messages(of), NEW trade \in STRING
    PROVE  UnwrapMessage(WrapMessage(message, Identity, trade, Mostro), Mostro)
              = [message |-> message, sender |-> trade, identity |-> Identity]
<1> DEFINE json  == MessageToJson(message)
           event == WrapMessage(message, Identity, trade, Mostro)
           proof == [by |-> Identity, over |-> <<trade, json>>]
<1>1. MessageFromJson(json) = message /\ message # Malformed
  BY MessageRoundTrip, MessagesAssumption
<1>2. proof # Null
  <2>1. PICK K \in Sent(KindShape), F \in Sent(PayloadShape[of]), G \in Sent(OrderShape) :
            json \in JsonMessages(of, K, F, G)
    BY MessageRoundTrip
  <2>2. Identity \in STRING
    BY StringsAssumption DEF Identity
  <2>3. proof \in [by : STRING, over : STRING \X JsonMessages(of, K, F, G)]
    BY <2>1, <2>2
  <2>. QED  BY <2>3, NullAssumption
<1> HIDE DEF json
<1>3. /\ event.kind = 14 /\ event.pubkey = trade /\ event.key = {trade, Mostro} /\ event.json = json
      /\ event.sig = [by |-> trade, over |-> json]
      /\ event.proof = IF Identity # trade THEN proof ELSE Null
  BY DEF WrapMessage, Proof, json
<1>4. event.proof # Null => event.proof = Proof(event.proof.by, event.pubkey, event.json)
  BY <1>3 DEF Proof
<1>5. (IF event.proof = Null THEN event.pubkey ELSE event.proof.by) = Identity
  BY <1>2, <1>3
<1> HIDE DEF event
<1>6. event.key = {Mostro, event.pubkey}
  BY <1>3
<1>7. UnwrapMessage(event, Mostro)
         = [message |-> message, sender |-> event.pubkey,
            identity |-> IF event.proof = Null THEN event.pubkey ELSE event.proof.by]
  BY <1>1, <1>3, <1>4, <1>6 DEF UnwrapMessage
<1>. QED  BY <1>3, <1>5, <1>7 DEF event

\* Only the key a DM was sent to reads it, and reads what its text says.
LEMMA DmRead ==
    ASSUME NEW json, NEW trade, NEW key,
           UnwrapMessage(DaemonDm(json, trade), key) \notin {Null, Malformed}
    PROVE  /\ MessageFromJson(json) # Malformed
           /\ UnwrapMessage(DaemonDm(json, trade), key).message = MessageFromJson(json)
<1> DEFINE dm == DaemonDm(json, trade)
<1>1. dm.kind = 14 /\ dm.json = json /\ dm.sig = Null /\ dm.proof = Null
  BY DEF DaemonDm
<1> HIDE DEF dm
<1>2. /\ MessageFromJson(json) # Malformed
      /\ UnwrapMessage(dm, key) = [message |-> MessageFromJson(json), sender |-> dm.pubkey,
                                   identity |-> dm.pubkey]
  BY <1>1 DEF UnwrapMessage, dm
<1>. QED  BY <1>2 DEF dm

\* The request id that is read is the one on the wire.
LEMMA RequestIdKept ==
    ASSUME NEW json, MessageFromJson(json) # Malformed
    PROVE  MessageFromJson(json).value.request_id
              = IF "request_id" \in DOMAIN json.value THEN json.value.request_id ELSE Null
<1> DEFINE kind == Read(KindShape, json.value)
           payload == PayloadFromJson(kind.payload)
           id == IF "request_id" \in DOMAIN json.value THEN json.value.request_id ELSE Null
<1>1. kind # Malformed
  BY DEF MessageFromJson
<1>2. kind = [f \in Fields(KindShape) |-> IF f \in DOMAIN json.value THEN json.value[f] ELSE Null]
  BY <1>1 DEF Read
<1>3. "request_id" \in DOMAIN kind /\ kind.request_id = id
  BY <1>2, ShapesAre
<1>4. MessageFromJson(json) = [variant |-> json.variant, value |-> [kind EXCEPT !.payload = payload]]
  BY <1>1 DEF MessageFromJson
<1> HIDE DEF kind, payload
<1>5. [kind EXCEPT !.payload = payload].request_id = kind.request_id
  BY <1>3
<1>. QED  BY <1>3, <1>4, <1>5

\* A message without a request id has none on the wire either.
NoRequestId(json) ==
    (IF "request_id" \in DOMAIN json.value THEN json.value.request_id ELSE Null) = Null

LEMMA NoticesHaveNoId ==
    ASSUME NEW id, NEW notice \in Notices(id)
    PROVE  NoRequestId(notice)
<1>1. ASSUME NEW action, NEW payload
      PROVE  NoRequestId(MessageToJson(NewMessage("order", id, Null, Null, action, payload)))
  <2> DEFINE kind == NewMessage("order", id, Null, Null, action, payload).value
             sent == [kind EXCEPT !.payload = PayloadToJson(@)]
             json == MessageToJson(NewMessage("order", id, Null, Null, action, payload))
  <2>1. kind = [id |-> id, request_id |-> Null, trade_index |-> Null, action |-> action, payload |-> payload]
    BY DEF NewMessage
  <2>2. sent.request_id = Null
    BY <2>1
  <2>3. json.value = Written(KindShape, sent)
    BY DEF MessageToJson
  <2> HIDE DEF kind, sent, json
  <2>4. "request_id" \in DOMAIN json.value => json.value.request_id = sent.request_id
    BY <2>3 DEF Written
  <2>. QED  BY <2>2, <2>4 DEF NoRequestId, json
<1>2. CASE notice \in {[variant |-> "order",
           value   |-> [id |-> id, request_id |-> Null, trade_index |-> Null, action |-> "canceled",
                        payload |-> [variant |-> "unheard_of", value |-> [amount |-> 0]]]]}
  BY <1>2 DEF NoRequestId
<1> DEFINE known ==
        {<<"pay-invoice", Request(DaemonOrder(id, 7, "waiting-payment"), "other", 7)>>,
         <<"add-invoice", Payload("order", DaemonOrder(id, 7, "waiting-buyer-invoice"))>>,
         <<"waiting-seller-to-pay", Null>>,
         <<"rate-received", Null>>}
<1> HIDE DEF known
<1>3. ASSUME NEW n \in known, notice = MessageToJson(NewMessage("order", id, Null, Null, n[1], n[2]))
      PROVE  NoRequestId(notice)
  BY <1>1, <1>3
<1>4. \/ notice \in {MessageToJson(NewMessage("order", id, Null, Null, n[1], n[2])) : n \in known}
      \/ notice \in {[variant |-> "order",
           value   |-> [id |-> id, request_id |-> Null, trade_index |-> Null, action |-> "canceled",
                        payload |-> [variant |-> "unheard_of", value |-> [amount |-> 0]]]]}
  BY DEF Notices, known
<1>. QED  BY <1>2, <1>3, <1>4

\* What is said of a decision is its own.
LEMMA DecisionFields ==
    ASSUME NEW r, NEW a, NEW p, NEW d, d = Decision(r, a, p)
    PROVE  d.result = r /\ d.action = a /\ d.payload = p
BY DEF Decision

\* An answer that a call takes for its own is the decision.
AnswerTo(asked, d, kind) ==
    /\ kind.action = d.action /\ kind.payload = d.payload /\ kind.request_id = asked.rid
    /\ d.result.order # Null => kind.id = d.result.order

LEMMA PlainHandled ==
    ASSUME NEW asked, ExchangeCallType(asked), asked.op \in {"invoice", "rate", "settle"},
           NEW d \in Decided(asked), NEW kind, AnswerTo(asked, d, kind), d # Refusal
    PROVE  HandledBy(asked.op, kind, asked.order) = d.result
<1>1. CASE asked.op = "invoice"
  <2>1. PICK a \in Expected("invoice") : d = Decision(Result("accepted", asked.order, Null, Null), a, Null)
    BY <1>1, DecidedOnOthers
  <2>2. d.result = Result("accepted", asked.order, Null, Null) /\ kind.action = a
    BY <2>1, DecisionFields DEF AnswerTo
  <2>3. HandledBy(asked.op, kind, asked.order) = HandleAddInvoiceResponse(kind, asked.order)
    BY <1>1 DEF HandledBy
  <2> DEFINE type == [x \in Expected("invoice") |-> "accepted"]
  <2>4. kind.action \in DOMAIN type /\ type[kind.action] = "accepted"
    BY <2>2
  <2>5. HandleAddInvoiceResponse(kind, asked.order) = HandleByAction(kind, asked.order, type)
    BY DEF HandleAddInvoiceResponse
  <2> HIDE DEF type
  <2>6. HandleByAction(kind, asked.order, type) = Result("accepted", asked.order, Null, Null)
    BY <2>4 DEF HandleByAction
  <2>. QED  BY <2>2, <2>3, <2>5, <2>6
<1>2. CASE asked.op = "rate"
  <2>1. d = Decision(Result("rated", asked.order, Null, Null), "rate-received", Null)
    BY <1>2, DecidedOnOthers
  <2>2. d.result = Result("rated", asked.order, Null, Null) /\ kind.action = "rate-received"
    BY <2>1, DecisionFields DEF AnswerTo
  <2>3. HandledBy(asked.op, kind, asked.order) = HandleRateUserResponse(kind, asked.order)
    BY <1>2 DEF HandledBy
  <2> DEFINE type == [x \in Expected("rate") |-> "rated"]
  <2>4. kind.action \in DOMAIN type /\ type[kind.action] = "rated"
    BY <2>2 DEF Expected
  <2>5. HandleRateUserResponse(kind, asked.order) = HandleByAction(kind, asked.order, type)
    BY DEF HandleRateUserResponse
  <2> HIDE DEF type
  <2>6. HandleByAction(kind, asked.order, type) = Result("rated", asked.order, Null, Null)
    BY <2>4 DEF HandleByAction
  <2>. QED  BY <2>2, <2>3, <2>5, <2>6
<1>3. CASE asked.op = "settle"
  <2> DEFINE type == [x \in Expected("settle") |->
                         IF x = "admin-settled" THEN "confirmed" ELSE "already-cooperatively-canceled"]
  <2>1. HandledBy(asked.op, kind, asked.order) = HandleAdminFinalizeResponse(kind, asked.order)
    BY <1>3 DEF HandledBy
  <2>2. HandleAdminFinalizeResponse(kind, asked.order) = HandleByAction(kind, asked.order, type)
    BY DEF HandleAdminFinalizeResponse
  <2>3. /\ "admin-settled" \in DOMAIN type /\ type["admin-settled"] = "confirmed"
        /\ "cooperative-cancel-accepted" \in DOMAIN type
        /\ type["cooperative-cancel-accepted"] = "already-cooperatively-canceled"
    BY DEF Expected
  <2> HIDE DEF type
  <2>4. CASE d = Decision(Result("confirmed", asked.order, Null, Null), "admin-settled", Null)
    <3>1. d.result = Result("confirmed", asked.order, Null, Null) /\ kind.action = "admin-settled"
      BY <2>4, DecisionFields DEF AnswerTo
    <3>. QED  BY <2>1, <2>2, <2>3, <3>1 DEF HandleByAction
  <2>5. CASE d = Decision(Result("already-cooperatively-canceled", asked.order, Null, Null),
                          "cooperative-cancel-accepted", Null)
    <3>1. /\ d.result = Result("already-cooperatively-canceled", asked.order, Null, Null)
          /\ kind.action = "cooperative-cancel-accepted"
      BY <2>5, DecisionFields DEF AnswerTo
    <3>. QED  BY <2>1, <2>2, <2>3, <3>1 DEF HandleByAction
  <2>. QED  BY <1>3, <2>4, <2>5, DecidedOnOthers
<1>. QED  BY <1>1, <1>2, <1>3

\* A payment request with its fields.
LEMMA RequestIs ==
    ASSUME NEW order, NEW invoice, NEW amount, NEW p, p = Request(order, invoice, amount)
    PROVE  /\ p.variant = "payment_request"
           /\ p.value.order = order /\ p.value.invoice = invoice /\ p.value.amount = amount
BY DEF Request, Payload

LEMMA CreateHandled ==
    ASSUME NEW asked, ExchangeCallType(asked), asked.op = "create",
           NEW d \in Decided(asked), NEW kind, AnswerTo(asked, d, kind), d # Refusal
    PROVE  HandledBy(asked.op, kind, asked.order) = d.result
<1>0. "new" \in STRING /\ "bond" \in STRING /\ "pending" \in STRING /\ "waiting-maker-bond" \in STRING
  BY StringsAssumption
<1>1. HandledBy(asked.op, kind, asked.order) = HandleNewOrderResponse(kind)
  BY DEF HandledBy
<1>2. "new" # Null /\ \A a \in Amounts : a \in Nat /\ a # Null
  <2>1. "new" \in Scalars
    BY <1>0 DEF Scalars
  <2>2. \A a \in Amounts : a \in Nat /\ a \in Scalars
    <3>1. \A a \in Amounts : a \in Nat
      BY ExchangeAssumption
    <3>2. \A n \in Nat : n \in Int
      OBVIOUS
    <3>3. \A a \in Amounts : a \in Int
      BY <3>1, <3>2
    <3>. QED  BY <3>1, <3>3 DEF Scalars
  <2>. QED  BY <2>1, <2>2, ScalarsAreNotNull
<1>3. \A of \in DOMAIN PayloadShape : Null \notin Payloads(of)
  BY MessagesAssumption
<1>4. "order" \in DOMAIN PayloadShape /\ "payment_request" \in DOMAIN PayloadShape
  BY PayloadShapesAre
<1>5. CASE d = Decision(Result("order-created", "new", Null, Null), "new-order",
                        Payload("order", DaemonOrder("new", 0, "pending")))
  <2>1. /\ d.result = Result("order-created", "new", Null, Null) /\ kind.action = "new-order"
        /\ kind.payload = Payload("order", DaemonOrder("new", 0, "pending"))
    BY <1>5, DecisionFields DEF AnswerTo
  <2>2. DaemonOrder("new", 0, "pending") \in SmallOrders /\ DaemonOrder("new", 0, "pending").id = "new"
    BY <1>0, DaemonOrderType
  <2>3. kind.payload # Null
    BY <1>3, <1>4, <2>1, <2>2, OrderPayloadType
  <2>4. kind.payload.variant = "order" /\ kind.payload.value.id = "new"
    BY <2>1, <2>2 DEF Payload
  <2>5. VariantOf(kind) = "order"
    BY <2>3, <2>4 DEF VariantOf
  <2>6. HandleNewOrderResponse(kind) = Result("order-created", kind.payload.value.id, Null, Null)
    BY <2>1, <2>5 DEF HandleNewOrderResponse
  <2>. QED  BY <1>1, <2>1, <2>4, <2>6
<1>6. ASSUME NEW a \in Amounts, NEW order \in SmallOrders \cup {Null},
             NEW amount \in Nat \cup {Null},
             order # Null => order.id = "new" /\ order.amount = a,
             Else(amount, IF order = Null THEN Null ELSE order.amount) = a,
             d = Decision(Result("bond-invoice", "new", "bond", a), "pay-bond-invoice",
                          Request(order, "bond", amount))
      PROVE  HandledBy(asked.op, kind, asked.order) = d.result
  <2>1. /\ d.result = Result("bond-invoice", "new", "bond", a) /\ kind.action = "pay-bond-invoice"
        /\ kind.payload = Request(order, "bond", amount)
    BY <1>6, DecisionFields DEF AnswerTo
  <2>2. d.result.order = "new"
    BY <2>1 DEF Result
  <2>3. kind.id = "new"
    BY <1>2, <2>2 DEF AnswerTo
  <2>4. kind.payload # Null
    BY <1>0, <1>3, <1>4, <1>6, <2>1, RequestPayloadType
  <2>5. /\ kind.payload.variant = "payment_request" /\ kind.payload.value.order = order
        /\ kind.payload.value.invoice = "bond" /\ kind.payload.value.amount = amount
    BY <2>1, RequestIs
  <2>6. VariantOf(kind) = "payment_request"
    BY <2>4, <2>5 DEF VariantOf
  <2>7. Else(kind.id, "") = "new"
    BY <1>2, <2>3 DEF Else
  <2>8. HandleNewOrderResponse(kind)
           = Result("bond-invoice", IF order = Null THEN Else(kind.id, "") ELSE order.id, "bond",
                    Else(amount, IF order = Null THEN Null ELSE order.amount))
    BY <2>1, <2>5, <2>6 DEF HandleNewOrderResponse
  <2>9. (IF order = Null THEN Else(kind.id, "") ELSE order.id) = "new"
    BY <1>6, <2>7
  <2>. QED  BY <1>1, <1>6, <2>1, <2>8, <2>9
<1>7. ASSUME NEW a \in Amounts,
             d = Decision(Result("bond-invoice", "new", "bond", a), "pay-bond-invoice",
                          Request(DaemonOrder("new", a, "waiting-maker-bond"), "bond", Null))
      PROVE  HandledBy(asked.op, kind, asked.order) = d.result
  <2> DEFINE order == DaemonOrder("new", a, "waiting-maker-bond")
  <2>1. order \in SmallOrders /\ order.id = "new" /\ order.amount = a /\ order # Null
    BY <1>0, <1>2, DaemonOrderType, ScalarsAreNotNull
  <2> HIDE DEF order
  <2>2. Else(Null, IF order = Null THEN Null ELSE order.amount) = a
    BY <2>1 DEF Else
  <2>. QED  BY <1>6, <1>7, <2>1, <2>2 DEF order
<1>8. ASSUME NEW a \in Amounts,
             d = Decision(Result("bond-invoice", "new", "bond", a), "pay-bond-invoice",
                          Request(Null, "bond", a))
      PROVE  HandledBy(asked.op, kind, asked.order) = d.result
  <2>1. Else(a, IF Null = Null THEN Null ELSE Null.amount) = a /\ a \in Nat \cup {Null}
    BY <1>2 DEF Else
  <2>. QED  BY <1>6, <1>8, <2>1
<1>. QED  BY <1>5, <1>7, <1>8, DecidedOnCreate

LEMMA TakeHandled ==
    ASSUME NEW asked, ExchangeCallType(asked), asked.op = "take",
           NEW d \in Decided(asked), NEW kind, AnswerTo(asked, d, kind), d # Refusal
    PROVE  HandledBy(asked.op, kind, asked.order) = d.result
<1>0. /\ "hold" \in STRING /\ "bond" \in STRING /\ "waiting-payment" \in STRING
      /\ "waiting-buyer-invoice" \in STRING
  BY StringsAssumption
<1>1. HandledBy(asked.op, kind, asked.order) = HandleTakeOrderResponse(kind, asked.order)
  BY DEF HandledBy
<1>2. asked.order \in STRING /\ \A a \in Amounts : a \in Nat /\ a \in Nat \cup {Null}
  BY ExchangeAssumption DEF ExchangeCallType
<1>3. \A of \in DOMAIN PayloadShape : Null \notin Payloads(of)
  BY MessagesAssumption
<1>4. "order" \in DOMAIN PayloadShape /\ "payment_request" \in DOMAIN PayloadShape
  BY PayloadShapesAre
<1>5. ASSUME NEW a \in Amounts, NEW order \in SmallOrders \cup {Null}, NEW invoice \in STRING,
             kind.payload = Request(order, invoice, a)
      PROVE  /\ VariantOf(kind) = "payment_request" /\ kind.payload.value.invoice = invoice
             /\ kind.payload.value.amount = a
  <2>1. kind.payload # Null
    BY <1>2, <1>3, <1>4, <1>5, RequestPayloadType
  <2>2. /\ kind.payload.variant = "payment_request" /\ kind.payload.value.invoice = invoice
        /\ kind.payload.value.amount = a
    BY <1>5, RequestIs
  <2>. QED  BY <2>1, <2>2 DEF VariantOf
<1>6. ASSUME NEW a \in Amounts,
             d = Decision(Result("hold-invoice", asked.order, "hold", a), "pay-invoice",
                          Request(DaemonOrder(asked.order, a, "waiting-payment"), "hold", a))
      PROVE  HandledBy(asked.op, kind, asked.order) = d.result
  <2>1. /\ d.result = Result("hold-invoice", asked.order, "hold", a) /\ kind.action = "pay-invoice"
        /\ kind.payload = Request(DaemonOrder(asked.order, a, "waiting-payment"), "hold", a)
    BY <1>6, DecisionFields DEF AnswerTo
  <2>2. DaemonOrder(asked.order, a, "waiting-payment") \in SmallOrders \cup {Null}
    BY <1>0, <1>2, DaemonOrderType
  <2>3. /\ VariantOf(kind) = "payment_request" /\ kind.payload.value.invoice = "hold"
        /\ kind.payload.value.amount = a
    BY <1>0, <1>5, <2>1, <2>2
  <2>. QED  BY <1>1, <2>1, <2>3 DEF HandleTakeOrderResponse
<1>7. ASSUME NEW a \in Amounts,
             d = Decision(Result("bond-invoice", asked.order, "bond", a), "pay-bond-invoice",
                          Request(Null, "bond", a))
      PROVE  HandledBy(asked.op, kind, asked.order) = d.result
  <2>1. /\ d.result = Result("bond-invoice", asked.order, "bond", a) /\ kind.action = "pay-bond-invoice"
        /\ kind.payload = Request(Null, "bond", a)
    BY <1>7, DecisionFields DEF AnswerTo
  <2>2. /\ VariantOf(kind) = "payment_request" /\ kind.payload.value.invoice = "bond"
        /\ kind.payload.value.amount = a
    BY <1>0, <1>5, <2>1
  <2>. QED  BY <1>1, <2>1, <2>2 DEF HandleTakeOrderResponse
<1>8. ASSUME NEW a \in Amounts,
             d = Decision(Result("add-invoice", asked.order, Null, a), "add-invoice",
                          Payload("order", DaemonOrder(asked.order, a, "waiting-buyer-invoice")))
      PROVE  HandledBy(asked.op, kind, asked.order) = d.result
  <2> DEFINE order == DaemonOrder(asked.order, a, "waiting-buyer-invoice")
  <2>1. /\ d.result = Result("add-invoice", asked.order, Null, a) /\ kind.action = "add-invoice"
        /\ kind.payload = Payload("order", order)
    BY <1>8, DecisionFields DEF AnswerTo
  <2>2. order \in SmallOrders /\ order.amount = a
    <3>1. a \in Nat /\ asked.order \in STRING /\ "waiting-buyer-invoice" \in STRING
      BY <1>0, <1>2
    <3>2. /\ DaemonOrder(asked.order, a, "waiting-buyer-invoice") \in SmallOrders
          /\ DaemonOrder(asked.order, a, "waiting-buyer-invoice").amount = a
      BY <3>1, DaemonOrderType
    <3>. QED  BY <3>2
  <2> HIDE DEF order
  <2>3. kind.payload # Null
    BY <1>3, <1>4, <2>1, <2>2, OrderPayloadType
  <2>4. kind.payload.variant = "order" /\ kind.payload.value.amount = a
    BY <2>1, <2>2 DEF Payload
  <2>5. VariantOf(kind) = "order"
    BY <2>3, <2>4 DEF VariantOf
  <2>. QED  BY <1>1, <2>1, <2>4, <2>5 DEF HandleTakeOrderResponse
<1>. QED  BY <1>6, <1>7, <1>8, DecidedOnTake

\* A call that checks its answer gives what the daemon decided, or fails.
LEMMA AnswerHandled ==
    ASSUME NEW asked, ExchangeCallType(asked), asked.op \notin Unchecked,
           NEW d \in Decided(asked), NEW kind, AnswerTo(asked, d, kind), Handle(asked, kind) # Failed
    PROVE  Handle(asked, kind) = d.result
<1>1. asked.op \in {"create", "take", "invoice", "rate", "settle"}
  BY DEF ExchangeCallType, Ops, Unchecked
<1>2. kind.action # "cant-do"
  BY <1>1 DEF Handle
<1>3. d # Refusal
  BY <1>2 DEF Refusal, Decision, AnswerTo
<1>4. Handle(asked, kind) = HandledBy(asked.op, kind, asked.order)
  BY DEF Handle
<1>. QED  BY <1>1, <1>3, <1>4, CreateHandled, TakeHandled, PlainHandled

\* An answer with another request id is none of theirs.
LEMMA OthersRefused ==
    ASSUME NEW asked, asked.op \notin Unchecked, NEW kind, kind.request_id # asked.rid
    PROVE  Handle(asked, kind) = Failed
BY DEF Handle

-----------------------------------------------------------------------------
(* Sequences of anything.                                                   *)
IsSeq(s) == s \in Seq({s[i] : i \in DOMAIN s})

LEMMA AppendIs ==
    ASSUME NEW s, IsSeq(s), NEW e
    PROVE  /\ IsSeq(Append(s, e)) /\ Len(Append(s, e)) = Len(s) + 1
           /\ DOMAIN Append(s, e) = 1..(Len(s) + 1)
           /\ \A i \in 1..Len(s) : Append(s, e)[i] = s[i]
           /\ Append(s, e)[Len(s) + 1] = e
<1> DEFINE S == {s[i] : i \in DOMAIN s}
           t == Append(s, e)
<1>1. s \in Seq(S \cup {e}) /\ Len(s) \in Nat /\ DOMAIN s = 1..Len(s)
  BY DEF IsSeq
<1>2. /\ t \in Seq(S \cup {e}) /\ Len(t) = Len(s) + 1 /\ DOMAIN t = 1..(Len(s) + 1)
      /\ \A i \in 1..Len(s) : t[i] = s[i]
      /\ t[Len(s) + 1] = e
  BY <1>1
<1> HIDE DEF t
<1>3. S \cup {e} \subseteq {t[i] : i \in DOMAIN t}
  <2>1. \A i \in DOMAIN s : i \in DOMAIN t /\ t[i] = s[i]
    BY <1>1, <1>2
  <2>2. Len(s) + 1 \in DOMAIN t
    BY <1>1, <1>2
  <2>. QED  BY <1>2, <2>1, <2>2
<1>4. {t[i] : i \in DOMAIN t} \subseteq S \cup {e}
  BY <1>2
<1>5. {t[i] : i \in DOMAIN t} = S \cup {e}
  BY <1>3, <1>4
<1>. QED  BY <1>2, <1>5 DEF IsSeq, t

LEMMA ExceptIs ==
    ASSUME NEW s, IsSeq(s), NEW n \in DOMAIN s, NEW e
    PROVE  LET t == [s EXCEPT ![n] = e]
           IN /\ IsSeq(t) /\ Len(t) = Len(s) /\ DOMAIN t = DOMAIN s
              /\ t[n] = e /\ \A i \in DOMAIN s : i # n => t[i] = s[i]
<1> DEFINE S == {s[i] : i \in DOMAIN s}
           t == [s EXCEPT ![n] = e]
           T == {t[i] : i \in DOMAIN t}
<1>1. Len(s) \in Nat /\ DOMAIN s = 1..Len(s)
  BY DEF IsSeq
<1>2. DOMAIN t = DOMAIN s /\ t[n] = e /\ \A i \in DOMAIN s : i # n => t[i] = s[i]
  OBVIOUS
<1>3. t = [i \in 1..Len(s) |-> t[i]]
  BY <1>1
<1> HIDE DEF t
<1>4. \A i \in 1..Len(s) : t[i] \in T
  BY <1>1, <1>2
<1> HIDE DEF T
<1>5. t \in [1..Len(s) -> T]
  BY <1>3, <1>4
<1>6. t \in Seq(T) /\ Len(t) = Len(s)
  BY <1>1, <1>2, <1>5
<1>. QED  BY <1>2, <1>6 DEF IsSeq, t, T

-----------------------------------------------------------------------------
(* The invariant.                                                           *)
Sequences ==
    /\ IsSeq(calls) /\ IsSeq(results) /\ IsSeq(opened) /\ IsSeq(decisions) /\ IsSeq(dms)
    /\ Len(opened) = Len(calls) /\ Len(decisions) = Len(calls)
    /\ Len(results) <= Len(calls) /\ Len(calls) <= Len(results) + 1
    /\ Len(calls) <= MaxCalls

\* A call says who makes it, with which request id and in which message.
CallsAreMade ==
    \A n \in DOMAIN calls :
        /\ ExchangeCallType(calls[n]) /\ calls[n].rid = n - 1 /\ calls[n].trade \in STRING
        /\ calls[n].event # Null =>
              /\ BuiltFor(calls[n].message, n - 1)
              /\ calls[n].event = WrapMessage(calls[n].message, Identity, calls[n].trade, Mostro)

\* Decided for this order, when a call with this trade key asked.
DecidedBy(m, order, trade) ==
    decisions[m] # Null /\ decisions[m].order = order /\ calls[m].trade = trade

CallsFollow ==
    \A n \in DOMAIN calls : calls[n].op \notin {"create", "take"} =>
        \E m \in 1..(n - 1) : DecidedBy(m, calls[n].order, calls[n].trade)

OpenedIsSent ==
    \A n \in DOMAIN opened : opened[n] # Null =>
        /\ opened[n] = [message |-> calls[n].message, sender |-> calls[n].trade, identity |-> Identity]
        /\ VerifyMessageKind(opened[n].message.value)

DecidedAreOpened == \A n \in DOMAIN decisions : decisions[n] # Null => opened[n] # Null

Answers(i, n) ==
    /\ decisions[n] # Null
    /\ \E d \in Decided(calls[n]) :
          decisions[n] = d.result /\ AnswerTo(calls[n], d, MessageFromJson(dms[i].json).value)

\* A DM is an answer, or has no request id.
DmsAreSent ==
    \A i \in DOMAIN dms :
        /\ dms[i] = DaemonDm(dms[i].json, dms[i].to)
        /\ NoRequestId(dms[i].json) \/ \E n \in DOMAIN decisions : Answers(i, n)

HeldAreDecided ==
    \A o \in DOMAIN held :
        o \in STRING /\ held[o] \in STRING /\ \E m \in DOMAIN decisions : DecidedBy(m, o, held[o])

ResultsAreDecided ==
    \A n \in DOMAIN results : calls[n].op \notin Unchecked /\ results[n] # Failed =>
        decisions[n] # Null /\ results[n] = decisions[n] /\ results[n] \in Results

ExchangeInv ==
    /\ Sequences /\ CallsAreMade /\ CallsFollow /\ OpenedIsSent /\ DecidedAreOpened
    /\ DmsAreSent /\ HeldAreDecided /\ ResultsAreDecided

LEMMA InitExchange == ASSUME ExchangeInit PROVE ExchangeInv
<1>1. IsSeq(<<>>) /\ Len(<<>>) = 0 /\ DOMAIN <<>> = {}
  BY DEF IsSeq
<1>. QED  BY <1>1, ExchangeAssumption DEF ExchangeInit, ExchangeInv, Sequences, CallsAreMade,
               CallsFollow, OpenedIsSent, DecidedAreOpened, DmsAreSent, HeldAreDecided, ResultsAreDecided

LEMMA ExchangeHolds == ASSUME ExchangeInv PROVE RequestArrivesIntact /\ ResultMatchesDecision
<1>1. RequestArrivesIntact
  <2>1. DOMAIN opened = DOMAIN calls
    BY DEF ExchangeInv, Sequences, IsSeq
  <2>. QED  BY <2>1 DEF ExchangeInv, OpenedIsSent, CallsFollow, DecidedBy, RequestArrivesIntact
<1>2. ResultMatchesDecision
  <2>1. ASSUME NEW r \in Results PROVE r = [r EXCEPT !.amount = r.amount]
    BY <2>1 DEF Results
  <2>. QED  BY <2>1 DEF ExchangeInv, ResultsAreDecided, ResultMatchesDecision
<1>. QED  BY <1>1, <1>2

LEMMA ExchangeStutters == ASSUME ExchangeInv, UNCHANGED exchangeVars PROVE ExchangeInv'
BY DEF ExchangeInv, exchangeVars, Sequences, CallsAreMade, CallsFollow, DecidedBy, OpenedIsSent,
       DecidedAreOpened, DmsAreSent, Answers, HeldAreDecided, ResultsAreDecided

\* Facts of the sequences that the steps need.
LEMMA Shapes ==
    ASSUME ExchangeInv
    PROVE  /\ Len(calls) \in Nat /\ Len(results) \in Nat /\ Len(dms) \in Nat
           /\ DOMAIN calls = 1..Len(calls) /\ DOMAIN opened = 1..Len(calls)
           /\ DOMAIN decisions = 1..Len(calls) /\ DOMAIN results = 1..Len(results)
           /\ DOMAIN dms = 1..Len(dms)
           /\ MaxCalls \in Nat
           /\ Len(results) <= Len(calls) /\ Len(calls) <= Len(results) + 1
BY ExchangeAssumption DEF ExchangeInv, Sequences, IsSeq

LEMMA SendKeeps ==
    ASSUME ExchangeInv, NEW input \in Opening \cup Following, NEW id \in STRING \cup {Null},
           NEW trade \in STRING, input.op # "create" => id \in STRING,
           input.op \notin {"create", "take"} => \E m \in DOMAIN decisions : DecidedBy(m, id, trade),
           Send(input, id, trade)
    PROVE  ExchangeInv'
<1> DEFINE message == Build(input, id, Len(calls), Len(calls) + 2)
           made == [op |-> input.op, order |-> id, rid |-> Len(calls), message |-> message,
                    trade |-> trade,
                    event |-> IF message = Null THEN Null
                              ELSE WrapMessage(message, Identity, trade, Mostro)]
<1>0. /\ Len(calls) \in Nat /\ Len(results) \in Nat /\ MaxCalls \in Nat
      /\ Len(results) <= Len(calls) /\ Len(calls) <= Len(results) + 1
  BY Shapes
<1>1. /\ calls' = Append(calls, made) /\ opened' = Append(opened, Null)
      /\ decisions' = Append(decisions, Null)
      /\ results' = IF message = Null THEN Append(results, Failed) ELSE results
      /\ dms' = dms /\ held' = held
      /\ ~(Len(results) < Len(calls)) /\ Len(calls) < MaxCalls
  BY DEF Send, Waiting, Last
<1>2. /\ made.op = input.op /\ made.order = id /\ made.rid = Len(calls) /\ made.message = message
      /\ made.trade = trade
      /\ made.event = IF message = Null THEN Null ELSE WrapMessage(message, Identity, trade, Mostro)
  OBVIOUS
<1>3. message # Null => BuiltFor(message, Len(calls))
  <2>1. Len(calls) \in Nat /\ Len(calls) + 2 \in Nat \ {0}
    BY Shapes
  <2>. QED  BY <2>1, BuildIs
<1> HIDE DEF message, made
<1>4. /\ Len(calls') = Len(calls) + 1 /\ DOMAIN calls' = 1..(Len(calls) + 1)
      /\ \A n \in 1..Len(calls) : calls'[n] = calls[n]
      /\ calls'[Len(calls) + 1] = made /\ IsSeq(calls')
  BY <1>1, AppendIs DEF ExchangeInv, Sequences
<1>5. /\ Len(opened') = Len(calls) + 1 /\ DOMAIN opened' = 1..(Len(calls) + 1)
      /\ \A n \in 1..Len(calls) : opened'[n] = opened[n]
      /\ opened'[Len(calls) + 1] = Null /\ IsSeq(opened')
  BY <1>1, AppendIs DEF ExchangeInv, Sequences
<1>6. /\ Len(decisions') = Len(calls) + 1 /\ DOMAIN decisions' = 1..(Len(calls) + 1)
      /\ \A n \in 1..Len(calls) : decisions'[n] = decisions[n]
      /\ decisions'[Len(calls) + 1] = Null /\ IsSeq(decisions')
  BY <1>1, AppendIs DEF ExchangeInv, Sequences
<1>7. /\ Len(results) = Len(calls)
      /\ IsSeq(results') /\ Len(results') \in {Len(calls), Len(calls) + 1}
      /\ DOMAIN results' = 1..Len(results')
      /\ \A n \in 1..Len(calls) : results'[n] = results[n]
      /\ Len(results') = Len(calls) + 1 => results'[Len(calls) + 1] = Failed
  <2>0. ~(Len(results) < Len(calls))
    BY <1>1
  <2>1. Len(results) = Len(calls)
    BY <1>0, <2>0
  <2>2. IsSeq(results) /\ DOMAIN results = 1..Len(calls)
    BY <2>1, Shapes DEF ExchangeInv, Sequences
  <2>3. CASE message = Null
    <3>1. results' = Append(results, Failed)
      BY <1>1, <2>3
    <3>2. /\ IsSeq(results') /\ Len(results') = Len(calls) + 1
          /\ DOMAIN results' = 1..(Len(calls) + 1)
          /\ \A n \in 1..Len(calls) : results'[n] = results[n]
          /\ results'[Len(calls) + 1] = Failed
      BY <2>1, <2>2, <3>1, AppendIs
    <3>. QED  BY <2>1, <3>2
  <2>4. CASE message # Null
    <3>1. results' = results
      BY <1>1, <2>4
    <3>2. Len(calls) # Len(calls) + 1
      BY <1>0
    <3>. QED  BY <2>1, <2>2, <3>1, <3>2
  <2>. QED  BY <2>3, <2>4
<1>8. Sequences'
  <2>1. Len(results') <= Len(calls') /\ Len(calls') <= Len(results') + 1 /\ Len(calls') <= MaxCalls
    <3>1. Len(calls) < MaxCalls
      BY <1>1
    <3>2. Len(calls') = Len(calls) + 1
      BY <1>4
    <3>3. Len(results') = Len(calls) \/ Len(results') = Len(calls) + 1
      BY <1>7
    <3>. QED  BY <1>0, <3>1, <3>2, <3>3
  <2>2. IsSeq(dms')
    BY <1>1 DEF ExchangeInv, Sequences
  <2>. QED  BY <1>4, <1>5, <1>6, <1>7, <2>1, <2>2 DEF Sequences
<1>9. CallsAreMade'
  <2> SUFFICES ASSUME NEW n \in 1..(Len(calls) + 1)
               PROVE  /\ ExchangeCallType(calls'[n]) /\ calls'[n].rid = n - 1 /\ calls'[n].trade \in STRING
                      /\ calls'[n].event # Null =>
                            /\ BuiltFor(calls'[n].message, n - 1)
                            /\ calls'[n].event = WrapMessage(calls'[n].message, Identity,
                                                             calls'[n].trade, Mostro)
    BY <1>4 DEF CallsAreMade
  <2>1. CASE n \in 1..Len(calls)
    BY <1>4, <2>1, Shapes DEF ExchangeInv, CallsAreMade
  <2>2. CASE n = Len(calls) + 1
    <3>1. ExchangeCallType(made)
      <4>1. input.op \in Ops
        BY OpeningIs, FollowingIs DEF Ops
      <4>. QED  BY <1>2, <4>1, Shapes DEF ExchangeCallType
    <3>2. n - 1 = Len(calls)
      BY <2>2, Shapes
    <3>3. made.event # Null => /\ BuiltFor(made.message, n - 1)
                               /\ made.event = WrapMessage(made.message, Identity, made.trade, Mostro)
      BY <1>2, <1>3, <3>2
    <3>. QED  BY <1>2, <1>4, <2>2, <3>1, <3>2, <3>3
  <2>. QED  BY <2>1, <2>2, Shapes
<1>10. \A m \in DOMAIN decisions : \A o, t : DecidedBy(m, o, t) => DecidedBy(m, o, t)'
  BY <1>4, <1>6, Shapes DEF DecidedBy
<1>11. CallsFollow'
  <2> SUFFICES ASSUME NEW n \in 1..(Len(calls) + 1), calls'[n].op \notin {"create", "take"}
               PROVE  \E m \in 1..(n - 1) : /\ decisions'[m] # Null /\ decisions'[m].order = calls'[n].order
                                              /\ calls'[m].trade = calls'[n].trade
    BY <1>4 DEF CallsFollow, DecidedBy
  <2>1. CASE n \in 1..Len(calls)
    <3>1. PICK m \in 1..(n - 1) : DecidedBy(m, calls[n].order, calls[n].trade)
      BY <1>4, <2>1, Shapes DEF ExchangeInv, CallsFollow
    <3>2. m \in DOMAIN decisions
      BY <2>1, Shapes
    <3>3. decisions'[m] = decisions[m] /\ calls'[m] = calls[m] /\ calls'[n] = calls[n]
      BY <1>4, <1>6, <2>1, <3>2, Shapes
    <3>. QED  BY <3>1, <3>3 DEF DecidedBy
  <2>2. CASE n = Len(calls) + 1
    <3>1. PICK m \in DOMAIN decisions : DecidedBy(m, id, trade)
      BY <1>2, <1>4, <2>2
    <3>2. m \in 1..(n - 1)
      BY <2>2, Shapes
    <3>3. decisions'[m] = decisions[m] /\ calls'[m] = calls[m] /\ calls'[n] = made
      BY <1>4, <1>6, <2>2, Shapes
    <3>. QED  BY <1>2, <3>1, <3>2, <3>3 DEF DecidedBy
  <2>. QED  BY <2>1, <2>2, Shapes
<1>12. OpenedIsSent'
  <2> SUFFICES ASSUME NEW n \in 1..(Len(calls) + 1), opened'[n] # Null
               PROVE  /\ opened'[n] = [message |-> calls'[n].message, sender |-> calls'[n].trade,
                                       identity |-> Identity]
                      /\ VerifyMessageKind(opened'[n].message.value)
    BY <1>5 DEF OpenedIsSent
  <2>1. n \in 1..Len(calls)
    BY <1>5, Shapes
  <2>. QED  BY <1>4, <1>5, <2>1, Shapes DEF ExchangeInv, OpenedIsSent
<1>13. DecidedAreOpened'
  <2> SUFFICES ASSUME NEW n \in 1..(Len(calls) + 1), decisions'[n] # Null
               PROVE  opened'[n] # Null
    BY <1>6 DEF DecidedAreOpened
  <2>1. n \in 1..Len(calls)
    BY <1>6, Shapes
  <2>. QED  BY <1>5, <1>6, <2>1, Shapes DEF ExchangeInv, DecidedAreOpened
<1>14. DmsAreSent'
  <2>1. \A i \in DOMAIN dms, n \in DOMAIN decisions : Answers(i, n) => Answers(i, n)'
    BY <1>1, <1>4, <1>6, Shapes DEF Answers
  <2>2. DOMAIN decisions \subseteq DOMAIN decisions'
    BY <1>6, Shapes
  <2>. QED  BY <1>1, <2>1, <2>2 DEF ExchangeInv, DmsAreSent
<1>15. HeldAreDecided'
  <2>1. DOMAIN decisions \subseteq DOMAIN decisions'
    BY <1>6, Shapes
  <2>. QED  BY <1>1, <1>10, <2>1 DEF ExchangeInv, HeldAreDecided
<1>16. ResultsAreDecided'
  <2> SUFFICES ASSUME NEW n \in 1..Len(results'), calls'[n].op \notin Unchecked, results'[n] # Failed
               PROVE  decisions'[n] # Null /\ results'[n] = decisions'[n] /\ results'[n] \in Results
    BY <1>7 DEF ResultsAreDecided
  <2>1. n \in 1..Len(calls) \/ (n = Len(calls) + 1 /\ n = Len(results'))
    <3>1. CASE Len(results') = Len(calls)
      BY <3>1
    <3>2. CASE Len(results') = Len(calls) + 1
      BY <3>2, Shapes
    <3>. QED  BY <1>7, <3>1, <3>2
  <2>2. n \in 1..Len(calls)
    BY <1>7, <2>1
  <2>3. calls'[n] = calls[n] /\ decisions'[n] = decisions[n] /\ results'[n] = results[n]
    BY <1>4, <1>6, <1>7, <2>2
  <2>4. n \in DOMAIN results
    BY <1>7, <2>2, Shapes
  <2>. QED  BY <2>3, <2>4 DEF ExchangeInv, ResultsAreDecided
<1>. QED  BY <1>8, <1>9, <1>11, <1>12, <1>13, <1>14, <1>15, <1>16 DEF ExchangeInv

LEMMA OpenKeeps == ASSUME ExchangeInv, Open PROVE ExchangeInv'
<1>1. PICK input \in Opening :
          Send(input, IF input.op = "take" THEN "taken" ELSE Null, TradeKeys[Last + 1])
  BY DEF Open
<1>2. TradeKeys[Last + 1] \in STRING
  <2>1. Len(calls) + 1 \in 1..Len(TradeKeys)
    BY <1>1, Shapes, ExchangeAssumption DEF Send, Last
  <2>. QED  BY <2>1, ExchangeAssumption DEF Last
<1>3. "taken" \in STRING
  BY StringsAssumption
<1>4. input.op \in {"create", "take"}
  BY OpeningIs
<1>. QED  BY <1>1, <1>2, <1>3, <1>4, SendKeeps

LEMMA FollowKeeps == ASSUME ExchangeInv, Follow PROVE ExchangeInv'
<1>1. PICK o \in DOMAIN held, input \in Following : Send(input, o, held[o])
  BY DEF Follow
<1>2. o \in STRING /\ held[o] \in STRING /\ \E m \in DOMAIN decisions : DecidedBy(m, o, held[o])
  BY DEF ExchangeInv, HeldAreDecided
<1>. QED  BY <1>1, <1>2, SendKeeps

LEMMA TimeOutKeeps == ASSUME ExchangeInv, TimeOut PROVE ExchangeInv'
<1>1. /\ results' = Append(results, Failed) /\ Len(results) < Len(calls)
      /\ UNCHANGED <<calls, opened, decisions, dms, held>>
  BY DEF TimeOut, Waiting
<1>2. /\ Len(results') = Len(results) + 1 /\ DOMAIN results' = 1..(Len(results) + 1)
      /\ \A n \in 1..Len(results) : results'[n] = results[n]
      /\ results'[Len(results) + 1] = Failed /\ IsSeq(results')
  BY <1>1, AppendIs DEF ExchangeInv, Sequences
<1>3. Sequences'
  <2>1. Len(results') <= Len(calls) /\ Len(calls) <= Len(results') + 1
    BY <1>1, <1>2, Shapes DEF ExchangeInv, Sequences
  <2>. QED  BY <1>1, <1>2, <2>1 DEF ExchangeInv, Sequences
<1>4. ResultsAreDecided'
  <2> SUFFICES ASSUME NEW n \in 1..(Len(results) + 1), calls[n].op \notin Unchecked, results'[n] # Failed
               PROVE  decisions[n] # Null /\ results'[n] = decisions[n] /\ results'[n] \in Results
    BY <1>1, <1>2 DEF ResultsAreDecided
  <2>1. n \in 1..Len(results)
    BY <1>2, Shapes
  <2>. QED  BY <1>2, <2>1, Shapes DEF ExchangeInv, ResultsAreDecided
<1>. QED  BY <1>1, <1>3, <1>4 DEF ExchangeInv, CallsAreMade, CallsFollow, DecidedBy, OpenedIsSent,
            DecidedAreOpened, DmsAreSent, Answers, HeldAreDecided

LEMMA DaemonNotifiesKeeps == ASSUME ExchangeInv, DaemonNotifies PROVE ExchangeInv'
<1>1. PICK notice \in Notices(Else(calls[Last].order, "new")) :
          dms' = Append(dms, DaemonDm(notice, calls[Last].trade))
  BY DEF DaemonNotifies
<1>2. UNCHANGED <<calls, results, opened, decisions, handled, held>>
  BY DEF DaemonNotifies
<1> DEFINE dm == DaemonDm(notice, calls[Last].trade)
<1>3. dm = DaemonDm(dm.json, dm.to) /\ NoRequestId(dm.json)
  BY NoticesHaveNoId DEF DaemonDm
<1> HIDE DEF dm
<1>4. /\ IsSeq(dms') /\ DOMAIN dms' = 1..(Len(dms) + 1) /\ \A i \in 1..Len(dms) : dms'[i] = dms[i]
      /\ dms'[Len(dms) + 1] = dm
  BY <1>1, AppendIs DEF ExchangeInv, Sequences, dm
<1>5. DmsAreSent'
  <2> SUFFICES ASSUME NEW i \in 1..(Len(dms) + 1)
               PROVE  /\ dms'[i] = DaemonDm(dms'[i].json, dms'[i].to)
                      /\ NoRequestId(dms'[i].json) \/ \E n \in DOMAIN decisions' : Answers(i, n)'
    BY <1>4 DEF DmsAreSent
  <2>1. CASE i \in 1..Len(dms)
    <3>1. dms'[i] = dms[i] /\ i \in DOMAIN dms
      BY <1>4, <2>1, Shapes
    <3>2. \A n \in DOMAIN decisions : Answers(i, n) => Answers(i, n)'
      BY <1>2, <3>1 DEF Answers
    <3>. QED  BY <1>2, <3>1, <3>2 DEF ExchangeInv, DmsAreSent
  <2>2. CASE i = Len(dms) + 1
    BY <1>3, <1>4, <2>2
  <2>3. Len(dms) \in Nat
    BY Shapes
  <2>. QED  BY <2>1, <2>2, <2>3
<1>. QED  BY <1>2, <1>4, <1>5 DEF ExchangeInv, Sequences, CallsAreMade, CallsFollow, DecidedBy,
            OpenedIsSent, DecidedAreOpened, HeldAreDecided, ResultsAreDecided

\* The daemon has what was sent.
LEMMA DaemonReads ==
    ASSUME ExchangeInv, NEW n \in DOMAIN calls, calls[n].event # Null
    PROVE  /\ UnwrapMessage(calls[n].event, Mostro)
                 = [message |-> calls[n].message, sender |-> calls[n].trade, identity |-> Identity]
           /\ BuiltFor(calls[n].message, n - 1)
<1>1. /\ BuiltFor(calls[n].message, n - 1) /\ calls[n].trade \in STRING
      /\ calls[n].event = WrapMessage(calls[n].message, Identity, calls[n].trade, Mostro)
  BY DEF ExchangeInv, CallsAreMade
<1>2. PICK of \in DOMAIN PayloadShape : calls[n].message \in Messages(of)
  BY <1>1 DEF BuiltFor
<1>. QED  BY <1>1, <1>2, EventRead

\* Its answer is one to the call.
LEMMA AnswerIs ==
    ASSUME NEW asked, ExchangeCallType(asked), NEW d \in Decided(asked), NEW of \in DOMAIN PayloadShape,
           NEW request \in Messages(of), request.value.request_id = asked.rid
    PROVE  LET kind == request.value
               json == MessageToJson(NewMessage(
                           IF d.action = "cant-do" THEN "cant-do" ELSE "order",
                           Else(d.result.order, kind.id), kind.request_id, Null, d.action, d.payload))
           IN AnswerTo(asked, d, MessageFromJson(json).value)
<1> DEFINE variant == IF d.action = "cant-do" THEN "cant-do" ELSE "order"
           id == Else(d.result.order, request.value.id)
           message == NewMessage(variant, id, asked.rid, Null, d.action, d.payload)
<1>1. DecisionType(d)
  BY DecidedType
<1>2. PICK other \in DOMAIN PayloadShape : d.payload \in Payloads(other) \cup {Null}
  BY <1>1 DEF DecisionType
<1>3. variant \in MessageVariant
  BY DEF MessageVariant
<1>4. id \in STRING \cup {Null}
  <2>1. request.value.id \in STRING \cup {Null}
    BY DEF Messages, Kinds
  <2>2. d.result.order \in STRING \cup {Null}
    BY <1>1 DEF DecisionType, Results
  <2>. QED  BY <2>1, <2>2 DEF Else
<1>5. asked.rid \in Nat \cup {Null} /\ Null \in Nat \cup {Null} /\ d.action \in STRING
  BY <1>1 DEF ExchangeCallType, DecisionType
<1>6. d.result.order # Null => id = d.result.order
  BY DEF Else
<1> HIDE DEF variant, id
<1>7. message \in Messages(other)
  BY <1>2, <1>3, <1>4, <1>5, NewMessageType
<1>8. MessageFromJson(MessageToJson(message)) = message
  BY <1>7, MessageRoundTrip
<1>9. /\ message.value.action = d.action /\ message.value.payload = d.payload
      /\ message.value.request_id = asked.rid /\ message.value.id = id
  BY DEF NewMessage
<1> HIDE DEF message
<1>10. AnswerTo(asked, d, MessageFromJson(MessageToJson(message)).value)
  BY <1>6, <1>8, <1>9 DEF AnswerTo
<1>. QED  BY <1>10 DEF message, id, variant

LEMMA DaemonAnswersKeeps ==
    ASSUME ExchangeInv, NEW n \in DOMAIN calls, DaemonAnswers(n)
    PROVE  ExchangeInv'
<1> DEFINE read == UnwrapMessage(calls[n].event, Mostro)
<1>1. calls[n].event # Null /\ opened[n] = Null /\ UNCHANGED <<calls, results, handled, held>>
  BY DEF DaemonAnswers
<1>2. /\ read = [message |-> calls[n].message, sender |-> calls[n].trade, identity |-> Identity]
      /\ BuiltFor(calls[n].message, n - 1)
  BY <1>1, DaemonReads
<1>3. read.message = calls[n].message /\ read.sender = calls[n].trade
  BY <1>2
<1>4. opened' = [opened EXCEPT ![n] = read]
  BY DEF DaemonAnswers
<1>5. n \in DOMAIN opened /\ n \in DOMAIN decisions /\ DOMAIN opened = DOMAIN calls
      /\ DOMAIN decisions = DOMAIN calls
  BY Shapes
<1>6. decisions[n] = Null
  BY <1>1, <1>5 DEF ExchangeInv, DecidedAreOpened
<1>7. \/ read \in {Null, Malformed} /\ UNCHANGED <<decisions, dms>>
      \/ /\ read \notin {Null, Malformed}
         /\ \E d \in Decided(calls[n]) :
              /\ decisions' = [decisions EXCEPT ![n] = d.result]
              /\ dms' = Append(dms, DaemonDm(MessageToJson(NewMessage(
                           IF d.action = "cant-do" THEN "cant-do" ELSE "order",
                           Else(d.result.order, read.message.value.id),
                           read.message.value.request_id, Null, d.action, d.payload)), read.sender))
  BY DEF DaemonAnswers
<1> HIDE DEF read
<1>8. /\ IsSeq(opened') /\ Len(opened') = Len(opened) /\ DOMAIN opened' = DOMAIN opened
      /\ opened'[n] = read /\ \A m \in DOMAIN opened : m # n => opened'[m] = opened[m]
  <2>1. IsSeq(opened)
    BY DEF ExchangeInv, Sequences
  <2>. QED  BY <1>4, <1>5, <2>1, ExceptIs
<1>9. OpenedIsSent'
  <2> SUFFICES ASSUME NEW m \in DOMAIN opened, opened'[m] # Null
               PROVE  /\ opened'[m] = [message |-> calls[m].message, sender |-> calls[m].trade,
                                       identity |-> Identity]
                      /\ VerifyMessageKind(opened'[m].message.value)
    BY <1>1, <1>8 DEF OpenedIsSent
  <2>1. CASE m = n
    BY <1>2, <1>3, <1>8, <2>1 DEF BuiltFor
  <2>2. CASE m # n
    BY <1>8, <2>2 DEF ExchangeInv, OpenedIsSent
  <2>. QED  BY <2>1, <2>2
<1>10. CASE read \in {Null, Malformed} /\ UNCHANGED <<decisions, dms>>
  <2>1. DecidedAreOpened'
    BY <1>6, <1>8, <1>10, <1>5 DEF ExchangeInv, DecidedAreOpened
  <2>. QED  BY <1>1, <1>8, <1>9, <1>10, <2>1 DEF ExchangeInv, Sequences, CallsAreMade, CallsFollow,
              DecidedBy, DmsAreSent, Answers, HeldAreDecided, ResultsAreDecided
<1>11. ASSUME NEW d \in Decided(calls[n]), read \notin {Null, Malformed},
              decisions' = [decisions EXCEPT ![n] = d.result],
              dms' = Append(dms, DaemonDm(MessageToJson(NewMessage(
                           IF d.action = "cant-do" THEN "cant-do" ELSE "order",
                           Else(d.result.order, read.message.value.id),
                           read.message.value.request_id, Null, d.action, d.payload)), read.sender))
       PROVE  ExchangeInv'
  <2> DEFINE json == MessageToJson(NewMessage(
                           IF d.action = "cant-do" THEN "cant-do" ELSE "order",
                           Else(d.result.order, read.message.value.id),
                           read.message.value.request_id, Null, d.action, d.payload))
             dm == DaemonDm(json, read.sender)
  <2>1. /\ IsSeq(decisions') /\ Len(decisions') = Len(decisions) /\ DOMAIN decisions' = DOMAIN decisions
        /\ decisions'[n] = d.result /\ \A m \in DOMAIN decisions : m # n => decisions'[m] = decisions[m]
    <3>1. IsSeq(decisions)
      BY DEF ExchangeInv, Sequences
    <3>. QED  BY <1>5, <1>11, <3>1, ExceptIs
  <2>2. ExchangeCallType(calls[n]) /\ calls[n].rid = n - 1
    BY DEF ExchangeInv, CallsAreMade
  <2>3. d.result # Null
    <3>1. d.result \in Results
      BY <2>2, DecidedType DEF DecisionType
    <3>. QED  BY <3>1, NullAssumption DEF Results
  <2>4. AnswerTo(calls[n], d, MessageFromJson(json).value)
    <3>1. /\ calls[n].message.value.request_id = calls[n].rid
          /\ \E of \in DOMAIN PayloadShape : calls[n].message \in Messages(of)
      BY <1>2, <2>2 DEF BuiltFor
    <3>. QED  BY <1>3, <2>2, <3>1, AnswerIs
  <2> HIDE DEF json
  <2>5. dm.json = json /\ dm = DaemonDm(dm.json, dm.to)
    BY DEF DaemonDm
  <2> HIDE DEF dm
  <2>6. /\ IsSeq(dms') /\ DOMAIN dms' = 1..(Len(dms) + 1) /\ \A i \in 1..Len(dms) : dms'[i] = dms[i]
        /\ dms'[Len(dms) + 1] = dm
    <3>1. dms' = Append(dms, dm)
      BY <1>11 DEF json, dm
    <3>. QED  BY <3>1, AppendIs DEF ExchangeInv, Sequences
  <2>7. \A m \in DOMAIN decisions : decisions[m] # Null => decisions'[m] = decisions[m]
    BY <1>6, <2>1
  <2>8. DecidedAreOpened'
    BY <1>5, <1>8, <1>11, <2>1 DEF ExchangeInv, DecidedAreOpened
  <2>9. DmsAreSent'
    <3> SUFFICES ASSUME NEW i \in 1..(Len(dms) + 1)
                 PROVE  /\ dms'[i] = DaemonDm(dms'[i].json, dms'[i].to)
                        /\ NoRequestId(dms'[i].json) \/ \E m \in DOMAIN decisions' : Answers(i, m)'
      BY <2>6 DEF DmsAreSent
    <3>1. CASE i \in 1..Len(dms)
      <4>1. dms'[i] = dms[i] /\ i \in DOMAIN dms
        BY <2>6, <3>1, Shapes
      <4>2. \A m \in DOMAIN decisions : Answers(i, m) => Answers(i, m)'
        BY <1>1, <2>7, <4>1 DEF Answers
      <4>. QED  BY <2>1, <4>1, <4>2 DEF ExchangeInv, DmsAreSent
    <3>2. CASE i = Len(dms) + 1
      <4>1. dms'[i] = dm
        BY <2>6, <3>2
      <4>2. Answers(i, n)'
        BY <1>1, <2>1, <2>3, <2>4, <2>5, <4>1 DEF Answers
      <4>. QED  BY <1>5, <2>1, <2>5, <4>1, <4>2
    <3>3. Len(dms) \in Nat
      BY Shapes
    <3>. QED  BY <3>1, <3>2, <3>3
  <2>10. \A m \in DOMAIN decisions : \A o, t : DecidedBy(m, o, t) => DecidedBy(m, o, t)'
    BY <1>1, <2>7 DEF DecidedBy
  <2>11. CallsFollow'
    <3> SUFFICES ASSUME NEW k \in DOMAIN calls, calls[k].op \notin {"create", "take"}
                 PROVE  \E m \in 1..(k - 1) : /\ decisions'[m] # Null /\ decisions'[m].order = calls[k].order
                                              /\ calls[m].trade = calls[k].trade
      BY <1>1 DEF CallsFollow, DecidedBy
    <3>1. PICK m \in 1..(k - 1) : DecidedBy(m, calls[k].order, calls[k].trade)
      BY DEF ExchangeInv, CallsFollow
    <3>2. m \in DOMAIN decisions
      BY Shapes
    <3>. QED  BY <2>7, <3>1, <3>2 DEF DecidedBy
  <2>12. HeldAreDecided'
    BY <1>1, <2>1, <2>10 DEF ExchangeInv, HeldAreDecided
  <2>13. ResultsAreDecided'
    <3> SUFFICES ASSUME NEW k \in DOMAIN results, calls[k].op \notin Unchecked, results[k] # Failed
                 PROVE  decisions'[k] # Null /\ results[k] = decisions'[k] /\ results[k] \in Results
      BY <1>1 DEF ResultsAreDecided
    <3>1. decisions[k] # Null /\ results[k] = decisions[k] /\ results[k] \in Results
      BY DEF ExchangeInv, ResultsAreDecided
    <3>2. k \in DOMAIN decisions
      <4>1. /\ Len(results) \in Nat /\ Len(calls) \in Nat /\ Len(results) <= Len(calls)
            /\ k \in 1..Len(results) /\ DOMAIN decisions = 1..Len(calls)
        BY Shapes
      <4>. QED  BY <4>1
    <3>. QED  BY <2>7, <3>1, <3>2
  <2>. QED  BY <1>1, <1>8, <1>9, <2>1, <2>6, <2>8, <2>9, <2>11, <2>12, <2>13
            DEF ExchangeInv, Sequences, CallsAreMade
<1>. QED  BY <1>7, <1>10, <1>11

\* What a DM that is read says to a call that checks its answer: what was
\* decided on this very call, or nothing.
LEMMA DeliveredIs ==
    ASSUME ExchangeInv, Waiting, NEW i \in DOMAIN dms, NEW key,
           UnwrapMessage(dms[i], key) \notin {Null, Malformed},
           calls[Last].op \notin Unchecked,
           Handle(calls[Last], UnwrapMessage(dms[i], key).message.value) # Failed
    PROVE  /\ decisions[Last] # Null /\ decisions[Last] \in Results /\ decisions[Last].order \in STRING
           /\ Handle(calls[Last], UnwrapMessage(dms[i], key).message.value) = decisions[Last]
<1> DEFINE asked == calls[Last]
           kind == UnwrapMessage(dms[i], key).message.value
<1>1. dms[i] = DaemonDm(dms[i].json, dms[i].to)
  BY DEF ExchangeInv, DmsAreSent
<1>2. /\ MessageFromJson(dms[i].json) # Malformed
      /\ kind = MessageFromJson(dms[i].json).value
  BY <1>1, DmRead
<1>3. Last \in DOMAIN calls
  <2>1. /\ Len(calls) \in Nat /\ Len(results) \in Nat /\ Len(results) < Len(calls)
    BY Shapes DEF Waiting
  <2>. QED  BY <2>1, Shapes DEF Last
<1>4. ExchangeCallType(asked) /\ asked.rid = Last - 1 /\ Last \in Nat
  BY <1>3, Shapes DEF ExchangeInv, CallsAreMade, Last
<1> HIDE DEF asked, kind
<1>5. kind.request_id = asked.rid
  BY OthersRefused DEF asked, kind
<1>6. asked.rid # Null
  <2>1. asked.rid \in Int
    BY <1>4
  <2>. QED  BY <2>1, MessagesAssumption DEF Scalars
<1>7. ~NoRequestId(dms[i].json)
  BY <1>2, <1>5, <1>6, RequestIdKept DEF NoRequestId
<1>8. PICK n \in DOMAIN decisions : Answers(i, n)
  BY <1>7 DEF ExchangeInv, DmsAreSent
<1>9. PICK d \in Decided(calls[n]) : decisions[n] = d.result /\ AnswerTo(calls[n], d, kind)
  BY <1>2, <1>8 DEF Answers
<1>10. n = Last
  <2>1. n \in DOMAIN calls /\ n \in Nat
    BY Shapes
  <2>2. kind.request_id = n - 1
    BY <1>9, <2>1 DEF AnswerTo, ExchangeInv, CallsAreMade
  <2>. QED  BY <1>4, <1>5, <2>1, <2>2
<1>11. Handle(asked, kind) = d.result
  <2>1. /\ d \in Decided(asked) /\ AnswerTo(asked, d, kind) /\ asked.op \notin Unchecked
        /\ Handle(asked, kind) # Failed
    BY <1>9, <1>10 DEF asked, kind
  <2>. QED  BY <1>4, <2>1, AnswerHandled
<1>12. d.result \in Results /\ d.result.order \in STRING
  <2>1. DecisionType(d)
    BY <1>4, <1>9, <1>10, DecidedType DEF asked
  <2>2. d.result # Failed
    BY <1>11 DEF asked, kind
  <2>. QED  BY <2>1, <2>2 DEF DecisionType
<1>. QED  BY <1>8, <1>9, <1>10, <1>11, <1>12 DEF Answers, asked, kind

LEMMA DeliverKeeps ==
    ASSUME ExchangeInv, NEW i \in DOMAIN dms, Deliver(i)
    PROVE  ExchangeInv'
<1> DEFINE asked == calls[Last]
           read == UnwrapMessage(dms[i], asked.trade)
           result == Handle(asked, read.message.value)
<1>1. Waiting /\ UNCHANGED <<calls, opened, decisions, dms>>
  BY DEF Deliver
<1>2. \/ UNCHANGED <<results, held>>
      \/ /\ read \notin {Null, Malformed} /\ results' = Append(results, result)
         /\ held' = IF asked.op \in {"create", "take"} /\ result # Failed
                    THEN [o \in DOMAIN held \cup {result.order} |->
                             IF o = result.order THEN asked.trade ELSE held[o]]
                    ELSE held
  BY DEF Deliver
<1>3. /\ Len(calls) \in Nat /\ Len(results) \in Nat /\ Len(results) < Len(calls)
      /\ Len(calls) <= Len(results) + 1 /\ Last = Len(calls)
  BY <1>1, Shapes DEF Waiting, Last
<1>4. Last = Len(results) + 1 /\ Last \in 1..Len(calls)
  BY <1>3
<1>5. Last \in DOMAIN calls /\ Last \in DOMAIN decisions
  BY <1>4, Shapes
<1>6. CASE UNCHANGED <<results, held>>
  BY <1>1, <1>6 DEF ExchangeInv, Sequences, CallsAreMade, CallsFollow, DecidedBy, OpenedIsSent,
       DecidedAreOpened, DmsAreSent, Answers, HeldAreDecided, ResultsAreDecided
<1>7. CASE read \notin {Null, Malformed} /\ results' = Append(results, result)
           /\ held' = IF asked.op \in {"create", "take"} /\ result # Failed
                      THEN [o \in DOMAIN held \cup {result.order} |->
                               IF o = result.order THEN asked.trade ELSE held[o]]
                      ELSE held
  <2>1. asked.op \notin Unchecked /\ result # Failed =>
           /\ decisions[Last] # Null /\ decisions[Last] \in Results /\ decisions[Last].order \in STRING
           /\ result = decisions[Last]
    BY <1>1, <1>7, DeliveredIs
  <2>2. asked.trade \in STRING
    BY <1>5 DEF ExchangeInv, CallsAreMade
  <2> HIDE DEF asked, read, result
  <2>3. /\ IsSeq(results') /\ Len(results') = Len(results) + 1
        /\ DOMAIN results' = 1..(Len(results) + 1)
        /\ \A n \in 1..Len(results) : results'[n] = results[n]
        /\ results'[Len(results) + 1] = result
    BY <1>7, AppendIs DEF ExchangeInv, Sequences
  <2>4. Sequences'
    <3>1. Len(results') = Len(results) + 1
      BY <2>3
    <3>2. Len(results') <= Len(calls) /\ Len(calls) <= Len(results') + 1
      BY <1>3, <3>1
    <3>. QED  BY <1>1, <2>3, <3>2 DEF ExchangeInv, Sequences
  <2>5. ResultsAreDecided'
    <3> SUFFICES ASSUME NEW n \in 1..(Len(results) + 1), calls[n].op \notin Unchecked,
                        results'[n] # Failed
                 PROVE  decisions[n] # Null /\ results'[n] = decisions[n] /\ results'[n] \in Results
      BY <1>1, <2>3 DEF ResultsAreDecided
    <3>1. CASE n \in 1..Len(results)
      <4>1. n \in DOMAIN results /\ results'[n] = results[n]
        BY <2>3, <3>1, Shapes
      <4>. QED  BY <4>1 DEF ExchangeInv, ResultsAreDecided
    <3>2. CASE n = Last
      <4>1. results'[n] = result /\ calls[n] = asked
        BY <1>4, <2>3, <3>2 DEF asked
      <4>. QED  BY <2>1, <3>2, <4>1
    <3>. QED  BY <1>3, <1>4, <3>1, <3>2
  <2>6. HeldAreDecided'
    <3>1. CASE asked.op \in {"create", "take"} /\ result # Failed
      <4>1. asked.op \notin Unchecked
        BY <3>1 DEF Unchecked
      <4>2. /\ decisions[Last] # Null /\ result.order \in STRING
            /\ decisions[Last].order = result.order
        BY <2>1, <3>1, <4>1
      <4>3. DecidedBy(Last, result.order, asked.trade)
        BY <4>2 DEF DecidedBy, asked
      <4>4. held' = [o \in DOMAIN held \cup {result.order} |->
                        IF o = result.order THEN asked.trade ELSE held[o]]
        BY <1>7, <3>1
      <4> SUFFICES ASSUME NEW o \in DOMAIN held'
                   PROVE  /\ o \in STRING /\ held'[o] \in STRING
                          /\ \E m \in DOMAIN decisions :
                                decisions[m] # Null /\ decisions[m].order = o /\ calls[m].trade = held'[o]
        BY <1>1 DEF HeldAreDecided, DecidedBy
      <4>5. CASE o = result.order
        <5>1. held'[o] = asked.trade
          BY <4>4, <4>5
        <5>2. decisions[Last] # Null /\ decisions[Last].order = o /\ calls[Last].trade = held'[o]
          BY <4>3, <4>5, <5>1 DEF DecidedBy
        <5>. QED  BY <1>5, <2>2, <4>2, <4>5, <5>1, <5>2
      <4>6. CASE o # result.order
        <5>1. o \in DOMAIN held /\ held'[o] = held[o]
          BY <4>4, <4>6
        <5>2. o \in STRING /\ held[o] \in STRING /\ \E m \in DOMAIN decisions : DecidedBy(m, o, held[o])
          BY <5>1 DEF ExchangeInv, HeldAreDecided
        <5>. QED  BY <5>1, <5>2 DEF DecidedBy
      <4>. QED  BY <4>5, <4>6
    <3>2. CASE ~(asked.op \in {"create", "take"} /\ result # Failed)
      BY <1>1, <1>7, <3>2 DEF ExchangeInv, HeldAreDecided, DecidedBy
    <3>. QED  BY <3>1, <3>2
  <2>. QED  BY <1>1, <2>4, <2>5, <2>6 DEF ExchangeInv, CallsAreMade, CallsFollow, DecidedBy,
              OpenedIsSent, DecidedAreOpened, DmsAreSent, Answers
<1>. QED  BY <1>2, <1>6, <1>7

LEMMA ExchangeNextKeeps == ASSUME ExchangeInv, ExchangeNext PROVE ExchangeInv'
<1>1. CASE Open
  BY <1>1, OpenKeeps
<1>2. CASE Follow
  BY <1>2, FollowKeeps
<1>3. CASE TimeOut
  BY <1>3, TimeOutKeeps
<1>4. CASE DaemonNotifies
  BY <1>4, DaemonNotifiesKeeps
<1>5. ASSUME NEW n \in DOMAIN calls, DaemonAnswers(n) PROVE ExchangeInv'
  BY <1>5, DaemonAnswersKeeps
<1>6. ASSUME NEW i \in DOMAIN dms, Deliver(i) PROVE ExchangeInv'
  BY <1>6, DeliverKeeps
<1>. QED  BY <1>1, <1>2, <1>3, <1>4, <1>5, <1>6 DEF ExchangeNext

-----------------------------------------------------------------------------
\* The invariant holds.
LEMMA ExchangeInvHolds == Spec => []ExchangeInv
<1>1. Init => ExchangeInv
  BY InitExchange DEF Init
<1>2. ExchangeInv /\ [Next]_<<part, exchangeVars, chatVars, trustVars, encryptorVars>> => ExchangeInv'
  <2> SUFFICES ASSUME ExchangeInv, [Next]_<<part, exchangeVars, chatVars, trustVars, encryptorVars>>
               PROVE  ExchangeInv'
    OBVIOUS
  <2>1. ExchangeNext \/ UNCHANGED exchangeVars
    BY DEF Next
  <2>. QED  BY <2>1, ExchangeNextKeeps, ExchangeStutters
<1>. QED  BY <1>1, <1>2, PTL DEF Spec

\* The daemon reads the very message a builder made, verified, signed by the
\* trade key it knows for the order and proved by the identity.
THEOREM RequestArrivesIntactHolds == Spec => []RequestArrivesIntact
<1>. QED  BY ExchangeHolds, ExchangeInvHolds, PTL

\* A call that checks its answer returns what the daemon decided on it, or fails.
THEOREM ResultMatchesDecisionHolds == Spec => []ResultMatchesDecision
<1>. QED  BY ExchangeHolds, ExchangeInvHolds, PTL
=============================================================================

---------------------------- MODULE ChatEnvelope ----------------------------
(***************************************************************************)
(* Chat between the parties of a trade and the solver of its dispute: the   *)
(* envelope (chat.ts), its keys (chatKeys.ts) and the encrypted files it    *)
(* points to (blossom.ts, client.ts).  Every client has its own clock;      *)
(* an event reaches a client at any time and any number of times, as a      *)
(* relay sends it again on each subscription.  What only a forged event     *)
(* fails (kind, signatures, more than one p tag) is left out.               *)
(***************************************************************************)
EXTENDS Integers, Sequences

CONSTANTS
    Parties,        \* whoever chats, by trade key
    Servers,        \* Blossom servers
    ServersOf,      \* the servers of each party's client, a sequence
    MaxSkew,        \* how far ahead an event may be dated
    MaxAhead,       \* how far a clock is ahead of the slowest
    MaxAttachment,  \* the size limit of files
    Overhead,       \* what encryption adds to a file
    Refused,        \* the outcome of what throws
    NoFile,         \* instead of a server, a file or a delivery
    MaxChats, MaxTime   \* bounds on the events and the time

ASSUME ChatEnvelopeAssumption ==
    /\ MaxSkew \in Nat /\ MaxAhead \in Nat /\ MaxAttachment \in Nat
    /\ Overhead \in Nat \ {0} /\ MaxChats \in Nat /\ MaxTime \in Nat
    /\ \A p \in Parties : ServersOf[p] \in Seq(Servers)
    /\ Refused \notin [key : SUBSET Parties, size : Nat, length : Nat]

VARIABLES
    time,       \* of the slowest clock
    ahead,      \* by which each clock is ahead of it
    chats,      \* the events, with who sent them
    blobs,      \* the encrypted files on the servers
    reading,    \* the last delivery, and what came of it
    download    \* the last download, and what came of it

chatVars == <<time, ahead, chats, blobs, reading, download>>

Conversations == {c \in SUBSET Parties : \E p, q \in Parties : p # q /\ c = {p, q}}
Clock(p) == time + ahead[p]

\* The shared secret is the two keys', whoever derives it.
GenerateSharedKey(own, peer) == {own, peer}
DeriveChatKeys(own, peer) ==
    [conv |-> <<"conv", GenerateSharedKey(own, peer)>>, sign |-> <<"sign", GenerateSharedKey(own, peer)>>]

\* A body is a text, or the description of a file; a long one does not fit.
Text(t, long) == [text |-> t, long |-> long, server |-> NoFile, blob |-> NoFile]
Attachment(server, blob) == [text |-> "", long |-> FALSE, server |-> server, blob |-> blob]

WrapChatMessage(sender, keys, body, now) ==
    [pubkey |-> keys.sign, p |-> keys.conv, created_at |-> now, key |-> keys.conv,
     inner |-> [pubkey |-> sender, created_at |-> now, content |-> body]]

\* A reader that allows for no skew.
UnwrapsPastOnly(outer, keys, allowed, now) ==
    IF outer.pubkey # keys.sign \/ outer.p # keys.conv \/ outer.created_at > now
    THEN Refused ELSE [content |-> outer.inner.content, sender |-> outer.inner.pubkey]

Distance(m, n) == IF m < n THEN n - m ELSE m - n

UnwrapChatMessage(outer, keys, allowed, now) ==
    IF \/ outer.pubkey # keys.sign
       \/ outer.p # keys.conv
       \/ outer.created_at > now + MaxSkew
       \/ outer.inner.content.long
       \/ outer.inner.pubkey \notin allowed
       \/ Distance(outer.inner.created_at, outer.created_at) > MaxSkew
    THEN Refused
    ELSE [content |-> outer.inner.content, sender |-> outer.inner.pubkey]

-----------------------------------------------------------------------------
\* Files, by size; the name is of an allowed extension or not.
ValidateAttachment(size, extension) == size <= MaxAttachment /\ extension

EncryptBlob(key, size) == [key |-> key, size |-> size, length |-> size + Overhead]
DecryptBlob(key, blob) == IF blob.key = key THEN blob.size ELSE Refused

\* Whatever size a file has on the server it is fetched.
DownloadsAnySize(attachment, allowed) ==
    IF attachment.server \notin allowed \/ <<attachment.server, attachment.blob>> \notin blobs
    THEN Refused ELSE attachment.blob

\* The first server that takes it; none when all fail.
UploadBlob(servers, failing) ==
    LET taking == {i \in DOMAIN servers : servers[i] \notin failing}
    IN IF taking = {} THEN NoFile
       ELSE servers[CHOOSE i \in taking : \A j \in taking : i <= j]

DownloadBlob(attachment, allowed) ==
    IF \/ attachment.server \notin allowed
       \/ <<attachment.server, attachment.blob>> \notin blobs
       \/ attachment.blob.length > MaxAttachment
    THEN Refused ELSE attachment.blob

-----------------------------------------------------------------------------
ChatInit ==
    /\ time = 0
    /\ ahead \in [Parties -> 0..MaxAhead] /\ \E p \in Parties : ahead[p] = 0
    /\ chats = <<>> /\ blobs = {} /\ reading = NoFile /\ download = NoFile

Post(p, q, body) ==
    /\ Len(chats) < MaxChats
    /\ chats' = Append(chats, [from |-> p, to |-> q, body |-> body,
                   event |-> WrapChatMessage(p, DeriveChatKeys(p, q), body, Clock(p))])

SendChatMessage(p, q) ==
    /\ \E long \in BOOLEAN : Post(p, q, Text(<<p, q>>, long))
    /\ UNCHANGED <<time, ahead, blobs, reading, download>>

\* sendOrderChatAttachment; an invalid file or a failed upload sends nothing.
SendAttachment(p, q) ==
    \E size \in 0..(MaxAttachment + 1), extension \in BOOLEAN, failing \in SUBSET Servers :
        LET blob   == EncryptBlob(GenerateSharedKey(p, q), size)
            server == UploadBlob(ServersOf[p], failing)
        IN /\ ValidateAttachment(size, extension) /\ server # NoFile
           /\ blobs' = blobs \cup {<<server, blob>>}
           /\ Post(p, q, Attachment(server, blob))
           /\ UNCHANGED <<time, ahead, reading, download>>

\* An event is given to the handler of a conversation p has with q, be it of that one or not.
Receive(p, q, n) ==
    /\ reading' = [who |-> p, peer |-> q, chat |-> n, at |-> Clock(p),
            outcome |-> UnwrapChatMessage(chats[n].event, DeriveChatKeys(p, q), {p, q}, Clock(p))]
    /\ UNCHANGED <<time, ahead, chats, blobs, download>>

DownloadAttachment ==
    /\ reading # NoFile /\ reading.outcome # Refused /\ reading.outcome.content.server # NoFile
    /\ LET servers == ServersOf[reading.who]
           got     == DownloadBlob(reading.outcome.content, {servers[i] : i \in DOMAIN servers})
       IN download' = [who |-> reading.who, chat |-> reading.chat,
              outcome |-> IF got = Refused THEN Refused
                          ELSE DecryptBlob(GenerateSharedKey(reading.who, reading.peer), got)]
    /\ UNCHANGED <<time, ahead, chats, blobs, reading>>

ChatTick ==
    /\ time < MaxTime /\ time' = time + 1
    /\ UNCHANGED <<ahead, chats, blobs, reading, download>>

ChatNext ==
    \/ ChatTick
    \/ \E p, q \in Parties : p # q /\ (SendChatMessage(p, q) \/ SendAttachment(p, q))
    \/ \E p, q \in Parties, n \in DOMAIN chats : p # q /\ Receive(p, q, n)
    \/ DownloadAttachment

-----------------------------------------------------------------------------
\* Whenever it comes, an event opens in the conversation it was written in and
\* in no other, for both its parties and with what was written and by whom,
\* unless it is too long or its writer's clock is too far ahead of the reader's.
\* client.ts:723 "Not a valid conversation message."
ChatReadByPeer ==
    reading # NoFile =>
        LET r == reading
            c == chats[r.chat]
        IN r.outcome = IF /\ {r.who, r.peer} = {c.from, c.to} /\ ~c.body.long
                          /\ c.event.created_at <= r.at + MaxSkew
                       THEN [content |-> c.body, sender |-> c.from] ELSE Refused

\* A file that could be sent is the one that is downloaded, by either party,
\* also after uploads that failed, if the reader's client uses the server the
\* file went to and the file with what encryption adds is within the limit.
\* client.ts:667-669, 696-697.
AttachmentOpens ==
    download # NoFile =>
        LET d == download
            c == chats[d.chat]
        IN d.outcome = IF /\ \E i \in DOMAIN ServersOf[d.who] : ServersOf[d.who][i] = c.body.server
                          /\ c.body.blob.size + Overhead <= MaxAttachment
                       THEN c.body.blob.size ELSE Refused
=============================================================================

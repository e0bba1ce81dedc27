------------------------------- MODULE Updates -------------------------------
(***************************************************************************)
(* What the clients are told of each other: the resource manager queues a  *)
(* message for sendOneUpdateToAllClient, and a worker sends it to one      *)
(* client after the other, each over a connection of its own, while other  *)
(* messages are on their way.  The message is encoded again for each       *)
(* client, and encodePacket changes the header it encodes (Packet).        *)
(*                                                                         *)
(* The slots of clients are a set here; ClientTable has the steps of       *)
(* registering, ResourceManager has what a request does to the playlist.   *)
(***************************************************************************)
EXTENDS Naturals, Sequences, Packet

CONSTANTS
    MaxClient,  \* MAX_CLIENT
    Token,      \* tokens of songs, as u32
    MaxUpdates, \* bound: messages to all clients
    MaxDrops    \* bound: connections and sends that fail

ClientId == 0 .. MaxClient - 1
Update == 1 .. MaxUpdates

\* Values of msg_type_t.
resOk_m == 6
client_add_m == 9
client_currentPlaying_m == 10
client_deleteAllDataId_m == 11
client_delete_req_m == 12

VARIABLES
    registered,
    update,  \* the messages that were queued, in order: see UpdateType
    drops

vars == <<registered, update, drops>>

(***************************************************************************)
(* msg: *reqMsg.  i: the slot the loop is at, MaxClient when it is done.   *)
(* sent: the packets that clients received, in order.  History: what, of   *)
(* whom and for which token it was queued, and the clients that were       *)
(* registered ever since, and did not fail.  nth: how often the message    *)
(* had been encoded before.                                                *)
(***************************************************************************)
Message(u) ==
    /\ DOMAIN u = {"msg", "i", "nth", "sent", "what", "from", "token", "audience"}
    /\ DOMAIN u.msg = {"header", "payLoad"}
    /\ u.msg.header.clntId \in ClientId
    /\ u.i \in 0 .. MaxClient
    /\ \A k \in DOMAIN u.sent : u.sent[k].to \in ClientId
    /\ u.from \in ClientId
    /\ u.audience \subseteq ClientId

TypeOK ==
    /\ registered \subseteq ClientId
    /\ Len(update) <= MaxUpdates
    /\ \A k \in DOMAIN update : Message(update[k])
    /\ drops \in 0 .. MaxDrops

Init ==
    /\ registered = {}
    /\ update = <<>>
    /\ drops = 0

Header(signature, msgId, clntId, token, isLast) ==
    [signature |-> signature, totalSize |-> Word(0), msgId |-> msgId, clntId |-> clntId,
     token |-> token, isLast |-> isLast]

\* addJobToQueue(sendOneUpdateToAllClient, msg)
Queued(head, payLoad, what, from, token) ==
    [msg |-> [header |-> head, payLoad |-> payLoad], i |-> 0, nth |-> 0, sent |-> <<>>, what |-> what,
     from |-> from, token |-> token, audience |-> registered]

Queue(u) == Len(update) < MaxUpdates /\ update' = Append(update, u)

createClientMsg(clntId, token, id) == Header(SIGNATURE, id, clntId, token, 1)

----------------------------------------------------------------------------
(* The resource manager.                                                    *)

Register(c) ==
    /\ c \notin registered
    /\ registered' = registered \cup {c}
    /\ UNCHANGED <<update, drops>>

\* The clients left are told of a deregistration.
Forget(c, us) == [k \in DOMAIN us |-> [us[k] EXCEPT !.audience = @ \ {c}]]

Deregister(c) ==
    /\ c \in registered
    /\ registered' = registered \ {c}
    /\ Len(update) < MaxUpdates
    /\ update' = Append(Forget(c, update),
                        [Queued(createClientMsg(c, Word(0), client_deleteAllDataId_m), <<>>,
                                client_deleteAllDataId_m, c, Word(0))
                         EXCEPT !.audience = @ \ {c}])
    /\ UNCHANGED drops

\* The whole request, msgId = resOk_m by now, is copied over client_add_m.  decodePacket
\* does not set the signature of a message; 0 stands for what else malloc gives.
ServAdd(c, token, isLast) ==
    /\ c \in registered
    /\ \E signature \in {SIGNATURE, 0} :
          Queue(Queued(Header(signature, resOk_m, c, token, isLast), <<7>>, client_add_m, c, token))
    /\ UNCHANGED <<registered, drops>>

\* clntId is read from the request after sendACKandClose: from freed memory when isLast
\* is set, from a message that was cleared, and perhaps filled again, when it is not.
ServDelete(c, token, isLast) ==
    /\ c \in registered
    /\ \E clntId \in IF isLast = 1 THEN ClientId ELSE {0, c} :
          Queue(Queued(createClientMsg(clntId, token, client_delete_req_m), <<>>,
                       client_delete_req_m, c, token))
    /\ UNCHANGED <<registered, drops>>

\* getClientRequestForPlaying tells everybody, the client itself included; it may have
\* been deregistered since its song was scheduled.
PlayingStarts(c, token) ==
    /\ Queue(Queued(createClientMsg(c, token, client_currentPlaying_m), <<>>,
                    client_currentPlaying_m, c, token))
    /\ UNCHANGED <<registered, drops>>

----------------------------------------------------------------------------
(* The worker that runs update k: the round of its loop for slot i.         *)

Skips(u, i) ==
    \/ i \notin registered
    \/ i = u.msg.header.clntId /\ u.msg.header.msgId # client_currentPlaying_m

Skip(k) ==
    /\ update[k].i < MaxClient
    /\ Skips(update[k], update[k].i)
    /\ update' = [update EXCEPT ![k].i = @ + 1]
    /\ UNCHANGED <<registered, drops>>

Target(k) == update[k].i < MaxClient /\ ~Skips(update[k], update[k].i)

Drop == drops < MaxDrops /\ drops' = drops + 1

sendOneUpdate(k) ==
    /\ Target(k)
    /\ LET u == update[k] IN
       update' = [update EXCEPT ![k] =
           [u EXCEPT !.i = @ + 1,
                     !.msg = Encoded(@), !.nth = @ + 1,
                     !.sent = Append(@, [to |-> u.i, nth |-> u.nth, packet |-> encodePacket(u.msg)])]]
    /\ UNCHANGED <<registered, drops>>

\* Variant: the loop is left.
SendFailsBreaks(k) ==
    /\ Target(k)
    /\ Drop
    /\ update' = [update EXCEPT ![k] =
           [@ EXCEPT !.i = MaxClient, !.msg = Encoded(@), !.nth = @ + 1, !.audience = @ \ {update[k].i}]]
    /\ UNCHANGED registered

SendFails(k) ==
    /\ Target(k)
    /\ Drop
    /\ LET u == update[k] IN
       update' = [update EXCEPT ![k] =
           [u EXCEPT !.i = @ + 1, !.msg = Encoded(@), !.nth = @ + 1, !.audience = @ \ {u.i}]]
    /\ UNCHANGED registered

\* Variant: the slot is tried again, one slot too low.
ConnectFailsRetries(k) ==
    /\ Target(k)
    /\ Drop
    /\ registered' = registered \ {update[k].i}
    /\ update' = Forget(update[k].i, [update EXCEPT ![k].i = @ - 1])

\* connectToClient deregisters the client; the deregistration is told to the others.
ConnectFails(k) ==
    /\ Target(k)
    /\ Drop
    /\ LET c == update[k].i IN
       /\ registered' = registered \ {c}
       /\ Len(update) < MaxUpdates
       /\ update' = Append(Forget(c, [update EXCEPT ![k].i = @ + 1]),
                           [Queued(createClientMsg(c, Word(0), client_deleteAllDataId_m), <<>>,
                                   client_deleteAllDataId_m, c, Word(0))
                            EXCEPT !.audience = @ \ {c}])

sendOneUpdateToAllClient(k) == Skip(k) \/ sendOneUpdate(k) \/ SendFails(k) \/ ConnectFails(k)

Next ==
    \/ \E c \in ClientId :
          \/ Register(c) \/ Deregister(c)
          \/ \E token \in Token :
                \/ PlayingStarts(c, token)
                \/ \E isLast \in {0, 1} : ServAdd(c, token, isLast) \/ ServDelete(c, token, isLast)
    \/ \E k \in DOMAIN update : sendOneUpdateToAllClient(k)

Spec == Init /\ [][Next]_vars

----------------------------------------------------------------------------
(* What has to hold.                                                        *)

\* When the loop is done, everybody else who was registered all the time and could be
\* reached has got the update, once, whoever else came, went or failed meanwhile; the
\* one it is about is told, too, when its song starts (clientdb.c:659-677).
EveryoneElseIsTold ==
    \A k \in DOMAIN update :
        LET u == update[k]
            about == IF u.what = client_currentPlaying_m THEN {} ELSE {u.msg.header.clntId}
        IN  u.i = MaxClient =>
                \A c \in u.audience \ about :
                    \E n \in DOMAIN u.sent : \A m \in DOMAIN u.sent : u.sent[m].to = c <=> m = n

\* A client that reads as many bytes as the size says has read one packet, since the size
\* is set again for each encoding; nothing moves to another field (packet.c:85-133).  The
\* token is not set again: every second encoding carries it with its bytes reversed, and
\* who reads that depends on who is registered and on which sends failed.
PacketsArrive ==
    \A k \in DOMAIN update : \A n \in DOMAIN update[k].sent :
        LET u == update[k]
            s == u.sent[n]
            d == Decoded(s.packet)
        IN  /\ SizeOf(s.packet) = Word(Len(s.packet))
            /\ SignatureOf(s.packet) = u.msg.header.signature
            /\ d.payLoad = u.msg.payLoad
            /\ d.header.msgId = u.msg.header.msgId
            /\ d.header.clntId = u.msg.header.clntId
            /\ d.header.isLast = u.msg.header.isLast
            /\ d.header.token = IF s.nth % 2 = 0 THEN u.token ELSE Swap(u.token)
=============================================================================

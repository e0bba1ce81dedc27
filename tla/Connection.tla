----------------------------- MODULE Connection -----------------------------
(***************************************************************************)
(* A connection of a client from accept to close: its clntMsg_t and its    *)
(* socket go from the accept loop (server.c) to a handleClient job, to the *)
(* resource manager, and back to the pool when the request was not the     *)
(* last one (serverRoutine.c).  Neither is counted or locked: whoever      *)
(* holds the pointer is to answer, and to close and free or to pass it on. *)
(*                                                                         *)
(* Descriptors and addresses are reused as soon as they are free.  malloc  *)
(* succeeds.  What a request asks for is not modelled here, nor whether    *)
(* the answer is resOk_m or resErr_m.                                      *)
(***************************************************************************)
EXTENDS Naturals, Sequences, FiniteSets, SequencesExt

CONSTANTS
    Client,       \* connections; one is made again only when nothing was sent on it
    Fd,           \* bound: descriptors
    Msg,          \* bound: addresses malloc gives for a clntMsg_t
    Worker,
    NULL,
    MaxRequests   \* bound: packets the clients send

VARIABLES
    peer,       \* the client at the other end of each descriptor, NULL when it is closed
    unread,     \* what each client has sent and nobody has read; each packet numbered
    asked,      \* how many packets each client has sent
    answers,    \* the numbers of the packets whose answers each client got
    allocated,  \* the messages in use
    clntMsg,    \* the content of each message, freed ones included
    payLoads,   \* payloads allocated and not freed
    workQueue,  \* the messages of the handleClient jobs nobody has begun
    job,        \* the message each worker is handling, or NULL
    jobPc,
    rmQueue,
    rmMsg,      \* the message the resource manager is serving, or NULL
    rmPc

clientVars == <<unread, asked, answers>>
heapVars == <<allocated, clntMsg, payLoads>>
jobVars == <<workQueue, job, jobPc>>
rmVars == <<rmQueue, rmMsg, rmPc>>
vars == <<peer, clientVars, heapVars, jobVars, rmVars>>

Packet == [number : 1 .. MaxRequests, isLast : BOOLEAN, hasPayLoad : BOOLEAN]

\* token: the number of the packet; 0 before the first one and after memset.
MsgContent == [fd : Fd \cup {NULL}, payLoad : BOOLEAN, isLast : BOOLEAN, token : 0 .. MaxRequests]

TypeOK ==
    /\ peer \in [Fd -> Client \cup {NULL}]
    /\ unread \in [Client -> Seq(Packet)]
    /\ asked \in [Client -> 0 .. MaxRequests]
    /\ answers \in [Client -> Seq(0 .. MaxRequests)]
    /\ allocated \subseteq Msg
    /\ clntMsg \in [Msg -> MsgContent]
    /\ payLoads \in Nat
    /\ workQueue \in Seq(Msg)
    /\ job \in [Worker -> Msg \cup {NULL}]
    /\ jobPc \in [Worker -> {"idle", "receive", "post", "free"}]
    /\ rmQueue \in Seq(Msg)
    /\ rmMsg \in Msg \cup {NULL}
    /\ rmPc \in {"idle", "answer", "sent", "free"}

Init ==
    /\ peer = [f \in Fd |-> NULL]
    /\ unread = [c \in Client |-> <<>>]
    /\ asked = [c \in Client |-> 0]
    /\ answers = [c \in Client |-> <<>>]
    /\ allocated = {}
    /\ clntMsg = [m \in Msg |-> [fd |-> NULL, payLoad |-> FALSE, isLast |-> FALSE, token |-> 0]]
    /\ payLoads = 0
    /\ workQueue = <<>>
    /\ job = [w \in Worker |-> NULL]
    /\ jobPc = [w \in Worker |-> "idle"]
    /\ rmQueue = <<>>
    /\ rmMsg = NULL
    /\ rmPc = "idle"

----------------------------------------------------------------------------
(* Clients, and the accept loop of startServerSocket.                       *)

\* A connection is accepted and becomes a handleClient job.
Accept(c) ==
    /\ asked[c] = 0
    /\ c \notin Range(peer)
    /\ unread[c] = <<>>
    /\ \E f \in Fd, m \in Msg \ allocated :
          /\ peer[f] = NULL
          /\ peer' = [peer EXCEPT ![f] = c]
          /\ allocated' = allocated \cup {m}
          /\ clntMsg' = [clntMsg EXCEPT ![m].fd = f, ![m].payLoad = FALSE]
          /\ workQueue' = Append(workQueue, m)
    /\ UNCHANGED <<clientVars, payLoads, job, jobPc, rmVars>>

\* The client sends a packet, perhaps before the one ahead of it is answered.
Ask(c) ==
    /\ c \in Range(peer)
    /\ Cardinality({p \in Client \X (1 .. MaxRequests) : p[2] <= asked[p[1]]}) < MaxRequests
    /\ asked' = [asked EXCEPT ![c] = @ + 1]
    /\ \E isLast, hasPayLoad \in BOOLEAN :
          unread' = [unread EXCEPT ![c] = Append(@,
              [number |-> asked[c] + 1, isLast |-> isLast, hasPayLoad |-> hasPayLoad])]
    /\ UNCHANGED <<peer, answers, heapVars, jobVars, rmVars>>

----------------------------------------------------------------------------
(* closeSocket and freeClientMsg.                                           *)

closeSocket(m) == peer' = [peer EXCEPT ![clntMsg[m].fd] = NULL]

PayLoadsWithout(m) == payLoads' = IF clntMsg[m].payLoad THEN payLoads - 1 ELSE payLoads

freeClientMsg(m) ==
    /\ allocated' = allocated \ {m}
    /\ PayLoadsWithout(m)
    /\ UNCHANGED clntMsg

----------------------------------------------------------------------------
(* handleClient.                                                            *)

TakeJob(w) ==
    /\ jobPc[w] = "idle"
    /\ workQueue # <<>>
    /\ job' = [job EXCEPT ![w] = Head(workQueue)]
    /\ jobPc' = [jobPc EXCEPT ![w] = "receive"]
    /\ workQueue' = Tail(workQueue)
    /\ UNCHANGED <<peer, clientVars, heapVars, rmVars>>

\* A packet comes in and decodePacket fills the message; without a payload its pointer
\* stays what it was.
Receive(w) ==
    /\ jobPc[w] = "receive"
    /\ LET m == job[w]
           c == peer[clntMsg[m].fd]
       IN  /\ c # NULL
           /\ unread[c] # <<>>
           /\ LET p == Head(unread[c]) IN
              /\ clntMsg' = [clntMsg EXCEPT ![m].token = p.number, ![m].isLast = p.isLast,
                                            ![m].payLoad = p.hasPayLoad \/ @]
              /\ payLoads' = IF p.hasPayLoad THEN payLoads + 1 ELSE payLoads
           /\ unread' = [unread EXCEPT ![c] = Tail(@)]
    /\ jobPc' = [jobPc EXCEPT ![w] = "post"]
    /\ UNCHANGED <<peer, asked, answers, allocated, workQueue, job, rmVars>>

\* Nothing comes for three seconds, the client is gone, or the signature or the size
\* is wrong.
ReceiveFails(w) ==
    /\ jobPc[w] = "receive"
    /\ closeSocket(job[w])
    /\ jobPc' = [jobPc EXCEPT ![w] = "free"]
    /\ UNCHANGED <<clientVars, heapVars, workQueue, job, rmVars>>

JobEnds(w) ==
    /\ job' = [job EXCEPT ![w] = NULL]
    /\ jobPc' = [jobPc EXCEPT ![w] = "idle"]

Free(w) ==
    /\ jobPc[w] = "free"
    /\ freeClientMsg(job[w])
    /\ JobEnds(w)
    /\ UNCHANGED <<peer, clientVars, workQueue, rmVars>>

Post(w) ==
    /\ jobPc[w] = "post"
    /\ rmQueue' = Append(rmQueue, job[w])
    /\ JobEnds(w)
    /\ UNCHANGED <<peer, clientVars, heapVars, workQueue, rmMsg, rmPc>>

handleClient(w) == TakeJob(w) \/ Receive(w) \/ ReceiveFails(w) \/ Free(w) \/ Post(w)

----------------------------------------------------------------------------
(* The resource manager: servClientRequest ends in sendACKandClose or       *)
(* sendNACKandClose, which do the same with the connection.                 *)

RmTake ==
    /\ rmPc = "idle"
    /\ rmQueue # <<>>
    /\ rmMsg' = Head(rmQueue)
    /\ rmQueue' = Tail(rmQueue)
    /\ rmPc' = "answer"
    /\ UNCHANGED <<peer, clientVars, heapVars, jobVars>>

\* Variant: servClientRequest goes on after sendNACKandClose.
SendAnswerTwice ==
    /\ rmPc = "answer"
    /\ LET c == peer[clntMsg[rmMsg].fd] IN
       answers' = [d \in Client |->
                      IF d = c THEN answers[d] \o <<clntMsg[rmMsg].token, clntMsg[rmMsg].token>> ELSE answers[d]]
    /\ rmPc' = "sent"
    /\ UNCHANGED <<peer, unread, asked, heapVars, jobVars, rmQueue, rmMsg>>

\* The answer carries the token of the request.
SendAnswer ==
    /\ rmPc = "answer"
    /\ LET c == peer[clntMsg[rmMsg].fd] IN
       answers' = [d \in Client |->
                      IF d = c THEN Append(answers[d], clntMsg[rmMsg].token) ELSE answers[d]]
    /\ rmPc' = "sent"
    /\ UNCHANGED <<peer, unread, asked, heapVars, jobVars, rmQueue, rmMsg>>

\* sendData fails, which is logged.
SendAnswerFails ==
    /\ rmPc = "answer"
    /\ rmPc' = "sent"
    /\ UNCHANGED <<peer, clientVars, heapVars, jobVars, rmQueue, rmMsg>>

CloseLast ==
    /\ rmPc = "sent"
    /\ clntMsg[rmMsg].isLast
    /\ closeSocket(rmMsg)
    /\ rmPc' = "free"
    /\ UNCHANGED <<clientVars, heapVars, jobVars, rmQueue, rmMsg>>

FreeLast ==
    /\ rmPc = "free"
    /\ freeClientMsg(rmMsg)
    /\ rmMsg' = NULL
    /\ rmPc' = "idle"
    /\ UNCHANGED <<peer, clientVars, jobVars, rmQueue>>

Cleared(m) == [clntMsg EXCEPT ![m].payLoad = FALSE, ![m].isLast = FALSE, ![m].token = 0]

\* Variant: the payload is not freed before memset.
ReadNextKeepsPayLoad ==
    /\ rmPc = "sent"
    /\ ~clntMsg[rmMsg].isLast
    /\ clntMsg' = Cleared(rmMsg)
    /\ workQueue' = Append(workQueue, rmMsg)
    /\ rmMsg' = NULL
    /\ rmPc' = "idle"
    /\ UNCHANGED <<peer, clientVars, allocated, payLoads, job, jobPc, rmQueue>>

\* The client may send another request: the connection is a job again.
ReadNext ==
    /\ rmPc = "sent"
    /\ ~clntMsg[rmMsg].isLast
    /\ PayLoadsWithout(rmMsg)
    /\ clntMsg' = Cleared(rmMsg)
    /\ workQueue' = Append(workQueue, rmMsg)
    /\ rmMsg' = NULL
    /\ rmPc' = "idle"
    /\ UNCHANGED <<peer, clientVars, allocated, job, jobPc, rmQueue>>

RmStep == RmTake \/ SendAnswer \/ SendAnswerFails \/ CloseLast \/ FreeLast \/ ReadNext

Next ==
    \/ \E c \in Client : Accept(c) \/ Ask(c)
    \/ \E w \in Worker : handleClient(w)
    \/ RmStep

Spec == Init /\ [][Next]_vars

----------------------------------------------------------------------------
(* What has to hold.                                                        *)

Holders(m) ==
    Cardinality({k \in DOMAIN workQueue : workQueue[k] = m})
    + Cardinality({w \in Worker : job[w] = m})
    + Cardinality({k \in DOMAIN rmQueue : rmQueue[k] = m})
    + Cardinality({m} \cap {rmMsg})

\* A message is held by one thread or queue until it is freed, and no thread or queue has a
\* claim to it after: none is lost, freed twice or handed to two threads
\* (serverRoutine.c:132-141, 171-180).  The resource manager does look at its request again
\* when it has handed it back (resourceManager.c:318), which Updates models.
OneHolder == \A m \in Msg : Holders(m) = IF m \in allocated THEN 1 ELSE 0

\* The messages whose socket is closed and that are about to be freed.
Closed(m) ==
    \/ \E w \in Worker : job[w] = m /\ jobPc[w] = "free"
    \/ rmMsg = m /\ rmPc = "free"

\* Every open connection has its own message and every message its own open connection,
\* although descriptors are used again at once: no socket is left open or closed twice.
OneConnectionPerMessage ==
    /\ \A m \in allocated : Closed(m) \/ peer[clntMsg[m].fd] # NULL
    /\ \A f \in Fd : peer[f] # NULL =>
          Cardinality({m \in allocated : clntMsg[m].fd = f /\ ~Closed(m)}) = 1

\* The payloads in the heap are those of the messages (serverRoutine.c:137-139): none is
\* left behind when a connection reads the next request, and none freed twice.
NoPayLoadIsLost == payLoads = Cardinality({m \in allocated : clntMsg[m].payLoad})

\* Whoever holds a connection, its memory and its descriptor are given back once.
ConnectionsAreOwned == OneHolder /\ OneConnectionPerMessage /\ NoPayLoadIsLost

\* A client is answered in the order of its requests, each at most once and none that was
\* not read, whoever has the descriptor by then.
AnswersFollowRequests ==
    \A c \in Client : \A k \in DOMAIN answers[c] :
        /\ answers[c][k] <= asked[c] - Len(unread[c])
        /\ k > 1 => answers[c][k - 1] < answers[c][k]
        /\ answers[c][k] > 0
=============================================================================

--------------------------- MODULE ConnectionProofs ---------------------------
(***************************************************************************)
(* Proofs about Connection, for any clients, descriptors, messages and     *)
(* workers: who holds a message, what connection belongs to it, which      *)
(* payloads are in the heap, and in which order requests are answered.     *)
(* Then, with what ListProofs and TransferProofs show, about all the parts *)
(* that MCTransfers runs side by side.                                     *)
(***************************************************************************)
EXTENDS ListProofs, TransferProofs

TalkVars == <<peer, unread, asked, answers, allocated, clntMsg, payLoads, workQueue, job, jobPc,
              rmQueue, rmMsg, rmPc>>

PacketRead == [number : Nat, isLast : BOOLEAN, hasPayLoad : BOOLEAN]

Content == [fd : Fd \cup {NULL}, payLoad : BOOLEAN, isLast : BOOLEAN, token : Nat]

\* TypeOK of Connection but for the bounds on numbers.
TalkTypeOK ==
    /\ peer \in [Fd -> Client \cup {NULL}]
    /\ unread \in [Client -> Seq(PacketRead)]
    /\ asked \in [Client -> Nat]
    /\ answers \in [Client -> Seq(Nat)]
    /\ allocated \subseteq Msg
    /\ clntMsg \in [Msg -> Content]
    /\ workQueue \in Seq(Msg)
    /\ job \in [Worker -> Msg \cup {NULL}]
    /\ jobPc \in [Worker -> {"idle", "receive", "post", "free"}]
    /\ rmQueue \in Seq(Msg)
    /\ rmMsg \in Msg \cup {NULL}
    /\ rmPc \in {"idle", "answer", "sent", "free"}

-----------------------------------------------------------------------------
(* Who holds a message.                                                     *)

Elements(s) == {s[k] : k \in DOMAIN s}

Once(s) == \A j, k \in DOMAIN s : s[j] = s[k] => j = k

\* The messages that workers handle, and the one the resource manager serves.
Handled == {job[w] : w \in Worker} \ {NULL}
Served == {rmMsg} \ {NULL}

\* A message that is allocated is in one place.
HeldOnce ==
    /\ allocated = Elements(workQueue) \cup Elements(rmQueue) \cup Handled \cup Served
    /\ Elements(workQueue) \cap (Elements(rmQueue) \cup Handled \cup Served) = {}
    /\ Elements(rmQueue) \cap (Handled \cup Served) = {}
    /\ Handled \cap Served = {}
    /\ Once(workQueue) /\ Once(rmQueue)
    /\ \A v, w \in Worker : job[v] # NULL /\ job[v] = job[w] => v = w

HoldersBusy ==
    /\ \A w \in Worker : jobPc[w] = "idle" <=> job[w] = NULL
    /\ rmPc = "idle" <=> rmMsg = NULL

HolderInv == TalkTypeOK /\ HeldOnce /\ HoldersBusy

\* The messages whose connection is not closed yet.
Live == {m \in allocated : ~Talk!Closed(m)}

\* They and the descriptors in use belong together, each to one client.
Connected ==
    /\ \A m \in Live : clntMsg[m].fd \in Fd /\ peer[clntMsg[m].fd] # NULL
    /\ \A m, n \in Live : clntMsg[m].fd = clntMsg[n].fd => m = n
    /\ \A f \in Fd : peer[f] # NULL => \E m \in Live : clntMsg[m].fd = f
    /\ \A f, g \in Fd : peer[f] # NULL /\ peer[f] = peer[g] => f = g

LEMMA NullIsNew == NULL \notin Msg /\ NULL \notin Client /\ NULL \notin Fd
  BY TransfersAssumption

LEMMA AppendElements ==
    ASSUME NEW S, NEW s \in Seq(S), NEW e \in S
    PROVE  /\ Append(s, e) \in Seq(S)
           /\ Elements(Append(s, e)) = Elements(s) \cup {e}
           /\ Once(s) /\ e \notin Elements(s) => Once(Append(s, e))
<1>1. /\ Append(s, e) \in Seq(S)
      /\ Len(s) \in Nat
      /\ DOMAIN s = 1 .. Len(s)
      /\ DOMAIN Append(s, e) = 1 .. Len(s) + 1
      /\ \A k \in 1 .. Len(s) : Append(s, e)[k] = s[k]
      /\ Append(s, e)[Len(s) + 1] = e
  BY AppendProperties, LenProperties
<1>2. Elements(Append(s, e)) = Elements(s) \cup {e}
  BY <1>1 DEF Elements
<1>3. ASSUME Once(s), e \notin Elements(s) PROVE Once(Append(s, e))
  <2> SUFFICES ASSUME NEW j \in 1 .. Len(s) + 1, NEW k \in 1 .. Len(s) + 1,
                      Append(s, e)[j] = Append(s, e)[k]
               PROVE  j = k
    BY <1>1 DEF Once
  <2> QED BY <1>1, <1>3 DEF Once, Elements
<1> QED BY <1>1, <1>2, <1>3

LEMMA TailElements ==
    ASSUME NEW S, NEW s \in Seq(S), s # <<>>
    PROVE  /\ Tail(s) \in Seq(S) /\ Head(s) \in S
           /\ Elements(s) = Elements(Tail(s)) \cup {Head(s)}
           /\ Once(s) => Once(Tail(s)) /\ Head(s) \notin Elements(Tail(s))
<1>1. /\ Tail(s) \in Seq(S) /\ Head(s) \in S /\ Head(s) = s[1]
      /\ Len(s) \in Nat /\ Len(s) >= 1
      /\ DOMAIN s = 1 .. Len(s)
      /\ DOMAIN Tail(s) = 1 .. Len(s) - 1
      /\ \A k \in 1 .. Len(s) - 1 : Tail(s)[k] = s[k + 1]
  BY HeadTailProperties, LenProperties, EmptySeq
<1>2. Elements(s) = Elements(Tail(s)) \cup {Head(s)}
  <2>1. ASSUME NEW k \in 1 .. Len(s) PROVE s[k] \in Elements(Tail(s)) \cup {s[1]}
    <3>1. CASE k # 1
      <4>1. k - 1 \in 1 .. Len(s) - 1 /\ (k - 1) + 1 = k
        BY <1>1, <3>1
      <4>2. s[k] = Tail(s)[k - 1]
        BY <1>1, <4>1
      <4> QED BY <1>1, <4>1, <4>2 DEF Elements
    <3> QED BY <3>1
  <2>2. ASSUME NEW k \in 1 .. Len(s) - 1 PROVE Tail(s)[k] \in Elements(s)
    BY <1>1, <2>2 DEF Elements
  <2>3. s[1] \in Elements(s)
    BY <1>1 DEF Elements
  <2> QED BY <1>1, <2>1, <2>2, <2>3 DEF Elements
<1>3. ASSUME Once(s) PROVE Once(Tail(s)) /\ Head(s) \notin Elements(Tail(s))
  <2>1. \A j, k \in 1 .. Len(s) - 1 : Tail(s)[j] = Tail(s)[k] => j = k
    BY <1>1, <1>3 DEF Once
  <2>2. \A k \in 1 .. Len(s) - 1 : Tail(s)[k] # s[1]
    BY <1>1, <1>3 DEF Once
  <2> QED BY <1>1, <2>1, <2>2 DEF Once, Elements
<1> QED BY <1>1, <1>2, <1>3

\* A worker takes a message, or gives it up.
LEMMA Takes ==
    ASSUME job \in [Worker -> Msg \cup {NULL}], NEW w \in Worker, NEW m \in Msg,
           job[w] = NULL, job' = [job EXCEPT ![w] = m],
           m \notin Handled,
           \A u, v \in Worker : job[u] # NULL /\ job[u] = job[v] => u = v
    PROVE  /\ Handled' = Handled \cup {m}
           /\ \A u, v \in Worker : job'[u] # NULL /\ job'[u] = job'[v] => u = v
  BY NullIsNew DEF Handled

LEMMA GivesUp ==
    ASSUME job \in [Worker -> Msg \cup {NULL}], NEW w \in Worker, NEW m \in Msg,
           job[w] = m, job' = [job EXCEPT ![w] = NULL],
           \A u, v \in Worker : job[u] # NULL /\ job[u] = job[v] => u = v
    PROVE  /\ Handled' = Handled \ {m}
           /\ m \in Handled
           /\ \A u, v \in Worker : job'[u] # NULL /\ job'[u] = job'[v] => u = v
  BY NullIsNew DEF Handled

-----------------------------------------------------------------------------
(* A message goes from one place to the next.                               *)

\* Steps that move no message.
LEMMA HoldersSame ==
    ASSUME HolderInv, TalkTypeOK',
           UNCHANGED <<allocated, workQueue, job, rmQueue, rmMsg>>,
           \A w \in Worker : jobPc'[w] = "idle" <=> jobPc[w] = "idle",
           rmPc' = "idle" <=> rmPc = "idle"
    PROVE  HolderInv'
  BY DEF HolderInv, HeldOnce, HoldersBusy, Handled, Served

LEMMA AcceptHolders == ASSUME HolderInv, NEW c \in Client, Talk!Accept(c) PROVE HolderInv'
<1> USE DEF Talk!clientVars, Talk!rmVars
<1>1. PICK f \in Fd, m \in Msg \ allocated :
         /\ peer' = [peer EXCEPT ![f] = c]
         /\ allocated' = allocated \cup {m}
         /\ clntMsg' = [clntMsg EXCEPT ![m].fd = f, ![m].payLoad = FALSE]
         /\ workQueue' = Append(workQueue, m)
  BY DEF Talk!Accept
<1>2. UNCHANGED <<unread, asked, answers, payLoads, job, jobPc, rmQueue, rmMsg, rmPc>>
  BY DEF Talk!Accept
<1>3. /\ workQueue' \in Seq(Msg)
      /\ Elements(workQueue') = Elements(workQueue) \cup {m}
      /\ m \notin Elements(workQueue) => Once(workQueue')
  BY <1>1, AppendElements DEF HolderInv, TalkTypeOK, HeldOnce
<1>4. clntMsg' \in [Msg -> Content]
  BY <1>1 DEF HolderInv, TalkTypeOK, Content
<1>5. TalkTypeOK'
  BY <1>1, <1>2, <1>3, <1>4 DEF HolderInv, TalkTypeOK
<1>6. Handled' = Handled /\ Served' = Served
  BY <1>2 DEF Handled, Served
<1>7. HeldOnce'
  BY <1>1, <1>2, <1>3, <1>6 DEF HolderInv, HeldOnce
<1> QED BY <1>2, <1>5, <1>7 DEF HolderInv, HoldersBusy

LEMMA TakeJobHolders == ASSUME HolderInv, NEW w \in Worker, Talk!TakeJob(w) PROVE HolderInv'
<1> DEFINE m == Head(workQueue)
<1> USE DEF Talk!clientVars, Talk!rmVars, Talk!heapVars
<1>1. /\ jobPc[w] = "idle" /\ workQueue # <<>>
      /\ job' = [job EXCEPT ![w] = m]
      /\ jobPc' = [jobPc EXCEPT ![w] = "receive"]
      /\ workQueue' = Tail(workQueue)
      /\ UNCHANGED <<peer, unread, asked, answers, allocated, clntMsg, payLoads,
                     rmQueue, rmMsg, rmPc>>
  BY DEF Talk!TakeJob
<1>2. /\ workQueue' \in Seq(Msg) /\ m \in Msg
      /\ Elements(workQueue) = Elements(workQueue') \cup {m}
      /\ Once(workQueue') /\ m \notin Elements(workQueue')
  BY <1>1, TailElements DEF HolderInv, TalkTypeOK, HeldOnce
<1> HIDE DEF m
<1>3. TalkTypeOK'
  BY <1>1, <1>2 DEF HolderInv, TalkTypeOK
<1>4. job[w] = NULL /\ m \notin Handled
  BY <1>1, <1>2 DEF HolderInv, HoldersBusy, HeldOnce
<1>5. /\ Handled' = Handled \cup {m}
      /\ \A u, v \in Worker : job'[u] # NULL /\ job'[u] = job'[v] => u = v
  BY <1>1, <1>2, <1>4, Takes DEF HolderInv, TalkTypeOK, HeldOnce
<1>6. HeldOnce'
  BY <1>1, <1>2, <1>5 DEF HolderInv, HeldOnce, Served
<1>7. HoldersBusy'
  BY <1>1, <1>2, NullIsNew DEF HolderInv, HoldersBusy, TalkTypeOK
<1> QED BY <1>3, <1>6, <1>7 DEF HolderInv

\* A worker is at "receive", "post" or "free" with a message.
LEMMA WorkerHas ==
    ASSUME HolderInv, NEW w \in Worker, jobPc[w] # "idle"
    PROVE  /\ job[w] \in Msg /\ job[w] \in allocated /\ job[w] \in Handled
           /\ clntMsg[job[w]] \in Content
  BY NullIsNew DEF HolderInv, HoldersBusy, HeldOnce, TalkTypeOK, Handled

LEMMA RmHas ==
    ASSUME HolderInv, rmPc # "idle"
    PROVE  /\ rmMsg \in Msg /\ rmMsg \in allocated /\ Served = {rmMsg}
           /\ clntMsg[rmMsg] \in Content
  BY NullIsNew DEF HolderInv, HoldersBusy, HeldOnce, TalkTypeOK, Served

LEMMA LiveHeld ==
    ASSUME HolderInv
    PROVE  /\ \A w \in Worker : jobPc[w] \in {"receive", "post"} => job[w] \in Live
           /\ rmPc \in {"answer", "sent"} => rmMsg \in Live
           /\ Elements(workQueue) \subseteq Live /\ Elements(rmQueue) \subseteq Live
<1>1. ASSUME NEW w \in Worker, jobPc[w] \in {"receive", "post"} PROVE job[w] \in Live
  <2>1. job[w] \in allocated /\ job[w] \in Handled /\ job[w] # NULL
    BY <1>1, WorkerHas, NullIsNew
  <2>2. \A v \in Worker : job[v] = job[w] => v = w
    BY <2>1 DEF HolderInv, HeldOnce
  <2>3. rmMsg # job[w]
    BY <2>1 DEF HolderInv, HeldOnce, Served
  <2> QED BY <1>1, <2>1, <2>2, <2>3 DEF Live, Talk!Closed
<1>2. ASSUME rmPc \in {"answer", "sent"} PROVE rmMsg \in Live
  <2>1. rmMsg \in allocated /\ rmMsg \in Served /\ rmMsg # NULL
    BY <1>2, RmHas, NullIsNew
  <2>2. \A v \in Worker : job[v] # rmMsg
    BY <2>1 DEF HolderInv, HeldOnce, Handled
  <2> QED BY <1>2, <2>1, <2>2 DEF Live, Talk!Closed
<1>3. ASSUME NEW m \in Elements(workQueue) \cup Elements(rmQueue) PROVE m \in Live
  <2>1. m \in allocated /\ m \notin Handled /\ m \notin Served
    BY <1>3 DEF HolderInv, HeldOnce
  <2>2. m # NULL
    BY <2>1, NullIsNew DEF HolderInv, TalkTypeOK
  <2> QED BY <2>1, <2>2 DEF Live, Talk!Closed, Handled, Served
<1> QED BY <1>1, <1>2, <1>3

\* A live message has a client.
LEMMA LiveTypes ==
    ASSUME HolderInv, Connected, NEW m \in Live
    PROVE  /\ m \in Msg /\ clntMsg[m] \in Content
           /\ clntMsg[m].fd \in Fd /\ peer[clntMsg[m].fd] \in Client
  BY DEF HolderInv, TalkTypeOK, Connected, Live

LEMMA ReceiveHolders ==
    ASSUME HolderInv, Connected, NEW w \in Worker, Talk!Receive(w)
    PROVE  HolderInv'
<1> DEFINE m == job[w]
           c == peer[clntMsg[m].fd]
           p == Head(unread[c])
<1>1. /\ jobPc[w] = "receive" /\ c # NULL /\ unread[c] # <<>>
      /\ clntMsg' = [clntMsg EXCEPT ![m].token = p.number, ![m].isLast = p.isLast,
                                    ![m].payLoad = p.hasPayLoad \/ @]
      /\ unread' = [unread EXCEPT ![c] = Tail(@)]
      /\ jobPc' = [jobPc EXCEPT ![w] = "post"]
      /\ UNCHANGED <<peer, asked, answers, allocated, workQueue, job, rmQueue, rmMsg, rmPc>>
  BY DEF Talk!Receive, Talk!rmVars
<1>2. m \in Msg /\ clntMsg[m] \in Content /\ c \in Client
  BY <1>1, LiveHeld, LiveTypes
<1>3. Tail(unread[c]) \in Seq(PacketRead) /\ p \in PacketRead
  <2>1. unread[c] \in Seq(PacketRead)
    BY <1>2 DEF HolderInv, TalkTypeOK
  <2> QED BY <1>1, <2>1, HeadTailProperties, EmptySeq
<1>4. unread' \in [Client -> Seq(PacketRead)]
  BY <1>1, <1>3 DEF HolderInv, TalkTypeOK
<1> HIDE DEF p, c
<1>5. clntMsg' \in [Msg -> Content]
  <2>1. p.number \in Nat /\ p.isLast \in BOOLEAN /\ (p.hasPayLoad \/ clntMsg[m].payLoad) \in BOOLEAN
    BY <1>3 DEF PacketRead
  <2> QED BY <1>1, <1>2, <2>1 DEF HolderInv, TalkTypeOK, Content
<1>6. TalkTypeOK'
  BY <1>1, <1>4, <1>5 DEF HolderInv, TalkTypeOK
<1> QED BY <1>1, <1>6, HoldersSame DEF HolderInv, TalkTypeOK

LEMMA closeSocketType ==
    ASSUME TalkTypeOK, NEW m \in Msg, Talk!closeSocket(m)
    PROVE  peer' \in [Fd -> Client \cup {NULL}]
  BY DEF TalkTypeOK, Talk!closeSocket

LEMMA FreeHolders == ASSUME HolderInv, NEW w \in Worker, Talk!Free(w) PROVE HolderInv'
<1> DEFINE m == job[w]
<1>1. /\ jobPc[w] = "free"
      /\ allocated' = allocated \ {m}
      /\ job' = [job EXCEPT ![w] = NULL] /\ jobPc' = [jobPc EXCEPT ![w] = "idle"]
      /\ UNCHANGED <<peer, unread, asked, answers, clntMsg, workQueue, rmQueue, rmMsg, rmPc>>
  BY DEF Talk!Free, Talk!freeClientMsg, Talk!JobEnds, Talk!clientVars, Talk!rmVars
<1>2. m \in Msg /\ m \in Handled
  BY <1>1, WorkerHas
<1>3. TalkTypeOK'
  BY <1>1 DEF HolderInv, TalkTypeOK
<1>4. /\ Handled' = Handled \ {m}
      /\ \A u, v \in Worker : job'[u] # NULL /\ job'[u] = job'[v] => u = v
  BY <1>1, <1>2, GivesUp DEF HolderInv, TalkTypeOK, HeldOnce
<1> HIDE DEF m
<1>5. HeldOnce'
  BY <1>1, <1>2, <1>4 DEF HolderInv, HeldOnce, Served
<1>6. HoldersBusy'
  BY <1>1 DEF HolderInv, HoldersBusy, TalkTypeOK
<1> QED BY <1>3, <1>5, <1>6 DEF HolderInv

LEMMA PostHolders == ASSUME HolderInv, NEW w \in Worker, Talk!Post(w) PROVE HolderInv'
<1> DEFINE m == job[w]
<1>1. /\ jobPc[w] = "post"
      /\ rmQueue' = Append(rmQueue, m)
      /\ job' = [job EXCEPT ![w] = NULL] /\ jobPc' = [jobPc EXCEPT ![w] = "idle"]
      /\ UNCHANGED <<peer, unread, asked, answers, allocated, clntMsg, payLoads, workQueue,
                     rmMsg, rmPc>>
  BY DEF Talk!Post, Talk!JobEnds, Talk!clientVars, Talk!heapVars
<1>2. m \in Msg /\ m \in Handled
  BY <1>1, WorkerHas
<1>3. /\ Handled' = Handled \ {m}
      /\ \A u, v \in Worker : job'[u] # NULL /\ job'[u] = job'[v] => u = v
  BY <1>1, <1>2, GivesUp DEF HolderInv, TalkTypeOK, HeldOnce
<1>4. /\ rmQueue' \in Seq(Msg)
      /\ Elements(rmQueue') = Elements(rmQueue) \cup {m}
      /\ Once(rmQueue')
  BY <1>1, <1>2, AppendElements DEF HolderInv, TalkTypeOK, HeldOnce
<1>5. TalkTypeOK'
  BY <1>1, <1>4 DEF HolderInv, TalkTypeOK
<1>6. HoldersBusy'
  BY <1>1 DEF HolderInv, HoldersBusy, TalkTypeOK
<1> HIDE DEF m
<1>7. HeldOnce'
  BY <1>1, <1>2, <1>3, <1>4 DEF HolderInv, HeldOnce, Served
<1> QED BY <1>5, <1>6, <1>7 DEF HolderInv

LEMMA RmTakeHolders == ASSUME HolderInv, Talk!RmTake PROVE HolderInv'
<1>1. /\ rmPc = "idle" /\ rmQueue # <<>>
      /\ rmMsg' = Head(rmQueue) /\ rmQueue' = Tail(rmQueue) /\ rmPc' = "answer"
      /\ UNCHANGED <<peer, unread, asked, answers, allocated, clntMsg, payLoads, workQueue,
                     job, jobPc>>
  BY DEF Talk!RmTake, Talk!clientVars, Talk!heapVars, Talk!jobVars
<1>2. /\ rmQueue' \in Seq(Msg) /\ rmMsg' \in Msg
      /\ Elements(rmQueue) = Elements(rmQueue') \cup {rmMsg'}
      /\ Once(rmQueue') /\ rmMsg' \notin Elements(rmQueue')
  BY <1>1, TailElements DEF HolderInv, TalkTypeOK, HeldOnce
<1>3. TalkTypeOK'
  BY <1>1, <1>2 DEF HolderInv, TalkTypeOK
<1>4. Served = {} /\ Served' = {rmMsg'} /\ Handled' = Handled
  BY <1>1, <1>2, NullIsNew DEF Served, Handled, HolderInv, HoldersBusy
<1>5. HeldOnce'
  BY <1>1, <1>2, <1>4 DEF HolderInv, HeldOnce
<1> QED BY <1>1, <1>2, <1>3, <1>5, NullIsNew DEF HolderInv, HoldersBusy

LEMMA FreeLastHolders == ASSUME HolderInv, Talk!FreeLast PROVE HolderInv'
<1>1. /\ rmPc = "free" /\ rmPc' = "idle" /\ rmMsg' = NULL
      /\ allocated' = allocated \ {rmMsg}
      /\ UNCHANGED <<peer, unread, asked, answers, clntMsg, workQueue, job, jobPc, rmQueue>>
  BY DEF Talk!FreeLast, Talk!freeClientMsg, Talk!clientVars, Talk!jobVars
<1>2. Served = {rmMsg} /\ Served' = {} /\ Handled' = Handled
  BY <1>1, RmHas DEF Served, Handled
<1>3. TalkTypeOK'
  BY <1>1 DEF HolderInv, TalkTypeOK
<1>4. HeldOnce'
  BY <1>1, <1>2 DEF HolderInv, HeldOnce
<1> QED BY <1>1, <1>3, <1>4 DEF HolderInv, HoldersBusy

LEMMA ClearedType ==
    ASSUME clntMsg \in [Msg -> Content], NEW m \in Msg
    PROVE  /\ Talk!Cleared(m) \in [Msg -> Content]
           /\ Talk!Cleared(m)[m].fd = clntMsg[m].fd
           /\ Talk!Cleared(m)[m].payLoad = FALSE
           /\ Talk!Cleared(m)[m].token = 0
           /\ \A n \in Msg \ {m} : Talk!Cleared(m)[n] = clntMsg[n]
<1> DEFINE x == clntMsg[m]
           r == [[[x EXCEPT !.payLoad = FALSE] EXCEPT !.isLast = FALSE] EXCEPT !.token = 0]
<1>1. /\ x \in Content
      /\ r \in Content /\ r.fd = x.fd /\ r.payLoad = FALSE /\ r.token = 0
  BY DEF Content
<1>2. [[[clntMsg EXCEPT ![m].payLoad = FALSE] EXCEPT ![m].isLast = FALSE] EXCEPT ![m].token = 0]
      = [clntMsg EXCEPT ![m] = r]
  OBVIOUS
<1>3. Talk!Cleared(m) = [clntMsg EXCEPT ![m] = r]
  BY <1>2 DEF Talk!Cleared
<1> HIDE DEF r
<1> QED BY <1>1, <1>3

LEMMA ReadNextHolders == ASSUME HolderInv, Talk!ReadNext PROVE HolderInv'
<1>1. /\ rmPc = "sent" /\ rmPc' = "idle" /\ rmMsg' = NULL
      /\ clntMsg' = Talk!Cleared(rmMsg)
      /\ workQueue' = Append(workQueue, rmMsg)
      /\ UNCHANGED <<peer, unread, asked, answers, allocated, job, jobPc, rmQueue>>
  BY DEF Talk!ReadNext, Talk!clientVars
<1>2. rmMsg \in Msg /\ Served = {rmMsg} /\ Served' = {} /\ Handled' = Handled
  BY <1>1, RmHas DEF Served, Handled
<1>3. /\ workQueue' \in Seq(Msg)
      /\ Elements(workQueue') = Elements(workQueue) \cup {rmMsg}
      /\ Once(workQueue')
  BY <1>1, <1>2, AppendElements DEF HolderInv, TalkTypeOK, HeldOnce
<1>4. clntMsg' \in [Msg -> Content]
  BY <1>1, <1>2, ClearedType DEF HolderInv, TalkTypeOK
<1>5. TalkTypeOK'
  BY <1>1, <1>3, <1>4 DEF HolderInv, TalkTypeOK
<1>6. HeldOnce'
  BY <1>1, <1>2, <1>3 DEF HolderInv, HeldOnce
<1> QED BY <1>1, <1>5, <1>6 DEF HolderInv, HoldersBusy

\* Every step moves a message or none.
LEMMA HolderStep == ASSUME HolderInv, Connected, [Talk!Next]_TalkVars PROVE HolderInv'
<1> USE DEF Talk!clientVars, Talk!heapVars, Talk!jobVars, Talk!rmVars
<1>1. ASSUME NEW c \in Client, Talk!Ask(c) PROVE HolderInv'
  <2>1. /\ asked' = [asked EXCEPT ![c] = @ + 1]
        /\ UNCHANGED <<peer, answers, allocated, clntMsg, workQueue, job, jobPc, rmQueue,
                       rmMsg, rmPc>>
    BY <1>1 DEF Talk!Ask
  <2>2. PICK isLast \in BOOLEAN, hasPayLoad \in BOOLEAN :
           unread' = [unread EXCEPT ![c] = Append(@,
               [number |-> asked[c] + 1, isLast |-> isLast, hasPayLoad |-> hasPayLoad])]
    BY <1>1 DEF Talk!Ask
  <2> DEFINE p == [number |-> asked[c] + 1, isLast |-> isLast, hasPayLoad |-> hasPayLoad]
  <2>3. p \in PacketRead
    BY DEF HolderInv, TalkTypeOK, PacketRead
  <2>4. Append(unread[c], p) \in Seq(PacketRead)
    <3>1. unread[c] \in Seq(PacketRead)
      BY DEF HolderInv, TalkTypeOK
    <3> QED BY <2>3, <3>1, AppendProperties
  <2>5. unread' \in [Client -> Seq(PacketRead)]
    <3>1. unread' = [unread EXCEPT ![c] = Append(unread[c], p)]
      BY <2>2
    <3> HIDE DEF p
    <3> QED BY <2>4, <3>1 DEF HolderInv, TalkTypeOK
  <2> HIDE DEF p
  <2>6. asked' \in [Client -> Nat]
    BY <2>1 DEF HolderInv, TalkTypeOK
  <2>7. TalkTypeOK'
    BY <2>1, <2>5, <2>6 DEF HolderInv, TalkTypeOK
  <2> QED BY <2>1, <2>7, HoldersSame
<1>2. ASSUME NEW w \in Worker, Talk!ReceiveFails(w) PROVE HolderInv'
  <2>1. /\ jobPc[w] = "receive" /\ Talk!closeSocket(job[w])
        /\ jobPc' = [jobPc EXCEPT ![w] = "free"]
        /\ UNCHANGED <<unread, asked, answers, allocated, clntMsg, workQueue, job, rmQueue,
                       rmMsg, rmPc>>
    BY <1>2 DEF Talk!ReceiveFails
  <2>2. peer' \in [Fd -> Client \cup {NULL}]
    BY <2>1, WorkerHas, closeSocketType DEF HolderInv
  <2>3. TalkTypeOK'
    BY <2>1, <2>2 DEF HolderInv, TalkTypeOK
  <2> QED BY <2>1, <2>3, HoldersSame DEF HolderInv, TalkTypeOK
<1>3. ASSUME Talk!SendAnswer PROVE HolderInv'
  <2> DEFINE c == peer[clntMsg[rmMsg].fd]
  <2>1. /\ rmPc = "answer" /\ rmPc' = "sent"
        /\ answers' = [d \in Client |->
                          IF d = c THEN Append(answers[d], clntMsg[rmMsg].token) ELSE answers[d]]
        /\ UNCHANGED <<peer, unread, asked, allocated, clntMsg, workQueue, job, jobPc, rmQueue,
                       rmMsg>>
    BY <1>3 DEF Talk!SendAnswer
  <2>2. clntMsg[rmMsg].token \in Nat
    BY <2>1, RmHas DEF Content
  <2>3. \A d \in Client : Append(answers[d], clntMsg[rmMsg].token) \in Seq(Nat)
    <3> TAKE d \in Client
    <3>1. answers[d] \in Seq(Nat)
      BY DEF HolderInv, TalkTypeOK
    <3> QED BY <2>2, <3>1, AppendProperties
  <2>4. answers' \in [Client -> Seq(Nat)]
    BY <2>1, <2>3 DEF HolderInv, TalkTypeOK
  <2>5. TalkTypeOK'
    BY <2>1, <2>4 DEF HolderInv, TalkTypeOK
  <2> QED BY <2>1, <2>5, HoldersSame
<1>4. ASSUME Talk!SendAnswerFails PROVE HolderInv'
  <2>1. /\ rmPc = "answer" /\ rmPc' = "sent"
        /\ UNCHANGED <<peer, unread, asked, answers, allocated, clntMsg, workQueue, job, jobPc,
                       rmQueue, rmMsg>>
    BY <1>4 DEF Talk!SendAnswerFails
  <2>2. TalkTypeOK'
    BY <2>1 DEF HolderInv, TalkTypeOK
  <2> QED BY <2>1, <2>2, HoldersSame
<1>5. ASSUME Talk!CloseLast PROVE HolderInv'
  <2>1. /\ rmPc = "sent" /\ rmPc' = "free" /\ Talk!closeSocket(rmMsg)
        /\ UNCHANGED <<unread, asked, answers, allocated, clntMsg, workQueue, job, jobPc,
                       rmQueue, rmMsg>>
    BY <1>5 DEF Talk!CloseLast
  <2>2. peer' \in [Fd -> Client \cup {NULL}]
    BY <2>1, RmHas, closeSocketType DEF HolderInv
  <2>3. TalkTypeOK'
    BY <2>1, <2>2 DEF HolderInv, TalkTypeOK
  <2> QED BY <2>1, <2>3, HoldersSame
<1>6. ASSUME UNCHANGED TalkVars PROVE HolderInv'
  <2>1. TalkTypeOK'
    BY <1>6 DEF TalkVars, HolderInv, TalkTypeOK
  <2> QED BY <1>6, <2>1, HoldersSame DEF TalkVars
<1> QED BY <1>1, <1>2, <1>3, <1>4, <1>5, <1>6, AcceptHolders, TakeJobHolders, ReceiveHolders,
           FreeHolders, PostHolders, RmTakeHolders, FreeLastHolders, ReadNextHolders
        DEF Talk!Next, Talk!handleClient, Talk!RmStep

-----------------------------------------------------------------------------
(* Descriptors.                                                             *)

\* Steps that leave the open connections alone.
LEMMA ConnectedSame ==
    ASSUME Connected, Live' = Live, peer' = peer,
           \A m \in Live : clntMsg'[m].fd = clntMsg[m].fd
    PROVE  Connected'
  BY DEF Connected

\* Closing the socket of a message.
LEMMA Closes ==
    ASSUME HolderInv, Connected, NEW m \in Live, Talk!closeSocket(m), clntMsg' = clntMsg,
           Live' = Live \ {m}
    PROVE  Connected'
<1>1. clntMsg[m].fd \in Fd /\ peer \in [Fd -> Client \cup {NULL}]
  BY LiveTypes DEF HolderInv, TalkTypeOK
<1> QED BY <1>1, NullIsNew DEF Connected, Talk!closeSocket

LEMMA AcceptConnected ==
    ASSUME HolderInv, Connected, NEW c \in Client, Talk!Accept(c) PROVE Connected'
<1>1. PICK f \in Fd, m \in Msg \ allocated :
         /\ peer[f] = NULL
         /\ peer' = [peer EXCEPT ![f] = c]
         /\ allocated' = allocated \cup {m}
         /\ clntMsg' = [clntMsg EXCEPT ![m].fd = f, ![m].payLoad = FALSE]
  BY DEF Talk!Accept
<1>2. c \notin Talk!Range(peer) /\ UNCHANGED <<job, jobPc, rmMsg, rmPc>>
  BY DEF Talk!Accept, Talk!rmVars
<1>3. \A g \in Fd : peer[g] # c
  BY <1>2 DEF HolderInv, TalkTypeOK, Talk!Range
<1>4. \A w \in Worker : job[w] # m
  BY NullIsNew DEF HolderInv, HeldOnce, Handled
<1>5. rmMsg # m
  BY NullIsNew DEF HolderInv, HeldOnce, Served
<1>6. Live' = Live \cup {m}
  BY <1>1, <1>2, <1>4, <1>5 DEF Live, Talk!Closed
<1>7. /\ clntMsg'[m].fd = f
      /\ \A n \in Msg \ {m} : clntMsg'[n] = clntMsg[n]
  BY <1>1 DEF HolderInv, TalkTypeOK, Content
<1>8. \A n \in Live : clntMsg[n].fd \in Fd /\ clntMsg[n].fd # f /\ n \in Msg \ {m}
  BY <1>1 DEF Connected, Live, HolderInv, TalkTypeOK
<1>9. peer'[f] = c /\ \A g \in Fd \ {f} : peer'[g] = peer[g]
  BY <1>1 DEF HolderInv, TalkTypeOK
<1>10. \A n \in Live' : clntMsg'[n].fd \in Fd /\ peer'[clntMsg'[n].fd] # NULL
  BY <1>6, <1>7, <1>8, <1>9, NullIsNew DEF Connected
<1>11. \A n, o \in Live' : clntMsg'[n].fd = clntMsg'[o].fd => n = o
  BY <1>6, <1>7, <1>8 DEF Connected
<1>12. \A g \in Fd : peer'[g] # NULL => \E n \in Live' : clntMsg'[n].fd = g
  BY <1>6, <1>7, <1>8, <1>9 DEF Connected
<1>13. \A g, h \in Fd : peer'[g] # NULL /\ peer'[g] = peer'[h] => g = h
  BY <1>3, <1>9 DEF Connected
<1> QED BY <1>10, <1>11, <1>12, <1>13 DEF Connected

LEMMA WorkerConnected ==
    ASSUME HolderInv, Connected, NEW w \in Worker, Talk!handleClient(w) PROVE Connected'
<1> USE DEF Talk!clientVars, Talk!heapVars, Talk!rmVars
<1>1. CASE Talk!TakeJob(w)
  <2>1. /\ jobPc[w] = "idle" /\ jobPc' = [jobPc EXCEPT ![w] = "receive"]
        /\ job' = [job EXCEPT ![w] = Head(workQueue)]
        /\ UNCHANGED <<peer, allocated, clntMsg, rmMsg, rmPc>>
    BY <1>1 DEF Talk!TakeJob
  <2>2. Live' = Live
    BY <2>1 DEF Live, Talk!Closed, HolderInv, TalkTypeOK
  <2> QED BY <2>1, <2>2, ConnectedSame
<1>2. CASE Talk!Receive(w)
  <2> DEFINE m == job[w]
             p == Head(unread[peer[clntMsg[m].fd]])
  <2>1. /\ jobPc[w] = "receive" /\ jobPc' = [jobPc EXCEPT ![w] = "post"]
        /\ clntMsg' = [clntMsg EXCEPT ![m].token = p.number, ![m].isLast = p.isLast,
                                      ![m].payLoad = p.hasPayLoad \/ @]
        /\ UNCHANGED <<peer, allocated, job, rmMsg, rmPc>>
    BY <1>2 DEF Talk!Receive
  <2> HIDE DEF p
  <2>2. Live' = Live
    BY <2>1 DEF Live, Talk!Closed, HolderInv, TalkTypeOK
  <2>3. \A n \in Msg : clntMsg'[n].fd = clntMsg[n].fd
    BY <2>1 DEF HolderInv, TalkTypeOK, Content
  <2> QED BY <2>1, <2>2, <2>3, ConnectedSame DEF Live, HolderInv, TalkTypeOK
<1>3. CASE Talk!ReceiveFails(w)
  <2>1. /\ jobPc[w] = "receive" /\ jobPc' = [jobPc EXCEPT ![w] = "free"]
        /\ Talk!closeSocket(job[w])
        /\ UNCHANGED <<allocated, clntMsg, job, rmMsg, rmPc>>
    BY <1>3 DEF Talk!ReceiveFails
  <2>2. Live' = Live \ {job[w]}
    BY <2>1 DEF Live, Talk!Closed, HolderInv, TalkTypeOK
  <2> QED BY <2>1, <2>2, LiveHeld, Closes
<1>4. CASE Talk!Free(w)
  <2>1. /\ jobPc[w] = "free" /\ jobPc' = [jobPc EXCEPT ![w] = "idle"]
        /\ job' = [job EXCEPT ![w] = NULL] /\ allocated' = allocated \ {job[w]}
        /\ UNCHANGED <<peer, clntMsg, rmMsg, rmPc>>
    BY <1>4 DEF Talk!Free, Talk!freeClientMsg, Talk!JobEnds
  <2>2. Live' = Live
    BY <2>1 DEF Live, Talk!Closed, HolderInv, TalkTypeOK
  <2> QED BY <2>1, <2>2, ConnectedSame
<1>5. CASE Talk!Post(w)
  <2>1. /\ jobPc[w] = "post" /\ jobPc' = [jobPc EXCEPT ![w] = "idle"]
        /\ job' = [job EXCEPT ![w] = NULL]
        /\ UNCHANGED <<peer, allocated, clntMsg, rmMsg, rmPc>>
    BY <1>5 DEF Talk!Post, Talk!JobEnds
  <2>2. Live' = Live
    BY <2>1 DEF Live, Talk!Closed, HolderInv, TalkTypeOK
  <2> QED BY <2>1, <2>2, ConnectedSame
<1> QED BY <1>1, <1>2, <1>3, <1>4, <1>5 DEF Talk!handleClient

LEMMA RmConnected == ASSUME HolderInv, Connected, Talk!RmStep PROVE Connected'
<1> USE DEF Talk!clientVars, Talk!heapVars, Talk!jobVars
<1>1. CASE Talk!RmTake
  <2>1. /\ rmPc = "idle" /\ rmPc' = "answer" /\ UNCHANGED <<peer, allocated, clntMsg, job, jobPc>>
    BY <1>1 DEF Talk!RmTake
  <2> QED BY <2>1, ConnectedSame DEF Live, Talk!Closed
<1>2. CASE Talk!SendAnswer \/ Talk!SendAnswerFails
  <2>1. /\ rmPc = "answer" /\ rmPc' = "sent" /\ UNCHANGED <<peer, allocated, clntMsg, job, jobPc>>
    BY <1>2 DEF Talk!SendAnswer, Talk!SendAnswerFails
  <2> QED BY <2>1, ConnectedSame DEF Live, Talk!Closed
<1>3. CASE Talk!CloseLast
  <2>1. /\ rmPc = "sent" /\ rmPc' = "free" /\ Talk!closeSocket(rmMsg)
        /\ UNCHANGED <<allocated, clntMsg, job, jobPc, rmMsg>>
    BY <1>3 DEF Talk!CloseLast
  <2>2. Live' = Live \ {rmMsg}
    BY <2>1 DEF Live, Talk!Closed
  <2> QED BY <2>1, <2>2, LiveHeld, Closes
<1>4. CASE Talk!FreeLast
  <2>1. /\ rmPc = "free" /\ rmPc' = "idle" /\ allocated' = allocated \ {rmMsg}
        /\ UNCHANGED <<peer, clntMsg, job, jobPc>>
    BY <1>4 DEF Talk!FreeLast, Talk!freeClientMsg
  <2> QED BY <2>1, ConnectedSame DEF Live, Talk!Closed
<1>5. CASE Talk!ReadNext
  <2>1. /\ rmPc = "sent" /\ rmPc' = "idle" /\ clntMsg' = Talk!Cleared(rmMsg)
        /\ UNCHANGED <<peer, allocated, job, jobPc>>
    BY <1>5 DEF Talk!ReadNext
  <2>2. Live' = Live
    BY <2>1 DEF Live, Talk!Closed
  <2>3. \A m \in Live : clntMsg'[m].fd = clntMsg[m].fd
    BY <2>1, RmHas, ClearedType DEF Live, HolderInv, TalkTypeOK
  <2> QED BY <2>1, <2>2, <2>3, ConnectedSame
<1> QED BY <1>1, <1>2, <1>3, <1>4, <1>5 DEF Talk!RmStep

LEMMA ConnectedStep == ASSUME HolderInv, Connected, [Talk!Next]_TalkVars PROVE Connected'
<1>1. ASSUME NEW c \in Client, Talk!Ask(c) PROVE Connected'
  <2>1. UNCHANGED <<peer, allocated, clntMsg, job, jobPc, rmMsg, rmPc>>
    BY <1>1 DEF Talk!Ask, Talk!heapVars, Talk!jobVars, Talk!rmVars
  <2> QED BY <2>1, ConnectedSame DEF Live, Talk!Closed
<1>2. CASE UNCHANGED TalkVars
  BY <1>2, ConnectedSame DEF TalkVars, Live, Talk!Closed
<1> QED BY <1>1, <1>2, AcceptConnected, WorkerConnected, RmConnected DEF Talk!Next

-----------------------------------------------------------------------------
(* Payloads.                                                                *)

Loaded == {m \in allocated : clntMsg[m].payLoad}

\* The payloads in the heap are those of the messages in use.
PayLoadsOwned == IsFiniteSet(allocated) /\ payLoads = Cardinality(Loaded)

\* A message that waits for a packet has none: decodePacket overwrites the pointer.
Blank ==
    /\ \A m \in Elements(workQueue) : ~clntMsg[m].payLoad
    /\ \A w \in Worker : jobPc[w] = "receive" => ~clntMsg[job[w]].payLoad

PayLoadInv == PayLoadsOwned /\ Blank

LEMMA LoadedFinite ==
    ASSUME IsFiniteSet(allocated)
    PROVE  IsFiniteSet(Loaded) /\ Cardinality(Loaded) \in Nat
  BY FS_Subset, FS_CardinalityType DEF Loaded

LEMMA PayLoadSame ==
    ASSUME PayLoadsOwned, UNCHANGED <<allocated, payLoads>>,
           \A m \in allocated : clntMsg'[m].payLoad = clntMsg[m].payLoad
    PROVE  PayLoadsOwned'
<1>1. Loaded' = Loaded
  BY DEF Loaded
<1> QED BY <1>1 DEF PayLoadsOwned

\* A payload less, with its message or without.
LEMMA PayLoadFreed ==
    ASSUME PayLoadsOwned, NEW m \in allocated, clntMsg[m].payLoad \in BOOLEAN,
           Talk!PayLoadsWithout(m),
           allocated' \subseteq allocated, Loaded' = Loaded \ {m}
    PROVE  PayLoadsOwned'
<1>1. IsFiniteSet(allocated')
  BY FS_Subset DEF PayLoadsOwned
<1>2. Cardinality(Loaded \ {m}) = IF m \in Loaded THEN Cardinality(Loaded) - 1 ELSE Cardinality(Loaded)
  BY LoadedFinite, FS_RemoveElement DEF PayLoadsOwned
<1>3. m \in Loaded <=> clntMsg[m].payLoad
  BY DEF Loaded
<1> QED BY <1>1, <1>2, <1>3 DEF PayLoadsOwned, Talk!PayLoadsWithout

LEMMA AcceptPayLoads ==
    ASSUME HolderInv, PayLoadInv, NEW c \in Client, Talk!Accept(c) PROVE PayLoadInv'
<1>1. PICK f \in Fd, m \in Msg \ allocated :
         /\ allocated' = allocated \cup {m}
         /\ clntMsg' = [clntMsg EXCEPT ![m].fd = f, ![m].payLoad = FALSE]
         /\ workQueue' = Append(workQueue, m)
  BY DEF Talk!Accept
<1>2. UNCHANGED <<payLoads, job, jobPc>>
  BY DEF Talk!Accept
<1>3. /\ clntMsg'[m].payLoad = FALSE
      /\ \A n \in Msg \ {m} : clntMsg'[n] = clntMsg[n]
  BY <1>1 DEF HolderInv, TalkTypeOK, Content
<1>4. Loaded' = Loaded
  BY <1>1, <1>3 DEF Loaded, HolderInv, TalkTypeOK
<1>5. PayLoadsOwned'
  BY <1>1, <1>2, <1>4, FS_AddElement DEF PayLoadsOwned, PayLoadInv
<1>6. Elements(workQueue') = Elements(workQueue) \cup {m}
  BY <1>1, AppendElements DEF HolderInv, TalkTypeOK
<1>7. Elements(workQueue) \subseteq Msg \ {m}
  BY <1>1 DEF HolderInv, HeldOnce, TalkTypeOK
<1>8. \A w \in Worker : jobPc[w] = "receive" => job[w] \in Msg \ {m}
  BY <1>1, WorkerHas
<1> QED BY <1>2, <1>3, <1>5, <1>6, <1>7, <1>8 DEF PayLoadInv, Blank

LEMMA ReceivePayLoads ==
    ASSUME HolderInv, Connected, PayLoadInv, NEW w \in Worker, Talk!Receive(w)
    PROVE  PayLoadInv'
<1> DEFINE m == job[w]
           c == peer[clntMsg[m].fd]
           p == Head(unread[c])
<1>1. /\ jobPc[w] = "receive" /\ unread[c] # <<>>
      /\ clntMsg' = [clntMsg EXCEPT ![m].token = p.number, ![m].isLast = p.isLast,
                                    ![m].payLoad = p.hasPayLoad \/ @]
      /\ payLoads' = IF p.hasPayLoad THEN payLoads + 1 ELSE payLoads
      /\ jobPc' = [jobPc EXCEPT ![w] = "post"]
      /\ UNCHANGED <<allocated, workQueue, job>>
  BY DEF Talk!Receive
<1>2. m \in allocated /\ m \in Msg /\ m \in Handled /\ clntMsg[m] \in Content /\ c \in Client
  BY <1>1, WorkerHas, LiveHeld, LiveTypes
<1>3. p.hasPayLoad \in BOOLEAN
  <2>1. unread[c] \in Seq(PacketRead)
    BY <1>2 DEF HolderInv, TalkTypeOK
  <2>2. p \in PacketRead
    BY <1>1, <2>1, HeadTailProperties, EmptySeq
  <2> QED BY <2>2 DEF PacketRead
<1>4. ~clntMsg[m].payLoad
  BY <1>1 DEF PayLoadInv, Blank
<1> HIDE DEF c, p
<1>5. /\ clntMsg'[m].payLoad = (p.hasPayLoad \/ clntMsg[m].payLoad)
      /\ \A n \in Msg \ {m} : clntMsg'[n] = clntMsg[n]
  BY <1>1, <1>2 DEF HolderInv, TalkTypeOK, Content
<1>6. m \notin Loaded
  BY <1>4 DEF Loaded
<1>7. Loaded' = IF p.hasPayLoad THEN Loaded \cup {m} ELSE Loaded
  BY <1>1, <1>2, <1>3, <1>4, <1>5 DEF Loaded, HolderInv, TalkTypeOK
<1>8. PayLoadsOwned'
  BY <1>1, <1>6, <1>7, LoadedFinite, FS_AddElement DEF PayLoadsOwned, PayLoadInv
<1>9. m # NULL /\ \A v \in Worker : job[v] = m => v = w
  BY <1>2, NullIsNew DEF HolderInv, HeldOnce
<1>10. Blank'
  <2>1. Elements(workQueue) \subseteq Msg \ {m}
    BY <1>2 DEF HolderInv, HeldOnce, TalkTypeOK
  <2>2. ASSUME NEW v \in Worker, jobPc'[v] = "receive" PROVE ~clntMsg'[job'[v]].payLoad
    <3>1. jobPc[v] = "receive" /\ v # w
      BY <1>1, <2>2 DEF HolderInv, TalkTypeOK
    <3>2. job[v] \in Msg \ {m}
      BY <1>9, <3>1, WorkerHas
    <3> QED BY <1>1, <1>5, <3>1, <3>2 DEF PayLoadInv, Blank
  <2> QED BY <1>1, <1>5, <2>1, <2>2 DEF PayLoadInv, Blank
<1> QED BY <1>8, <1>10 DEF PayLoadInv

LEMMA WorkerPayLoads ==
    ASSUME HolderInv, Connected, PayLoadInv, NEW w \in Worker, Talk!handleClient(w)
    PROVE  PayLoadInv'
<1> USE DEF Talk!heapVars
<1>1. CASE Talk!TakeJob(w)
  <2>1. /\ workQueue # <<>> /\ workQueue' = Tail(workQueue)
        /\ job' = [job EXCEPT ![w] = Head(workQueue)]
        /\ jobPc' = [jobPc EXCEPT ![w] = "receive"]
        /\ UNCHANGED <<allocated, clntMsg, payLoads>>
    BY <1>1 DEF Talk!TakeJob
  <2>2. Elements(workQueue) = Elements(workQueue') \cup {Head(workQueue)}
    BY <2>1, TailElements DEF HolderInv, TalkTypeOK
  <2>3. PayLoadsOwned'
    BY <2>1, PayLoadSame DEF PayLoadInv
  <2> QED BY <2>1, <2>2, <2>3 DEF PayLoadInv, Blank, HolderInv, TalkTypeOK
<1>2. CASE Talk!ReceiveFails(w)
  <2>1. /\ jobPc' = [jobPc EXCEPT ![w] = "free"]
        /\ UNCHANGED <<allocated, clntMsg, payLoads, workQueue, job>>
    BY <1>2 DEF Talk!ReceiveFails
  <2>2. PayLoadsOwned'
    BY <2>1, PayLoadSame DEF PayLoadInv
  <2> QED BY <2>1, <2>2 DEF PayLoadInv, Blank, HolderInv, TalkTypeOK
<1>3. CASE Talk!Free(w)
  <2>1. /\ jobPc[w] = "free" /\ jobPc' = [jobPc EXCEPT ![w] = "idle"]
        /\ job' = [job EXCEPT ![w] = NULL]
        /\ allocated' = allocated \ {job[w]} /\ Talk!PayLoadsWithout(job[w])
        /\ UNCHANGED <<clntMsg, workQueue>>
    BY <1>3 DEF Talk!Free, Talk!freeClientMsg, Talk!JobEnds
  <2>2. job[w] \in allocated /\ clntMsg[job[w]].payLoad \in BOOLEAN
    BY <2>1, WorkerHas DEF Content
  <2>3. Loaded' = Loaded \ {job[w]}
    BY <2>1 DEF Loaded
  <2>4. PayLoadsOwned'
    BY <2>1, <2>2, <2>3, PayLoadFreed DEF PayLoadInv
  <2> QED BY <2>1, <2>4 DEF PayLoadInv, Blank, HolderInv, TalkTypeOK
<1>4. CASE Talk!Post(w)
  <2>1. /\ jobPc' = [jobPc EXCEPT ![w] = "idle"] /\ job' = [job EXCEPT ![w] = NULL]
        /\ UNCHANGED <<allocated, clntMsg, payLoads, workQueue>>
    BY <1>4 DEF Talk!Post, Talk!JobEnds
  <2>2. PayLoadsOwned'
    BY <2>1, PayLoadSame DEF PayLoadInv
  <2> QED BY <2>1, <2>2 DEF PayLoadInv, Blank, HolderInv, TalkTypeOK
<1> QED BY <1>1, <1>2, <1>3, <1>4, ReceivePayLoads DEF Talk!handleClient

LEMMA RmPayLoads == ASSUME HolderInv, PayLoadInv, Talk!RmStep PROVE PayLoadInv'
<1> USE DEF Talk!heapVars, Talk!jobVars
<1>1. CASE Talk!RmTake \/ Talk!SendAnswer \/ Talk!SendAnswerFails \/ Talk!CloseLast
  <2>1. UNCHANGED <<allocated, clntMsg, payLoads, workQueue, job, jobPc>>
    BY <1>1 DEF Talk!RmTake, Talk!SendAnswer, Talk!SendAnswerFails, Talk!CloseLast
  <2>2. PayLoadsOwned'
    BY <2>1, PayLoadSame DEF PayLoadInv
  <2> QED BY <2>1, <2>2 DEF PayLoadInv, Blank
<1>2. CASE Talk!FreeLast
  <2>1. /\ rmPc = "free" /\ allocated' = allocated \ {rmMsg} /\ Talk!PayLoadsWithout(rmMsg)
        /\ UNCHANGED <<clntMsg, workQueue, job, jobPc>>
    BY <1>2 DEF Talk!FreeLast, Talk!freeClientMsg
  <2>2. rmMsg \in allocated /\ clntMsg[rmMsg].payLoad \in BOOLEAN
    BY <2>1, RmHas DEF Content
  <2>3. Loaded' = Loaded \ {rmMsg}
    BY <2>1 DEF Loaded
  <2>4. PayLoadsOwned'
    BY <2>1, <2>2, <2>3, PayLoadFreed DEF PayLoadInv
  <2> QED BY <2>1, <2>4 DEF PayLoadInv, Blank
<1>3. CASE Talk!ReadNext
  <2>1. /\ rmPc = "sent" /\ clntMsg' = Talk!Cleared(rmMsg) /\ Talk!PayLoadsWithout(rmMsg)
        /\ workQueue' = Append(workQueue, rmMsg)
        /\ UNCHANGED <<allocated, job, jobPc>>
    BY <1>3 DEF Talk!ReadNext
  <2>2. /\ rmMsg \in Msg /\ rmMsg \in allocated /\ clntMsg[rmMsg].payLoad \in BOOLEAN
        /\ Served = {rmMsg}
    BY <2>1, RmHas DEF Content
  <2>3. /\ clntMsg'[rmMsg].payLoad = FALSE
        /\ \A n \in Msg \ {rmMsg} : clntMsg'[n] = clntMsg[n]
    BY <2>1, <2>2, ClearedType DEF HolderInv, TalkTypeOK
  <2>4. Loaded' = Loaded \ {rmMsg}
    BY <2>1, <2>3 DEF Loaded, HolderInv, TalkTypeOK
  <2>5. PayLoadsOwned'
    BY <2>1, <2>2, <2>4, PayLoadFreed DEF PayLoadInv
  <2>6. Elements(workQueue') = Elements(workQueue) \cup {rmMsg}
    BY <2>1, <2>2, AppendElements DEF HolderInv, TalkTypeOK
  <2>7. /\ Elements(workQueue) \subseteq Msg \ {rmMsg}
        /\ \A w \in Worker : jobPc[w] = "receive" => job[w] \in Msg \ {rmMsg}
    BY <2>2, WorkerHas DEF HolderInv, HeldOnce, TalkTypeOK
  <2> QED BY <2>1, <2>3, <2>5, <2>6, <2>7 DEF PayLoadInv, Blank
<1> QED BY <1>1, <1>2, <1>3 DEF Talk!RmStep

LEMMA PayLoadStep ==
    ASSUME HolderInv, Connected, PayLoadInv, [Talk!Next]_TalkVars PROVE PayLoadInv'
<1>1. ASSUME \/ UNCHANGED TalkVars
             \/ \E c \in Client : Talk!Ask(c)
      PROVE  PayLoadInv'
  <2>1. UNCHANGED <<allocated, clntMsg, payLoads, workQueue, job, jobPc>>
    BY <1>1 DEF Talk!Ask, Talk!heapVars, Talk!jobVars, TalkVars
  <2>2. PayLoadsOwned'
    BY <2>1, PayLoadSame DEF PayLoadInv
  <2> QED BY <2>1, <2>2 DEF PayLoadInv, Blank
<1> QED BY <1>1, AcceptPayLoads, WorkerPayLoads, RmPayLoads DEF Talk!Next

-----------------------------------------------------------------------------
(* Requests and answers.                                                    *)

\* How many packets of a client have been read.
Read(c) == asked[c] - Len(unread[c])

\* The packets not read are numbered from the one after.
Numbered(c) ==
    /\ Len(unread[c]) <= asked[c]
    /\ \A k \in DOMAIN unread[c] : unread[c][k].number = Read(c) + k

\* The client whose connection the message belongs to.
Asker(m) == peer[clntMsg[m].fd]

\* Messages with a request that has not been answered.
Posting == {job[w] : w \in {v \in Worker : jobPc[v] = "post"}}
Waiting == Elements(rmQueue) \cup Posting \cup {m \in Served : rmPc = "answer"}

\* The request is the last one read from its client, and not answered.
IsNext(m) ==
    /\ clntMsg[m].token = Read(Asker(m))
    /\ clntMsg[m].token > 0
    /\ \A k \in DOMAIN answers[Asker(m)] : answers[Asker(m)][k] < clntMsg[m].token

AnswersInOrder(c) ==
    \A k \in DOMAIN answers[c] :
        /\ answers[c][k] <= Read(c)
        /\ k > 1 => answers[c][k - 1] < answers[c][k]
        /\ answers[c][k] > 0

OrderInv ==
    /\ \A c \in Client : Numbered(c) /\ AnswersInOrder(c)
    /\ \A m \in Waiting : IsNext(m)

LEMMA WaitingLive == ASSUME HolderInv PROVE Waiting \subseteq Live
  BY LiveHeld DEF Waiting, Posting, Served

\* Two connections are of two clients.
LEMMA OtherAsker ==
    ASSUME HolderInv, Connected, NEW m \in Live, NEW n \in Live, m # n
    PROVE  Asker(m) # Asker(n) /\ clntMsg[m].fd # clntMsg[n].fd
  BY LiveTypes DEF Connected, Asker

\* Steps that read and answer nothing.
LEMMA OrderSame ==
    ASSUME OrderInv, UNCHANGED <<unread, asked, answers>>, Waiting' \subseteq Waiting,
           \A m \in Waiting' : Asker(m)' = Asker(m) /\ clntMsg'[m].token = clntMsg[m].token
    PROVE  OrderInv'
<1>1. \A c \in Client : (Numbered(c) /\ AnswersInOrder(c))'
  BY DEF OrderInv, Numbered, AnswersInOrder, Read
<1>2. ASSUME NEW m \in Waiting' PROVE IsNext(m)'
  <2>1. IsNext(m) /\ Asker(m)' = Asker(m) /\ clntMsg'[m].token = clntMsg[m].token
    BY <1>2 DEF OrderInv
  <2> QED BY <2>1 DEF IsNext, Read
<1> QED BY <1>1, <1>2 DEF OrderInv

LEMMA AcceptOrder ==
    ASSUME HolderInv, Connected, OrderInv, NEW c \in Client, Talk!Accept(c) PROVE OrderInv'
<1>1. PICK f \in Fd, m \in Msg \ allocated :
         /\ peer[f] = NULL
         /\ peer' = [peer EXCEPT ![f] = c]
         /\ clntMsg' = [clntMsg EXCEPT ![m].fd = f, ![m].payLoad = FALSE]
  BY DEF Talk!Accept
<1>2. UNCHANGED <<unread, asked, answers, job, jobPc, rmQueue, rmMsg, rmPc>>
  BY DEF Talk!Accept, Talk!clientVars, Talk!rmVars
<1>3. Waiting' = Waiting
  BY <1>2 DEF Waiting, Posting, Served
<1>4. ASSUME NEW n \in Waiting PROVE Asker(n)' = Asker(n) /\ clntMsg'[n].token = clntMsg[n].token
  <2>1. n \in Live
    BY <1>4, WaitingLive
  <2>2. n # m /\ n \in Msg /\ clntMsg[n].fd \in Fd /\ peer[clntMsg[n].fd] # NULL
    BY <2>1, LiveTypes, NullIsNew DEF Live
  <2>3. clntMsg'[n] = clntMsg[n]
    BY <1>1, <2>2 DEF HolderInv, TalkTypeOK
  <2> QED BY <1>1, <2>2, <2>3 DEF Asker, HolderInv, TalkTypeOK
<1> QED BY <1>2, <1>3, <1>4, OrderSame

\* The packet has the next number.
LEMMA AskOrder ==
    ASSUME HolderInv, Connected, OrderInv, NEW c \in Client, Talk!Ask(c) PROVE OrderInv'
<1>1. /\ asked' = [asked EXCEPT ![c] = @ + 1]
      /\ UNCHANGED <<peer, answers, clntMsg, job, jobPc, rmQueue, rmMsg, rmPc>>
  BY DEF Talk!Ask, Talk!heapVars, Talk!jobVars, Talk!rmVars
<1>2. PICK isLast \in BOOLEAN, hasPayLoad \in BOOLEAN :
         unread' = [unread EXCEPT ![c] = Append(@,
             [number |-> asked[c] + 1, isLast |-> isLast, hasPayLoad |-> hasPayLoad])]
  BY DEF Talk!Ask
<1> DEFINE p == [number |-> asked[c] + 1, isLast |-> isLast, hasPayLoad |-> hasPayLoad]
<1>3. p \in PacketRead /\ p.number = asked[c] + 1
  BY DEF HolderInv, TalkTypeOK, PacketRead
<1>4. unread' = [unread EXCEPT ![c] = Append(unread[c], p)]
  BY <1>2
<1> HIDE DEF p
<1>5. unread[c] \in Seq(PacketRead) /\ asked[c] \in Nat
  BY DEF HolderInv, TalkTypeOK
<1>6. /\ Len(unread[c]) \in Nat /\ DOMAIN unread[c] = 1 .. Len(unread[c])
      /\ Len(Append(unread[c], p)) = Len(unread[c]) + 1
      /\ DOMAIN Append(unread[c], p) = 1 .. Len(unread[c]) + 1
      /\ \A k \in 1 .. Len(unread[c]) : Append(unread[c], p)[k] = unread[c][k]
      /\ Append(unread[c], p)[Len(unread[c]) + 1] = p
  BY <1>3, <1>5, AppendProperties, LenProperties
<1>7. unread'[c] = Append(unread[c], p) /\ asked'[c] = asked[c] + 1
  BY <1>1, <1>4 DEF HolderInv, TalkTypeOK
<1>8. \A d \in Client \ {c} : unread'[d] = unread[d] /\ asked'[d] = asked[d]
  BY <1>1, <1>4 DEF HolderInv, TalkTypeOK
<1>9. \A d \in Client : Read(d)' = Read(d)
  <2> TAKE d \in Client
  <2>1. CASE d = c
    BY <1>5, <1>6, <1>7, <2>1 DEF Read
  <2>2. CASE d # c
    BY <1>8, <2>2 DEF Read
  <2> QED BY <2>1, <2>2
<1>10. ASSUME NEW d \in Client PROVE Numbered(d)'
  <2>1. CASE d = c
    <3>1. Numbered(c)
      BY DEF OrderInv
    <3>2. Len(unread'[c]) <= asked'[c]
      BY <1>5, <1>6, <1>7, <3>1 DEF Numbered
    <3>3. \A k \in 1 .. Len(unread[c]) + 1 : unread'[c][k].number = Read(c) + k
      BY <1>3, <1>5, <1>6, <1>7, <3>1 DEF Numbered, Read
    <3> QED BY <1>6, <1>7, <1>9, <2>1, <3>2, <3>3 DEF Numbered
  <2>2. CASE d # c
    BY <1>8, <1>9, <2>2 DEF OrderInv, Numbered
  <2> QED BY <2>1, <2>2
<1>11. \A d \in Client : AnswersInOrder(d)'
  BY <1>1, <1>9 DEF OrderInv, AnswersInOrder
<1>12. ASSUME NEW m \in Waiting' PROVE IsNext(m)'
  <2>1. m \in Waiting
    BY <1>1, <1>12 DEF Waiting, Posting, Served
  <2>2. IsNext(m) /\ Asker(m) \in Client /\ Asker(m)' = Asker(m)
    BY <1>1, <2>1, WaitingLive, LiveTypes DEF OrderInv, Asker
  <2> QED BY <1>1, <1>9, <2>2 DEF IsNext
<1> QED BY <1>10, <1>11, <1>12 DEF OrderInv

LEMMA ReceiveOrder ==
    ASSUME HolderInv, Connected, OrderInv, NEW w \in Worker, Talk!Receive(w) PROVE OrderInv'
<1>1. /\ jobPc[w] = "receive"
      /\ unread[Asker(job[w])] # <<>>
      /\ LET p == Head(unread[Asker(job[w])]) IN
         clntMsg' = [clntMsg EXCEPT ![job[w]].token = p.number, ![job[w]].isLast = p.isLast,
                                    ![job[w]].payLoad = p.hasPayLoad \/ @]
      /\ unread' = [unread EXCEPT ![Asker(job[w])] = Tail(@)]
      /\ jobPc' = [jobPc EXCEPT ![w] = "post"]
      /\ UNCHANGED <<peer, asked, answers, job, rmQueue, rmMsg, rmPc>>
  BY DEF Talk!Receive, Talk!rmVars, Asker
<1>2. /\ job[w] \in Live /\ job[w] \in Msg /\ clntMsg[job[w]] \in Content
      /\ Asker(job[w]) \in Client
  BY <1>1, LiveHeld, LiveTypes DEF Asker
<1>m. PICK m \in Msg : m = job[w]
  BY <1>2
<1>c. PICK c \in Client : c = Asker(m)
  BY <1>2, <1>m
<1>3. /\ unread[c] \in Seq(PacketRead) /\ asked[c] \in Nat /\ answers[c] \in Seq(Nat)
      /\ Numbered(c) /\ AnswersInOrder(c)
  BY <1>2 DEF HolderInv, TalkTypeOK, OrderInv
<1>4. /\ Len(unread[c]) \in Nat /\ Len(unread[c]) >= 1 /\ Head(unread[c]) = unread[c][1]
      /\ DOMAIN unread[c] = 1 .. Len(unread[c])
      /\ Len(Tail(unread[c])) = Len(unread[c]) - 1
      /\ DOMAIN Tail(unread[c]) = 1 .. Len(unread[c]) - 1
      /\ \A k \in 1 .. Len(unread[c]) - 1 : Tail(unread[c])[k] = unread[c][k + 1]
  BY <1>1, <1>m, <1>c, <1>3, HeadTailProperties, LenProperties, EmptySeq
<1>5. /\ unread'[c] = Tail(unread[c])
      /\ \A d \in Client \ {c} : unread'[d] = unread[d]
  BY <1>1, <1>m, <1>c DEF HolderInv, TalkTypeOK
<1>6. Head(unread[c]).number = Read(c) + 1 /\ Read(c) \in Nat
  BY <1>3, <1>4 DEF Numbered, Read
<1>7. /\ clntMsg'[m].token = Head(unread[c]).number /\ clntMsg'[m].fd = clntMsg[m].fd
      /\ \A n \in Msg \ {m} : clntMsg'[n] = clntMsg[n]
  <2>1. PICK p : p = Head(unread[c])
    OBVIOUS
  <2>2. clntMsg' = [clntMsg EXCEPT ![m].token = p.number, ![m].isLast = p.isLast,
                                   ![m].payLoad = p.hasPayLoad \/ @]
    BY <1>1, <1>m, <1>c, <2>1
  <2> QED BY <1>2, <1>m, <2>1, <2>2 DEF HolderInv, TalkTypeOK, Content
<1>9. /\ Read(c)' = Read(c) + 1
      /\ \A d \in Client \ {c} : Read(d)' = Read(d)
  <2>1. Read(c)' = asked[c] - Len(Tail(unread[c]))
    BY <1>1, <1>5 DEF Read
  <2>2. Read(c)' = Read(c) + 1
    BY <1>3, <1>4, <2>1 DEF Read
  <2> QED BY <1>1, <1>5, <2>2 DEF Read
<1>10. ASSUME NEW d \in Client PROVE Numbered(d)' /\ AnswersInOrder(d)'
  <2>1. CASE d = c
    <3>1. Len(unread'[c]) <= asked'[c]
      BY <1>1, <1>3, <1>4, <1>5 DEF Numbered
    <3>2. \A k \in 1 .. Len(unread[c]) - 1 : unread'[c][k].number = Read(c) + 1 + k
      <4> TAKE k \in 1 .. Len(unread[c]) - 1
      <4>1. k + 1 \in DOMAIN unread[c] /\ unread'[c][k] = unread[c][k + 1]
        BY <1>4, <1>5
      <4>2. unread[c][k + 1].number = Read(c) + (k + 1)
        BY <1>3, <4>1 DEF Numbered
      <4> QED BY <1>4, <1>6, <4>1, <4>2
    <3>3. Numbered(c)'
      BY <1>4, <1>5, <1>9, <3>1, <3>2 DEF Numbered
    <3>4. \A k \in DOMAIN answers[c] : answers[c][k] \in Nat
      BY <1>3
    <3>5. AnswersInOrder(c)'
      BY <1>1, <1>3, <1>6, <1>9, <3>4 DEF AnswersInOrder
    <3> QED BY <2>1, <3>3, <3>5
  <2>2. CASE d # c
    BY <1>1, <1>5, <1>9, <2>2 DEF OrderInv, Numbered, AnswersInOrder
  <2> QED BY <2>1, <2>2
<1>11. Waiting' = Waiting \cup {m}
  BY <1>1, <1>m DEF Waiting, Posting, Served, HolderInv, TalkTypeOK
<1>12. ASSUME NEW n \in Waiting, n # m PROVE IsNext(n)'
  <2>1. n \in Live /\ n \in Msg /\ Asker(n) \in Client /\ Asker(n) # c
    BY <1>2, <1>m, <1>c, <1>12, WaitingLive, LiveTypes, OtherAsker DEF Asker
  <2>2. PICK d \in Client : d = Asker(n)
    BY <2>1
  <2>3. Asker(n)' = d /\ clntMsg'[n] = clntMsg[n]
    BY <1>1, <1>7, <1>12, <2>1, <2>2 DEF Asker
  <2>4. IsNext(n) /\ Read(d)' = Read(d)
    BY <1>9, <2>1, <2>2 DEF OrderInv
  <2> QED BY <1>1, <2>2, <2>3, <2>4 DEF IsNext
<1>13. IsNext(m)'
  <2>1. Asker(m)' = c
    BY <1>1, <1>7, <1>c DEF Asker
  <2>2. \A k \in DOMAIN answers[c] : answers[c][k] \in Nat /\ answers[c][k] <= Read(c)
    BY <1>3 DEF AnswersInOrder
  <2>3. \A k \in DOMAIN answers[c] : answers[c][k] < clntMsg'[m].token
    BY <1>6, <1>7, <2>2
  <2>4. clntMsg'[m].token = Read(c)' /\ clntMsg'[m].token > 0
    BY <1>6, <1>7, <1>9
  <2> QED BY <1>1, <2>1, <2>3, <2>4 DEF IsNext
<1> QED BY <1>10, <1>11, <1>12, <1>13 DEF OrderInv

LEMMA WorkerOrder ==
    ASSUME HolderInv, Connected, OrderInv, NEW w \in Worker, Talk!handleClient(w)
    PROVE  OrderInv'
<1> USE DEF Talk!clientVars, Talk!heapVars, Talk!rmVars
<1>1. CASE Talk!TakeJob(w)
  <2>1. /\ jobPc' = [jobPc EXCEPT ![w] = "receive"]
        /\ job' = [job EXCEPT ![w] = Head(workQueue)]
        /\ UNCHANGED <<peer, unread, asked, answers, clntMsg, rmQueue, rmMsg, rmPc>>
    BY <1>1 DEF Talk!TakeJob
  <2>2. Waiting' \subseteq Waiting
    BY <2>1 DEF Waiting, Posting, Served, HolderInv, TalkTypeOK
  <2> QED BY <2>1, <2>2, OrderSame DEF Asker
<1>2. CASE Talk!ReceiveFails(w)
  <2>1. /\ jobPc[w] = "receive" /\ jobPc' = [jobPc EXCEPT ![w] = "free"]
        /\ peer' = [peer EXCEPT ![clntMsg[job[w]].fd] = NULL]
        /\ UNCHANGED <<unread, asked, answers, clntMsg, job, rmQueue, rmMsg, rmPc>>
    BY <1>2 DEF Talk!ReceiveFails, Talk!closeSocket
  <2>2. Waiting' \subseteq Waiting
    BY <2>1 DEF Waiting, Posting, Served, HolderInv, TalkTypeOK
  <2>3. job[w] \in Live /\ job[w] \in Handled /\ job[w] # NULL
    BY <2>1, LiveHeld, WorkerHas, NullIsNew
  <2>4. job[w] \notin Waiting
    BY <2>1, <2>3 DEF Waiting, Posting, HolderInv, HeldOnce
  <2>5. \A m \in Waiting : Asker(m)' = Asker(m)
    <3> TAKE m \in Waiting
    <3>1. m \in Live /\ clntMsg[m].fd # clntMsg[job[w]].fd
      BY <2>3, <2>4, WaitingLive, OtherAsker
    <3> QED BY <2>1, <3>1, LiveTypes DEF Asker, HolderInv, TalkTypeOK
  <2> QED BY <2>1, <2>2, <2>5, OrderSame
<1>3. CASE Talk!Free(w)
  <2>1. /\ jobPc' = [jobPc EXCEPT ![w] = "idle"] /\ job' = [job EXCEPT ![w] = NULL]
        /\ UNCHANGED <<peer, unread, asked, answers, clntMsg, rmQueue, rmMsg, rmPc>>
    BY <1>3 DEF Talk!Free, Talk!freeClientMsg, Talk!JobEnds
  <2>2. Waiting' \subseteq Waiting
    BY <2>1 DEF Waiting, Posting, Served, HolderInv, TalkTypeOK
  <2> QED BY <2>1, <2>2, OrderSame DEF Asker
<1>4. CASE Talk!Post(w)
  <2>1. /\ jobPc[w] = "post" /\ jobPc' = [jobPc EXCEPT ![w] = "idle"]
        /\ job' = [job EXCEPT ![w] = NULL] /\ rmQueue' = Append(rmQueue, job[w])
        /\ UNCHANGED <<peer, unread, asked, answers, clntMsg, rmMsg, rmPc>>
    BY <1>4 DEF Talk!Post, Talk!JobEnds
  <2>2. Elements(rmQueue') = Elements(rmQueue) \cup {job[w]}
    <3>1. job[w] \in Msg /\ rmQueue \in Seq(Msg)
      BY <2>1, WorkerHas DEF HolderInv, TalkTypeOK
    <3> QED BY <2>1, <3>1, AppendElements
  <2>3. job[w] \in Posting /\ Posting' \subseteq Posting
    BY <2>1 DEF Posting, HolderInv, TalkTypeOK
  <2>4. Waiting' \subseteq Waiting
    BY <2>1, <2>2, <2>3 DEF Waiting, Served
  <2> QED BY <2>1, <2>4, OrderSame DEF Asker
<1> QED BY <1>1, <1>2, <1>3, <1>4, ReceiveOrder DEF Talk!handleClient

LEMMA SendAnswerOrder == ASSUME HolderInv, Connected, OrderInv, Talk!SendAnswer PROVE OrderInv'
<1>1. /\ rmPc = "answer" /\ rmPc' = "sent"
      /\ answers' = [d \in Client |-> IF d = Asker(rmMsg)
                                      THEN Append(answers[d], clntMsg[rmMsg].token)
                                      ELSE answers[d]]
      /\ UNCHANGED <<peer, unread, asked, clntMsg, job, jobPc, rmQueue, rmMsg>>
  BY DEF Talk!SendAnswer, Talk!heapVars, Talk!jobVars, Asker
<1>2. rmMsg \in Live /\ rmMsg \in Waiting /\ rmMsg \in Served /\ Asker(rmMsg) \in Client
  BY <1>1, LiveHeld, RmHas, LiveTypes DEF Waiting, Asker
<1>c. PICK c \in Client : c = Asker(rmMsg)
  BY <1>2
<1>t. PICK t \in Nat : t = clntMsg[rmMsg].token
  BY <1>1, RmHas DEF Content
<1>3. answers[c] \in Seq(Nat) /\ AnswersInOrder(c)
  BY DEF HolderInv, TalkTypeOK, OrderInv
<1>4. /\ Len(answers[c]) \in Nat /\ DOMAIN answers[c] = 1 .. Len(answers[c])
      /\ DOMAIN Append(answers[c], t) = 1 .. Len(answers[c]) + 1
      /\ \A k \in 1 .. Len(answers[c]) : Append(answers[c], t)[k] = answers[c][k]
      /\ Append(answers[c], t)[Len(answers[c]) + 1] = t
  BY <1>3, AppendProperties, LenProperties
<1>5. answers'[c] = Append(answers[c], t) /\ \A d \in Client \ {c} : answers'[d] = answers[d]
  BY <1>1, <1>c, <1>t
<1>6. \A d \in Client : Read(d)' = Read(d) /\ Numbered(d)'
  BY <1>1 DEF Read, Numbered, OrderInv
<1>7. t = Read(c) /\ t > 0 /\ \A k \in 1 .. Len(answers[c]) : answers[c][k] < t
  BY <1>2, <1>c, <1>t, <1>4 DEF OrderInv, IsNext
<1>8. AnswersInOrder(c)'
  <2> SUFFICES ASSUME NEW k \in 1 .. Len(answers[c]) + 1
               PROVE  /\ answers'[c][k] <= Read(c)
                      /\ k > 1 => answers'[c][k - 1] < answers'[c][k]
                      /\ answers'[c][k] > 0
    BY <1>4, <1>5, <1>6 DEF AnswersInOrder
  <2>1. CASE k \in 1 .. Len(answers[c])
    <3>1. k > 1 => k - 1 \in 1 .. Len(answers[c])
      BY <1>4, <2>1
    <3> QED BY <1>3, <1>4, <1>5, <2>1, <3>1 DEF AnswersInOrder
  <2>2. CASE k = Len(answers[c]) + 1
    <3>1. k > 1 => k - 1 \in 1 .. Len(answers[c])
      BY <1>4, <2>2
    <3> QED BY <1>4, <1>5, <1>7, <2>2, <3>1
  <2> QED BY <1>4, <2>1, <2>2
<1>9. \A d \in Client : AnswersInOrder(d)'
  <2> TAKE d \in Client
  <2>1. CASE d # c
    BY <1>5, <1>6, <2>1 DEF OrderInv, AnswersInOrder
  <2> QED BY <1>8, <2>1
<1>10. Waiting' \subseteq Waiting \ {rmMsg}
  <2>1. rmMsg \notin Elements(rmQueue) /\ rmMsg \notin Posting
    BY <1>2, NullIsNew DEF HolderInv, HeldOnce, Posting, Handled, Served
  <2> QED BY <1>1, <2>1 DEF Waiting, Posting, Served
<1>11. ASSUME NEW n \in Waiting \ {rmMsg} PROVE IsNext(n)'
  <2>1. n \in Live /\ Asker(n) \in Client /\ Asker(n) # c
    BY <1>2, <1>c, <1>11, WaitingLive, LiveTypes, OtherAsker DEF Asker
  <2>2. PICK d \in Client : d = Asker(n)
    BY <2>1
  <2>3. Asker(n)' = d /\ answers'[d] = answers[d] /\ clntMsg'[n].token = clntMsg[n].token
    BY <1>1, <1>5, <2>1, <2>2 DEF Asker
  <2>4. IsNext(n) /\ Read(d)' = Read(d)
    BY <1>6, <1>11 DEF OrderInv
  <2> QED BY <2>2, <2>3, <2>4 DEF IsNext
<1> QED BY <1>6, <1>9, <1>10, <1>11 DEF OrderInv

LEMMA RmOrder == ASSUME HolderInv, Connected, OrderInv, Talk!RmStep PROVE OrderInv'
<1> USE DEF Talk!clientVars, Talk!heapVars, Talk!jobVars
<1>1. CASE Talk!RmTake
  <2>1. /\ rmPc = "idle" /\ rmPc' = "answer" /\ rmQueue # <<>>
        /\ rmMsg' = Head(rmQueue) /\ rmQueue' = Tail(rmQueue)
        /\ UNCHANGED <<peer, unread, asked, answers, clntMsg, job, jobPc>>
    BY <1>1 DEF Talk!RmTake
  <2>2. Elements(rmQueue) = Elements(rmQueue') \cup {rmMsg'}
    BY <2>1, TailElements DEF HolderInv, TalkTypeOK
  <2>3. Waiting' \subseteq Waiting
    BY <2>1, <2>2 DEF Waiting, Posting, Served
  <2> QED BY <2>1, <2>3, OrderSame DEF Asker
<1>2. CASE Talk!SendAnswerFails
  <2>1. /\ rmPc' = "sent"
        /\ UNCHANGED <<peer, unread, asked, answers, clntMsg, job, jobPc, rmQueue, rmMsg>>
    BY <1>2 DEF Talk!SendAnswerFails
  <2> QED BY <2>1, OrderSame DEF Asker, Waiting, Posting, Served
<1>3. ASSUME rmPc = "sent" \/ rmPc = "free" PROVE Waiting \subseteq Live \ {rmMsg}
  <2>1. rmMsg \in Served /\ rmMsg # NULL
    BY <1>3, RmHas, NullIsNew
  <2>2. rmMsg \notin Elements(rmQueue) /\ rmMsg \notin Posting
    BY <2>1 DEF HolderInv, HeldOnce, Posting, Handled
  <2> QED BY <1>3, <2>2, WaitingLive DEF Waiting
<1>4. CASE Talk!CloseLast
  <2>1. /\ rmPc = "sent" /\ rmPc' = "free"
        /\ peer' = [peer EXCEPT ![clntMsg[rmMsg].fd] = NULL]
        /\ UNCHANGED <<unread, asked, answers, clntMsg, job, jobPc, rmQueue, rmMsg>>
    BY <1>4 DEF Talk!CloseLast, Talk!closeSocket
  <2>2. Waiting' = Waiting
    BY <2>1 DEF Waiting, Posting, Served
  <2>3. \A m \in Waiting : Asker(m)' = Asker(m)
    <3> TAKE m \in Waiting
    <3>1. m \in Live /\ clntMsg[m].fd # clntMsg[rmMsg].fd
      BY <1>3, <2>1, LiveHeld, OtherAsker
    <3> QED BY <2>1, <3>1, LiveTypes DEF Asker, HolderInv, TalkTypeOK
  <2> QED BY <2>1, <2>2, <2>3, OrderSame
<1>5. CASE Talk!FreeLast
  <2>1. /\ rmPc = "free" /\ rmPc' = "idle" /\ rmMsg' = NULL
        /\ UNCHANGED <<peer, unread, asked, answers, clntMsg, job, jobPc, rmQueue>>
    BY <1>5 DEF Talk!FreeLast, Talk!freeClientMsg
  <2> QED BY <2>1, OrderSame DEF Asker, Waiting, Posting, Served
<1>6. CASE Talk!ReadNext
  <2>1. /\ rmPc = "sent" /\ rmPc' = "idle" /\ rmMsg' = NULL /\ clntMsg' = Talk!Cleared(rmMsg)
        /\ UNCHANGED <<peer, unread, asked, answers, job, jobPc, rmQueue>>
    BY <1>6 DEF Talk!ReadNext
  <2>2. Waiting' \subseteq Waiting
    BY <2>1 DEF Waiting, Posting, Served
  <2>3. \A m \in Waiting : clntMsg'[m] = clntMsg[m]
    BY <1>3, <2>1, RmHas, ClearedType DEF Live, HolderInv, TalkTypeOK
  <2> QED BY <2>1, <2>2, <2>3, OrderSame DEF Asker
<1> QED BY <1>1, <1>2, <1>4, <1>5, <1>6, SendAnswerOrder DEF Talk!RmStep

LEMMA OrderStep == ASSUME HolderInv, Connected, OrderInv, [Talk!Next]_TalkVars PROVE OrderInv'
<1>1. ASSUME UNCHANGED TalkVars PROVE OrderInv'
  BY <1>1, OrderSame DEF TalkVars, Asker, Waiting, Posting, Served
<1> QED BY <1>1, AcceptOrder, AskOrder, WorkerOrder, RmOrder DEF Talk!Next

-----------------------------------------------------------------------------
(* What has to hold.                                                        *)

TalkInv == HolderInv /\ Connected /\ PayLoadInv /\ OrderInv

LEMMA TalkInit == Talk!Init => TalkInv
<1> SUFFICES ASSUME Talk!Init PROVE TalkInv
  OBVIOUS
<1> USE DEF Talk!Init
<1>1. /\ Elements(workQueue) = {} /\ Elements(rmQueue) = {} /\ Handled = {} /\ Served = {}
      /\ Posting = {} /\ allocated = {} /\ Live = {} /\ Waiting = {} /\ Loaded = {}
  BY DEF Elements, Handled, Served, Posting, Live, Waiting, Loaded
<1>2. TalkTypeOK
  BY DEF TalkTypeOK, Content
<1>3. HeldOnce /\ HoldersBusy
  BY <1>1 DEF HeldOnce, HoldersBusy, Once
<1>4. Connected
  BY <1>1 DEF Connected
<1>5. PayLoadInv
  BY <1>1, FS_EmptySet DEF PayLoadInv, PayLoadsOwned, Blank
<1>6. OrderInv
  BY <1>1 DEF OrderInv, Numbered, AnswersInOrder, Read
<1> QED BY <1>2, <1>3, <1>4, <1>5, <1>6 DEF TalkInv, HolderInv

\* Connection counts with the Cardinality of its own instance.
LEMMA SameCardinality == ASSUME NEW S PROVE Talk!Cardinality(S) = Cardinality(S)
  BY DEF Talk!Cardinality, Cardinality

\* One position in a queue, or none.
LEMMA Places ==
    ASSUME NEW s \in Seq(Msg), Once(s), NEW m
    PROVE  Cardinality({k \in DOMAIN s : s[k] = m}) = IF m \in Elements(s) THEN 1 ELSE 0
<1>1. CASE m \in Elements(s)
  <2>1. PICK k \in DOMAIN s : s[k] = m
    BY <1>1 DEF Elements
  <2>2. {j \in DOMAIN s : s[j] = m} = {k}
    BY <2>1 DEF Once
  <2> QED BY <1>1, <2>2, FS_Singleton
<1>2. CASE m \notin Elements(s)
  <2>1. {j \in DOMAIN s : s[j] = m} = {}
    BY <1>2 DEF Elements
  <2> QED BY <1>2, <2>1, FS_EmptySet
<1> QED BY <1>1, <1>2

LEMMA OneHolderFollows == ASSUME HolderInv PROVE Talk!OneHolder
<1> SUFFICES ASSUME NEW m \in Msg
             PROVE  Talk!Holders(m) = IF m \in allocated THEN 1 ELSE 0
  BY DEF Talk!OneHolder
<1>1. /\ Cardinality({k \in DOMAIN workQueue : workQueue[k] = m})
            = IF m \in Elements(workQueue) THEN 1 ELSE 0
      /\ Cardinality({k \in DOMAIN rmQueue : rmQueue[k] = m})
            = IF m \in Elements(rmQueue) THEN 1 ELSE 0
  BY Places DEF HolderInv, TalkTypeOK, HeldOnce
<1>2. Cardinality({w \in Worker : job[w] = m}) = IF m \in Handled THEN 1 ELSE 0
  <2>1. CASE m \in Handled
    <3>1. PICK w \in Worker : job[w] = m
      BY <2>1 DEF Handled
    <3>2. {v \in Worker : job[v] = m} = {w}
      BY <3>1, NullIsNew DEF HolderInv, HeldOnce
    <3> QED BY <2>1, <3>2, FS_Singleton
  <2>2. CASE m \notin Handled
    <3>1. {v \in Worker : job[v] = m} = {}
      BY <2>2, NullIsNew DEF Handled
    <3> QED BY <2>2, <3>1, FS_EmptySet
  <2> QED BY <2>1, <2>2
<1>3. Cardinality({m} \cap {rmMsg}) = IF m \in Served THEN 1 ELSE 0
  <2>1. CASE m = rmMsg
    <3>1. {m} \cap {rmMsg} = {m} /\ m \in Served
      BY <2>1, NullIsNew DEF Served
    <3> QED BY <3>1, FS_Singleton
  <2>2. CASE m # rmMsg
    <3>1. {m} \cap {rmMsg} = {} /\ m \notin Served
      BY <2>2 DEF Served
    <3> QED BY <3>1, FS_EmptySet
  <2> QED BY <2>1, <2>2
<1>4. /\ m \in allocated <=> \/ m \in Elements(workQueue) \/ m \in Elements(rmQueue)
                             \/ m \in Handled \/ m \in Served
      /\ m \in Elements(workQueue) => m \notin Elements(rmQueue) /\ m \notin Handled /\ m \notin Served
      /\ m \in Elements(rmQueue) => m \notin Handled /\ m \notin Served
      /\ m \in Handled => m \notin Served
  BY DEF HolderInv, HeldOnce
<1> QED BY <1>1, <1>2, <1>3, <1>4, SameCardinality DEF Talk!Holders

LEMMA OneConnectionFollows ==
    ASSUME HolderInv, Connected PROVE Talk!OneConnectionPerMessage
<1>1. \A m \in allocated : Talk!Closed(m) \/ peer[clntMsg[m].fd] # NULL
  BY DEF Connected, Live
<1>2. ASSUME NEW f \in Fd, peer[f] # NULL
      PROVE  Cardinality({m \in allocated : clntMsg[m].fd = f /\ ~Talk!Closed(m)}) = 1
  <2>1. PICK m \in Live : clntMsg[m].fd = f
    BY <1>2 DEF Connected
  <2>2. {n \in allocated : clntMsg[n].fd = f /\ ~Talk!Closed(n)} = {m}
    BY <2>1 DEF Connected, Live
  <2> QED BY <2>2, FS_Singleton
<1> QED BY <1>1, <1>2, SameCardinality DEF Talk!OneConnectionPerMessage

LEMMA TalkSafe == Talk!Spec => []TalkInv
<1>1. TalkInv /\ [Talk!Next]_TalkVars => TalkInv'
  <2> SUFFICES ASSUME TalkInv, [Talk!Next]_TalkVars PROVE TalkInv'
    OBVIOUS
  <2> QED BY HolderStep, ConnectedStep, PayLoadStep, OrderStep DEF TalkInv
<1>3. [Talk!Next]_(Talk!vars) => [Talk!Next]_TalkVars
  BY DEF TalkVars, Talk!vars, Talk!clientVars, Talk!heapVars, Talk!jobVars, Talk!rmVars
<1> QED BY TalkInit, <1>1, <1>3, PTL DEF Talk!Spec

\* A clntMsg_t is held by one thread or queue from malloc to freeClientMsg, an open socket
\* belongs to one of them, and no payload is left behind (serverRoutine.c:132-141, 171-180).
THEOREM ConnectionStaysOwned == Talk!Spec => []ConnectionsAreOwned
<1>1. TalkInv => ConnectionsAreOwned
  <2> SUFFICES ASSUME TalkInv PROVE ConnectionsAreOwned
    OBVIOUS
  <2>1. Talk!NoPayLoadIsLost
    BY SameCardinality DEF TalkInv, PayLoadInv, PayLoadsOwned, Loaded, Talk!NoPayLoadIsLost
  <2> QED BY <2>1, OneHolderFollows, OneConnectionFollows
          DEF TalkInv, ConnectionsAreOwned, Talk!ConnectionsAreOwned
<1> QED BY TalkSafe, <1>1, PTL

\* Each client is answered in the order of its requests, no request twice and none before
\* it is read, though the descriptor may have been another client's a moment ago.
THEOREM AnswersComeInOrder == Talk!Spec => []AnswersFollowRequests
<1>1. TalkInv => AnswersFollowRequests
  BY DEF TalkInv, OrderInv, AnswersInOrder, Read, AnswersFollowRequests,
         Talk!AnswersFollowRequests
<1> QED BY TalkSafe, <1>1, PTL

-----------------------------------------------------------------------------
(* The numbers that the bounds of the model keep small.                     *)

ListBound == totalNode <= MaxTotal

LEMMA ListBoundStep == ASSUME ListInv, ListBound, [List!Next]_(List!vars) PROVE ListBound'
<1>1. totalNode \in Nat /\ MaxTotal \in Nat
  BY TransfersAssumption DEF ListInv, ListTypes
<1>2. ASSUME NEW d \in Data, List!addLast(d) \/ List!addFirst(d) PROVE ListBound'
  <2>1. totalNode < MaxTotal /\ totalNode' = totalNode + 1
    BY <1>2 DEF List!addLast, List!addFirst, List!NewNode
  <2> QED BY <1>1, <2>1 DEF ListBound
<1>3. ASSUME List!deleteFirst PROVE ListBound'
  BY <1>1, <1>3 DEF List!deleteFirst, ListBound
<1>4. ASSUME List!deleteAllFromList PROVE ListBound'
  <2>1. PICK s \in Seq(Node) : Links(s)
    BY DEF ListInv
  <2>2. List!Walk = s /\ Len(s) \in Nat
    BY <2>1, WalkIs, LenProperties
  <2>3. totalNode' = totalNode - Len(s)
    BY <1>4, <2>2 DEF List!deleteAllFromList
  <2> QED BY <1>1, <2>2, <2>3 DEF ListBound
<1>5. ASSUME NEW n, List!unlink(n) PROVE ListBound'
  BY <1>5 DEF List!unlink, ListBound
<1>6. ASSUME NEW func \in SUBSET Data, List!deleteOneFromListHaving(func) PROVE ListBound'
  BY <1>3, <1>5, <1>6, Zenon DEF List!deleteOneFromListHaving
<1>7. ASSUME UNCHANGED List!vars PROVE ListBound'
  BY <1>7 DEF List!vars, ListBound
<1> QED BY <1>2, <1>3, <1>4, <1>6, <1>7, Zenon
        DEF List!Next, List!enqueue, List!push, List!dequeue, List!pop

TellingBound == Len(update) <= MaxUpdates /\ drops \in 0 .. MaxDrops

LEMMA QueuedLength ==
    ASSUME NEW us \in Seq(UpdateRecord), NEW u
    PROVE  Len(Append(us, u)) = Len(us) + 1 /\ Len(us) \in Nat
  BY LenProperties

LEMMA ForgetLength ==
    ASSUME NEW us \in Seq(UpdateRecord), NEW c
    PROVE  Len(Telling!Forget(c, us)) = Len(us)
<1>1. Len(us) \in Nat /\ DOMAIN us = 1 .. Len(us)
  BY LenProperties
<1>2. PICK f : f = [k \in 1 .. Len(us) |-> [us[k] EXCEPT !.audience = us[k].audience \ {c}]]
  OBVIOUS
<1>3. f = Telling!Forget(c, us)
  BY <1>1, <1>2 DEF Telling!Forget
<1>4. f \in [1 .. Len(us) -> {f[k] : k \in 1 .. Len(us)}]
  BY <1>2
<1>5. Len(f) = Len(us)
  BY <1>1, <1>4, FunctionIsSeq
<1> QED BY <1>3, <1>5

LEMMA ForgetIsSeq ==
    ASSUME NEW us \in Seq(UpdateRecord), NEW c
    PROVE  Telling!Forget(c, us) \in Seq(UpdateRecord)
<1>1. Len(us) \in Nat /\ DOMAIN us = 1 .. Len(us)
  BY LenProperties
<1>2. PICK f : f = [k \in 1 .. Len(us) |-> [us[k] EXCEPT !.audience = us[k].audience \ {c}]]
  OBVIOUS
<1>3. f = Telling!Forget(c, us)
  BY <1>1, <1>2 DEF Telling!Forget
<1>4. \A k \in 1 .. Len(us) : f[k] \in UpdateRecord
  <2> TAKE k \in 1 .. Len(us)
  <2>1. us[k] \in UpdateRecord
    BY ElementOfSeq
  <2>2. [us[k] EXCEPT !.audience = us[k].audience \ {c}] \in UpdateRecord
    BY <2>1 DEF UpdateRecord
  <2> QED BY <1>2, <2>2, Zenon
<1>5. f \in [1 .. Len(us) -> UpdateRecord]
  BY <1>2, <1>4
<1> QED BY <1>1, <1>3, <1>5, FunctionIsSeq

LEMMA TellingBoundStep ==
    ASSUME UpdatesInv, TellingBound, [Telling!Next]_(Telling!vars) PROVE TellingBound'
<1>1. /\ update \in Seq(UpdateRecord) /\ Len(update) \in Nat
      /\ MaxUpdates \in Nat /\ MaxDrops \in Nat
  BY LenProperties, TransfersAssumption DEF UpdatesInv, AllGood
<1>2. ASSUME NEW u, Telling!Queue(u), drops' = drops PROVE TellingBound'
  <2>1. Len(update) < MaxUpdates /\ update' = Append(update, u)
    BY <1>2 DEF Telling!Queue
  <2>2. Len(update') = Len(update) + 1
    BY <1>1, <2>1, QueuedLength
  <2> QED BY <1>1, <1>2, <2>1, <2>2 DEF TellingBound
<1>3. ASSUME NEW c, Telling!Register(c) PROVE TellingBound'
  BY <1>3 DEF Telling!Register, TellingBound
<1>4. ASSUME NEW c, Telling!Deregister(c) PROVE TellingBound'
  <2>1. PICK u : update' = Append(Telling!Forget(c, update), u)
    BY <1>4, Zenon DEF Telling!Deregister
  <2>2. Telling!Forget(c, update) \in Seq(UpdateRecord)
    BY <1>1, ForgetIsSeq
  <2>3. Len(update') = Len(update) + 1
    BY <1>1, <2>1, <2>2, ForgetLength, QueuedLength
  <2>4. Len(update) < MaxUpdates /\ drops' = drops
    BY <1>4 DEF Telling!Deregister
  <2> QED BY <1>1, <2>3, <2>4 DEF TellingBound
<1>5. ASSUME NEW c, NEW token, NEW isLast,
             Telling!ServAdd(c, token, isLast) \/ Telling!ServDelete(c, token, isLast)
      PROVE  TellingBound'
  BY <1>2, <1>5, Zenon DEF Telling!ServAdd, Telling!ServDelete
<1>6. ASSUME NEW c, NEW token, Telling!PlayingStarts(c, token) PROVE TellingBound'
  BY <1>2, <1>6, Zenon DEF Telling!PlayingStarts
<1>7. ASSUME NEW k \in DOMAIN update, NEW v, update' = [update EXCEPT ![k] = v]
      PROVE  Len(update') = Len(update)
  <2>1. DOMAIN update' = DOMAIN update /\ DOMAIN update = 1 .. Len(update)
    BY <1>1, <1>7, LenProperties
  <2>2. update' \in [1 .. Len(update) -> {update'[j] : j \in 1 .. Len(update)}]
    BY <1>7, <2>1
  <2> QED BY <1>1, <2>2, FunctionIsSeq
<1>8. ASSUME NEW k \in DOMAIN update, Telling!Skip(k) \/ Telling!sendOneUpdate(k)
      PROVE  TellingBound'
  <2>1. drops' = drops /\ \E v : update' = [update EXCEPT ![k] = v]
    BY <1>8, Zenon DEF Telling!Skip, Telling!sendOneUpdate
  <2> QED BY <1>7, <2>1 DEF TellingBound
<1>9. ASSUME Telling!Drop, TellingBound PROVE drops' \in 0 .. MaxDrops
  BY <1>1, <1>9 DEF Telling!Drop, TellingBound
<1>10. ASSUME NEW k \in DOMAIN update, Telling!SendFails(k) PROVE TellingBound'
  <2>1. Telling!Drop /\ \E v : update' = [update EXCEPT ![k] = v]
    BY <1>10, Zenon DEF Telling!SendFails
  <2> QED BY <1>7, <1>9, <2>1 DEF TellingBound
<1>11. ASSUME NEW k \in DOMAIN update, Telling!ConnectFails(k) PROVE TellingBound'
  <2>1. PICK v \in UpdateRecord : v = [update[k] EXCEPT !.i = update[k].i + 1]
    <3>1. update[k] \in UpdateRecord /\ update[k].i < MaxClient /\ update[k].i \in Nat
      BY <1>11, UpdateAt, TransfersAssumption
         DEF Telling!ConnectFails, Telling!Target, UpdateRecord
    <3>2. update[k].i + 1 \in 0 .. MaxClient
      BY <3>1, TransfersAssumption
    <3> QED BY <3>1, <3>2 DEF UpdateRecord
  <2>2. PICK us : us = [update EXCEPT ![k] = v]
    OBVIOUS
  <2>3. us \in Seq(UpdateRecord) /\ Len(us) = Len(update)
    <3>1. k \in 1 .. Len(update)
      BY <1>1, LenProperties
    <3> QED BY <1>1, <2>2, <3>1, ExceptSeq
  <2>4. us = [update EXCEPT ![k].i = @ + 1]
    BY <2>1, <2>2
  <2>5. /\ \E u : update' = Append(Telling!Forget(update[k].i, us), u)
        /\ Len(update) < MaxUpdates /\ Telling!Drop
    BY <1>11, <2>4, Zenon DEF Telling!ConnectFails
  <2>6. Telling!Forget(update[k].i, us) \in Seq(UpdateRecord)
    BY <2>3, ForgetIsSeq
  <2>7. Len(update') = Len(update) + 1
    BY <2>3, <2>5, <2>6, ForgetLength, QueuedLength
  <2> QED BY <1>1, <1>9, <2>5, <2>7 DEF TellingBound
<1>12. ASSUME UNCHANGED Telling!vars PROVE TellingBound'
  BY <1>12 DEF Telling!vars, TellingBound
<1> QED BY <1>3, <1>4, <1>5, <1>6, <1>8, <1>10, <1>11, <1>12, Zenon
        DEF Telling!Next, Telling!sendOneUpdateToAllClient

TalkBound ==
    /\ \A c \in Client : asked[c] <= MaxRequests
    /\ \A m \in Msg : clntMsg[m].token <= MaxRequests

\* There is room for one more packet of a client when there is for one of all clients.
LEMMA RoomForPacket ==
    ASSUME TalkTypeOK, \A c \in Client : asked[c] <= MaxRequests,
           NEW c \in Client, Talk!Ask(c)
    PROVE  asked[c] < MaxRequests
<1> DEFINE Sent == {p \in Client \X (1 .. MaxRequests) : p[2] <= asked[p[1]]}
           Own == {c} \X (1 .. MaxRequests)
<1>1. /\ MaxRequests \in Nat /\ asked[c] \in Nat /\ asked[c] <= MaxRequests
      /\ IsFiniteSet(Client)
  BY TransfersAssumption DEF TalkTypeOK
<1>2. IsFiniteSet(1 .. MaxRequests) /\ Cardinality(1 .. MaxRequests) = MaxRequests
  BY <1>1, FS_Interval
<1>3. IsFiniteSet(Sent)
  <2>1. IsFiniteSet(Client \X (1 .. MaxRequests))
    BY <1>1, <1>2, FS_Product
  <2> QED BY <2>1, FS_Subset
<1>4. Cardinality(Own) = MaxRequests
  <2>1. IsFiniteSet({c}) /\ Cardinality({c}) = 1
    BY FS_Singleton
  <2>2. Cardinality(Own) = Cardinality({c}) * Cardinality(1 .. MaxRequests)
    BY <1>2, <2>1, FS_Product
  <2>3. 1 * MaxRequests = MaxRequests
    BY <1>1
  <2> QED BY <1>2, <2>1, <2>2, <2>3, Zenon
<1>5. Cardinality(Sent) < MaxRequests
  BY SameCardinality DEF Talk!Ask
<1>6. ASSUME asked[c] = MaxRequests PROVE FALSE
  <2>1. Own \subseteq Sent
    BY <1>1, <1>6
  <2>2. Cardinality(Own) <= Cardinality(Sent) /\ Cardinality(Sent) \in Nat
    BY <1>3, <2>1, FS_Subset, FS_CardinalityType
  <2> QED BY <1>1, <1>4, <1>5, <2>2
<1> QED BY <1>1, <1>6

\* A packet that was sent has a number from 1 to MaxRequests.
LEMMA PacketBound ==
    ASSUME TalkInv, TalkBound, NEW c \in Client, NEW k \in DOMAIN unread[c]
    PROVE  unread[c][k] \in Talk!Packet
<1>1. /\ unread[c] \in Seq(PacketRead) /\ asked[c] \in Nat /\ MaxRequests \in Nat
      /\ asked[c] <= MaxRequests
  BY TransfersAssumption DEF TalkInv, HolderInv, TalkTypeOK, TalkBound
<1>2. Len(unread[c]) \in Nat /\ k \in 1 .. Len(unread[c]) /\ unread[c][k] \in PacketRead
  BY <1>1, LenProperties, ElementOfSeq
<1>3. Len(unread[c]) <= asked[c] /\ unread[c][k].number = asked[c] - Len(unread[c]) + k
  BY DEF TalkInv, OrderInv, Numbered, Read
<1>4. unread[c][k].number \in 1 .. MaxRequests
  <2>1. PICK a \in Nat : a = asked[c]
    BY <1>1
  <2>2. PICK l \in Nat : l = Len(unread[c])
    BY <1>2
  <2>3. k \in 1 .. l /\ l <= a /\ a <= MaxRequests
    BY <1>1, <1>2, <1>3, <2>1, <2>2
  <2>4. a - l + k \in 1 .. MaxRequests
    BY <1>1, <2>3
  <2> QED BY <1>3, <2>1, <2>2, <2>4
<1> QED BY <1>2, <1>4 DEF PacketRead, Talk!Packet

LEMMA ReceiveBound ==
    ASSUME TalkInv, TalkBound, NEW w \in Worker, Talk!Receive(w) PROVE TalkBound'
<1> DEFINE m == job[w]
           c == peer[clntMsg[m].fd]
           p == Head(unread[c])
<1>1. /\ jobPc[w] = "receive" /\ unread[c] # <<>> /\ asked' = asked
      /\ clntMsg' = [clntMsg EXCEPT ![m].token = p.number, ![m].isLast = p.isLast,
                                    ![m].payLoad = p.hasPayLoad \/ @]
  BY DEF Talk!Receive
<1>2. m \in Msg /\ clntMsg[m] \in Content /\ c \in Client
  BY <1>1, LiveHeld, LiveTypes DEF TalkInv
<1> HIDE DEF c
<1>3. unread[c] \in Seq(PacketRead) /\ unread[c] # <<>>
  BY <1>1, <1>2 DEF TalkInv, HolderInv, TalkTypeOK
<1> HIDE DEF m, p
<1>4. clntMsg \in [Msg -> Content] /\ asked' = asked
  BY <1>1 DEF TalkInv, HolderInv, TalkTypeOK
<1>5. clntMsg'[m].token = p.number /\ \A n \in Msg \ {m} : clntMsg'[n] = clntMsg[n]
  BY <1>1, <1>2, <1>4 DEF Content
<1>6. p.number <= MaxRequests
  <2>1. 1 \in DOMAIN unread[c] /\ p = unread[c][1]
    BY <1>3, LenProperties, EmptySeq, HeadTailProperties DEF p
  <2>2. p \in Talk!Packet
    BY <1>2, <2>1, PacketBound
  <2> QED BY <2>2, TransfersAssumption DEF Talk!Packet
<1>7. \A n \in Msg : clntMsg'[n].token <= MaxRequests
  BY <1>5, <1>6 DEF TalkBound
<1> QED BY <1>4, <1>7 DEF TalkBound

LEMMA TalkBoundStep ==
    ASSUME TalkInv, TalkBound, [Talk!Next]_TalkVars PROVE TalkBound'
<1> USE DEF Talk!clientVars, Talk!heapVars, Talk!jobVars, Talk!rmVars
<1>1. clntMsg \in [Msg -> Content] /\ asked \in [Client -> Nat] /\ MaxRequests \in Nat
  BY TransfersAssumption DEF TalkInv, HolderInv, TalkTypeOK
<1>2. ASSUME UNCHANGED <<asked, clntMsg>> PROVE TalkBound'
  BY <1>2 DEF TalkBound
<1>3. ASSUME NEW c \in Client, Talk!Accept(c) PROVE TalkBound'
  <2>1. asked' = asked
    BY <1>3 DEF Talk!Accept
  <2>2. PICK f \in Fd, m \in Msg : clntMsg' = [clntMsg EXCEPT ![m].fd = f, ![m].payLoad = FALSE]
    BY <1>3 DEF Talk!Accept
  <2>3. \A n \in Msg : clntMsg'[n].token = clntMsg[n].token
    BY <1>1, <2>2 DEF Content
  <2> QED BY <2>1, <2>3 DEF TalkBound
<1>4. ASSUME NEW c \in Client, Talk!Ask(c) PROVE TalkBound'
  <2>1. asked[c] < MaxRequests
    BY <1>4, RoomForPacket DEF TalkInv, HolderInv, TalkBound
  <2>2. asked' = [asked EXCEPT ![c] = asked[c] + 1] /\ clntMsg' = clntMsg
    BY <1>4 DEF Talk!Ask
  <2> QED BY <1>1, <2>1, <2>2 DEF TalkBound
<1>5. ASSUME NEW w \in Worker, Talk!TakeJob(w) \/ Talk!ReceiveFails(w) \/ Talk!Free(w) \/ Talk!Post(w)
      PROVE  TalkBound'
  BY <1>2, <1>5
     DEF Talk!TakeJob, Talk!ReceiveFails, Talk!Free, Talk!Post, Talk!freeClientMsg
<1>6. ASSUME Talk!RmTake \/ Talk!SendAnswer \/ Talk!SendAnswerFails \/ Talk!CloseLast \/ Talk!FreeLast
      PROVE  TalkBound'
  BY <1>2, <1>6
     DEF Talk!RmTake, Talk!SendAnswer, Talk!SendAnswerFails, Talk!CloseLast, Talk!FreeLast,
         Talk!freeClientMsg
<1>7. ASSUME Talk!ReadNext PROVE TalkBound'
  <2>1. rmPc = "sent" /\ clntMsg' = Talk!Cleared(rmMsg) /\ asked' = asked
    BY <1>7 DEF Talk!ReadNext
  <2>2. rmMsg \in Msg
    BY <2>1, RmHas DEF TalkInv
  <2>3. clntMsg'[rmMsg].token = 0 /\ \A n \in Msg \ {rmMsg} : clntMsg'[n] = clntMsg[n]
    BY <1>1, <2>1, <2>2, ClearedType
  <2> QED BY <1>1, <2>1, <2>3 DEF TalkBound
<1>8. ASSUME UNCHANGED TalkVars PROVE TalkBound'
  BY <1>2, <1>8 DEF TalkVars
<1> QED BY <1>3, <1>4, <1>5, <1>6, <1>7, <1>8, ReceiveBound
        DEF Talk!Next, Talk!handleClient, Talk!RmStep

-----------------------------------------------------------------------------
(* The types of the modules, with their bounds.                             *)

LEMMA ListType == ASSUME ListInv, ListBound PROVE List!TypeOK
<1>1. PICK s \in Seq(Node) : Links(s)
  BY DEF ListInv
<1>2. Len(s) \in Nat /\ (\A k \in 1 .. Len(s) : s[k] \in Node) /\ (s = <<>> <=> Len(s) = 0)
  BY LenProperties, ElementOfSeq, EmptySeq
<1>3. used \subseteq Node /\ last \in Node \cup {NULL}
  BY <1>1, <1>2 DEF Links
<1>4. first \in Node \cup {NULL}
  BY <1>1, <1>2 DEF Links, List!IsWalk
<1>5. totalNode \in 0 .. MaxTotal
  BY TransfersAssumption DEF ListInv, ListTypes, ListBound
<1> QED BY <1>3, <1>4, <1>5 DEF ListInv, ListTypes, List!TypeOK

LEMMA TellingType == ASSUME UpdatesInv, TellingBound PROVE Telling!TypeOK
<1> SUFFICES ASSUME NEW k \in DOMAIN update PROVE Telling!Message(update[k])
  BY DEF UpdatesInv, TellingBound, Telling!TypeOK
<1>1. PICK u \in UpdateRecord : u = update[k]
  BY UpdateAt
<1>2. /\ DOMAIN u = {"msg", "i", "nth", "sent", "what", "from", "token", "audience"}
      /\ u.i \in 0 .. MaxClient /\ u.from \in Telling!ClientId
      /\ u.audience \subseteq Telling!ClientId
      /\ u.msg \in MsgData /\ u.sent \in Seq(SentPacket)
  BY DEF UpdateRecord
<1>3. DOMAIN u.msg = {"header", "payLoad"} /\ u.msg.header.clntId \in Telling!ClientId
  BY <1>2 DEF MsgData, HeaderData
<1>4. \A n \in DOMAIN u.sent : u.sent[n].to \in Telling!ClientId
  <2> TAKE n \in DOMAIN u.sent
  <2>1. u.sent[n] \in SentPacket
    BY <1>2, LenProperties, ElementOfSeq
  <2> QED BY <2>1 DEF SentPacket
<1>5. Telling!Message(u)
  BY <1>2, <1>3, <1>4, Zenon DEF Telling!Message
<1> QED BY <1>1, <1>5, Zenon

LEMMA TalkType == ASSUME TalkInv, TalkBound PROVE Talk!TypeOK
<1>1. TalkTypeOK /\ MaxRequests \in Nat
  BY TransfersAssumption DEF TalkInv, HolderInv
<1>2. unread \in [Client -> Seq(Talk!Packet)]
  <2>1. ASSUME NEW c \in Client PROVE unread[c] \in Seq(Talk!Packet)
    <3>1. Len(unread[c]) \in Nat /\ DOMAIN unread[c] = 1 .. Len(unread[c])
          /\ unread[c] \in [1 .. Len(unread[c]) -> PacketRead]
      BY <1>1, LenProperties DEF TalkTypeOK
    <3>2. unread[c] \in [1 .. Len(unread[c]) -> Talk!Packet]
      BY <3>1, PacketBound
    <3> QED BY <3>1, <3>2, FunctionIsSeq
  <2> QED BY <1>1, <2>1 DEF TalkTypeOK
<1>3. asked \in [Client -> 0 .. MaxRequests]
  BY <1>1 DEF TalkTypeOK, TalkBound
<1>4. answers \in [Client -> Seq(0 .. MaxRequests)]
  <2>1. ASSUME NEW c \in Client PROVE answers[c] \in Seq(0 .. MaxRequests)
    <3>1. /\ Len(answers[c]) \in Nat /\ DOMAIN answers[c] = 1 .. Len(answers[c])
          /\ answers[c] \in [1 .. Len(answers[c]) -> Nat]
      BY <1>1, LenProperties DEF TalkTypeOK
    <3>2. Len(unread[c]) \in Nat /\ asked[c] \in 0 .. MaxRequests
      BY <1>1, <1>3, LenProperties DEF TalkTypeOK
    <3>3. \A k \in 1 .. Len(answers[c]) : answers[c][k] \in 0 .. MaxRequests
      <4> TAKE k \in 1 .. Len(answers[c])
      <4>1. answers[c][k] \in Nat /\ answers[c][k] <= asked[c] - Len(unread[c])
        BY <3>1 DEF TalkInv, OrderInv, AnswersInOrder, Read
      <4>2. PICK a \in Nat : a = answers[c][k]
        BY <4>1
      <4>3. PICK l \in Nat : l = Len(unread[c])
        BY <3>2
      <4>4. PICK n \in 0 .. MaxRequests : n = asked[c]
        BY <3>2
      <4>5. a <= n - l
        BY <4>1, <4>2, <4>3, <4>4
      <4>6. a \in 0 .. MaxRequests
        BY <1>1, <4>5
      <4> QED BY <4>2, <4>6
    <3>4. answers[c] \in [1 .. Len(answers[c]) -> 0 .. MaxRequests]
      BY <3>1, <3>3
    <3> QED BY <3>1, <3>4, FunctionIsSeq
  <2> QED BY <1>1, <2>1 DEF TalkTypeOK
<1>5. clntMsg \in [Msg -> Talk!MsgContent]
  <2>1. ASSUME NEW m \in Msg PROVE clntMsg[m] \in Talk!MsgContent
    <3>1. clntMsg[m] \in Content /\ clntMsg[m].token <= MaxRequests
      BY <1>1 DEF TalkTypeOK, TalkBound
    <3>2. clntMsg[m].token \in 0 .. MaxRequests
      BY <1>1, <3>1 DEF Content
    <3> QED BY <3>1, <3>2 DEF Content, Talk!MsgContent
  <2> QED BY <1>1, <2>1 DEF TalkTypeOK
<1>6. payLoads \in Nat
  BY LoadedFinite DEF TalkInv, PayLoadInv, PayLoadsOwned
<1> QED BY <1>1, <1>2, <1>3, <1>4, <1>5, <1>6 DEF TalkTypeOK, Talk!TypeOK

-----------------------------------------------------------------------------
(* The run.                                                                 *)

\* A behaviour of the run is one of each part: a step of one part is a step of it, and
\* changes nothing of the others.
LEMMA PartsBehave ==
    TransfersSpec =>
        List!Spec /\ Telling!Spec /\ Talk!Spec /\ Slots!DroppingSpec /\ Spec
<1> DEFINE allVars == <<part, listVars, updateVars, talkVars, slotsVars, vars>>
<1>1. TransfersInit =>
          List!Init /\ Telling!Init /\ Talk!Init /\ Slots!DroppingInit /\ Init
  BY DEF TransfersInit
<1>2. [TransfersNext]_allVars => [List!Next]_(List!vars)
  BY DEF TransfersNext, listVars, List!vars, List!heapVars
<1>3. [TransfersNext]_allVars => [Telling!Next]_(Telling!vars)
  BY DEF TransfersNext, updateVars, Telling!vars
<1>4. [TransfersNext]_allVars => [Talk!Next]_(Talk!vars)
  BY DEF TransfersNext, talkVars, Talk!vars, Talk!clientVars, Talk!heapVars, Talk!jobVars,
         Talk!rmVars
<1>5. [TransfersNext]_allVars => [Next]_vars
  BY DEF TransfersNext
<1>6. [TransfersNext]_allVars => [Slots!DroppingNext]_(Slots!dropVars)
  BY DEF TransfersNext, slotsVars, Slots!dropVars, Slots!dbVars, Slots!rmVars, Slots!callVars,
         Slots!boundVars
<1> QED BY <1>1, <1>2, <1>3, <1>4, <1>5, <1>6, PTL
        DEF TransfersSpec, List!Spec, Telling!Spec, Talk!Spec, Slots!DroppingSpec, Spec

\* Every variable keeps its type in each of the parts, as long as the bounds named in the
\* modules are kept to; no packet, answer or update gets a number outside them.
THEOREM TransfersTypeCorrect == TransfersSpec => []TransfersTypeOK
<1>1. List!Spec => []List!TypeOK
  <2>1. List!Init => ListBound
    BY TransfersAssumption DEF List!Init, ListBound
  <2>2. ListInv /\ ListBound => List!TypeOK
    BY ListType
  <2>3. ListInv /\ ListBound /\ [List!Next]_(List!vars) => ListBound'
    BY ListBoundStep
  <2> QED BY <2>1, <2>2, <2>3, ListInvAlways, PTL DEF List!Spec
<1>2. Telling!Spec => []Telling!TypeOK
  <2>1. Telling!Init => TellingBound
    BY TransfersAssumption, EmptySeq DEF Telling!Init, TellingBound
  <2>2. UpdatesInv /\ TellingBound => Telling!TypeOK
    BY TellingType
  <2>3. UpdatesInv /\ TellingBound /\ [Telling!Next]_(Telling!vars) => TellingBound'
    BY TellingBoundStep
  <2> QED BY <2>1, <2>2, <2>3, UpdatesSafe, PTL DEF Telling!Spec
<1>3. Talk!Spec => []Talk!TypeOK
  <2>1. Talk!Init => TalkBound
    BY TransfersAssumption DEF Talk!Init, TalkBound
  <2>2. TalkInv /\ TalkBound => Talk!TypeOK
    BY TalkType
  <2>3. TalkInv /\ TalkBound /\ [Talk!Next]_TalkVars => TalkBound'
    BY TalkBoundStep
  <2>4. [Talk!Next]_(Talk!vars) => [Talk!Next]_TalkVars
    BY DEF TalkVars, Talk!vars, Talk!clientVars, Talk!heapVars, Talk!jobVars, Talk!rmVars
  <2> QED BY <2>1, <2>2, <2>3, <2>4, TalkSafe, PTL DEF Talk!Spec
<1>4. FileInv => TypeOK
  BY DEF FileInv
<1>5. SlotsInv => Slots!DroppingTypeOK
  BY DEF SlotsInv, DroppingInv
<1>6. List!TypeOK /\ Telling!TypeOK /\ Talk!TypeOK /\ Slots!DroppingTypeOK /\ TypeOK =>
         TransfersTypeOK
  BY DEF TransfersTypeOK
<1> QED BY <1>1, <1>2, <1>3, <1>4, <1>5, <1>6, FilesSafe, SlotsSafe, PartsBehave, PTL

\* What is proved of each part holds of them all together, in every behaviour that the run
\* transfers explores a bounded part of.
THEOREM TransfersAreSafe ==
    TransfersSpec =>
        /\ [](NoNodeIsLost /\ EveryoneElseIsTold /\ PacketsArrive)
        /\ [](ConnectionsAreOwned /\ AnswersFollowRequests)
        /\ [](DescriptorsAreClosed /\ ReadyFileIsSong)
        /\ [](OneAnswerIsAwaited /\ OnlyStaleClearsHurt)
        /\ ImplementsSeqList
<1> QED
  BY PartsBehave, ListLosesNoNode, ListImplementsSeqList, EveryoneIsTold, PacketsAreRight,
     ConnectionStaysOwned, AnswersComeInOrder, DescriptorsAreGivenBack, ReadyFileIsRight,
     OneAnswerAwaited, StaleClearsHurt, PTL
==============================================================================

------------------------------ MODULE LinkedList ------------------------------
(***************************************************************************)
(* list.c with its pointers, and the queue and the stack of queue.c over   *)
(* it.  A list is used under a lock of its owner, so every operation is    *)
(* one step.  malloc gives any node that is not in use and succeeds; free  *)
(* leaves the content of a node as it was.  Whether the data is freed is   *)
(* left out, and so is deleteLast, which only listTest.c calls.            *)
(***************************************************************************)
EXTENDS Naturals, Sequences, FiniteSets, SequencesExt

CONSTANTS
    Node,      \* bound: the addresses malloc gives for nodes
    Data,      \* what is put into the list
    NULL,
    MaxTotal   \* bound: what totalNode may reach

VARIABLES
    used,       \* the nodes that are allocated
    next,
    data,
    first,
    last,
    totalNode

heapVars == <<used, next, data>>
vars == <<heapVars, first, last, totalNode>>

TypeOK ==
    /\ used \subseteq Node
    /\ next \in [Node -> Node \cup {NULL}]
    /\ data \in [Node -> Data \cup {NULL}]
    /\ first \in Node \cup {NULL}
    /\ last \in Node \cup {NULL}
    /\ totalNode \in 0 .. MaxTotal

Init ==
    /\ used = {}
    /\ next = [n \in Node |-> NULL]
    /\ data = [n \in Node |-> NULL]
    /\ first = NULL
    /\ last = NULL
    /\ totalNode = 0

\* s leads from first along next to NULL.
IsWalk(s) ==
    /\ first = IF s = <<>> THEN NULL ELSE s[1]
    /\ \A k \in DOMAIN s : next[s[k]] = IF k = Len(s) THEN NULL ELSE s[k + 1]

\* The nodes printList visits, in order.
Walk == CHOOSE s \in SeqOf(Node, Cardinality(Node)) : IsWalk(s)

----------------------------------------------------------------------------
(* The operations of list.c.                                                *)

\* malloc of a node for d, in the heap that links gives.
NewNode(n, d, links) ==
    /\ n \notin used
    /\ totalNode < MaxTotal
    /\ used' = used \cup {n}
    /\ data' = [data EXCEPT ![n] = d]
    /\ next' = links
    /\ totalNode' = totalNode + 1

addLast(d) ==
    \E n \in Node :
        /\ NewNode(n, d, IF first = NULL THEN [next EXCEPT ![n] = NULL]
                         ELSE [next EXCEPT ![n] = NULL, ![last] = n])
        /\ first' = IF first = NULL THEN n ELSE first
        /\ last' = n

addFirst(d) ==
    \E n \in Node :
        /\ NewNode(n, d, [next EXCEPT ![n] = first])
        /\ first' = n
        /\ last' = IF first = NULL THEN n ELSE last

\* Variant: only the last of the nodes is counted down.
deleteFirstCountsOnly ==
    /\ first # NULL
    /\ used' = used \ {first}
    /\ first' = next[first]
    /\ last' = IF next[first] = NULL THEN NULL ELSE last
    /\ totalNode' = IF next[first] = NULL THEN totalNode - 1 ELSE totalNode
    /\ UNCHANGED <<next, data>>

\* Gives the data of the node to the caller.
deleteFirst ==
    /\ first # NULL
    /\ used' = used \ {first}
    /\ first' = next[first]
    /\ last' = IF next[first] = NULL THEN NULL ELSE last
    /\ totalNode' = totalNode - 1
    /\ UNCHANGED <<next, data>>

deleteAllFromList ==
    /\ first # NULL
    /\ used' = used \ Range(Walk)
    /\ first' = NULL
    /\ last' = NULL
    /\ totalNode' = totalNode - Len(Walk)
    /\ UNCHANGED <<next, data>>

\* Node k is the first that func accepts: func is the set of data it returns G_OK for.
FirstAccepted(k, func) ==
    /\ k \in DOMAIN Walk
    /\ data[Walk[k]] \in func
    /\ \A m \in 1 .. k - 1 : data[Walk[m]] \notin func

\* Variant: the node is not freed.
unlinkKeepsNode(temp) ==
    /\ next' = [next EXCEPT ![temp] = IF next[temp] = last THEN NULL ELSE next[next[temp]]]
    /\ last' = IF next[temp] = last THEN temp ELSE last
    /\ UNCHANGED <<used, first, data, totalNode>>

\* Unlinks the node behind temp, which is not the first; totalNode stays.
unlink(temp) ==
    /\ used' = used \ {next[temp]}
    /\ next' = [next EXCEPT ![temp] = IF next[temp] = last THEN NULL ELSE next[next[temp]]]
    /\ last' = IF next[temp] = last THEN temp ELSE last
    /\ UNCHANGED <<first, data, totalNode>>

deleteOneFromListHaving(func) ==
    \E k \in DOMAIN Walk :
        /\ FirstAccepted(k, func)
        /\ IF k = 1 THEN deleteFirst ELSE unlink(Walk[k - 1])

----------------------------------------------------------------------------
(* Queues and stacks of queue.c, and the other callers of list.c.           *)

enqueue(d) == addLast(d)
push(d) == addFirst(d)
dequeue == deleteFirst
pop == deleteFirst

Next ==
    \/ \E d \in Data : enqueue(d)
    \/ \E d \in Data : push(d)
    \/ dequeue
    \/ pop
    \/ deleteAllFromList
    \/ \E func \in SUBSET Data : deleteOneFromListHaving(func)

Spec == Init /\ [][Next]_vars

----------------------------------------------------------------------------
(* What has to hold.                                                        *)

\* Every sequence of operations leaves a list that is the sequence its users take it
\* for, with the count they read (the deletion of a later node does not count).
Abstract ==
    INSTANCE SeqList WITH items <- [k \in DOMAIN Walk |-> data[Walk[k]]], count <- totalNode
ImplementsSeqList == Abstract!Spec

\* No node is lost and none is freed while the list leads to it: what is allocated is what
\* a walk from first finds (list.c:127, 247-254).
NoNodeIsLost == used = Range(Walk)
=============================================================================

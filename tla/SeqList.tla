------------------------------- MODULE SeqList -------------------------------
(***************************************************************************)
(* A linked list as its users know it: the sequence of what was put into   *)
(* it, and the node count they read.  PlayList, ThreadPool and Inbox use   *)
(* lists in this form.                                                     *)
(***************************************************************************)
EXTENDS Naturals, Sequences, SequencesExt

CONSTANT Data  \* what callers put into lists

VARIABLES
    items,  \* the data of the list, first node first
    count   \* totalNode

listVars == <<items, count>>

Init == items = <<>> /\ count = 0

Add(d) ==
    /\ items' \in {Append(items, d), Cons(d, items)}
    /\ count' = count + 1

RemoveHead ==
    /\ items # <<>>
    /\ items' = Tail(items)
    /\ count' = count - 1

\* The count stays as it was.
RemoveLater ==
    /\ \E k \in 2 .. Len(items) : items' = RemoveAt(items, k)
    /\ UNCHANGED count

\* The count goes down by as many nodes as there were.
Clear ==
    /\ items' = <<>>
    /\ count' = count - Len(items)

Next == RemoveHead \/ RemoveLater \/ Clear \/ \E d \in Data : Add(d)

Spec == Init /\ [][Next]_listVars
=============================================================================

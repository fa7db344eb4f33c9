----------------------------- MODULE StreamList -----------------------------
(***************************************************************************)
(* The stream configuration as the users of the HTTP API understand it: a   *)
(* list that creation and import extend at the end, and in which update and *)
(* delete act on the first entry with the given id and on nothing else.     *)
(***************************************************************************)
EXTENDS Integers, Sequences

CONSTANT Entry         \* stream configurations: records with a field id

VARIABLE list

Init == list \in Seq(Entry)

\* Create and import.
Extend(es) == list' = list \o es

IsFirst(i, id) == i \in 1..Len(list) /\ list[i].id = id /\ \A j \in 1..(i - 1) : list[j].id # id

Replace(e) == \E i \in 1..Len(list) : IsFirst(i, e.id) /\ list' = [list EXCEPT ![i] = e]

Remove(id) ==
    \E i \in 1..Len(list) :
        IsFirst(i, id) /\ list' = SubSeq(list, 1, i - 1) \o SubSeq(list, i + 1, Len(list))

Next ==
    \/ \E e \in Entry : Extend(<<e>>) \/ Replace(e) \/ Remove(e.id)
    \/ \E e, f \in Entry : Extend(<<e, f>>)

Spec == Init /\ [][Next]_list
=============================================================================

----------------------------- MODULE OrderedSet -----------------------------
(***************************************************************************)
(* The orderedSet of ip_controller.go: a linked list with an index, used   *)
(* for the two queues of the IP controller.  The list and the index always *)
(* hold the same elements, so a sequence without repetitions stands for    *)
(* both.                                                                   *)
(***************************************************************************)
EXTENDS Naturals, Sequences

Elements(o) == {o[i] : i \in DOMAIN o}

\* No element occurs twice: what the index map of orderedSet enforces.
Unique(o) == \A i, j \in DOMAIN o : o[i] = o[j] => i = j

IsSet(o, v) == v \in Elements(o)

\* The sequence without position k.
Without(o, k) == [i \in 1 .. Len(o) - 1 |-> IF i < k THEN o[i] ELSE o[i + 1]]

Delete(o, v) ==
    IF IsSet(o, v) THEN Without(o, CHOOSE k \in DOMAIN o : o[k] = v) ELSE o

\* Add(v, true): a new element is pushed to the front, a known one moves there.
AddFront(o, v) == <<v>> \o Delete(o, v)

\* Mutant: the index is not consulted.
AddBackAgain(o, v) == Append(o, v)

\* Add(v, false): a new element is pushed to the back, a known one stays put.
AddBack(o, v) == IF IsSet(o, v) THEN o ELSE Append(o, v)
=============================================================================

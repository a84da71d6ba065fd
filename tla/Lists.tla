------------------------------- MODULE Lists -------------------------------
(***************************************************************************)
(* A struct list_head queue as the sequence of its entries.  An entry is   *)
(* on a list at most once, so list_del(entry) is Without(list, entry).     *)
(***************************************************************************)
EXTENDS Integers, Sequences

Elements(s) == {s[i] : i \in DOMAIN s}

Distinct(s) == \A i, j \in DOMAIN s : s[i] = s[j] => i = j

Position(s, e) == CHOOSE i \in DOMAIN s : s[i] = e

\* s without its entry e.
Without(s, e) == SubSeq(s, 1, Position(s, e) - 1) \o SubSeq(s, Position(s, e) + 1, Len(s))

=============================================================================

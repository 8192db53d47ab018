-------------------------------- MODULE Lists --------------------------------
(***************************************************************************)
(* The linked lists of include/vhttp/linklist.h as sequences: what is in one, *)
(* in which order, and what is left of it when entries are unlinked.       *)
(***************************************************************************)
EXTENDS Integers, Sequences, FiniteSets

Elements(s) == {s[i] : i \in DOMAIN s}

\* no entry is linked twice
Distinct(s) == \A i, j \in DOMAIN s : s[i] = s[j] => i = j

\* x is linked before y
Before(s, x, y) == \E i, j \in DOMAIN s : i < j /\ s[i] = x /\ s[j] = y

\* the position that entry i of s has once those of gone are unlinked
Kept(s, gone) == {i \in DOMAIN s : s[i] \notin gone}
Rank(s, gone, i) == Cardinality({j \in Kept(s, gone) : j <= i})

\* vhttp_linklist_unlink of every member of gone
Without(s, gone) ==
    [k \in 1 .. Cardinality(Kept(s, gone)) |->
        s[CHOOSE i \in Kept(s, gone) : Rank(s, gone, i) = k]]
==============================================================================

------------------------------- MODULE Lists --------------------------------
(***************************************************************************)
(* The linked lists of code-exp7 (include/list.h), as sequences.           *)
(***************************************************************************)
EXTENDS Naturals, Sequences

\* The list without the elements that are not in S: list_for_each_entry_safe with
\* list_delete_entry.  kept[k] is what is left of the first k elements.
Kept(s, S) ==
  LET kept[k \in 0..Len(s)] ==
        IF k = 0 THEN <<>>
        ELSE IF s[k] \in S THEN Append(kept[k - 1], s[k]) ELSE kept[k - 1]
  IN  kept[Len(s)]
=============================================================================

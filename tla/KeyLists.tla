------------------------------ MODULE KeyLists ------------------------------
(***************************************************************************)
(* Lists of keys: what a sequence model's commands do to the model's list  *)
(* (adobe/sequence_model.hpp) and what its messages do to a widget's       *)
(* (test/sequence_model/main.cpp).                                         *)
(***************************************************************************)
EXTENDS Naturals, Sequences, SequencesExt

\* Where a key is, in the model by iterator_for, in a widget by find; a key
\* that is not there, nkey above all, stands for the end.
iterator_for(list, key) ==
    IF \E i \in DOMAIN list : list[i] = key
    THEN CHOOSE i \in DOMAIN list : list[i] = key
    ELSE Len(list) + 1

InsertBefore(list, before, keys) ==
    LET at == iterator_for(list, before)
    IN SubSeq(list, 1, at - 1) \o keys \o SubSeq(list, at, Len(list))

\* The list when the keys in gone have been erased from it.
Without(list, gone) ==
    LET kept[n \in 0..Len(list)] ==
            IF n = 0 THEN <<>>
            ELSE IF list[n] \in gone THEN kept[n - 1] ELSE Append(kept[n - 1], list[n])
    IN kept[Len(list)]

\* What a widget's list becomes when it is told m.
Told(m, list) ==
    CASE m.what = "extend_set" -> InsertBefore(list, m.before, m.keys)
      [] m.what = "erase" -> Without(list, m.keys)
      [] m.what = "clear" -> <<>>
      [] OTHER -> list

\* The values at the addresses when `values` have been put at `keys`.
Placed(value, keys, values) ==
    [k \in DOMAIN value |-> IF k \in ToSet(keys) THEN values[iterator_for(keys, k)]
                            ELSE value[k]]
===============================================================================

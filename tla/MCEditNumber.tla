----------------------------- MODULE MCEditNumber -----------------------------
(* Two units of one cell, one of them coarse and with the narrower limit, and *)
(* one unit of another cell that has no limits.                               *)
EXTENDS EditNumber
MCDelta == {2}
MCUnit ==
    [fine   |-> [base_unit |-> "length", scale |-> 1, offset |-> 0, increment |-> 1,
                 format |-> 1, min_value |-> 0, max_value |-> 3],
     coarse |-> [base_unit |-> "length", scale |-> 2, offset |-> 1, increment |-> 1,
                 format |-> 1, min_value |-> unset, max_value |-> 2],
     pixels |-> [base_unit |-> "size", scale |-> 1, offset |-> 0, increment |-> 1,
                 format |-> 2, min_value |-> unset, max_value |-> unset]]
===============================================================================

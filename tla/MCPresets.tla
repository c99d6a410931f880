------------------------------ MODULE MCPresets ------------------------------
(* Two cells of two settings; one default category with two presets,          *)
(* of which the second is larger; one additional and one importable category. *)
EXTENDS Presets, TLC
CONSTANTS a, b, c1, c2, on, off
MCCell == {c1, c2}
MCSetting == {on, off}
One == {a}
MCDefault == <<<<c1 :> on, (c1 :> on) @@ (c2 :> off)>>>>
MCAdditional == {<<>>, <<<<c2 :> on>>>>}
MCImport == {<<<<c1 :> off>>>>}
===============================================================================

------------------------------ MODULE MCRelayout ------------------------------
(* Two windows of one sheet.  The first has two panels, on both cells, the    *)
(* second a panel and an image; one cell drives both windows.                 *)
EXTENDS Relayout
CONSTANTS w1, w2, c1, c2, p1, p2, p3, i1
MCWindow == {w1, w2}
MCCell == {c1, c2}
MCPanel == {p1, p2, p3}
MCImage == {i1}
MChome == [v \in {p1, p2, p3, i1} |-> IF v \in {p1, p2} THEN w1 ELSE w2]
MCbound == [v \in {p1, p2, p3, i1} |-> IF v \in {p1, p3} THEN c1 ELSE c2]
AllSources == {"controller", "splitter", "button", "reset"}
ButtonSources == {"controller", "button"}
===============================================================================

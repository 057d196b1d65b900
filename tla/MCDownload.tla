----------------------------- MODULE MCDownload -----------------------------
(* Instance of Download for TLC: two requests for one track and a third for *)
(* another, all of which want the only permit.                              *)
EXTENDS Download
CONSTANTS r1, r2, r3, k1, k2
Asked == [r \in {r1, r2, r3} |-> IF r = r3 THEN k2 ELSE k1]
=============================================================================

----------------------------- MODULE MCTagChips -----------------------------
(* A small instance of TagChips: six tags, one of them wider than the      *)
(* narrower screen; on the wider one three chips may fit a line.              *)
EXTENDS TagChips

MCWidth == <<2, 2, 2, 1, 6, 3>>
MCInputs == {{1, 4}, {2, 6}, {3, 5}}
MCGiven == {<<>>, <<3, 4>>, <<1, 2, 3, 4, 5, 6>>}

=============================================================================

------------------------------- MODULE MCPages -------------------------------
(***************************************************************************)
(* Two pages and one page of results, two of each thing to look at, three  *)
(* divisions and positions to change between quickly, and pages of one     *)
(* role, of which there are two.                                           *)
(***************************************************************************)
EXTENDS Pages

CONSTANTS all, some, v1, v2, bad, home, other

MCQuery   == {all, some}
MCPagesOf == [q \in Query |-> IF q = all THEN 2 ELSE 1]
MCValue   == {v1, v2, bad}
MCValid   == {v1, v2}
MCPath    == {home, other}

=============================================================================

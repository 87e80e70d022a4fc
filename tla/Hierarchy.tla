------------------------------- MODULE Hierarchy -------------------------------
(***************************************************************************)
(* The recursive queries over divisions.parent_id.  parent maps a division *)
(* to its parent, and a root or an absent division to a value that is no   *)
(* division.  On a forest the queries return these sets; on a cycle their  *)
(* UNION ALL never stops (see Rooted and DivisionTree).                    *)
(***************************************************************************)

\* WITH RECURSIVE subtree: the least set that contains d and, with a division,
\* every division it is the parent of.
Descendants(parent, d) ==
  {x \in DOMAIN parent :
     \A S \in SUBSET DOMAIN parent :
        d \in S /\ (\A y \in DOMAIN parent : parent[y] \in S => y \in S)
          => x \in S}

\* WITH RECURSIVE ancestors: the parent of d, its parent, and so on.
Ancestors(parent, d) ==
  {x \in DOMAIN parent :
     parent[d] \in DOMAIN parent /\ parent[d] \in Descendants(parent, x)}

\* The walk from d upwards ends, at a division whose parent is top.
Rooted(parent, d, top) ==
  \E x \in Ancestors(parent, d) \cup {d} : parent[x] = top

=============================================================================

----------------------------- MODULE MCDemoSeed -----------------------------
(* Two roles, a division below another, a person for each of two positions, *)
(* and three runs of the script.                                            *)
EXTENDS DemoSeed
CONSTANTS root, temp, admin, nothing, r1, r2, d1, d2, p1, p2, t1, t2

MCRoles == <<r1, r2>>
MCDivisions == << [name |-> d1, parent |-> root], [name |-> d2, parent |-> d1] >>
MCPeople == <<p1, p2>>
MCAssignments == << [person |-> p1, division |-> d1, title |-> t1],
                    [person |-> p2, division |-> d2, title |-> t2] >>
=============================================================================

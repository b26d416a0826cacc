---------------------------- MODULE MCPierSession ----------------------------
(* Connections, users and symmetry for the runs of PierSession. *)
EXTENDS PierSession, TLC

CONSTANTS c1, c2, c3, u1, u2

TwoConns == {c1, c2}
ThreeConns == {c1, c2, c3}
TwoUsers == {u1, u2}

\* Connections are interchangeable, and so are users.
Symmetry == {p @@ q : p \in Permutations(Conns), q \in Permutations(Users)}
=============================================================================

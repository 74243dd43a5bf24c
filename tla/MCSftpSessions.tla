---------------------------- MODULE MCSftpSessions ----------------------------
(***************************************************************************)
(* Instances of SftpSessions: two panels, in one tab or in two.             *)
(***************************************************************************)
EXTENDS SftpSessions, TLC

CONSTANTS left, right, tab1, tab2

Anywhere == [Panels -> Tabs]
Apart == (left :> tab1) @@ (right :> tab2)
Together == (left :> tab1) @@ (right :> tab1)
Both == {Apart, Together}

\* Nothing tells panels, tabs or servers apart.  For safety only.
Symmetry == Permutations(Panels) \cup Permutations(Tabs) \cup Permutations(Servers)
=============================================================================

------------------------------ MODULE PanelClaims ------------------------------
(***************************************************************************)
(* A file manager tab's hold on remote filesystems (src/src/fm/claims.ts):  *)
(* one reference in the backend for each filesystem that any of its panels  *)
(* claims.  Pure operators on one tab's record; what they say to the        *)
(* backend is theirs to return.                                            *)
(***************************************************************************)
EXTENDS Naturals, Functions

\* counts: filesystem -> how many claims there are on it.
NoClaims == [disposed |-> FALSE, counts |-> <<>>]

Holds(c, fs) == fs \in DOMAIN c.counts
Claimed(c, fs) == IF Holds(c, fs) THEN c.counts[fs] ELSE 0

\* Mutant of IsSpare: a tab that was closed meanwhile keeps the reference.
IsSpareWhileOpen(c, fs) == Holds(c, fs)
\* Whether a reference that was just taken is one too many and is closed.
IsSpare(c, fs) == c.disposed \/ Holds(c, fs)

\* take: one more claim.
Taken(c, fs) ==
  [c EXCEPT !.counts = [f \in DOMAIN @ \cup {fs} |->
                          IF f = fs THEN Claimed(c, f) + 1 ELSE Claimed(c, f)]]

\* adopt, and claim once the backend has retained: none on a closed tab.
Adopted(c, fs) == IF c.disposed THEN c ELSE Taken(c, fs)

\* Giving a claim back; after dispose it does nothing.
IsLast(c, fs) == Holds(c, fs) /\ c.counts[fs] = 1
GivenBack(c, fs) ==
  IF ~Holds(c, fs) THEN c
  ELSE IF IsLast(c, fs) THEN [c EXCEPT !.counts = Restrict(@, DOMAIN @ \ {fs})]
  ELSE [c EXCEPT !.counts[fs] = @ - 1]

Disposed(c) == [disposed |-> TRUE, counts |-> <<>>]
=============================================================================

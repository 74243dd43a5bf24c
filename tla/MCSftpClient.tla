----------------------------- MODULE MCSftpClient -----------------------------
(***************************************************************************)
(* An instance of SftpClient: one caller lists a folder, one stats files.   *)
(***************************************************************************)
EXTENDS SftpClient

CONSTANTS lister, other

OneLists == (lister :> {"opendir"}) @@ (other :> {"stat"})

\* Attributes with each field known or not, with and without more behind them.
SomeAttrs == [AttrFields -> {None, "known"}]

\* A caller gets the reply to what it asked, and attributes are read from a
\* packet as they were written to it, whatever else it holds; a packet that is
\* cut short is refused and never read half.  (The second does not depend on
\* the state: it is evaluated before the first request.)
RepliesAreRead ==
  /\ RepliesMatch
  /\ nextId = 1 =>
       \A a \in SomeAttrs, rest \in {<<>>, <<"next">>}, extensions \in 0 .. 2 :
         AttrsSurvive(a, rest, extensions)
=============================================================================

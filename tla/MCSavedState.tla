----------------------------- MODULE MCSavedState -----------------------------
(* SavedState on two connections in two folders, and the pure parts of the    *)
(* tabs' snapshots (ClaudeOptions, ProcessTable) on bounded inputs, looked at *)
(* in one state.                                                              *)
EXTENDS SavedState, ClaudeOptions, ProcessTable

Bounds(changes, ends, faults) ==
  "changes" :> changes @@ "tabs" :> 0 @@ "ends" :> ends @@ "others" :> 0 @@ "faults" :> faults
  @@ "seconds" :> 0
TabBounds == [Bounds(0, 3, 1) EXCEPT !["tabs"] = 2, !["others"] = 1, !["seconds"] = 2]

Saved == Content("f1" :> Root @@ "f2" :> "f1", "s1" :> Conn("f2", TRUE, "password"))
Secrets == [s \in Sessions |-> IF s = "s1" THEN "first" ELSE NoSecret]
NoSecrets == [s \in Sessions |-> NoSecret]

Beginning(current, old, secrets, bounds) ==
  [current |-> current, legacy |-> old, keychain |-> secrets, left |-> bounds]

\* Changes of what was saved, or migrated, or of nothing; then tabs.
SomeBeginnings ==
  {Beginning(Saved, Nothing, Secrets, Bounds(2, 2, 0)),
   Beginning(Saved, Nothing, Secrets, Bounds(1, 2, 1)),
   Beginning(Nothing, Saved, Secrets, Bounds(1, 3, 1)),
   Beginning(Nothing, Nothing, NoSecrets, Bounds(1, 2, 1)),
   Beginning(Nothing, Nothing, NoSecrets, TabBounds)}

-----------------------------------------------------------------------------
\* The state the pure parts are looked at in.
Once == legacy # Nothing /\ left = Bounds(1, 3, 1)

\* Options of every kind, with and without values, some of which look like
\* options; the prompt; what is not known.
Tokens ==
  {Word("plain"), Word("quoted"), Hyphen, Stop, Option("-x"),
   Option("--verbose"), OptionWith("--verbose", Word("plain")),
   Option("--model"), OptionWith("--model", Option("-x")),
   Option("--debug"), OptionWith("--debug", Word("plain")), OptionWith("--debug", Option("-x")),
   Option("--tools"), OptionWith("--tools", Option("-x")),
   Option("-p"), OptionWith("-p", Word("plain")), Option("--session-id"), Option("--resume"),
   Option("--file")}
Lines == UNION {[1 .. n -> Tokens] : n \in 0 .. 3}

\* Restoring a Claude session starts it with the options it ran with, each once
\* and with its values, however often it is restored, and drops all that picks a
\* session, leaving nothing unsaid (context.rs resume_args), whether a runtime
\* runs it or not.  An attached value that looks like an option is the exception.
ResumesTheSame ==
  Once =>
    /\ \A args \in Lines : Accounted(args) /\ (ValueLost(args) \/ ResumesAlike(args))
    /\ \A args \in Lines :
         /\ ClaudeArgs(<<Word("claude")>> \o args, FALSE) = args
         /\ ClaudeArgs(<<Word("node"), Option("-x"), Word("plain")>> \o args, TRUE) = args

\* A shell and up to three processes below it, older or younger than their
\* parents, with session files of their own or of an earlier process.
Shell == 1
Others == 2 .. 4
Gone == [kind |-> "gone"]
Lives ==
  {Gone} \cup
  [kind : {"plain", "own", "ownUnix", "stale", "staleUnix", "unsound"}, parent : 1 .. 3, started : {0, 3}]

Sys(lives) ==
  [p \in {Shell} \cup {q \in Others : lives[q] # Gone} |->
     IF p = Shell THEN [parent |-> Nobody, started |-> 3, name |-> "shell", runs |-> "none"]
     ELSE [parent |-> lives[p].parent, started |-> lives[p].started,
           name |-> IF lives[p].kind \in {"plain", "stale"} THEN "shell" ELSE "claude",
           runs |-> IF lives[p].kind \in {"own", "ownUnix", "unsound"} THEN ToString(p) ELSE "none"]]

Files(lives) ==
  [p \in {q \in Others : lives[q] # Gone /\ lives[q].kind # "plain"} |->
     LET life == lives[p]
     IN [sound |-> life.kind # "unsound",
         session |-> IF life.kind \in {"stale", "staleUnix"} THEN "old" ELSE ToString(p),
         created |-> CASE life.kind \in {"own", "unsound"} -> life.started + 1
                       [] life.kind = "stale" -> life.started - 2
                       [] OTHER -> Unknown,
         began |-> IF life.kind = "staleUnix" THEN life.started - 2 ELSE life.started + 1]]

\* A tab's snapshot names the Claude session that runs in its shell, nearest
\* first, and the folder of the shell in front, though ids went to others.
LooksAreTrue ==
  Once =>
    \A lives \in [Others -> Lives] :
      LET sys == Sys(lives)
          files == Files(lives)
          seen == Inspect(sys, files, {Shell, 9})
      IN /\ DOMAIN seen = {Shell}
         /\ LooksTrue(sys, files, Shell) /\ FolderOfTheInnermost(sys, Shell)

\* What a snapshot says of a tab is what ran in it, and what is restored runs
\* as it did.
TabsAreKnown == ResumesTheSame /\ LooksAreTrue
=============================================================================

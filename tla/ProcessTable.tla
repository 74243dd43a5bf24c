---------------------------- MODULE ProcessTable ----------------------------
(***************************************************************************)
(* What the tabs' shells run, from the machine's processes and the files   *)
(* Claude keeps of its sessions (src-tauri/src/context.rs).                *)
(*                                                                         *)
(* sys is a function from the ids of the running processes to their parent *)
(* (an id, which may since have gone to another process), the second they  *)
(* started and their name.  files is a function from ids to session files. *)
(* `runs`, which session a process runs, is not seen by the code.          *)
(***************************************************************************)
EXTENDS Integers, Sequences, SequencesExt, FiniteSets, TLC

CONSTANT MaxDepth  \* MAX_DEPTH; 4 in the code

Nobody == 0
Unknown == -1

\* read_session: a file that is whole, names its process and is of a session
\* in a terminal.
Readable(files, pid) == pid \in DOMAIN files /\ files[pid].sound

\* Mutant of WrittenBy: whoever has the id wrote the file.
WrittenByItsId(file, started) == TRUE

\* written_by: by the creation time the file has of its process (Windows), or
\* by when the session started.  Both clocks may be a second apart.
WrittenBy(file, started) ==
  IF file.created # Unknown
    THEN file.created - started \in -1 .. 1
    ELSE file.began # Unknown /\ started <= file.began + 1

\* children: oldest first.  A child is never older than its parent.
IsChild(sys, parent, pid) ==
  /\ sys[pid].parent = parent /\ parent \in DOMAIN sys
  /\ sys[parent].started <= sys[pid].started

Children(sys, parent) ==
  LET older(p, q) == \/ sys[p].started < sys[q].started
                     \/ sys[p].started = sys[q].started /\ p < q
  IN SetToSortSeq({pid \in DOMAIN sys : IsChild(sys, parent, pid)}, older)

\* find_claude: breadth first, so the nearest; Nobody if there is none.
Level(sys, shell) ==
  LET level[depth \in 0 .. MaxDepth] ==
        IF depth = 0 THEN <<shell>>
        ELSE FlattenSeq([k \in DOMAIN level[depth - 1] |-> Children(sys, level[depth - 1][k])])
  IN level

IsClaude(sys, files, pid) ==
  pid \in DOMAIN sys /\ Readable(files, pid) /\ WrittenBy(files[pid], sys[pid].started)

FindClaude(sys, files, shell) ==
  LET queue == FlattenSeq([k \in 1 .. MaxDepth + 1 |-> Level(sys, shell)[k - 1]])
      hit == SelectInSeq(queue, LAMBDA pid : pid # shell /\ IsClaude(sys, files, pid))
  IN IF hit = 0 THEN Nobody ELSE queue[hit]

\* inner_shell: the youngest child of the same name, and so on.
InnerShell(sys, shell) ==
  LET inner[depth \in 0 .. MaxDepth] ==
        IF depth = 0 THEN shell
        ELSE LET current == inner[depth - 1]
                 same == SelectSeq(Children(sys, current),
                                   LAMBDA pid : sys[pid].name = sys[current].name)
             IN IF same = <<>> THEN current ELSE Last(same)
  IN IF shell \in DOMAIN sys THEN inner[MaxDepth] ELSE shell

\* inspect: a tab whose shell is gone is left out.
Inspect(sys, files, shells) ==
  [shell \in shells \cap DOMAIN sys |->
     [inner |-> InnerShell(sys, shell), claude |-> FindClaude(sys, files, shell)]]

\* running_sessions, and started_at.
RunningSessions(sys, files) ==
  {files[pid].session : pid \in {p \in DOMAIN files : IsClaude(sys, files, p)}}

StartedAt(sys, pid) == IF pid \in DOMAIN sys THEN sys[pid].started ELSE Unknown

-----------------------------------------------------------------------------
(* What is true of the processes.                                          *)

\* How many steps below the shell a process is; beyond MaxDepth if it is not.
Below(sys, shell, pid) ==
  LET reached[depth \in 0 .. MaxDepth] ==
        IF depth = 0 THEN {shell}
        ELSE {p \in DOMAIN sys : \E q \in reached[depth - 1] : IsChild(sys, q, p)}
      depths == {depth \in 0 .. MaxDepth : pid \in reached[depth]}
  IN IF depths = {} THEN MaxDepth + 1 ELSE CHOOSE d \in depths : \A e \in depths : d <= e

\* The session a tab is said to run is one that runs there and none is nearer;
\* a session whose process has gone, though its file has stayed and its id has
\* gone to another, is not said to run; and where one runs, one is found.
LooksTrue(sys, files, shell) ==
  LET said == FindClaude(sys, files, shell)
      runners == {p \in DOMAIN sys \ {shell} : /\ sys[p].runs # "none" /\ Readable(files, p)
                                              /\ Below(sys, shell, p) <= MaxDepth}
  IN /\ said = Nobody <=> runners = {}
     /\ said # Nobody => /\ said \in runners /\ files[said].session = sys[said].runs
                         /\ \A p \in runners : Below(sys, shell, said) <= Below(sys, shell, p)
     /\ RunningSessions(sys, files) =
          {sys[p].runs : p \in {q \in DOMAIN sys : sys[q].runs # "none" /\ Readable(files, q)}}

\* The folder of a tab is that of the innermost shell of its kind.
FolderOfTheInnermost(sys, shell) ==
  LET inner == InnerShell(sys, shell)
  IN /\ sys[inner].name = sys[shell].name /\ Below(sys, shell, inner) <= MaxDepth
     /\ Below(sys, shell, inner) < MaxDepth =>
          ~\E p \in DOMAIN sys : IsChild(sys, inner, p) /\ sys[p].name = sys[shell].name
=============================================================================

----------------------------- MODULE SftpSessions -----------------------------
(***************************************************************************)
(* The open SFTP filesystems (src-tauri/src/sftp/commands.rs), the mounts   *)
(* that outlive their connections (vfs/mount.rs), the SSH connections they  *)
(* share with terminals (connections.rs), and who uses them: the panels of  *)
(* file manager tabs (claims.ts, panel-view.ts) and transfer jobs.          *)
(*                                                                         *)
(* An action is what a thread does between two awaits, or under one lock.   *)
(* Leases and sessions are dropped by their owners' destructors, so which   *)
(* connections are in use follows from the rest of the state (InUse).       *)
(*                                                                         *)
(* A definition whose comment begins "Mutant" is not part of the           *)
(* specification: put in place of the definition it names, it is a bug     *)
(* that the property it names must notice.                                 *)
(***************************************************************************)
EXTENDS PanelClaims, Sequences, FiniteSets

CONSTANTS
  Servers,
  Panels, Tabs,
  Layouts,       \* which panels may be in which tabs: a set of functions
  Jobs,          \* transfer jobs and edited files
  MaxLogins,     \* bound: SSH connections
  MaxMounts,     \* bound: filesystems opened
  MaxSessions,   \* bound: SFTP sessions started
  MaxMoves,      \* bound: what users ask for
  MaxEnds        \* bound: connections lost and SFTP sessions ended by servers

ASSUME SessionsAssumption ==
  /\ Layouts \subseteq [Panels -> Tabs]
  /\ IsFiniteSet(Panels) /\ IsFiniteSet(Tabs) /\ IsFiniteSet(Jobs)
  /\ MaxLogins \in Nat /\ MaxMounts \in Nat /\ MaxSessions \in Nat /\ MaxMoves \in Nat /\ MaxEnds \in Nat

VARIABLES
  tabOf,      \* the tab of each panel, which never changes
  conns,      \* SSH connections so far, the server of each; their index is their id
  up,         \* the connections that are up
  terminals,  \* the connections an SSH tab uses
  mounts,     \* mounts so far: connection and state of the session, and the flag
  opened,     \* SftpSessions: filesystem -> its mount and how many use it
  claims,     \* per tab, see PanelClaims
  held,       \* per panel: the filesystem it shows
  op,         \* per panel: what it is about to show
  rec,        \* per tab: the reconnect it asked for
  jobs,       \* per job: the mount it works on, and whether it counts as a user
  closes,     \* sftp_close calls on their way: filesystem -> how many
  sessions, moves, ends  \* counted, for the bounds

vars == <<tabOf, conns, up, terminals, mounts, opened, claims, held, op, rec, jobs,
          closes, sessions, moves, ends>>

None == 0
Ids == 1 .. MaxLogins   \* of connections; "sftp:<id>" is named by it, too
Fs == Ids
LocalFs == None

Idle == [pc |-> "idle", fs |-> None, live |-> None, mount |-> None, lease |-> None]
NoJob == [pc |-> "idle", fs |-> None, mount |-> None, counted |-> FALSE]

Init ==
  /\ tabOf \in Layouts
  /\ conns = <<>> /\ up = {} /\ terminals = {}
  /\ mounts = <<>>
  /\ opened = <<>>
  /\ claims = [t \in Tabs |-> IF \E p \in Panels : tabOf[p] = t THEN NoClaims ELSE Disposed(NoClaims)]
  /\ held = [p \in Panels |-> LocalFs]
  /\ op = [p \in Panels |-> Idle]
  /\ rec = [t \in Tabs |-> Idle]
  /\ jobs = [j \in Jobs |-> NoJob]
  /\ closes = [f \in Fs |-> 0]
  /\ sessions = 0 /\ moves = 0 /\ ends = 0

-----------------------------------------------------------------------------
(* Connections: leases, and what hangs up a connection.                     *)

IsOpen(fs) == fs \in DOMAIN opened
MountOf(fs) == opened[fs].mount

LiveMounts == {MountOf(f) : f \in DOMAIN opened} \cup {op[p].mount : p \in Panels}
              \cup {rec[t].mount : t \in Tabs} \cup {jobs[j].mount : j \in Jobs}

\* ConnectionLease: terminals, sessions and commands under way hold one.
InUse(c) ==
  \/ c \in terminals
  \/ \E m \in LiveMounts \ {None} : mounts[m].conn = c
  \/ \E p \in Panels : op[p].lease = c
  \/ \E t \in Tabs : rec[t].lease = c

\* release: the last lease hangs up.  To be conjoined where InUse' is known.
HangUp(candidates) == up' = {c \in candidates : InUse(c)'}

\* attach_if: a connection that is known and up.
Attachable(c) == c \in up

\* connect, at its end: a new connection, under a new id.
LogIn(server) ==
  /\ Len(conns) < MaxLogins
  /\ conns' = Append(conns, server)
NewConn == Len(conns) + 1

HasEnded(m) == mounts[m].ended \/ mounts[m].conn \notin up
IsConnected(m) == mounts[m].flag /\ ~HasEnded(m)

\* SftpFs::over_connection.
StartSession(c) == c \in up /\ sessions < MaxSessions /\ sessions' = sessions + 1

\* SftpMount::replace: a new session, and the flag with it.
Replaced(m, c) == [mounts EXCEPT ![m] = [@ EXCEPT !.conn = c, !.ended = FALSE, !.flag = TRUE]]

\* release: one user fewer, the last one closes it.
Released(fs) ==
  IF ~IsOpen(fs) THEN opened
  ELSE IF opened[fs].users = 1 THEN Restrict(opened, DOMAIN opened \ {fs})
  ELSE [opened EXCEPT ![fs].users = @ - 1]

Retained(fs) == [opened EXCEPT ![fs].users = @ + 1]

-----------------------------------------------------------------------------
(* The world: SSH tabs, servers, the watchers of mounts.                    *)

\* sftp_retain, sftp_close and transfer_start run on the main thread.
MainThreadFree == \A j \in Jobs : jobs[j].pc # "starts"

\* What a user asks for.
Move == moves < MaxMoves /\ moves' = moves + 1

OpenShell(server) ==
  /\ Move
  /\ LogIn(server)
  /\ terminals' = terminals \cup {NewConn}
  /\ up' = up \cup {NewConn}
  /\ UNCHANGED <<tabOf, mounts, opened, claims, held, op, rec, jobs, closes, sessions, ends>>

CloseShell(c) ==
  /\ Move
  /\ c \in terminals
  /\ terminals' = terminals \ {c}
  /\ UNCHANGED <<tabOf, conns, mounts, opened, claims, held, op, rec, jobs, closes,
                 sessions, ends>>
  /\ HangUp(up)

\* The network or the server ends a connection; its shell ends, too.
Lose(c) ==
  /\ c \in up /\ ends < MaxEnds
  /\ ends' = ends + 1
  /\ up' = up \ {c}
  /\ terminals' = terminals \ {c}
  /\ UNCHANGED <<tabOf, conns, mounts, opened, claims, held, op, rec, jobs, closes, sessions,
                 moves>>

\* The server's sftp process goes away, its connection stays.
EndSession(m) ==
  /\ ends < MaxEnds
  /\ m \in LiveMounts \ {None} /\ ~HasEnded(m)
  /\ ends' = ends + 1
  /\ mounts' = [mounts EXCEPT ![m].ended = TRUE]
  /\ UNCHANGED <<tabOf, conns, up, terminals, opened, claims, held, op, rec, jobs, closes,
                 sessions, moves>>

\* watch: the flag follows the current session.
WatcherFlags(m) ==
  /\ m \in LiveMounts \ {None}
  /\ HasEnded(m) /\ mounts[m].flag
  /\ mounts' = [mounts EXCEPT ![m].flag = FALSE]
  /\ UNCHANGED <<tabOf, conns, up, terminals, opened, claims, held, op, rec, jobs, closes,
                 sessions, moves, ends>>


-----------------------------------------------------------------------------
(* Panels: navigate, openRemote, and the claims of their tab.               *)

TabClaims(p) == claims[tabOf[p]]
Step(p, pc) == op' = [op EXCEPT ![p].pc = pc]
Done(p) == op' = [op EXCEPT ![p] = Idle]
Sent(n, fs) == [n EXCEPT ![fs] = @ + 1]

\* What stays as it is while panels and commands take steps.
Unmoved == <<tabOf, terminals, ends>>
Elsewhere == <<Unmoved, moves>>

\* Another filesystem's folder, from the history or a menu: claimed first.
GoTo(p, fs) ==
  /\ Move
  /\ op[p].pc = "idle" /\ ~TabClaims(p).disposed
  /\ held[p] # fs
  /\ fs \in 1 .. Len(conns)
  /\ IF Holds(TabClaims(p), fs)
     THEN /\ claims' = [claims EXCEPT ![tabOf[p]] = Taken(@, fs)]
          /\ op' = [op EXCEPT ![p] = [Idle EXCEPT !.pc = "list", !.fs = fs]]
     ELSE /\ op' = [op EXCEPT ![p] = [Idle EXCEPT !.pc = "retain", !.fs = fs]]
          /\ UNCHANGED claims
  /\ UNCHANGED <<Unmoved, conns, up, mounts, opened, held, rec, jobs, closes, sessions>>

\* sftp_retain, connected or not.
Retain(p) ==
  LET fs == op[p].fs IN
  /\ op[p].pc = "retain" /\ MainThreadFree
  /\ opened' = IF IsOpen(fs) THEN Retained(fs) ELSE opened
  /\ IF IsOpen(fs) THEN Step(p, "retained") ELSE Done(p)
  /\ UNCHANGED <<Elsewhere, conns, up, mounts, claims, held, rec, jobs, closes, sessions>>

\* The reference arrives at the tab, which may be closed by now.
Adopt(p) ==
  LET fs == op[p].fs IN
  /\ op[p].pc \in {"retained", "view"}
  /\ claims' = [claims EXCEPT ![tabOf[p]] = Adopted(@, fs)]
  /\ closes' = IF IsSpare(TabClaims(p), fs) THEN Sent(closes, fs) ELSE closes
  /\ op' = [op EXCEPT ![p] = IF TabClaims(p).disposed THEN Idle
                             ELSE [Idle EXCEPT !.pc = "list", !.fs = fs]]
  /\ UNCHANGED <<Elsewhere, conns, mounts, opened, held, rec, jobs, sessions>>
  /\ HangUp(up)

GiveBack(p, fs) ==
  /\ claims' = [claims EXCEPT ![tabOf[p]] = GivenBack(@, fs)]
  /\ closes' = IF IsLast(TabClaims(p), fs) THEN Sent(closes, fs) ELSE closes

\* The folder was listed and is shown; the old filesystem is let go of.
Show(p) ==
  /\ op[p].pc = "list"
  /\ held' = [held EXCEPT ![p] = op[p].fs]
  /\ IF held[p] # LocalFs THEN GiveBack(p, held[p]) ELSE UNCHANGED <<claims, closes>>
  /\ Done(p)
  /\ UNCHANGED <<Elsewhere, conns, up, mounts, opened, rec, jobs, sessions>>

\* The folder can't be listed, or the user went elsewhere meanwhile.
ShowNot(p) ==
  /\ op[p].pc = "list"
  /\ GiveBack(p, op[p].fs)
  /\ Done(p)
  /\ UNCHANGED <<Elsewhere, conns, up, mounts, opened, held, rec, jobs, sessions>>

ShowLocal(p) ==
  /\ Move
  /\ op[p].pc = "idle" /\ held[p] # LocalFs /\ ~TabClaims(p).disposed
  /\ held' = [held EXCEPT ![p] = LocalFs]
  /\ GiveBack(p, held[p])
  /\ UNCHANGED <<Unmoved, conns, up, mounts, opened, op, rec, jobs, sessions>>

\* dispose: panels let go of theirs, then the tab of what was on its way.
CloseTab(t) ==
  /\ Move
  /\ ~claims[t].disposed
  /\ closes' = [fs \in Fs |-> IF Holds(claims[t], fs) THEN closes[fs] + 1 ELSE closes[fs]]
  /\ claims' = [claims EXCEPT ![t] = Disposed(@)]
  /\ held' = [p \in Panels |-> IF tabOf[p] = t THEN LocalFs ELSE held[p]]
  /\ UNCHANGED <<Unmoved, conns, up, mounts, opened, op, rec, jobs, sessions>>

\* sftp_close.
Close(fs) ==
  /\ closes[fs] > 0 /\ MainThreadFree
  /\ closes' = [closes EXCEPT ![fs] = @ - 1]
  /\ opened' = Released(fs)
  /\ UNCHANGED <<Elsewhere, conns, mounts, claims, held, op, rec, jobs, sessions>>
  /\ HangUp(up)

-----------------------------------------------------------------------------
(* sftp_connect: on an SSH tab's connection, or with a login of its own.    *)

OpenLive(p, c) ==
  /\ Move
  /\ op[p].pc = "idle" /\ ~TabClaims(p).disposed
  /\ c \in terminals
  /\ op' = [op EXCEPT ![p] = [Idle EXCEPT !.pc = "find", !.live = c]]
  /\ UNCHANGED <<Unmoved, conns, up, mounts, opened, claims, held, rec, jobs, closes, sessions>>

OpenSaved(p) ==
  /\ Move
  /\ op[p].pc = "idle" /\ ~TabClaims(p).disposed
  /\ op' = [op EXCEPT ![p] = [Idle EXCEPT !.pc = "login"]]
  /\ UNCHANGED <<Unmoved, conns, up, mounts, opened, claims, held, rec, jobs, closes, sessions>>

\* lease_for, on an SSH tab's connection: without it there is no login.
WithLease(c) == IF Attachable(c) THEN [Idle EXCEPT !.pc = "open", !.lease = c] ELSE Idle

\* Is it open on this connection already?  A session that ended is started
\* again, in the same mount.
OnConnection(c) == {f \in DOMAIN opened : opened[f].conn = c}
Find(p) ==
  LET c == op[p].live IN
  /\ op[p].pc = "find"
  /\ IF OnConnection(c) = {} THEN op' = [op EXCEPT ![p] = WithLease(c)]
     ELSE \E f \in OnConnection(c) :
            LET found == [op[p] EXCEPT !.fs = f, !.mount = MountOf(f)] IN
            op' = [op EXCEPT ![p] =
                     IF IsConnected(MountOf(f)) THEN [found EXCEPT !.pc = "share"]
                     ELSE IF Attachable(c) THEN [found EXCEPT !.pc = "lock", !.lease = c]
                     ELSE Idle]
  /\ UNCHANGED <<Elsewhere, conns, up, mounts, opened, claims, held, rec, jobs, closes, sessions>>

\* The reconnecting lock of a mount.
Locked(m) == \/ \E p \in Panels : op[p].pc = "restart" /\ op[p].mount = m
             \/ \E t \in Tabs : rec[t].pc \in {"login", "restart", "record"} /\ rec[t].mount = m

Lock(p) ==
  LET m == op[p].mount IN
  /\ op[p].pc = "lock" /\ ~Locked(m)
  /\ IF IsConnected(m) THEN op' = [op EXCEPT ![p].pc = "share", ![p].lease = None]
                       ELSE Step(p, "restart")
  /\ UNCHANGED <<Elsewhere, conns, mounts, opened, claims, held, rec, jobs, closes, sessions>>
  /\ HangUp(up)

Restart(p) ==
  /\ op[p].pc = "restart"
  /\ StartSession(op[p].lease)
  /\ mounts' = Replaced(op[p].mount, op[p].lease)
  /\ op' = [op EXCEPT ![p].pc = "share", ![p].lease = None]
  /\ UNCHANGED <<Elsewhere, conns, opened, claims, held, rec, jobs, closes>>
  /\ HangUp(up)

\* Mutant of Share: counts on the filesystem being open still.
ShareBlindly(p) ==
  LET fs == op[p].fs IN
  /\ op[p].pc = "share"
  /\ opened' = IF IsOpen(fs) THEN Retained(fs) ELSE opened
  /\ Step(p, "view")
  /\ UNCHANGED <<Elsewhere, conns, up, mounts, claims, held, rec, jobs, closes, sessions>>

\* share: if it is still open as this mount.
Share(p) ==
  LET fs == op[p].fs IN
  /\ op[p].pc = "share"
  /\ IF IsOpen(fs) /\ MountOf(fs) = op[p].mount
     THEN opened' = Retained(fs) /\ Step(p, "view")
     ELSE op' = [op EXCEPT ![p] = WithLease(op[p].live)] /\ UNCHANGED opened
  /\ UNCHANGED <<Elsewhere, conns, mounts, claims, held, rec, jobs, closes, sessions>>
  /\ HangUp(up)

\* lease_for, with a login.
LogInToOpen(p, server) ==
  /\ op[p].pc = "login"
  /\ LogIn(server)
  /\ op' = [op EXCEPT ![p].pc = "open", ![p].lease = NewConn]
  /\ up' = up \cup {NewConn}
  /\ UNCHANGED <<Elsewhere, mounts, opened, claims, held, rec, jobs, closes, sessions>>

\* SftpMount::new, on a session that was just started.
NewMount(c) == [conn |-> c, ended |-> FALSE, flag |-> TRUE]

\* Its SFTP session, in the mount that is there or a new one.
Open(p) ==
  LET c == op[p].lease
      fs == c
      joined == IsOpen(fs)
      m == IF joined THEN MountOf(fs) ELSE Len(mounts) + 1
  IN
  /\ op[p].pc = "open"
  /\ StartSession(c)
  /\ op' = [op EXCEPT ![p].pc = "view", ![p].fs = fs, ![p].mount = m, ![p].lease = None]
  /\ IF ~joined
     THEN /\ Len(mounts) < MaxMounts
          /\ mounts' = Append(mounts, NewMount(c))
          /\ opened' = [f \in DOMAIN opened \cup {fs} |->
                         IF f = fs THEN [mount |-> m, conn |-> c, server |-> conns[c], users |-> 1]
                         ELSE opened[f]]
     ELSE IF ~IsConnected(m)
     THEN /\ mounts' = Replaced(m, c)
          /\ opened' = [opened EXCEPT ![fs].users = @ + 1, ![fs].conn = c]
     ELSE opened' = Retained(fs) /\ UNCHANGED mounts
  /\ UNCHANGED <<Elsewhere, conns, claims, held, rec, jobs, closes>>
  /\ HangUp(up)

\* No such connection any more, no login, or no SFTP on it.
OpenFails(p) ==
  /\ op[p].pc \in {"login", "open", "restart"}
  /\ Done(p)
  /\ UNCHANGED <<Elsewhere, conns, mounts, opened, claims, held, rec, jobs, closes, sessions>>
  /\ HangUp(up)

-----------------------------------------------------------------------------
(* sftp_reconnect: a tab asks for it with a login, once at a time.          *)

RStep(t, pc) == rec' = [rec EXCEPT ![t].pc = pc]
RDone(t) == rec' = [rec EXCEPT ![t] = Idle]
Panelled(t) == {held[p] : p \in {q \in Panels : tabOf[q] = t}} \ {LocalFs}
Queued == {jobs[j].fs : j \in Jobs} \ {LocalFs}

\* The banner of a panel, or a paused job; the mount it is about.
Reconnect(t, fs) ==
  /\ Move
  /\ rec[t].pc = "idle" /\ ~claims[t].disposed
  /\ fs \in Panelled(t) \cup Queued
  /\ IsOpen(fs)
  /\ rec' = [rec EXCEPT ![t] = [Idle EXCEPT !.pc = "lock", !.fs = fs, !.mount = MountOf(fs)]]
  /\ UNCHANGED <<Unmoved, conns, up, mounts, opened, claims, held, op, jobs, closes, sessions>>

\* A mount that's connected (another panel reconnected it first) keeps its session.
ReconnectLock(t) ==
  LET m == rec[t].mount IN
  /\ rec[t].pc = "lock" /\ ~Locked(m)
  /\ IF IsConnected(m) /\ IsOpen(rec[t].fs) THEN RDone(t) ELSE RStep(t, "login")
  /\ UNCHANGED <<Elsewhere, conns, mounts, opened, claims, held, op, jobs, closes, sessions>>
  /\ HangUp(up)

\* The same server and account, if it is still open.
GoesBack(fs, server) == IsOpen(fs) => opened[fs].server = server

LogInAgain(t, server) ==
  /\ rec[t].pc = "login"
  /\ GoesBack(rec[t].fs, server)
  /\ LogIn(server)
  /\ rec' = [rec EXCEPT ![t].pc = "restart", ![t].lease = NewConn]
  /\ up' = up \cup {NewConn}
  /\ UNCHANGED <<Elsewhere, mounts, opened, claims, held, op, jobs, closes, sessions>>

RestartAgain(t) ==
  /\ rec[t].pc = "restart"
  /\ StartSession(rec[t].lease)
  /\ mounts' = Replaced(rec[t].mount, rec[t].lease)
  /\ rec' = [rec EXCEPT ![t].pc = "record", ![t].lease = None, ![t].live = rec[t].lease]
  /\ UNCHANGED <<Elsewhere, conns, opened, claims, held, op, jobs, closes>>
  /\ HangUp(up)

\* The filesystem is on the new connection, if it is still open.
Record(t) ==
  LET fs == rec[t].fs IN
  /\ rec[t].pc = "record"
  /\ opened' = IF IsOpen(fs) THEN [opened EXCEPT ![fs].conn = rec[t].live] ELSE opened
  /\ RDone(t)
  /\ UNCHANGED <<Elsewhere, conns, mounts, claims, held, op, jobs, closes, sessions>>
  /\ HangUp(up)

\* Mutant of ReconnectFails: the lock is not let go of.
ReconnectHangs(t) ==
  /\ rec[t].pc = "restart"
  /\ RStep(t, "login")
  /\ UNCHANGED <<Elsewhere, conns, up, mounts, opened, claims, held, op, jobs, closes, sessions>>

\* No login, another server, or no SFTP on it.
ReconnectFails(t) ==
  /\ rec[t].pc \in {"login", "restart"}
  /\ RDone(t)
  /\ UNCHANGED <<Elsewhere, conns, mounts, opened, claims, held, op, jobs, closes, sessions>>
  /\ HangUp(up)

-----------------------------------------------------------------------------
(* Jobs: transfer_start, in two steps under two locks, and their ends.      *)

\* FsRegistry::get, of a filesystem some panel shows or the clipboard is from.
JobGets(j, fs) ==
  /\ Move
  /\ jobs[j].pc = "idle" /\ MainThreadFree
  /\ IsOpen(fs)
  /\ jobs' = [jobs EXCEPT ![j] = [NoJob EXCEPT !.pc = "starts", !.fs = fs, !.mount = MountOf(fs)]]
  /\ UNCHANGED <<Unmoved, conns, up, mounts, opened, claims, held, op, rec, closes, sessions>>

\* use_of: counted, if it is open.
JobStarts(j) ==
  LET fs == jobs[j].fs IN
  /\ jobs[j].pc = "starts"
  /\ jobs' = [jobs EXCEPT ![j].pc = "runs", ![j].counted = IsOpen(fs)]
  /\ opened' = IF IsOpen(fs) THEN Retained(fs) ELSE opened
  /\ UNCHANGED <<Elsewhere, conns, up, mounts, claims, held, op, rec, closes, sessions>>

\* The job ended, in whatever way: SessionUse is dropped.
JobEnds(j) ==
  /\ jobs[j].pc = "runs"
  /\ opened' = IF jobs[j].counted THEN Released(jobs[j].fs) ELSE opened
  /\ jobs' = [jobs EXCEPT ![j] = NoJob]
  /\ UNCHANGED <<Elsewhere, conns, mounts, claims, held, op, rec, closes, sessions>>
  /\ HangUp(up)

-----------------------------------------------------------------------------
PanelStep(p) ==
  \/ Retain(p) \/ Adopt(p) \/ Show(p) \/ ShowNot(p)
  \/ Find(p) \/ Lock(p) \/ Restart(p) \/ Share(p) \/ Open(p)
  \/ OpenFails(p) \/ \E s \in Servers : LogInToOpen(p, s)

ReconnectStep(t) ==
  \/ ReconnectLock(t) \/ RestartAgain(t) \/ Record(t) \/ ReconnectFails(t)
  \/ \E s \in Servers : LogInAgain(t, s)

Users ==
  \/ \E p \in Panels : \/ ShowLocal(p) \/ OpenSaved(p)
                       \/ \E fs \in Fs : GoTo(p, fs)
                       \/ \E c \in terminals : OpenLive(p, c)
  \/ \E t \in Tabs : CloseTab(t) \/ \E fs \in Fs : Reconnect(t, fs)
  \/ \E s \in Servers : OpenShell(s)
  \/ \E c \in terminals : CloseShell(c)
  \/ \E j \in Jobs : \E fs \in DOMAIN opened : JobGets(j, fs)

World ==
  \/ \E c \in up : Lose(c)
  \/ \E m \in 1 .. Len(mounts) : EndSession(m) \/ WatcherFlags(m)

Next ==
  \/ Users \/ World
  \/ \E p \in Panels : PanelStep(p)
  \/ \E t \in Tabs : ReconnectStep(t)
  \/ \E fs \in Fs : Close(fs)
  \/ \E j \in Jobs : JobStarts(j) \/ JobEnds(j)

(***************************************************************************)
(* Tokio polls what can go on, logins and requests end (they time out), the *)
(* UI's calls arrive, and jobs end or are cancelled.                        *)
(***************************************************************************)
Fairness ==
  /\ \A p \in Panels : WF_vars(PanelStep(p))
  /\ \A t \in Tabs : WF_vars(ReconnectStep(t))
  /\ \A fs \in Fs : WF_vars(Close(fs))
  /\ \A j \in Jobs : WF_vars(JobStarts(j) \/ JobEnds(j))

Spec == Init /\ [][Next]_vars /\ Fairness
-----------------------------------------------------------------------------

PanelSteps == {"idle", "retain", "retained", "list", "find", "lock", "restart",
               "share", "login", "open", "view"}
RecSteps == {"idle", "lock", "login", "restart", "record"}

TypeOK ==
  /\ tabOf \in Layouts
  /\ conns \in Seq(Servers) /\ Len(conns) <= MaxLogins
  /\ up \subseteq 1 .. Len(conns) /\ terminals \subseteq up
  /\ Len(mounts) <= MaxMounts
  /\ \A m \in 1 .. Len(mounts) :
       /\ mounts[m].conn \in 1 .. Len(conns)
       /\ \A b \in {"ended", "flag"} : mounts[m][b] \in BOOLEAN
  /\ \A f \in DOMAIN opened :
       /\ f \in Fs /\ MountOf(f) \in 1 .. Len(mounts)
       /\ opened[f].conn \in 1 .. Len(conns) /\ opened[f].server \in Servers
       /\ opened[f].users \in Nat \ {0}
  /\ \A t \in Tabs : /\ claims[t].disposed \in BOOLEAN /\ DOMAIN claims[t].counts \subseteq Fs
                     /\ rec[t].pc \in RecSteps
  /\ \A p \in Panels : held[p] \in Fs \cup {LocalFs} /\ op[p].pc \in PanelSteps
  /\ \A j \in Jobs : jobs[j].pc \in {"idle", "starts", "runs"}
  /\ closes \in [Fs -> Nat] /\ sessions \in 0 .. MaxSessions /\ ends \in 0 .. MaxEnds

\* A tab has as many claims on a filesystem as panels show it or are about to.
ClaimsAreCounted == \A t \in Tabs : ~claims[t].disposed =>
  \A f \in Fs :
    LET claiming == {p \in Panels : tabOf[p] = t /\ held[p] = f}
        about == {p \in Panels : tabOf[p] = t /\ op[p].pc = "list" /\ op[p].fs = f}
    IN Cardinality(claiming) + Cardinality(about)
       = Claimed(claims[t], f)

\* What uses a filesystem: tabs, jobs, and references on their way to a tab
\* or back.
References(f) ==
  Cardinality({t \in Tabs : Holds(claims[t], f)})
  + Cardinality({p \in Panels : op[p].pc \in {"retained", "view"} /\ op[p].fs = f})
  + Cardinality({j \in Jobs : jobs[j].counted /\ jobs[j].fs = f})
  + closes[f]
\* A filesystem is open exactly as long as it is used, and a tab uses it as
\* long as a panel shows it: no close, leave or end of a job, however they
\* interleave, takes it away from another (commands.rs release, claims.ts).
UsersAreCounted ==
  /\ ClaimsAreCounted
  /\ \A f \in Fs : References(f) = IF IsOpen(f) THEN opened[f].users ELSE 0

\* "Paused jobs and edited files carry on under this id, and must not land
\* somewhere else": whatever reconnects, and however it races.
SameServer == \A f \in DOMAIN opened :
  conns[mounts[MountOf(f)].conn] = opened[f].server

\* What uses a filesystem has it, open and on the server it was opened on.
UsersAreServed == UsersAreCounted /\ SameServer

\* When all tabs are closed and all jobs are over, nothing stays open: no
\* filesystem, and no connection.
AllGone == (\A t \in Tabs : claims[t].disposed) /\ terminals = {}
NothingLeaks == AllGone ~> (terminals # {} \/ (opened = <<>> /\ up = {}))

\* A reconnect, and a panel's way to a filesystem, come to an end.
CallsEnd == /\ \A t \in Tabs : rec[t].pc # "idle" ~> rec[t].pc = "idle"
            /\ \A p \in Panels : op[p].pc # "idle" ~> op[p].pc = "idle"
=============================================================================

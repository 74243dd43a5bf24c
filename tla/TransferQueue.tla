---------------------------- MODULE TransferQueue ----------------------------
(***************************************************************************)
(* The background transfer queue (src-tauri/src/transfer/queue.rs): every  *)
(* copy or move is a task that waits until the servers it uses are         *)
(* connected, reserves its slots, runs one attempt of the engine, and      *)
(* starts over when the attempt failed because a connection went away.     *)
(*                                                                         *)
(* The engine itself is abstracted to what the queue sees of it: it plans, *)
(* runs, may ask about a conflict, and ends well, refused (a permission, a *)
(* full disk), cut off (its connection went away) or cancelled.            *)
(*                                                                         *)
(* A definition whose comment begins "Mutant" is not part of the           *)
(* specification: put in place of the definition it names, it is a bug     *)
(* that the property it names must notice.                                 *)
(***************************************************************************)
EXTENDS Integers, FiniteSets

CONSTANTS
  Jobs,          \* the jobs the user may start
  NRemotes,      \* how many SFTP filesystems there are
  Source,        \* Source[j], Target[j]: the filesystems job j uses; 0 is
  Target,        \*   this machine, 1..NRemotes the servers in FsId order
  MaxRunning,    \* MAX_RUNNING
  KeepFinished,  \* KEEP_FINISHED
  MaxConflicts,  \* bound: conflict questions per job
  MaxDrops       \* bound: connections lost, over all servers

Local == 0
Remotes == 1 .. NRemotes

(***************************************************************************)
(* Slots: one per server and the global one.  A job takes its servers'     *)
(* slots in FsId order and then the global one, so with the global slot    *)
(* numbered last the order of taking is the order of the numbers.          *)
(***************************************************************************)
Global == NRemotes + 1
Slots == 1 .. Global
\* Mutant of Permits: a server's semaphore made like the global one.
SharedPermits(s) == MaxRunning
Permits(s) == IF s = Global THEN MaxRunning ELSE 1
Needs(j) == ({Source[j], Target[j]} \ {Local}) \cup {Global}

ASSUME QueueAssumption ==
  /\ IsFiniteSet(Jobs)
  /\ NRemotes \in Nat
  /\ Source \in [Jobs -> 0 .. NRemotes]
  /\ Target \in [Jobs -> 0 .. NRemotes]
  /\ MaxRunning \in Nat \ {0}
  /\ KeepFinished \in Nat
  /\ MaxConflicts \in Nat
  /\ MaxDrops \in Nat

VARIABLES
  link,      \* link[f]: the connection of server f (see Links)
  drops,     \* connections lost so far
  born,      \* born[j]: j's place in the order of starting, 0 before
  listed,    \* the jobs in Inner::jobs
  state,     \* state[j]: the JobState transfer_list shows
  event,     \* event[j]: the last event sent for j, with its filesystem
  cancel,    \* cancel[j]: the cancel flag is raised
  pc,        \* pc[j]: where run_job is
  side,      \* side[j]: the side until_connected is looking at, 1 or 2
  notified,  \* notified[j]: the watched connection changed since last seen
  held,      \* held[j]: the permits j's task holds
  ahead,     \* ahead[j]: jobs before j in the (FIFO) semaphore it waits for
  run,       \* run[j]: where the engine is in this attempt
  broken,    \* broken[j]: servers lost while this attempt used them
  outcome,   \* outcome[j]: how the last attempt, or the job, ended
  asked,     \* asked[j]: conflict_ids, the questions asked so far
  pending,   \* pending[j]: the question awaiting an answer, 0 for none
  answer     \* answer[j]: what came over the question's oneshot channel

linkVars == <<link, drops>>
listVars == <<born, listed>>
viewVars == <<state, event>>
waitVars == <<side, notified>>
slotVars == <<held, ahead>>
runVars  == <<run, broken>>
askVars  == <<asked, pending, answer>>
vars == <<linkVars, listVars, viewVars, cancel, pc, waitVars, slotVars,
          runVars, outcome, askVars>>

(***************************************************************************)
(* A connection is up, lost (the transport is gone and nobody noticed),    *)
(* ended (the SFTP session noticed) or down (the mount's flag followed).   *)
(***************************************************************************)
Links == {"up", "lost", "ended", "down"}

\* SftpMount::is_connected: the flag is set and the session has not ended.
IsConnected(f) == f \in Remotes => link[f] \in {"up", "lost"}

Sides(j) == <<Source[j], Target[j]>>
Uses(j) == {Source[j], Target[j]}
AllConnected(j) == \A f \in Uses(j) : IsConnected(f)

EndStates == {"done", "failed", "cancelled"}
States == EndStates \cup {"queued", "planning", "running", "waiting", "paused"}
Ended(st) == st \in EndStates

Events == {"none", "queued", "planning", "planned", "conflict", "paused",
           "finished", "failed", "cancelled"}
Event(kind) == [kind |-> kind, fs |-> Local]

NoAnswer == [to |-> 0, says |-> "none"]

Started(j) == pc[j] # "unborn"
Attempting(j) == pc[j] \in {"attempt", "grace"}
Holders(s) == {k \in Jobs : s \in held[k]}
\* Mutant of NextSlot: the source's server first, not the one that sorts first.
SourceFirst(j) ==
  LET lacks == Needs(j) \ held[j] IN
  IF Source[j] \in lacks THEN Source[j]
  ELSE IF Target[j] \in lacks THEN Target[j] ELSE Global
NextSlot(j) == CHOOSE s \in Needs(j) \ held[j] :
                  \A t \in Needs(j) \ held[j] : s <= t
Waiting(s) == {k \in Jobs : pc[k] = "reserving" /\ NextSlot(k) = s}

Init ==
  /\ link = [f \in Remotes |-> "up"]
  /\ drops = 0
  /\ born = [j \in Jobs |-> 0]
  /\ listed = {}
  /\ state = [j \in Jobs |-> "queued"]
  /\ event = [j \in Jobs |-> Event("none")]
  /\ cancel = [j \in Jobs |-> FALSE]
  /\ pc = [j \in Jobs |-> "unborn"]
  /\ side = [j \in Jobs |-> 1]
  /\ notified = [j \in Jobs |-> FALSE]
  /\ held = [j \in Jobs |-> {}]
  /\ ahead = [j \in Jobs |-> {}]
  /\ run = [j \in Jobs |-> "idle"]
  /\ broken = [j \in Jobs |-> {}]
  /\ outcome = [j \in Jobs |-> "none"]
  /\ asked = [j \in Jobs |-> 0]
  /\ pending = [j \in Jobs |-> 0]
  /\ answer = [j \in Jobs |-> NoAnswer]

Goto(j, label) == pc' = [pc EXCEPT ![j] = label]
Shows(j, st, ev) == /\ state' = [state EXCEPT ![j] = st]
                    /\ event' = [event EXCEPT ![j] = ev]
-----------------------------------------------------------------------------
(* The user's calls: transfer_start, transfer_cancel, transfer_resolve.     *)

\* prune_finished: only the newest KeepFinished ended jobs stay listed.
Pruned(jobs, st, order) ==
  {j \in jobs : Ended(st[j]) =>
     Cardinality({k \in jobs : Ended(st[k]) /\ order[k] >= order[j]})
       <= KeepFinished}

Start(j) ==
  /\ pc[j] = "unborn"
  /\ born' = [born EXCEPT ![j] = 1 + Cardinality({k \in Jobs : Started(k)})]
  /\ listed' = Pruned(listed \cup {j}, state, born')
  /\ Goto(j, "subscribe")
  /\ Shows(j, "queued", Event("queued"))
  /\ UNCHANGED <<linkVars, cancel, waitVars, slotVars, runVars, outcome,
                 askVars>>

Cancel(j) ==
  /\ j \in listed
  /\ ~Ended(state[j])
  /\ cancel' = [cancel EXCEPT ![j] = TRUE]
  /\ UNCHANGED <<linkVars, listVars, viewVars, pc, waitVars, slotVars,
                 runVars, outcome, askVars>>

\* Mutant of Resolve: takes an answer without comparing the question's number.
ResolveAny(j, q, says) ==
  /\ j \in listed
  /\ pending[j] # 0
  /\ pending' = [pending EXCEPT ![j] = 0]
  /\ answer' = [answer EXCEPT ![j] = [to |-> q, says |-> says]]
  /\ UNCHANGED <<linkVars, listVars, viewVars, cancel, pc, waitVars, slotVars,
                 runVars, outcome, asked>>

\* The answer to question q; an answer to any other question than the one
\* pending is refused ("that question was already answered").
Resolve(j, q, says) ==
  /\ j \in listed
  /\ pending[j] = q
  /\ pending' = [pending EXCEPT ![j] = 0]
  /\ answer' = [answer EXCEPT ![j] = [to |-> q, says |-> says]]
  /\ UNCHANGED <<linkVars, listVars, viewVars, cancel, pc, waitVars, slotVars,
                 runVars, outcome, asked>>
-----------------------------------------------------------------------------
(* Connections.                                                            *)

\* The transport of f goes away.  What an attempt has in flight on it fails.
Lose(f) ==
  /\ link[f] = "up"
  /\ drops < MaxDrops
  /\ drops' = drops + 1
  /\ link' = [link EXCEPT ![f] = "lost"]
  /\ broken' = [j \in Jobs |-> IF Attempting(j) /\ f \in Uses(j)
                               THEN broken[j] \cup {f} ELSE broken[j]]
  /\ UNCHANGED <<listVars, viewVars, cancel, pc, waitVars, slotVars, run,
                 outcome, askVars>>

\* The main SFTP session sees its end: has_ended is true from here on.
SessionEnds(f) ==
  /\ link[f] = "lost"
  /\ link' = [link EXCEPT ![f] = "ended"]
  /\ UNCHANGED <<drops, listVars, viewVars, cancel, pc, waitVars, slotVars,
                 runVars, outcome, askVars>>

\* A send on the mount's watch channel wakes whoever subscribed.
Notify(f) ==
  notified' = [j \in Jobs |-> notified[j] \/ /\ pc[j] \in {"check", "blocked"}
                                             /\ Sides(j)[side[j]] = f]

\* SftpMount::watch: the ended session is still the current one.
WatcherFlags(f) ==
  /\ link[f] = "ended"
  /\ link' = [link EXCEPT ![f] = "down"]
  /\ Notify(f)
  /\ UNCHANGED <<drops, listVars, viewVars, cancel, pc, side, slotVars,
                 runVars, outcome, askVars>>

\* Mutant of Reconnect: wakes nobody when the mount's flag is still set (the
\* session has ended, the watcher has not run yet): send_if_modified.
ReconnectIfModified(f) ==
  /\ ~IsConnected(f)
  /\ link' = [link EXCEPT ![f] = "up"]
  /\ IF link[f] = "down" THEN Notify(f) ELSE UNCHANGED notified
  /\ UNCHANGED <<drops, listVars, viewVars, cancel, pc, side, slotVars,
                 runVars, outcome, askVars>>

\* SftpMount::replace, after the user reconnected a mount that isn't connected.
Reconnect(f) ==
  /\ ~IsConnected(f)
  /\ link' = [link EXCEPT ![f] = "up"]
  /\ Notify(f)
  /\ UNCHANGED <<drops, listVars, viewVars, cancel, pc, side, slotVars,
                 runVars, outcome, askVars>>
-----------------------------------------------------------------------------
(* until_connected.                                                        *)

\* The side has been seen connected: the next one, or on to the slots.
NextSide(j) ==
  IF side[j] = 1
  THEN side' = [side EXCEPT ![j] = 2] /\ Goto(j, "subscribe")
  ELSE side' = [side EXCEPT ![j] = 1] /\ Goto(j, "connected")

\* side.fs.connection(): none for this machine, else a fresh receiver.
Subscribe(j) ==
  /\ pc[j] = "subscribe"
  /\ IF Sides(j)[side[j]] = Local
     THEN NextSide(j)
     ELSE Goto(j, "check") /\ UNCHANGED side
  /\ notified' = [notified EXCEPT ![j] = FALSE]
  /\ UNCHANGED <<linkVars, listVars, viewVars, cancel, slotVars, runVars,
                 outcome, askVars>>

SeesConnected(j) ==
  /\ pc[j] = "check"
  /\ IsConnected(Sides(j)[side[j]])
  /\ NextSide(j)
  /\ UNCHANGED <<linkVars, listVars, viewVars, cancel, notified, slotVars,
                 runVars, outcome, askVars>>

\* The Paused state and its event are entered once, for the first side found
\* disconnected.
SeesDisconnected(j) ==
  LET fs == Sides(j)[side[j]] IN
  /\ pc[j] = "check"
  /\ ~IsConnected(fs)
  /\ Goto(j, "blocked")
  /\ IF state[j] = "paused"
     THEN UNCHANGED viewVars
     ELSE Shows(j, "paused", [kind |-> "paused", fs |-> fs])
  /\ UNCHANGED <<linkVars, listVars, cancel, waitVars, slotVars, runVars,
                 outcome, askVars>>

\* connection.changed() returns and marks what it saw.
Wake(j) ==
  /\ pc[j] = "blocked"
  /\ notified[j]
  /\ notified' = [notified EXCEPT ![j] = FALSE]
  /\ Goto(j, "check")
  /\ UNCHANGED <<linkVars, listVars, viewVars, cancel, side, slotVars, runVars,
                 outcome, askVars>>

\* Mutant of CancelBlocked: the flag is only looked at when the wait returns.
CancelWoken(j) ==
  /\ pc[j] = "blocked"
  /\ notified[j]
  /\ cancel[j]
  /\ outcome' = [outcome EXCEPT ![j] = "cancelled"]
  /\ Goto(j, "ending")
  /\ UNCHANGED <<linkVars, listVars, viewVars, cancel, waitVars, slotVars,
                 runVars, askVars>>

CancelBlocked(j) ==
  /\ pc[j] = "blocked"
  /\ cancel[j]
  /\ outcome' = [outcome EXCEPT ![j] = "cancelled"]
  /\ Goto(j, "ending")
  /\ UNCHANGED <<linkVars, listVars, viewVars, cancel, waitVars, slotVars,
                 runVars, askVars>>
-----------------------------------------------------------------------------
(* reserve.                                                                *)

\* A resumed job shows as queued again; then it queues for its first slot.
Reserve(j) ==
  /\ pc[j] = "connected"
  /\ IF state[j] = "paused"
     THEN Shows(j, "queued", Event("queued"))
     ELSE UNCHANGED viewVars
  /\ ahead' = [ahead EXCEPT ![j] = Waiting(NextSlot(j))]
  /\ Goto(j, "reserving")
  /\ UNCHANGED <<linkVars, listVars, cancel, waitVars, held, runVars, outcome,
                 askVars>>

\* The semaphore's head waiter gets a free permit and queues for the next one.
Acquire(j) ==
  LET s == NextSlot(j)
      rest == Needs(j) \ (held[j] \cup {s})
      next == CHOOSE t \in rest : \A u \in rest : t <= u
  IN
  /\ pc[j] = "reserving"
  /\ ahead[j] = {}
  /\ Cardinality(Holders(s)) < Permits(s)
  /\ held' = [held EXCEPT ![j] = @ \cup {s}]
  /\ ahead' = [k \in Jobs |->
                 IF k = j THEN (IF rest = {} THEN {} ELSE Waiting(next))
                 ELSE ahead[k] \ {j}]
  /\ IF rest = {} THEN Goto(j, "reserved") ELSE UNCHANGED pc
  /\ UNCHANGED <<linkVars, listVars, viewVars, cancel, waitVars, runVars,
                 outcome, askVars>>

\* Dropping the reserve future gives back its permits and its place.
CancelReserve(j) ==
  /\ pc[j] = "reserving"
  /\ cancel[j]
  /\ held' = [held EXCEPT ![j] = {}]
  /\ ahead' = [k \in Jobs |-> IF k = j THEN {} ELSE ahead[k] \ {j}]
  /\ outcome' = [outcome EXCEPT ![j] = "cancelled"]
  /\ Goto(j, "ending")
  /\ UNCHANGED <<linkVars, listVars, viewVars, cancel, waitVars, runVars,
                 askVars>>

\* A connection dropped while j waited for its slots: start over.
DropAgain(j) ==
  /\ pc[j] = "reserved"
  /\ ~AllConnected(j)
  /\ held' = [held EXCEPT ![j] = {}]
  /\ Goto(j, "subscribe")
  /\ UNCHANGED <<linkVars, listVars, viewVars, cancel, waitVars, ahead,
                 runVars, outcome, askVars>>
-----------------------------------------------------------------------------
(* attempt: the engine runs while the cancel flag is watched.              *)

\* A session that is gone without having noticed lets the attempt start.
StartAttempt(j) ==
  /\ pc[j] = "reserved"
  /\ AllConnected(j)
  /\ Goto(j, "attempt")
  /\ run' = [run EXCEPT ![j] = "planning"]
  /\ broken' = [broken EXCEPT ![j] =
                  {f \in Uses(j) \ {Local} : link[f] = "lost"}]
  /\ Shows(j, "planning", Event("planning"))
  /\ UNCHANGED <<linkVars, listVars, cancel, waitVars, slotVars, outcome,
                 askVars>>

PlanMade(j) ==
  /\ run[j] = "planning"
  /\ run' = [run EXCEPT ![j] = "running"]
  /\ Shows(j, "running", Event("planned"))
  /\ UNCHANGED <<linkVars, listVars, cancel, pc, waitVars, slotVars, broken,
                 outcome, askVars>>

\* QueueResolver::resolve puts a conflict in front of the user.
Ask(j) ==
  /\ run[j] = "running"
  /\ asked[j] < MaxConflicts
  /\ asked' = [asked EXCEPT ![j] = @ + 1]
  /\ pending' = [pending EXCEPT ![j] = asked[j] + 1]
  /\ answer' = [answer EXCEPT ![j] = NoAnswer]
  /\ run' = [run EXCEPT ![j] = "asking"]
  /\ Shows(j, "waiting", Event("conflict"))
  /\ UNCHANGED <<linkVars, listVars, cancel, pc, waitVars, slotVars, broken,
                 outcome>>

\* ... and returns with the answer, or with Cancel once the flag is raised.
Answered(j) ==
  /\ run[j] = "asking"
  /\ \/ /\ answer[j].says = "go"
        /\ run' = [run EXCEPT ![j] = "running"]
     \/ /\ answer[j].says = "cancel" \/ cancel[j]
        /\ run' = [run EXCEPT ![j] = "stopping"]
  /\ pending' = [pending EXCEPT ![j] = 0]
  /\ state' = [state EXCEPT ![j] = "running"]
  /\ UNCHANGED <<linkVars, listVars, event, cancel, pc, waitVars, slotVars,
                 broken, outcome, asked, answer>>

\* attempt returned: its permits are dropped and the result is judged next.
AttemptOver(j, result) ==
  /\ run' = [run EXCEPT ![j] = "idle"]
  /\ broken' = [broken EXCEPT ![j] = {}]
  /\ held' = [held EXCEPT ![j] = {}]
  /\ outcome' = [outcome EXCEPT ![j] = result]
  /\ Goto(j, "judge")

\* What the engine can end with: well; refused by a server or a disk; cut off;
\* or cancelled.  Plans are made over the main session, so their requests fail
\* once it has ended; file data goes over the bulk session, which may see the
\* loss first.
CanReturn(j, result) ==
  \/ result = "ok" /\ run[j] = "running"
  \/ result = "refused" /\ run[j] \in {"planning", "running"}
  \/ result = "dropped" /\ \E f \in broken[j] :
        run[j] = "running" \/ (run[j] = "planning" /\ link[f] # "lost")
  \/ result = "cancelled" /\ run[j] = "stopping"
  \/ result = "cancelled" /\ cancel[j] /\ run[j] \in {"planning", "running"}

\* In the grace period whatever the engine returns counts as cancelled.
EngineReturns(j, result) ==
  /\ CanReturn(j, result)
  /\ AttemptOver(j, IF pc[j] = "grace" THEN "cancelled" ELSE result)
  /\ UNCHANGED <<linkVars, listVars, viewVars, cancel, waitVars, ahead,
                 askVars>>

CancelSeen(j) ==
  /\ pc[j] = "attempt"
  /\ cancel[j]
  /\ Goto(j, "grace")
  /\ UNCHANGED <<linkVars, listVars, viewVars, cancel, waitVars, slotVars,
                 runVars, outcome, askVars>>

\* CANCEL_GRACE is over: the engine is dropped wherever it hangs.  It cannot
\* hang in a question, which the raised flag answers at its first poll.
GraceExpires(j) ==
  /\ pc[j] = "grace"
  /\ run[j] # "asking"
  /\ AttemptOver(j, "cancelled")
  /\ UNCHANGED <<linkVars, listVars, viewVars, cancel, waitVars, ahead,
                 askVars>>

\* A failure with a side disconnected is not the job's: wait and run again.
Judge(j) ==
  /\ pc[j] = "judge"
  /\ IF outcome[j] \in {"refused", "dropped"} /\ ~AllConnected(j)
     THEN Goto(j, "subscribe") /\ outcome' = [outcome EXCEPT ![j] = "none"]
     ELSE Goto(j, "ending") /\ UNCHANGED outcome
  /\ UNCHANGED <<linkVars, listVars, viewVars, cancel, waitVars, slotVars,
                 runVars, askVars>>

Finish(j) ==
  /\ pc[j] = "ending"
  /\ \/ outcome[j] = "ok" /\ Shows(j, "done", Event("finished"))
     \/ outcome[j] = "cancelled" /\ Shows(j, "cancelled", Event("cancelled"))
     \/ /\ outcome[j] \in {"refused", "dropped"}
        /\ Shows(j, "failed", Event("failed"))
  /\ Goto(j, "pruning")
  /\ UNCHANGED <<linkVars, listVars, cancel, waitVars, slotVars, runVars,
                 outcome, askVars>>

Prune(j) ==
  /\ pc[j] = "pruning"
  /\ listed' = Pruned(listed, state, born)
  /\ Goto(j, "over")
  /\ UNCHANGED <<linkVars, born, viewVars, cancel, waitVars, slotVars, runVars,
                 outcome, askVars>>
-----------------------------------------------------------------------------
Results == {"ok", "refused", "dropped", "cancelled"}

\* What the task of job j does by itself, whatever servers and users do.
TaskStep(j) ==
  \/ Subscribe(j) \/ SeesConnected(j) \/ SeesDisconnected(j)
  \/ Wake(j) \/ CancelBlocked(j)
  \/ Reserve(j) \/ Acquire(j) \/ CancelReserve(j) \/ DropAgain(j)
  \/ StartAttempt(j) \/ Answered(j) \/ CancelSeen(j) \/ GraceExpires(j)
  \/ Judge(j) \/ Finish(j) \/ Prune(j)

\* What needs servers and disks that answer.
EngineStep(j) == PlanMade(j) \/ \E r \in Results : EngineReturns(j, r)

LinkStep(f) == SessionEnds(f) \/ WatcherFlags(f)

UserAnswers(j) ==
  \E q \in 1 .. MaxConflicts, says \in {"go", "cancel"} : Resolve(j, q, says)

Next ==
  \/ \E j \in Jobs : Start(j) \/ Cancel(j) \/ UserAnswers(j)
  \/ \E j \in Jobs : TaskStep(j) \/ EngineStep(j) \/ Ask(j)
  \/ \E f \in Remotes : Lose(f) \/ LinkStep(f) \/ Reconnect(f)

(***************************************************************************)
(* The runtime polls every task that can move, and an SFTP session whose   *)
(* transport is gone sees it.  Nothing is promised of servers and users.   *)
(***************************************************************************)
Fairness ==
  /\ \A j \in Jobs : WF_vars(TaskStep(j))
  /\ \A f \in Remotes : WF_vars(LinkStep(f))

Spec == Init /\ [][Next]_vars /\ Fairness

\* The same with servers that answer and a user who reconnects and replies.
Cooperation ==
  /\ \A j \in Jobs : WF_vars(EngineStep(j)) /\ WF_vars(UserAnswers(j))
  /\ \A f \in Remotes : WF_vars(Reconnect(f))

CooperativeSpec == Spec /\ Cooperation
-----------------------------------------------------------------------------
(* Properties.                                                             *)

Places == {"unborn", "subscribe", "check", "blocked", "connected", "reserving",
           "reserved", "attempt", "grace", "judge", "ending", "pruning", "over"}

LinkType ==
  /\ link \in [Remotes -> Links]
  /\ drops \in 0 .. MaxDrops

ViewType ==
  /\ born \in [Jobs -> Nat]
  /\ listed \in SUBSET Jobs
  /\ state \in [Jobs -> States]
  /\ event \in [Jobs -> [kind : Events, fs : 0 .. NRemotes]]
  /\ cancel \in [Jobs -> BOOLEAN]

TaskType ==
  /\ pc \in [Jobs -> Places]
  /\ side \in [Jobs -> 1 .. 2]
  /\ notified \in [Jobs -> BOOLEAN]
  /\ outcome \in [Jobs -> Results \cup {"none"}]

SlotType ==
  /\ held \in [Jobs -> SUBSET Slots]
  /\ ahead \in [Jobs -> SUBSET Jobs]

RunType ==
  /\ run \in [Jobs -> {"idle", "planning", "running", "asking", "stopping"}]
  /\ broken \in [Jobs -> SUBSET Remotes]
  /\ asked \in [Jobs -> 0 .. MaxConflicts]
  /\ pending \in [Jobs -> 0 .. MaxConflicts]
  /\ answer \in [Jobs -> [to : 0 .. MaxConflicts, says : {"none", "go", "cancel"}]]

TypeOK == LinkType /\ ViewType /\ TaskType /\ SlotType /\ RunType

\* "One job at a time per remote connection": two attempts under way (the
\* engine may still be winding down in its grace period) never use the same
\* server, whatever order the jobs name their servers in.
OneJobPerServer ==
  \A j, k \in Jobs :
    Attempting(j) /\ Attempting(k) /\ j # k => Uses(j) \cap Uses(k) \subseteq {Local}

\* MAX_RUNNING: "jobs running at once, across all filesystems".
AtMostMaxRunning == Cardinality({j \in Jobs : Attempting(j)}) <= MaxRunning

\* "Slots are held only while running: a paused job lets others go", and so
\* does one that is cancelled, retried or over; a job still waiting for a
\* server does "not hold a global slot".
SlotsHeldOnlyForRunning ==
  \A j \in Jobs :
    /\ held[j] # {} => pc[j] \in {"reserving", "reserved", "attempt", "grace"}
    /\ pc[j] = "reserving" => Global \notin held[j]

\* An answer is acted on only as the answer to the question it was given for:
\* a late answer to an earlier conflict never decides a later one.
AnswersReachTheirQuestion ==
  \A j \in Jobs : answer[j].to \in {0, asked[j]}

\* transfer_list and transfer_cancel reach every job that has not ended, and
\* of those that have, the newest KeepFinished: one is only forgotten for
\* that many newer ones.
ListKeepsTheNewest ==
  \A j \in Jobs : Started(j) /\ j \notin listed =>
    /\ Ended(state[j])
    /\ Cardinality({k \in listed : Ended(state[k]) /\ born[k] > born[j]})
         >= KeepFinished

\* A cancelled job ends, even while a server hangs, a question stays
\* unanswered, a connection is down or another job holds its slots.
CancelStops == \A j \in Jobs : cancel[j] ~> Ended(state[j])

\* No lost wakeup: when its connections are back for good, a job does not
\* stay paused, however the flag, the watcher and the check interleaved.
PausedJobsCarryOn ==
  \A j \in Jobs : <>[]AllConnected(j) => []<>(state[j] # "paused")

\* With servers that answer and a user who reconnects and replies, every job
\* ends: jobs that use the same servers in opposite directions neither
\* deadlock nor starve each other.
EveryJobEnds == \A j \in Jobs : Started(j) ~> Ended(state[j])

\* The queue implements the slot allocation it promises.
Slots1 == INSTANCE TransferSlots WITH
            active <- {j \in Jobs : pc[j] \in {"reserved", "attempt", "grace"}}
AllocatesSlots == Slots1!Spec

\* README: "jobs pause while a connection is down and carry on after
\* Reconnect": a job whose attempt failed because its connection went away
\* does not end failed.
LostConnectionsFailNoJob ==
  \A j \in Jobs : state[j] = "failed" => outcome[j] # "dropped"
=============================================================================

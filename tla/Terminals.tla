------------------------------ MODULE Terminals ------------------------------
(***************************************************************************)
(* One terminal session (src-tauri/src/session, broker.rs, commands.rs):   *)
(* what is typed waits in the session's channel for the side that writes   *)
(* it to a local shell, an SSH channel, a Telnet server or, through the    *)
(* elevated broker, an administrator's shell; what the shell prints comes  *)
(* back; and the session ends because the tab is closed, the shell exits   *)
(* or the connection is lost.  The list of sessions holds the only sender  *)
(* of the channel: a session that is not listed gets no more input.        *)
(*                                                                         *)
(* The shell echoes what it reads.  Everything between has little room, so *)
(* that writes wait.  A resize is input the shell does not get.            *)
(*                                                                         *)
(* A definition whose comment begins "Mutant" is not part of the           *)
(* specification.                                                          *)
(***************************************************************************)
EXTENDS Integers, Sequences

CONSTANTS
  Kinds,        \* subset of {"local", "ssh", "telnet", "elevated"}
  MaxTyped,     \* bound: what is typed, numbered
  Room          \* what a pseudo-terminal, a pipe or a window has room for

ASSUME TerminalAssumption ==
  /\ Kinds \subseteq {"local", "ssh", "telnet", "elevated"}
  /\ MaxTyped \in Nat /\ Room \in Nat \ {0}

Close == 0          \* SessionInput::Close, and a frame that says it is over

VARIABLES
  kind,
  listed,     \* the SessionManager has it
  typed,      \* how much has been typed
  closing,    \* the tab was closed
  inbox,      \* the channel's messages
  pending,    \* elevated: what was typed before the broker connected
  at,         \* how far the session is
  lease,      \* ssh: it holds its connection
  pump,       \* what takes the input: "none", "recv", "write", "over"
  writing,    \* ... and the message it writes
  tty,        \* input on its way to the shell
  shell,      \* "none", "runs" or "over"
  got,        \* what the shell read
  output,     \* what it printed and nobody read
  shown,      \* how much the tab was given
  reader,     \* what reads the output: "none", "reading", "over"
  exited,     \* the tab was told the session ended
  lost,       \* the connection was lost
  pipes,      \* elevated: the app has its ends of the pipes, of the input pipe
  broker,     \* elevated: the broker's main, input and output threads
  frames      \* elevated: frames to the broker (in) and back (out)

input == <<typed, closing, inbox>>
app == <<at, lease, pump, writing, reader, exited, pending>>
remote == <<tty, shell, got, output, lost>>
elevated == <<pipes, broker, frames>>
vars == <<kind, listed, input, app, remote, shown, elevated>>

Elevated == kind = "elevated"

\* What each create command leaves: a shell, or a task that goes for one.
LocalCreated ==
  /\ kind = "local" /\ at = "running" /\ lease = FALSE
  /\ pump = "recv" /\ reader = "reading" /\ shell = "runs"
Opening == pump = "none" /\ reader = "none" /\ shell = "none"
SshCreated == kind = "ssh" /\ at \in {"shared", "login"} /\ lease = (at = "shared") /\ Opening
TelnetCreated == kind = "telnet" /\ at = "connecting" /\ lease = FALSE /\ Opening
ElevatedCreated == kind = "elevated" /\ at = "connecting" /\ lease = FALSE /\ Opening

Init ==
  /\ kind \in Kinds
  /\ LocalCreated \/ SshCreated \/ TelnetCreated \/ ElevatedCreated
  /\ listed = TRUE /\ typed = 0 /\ closing = FALSE /\ inbox = <<>> /\ pending = <<>>
  /\ writing = Close /\ tty = <<>> /\ got = <<>> /\ output = <<>> /\ shown = 0
  /\ exited = FALSE /\ lost = FALSE
  /\ pipes = [app |-> Elevated, input |-> Elevated]
  /\ broker = [main |-> IF Elevated THEN "starting" ELSE "gone", in |-> "none", out |-> "none"]
  /\ frames = [in |-> <<>>, out |-> <<>>]

\* write_frame, which waits for room in the pipe, and read_frame.
Put(side, frame) == [frames EXCEPT ![side] = Append(@, frame)]
Rest(side) == [frames EXCEPT ![side] = Tail(@)]
-----------------------------------------------------------------------------
(* The tab *)

\* session_write and session_close: nothing is sent once it is not listed.
Type ==
  /\ listed /\ typed < MaxTyped
  /\ typed' = typed + 1 /\ inbox' = Append(inbox, typed + 1)
  /\ UNCHANGED <<kind, listed, closing, app, remote, shown, elevated>>

CloseTab ==
  /\ listed
  /\ inbox' = Append(inbox, Close) /\ listed' = FALSE /\ closing' = TRUE
  /\ UNCHANGED <<kind, typed, app, remote, shown, elevated>>
-----------------------------------------------------------------------------
(* The shell, at the other end *)

Echo ==
  /\ shell = "runs" /\ tty # <<>> /\ Len(output) < Room
  /\ tty' = Tail(tty) /\ got' = Append(got, Head(tty)) /\ output' = Append(output, Head(tty))
  /\ UNCHANGED <<kind, listed, input, app, shell, lost, shown, elevated>>

ShellExits ==
  /\ shell = "runs"
  /\ shell' = "over" /\ tty' = <<>>
  /\ UNCHANGED <<kind, listed, input, app, got, output, lost, shown, elevated>>

\* The connection: what was on its way is gone.
Lose ==
  /\ kind \in {"ssh", "telnet"} /\ shell = "runs"
  /\ shell' = "over" /\ tty' = <<>> /\ output' = <<>> /\ lost' = TRUE
  /\ UNCHANGED <<kind, listed, input, app, got, shown, elevated>>

\* What killing the shell, or closing its channel, does to it.
Killed == shell' = "over" /\ tty' = <<>>
-----------------------------------------------------------------------------
(* Taking the input *)

\* Mutant of Waiting: what came in later goes first.
LatestFirst == inbox \o pending
Waiting == pending \o inbox
InputEnded == Waiting = <<>> /\ ~listed

\* All but the local control thread and Telnet's loop have something between.
Take ==
  /\ pump = "recv" /\ Waiting # <<>>
  /\ Head(Waiting) # Close \/ Elevated
  /\ writing' = Head(Waiting) /\ pump' = "write"
  /\ IF pending # <<>> /\ Head(Waiting) = Head(pending)
     THEN pending' = Tail(pending) /\ UNCHANGED inbox
     ELSE inbox' = Tail(inbox) /\ UNCHANGED pending
  /\ UNCHANGED <<kind, listed, typed, closing, at, lease, reader, exited, remote, shown, elevated>>

\* A write that fails ends the pump.  To a closed SSH channel it does not
\* fail, unless the connection is gone.
Write ==
  /\ pump = "write" /\ ~Elevated
  /\ IF shell = "runs"
     THEN Len(tty) < Room /\ pump' = "recv" /\ tty' = Append(tty, writing)
     ELSE pump' = (IF kind = "ssh" /\ ~lost THEN "recv" ELSE "over") /\ UNCHANGED tty
  /\ writing' = Close
  /\ UNCHANGED <<kind, listed, input, at, lease, reader, exited, pending, shell, got, output, lost, shown, elevated>>

\* To the broker; with it the input pipe ends.
WriteFrame ==
  /\ pump = "write" /\ Elevated
  /\ LET failed == broker.in = "over" \/ broker.main = "gone" IN
     /\ failed \/ Len(frames.in) < Room
     /\ frames' = IF failed THEN frames ELSE Put("in", writing)
     /\ pump' = IF failed \/ writing = Close THEN "over" ELSE "recv"
     /\ pipes' = [pipes EXCEPT !.input = pump' # "over"]
  /\ writing' = Close
  /\ UNCHANGED <<kind, listed, input, at, lease, reader, exited, pending, remote, shown, broker>>

StopPump ==
  /\ pump = "recv"
  /\ InputEnded \/ (Waiting # <<>> /\ Head(Waiting) = Close /\ ~Elevated)
  /\ pump' = "over" /\ pipes' = [pipes EXCEPT !.input = FALSE]
  /\ UNCHANGED <<kind, listed, input, at, lease, writing, reader, exited, pending, remote, shown, broker, frames>>
-----------------------------------------------------------------------------
(* Reading the output *)

\* Telnet reads and writes in one loop.
Reads == kind = "telnet" => pump # "write"

Show ==
  /\ reader = "reading" /\ ~Elevated /\ Reads /\ output # <<>>
  /\ output' = Tail(output) /\ shown' = shown + 1
  /\ UNCHANGED <<kind, listed, input, app, tty, shell, got, lost, elevated>>
-----------------------------------------------------------------------------
(* Local shells: control, reader and waiter threads *)

\* The control thread's end kills the shell and lets go of the terminal.
Control ==
  /\ kind = "local" /\ pump = "over" /\ shell = "runs"
  /\ Killed
  /\ UNCHANGED <<kind, listed, input, app, got, output, lost, shown, elevated>>

\* A pseudo-terminal's output ends when the shell is over and nobody holds
\* the terminal: "release its PTY handles before we wait for output EOF".
ReaderEnds ==
  /\ kind = "local" /\ reader = "reading"
  /\ output = <<>> /\ shell = "over" /\ pump = "over"
  /\ reader' = "over"
  /\ UNCHANGED <<kind, listed, input, at, lease, pump, writing, exited, pending, remote, shown, elevated>>

Deregister ==
  /\ kind = "local" /\ at = "running" /\ shell = "over"
  /\ listed' = FALSE /\ at' = "joining"
  /\ UNCHANGED <<kind, input, lease, pump, writing, reader, exited, pending, remote, shown, elevated>>

\* Mutant of Joined: the exit is told without waiting for the output.
NotJoined == TRUE
Joined == reader = "over"
Report ==
  /\ kind = "local" /\ at = "joining" /\ Joined
  /\ exited' = TRUE /\ at' = "over"
  /\ UNCHANGED <<kind, listed, input, lease, pump, writing, reader, pending, remote, shown, elevated>>
-----------------------------------------------------------------------------
(* SSH shells and Telnet *)

Running ==
  /\ at' = "running" /\ pump' = "recv" /\ reader' = "reading" /\ shell' = "runs"
  /\ UNCHANGED <<kind, listed, input, writing, exited, pending, tty, got, output, lost, shown, elevated>>

\* open_or_login: on the shared connection, or on a login of its own.
OpenShell == kind = "ssh" /\ at \in {"shared", "opening"} /\ Running /\ UNCHANGED lease
SharedFails ==
  /\ at = "shared"
  /\ at' = "login" /\ lease' = FALSE
  /\ UNCHANGED <<kind, listed, input, pump, writing, reader, exited, pending, remote, shown, elevated>>
Login ==
  /\ at = "login"
  /\ at' = "opening" /\ lease' = TRUE
  /\ UNCHANGED <<kind, listed, input, pump, writing, reader, exited, pending, remote, shown, elevated>>

TelnetConnects == kind = "telnet" /\ at = "connecting" /\ Running /\ UNCHANGED lease

\* The error and the exit are told, then it is taken off the list.
Ends ==
  /\ at' = "over" /\ lease' = FALSE /\ exited' = TRUE /\ listed' = FALSE
  /\ pump' = "over" /\ reader' = "over"
OpeningFails ==
  /\ \/ kind = "ssh" /\ at \in {"login", "opening"}
     \/ kind = "telnet" /\ at = "connecting"
  /\ Ends
  /\ UNCHANGED <<kind, input, writing, pending, remote, shown, elevated>>

\* Mutant of Leave: the channel is not closed, only left.
LeaveChannel ==
  /\ at = "running" /\ kind \in {"ssh", "telnet"}
  /\ pump = "over" \/ (Reads /\ shell = "over" /\ output = <<>>)
  /\ Ends
  /\ UNCHANGED <<kind, input, writing, pending, remote, shown, elevated>>
\* drive_shell and run_session: the shell's end, or the input's.  The channel
\* is closed, "on a shared connection nothing else ends it".
Leave ==
  /\ at = "running" /\ kind \in {"ssh", "telnet"}
  /\ pump = "over" \/ (Reads /\ shell = "over" /\ output = <<>>)
  /\ Killed /\ Ends
  /\ UNCHANGED <<kind, input, writing, pending, got, output, lost, shown, elevated>>
-----------------------------------------------------------------------------
(* The elevated session, in the app *)

\* wait_for_pipe: what is typed is put by, and closing gives up.
PutBy ==
  /\ Elevated /\ at = "connecting" /\ inbox # <<>> /\ Head(inbox) # Close
  /\ inbox' = Tail(inbox) /\ pending' = Append(pending, Head(inbox))
  /\ UNCHANGED <<kind, listed, typed, closing, at, lease, pump, writing, reader, exited, remote, shown, elevated>>

GiveUp(told) ==
  /\ at' = "over" /\ pump' = "over" /\ reader' = "over" /\ listed' = FALSE /\ exited' = told
  /\ pipes' = [app |-> FALSE, input |-> FALSE]
  /\ UNCHANGED <<kind, input, lease, writing, pending, remote, shown, broker, frames>>
Cancelled == Elevated /\ at = "connecting" /\ inbox # <<>> /\ Head(inbox) = Close /\ GiveUp(FALSE)
ConnectTimesOut == Elevated /\ at = "connecting" /\ GiveUp(TRUE)

BrokerConnected ==
  /\ Elevated /\ at = "connecting" /\ broker.main # "starting"
  /\ at' = "running" /\ pump' = "recv" /\ reader' = "reading"
  /\ UNCHANGED <<kind, listed, input, lease, writing, exited, pending, remote, shown, elevated>>

\* The exit frame, or a pipe nobody writes to any more, ends the session.
ReadFrame ==
  /\ Elevated /\ reader = "reading"
  /\ LET frame == Head(frames.out) IN
     IF frames.out # <<>> /\ frame # Close
     THEN /\ shown' = shown + 1 /\ frames' = Rest("out")
          /\ UNCHANGED <<listed, reader, exited, at>>
     ELSE /\ frames.out # <<>> \/ broker.main = "gone"
          /\ listed' = FALSE /\ exited' = TRUE /\ reader' = "over" /\ at' = "over"
          /\ UNCHANGED <<shown, frames>>
  /\ UNCHANGED <<kind, input, lease, pump, writing, pending, remote, pipes, broker>>
-----------------------------------------------------------------------------
(* The broker *)

\* It opens both pipes and starts the shell, or it ends.
BrokerStarts ==
  /\ broker.main = "starting" /\ pipes.app
  /\ broker' = [broker EXCEPT !.main = "spawning"]
  /\ UNCHANGED <<kind, listed, input, app, remote, shown, pipes, frames>>
BrokerFails ==
  /\ broker.main \in {"starting", "spawning"}
  /\ broker' = [broker EXCEPT !.main = "gone"]
  /\ UNCHANGED <<kind, listed, input, app, remote, shown, pipes, frames>>
Spawn ==
  /\ broker.main = "spawning"
  /\ broker' = [main |-> "waiting", in |-> "reading", out |-> "reading"]
  /\ shell' = "runs"
  /\ UNCHANGED <<kind, listed, input, app, tty, got, output, lost, shown, pipes, frames>>

\* Its input thread: keystrokes, or the end, which kills the shell.
BrokerWrites ==
  /\ broker.in = "reading" /\ frames.in # <<>> /\ Head(frames.in) # Close
  /\ frames' = Rest("in")
  /\ IF shell = "over" THEN UNCHANGED tty
     ELSE Len(tty) < Room /\ tty' = Append(tty, Head(frames.in))
  /\ UNCHANGED <<kind, listed, input, app, shell, got, output, lost, shown, pipes, broker>>

\* Mutant of Stops: only the frame that says so stops the shell.
StopsWhenTold == frames.in # <<>> /\ Head(frames.in) = Close
Stops == IF frames.in = <<>> THEN ~pipes.input ELSE Head(frames.in) = Close
BrokerStops ==
  /\ broker.in = "reading" /\ Stops
  /\ broker' = [broker EXCEPT !.in = "over"]
  /\ Killed
  /\ UNCHANGED <<kind, listed, input, app, got, output, lost, shown, pipes, frames>>

BrokerPrints ==
  /\ broker.out = "reading"
  /\ IF output # <<>> /\ pipes.app
     THEN /\ Len(frames.out) < Room
          /\ frames' = Put("out", Head(output)) /\ output' = Tail(output)
          /\ UNCHANGED broker
     ELSE /\ output # <<>> \/ (shell = "over" /\ broker.in = "over")
          /\ broker' = [broker EXCEPT !.out = "over"]
          /\ UNCHANGED <<frames, output>>
  /\ UNCHANGED <<kind, listed, input, app, tty, shell, got, lost, shown, pipes>>

\* "Wait for the shell, drain its output, then tell the app it exited."
BrokerEnds ==
  /\ broker.main = "waiting" /\ shell = "over" /\ broker.out = "over"
  /\ pipes.app => Len(frames.out) < Room
  /\ frames' = IF pipes.app THEN Put("out", Close) ELSE frames
  /\ broker' = [main |-> "gone", in |-> "over", out |-> "over"]
  /\ UNCHANGED <<kind, listed, input, app, remote, shown, pipes>>
-----------------------------------------------------------------------------
Input == Take \/ Write \/ WriteFrame \/ StopPump
Local == Control \/ ReaderEnds \/ Deregister \/ Report
Network == OpenShell \/ SharedFails \/ Login \/ TelnetConnects \/ OpeningFails \/ Leave
Admin == PutBy \/ Cancelled \/ ConnectTimesOut \/ BrokerConnected \/ ReadFrame
Broker == BrokerStarts \/ BrokerFails \/ Spawn \/ BrokerStops \/ BrokerEnds

Next ==
  \/ Type \/ CloseTab \/ Echo \/ ShellExits \/ Lose
  \/ Input \/ Show \/ Local \/ Network \/ Admin \/ Broker \/ BrokerWrites \/ BrokerPrints

\* Every thread runs, and opening ends one way or another.  Nobody has to type
\* or close, and no shell has to exit or to read what is typed.
Fairness ==
  /\ WF_vars(Input) /\ WF_vars(Show) /\ WF_vars(Local) /\ WF_vars(Network)
  /\ WF_vars(Admin) /\ WF_vars(Broker) /\ WF_vars(BrokerWrites) /\ WF_vars(BrokerPrints)

Spec == Init /\ [][Next]_vars /\ Fairness
-----------------------------------------------------------------------------
\* The shell reads what was typed in the order it was typed, nothing left
\* out, also what was typed before there was a shell.
TypedInOrder == \A i \in DOMAIN got : got[i] = i

\* The exit is the last a tab hears of a session, and when the shell exits
\* by itself the tab has been given all it printed.  (Telnet's loop stops at
\* a write that fails, whatever is left to read.)
ExitIsLast == exited =>
  /\ reader = "over"
  /\ ~closing /\ ~lost /\ kind # "telnet" => shown = Len(got)

\* Nothing of the session is left: no shell, no thread, no lease.
Over ==
  /\ shell # "runs" /\ pump = "over" /\ reader = "over" /\ ~lease
  /\ at = "over" /\ broker.main = "gone"

\* A write waits for a shell that does not read: SSH's writer.data, Telnet's
\* and a local shell's write_all, the broker's.
WriteWaits ==
  /\ shell = "runs" /\ Len(tty) = Room
  /\ IF Elevated THEN frames.in # <<>> /\ Head(frames.in) # Close ELSE pump = "write"

\* Reading never waits for writing: "a write waiting for window space must never
\* stop this loop from reading" (ssh.rs).  Telnet's one loop does wait, for a
\* server that does not read.
ReadingGoesOn ==
  output # <<>> /\ at = "running" ~>
    output = <<>> \/ at # "running" \/ (kind = "telnet" /\ []WriteWaits)

\* Closing a tab ends all of its session, a session that ends by itself says
\* so, and what is typed comes as far as the shell's terminal, unless a write
\* waits for good: the closing then waits behind it (ClosingEnds), while what the
\* shell says is read all the same.  A shell that exits in a broker is BrokerTells.
SessionsEnd ==
  /\ closing ~> Over \/ []WriteWaits
  /\ shell = "over" /\ ~Elevated ~> exited
  /\ listed /\ typed = MaxTyped ~>
       Len(got) + Len(tty) = MaxTyped \/ shell = "over" \/ at = "over" \/ []WriteWaits
  /\ ReadingGoesOn

\* Closing a tab ends all of its session, whatever its shell does: the frame that
\* says so is to "stop the elevated shell now (the tab was closed)" (proto.rs).
ClosingEnds == closing ~> Over

\* An administrator's shell that exits is reported: "Wait for the shell, drain
\* its output, then tell the app it exited."
BrokerTells == Elevated /\ shell = "over" /\ at = "running" ~> exited
=============================================================================

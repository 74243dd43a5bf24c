---------------------------- MODULE TelnetSession ----------------------------
(***************************************************************************)
(* A terminal session whose Telnet kind negotiates an option while it      *)
(* runs: one loop takes the server's commands, its output and the input.   *)
(***************************************************************************)
EXTENDS Terminals, Telnet

sessionVars == <<vars, telnetVars>>

SessionInit == Init /\ TelnetInit /\ (kind # "telnet" => opt = CHOOSE o \in Options : TRUE)

\* run_session's loop: a command waits while something is being written.
Loop ==
  /\ kind = "telnet" /\ at = "running" /\ Reads
  /\ Receive \/ Resize
Server == kind = "telnet" /\ at = "running" /\ shell = "runs" /\ Serve

SessionNext ==
  \/ Next /\ UNCHANGED telnetVars
  \/ (Loop \/ Server) /\ UNCHANGED vars

SessionFairness ==
  /\ Fairness
  /\ WF_telnetVars(Loop /\ Receive)
  /\ WF_telnetVars(Server /\ ServerReceives)

SessionSpec == SessionInit /\ [][SessionNext]_sessionVars /\ SessionFairness
-----------------------------------------------------------------------------
\* Negotiating comes to an end while the session runs: the two sides do not
\* answer one another for ever, and what they agree on then is so for both,
\* unless the loop waits for good to write to a server that does not read.
OptionsAgree ==
  <>[](at = "running" /\ kind = "telnet" /\ shell = "runs" => Agreed \/ WriteWaits)

\* What is typed reaches the shell in its order, also what was typed before
\* there was a shell, and a Telnet peer reads it, and the window's size, as
\* they are: no byte of them is taken for a command.  (The second does not
\* depend on the state: it is evaluated where a session starts.)
TypedArrives == TypedInOrder /\ (typed = 0 /\ at = "connecting" => Survives)
=============================================================================

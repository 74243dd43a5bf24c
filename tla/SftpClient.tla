------------------------------ MODULE SftpClient ------------------------------
(***************************************************************************)
(* The SFTP client (src-tauri/src/sftp/client.rs): callers register a      *)
(* waiter and queue a packet, one task writes packets, one reads replies   *)
(* and hands them to waiters by id, and the session ends from any side     *)
(* while requests are being made, answered and abandoned.                  *)
(*                                                                         *)
(* A caller either stats a file or lists a folder (opendir, readdir until  *)
(* the end, close).  The server answers in any order, and its replies wait *)
(* in a channel with little room.                                          *)
(*                                                                         *)
(* A definition whose comment begins "Mutant" is not part of the           *)
(* specification.                                                          *)
(***************************************************************************)
EXTENDS SftpProtocol

CONSTANTS
  Callers,
  Does,         \* what each may begin: "stat", "opendir"
  MaxRequests,  \* bound: requests of a session, far below the 2^32 ids
  Window        \* replies the channel has room for

ASSUME ClientAssumption == MaxRequests \in Nat /\ Window \in Nat \ {0}
                           /\ Does \in [Callers -> SUBSET {"stat", "opendir"}]
                           /\ \A c \in Callers : c \notin {"nobody", "dropped"}

VARIABLES
  nextId,
  waiters,    \* id -> the caller that waits for it
  closed,     \* the session has ended (the first reason is kept, to be shown)
  call,       \* what each caller does
  outgoing,   \* packets for the writing task
  reader, writer,
  atServer,   \* requests the server has not answered
  handles,    \* the folders the server keeps open
  inbound,    \* replies on their way
  channel     \* "open", "half" (our side ended), "closed" or "lost"

vars == <<nextId, waiters, closed, call, outgoing, reader, writer, atServer,
          handles, inbound, channel>>

\* What is in a caller's oneshot: nothing yet, nothing ever, or a reply.
Empty == [id |-> 0, by |-> "nobody", reply |-> Malformed]
Dropped == [id |-> 0, by |-> "dropped", reply |-> Malformed]
Idle == [at |-> "idle", doing |-> "none", id |-> 0, slot |-> Empty, handle |-> 0,
         over |-> FALSE]

Init ==
  /\ nextId = 1 /\ waiters = <<>> /\ closed = FALSE
  /\ call = [c \in Callers |-> Idle]
  /\ outgoing = <<>> /\ reader = "reading" /\ writer = "writing"
  /\ atServer = {} /\ handles = {} /\ inbound = <<>> /\ channel = "open"

With(id, c) == [i \in DOMAIN waiters \cup {id} |-> IF i = id THEN c ELSE waiters[i]]
Without(ids) == [i \in DOMAIN waiters \ ids |-> waiters[i]]
-----------------------------------------------------------------------------
(* Callers *)

\* A caller's next request: of what it is at, or the first of something new.
Request(c, what) ==
  IF call[c].at = "build" THEN what = call[c].doing
  ELSE call[c].at = "idle" /\ what \in Does[c]

\* Mutant of Register: whether the session has ended is not asked.
RegisterAnyway(c, what) ==
  /\ Request(c, what) /\ nextId <= MaxRequests
  /\ nextId' = nextId + 1
  /\ waiters' = With(nextId, c)
  /\ call' = [call EXCEPT ![c].at = "queue", ![c].over = FALSE, ![c].doing = what, ![c].id = nextId]
  /\ UNCHANGED <<closed, outgoing, reader, writer, atServer, handles, inbound, channel>>
\* send: check and register under the waiters' lock.
Register(c, what) ==
  /\ Request(c, what) /\ nextId <= MaxRequests
  /\ nextId' = nextId + 1
  /\ waiters' = IF ~closed THEN With(nextId, c) ELSE waiters
  /\ call' = [call EXCEPT ![c].over = FALSE, ![c].doing = what, ![c].id = nextId,
                          ![c].at = IF ~closed THEN "queue" ELSE "wait",
                          ![c].slot = IF ~closed THEN Empty ELSE Dropped]
  /\ UNCHANGED <<closed, outgoing, reader, writer, atServer, handles, inbound, channel>>

\* ... then queue the packet, which fails once the writing task is over.
Queue(c) ==
  LET gone == writer = "over" IN
  /\ call[c].at = "queue"
  /\ outgoing' = IF gone THEN outgoing
                 ELSE Append(outgoing, [id |-> call[c].id, by |-> c, doing |-> call[c].doing,
                                        handle |-> call[c].handle])
  /\ waiters' = IF gone THEN Without({call[c].id}) ELSE waiters
  /\ call' = [call EXCEPT ![c].at = "wait",
                          ![c].slot = IF gone /\ @.by = "nobody" THEN Dropped ELSE @]
  /\ UNCHANGED <<nextId, closed, reader, writer, atServer, handles, inbound, channel>>

\* Mutant of Listing: a listing that fails leaves its folder open.
ListingLeft(k, outcome) ==
  IF outcome = "ok" THEN [k EXCEPT !.at = "build"]
  ELSE IF outcome = "end" THEN [k EXCEPT !.at = "build", !.doing = "close"]
  ELSE [Idle EXCEPT !.handle = k.handle, !.over = TRUE]
\* read_dir: more of it, or on to closing the folder, however it ended.
Listing(k, outcome) ==
  IF outcome = "ok" THEN [k EXCEPT !.at = "build"]
  ELSE [k EXCEPT !.at = "build", !.doing = "close"]

\* A caller gets the reply, or that the session is lost.
Resolved(k) ==
  LET outcome == IF k.slot.by = "dropped" THEN "ConnectionAborted"
                 ELSE Outcome(k.doing, k.slot.reply)
      ended == [Idle EXCEPT !.handle = k.handle, !.over = TRUE]
  IN CASE k.doing = "stat" -> Idle
       [] k.doing = "opendir" -> IF outcome = "ok"
                                 THEN [k EXCEPT !.at = "build", !.doing = "readdir",
                                                !.handle = k.slot.id]
                                 ELSE Idle
       [] k.doing = "readdir" -> Listing(k, outcome)
       [] k.doing = "close" -> ended

Poll(c) ==
  /\ call[c].at = "wait" /\ call[c].slot.by # "nobody"
  /\ call' = [call EXCEPT ![c] = [Resolved(call[c]) EXCEPT !.slot = Empty]]
  /\ UNCHANGED <<nextId, waiters, closed, outgoing, reader, writer, atServer, handles, inbound, channel>>

\* Mutant of Abandon: the waiter stays.
AbandonOnly(c) ==
  /\ call[c].at = "wait"
  /\ call' = [call EXCEPT ![c] = Idle]
  /\ UNCHANGED <<nextId, waiters, closed, outgoing, reader, writer, atServer, handles, inbound, channel>>
\* Pending is dropped: the request is forgotten.
Abandon(c) ==
  /\ call[c].at = "wait"
  /\ waiters' = Without({call[c].id})
  /\ call' = [call EXCEPT ![c] = Idle]
  /\ UNCHANGED <<nextId, closed, outgoing, reader, writer, atServer, handles, inbound, channel>>
-----------------------------------------------------------------------------
(* Ending the session: the reason first, then the waiters.                 *)

SetClosed == closed' = TRUE

ClearWaiters ==
  /\ waiters' = <<>>
  /\ call' = [c \in Callers |->
                IF \E i \in DOMAIN waiters : waiters[i] = c /\ call[c].id = i
                THEN [call[c] EXCEPT !.slot = Dropped] ELSE call[c]]

\* The last owner of the client is gone; boxed requests may outlive it.
DropClient ==
  /\ \A c \in Callers : call[c].at # "idle" =>
       call[c].at = "wait" /\ call[c].doing = "stat"
  /\ ~closed
  /\ SetClosed
  /\ ClearWaiters
  /\ UNCHANGED <<nextId, outgoing, reader, writer, atServer, handles, inbound, channel>>
-----------------------------------------------------------------------------
(* The writing task *)

Write ==
  /\ writer = "writing" /\ outgoing # <<>> /\ channel = "open"
  /\ atServer' = atServer \cup {Head(outgoing)}
  /\ outgoing' = Tail(outgoing)
  /\ UNCHANGED <<nextId, waiters, closed, call, reader, writer, handles, inbound, channel>>

WriteFails ==
  /\ writer = "writing" /\ outgoing # <<>> /\ channel # "open"
  /\ SetClosed
  /\ writer' = "failing"
  /\ UNCHANGED <<nextId, waiters, call, outgoing, reader, atServer, handles, inbound, channel>>

WriterCloses ==
  /\ writer = "failing"
  /\ ClearWaiters
  /\ writer' = "over" /\ outgoing' = <<>>
  /\ UNCHANGED <<nextId, closed, reader, atServer, handles, inbound, channel>>

\* The session ended: the channel is ended politely.
WriterEnds ==
  /\ writer = "writing" /\ closed
  /\ writer' = "over" /\ outgoing' = <<>>
  /\ channel' = IF channel = "open" THEN "half" ELSE channel
  /\ UNCHANGED <<nextId, waiters, closed, call, reader, atServer, handles, inbound>>
-----------------------------------------------------------------------------
(* The reading task *)

\* Mutant of WaiterOf: the reply goes to whoever asked first.
OldestWaiter(id) == {i \in DOMAIN waiters : \A j \in DOMAIN waiters : i <= j}
WaiterOf(id) == {id} \cap DOMAIN waiters

\* A reply, or the error of one that makes no sense but has an id.
Receive ==
  /\ reader = "reading" /\ inbound # <<>> /\ Head(inbound).id # 0
  /\ inbound' = Tail(inbound)
  /\ waiters' = Without(WaiterOf(Head(inbound).id))
  /\ call' = [c \in Callers |->
                IF \E i \in WaiterOf(Head(inbound).id) : waiters[i] = c
                THEN [call[c] EXCEPT !.slot = Head(inbound)] ELSE call[c]]
  /\ UNCHANGED <<nextId, closed, outgoing, reader, writer, atServer, handles, channel>>

\* A packet that breaks the framing, the end of the channel, or its loss.
ReaderStops ==
  /\ reader = "reading"
  /\ \/ inbound # <<>> /\ Head(inbound).id = 0 /\ inbound' = Tail(inbound)
     \/ inbound = <<>> /\ channel \in {"closed", "lost"} /\ UNCHANGED inbound
  /\ SetClosed
  /\ reader' = "closing"
  /\ UNCHANGED <<nextId, waiters, call, outgoing, writer, atServer, handles, channel>>

ReaderCloses ==
  /\ reader = "closing"
  /\ ClearWaiters
  /\ reader' = "draining"
  /\ UNCHANGED <<nextId, closed, outgoing, writer, atServer, handles, inbound, channel>>

\* "Keep reading until the channel closes: SSH stops the whole connection ...
\* while one channel's data goes unread."
Drain ==
  /\ reader = "draining" /\ inbound # <<>>
  /\ inbound' = Tail(inbound)
  /\ UNCHANGED <<nextId, waiters, closed, call, outgoing, reader, writer, atServer, handles, channel>>
-----------------------------------------------------------------------------
(* The server and the connection *)

Performed(r) ==
  CASE r.doing = "opendir" -> handles \cup {r.id}
    [] r.doing = "close" -> handles \ {r.handle}
    [] OTHER -> handles

\* A handle is the id of the opendir it answers.  The server does what it was
\* asked, refuses, or sends what makes no sense.
Good(r) ==
  CASE r.doing = "stat" -> {Reply("ATTRS", "attrs")}
    [] r.doing = "opendir" -> {Reply("HANDLE", "handle")}
    [] r.doing = "readdir" -> {Reply("NAME", "entries"), Status("EOF")}
    [] r.doing = "close" -> {Status("OK")}
Bad(r) == IF r.doing \in {"stat", "close"} THEN Malformed ELSE Status("FAILURE")

Serve(r) ==
  LET Send(reply) == inbound' = Append(inbound, [id |-> r.id, by |-> r.by, reply |-> reply]) IN
  /\ channel \in {"open", "half"} /\ Len(inbound) < Window
  /\ atServer' = atServer \ {r}
  /\ \/ \E reply \in Good(r) : Send(reply) /\ handles' = Performed(r)
     \/ Send(Bad(r)) /\ handles' = IF r.doing = "opendir" THEN handles ELSE Performed(r)
  /\ UNCHANGED <<nextId, waiters, closed, call, outgoing, reader, writer, channel>>

\* A packet whose length is impossible, or that is too short for an id.
BreakFraming ==
  /\ channel \in {"open", "half"} /\ Len(inbound) < Window /\ atServer # {}
  /\ \E r \in atServer : atServer' = atServer \ {r}
  /\ inbound' = Append(inbound, [id |-> 0, by |-> "nobody", reply |-> Malformed])
  /\ UNCHANGED <<nextId, waiters, closed, call, outgoing, reader, writer, handles, channel>>

\* Our side has ended: the server closes its own once it has answered.
ServerCloses ==
  /\ channel = "half" /\ atServer = {}
  /\ channel' = "closed" /\ handles' = {}
  /\ UNCHANGED <<nextId, waiters, closed, call, outgoing, reader, writer, atServer, inbound>>

Lose ==
  /\ channel \in {"open", "half"}
  /\ channel' = "lost" /\ atServer' = {} /\ handles' = {}
  /\ UNCHANGED <<nextId, waiters, closed, call, outgoing, reader, writer, inbound>>

Answer == \E r \in atServer : Serve(r)
Work(c) == Queue(c) \/ Poll(c) \/ (call[c].at = "build" /\ Register(c, call[c].doing))
Writing == Write \/ WriteFails \/ WriterCloses \/ WriterEnds
Reading == Receive \/ ReaderStops \/ ReaderCloses \/ Drain

Next ==
  \/ \E c \in Callers : \/ \E what \in {"stat", "opendir", "readdir", "close"} : Register(c, what)
                        \/ Queue(c) \/ Poll(c) \/ Abandon(c)
  \/ DropClient \/ Writing \/ Reading
  \/ Answer \/ BreakFraming \/ ServerCloses \/ Lose

\* Both tasks run, a caller that has something to do is polled, and a server
\* answers, and closes a channel that was ended.  Nothing has to end.
Fairness ==
  /\ WF_vars(Writing) /\ WF_vars(Reading) /\ WF_vars(Answer) /\ WF_vars(ServerCloses)
  /\ \A c \in Callers : WF_vars(Work(c))

Spec == Init /\ [][Next]_vars /\ Fairness
-----------------------------------------------------------------------------
\* The reply a caller gets is the server's answer to what it asked, in
\* whatever order answers come and requests are given up.
RepliesMatch == \A c \in Callers :
  call[c].slot.by \notin {"nobody", "dropped"} => call[c].slot.by = c /\ call[c].slot.id = call[c].id

\* The table of waiters holds nobody who is not waiting, and nobody at all
\* once the session is over: an ended or abandoned request leaves nothing.
WaitersAreCalls ==
  /\ \A i \in DOMAIN waiters :
       call[waiters[i]].id = i /\ call[waiters[i]].at \in {"queue", "wait"}
  /\ reader = "draining" => DOMAIN waiters = {}

\* A folder whose listing came to an end, well or not, is not left open on a
\* server that goes on.
FoldersAreClosed == \A c \in Callers :
  call[c].over /\ call[c].at = "idle" /\ ~closed => call[c].handle \notin handles

\* Every request comes to an end, however the session does, and a channel
\* that was ended is closed, for which everything in it has to be read.
RequestsEnd ==
  /\ \A c \in Callers : call[c].at = "wait" ~> call[c].at # "wait"
  /\ channel = "half" ~> channel \in {"closed", "lost"}
=============================================================================

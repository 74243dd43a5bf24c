# CorePTY in TLA+

CorePTY (`src-tauri/`, Rust; `src/`, TypeScript) is a desktop application with
terminal tabs (local shells, SSH, Telnet) and a two-panel file manager for this
machine and SFTP servers.  This directory holds TLA+ modules that model its
concurrent and failure-prone parts, TLC configurations that check them on small
instances, and proofs for TLAPS.

    tlc -workers 2 -config QueueEnds.cfg MCTransferQueue
    tlapm TransferQueueProofs.tla

`PROJECT.json` maps every definition to the source lines it stands for, and
lists the runs, the properties with a mutant each of them notices, the hazards
and the findings.

Contents: [the system](#the-system) · [modules](#the-modules) ·
[runs](#what-the-runs-check) · [fairness](#fairness) · [proofs](#what-is-proved) ·
[findings](#findings) · [limits](#what-is-not-modelled) · [plan](#plan)

## The system

Paths of Rust files are relative to `src-tauri/src/`, of TypeScript to `src/`.

| component | state | operations | what makes it hard |
|---|---|---|---|
| Transfer queue (`transfer/queue.rs`, `transfer/mod.rs`) | the list of jobs; per job its state, cancel flag, pending question; a semaphore per server and a global one | start, cancel, resolve, list; one task per job: wait for connections, reserve slots, run the engine, judge its failure, start over | tasks, watchers and commands interleave; jobs between the same servers in opposite directions; connections drop at any moment; cancelling must end a job wherever it waits |
| Transfer engine (`transfer/engine.rs`) | the walk over the sources, the ledger of what earlier attempts did, claims on `.filepart`s, "apply to all" answers | plan, place, decide (ask), stage, copy, rename into place, make and remove folders, remove moved sources | runs again from the start after a drop; an answer may be lost after its request took effect; several jobs write to one folder; a move removes what it copied |
| SFTP file pipelines (`sftp/file.rs`) | requests in flight, offsets, short answers | read, write, flush, close | answers out of order and short; writes in flight when the session dies may be carried out later or never |
| SFTP client, protocol (`sftp/client.rs`, `sftp/protocol.rs`) | request ids, waiters, the reason it closed | one method per request; reader and writer tasks | registering a request against closing; ids wrap |
| SFTP filesystem, mount (`vfs/sftp.rs`, `vfs/mount.rs`) | main and bulk session; the current session, a watched flag, the reconnecting lock | the operations of `Vfs`; replace, watch | sessions end between two steps; a replaced session's end must not mark the new one |
| SFTP sessions (`sftp/commands.rs`) | open filesystems: mount, connection, server, users | sftp_connect, sftp_reconnect, sftp_close, sftp_retain, SessionUse | reference counting across awaits; reconnects and openings race; a login elsewhere |
| SSH connections (`connections.rs`) | connections by id, users, generations | connect, attach, release, lost; host keys | a drop, the last release and a new connection race |
| Edit sessions (`edit.rs`) | per copy: stamps of the server's file and of the copy, what was tried, kept, asked | open, poll, upload, retry, ask, close | another writer on the server; retries; closing while uploading |
| Virtual filesystem, local files (`vfs/`) | none but the registry | rename, replace, remove, set modes, sizes; path translation | a few system calls each, between which others act and any may fail; links; names Windows cannot store |
| Terminal sessions (`session/`, `broker.rs`) | sessions by id, input queues; Telnet's negotiation | start, input, resize, close; a task each | a paste while output floods; options negotiated for ever; elevated sessions through pipes |
| Store (`store.rs`, settings) | connections, tabs and settings in files, secrets in the keychain | read, change, write through a temporary file, migrate, offer tabs again | a crash while writing; two stores that change together; several windows |
| Shell integration (`context.rs`, `commands.rs`, `lib.rs`) | none | which session runs in which shell; how to start it again; wiring | process ids go to other processes between two looks |
| File manager panels (`fm/`) | per tab: claims, two panels, the queue's questions | navigate, open, reconnect, ask, dispose | awaits between reading and using state; disposing with calls under way |
| Application shell (`app.ts`, `restore*.ts`, `terminal.ts`, `ipc.ts`) | tabs, snapshots | open, close, duplicate, restore | snapshots taken across awaits |

What makes each correct:

* queue: at most `MAX_RUNNING` attempts, one per server, slots held only while
  running; answers go to the question they were given for; a cancelled job ends,
  a paused one carries on, jobs that cross don't block each other;
* engine: one writer per file; a placed file is one source's, whole; what is moved
  is at the target before it leaves the source; nothing is replaced unasked, by
  this attempt or the next; "done" means everything;
* pipelines: bytes arrive in order and up to the end; no hole below the point a
  copy resumes from;
* client: a request is answered once, by its own answer, or fails; none hangs;
* mount and sessions: a filesystem is open exactly while it is used, and its id
  always means the server it was opened on; every call ends;
* connections: hung up with the last lease and not before;
* edit sessions: no one else's version is overwritten unasked; no save is lost;
* terminals: input in order, reading never waits for writing, negotiation ends;
* local files: a replacement leaves the old or the new; a walk takes only what it was
  asked about and ends; a name survives its way to any system and back;
* store and restore: a file is the old or the new one; no secret without its
  connection; tabs are offered once their window is gone, and as what they were;
* panels: the folder shown is the last one asked for; one question at a time.

How they interact: a panel calls commands (`invoke`); `transfer_start` gives a
job to the queue with a `SessionUse` that keeps its servers open; the job's task
runs the engine over two `Vfs` objects, a remote one being a mount; the mount
passes requests to its current SFTP session, which shares an SSH connection with
terminals through leases; a dropped connection ends the session, the mount's
watcher clears its flag, jobs pause and panels show a banner; a reconnect
replaces the session in the same mount, and jobs carry on.  Questions go from
the engine through the queue's oneshot channel to the panel's dialog and back.

## The modules

    TransferSlots <- TransferQueue <- TransferQueueProofs, MCTransferQueue
    SftpReader, SftpUpload <- ResumableCopy <- MCResumableCopy
    ResumableCopy <- ResumableCopyProofs (about SftpUpload too)
    TargetFolder <- TransferEngine <- TransferEngineProofs, MCTransferEngine
    TargetFolder <- OneFilesystem <- MCOneFilesystem
    PanelClaims <- SftpSessions <- SftpSessionsProofs, MCSftpSessions
    EditSession <- EditSessionProofs
    SftpProtocol <- SftpClient <- MCSftpClient <- SftpClientProofs
    Terminals, Telnet <- TelnetSession <- TerminalsProofs
    VfsPaths <- LocalFs <- MCLocalFs (which looks at MCOneFilesystem too)
    SavedState, ClaudeOptions, ProcessTable <- MCSavedState;  SavedState <- SavedStateProofs

Definitions introduced by a comment "Mutant of X" are not part of a
specification: each is a plausible bug in the code X stands for, kept beside it
to show which property would notice.

**TransferQueue** models `queue.rs`.  `pc[j]` is where `run_job` stands in job
j's task: `subscribe`/`check`/`blocked` are `until_connected`,
`reserving`/`reserved` are `reserve`, `attempt`/`grace` are `attempt`, `judge`,
`ending` and `pruning` the end of `run_job`.  `link[f]` tells a connection that
is up, lost (the transport is gone and nobody noticed), ended (the session
noticed) and down (the mount's flag followed).  The engine is what the queue
sees: it plans, may ask, and returns one of four results.  `AtMostMaxRunning`,
`OneJobPerServer`, `SlotsHeldOnlyForRunning` are about slots;
`AnswersReachTheirQuestion`, `ListKeepsTheNewest` about the commands;
`CancelStops`, `PausedJobsCarryOn`, `EveryJobEnds` are its liveness.  Pruning
reads the jobs' states twice in the code and once in the model: between the two
reads a job can only end, which would keep it for one more round.

**TransferSlots** is the abstract promise of the slots: a set of active jobs that
grows by one job at a time, at most `MaxRunning` and no two on one server.
`TransferQueue!AllocatesSlots` states that the queue implements it.

**SftpReader**, **SftpUpload** model `sftp/file.rs`: requests in flight by offset,
answers in any order and of any length, the end of file probed; writes of chunks,
of which each may have been carried out, be carried out after the session's end
(`late`) or never.  **ResumableCopy** is `Engine::stream` and `staging` for one
big file: attempts that are cut short, each resuming the `.filepart` one overlap
below its size.  `Uploads` states that it implements SftpUpload's specification.

**TargetFolder** models a folder as the engine sees it: proper names, numbered
names, partials and hidden temporaries as constructors instead of strings; an
entry records what data it has and which job wrote it.  **TransferEngine** is the
engine between two filesystems for any number of jobs.  A step is one request and
what the engine does with its answer; for requests that change something, effect
and answer are two steps, between which the connection may drop.  `seen` is
history: what users agreed to replace and what jobs relied on.

**OneFilesystem** is the engine within one filesystem, where a move renames, a
link is made again, and an item may meet itself or the folder it is in.  What is
hard there is recursion over a disk that the recursion changes, not concurrency,
so a transfer is a function of the disk and the job: `Transfer` calls itself
through `TransferFolder` as the code's does.  One call that changes the disk may
fail.  Renaming and replacing are one step each (LocalFs has their steps), and
links lead to paths without links.

**PanelClaims** is `fm/claims.ts` as operators on one tab's record.
**SftpSessions** models `sftp/commands.rs` with the mounts, the connections, SSH
tabs, panels and jobs around it.  An action is what happens between two awaits
or under one lock.  `op[p]` is the call a panel is in, `rec[t]` a tab's
reconnect, `closes` counts `sftp_close` calls on their way.  Destructors are not
actions: which connections are in use follows from the state (`InUse`), and the
step that lets go of the last lease hangs up (`HangUp`).  A panel is in one
navigation at a time; overlapping navigations of one panel are two panels of one
tab, whose claims count alike.  `sftp_retain`, `sftp_close` and `transfer_start`
are synchronous commands and run on the main thread one at a time
(`MainThreadFree`).  The server of a filesystem never changes under its id, so
`GoesBack` looks when the login ends what the code reads before it.

**EditSession** models `edit.rs`: one copy, opened or edited, from its first look
at the server's file to the end of its watcher.  `server` is the version on the
server (who wrote it and which write it was; stamps tell versions apart),
`local` the copy's last save; `session.at` is where the watcher stands in its
loop and in `upload`, whose requests have an effect and an answer; `shared` is
what the watcher publishes for `unsynced`, which quitting reads.

**SftpProtocol** is `sftp/protocol.rs` with packets as sequences of fields, and
what the client takes for an answer to which request.  **SftpClient** is
`sftp/client.rs`: callers register a waiter and queue a packet, one task writes,
one reads; requests are given up; the session ends from either side, by a broken
packet, or because the channel is gone.  The server answers in any order into a
channel with little room.

**Terminals** is one session of each kind (`session/local.rs`, `ssh.rs`,
`telnet.rs`, `elevated.rs` with `broker.rs` and its protocol), from `session_start`
to the tab's last event.  `input` is the session's channel; what lies between us
and the shell has room for `Room`, so that writes wait.  **Telnet** is the
client's parser, its answers to options and its encoding, and a server that keeps
to RFC 1143 and changes its mind; **TelnetSession** composes the two: one loop
takes commands, output and input.

**VfsPaths** is `vfs/path.rs`: a text is a sequence of characters, because the
property is about what characters become ("con" is any device name, "bad" what
the other side cannot spell).  **LocalFs** is `vfs/local.rs` and the fs_*
commands that change files: `calls[c].step` is the system call a command is at,
and the calls of two commands interleave.  The disk has links, modes and
spellings that differ in case only; a system call may fail for a reason of its own.

**SavedState** is `store.rs` with its callers in `app.ts`, `profile.ts`,
`connections.ts` and `restore-ui.ts`: windows, which are processes of their own,
the three files and the keychain.  A file is written beside its name, synced and
renamed; a window is killed, power fails, and process ids go to others.
**ClaudeOptions** and **ProcessTable** are `context.rs`: which command line a Claude
session is started again with, and which session runs in which shell.

## What the runs check

| run | instance | properties | shows |
|---|---|---|---|
| queue_ends | two crossing jobs, room for both, one drop, servers that answer | AllocatesSlots, EveryJobEnds | the queue implements TransferSlots; every job ends |
| queue_live | one job between two servers, two questions, three drops | AnswersReachTheirQuestion, CancelStops, PausedJobsCarryOn | answers reach their question; cancelling ends the job wherever it is, with a hanging server too; no lost wakeup |
| resumable_copy | a file of up to 5 bytes, overlap 2, chunks of 1 or 2, two cuts | ReadsInOrder, ResumePointIsClean, FinishedIsWhole, Uploads, CopyEnds | no hole below a resume point; what is renamed is whole; refinement of the upload; it ends |
| engine_pair | two jobs, one big file of one name each, a file or a `.filepart` there | OneWriter, PlacedAreWhole, OldOutlivesFailures | one writer per `.filepart`; placed files are whole; the old file outlives failures |
| engine_tree | one job moves a folder: two files stored under one name, a followed link | NothingIsLost, ReplacedWhenAgreed, DoneIsComplete, JobsEnd | nothing moved is lost, nothing is replaced unasked, done means complete, it ends |
| sftp_sessions | two panels in one tab or two, an SSH tab, a job, two servers, three user actions, one thing that ends | UsersAreServed, NothingLeaks, CallsEnd | whatever races, a filesystem in use is open and on its server; when all is closed nothing stays open; every call ends |
| edit_session | one copy, two saves, one change by others, one drop, a close at any moment | LastSaveSurvives, QuitKnows, ReplacedKnowingly, SavesArrive | no save is lost on close, quitting names each that is not there, others' versions are not replaced unasked, saves arrive |
| sftp_client | a listing and a stat, four requests, a channel with room for one | RepliesAreRead, FoldersAreClosed, RequestsEnd | replies reach who asked and mean what was sent; listings leave no handle; every request ends |
| terminals | a session of each kind, three things typed, room for two, shells that need not read; echo, an unknown option and the window size negotiated, one change of mind, one resize | TypedArrives, ExitIsLast, SessionsEnd, OptionsAgree | input in order and unchanged; the exit comes last; all of a session ends, unless a shell that never reads holds up a write; what a shell says is read while a write waits; negotiation ends in agreement |
| local_files | two commands of fifteen, two failing system calls, Unix and Windows, three disks; names of up to three of eight characters; 42 trees for transfers | ReplacedOrKept, WalksAreWhole, NamesSurvive, OnlyWhatWasAsked | a replacement that fails leaves the old, one that succeeds the new, and at worst a read-only file that can be written; walks and transfers end and take only their own; names survive every conversion; deletions delete what was asked |
| saved_state | two windows, one editing, two connections, two folders, five beginnings; Claude lines of up to three of nineteen arguments; process tables of a shell and up to three more | ChangesAreWhole, SecretsBelong, EverythingShown, TabsAreKnown, OffersAreFree | what is found is the last change or one cut off, or what a loss of power brought back, and whole; no stray secret; nothing falls out of the tree; tabs come back as what they were, once |
| local_rename | a link and the file it leads to | NeverReplaces, violated | finding 1 |

Configurations to run by hand (`tlc -config X.cfg M`):

| configuration | module | result |
|---|---|---|
| QueueSlots | MCTransferQueue | passes (670 000 states): three jobs and one global slot, with the slots' own invariants and pruning |
| QueueLostFails | MCTransferQueue | violates what it states: see the [findings](#findings) |
| EngineTrust, EnginePartials, EngineAnswers | MCTransferEngine | likewise |
| EditUnseen | EditSession | likewise |
| TerminalClose, TerminalExit | Terminals | likewise |
| TransferWalks (with `-continue`: it holds two invariants) | MCOneFilesystem | likewise |

`ASSUME`s of the modules are evaluated by every run.

**Bounds, and why they are enough.**  *Queue*: the slots are the only thing jobs
share, so two jobs that cross and a third that needs the global slot only show
every kind of wait; `KeepFinished = 1` makes pruning happen with three jobs.
Three drops let a connection go while another is down and again after it came
back.  *Copy*: with an overlap of two, a pipeline is one wide or two narrow
writes; five bytes hold two overlaps and a rest, two cuts let a late write of the
first attempt land in the third.  *Engine*: two chunks are a big
file's beginning and rest; one drop per job can happen at every request, and a
job meets its own traces in the second attempt and another job's in either.
More items multiply states without a new relation: the tree has one pair of names
that collide, a folder to merge and a link.  *One filesystem*: folders three deep
hold an item, the folder it is in and one between; every item goes to every
folder, so each meets itself, its parent and its child; `MaxDepth = 9` is far
below any path a transfer that ends makes, and reached by one that does not.
*Sessions*: two panels suffice for every pair of calls that race for one
filesystem; `MaxLogins = 2` is one connection to lose and one to come back on;
three actions open, share and leave.
*Edit sessions*: two saves let one land while the other is uploaded; one foreign
change and one drop can each fall at every request of an upload.  *Client*: two
callers are all a reply can be mistaken between; four requests are a listing with
one page and a stat; a channel with room for one is full whenever it holds a
reply.  *Terminals*: three inputs overfill room for two; the options are one only
the server does (echo), one we refuse, and the window's size, which only we do.
*Local files*: two commands are all a check-then-act needs; two faults let a
replacement fail and its undoing fail too, and the read-only flag be taken off and
not come back.  *Saved state*: two windows are one
that took a snapshot and one that starts; two folders can be each other's parents;
three arguments are an option, its value and what follows, a depth of two is the
code's four cut short the same way.

What small instances cannot show is [proved](#what-is-proved) for any number
where it is a safety property of the queue, the copy, the sessions, edited copies,
the client, terminals or saved state, and for four of the engine's.

`CHECK_DEADLOCK FALSE` is set everywhere: the application is quiet when all
is done and nobody asks for anything, and bounded counters stop the world.

## Fairness

* Queue, `Fairness`: Tokio polls a task that can move (`TaskStep`), a session
  whose transport is gone notices and its watcher runs (`LinkStep`).  Nothing is
  assumed of servers and users; `CancelStops` and `PausedJobsCarryOn` hold with
  this alone.  `CooperativeSpec` adds servers that answer, a user who reconnects
  and one who replies: without them a job may rightly wait for ever, so
  `EveryJobEnds` needs it.
* Copy: requests are answered, or the session ends (SSH keepalives end a dead
  connection) and the attempt fails; the job is started again.
* Engine: a job's next step happens, or, when nothing can but a refusal, that.
  Servers answer and users too.  Dropping and cancelling are not fair.
* Sessions: calls under way go on (logins and requests have time limits),
  `sftp_close` calls arrive, jobs end or are cancelled.  Users and the network
  promise nothing.
* Edit sessions: the watcher is a task that is polled, its timers fire, a dropped
  connection comes back and a user who is asked answers.  Without the last two a
  save rightly waits.  Saving and closing are not fair.
* Client: both tasks run, a caller with something to do is polled, a server
  answers and closes a channel that was ended.  The session need not end.
* Terminals: every thread runs, opening succeeds or fails; the Telnet loop takes a
  command that is there and the server answers ours.  Nothing says that a shell
  reads its input (a program in the foreground need not): `SessionsEnd` and
  `OptionsAgree` exempt a write that waits for good (`WriteWaits`), which is
  [finding 2](#findings).  Typing, closing, exiting and changes of mind are not fair.
* Local files, saved state: safety only.

## What is proved

Each module proves an inductive invariant for any number of whatever its
component has, and draws the properties from it.  Assumed is what the modules'
own `ASSUME`s say of their constants, and nothing else; every run evaluates those.
A proof has a lemma for each action of Next, and under it a step for each part
of the invariant that the action can disturb.

| module | theorem | states |
|---|---|---|
| TransferQueueProofs | `TypeCorrect` | `Spec => []TypeOK` |
| | `SlotsAreReturned`, `ServersAreExclusive`, `RunningIsBounded` | `SlotsHeldOnlyForRunning`, `OneJobPerServer`, `AtMostMaxRunning` (QueueSlots checks them) |
| | `QueueImplementsSlots` | `Spec => AllocatesSlots`, the refinement |
| | `AnswersAreForTheirQuestion` | `AnswersReachTheirQuestion` |
| ResumableCopyProofs | `PipelinesFit` | whatever limits a server announces, a full pipeline never exceeds what a resume writes again |
| | `ResumesClean`, `FinishesWhole` | `UploadSpec => []ResumePointIsClean`, `[]FinishedIsWhole` |
| | `ReadsAreInOrder` | `ReadsInOrder` |
| | `CopyUploads` | `Spec => Uploads`, the refinement |
| | `CopiesAreWhole` | `FinishedIsWhole` and `ResumePointIsClean` of the copy |
| TransferEngineProofs | `OneWriterAtATime` | `OneWriter` |
| | `NothingIsReplacedUnasked` | `ReplacedWhenAgreed` |
| | `PlacedFilesAreWhole` | `PlacedAreWhole`, for jobs that pick files |
| | `OldFilesOutliveFailures` | `OldOutlivesFailures`, for jobs that pick files |
| SftpSessionsProofs | `UsersAreAlwaysServed` | `UsersAreServed` |
| EditSessionProofs | `NoSaveIsLostOnClose`, `QuittingTells` | `LastSaveSurvives`, `QuitKnows` |
| | `NothingIsReplacedUnasked` | `ReplacedKnowingly`, an action property |
| SftpClientProofs | `RepliesReachTheirCallers`, `NobodyIsLeftWaiting` | `RepliesMatch`, `WaitersAreCalls` |
| | `ListedFoldersAreClosed` | `FoldersAreClosed` |
| | `AttributesSurvive` | attributes of any values are read as they were written; a packet cut short is refused |
| | `RepliesAreUnderstood` | `RepliesAreRead` |
| TerminalsProofs | `ExitIsTheLastOfATab` | `ExitIsLast` |
| | `TypedIsReadInOrder` | what a shell has read is what was typed, in order |
| | `TypedArrivesOnceBytesSurvive` | `TypedArrives`, given `Survives` |
| SavedStateProofs | `FileIsWhole` | what a window finds, if anything, is a whole content: with any number of windows that edit |
| | `FoundIsWhole` | `ChangesAreWhole`, for one window that edits |
| | `DoneChangesStay` | no change that was done is lost or undone as long as no power is (`DoneIsFound`), for one window that edits |
| | `SecretsAreOwned` | `SecretsBelong`, for one window that edits |
| | `NothingIsHidden` | `EverythingShown`, for one window that edits |
| | `OffersAreOfTheGone` | `OffersAreFree`, with any number of windows |

**Queue.**  The slots' invariants say what holders are, not how they became so.
`IndInv` adds `HeldByPlace` (what a task holds is an initial part, in the order of
the slots, of what it needs, decided by where it stands) and `WithinPermits`.
Only `Acquire` adds a holder, and it looks first.  An answer counts for the last
question because asking numbers it and takes the place of the one before.

**Upload and copy.**  The upload's `IndInv` has `Window` (writes in flight are full
chunks from the oldest on), `Within` (nothing lies beyond the source) and `Clean`:
everything below the acknowledged position is right, and so is everything an
overlap below the end of the file *or of any late write*.  The last part is what
makes `ResumePointIsClean` inductive: a write of a dead session may still extend
the file, past a hole.  For the copy, the requests in flight cover the file
without a gap from what was received to where the next one starts, and the one
that probes the end is among them; so the reader hands over the file to its end,
and each step is one of the upload's or leaves it alone.

**Engine.**  What a job writes is a `.filepart` it has the only claim on, or a
hidden name with its own number in it, from staging until it is renamed
(`OwnsTemporary`); that targets are paths is needed for a name beside one to be
that name.  `ReplaceInv` says where old files are: at their paths, in folders that
are folders still (`InPlace`), unless an agreement covers them.  Whatever a job
writes, renames, sets aside, puts back or removes is `ClearOf` them: it was agreed
to, nothing was there, it is a `.filepart` that is no folder, or its name is new.
Each is so when the path is chosen, maybe long before it is used; it stays so
because agreements are not taken back.  `BeforeAssumption` says that the
destination leads to its files through folders, that nothing there has a name
with a UUID that was not made yet, and that no job wrote there.  Agreements include
answers of earlier attempts: that those were about the same clash is
[finding 5](#findings).

`FilesInv` adds what the other two need, for jobs that pick files (`FilesOnly`: no
item is a folder to walk; two jobs of engine_pair are such jobs).  `FlatInv`: all
that such a job works with is at the top of the target folder, and its names are
its own: a temporary has the number of the attempt, and so has an old file's name.
The step of a job is then one of eight changes of that folder (`Effects`), and what
it is not about stays (`ElsewhereStays`).  `WholeInv` follows a job's data: what it
writes is its item's, from where it resumed; before the rename it is one source's,
whole, or `spliced`, as [finding 4](#findings) has it; so is a `.filepart` some job
left, once it holds two pieces.  `KeptInv` follows an old file: it is where it was, or under
the name an attempt set it aside by, and no step is about that name but the ones of
that attempt; the last of these puts it back, or deletes it once the new file is in
its place.  Without the hypothesis neither is inductive, nor true of every instance:
a folder set aside and put back may hold what other jobs write, and where a folder
replaces a file, the file is deleted first (`ClearTarget`).

**Sessions.**  `UsersAreCounted`: the registry's count is exactly the panels, tabs,
jobs and calls on their way that hold the filesystem.  Each step moves one user
at most, so the registry and the calls must balance it.  `Stays` is seven
conjuncts about servers: no two filesystems are one mount, a session belongs to
its filesystem's server, and so does every login a reconnect waits for and every
connection it found.  They need each other: a reconnect puts in place what it
looked up several steps before.

**Edited copies.**  `IndInv` adds what the watcher knows where it stands:
`CopyIsLatest`, `SyncedIsDelivered` (what counts as synced is never ahead of what
was delivered), `ClosingOrder` (no step after the last look can hide a save),
`TempsAreThere`, `UploadIsKnowing` (each upload has a reason to replace what it
replaces, from its first request to its last).

**Client.**  An id is given once, and a packet with it is in one place: with the
caller, in the channel, at the server or on its way back (`PacketsAreOwned`,
`AskedOnce`).  So no answer is taken for another's; an answer to a close comes
after the folder is closed.  `AttributesSurvive` has no state: fields are in the
packet once each and in the order of the flags, so reading finds each where writing
put it.

**Terminals.**  Nothing lies outside the queues between tab and shell
(`NothingUnaccounted`), each holds keys in order and they are in order among
themselves (`KeysInOrder`); after the exit is known, nothing is sent
(`SilentAfterExit`).  `Survives` is about the parser on byte sequences: it has no
variable, and TLC evaluates it on all short inputs.

**Saved state.**  `FilesInv` is about the bytes: what lies under a name was flushed
before it was renamed there, so a loss of power can tear what a window is writing
and never what a reader finds.  What it can do is bring back an older content, whose
rename was the last one written out: `expected.older` is what losses of power since
the last change may have brought back, and empty as long as there was none
(`OnlyPowerLossGoesBack`), so that `ChangesAreWhole` is `DoneIsFound` then.
While a migration is not done the window is the
only one that runs (`Alone`, `Migrates`), as the model says, and the old file
stays until the new one is safe.  `ChangesInv` is about one change: where an
editing window stands, its tree is the one that is found (`TreeIsFound`), what it
writes is that tree with the change applied (`Written`), and the keychain is ahead
or behind by the one connection of the change (`SecretsFollow`).  `EverythingShown`
says that folders reach the root through `Above`, the least set that has a place
and its parent's; the induction needs `Rooted`, that no set of folders has all its
parents in itself, which moving a folder under one that is not below it keeps.
All of these need that at most one window edits (`OneEditor`, a hypothesis of the
theorems that the code does not enforce: `STORE_LOCK`, `store.rs:18`, is one per
process).  With two, one writes over the other's change and folders fall out of the
tree: TLC shows both (see [the last list of findings](#findings)).  `FileIsWhole` is
free of the hypothesis.  `TabsInv` is for any number: a
process id with the time its process began names one window for good, so a
snapshot whose process does not run any more is of a window that is gone, and
taking it marks it first.

### Model-checked only

* Liveness (`EveryJobEnds`, `CancelStops`, `PausedJobsCarryOn`, `CopyEnds`,
  `JobsEnd`, `CallsEnd`, `SavesArrive`, `RequestsEnd`, `SessionsEnd`,
  `NothingLeaks`, `OptionsAgree`): fairness and ENABLED are beyond the prover.
* What a recursion or a fold computes for every input: the walks and transfers of
  OneFilesystem and LocalFs (`WalksAreWhole`; paths are resolved by a RECURSIVE
  operator, so that `ReplacedOrKept`, `OnlyWhatWasAsked` and `NeverReplaces`, whose
  violation is a finding, stay with TLC too), `NamesSurvive`, the Telnet parser
  (`Survives`), the Claude options and process tables of `TabsAreKnown`.
* `ListKeepsTheNewest`, which orders the list by a count of jobs.
* `PlacedAreWhole` and `OldOutlivesFailures` where jobs walk folders.
* `NothingIsLost` and `DoneIsComplete` of the engine.  They depend on what a job
  takes for its own work, which [findings 3 and 4](#findings) show can be another's:
  they hold of instances in which sizes and times tell files apart, and the second
  is about all that is below a folder.
* Hypotheses of theorems say what is left to TLC: more than one window that edits
  (where the properties do not hold), a parser that loses nothing.

## Findings

Each is a behaviour of the model, with the configuration that shows it.

1. **local_rename** (a run; `vfs/local.rs:359`): renaming a link to the name of
   the file it leads to replaces that file, by a link that leads to itself: the
   two names resolve to one path, which the code takes for two spellings of one
   entry, though "Rename in place. Never replaces an existing entry."
2. **TerminalClose** (`broker.rs:127`): the broker is told to "stop the
   elevated shell now (the tab was closed)" (`session/proto.rs:15`) by a frame that
   waits in line behind the input, and its thread may be writing to a shell that
   never reads: the shell, both threads and the pipe stay.  Local, SSH and Telnet
   sessions do the same without a doc that says otherwise (`commands.rs:89-91`,
   `session/local.rs:172`, `ssh.rs:216`): TerminalClose with `Kinds = {"ssh"}`, say.
3. **EngineTrust** (`engine.rs:794`): a target the user said to replace is
   recorded as written before anything is.  After a drop, a file there with the
   source's size and time is taken for copied, and a move removes the source.
4. **EnginePartials** (`engine.rs:1066`): a dropped job gives up its claim on
   its `.filepart` and still trusts it; another job may have written it since,
   and the two are spliced.
5. **EngineAnswers** (`engine.rs:742`): answers are kept per source, not per
   clash; after a drop, the answer to the second clash of a file is applied to
   its first, and replaces a file the user chose to keep.
6. **QueueLostFails** (`queue.rs:424`): the bulk session's failure is judged
   by the main session's state; a job whose only trouble was a dropped
   connection can end failed.
7. **EditUnseen** (`edit.rs:544-553`): the server's file is looked at before the
   user is asked and not after: what someone writes meanwhile is replaced.
8. **TerminalExit** (`broker.rs:154`): the broker waits for the shell's output to
   end before it tells of the exit, but its input thread, which waits for the
   app, keeps the pseudo-terminal open: the tab never hears of the exit.
9. **TransferWalks**, `AllWalksEnd` (`engine.rs:629-638`): "below them, the walk never
   leaves the folder being transferred" is not so where a link can't be made (FAT,
   Windows without the privilege) and is followed instead: copied into the folder
   it leads to, or below it, it is copied into its own copy until paths are too long.
10. **TransferWalks**, `AllTakeTheirOwn` (`engine.rs:1310`): an item may replace a
   folder that it is in, when the user agrees.  A link moved so, on another volume,
   is then removed at its old path, which leads through the new link to some other
   entry.

Properties of the passing runs leave out exactly what these break (`spliced`,
`reused`, `raced`, a shell that exits in a broker, `WriteWaits`, `LeadsHere`,
`ReplacesItsFolder`) or the next list names (`expected.older`, the read-only flag of a
replacement in which two calls `failed`), so that they show the rest holds.

Seen while modelling, without a run:

* the paused event names the first side found down and is not renewed when only
  the other one is (`queue.rs:446-453`, doc at 116); a retry makes a second copy
  of the second of two names stored alike; when the removal of a picked, moved
  source is answered after the drop, the job ends failed with everything moved;
  leftovers of an attempt are forgotten when the connection drops while they are
  removed; moving `/a/a` to `/` merges the folder with the one it is in and ends
  failed, with its contents moved;
* where links can't be made, a link to a pipe or a device is followed as a file
  and read, though pipes and devices are skipped (`engine.rs:500-504`);
* `sftp_connect` replaces an ended session in a mount it finds opened meanwhile
  without the mount's lock (`sftp/commands.rs:309`); a session that ends before
  `report_status` subscribes is not reported (320); between getting a filesystem
  and counting as its user another job may close it (`transfer/mod.rs:33`);
* a change of the connections that was done is undone by a loss of power on Unix,
  where the rename is all there is and no directory is synced (`store.rs:363-366`):
  SavedState with `DoneIsFound` in the place of `ChangesAreWhole`;
* a replacement that fails on a read-only file on Windows leaves the file writable
  when setting the flag again fails too (`vfs/local.rs:416` ignores it);
* Telnet's one loop reads nothing while it writes, so it and a server that echoes
  a large paste can wait for one another (`telnet.rs:168`; three things typed and
  room for two are too few to show it); a tab closed while its
  session is created leaves the session (`app.ts:913`);
* two windows that each edit the connections can move folders into one another,
  and then neither is shown, and each can lose or undo what the other changed:
  SavedState with `Editors = Windows` violates `EverythingShown` and
  `ChangesAreWhole` (the lock of `store.rs` is per process); two windows can
  migrate the old files at once; a Claude session shown by two snapshots is
  restored twice (`app.ts:676`); `--debug=-x` is not kept as typed;
* a native join accepts the name `a/.`; a panel's banner can outlive a reconnect
  (`panel-view.ts:234`); what is restored is read before an await and used after
  it (`restore-ui.ts:83`).

## What is not modelled

* Engine: modes, folder times, progress in bytes.  Source files do not change
  during a job.  The target's rename refuses when something is there, as SFTP's
  does; the local check-then-rename is in LocalFs.  Late writes are in SftpUpload,
  not in the engine's composition.
* Sessions: SSH tabs that share a connection (they count as one), host keys and
  authentication (a login succeeds or fails), edited files (users like jobs),
  status events, the bulk session.
* Edit sessions: several copies at once (a watcher shares only the list with
  others), the names of copies and their folders, the editor's command line.
* Client and protocol: the width of fields and of ids (four requests do not wrap),
  the contents of files; the extensions are requests like others.
* Terminals: screens, encodings and shells' environments; what an administrator's
  consent and the key exchange do beyond succeeding or not.  Telling of the exit and
  taking the session off the list are two steps in the code and one in the model:
  between them a key or a resize goes to a channel that nobody reads.
* Local files: listing for display, drives, the trash, opening with a program.
* Saved state: the settings' contents, names and order of connections, one window
  that edits at a time, one change at a time, migration not raced, the looks at what
  makes single tabs unavailable once they are offered, a process id
  not given away within the second its process ended.
* Panels and shell of the application: selection, dialogs, rendering, keys.  The
  claims of panels, their navigation and reconnects are in SftpSessions, saving
  and restoring in SavedState; `lib.rs` and `ipc.ts` are wiring.
* `vfs/memory.rs`, `sftp/testing.rs`, `sftp/real_server.rs`, `sftp/bench.rs` are
  tests; `scripts/`, `windows/` and the styles are build files and assets.

## Plan

In the order of what can lose or expose a user's work, all of the system's parts
that keep state are modelled, and the safety invariants of all but the local
filesystem are proved, but for what [stays with TLC](#model-checked-only).  What
could be proved next:

1. TransferEngine with folders: `PlacedAreWhole` needs to know that what is set
   aside and put back is a file, or holds no other job's temporary, which an
   instance without a file in a folder's place satisfies.
2. LocalFs, with paths resolved by a recursive function: `ReplacedOrKept`.

Liveness stays with TLC.

------------------------------ MODULE SftpUpload ------------------------------
(***************************************************************************)
(* Writing one big file to a server (src-tauri/src/sftp/file.rs, SftpWriter, *)
(* with the resuming half of src-tauri/src/transfer/engine.rs): the file   *)
(* goes to `<name>.filepart`, writes are pipelined, and a copy cut short   *)
(* carries on from the size of what is there, less RESUME_OVERLAP.         *)
(*                                                                         *)
(* Data is abstracted to positions: `good` are the positions of the        *)
(* .filepart that hold the source's byte.  A position below `size` that is *)
(* not good is a hole, left by a write that never arrived.                 *)
(*                                                                         *)
(* A definition whose comment begins "Mutant" is not part of the           *)
(* specification: put in place of the definition it names, it is a bug     *)
(* that the property it names must notice.                                 *)
(***************************************************************************)
EXTENDS Integers

CONSTANTS
  Overlap,      \* RESUME_OVERLAP
  Pipelines     \* the chunk sizes and depths servers lead to

(***************************************************************************)
(* pipeline_for: the chunk fits the server's write limit (0: none given)   *)
(* and its packets, and as many are in flight as make up InFlight.         *)
(***************************************************************************)
KiB == 1024
SafeChunk == 32 * KiB
LargestChunk == 255 * KiB
InFlight == 8192 * KiB
PacketOverhead == 1024

Least(a, b) == IF a < b THEN a ELSE b
Most(a, b) == IF a > b THEN a ELSE b

PipelineFor(limit, maxPacket) ==
  LET asked == IF limit = 0 THEN SafeChunk ELSE Least(limit, LargestChunk)
      chunk == IF maxPacket > PacketOverhead
               THEN Least(asked, maxPacket - PacketOverhead) ELSE asked
  IN [chunk |-> chunk, depth |-> Least(Most(InFlight \div chunk, 4), 256)]

ASSUME UploadAssumption ==
  /\ Overlap \in Nat
  /\ \A p \in Pipelines : /\ p.chunk \in Nat \ {0}
                          /\ p.depth \in Nat \ {0}
                          /\ p.chunk * p.depth <= Overlap

VARIABLES
  length,    \* the size of the source
  good,      \* see above
  size,      \* the size of the .filepart, 0 also when there is none
  late,      \* writes of dead sessions the server may still carry out
  phase,     \* "idle" between attempts, "writing", "done" once renamed
  pipe,      \* the session's pipeline
  low,       \* where the oldest write in flight starts
  next,      \* SftpWriter::offset, where the next write goes
  inflight,  \* how many writes are in flight
  buffer     \* bytes taken in and not dispatched yet

fileVars == <<good, size, late>>
writerVars == <<pipe, low, next, inflight, buffer>>
uploadVars == <<length, fileVars, phase, writerVars>>

\* The positions from a on, before b.
Span(a, b) == a .. b - 1

\* The i-th write in flight: full chunks, but for the last of the file.
From(i) == low + i * pipe.chunk
To(i) == Least(next, From(i) + pipe.chunk)

UploadInit ==
  /\ length \in Nat
  /\ good = {} /\ size = 0 /\ late = {}
  /\ phase = "idle"
  /\ pipe \in Pipelines
  /\ low = 0 /\ next = 0 /\ inflight = 0 /\ buffer = 0

\* Mutant of ResumeAt: trusts everything up to the size.
ResumeAtSize(have) == have
\* staging: where to continue what is there.
ResumeAt(have) == Most(have - Overlap, 0)

\* A new session opens the file at the point where it resumes.
Open(p) ==
  /\ phase = "idle"
  /\ phase' = "writing"
  /\ pipe' = p
  /\ low' = ResumeAt(size) /\ next' = low'
  /\ inflight' = 0 /\ buffer' = 0
  /\ UNCHANGED <<length, fileVars>>

\* The leftover is longer than the source: it is removed, and the copy starts
\* over in a file the old sessions' writes don't reach.
StartOver(p) ==
  /\ phase = "idle"
  /\ phase' = "writing"
  /\ pipe' = p
  /\ good' = {} /\ size' = 0 /\ late' = {}
  /\ low' = 0 /\ next' = 0
  /\ inflight' = 0 /\ buffer' = 0
  /\ UNCHANGED length

\* poll_write takes n bytes and sends a chunk that fills up if there is room.
TakeIn(n) ==
  /\ phase = "writing"
  /\ n \in 1 .. pipe.chunk - buffer
  /\ IF buffer + n = pipe.chunk /\ inflight < pipe.depth
     THEN /\ buffer' = 0
          /\ next' = next + pipe.chunk
          /\ inflight' = inflight + 1
     ELSE /\ buffer' = buffer + n
          /\ UNCHANGED <<next, inflight>>
  /\ UNCHANGED <<length, fileVars, phase, pipe, low>>

\* Mutant of Dispatch: pays no heed to the depth.
DispatchAnyway ==
  /\ phase = "writing"
  /\ buffer = pipe.chunk
  /\ buffer' = 0
  /\ next' = next + pipe.chunk
  /\ inflight' = inflight + 1
  /\ UNCHANGED <<length, fileVars, phase, pipe, low>>

\* Mutant of Dispatch: keeps one place free.
DispatchWithSpare ==
  /\ phase = "writing"
  /\ buffer = pipe.chunk
  /\ inflight + 1 < pipe.depth
  /\ buffer' = 0
  /\ next' = next + pipe.chunk
  /\ inflight' = inflight + 1
  /\ UNCHANGED <<length, fileVars, phase, pipe, low>>

\* A full buffer that found no room goes out once there is some.
Dispatch ==
  /\ phase = "writing"
  /\ buffer = pipe.chunk
  /\ inflight < pipe.depth
  /\ buffer' = 0
  /\ next' = next + pipe.chunk
  /\ inflight' = inflight + 1
  /\ UNCHANGED <<length, fileVars, phase, pipe, low>>

\* poll_drain: the rest of the file goes out, a short chunk.
Drain ==
  /\ phase = "writing"
  /\ next + buffer = length
  /\ buffer > 0
  /\ inflight < pipe.depth
  /\ buffer' = 0
  /\ next' = next + buffer
  /\ inflight' = inflight + 1
  /\ UNCHANGED <<length, fileVars, phase, pipe, low>>

\* The server carries out a write in flight, in whatever order it likes.
Apply(i) ==
  /\ phase = "writing"
  /\ i \in 0 .. inflight - 1
  /\ good' = good \cup Span(From(i), To(i))
  /\ size' = Most(size, To(i))
  /\ UNCHANGED <<length, late, phase, writerVars>>

\* poll_oldest: the oldest write has been acknowledged.
Reap ==
  /\ phase = "writing"
  /\ inflight > 0
  /\ Span(From(0), To(0)) \subseteq good
  /\ To(0) <= size
  /\ low' = To(0)
  /\ inflight' = inflight - 1
  /\ UNCHANGED <<length, fileVars, phase, pipe, next, buffer>>

\* The attempt is over; the writes given may or may not be carried out, now or
\* later.
Stop(writes) ==
  /\ phase = "writing"
  /\ phase' = "idle"
  /\ late' = late \cup writes
  /\ low' = 0 /\ next' = 0 /\ inflight' = 0 /\ buffer' = 0
  /\ UNCHANGED <<length, good, size, pipe>>

Writes == {[from |-> From(i), to |-> To(i)] : i \in 0 .. inflight - 1}

\* A dropped connection, or a write the server refused.
Fail == Stop(Writes)

\* The source can't be read: the writer is shut down, which sends out what it
\* has taken in, to keep everything that arrived.
Salvage ==
  /\ buffer > 0
  /\ inflight < pipe.depth
  /\ Stop(Writes \cup {[from |-> next, to |-> next + buffer]})

LateWrite(w) ==
  /\ w \in late
  /\ good' = good \cup Span(w.from, w.to)
  /\ size' = Most(size, w.to)
  /\ late' = late \ {w}
  /\ UNCHANGED <<length, phase, writerVars>>

\* poll_shutdown has closed the file; it is renamed into place.
Close ==
  /\ phase = "writing"
  /\ next + buffer = length
  /\ buffer = 0 /\ inflight = 0
  /\ phase' = "done"
  /\ UNCHANGED <<length, fileVars, writerVars>>

\* The source hands over its bytes in order, and no more than it has.
UploadNext ==
  \/ \E p \in Pipelines : Open(p) \/ StartOver(p)
  \/ \E n \in 1 .. length - next - buffer : TakeIn(n)
  \/ Dispatch \/ Drain \/ Reap \/ Fail \/ Salvage \/ Close
  \/ \E i \in 0 .. inflight - 1 : Apply(i)
  \/ \E w \in late : LateWrite(w)

UploadSpec == UploadInit /\ [][UploadNext]_uploadVars
-----------------------------------------------------------------------------
UploadType ==
  /\ length \in Nat /\ size \in Nat
  /\ good \subseteq Nat
  /\ late \subseteq [from : Nat, to : Nat]
  /\ phase \in {"idle", "writing", "done"}
  /\ pipe \in Pipelines
  /\ low \in Nat /\ next \in Nat /\ inflight \in Nat /\ buffer \in Nat

\* "The end of the file may have holes: write its last stretch again."  Below
\* the point where the next attempt resumes there are none, whatever was in
\* flight when earlier attempts ended and whenever the server gets to it.
ResumePointIsClean == Span(0, ResumeAt(size)) \subseteq good

\* What is renamed into place is the whole source, nothing missing.
FinishedIsWhole == phase = "done" => good = Span(0, length) /\ size = length
=============================================================================

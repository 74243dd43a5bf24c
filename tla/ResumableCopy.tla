---------------------------- MODULE ResumableCopy ----------------------------
(***************************************************************************)
(* Copying one big file between two servers (src-tauri/src/transfer/       *)
(* engine.rs, Engine::stream and staging): SftpReader's bytes go into      *)
(* SftpUpload's writer, attempt after attempt, until the file is whole.    *)
(*                                                                         *)
(* A definition whose comment begins "Mutant" is not part of the           *)
(* specification.                                                          *)
(***************************************************************************)
EXTENDS SftpReader, SftpUpload

CONSTANTS
  MaxLength,   \* bound: the size of the file
  MaxFailures  \* bound: attempts cut short

ASSUME CopyAssumption == MaxLength \in Nat /\ MaxFailures \in Nat

VARIABLES
  listed,    \* the size in the listing the job was planned with
  failures   \* attempts cut short so far

engineVars == <<listed, failures>>
copyVars == <<readerVars, uploadVars, engineVars>>

\* The file may have grown or shrunk since it was listed.
Init ==
  /\ length \in 1 .. MaxLength
  /\ listed \in 1 .. MaxLength
  /\ UploadInit
  /\ held = length
  /\ expectedEnd = Unknown /\ nextOffset = 0 /\ probed = FALSE /\ asked = <<>>
  /\ endOfFile = FALSE /\ chunk = NoBytes /\ position = 0
  /\ failures = 0

\* Mutant of StartAttempt: the source is read from its start.
StartFromTheTop(p) ==
  /\ IF size \in 1 .. listed THEN Open(p) ELSE StartOver(p)
  /\ OpenReader(0, listed)
  /\ UNCHANGED engineVars

\* staging: this job's own .filepart resumes, even when it is complete; one
\* longer than the listing says is started over.
StartAttempt(p) ==
  /\ IF size \in 1 .. listed THEN Open(p) ELSE StartOver(p)
  /\ OpenReader(low', listed)
  /\ UNCHANGED engineVars

\* read, then write_all: the writer takes what fits its buffer.
Pass ==
  LET n == Least(Bytes(chunk), pipe.chunk - buffer) IN
  /\ Take(n)
  /\ TakeIn(n)
  /\ UNCHANGED engineVars

\* poll_read and the server behind it.
Read ==
  /\ phase = "writing"
  /\ AskRead \/ (\E n \in 1 .. ReadChunk : Receive(n)) \/ ReceiveEnd
  /\ UNCHANGED <<uploadVars, engineVars>>

\* poll_write and the server behind it.
Write ==
  /\ Dispatch \/ Reap \/ \E i \in 0 .. inflight - 1 : Apply(i)
  /\ UNCHANGED <<readerVars, engineVars>>

\* read returned 0, the end of the file: shut the writer down.
Shutdown ==
  /\ ReaderDone
  /\ Drain \/ Close
  /\ UNCHANGED <<readerVars, engineVars>>

\* A connection drops, a write is refused, or the source can't be read.
CutShort ==
  /\ failures < MaxFailures
  /\ failures' = failures + 1
  /\ Fail \/ Salvage
  /\ UNCHANGED <<readerVars, listed>>

Straggle ==
  /\ \E w \in late : LateWrite(w)
  /\ UNCHANGED <<readerVars, engineVars>>

Next ==
  \/ \E p \in Pipelines : StartAttempt(p)
  \/ Read \/ Pass \/ Write \/ Shutdown \/ CutShort \/ Straggle

(***************************************************************************)
(* The task is polled, servers answer what they are asked, and a job whose *)
(* attempt was cut short gets another.                                     *)
(***************************************************************************)
Fairness ==
  WF_copyVars(\/ \E p \in Pipelines : StartAttempt(p)
              \/ Read \/ Pass \/ Write \/ Shutdown)

Spec == Init /\ [][Next]_copyVars /\ Fairness
-----------------------------------------------------------------------------
TypeOK ==
  /\ ReaderType /\ UploadType
  /\ listed \in 1 .. MaxLength
  /\ failures \in 0 .. MaxFailures

\* The writer is used as SftpUpload has it, whose proofs hold for any file: it
\* is handed the source's bytes in order from where it resumed, and no more
\* than there are.
Uploads == UploadSpec

\* The reader and the writer never wait for each other: a copy that is cut
\* short only so often ends, with whole chunks, short reads, a pipeline that
\* is full and a file that is not as long as the listing said.
CopyEnds == <>(phase = "done")
=============================================================================

------------------------------ MODULE SftpReader ------------------------------
(***************************************************************************)
(* Reading a file from a server (src-tauri/src/sftp/file.rs, SftpReader):  *)
(* up to ReadDepth reads are in flight; no read is sent past the expected  *)
(* end of the file but one, which finds the end in the same round trip.    *)
(*                                                                         *)
(* Data is abstracted to where in the file it comes from.                  *)
(*                                                                         *)
(* A definition whose comment begins "Mutant" is not part of the           *)
(* specification.                                                          *)
(***************************************************************************)
EXTENDS Integers, Sequences

CONSTANTS ReadChunk, ReadDepth

ASSUME ReaderAssumption == ReadChunk \in Nat \ {0} /\ ReadDepth \in Nat \ {0}

VARIABLES
  held,         \* how long the file is on the server
  expectedEnd,  \* how long the caller thinks it is; Unknown once it is longer
  nextOffset,   \* where the next new request starts
  probed,       \* the read past the expected end has been sent
  asked,        \* in_flight: the requests, oldest first
  endOfFile,
  chunk,        \* the offsets of the received bytes not yet taken
  position      \* where in the file the caller is: what it has taken so far

readerVars == <<held, expectedEnd, nextOffset, probed, asked, endOfFile, chunk,
                position>>

Unknown == -1
NoBytes == [from |-> 0, to |-> 0]
Bytes(span) == span.to - span.from

\* A read's length: cut at the expected end, but for the one that probes it.
LengthAt(offset) ==
  IF expectedEnd # Unknown /\ offset < expectedEnd /\ expectedEnd - offset < ReadChunk
  THEN expectedEnd - offset ELSE ReadChunk

AtEnd == expectedEnd # Unknown /\ nextOffset >= expectedEnd
CanAsk == ~endOfFile /\ Len(asked) < ReadDepth /\ ~(AtEnd /\ probed)

\* The caller opens the file at an offset, thinking it is `end` long.
OpenReader(offset, end) ==
  /\ expectedEnd' = end
  /\ nextOffset' = offset
  /\ probed' = FALSE
  /\ asked' = <<>>
  /\ endOfFile' = FALSE
  /\ chunk' = NoBytes
  /\ position' = offset
  /\ UNCHANGED held

\* fill_pipeline sends one more request.
AskRead ==
  /\ Bytes(chunk) = 0
  /\ CanAsk
  /\ asked' = Append(asked, [from |-> nextOffset, to |-> nextOffset + LengthAt(nextOffset)])
  /\ nextOffset' = nextOffset + LengthAt(nextOffset)
  /\ probed' = (probed \/ AtEnd)
  /\ UNCHANGED <<held, expectedEnd, endOfFile, chunk, position>>

\* Mutant of Unread: the rest of a short read goes behind the other requests.
UnreadBehind(rest, others) == Append(others, rest)
\* "fetch the rest of this range before anything that was requested after it"
Unread(rest, others) == <<rest>> \o others

\* The oldest request is answered with n bytes; servers may send fewer than
\* asked for.
Receive(n) ==
  LET front == Head(asked)
      got == [from |-> front.from, to |-> front.from + n]
      rest == [from |-> got.to, to |-> front.to]
  IN
  /\ Bytes(chunk) = 0 /\ ~CanAsk /\ asked # <<>>
  /\ n \in 1 .. Bytes(front) /\ got.to <= held
  /\ chunk' = got
  /\ asked' = IF n < Bytes(front) THEN Unread(rest, Tail(asked)) ELSE Tail(asked)
  /\ expectedEnd' = IF expectedEnd # Unknown /\ got.to > expectedEnd
                    THEN Unknown ELSE expectedEnd
  /\ UNCHANGED <<held, nextOffset, probed, endOfFile, position>>

\* ... or with the end of the file.
ReceiveEnd ==
  /\ Bytes(chunk) = 0 /\ ~CanAsk /\ asked # <<>>
  /\ Head(asked).from >= held
  /\ endOfFile' = TRUE
  /\ asked' = <<>>
  /\ UNCHANGED <<held, expectedEnd, nextOffset, probed, chunk, position>>

\* The caller takes n of the bytes received.
Take(n) ==
  /\ n \in 1 .. Bytes(chunk)
  /\ chunk' = [chunk EXCEPT !.from = @ + n]
  /\ position' = position + n
  /\ UNCHANGED <<held, expectedEnd, nextOffset, probed, asked, endOfFile>>

\* poll_read reports the end of the file.
ReaderDone == Bytes(chunk) = 0 /\ ~CanAsk /\ asked = <<>>
-----------------------------------------------------------------------------
ReaderType ==
  LET Spans == [from : Nat, to : Nat] IN
  /\ held \in Nat /\ expectedEnd \in Nat \cup {Unknown}
  /\ nextOffset \in Nat /\ position \in Nat
  /\ probed \in BOOLEAN /\ endOfFile \in BOOLEAN
  /\ \A i \in DOMAIN asked : asked[i] \in Spans
  /\ chunk \in Spans

\* The caller gets the file's bytes in order: what it takes next comes from
\* where it is in the file, however short the server's answers are, and the
\* end is reported at the end.
ReadsInOrder ==
  /\ Bytes(chunk) > 0 => chunk.from = position
  /\ ReaderDone => position >= held
=============================================================================

------------------------- MODULE ResumableCopyProofs -------------------------
(***************************************************************************)
(* Proofs about SftpUpload, for files of any size, any pipelines that fit  *)
(* the overlap, and any number of attempts: where an upload resumes, the   *)
(* file has no holes, and what is renamed into place is whole.             *)
(*                                                                         *)
(* Then SftpReader and SftpUpload put together: for listings that are      *)
(* wrong by any amount, any size of reads and writes.  The requests in     *)
(* flight cover the file without a gap, from what has been received to     *)
(* where the next request starts, and the one that probes the end of the   *)
(* file is among them.  So the caller reads the file in order and to its   *)
(* end, and the writer is used as SftpUpload has it: what is proved of it  *)
(* holds of the copy.                                                      *)
(***************************************************************************)
EXTENDS ResumableCopy, TLAPS


\* How far the writer is: the writes in flight are full chunks from `low` on,
\* but for the last one of the file.
Window ==
  /\ low <= next /\ next + buffer <= length
  /\ buffer <= pipe.chunk /\ inflight <= pipe.depth
  /\ next <= low + inflight * pipe.chunk
  /\ next < length => next = low + inflight * pipe.chunk
  /\ inflight = 0 => low = next

\* What is there lies within the source, and `good` within what is there.
Within ==
  /\ size <= length /\ good \subseteq Span(0, size)
  /\ \A w \in late : w.to <= length

\* No holes below what is acknowledged, nor an overlap below the end of the
\* file or of any write that may still be carried out.
Clean ==
  /\ Span(0, low) \subseteq good
  /\ ResumePointIsClean
  /\ \A w \in late : Span(0, w.to - Overlap) \subseteq good

IndInv == UploadType /\ Window /\ Within /\ Clean /\ FinishedIsWhole

-----------------------------------------------------------------------------
(* The pipelines servers lead to fit the overlap (RESUME_OVERLAP is as much *)
(* as IN_FLIGHT).                                                           *)

LEMMA QuotientFits ==
  ASSUME NEW n \in Nat, NEW c \in Nat \ {0}
  PROVE  n \div c \in Nat /\ c * (n \div c) <= n
BY Z3

LEMMA QuotientAtLeast ==
  ASSUME NEW n \in Nat, NEW c \in Nat \ {0}, 4 * c <= n
  PROVE  n \div c >= 4
BY Z3

LEMMA LessTimes ==
  ASSUME NEW a \in Nat, NEW b \in Nat, NEW c \in Nat, a <= b
  PROVE  a * c <= b * c
BY Z3

LEMMA Multiples ==
  ASSUME NEW k \in Nat \ {0}
  PROVE  /\ 32 * k \in Nat \ {0} /\ 255 * k \in Nat \ {0} /\ 8192 * k \in Nat
         /\ 32 * k <= 255 * k
         /\ 4 * (255 * k) <= 8192 * k
OBVIOUS

LEMMA Sizes ==
  /\ SafeChunk \in Nat \ {0} /\ LargestChunk \in Nat \ {0} /\ InFlight \in Nat
  /\ PacketOverhead \in Nat
  /\ SafeChunk <= LargestChunk
  /\ 4 * LargestChunk <= InFlight
<1>1. KiB \in Nat \ {0} /\ PacketOverhead \in Nat
  BY DEF KiB, PacketOverhead
<1>2. QED BY <1>1, Multiples DEF SafeChunk, LargestChunk, InFlight

LEMMA LeastBounds ==
  ASSUME NEW a \in Nat \ {0}, NEW b \in Nat \ {0}
  PROVE  Least(a, b) \in Nat \ {0} /\ Least(a, b) <= a /\ Least(a, b) <= b
BY DEF Least

\* A chunk times its depth never exceeds what a resumed upload writes again,
\* whatever limits the server announces.
THEOREM PipelinesFit ==
  ASSUME NEW limit \in Nat, NEW maxPacket \in Nat
  PROVE  LET p == PipelineFor(limit, maxPacket) IN
         /\ p.chunk \in 1 .. LargestChunk
         /\ p.depth \in Nat \ {0}
         /\ p.chunk * p.depth <= InFlight
<1> DEFINE wanted == IF limit = 0 THEN SafeChunk ELSE Least(limit, LargestChunk)
           c == IF maxPacket > PacketOverhead
                THEN Least(wanted, maxPacket - PacketOverhead) ELSE wanted
           d == Least(Most(InFlight \div c, 4), 256)
<1>0. wanted \in 1 .. LargestChunk
  <2>1. CASE limit = 0 BY <2>1, Sizes
  <2>2. CASE limit # 0 BY <2>2, Sizes, LeastBounds
  <2>3. QED BY <2>1, <2>2
<1> HIDE DEF wanted
<1>1. c \in 1 .. LargestChunk
  <2>1. CASE maxPacket > PacketOverhead
    <3>1. maxPacket - PacketOverhead \in Nat \ {0} BY <2>1, Sizes
    <3>2. wanted \in Nat \ {0} /\ wanted <= LargestChunk BY <1>0, Sizes
    <3>3. c = Least(wanted, maxPacket - PacketOverhead) BY <2>1, Sizes
    <3>4. QED BY <3>1, <3>2, <3>3, LeastBounds, Sizes
  <2>2. CASE ~(maxPacket > PacketOverhead)
    BY <2>2, <1>0, Sizes
  <2>3. QED BY <2>1, <2>2
<1> HIDE DEF c
<1>2. c \in Nat \ {0} /\ InFlight \in Nat /\ 4 * c <= InFlight
  BY <1>1, Sizes
<1>3. InFlight \div c \in Nat /\ InFlight \div c >= 4 /\ c * (InFlight \div c) <= InFlight
  BY <1>2, QuotientFits, QuotientAtLeast
<1>4. d \in Nat \ {0} /\ d <= InFlight \div c
  BY <1>3 DEF Least, Most
<1>5. d * c <= (InFlight \div c) * c
  BY <1>2, <1>3, <1>4, LessTimes
<1>6. c * d <= InFlight
  BY <1>2, <1>3, <1>4, <1>5, Z3
<1>7. PipelineFor(limit, maxPacket) = [chunk |-> c, depth |-> d]
  BY DEF PipelineFor, c, wanted
<1>8. QED BY <1>1, <1>4, <1>6, <1>7, Sizes

-----------------------------------------------------------------------------
(* The window of writes in flight is never wider than the overlap.         *)

LEMMA TimesNat ==
  ASSUME NEW i \in Nat, NEW c \in Nat
  PROVE  /\ i * c \in Nat /\ 0 * c = 0
         /\ (i + 1) * c = i * c + c
         /\ i > 0 => (i - 1) * c = i * c - c
BY Z3

LEMMA PipeType ==
  ASSUME UploadType
  PROVE  /\ pipe.chunk \in Nat \ {0} /\ pipe.depth \in Nat \ {0} /\ Overlap \in Nat
         /\ inflight * pipe.chunk \in Nat
         /\ pipe.depth * pipe.chunk \in Nat
         /\ pipe.depth * pipe.chunk <= Overlap
<1>1. pipe.chunk \in Nat \ {0} /\ pipe.depth \in Nat \ {0} /\ Overlap \in Nat
      /\ pipe.chunk * pipe.depth <= Overlap /\ inflight \in Nat
  BY UploadAssumption DEF UploadType
<1>2. pipe.depth * pipe.chunk = pipe.chunk * pipe.depth
  BY <1>1, Z3
<1>3. QED BY <1>1, <1>2, TimesNat

\* Every write in flight, and one more where there is room for it, ends no
\* further than the overlap above what is acknowledged.
LEMMA WindowFits ==
  ASSUME UploadType, Window
  PROVE  /\ next <= low + Overlap
         /\ inflight < pipe.depth => next + buffer <= low + Overlap
<1>1. inflight * pipe.chunk <= pipe.depth * pipe.chunk
  BY PipeType, LessTimes DEF UploadType, Window
<1>2. next <= low + Overlap
  BY <1>1, PipeType DEF UploadType, Window
<1>3. ASSUME inflight < pipe.depth
      PROVE  next + buffer <= low + Overlap
  <2>1. (inflight + 1) * pipe.chunk <= pipe.depth * pipe.chunk
    BY <1>3, PipeType, LessTimes DEF UploadType
  <2>2. (inflight + 1) * pipe.chunk = inflight * pipe.chunk + pipe.chunk
    BY PipeType, TimesNat DEF UploadType
  <2>3. QED BY <2>1, <2>2, PipeType DEF UploadType, Window
<1>4. QED BY <1>2, <1>3

LEMMA FlightType ==
  ASSUME UploadType, Window, NEW i \in 0 .. inflight - 1
  PROVE  From(i) \in Nat /\ To(i) \in Nat /\ To(i) <= next
<1>1. i * pipe.chunk \in Nat
  BY PipeType, TimesNat DEF UploadType
<1>2. QED BY <1>1, PipeType DEF UploadType, From, To, Least

-----------------------------------------------------------------------------
(* The invariant is inductive.                                             *)

LEMMA InitInd == UploadInit => IndInv
<1> SUFFICES ASSUME UploadInit PROVE IndInv
  OBVIOUS
<1> USE DEF UploadInit
<1>1. UploadType
  BY DEF UploadType
<1>2. 0 * pipe.chunk = 0 /\ pipe.chunk \in Nat /\ pipe.depth \in Nat
  BY <1>1, PipeType, TimesNat
<1>3. Window
  BY <1>2 DEF Window
<1>4. Within
  BY DEF Within
<1>5. ResumeAt(size) = 0
  BY UploadAssumption DEF ResumeAt, Most
<1>6. Clean /\ FinishedIsWhole
  BY <1>5 DEF Clean, ResumePointIsClean, FinishedIsWhole, Span
<1>7. QED BY <1>1, <1>3, <1>4, <1>6 DEF IndInv

\* A write at `to` whose lower neighbours but an overlap are there leaves the
\* point to resume at clean.
LEMMA WriteKeepsClean ==
  ASSUME UploadType, ResumePointIsClean,
         NEW a \in Nat, NEW b \in Nat, Span(0, b - Overlap) \subseteq good
  PROVE  Span(0, ResumeAt(Most(size, b))) \subseteq good \cup Span(a, b)
<1>1. size \in Nat /\ Overlap \in Nat
  BY PipeType DEF UploadType
<1>2. CASE size > b
  BY <1>1, <1>2 DEF ResumePointIsClean, ResumeAt, Most
<1>3. CASE ~(size > b)
  BY <1>1, <1>3 DEF ResumeAt, Most, Span
<1>4. QED BY <1>2, <1>3

\* Nothing but the writer's window changes: it starts anew at `at`, with
\* nothing in flight.
LEMMA OpenInd ==
  ASSUME IndInv, NEW p \in Pipelines, Open(p) \/ StartOver(p)
  PROVE  IndInv'
<1> USE DEF IndInv
<1>1. p.chunk \in Nat /\ p.depth \in Nat /\ Overlap \in Nat /\ 0 * p.chunk = 0
  BY UploadAssumption, TimesNat
<1>2. size \in Nat /\ ResumeAt(size) \in Nat /\ ResumeAt(size) <= size
  BY <1>1 DEF UploadType, ResumeAt, Most
<1>3. CASE Open(p)
  <2> USE <1>3 DEF Open, fileVars
  <2>1. UploadType' /\ Window' /\ Within'
    BY <1>1, <1>2 DEF UploadType, Window, Within
  <2>2. Clean' /\ FinishedIsWhole'
    BY <1>2 DEF Clean, ResumePointIsClean, FinishedIsWhole, ResumeAt, Most, Span
  <2>3. QED BY <2>1, <2>2
<1>4. CASE StartOver(p)
  <2> USE <1>4 DEF StartOver
  <2>1. UploadType' /\ Window' /\ Within'
    BY <1>1 DEF UploadType, Window, Within, Span
  <2>2. ResumeAt(size') = 0
    BY <1>1 DEF ResumeAt, Most
  <2>3. Clean' /\ FinishedIsWhole'
    BY <2>2 DEF Clean, ResumePointIsClean, FinishedIsWhole, ResumeAt, Span
  <2>4. QED BY <2>1, <2>3
<1>5. QED BY <1>3, <1>4

\* What is taken in and sent moves the end of the window, and no more.
LEMMA SendInd ==
  ASSUME IndInv,
         (\E n \in 1 .. length - next - buffer : TakeIn(n)) \/ Dispatch \/ Drain
  PROVE  IndInv'
<1> USE DEF IndInv
<1>1. /\ pipe.chunk \in Nat \ {0} /\ inflight * pipe.chunk \in Nat
      /\ (inflight + 1) * pipe.chunk = inflight * pipe.chunk + pipe.chunk
  BY PipeType, TimesNat DEF UploadType
<1>2. UNCHANGED <<length, fileVars, phase, pipe, low>> /\ phase = "writing"
  BY DEF TakeIn, Dispatch, Drain
<1>3. UploadType' /\ Window'
  <2>1. CASE \E n \in 1 .. length - next - buffer : TakeIn(n)
    <3>1. PICK n \in 1 .. length - next - buffer : TakeIn(n)
      BY <2>1
    <3>2. CASE buffer + n = pipe.chunk /\ inflight < pipe.depth
      <4>1. /\ buffer' = 0 /\ next' = next + pipe.chunk /\ inflight' = inflight + 1
            /\ buffer + n = pipe.chunk /\ n >= 1 /\ n <= length - next - buffer
        BY <3>1, <3>2 DEF TakeIn, UploadType
      <4>2. next = low + inflight * pipe.chunk
        BY <1>1, <4>1 DEF UploadType, Window
      <4>3. next' = low + (inflight + 1) * pipe.chunk /\ next' <= length
        BY <1>1, <4>1, <4>2 DEF UploadType
      <4>4. UploadType'
        BY <1>1, <1>2, <4>1 DEF UploadType, fileVars
      <4>5. Window'
        BY <1>1, <1>2, <3>2, <4>1, <4>3, PipeType DEF UploadType, Window
      <4>6. QED BY <4>4, <4>5
    <3>3. CASE ~(buffer + n = pipe.chunk /\ inflight < pipe.depth)
      BY <1>1, <1>2, <3>1, <3>3 DEF TakeIn, UploadType, Window, fileVars
    <3>4. QED BY <3>2, <3>3
  <2>2. CASE Dispatch
    BY <1>1, <1>2, <2>2, PipeType DEF Dispatch, UploadType, Window, fileVars
  <2>3. CASE Drain
    BY <1>1, <1>2, <2>3, PipeType DEF Drain, UploadType, Window, fileVars
  <2>4. QED BY <2>1, <2>2, <2>3
<1>4. Within' /\ Clean' /\ FinishedIsWhole'
  BY <1>2 DEF Within, Clean, ResumePointIsClean, FinishedIsWhole, ResumeAt, Span, fileVars
<1>5. QED BY <1>3, <1>4

\* A write carried out, of this session or an earlier one.
LEMMA WriteInd ==
  ASSUME IndInv, NEW a \in Nat, NEW b \in Nat,
         b <= length, Span(0, b - Overlap) \subseteq good,
         good' = good \cup Span(a, b), size' = Most(size, b),
         late' \subseteq late,
         UNCHANGED <<length, phase, writerVars>>
  PROVE  IndInv'
<1> USE DEF IndInv, writerVars
<1>1. UploadType'
  BY DEF UploadType, Most, Span
<1>2. Window'
  BY DEF Window
<1>3. Within'
  BY DEF UploadType, Within, Most, Span
<1>4. Clean'
  <2>1. ResumePointIsClean
    BY DEF Clean
  <2>2. Span(0, ResumeAt(Most(size, b))) \subseteq good \cup Span(a, b)
    BY <2>1, WriteKeepsClean
  <2>3. ResumePointIsClean'
    BY <2>2 DEF ResumePointIsClean, ResumeAt, Span
  <2>4. QED BY <2>3 DEF Clean, Span
<1>5. FinishedIsWhole'
  BY DEF UploadType, FinishedIsWhole, Span, Most
<1>6. QED BY <1>1, <1>2, <1>3, <1>4, <1>5

LEMMA ApplyInd ==
  ASSUME IndInv, NEW i \in 0 .. inflight - 1, Apply(i)
  PROVE  IndInv'
<1>1. From(i) \in Nat /\ To(i) \in Nat /\ To(i) <= next
  BY FlightType DEF IndInv
<1>2. To(i) - Overlap <= low /\ To(i) <= length
  BY <1>1, WindowFits, PipeType DEF IndInv, UploadType, Window
<1>3. Span(0, To(i) - Overlap) \subseteq good
  BY <1>1, <1>2, PipeType DEF IndInv, UploadType, Clean, Span
<1>4. QED BY <1>1, <1>2, <1>3, WriteInd DEF Apply

LEMMA LateInd ==
  ASSUME IndInv, NEW w \in late, LateWrite(w)
  PROVE  IndInv'
<1>1. w.from \in Nat /\ w.to \in Nat
  BY DEF IndInv, UploadType
<1>2. w.to <= length /\ Span(0, w.to - Overlap) \subseteq good
  BY DEF IndInv, Within, Clean
<1>3. QED BY <1>1, <1>2, WriteInd DEF LateWrite

\* The oldest write is acknowledged: it joins what has no holes.
LEMMA ReapInd ==
  ASSUME IndInv, Reap
  PROVE  IndInv'
<1> USE DEF IndInv
<1>1. /\ pipe.chunk \in Nat \ {0} /\ inflight * pipe.chunk \in Nat
      /\ inflight > 0 /\ (inflight - 1) * pipe.chunk = inflight * pipe.chunk - pipe.chunk
      /\ 0 * pipe.chunk = 0
  BY PipeType, TimesNat DEF UploadType, Reap
<1>2. inflight = 1 => inflight * pipe.chunk = pipe.chunk
  BY <1>1
<1>3. From(0) = low /\ To(0) = Least(next, low + pipe.chunk) /\ To(0) \in Nat
  BY <1>1 DEF From, To, Least, UploadType
<1>4. low <= To(0) /\ To(0) <= next
  BY <1>1, <1>3 DEF UploadType, Window, Least
<1>5. UNCHANGED <<length, fileVars, phase, pipe, next, buffer>> /\ low' = To(0)
      /\ inflight' = inflight - 1
  BY DEF Reap
<1>6. UploadType'
  BY <1>1, <1>3, <1>5 DEF UploadType, fileVars
<1>7. Window'
  <2>1. next >= low + pipe.chunk => To(0) = low + pipe.chunk
    BY <1>1, <1>3 DEF Least, UploadType
  <2>2. next < low + pipe.chunk => To(0) = next
    BY <1>1, <1>3 DEF Least, UploadType
  <2>3. inflight' = 0 => low' = next'
    BY <1>1, <1>2, <1>5, <2>1, <2>2 DEF Window, UploadType
  <2>4. inflight >= 1 /\ inflight * pipe.chunk >= pipe.chunk
    BY <1>1, LessTimes DEF UploadType
  <2>5. next' < length' => next' = low' + inflight' * pipe'.chunk
    BY <1>1, <1>5, <2>1, <2>4 DEF Window, UploadType
  <2>6. inflight' * pipe'.chunk \in Nat /\ next' <= low' + inflight' * pipe'.chunk
    BY <1>1, <1>5, <2>1, <2>2, <2>4 DEF Window, UploadType
  <2>7. QED BY <1>1, <1>4, <1>5, <2>3, <2>5, <2>6, PipeType DEF Window, UploadType
<1>8. Within'
  BY <1>5 DEF Within, Span, fileVars
<1>9. Clean'
  <2>1. Span(0, To(0)) \subseteq good
    BY <1>3 DEF Reap, Clean, Span, UploadType
  <2>2. QED BY <1>5, <2>1 DEF Clean, ResumePointIsClean, ResumeAt, Span, fileVars
<1>10. FinishedIsWhole'
  BY <1>5 DEF Reap, FinishedIsWhole
<1>11. QED BY <1>6, <1>7, <1>8, <1>9, <1>10

\* An attempt cut short: what it left in flight ends within the overlap above
\* what has no holes.
LEMMA StopInd ==
  ASSUME IndInv, NEW writes, Stop(writes),
         \A w \in writes : /\ w \in [from : Nat, to : Nat]
                           /\ w.to <= length /\ w.to - Overlap <= low
  PROVE  IndInv'
<1> USE DEF IndInv
<1>1. Overlap \in Nat /\ pipe.chunk \in Nat /\ pipe.depth \in Nat /\ 0 * pipe.chunk = 0
  BY PipeType, TimesNat DEF UploadType
<1>2. /\ UNCHANGED <<length, good, size, pipe>> /\ late' = late \cup writes
      /\ low' = 0 /\ next' = 0 /\ inflight' = 0 /\ buffer' = 0 /\ phase' = "idle"
  BY DEF Stop
<1>3. UploadType' /\ Window'
  BY <1>1, <1>2 DEF UploadType, Window
<1>4. Within'
  BY <1>2 DEF Within, Span
<1>5. \A w \in writes : Span(0, w.to - Overlap) \subseteq good
  BY <1>1 DEF UploadType, Clean, Span
<1>6. Clean' /\ FinishedIsWhole'
  BY <1>2, <1>5 DEF Clean, ResumePointIsClean, FinishedIsWhole, ResumeAt, Span
<1>7. QED BY <1>3, <1>4, <1>6

LEMMA FailInd ==
  ASSUME IndInv, Fail \/ Salvage
  PROVE  IndInv'
<1> USE DEF IndInv
<1>1. Overlap \in Nat
  BY PipeType
<1>2. \A w \in Writes : /\ w \in [from : Nat, to : Nat]
                        /\ w.to <= length /\ w.to - Overlap <= low
  BY <1>1, FlightType, WindowFits DEF Writes, UploadType, Window
<1>3. CASE Fail
  BY <1>2, <1>3, StopInd DEF Fail
<1>4. CASE Salvage
  <2> DEFINE w == [from |-> next, to |-> next + buffer]
  <2>1. w \in [from : Nat, to : Nat] /\ w.to <= length /\ w.to - Overlap <= low
    BY <1>1, <1>4, WindowFits DEF Salvage, UploadType, Window
  <2>2. \A v \in Writes \cup {w} : /\ v \in [from : Nat, to : Nat]
                                   /\ v.to <= length /\ v.to - Overlap <= low
    BY <1>2, <2>1
  <2>3. QED BY <1>4, <2>2, StopInd DEF Salvage
<1>5. QED BY <1>3, <1>4

\* Everything was acknowledged up to the end of the source.
LEMMA CloseInd ==
  ASSUME IndInv, Close
  PROVE  IndInv'
<1> USE DEF IndInv
<1>1. low = length /\ Span(0, length) \subseteq good
  BY DEF Close, UploadType, Window, Clean, Span
<1>2. size = length
  <2>1. length > 0 => length - 1 \in good
    BY <1>1 DEF UploadType, Span
  <2>2. QED BY <2>1 DEF UploadType, Within, Span
<1>3. good = Span(0, length)
  BY <1>1, <1>2 DEF Within
<1>4. UNCHANGED <<length, fileVars, writerVars>> /\ phase' = "done"
  BY DEF Close
<1>5. UploadType' /\ Window' /\ Within' /\ Clean'
  BY <1>4 DEF UploadType, Window, Within, Clean, ResumePointIsClean, ResumeAt, Span,
     fileVars, writerVars
<1>6. FinishedIsWhole'
  BY <1>2, <1>3, <1>4 DEF FinishedIsWhole, Span, fileVars
<1>7. QED BY <1>5, <1>6

LEMMA NextInd == IndInv /\ [UploadNext]_uploadVars => IndInv'
<1> SUFFICES ASSUME IndInv, [UploadNext]_uploadVars PROVE IndInv'
  OBVIOUS
<1>1. CASE \E p \in Pipelines : Open(p) \/ StartOver(p)
  BY <1>1, OpenInd
<1>2. CASE (\E n \in 1 .. length - next - buffer : TakeIn(n)) \/ Dispatch \/ Drain
  BY <1>2, SendInd
<1>3. CASE Reap
  BY <1>3, ReapInd
<1>4. CASE Fail \/ Salvage
  BY <1>4, FailInd
<1>5. CASE Close
  BY <1>5, CloseInd
<1>6. CASE \E i \in 0 .. inflight - 1 : Apply(i)
  BY <1>6, ApplyInd
<1>7. CASE \E w \in late : LateWrite(w)
  BY <1>7, LateInd
<1>8. CASE UNCHANGED uploadVars
  BY <1>8 DEF IndInv, UploadType, Window, Within, Clean, ResumePointIsClean,
     FinishedIsWhole, ResumeAt, Span, uploadVars, fileVars, writerVars
<1>9. QED BY <1>1, <1>2, <1>3, <1>4, <1>5, <1>6, <1>7, <1>8 DEF UploadNext

\* The invariant the other theorems are parts of.
THEOREM Inductive == UploadSpec => []IndInv
BY InitInd, NextInd, PTL DEF UploadSpec

\* The variables of an upload keep their types.
THEOREM UploadTypeCorrect == UploadSpec => []UploadType
<1>1. IndInv => UploadType
  BY DEF IndInv
<1>2. QED BY <1>1, Inductive, PTL

\* However many attempts were cut short, with whatever pipelines, and whenever
\* the server carries out what they left in flight: below the point where the
\* next attempt resumes there are no holes.
THEOREM ResumesClean == UploadSpec => []ResumePointIsClean
<1>1. IndInv => ResumePointIsClean
  BY DEF IndInv, Clean
<1>2. QED BY <1>1, Inductive, PTL

\* What is closed and renamed into place is the whole source.
THEOREM FinishesWhole == UploadSpec => []FinishedIsWhole
<1>1. IndInv => FinishedIsWhole
  BY DEF IndInv
<1>2. QED BY <1>1, Inductive, PTL


-----------------------------------------------------------------------------
\* Where in the file the reader has got to.
Got == position + Bytes(chunk)

Spans == [from : Nat, to : Nat]
ReaderTypes ==
  /\ held \in Nat /\ expectedEnd \in Nat \cup {Unknown}
  /\ nextOffset \in Nat /\ position \in Nat
  /\ asked \in Seq(Spans)
  /\ chunk \in Spans /\ chunk.from <= chunk.to
ReaderFlags == probed \in BOOLEAN /\ endOfFile \in BOOLEAN

\* The requests in flight, oldest first, meet each other.
Gapless ==
  /\ \A i \in 1 .. Len(asked) : asked[i].from < asked[i].to
  /\ \A i \in 1 .. Len(asked) - 1 : asked[i].to = asked[i + 1].from
  /\ asked # <<>> => asked[1].from = Got /\ asked[Len(asked)].to = nextOffset
  /\ asked = <<>> /\ ~endOfFile => nextOffset = Got

\* What was received and not taken yet is next, and there.
ChunkIsNext == Bytes(chunk) > 0 => chunk.from = position /\ chunk.to <= held

\* The read past the expected end is in flight until its answer shows where
\* the end is.
ProbeIsOut == probed /\ expectedEnd # Unknown /\ ~endOfFile =>
                asked # <<>> /\ nextOffset > expectedEnd
EndIsReached == endOfFile => position >= held /\ Bytes(chunk) = 0 /\ asked = <<>>

ReaderInv ==
  ReaderTypes /\ ReaderFlags /\ Gapless /\ ChunkIsNext /\ ProbeIsOut /\ EndIsReached

\* What the reader handed over is what the writer took in.
InStep == held = length /\ (phase = "writing" => position = next + buffer)

CopyInv == ReaderInv /\ InStep /\ UploadType

-----------------------------------------------------------------------------
(* The reader.                                                             *)

\* A file is opened at an offset: nothing is in flight.
LEMMA OpenReaderInv ==
  ASSUME held \in Nat, NEW offset \in Nat, NEW end \in Nat, OpenReader(offset, end)
  PROVE  ReaderInv'
<1>1. ReaderTypes'
  BY DEF ReaderTypes, OpenReader, Spans, NoBytes
<1>2. ReaderFlags'
  BY DEF ReaderFlags, OpenReader
<1>3. Gapless'
  BY DEF Gapless, OpenReader, Got, Bytes, NoBytes
<1>4. ChunkIsNext'
  BY DEF ChunkIsNext, OpenReader, Bytes, NoBytes
<1>5. ProbeIsOut' /\ EndIsReached'
  BY DEF ProbeIsOut, EndIsReached, OpenReader
<1> QED BY <1>1, <1>2, <1>3, <1>4, <1>5 DEF ReaderInv

\* fill_pipeline: the next request starts where the last one ends, and is not empty.
LEMMA AskReadInv == ASSUME ReaderInv, AskRead PROVE ReaderInv'
<1> DEFINE n == LengthAt(nextOffset)
           request == [from |-> nextOffset, to |-> nextOffset + n]
<1> USE DEF ReaderInv
<1>1. n \in Nat \ {0}
  BY ReaderAssumption DEF LengthAt, ReaderTypes, Unknown
<1>2. request \in Spans /\ request.from < request.to
      /\ request.from = nextOffset /\ request.to = nextOffset + n
  BY <1>1 DEF Spans, ReaderTypes
<1>3. /\ asked' = Append(asked, request) /\ nextOffset' = nextOffset + n
      /\ UNCHANGED <<held, expectedEnd, endOfFile, chunk, position>>
  BY DEF AskRead
<1> HIDE DEF n, request
<1>4. ReaderTypes'
  BY <1>1, <1>2, <1>3 DEF ReaderTypes
<1>5. ReaderFlags'
  BY DEF ReaderFlags, AskRead, AtEnd
<1>6. Gapless'
  <2>1. /\ Len(asked') = Len(asked) + 1 /\ asked'[Len(asked) + 1] = request
        /\ \A i \in 1 .. Len(asked) : asked'[i] = asked[i]
        /\ Len(asked) \in Nat /\ asked' # <<>>
    BY <1>2, <1>3 DEF ReaderTypes
  <2>2. Got' = Got /\ Got \in Int /\ nextOffset \in Nat
    BY <1>3 DEF Got, Bytes, ReaderTypes, Spans
  <2>3. CASE asked = <<>>
    BY <1>2, <1>3, <2>1, <2>2, <2>3 DEF Gapless, AskRead, CanAsk
  <2>4. CASE asked # <<>>
    <3>1. Len(asked) >= 1
      BY <2>1, <2>4 DEF ReaderTypes
    <3>2. \A i \in 1 .. Len(asked') : asked'[i].from < asked'[i].to
      BY <1>2, <2>1 DEF Gapless
    <3>3. \A i \in 1 .. Len(asked') - 1 : asked'[i].to = asked'[i + 1].from
      <4> SUFFICES ASSUME NEW i \in 1 .. Len(asked) PROVE asked'[i].to = asked'[i + 1].from
        BY <2>1
      <4>1. CASE i = Len(asked)
        BY <1>2, <2>1, <2>4, <4>1 DEF Gapless
      <4>2. CASE i # Len(asked)
        BY <2>1, <4>2 DEF Gapless
      <4> QED BY <4>1, <4>2
    <3>4. asked'[1].from = Got' /\ asked'[Len(asked')].to = nextOffset'
      BY <1>2, <1>3, <2>1, <2>2, <2>4, <3>1 DEF Gapless
    <3> QED BY <2>1, <3>2, <3>3, <3>4 DEF Gapless
  <2> QED BY <2>3, <2>4
<1>7. ChunkIsNext'
  BY <1>3 DEF ChunkIsNext, Bytes
<1>8. ProbeIsOut'
  <2>1. asked' # <<>>
    BY <1>2, <1>3 DEF ReaderTypes
  <2>2. AtEnd => nextOffset' > expectedEnd'
    BY <1>1, <1>3 DEF AtEnd, ReaderTypes, Unknown
  <2>3. probed /\ expectedEnd # Unknown /\ ~endOfFile => nextOffset' > expectedEnd'
    BY <1>1, <1>3 DEF ProbeIsOut, ReaderTypes, Unknown
  <2>4. probed' => probed \/ AtEnd
    BY DEF AskRead
  <2>5. ProbeIsOut' = (probed' /\ expectedEnd' # Unknown /\ ~endOfFile'
                         => asked' # <<>> /\ nextOffset' > expectedEnd')
    BY DEF ProbeIsOut
  <2> QED BY <1>3, <2>1, <2>2, <2>3, <2>4, <2>5
<1>9. EndIsReached'
  BY <1>3 DEF EndIsReached, AskRead, CanAsk
<1> QED BY <1>4, <1>5, <1>6, <1>7, <1>8, <1>9

\* poll_read: the answer to the oldest request is next; the rest of a short one comes
\* before all others.
LEMMA ReceiveInv ==
  ASSUME ReaderInv, NEW n \in 1 .. ReadChunk, Receive(n) PROVE ReaderInv'
<1> DEFINE front == Head(asked)
           rest == [from |-> front.from + n, to |-> front.to]
<1> USE DEF ReaderInv
<1>1. /\ asked # <<>> /\ ~endOfFile /\ Bytes(chunk) = 0
      /\ n \in 1 .. Bytes(front) /\ front.from + n <= held
      /\ chunk' = [from |-> front.from, to |-> front.from + n]
      /\ asked' = IF n < Bytes(front) THEN <<rest>> \o Tail(asked) ELSE Tail(asked)
      /\ expectedEnd' = IF expectedEnd # Unknown /\ front.from + n > expectedEnd
                        THEN Unknown ELSE expectedEnd
      /\ UNCHANGED <<held, nextOffset, probed, endOfFile, position>>
  BY DEF Receive, Unread, EndIsReached
<1>2. /\ asked \in Seq(Spans) /\ Len(asked) \in Nat \ {0} /\ front = asked[1] /\ front \in Spans
      /\ Tail(asked) \in Seq(Spans) /\ Len(Tail(asked)) = Len(asked) - 1
      /\ \A i \in 1 .. Len(asked) - 1 : Tail(asked)[i] = asked[i + 1]
  BY <1>1 DEF ReaderTypes
<1>3. /\ front.from \in Nat /\ front.to \in Nat /\ front.from < front.to /\ n \in Nat \ {0}
      /\ front.from + n <= front.to /\ Bytes(front) = front.to - front.from
      /\ rest.from = front.from + n /\ rest.to = front.to
      /\ front.from = Got /\ Got = position
      /\ asked[Len(asked)].to = nextOffset
  <2>1. front.from \in Nat /\ front.to \in Nat /\ front.from < front.to
    BY <1>2 DEF Spans, Gapless
  <2>2. Bytes(front) = front.to - front.from
    BY DEF Bytes
  <2>3. n \in Nat \ {0} /\ n <= Bytes(front)
    BY <1>1, ReaderAssumption
  <2>4. front.from = Got /\ asked[Len(asked)].to = nextOffset
    BY <1>1, <1>2 DEF Gapless
  <2>5. Got = position
    BY <1>1 DEF Got, ReaderTypes
  <2> QED BY <2>1, <2>2, <2>3, <2>4, <2>5
<1>4. Got' = front.from + n /\ Bytes(chunk') = n /\ chunk'.from = front.from
      /\ chunk'.to = front.from + n
  BY <1>1, <1>3 DEF Got, Bytes, ReaderTypes
<1> HIDE DEF front
<1>5. CASE n < Bytes(front)
  <2>1. /\ asked' \in Seq(Spans) /\ Len(asked') = Len(asked) /\ asked'[1] = rest
        /\ \A i \in 2 .. Len(asked) : asked'[i] = asked[i]
    <3> HIDE DEF rest
    <3>1. rest \in Spans /\ asked' = <<rest>> \o Tail(asked)
      BY <1>1, <1>3, <1>5 DEF rest, Spans
    <3>2. \A i \in 2 .. Len(asked) : Tail(asked)[i - 1] = asked[i]
      BY <1>2
    <3> QED BY <1>2, <3>1, <3>2
  <2>2. ReaderTypes'
    BY <1>1, <1>3, <2>1 DEF ReaderTypes, Spans, Unknown
  <2>3. Gapless'
    <3>1. \A i \in 1 .. Len(asked') : asked'[i].from < asked'[i].to
      BY <1>2, <1>3, <1>5, <2>1 DEF Gapless
    <3>2. \A i \in 1 .. Len(asked') - 1 : asked'[i].to = asked'[i + 1].from
      BY <1>2, <1>3, <2>1 DEF Gapless
    <3>3. asked' # <<>> /\ asked'[1].from = Got' /\ asked'[Len(asked')].to = nextOffset'
      <4>1. asked' # <<>>
        BY <1>2, <2>1
      <4>2. asked'[Len(asked')].to = asked[Len(asked)].to
        <5>1. CASE Len(asked) = 1
          BY <1>2, <1>3, <2>1, <5>1 DEF front
        <5>2. CASE Len(asked) # 1
          BY <1>2, <2>1, <5>2
        <5> QED BY <5>1, <5>2
      <4> QED BY <1>1, <1>3, <1>4, <2>1, <4>1, <4>2
    <3> QED BY <3>1, <3>2, <3>3 DEF Gapless
  <2>4. ProbeIsOut'
    BY <1>1, <1>2, <2>1 DEF ProbeIsOut
  <2> QED BY <1>1, <1>3, <1>4, <2>2, <2>3, <2>4
    DEF ReaderFlags, ChunkIsNext, EndIsReached, ReaderInv
<1>6. CASE n = Bytes(front)
  <2>1. asked' = Tail(asked)
    BY <1>1, <1>6
  <2>2. ReaderTypes'
    <3>1. chunk' \in Spans /\ chunk'.from <= chunk'.to
      BY <1>1, <1>3 DEF Spans
    <3>2. expectedEnd' \in Nat \cup {Unknown}
      BY <1>1 DEF ReaderTypes
    <3> QED BY <1>1, <1>2, <2>1, <3>1, <3>2 DEF ReaderTypes
  <2>3. Gapless'
    <3>1. \A i \in 1 .. Len(asked') : asked'[i].from < asked'[i].to
      BY <1>2, <2>1 DEF Gapless
    <3>2. \A i \in 1 .. Len(asked') - 1 : asked'[i].to = asked'[i + 1].from
      BY <1>2, <2>1 DEF Gapless
    <3>3. CASE Len(asked) = 1
      <4>1. asked' = <<>> /\ nextOffset' = Got'
        BY <1>1, <1>2, <1>3, <1>4, <1>6, <2>1, <3>3
      <4> QED BY <4>1, <3>1, <3>2 DEF Gapless
    <3>4. CASE Len(asked) # 1
      <4>1. asked' # <<>>
        BY <1>2, <2>1, <3>4
      <4>2. asked'[1].from = Got'
        BY <1>2, <1>3, <1>4, <1>6, <2>1, <3>4 DEF Gapless
      <4>3. asked'[Len(asked')].to = nextOffset'
        <5>1. Len(asked') = Len(asked) - 1 /\ Len(asked) - 1 \in 1 .. Len(asked) - 1
          BY <1>2, <2>1, <3>4
        <5>2. asked'[Len(asked) - 1] = asked[Len(asked) - 1 + 1]
          BY <1>2, <2>1, <5>1
        <5>3. Len(asked) - 1 + 1 = Len(asked)
          BY <1>2
        <5> QED BY <1>1, <1>3, <5>1, <5>2, <5>3
      <4> QED BY <4>1, <4>2, <4>3, <3>1, <3>2 DEF Gapless
    <3> QED BY <3>3, <3>4
  <2>4. ProbeIsOut'
    <3>1. CASE Len(asked) = 1
      <4>1. front.from + n = nextOffset
        BY <1>2, <1>3, <1>6, <3>1
      <4> QED BY <1>1, <4>1 DEF ProbeIsOut
    <3>2. CASE Len(asked) # 1
      <4>1. asked' # <<>>
        BY <1>2, <2>1, <3>2
      <4> QED BY <1>1, <4>1 DEF ProbeIsOut
    <3> QED BY <3>1, <3>2
  <2> QED BY <1>1, <1>3, <1>4, <2>2, <2>3, <2>4
    DEF ReaderFlags, ChunkIsNext, EndIsReached, ReaderInv
<1>7. n < Bytes(front) \/ n = Bytes(front)
  BY <1>3
<1> QED BY <1>5, <1>6, <1>7

\* The oldest request finds the end of the file: it starts where the reader has got to.
LEMMA ReceiveEndInv == ASSUME ReaderInv, ReceiveEnd PROVE ReaderInv'
<1> USE DEF ReaderInv
<1>1. Head(asked) = asked[1] /\ asked # <<>> /\ Head(asked).from >= held
      /\ Bytes(chunk) = 0
  BY DEF ReceiveEnd, ReaderTypes
<1>2. position >= held
  BY <1>1 DEF Gapless, Got, ReaderTypes
<1>3. endOfFile' = TRUE /\ asked' = <<>>
      /\ UNCHANGED <<held, expectedEnd, nextOffset, probed, chunk, position>>
  BY DEF ReceiveEnd
<1>4. ReaderTypes'
  BY <1>3 DEF ReaderTypes
<1>5. ReaderFlags' /\ ChunkIsNext' /\ ProbeIsOut' /\ EndIsReached'
  BY <1>1, <1>2, <1>3 DEF ReaderFlags, ChunkIsNext, ProbeIsOut, EndIsReached, Bytes
<1>6. Gapless'
  BY <1>3 DEF Gapless
<1> QED BY <1>4, <1>5, <1>6

\* The caller takes bytes from the front.
LEMMA TakeInv == ASSUME ReaderInv, NEW n \in Nat, Take(n) PROVE ReaderInv'
<1> USE DEF ReaderInv
<1>1. /\ n \in 1 .. chunk.to - chunk.from
      /\ chunk'.from = chunk.from + n /\ chunk'.to = chunk.to /\ chunk' \in Spans
      /\ position' = position + n /\ chunk.from \in Nat /\ chunk.to \in Nat
      /\ position \in Nat
      /\ UNCHANGED <<held, expectedEnd, nextOffset, probed, asked, endOfFile>>
  <2>1. chunk \in [from : Nat, to : Nat] /\ chunk' = [chunk EXCEPT !.from = chunk.from + n]
    BY DEF Take, ReaderTypes, Spans
  <2>2. chunk'.from = chunk.from + n /\ chunk'.to = chunk.to /\ chunk' \in Spans
    BY <2>1 DEF Spans
  <2> QED BY <2>1, <2>2 DEF Take, Bytes, ReaderTypes
<1>2. Got' = Got
  BY <1>1 DEF Got, Bytes
<1>3. ReaderTypes'
  BY <1>1 DEF ReaderTypes
<1>4. ReaderFlags' /\ ProbeIsOut'
  BY <1>1 DEF ReaderFlags, ProbeIsOut
<1>5. Gapless'
  BY <1>1, <1>2 DEF Gapless
<1>6. ChunkIsNext'
  BY <1>1 DEF ChunkIsNext, Bytes
<1>7. EndIsReached'
  BY <1>1 DEF EndIsReached, Bytes
<1> QED BY <1>3, <1>4, <1>5, <1>6, <1>7

\* Nothing of the reader changes.
LEMMA ReaderStays == ReaderInv /\ UNCHANGED readerVars => ReaderInv'
BY DEF ReaderInv, ReaderTypes, ReaderFlags, Gapless, ChunkIsNext, ProbeIsOut, EndIsReached,
       Got, Bytes, readerVars

\* What is known of the reader says that bytes come in order, and the end at the end.
LEMMA InOrder == ReaderInv => ReadsInOrder
<1> SUFFICES ASSUME ReaderInv PROVE ReadsInOrder
  OBVIOUS
<1>1. Bytes(chunk) > 0 => chunk.from = position
  BY DEF ReaderInv, ChunkIsNext
<1>2. ASSUME ReaderDone PROVE position >= held
  <2>1. asked = <<>> /\ ~CanAsk
    BY <1>2 DEF ReaderDone
  <2>2. Len(asked) < ReadDepth
    BY <2>1, ReaderAssumption
  <2>3. CASE endOfFile
    BY <2>3 DEF ReaderInv, EndIsReached
  <2>4. CASE ~endOfFile
    BY <2>1, <2>2, <2>4 DEF CanAsk, AtEnd, ReaderInv, ProbeIsOut
  <2> QED BY <2>3, <2>4 DEF ReaderInv, ReaderFlags
<1> QED BY <1>1, <1>2 DEF ReadsInOrder

-----------------------------------------------------------------------------
(* The copy.                                                               *)

\* Before the first attempt.
LEMMA InitCopyInv == Init => CopyInv /\ UploadInit
<1> SUFFICES ASSUME Init PROVE CopyInv /\ UploadInit
  OBVIOUS
<1>1. UploadInit /\ length \in Nat
  BY CopyAssumption DEF Init
<1>2. UploadType
  BY <1>1, InitInd DEF IndInv
<1>3. InStep
  BY <1>1 DEF Init, InStep, UploadInit
<1>4. ReaderTypes /\ ReaderFlags
  <2>1. /\ held = length /\ expectedEnd = Unknown /\ nextOffset = 0 /\ probed = FALSE
        /\ asked = <<>> /\ endOfFile = FALSE /\ chunk = NoBytes /\ position = 0
    BY DEF Init
  <2>2. NoBytes \in Spans /\ NoBytes.from <= NoBytes.to
    BY DEF NoBytes, Spans
  <2>3. asked \in Seq(Spans)
    BY <2>1
  <2> QED BY <1>1, <2>1, <2>2, <2>3 DEF ReaderTypes, ReaderFlags
<1>5. Gapless
  BY DEF Init, Gapless, Got, Bytes, NoBytes
<1>6. ChunkIsNext /\ ProbeIsOut /\ EndIsReached
  BY DEF Init, ChunkIsNext, ProbeIsOut, EndIsReached, Bytes, NoBytes
<1> QED BY <1>1, <1>2, <1>3, <1>4, <1>5, <1>6 DEF CopyInv, ReaderInv

\* listed never changes, and is a size.
ListedIsSize == listed \in Nat

\* An attempt opens both files at one offset.
LEMMA StartStep ==
  ASSUME CopyInv, ListedIsSize, IndInv, IndInv', NEW p \in Pipelines, StartAttempt(p)
  PROVE  ReaderInv' /\ InStep' /\ UploadNext
<1>1. OpenReader(low', listed) /\ (Open(p) \/ StartOver(p))
  BY DEF StartAttempt
<1>2. low' \in Nat /\ held \in Nat
  BY DEF IndInv, UploadType, CopyInv, ReaderInv, ReaderTypes
<1>3. ReaderInv'
  BY <1>1, <1>2, OpenReaderInv DEF ListedIsSize
<1>4. position' = low' /\ next' = low' /\ buffer' = 0 /\ held' = held /\ length' = length
  BY <1>1 DEF OpenReader, Open, StartOver
<1>5. low' + 0 = low' /\ held = length
  <2>1. held = length
    BY DEF CopyInv, InStep
  <2>2. \A at \in Nat : at + 0 = at
    OBVIOUS
  <2> QED BY <1>2, <2>1, <2>2
<1>6. InStep'
  BY <1>4, <1>5 DEF InStep
<1> QED BY <1>1, <1>3, <1>6 DEF UploadNext

\* Bytes are passed on: the writer takes no more than the source has.
LEMMA PassStep == ASSUME CopyInv, Pass PROVE ReaderInv' /\ InStep' /\ UploadNext
<1> DEFINE n == Least(Bytes(chunk), pipe.chunk - buffer)
<1>1. Take(n) /\ TakeIn(n) /\ n \in 1 .. Bytes(chunk)
  BY DEF Pass, Take
<1> HIDE DEF n
<1>2. n \in Nat /\ position' = position + n /\ UNCHANGED <<held, length, phase>>
      /\ phase = "writing"
  BY <1>1 DEF Take, TakeIn, Bytes, CopyInv, ReaderInv, ReaderTypes, Spans
<1>3. ReaderInv'
  BY <1>1, <1>2, TakeInv DEF CopyInv
<1>4. pipe.chunk \in Nat /\ next \in Nat /\ buffer \in Nat /\ length \in Nat
  BY UploadAssumption DEF CopyInv, UploadType
<1>5. next' + buffer' = next + buffer + n
  BY <1>1, <1>2, <1>4 DEF TakeIn
<1>6. InStep'
  BY <1>2, <1>4, <1>5 DEF InStep, CopyInv
<1>7. n \in 1 .. length - next - buffer
  <2>1. chunk.from = position /\ chunk.to <= held /\ chunk.from \in Nat /\ chunk.to \in Nat
    BY <1>1 DEF CopyInv, ReaderInv, ChunkIsNext, Bytes, ReaderTypes, Spans
  <2>2. held = length /\ position = next + buffer
    BY <1>2 DEF CopyInv, InStep
  <2> QED BY <1>1, <1>4, <2>1, <2>2 DEF Bytes
<1> QED BY <1>1, <1>3, <1>6, <1>7 DEF UploadNext

\* A step of the reader is none of the writer.
LEMMA ReadStep == ASSUME CopyInv, Read PROVE ReaderInv' /\ InStep' /\ UNCHANGED uploadVars
<1>1. ReaderInv'
  BY AskReadInv, ReceiveInv, ReceiveEndInv DEF Read, CopyInv
<1>2. UNCHANGED <<position, held, length, phase, next, buffer>>
  BY DEF Read, AskRead, Receive, ReceiveEnd, uploadVars, writerVars
<1> QED BY <1>1, <1>2 DEF InStep, CopyInv, Read

\* A step of the writer, or the end of an attempt, is one of the upload.
LEMMA WriteStep ==
  ASSUME CopyInv, Write \/ Shutdown \/ CutShort \/ Straggle
  PROVE  ReaderInv' /\ InStep' /\ UploadNext
<1>1. UNCHANGED readerVars /\ ReaderInv'
  BY ReaderStays DEF Write, Shutdown, CutShort, Straggle, CopyInv
<1>2. pipe.chunk \in Nat /\ next \in Nat /\ buffer \in Nat
  BY UploadAssumption DEF CopyInv, UploadType
<1>3. UploadNext
  BY DEF Write, Shutdown, CutShort, Straggle, UploadNext
<1>4. /\ length' = length
      /\ phase' = "writing" => phase = "writing" /\ next' + buffer' = next + buffer
  <2>1. CASE Dispatch \/ Drain
    BY <1>2, <2>1 DEF Dispatch, Drain
  <2>2. CASE Reap \/ (\E i \in 0 .. inflight - 1 : Apply(i)) \/ \E w \in late : LateWrite(w)
    BY <2>2 DEF Reap, Apply, LateWrite, writerVars
  <2>3. CASE Close \/ Fail \/ Salvage
    BY <2>3 DEF Close, Fail, Salvage, Stop
  <2> QED BY <2>1, <2>2, <2>3 DEF Write, Shutdown, CutShort, Straggle
<1>5. InStep'
  BY <1>1, <1>4 DEF InStep, CopyInv, readerVars
<1> QED BY <1>1, <1>3, <1>5

\* One step of the copy keeps the invariant and is one of the upload, or none.
LEMMA CopyStep ==
  ASSUME CopyInv, ListedIsSize, IndInv, [Next]_copyVars
  PROVE  CopyInv' /\ ListedIsSize' /\ IndInv' /\ [UploadNext]_uploadVars
<1>1. ListedIsSize'
  BY DEF ListedIsSize, Next, StartAttempt, Read, Pass, Write, Shutdown, CutShort, Straggle,
         engineVars, copyVars
<1>2. ReaderInv' /\ InStep' /\ [UploadNext]_uploadVars
  <2>1. CASE \E p \in Pipelines : StartAttempt(p)
    <3>1. PICK p \in Pipelines : StartAttempt(p)
      BY <2>1
    <3>2. UploadNext
      BY <3>1 DEF StartAttempt, UploadNext
    <3>3. IndInv'
      BY <3>2, NextInd
    <3> QED BY <3>1, <3>3, StartStep
  <2>2. CASE Pass
    BY <2>2, PassStep
  <2>3. CASE Read
    BY <2>3, ReadStep
  <2>4. CASE Write \/ Shutdown \/ CutShort \/ Straggle
    BY <2>4, WriteStep
  <2>5. CASE UNCHANGED copyVars
    BY <2>5, ReaderStays DEF copyVars, uploadVars, writerVars, readerVars, InStep, CopyInv
  <2> QED BY <2>1, <2>2, <2>3, <2>4, <2>5 DEF Next
<1>3. IndInv'
  BY <1>2, NextInd
<1> QED BY <1>1, <1>2, <1>3 DEF CopyInv, IndInv

THEOREM CopyInductive == Spec => [](CopyInv /\ ListedIsSize /\ IndInv)
<1>1. Init => CopyInv /\ ListedIsSize /\ IndInv
  BY InitCopyInv, InitInd, CopyAssumption DEF Init, ListedIsSize
<1> QED BY <1>1, CopyStep, PTL DEF Spec

\* The caller of SftpReader gets the file's bytes in order, and the end at the
\* end, however short the server's answers are and however wrong the listing was.
THEOREM ReadsAreInOrder == Spec => []ReadsInOrder
<1>1. CopyInv => ReadsInOrder
  BY InOrder DEF CopyInv
<1> QED BY <1>1, CopyInductive, PTL

\* The copy implements SftpUpload: every step of it is one of the upload, or
\* leaves it as it is, whatever the reader, the engine and the servers do.
THEOREM CopyUploads == Spec => Uploads
<1>1. Init => UploadInit
  BY InitCopyInv
<1>2. CopyInv /\ ListedIsSize /\ IndInv /\ [Next]_copyVars => [UploadNext]_uploadVars
  BY CopyStep
<1> QED BY <1>1, <1>2, CopyInductive, PTL DEF Spec, Uploads, UploadSpec

\* What is proved of the upload holds of the copy: the file that takes the
\* target's name is the whole source.
THEOREM CopiesAreWhole == Spec => []FinishedIsWhole /\ []ResumePointIsClean
<1> QED BY CopyUploads, FinishesWhole, ResumesClean, PTL DEF Uploads

=============================================================================

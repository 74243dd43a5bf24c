------------------------- MODULE TransferEngineProofs -------------------------
(***************************************************************************)
(* Two jobs never write to one file at a time, and what was in the target  *)
(* folder is replaced only when a user agreed: proved for any jobs, items, *)
(* answers and dropped connections.                                        *)
(*                                                                         *)
(* What a job writes is a .filepart it has the only claim on, or a hidden  *)
(* name with its own number in it.  That this is so whenever it writes,    *)
(* however its attempts end, is the inductive invariant; the rest of the   *)
(* invariant says that targets are paths, so that a name beside one is     *)
(* that name.                                                              *)
(*                                                                         *)
(* What was there before and nobody agreed to replace stays where it was,  *)
(* in the folders it was in: whatever a job writes, renames, sets aside,   *)
(* puts back or removes is clear of it (ClearOf), which is so when it was  *)
(* chosen and stays so, because agreements are not taken back.             *)
(*                                                                         *)
(* For jobs that pick files and no folders, two results more: what they    *)
(* wrote is whole under its name, and what they replace is there under     *)
(* some name until then.  Everything such jobs touch is at the top of the  *)
(* target folder (FlatInv), so that a rename takes along nothing of        *)
(* another job's; what they know of their files is WholeInv, where an old  *)
(* file is KeptInv.                                                        *)
(***************************************************************************)
EXTENDS TransferEngine, SequenceTheorems, TLAPS

-----------------------------------------------------------------------------
\* A path, and a stack, is a sequence, of whatever it is made of.
IsSequence(s) == s \in Seq(Range(s))

IsFrame(frame) == /\ DOMAIN frame = {"folder", "into", "todo", "complete", "copyOnly"}
                  /\ IsSequence(frame.into)
IsWalk(stack) == IsSequence(stack) /\ \A n \in DOMAIN stack : IsFrame(stack[n])

IsDecision(d) == /\ DOMAIN d = {"do", "to"}
                 /\ d.do \in {"overwrite", "skip", "rename"}
                 /\ IsSequence(d.to)
                 /\ d.do = "overwrite" => d = Overwrite
                 /\ d.do = "rename" => d.to # <<>>

\* What is known of each job, and of the tables the jobs have their places in.
Tables == /\ DOMAIN pc = Jobs /\ DOMAIN walk = Jobs /\ DOMAIN work = Jobs
          /\ DOMAIN ledger = Jobs /\ DOMAIN sticky = Jobs
Records(j) ==
  /\ DOMAIN work[j] = {"item", "target", "earlier", "overwrite", "clash", "temporary",
                       "offset", "aside"}
  /\ DOMAIN ledger[j] = {"written", "partials", "decided", "moved", "leftovers", "attempts"}
  /\ DOMAIN sticky[j] = {"clash", "partial"}
  /\ sticky[j].clash \in {None, "overwrite", "skip", "rename"}

\* The folders a job is in, as long as it runs.
Walking(j) == IsWalk(walk[j]) /\ (walk[j] = <<>> => pc[j] \in {"idle", "over"})

TargetIsPath(j) == IsSequence(Target(j))
DecisionsAreKept(j) ==
  /\ work[j].earlier = Undecided \/ IsDecision(work[j].earlier)
  /\ \A i \in DOMAIN ledger[j].decided : IsDecision(ledger[j].decided[i])

\* Only a .filepart is claimed.
ClaimsAreOnPartials == \A p \in DOMAIN claims : Last(p).kind = "filepart"

\* The steps at which a job has chosen what to write to.
HasTemporary == {"create", "discard", "askpartial", "resume", "stream"} \cup Renaming

OwnsTemporary(j) == pc[j] \in HasTemporary =>
  \/ IsPartial(j)
  \/ Last(Temporary(j)) = Hidden("temp", <<j, ledger[j].attempts>>)

JobInv(j) == /\ Records(j) /\ Walking(j) /\ TargetIsPath(j) /\ DecisionsAreKept(j)
             /\ OwnsTemporary(j)
IndInv == Tables /\ ClaimsAreOnPartials /\ \A j \in Jobs : JobInv(j)

-----------------------------------------------------------------------------
\* A sequence is one of its own elements.
LEMMA Sequences == ASSUME NEW S, NEW s \in Seq(S) PROVE IsSequence(s)
BY SeqOfRange DEF IsSequence

\* The empty path, and the empty stack.
LEMMA EmptyIsSequence == IsSequence(<<>>)
BY Sequences, EmptySeq

\* What Append gives, element by element.
LEMMA AppendIsSequence ==
  ASSUME NEW s, NEW e, IsSequence(s)
  PROVE  /\ IsSequence(Append(s, e)) /\ Append(s, e) # <<>> /\ Last(Append(s, e)) = e
         /\ DOMAIN Append(s, e) = DOMAIN s \cup {Len(s) + 1}
         /\ \A n \in DOMAIN s : Append(s, e)[n] = s[n]
         /\ Append(s, e)[Len(s) + 1] = e
<1> DEFINE S == Range(s) \cup {e}
<1>1. s \in Seq(S)
  BY SeqMonotonic DEF IsSequence
<1>2. Append(s, e) \in Seq(S) /\ Len(Append(s, e)) = Len(s) + 1 /\ Append(s, e)[Len(s) + 1] = e
      /\ \A n \in 1 .. Len(s) : Append(s, e)[n] = s[n]
  BY <1>1, AppendProperties
<1>3. Len(s) \in Nat /\ DOMAIN s = 1 .. Len(s) /\ DOMAIN Append(s, e) = 1 .. Len(s) + 1
  BY <1>1, <1>2, LenProperties
<1>4. Append(s, e) # <<>>
  BY <1>2, <1>3, EmptySeq
<1>5. IsSequence(Append(s, e)) /\ Last(Append(s, e)) = e
  BY <1>2, Sequences DEF Last
<1>6. DOMAIN Append(s, e) = DOMAIN s \cup {Len(s) + 1}
  BY <1>3
<1> HIDE DEF S
<1> QED BY <1>2, <1>3, <1>4, <1>5, <1>6

\* What Front leaves, element by element.
LEMMA FrontIsSequence ==
  ASSUME NEW s, IsSequence(s)
  PROVE  /\ IsSequence(Front(s)) /\ (s # <<>> => Len(s) \in DOMAIN s)
         /\ DOMAIN Front(s) \subseteq DOMAIN s
         /\ \A n \in DOMAIN Front(s) : Front(s)[n] = s[n]
         /\ s # <<>> /\ Len(s) # 1 => Front(s) # <<>>
<1> DEFINE S == Range(s)
<1>1. s \in Seq(S) /\ Len(s) \in Nat /\ DOMAIN s = 1 .. Len(s)
  BY LenProperties DEF IsSequence
<1>2. CASE s = <<>>
  <2>1. Len(s) = 0 /\ Front(s) = <<>>
    BY <1>1, <1>2, EmptySeq, SubSeqEmpty DEF Front
  <2> QED BY <1>1, <1>2, <2>1, EmptyIsSequence
<1>3. CASE s # <<>>
  <2>1. Len(s) \in 1 .. Len(s)
    BY <1>1, <1>3, EmptySeq
  <2>2. /\ Front(s) \in Seq(S) /\ Len(Front(s)) = Len(s) - 1
        /\ \A n \in 1 .. Len(s) - 1 : Front(s)[n] = s[n]
    BY <1>1, <2>1, SubSeqProperties DEF Front
  <2>3. DOMAIN Front(s) = 1 .. Len(s) - 1
    BY <2>2, LenProperties
  <2>4. Len(s) # 1 => Front(s) # <<>>
    BY <1>1, <2>1, <2>2, EmptySeq
  <2> QED BY <1>1, <1>3, <2>1, <2>2, <2>3, <2>4, Sequences
<1> QED BY <1>2, <1>3

\* A name beside a path is that name.
LEMMA BesideIsPath ==
  ASSUME NEW p, NEW e, IsSequence(p)
  PROVE  IsSequence(Beside(p, e)) /\ Beside(p, e) # <<>> /\ Last(Beside(p, e)) = e
BY FrontIsSequence, AppendIsSequence DEF Beside

\* unique_target gives a path, whichever number is free.
LEMMA FirstFreeIsPath ==
  ASSUME NEW p, NEW folder, IsSequence(p)
  PROVE  IsSequence(FirstFree(folder, p)) /\ FirstFree(folder, p) # <<>>
BY BesideIsPath DEF FirstFree

\* Folders are entered and left, and their progress noted, at the top of the walk.
LEMMA StackOperations ==
  ASSUME NEW stack, IsWalk(stack)
  PROVE  /\ IsWalk(Front(stack)) /\ (stack # <<>> => IsFrame(Last(stack)))
         /\ \A frame : IsFrame(frame) =>
              /\ IsWalk(Append(stack, frame)) /\ Append(stack, frame) # <<>>
              /\ IsWalk(ReplaceLast(stack, frame)) /\ ReplaceLast(stack, frame) # <<>>
<1>1. IsSequence(stack) /\ \A n \in DOMAIN stack : IsFrame(stack[n])
  BY DEF IsWalk
<1>2. IsWalk(Front(stack)) /\ (stack # <<>> => IsFrame(Last(stack)))
  BY <1>1, FrontIsSequence DEF IsWalk, Last
<1>3. ASSUME NEW s, NEW frame, IsWalk(s), IsFrame(frame)
      PROVE  IsWalk(Append(s, frame)) /\ Append(s, frame) # <<>>
  BY <1>3, AppendIsSequence DEF IsWalk
<1> QED BY <1>2, <1>3 DEF ReplaceLast

-----------------------------------------------------------------------------
(* A step of one job leaves the others where they are, with their claims.   *)

OnlyTouches(j) ==
  /\ Tables'
  /\ \A k \in Jobs \ {j} : /\ pc'[k] = pc[k] /\ walk'[k] = walk[k] /\ work'[k] = work[k]
                           /\ ledger'[k] = ledger[k] /\ sticky'[k] = sticky[k]
  /\ \A p \in DOMAIN claims :
       claims[p] # j => p \in DOMAIN claims' /\ claims'[p] = claims[p]

\* It is enough to look at the job that takes a step.
LEMMA OthersStay ==
  ASSUME IndInv, NEW j \in Jobs, OnlyTouches(j), JobInv(j)', ClaimsAreOnPartials'
  PROVE  IndInv'
<1> SUFFICES ASSUME NEW k \in Jobs, k # j PROVE JobInv(k)'
  BY DEF IndInv, OnlyTouches
<1>1. JobInv(k) /\ pc'[k] = pc[k] /\ walk'[k] = walk[k] /\ work'[k] = work[k]
      /\ ledger'[k] = ledger[k] /\ sticky'[k] = sticky[k]
  BY DEF IndInv, OnlyTouches
<1>2. IsPartial(k) => IsPartial(k)'
  BY <1>1 DEF IsPartial, IsClaimed, Temporary, OnlyTouches
<1>3. OwnsTemporary(k)'
  BY <1>1, <1>2 DEF JobInv, OwnsTemporary, Temporary
<1> QED BY <1>1, <1>3 DEF JobInv, Records, Walking, TargetIsPath, Target, DecisionsAreKept

KeepsClaims(j) ==
  /\ ClaimsAreOnPartials'
  /\ \A p \in DOMAIN claims :
       claims[p] # j => p \in DOMAIN claims' /\ claims'[p] = claims[p]

KeepsBooks(j) ==
  /\ DOMAIN ledger' = Jobs /\ DOMAIN sticky' = Jobs
  /\ \A k \in Jobs \ {j} : ledger'[k] = ledger[k] /\ sticky'[k] = sticky[k]
  /\ DOMAIN ledger'[j] = DOMAIN NewLedger /\ DOMAIN sticky'[j] = {"clash", "partial"}
  /\ sticky'[j].clash \in {None, "overwrite", "skip", "rename"}
  /\ \A i \in DOMAIN ledger'[j].decided : IsDecision(ledger'[j].decided[i])

\* The job goes on, and writes to nothing.
WritesNothing(j) ==
  /\ DOMAIN pc' = Jobs /\ DOMAIN walk' = Jobs /\ DOMAIN work' = Jobs
  /\ \A k \in Jobs \ {j} : pc'[k] = pc[k] /\ walk'[k] = walk[k] /\ work'[k] = work[k]
  /\ pc'[j] \notin HasTemporary
  /\ Walking(j)' /\ DOMAIN work'[j] = DOMAIN NoWork /\ IsSequence(work'[j].target)
  /\ work'[j].earlier = Undecided \/ IsDecision(work'[j].earlier)

\* A job that writes to nothing can do no harm, if it keeps books and claims.
LEMMA WritingNothing ==
  ASSUME IndInv, NEW j \in Jobs, WritesNothing(j), KeepsBooks(j), KeepsClaims(j)
  PROVE  IndInv'
<1>1. OnlyTouches(j)
  BY DEF WritesNothing, KeepsBooks, KeepsClaims, OnlyTouches, Tables
<1>2. Records(j)' /\ TargetIsPath(j)'
  BY DEF WritesNothing, KeepsBooks, Records, TargetIsPath, Target, NoWork, NewLedger
<1>3. DecisionsAreKept(j)' /\ OwnsTemporary(j)' /\ Walking(j)' /\ ClaimsAreOnPartials'
  BY DEF WritesNothing, KeepsBooks, KeepsClaims, DecisionsAreKept, OwnsTemporary
<1> QED BY <1>1, <1>2, <1>3, OthersStay DEF JobInv

\* PartialClaim::drop gives up the job's own claims only.
LEMMA GivingUpClaims ==
  ASSUME IndInv, NEW j \in Jobs, GiveUpClaim(j)
  PROVE  KeepsClaims(j)
BY DEF GiveUpClaim, Restrict, IndInv, ClaimsAreOnPartials, KeepsClaims

\* Without a change of claims.
LEMMA SameClaims ==
  ASSUME IndInv, NEW j \in Jobs, UNCHANGED claims
  PROVE  KeepsClaims(j)
BY DEF IndInv, ClaimsAreOnPartials, KeepsClaims

\* Whatever is noted in the ledger, but for answers and the number of attempts.
LEMMA SameBooks ==
  ASSUME IndInv, NEW j \in Jobs, UNCHANGED sticky, NEW entry,
         DOMAIN entry = DOMAIN NewLedger, entry.decided = ledger[j].decided,
         ledger' = [ledger EXCEPT ![j] = entry]
  PROVE  KeepsBooks(j)
<1>1. DOMAIN sticky = Jobs /\ DOMAIN ledger = Jobs /\ Records(j) /\ DecisionsAreKept(j)
  BY DEF IndInv, Tables, JobInv
<1> QED BY <1>1 DEF KeepsBooks, Records, DecisionsAreKept

\* Without a change of the ledger and the standing answers.
LEMMA SameBooksKept ==
  ASSUME IndInv, NEW j \in Jobs, UNCHANGED <<ledger, sticky>>
  PROVE  KeepsBooks(j)
<1>1. DOMAIN sticky = Jobs /\ DOMAIN ledger = Jobs /\ Records(j) /\ DecisionsAreKept(j)
  BY DEF IndInv, Tables, JobInv
<1> QED BY <1>1 DEF KeepsBooks, Records, DecisionsAreKept, NewLedger

\* The three sets a ledger grows and shrinks.
LEMMA Noting ==
  ASSUME IndInv, NEW j \in Jobs, UNCHANGED sticky, NEW value,
         Note(j, "moved", value) \/ Note(j, "partials", value) \/ Note(j, "leftovers", value)
  PROVE  KeepsBooks(j)
<1>1. DOMAIN ledger[j] = DOMAIN NewLedger
  BY DEF IndInv, JobInv, Records, NewLedger
<1>2. CASE Note(j, "moved", value)
  <2> DEFINE entry == [ledger[j] EXCEPT !["moved"] = value]
  <2>1. ledger' = [ledger EXCEPT ![j] = entry]
    BY <1>2 DEF Note
  <2>2. DOMAIN entry = DOMAIN NewLedger /\ entry.decided = ledger[j].decided
    BY <1>1 DEF NewLedger
  <2> QED BY <2>1, <2>2, SameBooks
<1>3. CASE Note(j, "partials", value)
  <2> DEFINE entry == [ledger[j] EXCEPT !["partials"] = value]
  <2>1. ledger' = [ledger EXCEPT ![j] = entry]
    BY <1>3 DEF Note
  <2>2. DOMAIN entry = DOMAIN NewLedger /\ entry.decided = ledger[j].decided
    BY <1>1 DEF NewLedger
  <2> QED BY <2>1, <2>2, SameBooks
<1>4. CASE Note(j, "leftovers", value)
  <2> DEFINE entry == [ledger[j] EXCEPT !["leftovers"] = value]
  <2>1. ledger' = [ledger EXCEPT ![j] = entry]
    BY <1>4 DEF Note
  <2>2. DOMAIN entry = DOMAIN NewLedger /\ entry.decided = ledger[j].decided
    BY <1>1 DEF NewLedger
  <2> QED BY <2>1, <2>2, SameBooks
<1> QED BY <1>2, <1>3, <1>4

\* Between items nothing is decided.
LEMMA NoWorkIsSound ==
  /\ IsSequence(NoWork.target) /\ NoWork.earlier = Undecided
  /\ IsSequence(Undecided.to) /\ IsSequence(<<>>)
BY EmptyIsSequence DEF NoWork, Undecided

\* An item is done with, and its folder goes on.
LEMMA Settling ==
  ASSUME IndInv, NEW j \in Jobs, NEW stack, NEW done, IsWalk(stack), stack # <<>>,
         Settle(j, stack, done)
  PROVE  WritesNothing(j)
<1> DEFINE frame == [Last(stack) EXCEPT !.complete = @ /\ done]
<1>1. DOMAIN pc = Jobs /\ DOMAIN walk = Jobs /\ DOMAIN work = Jobs
  BY DEF IndInv, Tables
<1>2. IsFrame(Last(stack))
  BY StackOperations
<1>3. IsFrame(frame)
  BY <1>2 DEF IsFrame
<1>4. IsWalk(ReplaceLast(stack, frame)) /\ ReplaceLast(stack, frame) # <<>>
  BY <1>3, StackOperations
<1>5. walk' = [walk EXCEPT ![j] = ReplaceLast(stack, frame)]
  BY DEF Settle
<1>6. Walking(j)'
  BY <1>1, <1>4, <1>5 DEF Walking
<1>7. pc' = [pc EXCEPT ![j] = "walk"] /\ work' = [work EXCEPT ![j] = NoWork]
  BY DEF Settle, Goto
<1> HIDE DEF frame
<1> QED BY <1>1, <1>5, <1>6, <1>7, NoWorkIsSound DEF WritesNothing, HasTemporary, Renaming

\* An attempt ends, and its claim with it.
LEMMA Ending ==
  ASSUME IndInv, NEW j \in Jobs, NEW outcome \in {"idle", "over"}, EndsWith(j, outcome)
  PROVE  WritesNothing(j) /\ KeepsClaims(j)
<1>1. DOMAIN pc = Jobs /\ DOMAIN walk = Jobs /\ DOMAIN work = Jobs
  BY DEF IndInv, Tables
<1>2. /\ pc' = [pc EXCEPT ![j] = outcome] /\ walk' = [walk EXCEPT ![j] = <<>>]
      /\ work' = [work EXCEPT ![j] = NoWork]
  BY DEF EndsWith, Goto
<1>3. IsWalk(<<>>)
  BY EmptyIsSequence DEF IsWalk
<1>4. Walking(j)'
  BY <1>1, <1>2, <1>3 DEF Walking
<1>5. KeepsClaims(j)
  BY GivingUpClaims DEF EndsWith
<1> QED BY <1>1, <1>2, <1>4, <1>5, NoWorkIsSound DEF WritesNothing, HasTemporary, Renaming

\* The target is decided on.
LEMMA Placing ==
  ASSUME IndInv, NEW j \in Jobs, pc[j] \in {"place", "ask"}, NEW book, NEW replaces,
         PlaceAt(j, book, replaces)
  PROVE  WritesNothing(j)
<1>1. Tables /\ JobInv(j)
  BY DEF IndInv
<1>2. /\ \E step \in {"stage", "clear", "list", "mkdir"} : pc' = [pc EXCEPT ![j] = step]
      /\ work' = [work EXCEPT ![j].overwrite = replaces, ![j].earlier = Undecided]
      /\ walk' = walk
  BY DEF PlaceAt, Goto
<1>3. walk[j] # <<>>
  BY <1>1 DEF JobInv, Walking
<1>4. Walking(j)' /\ IsSequence(work'[j].target)
  BY <1>1, <1>2, <1>3 DEF Walking, JobInv, TargetIsPath, Target, Tables, Records
<1> QED BY <1>1, <1>2, <1>4
  DEF WritesNothing, HasTemporary, Renaming, Tables, JobInv, Records, NoWork

\* An answer is followed, whichever it is.
LEMMA Following ==
  ASSUME IndInv, NEW j \in Jobs, pc[j] \in {"place", "ask"}, NEW decision,
         IsDecision(decision), NEW book, Follow(j, decision, book)
  PROVE  WritesNothing(j)
<1>1. Tables /\ JobInv(j) /\ walk[j] # <<>> /\ IsWalk(walk[j])
  BY DEF IndInv, JobInv, Walking
<1>2. CASE decision.do = "overwrite"
  BY <1>2, Placing DEF Follow
<1>3. CASE decision.do = "skip"
  BY <1>1, <1>3, Settling DEF Follow
<1>4. CASE decision.do = "rename"
  <2>1. /\ pc' = [pc EXCEPT ![j] = "place"] /\ walk' = walk
        /\ work' = [work EXCEPT ![j].target = decision.to, ![j].earlier = Undecided]
    BY <1>4 DEF Follow, Goto
  <2>2. Walking(j)'
    BY <1>1, <2>1 DEF Walking
  <2>3. IsSequence(decision.to)
    BY DEF IsDecision
  <2> QED BY <1>1, <2>1, <2>2, <2>3
    DEF WritesNothing, HasTemporary, Renaming, Tables, JobInv, Records, NoWork
<1> QED BY <1>2, <1>3, <1>4 DEF IsDecision

\* Following an answer keeps the answers in the ledger.
LEMMA Remembering ==
  ASSUME IndInv, NEW j \in Jobs, UNCHANGED sticky, NEW decision, IsDecision(decision),
         NEW book, DOMAIN book = DOMAIN NewLedger,
         \A i \in DOMAIN book.decided : IsDecision(book.decided[i]),
         Follow(j, decision, book)
  PROVE  KeepsBooks(j)
<1>1. DOMAIN sticky = Jobs /\ DOMAIN ledger = Jobs /\ Records(j)
  BY DEF IndInv, Tables, JobInv
<1>2. ledger' = [ledger EXCEPT ![j] = book]
      \/ \E written : ledger' = [ledger EXCEPT ![j] = [book EXCEPT !.written = written]]
  BY DEF Follow, PlaceAt, IsDecision
<1> QED BY <1>1, <1>2 DEF KeepsBooks, Records, NewLedger

\* The next request is one that writes to nothing.
LEMMA GoingOn ==
  ASSUME IndInv, NEW j \in Jobs, NEW step, step \notin HasTemporary,
         pc[j] \notin {"idle", "over"} \/ step = "over",
         Goto(j, step), UNCHANGED <<walk, work>>
  PROVE  WritesNothing(j)
<1>1. Tables /\ JobInv(j)
  BY DEF IndInv
<1>2. Walking(j)'
  BY <1>1 DEF JobInv, Walking, Tables, Goto
<1> QED BY <1>1, <1>2
  DEF WritesNothing, Tables, JobInv, Records, NoWork, TargetIsPath, Target, DecisionsAreKept, Goto

-----------------------------------------------------------------------------
(* The walk.                                                               *)

\* Engine::plan: an attempt starts over at the picked items.
LEMMA BeginStep == ASSUME IndInv, NEW j \in Jobs, Begin(j) PROVE IndInv'
<1>1. Tables /\ JobInv(j)
  BY DEF IndInv
<1>2. PICK left :
        /\ pc' = [pc EXCEPT ![j] = "walk"] /\ UNCHANGED <<claims, work, sticky>>
        /\ walk' = [walk EXCEPT ![j] = <<Frame(None, <<>>, left, FALSE)>>]
        /\ ledger' = [ledger EXCEPT ![j].leftovers = {}, ![j].attempts = @ + 1]
  BY DEF Begin, Goto
<1>3. IsFrame(Frame(None, <<>>, left, FALSE))
  BY EmptyIsSequence DEF IsFrame, Frame
<1>4. Walking(j)'
  <2> DEFINE frame == Frame(None, <<>>, left, FALSE)
  <2> HIDE DEF frame
  <2>1. <<frame>> = Append(<<>>, frame) /\ IsWalk(<<>>)
    BY EmptyIsSequence DEF IsWalk
  <2>2. IsWalk(<<frame>>) /\ <<frame>> # <<>>
    BY <1>3, <2>1, StackOperations DEF frame
  <2> QED BY <1>1, <1>2, <2>2 DEF Walking, Tables, frame
<1>5. WritesNothing(j)
  BY <1>1, <1>2, <1>4 DEF WritesNothing, Tables, JobInv, Records, NoWork, TargetIsPath, Target,
                        DecisionsAreKept, HasTemporary, Renaming
<1>6. KeepsBooks(j)
  BY <1>1, <1>2 DEF KeepsBooks, Tables, JobInv, Records, NewLedger, DecisionsAreKept
<1> QED BY <1>2, <1>5, <1>6, SameClaims, WritingNothing

\* Engine::lstat: a picked item is gone.
LEMMA CannotBeginStep == ASSUME IndInv, NEW j \in Jobs, CannotBegin(j) PROVE IndInv'
<1>1. WritesNothing(j)
  BY GoingOn DEF CannotBegin, HasTemporary, Renaming
<1> QED BY <1>1, SameBooksKept, SameClaims, WritingNothing DEF CannotBegin

\* Engine::transfer takes up the next item, or skips it.
LEMMA ChooseStep == ASSUME IndInv, NEW j \in Jobs, NEW i \in Items, Choose(j, i) PROVE IndInv'
<1> DEFINE frame == [Top(j) EXCEPT !.todo = @ \ {i}]
           stack == ReplaceLast(walk[j], frame)
<1>1. Tables /\ JobInv(j) /\ IsWalk(walk[j]) /\ walk[j] # <<>>
  BY DEF IndInv, JobInv, Walking, Choose
<1>2. IsFrame(Top(j))
  BY <1>1, StackOperations DEF Top
<1>3. IsFrame(frame)
  BY <1>2 DEF IsFrame
<1>4. IsWalk(stack) /\ stack # <<>>
  BY <1>1, <1>3, StackOperations
<1>5. WritesNothing(j)
  <2>1. CASE Handling[i] = "skip"
    BY <1>4, <2>1, Settling DEF Choose
  <2>2. CASE Handling[i] # "skip"
    <3> DEFINE target == Append(Top(j).into, Proper(Stored[i]))
               earlier == IF i \in DOMAIN ledger[j].decided THEN ledger[j].decided[i]
                          ELSE Undecided
    <3>1. /\ pc' = [pc EXCEPT ![j] = "place"] /\ walk' = [walk EXCEPT ![j] = stack]
          /\ work' = [work EXCEPT ![j] = [NoWork EXCEPT !.item = i, !.target = target,
                                                      !.earlier = earlier]]
      BY <2>2 DEF Choose, Goto
    <3>2. IsSequence(target)
      BY <1>2, AppendIsSequence DEF IsFrame
    <3>3. earlier = Undecided \/ IsDecision(earlier)
      BY <1>1 DEF JobInv, DecisionsAreKept
    <3> HIDE DEF target, earlier, stack
    <3>4. Walking(j)'
      BY <1>1, <1>4, <3>1 DEF Walking, Tables
    <3> QED BY <1>1, <3>1, <3>2, <3>3, <3>4
      DEF WritesNothing, Tables, NoWork, HasTemporary, Renaming
  <2> QED BY <2>1, <2>2
<1> QED BY <1>5, SameBooksKept, SameClaims, WritingNothing DEF Choose

\* Engine::transfer_folder: its items come next.
LEMMA EnterFolderStep == ASSUME IndInv, NEW j \in Jobs, EnterFolder(j) PROVE IndInv'
<1>1. Tables /\ JobInv(j) /\ IsWalk(walk[j]) /\ IsSequence(Target(j))
  BY DEF IndInv, JobInv, Walking, TargetIsPath
<1>2. PICK todo, copyOnly :
        walk' = [walk EXCEPT ![j] = Append(@, Frame(Item(j), Target(j), todo, copyOnly))]
  BY DEF EnterFolder
<1> DEFINE frame == Frame(Item(j), Target(j), todo, copyOnly)
<1>3. IsFrame(frame)
  BY <1>1 DEF IsFrame, Frame
<1>4. IsWalk(Append(walk[j], frame)) /\ Append(walk[j], frame) # <<>>
  BY <1>1, <1>3, StackOperations
<1> HIDE DEF frame
<1>5. Walking(j)'
  BY <1>1, <1>2, <1>4 DEF Walking, Tables, frame
<1>6. WritesNothing(j)
  BY <1>1, <1>2, <1>5, NoWorkIsSound
  DEF EnterFolder, Goto, WritesNothing, Tables, HasTemporary, Renaming
<1> QED BY <1>6, SameBooksKept, SameClaims, WritingNothing DEF EnterFolder

\* Engine::transfer_folder: the folder above goes on.
LEMMA LeaveFolderStep == ASSUME IndInv, NEW j \in Jobs, LeaveFolder(j) PROVE IndInv'
<1> DEFINE above == Front(walk[j])
<1>1. Tables /\ JobInv(j) /\ IsWalk(walk[j]) /\ walk[j] # <<>> /\ Len(walk[j]) # 1
  BY DEF IndInv, JobInv, Walking, LeaveFolder, IsPick
<1>2. IsWalk(above)
  BY <1>1, StackOperations
<1>3. above # <<>>
  BY <1>1, FrontIsSequence DEF IsWalk
<1>4. WritesNothing(j)
  <2>1. CASE \E done : Settle(j, above, done)
    BY <1>2, <1>3, <2>1, Settling
  <2>2. CASE /\ pc' = [pc EXCEPT ![j] = "remove"] /\ walk' = [walk EXCEPT ![j] = above]
             /\ work' = [work EXCEPT ![j] = [NoWork EXCEPT !.item = Top(j).folder]]
    <3>1. Walking(j)'
      BY <1>1, <1>2, <1>3, <2>2 DEF Walking, Tables
    <3>2. DOMAIN work'[j] = DOMAIN NoWork /\ work'[j].target = NoWork.target
          /\ work'[j].earlier = NoWork.earlier
      BY <1>1, <2>2 DEF Tables, NoWork
    <3> QED BY <1>1, <2>2, <3>1, <3>2, NoWorkIsSound
      DEF WritesNothing, Tables, HasTemporary, Renaming
  <2> QED BY <2>1, <2>2 DEF LeaveFolder, Goto
<1> QED BY <1>4, SameBooksKept, SameClaims, WritingNothing DEF LeaveFolder

\* Engine::run is through.
LEMMA FinishStep == ASSUME IndInv, NEW j \in Jobs, Finish(j) PROVE IndInv'
<1>1. WritesNothing(j)
  BY GoingOn DEF Finish, HasTemporary, Renaming
<1> QED BY <1>1, SameBooksKept, SameClaims, WritingNothing DEF Finish

\* The requests about folders and sources.
LEMMA FolderStep ==
  ASSUME IndInv, NEW j \in Jobs, ClearTarget(j) \/ MakeFolder(j) \/ RemoveSource(j)
  PROVE  IndInv'
<1>1. WritesNothing(j)
  BY GoingOn DEF ClearTarget, MakeFolder, RemoveSource, HasTemporary, Renaming
<1>2. UNCHANGED <<claims, ledger, sticky>>
  BY DEF ClearTarget, MakeFolder, RemoveSource
<1> QED BY <1>1, <1>2, SameBooksKept, SameClaims, WritingNothing

\* An item is finished.
LEMMA FinishedStep ==
  ASSUME IndInv, NEW j \in Jobs, pc[j] \notin {"idle", "over"}, NEW done, Finished(j, done),
         UNCHANGED sticky
  PROVE  WritesNothing(j) /\ KeepsBooks(j)
<1>1. IsWalk(walk[j]) /\ walk[j] # <<>>
  BY DEF IndInv, JobInv, Walking
<1> QED BY <1>1, Settling, Noting DEF Finished

\* Engine::finish_move hears that the source is gone.
LEMMA SourceRemovedStep == ASSUME IndInv, NEW j \in Jobs, SourceRemoved(j) PROVE IndInv'
<1>1. WritesNothing(j) /\ KeepsBooks(j)
  BY FinishedStep DEF SourceRemoved
<1> QED BY <1>1, SameClaims, WritingNothing DEF SourceRemoved

-----------------------------------------------------------------------------
(* Where an item lands.                                                    *)

\* Engine::decide: every answer is a decision, and renames to a path.
LEMMA DecisionsArePaths ==
  ASSUME IndInv, NEW j \in Jobs, walk[j] # <<>>,
         NEW answer \in {"overwrite", "skip", "rename", "type"},
         NEW decision \in Decisions(j, answer)
  PROVE  IsDecision(decision)
<1>1. IsWalk(walk[j])
  BY DEF IndInv, JobInv, Walking
<1>2. IsSequence(Top(j).into)
  BY <1>1, StackOperations DEF Top, IsFrame
<1>3. /\ IsSequence(Base(j))
      /\ \A n : LET path == Append(Top(j).into, Proper(n)) IN IsSequence(path) /\ path # <<>>
  BY <1>2, AppendIsSequence DEF Base
<1>4. IsSequence(FirstFree(there, Base(j))) /\ FirstFree(there, Base(j)) # <<>>
  BY <1>3, FirstFreeIsPath
<1>5. IsDecision(Overwrite) /\ IsDecision(Skip)
  BY EmptyIsSequence DEF IsDecision, Overwrite, Skip
<1>6. \A path : IsSequence(path) /\ path # <<>> => IsDecision(RenameTo(path))
  BY DEF IsDecision, RenameTo
<1>7. CASE answer = "overwrite"
  BY <1>5, <1>7 DEF Decisions
<1>8. CASE answer = "skip"
  BY <1>5, <1>8 DEF Decisions
<1>9. CASE answer = "rename"
  BY <1>4, <1>6, <1>9 DEF Decisions
<1>10. CASE answer = "type"
  <2>1. PICK n \in Typed : decision = RenameTo(Append(Top(j).into, Proper(n)))
    BY <1>10 DEF Decisions
  <2> QED BY <2>1, <1>3, <1>6
<1> QED BY <1>7, <1>8, <1>9, <1>10

\* An answer is followed, and remembered for later attempts.
LEMMA Deciding ==
  ASSUME IndInv, NEW j \in Jobs, pc[j] \in {"place", "ask"}, NEW decision,
         IsDecision(decision), Decide(j, decision)
  PROVE  WritesNothing(j) /\ (UNCHANGED sticky => KeepsBooks(j))
<1> DEFINE book == [ledger[j] EXCEPT !.decided = With(@, Item(j), decision)]
<1>1. DOMAIN ledger[j] = DOMAIN NewLedger /\ DecisionsAreKept(j)
  BY DEF IndInv, JobInv, Records, NewLedger
<1>2. DOMAIN book = DOMAIN NewLedger /\ book.decided = With(ledger[j].decided, Item(j), decision)
  BY <1>1 DEF NewLedger
<1>3. \A i \in DOMAIN book.decided : IsDecision(book.decided[i])
  BY <1>1, <1>2 DEF DecisionsAreKept, With
<1>4. Follow(j, decision, book)
  BY DEF Decide
<1> HIDE DEF book
<1> QED BY <1>2, <1>3, <1>4, Following, Remembering

\* Engine::place: nothing is in the way.
LEMMA PlaceFreeStep == ASSUME IndInv, NEW j \in Jobs, PlaceFree(j) PROVE IndInv'
<1>1. WritesNothing(j)
  BY Placing DEF PlaceFree, Looks
<1> DEFINE entry == [ledger[j] EXCEPT !.written = With(@, Target(j), Item(j))]
<1>2. DOMAIN ledger[j] = DOMAIN NewLedger
  BY DEF IndInv, JobInv, Records, NewLedger
<1>3. DOMAIN entry = DOMAIN NewLedger /\ entry.decided = ledger[j].decided
  BY <1>2 DEF NewLedger
<1>4. ledger' = [ledger EXCEPT ![j] = entry] /\ UNCHANGED <<sticky, claims>>
  BY DEF PlaceFree, PlaceAt, Looks
<1> HIDE DEF entry
<1> QED BY <1>1, <1>3, <1>4, SameBooks, SameClaims, WritingNothing

\* Engine::place: the job's own other item is in the way.
LEMMA PlaceBesideStep == ASSUME IndInv, NEW j \in Jobs, PlaceBeside(j) PROVE IndInv'
<1>1. Tables /\ JobInv(j) /\ IsWalk(walk[j]) /\ walk[j] # <<>> /\ pc[j] = "place"
  BY DEF IndInv, JobInv, Walking, PlaceBeside, Looks
<1>2. IsSequence(Top(j).into)
  BY <1>1, StackOperations DEF Top, IsFrame
<1>3. IsSequence(FirstFree(there, Base(j)))
  BY <1>2, AppendIsSequence, FirstFreeIsPath DEF Base
<1>4. /\ work' = [work EXCEPT ![j].target = FirstFree(there, Base(j))]
      /\ UNCHANGED <<pc, walk, ledger, sticky, claims>>
  BY DEF PlaceBeside, Looks
<1>5. Walking(j)'
  BY <1>1, <1>4 DEF JobInv, Walking
<1>6. WritesNothing(j)
  BY <1>1, <1>3, <1>4, <1>5 DEF WritesNothing, Tables, JobInv, Records, NoWork,
                              DecisionsAreKept, HasTemporary, Renaming
<1> QED BY <1>4, <1>6, SameBooksKept, SameClaims, WritingNothing

\* Engine::place: an earlier attempt finished the item.
LEMMA PlaceFinishedStep == ASSUME IndInv, NEW j \in Jobs, PlaceFinished(j) PROVE IndInv'
<1>1. pc[j] = "place" /\ UNCHANGED <<sticky, claims>>
  BY DEF PlaceFinished, Looks
<1>2. WritesNothing(j) /\ KeepsBooks(j)
  <2>1. CASE MovesHere(j)
    BY <1>1, <2>1, GoingOn, SameBooksKept DEF PlaceFinished, HasTemporary, Renaming
  <2>2. CASE ~MovesHere(j)
    BY <1>1, <2>2, FinishedStep DEF PlaceFinished
  <2> QED BY <2>1, <2>2
<1> QED BY <1>1, <1>2, SameClaims, WritingNothing

\* Engine::place: the answer of an earlier attempt.
LEMMA PlaceAgainStep == ASSUME IndInv, NEW j \in Jobs, PlaceAgain(j) PROVE IndInv'
<1>1. /\ pc[j] = "place" /\ UNCHANGED <<sticky, claims>>
      /\ work[j].earlier # Undecided /\ Follow(j, work[j].earlier, ledger[j])
  BY DEF PlaceAgain, Looks
<1>2. IsDecision(work[j].earlier) /\ DOMAIN ledger[j] = DOMAIN NewLedger
      /\ \A i \in DOMAIN ledger[j].decided : IsDecision(ledger[j].decided[i])
  BY <1>1 DEF IndInv, JobInv, DecisionsAreKept, Records, NewLedger
<1> QED BY <1>1, <1>2, Following, Remembering, SameClaims, WritingNothing

\* Engine::decide: an answer for all.
LEMMA PlaceStandingStep == ASSUME IndInv, NEW j \in Jobs, PlaceStanding(j) PROVE IndInv'
<1>1. pc[j] = "place" /\ UNCHANGED <<sticky, claims>> /\ Standing(j) # None
  BY DEF PlaceStanding, Looks
<1>2. PICK decision \in Decisions(j, Standing(j)) : Decide(j, decision)
  BY DEF PlaceStanding
<1>3. walk[j] # <<>> /\ Standing(j) \in {"overwrite", "skip", "rename", "type"}
  BY <1>1 DEF IndInv, JobInv, Walking, Records, Standing
<1> QED BY <1>1, <1>2, <1>3, DecisionsArePaths, Deciding, SameClaims, WritingNothing

\* Engine::decide asks.
LEMMA PlaceAskStep == ASSUME IndInv, NEW j \in Jobs, PlaceAsk(j) PROVE IndInv'
<1>1. WritesNothing(j)
  BY GoingOn DEF PlaceAsk, Looks, HasTemporary, Renaming
<1> QED BY <1>1, SameBooksKept, SameClaims, WritingNothing DEF PlaceAsk, Looks

\* Engine::decide hears.
LEMMA AnswerStep ==
  ASSUME IndInv, NEW j \in Jobs, NEW answer \in Answers, NEW all, Answer(j, answer, all)
  PROVE  IndInv'
<1>1. pc[j] = "ask" /\ UNCHANGED claims
  BY DEF Answer
<1>2. PICK decision \in Decisions(j, answer) : Decide(j, decision)
  BY DEF Answer
<1>3. walk[j] # <<>> /\ answer \in {"overwrite", "skip", "rename", "type"}
  BY <1>1, EngineAssumption DEF IndInv, JobInv, Walking
<1>4. IsDecision(decision)
  BY <1>2, <1>3, DecisionsArePaths
<1>5. WritesNothing(j)
  BY <1>1, <1>2, <1>4, Deciding
<1>6. KeepsBooks(j)
  <2> DEFINE book == [ledger[j] EXCEPT !.decided = With(@, Item(j), decision)]
  <2>1. Tables /\ Records(j) /\ DecisionsAreKept(j) /\ DOMAIN ledger[j] = DOMAIN NewLedger
    BY DEF IndInv, JobInv, Records, NewLedger
  <2>2. DOMAIN book = DOMAIN NewLedger
        /\ book.decided = With(ledger[j].decided, Item(j), decision)
    BY <2>1 DEF NewLedger
  <2>3. \A i \in DOMAIN book.decided : IsDecision(book.decided[i])
    BY <1>4, <2>1, <2>2 DEF DecisionsAreKept, With
  <2>4. Follow(j, decision, book)
    BY <1>2 DEF Decide
  <2> HIDE DEF book
  <2>5. ledger' = [ledger EXCEPT ![j] = book]
        \/ \E written : ledger' = [ledger EXCEPT ![j] = [book EXCEPT !.written = written]]
    BY <1>4, <2>4 DEF Follow, PlaceAt, IsDecision
  <2>6. \/ sticky' = sticky
        \/ \E said \in {"overwrite", "skip", "rename"} :
             sticky' = [sticky EXCEPT ![j].clash = said]
    BY <1>3 DEF Answer
  <2>7. /\ DOMAIN sticky' = Jobs /\ DOMAIN sticky'[j] = {"clash", "partial"}
        /\ sticky'[j].clash \in {None, "overwrite", "skip", "rename"}
        /\ \A k \in Jobs \ {j} : sticky'[k] = sticky[k]
    BY <2>1, <2>6 DEF Tables, Records
  <2> QED BY <2>1, <2>2, <2>3, <2>5, <2>7 DEF KeepsBooks, Tables, NewLedger
<1> QED BY <1>1, <1>5, <1>6, SameClaims, WritingNothing

-----------------------------------------------------------------------------
(* Staging: the name that is chosen to write to is the job's own.          *)

KeepsWork(j) ==
  /\ DOMAIN work' = Jobs /\ \A k \in Jobs \ {j} : work'[k] = work[k]
  /\ DOMAIN work'[j] = DOMAIN work[j]
  /\ \A field \in {"target", "earlier", "temporary"} : work'[j][field] = work[j][field]

\* Steps of a job between choosing what to write to and renaming it.
LEMMA Writing ==
  ASSUME IndInv, NEW j \in Jobs, pc[j] \in HasTemporary,
         NEW step \in HasTemporary, Goto(j, step) \/ (UNCHANGED pc /\ step = pc[j]),
         UNCHANGED <<claims, walk>>, KeepsWork(j),
         KeepsBooks(j), ledger'[j].attempts = ledger[j].attempts
  PROVE  IndInv'
<1>1. Tables /\ JobInv(j)
  BY DEF IndInv
<1>2. DOMAIN pc' = Jobs /\ pc'[j] = step /\ \A k \in Jobs \ {j} : pc'[k] = pc[k]
  BY <1>1 DEF Tables, Goto
<1>3. work'[j].target = work[j].target /\ work'[j].earlier = work[j].earlier
      /\ work'[j].temporary = work[j].temporary
  BY DEF KeepsWork
<1>4. KeepsClaims(j)
  BY SameClaims
<1>5. OnlyTouches(j)
  BY <1>1, <1>2, <1>4 DEF OnlyTouches, Tables, KeepsBooks, KeepsClaims, KeepsWork
<1>6. Records(j)' /\ TargetIsPath(j)' /\ DecisionsAreKept(j)'
  BY <1>1, <1>3
  DEF JobInv, Records, KeepsWork, KeepsBooks, NewLedger, TargetIsPath, Target, DecisionsAreKept
<1>7. Walking(j)'
  BY <1>1, <1>2 DEF JobInv, Walking, HasTemporary, Renaming
<1>8. IsPartial(j) => IsPartial(j)'
  BY <1>3 DEF IsPartial, IsClaimed, Temporary
<1>9. OwnsTemporary(j)'
  BY <1>1, <1>2, <1>3, <1>8 DEF JobInv, OwnsTemporary, Temporary
<1> QED BY <1>4, <1>5, <1>6, <1>7, <1>9, OthersStay DEF JobInv, KeepsClaims

\* A name is chosen: it is claimed, or hidden and the job's own.
LEMMA Choosing ==
  ASSUME IndInv, NEW j \in Jobs, pc[j] = "stage", NEW step \in HasTemporary, Goto(j, step),
         UNCHANGED <<walk, ledger, sticky>>, NEW temporary,
         work' = [work EXCEPT ![j].temporary = temporary], KeepsClaims(j),
         \/ temporary \in DOMAIN claims' /\ claims'[temporary] = j
         \/ Last(temporary) = Hidden("temp", <<j, ledger[j].attempts>>)
  PROVE  IndInv'
<1>1. Tables /\ JobInv(j)
  BY DEF IndInv
<1>2. DOMAIN pc' = Jobs /\ pc'[j] = step /\ \A k \in Jobs \ {j} : pc'[k] = pc[k]
  BY <1>1 DEF Tables, Goto
<1>3. DOMAIN work' = Jobs /\ \A k \in Jobs \ {j} : work'[k] = work[k]
  BY <1>1 DEF Tables
<1>4. /\ DOMAIN work'[j] = DOMAIN work[j] /\ work'[j].temporary = temporary
      /\ work'[j].target = work[j].target /\ work'[j].earlier = work[j].earlier
  BY <1>1 DEF Tables, JobInv, Records
<1>5. OnlyTouches(j)
  BY <1>1, <1>2, <1>3 DEF OnlyTouches, Tables, KeepsClaims
<1>6. Records(j)' /\ TargetIsPath(j)' /\ DecisionsAreKept(j)'
  BY <1>1, <1>4 DEF JobInv, Records, TargetIsPath, Target, DecisionsAreKept
<1>7. Walking(j)'
  BY <1>1 DEF JobInv, Walking
<1>8. OwnsTemporary(j)'
  BY <1>4 DEF OwnsTemporary, Temporary, IsPartial, IsClaimed
<1> QED BY <1>5, <1>6, <1>7, <1>8, OthersStay DEF JobInv, KeepsClaims

\* Engine::staging: a hidden name has the job's number in it.
LEMMA StageHiddenStep == ASSUME IndInv, NEW j \in Jobs, StageHidden(j) PROVE IndInv'
<1>1. IsSequence(Target(j))
  BY DEF IndInv, JobInv, TargetIsPath
<1>2. Last(HiddenTemporary(j)) = Hidden("temp", <<j, ledger[j].attempts>>)
  BY <1>1, BesideIsPath DEF HiddenTemporary
<1> QED BY <1>2, SameClaims, Choosing DEF StageHidden, HasTemporary

\* Engine::staging: a .filepart is claimed, if nobody has.
LEMMA StagePartialStep == ASSUME IndInv, NEW j \in Jobs, StagePartial(j) PROVE IndInv'
<1> DEFINE partial == PartialOf(j)
<1>1. IsSequence(Target(j)) /\ ClaimsAreOnPartials
  BY DEF IndInv, JobInv, TargetIsPath
<1>2. Last(partial).kind = "filepart"
  BY <1>1, BesideIsPath DEF PartialOf, PartialBeside, Partial
<1>3. /\ claims' = With(claims, partial, j) /\ partial \notin DOMAIN claims
      /\ \E step \in HasTemporary : Goto(j, step)
      /\ pc[j] = "stage" /\ UNCHANGED <<walk, ledger, sticky>>
      /\ work' = [work EXCEPT ![j].temporary = partial]
  BY DEF StagePartial, HasTemporary, IsClaimed
<1> HIDE DEF partial
<1>4. KeepsClaims(j) /\ partial \in DOMAIN claims' /\ claims'[partial] = j
  BY <1>1, <1>2, <1>3 DEF KeepsClaims, ClaimsAreOnPartials, With
<1> QED BY <1>3, <1>4, Choosing

\* Engine::ask_resume: a skipped file's claim is given up, any other kept.
LEMMA HandlingPartial ==
  ASSUME IndInv, NEW j \in Jobs, NEW answer, HandlePartial(j, answer), KeepsBooks(j),
         ledger' = ledger
  PROVE  IndInv'
<1>1. Tables /\ IsWalk(walk[j]) /\ walk[j] # <<>> /\ pc[j] = "askpartial"
  BY DEF IndInv, JobInv, Walking, HandlePartial
<1>2. CASE answer = "skip"
  <2>1. WritesNothing(j) /\ KeepsClaims(j)
    BY <1>1, <1>2, Settling, GivingUpClaims DEF HandlePartial
  <2> QED BY <2>1, WritingNothing
<1>3. CASE answer # "skip"
  <2>1. /\ Goto(j, IF answer = "resume" THEN "resume" ELSE "discard")
        /\ UNCHANGED <<claims, walk, work>>
    BY <1>3 DEF HandlePartial
  <2>2. KeepsWork(j)
    BY <1>1, <2>1 DEF KeepsWork, Tables
  <2> QED BY <1>1, <2>1, <2>2, Writing DEF HasTemporary
<1> QED BY <1>2, <1>3

\* Engine::ask_resume hears.
LEMMA AnswerPartialStep ==
  ASSUME IndInv, NEW j \in Jobs, NEW answer, NEW all, AnswerPartial(j, answer, all)
  PROVE  IndInv'
<1>1. Tables /\ Records(j) /\ DecisionsAreKept(j)
  BY DEF IndInv, JobInv
<1>2. HandlePartial(j, answer) /\ ledger' = ledger
      /\ (sticky' = sticky \/ sticky' = [sticky EXCEPT ![j].partial = answer])
  BY DEF AnswerPartial, HandlePartial
<1>3. KeepsBooks(j)
  BY <1>1, <1>2 DEF KeepsBooks, Tables, Records, NewLedger, DecisionsAreKept
<1> QED BY <1>2, <1>3, HandlingPartial

\* Engine::ask_resume has an answer for all.
LEMMA StandingPartialStep == ASSUME IndInv, NEW j \in Jobs, StandingPartial(j) PROVE IndInv'
<1>1. HandlePartial(j, sticky[j].partial) /\ UNCHANGED <<ledger, sticky>>
  BY DEF StandingPartial, HandlePartial
<1> QED BY <1>1, SameBooksKept, HandlingPartial

-----------------------------------------------------------------------------
(* Copying, and giving the file its name.                                  *)

\* Engine::staging starts over.
LEMMA DiscardPartialStep == ASSUME IndInv, NEW j \in Jobs, DiscardPartial(j) PROVE IndInv'
<1>1. KeepsWork(j)
  BY DEF IndInv, Tables, DiscardPartial, KeepsWork
<1> QED BY <1>1, SameBooksKept, Writing DEF DiscardPartial, HasTemporary

\* Engine::stream opens what it writes to.
LEMMA OpenStep == ASSUME IndInv, NEW j \in Jobs, Create(j) \/ Resume(j) PROVE IndInv'
<1>1. Tables /\ Records(j)
  BY DEF IndInv, JobInv
<1>2. /\ pc[j] \in {"create", "resume"} /\ Goto(j, "stream")
      /\ UNCHANGED <<claims, walk, sticky>> /\ Note(j, "partials", OwnPartials(j))
      /\ \E offset : work' = [work EXCEPT ![j].offset = offset]
  BY DEF Create, Resume
<1>3. KeepsWork(j)
  BY <1>1, <1>2 DEF KeepsWork, Tables, Records
<1>4. ledger'[j].attempts = ledger[j].attempts
  BY <1>1, <1>2 DEF Note, Tables, Records
<1> QED BY <1>2, <1>3, <1>4, Noting, Writing DEF HasTemporary

\* Engine::stream writes, and closes.
LEMMA WriteStep == ASSUME IndInv, NEW j \in Jobs, Write(j) \/ Close(j) PROVE IndInv'
<1>1. Tables /\ Records(j)
  BY DEF IndInv, JobInv
<1>2. /\ pc[j] = "stream" /\ UNCHANGED <<claims, walk, ledger, sticky>>
      /\ UNCHANGED pc \/ Goto(j, "look")
      /\ work' = work \/ \E offset : work' = [work EXCEPT ![j].offset = offset]
  BY DEF Write, Close
<1>3. KeepsWork(j)
  BY <1>1, <1>2 DEF KeepsWork, Tables, Records
<1> QED BY <1>2, <1>3, SameBooksKept, Writing DEF HasTemporary, Renaming

\* SftpFs::rename looks, or moves aside what is there.
LEMMA LookStep == ASSUME IndInv, NEW j \in Jobs, Look(j) \/ SetAside(j) PROVE IndInv'
<1>1. Tables /\ Records(j)
  BY DEF IndInv, JobInv
<1>2. /\ pc[j] \in Renaming /\ UNCHANGED <<claims, walk, ledger, sticky>>
      /\ Goto(j, "rename") \/ Goto(j, "movein")
      /\ \/ \E clash : work' = [work EXCEPT ![j].clash = clash]
         \/ \E aside : work' = [work EXCEPT ![j].aside = aside]
  BY DEF Look, SetAside, Renaming
<1>3. KeepsWork(j)
  BY <1>1, <1>2 DEF KeepsWork, Tables, Records
<1> QED BY <1>2, <1>3, SameBooksKept, Writing DEF HasTemporary, Renaming

\* The file has its name: the job writes to nothing from here on.
LEMMA RenameStep == ASSUME IndInv, NEW j \in Jobs, Rename(j) \/ MoveIn(j) PROVE IndInv'
<1>1. WritesNothing(j)
  BY GoingOn DEF Rename, MoveIn, HasTemporary, Renaming
<1>2. UNCHANGED <<claims, ledger, sticky>>
  BY DEF Rename, MoveIn
<1> QED BY <1>1, <1>2, SameBooksKept, SameClaims, WritingNothing

\* Engine::copy_file ends, and its claim with it.
LEMMA CopiedStep ==
  ASSUME IndInv, NEW j \in Jobs, CleanUp(j) \/ RenameAnswered(j)
  PROVE  IndInv'
<1>1. pc[j] \notin {"idle", "over"} /\ Copied(j) /\ UNCHANGED sticky
  BY DEF CleanUp, RenameAnswered
<1>2. IsWalk(walk[j]) /\ walk[j] # <<>>
  BY <1>1 DEF IndInv, JobInv, Walking
<1>3. WritesNothing(j)
  BY <1>1, <1>2, Settling, GoingOn DEF Copied, HasTemporary, Renaming
<1>4. KeepsBooks(j) /\ KeepsClaims(j)
  BY <1>1, Noting, GivingUpClaims DEF Copied
<1> QED BY <1>3, <1>4, WritingNothing

-----------------------------------------------------------------------------
(* However an attempt ends, its claim is given up.                         *)

\* A refusal, a lost connection, cancelling: the attempt ends.
LEMMA EndStep ==
  ASSUME IndInv, NEW j \in Jobs, Fail(j) \/ Drop(j) \/ Cancel(j) \/ Abandon(j)
  PROVE  IndInv'
<1>1. \E outcome \in {"idle", "over"} : EndsWith(j, outcome)
  BY DEF Fail, Drop, Cancel, Abandon
<1>2. UNCHANGED sticky /\ (UNCHANGED ledger \/ \E left : Note(j, "leftovers", left))
  BY DEF Fail, Drop, Cancel, Abandon
<1>3. KeepsBooks(j)
  BY <1>2, Noting, SameBooksKept
<1> QED BY <1>1, <1>3, Ending, WritingNothing

-----------------------------------------------------------------------------
\* No job has begun.
LEMMA Initially == Init => IndInv
<1> SUFFICES ASSUME Init PROVE IndInv
  OBVIOUS
<1>1. IsWalk(<<>>)
  BY EmptyIsSequence DEF IsWalk
<1>2. Tables /\ ClaimsAreOnPartials
  BY DEF Init, Tables, ClaimsAreOnPartials, EmptyMap
<1>3. ASSUME NEW j \in Jobs PROVE JobInv(j)
  BY <1>1, NoWorkIsSound
  DEF Init, JobInv, Records, Walking, TargetIsPath, Target, DecisionsAreKept, OwnsTemporary,
      HasTemporary, Renaming, NoWork, NewLedger, EmptyMap, None
<1> QED BY <1>2, <1>3 DEF IndInv

\* Nothing changes.
LEMMA StutteringStep == IndInv /\ UNCHANGED vars => IndInv'
BY DEF IndInv, Tables, ClaimsAreOnPartials, JobInv, Records, Walking, TargetIsPath, Target,
       DecisionsAreKept, OwnsTemporary, IsPartial, IsClaimed, Temporary, vars, jobVars

\* A step of a job; who may cancel does not matter here.
StepOf(j) == \/ Walk(j) \/ Place(j) \/ Stage(j) \/ Copy(j) \/ UserAnswers(j)
             \/ Fail(j) \/ Drop(j) \/ Cancel(j) \/ Abandon(j)

\* Every step keeps the invariant, ...
LEMMA JobStep == ASSUME IndInv, NEW j \in Jobs, StepOf(j) PROVE IndInv'
<1>1. CASE Walk(j)
  BY <1>1, BeginStep, CannotBeginStep, ChooseStep, EnterFolderStep, LeaveFolderStep, FinishStep,
     FolderStep, SourceRemovedStep DEF Walk
<1>2. CASE Place(j)
  BY <1>2, PlaceFreeStep, PlaceBesideStep, PlaceFinishedStep, PlaceAgainStep, PlaceStandingStep,
     PlaceAskStep DEF Place
<1>3. CASE Stage(j)
  BY <1>3, StageHiddenStep, StagePartialStep, StandingPartialStep, DiscardPartialStep DEF Stage
<1>4. CASE Copy(j)
  BY <1>4, OpenStep, WriteStep, LookStep, RenameStep, CopiedStep DEF Copy
<1>5. CASE UserAnswers(j)
  BY <1>5, AnswerStep, AnswerPartialStep DEF UserAnswers
<1>6. CASE Fail(j) \/ Drop(j) \/ Cancel(j) \/ Abandon(j)
  BY <1>6, EndStep
<1> QED BY <1>1, <1>2, <1>3, <1>4, <1>5, <1>6 DEF StepOf

\* ... whichever job takes it.
LEMMA NextStep == IndInv /\ [Next]_vars => IndInv'
BY JobStep, StutteringStep DEF Next, StepOf

\* What is known of each job always holds (engine.rs, Engine::attempt_once and below).
THEOREM Inductive == Spec => []IndInv
<1> QED BY Initially, NextStep, PTL DEF Spec

\* Owners of one name are one job: a claim has one holder, a hidden name one number,
\* and a .filepart is not hidden.
LEMMA OwnersDiffer == IndInv => OneWriter
<1> SUFFICES ASSUME IndInv, NEW j \in Jobs, NEW k \in Jobs, j # k,
                    pc[j] \in Staging, pc[k] \in Staging, Temporary(j) = Temporary(k)
             PROVE  FALSE
  BY DEF OneWriter
<1>1. OwnsTemporary(j) /\ OwnsTemporary(k) /\ ClaimsAreOnPartials
  BY DEF IndInv, JobInv
<1>2. pc[j] \in HasTemporary /\ pc[k] \in HasTemporary
  BY DEF Staging, HasTemporary
<1>3. CASE IsPartial(j) /\ IsPartial(k)
  BY <1>3 DEF IsPartial
<1>4. CASE IsPartial(j) \/ IsPartial(k)
  <2>1. Last(Temporary(j)).kind = "filepart"
    BY <1>1, <1>4 DEF IsPartial, IsClaimed, ClaimsAreOnPartials
  <2>2. Hidden("temp", <<j, ledger[j].attempts>>).kind = "temp"
        /\ Hidden("temp", <<k, ledger[k].attempts>>).kind = "temp"
    BY DEF Hidden
  <2> QED BY <1>1, <1>2, <1>3, <2>1, <2>2 DEF OwnsTemporary
<1>5. CASE ~IsPartial(j) /\ ~IsPartial(k)
  <2>1. Hidden("temp", <<j, ledger[j].attempts>>) = Hidden("temp", <<k, ledger[k].attempts>>)
    BY <1>1, <1>2, <1>5 DEF OwnsTemporary
  <2>2. <<j, ledger[j].attempts>> = <<k, ledger[k].attempts>>
    BY <2>1 DEF Hidden
  <2> QED BY <2>2
<1> QED BY <1>3, <1>4, <1>5

\* Two jobs never write to one file at a time (PARTIALS_IN_USE, temporary_beside):
\* for any jobs, sources, answers and lost connections.
THEOREM OneWriterAtATime == Spec => []OneWriter
<1> QED BY Inductive, OwnersDiffer, PTL

-----------------------------------------------------------------------------
(* Paths, and what is below them.                                          *)

\* A prefix, element by element.
LEMMA PrefixByElement ==
  ASSUME NEW s, NEW p, IsSequence(s), IsSequence(p)
  PROVE  /\ Len(s) \in Nat /\ Len(p) \in Nat
         /\ IsPrefix(s, p) <=> Len(s) <= Len(p) /\ \A n \in 1 .. Len(s) : s[n] = p[n]
<1> DEFINE S == Range(s) \cup Range(p)
<1>1. s \in Seq(S) /\ p \in Seq(S)
  BY SeqMonotonic DEF IsSequence
<1>2. Len(s) \in Nat /\ Len(p) \in Nat /\ s \in [1 .. Len(s) -> S] /\ p \in [1 .. Len(p) -> S]
  BY <1>1, LenProperties
<1> HIDE DEF S
<1>3. SubSeq(s, 1, Len(s)) = s
  BY <1>1, SubSeqFull
<1>4. ASSUME Len(s) <= Len(p)
      PROVE  /\ SubSeq(p, 1, Len(s)) \in Seq(S) /\ Len(SubSeq(p, 1, Len(s))) = Len(s)
             /\ \A n \in 1 .. Len(s) : SubSeq(p, 1, Len(s))[n] = p[n]
  <2>1. \A n \in 1 .. Len(s) : p[n] \in S
    BY <1>2, <1>4
  <2>2. /\ SubSeq(p, 1, Len(s)) \in Seq(S)
        /\ Len(SubSeq(p, 1, Len(s))) = IF 1 <= Len(s) THEN Len(s) - 1 + 1 ELSE 0
        /\ \A n \in 1 .. Len(s) - 1 + 1 : SubSeq(p, 1, Len(s))[n] = p[1 + n - 1]
    BY <1>2, <2>1, SubSeqProperties
  <2> QED BY <1>2, <2>2
<1>5. IsPrefix(s, p) => Len(s) <= Len(p) /\ \A n \in 1 .. Len(s) : s[n] = p[n]
  BY <1>3, <1>4 DEF IsPrefix
<1>6. ASSUME Len(s) <= Len(p), \A n \in 1 .. Len(s) : s[n] = p[n] PROVE IsPrefix(s, p)
  <2>1. SubSeq(p, 1, Len(s)) = s
    BY <1>1, <1>4, <1>6, SeqEqual
  <2> QED BY <1>3, <1>6, <2>1 DEF IsPrefix
<1> QED BY <1>2, <1>5, <1>6

\* The folder n steps down a path.
Ancestor(p, n) == SubSeq(p, 1, n)

\* The folders on a path.
LEMMA Ancestors ==
  ASSUME NEW p, IsSequence(p), NEW n \in 1 .. Len(p)
  PROVE  /\ IsSequence(Ancestor(p, n)) /\ Len(Ancestor(p, n)) = n /\ Len(p) \in Nat
         /\ \A m \in 1 .. n : Ancestor(p, n)[m] = p[m]
<1>1. p \in Seq(Range(p)) /\ Len(p) \in Nat /\ p \in [1 .. Len(p) -> Range(p)]
  BY LenProperties DEF IsSequence
<1>2. \A m \in 1 .. n : p[m] \in Range(p)
  BY <1>1
<1>3. /\ SubSeq(p, 1, n) \in Seq(Range(p))
      /\ Len(SubSeq(p, 1, n)) = IF 1 <= n THEN n - 1 + 1 ELSE 0
      /\ \A m \in 1 .. n - 1 + 1 : SubSeq(p, 1, n)[m] = p[1 + m - 1]
  BY <1>1, <1>2, SubSeqProperties
<1>4. IsSequence(SubSeq(p, 1, n))
  BY <1>3, Sequences
<1> QED BY <1>1, <1>3, <1>4 DEF Ancestor

\* What is below a folder on a path's way has the path below it; a prefix of a path
\* is the path or one of its folders.
LEMMA PrefixesAreAncestors ==
  ASSUME NEW s, NEW p, IsSequence(s), IsSequence(p), s # <<>>
  PROVE  /\ \A n \in 1 .. Len(p) : IsPrefix(s, Ancestor(p, n)) => IsPrefix(s, p)
         /\ IsPrefix(s, p) => /\ Len(s) \in 1 .. Len(p) /\ s = Ancestor(p, Len(s))
                              /\ Last(s) = p[Len(s)]
                              /\ Len(s) # Len(p) => Len(s) \in 1 .. Len(p) - 1
                              /\ Len(s) = Len(p) => s = p
<1>1. Len(s) \in Nat /\ Len(p) \in Nat
      /\ (IsPrefix(s, p) <=> Len(s) <= Len(p) /\ \A n \in 1 .. Len(s) : s[n] = p[n])
  BY PrefixByElement
<1>2. Len(s) \in 1 .. Len(s)
  BY <1>1, EmptySeq DEF IsSequence
<1>3. ASSUME NEW n \in 1 .. Len(p), IsPrefix(s, Ancestor(p, n)) PROVE IsPrefix(s, p)
  <2>1. /\ IsSequence(Ancestor(p, n)) /\ Len(Ancestor(p, n)) = n
        /\ \A m \in 1 .. n : Ancestor(p, n)[m] = p[m]
    BY Ancestors
  <2>2. Len(s) <= n /\ \A m \in 1 .. Len(s) : s[m] = Ancestor(p, n)[m]
    BY <1>3, <2>1, PrefixByElement
  <2> QED BY <1>1, <2>1, <2>2
<1>4. ASSUME NEW t, IsSequence(t), Len(s) = Len(t), \A n \in 1 .. Len(s) : s[n] = t[n]
      PROVE  s = t
  <2>1. s \in Seq(Range(s) \cup Range(t)) /\ t \in Seq(Range(s) \cup Range(t))
    BY <1>4, SeqMonotonic DEF IsSequence
  <2> QED BY <1>4, <2>1, SeqEqual
<1>5. ASSUME IsPrefix(s, p)
      PROVE  /\ Len(s) \in 1 .. Len(p) /\ s = Ancestor(p, Len(s)) /\ Last(s) = p[Len(s)]
             /\ Len(s) # Len(p) => Len(s) \in 1 .. Len(p) - 1
             /\ Len(s) = Len(p) => s = p
  <2>1. Len(s) \in 1 .. Len(p) /\ Last(s) = p[Len(s)]
        /\ (Len(s) # Len(p) => Len(s) \in 1 .. Len(p) - 1)
    BY <1>1, <1>2, <1>5 DEF Last
  <2>2. s = Ancestor(p, Len(s))
    BY <1>1, <1>4, <1>5, <2>1, Ancestors
  <2>3. Len(s) = Len(p) => s = p
    BY <1>1, <1>4, <1>5
  <2> QED BY <2>1, <2>2, <2>3
<1> QED BY <1>3, <1>5

\* What is put below a path is below it.
LEMMA BelowIsPrefixed ==
  ASSUME NEW to, NEW rest, IsSequence(to), IsSequence(rest)
  PROVE  IsPrefix(to, to \o rest) /\ IsSequence(to \o rest)
<1> DEFINE S == Range(to) \cup Range(rest)
<1>1. to \in Seq(S) /\ rest \in Seq(S)
  BY SeqMonotonic DEF IsSequence
<1> HIDE DEF S
<1>2. /\ to \o rest \in Seq(S) /\ Len(to \o rest) = Len(to) + Len(rest)
      /\ Len(to) \in Nat /\ Len(rest) \in Nat
      /\ \A i \in 1 .. Len(to) + Len(rest) :
           (to \o rest)[i] = IF i <= Len(to) THEN to[i] ELSE rest[i - Len(to)]
  BY <1>1, ConcatProperties, LenProperties
<1>3. IsSequence(to \o rest)
  BY <1>2, Sequences
<1>4. Len(to) <= Len(to \o rest) /\ \A n \in 1 .. Len(to) : to[n] = (to \o rest)[n]
  BY <1>2
<1> QED BY <1>3, <1>4, PrefixByElement

\* What is left of a path below another.
LEMMA RestIsSequence ==
  ASSUME NEW p, NEW q, IsSequence(p), IsSequence(q)
  PROVE  IsSequence(SubSeq(p, Len(q) + 1, Len(p)))
<1>1. Len(q) \in Nat /\ Len(p) \in Nat /\ p \in [1 .. Len(p) -> Range(p)]
  BY LenProperties DEF IsSequence
<1>2. \A i \in Len(q) + 1 .. Len(p) : p[i] \in Range(p)
  BY <1>1
<1>3. SubSeq(p, Len(q) + 1, Len(p)) \in Seq(Range(p))
  BY <1>1, <1>2, SubSeqProperties
<1> QED BY <1>3, Sequences

-----------------------------------------------------------------------------
(* What the user was never asked about stays where it was.                 *)

\* A user agreed to have p replaced, or what it is in.
Covered(p) == \E r \in ToReplace : IsPrefix(r, p)
InPlace(p) ==
  /\ p \in DOMAIN there /\ there[p].data = seen.before[p].data
  /\ \A n \in 1 .. Len(p) - 1 : IsFolder(there, Ancestor(p, n))
OldStays == \A p \in OldFiles : Covered(p) \/ InPlace(p)

\* Whatever is done at x or below concerns nothing that was there before, but
\* for what the user agreed to.
ClearOf(x) == /\ IsSequence(x) /\ x # <<>>
              /\ \A p \in OldFiles : IsPrefix(x, p) => Covered(p)

PathsAreSequences == \A p \in DOMAIN there : IsSequence(p)
History == DOMAIN seen = DOMAIN NothingSeen /\ seen.before \in Befores

\* What is seen is not unseen.
Remembers == /\ DOMAIN seen' = DOMAIN seen /\ seen'.before = seen.before
             /\ seen.replaceable \subseteq seen'.replaceable
             /\ seen.reused \subseteq seen'.reused

\* Nothing changes but at the paths of X, and below them.
OnlyAt(X) == /\ PathsAreSequences'
             /\ \A q \in DOMAIN there : (\A x \in X : x # q /\ ~IsPrefix(x, q))
                  => q \in DOMAIN there' /\ there'[q] = there[q]

\* What was there before has a path of its own.
LEMMA OldPaths ==
  ASSUME History, NEW p \in OldFiles
  PROVE  /\ IsSequence(p) /\ p # <<>> /\ p \in DOMAIN seen.before
         /\ Len(p) \in Nat /\ Len(p) \in 1 .. Len(p) /\ Last(p).kind = "proper"
         /\ \A n \in 1 .. Len(p) - 1 : IsFolder(seen.before, Ancestor(p, n))
         /\ \A n \in 1 .. Len(p) : p[n].kind \notin {"temp", "old"}
<1>1. /\ p \in DOMAIN seen.before /\ p \in Seq(Range(p)) /\ p # <<>> /\ Last(p).kind = "proper"
      /\ \A n \in 1 .. Len(p) - 1 : IsFolder(seen.before, Ancestor(p, n))
      /\ \A n \in 1 .. Len(p) : p[n].kind \notin {"temp", "old"}
  BY BeforeAssumption DEF History, OldFiles, IsProper, Ancestor
<1>2. Len(p) \in Nat /\ Len(p) # 0
  BY <1>1, LenProperties, EmptySeq
<1> QED BY <1>1, <1>2 DEF IsSequence

\* A step that changes nothing but at paths that are clear leaves the rest.
LEMMA ClearStep ==
  ASSUME History, OldStays, Remembers, NEW X, OnlyAt(X), \A x \in X : ClearOf(x)
  PROVE  OldStays'
<1> SUFFICES ASSUME NEW p \in OldFiles PROVE Covered(p)' \/ InPlace(p)'
  BY DEF OldStays, OldFiles, Remembers
<1>1. Covered(p) => Covered(p)'
  BY DEF Covered, ToReplace, Remembers
<1>2. ASSUME ~Covered(p) PROVE InPlace(p)'
  <2>1. InPlace(p)
    BY <1>2 DEF OldStays
  <2>2. IsSequence(p) /\ p # <<>> /\ Len(p) \in Nat /\ Len(p) \in 1 .. Len(p)
    BY OldPaths
  <2>3. ASSUME NEW x \in X PROVE IsSequence(x) /\ x # <<>> /\ ~IsPrefix(x, p)
    BY <1>2 DEF ClearOf
  <2>4. IsPrefix(p, p) /\ \A n \in 1 .. Len(p) - 1 : IsPrefix(Ancestor(p, n), p)
    <3>1. IsPrefix(p, p)
      <4>1. Len(p) <= Len(p) /\ \A n \in 1 .. Len(p) : p[n] = p[n]
        BY <2>2
      <4> QED BY <2>2, <4>1, PrefixByElement
    <3>2. ASSUME NEW n \in 1 .. Len(p) - 1 PROVE IsPrefix(Ancestor(p, n), p)
      <4>1. n \in 1 .. Len(p)
        BY <2>2
      <4>2. /\ IsSequence(Ancestor(p, n)) /\ Len(Ancestor(p, n)) <= Len(p)
            /\ \A m \in 1 .. Len(Ancestor(p, n)) : Ancestor(p, n)[m] = p[m]
        BY <2>2, <4>1, Ancestors
      <4> QED BY <2>2, <4>2, PrefixByElement
    <3> QED BY <3>1, <3>2
  <2>5. \A n \in 1 .. Len(p) - 1 : n \in 1 .. Len(p)
    BY <2>2
  <2>6. \A n \in 1 .. Len(p) - 1 : \A x \in X : x # Ancestor(p, n) /\ ~IsPrefix(x, Ancestor(p, n))
    BY <2>2, <2>3, <2>4, <2>5, PrefixesAreAncestors
  <2>7. \A n \in 1 .. Len(p) - 1 : IsFolder(there, Ancestor(p, n))'
    BY <2>1, <2>6 DEF InPlace, IsFolder, Exists, OnlyAt, Ancestor
  <2>8. p \in DOMAIN there' /\ there'[p] = there[p]
    BY <2>1, <2>3, <2>4 DEF InPlace, OnlyAt
  <2> QED BY <2>1, <2>7, <2>8 DEF InPlace, Remembers, Ancestor
<1> QED BY <1>1, <1>2

\* What is clear stays so.
LEMMA ClearStays ==
  ASSUME Remembers, NEW x, ClearOf(x)
  PROVE  ClearOf(x)'
BY DEF ClearOf, Covered, ToReplace, OldFiles, Remembers

\* What the user agreed to is clear, ...
LEMMA AgreedIsClear ==
  ASSUME NEW x \in ToReplace, IsSequence(x), x # <<>>
  PROVE  ClearOf(x)
BY DEF ClearOf, Covered

\* ... and where nothing is ...
LEMMA FreeIsClear ==
  ASSUME History, OldStays, NEW x, IsSequence(x), x # <<>>, ~Exists(there, x)
  PROVE  ClearOf(x)
<1> SUFFICES ASSUME NEW p \in OldFiles, IsPrefix(x, p), ~Covered(p) PROVE FALSE
  BY DEF ClearOf
<1>1. InPlace(p) /\ IsSequence(p)
  BY OldPaths DEF OldStays
<1>2. x = Ancestor(p, Len(x)) /\ (Len(x) # Len(p) => Len(x) \in 1 .. Len(p) - 1)
      /\ (Len(x) = Len(p) => x = p)
  BY <1>1, PrefixesAreAncestors
<1> QED BY <1>1, <1>2 DEF InPlace, IsFolder, Exists

\* ... or a .filepart that is no folder, ...
LEMMA PartialIsClear ==
  ASSUME History, OldStays, NEW x, IsSequence(x), x # <<>>, Last(x).kind = "filepart",
         ~IsFolder(there, x)
  PROVE  ClearOf(x)
<1> SUFFICES ASSUME NEW p \in OldFiles, IsPrefix(x, p), ~Covered(p) PROVE FALSE
  BY DEF ClearOf
<1>1. InPlace(p) /\ IsSequence(p) /\ Last(p).kind = "proper"
  BY OldPaths DEF OldStays
<1>2. x = Ancestor(p, Len(x)) /\ (Len(x) # Len(p) => Len(x) \in 1 .. Len(p) - 1)
      /\ (Len(x) = Len(p) => x = p)
  BY <1>1, PrefixesAreAncestors
<1> QED BY <1>1, <1>2 DEF InPlace

\* ... or a hidden name, which nothing had before.
LEMMA HiddenIsClear ==
  ASSUME History, NEW x, IsSequence(x), x # <<>>, Last(x).kind \in {"temp", "old"}
  PROVE  ClearOf(x)
<1> SUFFICES ASSUME NEW p \in OldFiles, IsPrefix(x, p) PROVE FALSE
  BY DEF ClearOf
<1>1. IsSequence(p) /\ \A n \in 1 .. Len(p) : p[n].kind \notin {"temp", "old"}
  BY OldPaths
<1>2. Len(x) \in 1 .. Len(p) /\ Last(x) = p[Len(x)]
  BY <1>1, PrefixesAreAncestors
<1> QED BY <1>1, <1>2

-----------------------------------------------------------------------------
(* Where the changes of the target folder are.                             *)

\* Nothing changes.
LEMMA Unchanging == ASSUME PathsAreSequences, UNCHANGED there PROVE OnlyAt({})
BY DEF OnlyAt, PathsAreSequences

\* An entry comes, or is another.
LEMMA Putting ==
  ASSUME PathsAreSequences, NEW x, IsSequence(x), NEW entry,
         there' = Put(there, x, entry) \/ there' = [there EXCEPT ![x] = entry]
  PROVE  OnlyAt({x})
BY DEF OnlyAt, PathsAreSequences, Put, With

\* remove, of a file or of a folder.
LEMMA Removing ==
  ASSUME PathsAreSequences, NEW x, there' = Removed(there, x)
  PROVE  OnlyAt({x})
BY DEF OnlyAt, PathsAreSequences, Removed, Restrict, Within

\* Leftovers go.
LEMMA RemovingLeftovers ==
  ASSUME PathsAreSequences, NEW X, there' = Restrict(there, DOMAIN there \ X)
  PROVE  OnlyAt(X)
BY DEF OnlyAt, PathsAreSequences, Restrict

\* A folder, before and after a rename.
LEMMA RenamingKeeps ==
  ASSUME NEW folder, \A p \in DOMAIN folder : IsSequence(p),
         NEW from, NEW to, IsSequence(from), IsSequence(to)
  PROVE  LET after == Renamed(folder, from, to) IN
         /\ \A p \in DOMAIN after : IsSequence(p)
         /\ \A q \in DOMAIN folder : ~IsPrefix(from, q) /\ ~IsPrefix(to, q)
              => q \in DOMAIN after /\ after[q] = folder[q]
<1> DEFINE rest(p) == SubSeq(p, Len(from) + 1, Len(p))
           moved == {to \o rest(p) : p \in Within(folder, from)}
           kept == DOMAIN folder \ (Within(folder, from) \cup Within(folder, to))
           after == Renamed(folder, from, to)
           entry(p) == IF p \in moved THEN folder[from \o SubSeq(p, Len(to) + 1, Len(p))]
                       ELSE folder[p]
<1>1. \A p \in moved : IsPrefix(to, p) /\ IsSequence(p)
  BY RestIsSequence, BelowIsPrefixed DEF Within
<1>2. after = [p \in kept \cup moved |-> entry(p)]
  BY DEF Renamed
<1>3. \A q \in DOMAIN folder : ~IsPrefix(from, q) /\ ~IsPrefix(to, q) => q \in kept
        /\ q \notin moved
  BY <1>1 DEF Within
<1>4. \A p \in kept : IsSequence(p)
  OBVIOUS
<1> HIDE DEF moved, kept, after
<1> QED BY <1>1, <1>2, <1>3, <1>4 DEF after

\* rename, of a file or of a folder.
LEMMA RenamingIsClear ==
  ASSUME PathsAreSequences, NEW from, NEW to, IsSequence(from), IsSequence(to),
         there' = Renamed(there, from, to)
  PROVE  OnlyAt({from, to})
BY RenamingKeeps DEF OnlyAt, PathsAreSequences

-----------------------------------------------------------------------------
(* Each job's target, and what it may do there.                            *)

Targeting == {"place", "ask", "clear", "mkdir", "list", "stage", "renamed", "cleanup"}
             \cup HasTemporary
Clashing == {"place", "ask"}

\* A job replaces what the user agreed to, and only that.
Consent(j) == pc[j] \in Targeting =>
  /\ Target(j) # <<>>
  /\ work[j].overwrite => Target(j) \in ToReplace
  /\ pc[j] \in Clashing => ~work[j].overwrite /\ Item(j) \in Files \cup Walked
  /\ pc[j] = "clear" => work[j].overwrite
  /\ pc[j] = "rename" /\ work[j].clash # None => work[j].overwrite

\* What a job writes to, sets aside or left behind is in nobody's way.
TemporariesAreClear(j) ==
  /\ pc[j] \in HasTemporary \cup {"renamed"} => ClearOf(Temporary(j))
  /\ pc[j] \in {"movein", "cleanup"} => ClearOf(work[j].aside)
LeftoversAreClear(j) == \A q \in ledger[j].leftovers : ClearOf(q)

Agreement(j) == Consent(j) /\ TemporariesAreClear(j) /\ LeftoversAreClear(j)
ReplaceInv == /\ IndInv /\ History /\ PathsAreSequences /\ OldStays
              /\ \A j \in Jobs : Agreement(j)

Others(j) == \A k \in Jobs \ {j} : /\ pc'[k] = pc[k] /\ work'[k] = work[k]
                                   /\ ledger'[k] = ledger[k]

\* An answer is one job's.
LEMMA FollowingOthers ==
  ASSUME Tables, NEW j \in Jobs, NEW decision, IsDecision(decision), NEW book,
         Follow(j, decision, book)
  PROVE  Others(j)
<1>1. CASE decision.do = "overwrite"
  BY <1>1 DEF Tables, Others, Goto, Follow, PlaceAt
<1>2. CASE decision.do = "skip"
  BY <1>2 DEF Tables, Others, Goto, Follow, Settle
<1>3. CASE decision.do = "rename"
  BY <1>3 DEF Tables, Others, Goto, Follow
<1> QED BY <1>1, <1>2, <1>3 DEF IsDecision

\* What is followed is a decision.
LEMMA WhatIsFollowed ==
  ASSUME IndInv, NEW j \in Jobs
  PROVE  /\ PlaceAgain(j) => IsDecision(work[j].earlier)
         /\ PlaceStanding(j) => \A decision \in Decisions(j, Standing(j)) : IsDecision(decision)
         /\ pc[j] = "ask" => \A answer \in Answers :
              \A decision \in Decisions(j, answer) : IsDecision(decision)
<1>1. pc[j] \in {"place", "ask"} => walk[j] # <<>>
  BY DEF IndInv, JobInv, Walking
<1>2. PlaceAgain(j) => IsDecision(work[j].earlier)
  BY DEF PlaceAgain, IndInv, JobInv, DecisionsAreKept
<1>3. PlaceStanding(j) => Standing(j) \in {"overwrite", "skip", "rename", "type"}
  BY DEF PlaceStanding, IndInv, JobInv, Records, Standing
<1>4. PlaceStanding(j) => pc[j] = "place"
  BY DEF PlaceStanding, Looks
<1> QED BY <1>1, <1>2, <1>3, <1>4, DecisionsArePaths, EngineAssumption

\* A step of one job is of that job's concern.
LEMMA Bystanders ==
  ASSUME IndInv, NEW j \in Jobs, StepOf(j)
  PROVE  Others(j)
<1> Tables
  BY DEF IndInv
<1> USE DEF Tables, Others, Goto, Note, GiveUpClaim, Settle, Finished, EndsWith
<1>1. CASE Walk(j)
  BY <1>1 DEF Walk, Begin, CannotBegin, EnterFolder, LeaveFolder, Finish, Choose,
              ClearTarget, MakeFolder, RemoveSource, SourceRemoved
<1>2. CASE Place(j)
  <2>1. CASE PlaceFree(j) \/ PlaceBeside(j) \/ PlaceFinished(j) \/ PlaceAsk(j)
    BY <2>1 DEF PlaceFree, PlaceBeside, PlaceFinished, PlaceAsk, PlaceAt
  <2>2. CASE PlaceAgain(j) \/ PlaceStanding(j)
    BY <2>2, FollowingOthers, WhatIsFollowed DEF PlaceAgain, PlaceStanding, Decide
  <2> QED BY <1>2, <2>1, <2>2 DEF Place
<1>3. CASE Stage(j)
  BY <1>3 DEF Stage, StageHidden, StagePartial, StandingPartial, HandlePartial, DiscardPartial
<1>4. CASE Copy(j)
  BY <1>4 DEF Copy, Create, Resume, Write, Close, Look, Rename, SetAside, MoveIn, CleanUp,
              RenameAnswered, Copied
<1>5. CASE UserAnswers(j)
  <2>1. CASE \E answer \in Answers : \E all : Answer(j, answer, all)
    BY <2>1, FollowingOthers, WhatIsFollowed DEF Answer, Decide
  <2>2. CASE \E answer, all : AnswerPartial(j, answer, all)
    BY <2>2 DEF AnswerPartial, HandlePartial
  <2> QED BY <1>5, <2>1, <2>2 DEF UserAnswers
<1>6. CASE Fail(j) \/ Drop(j) \/ Cancel(j) \/ Abandon(j)
  BY <1>6 DEF Fail, Drop, Cancel, Abandon
<1> QED BY <1>1, <1>2, <1>3, <1>4, <1>5, <1>6 DEF StepOf

\* What was seen before stays seen.
LEMMA Witnesses ==
  ASSUME History, NEW j \in Jobs, StepOf(j)
  PROVE  Remembers /\ History'
<1>1. \/ seen' = seen
      \/ \E field \in {"filled", "spliced", "relied", "gone", "skipped", "reused"} :
           \E value : See(field, value)
      \/ \E decision : SeeDecision(j, decision) \/ SeeStanding(j, decision)
      \/ \E f, g : seen' = [seen EXCEPT !.filled = f, !.gone = g]
  <2>1. CASE Walk(j)
    BY <2>1 DEF Walk, Begin, CannotBegin, EnterFolder, LeaveFolder, Finish, Choose,
                ClearTarget, MakeFolder, RemoveSource, SourceRemoved
  <2>2. CASE Place(j)
    BY <2>2 DEF Place, PlaceFree, PlaceBeside, PlaceFinished, PlaceAsk, PlaceAgain, PlaceStanding
  <2>3. CASE Stage(j)
    BY <2>3 DEF Stage, StageHidden, StagePartial, StandingPartial, HandlePartial, DiscardPartial
  <2>4. CASE Copy(j)
    BY <2>4 DEF Copy, Create, Resume, Write, Close, Look, Rename, SetAside, MoveIn, CleanUp,
                RenameAnswered
  <2>5. CASE UserAnswers(j)
    BY <2>5 DEF UserAnswers, Answer, AnswerPartial, HandlePartial
  <2>6. CASE Fail(j) \/ Drop(j) \/ Cancel(j) \/ Abandon(j)
    BY <2>6 DEF Fail, Drop, Cancel, Abandon
  <2> QED BY <2>1, <2>2, <2>3, <2>4, <2>5, <2>6 DEF StepOf
<1>2. Remembers
  <2>1. ASSUME seen' = seen PROVE Remembers
    BY <2>1 DEF Remembers
  <2>2. ASSUME NEW decision, SeeDecision(j, decision) \/ SeeStanding(j, decision)
        PROVE  Remembers
    <3>1. \E S : seen.replaceable \subseteq S
            /\ \E T : seen' = [seen EXCEPT !.replaceable = S, !.skipped = T]
      BY <2>2 DEF SeeDecision, SeeStanding
    <3> QED BY <3>1 DEF Remembers, History, NothingSeen
  <2>3. ASSUME NEW field \in {"filled", "spliced", "relied", "gone", "skipped", "reused"},
               NEW value, See(field, value)
        PROVE  Remembers
    BY <2>3 DEF Remembers, History, NothingSeen, See
  <2>4. ASSUME NEW f, NEW g, seen' = [seen EXCEPT !.filled = f, !.gone = g] PROVE Remembers
    BY <2>4 DEF Remembers, History, NothingSeen
  <2> QED BY <1>1, <2>1, <2>2, <2>3, <2>4
<1> QED BY <1>2 DEF Remembers, History

\* What a step does at paths that are clear keeps the invariant, if it does not
\* leave its job with less than was agreed.
LEMMA ReplacingStep ==
  ASSUME ReplaceInv, NEW j \in Jobs, StepOf(j), NEW X, OnlyAt(X), \A x \in X : ClearOf(x),
         Agreement(j)'
  PROVE  ReplaceInv'
<1>1. IndInv /\ IndInv' /\ Remembers /\ History' /\ Others(j)
  BY JobStep, Witnesses, Bystanders DEF ReplaceInv
<1>2. OldStays' /\ PathsAreSequences'
  BY <1>1, ClearStep DEF ReplaceInv, OnlyAt
<1>3. ASSUME NEW k \in Jobs \ {j} PROVE Agreement(k)'
  <2>1. pc'[k] = pc[k] /\ work'[k] = work[k] /\ ledger'[k] = ledger[k]
    BY <1>1 DEF Others
  <2>2. Consent(k) /\ TemporariesAreClear(k) /\ LeftoversAreClear(k)
    BY DEF ReplaceInv, Agreement
  <2>3. Consent(k)'
    BY <1>1, <2>1, <2>2 DEF Consent, Target, Item, ToReplace, Remembers
  <2>4. TemporariesAreClear(k)'
    BY <1>1, <2>1, <2>2, ClearStays DEF TemporariesAreClear, Temporary
  <2>5. LeftoversAreClear(k)'
    BY <1>1, <2>1, <2>2, ClearStays DEF LeftoversAreClear
  <2> QED BY <2>3, <2>4, <2>5 DEF Agreement
<1> QED BY <1>1, <1>2, <1>3 DEF ReplaceInv

\* What the ledger had stays clear.
LEMMA OldLeftovers ==
  ASSUME ReplaceInv, NEW j \in Jobs, StepOf(j),
         ledger'[j].leftovers \subseteq ledger[j].leftovers
  PROVE  LeftoversAreClear(j)' /\ Remembers
BY Witnesses, ClearStays DEF ReplaceInv, Agreement, LeftoversAreClear

\* Between items a job has no target.
LEMMA RestingStep ==
  ASSUME ReplaceInv, NEW j \in Jobs, StepOf(j), NEW X, OnlyAt(X), \A x \in X : ClearOf(x),
         pc'[j] \notin Targeting, LeftoversAreClear(j)'
  PROVE  ReplaceInv'
<1>1. Agreement(j)'
  BY DEF Agreement, Consent, TemporariesAreClear, Targeting, HasTemporary, Renaming
<1> QED BY <1>1, ReplacingStep

\* Nothing changes in the target folder, and the job goes to a place of rest.
LEMMA QuietStep ==
  ASSUME ReplaceInv, NEW j \in Jobs, StepOf(j), UNCHANGED there,
         NEW step, step \notin Targeting, Goto(j, step),
         ledger'[j].leftovers \subseteq ledger[j].leftovers
  PROVE  ReplaceInv'
<1>1. OnlyAt({}) /\ \A x \in {} : ClearOf(x)
  BY Unchanging DEF ReplaceInv
<1>2. pc'[j] = step
  BY DEF ReplaceInv, IndInv, Tables, Goto
<1>3. LeftoversAreClear(j)'
  BY OldLeftovers
<1> QED BY <1>1, <1>2, <1>3, RestingStep

\* What is noted in a ledger leaves its leftovers alone.
LEMMA SameLeftovers ==
  ASSUME IndInv, NEW j \in Jobs,
         \/ UNCHANGED ledger
         \/ \E value : Note(j, "moved", value) \/ Note(j, "partials", value)
         \/ \E written, decided :
              ledger' = [ledger EXCEPT ![j] = [[ledger[j] EXCEPT !.decided = decided]
                                                 EXCEPT !.written = written]]
         \/ \E written : ledger' = [ledger EXCEPT ![j] = [ledger[j] EXCEPT !.written = written]]
         \/ \E decided : ledger' = [ledger EXCEPT ![j] = [ledger[j] EXCEPT !.decided = decided]]
  PROVE  ledger'[j].leftovers \subseteq ledger[j].leftovers
<1> Tables /\ Records(j)
  BY DEF IndInv, JobInv
<1>1. CASE UNCHANGED ledger
  BY <1>1
<1>3. ASSUME NEW entry, entry.leftovers = ledger[j].leftovers,
             ledger' = [ledger EXCEPT ![j] = entry]
      PROVE  ledger'[j].leftovers \subseteq ledger[j].leftovers
  BY <1>3 DEF Tables
<1>4. ASSUME NEW written
      PROVE  [ledger[j] EXCEPT !.written = written].leftovers = ledger[j].leftovers
  BY DEF Records
<1>5. ASSUME NEW decided
      PROVE  [ledger[j] EXCEPT !.decided = decided].leftovers = ledger[j].leftovers
  BY DEF Records
<1>6. ASSUME NEW written, NEW decided
      PROVE  [[ledger[j] EXCEPT !.decided = decided] EXCEPT !.written = written].leftovers
               = ledger[j].leftovers
  BY DEF Records
<1>7. ASSUME NEW value, NEW field \in {"moved", "partials"}, Note(j, field, value)
      PROVE  ledger'[j].leftovers \subseteq ledger[j].leftovers
  <2>1. ledger' = [ledger EXCEPT ![j] = [ledger[j] EXCEPT ![field] = value]]
    BY <1>7 DEF Note
  <2>2. [ledger[j] EXCEPT ![field] = value].leftovers = ledger[j].leftovers
    BY DEF Records
  <2> QED BY <1>3, <2>1, <2>2
<1> QED BY <1>1, <1>3, <1>4, <1>5, <1>6, <1>7

-----------------------------------------------------------------------------
(* The walk.                                                               *)

\* Engine::run begins, and removes what an earlier attempt left.
LEMMA BeginReplacing == ASSUME ReplaceInv, NEW j \in Jobs, Begin(j) PROVE ReplaceInv'
<1>1. StepOf(j) /\ Goto(j, "walk") /\ Tables /\ Records(j) /\ LeftoversAreClear(j)
  BY DEF Begin, StepOf, Walk, ReplaceInv, IndInv, JobInv, Agreement
<1>2. PICK removed \in {{}, ledger[j].leftovers} :
        there' = Restrict(there, DOMAIN there \ removed)
  BY DEF Begin
<1>3. OnlyAt(removed) /\ \A x \in removed : ClearOf(x)
  BY <1>1, <1>2, RemovingLeftovers DEF ReplaceInv, LeftoversAreClear
<1>4. ledger'[j].leftovers = {}
  BY <1>1 DEF Begin, Tables, Records
<1>5. pc'[j] \notin Targeting
  BY <1>1 DEF Goto, Tables, Targeting, HasTemporary, Renaming
<1> QED BY <1>1, <1>3, <1>4, <1>5, RestingStep DEF LeftoversAreClear

\* Steps of the walk that change nothing in the target folder.
LEMMA WalkReplacing ==
  ASSUME ReplaceInv, NEW j \in Jobs,
         \/ CannotBegin(j) \/ EnterFolder(j) \/ LeaveFolder(j) \/ Finish(j)
         \/ RemoveSource(j) \/ SourceRemoved(j)
  PROVE  ReplaceInv'
<1>1. StepOf(j) /\ UNCHANGED there /\ (UNCHANGED ledger \/ \E value : Note(j, "moved", value))
  BY DEF CannotBegin, EnterFolder, LeaveFolder, Finish, RemoveSource, SourceRemoved, Finished,
         StepOf, Walk
<1>2. \E step \in {"walk", "over", "done", "remove", "removed"} : Goto(j, step)
  BY DEF CannotBegin, EnterFolder, LeaveFolder, Finish, RemoveSource, SourceRemoved, Finished,
         Settle
<1>3. {"walk", "over", "done", "remove", "removed"} \cap Targeting = {}
  BY DEF Targeting, HasTemporary, Renaming
<1>4. ledger'[j].leftovers \subseteq ledger[j].leftovers
  BY <1>1, SameLeftovers DEF ReplaceInv
<1> QED BY <1>1, <1>2, <1>3, <1>4, QuietStep

\* The target folder stays as it is, and the job's next request is about its target.
LEMMA AimingStep ==
  ASSUME ReplaceInv, NEW j \in Jobs, StepOf(j), UNCHANGED there,
         pc'[j] \notin HasTemporary \cup {"renamed", "cleanup"}, Consent(j)',
         ledger'[j].leftovers \subseteq ledger[j].leftovers
  PROVE  ReplaceInv'
<1>1. OnlyAt({}) /\ \A x \in {} : ClearOf(x)
  BY Unchanging DEF ReplaceInv
<1>2. TemporariesAreClear(j)'
  BY DEF TemporariesAreClear, HasTemporary, Renaming
<1> QED BY <1>1, <1>2, OldLeftovers, ReplacingStep DEF Agreement

\* Engine::transfer takes up an item.
LEMMA ChooseReplacing ==
  ASSUME ReplaceInv, NEW j \in Jobs, NEW i \in Items, Choose(j, i)
  PROVE  ReplaceInv'
<1>1. /\ StepOf(j) /\ UNCHANGED <<there, ledger>> /\ Tables /\ IsWalk(walk[j]) /\ walk[j] # <<>>
      /\ ledger'[j].leftovers \subseteq ledger[j].leftovers
  BY DEF Choose, StepOf, Walk, ReplaceInv, IndInv, JobInv, Walking
<1>2. CASE Handling[i] = "skip"
  <2>1. Goto(j, "walk") /\ "walk" \notin Targeting
    BY <1>2 DEF Choose, Settle, Targeting, HasTemporary, Renaming
  <2> QED BY <1>1, <2>1, QuietStep
<1>3. CASE Handling[i] # "skip"
  <2> DEFINE target == Append(Top(j).into, Proper(Stored[i]))
             earlier == IF i \in DOMAIN ledger[j].decided THEN ledger[j].decided[i]
                        ELSE Undecided
  <2>1. /\ pc' = [pc EXCEPT ![j] = "place"]
        /\ work' = [work EXCEPT ![j] = [NoWork EXCEPT !.item = i, !.target = target,
                                                      !.earlier = earlier]]
    BY <1>3 DEF Choose, Goto
  <2>2. target # <<>>
    BY <1>1, StackOperations, AppendIsSequence DEF Top, IsFrame
  <2>3. i \in Files \cup Walked
    BY <1>3, EngineAssumption DEF Files, Walked
  <2> HIDE DEF target, earlier
  <2>4. pc'[j] = "place" /\ work'[j].target = target /\ work'[j].overwrite = FALSE
        /\ work'[j].item = i
    BY <1>1, <2>1 DEF Tables, NoWork
  <2>5. Consent(j)'
    BY <2>2, <2>3, <2>4 DEF Consent, Clashing, Target, Item
  <2> QED BY <1>1, <2>4, <2>5, AimingStep DEF HasTemporary, Renaming
<1> QED BY <1>2, <1>3

\* Engine::transfer_folder removes a file that is in the way, as was agreed.
LEMMA ClearTargetReplacing ==
  ASSUME ReplaceInv, NEW j \in Jobs, ClearTarget(j)
  PROVE  ReplaceInv'
<1>1. /\ StepOf(j) /\ Goto(j, "mkdir") /\ UNCHANGED <<work, ledger>> /\ Tables
      /\ IsSequence(Target(j)) /\ Consent(j) /\ pc[j] = "clear"
      /\ there' = Removed(there, Target(j))
  BY DEF ClearTarget, StepOf, Walk, ReplaceInv, IndInv, JobInv, TargetIsPath, Agreement
<1>2. Target(j) # <<>> /\ Target(j) \in ToReplace /\ pc'[j] = "mkdir"
  BY <1>1 DEF Consent, Targeting, Goto, Tables
<1>3. OnlyAt({Target(j)}) /\ ClearOf(Target(j))
  BY <1>1, <1>2, Removing, AgreedIsClear DEF ReplaceInv
<1>4. ledger'[j].leftovers \subseteq ledger[j].leftovers
  BY <1>1
<1>5. LeftoversAreClear(j)' /\ Remembers
  BY <1>1, <1>4, OldLeftovers
<1>6. Consent(j)' /\ TemporariesAreClear(j)'
  BY <1>1, <1>2, <1>5 DEF Consent, TemporariesAreClear, HasTemporary, Renaming, Target, Clashing,
                          ToReplace, Remembers
<1> QED BY <1>1, <1>3, <1>5, <1>6, ReplacingStep DEF Agreement

\* mkdir makes a folder where nothing is.
LEMMA MakeFolderReplacing ==
  ASSUME ReplaceInv, NEW j \in Jobs, MakeFolder(j)
  PROVE  ReplaceInv'
<1>1. /\ StepOf(j) /\ Goto(j, "list") /\ UNCHANGED <<work, ledger>> /\ Tables
      /\ IsSequence(Target(j)) /\ Consent(j) /\ pc[j] = "mkdir" /\ ~Exists(there, Target(j))
      /\ there' = Put(there, Target(j), Folder(j))
  BY DEF MakeFolder, StepOf, Walk, ReplaceInv, IndInv, JobInv, TargetIsPath, Agreement
<1>2. Target(j) # <<>> /\ pc'[j] = "list"
  BY <1>1 DEF Consent, Targeting, Goto, Tables
<1>3. OnlyAt({Target(j)}) /\ ClearOf(Target(j))
  BY <1>1, <1>2, Putting, FreeIsClear DEF ReplaceInv
<1>4. ledger'[j].leftovers \subseteq ledger[j].leftovers
  BY <1>1
<1>5. LeftoversAreClear(j)' /\ Remembers
  BY <1>1, <1>4, OldLeftovers
<1>6. Consent(j)' /\ TemporariesAreClear(j)'
  BY <1>1, <1>2, <1>5 DEF Consent, TemporariesAreClear, HasTemporary, Renaming, Target, Clashing,
                          Targeting, ToReplace, Remembers
<1> QED BY <1>1, <1>3, <1>5, <1>6, ReplacingStep DEF Agreement

-----------------------------------------------------------------------------
(* Where an item lands.                                                    *)

\* The target is decided on, and agreed to if it is to be replaced.
LEMMA PlacingAgreed ==
  ASSUME ReplaceInv, NEW j \in Jobs, StepOf(j), UNCHANGED there, pc[j] \in Clashing,
         NEW book, NEW replaces \in BOOLEAN, PlaceAt(j, book, replaces),
         replaces => Target(j) \in ToReplace',
         ledger'[j].leftovers \subseteq ledger[j].leftovers
  PROVE  ReplaceInv'
<1>1. Tables /\ Records(j) /\ Consent(j)
  BY DEF ReplaceInv, IndInv, JobInv, Agreement
<1>2. Target(j) # <<>>
  BY <1>1 DEF Consent, Targeting, Clashing
<1>3. work'[j].overwrite = replaces /\ work'[j].target = Target(j)
  BY <1>1 DEF PlaceAt, Tables, Records, Target
<1>4. pc'[j] \in {"stage", "clear", "list", "mkdir"} /\ (pc'[j] = "clear" => replaces)
  BY <1>1 DEF PlaceAt, Goto, Tables
<1>5. Consent(j)'
  BY <1>2, <1>3, <1>4 DEF Consent, Target, Clashing
<1> QED BY <1>4, <1>5, AimingStep DEF HasTemporary, Renaming

\* An answer is followed.
LEMMA FollowingAgreed ==
  ASSUME ReplaceInv, NEW j \in Jobs, StepOf(j), UNCHANGED there, pc[j] \in Clashing,
         NEW decision, IsDecision(decision), NEW book, Follow(j, decision, book),
         decision.do = "overwrite" => Target(j) \in ToReplace',
         ledger'[j].leftovers \subseteq ledger[j].leftovers
  PROVE  ReplaceInv'
<1>1. Tables /\ Records(j) /\ Consent(j)
  BY DEF ReplaceInv, IndInv, JobInv, Agreement
<1>2. CASE decision.do = "overwrite"
  <2>1. PlaceAt(j, book, TRUE)
    BY <1>2 DEF Follow
  <2> QED BY <1>2, <2>1, PlacingAgreed
<1>3. CASE decision.do = "skip"
  <2>1. Goto(j, "walk") /\ "walk" \notin Targeting
    BY <1>3 DEF Follow, Settle, Targeting, HasTemporary, Renaming
  <2> QED BY <2>1, QuietStep
<1>4. CASE decision.do = "rename"
  <2>1. /\ pc' = [pc EXCEPT ![j] = "place"]
        /\ work' = [work EXCEPT ![j].target = decision.to, ![j].earlier = Undecided]
    BY <1>4 DEF Follow, Goto
  <2>2. decision.to # <<>> /\ ~work[j].overwrite /\ Item(j) \in Files \cup Walked
    BY <1>1, <1>4 DEF IsDecision, Consent, Targeting, Clashing
  <2>3. pc'[j] = "place" /\ work'[j].target = decision.to
        /\ work'[j].overwrite = work[j].overwrite /\ work'[j].item = work[j].item
    BY <1>1, <2>1 DEF Tables, Records
  <2>4. Consent(j)'
    BY <2>2, <2>3 DEF Consent, Target, Item, Clashing
  <2> QED BY <2>3, <2>4, AimingStep DEF HasTemporary, Renaming
<1> QED BY <1>2, <1>3, <1>4 DEF IsDecision

\* Engine::place: a look at the target that asks for nothing to be replaced.
LEMMA LooksReplacing ==
  ASSUME ReplaceInv, NEW j \in Jobs,
         PlaceFree(j) \/ PlaceBeside(j) \/ PlaceFinished(j) \/ PlaceAsk(j)
  PROVE  ReplaceInv'
<1>1. /\ StepOf(j) /\ UNCHANGED there /\ pc[j] = "place" /\ Tables /\ Records(j) /\ Consent(j)
      /\ IsWalk(walk[j]) /\ walk[j] # <<>>
  BY DEF PlaceFree, PlaceBeside, PlaceFinished, PlaceAsk, Looks, StepOf, Place, ReplaceInv, IndInv,
         JobInv, Walking, Agreement
<1>2. pc[j] \in Clashing /\ pc[j] \in Targeting
  BY <1>1 DEF Clashing, Targeting
<1>3. CASE PlaceFree(j)
  <2>1. PlaceAt(j, ledger[j], FALSE)
    BY <1>3 DEF PlaceFree
  <2>2. ledger'[j].leftovers \subseteq ledger[j].leftovers
    BY <2>1, SameLeftovers DEF PlaceAt, ReplaceInv
  <2> QED BY <1>1, <1>2, <2>1, <2>2, PlacingAgreed
<1>4. CASE PlaceBeside(j)
  <2>1. work' = [work EXCEPT ![j].target = FirstFree(there, Base(j))] /\ UNCHANGED <<pc, ledger>>
    BY <1>4 DEF PlaceBeside
  <2>2. FirstFree(there, Base(j)) # <<>>
    BY <1>1, StackOperations, AppendIsSequence, FirstFreeIsPath DEF Base, Top, IsFrame
  <2>3. work'[j].target # <<>> /\ work'[j].item = work[j].item
        /\ work'[j].overwrite = work[j].overwrite
    BY <1>1, <2>1, <2>2 DEF Tables, Records
  <2>4. Consent(j)'
    BY <1>1, <1>2, <2>1, <2>3 DEF Consent, Target, Item, Clashing
  <2>5. ledger'[j].leftovers \subseteq ledger[j].leftovers
    BY <2>1
  <2> QED BY <1>1, <2>1, <2>4, <2>5, AimingStep DEF HasTemporary, Renaming
<1>5. CASE PlaceFinished(j)
  <2>1. \E step \in {"remove", "walk"} : Goto(j, step)
    BY <1>5 DEF PlaceFinished, Finished, Settle
  <2>2. ledger'[j].leftovers \subseteq ledger[j].leftovers
    BY <1>5, SameLeftovers DEF PlaceFinished, Finished, ReplaceInv
  <2> QED BY <1>1, <2>1, <2>2, QuietStep DEF Targeting, HasTemporary, Renaming
<1>6. CASE PlaceAsk(j)
  <2>1. Goto(j, "ask") /\ UNCHANGED <<work, ledger>>
    BY <1>6 DEF PlaceAsk
  <2>2. pc'[j] = "ask"
    BY <1>1, <2>1 DEF Goto, Tables
  <2>3. Consent(j)'
    BY <1>1, <1>2, <2>1, <2>2 DEF Consent, Target, Item, Clashing
  <2>4. ledger'[j].leftovers \subseteq ledger[j].leftovers
    BY <2>1
  <2> QED BY <1>1, <2>2, <2>3, <2>4, AimingStep DEF HasTemporary, Renaming
<1> QED BY <1>3, <1>4, <1>5, <1>6

\* Following an answer notes what is written, and perhaps the answer.
LEMMA FollowedLeftovers ==
  ASSUME ReplaceInv, NEW j \in Jobs, NEW decision, IsDecision(decision),
         Follow(j, decision, ledger[j]) \/ Decide(j, decision)
  PROVE  ledger'[j].leftovers \subseteq ledger[j].leftovers
<1>1. IndInv
  BY DEF ReplaceInv
<1>2. CASE Follow(j, decision, ledger[j])
  <2>1. ledger' = [ledger EXCEPT ![j] = ledger[j]]
        \/ \E written : ledger' = [ledger EXCEPT ![j] = [ledger[j] EXCEPT !.written = written]]
    BY <1>2 DEF Follow, PlaceAt, IsDecision
  <2>2. CASE ledger' = [ledger EXCEPT ![j] = ledger[j]]
    BY <1>1, <2>2 DEF IndInv, Tables
  <2> QED BY <1>1, <2>1, <2>2, SameLeftovers
<1>3. CASE Decide(j, decision)
  <2> DEFINE decided == With(ledger[j].decided, Item(j), decision)
             book == [ledger[j] EXCEPT !.decided = decided]
  <2>1. Follow(j, decision, book)
    BY <1>3 DEF Decide
  <2> HIDE DEF book
  <2>2. ledger' = [ledger EXCEPT ![j] = book]
        \/ \E written : ledger' = [ledger EXCEPT ![j] = [book EXCEPT !.written = written]]
    BY <2>1 DEF Follow, PlaceAt, IsDecision
  <2> HIDE DEF decided
  <2>3. \/ ledger' = [ledger EXCEPT ![j] = [ledger[j] EXCEPT !.decided = decided]]
        \/ \E written : ledger' = [ledger EXCEPT ![j] =
                          [[ledger[j] EXCEPT !.decided = decided] EXCEPT !.written = written]]
    BY <2>2 DEF book
  <2> QED BY <1>1, <2>3, SameLeftovers
<1> QED BY <1>2, <1>3

\* Engine::place takes the answer of an earlier attempt, ...
LEMMA PlaceAgainReplacing == ASSUME ReplaceInv, NEW j \in Jobs, PlaceAgain(j) PROVE ReplaceInv'
<1>1. /\ StepOf(j) /\ UNCHANGED there /\ pc[j] \in Clashing /\ IndInv /\ History
      /\ Follow(j, work[j].earlier, ledger[j]) /\ IsDecision(work[j].earlier)
  BY WhatIsFollowed DEF PlaceAgain, Looks, StepOf, Place, ReplaceInv, Clashing
<1>2. ledger'[j].leftovers \subseteq ledger[j].leftovers
  BY <1>1, FollowedLeftovers
<1>3. work[j].earlier.do = "overwrite" => Target(j) \in ToReplace'
  <2>1. CASE work[j].earlier = Overwrite
    <3>1. See("reused", {Target(j)})
      BY <2>1 DEF PlaceAgain, Overwrite, Skip
    <3>2. Target(j) \in seen'.reused
      BY <1>1, <3>1 DEF See, History, NothingSeen
    <3> QED BY <3>2 DEF ToReplace
  <2>2. CASE work[j].earlier # Overwrite
    BY <1>1, <2>2 DEF IsDecision
  <2> QED BY <2>1, <2>2
<1> QED BY <1>1, <1>2, <1>3, FollowingAgreed

\* ... or an answer for all clashes of files, ...
LEMMA PlaceStandingReplacing ==
  ASSUME ReplaceInv, NEW j \in Jobs, PlaceStanding(j)
  PROVE  ReplaceInv'
<1>1. /\ StepOf(j) /\ UNCHANGED there /\ pc[j] = "place" /\ IndInv /\ History /\ Consent(j)
      /\ \A decision \in Decisions(j, Standing(j)) : IsDecision(decision)
  BY WhatIsFollowed DEF PlaceStanding, Looks, StepOf, Place, ReplaceInv, Agreement
<1>2. PICK decision \in Decisions(j, Standing(j)) :
        Decide(j, decision) /\ SeeStanding(j, decision)
  BY DEF PlaceStanding
<1>3. Item(j) \in Files /\ ~IsFolder(there, Target(j))
  <2>1. (Item(j) \in Walked) = IsFolder(there, Target(j))
    BY DEF PlaceStanding, Standing, SameKind
  <2>2. ~(Item(j) \in Walked /\ IsFolder(there, Target(j)))
    BY DEF PlaceStanding, Clashes, IsMerge
  <2>3. Item(j) \in Files \cup Walked
    BY <1>1 DEF Consent, Targeting, Clashing
  <2> QED BY <2>1, <2>2, <2>3
<1>4. decision.do = "overwrite" => Target(j) \in ToReplace'
  BY <1>1, <1>2, <1>3 DEF SeeStanding, History, NothingSeen, ToReplace
<1>5. ledger'[j].leftovers \subseteq ledger[j].leftovers
  BY <1>1, <1>2, FollowedLeftovers
<1>6. Follow(j, decision, [ledger[j] EXCEPT !.decided = With(@, Item(j), decision)])
  BY <1>2 DEF Decide
<1> QED BY <1>1, <1>2, <1>4, <1>5, <1>6, FollowingAgreed DEF Clashing

\* ... or asks.
LEMMA AnswerReplacing ==
  ASSUME ReplaceInv, NEW j \in Jobs, NEW answer \in Answers, NEW all \in ForAll,
         Answer(j, answer, all)
  PROVE  ReplaceInv'
<1>1. /\ StepOf(j) /\ UNCHANGED there /\ pc[j] = "ask" /\ IndInv /\ History
      /\ \A decision \in Decisions(j, answer) : IsDecision(decision)
  BY WhatIsFollowed DEF Answer, StepOf, UserAnswers, ReplaceInv
<1>2. PICK decision \in Decisions(j, answer) : Decide(j, decision) /\ SeeDecision(j, decision)
  BY DEF Answer
<1>3. decision.do = "overwrite" => Target(j) \in ToReplace'
  BY <1>1, <1>2 DEF SeeDecision, History, NothingSeen, ToReplace
<1>4. ledger'[j].leftovers \subseteq ledger[j].leftovers
  BY <1>1, <1>2, FollowedLeftovers
<1>5. Follow(j, decision, [ledger[j] EXCEPT !.decided = With(@, Item(j), decision)])
  BY <1>2 DEF Decide
<1> QED BY <1>1, <1>2, <1>3, <1>4, <1>5, FollowingAgreed DEF Clashing

-----------------------------------------------------------------------------
(* Staging, copying, renaming.                                             *)

\* Between staging and renaming, a job does nothing but at what it writes, its
\* target and what it sets aside.
LEMMA CopyingStep ==
  ASSUME ReplaceInv, NEW j \in Jobs, StepOf(j), NEW X, OnlyAt(X), \A x \in X : ClearOf(x),
         pc[j] \in Targeting,
         NEW step \in (HasTemporary \cup {"renamed", "cleanup"}) \ {"rename"},
         Goto(j, step) \/ (UNCHANGED pc /\ step = pc[j]),
         \A field \in {"item", "target", "overwrite"} : work'[j][field] = work[j][field],
         step # "cleanup" => ClearOf(work'[j].temporary),
         step \in {"movein", "cleanup"} => ClearOf(work'[j].aside),
         ledger'[j].leftovers \subseteq ledger[j].leftovers
  PROVE  ReplaceInv'
<1>1. Consent(j) /\ Tables
  BY DEF ReplaceInv, IndInv, Agreement
<1>2. pc'[j] = step
  BY <1>1 DEF Goto, Tables
<1>3. LeftoversAreClear(j)' /\ Remembers
  BY OldLeftovers
<1>4. work'[j].target = Target(j) /\ work'[j].overwrite = work[j].overwrite
  BY DEF Target
<1>5. step \in Targeting /\ step \notin Clashing \cup {"clear", "rename"}
  BY DEF Targeting, Clashing, HasTemporary, Renaming
<1>6. Consent(j)'
  BY <1>1, <1>2, <1>3, <1>4, <1>5 DEF Consent, Target, ToReplace, Remembers
<1>7. TemporariesAreClear(j)'
  BY <1>2, <1>3, ClearStays DEF TemporariesAreClear, Temporary, HasTemporary, Renaming
<1> QED BY <1>3, <1>6, <1>7, ReplacingStep DEF Agreement

\* Engine::staging: a hidden name is nobody's, ...
LEMMA StageHiddenReplacing == ASSUME ReplaceInv, NEW j \in Jobs, StageHidden(j) PROVE ReplaceInv'
<1>1. /\ StepOf(j) /\ UNCHANGED <<there, ledger>> /\ pc[j] = "stage" /\ Tables /\ Records(j)
      /\ IsSequence(Target(j)) /\ Goto(j, "create") /\ History /\ PathsAreSequences
      /\ work' = [work EXCEPT ![j].temporary = HiddenTemporary(j)]
  BY DEF StageHidden, StepOf, Stage, ReplaceInv, IndInv, JobInv, TargetIsPath
<1>2. ClearOf(HiddenTemporary(j))
  BY <1>1, BesideIsPath, HiddenIsClear DEF HiddenTemporary, Hidden
<1>3. work'[j].temporary = HiddenTemporary(j)
      /\ \A field \in {"item", "target", "overwrite"} : work'[j][field] = work[j][field]
  BY <1>1 DEF Tables, Records
<1>4. OnlyAt({}) /\ \A x \in {} : ClearOf(x)
  BY <1>1, Unchanging
<1>5. ledger'[j].leftovers \subseteq ledger[j].leftovers
  BY <1>1
<1>6. pc[j] \in Targeting /\ "create" \in HasTemporary
  BY <1>1 DEF Targeting, HasTemporary
<1> QED BY <1>1, <1>2, <1>3, <1>4, <1>5, <1>6, CopyingStep

\* ... and a .filepart no folder.
LEMMA StagePartialReplacing ==
  ASSUME ReplaceInv, NEW j \in Jobs, StagePartial(j)
  PROVE  ReplaceInv'
<1>1. /\ StepOf(j) /\ UNCHANGED <<there, ledger>> /\ pc[j] = "stage" /\ Tables /\ Records(j)
      /\ IsSequence(Target(j)) /\ History /\ PathsAreSequences /\ OldStays
      /\ \E step \in {"create", "discard", "resume", "askpartial"} : Goto(j, step)
      /\ work' = [work EXCEPT ![j].temporary = PartialOf(j)] /\ ~IsFolder(there, PartialOf(j))
  BY DEF StagePartial, StepOf, Stage, ReplaceInv, IndInv, JobInv, TargetIsPath
<1>2. ClearOf(PartialOf(j))
  BY <1>1, BesideIsPath, PartialIsClear DEF PartialOf, PartialBeside, Partial
<1>3. work'[j].temporary = PartialOf(j)
      /\ \A field \in {"item", "target", "overwrite"} : work'[j][field] = work[j][field]
  BY <1>1 DEF Tables, Records
<1>4. OnlyAt({}) /\ \A x \in {} : ClearOf(x)
  BY <1>1, Unchanging
<1>5. ledger'[j].leftovers \subseteq ledger[j].leftovers
  BY <1>1
<1>6. pc[j] \in Targeting /\ {"create", "discard", "resume", "askpartial"} \subseteq HasTemporary
  BY <1>1 DEF Targeting, HasTemporary
<1>7. PICK step \in {"create", "discard", "resume", "askpartial"} : Goto(j, step)
  BY <1>1
<1> QED BY <1>1, <1>2, <1>3, <1>4, <1>5, <1>6, <1>7, CopyingStep DEF Renaming

\* Engine::ask_resume changes nothing.
LEMMA HandlePartialReplacing ==
  ASSUME ReplaceInv, NEW j \in Jobs, StepOf(j), NEW answer, HandlePartial(j, answer)
  PROVE  ReplaceInv'
<1>1. UNCHANGED <<there, ledger>> /\ pc[j] = "askpartial" /\ PathsAreSequences
      /\ TemporariesAreClear(j)
  BY DEF HandlePartial, ReplaceInv, Agreement
<1>2. ledger'[j].leftovers \subseteq ledger[j].leftovers
  BY <1>1
<1>3. CASE answer = "skip"
  <2>1. Goto(j, "walk") /\ "walk" \notin Targeting
    BY <1>3 DEF HandlePartial, Settle, Targeting, HasTemporary, Renaming
  <2> QED BY <1>1, <1>2, <2>1, QuietStep
<1>4. CASE answer # "skip"
  <2>1. \E step \in {"resume", "discard"} : Goto(j, step)
    BY <1>4 DEF HandlePartial
  <2>2. work' = work
    BY <1>4 DEF HandlePartial
  <2>3. pc[j] \in Targeting /\ {"resume", "discard"} \subseteq HasTemporary
    BY <1>1 DEF Targeting, HasTemporary
  <2>4. ClearOf(work'[j].temporary)
    BY <1>1, <2>2 DEF TemporariesAreClear, Temporary, HasTemporary
  <2>5. OnlyAt({}) /\ \A x \in {} : ClearOf(x)
    BY <1>1, Unchanging
  <2>6. \A field \in {"item", "target", "overwrite"} : work'[j][field] = work[j][field]
    BY <2>2
  <2>7. PICK step \in {"resume", "discard"} : Goto(j, step)
    BY <2>1
  <2> QED BY <1>2, <2>3, <2>4, <2>5, <2>6, <2>7, CopyingStep
<1> QED BY <1>3, <1>4

\* What Engine::stream and its preparations do is done to the file it writes.
LEMMA WritingReplacing ==
  ASSUME ReplaceInv, NEW j \in Jobs,
         DiscardPartial(j) \/ Create(j) \/ Resume(j) \/ Write(j) \/ Close(j)
  PROVE  ReplaceInv'
<1>1. /\ StepOf(j) /\ Tables /\ Records(j) /\ PathsAreSequences /\ TemporariesAreClear(j)
  BY DEF StepOf, Stage, Copy, ReplaceInv, IndInv, JobInv, Agreement
<1>2. /\ pc[j] \in HasTemporary /\ pc[j] # "rename"
      /\ \E step \in {"create", "stream", "look"} :
           Goto(j, step) \/ (UNCHANGED pc /\ step = pc[j])
  BY DEF DiscardPartial, Create, Resume, Write, Close, HasTemporary, Renaming
<1>3. ClearOf(Temporary(j))
  BY <1>1, <1>2 DEF TemporariesAreClear
<1>4. work' = work \/ \E offset : work' = [work EXCEPT ![j].offset = offset]
  BY DEF DiscardPartial, Create, Resume, Write, Close
<1>5. \A field \in {"item", "target", "overwrite", "temporary"} : work'[j][field] = work[j][field]
  BY <1>1, <1>4 DEF Tables, Records
<1>6. OnlyAt({Temporary(j)})
  <2>1. there' = Removed(there, Temporary(j))
        \/ \E entry : there' = Put(there, Temporary(j), entry)
                      \/ there' = [there EXCEPT ![Temporary(j)] = entry]
    BY DEF DiscardPartial, Create, Resume, Write, Close
  <2> QED BY <1>1, <1>3, <2>1, Removing, Putting DEF ClearOf
<1>7. ledger'[j].leftovers \subseteq ledger[j].leftovers
  <2>1. UNCHANGED ledger \/ \E value : Note(j, "partials", value)
    BY DEF DiscardPartial, Create, Resume, Write, Close
  <2> QED BY <2>1, SameLeftovers DEF ReplaceInv
<1>8. PICK step \in {"create", "stream", "look"} :
        Goto(j, step) \/ (UNCHANGED pc /\ step = pc[j])
  BY <1>2
<1>9. step \in HasTemporary \ {"rename"} /\ pc[j] \in Targeting
  BY <1>2 DEF HasTemporary, Renaming, Targeting
<1>10. ClearOf(work'[j].temporary) /\ step \notin {"movein", "cleanup"}
  BY <1>3, <1>5 DEF Temporary
<1> QED BY <1>1, <1>3, <1>5, <1>6, <1>7, <1>8, <1>9, <1>10, CopyingStep

\* SftpFs::rename looks: what it finds is to be replaced.
LEMMA LookReplacing == ASSUME ReplaceInv, NEW j \in Jobs, Look(j) PROVE ReplaceInv'
<1>1. /\ StepOf(j) /\ Tables /\ Records(j) /\ PathsAreSequences /\ Agreement(j)
      /\ UNCHANGED <<there, ledger>> /\ pc[j] = "look" /\ Goto(j, "rename")
  BY DEF Look, StepOf, Copy, ReplaceInv, IndInv, JobInv
<1>2. OnlyAt({}) /\ \A x \in {} : ClearOf(x)
  BY <1>1, Unchanging
<1>3. ledger'[j].leftovers \subseteq ledger[j].leftovers
  BY <1>1
<1>4. LeftoversAreClear(j)' /\ Remembers
  BY <1>1, <1>3, OldLeftovers
<1>5. PICK clash : /\ work' = [work EXCEPT ![j].clash = clash]
                   /\ clash # None => work[j].overwrite
  BY DEF Look
<1>6. work'[j].clash = clash /\ pc'[j] = "rename"
      /\ \A field \in {"target", "overwrite", "temporary"} : work'[j][field] = work[j][field]
  BY <1>1, <1>5 DEF Tables, Records, Goto
<1>7. Consent(j)'
  BY <1>1, <1>4, <1>5, <1>6
  DEF Agreement, Consent, Target, ToReplace, Remembers, Targeting, HasTemporary, Renaming, Clashing
<1>8. TemporariesAreClear(j)'
  BY <1>1, <1>4, <1>6, ClearStays
  DEF Agreement, TemporariesAreClear, Temporary, HasTemporary, Renaming
<1> QED BY <1>1, <1>2, <1>4, <1>7, <1>8, ReplacingStep DEF Agreement

\* What a job writes is a path: it is clear.
LEMMA RenamingFacts ==
  ASSUME ReplaceInv, NEW j \in Jobs, pc[j] \in Renaming \cup {"cleanup", "renamed", "stream"}
  PROVE  /\ Tables /\ Records(j) /\ PathsAreSequences /\ Agreement(j) /\ History
         /\ IsSequence(Target(j)) /\ Target(j) # <<>> /\ pc[j] \in Targeting
         /\ pc[j] # "cleanup" => ClearOf(Temporary(j)) /\ IsSequence(Temporary(j))
         /\ ~Exists(there, Target(j)) => ClearOf(Target(j))
         /\ pc[j] = "rename" /\ work[j].clash # None => ClearOf(Target(j))
<1>1. /\ Tables /\ Records(j) /\ PathsAreSequences /\ Agreement(j) /\ History /\ OldStays
      /\ IsSequence(Target(j))
  BY DEF ReplaceInv, IndInv, JobInv, TargetIsPath
<1>2. pc[j] \in Targeting
  BY DEF Targeting, HasTemporary
<1>3. Target(j) # <<>>
  BY <1>1, <1>2 DEF Agreement, Consent
<1>4. pc[j] # "cleanup" => ClearOf(Temporary(j)) /\ IsSequence(Temporary(j))
  BY <1>1 DEF Agreement, TemporariesAreClear, HasTemporary, ClearOf
<1>5. ~Exists(there, Target(j)) => ClearOf(Target(j))
  BY <1>1, <1>3, FreeIsClear
<1>6. pc[j] = "rename" /\ work[j].clash # None => ClearOf(Target(j))
  BY <1>1, <1>2, <1>3, AgreedIsClear DEF Agreement, Consent
<1> QED BY <1>1, <1>2, <1>3, <1>4, <1>5, <1>6

\* SftpFs::rename replaces what was agreed to, or nothing.
LEMMA RenameReplacing ==
  ASSUME ReplaceInv, NEW j \in Jobs, Rename(j) \/ MoveIn(j)
  PROVE  ReplaceInv'
<1>1. /\ StepOf(j) /\ pc[j] \in {"rename", "movein"} /\ UNCHANGED <<work, ledger>>
      /\ there' = Renamed(there, Temporary(j), Target(j))
      /\ \/ Rename(j) /\ Goto(j, "renamed")
         \/ MoveIn(j) /\ pc[j] = "movein" /\ Goto(j, "cleanup") /\ ~Exists(there, Target(j))
      /\ Rename(j) => pc[j] = "rename" /\ (work[j].clash = None => ~Exists(there, Target(j)))
  BY DEF Rename, MoveIn, StepOf, Copy
<1>2. /\ Tables /\ Records(j) /\ PathsAreSequences /\ Agreement(j) /\ IsSequence(Target(j))
      /\ pc[j] \in Targeting /\ ClearOf(Temporary(j)) /\ IsSequence(Temporary(j))
      /\ ~Exists(there, Target(j)) => ClearOf(Target(j))
      /\ pc[j] = "rename" /\ work[j].clash # None => ClearOf(Target(j))
  BY <1>1, RenamingFacts DEF Renaming
<1>3. ClearOf(Target(j))
  BY <1>1, <1>2
<1>4. OnlyAt({Temporary(j), Target(j)})
  BY <1>1, <1>2, RenamingIsClear
<1>5. \A x \in {Temporary(j), Target(j)} : ClearOf(x)
  BY <1>2, <1>3
<1>6. ledger'[j].leftovers \subseteq ledger[j].leftovers
      /\ \A field \in {"item", "target", "overwrite"} : work'[j][field] = work[j][field]
  BY <1>1
<1>7. ClearOf(work'[j].temporary) /\ (pc[j] = "movein" => ClearOf(work'[j].aside))
  BY <1>1, <1>2 DEF Temporary, Agreement, TemporariesAreClear
<1>8. CASE Rename(j)
  <2>1. Goto(j, "renamed") /\ "renamed" \in (HasTemporary \cup {"renamed", "cleanup"}) \ {"rename"}
    BY <1>8 DEF Rename
  <2> HIDE DEF ReplaceInv, StepOf
  <2> QED BY <1>1, <1>2, <1>4, <1>5, <1>6, <1>7, <2>1, CopyingStep
<1>9. CASE MoveIn(j)
  <2>1. Goto(j, "cleanup") /\ pc[j] = "movein"
        /\ "cleanup" \in (HasTemporary \cup {"renamed", "cleanup"}) \ {"rename"}
    BY <1>9 DEF MoveIn
  <2> QED BY <1>1, <1>2, <1>4, <1>5, <1>6, <1>7, <2>1, CopyingStep
<1> QED BY <1>1, <1>8, <1>9

\* replace_by_moving_aside: what goes aside is to be replaced.
LEMMA SetAsideReplacing == ASSUME ReplaceInv, NEW j \in Jobs, SetAside(j) PROVE ReplaceInv'
<1> DEFINE aside == Beside(Target(j), Hidden("old", <<j, ledger[j].attempts>>))
<1>1. /\ StepOf(j) /\ pc[j] = "rename" /\ UNCHANGED ledger /\ Goto(j, "movein")
      /\ there' = Renamed(there, Target(j), aside) /\ work' = [work EXCEPT ![j].aside = aside]
      /\ work[j].clash # None
  BY DEF SetAside, InOneStep, StepOf, Copy
<1>2. /\ Tables /\ Records(j) /\ PathsAreSequences /\ History /\ IsSequence(Target(j))
      /\ pc[j] \in Targeting /\ ClearOf(Temporary(j)) /\ ClearOf(Target(j))
  BY <1>1, RenamingFacts DEF Renaming
<1>3. ClearOf(aside) /\ IsSequence(aside)
  <2>1. IsSequence(aside) /\ aside # <<>>
        /\ Last(aside) = Hidden("old", <<j, ledger[j].attempts>>)
    BY <1>2, BesideIsPath
  <2>2. Last(aside).kind = "old"
    BY <2>1 DEF Hidden
  <2> HIDE DEF aside
  <2> QED BY <1>2, <2>1, <2>2, HiddenIsClear
<1> HIDE DEF aside
<1>4. OnlyAt({Target(j), aside})
  BY <1>1, <1>2, <1>3, RenamingIsClear
<1>5. \A x \in {Target(j), aside} : ClearOf(x)
  BY <1>2, <1>3
<1>6. work'[j].aside = aside /\ work'[j].temporary = Temporary(j)
      /\ \A field \in {"item", "target", "overwrite"} : work'[j][field] = work[j][field]
  BY <1>1, <1>2 DEF Tables, Records, Temporary
<1>7. ledger'[j].leftovers \subseteq ledger[j].leftovers
      /\ "movein" \in (HasTemporary \cup {"renamed", "cleanup"}) \ {"rename"}
  BY <1>1 DEF HasTemporary, Renaming
<1>8. ClearOf(work'[j].temporary) /\ ClearOf(work'[j].aside)
  BY <1>2, <1>3, <1>6
<1> QED BY <1>1, <1>2, <1>4, <1>5, <1>6, <1>7, <1>8, CopyingStep

\* The copy is in its place, and what was set aside goes, or stays.
LEMMA CopiedReplacing ==
  ASSUME ReplaceInv, NEW j \in Jobs, CleanUp(j) \/ RenameAnswered(j)
  PROVE  ReplaceInv'
<1>1. /\ StepOf(j) /\ Copied(j) /\ pc[j] \in {"cleanup", "renamed"}
      /\ there' = there \/ (pc[j] = "cleanup" /\ there' = Removed(there, work[j].aside))
  BY DEF CleanUp, RenameAnswered, StepOf, Copy
<1>2. /\ Tables /\ PathsAreSequences /\ Agreement(j)
  BY <1>1, RenamingFacts
<1>3. \E step \in {"remove", "walk"} : Goto(j, step)
  BY <1>1 DEF Copied, Settle
<1>4. pc'[j] \notin Targeting
  BY <1>2, <1>3 DEF Goto, Tables, Targeting, HasTemporary, Renaming
<1>5. ledger'[j].leftovers \subseteq ledger[j].leftovers
  BY <1>1, SameLeftovers DEF Copied, ReplaceInv
<1>6. LeftoversAreClear(j)'
  BY <1>1, <1>5, OldLeftovers
<1>7. CASE there' = there
  BY <1>1, <1>2, <1>4, <1>6, <1>7, Unchanging, RestingStep
<1>8. CASE pc[j] = "cleanup" /\ there' = Removed(there, work[j].aside)
  <2>1. ClearOf(work[j].aside) /\ OnlyAt({work[j].aside})
    BY <1>2, <1>8, Removing DEF Agreement, TemporariesAreClear
  <2>2. \A x \in {work[j].aside} : ClearOf(x)
    BY <2>1
  <2> QED BY <1>1, <1>4, <1>6, <2>1, <2>2, RestingStep
<1> QED BY <1>1, <1>7, <1>8

-----------------------------------------------------------------------------
(* However an attempt ends, what it removes or puts back is its own.        *)

\* The changes of the target folder when an attempt ends.
LEMMA EndingChanges ==
  ASSUME ReplaceInv, NEW j \in Jobs, Fail(j) \/ Drop(j) \/ Cancel(j) \/ Abandon(j)
  PROVE  \E X : OnlyAt(X) /\ \A x \in X : ClearOf(x)
<1>1. CASE UNCHANGED there
  <2>1. OnlyAt({}) /\ \A x \in {} : ClearOf(x)
    BY <1>1, Unchanging DEF ReplaceInv
  <2> QED BY <2>1
<1>2. CASE pc[j] \in Renaming \cup {"stream"} /\ there' = Removed(there, Temporary(j))
  <2>1. PathsAreSequences /\ ClearOf(Temporary(j))
    BY <1>2, RenamingFacts DEF Renaming
  <2>2. OnlyAt({Temporary(j)}) /\ \A x \in {Temporary(j)} : ClearOf(x)
    BY <1>2, <2>1, Removing
  <2> QED BY <2>2
<1>3. CASE /\ pc[j] = "movein" /\ ~Exists(there, Target(j))
           /\ there' = Removed(Renamed(there, work[j].aside, Target(j)), Temporary(j))
  <2> DEFINE back == Renamed(there, work[j].aside, Target(j))
             X == {work[j].aside, Target(j), Temporary(j)}
  <2>1. PathsAreSequences /\ ClearOf(Temporary(j)) /\ ClearOf(Target(j)) /\ Agreement(j)
        /\ IsSequence(Target(j))
    BY <1>3, RenamingFacts DEF Renaming
  <2>2. ClearOf(work[j].aside) /\ IsSequence(work[j].aside)
    BY <1>3, <2>1 DEF Agreement, TemporariesAreClear, ClearOf
  <2>3. /\ \A p \in DOMAIN back : IsSequence(p)
        /\ \A q \in DOMAIN there : ~IsPrefix(work[j].aside, q) /\ ~IsPrefix(Target(j), q)
             => q \in DOMAIN back /\ back[q] = there[q]
    BY <2>1, <2>2, RenamingKeeps DEF PathsAreSequences
  <2>4. there' = Removed(back, Temporary(j))
    BY <1>3
  <2> HIDE DEF back
  <2>5. OnlyAt(X)
    BY <2>3, <2>4 DEF OnlyAt, PathsAreSequences, Removed, Restrict, Within
  <2>6. \A x \in X : ClearOf(x)
    BY <2>1, <2>2
  <2> HIDE DEF X
  <2> QED BY <2>5, <2>6
<1>4. Fail(j) => \/ UNCHANGED there
                 \/ pc[j] = "stream" /\ there' = Removed(there, Temporary(j))
                 \/ pc[j] \in Renaming /\ \E kept \in PutBack(j) : there'
                      = Removed(kept, Temporary(j))
  BY DEF Fail, WithoutTemporary
<1>5. Drop(j) \/ Cancel(j) \/ Abandon(j) =>
        UNCHANGED there \/ (pc[j] = "stream" /\ there' = Removed(there, Temporary(j)))
  BY DEF Drop, Cancel, Abandon, WithoutTemporary
<1>6. \A kept \in PutBack(j) :
        \/ kept = there
        \/ /\ pc[j] = "movein" /\ ~Exists(there, Target(j))
           /\ kept = Renamed(there, work[j].aside, Target(j))
  BY DEF PutBack
<1> QED BY <1>1, <1>2, <1>3, <1>4, <1>5, <1>6

\* A refusal, a lost connection, cancelling.
LEMMA EndReplacing ==
  ASSUME ReplaceInv, NEW j \in Jobs, Fail(j) \/ Drop(j) \/ Cancel(j) \/ Abandon(j)
  PROVE  ReplaceInv'
<1>1. StepOf(j) /\ Tables /\ Records(j) /\ IndInv /\ LeftoversAreClear(j)
  BY DEF StepOf, ReplaceInv, IndInv, JobInv, Agreement
<1>2. PICK X : OnlyAt(X) /\ \A x \in X : ClearOf(x)
  BY EndingChanges
<1>3. pc'[j] \notin Targeting
  <2>1. \E outcome \in {"idle", "over"} : Goto(j, outcome)
    BY DEF Fail, Drop, Cancel, Abandon, EndsWith
  <2> QED BY <1>1, <2>1 DEF Goto, Tables, Targeting, HasTemporary, Renaming
<1>4. LeftoversAreClear(j)'
  <2>1. CASE UNCHANGED ledger
    BY <1>1, <2>1, OldLeftovers
  <2>2. CASE /\ pc[j] \in {"stream", "renamed"} \cup Renaming
             /\ Note(j, "leftovers", ledger[j].leftovers \cup {Temporary(j)})
    <3>1. ClearOf(Temporary(j)) /\ Remembers
      BY <1>1, <2>2, RenamingFacts, Witnesses DEF Renaming, ReplaceInv
    <3>2. ledger'[j].leftovers = ledger[j].leftovers \cup {Temporary(j)}
      BY <1>1, <2>2 DEF Note, Tables, Records
    <3>3. \A x \in ledger'[j].leftovers : ClearOf(x)
      BY <1>1, <3>1, <3>2 DEF LeftoversAreClear
    <3> QED BY <3>1, <3>3, ClearStays DEF LeftoversAreClear
  <2> QED BY <2>1, <2>2 DEF Fail, Drop, Cancel, Abandon
<1> QED BY <1>1, <1>2, <1>3, <1>4, RestingStep

-----------------------------------------------------------------------------
\* No job has begun, and what is there is what was there before.
LEMMA ReplacingInitially == Init => ReplaceInv
<1> SUFFICES ASSUME Init PROVE ReplaceInv
  OBVIOUS
<1>1. there \in Befores /\ seen = [NothingSeen EXCEPT !.before = there]
  BY DEF Init
<1>2. History /\ seen.before = there
  BY <1>1 DEF History, NothingSeen
<1>3. PathsAreSequences
  BY <1>1, BeforeAssumption DEF PathsAreSequences, IsSequence
<1>4. OldStays
  BY <1>2, OldPaths DEF OldStays, InPlace, OldFiles
<1>5. ASSUME NEW j \in Jobs PROVE Agreement(j)
  <2>1. pc[j] = "idle" /\ ledger[j] = NewLedger
    BY DEF Init
  <2> QED BY <2>1 DEF Agreement, Consent, TemporariesAreClear, LeftoversAreClear, NewLedger,
                     Targeting, HasTemporary, Renaming
<1> QED BY <1>2, <1>3, <1>4, <1>5, Initially DEF ReplaceInv

\* Every step of every job.
LEMMA ReplacingNext == ReplaceInv /\ [Next]_vars => ReplaceInv'
<1> SUFFICES ASSUME ReplaceInv, [Next]_vars PROVE ReplaceInv'
  OBVIOUS
<1>1. CASE UNCHANGED vars
  <2>1. IndInv'
    BY <1>1, NextStep DEF ReplaceInv
  <2>2. UNCHANGED <<there, pc, work, ledger, seen>>
    BY <1>1 DEF vars, jobVars
  <2>3. History' /\ PathsAreSequences' /\ OldStays'
    BY <2>2 DEF ReplaceInv, History, PathsAreSequences, OldStays, OldFiles, Covered, InPlace,
       ToReplace
  <2>4. \A j \in Jobs : Agreement(j)'
    BY <2>2 DEF ReplaceInv, Agreement, Consent, TemporariesAreClear, LeftoversAreClear, ClearOf,
                OldFiles, Covered, ToReplace, Target, Item, Temporary
  <2> QED BY <2>1, <2>3, <2>4 DEF ReplaceInv
<1>2. ASSUME NEW j \in Jobs, StepOf(j) PROVE ReplaceInv'
  <2>1. CASE Walk(j)
    BY <2>1, BeginReplacing, WalkReplacing, ChooseReplacing, ClearTargetReplacing,
       MakeFolderReplacing DEF Walk
  <2>2. CASE Place(j)
    BY <2>2, LooksReplacing, PlaceAgainReplacing, PlaceStandingReplacing DEF Place
  <2>3. CASE Stage(j)
    <3>1. StandingPartial(j) => HandlePartial(j, sticky[j].partial)
      BY DEF StandingPartial
    <3> QED BY <1>2, <2>3, <3>1, StageHiddenReplacing, StagePartialReplacing,
               HandlePartialReplacing, WritingReplacing DEF Stage
  <2>4. CASE Copy(j)
    BY <2>4, WritingReplacing, LookReplacing, RenameReplacing, SetAsideReplacing, CopiedReplacing
    DEF Copy
  <2>5. CASE UserAnswers(j)
    BY <1>2, <2>5, AnswerReplacing, HandlePartialReplacing DEF UserAnswers, AnswerPartial
  <2>6. CASE Fail(j) \/ Drop(j) \/ Cancel(j) \/ Abandon(j)
    BY <2>6, EndReplacing
  <2> QED BY <1>2, <2>1, <2>2, <2>3, <2>4, <2>5, <2>6 DEF StepOf
<1> QED BY <1>1, <1>2 DEF Next, StepOf

\* Files nobody agreed to replace stay.
THEOREM NothingIsReplacedUnasked == Spec => []ReplacedWhenAgreed
<1>1. ReplaceInv => ReplacedWhenAgreed
  BY DEF ReplaceInv, OldStays, Covered, InPlace, ReplacedWhenAgreed, Survives
<1> QED BY <1>1, ReplacingInitially, ReplacingNext, PTL DEF Spec

-----------------------------------------------------------------------------
(* Jobs that pick files: everything a job touches lies in the target       *)
(* folder itself, and not below.                                           *)

FilesOnly == Walked = {}

\* A path of one step.
AtTop(p, kinds) == IsSequence(p) /\ Len(p) = 1 /\ p[1].kind \in kinds

TempName(j, n) == <<Hidden("temp", <<j, n>>)>>
OldName(j, n) == <<Hidden("old", <<j, n>>)>>
Holding == HasTemporary \cup {"renamed"}

\* Where a job's names are, and which of them are its own.
OwnNames(j) ==
  pc[j] \in Holding =>
    /\ AtTop(Temporary(j), {"temp", "filepart"})
    /\ IsPartial(j) \/ Temporary(j) = TempName(j, ledger[j].attempts)
DecidedAtTop(d) == d.do = "rename" => AtTop(d.to, {"proper"})
FlatWalk(j) == pc[j] \notin {"idle", "over"} => Len(walk[j]) = 1 /\ Top(j).into = <<>>
FlatWork(j) ==
  /\ pc[j] \notin {"clear", "mkdir", "list"}
  /\ pc[j] \in Targeting => AtTop(Target(j), {"proper"})
  /\ OwnNames(j)
  /\ pc[j] \in {"movein", "cleanup"} => work[j].aside = OldName(j, ledger[j].attempts)
  /\ DecidedAtTop(work[j].earlier)
FlatBooks(j) ==
  /\ ledger[j].attempts \in Nat
  /\ \A q \in ledger[j].leftovers : \E n \in 0 .. ledger[j].attempts : q = TempName(j, n)
  /\ \A i \in DOMAIN ledger[j].decided : DecidedAtTop(ledger[j].decided[i])
  /\ \A q \in ledger[j].partials : AtTop(q, {"filepart"})
FlatJob(j) == FlatWalk(j) /\ FlatWork(j) /\ FlatBooks(j)

\* What is below something is below a folder that is there.
IsEntry(e) == DOMAIN e = {"kind", "data", "time", "by"} /\ IsSequence(e.data)
IsTree(folder) ==
  \A q \in DOMAIN folder :
    /\ IsSequence(q) /\ q # <<>> /\ IsEntry(folder[q])
    /\ Len(q) > 1 => IsFolder(folder, <<q[1]>>) /\ q[1].kind # "temp"

FlatTables ==
  /\ IsTree(there)
  /\ \A p \in DOMAIN claims : AtTop(p, {"filepart"})
  /\ \A r \in ToReplace : AtTop(r, {"proper"})
FlatInv == FlatTables /\ \A j \in Jobs : FlatJob(j)

\* All of one source, or resumed onto something else.
Sound(e) == e.data # <<>> /\ (Last(e.data) \in seen.spliced \/ e.data = Whole(Last(e.data)))

EntriesIn(folder) ==
  \A q \in DOMAIN folder :
    folder[q].by \in Jobs =>
      /\ Len(q) = 1
      /\ q[1].kind \in {"proper", "old"} => Sound(folder[q])
      /\ q[1].kind = "filepart" /\ Len(folder[q].data) = 2 => Sound(folder[q])
Entries == EntriesIn(there)

\* What a job takes up again is a job's, and what it writes is its item.
Uniform(j) ==
  LET data == there[Temporary(j)].data IN \A n \in 1 .. Len(data) : data[n] = Item(j)
Resumed(j) ==
  LET e == there[Temporary(j)] IN
  Item(j) \in Big \cap seen.spliced /\ (Len(e.data) = 2 => Sound(e))
Contents(j) ==
  /\ \A q \in ledger[j].partials \cap DOMAIN there : there[q].by \in Jobs
  /\ pc[j] \in {"askpartial", "discard", "resume"} =>
       Item(j) \in Big /\ Temporary(j)[1].kind = "filepart"
  /\ pc[j] \in {"askpartial", "resume"} /\ Exists(there, Temporary(j)) =>
       /\ Have(j) \in 1 .. 2
       /\ Have(j) = 2 => there[Temporary(j)].by \in Jobs
  /\ pc[j] = "stream" /\ Exists(there, Temporary(j)) =>
       /\ there[Temporary(j)].by = j /\ work[j].offset = Have(j)
       /\ Uniform(j) \/ Resumed(j)
  /\ pc[j] \in Renaming /\ Exists(there, Temporary(j)) => Sound(there[Temporary(j)])
WholeInv == Entries /\ \A j \in Jobs : Contents(j)

\* The old file is in its place, or aside under a name nobody uses any more.
Swap(q, e) == <<e>> \o SubSeq(q, 2, Len(q))
Holds(q, p) == q \in DOMAIN there /\ there[q].data = seen.before[p].data
Finishing(j, p) == \/ pc[j] \in {"idle", "over"}
                   \/ pc[j] = "movein" /\ Target(j) = <<p[1]>>
Aside(p) ==
  \E j \in Jobs : \E n \in 0 .. ledger[j].attempts :
    /\ Holds(Swap(p, OldName(j, n)[1]), p)
    /\ n = ledger[j].attempts => Finishing(j, p)
Kept(p) == Holds(p, p) \/ Aside(p) \/ <<p[1]>> \in ToReplace \cap seen.filled
KeptInv == /\ \A p \in OldFiles : Kept(p)
           /\ \A j \in Jobs : pc[j] = "movein" => Target(j) \in ToReplace

-----------------------------------------------------------------------------
(* Paths of one step, and renames among them.                              *)

\* A path of one step, as a sequence.
LEMMA OneStep ==
  ASSUME NEW e
  PROVE  /\ IsSequence(<<e>>) /\ Len(<<e>>) = 1 /\ <<e>>[1] = e /\ <<e>> # <<>>
         /\ Last(<<e>>) = e /\ Front(<<e>>) = <<>> /\ Append(<<>>, e) = <<e>>
<1>1. <<e>> \in Seq({e}) /\ Len(<<e>>) = 1 /\ <<e>>[1] = e /\ <<e>> # <<>>
  OBVIOUS
<1>2. SubSeq(<<e>>, 1, 0) = <<>>
  BY <1>1, SubSeqEmpty
<1>3. IsSequence(<<e>>)
  BY <1>1, Sequences
<1>4. Append(<<>>, e) = <<e>>
  OBVIOUS
<1>5. Last(<<e>>) = e
  BY <1>1 DEF Last
<1>6. Front(<<e>>) = <<>>
  BY <1>1, <1>2 DEF Front
<1> QED BY <1>1, <1>3, <1>4, <1>5, <1>6

\* What is at the top is its first step, and what is beside it is at the top too.
LEMMA TopPath ==
  ASSUME NEW p, NEW kinds, AtTop(p, kinds)
  PROVE  /\ p = <<p[1]>> /\ IsSequence(p) /\ p # <<>> /\ Last(p) = p[1] /\ Front(p) = <<>>
         /\ p[1].kind \in kinds /\ \A e : Beside(p, e) = <<e>>
<1>1. p \in Seq(Range(p)) /\ Len(p) = 1 /\ <<p[1]>> \in Seq({p[1]}) /\ Len(<<p[1]>>) = 1
  BY DEF AtTop, IsSequence
<1>2. p = <<p[1]>>
  BY <1>1
<1>3. Last(p) = p[1] /\ Front(p) = <<>> /\ p # <<>>
  BY <1>2, OneStep
<1> QED BY <1>2, <1>3, OneStep DEF AtTop, Beside

\* What a path of one step is.
LEMMA TopOf == ASSUME NEW e, NEW kinds PROVE AtTop(<<e>>, kinds) <=> e.kind \in kinds
BY OneStep DEF AtTop

\* Below what is at the top is what begins with it.
LEMMA TopPrefix ==
  ASSUME NEW e, NEW q, IsSequence(q), q # <<>>
  PROVE  IsPrefix(<<e>>, q) <=> q[1] = e
<1>1. Len(q) \in Nat /\ Len(q) # 0
  BY LenProperties, EmptySeq DEF IsSequence
<1>2. IsPrefix(<<e>>, q) <=> Len(<<e>>) <= Len(q) /\ \A n \in 1 .. Len(<<e>>) : <<e>>[n] = q[n]
  BY PrefixByElement, OneStep
<1> QED BY <1>1, <1>2, OneStep

\* A path with another first step.
LEMMA SwapFacts ==
  ASSUME NEW q, IsSequence(q), q # <<>>, NEW e
  PROVE  /\ IsSequence(Swap(q, e)) /\ Swap(q, e) # <<>> /\ Swap(q, e)[1] = e
         /\ Len(Swap(q, e)) = Len(q) /\ Len(q) \in Nat
         /\ \A f : Swap(Swap(q, e), f) = Swap(q, f)
         /\ Swap(q, q[1]) = q
         /\ Len(q) = 1 => q = <<q[1]>> /\ Swap(q, e) = <<e>>
<1> DEFINE S == Range(q)
<1>1. q \in Seq(S) /\ Len(q) \in Nat /\ Len(q) # 0 /\ q \in [1 .. Len(q) -> S]
  BY LenProperties, EmptySeq DEF IsSequence
<1> HIDE DEF S
<1>2. /\ SubSeq(q, 2, Len(q)) \in Seq(S) /\ Len(SubSeq(q, 2, Len(q))) = Len(q) - 1
      /\ \A n \in 1 .. Len(q) - 1 : SubSeq(q, 2, Len(q))[n] = q[n + 1]
  <2>1. \A i \in 2 .. Len(q) : q[i] \in S
    BY <1>1
  <2>2. /\ SubSeq(q, 2, Len(q)) \in Seq(S)
        /\ Len(SubSeq(q, 2, Len(q))) = IF 2 <= Len(q) THEN Len(q) - 2 + 1 ELSE 0
        /\ \A i \in 1 .. Len(q) - 2 + 1 : SubSeq(q, 2, Len(q))[i] = q[2 + i - 1]
    BY <1>1, <2>1, SubSeqProperties
  <2> QED BY <1>1, <2>2
<1>3. ASSUME NEW f
      PROVE  /\ IsSequence(Swap(q, f)) /\ Len(Swap(q, f)) = Len(q) /\ Swap(q, f)[1] = f
             /\ \A n \in 2 .. Len(q) : Swap(q, f)[n] = q[n]
  <2> DEFINE R == {f} \cup S
             rest == SubSeq(q, 2, Len(q))
  <2>1. <<f>> \in Seq(R) /\ rest \in Seq(R) /\ Len(<<f>>) = 1 /\ <<f>>[1] = f
    BY <1>2, SeqMonotonic
  <2> HIDE DEF R, rest
  <2>2. /\ <<f>> \o rest \in Seq(R) /\ Len(<<f>> \o rest) = Len(<<f>>) + Len(rest)
        /\ \A i \in 1 .. Len(<<f>>) + Len(rest) :
             (<<f>> \o rest)[i] = IF i <= Len(<<f>>) THEN <<f>>[i] ELSE rest[i - Len(<<f>>)]
    BY <2>1, ConcatProperties
  <2>3. Len(rest) = Len(q) - 1 /\ \A n \in 1 .. Len(q) - 1 : rest[n] = q[n + 1]
    BY <1>2 DEF rest
  <2>4. IsSequence(<<f>> \o rest)
    BY <2>2, Sequences
  <2>5. Len(<<f>> \o rest) = Len(q) /\ (<<f>> \o rest)[1] = f
    <3>1. 1 \in 1 .. Len(<<f>>) + Len(rest) /\ 1 <= Len(<<f>>)
      BY <1>1, <2>1, <2>3
    <3>2. Len(<<f>>) + Len(rest) = Len(q)
      BY <1>1, <2>1, <2>3
    <3> QED BY <2>1, <2>2, <3>1, <3>2
  <2>6. ASSUME NEW n \in 2 .. Len(q) PROVE (<<f>> \o rest)[n] = q[n]
    <3>1. n \in 1 .. Len(<<f>>) + Len(rest) /\ ~(n <= Len(<<f>>)) /\ n - Len(<<f>>) = n - 1
          /\ n - 1 \in 1 .. Len(q) - 1 /\ n - 1 + 1 = n
      BY <1>1, <2>1, <2>3
    <3>2. (<<f>> \o rest)[n] = rest[n - 1] /\ rest[n - 1] = q[n - 1 + 1]
      BY <2>2, <2>3, <3>1
    <3> QED BY <3>1, <3>2
  <2> QED BY <2>4, <2>5, <2>6 DEF Swap, rest
<1>4. ASSUME NEW s, NEW t, IsSequence(s), IsSequence(t), Len(s) = Len(t),
             \A n \in 1 .. Len(s) : s[n] = t[n]
      PROVE  s = t
  <2>1. s \in Seq(Range(s) \cup Range(t)) /\ t \in Seq(Range(s) \cup Range(t))
    BY <1>4, SeqMonotonic DEF IsSequence
  <2> QED BY <1>4, <2>1, SeqEqual
<1>5. Swap(q, e) # <<>>
  BY <1>1, <1>3, EmptySeq
<1>6. ASSUME NEW f PROVE Swap(Swap(q, e), f) = Swap(q, f)
  <2> DEFINE r == Swap(q, e)
  <2>1. IsSequence(r) /\ Len(r) = Len(q) /\ \A n \in 2 .. Len(q) : r[n] = q[n]
    BY <1>3
  <2> HIDE DEF r
  <2>2. SubSeq(r, 2, Len(r)) = SubSeq(q, 2, Len(q))
    <3>1. Len(r) \in Nat /\ \A i \in 2 .. Len(r) : r[i] \in S
      BY <1>1, <2>1
    <3>2. /\ SubSeq(r, 2, Len(r)) \in Seq(S)
          /\ Len(SubSeq(r, 2, Len(r))) = IF 2 <= Len(r) THEN Len(r) - 2 + 1 ELSE 0
          /\ \A i \in 1 .. Len(r) - 2 + 1 : SubSeq(r, 2, Len(r))[i] = r[2 + i - 1]
      BY <3>1, SubSeqProperties
    <3>3. /\ SubSeq(r, 2, Len(r)) \in Seq(S)
          /\ Len(SubSeq(r, 2, Len(r))) = Len(q) - 1
          /\ \A i \in 1 .. Len(q) - 1 : SubSeq(r, 2, Len(r))[i] = q[i + 1]
      BY <1>1, <2>1, <3>2
    <3> QED BY <1>2, <3>3, SeqEqual
  <2> QED BY <2>2 DEF Swap, r
<1>7. Swap(q, q[1]) = q
  <2>1. \A n \in 1 .. Len(q) : Swap(q, q[1])[n] = q[n]
    BY <1>1, <1>3
  <2> QED BY <1>3, <1>4, <2>1
<1>8. ASSUME Len(q) = 1 PROVE q = <<q[1]>> /\ Swap(q, e) = <<e>>
  <2>1. IsSequence(<<q[1]>>) /\ Len(<<q[1]>>) = 1 /\ <<q[1]>>[1] = q[1]
        /\ IsSequence(<<e>>) /\ Len(<<e>>) = 1 /\ <<e>>[1] = e
    BY OneStep
  <2> QED BY <1>3, <1>4, <1>8, <2>1
<1> QED BY <1>1, <1>3, <1>5, <1>6, <1>7, <1>8

Paths(folder) == \A p \in DOMAIN folder : IsSequence(p) /\ p # <<>>

\* remove, at the top.
LEMMA RemovedTop ==
  ASSUME NEW folder, Paths(folder), NEW e
  PROVE  LET after == Removed(folder, <<e>>) IN
         /\ DOMAIN after = {q \in DOMAIN folder : q[1] # e}
         /\ \A q \in DOMAIN after : after[q] = folder[q]
<1>1. \A q \in DOMAIN folder : IsPrefix(<<e>>, q) <=> q[1] = e
  BY TopPrefix DEF Paths
<1> QED BY <1>1 DEF Removed, Restrict, Within

\* rename, at the top: what was in a, or below it, is in b.
RenameOf(folder, a, b, after) ==
  /\ Paths(after)
  /\ \A q \in DOMAIN after :
       /\ q[1] # a
       /\ q[1] = b => Swap(q, a) \in DOMAIN folder /\ after[q] = folder[Swap(q, a)]
       /\ q[1] # b => q \in DOMAIN folder /\ after[q] = folder[q]
  /\ \A q \in DOMAIN folder :
       /\ q[1] = a => Swap(q, b) \in DOMAIN after /\ after[Swap(q, b)] = folder[q]
       /\ q[1] \notin {a, b} => q \in DOMAIN after /\ after[q] = folder[q]

\* rename, at the top, does that.
LEMMA RenamedTop ==
  ASSUME NEW folder, Paths(folder), NEW a, NEW b, a # b
  PROVE  RenameOf(folder, a, b, Renamed(folder, <<a>>, <<b>>))
<1> DEFINE rest(p) == SubSeq(p, Len(<<a>>) + 1, Len(p))
           moved == {<<b>> \o rest(p) : p \in Within(folder, <<a>>)}
           kept == DOMAIN folder \ (Within(folder, <<a>>) \cup Within(folder, <<b>>))
           after == Renamed(folder, <<a>>, <<b>>)
           entry(p) == IF p \in moved
                       THEN folder[<<a>> \o SubSeq(p, Len(<<b>>) + 1, Len(p))] ELSE folder[p]
<1>1. after = [p \in kept \cup moved |-> entry(p)]
  BY DEF Renamed
<1>2. \A q \in DOMAIN folder : /\ q \in Within(folder, <<a>>) <=> q[1] = a
                               /\ q \in Within(folder, <<b>>) <=> q[1] = b
  BY TopPrefix DEF Within, Paths
<1>3. \A q \in kept : q \in DOMAIN folder /\ q[1] \notin {a, b}
  BY <1>2
<1>4. \A p \in Within(folder, <<a>>) : /\ p \in DOMAIN folder /\ p[1] = a
                                       /\ <<b>> \o rest(p) = Swap(p, b)
  <2>1. ASSUME NEW p \in Within(folder, <<a>>)
        PROVE  p \in DOMAIN folder /\ p[1] = a /\ <<b>> \o rest(p) = Swap(p, b)
    <3>1. p \in DOMAIN folder /\ IsSequence(p) /\ p # <<>>
      BY DEF Within, Paths
    <3>2. Len(<<a>>) + 1 = 2
      BY OneStep
    <3>3. <<b>> \o rest(p) = Swap(p, b)
      BY <3>2 DEF Swap
    <3> QED BY <1>2, <3>1, <3>3
  <2> QED BY <2>1
<1>5. \A q \in moved : /\ q # <<>> /\ IsSequence(q) /\ q[1] = b /\ Swap(q, a) \in DOMAIN folder
                       /\ entry(q) = folder[Swap(q, a)]
  <2>1. ASSUME NEW p \in Within(folder, <<a>>), NEW q, q = <<b>> \o rest(p)
        PROVE  /\ q # <<>> /\ IsSequence(q) /\ q[1] = b /\ Swap(q, a) \in DOMAIN folder
               /\ folder[<<a>> \o SubSeq(q, Len(<<b>>) + 1, Len(q))] = folder[Swap(q, a)]
    <3>1. p \in DOMAIN folder /\ p[1] = a /\ q = Swap(p, b) /\ IsSequence(p) /\ p # <<>>
      BY <1>4, <2>1 DEF Paths
    <3>2. q # <<>> /\ IsSequence(q) /\ q[1] = b /\ Swap(q, a) = p
      BY <3>1, SwapFacts
    <3>3. Len(<<b>>) + 1 = 2
      BY OneStep
    <3>4. <<a>> \o SubSeq(q, Len(<<b>>) + 1, Len(q)) = Swap(q, a)
      BY <3>3 DEF Swap
    <3> QED BY <3>1, <3>2, <3>4
  <2> QED BY <2>1
<1>6. \A p \in DOMAIN folder : p[1] = a => Swap(p, b) \in moved /\ Swap(Swap(p, b), a) = p
  <2>1. ASSUME NEW p \in DOMAIN folder, p[1] = a
        PROVE  Swap(p, b) \in moved /\ Swap(Swap(p, b), a) = p
    <3>1. p \in Within(folder, <<a>>) /\ IsSequence(p) /\ p # <<>>
      BY <1>2, <2>1 DEF Paths
    <3>2. Swap(Swap(p, b), a) = Swap(p, a) /\ Swap(p, p[1]) = p
      BY <3>1, SwapFacts
    <3> QED BY <1>4, <2>1, <3>1, <3>2
  <2> QED BY <2>1
<1>7. \A q \in kept : entry(q) = folder[q] /\ IsSequence(q) /\ q # <<>>
  BY <1>3, <1>5 DEF Paths
<1>8. \A q \in DOMAIN folder : q[1] \notin {a, b} => q \in kept
  BY <1>2
<1> HIDE DEF moved, kept, entry, after
<1>9. RenameOf(folder, a, b, after)
  BY <1>1, <1>3, <1>5, <1>6, <1>7, <1>8 DEF Paths, RenameOf
<1> QED BY <1>9 DEF after

-----------------------------------------------------------------------------
(* A job stays at the top.                                                 *)

\* A walk that does not change.
LEMMA WalkStays ==
  ASSUME NEW j \in Jobs, FlatWalk(j), pc[j] \notin {"idle", "over"}, UNCHANGED walk
  PROVE  FlatWalk(j)'
BY DEF FlatWalk, Top

\* A sequence of one element, and another in its place.
LEMMA OneLong ==
  ASSUME NEW s, IsSequence(s), Len(s) = 1
  PROVE  s = <<s[1]>> /\ Last(s) = s[1] /\ s # <<>> /\ \A e : ReplaceLast(s, e) = <<e>>
<1>1. AtTop(s, {s[1].kind})
  BY DEF AtTop
<1>2. s = <<s[1]>> /\ Front(s) = <<>> /\ Last(s) = s[1] /\ s # <<>>
  BY <1>1, TopPath
<1> QED BY <1>2, OneStep DEF ReplaceLast

\* An item is settled: the walk goes on where it was.
LEMMA WalkSettles ==
  ASSUME IndInv, NEW j \in Jobs, NEW stack, IsWalk(stack), Len(stack) = 1,
         Last(stack).into = <<>>, NEW done, Settle(j, stack, done)
  PROVE  FlatWalk(j)' /\ pc'[j] = "walk" /\ work'[j] = NoWork
<1> DEFINE frame == [Last(stack) EXCEPT !.complete = @ /\ done]
<1>1. Tables /\ IsSequence(stack) /\ IsFrame(Last(stack))
  BY OneLong, StackOperations DEF IndInv, IsWalk
<1>2. frame.into = <<>>
  BY <1>1 DEF IsFrame
<1>3. walk' = [walk EXCEPT ![j] = ReplaceLast(stack, frame)]
  BY DEF Settle
<1>4. ReplaceLast(stack, frame) = <<frame>>
  BY <1>1, OneLong
<1> HIDE DEF frame
<1>5. walk'[j] = <<frame>> /\ Len(walk'[j]) = 1 /\ Last(walk'[j]) = frame
  BY <1>1, <1>3, <1>4, OneStep DEF Tables
<1> QED BY <1>1, <1>2, <1>5 DEF FlatWalk, Top, Settle, Goto, Tables

\* An attempt ends with no walk and nothing at hand.
LEMMA WalkEnds ==
  ASSUME IndInv, NEW j \in Jobs, NEW outcome \in {"idle", "over"}, EndsWith(j, outcome)
  PROVE  FlatWalk(j)' /\ pc'[j] = outcome /\ work'[j] = NoWork
BY DEF IndInv, Tables, EndsWith, Goto, FlatWalk

\* Nothing is decided yet.
LEMMA NothingDecided == DecidedAtTop(NoWork.earlier) /\ DecidedAtTop(Undecided)
BY DEF DecidedAtTop, NoWork, Undecided, None

\* A job that has nothing at hand.
LEMMA RestingFlat ==
  ASSUME NEW j \in Jobs, FlatWalk(j)', FlatBooks(j)', DecidedAtTop(work'[j].earlier),
         pc'[j] \notin Targeting
  PROVE  FlatJob(j)'
BY DEF FlatJob, FlatWork, OwnNames, Holding, Targeting, HasTemporary, Renaming

\* A job that has a target and writes to nothing yet.
LEMMA AimingFlat ==
  ASSUME NEW j \in Jobs, FlatWalk(j)', FlatBooks(j)', DecidedAtTop(work'[j].earlier),
         pc'[j] \in {"place", "ask", "stage"}, AtTop(work'[j].target, {"proper"})
  PROVE  FlatJob(j)'
BY DEF FlatJob, FlatWork, OwnNames, Holding, HasTemporary, Renaming, Target

\* Its books.
LEMMA BooksStay ==
  ASSUME NEW j \in Jobs, FlatBooks(j), ledger'[j] = ledger[j]
  PROVE  FlatBooks(j)'
BY DEF FlatBooks

\* What is noted is at the top as well.
LEMMA BooksNoted ==
  ASSUME IndInv, NEW j \in Jobs, FlatBooks(j), NEW value,
         \/ Note(j, "moved", value)
         \/ Note(j, "partials", value) /\ \A q \in value : AtTop(q, {"filepart"})
         \/ /\ Note(j, "leftovers", value)
            /\ \A q \in value : q \in ledger[j].leftovers \/ q = TempName(j, ledger[j].attempts)
  PROVE  FlatBooks(j)' /\ ledger'[j].attempts = ledger[j].attempts
<1> Tables /\ Records(j)
  BY DEF IndInv, JobInv
<1>1. CASE Note(j, "moved", value)
  <2>1. ledger'[j] = [ledger[j] EXCEPT !["moved"] = value]
    BY <1>1 DEF Note, Tables
  <2> QED BY <2>1 DEF Records, FlatBooks
<1>2. CASE Note(j, "partials", value) /\ \A q \in value : AtTop(q, {"filepart"})
  <2>1. ledger'[j] = [ledger[j] EXCEPT !["partials"] = value]
    BY <1>2 DEF Note, Tables
  <2> QED BY <1>2, <2>1 DEF Records, FlatBooks
<1>3. CASE /\ Note(j, "leftovers", value)
           /\ \A q \in value : q \in ledger[j].leftovers \/ q = TempName(j, ledger[j].attempts)
  <2>1. ledger'[j] = [ledger[j] EXCEPT !["leftovers"] = value]
    BY <1>3 DEF Note, Tables
  <2>2. ledger'[j].attempts = ledger[j].attempts /\ ledger'[j].leftovers = value
        /\ ledger'[j].decided = ledger[j].decided /\ ledger'[j].partials = ledger[j].partials
    BY <2>1 DEF Records
  <2>3. ledger[j].attempts \in 0 .. ledger[j].attempts
    BY DEF FlatBooks
  <2> QED BY <1>3, <2>2, <2>3 DEF FlatBooks
<1> QED BY <1>1, <1>2, <1>3

\* The decision is one on a name at the top.
LEMMA FollowFlat ==
  ASSUME FilesOnly, IndInv, NEW j \in Jobs, FlatJob(j), pc[j] \in {"place", "ask"},
         NEW decision, IsDecision(decision), DecidedAtTop(decision),
         NEW book, DOMAIN book = DOMAIN NewLedger, book.attempts = ledger[j].attempts,
         book.leftovers = ledger[j].leftovers, book.partials = ledger[j].partials,
         \A i \in DOMAIN book.decided : DecidedAtTop(book.decided[i]),
         Follow(j, decision, book)
  PROVE  FlatJob(j)'
<1>1. Tables /\ Records(j) /\ IsWalk(walk[j]) /\ IsSequence(walk[j]) /\ Len(walk[j]) = 1
      /\ Last(walk[j]).into = <<>> /\ AtTop(Target(j), {"proper"})
  BY DEF IndInv, JobInv, Walking, IsWalk, FlatJob, FlatWalk, FlatWork, Top, Targeting
<1>2. ASSUME ledger'[j] = book \/ \E written : ledger'[j] = [book EXCEPT !.written = written]
      PROVE  FlatBooks(j)'
  BY <1>2 DEF FlatJob, FlatBooks, NewLedger
<1>3. CASE decision.do = "overwrite"
  <2>1. PlaceAt(j, book, TRUE) /\ Item(j) \notin Walked
    BY <1>3 DEF Follow, FilesOnly
  <2>2. /\ pc'[j] = "stage" /\ work'[j].target = Target(j) /\ work'[j].earlier = Undecided
        /\ UNCHANGED walk /\ \E written : ledger'[j] = [book EXCEPT !.written = written]
    BY <1>1, <2>1 DEF PlaceAt, Goto, Tables, Records, Target
  <2> QED BY <1>1, <1>2, <2>2, WalkStays, AimingFlat, NothingDecided DEF FlatJob
<1>4. CASE decision.do = "skip"
  <2>1. Settle(j, walk[j], FALSE) /\ ledger'[j] = book
    BY <1>1, <1>4 DEF Follow, Tables
  <2>2. FlatWalk(j)' /\ pc'[j] = "walk" /\ work'[j] = NoWork
    BY <1>1, <2>1, WalkSettles
  <2> QED BY <1>2, <2>1, <2>2, RestingFlat, NothingDecided DEF Targeting, HasTemporary, Renaming
<1>5. CASE decision.do = "rename"
  <2>1. /\ pc'[j] = "place" /\ work'[j].target = decision.to /\ work'[j].earlier = Undecided
        /\ UNCHANGED walk /\ ledger'[j] = book
    BY <1>1, <1>5 DEF Follow, Goto, Tables, Records
  <2>2. AtTop(decision.to, {"proper"})
    BY <1>5 DEF DecidedAtTop
  <2> QED BY <1>2, <2>1, <2>2, WalkStays, AimingFlat, NothingDecided DEF FlatJob
<1> QED BY <1>3, <1>4, <1>5 DEF IsDecision

\* Every name that may be decided on is.
LEMMA FreeAtTop ==
  ASSUME NEW n PROVE AtTop(FirstFree(there, <<Proper(n)>>), {"proper"})
<1>1. \A m : AtTop(Beside(<<Proper(n)>>, CopyOf(Last(<<Proper(n)>>), m)), {"proper"})
  <2>1. AtTop(<<Proper(n)>>, {"proper"}) /\ Last(<<Proper(n)>>) = Proper(n)
    BY TopOf, OneStep DEF Proper
  <2>2. ASSUME NEW m PROVE CopyOf(Proper(n), m).kind = "proper"
    BY DEF CopyOf, Proper
  <2> QED BY <2>1, <2>2, TopPath, TopOf
<1> QED BY <1>1 DEF FirstFree

\* What is decided about an item at the top is at the top.
LEMMA DecisionsAtTop ==
  ASSUME NEW j \in Jobs, Top(j).into = <<>>, NEW answer \in {"overwrite", "skip", "rename", "type"},
         NEW decision \in Decisions(j, answer)
  PROVE  DecidedAtTop(decision)
<1>1. Base(j) = <<Proper(Stored[Item(j)])>>
  BY OneStep DEF Base
<1>2. DecidedAtTop(Overwrite) /\ DecidedAtTop(Skip)
  BY DEF DecidedAtTop, Overwrite, Skip
<1>3. \A path : AtTop(path, {"proper"}) => DecidedAtTop(RenameTo(path))
  BY DEF DecidedAtTop, RenameTo
<1>4. \A n : AtTop(Append(Top(j).into, Proper(n)), {"proper"})
  BY OneStep, TopOf DEF Proper
<1>5. AtTop(FirstFree(there, Base(j)), {"proper"})
  BY <1>1, FreeAtTop
<1>6. CASE answer = "overwrite"
  BY <1>2, <1>6 DEF Decisions
<1>7. CASE answer = "skip"
  BY <1>2, <1>7 DEF Decisions
<1>8. CASE answer = "rename"
  BY <1>3, <1>5, <1>8 DEF Decisions
<1>9. CASE answer = "type"
  <2>1. PICK n \in Typed : decision = RenameTo(Append(Top(j).into, Proper(n)))
    BY <1>9 DEF Decisions
  <2> QED BY <1>3, <1>4, <2>1
<1> QED BY <1>6, <1>7, <1>8, <1>9

\* The decision is kept for later attempts.
LEMMA DecideFlat ==
  ASSUME FilesOnly, IndInv, NEW j \in Jobs, FlatJob(j), pc[j] \in {"place", "ask"},
         NEW decision, IsDecision(decision), DecidedAtTop(decision), Decide(j, decision)
  PROVE  FlatJob(j)'
<1> DEFINE book == [ledger[j] EXCEPT !.decided = With(@, Item(j), decision)]
<1>1. Records(j) /\ FlatBooks(j)
  BY DEF IndInv, JobInv, FlatJob
<1>2. /\ DOMAIN book = DOMAIN NewLedger /\ book.decided = With(ledger[j].decided, Item(j), decision)
      /\ book.attempts = ledger[j].attempts /\ book.leftovers = ledger[j].leftovers
      /\ book.partials = ledger[j].partials
  BY <1>1 DEF Records, NewLedger
<1>3. \A i \in DOMAIN book.decided : DecidedAtTop(book.decided[i])
  BY <1>1, <1>2 DEF FlatBooks, With
<1>4. Follow(j, decision, book)
  BY DEF Decide
<1> HIDE DEF book
<1> QED BY <1>2, <1>3, <1>4, FollowFlat

\* What is known of a job, in one place.
LEMMA JobParts ==
  ASSUME IndInv, NEW j \in Jobs, FlatJob(j)
  PROVE  /\ Tables /\ Records(j) /\ DecisionsAreKept(j) /\ IsWalk(walk[j])
         /\ FlatWalk(j) /\ FlatBooks(j) /\ DecidedAtTop(work[j].earlier)
         /\ pc[j] \notin {"idle", "over"} =>
              /\ IsSequence(walk[j]) /\ Len(walk[j]) = 1 /\ Top(j).into = <<>> /\ IsFrame(Top(j))
BY StackOperations, OneLong
DEF IndInv, JobInv, Walking, IsWalk, FlatJob, FlatWork, FlatWalk, Top

\* Engine::run begins.
LEMMA BeginFlat == ASSUME IndInv, NEW j \in Jobs, FlatJob(j), Begin(j) PROVE FlatJob(j)'
<1>1. Tables /\ Records(j) /\ FlatBooks(j) /\ DecidedAtTop(work[j].earlier)
  BY JobParts
<1>2. PICK left :
        /\ pc'[j] = "walk" /\ work' = work /\ walk'[j] = <<Frame(None, <<>>, left, FALSE)>>
        /\ ledger'[j] = [ledger[j] EXCEPT !.leftovers = {}, !.attempts = @ + 1]
  BY <1>1 DEF Begin, Goto, Tables
<1>3. FlatWalk(j)'
  <2>1. Last(<<Frame(None, <<>>, left, FALSE)>>) = Frame(None, <<>>, left, FALSE)
        /\ Len(<<Frame(None, <<>>, left, FALSE)>>) = 1
    BY OneStep
  <2> QED BY <1>2, <2>1 DEF FlatWalk, Top, Frame
<1>4. FlatBooks(j)'
  <2>1. /\ ledger'[j].leftovers = {} /\ ledger'[j].attempts = ledger[j].attempts + 1
        /\ ledger'[j].decided = ledger[j].decided /\ ledger'[j].partials = ledger[j].partials
    BY <1>1, <1>2 DEF Records
  <2> QED BY <1>1, <2>1 DEF FlatBooks
<1> QED BY <1>1, <1>2, <1>3, <1>4, RestingFlat DEF Targeting, HasTemporary, Renaming

\* The walk.
LEMMA WalkFlat ==
  ASSUME FilesOnly, IndInv, NEW j \in Jobs, FlatJob(j), Walk(j)
  PROVE  FlatJob(j)'
<1>1. /\ Tables /\ Records(j) /\ FlatBooks(j) /\ FlatWalk(j) /\ DecidedAtTop(work[j].earlier)
      /\ IsWalk(walk[j])
      /\ pc[j] \notin {"idle", "over"} =>
              /\ IsSequence(walk[j]) /\ Len(walk[j]) = 1 /\ Top(j).into = <<>> /\ IsFrame(Top(j))
  BY JobParts
<1>2. CASE Begin(j)
  BY <1>2, BeginFlat
<1>3. CASE CannotBegin(j)
  <2>1. pc'[j] = "over" /\ UNCHANGED <<work, ledger>>
    BY <1>1, <1>3 DEF CannotBegin, Goto, Tables
  <2>2. FlatWalk(j)' /\ FlatBooks(j)'
    BY <1>1, <2>1, BooksStay DEF FlatWalk
  <2> QED BY <1>1, <2>1, <2>2, RestingFlat DEF Targeting, HasTemporary, Renaming
<1>4. CASE EnterFolder(j) \/ LeaveFolder(j) \/ ClearTarget(j) \/ MakeFolder(j)
  BY <1>1, <1>4 DEF EnterFolder, LeaveFolder, ClearTarget, MakeFolder, IsPick, FlatJob, FlatWork
<1>5. CASE Finish(j) \/ RemoveSource(j)
  <2>1. /\ pc'[j] \in {"done", "removed"} /\ pc[j] \notin {"idle", "over"}
        /\ UNCHANGED <<work, ledger, walk>>
    BY <1>1, <1>5 DEF Finish, RemoveSource, Goto, Tables
  <2>2. FlatWalk(j)' /\ FlatBooks(j)'
    BY <1>1, <2>1, BooksStay, WalkStays
  <2> QED BY <1>1, <2>1, <2>2, RestingFlat DEF Targeting, HasTemporary, Renaming
<1>6. CASE SourceRemoved(j)
  <2>1. pc[j] = "removed" /\ Settle(j, walk[j], TRUE) /\ \E value : Note(j, "moved", value)
    BY <1>6 DEF SourceRemoved, Finished
  <2>2. FlatWalk(j)' /\ pc'[j] = "walk" /\ work'[j] = NoWork /\ FlatBooks(j)'
    BY <1>1, <2>1, WalkSettles, BooksNoted DEF Top
  <2> QED BY <2>2, RestingFlat, NothingDecided DEF Targeting, HasTemporary, Renaming
<1>7. ASSUME NEW i \in Items, Choose(j, i) PROVE FlatJob(j)'
  <2> DEFINE frame == [Top(j) EXCEPT !.todo = @ \ {i}]
             stack == ReplaceLast(walk[j], frame)
  <2>1. pc[j] = "walk" /\ ledger' = ledger
    BY <1>7 DEF Choose
  <2>2. IsFrame(frame) /\ frame.into = <<>> /\ FlatBooks(j)'
    BY <1>1, <2>1, BooksStay DEF IsFrame
  <2>3. stack = <<frame>>
    BY <1>1, <2>1, OneLong
  <2>4. IsWalk(stack) /\ Len(stack) = 1 /\ Last(stack) = frame
    <3>1. IsWalk(stack)
      BY <1>1, <2>2, StackOperations
    <3> HIDE DEF frame
    <3> QED BY <2>3, <3>1, OneStep
  <2>5. CASE Handling[i] = "skip"
    <3>1. Settle(j, stack, FALSE)
      BY <1>7, <2>5 DEF Choose
    <3> HIDE DEF stack, frame
    <3>2. FlatWalk(j)' /\ pc'[j] = "walk" /\ work'[j] = NoWork
      BY <2>2, <2>4, <3>1, WalkSettles
    <3> QED BY <2>2, <3>2, RestingFlat, NothingDecided DEF Targeting, HasTemporary, Renaming
  <2>6. CASE Handling[i] # "skip"
    <3> DEFINE target == Append(Top(j).into, Proper(Stored[i]))
               earlier == IF i \in DOMAIN ledger[j].decided THEN ledger[j].decided[i]
                          ELSE Undecided
    <3>1. /\ pc'[j] = "place" /\ walk'[j] = stack
          /\ work'[j] = [NoWork EXCEPT !.item = i, !.target = target, !.earlier = earlier]
      BY <1>1, <1>7, <2>6 DEF Choose, Goto, Tables
    <3>2. AtTop(target, {"proper"})
      <4>1. target = <<Proper(Stored[i])>>
        BY <1>1, <2>1, OneStep
      <4>2. Proper(Stored[i]).kind = "proper"
        BY DEF Proper
      <4> QED BY <4>1, <4>2, TopOf
    <3>3. DecidedAtTop(earlier)
      BY <1>1, NothingDecided DEF FlatBooks
    <3> HIDE DEF target, earlier, stack, frame
    <3>4. FlatWalk(j)'
      BY <2>2, <2>4, <3>1 DEF FlatWalk, Top
    <3>5. work'[j].target = target /\ work'[j].earlier = earlier
      BY <3>1 DEF NoWork
    <3> QED BY <2>2, <3>1, <3>2, <3>3, <3>4, <3>5, AimingFlat
  <2> QED BY <2>5, <2>6
<1> QED BY <1>2, <1>3, <1>4, <1>5, <1>6, <1>7 DEF Walk

\* Where an item lands.
LEMMA PlaceFlat ==
  ASSUME FilesOnly, IndInv, NEW j \in Jobs, FlatJob(j), Place(j)
  PROVE  FlatJob(j)'
<1>1. /\ Tables /\ Records(j) /\ FlatBooks(j) /\ FlatWalk(j) /\ DecidedAtTop(work[j].earlier)
      /\ IsWalk(walk[j]) /\ pc[j] = "place" /\ IsSequence(walk[j]) /\ Len(walk[j]) = 1
      /\ Top(j).into = <<>>
  BY JobParts DEF Place, PlaceFree, PlaceBeside, PlaceFinished, PlaceAgain, PlaceStanding,
                  PlaceAsk, Looks
<1>2. AtTop(Target(j), {"proper"})
  BY <1>1 DEF FlatJob, FlatWork, Targeting
<1>3. CASE PlaceFree(j)
  <2>1. PlaceAt(j, ledger[j], FALSE) /\ Item(j) \notin Walked
    BY <1>3 DEF PlaceFree, FilesOnly
  <2>2. /\ pc'[j] = "stage" /\ work'[j].target = Target(j) /\ work'[j].earlier = Undecided
        /\ UNCHANGED walk /\ \E written : ledger'[j] = [ledger[j] EXCEPT !.written = written]
    BY <1>1, <2>1 DEF PlaceAt, Goto, Tables, Records, Target
  <2>3. FlatBooks(j)'
    BY <1>1, <2>2 DEF FlatBooks, Records
  <2> QED BY <1>1, <1>2, <2>2, <2>3, WalkStays, AimingFlat, NothingDecided
<1>4. CASE PlaceBeside(j)
  <2>1. /\ work'[j].target = FirstFree(there, Base(j)) /\ work'[j].earlier = work[j].earlier
        /\ UNCHANGED <<pc, walk, ledger>>
    BY <1>1, <1>4 DEF PlaceBeside, Tables, Records
  <2>2. Base(j) = <<Proper(Stored[Item(j)])>>
    BY <1>1, OneStep DEF Base
  <2>3. AtTop(work'[j].target, {"proper"})
    BY <2>1, <2>2, FreeAtTop
  <2> QED BY <1>1, <2>1, <2>3, WalkStays, BooksStay, AimingFlat
<1>5. CASE PlaceFinished(j)
  <2>1. CASE MovesHere(j)
    <3>1. pc'[j] = "remove" /\ UNCHANGED <<walk, work, ledger>>
      BY <1>1, <1>5, <2>1 DEF PlaceFinished, Goto, Tables
    <3>2. FlatWalk(j)' /\ FlatBooks(j)'
      BY <1>1, <3>1, WalkStays, BooksStay
    <3> QED BY <1>1, <3>1, <3>2, RestingFlat DEF Targeting, HasTemporary, Renaming
  <2>2. CASE ~MovesHere(j)
    <3>1. Settle(j, walk[j], TRUE) /\ \E value : Note(j, "moved", value)
      BY <1>5, <2>2 DEF PlaceFinished, Finished
    <3>2. FlatWalk(j)' /\ pc'[j] = "walk" /\ work'[j] = NoWork /\ FlatBooks(j)'
      BY <1>1, <3>1, WalkSettles, BooksNoted DEF Top
    <3> QED BY <3>2, RestingFlat, NothingDecided DEF Targeting, HasTemporary, Renaming
  <2> QED BY <2>1, <2>2
<1>6. CASE PlaceAgain(j)
  <2>1. IsDecision(work[j].earlier) /\ Follow(j, work[j].earlier, ledger[j])
    BY <1>6, WhatIsFollowed DEF PlaceAgain
  <2> QED BY <1>1, <2>1, FollowFlat DEF FlatBooks, Records, NewLedger
<1>7. ASSUME NEW decision, IsDecision(decision), DecidedAtTop(decision), Decide(j, decision)
      PROVE  FlatJob(j)'
  BY <1>1, <1>7, DecideFlat
<1>8. CASE PlaceStanding(j)
  <2>1. PICK decision \in Decisions(j, Standing(j)) : Decide(j, decision)
    BY <1>8 DEF PlaceStanding
  <2>2. Standing(j) \in {"overwrite", "skip", "rename", "type"} /\ IsDecision(decision)
    BY <1>1, <1>8, WhatIsFollowed DEF PlaceStanding, Records, Standing
  <2> QED BY <1>1, <1>7, <2>1, <2>2, DecisionsAtTop
<1>9. CASE PlaceAsk(j)
  <2>1. pc'[j] = "ask" /\ UNCHANGED <<work, ledger, walk>>
    BY <1>1, <1>9 DEF PlaceAsk, Goto, Tables
  <2> QED BY <1>1, <1>2, <2>1, AimingFlat, WalkStays, BooksStay DEF Target
<1> QED BY <1>3, <1>4, <1>5, <1>6, <1>8, <1>9 DEF Place

\* The user's answer.
LEMMA AnswerFlat ==
  ASSUME FilesOnly, IndInv, NEW j \in Jobs, FlatJob(j), NEW answer \in Answers, NEW all,
         Answer(j, answer, all)
  PROVE  FlatJob(j)'
<1>1. pc[j] = "ask" /\ Top(j).into = <<>>
  BY JobParts DEF Answer
<1>2. PICK decision \in Decisions(j, answer) : Decide(j, decision)
  BY DEF Answer
<1>3. IsDecision(decision)
  BY <1>1, <1>2, WhatIsFollowed
<1>4. answer \in {"overwrite", "skip", "rename", "type"}
  BY EngineAssumption
<1> QED BY <1>1, <1>2, <1>3, <1>4, DecisionsAtTop, DecideFlat

\* Names to write to: those of the target folder that are the job's own.
LEMMA HoldingFlat ==
  ASSUME NEW j \in Jobs, FlatWalk(j)', FlatBooks(j)', DecidedAtTop(work'[j].earlier),
         pc'[j] \in Holding \cup {"cleanup"}, AtTop(work'[j].target, {"proper"}),
         pc'[j] \in Holding => AtTop(work'[j].temporary, {"temp", "filepart"}),
         pc'[j] \in Holding => IsPartial(j)' \/ work'[j].temporary = TempName(j, ledger'[j].attempts),
         pc'[j] \in {"movein", "cleanup"} => work'[j].aside = OldName(j, ledger'[j].attempts)
  PROVE  FlatJob(j)'
BY DEF FlatJob, FlatWork, OwnNames, Holding, HasTemporary, Renaming, Target, Temporary

\* Giving up a claim takes no claim of another.
LEMMA ClaimsKept ==
  ASSUME NEW j \in Jobs, GiveUpClaim(j)
  PROVE  /\ DOMAIN claims' \subseteq DOMAIN claims
         /\ \A p \in DOMAIN claims : claims[p] # j => p \in DOMAIN claims' /\ claims'[p] = claims[p]
BY DEF GiveUpClaim, Restrict

\* What is asked about a .filepart.
LEMMA HandlePartialFlat ==
  ASSUME IndInv, FlatInv, NEW j \in Jobs, NEW answer, HandlePartial(j, answer)
  PROVE  FlatJob(j)'
<1>1. /\ Tables /\ Records(j) /\ FlatBooks(j) /\ FlatWalk(j) /\ DecidedAtTop(work[j].earlier)
      /\ IsWalk(walk[j]) /\ pc[j] = "askpartial" /\ Len(walk[j]) = 1 /\ Last(walk[j]).into = <<>>
  BY JobParts DEF HandlePartial, FlatInv, Top
<1>2. FlatBooks(j)'
  BY <1>1, BooksStay DEF HandlePartial
<1>3. CASE answer = "skip"
  <2>1. Settle(j, walk[j], FALSE)
    BY <1>3 DEF HandlePartial
  <2>2. FlatWalk(j)' /\ pc'[j] = "walk" /\ work'[j] = NoWork
    BY <1>1, <2>1, WalkSettles
  <2> QED BY <1>2, <2>2, RestingFlat, NothingDecided DEF Targeting, HasTemporary, Renaming
<1>4. CASE answer # "skip"
  <2>1. pc'[j] \in {"resume", "discard"} /\ UNCHANGED <<claims, walk, work, ledger>>
    BY <1>1, <1>4 DEF HandlePartial, Goto, Tables
  <2>2. /\ AtTop(Temporary(j), {"temp", "filepart"}) /\ AtTop(Target(j), {"proper"})
        /\ IsPartial(j) \/ Temporary(j) = TempName(j, ledger[j].attempts)
    BY <1>1 DEF FlatInv, FlatJob, FlatWork, OwnNames, Holding, HasTemporary, Targeting
  <2>3. IsPartial(j) => IsPartial(j)'
    BY <2>1 DEF IsPartial, IsClaimed, Temporary
  <2> QED BY <1>1, <1>2, <2>1, <2>2, <2>3, WalkStays, HoldingFlat
          DEF Holding, HasTemporary, Renaming, Target, Temporary
<1> QED BY <1>3, <1>4

\* A name to write to is chosen.
LEMMA StageFlat ==
  ASSUME IndInv, FlatInv, NEW j \in Jobs, StageHidden(j) \/ StagePartial(j)
  PROVE  FlatJob(j)'
<1>1. /\ Tables /\ Records(j) /\ FlatBooks(j) /\ FlatWalk(j) /\ DecidedAtTop(work[j].earlier)
      /\ IsWalk(walk[j]) /\ pc[j] = "stage" /\ AtTop(Target(j), {"proper"})
  BY JobParts DEF StageHidden, StagePartial, FlatInv, FlatJob, FlatWork, Targeting
<1>2. FlatWalk(j)' /\ FlatBooks(j)'
  BY <1>1, WalkStays, BooksStay DEF StageHidden, StagePartial
<1>3. CASE StageHidden(j)
  <2>1. HiddenTemporary(j) = TempName(j, ledger[j].attempts)
    BY <1>1, TopPath DEF HiddenTemporary, TempName
  <2>2. AtTop(TempName(j, ledger[j].attempts), {"temp", "filepart"})
    BY TopOf DEF TempName, Hidden
  <2>3. /\ pc'[j] = "create" /\ work'[j].temporary = TempName(j, ledger[j].attempts)
        /\ work'[j].target = Target(j) /\ work'[j].earlier = work[j].earlier /\ ledger' = ledger
    BY <1>1, <1>3, <2>1 DEF StageHidden, Goto, Tables, Records, Target
  <2> QED BY <1>1, <1>2, <2>2, <2>3, HoldingFlat DEF Holding, HasTemporary, Renaming
<1>4. CASE StagePartial(j)
  <2>1. AtTop(PartialOf(j), {"temp", "filepart"})
    <3>1. PartialOf(j) = <<Partial(Last(Target(j)))>>
      BY <1>1, TopPath DEF PartialOf, PartialBeside
    <3>2. Partial(Last(Target(j))).kind = "filepart"
      BY DEF Partial
    <3> QED BY <3>1, <3>2, TopOf
  <2>2. /\ pc'[j] \in {"create", "discard", "resume", "askpartial"}
        /\ work'[j].temporary = PartialOf(j) /\ work'[j].target = Target(j)
        /\ work'[j].earlier = work[j].earlier /\ claims' = With(claims, PartialOf(j), j)
    BY <1>1, <1>4 DEF StagePartial, Goto, Tables, Records, Target
  <2>3. IsPartial(j)'
    BY <2>2 DEF IsPartial, IsClaimed, Temporary, With
  <2> QED BY <1>1, <1>2, <2>1, <2>2, <2>3, HoldingFlat DEF Holding, HasTemporary, Renaming
<1> QED BY <1>3, <1>4

\* What is written and renamed keeps its name until it has the target's.
LEMMA CopyFlat ==
  ASSUME IndInv, FlatInv, NEW j \in Jobs,
         \/ DiscardPartial(j) \/ Create(j) \/ Resume(j) \/ Write(j) \/ Close(j)
         \/ Look(j) \/ Rename(j) \/ SetAside(j) \/ MoveIn(j)
  PROVE  FlatJob(j)'
<1>1. /\ Tables /\ Records(j) /\ FlatBooks(j) /\ FlatWalk(j) /\ DecidedAtTop(work[j].earlier)
      /\ pc[j] \in HasTemporary /\ pc[j] # "askpartial" /\ UNCHANGED <<claims, walk>>
      /\ pc'[j] \in Holding \cup {"cleanup"}
      /\ pc[j] = "movein" \/ pc'[j] # "cleanup"
      /\ pc'[j] = "movein" => SetAside(j)
  BY JobParts DEF FlatInv, HasTemporary, Renaming, Holding, Goto, Tables, DiscardPartial, Create,
                  Resume, Write, Close, Look, Rename, SetAside, MoveIn
<1>2. /\ AtTop(Target(j), {"proper"}) /\ AtTop(Temporary(j), {"temp", "filepart"})
      /\ IsPartial(j) \/ Temporary(j) = TempName(j, ledger[j].attempts)
      /\ pc[j] = "movein" => work[j].aside = OldName(j, ledger[j].attempts)
  BY <1>1 DEF FlatInv, FlatJob, FlatWork, OwnNames, Holding, Targeting
<1>3. /\ work'[j].target = Target(j) /\ work'[j].temporary = Temporary(j)
      /\ work'[j].earlier = work[j].earlier
      /\ SetAside(j) \/ work'[j].aside = work[j].aside
  BY <1>1 DEF Tables, Records, DiscardPartial, Create,
                  Resume, Write, Close, Look, Rename, SetAside, MoveIn, Target, Temporary
<1>4. FlatBooks(j)' /\ ledger'[j].attempts = ledger[j].attempts
  <2>1. \A q \in OwnPartials(j) : AtTop(q, {"filepart"})
    BY <1>1 DEF OwnPartials, FlatBooks, IsPartial, IsClaimed, FlatInv, FlatTables
  <2>2. Note(j, "partials", OwnPartials(j)) \/ ledger' = ledger
    BY DEF DiscardPartial, Create, Resume, Write, Close, Look, Rename, SetAside, MoveIn
  <2> QED BY <1>1, <2>1, <2>2, BooksNoted, BooksStay
<1>5. pc'[j] \in {"movein", "cleanup"} => work'[j].aside = OldName(j, ledger[j].attempts)
  <2>1. CASE SetAside(j)
    <3>1. work'[j].aside = Beside(Target(j), Hidden("old", <<j, ledger[j].attempts>>))
      BY <1>1, <2>1 DEF SetAside, Tables, Records
    <3> QED BY <1>2, <3>1, TopPath DEF OldName
  <2>2. CASE ~SetAside(j)
    BY <1>1, <1>2, <1>3, <2>2
  <2> QED BY <2>1, <2>2
<1>6. IsPartial(j) => IsPartial(j)'
  BY <1>1, <1>3 DEF IsPartial, IsClaimed, Temporary
<1>7. FlatWalk(j)'
  BY <1>1, WalkStays DEF HasTemporary, Renaming
<1> QED BY <1>1, <1>2, <1>3, <1>4, <1>5, <1>6, <1>7, HoldingFlat

\* Copied, or not: the job goes on, or its attempt ends.
LEMMA CopiedFlat ==
  ASSUME IndInv, FlatInv, NEW j \in Jobs, CleanUp(j) \/ RenameAnswered(j)
  PROVE  FlatJob(j)'
<1>1. /\ Tables /\ Records(j) /\ FlatBooks(j) /\ FlatWalk(j) /\ DecidedAtTop(work[j].earlier)
      /\ IsWalk(walk[j]) /\ pc[j] \notin {"idle", "over"} /\ Len(walk[j]) = 1
      /\ Last(walk[j]).into = <<>> /\ Copied(j)
  BY JobParts DEF CleanUp, RenameAnswered, FlatInv, Top
<1>2. FlatBooks(j)'
  BY <1>1, BooksNoted DEF Copied, FlatBooks
<1>3. CASE MovesHere(j)
  <2>1. pc'[j] = "remove" /\ UNCHANGED <<walk, work>>
    BY <1>1, <1>3 DEF Copied, Goto, Tables
  <2> QED BY <1>1, <1>2, <2>1, WalkStays, RestingFlat DEF Targeting, HasTemporary, Renaming
<1>4. CASE ~MovesHere(j)
  <2>1. Settle(j, walk[j], TRUE)
    BY <1>1, <1>4 DEF Copied
  <2>2. FlatWalk(j)' /\ pc'[j] = "walk" /\ work'[j] = NoWork
    BY <1>1, <2>1, WalkSettles
  <2> QED BY <1>2, <2>2, RestingFlat, NothingDecided DEF Targeting, HasTemporary, Renaming
<1> QED BY <1>3, <1>4

\* However an attempt ends.
LEMMA EndFlat ==
  ASSUME IndInv, FlatInv, NEW j \in Jobs, Fail(j) \/ Drop(j) \/ Cancel(j) \/ Abandon(j)
  PROVE  FlatJob(j)'
<1>1. FlatJob(j) /\ FlatBooks(j)
  BY DEF FlatInv, FlatJob
<1>2. \E outcome \in {"idle", "over"} : EndsWith(j, outcome)
  BY DEF Fail, Drop, Cancel, Abandon
<1>3. FlatWalk(j)' /\ pc'[j] \in {"idle", "over"} /\ work'[j] = NoWork
  BY <1>2, WalkEnds
<1>4. FlatBooks(j)'
  <2>1. CASE UNCHANGED ledger
    BY <1>1, <2>1, BooksStay
  <2>2. CASE /\ pc[j] \in {"stream", "renamed"} \cup Renaming /\ ~IsPartial(j)
             /\ Note(j, "leftovers", ledger[j].leftovers \cup {Temporary(j)})
    <3>1. Temporary(j) = TempName(j, ledger[j].attempts)
      BY <1>1, <2>2 DEF FlatJob, FlatWork, OwnNames, Holding, HasTemporary
    <3> QED BY <1>1, <2>2, <3>1, BooksNoted
  <2> QED BY <2>1, <2>2 DEF Fail, Drop, Cancel, Abandon
<1> QED BY <1>3, <1>4, RestingFlat, NothingDecided DEF Targeting, HasTemporary, Renaming

\* Every step of a job leaves it at the top.
LEMMA JobStaysFlat ==
  ASSUME FilesOnly, IndInv, FlatInv, NEW j \in Jobs, StepOf(j)
  PROVE  FlatJob(j)'
<1> FlatJob(j)
  BY DEF FlatInv
<1>1. CASE Walk(j)
  BY <1>1, WalkFlat
<1>2. CASE Place(j)
  BY <1>2, PlaceFlat
<1>3. CASE Stage(j)
  BY <1>3, StageFlat, HandlePartialFlat, CopyFlat DEF Stage, StandingPartial
<1>4. CASE Copy(j)
  BY <1>4, CopyFlat, CopiedFlat DEF Copy
<1>5. CASE UserAnswers(j)
  BY <1>5, AnswerFlat, HandlePartialFlat DEF UserAnswers, AnswerPartial
<1>6. CASE Fail(j) \/ Drop(j) \/ Cancel(j) \/ Abandon(j)
  BY <1>6, EndFlat
<1> QED BY <1>1, <1>2, <1>3, <1>4, <1>5, <1>6 DEF StepOf

\* The other jobs stay where they are, with their claims.
LEMMA Elsewhere ==
  ASSUME IndInv, NEW j \in Jobs, StepOf(j)
  PROVE  /\ \A k \in Jobs \ {j} : walk'[k] = walk[k]
         /\ \A p \in DOMAIN claims : claims[p] # j => p \in DOMAIN claims' /\ claims'[p] = claims[p]
         /\ \A p \in DOMAIN claims' : p \in DOMAIN claims \/ (pc[j] = "stage" /\ p = PartialOf(j))
<1> Tables
  BY DEF IndInv
<1>1. CASE Walk(j)
  BY <1>1 DEF Walk, Begin, CannotBegin, EnterFolder, LeaveFolder, Finish, Choose, Settle, Finished,
              ClearTarget, MakeFolder, RemoveSource, SourceRemoved, Tables
<1>2. CASE Place(j)
  <2>1. UNCHANGED claims
    BY <1>2 DEF Place, PlaceFree, PlaceBeside, PlaceFinished, PlaceAsk, PlaceAgain, PlaceStanding, Looks
  <2>2. UNCHANGED walk \/ \E stack, done : Settle(j, stack, done)
    <3>1. CASE PlaceFree(j) \/ PlaceBeside(j) \/ PlaceFinished(j) \/ PlaceAsk(j)
      BY <3>1 DEF PlaceFree, PlaceBeside, PlaceFinished, PlaceAsk, PlaceAt, Finished
    <3>2. CASE PlaceAgain(j) \/ PlaceStanding(j)
      BY <3>2, WhatIsFollowed DEF PlaceAgain, PlaceStanding, Decide, Follow, PlaceAt, IsDecision
    <3> QED BY <1>2, <3>1, <3>2 DEF Place
  <2> QED BY <2>1, <2>2 DEF Settle, Tables
<1>3. CASE Stage(j) \/ \E answer : HandlePartial(j, answer)
  <2>1. CASE StagePartial(j)
    BY <2>1 DEF StagePartial, With, IsClaimed
  <2>2. CASE StageHidden(j) \/ DiscardPartial(j)
    BY <2>2 DEF StageHidden, DiscardPartial
  <2>3. CASE \E answer : HandlePartial(j, answer)
    BY <2>3, ClaimsKept DEF HandlePartial, Settle, Tables
  <2> QED BY <1>3, <2>1, <2>2, <2>3 DEF Stage, StandingPartial
<1>4. CASE Copy(j)
  <2>1. CASE CleanUp(j) \/ RenameAnswered(j)
    BY <2>1, ClaimsKept DEF CleanUp, RenameAnswered, Copied, Settle, Tables
  <2> QED BY <1>4, <2>1 DEF Copy, Create, Resume, Write, Close, Look, Rename, SetAside, MoveIn
<1>5. CASE UserAnswers(j)
  <2>1. CASE \E answer \in Answers : \E all : Answer(j, answer, all)
    <3>1. PICK answer \in Answers : \E decision \in Decisions(j, answer) : Decide(j, decision)
      BY <2>1 DEF Answer
    <3>2. PICK decision \in Decisions(j, answer) : Decide(j, decision)
      BY <3>1
    <3>3. IsDecision(decision) /\ UNCHANGED claims
      BY <2>1, <3>2, WhatIsFollowed DEF Answer
    <3>4. UNCHANGED walk \/ \E stack, done : Settle(j, stack, done)
      BY <3>2, <3>3 DEF Decide, Follow, PlaceAt, IsDecision
    <3> QED BY <3>3, <3>4 DEF Settle, Tables
  <2> QED BY <1>3, <1>5, <2>1 DEF UserAnswers, AnswerPartial
<1>6. CASE Fail(j) \/ Drop(j) \/ Cancel(j) \/ Abandon(j)
  BY <1>6, ClaimsKept DEF Fail, Drop, Cancel, Abandon, EndsWith, Tables
<1> QED BY <1>1, <1>2, <1>3, <1>4, <1>5, <1>6 DEF StepOf

\* The step of one job leaves the others at the top.
LEMMA OthersStayFlat ==
  ASSUME IndInv, FlatInv, NEW j \in Jobs, StepOf(j), NEW k \in Jobs, k # j
  PROVE  FlatJob(k)'
<1>1. pc'[k] = pc[k] /\ work'[k] = work[k] /\ ledger'[k] = ledger[k] /\ walk'[k] = walk[k]
  BY Bystanders, Elsewhere DEF Others
<1>2. FlatWalk(k) /\ FlatWork(k) /\ FlatBooks(k)
  BY DEF FlatInv, FlatJob
<1>3. IsPartial(k) => IsPartial(k)'
  BY <1>1, Elsewhere DEF IsPartial, IsClaimed, Temporary
<1>4. FlatWalk(k)' /\ FlatBooks(k)'
  BY <1>1, <1>2 DEF FlatWalk, FlatBooks, Top
<1>5. FlatWork(k)'
  BY <1>1, <1>2, <1>3 DEF FlatWork, OwnNames, Target, Temporary
<1> QED BY <1>4, <1>5 DEF FlatJob

\* Agreements are about names at the top.
LEMMA AgreementsAtTop ==
  ASSUME IndInv, History, FlatInv, NEW j \in Jobs, StepOf(j), NEW r \in ToReplace'
  PROVE  AtTop(r, {"proper"})
<1>1. DOMAIN seen = DOMAIN NothingSeen /\ \A x \in ToReplace : AtTop(x, {"proper"})
  BY DEF History, FlatInv, FlatTables
<1>2. \/ seen'.replaceable = seen.replaceable /\ seen'.reused = seen.reused
      \/ /\ pc[j] \in {"place", "ask"}
         /\ seen'.replaceable \subseteq seen.replaceable \cup {Target(j)}
         /\ seen'.reused \subseteq seen.reused \cup {Target(j)}
  <2>1. CASE Walk(j)
    BY <1>1, <2>1 DEF Walk, Begin, CannotBegin, EnterFolder, LeaveFolder, Finish, Choose, See,
                ClearTarget, MakeFolder, RemoveSource, SourceRemoved, NothingSeen
  <2>2. CASE Place(j)
    BY <1>1, <2>2 DEF Place, PlaceFree, PlaceBeside, PlaceFinished, PlaceAsk, PlaceAgain,
                PlaceStanding, Looks, See, SeeStanding, NothingSeen
  <2>3. CASE Stage(j)
    BY <1>1, <2>3 DEF Stage, StageHidden, StagePartial, StandingPartial, HandlePartial,
                DiscardPartial, See, NothingSeen
  <2>4. CASE Copy(j)
    BY <1>1, <2>4 DEF Copy, Create, Resume, Write, Close, Look, Rename, SetAside, MoveIn, CleanUp,
                RenameAnswered, See, NothingSeen
  <2>5. CASE UserAnswers(j)
    BY <1>1, <2>5 DEF UserAnswers, Answer, AnswerPartial, HandlePartial, SeeDecision, See, NothingSeen
  <2>6. CASE Fail(j) \/ Drop(j) \/ Cancel(j) \/ Abandon(j)
    BY <2>6 DEF Fail, Drop, Cancel, Abandon
  <2> QED BY <2>1, <2>2, <2>3, <2>4, <2>5, <2>6 DEF StepOf
<1>3. pc[j] \in {"place", "ask"} => AtTop(Target(j), {"proper"})
  BY DEF FlatInv, FlatJob, FlatWork, Targeting
<1> QED BY <1>1, <1>2, <1>3 DEF ToReplace

\* Claims are on partials at the top.
LEMMA ClaimsAtTop ==
  ASSUME IndInv, FlatInv, NEW j \in Jobs, StepOf(j), NEW p \in DOMAIN claims'
  PROVE  AtTop(p, {"filepart"})
<1>1. CASE p \in DOMAIN claims
  BY <1>1 DEF FlatInv, FlatTables
<1>2. CASE pc[j] = "stage" /\ p = PartialOf(j)
  <2>1. AtTop(Target(j), {"proper"})
    BY <1>2 DEF FlatInv, FlatJob, FlatWork, Targeting
  <2>2. PartialOf(j) = <<Partial(Last(Target(j)))>>
    BY <2>1, TopPath DEF PartialOf, PartialBeside
  <2>3. Partial(Last(Target(j))).kind = "filepart"
    BY DEF Partial
  <2> QED BY <1>2, <2>2, <2>3, TopOf
<1> QED BY <1>1, <1>2, Elsewhere

-----------------------------------------------------------------------------
(* What a step does to the target folder.                                  *)

LeftoversGo(j) ==
  /\ pc[j] = "idle"
  /\ \E gone \in SUBSET ledger[j].leftovers : there' = Restrict(there, DOMAIN there \ gone)
TemporaryGoes(j) ==
  pc[j] \in {"discard", "stream"} \cup Renaming /\ there' = Removed(there, Temporary(j))
TemporaryComes(j) ==
  /\ pc[j] = "create" /\ ~Exists(there, Temporary(j))
  /\ there' = Put(there, Temporary(j), File(<<>>, Now, j))
\* The next chunk of the item at hand.
Longer(j, data) ==
  /\ pc[j] = "stream" /\ Have(j) < Size(Item(j)) /\ Len(data) = Have(j) + 1
  /\ \A n \in 1 .. Len(data) :
       data[n] = IF n = Len(data) THEN Item(j) ELSE there[Temporary(j)].data[n]
TemporaryGrows(j) ==
  /\ pc[j] \in {"resume", "stream"} /\ Exists(there, Temporary(j))
  /\ \E e : /\ IsEntry(e) /\ e.kind = there[Temporary(j)].kind /\ e.by = j
            /\ e.data = there[Temporary(j)].data \/ Longer(j, e.data)
            /\ there' = [there EXCEPT ![Temporary(j)] = e]
TakesItsName(j) ==
  /\ pc[j] \in {"rename", "movein"} /\ Exists(there, Temporary(j))
  /\ Exists(there, Target(j)) => pc[j] = "rename" /\ work[j].clash # None
  /\ there' = Renamed(there, Temporary(j), Target(j))
  /\ seen'.filled = seen.filled \cup {Target(j)}
GoesAside(j) ==
  /\ pc[j] = "rename" /\ pc'[j] = "movein" /\ work[j].clash # None
  /\ there' = Renamed(there, Target(j), OldName(j, ledger[j].attempts))
  /\ Target(j)' = Target(j) /\ ledger' = ledger
OldGoes(j) == pc[j] = "cleanup" /\ there' = Removed(there, work[j].aside)
ComesBack(j) ==
  /\ pc[j] = "movein" /\ pc'[j] = "over" /\ ~Exists(there, Target(j))
  /\ there' = Removed(Renamed(there, work[j].aside, Target(j)), Temporary(j))

\* A function on 1 .. n is a sequence.
LEMMA Enumerated ==
  ASSUME NEW n \in Nat, NEW g, g = [k \in 1 .. n |-> g[k]]
  PROVE  IsSequence(g) /\ Len(g) = n
<1>1. g \in [1 .. n -> Range(g)]
  BY DEF Range
<1>2. g \in Seq(Range(g))
  BY <1>1, SeqDef
<1>3. DOMAIN g = 1 .. n /\ DOMAIN g = 1 .. Len(g) /\ Len(g) \in Nat
  BY <1>1, <1>2, LenProperties
<1> QED BY <1>2, <1>3 DEF IsSequence

\* An entry rewritten in place, longer or the same.
LEMMA Changed ==
  ASSUME IndInv, NEW j \in Jobs, FlatTables, NEW e, IsEntry(e),
         e.kind = there[Temporary(j)].kind, e.by = j, pc[j] \in {"resume", "stream"},
         e.data = there[Temporary(j)].data \/ Longer(j, e.data),
         Exists(there, Temporary(j)), there' = [there EXCEPT ![Temporary(j)] = e]
  PROVE  TemporaryGrows(j)
BY DEF TemporaryGrows

\* What a step does to the target folder is one of these.
LEMMA Effects ==
  ASSUME IndInv, History, FlatInv, NEW j \in Jobs, Contents(j), StepOf(j)
  PROVE  \/ there' = there \/ LeftoversGo(j) \/ TemporaryGoes(j) \/ TemporaryComes(j)
         \/ TemporaryGrows(j) \/ TakesItsName(j) \/ GoesAside(j) \/ OldGoes(j) \/ ComesBack(j)
<1>1. Tables /\ FlatTables /\ DOMAIN seen = DOMAIN NothingSeen
  BY DEF IndInv, FlatInv, History
<1>2. CASE Walk(j)
  <2>1. CASE Begin(j)
    BY <2>1 DEF Begin, LeftoversGo
  <2>2. ~ClearTarget(j) /\ ~MakeFolder(j)
    BY DEF FlatInv, FlatJob, FlatWork, ClearTarget, MakeFolder
  <2> QED BY <1>2, <2>1, <2>2 DEF Walk, CannotBegin, EnterFolder, LeaveFolder, Finish, Choose,
                                  RemoveSource, SourceRemoved
<1>3. CASE Place(j)
  BY <1>3 DEF Place, PlaceFree, PlaceBeside, PlaceFinished, PlaceAsk, PlaceAgain, PlaceStanding, Looks
<1>4. CASE Stage(j)
  BY <1>4 DEF Stage, StageHidden, StagePartial, StandingPartial, HandlePartial, DiscardPartial,
              TemporaryGoes
<1>5. CASE Resume(j) \/ Write(j) \/ Close(j)
  <2> DEFINE old == there[Temporary(j)]
  <2>1. Exists(there, Temporary(j)) /\ pc[j] \in {"resume", "stream"}
    BY <1>5 DEF Resume, Write, Close
  <2>2. IsEntry(old) /\ (pc[j] = "stream" => old.by = j)
    BY <1>1, <2>1 DEF FlatTables, IsTree, Exists, Contents
  <2>3. CASE Resume(j)
    <3> DEFINE e == [old EXCEPT !.by = j]
    <3>1. there' = [there EXCEPT ![Temporary(j)] = e]
      BY <2>3 DEF Resume
    <3>2. IsEntry(e) /\ e.kind = old.kind /\ e.by = j /\ e.data = old.data
      BY <2>2 DEF IsEntry
    <3> HIDE DEF e
    <3> QED BY <1>1, <2>1, <3>1, <3>2, Changed
  <2>4. CASE Write(j)
    <3> DEFINE at == work[j].offset + 1
               data == [k \in 1 .. (IF at > Len(old.data) THEN at ELSE Len(old.data)) |->
                          IF k = at THEN Item(j) ELSE old.data[k]]
               e == [old EXCEPT !.data = data]
    <3>1. there' = [there EXCEPT ![Temporary(j)] = e]
      BY <2>4 DEF Write
    <3>2. IsSequence(data) /\ Longer(j, data)
      <4>1. Len(old.data) \in Nat /\ work[j].offset = Len(old.data)
        BY <2>1, <2>2, <2>4, LenProperties DEF IsEntry, IsSequence, Write, Contents, Have
      <4>2. at \in Nat /\ at > Len(old.data)
        BY <4>1
      <4>3. data = [k \in 1 .. at |-> data[k]]
        BY <4>2
      <4>4. \A k \in 1 .. at : data[k] = IF k = at THEN Item(j) ELSE old.data[k]
        BY <4>2
      <4>5. at = Have(j) + 1 /\ at <= Size(Item(j)) /\ pc[j] = "stream"
        BY <2>4, <4>1 DEF Write, Have
      <4> HIDE DEF data, at
      <4>6. IsSequence(data) /\ Len(data) = at
        BY <4>2, <4>3, Enumerated
      <4>7. Have(j) < Size(Item(j))
        BY <4>1, <4>5 DEF Have, Size
      <4> QED BY <4>4, <4>5, <4>6, <4>7 DEF Longer
    <3> HIDE DEF data
    <3>3. IsEntry(e) /\ e.kind = old.kind /\ e.by = j /\ e.data = data
      BY <2>2, <2>4, <3>2 DEF IsEntry, Write
    <3> HIDE DEF e
    <3> QED BY <1>1, <2>1, <3>1, <3>2, <3>3, Changed
  <2>5. CASE Close(j)
    <3>1. PICK time : there' = [there EXCEPT ![Temporary(j)].time = time]
      BY <2>5 DEF Close
    <3> DEFINE e == [old EXCEPT !.time = time]
    <3>2. there' = [there EXCEPT ![Temporary(j)] = e]
      BY <3>1
    <3>3. IsEntry(e) /\ e.kind = old.kind /\ e.by = j /\ e.data = old.data
      BY <2>2, <2>5 DEF IsEntry, Close
    <3> HIDE DEF e
    <3> QED BY <1>1, <2>1, <3>2, <3>3, Changed
  <2> QED BY <1>5, <2>3, <2>4, <2>5
<1>6. CASE Create(j)
  BY <1>6 DEF Create, TemporaryComes
<1>7. CASE Rename(j) \/ MoveIn(j)
  <2>1. seen'.filled = seen.filled \cup {Target(j)}
    BY <1>1, <1>7 DEF Rename, MoveIn, See, NothingSeen
  <2> QED BY <1>7, <2>1 DEF Rename, MoveIn, TakesItsName
<1>8. CASE SetAside(j)
  <2>1. AtTop(Target(j), {"proper"})
    BY <1>8 DEF SetAside, FlatInv, FlatJob, FlatWork, Targeting, HasTemporary, Renaming
  <2>2. Beside(Target(j), Hidden("old", <<j, ledger[j].attempts>>)) = OldName(j, ledger[j].attempts)
    BY <2>1, TopPath DEF OldName
  <2>3. Target(j)' = Target(j)
    BY <1>1, <1>8 DEF SetAside, IndInv, JobInv, Tables, Records, Target
  <2> QED BY <1>1, <1>8, <2>2, <2>3 DEF SetAside, GoesAside, InOneStep, Goto, Tables
<1>9. CASE CleanUp(j)
  BY <1>9 DEF CleanUp, OldGoes
<1>10. CASE Copy(j)
  BY <1>5, <1>6, <1>7, <1>8, <1>9, <1>10 DEF Copy, Look, RenameAnswered
<1>11. CASE UserAnswers(j)
  BY <1>11 DEF UserAnswers, Answer, AnswerPartial, HandlePartial
<1>12. CASE Fail(j)
  <2>1. pc'[j] = "over"
    BY <1>1, <1>12 DEF Fail, EndsWith, Goto, Tables
  <2> QED BY <1>12, <2>1 DEF Fail, PutBack, WithoutTemporary, TemporaryGoes, ComesBack
<1>13. CASE Drop(j) \/ Cancel(j) \/ Abandon(j)
  BY <1>13 DEF Drop, Cancel, Abandon, WithoutTemporary, TemporaryGoes
<1> QED BY <1>2, <1>3, <1>4, <1>10, <1>11, <1>12, <1>13 DEF StepOf

\* What is below something stays below a folder that is there.
LEMMA TreeRemoved ==
  ASSUME NEW folder, IsTree(folder), NEW e
  PROVE  IsTree(Removed(folder, <<e>>))
<1> DEFINE after == Removed(folder, <<e>>)
<1>1. /\ DOMAIN after = {q \in DOMAIN folder : q[1] # e}
      /\ \A q \in DOMAIN after : after[q] = folder[q]
  BY RemovedTop DEF IsTree, Paths
<1> HIDE DEF after
<1>2. ASSUME NEW q \in DOMAIN after
      PROVE  /\ IsSequence(q) /\ q # <<>> /\ IsEntry(after[q])
             /\ Len(q) > 1 => IsFolder(after, <<q[1]>>) /\ q[1].kind # "temp"
  <2>1. q \in DOMAIN folder /\ q[1] # e /\ <<q[1]>>[1] = q[1]
    BY <1>1, OneStep
  <2> QED BY <1>1, <2>1 DEF IsTree, IsFolder, Exists
<1> QED BY <1>2 DEF IsTree, after

\* A tree, after a rename at the top.
LEMMA TreeRenamed ==
  ASSUME NEW folder, IsTree(folder), NEW a, NEW b, a # b, b.kind # "temp"
  PROVE  IsTree(Renamed(folder, <<a>>, <<b>>))
<1> DEFINE after == Renamed(folder, <<a>>, <<b>>)
<1>0. Paths(folder)
  BY DEF IsTree, Paths
<1>1. RenameOf(folder, a, b, after)
  BY <1>0, RenamedTop
<1> USE DEF RenameOf
<1> HIDE DEF after
<1>2. ASSUME NEW q \in DOMAIN after
      PROVE  /\ IsSequence(q) /\ q # <<>> /\ IsEntry(after[q])
             /\ Len(q) > 1 => IsFolder(after, <<q[1]>>) /\ q[1].kind # "temp"
  <2>1. IsSequence(q) /\ q # <<>> /\ q[1] # a /\ <<q[1]>>[1] = q[1]
    BY <1>1, OneStep DEF Paths
  <2>2. CASE q[1] = b
    <3>1. Swap(q, a) \in DOMAIN folder /\ after[q] = folder[Swap(q, a)]
      BY <1>1, <2>2
    <3>2. Len(Swap(q, a)) = Len(q) /\ Swap(q, a)[1] = a
      BY <2>1, SwapFacts
    <3>3. Len(q) > 1 => IsFolder(folder, <<a>>)
      BY <3>1, <3>2 DEF IsTree
    <3>4. <<a>>[1] = a /\ Swap(<<a>>, b) = <<b>>
      BY OneStep, SwapFacts
    <3>5. Len(q) > 1 => IsFolder(after, <<b>>)
      BY <1>1, <3>3, <3>4 DEF IsFolder, Exists
    <3> QED BY <2>1, <2>2, <3>1, <3>5 DEF IsTree
  <2>3. CASE q[1] # b
    <3>1. q \in DOMAIN folder /\ after[q] = folder[q]
      BY <1>1, <2>3
    <3>2. Len(q) > 1 => IsFolder(folder, <<q[1]>>) /\ q[1].kind # "temp"
      BY <3>1 DEF IsTree
    <3>3. Len(q) > 1 => IsFolder(after, <<q[1]>>)
      BY <1>1, <2>1, <2>3, <3>2 DEF IsFolder, Exists
    <3> QED BY <2>1, <3>1, <3>2, <3>3 DEF IsTree
  <2> QED BY <2>2, <2>3
<1> QED BY <1>2 DEF IsTree, after

\* A tree, after something at the top is written.
LEMMA TreeChanged ==
  ASSUME NEW folder, IsTree(folder), NEW q, IsSequence(q), Len(q) = 1, NEW e, IsEntry(e),
         NEW after, \/ q \notin DOMAIN folder /\ after = Put(folder, q, e)
                    \/ /\ q \in DOMAIN folder /\ e.kind = folder[q].kind
                       /\ after = [folder EXCEPT ![q] = e]
  PROVE  IsTree(after)
<1>1. q # <<>> /\ q = <<q[1]>>
  BY OneLong
<1>2. DOMAIN after = DOMAIN folder \cup {q} /\ after[q] = e
      /\ \A r \in DOMAIN folder \ {q} : after[r] = folder[r]
  BY DEF Put, With
<1>3. ASSUME NEW r, IsFolder(folder, r) PROVE IsFolder(after, r)
  <2>1. CASE r = q
    BY <1>2, <1>3, <2>1 DEF IsFolder, Exists
  <2>2. CASE r # q
    BY <1>2, <1>3, <2>2 DEF IsFolder, Exists
  <2> QED BY <2>1, <2>2
<1>4. ASSUME NEW r \in DOMAIN after
      PROVE  /\ IsSequence(r) /\ r # <<>> /\ IsEntry(after[r])
             /\ Len(r) > 1 => IsFolder(after, <<r[1]>>) /\ r[1].kind # "temp"
  <2>1. CASE r = q
    BY <1>1, <1>2, <2>1
  <2>2. CASE r # q
    BY <1>2, <1>3, <2>2 DEF IsTree
  <2> QED BY <2>1, <2>2
<1> QED BY <1>4 DEF IsTree

\* The names a step of a job may be about.
LEMMA NamesOf ==
  ASSUME FlatInv, NEW j \in Jobs
  PROVE  /\ pc[j] \in HasTemporary =>
              /\ Temporary(j) = <<Temporary(j)[1]>> /\ Target(j) = <<Target(j)[1]>>
              /\ Temporary(j)[1].kind \in {"temp", "filepart"} /\ Target(j)[1].kind = "proper"
              /\ Temporary(j)[1] # Target(j)[1]
              /\ AtTop(Temporary(j), {"temp", "filepart"}) /\ AtTop(Target(j), {"proper"})
         /\ pc[j] \in {"movein", "cleanup"} => work[j].aside = OldName(j, ledger[j].attempts)
         /\ \A q \in ledger[j].leftovers : \E n \in 0 .. ledger[j].attempts : q = TempName(j, n)
         /\ ledger[j].attempts \in Nat
         /\ \A n : /\ Hidden("old", <<j, n>>).kind = "old" /\ TempName(j, n)[1].kind = "temp"
                   /\ OldName(j, n) = <<Hidden("old", <<j, n>>)>>
<1>1. pc[j] \in HasTemporary =>
        AtTop(Temporary(j), {"temp", "filepart"}) /\ AtTop(Target(j), {"proper"})
  BY DEF FlatInv, FlatJob, FlatWork, OwnNames, Holding, Targeting
<1>2. \A n : Hidden("old", <<j, n>>).kind = "old" /\ TempName(j, n)[1].kind = "temp"
  BY OneStep DEF Hidden, TempName
<1> QED BY <1>1, <1>2, TopPath DEF FlatInv, FlatJob, FlatWork, FlatBooks, OldName

\* The target folder stays a tree.
LEMMA TreeStays ==
  ASSUME IndInv, History, FlatInv, NEW j \in Jobs, Contents(j), StepOf(j)
  PROVE  IsTree(there)'
<1>1. IsTree(there)
  BY DEF FlatInv, FlatTables
<1>2. CASE there' = there
  BY <1>1, <1>2
<1>3. CASE LeftoversGo(j)
  <2>1. PICK gone \in SUBSET ledger[j].leftovers : there' = Restrict(there, DOMAIN there \ gone)
    BY <1>3 DEF LeftoversGo
  <2>2. /\ DOMAIN there' = DOMAIN there \ gone /\ \A q \in DOMAIN there' : there'[q] = there[q]
    BY <2>1 DEF Restrict
  <2>3. \A e : e.kind # "temp" => <<e>> \notin gone
    <3>1. \A q \in gone : q[1].kind = "temp"
      BY NamesOf
    <3> QED BY <3>1, OneStep
  <2>4. ASSUME NEW q \in DOMAIN there'
        PROVE  /\ IsSequence(q) /\ q # <<>> /\ IsEntry(there'[q])
               /\ Len(q) > 1 => IsFolder(there', <<q[1]>>) /\ q[1].kind # "temp"
    BY <1>1, <2>2, <2>3 DEF IsTree, IsFolder, Exists
  <2> QED BY <2>4 DEF IsTree
<1>4. CASE TemporaryGoes(j)
  <2>1. there' = Removed(there, <<Temporary(j)[1]>>)
    BY <1>4, NamesOf DEF TemporaryGoes, HasTemporary
  <2> QED BY <1>1, <2>1, TreeRemoved
<1>5. CASE TemporaryComes(j)
  <2>1. IsEntry(File(<<>>, Now, j))
    BY EmptyIsSequence DEF File, IsEntry
  <2>2. IsSequence(Temporary(j)) /\ Len(Temporary(j)) = 1
    BY <1>5, NamesOf DEF TemporaryComes, HasTemporary, AtTop
  <2> QED BY <1>1, <1>5, <2>1, <2>2, TreeChanged DEF TemporaryComes, Exists
<1>6. CASE TemporaryGrows(j)
  <2>1. IsSequence(Temporary(j)) /\ Len(Temporary(j)) = 1
    BY <1>6, NamesOf DEF TemporaryGrows, HasTemporary, AtTop
  <2> QED BY <1>1, <1>6, <2>1, TreeChanged DEF TemporaryGrows, Exists
<1>7. CASE TakesItsName(j)
  <2>1. there' = Renamed(there, <<Temporary(j)[1]>>, <<Target(j)[1]>>)
        /\ Temporary(j)[1] # Target(j)[1] /\ Target(j)[1].kind # "temp"
    BY <1>7, NamesOf DEF TakesItsName, HasTemporary, Renaming
  <2> QED BY <1>1, <2>1, TreeRenamed
<1>8. CASE GoesAside(j)
  <2> DEFINE old == Hidden("old", <<j, ledger[j].attempts>>)
  <2>1. there' = Renamed(there, <<Target(j)[1]>>, <<old>>)
        /\ Target(j)[1] # old /\ old.kind # "temp"
    BY <1>8, NamesOf DEF GoesAside, HasTemporary, Renaming
  <2> HIDE DEF old
  <2> QED BY <1>1, <2>1, TreeRenamed
<1>9. CASE OldGoes(j)
  <2>1. there' = Removed(there, <<Hidden("old", <<j, ledger[j].attempts>>)>>)
    BY <1>9, NamesOf DEF OldGoes
  <2> QED BY <1>1, <2>1, TreeRemoved
<1>10. CASE ComesBack(j)
  <2> DEFINE old == Hidden("old", <<j, ledger[j].attempts>>)
             back == Renamed(there, <<old>>, <<Target(j)[1]>>)
  <2>1. /\ there' = Removed(back, <<Temporary(j)[1]>>)
        /\ Target(j)[1] # old /\ Target(j)[1].kind # "temp"
    BY <1>10, NamesOf DEF ComesBack, HasTemporary, Renaming
  <2> HIDE DEF old
  <2>2. IsTree(back)
    BY <1>1, <2>1, TreeRenamed
  <2> HIDE DEF back
  <2> QED BY <2>1, <2>2, TreeRemoved
<1> QED BY <1>2, <1>3, <1>4, <1>5, <1>6, <1>7, <1>8, <1>9, <1>10, Effects

\* Every step of every job stays at the top.
LEMMA FlatNext ==
  ASSUME FilesOnly, IndInv, History, FlatInv, NEW j \in Jobs, Contents(j), StepOf(j)
  PROVE  FlatInv'
<1>1. \A k \in Jobs : FlatJob(k)'
  BY JobStaysFlat, OthersStayFlat
<1>2. FlatTables'
  BY TreeStays, ClaimsAtTop, AgreementsAtTop DEF FlatTables
<1> QED BY <1>1, <1>2 DEF FlatInv

-----------------------------------------------------------------------------
(* What a step leaves alone.                                               *)

SameAt(q) == /\ q \in DOMAIN there' <=> q \in DOMAIN there
             /\ q \in DOMAIN there => there'[q] = there[q]

\* What a remove is not about.
LEMMA SameRemoved ==
  ASSUME NEW folder, Paths(folder), NEW e, NEW q, q[1] # e
  PROVE  /\ q \in DOMAIN Removed(folder, <<e>>) <=> q \in DOMAIN folder
         /\ q \in DOMAIN folder => Removed(folder, <<e>>)[q] = folder[q]
<1> DEFINE after == Removed(folder, <<e>>)
<1>1. /\ DOMAIN after = {r \in DOMAIN folder : r[1] # e}
      /\ \A r \in DOMAIN after : after[r] = folder[r]
  BY RemovedTop
<1> HIDE DEF after
<1> QED BY <1>1 DEF after

\* What a rename is not about.
LEMMA SameRenamed ==
  ASSUME NEW folder, Paths(folder), NEW a, NEW b, a # b, NEW q, q[1] \notin {a, b}
  PROVE  /\ q \in DOMAIN Renamed(folder, <<a>>, <<b>>) <=> q \in DOMAIN folder
         /\ q \in DOMAIN folder => Renamed(folder, <<a>>, <<b>>)[q] = folder[q]
<1> DEFINE after == Renamed(folder, <<a>>, <<b>>)
<1>1. RenameOf(folder, a, b, after)
  BY RenamedTop
<1> HIDE DEF after
<1>2. q \in DOMAIN after => q \in DOMAIN folder
  BY <1>1 DEF RenameOf
<1>3. q \in DOMAIN folder => q \in DOMAIN after /\ after[q] = folder[q]
  BY <1>1 DEF RenameOf
<1> QED BY <1>2, <1>3 DEF after

\* A name a step is not about, and what is below it.
LEMMA ElsewhereStays ==
  ASSUME IndInv, History, FlatInv, NEW j \in Jobs, Contents(j), StepOf(j),
         NEW q, q \notin ledger[j].leftovers,
         pc[j] \in HasTemporary => q[1] # Temporary(j)[1] /\ q[1] # Target(j)[1],
         q[1] # Hidden("old", <<j, ledger[j].attempts>>)
  PROVE  SameAt(q)
<1>1. Paths(there) /\ (pc[j] \in HasTemporary => q # Temporary(j))
  BY DEF FlatInv, FlatTables, IsTree, Paths
<1>2. CASE there' = there
  BY <1>2 DEF SameAt
<1>3. CASE LeftoversGo(j)
  BY <1>3 DEF LeftoversGo, SameAt, Restrict
<1>4. CASE TemporaryGoes(j)
  <2>1. there' = Removed(there, <<Temporary(j)[1]>>) /\ pc[j] \in HasTemporary
    BY <1>4, NamesOf DEF TemporaryGoes, HasTemporary
  <2> QED BY <1>1, <2>1, SameRemoved DEF SameAt
<1>5. CASE TemporaryComes(j) \/ TemporaryGrows(j)
  <2>1. q # Temporary(j)
    BY <1>5 DEF TemporaryComes, TemporaryGrows, HasTemporary
  <2> QED BY <1>5, <2>1 DEF TemporaryComes, TemporaryGrows, SameAt, Put, With
<1>6. CASE TakesItsName(j)
  <2>1. there' = Renamed(there, <<Temporary(j)[1]>>, <<Target(j)[1]>>)
        /\ Temporary(j)[1] # Target(j)[1] /\ pc[j] \in HasTemporary
    BY <1>6, NamesOf DEF TakesItsName, HasTemporary, Renaming
  <2> QED BY <1>1, <2>1, SameRenamed DEF SameAt
<1>7. CASE GoesAside(j)
  <2> DEFINE old == Hidden("old", <<j, ledger[j].attempts>>)
  <2>1. there' = Renamed(there, <<Target(j)[1]>>, <<old>>)
        /\ Target(j)[1] # old /\ pc[j] \in HasTemporary
    BY <1>7, NamesOf DEF GoesAside, HasTemporary, Renaming
  <2>2. q[1] # old
    BY <1>1
  <2> HIDE DEF old
  <2> QED BY <1>1, <2>1, <2>2, SameRenamed DEF SameAt
<1>8. CASE OldGoes(j)
  <2>1. there' = Removed(there, <<Hidden("old", <<j, ledger[j].attempts>>)>>)
    BY <1>8, NamesOf DEF OldGoes
  <2> QED BY <1>1, <2>1, SameRemoved DEF SameAt
<1>9. CASE ComesBack(j)
  <2> DEFINE old == Hidden("old", <<j, ledger[j].attempts>>)
             back == Renamed(there, <<old>>, <<Target(j)[1]>>)
  <2>1. /\ there' = Removed(back, <<Temporary(j)[1]>>)
        /\ Target(j)[1] # old /\ pc[j] \in HasTemporary
    BY <1>9, NamesOf DEF ComesBack, HasTemporary, Renaming
  <2>2. q[1] # old
    BY <1>1
  <2> HIDE DEF old
  <2>3. Paths(back)
    BY <1>1, <2>1, RenamedTop DEF RenameOf
  <2>4. q \in DOMAIN back <=> q \in DOMAIN there
    BY <1>1, <2>1, <2>2, SameRenamed
  <2>5. q \in DOMAIN there => back[q] = there[q]
    BY <1>1, <2>1, <2>2, SameRenamed
  <2> HIDE DEF back
  <2> QED BY <1>1, <2>1, <2>3, <2>4, <2>5, SameRemoved DEF SameAt
<1> QED BY <1>2, <1>3, <1>4, <1>5, <1>6, <1>7, <1>8, <1>9, Effects

\* What other jobs write to is not what a step is about.
LEMMA TemporariesOfOthersStay ==
  ASSUME IndInv, History, FlatInv, NEW j \in Jobs, Contents(j), StepOf(j),
         NEW q, AtTop(q, {"temp", "filepart"}), q \notin ledger[j].leftovers,
         pc[j] \in HasTemporary => q # Temporary(j)
  PROVE  SameAt(q)
<1>1. q = <<q[1]>> /\ q[1].kind \in {"temp", "filepart"}
  BY TopPath
<1>2. pc[j] \in HasTemporary => q[1] # Temporary(j)[1] /\ q[1] # Target(j)[1]
  BY <1>1, NamesOf
<1>3. q[1] # Hidden("old", <<j, ledger[j].attempts>>)
  BY <1>1 DEF Hidden
<1> QED BY <1>2, <1>3, ElsewhereStays

\* Two jobs never write to one file.
LEMMA OthersDiffer ==
  ASSUME FlatInv, NEW j \in Jobs, NEW k \in Jobs, k # j, pc[k] \in HasTemporary
  PROVE  /\ AtTop(Temporary(k), {"temp", "filepart"}) /\ Temporary(k) \notin ledger[j].leftovers
         /\ pc[j] \in HasTemporary => Temporary(k) # Temporary(j)
<1>1. AtTop(Temporary(k), {"temp", "filepart"})
  BY NamesOf
<1>2. \A l \in Jobs : pc[l] \in HasTemporary =>
        IsPartial(l) \/ Temporary(l) = TempName(l, ledger[l].attempts)
  BY DEF FlatInv, FlatJob, FlatWork, OwnNames, Holding
<1>3. \A l \in Jobs : IsPartial(l) => Temporary(l)[1].kind = "filepart"
  BY DEF IsPartial, IsClaimed, FlatInv, FlatTables, AtTop
<1>4. \A l, n : TempName(l, n)[1].name = <<l, n>> /\ TempName(l, n)[1].kind = "temp"
  BY OneStep DEF TempName, Hidden
<1>5. \A n, m : TempName(k, n) # TempName(j, m)
  <2>1. ASSUME NEW n, NEW m, TempName(k, n) = TempName(j, m) PROVE FALSE
    <3>1. TempName(k, n)[1].name = TempName(j, m)[1].name
      BY <2>1
    <3>2. <<k, n>> = <<j, m>>
      BY <1>4, <3>1
    <3> QED BY <3>2
  <2> QED BY <2>1
<1>6. \A m : TempName(j, m) # Temporary(k)
  <2>1. CASE IsPartial(k)
    BY <1>3, <1>4, <2>1
  <2>2. CASE Temporary(k) = TempName(k, ledger[k].attempts)
    BY <1>5, <2>2
  <2> QED BY <1>2, <2>1, <2>2
<1>7. ASSUME pc[j] \in HasTemporary PROVE Temporary(k) # Temporary(j)
  <2>1. CASE Temporary(j) = TempName(j, ledger[j].attempts)
    BY <1>6, <2>1
  <2>2. CASE IsPartial(j) /\ IsPartial(k)
    BY <2>2 DEF IsPartial
  <2>3. CASE IsPartial(j) /\ Temporary(k) = TempName(k, ledger[k].attempts)
    BY <1>3, <1>4, <2>3
  <2> QED BY <1>2, <1>7, <2>1, <2>2, <2>3
<1> QED BY <1>1, <1>6, <1>7, NamesOf

-----------------------------------------------------------------------------
(* What jobs wrote is one item's, and whole once it is renamed.             *)

\* What is filled stays filled.
LEMMA SeenGrows ==
  ASSUME History, NEW j \in Jobs, StepOf(j)
  PROVE  seen.spliced \subseteq seen'.spliced /\ seen.filled \subseteq seen'.filled
<1>1. DOMAIN seen = DOMAIN NothingSeen
  BY DEF History
<1>2. CASE Walk(j)
  BY <1>1, <1>2 DEF Walk, Begin, CannotBegin, EnterFolder, LeaveFolder, Finish, Choose, See,
              ClearTarget, MakeFolder, RemoveSource, SourceRemoved, NothingSeen
<1>3. CASE Place(j)
  BY <1>1, <1>3 DEF Place, PlaceFree, PlaceBeside, PlaceFinished, PlaceAsk, PlaceAgain,
              PlaceStanding, Looks, See, SeeStanding, NothingSeen
<1>4. CASE Stage(j)
  BY <1>1, <1>4 DEF Stage, StageHidden, StagePartial, StandingPartial, HandlePartial,
              DiscardPartial, See, NothingSeen
<1>5. CASE Copy(j)
  <2>1. CASE Resume(j) \/ SetAside(j) \/ MoveIn(j)
    BY <1>1, <2>1 DEF Resume, SetAside, MoveIn, See, NothingSeen
  <2>2. CASE Rename(j)
    BY <1>1, <2>2 DEF Rename, NothingSeen
  <2> QED BY <1>5, <2>1, <2>2 DEF Copy, Create, Write, Close, Look, CleanUp, RenameAnswered
<1>6. CASE UserAnswers(j)
  BY <1>1, <1>6 DEF UserAnswers, Answer, AnswerPartial, HandlePartial, SeeDecision, See, NothingSeen
<1>7. CASE Fail(j) \/ Drop(j) \/ Cancel(j) \/ Abandon(j)
  BY <1>7 DEF Fail, Drop, Cancel, Abandon
<1> QED BY <1>2, <1>3, <1>4, <1>5, <1>6, <1>7 DEF StepOf

\* What is left after a remove is as sound as it was.
LEMMA EntriesRemoved ==
  ASSUME NEW folder, Paths(folder), EntriesIn(folder), NEW e
  PROVE  EntriesIn(Removed(folder, <<e>>))
<1> DEFINE after == Removed(folder, <<e>>)
<1>1. /\ DOMAIN after = {r \in DOMAIN folder : r[1] # e}
      /\ \A r \in DOMAIN after : after[r] = folder[r]
  BY RemovedTop
<1> HIDE DEF after
<1>2. EntriesIn(after)
  BY <1>1 DEF EntriesIn
<1> QED BY <1>2 DEF after

\* A rename at the top, of what is sound wherever it goes.
LEMMA EntriesRenamed ==
  ASSUME NEW folder, Paths(folder), EntriesIn(folder), NEW a, NEW b, a # b,
         b.kind \in {"proper", "old"},
         <<a>> \in DOMAIN folder /\ folder[<<a>>].by \in Jobs => Sound(folder[<<a>>])
  PROVE  EntriesIn(Renamed(folder, <<a>>, <<b>>))
<1> DEFINE after == Renamed(folder, <<a>>, <<b>>)
<1>1. RenameOf(folder, a, b, after)
  BY RenamedTop
<1> HIDE DEF after
<1>2. ASSUME NEW q \in DOMAIN after, after[q].by \in Jobs, q[1] = b
      PROVE  Len(q) = 1 /\ Sound(after[q])
  <2>1. Swap(q, a) \in DOMAIN folder /\ after[q] = folder[Swap(q, a)] /\ IsSequence(q) /\ q # <<>>
    BY <1>1, <1>2 DEF RenameOf, Paths
  <2>2. Len(Swap(q, a)) = Len(q) /\ Len(Swap(q, a)) = 1
    BY <1>2, <2>1, SwapFacts DEF EntriesIn
  <2>3. Swap(q, a) = <<a>>
    BY <2>1, <2>2, SwapFacts
  <2> QED BY <1>2, <2>1, <2>2, <2>3
<1>3. ASSUME NEW q \in DOMAIN after, q[1] # b
      PROVE  q \in DOMAIN folder /\ after[q] = folder[q]
  BY <1>1, <1>3 DEF RenameOf
<1>4. EntriesIn(after)
  BY <1>2, <1>3 DEF EntriesIn
<1> QED BY <1>4 DEF after

\* Longer by a chunk of the same item.
LEMMA LongerIsSound ==
  ASSUME NEW j \in Jobs, Contents(j), Exists(there, Temporary(j)), NEW data,
         IsEntry(there[Temporary(j)]), IsSequence(data), Longer(j, data)
  PROVE  /\ (\A n \in 1 .. Len(data) : data[n] = Item(j)) \/ Item(j) \in Big \cap seen.spliced
         /\ Len(data) = 2 => data # <<>> /\ (Last(data) \in seen.spliced \/ data = Whole(Last(data)))
<1> DEFINE old == there[Temporary(j)].data
<1>1. Len(old) \in Nat /\ Len(data) = Len(old) + 1 /\ Len(old) < Size(Item(j))
  BY LenProperties DEF IsEntry, IsSequence, Longer, Have
<1>2. /\ (\A n \in 1 .. Len(old) : old[n] = Item(j)) \/ Item(j) \in Big \cap seen.spliced
  BY DEF Longer, Contents, Uniform, Resumed
<1>3. \A n \in 1 .. Len(data) : data[n] = IF n = Len(data) THEN Item(j) ELSE old[n]
  BY DEF Longer
<1> HIDE DEF old
<1>4. (\A n \in 1 .. Len(data) : data[n] = Item(j)) \/ Item(j) \in Big \cap seen.spliced
  BY <1>1, <1>2, <1>3
<1>5. ASSUME Len(data) = 2
      PROVE  data # <<>> /\ (Last(data) \in seen.spliced \/ data = Whole(Last(data)))
  <2>1. data # <<>> /\ Last(data) = Item(j) /\ Size(Item(j)) = 2
    BY <1>1, <1>3, <1>5, EmptySeq DEF Last, Size
  <2>2. ASSUME \A n \in 1 .. Len(data) : data[n] = Item(j) PROVE data = Whole(Item(j))
    <3>1. data = [n \in 1 .. 2 |-> data[n]]
      BY <1>5, LenProperties DEF IsSequence
    <3> QED BY <1>5, <2>1, <2>2, <3>1 DEF Whole
  <2> QED BY <1>4, <2>1, <2>2
<1> QED BY <1>4, <1>5

\* What jobs wrote and has its name is whole after every step.
LEMMA EntriesStay ==
  ASSUME IndInv, History, FlatInv, Entries, NEW j \in Jobs, Contents(j), StepOf(j)
  PROVE  Entries'
<1>1. Paths(there) /\ IsTree(there)
  BY DEF FlatInv, FlatTables, IsTree, Paths
<1>2. EntriesIn(there')
  <2>1. CASE there' = there
    BY <2>1 DEF Entries
  <2>2. CASE LeftoversGo(j)
    BY <2>2 DEF LeftoversGo, Entries, EntriesIn, Restrict
  <2>3. CASE TemporaryGoes(j)
    <3>1. there' = Removed(there, <<Temporary(j)[1]>>) /\ pc[j] \in HasTemporary
      BY <2>3, NamesOf DEF TemporaryGoes, HasTemporary
    <3> QED BY <1>1, <3>1, EntriesRemoved DEF Entries
  <2>4. CASE TemporaryComes(j)
    <3>1. /\ DOMAIN there' = DOMAIN there \cup {Temporary(j)} /\ there'[Temporary(j)].data = <<>>
          /\ \A q \in DOMAIN there \ {Temporary(j)} : there'[q] = there[q]
      BY <2>4 DEF TemporaryComes, Put, With, File
    <3>2. Len(Temporary(j)) = 1 /\ Temporary(j)[1].kind \in {"temp", "filepart"}
      BY <2>4, NamesOf DEF TemporaryComes, HasTemporary, AtTop
    <3>3. Len(<<>>) = 0
      BY EmptySeq
    <3> QED BY <3>1, <3>2, <3>3 DEF Entries, EntriesIn
  <2>5. CASE TemporaryGrows(j)
    <3>1. Len(Temporary(j)) = 1 /\ Temporary(j)[1].kind \in {"temp", "filepart"}
      BY <2>5, NamesOf DEF TemporaryGrows, HasTemporary, AtTop
    <3>2. PICK e : /\ IsEntry(e)
                   /\ e.data = there[Temporary(j)].data \/ Longer(j, e.data)
                   /\ there' = [there EXCEPT ![Temporary(j)] = e]
      BY <2>5 DEF TemporaryGrows
    <3>3. Exists(there, Temporary(j)) /\ IsEntry(there[Temporary(j)])
      BY <1>1, <2>5 DEF TemporaryGrows, IsTree, Exists
    <3>4. Temporary(j)[1].kind = "filepart" /\ Len(e.data) = 2 => Sound(e)
      <4>1. CASE Longer(j, e.data)
        <5>1. IsSequence(e.data)
          BY <3>2 DEF IsEntry
        <5> QED BY <3>3, <4>1, <5>1, LongerIsSound DEF Sound
      <4>2. CASE e.data = there[Temporary(j)].data /\ pc[j] = "stream"
        BY <3>3, <4>2 DEF Sound, Entries, EntriesIn, Contents, Exists
      <4>3. CASE e.data = there[Temporary(j)].data /\ pc[j] = "resume"
        BY <3>3, <4>3 DEF Sound, Entries, EntriesIn, Contents, Exists, Have
      <4> QED BY <2>5, <3>2, <4>1, <4>2, <4>3 DEF TemporaryGrows
    <3> QED BY <3>1, <3>2, <3>3, <3>4 DEF Entries, EntriesIn, Exists
  <2>6. CASE TakesItsName(j)
    <3>1. there' = Renamed(there, <<Temporary(j)[1]>>, <<Target(j)[1]>>)
          /\ Temporary(j)[1] # Target(j)[1] /\ Target(j)[1].kind = "proper"
          /\ Temporary(j) = <<Temporary(j)[1]>> /\ pc[j] \in Renaming
      BY <2>6, NamesOf DEF TakesItsName, HasTemporary, Renaming
    <3>2. Sound(there[<<Temporary(j)[1]>>])
      BY <2>6, <3>1 DEF TakesItsName, Contents
    <3> QED BY <1>1, <3>1, <3>2, EntriesRenamed DEF Entries
  <2>7. CASE GoesAside(j)
    <3> DEFINE old == Hidden("old", <<j, ledger[j].attempts>>)
    <3>1. there' = Renamed(there, <<Target(j)[1]>>, <<old>>)
          /\ Target(j)[1] # old /\ Target(j)[1].kind = "proper" /\ old.kind = "old"
      BY <2>7, NamesOf DEF GoesAside, HasTemporary, Renaming
    <3> HIDE DEF old
    <3>2. ASSUME <<Target(j)[1]>> \in DOMAIN there, there[<<Target(j)[1]>>].by \in Jobs
          PROVE  Sound(there[<<Target(j)[1]>>])
      BY <3>1, <3>2, OneStep DEF Entries, EntriesIn
    <3> QED BY <1>1, <3>1, <3>2, EntriesRenamed DEF Entries
  <2>8. CASE OldGoes(j)
    <3>1. there' = Removed(there, <<Hidden("old", <<j, ledger[j].attempts>>)>>)
      BY <2>8, NamesOf DEF OldGoes
    <3> QED BY <1>1, <3>1, EntriesRemoved DEF Entries
  <2>9. CASE ComesBack(j)
    <3> DEFINE old == Hidden("old", <<j, ledger[j].attempts>>)
               back == Renamed(there, <<old>>, <<Target(j)[1]>>)
    <3>1. /\ there' = Removed(back, <<Temporary(j)[1]>>)
          /\ Target(j)[1] # old /\ Target(j)[1].kind = "proper" /\ old.kind = "old"
      BY <2>9, NamesOf DEF ComesBack, HasTemporary, Renaming
    <3> HIDE DEF old
    <3>2. ASSUME <<old>> \in DOMAIN there, there[<<old>>].by \in Jobs PROVE Sound(there[<<old>>])
      BY <3>1, <3>2, OneStep DEF Entries, EntriesIn
    <3>3. Paths(back)
      BY <1>1, <3>1, RenamedTop DEF RenameOf
    <3>4. EntriesIn(back)
      BY <1>1, <3>1, <3>2, EntriesRenamed DEF Entries
    <3> HIDE DEF back
    <3> QED BY <3>1, <3>3, <3>4, EntriesRemoved
  <2> QED BY <2>1, <2>2, <2>3, <2>4, <2>5, <2>6, <2>7, <2>8, <2>9, Effects
<1>3. seen.spliced \subseteq seen'.spliced
  BY SeenGrows
<1>4. \A e : Sound(e) => Sound(e)'
  BY <1>3 DEF Sound
<1> QED BY <1>2, <1>4 DEF Entries, EntriesIn

\* What is under the name of a .filepart is what was there, or the job's that took a step.
LEMMA PartialsStay ==
  ASSUME IndInv, History, FlatInv, NEW j \in Jobs, Contents(j), StepOf(j),
         NEW q, AtTop(q, {"filepart"}), q \in DOMAIN there'
  PROVE  \/ q \in DOMAIN there /\ there'[q] = there[q]
         \/ there'[q].by = j
<1>1. AtTop(q, {"temp", "filepart"}) /\ q = <<q[1]>> /\ q[1].kind = "filepart"
  BY TopPath DEF AtTop
<1>2. q \notin ledger[j].leftovers
  BY <1>1, NamesOf
<1>3. CASE ~(pc[j] \in HasTemporary /\ q = Temporary(j))
  BY <1>1, <1>2, <1>3, TemporariesOfOthersStay DEF SameAt
<1>4. CASE pc[j] \in HasTemporary /\ q = Temporary(j)
  <2>0. Paths(there) /\ <<q[1]>>[1] = q[1]
    BY OneStep DEF FlatInv, FlatTables, IsTree, Paths
  <2>1. CASE there' = there
    BY <2>1
  <2>2. CASE TemporaryComes(j)
    BY <1>4, <2>2 DEF TemporaryComes, Put, With, File
  <2>3. CASE TemporaryGrows(j)
    BY <1>4, <2>3 DEF TemporaryGrows, Exists
  <2>4. CASE TemporaryGoes(j)
    <3>1. there' = Removed(there, <<q[1]>>)
      BY <1>1, <1>4, <2>4 DEF TemporaryGoes
    <3> DEFINE after == Removed(there, <<q[1]>>)
    <3>2. DOMAIN after = {r \in DOMAIN there : r[1] # q[1]}
      BY <2>0, RemovedTop
    <3> QED BY <3>1, <3>2
  <2>5. CASE TakesItsName(j)
    <3>1. there' = Renamed(there, <<Temporary(j)[1]>>, <<Target(j)[1]>>)
          /\ Temporary(j)[1] # Target(j)[1]
      BY <1>4, <2>5, NamesOf DEF TakesItsName
    <3>2. RenameOf(there, Temporary(j)[1], Target(j)[1], there')
      BY <2>0, <3>1, RenamedTop
    <3> QED BY <1>4, <3>2 DEF RenameOf
  <2>6. CASE GoesAside(j)
    <3> DEFINE old == Hidden("old", <<j, ledger[j].attempts>>)
    <3>1. there' = Renamed(there, <<Target(j)[1]>>, <<old>>)
          /\ Target(j)[1] # old /\ q[1] # Target(j)[1] /\ q[1] # old
      BY <1>1, <1>4, <2>6, NamesOf DEF GoesAside
    <3> HIDE DEF old
    <3> QED BY <2>0, <3>1, SameRenamed
  <2>7. CASE ComesBack(j)
    <3> DEFINE old == Hidden("old", <<j, ledger[j].attempts>>)
               back == Renamed(there, <<old>>, <<Target(j)[1]>>)
    <3>1. there' = Removed(back, <<q[1]>>) /\ Target(j)[1] # old
      BY <1>1, <1>4, <2>7, NamesOf DEF ComesBack
    <3>2. Paths(back)
      BY <2>0, <3>1, RenamedTop DEF RenameOf
    <3> HIDE DEF back
    <3> DEFINE after == Removed(back, <<q[1]>>)
    <3>3. DOMAIN after = {r \in DOMAIN back : r[1] # q[1]}
      BY <3>2, RemovedTop
    <3> QED BY <3>1, <3>3
  <2> QED BY <1>4, <2>1, <2>2, <2>3, <2>4, <2>5, <2>6, <2>7, Effects
          DEF LeftoversGo, OldGoes, HasTemporary, Renaming
<1> QED BY <1>3, <1>4

Working == {"askpartial", "discard", "resume", "stream"} \cup Renaming

\* A job with nothing at hand to write.
LEMMA RestingContents ==
  ASSUME IndInv, History, FlatInv, NEW j \in Jobs, Contents(j), StepOf(j),
         pc'[j] \notin Working, ledger'[j].partials \subseteq ledger[j].partials
  PROVE  Contents(j)'
<1>1. \A q \in ledger'[j].partials \cap DOMAIN there' : there'[q].by \in Jobs
  BY PartialsStay DEF Contents, FlatInv, FlatJob, FlatBooks
<1> QED BY <1>1 DEF Contents, Working

\* The step of one job leaves what the others know of their files.
LEMMA OthersContents ==
  ASSUME IndInv, History, FlatInv, NEW j \in Jobs, Contents(j), StepOf(j),
         NEW k \in Jobs, k # j, Contents(k)
  PROVE  Contents(k)'
<1>1. /\ pc'[k] = pc[k] /\ work'[k] = work[k] /\ ledger'[k] = ledger[k]
      /\ Temporary(k)' = Temporary(k) /\ Item(k)' = Item(k)
  BY Bystanders DEF Others, Temporary, Item
<1>2. seen.spliced \subseteq seen'.spliced
  BY SeenGrows
<1>3. \A e : Sound(e) => Sound(e)'
  BY <1>2 DEF Sound
<1>4. \A q \in ledger'[k].partials \cap DOMAIN there' : there'[q].by \in Jobs
  BY <1>1, PartialsStay DEF Contents, FlatInv, FlatJob, FlatBooks
<1>5. pc[k] \in HasTemporary => SameAt(Temporary(k))
  BY OthersDiffer, TemporariesOfOthersStay
<1>6. pc[k] \in {"askpartial", "discard", "resume"} =>
        Item(k) \in Big /\ Temporary(k)[1].kind = "filepart"
  BY DEF Contents
<1>7. pc[k] \in {"askpartial", "resume"} /\ Exists(there, Temporary(k))' =>
        Have(k)' \in 1 .. 2 /\ (Have(k)' = 2 => there'[Temporary(k)].by \in Jobs)
  BY <1>1, <1>5 DEF Contents, SameAt, Have, Exists, HasTemporary
<1>8. ASSUME pc[k] = "stream", Exists(there, Temporary(k))'
      PROVE  /\ there'[Temporary(k)].by = k /\ work'[k].offset = Have(k)'
             /\ Uniform(k)' \/ Resumed(k)'
  <2>1. there'[Temporary(k)] = there[Temporary(k)] /\ Exists(there, Temporary(k))
    BY <1>1, <1>5, <1>8 DEF SameAt, Exists, HasTemporary
  <2>2. there[Temporary(k)].by = k /\ work[k].offset = Have(k) /\ (Uniform(k) \/ Resumed(k))
    BY <1>8, <2>1 DEF Contents
  <2>3. Uniform(k) => Uniform(k)'
    BY <1>1, <2>1 DEF Uniform
  <2>4. Resumed(k) => Resumed(k)'
    BY <1>1, <1>2, <1>3, <2>1 DEF Resumed
  <2> QED BY <1>1, <2>1, <2>2, <2>3, <2>4 DEF Have
<1>9. pc[k] \in Renaming /\ Exists(there, Temporary(k))' => Sound(there[Temporary(k)])'
  BY <1>1, <1>3, <1>5 DEF Contents, SameAt, Exists, HasTemporary
<1> QED BY <1>1, <1>4, <1>6, <1>7, <1>8, <1>9 DEF Contents

\* A .filepart is taken, or asked about.
LEMMA StageContents ==
  ASSUME IndInv, History, FlatInv, NEW j \in Jobs, Contents(j), StagePartial(j)
  PROVE  Contents(j)'
<1> DEFINE partial == PartialOf(j)
<1>1. Tables /\ Records(j) /\ pc[j] = "stage" /\ StepOf(j)
  BY DEF IndInv, JobInv, StagePartial, StepOf, Stage
<1>2. /\ Item(j) \in Big /\ UNCHANGED <<there, ledger>>
      /\ Temporary(j)' = partial /\ Item(j)' = Item(j)
  BY <1>1 DEF StagePartial, Tables, Records, Temporary, Item
<1>3. partial[1].kind = "filepart"
  <2>1. AtTop(Target(j), {"proper"})
    BY <1>1 DEF FlatInv, FlatJob, FlatWork, Targeting
  <2>2. PartialOf(j) = <<Partial(Last(Target(j)))>>
    BY <2>1, TopPath DEF PartialOf, PartialBeside
  <2> QED BY <2>2, OneStep DEF Partial
<1>4. \A q \in ledger[j].partials \cap DOMAIN there : there[q].by \in Jobs
  BY DEF Contents
<1>5. pc'[j] \in {"create", "discard", "resume", "askpartial"}
  BY <1>1 DEF StagePartial, Goto, Tables
<1>6. ASSUME pc'[j] \in {"askpartial", "resume"}, Exists(there, partial)
      PROVE  /\ Len(there[partial].data) \in 1 .. 2
             /\ Len(there[partial].data) = 2 => there[partial].by \in Jobs
  <2> DEFINE have == Len(there[partial].data)
  <2>1. IsEntry(there[partial])
    BY <1>6 DEF FlatInv, FlatTables, IsTree, Exists
  <2>2. have \in Nat /\ Size(Item(j)) = 2
    BY <1>2, <2>1, LenProperties DEF IsEntry, IsSequence, Size
  <2>3. have > 0 /\ (have < 2 \/ (partial \in ledger[j].partials /\ have = 2))
    BY <1>1, <1>6, <2>2 DEF StagePartial, Goto, Tables
  <2>4. have \in 1 .. 2
    <3>1. have \in Nat /\ have > 0 /\ (have < 2 \/ have = 2)
      BY <2>2, <2>3
    <3> HIDE DEF have
    <3> QED BY <3>1
  <2>5. have = 2 => partial \in ledger[j].partials \cap DOMAIN there
    BY <1>6, <2>3 DEF Exists
  <2> QED BY <1>4, <2>4, <2>5
<1> HIDE DEF partial
<1> QED BY <1>2, <1>3, <1>4, <1>5, <1>6 DEF Contents, Have, Exists, Renaming

\* The answer is to resume it, or to start over.
LEMMA HandlePartialContents ==
  ASSUME IndInv, History, FlatInv, NEW j \in Jobs, Contents(j), NEW answer,
         HandlePartial(j, answer), StepOf(j)
  PROVE  Contents(j)'
<1>1. Tables /\ Records(j) /\ pc[j] = "askpartial" /\ UNCHANGED <<there, ledger>>
  BY DEF IndInv, JobInv, HandlePartial
<1>2. CASE answer = "skip"
  <2>1. pc'[j] = "walk"
    BY <1>1, <1>2 DEF HandlePartial, Settle, Goto, Tables
  <2> QED BY <1>1, <2>1, RestingContents DEF Working, Renaming
<1>3. CASE answer # "skip"
  <2>1. pc'[j] \in {"resume", "discard"} /\ UNCHANGED work
    BY <1>1, <1>3 DEF HandlePartial, Goto, Tables
  <2> QED BY <1>1, <2>1 DEF Contents, Item, Temporary, Have, Exists, Renaming
<1> QED BY <1>2, <1>3

\* A file that was created has nothing in it.
LEMMA CreateContents ==
  ASSUME IndInv, History, FlatInv, NEW j \in Jobs, Contents(j), Create(j)
  PROVE  Contents(j)'
<1>1. Tables /\ Records(j) /\ pc[j] = "create" /\ StepOf(j) /\ pc'[j] = "stream"
  BY DEF IndInv, JobInv, Create, StepOf, Copy, Goto, Tables
<1>2. /\ there'[Temporary(j)].data = <<>> /\ there'[Temporary(j)].by = j
      /\ Temporary(j)' = Temporary(j) /\ work'[j].offset = 0
      /\ ledger'[j].partials \subseteq ledger[j].partials \cup {Temporary(j)}
  BY <1>1 DEF Create, Put, With, File, Tables, Records, Temporary, Note, OwnPartials
<1>3. \A q \in ledger'[j].partials \cap DOMAIN there' : there'[q].by \in Jobs
  BY <1>1, <1>2, PartialsStay DEF Contents, FlatInv, FlatJob, FlatBooks
<1>4. Len(<<>>) = 0 /\ \A n \in 1 .. 0 : FALSE
  BY EmptySeq
<1>5. Uniform(j)'
  BY <1>2, <1>4 DEF Uniform
<1> QED BY <1>1, <1>2, <1>3, <1>4, <1>5 DEF Contents, Have, Renaming

\* A file that is resumed is all of the item, or is known to be spliced.
LEMMA ResumeContents ==
  ASSUME IndInv, History, FlatInv, Entries, NEW j \in Jobs, Contents(j), Resume(j)
  PROVE  Contents(j)'
<1> DEFINE old == there[Temporary(j)]
<1>1. Tables /\ Records(j) /\ pc[j] = "resume" /\ StepOf(j) /\ pc'[j] = "stream"
  BY DEF IndInv, JobInv, Resume, StepOf, Copy, Goto, Tables
<1>2. Exists(there, Temporary(j)) /\ IsEntry(old)
  BY DEF Resume, FlatInv, FlatTables, IsTree, Exists
<1>3. /\ there'[Temporary(j)].data = old.data /\ there'[Temporary(j)].by = j
      /\ Temporary(j)' = Temporary(j) /\ Item(j)' = Item(j) /\ work'[j].offset = Have(j)
      /\ ledger'[j].partials \subseteq ledger[j].partials \cup {Temporary(j)}
  BY <1>1, <1>2 DEF Resume, IsEntry, Exists, Tables, Records, Temporary, Item, Note, OwnPartials
<1>4. \A q \in ledger'[j].partials \cap DOMAIN there' : there'[q].by \in Jobs
  BY <1>1, <1>3, PartialsStay DEF Contents, FlatInv, FlatJob, FlatBooks
<1>5. /\ Item(j) \in Big /\ Temporary(j)[1].kind = "filepart" /\ (Have(j) = 2 => old.by \in Jobs)
  BY <1>1, <1>2 DEF Contents
<1>6. Len(old.data) = 2 => Sound(old)
  BY <1>2, <1>5 DEF Entries, EntriesIn, Exists, Have
<1>7. Uniform(j)' \/ Resumed(j)'
  <2>1. CASE \A n \in 1 .. Have(j) : old.data[n] = Item(j)
    BY <1>3, <2>1 DEF Uniform, Have
  <2>2. CASE ~ \A n \in 1 .. Have(j) : old.data[n] = Item(j)
    <3>1. Item(j) \in seen'.spliced
      BY <2>2 DEF Resume, See, History, NothingSeen
    <3>2. Sound(old) => Sound(there[Temporary(j)])'
      BY <1>1, <1>3, SeenGrows DEF Sound
    <3> HIDE DEF old
    <3> QED BY <1>3, <1>5, <1>6, <3>1, <3>2 DEF Resumed
  <2> QED BY <2>1, <2>2
<1> QED BY <1>1, <1>3, <1>4, <1>7 DEF Contents, Have, Renaming

\* What is written is the item's next piece.
LEMMA WriteContents ==
  ASSUME IndInv, History, FlatInv, NEW j \in Jobs, Contents(j), Write(j)
  PROVE  Contents(j)'
<1> DEFINE old == there[Temporary(j)]
           e == there'[Temporary(j)]
<1>1. /\ Tables /\ Records(j) /\ pc[j] = "stream" /\ StepOf(j) /\ pc'[j] = "stream"
      /\ UNCHANGED <<ledger, seen>>
  BY DEF IndInv, JobInv, Write, StepOf, Copy, Tables
<1>2. Exists(there, Temporary(j)) /\ IsEntry(old) /\ old.by = j /\ work[j].offset = Have(j)
  BY <1>1 DEF Write, FlatInv, FlatTables, IsTree, Exists, Contents
<1>3. Temporary(j)' = Temporary(j) /\ Item(j)' = Item(j) /\ work'[j].offset = Have(j) + 1
  BY <1>1, <1>2 DEF Write, Tables, Records, Temporary, Item
<1>4. e.by = j /\ IsSequence(e.data) /\ Longer(j, e.data)
  <2>1. Len(old.data) \in Nat
    BY <1>2, LenProperties DEF IsEntry, IsSequence
  <2> DEFINE at == work[j].offset + 1
             data == [k \in 1 .. (IF at > Len(old.data) THEN at ELSE Len(old.data)) |->
                        IF k = at THEN Item(j) ELSE old.data[k]]
  <2>2. e = [old EXCEPT !.data = data]
    BY <1>2 DEF Write, Exists
  <2>3. at \in Nat /\ at > Len(old.data) /\ at = Have(j) + 1 /\ at <= Size(Item(j))
        /\ Have(j) < Size(Item(j))
    BY <1>2, <2>1 DEF Write, Have, Size
  <2>4. /\ data = [k \in 1 .. at |-> data[k]]
        /\ \A k \in 1 .. at : data[k] = IF k = at THEN Item(j) ELSE old.data[k]
    BY <2>3
  <2> HIDE DEF data, at
  <2>5. IsSequence(data) /\ Len(data) = at
    BY <2>3, <2>4, Enumerated
  <2>6. e.by = j /\ e.data = data
    BY <1>2, <2>2 DEF IsEntry
  <2> HIDE DEF e
  <2> QED BY <1>1, <2>3, <2>4, <2>5, <2>6 DEF Longer
<1>5. \A q \in ledger'[j].partials \cap DOMAIN there' : there'[q].by \in Jobs
  BY <1>1, PartialsStay DEF Contents, FlatInv, FlatJob, FlatBooks
<1>6. /\ (\A n \in 1 .. Len(e.data) : e.data[n] = Item(j)) \/ Item(j) \in Big \cap seen.spliced
      /\ Len(e.data) = 2 => Sound(e)
  <2> HIDE DEF e
  <2> QED BY <1>2, <1>4, LongerIsSound DEF Sound
<1>7. Uniform(j)' \/ Resumed(j)'
  <2>1. Sound(e) => Sound(there[Temporary(j)])'
    BY <1>1, <1>3 DEF Sound
  <2>2. CASE \A n \in 1 .. Len(e.data) : e.data[n] = Item(j)
    BY <1>3, <2>2 DEF Uniform
  <2>3. CASE Item(j) \in Big \cap seen.spliced
    BY <1>1, <1>3, <1>6, <2>1, <2>3 DEF Resumed
  <2> QED BY <1>6, <2>2, <2>3
<1>8. Have(j)' = Have(j) + 1
  BY <1>3, <1>4 DEF Longer, Have
<1> QED BY <1>1, <1>3, <1>4, <1>5, <1>7, <1>8 DEF Contents, Renaming

\* A file that is closed has all of the item at hand.
LEMMA CloseContents ==
  ASSUME IndInv, History, FlatInv, NEW j \in Jobs, Contents(j), Close(j)
  PROVE  Contents(j)'
<1> DEFINE old == there[Temporary(j)]
<1>1. /\ Tables /\ Records(j) /\ pc[j] = "stream" /\ StepOf(j) /\ pc'[j] = "look"
      /\ UNCHANGED <<ledger, seen, work>>
  BY DEF IndInv, JobInv, Close, StepOf, Copy, Tables, Goto
<1>2. /\ Exists(there, Temporary(j)) /\ IsEntry(old) /\ Have(j) = Size(Item(j))
      /\ Uniform(j) \/ Resumed(j)
  BY <1>1 DEF Close, FlatInv, FlatTables, IsTree, Exists, Contents
<1>3. there'[Temporary(j)].data = old.data /\ Temporary(j)' = Temporary(j)
  BY <1>1, <1>2 DEF Close, IsEntry, Exists, Temporary
<1>4. Sound(old)
  <2>1. old.data # <<>> /\ Last(old.data) = old.data[Len(old.data)] /\ Len(old.data) \in 1 .. 2
    BY <1>2, EmptySeq DEF Have, Size, Last
  <2>2. CASE Uniform(j)
    <3>1. old.data = [n \in 1 .. Len(old.data) |-> old.data[n]]
      BY <1>2, LenProperties DEF IsEntry, IsSequence
    <3>2. old.data = Whole(Item(j)) /\ Last(old.data) = Item(j)
      BY <1>2, <2>1, <2>2, <3>1 DEF Uniform, Whole, Have
    <3> QED BY <2>1, <3>2 DEF Sound
  <2>3. CASE Resumed(j)
    BY <1>2, <2>3 DEF Resumed, Size, Have
  <2> QED BY <1>2, <2>2, <2>3
<1>5. \A q \in ledger'[j].partials \cap DOMAIN there' : there'[q].by \in Jobs
  BY <1>1, PartialsStay DEF Contents, FlatInv, FlatJob, FlatBooks
<1>6. Sound(there[Temporary(j)])'
  BY <1>1, <1>3, <1>4 DEF Sound
<1> QED BY <1>1, <1>5, <1>6 DEF Contents, Renaming

\* What is closed stays as it is.
LEMMA LookContents ==
  ASSUME IndInv, History, FlatInv, NEW j \in Jobs, Contents(j), Look(j) \/ SetAside(j)
  PROVE  Contents(j)'
<1>1. /\ Tables /\ Records(j) /\ pc[j] \in Renaming /\ StepOf(j) /\ pc'[j] \in Renaming
      /\ ledger' = ledger
  BY DEF IndInv, JobInv, Look, SetAside, StepOf, Copy, Tables, Goto, Renaming
<1>2. Temporary(j)' = Temporary(j)
  BY <1>1 DEF Look, SetAside, Tables, Records, Temporary
<1>3. SameAt(Temporary(j))
  <2>1. CASE Look(j)
    BY <2>1 DEF Look, SameAt
  <2>2. CASE SetAside(j)
    <3> DEFINE old == Hidden("old", <<j, ledger[j].attempts>>)
    <3>1. /\ AtTop(Target(j), {"proper"}) /\ Target(j) = <<Target(j)[1]>>
          /\ Temporary(j)[1] \notin {Target(j)[1], old} /\ Target(j)[1] # old
      BY <1>1, NamesOf DEF HasTemporary
    <3>2. there' = Renamed(there, <<Target(j)[1]>>, <<old>>)
      BY <2>2, <3>1, TopPath DEF SetAside
    <3> HIDE DEF old
    <3>3. Paths(there)
      BY DEF FlatInv, FlatTables, IsTree, Paths
    <3> QED BY <3>1, <3>2, <3>3, SameRenamed DEF SameAt
  <2> QED BY <2>1, <2>2
<1>4. \A q \in ledger'[j].partials \cap DOMAIN there' : there'[q].by \in Jobs
  BY <1>1, PartialsStay DEF Contents, FlatInv, FlatJob, FlatBooks
<1>5. Exists(there, Temporary(j))' => Sound(there[Temporary(j)])'
  BY <1>1, <1>2, <1>3, SeenGrows DEF Contents, SameAt, Exists, Sound
<1> QED BY <1>1, <1>4, <1>5 DEF Contents, Renaming

\* Every step keeps what a job knows of its file.
LEMMA OwnContents ==
  ASSUME IndInv, History, FlatInv, Entries, NEW j \in Jobs, Contents(j), StepOf(j)
  PROVE  Contents(j)'
<1>1. Tables /\ Records(j)
  BY DEF IndInv, JobInv
<1>2. CASE \/ StagePartial(j) \/ (\E answer : HandlePartial(j, answer)) \/ Create(j) \/ Resume(j)
           \/ Write(j) \/ Close(j) \/ Look(j) \/ SetAside(j)
  BY <1>2, StageContents, HandlePartialContents, CreateContents, ResumeContents, WriteContents,
     CloseContents, LookContents
<1>3. CASE Walk(j) \/ Place(j) \/ \E answer \in Answers, all \in ForAll : Answer(j, answer, all)
  <2>1. ASSUME NEW stack, NEW done, Settle(j, stack, done) PROVE pc'[j] = "walk"
    BY <1>1, <2>1 DEF Settle, Goto, Tables
  <2>2. ASSUME NEW value, Note(j, "moved", value) PROVE ledger'[j].partials = ledger[j].partials
    BY <1>1, <2>2 DEF Note, Tables, Records
  <2>3. CASE Walk(j)
    <3>1. ledger'[j].partials = ledger[j].partials
      <4>1. CASE Begin(j)
        BY <1>1, <4>1 DEF Begin, Tables, Records
      <4>2. CASE SourceRemoved(j)
        BY <2>2, <4>2 DEF SourceRemoved, Finished
      <4> QED BY <2>3, <4>1, <4>2 DEF Walk, CannotBegin, EnterFolder, LeaveFolder, Finish, Choose,
                ClearTarget, MakeFolder, RemoveSource
    <3>2. pc'[j] \notin Working
      BY <1>1, <2>1, <2>3 DEF Walk, Begin, CannotBegin, EnterFolder, LeaveFolder, Finish, Choose,
                ClearTarget, MakeFolder, RemoveSource, SourceRemoved, Finished, Goto, Tables,
                Working, Renaming
    <3> QED BY <3>1, <3>2, RestingContents
  <2>4. ASSUME NEW decision, IsDecision(decision), NEW book, book.partials = ledger[j].partials,
               DOMAIN book = DOMAIN NewLedger, Follow(j, decision, book)
        PROVE  ledger'[j].partials = ledger[j].partials /\ pc'[j] \notin Working
    <3>1. ledger'[j] = book \/ \E written : ledger'[j] = [book EXCEPT !.written = written]
      BY <1>1, <2>4 DEF Follow, PlaceAt, IsDecision, Tables
    <3>2. ledger'[j].partials = ledger[j].partials
      BY <2>4, <3>1 DEF NewLedger
    <3>3. CASE decision.do = "overwrite"
      <4>1. pc'[j] \in {"stage", "clear", "list", "mkdir"}
        BY <1>1, <2>4, <3>3 DEF Follow, PlaceAt, Goto, Tables
      <4> QED BY <3>2, <4>1 DEF Working, Renaming
    <3>4. CASE decision.do = "skip"
      <4>1. Settle(j, walk[j], FALSE)
        BY <2>4, <3>4 DEF Follow
      <4>2. pc'[j] = "walk"
        BY <2>1, <4>1
      <4> QED BY <3>2, <4>2 DEF Working, Renaming
    <3>5. CASE decision.do = "rename"
      BY <1>1, <2>4, <3>5 DEF Follow, Goto, Tables, Working, Renaming
    <3> QED BY <2>4, <3>2, <3>3, <3>4, <3>5 DEF IsDecision
  <2>5. ASSUME NEW decision, IsDecision(decision), Decide(j, decision)
        PROVE  ledger'[j].partials = ledger[j].partials /\ pc'[j] \notin Working
    <3> DEFINE book == [ledger[j] EXCEPT !.decided = With(@, Item(j), decision)]
    <3>1. Follow(j, decision, book) /\ book.partials = ledger[j].partials
          /\ DOMAIN book = DOMAIN NewLedger
      BY <1>1, <2>5 DEF Decide, Records, NewLedger
    <3> HIDE DEF book
    <3> QED BY <2>4, <2>5, <3>1
  <2>6. CASE PlaceFree(j) \/ PlaceBeside(j) \/ PlaceFinished(j) \/ PlaceAsk(j)
    <3>1. ledger'[j].partials = ledger[j].partials
      <4>1. CASE PlaceFree(j)
        BY <1>1, <4>1 DEF PlaceFree, PlaceAt, Tables, Records
      <4>2. CASE PlaceFinished(j)
        BY <2>2, <4>2 DEF PlaceFinished, Finished
      <4> QED BY <2>6, <4>1, <4>2 DEF PlaceBeside, PlaceAsk
    <3>2. pc'[j] \notin Working
      BY <1>1, <2>1, <2>6 DEF PlaceFree, PlaceBeside, PlaceFinished, PlaceAsk, PlaceAt, Finished,
                Looks, Goto, Tables, Working, Renaming
    <3> QED BY <1>3, <3>1, <3>2, RestingContents
  <2>7. CASE PlaceAgain(j)
    <3>1. IsDecision(work[j].earlier) /\ Follow(j, work[j].earlier, ledger[j])
      BY <2>7, WhatIsFollowed DEF PlaceAgain
    <3> QED BY <1>1, <2>4, <3>1, RestingContents DEF Records, NewLedger
  <2>8. CASE PlaceStanding(j)
    <3>1. PICK decision \in Decisions(j, Standing(j)) : Decide(j, decision)
      BY <2>8 DEF PlaceStanding
    <3> QED BY <2>5, <2>8, <3>1, WhatIsFollowed, RestingContents
  <2>9. CASE \E answer \in Answers, all \in ForAll : Answer(j, answer, all)
    <3>1. PICK answer \in Answers : \E decision \in Decisions(j, answer) : Decide(j, decision)
      BY <2>9 DEF Answer
    <3>2. pc[j] = "ask"
      BY <2>9 DEF Answer
    <3> QED BY <2>5, <3>1, <3>2, WhatIsFollowed, RestingContents
  <2> QED BY <1>3, <2>3, <2>6, <2>7, <2>8, <2>9 DEF Place
<1>4. CASE StageHidden(j) \/ DiscardPartial(j) \/ Rename(j) \/ MoveIn(j)
  <2>1. pc'[j] \notin Working /\ ledger' = ledger
    BY <1>1, <1>4 DEF StageHidden, DiscardPartial, Rename, MoveIn, Goto, Tables, Working, Renaming
  <2> QED BY <2>1, RestingContents
<1>5. CASE CleanUp(j) \/ RenameAnswered(j)
  <2>1. ledger'[j].partials \subseteq ledger[j].partials
    <3>1. Note(j, "partials", ledger[j].partials \ {Temporary(j)})
      BY <1>5 DEF CleanUp, RenameAnswered, Copied
    <3>2. ledger'[j] = [ledger[j] EXCEPT !["partials"] = ledger[j].partials \ {Temporary(j)}]
      BY <1>1, <3>1 DEF Note, Tables
    <3> QED BY <1>1, <3>2 DEF Records
  <2>2. pc'[j] \in {"remove", "walk"}
    BY <1>1, <1>5 DEF CleanUp, RenameAnswered, Copied, Settle, Goto, Tables
  <2> QED BY <2>1, <2>2, RestingContents DEF Working, Renaming
<1>6. CASE Fail(j) \/ Drop(j) \/ Cancel(j) \/ Abandon(j)
  <2>1. pc'[j] \in {"idle", "over"}
    BY <1>1, <1>6 DEF Fail, Drop, Cancel, Abandon, EndsWith, Goto, Tables
  <2>2. ledger'[j].partials = ledger[j].partials
    BY <1>1, <1>6 DEF Fail, Drop, Cancel, Abandon, Note, Tables, Records
  <2> QED BY <2>1, <2>2, RestingContents DEF Working, Renaming
<1> QED BY <1>2, <1>3, <1>4, <1>5, <1>6
        DEF StepOf, Stage, StandingPartial, Copy, UserAnswers, AnswerPartial

\* What jobs wrote is whole once it has its target's name, or anyone's old.
LEMMA WholeNext ==
  ASSUME IndInv, History, FlatInv, WholeInv, NEW j \in Jobs, StepOf(j)
  PROVE  WholeInv'
<1>1. Entries /\ \A k \in Jobs : Contents(k)
  BY DEF WholeInv
<1>2. Entries'
  BY <1>1, EntriesStay
<1>3. \A k \in Jobs : Contents(k)'
  BY <1>1, OwnContents, OthersContents
<1> QED BY <1>2, <1>3 DEF WholeInv

-----------------------------------------------------------------------------
(* The old file is in its place or aside, until the new one is there.       *)

\* The number of the attempt.
LEMMA AttemptsGrow ==
  ASSUME IndInv, NEW j \in Jobs, StepOf(j)
  PROVE  Begin(j) \/ ledger'[j].attempts = ledger[j].attempts
<1>1. Tables /\ Records(j)
  BY DEF IndInv, JobInv
<1>2. ASSUME NEW value, Note(j, "moved", value) \/ Note(j, "partials", value)
                          \/ Note(j, "leftovers", value)
      PROVE  ledger'[j].attempts = ledger[j].attempts
  <2>1. \/ ledger'[j] = [ledger[j] EXCEPT !["moved"] = value]
        \/ ledger'[j] = [ledger[j] EXCEPT !["partials"] = value]
        \/ ledger'[j] = [ledger[j] EXCEPT !["leftovers"] = value]
    BY <1>1, <1>2 DEF Note, Tables
  <2> QED BY <1>1, <2>1 DEF Records
<1>3. ASSUME NEW decision, IsDecision(decision), NEW book, book.attempts = ledger[j].attempts,
             DOMAIN book = DOMAIN NewLedger, Follow(j, decision, book)
      PROVE  ledger'[j].attempts = ledger[j].attempts
  <2>1. ledger'[j] = book \/ \E written : ledger'[j] = [book EXCEPT !.written = written]
    BY <1>1, <1>3 DEF Follow, PlaceAt, IsDecision, Tables
  <2> QED BY <1>3, <2>1 DEF NewLedger
<1>4. ASSUME NEW decision, IsDecision(decision), Decide(j, decision)
      PROVE  ledger'[j].attempts = ledger[j].attempts
  <2> DEFINE book == [ledger[j] EXCEPT !.decided = With(@, Item(j), decision)]
  <2>1. Follow(j, decision, book) /\ book.attempts = ledger[j].attempts
        /\ DOMAIN book = DOMAIN NewLedger
    BY <1>1, <1>4 DEF Decide, Records, NewLedger
  <2> HIDE DEF book
  <2> QED BY <1>3, <1>4, <2>1
<1>5. CASE Walk(j)
  <2>1. CASE SourceRemoved(j)
    BY <1>2, <2>1 DEF SourceRemoved, Finished
  <2> QED BY <1>5, <2>1 DEF Walk, CannotBegin, EnterFolder, LeaveFolder, Finish, Choose,
                ClearTarget, MakeFolder, RemoveSource
<1>6. CASE Place(j)
  <2>1. CASE PlaceFree(j)
    BY <1>1, <2>1 DEF PlaceFree, PlaceAt, Tables, Records
  <2>2. CASE PlaceFinished(j)
    BY <1>2, <2>2 DEF PlaceFinished, Finished
  <2>3. CASE PlaceAgain(j)
    <3>1. IsDecision(work[j].earlier) /\ Follow(j, work[j].earlier, ledger[j])
      BY <2>3, WhatIsFollowed DEF PlaceAgain
    <3> QED BY <1>1, <1>3, <3>1 DEF Records, NewLedger
  <2>4. CASE PlaceStanding(j)
    <3>1. PICK decision \in Decisions(j, Standing(j)) : Decide(j, decision)
      BY <2>4 DEF PlaceStanding
    <3> QED BY <1>4, <2>4, <3>1, WhatIsFollowed
  <2> QED BY <1>6, <2>1, <2>2, <2>3, <2>4 DEF Place, PlaceBeside, PlaceAsk
<1>7. CASE \E answer \in Answers, all \in ForAll : Answer(j, answer, all)
  <2>1. PICK answer \in Answers : \E decision \in Decisions(j, answer) : Decide(j, decision)
    BY <1>7 DEF Answer
  <2>2. pc[j] = "ask"
    BY <1>7 DEF Answer
  <2> QED BY <1>4, <2>1, <2>2, WhatIsFollowed
<1>8. CASE \E answer : HandlePartial(j, answer)
  BY <1>8 DEF HandlePartial
<1>9. CASE Stage(j)
  BY <1>8, <1>9 DEF Stage, StageHidden, StagePartial, StandingPartial, DiscardPartial
<1>10. CASE Copy(j)
  BY <1>2, <1>10 DEF Copy, Create, Resume, Write, Close, Look, Rename, SetAside, MoveIn, CleanUp,
              RenameAnswered, Copied
<1>11. CASE Fail(j) \/ Drop(j) \/ Cancel(j) \/ Abandon(j)
  BY <1>2, <1>11 DEF Fail, Drop, Cancel, Abandon
<1> QED BY <1>5, <1>6, <1>7, <1>8, <1>9, <1>10, <1>11 DEF StepOf, UserAnswers, AnswerPartial

\* What may come next while nothing runs, or while the old file is aside.
LEMMA StepsAtRest ==
  ASSUME IndInv, NEW j \in Jobs, StepOf(j)
  PROVE  /\ pc[j] # "over"
         /\ pc[j] = "idle" => Begin(j) \/ CannotBegin(j) \/ Cancel(j)
         /\ pc[j] = "movein" => MoveIn(j) \/ Fail(j) \/ Drop(j) \/ Abandon(j)
<1>1. CASE Walk(j)
  BY <1>1 DEF Walk, Begin, CannotBegin, EnterFolder, LeaveFolder, Finish, Choose,
              ClearTarget, MakeFolder, RemoveSource, SourceRemoved
<1>2. CASE Place(j)
  BY <1>2 DEF Place, PlaceFree, PlaceBeside, PlaceFinished, PlaceAsk, PlaceAgain, PlaceStanding, Looks
<1>3. CASE Stage(j)
  BY <1>3 DEF Stage, StageHidden, StagePartial, StandingPartial, HandlePartial, DiscardPartial
<1>4. CASE Copy(j)
  BY <1>4 DEF Copy, Create, Resume, Write, Close, Look, Rename, SetAside, MoveIn, CleanUp,
              RenameAnswered
<1>5. CASE UserAnswers(j)
  BY <1>5 DEF UserAnswers, Answer, AnswerPartial, HandlePartial
<1>6. CASE Fail(j) \/ Drop(j) \/ Cancel(j) \/ Abandon(j)
  BY <1>6 DEF Fail, Drop, Cancel, Abandon, Requests, Renaming, AnswersPending
<1> QED BY <1>1, <1>2, <1>3, <1>4, <1>5, <1>6 DEF StepOf

\* Only an old file that was set aside is followed by the new one moving in.
LEMMA OnlySetAside ==
  ASSUME IndInv, NEW j \in Jobs, StepOf(j), pc'[j] = "movein"
  PROVE  SetAside(j)
<1>0. Tables
  BY DEF IndInv
<1>1. \A stack, done : Settle(j, stack, done) => pc'[j] = "walk"
  BY <1>0 DEF Settle, Goto, Tables
<1>2. ~Walk(j)
  BY <1>0, <1>1 DEF Walk, Begin, CannotBegin, EnterFolder, LeaveFolder, Finish, Choose, Finished,
              ClearTarget, MakeFolder, RemoveSource, SourceRemoved, Goto, Tables
<1>3. ASSUME NEW decision, IsDecision(decision), NEW book, Follow(j, decision, book) PROVE FALSE
  <2>1. CASE decision.do = "overwrite"
    <3>1. pc'[j] \in {"stage", "clear", "list", "mkdir"}
      BY <1>0, <1>3, <2>1 DEF Follow, PlaceAt, Goto, Tables
    <3> QED BY <3>1
  <2>2. CASE decision.do = "skip"
    BY <1>1, <1>3, <2>2 DEF Follow
  <2>3. CASE decision.do = "rename"
    BY <1>0, <1>3, <2>3 DEF Follow, Goto, Tables
  <2> QED BY <1>3, <2>1, <2>2, <2>3 DEF IsDecision
<1>4. ~Place(j)
  <2>1. ~PlaceFree(j) /\ ~PlaceBeside(j) /\ ~PlaceFinished(j) /\ ~PlaceAsk(j)
    BY <1>0, <1>1 DEF PlaceFree, PlaceBeside, PlaceFinished, PlaceAsk, PlaceAt, Finished, Looks,
                Goto, Tables
  <2>2. ~PlaceAgain(j) /\ ~PlaceStanding(j)
    BY <1>3, WhatIsFollowed DEF PlaceAgain, PlaceStanding, Decide
  <2> QED BY <2>1, <2>2 DEF Place
<1>5. \A answer : ~HandlePartial(j, answer)
  BY <1>0, <1>1 DEF HandlePartial, Goto, Tables
<1>6. ~Stage(j)
  BY <1>0, <1>5 DEF Stage, StageHidden, StagePartial, StandingPartial, DiscardPartial, Goto, Tables
<1>7. Copy(j) => SetAside(j)
  BY <1>0, <1>1 DEF Copy, Create, Resume, Write, Close, Look, Rename, MoveIn, CleanUp,
              RenameAnswered, Copied, Goto, Tables
<1>8. \A answer \in Answers : \A all : ~Answer(j, answer, all)
  BY <1>3, WhatIsFollowed DEF Answer, Decide
<1>9. ~UserAnswers(j)
  BY <1>5, <1>8 DEF UserAnswers, AnswerPartial
<1>10. ~Fail(j) /\ ~Drop(j) /\ ~Cancel(j) /\ ~Abandon(j)
  BY <1>0 DEF Fail, Drop, Cancel, Abandon, EndsWith, Goto, Tables
<1> QED BY <1>2, <1>4, <1>6, <1>7, <1>9, <1>10 DEF StepOf

\* Old files, where the steps of jobs meet them.
LEMMA OldFacts ==
  ASSUME ReplaceInv, FlatInv, NEW p \in OldFiles
  PROVE  /\ IsSequence(p) /\ p # <<>> /\ p[1].kind \notin {"temp", "old"}
         /\ IsPrefix(<<p[1]>>, p) /\ Swap(p, p[1]) = p
         /\ \A e : Swap(p, e)[1] = e /\ Swap(Swap(p, e), p[1]) = p
                  /\ IsSequence(Swap(p, e)) /\ Swap(p, e) # <<>>
         /\ Covered(p) => <<p[1]>> \in ToReplace /\ p[1].kind = "proper"
<1>1. /\ IsSequence(p) /\ p # <<>> /\ Len(p) \in Nat /\ Len(p) \in 1 .. Len(p)
      /\ \A n \in 1 .. Len(p) : p[n].kind \notin {"temp", "old"}
  BY OldPaths DEF ReplaceInv
<1>2. 1 \in 1 .. Len(p)
  BY <1>1
<1>3. ASSUME NEW r \in ToReplace, IsPrefix(r, p)
      PROVE  <<p[1]>> \in ToReplace /\ p[1].kind = "proper"
  <2>1. r = <<r[1]>> /\ r[1].kind = "proper"
    BY TopPath DEF FlatInv, FlatTables
  <2>2. p[1] = r[1]
    BY <1>1, <1>3, <2>1, TopPrefix
  <2> QED BY <2>1, <2>2
<1>4. IsPrefix(<<p[1]>>, p)
  BY <1>1, TopPrefix
<1>5. Swap(p, p[1]) = p /\ \A e : Swap(p, e)[1] = e /\ Swap(Swap(p, e), p[1]) = p
                  /\ IsSequence(Swap(p, e)) /\ Swap(p, e) # <<>>
  BY <1>1, SwapFacts
<1> QED BY <1>1, <1>2, <1>3, <1>4, <1>5 DEF Covered

\* No old file is where a job writes, and one that is where it renames to is to be replaced.
LEMMA OldAndNew ==
  ASSUME ReplaceInv, FlatInv, NEW j \in Jobs, pc[j] \in HasTemporary, NEW p \in OldFiles
  PROVE  /\ p[1] # Temporary(j)[1]
         /\ ClearOf(Target(j)) /\ p[1] = Target(j)[1] => Target(j) \in ToReplace
<1>1. /\ Temporary(j) = <<Temporary(j)[1]>> /\ Target(j) = <<Target(j)[1]>>
      /\ Temporary(j)[1].kind # "proper"
  BY NamesOf
<1>2. ClearOf(Temporary(j))
  BY <1>1 DEF ReplaceInv, Agreement, TemporariesAreClear
<1>3. IsPrefix(<<p[1]>>, p) /\ (Covered(p) => <<p[1]>> \in ToReplace /\ p[1].kind = "proper")
  BY OldFacts
<1>4. \A x : ClearOf(x) /\ x = <<p[1]>> => Covered(p)
  BY <1>3 DEF ClearOf
<1> QED BY <1>1, <1>2, <1>3, <1>4

\* An old file in its place.
LEMMA PlaceKept ==
  ASSUME ReplaceInv, FlatInv, WholeInv, KeptInv, NEW j \in Jobs, StepOf(j), NEW p \in OldFiles,
         Holds(p, p)
  PROVE  Kept(p)'
<1>1. /\ IndInv /\ History /\ Contents(j) /\ Remembers /\ Paths(there)
      /\ seen.filled \subseteq seen'.filled
  BY Witnesses, SeenGrows DEF ReplaceInv, WholeInv, FlatInv, FlatTables, IsTree, Paths
<1>2. IsSequence(p) /\ p # <<>> /\ p[1].kind \notin {"temp", "old"}
      /\ p \in DOMAIN there /\ there[p].data = seen.before[p].data
  BY OldFacts DEF Holds
<1>3. ASSUME SameAt(p) PROVE Kept(p)'
  BY <1>1, <1>2, <1>3 DEF SameAt, Kept, Holds, Remembers
<1>4. p \notin ledger[j].leftovers /\ p[1] # Hidden("old", <<j, ledger[j].attempts>>)
  BY <1>2, NamesOf
<1>5. CASE pc[j] \in HasTemporary => p[1] # Target(j)[1]
  <2>1. pc[j] \in HasTemporary => p[1] # Temporary(j)[1]
    BY OldAndNew
  <2> QED BY <1>1, <1>3, <1>4, <1>5, <2>1, ElsewhereStays
<1>6. CASE pc[j] \in HasTemporary /\ p[1] = Target(j)[1]
  <2>0. /\ p[1] # Temporary(j)[1] /\ Temporary(j) = <<Temporary(j)[1]>>
        /\ Target(j) = <<p[1]>> /\ p # Temporary(j)
    BY <1>6, OldAndNew, NamesOf
  <2>1. CASE there' = there
    BY <1>3, <2>1 DEF SameAt
  <2>2. CASE LeftoversGo(j) \/ OldGoes(j)
    BY <1>6, <2>2 DEF LeftoversGo, OldGoes, HasTemporary, Renaming
  <2>3. CASE TemporaryGoes(j)
    <3>1. there' = Removed(there, <<Temporary(j)[1]>>)
      BY <2>0, <2>3 DEF TemporaryGoes
    <3> QED BY <1>1, <1>3, <2>0, <3>1, SameRemoved DEF SameAt
  <2>4. CASE TemporaryComes(j) \/ TemporaryGrows(j)
    BY <1>3, <2>0, <2>4 DEF TemporaryComes, TemporaryGrows, SameAt, Put, With
  <2>5. CASE TakesItsName(j)
    <3>1. ClearOf(Target(j))
      BY <2>5, RenamingFacts DEF TakesItsName, Renaming
    <3>2. Target(j) \in ToReplace' \cap seen'.filled
      BY <1>1, <1>6, <2>5, <3>1, OldAndNew DEF TakesItsName, Remembers, ToReplace
    <3> QED BY <2>0, <3>2 DEF Kept
  <2>6. CASE GoesAside(j)
    <3> DEFINE old == Hidden("old", <<j, ledger[j].attempts>>)
    <3>1. there' = Renamed(there, <<p[1]>>, <<old>>) /\ p[1] # old
      BY <1>4, <2>0, <2>6, NamesOf DEF GoesAside
    <3>2. OldName(j, ledger[j].attempts)[1] = old /\ ledger[j].attempts \in 0 .. ledger[j].attempts
      BY NamesOf, OneStep
    <3> HIDE DEF old
    <3>0. RenameOf(there, p[1], old, there')
      BY <1>1, <3>1, RenamedTop
    <3>3. Swap(p, old) \in DOMAIN there' /\ there'[Swap(p, old)] = there[p]
      BY <1>2, <3>0 DEF RenameOf
    <3>4. /\ ledger'[j].attempts = ledger[j].attempts /\ pc'[j] = "movein"
          /\ Target(j)' = <<p[1]>> /\ seen'.before = seen.before
      BY <1>1, <2>0, <2>6 DEF GoesAside, Remembers
    <3>5. Holds(Swap(p, OldName(j, ledger[j].attempts)[1]), p)'
      BY <1>2, <3>2, <3>3, <3>4 DEF Holds, Swap, OldName, Hidden
    <3>6. Finishing(j, p)'
      BY <3>4 DEF Finishing
    <3>7. Aside(p)'
      BY <3>2, <3>4, <3>5, <3>6 DEF Aside
    <3> QED BY <3>7 DEF Kept
  <2>7. CASE ComesBack(j)
    <3>1. <<p[1]>> \notin DOMAIN there
      BY <2>0, <2>7 DEF ComesBack, Exists
    <3>2. Len(p) \in Nat /\ Len(p) # 0 /\ (Len(p) = 1 => p = <<p[1]>>)
      BY <1>2, SwapFacts, LenProperties, EmptySeq DEF IsSequence
    <3>3. Len(p) > 1 => IsFolder(there, <<p[1]>>)
      BY <1>2 DEF FlatInv, FlatTables, IsTree
    <3> QED BY <1>2, <3>1, <3>2, <3>3 DEF IsFolder, Exists
  <2> QED BY <1>1, <2>1, <2>2, <2>3, <2>4, <2>5, <2>6, <2>7, Effects
<1> QED BY <1>5, <1>6

\* An old file that is aside.
LEMMA AsideKept ==
  ASSUME ReplaceInv, FlatInv, WholeInv, KeptInv, NEW j \in Jobs, StepOf(j), NEW p \in OldFiles,
         Aside(p)
  PROVE  Kept(p)'
<1>1. /\ IndInv /\ History /\ Contents(j) /\ Remembers /\ Paths(there) /\ Tables
      /\ seen'.before = seen.before /\ seen.filled \subseteq seen'.filled
  BY Witnesses, SeenGrows DEF ReplaceInv, IndInv, WholeInv, FlatInv, FlatTables, IsTree, Paths,
                              Remembers
<1>0. PICK k \in Jobs : \E n \in 0 .. ledger[k].attempts :
        /\ Holds(Swap(p, OldName(k, n)[1]), p)
        /\ n = ledger[k].attempts => Finishing(k, p)
  BY DEF Aside
<1>2. PICK n \in 0 .. ledger[k].attempts :
        /\ Holds(Swap(p, OldName(k, n)[1]), p)
        /\ n = ledger[k].attempts => Finishing(k, p)
  BY <1>0
<1> DEFINE old == Hidden("old", <<k, n>>)
           q == Swap(p, old)
<1>3. /\ OldName(k, n)[1] = old /\ OldName(k, n)' = OldName(k, n) /\ old.kind = "old"
      /\ old.name = <<k, n>> /\ q[1] = old /\ IsSequence(q) /\ q # <<>> /\ Swap(q, p[1]) = p
      /\ p[1] # old
  <2>1. OldName(k, n)[1] = old /\ OldName(k, n)' = OldName(k, n)
    BY OneStep DEF OldName, Hidden
  <2>2. old.kind = "old" /\ old.name = <<k, n>>
    BY DEF Hidden
  <2> HIDE DEF old
  <2> QED BY <2>1, <2>2, OldFacts
<1>4. q \in DOMAIN there /\ there[q].data = seen.before[p].data
  BY <1>2, <1>3 DEF Holds
<1>5. q \notin ledger[j].leftovers
      /\ (pc[j] \in HasTemporary => q[1] # Temporary(j)[1] /\ q[1] # Target(j)[1])
  <2>1. q[1].kind = "old"
    BY <1>3
  <2> HIDE DEF old, q
  <2>2. q \notin ledger[j].leftovers
    BY <2>1, NamesOf
  <2>3. pc[j] \in HasTemporary => q[1] # Temporary(j)[1] /\ q[1] # Target(j)[1]
    BY <2>1, NamesOf
  <2> QED BY <2>2, <2>3
<1>6. \A m : Hidden("old", <<j, m>>).name = <<j, m>>
  BY DEF Hidden
<1>7. Swap(p, OldName(k, n)[1])' = q
  BY <1>3 DEF Swap
<1> HIDE DEF old, q
<1>8. ASSUME SameAt(q), n \in 0 .. ledger'[k].attempts,
             n = ledger'[k].attempts => Finishing(k, p)'
      PROVE  Kept(p)'
  <2>1. Holds(Swap(p, OldName(k, n)[1]), p)'
    BY <1>1, <1>4, <1>7, <1>8 DEF Holds, SameAt
  <2>2. Aside(p)'
    BY <1>8, <2>1 DEF Aside
  <2> QED BY <2>2 DEF Kept
<1>9. CASE k # j
  <2>1. pc'[k] = pc[k] /\ work'[k] = work[k] /\ ledger'[k] = ledger[k]
    BY <1>1, <1>9, Bystanders DEF Others
  <2>2. old # Hidden("old", <<j, ledger[j].attempts>>)
    <3>1. <<k, n>> # <<j, ledger[j].attempts>>
      BY <1>9
    <3> QED BY <1>3, <1>6, <3>1
  <2>3. SameAt(q)
    BY <1>1, <1>3, <1>5, <2>2, ElsewhereStays
  <2>4. Finishing(k, p) => Finishing(k, p)'
    BY <2>1 DEF Finishing, Target
  <2> QED BY <1>2, <1>8, <2>1, <2>3, <2>4
<1>10. ledger[j].attempts \in Nat
  BY NamesOf
<1>11. CASE k = j /\ n # ledger[j].attempts
  <2>1. old # Hidden("old", <<j, ledger[j].attempts>>)
    <3>1. <<k, n>> # <<j, ledger[j].attempts>>
      BY <1>11
    <3> QED BY <1>3, <1>6, <3>1
  <2>2. SameAt(q)
    BY <1>1, <1>3, <1>5, <2>1, ElsewhereStays
  <2>3. ledger'[j].attempts \in {ledger[j].attempts, ledger[j].attempts + 1}
    <3>1. CASE Begin(j)
      BY <1>1, <3>1 DEF Begin, IndInv, JobInv, Tables, Records
    <3> QED BY <1>1, <3>1, AttemptsGrow
  <2>4. n \in 0 .. ledger'[j].attempts /\ n # ledger'[j].attempts
    BY <1>2, <1>10, <1>11, <2>3
  <2> QED BY <1>8, <1>11, <2>2, <2>4
<1>12. CASE k = j /\ n = ledger[j].attempts
  <2>1. Finishing(j, p)
    BY <1>2, <1>12
  <2>2. CASE Begin(j)
    <3>1. ledger'[j].attempts = ledger[j].attempts + 1
      BY <1>1, <2>2 DEF Begin, IndInv, JobInv, Tables, Records
    <3>2. SameAt(q)
      BY <1>5, <2>2 DEF Begin, SameAt, Restrict
    <3>3. n \in 0 .. ledger'[j].attempts /\ n # ledger'[j].attempts
      BY <1>2, <1>10, <1>12, <3>1
    <3> QED BY <1>8, <1>12, <3>2, <3>3
  <2>3. ASSUME SameAt(q), pc'[j] \in {"idle", "over"}, ~Begin(j) PROVE Kept(p)'
    <3>1. ledger'[j].attempts = ledger[j].attempts
      BY <1>1, <2>3, AttemptsGrow
    <3>2. Finishing(j, p)'
      BY <2>3 DEF Finishing
    <3> QED BY <1>2, <1>8, <1>12, <2>3, <3>1, <3>2
  <2>4. CASE pc[j] = "idle" /\ ~Begin(j)
    <3>1. CannotBegin(j) \/ Cancel(j)
      BY <1>1, <2>4, StepsAtRest
    <3>2. there' = there /\ pc'[j] \in {"idle", "over"}
      BY <1>1, <2>4, <3>1 DEF CannotBegin, Cancel, EndsWith, Goto, Tables
    <3> QED BY <2>3, <2>4, <3>2 DEF SameAt
  <2>5. CASE pc[j] = "movein" /\ Target(j) = <<p[1]>>
    <3>0. /\ Temporary(j) = <<Temporary(j)[1]>> /\ Target(j)[1] = p[1]
          /\ q[1] # Temporary(j)[1] /\ p[1] # Temporary(j)[1] /\ ~Begin(j)
      BY <1>5, <2>5, NamesOf, OldAndNew, OneStep DEF HasTemporary, Renaming, Begin
    <3>1. CASE MoveIn(j)
      <4>1. Target(j) \in ToReplace' \cap seen'.filled
        BY <1>1, <2>5, <3>1 DEF MoveIn, See, History, NothingSeen, KeptInv, ToReplace, Remembers
      <4> QED BY <2>5, <4>1 DEF Kept
    <3>2. CASE Drop(j) \/ Abandon(j)
      <4>1. there' = there /\ pc'[j] \in {"idle", "over"}
        BY <1>1, <2>5, <3>2 DEF Drop, Abandon, EndsWith, Goto, Tables
      <4> QED BY <2>3, <3>0, <4>1 DEF SameAt
    <3>3. CASE Fail(j)
      <4>0. pc'[j] = "over"
        BY <1>1, <3>3 DEF Fail, EndsWith, Goto, Tables
      <4>1. PICK kept \in PutBack(j) : there' = Removed(kept, <<Temporary(j)[1]>>)
        BY <2>5, <3>0, <3>3 DEF Fail, Renaming
      <4>2. CASE kept = there
        BY <1>1, <2>3, <3>0, <4>0, <4>1, <4>2, SameRemoved DEF SameAt
      <4>3. CASE kept # there
        <5>1. kept = Renamed(there, <<old>>, <<p[1]>>)
          BY <1>12, <2>5, <4>1, <4>3, NamesOf DEF PutBack, old
        <5>2. RenameOf(there, old, p[1], kept)
          BY <1>1, <1>3, <5>1, RenamedTop
        <5>3. p \in DOMAIN kept /\ kept[p] = there[q] /\ Paths(kept)
          BY <1>3, <1>4, <5>2 DEF RenameOf
        <5>4. p \in DOMAIN there' /\ there'[p] = kept[p]
          BY <3>0, <4>1, <5>3, SameRemoved
        <5>5. Holds(p, p)'
          BY <1>1, <1>4, <5>3, <5>4 DEF Holds
        <5> QED BY <5>5 DEF Kept
      <4> QED BY <4>2, <4>3
    <3> QED BY <1>1, <2>5, <3>1, <3>2, <3>3, StepsAtRest
  <2> QED BY <1>1, <2>1, <2>2, <2>4, <2>5, StepsAtRest DEF Finishing
<1> QED BY <1>9, <1>11, <1>12

\* Where the old file is, or was until the new one was there.
LEMMA KeptNext ==
  ASSUME ReplaceInv, FlatInv, WholeInv, KeptInv, NEW j \in Jobs, StepOf(j)
  PROVE  KeptInv'
<1>1. IndInv /\ History /\ Remembers /\ seen.filled \subseteq seen'.filled
  BY Witnesses, SeenGrows DEF ReplaceInv
<1>2. ASSUME NEW p \in OldFiles PROVE Kept(p)'
  <2>1. CASE Holds(p, p)
    BY <2>1, PlaceKept
  <2>2. CASE Aside(p)
    BY <2>2, AsideKept
  <2>3. CASE <<p[1]>> \in ToReplace \cap seen.filled
    BY <1>1, <2>3 DEF Kept, ToReplace, Remembers
  <2> QED BY <2>1, <2>2, <2>3 DEF KeptInv, Kept
<1>3. ASSUME NEW k \in Jobs, pc'[k] = "movein" PROVE Target(k)' \in ToReplace'
  <2>1. CASE k = j
    <3>1. SetAside(j)
      BY <1>1, <1>3, <2>1, OnlySetAside
    <3>2. Target(j) \in ToReplace /\ Target(j)' = Target(j)
      BY <1>1, <3>1 DEF SetAside, InOneStep, ReplaceInv, Agreement, Consent, Targeting,
            HasTemporary, Renaming, IndInv, JobInv, Tables, Records, Target
    <3> QED BY <1>1, <2>1, <3>2 DEF ToReplace, Remembers
  <2>2. CASE k # j
    <3>1. pc[k] = "movein" /\ Target(k)' = Target(k)
      BY <1>1, <1>3, <2>2, Bystanders DEF Others, Target
    <3> QED BY <1>1, <3>1 DEF KeptInv, ToReplace, Remembers
  <2> QED BY <2>1, <2>2
<1>4. OldFiles' = OldFiles
  BY <1>1 DEF OldFiles, Remembers
<1> QED BY <1>2, <1>3, <1>4 DEF KeptInv

-----------------------------------------------------------------------------
\* All that is known of jobs that pick files.
FilesInv == ReplaceInv /\ FlatInv /\ WholeInv /\ KeptInv

\* What was there before is a tree, and no job's.
LEMMA TreeBefore ==
  ASSUME NEW before \in Befores
  PROVE  IsTree(before) /\ \A q \in DOMAIN before : before[q].by \notin Jobs
<1>1. ASSUME NEW q \in DOMAIN before
      PROVE  /\ IsSequence(q) /\ q # <<>> /\ IsEntry(before[q]) /\ before[q].by \notin Jobs
             /\ Len(q) > 1 => IsFolder(before, <<q[1]>>) /\ q[1].kind # "temp"
  <2>1. /\ IsSequence(q) /\ q # <<>> /\ IsEntry(before[q]) /\ before[q].by \notin Jobs
        /\ \A n \in 1 .. Len(q) - 1 : IsFolder(before, SubSeq(q, 1, n))
        /\ \A n \in 1 .. Len(q) : q[n].kind \notin {"temp", "old"}
    BY BeforeAssumption DEF IsSequence, IsEntry
  <2>2. ASSUME Len(q) > 1 PROVE IsFolder(before, <<q[1]>>) /\ q[1].kind # "temp"
    <3>1. Len(q) \in Nat /\ 1 \in 1 .. Len(q) - 1 /\ 1 \in 1 .. Len(q)
      BY <2>1, <2>2, LenProperties DEF IsSequence
    <3>2. /\ SubSeq(q, 1, 1) \in Seq(Range(q)) /\ Len(SubSeq(q, 1, 1)) = 1
          /\ SubSeq(q, 1, 1)[1] = q[1]
      <4>1. q \in Seq(Range(q)) /\ \A i \in 1 .. 1 : q[i] \in Range(q)
        BY <2>1, <3>1, LenProperties DEF IsSequence
      <4> QED BY <4>1, SubSeqProperties
    <3>3. IsSequence(SubSeq(q, 1, 1))
      BY <3>2, Sequences
    <3>4. SubSeq(q, 1, 1) = <<q[1]>>
      BY <3>2, <3>3, OneLong
    <3> QED BY <2>1, <3>1, <3>4
  <2> QED BY <2>1, <2>2
<1> QED BY <1>1 DEF IsTree

\* No job has begun, nothing is agreed and nothing is a job's.
LEMMA FilesInitially == Init => FilesInv
<1> SUFFICES ASSUME Init PROVE FilesInv
  OBVIOUS
<1>1. /\ there \in Befores /\ claims = EmptyMap
      /\ seen = [NothingSeen EXCEPT !.before = there]
      /\ \A j \in Jobs : pc[j] = "idle" /\ work[j] = NoWork /\ ledger[j] = NewLedger
  BY DEF Init
<1>2. IsTree(there) /\ \A q \in DOMAIN there : there[q].by \notin Jobs
  BY <1>1, TreeBefore
<1>3. seen.before = there /\ ToReplace = {}
  BY <1>1 DEF NothingSeen, ToReplace
<1>4. FlatTables
  BY <1>1, <1>2, <1>3 DEF FlatTables, EmptyMap
<1>5. ASSUME NEW j \in Jobs PROVE FlatJob(j)
  <2>1. FlatWalk(j)
    BY <1>1 DEF FlatWalk
  <2>2. FlatWork(j)
    BY <1>1, NothingDecided DEF FlatWork, OwnNames, Targeting, Holding, HasTemporary, Renaming
  <2>3. FlatBooks(j)
    BY <1>1 DEF FlatBooks, NewLedger, EmptyMap
  <2> QED BY <2>1, <2>2, <2>3 DEF FlatJob
<1>6. WholeInv
  BY <1>1, <1>2 DEF WholeInv, Entries, EntriesIn, Contents, NewLedger, Renaming
<1>7. KeptInv
  BY <1>1, <1>3 DEF KeptInv, Kept, Holds, OldFiles
<1> QED BY <1>4, <1>5, <1>6, <1>7, ReplacingInitially DEF FilesInv, FlatInv

\* Nothing changes.
LEMMA FilesStutter == ASSUME FilesInv, UNCHANGED vars PROVE FlatInv' /\ WholeInv' /\ KeptInv'
<1>1. UNCHANGED <<there, claims, pc, walk, work, ledger, sticky, seen>>
  BY DEF vars, jobVars
<1>2. \A j \in Jobs : FlatJob(j)'
  BY <1>1 DEF FilesInv, FlatInv, FlatJob, FlatWalk, FlatWork, FlatBooks, OwnNames, IsPartial,
              IsClaimed, Temporary, Target, Top
<1>3. FlatTables'
  BY <1>1 DEF FilesInv, FlatInv, FlatTables, ToReplace
<1>4. Entries'
  BY <1>1 DEF FilesInv, WholeInv, Entries, EntriesIn, Sound
<1>5. ASSUME NEW j \in Jobs PROVE Contents(j)'
  <2>1. Contents(j)
    BY DEF FilesInv, WholeInv
  <2>2. Item(j)' = Item(j) /\ Temporary(j)' = Temporary(j) /\ Have(j)' = Have(j)
    BY <1>1 DEF Item, Temporary, Have
  <2> QED BY <1>1, <2>1, <2>2 DEF Contents, Uniform, Resumed, Sound
<1>6. KeptInv'
  BY <1>1 DEF FilesInv, KeptInv, Kept, Holds, Aside, Finishing, OldFiles, ToReplace, Target
<1> QED BY <1>2, <1>3, <1>4, <1>5, <1>6 DEF FlatInv, WholeInv

\* Every step of every job.
LEMMA FilesNext == ASSUME FilesOnly, FilesInv, [Next]_vars PROVE FilesInv'
<1>1. ReplaceInv'
  BY ReplacingNext DEF FilesInv
<1>2. CASE UNCHANGED vars
  BY <1>1, <1>2, FilesStutter DEF FilesInv
<1>3. ASSUME NEW j \in Jobs, StepOf(j) PROVE FilesInv'
  <2>1. IndInv /\ History /\ Contents(j)
    BY DEF FilesInv, ReplaceInv, WholeInv
  <2> QED BY <1>1, <1>3, <2>1, FlatNext, WholeNext, KeptNext DEF FilesInv
<1> QED BY <1>2, <1>3 DEF Next, StepOf

\* What jobs wrote is at the top, and so what has a proper name is whole.
LEMMA PlacedFiles == FilesInv => PlacedAreWhole
<1> SUFFICES ASSUME FilesInv, NEW p \in DOMAIN there, IsProper(p), there[p].by \in Jobs
             PROVE  Sound(there[p])
  BY DEF PlacedAreWhole, Sound
<1>1. IsSequence(p) /\ Len(p) = 1
  BY DEF FilesInv, FlatInv, FlatTables, IsTree, WholeInv, Entries, EntriesIn
<1>2. Last(p) = p[1]
  BY <1>1, OneLong
<1> QED BY <1>2 DEF FilesInv, WholeInv, Entries, EntriesIn, IsProper

\* An old file is where it was, or aside, or the new one is there.
LEMMA OldFilesSurvive == FilesInv => OldOutlivesFailures
<1> SUFFICES ASSUME FilesInv, NEW p \in OldFiles
             PROVE  Survives(p) \/ \E r \in ToReplace \cap seen.filled : IsPrefix(r, p)
  BY DEF OldOutlivesFailures
<1>1. IsPrefix(<<p[1]>>, p)
  BY OldFacts DEF FilesInv
<1> QED BY <1>1 DEF FilesInv, KeptInv, Kept, Aside, Holds, Survives

\* Jobs that pick files: a file of theirs that has its name is all of one source, or was
\* resumed onto other data (Engine::copy_file, write_temporary, resume), whatever other
\* jobs, lost connections and later attempts do.
THEOREM PlacedFilesAreWhole ==
  ASSUME FilesOnly
  PROVE  Spec => []PlacedAreWhole
<1>1. FilesInv /\ [Next]_vars => FilesInv'
  BY FilesNext
<1> QED BY <1>1, FilesInitially, PlacedFiles, PTL DEF Spec

\* Jobs that pick files: an old file is there under some name until the one that replaces
\* it is in its place (replace_in_two_steps and what it puts back), however attempts end.
THEOREM OldFilesOutliveFailures ==
  ASSUME FilesOnly
  PROVE  Spec => []OldOutlivesFailures
<1>1. FilesInv /\ [Next]_vars => FilesInv'
  BY FilesNext
<1> QED BY <1>1, FilesInitially, OldFilesSurvive, PTL DEF Spec

=============================================================================

------------------------- MODULE TransferQueueProofs -------------------------
(***************************************************************************)
(* Proofs about TransferQueue for any number of jobs and servers: types,   *)
(* the two slot invariants, and that the queue implements TransferSlots.   *)
(***************************************************************************)
EXTENDS TransferQueue, FiniteSetTheorems, TLAPS

\* Tasks that own every slot they need.
HasSlots(j) == pc[j] \in {"reserved", "attempt", "grace"}

\* What a task holds follows from where it is ...
HeldByPlace ==
  \A j \in Jobs :
    /\ HasSlots(j) => held[j] = Needs(j)
    /\ pc[j] = "reserving" => held[j] \subseteq Needs(j) \ {Global}
    /\ ~HasSlots(j) /\ pc[j] # "reserving" => held[j] = {}

\* ... and no slot is given out more often than it has permits.
WithinPermits == \A s \in Slots : Cardinality(Holders(s)) <= Permits(s)

IndInv == TypeOK /\ HeldByPlace /\ WithinPermits

-----------------------------------------------------------------------------
(* Slots.                                                                  *)

LEMMA SlotFacts ==
  /\ Global \in Nat /\ Global \in Slots /\ Slots \subseteq Nat
  /\ \A s \in Slots : s <= Global /\ Permits(s) \in Nat
  /\ Permits(Global) = MaxRunning
  /\ \A s \in Remotes : s \in Slots /\ s # Global /\ Permits(s) = 1
  /\ \A j \in Jobs : Needs(j) \subseteq Slots /\ Global \in Needs(j)
  /\ \A j \in Jobs : Uses(j) \ {Local} = Needs(j) \ {Global}
  /\ \A j \in Jobs : Uses(j) \subseteq 0 .. NRemotes
BY QueueAssumption DEF Global, Slots, Permits, Remotes, Needs, Uses, Local

\* The slot a waiting task asks for is the least it lacks.
LEMMA LeastOfNeeds ==
  ASSUME NEW j \in Jobs, NEW S, S \subseteq Needs(j), S # {}
  PROVE  LET m == CHOOSE s \in S : \A t \in S : s <= t
         IN  m \in S /\ \A t \in S : m <= t
<1>1. S \subseteq {Source[j], Target[j], Global}
  BY DEF Needs
<1>2. Source[j] \in Int /\ Target[j] \in Int /\ Global \in Int
  BY QueueAssumption, SlotFacts
<1>3. \E s \in S : \A t \in S : s <= t
  <2>1. CASE Source[j] \in S /\ Target[j] \in S
    BY <1>1, <1>2, <2>1
  <2>2. CASE Source[j] \notin S \/ Target[j] \notin S
    BY <1>1, <1>2, <2>2
  <2>3. QED BY <2>1, <2>2
<1>4. QED BY <1>3

LEMMA NextSlotIsLeast ==
  ASSUME TypeOK, NEW j \in Jobs, Needs(j) \ held[j] # {}
  PROVE  /\ NextSlot(j) \in Needs(j) \ held[j]
         /\ NextSlot(j) \in Slots
         /\ \A t \in Needs(j) \ held[j] : NextSlot(j) <= t
BY LeastOfNeeds, SlotFacts DEF NextSlot

\* A task that waits lacks a slot, so Acquire asks for one.
LEMMA WaiterLacksASlot ==
  ASSUME HeldByPlace, NEW j \in Jobs, pc[j] = "reserving"
  PROVE  Needs(j) \ held[j] # {}
BY SlotFacts DEF HeldByPlace

LEMMA HoldersFinite ==
  ASSUME NEW S \in SUBSET Jobs
  PROVE  IsFiniteSet(S) /\ Cardinality(S) \in Nat
BY QueueAssumption, FS_Subset, FS_CardinalityType

-----------------------------------------------------------------------------
(* Types.                                                                  *)

USE DEF linkVars, listVars, viewVars, waitVars, slotVars, runVars, askVars

LEMMA InitType == Init => TypeOK
BY QueueAssumption
   DEF Init, TypeOK, LinkType, ViewType, TaskType, SlotType, RunType, Links,
       States, EndStates, Events, Event, Local, NoAnswer, Places

\* The five parts of the type invariant, each under the actions that touch
\* its variables.

LEMMA LinkTypeStep ==
  ASSUME TypeOK, NEW f \in Remotes, Lose(f) \/ LinkStep(f) \/ Reconnect(f)
  PROVE  TypeOK'
<1> USE DEF TypeOK
<1>1. LinkType'
  BY QueueAssumption
     DEF LinkType, Links, Lose, LinkStep, SessionEnds, WatcherFlags, Reconnect
<1>2. notified' \in [Jobs -> BOOLEAN]
  <2>1. CASE Notify(f)
    BY <2>1, Zenon DEF Notify
  <2>2. CASE notified' = notified
    BY <2>2 DEF TaskType
  <2>3. QED
    BY <2>1, <2>2 DEF Lose, LinkStep, SessionEnds, WatcherFlags, Reconnect
<1>3. broken' \in [Jobs -> SUBSET Remotes]
  BY DEF RunType, Lose, LinkStep, SessionEnds, WatcherFlags, Reconnect
<1>4. UNCHANGED <<listVars, viewVars, cancel, pc, side, slotVars, run, outcome,
                  askVars>>
  BY DEF Lose, LinkStep, SessionEnds, WatcherFlags, Reconnect
<1>5. QED
  BY <1>1, <1>2, <1>3, <1>4 DEF ViewType, TaskType, SlotType, RunType

\* The actions of one job, apart from what they do to its place and its view.
JobStep(j) ==
  Start(j) \/ Cancel(j) \/ UserAnswers(j) \/ TaskStep(j) \/ EngineStep(j) \/ Ask(j)

LEMMA JobFrame ==
  ASSUME NEW j \in Jobs, JobStep(j)
  PROVE  /\ UNCHANGED linkVars
         /\ UNCHANGED listVars \/ Start(j) \/ Prune(j)
         /\ UNCHANGED cancel \/ Cancel(j)
         /\ UNCHANGED notified \/ Subscribe(j) \/ Wake(j)
         /\ \/ UNCHANGED slotVars
            \/ Reserve(j) \/ Acquire(j) \/ CancelReserve(j) \/ DropAgain(j)
            \/ held' = [held EXCEPT ![j] = {}] /\ UNCHANGED ahead
         /\ UNCHANGED askVars \/ UserAnswers(j) \/ Ask(j) \/ Answered(j)
BY DEF JobStep, Start, Cancel, UserAnswers, Resolve, TaskStep, EngineStep, Ask,
       Subscribe, SeesConnected, SeesDisconnected, Wake, CancelBlocked, Reserve,
       Acquire, CancelReserve, DropAgain, StartAttempt, Answered, CancelSeen,
       GraceExpires, Judge, Finish, Prune, PlanMade, EngineReturns, AttemptOver,
       NextSide

LEMMA ViewTypeStep ==
  ASSUME TypeOK, NEW j \in Jobs, JobStep(j)
  PROVE  ViewType'
<1> USE DEF TypeOK, ViewType
<1>1. born' \in [Jobs -> Nat] /\ listed' \in SUBSET Jobs
  <2>1. CASE Start(j)
    <3>1. {k \in Jobs : Started(k)} \in SUBSET Jobs
      OBVIOUS
    <3>2. 1 + Cardinality({k \in Jobs : Started(k)}) \in Nat
      BY <3>1, HoldersFinite
    <3>3. QED BY <2>1, <3>2 DEF Start, Pruned
  <2>2. CASE Prune(j)
    BY <2>2 DEF Prune, Pruned
  <2>3. QED BY <2>1, <2>2, JobFrame
<1>2. cancel' \in [Jobs -> BOOLEAN]
  BY JobFrame DEF Cancel
<1>3. state' \in [Jobs -> States]
  BY DEF States, EndStates, JobStep, Start, Cancel, UserAnswers, Resolve,
         TaskStep, EngineStep, Ask, Subscribe, SeesConnected, SeesDisconnected,
         Wake, CancelBlocked, Reserve, Acquire, CancelReserve, DropAgain,
         StartAttempt, Answered, CancelSeen, GraceExpires, Judge, Finish, Prune,
         PlanMade, EngineReturns, Shows
<1>4. event' \in [Jobs -> [kind : Events, fs : 0 .. NRemotes]]
  <2>1. \A kind \in Events : Event(kind) \in [kind : Events, fs : 0 .. NRemotes]
    BY QueueAssumption DEF Event, Local
  <2>2. Sides(j)[side[j]] \in 0 .. NRemotes
    BY QueueAssumption DEF Sides, TaskType
  <2>3. \/ UNCHANGED event
        \/ \E kind \in Events : event' = [event EXCEPT ![j] = Event(kind)]
        \/ event' = [event EXCEPT
                       ![j] = [kind |-> "paused", fs |-> Sides(j)[side[j]]]]
    BY DEF Events, JobStep, Start, Cancel, UserAnswers, Resolve,
           TaskStep, EngineStep, Ask, Subscribe, SeesConnected, SeesDisconnected,
           Wake, CancelBlocked, Reserve, Acquire, CancelReserve, DropAgain,
           StartAttempt, Answered, CancelSeen, GraceExpires, Judge, Finish,
           Prune, PlanMade, EngineReturns, Shows
  <2>4. "paused" \in Events
    BY DEF Events
  <2>5. QED BY <2>1, <2>2, <2>3, <2>4
<1>5. QED BY <1>1, <1>2, <1>3, <1>4

LEMMA TaskTypeStep ==
  ASSUME TypeOK, NEW j \in Jobs, JobStep(j)
  PROVE  TaskType'
<1> USE DEF TypeOK, TaskType
<1>1. pc' = pc \/ \E p \in Places : Goto(j, p)
  BY DEF Places, JobStep, Start, Cancel, UserAnswers, Resolve, TaskStep,
         EngineStep, Ask, Subscribe, SeesConnected, SeesDisconnected, Wake,
         CancelBlocked, Reserve, Acquire, CancelReserve, DropAgain,
         StartAttempt, Answered, CancelSeen, GraceExpires, Judge, Finish, Prune,
         PlanMade, EngineReturns, AttemptOver, NextSide
<1>2. side' \in [Jobs -> 1 .. 2]
  BY DEF JobStep, Start, Cancel, UserAnswers, Resolve, TaskStep, EngineStep,
         Ask, Subscribe, SeesConnected, SeesDisconnected, Wake, CancelBlocked,
         Reserve, Acquire, CancelReserve, DropAgain, StartAttempt, Answered,
         CancelSeen, GraceExpires, Judge, Finish, Prune, PlanMade,
         EngineReturns, NextSide
<1>3. notified' \in [Jobs -> BOOLEAN]
  BY JobFrame DEF Subscribe, Wake
<1>4. outcome' = outcome \/ \E r \in Results \cup {"none"} :
                              outcome' = [outcome EXCEPT ![j] = r]
  BY DEF Results, JobStep, Start, Cancel, UserAnswers, Resolve, TaskStep,
         EngineStep, Ask, Subscribe, SeesConnected, SeesDisconnected, Wake,
         CancelBlocked, Reserve, Acquire, CancelReserve, DropAgain,
         StartAttempt, Answered, CancelSeen, GraceExpires, Judge, Finish, Prune,
         PlanMade, EngineReturns, AttemptOver
<1>5. QED BY <1>1, <1>2, <1>3, <1>4 DEF Goto

LEMMA SlotTypeStep ==
  ASSUME TypeOK, HeldByPlace, NEW j \in Jobs, JobStep(j)
  PROVE  SlotType'
<1> USE DEF TypeOK, SlotType
<1> \A s : Waiting(s) \in SUBSET Jobs
  BY DEF Waiting
<1>1. CASE Acquire(j)
  <2>1. NextSlot(j) \in Slots
    BY <1>1, WaiterLacksASlot, NextSlotIsLeast DEF Acquire
  <2>2. QED BY <1>1, <2>1 DEF Acquire
<1>2. CASE ~Acquire(j)
  BY <1>2, JobFrame DEF Reserve, CancelReserve, DropAgain
<1>3. QED BY <1>1, <1>2

LEMMA RunTypeStep ==
  ASSUME TypeOK, NEW j \in Jobs, JobStep(j)
  PROVE  RunType'
<1> USE DEF TypeOK, RunType
<1>1. run' \in [Jobs -> {"idle", "planning", "running", "asking", "stopping"}]
  BY DEF JobStep, Start, Cancel, UserAnswers, Resolve, TaskStep, EngineStep,
         Ask, Subscribe, SeesConnected, SeesDisconnected, Wake, CancelBlocked,
         Reserve, Acquire, CancelReserve, DropAgain, StartAttempt, Answered,
         CancelSeen, GraceExpires, Judge, Finish, Prune, PlanMade,
         EngineReturns, AttemptOver
<1>2. broken' \in [Jobs -> SUBSET Remotes]
  <2>1. {f \in Uses(j) \ {Local} : link[f] = "lost"} \in SUBSET Remotes
    BY SlotFacts DEF Remotes, Local
  <2>2. \/ broken' = broken
        \/ broken' = [broken EXCEPT ![j] = {}]
        \/ broken' = [broken EXCEPT
                        ![j] = {f \in Uses(j) \ {Local} : link[f] = "lost"}]
    BY DEF JobStep, Start, Cancel, UserAnswers, Resolve, TaskStep, EngineStep,
           Ask, Subscribe, SeesConnected, SeesDisconnected, Wake,
           CancelBlocked, Reserve, Acquire, CancelReserve, DropAgain,
           StartAttempt, Answered, CancelSeen, GraceExpires, Judge, Finish,
           Prune, PlanMade, EngineReturns, AttemptOver
  <2>3. QED BY <2>1, <2>2
<1>3. /\ asked' \in [Jobs -> 0 .. MaxConflicts]
      /\ pending' \in [Jobs -> 0 .. MaxConflicts]
      /\ answer' \in [Jobs -> [to : 0 .. MaxConflicts,
                               says : {"none", "go", "cancel"}]]
  <2>1. CASE UNCHANGED askVars
    BY <2>1
  <2>2. CASE UserAnswers(j)
    BY <2>2, QueueAssumption DEF UserAnswers, Resolve
  <2>3. CASE Ask(j)
    BY <2>3, QueueAssumption DEF Ask, NoAnswer
  <2>4. CASE Answered(j)
    BY <2>4, QueueAssumption DEF Answered
  <2>5. QED BY <2>1, <2>2, <2>3, <2>4, JobFrame
<1>4. QED BY <1>1, <1>2, <1>3

LEMMA TypeStep == TypeOK /\ HeldByPlace /\ [Next]_vars => TypeOK'
<1> SUFFICES ASSUME TypeOK, HeldByPlace, [Next]_vars PROVE TypeOK'
  OBVIOUS
<1>1. ASSUME NEW j \in Jobs, JobStep(j) PROVE TypeOK'
  <2>1. LinkType'
    BY <1>1, JobFrame DEF TypeOK, LinkType
  <2>2. QED
    BY <1>1, <2>1, ViewTypeStep, TaskTypeStep, SlotTypeStep, RunTypeStep
       DEF TypeOK
<1>2. CASE UNCHANGED vars
  BY <1>2 DEF vars, TypeOK, LinkType, ViewType, TaskType, SlotType, RunType
<1>3. QED BY <1>1, <1>2, LinkTypeStep DEF Next, JobStep

-----------------------------------------------------------------------------
(* What a task holds, and how often a slot is held.                        *)

LEMMA InitInv == Init => IndInv
<1> SUFFICES ASSUME Init PROVE HeldByPlace /\ WithinPermits
  BY InitType DEF IndInv
<1>1. HeldByPlace
  BY DEF Init, HeldByPlace, HasSlots
<1>2. ASSUME NEW s \in Slots PROVE Cardinality(Holders(s)) <= Permits(s)
  <2>1. Holders(s) = {}
    BY DEF Init, Holders
  <2>2. QED BY <2>1, SlotFacts, FS_EmptySet
<1>3. QED BY <1>1, <1>2 DEF WithinPermits

\* Taking the next slot: the global one only when it is the last.
LEMMA AcquireHeld ==
  ASSUME TypeOK, HeldByPlace, NEW j \in Jobs, Acquire(j)
  PROVE  HeldByPlace'
<1> DEFINE s == NextSlot(j)
           rest == Needs(j) \ (held[j] \cup {s})
<1>1. /\ s \in Needs(j) \ held[j]
      /\ \A t \in Needs(j) \ held[j] : s <= t
  BY WaiterLacksASlot, NextSlotIsLeast DEF Acquire
<1>2. held[j] \subseteq Needs(j) \ {Global} /\ pc[j] = "reserving"
  BY DEF Acquire, HeldByPlace
<1>3. s = Global => rest = {}
  <2> SUFFICES ASSUME s = Global, NEW t \in rest PROVE FALSE
    OBVIOUS
  <2>1. t \in Slots /\ Global <= t /\ t <= Global /\ t # Global
    BY <1>1, SlotFacts
  <2>2. QED BY <2>1, SlotFacts
<1>4. held' = [held EXCEPT ![j] = held[j] \cup {s}]
  BY DEF Acquire
<1>5. pc' = IF rest = {} THEN [pc EXCEPT ![j] = "reserved"] ELSE pc
  BY DEF Acquire, Goto
<1>6. held'[j] = held[j] \cup {s} /\ \A k \in Jobs \ {j} : held'[k] = held[k]
  BY <1>4 DEF TypeOK, SlotType
<1>7. CASE rest = {}
  <2>1. held'[j] = Needs(j) /\ pc'[j] = "reserved"
    BY <1>1, <1>2, <1>5, <1>6, <1>7 DEF TypeOK, TaskType
  <2>2. \A k \in Jobs \ {j} : pc'[k] = pc[k]
    BY <1>5, <1>7 DEF TypeOK, TaskType
  <2>3. QED BY <2>1, <2>2, <1>6 DEF HeldByPlace, HasSlots
<1>8. CASE rest # {}
  <2>1. held'[j] \subseteq Needs(j) \ {Global} /\ pc' = pc
    BY <1>1, <1>2, <1>3, <1>5, <1>6, <1>8
  <2>2. QED BY <2>1, <1>2, <1>6 DEF HeldByPlace, HasSlots
<1>9. QED BY <1>7, <1>8

\* Every other action keeps a task's permits or returns them all.
LEMMA OtherHeld ==
  ASSUME TypeOK, HeldByPlace, NEW j \in Jobs, JobStep(j), ~Acquire(j)
  PROVE  /\ HeldByPlace'
         /\ held' = held \/ held' = [held EXCEPT ![j] = {}]
<1>1. /\ \A k \in Jobs \ {j} : pc'[k] = pc[k]
      /\ \/ held' = held /\ pc' = pc
         \/ /\ held' = [held EXCEPT ![j] = {}]
            /\ pc'[j] \in {"subscribe", "ending", "judge"}
         \/ /\ held' = held /\ HasSlots(j) /\ HasSlots(j)'
         \/ /\ held' = held /\ ~HasSlots(j) /\ ~HasSlots(j)'
            /\ pc[j] # "reserving"
  BY DEF TypeOK, TaskType, Places, HasSlots, Goto, AttemptOver, JobStep, Start,
         Cancel, UserAnswers, Resolve, TaskStep, EngineStep, Ask, Subscribe,
         SeesConnected, SeesDisconnected, Wake, CancelBlocked, Reserve,
         CancelReserve, DropAgain, StartAttempt, Answered, CancelSeen,
         GraceExpires, Judge, Finish, Prune, PlanMade, EngineReturns, NextSide
<1>2. QED BY <1>1 DEF HeldByPlace, HasSlots, TypeOK, SlotType

\* A permit is only taken when one is free.
LEMMA PermitsStep ==
  ASSUME TypeOK, HeldByPlace, WithinPermits, NEW j \in Jobs, JobStep(j)
  PROVE  WithinPermits'
<1> SUFFICES ASSUME NEW s \in Slots
             PROVE  Cardinality(Holders(s)') <= Permits(s)
  BY DEF WithinPermits
<1>1. Holders(s) \in SUBSET Jobs
  BY DEF Holders
<1>2. IsFiniteSet(Holders(s)) /\ Cardinality(Holders(s)) \in Nat
  BY <1>1, HoldersFinite
<1>3. Permits(s) \in Nat
  BY SlotFacts
<1>4. CASE Acquire(j) /\ s = NextSlot(j)
  <2>1. Holders(s)' = Holders(s) \cup {j}
    BY <1>4 DEF Acquire, Holders, TypeOK, SlotType
  <2>2. /\ IsFiniteSet(Holders(s) \cup {j})
        /\ \/ Cardinality(Holders(s) \cup {j}) = Cardinality(Holders(s))
           \/ Cardinality(Holders(s) \cup {j}) = Cardinality(Holders(s)) + 1
    BY <1>2, FS_AddElement, Zenon
  <2>3. Cardinality(Holders(s)) < Permits(s)
    BY <1>4 DEF Acquire
  <2>4. QED BY <2>1, <2>2, <2>3, <1>2, <1>3
<1>5. CASE ~(Acquire(j) /\ s = NextSlot(j))
  <2>1. Holders(s)' \subseteq Holders(s)
    <3>1. CASE Acquire(j)
      BY <1>5, <3>1 DEF Acquire, Holders, TypeOK, SlotType
    <3>2. CASE ~Acquire(j)
      BY <3>2, OtherHeld DEF Holders, TypeOK, SlotType
    <3>3. QED BY <3>1, <3>2
  <2>2. /\ Cardinality(Holders(s)') <= Cardinality(Holders(s))
        /\ Cardinality(Holders(s)') \in Nat
    BY <1>2, <2>1, FS_Subset, FS_CardinalityType
  <2>3. Cardinality(Holders(s)) <= Permits(s)
    BY DEF WithinPermits
  <2>4. QED BY <2>2, <2>3, <1>2, <1>3
<1>6. QED BY <1>4, <1>5

\* Connections come and go without touching a slot.
LEMMA LinkFrame ==
  ASSUME NEW f \in Remotes, Lose(f) \/ LinkStep(f) \/ Reconnect(f)
  PROVE  UNCHANGED <<pc, held>>
BY DEF Lose, LinkStep, SessionEnds, WatcherFlags, Reconnect

LEMMA StepCases ==
  ASSUME Next
  PROVE  \/ \E j \in Jobs : JobStep(j)
         \/ \E f \in Remotes : Lose(f) \/ LinkStep(f) \/ Reconnect(f)
BY DEF Next, JobStep

LEMMA InvStep == IndInv /\ [Next]_vars => IndInv'
<1> SUFFICES ASSUME IndInv, [Next]_vars PROVE HeldByPlace' /\ WithinPermits'
  BY TypeStep DEF IndInv
<1> USE DEF IndInv
<1>1. ASSUME UNCHANGED <<pc, held>> PROVE HeldByPlace' /\ WithinPermits'
  BY <1>1 DEF HeldByPlace, HasSlots, WithinPermits, Holders
<1>2. ASSUME NEW j \in Jobs, JobStep(j) PROVE HeldByPlace' /\ WithinPermits'
  BY <1>2, PermitsStep, AcquireHeld, OtherHeld
<1>3. CASE UNCHANGED vars
  BY <1>1, <1>3 DEF vars
<1>4. QED BY <1>1, <1>2, <1>3, LinkFrame, StepCases

LEMMA Invariance == Spec => []IndInv
BY InitInv, InvStep, PTL DEF Spec

-----------------------------------------------------------------------------
(* The theorems.                                                           *)

\* Every variable keeps its type, for any number of jobs and servers.
THEOREM TypeCorrect == Spec => []TypeOK
BY Invariance, PTL DEF IndInv

\* Slots are held only while a job reserves or runs, and no job that still
\* waits for a server's slot holds the global one.
THEOREM SlotsAreReturned == Spec => []SlotsHeldOnlyForRunning
<1>1. IndInv => SlotsHeldOnlyForRunning
  BY DEF IndInv, HeldByPlace, HasSlots, SlotsHeldOnlyForRunning, Places
<1>2. QED BY <1>1, Invariance, PTL

\* A server's slot has one holder.
LEMMA OneHolder ==
  ASSUME IndInv, NEW j \in Jobs, NEW k \in Jobs, j # k,
         NEW s \in Remotes, s \in held[j], s \in held[k]
  PROVE  FALSE
<1>1. {j, k} \subseteq Holders(s)
  BY DEF Holders
<1>2. Holders(s) \in SUBSET Jobs
  BY DEF Holders
<1>3. IsFiniteSet(Holders(s)) /\ Cardinality(Holders(s)) \in Nat
  BY <1>2, HoldersFinite
<1>4. Cardinality({j, k}) <= Cardinality(Holders(s))
  BY <1>1, <1>3, FS_Subset
<1>5. Cardinality({j, k}) = 2
  <2>1. IsFiniteSet({j}) /\ Cardinality({j}) = 1
    BY FS_Singleton
  <2>2. Cardinality({j} \cup {k}) = Cardinality({j}) + 1
    BY <2>1, FS_AddElement
  <2>3. {j, k} = {j} \cup {k}
    OBVIOUS
  <2>4. QED BY <2>1, <2>2, <2>3
<1>6. Cardinality(Holders(s)) <= 1
  BY SlotFacts DEF IndInv, WithinPermits
<1>7. QED BY <1>3, <1>4, <1>5, <1>6

\* Two tasks that own all their slots share no server.
LEMMA OwnersShareNoServer ==
  ASSUME IndInv, NEW j \in Jobs, NEW k \in Jobs, j # k, HasSlots(j), HasSlots(k)
  PROVE  Uses(j) \cap Uses(k) \subseteq {Local}
<1> SUFFICES ASSUME NEW s \in Uses(j) \cap Uses(k), s # Local PROVE FALSE
  OBVIOUS
<1>1. s \in Needs(j) /\ s \in Needs(k) /\ s \in Remotes
  BY SlotFacts DEF Needs, Uses, Remotes, Local
<1>2. QED BY <1>1, OneHolder DEF IndInv, HeldByPlace

\* No two running jobs use the same server.
THEOREM ServersAreExclusive == Spec => []OneJobPerServer
<1>1. IndInv => OneJobPerServer
  BY OwnersShareNoServer DEF OneJobPerServer, Attempting, HasSlots
<1>2. QED BY <1>1, Invariance, PTL

\* Whoever runs holds a global permit, and there are MaxRunning of those.
LEMMA OwnersAreFew ==
  ASSUME IndInv, NEW S \in SUBSET Jobs, \A j \in S : HasSlots(j)
  PROVE  /\ S \subseteq Holders(Global)
         /\ Cardinality(S) <= MaxRunning
<1>1. S \subseteq Holders(Global)
  BY SlotFacts DEF IndInv, HeldByPlace, Holders
<1>2. Holders(Global) \in SUBSET Jobs
  BY DEF Holders
<1>3. IsFiniteSet(Holders(Global)) /\ Cardinality(Holders(Global)) \in Nat
  BY <1>2, HoldersFinite
<1>4. Cardinality(S) <= Cardinality(Holders(Global)) /\ Cardinality(S) \in Nat
  BY <1>1, <1>3, FS_Subset, FS_CardinalityType
<1>5. Cardinality(Holders(Global)) <= MaxRunning
  BY SlotFacts DEF IndInv, WithinPermits
<1>6. QED BY <1>1, <1>3, <1>4, <1>5, QueueAssumption

\* No more jobs run at once than MAX_RUNNING allows.
THEOREM RunningIsBounded == Spec => []AtMostMaxRunning
<1>1. ASSUME IndInv PROVE AtMostMaxRunning
  <2>1. {j \in Jobs : Attempting(j)} \in SUBSET Jobs
    OBVIOUS
  <2>2. \A j \in {k \in Jobs : Attempting(k)} : HasSlots(j)
    BY DEF Attempting, HasSlots
  <2>3. QED BY <1>1, <2>1, <2>2, OwnersAreFew DEF AtMostMaxRunning
<1>2. QED BY <1>1, Invariance, PTL

-----------------------------------------------------------------------------
(* Questions and answers.                                                  *)

\* The question that waits, and the one an answer was given for, are the last
\* one asked.
LastQuestion ==
  \A j \in Jobs : pending[j] \in {0, asked[j]} /\ answer[j].to \in {0, asked[j]}

\* Every step of a job keeps it so: an answer to any other question is refused.
LEMMA LastQuestionStep ==
  ASSUME TypeOK, LastQuestion, NEW j \in Jobs, JobStep(j)
  PROVE  LastQuestion'
<1>1. CASE UNCHANGED askVars
  BY <1>1 DEF LastQuestion
<1>2. CASE UserAnswers(j)
  <2>1. PICK q \in 1 .. MaxConflicts, says \in {"go", "cancel"} : Resolve(j, q, says)
    BY <1>2 DEF UserAnswers
  <2>2. asked' = asked /\ q = asked[j]
    BY <2>1, QueueAssumption DEF Resolve, LastQuestion
  <2>3. /\ pending' = [pending EXCEPT ![j] = 0]
        /\ answer' = [answer EXCEPT ![j] = [to |-> q, says |-> says]]
    BY <2>1 DEF Resolve
  <2>4. QED
    BY <2>2, <2>3 DEF LastQuestion, TypeOK, RunType
<1>3. CASE Ask(j)
  BY <1>3, QueueAssumption DEF Ask, NoAnswer, LastQuestion, TypeOK, RunType
<1>4. CASE Answered(j)
  BY <1>4 DEF Answered, LastQuestion, TypeOK, RunType
<1>5. QED BY <1>1, <1>2, <1>3, <1>4, JobFrame

\* An answer is acted on only as the answer to the question it was given for.
THEOREM AnswersAreForTheirQuestion == Spec => []AnswersReachTheirQuestion
<1>1. Init => LastQuestion
  BY DEF Init, LastQuestion, NoAnswer
<1>2. TypeOK /\ LastQuestion /\ [Next]_vars => LastQuestion'
  <2> SUFFICES ASSUME TypeOK, LastQuestion, [Next]_vars PROVE LastQuestion'
    OBVIOUS
  <2>1. ASSUME UNCHANGED askVars PROVE LastQuestion'
    BY <2>1 DEF LastQuestion
  <2>2. ASSUME NEW f \in Remotes, Lose(f) \/ LinkStep(f) \/ Reconnect(f)
        PROVE  UNCHANGED askVars
    BY <2>2 DEF Lose, LinkStep, SessionEnds, WatcherFlags, Reconnect
  <2>3. CASE UNCHANGED vars
    BY <2>1, <2>3 DEF vars
  <2>4. QED BY <2>1, <2>2, <2>3, LastQuestionStep, StepCases
<1>3. LastQuestion => AnswersReachTheirQuestion
  BY DEF LastQuestion, AnswersReachTheirQuestion
<1>4. QED BY <1>1, <1>2, <1>3, TypeCorrect, PTL DEF Spec

-----------------------------------------------------------------------------
(* The queue implements TransferSlots.                                     *)

Active == {j \in Jobs : pc[j] \in {"reserved", "attempt", "grace"}}

\* The instance counts as this module does.
LEMMA SameCardinality == \A S : Slots1!Cardinality(S) = Cardinality(S)
BY DEF Cardinality, Slots1!Cardinality, IsFiniteSet, Slots1!IsFiniteSet

\* Taking the last slot is entering.
LEMMA AcquireEnters ==
  ASSUME IndInv, NEW j \in Jobs, Acquire(j)
  PROVE  Slots1!Enter(j) \/ Active' = Active
<1> USE DEF IndInv
<1> DEFINE s == NextSlot(j)
           rest == Needs(j) \ (held[j] \cup {s})
<1>1. pc[j] = "reserving" /\ held[j] \subseteq Needs(j) \ {Global}
  BY DEF Acquire, HeldByPlace
<1>2. pc' = IF rest = {} THEN [pc EXCEPT ![j] = "reserved"] ELSE pc
  BY DEF Acquire, Goto
<1>3. CASE rest # {}
  BY <1>2, <1>3 DEF Active
<1>4. CASE rest = {}
  <2>1. s = Global
    BY <1>1, <1>4, SlotFacts
  <2>2. j \notin Active
    BY <1>1 DEF Active
  <2>3. Active' = Active \cup {j}
    BY <1>2, <1>4 DEF Active, TypeOK, TaskType
  <2>4. Cardinality(Active) < MaxRunning
    <3>1. Active \in SUBSET Jobs /\ \A k \in Active : HasSlots(k)
      BY DEF Active, HasSlots
    <3>2. Active \subseteq Holders(Global)
      BY <3>1, OwnersAreFew
    <3>3. Holders(Global) \in SUBSET Jobs
      BY DEF Holders
    <3>4. IsFiniteSet(Holders(Global)) /\ Cardinality(Holders(Global)) \in Nat
      BY <3>3, HoldersFinite
    <3>5. Cardinality(Active) \in Nat /\ Cardinality(Active) <= Cardinality(Holders(Global))
      BY <3>2, <3>4, FS_Subset, FS_CardinalityType
    <3>6. Cardinality(Holders(Global)) < MaxRunning
      BY <2>1, SlotFacts DEF Acquire
    <3>7. QED BY <3>4, <3>5, <3>6, QueueAssumption
  <2>5. ASSUME NEW k \in Active
        PROVE  Slots1!Servers(j) \cap Slots1!Servers(k) = {}
    <3> SUFFICES ASSUME NEW f \in Slots1!Servers(j), f \in Slots1!Servers(k)
                 PROVE  FALSE
      OBVIOUS
    <3>1. k \in Jobs /\ k # j /\ held[k] = Needs(k)
      BY <2>2 DEF Active, HeldByPlace, HasSlots
    <3>2. f \in Remotes /\ f \in Needs(j) /\ f \in Needs(k)
      BY <3>1, QueueAssumption DEF Slots1!Servers, Remotes, Needs, Local
    <3>3. f \in held[j]
      BY <1>4, <2>1, <3>2, SlotFacts
    <3>4. QED BY <3>1, <3>2, <3>3, OneHolder
  <2>6. Slots1!Cardinality(Active) < MaxRunning
    BY <2>4, SameCardinality
  <2>7. QED BY <2>2, <2>3, <2>5, <2>6 DEF Slots1!Enter, Active
<1>5. QED BY <1>3, <1>4

\* Every other step of a job leaves the active set alone or leaves it.
LEMMA OtherLeaves ==
  ASSUME TypeOK, NEW j \in Jobs, JobStep(j), ~Acquire(j)
  PROVE  Slots1!Leave(j) \/ Active' = Active
<1>1. /\ \A k \in Jobs \ {j} : pc'[k] = pc[k]
      /\ HasSlots(j)' => HasSlots(j)
  BY DEF TypeOK, TaskType, Places, HasSlots, Goto, AttemptOver, JobStep, Start,
         Cancel, UserAnswers, Resolve, TaskStep, EngineStep, Ask, Subscribe,
         SeesConnected, SeesDisconnected, Wake, CancelBlocked, Reserve,
         CancelReserve, DropAgain, StartAttempt, Answered, CancelSeen,
         GraceExpires, Judge, Finish, Prune, PlanMade, EngineReturns, NextSide
<1>2. QED BY <1>1 DEF Slots1!Leave, Active, HasSlots

\* The queue allocates its slots as TransferSlots says: a job becomes active
\* only with room for it and with no active job on one of its servers.
THEOREM QueueImplementsSlots == Spec => AllocatesSlots
<1>1. Init => Slots1!Init
  BY DEF Init, Slots1!Init
<1>2. ASSUME IndInv, [Next]_vars
      PROVE  [Slots1!Next]_Active
  <2>1. ASSUME NEW j \in Jobs, JobStep(j)
        PROVE  [Slots1!Next]_Active
    <3>1. Slots1!Enter(j) \/ Slots1!Leave(j) \/ Active' = Active
      BY <1>2, <2>1, AcquireEnters, OtherLeaves DEF IndInv
    <3>2. QED BY <3>1 DEF Slots1!Next, Active
  <2>2. ASSUME UNCHANGED pc PROVE Active' = Active
    BY <2>2 DEF Active
  <2>3. CASE UNCHANGED vars
    BY <2>2, <2>3 DEF vars
  <2>4. QED BY <1>2, <2>1, <2>2, <2>3, LinkFrame, StepCases
<1>3. QED BY <1>1, <1>2, Invariance, PTL
          DEF Spec, AllocatesSlots, Slots1!Spec, Active
=============================================================================

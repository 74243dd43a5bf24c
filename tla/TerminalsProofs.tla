---------------------------- MODULE TerminalsProofs ----------------------------
(***************************************************************************)
(* Proofs about a terminal session, for any number of keys typed and any   *)
(* room in the pipes: a shell reads what was typed in the order it was     *)
(* typed, and the exit is the last a tab hears, after all that the shell   *)
(* printed.                                                                *)
(***************************************************************************)
EXTENDS TelnetSession, TLAPS

\* What is typed is numbered; Close is no key.
Keys == Nat \ {0}

Flags ==
  /\ listed \in BOOLEAN /\ closing \in BOOLEAN /\ exited \in BOOLEAN /\ lost \in BOOLEAN
  /\ pipes \in [app : BOOLEAN, input : BOOLEAN]
FrameTypes == [in : Seq(Nat), out : Seq(Nat)]
Types ==
  /\ kind \in {"local", "ssh", "telnet", "elevated"}
  /\ typed \in Nat /\ inbox \in Seq(Nat) /\ pending \in Seq(Keys)
  /\ at \in {"shared", "login", "opening", "connecting", "running", "joining", "over"}
  /\ pump \in {"none", "recv", "write", "over"} /\ writing \in Nat
  /\ tty \in Seq(Keys) /\ got \in Seq(Keys) /\ output \in Seq(Keys)
  /\ shell \in {"none", "runs", "over"} /\ reader \in {"none", "reading", "over"}
  /\ shown \in Nat
  /\ broker \in [main : {"starting", "spawning", "waiting", "gone"},
                 in : {"none", "reading", "over"}, out : {"none", "reading", "over"}]
  /\ frames \in FrameTypes

\* Where the session is.
Stages ==
  /\ at \in {"shared", "login", "opening", "connecting"} =>
       pump = "none" /\ (~Elevated => shell = "none")
  /\ shell = "none" /\ ~Elevated => pump \in {"none", "over"}
  /\ exited => at = "over"
  /\ at = "over" => reader = "over"
  /\ kind = "local" /\ reader = "over" => shell = "over" /\ output = <<>>
  /\ shell = "none" => tty = <<>> /\ got = <<>> /\ output = <<>>
  /\ shell = "over" => tty = <<>>

\* Where the broker is.
BrokerStages ==
  /\ ~Elevated => broker.main = "gone" /\ broker.in = "none" /\ broker.out = "none"
                  /\ frames.in = <<>> /\ frames.out = <<>>
  /\ broker.main \in {"starting", "spawning"} =>
       shell = "none" /\ broker.in = "none" /\ broker.out = "none"
  /\ broker.main = "waiting" => shell # "none"
  /\ broker.main = "gone" => broker.in # "reading" /\ broker.out # "reading"
  /\ Elevated /\ broker.main = "gone" => shell = "none" \/ broker.out = "over"
  /\ broker.out = "over" => shell = "over" /\ output = <<>>

\* An elevated session the app has not taken up, or gave up, has no input.
NeverTakenUp ==
  /\ Elevated /\ (at = "connecting" \/ ~pipes.app) =>
       /\ tty = <<>> /\ got = <<>> /\ output = <<>> /\ frames.in = <<>>
       /\ pump \in {"none", "over"}
  /\ Elevated /\ ~pipes.app => at = "over"

BeforeFrames == Len(got) + Len(tty)
BeforeWriting == BeforeFrames + Len(frames.in)
BeforePending == BeforeWriting + (IF pump = "write" THEN 1 ELSE 0)
BeforeInbox == BeforePending + Len(pending)

\* All that was typed, from the shell back to the tab.
TtyInOrder == \A i \in 1 .. Len(tty) : tty[i] = Len(got) + i
FramesInOrder == shell # "over" =>
  \A i \in 1 .. Len(frames.in) : frames.in[i] \in {BeforeFrames + i, Close}
WritingInOrder ==
  /\ shell # "over" /\ pump = "write" => writing \in {BeforeWriting + 1, Close}
  /\ ~Elevated /\ pump = "write" => writing # Close
PendingInOrder == shell # "over" /\ pump # "over" =>
  \A i \in 1 .. Len(pending) : pending[i] = BeforePending + i
InboxInOrder == shell # "over" /\ pump # "over" =>
  \A i \in 1 .. Len(inbox) : inbox[i] \in {BeforeInbox + i, Close}
AllIsHere == shell # "over" /\ pump # "over" /\ listed =>
  typed = BeforeInbox + Len(inbox)
KeysInOrder ==
  TypedInOrder /\ TtyInOrder /\ FramesInOrder /\ WritingInOrder
  /\ PendingInOrder /\ InboxInOrder /\ AllIsHere

\* The frame that says it is over is the last.
ToldLast == \A i \in 1 .. Len(frames.out) : frames.out[i] = Close =>
  i = Len(frames.out) /\ broker.main = "gone" /\ broker.out = "over"

\* What the shell printed is shown, or waits where it is yet to be read.
Told == IF frames.out # <<>> /\ frames.out[Len(frames.out)] = Close THEN 1 ELSE 0
NothingUnaccounted == ~lost => shown + Len(frames.out) + Len(output) = Len(got) + Told

InputEndsByClosing ==
  /\ \A i \in 1 .. Len(inbox) : inbox[i] = Close => closing
  /\ kind = "ssh" /\ at # "over" /\ ~listed => closing
  /\ kind = "ssh" /\ at = "running" /\ pump = "over" => closing \/ lost

\* Once the exit is told the shell prints nothing more.
SilentAfterExit == exited =>
  IF Elevated THEN broker.main = "gone" \/ ~pipes.app ELSE shell # "runs"

IndInv ==
  /\ Flags /\ Types /\ Stages /\ BrokerStages /\ NeverTakenUp /\ KeysInOrder /\ ToldLast
  /\ NothingUnaccounted /\ InputEndsByClosing /\ SilentAfterExit /\ ExitIsLast

USE TerminalAssumption
-----------------------------------------------------------------------------
(***************************************************************************)
(* Queues: the channel, the terminal, the pipes.                           *)
(***************************************************************************)

\* The first of a queue goes, and what is left moves up.
MovesUp(old, new) ==
  /\ old # <<>> /\ Len(old) >= 1 /\ Len(new) = Len(old) - 1
  /\ \A i \in 1 .. Len(new) : new[i] = old[i + 1]

\* One more, at the end.
Grows(old, new, e) ==
  /\ Len(old) \in Nat /\ Len(new) = Len(old) + 1
  /\ \A i \in 1 .. Len(old) : new[i] = old[i]
  /\ new[Len(old) + 1] = e

\* Append adds one, at the end.
LEMMA Appended ==
  ASSUME NEW S, NEW s \in Seq(S), NEW e \in S
  PROVE  /\ Append(s, e) \in Seq(S) /\ Len(Append(s, e)) = Len(s) + 1
         /\ \A i \in 1 .. Len(s) : Append(s, e)[i] = s[i]
         /\ Append(s, e)[Len(s) + 1] = e
OBVIOUS

\* Tail takes the first away, and the others move up.
LEMMA Taken ==
  ASSUME NEW S, NEW s \in Seq(S), s # <<>>
  PROVE  /\ Head(s) = s[1] /\ Head(s) \in S
         /\ Tail(s) \in Seq(S) /\ Len(s) >= 1 /\ Len(Tail(s)) = Len(s) - 1
         /\ \A i \in 1 .. Len(Tail(s)) : Tail(s)[i] = s[i + 1]
OBVIOUS

\* What was put by goes before what came in later.
LEMMA Waits ==
  ASSUME Types
  PROVE  /\ pending # <<>> => Waiting # <<>> /\ Head(Waiting) = Head(pending)
         /\ pending = <<>> => Waiting = inbox
<1>1. pending \in Seq(Nat) /\ inbox \in Seq(Nat) BY DEF Types, Keys
<1>2. CASE pending = <<>> BY <1>1, <1>2 DEF Waiting
<1>3. CASE pending # <<>>
  <2>1. Len(pending) >= 1 /\ Len(inbox) \in Nat /\ Len(pending) \in Nat BY <1>1, <1>3
  <2>2. Waiting \in Seq(Nat) /\ Len(Waiting) = Len(pending) + Len(inbox) /\ Waiting[1] = pending[1]
    BY <1>1, <2>1 DEF Waiting
  <2>3. Head(Waiting) = Waiting[1] /\ Head(pending) = pending[1] BY <1>1, <2>1, <2>2
  <2> QED BY <1>3, <2>1, <2>2, <2>3
<1> QED BY <1>2, <1>3

-----------------------------------------------------------------------------
(***************************************************************************)
(* What the helpers of the session do.                                     *)
(***************************************************************************)

\* Take takes the first of what waits, from where it waits.
LEMMA TakeIs ==
  ASSUME Types, Take
  PROVE  /\ pump = "recv" /\ pump' = "write"
         /\ \/ /\ MovesUp(pending, pending') /\ pending' \in Seq(Keys)
               /\ writing' = pending[1] /\ writing' \in Keys /\ inbox' = inbox
            \/ /\ pending = <<>> /\ pending' = <<>>
               /\ MovesUp(inbox, inbox') /\ inbox' \in Seq(Nat)
               /\ writing' = inbox[1] /\ writing' \in Nat /\ (Elevated \/ writing' # Close)
<1>1. Waiting # <<>> /\ writing' = Head(Waiting) /\ pump = "recv" /\ pump' = "write"
      /\ (Head(Waiting) # Close \/ Elevated) BY DEF Take
<1>2. pending \in Seq(Keys) /\ inbox \in Seq(Nat) BY DEF Types
<1>3. CASE pending # <<>>
  <2>1. pending' = Tail(pending) /\ inbox' = inbox /\ writing' = Head(pending)
    BY <1>1, <1>3, Waits DEF Take
  <2>2. MovesUp(pending, pending') /\ pending' \in Seq(Keys) /\ Head(pending) = pending[1]
        /\ Head(pending) \in Keys
    BY <1>2, <1>3, <2>1, Taken DEF MovesUp
  <2> QED BY <1>1, <2>1, <2>2
<1>4. CASE pending = <<>>
  <2>1. inbox' = Tail(inbox) /\ pending' = pending /\ writing' = Head(inbox) /\ inbox # <<>>
    BY <1>1, <1>4, Waits DEF Take
  <2>2. MovesUp(inbox, inbox') /\ inbox' \in Seq(Nat) /\ Head(inbox) = inbox[1]
        /\ Head(inbox) \in Nat
    BY <1>2, <2>1, Taken DEF MovesUp
  <2>3. Elevated \/ writing' # Close BY <1>1, <1>4, Waits
  <2> QED BY <1>1, <1>4, <2>1, <2>2, <2>3
<1> QED BY <1>3, <1>4

\* Nothing on the way to the shell moves: the keys are in order as before.
LEMMA KeysKept ==
  ASSUME Types, KeysInOrder, UNCHANGED <<kind, got, tty, shell, pump, writing, pending, inbox,
               typed>>,
         frames'.in = frames.in, listed' => listed
  PROVE  KeysInOrder'
<1>1. BeforeFrames' = BeforeFrames /\ BeforeWriting' = BeforeWriting
      /\ BeforePending' = BeforePending /\ BeforeInbox' = BeforeInbox
  BY DEF BeforeFrames, BeforeWriting, BeforePending, BeforeInbox
<1>2. TypedInOrder' /\ TtyInOrder' BY DEF KeysInOrder, TypedInOrder, TtyInOrder
<1>3. FramesInOrder' BY <1>1 DEF KeysInOrder, FramesInOrder
<1>4. WritingInOrder' BY <1>1 DEF KeysInOrder, WritingInOrder, Elevated
<1>5. PendingInOrder' /\ InboxInOrder' BY <1>1 DEF KeysInOrder, PendingInOrder, InboxInOrder
<1>6. AllIsHere' BY <1>1 DEF KeysInOrder, AllIsHere
<1> QED BY <1>2, <1>3, <1>4, <1>5, <1>6 DEF KeysInOrder

\* A frame is put, or one is read.
LEMMA PutIs ==
  ASSUME frames \in FrameTypes, NEW m \in Nat
  PROVE  /\ Put("in", m) \in FrameTypes /\ Put("in", m).out = frames.out
         /\ Grows(frames.in, Put("in", m).in, m)
         /\ Put("out", m) \in FrameTypes /\ Put("out", m).in = frames.in
         /\ Grows(frames.out, Put("out", m).out, m)
<1>1. frames.in \in Seq(Nat) /\ frames.out \in Seq(Nat) BY DEF FrameTypes
<1>2. Put("in", m) = [frames EXCEPT !.in = Append(frames.in, m)] BY DEF Put
<1>3. Put("out", m) = [frames EXCEPT !.out = Append(frames.out, m)] BY DEF Put
<1>4. Append(frames.in, m) \in Seq(Nat) /\ Grows(frames.in, Append(frames.in, m), m)
  BY <1>1, Appended DEF Grows
<1>5. Append(frames.out, m) \in Seq(Nat) /\ Grows(frames.out, Append(frames.out, m), m)
  BY <1>1, Appended DEF Grows
<1>6. Put("in", m).in = Append(frames.in, m) /\ Put("in", m).out = frames.out BY <1>2 DEF FrameTypes
<1>7. Put("out", m).out = Append(frames.out, m) /\ Put("out", m).in = frames.in
  BY <1>3 DEF FrameTypes
<1>8. Put("in", m) \in FrameTypes BY <1>2, <1>4 DEF FrameTypes
<1>9. Put("out", m) \in FrameTypes BY <1>3, <1>5 DEF FrameTypes
<1> QED BY <1>4, <1>5, <1>6, <1>7, <1>8, <1>9

\* A frame is read from the front of its side.
LEMMA RestIs ==
  ASSUME frames \in FrameTypes
  PROVE  /\ frames.in # <<>> => /\ Rest("in") \in FrameTypes /\ Rest("in").out = frames.out
                                /\ MovesUp(frames.in, Rest("in").in)
                                /\ Head(frames.in) = frames.in[1] /\ frames.in[1] \in Nat
         /\ frames.out # <<>> => /\ Rest("out") \in FrameTypes /\ Rest("out").in = frames.in
                                 /\ MovesUp(frames.out, Rest("out").out)
                                 /\ Head(frames.out) = frames.out[1] /\ frames.out[1] \in Nat
<1>1. frames.in \in Seq(Nat) /\ frames.out \in Seq(Nat) BY DEF FrameTypes
<1>2. Rest("in") = [frames EXCEPT !.in = Tail(frames.in)] BY DEF Rest
<1>3. Rest("out") = [frames EXCEPT !.out = Tail(frames.out)] BY DEF Rest
<1>6. Rest("in").in = Tail(frames.in) /\ Rest("in").out = frames.out BY <1>2 DEF FrameTypes
<1>7. Rest("out").out = Tail(frames.out) /\ Rest("out").in = frames.in BY <1>3 DEF FrameTypes
<1>4. ASSUME frames.in # <<>>
      PROVE  /\ Rest("in") \in FrameTypes /\ MovesUp(frames.in, Rest("in").in)
             /\ Head(frames.in) = frames.in[1] /\ frames.in[1] \in Nat
  <2>1. Tail(frames.in) \in Seq(Nat) /\ MovesUp(frames.in, Tail(frames.in))
        /\ Head(frames.in) = frames.in[1] /\ frames.in[1] \in Nat BY <1>1, <1>4, Taken DEF MovesUp
  <2> QED BY <1>2, <1>6, <2>1 DEF FrameTypes
<1>5. ASSUME frames.out # <<>>
      PROVE  /\ Rest("out") \in FrameTypes /\ MovesUp(frames.out, Rest("out").out)
             /\ Head(frames.out) = frames.out[1] /\ frames.out[1] \in Nat
  <2>1. Tail(frames.out) \in Seq(Nat) /\ MovesUp(frames.out, Tail(frames.out))
        /\ Head(frames.out) = frames.out[1] /\ frames.out[1] \in Nat
          BY <1>1, <1>5, Taken DEF MovesUp
  <2> QED BY <1>3, <1>7, <2>1 DEF FrameTypes
<1> QED BY <1>4, <1>5, <1>6, <1>7

-----------------------------------------------------------------------------
(***************************************************************************)
(* One lemma for each action.                                              *)
(***************************************************************************)

\* A key typed is the next number, at the end of the channel.
LEMMA TypeStep == ASSUME IndInv, Type PROVE IndInv'
<1> USE DEF input, app, remote, elevated, Elevated, Close, Keys
<1>1. Types' BY DEF IndInv, Type, Types, FrameTypes
<1>2. Stages' BY DEF IndInv, Type, Stages
<1>3. BrokerStages' BY DEF IndInv, Type, BrokerStages
<1>4. NeverTakenUp' BY DEF IndInv, Type, NeverTakenUp
<1>5. KeysInOrder'
  <2>0. Types /\ KeysInOrder BY DEF IndInv
  <2>1. inbox' = Append(inbox, typed + 1) /\ typed' = typed + 1 /\ listed /\ listed' = listed
        /\ UNCHANGED <<kind, got, tty, shell, frames, pump, writing, pending>>
    BY <2>0 DEF Type
  <2>2. /\ Len(inbox') = Len(inbox) + 1 /\ Len(inbox) \in Nat
        /\ \A i \in 1 .. Len(inbox) : inbox'[i] = inbox[i]
        /\ inbox'[Len(inbox) + 1] = typed + 1
    BY <2>0, <2>1, Appended DEF Types
  <2>5. shell # "over" /\ pump # "over" => typed = BeforeInbox + Len(inbox)
    BY <2>0, <2>1 DEF KeysInOrder, AllIsHere
  <2>3. BeforeFrames \in Nat /\ BeforeWriting \in Nat /\ BeforePending \in Nat
        /\ BeforeInbox \in Nat
    BY <2>0 DEF Types, FrameTypes, BeforeFrames, BeforeWriting, BeforePending, BeforeInbox
  <2>4. BeforeFrames' = BeforeFrames /\ BeforeWriting' = BeforeWriting
        /\ BeforePending' = BeforePending /\ BeforeInbox' = BeforeInbox
   BY <2>0, <2>1, <2>2, <2>3 DEF Types, FrameTypes, BeforeFrames, BeforeWriting, BeforePending,
      BeforeInbox
  <2>11. TypedInOrder'
    BY <2>0, <2>1, <2>2, <2>3, <2>4 DEF Types, KeysInOrder, TypedInOrder
  <2>12. TtyInOrder'
    BY <2>0, <2>1, <2>2, <2>3, <2>4 DEF Types, KeysInOrder, TtyInOrder
  <2>13. FramesInOrder'
    BY <2>0, <2>1, <2>2, <2>3, <2>4 DEF Types, KeysInOrder, FramesInOrder
  <2>14. WritingInOrder'
    BY <2>0, <2>1, <2>2, <2>3, <2>4 DEF Types, KeysInOrder, WritingInOrder
  <2>15. PendingInOrder'
    BY <2>0, <2>1, <2>2, <2>3, <2>4 DEF Types, KeysInOrder, PendingInOrder
  <2>16. InboxInOrder'
    <3> SUFFICES ASSUME shell # "over", pump # "over", NEW i \in 1 .. Len(inbox) + 1
               PROVE  inbox'[i] \in {BeforeInbox + i, Close}
      BY <2>1, <2>2, <2>4 DEF InboxInOrder
    <3>1. CASE i = Len(inbox) + 1
      <4>1. inbox'[i] = BeforeInbox + i BY <2>2, <2>3, <2>5, <3>1
      <4> QED BY <4>1
    <3>2. CASE i \in 1 .. Len(inbox) BY <2>0, <2>2, <3>2 DEF KeysInOrder, InboxInOrder
    <3> QED BY <2>2, <3>1, <3>2
  <2>17. AllIsHere'
    BY <2>0, <2>1, <2>2, <2>3, <2>4 DEF Types, KeysInOrder, AllIsHere
  <2> QED BY <2>11, <2>12, <2>13, <2>14, <2>15, <2>16, <2>17 DEF KeysInOrder
<1>6. ToldLast' BY DEF IndInv, Type, ToldLast
<1>7. NothingUnaccounted' BY DEF IndInv, Type, NothingUnaccounted, Told
<1>8. InputEndsByClosing'
  <2>1. Types /\ InputEndsByClosing BY DEF IndInv
  <2>2. UNCHANGED <<kind, at, listed, closing, lost, pump>> BY DEF Type
  <2>3. Grows(inbox, inbox', typed + 1) BY <2>1, Appended DEF Types, Type, Grows
  <2>4. ASSUME NEW i \in 1 .. Len(inbox'), inbox'[i] = 0 PROVE closing
    <3>1. i \in 1 .. Len(inbox) /\ inbox[i] = 0 BY <2>1, <2>3, <2>4 DEF Grows, Types
    <3> QED BY <2>1, <3>1 DEF InputEndsByClosing
  <2> QED BY <2>1, <2>2, <2>4 DEF InputEndsByClosing
<1>9. SilentAfterExit' BY DEF IndInv, Type, SilentAfterExit
<1>10. ExitIsLast' BY DEF IndInv, Type, ExitIsLast
<1>11. Flags' BY DEF IndInv, Type, Flags
<1> QED BY <1>1, <1>2, <1>3, <1>4, <1>5, <1>6, <1>7, <1>8, <1>9, <1>10, <1>11 DEF IndInv

\* Closing the tab puts the close behind all keys.
LEMMA CloseTabStep == ASSUME IndInv, CloseTab PROVE IndInv'
<1> USE DEF input, app, remote, elevated, Elevated, Close, Keys
<1>1. Types' BY DEF IndInv, CloseTab, Types, FrameTypes
<1>2. Stages' BY DEF IndInv, CloseTab, Stages
<1>3. BrokerStages' BY DEF IndInv, CloseTab, BrokerStages
<1>4. NeverTakenUp' BY DEF IndInv, CloseTab, NeverTakenUp
<1>5. KeysInOrder'
  <2>0. Types /\ KeysInOrder BY DEF IndInv
  <2>1. inbox' = Append(inbox, 0) /\ ~listed'
        /\ UNCHANGED <<kind, typed, got, tty, shell, frames, pump, writing, pending>>
    BY <2>0 DEF CloseTab
  <2>2. /\ Len(inbox') = Len(inbox) + 1 /\ Len(inbox) \in Nat
        /\ \A i \in 1 .. Len(inbox) : inbox'[i] = inbox[i]
        /\ inbox'[Len(inbox) + 1] = 0
    BY <2>0, <2>1, Appended DEF Types
  <2>3. BeforeFrames \in Nat /\ BeforeWriting \in Nat /\ BeforePending \in Nat
        /\ BeforeInbox \in Nat
    BY <2>0 DEF Types, FrameTypes, BeforeFrames, BeforeWriting, BeforePending, BeforeInbox
  <2>4. BeforeFrames' = BeforeFrames /\ BeforeWriting' = BeforeWriting
        /\ BeforePending' = BeforePending /\ BeforeInbox' = BeforeInbox
   BY <2>0, <2>1, <2>2, <2>3 DEF Types, FrameTypes, BeforeFrames, BeforeWriting, BeforePending,
      BeforeInbox
  <2>11. TypedInOrder'
    BY <2>0, <2>1, <2>2, <2>3, <2>4 DEF Types, KeysInOrder, TypedInOrder
  <2>12. TtyInOrder'
    BY <2>0, <2>1, <2>2, <2>3, <2>4 DEF Types, KeysInOrder, TtyInOrder
  <2>13. FramesInOrder'
    BY <2>0, <2>1, <2>2, <2>3, <2>4 DEF Types, KeysInOrder, FramesInOrder
  <2>14. WritingInOrder'
    BY <2>0, <2>1, <2>2, <2>3, <2>4 DEF Types, KeysInOrder, WritingInOrder
  <2>15. PendingInOrder'
    BY <2>0, <2>1, <2>2, <2>3, <2>4 DEF Types, KeysInOrder, PendingInOrder
  <2>16. InboxInOrder'
    BY <2>0, <2>1, <2>2, <2>3, <2>4 DEF Types, KeysInOrder, InboxInOrder
  <2>17. AllIsHere'
    BY <2>0, <2>1, <2>2, <2>3, <2>4 DEF Types, KeysInOrder, AllIsHere
  <2> QED BY <2>11, <2>12, <2>13, <2>14, <2>15, <2>16, <2>17 DEF KeysInOrder
<1>6. ToldLast' BY DEF IndInv, CloseTab, ToldLast
<1>7. NothingUnaccounted' BY DEF IndInv, CloseTab, NothingUnaccounted, Told
<1>8. InputEndsByClosing' BY DEF IndInv, CloseTab, InputEndsByClosing
<1>9. SilentAfterExit' BY DEF IndInv, CloseTab, SilentAfterExit
<1>10. ExitIsLast' BY DEF IndInv, CloseTab, ExitIsLast
<1>11. Flags' BY DEF IndInv, CloseTab, Flags
<1> QED BY <1>1, <1>2, <1>3, <1>4, <1>5, <1>6, <1>7, <1>8, <1>9, <1>10, <1>11 DEF IndInv

\* The shell reads the next key, and prints it.
LEMMA EchoStep == ASSUME IndInv, Echo PROVE IndInv'
<1> USE DEF input, app, remote, elevated, Elevated, Close, Keys
<1>1. Types' BY DEF IndInv, Echo, Types, FrameTypes
<1>2. Stages' BY DEF IndInv, Echo, Stages
<1>3. BrokerStages' BY DEF IndInv, Echo, BrokerStages
<1>4. NeverTakenUp' BY DEF IndInv, Echo, NeverTakenUp
<1>5. KeysInOrder'
  <2>0. Types /\ KeysInOrder BY DEF IndInv
  <2>1. tty # <<>> /\ tty' = Tail(tty) /\ got' = Append(got, Head(tty))
        /\ UNCHANGED <<kind, listed, typed, inbox, shell, frames, pump, writing, pending>>
    BY <2>0 DEF Echo
  <2>2. /\ Head(tty) = tty[1] /\ Len(tty) >= 1 /\ Len(tty') = Len(tty) - 1
        /\ \A i \in 1 .. Len(tty') : tty'[i] = tty[i + 1]
        /\ got' \in Seq(Keys) /\ Len(got') = Len(got) + 1 /\ Len(got) \in Nat /\ Len(tty) \in Nat
        /\ \A i \in 1 .. Len(got) : got'[i] = got[i]
        /\ got'[Len(got) + 1] = Head(tty)
    <3>1. /\ Head(tty) = tty[1] /\ Head(tty) \in Keys /\ Len(tty) >= 1 /\ Len(tty') = Len(tty) - 1
          /\ \A i \in 1 .. Len(tty') : tty'[i] = tty[i + 1]
      BY <2>0, <2>1, Taken DEF Types
    <3>2. /\ got' \in Seq(Keys) /\ Len(got') = Len(got) + 1
          /\ \A i \in 1 .. Len(got) : got'[i] = got[i]
          /\ got'[Len(got) + 1] = Head(tty)
      BY <2>0, <2>1, <3>1, Appended DEF Types
    <3>3. Len(got) \in Nat /\ Len(tty) \in Nat BY <2>0 DEF Types
    <3> QED BY <3>1, <3>2, <3>3
  <2>3. BeforeFrames \in Nat /\ BeforeWriting \in Nat /\ BeforePending \in Nat
        /\ BeforeInbox \in Nat
    BY <2>0 DEF Types, FrameTypes, BeforeFrames, BeforeWriting, BeforePending, BeforeInbox
  <2>4. BeforeFrames' = BeforeFrames /\ BeforeWriting' = BeforeWriting
        /\ BeforePending' = BeforePending /\ BeforeInbox' = BeforeInbox
   BY <2>0, <2>1, <2>2, <2>3 DEF Types, FrameTypes, BeforeFrames, BeforeWriting, BeforePending,
      BeforeInbox
  <2>11. TypedInOrder'
    <3> SUFFICES ASSUME NEW i \in 1 .. Len(got) + 1 PROVE got'[i] = i
      BY <2>2 DEF TypedInOrder
    <3>1. CASE i = Len(got) + 1
      <4>1. tty[1] = Len(got) + 1 BY <2>0, <2>2 DEF KeysInOrder, TtyInOrder
      <4> QED BY <2>2, <3>1, <4>1
    <3>2. CASE i \in 1 .. Len(got)
      <4>1. i \in DOMAIN got BY <2>0, <3>2 DEF Types
      <4> QED BY <2>0, <2>2, <3>2, <4>1 DEF KeysInOrder, TypedInOrder
    <3> QED BY <2>2, <3>1, <3>2
  <2>12. TtyInOrder'
    BY <2>0, <2>1, <2>2, <2>3, <2>4 DEF Types, KeysInOrder, TtyInOrder
  <2>13. FramesInOrder'
    BY <2>0, <2>1, <2>2, <2>3, <2>4 DEF Types, KeysInOrder, FramesInOrder
  <2>14. WritingInOrder'
    BY <2>0, <2>1, <2>2, <2>3, <2>4 DEF Types, KeysInOrder, WritingInOrder
  <2>15. PendingInOrder'
    BY <2>0, <2>1, <2>2, <2>3, <2>4 DEF Types, KeysInOrder, PendingInOrder
  <2>16. InboxInOrder'
    BY <2>0, <2>1, <2>2, <2>3, <2>4 DEF Types, KeysInOrder, InboxInOrder
  <2>17. AllIsHere'
    BY <2>0, <2>1, <2>2, <2>3, <2>4 DEF Types, KeysInOrder, AllIsHere
  <2> QED BY <2>11, <2>12, <2>13, <2>14, <2>15, <2>16, <2>17 DEF KeysInOrder
<1>6. ToldLast' BY DEF IndInv, Echo, ToldLast
<1>7. NothingUnaccounted'
  <2>1. Types /\ NothingUnaccounted BY DEF IndInv
  <2>2. UNCHANGED <<lost, shown>> /\ Told' = Told /\ Told \in Nat
        /\ Len(frames.out') = Len(frames.out)
    BY DEF Echo, Told
  <2>3. Len(got') = Len(got) + 1 /\ Len(output') = Len(output) + 1
    <3>1. Head(tty) \in Keys BY <2>1, Taken DEF Types, Echo
    <3> QED BY <2>1, <3>1, Appended DEF Types, Echo
  <2>4. Len(frames.out) \in Nat /\ Len(got) \in Nat /\ Len(output) \in Nat /\ shown \in Nat
    BY <2>1 DEF Types, FrameTypes
  <2>5. CASE lost BY <2>2, <2>5 DEF NothingUnaccounted
  <2>6. CASE ~lost
    <3>1. shown + Len(frames.out) + Len(output) = Len(got) + Told
      BY <2>1, <2>6 DEF NothingUnaccounted
    <3> DEFINE f == Len(frames.out)
               f1 == Len(frames.out')
               o == Len(output)
               o1 == Len(output')
               g == Len(got)
               g1 == Len(got')
    <3>3. /\ f \in Nat /\ o \in Nat /\ g \in Nat /\ shown \in Nat /\ Told \in Nat
          /\ f1 = f /\ Told' = Told /\ shown + f + o = g + Told BY <2>2, <2>4, <3>1
    <3>4. shown' = shown /\ g1 = g + 1 /\ o1 = o + 1 BY <2>2, <2>3, <2>4
    <3> HIDE DEF f, f1, o, o1, g, g1
    <3>5. shown' + f1 + o1 = g1 + Told' BY <3>3, <3>4
    <3>2. shown' + Len(frames.out') + Len(output') = Len(got') + Told' BY <3>5 DEF f1, o1, g1
    <3> QED BY <3>2 DEF NothingUnaccounted
  <2> QED BY <2>5, <2>6
<1>8. InputEndsByClosing' BY DEF IndInv, Echo, InputEndsByClosing
<1>9. SilentAfterExit' BY DEF IndInv, Echo, SilentAfterExit
<1>10. ExitIsLast'
  BY DEF IndInv, Echo, ExitIsLast, Types, Stages, BrokerStages, NeverTakenUp, SilentAfterExit
<1>11. Flags' BY DEF IndInv, Echo, Flags
<1> QED BY <1>1, <1>2, <1>3, <1>4, <1>5, <1>6, <1>7, <1>8, <1>9, <1>10, <1>11 DEF IndInv

\* The shell exits: what it has not read is gone, what it printed is not.
LEMMA ShellExitsStep == ASSUME IndInv, ShellExits PROVE IndInv'
<1> USE DEF input, app, remote, elevated, Elevated, Close, Keys
<1>1. Types' BY DEF IndInv, ShellExits, Types, FrameTypes
<1>2. Stages' BY DEF IndInv, ShellExits, Stages
<1>3. BrokerStages' BY DEF IndInv, ShellExits, BrokerStages
<1>4. NeverTakenUp' BY DEF IndInv, ShellExits, NeverTakenUp
<1>5. KeysInOrder'
  BY DEF IndInv, ShellExits, TypedInOrder, TtyInOrder, FramesInOrder, WritingInOrder,
     PendingInOrder, InboxInOrder, AllIsHere, KeysInOrder, BeforeFrames, BeforeWriting,
     BeforePending, BeforeInbox
<1>6. ToldLast' BY DEF IndInv, ShellExits, ToldLast
<1>7. NothingUnaccounted' BY DEF IndInv, ShellExits, NothingUnaccounted, Told
<1>8. InputEndsByClosing' BY DEF IndInv, ShellExits, InputEndsByClosing
<1>9. SilentAfterExit' BY DEF IndInv, ShellExits, SilentAfterExit
<1>10. ExitIsLast' BY DEF IndInv, ShellExits, ExitIsLast
<1>11. Flags' BY DEF IndInv, ShellExits, Flags
<1> QED BY <1>1, <1>2, <1>3, <1>4, <1>5, <1>6, <1>7, <1>8, <1>9, <1>10, <1>11 DEF IndInv

\* The connection is lost.
LEMMA LoseStep == ASSUME IndInv, Lose PROVE IndInv'
<1> USE DEF input, app, remote, elevated, Elevated, Close, Keys
<1>1. Types' BY DEF IndInv, Lose, Types, FrameTypes
<1>2. Stages' BY DEF IndInv, Lose, Stages
<1>3. BrokerStages' BY DEF IndInv, Lose, BrokerStages
<1>4. NeverTakenUp' BY DEF IndInv, Lose, NeverTakenUp
<1>5. KeysInOrder'
  BY DEF IndInv, Lose, TypedInOrder, TtyInOrder, FramesInOrder, WritingInOrder, PendingInOrder,
     InboxInOrder, AllIsHere, KeysInOrder, BeforeFrames, BeforeWriting, BeforePending, BeforeInbox
<1>6. ToldLast' BY DEF IndInv, Lose, ToldLast
<1>7. NothingUnaccounted' BY DEF IndInv, Lose, NothingUnaccounted, Told
<1>8. InputEndsByClosing' BY DEF IndInv, Lose, InputEndsByClosing
<1>9. SilentAfterExit' BY DEF IndInv, Lose, SilentAfterExit
<1>10. ExitIsLast' BY DEF IndInv, Lose, ExitIsLast
<1>11. Flags' BY DEF IndInv, Lose, Flags
<1> QED BY <1>1, <1>2, <1>3, <1>4, <1>5, <1>6, <1>7, <1>8, <1>9, <1>10, <1>11 DEF IndInv

\* The pump takes the next message.
LEMMA TakeStep == ASSUME IndInv, Take PROVE IndInv'
<1> USE DEF input, app, remote, elevated, Elevated, Close, Keys
<1>1. Types'
  <2>1. Types BY DEF IndInv
  <2>2. pump' = "write" /\ pending' \in Seq(Keys) /\ inbox' \in Seq(Nat) /\ writing' \in Nat
    BY <2>1, TakeIs DEF Types
  <2>3. UNCHANGED <<kind, typed, at, tty, got, output, shell, reader, shown, broker, frames>>
    BY DEF Take
  <2> QED BY <2>1, <2>2, <2>3 DEF Types
<1>2. Stages' BY DEF IndInv, Take, Waiting, Stages
<1>3. BrokerStages' BY DEF IndInv, Take, Waiting, BrokerStages
<1>4. NeverTakenUp' BY DEF IndInv, Take, Waiting, NeverTakenUp
<1>5. KeysInOrder'
  <2>0. Types /\ KeysInOrder BY DEF IndInv
  <2>1. pump = "recv" /\ pump' = "write" BY <2>0, TakeIs
  <2>2. listed' = listed /\ UNCHANGED <<kind, got, tty, shell, frames, typed>> BY DEF Take
  <2>3. BeforeFrames \in Nat /\ BeforeWriting \in Nat /\ BeforePending \in Nat
        /\ BeforeInbox \in Nat
        /\ Len(pending) \in Nat /\ Len(inbox) \in Nat
    BY <2>0 DEF Types, FrameTypes, BeforeFrames, BeforeWriting, BeforePending, BeforeInbox
  <2>4. BeforeFrames' = BeforeFrames /\ BeforeWriting' = BeforeWriting
        /\ BeforePending = BeforeWriting /\ BeforePending' = BeforePending + 1
    BY <2>1, <2>2, <2>3 DEF BeforeFrames, BeforeWriting, BeforePending
  <2>5. TypedInOrder' /\ TtyInOrder' /\ FramesInOrder'
    BY <2>0, <2>2, <2>4 DEF KeysInOrder, TypedInOrder, TtyInOrder, FramesInOrder
  <2>6. CASE /\ MovesUp(pending, pending')
             /\ writing' = pending[1] /\ writing' \in Keys /\ inbox' = inbox
    <3>1. BeforeInbox' = BeforeInbox BY <2>3, <2>4, <2>6 DEF BeforeInbox, MovesUp
    <3>2. WritingInOrder'
      <4>1. shell # "over" => pending[1] = BeforePending + 1
        BY <2>0, <2>1, <2>3, <2>6 DEF KeysInOrder, PendingInOrder, MovesUp
      <4> QED BY <2>2, <2>3, <2>4, <2>6, <4>1 DEF WritingInOrder
    <3>3. PendingInOrder'
      <4> SUFFICES ASSUME shell # "over", NEW i \in 1 .. Len(pending')
                   PROVE  pending'[i] = BeforePending' + i
        BY <2>2 DEF PendingInOrder
      <4>1. i + 1 \in 1 .. Len(pending) /\ pending'[i] = pending[i + 1] BY <2>3, <2>6 DEF MovesUp
      <4>2. pending[i + 1] = BeforePending + (i + 1)
        BY <2>0, <2>1, <4>1 DEF KeysInOrder, PendingInOrder
      <4> QED BY <2>3, <2>4, <4>1, <4>2
    <3>4. InboxInOrder' BY <2>0, <2>1, <2>2, <2>6, <3>1 DEF KeysInOrder, InboxInOrder
    <3>5. AllIsHere' BY <2>0, <2>1, <2>2, <2>6, <3>1 DEF KeysInOrder, AllIsHere
    <3> QED BY <2>5, <3>2, <3>3, <3>4, <3>5 DEF KeysInOrder
  <2>7. CASE /\ pending = <<>> /\ pending' = <<>>
             /\ MovesUp(inbox, inbox')
             /\ writing' = inbox[1] /\ writing' \in Nat /\ (Elevated \/ writing' # Close)
    <3>1. BeforeInbox' = BeforeInbox + 1 /\ BeforeInbox = BeforePending
      BY <2>3, <2>4, <2>7 DEF BeforeInbox
    <3>2. WritingInOrder'
      <4>1. shell # "over" => inbox[1] \in {BeforeInbox + 1, 0}
        BY <2>0, <2>1, <2>3, <2>7 DEF KeysInOrder, InboxInOrder, MovesUp
      <4> QED BY <2>2, <2>3, <2>4, <2>7, <3>1, <4>1 DEF WritingInOrder
    <3>3. PendingInOrder' BY <2>7 DEF PendingInOrder
    <3>4. InboxInOrder'
      <4> SUFFICES ASSUME shell # "over", NEW i \in 1 .. Len(inbox')
                   PROVE  inbox'[i] \in {BeforeInbox' + i, 0}
        BY <2>2 DEF InboxInOrder
      <4>1. i + 1 \in 1 .. Len(inbox) /\ inbox'[i] = inbox[i + 1] BY <2>3, <2>7 DEF MovesUp
      <4>2. inbox[i + 1] \in {BeforeInbox + (i + 1), 0}
        BY <2>0, <2>1, <4>1 DEF KeysInOrder, InboxInOrder
      <4> QED BY <2>3, <3>1, <4>1, <4>2
    <3>5. AllIsHere'
      <4>1. shell # "over" /\ listed => typed = BeforeInbox + Len(inbox)
        BY <2>0, <2>1 DEF KeysInOrder, AllIsHere
      <4>2. BeforeInbox' + Len(inbox') = BeforeInbox + Len(inbox) BY <2>3, <2>7, <3>1 DEF MovesUp
      <4> QED BY <2>2, <4>1, <4>2 DEF AllIsHere
    <3> QED BY <2>5, <3>2, <3>3, <3>4, <3>5 DEF KeysInOrder
  <2> QED BY <2>0, <2>6, <2>7, TakeIs
<1>6. ToldLast' BY DEF IndInv, Take, Waiting, ToldLast
<1>7. NothingUnaccounted' BY DEF IndInv, Take, Waiting, NothingUnaccounted, Told
<1>8. InputEndsByClosing'
  <2>1. Types /\ InputEndsByClosing BY DEF IndInv
  <2>2. UNCHANGED <<kind, at, listed, closing, lost>> BY DEF Take
  <2>3. pump' = "write" /\ (inbox' = inbox \/ MovesUp(inbox, inbox')) BY <2>1, TakeIs
  <2>4. CASE inbox' = inbox BY <2>1, <2>2, <2>3, <2>4 DEF InputEndsByClosing
  <2>5. CASE MovesUp(inbox, inbox')
    <3> SUFFICES ASSUME NEW i \in 1 .. Len(inbox'), inbox'[i] = 0 PROVE closing
      BY <2>1, <2>2, <2>3 DEF InputEndsByClosing
    <3>1. i + 1 \in 1 .. Len(inbox) /\ inbox[i + 1] = 0 BY <2>1, <2>5 DEF MovesUp, Types
    <3> QED BY <2>1, <3>1 DEF InputEndsByClosing
  <2> QED BY <2>3, <2>4, <2>5
<1>9. SilentAfterExit' BY DEF IndInv, Take, Waiting, SilentAfterExit
<1>10. ExitIsLast' BY DEF IndInv, Take, Waiting, ExitIsLast
<1>11. Flags' BY DEF IndInv, Take, Waiting, Flags
<1> QED BY <1>1, <1>2, <1>3, <1>4, <1>5, <1>6, <1>7, <1>8, <1>9, <1>10, <1>11 DEF IndInv

\* It is written to the terminal or the channel, next in order.
LEMMA WriteStep == ASSUME IndInv, Write PROVE IndInv'
<1> USE DEF input, app, remote, elevated, Elevated, Close, Keys
<1>1. Types'
  <2>1. Types /\ WritingInOrder BY DEF IndInv, KeysInOrder
  <2>2. tty' = tty \/ tty' = Append(tty, writing) BY DEF Write
  <2>3. writing \in Keys BY <2>1 DEF Write, Types, WritingInOrder
  <2>4. tty' \in Seq(Keys)
    <3>1. tty \in Seq(Keys) BY <2>1 DEF Types
    <3>2. Append(tty, writing) \in Seq(Keys) BY <2>3, <3>1, Appended
    <3> QED BY <2>2, <3>1, <3>2
  <2>5. pump' \in {"over", "recv"} /\ writing' = 0 BY DEF Write
  <2>6. UNCHANGED <<kind, typed, inbox, pending, at, got, output, shell, reader, shown, broker,
                   frames>>
    BY DEF Write
  <2> QED BY <2>1, <2>4, <2>5, <2>6 DEF Types
<1>2. Stages' BY DEF IndInv, Write, Stages
<1>3. BrokerStages' BY DEF IndInv, Write, BrokerStages
<1>4. NeverTakenUp' BY DEF IndInv, Write, NeverTakenUp
<1>5. KeysInOrder'
  <2>0. Types /\ KeysInOrder BY DEF IndInv
  <2>1. pump = "write" /\ ~Elevated BY DEF Write
  <2>2. listed' = listed /\ UNCHANGED <<kind, got, shell, typed, pending, inbox, frames>>
    BY DEF Write
  <2>3. BeforeFrames \in Nat /\ BeforeWriting \in Nat /\ BeforePending \in Nat
        /\ BeforeInbox \in Nat
        /\ Len(pending) \in Nat /\ Len(inbox) \in Nat /\ Len(got) \in Nat /\ Len(tty) \in Nat
    BY <2>0 DEF Types, FrameTypes, BeforeFrames, BeforeWriting, BeforePending, BeforeInbox
  <2>4. frames.in = <<>> /\ BeforeWriting = BeforeFrames /\ BeforePending = BeforeWriting + 1
    <3>1. frames.in = <<>> BY <2>1 DEF IndInv, BrokerStages
    <3> QED BY <2>1, <2>3, <3>1 DEF BeforeWriting, BeforePending
  <2>5. TypedInOrder' /\ FramesInOrder'
    BY <2>0, <2>2, <2>4 DEF KeysInOrder, TypedInOrder, FramesInOrder
  <2>6. CASE shell # "runs"
    <3>1. tty' = tty /\ shell = "over"
      <4>1. shell # "none" BY <2>1 DEF IndInv, Stages
      <4> QED BY <2>0, <2>6, <4>1 DEF Write, Types
    <3>2. TtyInOrder' BY <2>0, <2>2, <3>1 DEF KeysInOrder, TtyInOrder
    <3>3. WritingInOrder' /\ PendingInOrder' /\ InboxInOrder' /\ AllIsHere'
      <4>1. pump' # "write" BY DEF Write
      <4> QED BY <2>2, <3>1, <4>1 DEF WritingInOrder, PendingInOrder, InboxInOrder, AllIsHere
    <3> QED BY <2>5, <3>2, <3>3 DEF KeysInOrder
  <2>7. CASE shell = "runs"
    <3>1. pump' = "recv" /\ Grows(tty, tty', writing)
      <4>1. writing \in Keys BY <2>0, <2>1 DEF Types, KeysInOrder, WritingInOrder
      <4>2. pump' = "recv" /\ tty' = Append(tty, writing) BY <2>7 DEF Write
      <4> QED BY <2>0, <4>1, <4>2, Appended DEF Types, Grows
    <3>2. TtyInOrder'
      <4> SUFFICES ASSUME NEW i \in 1 .. Len(tty') PROVE tty'[i] = Len(got) + i
        BY <2>2 DEF TtyInOrder
      <4>1. CASE i = Len(tty) + 1
        <5>1. writing = BeforeWriting + 1 BY <2>0, <2>1, <2>7 DEF KeysInOrder, WritingInOrder
        <5> QED BY <2>3, <2>4, <3>1, <4>1, <5>1 DEF Grows, BeforeFrames
      <4>2. CASE i \in 1 .. Len(tty) BY <2>0, <3>1, <4>2 DEF Grows, KeysInOrder, TtyInOrder
      <4> QED BY <3>1, <4>1, <4>2 DEF Grows
    <3>3. BeforeFrames' = BeforeFrames + 1 /\ BeforeWriting' = BeforeWriting + 1
      BY <2>2, <2>3, <2>4, <3>1 DEF Grows, BeforeFrames, BeforeWriting
    <3>4. BeforePending' = BeforePending /\ BeforeInbox' = BeforeInbox
      BY <2>2, <2>3, <2>4, <3>1, <3>3 DEF BeforePending, BeforeInbox
    <3>5. FramesInOrder' BY <2>2, <2>4 DEF FramesInOrder
    <3>6. WritingInOrder' BY <3>1 DEF WritingInOrder
    <3>7. PendingInOrder' BY <2>0, <2>1, <2>2, <3>4 DEF KeysInOrder, PendingInOrder
    <3>8. InboxInOrder' BY <2>0, <2>1, <2>2, <3>4 DEF KeysInOrder, InboxInOrder
    <3>9. AllIsHere' BY <2>0, <2>1, <2>2, <3>4 DEF KeysInOrder, AllIsHere
    <3> QED BY <2>5, <3>2, <3>5, <3>6, <3>7, <3>8, <3>9 DEF KeysInOrder
  <2> QED BY <2>6, <2>7
<1>6. ToldLast' BY DEF IndInv, Write, ToldLast
<1>7. NothingUnaccounted' BY DEF IndInv, Write, NothingUnaccounted, Told
<1>8. InputEndsByClosing' BY DEF IndInv, Write, InputEndsByClosing
<1>9. SilentAfterExit' BY DEF IndInv, Write, SilentAfterExit
<1>10. ExitIsLast' BY DEF IndInv, Write, ExitIsLast
<1>11. Flags' BY DEF IndInv, Write, Flags
<1> QED BY <1>1, <1>2, <1>3, <1>4, <1>5, <1>6, <1>7, <1>8, <1>9, <1>10, <1>11 DEF IndInv

\* It is written to the broker's pipe, next in order.
LEMMA WriteFrameStep == ASSUME IndInv, WriteFrame PROVE IndInv'
<1> USE DEF input, app, remote, elevated, Elevated, Close, Keys
<1>1. Types'
  <2>1. Types BY DEF IndInv
  <2>2. frames' \in FrameTypes
    <3>1. frames' = frames \/ frames' = Put("in", writing) BY DEF WriteFrame
    <3> QED BY <2>1, <3>1, PutIs DEF Types
  <2>3. pump' \in {"over", "recv"} /\ writing' = 0 BY DEF WriteFrame
  <2>4. UNCHANGED <<kind, typed, inbox, pending, at, tty, got, output, shell, reader, shown,
                   broker>>
    BY DEF WriteFrame
  <2> QED BY <2>1, <2>2, <2>3, <2>4 DEF Types
<1>2. Stages' BY DEF IndInv, WriteFrame, Put, Stages
<1>3. BrokerStages' BY DEF IndInv, WriteFrame, Put, BrokerStages
<1>4. NeverTakenUp' BY DEF IndInv, WriteFrame, Put, NeverTakenUp
<1>5. KeysInOrder'
  <2>0. Types /\ KeysInOrder BY DEF IndInv
  <2>1. pump = "write" /\ Elevated BY DEF WriteFrame
  <2>2. listed' = listed /\ UNCHANGED <<kind, got, tty, shell, typed, pending, inbox>>
    BY DEF WriteFrame
  <2>3. BeforeFrames \in Nat /\ BeforeWriting \in Nat /\ BeforePending \in Nat
        /\ BeforeInbox \in Nat
        /\ Len(pending) \in Nat /\ Len(inbox) \in Nat
    BY <2>0 DEF Types, FrameTypes, BeforeFrames, BeforeWriting, BeforePending, BeforeInbox
  <2>4. BeforeFrames' = BeforeFrames /\ BeforePending = BeforeWriting + 1
    BY <2>1, <2>2, <2>3 DEF BeforeFrames, BeforePending
  <2>5. TypedInOrder' /\ TtyInOrder' BY <2>0, <2>2 DEF KeysInOrder, TypedInOrder, TtyInOrder
  <2>6. CASE frames' = frames /\ pump' = "over"
    <3>1. FramesInOrder' BY <2>0, <2>2, <2>4, <2>6 DEF KeysInOrder, FramesInOrder
    <3>2. WritingInOrder' /\ PendingInOrder' /\ InboxInOrder' /\ AllIsHere'
      BY <2>6 DEF WritingInOrder, PendingInOrder, InboxInOrder, AllIsHere
    <3> QED BY <2>5, <3>1, <3>2 DEF KeysInOrder
  <2>7. CASE /\ frames' = Put("in", writing)
             /\ pump' = (IF writing = 0 THEN "over" ELSE "recv")
    <3>1. Grows(frames.in, frames.in', writing) BY <2>0, <2>7, PutIs DEF Types
    <3>2. shell # "over" => writing \in {BeforeWriting + 1, 0}
      BY <2>0, <2>1 DEF KeysInOrder, WritingInOrder
    <3>3. FramesInOrder'
      <4> SUFFICES ASSUME shell # "over", NEW i \in 1 .. Len(frames.in')
                   PROVE  frames.in'[i] \in {BeforeFrames + i, 0}
        BY <2>2, <2>4 DEF FramesInOrder
      <4>1. CASE i = Len(frames.in) + 1
        <5>1. frames.in'[i] = writing /\ BeforeFrames + i = BeforeWriting + 1
          BY <2>3, <3>1, <4>1 DEF Grows, BeforeWriting
        <5> QED BY <3>2, <5>1
      <4>2. CASE i \in 1 .. Len(frames.in) BY <2>0, <3>1, <4>2 DEF Grows, KeysInOrder, FramesInOrder
      <4> QED BY <3>1, <4>1, <4>2 DEF Grows
    <3>4. pump' # "over" => BeforePending' = BeforePending /\ BeforeInbox' = BeforeInbox
      <4>1. BeforeWriting' = BeforeWriting + 1 BY <2>3, <2>4, <3>1 DEF Grows, BeforeWriting
      <4>2. pump' # "over" => pump' = "recv" BY <2>7
      <4> QED BY <2>2, <2>3, <2>4, <4>1, <4>2 DEF BeforePending, BeforeInbox
    <3>5. WritingInOrder' BY <2>7 DEF WritingInOrder
    <3>6. PendingInOrder' BY <2>0, <2>1, <2>2, <3>4 DEF KeysInOrder, PendingInOrder
    <3>7. InboxInOrder' BY <2>0, <2>1, <2>2, <3>4 DEF KeysInOrder, InboxInOrder
    <3>8. AllIsHere' BY <2>0, <2>1, <2>2, <3>4 DEF KeysInOrder, AllIsHere
    <3> QED BY <2>5, <3>3, <3>5, <3>6, <3>7, <3>8 DEF KeysInOrder
  <2>8. \/ frames' = frames /\ pump' = "over"
        \/ frames' = Put("in", writing) /\ pump' = (IF writing = 0 THEN "over" ELSE "recv")
    BY DEF WriteFrame
  <2> QED BY <2>6, <2>7, <2>8
<1>6. ToldLast' BY DEF IndInv, WriteFrame, Put, ToldLast
<1>7. NothingUnaccounted' BY DEF IndInv, WriteFrame, Put, NothingUnaccounted, Told
<1>8. InputEndsByClosing' BY DEF IndInv, WriteFrame, Put, InputEndsByClosing
<1>9. SilentAfterExit' BY DEF IndInv, WriteFrame, Put, SilentAfterExit
<1>10. ExitIsLast' BY DEF IndInv, WriteFrame, Put, ExitIsLast
<1>11. Flags' BY DEF IndInv, WriteFrame, Put, Flags
<1> QED BY <1>1, <1>2, <1>3, <1>4, <1>5, <1>6, <1>7, <1>8, <1>9, <1>10, <1>11 DEF IndInv

\* The pump ends where the input does.
LEMMA StopPumpStep == ASSUME IndInv, StopPump PROVE IndInv'
<1> USE DEF input, app, remote, elevated, Elevated, Close, Keys
<1>1. Types' BY DEF IndInv, StopPump, InputEnded, Waiting, Types, FrameTypes
<1>2. Stages' BY DEF IndInv, StopPump, InputEnded, Waiting, Stages
<1>3. BrokerStages' BY DEF IndInv, StopPump, InputEnded, Waiting, BrokerStages
<1>4. NeverTakenUp' BY DEF IndInv, StopPump, InputEnded, Waiting, NeverTakenUp
<1>5. KeysInOrder'
  BY DEF IndInv, StopPump, InputEnded, Waiting, TypedInOrder, TtyInOrder, FramesInOrder,
     WritingInOrder, PendingInOrder, InboxInOrder, AllIsHere, KeysInOrder, BeforeFrames,
     BeforeWriting, BeforePending, BeforeInbox
<1>6. ToldLast' BY DEF IndInv, StopPump, InputEnded, Waiting, ToldLast
<1>7. NothingUnaccounted' BY DEF IndInv, StopPump, InputEnded, Waiting, NothingUnaccounted, Told
<1>8. InputEndsByClosing'
  <2>1. Types /\ InputEndsByClosing BY DEF IndInv
  <2>2. UNCHANGED <<kind, at, listed, closing, lost, inbox>> BY DEF StopPump
  <2>3. (Waiting = <<>> /\ ~listed) \/ (Waiting # <<>> /\ Head(Waiting) = 0)
    BY DEF StopPump, InputEnded
  <2>4. kind = "ssh" /\ at = "running" => closing
    <3>1. CASE ~listed BY <2>1, <3>1 DEF InputEndsByClosing
    <3>2. CASE Waiting # <<>> /\ Head(Waiting) = 0
      <4>1. pending = <<>>
        <5>1. pending # <<>> => Head(pending) \in Keys BY <2>1, Taken DEF Types
        <5>2. pending # <<>> => Head(pending) = 0 BY <2>1, <3>2, Waits
        <5> QED BY <5>1, <5>2
      <4>2. inbox # <<>> /\ Head(inbox) = 0 BY <2>1, <3>2, <4>1, Waits
      <4>3. 1 \in 1 .. Len(inbox) /\ inbox[1] = 0 BY <2>1, <4>2, Taken DEF Types
      <4> QED BY <2>1, <4>3 DEF InputEndsByClosing
    <3> QED BY <2>3, <3>1, <3>2
  <2> QED BY <2>1, <2>2, <2>4 DEF InputEndsByClosing
<1>9. SilentAfterExit' BY DEF IndInv, StopPump, InputEnded, Waiting, SilentAfterExit
<1>10. ExitIsLast' BY DEF IndInv, StopPump, InputEnded, Waiting, ExitIsLast
<1>11. Flags' BY DEF IndInv, StopPump, InputEnded, Waiting, Flags
<1> QED BY <1>1, <1>2, <1>3, <1>4, <1>5, <1>6, <1>7, <1>8, <1>9, <1>10, <1>11 DEF IndInv

\* The tab is given output.
LEMMA ShowStep == ASSUME IndInv, Show PROVE IndInv'
<1> USE DEF input, app, remote, elevated, Elevated, Close, Keys
<1>1. Types' BY DEF IndInv, Show, Reads, Types, FrameTypes
<1>2. Stages' BY DEF IndInv, Show, Reads, Stages
<1>3. BrokerStages' BY DEF IndInv, Show, Reads, BrokerStages
<1>4. NeverTakenUp' BY DEF IndInv, Show, Reads, NeverTakenUp
<1>5. KeysInOrder'
  BY DEF IndInv, Show, Reads, TypedInOrder, TtyInOrder, FramesInOrder, WritingInOrder,
     PendingInOrder, InboxInOrder, AllIsHere, KeysInOrder, BeforeFrames, BeforeWriting,
     BeforePending, BeforeInbox
<1>6. ToldLast' BY DEF IndInv, Show, Reads, ToldLast
<1>7. NothingUnaccounted'
  <2>1. Types /\ NothingUnaccounted BY DEF IndInv
  <2>2. UNCHANGED <<lost, got>> /\ Told' = Told /\ Told \in Nat
        /\ Len(frames.out') = Len(frames.out)
    BY DEF Show, Told
  <2>3. Len(output') = Len(output) - 1 /\ Len(output) >= 1 BY <2>1, Taken DEF Types, Show
  <2>4. Len(frames.out) \in Nat /\ Len(got) \in Nat /\ Len(output) \in Nat /\ shown \in Nat
        /\ shown' = shown + 1
    BY <2>1 DEF Types, FrameTypes, Show
  <2>5. CASE lost BY <2>2, <2>5 DEF NothingUnaccounted
  <2>6. CASE ~lost
    <3>1. shown + Len(frames.out) + Len(output) = Len(got) + Told
      BY <2>1, <2>6 DEF NothingUnaccounted
    <3> DEFINE f == Len(frames.out)
               f1 == Len(frames.out')
               o == Len(output)
               o1 == Len(output')
               g == Len(got)
               g1 == Len(got')
    <3>3. /\ f \in Nat /\ o \in Nat /\ g \in Nat /\ shown \in Nat /\ Told \in Nat
          /\ f1 = f /\ Told' = Told /\ shown + f + o = g + Told BY <2>2, <2>4, <3>1
    <3>4. shown' = shown + 1 /\ g1 = g /\ o1 = o - 1 BY <2>2, <2>3, <2>4
    <3> HIDE DEF f, f1, o, o1, g, g1
    <3>5. shown' + f1 + o1 = g1 + Told' BY <3>3, <3>4
    <3>2. shown' + Len(frames.out') + Len(output') = Len(got') + Told' BY <3>5 DEF f1, o1, g1
    <3> QED BY <3>2 DEF NothingUnaccounted
  <2> QED BY <2>5, <2>6
<1>8. InputEndsByClosing' BY DEF IndInv, Show, Reads, InputEndsByClosing
<1>9. SilentAfterExit' BY DEF IndInv, Show, Reads, SilentAfterExit
<1>10. ExitIsLast' BY DEF IndInv, Show, Reads, ExitIsLast
<1>11. Flags' BY DEF IndInv, Show, Reads, Flags
<1> QED BY <1>1, <1>2, <1>3, <1>4, <1>5, <1>6, <1>7, <1>8, <1>9, <1>10, <1>11 DEF IndInv

\* The control thread's end kills the shell.
LEMMA ControlStep == ASSUME IndInv, Control PROVE IndInv'
<1> USE DEF input, app, remote, elevated, Elevated, Close, Keys
<1>1. Types' BY DEF IndInv, Control, Killed, Types, FrameTypes
<1>2. Stages' BY DEF IndInv, Control, Killed, Stages
<1>3. BrokerStages' BY DEF IndInv, Control, Killed, BrokerStages
<1>4. NeverTakenUp' BY DEF IndInv, Control, Killed, NeverTakenUp
<1>5. KeysInOrder'
  BY DEF IndInv, Control, Killed, TypedInOrder, TtyInOrder, FramesInOrder, WritingInOrder,
     PendingInOrder, InboxInOrder, AllIsHere, KeysInOrder, BeforeFrames, BeforeWriting,
     BeforePending, BeforeInbox
<1>6. ToldLast' BY DEF IndInv, Control, Killed, ToldLast
<1>7. NothingUnaccounted' BY DEF IndInv, Control, Killed, NothingUnaccounted, Told
<1>8. InputEndsByClosing' BY DEF IndInv, Control, Killed, InputEndsByClosing
<1>9. SilentAfterExit' BY DEF IndInv, Control, Killed, SilentAfterExit
<1>10. ExitIsLast' BY DEF IndInv, Control, Killed, ExitIsLast
<1>11. Flags' BY DEF IndInv, Control, Killed, Flags
<1> QED BY <1>1, <1>2, <1>3, <1>4, <1>5, <1>6, <1>7, <1>8, <1>9, <1>10, <1>11 DEF IndInv

\* The reader ends with nothing left to read.
LEMMA ReaderEndsStep == ASSUME IndInv, ReaderEnds PROVE IndInv'
<1> USE DEF input, app, remote, elevated, Elevated, Close, Keys
<1>1. Types' BY DEF IndInv, ReaderEnds, Types, FrameTypes
<1>2. Stages' BY DEF IndInv, ReaderEnds, Stages
<1>3. BrokerStages' BY DEF IndInv, ReaderEnds, BrokerStages
<1>4. NeverTakenUp' BY DEF IndInv, ReaderEnds, NeverTakenUp
<1>5. KeysInOrder'
  BY DEF IndInv, ReaderEnds, TypedInOrder, TtyInOrder, FramesInOrder, WritingInOrder,
     PendingInOrder, InboxInOrder, AllIsHere, KeysInOrder, BeforeFrames, BeforeWriting,
     BeforePending, BeforeInbox
<1>6. ToldLast' BY DEF IndInv, ReaderEnds, ToldLast
<1>7. NothingUnaccounted' BY DEF IndInv, ReaderEnds, NothingUnaccounted, Told
<1>8. InputEndsByClosing' BY DEF IndInv, ReaderEnds, InputEndsByClosing
<1>9. SilentAfterExit' BY DEF IndInv, ReaderEnds, SilentAfterExit
<1>10. ExitIsLast' BY DEF IndInv, ReaderEnds, ExitIsLast
<1>11. Flags' BY DEF IndInv, ReaderEnds, Flags
<1> QED BY <1>1, <1>2, <1>3, <1>4, <1>5, <1>6, <1>7, <1>8, <1>9, <1>10, <1>11 DEF IndInv

\* A local shell that exited is taken off the list.
LEMMA DeregisterStep == ASSUME IndInv, Deregister PROVE IndInv'
<1> USE DEF input, app, remote, elevated, Elevated, Close, Keys
<1>1. Types' BY DEF IndInv, Deregister, Types, FrameTypes
<1>2. Stages' BY DEF IndInv, Deregister, Stages
<1>3. BrokerStages' BY DEF IndInv, Deregister, BrokerStages
<1>4. NeverTakenUp' BY DEF IndInv, Deregister, NeverTakenUp
<1>5. KeysInOrder'
  BY DEF IndInv, Deregister, TypedInOrder, TtyInOrder, FramesInOrder, WritingInOrder,
     PendingInOrder, InboxInOrder, AllIsHere, KeysInOrder, BeforeFrames, BeforeWriting,
     BeforePending, BeforeInbox
<1>6. ToldLast' BY DEF IndInv, Deregister, ToldLast
<1>7. NothingUnaccounted' BY DEF IndInv, Deregister, NothingUnaccounted, Told
<1>8. InputEndsByClosing' BY DEF IndInv, Deregister, InputEndsByClosing
<1>9. SilentAfterExit' BY DEF IndInv, Deregister, SilentAfterExit
<1>10. ExitIsLast' BY DEF IndInv, Deregister, ExitIsLast
<1>11. Flags' BY DEF IndInv, Deregister, Flags
<1> QED BY <1>1, <1>2, <1>3, <1>4, <1>5, <1>6, <1>7, <1>8, <1>9, <1>10, <1>11 DEF IndInv

\* Its exit is told when the reader is over.
LEMMA ReportStep == ASSUME IndInv, Report PROVE IndInv'
<1> USE DEF input, app, remote, elevated, Elevated, Close, Keys
<1>1. Types' BY DEF IndInv, Report, Joined, Types, FrameTypes
<1>2. Stages' BY DEF IndInv, Report, Joined, Stages
<1>3. BrokerStages' BY DEF IndInv, Report, Joined, BrokerStages
<1>4. NeverTakenUp' BY DEF IndInv, Report, Joined, NeverTakenUp
<1>5. KeysInOrder'
  BY DEF IndInv, Report, Joined, TypedInOrder, TtyInOrder, FramesInOrder, WritingInOrder,
     PendingInOrder, InboxInOrder, AllIsHere, KeysInOrder, BeforeFrames, BeforeWriting,
     BeforePending, BeforeInbox
<1>6. ToldLast' BY DEF IndInv, Report, Joined, ToldLast
<1>7. NothingUnaccounted' BY DEF IndInv, Report, Joined, NothingUnaccounted, Told
<1>8. InputEndsByClosing' BY DEF IndInv, Report, Joined, InputEndsByClosing
<1>9. SilentAfterExit' BY DEF IndInv, Report, Joined, SilentAfterExit, Stages
<1>10. ExitIsLast'
  BY DEF IndInv, Report, Joined, ExitIsLast, Types, Stages, BrokerStages, NeverTakenUp,
     SilentAfterExit, NothingUnaccounted, Told
<1>11. Flags' BY DEF IndInv, Report, Joined, Flags
<1> QED BY <1>1, <1>2, <1>3, <1>4, <1>5, <1>6, <1>7, <1>8, <1>9, <1>10, <1>11 DEF IndInv

\* An SSH shell is opened.
LEMMA OpenShellStep == ASSUME IndInv, OpenShell PROVE IndInv'
<1> USE DEF input, app, remote, elevated, Elevated, Close, Keys
<1>1. Types' BY DEF IndInv, OpenShell, Running, Types, FrameTypes
<1>2. Stages' BY DEF IndInv, OpenShell, Running, Stages
<1>3. BrokerStages' BY DEF IndInv, OpenShell, Running, BrokerStages
<1>4. NeverTakenUp' BY DEF IndInv, OpenShell, Running, NeverTakenUp
<1>5. KeysInOrder'
  BY DEF IndInv, OpenShell, Running, TypedInOrder, TtyInOrder, FramesInOrder, WritingInOrder,
     PendingInOrder, InboxInOrder, AllIsHere, KeysInOrder, BeforeFrames, BeforeWriting,
     BeforePending, BeforeInbox, Stages
<1>6. ToldLast' BY DEF IndInv, OpenShell, Running, ToldLast
<1>7. NothingUnaccounted' BY DEF IndInv, OpenShell, Running, NothingUnaccounted, Told
<1>8. InputEndsByClosing' BY DEF IndInv, OpenShell, Running, InputEndsByClosing
<1>9. SilentAfterExit' BY DEF IndInv, OpenShell, Running, SilentAfterExit, Stages
<1>10. ExitIsLast' BY DEF IndInv, OpenShell, Running, ExitIsLast, Stages
<1>11. Flags' BY DEF IndInv, OpenShell, Running, Flags
<1> QED BY <1>1, <1>2, <1>3, <1>4, <1>5, <1>6, <1>7, <1>8, <1>9, <1>10, <1>11 DEF IndInv

\* The shared connection has no room for it.
LEMMA SharedFailsStep == ASSUME IndInv, SharedFails PROVE IndInv'
<1> USE DEF input, app, remote, elevated, Elevated, Close, Keys
<1>1. Types' BY DEF IndInv, SharedFails, Types, FrameTypes
<1>2. Stages' BY DEF IndInv, SharedFails, Stages
<1>3. BrokerStages' BY DEF IndInv, SharedFails, BrokerStages
<1>4. NeverTakenUp' BY DEF IndInv, SharedFails, NeverTakenUp
<1>5. KeysInOrder'
  BY DEF IndInv, SharedFails, TypedInOrder, TtyInOrder, FramesInOrder, WritingInOrder,
     PendingInOrder, InboxInOrder, AllIsHere, KeysInOrder, BeforeFrames, BeforeWriting,
     BeforePending, BeforeInbox
<1>6. ToldLast' BY DEF IndInv, SharedFails, ToldLast
<1>7. NothingUnaccounted' BY DEF IndInv, SharedFails, NothingUnaccounted, Told
<1>8. InputEndsByClosing' BY DEF IndInv, SharedFails, InputEndsByClosing
<1>9. SilentAfterExit' BY DEF IndInv, SharedFails, SilentAfterExit
<1>10. ExitIsLast' BY DEF IndInv, SharedFails, ExitIsLast
<1>11. Flags' BY DEF IndInv, SharedFails, Flags
<1> QED BY <1>1, <1>2, <1>3, <1>4, <1>5, <1>6, <1>7, <1>8, <1>9, <1>10, <1>11 DEF IndInv

\* A login of its own.
LEMMA LoginStep == ASSUME IndInv, Login PROVE IndInv'
<1> USE DEF input, app, remote, elevated, Elevated, Close, Keys
<1>1. Types' BY DEF IndInv, Login, Types, FrameTypes
<1>2. Stages' BY DEF IndInv, Login, Stages
<1>3. BrokerStages' BY DEF IndInv, Login, BrokerStages
<1>4. NeverTakenUp' BY DEF IndInv, Login, NeverTakenUp
<1>5. KeysInOrder'
  BY DEF IndInv, Login, TypedInOrder, TtyInOrder, FramesInOrder, WritingInOrder, PendingInOrder,
     InboxInOrder, AllIsHere, KeysInOrder, BeforeFrames, BeforeWriting, BeforePending, BeforeInbox
<1>6. ToldLast' BY DEF IndInv, Login, ToldLast
<1>7. NothingUnaccounted' BY DEF IndInv, Login, NothingUnaccounted, Told
<1>8. InputEndsByClosing' BY DEF IndInv, Login, InputEndsByClosing
<1>9. SilentAfterExit' BY DEF IndInv, Login, SilentAfterExit
<1>10. ExitIsLast' BY DEF IndInv, Login, ExitIsLast
<1>11. Flags' BY DEF IndInv, Login, Flags
<1> QED BY <1>1, <1>2, <1>3, <1>4, <1>5, <1>6, <1>7, <1>8, <1>9, <1>10, <1>11 DEF IndInv

\* The Telnet connection stands.
LEMMA TelnetConnectsStep == ASSUME IndInv, TelnetConnects PROVE IndInv'
<1> USE DEF input, app, remote, elevated, Elevated, Close, Keys
<1>1. Types' BY DEF IndInv, TelnetConnects, Running, Types, FrameTypes
<1>2. Stages' BY DEF IndInv, TelnetConnects, Running, Stages
<1>3. BrokerStages' BY DEF IndInv, TelnetConnects, Running, BrokerStages
<1>4. NeverTakenUp' BY DEF IndInv, TelnetConnects, Running, NeverTakenUp
<1>5. KeysInOrder'
  BY DEF IndInv, TelnetConnects, Running, TypedInOrder, TtyInOrder, FramesInOrder, WritingInOrder,
     PendingInOrder, InboxInOrder, AllIsHere, KeysInOrder, BeforeFrames, BeforeWriting,
     BeforePending, BeforeInbox, Stages
<1>6. ToldLast' BY DEF IndInv, TelnetConnects, Running, ToldLast
<1>7. NothingUnaccounted' BY DEF IndInv, TelnetConnects, Running, NothingUnaccounted, Told
<1>8. InputEndsByClosing' BY DEF IndInv, TelnetConnects, Running, InputEndsByClosing
<1>9. SilentAfterExit' BY DEF IndInv, TelnetConnects, Running, SilentAfterExit, Stages
<1>10. ExitIsLast' BY DEF IndInv, TelnetConnects, Running, ExitIsLast, Stages
<1>11. Flags' BY DEF IndInv, TelnetConnects, Running, Flags
<1> QED BY <1>1, <1>2, <1>3, <1>4, <1>5, <1>6, <1>7, <1>8, <1>9, <1>10, <1>11 DEF IndInv

\* Opening fails before there was a shell.
LEMMA OpeningFailsStep == ASSUME IndInv, OpeningFails PROVE IndInv'
<1> USE DEF input, app, remote, elevated, Elevated, Close, Keys
<1>1. Types' BY DEF IndInv, OpeningFails, Ends, Types, FrameTypes
<1>2. Stages' BY DEF IndInv, OpeningFails, Ends, Stages
<1>3. BrokerStages' BY DEF IndInv, OpeningFails, Ends, BrokerStages
<1>4. NeverTakenUp' BY DEF IndInv, OpeningFails, Ends, NeverTakenUp
<1>5. KeysInOrder'
  BY DEF IndInv, OpeningFails, Ends, TypedInOrder, TtyInOrder, FramesInOrder, WritingInOrder,
     PendingInOrder, InboxInOrder, AllIsHere, KeysInOrder, BeforeFrames, BeforeWriting,
     BeforePending, BeforeInbox
<1>6. ToldLast' BY DEF IndInv, OpeningFails, Ends, ToldLast
<1>7. NothingUnaccounted' BY DEF IndInv, OpeningFails, Ends, NothingUnaccounted, Told
<1>8. InputEndsByClosing' BY DEF IndInv, OpeningFails, Ends, InputEndsByClosing
<1>9. SilentAfterExit' BY DEF IndInv, OpeningFails, Ends, SilentAfterExit, Stages
<1>10. ExitIsLast'
  BY DEF IndInv, OpeningFails, Ends, ExitIsLast, Types, Stages, BrokerStages, NeverTakenUp,
     SilentAfterExit, NothingUnaccounted, Told
<1>11. Flags' BY DEF IndInv, OpeningFails, Ends, Flags
<1> QED BY <1>1, <1>2, <1>3, <1>4, <1>5, <1>6, <1>7, <1>8, <1>9, <1>10, <1>11 DEF IndInv

\* The session's loop ends with the shell or with the input.
LEMMA LeaveStep == ASSUME IndInv, Leave PROVE IndInv'
<1> USE DEF input, app, remote, elevated, Elevated, Close, Keys
<1>1. Types' BY DEF IndInv, Leave, Ends, Killed, Reads, Types, FrameTypes
<1>2. Stages' BY DEF IndInv, Leave, Ends, Killed, Reads, Stages
<1>3. BrokerStages' BY DEF IndInv, Leave, Ends, Killed, Reads, BrokerStages
<1>4. NeverTakenUp' BY DEF IndInv, Leave, Ends, Killed, Reads, NeverTakenUp
<1>5. KeysInOrder'
  BY DEF IndInv, Leave, Ends, Killed, Reads, TypedInOrder, TtyInOrder, FramesInOrder,
     WritingInOrder, PendingInOrder, InboxInOrder, AllIsHere, KeysInOrder, BeforeFrames,
     BeforeWriting, BeforePending, BeforeInbox
<1>6. ToldLast' BY DEF IndInv, Leave, Ends, Killed, Reads, ToldLast
<1>7. NothingUnaccounted' BY DEF IndInv, Leave, Ends, Killed, Reads, NothingUnaccounted, Told
<1>8. InputEndsByClosing' BY DEF IndInv, Leave, Ends, Killed, Reads, InputEndsByClosing
<1>9. SilentAfterExit' BY DEF IndInv, Leave, Ends, Killed, Reads, SilentAfterExit
<1>10. ExitIsLast'
  BY DEF IndInv, Leave, Ends, Killed, Reads, Types, Stages, BrokerStages, NeverTakenUp,
     SilentAfterExit, ExitIsLast, NothingUnaccounted, Told, ToldLast, InputEndsByClosing
<1>11. Flags' BY DEF IndInv, Leave, Ends, Killed, Reads, Flags
<1> QED BY <1>1, <1>2, <1>3, <1>4, <1>5, <1>6, <1>7, <1>8, <1>9, <1>10, <1>11 DEF IndInv

\* What is typed while the broker connects moves from the channel to what is put by.
LEMMA PutByStep == ASSUME IndInv, PutBy PROVE IndInv'
<1> USE DEF input, app, remote, elevated, Elevated, Close, Keys
<1>1. Types' BY DEF IndInv, PutBy, Types, FrameTypes
<1>2. Stages' BY DEF IndInv, PutBy, Stages
<1>3. BrokerStages' BY DEF IndInv, PutBy, BrokerStages
<1>4. NeverTakenUp' BY DEF IndInv, PutBy, NeverTakenUp
<1>5. KeysInOrder'
  <2>0. Types /\ KeysInOrder BY DEF IndInv
  <2>1. listed' = listed /\ UNCHANGED <<kind, got, tty, shell, frames, typed, pump, writing>>
    BY DEF PutBy
  <2>2. inbox # <<>> /\ inbox' = Tail(inbox) /\ pending' = Append(pending, Head(inbox))
        /\ Head(inbox) # 0
    BY DEF PutBy
  <2>3. MovesUp(inbox, inbox') /\ Grows(pending, pending', inbox[1]) /\ inbox[1] # 0
    <3>1. Head(inbox) = inbox[1] /\ Head(inbox) \in Keys BY <2>0, <2>2, Taken DEF Types
    <3>2. MovesUp(inbox, inbox') BY <2>0, <2>2, Taken DEF MovesUp, Types
    <3>3. Grows(pending, pending', inbox[1]) BY <2>0, <2>2, <3>1, Appended DEF Grows, Types
    <3> QED BY <2>2, <3>1, <3>2, <3>3
  <2>4. BeforeFrames \in Nat /\ BeforeWriting \in Nat /\ BeforePending \in Nat
        /\ BeforeInbox \in Nat
        /\ Len(pending) \in Nat /\ Len(inbox) \in Nat
    BY <2>0 DEF Types, FrameTypes, BeforeFrames, BeforeWriting, BeforePending, BeforeInbox
  <2>5. BeforeFrames' = BeforeFrames /\ BeforeWriting' = BeforeWriting
        /\ BeforePending' = BeforePending
    BY <2>1 DEF BeforeFrames, BeforeWriting, BeforePending
  <2>6. BeforeInbox' = BeforeInbox + 1 BY <2>3, <2>4, <2>5 DEF BeforeInbox, Grows
  <2>7. TypedInOrder' /\ TtyInOrder' /\ FramesInOrder' /\ WritingInOrder'
    BY <2>0, <2>1, <2>5 DEF KeysInOrder, TypedInOrder, TtyInOrder, FramesInOrder, WritingInOrder
  <2>8. PendingInOrder'
    <3> SUFFICES ASSUME shell # "over", pump # "over", NEW i \in 1 .. Len(pending')
                 PROVE  pending'[i] = BeforePending + i
      BY <2>1, <2>5 DEF PendingInOrder
    <3>1. CASE i = Len(pending) + 1
      <4>1. inbox[1] \in {BeforeInbox + 1, 0}
        BY <2>0, <2>3, <2>4 DEF KeysInOrder, InboxInOrder, MovesUp
      <4>2. BeforeInbox + 1 = BeforePending + i BY <2>4, <3>1 DEF BeforeInbox
      <4> QED BY <2>3, <3>1, <4>1, <4>2 DEF Grows
    <3>2. CASE i \in 1 .. Len(pending) BY <2>0, <2>3, <3>2 DEF Grows, KeysInOrder, PendingInOrder
    <3> QED BY <2>3, <2>4, <3>1, <3>2 DEF Grows
  <2>9. InboxInOrder'
    <3> SUFFICES ASSUME shell # "over", pump # "over", NEW i \in 1 .. Len(inbox')
                 PROVE  inbox'[i] \in {BeforeInbox' + i, 0}
      BY <2>1 DEF InboxInOrder
    <3>1. i + 1 \in 1 .. Len(inbox) /\ inbox'[i] = inbox[i + 1] BY <2>3, <2>4 DEF MovesUp
    <3>2. inbox[i + 1] \in {BeforeInbox + (i + 1), 0} BY <2>0, <3>1 DEF KeysInOrder, InboxInOrder
    <3> QED BY <2>4, <2>6, <3>1, <3>2
  <2>10. AllIsHere'
    <3>1. BeforeInbox' + Len(inbox') = BeforeInbox + Len(inbox) BY <2>3, <2>4, <2>6 DEF MovesUp
    <3>2. shell # "over" /\ pump # "over" /\ listed => typed = BeforeInbox + Len(inbox)
      BY <2>0 DEF KeysInOrder, AllIsHere
    <3> QED BY <2>1, <3>1, <3>2 DEF AllIsHere
  <2> QED BY <2>7, <2>8, <2>9, <2>10 DEF KeysInOrder
<1>6. ToldLast' BY DEF IndInv, PutBy, ToldLast
<1>7. NothingUnaccounted' BY DEF IndInv, PutBy, NothingUnaccounted, Told
<1>8. InputEndsByClosing'
  <2>1. Types /\ InputEndsByClosing BY DEF IndInv
  <2>2. UNCHANGED <<kind, at, listed, closing, lost, pump>> BY DEF PutBy
  <2>3. MovesUp(inbox, inbox') BY <2>1, Taken DEF Types, MovesUp, PutBy
  <2> SUFFICES ASSUME NEW i \in 1 .. Len(inbox'), inbox'[i] = 0 PROVE closing
    BY <2>1, <2>2 DEF InputEndsByClosing
  <2>4. i + 1 \in 1 .. Len(inbox) /\ inbox[i + 1] = 0 BY <2>1, <2>3 DEF MovesUp, Types
  <2> QED BY <2>1, <2>4 DEF InputEndsByClosing
<1>9. SilentAfterExit' BY DEF IndInv, PutBy, SilentAfterExit
<1>10. ExitIsLast' BY DEF IndInv, PutBy, ExitIsLast
<1>11. Flags' BY DEF IndInv, PutBy, Flags
<1> QED BY <1>1, <1>2, <1>3, <1>4, <1>5, <1>6, <1>7, <1>8, <1>9, <1>10, <1>11 DEF IndInv

\* The tab is closed before the broker connected.
LEMMA CancelledStep == ASSUME IndInv, Cancelled PROVE IndInv'
<1> USE DEF input, app, remote, elevated, Elevated, Close, Keys
<1>1. Types' BY DEF IndInv, Cancelled, GiveUp, Types, FrameTypes
<1>2. Stages' BY DEF IndInv, Cancelled, GiveUp, Stages
<1>3. BrokerStages' BY DEF IndInv, Cancelled, GiveUp, BrokerStages
<1>4. NeverTakenUp' BY DEF IndInv, Cancelled, GiveUp, NeverTakenUp
<1>5. KeysInOrder'
  BY DEF IndInv, Cancelled, GiveUp, TypedInOrder, TtyInOrder, FramesInOrder, WritingInOrder,
     PendingInOrder, InboxInOrder, AllIsHere, KeysInOrder, BeforeFrames, BeforeWriting,
     BeforePending, BeforeInbox
<1>6. ToldLast' BY DEF IndInv, Cancelled, GiveUp, ToldLast
<1>7. NothingUnaccounted' BY DEF IndInv, Cancelled, GiveUp, NothingUnaccounted, Told
<1>8. InputEndsByClosing' BY DEF IndInv, Cancelled, GiveUp, InputEndsByClosing
<1>9. SilentAfterExit' BY DEF IndInv, Cancelled, GiveUp, SilentAfterExit
<1>10. ExitIsLast' BY DEF IndInv, Cancelled, GiveUp, ExitIsLast
<1>11. Flags' BY DEF IndInv, Cancelled, GiveUp, Flags
<1> QED BY <1>1, <1>2, <1>3, <1>4, <1>5, <1>6, <1>7, <1>8, <1>9, <1>10, <1>11 DEF IndInv

\* The broker does not connect in time.
LEMMA ConnectTimesOutStep == ASSUME IndInv, ConnectTimesOut PROVE IndInv'
<1> USE DEF input, app, remote, elevated, Elevated, Close, Keys
<1>1. Types' BY DEF IndInv, ConnectTimesOut, GiveUp, Types, FrameTypes
<1>2. Stages' BY DEF IndInv, ConnectTimesOut, GiveUp, Stages
<1>3. BrokerStages' BY DEF IndInv, ConnectTimesOut, GiveUp, BrokerStages
<1>4. NeverTakenUp' BY DEF IndInv, ConnectTimesOut, GiveUp, NeverTakenUp
<1>5. KeysInOrder'
  BY DEF IndInv, ConnectTimesOut, GiveUp, TypedInOrder, TtyInOrder, FramesInOrder, WritingInOrder,
     PendingInOrder, InboxInOrder, AllIsHere, KeysInOrder, BeforeFrames, BeforeWriting,
     BeforePending, BeforeInbox
<1>6. ToldLast' BY DEF IndInv, ConnectTimesOut, GiveUp, ToldLast
<1>7. NothingUnaccounted' BY DEF IndInv, ConnectTimesOut, GiveUp, NothingUnaccounted, Told
<1>8. InputEndsByClosing' BY DEF IndInv, ConnectTimesOut, GiveUp, InputEndsByClosing
<1>9. SilentAfterExit' BY DEF IndInv, ConnectTimesOut, GiveUp, SilentAfterExit
<1>10. ExitIsLast'
  BY DEF IndInv, ConnectTimesOut, GiveUp, ExitIsLast, Types, Stages, BrokerStages, NeverTakenUp,
     SilentAfterExit, NothingUnaccounted, Told
<1>11. Flags' BY DEF IndInv, ConnectTimesOut, GiveUp, Flags
<1> QED BY <1>1, <1>2, <1>3, <1>4, <1>5, <1>6, <1>7, <1>8, <1>9, <1>10, <1>11 DEF IndInv

\* The broker connects.
LEMMA BrokerConnectedStep == ASSUME IndInv, BrokerConnected PROVE IndInv'
<1> USE DEF input, app, remote, elevated, Elevated, Close, Keys
<1>1. Types' BY DEF IndInv, BrokerConnected, Types, FrameTypes
<1>2. Stages' BY DEF IndInv, BrokerConnected, Stages
<1>3. BrokerStages' BY DEF IndInv, BrokerConnected, BrokerStages
<1>4. NeverTakenUp' BY DEF IndInv, BrokerConnected, NeverTakenUp
<1>5. KeysInOrder'
  BY DEF IndInv, BrokerConnected, TypedInOrder, TtyInOrder, FramesInOrder, WritingInOrder,
     PendingInOrder, InboxInOrder, AllIsHere, KeysInOrder, BeforeFrames, BeforeWriting,
     BeforePending, BeforeInbox, Stages
<1>6. ToldLast' BY DEF IndInv, BrokerConnected, ToldLast
<1>7. NothingUnaccounted' BY DEF IndInv, BrokerConnected, NothingUnaccounted, Told
<1>8. InputEndsByClosing' BY DEF IndInv, BrokerConnected, InputEndsByClosing
<1>9. SilentAfterExit' BY DEF IndInv, BrokerConnected, SilentAfterExit
<1>10. ExitIsLast' BY DEF IndInv, BrokerConnected, ExitIsLast, Stages
<1>11. Flags' BY DEF IndInv, BrokerConnected, Flags
<1> QED BY <1>1, <1>2, <1>3, <1>4, <1>5, <1>6, <1>7, <1>8, <1>9, <1>10, <1>11 DEF IndInv

\* The app reads a frame, or the end; then the broker has put all there was.
LEMMA ReadFrameStep == ASSUME IndInv, ReadFrame PROVE IndInv'
<1> USE DEF input, app, remote, elevated, Elevated, Close, Keys
<1>1. Types'
  <2>1. Types BY DEF IndInv
  <2>2. UNCHANGED <<kind, typed, inbox, pending, pump, writing, tty, got, output, shell, broker>>
    BY DEF ReadFrame
  <2>3. CASE frames.out # <<>> /\ Head(frames.out) # 0
    <3>1. /\ frames' = Rest("out") /\ shown' = shown + 1
          /\ UNCHANGED <<listed, reader, exited, at>> BY <2>3 DEF ReadFrame
    <3>2. MovesUp(frames.out, frames.out') /\ frames.out[1] # 0 /\ frames' \in FrameTypes
      BY <2>1, <2>3, <3>1, RestIs DEF Types
    <3> QED BY <2>1, <2>2, <3>1, <3>2 DEF Types
  <2>4. CASE ~(frames.out # <<>> /\ Head(frames.out) # 0)
    <3>1. /\ frames' = frames /\ shown' = shown /\ at' = "over" /\ reader' = "over"
          /\ frames.out # <<>> \/ broker.main = "gone" BY <2>4 DEF ReadFrame
    <3> QED BY <2>1, <2>2, <3>1 DEF Types
  <2> QED BY <2>3, <2>4
<1>2. Stages' BY DEF IndInv, ReadFrame, Rest, Stages
<1>3. BrokerStages' BY DEF IndInv, ReadFrame, Rest, BrokerStages
<1>4. NeverTakenUp'
  <2>1. Types /\ NeverTakenUp BY DEF IndInv
  <2>2. UNCHANGED <<kind, tty, got, output, pump, pipes>> BY DEF ReadFrame
  <2>3. at' = "over" \/ at' = at BY DEF ReadFrame
  <2>4. frames'.in = frames.in
    <3>1. frames' = frames \/ (frames.out # <<>> /\ frames' = Rest("out")) BY DEF ReadFrame
    <3> QED BY <2>1, <3>1, RestIs DEF Types
  <2> QED BY <2>1, <2>2, <2>3, <2>4 DEF NeverTakenUp
<1>5. KeysInOrder'
  <2>1. Types /\ KeysInOrder BY DEF IndInv
  <2>2. UNCHANGED <<kind, got, tty, shell, pump, writing, pending, inbox, typed>> BY DEF ReadFrame
  <2>3. frames'.in = frames.in
    <3>1. frames' = frames \/ (frames.out # <<>> /\ frames' = Rest("out")) BY DEF ReadFrame
    <3> QED BY <2>1, <3>1, RestIs DEF Types
  <2>4. listed' => listed BY DEF ReadFrame
  <2> QED BY <2>1, <2>2, <2>3, <2>4, KeysKept
<1>6. ToldLast'
  <2>1. Types /\ ToldLast BY DEF IndInv
  <2>2. broker' = broker BY DEF ReadFrame
  <2>3. CASE frames.out # <<>> /\ Head(frames.out) # 0
    <3>1. /\ frames' = Rest("out") /\ shown' = shown + 1
          /\ UNCHANGED <<listed, reader, exited, at>> BY <2>3 DEF ReadFrame
    <3>2. MovesUp(frames.out, frames.out') /\ frames.out[1] # 0 /\ frames' \in FrameTypes
      BY <2>1, <2>3, <3>1, RestIs DEF Types
    <3>3. ASSUME NEW i \in 1 .. Len(frames.out'), frames.out'[i] = 0
          PROVE i = Len(frames.out') /\ broker.main = "gone" /\ broker.out = "over"
      <4>1. Len(frames.out) \in Nat BY <2>1 DEF Types, FrameTypes
      <4>2. i + 1 \in 1 .. Len(frames.out) /\ frames.out[i + 1] = 0 BY <3>2, <3>3, <4>1 DEF MovesUp
      <4>3. i + 1 = Len(frames.out) /\ broker.main = "gone" /\ broker.out = "over"
        BY <2>1, <4>2 DEF ToldLast
      <4> QED BY <3>2, <4>1, <4>3 DEF MovesUp
    <3> QED BY <2>2, <3>3 DEF ToldLast
  <2>4. CASE ~(frames.out # <<>> /\ Head(frames.out) # 0)
    <3>1. /\ frames' = frames /\ shown' = shown /\ at' = "over" /\ reader' = "over"
          /\ frames.out # <<>> \/ broker.main = "gone" BY <2>4 DEF ReadFrame
    <3> QED BY <2>1, <2>2, <3>1 DEF ToldLast
  <2> QED BY <2>3, <2>4
<1>7. NothingUnaccounted'
  <2>1. Types /\ NothingUnaccounted BY DEF IndInv
  <2>2. UNCHANGED <<lost, got, output>> BY DEF ReadFrame
  <2>5. Len(frames.out) \in Nat /\ Len(got) \in Nat /\ Len(output) \in Nat /\ shown \in Nat
    BY <2>1 DEF Types, FrameTypes
  <2>3. CASE frames.out # <<>> /\ Head(frames.out) # 0
    <3>1. /\ frames' = Rest("out") /\ shown' = shown + 1
          /\ UNCHANGED <<listed, reader, exited, at>> BY <2>3 DEF ReadFrame
    <3>2. MovesUp(frames.out, frames.out') /\ frames.out[1] # 0 /\ frames' \in FrameTypes
      BY <2>1, <2>3, <3>1, RestIs DEF Types
    <3>3. Told' = Told /\ Told \in Nat
      <4>1. frames.out' \in Seq(Nat) BY <3>2 DEF FrameTypes
      <4>2. CASE Len(frames.out) = 1
        <5>1. frames.out' = <<>> BY <3>2, <4>1, <4>2 DEF MovesUp
        <5> QED BY <3>2, <4>2, <5>1 DEF Told
      <4>3. CASE Len(frames.out) # 1
        <5>1. Len(frames.out') \in 1 .. Len(frames.out') /\ Len(frames.out') + 1 = Len(frames.out)
          <6>1. Len(frames.out') \in Nat BY <4>1
          <6> DEFINE m == Len(frames.out)
                     n == Len(frames.out')
          <6>2. m \in Nat /\ n \in Nat /\ m # 1 /\ n = m - 1 /\ m >= 1
            BY <2>5, <3>2, <4>3, <6>1 DEF MovesUp
          <6> HIDE DEF m, n
          <6>3. n \in 1 .. n /\ n + 1 = m BY <6>2
          <6> QED BY <6>3 DEF m, n
        <5>2. frames.out'[Len(frames.out')] = frames.out[Len(frames.out)] BY <3>2, <5>1 DEF MovesUp
        <5>3. frames.out' # <<>> /\ frames.out # <<>> BY <2>3, <4>1, <5>1
        <5> QED BY <5>2, <5>3 DEF Told
      <4> QED BY <4>2, <4>3
    <3>4. Len(frames.out') + 1 = Len(frames.out) BY <2>5, <3>2 DEF MovesUp
    <3>5. Len(frames.out') \in Nat BY <3>2 DEF FrameTypes
    <3>6. CASE lost BY <2>2, <3>6 DEF NothingUnaccounted
    <3>7. CASE ~lost
      <4>1. shown + Len(frames.out) + Len(output) = Len(got) + Told
        BY <2>1, <3>7 DEF NothingUnaccounted
      <4> DEFINE m == Len(frames.out)
                 n == Len(frames.out')
      <4>2. m \in Nat /\ n \in Nat /\ n + 1 = m /\ shown + m + Len(output) = Len(got) + Told
        BY <2>5, <3>4, <3>5, <4>1
      <4> HIDE DEF m, n
      <4>3. shown' + n + Len(output') = Len(got') + Told' BY <2>2, <2>5, <3>1, <3>3, <4>2
      <4> QED BY <4>3 DEF NothingUnaccounted, n
    <3> QED BY <3>6, <3>7
  <2>4. CASE ~(frames.out # <<>> /\ Head(frames.out) # 0)
    <3>1. /\ frames' = frames /\ shown' = shown /\ at' = "over" /\ reader' = "over"
          /\ frames.out # <<>> \/ broker.main = "gone" BY <2>4 DEF ReadFrame
    <3> QED BY <2>1, <2>2, <3>1 DEF NothingUnaccounted, Told
  <2> QED BY <2>3, <2>4
<1>8. InputEndsByClosing' BY DEF IndInv, ReadFrame, Rest, InputEndsByClosing
<1>9. SilentAfterExit'
  <2>1. Types /\ SilentAfterExit /\ ToldLast BY DEF IndInv
  <2>2. UNCHANGED <<kind, broker, pipes, shell>> /\ Elevated BY DEF ReadFrame
  <2>3. CASE frames.out # <<>> /\ Head(frames.out) # 0
    <3>1. /\ frames' = Rest("out") /\ shown' = shown + 1
          /\ UNCHANGED <<listed, reader, exited, at>> BY <2>3 DEF ReadFrame
    <3>2. MovesUp(frames.out, frames.out') /\ frames.out[1] # 0 /\ frames' \in FrameTypes
      BY <2>1, <2>3, <3>1, RestIs DEF Types
    <3> QED BY <2>1, <2>2, <3>1 DEF SilentAfterExit
  <2>4. CASE ~(frames.out # <<>> /\ Head(frames.out) # 0)
    <3>1. /\ frames' = frames /\ shown' = shown /\ at' = "over" /\ reader' = "over"
          /\ frames.out # <<>> \/ broker.main = "gone" BY <2>4 DEF ReadFrame
    <3>2. broker.main = "gone"
      <4>1. frames.out # <<>> => 1 \in 1 .. Len(frames.out) /\ frames.out[1] = 0
        BY <2>1, <2>4, RestIs DEF Types, FrameTypes
      <4> QED BY <2>1, <3>1, <4>1 DEF ToldLast
    <3> QED BY <2>2, <3>2 DEF SilentAfterExit
  <2> QED BY <2>3, <2>4
<1>10. ExitIsLast'
  <2>1. Types /\ Stages /\ BrokerStages /\ ExitIsLast /\ ToldLast /\ NothingUnaccounted
    BY DEF IndInv
  <2>2. UNCHANGED <<kind, closing, lost, got>> /\ Elevated /\ reader = "reading" BY DEF ReadFrame
  <2>3. CASE frames.out # <<>> /\ Head(frames.out) # 0
    <3>1. /\ frames' = Rest("out") /\ shown' = shown + 1
          /\ UNCHANGED <<listed, reader, exited, at>> BY <2>3 DEF ReadFrame
    <3>2. MovesUp(frames.out, frames.out') /\ frames.out[1] # 0 /\ frames' \in FrameTypes
      BY <2>1, <2>3, <3>1, RestIs DEF Types
    <3>3. ~exited BY <2>1, <2>2 DEF ExitIsLast
    <3> QED BY <3>1, <3>3 DEF ExitIsLast
  <2>4. CASE ~(frames.out # <<>> /\ Head(frames.out) # 0)
    <3>1. /\ frames' = frames /\ shown' = shown /\ at' = "over" /\ reader' = "over"
          /\ frames.out # <<>> \/ broker.main = "gone" BY <2>4 DEF ReadFrame
    <3>2. Len(frames.out) = Told /\ broker.main = "gone" /\ output = <<>>
      <4>1. CASE frames.out = <<>>
        <5>1. Len(frames.out) = 0 /\ Told = 0 BY <4>1 DEF Told
        <5>2. broker.main = "gone" BY <3>1, <4>1
        <5>3. output = <<>> BY <2>1, <2>2, <5>2 DEF BrokerStages, Stages
        <5> QED BY <5>1, <5>2, <5>3
      <4>2. CASE frames.out # <<>>
        <5>1. 1 \in 1 .. Len(frames.out) /\ frames.out[1] = 0
          BY <2>1, <2>4, <4>2, RestIs DEF Types, FrameTypes
        <5>2. Len(frames.out) = 1 /\ broker.main = "gone" /\ broker.out = "over"
          BY <2>1, <5>1 DEF ToldLast
        <5>3. Told = 1 BY <4>2, <5>1, <5>2 DEF Told
        <5> QED BY <2>1, <5>2, <5>3 DEF BrokerStages
      <4> QED BY <4>1, <4>2
    <3>3. ~lost => shown = Len(got)
      <4>1. Told \in Nat /\ Len(got) \in Nat /\ shown \in Nat BY <2>1 DEF Told, Types
      <4>2. Len(output) = 0 BY <3>2
      <4> QED BY <2>1, <3>2, <4>1, <4>2 DEF NothingUnaccounted
    <3> QED BY <2>2, <3>1, <3>3 DEF ExitIsLast
  <2> QED BY <2>3, <2>4
<1>11. Flags' BY DEF IndInv, ReadFrame, Rest, Flags
<1> QED BY <1>1, <1>2, <1>3, <1>4, <1>5, <1>6, <1>7, <1>8, <1>9, <1>10, <1>11 DEF IndInv

\* The broker opens its pipes.
LEMMA BrokerStartsStep == ASSUME IndInv, BrokerStarts PROVE IndInv'
<1> USE DEF input, app, remote, elevated, Elevated, Close, Keys
<1>1. Types' BY DEF IndInv, BrokerStarts, Types, FrameTypes
<1>2. Stages' BY DEF IndInv, BrokerStarts, Stages
<1>3. BrokerStages' BY DEF IndInv, BrokerStarts, BrokerStages
<1>4. NeverTakenUp' BY DEF IndInv, BrokerStarts, NeverTakenUp
<1>5. KeysInOrder'
  <2>1. Types /\ KeysInOrder BY DEF IndInv
  <2>2. UNCHANGED <<kind, got, tty, shell, pump, writing, pending, inbox, typed>>
    BY DEF BrokerStarts
  <2>3. frames' = frames /\ (listed' => listed) BY DEF BrokerStarts
  <2> QED BY <2>1, <2>2, <2>3, KeysKept
<1>6. ToldLast' BY DEF IndInv, BrokerStarts, ToldLast
<1>7. NothingUnaccounted' BY DEF IndInv, BrokerStarts, NothingUnaccounted, Told
<1>8. InputEndsByClosing' BY DEF IndInv, BrokerStarts, InputEndsByClosing
<1>9. SilentAfterExit' BY DEF IndInv, BrokerStarts, SilentAfterExit
<1>10. ExitIsLast' BY DEF IndInv, BrokerStarts, ExitIsLast
<1>11. Flags' BY DEF IndInv, BrokerStarts, Flags
<1> QED BY <1>1, <1>2, <1>3, <1>4, <1>5, <1>6, <1>7, <1>8, <1>9, <1>10, <1>11 DEF IndInv

\* The broker fails before it has a shell.
LEMMA BrokerFailsStep == ASSUME IndInv, BrokerFails PROVE IndInv'
<1> USE DEF input, app, remote, elevated, Elevated, Close, Keys
<1>1. Types' BY DEF IndInv, BrokerFails, Types, FrameTypes
<1>2. Stages' BY DEF IndInv, BrokerFails, Stages
<1>3. BrokerStages' BY DEF IndInv, BrokerFails, BrokerStages
<1>4. NeverTakenUp' BY DEF IndInv, BrokerFails, NeverTakenUp
<1>5. KeysInOrder'
  <2>1. Types /\ KeysInOrder BY DEF IndInv
  <2>2. UNCHANGED <<kind, got, tty, shell, pump, writing, pending, inbox, typed>> BY DEF BrokerFails
  <2>3. frames' = frames /\ (listed' => listed) BY DEF BrokerFails
  <2> QED BY <2>1, <2>2, <2>3, KeysKept
<1>6. ToldLast' BY DEF IndInv, BrokerFails, ToldLast
<1>7. NothingUnaccounted' BY DEF IndInv, BrokerFails, NothingUnaccounted, Told
<1>8. InputEndsByClosing' BY DEF IndInv, BrokerFails, InputEndsByClosing
<1>9. SilentAfterExit' BY DEF IndInv, BrokerFails, SilentAfterExit
<1>10. ExitIsLast' BY DEF IndInv, BrokerFails, ExitIsLast
<1>11. Flags' BY DEF IndInv, BrokerFails, Flags
<1> QED BY <1>1, <1>2, <1>3, <1>4, <1>5, <1>6, <1>7, <1>8, <1>9, <1>10, <1>11 DEF IndInv

\* The broker starts the shell.
LEMMA SpawnStep == ASSUME IndInv, Spawn PROVE IndInv'
<1> USE DEF input, app, remote, elevated, Elevated, Close, Keys
<1>1. Types' BY DEF IndInv, Spawn, Types, FrameTypes
<1>2. Stages' BY DEF IndInv, Spawn, Stages, BrokerStages
<1>3. BrokerStages' BY DEF IndInv, Spawn, BrokerStages
<1>4. NeverTakenUp' BY DEF IndInv, Spawn, NeverTakenUp
<1>5. KeysInOrder'
  BY DEF IndInv, Spawn, TypedInOrder, TtyInOrder, FramesInOrder, WritingInOrder, PendingInOrder,
     InboxInOrder, AllIsHere, KeysInOrder, BeforeFrames, BeforeWriting, BeforePending,
     BeforeInbox, BrokerStages
<1>6. ToldLast' BY DEF IndInv, Spawn, ToldLast
<1>7. NothingUnaccounted' BY DEF IndInv, Spawn, NothingUnaccounted, Told
<1>8. InputEndsByClosing' BY DEF IndInv, Spawn, InputEndsByClosing
<1>9. SilentAfterExit' BY DEF IndInv, Spawn, SilentAfterExit, BrokerStages
<1>10. ExitIsLast' BY DEF IndInv, Spawn, ExitIsLast
<1>11. Flags' BY DEF IndInv, Spawn, Flags
<1> QED BY <1>1, <1>2, <1>3, <1>4, <1>5, <1>6, <1>7, <1>8, <1>9, <1>10, <1>11 DEF IndInv

\* The broker gives the shell the next key.
LEMMA BrokerWritesStep == ASSUME IndInv, BrokerWrites PROVE IndInv'
<1> USE DEF input, app, remote, elevated, Elevated, Close, Keys
<1>1. Types'
  <2>1. Types BY DEF IndInv
  <2>2. frames.in # <<>> /\ Head(frames.in) # 0 /\ frames' = Rest("in") BY DEF BrokerWrites
  <2>3. frames' \in FrameTypes /\ Head(frames.in) \in Keys BY <2>1, <2>2, RestIs DEF Types
  <2>4. tty' \in Seq(Keys)
    <3>1. tty \in Seq(Keys) BY <2>1 DEF Types
    <3>2. Append(tty, Head(frames.in)) \in Seq(Keys) BY <2>3, <3>1, Appended
    <3>3. tty' = tty \/ tty' = Append(tty, Head(frames.in)) BY DEF BrokerWrites
    <3> QED BY <3>1, <3>2, <3>3
  <2>5. UNCHANGED <<kind, typed, inbox, pending, at, pump, writing, got, output, shell, reader,
                   shown, broker>>
    BY DEF BrokerWrites
  <2> QED BY <2>1, <2>3, <2>4, <2>5 DEF Types
<1>2. Stages' BY DEF IndInv, BrokerWrites, Rest, Types, Stages, BrokerStages
<1>3. BrokerStages' BY DEF IndInv, BrokerWrites, Rest, BrokerStages
<1>4. NeverTakenUp' BY DEF IndInv, BrokerWrites, Rest, NeverTakenUp
<1>5. KeysInOrder'
  <2>0. Types /\ KeysInOrder BY DEF IndInv
  <2>1. frames.in # <<>> /\ Head(frames.in) # 0 /\ frames' = Rest("in") BY DEF BrokerWrites
  <2>2. listed' = listed /\ UNCHANGED <<kind, got, shell, typed, pump, writing, pending, inbox>>
    BY DEF BrokerWrites
  <2>3. BeforeFrames \in Nat /\ BeforeWriting \in Nat /\ BeforePending \in Nat
        /\ BeforeInbox \in Nat
        /\ Len(got) \in Nat /\ Len(tty) \in Nat /\ Len(frames.in) \in Nat
    BY <2>0 DEF Types, FrameTypes, BeforeFrames, BeforeWriting, BeforePending, BeforeInbox
  <2>4. MovesUp(frames.in, frames.in') /\ Head(frames.in) = frames.in[1] /\ frames.in[1] \in Nat
    BY <2>0, <2>1, RestIs DEF Types
  <2>5. TypedInOrder' BY <2>0, <2>2 DEF KeysInOrder, TypedInOrder
  <2>6. CASE shell = "over"
    <3>1. tty' = tty BY <2>6 DEF BrokerWrites
    <3>2. TtyInOrder' BY <2>0, <2>2, <3>1 DEF KeysInOrder, TtyInOrder
    <3>3. FramesInOrder' /\ PendingInOrder' /\ InboxInOrder' /\ AllIsHere'
      BY <2>2, <2>6 DEF FramesInOrder, PendingInOrder, InboxInOrder, AllIsHere
    <3>4. WritingInOrder' BY <2>0, <2>2, <2>6 DEF KeysInOrder, WritingInOrder
    <3> QED BY <2>5, <3>2, <3>3, <3>4 DEF KeysInOrder
  <2>7. CASE shell # "over"
    <3>1. tty' = Append(tty, Head(frames.in)) BY <2>7 DEF BrokerWrites
    <3>2. Grows(tty, tty', frames.in[1])
      <4>1. frames.in[1] \in Keys BY <2>1, <2>4
      <4> QED BY <2>0, <2>4, <3>1, <4>1, Appended DEF Types, Grows
    <3>3. frames.in[1] = BeforeFrames + 1
      BY <2>0, <2>1, <2>3, <2>4, <2>7 DEF KeysInOrder, FramesInOrder, MovesUp
    <3>4. TtyInOrder'
      <4> SUFFICES ASSUME NEW i \in 1 .. Len(tty') PROVE tty'[i] = Len(got) + i
        BY <2>2 DEF TtyInOrder
      <4>1. CASE i = Len(tty) + 1 BY <2>3, <3>2, <3>3, <4>1 DEF Grows, BeforeFrames
      <4>2. CASE i \in 1 .. Len(tty) BY <2>0, <3>2, <4>2 DEF Grows, KeysInOrder, TtyInOrder
      <4> QED BY <3>2, <4>1, <4>2 DEF Grows
    <3>5. BeforeFrames' = BeforeFrames + 1 BY <2>2, <2>3, <3>2 DEF Grows, BeforeFrames
    <3>6. BeforeWriting' = BeforeWriting
      <4>1. Len(frames.in') + 1 = Len(frames.in) /\ Len(frames.in') \in Nat
        BY <2>3, <2>4 DEF MovesUp
      <4>2. BeforeFrames \in Nat /\ Len(frames.in) \in Nat BY <2>3
      <4>3. BeforeWriting = BeforeFrames + Len(frames.in)
            /\ BeforeWriting' = BeforeFrames' + Len(frames.in')
        BY DEF BeforeWriting
      <4> DEFINE m == Len(frames.in)
                 n == Len(frames.in')
      <4>4. n + 1 = m /\ n \in Nat /\ m \in Nat /\ BeforeWriting = BeforeFrames + m
            /\ BeforeWriting' = BeforeFrames' + n
        BY <4>1, <4>2, <4>3
      <4> HIDE DEF m, n
      <4> QED BY <3>5, <4>2, <4>4
    <3>7. BeforePending' = BeforePending /\ BeforeInbox' = BeforeInbox
      BY <2>2, <3>6 DEF BeforePending, BeforeInbox
    <3>8. FramesInOrder'
      <4> SUFFICES ASSUME NEW i \in 1 .. Len(frames.in')
          PROVE frames.in'[i] \in {BeforeFrames' + i, 0}
        BY DEF FramesInOrder
      <4>1. i + 1 \in 1 .. Len(frames.in) /\ frames.in'[i] = frames.in[i + 1]
        BY <2>3, <2>4 DEF MovesUp
      <4>2. frames.in[i + 1] \in {BeforeFrames + (i + 1), 0}
        BY <2>0, <2>7, <4>1 DEF KeysInOrder, FramesInOrder
      <4> QED BY <2>3, <3>5, <4>1, <4>2
    <3>9. WritingInOrder' BY <2>0, <2>2, <3>6 DEF KeysInOrder, WritingInOrder
    <3>10. PendingInOrder' BY <2>0, <2>2, <3>7 DEF KeysInOrder, PendingInOrder
    <3>11. InboxInOrder' BY <2>0, <2>2, <3>7 DEF KeysInOrder, InboxInOrder
    <3>12. AllIsHere' BY <2>0, <2>2, <3>7 DEF KeysInOrder, AllIsHere
    <3> QED BY <2>5, <3>4, <3>8, <3>9, <3>10, <3>11, <3>12 DEF KeysInOrder
  <2> QED BY <2>6, <2>7
<1>6. ToldLast'
  <2>1. Types /\ ToldLast BY DEF IndInv
  <2>2. broker' = broker /\ frames.in # <<>> /\ frames' = Rest("in") BY DEF BrokerWrites
  <2>3. frames'.out = frames.out BY <2>1, <2>2, RestIs DEF Types
  <2> QED BY <2>1, <2>2, <2>3 DEF ToldLast
<1>7. NothingUnaccounted' BY DEF IndInv, BrokerWrites, Rest, NothingUnaccounted, Told
<1>8. InputEndsByClosing' BY DEF IndInv, BrokerWrites, Rest, InputEndsByClosing
<1>9. SilentAfterExit' BY DEF IndInv, BrokerWrites, Rest, SilentAfterExit
<1>10. ExitIsLast' BY DEF IndInv, BrokerWrites, Rest, ExitIsLast
<1>11. Flags' BY DEF IndInv, BrokerWrites, Rest, Flags
<1> QED BY <1>1, <1>2, <1>3, <1>4, <1>5, <1>6, <1>7, <1>8, <1>9, <1>10, <1>11 DEF IndInv

\* The broker kills the shell when the input ends.
LEMMA BrokerStopsStep == ASSUME IndInv, BrokerStops PROVE IndInv'
<1> USE DEF input, app, remote, elevated, Elevated, Close, Keys
<1>1. Types'
  <2>1. Types BY DEF IndInv
  <2>2. broker' = [broker EXCEPT !.in = "over"] /\ shell' = "over" /\ tty' = <<>>
    BY DEF BrokerStops, Killed
  <2>3. UNCHANGED <<kind, typed, inbox, pending, at, pump, writing, got, output, reader, shown,
                   frames>>
    BY DEF BrokerStops
  <2>4. <<>> \in Seq(Keys) OBVIOUS
  <2> QED BY <2>1, <2>2, <2>3, <2>4 DEF Types
<1>2. Stages' BY DEF IndInv, BrokerStops, Killed, Stops, Stages, BrokerStages
<1>3. BrokerStages' BY DEF IndInv, BrokerStops, Killed, Stops, BrokerStages
<1>4. NeverTakenUp' BY DEF IndInv, BrokerStops, Killed, Stops, NeverTakenUp
<1>5. KeysInOrder'
  BY DEF IndInv, BrokerStops, Killed, Stops, TypedInOrder, TtyInOrder, FramesInOrder,
     WritingInOrder, PendingInOrder, InboxInOrder, AllIsHere, KeysInOrder, BeforeFrames,
     BeforeWriting, BeforePending, BeforeInbox
<1>6. ToldLast' BY DEF IndInv, BrokerStops, Killed, Stops, ToldLast
<1>7. NothingUnaccounted' BY DEF IndInv, BrokerStops, Killed, Stops, NothingUnaccounted, Told
<1>8. InputEndsByClosing' BY DEF IndInv, BrokerStops, Killed, Stops, InputEndsByClosing
<1>9. SilentAfterExit' BY DEF IndInv, BrokerStops, Killed, Stops, SilentAfterExit
<1>10. ExitIsLast' BY DEF IndInv, BrokerStops, Killed, Stops, ExitIsLast
<1>11. Flags' BY DEF IndInv, BrokerStops, Killed, Stops, Flags
<1> QED BY <1>1, <1>2, <1>3, <1>4, <1>5, <1>6, <1>7, <1>8, <1>9, <1>10, <1>11 DEF IndInv

\* The broker passes on output, in front of the frame that says it is over.
LEMMA BrokerPrintsStep == ASSUME IndInv, BrokerPrints PROVE IndInv'
<1> USE DEF input, app, remote, elevated, Elevated, Close, Keys
<1>1. Types'
  <2>1. Types BY DEF IndInv
  <2>2. /\ broker' = broker \/ broker' = [broker EXCEPT !.out = "over"]
        /\ \/ frames' = frames /\ output' = output
           \/ output # <<>> /\ frames' = Put("out", Head(output)) /\ output' = Tail(output)
    BY DEF BrokerPrints
  <2>3. output' \in Seq(Keys) /\ (output # <<>> => Head(output) \in Nat)
    <3>1. output \in Seq(Keys) BY <2>1 DEF Types
    <3>2. output # <<>> => Tail(output) \in Seq(Keys) /\ Head(output) \in Nat BY <3>1, Taken
    <3> QED BY <2>2, <3>1, <3>2
  <2>4. frames' \in FrameTypes BY <2>1, <2>2, <2>3, PutIs DEF Types
  <2>5. UNCHANGED <<kind, typed, inbox, pending, at, pump, writing, tty, got, shell, reader, shown>>
    BY DEF BrokerPrints
  <2>6. broker' \in [main : {"starting", "spawning", "waiting", "gone"},
                     in : {"none", "reading", "over"}, out : {"none", "reading", "over"}]
    BY <2>1, <2>2 DEF Types
  <2> QED BY <2>1, <2>3, <2>4, <2>5, <2>6 DEF Types
<1>2. Stages' BY DEF IndInv, BrokerPrints, Put, Stages
<1>3. BrokerStages'
  <2>1. Types /\ BrokerStages /\ NeverTakenUp BY DEF IndInv
  <2>2. broker.out = "reading" /\ UNCHANGED <<kind, shell, tty, got>> BY DEF BrokerPrints
  <2>3. Elevated /\ broker.main = "waiting" BY <2>1, <2>2 DEF BrokerStages, Types
  <2>4. CASE output # <<>> /\ pipes.app
    <3>1. broker' = broker BY <2>4 DEF BrokerPrints
    <3> QED BY <2>1, <2>2, <2>3, <3>1 DEF BrokerStages
  <2>5. CASE ~(output # <<>> /\ pipes.app)
    <3>1. output = <<>> /\ output' = output /\ shell = "over"
          /\ broker' = [broker EXCEPT !.out = "over"]
      BY <2>1, <2>3, <2>5 DEF BrokerPrints, NeverTakenUp
    <3>2. broker'.main = broker.main /\ broker'.in = broker.in /\ broker'.out = "over"
      BY <2>1, <3>1 DEF Types
    <3> QED BY <2>1, <2>2, <2>3, <3>1, <3>2 DEF BrokerStages
  <2> QED BY <2>4, <2>5
<1>4. NeverTakenUp' BY DEF IndInv, BrokerPrints, Put, NeverTakenUp
<1>5. KeysInOrder'
  <2>1. Types /\ KeysInOrder BY DEF IndInv
  <2>2. UNCHANGED <<kind, got, tty, shell, pump, writing, pending, inbox, typed>>
    BY DEF BrokerPrints
  <2>3. frames'.in = frames.in
    <3>1. frames' = frames \/ (output # <<>> /\ frames' = Put("out", Head(output)))
      BY DEF BrokerPrints
    <3> QED BY <2>1, <3>1, PutIs, Taken DEF Types
  <2>4. listed' => listed BY DEF BrokerPrints
  <2> QED BY <2>1, <2>2, <2>3, <2>4, KeysKept
<1>6. ToldLast'
  <2>1. Types /\ BrokerStages /\ ToldLast BY DEF IndInv
  <2>2. broker.out = "reading" BY DEF BrokerPrints
  <2>3. \A i \in 1 .. Len(frames.out) : frames.out[i] # 0 BY <2>1, <2>2 DEF ToldLast
  <2>4. CASE frames' = frames BY <2>3, <2>4 DEF ToldLast
  <2>5. CASE output # <<>> /\ frames' = Put("out", Head(output))
    <3>1. Head(output) \in Keys BY <2>1, <2>5, Taken DEF Types
    <3>2. Grows(frames.out, frames.out', Head(output)) BY <2>1, <2>5, <3>1, PutIs DEF Types
    <3>3. \A i \in 1 .. Len(frames.out') : frames.out'[i] # 0 BY <2>3, <3>1, <3>2 DEF Grows
    <3> QED BY <3>3 DEF ToldLast
  <2> QED BY <2>4, <2>5 DEF BrokerPrints
<1>7. NothingUnaccounted'
  <2>1. Types /\ NothingUnaccounted /\ ToldLast BY DEF IndInv
  <2>2. broker.out = "reading" /\ UNCHANGED <<lost, shown, got>> BY DEF BrokerPrints
  <2>3. \A i \in 1 .. Len(frames.out) : frames.out[i] # 0 BY <2>1, <2>2 DEF ToldLast
  <2>4. Len(frames.out) \in Nat /\ Len(got) \in Nat /\ Len(output) \in Nat /\ shown \in Nat
    BY <2>1 DEF Types, FrameTypes
  <2>5. CASE frames' = frames /\ output' = output BY <2>1, <2>2, <2>5 DEF NothingUnaccounted, Told
  <2>6. CASE output # <<>> /\ frames' = Put("out", Head(output)) /\ output' = Tail(output)
    <3>1. Head(output) \in Keys /\ Len(output') = Len(output) - 1 BY <2>1, <2>6, Taken DEF Types
    <3>2. Grows(frames.out, frames.out', Head(output)) BY <2>1, <2>6, <3>1, PutIs DEF Types
    <3>3. frames.out # <<>> => Len(frames.out) \in 1 .. Len(frames.out)
      BY <2>1 DEF Types, FrameTypes
    <3>4. Told = 0 BY <2>3, <3>3 DEF Told
    <3>5. frames.out'[Len(frames.out')] # 0 BY <3>1, <3>2 DEF Grows
    <3>6. Told' = 0 BY <3>5 DEF Told
    <3>7. Len(frames.out') = Len(frames.out) + 1 BY <3>2 DEF Grows
    <3> QED BY <2>1, <2>2, <2>4, <3>1, <3>4, <3>6, <3>7 DEF NothingUnaccounted
  <2> QED BY <2>5, <2>6 DEF BrokerPrints
<1>8. InputEndsByClosing' BY DEF IndInv, BrokerPrints, Put, InputEndsByClosing
<1>9. SilentAfterExit' BY DEF IndInv, BrokerPrints, Put, SilentAfterExit, Types
<1>10. ExitIsLast' BY DEF IndInv, BrokerPrints, Put, ExitIsLast
<1>11. Flags' BY DEF IndInv, BrokerPrints, Put, Flags
<1> QED BY <1>1, <1>2, <1>3, <1>4, <1>5, <1>6, <1>7, <1>8, <1>9, <1>10, <1>11 DEF IndInv

\* The broker puts the last frame.
LEMMA BrokerEndsStep == ASSUME IndInv, BrokerEnds PROVE IndInv'
<1> USE DEF input, app, remote, elevated, Elevated, Close, Keys
<1>1. Types'
  <2>1. Types BY DEF IndInv
  <2>2. broker' = [main |-> "gone", in |-> "over", out |-> "over"]
        /\ (frames' = frames \/ frames' = Put("out", 0)) BY DEF BrokerEnds
  <2>3. frames' \in FrameTypes BY <2>1, <2>2, PutIs DEF Types
  <2>4. UNCHANGED <<kind, typed, inbox, pending, at, pump, writing, tty, got, output, shell,
                   reader, shown>>
    BY DEF BrokerEnds
  <2> QED BY <2>1, <2>2, <2>3, <2>4 DEF Types
<1>2. Stages' BY DEF IndInv, BrokerEnds, Put, Stages
<1>3. BrokerStages' BY DEF IndInv, BrokerEnds, Put, BrokerStages
<1>4. NeverTakenUp' BY DEF IndInv, BrokerEnds, Put, NeverTakenUp
<1>5. KeysInOrder'
  BY DEF IndInv, BrokerEnds, Put, TypedInOrder, TtyInOrder, FramesInOrder, WritingInOrder,
     PendingInOrder, InboxInOrder, AllIsHere, KeysInOrder, BeforeFrames, BeforeWriting,
     BeforePending, BeforeInbox
<1>6. ToldLast' BY DEF IndInv, BrokerEnds, Put, ToldLast
<1>7. NothingUnaccounted'
  <2>1. Types /\ NothingUnaccounted /\ ToldLast BY DEF IndInv
  <2>2. broker.main = "waiting" /\ UNCHANGED <<lost, shown, got, output>> BY DEF BrokerEnds
  <2>3. \A i \in 1 .. Len(frames.out) : frames.out[i] # 0 BY <2>1, <2>2 DEF ToldLast
  <2>4. Len(frames.out) \in Nat /\ Len(got) \in Nat /\ Len(output) \in Nat /\ shown \in Nat
    BY <2>1 DEF Types, FrameTypes
  <2>5. CASE frames' = frames BY <2>1, <2>2, <2>5 DEF NothingUnaccounted, Told
  <2>6. CASE frames' = Put("out", 0)
    <3>2. Grows(frames.out, frames.out', 0) BY <2>1, <2>6, PutIs DEF Types
    <3>3. frames.out # <<>> => Len(frames.out) \in 1 .. Len(frames.out)
      BY <2>1 DEF Types, FrameTypes
    <3>4. Told = 0 BY <2>3, <3>3 DEF Told
    <3>5. frames.out'[Len(frames.out')] = 0 /\ frames.out' # <<>> BY <2>4, <3>2 DEF Grows
    <3>6. Told' = 1 BY <3>5 DEF Told
    <3>7. Len(frames.out') = Len(frames.out) + 1 BY <3>2 DEF Grows
    <3> QED BY <2>1, <2>2, <2>4, <3>4, <3>6, <3>7 DEF NothingUnaccounted
  <2> QED BY <2>5, <2>6 DEF BrokerEnds
<1>8. InputEndsByClosing' BY DEF IndInv, BrokerEnds, Put, InputEndsByClosing
<1>9. SilentAfterExit' BY DEF IndInv, BrokerEnds, Put, SilentAfterExit
<1>10. ExitIsLast' BY DEF IndInv, BrokerEnds, Put, ExitIsLast
<1>11. Flags' BY DEF IndInv, BrokerEnds, Put, Flags
<1> QED BY <1>1, <1>2, <1>3, <1>4, <1>5, <1>6, <1>7, <1>8, <1>9, <1>10, <1>11 DEF IndInv

-----------------------------------------------------------------------------
(***************************************************************************)
(* The theorems.                                                           *)
(***************************************************************************)

\* A session begins with nothing typed.
LEMMA InitInv == ASSUME Init PROVE IndInv
<1> USE DEF Init, LocalCreated, SshCreated, TelnetCreated, ElevatedCreated, Opening, input, app,
            remote, elevated, Elevated, Close, Keys
<1>0. <<>> \in Seq(Keys) /\ <<>> \in Seq(Nat) /\ Len(<<>>) = 0 OBVIOUS
<1>1. Flags BY DEF Flags
<1>2. Types BY <1>0, TerminalAssumption DEF Types, FrameTypes
<1>3. Stages BY <1>2 DEF Stages, Types
<1>4. BrokerStages BY DEF BrokerStages
<1>5. NeverTakenUp BY DEF NeverTakenUp
<1>6. KeysInOrder
  BY <1>0 DEF KeysInOrder, TypedInOrder, TtyInOrder, FramesInOrder, WritingInOrder, PendingInOrder,
     InboxInOrder, AllIsHere, BeforeFrames, BeforeWriting, BeforePending, BeforeInbox
<1>7. ToldLast BY <1>0 DEF ToldLast
<1>8. NothingUnaccounted BY <1>0 DEF NothingUnaccounted, Told
<1>9. InputEndsByClosing BY <1>0 DEF InputEndsByClosing
<1>10. SilentAfterExit /\ ExitIsLast BY DEF SilentAfterExit, ExitIsLast
<1> QED BY <1>1, <1>2, <1>3, <1>4, <1>5, <1>6, <1>7, <1>8, <1>9, <1>10 DEF IndInv

\* A step of the option's negotiation changes nothing here.
LEMMA StutterInv == ASSUME IndInv, UNCHANGED vars PROVE IndInv'
<1> USE DEF vars, input, app, remote, elevated, Elevated
<1>1. Flags' /\ Types' BY DEF IndInv, Flags, Types
<1>2. Stages' /\ BrokerStages' /\ NeverTakenUp' BY DEF IndInv, Stages, BrokerStages, NeverTakenUp
<1>3. KeysInOrder'
  <2>1. Types /\ KeysInOrder /\ frames' = frames /\ listed' = listed BY DEF IndInv
  <2> QED BY <2>1, KeysKept
<1>4. ToldLast' BY DEF IndInv, ToldLast
<1>5. NothingUnaccounted' BY DEF IndInv, NothingUnaccounted, Told
<1>6. InputEndsByClosing' BY DEF IndInv, InputEndsByClosing
<1>7. SilentAfterExit' /\ ExitIsLast' BY DEF IndInv, SilentAfterExit, ExitIsLast
<1> QED BY <1>1, <1>2, <1>3, <1>4, <1>5, <1>6, <1>7 DEF IndInv

\* Every step keeps the invariant.
LEMMA StepInv == ASSUME IndInv, [SessionNext]_sessionVars PROVE IndInv'
<1>1. CASE Next
  <2>1. CASE Type \/ CloseTab \/ Echo \/ ShellExits \/ Lose
    BY <2>1, TypeStep, CloseTabStep, EchoStep, ShellExitsStep, LoseStep
  <2>2. CASE Input BY <2>2, TakeStep, WriteStep, WriteFrameStep, StopPumpStep DEF Input
  <2>3. CASE Show BY <2>3, ShowStep
  <2>4. CASE Local BY <2>4, ControlStep, ReaderEndsStep, DeregisterStep, ReportStep DEF Local
  <2>5. CASE Network
    BY <2>5, OpenShellStep, SharedFailsStep, LoginStep, TelnetConnectsStep, OpeningFailsStep,
       LeaveStep DEF Network
  <2>6. CASE Admin
    BY <2>6, PutByStep, CancelledStep, ConnectTimesOutStep, BrokerConnectedStep, ReadFrameStep
       DEF Admin
  <2>7. CASE Broker
    BY <2>7, BrokerStartsStep, BrokerFailsStep, SpawnStep, BrokerStopsStep, BrokerEndsStep
       DEF Broker
  <2>8. CASE BrokerWrites \/ BrokerPrints BY <2>8, BrokerWritesStep, BrokerPrintsStep
  <2> QED BY <1>1, <2>1, <2>2, <2>3, <2>4, <2>5, <2>6, <2>7, <2>8 DEF Next
<1>2. CASE UNCHANGED vars BY <1>2, StutterInv
<1> QED BY <1>1, <1>2 DEF SessionNext, sessionVars

\* The inductive invariant holds throughout.
THEOREM Inductive == SessionSpec => []IndInv
<1>1. SessionInit => IndInv BY InitInv DEF SessionInit
<1>2. IndInv /\ [SessionNext]_sessionVars => IndInv' BY StepInv
<1> QED BY <1>1, <1>2, PTL DEF SessionSpec

\* The exit is the last a tab hears of a session, and when the shell exits by
\* itself the tab was given all it printed (session/local.rs: the reader is
\* joined before the exit is told; broker.rs: the output is drained first).
THEOREM ExitIsTheLastOfATab == SessionSpec => []ExitIsLast
<1>1. IndInv => ExitIsLast BY DEF IndInv
<1> QED BY <1>1, Inductive, PTL

\* The shell reads what was typed in its order, nothing left out, also what was
\* typed before there was a shell (elevated.rs: what is put by goes first).
THEOREM TypedIsReadInOrder == SessionSpec => []TypedInOrder
<1>1. IndInv => TypedInOrder BY DEF IndInv, KeysInOrder
<1> QED BY <1>1, Inductive, PTL

\* With the property of the encoding that TLC evaluates (no variable is in it),
\* that is all of TypedArrives.
THEOREM TypedArrivesOnceBytesSurvive == SessionSpec /\ []Survives => []TypedArrives
<1>1. Survives /\ IndInv => TypedArrives BY DEF IndInv, KeysInOrder, TypedArrives
<1> QED BY <1>1, Inductive, PTL

=============================================================================

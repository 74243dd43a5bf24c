--------------------------- MODULE SftpClientProofs ---------------------------
(***************************************************************************)
(* Proofs about SftpClient for any number of callers, requests and room in *)
(* the channel: a reply reaches the caller that asked for it, nobody is    *)
(* left in the table of waiters, and a listing leaves no folder open.  And *)
(* about SftpProtocol: attributes of any values survive the wire.          *)
(***************************************************************************)
EXTENDS MCSftpClient, SequenceTheorems, TLAPS

\* The members of a queue.
Members(s) == {s[i] : i \in 1 .. Len(s)}
\* No two requests of a queue have one id.
Distinct(s) == \A i, j \in 1 .. Len(s) : s[i].id = s[j].id => i = j

Asks == {"stat", "opendir", "readdir", "close"}
Bodies == {Reply("ATTRS", "attrs"), Reply("HANDLE", "handle"), Reply("NAME", "entries"),
           Status("EOF"), Status("OK"), Status("FAILURE"), Malformed}
Replies == [id : Nat, by : Callers \cup {"nobody", "dropped"},
            reply : Bodies]
Requests == [id : Nat \ {0}, by : Callers, doing : Asks, handle : Nat]
Calls == [at : {"idle", "build", "queue", "wait"}, doing : Asks \cup {"none"}, id : Nat,
          slot : Replies, handle : Nat, over : BOOLEAN]

Asked == Members(outgoing) \cup atServer

Types ==
  /\ nextId \in Nat \ {0} /\ closed \in BOOLEAN
  /\ waiters \in [DOMAIN waiters -> Callers] /\ DOMAIN waiters \subseteq Nat \ {0}
  /\ call \in [Callers -> Calls]
  /\ outgoing \in Seq(Requests) /\ atServer \subseteq Requests /\ inbound \in Seq(Replies)
  /\ handles \subseteq Nat
  /\ \A c \in Callers : call[c].at # "idle" => call[c].doing # "none"

\* The tasks stop only once the session is closed, and only then is a caller
\* told so.
EndsInOrder ==
  /\ reader \in {"closing", "draining"} => closed
  /\ writer \in {"failing", "over"} => closed
  /\ \A c \in Callers : call[c].slot.by = "dropped" => closed

\* Every id in use was given out, and to one caller.
IdsAreGiven ==
  /\ \A c \in Callers : /\ call[c].id < nextId /\ call[c].slot.id < nextId
                        /\ call[c].handle < nextId
                        /\ call[c].at \in {"queue", "wait"} => call[c].id # 0
  /\ \A r \in Asked : r.id < nextId
  /\ \A q \in Members(inbound) : q.id < nextId
  /\ \A h \in handles : h < nextId
  /\ \A i \in DOMAIN waiters : i < nextId
  /\ \A c, d \in Callers : call[c].id = call[d].id /\ call[c].id # 0 => c = d

\* A caller whose slot is filled waits for nothing more.
FilledIsForgotten == \A c \in Callers :
  call[c].at \in {"queue", "wait"} /\ call[c].slot.by # "nobody" => call[c].id \notin DOMAIN waiters

\* A packet that somebody waits for is the one it sent, or the answer to it.
PacketsAreOwned ==
  \A p \in Asked \cup Members(inbound) : p.id \in DOMAIN waiters => waiters[p.id] = p.by

\* Every request is made once ...
AskedOnce ==
  /\ Distinct(outgoing)
  /\ \A r, s \in atServer : r.id = s.id => r = s
  /\ \A r \in Members(outgoing), s \in atServer : r.id # s.id

\* ... and nothing knows its answer before it is given.
Unknown(id) ==
  /\ \A q \in Members(inbound) : q.id # id
  /\ \A c \in Callers : call[c].slot.id # id /\ call[c].handle # id
  /\ id \notin handles
AnswersComeLater ==
  /\ \A r \in Asked : Unknown(r.id)
  /\ \A c \in Callers : call[c].at = "queue" =>
       Unknown(call[c].id) /\ \A r \in Asked : r.id # call[c].id

\* What is asked is what its caller waits for.
AskedAsMeant == \A r \in Asked, c \in Callers :
  call[c].at = "wait" /\ call[c].id = r.id => r.doing = call[c].doing /\ r.handle = call[c].handle

\* The answer to a close comes after the folder is closed.
CloseIsDone == \A c \in Callers :
  /\ call[c].at = "wait" /\ call[c].doing = "close"
  /\ call[c].slot.id = call[c].id \/ \E q \in Members(inbound) : q.id = call[c].id
  => call[c].handle \notin handles

IndInv ==
  /\ Types /\ EndsInOrder /\ IdsAreGiven /\ FilledIsForgotten /\ PacketsAreOwned /\ AskedOnce
  /\ AnswersComeLater /\ AskedAsMeant /\ CloseIsDone
  /\ RepliesMatch /\ WaitersAreCalls /\ FoldersAreClosed

USE ClientAssumption

-----------------------------------------------------------------------------
(***************************************************************************)
(* Queues.                                                                 *)
(***************************************************************************)

\* Append adds one member, at the end.
LEMMA AppendMembers ==
  ASSUME NEW S, NEW s \in Seq(S), NEW e \in S
  PROVE  Append(s, e) \in Seq(S) /\ Members(Append(s, e)) = Members(s) \cup {e}
<1>1. Append(s, e) \in Seq(S) /\ Len(Append(s, e)) = Len(s) + 1 OBVIOUS
<1>2. \A i \in 1 .. Len(s) : Append(s, e)[i] = s[i] OBVIOUS
<1>3. Append(s, e)[Len(s) + 1] = e OBVIOUS
<1>4. Len(s) \in Nat OBVIOUS
<1>5. 1 .. Len(Append(s, e)) = (1 .. Len(s)) \cup {Len(s) + 1} BY <1>1, <1>4
<1> DEFINE t == Append(s, e)
           n == Len(s)
<1>6. Members(t) = {t[i] : i \in (1 .. n) \cup {n + 1}} BY <1>5 DEF Members
<1>7. {t[i] : i \in (1 .. n) \cup {n + 1}} = {t[i] : i \in 1 .. n} \cup {t[n + 1]}
  <2> HIDE DEF t, n
  <2> QED OBVIOUS
<1>8. {t[i] : i \in 1 .. n} = Members(s) BY <1>2 DEF Members
<1> QED BY <1>1, <1>3, <1>6, <1>7, <1>8

\* Tail takes the head away, and nothing else.
LEMMA TailMembers ==
  ASSUME NEW S, NEW s \in Seq(S), s # <<>>
  PROVE  /\ Head(s) \in S /\ Tail(s) \in Seq(S)
         /\ Members(s) = {Head(s)} \cup Members(Tail(s))
<1>1. Head(s) \in S /\ Tail(s) \in Seq(S) /\ Len(Tail(s)) = Len(s) - 1 /\ Len(s) \in Nat \ {0}
  OBVIOUS
<1>2. Head(s) = s[1] /\ \A i \in 1 .. Len(s) - 1 : Tail(s)[i] = s[i + 1] OBVIOUS
<1>3. ASSUME NEW x \in Members(s) PROVE x = Head(s) \/ x \in Members(Tail(s))
  <2>1. PICK i \in 1 .. Len(s) : x = s[i] BY <1>3 DEF Members
  <2>2. CASE i = 1 BY <1>2, <2>1, <2>2
  <2>3. CASE i # 1
    <3>1. i - 1 \in 1 .. Len(s) - 1 /\ (i - 1) + 1 = i BY <1>1, <2>1, <2>3
    <3>2. Tail(s)[i - 1] = x BY <1>2, <2>1, <3>1
    <3> QED BY <1>1, <3>1, <3>2 DEF Members
  <2> QED BY <2>2, <2>3
<1>4. Head(s) \in Members(s) BY <1>1, <1>2 DEF Members
<1>5. ASSUME NEW x \in Members(Tail(s)) PROVE x \in Members(s)
  <2>1. PICK i \in 1 .. Len(s) - 1 : x = Tail(s)[i] BY <1>1, <1>5 DEF Members
  <2>2. i + 1 \in 1 .. Len(s) /\ x = s[i + 1] BY <1>1, <1>2, <2>1
  <2> QED BY <2>2 DEF Members
<1> QED BY <1>1, <1>3, <1>4, <1>5

\* The members of a queue are of its type.
LEMMA MembersType == ASSUME NEW S, NEW s \in Seq(S) PROVE Members(s) \subseteq S
BY DEF Members

\* A new id keeps a queue's ids apart.
LEMMA AppendDistinct ==
  ASSUME NEW S, NEW s \in Seq(S), NEW e \in S, Distinct(s), \A m \in Members(s) : m.id # e.id
  PROVE  Distinct(Append(s, e))
<1>1. Len(Append(s, e)) = Len(s) + 1 /\ Len(s) \in Nat OBVIOUS
<1>2. \A i \in 1 .. Len(s) : Append(s, e)[i] = s[i] OBVIOUS
<1>3. Append(s, e)[Len(s) + 1] = e OBVIOUS
<1>4. \A i \in 1 .. Len(s) : s[i].id # e.id BY DEF Members
<1>5. \A i \in 1 .. Len(Append(s, e)) : i \in 1 .. Len(s) \/ i = Len(s) + 1 BY <1>1
<1> QED BY <1>2, <1>3, <1>4, <1>5, Zenon DEF Distinct

\* The head's id is no other member's.
LEMMA TailDistinct ==
  ASSUME NEW S, NEW s \in Seq(S), s # <<>>, Distinct(s)
  PROVE  Distinct(Tail(s)) /\ \A m \in Members(Tail(s)) : m.id # Head(s).id
<1>1. Len(Tail(s)) = Len(s) - 1 /\ Len(s) \in Nat \ {0} /\ Tail(s) \in Seq(S) OBVIOUS
<1>2. Head(s) = s[1] /\ \A i \in 1 .. Len(s) - 1 : Tail(s)[i] = s[i + 1] OBVIOUS
<1>3. \A i \in 1 .. Len(s) - 1 : i + 1 \in 1 .. Len(s) /\ i + 1 # 1 BY <1>1
<1>4. ASSUME NEW i \in 1 .. Len(Tail(s)), NEW j \in 1 .. Len(Tail(s)),
             Tail(s)[i].id = Tail(s)[j].id
      PROVE  i = j
  <2>1. s[i + 1].id = s[j + 1].id BY <1>1, <1>2, <1>4
  <2>2. i + 1 = j + 1 BY <1>1, <1>3, <2>1 DEF Distinct
  <2> QED BY <2>2
<1>5. ASSUME NEW i \in 1 .. Len(Tail(s)) PROVE Tail(s)[i].id # Head(s).id
  <2>1. i + 1 \in 1 .. Len(s) /\ 1 \in 1 .. Len(s) /\ i + 1 # 1 BY <1>1, <1>3
  <2> QED BY <1>1, <1>2, <2>1 DEF Distinct
<1> QED BY <1>4, <1>5 DEF Distinct, Members
-----------------------------------------------------------------------------
(***************************************************************************)
(* Steps that change no caller and no waiter: packets move or get lost,    *)
(* folders are closed, the session ends.                                   *)
(***************************************************************************)

\* The initial state satisfies the invariant.
LEMMA InitInd == Init => IndInv
<1> SUFFICES ASSUME Init PROVE IndInv OBVIOUS
<1>1. /\ nextId = 1 /\ waiters = <<>> /\ closed = FALSE /\ outgoing = <<>> /\ reader = "reading"
      /\ writer = "writing" /\ atServer = {} /\ handles = {} /\ inbound = <<>>
      /\ call = [c \in Callers |-> Idle]
  BY DEF Init
<1>2. Empty \in Replies BY DEF Empty, Replies, Bodies
<1>3. Idle \in Calls /\ Idle.at = "idle" /\ Idle.id = 0 /\ Idle.slot = Empty /\ Idle.handle = 0
      /\ Idle.over = FALSE
  BY <1>2 DEF Idle, Calls
<1>4. Empty.by = "nobody" /\ Empty.id = 0 BY DEF Empty
<1>5. \A c \in Callers : call[c] = Idle BY <1>1
<1>6. Asked = {} /\ Members(inbound) = {} /\ DOMAIN waiters = {} BY <1>1 DEF Asked, Members
<1>7. Types
  <2>1. call \in [Callers -> Calls] BY <1>1, <1>3
  <2>2. waiters \in [DOMAIN waiters -> Callers] BY <1>1
  <2>3. outgoing \in Seq(Requests) /\ inbound \in Seq(Replies) BY <1>1
  <2>4. nextId \in Nat \ {0} /\ atServer \subseteq Requests /\ handles \subseteq Nat BY <1>1
  <2> QED BY <1>1, <1>3, <1>5, <1>6, <2>1, <2>2, <2>3, <2>4 DEF Types
<1>8. EndsInOrder BY <1>1, <1>3, <1>4, <1>5 DEF EndsInOrder
<1>9. IdsAreGiven BY <1>1, <1>3, <1>4, <1>5, <1>6 DEF IdsAreGiven
<1>10. FilledIsForgotten /\ PacketsAreOwned /\ AskedAsMeant
  BY <1>3, <1>5, <1>6 DEF FilledIsForgotten, PacketsAreOwned, AskedAsMeant
<1>11. AskedOnce BY <1>1 DEF AskedOnce, Distinct, Members
<1>12. AnswersComeLater BY <1>3, <1>5, <1>6 DEF AnswersComeLater
<1>13. CloseIsDone BY <1>3, <1>5 DEF CloseIsDone
<1>14. RepliesMatch BY <1>3, <1>4, <1>5 DEF RepliesMatch
<1>15. WaitersAreCalls BY <1>1, <1>6 DEF WaitersAreCalls
<1>16. FoldersAreClosed BY <1>3, <1>5 DEF FoldersAreClosed
<1> QED
  BY <1>7, <1>8, <1>9, <1>10, <1>11, <1>12, <1>13, <1>14, <1>15, <1>16 DEF IndInv

\* Nothing new is asked, answered (but by what breaks the framing) or opened.
LEMMA NothingNew ==
  ASSUME IndInv,
         UNCHANGED <<nextId, waiters, call>>,
         Types', EndsInOrder', AskedOnce',
         Asked' \subseteq Asked,
         \A q \in Members(inbound') : q \in Members(inbound) \/ q.id = 0,
         handles' \subseteq handles,
         closed => closed',
         reader' = "draining" => reader = "draining"
  PROVE  IndInv'
<1>1. Asked \subseteq Requests /\ \A r \in Asked : r.id # 0
  <2>1. Members(outgoing) \subseteq Requests BY MembersType DEF IndInv, Types
  <2>2. Asked \subseteq Requests BY <2>1 DEF IndInv, Types, Asked
  <2> QED BY <2>2 DEF Requests
<1>2. \A c \in Callers : call[c].at = "queue" => call[c].id # 0 BY DEF IndInv, IdsAreGiven
<1>3. IdsAreGiven'
  <2>1. nextId > 0 BY DEF IndInv, Types
  <2> QED BY <2>1 DEF IndInv, IdsAreGiven
<1>4. FilledIsForgotten' BY DEF IndInv, FilledIsForgotten
<1>5. PacketsAreOwned'
  <2>1. 0 \notin DOMAIN waiters BY DEF IndInv, Types
  <2> QED BY <2>1 DEF IndInv, PacketsAreOwned
<1>6. \A id : Unknown(id) /\ id # 0 => Unknown(id)' BY DEF Unknown
<1>7. AnswersComeLater' BY <1>1, <1>2, <1>6 DEF IndInv, AnswersComeLater
<1>8. AskedAsMeant' BY DEF IndInv, AskedAsMeant
<1>9. CloseIsDone' BY DEF IndInv, CloseIsDone, IdsAreGiven
<1>10. RepliesMatch' BY DEF IndInv, RepliesMatch
<1>11. WaitersAreCalls' BY DEF IndInv, WaitersAreCalls
<1>12. FoldersAreClosed' BY DEF IndInv, FoldersAreClosed
<1> QED
  BY <1>3, <1>4, <1>5, <1>7, <1>8, <1>9, <1>10, <1>11, <1>12 DEF IndInv

\* What the writing task takes is on its way, what it leaves is forgotten.
LEMMA WritingSteps ==
  ASSUME IndInv, Write \/ WriteFails \/ WriterEnds
  PROVE  IndInv'
<1>1. outgoing \in Seq(Requests) /\ atServer \subseteq Requests BY DEF IndInv, Types
<1>2. CASE Write
  <2>1. /\ outgoing # <<>> /\ atServer' = atServer \cup {Head(outgoing)}
        /\ outgoing' = Tail(outgoing)
        /\ UNCHANGED <<nextId, waiters, closed, call, reader, writer, handles, inbound, channel>>
    BY <1>2 DEF Write
  <2>2. /\ Head(outgoing) \in Requests /\ outgoing' \in Seq(Requests)
        /\ Members(outgoing) = {Head(outgoing)} \cup Members(outgoing')
    BY <1>1, <2>1, TailMembers
  <2>3. Types' BY <2>1, <2>2 DEF IndInv, Types
  <2>4. EndsInOrder' BY <2>1 DEF IndInv, EndsInOrder
  <2>5. AskedOnce'
    <3>1. Distinct(outgoing) BY DEF IndInv, AskedOnce
    <3>2. Distinct(outgoing') /\ \A m \in Members(outgoing') : m.id # Head(outgoing).id
      BY <1>1, <2>1, <3>1, TailDistinct
    <3> QED BY <2>1, <2>2, <3>2 DEF IndInv, AskedOnce
  <2>6. Asked' = Asked BY <2>1, <2>2 DEF Asked
  <2> QED BY <2>1, <2>3, <2>4, <2>5, <2>6, NothingNew
<1>3. CASE WriteFails
  <2>1. /\ closed' = TRUE /\ writer' = "failing"
        /\ UNCHANGED <<nextId, waiters, call, outgoing, reader, atServer, handles, inbound, channel>>
    BY <1>3 DEF WriteFails, SetClosed
  <2>2. Types' BY <2>1 DEF IndInv, Types
  <2>3. EndsInOrder' BY <2>1 DEF EndsInOrder
  <2>4. AskedOnce' /\ Asked' = Asked BY <2>1 DEF IndInv, AskedOnce, Asked
  <2> QED BY <2>1, <2>2, <2>3, <2>4, NothingNew
<1>4. CASE WriterEnds
  <2>1. /\ closed /\ writer' = "over" /\ outgoing' = <<>>
        /\ UNCHANGED <<nextId, waiters, closed, call, reader, atServer, handles, inbound>>
    BY <1>4 DEF WriterEnds
  <2>2. Types' BY <2>1 DEF IndInv, Types
  <2>3. EndsInOrder' BY <2>1 DEF IndInv, EndsInOrder
  <2>4. Members(outgoing') = {} /\ Distinct(outgoing') BY <2>1 DEF Members, Distinct
  <2>5. AskedOnce' BY <2>1, <2>4 DEF IndInv, AskedOnce
  <2>6. Asked' \subseteq Asked BY <2>1, <2>4 DEF Asked
  <2> QED BY <2>1, <2>2, <2>3, <2>5, <2>6, NothingNew
<1> QED BY <1>2, <1>3, <1>4

\* The reading task stops, or only keeps the channel from filling up.
LEMMA ReadingSteps ==
  ASSUME IndInv, ReaderStops \/ Drain
  PROVE  IndInv'
<1>1. inbound \in Seq(Replies) BY DEF IndInv, Types
<1>2. inbound # <<>> =>
        Tail(inbound) \in Seq(Replies) /\ Members(Tail(inbound)) \subseteq Members(inbound)
  BY <1>1, TailMembers
<1>3. /\ inbound' \in Seq(Replies) /\ Members(inbound') \subseteq Members(inbound)
      /\ UNCHANGED <<nextId, waiters, call, outgoing, writer, atServer, handles, channel>>
      /\ closed' \in BOOLEAN /\ (closed => closed')
      /\ reader' = "draining" => reader = "draining"
      /\ reader' \in {"closing", "draining"} => closed'
  <2>1. CASE ReaderStops BY <1>1, <1>2, <2>1 DEF ReaderStops, SetClosed
  <2>2. CASE Drain BY <1>1, <1>2, <2>2 DEF Drain, IndInv, Types, EndsInOrder
  <2> QED BY <2>1, <2>2
<1>4. Types' BY <1>3 DEF IndInv, Types
<1>5. EndsInOrder' BY <1>3 DEF IndInv, EndsInOrder
<1>6. AskedOnce' /\ Asked' = Asked BY <1>3 DEF IndInv, AskedOnce, Asked
<1> QED BY <1>3, <1>4, <1>5, <1>6, NothingNew

\* The server stops, the connection is lost, or what arrives makes no sense.
LEMMA ChannelSteps ==
  ASSUME IndInv, BreakFraming \/ ServerCloses \/ Lose
  PROVE  IndInv'
<1>1. inbound \in Seq(Replies) BY DEF IndInv, Types
<1>2. /\ UNCHANGED <<nextId, waiters, closed, call, outgoing, reader, writer>>
      /\ atServer' \subseteq atServer /\ handles' \subseteq handles
  BY DEF BreakFraming, ServerCloses, Lose
<1>3. inbound' \in Seq(Replies) /\ \A q \in Members(inbound') : q \in Members(inbound) \/ q.id = 0
  <2>1. CASE BreakFraming
    <3> DEFINE broken == [id |-> 0, by |-> "nobody", reply |-> Malformed]
    <3>1. broken \in Replies /\ broken.id = 0 BY DEF Replies, Bodies
    <3>2. inbound' = Append(inbound, broken) BY <2>1 DEF BreakFraming
    <3> HIDE DEF broken
    <3> QED BY <1>1, <3>1, <3>2, AppendMembers
  <2>2. CASE ServerCloses \/ Lose BY <1>1, <2>2 DEF ServerCloses, Lose
  <2> QED BY <2>1, <2>2
<1>4. Types' BY <1>2, <1>3 DEF IndInv, Types
<1>5. EndsInOrder' BY <1>2 DEF IndInv, EndsInOrder
<1>6. AskedOnce' BY <1>2 DEF IndInv, AskedOnce
<1>7. Asked' \subseteq Asked BY <1>2 DEF Asked
<1> QED BY <1>2, <1>3, <1>4, <1>5, <1>6, <1>7, NothingNew
-----------------------------------------------------------------------------
(***************************************************************************)
(* The server answers.                                                     *)
(***************************************************************************)

\* An answer is on its way: its id is nobody's question any more, and the answer
\* to a close follows the closing.
LEMMA ServeStep == ASSUME IndInv, NEW r \in atServer, Serve(r) PROVE IndInv'
<1>1. /\ atServer' = atServer \ {r}
      /\ UNCHANGED <<nextId, waiters, closed, call, outgoing, reader, writer, channel>>
  BY DEF Serve
<1>2. /\ r \in Requests /\ r.id \in Nat \ {0} /\ r.by \in Callers /\ r.handle \in Nat
      /\ r.doing \in Asks /\ r \in Asked /\ inbound \in Seq(Replies) /\ handles \subseteq Nat
  BY DEF IndInv, Types, Requests, Asked
<1>3. PICK q \in Replies :
        /\ q.id = r.id /\ q.by = r.by /\ inbound' = Append(inbound, q)
        /\ handles' \subseteq handles \cup (IF r.doing = "opendir" THEN {r.id} ELSE {})
        /\ r.doing = "close" => r.handle \notin handles'
  <2>1. PICK reply \in Bodies :
          /\ inbound' = Append(inbound, [id |-> r.id, by |-> r.by, reply |-> reply])
          /\ handles' \subseteq handles \cup (IF r.doing = "opendir" THEN {r.id} ELSE {})
          /\ r.doing = "close" => r.handle \notin handles'
    <3>1. Good(r) \subseteq Bodies /\ Bad(r) \in Bodies BY <1>2 DEF Good, Bad, Bodies, Asks
    <3>2. /\ Performed(r) \subseteq handles \cup (IF r.doing = "opendir" THEN {r.id} ELSE {})
          /\ r.doing = "close" => r.handle \notin Performed(r)
      BY <1>2 DEF Performed, Asks
    <3>3. CASE \E reply \in Good(r) :
                 /\ inbound' = Append(inbound, [id |-> r.id, by |-> r.by, reply |-> reply])
                 /\ handles' = Performed(r)
      BY <3>1, <3>2, <3>3
    <3>4. CASE /\ inbound' = Append(inbound, [id |-> r.id, by |-> r.by, reply |-> Bad(r)])
               /\ handles' = IF r.doing = "opendir" THEN handles ELSE Performed(r)
      BY <3>1, <3>2, <3>4
    <3> QED BY <3>3, <3>4 DEF Serve
  <2>2. [id |-> r.id, by |-> r.by, reply |-> reply] \in Replies BY <1>2, <2>1 DEF Replies
  <2> QED BY <2>1, <2>2
<1>4. inbound' \in Seq(Replies) /\ Members(inbound') = Members(inbound) \cup {q}
  BY <1>2, <1>3, AppendMembers
<1>5. Asked' \subseteq Asked /\ \A s \in Asked' : s.id # r.id
  <2>1. \A s \in Members(outgoing) \cup atServer' : s.id # r.id
    BY <1>1 DEF IndInv, AskedOnce
  <2> QED BY <1>1, <2>1 DEF Asked
<1>6. handles' \subseteq handles \cup {r.id} BY <1>3
<1>7. Types'
  <2>1. handles' \subseteq Nat BY <1>2, <1>6
  <2> QED BY <1>1, <1>4, <2>1 DEF IndInv, Types
<1>8. EndsInOrder' BY <1>1 DEF IndInv, EndsInOrder
<1>9. IdsAreGiven'
  <2>1. r.id < nextId BY <1>2 DEF IndInv, IdsAreGiven
  <2> QED BY <1>1, <1>3, <1>4, <1>5, <1>6, <2>1 DEF IndInv, IdsAreGiven
<1>10. FilledIsForgotten' BY <1>1 DEF IndInv, FilledIsForgotten
<1>11. PacketsAreOwned' BY <1>1, <1>2, <1>3, <1>4, <1>5 DEF IndInv, PacketsAreOwned
<1>12. AskedOnce' BY <1>1 DEF IndInv, AskedOnce
<1>13. AnswersComeLater'
  <2>1. \A id : Unknown(id) /\ id # r.id => Unknown(id)' BY <1>1, <1>3, <1>4, <1>6 DEF Unknown
  <2>2. \A c \in Callers : call[c].at = "queue" => call[c].id # r.id
    BY <1>2 DEF IndInv, AnswersComeLater
  <2> QED BY <1>1, <1>5, <2>1, <2>2 DEF IndInv, AnswersComeLater
<1>14. AskedAsMeant' BY <1>1, <1>5 DEF IndInv, AskedAsMeant
<1>15. \A c \in Callers : call[c].handle # r.id BY <1>2 DEF IndInv, AnswersComeLater, Unknown
<1>16. CloseIsDone'
  <2> SUFFICES ASSUME NEW c \in Callers, call[c].at = "wait", call[c].doing = "close",
                      call[c].slot.id = call[c].id \/ \E p \in Members(inbound') : p.id = call[c].id
               PROVE  call[c].handle \notin handles'
    BY <1>1 DEF CloseIsDone
  <2>1. CASE call[c].id = r.id
    BY <1>2, <1>3, <2>1 DEF IndInv, AskedAsMeant
  <2>2. CASE call[c].id # r.id
    <3>1. call[c].slot.id = call[c].id \/ \E p \in Members(inbound) : p.id = call[c].id
      BY <1>3, <1>4, <2>2
    <3>2. call[c].handle \notin handles BY <3>1 DEF IndInv, CloseIsDone
    <3> QED BY <1>6, <1>15, <3>2
  <2> QED BY <2>1, <2>2
<1>17. RepliesMatch' BY <1>1 DEF IndInv, RepliesMatch
<1>18. WaitersAreCalls' BY <1>1 DEF IndInv, WaitersAreCalls
<1>19. FoldersAreClosed' BY <1>1, <1>6, <1>15 DEF IndInv, FoldersAreClosed
<1> QED
  BY <1>7, <1>8, <1>9, <1>10, <1>11, <1>12, <1>13, <1>14, <1>16, <1>17, <1>18, <1>19 DEF IndInv

-----------------------------------------------------------------------------
(***************************************************************************)
(* The session ends: the waiters are told, and none is left.               *)
(***************************************************************************)

\* k is the call it was, with another slot.
SameBut(k, l) == /\ l.at = k.at /\ l.doing = k.doing /\ l.id = k.id /\ l.handle = k.handle
                 /\ l.over = k.over

\* Clearing the waiters fills their slots and changes nothing else.
LEMMA ClearWaitersIs ==
  ASSUME Types, ClearWaiters
  PROVE  /\ DOMAIN waiters' = {} /\ waiters' \in [DOMAIN waiters' -> Callers]
         /\ call' \in [Callers -> Calls]
         /\ \A c \in Callers : /\ SameBut(call[c], call'[c])
                               /\ call'[c].slot \in {call[c].slot, Dropped}
<1>1. Dropped \in Replies BY DEF Dropped, Replies, Bodies
<1>2. waiters' = <<>> BY DEF ClearWaiters
<1>3. ASSUME NEW c \in Callers
      PROVE  /\ call'[c] \in Calls /\ SameBut(call[c], call'[c])
             /\ call'[c].slot \in {call[c].slot, Dropped}
  <2>1. call[c] \in Calls BY DEF Types
  <2>2. call'[c] = [call[c] EXCEPT !.slot = Dropped] \/ call'[c] = call[c]
    BY DEF ClearWaiters
  <2>3. CASE call'[c] = call[c] BY <2>1, <2>3 DEF SameBut
  <2>4. CASE call'[c] = [call[c] EXCEPT !.slot = Dropped]
    BY <1>1, <2>1, <2>4 DEF Calls, SameBut
  <2> QED BY <2>2, <2>3, <2>4
<1>4. call' \in [Callers -> Calls]
  <2> DEFINE cleared(c) == IF \E i \in DOMAIN waiters : waiters[i] = c /\ call[c].id = i
                           THEN [call[c] EXCEPT !.slot = Dropped] ELSE call[c]
  <2>1. call' = [c \in Callers |-> cleared(c)] BY DEF ClearWaiters
  <2> HIDE DEF cleared
  <2>2. \A c \in Callers : cleared(c) \in Calls BY <1>3, <2>1
  <2> QED BY <2>1, <2>2
<1> QED BY <1>2, <1>3, <1>4

\* A session that ended tells its callers.
LEMMA ClearStep ==
  ASSUME IndInv, ClearWaiters, closed',
         closed' \in BOOLEAN, outgoing' \in {outgoing, <<>>},
         UNCHANGED <<nextId, atServer, handles, inbound>>
  PROVE  IndInv'
<1>1. Types BY DEF IndInv
<1>2. /\ DOMAIN waiters' = {} /\ waiters' \in [DOMAIN waiters' -> Callers]
      /\ call' \in [Callers -> Calls]
      /\ \A c \in Callers : SameBut(call[c], call'[c]) /\ call'[c].slot \in {call[c].slot, Dropped}
  BY <1>1, ClearWaitersIs
<1>3. Dropped.id = 0 /\ Dropped.by = "dropped" BY DEF Dropped
<1>4. Asked' \subseteq Asked
  <2>1. Members(<<>>) = {} BY DEF Members
  <2> QED BY <2>1 DEF Asked
<1>5. Types'
  <2>1. outgoing' \in Seq(Requests)
    <3>1. <<>> \in Seq(Requests) OBVIOUS
    <3> QED BY <3>1 DEF IndInv, Types
  <2> QED BY <1>2, <2>1 DEF IndInv, Types, SameBut
<1>6. EndsInOrder' BY DEF EndsInOrder
<1>7. IdsAreGiven'
  <2>1. nextId > 0 BY DEF IndInv, Types
  <2> QED BY <1>2, <1>3, <1>4, <2>1 DEF IndInv, IdsAreGiven, SameBut
<1>8. FilledIsForgotten' /\ PacketsAreOwned' BY <1>2 DEF FilledIsForgotten, PacketsAreOwned
<1>9. AskedOnce'
  <2>1. Distinct(<<>>) /\ Members(<<>>) = {} BY DEF Distinct, Members
  <2> QED BY <2>1 DEF IndInv, AskedOnce
<1>10. AnswersComeLater'
  <2>1. \A id : Unknown(id) /\ id # 0 => Unknown(id)' BY <1>2, <1>3 DEF Unknown, SameBut
  <2>2. \A r \in Asked : r.id # 0
    <3>1. Members(outgoing) \subseteq Requests BY MembersType DEF IndInv, Types
    <3> QED BY <3>1 DEF IndInv, Types, Asked, Requests
  <2>3. \A c \in Callers : call[c].at = "queue" => call[c].id # 0 BY DEF IndInv, IdsAreGiven
  <2> QED BY <1>2, <1>4, <2>1, <2>2, <2>3 DEF IndInv, AnswersComeLater, SameBut
<1>11. AskedAsMeant' BY <1>2, <1>4 DEF IndInv, AskedAsMeant, SameBut
<1>12. CloseIsDone'
  <2>1. \A c \in Callers : call[c].at = "wait" => call[c].id # 0 BY DEF IndInv, IdsAreGiven
  <2> QED BY <1>2, <1>3, <2>1 DEF IndInv, CloseIsDone, SameBut
<1>13. RepliesMatch' BY <1>2, <1>3 DEF IndInv, RepliesMatch, SameBut
<1>14. WaitersAreCalls' BY <1>2 DEF WaitersAreCalls
<1>15. FoldersAreClosed' BY DEF FoldersAreClosed
<1> QED
  BY <1>5, <1>6, <1>7, <1>8, <1>9, <1>10, <1>11, <1>12, <1>13, <1>14, <1>15 DEF IndInv

\* Each way that comes about.
LEMMA ClearingSteps ==
  ASSUME IndInv, DropClient \/ WriterCloses \/ ReaderCloses
  PROVE  IndInv'
<1>1. CASE DropClient BY <1>1, ClearStep DEF DropClient, SetClosed
<1>2. CASE WriterCloses BY <1>2, ClearStep DEF WriterCloses, IndInv, EndsInOrder, Types
<1>3. CASE ReaderCloses BY <1>3, ClearStep DEF ReaderCloses, IndInv, EndsInOrder, Types
<1> QED BY <1>1, <1>2, <1>3
-----------------------------------------------------------------------------
(***************************************************************************)
(* A reply reaches its waiter.                                             *)
(***************************************************************************)

\* The head of what arrived goes to whoever registered its id.
LEMMA ReceiveStep == ASSUME IndInv, Receive PROVE IndInv'
<1> DEFINE q == Head(inbound)
           hit(c) == q.id \in DOMAIN waiters /\ waiters[q.id] = c
<1>1. /\ inbound # <<>> /\ q.id # 0 /\ inbound' = Tail(inbound)
      /\ waiters' = [i \in DOMAIN waiters \ {q.id} |-> waiters[i]]
      /\ call' = [c \in Callers |-> IF hit(c) THEN [call[c] EXCEPT !.slot = q] ELSE call[c]]
      /\ reader = "reading"
      /\ UNCHANGED <<nextId, closed, outgoing, reader, writer, atServer, handles, channel>>
  <2>1. WaiterOf(q.id) \subseteq {q.id}
        /\ DOMAIN waiters \ WaiterOf(q.id) = DOMAIN waiters \ {q.id}
    BY DEF WaiterOf
  <2>2. \A c \in Callers : (\E i \in WaiterOf(q.id) : waiters[i] = c) <=> hit(c) BY DEF WaiterOf
  <2> QED BY <2>1, <2>2 DEF Receive, Without
<1>2. inbound \in Seq(Replies) BY DEF IndInv, Types
<1>3. /\ q \in Replies /\ inbound' \in Seq(Replies)
      /\ Members(inbound) = {q} \cup Members(inbound')
  BY <1>1, <1>2, TailMembers
<1>4. \A c \in Callers : hit(c) =>
        /\ call[c].id = q.id /\ q.by = c /\ call[c].at \in {"queue", "wait"}
  BY <1>3 DEF IndInv, WaitersAreCalls, PacketsAreOwned
<1>5. \A c \in Callers : /\ call'[c] \in Calls /\ SameBut(call[c], call'[c])
                         /\ call'[c].slot = IF hit(c) THEN q ELSE call[c].slot
  <2> SUFFICES ASSUME NEW c \in Callers
               PROVE  /\ call'[c] \in Calls /\ SameBut(call[c], call'[c])
                      /\ call'[c].slot = IF hit(c) THEN q ELSE call[c].slot
    OBVIOUS
  <2>1. call[c] \in Calls BY DEF IndInv, Types
  <2>2. CASE hit(c)
    <3>1. call'[c] = [call[c] EXCEPT !.slot = q] BY <1>1, <2>2
    <3> HIDE DEF q
    <3> QED BY <1>3, <2>1, <2>2, <3>1 DEF Calls, SameBut
  <2>3. CASE ~hit(c) BY <1>1, <2>1, <2>3 DEF SameBut
  <2> QED BY <2>2, <2>3
<1>6. /\ DOMAIN waiters' = DOMAIN waiters \ {q.id}
      /\ \A i \in DOMAIN waiters' : waiters'[i] = waiters[i]
  BY <1>1
<1>7. waiters' \in [DOMAIN waiters' -> Callers]
  BY <1>1 DEF IndInv, Types
<1>8. Asked' = Asked BY <1>1 DEF Asked
<1>9. call' \in [Callers -> Calls] BY <1>1, <1>5
<1> HIDE DEF q, hit
<1>10. Types' BY <1>1, <1>3, <1>5, <1>6, <1>7, <1>9 DEF IndInv, Types, SameBut
<1>11. EndsInOrder'
  <2>1. \A c \in Callers : hit(c) => q.by # "dropped" BY <1>4
  <2> QED BY <1>1, <1>5, <2>1 DEF IndInv, EndsInOrder
<1>12. IdsAreGiven' BY <1>1, <1>3, <1>5, <1>6, <1>8 DEF IndInv, IdsAreGiven, SameBut
<1>13. FilledIsForgotten' BY <1>4, <1>5, <1>6 DEF IndInv, FilledIsForgotten, SameBut
<1>14. PacketsAreOwned' BY <1>3, <1>6, <1>8 DEF IndInv, PacketsAreOwned
<1>15. AskedOnce' BY <1>1 DEF IndInv, AskedOnce
<1>16. AnswersComeLater'
  <2>1. \A id : Unknown(id) => Unknown(id)' BY <1>1, <1>3, <1>5 DEF Unknown, SameBut
  <2> QED BY <1>5, <1>8, <2>1 DEF IndInv, AnswersComeLater, SameBut
<1>17. AskedAsMeant' BY <1>5, <1>8 DEF IndInv, AskedAsMeant, SameBut
<1>18. CloseIsDone' BY <1>1, <1>3, <1>5 DEF IndInv, CloseIsDone, SameBut
<1>19. RepliesMatch' BY <1>4, <1>5 DEF IndInv, RepliesMatch, SameBut
<1>20. WaitersAreCalls'
  <2>1. reader' # "draining" BY <1>1
  <2>2. \A i \in DOMAIN waiters' : waiters[i] \in Callers BY <1>6 DEF IndInv, Types
  <2> QED BY <1>5, <1>6, <2>1, <2>2 DEF IndInv, WaitersAreCalls, SameBut
<1>21. FoldersAreClosed' BY <1>1, <1>5 DEF IndInv, FoldersAreClosed, SameBut
<1> QED
  BY <1>10, <1>11, <1>12, <1>13, <1>14, <1>15, <1>16, <1>17, <1>18, <1>19, <1>20, <1>21 DEF IndInv
-----------------------------------------------------------------------------
(***************************************************************************)
(* What callers do.                                                        *)
(***************************************************************************)

\* A request is given up.
LEMMA AbandonStep == ASSUME IndInv, NEW c \in Callers, Abandon(c) PROVE IndInv'
<1>1. /\ call[c].at = "wait" /\ call' = [call EXCEPT ![c] = Idle]
      /\ waiters' = [i \in DOMAIN waiters \ {call[c].id} |-> waiters[i]]
      /\ UNCHANGED <<nextId, closed, outgoing, reader, writer, atServer, handles, inbound, channel>>
  BY DEF Abandon, Without
<1>2. call \in [Callers -> Calls] BY DEF IndInv, Types
<1>3. /\ Idle \in Calls /\ Idle.at = "idle" /\ Idle.id = 0 /\ Idle.slot.by = "nobody"
      /\ Idle.slot.id = 0 /\ Idle.handle = 0 /\ Idle.over = FALSE
  BY DEF Idle, Calls, Empty, Replies, Bodies
<1>4. call'[c] = Idle /\ \A d \in Callers \ {c} : call'[d] = call[d]
  BY <1>1, <1>2
<1>5. /\ DOMAIN waiters' = DOMAIN waiters \ {call[c].id}
      /\ \A i \in DOMAIN waiters' : waiters'[i] = waiters[i]
  BY <1>1
<1>6. Asked' = Asked BY <1>1 DEF Asked
<1> HIDE DEF Idle
<1>7. Types'
  <2>1. waiters' \in [DOMAIN waiters' -> Callers] BY <1>1 DEF IndInv, Types
  <2>2. call' \in [Callers -> Calls] BY <1>1, <1>2, <1>3
  <2> QED BY <1>1, <1>3, <1>4, <1>5, <2>1, <2>2 DEF IndInv, Types
<1>8. EndsInOrder' BY <1>1, <1>3, <1>4 DEF IndInv, EndsInOrder
<1>9. IdsAreGiven'
  <2>1. nextId > 0 BY DEF IndInv, Types
  <2> QED BY <1>1, <1>3, <1>4, <1>5, <1>6, <2>1 DEF IndInv, IdsAreGiven
<1>10. FilledIsForgotten' BY <1>3, <1>4, <1>5 DEF IndInv, FilledIsForgotten
<1>11. PacketsAreOwned' BY <1>1, <1>5, <1>6 DEF IndInv, PacketsAreOwned
<1>12. AskedOnce' BY <1>1 DEF IndInv, AskedOnce
<1>13. AnswersComeLater'
  <2>1. \A id : Unknown(id) /\ id # 0 => Unknown(id)' BY <1>1, <1>3, <1>4 DEF Unknown
  <2>2. \A r \in Asked : r.id # 0
    <3>1. Members(outgoing) \subseteq Requests BY MembersType DEF IndInv, Types
    <3> QED BY <3>1 DEF IndInv, Types, Asked, Requests
  <2>3. \A d \in Callers : call[d].at = "queue" => call[d].id # 0 BY DEF IndInv, IdsAreGiven
  <2> QED BY <1>3, <1>4, <1>6, <2>1, <2>2, <2>3 DEF IndInv, AnswersComeLater
<1>14. AskedAsMeant' BY <1>3, <1>4, <1>6 DEF IndInv, AskedAsMeant
<1>15. CloseIsDone' BY <1>1, <1>3, <1>4 DEF IndInv, CloseIsDone
<1>16. RepliesMatch' BY <1>3, <1>4 DEF IndInv, RepliesMatch
<1>17. WaitersAreCalls' BY <1>1, <1>4, <1>5 DEF IndInv, WaitersAreCalls
<1>18. FoldersAreClosed' BY <1>1, <1>3, <1>4 DEF IndInv, FoldersAreClosed
<1> QED
  BY <1>7, <1>8, <1>9, <1>10, <1>11, <1>12, <1>13, <1>14, <1>15, <1>16, <1>17, <1>18 DEF IndInv

\* What a caller is once it got its reply.
LEMMA ResolvedIs ==
  ASSUME NEW k \in Calls, k.doing # "none",
         NEW l, l = [Resolved(k) EXCEPT !.slot = Empty]
  PROVE  /\ l \in Calls /\ l.slot = Empty
         /\ l.at \in {"idle", "build"} /\ (l.at # "idle" => l.doing # "none")
         /\ l.id \in {0, k.id} /\ l.handle \in {0, k.handle, k.slot.id}
         /\ l.at = "idle" /\ l.over => k.doing = "close" /\ l.handle = k.handle
<1> DEFINE ended == [Idle EXCEPT !.handle = k.handle, !.over = TRUE]
           opened == [k EXCEPT !.at = "build", !.doing = "readdir", !.handle = k.slot.id]
           more == [k EXCEPT !.at = "build"]
           closing == [k EXCEPT !.at = "build", !.doing = "close"]
           R(m) == /\ m \in Calls /\ m.at \in {"idle", "build"} /\ (m.at # "idle" => m.doing # "none")
                   /\ m.id \in {0, k.id} /\ m.handle \in {0, k.handle, k.slot.id}
                   /\ m.at = "idle" /\ m.over => k.doing = "close" /\ m.handle = k.handle
<1>1. Empty \in Replies /\ k.slot.id \in Nat BY DEF Empty, Replies, Bodies, Calls
<1>2. R(Idle) BY <1>1 DEF Idle, Calls
<1>3. k.doing = "close" => R(ended) BY <1>1 DEF Idle, Calls
<1>4. R(opened) BY <1>1 DEF Calls, Asks
<1>5. R(more) BY DEF Calls
<1>6. R(closing) BY DEF Calls, Asks
<1>7. /\ k.doing = "stat" => Resolved(k) = Idle
      /\ k.doing = "opendir" => Resolved(k) \in {Idle, opened}
      /\ k.doing = "readdir" => Resolved(k) \in {more, closing}
      /\ k.doing = "close" => Resolved(k) = ended
  BY DEF Resolved, Listing
<1>8. k.doing \in Asks BY DEF Calls
<1> HIDE DEF R, ended, opened, more, closing
<1>9. R(Resolved(k)) BY <1>2, <1>3, <1>4, <1>5, <1>6, <1>7, <1>8 DEF Asks
<1> USE DEF R
<1> DEFINE m == Resolved(k)
<1>10. R(m) /\ l = [m EXCEPT !.slot = Empty] BY <1>9
<1> HIDE DEF m
<1> QED BY <1>1, <1>10 DEF Calls

\* A caller takes its reply, and goes on to the next request or ends.
LEMMA PollStep == ASSUME IndInv, NEW c \in Callers, Poll(c) PROVE IndInv'
<1> DEFINE k == call[c]
           l == call'[c]
<1>1. /\ k.at = "wait" /\ k.slot.by # "nobody"
      /\ call' = [call EXCEPT ![c] = [Resolved(k) EXCEPT !.slot = Empty]]
      /\ UNCHANGED <<nextId, waiters, closed, outgoing, reader, writer, atServer, handles, inbound, channel>>
  BY DEF Poll
<1>2. call \in [Callers -> Calls] /\ k \in Calls /\ k.doing # "none"
  BY <1>1 DEF IndInv, Types
<1>3. /\ l = [Resolved(k) EXCEPT !.slot = Empty] /\ \A d \in Callers \ {c} : call'[d] = call[d]
      /\ DOMAIN call' = Callers /\ call' = [d \in Callers |-> call'[d]]
  BY <1>1, <1>2
<1>4. /\ l \in Calls /\ l.slot = Empty
      /\ l.at \in {"idle", "build"} /\ (l.at # "idle" => l.doing # "none")
      /\ l.id \in {0, k.id} /\ l.handle \in {0, k.handle, k.slot.id}
      /\ l.at = "idle" /\ l.over => k.doing = "close" /\ l.handle = k.handle
  <2> HIDE DEF k, l
  <2> QED BY <1>2, <1>3, ResolvedIs
<1>5. Empty.by = "nobody" /\ Empty.id = 0 BY DEF Empty
<1>6. Asked' = Asked BY <1>1 DEF Asked
<1>7. Types'
  <2>1. call' \in [Callers -> Calls]
    <3>1. \A d \in Callers : call'[d] \in Calls BY <1>2, <1>3, <1>4
    <3> QED BY <1>3, <3>1
  <2> QED BY <1>1, <1>3, <1>4, <2>1 DEF IndInv, Types
<1>8. \A d \in Callers :
        call'[d].at \in {"queue", "wait"} \/ call'[d].slot.by # "nobody" => call'[d] = call[d]
  BY <1>3, <1>4, <1>5
<1>9. EndsInOrder' BY <1>1, <1>3, <1>4, <1>5 DEF IndInv, EndsInOrder
<1>10. IdsAreGiven'
  <2>1. nextId > 0 BY DEF IndInv, Types
  <2> QED BY <1>1, <1>3, <1>4, <1>5, <1>6, <2>1 DEF IndInv, IdsAreGiven
<1>11. c \notin {waiters[i] : i \in DOMAIN waiters}
  BY <1>1 DEF IndInv, FilledIsForgotten, WaitersAreCalls
<1>12. FilledIsForgotten' BY <1>1, <1>3, <1>4 DEF IndInv, FilledIsForgotten
<1>13. PacketsAreOwned' BY <1>1, <1>6 DEF IndInv, PacketsAreOwned
<1>14. AskedOnce' BY <1>1 DEF IndInv, AskedOnce
<1>15. AnswersComeLater'
  <2>1. \A id : Unknown(id) /\ id # 0 => Unknown(id)' BY <1>1, <1>3, <1>4, <1>5 DEF Unknown
  <2>2. \A r \in Asked : r.id # 0
    <3>1. Members(outgoing) \subseteq Requests BY MembersType DEF IndInv, Types
    <3> QED BY <3>1 DEF IndInv, Types, Asked, Requests
  <2>3. \A d \in Callers : call[d].at = "queue" => call[d].id # 0 BY DEF IndInv, IdsAreGiven
  <2> QED BY <1>6, <1>8, <2>1, <2>2, <2>3 DEF IndInv, AnswersComeLater
<1>16. AskedAsMeant' BY <1>6, <1>8 DEF IndInv, AskedAsMeant
<1>17. CloseIsDone'
  <2> SUFFICES ASSUME NEW d \in Callers, call'[d].at = "wait", call'[d].doing = "close",
                      call'[d].slot.id = call'[d].id
                      \/ \E q \in Members(inbound) : q.id = call'[d].id
               PROVE  call'[d].handle \notin handles
    BY <1>1 DEF CloseIsDone
  <2>1. call'[d] = call[d] BY <1>8
  <2> QED BY <2>1 DEF IndInv, CloseIsDone
<1>18. RepliesMatch' BY <1>8 DEF IndInv, RepliesMatch
<1>19. WaitersAreCalls'
  <2>1. \A i \in DOMAIN waiters : waiters[i] \in Callers \ {c} BY <1>11 DEF IndInv, Types
  <2> QED BY <1>1, <1>3, <2>1 DEF IndInv, WaitersAreCalls
<1>20. FoldersAreClosed'
  <2>1. ~closed /\ k.doing = "close" => k.handle \notin handles
    <3>1. ~closed => k.slot.by # "dropped" BY DEF IndInv, EndsInOrder
    <3>2. ~closed => k.slot.id = k.id BY <1>1, <3>1 DEF IndInv, RepliesMatch
    <3> QED BY <1>1, <3>2 DEF IndInv, CloseIsDone
  <2> QED BY <1>1, <1>3, <1>4, <2>1 DEF IndInv, FoldersAreClosed
<1> QED
  BY <1>7, <1>9, <1>10, <1>12, <1>13, <1>14, <1>15, <1>16, <1>17, <1>18, <1>19, <1>20 DEF IndInv

\* A caller registers with a new id.
LEMMA RegisterStep ==
  ASSUME IndInv, NEW c \in Callers, NEW what \in Asks, Register(c, what)
  PROVE  IndInv'
<1> DEFINE k == call[c]
           place == IF ~closed THEN "queue" ELSE "wait"
           slot == IF ~closed THEN Empty ELSE Dropped
           l == [k EXCEPT !.over = FALSE, !.doing = what, !.id = nextId, !.at = place, !.slot = slot]
<1>1. /\ k.at \in {"build", "idle"} /\ nextId' = nextId + 1
      /\ waiters' = IF ~closed THEN With(nextId, c) ELSE waiters
      /\ call' = [call EXCEPT ![c] = l]
      /\ UNCHANGED <<closed, outgoing, reader, writer, atServer, handles, inbound, channel>>
  BY DEF Register, Request, IndInv, Types
<1>2. call \in [Callers -> Calls] /\ k \in Calls /\ nextId \in Nat \ {0} /\ closed \in BOOLEAN
      /\ waiters \in [DOMAIN waiters -> Callers]
  BY DEF IndInv, Types
<1>3. /\ slot \in Replies /\ slot.id = 0 /\ slot.by \in {"nobody", "dropped"}
      /\ slot.by = "dropped" => closed
      /\ place \in {"queue", "wait"} /\ (place = "queue" <=> ~closed)
      /\ ~closed => slot.by = "nobody"
  BY DEF Empty, Dropped, Replies, Bodies
<1>4. /\ l \in Calls /\ l.at = place /\ l.doing = what /\ l.id = nextId /\ l.slot = slot
      /\ l.handle = k.handle /\ l.over = FALSE
  <2> HIDE DEF place, slot, k
  <2> QED BY <1>2, <1>3 DEF Calls
<1>5. call'[c] = l /\ \A d \in Callers \ {c} : call'[d] = call[d]
  <2> HIDE DEF l
  <2> QED BY <1>1, <1>2
<1>6. /\ DOMAIN waiters' = DOMAIN waiters \cup (IF closed THEN {} ELSE {nextId})
      /\ ~closed => waiters'[nextId] = c
      /\ \A i \in DOMAIN waiters : i # nextId => waiters'[i] = waiters[i]
      /\ waiters' \in [DOMAIN waiters' -> Callers]
  BY <1>1, <1>2 DEF With
<1>7. Asked' = Asked BY <1>1 DEF Asked
<1> HIDE DEF l, place, slot
<1>8. \A i \in DOMAIN waiters : i < nextId BY DEF IndInv, IdsAreGiven
<1>9. Types'
  <2>1. call' \in [Callers -> Calls] BY <1>1, <1>2, <1>4
  <2>2. DOMAIN waiters' \subseteq Nat \ {0} BY <1>2, <1>6 DEF IndInv, Types
  <2>3. \A d \in Callers : call'[d].at # "idle" => call'[d].doing # "none"
    BY <1>4, <1>5 DEF IndInv, Types, Asks
  <2> QED BY <1>1, <1>2, <1>6, <2>1, <2>2, <2>3 DEF IndInv, Types
<1>10. EndsInOrder' BY <1>1, <1>3, <1>4, <1>5 DEF IndInv, EndsInOrder
<1>11. IdsAreGiven'
  <2>1. \A d \in Callers : /\ call[d].id < nextId /\ call[d].slot.id < nextId
                           /\ call[d].handle < nextId
                           /\ call[d].id \in Nat /\ call[d].slot.id \in Nat /\ call[d].handle \in Nat
    BY DEF IndInv, IdsAreGiven, Types, Calls, Replies
  <2>2. \A d \in Callers : /\ call'[d].id < nextId' /\ call'[d].slot.id < nextId'
                           /\ call'[d].handle < nextId'
                           /\ call'[d].at \in {"queue", "wait"} => call'[d].id # 0
    BY <1>1, <1>2, <1>3, <1>4, <1>5, <2>1 DEF IndInv, IdsAreGiven
  <2>3. /\ \A r \in Asked : r.id \in Nat /\ r.id < nextId
        /\ \A q \in Members(inbound) : q.id \in Nat /\ q.id < nextId
        /\ \A h \in handles : h \in Nat /\ h < nextId
    <3>1. Members(outgoing) \subseteq Requests /\ Members(inbound) \subseteq Replies
      BY MembersType DEF IndInv, Types
    <3> QED BY <3>1 DEF IndInv, IdsAreGiven, Types, Asked, Requests, Replies
  <2>4. \A i \in DOMAIN waiters' : i < nextId'
    BY <1>1, <1>2, <1>6, <1>8 DEF IndInv, Types
  <2>5. \A d, e \in Callers : call'[d].id = call'[e].id /\ call'[d].id # 0 => d = e
    BY <1>4, <1>5, <2>1, <1>2 DEF IndInv, IdsAreGiven
  <2> QED BY <1>1, <1>2, <1>7, <2>2, <2>3, <2>4, <2>5 DEF IdsAreGiven
<1>12. FilledIsForgotten'
  <2>1. \A d \in Callers \ {c} : call[d].id # nextId BY <1>2 DEF IndInv, IdsAreGiven
  <2>2. nextId \notin DOMAIN waiters BY <1>2, <1>8
  <2> QED BY <1>3, <1>4, <1>5, <1>6, <2>1, <2>2 DEF IndInv, FilledIsForgotten
<1>13. \A r \in Asked : r.id # nextId BY <1>2 DEF IndInv, IdsAreGiven
<1>14. \A q \in Members(inbound) : q.id # nextId BY <1>2 DEF IndInv, IdsAreGiven
<1>15. PacketsAreOwned' BY <1>1, <1>6, <1>7, <1>13, <1>14 DEF IndInv, PacketsAreOwned
<1>16. AskedOnce' BY <1>1 DEF IndInv, AskedOnce
<1>17. AnswersComeLater'
  <2>1. \A id : Unknown(id) /\ id # 0 => Unknown(id)' BY <1>1, <1>3, <1>4, <1>5 DEF Unknown
  <2>2. \A r \in Asked : r.id # 0
    <3>1. Members(outgoing) \subseteq Requests BY MembersType DEF IndInv, Types
    <3> QED BY <3>1 DEF IndInv, Types, Asked, Requests
  <2>3. \A d \in Callers : call[d].at = "queue" => call[d].id # 0 BY DEF IndInv, IdsAreGiven
  <2>4. Unknown(nextId) BY <1>2 DEF Unknown, IndInv, IdsAreGiven
  <2> QED
    BY <1>2, <1>4, <1>5, <1>7, <1>13, <2>1, <2>2, <2>3, <2>4 DEF IndInv, AnswersComeLater
<1>18. AskedAsMeant' BY <1>4, <1>5, <1>7, <1>13 DEF IndInv, AskedAsMeant
<1>19. CloseIsDone' BY <1>1, <1>2, <1>3, <1>4, <1>5, <1>14 DEF IndInv, CloseIsDone
<1>20. RepliesMatch' BY <1>3, <1>4, <1>5 DEF IndInv, RepliesMatch
<1>21. WaitersAreCalls'
  <2>1. \A i \in DOMAIN waiters : waiters[i] \in Callers \ {c}
    BY <1>1, <1>2 DEF IndInv, WaitersAreCalls
  <2>2. \A i \in DOMAIN waiters' :
          call'[waiters'[i]].id = i /\ call'[waiters'[i]].at \in {"queue", "wait"}
    BY <1>2, <1>3, <1>4, <1>5, <1>6, <1>8, <2>1 DEF IndInv, WaitersAreCalls
  <2>3. reader' = "draining" => DOMAIN waiters' = {}
    BY <1>1, <1>6 DEF IndInv, EndsInOrder, WaitersAreCalls
  <2> QED BY <2>2, <2>3 DEF WaitersAreCalls
<1>22. FoldersAreClosed' BY <1>1, <1>3, <1>4, <1>5 DEF IndInv, FoldersAreClosed
<1> QED
  BY <1>9, <1>10, <1>11, <1>12, <1>15, <1>16, <1>17, <1>18, <1>19, <1>20, <1>21, <1>22 DEF IndInv

\* ... and queues the packet, unless the writing task is over.
LEMMA QueueStep == ASSUME IndInv, NEW c \in Callers, Queue(c) PROVE IndInv'
<1> DEFINE k == call[c]
           gone == writer = "over"
           p == [id |-> k.id, by |-> c, doing |-> k.doing, handle |-> k.handle]
           slot == IF gone /\ k.slot.by = "nobody" THEN Dropped ELSE k.slot
           l == [k EXCEPT !.at = "wait", !.slot = slot]
<1>1. /\ k.at = "queue"
      /\ outgoing' = IF gone THEN outgoing ELSE Append(outgoing, p)
      /\ waiters' = IF gone THEN [i \in DOMAIN waiters \ {k.id} |-> waiters[i]] ELSE waiters
      /\ call' = [call EXCEPT ![c] = l]
      /\ UNCHANGED <<nextId, closed, reader, writer, atServer, handles, inbound, channel>>
  BY DEF Queue, Without
<1>2. /\ call \in [Callers -> Calls] /\ k \in Calls /\ k.id \in Nat \ {0} /\ k.doing \in Asks
      /\ k.handle \in Nat /\ k.slot \in Replies
      /\ waiters \in [DOMAIN waiters -> Callers] /\ outgoing \in Seq(Requests)
      /\ gone => closed
  BY <1>1 DEF IndInv, Types, IdsAreGiven, EndsInOrder, Calls
<1>3. /\ Unknown(k.id) /\ \A r \in Asked : r.id # k.id
      /\ k.slot.id # k.id /\ \A q \in Members(inbound) : q.id # k.id
  BY <1>1 DEF IndInv, AnswersComeLater, Unknown
<1>4. /\ slot \in Replies /\ slot.id \in {0, k.slot.id} /\ slot.by \in {"dropped", k.slot.by}
      /\ slot.by = "dropped" => closed \/ k.slot.by = "dropped"
      /\ slot = k.slot \/ gone
      /\ slot.by \notin {"nobody", "dropped"} => slot = k.slot
  BY <1>2 DEF Dropped, Replies, Bodies
<1>5. /\ l \in Calls /\ l.at = "wait" /\ l.slot = slot /\ l.doing = k.doing /\ l.id = k.id
      /\ l.handle = k.handle /\ l.over = k.over
  <2> HIDE DEF slot, k
  <2> QED BY <1>2, <1>4 DEF Calls
<1>6. call'[c] = l /\ \A d \in Callers \ {c} : call'[d] = call[d]
  <2> HIDE DEF l
  <2> QED BY <1>1, <1>2
<1>7. p \in Requests /\ p.id = k.id /\ p.by = c /\ p.doing = k.doing /\ p.handle = k.handle
  BY <1>2 DEF Requests
<1>8. /\ outgoing' \in Seq(Requests)
      /\ Members(outgoing') = Members(outgoing) \cup (IF gone THEN {} ELSE {p})
  <2> HIDE DEF p
  <2> QED BY <1>1, <1>2, <1>7, AppendMembers
<1>9. Asked' = Asked \cup (IF gone THEN {} ELSE {p}) BY <1>1, <1>8 DEF Asked
<1>10. /\ DOMAIN waiters' = DOMAIN waiters \ (IF gone THEN {k.id} ELSE {})
       /\ \A i \in DOMAIN waiters' : waiters'[i] = waiters[i]
       /\ waiters' \in [DOMAIN waiters' -> Callers]
  BY <1>1, <1>2
<1> HIDE DEF slot, l, p
<1>11. Types'
  <2>1. call' \in [Callers -> Calls] BY <1>1, <1>2, <1>5
  <2>2. \A d \in Callers : call'[d].at # "idle" => call'[d].doing # "none"
    BY <1>2, <1>5, <1>6 DEF IndInv, Types, Asks
  <2> QED BY <1>1, <1>8, <1>10, <2>1, <2>2 DEF IndInv, Types
<1>12. EndsInOrder'
  <2>1. \A d \in Callers : call'[d].slot.by = "dropped" => closed
    BY <1>4, <1>5, <1>6 DEF IndInv, EndsInOrder
  <2> QED BY <1>1, <2>1 DEF IndInv, EndsInOrder
<1>13. IdsAreGiven'
  <2>1. nextId > 0 BY DEF IndInv, Types
  <2>2. \A d \in Callers : /\ call'[d].id = call[d].id /\ call'[d].handle = call[d].handle
                           /\ call'[d].slot.id \in {0, call[d].slot.id}
    BY <1>4, <1>5, <1>6
  <2>3. \A d \in Callers : call'[d].at \in {"queue", "wait"} => call'[d].id # 0
    <3>1. call'[c].id # 0 BY <1>2, <1>5, <1>6
    <3> QED BY <1>6, <3>1 DEF IndInv, IdsAreGiven
  <2>4. \A d \in Callers : /\ call'[d].id < nextId /\ call'[d].slot.id < nextId
                           /\ call'[d].handle < nextId
    BY <2>1, <2>2 DEF IndInv, IdsAreGiven
  <2>5. \A r \in Asked' : r.id < nextId
    BY <1>7, <1>9 DEF IndInv, IdsAreGiven
  <2>6. \A d, e \in Callers : call'[d].id = call'[e].id /\ call'[d].id # 0 => d = e
    BY <2>2 DEF IndInv, IdsAreGiven
  <2>7. \A i \in DOMAIN waiters' : i < nextId BY <1>10 DEF IndInv, IdsAreGiven
  <2> QED BY <1>1, <2>3, <2>4, <2>5, <2>6, <2>7 DEF IndInv, IdsAreGiven
<1>14. FilledIsForgotten'
  <2>1. call'[c].slot.by # "nobody" => call'[c].id \notin DOMAIN waiters'
    BY <1>1, <1>4, <1>5, <1>6, <1>10 DEF IndInv, FilledIsForgotten
  <2>2. \A d \in Callers \ {c} : call'[d].at \in {"queue", "wait"} /\ call'[d].slot.by # "nobody"
                                 => call'[d].id \notin DOMAIN waiters'
    BY <1>6, <1>10 DEF IndInv, FilledIsForgotten
  <2> QED BY <2>1, <2>2 DEF FilledIsForgotten
<1>15. PacketsAreOwned'
  <2>1. k.id \in DOMAIN waiters => waiters[k.id] = c
    BY <1>2 DEF IndInv, WaitersAreCalls, IdsAreGiven
  <2> QED BY <1>1, <1>7, <1>9, <1>10, <2>1 DEF IndInv, PacketsAreOwned
<1>16. AskedOnce'
  <2>1. Distinct(outgoing')
    <3>1. Distinct(outgoing) /\ \A m \in Members(outgoing) : m.id # p.id
      BY <1>3, <1>7 DEF IndInv, AskedOnce, Asked
    <3> QED BY <1>1, <1>2, <1>7, <3>1, AppendDistinct
  <2>2. \A s \in atServer : s.id # p.id BY <1>3, <1>7 DEF Asked
  <2> QED BY <1>1, <1>8, <2>1, <2>2 DEF IndInv, AskedOnce
<1>17. AnswersComeLater'
  <2>1. \A id : Unknown(id) /\ id # 0 => Unknown(id)' BY <1>1, <1>4, <1>5, <1>6 DEF Unknown
  <2>2. \A r \in Asked : r.id # 0
    <3>1. Members(outgoing) \subseteq Requests BY MembersType DEF IndInv, Types
    <3> QED BY <3>1 DEF IndInv, Types, Asked, Requests
  <2>3. \A d \in Callers : call[d].at = "queue" => call[d].id # 0 /\ (d # c => call[d].id # k.id)
    BY DEF IndInv, IdsAreGiven
  <2>4. \A r \in Asked' : Unknown(r.id)'
    BY <1>2, <1>3, <1>7, <1>9, <2>1, <2>2 DEF IndInv, AnswersComeLater
  <2>5. \A d \in Callers : call'[d].at = "queue" =>
          d # c /\ call'[d] = call[d]
    BY <1>5, <1>6
  <2>6. \A d \in Callers : call'[d].at = "queue" => \A r \in Asked' : r.id # call'[d].id
    BY <1>7, <1>9, <2>3, <2>5 DEF IndInv, AnswersComeLater
  <2>7. \A d \in Callers : call[d].at = "queue" => Unknown(call[d].id) /\ call[d].id # 0
    BY <2>3 DEF IndInv, AnswersComeLater
  <2> QED BY <2>1, <2>4, <2>5, <2>6, <2>7 DEF AnswersComeLater
<1>18. AskedAsMeant'
  <2> SUFFICES ASSUME NEW r \in Asked', NEW d \in Callers, call'[d].at = "wait", call'[d].id = r.id
               PROVE  r.doing = call'[d].doing /\ r.handle = call'[d].handle
    BY DEF AskedAsMeant
  <2>1. CASE d = c
    <3>1. r = p BY <1>3, <1>5, <1>6, <1>9, <2>1
    <3> QED BY <1>5, <1>6, <1>7, <2>1, <3>1
  <2>2. CASE d # c
    <3>1. call'[d] = call[d] /\ call[d].id # k.id
      BY <1>2, <1>6, <2>2 DEF IndInv, IdsAreGiven
    <3>2. r \in Asked BY <1>7, <1>9, <3>1
    <3> QED BY <3>1, <3>2 DEF IndInv, AskedAsMeant
  <2> QED BY <2>1, <2>2
<1>19. CloseIsDone'
  <2> SUFFICES ASSUME NEW d \in Callers, call'[d].at = "wait", call'[d].doing = "close",
                      call'[d].slot.id = call'[d].id
                      \/ \E q \in Members(inbound) : q.id = call'[d].id
               PROVE  call'[d].handle \notin handles
    BY <1>1 DEF CloseIsDone
  <2>1. d # c BY <1>2, <1>3, <1>4, <1>5, <1>6
  <2>2. call'[d] = call[d] BY <1>6, <2>1
  <2> QED BY <2>2 DEF IndInv, CloseIsDone
<1>20. RepliesMatch' BY <1>4, <1>5, <1>6 DEF IndInv, RepliesMatch
<1>21. WaitersAreCalls'
  <2>1. \A i \in DOMAIN waiters' :
          call'[waiters'[i]].id = i /\ call'[waiters'[i]].at \in {"queue", "wait"}
    BY <1>2, <1>5, <1>6, <1>10 DEF IndInv, WaitersAreCalls
  <2>2. reader' = "draining" => DOMAIN waiters' = {}
    BY <1>1, <1>10 DEF IndInv, WaitersAreCalls
  <2> QED BY <2>1, <2>2 DEF WaitersAreCalls
<1>22. FoldersAreClosed' BY <1>1, <1>5, <1>6 DEF IndInv, FoldersAreClosed
<1> QED
  BY <1>11, <1>12, <1>13, <1>14, <1>15, <1>16, <1>17, <1>18, <1>19, <1>20, <1>21, <1>22 DEF IndInv
-----------------------------------------------------------------------------
\* Every step keeps the invariant.
LEMMA NextInd == IndInv /\ [Next]_vars => IndInv'
<1> SUFFICES ASSUME IndInv, [Next]_vars PROVE IndInv' OBVIOUS
<1>1. CASE \E c \in Callers :
             \/ \E what \in {"stat", "opendir", "readdir", "close"} : Register(c, what)
             \/ Queue(c) \/ Poll(c) \/ Abandon(c)
  BY <1>1, RegisterStep, QueueStep, PollStep, AbandonStep DEF Asks
<1>2. CASE DropClient BY <1>2, ClearingSteps
<1>3. CASE Writing BY <1>3, WritingSteps, ClearingSteps DEF Writing
<1>4. CASE Reading BY <1>4, ReadingSteps, ClearingSteps, ReceiveStep DEF Reading
<1>5. CASE Answer BY <1>5, ServeStep DEF Answer
<1>6. CASE BreakFraming \/ ServerCloses \/ Lose BY <1>6, ChannelSteps
<1>7. CASE UNCHANGED vars
  <2>1. UNCHANGED <<nextId, waiters, closed, call, outgoing, reader, writer, atServer, handles, inbound>>
    BY <1>7 DEF vars
  <2>2. Types' /\ EndsInOrder' /\ AskedOnce' BY <2>1 DEF IndInv, Types, EndsInOrder, AskedOnce
  <2>3. Asked' = Asked BY <2>1 DEF Asked
  <2> QED BY <2>1, <2>2, <2>3, NothingNew
<1> QED BY <1>1, <1>2, <1>3, <1>4, <1>5, <1>6, <1>7 DEF Next

\* The inductive invariant holds in every reachable state.
THEOREM Inductive == Spec => []IndInv
<1>1. Init => IndInv BY InitInd
<1>2. IndInv /\ [Next]_vars => IndInv' BY NextInd
<1> QED BY <1>1, <1>2, PTL DEF Spec

\* A caller gets the answer to what it asked, whatever order answers come in,
\* however many requests are given up and whichever side ends the session.
THEOREM RepliesReachTheirCallers == Spec => []RepliesMatch
<1>1. IndInv => RepliesMatch BY DEF IndInv
<1> QED BY <1>1, Inductive, PTL

\* An ended or abandoned request leaves nobody in the table of waiters, and
\* the end of the session leaves nobody at all.
THEOREM NobodyIsLeftWaiting == Spec => []WaitersAreCalls
<1>1. IndInv => WaitersAreCalls BY DEF IndInv
<1> QED BY <1>1, Inductive, PTL

\* A folder that was listed, well or not, is closed on a server that goes on.
THEOREM ListedFoldersAreClosed == Spec => []FoldersAreClosed
<1>1. IndInv => FoldersAreClosed BY DEF IndInv
<1> QED BY <1>1, Inductive, PTL

-----------------------------------------------------------------------------
(* Attributes on the wire.                                                 *)

\* Nothing is in a list twice.
NoTwice(s) == \A i, j \in 1 .. Len(s) : s[i] = s[j] => i = j

\* Two lists that have nothing in common, one after the other.
LEMMA Joined ==
  ASSUME NEW S, NEW s \in Seq(S), NEW t \in Seq(S), NoTwice(s), NoTwice(t),
         Members(s) \cap Members(t) = {}
  PROVE  /\ s \o t \in Seq(S) /\ NoTwice(s \o t)
         /\ Members(s \o t) = Members(s) \cup Members(t)
<1>1. /\ s \o t \in Seq(S) /\ Len(s) \in Nat /\ Len(t) \in Nat /\ Len(s \o t) = Len(s) + Len(t)
      /\ \A i \in 1 .. Len(s) + Len(t) :
           (s \o t)[i] = IF i <= Len(s) THEN s[i] ELSE t[i - Len(s)]
  BY ConcatProperties, LenProperties
<1> DEFINE r == s \o t
<1>2. \A i \in 1 .. Len(s) : i \in 1 .. Len(r) /\ r[i] = s[i]
  BY <1>1
<1>3. \A i \in 1 .. Len(t) : i + Len(s) \in 1 .. Len(r) /\ r[i + Len(s)] = t[i]
  <2>1. ASSUME NEW i \in 1 .. Len(t) PROVE i + Len(s) \in 1 .. Len(r) /\ r[i + Len(s)] = t[i]
    <3>1. i + Len(s) \in 1 .. Len(s) + Len(t) /\ ~(i + Len(s) <= Len(s)) /\ i + Len(s) - Len(s) = i
      BY <1>1
    <3> QED BY <1>1, <3>1
  <2> QED BY <2>1
<1>4. \A i \in 1 .. Len(r) : \/ i \in 1 .. Len(s) /\ r[i] = s[i]
                             \/ i - Len(s) \in 1 .. Len(t) /\ r[i] = t[i - Len(s)]
                                /\ i = i - Len(s) + Len(s)
  BY <1>1
<1> HIDE DEF r
<1>5. Members(r) = Members(s) \cup Members(t)
  <2>1. ASSUME NEW f \in Members(r) PROVE f \in Members(s) \cup Members(t)
    <3>1. PICK i \in 1 .. Len(r) : f = r[i]
      BY DEF Members
    <3> QED BY <1>4, <3>1 DEF Members
  <2>2. ASSUME NEW f \in Members(s) PROVE f \in Members(r)
    BY <1>2 DEF Members
  <2>3. ASSUME NEW f \in Members(t) PROVE f \in Members(r)
    BY <1>3 DEF Members
  <2> QED BY <2>1, <2>2, <2>3
<1>6. ASSUME NEW i \in 1 .. Len(r), NEW k \in 1 .. Len(r), r[i] = r[k] PROVE i = k
  <2>1. CASE i \in 1 .. Len(s) /\ r[i] = s[i]
    <3>1. r[k] \notin Members(t)
      BY <1>6, <2>1 DEF Members
    <3> QED BY <1>4, <1>6, <2>1, <3>1 DEF NoTwice, Members
  <2>2. CASE i - Len(s) \in 1 .. Len(t) /\ r[i] = t[i - Len(s)] /\ i = i - Len(s) + Len(s)
    <3>1. r[k] \notin Members(s)
      BY <1>6, <2>2 DEF Members
    <3>2. k - Len(s) \in 1 .. Len(t) /\ r[k] = t[k - Len(s)] /\ k = k - Len(s) + Len(s)
      BY <1>4, <3>1 DEF Members
    <3>3. i - Len(s) = k - Len(s)
      BY <1>6, <2>2, <3>2 DEF NoTwice
    <3> QED BY <2>2, <3>2, <3>3
  <2> QED BY <1>4, <2>1, <2>2
<1> QED BY <1>1, <1>5, <1>6 DEF NoTwice, r

\* Lists of up to two.
LEMMA ShortLists ==
  ASSUME NEW S
  PROVE  /\ <<>> \in Seq(S) /\ NoTwice(<<>>) /\ Members(<<>>) = {}
         /\ \A f \in S : <<f>> \in Seq(S) /\ NoTwice(<<f>>) /\ Members(<<f>>) = {f}
         /\ \A f, g \in S : f # g => /\ <<f, g>> \in Seq(S) /\ NoTwice(<<f, g>>)
                                     /\ Members(<<f, g>>) = {f, g}
<1>1. <<>> \in Seq(S) /\ NoTwice(<<>>) /\ Members(<<>>) = {}
  BY DEF NoTwice, Members
<1>2. ASSUME NEW f \in S PROVE <<f>> \in Seq(S) /\ NoTwice(<<f>>) /\ Members(<<f>>) = {f}
  <2>1. <<f>> \in Seq(S) /\ Len(<<f>>) = 1 /\ <<f>>[1] = f
    OBVIOUS
  <2> QED BY <2>1 DEF NoTwice, Members
<1>3. ASSUME NEW f \in S, NEW g \in S, f # g
      PROVE  <<f, g>> \in Seq(S) /\ NoTwice(<<f, g>>) /\ Members(<<f, g>>) = {f, g}
  <2>1. <<f, g>> \in Seq(S) /\ Len(<<f, g>>) = 2 /\ <<f, g>>[1] = f /\ <<f, g>>[2] = g
    OBVIOUS
  <2>2. \A i \in 1 .. 2 : i = 1 \/ i = 2
    OBVIOUS
  <2> QED BY <1>3, <2>1, <2>2 DEF NoTwice, Members
<1> QED BY <1>1, <1>2, <1>3

\* The fields behind the flags: each once, and those the flags say.
LEMMA FieldsAre ==
  ASSUME NEW flags
  PROVE  /\ FieldsOf(flags) \in Seq(AttrFields) /\ NoTwice(FieldsOf(flags))
         /\ \A f : f \in Members(FieldsOf(flags)) <=>
              \/ "SIZE" \in flags /\ f = "size"
              \/ "UIDGID" \in flags /\ f \in {"uid", "gid"}
              \/ "PERMISSIONS" \in flags /\ f = "permissions"
              \/ "ACMODTIME" \in flags /\ f \in {"atime", "mtime"}
<1> DEFINE If(flag) == IF flag \in flags THEN Field(flag) ELSE <<>>
<1>1. /\ If("SIZE") \in Seq(AttrFields) /\ NoTwice(If("SIZE"))
      /\ \A f : f \in Members(If("SIZE")) <=> "SIZE" \in flags /\ f = "size"
  <2> DEFINE list == <<"size">>
  <2>1. list \in Seq(AttrFields) /\ NoTwice(list) /\ Members(list) = {"size"}
    BY ShortLists DEF AttrFields
  <2>2. Field("SIZE") = list
    BY DEF Field
  <2> HIDE DEF list
  <2>3. CASE "SIZE" \in flags
    BY <2>1, <2>2, <2>3
  <2>4. CASE "SIZE" \notin flags
    BY <2>4, ShortLists
  <2> QED BY <2>3, <2>4
<1>2. /\ If("UIDGID") \in Seq(AttrFields) /\ NoTwice(If("UIDGID"))
      /\ \A f : f \in Members(If("UIDGID")) <=> "UIDGID" \in flags /\ f \in {"uid", "gid"}
  <2> DEFINE list == <<"uid", "gid">>
  <2>0. "uid" \in AttrFields /\ "gid" \in AttrFields /\ "uid" # "gid"
    BY DEF AttrFields
  <2>1. list \in Seq(AttrFields) /\ NoTwice(list) /\ Members(list) = {"uid", "gid"}
    BY <2>0, ShortLists
  <2>2. Field("UIDGID") = list
    BY DEF Field
  <2> HIDE DEF list
  <2>3. CASE "UIDGID" \in flags
    BY <2>1, <2>2, <2>3
  <2>4. CASE "UIDGID" \notin flags
    BY <2>4, ShortLists
  <2> QED BY <2>3, <2>4
<1>3. /\ If("PERMISSIONS") \in Seq(AttrFields) /\ NoTwice(If("PERMISSIONS"))
      /\ \A f : f \in Members(If("PERMISSIONS")) <=> "PERMISSIONS" \in flags /\ f = "permissions"
  <2> DEFINE list == <<"permissions">>
  <2>1. list \in Seq(AttrFields) /\ NoTwice(list) /\ Members(list) = {"permissions"}
    BY ShortLists DEF AttrFields
  <2>2. Field("PERMISSIONS") = list
    BY DEF Field
  <2> HIDE DEF list
  <2>3. CASE "PERMISSIONS" \in flags
    BY <2>1, <2>2, <2>3
  <2>4. CASE "PERMISSIONS" \notin flags
    BY <2>4, ShortLists
  <2> QED BY <2>3, <2>4
<1>4. /\ If("ACMODTIME") \in Seq(AttrFields) /\ NoTwice(If("ACMODTIME"))
      /\ \A f : f \in Members(If("ACMODTIME")) <=> "ACMODTIME" \in flags /\ f \in {"atime", "mtime"}
  <2> DEFINE list == <<"atime", "mtime">>
  <2>0. "atime" \in AttrFields /\ "mtime" \in AttrFields /\ "atime" # "mtime"
    BY DEF AttrFields
  <2>1. list \in Seq(AttrFields) /\ NoTwice(list) /\ Members(list) = {"atime", "mtime"}
    BY <2>0, ShortLists
  <2>2. Field("ACMODTIME") = list
    BY DEF Field
  <2> HIDE DEF list
  <2>3. CASE "ACMODTIME" \in flags
    BY <2>1, <2>2, <2>3
  <2>4. CASE "ACMODTIME" \notin flags
    BY <2>4, ShortLists
  <2> QED BY <2>3, <2>4
<1>5. FieldsOf(flags) = If("SIZE") \o If("UIDGID") \o If("PERMISSIONS") \o If("ACMODTIME")
  BY DEF FieldsOf
<1> DEFINE a == If("SIZE")
           b == If("UIDGID")
           c == If("PERMISSIONS")
           d == If("ACMODTIME")
<1> HIDE DEF a, b, c, d
<1>6. /\ a \o b \in Seq(AttrFields) /\ NoTwice(a \o b)
      /\ Members(a \o b) = Members(a) \cup Members(b)
  <2>1. Members(a) \cap Members(b) = {}
    BY <1>1, <1>2 DEF a, b
  <2> QED BY <1>1, <1>2, <2>1, Joined DEF a, b
<1>7. /\ a \o b \o c \in Seq(AttrFields) /\ NoTwice(a \o b \o c)
      /\ Members(a \o b \o c) = Members(a) \cup Members(b) \cup Members(c)
  <2>1. Members(a \o b) \cap Members(c) = {}
    BY <1>1, <1>2, <1>3, <1>6 DEF a, b, c
  <2>2. c \in Seq(AttrFields) /\ NoTwice(c)
    BY <1>3 DEF c
  <2> DEFINE ab == a \o b
  <2>4. ab \in Seq(AttrFields) /\ NoTwice(ab)
    BY <1>6
  <2>5. Members(ab) \cap Members(c) = {}
    BY <2>1
  <2> HIDE DEF ab
  <2>3. Members(ab \o c) = Members(ab) \cup Members(c) /\ ab \o c \in Seq(AttrFields) /\ NoTwice(ab \o c)
    BY <2>2, <2>4, <2>5, Joined
  <2> QED BY <1>6, <2>3 DEF ab
<1>8. /\ a \o b \o c \o d \in Seq(AttrFields) /\ NoTwice(a \o b \o c \o d)
      /\ Members(a \o b \o c \o d) = Members(a) \cup Members(b) \cup Members(c) \cup Members(d)
  <2>1. Members(a \o b \o c) \cap Members(d) = {}
    BY <1>1, <1>2, <1>3, <1>4, <1>7 DEF a, b, c, d
  <2>2. d \in Seq(AttrFields) /\ NoTwice(d)
    BY <1>4 DEF d
  <2> DEFINE abc == a \o b \o c
  <2>4. abc \in Seq(AttrFields) /\ NoTwice(abc)
    BY <1>7
  <2>5. Members(abc) \cap Members(d) = {}
    BY <2>1
  <2> HIDE DEF abc
  <2>3. Members(abc \o d) = Members(abc) \cup Members(d) /\ abc \o d \in Seq(AttrFields) /\ NoTwice(abc \o d)
    BY <2>2, <2>4, <2>5, Joined
  <2> QED BY <1>7, <2>3 DEF abc
<1>9. \A f : f \in Members(a) \cup Members(b) \cup Members(c) \cup Members(d) <=>
              \/ "SIZE" \in flags /\ f = "size"
              \/ "UIDGID" \in flags /\ f \in {"uid", "gid"}
              \/ "PERMISSIONS" \in flags /\ f = "permissions"
              \/ "ACMODTIME" \in flags /\ f \in {"atime", "mtime"}
  BY <1>1, <1>2, <1>3, <1>4 DEF a, b, c, d
<1> HIDE DEF If
<1>10. FieldsOf(flags) = a \o b \o c \o d
  BY <1>5 DEF a, b, c, d
<1> QED BY <1>8, <1>9, <1>10

\* What is sent: an owner only with a group, and both times or neither.
LEMMA SentIs ==
  ASSUME NEW V, NEW a \in [AttrFields -> V]
  PROVE  LET b == Sendable(a) IN
         /\ DOMAIN b = AttrFields /\ b = [f \in AttrFields |-> b[f]]
         /\ "EXTENDED" \notin FlagsOf(b)
         /\ \A f \in AttrFields : f \in Members(FieldsOf(FlagsOf(b))) <=> b[f] # None
         /\ \A f \in AttrFields \ {"uid", "gid"} : a[f] # None => b[f] = a[f]
<1> DEFINE b == Sendable(a)
<1>1. /\ DOMAIN b = AttrFields /\ b = [f \in AttrFields |-> b[f]]
      /\ b["size"] = a["size"] /\ b["permissions"] = a["permissions"]
      /\ b["uid"] = IF a["gid"] = None THEN None ELSE a["uid"]
      /\ b["gid"] = IF a["uid"] = None THEN None ELSE a["gid"]
      /\ b["atime"] = IF a["atime"] = None THEN a["mtime"] ELSE a["atime"]
      /\ b["mtime"] = IF a["mtime"] = None THEN a["atime"] ELSE a["mtime"]
  BY DEF Sendable, AttrFields
<1> HIDE DEF b
<1>2. /\ "EXTENDED" \notin FlagsOf(b)
      /\ "SIZE" \in FlagsOf(b) <=> b["size"] # None
      /\ "PERMISSIONS" \in FlagsOf(b) <=> b["permissions"] # None
      /\ "UIDGID" \in FlagsOf(b) <=> b["uid"] # None \/ b["gid"] # None
      /\ "ACMODTIME" \in FlagsOf(b) <=> b["atime"] # None \/ b["mtime"] # None
  BY DEF FlagsOf, Field
<1>3. \A f \in AttrFields : f \in Members(FieldsOf(FlagsOf(b))) <=> b[f] # None
  BY <1>1, <1>2, FieldsAre DEF AttrFields
<1>4. \A f \in AttrFields \ {"uid", "gid"} : a[f] # None => b[f] = a[f]
  BY <1>1 DEF AttrFields
<1> QED BY <1>1, <1>2, <1>3, <1>4 DEF b

\* What follows, and what came before.
LEMMA Followed ==
  ASSUME NEW S, NEW s \in Seq(S), NEW t \in Seq(S)
  PROVE  /\ SubSeq(s \o t, Len(s) + 1, Len(s \o t)) = t
         /\ Len(s \o t) = Len(s) + Len(t) /\ Len(s) \in Nat /\ Len(t) \in Nat
         /\ s \o t \in Seq(S) /\ \A i \in 1 .. Len(s) : (s \o t)[i] = s[i]
<1>1. /\ s \o t \in Seq(S) /\ Len(s) \in Nat /\ Len(t) \in Nat /\ Len(s \o t) = Len(s) + Len(t)
      /\ \A i \in 1 .. Len(s) + Len(t) :
           (s \o t)[i] = IF i <= Len(s) THEN s[i] ELSE t[i - Len(s)]
  BY ConcatProperties, LenProperties
<1> DEFINE r == s \o t
           u == SubSeq(r, Len(s) + 1, Len(r))
<1>2. \A i \in Len(s) + 1 .. Len(r) : r[i] \in S
  BY <1>1, ElementOfSeq
<1>3. /\ u \in Seq(S) /\ Len(u) = IF Len(s) + 1 <= Len(r) THEN Len(r) - (Len(s) + 1) + 1 ELSE 0
      /\ \A i \in 1 .. Len(r) - (Len(s) + 1) + 1 : u[i] = r[Len(s) + 1 + i - 1]
  BY <1>1, <1>2, SubSeqProperties
<1>4. \A i \in 1 .. Len(t) : r[Len(s) + i] = t[i]
  <2>1. ASSUME NEW i \in 1 .. Len(t) PROVE r[Len(s) + i] = t[i]
    <3>1. Len(s) + i \in 1 .. Len(s) + Len(t) /\ ~(Len(s) + i <= Len(s)) /\ Len(s) + i - Len(s) = i
      BY <1>1
    <3> QED BY <1>1, <3>1
  <2> QED BY <2>1
<1> HIDE DEF u, r
<1>5. Len(r) = Len(s) + Len(t)
  BY <1>1 DEF r
<1>6. Len(u) = Len(t)
  BY <1>1, <1>3, <1>5
<1>7. \A i \in 1 .. Len(t) : u[i] = t[i]
  <2>1. ASSUME NEW i \in 1 .. Len(t) PROVE u[i] = t[i]
    <3>1. i \in 1 .. Len(r) - (Len(s) + 1) + 1 /\ Len(s) + 1 + i - 1 = Len(s) + i
      BY <1>1, <1>5
    <3> QED BY <1>3, <1>4, <3>1
  <2> QED BY <2>1
<1>8. u = t
  BY <1>3, <1>6, <1>7, SeqEqual
<1>9. \A i \in 1 .. Len(s) : r[i] = s[i]
  BY <1>1 DEF r
<1> QED BY <1>1, <1>8, <1>9 DEF u, r

\* The packet begins with the flags and fields of the attributes b, and as many words more.
Holds(words, b, extra) ==
  LET fields == FieldsOf(Head(words)) IN
  /\ words # <<>> /\ Len(words) >= Len(fields) + 1 + extra
  /\ b = [f \in AttrFields |-> b[f]]
  /\ \A f \in AttrFields : f \in Members(fields) <=> b[f] # None
  /\ \A i \in 1 .. Len(fields) : words[1 + i] = b[fields[i]]
  /\ IF "EXTENDED" \in Head(words)
     THEN extra = 1 + 2 * words[Len(fields) + 2] /\ extra > 0 ELSE extra = 0

\* A packet that is all there.
LEMMA ReadWhole ==
  ASSUME NEW W, NEW words \in Seq(W), NEW b, NEW extra \in Nat, Holds(words, b, extra)
  PROVE  Decoded(words) =
           [ok |-> TRUE, attrs |-> b,
            rest |-> SubSeq(words, Len(FieldsOf(Head(words))) + 1 + extra + 1, Len(words))]
<1> DEFINE fields == FieldsOf(Head(words))
           after == Len(fields) + 1
           more == IF "EXTENDED" \notin Head(words) THEN 0
                   ELSE IF Len(words) > after THEN 1 + 2 * words[after + 1] ELSE 1
           attrs == [f \in AttrFields |->
                       IF f \in ToSet(fields)
                       THEN words[1 + CHOOSE i \in DOMAIN fields : fields[i] = f] ELSE None]
<1>1. /\ fields \in Seq(AttrFields) /\ NoTwice(fields) /\ Len(fields) \in Nat /\ Len(words) \in Nat
      /\ DOMAIN fields = 1 .. Len(fields)
  BY FieldsAre, LenProperties
<1>2. Decoded(words) = IF words = <<>> \/ Len(words) < after + more THEN Truncated
                       ELSE [ok |-> TRUE, attrs |-> attrs,
                             rest |-> SubSeq(words, after + more + 1, Len(words))]
  BY DEF Decoded
<1>3. /\ words # <<>> /\ Len(words) >= after + extra /\ b = [f \in AttrFields |-> b[f]]
      /\ \A f \in AttrFields : f \in Members(fields) <=> b[f] # None
      /\ \A i \in 1 .. Len(fields) : words[1 + i] = b[fields[i]]
      /\ IF "EXTENDED" \in Head(words)
         THEN extra = 1 + 2 * words[Len(fields) + 2] /\ extra > 0 ELSE extra = 0
  BY DEF Holds
<1> HIDE DEF fields
<1>4. ASSUME NEW f \in AttrFields
      PROVE  (IF f \in ToSet(fields) THEN words[1 + CHOOSE i \in DOMAIN fields : fields[i] = f]
              ELSE None) = b[f]
  <2>1. f \in ToSet(fields) <=> f \in Members(fields)
    BY <1>1 DEF ToSet, Members
  <2>2. CASE f \in ToSet(fields)
    <3> DEFINE i == CHOOSE i \in DOMAIN fields : fields[i] = f
    <3>1. i \in DOMAIN fields /\ fields[i] = f
      BY <2>2 DEF ToSet
    <3> HIDE DEF i
    <3>2. words[1 + i] = b[f]
      BY <1>1, <1>3, <3>1
    <3> QED BY <2>2, <3>2 DEF i
  <2>3. CASE f \notin ToSet(fields)
    BY <1>3, <2>1, <2>3
  <2> QED BY <2>2, <2>3
<1>5. Len(fields) + 2 = after + 1
  BY <1>1
<1>6. more = extra
  BY <1>1, <1>5, <1>3
<1>7. attrs = b
  BY <1>4, <1>3
<1>8. ~(Len(words) < after + more)
  BY <1>1, <1>6, <1>3
<1> HIDE DEF more, attrs
<1> QED BY <1>2, <1>3, <1>6, <1>7, <1>8 DEF fields

\* A packet that is not.
LEMMA ReadShort ==
  ASSUME NEW W, NEW words \in Seq(W), NEW n \in 0 .. Len(words), NEW flags, words[1] = flags,
         NEW extra \in Nat, n < Len(FieldsOf(flags)) + 1 + extra,
         IF "EXTENDED" \in flags
         THEN extra = 1 + 2 * words[Len(FieldsOf(flags)) + 2] /\ extra > 0 ELSE extra = 0
  PROVE  ~Decoded(SubSeq(words, 1, n)).ok
<1> DEFINE cut == SubSeq(words, 1, n)
           fields == FieldsOf(flags)
           after == Len(fields) + 1
<1>1. Len(words) \in Nat /\ \A i \in 1 .. n : words[i] \in W
  BY LenProperties, ElementOfSeq
<1>2. cut \in Seq(W) /\ Len(cut) = n /\ \A i \in 1 .. n : cut[i] = words[i]
  <2>1. /\ cut \in Seq(W) /\ Len(cut) = IF 1 <= n THEN n - 1 + 1 ELSE 0
        /\ \A i \in 1 .. n - 1 + 1 : cut[i] = words[1 + i - 1]
    BY <1>1, SubSeqProperties
  <2> QED BY <2>1
<1>3. Len(fields) \in Nat
  BY FieldsAre, LenProperties
<1> HIDE DEF cut, fields
<1>4. CASE n = 0
  <2>1. cut = <<>>
    BY <1>2, <1>4, EmptySeq
  <2> QED BY <2>1 DEF Decoded, Truncated, cut
<1>5. CASE n # 0
  <2>1. cut # <<>> /\ Head(cut) = flags
    BY <1>2, <1>5, EmptySeq
  <2> DEFINE more == IF "EXTENDED" \notin flags THEN 0
                     ELSE IF Len(cut) > after THEN 1 + 2 * cut[after + 1] ELSE 1
  <2>2. Len(cut) < after + more
    <3>1. CASE "EXTENDED" \notin flags
      BY <1>2, <1>3, <3>1 DEF fields
    <3>2. CASE "EXTENDED" \in flags /\ n > after
      <4>1. cut[after + 1] = words[Len(fields) + 2] /\ after + 1 = Len(fields) + 2
        BY <1>2, <1>3, <3>2
      <4>2. more = extra
        BY <1>2, <3>2, <4>1 DEF fields
      <4> QED BY <1>2, <1>3, <4>2 DEF fields
    <3>3. CASE "EXTENDED" \in flags /\ ~(n > after)
      BY <1>2, <1>3, <3>3
    <3> QED BY <3>1, <3>2, <3>3
  <2>3. Decoded(cut) = Truncated
    <3> HIDE DEF more
    <3>1. ~(cut = <<>>) /\ Len(cut) < after + more
      BY <2>1, <2>2
    <3> QED BY <2>1, <3>1 DEF Decoded, fields, more
  <2> QED BY <2>3 DEF Truncated, cut
<1> QED BY <1>4, <1>5

\* One word, and what follows it.
LEMMA Led ==
  ASSUME NEW S, NEW s \in Seq(S), NEW e \in S
  PROVE  /\ <<e>> \o s \in Seq(S) /\ Len(<<e>> \o s) = 1 + Len(s) /\ Len(s) \in Nat
         /\ (<<e>> \o s)[1] = e /\ \A i \in 1 .. Len(s) : (<<e>> \o s)[1 + i] = s[i]
         /\ <<e>> \o s # <<>> /\ Head(<<e>> \o s) = e /\ Tail(<<e>> \o s) = s
<1> DEFINE r == <<e>> \o s
<1>0. <<e>> \in Seq(S) /\ Len(<<e>>) = 1 /\ <<e>>[1] = e
  OBVIOUS
<1>1. /\ r \in Seq(S) /\ Len(s) \in Nat /\ Len(r) = 1 + Len(s)
      /\ \A i \in 1 .. 1 + Len(s) : r[i] = IF i <= 1 THEN <<e>>[i] ELSE s[i - 1]
  BY <1>0, ConcatProperties, LenProperties
<1> HIDE DEF r
<1>2. r[1] = e
  BY <1>0, <1>1
<1>3. ASSUME NEW i \in 1 .. Len(s) PROVE r[1 + i] = s[i]
  <2>1. 1 + i \in 1 .. 1 + Len(s) /\ ~(1 + i <= 1) /\ 1 + i - 1 = i
    BY <1>1
  <2> QED BY <1>1, <2>1
<1>4. r # <<>> /\ Head(r) = e
  BY <1>1, <1>2, EmptySeq
<1>5. Tail(r) \in Seq(S) /\ Len(Tail(r)) = Len(s) /\ \A i \in 1 .. Len(s) : Tail(r)[i] = r[i + 1]
  BY <1>1, <1>4, HeadTailProperties
<1>6. Tail(r) = s
  <2>1. \A i \in 1 .. Len(s) : Tail(r)[i] = s[i]
    BY <1>1, <1>3, <1>5
  <2> QED BY <1>5, <2>1, SeqEqual
<1> QED BY <1>1, <1>2, <1>3, <1>4, <1>6 DEF r

\* Attributes, whatever their values, are read from a packet as they were written, whatever
\* follows them and however many extensions there are, and a packet that is cut short is
\* refused (Encoder::attrs, Decoder::attrs).
THEOREM AttributesSurvive ==
  ASSUME NEW V, NEW a \in [AttrFields -> V], NEW R, NEW rest \in Seq(R), NEW extensions \in Nat
  PROVE  AttrsSurvive(a, rest, extensions)
<1> DEFINE b == Sendable(a)
           flags == FlagsOf(b)
           fields == FieldsOf(flags)
           values == [i \in DOMAIN fields |-> b[fields[i]]]
           sent == <<flags>> \o values
           shown == IF extensions = 0 THEN flags ELSE flags \cup {"EXTENDED"}
           extra == IF extensions = 0 THEN 0 ELSE 1 + 2 * extensions
           data == [i \in 1 .. 2 * extensions |-> "extra"]
           begin == IF extensions = 0 THEN sent
                    ELSE <<flags \cup {"EXTENDED"}>> \o values \o <<extensions>> \o data
           packet == begin \o rest
           W == {flags, shown, extensions, "extra"} \cup {b[f] : f \in AttrFields} \cup R
<1>1. /\ DOMAIN b = AttrFields /\ b = [f \in AttrFields |-> b[f]] /\ "EXTENDED" \notin flags
      /\ \A f \in AttrFields : f \in Members(fields) <=> b[f] # None
      /\ \A f \in AttrFields \ {"uid", "gid"} : a[f] # None => b[f] = a[f]
  BY SentIs
<1>2. fields \in Seq(AttrFields) /\ Len(fields) \in Nat /\ DOMAIN fields = 1 .. Len(fields)
  BY FieldsAre, LenProperties
<1>3. FieldsOf(shown) = fields
  BY DEF FieldsOf
<1>4. Encoded(a) = sent
  BY DEF Encoded
<1>5. AttrsSurvive(a, rest, extensions) <=>
        LET whole == IF extensions = 0 THEN sent \o rest
                     ELSE <<Head(sent) \cup {"EXTENDED"}>> \o Tail(sent)
                          \o <<extensions>> \o data \o rest
        IN /\ Decoded(whole) = [ok |-> TRUE, attrs |-> b, rest |-> rest]
           /\ \A n \in 0 .. Len(whole) - Len(rest) - 1 : ~Decoded(SubSeq(whole, 1, n)).ok
           /\ \A f \in AttrFields \ {"uid", "gid"} : a[f] # None => b[f] = a[f]
  BY <1>4 DEF AttrsSurvive
<1> HIDE DEF b, flags, fields
<1>6. /\ values \in Seq(W) /\ Len(values) = Len(fields)
      /\ \A i \in 1 .. Len(fields) : values[i] = b[fields[i]]
  <2>1. \A i \in 1 .. Len(fields) : fields[i] \in AttrFields
    BY <1>2, ElementOfSeq
  <2>2. values \in [1 .. Len(fields) -> W]
    BY <1>2, <2>1
  <2> QED BY <1>2, <2>2, SeqDef
<1>7. rest \in Seq(W)
  BY SeqMonotonic
<1>8. data \in Seq(W) /\ Len(data) = 2 * extensions
  <2>1. data \in [1 .. 2 * extensions -> W] /\ 2 * extensions \in Nat
    OBVIOUS
  <2> QED BY <2>1, SeqDef
<1>9. extensions \in W /\ flags \in W /\ shown \in W
  OBVIOUS
<1> HIDE DEF values, data, W
<1>10. Head(sent) = flags /\ Tail(sent) = values
  BY <1>6, <1>9, Led
<1>11. /\ begin \in Seq(W) /\ Len(begin) = 1 + Len(fields) + extra /\ begin[1] = shown
       /\ \A i \in 1 .. Len(fields) : begin[1 + i] = b[fields[i]]
       /\ extensions # 0 => begin[Len(fields) + 2] = extensions
  <2>1. CASE extensions = 0
    BY <1>2, <1>6, <1>9, <2>1, Led
  <2>2. CASE extensions # 0
    <3> DEFINE one == <<shown>> \o values
               two == one \o <<extensions>>
               three == two \o data
    <3>1. /\ one \in Seq(W) /\ Len(one) = 1 + Len(fields) /\ one[1] = shown
          /\ \A i \in 1 .. Len(fields) : one[1 + i] = b[fields[i]]
      BY <1>6, <1>9, Led
    <3>0. begin = three
      BY <2>2
    <3> HIDE DEF one, begin
    <3>2. <<extensions>> \in Seq(W) /\ Len(<<extensions>>) = 1 /\ <<extensions>>[1] = extensions
      BY <1>9
    <3>3. /\ two \in Seq(W) /\ Len(two) = 2 + Len(fields)
          /\ \A i \in 1 .. 1 + Len(fields) : two[i] = one[i]
          /\ two[2 + Len(fields)] = extensions
      <4>1. /\ two \in Seq(W) /\ Len(two) = Len(one) + 1
            /\ \A i \in 1 .. Len(one) : two[i] = one[i]
        BY <3>1, <3>2, Followed
      <4>2. \A i \in 1 .. Len(one) + 1 :
              two[i] = IF i <= Len(one) THEN one[i] ELSE <<extensions>>[i - Len(one)]
        BY <3>1, <3>2, ConcatProperties
      <4>3. 2 + Len(fields) \in 1 .. Len(one) + 1 /\ ~(2 + Len(fields) <= Len(one))
            /\ 2 + Len(fields) - Len(one) = 1
        BY <1>2, <3>1
      <4> HIDE DEF two
      <4>4. two[2 + Len(fields)] = extensions
        BY <3>2, <4>2, <4>3
      <4> QED BY <1>2, <3>1, <4>1, <4>4
    <3> HIDE DEF two
    <3>4. /\ three \in Seq(W) /\ Len(three) = 2 + Len(fields) + 2 * extensions
          /\ \A i \in 1 .. 2 + Len(fields) : three[i] = two[i]
      <4>1. /\ three \in Seq(W) /\ Len(three) = Len(two) + Len(data)
            /\ \A i \in 1 .. Len(two) : three[i] = two[i]
        <5>1. two \in Seq(W) /\ data \in Seq(W)
          BY <1>8, <3>3
        <5> HIDE DEF three
        <5>2. three = two \o data
          BY DEF three
        <5>3. /\ two \o data \in Seq(W) /\ Len(two \o data) = Len(two) + Len(data)
              /\ \A i \in 1 .. Len(two) : (two \o data)[i] = two[i]
          BY <5>1, Followed
        <5> QED BY <5>2, <5>3
      <4> QED BY <1>8, <3>3, <4>1
    <3> HIDE DEF three
    <3>5. /\ Len(three) = 1 + Len(fields) + extra /\ three[1] = shown
          /\ three[Len(fields) + 2] = extensions
      BY <1>2, <2>2, <3>1, <3>3, <3>4
    <3>6. ASSUME NEW i \in 1 .. Len(fields) PROVE three[1 + i] = b[fields[i]]
      <4>1. 1 + i \in 1 .. 1 + Len(fields) /\ 1 + i \in 1 .. 2 + Len(fields)
        BY <1>2
      <4> QED BY <3>1, <3>3, <3>4, <4>1
    <3> QED BY <3>0, <3>4, <3>5, <3>6
  <2> QED BY <2>1, <2>2
<1>12. packet = IF extensions = 0 THEN sent \o rest
                ELSE <<Head(sent) \cup {"EXTENDED"}>> \o Tail(sent) \o <<extensions>> \o data \o rest
  BY <1>10
<1> HIDE DEF sent, begin
<1>13. /\ packet \in Seq(W) /\ Len(packet) = Len(begin) + Len(rest) /\ Len(rest) \in Nat
       /\ \A i \in 1 .. Len(begin) : packet[i] = begin[i]
       /\ SubSeq(packet, Len(begin) + 1, Len(packet)) = rest
  <2>1. begin \in Seq(W)
    BY <1>11
  <2>2. SubSeq(begin \o rest, Len(begin) + 1, Len(begin \o rest)) = rest
    BY <1>7, <2>1, Followed
  <2> QED BY <1>7, <2>1, <2>2, Followed
<1> HIDE DEF packet
<1>14. /\ packet # <<>> /\ Head(packet) = shown /\ packet[1] = shown
       /\ \A i \in 1 .. Len(fields) : packet[1 + i] = b[fields[i]]
       /\ extensions # 0 => packet[Len(fields) + 2] = extensions
       /\ Len(packet) >= Len(fields) + 1 + extra
       /\ extra \in Nat /\ Len(begin) = Len(fields) + 1 + extra
  <2>1. Len(begin) = Len(fields) + 1 + extra /\ extra \in Nat /\ 1 \in 1 .. Len(begin)
    BY <1>2, <1>11
  <2>6. extensions # 0 => extra >= 1
    OBVIOUS
  <2> HIDE DEF shown, extra
  <2>2. packet[1] = shown /\ Len(packet) >= Len(fields) + 1 + extra
    BY <1>2, <1>11, <1>13, <2>1
  <2>3. packet # <<>> /\ Head(packet) = shown
    BY <1>2, <1>13, <2>1, <2>2, EmptySeq
  <2>4. ASSUME NEW i \in 1 .. Len(fields) PROVE packet[1 + i] = b[fields[i]]
    <3>1. 1 + i \in 1 .. Len(begin)
      BY <1>2, <2>1
    <3> QED BY <1>11, <1>13, <3>1
  <2>5. extensions # 0 => packet[Len(fields) + 2] = extensions
    <3>1. extensions # 0 => Len(fields) + 2 \in 1 .. Len(begin)
      BY <1>2, <2>1, <2>6
    <3> QED BY <1>11, <1>13, <3>1
  <2> QED BY <2>1, <2>2, <2>3, <2>4, <2>5
<1>15. IF "EXTENDED" \in shown
       THEN extra = 1 + 2 * packet[Len(fields) + 2] /\ extra > 0 ELSE extra = 0
  BY <1>1, <1>14
<1> HIDE DEF shown, extra
<1>16. Decoded(packet) = [ok |-> TRUE, attrs |-> b, rest |-> rest]
  <2>1. rest = SubSeq(packet, Len(fields) + 1 + extra + 1, Len(packet))
    BY <1>13, <1>14
  <2>2. FieldsOf(Head(packet)) = fields /\ packet \in Seq(W)
    BY <1>3, <1>13, <1>14
  <2>3. IF "EXTENDED" \in Head(packet)
        THEN extra = 1 + 2 * packet[Len(fields) + 2] /\ extra > 0 ELSE extra = 0
    BY <1>14, <1>15
  <2>4. Holds(packet, b, extra)
    BY <1>1, <1>14, <2>2, <2>3 DEF Holds
  <2>5. Decoded(packet) = [ok |-> TRUE, attrs |-> b,
                           rest |-> SubSeq(packet, Len(fields) + 1 + extra + 1, Len(packet))]
    <3>1. extra \in Nat /\ packet \in Seq(W)
      BY <1>14, <2>2
    <3>2. Decoded(packet) =
            [ok |-> TRUE, attrs |-> b,
             rest |-> SubSeq(packet, Len(FieldsOf(Head(packet))) + 1 + extra + 1, Len(packet))]
      BY <2>4, <3>1, ReadWhole
    <3> QED BY <2>2, <3>2
  <2> QED BY <2>1, <2>5
<1>17. ASSUME NEW n \in 0 .. Len(packet) - Len(rest) - 1
       PROVE  ~Decoded(SubSeq(packet, 1, n)).ok
  <2>1. n \in 0 .. Len(packet) /\ n < Len(fields) + 1 + extra
    BY <1>2, <1>13, <1>14
  <2> QED BY <1>3, <1>13, <1>14, <1>15, <2>1, ReadShort
<1> QED BY <1>1, <1>5, <1>12, <1>16, <1>17

\* A caller gets the reply to what it asked, and attributes are read as they were written.
THEOREM RepliesAreUnderstood == Spec => []RepliesAreRead
<1>1. ASSUME NEW a \in SomeAttrs, NEW rest \in {<<>>, <<"next">>}, NEW extensions \in 0 .. 2
      PROVE  AttrsSurvive(a, rest, extensions)
  <2>1. a \in [AttrFields -> {None, "known"}]
    BY DEF SomeAttrs
  <2>2. <<>> \in Seq({"next"}) /\ <<"next">> \in Seq({"next"}) /\ extensions \in Nat
    BY ShortLists
  <2> QED BY <2>1, <2>2, AttributesSurvive
<1>2. RepliesMatch => RepliesAreRead
  BY <1>1 DEF RepliesAreRead
<1> QED BY <1>2, RepliesReachTheirCallers, PTL

=============================================================================

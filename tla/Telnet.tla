-------------------------------- MODULE Telnet --------------------------------
(***************************************************************************)
(* The Telnet client (src-tauri/src/session/telnet.rs): the parser that    *)
(* takes commands out of what the server sends, its answers about options, *)
(* and the encoding of what goes out; and the negotiation of one option    *)
(* with a server that keeps to RFC 1143, which may change its mind about   *)
(* it MaxChanges times while the window is resized MaxResizes times.       *)
(*                                                                         *)
(* A definition whose comment begins "Mutant" is not part of the           *)
(* specification.                                                          *)
(***************************************************************************)
EXTENDS Integers, Sequences, SequencesExt

CONSTANTS
  Options,      \* the options negotiated, one to a behaviour
  MaxChanges, MaxResizes

ASSUME TelnetAssumption == Options \subseteq 0..255 /\ MaxChanges \in Nat /\ MaxResizes \in Nat

IAC == 255
DONT == 254
DO == 253
WONT == 252
WILL == 251
SB == 250
SE == 240
CR == 13
LF == 10
ECHO == 1
SGA == 3
TTYPE == 24
NAWS == 31
TERM == <<120>>     \* the terminal's name, abbreviated
MaxSubneg == 5      \* MAX_SUBNEG, scaled down
-----------------------------------------------------------------------------
(* What goes out *)

EncodedByte(b) == CASE b = IAC -> <<IAC, IAC>> [] b = CR -> <<CR, LF>> [] OTHER -> <<b>>

\* encode_output: a CR becomes CR LF, and takes the LF that follows it along.
Encode(typed) ==
  LET kept(i) == ~(typed[i] = LF /\ i > 1 /\ typed[i - 1] = CR) IN
  FlattenSeq([i \in DOMAIN typed |-> IF kept(i) THEN EncodedByte(typed[i]) ELSE <<>>])

\* naws_subneg: two 16-bit sizes, high byte first.
Escaped(bytes) == FlattenSeq([i \in DOMAIN bytes |->
                                IF bytes[i] = IAC THEN <<IAC, IAC>> ELSE <<bytes[i]>>])
SizeBytes(size) == <<size.cols \div 256, size.cols % 256, size.rows \div 256, size.rows % 256>>
NawsSubneg(size) == <<IAC, SB, NAWS>> \o Escaped(SizeBytes(size)) \o <<IAC, SE>>
-----------------------------------------------------------------------------
(* The parser *)

New == [state |-> "Data", subOpt |-> 0, sub |-> <<>>, local |-> {}, remote |-> {},
        naws |-> FALSE, data |-> <<>>, reply |-> <<>>]

Answer(p, bytes) == [p EXCEPT !.reply = @ \o bytes]

Hello(p, size) ==
  [p EXCEPT !.local = {TTYPE, NAWS, SGA}, !.remote = {ECHO, SGA}, !.naws = TRUE,
            !.reply = FlattenSeq([i \in 1..3 |-> <<IAC, WILL, <<TTYPE, NAWS, SGA>>[i]>>])
                      \o <<IAC, DO, ECHO, IAC, DO, SGA>> \o NawsSubneg(size)]

OnWill(p, opt) ==
  IF opt \notin {ECHO, SGA} THEN Answer(p, <<IAC, DONT, opt>>)
  ELSE IF opt \in p.remote THEN p
  ELSE Answer([p EXCEPT !.remote = @ \cup {opt}], <<IAC, DO, opt>>)

OnWont(p, opt) ==
  IF opt \in p.remote
  THEN Answer([p EXCEPT !.remote = @ \ {opt}], <<IAC, DONT, opt>>) ELSE p

OnDo(p, opt, size) ==
  LET agreed == IF opt \in p.local THEN p
                ELSE Answer([p EXCEPT !.local = @ \cup {opt}], <<IAC, WILL, opt>>) IN
  IF opt \notin {SGA, TTYPE, NAWS} THEN Answer(p, <<IAC, WONT, opt>>)
  ELSE IF opt # NAWS THEN agreed
  ELSE Answer([agreed EXCEPT !.naws = TRUE], NawsSubneg(size))

OnDont(p, opt) ==
  LET q == [p EXCEPT !.naws = @ /\ opt # NAWS] IN
  IF opt \in p.local
  THEN Answer([q EXCEPT !.local = @ \ {opt}], <<IAC, WONT, opt>>) ELSE q

\* TERMINAL-TYPE SEND is answered with its name.
OnSubneg(p) ==
  IF p.subOpt = TTYPE /\ p.sub # <<>> /\ Head(p.sub) = 1
  THEN Answer(p, <<IAC, SB, TTYPE, 0>> \o Escaped(TERM) \o <<IAC, SE>>) ELSE p

Goes(p, state) == [p EXCEPT !.state = state]
Keep(p, b) == IF Len(p.sub) < MaxSubneg THEN [p EXCEPT !.sub = Append(@, b)] ELSE p

\* feed, a byte at a time.
Byte(p, b, size) ==
  CASE p.state = "Data" -> IF b = IAC THEN Goes(p, "Iac") ELSE [p EXCEPT !.data = Append(@, b)]
    [] p.state = "Iac" ->
         (CASE b = IAC -> Goes([p EXCEPT !.data = Append(@, IAC)], "Data")
            [] b = WILL -> Goes(p, "Will") [] b = WONT -> Goes(p, "Wont")
            [] b = DO -> Goes(p, "Do") [] b = DONT -> Goes(p, "Dont")
            [] b = SB -> Goes(p, "Sb") [] OTHER -> Goes(p, "Data"))
    [] p.state = "Will" -> Goes(OnWill(p, b), "Data")
    [] p.state = "Wont" -> Goes(OnWont(p, b), "Data")
    [] p.state = "Do" -> Goes(OnDo(p, b, size), "Data")
    [] p.state = "Dont" -> Goes(OnDont(p, b), "Data")
    [] p.state = "Sb" -> [p EXCEPT !.state = "SbData", !.subOpt = b, !.sub = <<>>]
    [] p.state = "SbData" -> IF b = IAC THEN Goes(p, "SbIac") ELSE Keep(p, b)
    [] p.state = "SbIac" ->
         (CASE b = SE -> Goes(OnSubneg(p), "Data")
            [] b = IAC -> Goes(Keep(p, IAC), "SbData")
            [] OTHER -> Goes(p, "SbData"))

Feed(p, bytes, size) ==
  LET fed[i \in 0..Len(bytes)] ==
        IF i = 0 THEN [p EXCEPT !.data = <<>>, !.reply = <<>>]
        ELSE Byte(fed[i - 1], bytes[i], size) IN
  fed[Len(bytes)]
-----------------------------------------------------------------------------
(* Negotiating one option with a server *)

VARIABLES
  opt, client,  \* the option, and our parser
  size,         \* the window's
  server,       \* RFC 1143: its own side, ours as it sees it, the size it heard
  toServer, toClient,   \* what is on its way, command by command
  changes, resizes      \* bounds: what the server and the user may still do

telnetVars == <<opt, client, size, server, toServer, toClient, changes, resizes>>

Small == [cols |-> 80, rows |-> 24]
Large == [cols |-> 255, rows |-> 65535]

\* What a reply says of opt: at most one command, and the size.
Command(what) == [what |-> what, size |-> Small]
Says(reply, now) ==
  (IF reply # <<>> /\ reply[2] # SB THEN <<Command(reply[2])>> ELSE <<>>)
  \o (IF reply # <<>> /\ reply[Len(reply)] = SE THEN <<[what |-> SB, size |-> now]>> ELSE <<>>)

TelnetInit ==
  /\ opt \in Options /\ size = Small
  /\ client = [Hello(New, Small) EXCEPT !.reply = <<>>]
  /\ toServer = (IF opt \in client.local THEN <<Command(WILL)>> ELSE <<>>)
                 \o (IF opt \in client.remote THEN <<Command(DO)>> ELSE <<>>)
                 \o (IF opt = NAWS THEN Says(NawsSubneg(Small), Small) ELSE <<>>)
  /\ toClient = <<>>
  /\ server = [us |-> "no", him |-> "no", size |-> [cols |-> 0, rows |-> 0]]
  /\ changes = MaxChanges /\ resizes = IF opt = NAWS THEN MaxResizes ELSE 0

\* The bytes before an option's name only choose the parser's state.
Expecting(what) == CASE what = WILL -> "Will" [] what = WONT -> "Wont" [] what = DO -> "Do" [] what = DONT -> "Dont"

\* run_session: what is read is fed to the parser and its answer written.
Receive ==
  /\ toClient # <<>>
  /\ client' = Byte([client EXCEPT !.state = Expecting(Head(toClient)), !.reply = <<>>], opt, size)
  /\ toServer' = toServer \o Says(client'.reply, size)
  /\ toClient' = Tail(toClient)
  /\ UNCHANGED <<opt, size, server, changes, resizes>>

\* Mutant of Resize: the server is not told.
ResizeForgotten ==
  /\ resizes > 0 /\ resizes' = resizes - 1
  /\ size' = IF size = Small THEN Large ELSE Small
  /\ UNCHANGED <<opt, client, server, toServer, toClient, changes>>
Resize ==
  /\ resizes > 0 /\ resizes' = resizes - 1
  /\ size' = IF size = Small THEN Large ELSE Small
  /\ toServer' = IF client.naws THEN toServer \o Says(NawsSubneg(size'), size') ELSE toServer
  /\ UNCHANGED <<opt, client, server, toClient, changes>>

\* The server's side of one direction: an answer is sent to what was not asked.
Decides(side, yes, no, may) ==
  \E agrees \in IF may THEN BOOLEAN ELSE {FALSE} :
    /\ server' = [server EXCEPT ![side] = IF agrees THEN "yes" ELSE "no"]
    /\ toClient' = Append(toClient, IF agrees THEN yes ELSE no)
Enabled(side, yes, no) ==       \* WILL about him, DO about us
  CASE server[side] = "no" -> Decides(side, yes, no, TRUE)
    [] server[side] = "wantyes" -> server' = [server EXCEPT ![side] = "yes"] /\ UNCHANGED toClient
    [] server[side] = "wantno" -> server' = [server EXCEPT ![side] = "no"] /\ UNCHANGED toClient
    [] OTHER -> UNCHANGED <<server, toClient>>
Disabled(side, no) ==           \* WONT about him, DONT about us
  IF server[side] = "yes"
  THEN server' = [server EXCEPT ![side] = "no"] /\ toClient' = Append(toClient, no)
  ELSE server' = [server EXCEPT ![side] = "no"] /\ UNCHANGED toClient

ServerReceives ==
  /\ toServer # <<>> /\ toServer' = Tail(toServer)
  /\ LET command == Head(toServer) IN
     CASE command.what = WILL -> Enabled("him", DO, DONT)
       [] command.what = DO -> Enabled("us", WILL, WONT)
       [] command.what = WONT -> Disabled("him", DONT)
       [] command.what = DONT -> Disabled("us", WONT)
       [] command.what = SB -> server' = [server EXCEPT !.size = command.size] /\ UNCHANGED toClient
  /\ UNCHANGED <<opt, client, size, changes, resizes>>

ServerAsks(side, yes, no) ==
  /\ changes > 0 /\ changes' = changes - 1
  /\ \/ server[side] = "no" /\ server' = [server EXCEPT ![side] = "wantyes"]
        /\ toClient' = Append(toClient, yes)
     \/ server[side] = "yes" /\ server' = [server EXCEPT ![side] = "wantno"]
        /\ toClient' = Append(toClient, no)
  /\ UNCHANGED <<opt, client, size, toServer, resizes>>

Serve == ServerReceives \/ ServerAsks("him", DO, DONT) \/ ServerAsks("us", WILL, WONT)
-----------------------------------------------------------------------------
Quiet == toServer = <<>> /\ toClient = <<>>

\* The two sides agree on the option and on the window's size.
Agreed ==
  /\ Quiet
  /\ (opt \in client.local) = (server.him = "yes")
  /\ (opt \in client.remote) = (server.us = "yes")
  /\ opt = NAWS /\ server.him = "yes" => server.size = size

\* Encoding and parsing again gives what was typed, and the size as it is.
Typed == UNION {[1..n -> {IAC, CR, LF, SB, SE}] : n \in 0..4}
Normal(typed) == FlattenSeq([i \in DOMAIN typed |->
                   IF typed[i] = LF /\ i > 1 /\ typed[i - 1] = CR THEN <<>>
                   ELSE IF typed[i] = CR THEN <<CR, LF>> ELSE <<typed[i]>>])
Survives ==
  /\ \A t \in Typed : LET read == Feed(New, Encode(t), Small) IN
       read.data = Normal(t) /\ read.state = "Data" /\ read.reply = <<>>
  /\ \A cols, rows \in {80, 255, 65535} :
       LET s == [cols |-> cols, rows |-> rows]
           read == Feed(New, NawsSubneg(s), Small) IN
       read.sub = SizeBytes(s) /\ read.subOpt = NAWS /\ read.data = <<>> /\ read.state = "Data"
=============================================================================

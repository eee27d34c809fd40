---------------------------- MODULE ConfSyncProofs ----------------------------
(***************************************************************************)
(* Proofs about ConfSync, for every number of ports, of connections, of    *)
(* commands and of messages that one read takes.                           *)
(*                                                                         *)
(* A command that the user gives while nothing is under way stays alone:   *)
(* no thread of either side has anything to send, so what SSC reads is the *)
(* command and nothing else, and no message of SSC meets PI's half of it.  *)
(* All that could end this, a connection, a restart, another command, also *)
(* ends the claim.                                                         *)
(*                                                                         *)
(* An exchange that has lost nothing and met no other is the only one: of  *)
(* the synchronising threads only the one of this connection still has     *)
(* something to send, and the one request is in the socket, in PI's queue, *)
(* or with the thread that answers it.  A configuration is then sent, on   *)
(* its way, or taken over, in each direction.                              *)
(*                                                                         *)
(* There are never more watchers than connections, because each watcher    *)
(* goes back to the request of one connection, through the two sockets,    *)
(* PI's queue and the thread that answers: all of these together are no    *)
(* more than the connections (Counted).                                    *)
(***************************************************************************)
EXTENDS ConfSync, FiniteSetTheorems, SequenceTheorems, TLAPS

AnswerState == [pc : {"none", "age", "ports", "start", "conf", "end", "done"},
                port : Port, conf : Conf]
SyncState   == [pc : {"none", "start", "copy", "send", "end", "done"}, conf : Conf]

\* The types that matter here.
Types ==
    /\ pi \in Conf /\ ssc \in Conf
    /\ cli \in Cmd \cup {NoCmd}
    /\ cliPort \in Port
    /\ box \in Seq(PiMsg)
    /\ answer \in [Conn -> AnswerState]
    /\ sync \in [Conn -> SyncState]
    /\ toPi \in Seq(PiMsg) /\ toSsc \in Seq(SscMsg)
    /\ asked \in Cmd \cup {NoCmd}

\* The configuration has what the command asks for.
Has(conf, c) ==
    IF c.type = "age" THEN conf.age = c.value
    ELSE \A p \in 1 .. PortNum - 1 : conf.port[p] = c.value

ThreadsRest ==
    \A c \in Conn : sync[c].pc \in {"none", "done"} /\ answer[c].pc \in {"none", "done"}

\* Nothing but the command is under way; SSC has still to read it or has it, and
\* PI has carried it out up to the port cliPort or has it.
Alone ==
    asked # NoCmd =>
        /\ up /\ toPi = <<>> /\ box = <<>> /\ ThreadsRest
        /\ \/ toSsc = <<asked>>
           \/ toSsc = <<>> /\ Has(ssc, asked)
        /\ \/ /\ cli = asked
              /\ asked.type = "learn" =>
                    \A p \in 1 .. cliPort - 1 : pi.port[p] = asked.value
           \/ cli = NoCmd /\ Has(pi, asked)

IInv == Types /\ Alone

-----------------------------------------------------------------------------
LEMMA IInvImplies == IInv => CommandTaken
<1> SUFFICES ASSUME IInv, Rest, asked # NoCmd PROVE Has(pi, asked) /\ Has(ssc, asked)
  BY DEF CommandTaken, Has
<1>1. toSsc = <<>> /\ cli = NoCmd
  BY DEF Rest, Still
<1> QED BY <1>1 DEF IInv, Alone

\* The messages and what they carry.
LEMMA Messages ==
    /\ Fetch \in PiMsg /\ Mark \in PiMsg
    /\ DsStart \in SscMsg /\ DsEnd \in SscMsg /\ Cmd \subseteq SscMsg
    /\ \A conf \in Conf : /\ [type |-> "conf", conf |-> conf] \in PiMsg
                          /\ [type |-> "conf", conf |-> conf] \in SscMsg
    /\ \A m \in PiMsg : m.type = "conf" => m.conf \in Conf
    /\ \A m \in SscMsg : /\ m.type = "conf" => m.conf \in Conf
                         /\ m.type \in {"age", "learn"} => m \in Cmd
BY DEF PiMsg, SscMsg, Fetch, Mark, DsStart, DsEnd, Cmd, AgeCmd, LearnCmd

LEMMA Commands ==
    /\ NoCmd \notin Cmd
    /\ \A c \in Cmd : /\ c.type \in {"age", "learn"}
                      /\ c.type = "age" => c.value \in Age
                      /\ c.type = "learn" => c.value \in Status
    /\ NoCmd.type = "none"
BY DEF NoCmd, Cmd, AgeCmd, LearnCmd, Age

\* Both sides start with a configuration.
LEMMA Defaults == PiDefault \in Conf /\ SscDefault \in Conf /\ 1 \in Port
BY PortNumAssumption DEF PiDefault, SscDefault, Conf, Age, Port, Status, Learn, Unlearn, DefaultAge

LEMMA InitIInv == Init => IInv
<1> SUFFICES ASSUME Init PROVE IInv
  OBVIOUS
<1>1. \A c \in Conn : Silent \in AnswerState /\ Idle \in SyncState
  BY Defaults DEF Silent, Idle, AnswerState, SyncState
<1>2. Types
  BY <1>1, Defaults DEF Init, Types, Q!BoxInit
<1>3. Alone
  BY DEF Init, Alone
<1> QED BY <1>2, <1>3 DEF IInv

\* What a read leaves is a sequence of messages again.
LEMMA ReadRest ==
    ASSUME NEW S, NEW s \in Seq(S), NEW k \in Nat, k >= 1, k <= Len(s)
    PROVE  /\ s[1] \in S
           /\ SubSeq(s, k + 1, Len(s)) \in Seq(S)
           /\ Len(s) = 1 => SubSeq(s, k + 1, Len(s)) = <<>>
<1>1. Len(s) \in Nat /\ Len(s) >= 1
  OBVIOUS
<1>2. SubSeq(s, k + 1, Len(s)) \in Seq(S)
  BY <1>1
<1>3. ASSUME Len(s) = 1 PROVE SubSeq(s, k + 1, Len(s)) = <<>>
  BY <1>1, <1>3
<1> QED BY <1>1, <1>2, <1>3

-----------------------------------------------------------------------------
\* Connections and restarts end the claim.
LEMMA BreakStep == ASSUME IInv, Connect \/ PiRestart \/ SscRestart PROVE IInv'
<1>1. asked' = NoCmd
  BY DEF Connect, PiRestart, SscRestart
<1>2. Alone'
  BY <1>1 DEF Alone
<1>3. Silent \in AnswerState /\ Idle \in SyncState
  BY Defaults DEF Silent, Idle, AnswerState, SyncState
<1>4. CASE Connect
  <2>1. toPi' \in Seq(PiMsg)
    BY <1>4, Messages DEF Connect, IInv, Types
  <2>2. sync' \in [Conn -> SyncState]
    BY <1>4 DEF Connect, IInv, Types, SyncState
  <2> QED BY <1>1, <1>2, <1>4, <2>1, <2>2 DEF Connect, IInv, Types, piVars
<1>5. CASE PiRestart
  <2>1. answer' \in [Conn -> AnswerState]
    <3>1. answer' = [c \in Conn |-> Silent]
      BY <1>5 DEF PiRestart
    <3> QED BY <1>3, <3>1
  <2>2. toSsc' \in Seq(SscMsg) /\ toPi' \in Seq(PiMsg) /\ box' \in Seq(PiMsg)
    <3>1. (toSsc' = toSsc \/ toSsc' = <<>>) /\ toPi' = <<>> /\ box' = <<>>
      BY <1>5 DEF PiRestart
    <3>2. toSsc \in Seq(SscMsg)
      BY DEF IInv, Types
    <3>3. <<>> \in Seq(SscMsg) /\ <<>> \in Seq(PiMsg)
      OBVIOUS
    <3>4. toSsc' \in Seq(SscMsg)
      BY <3>1, <3>2, <3>3, Zenon
    <3> QED BY <3>1, <3>3, <3>4, Zenon
  <2>3. pi' \in Conf /\ cliPort' \in Port /\ cli' = NoCmd
    BY <1>5, Defaults DEF PiRestart
  <2>4. UNCHANGED <<ssc, sync>>
    BY <1>5 DEF PiRestart, sscVars
  <2> QED BY <1>1, <1>2, <2>1, <2>2, <2>3, <2>4 DEF IInv, Types
<1>6. CASE SscRestart
  <2>1. sync' \in [Conn -> SyncState]
    <3>1. sync' = [c \in Conn |-> Idle]
      BY <1>6 DEF SscRestart
    <3> QED BY <1>3, <3>1
  <2>2. toSsc' \in Seq(SscMsg) /\ toPi' \in Seq(PiMsg)
    <3>1. toSsc' = <<>> /\ (toPi' = toPi \/ toPi' = <<>>)
      BY <1>6 DEF SscRestart
    <3>2. toPi \in Seq(PiMsg)
      BY DEF IInv, Types
    <3>3. <<>> \in Seq(SscMsg) /\ <<>> \in Seq(PiMsg)
      OBVIOUS
    <3>4. toPi' \in Seq(PiMsg)
      BY <3>1, <3>2, <3>3, Zenon
    <3> QED BY <3>1, <3>3, <3>4, Zenon
  <2>3. ssc' \in Conf
    BY <1>6, Defaults DEF SscRestart
  <2>4. UNCHANGED <<pi, cli, cliPort, box, answer>>
    BY <1>6 DEF SscRestart, piVars
  <2> QED BY <1>1, <1>2, <2>1, <2>2, <2>3, <2>4 DEF IInv, Types
<1> QED BY <1>4, <1>5, <1>6

\* The threads that synchronise have nothing to do beside a command that is
\* alone.
LEMMA ThreadStep ==
    ASSUME IInv, NEW c \in Conn, SyncThread(c) \/ AnswerThread(c)
    PROVE  IInv'
<1>0. PortNum \in Nat /\ PortNum >= 2
  BY PortNumAssumption
<1>1. asked = NoCmd
  <2>1. sync[c].pc \notin {"none", "done"} \/ answer[c].pc \notin {"none", "done"}
    BY DEF SyncThread, AnswerThread, SyncMark, SyncCopy, SyncSend,
           AnswerCopyAge, AnswerCopyPort, AnswerSend
  <2> QED BY <2>1 DEF IInv, Alone, ThreadsRest
<1>2. asked' = asked
  BY DEF SyncThread, AnswerThread, SyncMark, SyncCopy, SyncSend, ghosts,
         AnswerCopyAge, AnswerCopyPort, AnswerSend
<1>3. Alone'
  BY <1>1, <1>2 DEF Alone
<1>4. sync[c] \in SyncState /\ answer[c] \in AnswerState
  BY DEF IInv, Types
<1>5. CASE SyncThread(c)
  <2>1. sync' \in [Conn -> SyncState]
    <3>1. CASE SyncMark(c)
      BY <3>1 DEF SyncMark, IInv, Types, SyncState
    <3>2. CASE SyncCopy(c)
      BY <3>2 DEF SyncCopy, IInv, Types, SyncState
    <3>3. CASE SyncSend(c)
      BY <3>3 DEF SyncSend, IInv, Types, SyncState
    <3> QED BY <1>5, <3>1, <3>2, <3>3 DEF SyncThread
  <2>2. toPi' \in Seq(PiMsg)
    <3>1. sync[c].conf \in Conf
      BY <1>4 DEF SyncState
    <3>2. CASE SyncCopy(c)
      BY <3>2 DEF SyncCopy, netVars, IInv, Types
    <3>3. ASSUME NEW m \in PiMsg, SscSends(m) PROVE toPi' \in Seq(PiMsg)
      BY <3>3 DEF SscSends, IInv, Types
    <3> QED BY <1>5, <3>1, <3>2, <3>3, Messages DEF SyncThread, SyncMark, SyncSend
  <2>3. UNCHANGED <<piVars, ssc, toSsc>>
    BY <1>5 DEF SyncThread, SyncMark, SyncCopy, SyncSend, netVars
  <2> QED BY <1>2, <1>3, <2>1, <2>2, <2>3 DEF IInv, Types, piVars
<1>6. CASE AnswerThread(c)
  <2>1. answer' \in [Conn -> AnswerState]
    <3>1. answer[c].conf \in Conf /\ answer[c].port \in Port /\ pi \in Conf
      BY <1>4 DEF AnswerState, IInv, Types
    <3>2. CASE AnswerCopyAge(c)
      <4> DEFINE a == answer[c]
                 new == [a EXCEPT !.pc = "ports", !.conf.age = pi.age]
      <4>1. answer' = [answer EXCEPT ![c] = new]
        BY <3>2 DEF AnswerCopyAge, IInv, Types
      <4>2. pi.age \in Age
        BY <3>1 DEF Conf
      <4>3. [a.conf EXCEPT !.age = pi.age] \in Conf
        BY <3>1, <4>2 DEF Conf
      <4>4. new \in AnswerState
        BY <1>4, <4>3 DEF AnswerState
      <4> QED BY <4>1, <4>4 DEF IInv, Types
    <3>3. CASE AnswerCopyPort(c)
      <4> DEFINE a == answer[c]
                 new == [a EXCEPT !.conf.port[a.port] = pi.port[a.port],
                                  !.port = IF a.port < PortNum THEN a.port + 1 ELSE 1,
                                  !.pc = IF a.port < PortNum THEN "ports" ELSE "start"]
      <4>1. answer' = [answer EXCEPT ![c] = new]
        BY <3>3 DEF AnswerCopyPort, IInv, Types
      <4>2. pi.port[a.port] \in Status
        BY <3>1 DEF Conf
      <4>3. [a.conf EXCEPT !.port[a.port] = pi.port[a.port]] \in Conf
        BY <3>1, <4>2 DEF Conf
      <4>4. new.port \in Port
        BY <1>0, <1>4, <3>1 DEF AnswerState, Port
      <4>5. new \in AnswerState
        BY <1>4, <4>3, <4>4 DEF AnswerState
      <4> QED BY <4>1, <4>5 DEF IInv, Types
    <3>4. CASE AnswerSend(c)
      <4>1. PICK pc \in {"conf", "end", "done"} : answer' = [answer EXCEPT ![c].pc = pc]
        BY <3>4 DEF AnswerSend
      <4>2. [answer[c] EXCEPT !.pc = pc] \in AnswerState
        BY <1>4 DEF AnswerState
      <4> QED BY <4>1, <4>2 DEF IInv, Types
    <3> QED BY <1>6, <3>2, <3>3, <3>4 DEF AnswerThread
  <2>2. toSsc' \in Seq(SscMsg)
    <3>1. answer[c].conf \in Conf
      BY <1>4 DEF AnswerState
    <3>2. CASE AnswerCopyAge(c) \/ AnswerCopyPort(c)
      BY <3>2 DEF AnswerCopyAge, AnswerCopyPort, netVars, IInv, Types
    <3>3. ASSUME NEW m \in SscMsg, PiSends(m) PROVE toSsc' \in Seq(SscMsg)
      BY <3>3 DEF PiSends, IInv, Types
    <3> QED BY <1>6, <3>1, <3>2, <3>3, Messages DEF AnswerThread, AnswerSend
  <2>3. UNCHANGED <<pi, cli, cliPort, box, ssc, sync, toPi>>
    BY <1>6 DEF AnswerThread, AnswerCopyAge, AnswerCopyPort, AnswerSend, sscVars, netVars
  <2> QED BY <1>2, <1>3, <2>1, <2>2, <2>3 DEF IInv, Types
<1> QED BY <1>5, <1>6

-----------------------------------------------------------------------------
\* What SSC reads beside a claim is the command itself, alone.
LEMMA SscReadStep == ASSUME IInv, NEW k \in 1 .. MaxRead, SscRead(k) PROVE IInv'
<1>0. PortNum \in Nat /\ PortNum >= 2 /\ k \in Nat /\ k >= 1
  BY PortNumAssumption, ConfBoundsAssumption
<1>1. /\ toSsc \in Seq(SscMsg) /\ k <= Len(toSsc)
      /\ toSsc' = SubSeq(toSsc, k + 1, Len(toSsc))
      /\ SscHandle(toSsc[1])
      /\ UNCHANGED <<pi, cli, cliPort, box, answer, sync, toPi, up>>
      /\ asked' \in {asked, NoCmd}
  BY DEF SscRead, IInv, Types, piVars
<1>2. toSsc[1] \in SscMsg /\ toSsc' \in Seq(SscMsg)
  BY <1>0, <1>1, ReadRest
<1>3. ssc' \in Conf
  <2>1. CASE (toSsc[1] = DsStart /\ SscDsStart) \/ (toSsc[1] = DsEnd /\ SscDsEnd)
    BY <2>1 DEF SscDsStart, SscDsEnd, IInv, Types
  <2>2. CASE toSsc[1].type = "conf" /\ SscDsData(toSsc[1].conf)
    <3>1. toSsc[1].conf \in Conf /\ ssc \in Conf
      BY <1>2, <2>2, Messages DEF IInv, Types
    <3> QED BY <2>2, <3>1 DEF SscDsData, Conf
  <2>3. CASE toSsc[1].type \in {"age", "learn"} /\ SscModify(toSsc[1])
    <3>1. toSsc[1] \in Cmd /\ ssc \in Conf
      BY <1>2, <2>3, Messages DEF IInv, Types
    <3>2. ssc' = IF toSsc[1].type = "age" THEN [ssc EXCEPT !.age = toSsc[1].value]
                 ELSE [ssc EXCEPT !.port = [p \in Port |-> toSsc[1].value]]
      BY <2>3 DEF SscModify
    <3>3. /\ toSsc[1].type = "age" => toSsc[1].value \in Age
          /\ toSsc[1].type = "learn" => [p \in Port |-> toSsc[1].value] \in [Port -> Status]
      BY <3>1, Commands
    <3>4. CASE toSsc[1].type = "age"
      BY <3>1, <3>2, <3>3, <3>4 DEF Conf
    <3>5. CASE toSsc[1].type = "learn"
      <4>1. ssc' = [ssc EXCEPT !.port = [p \in Port |-> toSsc[1].value]]
        BY <3>2, <3>5
      <4>2. [p \in Port |-> toSsc[1].value] \in [Port -> Status]
        BY <3>3, <3>5
      <4> QED BY <3>1, <4>1, <4>2 DEF Conf
    <3> QED BY <2>3, <3>4, <3>5
  <2> QED BY <1>1, <2>1, <2>2, <2>3 DEF SscHandle
<1>4. Alone'
  <2> SUFFICES ASSUME asked # NoCmd, asked' = asked PROVE Alone'
    BY <1>1 DEF Alone
  <2>1. toSsc = <<asked>> /\ asked \in Cmd /\ ssc \in Conf
    BY <1>0, <1>1 DEF IInv, Alone, Types
  <2>2. toSsc' = <<>> /\ toSsc[1] = asked
    BY <1>0, <1>1, <2>1, ReadRest
  <2>3. SscModify(asked)
    BY <1>1, <2>1, <2>2, Commands DEF SscHandle, DsStart, DsEnd
  <2>4. Has(ssc', asked)
    <3>1. CASE asked.type = "age"
      BY <2>1, <2>3, <3>1 DEF SscModify, Has, Conf
    <3>2. CASE asked.type # "age"
      <4>1. ssc'.port = [p \in Port |-> asked.value]
        BY <2>1, <2>3, <3>2 DEF SscModify, Conf
      <4>2. 1 .. PortNum - 1 \subseteq Port
        BY <1>0 DEF Port
      <4> QED BY <3>2, <4>1, <4>2 DEF Has
    <3> QED BY <3>1, <3>2
  <2> QED BY <1>1, <2>2, <2>4 DEF IInv, Alone, ThreadsRest
<1> QED BY <1>1, <1>2, <1>3, <1>4 DEF IInv, Types

\* PI reads and handles nothing beside a claim.
LEMMA PiReadStep == ASSUME IInv, NEW k \in 1 .. MaxRead, PiRead(k) PROVE IInv'
<1>0. k \in Nat /\ k >= 1
  BY ConfBoundsAssumption
<1>1. /\ toPi \in Seq(PiMsg) /\ k <= Len(toPi)
      /\ toPi' = SubSeq(toPi, k + 1, Len(toPi))
      /\ box' = <<toPi[1]>> \o box
      /\ UNCHANGED <<pi, cli, cliPort, answer, sscVars, toSsc, asked>>
  BY DEF PiRead, IInv, Types, Q!Put
<1>2. toPi[1] \in PiMsg /\ toPi' \in Seq(PiMsg)
  BY <1>0, <1>1, ReadRest
<1>3. box' \in Seq(PiMsg)
  BY <1>1, <1>2 DEF IInv, Types
<1>4. asked = NoCmd
  BY <1>0, <1>1 DEF IInv, Alone
<1>5. Alone'
  BY <1>1, <1>4 DEF Alone
<1> QED BY <1>1, <1>2, <1>3, <1>5 DEF IInv, Types, sscVars

LEMMA DealStep == ASSUME IInv, DealBegin \/ DealTake PROVE IInv'
<1>1. asked = NoCmd /\ asked' = asked
  BY DEF DealBegin, DealTake, Q!Begin, Q!Take, IInv, Alone, ghosts
<1>2. Alone'
  BY <1>1 DEF Alone
<1>3. CASE DealBegin
  BY <1>2, <1>3 DEF DealBegin, Q!Begin, IInv, Types, sscVars, netVars, ghosts
<1>4. CASE DealTake
  <2>1. box \in Seq(PiMsg) /\ box # <<>> /\ box' = Tail(box)
    BY <1>4 DEF DealTake, Q!Take, IInv, Types
  <2>2. box' \in Seq(PiMsg) /\ box[1] \in PiMsg
    BY <2>1
  <2>3. pi' \in Conf /\ answer' \in [Conn -> AnswerState]
    <3>1. CASE box[1].type = "conf" /\ DealConf(box[1].conf)
      <4>1. box[1].conf \in Conf /\ pi \in Conf
        BY <2>2, <3>1, Messages DEF IInv, Types
      <4> QED BY <3>1, <4>1 DEF DealConf, Conf, IInv, Types
    <3>2. CASE box[1].type = "fetch" /\ DealFetch
      <4>1. PICK c \in Conn : answer' = [answer EXCEPT ![c].pc = "age"]
        BY <3>2 DEF DealFetch
      <4>2. [answer[c] EXCEPT !.pc = "age"] \in AnswerState
        BY DEF IInv, Types, AnswerState
      <4> QED BY <3>2, <4>1, <4>2 DEF DealFetch, IInv, Types
    <3>3. CASE UNCHANGED <<pi, answer>>
      BY <3>3 DEF IInv, Types
    <3> QED BY <1>4, <3>1, <3>2, <3>3 DEF DealTake
  <2>4. UNCHANGED <<cli, cliPort, sscVars, netVars, asked>>
    BY <1>4 DEF DealTake, ghosts
  <2> QED BY <1>2, <2>2, <2>3, <2>4 DEF IInv, Types, sscVars, netVars
<1> QED BY <1>3, <1>4

-----------------------------------------------------------------------------
\* A command begins a claim if nothing is under way, and ends the one before.
LEMMA CliSendStep == ASSUME IInv, NEW c \in Cmd, CliSend(c) PROVE IInv'
<1>0. PortNum \in Nat /\ PortNum >= 2
  BY PortNumAssumption
<1>1. /\ UNCHANGED <<pi, box, answer, ssc, sync, toPi, up>>
      /\ cli' = c /\ cliPort' = 1 /\ asked' = IF Rest THEN c ELSE NoCmd
      /\ toSsc' = IF up THEN Append(toSsc, c) ELSE toSsc
  BY DEF CliSend, PiSends, sscVars
<1>2. toSsc' \in Seq(SscMsg)
  BY <1>1, Messages DEF IInv, Types
<1>3. Types'
  BY <1>1, <1>2, Defaults DEF IInv, Types
<1>4. Alone'
  <2> SUFFICES ASSUME Rest PROVE Alone'
    BY <1>1 DEF Alone
  <2>1. up /\ toPi = <<>> /\ toSsc = <<>> /\ box = <<>> /\ ThreadsRest
    BY DEF Rest, Still, ThreadsRest
  <2>2. toSsc' = <<c>> /\ asked' = c
    BY <1>1, <2>1
  <2>3. \A p \in 1 .. cliPort' - 1 : FALSE
    BY <1>1
  <2> QED BY <1>1, <2>1, <2>2, <2>3 DEF Alone, ThreadsRest
<1> QED BY <1>3, <1>4 DEF IInv

LEMMA CliInvalidStep == ASSUME IInv, CliSendInvalid PROVE IInv'
<1>1. PICK c \in LearnCmd : PiSends(c)
  BY DEF CliSendInvalid
<1>2. toSsc' \in Seq(SscMsg)
  BY <1>1, Messages DEF PiSends, IInv, Types, Cmd
<1>3. asked' = NoCmd /\ UNCHANGED <<piVars, sscVars, toPi>>
  BY DEF CliSendInvalid
<1> QED BY <1>2, <1>3 DEF IInv, Types, Alone, piVars, sscVars

\* The CLI thread carries out its half, port by port.
LEMMA CliLocalStep == ASSUME IInv, CliAge \/ CliLearn PROVE IInv'
<1>0. PortNum \in Nat /\ PortNum >= 2 /\ cliPort \in Nat /\ cliPort >= 1 /\ cliPort \in Port
  BY PortNumAssumption DEF IInv, Types, Port
<1>1. /\ UNCHANGED <<box, answer, ssc, sync, toPi, toSsc, up, asked>>
      /\ pi \in Conf /\ cli \in Cmd
  BY Commands DEF CliAge, CliLearn, sscVars, netVars, ghosts, IInv, Types
<1>2. asked # NoCmd => cli = asked
  BY <1>1, Commands DEF IInv, Alone
<1>3. CASE CliAge
  <2>1. cli.type = "age" /\ pi' = [pi EXCEPT !.age = cli.value] /\ cli' = NoCmd /\ cliPort' = cliPort
    BY <1>3 DEF CliAge
  <2>2. pi' \in Conf /\ pi'.age = cli.value
    BY <1>1, <2>1, Commands DEF Conf
  <2>3. Types'
    BY <1>1, <2>1, <2>2 DEF IInv, Types
  <2>4. asked # NoCmd => Has(pi', asked)
    BY <1>2, <2>1, <2>2 DEF Has
  <2>5. Alone'
    BY <1>1, <2>1, <2>4 DEF IInv, Alone, ThreadsRest
  <2> QED BY <2>3, <2>5 DEF IInv
<1>4. CASE CliLearn
  <2>1. /\ cli.type = "learn" /\ pi' = [pi EXCEPT !.port[cliPort] = cli.value]
        /\ IF cliPort + 1 < PortNum THEN cliPort' = cliPort + 1 /\ cli' = cli
                                    ELSE cliPort' = 1 /\ cli' = NoCmd
    BY <1>4 DEF CliLearn
  <2>2. cli.value \in Status /\ pi.port \in [Port -> Status]
    BY <1>1, <2>1, Commands DEF Conf
  <2>3. pi'.port = [pi.port EXCEPT ![cliPort] = cli.value] /\ pi' \in Conf
    BY <1>0, <1>1, <2>1, <2>2 DEF Conf
  <2>4. cliPort' \in Port /\ cli' \in Cmd \cup {NoCmd}
    BY <1>0, <1>1, <2>1 DEF Port
  <2>5. Types'
    BY <1>1, <2>3, <2>4 DEF IInv, Types
  <2>6. ASSUME asked # NoCmd PROVE \A p \in 1 .. cliPort : pi'.port[p] = asked.value
    <3>1. cli = asked /\ \A p \in 1 .. cliPort - 1 : pi.port[p] = asked.value
      BY <1>2, <2>1, <2>6, Commands DEF IInv, Alone
    <3>2. \A p \in 1 .. cliPort : p \in Port /\ (p = cliPort \/ p \in 1 .. cliPort - 1)
      BY <1>0 DEF Port
    <3> QED BY <2>2, <2>3, <3>1, <3>2
  <2>7. ASSUME asked # NoCmd, cli' = NoCmd PROVE Has(pi', asked)
    <3>1. cliPort + 1 >= PortNum
      BY <1>0, <1>1, <2>1, <2>7, Commands
    <3>2. \A p \in 1 .. PortNum - 1 : p \in 1 .. cliPort
      BY <1>0, <3>1
    <3>3. asked.type # "age"
      BY <1>2, <2>1, <2>7
    <3> QED BY <2>6, <2>7, <3>2, <3>3 DEF Has
  <2>8. ASSUME asked # NoCmd, cli' # NoCmd
        PROVE  cli' = asked /\ \A p \in 1 .. cliPort' - 1 : pi'.port[p] = asked.value
    <3>1. cliPort' = cliPort + 1 /\ cli' = cli
      BY <2>1, <2>8
    <3>2. cliPort' - 1 = cliPort
      BY <1>0, <3>1
    <3> QED BY <1>2, <2>6, <2>8, <3>1, <3>2
  <2>9. Alone'
    BY <1>1, <2>7, <2>8 DEF IInv, Alone, ThreadsRest
  <2> QED BY <2>5, <2>9 DEF IInv
<1> QED BY <1>3, <1>4

-----------------------------------------------------------------------------
LEMMA StepIInv == IInv /\ [Next]_vars => IInv'
<1> SUFFICES ASSUME IInv, [Next]_vars PROVE IInv'
  OBVIOUS
<1>1. CASE WatcherEnds
  BY <1>1 DEF WatcherEnds, IInv, Types, Alone, ThreadsRest, piVars, netVars, ghosts
<1>2. CASE UNCHANGED vars
  BY <1>2 DEF vars, IInv, Types, Alone, ThreadsRest, piVars, sscVars, netVars, ghosts
<1> QED
  BY <1>1, <1>2, BreakStep, ThreadStep, SscReadStep, PiReadStep, DealStep,
     CliSendStep, CliInvalidStep, CliLocalStep
     DEF Next, SscReads, PiReads

\* A command that is given when nothing is under way reaches both sides, whatever
\* goes on meanwhile, unless a connection, a restart or another command comes.
THEOREM CommandReachesBoth == Spec => []CommandTaken
<1> QED BY InitIInv, StepIInv, IInvImplies, PTL DEF Spec

-----------------------------------------------------------------------------
(* The exchange.  While it has lost nothing and met no other, every message *)
(* with a configuration that is on its way is the one of this connection,   *)
(* and there is one request and so one answer.                              *)

HasConf(s)       == \E m \in Range(s) : m.type = "conf"
Carries(s, conf) == \A m \in Range(s) : m.type = "conf" => m.conf = conf
OneFetch(s)      == \E n \in DOMAIN s : \A l \in DOMAIN s : s[l] = Fetch <=> l = n

\* From SSC to PI: the configuration is sent, and then on its way or taken over.
Toward ==
    /\ conns \in Conn
    /\ \A c \in Conn : c # conns => sync[c].pc \in {"none", "done"}
    /\ sync[conns].pc # "none"
    /\ IF sync[conns].pc \in {"end", "done"}
       THEN /\ Carries(toPi, sync[conns].conf) /\ Carries(box, sync[conns].conf)
            /\ TakenOver(pi, sync[conns].conf) \/ HasConf(toPi) \/ HasConf(box)
       ELSE ~HasConf(toPi) /\ ~HasConf(box)

\* From PI to SSC: the request is in the socket, then in PI's queue, then a
\* thread answers it.
AnswersRest == \A c \in Conn : answer[c].pc \in {"none", "done"}

Requested ==
    /\ toPi # <<>> /\ toPi[1] = Fetch /\ Fetch \notin Range(Tail(toPi))
    /\ Fetch \notin Range(box) /\ AnswersRest /\ ~HasConf(toSsc)

Queued ==
    /\ Fetch \notin Range(toPi) /\ OneFetch(box) /\ AnswersRest /\ ~HasConf(toSsc)

IsLast(a) ==
    /\ answer[a].pc # "none"
    /\ \A d \in Conn : /\ d > a => answer[d].pc = "none"
                       /\ d # a => answer[d].pc \in {"none", "done"}

Answering(a) ==
    /\ Fetch \notin Range(toPi) /\ Fetch \notin Range(box)
    /\ IsLast(a)
    /\ IF answer[a].pc \in {"end", "done"}
       THEN /\ Carries(toSsc, answer[a].conf)
            /\ TakenOver(ssc, answer[a].conf) \/ HasConf(toSsc)
       ELSE ~HasConf(toSsc)

Backward == Requested \/ Queued \/ \E a \in Conn : Answering(a)

\* Threads are numbered in the order in which they start; without commands of
\* the user there are none on their way.
InOrder == \A c, d \in Conn : c < d /\ answer[d].pc # "none" => answer[c].pc # "none"

NoCommands ==
    cmds = 0 => /\ cli = NoCmd
                /\ \A m \in Range(toSsc) : m.type \notin {"age", "learn"}

Going == up /\ ~spoiled /\ cmds = 0

EInv ==
    /\ conns \in Nat /\ cmds \in Nat
    /\ InOrder /\ NoCommands
    /\ Going => Toward /\ Backward

-----------------------------------------------------------------------------
\* What is in a queue after each of the operations on it.
LEMMA RangeAppend ==
    ASSUME NEW S, NEW s \in Seq(S), NEW m
    PROVE  Range(Append(s, m)) = Range(s) \cup {m}
<1>1. /\ Len(s) \in Nat /\ DOMAIN s = 1 .. Len(s)
      /\ DOMAIN Append(s, m) = 1 .. Len(s) + 1
      /\ \A n \in 1 .. Len(s) : Append(s, m)[n] = s[n]
      /\ Append(s, m)[Len(s) + 1] = m
  OBVIOUS
<1>2. \A n : n \in 1 .. Len(s) + 1 <=> n \in 1 .. Len(s) \/ n = Len(s) + 1
  BY <1>1
<1> QED BY <1>1, <1>2, Zenon DEF Range

LEMMA RangeRead ==
    ASSUME NEW S, NEW s \in Seq(S), NEW k \in Nat, k >= 1, k <= Len(s)
    PROVE  /\ Range(s) = {s[1]} \cup Ignored(s, k) \cup Range(SubSeq(s, k + 1, Len(s)))
           /\ Range(SubSeq(s, k + 1, Len(s))) \subseteq Range(Tail(s))
<1> DEFINE r == SubSeq(s, k + 1, Len(s))
<1>1. /\ Len(s) \in Nat /\ Len(s) >= 1 /\ DOMAIN s = 1 .. Len(s)
      /\ DOMAIN r = 1 .. Len(s) - k
      /\ \A n \in 1 .. Len(s) - k : r[n] = s[n + k]
      /\ DOMAIN Tail(s) = 1 .. Len(s) - 1
      /\ \A n \in 1 .. Len(s) - 1 : Tail(s)[n] = s[n + 1]
  OBVIOUS
<1> HIDE DEF r
<1>2. ASSUME NEW n \in DOMAIN s
      PROVE  s[n] \in {s[1]} \cup Ignored(s, k) \cup Range(r)
  <2>1. CASE n = 1
    BY <2>1
  <2>2. CASE n \in 2 .. k
    BY <2>2 DEF Ignored
  <2>3. CASE n > k
    <3>1. n - k \in 1 .. Len(s) - k /\ n - k + k = n
      BY <1>1, <2>3
    <3>2. r[n - k] = s[n] /\ n - k \in DOMAIN r
      BY <1>1, <3>1
    <3> QED BY <3>2 DEF Range
  <2> QED BY <1>1, <2>1, <2>2, <2>3
<1>3. ASSUME NEW n \in DOMAIN r
      PROVE  r[n] \in Range(s) /\ r[n] \in Range(Tail(s))
  <2>1. n + k \in DOMAIN s /\ n + k - 1 \in 1 .. Len(s) - 1 /\ n + k - 1 + 1 = n + k
    BY <1>1
  <2>2. r[n] = s[n + k] /\ Tail(s)[n + k - 1] = s[n + k] /\ n + k - 1 \in DOMAIN Tail(s)
    BY <1>1, <2>1
  <2> QED BY <2>1, <2>2 DEF Range
<1>4. s[1] \in Range(s) /\ Ignored(s, k) \subseteq Range(s)
  BY <1>1 DEF Range, Ignored
<1>5. /\ Range(s) \subseteq {s[1]} \cup Ignored(s, k) \cup Range(r)
      /\ Range(r) \subseteq Range(s) /\ Range(r) \subseteq Range(Tail(s))
  BY <1>2, <1>3 DEF Range
<1>6. Range(s) = {s[1]} \cup Ignored(s, k) \cup Range(r)
  BY <1>4, <1>5
<1> QED BY <1>5, <1>6 DEF r

\* How the places of a sequence move when its first element comes or goes.
LEMMA Shift ==
    ASSUME NEW S, NEW s \in Seq(S), s # <<>>, NEW t \in Seq(S), t = Tail(s)
    PROVE  /\ 1 \in DOMAIN s
           /\ \A n \in DOMAIN t : n + 1 \in DOMAIN s /\ n + 1 # 1 /\ t[n] = s[n + 1]
           /\ \A n \in DOMAIN s : n # 1 => n - 1 \in DOMAIN t /\ t[n - 1] = s[n]
           /\ \A n \in DOMAIN t, l \in DOMAIN s : l = n + 1 <=> n = l - 1
<1>1. /\ Len(s) \in Nat /\ Len(s) >= 1 /\ DOMAIN s = 1 .. Len(s)
      /\ DOMAIN t = 1 .. Len(s) - 1
      /\ \A n \in 1 .. Len(s) - 1 : t[n] = s[n + 1]
  OBVIOUS
<1>2. ASSUME NEW n \in DOMAIN t PROVE n + 1 \in DOMAIN s /\ n + 1 # 1 /\ t[n] = s[n + 1]
  BY <1>1
<1>3. ASSUME NEW n \in DOMAIN s, n # 1 PROVE n - 1 \in DOMAIN t /\ t[n - 1] = s[n]
  <2>1. n - 1 \in 1 .. Len(s) - 1 /\ n - 1 + 1 = n
    BY <1>1, <1>3
  <2>2. t[n - 1] = s[n - 1 + 1]
    BY <1>1, <2>1
  <2> QED BY <1>1, <2>1, <2>2
<1>4. ASSUME NEW n \in DOMAIN t, NEW l \in DOMAIN s PROVE l = n + 1 <=> n = l - 1
  BY <1>1
<1> QED BY <1>1, <1>2, <1>3, <1>4

LEMMA RangeTake ==
    ASSUME NEW S, NEW s \in Seq(S), s # <<>>, NEW t \in Seq(S), t = Tail(s)
    PROVE  /\ Range(s) = {s[1]} \cup Range(t)
           /\ OneFetch(s) <=> IF s[1] = Fetch THEN Fetch \notin Range(t) ELSE OneFetch(t)
<1>1. /\ 1 \in DOMAIN s
      /\ \A n \in DOMAIN t : n + 1 \in DOMAIN s /\ n + 1 # 1 /\ t[n] = s[n + 1]
      /\ \A n \in DOMAIN s : n # 1 => n - 1 \in DOMAIN t /\ t[n - 1] = s[n]
      /\ \A n \in DOMAIN t, l \in DOMAIN s : l = n + 1 <=> n = l - 1
  BY Shift
<1>2. Range(s) = {s[1]} \cup Range(t)
  <2>1. ASSUME NEW n \in DOMAIN s PROVE s[n] \in {s[1]} \cup Range(t)
    <3>1. CASE n = 1
      BY <3>1
    <3>2. CASE n # 1
      <4>1. n - 1 \in DOMAIN t /\ t[n - 1] = s[n]
        BY <1>1, <3>2
      <4> QED BY <4>1 DEF Range
    <3> QED BY <3>1, <3>2
  <2>2. ASSUME NEW n \in DOMAIN t PROVE t[n] \in Range(s)
    BY <1>1 DEF Range
  <2>3. s[1] \in Range(s)
    BY <1>1 DEF Range
  <2> QED BY <2>1, <2>2, <2>3 DEF Range
<1>3. CASE s[1] = Fetch
  <2>1. ASSUME OneFetch(s), NEW n \in DOMAIN t PROVE t[n] # Fetch
    <3>1. PICK o \in DOMAIN s : \A l \in DOMAIN s : s[l] = Fetch <=> l = o
      BY <2>1 DEF OneFetch
    <3>2. o = 1
      BY <1>1, <1>3, <3>1
    <3> QED BY <1>1, <3>1, <3>2
  <2>2. ASSUME Fetch \notin Range(t) PROVE OneFetch(s)
    <3>1. ASSUME NEW l \in DOMAIN s, l # 1 PROVE s[l] # Fetch
      BY <1>1, <2>2, <3>1 DEF Range
    <3>2. \A l \in DOMAIN s : s[l] = Fetch <=> l = 1
      BY <1>3, <3>1
    <3> QED BY <1>1, <3>2 DEF OneFetch
  <2>3. OneFetch(s) <=> Fetch \notin Range(t)
    BY <2>1, <2>2 DEF Range
  <2> QED BY <1>2, <1>3, <2>3
<1>4. CASE s[1] # Fetch
  <2>1. ASSUME OneFetch(s) PROVE OneFetch(t)
    <3>1. PICK o \in DOMAIN s : \A l \in DOMAIN s : s[l] = Fetch <=> l = o
      BY <2>1 DEF OneFetch
    <3>2. o - 1 \in DOMAIN t
      BY <1>1, <1>4, <3>1
    <3>3. ASSUME NEW n \in DOMAIN t PROVE t[n] = Fetch <=> n = o - 1
      <4>1. n + 1 \in DOMAIN s /\ t[n] = s[n + 1]
        BY <1>1
      <4>2. s[n + 1] = Fetch <=> n + 1 = o
        BY <3>1, <4>1
      <4>3. o = n + 1 <=> n = o - 1
        BY <1>1
      <4> QED BY <4>1, <4>2, <4>3
    <3> QED BY <3>2, <3>3 DEF OneFetch
  <2>2. ASSUME OneFetch(t) PROVE OneFetch(s)
    <3>1. PICK o \in DOMAIN t : \A l \in DOMAIN t : t[l] = Fetch <=> l = o
      BY <2>2 DEF OneFetch
    <3>2. o + 1 \in DOMAIN s /\ s[o + 1] = Fetch
      BY <1>1, <3>1
    <3>3. ASSUME NEW l \in DOMAIN s PROVE s[l] = Fetch <=> l = o + 1
      <4>1. CASE l = 1
        BY <1>1, <1>4, <3>1, <4>1
      <4>2. CASE l # 1
        <5>1. l - 1 \in DOMAIN t /\ t[l - 1] = s[l]
          BY <1>1, <4>2
        <5>2. t[l - 1] = Fetch <=> l - 1 = o
          BY <3>1, <5>1
        <5>3. l = o + 1 <=> o = l - 1
          BY <1>1
        <5> QED BY <5>1, <5>2, <5>3
      <4> QED BY <4>1, <4>2
    <3> QED BY <3>2, <3>3 DEF OneFetch
  <2> QED BY <1>2, <1>4, <2>1, <2>2
<1> QED BY <1>3, <1>4

LEMMA RangePut ==
    ASSUME NEW S, NEW s \in Seq(S), NEW m \in S
    PROVE  /\ Range(<<m>> \o s) = {m} \cup Range(s)
           /\ OneFetch(<<m>> \o s) <=> IF m = Fetch THEN Fetch \notin Range(s)
                                                    ELSE OneFetch(s)
<1> DEFINE t == <<m>> \o s
<1>1. t \in Seq(S) /\ t # <<>> /\ t[1] = m /\ Tail(t) = s
  OBVIOUS
<1> HIDE DEF t
<1>2. /\ Range(t) = {t[1]} \cup Range(Tail(t))
      /\ OneFetch(t) <=> IF t[1] = Fetch THEN Fetch \notin Range(Tail(t))
                                         ELSE OneFetch(Tail(t))
  BY <1>1, RangeTake
<1> QED BY <1>1, <1>2 DEF t

\* A message that carries no configuration changes nothing for those that do.
LEMMA AppendOther ==
    ASSUME NEW S, NEW s \in Seq(S), NEW m, m.type # "conf"
    PROVE  /\ HasConf(Append(s, m)) <=> HasConf(s)
           /\ \A conf : Carries(Append(s, m), conf) <=> Carries(s, conf)
BY RangeAppend DEF HasConf, Carries

\* No message that is lost to a read carries a configuration: the one that does
\* is read, or still there.
LEMMA ReadConf ==
    ASSUME NEW S, NEW s \in Seq(S), NEW k \in Nat, k >= 1, k <= Len(s),
           \A m \in Ignored(s, k) : m.type # "conf"
    PROVE  LET r == SubSeq(s, k + 1, Len(s))
           IN  /\ HasConf(s) <=> (s[1].type = "conf" \/ HasConf(r))
               /\ \A conf : Carries(s, conf) => /\ Carries(r, conf)
                                                /\ s[1].type = "conf" => s[1].conf = conf
<1> DEFINE r == SubSeq(s, k + 1, Len(s))
<1>1. Range(s) = {s[1]} \cup Ignored(s, k) \cup Range(r)
  BY RangeRead
<1> HIDE DEF r
<1>2. HasConf(s) <=> (s[1].type = "conf" \/ HasConf(r))
  BY <1>1 DEF HasConf
<1>3. ASSUME NEW conf, Carries(s, conf)
      PROVE  Carries(r, conf) /\ (s[1].type = "conf" => s[1].conf = conf)
  BY <1>1, <1>3 DEF Carries
<1> QED BY <1>2, <1>3 DEF r

\* The kinds of the messages.
LEMMA Kinds ==
    /\ Fetch.type = "fetch" /\ Mark.type = "mark" /\ Mark # Fetch
    /\ DsStart.type = "start" /\ DsEnd.type = "end"
    /\ \A conf : /\ [type |-> "conf", conf |-> conf].type = "conf"
                 /\ [type |-> "conf", conf |-> conf].conf = conf
                 /\ [type |-> "conf", conf |-> conf] # Fetch
    /\ \A m \in PiMsg : m.type = "fetch" => m = Fetch
BY DEF Fetch, Mark, DsStart, DsEnd, PiMsg

LEMMA EmptyQueue ==
    /\ Range(<<>>) = {} /\ ~HasConf(<<>>) /\ ~OneFetch(<<>>)
    /\ \A conf : Carries(<<>>, conf)
BY DEF Range, HasConf, Carries, OneFetch

-----------------------------------------------------------------------------
LEMMA InitEInv == Init => EInv
BY EmptyQueue DEF Init, EInv, InOrder, NoCommands, Going, Silent, NoCmd, Range

\* When all is at rest, both directions have arrived.
LEMMA EInvImplies == Types /\ EInv => Exchanged
<1> SUFFICES ASSUME Types, EInv, Rest, ~spoiled, cmds = 0
             PROVE  /\ TakenOver(pi, sync[conns].conf)
                    /\ TakenOver(ssc, answer[LastAnswer].conf)
  BY DEF Exchanged
<1>1. /\ toPi = <<>> /\ toSsc = <<>> /\ box = <<>> /\ Toward /\ Backward
      /\ \A c \in Conn : sync[c].pc \in {"none", "done"} /\ answer[c].pc \in {"none", "done"}
  BY DEF Rest, Still, Going, EInv
<1>2. TakenOver(pi, sync[conns].conf)
  BY <1>1, EmptyQueue DEF Toward
<1>3. PICK a \in Conn : Answering(a)
  BY <1>1, EmptyQueue DEF Backward, Requested, Queued
<1>4. answer[a].pc = "done" /\ IsLast(a)
  BY <1>1, <1>3 DEF Answering, IsLast
<1>5. TakenOver(ssc, answer[a].conf)
  BY <1>1, <1>3, <1>4, EmptyQueue DEF Answering
<1>6. ASSUME NEW c \in Conn, answer[c].pc = "done",
             \A d \in Conn : d > c => answer[d].pc = "none"
      PROVE  c = a
  <2>1. c \in Int /\ a \in Int
    BY DEF Conn
  <2>2. ~(a > c) /\ ~(c > a)
    BY <1>4, <1>6 DEF IsLast
  <2> QED BY <2>1, <2>2
<1>7. LastAnswer = a
  BY <1>4, <1>6 DEF LastAnswer, IsLast
<1> QED BY <1>2, <1>5, <1>7

\* Threads start in their order.
LEMMA OrderStep == ASSUME IInv, EInv, [Next]_vars PROVE InOrder'
<1> USE DEF EInv, InOrder
<1>1. CASE UNCHANGED answer
  BY <1>1
<1>2. CASE PiRestart
  BY <1>2 DEF PiRestart, Silent
<1>3. CASE DealTake /\ DealFetch
  <2>1. PICK c \in Conn : /\ \A d \in 1 .. c - 1 : answer[d].pc # "none"
                          /\ answer' = [answer EXCEPT ![c].pc = "age"]
    BY <1>3 DEF DealFetch
  <2>2. ASSUME NEW d \in Conn
        PROVE  answer'[d].pc = IF d = c THEN "age" ELSE answer[d].pc
    BY <2>1 DEF IInv, Types, AnswerState
  <2>3. \A d \in Conn : d < c => d \in 1 .. c - 1
    BY DEF Conn
  <2> QED BY <2>1, <2>2, <2>3
<1>4. ASSUME NEW c \in Conn, AnswerThread(c) PROVE InOrder'
  <2>0. answer \in [Conn -> AnswerState]
    BY DEF IInv, Types
  <2>1. \A d \in Conn : answer'[d].pc = "none" <=> answer[d].pc = "none"
    <3>1. CASE AnswerCopyAge(c)
      BY <2>0, <3>1 DEF AnswerCopyAge, AnswerState
    <3>2. CASE AnswerCopyPort(c)
      BY <2>0, <3>2 DEF AnswerCopyPort, AnswerState
    <3>3. CASE AnswerSend(c)
      BY <2>0, <3>3 DEF AnswerSend, AnswerState
    <3> QED BY <1>4, <3>1, <3>2, <3>3 DEF AnswerThread
  <2> QED BY <2>1
<1>5. UNCHANGED answer \/ PiRestart \/ (DealTake /\ DealFetch) \/ \E c \in Conn : AnswerThread(c)
  BY DEF Next, vars, piVars, sscVars, netVars, ghosts, Connect, SscRestart, SyncThread, SyncMark,
         SyncCopy, SyncSend, SscReads, SscRead, WatcherEnds, PiReads, PiRead, DealBegin,
         DealTake, DealConf, CliSend, CliSendInvalid, CliAge, CliLearn
<1> QED BY <1>1, <1>2, <1>3, <1>4, <1>5

\* What PI's answers send is no command.
LEMMA NoCommandsStep ==
    ASSUME IInv, EInv, [Next]_vars
    PROVE  conns' \in Nat /\ cmds' \in Nat /\ NoCommands'
<1>0. toSsc \in Seq(SscMsg) /\ conns \in Nat /\ cmds \in Nat
  BY DEF IInv, Types, EInv
<1>1. conns' \in Nat /\ cmds' \in Nat /\ (cmds' = 0 => cmds = 0)
  <2>1. (conns' = conns \/ conns' = conns + 1) /\ (cmds' = cmds \/ cmds' = cmds + 1)
    BY DEF Next, vars, ghosts, netVars, Connect, PiRestart, SscRestart, SyncThread, SyncMark,
           SyncCopy, SyncSend, AnswerThread, AnswerCopyAge, AnswerCopyPort, AnswerSend,
           SscReads, SscRead, WatcherEnds, PiReads, PiRead, DealBegin,
           DealTake, CliSend, CliSendInvalid, CliAge, CliLearn
  <2> QED BY <1>0, <2>1
<1> SUFFICES ASSUME cmds' = 0
             PROVE  cli' = NoCmd /\ \A m \in Range(toSsc') : m.type \notin {"age", "learn"}
  BY <1>1 DEF NoCommands
<1>2. cli = NoCmd /\ \A m \in Range(toSsc) : m.type \notin {"age", "learn"}
  BY <1>1 DEF EInv, NoCommands
<1>3. CASE UNCHANGED <<cli, toSsc>>
  BY <1>2, <1>3
<1>4. CASE Connect \/ PiRestart \/ SscRestart
  <2>1. cli' = NoCmd /\ (toSsc' = toSsc \/ toSsc' = <<>>)
    BY <1>2, <1>4 DEF Connect, PiRestart, SscRestart, piVars
  <2> QED BY <1>2, <2>1, EmptyQueue
<1>5. ASSUME NEW c \in Conn, AnswerSend(c)
      PROVE  cli' = NoCmd /\ \A m \in Range(toSsc') : m.type \notin {"age", "learn"}
  <2>1. ASSUME NEW m, PiSends(m), m.type \in {"start", "conf", "end"}
        PROVE  \A l \in Range(toSsc') : l.type \notin {"age", "learn"}
    BY <1>0, <1>2, <2>1, RangeAppend DEF PiSends
  <2> QED BY <1>2, <1>5, <2>1, Kinds DEF AnswerSend
<1>6. ASSUME NEW k \in 1 .. MaxRead, SscRead(k)
      PROVE  cli' = NoCmd /\ \A m \in Range(toSsc') : m.type \notin {"age", "learn"}
  <2>1. k \in Nat /\ k >= 1 /\ k <= Len(toSsc) /\ toSsc' = SubSeq(toSsc, k + 1, Len(toSsc))
    BY <1>6, ConfBoundsAssumption DEF SscRead
  <2>2. Range(toSsc') \subseteq Range(toSsc)
    BY <1>0, <2>1, RangeRead
  <2> QED BY <1>2, <1>6, <2>2 DEF SscRead, piVars
<1>7. ~(\E c \in Cmd : CliSend(c)) /\ ~CliSendInvalid
  BY <1>0 DEF CliSend, CliSendInvalid
<1>8. ~CliAge /\ ~CliLearn
  BY <1>2, Commands DEF CliAge, CliLearn
<1>9. \/ UNCHANGED <<cli, toSsc>>
      \/ Connect \/ PiRestart \/ SscRestart
      \/ \E c \in Conn : AnswerSend(c)
      \/ \E k \in 1 .. MaxRead : SscRead(k)
  BY <1>7, <1>8 DEF Next, vars, piVars, sscVars, netVars, ghosts, SyncThread, SyncMark,
         SyncCopy, SyncSend, AnswerThread, AnswerCopyAge, AnswerCopyPort,
         SscReads, WatcherEnds, PiReads, PiRead, DealBegin, DealTake
<1> QED BY <1>3, <1>4, <1>5, <1>6, <1>9

-----------------------------------------------------------------------------
\* A new connection, made when nothing is under way, begins an exchange.
LEMMA ConnectGoing ==
    ASSUME IInv, EInv, Connect, Going' PROVE Toward' /\ Backward'
<1>1. /\ Still /\ toPi = <<>> /\ toSsc = <<>> /\ box = <<>>
      /\ \A c \in Conn : sync[c].pc \in {"none", "done"} /\ answer[c].pc \in {"none", "done"}
  BY DEF Connect, Going, Still
<1>2. toPi' = <<Fetch>> /\ UNCHANGED <<toSsc, box, answer, pi>>
  BY <1>1 DEF Connect, piVars
<1>3. conns' \in Conn
  BY ConfBoundsAssumption DEF Connect, EInv, Conn
<1>4. \A c \in Conn : sync'[c].pc = IF c = conns' THEN "start" ELSE sync[c].pc
  BY <1>3 DEF Connect, IInv, Types, SyncState
<1>5. toPi'[1] = Fetch /\ Range(toPi') = {Fetch} /\ Tail(toPi') = <<>> /\ toPi' # <<>>
  BY <1>2 DEF Range
<1>6. ~HasConf(toPi') /\ ~HasConf(box') /\ ~HasConf(toSsc')
  BY <1>1, <1>2, <1>5, EmptyQueue, Kinds DEF HasConf
<1>7. Toward'
  BY <1>1, <1>3, <1>4, <1>6 DEF Toward
<1>8. Requested'
  BY <1>1, <1>2, <1>5, <1>6, EmptyQueue DEF Requested, AnswersRest
<1> QED BY <1>7, <1>8 DEF Backward

\* Nothing else makes up for what was lost.
LEMMA GoingBefore ==
    ASSUME EInv, [Next]_vars, Going', ~Connect
    PROVE  Going /\ Toward /\ Backward /\ up
<1>0. cmds \in Nat
  BY DEF EInv
<1>1. up' => up
  BY DEF Next, vars, ghosts, netVars, PiRestart, SscRestart, SyncThread, SyncMark,
         SyncCopy, SyncSend, AnswerThread, AnswerCopyAge, AnswerCopyPort, AnswerSend,
         SscReads, SscRead, WatcherEnds, PiReads, PiRead, DealBegin,
         DealTake, CliSend, CliSendInvalid, CliAge, CliLearn
<1>4. spoiled => spoiled'
  <2>1. ASSUME NEW m, PiSends(m) \/ SscSends(m), spoiled PROVE spoiled'
    BY <2>1, Zenon DEF PiSends, SscSends
  <2>2. ASSUME NEW k, SscRead(k) \/ PiRead(k), spoiled PROVE spoiled'
    BY <2>2, Zenon DEF SscRead, PiRead
  <2>3. CASE UNCHANGED spoiled
    BY <2>3
  <2>4. \/ UNCHANGED spoiled
        \/ \E m : PiSends(m) \/ SscSends(m)
        \/ \E k : SscRead(k) \/ PiRead(k)
    BY DEF Next, vars, ghosts, netVars, PiRestart, SscRestart, SyncThread, SyncMark,
           SyncCopy, SyncSend, AnswerThread, AnswerCopyAge, AnswerCopyPort, AnswerSend,
           SscReads, WatcherEnds, PiReads, DealBegin,
           DealTake, CliSend, CliSendInvalid, CliAge, CliLearn
  <2> QED BY <2>1, <2>2, <2>3, <2>4
<1>2. cmds' = cmds \/ cmds' = cmds + 1
  BY DEF Next, vars, ghosts, netVars, PiRestart, SscRestart, SyncThread, SyncMark,
         SyncCopy, SyncSend, AnswerThread, AnswerCopyAge, AnswerCopyPort, AnswerSend,
         SscReads, SscRead, WatcherEnds, PiReads, PiRead, DealBegin,
         DealTake, CliSend, CliSendInvalid, CliAge, CliLearn
<1>3. cmds = 0
  BY <1>0, <1>2 DEF Going
<1> QED BY <1>1, <1>3, <1>4 DEF Going, EInv

\* The thread that synchronises is the one of this connection.
LEMMA SyncGoing ==
    ASSUME IInv, Going, Toward, Backward, NEW c \in Conn, SyncThread(c)
    PROVE  Toward' /\ Backward'
<1>0. toPi \in Seq(PiMsg) /\ sync[c] \in SyncState /\ sync \in [Conn -> SyncState]
  BY DEF IInv, Types
<1>1. c = conns /\ conns \in Conn /\ up
  BY DEF Toward, SyncThread, SyncMark, SyncCopy, SyncSend, Going
<1>2. UNCHANGED <<pi, box, answer, ssc, toSsc, conns>>
  BY DEF SyncThread, SyncMark, SyncCopy, SyncSend, piVars, netVars
<1>3. ASSUME NEW m, m # Fetch, toPi' = Append(toPi, m) PROVE Backward'
  <2>1. Range(toPi') = Range(toPi) \cup {m}
    BY <1>0, <1>3, RangeAppend
  <2>2. ASSUME Requested PROVE Requested'
    <3>1. toPi' # <<>> /\ toPi'[1] = toPi[1] /\ Tail(toPi') = Append(Tail(toPi), m)
      BY <1>0, <1>3, <2>2 DEF Requested
    <3>2. Range(Tail(toPi')) = Range(Tail(toPi)) \cup {m}
      <4>1. Tail(toPi) \in Seq(PiMsg)
        BY <1>0, <2>2 DEF Requested
      <4>2. Range(Append(Tail(toPi), m)) = Range(Tail(toPi)) \cup {m}
        BY <4>1, RangeAppend
      <4> QED BY <3>1, <4>2
    <3> QED BY <1>2, <1>3, <2>2, <3>1, <3>2 DEF Requested, AnswersRest
  <2>3. ASSUME Queued PROVE Queued'
    BY <1>2, <1>3, <2>1, <2>3 DEF Queued, AnswersRest
  <2>4. ASSUME NEW a \in Conn, Answering(a) PROVE Answering(a)'
    BY <1>2, <1>3, <2>1, <2>4 DEF Answering, IsLast
  <2> QED BY <2>2, <2>3, <2>4 DEF Backward
<1>4. CASE SyncMark(c)
  <2>1. toPi' = Append(toPi, Mark)
    BY <1>1, <1>4 DEF SyncMark, SscSends
  <2>2. /\ sync[c].pc = "start" => sync'[c] = [sync[c] EXCEPT !.pc = "copy"]
        /\ sync[c].pc = "end" => sync'[c] = [sync[c] EXCEPT !.pc = "done"]
        /\ sync[c].pc \in {"start", "end"}
        /\ \A d \in Conn : d # c => sync'[d] = sync[d]
    BY <1>0, <1>4 DEF SyncMark
  <2>3. /\ HasConf(toPi') <=> HasConf(toPi)
        /\ \A conf : Carries(toPi', conf) <=> Carries(toPi, conf)
    BY <1>0, <2>1, AppendOther, Kinds
  <2>4. /\ sync'[c].conf = sync[c].conf
        /\ sync'[c].pc = IF sync[c].pc = "start" THEN "copy" ELSE "done"
    BY <1>0, <2>2 DEF SyncState
  <2>5. Toward'
    BY <1>1, <1>2, <2>2, <2>3, <2>4 DEF Toward
  <2> QED BY <1>3, <2>1, <2>5, Kinds
<1>5. CASE SyncCopy(c)
  <2>1. /\ sync[c].pc = "copy" /\ sync'[c].pc = "send" /\ UNCHANGED toPi
        /\ \A d \in Conn : d # c => sync'[d] = sync[d]
    BY <1>0, <1>5 DEF SyncCopy, netVars
  <2>2. Toward'
    BY <1>1, <1>2, <2>1 DEF Toward
  <2>3. Backward'
    BY <1>2, <2>1 DEF Backward, Requested, Queued, Answering, IsLast, AnswersRest
  <2> QED BY <2>2, <2>3
<1>6. CASE SyncSend(c)
  <2> DEFINE m == [type |-> "conf", conf |-> sync[c].conf]
  <2>1. /\ toPi' = Append(toPi, m) /\ sync[c].pc = "send"
        /\ sync'[c] = [sync[c] EXCEPT !.pc = "end"]
        /\ \A d \in Conn : d # c => sync'[d] = sync[d]
    BY <1>0, <1>1, <1>6 DEF SyncSend, SscSends
  <2>2. sync'[c].pc = "end" /\ sync'[c].conf = sync[c].conf
    BY <1>0, <2>1 DEF SyncState
  <2>3. ~HasConf(toPi) /\ ~HasConf(box)
    BY <1>1, <2>1 DEF Toward
  <2>4. Range(toPi') = Range(toPi) \cup {m}
    BY <1>0, <2>1, RangeAppend
  <2>5. HasConf(toPi') /\ Carries(toPi', sync[c].conf) /\ Carries(box, sync[c].conf)
    BY <2>3, <2>4, Kinds DEF HasConf, Carries
  <2>6. Toward'
    BY <1>1, <1>2, <2>1, <2>2, <2>5 DEF Toward
  <2> QED BY <1>3, <2>1, <2>6, Kinds
<1> QED BY <1>4, <1>5, <1>6 DEF SyncThread

\* What SSC reads takes the answer nearer to its end.
LEMMA SscReadGoing ==
    ASSUME IInv, EInv, Going, Toward, Backward, ~spoiled', NEW k \in 1 .. MaxRead, SscRead(k)
    PROVE  Toward' /\ Backward'
<1> DEFINE r == SubSeq(toSsc, k + 1, Len(toSsc))
<1>0. /\ toSsc \in Seq(SscMsg) /\ k \in Nat /\ k >= 1 /\ k <= Len(toSsc)
      /\ toSsc' = r /\ SscHandle(toSsc[1])
      /\ UNCHANGED <<pi, box, answer, sync, toPi, conns>>
  BY ConfBoundsAssumption DEF IInv, Types, SscRead, piVars
<1>1. \A m \in Ignored(toSsc, k) : m.type # "conf"
  <2>1. \A m \in Ignored(toSsc, k) : ~Vital(m)
    BY Zenon DEF SscRead
  <2> QED BY <2>1 DEF Vital
<1> HIDE DEF r
<1>2. /\ HasConf(toSsc) <=> (toSsc[1].type = "conf" \/ HasConf(toSsc'))
      /\ \A conf : Carries(toSsc, conf) => /\ Carries(toSsc', conf)
                                           /\ toSsc[1].type = "conf" => toSsc[1].conf = conf
  <2>1. /\ HasConf(toSsc) <=> (toSsc[1].type = "conf" \/ HasConf(r))
        /\ \A conf : Carries(toSsc, conf) => /\ Carries(r, conf)
                                             /\ toSsc[1].type = "conf" => toSsc[1].conf = conf
    BY <1>0, <1>1, ReadConf DEF r
  <2>2. toSsc' = r
    BY <1>0
  <2> QED BY <2>1, <2>2
<1>3. toSsc[1].type \notin {"age", "learn"}
  BY <1>0 DEF Going, EInv, NoCommands, Range
<1>4. \/ UNCHANGED ssc /\ toSsc[1].type # "conf"
      \/ toSsc[1].type = "conf" /\ SscDsData(toSsc[1].conf)
  BY <1>0, <1>3, Kinds DEF SscHandle, SscDsStart, SscDsEnd
<1>5. Toward'
  BY <1>0 DEF Toward
<1>6. ASSUME Requested \/ Queued PROVE Backward'
  BY <1>0, <1>2, <1>6 DEF Backward, Requested, Queued, AnswersRest
<1>7. ASSUME NEW a \in Conn, Answering(a) PROVE Answering(a)'
  <2>1. CASE answer[a].pc \in {"end", "done"}
    <3>1. Carries(toSsc', answer[a].conf)
      BY <1>2, <1>7, <2>1 DEF Answering
    <3>2. TakenOver(ssc', answer[a].conf) \/ HasConf(toSsc')
      <4>1. CASE toSsc[1].type = "conf"
        <5>1. toSsc[1].conf = answer[a].conf /\ SscDsData(answer[a].conf)
          BY <1>2, <1>4, <1>7, <2>1, <4>1 DEF Answering
        <5>2. /\ ssc'.age = answer[a].conf.age
              /\ \A p \in Port : p < PortNum => ssc'.port[p] = answer[a].conf.port[p]
          BY <5>1 DEF SscDsData
        <5>3. \A p \in 1 .. PortNum - 1 : p \in Port /\ p < PortNum
          BY PortNumAssumption DEF Port
        <5> QED BY <5>2, <5>3 DEF TakenOver
      <4>2. CASE toSsc[1].type # "conf"
        BY <1>2, <1>4, <1>7, <2>1, <4>2 DEF Answering
      <4> QED BY <4>1, <4>2
    <3> QED BY <1>0, <1>7, <2>1, <3>1, <3>2 DEF Answering, IsLast
  <2>2. CASE answer[a].pc \notin {"end", "done"}
    BY <1>0, <1>2, <1>7, <2>2 DEF Answering, IsLast
  <2> QED BY <2>1, <2>2
<1> QED BY <1>5, <1>6, <1>7 DEF Backward

\* PI puts what it reads into its queue.
LEMMA PiReadGoing ==
    ASSUME IInv, Going, Toward, Backward, ~spoiled', NEW k \in 1 .. MaxRead, PiRead(k)
    PROVE  Toward' /\ Backward'
<1> DEFINE r == SubSeq(toPi, k + 1, Len(toPi))
<1>0. /\ toPi \in Seq(PiMsg) /\ box \in Seq(PiMsg)
      /\ k \in Nat /\ k >= 1 /\ k <= Len(toPi)
      /\ toPi' = r /\ box' = <<toPi[1]>> \o box
      /\ UNCHANGED <<pi, answer, ssc, sync, toSsc, conns>>
  BY ConfBoundsAssumption DEF IInv, Types, PiRead, sscVars, Q!Put
<1>1. \A m \in Ignored(toPi, k) : m.type # "conf"
  <2>1. \A m \in Ignored(toPi, k) : ~Vital(m)
    BY Zenon DEF PiRead
  <2> QED BY <2>1 DEF Vital
<1>2. /\ Range(toPi) = {toPi[1]} \cup Ignored(toPi, k) \cup Range(r)
      /\ Range(r) \subseteq Range(Tail(toPi))
  BY <1>0, RangeRead
<1> HIDE DEF r
<1>3. /\ HasConf(toPi) <=> (toPi[1].type = "conf" \/ HasConf(toPi'))
      /\ \A conf : Carries(toPi, conf) => /\ Carries(toPi', conf)
                                          /\ toPi[1].type = "conf" => toPi[1].conf = conf
  <2>1. /\ HasConf(toPi) <=> (toPi[1].type = "conf" \/ HasConf(r))
        /\ \A conf : Carries(toPi, conf) => /\ Carries(r, conf)
                                            /\ toPi[1].type = "conf" => toPi[1].conf = conf
    BY <1>0, <1>1, ReadConf DEF r
  <2>2. toPi' = r
    BY <1>0
  <2> QED BY <2>1, <2>2
<1>4. toPi[1] \in PiMsg
  BY <1>0
<1>5. /\ Range(box') = {toPi[1]} \cup Range(box)
      /\ OneFetch(box') <=> IF toPi[1] = Fetch THEN Fetch \notin Range(box) ELSE OneFetch(box)
  BY <1>0, <1>4, RangePut
<1>6. /\ HasConf(box') <=> (toPi[1].type = "conf" \/ HasConf(box))
      /\ \A conf : Carries(box', conf) <=>
            (Carries(box, conf) /\ (toPi[1].type = "conf" => toPi[1].conf = conf))
  BY <1>5 DEF HasConf, Carries
<1>7. Toward'
  <2>1. CASE sync[conns].pc \in {"end", "done"}
    <3>1. /\ Carries(toPi', sync[conns].conf) /\ Carries(box', sync[conns].conf)
          /\ TakenOver(pi, sync[conns].conf) \/ HasConf(toPi') \/ HasConf(box')
      BY <1>3, <1>6, <2>1 DEF Toward
    <3> QED BY <1>0, <2>1, <3>1 DEF Toward
  <2>2. CASE sync[conns].pc \notin {"end", "done"}
    BY <1>0, <1>3, <1>6, <2>2 DEF Toward
  <2> QED BY <2>1, <2>2
<1>8. ASSUME Requested PROVE Queued'
  <2>1. OneFetch(box') /\ Fetch \notin Range(toPi')
    BY <1>0, <1>2, <1>5, <1>8 DEF Requested
  <2> QED BY <1>0, <1>8, <2>1 DEF Requested, Queued, AnswersRest
<1>9. ASSUME Queued PROVE Queued'
  <2>1. toPi[1] # Fetch /\ Fetch \notin Range(toPi')
    BY <1>0, <1>2, <1>9 DEF Queued
  <2> QED BY <1>0, <1>5, <1>9, <2>1 DEF Queued, AnswersRest
<1>10. ASSUME NEW a \in Conn, Answering(a) PROVE Answering(a)'
  <2>1. Fetch \notin Range(toPi') /\ Fetch \notin Range(box')
    BY <1>0, <1>2, <1>5, <1>10 DEF Answering
  <2> QED BY <1>0, <1>10, <2>1 DEF Answering, IsLast
<1> QED BY <1>7, <1>8, <1>9, <1>10 DEF Backward

\* PI takes over what it has queued, and starts a thread for the request.
LEMMA DealGoing ==
    ASSUME IInv, EInv, Going, Toward, Backward, DealBegin \/ DealTake
    PROVE  Toward' /\ Backward'
<1>1. CASE DealBegin
  <2>1. UNCHANGED <<pi, box, answer, ssc, sync, toPi, toSsc, conns>>
    BY <1>1 DEF DealBegin, Q!Begin, sscVars, netVars
  <2> QED BY <2>1 DEF Toward, Backward, Requested, Queued, Answering, IsLast, AnswersRest
<1>2. CASE DealTake
  <2>0. /\ box \in Seq(PiMsg) /\ box # <<>> /\ box' = Tail(box)
        /\ UNCHANGED <<ssc, sync, toPi, toSsc, conns>>
        /\ answer \in [Conn -> AnswerState]
    BY <1>2 DEF DealTake, Q!Take, IInv, Types, sscVars, netVars
  <2>1. box' \in Seq(PiMsg) /\ box[1] \in PiMsg
    BY <2>0
  <2>2. /\ Range(box) = {box[1]} \cup Range(box')
        /\ OneFetch(box) <=> IF box[1] = Fetch THEN Fetch \notin Range(box') ELSE OneFetch(box')
    <3> DEFINE t == Tail(box)
    <3>1. t \in Seq(PiMsg)
      BY <2>0, <2>1
    <3> HIDE DEF t
    <3>2. /\ Range(box) = {box[1]} \cup Range(t)
          /\ OneFetch(box) <=> IF box[1] = Fetch THEN Fetch \notin Range(t) ELSE OneFetch(t)
      BY <2>0, <3>1, RangeTake DEF t
    <3>3. box' = t
      BY <2>0 DEF t
    <3> QED BY <3>2, <3>3
  <2>3. /\ HasConf(box) <=> (box[1].type = "conf" \/ HasConf(box'))
        /\ \A conf : Carries(box, conf) <=>
              (Carries(box', conf) /\ (box[1].type = "conf" => box[1].conf = conf))
    BY <2>2 DEF HasConf, Carries
  <2>4. \/ box[1].type = "conf" /\ DealConf(box[1].conf)
        \/ box[1] = Fetch /\ DealFetch
        \/ box[1].type = "mark" /\ UNCHANGED <<pi, answer>>
    BY <1>2, <2>1, Kinds DEF DealTake
  <2>5. Toward'
    <3>1. CASE sync[conns].pc \in {"end", "done"}
      <4>1. Carries(toPi, sync[conns].conf) /\ Carries(box', sync[conns].conf)
        BY <2>3, <3>1 DEF Toward
      <4>2. TakenOver(pi', sync[conns].conf) \/ HasConf(toPi) \/ HasConf(box')
        <5>1. CASE box[1].type = "conf" /\ DealConf(box[1].conf)
          <6>1. box[1].conf = sync[conns].conf /\ DealConf(sync[conns].conf)
            BY <2>3, <3>1, <5>1 DEF Toward
          <6>2. /\ pi'.age = sync[conns].conf.age
                /\ \A p \in Port : p < PortNum => pi'.port[p] = sync[conns].conf.port[p]
            BY <6>1 DEF DealConf
          <6>3. \A p \in 1 .. PortNum - 1 : p \in Port /\ p < PortNum
            BY PortNumAssumption DEF Port
          <6> QED BY <6>2, <6>3 DEF TakenOver
        <5>2. CASE UNCHANGED pi /\ box[1].type # "conf"
          BY <2>3, <3>1, <5>2 DEF Toward
        <5> QED BY <2>4, <5>1, <5>2, Kinds DEF DealFetch
      <4> QED BY <2>0, <3>1, <4>1, <4>2 DEF Toward
    <3>2. CASE sync[conns].pc \notin {"end", "done"}
      BY <2>0, <2>3, <3>2 DEF Toward
    <3> QED BY <3>1, <3>2
  <2>6. CASE box[1] = Fetch /\ DealFetch
    <3>1. PICK c \in Conn : /\ answer[c].pc = "none"
                            /\ answer' = [answer EXCEPT ![c].pc = "age"]
      BY <2>6 DEF DealFetch
    <3>2. ASSUME NEW d \in Conn
          PROVE  answer'[d].pc = IF d = c THEN "age" ELSE answer[d].pc
      BY <2>0, <3>1 DEF AnswerState
    <3>3. Queued
      BY <2>2, <2>6 DEF Backward, Requested, Answering
    <3>4. Fetch \notin Range(toPi') /\ Fetch \notin Range(box') /\ ~HasConf(toSsc')
      BY <2>0, <2>2, <2>6, <3>3 DEF Queued
    <3>5. \A d \in Conn : d > c => answer[d].pc = "none"
      BY <3>1 DEF EInv, InOrder, Conn
    <3>6. IsLast(c)'
      <4>1. answer'[c].pc # "none"
        BY <3>2
      <4>2. ASSUME NEW d \in Conn
            PROVE  /\ d > c => answer'[d].pc = "none"
                   /\ d # c => answer'[d].pc \in {"none", "done"}
        BY <3>2, <3>3, <3>5 DEF Queued, AnswersRest, Conn
      <4> QED BY <4>1, <4>2 DEF IsLast
    <3>7. answer'[c].pc \notin {"end", "done"}
      BY <3>2
    <3>8. Answering(c)'
      BY <3>4, <3>6, <3>7 DEF Answering
    <3> QED BY <2>5, <3>8 DEF Backward
  <2>7. CASE box[1] # Fetch /\ UNCHANGED answer
    <3>1. ASSUME Requested PROVE Requested'
      BY <2>0, <2>2, <2>7, <3>1 DEF Requested, AnswersRest
    <3>2. ASSUME Queued PROVE Queued'
      BY <2>0, <2>2, <2>7, <3>2 DEF Queued, AnswersRest
    <3>3. ASSUME NEW a \in Conn, Answering(a) PROVE Answering(a)'
      BY <2>0, <2>2, <2>7, <3>3 DEF Answering, IsLast
    <3> QED BY <2>5, <3>1, <3>2, <3>3 DEF Backward
  <2> QED BY <2>4, <2>6, <2>7, Kinds DEF DealConf
<1> QED BY <1>1, <1>2

\* The thread that answers is the last one.
LEMMA AnswerGoing ==
    ASSUME IInv, Going, Toward, Backward, NEW c \in Conn, AnswerThread(c)
    PROVE  Toward' /\ Backward'
<1>0. /\ answer \in [Conn -> AnswerState] /\ answer[c] \in AnswerState
      /\ toSsc \in Seq(SscMsg) /\ up
  BY DEF IInv, Types, Going
<1>1. answer[c].pc \notin {"none", "done"}
  BY DEF AnswerThread, AnswerCopyAge, AnswerCopyPort, AnswerSend
<1>2. Answering(c)
  BY <1>1 DEF Backward, Requested, Queued, AnswersRest, Answering, IsLast
<1>3. UNCHANGED <<pi, box, ssc, sync, toPi, conns>>
  BY DEF AnswerThread, AnswerCopyAge, AnswerCopyPort, AnswerSend, sscVars, netVars
<1>4. Toward'
  BY <1>3 DEF Toward
<1>5. \A d \in Conn : d # c => answer'[d] = answer[d]
  BY <1>0 DEF AnswerThread, AnswerCopyAge, AnswerCopyPort, AnswerSend
<1>6. answer'[c].pc # "none"
  <2>1. CASE AnswerCopyAge(c)
    BY <1>0, <2>1 DEF AnswerCopyAge, AnswerState
  <2>2. CASE AnswerCopyPort(c)
    BY <1>0, <2>2 DEF AnswerCopyPort, AnswerState
  <2>3. CASE AnswerSend(c)
    BY <1>0, <2>3 DEF AnswerSend, AnswerState
  <2> QED BY <2>1, <2>2, <2>3 DEF AnswerThread
<1>7. /\ Fetch \notin Range(toPi') /\ Fetch \notin Range(box') /\ IsLast(c)'
  BY <1>2, <1>3, <1>5, <1>6 DEF Answering, IsLast
<1>8. ASSUME answer'[c].pc \notin {"end", "done"}, ~HasConf(toSsc') PROVE Answering(c)'
  BY <1>7, <1>8 DEF Answering
<1>9. ASSUME answer'[c].pc \in {"end", "done"}, Carries(toSsc', answer'[c].conf),
             TakenOver(ssc, answer'[c].conf) \/ HasConf(toSsc')
      PROVE  Answering(c)'
  BY <1>3, <1>7, <1>9 DEF Answering
<1>10. CASE AnswerCopyAge(c) \/ AnswerCopyPort(c)
  <2>1. UNCHANGED toSsc /\ answer[c].pc \in {"age", "ports"}
    BY <1>10 DEF AnswerCopyAge, AnswerCopyPort, netVars
  <2>2. answer'[c].pc \in {"ports", "start"}
    <3>1. CASE AnswerCopyAge(c)
      BY <1>0, <3>1 DEF AnswerCopyAge, AnswerState
    <3>2. CASE AnswerCopyPort(c)
      BY <1>0, <3>2 DEF AnswerCopyPort, AnswerState
    <3> QED BY <1>10, <3>1, <3>2
  <2>3. ~HasConf(toSsc)
    BY <1>2, <2>1 DEF Answering
  <2> QED BY <1>4, <1>8, <2>1, <2>2, <2>3 DEF Backward
<1>11. CASE answer[c].pc = "start" /\ AnswerSend(c)
  <2>1. toSsc' = Append(toSsc, DsStart) /\ answer'[c].pc = "conf"
    BY <1>0, <1>11 DEF AnswerSend, PiSends, AnswerState
  <2>2. ~HasConf(toSsc')
    BY <1>0, <1>2, <1>11, <2>1, AppendOther, Kinds DEF Answering
  <2> QED BY <1>4, <1>8, <2>1, <2>2 DEF Backward
<1>12. CASE answer[c].pc = "conf" /\ AnswerSend(c)
  <2> DEFINE m == [type |-> "conf", conf |-> answer[c].conf]
  <2>1. toSsc' = Append(toSsc, m) /\ answer' = [answer EXCEPT ![c].pc = "end"]
    BY <1>0, <1>12 DEF AnswerSend, PiSends
  <2>2. answer'[c].pc = "end" /\ answer'[c].conf = answer[c].conf
    BY <1>0, <2>1 DEF AnswerState
  <2>3. ~HasConf(toSsc) /\ Range(toSsc') = Range(toSsc) \cup {m}
    BY <1>0, <1>2, <1>12, <2>1, RangeAppend DEF Answering
  <2>4. HasConf(toSsc') /\ Carries(toSsc', answer[c].conf)
    BY <2>3, Kinds DEF HasConf, Carries
  <2> QED BY <1>4, <1>9, <2>2, <2>4 DEF Backward
<1>13. CASE answer[c].pc = "end" /\ AnswerSend(c)
  <2>1. toSsc' = Append(toSsc, DsEnd) /\ answer' = [answer EXCEPT ![c].pc = "done"]
    BY <1>0, <1>13 DEF AnswerSend, PiSends
  <2>2. answer'[c].pc = "done" /\ answer'[c].conf = answer[c].conf
    BY <1>0, <2>1 DEF AnswerState
  <2>3. /\ HasConf(toSsc') <=> HasConf(toSsc)
        /\ Carries(toSsc', answer[c].conf) <=> Carries(toSsc, answer[c].conf)
    BY <1>0, <2>1, AppendOther, Kinds
  <2>4. /\ Carries(toSsc', answer[c].conf)
        /\ TakenOver(ssc, answer[c].conf) \/ HasConf(toSsc')
    BY <1>2, <1>13, <2>3 DEF Answering
  <2> QED BY <1>4, <1>9, <2>2, <2>4 DEF Backward
<1> QED BY <1>10, <1>11, <1>12, <1>13 DEF AnswerThread, AnswerSend

-----------------------------------------------------------------------------
LEMMA StepEInv == IInv /\ EInv /\ [Next]_vars => EInv'
<1> SUFFICES ASSUME IInv, EInv, [Next]_vars PROVE EInv'
  OBVIOUS
<1>1. InOrder' /\ NoCommands' /\ conns' \in Nat /\ cmds' \in Nat
  BY OrderStep, NoCommandsStep
<1> SUFFICES ASSUME Going' PROVE Toward' /\ Backward'
  BY <1>1 DEF EInv
<1>2. CASE Connect
  BY <1>2, ConnectGoing
<1>3. CASE ~Connect
  <2>1. Going /\ Toward /\ Backward
    BY <1>3, GoingBefore
  <2>2. ~spoiled' /\ up' /\ cmds' = 0 /\ cmds = 0 /\ cli = NoCmd
    BY <2>1 DEF Going, EInv, NoCommands
  <2>3. CASE UNCHANGED <<pi, box, answer, ssc, sync, toPi, toSsc, conns>>
    BY <2>1, <2>3 DEF Toward, Backward, Requested, Queued, Answering, IsLast, AnswersRest
  <2>4. CASE \E c \in Conn : SyncThread(c) \/ AnswerThread(c)
    BY <2>1, <2>4, SyncGoing, AnswerGoing
  <2>5. CASE SscReads \/ PiReads
    BY <2>1, <2>2, <2>5, SscReadGoing, PiReadGoing DEF SscReads, PiReads
  <2>6. CASE DealBegin \/ DealTake
    BY <2>1, <2>6, DealGoing
  <2>7. ~PiRestart /\ ~SscRestart
    BY <2>2 DEF PiRestart, SscRestart
  <2>8. ~(\E c \in Cmd : CliSend(c)) /\ ~CliSendInvalid
    BY <2>2 DEF CliSend, CliSendInvalid
  <2>9. ~CliAge /\ ~CliLearn
    BY <2>2, Commands DEF CliAge, CliLearn
  <2>10. WatcherEnds \/ UNCHANGED vars =>
            UNCHANGED <<pi, box, answer, ssc, sync, toPi, toSsc, conns>>
    BY DEF WatcherEnds, vars, piVars, sscVars, netVars
  <2> QED BY <1>3, <2>3, <2>4, <2>5, <2>6, <2>7, <2>8, <2>9, <2>10 DEF Next
<1> QED BY <1>2, <1>3

\* When an exchange that lost nothing and met no other has ended, each side has
\* the configuration that the other sent.
THEOREM ExchangeTakesOver == Spec => []Exchanged
<1>1. IInv => Types
  BY DEF IInv
<1> QED BY InitIInv, StepIInv, InitEInv, StepEInv, EInvImplies, <1>1, PTL DEF Spec
-----------------------------------------------------------------------------
\* The type invariant: what it adds to Types are the counters.  A watcher is
\* the last form of a request: each connection sends one, PI starts one thread
\* for it, and this thread sends one start mark.  So there are never more of
\* these together than there have been connections.
Count(s, m) == Cardinality({n \in DOMAIN s : s[n] = m})

Starting == {c \in Conn : answer[c].pc \in {"age", "ports", "start"}}

Requests == watchers + Count(toSsc, DsStart) + Cardinality(Starting)
                     + Count(toPi, Fetch) + Count(box, Fetch)

Counted ==
    /\ conns \in Nat /\ cmds \in Nat /\ watchers \in Nat
    /\ conns + cmds <= MaxEvents
    /\ Requests <= conns

Flags ==
    /\ draining \in BOOLEAN /\ dsIsEnd \in {0, 1} /\ up \in BOOLEAN
    /\ spoiled \in BOOLEAN /\ endLost \in BOOLEAN

\* How many of a message a queue holds, after each of the operations on it.
LEMMA Places ==
    ASSUME NEW S, NEW s \in Seq(S), NEW m
    PROVE  /\ IsFiniteSet({n \in DOMAIN s : s[n] = m})
           /\ Count(s, m) \in Nat
<1>1. IsFiniteSet(1 .. Len(s)) /\ DOMAIN s = 1 .. Len(s)
  BY FS_Interval
<1>2. {n \in DOMAIN s : s[n] = m} \in SUBSET (1 .. Len(s))
  BY <1>1
<1>3. IsFiniteSet({n \in DOMAIN s : s[n] = m})
  BY <1>1, <1>2, FS_Subset
<1> QED BY <1>3, FS_CardinalityType DEF Count

LEMMA CountNone == \A m : Count(<<>>, m) = 0
<1> SUFFICES ASSUME NEW m PROVE Count(<<>>, m) = 0
  OBVIOUS
<1>1. {n \in DOMAIN << >> : << >>[n] = m} = {}
  OBVIOUS
<1> QED BY <1>1, FS_EmptySet DEF Count

LEMMA CountAppend ==
    ASSUME NEW S, NEW s \in Seq(S), NEW x \in S, NEW m
    PROVE  Count(Append(s, x), m) = IF x = m THEN Count(s, m) + 1 ELSE Count(s, m)
<1> DEFINE P == {n \in DOMAIN s : s[n] = m}
           t == Append(s, x)
<1>1. IsFiniteSet(P) /\ Count(s, m) = Cardinality(P)
  BY Places DEF Count
<1>2. /\ DOMAIN s = 1 .. Len(s) /\ Len(s) \in Nat
      /\ DOMAIN t = 1 .. Len(s) + 1
      /\ \A n \in 1 .. Len(s) : t[n] = s[n]
      /\ t[Len(s) + 1] = x
  OBVIOUS
<1> HIDE DEF t
<1>3. Len(s) + 1 \notin P
  BY <1>2
<1>4. CASE x = m
  <2>1. {n \in DOMAIN t : t[n] = m} = P \cup {Len(s) + 1}
    BY <1>2, <1>4
  <2>2. Count(t, m) = Cardinality(P) + 1
    BY <1>1, <1>3, <2>1, FS_AddElement DEF Count
  <2> QED BY <1>1, <1>4, <2>2 DEF t
<1>5. CASE x # m
  <2>1. {n \in DOMAIN t : t[n] = m} = P
    BY <1>2, <1>5
  <2> QED BY <1>1, <1>5, <2>1 DEF t, Count
<1> QED BY <1>4, <1>5

\* A set of places that moves into another one by k.
LEMMA Moved ==
    ASSUME NEW P \in SUBSET Nat, NEW R \in SUBSET Nat, NEW k \in Int, IsFiniteSet(R),
           \A n \in P : n + k \in R
    PROVE  Cardinality(P) <= Cardinality(R)
<1> DEFINE f == [n \in P |-> n + k]
<1>1. f \in [P -> R]
  OBVIOUS
<1>2. \A a, b \in P : f[a] = f[b] => a = b
  OBVIOUS
<1>3. f \in Injection(P, R)
  BY <1>1, <1>2 DEF Injection, IsInjective
<1> HIDE DEF f
<1> QED BY <1>3, FS_Injection

LEMMA CountRead ==
    ASSUME NEW S, NEW s \in Seq(S), NEW k \in Nat, k >= 1, k <= Len(s), NEW m
    PROVE  Count(SubSeq(s, k + 1, Len(s)), m)
              <= IF s[1] = m THEN Count(s, m) - 1 ELSE Count(s, m)
<1> DEFINE r == SubSeq(s, k + 1, Len(s))
           P == {n \in DOMAIN s : s[n] = m}
           R == {n \in DOMAIN r : r[n] = m}
<1>1. /\ Len(s) \in Nat /\ DOMAIN s = 1 .. Len(s) /\ 1 \in DOMAIN s
      /\ DOMAIN r = 1 .. Len(s) - k
      /\ \A n \in 1 .. Len(s) - k : r[n] = s[n + k]
  OBVIOUS
<1> HIDE DEF r
<1>2. IsFiniteSet(P) /\ Count(s, m) = Cardinality(P) /\ Count(s, m) \in Nat
  BY Places DEF Count
<1>3. \A n \in R : n + k \in P \ {1}
  BY <1>1
<1>4. R \in SUBSET Nat /\ P \ {1} \in SUBSET Nat /\ k \in Int
  BY <1>1
<1> HIDE DEF P, R
<1>5. /\ IsFiniteSet(P \ {1})
      /\ Cardinality(P \ {1}) = IF 1 \in P THEN Cardinality(P) - 1 ELSE Cardinality(P)
  BY <1>2, FS_RemoveElement
<1>6. Cardinality(R) <= Cardinality(P \ {1})
  BY <1>3, <1>4, <1>5, Moved
<1>7. 1 \in P <=> s[1] = m
  BY <1>1 DEF P
<1>8. Count(r, m) = Cardinality(R)
  BY DEF Count, R
<1> QED BY <1>2, <1>5, <1>6, <1>7, <1>8 DEF r

LEMMA CountPut ==
    ASSUME NEW S, NEW s \in Seq(S), NEW x \in S, NEW m
    PROVE  Count(<<x>> \o s, m) <= IF x = m THEN Count(s, m) + 1 ELSE Count(s, m)
<1> DEFINE t == <<x>> \o s
           P == {n \in DOMAIN s : s[n] = m}
           T == {n \in DOMAIN t : t[n] = m}
<1>1. /\ Len(s) \in Nat /\ DOMAIN s = 1 .. Len(s)
      /\ t \in Seq(S) /\ DOMAIN t = 1 .. Len(s) + 1
      /\ t[1] = x
      /\ \A n \in 2 .. Len(s) + 1 : t[n] = s[n - 1]
  OBVIOUS
<1> HIDE DEF t
<1>2. /\ IsFiniteSet(P) /\ Count(s, m) = Cardinality(P) /\ Count(s, m) \in Nat
      /\ IsFiniteSet(T) /\ Count(t, m) = Cardinality(T) /\ Count(t, m) \in Nat
  BY <1>1, Places DEF Count
<1>3. /\ IsFiniteSet(T \ {1})
      /\ Cardinality(T \ {1}) = IF 1 \in T THEN Cardinality(T) - 1 ELSE Cardinality(T)
  BY <1>2, FS_RemoveElement
<1>4. 1 \in T <=> x = m
  BY <1>1
<1>5. ASSUME NEW n \in T \ {1} PROVE n + (-1) \in P
  <2>1. n \in 2 .. Len(s) + 1 /\ n + (-1) = n - 1 /\ n - 1 \in DOMAIN s
    BY <1>1
  <2>2. s[n - 1] = m
    BY <1>1, <2>1
  <2> QED BY <2>1, <2>2
<1>6. P \in SUBSET Nat /\ T \ {1} \in SUBSET Nat /\ -1 \in Int
  BY <1>1
<1> HIDE DEF P, T
<1>7. Cardinality(T \ {1}) <= Cardinality(P)
  BY <1>2, <1>5, <1>6, Moved
<1> QED BY <1>2, <1>3, <1>4, <1>7 DEF t

-----------------------------------------------------------------------------
\* What is counted is finite.
LEMMA Sizes ==
    ASSUME NEW b \in Seq(PiMsg), NEW i \in Seq(PiMsg), NEW o \in Seq(SscMsg),
           NEW A \in SUBSET Conn
    PROVE  /\ Count(b, Fetch) \in Nat /\ Count(i, Fetch) \in Nat /\ Count(o, DsStart) \in Nat
           /\ IsFiniteSet(A) /\ Cardinality(A) \in Nat
<1>1. IsFiniteSet(Conn)
  BY FS_Interval, ConfBoundsAssumption DEF Conn
<1>2. IsFiniteSet(A)
  BY <1>1, FS_Subset
<1>3. Cardinality(A) \in Nat
  BY <1>2, FS_CardinalityType
<1> QED BY <1>2, <1>3, Places

LEMMA InitCounted == Init => Flags /\ Counted
<1> SUFFICES ASSUME Init PROVE Flags /\ Counted
  OBVIOUS
<1>1. Starting = {}
  BY DEF Init, Starting, Silent
<1>2. Count(toSsc, DsStart) = 0 /\ Count(toPi, Fetch) = 0 /\ Count(box, Fetch) = 0
  BY CountNone DEF Init, Q!BoxInit
<1>3. Requests = 0
  BY <1>1, <1>2, FS_EmptySet DEF Requests, Init
<1>4. Flags
  BY DEF Init, Flags, Q!BoxInit
<1>5. Counted
  BY <1>3, ConfBoundsAssumption DEF Counted, Init
<1> QED BY <1>4, <1>5

\* A step that makes no request more.
Bounded ==
    /\ watchers' \in Nat /\ watchers' <= watchers
    /\ Count(toSsc', DsStart) <= Count(toSsc, DsStart)
    /\ Cardinality(Starting') <= Cardinality(Starting)
    /\ Count(toPi', Fetch) <= Count(toPi, Fetch)
    /\ Count(box', Fetch) <= Count(box, Fetch)

LEMMA NoMore ==
    ASSUME IInv, IInv', Counted, Bounded, UNCHANGED conns,
           UNCHANGED cmds \/ (conns + cmds < MaxEvents /\ cmds' = cmds + 1)
    PROVE  Counted'
<1>1. /\ Count(toSsc, DsStart) \in Nat /\ Count(toPi, Fetch) \in Nat
      /\ Count(box, Fetch) \in Nat /\ Cardinality(Starting) \in Nat
  BY Sizes DEF IInv, Types, Starting
<1>2. /\ Count(toSsc', DsStart) \in Nat /\ Count(toPi', Fetch) \in Nat
      /\ Count(box', Fetch) \in Nat /\ Cardinality(Starting') \in Nat
  <2>1. box' \in Seq(PiMsg) /\ toPi' \in Seq(PiMsg) /\ toSsc' \in Seq(SscMsg)
    BY DEF IInv, Types
  <2>2. Starting' \in SUBSET Conn
    BY DEF Starting
  <2> QED BY <2>1, <2>2, Sizes
<1>3. Requests' <= Requests /\ Requests' \in Nat /\ Requests \in Nat
  BY <1>1, <1>2 DEF Requests, Bounded, Counted
<1> QED BY <1>3, ConfBoundsAssumption DEF Counted, Bounded

\* The sizes before a step.
LEMMA SizesNow ==
    ASSUME IInv
    PROVE  /\ Count(toSsc, DsStart) \in Nat /\ Count(toPi, Fetch) \in Nat
           /\ Count(box, Fetch) \in Nat
           /\ IsFiniteSet(Starting) /\ Cardinality(Starting) \in Nat
BY Sizes DEF IInv, Types, Starting

\* A connection makes room for the request that it sends, a restart removes some.
LEMMA BreakCounted ==
    ASSUME IInv, IInv', Counted, Connect \/ PiRestart \/ SscRestart
    PROVE  Counted'
<1>0. /\ Count(toSsc, DsStart) \in Nat /\ Count(toPi, Fetch) \in Nat
      /\ Count(box, Fetch) \in Nat
      /\ IsFiniteSet(Starting) /\ Cardinality(Starting) \in Nat
  BY SizesNow
<1>1. \A m : Count(<<>>, m) = 0
  BY CountNone
<1>2. CASE Connect
  <2>1. /\ toPi' = Append(toPi, Fetch) /\ conns' = conns + 1 /\ conns + cmds < MaxEvents
        /\ UNCHANGED <<box, answer, watchers, toSsc, cmds>>
    BY <1>2 DEF Connect, piVars
  <2>2. Count(toPi', Fetch) = Count(toPi, Fetch) + 1
    BY <2>1, Messages, CountAppend DEF IInv, Types
  <2>3. Starting' = Starting
    BY <2>1 DEF Starting
  <2>4. Requests' = Requests + 1
    BY <1>0, <2>1, <2>2, <2>3 DEF Requests, Counted
  <2>5. Requests \in Nat
    BY <1>0 DEF Requests, Counted
  <2> QED BY <2>1, <2>4, <2>5, ConfBoundsAssumption DEF Counted
<1>3. CASE PiRestart
  <2>1. /\ toPi' = <<>> /\ box' = <<>> /\ (toSsc' = toSsc \/ toSsc' = <<>>)
        /\ answer' = [c \in Conn |-> Silent]
        /\ UNCHANGED <<watchers, conns, cmds>>
    BY <1>3 DEF PiRestart, sscVars
  <2>2. Starting' = {}
    BY <2>1 DEF Starting, Silent
  <2>3. Cardinality(Starting') = 0
    BY <2>2, FS_EmptySet
  <2>4. Bounded
    BY <1>0, <1>1, <2>1, <2>3 DEF Bounded, Counted
  <2> QED BY <2>1, <2>4, NoMore
<1>4. CASE SscRestart
  <2>1. /\ toSsc' = <<>> /\ (toPi' = toPi \/ toPi' = <<>>) /\ watchers' = 0
        /\ UNCHANGED <<box, answer, conns, cmds>>
    BY <1>4 DEF SscRestart, piVars
  <2>2. Starting' = Starting
    BY <2>1 DEF Starting
  <2>3. Bounded
    BY <1>0, <1>1, <2>1, <2>2 DEF Bounded, Counted
  <2> QED BY <2>1, <2>3, NoMore
<1> QED BY <1>2, <1>3, <1>4

\* The synchronisation sends no request, and an answering thread one start mark.
LEMMA SyncCounted ==
    ASSUME IInv, IInv', Counted, NEW c \in Conn, SyncThread(c)
    PROVE  Counted'
<1>0. /\ Count(toSsc, DsStart) \in Nat /\ Count(toPi, Fetch) \in Nat
      /\ Count(box, Fetch) \in Nat /\ Cardinality(Starting) \in Nat
  BY SizesNow
<1>1. UNCHANGED <<box, answer, watchers, toSsc, conns, cmds>>
  BY DEF SyncThread, SyncMark, SyncCopy, SyncSend, piVars, netVars, ghosts
<1>2. Starting' = Starting
  BY <1>1 DEF Starting
<1>3. Count(toPi', Fetch) = Count(toPi, Fetch)
  <2>1. ASSUME NEW m \in PiMsg, m # Fetch, SscSends(m)
        PROVE  Count(toPi', Fetch) = Count(toPi, Fetch)
    BY <2>1, CountAppend DEF SscSends, IInv, Types
  <2>2. sync[c].conf \in Conf
    BY DEF IInv, Types, SyncState
  <2>3. Mark # Fetch /\ [type |-> "conf", conf |-> sync[c].conf] # Fetch
    BY Kinds
  <2>4. CASE SyncCopy(c)
    BY <2>4 DEF SyncCopy, netVars
  <2> QED BY <2>1, <2>2, <2>3, <2>4, Messages DEF SyncThread, SyncMark, SyncSend
<1>4. Bounded
  BY <1>0, <1>1, <1>2, <1>3 DEF Bounded, Counted
<1> QED BY <1>1, <1>4, NoMore

LEMMA AnswerCounted ==
    ASSUME IInv, IInv', Counted, NEW c \in Conn, AnswerThread(c)
    PROVE  Counted'
<1>0. /\ Count(toSsc, DsStart) \in Nat /\ Count(toPi, Fetch) \in Nat
      /\ Count(box, Fetch) \in Nat
      /\ IsFiniteSet(Starting) /\ Cardinality(Starting) \in Nat
  BY SizesNow
<1>1. UNCHANGED <<box, watchers, toPi, conns, cmds>>
  BY DEF AnswerThread, AnswerCopyAge, AnswerCopyPort, AnswerSend, sscVars, netVars, ghosts
<1>2. answer \in [Conn -> AnswerState] /\ toSsc \in Seq(SscMsg)
  BY DEF IInv, Types
<1>3. \A d \in Conn : d # c => answer'[d] = answer[d]
  BY <1>2 DEF AnswerThread, AnswerCopyAge, AnswerCopyPort, AnswerSend
<1>4. CASE AnswerCopyAge(c) \/ AnswerCopyPort(c)
  <2>1. answer[c].pc \in {"age", "ports"} /\ UNCHANGED toSsc
    BY <1>4 DEF AnswerCopyAge, AnswerCopyPort, netVars
  <2>2. answer'[c].pc \in {"ports", "start"}
    <3>1. CASE AnswerCopyAge(c)
      BY <1>2, <3>1 DEF AnswerCopyAge, AnswerState
    <3>2. CASE AnswerCopyPort(c)
      BY <1>2, <3>2 DEF AnswerCopyPort, AnswerState
    <3> QED BY <1>4, <3>1, <3>2
  <2>3. Starting' = Starting
    BY <1>3, <2>1, <2>2 DEF Starting
  <2>4. Bounded
    BY <1>0, <1>1, <2>1, <2>3 DEF Bounded, Counted
  <2> QED BY <1>1, <2>4, NoMore
<1>5. CASE answer[c].pc = "start" /\ AnswerSend(c)
  <2>1. PiSends(DsStart) /\ answer' = [answer EXCEPT ![c].pc = "conf"]
    BY <1>5 DEF AnswerSend
  <2>2. answer'[c].pc = "conf"
    BY <1>2, <2>1 DEF AnswerState
  <2>3. c \in Starting /\ Starting' = Starting \ {c}
    BY <1>3, <1>5, <2>2 DEF Starting
  <2>4. Cardinality(Starting') = Cardinality(Starting) - 1
    BY <1>0, <2>3, FS_RemoveElement
  <2>5. Count(toSsc', DsStart) \in {Count(toSsc, DsStart), Count(toSsc, DsStart) + 1}
    <3>1. toSsc' = toSsc \/ toSsc' = Append(toSsc, DsStart)
      BY <2>1 DEF PiSends
    <3>2. Count(Append(toSsc, DsStart), DsStart) = Count(toSsc, DsStart) + 1
      BY <1>2, Messages, CountAppend
    <3> QED BY <3>1, <3>2
  <2>6. Requests' <= Requests /\ Requests' \in Nat /\ Requests \in Nat
    <3>1. Cardinality(Starting') \in Nat
      <4>1. IsFiniteSet(Starting')
        BY <1>0, <2>3, FS_RemoveElement
      <4> QED BY <4>1, FS_CardinalityType
    <3> QED BY <1>0, <1>1, <2>4, <2>5, <3>1 DEF Requests, Counted
  <2> QED BY <1>1, <2>6 DEF Counted
<1>6. CASE answer[c].pc \in {"conf", "end"} /\ AnswerSend(c)
  <2>1. PICK m \in SscMsg : m # DsStart /\ PiSends(m)
    <3>1. answer[c].conf \in Conf
      BY <1>2 DEF AnswerState
    <3>2. DsEnd # DsStart /\ [type |-> "conf", conf |-> answer[c].conf] # DsStart
      BY Kinds
    <3> QED BY <1>6, <3>1, <3>2, Messages DEF AnswerSend
  <2>2. Count(toSsc', DsStart) = Count(toSsc, DsStart)
    BY <1>2, <2>1, CountAppend DEF PiSends
  <2>3. answer'[c].pc \in {"end", "done"}
    BY <1>2, <1>6 DEF AnswerSend, AnswerState
  <2>4. Starting' = Starting
    BY <1>3, <1>6, <2>3 DEF Starting
  <2>5. Bounded
    BY <1>0, <1>1, <2>2, <2>4 DEF Bounded, Counted
  <2> QED BY <1>1, <2>5, NoMore
<1> QED BY <1>4, <1>5, <1>6 DEF AnswerThread, AnswerSend

\* A start mark that SSC handles becomes a watcher; one that it ignores is gone.
LEMMA SscReadCounted ==
    ASSUME IInv, IInv', Counted, NEW k \in 1 .. MaxRead, SscRead(k)
    PROVE  Counted'
<1>0. /\ Count(toSsc, DsStart) \in Nat /\ Count(toPi, Fetch) \in Nat
      /\ Count(box, Fetch) \in Nat /\ Cardinality(Starting) \in Nat
  BY SizesNow
<1>1. /\ toSsc \in Seq(SscMsg) /\ k \in Nat /\ k >= 1 /\ k <= Len(toSsc)
      /\ toSsc' = SubSeq(toSsc, k + 1, Len(toSsc))
      /\ UNCHANGED <<box, answer, toPi, conns, cmds>>
      /\ SscHandle(toSsc[1])
  BY ConfBoundsAssumption DEF SscRead, IInv, Types, piVars
<1>2. Starting' = Starting
  BY <1>1 DEF Starting
<1>3. Count(toSsc', DsStart) <= IF toSsc[1] = DsStart THEN Count(toSsc, DsStart) - 1
                                                      ELSE Count(toSsc, DsStart)
  BY <1>1, CountRead
<1>4. Count(toSsc', DsStart) \in Nat
  <2>1. toSsc' \in Seq(SscMsg)
    BY DEF IInv, Types
  <2> QED BY <2>1, Places
<1>5. CASE toSsc[1] = DsStart /\ watchers' = watchers + 1
  <2>1. watchers' + Count(toSsc', DsStart) <= watchers + Count(toSsc, DsStart)
    BY <1>0, <1>3, <1>4, <1>5 DEF Counted
  <2>2. Requests' <= Requests /\ Requests' \in Nat /\ Requests \in Nat
    <3>1. Cardinality(Starting') = Cardinality(Starting) /\ UNCHANGED <<toPi, box>>
      BY <1>1, <1>2
    <3>2. watchers \in Nat /\ watchers' \in Nat
      BY <1>5 DEF Counted
    <3> QED BY <1>0, <1>4, <2>1, <3>1, <3>2 DEF Requests
  <2> QED BY <1>1, <1>5, <2>2 DEF Counted
<1>6. CASE UNCHANGED watchers
  <2>1. Bounded
    BY <1>0, <1>1, <1>2, <1>3, <1>4, <1>6 DEF Bounded, Counted
  <2> QED BY <1>1, <2>1, NoMore
<1> QED BY <1>1, <1>5, <1>6 DEF SscHandle, SscDsStart, SscDsEnd, SscDsData, SscModify

\* PI reads the request into its queue, or ignores it.
LEMMA PiReadCounted ==
    ASSUME IInv, IInv', Counted, NEW k \in 1 .. MaxRead, PiRead(k)
    PROVE  Counted'
<1>0. /\ Count(toSsc, DsStart) \in Nat /\ Count(toPi, Fetch) \in Nat
      /\ Count(box, Fetch) \in Nat /\ Cardinality(Starting) \in Nat
  BY SizesNow
<1>1. /\ toPi \in Seq(PiMsg) /\ k \in Nat /\ k >= 1 /\ k <= Len(toPi)
      /\ toPi' = SubSeq(toPi, k + 1, Len(toPi))
      /\ box \in Seq(PiMsg) /\ box' = <<toPi[1]>> \o box
      /\ UNCHANGED <<answer, watchers, toSsc, conns, cmds>>
  BY ConfBoundsAssumption DEF PiRead, Q!Put, IInv, Types, sscVars
<1>2. Starting' = Starting
  BY <1>1 DEF Starting
<1>3. /\ Count(toPi', Fetch) <= IF toPi[1] = Fetch THEN Count(toPi, Fetch) - 1
                                                   ELSE Count(toPi, Fetch)
      /\ Count(box', Fetch) <= IF toPi[1] = Fetch THEN Count(box, Fetch) + 1
                                                  ELSE Count(box, Fetch)
  <2>1. toPi[1] \in PiMsg
    BY <1>1
  <2> QED BY <1>1, <2>1, CountRead, CountPut
<1>4. Count(toPi', Fetch) \in Nat /\ Count(box', Fetch) \in Nat
  <2>1. toPi' \in Seq(PiMsg) /\ box' \in Seq(PiMsg)
    BY DEF IInv, Types
  <2> QED BY <2>1, Places
<1>5. Requests' <= Requests /\ Requests' \in Nat /\ Requests \in Nat
  <2>1. Count(toPi', Fetch) + Count(box', Fetch) <= Count(toPi, Fetch) + Count(box, Fetch)
    BY <1>0, <1>3, <1>4
  <2>2. /\ Cardinality(Starting') = Cardinality(Starting)
        /\ UNCHANGED <<watchers, toSsc>> /\ watchers \in Nat
    BY <1>1, <1>2 DEF Counted
  <2> QED BY <1>0, <1>4, <2>1, <2>2 DEF Requests
<1> QED BY <1>1, <1>5 DEF Counted

\* The request that is taken from the queue becomes a thread.
LEMMA DealCounted ==
    ASSUME IInv, IInv', Counted, DealBegin \/ DealTake
    PROVE  Counted'
<1>0. /\ Count(toSsc, DsStart) \in Nat /\ Count(toPi, Fetch) \in Nat
      /\ Count(box, Fetch) \in Nat
      /\ IsFiniteSet(Starting) /\ Cardinality(Starting) \in Nat
  BY SizesNow
<1>1. UNCHANGED <<watchers, toPi, toSsc, conns, cmds>>
  BY DEF DealBegin, DealTake, sscVars, netVars, ghosts
<1>2. CASE DealBegin
  <2>1. UNCHANGED <<box, answer>>
    BY <1>2 DEF DealBegin, Q!Begin
  <2>2. Bounded
    BY <1>0, <1>1, <2>1 DEF Bounded, Counted, Starting
  <2> QED BY <1>1, <2>2, NoMore
<1>3. CASE DealTake
  <2>1. /\ box \in Seq(PiMsg) /\ Len(box) >= 1 /\ box[1] \in PiMsg
        /\ box' = SubSeq(box, 2, Len(box))
    BY <1>3 DEF DealTake, Q!Take, IInv, Types
  <2>2. Count(box', Fetch) <= IF box[1] = Fetch THEN Count(box, Fetch) - 1
                                                ELSE Count(box, Fetch)
    <3>1. Count(SubSeq(box, 1 + 1, Len(box)), Fetch)
            <= IF box[1] = Fetch THEN Count(box, Fetch) - 1 ELSE Count(box, Fetch)
      BY <2>1, CountRead
    <3> QED BY <2>1, <3>1
  <2>3. Count(box', Fetch) \in Nat
    <3>1. box' \in Seq(PiMsg)
      BY DEF IInv, Types
    <3> QED BY <3>1, Places
  <2>4. (box[1] = Fetch /\ DealFetch) \/ UNCHANGED answer
    BY <1>3, <2>1, Kinds DEF DealTake, DealConf
  <2>5. CASE UNCHANGED answer
    <3>1. Bounded
      BY <1>0, <1>1, <2>2, <2>3, <2>5 DEF Bounded, Counted, Starting
    <3> QED BY <1>1, <3>1, NoMore
  <2>6. CASE box[1] = Fetch /\ DealFetch
    <3>1. PICK c \in Conn : answer' = [answer EXCEPT ![c].pc = "age"]
      BY <2>6 DEF DealFetch
    <3>2. /\ answer'[c].pc = "age"
          /\ \A d \in Conn : d # c => answer'[d] = answer[d]
      BY <3>1 DEF IInv, Types, AnswerState
    <3>3. Starting' = Starting \cup {c}
      BY <3>2 DEF Starting
    <3>4. Cardinality(Starting') \in {Cardinality(Starting), Cardinality(Starting) + 1}
      BY <1>0, <3>3, FS_AddElement
    <3>5. Requests' <= Requests /\ Requests' \in Nat /\ Requests \in Nat
      BY <1>0, <1>1, <2>2, <2>3, <2>6, <3>4 DEF Requests, Counted
    <3> QED BY <1>1, <3>5 DEF Counted
  <2> QED BY <2>4, <2>5, <2>6
<1> QED BY <1>2, <1>3

\* The user's commands are no requests, and a watcher that ends is one less.
LEMMA CliCounted ==
    ASSUME IInv, IInv', Counted,
           (\E c \in Cmd : CliSend(c)) \/ CliSendInvalid \/ CliAge \/ CliLearn \/ WatcherEnds
    PROVE  Counted'
<1>0. /\ Count(toSsc, DsStart) \in Nat /\ Count(toPi, Fetch) \in Nat
      /\ Count(box, Fetch) \in Nat /\ Cardinality(Starting) \in Nat
  BY SizesNow
<1>1. CASE (\E c \in Cmd : CliSend(c)) \/ CliSendInvalid
  <2>1. PICK c \in Cmd : PiSends(c)
    BY <1>1 DEF CliSend, CliSendInvalid, Cmd
  <2>2. /\ UNCHANGED <<box, answer, watchers, toPi, conns>>
        /\ conns + cmds < MaxEvents /\ cmds' = cmds + 1
    BY <1>1 DEF CliSend, CliSendInvalid, piVars, sscVars
  <2>3. c # DsStart /\ c \in SscMsg
    BY Messages, Commands, Kinds
  <2>4. Count(toSsc', DsStart) = Count(toSsc, DsStart)
    BY <2>1, <2>3, CountAppend DEF PiSends, IInv, Types
  <2>5. Bounded
    BY <1>0, <2>2, <2>4 DEF Bounded, Counted, Starting
  <2> QED BY <2>2, <2>5, NoMore
<1>2. CASE CliAge \/ CliLearn
  <2>1. UNCHANGED <<box, answer, watchers, toPi, toSsc, conns, cmds>>
    BY <1>2 DEF CliAge, CliLearn, sscVars, netVars, ghosts
  <2>2. Bounded
    BY <1>0, <2>1 DEF Bounded, Counted, Starting
  <2> QED BY <2>1, <2>2, NoMore
<1>3. CASE WatcherEnds
  <2>1. /\ UNCHANGED <<box, answer, toPi, toSsc, conns, cmds>>
        /\ watchers > 0 /\ watchers' = watchers - 1
    BY <1>3 DEF WatcherEnds, piVars, netVars, ghosts
  <2>2. Bounded
    BY <1>0, <2>1 DEF Bounded, Counted, Starting
  <2> QED BY <2>1, <2>2, NoMore
<1> QED BY <1>1, <1>2, <1>3

LEMMA StepCounted == IInv /\ IInv' /\ Counted /\ [Next]_vars => Counted'
<1> SUFFICES ASSUME IInv, IInv', Counted, [Next]_vars PROVE Counted'
  OBVIOUS
<1>1. CASE UNCHANGED vars
  BY <1>1 DEF vars, piVars, sscVars, netVars, ghosts, Counted, Requests, Starting
<1>2. CASE Connect \/ PiRestart \/ SscRestart
  BY <1>2, BreakCounted
<1>3. CASE \E c \in Conn : SyncThread(c) \/ AnswerThread(c)
  BY <1>3, SyncCounted, AnswerCounted
<1>4. CASE SscReads \/ PiReads
  BY <1>4, SscReadCounted, PiReadCounted DEF SscReads, PiReads
<1>5. CASE DealBegin \/ DealTake
  BY <1>5, DealCounted
<1>6. CASE (\E c \in Cmd : CliSend(c)) \/ CliSendInvalid \/ CliAge \/ CliLearn \/ WatcherEnds
  BY <1>6, CliCounted
<1> QED BY <1>1, <1>2, <1>3, <1>4, <1>5, <1>6 DEF Next

\* The flags stay flags.
LEMMA StepFlags == Flags /\ [Next]_vars => Flags'
<1> SUFFICES ASSUME Flags, [Next]_vars PROVE Flags'
  OBVIOUS
<1>1. CASE UNCHANGED vars
  BY <1>1 DEF vars, piVars, sscVars, netVars, ghosts, Flags
<1>2. CASE Connect \/ PiRestart \/ SscRestart
  <2>1. spoiled' \in BOOLEAN /\ endLost' \in BOOLEAN
    <3>1. CASE Connect
      BY <3>1, Zenon DEF Connect, Flags
    <3>2. CASE PiRestart
      BY <3>2, Zenon DEF PiRestart, Flags
    <3>3. CASE SscRestart
      BY <3>3, Zenon DEF SscRestart, Flags
    <3> QED BY <1>2, <3>1, <3>2, <3>3
  <2>2. draining' \in BOOLEAN /\ up' \in BOOLEAN /\ dsIsEnd' \in {0, 1}
    BY <1>2 DEF Connect, PiRestart, SscRestart, Flags, piVars, sscVars
  <2> QED BY <2>1, <2>2 DEF Flags
<1>3. CASE \E c \in Conn : SyncThread(c) \/ AnswerThread(c)
  <2>1. ASSUME NEW m, PiSends(m) PROVE spoiled' \in BOOLEAN /\ endLost' \in BOOLEAN
    BY <2>1, Zenon DEF PiSends
  <2>2. ASSUME NEW m, SscSends(m) PROVE spoiled' \in BOOLEAN
    BY <2>2, Zenon DEF SscSends
  <2>3. spoiled' \in BOOLEAN /\ endLost' \in BOOLEAN
    BY <1>3, <2>1, <2>2
       DEF SyncThread, SyncMark, SyncCopy, SyncSend, ghosts, Flags,
           AnswerThread, AnswerCopyAge, AnswerCopyPort, AnswerSend
  <2>4. UNCHANGED <<draining, up, dsIsEnd>>
    BY <1>3 DEF SyncThread, SyncMark, SyncCopy, SyncSend, piVars, sscVars, netVars,
                AnswerThread, AnswerCopyAge, AnswerCopyPort, AnswerSend
  <2> QED BY <2>3, <2>4 DEF Flags
<1>4. CASE SscReads
  <2>1. PICK k \in 1 .. MaxRead : SscRead(k)
    BY <1>4 DEF SscReads
  <2>2. spoiled' \in BOOLEAN /\ endLost' \in BOOLEAN
    BY <2>1, Zenon DEF SscRead
  <2>3. dsIsEnd' \in {0, 1} /\ UNCHANGED <<draining, up>>
    BY <2>1 DEF SscRead, SscHandle, SscDsStart, SscDsEnd, SscDsData, SscModify, piVars, Flags
  <2> QED BY <2>2, <2>3 DEF Flags
<1>5. CASE PiReads
  <2>1. PICK k \in 1 .. MaxRead : PiRead(k)
    BY <1>5 DEF PiReads
  <2>2. spoiled' \in BOOLEAN
    BY <2>1, Zenon DEF PiRead
  <2>3. UNCHANGED <<draining, up, dsIsEnd, endLost>>
    BY <2>1 DEF PiRead, Q!Put, sscVars
  <2> QED BY <2>2, <2>3 DEF Flags
<1>6. CASE DealBegin \/ DealTake
  BY <1>6 DEF DealBegin, DealTake, Q!Begin, Q!Take, sscVars, netVars, ghosts, Flags
<1>7. CASE (\E c \in Cmd : CliSend(c)) \/ CliSendInvalid
  <2>1. ASSUME NEW m, PiSends(m) PROVE spoiled' \in BOOLEAN /\ endLost' \in BOOLEAN
    BY <2>1, Zenon DEF PiSends
  <2>2. UNCHANGED <<draining, up, dsIsEnd>>
    BY <1>7 DEF CliSend, CliSendInvalid, piVars, sscVars
  <2> QED BY <1>7, <2>1, <2>2 DEF CliSend, CliSendInvalid, Flags
<1>8. CASE CliAge \/ CliLearn \/ WatcherEnds
  BY <1>8 DEF CliAge, CliLearn, WatcherEnds, piVars, sscVars, netVars, ghosts, Flags
<1> QED BY <1>1, <1>2, <1>3, <1>4, <1>5, <1>6, <1>7, <1>8 DEF Next

LEMMA TypesImplied == IInv /\ Flags /\ Counted => TypeOK
<1> SUFFICES ASSUME IInv, Flags, Counted PROVE TypeOK
  OBVIOUS
<1>1. watchers \in 0 .. MaxEvents /\ conns \in 0 .. MaxEvents /\ cmds \in 0 .. MaxEvents
  BY SizesNow, ConfBoundsAssumption DEF Counted, Requests
<1> QED BY <1>1 DEF IInv, Types, Flags, TypeOK, AnswerState, SyncState, Port

\* PI and SSC keep configurations, exchange messages of their kinds, and never
\* have more watchers than there have been connections.
THEOREM ConfTypes == Spec => []TypeOK
BY InitIInv, StepIInv, InitCounted, StepCounted, StepFlags, TypesImplied, PTL DEF Spec
=============================================================================

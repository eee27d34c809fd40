------------------------------- MODULE ConfSync -------------------------------
(***************************************************************************)
(* The configuration that PI and SSC both keep, the age time and the       *)
(* learning status of every port, and how they exchange it: when SSC       *)
(* connects it asks PI for its configuration and, in another thread, sends *)
(* its own; PI answers in a thread of its own.  The user's commands go to  *)
(* SSC and then into PI's configuration, which the CLI thread writes, and  *)
(* the answering thread reads, without the mutex.                          *)
(*                                                                         *)
(* Status 0 of the array, which no code uses, is left out.  What SSC sends *)
(* about addresses is left out (MacSync), as is what it tells the chip     *)
(* (ChipSync).                                                             *)
(***************************************************************************)
EXTENDS Integers, Sequences, FiniteSets

CONSTANTS
    PortNum,    \* PORT_NUM
    UserAge,    \* the age times that a user may set
    MaxEvents,  \* bound: how many connections and commands there are
    MaxRead     \* bound: how many messages one read takes

ASSUME PortNumAssumption == PortNum \in Nat /\ PortNum >= 2
ASSUME UserAgeAssumption == UserAge \subseteq Nat
ASSUME ConfBoundsAssumption == MaxEvents \in Nat /\ MaxRead \in Nat

DefaultAge == 300
Age    == UserAge \cup {0, DefaultAge}
Port   == 1 .. PortNum
Learn   == 3
Unlearn == 0
Status == {Learn, Unlearn}
Conf   == [age : Age, port : [Port -> Status]]

\* What PI and SSC start with; SSC's is the zeros of its memory.
PiDefault  == [age |-> DefaultAge, port |-> [p \in Port |-> Learn]]
SscDefault == [age |-> 0, port |-> [p \in Port |-> Unlearn]]

AgeCmd   == [type : {"age"}, value : UserAge]
LearnCmd == [type : {"learn"}, value : Status]
Cmd      == AgeCmd \cup LearnCmd
NoCmd    == [type |-> "none"]

\* Messages: the marks of SSC, which PI only logs, are all alike.
Fetch     == [type |-> "fetch"]
Mark      == [type |-> "mark"]
DsStart   == [type |-> "start"]
DsEnd     == [type |-> "end"]
PiMsg     == {Fetch, Mark} \cup [type : {"conf"}, conf : Conf]
SscMsg    == {DsStart, DsEnd} \cup [type : {"conf"}, conf : Conf] \cup Cmd

Conn == 1 .. MaxEvents

VARIABLES
    \* PI
    pi,         \* age_time and port_status of g_mac_local_db
    cli,        \* the command whose local part the CLI thread has to do
    cliPort,    \* the port it sets next
    box,        \* PI's message queue, the newest message first
    draining,   \* deal_info_func is handling a batch
    answer,     \* the threads pthread_ds_fun: where each is, what it has copied
    \* SSC
    ssc,        \* age_time and port_status of g_ssc_mac_opera
    sync,       \* the threads ssc_ds_data_pi: where each is, what it has copied
    dsIsEnd,    \* ds_is_end
    watchers,   \* how many threads ssc_deal_ds are running
    \* between
    toPi,       \* sent by SSC and not read by PI
    toSsc,      \* sent by PI and not read by SSC
    up,         \* there is a connection
    conns,      \* how many there have been
    \* for the properties
    cmds,       \* how many commands the user has given
    asked,      \* the last command, if it was given at rest and nothing followed
    spoiled,    \* this connection's exchange lost a part or met another
    endLost     \* the end mark that is to stop the watchers never arrived

piVars  == <<pi, cli, cliPort, box, draining, answer>>
sscVars == <<ssc, sync, dsIsEnd, watchers>>
netVars == <<toPi, toSsc, up, conns>>
ghosts  == <<cmds, asked, spoiled, endLost>>
vars    == <<piVars, sscVars, netVars, ghosts>>

Q == INSTANCE BatchQueue WITH Msg <- PiMsg

Idle   == [pc |-> "none", conf |-> SscDefault]
Silent == [pc |-> "none", port |-> 1, conf |-> PiDefault]

TypeOK ==
    /\ pi \in Conf /\ ssc \in Conf
    /\ cli \in Cmd \cup {NoCmd}
    /\ cliPort \in 1 .. PortNum
    /\ box \in Seq(PiMsg) /\ draining \in BOOLEAN
    /\ answer \in [Conn -> [pc : {"none", "age", "ports", "start", "conf", "end", "done"},
                            port : Port, conf : Conf]]
    /\ sync \in [Conn -> [pc : {"none", "start", "copy", "send", "end", "done"},
                          conf : Conf]]
    /\ dsIsEnd \in {0, 1}
    /\ watchers \in 0 .. MaxEvents
    /\ toPi \in Seq(PiMsg) /\ toSsc \in Seq(SscMsg)
    /\ up \in BOOLEAN
    /\ conns \in 0 .. MaxEvents
    /\ cmds \in 0 .. MaxEvents
    /\ asked \in Cmd \cup {NoCmd}
    /\ spoiled \in BOOLEAN /\ endLost \in BOOLEAN

Init ==
    /\ pi = PiDefault /\ cli = NoCmd /\ cliPort = 1
    /\ Q!BoxInit
    /\ answer = [c \in Conn |-> Silent]
    /\ ssc = SscDefault
    /\ sync = [c \in Conn |-> Idle]
    /\ dsIsEnd = 0 /\ watchers = 0
    /\ toPi = <<>> /\ toSsc = <<>>
    /\ up = FALSE /\ conns = 0
    /\ cmds = 0 /\ asked = NoCmd
    /\ spoiled = FALSE /\ endLost = FALSE

\* Nothing is under way between the two.
Still ==
    /\ toPi = <<>> /\ toSsc = <<>> /\ box = <<>>
    /\ cli = NoCmd
    /\ \A c \in Conn : /\ sync[c].pc \in {"none", "done"}
                       /\ answer[c].pc \in {"none", "done"}

Rest == up /\ Still

-----------------------------------------------------------------------------
(* The socket.  A message that is sent while there is no connection is gone. *)

Vital(m) == m.type \in {"fetch", "conf"}

PiSends(m) ==
    /\ toSsc' = IF up THEN Append(toSsc, m) ELSE toSsc
    /\ spoiled' = (spoiled \/ (~up /\ Vital(m)))
    /\ endLost' = (endLost \/ (~up /\ m = DsEnd))

SscSends(m) ==
    /\ toPi' = IF up THEN Append(toPi, m) ELSE toPi
    /\ spoiled' = (spoiled \/ (~up /\ Vital(m)))

\* A read takes k messages, and all but the first are ignored.
Ignored(msgs, k) == {msgs[n] : n \in 2 .. k}

\* SSC connects, asks for PI's configuration, and starts the thread that sends
\* its own.
Connect ==
    /\ ~up /\ toSsc = <<>>
    /\ conns + cmds < MaxEvents
    /\ up' = TRUE
    /\ conns' = conns + 1
    /\ toPi' = Append(toPi, Fetch)
    /\ sync' = [sync EXCEPT ![conns + 1].pc = "start"]
    /\ asked' = NoCmd
    /\ spoiled' = ~Still
    /\ UNCHANGED <<piVars, ssc, dsIsEnd, watchers, toSsc, cmds, endLost>>

\* The other side may still read what had been sent, or not.
PiRestart ==
    /\ up /\ conns + cmds < MaxEvents
    /\ up' = FALSE
    /\ toPi' = <<>>
    /\ toSsc' \in {toSsc, <<>>}
    /\ pi' = PiDefault /\ cli' = NoCmd /\ cliPort' = 1
    /\ box' = <<>> /\ draining' = FALSE
    /\ answer' = [c \in Conn |-> Silent]
    /\ endLost' = (dsIsEnd = 0)
    /\ asked' = NoCmd
    /\ UNCHANGED <<sscVars, conns, cmds, spoiled>>

SscRestart ==
    /\ up /\ conns + cmds < MaxEvents
    /\ up' = FALSE
    /\ toSsc' = <<>>
    /\ toPi' \in {toPi, <<>>}
    /\ ssc' = SscDefault
    /\ sync' = [c \in Conn |-> Idle]
    /\ dsIsEnd' = 0 /\ watchers' = 0
    /\ asked' = NoCmd
    /\ UNCHANGED <<piVars, conns, cmds, spoiled, endLost>>

-----------------------------------------------------------------------------
(* SSC *)

SyncMark(c) ==
    /\ sync[c].pc \in {"start", "end"}
    /\ SscSends(Mark)
    /\ sync' = [sync EXCEPT ![c].pc = IF @ = "start" THEN "copy" ELSE "done"]
    /\ UNCHANGED <<piVars, ssc, dsIsEnd, watchers, toSsc, up, conns, cmds, asked, endLost>>

\* ssc_ds_conf_info copies under the mutex ...
SyncCopy(c) ==
    /\ sync[c].pc = "copy"
    /\ sync' = [sync EXCEPT ![c] = [pc |-> "send", conf |-> ssc]]
    /\ UNCHANGED <<piVars, ssc, dsIsEnd, watchers, netVars, ghosts>>

\* ... and sends without.
SyncSend(c) ==
    /\ sync[c].pc = "send"
    /\ SscSends([type |-> "conf", conf |-> sync[c].conf])
    /\ sync' = [sync EXCEPT ![c].pc = "end"]
    /\ UNCHANGED <<piVars, ssc, dsIsEnd, watchers, toSsc, up, conns, cmds, asked, endLost>>

\* The reader hands the first message to its handler.
SscDsStart == dsIsEnd' = 0 /\ watchers' = watchers + 1 /\ UNCHANGED ssc

\* Mutants: ds_is_end counts; the mark is ignored.
SscDsEndCounting == dsIsEnd' = dsIsEnd + 1 /\ UNCHANGED <<ssc, watchers>>

SscDsEndIgnored == UNCHANGED <<dsIsEnd, ssc, watchers>>

SscDsEnd == dsIsEnd' = 1 /\ UNCHANGED <<ssc, watchers>>

\* ssc_rece_pi_ds_data leaves out the last port.
SscDsData(conf) ==
    /\ ssc' = [age |-> conf.age,
               port |-> [p \in Port |-> IF p < PortNum THEN conf.port[p]
                                                       ELSE ssc.port[p]]]
    /\ UNCHANGED <<dsIsEnd, watchers>>

\* Mutant: a command is passed on to the chip only.
SscModifyChip(c) == UNCHANGED <<ssc, dsIsEnd, watchers>>

SscModify(c) ==
    /\ ssc' = IF c.type = "age" THEN [ssc EXCEPT !.age = c.value]
                                ELSE [ssc EXCEPT !.port = [p \in Port |-> c.value]]
    /\ UNCHANGED <<dsIsEnd, watchers>>

SscHandle(m) ==
    \/ m = DsStart /\ SscDsStart
    \/ m = DsEnd /\ SscDsEnd
    \/ m.type = "conf" /\ SscDsData(m.conf)
    \/ m.type \in {"age", "learn"} /\ SscModify(m)

SscRead(k) ==
    /\ k <= Len(toSsc)
    /\ SscHandle(toSsc[1])
    /\ toSsc' = SubSeq(toSsc, k + 1, Len(toSsc))
    /\ asked' = IF \E m \in Ignored(toSsc, k) : m.type \in {"age", "learn"} THEN NoCmd ELSE asked
    /\ spoiled' = (spoiled \/ \E m \in Ignored(toSsc, k) : Vital(m))
    /\ endLost' = (DsEnd \in Ignored(toSsc, k) \/ (endLost /\ toSsc[1] # DsEnd))
    /\ UNCHANGED <<piVars, sync, toPi, up, conns, cmds>>

\* ssc_deal_ds looks every five seconds.
WatcherEnds ==
    /\ watchers > 0
    /\ dsIsEnd = 1
    /\ watchers' = watchers - 1
    /\ UNCHANGED <<piVars, ssc, sync, dsIsEnd, netVars, ghosts>>

-----------------------------------------------------------------------------
(* PI *)

PiRead(k) ==
    /\ k <= Len(toPi)
    /\ Q!Put(toPi[1])
    /\ toPi' = SubSeq(toPi, k + 1, Len(toPi))
    /\ spoiled' = (spoiled \/ \E m \in Ignored(toPi, k) : Vital(m))
    /\ UNCHANGED <<pi, cli, cliPort, answer, sscVars, toSsc, up, conns, cmds, asked, endLost>>

DealBegin ==
    /\ Q!Begin
    /\ UNCHANGED <<pi, cli, cliPort, answer, sscVars, netVars, ghosts>>

\* Mutant: the ports are left out.
DealConfAge(conf) ==
    /\ pi' = [pi EXCEPT !.age = conf.age]
    /\ UNCHANGED answer

\* deal_conf_info takes over the age time and the ports below the last.
DealConf(conf) ==
    /\ pi' = [age |-> conf.age,
              port |-> [p \in Port |-> IF p < PortNum THEN conf.port[p]
                                                      ELSE pi.port[p]]]
    /\ UNCHANGED answer

\* pi_to_ssc_conf starts a thread.
DealFetch ==
    /\ \E c \in Conn :
        /\ answer[c].pc = "none"
        /\ \A d \in 1 .. c - 1 : answer[d].pc # "none"
        /\ answer' = [answer EXCEPT ![c].pc = "age"]
    /\ UNCHANGED pi

DealTake ==
    /\ Q!Take
    /\ \/ box[1].type = "conf" /\ DealConf(box[1].conf)
       \/ box[1].type = "fetch" /\ DealFetch
       \/ box[1].type = "mark" /\ UNCHANGED <<pi, answer>>
    /\ UNCHANGED <<cli, cliPort, sscVars, netVars, ghosts>>

\* pthread_ds_fun copies the age time and then one port after the other,
\* without the mutex, and sends the copy between two marks.
AnswerCopyAge(c) ==
    /\ answer[c].pc = "age"
    /\ answer' = [answer EXCEPT ![c].pc = "ports", ![c].conf.age = pi.age]
    /\ UNCHANGED <<pi, cli, cliPort, box, draining, sscVars, netVars, ghosts>>

AnswerCopyPort(c) ==
    LET p == answer[c].port
    IN  /\ answer[c].pc = "ports"
        /\ answer' = [answer EXCEPT
                         ![c].conf.port[p] = pi.port[p],
                         ![c].port = IF p < PortNum THEN p + 1 ELSE 1,
                         ![c].pc = IF p < PortNum THEN "ports" ELSE "start"]
        /\ UNCHANGED <<pi, cli, cliPort, box, draining, sscVars, netVars, ghosts>>

AnswerSend(c) ==
    /\ \/ /\ answer[c].pc = "start"
          /\ PiSends(DsStart)
          /\ answer' = [answer EXCEPT ![c].pc = "conf"]
       \/ /\ answer[c].pc = "conf"
          /\ PiSends([type |-> "conf", conf |-> answer[c].conf])
          /\ answer' = [answer EXCEPT ![c].pc = "end"]
       \/ /\ answer[c].pc = "end"
          /\ PiSends(DsEnd)
          /\ answer' = [answer EXCEPT ![c].pc = "done"]
    /\ UNCHANGED <<pi, cli, cliPort, box, draining, sscVars, toPi, up, conns, cmds, asked>>

\* A command is sent to SSC ...
CliSend(c) ==
    /\ cli = NoCmd
    /\ conns + cmds < MaxEvents
    /\ cmds' = cmds + 1
    /\ PiSends(c)
    /\ cli' = c
    /\ cliPort' = 1
    /\ asked' = IF Rest THEN c ELSE NoCmd
    /\ UNCHANGED <<pi, box, draining, answer, sscVars, toPi, up, conns>>

\* ... also when its argument is neither enable nor disable: then the status
\* sent is whatever the variable held, and nothing is done here.
CliSendInvalid ==
    /\ cli = NoCmd
    /\ conns + cmds < MaxEvents
    /\ cmds' = cmds + 1
    /\ \E c \in LearnCmd : PiSends(c)
    /\ asked' = NoCmd
    /\ UNCHANGED <<piVars, sscVars, toPi, up, conns>>

\* ... and carried out on PI's configuration, without the mutex.
CliAge ==
    /\ cli.type = "age"
    /\ pi' = [pi EXCEPT !.age = cli.value]
    /\ cli' = NoCmd
    /\ UNCHANGED <<cliPort, box, draining, answer, sscVars, netVars, ghosts>>

\* The ports, but for the last, one after the other.
CliLearn ==
    /\ cli.type = "learn"
    /\ pi' = [pi EXCEPT !.port[cliPort] = cli.value]
    /\ IF cliPort + 1 < PortNum THEN cliPort' = cliPort + 1 /\ UNCHANGED cli
                                ELSE cliPort' = 1 /\ cli' = NoCmd
    /\ UNCHANGED <<box, draining, answer, sscVars, netVars, ghosts>>

-----------------------------------------------------------------------------
SyncThread(c) == SyncMark(c) \/ SyncCopy(c) \/ SyncSend(c)

AnswerThread(c) == AnswerCopyAge(c) \/ AnswerCopyPort(c) \/ AnswerSend(c)

SscReads == \E k \in 1 .. MaxRead : SscRead(k)
PiReads  == \E k \in 1 .. MaxRead : PiRead(k)

Next ==
    \/ Connect \/ PiRestart \/ SscRestart
    \/ \E c \in Conn : SyncThread(c) \/ AnswerThread(c)
    \/ SscReads \/ WatcherEnds
    \/ PiReads \/ DealBegin \/ DealTake
    \/ \E c \in Cmd : CliSend(c)
    \/ CliSendInvalid \/ CliAge \/ CliLearn

Spec == Init /\ [][Next]_vars

\* Every thread runs when it can; a restarted program connects again; restarts
\* and commands are free.
Fairness ==
    /\ WF_vars(Connect)
    /\ \A c \in Conn : WF_vars(SyncThread(c)) /\ WF_vars(AnswerThread(c))
    /\ WF_vars(SscReads)
    /\ WF_vars(WatcherEnds)
    /\ WF_vars(PiReads)
    /\ WF_vars(DealBegin \/ DealTake)
    /\ WF_vars(CliAge \/ CliLearn)

FairSpec == Spec /\ Fairness

-----------------------------------------------------------------------------
(* Properties *)

\* A command that is given when nothing is under way reaches both: the age
\* times are then equal, and the ports' status but for the last port.
CommandTaken ==
    Rest /\ asked # NoCmd =>
        IF asked.type = "age"
        THEN pi.age = asked.value /\ ssc.age = asked.value
        ELSE \A p \in 1 .. PortNum - 1 :
                pi.port[p] = asked.value /\ ssc.port[p] = asked.value

\* An exchange that lost nothing and met no other ends with each of the two
\* having taken over what the other sent, in whatever order the two directions
\* and PI's queue brought it.
TakenOver(mine, theirs) ==
    mine.age = theirs.age /\ \A p \in 1 .. PortNum - 1 : mine.port[p] = theirs.port[p]
LastAnswer ==
    CHOOSE c \in Conn : /\ answer[c].pc = "done"
                        /\ \A d \in Conn : d > c => answer[d].pc = "none"
Exchanged ==
    Rest /\ ~spoiled /\ cmds = 0 => /\ TakenOver(pi, sync[conns].conf)
                                    /\ TakenOver(ssc, answer[LastAnswer].conf)

\* The threads that wait for the end of PI's answer end, unless the end mark
\* was lost.
WatchersEnd == watchers > 0 ~> (watchers = 0 \/ endLost)

\* "Set default parameters, send them to SSC", and "the connection succeeds:
\* ask for the data": the two agree after the exchange.
ConfAgrees == Rest /\ ~spoiled /\ cmds = 0 => pi.age = ssc.age
=============================================================================

------------------------------- MODULE ChipSync -------------------------------
(***************************************************************************)
(* Between SSC and the switch chip: SSC's handlers of the user's commands, *)
(* the relays SSD and SSA, which keep no state but turn every port number  *)
(* into that of the next level, and the chip, which learns and ages        *)
(* dynamic addresses and reports both through SSA's callback.              *)
(*                                                                         *)
(* The chip driver is external.  It is taken to report every dynamic       *)
(* address that comes or goes, whatever the reason, in the order in which  *)
(* that happens; the framework to pass the messages between two processes  *)
(* on in order; and neither to run out of memory.                          *)
(***************************************************************************)
EXTENDS MacTable, Sequences

CONSTANTS
    PhyOf,      \* ss_comm_ifx_db_get_phyid: the user's port to the global one
    FeOf,       \* ss_phyid_ce2fe: the global port to the one of the line card
    HwOf,       \* esw_mac_port_to_hw: that to the port of the chip
    Age,        \* the age times that are used
    Status,     \* the learning status a port may have
    MaxCmds,    \* bound: how many commands PI sends
    MaxEvents   \* bound: how often the chip learns or ages an address

\* Every port has one number on each level, and 0 is none.
Converts(f) ==
    /\ f \in [Port -> Port]
    /\ f[0] = 0
    /\ \A p, q \in Port : f[p] = f[q] => p = q
    /\ \A q \in Port : \E p \in Port : f[p] = q

ASSUME ConversionAssumption == Converts(PhyOf) /\ Converts(FeOf) /\ Converts(HwOf)
ASSUME ChipBoundsAssumption == MaxCmds \in Nat /\ MaxEvents \in Nat

\* ss_comm_get_phyid_user_ifx, ss_phyid_fe2ce and
\* ssa_mac_get_phyid_from_chip_port go the other way.
Back(f, q) == CHOOSE p \in Port : f[p] = q

UserPort == Port \ {0}
LastPort == CHOOSE p \in UserPort : \A q \in UserPort : q <= p

Cmd ==
    [kind : {"static"}, entry : RealEntry]
    \cup ClearCmd
    \cup [kind : {"age"}, arg : Age]
    \cup [kind : {"learn"}, arg : Status]
NoCmd == [kind |-> "none"]

\* The commands on their way down: "learn" names every port.
Down ==
    [kind : {"static"}, entry : RealEntry]
    \cup ClearCmd
    \cup [kind : {"age"}, arg : Age]
    \cup [kind : {"learn"}, arg : Status, ports : [UserPort -> Port]]

\* insert tells an address that was learned from one that went.
Event   == [insert : BOOLEAN, entry : RealEntry]
NoEvent == [insert |-> FALSE, entry |-> ZeroEntry]

VARIABLES
    \* SSC
    dyns,       \* dyn_mac_tbl_head, with the user's ports
    statics,    \* static_mac_tbl_head, with global ports
    conf,       \* age_time and port_status of SSC
    readerCmd,  \* the command that SSC has sent on but not carried out
    upd,        \* the event that the updater has to store
    \* the chip, whose tables have its own port numbers
    hwDyns,
    hwStatics,
    hwConf,     \* its age time and the learning status of its ports
    \* on the way
    toSsd,      \* commands from SSC to SSD
    toSsa,      \* commands from SSD to SSA
    reports,    \* changes of the chip's table for which mac_clbk will be called
    fromSsa,    \* events from SSA to SSD
    fromSsd,    \* events from SSD to SSC
    \* for the properties
    cmds,
    events,
    hasty       \* addresses that SSC has cleared although the chip had them

sscVars == <<dyns, statics, conf, readerCmd, upd>>
hwVars  == <<hwDyns, hwStatics, hwConf>>
vars    == <<sscVars, hwVars, toSsd, toSsa, reports, fromSsa, fromSsd,
             cmds, events, hasty>>

Conf == [age : Age, learn : [UserPort -> Status]]

TypeOK ==
    /\ dyns \subseteq RealEntry /\ statics \subseteq RealEntry
    /\ hwDyns \subseteq RealEntry /\ hwStatics \subseteq RealEntry
    /\ conf \in Conf /\ hwConf \in Conf
    /\ readerCmd \in Cmd \cup {NoCmd}
    /\ upd \in Event \cup {NoEvent}
    /\ toSsd \in Seq(Down) /\ toSsa \in Seq(Down)
    /\ reports \in Seq(Event) /\ fromSsa \in Seq(Event) /\ fromSsd \in Seq(Event)
    /\ cmds \in 0 .. MaxCmds /\ events \in 0 .. MaxEvents
    /\ hasty \subseteq RealEntry

Init ==
    /\ dyns = {} /\ statics = {} /\ hwDyns = {} /\ hwStatics = {}
    /\ conf \in {[age |-> a, learn |-> [p \in UserPort |-> s]] : a \in Age, s \in Status}
    /\ hwConf = conf
    /\ readerCmd = NoCmd /\ upd = NoEvent
    /\ toSsd = <<>> /\ toSsa = <<>>
    /\ reports = <<>> /\ fromSsa = <<>> /\ fromSsd = <<>>
    /\ cmds = 0 /\ events = 0 /\ hasty = {}

AtPort(e, p) == [e EXCEPT !.port = p]

-----------------------------------------------------------------------------
(* SSC: a command is passed on to SSD before it is carried out here. *)

PassedOn(c) ==
    CASE c.kind = "static" -> [c EXCEPT !.entry.port = PhyOf[@]]
      [] c.kind = "inter"  -> [c EXCEPT !.arg = PhyOf[@]]
      [] c.kind = "learn"  -> [kind |-> "learn", arg |-> c.arg,
                               ports |-> [p \in UserPort |-> PhyOf[p]]]
      [] OTHER             -> c

ReaderSend(c) ==
    /\ readerCmd = NoCmd
    /\ cmds < MaxCmds
    /\ cmds' = cmds + 1
    /\ toSsd' = Append(toSsd, PassedOn(c))
    /\ readerCmd' = c
    /\ UNCHANGED <<dyns, statics, conf, upd, hwVars, toSsa, reports, fromSsa,
                   fromSsd, events, hasty>>

\* What the chip has, with the port as SSC shows it to the user.
UserSide(e) == AtPort(e, Back(PhyOf, Back(FeOf, Back(HwOf, e.port))))

\* ssc_del_*_addr; for an interface the entries are compared with its global
\* port, although they hold the user's.
SscClear(c) ==
    LET gone == Selected(IF c.kind = "inter" THEN [c EXCEPT !.arg = PhyOf[@]] ELSE c, dyns)
    IN  /\ dyns' = dyns \ gone
        /\ hasty' = hasty \cup (gone \cap {UserSide(e) : e \in hwDyns})
        /\ UNCHANGED <<statics, conf>>

SscLocal(c) ==
    \/ /\ c.kind = "static"
       /\ statics' = PutByKey(statics, AtPort(c.entry, PhyOf[c.entry.port]))
       /\ UNCHANGED <<dyns, conf, hasty>>
    \/ c.kind \in {"dyn", "vlan", "inter"} /\ SscClear(c)
    \/ /\ c.kind = "age"
       /\ conf' = [conf EXCEPT !.age = c.arg]
       /\ UNCHANGED <<dyns, statics, hasty>>
    \/ /\ c.kind = "learn"
       /\ conf' = [conf EXCEPT !.learn = [p \in UserPort |-> c.arg]]
       /\ UNCHANGED <<dyns, statics, hasty>>

ReaderLocal ==
    /\ readerCmd # NoCmd
    /\ SscLocal(readerCmd)
    /\ readerCmd' = NoCmd
    /\ UNCHANGED <<upd, hwVars, toSsd, toSsa, reports, fromSsa, fromSsd, cmds, events>>

\* ssc_mac_update_recv: the user's port is looked up (and PI told) ...
UpdReceive ==
    /\ upd = NoEvent /\ fromSsd # <<>>
    /\ upd' = [Head(fromSsd) EXCEPT !.entry.port = Back(PhyOf, @)]
    /\ fromSsd' = Tail(fromSsd)
    /\ UNCHANGED <<dyns, statics, conf, readerCmd, hwVars, toSsd, toSsa, reports,
                   fromSsa, cmds, events, hasty>>

\* Mutant: the port of an address that is there already is left as it was.
UpdStoreNew ==
    /\ upd # NoEvent
    /\ dyns' = IF ~upd.insert THEN SscErase(dyns, upd.entry)
               ELSE IF TextHits(dyns, upd.entry) = {} THEN dyns \cup {upd.entry} ELSE dyns
    /\ hasty' = hasty \ {upd.entry}
    /\ upd' = NoEvent
    /\ UNCHANGED <<statics, conf, readerCmd, hwVars, toSsd, toSsa, reports, fromSsa,
                   fromSsd, cmds, events>>

\* ... and the entry stored or removed.  An address that SSC learns again is no
\* longer missing.
UpdStore ==
    /\ upd # NoEvent
    /\ dyns' = IF upd.insert THEN PutByText(dyns, upd.entry) ELSE SscErase(dyns, upd.entry)
    /\ hasty' = hasty \ {upd.entry}
    /\ upd' = NoEvent
    /\ UNCHANGED <<statics, conf, readerCmd, hwVars, toSsd, toSsa, reports, fromSsa,
                   fromSsd, cmds, events>>

-----------------------------------------------------------------------------
(* SSD *)

\* Mutant: the handler of static addresses passes the message on as it is.
RelayedRaw(m) ==
    CASE m.kind = "inter"  -> [m EXCEPT !.arg = FeOf[@]]
      [] m.kind = "learn"  -> [m EXCEPT !.ports = [p \in UserPort |-> FeOf[@[p]]]]
      [] OTHER             -> m

\* Every handler turns the ports into those of the line card.
Relayed(m) ==
    CASE m.kind = "static" -> [m EXCEPT !.entry.port = FeOf[@]]
      [] m.kind = "inter"  -> [m EXCEPT !.arg = FeOf[@]]
      [] m.kind = "learn"  -> [m EXCEPT !.ports = [p \in UserPort |-> FeOf[@[p]]]]
      [] OTHER             -> m

SsdCommand ==
    /\ toSsd # <<>>
    /\ toSsa' = Append(toSsa, Relayed(Head(toSsd)))
    /\ toSsd' = Tail(toSsd)
    /\ UNCHANGED <<sscVars, hwVars, reports, fromSsa, fromSsd, cmds, events, hasty>>

SsdEvent ==
    /\ fromSsa # <<>>
    /\ fromSsd' = Append(fromSsd, [Head(fromSsa) EXCEPT !.entry.port = Back(FeOf, @)])
    /\ fromSsa' = Tail(fromSsa)
    /\ UNCHANGED <<sscVars, hwVars, toSsd, toSsa, reports, cmds, events, hasty>>

-----------------------------------------------------------------------------
(* SSA and the chip *)

\* The addresses that go, in any order, and the reports about them.
Orders(S) == {s \in [1 .. Cardinality(S) -> S] : \A e \in S : \E n \in DOMAIN s : s[n] = e}

Goes(S) ==
    /\ hwDyns' = hwDyns \ S
    /\ \E s \in Orders(S) :
        reports' = reports \o [n \in DOMAIN s |-> [insert |-> FALSE, entry |-> s[n]]]

\* A static address takes the place of a dynamic one.
SsaStatic(e) ==
    LET hw == AtPort(e, HwOf[e.port])
    IN  /\ hwStatics' = PutByKey(hwStatics, hw)
        /\ Goes(KeyHits(hwDyns, hw))
        /\ UNCHANGED hwConf

\* bcm_l2_replace, bcm_l2_addr_delete_by_vlan and _by_port.
SsaClear(m) ==
    /\ Goes(Selected(IF m.kind = "inter" THEN [m EXCEPT !.arg = HwOf[@]] ELSE m, hwDyns))
    /\ UNCHANGED <<hwStatics, hwConf>>

SsaAge(m) ==
    /\ hwConf' = [hwConf EXCEPT !.age = m.arg]
    /\ UNCHANGED <<hwDyns, hwStatics, reports>>

\* The last port is left out.
SsaLearn(m) ==
    LET set == {HwOf[m.ports[p]] : p \in UserPort \ {LastPort}}
    IN  /\ hwConf' = [hwConf EXCEPT !.learn =
                         [q \in UserPort |-> IF q \in set THEN m.arg ELSE @[q]]]
        /\ UNCHANGED <<hwDyns, hwStatics, reports>>

SsaCommand ==
    /\ toSsa # <<>>
    /\ toSsa' = Tail(toSsa)
    /\ LET m == Head(toSsa)
       IN  \/ m.kind = "static" /\ SsaStatic(m.entry)
           \/ m.kind \in {"dyn", "vlan", "inter"} /\ SsaClear(m)
           \/ m.kind = "age" /\ SsaAge(m)
           \/ m.kind = "learn" /\ SsaLearn(m)
    /\ UNCHANGED <<sscVars, toSsd, fromSsa, fromSsd, cmds, events, hasty>>

\* The chip learns an address, or its port anew, unless it is static ...
HwLearn(e) ==
    /\ events < MaxEvents
    /\ events' = events + 1
    /\ e \notin hwDyns /\ KeyHits(hwStatics, e) = {}
    /\ hwDyns' = PutByKey(hwDyns, e)
    /\ reports' = Append(reports, [insert |-> TRUE, entry |-> e])
    /\ UNCHANGED <<sscVars, hwStatics, hwConf, toSsd, toSsa, fromSsa, fromSsd, cmds, hasty>>

\* ... and forgets it when its time is up.
HwAge(e) ==
    /\ events < MaxEvents
    /\ events' = events + 1
    /\ e \in hwDyns
    /\ Goes({e})
    /\ UNCHANGED <<sscVars, hwStatics, hwConf, toSsd, toSsa, fromSsa, fromSsd, cmds, hasty>>

\* Mutants: the ports of the chip are counted from 0; only what is learned is
\* passed on.
CallbackZero ==
    /\ reports # <<>>
    /\ fromSsa' = Append(fromSsa, [Head(reports) EXCEPT !.entry.port = Back(HwOf, @) - 1])
    /\ reports' = Tail(reports)
    /\ UNCHANGED <<sscVars, hwVars, toSsd, toSsa, fromSsd, cmds, events, hasty>>

CallbackLearned ==
    /\ reports # <<>>
    /\ fromSsa' = IF Head(reports).insert
                  THEN Append(fromSsa, [Head(reports) EXCEPT !.entry.port = Back(HwOf, @)])
                  ELSE fromSsa
    /\ reports' = Tail(reports)
    /\ UNCHANGED <<sscVars, hwVars, toSsd, toSsa, fromSsd, cmds, events, hasty>>

\* mac_clbk, with the port of the line card.
Callback ==
    /\ reports # <<>>
    /\ fromSsa' = Append(fromSsa, [Head(reports) EXCEPT !.entry.port = Back(HwOf, @)])
    /\ reports' = Tail(reports)
    /\ UNCHANGED <<sscVars, hwVars, toSsd, toSsa, fromSsd, cmds, events, hasty>>

-----------------------------------------------------------------------------
Next ==
    \/ \E c \in Cmd : ReaderSend(c)
    \/ ReaderLocal \/ UpdReceive \/ UpdStore
    \/ SsdCommand \/ SsdEvent
    \/ SsaCommand \/ Callback
    \/ \E e \in RealEntry : HwLearn(e) \/ HwAge(e)

Spec == Init /\ [][Next]_vars

-----------------------------------------------------------------------------
(* Properties *)

Rest ==
    /\ readerCmd = NoCmd /\ upd = NoEvent
    /\ toSsd = <<>> /\ toSsa = <<>>
    /\ reports = <<>> /\ fromSsa = <<>> /\ fromSsd = <<>>

\* When nothing is under way, SSC shows no dynamic address that the chip does
\* not have on that port, in whatever order commands and events crossed.
NoPhantoms == Rest => dyns \subseteq {UserSide(e) : e \in hwDyns}

\* And the only addresses of the chip that it does not show are those that it
\* cleared when the chip had them: learned again before SSC, which sends the
\* command first, had carried it out, or cleared for another interface.
OnlyHastyMissing == Rest => {UserSide(e) : e \in hwDyns} \subseteq dyns \cup hasty

\* The chip has the static addresses and the configuration that SSC believes it
\* has, the learning status of the last port excepted.
ChipObeys ==
    Rest => /\ hwStatics = {AtPort(e, HwOf[FeOf[e.port]]) : e \in statics}
            /\ hwConf.age = conf.age
            /\ \A p \in UserPort \ {LastPort} :
                    hwConf.learn[HwOf[FeOf[PhyOf[p]]]] = conf.learn[p]
=============================================================================

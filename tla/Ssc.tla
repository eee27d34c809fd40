-------------------------------- MODULE Ssc ---------------------------------
(***************************************************************************)
(* SSC: its database g_ssc_mac_opera, its socket to PI, and the threads    *)
(* that use them:                                                          *)
(*   - the reader pthread_deal_func, which connects to PI, reads PI's      *)
(*     commands and runs them;                                             *)
(*   - the updater, the thread of the message framework that calls         *)
(*     ssc_mac_update_recv for what SSD reports;                           *)
(*   - one thread ssc_ds_data_pi per connection, which sends the whole     *)
(*     database to PI.                                                     *)
(*                                                                         *)
(* A critical section that only touches the tables is one action, enabled  *)
(* while the mutex is free.  Only the walks of the last thread hold the    *)
(* mutex over several steps: they write to the socket, which blocks while  *)
(* its buffer is full, and sleep after each entry.                         *)
(*                                                                         *)
(* The configuration that PI and SSC exchange is not part of this module;  *)
(* PI's commands for it and the start and end marks of the synchronisation *)
(* are left out or appear as messages without an entry.                    *)
(***************************************************************************)
EXTENDS MacTable, Sequences

CONSTANTS
    PhyOf,      \* PhyOf[p]: what ss_comm_ifx_db_get_phyid yields for port p
    Faults,     \* which of "nomem" and "coalesce" may happen
    Buffer,     \* bound: the messages that fit in a socket's buffers
    MaxConn,    \* bound: how often SSC connects
    MaxEvents,  \* bound: how many events SSD reports
    MaxCmds     \* bound: how many commands PI sends

ASSUME PhyOfAssumption == PhyOf \in [Port -> Port]
ASSUME SscBoundsAssumption ==
    Buffer \in Nat \ {0} /\ MaxConn \in Nat /\ MaxEvents \in Nat /\ MaxCmds \in Nat

VARIABLES
    statics,    \* static_mac_tbl_head; the ports are physical ones
    dyns,       \* dyn_mac_tbl_head
    mutex,      \* g_ssc_mac_opera.mutex: "free", held by a walk ("sync"), or
                \* locked by a thread that has forgotten it ("leaked")
    sock,       \* the socket g_sock_info.sock_fd: not connected yet ("fresh"),
                \* connected ("up"), left by PI ("broken"), or "closed"
    toPi,       \* what is written to the socket and not read by PI
    toSsc,      \* what PI has written and SSC has not read
    readerPc,   \* where the reader is
    readerCmd,  \* the command the reader runs
    upd,        \* the event the updater has told PI but not stored yet
    sync,       \* sync[i]: the thread started by the i-th connection
    conns,      \* the number of connections so far
    events,     \* the number of events so far
    cmds,       \* the number of commands so far
    reported    \* the entries the chip has reported and not aged out

dbVars   == <<statics, dyns, mutex>>
readVars == <<toSsc, readerPc, readerCmd, conns>>
updVars  == <<upd, events, reported>>
sscVars  == <<statics, dyns, mutex, sock, toPi, toSsc, readerPc, readerCmd,
              upd, sync, conns, events, cmds, reported>>

\* What SSC tells PI: a dynamic entry that is new or gone, an entry of one of
\* the tables, or a message that carries no entry.
PiMsg ==
    [type : {"add", "del", "static", "dyn"}, entry : Entry]
    \cup [type : {"mark"}, entry : {ZeroEntry}]

Mark == [type |-> "mark", entry |-> ZeroEntry]

\* The commands of PI that concern addresses.
StaticCmd == [kind : {"static"}, entry : RealEntry]
Cmd == StaticCmd \cup ClearCmd

NoCmd == [kind |-> "none"]
NoUpd == [type |-> "none", entry |-> ZeroEntry]

TypeOK ==
    /\ statics \subseteq Entry
    /\ dyns \subseteq Entry
    /\ mutex \in {"free", "sync", "leaked"}
    /\ sock \in {"fresh", "up", "broken", "closed"}
    /\ toPi \in Seq(PiMsg) /\ Len(toPi) <= Buffer
    /\ toSsc \in Seq(Cmd) /\ Len(toSsc) <= Buffer
    /\ readerPc \in {"reconn", "connect", "read", "apply"}
    /\ readerCmd \in Cmd \cup {NoCmd}
    /\ upd \in [type : {"add", "del"}, entry : RealEntry] \cup {NoUpd}
    /\ sync \in [1 .. MaxConn -> [pc : {"none", "start", "conf", "static", "statics",
                                      "dyn", "dyns", "end", "done"},
                                left : SUBSET Entry]]
    /\ conns \in 0 .. MaxConn
    /\ events \in 0 .. MaxEvents
    /\ cmds \in 0 .. MaxCmds
    /\ reported \subseteq RealEntry

\* ssc_db_init and ssc_comm_init.
SscInit ==
    /\ statics = {} /\ dyns = {} /\ mutex = "free"
    /\ sock = "closed" /\ toPi = <<>> /\ toSsc = <<>>
    /\ readerPc = "reconn" /\ readerCmd = NoCmd
    /\ upd = NoUpd
    /\ sync = [i \in 1 .. MaxConn |-> [pc |-> "none", left |-> {}]]
    /\ conns = 0 /\ events = 0 /\ cmds = 0
    /\ reported = {}

-----------------------------------------------------------------------------
(* ssc_send_msg_pi. *)

\* Mutant: a write that does not wait for room in the buffer.
WriteNoWait(m) ==
    /\ toPi' = IF sock = "up" THEN Append(toPi, m) ELSE toPi
    /\ sock' = IF sock = "up" THEN "up" ELSE "closed"

\* A write to a socket that is not connected fails, and the socket is closed.
\* When PI has left, the socket may still take the message, which is lost.  A
\* write without memory for the message is skipped.
Write(m) ==
    \/ /\ sock = "up"
       /\ Len(toPi) < Buffer
       /\ toPi' = Append(toPi, m)
       /\ UNCHANGED sock
    \/ /\ sock # "up"
       /\ sock' = "closed"
       /\ UNCHANGED toPi
    \/ /\ sock = "broken" \/ "nomem" \in Faults
       /\ UNCHANGED <<toPi, sock>>

-----------------------------------------------------------------------------
(* The reader. *)

ReaderSocket ==
    /\ readerPc = "reconn"
    /\ sock' = "fresh"
    /\ readerPc' = "connect"
    /\ UNCHANGED <<dbVars, toPi, toSsc, readerCmd, updVars, sync, conns, cmds>>

\* Once connected the reader asks PI for its configuration and starts a thread
\* that sends the database.
ReaderConnect ==
    /\ readerPc = "connect"
    /\ sock = "fresh"
    /\ conns < MaxConn
    /\ sock' = "up"
    /\ toPi' = <<Mark>>
    /\ conns' = conns + 1
    /\ sync' = [sync EXCEPT ![conns + 1].pc = "start"]
    /\ readerPc' = "read"
    /\ UNCHANGED <<dbVars, toSsc, readerCmd, updVars, cmds>>

\* connect fails, and is tried again on the same socket two seconds later.
ReaderRetry == readerPc = "connect" /\ UNCHANGED sscVars

\* read returns nothing or an error.
ReaderEof ==
    /\ readerPc = "read"
    /\ sock \in {"broken", "closed"}
    /\ sock' = "closed"
    /\ readerPc' = "reconn"
    /\ UNCHANGED <<dbVars, toPi, toSsc, readerCmd, updVars, sync, conns, cmds>>

\* A read takes what has arrived, up to k commands, and only the first of them
\* is looked at.  The command is passed on to SSD.
ReaderRead(k) ==
    /\ readerPc = "read"
    /\ sock = "up"
    /\ k \in 1 .. (IF "coalesce" \in Faults THEN Len(toSsc) ELSE 1)
    /\ toSsc # <<>>
    /\ readerCmd' = Head(toSsc)
    /\ toSsc' = SubSeq(toSsc, k + 1, Len(toSsc))
    /\ readerPc' = "apply"
    /\ UNCHANGED <<dbVars, sock, toPi, updVars, sync, conns, cmds>>

\* The entry is stored with the physical port.
Physical(e) == [e EXCEPT !.port = PhyOf[e.port]]

ReaderReturns ==
    /\ readerPc' = "read"
    /\ readerCmd' = NoCmd
    /\ UNCHANGED <<sock, toPi, toSsc, updVars, sync, conns, cmds>>

ApplyStatic ==
    /\ readerPc = "apply" /\ readerCmd.kind = "static"
    /\ mutex = "free"
    /\ statics' = PutByKey(statics, Physical(readerCmd.entry))
    /\ UNCHANGED <<dyns, mutex>>
    /\ ReaderReturns

\* Without memory for a new entry ssc_local_add_addr returns and leaves the
\* mutex locked.
ApplyStaticNoMem ==
    /\ readerPc = "apply" /\ readerCmd.kind = "static"
    /\ "nomem" \in Faults
    /\ mutex = "free"
    /\ KeyHits(statics, Physical(readerCmd.entry)) = {}
    /\ mutex' = "leaked"
    /\ UNCHANGED <<statics, dyns>>
    /\ ReaderReturns

\* The clear commands act on the dynamic table; the port of an interface is
\* turned into a physical one first.
SscCleared(c) ==
    IF c.kind = "inter" THEN [c EXCEPT !.arg = PhyOf[c.arg]] ELSE c

\* Mutant: the command is passed on to SSD only.
ApplyClearNowhere ==
    /\ readerPc = "apply" /\ readerCmd.kind # "static"
    /\ mutex = "free"
    /\ UNCHANGED dbVars
    /\ ReaderReturns

ApplyClear ==
    /\ readerPc = "apply" /\ readerCmd.kind # "static"
    /\ mutex = "free"
    /\ dyns' = dyns \ Selected(SscCleared(readerCmd), dyns)
    /\ UNCHANGED <<statics, mutex>>
    /\ ReaderReturns

Reader ==
    \/ ReaderSocket \/ ReaderConnect \/ ReaderRetry \/ ReaderEof
    \/ \E k \in 1 .. Buffer : ReaderRead(k)
    \/ ApplyStatic \/ ApplyStaticNoMem \/ ApplyClear

-----------------------------------------------------------------------------
(* The updater: PI is told first, then the database is changed. *)

UpNotify(t, e) ==
    /\ upd = NoUpd
    /\ events < MaxEvents
    /\ events' = events + 1
    /\ IF t = "add" THEN reported' = PutByKey(reported, e)
                    ELSE e \in reported /\ reported' = reported \ {e}
    /\ Write([type |-> t, entry |-> e])
    /\ upd' = [type |-> t, entry |-> e]
    /\ UNCHANGED <<dbVars, readVars, sync, cmds>>

\* Mutant: without the mutex.
UpStoreUnlocked ==
    /\ upd # NoUpd
    /\ dyns' = IF upd.type = "add" THEN PutByText(dyns, upd.entry)
                                   ELSE SscErase(dyns, upd.entry)
    /\ upd' = NoUpd
    /\ UNCHANGED <<statics, mutex, sock, toPi, readVars, events, reported, sync, cmds>>

UpStore ==
    /\ upd # NoUpd
    /\ mutex = "free"
    /\ dyns' = IF upd.type = "add" THEN PutByText(dyns, upd.entry)
                                   ELSE SscErase(dyns, upd.entry)
    /\ upd' = NoUpd
    /\ UNCHANGED <<statics, mutex, sock, toPi, readVars, events, reported, sync, cmds>>

\* ssc_add_dyn_addr finds no memory for a new entry.
UpNoMem ==
    /\ upd.type = "add"
    /\ "nomem" \in Faults
    /\ mutex = "free"
    /\ TextHits(dyns, upd.entry) = {}
    /\ upd' = NoUpd
    /\ UNCHANGED <<dbVars, sock, toPi, readVars, events, reported, sync, cmds>>

Updater ==
    \/ \E t \in {"add", "del"}, e \in RealEntry : UpNotify(t, e)
    \/ UpStore \/ UpNoMem

-----------------------------------------------------------------------------
(* The thread that sends the database. *)

Goto(i, pc, left) == sync' = [sync EXCEPT ![i] = [pc |-> pc, left |-> left]]

SyncStart(i) ==
    /\ sync[i].pc = "start"
    /\ Write(Mark)
    /\ Goto(i, "conf", {})
    /\ UNCHANGED <<dbVars, readVars, updVars, cmds>>

\* The configuration is copied under the mutex.
SyncConf(i) ==
    /\ sync[i].pc = "conf"
    /\ mutex = "free"
    /\ Write(Mark)
    /\ Goto(i, "static", {})
    /\ UNCHANGED <<dbVars, readVars, updVars, cmds>>

\* Mutant: the table is copied, and sent without the mutex.
SyncLockNot(i) ==
    /\ sync[i].pc \in {"static", "dyn"}
    /\ IF sync[i].pc = "static" THEN Goto(i, "statics", statics)
                                ELSE Goto(i, "dyns", dyns)
    /\ UNCHANGED <<dbVars, sock, toPi, readVars, updVars, cmds>>

\* The walk over a table begins: all of it is sent under one lock.
SyncLock(i) ==
    /\ sync[i].pc \in {"static", "dyn"}
    /\ mutex = "free"
    /\ mutex' = "sync"
    /\ IF sync[i].pc = "static" THEN Goto(i, "statics", statics)
                                ELSE Goto(i, "dyns", dyns)
    /\ UNCHANGED <<statics, dyns, sock, toPi, readVars, updVars, cmds>>

SyncEntry(i) ==
    /\ sync[i].pc \in {"statics", "dyns"}
    /\ \E e \in sync[i].left :
        /\ Write([type |-> IF sync[i].pc = "statics" THEN "static" ELSE "dyn",
                  entry |-> e])
        /\ Goto(i, sync[i].pc, sync[i].left \ {e})
    /\ UNCHANGED <<dbVars, readVars, updVars, cmds>>

\* Mutant: the mutex stays locked.
SyncUnlockNot(i) ==
    /\ sync[i].pc \in {"statics", "dyns"}
    /\ sync[i].left = {}
    /\ Goto(i, IF sync[i].pc = "statics" THEN "dyn" ELSE "end", {})
    /\ UNCHANGED <<dbVars, sock, toPi, readVars, updVars, cmds>>

SyncUnlock(i) ==
    /\ sync[i].pc \in {"statics", "dyns"}
    /\ sync[i].left = {}
    /\ mutex' = "free"
    /\ Goto(i, IF sync[i].pc = "statics" THEN "dyn" ELSE "end", {})
    /\ UNCHANGED <<statics, dyns, sock, toPi, readVars, updVars, cmds>>

\* Without memory for its message, a table is not sent at all.
SyncNoMem(i) ==
    /\ sync[i].pc \in {"static", "dyn"}
    /\ "nomem" \in Faults
    /\ Goto(i, IF sync[i].pc = "static" THEN "dyn" ELSE "end", {})
    /\ UNCHANGED <<dbVars, sock, toPi, readVars, updVars, cmds>>

SyncEnd(i) ==
    /\ sync[i].pc = "end"
    /\ Write(Mark)
    /\ Goto(i, "done", {})
    /\ UNCHANGED <<dbVars, readVars, updVars, cmds>>

Sync(i) ==
    \/ SyncStart(i) \/ SyncConf(i)
    \/ SyncLock(i) \/ SyncEntry(i) \/ SyncUnlock(i) \/ SyncNoMem(i)
    \/ SyncEnd(i)

SscNext == Reader \/ Updater \/ \E i \in 1 .. MaxConn : Sync(i)

-----------------------------------------------------------------------------
(* PI, as far as SSC can see it. *)

\* PI ends: what is under way in either direction is lost.
PiHangsUp ==
    /\ sock = "up"
    /\ conns < MaxConn
    /\ sock' = "broken"
    /\ toPi' = <<>>
    /\ toSsc' = <<>>
    /\ UNCHANGED <<dbVars, readerPc, readerCmd, updVars, sync, conns, cmds>>

PiSends(c) ==
    /\ sock = "up"
    /\ cmds < MaxCmds
    /\ Len(toSsc) < Buffer
    /\ cmds' = cmds + 1
    /\ toSsc' = Append(toSsc, c)
    /\ UNCHANGED <<dbVars, sock, toPi, readerPc, readerCmd, updVars, sync, conns>>

PiReads ==
    /\ toPi # <<>>
    /\ toPi' = Tail(toPi)
    /\ UNCHANGED <<dbVars, sock, readVars, updVars, sync, cmds>>

Init == SscInit

\* The system may stop here: every thread waits for input that the bounds no
\* longer allow, or there is a mutex that nobody will unlock.
Rest ==
    /\ toPi = <<>> /\ toSsc = <<>>
    /\ \/ mutex = "leaked"
       \/ /\ upd = NoUpd
          /\ readerPc = "read"
          /\ \A i \in 1 .. MaxConn : sync[i].pc \in {"none", "done"}
    /\ UNCHANGED sscVars

Next ==
    \/ SscNext
    \/ PiHangsUp
    \/ \E c \in Cmd : PiSends(c)
    \/ PiReads
    \/ Rest

Spec == Init /\ [][Next]_sscVars

\* Every thread of SSC runs when it can, PI can be connected to in the end and
\* keeps reading its socket.
ReaderRuns ==
    \/ ReaderSocket \/ ReaderConnect \/ ReaderEof
    \/ \E k \in 1 .. Buffer : ReaderRead(k)
    \/ ApplyStatic \/ ApplyClear

SscFairness ==
    /\ WF_sscVars(ReaderRuns)
    /\ WF_sscVars(UpStore)
    /\ \A i \in 1 .. MaxConn : WF_sscVars(Sync(i))

FairSpec == Spec /\ SscFairness /\ WF_sscVars(PiReads)

-----------------------------------------------------------------------------
(* Properties *)

\* (mac, vlan) is the key of both tables, whichever threads fill them.
TablesKeyed == KeysUnique(statics) /\ KeysUnique(dyns)

\* Between two events, SSC holds no dynamic entry, with its port, that the chip
\* has not reported or has since aged out.
DynsReported == upd = NoUpd => dyns \subseteq reported

\* The thread that sends a table walks over entries that are still linked, no
\* matter what the reader and the updater do meanwhile.
WalkIsLive ==
    \A i \in 1 .. MaxConn :
        /\ sync[i].pc = "statics" => sync[i].left \subseteq statics
        /\ sync[i].pc = "dyns" => sync[i].left \subseteq dyns

\* A command that the reader has read is carried out, unless the mutex was
\* left locked.
CommandsApplied ==
    (readerPc = "apply") ~> (readerPc # "apply" \/ mutex = "leaked")

\* The thread of every connection gets to its end, over whatever sockets, as
\* long as the mutex is not left locked.
SyncsFinish ==
    \A i \in 1 .. MaxConn :
        (sync[i].pc = "start") ~> (sync[i].pc = "done" \/ mutex = "leaked")
=============================================================================

------------------------------ MODULE MacSync -------------------------------
(***************************************************************************)
(* SSC and PI together: the dynamic and static tables of SSC (Ssc), the    *)
(* two directions of the socket, PI's message queue (BatchQueue) and PI's  *)
(* tables (PiTables).                                                      *)
(*                                                                         *)
(* PI shows the user the addresses that SSC has told it.  It never asks    *)
(* for them again: after the synchronisation that follows a connection,    *)
(* the two tables agree only as long as every message arrives and is       *)
(* applied in an order that does no harm.  The variable disturbed records  *)
(* what this code does that may set them apart; everything else must not.  *)
(***************************************************************************)
EXTENDS Ssc

CONSTANT
    Breaks      \* which of "pi", "ssc" and "line" may break: a restart of one of
                \* the two programs, a connection lost while both run on

VARIABLES
    box,        \* PI's message queue, the newest message first
    draining,   \* deal_info_func is handling a batch
    piStatics,  \* PI's static table
    piDyns,     \* PI's dynamic table
    cliCmd,     \* the command that PI's CLI thread has sent but not run yet
    unsent,     \* PI has not been told of the event the updater is to store
    kept,       \* what PI had learned of dynamic entries before a connection was
                \* lost that it has outlived
    disturbed   \* something has happened that the protocol does not make good

piVars == <<box, draining, piStatics, piDyns, cliCmd>>
vars   == <<sscVars, piVars, unsent, kept, disturbed>>

Q == INSTANCE BatchQueue WITH Msg <- PiMsg

PiDb == INSTANCE PiTables WITH
    statics <- piStatics, dyns <- piDyns, shown <- {}

SyncTypeOK ==
    /\ TypeOK
    /\ box \in Seq(PiMsg)
    /\ draining \in BOOLEAN
    /\ piStatics \subseteq Entry
    /\ piDyns \subseteq Entry
    /\ cliCmd \in Cmd \cup {NoCmd}
    /\ unsent \in BOOLEAN
    /\ kept \subseteq Entry
    /\ disturbed \in BOOLEAN

SyncInit ==
    /\ SscInit
    /\ Q!BoxInit
    /\ piStatics = {} /\ piDyns = {}
    /\ cliCmd = NoCmd
    /\ unsent = FALSE
    /\ kept = {}
    /\ disturbed = FALSE

-----------------------------------------------------------------------------
(* What may set the tables apart. *)

\* Messages about dynamic entries, and the keys they are about.
About(m, e) == m.type \in {"add", "del", "dyn"} /\ SameKey(m.entry, e)

\* A read takes more than its first message off the socket.
Coalesced(msgs, k) == \E i \in 2 .. k : msgs[i] # Mark

\* A message is handled before an older one about the same key.
Overtakes == \E i \in 2 .. Len(box) : box[i] # Head(box) /\ About(box[i], Head(box).entry)
                                      /\ About(Head(box), Head(box).entry)

\* PI and SSC carry out the same clear command at different moments, and
\* messages about dynamic entries are under way between these.
Clearing ==
    \/ cliCmd.kind \in {"dyn", "vlan", "inter"}
    \/ readerCmd.kind \in {"dyn", "vlan", "inter"}
    \/ \E i \in DOMAIN toSsc : toSsc[i].kind # "static"

UnderWay ==
    \/ upd # NoUpd
    \/ \E i \in 1 .. MaxConn : sync[i].pc \notin {"none", "done"}
    \/ \E i \in DOMAIN toPi : toPi[i] # Mark
    \/ box # <<>>

Blame(cause) == disturbed' = (disturbed \/ cause \/ (Clearing' /\ UnderWay'))

-----------------------------------------------------------------------------
(* The steps of SSC. *)

SscReads(k) ==
    /\ ReaderRead(k)
    /\ UNCHANGED <<piVars, unsent, kept>>
    /\ Blame(Coalesced(toSsc, k))

SscReader ==
    /\ ReaderSocket \/ ReaderConnect \/ ReaderRetry \/ ReaderEof
         \/ ApplyStatic \/ ApplyClear
    /\ UNCHANGED <<piVars, unsent, kept>>
    /\ Blame(FALSE)

SscNotify ==
    /\ \E t \in {"add", "del"}, e \in RealEntry : UpNotify(t, e)
    /\ unsent' = (sock # "up")
    /\ UNCHANGED <<piVars, kept>>
    /\ Blame(FALSE)

SscStore ==
    /\ UpStore
    /\ unsent' = FALSE
    /\ UNCHANGED <<piVars, kept>>
    /\ Blame(FALSE)

\* A walk begins while the updater has still to store an event of which PI has
\* not heard, or sends an entry that the updater is about to change.
SscSync(i) ==
    /\ Sync(i)
    /\ UNCHANGED <<piVars, unsent, kept>>
    /\ Blame(\/ sync[i].pc = "dyn" /\ unsent
             \/ /\ sync[i].pc = "dyns" /\ sync[i].left # {}
                /\ upd # NoUpd
                /\ \E e \in sync[i].left \ sync'[i].left : SameKey(upd.entry, e))

-----------------------------------------------------------------------------
(* The steps of PI. *)

sscAlone == <<statics, dyns, mutex, readerPc, readerCmd, upd, sync, conns,
              events, reported>>

\* The poll thread reads what has arrived, up to k messages, and queues the
\* first of them, if it carries an entry: the others have handlers that change
\* nothing here.
PollRead(k) ==
    /\ k \in 1 .. (IF "coalesce" \in Faults THEN Len(toPi) ELSE 1)
    /\ toPi # <<>>
    /\ IF Head(toPi) = Mark THEN ~draining /\ UNCHANGED <<box, draining>>
                            ELSE Q!Put(Head(toPi))
    /\ toPi' = SubSeq(toPi, k + 1, Len(toPi))
    /\ UNCHANGED <<sscAlone, sock, toSsc, cmds, piStatics, piDyns, cliCmd, unsent, kept>>
    /\ Blame(Coalesced(toPi, k))

DealBegin ==
    /\ Q!Begin
    /\ UNCHANGED <<sscVars, piStatics, piDyns, cliCmd, unsent, kept>>
    /\ Blame(FALSE)

\* deal_info_func: what a message does to PI's tables.
Handle(m) ==
    \/ m.type \in {"add", "dyn"} /\ PiDb!PutDyn(m.entry)
    \/ m.type = "del" /\ PiDb!EraseDyn(m.entry)
    \/ /\ m.type = "del" /\ PiErasures(piDyns, m.entry) = {}
       /\ UNCHANGED <<piStatics, piDyns>>
    \/ m.type = "static" /\ PiDb!PutStatic(ZeroEntry)

DealTake ==
    /\ Q!Take
    /\ Handle(Head(box))
    /\ kept' = IF Head(box).type \in {"add", "dyn"} /\ Head(box).entry \notin kept
               THEN kept \ KeyHits(kept, Head(box).entry) ELSE kept
    /\ UNCHANGED <<sscVars, cliCmd, unsent>>
    /\ Blame(Overtakes)

\* A command of the user is sent to SSC first.  Nothing is sent, and nobody
\* told, when there is no connection.
CliSend(c) ==
    /\ cliCmd = NoCmd
    /\ cmds < MaxCmds
    /\ cmds' = cmds + 1
    /\ IF sock = "up"
       THEN Len(toSsc) < Buffer /\ toSsc' = Append(toSsc, c)
       ELSE UNCHANGED toSsc
    /\ cliCmd' = c
    /\ UNCHANGED <<sscAlone, sock, toPi, box, draining, piStatics, piDyns, unsent, kept>>
    /\ Blame(FALSE)

\* ... and then carried out on PI's own tables.
CliLocal ==
    /\ cliCmd # NoCmd
    /\ IF cliCmd.kind = "static" THEN PiDb!PutStatic(cliCmd.entry)
                                 ELSE PiDb!Clear(cliCmd)
    /\ cliCmd' = NoCmd
    /\ UNCHANGED <<sscVars, box, draining, unsent, kept>>
    /\ Blame(FALSE)

\* PI restarts: its tables and all messages under way are gone.  SSC connects
\* again and sends everything, so that nothing that went wrong before matters,
\* save a clear command that SSC has still to carry out.
PiRestart ==
    /\ "pi" \in Breaks
    /\ PiHangsUp
    /\ box' = <<>> /\ draining' = FALSE
    /\ piStatics' = {} /\ piDyns' = {}
    /\ cliCmd' = NoCmd
    /\ unsent' = (upd # NoUpd)
    /\ kept' = {}
    /\ disturbed' = (readerCmd.kind \in {"dyn", "vlan", "inter"})

\* PI outlives the connection.  It keeps its tables and handles what it has
\* read; the start of the next synchronisation changes nothing in them.
PiKeeps ==
    /\ kept' = kept \cup piDyns
                    \cup {box[i].entry : i \in {j \in DOMAIN box : box[j].type \in {"add", "dyn"}}}
    /\ UNCHANGED piVars

\* The connection is lost, and what is under way with it.
LineLost ==
    /\ "line" \in Breaks
    /\ PiHangsUp
    /\ PiKeeps
    /\ unsent' = (upd # NoUpd)
    /\ Blame(FALSE)

\* SSC restarts, with empty tables.  The chip goes on.
SscRestart ==
    /\ "ssc" \in Breaks
    /\ sock = "up" /\ conns < MaxConn
    /\ statics' = {} /\ dyns' = {} /\ mutex' = "free"
    /\ sock' = "closed" /\ toPi' = <<>> /\ toSsc' = <<>>
    /\ readerPc' = "reconn" /\ readerCmd' = NoCmd
    /\ upd' = NoUpd /\ unsent' = FALSE
    /\ sync' = [i \in 1 .. MaxConn |-> [pc |-> "none", left |-> {}]]
    /\ UNCHANGED <<conns, events, cmds, reported>>
    /\ PiKeeps
    /\ Blame(FALSE)

-----------------------------------------------------------------------------
\* Nothing is under way, and nobody is about to do anything.
Quiet ==
    /\ toPi = <<>> /\ toSsc = <<>> /\ box = <<>>
    /\ cliCmd = NoCmd
    /\ upd = NoUpd
    /\ \A i \in 1 .. MaxConn : sync[i].pc \in {"none", "done"}

Connected == sock = "up" /\ readerPc = "read"

\* SSC has closed the socket that its reader is still trying to connect.
Stranded == sock = "closed" /\ readerPc = "connect"

SyncRest == Quiet /\ Connected /\ UNCHANGED vars

SscSteps ==
    \/ \E k \in 1 .. Buffer : SscReads(k)
    \/ SscReader \/ SscNotify \/ SscStore
    \/ \E i \in 1 .. MaxConn : SscSync(i)
    \/ SscRestart

PiSteps ==
    \/ \E k \in 1 .. Buffer : PollRead(k)
    \/ DealBegin \/ DealTake
    \/ \E c \in Cmd : CliSend(c)
    \/ CliLocal
    \/ PiRestart \/ LineLost

SyncNext == SscSteps \/ PiSteps \/ SyncRest

SyncSpec == SyncInit /\ [][SyncNext]_vars

\* Every thread runs when it can; users, the chip and restarts are free.
SyncFairness ==
    /\ WF_vars(\/ \E k \in 1 .. Buffer : SscReads(k)
               \/ SscReader)
    /\ WF_vars(SscStore)
    /\ \A i \in 1 .. MaxConn : WF_vars(SscSync(i))
    /\ WF_vars(\E k \in 1 .. Buffer : PollRead(k))
    /\ WF_vars(DealBegin \/ DealTake)
    /\ WF_vars(CliLocal)

FairSyncSpec == SyncSpec /\ SyncFairness

-----------------------------------------------------------------------------
(* Properties *)

\* When nothing is under way and nothing that the protocol cannot make good
\* has happened, PI shows all of SSC's dynamic addresses, with their ports, and
\* no others but some of those that it had kept when a connection was lost.
Converged ==
    Quiet /\ Connected /\ ~disturbed => dyns \subseteq piDyns /\ piDyns \subseteq dyns \cup kept

\* Messages, commands and synchronisations come to an end: the blocking writes
\* of SSC under its mutex, PI's batches and PI's writes never wait for each
\* other in a circle.  Only a stranded reader is beyond help.
Settles == <>[](Quiet \/ Stranded)

\* The comment on ssc_ds_static_info: SSC synchronises the static addresses;
\* PI's static table holds addresses that a user has configured.
StaticsAreReal == piStatics \subseteq RealEntry
=============================================================================

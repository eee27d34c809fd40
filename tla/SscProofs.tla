------------------------------ MODULE SscProofs ------------------------------
(***************************************************************************)
(* Proofs about Ssc, for every set of addresses, vlans and ports, every    *)
(* buffer size, and any number of connections, events and commands.        *)
(*                                                                         *)
(* A walk is safe because it holds the mutex from its first entry to its   *)
(* last, and because of the threads of all the connections at most one can *)
(* be in a walk: nobody but its owner unlocks the mutex.                   *)
(***************************************************************************)
EXTENDS Ssc, MacTableLemmas, SequenceTheorems

Walks(i) == sync[i].pc \in {"statics", "dyns"}

\* Whoever walks over a table holds the mutex, and is the only one.
WalkHoldsMutex ==
    /\ \A i \in 1 .. MaxConn : Walks(i) => mutex = "sync"
    /\ \A i, j \in 1 .. MaxConn : Walks(i) /\ Walks(j) => i = j

\* The reader has a command whenever it is about to run one.
ReaderHasCmd == readerPc = "apply" => readerCmd \in Cmd

IInv ==
    /\ TypeOK
    /\ TablesKeyed
    /\ WalkIsLive
    /\ WalkHoldsMutex
    /\ ReaderHasCmd

-----------------------------------------------------------------------------
\* The entries that can be named are entries, and so is the zero entry.
LEMMA EntriesNamed == RealEntry \subseteq Entry /\ ZeroEntry \in Entry
BY TableAssumption DEF RealEntry, Entry, ZeroEntry

\* A message of PI about an entry, or the mark.
LEMMA Messages ==
    /\ Mark \in PiMsg
    /\ \A t \in {"add", "del", "static", "dyn"}, e \in Entry :
            [type |-> t, entry |-> e] \in PiMsg
BY DEF Mark, PiMsg

\* ssc_send_msg_pi leaves the buffer within its size and the socket in one of
\* its states.
LEMMA WriteType ==
    ASSUME TypeOK, NEW m \in PiMsg, Write(m)
    PROVE  /\ toPi' \in Seq(PiMsg) /\ Len(toPi') <= Buffer
           /\ sock' \in {"fresh", "up", "broken", "closed"}
<1>1. CASE Len(toPi) < Buffer /\ toPi' = Append(toPi, m) /\ UNCHANGED sock
  <2>1. toPi \in Seq(PiMsg) /\ Len(toPi) \in Nat
    BY DEF TypeOK
  <2>2. toPi' \in Seq(PiMsg) /\ Len(toPi') = Len(toPi) + 1
    BY <1>1, <2>1
  <2> QED BY <1>1, <2>1, <2>2, SscBoundsAssumption DEF TypeOK
<1>2. CASE UNCHANGED toPi
  BY <1>2 DEF TypeOK, Write
<1> QED BY <1>1, <1>2 DEF Write

\* The initial state: nothing is stored, nobody walks.
LEMMA InitIInv == Init => IInv
<1> SUFFICES ASSUME Init PROVE IInv
  OBVIOUS
<1> USE DEF Init, SscInit
<1>1. TypeOK
  <2>1. toPi \in Seq(PiMsg) /\ Len(toPi) <= Buffer /\ toSsc \in Seq(Cmd) /\ Len(toSsc) <= Buffer
    BY SscBoundsAssumption
  <2>2. sync \in [1 .. MaxConn -> [pc : {"none", "start", "conf", "static", "statics",
                                      "dyn", "dyns", "end", "done"},
                                left : SUBSET Entry]]
    OBVIOUS
  <2> QED BY <2>1, <2>2, SscBoundsAssumption DEF TypeOK
<1>2. TablesKeyed
  BY DEF TablesKeyed, KeysUnique
<1>3. WalkIsLive /\ WalkHoldsMutex /\ ReaderHasCmd
  BY DEF WalkIsLive, WalkHoldsMutex, Walks, ReaderHasCmd
<1> QED BY <1>1, <1>2, <1>3 DEF IInv

-----------------------------------------------------------------------------
(* The reader. *)

\* Connecting and reading: the tables, the mutex and the walks are left alone,
\* and a new thread starts in front of its walks.
LEMMA ReaderSocketIInv ==
    ASSUME IInv, \/ ReaderSocket \/ ReaderConnect \/ ReaderRetry \/ ReaderEof
                 \/ \E k \in 1 .. Buffer : ReaderRead(k)
    PROVE  IInv'
<1> USE DEF dbVars, updVars
<1>1. CASE ReaderSocket \/ ReaderEof
  <2>1. TypeOK'
    BY <1>1 DEF IInv, TypeOK, ReaderSocket, ReaderEof
  <2> QED
    BY <1>1, <2>1 DEF IInv, ReaderSocket, ReaderEof, TablesKeyed, WalkIsLive,
                      WalkHoldsMutex, Walks, ReaderHasCmd
<1>2. CASE ReaderConnect
  <2>1. conns + 1 \in 1 .. MaxConn
    BY <1>2, SscBoundsAssumption DEF ReaderConnect, IInv, TypeOK
  <2>2. \A i \in 1 .. MaxConn :
            sync'[i] = IF i = conns + 1 THEN [pc |-> "start", left |-> sync[i].left] ELSE sync[i]
    BY <1>2, <2>1 DEF ReaderConnect, IInv, TypeOK
  <2>3. TypeOK'
    <3>1. toPi' \in Seq(PiMsg) /\ Len(toPi') <= Buffer
      BY <1>2, Messages, SscBoundsAssumption DEF ReaderConnect
    <3>2. sync' \in [1 .. MaxConn -> [pc : {"none", "start", "conf", "static", "statics",
                                      "dyn", "dyns", "end", "done"},
                                left : SUBSET Entry]]
      BY <1>2, <2>1 DEF ReaderConnect, IInv, TypeOK
    <3>3. conns' \in 0 .. MaxConn
      BY <1>2, <2>1 DEF ReaderConnect
    <3> QED BY <1>2, <3>1, <3>2, <3>3 DEF ReaderConnect, IInv, TypeOK
  <2>4. WalkIsLive'
    BY <1>2, <2>2 DEF ReaderConnect, IInv, WalkIsLive
  <2>5. WalkHoldsMutex'
    BY <1>2, <2>2 DEF ReaderConnect, IInv, WalkHoldsMutex, Walks
  <2> QED BY <1>2, <2>3, <2>4, <2>5 DEF ReaderConnect, IInv, TablesKeyed, ReaderHasCmd
<1>3. CASE ReaderRetry
  BY <1>3 DEF ReaderRetry, sscVars, IInv, TypeOK, TablesKeyed, WalkIsLive, WalkHoldsMutex,
              Walks, ReaderHasCmd
<1>4. ASSUME NEW k \in 1 .. Buffer, ReaderRead(k) PROVE IInv'
  <2>1. k \in 1 .. Len(toSsc)
    BY <1>4 DEF ReaderRead, IInv, TypeOK
  <2>2. readerCmd' \in Cmd
    BY <1>4 DEF ReaderRead, IInv, TypeOK
  <2>3. toSsc' \in Seq(Cmd) /\ Len(toSsc') <= Buffer
    <3>1. toSsc' = SubSeq(toSsc, k + 1, Len(toSsc)) /\ toSsc \in Seq(Cmd)
          /\ Len(toSsc) \in Nat /\ Len(toSsc) <= Buffer
      BY <1>4 DEF ReaderRead, IInv, TypeOK
    <3>2. toSsc' \in Seq(Cmd) /\ Len(toSsc') = Len(toSsc) - k
      BY <2>1, <3>1
    <3> QED BY <2>1, <3>1, <3>2, SscBoundsAssumption
  <2>4. TypeOK'
    BY <1>4, <2>2, <2>3 DEF ReaderRead, IInv, TypeOK
  <2> QED BY <1>4, <2>2, <2>4 DEF ReaderRead, IInv, TablesKeyed, WalkIsLive,
                                  WalkHoldsMutex, Walks, ReaderHasCmd
<1> QED BY <1>1, <1>2, <1>3, <1>4

\* Carrying a command out: only while nobody walks, and the tables stay keyed.
LEMMA ApplyIInv ==
    ASSUME IInv, ApplyStatic \/ ApplyStaticNoMem \/ ApplyClear
    PROVE  IInv'
<1> USE DEF ReaderReturns, updVars, dbVars
<1>1. UNCHANGED <<sock, toPi, toSsc, updVars, sync, conns, cmds>>
      /\ readerPc' = "read" /\ readerCmd' = NoCmd /\ mutex = "free"
  BY DEF ApplyStatic, ApplyStaticNoMem, ApplyClear
<1>2. \A i \in 1 .. MaxConn : ~Walks(i)
  BY <1>1 DEF IInv, WalkHoldsMutex
<1>3. WalkIsLive' /\ WalkHoldsMutex' /\ ReaderHasCmd'
  BY <1>1, <1>2 DEF WalkIsLive, WalkHoldsMutex, Walks, ReaderHasCmd
<1>4. /\ statics' \subseteq Entry /\ dyns' \subseteq Entry
      /\ mutex' \in {"free", "sync", "leaked"}
      /\ TablesKeyed'
  <2>1. CASE ApplyStatic
    <3>1. readerCmd \in Cmd /\ readerCmd.kind = "static"
      BY <2>1 DEF ApplyStatic, IInv, ReaderHasCmd
    <3>2. readerCmd.entry \in Entry
      BY <3>1, EntriesNamed DEF Cmd, StaticCmd, ClearCmd
    <3>3. Physical(readerCmd.entry) \in Entry
      BY <3>2, PhyOfAssumption DEF Physical, Entry
    <3>4. statics \subseteq Entry /\ KeysUnique(statics)
      BY DEF IInv, TypeOK, TablesKeyed
    <3>5. statics' \subseteq Entry /\ KeysUnique(statics')
      BY <2>1, <3>3, <3>4, PutType, PutByKeyUnique DEF ApplyStatic
    <3> QED BY <2>1, <3>5 DEF ApplyStatic, IInv, TypeOK, TablesKeyed
  <2>2. CASE ApplyStaticNoMem
    BY <2>2 DEF ApplyStaticNoMem, IInv, TypeOK, TablesKeyed
  <2>3. CASE ApplyClear
    <3>1. dyns' \subseteq dyns
      BY <2>3 DEF ApplyClear
    <3> QED BY <2>3, <3>1, SubsetUnique DEF ApplyClear, IInv, TypeOK, TablesKeyed
  <2> QED BY <2>1, <2>2, <2>3
<1>5. TypeOK'
  BY <1>1, <1>4 DEF IInv, TypeOK
<1> QED BY <1>3, <1>4, <1>5 DEF IInv

-----------------------------------------------------------------------------
(* The updater. *)

LEMMA UpdaterIInv ==
    ASSUME IInv, Updater
    PROVE  IInv'
<1>1. ASSUME NEW t \in {"add", "del"}, NEW e \in RealEntry, UpNotify(t, e)
      PROVE  IInv'
  <2> DEFINE m == [type |-> t, entry |-> e]
  <2>1. e \in Entry /\ m \in PiMsg
    BY EntriesNamed, Messages
  <2>2. /\ toPi' \in Seq(PiMsg) /\ Len(toPi') <= Buffer
        /\ sock' \in {"fresh", "up", "broken", "closed"}
    BY <1>1, <2>1, WriteType DEF UpNotify, IInv
  <2>3. reported' \subseteq RealEntry
    <3>1. reported \subseteq RealEntry
      BY DEF IInv, TypeOK
    <3>2. PutByKey(reported, e) \subseteq RealEntry
      <4>1. ASSUME NEW a \in reported PROVE [a EXCEPT !.port = e.port] \in RealEntry
        <5>1. a \in RealEntry /\ e.port \in Port \ {0}
          BY <3>1 DEF RealEntry
        <5> QED BY <5>1 DEF RealEntry
      <4> QED BY <3>1, <4>1 DEF PutByKey, Upsert, KeyHits
    <3> QED BY <1>1, <3>1, <3>2 DEF UpNotify
  <2>4. upd' = m /\ m \in [type : {"add", "del"}, entry : RealEntry]
    BY <1>1 DEF UpNotify
  <2>5. events' \in 0 .. MaxEvents
    BY <1>1, SscBoundsAssumption DEF UpNotify, IInv, TypeOK
  <2>6. UNCHANGED <<dbVars, readVars, sync, cmds>>
    BY <1>1 DEF UpNotify
  <2>7. TypeOK'
    BY <2>2, <2>3, <2>4, <2>5, <2>6 DEF IInv, TypeOK, dbVars, readVars
  <2> QED
    BY <2>6, <2>7 DEF IInv, TablesKeyed, WalkIsLive, WalkHoldsMutex, Walks, ReaderHasCmd,
                      dbVars, readVars
<1>2. CASE UpStore \/ UpNoMem
  <2> USE DEF readVars, dbVars
  <2>1. /\ UNCHANGED <<statics, mutex, sock, toPi, readVars, events, reported, sync, cmds>>
        /\ upd' = NoUpd /\ mutex = "free"
    BY <1>2 DEF UpStore, UpNoMem
  <2>2. \A i \in 1 .. MaxConn : ~Walks(i)
    BY <2>1 DEF IInv, WalkHoldsMutex
  <2>3. WalkIsLive' /\ WalkHoldsMutex' /\ ReaderHasCmd'
    BY <2>1, <2>2 DEF IInv, WalkIsLive, WalkHoldsMutex, Walks, ReaderHasCmd
  <2>4. dyns' \subseteq Entry /\ KeysUnique(dyns')
    <3>1. dyns \subseteq Entry /\ KeysUnique(dyns)
      BY DEF IInv, TypeOK, TablesKeyed
    <3>2. CASE UpStore
      <4>1. upd.entry \in Entry
        BY <3>2, EntriesNamed DEF UpStore, IInv, TypeOK
      <4>2. PutByText(dyns, upd.entry) \subseteq Entry /\ KeysUnique(PutByText(dyns, upd.entry))
        BY <3>1, <4>1, PutType, PutByTextUnique
      <4>3. SscErase(dyns, upd.entry) \subseteq dyns
        BY DEF SscErase
      <4> QED BY <3>1, <3>2, <4>2, <4>3, SubsetUnique DEF UpStore
    <3>3. CASE UpNoMem
      BY <3>1, <3>3 DEF UpNoMem
    <3> QED BY <1>2, <3>2, <3>3
  <2>5. TypeOK'
    BY <2>1, <2>4 DEF IInv, TypeOK
  <2> QED BY <2>1, <2>3, <2>4, <2>5 DEF IInv, TablesKeyed
<1> QED BY <1>1, <1>2 DEF Updater

-----------------------------------------------------------------------------
(* The threads that send the database. *)

Pcs == {"none", "start", "conf", "static", "statics", "dyn", "dyns", "end", "done"}

\* A thread goes where it says, and the others stay.
LEMMA GotoType ==
    ASSUME TypeOK, NEW i \in 1 .. MaxConn, NEW pc \in Pcs, NEW left, left \subseteq Entry,
           Goto(i, pc, left)
    PROVE  /\ sync' \in [1 .. MaxConn -> [pc : Pcs, left : SUBSET Entry]]
           /\ sync'[i] = [pc |-> pc, left |-> left]
           /\ \A j \in 1 .. MaxConn : j # i => sync'[j] = sync[j]
BY DEF Goto, TypeOK, Pcs

LEMMA SyncIInv ==
    ASSUME IInv, NEW i \in 1 .. MaxConn, Sync(i)
    PROVE  IInv'
<1> USE DEF dbVars, readVars, updVars
<1>0. TypeOK /\ sync[i].left \subseteq Entry /\ statics \subseteq Entry /\ dyns \subseteq Entry
  BY DEF IInv, TypeOK
<1>1. CASE SyncStart(i) \/ SyncConf(i) \/ SyncEnd(i)
  <2>1. PICK pc \in Pcs : ~(pc \in {"statics", "dyns"}) /\ Goto(i, pc, {})
    BY <1>1 DEF SyncStart, SyncConf, SyncEnd, Pcs
  <2>2. /\ sync' \in [1 .. MaxConn -> [pc : Pcs, left : SUBSET Entry]]
        /\ sync'[i] = [pc |-> pc, left |-> {}]
        /\ \A j \in 1 .. MaxConn : j # i => sync'[j] = sync[j]
    BY <1>0, <2>1, GotoType
  <2>3. /\ toPi' \in Seq(PiMsg) /\ Len(toPi') <= Buffer
        /\ sock' \in {"fresh", "up", "broken", "closed"}
    BY <1>0, <1>1, Messages, WriteType DEF SyncStart, SyncConf, SyncEnd
  <2>4. UNCHANGED <<dbVars, readVars, updVars, cmds>>
    BY <1>1 DEF SyncStart, SyncConf, SyncEnd
  <2>5. TypeOK'
    BY <1>0, <2>2, <2>3, <2>4 DEF TypeOK, Pcs
  <2>6. WalkIsLive' /\ WalkHoldsMutex'
    BY <2>1, <2>2, <2>4 DEF IInv, WalkIsLive, WalkHoldsMutex, Walks
  <2> QED BY <2>4, <2>5, <2>6 DEF IInv, TablesKeyed, ReaderHasCmd
<1>2. CASE SyncLock(i)
  <2>1. mutex = "free" /\ mutex' = "sync" /\ UNCHANGED <<statics, dyns, sock, toPi, readVars, updVars, cmds>>
    BY <1>2 DEF SyncLock
  <2>2. PICK pc \in Pcs : /\ pc \in {"statics", "dyns"}
                          /\ Goto(i, pc, IF pc = "statics" THEN statics ELSE dyns)
    BY <1>2 DEF SyncLock, Pcs
  <2>3. /\ sync' \in [1 .. MaxConn -> [pc : Pcs, left : SUBSET Entry]]
        /\ sync'[i] = [pc |-> pc, left |-> IF pc = "statics" THEN statics ELSE dyns]
        /\ \A j \in 1 .. MaxConn : j # i => sync'[j] = sync[j]
    BY <1>0, <2>2, GotoType
  <2>4. \A j \in 1 .. MaxConn : ~Walks(j)
    BY <2>1 DEF IInv, WalkHoldsMutex
  <2>5. TypeOK'
    BY <1>0, <2>1, <2>3 DEF TypeOK, Pcs
  <2>6. WalkIsLive'
    BY <2>1, <2>3, <2>4 DEF WalkIsLive, Walks
  <2>7. WalkHoldsMutex'
    BY <2>1, <2>3, <2>4 DEF WalkHoldsMutex, Walks
  <2> QED BY <2>1, <2>5, <2>6, <2>7 DEF IInv, TablesKeyed, ReaderHasCmd
<1>3. CASE SyncEntry(i)
  <2>1. PICK e \in sync[i].left :
            /\ Write([type |-> IF sync[i].pc = "statics" THEN "static" ELSE "dyn", entry |-> e])
            /\ Goto(i, sync[i].pc, sync[i].left \ {e})
    BY <1>3 DEF SyncEntry
  <2>2. /\ Walks(i) /\ sync[i].pc \in Pcs
        /\ UNCHANGED <<dbVars, readVars, updVars, cmds>>
    BY <1>3 DEF SyncEntry, Walks, Pcs
  <2>3. /\ sync' \in [1 .. MaxConn -> [pc : Pcs, left : SUBSET Entry]]
        /\ sync'[i] = [pc |-> sync[i].pc, left |-> sync[i].left \ {e}]
        /\ \A j \in 1 .. MaxConn : j # i => sync'[j] = sync[j]
    <3>1. sync[i].left \ {e} \subseteq Entry
      BY <1>0
    <3> QED BY <1>0, <2>1, <2>2, <3>1, GotoType
  <2>4. /\ toPi' \in Seq(PiMsg) /\ Len(toPi') <= Buffer
        /\ sock' \in {"fresh", "up", "broken", "closed"}
    <3>1. e \in Entry
      BY <1>0, <2>1
    <3> QED BY <1>0, <2>1, <3>1, Messages, WriteType
  <2>5. TypeOK'
    BY <1>0, <2>2, <2>3, <2>4 DEF TypeOK, Pcs
  <2>6. WalkIsLive'
    BY <2>2, <2>3 DEF IInv, WalkIsLive
  <2>7. WalkHoldsMutex'
    BY <2>2, <2>3 DEF IInv, WalkHoldsMutex, Walks
  <2> QED BY <2>2, <2>5, <2>6, <2>7 DEF IInv, TablesKeyed, ReaderHasCmd
<1>4. CASE SyncUnlock(i)
  <2>1. PICK pc \in Pcs : ~(pc \in {"statics", "dyns"}) /\ Goto(i, pc, {})
    BY <1>4 DEF SyncUnlock, Pcs
  <2>2. /\ Walks(i) /\ mutex' = "free"
        /\ UNCHANGED <<statics, dyns, sock, toPi, readVars, updVars, cmds>>
    BY <1>4 DEF SyncUnlock, Walks
  <2>3. /\ sync' \in [1 .. MaxConn -> [pc : Pcs, left : SUBSET Entry]]
        /\ sync'[i] = [pc |-> pc, left |-> {}]
        /\ \A j \in 1 .. MaxConn : j # i => sync'[j] = sync[j]
    BY <1>0, <2>1, GotoType
  <2>4. \A j \in 1 .. MaxConn : j # i => ~Walks(j)
    BY <2>2 DEF IInv, WalkHoldsMutex
  <2>5. \A j \in 1 .. MaxConn : ~Walks(j)'
    BY <2>1, <2>3, <2>4 DEF Walks
  <2>6. TypeOK'
    BY <1>0, <2>2, <2>3 DEF TypeOK, Pcs
  <2>7. WalkIsLive' /\ WalkHoldsMutex'
    BY <2>5 DEF WalkIsLive, WalkHoldsMutex, Walks
  <2> QED BY <2>2, <2>6, <2>7 DEF IInv, TablesKeyed, ReaderHasCmd
<1>5. CASE SyncNoMem(i)
  <2>1. PICK pc \in Pcs : ~(pc \in {"statics", "dyns"}) /\ Goto(i, pc, {})
    BY <1>5 DEF SyncNoMem, Pcs
  <2>2. UNCHANGED <<dbVars, sock, toPi, readVars, updVars, cmds>>
    BY <1>5 DEF SyncNoMem
  <2>3. /\ sync' \in [1 .. MaxConn -> [pc : Pcs, left : SUBSET Entry]]
        /\ sync'[i] = [pc |-> pc, left |-> {}]
        /\ \A j \in 1 .. MaxConn : j # i => sync'[j] = sync[j]
    BY <1>0, <2>1, GotoType
  <2>4. TypeOK'
    BY <1>0, <2>2, <2>3 DEF TypeOK, Pcs
  <2>5. WalkIsLive' /\ WalkHoldsMutex'
    BY <2>1, <2>2, <2>3 DEF IInv, WalkIsLive, WalkHoldsMutex, Walks
  <2> QED BY <2>2, <2>4, <2>5 DEF IInv, TablesKeyed, ReaderHasCmd
<1> QED BY <1>1, <1>2, <1>3, <1>4, <1>5 DEF Sync

-----------------------------------------------------------------------------
(* PI, and the whole. *)

LEMMA PiIInv ==
    ASSUME IInv, PiHangsUp \/ (\E c \in Cmd : PiSends(c)) \/ PiReads \/ Rest
    PROVE  IInv'
<1> USE DEF dbVars, readVars, updVars
<1>1. CASE PiHangsUp
  <2>1. TypeOK'
    <3>1. toPi' \in Seq(PiMsg) /\ Len(toPi') <= Buffer /\ toSsc' \in Seq(Cmd) /\ Len(toSsc') <= Buffer
      BY <1>1, SscBoundsAssumption DEF PiHangsUp
    <3> QED BY <1>1, <3>1 DEF PiHangsUp, IInv, TypeOK
  <2> QED BY <1>1, <2>1 DEF PiHangsUp, IInv, TablesKeyed, WalkIsLive, WalkHoldsMutex, Walks,
                            ReaderHasCmd
<1>2. ASSUME NEW c \in Cmd, PiSends(c) PROVE IInv'
  <2>1. toSsc' \in Seq(Cmd) /\ Len(toSsc') <= Buffer
    <3>1. toSsc \in Seq(Cmd) /\ Len(toSsc) \in Nat /\ Len(toSsc) < Buffer
      BY <1>2 DEF PiSends, IInv, TypeOK
    <3>2. toSsc' \in Seq(Cmd) /\ Len(toSsc') = Len(toSsc) + 1
      BY <1>2, <3>1 DEF PiSends
    <3> QED BY <3>1, <3>2, SscBoundsAssumption
  <2>2. cmds' \in 0 .. MaxCmds
    BY <1>2, SscBoundsAssumption DEF PiSends, IInv, TypeOK
  <2>3. TypeOK'
    BY <1>2, <2>1, <2>2 DEF PiSends, IInv, TypeOK
  <2> QED BY <1>2, <2>3 DEF PiSends, IInv, TablesKeyed, WalkIsLive, WalkHoldsMutex, Walks,
                            ReaderHasCmd
<1>3. CASE PiReads
  <2>1. toPi' \in Seq(PiMsg) /\ Len(toPi') <= Buffer
    <3>1. toPi \in Seq(PiMsg) /\ toPi # <<>> /\ Len(toPi) \in Nat /\ Len(toPi) <= Buffer
      BY <1>3 DEF PiReads, IInv, TypeOK
    <3>2. toPi' \in Seq(PiMsg) /\ Len(toPi') = Len(toPi) - 1
      BY <1>3, <3>1, HeadTailProperties DEF PiReads
    <3> QED BY <3>1, <3>2, SscBoundsAssumption
  <2>2. TypeOK'
    BY <1>3, <2>1 DEF PiReads, IInv, TypeOK
  <2> QED BY <1>3, <2>2 DEF PiReads, IInv, TablesKeyed, WalkIsLive, WalkHoldsMutex, Walks,
                            ReaderHasCmd
<1>4. CASE Rest
  BY <1>4 DEF Rest, sscVars, IInv, TypeOK, TablesKeyed, WalkIsLive, WalkHoldsMutex, Walks,
              ReaderHasCmd
<1> QED BY <1>1, <1>2, <1>3, <1>4

LEMMA StepIInv == IInv /\ [Next]_sscVars => IInv'
<1> SUFFICES ASSUME IInv, [Next]_sscVars PROVE IInv'
  OBVIOUS
<1>1. CASE Reader
  BY <1>1, ReaderSocketIInv, ApplyIInv DEF Reader
<1>2. CASE Updater
  BY <1>2, UpdaterIInv
<1>3. CASE \E i \in 1 .. MaxConn : Sync(i)
  BY <1>3, SyncIInv
<1>4. CASE PiHangsUp \/ (\E c \in Cmd : PiSends(c)) \/ PiReads \/ Rest
  BY <1>4, PiIInv
<1>5. CASE UNCHANGED sscVars
  BY <1>5 DEF sscVars, IInv, TypeOK, TablesKeyed, WalkIsLive, WalkHoldsMutex, Walks,
              ReaderHasCmd
<1> QED BY <1>1, <1>2, <1>3, <1>4, <1>5 DEF Next, SscNext

LEMMA Invariance == Spec => []IInv
<1> QED BY InitIInv, StepIInv, PTL DEF Spec

-----------------------------------------------------------------------------
\* SSC's variables keep their types, and the socket's buffers their size.
THEOREM SscTypes == Spec => []TypeOK
<1>1. IInv => TypeOK
  BY DEF IInv
<1> QED BY <1>1, Invariance, PTL

\* Neither table of SSC ever holds two entries with one address and vlan,
\* although one of them is searched with strncmp.
THEOREM SscKeysUnique == Spec => []TablesKeyed
<1>1. IInv => TablesKeyed
  BY DEF IInv
<1> QED BY <1>1, Invariance, PTL

\* The threads that send the database only visit entries that are linked.
THEOREM SscWalksLive == Spec => []WalkIsLive
<1>1. IInv => WalkIsLive
  BY DEF IInv
<1> QED BY <1>1, Invariance, PTL

-----------------------------------------------------------------------------
(* Where the dynamic entries come from, if strncmp tells the addresses in   *)
(* use apart.                                                              *)

TextsTell == \A m, n \in Mac : TextOf[m] = TextOf[n] => m = n

\* While an event waits to be stored, all entries but those with its key are
\* reported ones already; the event is, if it is an addition.
RInv ==
    /\ KeysUnique(reported)
    /\ upd = NoUpd => dyns \subseteq reported
    /\ upd # NoUpd => {a \in dyns : ~SameKey(a, upd.entry)} \subseteq reported
    /\ upd # NoUpd /\ upd.type = "add" => upd.entry \in reported

LEMMA InitRInv == Init => RInv
BY DEF Init, SscInit, RInv, KeysUnique

\* An event is reported before it is stored.
LEMMA NotifyRInv ==
    ASSUME IInv, RInv, NEW t \in {"add", "del"}, NEW e \in RealEntry, UpNotify(t, e)
    PROVE  RInv'
<1>1. upd = NoUpd /\ upd' = [type |-> t, entry |-> e] /\ dyns' = dyns
  BY DEF UpNotify, dbVars
<1>2. upd' # NoUpd /\ upd'.entry = e /\ upd'.type = t
  BY <1>1 DEF NoUpd
<1>3. reported \subseteq Entry /\ e \in Entry /\ KeysUnique(reported) /\ dyns \subseteq reported
  BY <1>1, EntriesNamed DEF IInv, TypeOK, RInv
<1>4. CASE t = "add"
  <2>1. reported' = {a \in reported : ~SameKey(a, e)} \cup {e}
    BY <1>3, <1>4, PutByKeyIs DEF UpNotify
  <2>2. KeysUnique(reported')
    BY <1>3, <1>4, PutByKeyUnique DEF UpNotify
  <2> QED BY <1>1, <1>2, <1>3, <2>1, <2>2 DEF RInv
<1>5. CASE t = "del"
  <2>1. reported' = reported \ {e}
    BY <1>5 DEF UpNotify
  <2>2. KeysUnique(reported')
    BY <1>3, <2>1, SubsetUnique
  <2>3. \A a \in dyns : ~SameKey(a, e) => a # e
    BY DEF SameKey
  <2> QED BY <1>1, <1>2, <1>3, <1>5, <2>1, <2>2, <2>3 DEF RInv
<1> QED BY <1>4, <1>5

\* Storing the event puts nothing but its entry into the table.
LEMMA StoreRInv ==
    ASSUME TextsTell, IInv, RInv, UpStore \/ UpNoMem
    PROVE  RInv'
<1>1. upd # NoUpd /\ upd' = NoUpd /\ reported' = reported
  BY DEF UpStore, UpNoMem, NoUpd
<1>2. upd.entry \in Entry /\ dyns \subseteq Entry /\ upd.type \in {"add", "del"}
  BY <1>1, EntriesNamed DEF IInv, TypeOK
<1>3. {a \in dyns : ~SameKey(a, upd.entry)} \subseteq reported
  BY <1>1 DEF RInv
<1>4. dyns' \subseteq reported
  <2>1. CASE UpStore /\ upd.type = "add"
    <3>1. PutByText(dyns, upd.entry) \subseteq {a \in dyns : ~SameKey(a, upd.entry)} \cup {upd.entry}
      BY <1>2, PutByTextIs DEF TextsTell
    <3>2. upd.entry \in reported
      BY <1>1, <2>1 DEF RInv
    <3> QED BY <1>3, <2>1, <3>1, <3>2 DEF UpStore
  <2>2. CASE UpStore /\ upd.type # "add"
    BY <1>3, <2>2 DEF UpStore, SscErase, KeyHits
  <2>3. CASE UpNoMem
    <3>1. \A a \in dyns : ~SameKey(a, upd.entry)
      BY <2>3 DEF UpNoMem, TextHits, SameText, SameKey
    <3> QED BY <1>3, <2>3, <3>1 DEF UpNoMem, dbVars
  <2> QED BY <2>1, <2>2, <2>3
<1> QED BY <1>1, <1>4 DEF RInv

LEMMA StepRInv ==
    ASSUME TextsTell
    PROVE  IInv /\ RInv /\ [Next]_sscVars => RInv'
<1> SUFFICES ASSUME IInv, RInv, [Next]_sscVars PROVE RInv'
  OBVIOUS
<1>1. CASE Updater
  BY <1>1, NotifyRInv, StoreRInv DEF Updater
<1>2. CASE dyns' \subseteq dyns /\ UNCHANGED <<upd, reported>>
  BY <1>2 DEF RInv
<1>3. CASE Reader
  <2>1. dyns' \subseteq dyns /\ UNCHANGED <<upd, reported>>
    BY <1>3 DEF Reader, ReaderSocket, ReaderConnect, ReaderRetry, ReaderEof, ReaderRead,
                ApplyStatic, ApplyStaticNoMem, ApplyClear, ReaderReturns, dbVars, updVars, sscVars
  <2> QED BY <1>2, <2>1
<1>4. ASSUME NEW i \in 1 .. MaxConn, Sync(i) PROVE RInv'
  <2>1. UNCHANGED <<dyns, upd, reported>>
    BY <1>4 DEF Sync, SyncStart, SyncConf, SyncLock, SyncEntry, SyncUnlock, SyncNoMem, SyncEnd,
                dbVars, updVars
  <2> QED BY <1>2, <2>1
<1>5. CASE PiHangsUp \/ (\E c \in Cmd : PiSends(c)) \/ PiReads \/ Rest \/ UNCHANGED sscVars
  <2>1. UNCHANGED <<dyns, upd, reported>>
    BY <1>5 DEF PiHangsUp, PiSends, PiReads, Rest, dbVars, updVars, sscVars
  <2> QED BY <1>2, <2>1
<1> QED BY <1>1, <1>3, <1>4, <1>5 DEF Next, SscNext

\* Between two events SSC holds no dynamic entry, with its port, that the chip
\* has not reported or has since aged out, as long as no two addresses agree up
\* to a zero octet.
THEOREM SscDynsReported ==
    ASSUME TextsTell
    PROVE  Spec => []DynsReported
<1>1. RInv => DynsReported
  BY DEF RInv, DynsReported
<1>2. IInv /\ RInv /\ [Next]_sscVars => RInv'
  BY StepRInv
<1> QED BY <1>1, <1>2, InitRInv, Invariance, PTL DEF Spec
=============================================================================

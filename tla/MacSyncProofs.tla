---------------------------- MODULE MacSyncProofs ----------------------------
(***************************************************************************)
(* Proofs about MacSync, for every set of addresses, vlans and ports, any  *)
(* number of connections, events and commands, and all kinds of breaks.    *)
(*                                                                         *)
(* What SscProofs proves of SSC beside an arbitrary PI holds beside this   *)
(* PI as well, because the steps of MacSync are steps of Ssc or leave its  *)
(* tables, locks and walks alone; only a restart of SSC is new.            *)
(***************************************************************************)
EXTENDS MacSync, SscProofs

\* Neither table of PI holds two entries for one key.
PiKeyed == KeysUnique(piStatics) /\ KeysUnique(piDyns)

WholeIInv == IInv /\ SyncTypeOK /\ PiKeyed

-----------------------------------------------------------------------------
LEMMA InitWholeIInv == SyncInit => WholeIInv
<1> SUFFICES ASSUME SyncInit PROVE WholeIInv
  OBVIOUS
<1>1. IInv
  BY InitIInv DEF SyncInit, Init
<1>2. SyncTypeOK
  <2>1. box \in Seq(PiMsg)
    BY DEF SyncInit, Q!BoxInit
  <2>2. draining \in BOOLEAN /\ unsent \in BOOLEAN /\ disturbed \in BOOLEAN
    BY DEF SyncInit, Q!BoxInit
  <2>3. piStatics \subseteq Entry /\ piDyns \subseteq Entry /\ kept \subseteq Entry
        /\ cliCmd \in Cmd \cup {NoCmd}
    BY DEF SyncInit
  <2> QED BY <1>1, <2>1, <2>2, <2>3 DEF IInv, SyncTypeOK
<1>3. PiKeyed
  BY DEF SyncInit, PiKeyed, KeysUnique
<1> QED BY <1>1, <1>2, <1>3 DEF WholeIInv

\* The operators of the abstract tables are those of MacTable.
LEMMA TablesSame ==
    /\ \A T, e : PiDb!PutByKey(T, e) = PutByKey(T, e)
    /\ \A T, e : PiDb!PiErasures(T, e) = PiErasures(T, e)
    /\ \A c, T : PiDb!Selected(c, T) = Selected(c, T)
<1>1. \A T, e : PiDb!PutByKey(T, e) = PutByKey(T, e)
  BY DEF PiDb!PutByKey, PutByKey, PiDb!Upsert, Upsert, PiDb!KeyHits, KeyHits,
         PiDb!SameKey, SameKey
<1>2. \A T, e : PiDb!PiErasures(T, e) = PiErasures(T, e)
  BY DEF PiDb!PiErasures, PiErasures, PiDb!TextHits, TextHits, PiDb!SameText, SameText
<1>3. \A c, T : PiDb!Selected(c, T) = Selected(c, T)
  BY DEF PiDb!Selected, Selected, PiDb!Selects, Selects
<1> QED BY <1>1, <1>2, <1>3

\* Insertions and removals leave PI's tables tables of entries, one for a key.
TableOK(T) == T \subseteq Entry /\ KeysUnique(T)

LEMMA TableKept ==
    ASSUME NEW T, TableOK(T)
    PROVE  /\ \A e \in Entry : TableOK(PutByKey(T, e))
           /\ \A e : \A S \in PiErasures(T, e) : TableOK(S)
           /\ \A S : S \subseteq T => TableOK(S)
<1>1. \A e \in Entry : TableOK(PutByKey(T, e))
  BY PutType, PutByKeyUnique DEF TableOK
<1>2. \A S : S \subseteq T => TableOK(S)
  BY SubsetUnique DEF TableOK
<1>3. \A e : \A S \in PiErasures(T, e) : S \subseteq T
  BY DEF PiErasures
<1> QED BY <1>1, <1>2, <1>3

\* What PI handles of one message, or of a command of the user.
LEMMA TablesStep ==
    ASSUME WholeIInv,
           \/ \E m \in PiMsg : Handle(m)
           \/ \E c \in Cmd : IF c.kind = "static" THEN PiDb!PutStatic(c.entry)
                                                  ELSE PiDb!Clear(c)
    PROVE  TableOK(piStatics') /\ TableOK(piDyns')
<1> USE DEF PiDb!PutStatic, PiDb!PutDyn, PiDb!EraseDyn, PiDb!Clear
<1>1. TableOK(piStatics) /\ TableOK(piDyns) /\ ZeroEntry \in Entry
  BY EntriesNamed DEF WholeIInv, SyncTypeOK, PiKeyed, TableOK
<1>2. ASSUME NEW m \in PiMsg, Handle(m) PROVE TableOK(piStatics') /\ TableOK(piDyns')
  <2>1. m.entry \in Entry
    BY EntriesNamed DEF PiMsg
  <2> QED BY <1>1, <1>2, <2>1, TableKept, TablesSame DEF Handle
<1>3. ASSUME NEW c \in Cmd, c.kind = "static", PiDb!PutStatic(c.entry)
      PROVE  TableOK(piStatics') /\ TableOK(piDyns')
  <2>1. c.entry \in Entry
    BY <1>3, EntriesNamed DEF Cmd, StaticCmd, ClearCmd
  <2> QED BY <1>1, <1>3, <2>1, TableKept, TablesSame
<1>4. ASSUME NEW c \in Cmd, PiDb!Clear(c)
      PROVE  TableOK(piStatics') /\ TableOK(piDyns')
  <2>1. piStatics' \subseteq piStatics /\ piDyns' \subseteq piDyns
    BY <1>4, TablesSame
  <2> QED BY <1>1, <2>1, TableKept
<1> QED BY <1>2, <1>3, <1>4

-----------------------------------------------------------------------------
\* The steps of SSC are steps of Ssc.
LEMMA SscStep ==
    ASSUME WholeIInv,
           \/ \E k \in 1 .. Buffer : SscReads(k)
           \/ SscReader \/ SscNotify \/ SscStore
           \/ \E i \in 1 .. MaxConn : SscSync(i)
    PROVE  WholeIInv'
<1>1. Next
  BY DEF SscReads, SscReader, SscNotify, SscStore, SscSync, Next, SscNext, Reader, Updater
<1>2. IInv'
  BY <1>1, StepIInv DEF WholeIInv
<1>3. UNCHANGED <<piVars, kept>> /\ unsent' \in BOOLEAN /\ disturbed' \in BOOLEAN
  BY DEF SscReads, SscReader, SscNotify, SscStore, SscSync, Blame, WholeIInv, SyncTypeOK
<1> QED BY <1>2, <1>3 DEF WholeIInv, IInv, SyncTypeOK, PiKeyed, piVars

\* PI reads the socket: SSC sees what it sees of any PI.
LEMMA PollStep == ASSUME WholeIInv, NEW k \in 1 .. Buffer, PollRead(k) PROVE WholeIInv'
<1>1. /\ toPi \in Seq(PiMsg) /\ Len(toPi) <= Buffer /\ toPi # <<>> /\ k \in Nat /\ k >= 1
      /\ k <= Len(toPi) /\ box \in Seq(PiMsg) /\ Buffer \in Nat
  BY SscBoundsAssumption DEF PollRead, WholeIInv, SyncTypeOK, TypeOK
<1>2. /\ toPi' = SubSeq(toPi, k + 1, Len(toPi))
      /\ UNCHANGED <<sscAlone, sock, toSsc, cmds, piStatics, piDyns, cliCmd, unsent, kept>>
      /\ disturbed' \in BOOLEAN
  BY DEF PollRead, Blame
<1>3. toPi' \in Seq(PiMsg) /\ Len(toPi') <= Buffer
  BY <1>1, <1>2
<1>4. Head(toPi) \in PiMsg
  BY <1>1
<1>5. box' \in Seq(PiMsg) /\ draining' \in BOOLEAN
  <2>1. draining \in BOOLEAN /\ draining' = draining
    BY DEF PollRead, Q!Put, WholeIInv, SyncTypeOK
  <2>2. box' = box \/ box' = <<Head(toPi)>> \o box
    BY DEF PollRead, Q!Put
  <2>3. <<Head(toPi)>> \o box \in Seq(PiMsg)
    BY <1>1, <1>4
  <2> QED BY <1>1, <2>1, <2>2, <2>3
<1>6. IInv'
  BY <1>2, <1>3 DEF sscAlone, WholeIInv, IInv, TypeOK, TablesKeyed, WalkIsLive,
                    WalkHoldsMutex, Walks, ReaderHasCmd
<1> QED BY <1>2, <1>5, <1>6 DEF WholeIInv, IInv, SyncTypeOK, PiKeyed

LEMMA DealStep == ASSUME WholeIInv, DealBegin \/ DealTake PROVE WholeIInv'
<1>1. UNCHANGED sscVars
  BY DEF DealBegin, DealTake
<1>2. IInv'
  BY <1>1, StepIInv DEF WholeIInv
<1>3. cliCmd' = cliCmd /\ unsent' = unsent /\ disturbed' \in BOOLEAN
  BY DEF DealBegin, DealTake, Blame
<1>4. CASE DealBegin
  BY <1>2, <1>3, <1>4 DEF DealBegin, Q!Begin, WholeIInv, IInv, SyncTypeOK, PiKeyed
<1>5. CASE DealTake
  <2>1. box \in Seq(PiMsg) /\ box # <<>> /\ box' = Tail(box) /\ draining' \in BOOLEAN
    BY <1>5 DEF DealTake, Q!Take, WholeIInv, SyncTypeOK
  <2>2. box' \in Seq(PiMsg) /\ Head(box) \in PiMsg
    BY <2>1
  <2>3. TableOK(piStatics') /\ TableOK(piDyns')
    BY <1>5, <2>2, TablesStep DEF DealTake
  <2>4. kept' \subseteq Entry
    BY <1>5 DEF DealTake, WholeIInv, SyncTypeOK
  <2> QED BY <1>2, <1>3, <2>1, <2>2, <2>3, <2>4
          DEF WholeIInv, IInv, SyncTypeOK, PiKeyed, TableOK
<1> QED BY <1>4, <1>5

\* The user's commands.
LEMMA CliStep == ASSUME WholeIInv, CliLocal \/ \E c \in Cmd : CliSend(c) PROVE WholeIInv'
<1>1. ASSUME NEW c \in Cmd, CliSend(c) PROVE WholeIInv'
  <2>1. /\ UNCHANGED <<sscAlone, sock, toPi, box, draining, piStatics, piDyns, unsent, kept>>
        /\ cliCmd' = c /\ disturbed' \in BOOLEAN
    BY <1>1 DEF CliSend, Blame
  <2>2. toSsc' \in Seq(Cmd) /\ Len(toSsc') <= Buffer
    <3>1. toSsc \in Seq(Cmd) /\ Len(toSsc) <= Buffer /\ Buffer \in Nat
      BY SscBoundsAssumption DEF WholeIInv, SyncTypeOK, TypeOK
    <3>2. toSsc' = toSsc \/ (Len(toSsc) < Buffer /\ toSsc' = Append(toSsc, c))
      BY <1>1 DEF CliSend
    <3> QED BY <3>1, <3>2
  <2>3. cmds' \in 0 .. MaxCmds
    BY <1>1, SscBoundsAssumption DEF CliSend, WholeIInv, SyncTypeOK, TypeOK
  <2>4. IInv'
    BY <2>1, <2>2, <2>3 DEF sscAlone, WholeIInv, IInv, TypeOK, TablesKeyed, WalkIsLive,
                            WalkHoldsMutex, Walks, ReaderHasCmd
  <2> QED BY <2>1, <2>4 DEF WholeIInv, IInv, SyncTypeOK, PiKeyed
<1>2. CASE CliLocal
  <2>1. IInv'
    BY <1>2, StepIInv DEF CliLocal, WholeIInv
  <2>2. cliCmd \in Cmd
    BY <1>2 DEF CliLocal, WholeIInv, SyncTypeOK
  <2>3. TableOK(piStatics') /\ TableOK(piDyns')
    BY <1>2, <2>2, TablesStep DEF CliLocal
  <2>4. UNCHANGED <<box, draining, unsent, kept>> /\ cliCmd' = NoCmd /\ disturbed' \in BOOLEAN
    BY <1>2 DEF CliLocal, Blame
  <2> QED BY <2>1, <2>3, <2>4 DEF WholeIInv, IInv, SyncTypeOK, PiKeyed, TableOK
<1> QED BY <1>1, <1>2

\* What breaks.
LEMMA KeepStep ==
    ASSUME WholeIInv, PiKeeps
    PROVE  kept' \subseteq Entry /\ UNCHANGED piVars
<1>1. kept \subseteq Entry /\ piDyns \subseteq Entry /\ box \in Seq(PiMsg)
  BY DEF WholeIInv, SyncTypeOK
<1>2. \A n \in DOMAIN box : box[n].entry \in Entry
  <2>1. \A m \in PiMsg : m.entry \in Entry
    BY EntriesNamed DEF PiMsg
  <2> QED BY <1>1, <2>1
<1> QED BY <1>1, <1>2 DEF PiKeeps

LEMMA BreakStep == ASSUME WholeIInv, PiRestart \/ LineLost \/ SscRestart PROVE WholeIInv'
<1>1. CASE PiRestart
  <2>1. IInv'
    BY <1>1, StepIInv DEF PiRestart, WholeIInv, Next
  <2>2. box' \in Seq(PiMsg)
    BY <1>1 DEF PiRestart
  <2>3. draining' \in BOOLEAN /\ unsent' \in BOOLEAN /\ disturbed' \in BOOLEAN
    <3>1. draining' \in BOOLEAN
      BY <1>1 DEF PiRestart
    <3>2. unsent' \in BOOLEAN
      BY <1>1, Zenon DEF PiRestart
    <3>3. disturbed' \in BOOLEAN
      <4> DEFINE Clears == readerCmd.kind \in {"dyn", "vlan", "inter"}
      <4>1. disturbed' = Clears
        BY <1>1 DEF PiRestart
      <4>2. Clears \in BOOLEAN
        OBVIOUS
      <4> HIDE DEF Clears
      <4> QED BY <4>1, <4>2
    <3> QED BY <3>1, <3>2, <3>3
  <2>4. piStatics' = {} /\ piDyns' = {} /\ kept' = {} /\ cliCmd' = NoCmd
    BY <1>1 DEF PiRestart
  <2>5. SyncTypeOK'
    BY <2>1, <2>2, <2>3, <2>4 DEF IInv, SyncTypeOK
  <2> QED BY <2>1, <2>4, <2>5 DEF WholeIInv, PiKeyed, KeysUnique
<1>2. CASE LineLost
  <2>1. IInv'
    BY <1>2, StepIInv DEF LineLost, WholeIInv, Next
  <2>2. kept' \subseteq Entry /\ UNCHANGED piVars /\ unsent' \in BOOLEAN /\ disturbed' \in BOOLEAN
    BY <1>2, KeepStep DEF LineLost, Blame
  <2> QED BY <2>1, <2>2 DEF WholeIInv, IInv, SyncTypeOK, PiKeyed, piVars
<1>3. CASE SscRestart
  <2>1. kept' \subseteq Entry /\ UNCHANGED piVars /\ unsent' \in BOOLEAN /\ disturbed' \in BOOLEAN
    BY <1>3, KeepStep DEF SscRestart, Blame
  <2>2. toPi' \in Seq(PiMsg) /\ Len(toPi') <= Buffer /\ toSsc' \in Seq(Cmd) /\ Len(toSsc') <= Buffer
    BY <1>3, SscBoundsAssumption DEF SscRestart
  <2>3. sync' = [i \in 1 .. MaxConn |-> [pc |-> "none", left |-> {}]]
    BY <1>3 DEF SscRestart
  <2>4. TypeOK'
    BY <1>3, <2>2, <2>3 DEF SscRestart, WholeIInv, IInv, TypeOK
  <2>5. (TablesKeyed /\ WalkIsLive /\ WalkHoldsMutex /\ ReaderHasCmd)'
    BY <1>3, <2>3 DEF SscRestart, TablesKeyed, KeysUnique, WalkIsLive, WalkHoldsMutex, Walks,
                      ReaderHasCmd
  <2> QED BY <2>1, <2>4, <2>5 DEF WholeIInv, IInv, SyncTypeOK, PiKeyed, piVars
<1> QED BY <1>1, <1>2, <1>3

LEMMA StepWholeIInv == WholeIInv /\ [SyncNext]_vars => WholeIInv'
<1> SUFFICES ASSUME WholeIInv, [SyncNext]_vars PROVE WholeIInv'
  OBVIOUS
<1>1. CASE UNCHANGED vars
  <2>1. IInv'
    BY <1>1, StepIInv DEF vars, WholeIInv
  <2> QED BY <1>1, <2>1 DEF vars, WholeIInv, IInv, SyncTypeOK, PiKeyed, piVars
<1>2. CASE SyncNext
  BY <1>1, <1>2, SscStep, PollStep, DealStep, CliStep, BreakStep
     DEF SyncNext, SscSteps, PiSteps, SyncRest
<1> QED BY <1>1, <1>2

LEMMA SyncInvariance == SyncSpec => []WholeIInv
<1> QED BY InitWholeIInv, StepWholeIInv, PTL DEF SyncSpec

-----------------------------------------------------------------------------
\* The types of SSC, of PI and of all that is between them, whatever breaks.
THEOREM SyncTypes == SyncSpec => []SyncTypeOK
<1>1. WholeIInv => SyncTypeOK
  BY DEF WholeIInv
<1> QED BY <1>1, SyncInvariance, PTL

\* In all four tables an address and vlan has one entry at most, and SSC's
\* walks are safe, across restarts of both programs and lost connections.
THEOREM AllTablesKeyed == SyncSpec => [](TablesKeyed /\ WalkIsLive /\ PiKeyed)
<1>1. WholeIInv => TablesKeyed /\ WalkIsLive /\ PiKeyed
  BY DEF WholeIInv, IInv
<1> QED BY <1>1, SyncInvariance, PTL

-----------------------------------------------------------------------------
(* Convergence: PI ends up with the dynamic addresses of SSC.               *)
(*                                                                          *)
(* What PI will hold once it has handled all that is under way follows from *)
(* the messages in the order in which they will be handled.  They are       *)
(* followed for one entry f at a time.                                      *)

\* Handling m puts f into PI's table; handling m leaves f alone.
Brings(m, f) == m.type \in {"add", "dyn"} /\ m.entry = f
Spares(m, f) == About(m, f) => m.type = "del" /\ m.entry # f

Brought(s, f) == \E n \in DOMAIN s : Brings(s[n], f)
Sparing(s, f) == \A n \in DOMAIN s : Spares(s[n], f)

\* f is there once the messages s have been handled in their order, because one
\* of them has brought it.
Source(s, f) ==
    \E n \in DOMAIN s : Brings(s[n], f) /\ \A j \in DOMAIN s : j > n => Spares(s[j], f)

\* f is there once PI has emptied its queue b, over the table T.  The order
\* does not matter as long as all messages about the key of f are the same.
Coherent(b, f) ==
    \A i, j \in DOMAIN b : About(b[i], f) /\ About(b[j], f) => b[i] = b[j]
Leaves(b, T, f) == Brought(b, f) \/ (f \in T /\ Sparing(b, f))

\* f is there in the end: PI handles its queue b, then what is in the socket.
Ends(s, b, T, f) == Source(s, f) \/ (Leaves(b, T, f) /\ Sparing(s, f))

\* The message m is handled before the messages t, and b is all of them.
Atop(b, m, t) ==
    Len(b) = Len(t) + 1 /\ b[1] = m /\ \A n \in 1 .. Len(t) : b[n + 1] = t[n]

-----------------------------------------------------------------------------
(* Messages that come and go. *)

LEMMA BringsAbout == ASSUME NEW m, NEW f, Brings(m, f) PROVE About(m, f)
BY DEF Brings, About, SameKey

LEMMA MarkSpares == \A f : Spares(Mark, f) /\ ~Brings(Mark, f)
BY DEF Mark, Spares, Brings, About

\* A message is written to the socket.
LEMMA EndsAppend ==
    ASSUME NEW s \in Seq(PiMsg), NEW m \in PiMsg, NEW f
    PROVE  /\ Source(Append(s, m), f) <=> Brings(m, f) \/ (Source(s, f) /\ Spares(m, f))
           /\ Sparing(Append(s, m), f) <=> Sparing(s, f) /\ Spares(m, f)
<1> DEFINE t == Append(s, m)
<1>1. /\ Len(s) \in Nat /\ DOMAIN s = 1 .. Len(s) /\ DOMAIN t = 1 .. Len(s) + 1
      /\ t[Len(s) + 1] = m /\ \A n \in 1 .. Len(s) : t[n] = s[n]
  OBVIOUS
<1> HIDE DEF t
<1>2. Sparing(t, f) <=> Sparing(s, f) /\ Spares(m, f)
  BY <1>1 DEF Sparing
<1>3. ASSUME Source(t, f) PROVE Brings(m, f) \/ (Source(s, f) /\ Spares(m, f))
  <2>1. PICK n \in 1 .. Len(s) + 1 :
            Brings(t[n], f) /\ \A j \in 1 .. Len(s) + 1 : j > n => Spares(t[j], f)
    BY <1>1, <1>3 DEF Source
  <2>2. CASE n = Len(s) + 1
    BY <1>1, <2>1, <2>2
  <2>3. CASE n \in 1 .. Len(s)
    <3>1. Spares(m, f)
      BY <1>1, <2>1, <2>3
    <3>2. Brings(s[n], f) /\ \A j \in 1 .. Len(s) : j > n => Spares(s[j], f)
      BY <1>1, <2>1, <2>3
    <3> QED BY <1>1, <2>3, <3>1, <3>2 DEF Source
  <2> QED BY <1>1, <2>1, <2>2, <2>3
<1>4. ASSUME Brings(m, f) PROVE Source(t, f)
  <2>1. Len(s) + 1 \in DOMAIN t /\ \A j \in DOMAIN t : ~(j > Len(s) + 1)
    BY <1>1
  <2> QED BY <1>1, <1>4, <2>1 DEF Source
<1>5. ASSUME Source(s, f), Spares(m, f) PROVE Source(t, f)
  <2>1. PICK n \in 1 .. Len(s) :
            Brings(s[n], f) /\ \A j \in 1 .. Len(s) : j > n => Spares(s[j], f)
    BY <1>1, <1>5 DEF Source
  <2>2. n \in DOMAIN t /\ Brings(t[n], f)
    BY <1>1, <2>1
  <2>3. \A j \in DOMAIN t : j > n => Spares(t[j], f)
    BY <1>1, <1>5, <2>1
  <2> QED BY <2>2, <2>3 DEF Source
<1> QED BY <1>2, <1>3, <1>4, <1>5 DEF t

\* PI reads the first message, and nothing but marks with it.
ReadOff(s, k, r) ==
    /\ s \in Seq(PiMsg) /\ k \in 1 .. Len(s)
    /\ \A n \in 2 .. k : s[n] = Mark
    /\ r = SubSeq(s, k + 1, Len(s))

LEMMA EndsRead ==
    ASSUME NEW s, NEW k, NEW r, ReadOff(s, k, r), NEW f
    PROVE  /\ Source(s, f) <=> Source(r, f) \/ (Brings(Head(s), f) /\ Sparing(r, f))
           /\ Sparing(s, f) <=> Spares(Head(s), f) /\ Sparing(r, f)
<1>1. /\ Len(s) \in Nat /\ k \in Nat /\ k >= 1 /\ k <= Len(s) /\ DOMAIN s = 1 .. Len(s)
      /\ DOMAIN r = 1 .. Len(s) - k /\ Head(s) = s[1] /\ 1 \in 1 .. Len(s)
      /\ \A n \in 1 .. Len(s) - k : r[n] = s[n + k]
  BY DEF ReadOff
<1>2. \A n \in 1 .. Len(s) :
          n = 1 \/ s[n] = Mark \/ (n - k \in 1 .. Len(s) - k /\ s[n] = r[n - k])
  <2> TAKE n \in 1 .. Len(s)
  <2>1. CASE n > k
    <3>1. n - k \in 1 .. Len(s) - k /\ (n - k) + k = n
      BY <1>1, <2>1
    <3> QED BY <1>1, <3>1
  <2>2. CASE n <= k /\ n # 1
    <3>1. n \in 2 .. k
      BY <1>1, <2>2
    <3> QED BY <3>1 DEF ReadOff
  <2> QED BY <1>1, <2>1, <2>2
<1>3. \A n \in 1 .. Len(s) - k : n + k \in 1 .. Len(s) /\ n + k > 1 /\ (n + k) - k = n
  BY <1>1
<1>4. Sparing(s, f) <=> Spares(Head(s), f) /\ Sparing(r, f)
  <2>1. ASSUME Sparing(s, f) PROVE Spares(Head(s), f) /\ Sparing(r, f)
    BY <1>1, <1>3, <2>1 DEF Sparing
  <2>2. ASSUME Spares(Head(s), f), Sparing(r, f) PROVE Sparing(s, f)
    BY <1>1, <1>2, <2>2, MarkSpares DEF Sparing
  <2> QED BY <2>1, <2>2
<1>5. ASSUME Source(s, f) PROVE Source(r, f) \/ (Brings(Head(s), f) /\ Sparing(r, f))
  <2>1. PICK n \in 1 .. Len(s) :
            Brings(s[n], f) /\ \A j \in 1 .. Len(s) : j > n => Spares(s[j], f)
    BY <1>1, <1>5 DEF Source
  <2>2. CASE n = 1
    <3>1. \A j \in 1 .. Len(s) - k : Spares(r[j], f)
      BY <1>1, <1>3, <2>1, <2>2
    <3> QED BY <1>1, <2>1, <2>2, <3>1 DEF Sparing
  <2>3. CASE n # 1
    <3>1. n - k \in 1 .. Len(s) - k /\ s[n] = r[n - k]
      BY <1>2, <2>1, <2>3, MarkSpares
    <3>2. \A j \in 1 .. Len(s) - k : j > n - k => Spares(r[j], f)
      BY <1>1, <1>3, <2>1
    <3> QED BY <1>1, <2>1, <3>1, <3>2 DEF Source
  <2> QED BY <2>2, <2>3
<1>6. ASSUME Source(r, f) PROVE Source(s, f)
  <2>1. PICK n \in 1 .. Len(s) - k :
            Brings(r[n], f) /\ \A j \in 1 .. Len(s) - k : j > n => Spares(r[j], f)
    BY <1>1, <1>6 DEF Source
  <2>2. n + k \in 1 .. Len(s) /\ Brings(s[n + k], f)
    BY <1>1, <1>3, <2>1
  <2>3. \A j \in 1 .. Len(s) : j > n + k => Spares(s[j], f)
    <3> TAKE j \in 1 .. Len(s)
    <3> HAVE j > n + k
    <3>1. j - k \in 1 .. Len(s) - k /\ j - k > n /\ (j - k) + k = j
      BY <1>1, <2>1
    <3> QED BY <1>1, <2>1, <3>1
  <2> QED BY <1>1, <2>2, <2>3 DEF Source
<1>7. ASSUME Brings(Head(s), f), Sparing(r, f) PROVE Source(s, f)
  <2>1. ASSUME NEW j \in 1 .. Len(s), j > 1 PROVE Spares(s[j], f)
    <3>1. s[j] = Mark \/ (j - k \in 1 .. Len(s) - k /\ s[j] = r[j - k])
      BY <1>2, <2>1
    <3>2. j - k \in 1 .. Len(s) - k => Spares(r[j - k], f)
      BY <1>1, <1>7 DEF Sparing
    <3> QED BY <3>1, <3>2, MarkSpares
  <2> QED BY <1>1, <1>7, <2>1 DEF Source
<1> QED BY <1>4, <1>5, <1>6, <1>7

\* A message enters PI's queue or leaves it.
LEMMA QueueAtop ==
    ASSUME NEW b \in Seq(PiMsg), NEW t \in Seq(PiMsg), NEW m, Atop(b, m, t), NEW f
    PROVE  /\ Brought(b, f) <=> Brings(m, f) \/ Brought(t, f)
           /\ Sparing(b, f) <=> Spares(m, f) /\ Sparing(t, f)
           /\ Coherent(b, f) <=>
                /\ Coherent(t, f)
                /\ About(m, f) => \A n \in DOMAIN t : About(t[n], f) => t[n] = m
<1>1. /\ DOMAIN b = 1 .. Len(t) + 1 /\ DOMAIN t = 1 .. Len(t) /\ Len(t) \in Nat
      /\ b[1] = m /\ \A n \in 1 .. Len(t) : b[n + 1] = t[n]
  BY DEF Atop
<1>2. \A n \in 1 .. Len(t) + 1 : n = 1 \/ (n - 1 \in 1 .. Len(t) /\ b[n] = t[n - 1])
  <2> TAKE n \in 1 .. Len(t) + 1
  <2>1. n # 1 => n - 1 \in 1 .. Len(t) /\ (n - 1) + 1 = n
    BY <1>1
  <2> QED BY <1>1, <2>1
<1>3. 1 \in DOMAIN b /\ \A n \in 1 .. Len(t) : n + 1 \in DOMAIN b
  BY <1>1
<1>4. Brought(b, f) <=> Brings(m, f) \/ Brought(t, f)
  BY <1>1, <1>2, <1>3 DEF Brought
<1>5. Sparing(b, f) <=> Spares(m, f) /\ Sparing(t, f)
  BY <1>1, <1>2, <1>3 DEF Sparing
<1>6. ASSUME Coherent(b, f)
      PROVE  /\ Coherent(t, f)
             /\ About(m, f) => \A n \in DOMAIN t : About(t[n], f) => t[n] = m
  BY <1>1, <1>3, <1>6 DEF Coherent
<1>7. ASSUME Coherent(t, f), About(m, f) => \A n \in DOMAIN t : About(t[n], f) => t[n] = m
      PROVE  Coherent(b, f)
  <2>1. ASSUME NEW i \in DOMAIN b, About(b[i], f), i # 1
        PROVE  \E n \in DOMAIN t : b[i] = t[n] /\ About(t[n], f)
    BY <1>1, <1>2, <2>1
  <2>2. ASSUME NEW i \in DOMAIN b, NEW j \in DOMAIN b, About(b[i], f), About(b[j], f)
        PROVE  b[i] = b[j]
    <3>1. CASE i = 1 /\ j = 1
      BY <3>1
    <3>2. CASE i = 1 /\ j # 1
      BY <1>1, <1>7, <2>1, <2>2, <3>2
    <3>3. CASE i # 1 /\ j = 1
      BY <1>1, <1>7, <2>1, <2>2, <3>3
    <3>4. CASE i # 1 /\ j # 1
      BY <1>7, <2>1, <2>2, <3>4 DEF Coherent
    <3> QED BY <3>1, <3>2, <3>3, <3>4
  <2> QED BY <2>2 DEF Coherent
<1> QED BY <1>4, <1>5, <1>6, <1>7

-----------------------------------------------------------------------------
(* What one message does to PI's table, if strncmp tells addresses apart.   *)

\* del_hash_entry unlinks the entry of the message and no other.
LEMMA ErasureIs ==
    ASSUME TextsTell, NEW T, T \subseteq Entry, NEW e \in Entry
    PROVE  /\ \A S \in PiErasures(T, e) : S = T \ {e}
           /\ PiErasures(T, e) = {} => e \notin T
<1>1. ASSUME NEW b \in T, SameText(b, e), b.port = e.port PROVE b = e
  <2>1. b \in Entry /\ b.mac \in Mac /\ e.mac \in Mac
    BY DEF Entry
  <2>2. b.mac = e.mac /\ b.vlan = e.vlan
    BY <1>1, <2>1 DEF TextsTell, SameText
  <2> QED BY <1>1, <2>1, <2>2 DEF Entry
<1>2. SameText(e, e)
  BY DEF SameText
<1>3. {b \in TextHits(T, e) : b.port = e.port} = IF e \in T THEN {e} ELSE {}
  BY <1>1, <1>2 DEF TextHits
<1> QED BY <1>3 DEF PiErasures

\* ssc_add_dyn_addr puts the entry in the place of one with its key.
LEMMA PutByTextExact ==
    ASSUME TextsTell, NEW T, T \subseteq Entry, NEW e \in Entry
    PROVE  PutByText(T, e) = {a \in T : ~SameKey(a, e)} \cup {e}
<1> DEFINE Moved(a) == [a EXCEPT !.port = e.port]
<1>1. TextHits(T, e) = KeyHits(T, e)
  <2>1. ASSUME NEW a \in T PROVE SameText(a, e) <=> SameKey(a, e)
    <3>1. a.mac \in Mac /\ e.mac \in Mac
      BY DEF Entry
    <3> QED BY <3>1 DEF TextsTell, SameText, SameKey
  <2> QED BY <2>1 DEF TextHits, KeyHits
<1>2. ASSUME NEW a \in KeyHits(T, e) PROVE Moved(a) = e
  BY DEF KeyHits, SameKey, Entry
<1> QED BY <1>1, <1>2 DEF PutByText, Upsert, KeyHits

LEMMA HandleDyns ==
    ASSUME TextsTell, WholeIInv, NEW m \in PiMsg, Handle(m), NEW f \in Entry
    PROVE  /\ m.type \in {"add", "dyn"} =>
                (f \in piDyns' <=> f = m.entry \/ (f \in piDyns /\ ~SameKey(m.entry, f)))
           /\ m.type = "del" => (f \in piDyns' <=> f \in piDyns /\ f # m.entry)
           /\ m.type \notin {"add", "dyn", "del"} => piDyns' = piDyns
<1>1. m.entry \in Entry /\ piDyns \subseteq Entry /\ KeysUnique(piDyns)
  BY EntriesNamed DEF PiMsg, WholeIInv, SyncTypeOK, PiKeyed
<1>2. ASSUME m.type \in {"add", "dyn"}
      PROVE  piDyns' = {a \in piDyns : ~SameKey(a, m.entry)} \cup {m.entry}
  <2>1. PiDb!PutDyn(m.entry)
    BY <1>2 DEF Handle
  <2>2. piDyns' = PutByKey(piDyns, m.entry)
    BY <2>1, TablesSame DEF PiDb!PutDyn
  <2> QED BY <1>1, <2>2, PutByKeyIs
<1>3. ASSUME m.type = "del" PROVE piDyns' = piDyns \ {m.entry}
  <2>1. \/ piDyns' \in PiErasures(piDyns, m.entry)
        \/ PiErasures(piDyns, m.entry) = {} /\ piDyns' = piDyns
    BY <1>3, TablesSame DEF Handle, PiDb!EraseDyn
  <2> QED BY <1>1, <2>1, ErasureIs
<1>4. ASSUME m.type \notin {"add", "dyn", "del"} PROVE piDyns' = piDyns
  BY <1>4 DEF Handle, PiDb!PutStatic
<1> QED BY <1>2, <1>3, <1>4 DEF SameKey

\* PI handles the newest message of its queue, and no older one is about the
\* same key, save copies of it: what the queue leaves is what it would have
\* left before, and a message that brings another port for the key of f makes
\* sure that f is not there.
LEMMA TakeLeaves ==
    ASSUME TextsTell, WholeIInv, NEW m \in PiMsg, Handle(m), NEW f \in Entry,
           NEW t \in Seq(PiMsg), Atop(box, m, t),
           \A n \in DOMAIN t : ~(t[n] # m /\ About(t[n], m.entry) /\ About(m, m.entry))
    PROVE  /\ Leaves(t, piDyns', f) <=> Leaves(box, piDyns, f)
           /\ Coherent(t, f) => Coherent(box, f)
           /\ m.type \in {"add", "dyn"} /\ SameKey(m.entry, f) /\ m.entry # f
                => ~Leaves(t, piDyns', f)
<1>1. box \in Seq(PiMsg)
  BY DEF WholeIInv, SyncTypeOK
<1>2. /\ Brought(box, f) <=> Brings(m, f) \/ Brought(t, f)
      /\ Sparing(box, f) <=> Spares(m, f) /\ Sparing(t, f)
      /\ Coherent(box, f) <=>
            /\ Coherent(t, f)
            /\ About(m, f) => \A n \in DOMAIN t : About(t[n], f) => t[n] = m
  BY <1>1, QueueAtop
<1>3. About(m, f) => \A n \in DOMAIN t : About(t[n], f) => t[n] = m
  BY DEF About, SameKey
<1>4. About(m, f) /\ ~Brings(m, f) => ~Brought(t, f)
  BY <1>3, BringsAbout DEF Brought
<1>5. /\ m.type \in {"add", "dyn"} =>
            (f \in piDyns' <=> f = m.entry \/ (f \in piDyns /\ ~SameKey(m.entry, f)))
      /\ m.type = "del" => (f \in piDyns' <=> f \in piDyns /\ f # m.entry)
      /\ m.type \notin {"add", "dyn", "del"} => piDyns' = piDyns
  BY HandleDyns
<1>6. CASE ~About(m, f)
  <2>1. Spares(m, f) /\ ~Brings(m, f)
    BY <1>6, BringsAbout DEF Spares
  <2>2. f \in piDyns' <=> f \in piDyns
    BY <1>5, <1>6 DEF About, SameKey
  <2>3. ~(m.type \in {"add", "dyn"} /\ SameKey(m.entry, f))
    BY <1>6 DEF About
  <2> QED BY <1>2, <1>6, <2>1, <2>2, <2>3 DEF Leaves
<1>7. CASE Brings(m, f)
  <2>1. f \in piDyns' /\ m.entry = f
    BY <1>5, <1>7 DEF Brings
  <2>2. Brought(t, f) \/ Sparing(t, f)
    <3>1. ASSUME NEW n \in DOMAIN t, ~Spares(t[n], f) PROVE Brings(t[n], f)
      BY <1>3, <1>7, <3>1, BringsAbout DEF Spares
    <3> QED BY <3>1 DEF Brought, Sparing
  <2> QED BY <1>2, <1>3, <1>7, <2>1, <2>2 DEF Leaves
<1>8. CASE About(m, f) /\ ~Brings(m, f) /\ ~Spares(m, f)
  <2>1. f \notin piDyns'
    BY <1>5, <1>8 DEF Brings, Spares, About
  <2> QED BY <1>2, <1>3, <1>4, <1>8, <2>1 DEF Leaves
<1>9. CASE About(m, f) /\ Spares(m, f)
  <2>1. m.type = "del" /\ m.entry # f /\ ~Brings(m, f)
    BY <1>9 DEF Spares, Brings
  <2>2. f \in piDyns' <=> f \in piDyns
    BY <1>5, <2>1
  <2>3. Sparing(t, f) /\ Sparing(box, f)
    BY <1>2, <1>3, <1>9 DEF Sparing, Spares
  <2> QED BY <1>2, <1>3, <1>4, <1>9, <2>1, <2>2, <2>3 DEF Leaves
<1> QED BY <1>6, <1>7, <1>8, <1>9

-----------------------------------------------------------------------------
(* The inductive invariant. *)

\* SSC's dynamic table once the updater has stored its event.
Held ==
    IF upd = NoUpd THEN dyns
    ELSE {a \in dyns : ~SameKey(a, upd.entry)}
            \cup (IF upd.type = "add" THEN {upd.entry} ELSE {})

\* The thread of the connection has still to send f, if f is in the table.
Pending(f) ==
    \/ sync[conns].pc \in {"start", "conf", "static", "statics", "dyn"}
    \/ sync[conns].pc = "dyns" /\ f \in sync[conns].left

\* PI has been told of f, which the updater is about to store.
Told(f) == upd # NoUpd /\ upd.type = "add" /\ upd.entry = f /\ ~unsent

\* The command c removes f; SSC has such a command in front of it.
Clears(c, f)  == c.kind \in {"dyn", "vlan", "inter"} /\ Selects(c, f)
WillClear(f) == Clears(readerCmd, f) \/ \E n \in DOMAIN toSsc : Clears(toSsc[n], f)

\* Nothing is on its way to PI without a connection, and nobody but the reader
\* in its loop sees one.
LinkUp ==
    /\ sock # "up" => toPi = <<>>
    /\ sock = "up" => readerPc \in {"read", "apply"} /\ conns \in 1 .. MaxConn

\* Without a connection, PI has not been told of the event.
Untold == sock # "up" /\ upd # NoUpd => unsent

CmdRead == readerPc # "apply" => readerCmd = NoCmd

Blamed == Clearing /\ UnderWay => disturbed

Basis == LinkUp /\ Untold /\ CmdRead /\ RInv /\ Blamed

\* What a message in the socket leaves at PI, SSC has or is about to have.
SentHeld(f) == Source(toPi, f) => f \in Held

\* What SSC has, and has no more reason to send or to clear, will be at PI.
HeldSent(f) ==
    sock = "up" /\ f \in Held /\ Coherent(box, f) /\ (Told(f) \/ (~Pending(f) /\ ~WillClear(f)))
        => Ends(toPi, box, piDyns, f)

\* What will be at PI is at SSC, or kept, or PI is about to clear it.
EndsHeld(f) ==
    sock = "up" /\ Coherent(box, f) /\ Ends(toPi, box, piDyns, f)
        => f \in Held \/ f \in kept \/ Clears(cliCmd, f)
LostKept(f) == sock # "up" /\ Leaves(box, piDyns, f) => f \in kept

\* A clear command is carried out by both or by none.
BothClear(f) == sock = "up" /\ f \in dyns /\ Clears(cliCmd, f) => WillClear(f)
PiClears(f)  == f \in piDyns /\ WillClear(f) => Clears(cliCmd, f)

Agrees(f) ==
    SentHeld(f) /\ HeldSent(f) /\ EndsHeld(f) /\ LostKept(f) /\ BothClear(f) /\ PiClears(f)

Agreement == ~disturbed => \A f \in Entry : Agrees(f)

CInv == Basis /\ Agreement

-----------------------------------------------------------------------------
LEMMA InitCInv == SyncInit => CInv
<1> SUFFICES ASSUME SyncInit PROVE CInv
  OBVIOUS
<1> USE DEF SyncInit, SscInit, Q!BoxInit
<1>1. RInv
  BY InitRInv DEF Init
<1>2. LinkUp /\ Untold /\ CmdRead
  BY DEF LinkUp, Untold, CmdRead
<1>3. Blamed
  BY DEF Blamed, Clearing, NoCmd
<1>4. ASSUME NEW f PROVE Agrees(f)
  <2>1. ~Source(toPi, f) /\ ~Leaves(box, piDyns, f)
    BY DEF Source, Leaves, Brought
  <2>2. sock # "up" /\ f \notin piDyns
    OBVIOUS
  <2> QED BY <2>1, <2>2 DEF Agrees, SentHeld, HeldSent, EndsHeld, LostKept, BothClear, PiClears
<1> QED BY <1>1, <1>2, <1>3, <1>4 DEF CInv, Basis, Agreement

\* Without memory shortage, ssc_send_msg_pi sends or finds no connection.
LEMMA WriteIs ==
    ASSUME "nomem" \notin Faults, LinkUp, NEW m, Write(m)
    PROVE  \/ sock = "up" /\ sock' = "up" /\ toPi' = Append(toPi, m)
           \/ sock # "up" /\ sock' # "up" /\ toPi' = <<>> /\ toPi = <<>>
BY DEF Write, LinkUp

\* Every step but a restart of PI blames what it should.
LEMMA BlamedStep == ASSUME Blamed, [SyncNext]_vars PROVE Blamed'
<1>1. CASE UNCHANGED vars
  BY <1>1 DEF vars, sscVars, piVars, Blamed, Clearing, UnderWay
<1>2. CASE PiRestart
  <2>1. disturbed' = (readerCmd.kind \in {"dyn", "vlan", "inter"})
    BY <1>2 DEF PiRestart
  <2>2. cliCmd' = NoCmd /\ toSsc' = <<>> /\ readerCmd' = readerCmd
    BY <1>2 DEF PiRestart, PiHangsUp
  <2>3. Clearing' => readerCmd.kind \in {"dyn", "vlan", "inter"}
    BY <2>2 DEF Clearing, NoCmd
  <2> QED BY <2>1, <2>3 DEF Blamed
<1>3. CASE SyncNext /\ ~PiRestart /\ ~SyncRest
  <2>1. Clearing' /\ UnderWay' => disturbed'
    BY <1>3, Zenon DEF SyncNext, SscSteps, PiSteps, SscReads, SscReader, SscNotify, SscStore,
        SscSync, SscRestart, PollRead, DealBegin, DealTake, CliSend, CliLocal, LineLost, Blame
  <2> QED BY <2>1 DEF Blamed
<1> QED BY <1>1, <1>2, <1>3 DEF SyncRest, vars

\* What is reported stays ahead of what is stored.
LEMMA ReportedStep ==
    ASSUME TextsTell, WholeIInv, RInv, [SyncNext]_vars
    PROVE  RInv'
<1>1. CASE \/ \E k \in 1 .. Buffer : SscReads(k)
           \/ SscReader \/ SscNotify \/ SscStore
           \/ \E i \in 1 .. MaxConn : SscSync(i)
  <2>1. Next
    BY <1>1 DEF SscReads, SscReader, SscNotify, SscStore, SscSync, Next, SscNext, Reader, Updater
  <2> QED BY <2>1, StepRInv DEF WholeIInv
<1>2. CASE \/ UNCHANGED vars
           \/ \E k \in 1 .. Buffer : PollRead(k)
           \/ DealBegin \/ DealTake
           \/ \E c \in Cmd : CliSend(c)
           \/ CliLocal \/ PiRestart \/ LineLost
  <2>1. UNCHANGED <<dyns, upd, reported>>
    BY <1>2 DEF vars, PollRead, DealBegin, DealTake, CliSend, CliLocal, PiRestart, LineLost,
        PiHangsUp, sscVars, sscAlone, dbVars, updVars
  <2> QED BY <2>1 DEF RInv
<1>3. CASE SscRestart
  BY <1>3 DEF SscRestart, RInv
<1> QED BY <1>1, <1>2, <1>3 DEF SyncNext, SscSteps, PiSteps, SyncRest

\* A thread that sends the database writes one message at most, and changes no
\* table.
LEMMA SyncWrites ==
    ASSUME NEW i \in 1 .. MaxConn, Sync(i)
    PROVE  /\ UNCHANGED <<statics, dyns, readVars, updVars, cmds>>
           /\ UNCHANGED <<sock, toPi>> \/ \E m : Write(m)
BY DEF Sync, SyncStart, SyncConf, SyncLock, SyncEntry, SyncUnlock, SyncNoMem, SyncEnd, dbVars

\* The state of the connection.
LEMMA LinkStep ==
    ASSUME "nomem" \notin Faults, WholeIInv, LinkUp, Untold, CmdRead, [SyncNext]_vars
    PROVE  LinkUp' /\ Untold' /\ CmdRead'
<1> DEFINE Goal == LinkUp' /\ Untold' /\ CmdRead'
<1> USE DEF LinkUp, Untold, CmdRead
<1>1. CASE UNCHANGED <<sscVars, unsent>>
  BY <1>1 DEF sscVars
<1>2. ASSUME NEW k, SscReads(k) PROVE Goal
  BY <1>2 DEF SscReads, ReaderRead, dbVars, updVars
<1>3. CASE SscReader
  <2>1. unsent' = unsent
    BY <1>3 DEF SscReader
  <2>2. CASE ReaderSocket \/ ReaderEof
    BY <2>1, <2>2 DEF ReaderSocket, ReaderEof, updVars
  <2>3. CASE ReaderConnect
    <3>1. conns' \in 1 .. MaxConn
      BY <2>3, SscBoundsAssumption DEF ReaderConnect, WholeIInv, SyncTypeOK, TypeOK
    <3> QED BY <2>1, <2>3, <3>1 DEF ReaderConnect, updVars
  <2>4. CASE ApplyStatic \/ ApplyClear
    BY <2>1, <2>4 DEF ApplyStatic, ApplyClear, ReaderReturns, updVars
  <2>5. CASE ReaderRetry
    BY <1>1, <2>1, <2>5 DEF ReaderRetry
  <2> QED BY <1>3, <2>2, <2>3, <2>4, <2>5 DEF SscReader
<1>4. CASE SscNotify
  <2>1. PICK t \in {"add", "del"}, e \in RealEntry : UpNotify(t, e)
    BY <1>4 DEF SscNotify
  <2>2. \/ sock = "up" /\ sock' = "up"
        \/ sock # "up" /\ sock' # "up" /\ toPi' = <<>>
    BY <2>1, WriteIs DEF UpNotify
  <2>3. unsent' = (sock # "up")
    BY <1>4 DEF SscNotify
  <2>4. UNCHANGED readVars
    BY <2>1 DEF UpNotify
  <2> QED BY <2>2, <2>3, <2>4 DEF readVars
<1>5. CASE SscStore
  BY <1>5 DEF SscStore, UpStore, readVars
<1>6. ASSUME NEW i \in 1 .. MaxConn, SscSync(i) PROVE Goal
  <2>1. /\ unsent' = unsent /\ UNCHANGED <<readVars, updVars>>
        /\ UNCHANGED <<sock, toPi>> \/ \E m : Write(m)
    BY <1>6, SyncWrites DEF SscSync
  <2>2. CASE UNCHANGED <<sock, toPi>>
    BY <2>1, <2>2 DEF readVars, updVars
  <2>3. CASE \E m : Write(m)
    <3>1. \/ sock = "up" /\ sock' = "up"
          \/ sock # "up" /\ sock' # "up" /\ toPi' = <<>>
      BY <2>3, WriteIs
    <3> QED BY <2>1, <3>1 DEF readVars, updVars
  <2> QED BY <2>1, <2>2, <2>3
<1>7. CASE SscRestart
  BY <1>7 DEF SscRestart
<1>8. ASSUME NEW k, PollRead(k) PROVE Goal
  BY <1>8 DEF PollRead, sscAlone
<1>9. CASE DealBegin \/ DealTake \/ CliLocal
  BY <1>1, <1>9 DEF DealBegin, DealTake, CliLocal
<1>10. ASSUME NEW c, CliSend(c) PROVE Goal
  BY <1>10 DEF CliSend, sscAlone
<1>11. CASE PiRestart \/ LineLost
  <2>1. PiHangsUp /\ unsent' = (upd # NoUpd)
    BY <1>11 DEF PiRestart, LineLost
  <2> QED BY <2>1 DEF PiHangsUp, updVars
<1>12. CASE UNCHANGED vars
  BY <1>1, <1>12 DEF vars
<1> QED BY <1>2, <1>3, <1>4, <1>5, <1>6, <1>7, <1>8, <1>9, <1>10, <1>11, <1>12
        DEF SyncNext, SscSteps, PiSteps, SyncRest

LEMMA StepBasis ==
    ASSUME TextsTell, "nomem" \notin Faults, WholeIInv, Basis, [SyncNext]_vars
    PROVE  Basis'
BY LinkStep, BlamedStep, ReportedStep DEF Basis

-----------------------------------------------------------------------------
(* The reader. *)

\* What Agreement reads of the updater and of PI.
LEMMA HeldSame == ASSUME UNCHANGED <<dyns, upd>> PROVE Held' = Held
BY DEF Held

LEMMA PendingSame == ASSUME UNCHANGED <<sync, conns>> PROVE \A f : Pending(f)' <=> Pending(f)
BY DEF Pending

LEMMA WillClearSame ==
    ASSUME UNCHANGED <<readerCmd, toSsc>> PROVE \A f : WillClear(f)' <=> WillClear(f)
BY DEF WillClear

\* A command that is read is still to be carried out.
LEMMA ReadsAgrees ==
    ASSUME WholeIInv, CInv, NEW k \in 1 .. Buffer, SscReads(k), ~disturbed', NEW f \in Entry
    PROVE  Agrees(f)'
<1>1. ~disturbed /\ ~Coalesced(toSsc, k)
  BY Zenon DEF SscReads, Blame
<1>2. toSsc \in Seq(Cmd) /\ k \in 1 .. Len(toSsc) /\ Len(toSsc) \in Nat
  BY DEF SscReads, ReaderRead, WholeIInv, SyncTypeOK, TypeOK
<1>3. k = 1
  <2>1. \A c \in Cmd : c # Mark
    BY DEF Cmd, StaticCmd, ClearCmd, Mark
  <2>2. SUFFICES ASSUME k # 1 PROVE FALSE
    OBVIOUS
  <2>3. 2 \in 2 .. k /\ toSsc[2] \in Cmd
    BY <1>2, <2>2
  <2> QED BY <1>1, <2>1, <2>3 DEF Coalesced
<1>4. readerCmd = NoCmd /\ readerCmd' = Head(toSsc) /\ toSsc' = SubSeq(toSsc, 2, Len(toSsc))
  BY <1>3 DEF SscReads, ReaderRead, CInv, Basis, CmdRead
<1>5. WillClear(f)' <=> WillClear(f)
  <2>1. ~Clears(NoCmd, f)
    BY DEF Clears, NoCmd
  <2>2. /\ readerCmd' = toSsc[1] /\ 1 \in DOMAIN toSsc
        /\ DOMAIN toSsc = 1 .. Len(toSsc) /\ DOMAIN toSsc' = 1 .. Len(toSsc) - 1
        /\ \A n \in DOMAIN toSsc' : toSsc'[n] = toSsc[n + 1] /\ n + 1 \in DOMAIN toSsc
    BY <1>2, <1>4
  <2>3. \A n \in DOMAIN toSsc : n = 1 \/ (n - 1 \in DOMAIN toSsc' /\ toSsc'[n - 1] = toSsc[n])
    BY <1>2, <2>2
  <2> QED BY <1>4, <2>1, <2>2, <2>3 DEF WillClear
<1>6. UNCHANGED <<dyns, upd, sync, conns, sock, toPi, box, piDyns, cliCmd, unsent, kept>>
  BY DEF SscReads, ReaderRead, dbVars, updVars, piVars
<1>7. Held' = Held /\ (Pending(f)' <=> Pending(f))
  BY <1>6, HeldSame, PendingSame
<1> QED BY <1>1, <1>5, <1>6, <1>7
        DEF CInv, Agreement, Agrees, SentHeld, HeldSent, EndsHeld, LostKept, BothClear, PiClears, Told

\* SSC connects: the thread it starts has everything still to send, and what PI
\* has kept is known.
LEMMA ConnectAgrees ==
    ASSUME WholeIInv, CInv, SscReader, ReaderConnect, ~disturbed', NEW f \in Entry
    PROVE  Agrees(f)'
<1>1. ~disturbed /\ ~(Clearing' /\ UnderWay')
  BY Zenon DEF SscReader, Blame
<1>2. conns' \in 1 .. MaxConn /\ conns' = conns + 1
  BY SscBoundsAssumption DEF ReaderConnect, WholeIInv, SyncTypeOK, TypeOK
<1>3. sync'[conns'].pc = "start"
  BY <1>2 DEF ReaderConnect, WholeIInv, SyncTypeOK, TypeOK
<1>4. /\ sock = "fresh" /\ sock' = "up" /\ toPi' = <<Mark>>
      /\ UNCHANGED <<dyns, upd, box, piDyns, cliCmd, unsent, kept, readerCmd, toSsc>>
  BY DEF SscReader, ReaderConnect, dbVars, updVars, piVars
<1>5. Held' = Held /\ (WillClear(f)' <=> WillClear(f))
  BY <1>4, HeldSame, WillClearSame
<1>6. ~Source(toPi', f)
  BY <1>4, MarkSpares DEF Source
<1>7. Pending(f)' /\ ~Told(f)'
  BY <1>3, <1>4 DEF Pending, Told, CInv, Basis, Untold
<1>8. ~Clears(cliCmd, f)'
  <2>1. UnderWay'
    BY <1>2, <1>3 DEF UnderWay
  <2> QED BY <1>1, <2>1 DEF Clearing, Clears
<1>9. Ends(toPi', box', piDyns', f) => Leaves(box, piDyns, f)
  BY <1>4, <1>6 DEF Ends
<1> QED BY <1>1, <1>4, <1>5, <1>6, <1>7, <1>8, <1>9
        DEF CInv, Agreement, Agrees, SentHeld, HeldSent, EndsHeld, LostKept, BothClear, PiClears

\* While a clear command waits, nothing that concerns dynamic entries is under
\* way, unless it has been blamed.
LEMMA NothingUnderWay ==
    ASSUME WholeIInv, CInv, ~disturbed, Clearing, NEW f
    PROVE  /\ upd = NoUpd /\ box = <<>> /\ Held = dyns
           /\ ~Source(toPi, f) /\ Sparing(toPi, f)
           /\ Ends(toPi, box, piDyns, f) <=> f \in piDyns
<1>1. ~UnderWay
  BY DEF CInv, Basis, Blamed
<1>2. upd = NoUpd /\ box = <<>> /\ \A n \in DOMAIN toPi : toPi[n] = Mark
  BY <1>1 DEF UnderWay
<1>3. ~Source(toPi, f) /\ Sparing(toPi, f)
  BY <1>2, MarkSpares DEF Source, Sparing
<1>4. Leaves(box, piDyns, f) <=> f \in piDyns
  BY <1>2 DEF Leaves, Brought, Sparing
<1> QED BY <1>2, <1>3, <1>4 DEF Held, Ends

\* SSC carries out a clear command: PI has done it already or is about to.
LEMMA ClearAgrees ==
    ASSUME \A p \in Port : PhyOf[p] = p,
           WholeIInv, CInv, SscReader, ApplyClear, ~disturbed', NEW f \in Entry
    PROVE  Agrees(f)'
<1>1. ~disturbed
  BY Zenon DEF SscReader, Blame
<1>2. readerCmd \in ClearCmd /\ readerCmd.kind \in {"dyn", "vlan", "inter"}
  BY DEF ApplyClear, WholeIInv, IInv, ReaderHasCmd, Cmd, StaticCmd, ClearCmd
<1>3. SscCleared(readerCmd) = readerCmd
  BY <1>2 DEF SscCleared, ClearCmd
<1>4. /\ UNCHANGED <<upd, sync, conns, sock, toPi, toSsc, box, piDyns, cliCmd, unsent, kept>>
      /\ readerCmd' = NoCmd /\ dyns' = dyns \ Selected(readerCmd, dyns)
  BY <1>3 DEF SscReader, ApplyClear, ReaderReturns, updVars, piVars
<1>5. f \in dyns' <=> f \in dyns /\ ~Clears(readerCmd, f)
  BY <1>2, <1>4 DEF Selected, Clears
<1>6. Clearing
  BY <1>2 DEF Clearing
<1>7. /\ upd = NoUpd /\ Held = dyns /\ ~Source(toPi, f)
      /\ Ends(toPi, box, piDyns, f) <=> f \in piDyns
  BY <1>1, <1>6, NothingUnderWay
<1>8. Held' = dyns'
  BY <1>4, <1>7 DEF Held
<1>9. WillClear(f) <=> WillClear(f)' \/ Clears(readerCmd, f)
  BY <1>4 DEF WillClear, Clears, NoCmd
<1>10. (Pending(f)' <=> Pending(f)) /\ (Told(f)' <=> Told(f))
  BY <1>4, PendingSame DEF Told
<1> QED BY <1>1, <1>4, <1>5, <1>7, <1>8, <1>9, <1>10
        DEF CInv, Agreement, Agrees, SentHeld, HeldSent, EndsHeld, LostKept, BothClear, PiClears

\* The other steps of the reader.
LEMMA ReaderAgrees ==
    ASSUME \A p \in Port : PhyOf[p] = p,
           WholeIInv, CInv, SscReader, ~disturbed', NEW f \in Entry
    PROVE  Agrees(f)'
<1>1. ~disturbed /\ UNCHANGED <<piVars, unsent, kept>>
  BY Zenon DEF SscReader, Blame
<1>2. CASE ReaderSocket \/ ReaderEof \/ ReaderRetry \/ ApplyStatic
  <2>1. /\ UNCHANGED <<dyns, upd, sync, conns, toPi, toSsc>>
        /\ sock = "up" <=> sock' = "up"
    BY <1>2 DEF ReaderSocket, ReaderEof, ReaderRetry, ApplyStatic, ReaderReturns, dbVars, updVars,
                sscVars, CInv, Basis, LinkUp
  <2>2. WillClear(f)' <=> WillClear(f)
    <3>1. readerCmd' = readerCmd \/ (readerCmd.kind = "static" /\ readerCmd' = NoCmd)
      BY <1>2 DEF ReaderSocket, ReaderEof, ReaderRetry, ApplyStatic, ReaderReturns, sscVars
    <3>2. Clears(readerCmd, f)' <=> Clears(readerCmd, f)
      BY <3>1 DEF Clears, NoCmd
    <3> QED BY <2>1, <3>2 DEF WillClear
  <2>3. Held' = Held /\ (Pending(f)' <=> Pending(f)) /\ (Told(f)' <=> Told(f))
    BY <1>1, <2>1, HeldSame, PendingSame DEF Told
  <2> QED BY <1>1, <2>1, <2>2, <2>3
          DEF piVars, CInv, Agreement, Agrees, SentHeld, HeldSent, EndsHeld, LostKept, BothClear,
              PiClears
<1> QED BY <1>2, ConnectAgrees, ClearAgrees DEF SscReader

-----------------------------------------------------------------------------
(* The updater. *)

\* PI is told of an event: what SSC will hold changes as what PI will hold.
LEMMA NotifyAgrees ==
    ASSUME "nomem" \notin Faults, WholeIInv, CInv, SscNotify, ~disturbed', NEW f \in Entry
    PROVE  Agrees(f)'
<1>1. ~disturbed /\ UNCHANGED <<piVars, kept>> /\ unsent' = (sock # "up")
  BY Zenon DEF SscNotify, Blame
<1>2. PICK t \in {"add", "del"}, e \in RealEntry : UpNotify(t, e)
  BY DEF SscNotify
<1> DEFINE m == [type |-> t, entry |-> e]
<1>3. /\ upd = NoUpd /\ upd' = m /\ Write(m)
      /\ UNCHANGED <<dyns, toSsc, readerCmd, conns, sync>>
  BY <1>2 DEF UpNotify, dbVars, readVars
<1>4. m \in PiMsg /\ m # NoUpd
  BY EntriesNamed DEF PiMsg, NoUpd
<1>5. Held = dyns
  BY <1>3 DEF Held
<1>6. f \in Held' <=> Brings(m, f) \/ (f \in Held /\ Spares(m, f))
  <2>1. f \in Held' <=> (f \in dyns /\ ~SameKey(f, e)) \/ (t = "add" /\ f = e)
    BY <1>3, <1>4 DEF Held
  <2>2. Brings(m, f) <=> t = "add" /\ f = e
    BY DEF Brings
  <2>3. Spares(m, f) <=> ~SameKey(f, e) \/ (t = "del" /\ f # e)
    BY DEF Spares, About, SameKey
  <2>4. t = "del" /\ f \in dyns /\ SameKey(f, e) => f = e
    <3>1. dyns \subseteq reported /\ KeysUnique(reported)
      BY <1>3 DEF CInv, Basis, RInv
    <3>2. t = "del" => e \in reported
      BY <1>2 DEF UpNotify
    <3> QED BY <3>1, <3>2 DEF KeysUnique
  <2> QED BY <1>5, <2>1, <2>2, <2>3, <2>4
<1>7. (Pending(f)' <=> Pending(f)) /\ (WillClear(f)' <=> WillClear(f))
  BY <1>3, PendingSame, WillClearSame
<1>8. Told(f)' => Brings(m, f)
  BY <1>3 DEF Told, Brings
<1>9. ~Told(f)
  BY <1>3 DEF Told
<1>10. toPi \in Seq(PiMsg)
  BY DEF WholeIInv, SyncTypeOK, TypeOK
<1> HIDE DEF m
<1>11. CASE sock = "up" /\ sock' = "up" /\ toPi' = Append(toPi, m)
  <2>1. /\ Source(toPi', f) <=> Brings(m, f) \/ (Source(toPi, f) /\ Spares(m, f))
        /\ Sparing(toPi', f) <=> Sparing(toPi, f) /\ Spares(m, f)
    BY <1>4, <1>10, <1>11, EndsAppend
  <2>2. Ends(toPi', box', piDyns', f)
            <=> Brings(m, f) \/ (Ends(toPi, box, piDyns, f) /\ Spares(m, f))
    BY <1>1, <2>1 DEF Ends, piVars
  <2> QED BY <1>1, <1>3, <1>6, <1>7, <1>8, <1>9, <1>11, <2>1, <2>2
          DEF piVars, CInv, Agreement, Agrees, SentHeld, HeldSent, EndsHeld, LostKept, BothClear,
              PiClears
<1>12. CASE sock # "up" /\ sock' # "up" /\ toPi' = <<>>
  <2>1. ~Source(toPi', f)
    BY <1>12 DEF Source
  <2> QED BY <1>1, <1>7, <1>12, <2>1
          DEF piVars, CInv, Agreement, Agrees, SentHeld, HeldSent, EndsHeld, LostKept, BothClear,
              PiClears
<1> QED BY <1>3, <1>11, <1>12, WriteIs DEF CInv, Basis

\* The event is stored, as it was expected.
LEMMA StoreAgrees ==
    ASSUME TextsTell, WholeIInv, CInv, SscStore, ~disturbed', NEW f \in Entry
    PROVE  Agrees(f)'
<1>1. ~disturbed /\ UNCHANGED <<piVars, kept>>
  BY Zenon DEF SscStore, Blame
<1>2. /\ upd # NoUpd /\ upd' = NoUpd
      /\ dyns' = IF upd.type = "add" THEN PutByText(dyns, upd.entry) ELSE SscErase(dyns, upd.entry)
      /\ UNCHANGED <<sock, toPi, toSsc, readerCmd, conns, sync>>
  BY DEF SscStore, UpStore, readVars
<1>3. dyns \subseteq Entry /\ upd.entry \in Entry
  BY <1>2, EntriesNamed DEF WholeIInv, SyncTypeOK, TypeOK
<1>4. Held' = Held
  <2>1. CASE upd.type = "add"
    BY <1>2, <1>3, <2>1, PutByTextExact DEF Held
  <2>2. CASE upd.type # "add"
    BY <1>2, <2>2 DEF Held, SscErase, KeyHits
  <2> QED BY <2>1, <2>2
<1>5. (Pending(f)' <=> Pending(f)) /\ (WillClear(f)' <=> WillClear(f))
  BY <1>2, PendingSame, WillClearSame
<1>6. ~Told(f)'
  BY <1>2 DEF Told
<1>7. f \in dyns' /\ Clears(cliCmd, f) => FALSE
  <2>1. UnderWay /\ (Clears(cliCmd, f) => Clearing)
    BY <1>2 DEF UnderWay, Clears, Clearing
  <2> QED BY <1>1, <2>1 DEF CInv, Basis, Blamed
<1> QED BY <1>1, <1>2, <1>4, <1>5, <1>6, <1>7
        DEF piVars, CInv, Agreement, Agrees, SentHeld, HeldSent, EndsHeld, LostKept, BothClear,
            PiClears

-----------------------------------------------------------------------------
(* The threads that send the database. *)

\* Where a step of a thread leaves it.
LEMMA ThreadMoves ==
    ASSUME WholeIInv, NEW i \in 1 .. MaxConn, NEW pc \in Pcs, NEW left, left \subseteq Entry,
           Goto(i, pc, left), conns \in 1 .. MaxConn, conns' = conns, NEW f
    PROVE  /\ i # conns => (Pending(f)' <=> Pending(f))
           /\ i = conns => (Pending(f)' <=> (\/ pc \in {"start", "conf", "static", "statics", "dyn"}
                                             \/ pc = "dyns" /\ f \in left))
<1>1. /\ sync'[i] = [pc |-> pc, left |-> left]
      /\ \A j \in 1 .. MaxConn : j # i => sync'[j] = sync[j]
  BY GotoType DEF WholeIInv, SyncTypeOK
<1> QED BY <1>1 DEF Pending

\* A step that sends nothing about dynamic entries, and takes nothing off the
\* thread's list.
LEMMA ThreadRests ==
    ASSUME WholeIInv, CInv, NEW i \in 1 .. MaxConn, SscSync(i), ~disturbed', NEW f \in Entry,
           \/ UNCHANGED <<sock, toPi>>
           \/ /\ sock = "up" <=> sock' = "up"
              /\ Source(toPi', f) <=> Source(toPi, f)
              /\ Sparing(toPi', f) <=> Sparing(toPi, f),
           sock = "up" /\ f \in Held => (Pending(f)' <=> Pending(f)) \/ Told(f)
    PROVE  Agrees(f)'
<1>1. ~disturbed /\ UNCHANGED <<piVars, unsent, kept>>
  BY Zenon DEF SscSync, Blame
<1>2. UNCHANGED <<dyns, upd, toSsc, readerCmd>>
  BY SyncWrites DEF SscSync, readVars, updVars
<1>3. /\ Held' = Held /\ (WillClear(f)' <=> WillClear(f)) /\ (Told(f)' <=> Told(f))
  BY <1>1, <1>2, HeldSame, WillClearSame DEF Told
<1>4. /\ sock = "up" <=> sock' = "up"
      /\ Source(toPi', f) <=> Source(toPi, f)
      /\ Sparing(toPi', f) <=> Sparing(toPi, f)
  OBVIOUS
<1>5. Ends(toPi', box', piDyns', f) <=> Ends(toPi, box, piDyns, f)
  BY <1>1, <1>4 DEF Ends, piVars
<1> QED BY <1>1, <1>2, <1>3, <1>4, <1>5
        DEF piVars, CInv, Agreement, Agrees, SentHeld, HeldSent, EndsHeld, LostKept, BothClear,
            PiClears

\* A mark or a static entry is written.
LEMMA OtherWrite ==
    ASSUME "nomem" \notin Faults, WholeIInv, LinkUp, NEW m \in PiMsg,
           m.type \in {"mark", "static"}, Write(m), NEW f
    PROVE  /\ sock = "up" <=> sock' = "up"
           /\ Source(toPi', f) <=> Source(toPi, f)
           /\ Sparing(toPi', f) <=> Sparing(toPi, f)
<1>1. Spares(m, f) /\ ~Brings(m, f)
  BY DEF Spares, About, Brings
<1>2. toPi \in Seq(PiMsg)
  BY DEF WholeIInv, SyncTypeOK, TypeOK
<1>3. CASE sock = "up" /\ sock' = "up" /\ toPi' = Append(toPi, m)
  BY <1>1, <1>2, <1>3, EndsAppend
<1>4. CASE sock # "up" /\ sock' # "up" /\ toPi' = <<>> /\ toPi = <<>>
  BY <1>4
<1> QED BY <1>3, <1>4, WriteIs

\* A dynamic entry is sent, which the updater is not about to change.
LEMMA EntryAgrees ==
    ASSUME "nomem" \notin Faults, WholeIInv, CInv,
           NEW i \in 1 .. MaxConn, SscSync(i), SyncEntry(i), sync[i].pc = "dyns",
           ~disturbed', NEW f \in Entry
    PROVE  Agrees(f)'
<1>1. /\ ~disturbed /\ UNCHANGED <<piVars, unsent, kept>>
      /\ ~(/\ sync[i].pc = "dyns" /\ sync[i].left # {}
           /\ upd # NoUpd
           /\ \E e \in sync[i].left \ sync'[i].left : SameKey(upd.entry, e))
  BY Zenon DEF SscSync, Blame
<1>2. PICK e \in sync[i].left :
            Write([type |-> "dyn", entry |-> e]) /\ Goto(i, "dyns", sync[i].left \ {e})
  BY DEF SyncEntry
<1> DEFINE m == [type |-> "dyn", entry |-> e]
<1>3. sync[i].left \subseteq Entry /\ sync[i].left \subseteq dyns /\ KeysUnique(dyns)
  BY DEF WholeIInv, SyncTypeOK, TypeOK, IInv, WalkIsLive, TablesKeyed
<1>4. m \in PiMsg /\ e \in dyns /\ e \in Entry
  BY <1>2, <1>3, Messages
<1>5. UNCHANGED <<dyns, upd, toSsc, readerCmd, conns>>
  BY SyncWrites DEF SscSync, readVars, updVars
<1>6. Held' = Held /\ (WillClear(f)' <=> WillClear(f)) /\ (Told(f)' <=> Told(f))
  BY <1>1, <1>5, HeldSame, WillClearSame DEF Told
<1>7. upd # NoUpd => ~SameKey(upd.entry, e)
  <2>1. sync'[i].left = sync[i].left \ {e}
    <3> DEFINE rest == sync[i].left \ {e}
    <3>1. "dyns" \in Pcs /\ rest \subseteq Entry
      BY <1>3 DEF Pcs
    <3>2. TypeOK /\ Goto(i, "dyns", rest)
      BY <1>2 DEF WholeIInv, SyncTypeOK
    <3> HIDE DEF rest
    <3>3. sync'[i] = [pc |-> "dyns", left |-> rest]
      BY <3>1, <3>2, GotoType
    <3> QED BY <3>3 DEF rest
  <2>2. e \in sync[i].left \ sync'[i].left /\ sync[i].left # {}
    BY <1>2, <2>1
  <2> QED BY <1>1, <2>2
<1>8. e \in Held
  BY <1>4, <1>7 DEF Held, SameKey
<1>9. f \in Held /\ SameKey(e, f) => f = e
  <2>1. f \in Held => f \in dyns \/ (upd # NoUpd /\ f = upd.entry)
    BY DEF Held
  <2>2. upd # NoUpd /\ f = upd.entry => ~SameKey(e, f)
    BY <1>7 DEF SameKey
  <2> QED BY <1>3, <1>4, <2>1, <2>2 DEF KeysUnique
<1>10. Brings(m, f) <=> f = e
  BY DEF Brings
<1>11. f \in Held => Spares(m, f) \/ Brings(m, f)
  BY <1>9, <1>10 DEF Spares, About
<1>12. f \in Held /\ f # e => Spares(m, f)
  BY <1>10, <1>11
<1>13. toPi \in Seq(PiMsg)
  BY DEF WholeIInv, SyncTypeOK, TypeOK
<1>14. CASE sock = "up" /\ sock' = "up" /\ toPi' = Append(toPi, m)
  <2>1. conns \in 1 .. MaxConn
    BY <1>14 DEF CInv, Basis, LinkUp
  <2>2. f # e => (Pending(f)' <=> Pending(f))
    <3>1. "dyns" \in Pcs /\ sync[i].left \ {e} \subseteq Entry
      BY <1>3 DEF Pcs
    <3>2. /\ i # conns => (Pending(f)' <=> Pending(f))
          /\ i = conns => (Pending(f)' <=> f \in sync[i].left \ {e})
      BY <1>2, <1>5, <2>1, <3>1, ThreadMoves
    <3>3. i = conns => (Pending(f) <=> f \in sync[i].left)
      BY DEF Pending
    <3> QED BY <3>2, <3>3
  <2>3. /\ Source(toPi', f) <=> Brings(m, f) \/ (Source(toPi, f) /\ Spares(m, f))
        /\ Sparing(toPi', f) <=> Sparing(toPi, f) /\ Spares(m, f)
    <3> HIDE DEF m
    <3> QED BY <1>4, <1>13, <1>14, EndsAppend
  <2>4. Ends(toPi', box', piDyns', f)
            <=> Brings(m, f) \/ (Ends(toPi, box, piDyns, f) /\ Spares(m, f))
    BY <1>1, <2>3 DEF Ends, piVars
  <2> HIDE DEF m
  <2> QED BY <1>1, <1>5, <1>6, <1>8, <1>10, <1>12, <1>14, <2>2, <2>3, <2>4
          DEF piVars, CInv, Agreement, Agrees, SentHeld, HeldSent, EndsHeld, LostKept, BothClear,
              PiClears
<1>15. CASE sock # "up" /\ sock' # "up" /\ toPi' = <<>> /\ toPi = <<>>
  BY <1>15, ThreadRests
<1> QED BY <1>2, <1>14, <1>15, WriteIs DEF CInv, Basis

LEMMA SyncAgrees ==
    ASSUME "nomem" \notin Faults, WholeIInv, CInv,
           NEW i \in 1 .. MaxConn, SscSync(i), ~disturbed', NEW f \in Entry
    PROVE  Agrees(f)'
<1>1. LinkUp /\ (sock = "up" => conns \in 1 .. MaxConn) /\ conns' = conns
  BY SyncWrites DEF CInv, Basis, LinkUp, SscSync, readVars
<1>2. Mark \in PiMsg /\ Mark.type = "mark" /\ {} \subseteq Entry
  BY Messages DEF Mark
<1> USE DEF Pcs
<1>3. CASE SyncStart(i)
  <2>1. Write(Mark) /\ Goto(i, "conf", {}) /\ sync[i].pc = "start"
    BY <1>3 DEF SyncStart
  <2>2. sock = "up" => (Pending(f)' <=> Pending(f))
    BY <1>1, <1>2, <2>1, ThreadMoves DEF Pending
  <2> QED BY <1>1, <1>2, <2>1, <2>2, OtherWrite, ThreadRests
<1>4. CASE SyncConf(i)
  <2>1. Write(Mark) /\ Goto(i, "static", {}) /\ sync[i].pc = "conf"
    BY <1>4 DEF SyncConf
  <2>2. sock = "up" => (Pending(f)' <=> Pending(f))
    BY <1>1, <1>2, <2>1, ThreadMoves DEF Pending
  <2> QED BY <1>1, <1>2, <2>1, <2>2, OtherWrite, ThreadRests
<1>5. CASE SyncEnd(i)
  <2>1. Write(Mark) /\ Goto(i, "done", {}) /\ sync[i].pc = "end"
    BY <1>5 DEF SyncEnd
  <2>2. sock = "up" => (Pending(f)' <=> Pending(f))
    BY <1>1, <1>2, <2>1, ThreadMoves DEF Pending
  <2> QED BY <1>1, <1>2, <2>1, <2>2, OtherWrite, ThreadRests
<1>6. CASE SyncUnlock(i)
  <2>1. UNCHANGED <<sock, toPi>>
    BY <1>6 DEF SyncUnlock
  <2>2. CASE sync[i].pc = "statics"
    <3>1. Goto(i, "dyn", {})
      BY <1>6, <2>2 DEF SyncUnlock
    <3>2. sock = "up" => (Pending(f)' <=> Pending(f))
      BY <1>1, <1>2, <2>2, <3>1, ThreadMoves DEF Pending
    <3> QED BY <2>1, <3>2, ThreadRests
  <2>3. CASE sync[i].pc = "dyns"
    <3>1. Goto(i, "end", {}) /\ sync[i].left = {}
      BY <1>6, <2>3 DEF SyncUnlock
    <3>2. sock = "up" => (Pending(f)' <=> Pending(f))
      BY <1>1, <1>2, <2>3, <3>1, ThreadMoves DEF Pending
    <3> QED BY <2>1, <3>2, ThreadRests
  <2> QED BY <1>6, <2>2, <2>3 DEF SyncUnlock
<1>7. CASE SyncLock(i)
  <2>1. UNCHANGED <<sock, toPi>>
    BY <1>7 DEF SyncLock
  <2>2. CASE sync[i].pc = "static"
    <3>1. Goto(i, "statics", statics) /\ statics \subseteq Entry
      BY <1>7, <2>2 DEF SyncLock, WholeIInv, SyncTypeOK, TypeOK
    <3>2. sock = "up" => (Pending(f)' <=> Pending(f))
      BY <1>1, <2>2, <3>1, ThreadMoves DEF Pending
    <3> QED BY <2>1, <3>2, ThreadRests
  <2>3. CASE sync[i].pc = "dyn"
    <3>1. Goto(i, "dyns", dyns) /\ dyns \subseteq Entry
      BY <1>7, <2>3 DEF SyncLock, WholeIInv, SyncTypeOK, TypeOK
    <3>2. ~unsent
      BY <2>3, Zenon DEF SscSync, Blame
    <3>3. sock = "up" /\ f \in Held => (Pending(f)' <=> Pending(f)) \/ Told(f)
      <4>1. sock = "up" /\ i # conns => (Pending(f)' <=> Pending(f))
        BY <1>1, <3>1, ThreadMoves
      <4>2. sock = "up" /\ i = conns => (Pending(f)' <=> f \in dyns)
        BY <1>1, <3>1, ThreadMoves
      <4>3. i = conns => Pending(f)
        BY <2>3 DEF Pending
      <4>4. f \in Held => f \in dyns \/ Told(f)
        BY <3>2 DEF Held, Told
      <4> QED BY <4>1, <4>2, <4>3, <4>4
    <3> QED BY <2>1, <3>3, ThreadRests
  <2> QED BY <1>7, <2>2, <2>3 DEF SyncLock
<1>8. CASE SyncEntry(i)
  <2>1. CASE sync[i].pc = "statics"
    <3>1. PICK e \in sync[i].left : /\ Write([type |-> "static", entry |-> e])
                                    /\ Goto(i, "statics", sync[i].left \ {e})
      BY <1>8, <2>1 DEF SyncEntry
    <3>2. sync[i].left \subseteq Entry
      BY DEF WholeIInv, SyncTypeOK, TypeOK
    <3>3. [type |-> "static", entry |-> e] \in PiMsg /\ sync[i].left \ {e} \subseteq Entry
      BY <3>1, <3>2, Messages
    <3>4. sock = "up" => (Pending(f)' <=> Pending(f))
      BY <1>1, <2>1, <3>1, <3>3, ThreadMoves DEF Pending
    <3>5. /\ sock = "up" <=> sock' = "up"
          /\ Source(toPi', f) <=> Source(toPi, f)
          /\ Sparing(toPi', f) <=> Sparing(toPi, f)
      BY <1>1, <3>1, <3>3, OtherWrite
    <3> QED BY <3>4, <3>5, ThreadRests
  <2>2. CASE sync[i].pc = "dyns"
    BY <1>8, <2>2, EntryAgrees
  <2> QED BY <1>8, <2>1, <2>2 DEF SyncEntry
<1>9. CASE SyncNoMem(i)
  BY <1>9 DEF SyncNoMem
<1> QED BY <1>3, <1>4, <1>5, <1>6, <1>7, <1>8, <1>9 DEF SscSync, Sync

-----------------------------------------------------------------------------
(* PI. *)

LEMMA WillClearClears == ASSUME NEW f, WillClear(f) \/ Clears(cliCmd, f) PROVE Clearing
BY DEF WillClear, Clears, Clearing

\* A message goes from the socket to the queue, where newer ones come first; it
\* may do so as long as those about one key are the same.
LEMMA PollAgrees ==
    ASSUME WholeIInv, CInv, NEW k \in 1 .. Buffer, PollRead(k), ~disturbed', NEW f \in Entry
    PROVE  Agrees(f)'
<1>1. ~disturbed /\ ~Coalesced(toPi, k)
  BY Zenon DEF PollRead, Blame
<1>2. /\ toPi \in Seq(PiMsg) /\ box \in Seq(PiMsg) /\ k \in 1 .. Len(toPi)
      /\ toPi' = SubSeq(toPi, k + 1, Len(toPi))
      /\ toPi # <<>> /\ Head(toPi) \in PiMsg
  BY DEF PollRead, WholeIInv, SyncTypeOK, TypeOK
<1>3. \A n \in 2 .. k : toPi[n] = Mark
  BY <1>1 DEF Coalesced
<1> DEFINE m == Head(toPi)
           r == SubSeq(toPi, k + 1, Len(toPi))
<1>4. /\ Source(toPi, f) <=> Source(r, f) \/ (Brings(m, f) /\ Sparing(r, f))
      /\ Sparing(toPi, f) <=> Spares(m, f) /\ Sparing(r, f)
  <2>1. ReadOff(toPi, k, r)
    BY <1>2, <1>3 DEF ReadOff
  <2> HIDE DEF r
  <2> QED BY <2>1, EndsRead
<1>5. toPi' = r
  BY <1>2
<1>6. UNCHANGED <<dyns, upd, sync, conns, sock, toSsc, readerCmd, piDyns, cliCmd, unsent, kept>>
  BY DEF PollRead, sscAlone
<1>7. /\ Held' = Held /\ (Pending(f)' <=> Pending(f)) /\ (WillClear(f)' <=> WillClear(f))
      /\ Told(f)' <=> Told(f)
  BY <1>6, HeldSame, PendingSame, WillClearSame DEF Told
<1>8. sock = "up"
  BY <1>2 DEF CInv, Basis, LinkUp
<1> HIDE DEF r, m
<1>9. /\ Source(toPi', f) <=> Source(r, f)
      /\ Sparing(toPi', f) <=> Sparing(r, f)
  BY <1>5
<1>10. Coherent(box', f) => /\ Coherent(box, f)
                            /\ Ends(toPi', box', piDyns', f) <=> Ends(toPi, box, piDyns, f)
  <2>1. CASE m = Mark /\ box' = box
    BY <1>4, <1>6, <1>9, <2>1, MarkSpares DEF Ends
  <2>2. CASE box' = <<m>> \o box
    <3>1. m \in PiMsg
      BY <1>2 DEF m
    <3>2. <<m>> \o box \in Seq(PiMsg) /\ Atop(<<m>> \o box, m, box)
      BY <1>2, <3>1 DEF Atop
    <3>3. box' \in Seq(PiMsg) /\ Atop(box', m, box)
      BY <2>2, <3>2
    <3> DEFINE b == box'
    <3>4. b \in Seq(PiMsg) /\ Atop(b, m, box)
      BY <3>3
    <3> HIDE DEF b
    <3>5. /\ Brought(b, f) <=> Brings(m, f) \/ Brought(box, f)
          /\ Sparing(b, f) <=> Spares(m, f) /\ Sparing(box, f)
          /\ Coherent(b, f) =>
                /\ Coherent(box, f)
                /\ About(m, f) => \A n \in DOMAIN box : About(box[n], f) => box[n] = m
      BY <1>2, <3>1, <3>4, QueueAtop
    <3>6. Coherent(b, f) /\ Brought(box, f) /\ ~Spares(m, f) => Brings(m, f)
      <4>1. ~Spares(m, f) => About(m, f)
        BY DEF Spares
      <4> QED BY <3>5, <4>1, BringsAbout DEF Brought
    <3>7. Coherent(b, f) => /\ Coherent(box, f)
                            /\ Ends(r, b, piDyns, f) <=> Ends(toPi, box, piDyns, f)
      BY <1>4, <3>5, <3>6 DEF Ends, Leaves
    <3> QED BY <1>5, <1>6, <3>7 DEF b
  <2> QED BY <2>1, <2>2 DEF PollRead, Q!Put, m
<1> QED BY <1>1, <1>4, <1>6, <1>7, <1>8, <1>9, <1>10
        DEF CInv, Agreement, Agrees, SentHeld, HeldSent, EndsHeld, LostKept, BothClear, PiClears

\* PI handles a message that no older one about its key waits behind.
LEMMA TakeAgrees ==
    ASSUME TextsTell, WholeIInv, CInv, DealTake, ~disturbed', NEW f \in Entry
    PROVE  Agrees(f)'
<1>1. ~disturbed /\ ~Overtakes
  BY Zenon DEF DealTake, Blame
<1> DEFINE m == Head(box)
           t == Tail(box)
<1>2. box \in Seq(PiMsg) /\ box # <<>> /\ box' = t
  BY DEF DealTake, Q!Take, WholeIInv, SyncTypeOK
<1>3. /\ m \in PiMsg /\ t \in Seq(PiMsg) /\ Atop(box, m, t)
      /\ \A n \in DOMAIN t : n + 1 \in 2 .. Len(box) /\ box[n + 1] = t[n]
  BY <1>2 DEF Atop
<1>4. Handle(m)
  BY DEF DealTake
<1>5. \A n \in DOMAIN t : ~(t[n] # m /\ About(t[n], m.entry) /\ About(m, m.entry))
  <2> TAKE n \in DOMAIN t
  <2>1. n + 1 \in 2 .. Len(box) /\ box[n + 1] = t[n]
    BY <1>3
  <2> QED BY <1>1, <2>1 DEF Overtakes
<1>6. kept' = IF m.type \in {"add", "dyn"} /\ m.entry \notin kept
              THEN kept \ KeyHits(kept, m.entry) ELSE kept
  BY DEF DealTake
<1>7. UNCHANGED <<sscVars, cliCmd, unsent>>
  BY DEF DealTake
<1> HIDE DEF m, t
<1>8. /\ Leaves(t, piDyns', f) <=> Leaves(box, piDyns, f)
      /\ Coherent(t, f) => Coherent(box, f)
      /\ m.type \in {"add", "dyn"} /\ SameKey(m.entry, f) /\ m.entry # f
            => ~Leaves(t, piDyns', f)
  BY <1>3, <1>4, <1>5, TakeLeaves
<1>9. /\ Leaves(box', piDyns', f) <=> Leaves(box, piDyns, f)
      /\ Coherent(box', f) => Coherent(box, f)
      /\ f \in kept /\ f \notin kept' => ~Leaves(box', piDyns', f)
  <2>1. f \in kept /\ f \notin kept'
            => m.type \in {"add", "dyn"} /\ SameKey(m.entry, f) /\ m.entry # f
    BY <1>6 DEF KeyHits, SameKey
  <2> QED BY <1>2, <1>8, <2>1
<1>10. /\ Held' = Held /\ (Pending(f)' <=> Pending(f)) /\ (WillClear(f)' <=> WillClear(f))
       /\ Told(f)' <=> Told(f)
  BY <1>7, HeldSame, PendingSame, WillClearSame DEF Told, sscVars
<1>11. Ends(toPi', box', piDyns', f) <=> Ends(toPi, box, piDyns, f)
  BY <1>7, <1>9 DEF Ends, sscVars
<1>12. f \in kept /\ f \notin kept' /\ Ends(toPi', box', piDyns', f) => Source(toPi, f)
  BY <1>7, <1>9 DEF Ends, sscVars
<1>13. ~WillClear(f)
  <2>1. UnderWay
    BY <1>2 DEF UnderWay
  <2> QED BY <1>1, <2>1, WillClearClears DEF CInv, Basis, Blamed
<1> QED BY <1>1, <1>7, <1>9, <1>10, <1>11, <1>12, <1>13
        DEF sscVars, CInv, Agreement, Agrees, SentHeld, HeldSent, EndsHeld, LostKept, BothClear,
            PiClears

LEMMA BeginAgrees ==
    ASSUME WholeIInv, CInv, DealBegin, ~disturbed', NEW f \in Entry
    PROVE  Agrees(f)'
<1>1. ~disturbed
  BY Zenon DEF DealBegin, Blame
<1>2. UNCHANGED <<sscVars, box, piDyns, cliCmd, unsent, kept>>
  BY DEF DealBegin, Q!Begin
<1>3. /\ Held' = Held /\ (Pending(f)' <=> Pending(f)) /\ (WillClear(f)' <=> WillClear(f))
      /\ Told(f)' <=> Told(f)
  BY <1>2, HeldSame, PendingSame, WillClearSame DEF Told, sscVars
<1> QED BY <1>1, <1>2, <1>3
        DEF sscVars, CInv, Agreement, Agrees, SentHeld, HeldSent, EndsHeld, LostKept, BothClear,
            PiClears

\* The user's command goes to SSC.
LEMMA SendAgrees ==
    ASSUME WholeIInv, CInv, NEW c \in Cmd, CliSend(c), ~disturbed', NEW f \in Entry
    PROVE  Agrees(f)'
<1>1. ~disturbed /\ ~(Clearing' /\ UnderWay')
  BY Zenon DEF CliSend, Blame
<1>2. /\ UNCHANGED <<dyns, upd, sync, conns, sock, toPi, readerCmd, box, piDyns, unsent, kept>>
      /\ cliCmd = NoCmd /\ cliCmd' = c
  BY DEF CliSend, sscAlone
<1>3. Held' = Held /\ (Pending(f)' <=> Pending(f)) /\ (Told(f)' <=> Told(f))
  BY <1>2, HeldSame, PendingSame DEF Told
<1>4. ~Clears(cliCmd, f)
  BY <1>2 DEF Clears, NoCmd
<1>5. CASE sock = "up"
  <2>1. toSsc' = Append(toSsc, c) /\ toSsc \in Seq(Cmd)
    BY <1>5 DEF CliSend, WholeIInv, SyncTypeOK, TypeOK
  <2>2. /\ DOMAIN toSsc = 1 .. Len(toSsc) /\ DOMAIN toSsc' = 1 .. Len(toSsc) + 1
        /\ Len(toSsc) \in Nat /\ Len(toSsc) + 1 \in 1 .. Len(toSsc) + 1
        /\ toSsc'[Len(toSsc) + 1] = c /\ \A n \in 1 .. Len(toSsc) : toSsc'[n] = toSsc[n]
        /\ \A n \in 1 .. Len(toSsc) + 1 : n = Len(toSsc) + 1 \/ n \in 1 .. Len(toSsc)
    BY <2>1
  <2>3. WillClear(f)' <=> WillClear(f) \/ Clears(c, f)
    BY <1>2, <2>2 DEF WillClear
  <2> QED BY <1>1, <1>2, <1>3, <1>4, <1>5, <2>3
          DEF CInv, Agreement, Agrees, SentHeld, HeldSent, EndsHeld, LostKept, BothClear, PiClears
<1>6. CASE sock # "up"
  <2>1. UNCHANGED toSsc
    BY <1>6 DEF CliSend
  <2>2. WillClear(f)' <=> WillClear(f)
    BY <1>2, <2>1, WillClearSame
  <2> QED BY <1>1, <1>2, <1>3, <1>4, <1>6, <2>2
          DEF CInv, Agreement, Agrees, SentHeld, HeldSent, EndsHeld, LostKept, BothClear, PiClears
<1> QED BY <1>5, <1>6

\* ... and is carried out at PI; SSC does the same.
LEMMA LocalAgrees ==
    ASSUME WholeIInv, CInv, CliLocal, ~disturbed', NEW f \in Entry
    PROVE  Agrees(f)'
<1>1. ~disturbed
  BY Zenon DEF CliLocal, Blame
<1>2. UNCHANGED <<sscVars, box, draining, unsent, kept>> /\ cliCmd' = NoCmd /\ cliCmd \in Cmd
  BY DEF CliLocal, WholeIInv, SyncTypeOK
<1>3. /\ Held' = Held /\ (Pending(f)' <=> Pending(f)) /\ (WillClear(f)' <=> WillClear(f))
      /\ Told(f)' <=> Told(f)
  BY <1>2, HeldSame, PendingSame, WillClearSame DEF Told, sscVars
<1>4. ~Clears(cliCmd, f)'
  BY <1>2 DEF Clears, NoCmd
<1>5. CASE cliCmd.kind = "static"
  <2>1. piDyns' = piDyns
    BY <1>2, <1>5 DEF CliLocal, PiDb!PutStatic
  <2>2. ~Clears(cliCmd, f)
    BY <1>5 DEF Clears
  <2> QED BY <1>1, <1>2, <1>3, <1>4, <2>1, <2>2
          DEF sscVars, CInv, Agreement, Agrees, SentHeld, HeldSent, EndsHeld, LostKept, BothClear,
              PiClears
<1>6. CASE cliCmd.kind # "static"
  <2>1. cliCmd.kind \in {"dyn", "vlan", "inter"}
    BY <1>2, <1>6 DEF Cmd, StaticCmd, ClearCmd
  <2>2. f \in piDyns' <=> f \in piDyns /\ ~Clears(cliCmd, f)
    <3>1. piDyns' = piDyns \ Selected(cliCmd, piDyns)
      BY <1>2, <1>6, TablesSame DEF CliLocal, PiDb!Clear
    <3> QED BY <2>1, <3>1 DEF Selected, Clears
  <2>3. Clearing
    BY <2>1 DEF Clearing
  <2>4. /\ upd = NoUpd /\ box = <<>> /\ Held = dyns
        /\ ~Source(toPi, f) /\ Sparing(toPi, f)
        /\ Ends(toPi, box, piDyns, f) <=> f \in piDyns
    BY <1>1, <2>3, NothingUnderWay
  <2>5. Leaves(<<>>, piDyns', f) <=> f \in piDyns'
    BY DEF Leaves, Brought, Sparing
  <2>6. Leaves(<<>>, piDyns, f) <=> f \in piDyns
    BY DEF Leaves, Brought, Sparing
  <2>7. Ends(toPi', box', piDyns', f) <=> f \in piDyns'
    BY <1>2, <2>4, <2>5 DEF Ends, sscVars
  <2>8. ~Told(f)
    BY <2>4 DEF Told
  <2> QED BY <1>1, <1>2, <1>3, <1>4, <2>2, <2>4, <2>5, <2>6, <2>7, <2>8
          DEF sscVars, CInv, Agreement, Agrees, SentHeld, HeldSent, EndsHeld, LostKept, BothClear,
              PiClears
<1> QED BY <1>5, <1>6

-----------------------------------------------------------------------------
(* What breaks. *)

\* With PI everything is gone that could differ.
LEMMA RestartAgrees == ASSUME PiRestart, NEW f \in Entry PROVE Agrees(f)'
<1>1. sock' = "broken" /\ toPi' = <<>> /\ box' = <<>> /\ piDyns' = {}
  BY DEF PiRestart, PiHangsUp
<1>2. ~Source(toPi', f)
  BY <1>1 DEF Source
<1>3. ~Leaves(box', piDyns', f)
  BY <1>1 DEF Leaves, Brought
<1> QED BY <1>1, <1>2, <1>3
        DEF Agrees, SentHeld, HeldSent, EndsHeld, LostKept, BothClear, PiClears

\* What PI has and what it will still take from its queue is written down.
LEMMA KeptLeaves == ASSUME PiKeeps, NEW f PROVE Leaves(box, piDyns, f) => f \in kept'
<1>1. ASSUME Brought(box, f) PROVE f \in kept'
  <2>1. PICK n \in DOMAIN box : box[n].type \in {"add", "dyn"} /\ box[n].entry = f
    BY <1>1 DEF Brought, Brings
  <2> QED BY <2>1 DEF PiKeeps
<1> QED BY <1>1 DEF Leaves, PiKeeps

LEMMA LossAgrees ==
    ASSUME WholeIInv, CInv, LineLost \/ SscRestart, ~disturbed', NEW f \in Entry
    PROVE  Agrees(f)'
<1>1. ~disturbed /\ PiKeeps
  BY Zenon DEF LineLost, SscRestart, Blame
<1>2. /\ sock' # "up" /\ toPi' = <<>> /\ toSsc' = <<>>
      /\ readerCmd' = readerCmd \/ readerCmd' = NoCmd
  BY DEF LineLost, SscRestart, PiHangsUp
<1>3. UNCHANGED <<box, piDyns, cliCmd>>
  BY <1>1 DEF PiKeeps, piVars
<1>4. ~Source(toPi', f)
  BY <1>2 DEF Source
<1>5. WillClear(f)' => WillClear(f)
  <2>1. Clears(readerCmd, f)' => Clears(readerCmd, f)
    BY <1>2 DEF Clears, NoCmd
  <2> QED BY <1>2, <2>1 DEF WillClear
<1>6. Leaves(box', piDyns', f) => f \in kept'
  BY <1>1, <1>3, KeptLeaves
<1> QED BY <1>1, <1>2, <1>3, <1>4, <1>5, <1>6
        DEF CInv, Agreement, Agrees, SentHeld, HeldSent, EndsHeld, LostKept, BothClear, PiClears

-----------------------------------------------------------------------------
LEMMA StepCInv ==
    ASSUME TextsTell, \A p \in Port : PhyOf[p] = p, "nomem" \notin Faults
    PROVE  WholeIInv /\ CInv /\ [SyncNext]_vars => CInv'
<1> SUFFICES ASSUME WholeIInv, CInv, [SyncNext]_vars PROVE CInv'
  OBVIOUS
<1>1. Basis'
  BY StepBasis DEF CInv
<1>2. SUFFICES ASSUME ~disturbed', NEW f \in Entry PROVE Agrees(f)'
  BY <1>1 DEF CInv, Agreement
<1>3. CASE UNCHANGED vars
  <2>1. UNCHANGED <<dyns, upd, sync, conns, sock, toPi, toSsc, readerCmd, box, piDyns, cliCmd,
                    unsent, kept, disturbed>>
    BY <1>3 DEF vars, sscVars, piVars
  <2>2. /\ Held' = Held /\ (Pending(f)' <=> Pending(f)) /\ (WillClear(f)' <=> WillClear(f))
        /\ Told(f)' <=> Told(f)
    BY <2>1, HeldSame, PendingSame, WillClearSame DEF Told
  <2> QED BY <1>2, <2>1, <2>2
          DEF CInv, Agreement, Agrees, SentHeld, HeldSent, EndsHeld, LostKept, BothClear, PiClears
<1>4. CASE SscSteps
  <2>1. CASE \E k \in 1 .. Buffer : SscReads(k)
    BY <1>2, <2>1, ReadsAgrees
  <2>2. CASE SscReader
    BY <1>2, <2>2, ReaderAgrees
  <2>3. CASE SscNotify
    BY <1>2, <2>3, NotifyAgrees
  <2>4. CASE SscStore
    BY <1>2, <2>4, StoreAgrees
  <2>5. CASE \E i \in 1 .. MaxConn : SscSync(i)
    BY <1>2, <2>5, SyncAgrees
  <2>6. CASE SscRestart
    BY <1>2, <2>6, LossAgrees
  <2> QED BY <1>4, <2>1, <2>2, <2>3, <2>4, <2>5, <2>6 DEF SscSteps
<1>5. CASE PiSteps
  <2>1. CASE \E k \in 1 .. Buffer : PollRead(k)
    BY <1>2, <2>1, PollAgrees
  <2>2. CASE DealBegin
    BY <1>2, <2>2, BeginAgrees
  <2>3. CASE DealTake
    BY <1>2, <2>3, TakeAgrees
  <2>4. CASE \E c \in Cmd : CliSend(c)
    BY <1>2, <2>4, SendAgrees
  <2>5. CASE CliLocal
    BY <1>2, <2>5, LocalAgrees
  <2>6. CASE PiRestart
    BY <2>6, RestartAgrees
  <2>7. CASE LineLost
    BY <1>2, <2>7, LossAgrees
  <2> QED BY <1>5, <2>1, <2>2, <2>3, <2>4, <2>5, <2>6, <2>7 DEF PiSteps
<1> QED BY <1>3, <1>4, <1>5 DEF SyncNext, SyncRest

\* In a quiet state, what ends up at PI is what is there.
LEMMA CInvImplies == WholeIInv /\ CInv => Converged
<1> SUFFICES ASSUME WholeIInv, CInv, Quiet, Connected, ~disturbed
             PROVE  dyns \subseteq piDyns /\ piDyns \subseteq dyns \cup kept
  BY DEF Converged
<1>1. /\ toPi = <<>> /\ toSsc = <<>> /\ box = <<>> /\ cliCmd = NoCmd /\ upd = NoUpd
      /\ sock = "up" /\ readerCmd = NoCmd
  BY DEF Quiet, Connected, CInv, Basis, CmdRead
<1>2. sync[conns].pc \in {"none", "done"}
  BY <1>1 DEF Quiet, CInv, Basis, LinkUp
<1>3. ASSUME NEW f \in Entry PROVE (f \in dyns => f \in piDyns) /\ (f \in piDyns => f \in dyns \cup kept)
  <2>1. ~Source(toPi, f) /\ Sparing(toPi, f)
    BY <1>1 DEF Source, Sparing
  <2>2. Leaves(box, piDyns, f) <=> f \in piDyns
    BY <1>1 DEF Leaves, Brought, Sparing
  <2>3. Ends(toPi, box, piDyns, f) <=> f \in piDyns
    BY <2>1, <2>2 DEF Ends
  <2>4. Held = dyns /\ Coherent(box, f)
    BY <1>1 DEF Held, Coherent
  <2>5. ~Pending(f)
    BY <1>2 DEF Pending
  <2>6. ~Clears(NoCmd, f)
    BY DEF Clears, NoCmd
  <2>7. ~WillClear(f) /\ ~Clears(cliCmd, f)
    BY <1>1, <2>6 DEF WillClear
  <2> QED BY <1>1, <2>3, <2>4, <2>5, <2>7 DEF CInv, Agreement, Agrees, HeldSent, EndsHeld
<1>4. dyns \subseteq Entry /\ piDyns \subseteq Entry
  BY DEF WholeIInv, SyncTypeOK, TypeOK
<1> QED BY <1>3, <1>4

\* When nothing is under way and nothing has happened that the protocol cannot
\* make good, PI shows all dynamic addresses of SSC with their ports and no
\* others, save what it had kept when a connection was lost: whatever the order
\* in which the chip, the users, the threads of both programs and the socket
\* act, and whatever breaks.  It is assumed that strncmp tells the addresses
\* apart, that ports are numbered alike in PI and SSC, and that memory lasts.
THEOREM PiConverges ==
    ASSUME TextsTell, \A p \in Port : PhyOf[p] = p, "nomem" \notin Faults
    PROVE  SyncSpec => []Converged
<1>1. WholeIInv /\ CInv => Converged
  BY CInvImplies
<1>2. WholeIInv /\ CInv /\ [SyncNext]_vars => CInv'
  BY StepCInv
<1> QED BY <1>1, <1>2, InitCInv, SyncInvariance, PTL DEF SyncSpec
=============================================================================

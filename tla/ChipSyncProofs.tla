---------------------------- MODULE ChipSyncProofs ----------------------------
(***************************************************************************)
(* Proofs about ChipSync, for every set of addresses, vlans and ports, any *)
(* numbering of the ports, and any number of commands and events.          *)
(*                                                                         *)
(* SSC and the chip never wait for each other, so nothing relates their    *)
(* tables but the messages between them: the last message on its way that  *)
(* is about an address decides what the other side will have when it has   *)
(* arrived.  The invariants say of every address what its last message     *)
(* says, level by level, and of an address without a message that the two  *)
(* sides agree.                                                            *)
(***************************************************************************)
EXTENDS ChipSync, MacTableLemmas, SequenceTheorems

TablesOK ==
    /\ IsFiniteSet(hwDyns)
    /\ KeysUnique(hwDyns) /\ KeysUnique(hwStatics)
    /\ KeysUnique(dyns) /\ KeysUnique(statics)

TInv == TypeOK /\ TablesOK

-----------------------------------------------------------------------------
(* Numbers of ports *)

\* A conversion and its way back, on ports that are not 0.
LEMMA ConvertsBack ==
    ASSUME NEW f, Converts(f)
    PROVE  /\ \A p \in UserPort : f[p] \in UserPort /\ Back(f, f[p]) = p
           /\ \A q \in UserPort : Back(f, q) \in UserPort /\ f[Back(f, q)] = q
<1>1. \A p \in Port : Back(f, f[p]) = p
  BY DEF Converts, Back
<1>2. \A q \in Port : Back(f, q) \in Port /\ f[Back(f, q)] = q
  BY DEF Converts, Back
<1>3. \A p \in UserPort : f[p] \in UserPort
  BY TableAssumption DEF Converts, UserPort
<1>4. \A q \in UserPort : Back(f, q) # 0
  BY <1>2, TableAssumption DEF Converts, UserPort
<1> QED BY <1>1, <1>2, <1>3, <1>4 DEF UserPort

\* An entry with another port is an entry, with the same key.
LEMMA AtPortIs ==
    ASSUME NEW e \in RealEntry, NEW p \in UserPort
    PROVE  /\ AtPort(e, p) \in RealEntry
           /\ AtPort(e, p).mac = e.mac /\ AtPort(e, p).vlan = e.vlan
           /\ AtPort(e, p).port = p
           /\ \A q \in UserPort : AtPort(AtPort(e, q), p) = AtPort(e, p)
BY DEF AtPort, RealEntry, UserPort

LEMMA RealIsEntry == RealEntry \subseteq Entry
BY DEF RealEntry, Entry

LEMMA PassedOnType == \A c \in Cmd : PassedOn(c) \in Down
<1> SUFFICES ASSUME NEW c \in Cmd PROVE PassedOn(c) \in Down
  OBVIOUS
<1>1. \A p \in UserPort : PhyOf[p] \in UserPort
  BY ConvertsBack, ConversionAssumption
<1>2. CASE c \in [kind : {"static"}, entry : RealEntry]
  <2>1. c.kind = "static" /\ c.entry \in RealEntry /\ c.entry.port \in UserPort
    BY <1>2 DEF RealEntry, UserPort
  <2>2. PassedOn(c) = [c EXCEPT !.entry.port = PhyOf[@]]
    BY <2>1 DEF PassedOn
  <2> QED BY <1>1, <1>2, <2>1, <2>2 DEF Down, RealEntry, UserPort
<1>3. CASE c \in ClearCmd
  BY <1>1, <1>3 DEF PassedOn, ClearCmd, Down, UserPort
<1>4. CASE c \in [kind : {"age"}, arg : Age]
  BY <1>4 DEF PassedOn, Down
<1>5. CASE c \in [kind : {"learn"}, arg : Status]
  <2>1. [p \in UserPort |-> PhyOf[p]] \in [UserPort -> Port]
    BY <1>1 DEF UserPort
  <2> QED BY <1>5, <2>1 DEF PassedOn, Down
<1> QED BY <1>2, <1>3, <1>4, <1>5 DEF Cmd

LEMMA RelayedType == \A m \in Down : Relayed(m) \in Down
<1> SUFFICES ASSUME NEW m \in Down PROVE Relayed(m) \in Down
  OBVIOUS
<1>1. /\ \A p \in UserPort : FeOf[p] \in UserPort
      /\ \A p \in Port : FeOf[p] \in Port
  BY ConvertsBack, ConversionAssumption DEF Converts
<1>2. CASE m \in [kind : {"static"}, entry : RealEntry]
  <2>1. m.kind = "static" /\ m.entry \in RealEntry /\ m.entry.port \in UserPort
    BY <1>2 DEF RealEntry, UserPort
  <2>2. Relayed(m) = [m EXCEPT !.entry.port = FeOf[@]]
    BY <2>1 DEF Relayed
  <2> QED BY <1>1, <1>2, <2>1, <2>2 DEF Down, RealEntry, UserPort
<1>3. CASE m \in ClearCmd
  BY <1>1, <1>3 DEF Relayed, ClearCmd, Down, UserPort
<1>4. CASE m \in [kind : {"age"}, arg : Age]
  BY <1>4 DEF Relayed, Down
<1>5. CASE m \in [kind : {"learn"}, arg : Status, ports : [UserPort -> Port]]
  <2>1. [p \in UserPort |-> FeOf[m.ports[p]]] \in [UserPort -> Port]
    BY <1>1, <1>5
  <2>2. Relayed(m) = [m EXCEPT !.ports = [p \in UserPort |-> FeOf[m.ports[p]]]]
    BY <1>5 DEF Relayed
  <2> QED BY <1>5, <2>1, <2>2 DEF Down
<1> QED BY <1>2, <1>3, <1>4, <1>5 DEF Down

-----------------------------------------------------------------------------
(* Types, and keys *)

\* The report of addresses that went, in one of the orders.
GoneReport(s) == [n \in DOMAIN s |-> [insert |-> FALSE, entry |-> s[n]]]

LEMMA OrdersAre ==
    ASSUME NEW S, IsFiniteSet(S), NEW s \in Orders(S)
    PROVE  /\ s \in Seq(S)
           /\ \A e \in S : \E n \in DOMAIN s : s[n] = e
<1>1. Cardinality(S) \in Nat
  BY FS_CardinalityType
<1> QED BY <1>1 DEF Orders

LEMMA GoneReportType ==
    ASSUME NEW S, S \subseteq RealEntry, NEW s \in Seq(S)
    PROVE  GoneReport(s) \in Seq(Event)
<1>1. s \in [1 .. Len(s) -> S] /\ Len(s) \in Nat /\ DOMAIN s = 1 .. Len(s)
  OBVIOUS
<1>2. \A n \in 1 .. Len(s) : [insert |-> FALSE, entry |-> s[n]] \in Event
  BY <1>1 DEF Event
<1>3. GoneReport(s) \in [1 .. Len(s) -> Event]
  BY <1>1, <1>2 DEF GoneReport
<1> QED BY <1>1, <1>3

LEMMA GoesType ==
    ASSUME TInv, NEW S, S \subseteq hwDyns, Goes(S)
    PROVE  /\ hwDyns' \subseteq RealEntry /\ IsFiniteSet(hwDyns') /\ KeysUnique(hwDyns')
           /\ reports' \in Seq(Event)
<1>1. IsFiniteSet(S) /\ S \subseteq RealEntry
  BY FS_Subset DEF TInv, TablesOK, TypeOK
<1>2. PICK s \in Orders(S) : reports' = reports \o GoneReport(s)
  BY DEF Goes, GoneReport
<1>3. GoneReport(s) \in Seq(Event)
  BY <1>1, <1>2, OrdersAre, GoneReportType
<1>4. reports' \in Seq(Event)
  BY <1>2, <1>3 DEF TInv, TypeOK
<1>5. hwDyns' \subseteq hwDyns
  BY DEF Goes
<1>6. IsFiniteSet(hwDyns')
  BY <1>5, FS_Subset DEF TInv, TablesOK
<1> QED BY <1>4, <1>5, <1>6 DEF TInv, TypeOK, TablesOK, KeysUnique

\* The table of the chip takes a dynamic address in.
LEMMA HwPutType ==
    ASSUME TInv, NEW e \in RealEntry
    PROVE  /\ \A T \in {hwDyns, hwStatics, statics, dyns} :
                /\ PutByKey(T, e) \subseteq RealEntry
                /\ KeysUnique(PutByKey(T, e))
           /\ IsFiniteSet(PutByKey(hwDyns, e))
<1>1. \A T \in {hwDyns, hwStatics, statics, dyns} :
        T \subseteq RealEntry /\ T \subseteq Entry /\ KeysUnique(T)
  BY RealIsEntry DEF TInv, TypeOK, TablesOK
<1>2. e \in Entry
  BY RealIsEntry
<1>3. \A T \in {hwDyns, hwStatics, statics, dyns} :
        PutByKey(T, e) = {a \in T : ~SameKey(a, e)} \cup {e} /\ KeysUnique(PutByKey(T, e))
  BY <1>1, <1>2, PutByKeyIs, PutByKeyUnique
<1>4. IsFiniteSet(PutByKey(hwDyns, e))
  BY <1>1, <1>2, PutByKeySize DEF TInv, TablesOK
<1> QED BY <1>1, <1>3, <1>4

LEMMA InitTInv == Init => TInv
<1> SUFFICES ASSUME Init PROVE TInv
  OBVIOUS
<1>1. conf \in Conf /\ hwConf = conf
  BY DEF Init, Conf
<1>2. IsFiniteSet({})
  BY FS_EmptySet
<1> QED BY <1>1, <1>2, ChipBoundsAssumption DEF Init, TInv, TypeOK, TablesOK, KeysUnique

LEMMA ReaderTInv ==
    ASSUME TInv, (\E c \in Cmd : ReaderSend(c)) \/ ReaderLocal
    PROVE  TInv'
<1>1. ASSUME NEW c \in Cmd, ReaderSend(c) PROVE TInv'
  <2>1. toSsd' \in Seq(Down)
    BY <1>1, PassedOnType DEF ReaderSend, TInv, TypeOK
  <2>2. cmds' \in 0 .. MaxCmds
    BY <1>1, ChipBoundsAssumption DEF ReaderSend, TInv, TypeOK
  <2> QED BY <1>1, <2>1, <2>2 DEF ReaderSend, TInv, TypeOK, TablesOK, hwVars
<1>2. ASSUME ReaderLocal, readerCmd.kind = "static" PROVE TInv'
  <2>1. readerCmd \in Cmd
    BY <1>2 DEF ReaderLocal, TInv, TypeOK
  <2>2. readerCmd.entry \in RealEntry
    BY <1>2, <2>1 DEF Cmd, ClearCmd
  <2> DEFINE e == AtPort(readerCmd.entry, PhyOf[readerCmd.entry.port])
  <2>3. e \in RealEntry
    BY <2>2, ConvertsBack, ConversionAssumption, AtPortIs DEF RealEntry, UserPort
  <2>4. statics' = PutByKey(statics, e) /\ UNCHANGED <<dyns, conf, hasty>>
    BY <1>2 DEF ReaderLocal, SscLocal, SscClear
  <2>5. statics' \subseteq RealEntry /\ KeysUnique(statics')
    BY <2>3, <2>4, HwPutType
  <2> HIDE DEF e
  <2> QED BY <1>2, <2>4, <2>5 DEF ReaderLocal, TInv, TypeOK, TablesOK, hwVars
<1>3. ASSUME ReaderLocal, readerCmd.kind \in {"dyn", "vlan", "inter"} PROVE TInv'
  <2>1. SscClear(readerCmd)
    BY <1>3 DEF ReaderLocal, SscLocal
  <2>2. PICK gone : /\ gone \subseteq dyns /\ dyns' = dyns \ gone
                    /\ hasty' \subseteq hasty \cup gone
                    /\ UNCHANGED <<statics, conf>>
    BY <2>1 DEF SscClear, Selected
  <2>3. KeysUnique(dyns')
    BY <2>2 DEF TInv, TablesOK, KeysUnique
  <2> QED BY <1>3, <2>2, <2>3 DEF ReaderLocal, TInv, TypeOK, TablesOK, hwVars
<1>4. ASSUME ReaderLocal, readerCmd.kind \in {"age", "learn"} PROVE TInv'
  <2>1. readerCmd \in Cmd
    BY <1>4 DEF ReaderLocal, TInv, TypeOK
  <2>2. /\ readerCmd.kind = "age" => readerCmd.arg \in Age
        /\ readerCmd.kind = "learn" => readerCmd.arg \in Status
    BY <1>4, <2>1 DEF Cmd, ClearCmd
  <2>3. conf' \in Conf /\ UNCHANGED <<dyns, statics, hasty>>
    BY <1>4, <2>2 DEF ReaderLocal, SscLocal, SscClear, TInv, TypeOK, Conf
  <2> QED BY <1>4, <2>3 DEF ReaderLocal, TInv, TypeOK, TablesOK, hwVars
<1>5. ReaderLocal => readerCmd.kind \in {"static", "dyn", "vlan", "inter", "age", "learn"}
  BY DEF ReaderLocal, SscLocal
<1> QED BY <1>1, <1>2, <1>3, <1>4, <1>5

LEMMA UpdTInv ==
    ASSUME TInv, UpdReceive \/ UpdStore
    PROVE  TInv'
<1>1. CASE UpdReceive
  <2>1. Head(fromSsd) \in Event /\ fromSsd' \in Seq(Event)
    BY <1>1 DEF UpdReceive, TInv, TypeOK
  <2>2. Back(PhyOf, Head(fromSsd).entry.port) \in UserPort
    BY <2>1, ConvertsBack, ConversionAssumption DEF Event, RealEntry, UserPort
  <2>3. upd' \in Event
    BY <1>1, <2>1, <2>2 DEF UpdReceive, Event, RealEntry, UserPort
  <2> QED BY <1>1, <2>1, <2>3 DEF UpdReceive, TInv, TypeOK, TablesOK, hwVars
<1>2. CASE UpdStore
  <2>1. upd.entry \in RealEntry /\ upd.entry \in Entry
    BY <1>2, RealIsEntry DEF UpdStore, TInv, TypeOK, Event
  <2>2. dyns \subseteq Entry /\ KeysUnique(dyns)
    BY RealIsEntry DEF TInv, TypeOK, TablesOK
  <2>3. PutByText(dyns, upd.entry) \subseteq RealEntry
    <3>1. dyns \subseteq RealEntry
      BY DEF TInv, TypeOK
    <3>2. ASSUME NEW a \in dyns PROVE [a EXCEPT !.port = upd.entry.port] \in RealEntry
      <4>1. a \in RealEntry
        BY <3>1
      <4> QED BY <2>1, <4>1 DEF RealEntry
    <3>3. TextHits(dyns, upd.entry) \subseteq dyns
      BY DEF TextHits
    <3>4. CASE TextHits(dyns, upd.entry) = {}
      <4>1. PutByText(dyns, upd.entry) = dyns \cup {upd.entry}
        BY <3>4 DEF PutByText, Upsert
      <4> QED BY <2>1, <3>1, <4>1
    <3>5. CASE TextHits(dyns, upd.entry) # {}
      <4>1. PutByText(dyns, upd.entry) =
              (dyns \ TextHits(dyns, upd.entry))
                \cup {[a EXCEPT !.port = upd.entry.port] : a \in TextHits(dyns, upd.entry)}
        BY <3>5 DEF PutByText, Upsert
      <4> QED BY <3>1, <3>2, <3>3, <4>1
    <3> QED BY <3>4, <3>5
  <2>4. KeysUnique(PutByText(dyns, upd.entry))
    BY <2>1, <2>2, PutByTextUnique
  <2>5. SscErase(dyns, upd.entry) \subseteq dyns
    BY DEF SscErase
  <2>6. dyns' \subseteq RealEntry /\ KeysUnique(dyns')
    BY <1>2, <2>2, <2>3, <2>4, <2>5 DEF UpdStore, TInv, TypeOK, KeysUnique
  <2> QED BY <1>2, <2>6 DEF UpdStore, TInv, TypeOK, TablesOK, hwVars
<1> QED BY <1>1, <1>2

LEMMA SsdTInv ==
    ASSUME TInv, SsdCommand \/ SsdEvent
    PROVE  TInv'
<1>1. CASE SsdCommand
  <2>1. Head(toSsd) \in Down /\ toSsd' \in Seq(Down)
    BY <1>1 DEF SsdCommand, TInv, TypeOK
  <2>2. toSsa' \in Seq(Down)
    BY <1>1, <2>1, RelayedType DEF SsdCommand, TInv, TypeOK
  <2> QED BY <1>1, <2>1, <2>2 DEF SsdCommand, TInv, TypeOK, TablesOK, sscVars, hwVars
<1>2. CASE SsdEvent
  <2>1. Head(fromSsa) \in Event /\ fromSsa' \in Seq(Event)
    BY <1>2 DEF SsdEvent, TInv, TypeOK
  <2>2. Back(FeOf, Head(fromSsa).entry.port) \in UserPort
    BY <2>1, ConvertsBack, ConversionAssumption DEF Event, RealEntry, UserPort
  <2>3. [Head(fromSsa) EXCEPT !.entry.port = Back(FeOf, @)] \in Event
    BY <2>1, <2>2 DEF Event, RealEntry, UserPort
  <2>4. fromSsd' \in Seq(Event)
    BY <1>2, <2>3 DEF SsdEvent, TInv, TypeOK
  <2> QED BY <1>2, <2>1, <2>4 DEF SsdEvent, TInv, TypeOK, TablesOK, sscVars, hwVars
<1> QED BY <1>1, <1>2

\* The entry SSA hands to the driver.
LEMMA SsaEntry ==
    ASSUME NEW e \in RealEntry
    PROVE  AtPort(e, HwOf[e.port]) \in RealEntry
BY ConvertsBack, ConversionAssumption, AtPortIs DEF RealEntry, UserPort

LEMMA SsaTInv ==
    ASSUME TInv, SsaCommand
    PROVE  TInv'
<1> DEFINE m == Head(toSsa)
<1>1. m \in Down /\ toSsa' \in Seq(Down)
  BY DEF SsaCommand, TInv, TypeOK
<1>2. CASE m.kind = "static" /\ SsaStatic(m.entry)
  <2>1. m.entry \in RealEntry
    BY <1>1, <1>2 DEF Down, ClearCmd
  <2> DEFINE hw == AtPort(m.entry, HwOf[m.entry.port])
  <2>2. hw \in RealEntry
    BY <2>1, SsaEntry
  <2>3. hwStatics' = PutByKey(hwStatics, hw) /\ Goes(KeyHits(hwDyns, hw)) /\ hwConf' = hwConf
    BY <1>2 DEF SsaStatic
  <2> HIDE DEF hw
  <2>4. hwStatics' \subseteq RealEntry /\ KeysUnique(hwStatics')
    BY <2>2, <2>3, HwPutType
  <2>5. KeyHits(hwDyns, hw) \subseteq hwDyns
    BY DEF KeyHits
  <2> QED BY <1>1, <2>3, <2>4, <2>5, GoesType DEF SsaCommand, TInv, TypeOK, TablesOK, sscVars
<1>3. CASE SsaClear(m)
  <2>1. PICK S : S \subseteq hwDyns /\ Goes(S) /\ UNCHANGED <<hwStatics, hwConf>>
    BY <1>3 DEF SsaClear, Selected
  <2> QED BY <1>1, <2>1, GoesType DEF SsaCommand, TInv, TypeOK, TablesOK, sscVars
<1>4. CASE m.kind = "age" /\ SsaAge(m)
  <2>1. hwConf' \in Conf
    BY <1>1, <1>4 DEF SsaAge, Down, ClearCmd, TInv, TypeOK, Conf
  <2> QED BY <1>1, <1>4, <2>1 DEF SsaAge, SsaCommand, TInv, TypeOK, TablesOK, sscVars
<1>5. CASE m.kind = "learn" /\ SsaLearn(m)
  <2>1. m.arg \in Status
    BY <1>1, <1>5 DEF Down, ClearCmd
  <2>2. hwConf' \in Conf
    BY <1>5, <2>1 DEF SsaLearn, TInv, TypeOK, Conf
  <2> QED BY <1>1, <1>5, <2>2 DEF SsaLearn, SsaCommand, TInv, TypeOK, TablesOK, sscVars
<1> QED BY <1>2, <1>3, <1>4, <1>5 DEF SsaCommand

LEMMA HwTInv ==
    ASSUME TInv, NEW e \in RealEntry, HwLearn(e) \/ HwAge(e)
    PROVE  TInv'
<1>1. events' \in 0 .. MaxEvents
  BY ChipBoundsAssumption DEF HwLearn, HwAge, TInv, TypeOK
<1>2. CASE HwLearn(e)
  <2>1. /\ hwDyns' \subseteq RealEntry /\ KeysUnique(hwDyns') /\ IsFiniteSet(hwDyns')
    BY <1>2, HwPutType DEF HwLearn
  <2>2. reports' \in Seq(Event)
    BY <1>2 DEF HwLearn, TInv, TypeOK, Event
  <2> QED BY <1>1, <1>2, <2>1, <2>2 DEF HwLearn, TInv, TypeOK, TablesOK, sscVars
<1>3. CASE HwAge(e)
  <2>1. {e} \subseteq hwDyns /\ Goes({e})
    BY <1>3 DEF HwAge
  <2> QED BY <1>1, <1>3, <2>1, GoesType DEF HwAge, TInv, TypeOK, TablesOK, sscVars
<1> QED BY <1>2, <1>3

LEMMA CallbackTInv ==
    ASSUME TInv, Callback
    PROVE  TInv'
<1>1. Head(reports) \in Event /\ reports' \in Seq(Event)
  BY DEF Callback, TInv, TypeOK
<1>2. Back(HwOf, Head(reports).entry.port) \in UserPort
  BY <1>1, ConvertsBack, ConversionAssumption DEF Event, RealEntry, UserPort
<1>3. [Head(reports) EXCEPT !.entry.port = Back(HwOf, @)] \in Event
  BY <1>1, <1>2 DEF Event, RealEntry, UserPort
<1>4. fromSsa' \in Seq(Event)
  BY <1>3 DEF Callback, TInv, TypeOK
<1> QED BY <1>1, <1>4 DEF Callback, TInv, TypeOK, TablesOK, sscVars, hwVars

LEMMA StepTInv == TInv /\ [Next]_vars => TInv'
<1>1. TInv /\ UNCHANGED vars => TInv'
  BY DEF vars, sscVars, hwVars, TInv, TypeOK, TablesOK
<1> QED
  BY <1>1, ReaderTInv, UpdTInv, SsdTInv, SsaTInv, HwTInv, CallbackTInv DEF Next

\* Types of SSC's tables, of the chip's, and of all that is between them; every
\* level's port numbers are ports of that level again.
THEOREM ChipTypes == Spec => []TypeOK
<1>1. TInv => TypeOK
  BY DEF TInv
<1> QED BY <1>1, InitTInv, StepTInv, PTL DEF Spec

-----------------------------------------------------------------------------
(* Channels.  A is the set of the messages about one thing. *)

\* Nothing about it is on the way in s; or m is the last that is.
Quiet(s, A)   == \A n \in DOMAIN s : s[n] \notin A
Ends(s, A, m) == \E n \in DOMAIN s : /\ s[n] = m /\ m \in A
                                     /\ \A k \in DOMAIN s : n < k => s[k] \notin A

\* Sending.
LEMMA AppendChannel ==
    ASSUME NEW S, NEW s \in Seq(S), NEW x \in S, NEW A
    PROVE  /\ x \in A => /\ ~Quiet(Append(s, x), A)
                         /\ \A m : Ends(Append(s, x), A, m) => m = x
           /\ x \notin A => /\ Quiet(Append(s, x), A) => Quiet(s, A)
                            /\ \A m : Ends(Append(s, x), A, m) => Ends(s, A, m)
<1> DEFINE t == Append(s, x)
<1>1. /\ Len(s) \in Nat /\ DOMAIN s = 1 .. Len(s) /\ DOMAIN t = 1 .. Len(s) + 1
      /\ t[Len(s) + 1] = x
      /\ \A n \in 1 .. Len(s) : t[n] = s[n]
  OBVIOUS
<1> HIDE DEF t
<1>2. ASSUME x \in A, NEW m, Ends(t, A, m) PROVE m = x
  <2>1. PICK n \in DOMAIN t : t[n] = m /\ \A k \in DOMAIN t : n < k => t[k] \notin A
    BY <1>2 DEF Ends
  <2>2. n = Len(s) + 1
    BY <1>1, <1>2, <2>1
  <2> QED BY <1>1, <2>1, <2>2
<1>3. ASSUME x \notin A, NEW m, Ends(t, A, m) PROVE Ends(s, A, m)
  <2>1. PICK n \in DOMAIN t : t[n] = m /\ m \in A /\ \A k \in DOMAIN t : n < k => t[k] \notin A
    BY <1>3 DEF Ends
  <2>2. n \in DOMAIN s
    BY <1>1, <1>3, <2>1
  <2> QED BY <1>1, <2>1, <2>2 DEF Ends
<1>4. x \in A => ~Quiet(t, A)
  BY <1>1 DEF Quiet
<1>5. x \notin A /\ Quiet(t, A) => Quiet(s, A)
  BY <1>1 DEF Quiet
<1> QED BY <1>2, <1>3, <1>4, <1>5 DEF t

\* Receiving.
LEMMA TailChannel ==
    ASSUME NEW S, NEW s \in Seq(S), s # <<>>, NEW A
    PROVE  /\ Head(s) \in S
           /\ \A m : Ends(Tail(s), A, m) => Ends(s, A, m)
           /\ Quiet(Tail(s), A) /\ Head(s) \in A => Ends(s, A, Head(s))
           /\ Quiet(Tail(s), A) /\ Head(s) \notin A => Quiet(s, A)
<1> DEFINE t == Tail(s)
<1>1. /\ Len(s) \in Nat /\ DOMAIN s = 1 .. Len(s) /\ 1 \in DOMAIN s
      /\ DOMAIN t = 1 .. Len(s) - 1
      /\ \A n \in 1 .. Len(s) - 1 : t[n] = s[n + 1]
      /\ Head(s) = s[1] /\ Head(s) \in S
  OBVIOUS
<1> HIDE DEF t
<1>2. \A n \in DOMAIN s : n # 1 => n - 1 \in DOMAIN t /\ t[n - 1] = s[n]
  <2>1. \A n \in DOMAIN s : n # 1 => n - 1 \in 1 .. Len(s) - 1 /\ (n - 1) + 1 = n
    BY <1>1
  <2> QED BY <1>1, <2>1
<1>3. ASSUME NEW m, Ends(t, A, m) PROVE Ends(s, A, m)
  <2>1. PICK n \in DOMAIN t : t[n] = m /\ m \in A /\ \A k \in DOMAIN t : n < k => t[k] \notin A
    BY <1>3 DEF Ends
  <2>2. n + 1 \in DOMAIN s /\ s[n + 1] = m
    BY <1>1, <2>1
  <2>3. ASSUME NEW k \in DOMAIN s, n + 1 < k PROVE s[k] \notin A
    <3>1. k # 1 /\ n < k - 1
      BY <1>1, <2>1, <2>3
    <3> QED BY <1>2, <2>1, <3>1
  <2> QED BY <2>1, <2>2, <2>3 DEF Ends
<1>4. Quiet(t, A) => \A k \in DOMAIN s : 1 < k => s[k] \notin A
  BY <1>1, <1>2 DEF Quiet
<1>5. Quiet(t, A) /\ Head(s) \in A => Ends(s, A, Head(s))
  BY <1>1, <1>4 DEF Ends
<1>6. Quiet(t, A) /\ Head(s) \notin A => Quiet(s, A)
  BY <1>1, <1>2 DEF Quiet
<1> QED BY <1>1, <1>3, <1>5, <1>6 DEF t

\* Sending several.
LEMMA ConcatChannel ==
    ASSUME NEW S, NEW s \in Seq(S), NEW t \in Seq(S), NEW A
    PROVE  /\ Quiet(s \o t, A) => Quiet(s, A) /\ Quiet(t, A)
           /\ \A m : Ends(s \o t, A, m) => \/ Quiet(t, A) /\ Ends(s, A, m)
                                           \/ \E n \in DOMAIN t : t[n] = m
<1> DEFINE u == s \o t
<1>1. /\ Len(s) \in Nat /\ DOMAIN s = 1 .. Len(s)
      /\ Len(t) \in Nat /\ DOMAIN t = 1 .. Len(t)
      /\ DOMAIN u = 1 .. Len(s) + Len(t)
      /\ \A n \in DOMAIN s : u[n] = s[n]
      /\ \A n \in DOMAIN t : u[Len(s) + n] = t[n]
  OBVIOUS
<1> HIDE DEF u
<1>2. \A n \in DOMAIN s : n \in DOMAIN u
  BY <1>1
<1>3. \A n \in DOMAIN t : Len(s) + n \in DOMAIN u
  BY <1>1
<1>4. Quiet(u, A) => Quiet(s, A) /\ Quiet(t, A)
  BY <1>1, <1>2, <1>3 DEF Quiet
<1>5. ASSUME NEW m, Ends(u, A, m)
      PROVE  \/ Quiet(t, A) /\ Ends(s, A, m)
             \/ \E n \in DOMAIN t : t[n] = m
  <2>1. PICK n \in DOMAIN u : u[n] = m /\ m \in A /\ \A k \in DOMAIN u : n < k => u[k] \notin A
    BY <1>5 DEF Ends
  <2>2. CASE n \in DOMAIN s
    <3>1. \A k \in DOMAIN t : n < Len(s) + k
      BY <1>1, <2>2
    <3>2. Quiet(t, A)
      BY <1>1, <1>3, <2>1, <3>1 DEF Quiet
    <3> QED BY <1>1, <1>2, <2>1, <2>2, <3>2 DEF Ends
  <2>3. CASE n \notin DOMAIN s
    <3>1. n - Len(s) \in DOMAIN t /\ Len(s) + (n - Len(s)) = n
      BY <1>1, <2>3
    <3> QED BY <1>1, <2>1, <3>1
  <2> QED BY <2>2, <2>3
<1> QED BY <1>4, <1>5 DEF u

-----------------------------------------------------------------------------
(* Down: static addresses, age time, learning status *)

StaticAbout(k) == {m \in Down : m.kind = "static" /\ SameKey(m.entry, k)}
AgeAbout       == {m \in Down : m.kind = "age"}
LearnAbout     == {m \in Down : m.kind = "learn"}

\* What SSC has once the command that it has sent on is carried out.
SscSide(e)  == AtPort(e, PhyOf[e.port])
WillStatics == IF readerCmd.kind = "static" THEN PutByKey(statics, SscSide(readerCmd.entry))
                                            ELSE statics
WillAge     == IF readerCmd.kind = "age" THEN readerCmd.arg ELSE conf.age
WillLearn   == IF readerCmd.kind = "learn" THEN [p \in UserPort |-> readerCmd.arg]
                                           ELSE conf.learn

\* A static entry of SSC with the port of the line card, and of the chip.
LineSide(e) == AtPort(e, FeOf[e.port])
ChipSide(e) == AtPort(e, HwOf[FeOf[e.port]])

StaticInv == \A k \in RealEntry :
    /\ \A m : Ends(toSsd, StaticAbout(k), m) => KeyHits(WillStatics, k) = {m.entry}
    /\ Quiet(toSsd, StaticAbout(k)) =>
          /\ \A m : Ends(toSsa, StaticAbout(k), m) =>
                {LineSide(e) : e \in KeyHits(WillStatics, k)} = {m.entry}
          /\ Quiet(toSsa, StaticAbout(k)) =>
                KeyHits(hwStatics, k) = {ChipSide(e) : e \in KeyHits(WillStatics, k)}

AgeInv ==
    /\ \A m : Ends(toSsd, AgeAbout, m) => m.arg = WillAge
    /\ Quiet(toSsd, AgeAbout) =>
          /\ \A m : Ends(toSsa, AgeAbout, m) => m.arg = WillAge
          /\ Quiet(toSsa, AgeAbout) => hwConf.age = WillAge

LearnInv ==
    /\ \A m : Ends(toSsd, LearnAbout, m) =>
          \A p \in UserPort : m.ports[p] = PhyOf[p] /\ WillLearn[p] = m.arg
    /\ Quiet(toSsd, LearnAbout) =>
          /\ \A m : Ends(toSsa, LearnAbout, m) =>
                \A p \in UserPort : m.ports[p] = FeOf[PhyOf[p]] /\ WillLearn[p] = m.arg
          /\ Quiet(toSsa, LearnAbout) =>
                \A p \in UserPort \ {LastPort} :
                    hwConf.learn[HwOf[FeOf[PhyOf[p]]]] = WillLearn[p]

DInv == TInv /\ StaticInv /\ AgeInv /\ LearnInv

\* What a relay does to a message, by its kind.
LEMMA PassedOnIs ==
    ASSUME NEW c \in Cmd
    PROVE  /\ PassedOn(c).kind = c.kind
           /\ c.kind = "static" => /\ c.entry \in RealEntry
                                   /\ PassedOn(c).entry = SscSide(c.entry)
           /\ c.kind = "age" => PassedOn(c).arg = c.arg
           /\ c.kind = "learn" => /\ PassedOn(c).arg = c.arg
                                  /\ PassedOn(c).ports = [p \in UserPort |-> PhyOf[p]]
<1>1. CASE c \in [kind : {"static"}, entry : RealEntry]
  BY <1>1 DEF PassedOn, SscSide, AtPort, RealEntry
<1>2. CASE c \in ClearCmd
  BY <1>2 DEF PassedOn, ClearCmd
<1>3. CASE c \in [kind : {"age"}, arg : Age]
  BY <1>3 DEF PassedOn
<1>4. CASE c \in [kind : {"learn"}, arg : Status]
  BY <1>4 DEF PassedOn
<1> QED BY <1>1, <1>2, <1>3, <1>4 DEF Cmd

LEMMA RelayedIs ==
    ASSUME NEW m \in Down
    PROVE  /\ Relayed(m).kind = m.kind
           /\ m.kind = "static" => /\ m.entry \in RealEntry
                                   /\ Relayed(m).entry = LineSide(m.entry)
           /\ m.kind = "age" => Relayed(m).arg = m.arg
           /\ m.kind = "learn" => /\ Relayed(m).arg = m.arg
                                  /\ Relayed(m).ports = [p \in UserPort |-> FeOf[m.ports[p]]]
<1>1. CASE m \in [kind : {"static"}, entry : RealEntry]
  BY <1>1 DEF Relayed, LineSide, AtPort, RealEntry
<1>2. CASE m \in ClearCmd
  BY <1>2 DEF Relayed, ClearCmd
<1>3. CASE m \in [kind : {"age"}, arg : Age]
  BY <1>3 DEF Relayed
<1>4. CASE m \in [kind : {"learn"}, arg : Status, ports : [UserPort -> Port]]
  BY <1>4 DEF Relayed
<1> QED BY <1>1, <1>2, <1>3, <1>4 DEF Down

\* An entry keeps its key on every level, and its way down can be composed.
LEMMA Sides ==
    ASSUME NEW e \in RealEntry
    PROVE  /\ SscSide(e) \in RealEntry /\ LineSide(e) \in RealEntry /\ ChipSide(e) \in RealEntry
           /\ \A k : /\ SameKey(SscSide(e), k) <=> SameKey(e, k)
                     /\ SameKey(LineSide(e), k) <=> SameKey(e, k)
                     /\ SameKey(ChipSide(e), k) <=> SameKey(e, k)
           /\ AtPort(LineSide(e), HwOf[LineSide(e).port]) = ChipSide(e)
<1>1. /\ e.port \in UserPort /\ PhyOf[e.port] \in UserPort /\ FeOf[e.port] \in UserPort
      /\ HwOf[FeOf[e.port]] \in UserPort
  BY ConvertsBack, ConversionAssumption DEF RealEntry, UserPort
<1> QED BY <1>1, AtPortIs DEF SscSide, LineSide, ChipSide, SameKey

\* What SSC will have is a table of entries, and so is what it has.
LEMMA WillStaticsType ==
    ASSUME TInv
    PROVE  WillStatics \subseteq RealEntry
<1>1. CASE readerCmd.kind = "static"
  <2>1. readerCmd \in Cmd
    BY <1>1 DEF TInv, TypeOK, NoCmd
  <2>2. SscSide(readerCmd.entry) \in RealEntry
    BY <1>1, <2>1, PassedOnIs, Sides
  <2> QED BY <1>1, <2>2, HwPutType DEF WillStatics
<1>2. CASE readerCmd.kind # "static"
  BY <1>2 DEF WillStatics, TInv, TypeOK
<1> QED BY <1>1, <1>2

\* The entry put is the one with its key; the others stay.
LEMMA PutHits ==
    ASSUME NEW T, T \subseteq RealEntry, KeysUnique(T), NEW e \in RealEntry, NEW k
    PROVE  /\ SameKey(e, k) => KeyHits(PutByKey(T, e), k) = {e}
           /\ ~SameKey(e, k) => KeyHits(PutByKey(T, e), k) = KeyHits(T, k)
<1>1. PutByKey(T, e) = {a \in T : ~SameKey(a, e)} \cup {e}
  BY PutByKeyIs, RealIsEntry
<1> QED BY <1>1 DEF KeyHits, SameKey

\* At the start nothing is on its way, and both sides have the same.
LEMMA InitDown == Init => StaticInv /\ AgeInv /\ LearnInv
<1> SUFFICES ASSUME Init PROVE StaticInv /\ AgeInv /\ LearnInv
  OBVIOUS
<1>1. \A A, m : ~Ends(<<>>, A, m)
  BY DEF Ends
<1>2. /\ toSsd = <<>> /\ toSsa = <<>> /\ statics = {} /\ hwStatics = {} /\ hwConf = conf
      /\ readerCmd = NoCmd
  BY DEF Init
<1>3. WillStatics = {} /\ WillAge = conf.age /\ WillLearn = conf.learn
  BY <1>2 DEF WillStatics, WillAge, WillLearn, NoCmd
<1>4. PICK a \in Age, s \in Status : conf = [age |-> a, learn |-> [p \in UserPort |-> s]]
  BY DEF Init
<1>5. \A p \in UserPort : HwOf[FeOf[PhyOf[p]]] \in UserPort
  BY ConvertsBack, ConversionAssumption
<1>6. StaticInv
  BY <1>1, <1>2, <1>3 DEF StaticInv, KeyHits
<1>7. AgeInv
  BY <1>1, <1>2, <1>3 DEF AgeInv
<1>8. LearnInv
  BY <1>1, <1>2, <1>3, <1>4, <1>5 DEF LearnInv
<1> QED BY <1>6, <1>7, <1>8

\* SSC sends a command on: it is the last about its subject, and what SSC will
\* have is what it says.
LEMMA ReaderSendDown ==
    ASSUME DInv, NEW c \in Cmd, ReaderSend(c)
    PROVE  StaticInv' /\ AgeInv' /\ LearnInv'
<1> DEFINE d == PassedOn(c)
<1>1. /\ toSsd \in Seq(Down) /\ toSsd' = Append(toSsd, d) /\ d \in Down
      /\ readerCmd' = c /\ readerCmd.kind = "none"
      /\ UNCHANGED <<toSsa, statics, conf, hwStatics, hwConf>>
      /\ statics \subseteq RealEntry /\ KeysUnique(statics)
  BY PassedOnType DEF ReaderSend, DInv, TInv, TypeOK, TablesOK, hwVars, NoCmd
<1>2. /\ d.kind = c.kind
      /\ c.kind = "static" => c.entry \in RealEntry /\ d.entry = SscSide(c.entry)
      /\ c.kind = "age" => d.arg = c.arg
      /\ c.kind = "learn" => d.arg = c.arg /\ d.ports = [p \in UserPort |-> PhyOf[p]]
  BY PassedOnIs
<1>3. WillStatics = statics /\ WillAge = conf.age /\ WillLearn = conf.learn
  BY <1>1 DEF WillStatics, WillAge, WillLearn
<1> HIDE DEF d
<1>4. StaticInv'
  <2>1. SUFFICES ASSUME NEW k \in RealEntry
                 PROVE  (/\ \A m : Ends(toSsd, StaticAbout(k), m) => KeyHits(WillStatics, k) = {m.entry}
                         /\ Quiet(toSsd, StaticAbout(k)) =>
                               /\ \A m : Ends(toSsa, StaticAbout(k), m) =>
                                     {LineSide(e) : e \in KeyHits(WillStatics, k)} = {m.entry}
                               /\ Quiet(toSsa, StaticAbout(k)) =>
                                     KeyHits(hwStatics, k) = {ChipSide(e) : e \in KeyHits(WillStatics, k)})'
    BY DEF StaticInv
  <2>2. CASE d \in StaticAbout(k)
    <3>1. c.kind = "static" /\ SameKey(SscSide(c.entry), k) /\ SscSide(c.entry) \in RealEntry
      BY <1>2, <2>2, Sides DEF StaticAbout
    <3>2. KeyHits(WillStatics', k) = {d.entry}
      BY <1>1, <1>2, <3>1, PutHits DEF WillStatics
    <3>3. ~Quiet(toSsd', StaticAbout(k)) /\ \A m : Ends(toSsd', StaticAbout(k), m) => m = d
      BY <1>1, <2>2, AppendChannel
    <3> QED BY <3>2, <3>3
  <2>3. CASE d \notin StaticAbout(k)
    <3>1. KeyHits(WillStatics', k) = KeyHits(WillStatics, k)
      <4>1. CASE c.kind = "static"
        <5>1. ~SameKey(SscSide(c.entry), k) /\ SscSide(c.entry) \in RealEntry
          BY <1>1, <1>2, <2>3, <4>1, Sides DEF StaticAbout
        <5> QED BY <1>1, <1>3, <4>1, <5>1, PutHits DEF WillStatics
      <4>2. CASE c.kind # "static"
        BY <1>1, <1>3, <4>2 DEF WillStatics
      <4> QED BY <4>1, <4>2
    <3>2. /\ Quiet(toSsd', StaticAbout(k)) => Quiet(toSsd, StaticAbout(k))
          /\ \A m : Ends(toSsd', StaticAbout(k), m) => Ends(toSsd, StaticAbout(k), m)
      BY <1>1, <2>3, AppendChannel
    <3> QED BY <1>1, <3>1, <3>2 DEF DInv, StaticInv
  <2> QED BY <2>2, <2>3
<1>5. AgeInv'
  <2>1. CASE d \in AgeAbout
    <3>1. WillAge' = d.arg
      BY <1>1, <1>2, <2>1 DEF AgeAbout, WillAge
    <3>2. ~Quiet(toSsd', AgeAbout) /\ \A m : Ends(toSsd', AgeAbout, m) => m = d
      BY <1>1, <2>1, AppendChannel
    <3> QED BY <3>1, <3>2 DEF AgeInv
  <2>2. CASE d \notin AgeAbout
    <3>1. WillAge' = WillAge
      BY <1>1, <1>2, <1>3, <2>2 DEF AgeAbout, WillAge
    <3>2. /\ Quiet(toSsd', AgeAbout) => Quiet(toSsd, AgeAbout)
          /\ \A m : Ends(toSsd', AgeAbout, m) => Ends(toSsd, AgeAbout, m)
      BY <1>1, <2>2, AppendChannel
    <3> QED BY <1>1, <3>1, <3>2 DEF DInv, AgeInv
  <2> QED BY <2>1, <2>2
<1>6. LearnInv'
  <2>1. CASE d \in LearnAbout
    <3>1. \A p \in UserPort : WillLearn'[p] = d.arg /\ d.ports[p] = PhyOf[p]
      BY <1>1, <1>2, <2>1 DEF LearnAbout, WillLearn
    <3>2. ~Quiet(toSsd', LearnAbout) /\ \A m : Ends(toSsd', LearnAbout, m) => m = d
      BY <1>1, <2>1, AppendChannel
    <3> QED BY <3>1, <3>2 DEF LearnInv
  <2>2. CASE d \notin LearnAbout
    <3>1. WillLearn' = WillLearn
      BY <1>1, <1>2, <1>3, <2>2 DEF LearnAbout, WillLearn
    <3>2. /\ Quiet(toSsd', LearnAbout) => Quiet(toSsd, LearnAbout)
          /\ \A m : Ends(toSsd', LearnAbout, m) => Ends(toSsd, LearnAbout, m)
      BY <1>1, <2>2, AppendChannel
    <3> QED BY <1>1, <3>1, <3>2 DEF DInv, LearnInv
  <2> QED BY <2>1, <2>2
<1> QED BY <1>4, <1>5, <1>6

\* SSC carries it out: what it has is now what it was to have.
LEMMA ReaderLocalDown ==
    ASSUME DInv, ReaderLocal
    PROVE  StaticInv' /\ AgeInv' /\ LearnInv'
<1>1. UNCHANGED <<toSsd, toSsa, hwStatics, hwConf>> /\ readerCmd'.kind = "none"
  BY DEF ReaderLocal, hwVars, NoCmd
<1>2. conf \in Conf
  BY DEF DInv, TInv, TypeOK
<1>3. WillStatics' = statics' /\ WillAge' = conf'.age /\ WillLearn' = conf'.learn
  BY <1>1 DEF WillStatics, WillAge, WillLearn
<1>4. statics' = WillStatics /\ conf'.age = WillAge /\ conf'.learn = WillLearn
  BY <1>2 DEF ReaderLocal, SscLocal, SscClear, WillStatics, WillAge, WillLearn, SscSide, Conf
<1>5. WillStatics' = WillStatics /\ WillAge' = WillAge /\ WillLearn' = WillLearn
  BY <1>3, <1>4
<1> QED BY <1>1, <1>5 DEF DInv, StaticInv, AgeInv, LearnInv

\* SSD takes the first message and sends it on; if it was the last about its
\* subject in its channel, it is now the last in the next one.
LEMMA SsdDown ==
    ASSUME DInv, SsdCommand
    PROVE  StaticInv' /\ AgeInv' /\ LearnInv'
<1> DEFINE h == Head(toSsd)
           d == Relayed(h)
<1>1. /\ toSsd \in Seq(Down) /\ toSsd # <<>> /\ toSsd' = Tail(toSsd)
      /\ toSsa \in Seq(Down) /\ toSsa' = Append(toSsa, d) /\ h \in Down /\ d \in Down
      /\ UNCHANGED <<statics, conf, readerCmd, hwStatics, hwConf>>
  BY RelayedType DEF SsdCommand, DInv, TInv, TypeOK, hwVars, sscVars
<1>2. /\ d.kind = h.kind
      /\ h.kind = "static" => h.entry \in RealEntry /\ d.entry = LineSide(h.entry)
      /\ h.kind = "age" => d.arg = h.arg
      /\ h.kind = "learn" => d.arg = h.arg /\ d.ports = [p \in UserPort |-> FeOf[h.ports[p]]]
  BY <1>1, RelayedIs
<1>3. WillStatics' = WillStatics /\ WillAge' = WillAge /\ WillLearn' = WillLearn
  BY <1>1 DEF WillStatics, WillAge, WillLearn
<1> HIDE DEF h, d
<1>4. \A A :
        /\ \A m : Ends(toSsd', A, m) => Ends(toSsd, A, m)
        /\ Quiet(toSsd', A) /\ h \in A => Ends(toSsd, A, h)
        /\ Quiet(toSsd', A) /\ h \notin A => Quiet(toSsd, A)
        /\ d \in A => ~Quiet(toSsa', A) /\ \A m : Ends(toSsa', A, m) => m = d
        /\ d \notin A => /\ Quiet(toSsa', A) => Quiet(toSsa, A)
                         /\ \A m : Ends(toSsa', A, m) => Ends(toSsa, A, m)
  BY <1>1, TailChannel, AppendChannel DEF h
<1>5. StaticInv'
  <2>1. SUFFICES ASSUME NEW k \in RealEntry
                 PROVE  (/\ \A m : Ends(toSsd, StaticAbout(k), m) => KeyHits(WillStatics, k) = {m.entry}
                         /\ Quiet(toSsd, StaticAbout(k)) =>
                               /\ \A m : Ends(toSsa, StaticAbout(k), m) =>
                                     {LineSide(e) : e \in KeyHits(WillStatics, k)} = {m.entry}
                               /\ Quiet(toSsa, StaticAbout(k)) =>
                                     KeyHits(hwStatics, k) = {ChipSide(e) : e \in KeyHits(WillStatics, k)})'
    BY DEF StaticInv
  <2>2. h \in StaticAbout(k) <=> d \in StaticAbout(k)
    BY <1>1, <1>2, Sides DEF StaticAbout
  <2>3. ASSUME NEW m, Ends(toSsd', StaticAbout(k), m) PROVE KeyHits(WillStatics', k) = {m.entry}
    BY <1>3, <1>4, <2>3 DEF DInv, StaticInv
  <2>4. CASE Quiet(toSsd', StaticAbout(k)) /\ h \in StaticAbout(k)
    <3>1. KeyHits(WillStatics', k) = {h.entry}
      BY <1>3, <1>4, <2>4 DEF DInv, StaticInv
    <3>2. d.entry = LineSide(h.entry)
      BY <1>2, <2>4 DEF StaticAbout
    <3>3. {LineSide(e) : e \in KeyHits(WillStatics', k)} = {d.entry}
      BY <3>1, <3>2
    <3> QED BY <1>4, <2>2, <2>3, <2>4, <3>3
  <2>5. CASE Quiet(toSsd', StaticAbout(k)) /\ h \notin StaticAbout(k)
    BY <1>1, <1>3, <1>4, <2>2, <2>3, <2>5 DEF DInv, StaticInv
  <2> QED BY <2>3, <2>4, <2>5
<1>6. AgeInv'
  <2>1. h \in AgeAbout <=> d \in AgeAbout
    BY <1>1, <1>2 DEF AgeAbout
  <2>2. h \in AgeAbout => d.arg = h.arg
    BY <1>2 DEF AgeAbout
  <2> QED BY <1>1, <1>3, <1>4, <2>1, <2>2 DEF DInv, AgeInv
<1>7. LearnInv'
  <2>1. h \in LearnAbout <=> d \in LearnAbout
    BY <1>1, <1>2 DEF LearnAbout
  <2>2. CASE Quiet(toSsd', LearnAbout) /\ h \in LearnAbout
    <3>1. \A p \in UserPort : h.ports[p] = PhyOf[p] /\ WillLearn[p] = h.arg
      BY <1>4, <2>2 DEF DInv, LearnInv
    <3>2. \A p \in UserPort : d.ports[p] = FeOf[PhyOf[p]] /\ WillLearn'[p] = d.arg
      BY <1>2, <1>3, <2>2, <3>1 DEF LearnAbout
    <3>3. ~Quiet(toSsa', LearnAbout) /\ \A m : Ends(toSsa', LearnAbout, m) => m = d
      BY <1>4, <2>1, <2>2
    <3>4. \A m : ~Ends(toSsd', LearnAbout, m)
      BY <2>2 DEF Quiet, Ends
    <3> QED BY <3>2, <3>3, <3>4 DEF LearnInv
  <2>3. CASE Quiet(toSsd', LearnAbout) /\ h \notin LearnAbout
    BY <1>1, <1>3, <1>4, <2>1, <2>3 DEF DInv, LearnInv
  <2>4. CASE ~Quiet(toSsd', LearnAbout)
    BY <1>3, <1>4, <2>4 DEF DInv, LearnInv
  <2> QED BY <2>2, <2>3, <2>4
<1> QED BY <1>5, <1>6, <1>7

\* SSA carries the first message out on the chip.
LEMMA SsaDown ==
    ASSUME DInv, SsaCommand
    PROVE  StaticInv' /\ AgeInv' /\ LearnInv'
<1> DEFINE h == Head(toSsa)
<1>1. /\ toSsa \in Seq(Down) /\ toSsa # <<>> /\ toSsa' = Tail(toSsa) /\ h \in Down
      /\ UNCHANGED <<toSsd, statics, conf, readerCmd>>
      /\ hwStatics \subseteq RealEntry /\ KeysUnique(hwStatics) /\ hwConf \in Conf
  BY DEF SsaCommand, DInv, TInv, TypeOK, TablesOK, sscVars
<1>2. /\ h.kind = "static" => SsaStatic(h.entry) /\ h.entry \in RealEntry
      /\ h.kind # "static" => hwStatics' = hwStatics
      /\ h.kind = "age" => SsaAge(h)
      /\ h.kind # "age" => hwConf'.age = hwConf.age
      /\ h.kind = "learn" => SsaLearn(h)
      /\ h.kind # "learn" => hwConf'.learn = hwConf.learn
  BY <1>1 DEF SsaCommand, SsaStatic, SsaClear, SsaAge, SsaLearn, Down, ClearCmd, Conf
<1>3. WillStatics' = WillStatics /\ WillAge' = WillAge /\ WillLearn' = WillLearn
  BY <1>1 DEF WillStatics, WillAge, WillLearn
<1> HIDE DEF h
<1>4. \A A :
        /\ \A m : Ends(toSsa', A, m) => Ends(toSsa, A, m)
        /\ Quiet(toSsa', A) /\ h \in A => Ends(toSsa, A, h)
        /\ Quiet(toSsa', A) /\ h \notin A => Quiet(toSsa, A)
  BY <1>1, TailChannel DEF h
<1>5. StaticInv'
  <2>1. SUFFICES ASSUME NEW k \in RealEntry,
                        Quiet(toSsd', StaticAbout(k)), Quiet(toSsa', StaticAbout(k))
                 PROVE  KeyHits(hwStatics', k) = {ChipSide(e) : e \in KeyHits(WillStatics', k)}
    BY <1>1, <1>3, <1>4 DEF DInv, StaticInv
  <2>2. CASE h \in StaticAbout(k)
    <3>1. {LineSide(e) : e \in KeyHits(WillStatics, k)} = {h.entry}
      BY <1>1, <1>4, <2>1, <2>2 DEF DInv, StaticInv
    <3>2. /\ h.entry \in RealEntry /\ SameKey(h.entry, k)
          /\ hwStatics' = PutByKey(hwStatics, AtPort(h.entry, HwOf[h.entry.port]))
      BY <1>2, <2>2 DEF StaticAbout, SsaStatic
    <3>3. \A e \in KeyHits(WillStatics, k) :
            e \in RealEntry /\ AtPort(h.entry, HwOf[h.entry.port]) = ChipSide(e)
      <4>1. ASSUME NEW e \in KeyHits(WillStatics, k)
            PROVE  e \in RealEntry /\ LineSide(e) = h.entry
        BY <3>1, WillStaticsType DEF DInv, KeyHits
      <4> QED BY <4>1, Sides
    <3>4. \E e : e \in KeyHits(WillStatics, k)
      BY <3>1
    <3>5. PICK c : c = AtPort(h.entry, HwOf[h.entry.port])
      OBVIOUS
    <3>6. {ChipSide(e) : e \in KeyHits(WillStatics, k)} = {c}
      BY <3>3, <3>4, <3>5
    <3>7. c \in RealEntry /\ SameKey(c, k)
      BY <3>2, <3>5, SsaEntry DEF AtPort, SameKey, RealEntry
    <3> QED BY <1>1, <1>3, <3>2, <3>5, <3>6, <3>7, PutHits
  <2>3. CASE h \notin StaticAbout(k)
    <3>1. KeyHits(hwStatics', k) = KeyHits(hwStatics, k)
      <4>1. CASE h.kind = "static"
        <5>1. h.entry \in RealEntry /\ ~SameKey(h.entry, k)
          BY <1>1, <1>2, <2>3, <4>1 DEF StaticAbout
        <5> DEFINE c == AtPort(h.entry, HwOf[h.entry.port])
        <5>2. c \in RealEntry /\ ~SameKey(c, k)
          BY <5>1, SsaEntry DEF AtPort, SameKey, RealEntry
        <5>3. hwStatics' = PutByKey(hwStatics, c)
          BY <1>2, <4>1 DEF SsaStatic
        <5> HIDE DEF c
        <5> QED BY <1>1, <5>2, <5>3, PutHits
      <4> QED BY <1>2, <4>1
    <3> QED BY <1>1, <1>3, <1>4, <2>1, <2>3, <3>1 DEF DInv, StaticInv
  <2> QED BY <2>2, <2>3
<1>6. AgeInv'
  <2>1. SUFFICES ASSUME Quiet(toSsd', AgeAbout), Quiet(toSsa', AgeAbout)
                 PROVE  hwConf'.age = WillAge'
    BY <1>1, <1>3, <1>4 DEF DInv, AgeInv
  <2>2. CASE h \in AgeAbout
    <3>1. h.arg = WillAge
      BY <1>1, <1>4, <2>1, <2>2 DEF DInv, AgeInv
    <3>2. hwConf'.age = h.arg
      BY <1>1, <1>2, <2>2 DEF AgeAbout, SsaAge, Conf
    <3> QED BY <1>3, <3>1, <3>2
  <2>3. CASE h \notin AgeAbout
    <3>1. hwConf'.age = hwConf.age
      BY <1>1, <1>2, <2>3 DEF AgeAbout
    <3> QED BY <1>1, <1>3, <1>4, <2>1, <2>3, <3>1 DEF DInv, AgeInv
  <2> QED BY <2>2, <2>3
<1>7. LearnInv'
  <2>1. SUFFICES ASSUME Quiet(toSsd', LearnAbout), Quiet(toSsa', LearnAbout),
                        NEW p \in UserPort \ {LastPort}
                 PROVE  hwConf'.learn[HwOf[FeOf[PhyOf[p]]]] = WillLearn'[p]
    BY <1>1, <1>3, <1>4 DEF DInv, LearnInv
  <2>2. CASE h \in LearnAbout
    <3>1. h.ports[p] = FeOf[PhyOf[p]] /\ WillLearn[p] = h.arg
      BY <1>1, <1>4, <2>1, <2>2 DEF DInv, LearnInv
    <3>2. HwOf[FeOf[PhyOf[p]]] \in UserPort
      BY ConvertsBack, ConversionAssumption
    <3>3. hwConf'.learn[HwOf[FeOf[PhyOf[p]]]] = h.arg
      BY <1>1, <1>2, <2>2, <3>1, <3>2 DEF LearnAbout, SsaLearn, Conf
    <3> QED BY <1>3, <3>1, <3>3
  <2>3. CASE h \notin LearnAbout
    <3>1. hwConf'.learn = hwConf.learn
      BY <1>1, <1>2, <2>3 DEF LearnAbout
    <3> QED BY <1>1, <1>3, <1>4, <2>1, <2>3, <3>1 DEF DInv, LearnInv
  <2> QED BY <2>2, <2>3
<1> QED BY <1>5, <1>6, <1>7

\* What comes up does not touch any of this.
LEMMA OthersDown ==
    ASSUME DInv,
           \/ UpdReceive \/ UpdStore \/ SsdEvent \/ Callback
           \/ (\E e \in RealEntry : HwLearn(e) \/ HwAge(e)) \/ UNCHANGED vars
    PROVE  StaticInv' /\ AgeInv' /\ LearnInv'
<1>1. UNCHANGED <<toSsd, toSsa, statics, conf, readerCmd, hwStatics, hwConf>>
  BY DEF UpdReceive, UpdStore, SsdEvent, Callback, HwLearn, HwAge, vars, sscVars, hwVars
<1>2. WillStatics' = WillStatics /\ WillAge' = WillAge /\ WillLearn' = WillLearn
  BY <1>1 DEF WillStatics, WillAge, WillLearn
<1> QED BY <1>1, <1>2 DEF DInv, StaticInv, AgeInv, LearnInv

LEMMA StepDInv == DInv /\ [Next]_vars => DInv'
<1>1. DInv /\ [Next]_vars => TInv'
  BY StepTInv DEF DInv
<1> QED
  BY <1>1, ReaderSendDown, ReaderLocalDown, SsdDown, SsaDown, OthersDown DEF Next, DInv

LEMMA DownImplies == DInv => ChipObeys
<1> SUFFICES ASSUME DInv, Rest PROVE ChipObeys
  BY DEF ChipObeys
<1>1. /\ toSsd = <<>> /\ toSsa = <<>> /\ readerCmd.kind = "none"
  BY DEF Rest, NoCmd
<1>2. WillStatics = statics /\ WillAge = conf.age /\ WillLearn = conf.learn
  BY <1>1 DEF WillStatics, WillAge, WillLearn
<1>3. \A A : Quiet(toSsd, A) /\ Quiet(toSsa, A)
  BY <1>1 DEF Quiet
<1>4. \A k \in RealEntry : KeyHits(hwStatics, k) = {ChipSide(e) : e \in KeyHits(statics, k)}
  BY <1>2, <1>3 DEF DInv, StaticInv
<1>5. hwStatics \subseteq RealEntry /\ statics \subseteq RealEntry
  BY DEF DInv, TInv, TypeOK
<1>6. ASSUME NEW x \in hwStatics PROVE x \in {ChipSide(e) : e \in statics}
  <2>1. x \in KeyHits(hwStatics, x)
    BY DEF KeyHits, SameKey
  <2>2. PICK e \in KeyHits(statics, x) : x = ChipSide(e)
    BY <1>4, <1>5, <2>1
  <2> QED BY <2>2 DEF KeyHits
<1>7. ASSUME NEW e \in statics PROVE ChipSide(e) \in hwStatics
  <2>1. e \in KeyHits(statics, e)
    BY DEF KeyHits, SameKey
  <2>2. ChipSide(e) \in KeyHits(hwStatics, e)
    BY <1>4, <1>5, <2>1
  <2> QED BY <2>2 DEF KeyHits
<1>8. hwStatics = {ChipSide(e) : e \in statics}
  BY <1>6, <1>7
<1>9. hwConf.age = conf.age
  BY <1>2, <1>3 DEF DInv, AgeInv
<1>10. \A p \in UserPort \ {LastPort} : hwConf.learn[HwOf[FeOf[PhyOf[p]]]] = conf.learn[p]
  BY <1>2, <1>3 DEF DInv, LearnInv
<1> QED BY <1>8, <1>9, <1>10 DEF ChipObeys, ChipSide

\* However commands follow one another through SSC, SSD and SSA, the chip ends
\* up with the static addresses and the configuration that SSC has.
THEOREM CommandsReachChip == Spec => []ChipObeys
<1>1. Init => DInv
  BY InitTInv, InitDown DEF DInv
<1> QED BY <1>1, StepDInv, DownImplies, PTL DEF Spec

-----------------------------------------------------------------------------
(* Up: dynamic addresses, if strncmp tells the addresses in use apart *)

TextsTell == \A m, n \in Mac : TextOf[m] = TextOf[n] => m = n

EvAbout(k) == {v \in Event : SameKey(v.entry, k)}

\* What the chip has of key k, as seen from each level.
CardSide(e) == AtPort(e, Back(HwOf, e.port))
GlobSide(e) == AtPort(e, Back(FeOf, Back(HwOf, e.port)))
Chip(k)     == KeyHits(hwDyns, k)
Cards(k)    == {CardSide(e) : e \in Chip(k)}
Globs(k)    == {GlobSide(e) : e \in Chip(k)}
Users(k)    == {UserSide(e) : e \in Chip(k)}

\* The event says that X is what there is.
Tells(v, X) == X = IF v.insert THEN {v.entry} ELSE {}

\* The last event about k tells what the chip has; that is the one in the
\* channel nearest to the chip, among those that are not quiet about k.
QuietUp(k) == /\ Quiet(reports, EvAbout(k))
              /\ Quiet(fromSsa, EvAbout(k))
              /\ Quiet(fromSsd, EvAbout(k))

ReportsTell(k) == \A v : Ends(reports, EvAbout(k), v) => Tells(v, Chip(k))
SsaTells(k)    == Quiet(reports, EvAbout(k)) =>
                      \A v : Ends(fromSsa, EvAbout(k), v) => Tells(v, Cards(k))
SsdTells(k)    == Quiet(reports, EvAbout(k)) /\ Quiet(fromSsa, EvAbout(k)) =>
                      \A v : Ends(fromSsd, EvAbout(k), v) => Tells(v, Globs(k))
UpdTells(k)    == QuietUp(k) /\ upd \in EvAbout(k) => Tells(upd, Users(k))

\* And when no event about k is left, SSC has it but for what it cleared.
Shown(k)       == QuietUp(k) /\ upd \notin EvAbout(k) =>
                      /\ KeyHits(dyns, k) \subseteq Users(k)
                      /\ Users(k) \subseteq KeyHits(dyns, k) \cup hasty

UpOn(k) == ReportsTell(k) /\ SsaTells(k) /\ SsdTells(k) /\ UpdTells(k) /\ Shown(k)

UInv == TInv /\ \A k \in RealEntry : UpOn(k)

\* The way up, one level at a time; an entry keeps its key.
LEMMA UpSides ==
    ASSUME NEW e \in RealEntry
    PROVE  /\ CardSide(e) \in RealEntry /\ GlobSide(e) \in RealEntry /\ UserSide(e) \in RealEntry
           /\ AtPort(CardSide(e), Back(FeOf, CardSide(e).port)) = GlobSide(e)
           /\ AtPort(GlobSide(e), Back(PhyOf, GlobSide(e).port)) = UserSide(e)
           /\ \A k : SameKey(UserSide(e), k) <=> SameKey(e, k)
<1>1. /\ e.port \in UserPort
      /\ Back(HwOf, e.port) \in UserPort
      /\ Back(FeOf, Back(HwOf, e.port)) \in UserPort
      /\ Back(PhyOf, Back(FeOf, Back(HwOf, e.port))) \in UserPort
  BY ConvertsBack, ConversionAssumption DEF RealEntry, UserPort
<1> QED BY <1>1, AtPortIs DEF CardSide, GlobSide, UserSide, SameKey

\* What a relay makes of an event.
LEMMA EventUp ==
    ASSUME NEW f \in {PhyOf, FeOf, HwOf}, NEW v \in Event
    PROVE  LET d == [v EXCEPT !.entry.port = Back(f, @)]
           IN  /\ d \in Event /\ d.insert = v.insert
               /\ d.entry = AtPort(v.entry, Back(f, v.entry.port))
               /\ \A k : d \in EvAbout(k) <=> v \in EvAbout(k)
<1> DEFINE d == [v EXCEPT !.entry.port = Back(f, @)]
<1>1. v.entry \in RealEntry /\ v.entry.port \in UserPort /\ v.insert \in BOOLEAN
  BY DEF Event, RealEntry, UserPort
<1>2. Back(f, v.entry.port) \in UserPort
  BY <1>1, ConvertsBack, ConversionAssumption
<1>3. d.insert = v.insert /\ d.entry = AtPort(v.entry, Back(f, v.entry.port))
  BY <1>1 DEF AtPort, Event
<1>4. d \in Event
  BY <1>1, <1>2 DEF Event, RealEntry, UserPort
<1>5. d.entry.mac = v.entry.mac /\ d.entry.vlan = v.entry.vlan
  BY <1>1, <1>2, <1>3, AtPortIs
<1> HIDE DEF d
<1>6. \A k : d \in EvAbout(k) <=> v \in EvAbout(k)
  BY <1>4, <1>5 DEF EvAbout, SameKey
<1> QED BY <1>3, <1>4, <1>6 DEF d

\* What of the chip's table has a key are entries.
LEMMA ChipHits ==
    ASSUME TInv, NEW k
    PROVE  /\ Chip(k) \subseteq RealEntry
           /\ \A e \in Users(k) : SameKey(e, k)
<1>1. Chip(k) \subseteq RealEntry /\ \A e \in Chip(k) : SameKey(e, k)
  BY DEF Chip, KeyHits, TInv, TypeOK
<1> QED BY <1>1, UpSides DEF Users

\* NoEvent is about no address that there is.
LEMMA NoEventAboutNone == \A k : NoEvent \notin EvAbout(k)
BY DEF NoEvent, EvAbout, Event, RealEntry, ZeroEntry

LEMMA InitUp == Init => \A k \in RealEntry : UpOn(k)
<1> SUFFICES ASSUME Init, NEW k \in RealEntry PROVE UpOn(k)
  OBVIOUS
<1>1. \A A, m : ~Ends(<<>>, A, m)
  BY DEF Ends
<1>2. reports = <<>> /\ fromSsa = <<>> /\ fromSsd = <<>> /\ upd = NoEvent /\ dyns = {} /\ hwDyns = {}
  BY DEF Init
<1>3. KeyHits(dyns, k) = {} /\ Users(k) = {}
  BY <1>2 DEF KeyHits, Users, Chip
<1> QED BY <1>1, <1>2, <1>3, NoEventAboutNone
        DEF UpOn, ReportsTell, SsaTells, SsdTells, UpdTells, Shown

\* Addresses go from the chip: each has a report, and the others have none.
LEMMA GoesUp ==
    ASSUME UInv, NEW S, S \subseteq hwDyns, Goes(S),
           UNCHANGED <<dyns, upd, hasty, fromSsa, fromSsd>>, NEW k \in RealEntry
    PROVE  UpOn(k)'
<1>1. IsFiniteSet(S) /\ S \subseteq RealEntry /\ reports \in Seq(Event) /\ KeysUnique(hwDyns)
  BY FS_Subset DEF UInv, TInv, TablesOK, TypeOK
<1>2. PICK s \in Orders(S) : reports' = reports \o GoneReport(s)
  BY DEF Goes, GoneReport
<1>3. s \in Seq(S) /\ \A e \in S : \E n \in DOMAIN s : s[n] = e
  BY <1>1, <1>2, OrdersAre
<1>4. PICK t : t = GoneReport(s)
  OBVIOUS
<1>5. /\ t \in Seq(Event) /\ DOMAIN t = DOMAIN s
      /\ \A n \in DOMAIN t : t[n].insert = FALSE /\ t[n].entry = s[n] /\ s[n] \in S /\ t[n] \in Event
  <2>1. t \in Seq(Event)
    BY <1>1, <1>3, <1>4, GoneReportType
  <2>2. DOMAIN t = DOMAIN s /\ \A n \in DOMAIN s : t[n] = [insert |-> FALSE, entry |-> s[n]]
    BY <1>4 DEF GoneReport
  <2>3. \A n \in DOMAIN s : s[n] \in S
    <3>1. s \in Seq(S)
      BY <1>3
    <3> QED BY <3>1
  <2>4. \A n \in DOMAIN t : t[n] \in Event
    BY <2>1
  <2> QED BY <2>1, <2>2, <2>3, <2>4
<1>6. /\ Quiet(reports', EvAbout(k)) => Quiet(reports, EvAbout(k)) /\ Quiet(t, EvAbout(k))
      /\ \A v : Ends(reports', EvAbout(k), v) =>
            \/ Quiet(t, EvAbout(k)) /\ Ends(reports, EvAbout(k), v)
            \/ \E n \in DOMAIN t : t[n] = v
  <2>1. reports' = reports \o t
    BY <1>2, <1>4
  <2>2. t \in Seq(Event) /\ reports \in Seq(Event)
    BY <1>1, <1>5
  <2>3. PICK A : A = EvAbout(k)
    OBVIOUS
  <2>4. /\ Quiet(reports \o t, A) => Quiet(reports, A) /\ Quiet(t, A)
        /\ \A v : Ends(reports \o t, A, v) => \/ Quiet(t, A) /\ Ends(reports, A, v)
                                              \/ \E n \in DOMAIN t : t[n] = v
    BY <2>2, ConcatChannel
  <2> QED BY <2>1, <2>3, <2>4
<1>7. CASE \E e \in S : SameKey(e, k)
  <2>1. PICK e \in S : SameKey(e, k)
    BY <1>7
  <2>2. Chip(k)' = {}
    BY <1>1, <2>1 DEF Goes, Chip, KeyHits, KeysUnique, SameKey
  <2>3. PICK n \in DOMAIN t : t[n].entry = e /\ t[n] \in Event
    BY <1>3, <1>5, <2>1
  <2>4. ~Quiet(t, EvAbout(k))
    BY <2>1, <2>3 DEF Quiet, EvAbout
  <2>5. ReportsTell(k)'
    BY <1>5, <1>6, <2>2, <2>4 DEF ReportsTell, Tells
  <2> QED BY <1>6, <2>4, <2>5 DEF UpOn, SsaTells, SsdTells, UpdTells, Shown, QuietUp
<1>8. CASE \A e \in S : ~SameKey(e, k)
  <2>1. Chip(k)' = Chip(k)
    BY <1>8 DEF Goes, Chip, KeyHits
  <2>2. \A n \in DOMAIN t : t[n] \notin EvAbout(k)
    BY <1>5, <1>8 DEF EvAbout
  <2>3. \A v : Ends(reports', EvAbout(k), v) => Ends(reports, EvAbout(k), v)
    BY <1>6, <2>2 DEF Ends
  <2>4. Cards(k)' = Cards(k) /\ Globs(k)' = Globs(k) /\ Users(k)' = Users(k)
    BY <2>1 DEF Cards, Globs, Users
  <2> QED BY <1>6, <2>1, <2>3, <2>4
          DEF UInv, UpOn, ReportsTell, SsaTells, SsdTells, UpdTells, Shown, QuietUp
<1> QED BY <1>7, <1>8

\* The chip learns: the report tells what it has now.
LEMMA LearnUp ==
    ASSUME UInv, NEW e \in RealEntry, HwLearn(e), NEW k \in RealEntry
    PROVE  UpOn(k)'
<1> DEFINE r == [insert |-> TRUE, entry |-> e]
<1>1. /\ reports \in Seq(Event) /\ r \in Event /\ reports' = Append(reports, r)
      /\ hwDyns' = PutByKey(hwDyns, e) /\ UNCHANGED <<dyns, upd, hasty, fromSsa, fromSsd>>
      /\ hwDyns \subseteq RealEntry /\ KeysUnique(hwDyns)
  BY DEF HwLearn, UInv, TInv, TypeOK, TablesOK, Event, sscVars
<1>2. r \in EvAbout(k) <=> SameKey(e, k)
  BY <1>1 DEF EvAbout
<1>3. r.insert /\ r.entry = e
  OBVIOUS
<1> HIDE DEF r
<1>4. CASE SameKey(e, k)
  <2>1. Chip(k)' = {e}
    BY <1>1, <1>4, PutHits DEF Chip
  <2>2. ~Quiet(reports', EvAbout(k)) /\ \A v : Ends(reports', EvAbout(k), v) => v = r
    BY <1>1, <1>2, <1>4, AppendChannel
  <2>3. ReportsTell(k)'
    BY <1>3, <2>1, <2>2 DEF ReportsTell, Tells
  <2> QED BY <2>2, <2>3 DEF UpOn, SsaTells, SsdTells, UpdTells, Shown, QuietUp
<1>5. CASE ~SameKey(e, k)
  <2>1. Chip(k)' = Chip(k)
    BY <1>1, <1>5, PutHits DEF Chip
  <2>2. /\ Quiet(reports', EvAbout(k)) => Quiet(reports, EvAbout(k))
        /\ \A v : Ends(reports', EvAbout(k), v) => Ends(reports, EvAbout(k), v)
    BY <1>1, <1>2, <1>5, AppendChannel
  <2>3. Cards(k)' = Cards(k) /\ Globs(k)' = Globs(k) /\ Users(k)' = Users(k)
    BY <2>1 DEF Cards, Globs, Users
  <2> QED BY <1>1, <2>1, <2>2, <2>3
          DEF UInv, UpOn, ReportsTell, SsaTells, SsdTells, UpdTells, Shown, QuietUp
<1> QED BY <1>4, <1>5

\* A message is taken from the head of one channel and what a relay makes of it
\* is sent on the next.
LEMMA MoveUp ==
    ASSUME NEW s \in Seq(Event), s # <<>>, NEW t \in Seq(Event), NEW d \in Event, NEW A,
           d \in A <=> Head(s) \in A
    PROVE  /\ \A v : Ends(Tail(s), A, v) => Ends(s, A, v)
           /\ Quiet(Tail(s), A) =>
                IF d \in A
                THEN /\ Ends(s, A, Head(s)) /\ ~Quiet(Append(t, d), A)
                     /\ \A v : Ends(Append(t, d), A, v) => v = d
                ELSE /\ Quiet(s, A)
                     /\ Quiet(Append(t, d), A) => Quiet(t, A)
                     /\ \A v : Ends(Append(t, d), A, v) => Ends(t, A, v)
BY TailChannel, AppendChannel

LEMMA CallbackUp ==
    ASSUME UInv, Callback, NEW k \in RealEntry
    PROVE  UpOn(k)'
<1> DEFINE h == Head(reports)
           d == [h EXCEPT !.entry.port = Back(HwOf, @)]
<1>1. /\ reports \in Seq(Event) /\ reports # <<>> /\ fromSsa \in Seq(Event) /\ h \in Event
      /\ reports' = Tail(reports) /\ fromSsa' = Append(fromSsa, d)
      /\ UNCHANGED <<dyns, upd, hasty, fromSsd, hwDyns>>
  BY DEF Callback, UInv, TInv, TypeOK, sscVars, hwVars
<1>2. /\ d \in Event /\ d.insert = h.insert /\ d.entry = CardSide(h.entry)
      /\ d \in EvAbout(k) <=> h \in EvAbout(k)
  BY <1>1, EventUp DEF CardSide
<1> HIDE DEF d
<1>3. PICK A : A = EvAbout(k)
  OBVIOUS
<1>4. /\ \A v : Ends(reports', A, v) => Ends(reports, A, v)
      /\ Quiet(reports', A) =>
            IF d \in A
            THEN /\ Ends(reports, A, h) /\ ~Quiet(fromSsa', A)
                 /\ \A v : Ends(fromSsa', A, v) => v = d
            ELSE /\ Quiet(reports, A)
                 /\ Quiet(fromSsa', A) => Quiet(fromSsa, A)
                 /\ \A v : Ends(fromSsa', A, v) => Ends(fromSsa, A, v)
  BY <1>1, <1>2, <1>3, MoveUp
<1> HIDE DEF h
<1>5. /\ Chip(k)' = Chip(k) /\ Cards(k)' = Cards(k)
      /\ Globs(k)' = Globs(k) /\ Users(k)' = Users(k)
  BY <1>1 DEF Chip, Cards, Globs, Users
<1>6. CASE Quiet(reports', A) /\ d \in A
  <2>1. Tells(h, Chip(k))
    BY <1>3, <1>4, <1>6 DEF UInv, UpOn, ReportsTell
  <2>2. Tells(d, Cards(k))
    BY <1>2, <2>1 DEF Tells, Cards
  <2> QED BY <1>3, <1>4, <1>5, <1>6, <2>2
          DEF UpOn, ReportsTell, SsaTells, SsdTells, UpdTells, Shown, QuietUp, UInv
<1>7. CASE Quiet(reports', A) /\ d \notin A
  BY <1>1, <1>3, <1>4, <1>5, <1>7
     DEF UpOn, ReportsTell, SsaTells, SsdTells, UpdTells, Shown, QuietUp, UInv
<1>8. CASE ~Quiet(reports', A)
  BY <1>1, <1>3, <1>4, <1>5, <1>8
     DEF UpOn, ReportsTell, SsaTells, SsdTells, UpdTells, Shown, QuietUp, UInv
<1> QED BY <1>6, <1>7, <1>8

LEMMA SsdUp ==
    ASSUME UInv, SsdEvent, NEW k \in RealEntry
    PROVE  UpOn(k)'
<1> DEFINE h == Head(fromSsa)
           d == [h EXCEPT !.entry.port = Back(FeOf, @)]
<1>1. /\ fromSsa \in Seq(Event) /\ fromSsa # <<>> /\ fromSsd \in Seq(Event) /\ h \in Event
      /\ fromSsa' = Tail(fromSsa) /\ fromSsd' = Append(fromSsd, d)
      /\ UNCHANGED <<dyns, upd, hasty, reports, hwDyns>>
  BY DEF SsdEvent, UInv, TInv, TypeOK, sscVars, hwVars
<1>2. /\ d \in Event /\ d.insert = h.insert /\ h.insert \in BOOLEAN
      /\ d.entry = AtPort(h.entry, Back(FeOf, h.entry.port))
      /\ d \in EvAbout(k) <=> h \in EvAbout(k)
  <2>1. h.insert \in BOOLEAN
    BY <1>1 DEF Event
  <2> QED BY <1>1, <2>1, EventUp
<1> HIDE DEF d
<1>3. PICK A : A = EvAbout(k)
  OBVIOUS
<1>4. /\ \A v : Ends(fromSsa', A, v) => Ends(fromSsa, A, v)
      /\ Quiet(fromSsa', A) =>
            IF d \in A
            THEN /\ Ends(fromSsa, A, h) /\ ~Quiet(fromSsd', A)
                 /\ \A v : Ends(fromSsd', A, v) => v = d
            ELSE /\ Quiet(fromSsa, A)
                 /\ Quiet(fromSsd', A) => Quiet(fromSsd, A)
                 /\ \A v : Ends(fromSsd', A, v) => Ends(fromSsd, A, v)
  BY <1>1, <1>2, <1>3, MoveUp
<1> HIDE DEF h
<1>5. /\ Chip(k)' = Chip(k) /\ Cards(k)' = Cards(k)
      /\ Globs(k)' = Globs(k) /\ Users(k)' = Users(k)
  BY <1>1 DEF Chip, Cards, Globs, Users
<1>6. CASE Quiet(reports, A) /\ Quiet(fromSsa', A) /\ d \in A
  <2>1. Tells(h, Cards(k))
    BY <1>3, <1>4, <1>6 DEF UInv, UpOn, SsaTells
  <2>2. \A e \in Chip(k) : AtPort(CardSide(e), Back(FeOf, CardSide(e).port)) = GlobSide(e)
    BY ChipHits, UpSides DEF UInv
  <2>3. ASSUME h.insert PROVE Tells(d, Globs(k))
    <3>1. Cards(k) = {h.entry}
      BY <2>1, <2>3 DEF Tells
    <3>2. \A e \in Chip(k) : CardSide(e) = h.entry
      BY <3>1 DEF Cards
    <3>3. \E e : e \in Chip(k)
      BY <3>1 DEF Cards
    <3>4. \A e \in Chip(k) : GlobSide(e) = d.entry
      BY <1>2, <2>2, <3>2
    <3>5. Globs(k) = {d.entry}
      BY <3>3, <3>4 DEF Globs
    <3>6. d.insert
      BY <1>2, <2>3
    <3> QED BY <3>5, <3>6 DEF Tells
  <2>4. ASSUME ~h.insert PROVE Tells(d, Globs(k))
    <3>1. Cards(k) = {}
      BY <2>1, <2>4 DEF Tells
    <3>2. Globs(k) = {}
      BY <3>1 DEF Cards, Globs
    <3>3. ~d.insert
      BY <1>2, <2>4
    <3> QED BY <3>2, <3>3 DEF Tells
  <2>5. Tells(d, Globs(k))
    BY <1>2, <2>3, <2>4
  <2> QED BY <1>1, <1>3, <1>4, <1>5, <1>6, <2>5
          DEF UpOn, ReportsTell, SsaTells, SsdTells, UpdTells, Shown, QuietUp, UInv
<1>7. CASE Quiet(fromSsa', A) /\ d \notin A
  BY <1>1, <1>3, <1>4, <1>5, <1>7
     DEF UpOn, ReportsTell, SsaTells, SsdTells, UpdTells, Shown, QuietUp, UInv
<1>8. CASE ~Quiet(reports, A) \/ ~Quiet(fromSsa', A)
  BY <1>1, <1>3, <1>4, <1>5, <1>8
     DEF UpOn, ReportsTell, SsaTells, SsdTells, UpdTells, Shown, QuietUp, UInv
<1> QED BY <1>6, <1>7, <1>8

LEMMA ReceiveUp ==
    ASSUME UInv, UpdReceive, NEW k \in RealEntry
    PROVE  UpOn(k)'
<1> DEFINE h == Head(fromSsd)
           d == [h EXCEPT !.entry.port = Back(PhyOf, @)]
<1>1. /\ fromSsd \in Seq(Event) /\ fromSsd # <<>> /\ h \in Event /\ upd = NoEvent
      /\ fromSsd' = Tail(fromSsd) /\ upd' = d
      /\ UNCHANGED <<dyns, hasty, reports, fromSsa, hwDyns>>
  BY DEF UpdReceive, UInv, TInv, TypeOK, hwVars
<1>2. /\ d \in Event /\ d.insert = h.insert /\ h.insert \in BOOLEAN
      /\ d.entry = AtPort(h.entry, Back(PhyOf, h.entry.port))
      /\ d \in EvAbout(k) <=> h \in EvAbout(k)
  <2>1. h.insert \in BOOLEAN
    BY <1>1 DEF Event
  <2> QED BY <1>1, <2>1, EventUp
<1> HIDE DEF d
<1>3. PICK A : A = EvAbout(k)
  OBVIOUS
<1>4. /\ \A v : Ends(fromSsd', A, v) => Ends(fromSsd, A, v)
      /\ Quiet(fromSsd', A) /\ d \in A => Ends(fromSsd, A, h)
      /\ Quiet(fromSsd', A) /\ d \notin A => Quiet(fromSsd, A)
  BY <1>1, <1>2, <1>3, TailChannel
<1> HIDE DEF h
<1>5. /\ Chip(k)' = Chip(k) /\ Cards(k)' = Cards(k)
      /\ Globs(k)' = Globs(k) /\ Users(k)' = Users(k)
  BY <1>1 DEF Chip, Cards, Globs, Users
<1>6. upd \notin A
  BY <1>1, <1>3, NoEventAboutNone
<1>7. CASE Quiet(reports, A) /\ Quiet(fromSsa, A) /\ Quiet(fromSsd', A) /\ d \in A
  <2>1. Tells(h, Globs(k))
    BY <1>3, <1>4, <1>7 DEF UInv, UpOn, SsdTells
  <2>2. \A e \in Chip(k) : AtPort(GlobSide(e), Back(PhyOf, GlobSide(e).port)) = UserSide(e)
    BY ChipHits, UpSides DEF UInv
  <2>3. ASSUME h.insert PROVE Tells(d, Users(k))
    <3>1. Globs(k) = {h.entry}
      BY <2>1, <2>3 DEF Tells
    <3>2. \A e \in Chip(k) : GlobSide(e) = h.entry
      BY <3>1 DEF Globs
    <3>3. \E e : e \in Chip(k)
      BY <3>1 DEF Globs
    <3>4. \A e \in Chip(k) : UserSide(e) = d.entry
      BY <1>2, <2>2, <3>2
    <3>5. Users(k) = {d.entry}
      BY <3>3, <3>4 DEF Users
    <3>6. d.insert
      BY <1>2, <2>3
    <3> QED BY <3>5, <3>6 DEF Tells
  <2>4. ASSUME ~h.insert PROVE Tells(d, Users(k))
    <3>1. Globs(k) = {}
      BY <2>1, <2>4 DEF Tells
    <3>2. Users(k) = {}
      BY <3>1 DEF Globs, Users
    <3>3. ~d.insert
      BY <1>2, <2>4
    <3> QED BY <3>2, <3>3 DEF Tells
  <2>5. Tells(d, Users(k))
    BY <1>2, <2>3, <2>4
  <2> QED BY <1>1, <1>3, <1>4, <1>5, <1>7, <2>5
          DEF UpOn, ReportsTell, SsaTells, SsdTells, UpdTells, Shown, QuietUp, UInv
<1>8. CASE d \notin A
  BY <1>1, <1>3, <1>4, <1>5, <1>6, <1>8
     DEF UpOn, ReportsTell, SsaTells, SsdTells, UpdTells, Shown, QuietUp, UInv
<1>9. CASE ~Quiet(reports, A) \/ ~Quiet(fromSsa, A) \/ ~Quiet(fromSsd', A)
  BY <1>1, <1>3, <1>4, <1>5, <1>9
     DEF UpOn, ReportsTell, SsaTells, SsdTells, UpdTells, Shown, QuietUp, UInv
<1> QED BY <1>7, <1>8, <1>9

\* Where strncmp tells addresses apart it finds what memcmp finds.
LEMMA TextsFindKeys ==
    ASSUME TextsTell, NEW T, T \subseteq RealEntry, NEW e \in RealEntry
    PROVE  PutByText(T, e) = PutByKey(T, e)
<1>1. ASSUME NEW a \in T PROVE SameText(a, e) <=> SameKey(a, e)
  <2>1. a.mac \in Mac /\ e.mac \in Mac
    BY DEF RealEntry
  <2> QED BY <2>1 DEF TextsTell, SameText, SameKey
<1>2. TextHits(T, e) = KeyHits(T, e)
  BY <1>1 DEF TextHits, KeyHits
<1> QED BY <1>2 DEF PutByText, PutByKey

\* SSC stores the event.
LEMMA StoreUp ==
    ASSUME TextsTell, UInv, UpdStore, NEW k \in RealEntry
    PROVE  UpOn(k)'
<1>1. /\ upd \in Event /\ upd.entry \in RealEntry /\ upd.insert \in BOOLEAN
      /\ upd' = NoEvent /\ hasty' = hasty \ {upd.entry}
      /\ dyns \subseteq RealEntry /\ KeysUnique(dyns)
      /\ UNCHANGED <<reports, fromSsa, fromSsd, hwDyns>>
  BY DEF UpdStore, UInv, TInv, TypeOK, TablesOK, Event, hwVars
<1>2. dyns' = IF upd.insert THEN PutByKey(dyns, upd.entry) ELSE SscErase(dyns, upd.entry)
  BY <1>1, TextsFindKeys DEF UpdStore
<1>3. upd' \notin EvAbout(k)
  BY <1>1, NoEventAboutNone
<1>4. /\ Chip(k)' = Chip(k) /\ Cards(k)' = Cards(k)
      /\ Globs(k)' = Globs(k) /\ Users(k)' = Users(k)
  BY <1>1 DEF Chip, Cards, Globs, Users
<1>5. ReportsTell(k)' /\ SsaTells(k)' /\ SsdTells(k)' /\ UpdTells(k)'
  BY <1>1, <1>3, <1>4 DEF UInv, UpOn, ReportsTell, SsaTells, SsdTells, UpdTells
<1>6. ASSUME QuietUp(k), SameKey(upd.entry, k)
      PROVE  KeyHits(dyns', k) = Users(k)
  <2>1. Tells(upd, Users(k))
    BY <1>1, <1>6 DEF UInv, UpOn, UpdTells, EvAbout
  <2>2. ASSUME upd.insert PROVE KeyHits(dyns', k) = Users(k)
    <3>1. KeyHits(dyns', k) = {upd.entry}
      BY <1>1, <1>2, <1>6, <2>2, PutHits
    <3> QED BY <2>1, <2>2, <3>1 DEF Tells
  <2>3. ASSUME ~upd.insert PROVE KeyHits(dyns', k) = Users(k)
    <3>1. KeyHits(dyns', k) = {}
      BY <1>2, <1>6, <2>3 DEF SscErase, KeyHits, SameKey
    <3> QED BY <2>1, <2>3, <3>1 DEF Tells
  <2> QED BY <1>1, <2>2, <2>3
<1>7. ASSUME ~SameKey(upd.entry, k)
      PROVE  KeyHits(dyns', k) = KeyHits(dyns, k)
  <2>1. ASSUME upd.insert PROVE KeyHits(dyns', k) = KeyHits(dyns, k)
    BY <1>1, <1>2, <1>7, <2>1, PutHits
  <2>2. ASSUME ~upd.insert PROVE KeyHits(dyns', k) = KeyHits(dyns, k)
    BY <1>2, <1>7, <2>2 DEF SscErase, KeyHits, SameKey
  <2> QED BY <1>1, <2>1, <2>2
<1>8. Shown(k)'
  <2>1. QuietUp(k)' <=> QuietUp(k)
    BY <1>1 DEF QuietUp
  <2>2. CASE SameKey(upd.entry, k)
    BY <1>4, <1>6, <2>1, <2>2 DEF Shown
  <2>3. CASE ~SameKey(upd.entry, k)
    <3>1. upd \notin EvAbout(k)
      BY <2>3 DEF EvAbout
    <3>2. upd.entry \notin Users(k)
      BY <2>3, ChipHits DEF UInv
    <3> QED BY <1>1, <1>4, <1>7, <2>1, <2>3, <3>1, <3>2 DEF UInv, UpOn, Shown
  <2> QED BY <2>2, <2>3
<1> QED BY <1>5, <1>8 DEF UpOn

\* SSC carries a command out: what it clears although the chip has it is noted.
LEMMA ReaderUp ==
    ASSUME UInv, ReaderLocal, NEW k \in RealEntry
    PROVE  UpOn(k)'
<1>1. UNCHANGED <<reports, fromSsa, fromSsd, hwDyns, upd>>
  BY DEF ReaderLocal, hwVars
<1>2. PICK gone : /\ dyns' = dyns \ gone
                  /\ hasty' = hasty \cup (gone \cap {UserSide(e) : e \in hwDyns})
  <2>1. CASE SscClear(readerCmd)
    BY <2>1 DEF SscClear
  <2>2. CASE UNCHANGED <<dyns, hasty>>
    <3>1. dyns' = dyns \ {} /\ hasty' = hasty \cup ({} \cap {UserSide(e) : e \in hwDyns})
      BY <2>2
    <3> QED BY <3>1
  <2> QED BY <2>1, <2>2 DEF ReaderLocal, SscLocal
<1>3. /\ Chip(k)' = Chip(k) /\ Cards(k)' = Cards(k)
      /\ Globs(k)' = Globs(k) /\ Users(k)' = Users(k)
  BY <1>1 DEF Chip, Cards, Globs, Users
<1>4. ReportsTell(k)' /\ SsaTells(k)' /\ SsdTells(k)' /\ UpdTells(k)'
  BY <1>1, <1>3 DEF UInv, UpOn, ReportsTell, SsaTells, SsdTells, UpdTells, QuietUp
<1>5. Users(k) \subseteq {UserSide(e) : e \in hwDyns}
  BY DEF Users, Chip, KeyHits
<1>6. KeyHits(dyns', k) = KeyHits(dyns, k) \ gone
  BY <1>2 DEF KeyHits
<1>7. Shown(k)'
  BY <1>1, <1>2, <1>3, <1>5, <1>6 DEF UInv, UpOn, Shown, QuietUp
<1> QED BY <1>4, <1>7 DEF UpOn

\* What goes down does not touch any of this until it reaches the chip.
LEMMA OthersUp ==
    ASSUME UInv, NEW k \in RealEntry,
           UNCHANGED <<dyns, upd, hasty, reports, fromSsa, fromSsd, hwDyns>>
    PROVE  UpOn(k)'
<1>1. /\ Chip(k)' = Chip(k) /\ Cards(k)' = Cards(k)
      /\ Globs(k)' = Globs(k) /\ Users(k)' = Users(k)
  BY DEF Chip, Cards, Globs, Users
<1> QED BY <1>1 DEF UInv, UpOn, ReportsTell, SsaTells, SsdTells, UpdTells, Shown, QuietUp

LEMMA SsaUp ==
    ASSUME UInv, SsaCommand, NEW k \in RealEntry
    PROVE  UpOn(k)'
<1>1. UNCHANGED <<dyns, upd, hasty, fromSsa, fromSsd>>
  BY DEF SsaCommand, sscVars
<1>2. CASE \E S : S \subseteq hwDyns /\ Goes(S)
  BY <1>1, <1>2, GoesUp
<1>3. CASE UNCHANGED <<hwDyns, reports>>
  BY <1>1, <1>3, OthersUp
<1>4. (\E S : S \subseteq hwDyns /\ Goes(S)) \/ UNCHANGED <<hwDyns, reports>>
  <2> DEFINE m == Head(toSsa)
  <2>1. CASE SsaStatic(m.entry)
    <3>1. PICK hw : Goes(KeyHits(hwDyns, hw))
      BY <2>1 DEF SsaStatic
    <3> QED BY <3>1 DEF KeyHits
  <2>2. CASE SsaClear(m)
    BY <2>2 DEF SsaClear, Selected
  <2>3. CASE SsaAge(m) \/ SsaLearn(m)
    BY <2>3 DEF SsaAge, SsaLearn
  <2> QED BY <2>1, <2>2, <2>3 DEF SsaCommand
<1> QED BY <1>2, <1>3, <1>4

LEMMA StepUInv == TextsTell /\ UInv /\ [Next]_vars => UInv'
<1> SUFFICES ASSUME TextsTell, UInv, [Next]_vars PROVE UInv'
  OBVIOUS
<1>1. TInv'
  BY StepTInv DEF UInv
<1>2. ASSUME NEW k \in RealEntry PROVE UpOn(k)'
  <2>1. CASE (\E c \in Cmd : ReaderSend(c)) \/ SsdCommand \/ UNCHANGED vars
    <3>1. UNCHANGED <<dyns, upd, hasty, reports, fromSsa, fromSsd, hwDyns>>
      BY <2>1 DEF ReaderSend, SsdCommand, vars, sscVars, hwVars
    <3> QED BY <3>1, OthersUp
  <2>2. CASE \E e \in RealEntry : HwAge(e)
    <3>1. PICK e \in hwDyns : Goes({e})
      BY <2>2 DEF HwAge
    <3>2. {e} \subseteq hwDyns /\ UNCHANGED <<dyns, upd, hasty, fromSsa, fromSsd>>
      BY <2>2 DEF HwAge, sscVars
    <3> QED BY <3>1, <3>2, GoesUp
  <2>3. CASE \E e \in RealEntry : HwLearn(e)
    BY <2>3, LearnUp
  <2> QED BY <2>1, <2>2, <2>3, ReaderUp, ReceiveUp, StoreUp, SsdUp, SsaUp, CallbackUp DEF Next
<1> QED BY <1>1, <1>2 DEF UInv

\* Without events on their way, key for key, SSC has what the chip has.
LEMMA AtRestUp == UInv => NoPhantoms /\ OnlyHastyMissing
<1> SUFFICES ASSUME UInv, Rest
             PROVE  /\ dyns \subseteq {UserSide(e) : e \in hwDyns}
                    /\ {UserSide(e) : e \in hwDyns} \subseteq dyns \cup hasty
  BY DEF NoPhantoms, OnlyHastyMissing
<1>1. reports = <<>> /\ fromSsa = <<>> /\ fromSsd = <<>> /\ upd = NoEvent
  BY DEF Rest
<1>2. dyns \subseteq RealEntry /\ hwDyns \subseteq RealEntry
  BY DEF UInv, TInv, TypeOK
<1>3. \A k \in RealEntry : /\ KeyHits(dyns, k) \subseteq Users(k)
                           /\ Users(k) \subseteq KeyHits(dyns, k) \cup hasty
  <2> TAKE k \in RealEntry
  <2>1. QuietUp(k)
    BY <1>1 DEF QuietUp, Quiet
  <2> QED BY <1>1, <2>1, NoEventAboutNone DEF UInv, UpOn, Shown
<1>4. ASSUME NEW x \in dyns PROVE x \in {UserSide(e) : e \in hwDyns}
  <2>1. x \in KeyHits(dyns, x)
    BY DEF KeyHits, SameKey
  <2>2. x \in Users(x)
    BY <1>2, <1>3, <2>1
  <2> QED BY <2>2 DEF Users, Chip, KeyHits
<1>5. ASSUME NEW e \in hwDyns PROVE UserSide(e) \in dyns \cup hasty
  <2>1. e \in Chip(e)
    BY DEF Chip, KeyHits, SameKey
  <2>2. UserSide(e) \in Users(e)
    BY <2>1 DEF Users
  <2>3. UserSide(e) \in KeyHits(dyns, e) \cup hasty
    BY <1>2, <1>3, <2>2
  <2> QED BY <2>3 DEF KeyHits
<1> QED BY <1>4, <1>5

\* At rest SSC shows no dynamic address that the chip does not have on that
\* port, however commands and events crossed, as long as no two addresses agree
\* up to a zero octet.
THEOREM ChipHasShown ==
    ASSUME TextsTell
    PROVE  Spec => []NoPhantoms
<1>1. Init => UInv
  BY InitTInv, InitUp DEF UInv
<1>2. UInv /\ [Next]_vars => UInv'
  BY StepUInv
<1>3. UInv => NoPhantoms
  BY AtRestUp
<1> QED BY <1>1, <1>2, <1>3, PTL DEF Spec

\* And what it does not show of the chip's is what it cleared while the chip
\* had it.
THEOREM MissingIsCleared ==
    ASSUME TextsTell
    PROVE  Spec => []OnlyHastyMissing
<1>1. Init => UInv
  BY InitTInv, InitUp DEF UInv
<1>2. UInv /\ [Next]_vars => UInv'
  BY StepUInv
<1>3. UInv => OnlyHastyMissing
  BY AtRestUp
<1> QED BY <1>1, <1>2, <1>3, PTL DEF Spec

=============================================================================

---------------------------- MODULE PiPollProofs ----------------------------
(***************************************************************************)
(* Proofs about PiPoll, for every number of slots and of connections: its  *)
(* type invariant, that every descriptor in a slot is polled, that nothing *)
(* is read from a number that is not open, and that the connection SSC     *)
(* uses is never forgotten.                                                *)
(***************************************************************************)
EXTENDS PiPoll, FiniteSetTheorems, TLAPS

\* Only what poll covers is ever reported.
RevKnown == \A k \in 1 .. MaxClient : revents[k] => k <= maxi

\* What poll reported is open until the loop leaves: poll's answers are as old
\* as the round, but the one thread that closes descriptors then polls anew.
RevOpen ==
    pc \in {"accept", "fill", "scan", "read"} =>
        \A k \in 1 .. MaxClient : revents[k] => Open(slot[k]) \/ slot[k] = Std

\* The element that is read was reported; it is one of those polled.
Reading ==
    /\ pc = "read" => i <= maxi /\ revents[i]
    /\ pc = "clear" => i <= maxi

\* Connections are accepted in order; the one SSC uses is the last, so once
\* accepted it is what tmp holds.
Order ==
    /\ \A d \in Fd : owner[d] <= accepted
    /\ pc = "accept" => accepted < conns
    /\ \A d \in Fd : Live(owner[d]) => d = tmp

IInv == TypeOK /\ SlotsPolled /\ RevKnown /\ RevOpen /\ Reading /\ Order

-----------------------------------------------------------------------------
\* The three readings of the invariant.
THEOREM IInvImplies == IInv => ReadsOpen /\ NotForgotten
<1> USE MaxClientAssumption, MaxConnAssumption
<1>1. IInv => ReadsOpen
  BY DEF IInv, TypeOK, Reading, RevOpen, ReadsOpen
<1>2. IInv => NotForgotten
  BY DEF IInv, Order, NotForgotten
<1> QED BY <1>1, <1>2

THEOREM InitIInv == Init => IInv
<1> SUFFICES ASSUME Init PROVE IInv
  OBVIOUS
<1> USE MaxClientAssumption, MaxConnAssumption DEF Init
<1>1. TypeOK
  <2>1. PICK d \in {Free, Std} :
            slot = [k \in 1 .. MaxClient |-> IF k = MaxClient THEN d ELSE Free]
    OBVIOUS
  <2>2. slot \in [1 .. MaxClient -> Fd \cup {Free, Std}]
    BY <2>1
  <2>3. revents \in [0 .. MaxClient -> BOOLEAN] /\ owner \in [Fd -> Conn \cup {0}]
    OBVIOUS
  <2>4. /\ maxi \in 0 .. MaxClient /\ tmp \in Fd \cup {Free} /\ nReady \in Int
        /\ pc = "poll" /\ i \in 1 .. MaxClient + 1 /\ conns \in 0 .. MaxConn
        /\ accepted \in 0 .. conns /\ ended \subseteq Conn /\ unread \subseteq Conn
    OBVIOUS
  <2>5. typed \in BOOLEAN
    OBVIOUS
  <2> QED BY <2>2, <2>3, <2>4, <2>5 DEF TypeOK
<1>2. SlotsPolled /\ RevKnown /\ RevOpen /\ Reading
  BY DEF SlotsPolled, RevKnown, RevOpen, Reading, Slot, Free
<1>3. Order
  BY DEF Order, Live, Conn, Fd
<1> QED BY <1>1, <1>2, <1>3 DEF IInv

\* What SSC and the terminal do.
LEMMA EnvironmentStep == IInv /\ Environment => IInv'
<1> SUFFICES ASSUME IInv, Environment PROVE IInv'
  OBVIOUS
<1> USE MaxClientAssumption, MaxConnAssumption
<1>1. CASE SscConnect
  <2>1. TypeOK'
    BY <1>1 DEF IInv, TypeOK, SscConnect, threadVars, Fd, Conn
  <2>2. (SlotsPolled /\ RevKnown /\ RevOpen /\ Reading)'
    BY <1>1 DEF IInv, SscConnect, threadVars, SlotsPolled, RevKnown, RevOpen, Reading, Open
  <2>3. Order'
    BY <1>1 DEF IInv, TypeOK, Order, SscConnect, threadVars, Live, Fd, Conn
  <2> QED BY <2>1, <2>2, <2>3 DEF IInv
<1>2. CASE SscSend
  BY <1>2 DEF IInv, TypeOK, SscSend, threadVars, SlotsPolled, RevKnown, RevOpen, Reading,
              Open, Order, Live
<1>3. CASE SscEnd
  BY <1>3 DEF IInv, TypeOK, SscEnd, threadVars, SlotsPolled, RevKnown, RevOpen, Reading,
              Open, Order, Live
<1>4. CASE Type
  BY <1>4 DEF IInv, TypeOK, Type, threadVars, SlotsPolled, RevKnown, RevOpen, Reading,
              Open, Order, Live
<1> QED BY <1>1, <1>2, <1>3, <1>4 DEF Environment

\* poll and accept.
LEMMA PollStep == IInv /\ (PollReturns \/ AcceptClient \/ AcceptFails) => IInv'
<1> SUFFICES ASSUME IInv, PollReturns \/ AcceptClient \/ AcceptFails PROVE IInv'
  OBVIOUS
<1> USE MaxClientAssumption, MaxConnAssumption
<1>1. CASE PollReturns
  <2> DEFINE n == Cardinality({k \in 1 .. maxi : Reported(slot[k])})
                     + (IF accepted < conns THEN 1 ELSE 0)
  <2>1. /\ nReady' = n /\ n > 0
        /\ revents' = [k \in 0 .. MaxClient |->
                          IF k = 0 THEN accepted < conns
                          ELSE IF k <= maxi THEN Readable(slot[k]) ELSE revents[k]]
        /\ pc' = IF accepted < conns THEN "accept" ELSE "fill"
        /\ UNCHANGED <<slot, maxi, tmp, i, netVars>>
    BY <1>1 DEF PollReturns
  <2>2. n \in Int
    <3>1. 1 .. maxi \subseteq 1 .. MaxClient /\ maxi \in Nat
      BY DEF IInv, TypeOK
    <3>2. IsFiniteSet(1 .. maxi) /\ Cardinality(1 .. maxi) \in Nat
      BY <3>1, FS_Interval, FS_CardinalityType
    <3>3. Cardinality({k \in 1 .. maxi : Reported(slot[k])}) \in Nat
      BY <3>2, FS_Subset, FS_CardinalityType
    <3> QED BY <3>3
  <2> HIDE DEF n
  <2>3. \A k \in 1 .. MaxClient : revents'[k] => k <= maxi /\ Readable(slot[k])
    BY <2>1 DEF IInv, TypeOK, RevKnown
  <2>4. TypeOK'
    <3>1. \A k \in 0 .. MaxClient :
              (IF k = 0 THEN accepted < conns
               ELSE IF k <= maxi THEN Readable(slot[k]) ELSE revents[k]) \in BOOLEAN
      <4> SUFFICES ASSUME NEW k \in 0 .. MaxClient
                   PROVE  (IF k = 0 THEN accepted < conns
                           ELSE IF k <= maxi THEN Readable(slot[k]) ELSE revents[k])
                              \in BOOLEAN
        OBVIOUS
      <4>1. revents[k] \in BOOLEAN
        BY DEF IInv, TypeOK
      <4>2. Readable(slot[k]) \in BOOLEAN
        BY Zenon DEF Readable
      <4>3. (accepted < conns) \in BOOLEAN
        BY DEF IInv, TypeOK
      <4> QED BY <4>1, <4>2, <4>3, Zenon
    <3>2. revents' \in [0 .. MaxClient -> BOOLEAN]
      BY <2>1, <3>1, Zenon
    <3> QED BY <2>1, <2>2, <3>2 DEF IInv, TypeOK, netVars
  <2>5. (SlotsPolled /\ RevKnown /\ RevOpen /\ Reading)'
    BY <2>1, <2>3 DEF IInv, SlotsPolled, RevKnown, RevOpen, Reading, Readable, Open, netVars
  <2>6. Order'
    BY <2>1 DEF IInv, Order, Live, netVars
  <2> QED BY <2>4, <2>5, <2>6 DEF IInv
<1>2. CASE AcceptClient
  <2>1. PICK d \in Fd : /\ IsLowestClosed(d)
                        /\ tmp' = d
                        /\ owner' = [owner EXCEPT ![d] = accepted + 1]
    BY <1>2 DEF AcceptClient
  <2>2. /\ pc = "accept" /\ pc' = "fill" /\ accepted' = accepted + 1
        /\ UNCHANGED <<slot, revents, maxi, nReady, i, conns, ended, unread, typed>>
    BY <1>2 DEF AcceptClient
  <2>3. accepted + 1 \in Conn /\ accepted + 1 <= conns
    BY <2>2 DEF IInv, TypeOK, Order, Conn
  <2>4. TypeOK'
    BY <2>1, <2>2, <2>3 DEF IInv, TypeOK
  <2>5. \A e \in Fd : Open(e) => Open(e)'
    BY <2>1, <2>3 DEF IInv, TypeOK, Open, Conn
  <2>6. (SlotsPolled /\ RevKnown /\ RevOpen /\ Reading)'
    BY <2>2, <2>5 DEF IInv, SlotsPolled, RevKnown, RevOpen, Reading, Open
  <2>7. Order'
    BY <2>1, <2>2, <2>3 DEF IInv, TypeOK, Order, Live, Conn
  <2> QED BY <2>4, <2>6, <2>7 DEF IInv
<1>3. CASE AcceptFails
  <2>1. TypeOK'
    BY <1>3 DEF IInv, TypeOK, AcceptFails, netVars, Free
  <2>2. (SlotsPolled /\ RevKnown /\ RevOpen /\ Reading)'
    BY <1>3 DEF IInv, AcceptFails, netVars, SlotsPolled, RevKnown, RevOpen, Reading
  <2>3. Order'
    BY <1>3 DEF IInv, TypeOK, AcceptFails, netVars, Order, Live, Conn, Fd
  <2> QED BY <2>1, <2>2, <2>3 DEF IInv
<1> QED BY <1>1, <1>2, <1>3

\* The slot that is filled was free, so poll has not reported it.
LEMMA FillStep == IInv /\ Fill => IInv'
<1> SUFFICES ASSUME IInv, Fill PROVE IInv'
  OBVIOUS
<1> USE MaxClientAssumption, MaxConnAssumption
<1>1. PICK k \in 1 .. MaxClient :
          /\ IsFirstFree(k)
          /\ slot' = IF k = MaxClient THEN slot ELSE [slot EXCEPT ![k] = tmp]
          /\ maxi' = IF k > maxi THEN k ELSE maxi
  BY DEF Fill
<1>2. /\ pc = "fill" /\ i' = 1 /\ nReady' = nReady - 1 /\ pc' \in {"poll", "scan"}
      /\ UNCHANGED <<revents, tmp, netVars>>
  BY DEF Fill, CountOne
<1>3. TypeOK'
  BY <1>1, <1>2 DEF IInv, TypeOK, netVars
<1>4. maxi <= maxi' /\ k <= maxi'
  BY <1>1 DEF IInv, TypeOK
<1>5. SlotsPolled'
  BY <1>1, <1>4 DEF IInv, TypeOK, SlotsPolled, Slot
<1>6. RevKnown'
  BY <1>2, <1>3, <1>4 DEF IInv, TypeOK, RevKnown
<1>7. RevOpen'
  <2>1. k # MaxClient => ~revents[k]
    BY <1>1, <1>2 DEF IInv, RevOpen, IsFirstFree, Open, Fd, Free, Std
  <2> QED BY <1>1, <1>2, <2>1 DEF IInv, TypeOK, RevOpen, Open, netVars
<1>8. (Reading /\ Order)'
  BY <1>2 DEF IInv, Reading, Order, Live, netVars
<1> QED BY <1>3, <1>5, <1>6, <1>7, <1>8 DEF IInv

\* The loop over the slots.
LEMMA LoopStep == IInv /\ (Scan \/ ReadMessage \/ ReadStd) => IInv'
<1> SUFFICES ASSUME IInv, Scan \/ ReadMessage \/ ReadStd PROVE IInv'
  OBVIOUS
<1> USE MaxClientAssumption, MaxConnAssumption
<1>1. CASE Scan
  <2>1. \/ pc' = "poll" /\ i' = i
        \/ pc' = "read" /\ i' \in ToRead
    BY <1>1 DEF Scan
  <2>2. i' \in ToRead => i' \in 1 .. MaxClient /\ i' <= maxi /\ revents[i']
    BY DEF IInv, TypeOK, ToRead
  <2>3. pc = "scan" /\ UNCHANGED <<slot, revents, maxi, tmp, nReady, netVars>>
    BY <1>1 DEF Scan
  <2>4. TypeOK'
    BY <2>1, <2>2, <2>3 DEF IInv, TypeOK, netVars
  <2>5. (SlotsPolled /\ RevKnown /\ RevOpen /\ Reading)'
    BY <2>1, <2>2, <2>3 DEF IInv, SlotsPolled, RevKnown, RevOpen, Reading, Open, netVars
  <2>6. Order'
    BY <2>1, <2>3 DEF IInv, Order, Live, netVars
  <2> QED BY <2>4, <2>5, <2>6 DEF IInv
<1>2. CASE ReadMessage \/ ReadStd
  <2>1. /\ pc = "read" /\ pc' \in {"poll", "scan"} /\ nReady' = nReady - 1 /\ i' = i + 1
        /\ unread' \subseteq unread /\ typed' \in {typed, FALSE}
        /\ UNCHANGED <<slot, revents, maxi, tmp, owner, conns, accepted, ended>>
    BY <1>2 DEF ReadMessage, ReadStd, AfterMessage, CountOne
  <2>2. TypeOK'
    <3>1. i' \in 1 .. MaxClient + 1 /\ nReady' \in Int
      BY <2>1 DEF IInv, TypeOK, Reading
    <3>2. typed' \in BOOLEAN
      BY <2>1, Zenon DEF IInv, TypeOK
    <3>3. unread' \subseteq Conn
      BY <2>1 DEF IInv, TypeOK
    <3> QED BY <2>1, <3>1, <3>2, <3>3 DEF IInv, TypeOK
  <2>3. (SlotsPolled /\ RevKnown /\ RevOpen /\ Reading)'
    BY <2>1 DEF IInv, SlotsPolled, RevKnown, RevOpen, Reading, Open
  <2>4. Order'
    BY <2>1 DEF IInv, Order, Live
  <2> QED BY <2>2, <2>3, <2>4 DEF IInv
<1> QED BY <1>1, <1>2

\* The end of a connection.
LEMMA CloseStep == IInv /\ (ReadEnd \/ ClearSlot) => IInv'
<1> SUFFICES ASSUME IInv, ReadEnd \/ ClearSlot PROVE IInv'
  OBVIOUS
<1> USE MaxClientAssumption, MaxConnAssumption
<1>1. CASE ReadEnd
  <2>1. TypeOK'
    BY <1>1 DEF IInv, TypeOK, ReadEnd
  <2>2. (SlotsPolled /\ RevKnown /\ RevOpen /\ Reading)'
    BY <1>1 DEF IInv, ReadEnd, SlotsPolled, RevKnown, RevOpen, Reading
  <2>3. Order'
    BY <1>1 DEF IInv, TypeOK, ReadEnd, Order, Live, Conn
  <2> QED BY <2>1, <2>2, <2>3 DEF IInv
<1>2. CASE ClearSlot
  <2>1. TypeOK'
    BY <1>2 DEF IInv, TypeOK, ClearSlot, netVars
  <2>2. (SlotsPolled /\ RevKnown /\ RevOpen /\ Reading)'
    BY <1>2 DEF IInv, TypeOK, ClearSlot, SlotsPolled, RevKnown, RevOpen, Reading, Slot
  <2>3. Order'
    BY <1>2 DEF IInv, ClearSlot, Order, Live, netVars
  <2> QED BY <2>1, <2>2, <2>3 DEF IInv
<1> QED BY <1>1, <1>2

LEMMA StepIInv == IInv /\ [Next]_vars => IInv'
<1>1. IInv /\ UNCHANGED vars => IInv'
  BY DEF IInv, TypeOK, SlotsPolled, RevKnown, RevOpen, Reading, Order, Open, Live,
         vars, threadVars, netVars
<1>2. IInv /\ Thread => IInv'
  BY PollStep, FillStep, LoopStep, CloseStep DEF Thread
<1> QED BY <1>1, <1>2, EnvironmentStep DEF Next

\* The invariant.
THEOREM SpecIInv == Spec => []IInv
BY InitIInv, StepIInv, PTL DEF Spec

\* The variables keep their types; element MaxClient is the last one touched.
THEOREM PollTypes == Spec => []TypeOK
BY SpecIInv, PTL DEF IInv

\* Every descriptor in a slot is polled.
THEOREM PollCoversSlots == Spec => []SlotsPolled
BY SpecIInv, PTL DEF IInv

\* Nothing is read from, and so closed by, a number that is not open.
THEOREM PollReadsOpen == Spec => []ReadsOpen
BY SpecIInv, IInvImplies, PTL

\* The connection SSC uses is in a slot or in tmp once it is accepted.
THEOREM PollRemembers == Spec => []NotForgotten
BY SpecIInv, IInvImplies, PTL
=============================================================================

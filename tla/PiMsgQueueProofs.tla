-------------------------- MODULE PiMsgQueueProofs --------------------------
(***************************************************************************)
(* Proofs about PiMsgQueue, for every number of messages.                  *)
(*                                                                         *)
(* Everything rests on who holds msg_mutex: while deal_info_func does, the *)
(* queue changes by its own hand only, so that the message it deletes is   *)
(* the one it has handled, and g_data can be compared with the queue again *)
(* when the mutex is released.                                             *)
(***************************************************************************)
EXTENDS PiMsgQueue, SequenceTheorems, TLAPS

\* deal_info_func holds the mutex from the test of g_data to its reset.
MutexHeld ==
    msgMutex = "deal" <=> dealPc \in {"test", "drain", "handle", "delete"}

\* Outside of a batch the flag and the queue agree; within one it is set.
FlagAgrees ==
    IF dealPc \in {"drain", "handle", "delete"}
    THEN gData = 1
    ELSE gData = 1 <=> queue # <<>>

\* The message being handled is the first of the queue.
InHand ==
    /\ dealPc \in {"handle", "delete"} => queue # <<>>
    /\ dealPc = "delete" => handled # <<>> /\ handled[Len(handled)] = Head(queue)

PollHolds == pollPc = "lock" => arrived \in Msg

IInv ==
    /\ TypeOK
    /\ MutexHeld
    /\ FlagAgrees
    /\ InHand
    /\ PollHolds
    /\ NoLostWakeup

-----------------------------------------------------------------------------
LEMMA InitIInv == Init => IInv
<1> SUFFICES ASSUME Init PROVE IInv
  OBVIOUS
<1>1. <<>> \in Seq(Msg) /\ 0 \in 0 .. MaxMsgs
  BY MaxMsgsAssumption
<1> QED
  BY <1>1 DEF Init, IInv, TypeOK, MutexHeld, FlagAgrees, InHand, PollHolds,
              NoLostWakeup

LEMMA PollIInv == ASSUME IInv, Poll PROVE IInv'
<1> USE MaxMsgsAssumption
        DEF IInv, TypeOK, MutexHeld, FlagAgrees, InHand, PollHolds, NoLostWakeup, Msg
<1>1. CASE PollRead
  BY <1>1 DEF PollRead
<1>2. CASE PollNoMem
  BY <1>2 DEF PollNoMem
<1>3. CASE PollInsert
  <2>1. /\ queue' = <<arrived>> \o queue
        /\ queue' \in Seq(Msg)
        /\ queue' # <<>>
    BY <1>3 DEF PollInsert
  <2> QED
    BY <1>3, <2>1 DEF PollInsert
<1>4. CASE PollSignal
  BY <1>4 DEF PollSignal
<1> QED
  BY <1>1, <1>2, <1>3, <1>4 DEF Poll

LEMMA DealIInv == ASSUME IInv, DealRuns \/ SpuriousWakeup PROVE IInv'
<1> USE DEF IInv, TypeOK, MutexHeld, FlagAgrees, InHand, PollHolds, NoLostWakeup
<1>1. CASE DealLock
  BY <1>1 DEF DealLock
<1>2. CASE DealWait
  BY <1>2 DEF DealWait
<1>3. CASE SpuriousWakeup
  BY <1>3 DEF SpuriousWakeup
<1>4. CASE DealBatch
  BY <1>4 DEF DealBatch
<1>5. CASE DealGet
  BY <1>5 DEF DealGet
<1>6. CASE DealHandle
  <2>1. Head(queue) \in Msg
    BY <1>6 DEF DealHandle
  <2>2. /\ handled' \in Seq(Msg)
        /\ handled' # <<>>
        /\ handled'[Len(handled')] = Head(queue)
    BY <1>6, <2>1 DEF DealHandle
  <2> QED
    BY <1>6, <2>2 DEF DealHandle
<1>7. CASE DealDelete
  <2>1. queue' \in Seq(Msg)
    BY <1>7 DEF DealDelete
  <2> QED
    BY <1>7, <2>1 DEF DealDelete
<1>8. CASE DealDone
  BY <1>8 DEF DealDone
<1> QED
  BY <1>1, <1>2, <1>3, <1>4, <1>5, <1>6, <1>7, <1>8 DEF DealRuns

LEMMA Invariance == Spec => []IInv
<1>1. IInv /\ UNCHANGED vars => IInv'
  BY DEF vars, IInv, TypeOK, MutexHeld, FlagAgrees, InHand, PollHolds, NoLostWakeup
<1>2. IInv /\ [Next]_vars => IInv'
  BY <1>1, PollIInv, DealIInv DEF Next
<1> QED
  BY InitIInv, <1>2, PTL DEF Spec

-----------------------------------------------------------------------------
\* Every variable of the queue keeps its type.
THEOREM TypeCorrect == Spec => []TypeOK
<1>1. IInv => TypeOK
  BY DEF IInv
<1> QED
  BY <1>1, Invariance, PTL

\* g_data tells whether there is a message whenever the mutex is free.
THEOREM FlagStaysRight == Spec => []FlagTellsQueue
<1>1. IInv => FlagTellsQueue
  BY DEF IInv, TypeOK, MutexHeld, FlagAgrees, FlagTellsQueue
<1> QED
  BY <1>1, Invariance, PTL

\* Signalling after the unlock loses no wakeup: deal_info_func never sleeps
\* beside a message with no signal on the way.
THEOREM WakeupNotLost == Spec => []NoLostWakeup
<1>1. IInv => NoLostWakeup
  BY DEF IInv
<1> QED
  BY <1>1, Invariance, PTL

\* The message that is freed is the one that has been handled.
THEOREM DeletionIsRight == Spec => []DeletesHandled
<1>1. IInv => DeletesHandled
  BY DEF IInv, InHand, DeletesHandled
<1> QED
  BY <1>1, Invariance, PTL

-----------------------------------------------------------------------------
(* Every message once. *)

\* No message stands twice in the queue or among the handled ones, nor in both,
\* but for the one that is about to be deleted; the message the poll thread has
\* in its hand is in neither.
OneLife ==
    /\ \A i, j \in DOMAIN handled : handled[i] = handled[j] => i = j
    /\ \A i, j \in DOMAIN queue : queue[i] = queue[j] => i = j
    /\ \A i \in DOMAIN handled, j \in DOMAIN queue :
            handled[i] = queue[j] => dealPc = "delete" /\ j = 1
    /\ pollPc = "lock" => arrived \notin HandledSet \cup QueuedSet

\* What has been read is somewhere.
Accounted ==
    1 .. arrived = dropped \cup HandledSet \cup QueuedSet
                      \cup (IF pollPc = "lock" THEN {arrived} ELSE {})

OInv == OneLife /\ Accounted

LEMMA InitOInv == Init => OInv
BY DEF Init, OInv, OneLife, Accounted, HandledSet, QueuedSet

\* A new message has a number that no other has; it goes to the head of a queue
\* of which deal_info_func has nothing in its hand.
LEMMA PollOInv ==
    ASSUME IInv, OInv, Poll
    PROVE  OInv'
<1>0. /\ arrived \in Nat /\ queue \in Seq(Msg) /\ handled \in Seq(Msg)
      /\ \A m \in HandledSet \cup QueuedSet : m \in 1 .. arrived
  <2>1. arrived \in Nat /\ queue \in Seq(Msg) /\ handled \in Seq(Msg)
    BY MaxMsgsAssumption DEF IInv, TypeOK
  <2> QED BY <2>1 DEF OInv, Accounted
<1>1. CASE PollRead
  <2>1. arrived' = arrived + 1 /\ UNCHANGED <<queue, handled, dropped, dealPc>>
        /\ pollPc = "read" /\ pollPc' = "lock"
    BY <1>1 DEF PollRead
  <2>2. HandledSet' = HandledSet /\ QueuedSet' = QueuedSet
    BY <2>1 DEF HandledSet, QueuedSet
  <2>3. 1 .. arrived' = 1 .. arrived \cup {arrived'} /\ arrived' \notin 1 .. arrived
    BY <1>0, <2>1
  <2>4. OneLife'
    BY <1>0, <2>1, <2>2, <2>3 DEF OInv, OneLife
  <2>5. Accounted'
    BY <2>1, <2>2, <2>3 DEF OInv, Accounted
  <2> QED BY <2>4, <2>5 DEF OInv
<1>2. CASE PollNoMem
  <2>1. arrived' = arrived + 1 /\ dropped' = dropped \cup {arrived'}
        /\ UNCHANGED <<queue, handled, dealPc, pollPc>> /\ pollPc = "read"
    BY <1>2 DEF PollNoMem
  <2>2. HandledSet' = HandledSet /\ QueuedSet' = QueuedSet
    BY <2>1 DEF HandledSet, QueuedSet
  <2>3. 1 .. arrived' = 1 .. arrived \cup {arrived'}
    BY <1>0, <2>1
  <2>4. OneLife'
    BY <2>1, <2>2 DEF OInv, OneLife
  <2>5. Accounted'
    BY <2>1, <2>2, <2>3 DEF OInv, Accounted
  <2> QED BY <2>4, <2>5 DEF OInv
<1>3. CASE PollInsert
  <2>1. /\ queue' = <<arrived>> \o queue /\ pollPc = "lock" /\ pollPc' = "signal"
        /\ UNCHANGED <<handled, dropped, arrived, dealPc>> /\ dealPc # "delete"
    BY <1>3 DEF PollInsert, IInv, MutexHeld
  <2>2. /\ Len(queue') = Len(queue) + 1 /\ DOMAIN queue' = 1 .. Len(queue) + 1
        /\ DOMAIN queue = 1 .. Len(queue) /\ Len(queue) \in Nat
        /\ queue'[1] = arrived
        /\ \A j \in 1 .. Len(queue) : queue'[j + 1] = queue[j]
    BY <1>0, <2>1
  <2>3. \A j \in DOMAIN queue' : j = 1 \/ (j - 1 \in DOMAIN queue /\ queue'[j] = queue[j - 1])
    <3>1. ASSUME NEW j \in DOMAIN queue', j # 1
          PROVE  j - 1 \in 1 .. Len(queue) /\ queue'[(j - 1) + 1] = queue[j - 1]
      BY <2>2, <3>1
    <3> QED BY <2>2, <3>1
  <2>4. QueuedSet' = QueuedSet \cup {arrived} /\ HandledSet' = HandledSet
    <3>1. QueuedSet' \subseteq QueuedSet \cup {arrived}
      BY <2>2, <2>3 DEF QueuedSet
    <3>2. QueuedSet \subseteq QueuedSet'
      <4>1. ASSUME NEW j \in 1 .. Len(queue) PROVE j + 1 \in DOMAIN queue' /\ queue'[j + 1] = queue[j]
        BY <2>2
      <4> QED BY <2>2, <4>1 DEF QueuedSet
    <3>3. arrived \in QueuedSet'
      BY <2>2 DEF QueuedSet
    <3> QED BY <2>1, <3>1, <3>2, <3>3 DEF HandledSet
  <2>5. arrived \notin HandledSet \cup QueuedSet
    BY <2>1 DEF OInv, OneLife
  <2>6. \A i, j \in DOMAIN queue' : queue'[i] = queue'[j] => i = j
    <3>1. SUFFICES ASSUME NEW i \in DOMAIN queue', NEW j \in DOMAIN queue', queue'[i] = queue'[j]
                   PROVE  i = j
      OBVIOUS
    <3>2. CASE i # 1 /\ j # 1
      <4>1. i - 1 \in DOMAIN queue /\ j - 1 \in DOMAIN queue /\ queue[i - 1] = queue[j - 1]
        BY <2>3, <3>1, <3>2
      <4>2. i - 1 = j - 1
        BY <4>1 DEF OInv, OneLife
      <4> QED BY <2>2, <4>2
    <3>3. \A k \in DOMAIN queue' : k # 1 => queue'[k] # arrived
      BY <2>3, <2>5 DEF QueuedSet
    <3> QED BY <2>2, <3>1, <3>2, <3>3
  <2>7. \A i \in DOMAIN handled', j \in DOMAIN queue' : handled'[i] # queue'[j]
    <3>1. SUFFICES ASSUME NEW i \in DOMAIN handled, NEW j \in DOMAIN queue'
                   PROVE  handled[i] # queue'[j]
      BY <2>1
    <3>2. CASE j = 1
      BY <2>2, <2>5, <3>2 DEF HandledSet
    <3>3. CASE j # 1
      BY <2>1, <2>3, <3>3 DEF OInv, OneLife
    <3> QED BY <3>2, <3>3
  <2>8. OneLife'
    BY <2>1, <2>6, <2>7 DEF OInv, OneLife
  <2>9. Accounted'
    BY <2>1, <2>4 DEF OInv, Accounted
  <2> QED BY <2>8, <2>9 DEF OInv
<1>4. CASE PollSignal
  <2>1. UNCHANGED <<queue, handled, dropped, arrived>> /\ pollPc = "signal" /\ pollPc' = "read"
        /\ (dealPc = "delete" => dealPc' = "delete")
    BY <1>4 DEF PollSignal
  <2>2. HandledSet' = HandledSet /\ QueuedSet' = QueuedSet
    BY <2>1 DEF HandledSet, QueuedSet
  <2> QED BY <2>1, <2>2 DEF OInv, OneLife, Accounted
<1> QED BY <1>1, <1>2, <1>3, <1>4 DEF Poll

\* The message that is handled was in the queue only, and leaves it next.
LEMMA DealOInv ==
    ASSUME IInv, OInv, DealRuns \/ SpuriousWakeup
    PROVE  OInv'
<1>0. /\ queue \in Seq(Msg) /\ handled \in Seq(Msg)
      /\ DOMAIN queue = 1 .. Len(queue) /\ DOMAIN handled = 1 .. Len(handled)
      /\ Len(queue) \in Nat /\ Len(handled) \in Nat
  BY DEF IInv, TypeOK
<1>1. CASE DealHandle
  <2>1. /\ dealPc = "handle" /\ dealPc' = "delete" /\ handled' = Append(handled, Head(queue))
        /\ UNCHANGED <<queue, dropped, arrived, pollPc>>
        /\ queue # <<>>
    BY <1>1 DEF DealHandle, IInv, InHand
  <2>2. Head(queue) = queue[1] /\ 1 \in DOMAIN queue /\ queue[1] \in Msg
    BY <1>0, <2>1
  <2>3. /\ DOMAIN handled' = 1 .. Len(handled) + 1
        /\ \A i \in 1 .. Len(handled) : handled'[i] = handled[i]
        /\ handled'[Len(handled) + 1] = queue[1]
    BY <1>0, <2>1, <2>2
  <2>4. \A i \in DOMAIN handled' :
            i = Len(handled) + 1 \/ (i \in DOMAIN handled /\ handled'[i] = handled[i])
    BY <1>0, <2>3
  <2>5. HandledSet' = HandledSet \cup {queue[1]} /\ QueuedSet' = QueuedSet /\ queue[1] \in QueuedSet
    <3>1. HandledSet' \subseteq HandledSet \cup {queue[1]}
      BY <2>3, <2>4 DEF HandledSet
    <3>2. HandledSet \subseteq HandledSet'
      <4>1. ASSUME NEW i \in DOMAIN handled PROVE i \in DOMAIN handled' /\ handled'[i] = handled[i]
        BY <1>0, <2>3
      <4> QED BY <4>1 DEF HandledSet
    <3>3. queue[1] \in HandledSet'
      <4>1. Len(handled) + 1 \in DOMAIN handled'
        BY <1>0, <2>3
      <4> QED BY <2>3, <4>1 DEF HandledSet
    <3> QED BY <2>1, <2>2, <3>1, <3>2, <3>3 DEF QueuedSet
  <2>6. \A i \in DOMAIN handled, j \in DOMAIN queue : handled[i] # queue[j]
    BY <2>1 DEF OInv, OneLife
  <2>7. \A i, j \in DOMAIN handled' : handled'[i] = handled'[j] => i = j
    BY <2>2, <2>3, <2>4, <2>6 DEF OInv, OneLife
  <2>8. \A i \in DOMAIN handled', j \in DOMAIN queue' : handled'[i] = queue'[j] => j = 1
    <3>1. \A j \in DOMAIN queue : queue[1] = queue[j] => j = 1
      BY <2>2 DEF OInv, OneLife
    <3> QED BY <2>1, <2>3, <2>4, <2>6, <3>1
  <2>9. OneLife'
    BY <2>1, <2>5, <2>7, <2>8 DEF OInv, OneLife
  <2>10. Accounted'
    BY <2>1, <2>5 DEF OInv, Accounted
  <2> QED BY <2>9, <2>10 DEF OInv
<1>2. CASE DealDelete
  <2>1. /\ dealPc = "delete" /\ queue' = Tail(queue) /\ queue # <<>>
        /\ UNCHANGED <<handled, dropped, arrived, pollPc>>
        /\ handled # <<>> /\ handled[Len(handled)] = Head(queue)
    BY <1>2 DEF DealDelete, IInv, InHand
  <2>2. /\ DOMAIN queue' = 1 .. Len(queue) - 1
        /\ \A j \in 1 .. Len(queue) - 1 : queue'[j] = queue[j + 1]
        /\ Head(queue) = queue[1] /\ Len(handled) \in DOMAIN handled /\ Len(queue) >= 1
    BY <1>0, <2>1
  <2>3. \A j \in DOMAIN queue' : j + 1 \in DOMAIN queue /\ j + 1 # 1 /\ queue'[j] = queue[j + 1]
    BY <1>0, <2>2
  <2>4. \A j \in DOMAIN queue : j # 1 => j - 1 \in DOMAIN queue' /\ queue'[j - 1] = queue[j]
    <3>1. ASSUME NEW j \in DOMAIN queue, j # 1
          PROVE  j - 1 \in 1 .. Len(queue) - 1 /\ (j - 1) + 1 = j
      BY <1>0, <3>1
    <3> QED BY <2>2, <3>1
  <2>5. HandledSet' = HandledSet /\ QueuedSet' \subseteq QueuedSet /\ queue[1] \in HandledSet
        /\ QueuedSet \subseteq QueuedSet' \cup {queue[1]}
    <3>1. QueuedSet' \subseteq QueuedSet
      BY <2>3 DEF QueuedSet
    <3>2. QueuedSet \subseteq QueuedSet' \cup {queue[1]}
      BY <2>4 DEF QueuedSet
    <3> QED BY <2>1, <2>2, <3>1, <3>2 DEF HandledSet
  <2>6. \A i, j \in DOMAIN queue' : queue'[i] = queue'[j] => i = j
    <3>1. SUFFICES ASSUME NEW i \in DOMAIN queue', NEW j \in DOMAIN queue', queue'[i] = queue'[j]
                   PROVE  i = j
      OBVIOUS
    <3>2. i + 1 = j + 1
      BY <2>3, <3>1 DEF OInv, OneLife
    <3> QED BY <2>2, <3>2
  <2>7. \A i \in DOMAIN handled', j \in DOMAIN queue' : handled'[i] # queue'[j]
    BY <2>1, <2>3 DEF OInv, OneLife
  <2>8. OneLife'
    BY <2>1, <2>5, <2>6, <2>7 DEF OInv, OneLife
  <2>9. Accounted'
    BY <2>1, <2>5 DEF OInv, Accounted
  <2> QED BY <2>8, <2>9 DEF OInv
<1>3. CASE DealLock \/ DealWait \/ DealBatch \/ DealGet \/ DealDone \/ SpuriousWakeup
  <2>1. UNCHANGED <<queue, handled, dropped, arrived, pollPc>> /\ dealPc # "delete"
    BY <1>3 DEF DealLock, DealWait, DealBatch, DealGet, DealDone, SpuriousWakeup
  <2>2. HandledSet' = HandledSet /\ QueuedSet' = QueuedSet
    BY <2>1 DEF HandledSet, QueuedSet
  <2> QED BY <2>1, <2>2 DEF OInv, OneLife, Accounted
<1> QED BY <1>1, <1>2, <1>3 DEF DealRuns

LEMMA StepOInv == IInv /\ OInv /\ [Next]_vars => OInv'
<1>1. OInv /\ UNCHANGED vars => OInv'
  BY DEF vars, OInv, OneLife, Accounted, HandledSet, QueuedSet
<1> QED BY <1>1, PollOInv, DealOInv DEF Next

\* No message is handled twice, and every message that was read is dropped,
\* in the poll thread's hand, queued or handled, for any number of messages.
THEOREM HandledOnce == Spec => []EachOnce
<1>1. OInv => EachOnce
  BY DEF OInv, OneLife, Accounted, EachOnce
<1> QED
  BY <1>1, InitOInv, StepOInv, Invariance, PTL DEF Spec

-----------------------------------------------------------------------------
(* The order. *)

\* The places of the queue whose message has not been handled yet.
Waiting == {q \in DOMAIN queue : dealPc = "delete" => q # 1}

Drains == dealPc \in {"drain", "handle", "delete"}

\* The queue holds the newest message first.  What has been handled, followed
\* by what waits, never has a message between two others of which the one was
\* overtaken by and the other overtook it; and what waits outside of a batch is
\* newer than all that has been handled.
OrderInv ==
    /\ \A i, j, k \in DOMAIN handled : i < j /\ j < k =>
            /\ handled[i] < handled[j] => handled[i] < handled[k]
            /\ handled[j] < handled[k] => handled[i] < handled[k]
    /\ \A i, j \in DOMAIN handled, q \in Waiting : i < j =>
            /\ handled[i] < handled[j] => handled[i] < queue[q]
            /\ handled[j] < queue[q] => handled[i] < queue[q]
    /\ \A i \in DOMAIN handled, p, q \in Waiting :
            p < q /\ handled[i] < queue[p] => handled[i] < queue[q]
    /\ \A p, q \in DOMAIN queue : p < q => queue[q] < queue[p]
    /\ ~Drains => \A i \in DOMAIN handled, q \in DOMAIN queue : handled[i] < queue[q]

LEMMA InitOrder == Init => OrderInv
BY DEF Init, OrderInv, Waiting

LEMMA InsertOrder ==
    ASSUME IInv, OInv, OrderInv, PollInsert
    PROVE  OrderInv'
<1>1. /\ queue \in Seq(Msg) /\ handled \in Seq(Msg) /\ arrived \in Msg /\ Msg \subseteq Nat
      /\ DOMAIN queue = 1 .. Len(queue) /\ Len(queue) \in Nat
      /\ DOMAIN handled = 1 .. Len(handled) /\ Len(handled) \in Nat
      /\ queue' = <<arrived>> \o queue /\ pollPc = "lock" /\ handled' = handled
      /\ dealPc' = dealPc /\ ~Drains
  BY MaxMsgsAssumption DEF PollInsert, IInv, TypeOK, MutexHeld, PollHolds, Drains, Msg
<1>2. /\ DOMAIN queue' = 1 .. Len(queue) + 1
      /\ queue'[1] = arrived
      /\ \A q \in 1 .. Len(queue) : queue'[q + 1] = queue[q]
  BY <1>1
<1>3. \A q \in DOMAIN queue' : q # 1 => q - 1 \in DOMAIN queue /\ queue'[q] = queue[q - 1]
  <2>1. ASSUME NEW q \in DOMAIN queue', q # 1
        PROVE  q - 1 \in 1 .. Len(queue) /\ queue'[(q - 1) + 1] = queue[q - 1]
    BY <1>1, <1>2, <2>1
  <2> QED BY <1>1, <1>2, <2>1
<1>4. \A i \in DOMAIN handled : handled[i] \in Nat /\ handled[i] < arrived
  <2>1. \A m \in HandledSet \cup QueuedSet : m \in 1 .. arrived /\ m # arrived
    BY <1>1 DEF OInv, OneLife, Accounted
  <2>2. \A i \in DOMAIN handled : handled[i] \in HandledSet
    BY <1>1 DEF HandledSet
  <2>3. arrived \in Nat
    BY <1>1
  <2>4. \A m \in 1 .. arrived : m # arrived => m \in Nat /\ m < arrived
    BY <2>3
  <2> QED BY <2>1, <2>2, <2>4
<1>5. \A q \in DOMAIN queue : queue[q] \in Nat /\ queue[q] < arrived
  <2>1. \A m \in HandledSet \cup QueuedSet : m \in 1 .. arrived /\ m # arrived
    BY <1>1 DEF OInv, OneLife, Accounted
  <2>2. \A q \in DOMAIN queue : queue[q] \in QueuedSet
    BY <1>1 DEF QueuedSet
  <2>3. arrived \in Nat
    BY <1>1
  <2>4. \A m \in 1 .. arrived : m # arrived => m \in Nat /\ m < arrived
    BY <2>3
  <2> QED BY <2>1, <2>2, <2>4
<1>6. \A i \in DOMAIN handled, q \in DOMAIN queue' : handled[i] < queue'[q]
  <2>1. SUFFICES ASSUME NEW i \in DOMAIN handled, NEW q \in DOMAIN queue'
                 PROVE  handled[i] < queue'[q]
    OBVIOUS
  <2>2. CASE q = 1
    BY <1>2, <1>4, <2>2
  <2>3. CASE q # 1
    <3>1. q - 1 \in DOMAIN queue /\ queue'[q] = queue[q - 1]
      BY <1>3, <2>3
    <3>2. handled[i] < queue[q - 1]
      BY <1>1, <3>1 DEF OrderInv
    <3> QED BY <3>1, <3>2
  <2> QED BY <2>2, <2>3
<1>7. \A p, q \in DOMAIN queue' : p < q => queue'[q] < queue'[p]
  <2>1. SUFFICES ASSUME NEW p \in DOMAIN queue', NEW q \in DOMAIN queue', p < q
                 PROVE  queue'[q] < queue'[p]
    OBVIOUS
  <2>2. q # 1 /\ q - 1 \in DOMAIN queue /\ queue'[q] = queue[q - 1]
    <3>1. q # 1
      BY <1>1, <1>2, <2>1
    <3> QED BY <1>3, <3>1
  <2>3. CASE p = 1
    BY <1>2, <1>5, <2>2, <2>3
  <2>4. CASE p # 1
    <3>1. p - 1 \in DOMAIN queue /\ queue'[p] = queue[p - 1] /\ p - 1 < q - 1
      BY <1>1, <1>2, <1>3, <2>1, <2>4
    <3>2. queue[q - 1] < queue[p - 1]
      BY <2>2, <3>1 DEF OrderInv
    <3> QED BY <2>2, <3>1, <3>2
  <2> QED BY <2>3, <2>4
<1>8. Waiting' \subseteq DOMAIN queue'
  BY DEF Waiting
<1> QED BY <1>1, <1>6, <1>7, <1>8 DEF OrderInv

LEMMA HandleOrder ==
    ASSUME IInv, OrderInv, DealHandle
    PROVE  OrderInv'
<1>1. /\ queue \in Seq(Msg) /\ handled \in Seq(Msg) /\ Msg \subseteq Nat
      /\ DOMAIN queue = 1 .. Len(queue) /\ Len(queue) \in Nat
      /\ DOMAIN handled = 1 .. Len(handled) /\ Len(handled) \in Nat
      /\ dealPc = "handle" /\ dealPc' = "delete" /\ queue # <<>>
      /\ handled' = Append(handled, Head(queue)) /\ queue' = queue
  BY DEF DealHandle, IInv, TypeOK, InHand, Msg
<1> DEFINE n == Len(handled) + 1
<1>2. /\ 1 \in DOMAIN queue /\ Head(queue) = queue[1] /\ queue[1] \in Msg
      /\ DOMAIN handled' = 1 .. n
      /\ handled'[n] = queue[1]
      /\ \A i \in 1 .. Len(handled) : handled'[i] = handled[i]
  BY <1>1
<1>3. \A i \in DOMAIN handled' : i = n \/ (i \in DOMAIN handled /\ handled'[i] = handled[i])
  BY <1>1, <1>2
<1>4. Waiting = DOMAIN queue /\ Waiting' = DOMAIN queue \ {1}
  BY <1>1 DEF Waiting
<1>5. /\ \A i \in DOMAIN handled : handled[i] \in Nat /\ i < n
      /\ \A q \in DOMAIN queue : queue[q] \in Nat
      /\ \A q \in Waiting' : 1 < q /\ queue[q] < queue[1]
  <2>1. \A q \in Waiting' : q \in DOMAIN queue /\ 1 < q
    BY <1>1, <1>4
  <2>2. \A q \in DOMAIN queue : 1 < q => queue[q] < queue[1]
    BY <1>2 DEF OrderInv
  <2>3. \A i \in DOMAIN handled : handled[i] \in Msg /\ i < n
    BY <1>1
  <2>4. \A q \in DOMAIN queue : queue[q] \in Msg
    BY <1>1
  <2> QED BY <1>1, <2>1, <2>2, <2>3, <2>4
<1>6. ASSUME NEW i \in DOMAIN handled', NEW j \in DOMAIN handled', NEW k \in DOMAIN handled',
             i < j, j < k
      PROVE  /\ handled'[i] < handled'[j] => handled'[i] < handled'[k]
             /\ handled'[j] < handled'[k] => handled'[i] < handled'[k]
  <2>1. i # n /\ j # n
    BY <1>1, <1>2, <1>6
  <2>2. i \in DOMAIN handled /\ j \in DOMAIN handled /\ handled'[i] = handled[i] /\ handled'[j] = handled[j]
    BY <1>3, <2>1
  <2>3. CASE k = n
    BY <1>2, <1>4, <1>6, <2>2, <2>3 DEF OrderInv
  <2>4. CASE k # n
    BY <1>3, <1>6, <2>2, <2>4 DEF OrderInv
  <2> QED BY <2>3, <2>4
<1>7. ASSUME NEW i \in DOMAIN handled', NEW j \in DOMAIN handled', NEW q \in Waiting', i < j
      PROVE  /\ handled'[i] < handled'[j] => handled'[i] < queue[q]
             /\ handled'[j] < queue[q] => handled'[i] < queue[q]
  <2>1. i # n
    BY <1>1, <1>2, <1>7
  <2>2. i \in DOMAIN handled /\ handled'[i] = handled[i] /\ q \in Waiting
    BY <1>3, <1>4, <2>1
  <2>3. CASE j = n
    <3>1. handled'[j] = queue[1] /\ ~(queue[1] < queue[q])
      BY <1>2, <1>4, <1>5, <2>2, <2>3
    <3>2. handled[i] < queue[1] => handled[i] < queue[q]
      BY <1>2, <1>4, <1>5, <2>2 DEF OrderInv
    <3> QED BY <2>2, <3>1, <3>2
  <2>4. CASE j # n
    BY <1>3, <1>7, <2>2, <2>4 DEF OrderInv
  <2> QED BY <2>3, <2>4
<1>8. ASSUME NEW i \in DOMAIN handled', NEW p \in Waiting', NEW q \in Waiting', p < q,
             handled'[i] < queue[p]
      PROVE  handled'[i] < queue[q]
  <2>1. i # n
    BY <1>2, <1>4, <1>5, <1>8
  <2> QED BY <1>3, <1>4, <1>8, <2>1 DEF OrderInv
<1>9. Drains'
  BY <1>1 DEF Drains
<1> QED BY <1>1, <1>6, <1>7, <1>8, <1>9 DEF OrderInv

LEMMA DeleteOrder ==
    ASSUME IInv, OrderInv, DealDelete
    PROVE  OrderInv'
<1>1. /\ queue \in Seq(Msg)
      /\ DOMAIN queue = 1 .. Len(queue) /\ Len(queue) \in Nat
      /\ dealPc = "delete" /\ dealPc' = "drain" /\ queue # <<>>
      /\ queue' = Tail(queue) /\ handled' = handled
  BY DEF DealDelete, IInv, TypeOK, InHand
<1>2. /\ DOMAIN queue' = 1 .. Len(queue) - 1
      /\ \A q \in 1 .. Len(queue) - 1 : queue'[q] = queue[q + 1]
  BY <1>1
<1>3. \A q \in DOMAIN queue' : q \in Int /\ q + 1 \in Waiting /\ q + 1 \in DOMAIN queue /\ queue'[q] = queue[q + 1]
  BY <1>1, <1>2 DEF Waiting
<1>4. Waiting' = DOMAIN queue' /\ Drains'
  BY <1>1 DEF Waiting, Drains
<1>5. \A p, q \in DOMAIN queue' : p < q => p + 1 < q + 1
  BY <1>3
<1> QED BY <1>1, <1>3, <1>4, <1>5 DEF OrderInv

LEMMA StepOrder == IInv /\ OInv /\ OrderInv /\ [Next]_vars => OrderInv'
<1> SUFFICES ASSUME IInv, OInv, OrderInv, [Next]_vars PROVE OrderInv'
  OBVIOUS
<1>1. CASE PollRead \/ PollNoMem \/ DealLock \/ DealWait \/ DealBatch \/ DealGet
           \/ SpuriousWakeup \/ UNCHANGED vars
  <2>1. UNCHANGED <<queue, handled>> /\ Waiting' = Waiting
    BY <1>1 DEF PollRead, PollNoMem, DealLock, DealWait, DealBatch, DealGet, SpuriousWakeup,
                vars, Waiting
  <2>2. ~Drains' => ~Drains
    BY <1>1 DEF PollRead, PollNoMem, DealLock, DealWait, DealBatch, DealGet, SpuriousWakeup,
                vars, Drains
  <2> QED BY <2>1, <2>2 DEF OrderInv
<1>2. CASE PollSignal
  <2>1. UNCHANGED <<queue, handled>> /\ Waiting' = Waiting /\ (~Drains' => ~Drains)
    BY <1>2 DEF PollSignal, Waiting, Drains
  <2> QED BY <2>1 DEF OrderInv
<1>3. CASE DealDone
  <2>1. UNCHANGED <<queue, handled>> /\ Waiting' = Waiting /\ DOMAIN queue = {}
    BY <1>3 DEF DealDone, Waiting
  <2> QED BY <2>1 DEF OrderInv
<1> QED BY <1>1, <1>2, <1>3, InsertOrder, HandleOrder, DeleteOrder DEF Next, Poll, DealRuns

\* Messages overtake each other within a batch only, for any number of them.
THEOREM OrderAcrossBatches == Spec => []BatchOrder
<1>1. IInv /\ OrderInv => BatchOrder
  <2> SUFFICES ASSUME IInv, OrderInv,
                      NEW i \in DOMAIN handled, NEW j \in DOMAIN handled, NEW k \in DOMAIN handled,
                      i < j, j < k
               PROVE  /\ ~(handled[k] < handled[i] /\ handled[i] < handled[j])
                      /\ ~(handled[j] < handled[k] /\ handled[k] < handled[i])
    BY DEF BatchOrder
  <2>1. handled[i] \in Nat /\ handled[j] \in Nat /\ handled[k] \in Nat
    BY MaxMsgsAssumption DEF IInv, TypeOK, Msg
  <2>2. /\ handled[i] < handled[j] => handled[i] < handled[k]
        /\ handled[j] < handled[k] => handled[i] < handled[k]
    BY DEF OrderInv
  <2> QED BY <2>1, <2>2
<1> QED
  BY <1>1, InitOInv, StepOInv, InitOrder, StepOrder, Invariance, PTL DEF Spec

-----------------------------------------------------------------------------
(* The refinement of BatchQueue. *)

boxOf == IF dealPc = "delete" THEN Tail(queue) ELSE queue

drainingOf ==
    \/ dealPc \in {"drain", "handle"} /\ queue # <<>>
    \/ dealPc = "delete" /\ Tail(queue) # <<>>

LEMMA InitRefines == Init => Box!BoxInit
BY DEF Init, Box!BoxInit

\* Only three steps are steps of the abstract queue.
LEMMA StepRefines == IInv /\ [Next]_vars => [Box!BoxNext]_(Box!boxVars)
<1> SUFFICES ASSUME IInv, [Next]_vars
             PROVE  Box!BoxNext \/ UNCHANGED <<boxOf, drainingOf>>
  BY DEF Box!boxVars, boxOf, drainingOf
<1> USE DEF boxOf, drainingOf
<1>1. CASE PollInsert
  <2>1. arrived \in Msg
    BY <1>1 DEF PollInsert, IInv, PollHolds
  <2>2. dealPc \notin {"drain", "handle", "delete"} /\ dealPc' = dealPc
    BY <1>1 DEF PollInsert, IInv, MutexHeld
  <2>3. queue' = <<arrived>> \o queue
    BY <1>1 DEF PollInsert
  <2>4. Box!Put(arrived)
    BY <2>2, <2>3 DEF Box!Put
  <2> QED
    BY <2>1, <2>4 DEF Box!BoxNext
<1>2. CASE DealBatch
  <2>1. queue # <<>>
    BY <1>2 DEF DealBatch, IInv, FlagAgrees
  <2>2. Box!Begin
    BY <1>2, <2>1 DEF DealBatch, Box!Begin
  <2> QED
    BY <2>2 DEF Box!BoxNext
<1>3. CASE DealHandle
  <2>1. queue # <<>>
    BY <1>3 DEF DealHandle, IInv, InHand
  <2>2. Box!Take
    BY <1>3, <2>1 DEF DealHandle, Box!Take
  <2> QED
    BY <2>2 DEF Box!BoxNext
<1>4. CASE PollRead \/ PollNoMem
  BY <1>4 DEF PollRead, PollNoMem
<1>5. CASE PollSignal
  BY <1>5 DEF PollSignal
<1>6. CASE DealLock \/ DealWait \/ SpuriousWakeup
  BY <1>6 DEF DealLock, DealWait, SpuriousWakeup
<1>7. CASE DealGet
  BY <1>7 DEF DealGet
<1>8. CASE DealDelete
  BY <1>8 DEF DealDelete
<1>9. CASE DealDone
  BY <1>9 DEF DealDone
<1>10. CASE UNCHANGED vars
  BY <1>10 DEF vars
<1> QED
  BY <1>1, <1>2, <1>3, <1>4, <1>5, <1>6, <1>7, <1>8, <1>9, <1>10
     DEF Next, Poll, DealRuns

\* The two threads of PI implement the stack that is emptied in batches.
THEOREM Implementation == Spec => ImplementsBatchQueue
<1> QED
  BY InitRefines, StepRefines, Invariance, PTL
     DEF Spec, ImplementsBatchQueue, Box!BoxSpec
=============================================================================

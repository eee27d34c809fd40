----------------------------- MODULE PiMsgQueue -----------------------------
(***************************************************************************)
(* The queue between PI's two receiving threads: the poll thread           *)
(* cli_comm_ssc_init, which reads the socket and queues what it has read   *)
(* (pi_recevie_msg_ssc), and the thread deal_info_func, which waits on     *)
(* msg_cond and handles what is queued.  msg_mutex guards the queue and    *)
(* the flag g_data.                                                        *)
(*                                                                         *)
(* Messages are numbered in the order in which they are read.  What the    *)
(* handler of a message does is not part of this module.                   *)
(***************************************************************************)
EXTENDS Integers, Sequences, FiniteSets

CONSTANT MaxMsgs    \* bound: how many messages SSC sends

ASSUME MaxMsgsAssumption == MaxMsgs \in Nat

VARIABLES
    queue,      \* g_msg_head, head->next first
    gData,      \* g_data
    msgMutex,   \* who holds msg_mutex: "free" or "deal"
    pollPc,     \* where the poll thread is
    dealPc,     \* where the thread deal_info_func is
    arrived,    \* the number of messages read so far
    dropped,    \* the messages for which there was no memory
    handled     \* the messages handled so far, in that order

vars == <<queue, gData, msgMutex, pollPc, dealPc, arrived, dropped, handled>>

Msg == 1 .. MaxMsgs

TypeOK ==
    /\ queue \in Seq(Msg)
    /\ gData \in {0, 1}
    /\ msgMutex \in {"free", "deal"}
    /\ pollPc \in {"read", "lock", "signal"}
    /\ dealPc \in {"lock", "test", "wait", "relock", "drain", "handle", "delete"}
    /\ arrived \in 0 .. MaxMsgs
    /\ dropped \subseteq Msg
    /\ handled \in Seq(Msg)

Init ==
    /\ queue = <<>>
    /\ gData = 0
    /\ msgMutex = "free"
    /\ pollPc = "read"
    /\ dealPc = "lock"
    /\ arrived = 0
    /\ dropped = {}
    /\ handled = <<>>

-----------------------------------------------------------------------------
(* The poll thread. *)

\* A message is read and copied ...
PollRead ==
    /\ pollPc = "read"
    /\ arrived < MaxMsgs
    /\ arrived' = arrived + 1
    /\ pollPc' = "lock"
    /\ UNCHANGED <<queue, gData, msgMutex, dealPc, dropped, handled>>

\* ... or dropped, when one of the two allocations fails.
PollNoMem ==
    /\ pollPc = "read"
    /\ arrived < MaxMsgs
    /\ arrived' = arrived + 1
    /\ dropped' = dropped \cup {arrived + 1}
    /\ UNCHANGED <<queue, gData, msgMutex, pollPc, dealPc, handled>>

\* Mutants: without the mutex; without setting g_data; g_data as a counter.
PollInsertUnlocked ==
    /\ pollPc = "lock"
    /\ queue' = <<arrived>> \o queue
    /\ gData' = 1
    /\ pollPc' = "signal"
    /\ UNCHANGED <<msgMutex, dealPc, arrived, dropped, handled>>

PollInsertSilently ==
    /\ pollPc = "lock"
    /\ msgMutex = "free"
    /\ queue' = <<arrived>> \o queue
    /\ pollPc' = "signal"
    /\ UNCHANGED <<gData, msgMutex, dealPc, arrived, dropped, handled>>

PollInsertCounting ==
    /\ pollPc = "lock"
    /\ msgMutex = "free"
    /\ queue' = <<arrived>> \o queue
    /\ gData' = gData + 1
    /\ pollPc' = "signal"
    /\ UNCHANGED <<msgMutex, dealPc, arrived, dropped, handled>>

\* The critical section: list_add links at the head, and g_data is set.
PollInsert ==
    /\ pollPc = "lock"
    /\ msgMutex = "free"
    /\ queue' = <<arrived>> \o queue
    /\ gData' = 1
    /\ pollPc' = "signal"
    /\ UNCHANGED <<msgMutex, dealPc, arrived, dropped, handled>>

\* Mutant: no signal.
PollSignalMissing ==
    /\ pollPc = "signal"
    /\ pollPc' = "read"
    /\ UNCHANGED <<queue, gData, msgMutex, dealPc, arrived, dropped, handled>>

\* The signal comes after the unlock; with nobody waiting it is lost.
PollSignal ==
    /\ pollPc = "signal"
    /\ pollPc' = "read"
    /\ dealPc' = IF dealPc = "wait" THEN "relock" ELSE dealPc
    /\ UNCHANGED <<queue, gData, msgMutex, arrived, dropped, handled>>

-----------------------------------------------------------------------------
(* The thread deal_info_func. *)

\* At the top of the loop, and on the way out of pthread_cond_wait.
DealLock ==
    /\ dealPc \in {"lock", "relock"}
    /\ msgMutex = "free"
    /\ msgMutex' = "deal"
    /\ dealPc' = "test"
    /\ UNCHANGED <<queue, gData, pollPc, arrived, dropped, handled>>

\* pthread_cond_wait releases the mutex and waits in one step.
DealWait ==
    /\ dealPc = "test"
    /\ gData = 0
    /\ msgMutex' = "free"
    /\ dealPc' = "wait"
    /\ UNCHANGED <<queue, gData, pollPc, arrived, dropped, handled>>

\* POSIX lets pthread_cond_wait return without a signal.
SpuriousWakeup ==
    /\ dealPc = "wait"
    /\ dealPc' = "relock"
    /\ UNCHANGED <<queue, gData, msgMutex, pollPc, arrived, dropped, handled>>

DealBatch ==
    /\ dealPc = "test"
    /\ gData = 1
    /\ dealPc' = "drain"
    /\ UNCHANGED <<queue, gData, msgMutex, pollPc, arrived, dropped, handled>>

\* get_msg_data: the first message of the queue, which stays linked.
DealGet ==
    /\ dealPc = "drain"
    /\ queue # <<>>
    /\ dealPc' = "handle"
    /\ UNCHANGED <<queue, gData, msgMutex, pollPc, arrived, dropped, handled>>

\* The switch over the message's type.
DealHandle ==
    /\ dealPc = "handle"
    /\ handled' = Append(handled, Head(queue))
    /\ dealPc' = "delete"
    /\ UNCHANGED <<queue, gData, msgMutex, pollPc, arrived, dropped>>

\* Mutants: the last message is unlinked; one message is handled per wakeup.
DealDeleteLast ==
    /\ dealPc = "delete"
    /\ queue' = SubSeq(queue, 1, Len(queue) - 1)
    /\ dealPc' = "drain"
    /\ UNCHANGED <<gData, msgMutex, pollPc, arrived, dropped, handled>>

DealDeleteOne ==
    /\ dealPc = "delete"
    /\ queue' = Tail(queue)
    /\ gData' = IF Tail(queue) = <<>> THEN 0 ELSE 1
    /\ msgMutex' = "free"
    /\ dealPc' = "lock"
    /\ UNCHANGED <<pollPc, arrived, dropped, handled>>

\* del_dealed_msg unlinks and frees whatever is first now.
DealDelete ==
    /\ dealPc = "delete"
    /\ queue' = Tail(queue)
    /\ dealPc' = "drain"
    /\ UNCHANGED <<gData, msgMutex, pollPc, arrived, dropped, handled>>

\* Mutant: g_data is not reset.
DealDoneNoReset ==
    /\ dealPc = "drain"
    /\ queue = <<>>
    /\ msgMutex' = "free"
    /\ dealPc' = "lock"
    /\ UNCHANGED <<queue, gData, pollPc, arrived, dropped, handled>>

DealDone ==
    /\ dealPc = "drain"
    /\ queue = <<>>
    /\ gData' = 0
    /\ msgMutex' = "free"
    /\ dealPc' = "lock"
    /\ UNCHANGED <<queue, pollPc, arrived, dropped, handled>>

-----------------------------------------------------------------------------
Poll == PollRead \/ PollNoMem \/ PollInsert \/ PollSignal

DealRuns ==
    \/ DealLock \/ DealWait \/ DealBatch
    \/ DealGet \/ DealHandle \/ DealDelete \/ DealDone

Next == Poll \/ DealRuns \/ SpuriousWakeup

Spec == Init /\ [][Next]_vars

\* Both threads run when they can, and the poll thread, once it waits for the
\* mutex, gets it if it becomes free again and again.  Nothing makes SSC send
\* or the wait return by itself.
Fairness ==
    /\ SF_vars(PollInsert)
    /\ WF_vars(PollSignal)
    /\ WF_vars(DealRuns)

FairSpec == Spec /\ Fairness

-----------------------------------------------------------------------------
(* Properties *)

HandledSet == {handled[i] : i \in DOMAIN handled}
QueuedSet  == {queue[i] : i \in DOMAIN queue}

\* While nobody holds msg_mutex, g_data says whether there is a message: what
\* deal_info_func decides by is never stale.
FlagTellsQueue == msgMutex = "free" => (gData = 1 <=> queue # <<>>)

\* The signal that is sent after the unlock is not lost for good: when the
\* thread sleeps beside a message, the poll thread is about to signal.
NoLostWakeup == dealPc = "wait" /\ queue # <<>> => pollPc = "signal"

\* del_dealed_msg frees the message that has just been handled, although it
\* looks the first message up anew.
DeletesHandled ==
    dealPc = "delete" => queue # <<>> /\ Head(queue) = handled[Len(handled)]

\* No message is handled twice, and none that was read disappears unless
\* there was no memory for it.
EachOnce ==
    /\ \A i, j \in DOMAIN handled : handled[i] = handled[j] => i = j
    /\ 1 .. arrived = dropped \cup HandledSet \cup QueuedSet
                        \cup (IF pollPc = "lock" THEN {arrived} ELSE {})

\* Order is lost within a batch only, where it is reversed: batches follow each
\* other in the order of arrival, so no three messages are handled in one of
\* the orders 2-3-1 and 3-1-2.
BatchOrder ==
    \A i, j, k \in DOMAIN handled :
        i < j /\ j < k =>
            /\ ~(handled[k] < handled[i] /\ handled[i] < handled[j])
            /\ ~(handled[j] < handled[k] /\ handled[k] < handled[i])

\* Every message that was read, and not dropped, is handled.
EveryMessageHandled ==
    \A m \in Msg : (arrived >= m) ~> (m \in dropped \cup HandledSet)

\* A message is out of the abstract queue once its handler has run.
Box == INSTANCE BatchQueue WITH
    box      <- IF dealPc = "delete" THEN Tail(queue) ELSE queue,
    draining <- \/ dealPc \in {"drain", "handle"} /\ queue # <<>>
                \/ dealPc = "delete" /\ Tail(queue) # <<>>

\* The two threads implement the stack that is emptied in batches.
ImplementsBatchQueue == Box!BoxSpec
=============================================================================

-------------------------------- MODULE PiPoll --------------------------------
(***************************************************************************)
(* PI's socket side: the thread cli_comm_ssc_init, which accepts SSC's     *)
(* connections, keeps their descriptors in the array g_client, and polls   *)
(* and reads them.  Element 0 is the listening socket, elements 1 to       *)
(* MaxClient - 1 are the slots for clients.                                *)
(*                                                                         *)
(* The loop stores the local variable tmp, the descriptor accept returned  *)
(* last, in a free slot whenever poll returns, so one descriptor may stand *)
(* in several slots; and with all slots taken it goes on to use element    *)
(* MaxClient, which is not part of the array (Std and Free below).         *)
(*                                                                         *)
(* SSC is one process with one connection at a time: it connects again     *)
(* only when its last connection has ended.  What a message says is not    *)
(* part of this module; a read takes all that has arrived.                 *)
(***************************************************************************)
EXTENDS Integers, FiniteSets

CONSTANTS
    MaxClient,  \* MAX_CLIENT
    MaxConn     \* bound: how many connections SSC makes

ASSUME MaxClientAssumption == MaxClient \in Nat /\ MaxClient >= 2
ASSUME MaxConnAssumption == MaxConn \in Nat

Conn == 1 .. MaxConn
Slot == 1 .. MaxClient - 1

\* The numbers accept may return: it takes the lowest that is not open, and no
\* other thread of PI opens or closes descriptors.
Fd == 1 .. MaxConn

\* No descriptor, which is -1 in the code; and the standard input of PI.
Free == 0
Std  == -1

VARIABLES
    slot,       \* the descriptors in g_client, from element 1 on
    revents,    \* whether poll reported POLLIN for an element of g_client
    maxi,       \* the last element that is polled
    tmp,        \* what accept returned last
    nReady,     \* n_ready
    pc,         \* where the thread is
    i,          \* the element it reads
    owner,      \* the connection an open descriptor belongs to, else 0
    conns,      \* how many connections SSC has made; the last is its current one
    accepted,   \* how many of them, in this order, PI has accepted
    ended,      \* connections that SSC has closed
    unread,     \* connections with data that PI has not read
    typed       \* whether the standard input can be read

threadVars == <<slot, revents, maxi, tmp, nReady, pc, i>>
netVars    == <<owner, conns, accepted, ended, unread, typed>>
vars       == <<threadVars, netVars>>

TypeOK ==
    /\ slot \in [1 .. MaxClient -> Fd \cup {Free, Std}]
    /\ revents \in [0 .. MaxClient -> BOOLEAN]
    /\ maxi \in 0 .. MaxClient
    /\ tmp \in Fd \cup {Free}
    /\ nReady \in Int
    /\ pc \in {"poll", "accept", "fill", "scan", "read", "clear"}
    /\ i \in 1 .. MaxClient + 1
    /\ owner \in [Fd -> Conn \cup {0}]
    /\ conns \in 0 .. MaxConn
    /\ accepted \in 0 .. conns
    /\ ended \subseteq Conn
    /\ unread \subseteq Conn
    /\ typed \in BOOLEAN

\* Whatever follows g_client in memory is taken for one more element: either a
\* negative descriptor, which poll ignores, or the number 0 of the standard
\* input (with gcc -O0 the variable g_data follows, which is 0 or 1).
Init ==
    /\ slot \in {[k \in 1 .. MaxClient |-> IF k = MaxClient THEN d ELSE Free] :
                    d \in {Free, Std}}
    /\ revents = [k \in 0 .. MaxClient |-> FALSE]
    /\ maxi = 0
    /\ tmp = Free
    /\ nReady = 0
    /\ pc = "poll"
    /\ i = 1
    /\ owner = [d \in Fd |-> 0]
    /\ conns = 0
    /\ accepted = 0
    /\ ended = {}
    /\ unread = {}
    /\ typed = FALSE

-----------------------------------------------------------------------------
(* SSC and the terminal *)

\* The connection SSC uses, once it has one.
Live(c) == c = conns /\ c \in Conn /\ c \notin ended

SscConnect ==
    /\ conns < MaxConn
    /\ conns \in ended \cup {0}
    /\ conns' = conns + 1
    /\ UNCHANGED <<threadVars, owner, accepted, ended, unread, typed>>

SscSend ==
    /\ Live(conns)
    /\ unread' = unread \cup {conns}
    /\ UNCHANGED <<threadVars, owner, conns, accepted, ended, typed>>

SscEnd ==
    /\ Live(conns)
    /\ ended' = ended \cup {conns}
    /\ UNCHANGED <<threadVars, owner, conns, accepted, unread, typed>>

\* Somebody types a command, and the CLI engine reads it.
Type == typed' = ~typed /\ UNCHANGED <<threadVars, owner, conns, accepted, ended, unread>>

-----------------------------------------------------------------------------
(* The poll thread *)

Open(d) == d \in Fd /\ owner[d] # 0

\* poll reports POLLIN for data and for the end of a connection, and POLLNVAL
\* for a number that is not open.
Readable(d) ==
    \/ Open(d) /\ owner[d] \in unread \cup ended
    \/ d = Std /\ typed
Reported(d) == Readable(d) \/ (d \in Fd /\ ~Open(d))

\* poll sleeps until it has something to report.
PollReturns ==
    LET listener == accepted < conns
        n == Cardinality({k \in 1 .. maxi : Reported(slot[k])})
                + (IF listener THEN 1 ELSE 0)
    IN  /\ pc = "poll"
        /\ n > 0
        /\ nReady' = n
        /\ revents' = [k \in 0 .. MaxClient |->
                          IF k = 0 THEN listener
                          ELSE IF k <= maxi THEN Readable(slot[k]) ELSE revents[k]]
        /\ pc' = IF listener THEN "accept" ELSE "fill"
        /\ UNCHANGED <<slot, maxi, tmp, i, netVars>>

IsLowestClosed(d) == d \in Fd /\ ~Open(d) /\ \A e \in 1 .. d - 1 : Open(e)

AcceptClient ==
    /\ pc = "accept"
    /\ \E d \in Fd :
        /\ IsLowestClosed(d)
        /\ tmp' = d
        /\ owner' = [owner EXCEPT ![d] = accepted + 1]
    /\ accepted' = accepted + 1
    /\ pc' = "fill"
    /\ UNCHANGED <<slot, revents, maxi, nReady, i, conns, ended, unread, typed>>

\* No descriptor is left for this process, for instance: back to poll.
AcceptFails ==
    /\ pc = "accept"
    /\ tmp' = Free
    /\ pc' = "poll"
    /\ UNCHANGED <<slot, revents, maxi, nReady, i, netVars>>

\* The first free slot, or else the element behind the array.
IsFirstFree(k) ==
    /\ k = MaxClient \/ slot[k] = Free
    /\ \A l \in 1 .. k - 1 : slot[l] # Free

\* The loop goes on to read only if more is ready than the one that is now
\* counted as handled.
CountOne ==
    /\ nReady' = nReady - 1
    /\ pc' = IF nReady <= 1 THEN "poll" ELSE "scan"

\* Mutants: tmp is forgotten when no slot is free; tmp is stored only when there
\* is a new connection; maxi is lowered; maxi counts the descriptors stored.
FillTurnsAway ==
    /\ pc = "fill"
    /\ \E k \in 1 .. MaxClient :
        /\ IsFirstFree(k)
        /\ slot' = IF k = MaxClient THEN slot ELSE [slot EXCEPT ![k] = tmp]
        /\ maxi' = IF k > maxi THEN k ELSE maxi
    /\ tmp' = IF \E k \in Slot : slot[k] = Free THEN tmp ELSE Free
    /\ i' = 1
    /\ CountOne
    /\ UNCHANGED <<revents, netVars>>

FillNew ==
    /\ pc = "fill"
    /\ \E k \in 1 .. MaxClient :
        /\ IsFirstFree(k)
        /\ slot' = IF k = MaxClient \/ ~revents[0] THEN slot
                   ELSE [slot EXCEPT ![k] = tmp]
        /\ maxi' = IF k > maxi THEN k ELSE maxi
    /\ i' = 1
    /\ CountOne
    /\ UNCHANGED <<revents, tmp, netVars>>

FillLowering ==
    /\ pc = "fill"
    /\ \E k \in 1 .. MaxClient :
        /\ IsFirstFree(k)
        /\ slot' = IF k = MaxClient THEN slot ELSE [slot EXCEPT ![k] = tmp]
        /\ maxi' = k
    /\ i' = 1
    /\ CountOne
    /\ UNCHANGED <<revents, tmp, netVars>>

FillCounting ==
    /\ pc = "fill"
    /\ \E k \in 1 .. MaxClient :
        /\ IsFirstFree(k)
        /\ slot' = IF k = MaxClient THEN slot ELSE [slot EXCEPT ![k] = tmp]
    /\ maxi' = maxi + 1
    /\ i' = 1
    /\ CountOne
    /\ UNCHANGED <<revents, tmp, netVars>>

\* tmp goes into the first free slot, whether or not it is a new connection.
Fill ==
    /\ pc = "fill"
    /\ \E k \in 1 .. MaxClient :
        /\ IsFirstFree(k)
        /\ slot' = IF k = MaxClient THEN slot ELSE [slot EXCEPT ![k] = tmp]
        /\ maxi' = IF k > maxi THEN k ELSE maxi
    /\ i' = 1
    /\ CountOne
    /\ UNCHANGED <<revents, tmp, netVars>>

\* The elements from i on that the loop would read.
ToRead == {k \in i .. maxi : slot[k] # Free /\ revents[k]}

Scan ==
    /\ pc = "scan"
    /\ IF ToRead = {} THEN pc' = "poll" /\ i' = i
       ELSE pc' = "read" /\ i' \in ToRead /\ \A k \in ToRead : i' <= k
    /\ UNCHANGED <<slot, revents, maxi, tmp, nReady, netVars>>

\* What follows a read that returned something.
AfterMessage ==
    /\ CountOne
    /\ i' = i + 1
    /\ UNCHANGED <<slot, revents, maxi, tmp>>

\* read waits until there is something to return, also when poll reported the
\* descriptor but a copy of it in another slot has been read since.
ReadMessage ==
    /\ pc = "read"
    /\ Open(slot[i])
    /\ owner[slot[i]] \in unread
    /\ unread' = unread \ {owner[slot[i]]}
    /\ AfterMessage
    /\ UNCHANGED <<owner, conns, accepted, ended, typed>>

ReadStd ==
    /\ pc = "read"
    /\ slot[i] = Std
    /\ typed
    /\ typed' = FALSE
    /\ AfterMessage
    /\ UNCHANGED <<owner, conns, accepted, ended, unread>>

\* The end of the connection, or a number that is not open: it is closed ...
ReadEnd ==
    /\ pc = "read"
    /\ slot[i] \in Fd
    /\ owner[slot[i]] \in (ended \ unread) \cup {0}
    /\ owner' = [owner EXCEPT ![slot[i]] = 0]
    /\ pc' = "clear"
    /\ UNCHANGED <<slot, revents, maxi, tmp, nReady, i,
                   conns, accepted, ended, unread, typed>>

\* Mutant: the loop goes on with the next slot.
ClearSlotGoOn ==
    /\ pc = "clear"
    /\ slot' = [slot EXCEPT ![i] = Free]
    /\ pc' = "scan"
    /\ i' = i + 1
    /\ UNCHANGED <<revents, maxi, tmp, nReady, netVars>>

\* ... and its slot cleared; copies of it in other slots stay.
ClearSlot ==
    /\ pc = "clear"
    /\ slot' = [slot EXCEPT ![i] = Free]
    /\ pc' = "poll"
    /\ UNCHANGED <<revents, maxi, tmp, nReady, i, netVars>>

-----------------------------------------------------------------------------
Environment == SscConnect \/ SscSend \/ SscEnd \/ Type

Thread ==
    \/ PollReturns \/ AcceptClient \/ AcceptFails \/ Fill
    \/ Scan \/ ReadMessage \/ ReadStd \/ ReadEnd \/ ClearSlot

Next == Environment \/ Thread

Spec == Init /\ [][Next]_vars

\* The thread runs when it can, and accept does not fail for ever.
Fairness == WF_vars(Thread) /\ SF_vars(AcceptClient)

FairSpec == Spec /\ Fairness

-----------------------------------------------------------------------------
(* Properties *)

\* The connection SSC is using is never forgotten: once accepted, its
\* descriptor is in a slot or still in tmp, from where it gets the next free one.
NotForgotten ==
    \A d \in Fd : Live(owner[d]) => d = tmp \/ \E k \in Slot : slot[k] = d

\* Nothing is read from, and so closed by, a number that is not open, although
\* copies of closed descriptors stay in the slots: they are polled anew first.
ReadsOpen == pc = "read" => Open(slot[i]) \/ slot[i] = Std

\* Every descriptor in a slot is polled.
SlotsPolled == \A k \in Slot : slot[k] # Free => k <= maxi

\* What SSC sends on a connection that it keeps is read, although a ready
\* client alone is passed over until copies of it fill more slots.  There are
\* two ways out only: the thread is stuck in a read of the element behind the
\* array, or every slot holds a number that is no longer open, and the client
\* stays in tmp for good.
Stuck == pc = "read" /\ slot[i] = Std
LockedOut == \A k \in Slot : slot[k] \in Fd /\ ~Open(slot[k])
EveryMessageRead ==
    \A c \in Conn : (Live(c) /\ c \in unread)
                        ~> (c \notin unread \/ c \in ended \/ Stuck \/ LockedOut)

\* "The new client's socket is added to those that are listened to": an
\* accepted client that stays gets a slot.
EveryClientWatched ==
    \A c \in Conn : Live(c) ~> (c \in ended \/ Stuck \/ \E k \in Slot :
                                    Open(slot[k]) /\ owner[slot[k]] = c)
=============================================================================

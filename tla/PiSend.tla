-------------------------------- MODULE PiSend --------------------------------
(***************************************************************************)
(* pi_send_msg_ssc beside the poll thread of PiPoll: a command (or part of *)
(* the configuration) is written to the descriptors in g_client, which the *)
(* poll thread changes meanwhile; send_mutex keeps senders apart, but the  *)
(* poll thread does not take it.                                           *)
(***************************************************************************)
EXTENDS PiPoll

VARIABLES
    sendPc,     \* where the sender is
    j,          \* the slot it looks at
    target,     \* the only client in the slots when the sending began, else 0
    written     \* the connections the message has been written to

sendVars == <<sendPc, j, target, written>>

SendTypeOK ==
    /\ sendPc \in {"idle", "test", "write", "done"}
    /\ j \in 1 .. MaxClient
    /\ target \in Conn \cup {0}
    /\ written \subseteq Conn

SendInit ==
    /\ Init
    /\ sendPc = "idle"
    /\ j = 1
    /\ target = 0
    /\ written = {}

\* c has a slot, and no slot has the descriptor of another connection.
AloneInSlots(c) ==
    LET Has(k) == Open(slot[k]) /\ owner[slot[k]] = c
    IN  /\ \E k \in Slot : Has(k)
        /\ \A k \in Slot : slot[k] = Free \/ Has(k)

SendBegin ==
    /\ sendPc = "idle"
    /\ sendPc' = "test"
    /\ j' = 1
    /\ target' = IF Live(conns) /\ AloneInSlots(conns) THEN conns ELSE 0
    /\ written' = {}

\* The next slot, or the end of the loop.
NextSlot ==
    /\ j' = j + 1
    /\ sendPc' = IF j + 1 < MaxClient THEN "test" ELSE "done"

\* A free slot is skipped, and one with the same descriptor as the slot before
\* (before the first comes the listening socket, whose number differs).
SendTest ==
    /\ sendPc = "test"
    /\ IF slot[j] = Free \/ (j > 1 /\ slot[j] = slot[j - 1])
          THEN NextSlot
          ELSE sendPc' = "write" /\ j' = j
    /\ UNCHANGED <<target, written>>

\* The descriptor is read again.  A write to a connection that SSC has closed
\* succeeds at first.
SendWrite ==
    /\ sendPc = "write"
    /\ Open(slot[j])
    /\ written' = written \cup {owner[slot[j]]}
    /\ NextSlot
    /\ UNCHANGED target

\* The write fails, and the loop is left.
SendFails ==
    /\ sendPc = "write"
    /\ Open(slot[j]) => owner[slot[j]] \in ended
    /\ sendPc' = "done"
    /\ UNCHANGED <<j, target, written>>

SendEnd ==
    /\ sendPc = "done"
    /\ sendPc' = "idle"
    /\ UNCHANGED <<j, target, written>>

Sender == SendBegin \/ SendTest \/ SendWrite \/ SendFails \/ SendEnd

SendNext ==
    \/ Next /\ UNCHANGED sendVars
    \/ Sender /\ UNCHANGED vars

SendSpec == SendInit /\ [][SendNext]_<<vars, sendVars>>

\* "Send to the client": the only client that stood in the slots when the
\* sending began, still connected when it ends, has been sent the message.
SentToClient ==
    sendPc = "done" /\ target # 0 /\ Live(target) => target \in written
=============================================================================

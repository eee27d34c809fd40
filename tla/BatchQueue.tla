----------------------------- MODULE BatchQueue -----------------------------
(***************************************************************************)
(* What PI's message queue amounts to: a stack that is emptied in batches. *)
(* Messages come in at the front, and never while a batch is being         *)
(* handled; a batch is handled from the front until nothing is left.       *)
(***************************************************************************)
EXTENDS Naturals, Sequences

CONSTANT Msg

VARIABLES
    box,        \* the messages that wait, the newest first
    draining    \* a batch is being handled

boxVars == <<box, draining>>

BoxInit ==
    /\ box = <<>>
    /\ draining = FALSE

Put(m) ==
    /\ ~draining
    /\ box' = <<m>> \o box
    /\ UNCHANGED draining

Begin ==
    /\ ~draining
    /\ box # <<>>
    /\ draining' = TRUE
    /\ UNCHANGED box

\* The message handled is the front one; the batch ends with the last one.
Take ==
    /\ draining
    /\ box # <<>>
    /\ box' = Tail(box)
    /\ draining' = (Tail(box) # <<>>)

BoxNext == (\E m \in Msg : Put(m)) \/ Begin \/ Take

BoxSpec == BoxInit /\ [][BoxNext]_boxVars
=============================================================================

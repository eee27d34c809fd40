-------------------------------- MODULE PiDb --------------------------------
(***************************************************************************)
(* PI's local database g_mac_local_db and the two threads that work on it: *)
(* the CLI thread, which runs the commands of the user, and the thread     *)
(* deal_info_func, which applies the messages of SSC.  Both take           *)
(* g_mac_local_db.mutex for the tables.                                    *)
(*                                                                         *)
(* A critical section that only touches one entry is one action, enabled   *)
(* while the mutex is free.  The walks over a whole table (clear, show)    *)
(* hold the mutex from the first chain to the last and take one step per   *)
(* entry, and pi_show_mac_count reads the counters with no lock at all, so *)
(* that it can see a walk that is under way.                               *)
(*                                                                         *)
(* The configuration (age_time, port_status) is not part of this module.   *)
(* An allocation that fails leaves everything as it was: a stuttering step.*)
(***************************************************************************)
EXTENDS MacTable, Sequences

VARIABLES
    statics,        \* static_mac_tbl_head
    dyns,           \* dyn_mac_tbl_head
    staticCount,    \* static_addr_count
    dynCount,       \* dyn_addr_count
    mutex,          \* who holds g_mac_local_db.mutex: "free" or "cli"
    pc,             \* where the CLI thread is
    cmd,            \* the command it runs
    left,           \* the entries its walk has still to visit
    printed,        \* what its listing has printed so far
    tally           \* the numbers pi_show_mac_count has read so far

vars == <<statics, dyns, staticCount, dynCount, mutex, pc, cmd, left,
          printed, tally>>

tables == <<statics, dyns, staticCount, dynCount>>

\* The CLI thread runs no command.
NoCmd == [kind |-> "none", arg |-> 0]

TypeOK ==
    /\ statics \subseteq Entry
    /\ dyns \subseteq Entry
    /\ staticCount \in Nat
    /\ dynCount \in Nat
    /\ mutex \in {"free", "cli"}
    /\ pc \in {"idle", "clearDyn", "clearStatic", "show", "count"}
    /\ cmd \in ClearCmd \cup ShowCmd \cup {NoCmd}
    /\ left \subseteq Tagged("STATIC", Entry) \cup Tagged("DYNAMIC", Entry)
    /\ printed \subseteq Tagged("STATIC", Entry) \cup Tagged("DYNAMIC", Entry)
    /\ tally \in Seq(Nat)

\* pi_default_args_init.
Init ==
    /\ statics = {} /\ dyns = {}
    /\ staticCount = 0 /\ dynCount = 0
    /\ mutex = "free"
    /\ pc = "idle" /\ cmd = NoCmd
    /\ left = {} /\ printed = {} /\ tally = <<>>

-----------------------------------------------------------------------------
(* Insertion and removal of one entry, under the mutex. *)

\* The counter goes up only when insert_hash_table has linked a new entry.
InsertStatic(e) ==
    /\ statics' = PutByKey(statics, e)
    /\ staticCount' = IF KeyHits(statics, e) = {} THEN staticCount + 1
                                                  ELSE staticCount
    /\ UNCHANGED <<dyns, dynCount>>

\* Mutant: the counter ignores what insert_hash_table returns.
InsertDynCounting(e) ==
    /\ dyns' = PutByKey(dyns, e)
    /\ dynCount' = dynCount + 1
    /\ UNCHANGED <<statics, staticCount>>

InsertDyn(e) ==
    /\ dyns' = PutByKey(dyns, e)
    /\ dynCount' = IF KeyHits(dyns, e) = {} THEN dynCount + 1 ELSE dynCount
    /\ UNCHANGED <<statics, staticCount>>

\* Mutant: the counter ignores what del_hash_entry returns.
RemoveDynCounting(e) ==
    /\ dyns' \in PiErasures(dyns, e) \cup {dyns}
    /\ dynCount' = dynCount - 1
    /\ UNCHANGED <<statics, staticCount>>

\* Nothing changes when del_hash_entry finds no entry (ERR).
RemoveDyn(e) ==
    /\ dyns' \in PiErasures(dyns, e)
    /\ dynCount' = dynCount - 1
    /\ UNCHANGED <<statics, staticCount>>

-----------------------------------------------------------------------------
(* The thread deal_info_func. *)

cliVars == <<mutex, pc, cmd, left, printed, tally>>

\* A notification with flags set, or a dynamic entry of a synchronisation.
DealAddDyn(e) == mutex = "free" /\ InsertDyn(e) /\ UNCHANGED cliVars

\* Mutant: the entry is removed without the mutex.
DealDelDynUnlocked(e) == RemoveDyn(e) /\ UNCHANGED cliVars

\* A notification with flags clear: the entry has aged out.
DealDelDyn(e) == mutex = "free" /\ RemoveDyn(e) /\ UNCHANGED cliVars

\* A static entry of a synchronisation.  The memset clears the received entry
\* before it is copied, so what is inserted does not depend on what SSC sent.
DealStatic == mutex = "free" /\ InsertStatic(ZeroEntry) /\ UNCHANGED cliVars

-----------------------------------------------------------------------------
(* The CLI thread. *)

AddStatic(e) ==
    /\ pc = "idle"
    /\ mutex = "free"
    /\ InsertStatic(e)
    /\ UNCHANGED cliVars

\* call_clear_local_mac takes the mutex and starts on the dynamic table.
ClearBegin(c) ==
    /\ pc = "idle"
    /\ mutex = "free"
    /\ mutex' = "cli"
    /\ pc' = "clearDyn"
    /\ cmd' = c
    /\ left' = Tagged("DYNAMIC", dyns)
    /\ UNCHANGED <<tables, printed, tally>>

ClearDynEntry ==
    /\ pc = "clearDyn"
    /\ \E r \in left :
        /\ left' = left \ {r}
        /\ IF Selects(cmd, r[2])
           THEN /\ dyns' = dyns \ {r[2]}
                /\ dynCount' = dynCount - 1
           ELSE UNCHANGED <<dyns, dynCount>>
    /\ UNCHANGED <<statics, staticCount, mutex, pc, cmd, printed, tally>>

\* Mutant: clearing the dynamic table goes on to the static one.
ClearDynEndGoesOn ==
    /\ pc = "clearDyn"
    /\ left = {}
    /\ pc' = "clearStatic"
    /\ left' = Tagged("STATIC", statics)
    /\ UNCHANGED <<tables, mutex, cmd, printed, tally>>

\* Only PI_MSGID_MAC_CLEAR_DYN stops here.
ClearDynEnd ==
    /\ pc = "clearDyn"
    /\ left = {}
    /\ IF cmd.kind = "dyn"
       THEN pc' = "idle" /\ cmd' = NoCmd /\ mutex' = "free" /\ UNCHANGED left
       ELSE /\ pc' = "clearStatic"
            /\ left' = Tagged("STATIC", statics)
            /\ UNCHANGED <<cmd, mutex>>
    /\ UNCHANGED <<tables, printed, tally>>

ClearStaticEntry ==
    /\ pc = "clearStatic"
    /\ \E r \in left :
        /\ left' = left \ {r}
        /\ IF Selects(cmd, r[2])
           THEN /\ statics' = statics \ {r[2]}
                /\ staticCount' = staticCount - 1
           ELSE UNCHANGED <<statics, staticCount>>
    /\ UNCHANGED <<dyns, dynCount, mutex, pc, cmd, printed, tally>>

ClearStaticEnd ==
    /\ pc = "clearStatic"
    /\ left = {}
    /\ pc' = "idle"
    /\ cmd' = NoCmd
    /\ mutex' = "free"
    /\ UNCHANGED <<tables, left, printed, tally>>

\* pi_show_all_mac, pi_show_static_mac and pi_show_vlan_mac.
ShowBegin(c) ==
    /\ pc = "idle"
    /\ mutex = "free"
    /\ mutex' = "cli"
    /\ pc' = "show"
    /\ cmd' = c
    /\ left' = Tagged("STATIC", statics)
                 \cup (IF c.kind = "static" THEN {} ELSE Tagged("DYNAMIC", dyns))
    /\ printed' = {}
    /\ UNCHANGED <<tables, tally>>

ShowEntry ==
    /\ pc = "show"
    /\ \E r \in left :
        /\ left' = left \ {r}
        /\ printed' = IF Selects(cmd, r[2]) THEN printed \cup {r} ELSE printed
    /\ UNCHANGED <<tables, mutex, pc, cmd, tally>>

ShowEnd ==
    /\ pc = "show"
    /\ left = {}
    /\ pc' = "idle"
    /\ cmd' = NoCmd
    /\ mutex' = "free"
    /\ printed' = {}
    /\ UNCHANGED <<tables, left, tally>>

\* pi_show_mac_count: dynamic, static, then both again for the total, each
\* read as it is printed, and no lock.
CountBegin ==
    /\ pc = "idle"
    /\ pc' = "count"
    /\ UNCHANGED <<tables, mutex, cmd, left, printed, tally>>

CountRead ==
    /\ pc = "count"
    /\ Len(tally) < 4
    /\ tally' = Append(tally, IF Len(tally) \in {0, 2} THEN dynCount
                                                       ELSE staticCount)
    /\ UNCHANGED <<tables, mutex, pc, cmd, left, printed>>

CountEnd ==
    /\ pc = "count"
    /\ Len(tally) = 4
    /\ pc' = "idle"
    /\ tally' = <<>>
    /\ UNCHANGED <<tables, mutex, cmd, left, printed>>

-----------------------------------------------------------------------------
Deal == DealStatic \/ \E e \in RealEntry : DealAddDyn(e) \/ DealDelDyn(e)

Cli ==
    \/ \E e \in RealEntry : AddStatic(e)
    \/ \E c \in ClearCmd : ClearBegin(c)
    \/ ClearDynEntry \/ ClearDynEnd \/ ClearStaticEntry \/ ClearStaticEnd
    \/ \E c \in ShowCmd : ShowBegin(c)
    \/ ShowEntry \/ ShowEnd
    \/ CountBegin \/ CountRead \/ CountEnd

Next == Deal \/ Cli

Spec == Init /\ [][Next]_vars

-----------------------------------------------------------------------------
(* Properties *)

\* ss_public.h keys an entry by its address and its vlan: neither table ever
\* holds two entries for one key, whichever thread inserted them.
TablesKeyed == KeysUnique(statics) /\ KeysUnique(dyns)

\* static_addr_count and dyn_addr_count are the numbers of valid entries, at
\* every instant, also in the middle of a clear command.
CountsMatch ==
    /\ staticCount = Cardinality(statics)
    /\ dynCount = Cardinality(dyns)

\* The walk of a clear or show command visits entries that are still linked:
\* nothing is freed under it.
WalkIsLive ==
    left \subseteq Tagged("STATIC", statics) \cup Tagged("DYNAMIC", dyns)

\* The tables as a caller sees them once the clear command that is under way
\* counts as done.
Doomed(t, T) ==
    {e \in T : \/ pc = "clearDyn" /\ t = "STATIC" /\ cmd.kind # "dyn" /\ Selects(cmd, e)
               \/ pc \in {"clearDyn", "clearStatic"} /\ <<t, e>> \in left /\ Selects(cmd, e)}

Tables == INSTANCE PiTables WITH
    statics <- statics \ Doomed("STATIC", statics),
    dyns    <- dyns \ Doomed("DYNAMIC", dyns),
    shown   <- IF pc = "show" /\ left = {} THEN printed ELSE {}

\* Although they take many steps and run beside each other, the operations of
\* the two threads behave as the indivisible ones of PiTables.
TablesAtomic == Tables!TablesSpec
=============================================================================

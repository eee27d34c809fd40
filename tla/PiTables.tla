------------------------------ MODULE PiTables ------------------------------
(***************************************************************************)
(* What PI's database promises its callers: two tables, keyed by           *)
(* (mac, vlan), on which every command of the user and every message of    *)
(* SSC acts in one indivisible step, and a listing that shows the tables   *)
(* as they were at one instant.                                            *)
(***************************************************************************)
EXTENDS MacTable

VARIABLES
    statics,    \* g_mac_local_db.static_mac_tbl_head
    dyns,       \* g_mac_local_db.dyn_mac_tbl_head
    shown       \* the listing before the user: pairs <<table, entry>>

tableVars == <<statics, dyns, shown>>

Listing(c, S, D) ==
    Tagged("STATIC", Selected(c, S))
        \cup Tagged("DYNAMIC", IF c.kind = "static" THEN {} ELSE Selected(c, D))

-----------------------------------------------------------------------------
TablesInit ==
    /\ statics = {}
    /\ dyns = {}
    /\ shown = {}

PutStatic(e) ==
    /\ statics' = PutByKey(statics, e)
    /\ UNCHANGED <<dyns, shown>>

PutDyn(e) ==
    /\ dyns' = PutByKey(dyns, e)
    /\ UNCHANGED <<statics, shown>>

EraseDyn(e) ==
    /\ dyns' \in PiErasures(dyns, e)
    /\ UNCHANGED <<statics, shown>>

\* Clearing the dynamic table leaves the static one alone; clearing a vlan or
\* an interface acts on both.
Clear(c) ==
    /\ dyns' = dyns \ Selected(c, dyns)
    /\ statics' = IF c.kind = "dyn" THEN statics
                                    ELSE statics \ Selected(c, statics)
    /\ UNCHANGED shown

Show(c) ==
    /\ shown' = Listing(c, statics, dyns)
    /\ UNCHANGED <<statics, dyns>>

Prompt ==
    /\ shown' = {}
    /\ UNCHANGED <<statics, dyns>>

TablesNext ==
    \/ \E e \in RealEntry : PutStatic(e) \/ PutDyn(e) \/ EraseDyn(e)
    \/ PutStatic(ZeroEntry)
    \/ \E c \in ClearCmd : Clear(c)
    \/ \E c \in ShowCmd : Show(c)
    \/ Prompt

TablesSpec == TablesInit /\ [][TablesNext]_tableVars
=============================================================================

------------------------------ MODULE MacTable ------------------------------
(***************************************************************************)
(* The MAC address tables of PI and SSC: hash tables of entries keyed by   *)
(* the pair (mac, vlan), with the three ways the code has of looking an    *)
(* entry up.                                                               *)
(*                                                                         *)
(* A table is the set of the entries that are linked in its chains.  The   *)
(* position of an entry in its chain is not kept: it matters only to       *)
(* PiErasures, where every candidate may be the first of the chain.  Of an *)
(* address the lookups read two things, the bucket that hash_function puts *)
(* it in (Bucket) and, where they compare with strncmp, the octets up to   *)
(* the first zero octet (TextOf).                                          *)
(***************************************************************************)
EXTENDS Integers, FiniteSets

CONSTANTS
    Mac,        \* the addresses in use, ZeroMac among them
    Vlan,       \* the vlan numbers in use, 0 among them
    Port,       \* the port numbers in use, 0 among them
    ZeroMac,    \* the address 00:00:00:00:00:00
    Bucket,     \* Bucket[m, v]: the index hash_function computes
    TextOf      \* TextOf[m]: the octets of m that strncmp compares

ASSUME TableAssumption ==
    /\ ZeroMac \in Mac /\ 0 \in Vlan /\ 0 \in Port

\* pi_mac_entry_t without the fields no lookup reads (flags, addr_type).
Entry == [mac : Mac, vlan : Vlan, port : Port]

\* The entries that a user or the chip can name: vlans and ports count from 1.
RealEntry == [mac : Mac, vlan : Vlan \ {0}, port : Port \ {0}]

\* An entry of which every octet is zero.
ZeroEntry == [mac |-> ZeroMac, vlan |-> 0, port |-> 0]

-----------------------------------------------------------------------------
(* Matching an entry of a chain against a searched one. *)

\* memcmp on the address, and the vlan.
SameKey(a, e) == a.mac = e.mac /\ a.vlan = e.vlan

\* strncmp on the address, and the vlan, within the bucket of e.
SameText(a, e) ==
    /\ Bucket[a.mac, a.vlan] = Bucket[e.mac, e.vlan]
    /\ TextOf[a.mac] = TextOf[e.mac]
    /\ a.vlan = e.vlan

KeyHits(T, e)  == {a \in T : SameKey(a, e)}
TextHits(T, e) == {a \in T : SameText(a, e)}

-----------------------------------------------------------------------------
(* Insertion: an entry that is found only has its port overwritten. *)

Upsert(T, hits, e) ==
    IF hits = {}
    THEN T \cup {e}
    ELSE (T \ hits) \cup {[a EXCEPT !.port = e.port] : a \in hits}

\* Mutants: the search is forgotten; an entry that is found is left as it is.
PutUnchecked(T, e) == T \cup {e}
PutIfAbsent(T, e)  == IF TextHits(T, e) = {} THEN T \cup {e} ELSE T

\* insert_hash_table of PI, and the static table of SSC, compare with memcmp.
PutByKey(T, e) == Upsert(T, KeyHits(T, e), e)

\* The dynamic table of SSC compares with strncmp.
PutByText(T, e) == Upsert(T, TextHits(T, e), e)

-----------------------------------------------------------------------------
(* Removal. *)

\* del_hash_entry of PI unlinks the first entry of the chain that has the
\* text, the vlan and the port of e, and fails when there is none.  The set of
\* the tables it can leave.
PiErasures(T, e) == {T \ {a} : a \in {b \in TextHits(T, e) : b.port = e.port}}

\* ssc_del_age_entry unlinks every entry with the key of e, whatever its port.
SscErase(T, e) == T \ KeyHits(T, e)

-----------------------------------------------------------------------------
(* The commands of the user that select entries. *)

\* The clear commands; arg is the vlan or the port.
ClearCmd ==
    [kind : {"dyn"}, arg : {0}]
    \cup [kind : {"vlan"}, arg : Vlan \ {0}]
    \cup [kind : {"inter"}, arg : Port \ {0}]

\* The listings: everything, the static table, one vlan.
ShowCmd ==
    [kind : {"all", "static"}, arg : {0}]
    \cup [kind : {"vlan"}, arg : Vlan \ {0}]

\* The entries a clear or a show command is about.
Selects(c, e) ==
    /\ c.kind = "vlan" => e.vlan = c.arg
    /\ c.kind = "inter" => e.port = c.arg

Selected(c, T) == {e \in T : Selects(c, e)}

\* Entries with the table they are listed from.
Tagged(t, T) == {<<t, e>> : e \in T}

-----------------------------------------------------------------------------
\* (mac, vlan) is the key of a table.
KeysUnique(T) == \A a, b \in T : SameKey(a, b) => a = b

\* No two entries that a strncmp lookup would confuse.
TextsUnique(T) == \A a, b \in T : SameText(a, b) => a = b
=============================================================================

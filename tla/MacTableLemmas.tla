--------------------------- MODULE MacTableLemmas ---------------------------
(***************************************************************************)
(* What the operators of MacTable do to a table, for every set of          *)
(* addresses, vlans and ports.                                             *)
(***************************************************************************)
EXTENDS MacTable, FiniteSetTheorems, TLAPS

\* Insertion yields entries again (insert_hash_table, ssc_add_dyn_addr).
LEMMA PutType ==
    ASSUME NEW T, T \subseteq Entry, NEW e \in Entry
    PROVE  PutByKey(T, e) \subseteq Entry /\ PutByText(T, e) \subseteq Entry
<1>1. ASSUME NEW a \in T PROVE [a EXCEPT !.port = e.port] \in Entry
  <2>1. a \in Entry /\ e.port \in Port
    BY DEF Entry
  <2> QED BY <2>1 DEF Entry
<1> QED
  BY <1>1 DEF PutByKey, PutByText, Upsert, KeyHits, TextHits

\* In a table keyed by (mac, vlan), find_hash_key finds at most one entry, and
\* insertion replaces that entry by the new one.
LEMMA PutByKeyHit ==
    ASSUME NEW T, T \subseteq Entry, KeysUnique(T), NEW e \in Entry,
           NEW a \in T, SameKey(a, e)
    PROVE  /\ KeyHits(T, e) = {a}
           /\ PutByKey(T, e) = (T \ {a}) \cup {e}
<1>1. KeyHits(T, e) = {a}
  BY DEF KeyHits, KeysUnique, SameKey
<1>2. [a EXCEPT !.port = e.port] = e
  <2>1. a \in Entry
    OBVIOUS
  <2> QED BY <2>1 DEF Entry, SameKey
<1> QED
  BY <1>1, <1>2 DEF PutByKey, Upsert

LEMMA PutByKeyMiss ==
    ASSUME NEW T, NEW e, KeyHits(T, e) = {}
    PROVE  PutByKey(T, e) = T \cup {e}
BY DEF PutByKey, Upsert

\* Either way, insertion keeps the other keys and sets the key of e to e.
LEMMA PutByKeyIs ==
    ASSUME NEW T, T \subseteq Entry, KeysUnique(T), NEW e \in Entry
    PROVE  PutByKey(T, e) = {a \in T : ~SameKey(a, e)} \cup {e}
<1>1. CASE KeyHits(T, e) = {}
  BY <1>1, PutByKeyMiss DEF KeyHits
<1>2. CASE \E a \in T : SameKey(a, e)
  <2>1. PICK a \in T : SameKey(a, e)
    BY <1>2
  <2>2. T \ {a} = {b \in T : ~SameKey(b, e)}
    BY <2>1 DEF KeysUnique, SameKey
  <2> QED BY <2>1, <2>2, PutByKeyHit
<1> QED BY <1>1, <1>2 DEF KeyHits

\* Insertion keeps the table keyed by (mac, vlan).
LEMMA PutByKeyUnique ==
    ASSUME NEW T, T \subseteq Entry, KeysUnique(T), NEW e \in Entry
    PROVE  KeysUnique(PutByKey(T, e))
BY PutByKeyIs DEF KeysUnique, SameKey

\* SSC's dynamic table stays keyed as well, although strncmp may find several
\* entries: whatever it finds has the key of the new entry among it.
LEMMA PutByTextUnique ==
    ASSUME NEW T, T \subseteq Entry, KeysUnique(T), NEW e \in Entry
    PROVE  KeysUnique(PutByText(T, e))
<1> DEFINE Moved(a) == [a EXCEPT !.port = e.port]
<1>1. \A a \in T : SameKey(a, e) => a \in TextHits(T, e)
  BY DEF TextHits, SameText, SameKey
<1>2. CASE TextHits(T, e) = {}
  BY <1>1, <1>2 DEF PutByText, Upsert, KeysUnique, SameKey
<1>3. CASE TextHits(T, e) # {}
  <2>1. \A a \in T : Moved(a).mac = a.mac /\ Moved(a).vlan = a.vlan
    BY DEF Entry
  <2>2. PutByText(T, e) = (T \ TextHits(T, e)) \cup {Moved(a) : a \in TextHits(T, e)}
    BY <1>3 DEF PutByText, Upsert
  <2>3. TextHits(T, e) \subseteq T
    BY DEF TextHits
  <2>4. ASSUME NEW x \in PutByText(T, e)
        PROVE  \E a \in T : /\ SameKey(a, x)
                           /\ x = IF a \in TextHits(T, e) THEN Moved(a) ELSE a
    <3>1. CASE x \in T \ TextHits(T, e)
      BY <3>1 DEF SameKey
    <3>2. CASE \E a \in TextHits(T, e) : x = Moved(a)
      BY <3>2, <2>1, <2>3 DEF SameKey
    <3> QED BY <2>2, <3>1, <3>2
  <2>5. SUFFICES ASSUME NEW x \in PutByText(T, e), NEW y \in PutByText(T, e),
                        SameKey(x, y)
                 PROVE  x = y
    BY DEF KeysUnique
  <2>6. PICK a \in T : /\ SameKey(a, x)
                       /\ x = IF a \in TextHits(T, e) THEN Moved(a) ELSE a
    BY <2>4
  <2>7. PICK b \in T : /\ SameKey(b, y)
                       /\ y = IF b \in TextHits(T, e) THEN Moved(b) ELSE b
    BY <2>4
  <2>8. a = b
    BY <2>5, <2>6, <2>7 DEF KeysUnique, SameKey
  <2> QED BY <2>6, <2>7, <2>8
<1> QED BY <1>2, <1>3

\* Where strncmp tells all addresses apart, an insertion brings nothing but the
\* new entry into the table.
LEMMA PutByTextIs ==
    ASSUME NEW T, T \subseteq Entry, NEW e \in Entry,
           \A m, n \in Mac : TextOf[m] = TextOf[n] => m = n
    PROVE  PutByText(T, e) \subseteq {a \in T : ~SameKey(a, e)} \cup {e}
<1> DEFINE Moved(a) == [a EXCEPT !.port = e.port]
<1>1. \A a \in T : SameKey(a, e) => a \in TextHits(T, e)
  BY DEF TextHits, SameText, SameKey
<1>2. ASSUME NEW a \in TextHits(T, e) PROVE Moved(a) = e
  <2>1. a \in Entry /\ a.mac \in Mac /\ e.mac \in Mac
    BY DEF TextHits, Entry
  <2>2. a.mac = e.mac /\ a.vlan = e.vlan
    BY <2>1 DEF TextHits, SameText
  <2> QED BY <2>1, <2>2 DEF Entry
<1> QED BY <1>1, <1>2 DEF PutByText, Upsert

\* The return value of insert_hash_table says whether the table has grown.
LEMMA PutByKeySize ==
    ASSUME NEW T, IsFiniteSet(T), T \subseteq Entry, KeysUnique(T), NEW e \in Entry
    PROVE  /\ IsFiniteSet(PutByKey(T, e))
           /\ Cardinality(PutByKey(T, e)) =
                IF KeyHits(T, e) = {} THEN Cardinality(T) + 1 ELSE Cardinality(T)
<1>0. Cardinality(T) \in Nat
  BY FS_CardinalityType
<1>1. CASE KeyHits(T, e) = {}
  <2>1. e \notin T
    BY <1>1 DEF KeyHits, SameKey
  <2>2. PutByKey(T, e) = T \cup {e}
    BY <1>1, PutByKeyMiss
  <2>3. /\ IsFiniteSet(T \cup {e})
        /\ Cardinality(T \cup {e}) = Cardinality(T) + 1
    BY <2>1, FS_AddElement
  <2> QED BY <1>1, <2>2, <2>3
<1>2. CASE KeyHits(T, e) # {}
  <2>1. PICK a \in T : SameKey(a, e)
    BY <1>2 DEF KeyHits
  <2>2. PutByKey(T, e) = (T \ {a}) \cup {e}
    BY <2>1, PutByKeyHit
  <2>3. e \notin T \ {a}
    BY <2>1 DEF KeysUnique, SameKey
  <2>4. IsFiniteSet(T \ {a}) /\ Cardinality(T \ {a}) = Cardinality(T) - 1
    BY FS_RemoveElement
  <2>5. /\ IsFiniteSet((T \ {a}) \cup {e})
        /\ Cardinality((T \ {a}) \cup {e}) = Cardinality(T \ {a}) + 1
    BY <2>3, <2>4, FS_AddElement
  <2> QED BY <1>0, <1>2, <2>2, <2>4, <2>5
<1> QED BY <1>1, <1>2

\* A table stays keyed when an entry is unlinked.
LEMMA SubsetUnique ==
    ASSUME NEW T, KeysUnique(T), NEW S, S \subseteq T
    PROVE  KeysUnique(S)
BY DEF KeysUnique

\* del_hash_entry, when it succeeds, unlinks exactly one entry.
LEMMA ErasureSize ==
    ASSUME NEW T, IsFiniteSet(T), NEW e, NEW S \in PiErasures(T, e)
    PROVE  /\ S \subseteq T
           /\ IsFiniteSet(S)
           /\ Cardinality(S) = Cardinality(T) - 1
           /\ Cardinality(T) \in Nat \ {0}
<1>1. PICK a \in TextHits(T, e) : a \in T /\ S = T \ {a}
  BY DEF PiErasures, TextHits
<1>2. Cardinality(T) \in Nat
  BY FS_CardinalityType
<1>3. IsFiniteSet(S) /\ Cardinality(S) = Cardinality(T) - 1
  BY <1>1, FS_RemoveElement
<1>4. Cardinality(S) \in Nat
  BY <1>3, FS_CardinalityType
<1> QED BY <1>1, <1>2, <1>3, <1>4
=============================================================================

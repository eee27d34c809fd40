----------------------------- MODULE PiDbProofs -----------------------------
(***************************************************************************)
(* Proofs about PiDb, for every set of addresses, vlans and ports.         *)
(*                                                                         *)
(* The counters are right because each critical section changes a counter  *)
(* by what it changes the table by.  The walk of a clear command decrements*)
(* once for every entry it unlinks, so it must not meet an entry that has  *)
(* been unlinked already: this is what the walk and the mutex are in the   *)
(* inductive invariant for.                                                *)
(***************************************************************************)
EXTENDS PiDb, MacTableLemmas

\* The mutex is held exactly by a walk.
MutexHeld == mutex = "cli" <=> pc \in {"clearDyn", "clearStatic", "show"}

\* What is left of a walk is linked in the tables it walks over.
WalkLinked ==
    /\ pc \in {"idle", "count"} => left = {}
    /\ pc = "clearDyn" => left \subseteq Tagged("DYNAMIC", dyns)
    /\ pc = "clearStatic" => left \subseteq Tagged("STATIC", statics)
    /\ pc = "show" => left \subseteq Tagged("STATIC", statics) \cup Tagged("DYNAMIC", dyns)

TablesFinite == IsFiniteSet(statics) /\ IsFiniteSet(dyns)

IInv ==
    /\ TypeOK
    /\ TablesFinite
    /\ TablesKeyed
    /\ CountsMatch
    /\ MutexHeld
    /\ WalkLinked

-----------------------------------------------------------------------------
(* One table and its counter. *)

\* A counter that matches its table still matches it after an insertion that
\* counts what insert_hash_table reports.
LEMMA InsertKeeps ==
    ASSUME NEW T, T \subseteq Entry, IsFiniteSet(T), KeysUnique(T), NEW e \in Entry,
           NEW n, n = Cardinality(T), NEW m,
           m = IF KeyHits(T, e) = {} THEN n + 1 ELSE n
    PROVE  /\ PutByKey(T, e) \subseteq Entry
           /\ IsFiniteSet(PutByKey(T, e))
           /\ KeysUnique(PutByKey(T, e))
           /\ m = Cardinality(PutByKey(T, e))
           /\ m \in Nat
<1>1. PutByKey(T, e) \subseteq Entry
  BY PutType
<1>2. KeysUnique(PutByKey(T, e))
  BY PutByKeyUnique
<1>3. /\ IsFiniteSet(PutByKey(T, e))
      /\ m = Cardinality(PutByKey(T, e))
  BY PutByKeySize
<1>4. m \in Nat
  BY <1>3, FS_CardinalityType
<1> QED
  BY <1>1, <1>2, <1>3, <1>4

\* The same for an entry that a clear command unlinks.
LEMMA UnlinkKeeps ==
    ASSUME NEW T, T \subseteq Entry, IsFiniteSet(T), KeysUnique(T), NEW a \in T
    PROVE  /\ T \ {a} \subseteq Entry
           /\ IsFiniteSet(T \ {a})
           /\ KeysUnique(T \ {a})
           /\ Cardinality(T) - 1 = Cardinality(T \ {a})
           /\ Cardinality(T) - 1 \in Nat
<1>1. IsFiniteSet(T \ {a}) /\ Cardinality(T \ {a}) = Cardinality(T) - 1
  BY FS_RemoveElement
<1>2. Cardinality(T \ {a}) \in Nat
  BY <1>1, FS_CardinalityType
<1>3. KeysUnique(T \ {a})
  BY SubsetUnique
<1> QED
  BY <1>1, <1>2, <1>3

LEMMA ZeroIsEntry == ZeroEntry \in Entry
BY TableAssumption DEF ZeroEntry, Entry

LEMMA RealIsEntry == RealEntry \subseteq Entry
BY DEF RealEntry, Entry

-----------------------------------------------------------------------------
LEMMA InitIInv == Init => IInv
<1> SUFFICES ASSUME Init PROVE IInv
  OBVIOUS
<1>1. IsFiniteSet({}) /\ Cardinality({}) = 0
  BY FS_EmptySet
<1> QED
  BY <1>1 DEF Init, IInv, TypeOK, TablesFinite, TablesKeyed, CountsMatch,
              MutexHeld, WalkLinked, KeysUnique, NoCmd

\* An insertion under the mutex, by either thread.
LEMMA InsertIInv ==
    ASSUME IInv, mutex = "free", NEW e \in Entry,
           InsertStatic(e) \/ InsertDyn(e), UNCHANGED cliVars
    PROVE  IInv'
<1> USE DEF IInv, TypeOK, TablesFinite, TablesKeyed, CountsMatch
<1>1. CASE InsertStatic(e)
  <2>1. /\ statics' \subseteq Entry
        /\ IsFiniteSet(statics')
        /\ KeysUnique(statics')
        /\ staticCount' = Cardinality(statics')
        /\ staticCount' \in Nat
    BY <1>1, InsertKeeps DEF InsertStatic
  <2>2. pc \in {"idle", "count"} /\ left = {}
    BY DEF MutexHeld, WalkLinked
  <2>3. MutexHeld' /\ WalkLinked'
    BY <2>2 DEF MutexHeld, WalkLinked, cliVars
  <2>4. UNCHANGED <<dyns, dynCount>>
    BY <1>1 DEF InsertStatic
  <2> QED
    BY <2>1, <2>3, <2>4 DEF cliVars
<1>2. CASE InsertDyn(e)
  <2>1. /\ dyns' \subseteq Entry
        /\ IsFiniteSet(dyns')
        /\ KeysUnique(dyns')
        /\ dynCount' = Cardinality(dyns')
        /\ dynCount' \in Nat
    BY <1>2, InsertKeeps DEF InsertDyn
  <2>2. pc \in {"idle", "count"} /\ left = {}
    BY DEF MutexHeld, WalkLinked
  <2>3. MutexHeld' /\ WalkLinked'
    BY <2>2 DEF MutexHeld, WalkLinked, cliVars
  <2>4. UNCHANGED <<statics, staticCount>>
    BY <1>2 DEF InsertDyn
  <2> QED
    BY <2>1, <2>3, <2>4 DEF cliVars
<1> QED
  BY <1>1, <1>2

\* The removal of an entry that has aged out.
LEMMA RemoveIInv ==
    ASSUME IInv, NEW e \in RealEntry, DealDelDyn(e)
    PROVE  IInv'
<1> USE DEF IInv, TypeOK, TablesFinite, TablesKeyed, CountsMatch
<1>1. mutex = "free" /\ UNCHANGED cliVars /\ UNCHANGED <<statics, staticCount>>
  BY DEF DealDelDyn, RemoveDyn
<1>2. PICK a \in dyns : dyns' = dyns \ {a}
  BY DEF DealDelDyn, RemoveDyn, PiErasures, TextHits
<1>3. dynCount' = dynCount - 1
  BY DEF DealDelDyn, RemoveDyn
<1>4. /\ dyns' \subseteq Entry
      /\ IsFiniteSet(dyns')
      /\ KeysUnique(dyns')
      /\ dynCount' = Cardinality(dyns')
      /\ dynCount' \in Nat
  BY <1>2, <1>3, UnlinkKeeps
<1>5. pc \in {"idle", "count"} /\ left = {}
  BY <1>1 DEF MutexHeld, WalkLinked
<1>6. MutexHeld' /\ WalkLinked'
  BY <1>1, <1>5 DEF MutexHeld, WalkLinked, cliVars
<1> QED
  BY <1>1, <1>4, <1>6 DEF cliVars

\* The clear commands.
LEMMA ClearIInv ==
    ASSUME IInv,
           \/ \E c \in ClearCmd : ClearBegin(c)
           \/ ClearDynEntry \/ ClearDynEnd \/ ClearStaticEntry \/ ClearStaticEnd
    PROVE  IInv'
<1> USE DEF IInv, TypeOK, TablesFinite, TablesKeyed, CountsMatch, tables
<1>1. CASE \E c \in ClearCmd : ClearBegin(c)
  <2>1. PICK c \in ClearCmd : ClearBegin(c)
    BY <1>1
  <2> QED
    BY <2>1 DEF ClearBegin, MutexHeld, WalkLinked, Tagged
<1>2. CASE ClearDynEntry
  <2>1. PICK r \in left :
          /\ left' = left \ {r}
          /\ IF Selects(cmd, r[2])
             THEN dyns' = dyns \ {r[2]} /\ dynCount' = dynCount - 1
             ELSE UNCHANGED <<dyns, dynCount>>
    BY <1>2 DEF ClearDynEntry
  <2>2. /\ pc = "clearDyn"
        /\ UNCHANGED <<statics, staticCount, mutex, pc, cmd, printed, tally>>
    BY <1>2 DEF ClearDynEntry
  <2>3. left \subseteq Tagged("DYNAMIC", dyns)
    BY <2>2 DEF WalkLinked
  <2>4. r[2] \in dyns
    BY <2>3 DEF Tagged
  <2>5. /\ dyns' \subseteq Entry
        /\ IsFiniteSet(dyns')
        /\ KeysUnique(dyns')
        /\ dynCount' = Cardinality(dyns')
        /\ dynCount' \in Nat
    <3>1. CASE Selects(cmd, r[2])
      <4>1. dyns' = dyns \ {r[2]} /\ dynCount' = dynCount - 1
        BY <2>1, <3>1
      <4> QED BY <2>4, <4>1, UnlinkKeeps
    <3>2. CASE ~Selects(cmd, r[2])
      BY <2>1, <3>2
    <3> QED BY <3>1, <3>2
  <2>6. left' \subseteq Tagged("DYNAMIC", dyns')
    <3> SUFFICES ASSUME NEW q \in left' PROVE q \in Tagged("DYNAMIC", dyns')
      OBVIOUS
    <3>1. q \in left /\ q # r
      BY <2>1
    <3>2. PICK d \in dyns : q = <<"DYNAMIC", d>>
      BY <3>1, <2>3 DEF Tagged
    <3>3. r = <<"DYNAMIC", r[2]>>
      BY <2>3 DEF Tagged
    <3>4. d # r[2]
      BY <3>1, <3>2, <3>3
    <3>5. d \in dyns'
      BY <3>4, <2>1
    <3> QED
      BY <3>2, <3>5 DEF Tagged
  <2>7. MutexHeld' /\ WalkLinked'
    BY <2>2, <2>6 DEF MutexHeld, WalkLinked
  <2>8. left' \subseteq left
    BY <2>1
  <2> QED
    BY <2>2, <2>5, <2>7, <2>8
<1>3. CASE ClearDynEnd
  <2>1. CASE cmd.kind = "dyn"
    BY <1>3, <2>1 DEF ClearDynEnd, MutexHeld, WalkLinked
  <2>2. CASE cmd.kind # "dyn"
    BY <1>3, <2>2 DEF ClearDynEnd, MutexHeld, WalkLinked, Tagged
  <2> QED
    BY <2>1, <2>2
<1>4. CASE ClearStaticEntry
  <2>1. PICK r \in left :
          /\ left' = left \ {r}
          /\ IF Selects(cmd, r[2])
             THEN statics' = statics \ {r[2]} /\ staticCount' = staticCount - 1
             ELSE UNCHANGED <<statics, staticCount>>
    BY <1>4 DEF ClearStaticEntry
  <2>2. /\ pc = "clearStatic"
        /\ UNCHANGED <<dyns, dynCount, mutex, pc, cmd, printed, tally>>
    BY <1>4 DEF ClearStaticEntry
  <2>3. left \subseteq Tagged("STATIC", statics)
    BY <2>2 DEF WalkLinked
  <2>4. r[2] \in statics
    BY <2>3 DEF Tagged
  <2>5. /\ statics' \subseteq Entry
        /\ IsFiniteSet(statics')
        /\ KeysUnique(statics')
        /\ staticCount' = Cardinality(statics')
        /\ staticCount' \in Nat
    <3>1. CASE Selects(cmd, r[2])
      <4>1. statics' = statics \ {r[2]} /\ staticCount' = staticCount - 1
        BY <2>1, <3>1
      <4> QED BY <2>4, <4>1, UnlinkKeeps
    <3>2. CASE ~Selects(cmd, r[2])
      BY <2>1, <3>2
    <3> QED BY <3>1, <3>2
  <2>6. left' \subseteq Tagged("STATIC", statics')
    <3> SUFFICES ASSUME NEW q \in left' PROVE q \in Tagged("STATIC", statics')
      OBVIOUS
    <3>1. q \in left /\ q # r
      BY <2>1
    <3>2. PICK d \in statics : q = <<"STATIC", d>>
      BY <3>1, <2>3 DEF Tagged
    <3>3. r = <<"STATIC", r[2]>>
      BY <2>3 DEF Tagged
    <3>4. d # r[2]
      BY <3>1, <3>2, <3>3
    <3>5. d \in statics'
      BY <3>4, <2>1
    <3> QED
      BY <3>2, <3>5 DEF Tagged
  <2>7. MutexHeld' /\ WalkLinked'
    BY <2>2, <2>6 DEF MutexHeld, WalkLinked
  <2>8. left' \subseteq left
    BY <2>1
  <2> QED
    BY <2>2, <2>5, <2>7, <2>8
<1>5. CASE ClearStaticEnd
  BY <1>5 DEF ClearStaticEnd, MutexHeld, WalkLinked
<1> QED
  BY <1>1, <1>2, <1>3, <1>4, <1>5

\* The listings and the counters' display change no table.
LEMMA ShowIInv ==
    ASSUME IInv,
           \/ \E c \in ShowCmd : ShowBegin(c)
           \/ ShowEntry \/ ShowEnd
           \/ CountBegin \/ CountRead \/ CountEnd
    PROVE  IInv'
<1> USE DEF IInv, TypeOK, TablesFinite, TablesKeyed, CountsMatch, tables
<1>1. CASE \E c \in ShowCmd : ShowBegin(c)
  <2>1. PICK c \in ShowCmd : ShowBegin(c)
    BY <1>1
  <2>2. left' \subseteq Tagged("STATIC", statics) \cup Tagged("DYNAMIC", dyns)
    BY <2>1 DEF ShowBegin
  <2>3. left' \subseteq Tagged("STATIC", Entry) \cup Tagged("DYNAMIC", Entry)
    BY <2>2 DEF Tagged
  <2> QED
    BY <2>1, <2>2, <2>3 DEF ShowBegin, MutexHeld, WalkLinked
<1>2. CASE ShowEntry
  <2>1. PICK r \in left :
          /\ left' = left \ {r}
          /\ printed' = IF Selects(cmd, r[2]) THEN printed \cup {r} ELSE printed
    BY <1>2 DEF ShowEntry
  <2> QED
    BY <1>2, <2>1 DEF ShowEntry, MutexHeld, WalkLinked
<1>3. CASE ShowEnd
  BY <1>3 DEF ShowEnd, MutexHeld, WalkLinked
<1>4. CASE CountBegin
  BY <1>4 DEF CountBegin, MutexHeld, WalkLinked
<1>5. CASE CountRead
  <2>1. tally' \in Seq(Nat)
    BY <1>5 DEF CountRead
  <2> QED
    BY <1>5, <2>1 DEF CountRead, MutexHeld, WalkLinked
<1>6. CASE CountEnd
  <2>1. tally' \in Seq(Nat)
    BY <1>6 DEF CountEnd
  <2> QED
    BY <1>6, <2>1 DEF CountEnd, MutexHeld, WalkLinked
<1> QED
  BY <1>1, <1>2, <1>3, <1>4, <1>5, <1>6

LEMMA StepIInv == IInv /\ [Next]_vars => IInv'
<1> SUFFICES ASSUME IInv, [Next]_vars PROVE IInv'
  OBVIOUS
<1>1. CASE Deal
  <2>1. CASE DealStatic
    BY <2>1, InsertIInv, ZeroIsEntry DEF DealStatic
  <2>2. CASE \E e \in RealEntry : DealAddDyn(e)
    BY <2>2, InsertIInv, RealIsEntry DEF DealAddDyn
  <2>3. CASE \E e \in RealEntry : DealDelDyn(e)
    BY <2>3, RemoveIInv
  <2> QED
    BY <1>1, <2>1, <2>2, <2>3 DEF Deal
<1>2. CASE \E e \in RealEntry : AddStatic(e)
  BY <1>2, InsertIInv, RealIsEntry DEF AddStatic
<1>3. CASE \/ \E c \in ClearCmd : ClearBegin(c)
           \/ ClearDynEntry \/ ClearDynEnd \/ ClearStaticEntry \/ ClearStaticEnd
  BY <1>3, ClearIInv
<1>4. CASE \/ \E c \in ShowCmd : ShowBegin(c)
           \/ ShowEntry \/ ShowEnd
           \/ CountBegin \/ CountRead \/ CountEnd
  BY <1>4, ShowIInv
<1>5. CASE UNCHANGED vars
  BY <1>5 DEF vars, IInv, TypeOK, TablesFinite, TablesKeyed, CountsMatch,
              MutexHeld, WalkLinked
<1> QED
  BY <1>1, <1>2, <1>3, <1>4, <1>5 DEF Next, Cli

LEMMA Invariance == Spec => []IInv
<1> QED
  BY InitIInv, StepIInv, PTL DEF Spec

-----------------------------------------------------------------------------
\* Every variable of PI's database keeps its type; in particular the counters
\* never become negative, which in the code would be a wrap to 2^32 - 1.
THEOREM TypeCorrect == Spec => []TypeOK
<1>1. IInv => TypeOK
  BY DEF IInv
<1> QED
  BY <1>1, Invariance, PTL

\* Neither table of PI ever holds two entries with one address and vlan.
THEOREM KeysStayUnique == Spec => []TablesKeyed
<1>1. IInv => TablesKeyed
  BY DEF IInv
<1> QED
  BY <1>1, Invariance, PTL

\* static_addr_count and dyn_addr_count are the sizes of the tables, whatever
\* the two threads do.
THEOREM CountsStayRight == Spec => []CountsMatch
<1>1. IInv => CountsMatch
  BY DEF IInv
<1> QED
  BY <1>1, Invariance, PTL

\* A clear or show command never walks over an entry that has been freed.
THEOREM WalkStaysLive == Spec => []WalkIsLive
<1>1. IInv => WalkIsLive
  BY DEF IInv, TypeOK, WalkLinked, WalkIsLive
<1> QED
  BY <1>1, Invariance, PTL

-----------------------------------------------------------------------------
(* The refinement of PiTables. *)

\* The tables and the listing as PiTables sees them.
staticsOf == statics \ Doomed("STATIC", statics)
dynsOf    == dyns \ Doomed("DYNAMIC", dyns)
shownOf   == IF pc = "show" /\ left = {} THEN printed ELSE {}

\* What a listing has printed and what it has still to print make up what a
\* listing printed at once would show.
Printing(c, S, D) ==
    Tagged("STATIC", Selected(c, S))
        \cup Tagged("DYNAMIC", IF c.kind = "static" THEN {} ELSE Selected(c, D))

ListingKept ==
    /\ pc = "show" =>
        /\ cmd \in ShowCmd
        /\ printed \cup {r \in left : Selects(cmd, r[2])} = Printing(cmd, statics, dyns)
    /\ pc = "clearStatic" => cmd.kind # "dyn"

\* The operators of MacTable are the same through the instance.
LEMMA SameOperators ==
    /\ Tables!RealEntry = RealEntry /\ Tables!ZeroEntry = ZeroEntry
    /\ Tables!ClearCmd = ClearCmd /\ Tables!ShowCmd = ShowCmd
    /\ \A T, e : Tables!PutByKey(T, e) = PutByKey(T, e)
    /\ \A T, e : Tables!PiErasures(T, e) = PiErasures(T, e)
    /\ \A c, T : Tables!Selected(c, T) = Selected(c, T)
    /\ \A c, S, D : Tables!Listing(c, S, D) = Printing(c, S, D)
<1>1. /\ Tables!RealEntry = RealEntry /\ Tables!ZeroEntry = ZeroEntry
      /\ Tables!ClearCmd = ClearCmd /\ Tables!ShowCmd = ShowCmd
  BY DEF Tables!RealEntry, RealEntry, Tables!ZeroEntry, ZeroEntry,
         Tables!ClearCmd, ClearCmd, Tables!ShowCmd, ShowCmd
<1>2. \A T, e : Tables!PutByKey(T, e) = PutByKey(T, e)
  BY DEF Tables!PutByKey, PutByKey, Tables!Upsert, Upsert, Tables!KeyHits, KeyHits,
         Tables!SameKey, SameKey
<1>3. \A T, e : Tables!PiErasures(T, e) = PiErasures(T, e)
  BY DEF Tables!PiErasures, PiErasures, Tables!TextHits, TextHits, Tables!SameText, SameText
<1>4. \A c, T : Tables!Selected(c, T) = Selected(c, T)
  BY DEF Tables!Selected, Selected, Tables!Selects, Selects
<1>5. \A c, S, D : Tables!Listing(c, S, D) = Printing(c, S, D)
  BY <1>4 DEF Tables!Listing, Printing, Tables!Tagged, Tagged
<1> QED BY <1>1, <1>2, <1>3, <1>4, <1>5

LEMMA ListingStep == IInv /\ ListingKept /\ [Next]_vars => ListingKept'
<1> SUFFICES ASSUME IInv, ListingKept, [Next]_vars PROVE ListingKept'
  OBVIOUS
<1> USE DEF tables, cliVars
<1>1. ASSUME NEW c \in ShowCmd, ShowBegin(c) PROVE ListingKept'
  <2>1. {r \in left' : Selects(c, r[2])} = Printing(c, statics, dyns)
    BY <1>1 DEF ShowBegin, Printing, Selected, Tagged
  <2> QED BY <1>1, <2>1 DEF ShowBegin, ListingKept
<1>2. CASE ShowEntry
  <2>1. PICK r \in left : /\ left' = left \ {r}
                          /\ printed' = IF Selects(cmd, r[2]) THEN printed \cup {r} ELSE printed
    BY <1>2 DEF ShowEntry
  <2>2. printed' \cup {q \in left' : Selects(cmd, q[2])}
            = printed \cup {q \in left : Selects(cmd, q[2])}
    BY <2>1
  <2> QED BY <1>2, <2>2 DEF ShowEntry, ListingKept, Printing, Selected
<1>3. CASE Deal \/ \E e \in RealEntry : AddStatic(e)
  <2>1. pc \in {"idle", "count"} /\ pc' = pc
    BY <1>3 DEF Deal, DealStatic, DealAddDyn, DealDelDyn, AddStatic, IInv, MutexHeld, TypeOK
  <2> QED BY <2>1 DEF ListingKept
<1>4. CASE \/ \E c \in ClearCmd : ClearBegin(c)
           \/ ClearDynEntry \/ ClearDynEnd \/ ClearStaticEntry \/ ClearStaticEnd
           \/ ShowEnd \/ CountBegin \/ CountRead \/ CountEnd
  BY <1>4 DEF ClearBegin, ClearDynEntry, ClearDynEnd, ClearStaticEntry, ClearStaticEnd,
              ShowEnd, CountBegin, CountRead, CountEnd, ListingKept
<1>5. CASE UNCHANGED vars
  BY <1>5 DEF vars, ListingKept, Printing, Selected, Selects
<1> QED BY <1>1, <1>2, <1>3, <1>4, <1>5 DEF Next, Cli

\* While nobody clears, the tables are seen as they are.
LEMMA NothingDoomed ==
    ASSUME pc \notin {"clearDyn", "clearStatic"}
    PROVE  staticsOf = statics /\ dynsOf = dyns
BY DEF staticsOf, dynsOf, Doomed

\* While the dynamic table is cleared, the entries that the walk will still
\* unlink, and those of the static table that are next, count as gone.
LEMMA DoomedInWalk ==
    ASSUME IInv
    PROVE  /\ pc = "clearDyn" =>
                /\ dynsOf = dyns \ {e \in dyns : <<"DYNAMIC", e>> \in left /\ Selects(cmd, e)}
                /\ staticsOf = IF cmd.kind = "dyn" THEN statics
                                                   ELSE statics \ Selected(cmd, statics)
           /\ pc = "clearStatic" =>
                /\ dynsOf = dyns
                /\ staticsOf = statics \ {e \in statics : <<"STATIC", e>> \in left /\ Selects(cmd, e)}
<1>1. pc = "clearDyn" => \A e : <<"STATIC", e>> \notin left
  BY DEF IInv, WalkLinked, Tagged
<1>2. pc = "clearStatic" => \A e : <<"DYNAMIC", e>> \notin left
  BY DEF IInv, WalkLinked, Tagged
<1> QED BY <1>1, <1>2 DEF dynsOf, staticsOf, Doomed, Selected

LEMMA InitTables == Init => Tables!TablesInit /\ ListingKept
BY DEF Init, Tables!TablesInit, ListingKept, Doomed

\* deal_info_func and the command for a static address run while nobody walks.
LEMMA EntryRefines ==
    ASSUME IInv, Deal \/ \E e \in RealEntry : AddStatic(e)
    PROVE  Tables!TablesNext
<1>1. pc \notin {"clearDyn", "clearStatic", "show"} /\ pc' = pc
  BY DEF Deal, DealStatic, DealAddDyn, DealDelDyn, AddStatic, cliVars, IInv, MutexHeld, TypeOK
<1>2. /\ staticsOf = statics /\ dynsOf = dyns /\ shownOf = {}
      /\ staticsOf' = statics' /\ dynsOf' = dyns' /\ shownOf' = {}
  BY <1>1 DEF staticsOf, dynsOf, shownOf, Doomed
<1>3. ASSUME NEW e \in RealEntry \cup {ZeroEntry}, InsertStatic(e)
      PROVE  Tables!PutStatic(e)
  BY <1>2, <1>3, SameOperators DEF InsertStatic, Tables!PutStatic, staticsOf, dynsOf, shownOf
<1>4. ASSUME NEW e \in RealEntry, InsertDyn(e)
      PROVE  Tables!PutDyn(e)
  BY <1>2, <1>4, SameOperators DEF InsertDyn, Tables!PutDyn, staticsOf, dynsOf, shownOf
<1>5. ASSUME NEW e \in RealEntry, RemoveDyn(e)
      PROVE  Tables!EraseDyn(e)
  BY <1>2, <1>5, SameOperators DEF RemoveDyn, Tables!EraseDyn, staticsOf, dynsOf, shownOf
<1>6. CASE DealStatic
  BY <1>3, <1>6, SameOperators DEF DealStatic, Tables!TablesNext
<1>7. CASE \E e \in RealEntry : DealAddDyn(e) \/ DealDelDyn(e) \/ AddStatic(e)
  BY <1>3, <1>4, <1>5, <1>7, SameOperators
     DEF DealAddDyn, DealDelDyn, AddStatic, Tables!TablesNext
<1> QED BY <1>6, <1>7 DEF Deal

\* A clear command takes effect when it takes the mutex; what follows until it
\* releases it is no step of PiTables.
LEMMA ClearRefines ==
    ASSUME IInv, ListingKept,
           \/ \E c \in ClearCmd : ClearBegin(c)
           \/ ClearDynEntry \/ ClearDynEnd \/ ClearStaticEntry \/ ClearStaticEnd
    PROVE  Tables!TablesNext \/ UNCHANGED <<staticsOf, dynsOf, shownOf>>
<1> USE DEF tables
<1>1. ASSUME NEW c \in ClearCmd, ClearBegin(c) PROVE Tables!TablesNext
  <2>1. staticsOf = statics /\ dynsOf = dyns /\ shownOf = {} /\ shownOf' = {}
    BY <1>1, NothingDoomed DEF ClearBegin, shownOf
  <2>2. dynsOf' = dyns \ Selected(c, dyns)
    BY <1>1 DEF ClearBegin, dynsOf, Doomed, Tagged, Selected
  <2>3. staticsOf' = IF c.kind = "dyn" THEN statics ELSE statics \ Selected(c, statics)
    <3>1. \A e : <<"STATIC", e>> \notin left'
      BY <1>1 DEF ClearBegin, Tagged
    <3> QED BY <1>1, <3>1 DEF ClearBegin, staticsOf, Doomed, Selected
  <2>4. Tables!Clear(c)
    BY <2>1, <2>2, <2>3, SameOperators DEF Tables!Clear, staticsOf, dynsOf, shownOf
  <2> QED BY <2>4, SameOperators DEF Tables!TablesNext
<1>2. CASE ClearDynEntry
  <2>1. PICK r \in left :
            /\ left' = left \ {r}
            /\ IF Selects(cmd, r[2]) THEN dyns' = dyns \ {r[2]} ELSE UNCHANGED dyns
    BY <1>2 DEF ClearDynEntry
  <2>2. PICK e \in dyns : r = <<"DYNAMIC", e>>
    BY <1>2, <2>1 DEF ClearDynEntry, IInv, WalkLinked, Tagged
  <2>3. r[2] = e /\ \A d : <<"DYNAMIC", d>> \in left' <=> <<"DYNAMIC", d>> \in left /\ d # e
    BY <2>1, <2>2
  <2>4. pc = "clearDyn" /\ pc' = "clearDyn" /\ cmd' = cmd /\ statics' = statics
    BY <1>2 DEF ClearDynEntry
  <2>5. dynsOf' = dynsOf
    BY <2>1, <2>2, <2>3, <2>4 DEF dynsOf, Doomed
  <2>6. staticsOf' = staticsOf
    <3>1. \A d : <<"STATIC", d>> \notin left
      BY <2>4 DEF IInv, WalkLinked, Tagged
    <3> QED BY <2>1, <2>4, <3>1 DEF staticsOf, Doomed
  <2> QED BY <2>4, <2>5, <2>6 DEF shownOf
<1>3. CASE ClearDynEnd
  <2>1. /\ pc = "clearDyn" /\ left = {} /\ dyns' = dyns /\ statics' = statics
        /\ IF cmd.kind = "dyn"
           THEN pc' = "idle"
           ELSE pc' = "clearStatic" /\ left' = Tagged("STATIC", statics) /\ cmd' = cmd
    BY <1>3 DEF ClearDynEnd
  <2>2. dynsOf = dyns
    BY <2>1 DEF dynsOf, Doomed
  <2>3. dynsOf' = dyns
    <3>1. pc' = "clearStatic" => \A e : <<"DYNAMIC", e>> \notin left'
      BY <2>1 DEF Tagged
    <3> QED BY <2>1, <3>1 DEF dynsOf, Doomed
  <2>4. staticsOf' = staticsOf
    <3>1. pc' = "clearStatic" => \A e \in statics : <<"STATIC", e>> \in left'
      BY <2>1 DEF Tagged
    <3> QED BY <2>1, <3>1 DEF staticsOf, Doomed
  <2> QED BY <2>1, <2>2, <2>3, <2>4 DEF shownOf
<1>4. CASE ClearStaticEntry
  <2>1. PICK r \in left :
            /\ left' = left \ {r}
            /\ IF Selects(cmd, r[2]) THEN statics' = statics \ {r[2]} ELSE UNCHANGED statics
    BY <1>4 DEF ClearStaticEntry
  <2>2. PICK e \in statics : r = <<"STATIC", e>>
    BY <1>4, <2>1 DEF ClearStaticEntry, IInv, WalkLinked, Tagged
  <2>3. r[2] = e /\ \A d : <<"STATIC", d>> \in left' <=> <<"STATIC", d>> \in left /\ d # e
    BY <2>1, <2>2
  <2>4. pc = "clearStatic" /\ pc' = "clearStatic" /\ cmd' = cmd /\ dyns' = dyns
    BY <1>4 DEF ClearStaticEntry
  <2>5. staticsOf' = staticsOf
    BY <2>1, <2>2, <2>3, <2>4 DEF staticsOf, Doomed
  <2>6. dynsOf' = dynsOf
    <3>1. \A d : <<"DYNAMIC", d>> \notin left
      BY <2>4 DEF IInv, WalkLinked, Tagged
    <3> QED BY <2>1, <2>4, <3>1 DEF dynsOf, Doomed
  <2> QED BY <2>4, <2>5, <2>6 DEF shownOf
<1>5. CASE ClearStaticEnd
  BY <1>5 DEF ClearStaticEnd, staticsOf, dynsOf, shownOf, Doomed
<1> QED BY <1>1, <1>2, <1>3, <1>4, <1>5

\* A listing is one step, its last entry: until then the mutex kept the tables
\* as they were.
LEMMA ShowRefines ==
    ASSUME IInv, ListingKept,
           \/ \E c \in ShowCmd : ShowBegin(c)
           \/ ShowEntry \/ ShowEnd \/ CountBegin \/ CountRead \/ CountEnd
    PROVE  Tables!TablesNext \/ UNCHANGED <<staticsOf, dynsOf, shownOf>>
<1> USE DEF tables
<1>0. /\ pc \notin {"clearDyn", "clearStatic"} /\ pc' \notin {"clearDyn", "clearStatic"}
      /\ statics' = statics /\ dyns' = dyns
  BY DEF ShowBegin, ShowEntry, ShowEnd, CountBegin, CountRead, CountEnd
<1>1. /\ staticsOf = statics /\ dynsOf = dyns
      /\ staticsOf' = statics /\ dynsOf' = dyns
  BY <1>0 DEF staticsOf, dynsOf, Doomed
<1>2. CASE \E c \in ShowCmd : ShowBegin(c)
  BY <1>1, <1>2 DEF ShowBegin, shownOf
<1>3. CASE ShowEntry
  <2>1. pc = "show" /\ pc' = "show" /\ left # {} /\ cmd' = cmd
    BY <1>3 DEF ShowEntry
  <2>2. shownOf = {}
    BY <2>1 DEF shownOf
  <2>3. CASE left' # {}
    BY <1>1, <2>1, <2>2, <2>3 DEF shownOf
  <2>4. CASE left' = {}
    <3>1. PICK r \in left : /\ left' = left \ {r}
                            /\ printed' = IF Selects(cmd, r[2]) THEN printed \cup {r} ELSE printed
      BY <1>3 DEF ShowEntry
    <3>2. left = {r}
      BY <2>4, <3>1
    <3>3. printed' = printed \cup {q \in left : Selects(cmd, q[2])}
      BY <3>1, <3>2
    <3>4. cmd \in ShowCmd /\ shownOf' = Printing(cmd, statics, dyns)
      BY <2>1, <2>4, <3>3 DEF ListingKept, shownOf
    <3>5. Tables!Show(cmd)
      BY <1>1, <3>4, SameOperators DEF Tables!Show, staticsOf, dynsOf, shownOf
    <3> QED BY <3>4, <3>5, SameOperators DEF Tables!TablesNext
  <2> QED BY <2>3, <2>4
<1>4. CASE ShowEnd
  <2>1. shownOf' = {}
    BY <1>4 DEF ShowEnd, shownOf
  <2>2. Tables!Prompt
    BY <1>1, <2>1 DEF Tables!Prompt, staticsOf, dynsOf, shownOf
  <2> QED BY <2>2 DEF Tables!TablesNext
<1>5. CASE CountBegin \/ CountRead \/ CountEnd
  BY <1>1, <1>5 DEF CountBegin, CountRead, CountEnd, shownOf
<1> QED BY <1>2, <1>3, <1>4, <1>5

LEMMA StepTables ==
    IInv /\ ListingKept /\ [Next]_vars => [Tables!TablesNext]_(Tables!tableVars)
<1> SUFFICES ASSUME IInv, ListingKept, [Next]_vars
             PROVE  Tables!TablesNext \/ UNCHANGED <<staticsOf, dynsOf, shownOf>>
  BY DEF Tables!tableVars, staticsOf, dynsOf, shownOf
<1>1. CASE Deal \/ \E e \in RealEntry : AddStatic(e)
  BY <1>1, EntryRefines
<1>2. CASE \/ \E c \in ClearCmd : ClearBegin(c)
           \/ ClearDynEntry \/ ClearDynEnd \/ ClearStaticEntry \/ ClearStaticEnd
  BY <1>2, ClearRefines
<1>3. CASE \/ \E c \in ShowCmd : ShowBegin(c)
           \/ ShowEntry \/ ShowEnd \/ CountBegin \/ CountRead \/ CountEnd
  BY <1>3, ShowRefines
<1>4. CASE UNCHANGED vars
  BY <1>4 DEF vars, staticsOf, dynsOf, shownOf, Doomed, Selects
<1> QED BY <1>1, <1>2, <1>3, <1>4 DEF Next, Cli

\* The many steps of PI's commands and of deal_info_func behave as operations
\* that happen at one instant each.
THEOREM OperationsAtomic == Spec => TablesAtomic
<1> QED
  BY InitTables, ListingStep, StepTables, Invariance, PTL
     DEF Spec, TablesAtomic, Tables!TablesSpec
=============================================================================

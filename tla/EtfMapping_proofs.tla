-------------------------- MODULE EtfMapping_proofs --------------------------
(***************************************************************************)
(* Proofs about EtfMapping: no code is ever carried by two funds, no ETF   *)
(* takes a fund another one has, and no premium rests on an implausible    *)
(* NAV, for any board and any funds.  The first two are about the two      *)
(* views of funds.ins_code that autoflush=False keeps apart.               *)
(***************************************************************************)
EXTENDS EtfMapping, TLAPS

\* No two funds share a code in the database's view m.
OneEach(m) == \A f, g \in Funds : f # g /\ m[f] # None => m[f] # m[g]

\* What a stored entry relies on: both views are free of shared codes, an
\* object changed in this cycle carries no code whose entry is still to come,
\* and no object outlives its cycle.
SessionInv ==
  /\ OneEach(code) /\ OneEach(sqlCode)
  /\ \A f \in DOMAIN memCode : memCode[f] \notin DOMAIN entries
  /\ pc = "idle" => DOMAIN memCode = {}

Inv == TypeOK /\ OneFundPerCode /\ SessionInv

\* What an entry may change: funds, to its own code or to none.
Changes(c, changed) ==
  /\ DOMAIN changed \subseteq Funds
  /\ \A f \in DOMAIN changed : changed[f] \in {None, c}

\* A seeded database has no shared code and no session.
LEMMA InitInv == Init => Inv
<1> SUFFICES ASSUME Init PROVE Inv
  OBVIOUS
<1>1. DOMAIN memCode = {} /\ DOMAIN memNav = {} /\ DOMAIN newRows = {} /\ DOMAIN entries = {}
  BY DEF Init, NoRows
<1>2. TypeOK
  BY <1>1, MappingAssumption DEF Init, TypeOK
<1>3. \A f \in Funds : Code(f) = code[f]
  BY <1>1 DEF Init, Code
<1>4. OneEach(code) /\ OneEach(sqlCode)
  BY DEF Init, OneEach
<1> QED
  BY <1>1, <1>2, <1>3, <1>4 DEF Inv, SessionInv, OneFundPerCode, OneEach

\* When the session ends, both views are the database's.
LEMMA FreshSession ==
  ASSUME TypeOK', OneEach(code'), sqlCode' = code', DOMAIN memCode' = {}
  PROVE  OneFundPerCode' /\ SessionInv'
<1>1. \A f \in Funds : Code(f)' = code'[f]
  BY DEF Code
<1> QED
  BY <1>1 DEF OneFundPerCode, SessionInv, OneEach

\* The upsert of an entry, with or without the flush, changes the cycle's view
\* of the changed funds and of no other.
LEMMA WriteView ==
  ASSUME TypeOK, NEW c \in DOMAIN entries, NEW fund, NEW changed,
         Changes(c, changed), Write(c, fund, changed)
  PROVE  /\ \A f \in Funds : Code(f)' = IF f \in DOMAIN changed THEN changed[f] ELSE Code(f)
         /\ \/ sqlCode' = sqlCode
            \/ \A f \in Funds : sqlCode'[f] = Code(f)'
         /\ \A f \in DOMAIN memCode' :
              \/ f \in DOMAIN changed /\ memCode'[f] = changed[f]
              \/ f \in DOMAIN memCode /\ memCode'[f] = memCode[f]
<1>1. CASE PendingRow(c) = None
  <2>1. /\ sqlCode' = Update(sqlCode, Update(memCode, changed))
        /\ DOMAIN memCode' = {}
    BY <1>1 DEF Write, NoRows
  <2>2. \A f \in Funds : sqlCode'[f] = IF f \in DOMAIN changed THEN changed[f] ELSE Code(f)
    BY <2>1 DEF TypeOK, Update, Code, Changes
  <2>3. \A f \in Funds : Code(f)' = sqlCode'[f]
    BY <2>1 DEF Code
  <2> QED
    BY <2>1, <2>2, <2>3
<1>2. CASE PendingRow(c) # None
  <2>1. sqlCode' = sqlCode /\ memCode' = Update(memCode, changed)
    BY <1>2 DEF Write
  <2>2. /\ DOMAIN memCode' = DOMAIN memCode \union DOMAIN changed
        /\ \A f \in DOMAIN memCode' :
             memCode'[f] = IF f \in DOMAIN changed THEN changed[f] ELSE memCode[f]
    BY <2>1 DEF Update
  <2> QED
    BY <2>1, <2>2 DEF Code
<1> QED
  BY <1>1, <1>2

\* The upsert keeps the types.
LEMMA WriteTypes ==
  ASSUME TypeOK, NEW c \in DOMAIN entries, NEW fund, NEW changed,
         Changes(c, changed), Write(c, fund, changed)
  PROVE  TypeOK'
<1>1. c \in Codes
  BY DEF TypeOK
<1>2. UNCHANGED <<price, navStat, code, row, pc, changes>>
  BY DEF Write, tables
<1>3. DOMAIN entries' \subseteq Codes
  BY DEF Write, TypeOK
<1>4. DOMAIN newRows' \subseteq Codes
  BY <1>1 DEF Write, TypeOK, Update
<1>5. /\ sqlCode' \in [Funds -> Codes \union {None}]
      /\ DOMAIN memCode' \subseteq Funds /\ DOMAIN memNav' = DOMAIN memCode'
  <2>1. CASE PendingRow(c) = None
    <3>1. sqlCode' = Update(sqlCode, Update(memCode, changed))
      BY <2>1 DEF Write
    <3>2. DOMAIN memCode' = {} /\ DOMAIN memNav' = {}
      BY <2>1 DEF Write, NoRows
    <3>3. sqlCode' \in [Funds -> Codes \union {None}]
      BY <3>1, <1>1 DEF TypeOK, Update, Changes
    <3> QED
      BY <3>2, <3>3
  <2>2. CASE PendingRow(c) # None
    <3>1. /\ sqlCode' = sqlCode
          /\ memCode' = Update(memCode, changed)
          /\ memNav' = Update([f \in DOMAIN changed |-> Nav(f)], memNav)
      BY <2>2 DEF Write
    <3> QED
      BY <3>1 DEF TypeOK, Update, Changes
  <2> QED
    BY <2>1, <2>2
<1>6. \A f \in DOMAIN memCode' : memCode'[f] \in Codes \union {None}
  BY WriteView, <1>1 DEF TypeOK, Changes
<1> QED
  BY <1>2, <1>3, <1>4, <1>5, <1>6 DEF TypeOK

\* An upsert that shares no code in the cycle's view keeps the invariant.
LEMMA WriteInv ==
  ASSUME Inv, pc = "store", NEW c \in DOMAIN entries, NEW fund, NEW changed,
         Changes(c, changed), Write(c, fund, changed),
         \A f, g \in Funds : f # g /\ Code(f)' # None => Code(f)' # Code(g)'
  PROVE  Inv'
<1>1. TypeOK /\ TypeOK'
  BY WriteTypes DEF Inv
<1>2. pc' = pc /\ code' = code /\ DOMAIN entries' = DOMAIN entries \ {c}
  BY DEF Write, tables
<1>3. OneFundPerCode'
  BY <1>2 DEF Inv, SessionInv, OneEach, OneFundPerCode
<1>4. OneEach(sqlCode)'
  BY <1>1, WriteView DEF Inv, SessionInv, OneEach
<1>5. \A f \in DOMAIN memCode' : memCode'[f] \notin DOMAIN entries'
  BY <1>1, <1>2, WriteView, MappingAssumption DEF Inv, SessionInv, Changes, TypeOK
<1> QED
  BY <1>1, <1>2, <1>3, <1>4, <1>5 DEF Inv, SessionInv, OneEach

\* A fund that keeps its mapping changes nothing.
LEMMA MappedStep ==
  ASSUME Inv, NEW c \in Codes, StoreMapped(c)
  PROVE  Inv' /\ \A f \in Funds : Code(f)' = Code(f)
<1>1. pc = "store" /\ c \in DOMAIN entries
  BY DEF StoreMapped
<1>2. PICK fund \in Mapped(c) : Write(c, fund, NoRows)
  BY DEF StoreMapped
<1>3. Changes(c, NoRows) /\ DOMAIN NoRows = {}
  BY DEF Changes, NoRows
<1>4. \A f \in Funds : Code(f)' = Code(f)
  BY <1>1, <1>2, <1>3, WriteView DEF Inv
<1>5. \A f, g \in Funds : f # g /\ Code(f)' # None => Code(f)' # Code(g)'
  BY <1>4 DEF Inv, OneFundPerCode
<1> QED
  BY <1>1, <1>2, <1>3, <1>4, <1>5, WriteInv

\* An ETF without a mapping, or whose mapping is let go, takes a fund that
\* neither the database nor the cycle gives to another.
LEMMA UnmappedStep ==
  ASSUME Inv, NEW c \in Codes, StoreUnmapped(c)
  PROVE  /\ Inv'
         /\ \A f \in Funds : Code(f) # None => Code(f)' \in {Code(f), None}
<1>1. pc = "store" /\ c \in DOMAIN entries
  BY DEF StoreUnmapped
<1>2. PICK freed \in {{f} : f \in Mapped(c)} \union (IF Mapped(c) = {} THEN {{}} ELSE {}) :
        \/ Write(c, None, [f \in freed |-> None])
        \/ \E w \in Winners(c) :
             Write(c, w, Update([f \in freed |-> None], [f \in {w} |-> c]))
  BY DEF StoreUnmapped
<1>3. freed = Mapped(c)
  <2>1. \A f, g \in Mapped(c) : f = g
    BY MappingAssumption DEF Mapped, Inv, SessionInv, OneEach
  <2> QED
    BY <1>2, <2>1
<1>4. freed \subseteq Funds
  BY <1>3 DEF Mapped
<1>5. CASE Write(c, None, [f \in freed |-> None])
  <2> DEFINE cleared == [f \in freed |-> None]
  <2>1. Changes(c, cleared)
    BY <1>4 DEF Changes
  <2>2. \A f \in Funds : Code(f)' = IF f \in freed THEN None ELSE Code(f)
    BY <1>1, <1>5, <2>1, WriteView DEF Inv
  <2>3. \A f, g \in Funds : f # g /\ Code(f)' # None => Code(f)' # Code(g)'
    BY <2>2 DEF Inv, OneFundPerCode
  <2> QED
    BY <1>1, <1>5, <2>1, <2>2, <2>3, WriteInv
<1>6. ASSUME NEW w \in Winners(c),
             Write(c, w, Update([f \in freed |-> None], [f \in {w} |-> c]))
      PROVE  /\ Inv'
             /\ \A f \in Funds : Code(f) # None => Code(f)' \in {Code(f), None}
  <2> DEFINE changed == Update([f \in freed |-> None], [f \in {w} |-> c])
  <2>1. w \in Funds /\ Code(w) = None
    BY DEF Winners, Candidates
  <2>2. /\ DOMAIN changed = freed \union {w}
        /\ \A f \in DOMAIN changed : changed[f] = IF f = w THEN c ELSE None
    BY DEF Update
  <2> HIDE DEF changed
  <2>3. Changes(c, changed)
    BY <1>4, <2>1, <2>2 DEF Changes
  <2>4. \A f \in Funds : Code(f)' = IF f = w THEN c ELSE IF f \in freed THEN None ELSE Code(f)
    BY <1>1, <1>6, <2>2, <2>3, WriteView DEF Inv, changed
  <2>5. \A g \in Funds : g \notin freed => Code(g) # c
    BY <1>1, <1>3 DEF Mapped, Code, Inv, SessionInv
  <2>6. \A f, g \in Funds : f # g /\ Code(f)' # None => Code(f)' # Code(g)'
    BY <2>4, <2>5, MappingAssumption DEF Inv, OneFundPerCode
  <2> QED
    BY <1>1, <1>6, <2>1, <2>3, <2>4, <2>6, WriteInv DEF changed
<1> QED
  BY <1>2, <1>5, <1>6

\* Every step keeps the invariant.
LEMMA StepInv == Inv /\ [Next]_vars => Inv'
<1> SUFFICES ASSUME Inv, [Next]_vars PROVE Inv'
  OBVIOUS
<1>1. CASE FetchBoard
  <2>1. /\ UNCHANGED <<price, navStat, code, row, memCode, memNav, newRows, changes>>
        /\ pc = "idle" /\ pc' = "store" /\ sqlCode' = code
    BY <1>1 DEF FetchBoard, tables
  <2>2. DOMAIN entries' \subseteq Codes
    BY <1>1 DEF FetchBoard
  <2>3. DOMAIN memCode' = {}
    BY <2>1 DEF Inv, SessionInv
  <2>4. TypeOK'
    BY <2>1, <2>2 DEF Inv, TypeOK
  <2>5. OneEach(code')
    BY <2>1 DEF Inv, SessionInv, OneEach
  <2> QED
    BY <2>1, <2>3, <2>4, <2>5, FreshSession DEF Inv
<1>2. CASE StoreEntry
  BY <1>2, MappedStep, UnmappedStep DEF StoreEntry
<1>3. CASE Commit
  <2>1. /\ UNCHANGED <<price, navStat, changes>> /\ pc' = "idle"
        /\ code' = [f \in Funds |-> Code(f)] /\ sqlCode' = code'
        /\ DOMAIN memCode' = {} /\ DOMAIN memNav' = {} /\ DOMAIN entries' = {}
        /\ DOMAIN newRows' = {}
    BY <1>3 DEF Commit, EndCycle, NoRows
  <2>2. \A f \in Funds : Code(f) \in Codes \union {None}
    BY DEF Inv, TypeOK, Code
  <2>3. TypeOK'
    BY <2>1, <2>2 DEF Inv, TypeOK
  <2>4. OneEach(code')
    BY <2>1 DEF Inv, OneFundPerCode, OneEach
  <2> QED
    BY <2>1, <2>3, <2>4, FreshSession DEF Inv
<1>4. CASE RollBack
  <2>1. /\ UNCHANGED <<price, navStat, code, row>> /\ pc' = "idle" /\ sqlCode' = code
        /\ DOMAIN memCode' = {} /\ DOMAIN memNav' = {} /\ DOMAIN entries' = {}
        /\ DOMAIN newRows' = {}
        /\ changes < MaxChanges /\ changes' = changes + 1
    BY <1>4 DEF RollBack, EndCycle, NoRows, tables
  <2>2. TypeOK'
    BY <2>1, MappingAssumption DEF Inv, TypeOK
  <2>3. OneEach(code')
    BY <2>1 DEF Inv, SessionInv, OneEach
  <2> QED
    BY <2>1, <2>2, <2>3, FreshSession DEF Inv
<1>5. ASSUME UNCHANGED <<code, session>>, TypeOK'
      PROVE  Inv'
  <2>1. UNCHANGED <<code, pc, entries, sqlCode, memCode>>
    BY <1>5 DEF session
  <2>2. \A f \in Funds : Code(f)' = Code(f)
    BY <2>1 DEF Code
  <2> QED
    BY <1>5, <2>1, <2>2 DEF Inv, OneFundPerCode, SessionInv, OneEach
<1>6. ASSUME NEW c \in Codes, Trade(c)
      PROVE  Inv'
  <2>1. TypeOK'
    BY <1>6, MappingAssumption DEF Trade, Inv, TypeOK, tables, session
  <2> QED
    BY <1>5, <1>6, <2>1 DEF Trade, tables
<1>7. ASSUME NEW f \in Funds, SyncNav(f)
      PROVE  Inv'
  <2>1. TypeOK'
    BY <1>7, MappingAssumption DEF SyncNav, Inv, TypeOK, tables, session
  <2> QED
    BY <1>5, <1>7, <2>1 DEF SyncNav, tables
<1>8. CASE UNCHANGED vars
  BY <1>5, <1>8 DEF vars, tables, session, Inv, TypeOK
<1> QED
  BY <1>1, <1>2, <1>3, <1>4, <1>6, <1>7, <1>8 DEF Next

\* The inductive invariant holds in every state.
LEMMA Invariant == Spec => []Inv
BY InitInv, StepInv, PTL DEF Spec

\* Types.
THEOREM TypeCorrect == Spec => []TypeOK
BY Invariant, PTL DEF Inv

\* The lookup of a fund by ins_code (tasks.py:251-253) finds at most one, in
\* the database and in every query of a cycle, for any number of ETFs.
THEOREM OneFundEach == Spec => []OneFundPerCode
BY Invariant, PTL DEF Inv

\* Only the storing of entries touches the view within a cycle, and an entry
\* takes a fund only while both views have it free.
LEMMA StepNotStolen ==
  Inv /\ [Next]_vars =>
    (pc = "store" /\ pc' = "store" =>
       \A f \in Funds : Code(f) # None => Code(f)' \in {Code(f), None})
<1> SUFFICES ASSUME Inv, [Next]_vars, pc = "store", pc' = "store"
             PROVE  \A f \in Funds : Code(f) # None => Code(f)' \in {Code(f), None}
  OBVIOUS
<1>1. CASE StoreEntry
  BY <1>1, MappedStep, UnmappedStep DEF StoreEntry
<1>2. CASE ~StoreEntry
  <2>1. UNCHANGED session
    BY <1>2 DEF Next, FetchBoard, Commit, RollBack, EndCycle, Trade, SyncNav, vars
  <2> QED
    BY <2>1 DEF session, Code
<1> QED
  BY <1>1, <1>2

\* Within a cycle no ETF takes the fund of another (tasks.py:91-93).
THEOREM NeverStolen == Spec => NotStolen
<1>1. Inv /\ [Next]_vars =>
        [pc = "store" /\ pc' = "store" =>
           \A f \in Funds : Code(f) # None => Code(f)' \in {Code(f), None}]_vars
  BY StepNotStolen
<1> QED
  BY <1>1, Invariant, PTL DEF Spec, NotStolen
-----------------------------------------------------------------------------
(* The NAV behind a premium. *)

\* A row whose NAV, if it has one, agrees with its price.
Sound(r) == r.nav # None => Plausible(r.price, r.nav)

\* Rows are sound while they wait for the commit, and after it.
BasisInv ==
  /\ DOMAIN row = Codes
  /\ \A c \in Codes : row[c] # None => Sound(row[c])
  /\ \A c \in DOMAIN newRows : Sound(newRows[c])

\* The NAV chosen for a premium is the one that was compared with the price.
LEMMA BasisFits ==
  ASSUME NEW e, NEW fund, Basis(e, fund) # None
  PROVE  Plausible(e.price, Basis(e, fund))
<1> DEFINE navs == NavSources(e, fund)
           fits == {i \in 1..4 : Plausible(e.price, navs[i])}
           first == CHOOSE i \in fits : \A j \in fits : i <= j
<1>1. Basis(e, fund) = IF fits = {} THEN None ELSE navs[first]
  BY DEF Basis, FirstOf
<1>2. fits # {}
  BY <1>1
<1>3. \E i \in fits : \A j \in fits : i <= j
  <2>1. \A i \in fits : i \in {1, 2, 3, 4}
    OBVIOUS
  <2> HIDE DEF fits
  <2>2. CASE 1 \in fits
    BY <2>1, <2>2
  <2>3. CASE 1 \notin fits /\ 2 \in fits
    BY <2>1, <2>3
  <2>4. CASE 1 \notin fits /\ 2 \notin fits /\ 3 \in fits
    BY <2>1, <2>4
  <2>5. CASE 1 \notin fits /\ 2 \notin fits /\ 3 \notin fits
    BY <1>2, <2>1, <2>5
  <2> QED
    BY <2>1, <2>2, <2>3, <2>4, <2>5
<1>4. first \in fits
  <2> HIDE DEF fits
  <2> QED
    BY <1>3
<1> QED
  BY <1>1, <1>2, <1>4

\* An upsert adds a sound row.
LEMMA WriteSound ==
  ASSUME BasisInv, NEW c, NEW fund, NEW changed, Write(c, fund, changed)
  PROVE  BasisInv'
<1> DEFINE r == [price |-> entries[c].price, nav |-> Basis(entries[c], fund)]
<1>1. newRows' = Update(newRows, [x \in {c} |-> r]) /\ row' = row
  BY DEF Write, tables
<1>2. Sound(r)
  BY BasisFits DEF Sound
<1> HIDE DEF r
<1>3. \A x \in DOMAIN newRows' : newRows'[x] = r \/ (x \in DOMAIN newRows /\ newRows'[x] = newRows[x])
  BY <1>1 DEF Update
<1>4. \A x \in DOMAIN newRows' : Sound(newRows'[x])
  BY <1>2, <1>3 DEF BasisInv
<1> QED
  BY <1>1, <1>4 DEF BasisInv, Sound

\* A premium is only ever stored over a NAV within the bound of its price
\* (tasks.py:267-287), for every bound, price and NAV.
THEOREM BasisSound == Spec => []BasisPlausible
<1>1. Init => BasisInv
  BY DEF Init, BasisInv, NoRows
<1>2. TypeOK /\ BasisInv /\ [Next]_vars => BasisInv'
  <2> SUFFICES ASSUME TypeOK, BasisInv, [Next]_vars PROVE BasisInv'
    OBVIOUS
  <2>1. CASE StoreEntry
    BY <2>1, WriteSound DEF StoreEntry, StoreMapped, StoreUnmapped
  <2>2. CASE Commit
    <3>1. row' = Update(row, newRows) /\ DOMAIN newRows' = {}
      BY <2>2 DEF Commit, EndCycle, NoRows
    <3>2. DOMAIN row' = Codes
      BY <3>1 DEF Update, BasisInv, TypeOK
    <3>3. \A c \in Codes : row'[c] = IF c \in DOMAIN newRows THEN newRows[c] ELSE row[c]
      BY <3>1 DEF Update, BasisInv
    <3> QED
      BY <3>1, <3>2, <3>3 DEF BasisInv, Sound
  <2>3. CASE RollBack
    BY <2>3 DEF RollBack, EndCycle, NoRows, tables, BasisInv, Sound
  <2>4. CASE ~StoreEntry /\ ~Commit /\ ~RollBack
    <3>1. UNCHANGED <<row, newRows>>
      BY <2>4 DEF Next, FetchBoard, Trade, SyncNav, vars, tables, session
    <3> QED
      BY <3>1 DEF BasisInv, Sound
  <2> QED
    BY <2>1, <2>2, <2>3, <2>4
<1>3. BasisInv => BasisPlausible
  BY DEF BasisInv, BasisPlausible, Sound
<1> QED
  BY <1>1, <1>2, <1>3, TypeCorrect, PTL DEF Spec
=============================================================================

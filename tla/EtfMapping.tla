----------------------------- MODULE EtfMapping -----------------------------
(***************************************************************************)
(* One cycle of services/tasks.py (update_etf_market_data): the live ETF   *)
(* board is fetched and enriched outside any transaction, then stored in   *)
(* one.  For every entry the cycle re-examines the mapping of the ETF to a *)
(* fund, chooses the NAV its premium is computed from, and upserts the row *)
(* of etf_market.                                                          *)
(*                                                                         *)
(* The SQLAlchemy session runs with autoflush=False (core/database.py:14). *)
(* A query therefore filters on what the database holds (sqlCode), while   *)
(* the objects it returns carry the changes of this cycle (memCode); only  *)
(* the flush for a new etf_market row, and the commit, bring them together. *)
(* Entries are keyed by code: a board that lists one code twice is left out. *)
(* Definitions named Var... are plausible wrong versions of the one that    *)
(* follows them; the properties tell each from the code.                    *)
(***************************************************************************)
EXTENDS Integers, Sequences, FiniteSets

CONSTANTS
  Funds,
  Codes,        \* ins_code of the ETFs on the board
  Named,        \* <<code, fund>>: the ETF's symbol occurs in the fund's name
  Prices,       \* market prices; 0 stands for "no trade yet"
  Navs,         \* values of nav_stat; 0 stands for missing
  Quotes,       \* [nav, sub, red] an entry may carry once enriched
  MaxChanges,   \* bound on changes of prices, of navs and on faults
  None

ASSUME MappingAssumption ==
  /\ Named \subseteq Codes \X Funds
  /\ Prices \subseteq Nat /\ Navs \subseteq Nat
  /\ None \notin Codes
  /\ MaxChanges \in Nat

VARIABLES
  price,        \* what the board shows
  navStat,      \* funds.nav_stat, written by the fund sync
  code,         \* funds.ins_code, committed
  row,          \* etf_market: None or [price, nav]; the row added to
                \* etf_market_histories at the same time repeats it
  pc,
  entries,      \* prepared: code |-> [price, quote] still to store
  sqlCode,      \* funds.ins_code as this transaction's queries see it
  memCode,      \* changed objects of the session: fund |-> ins_code
  memNav,       \* ... and the nav_stat they were loaded with
  newRows,      \* rows written and not committed
  changes

tables == <<code, row>>
session == <<pc, entries, sqlCode, memCode, memNav, newRows>>
vars == <<price, navStat, tables, session, changes>>

-----------------------------------------------------------------------------
(* Helpers. *)

NoRows == [x \in {} |-> None]

Update(g, f) ==
  [x \in DOMAIN g \union DOMAIN f |-> IF x \in DOMAIN f THEN f[x] ELSE g[x]]

\* _nav_distance: the numerator of |price / nav - 1|, over nav.
Gap(p, nav) == IF p > nav THEN p - nav ELSE nav - p

\* _nav_plausible, with NAV_PLAUSIBILITY_BOUND = 3/10.
Plausible(p, nav) == p > 0 /\ nav > 0 /\ 10 * Gap(p, nav) <= 3 * nav

\* The mapping is given up at a tighter bound than it is made at.
VarContradictsSooner(nav, p) == nav > 0 /\ p > 0 /\ 10 * Gap(p, nav) > 2 * nav

\* _mapped_nav_contradicts_price
Contradicts(nav, p) == nav > 0 /\ p > 0 /\ ~Plausible(p, nav)

\* _nav_distance(p, nav1) <= _nav_distance(p, nav2)
Nearer(p, nav1, nav2) == Gap(p, nav1) * nav2 <= Gap(p, nav2) * nav1

\* An object keeps the attributes it was loaded with while it is changed.
Code(f) == IF f \in DOMAIN memCode THEN memCode[f] ELSE sqlCode[f]
Nav(f) == IF f \in DOMAIN memNav THEN memNav[f] ELSE navStat[f]

-----------------------------------------------------------------------------
Init ==
  /\ price \in [Codes -> Prices]
  /\ navStat \in [Funds -> Navs]
  \* a seeded database, with mappings an earlier version made by name alone
  /\ code \in [Funds -> Codes \union {None}]
  /\ \A f, g \in Funds : f # g /\ code[f] # None => code[f] # code[g]
  /\ \A f \in Funds : code[f] # None => <<code[f], f>> \in Named
  /\ row = [c \in Codes |-> None]
  /\ pc = "idle"
  /\ entries = NoRows
  /\ sqlCode = code
  /\ memCode = NoRows /\ memNav = NoRows /\ newRows = NoRows
  /\ changes = 0

\* The network phase: the board answers, perhaps without some rows, and each
\* row is enriched as far as the other endpoints answer.
FetchBoard ==
  /\ pc = "idle"
  /\ \E listed \in SUBSET Codes \ {{}} :
       \E quote \in [listed -> Quotes] :
         entries' = [c \in listed |-> [price |-> price[c], quote |-> quote[c]]]
  /\ pc' = "store"
  /\ sqlCode' = code
  /\ UNCHANGED <<price, navStat, tables, memCode, memNav, newRows, changes>>

\* The lookup skips funds without a NAV.
VarMappedWithNav(c) == {f \in Funds : sqlCode[f] = c /\ Nav(f) > 0}

\* The fund lookup: the funds the query for c may return.
Mapped(c) == {f \in Funds : sqlCode[f] = c}

\* The ETF's own NAV is compared with its price.
VarWrongByBoard(c, f) == Contradicts(entries[c].quote.nav, entries[c].price)

\* The self-healing test.
Wrong(c, f) == Contradicts(Nav(f), entries[c].price)

\* The filter of the query alone, without the look at the objects.
VarCandidatesBySql(c) ==
  {f \in Funds : /\ sqlCode[f] = None
                 /\ <<c, f>> \in Named
                 /\ Plausible(entries[c].price, Nav(f))}

\* _match_fund: its candidates and its choice.
Candidates(c) ==
  {f \in Funds : /\ sqlCode[f] = None /\ Code(f) = None
                 /\ <<c, f>> \in Named
                 /\ Plausible(entries[c].price, Nav(f))}

\* An ambiguous match is no match.
VarWinnersUnique(c) == {f \in Candidates(c) : Candidates(c) = {f}}

Winners(c) ==
  {f \in Candidates(c) : \A g \in Candidates(c) :
     Nearer(entries[c].price, Nav(f), Nav(g))}

NavSources(e, fund) ==
  <<e.quote.nav, IF fund = None THEN 0 ELSE Nav(fund), e.quote.sub, e.quote.red>>

\* The first of navs among those that fit, None when none does.
FirstOf(navs, fits) ==
  IF fits = {} THEN None ELSE navs[CHOOSE i \in fits : \A j \in fits : i <= j]

\* The fund's NAV is taken on the strength of the mapping.
VarBasisUnchecked(e, fund) ==
  LET navs == NavSources(e, fund) IN FirstOf(navs, {i \in 1..4 : navs[i] > 0})

\* The NAV the premium rests on: the board's, the fund's, subscription,
\* redemption; the first that agrees with the price, None when none does.
Basis(e, fund) ==
  LET navs == NavSources(e, fund)
  IN  FirstOf(navs, {i \in 1..4 : Plausible(e.price, navs[i])})

PendingRow(c) == IF c \in DOMAIN newRows THEN newRows[c] ELSE row[c]

\* The upsert of c's row; a new row flushes the session.
Write(c, fund, changed) ==
  LET e == entries[c]
      old == PendingRow(c)
      loaded == [f \in DOMAIN changed |-> Nav(f)]
  IN  /\ newRows' = Update(newRows, [x \in {c} |->
           [price |-> e.price, nav |-> Basis(e, fund)]])
      /\ IF old = None
         THEN /\ sqlCode' = Update(sqlCode, Update(memCode, changed))
              /\ memCode' = NoRows /\ memNav' = NoRows
         ELSE /\ UNCHANGED sqlCode
              /\ memCode' = Update(memCode, changed)
              /\ memNav' = Update(loaded, memNav)
      /\ entries' = [x \in DOMAIN entries \ {c} |-> entries[x]]
      /\ UNCHANGED <<price, navStat, tables, pc, changes>>

\* The mapping stands: it agrees with the price or nothing speaks against it.
StoreMapped(c) ==
  /\ pc = "store" /\ c \in DOMAIN entries
  /\ \E f \in Mapped(c) : ~Wrong(c, f) /\ Write(c, f, NoRows)

\* No fund, or one whose NAV contradicts the price and is let go: match anew.
StoreUnmapped(c) ==
  /\ pc = "store" /\ c \in DOMAIN entries
  /\ \E freed \in {{f} : f \in Mapped(c)} \union (IF Mapped(c) = {} THEN {{}} ELSE {}) :
       LET cleared == [f \in freed |-> None]
       IN  /\ \A f \in freed : Wrong(c, f)
           /\ \/ /\ Winners(c) = {}
                 /\ Write(c, None, cleared)
              \/ \E w \in Winners(c) :
                   Write(c, w, Update(cleared, [f \in {w} |-> c]))

\* The session outlives the cycle.
VarEndCycleKeepsObjects ==
  /\ pc' = "idle"
  /\ entries' = NoRows /\ memCode' = NoRows /\ newRows' = NoRows
  /\ UNCHANGED memNav

EndCycle ==
  /\ pc' = "idle"
  /\ entries' = NoRows /\ memCode' = NoRows /\ memNav' = NoRows /\ newRows' = NoRows

Commit ==
  /\ pc = "store" /\ DOMAIN entries = {}
  /\ code' = [f \in Funds |-> Code(f)]
  /\ sqlCode' = code'
  /\ row' = Update(row, newRows)
  /\ EndCycle
  /\ UNCHANGED <<price, navStat, changes>>

\* Any exception of phase 2, a failed commit, or the end of the process.
RollBack ==
  /\ pc = "store" /\ changes < MaxChanges
  /\ changes' = changes + 1
  /\ sqlCode' = code
  /\ EndCycle
  /\ UNCHANGED <<price, navStat, tables>>

-----------------------------------------------------------------------------
(* The market and the fund sync. *)

Trade(c) ==
  /\ changes < MaxChanges
  /\ changes' = changes + 1
  /\ \E p \in Prices \ {price[c]} : price' = [price EXCEPT ![c] = p]
  /\ UNCHANGED <<navStat, tables, session>>

SyncNav(f) ==
  /\ changes < MaxChanges
  /\ changes' = changes + 1
  /\ \E nav \in Navs \ {navStat[f]} : navStat' = [navStat EXCEPT ![f] = nav]
  /\ UNCHANGED <<price, tables, session>>

StoreEntry == \E c \in Codes : StoreMapped(c) \/ StoreUnmapped(c)

\* A board that lists every ETF.
FetchWholeBoard == FetchBoard /\ DOMAIN entries' = Codes

Next ==
  \/ FetchBoard \/ StoreEntry \/ Commit \/ RollBack
  \/ \E c \in Codes : Trade(c)
  \/ \E f \in Funds : SyncNav(f)

Spec == Init /\ [][Next]_vars

\* The job runs every minute and ends; the whole board comes now and then.
FairSpec ==
  Spec /\ WF_vars(StoreEntry \/ Commit) /\ WF_vars(FetchBoard) /\ SF_vars(FetchWholeBoard)

-----------------------------------------------------------------------------
(* Properties. *)

\* Types; the objects with changes are those whose NAV is frozen.
TypeOK ==
  /\ price \in [Codes -> Prices]
  /\ navStat \in [Funds -> Navs]
  /\ code \in [Funds -> Codes \union {None}]
  /\ sqlCode \in [Funds -> Codes \union {None}]
  /\ pc \in {"idle", "store"}
  /\ DOMAIN entries \subseteq Codes
  /\ DOMAIN memCode \subseteq Funds /\ DOMAIN memNav = DOMAIN memCode
  /\ \A f \in DOMAIN memCode : memCode[f] \in Codes \union {None}
  /\ DOMAIN newRows \subseteq Codes
  /\ changes \in 0..MaxChanges

\* Two funds never carry one ins_code, in the database and in the view of the
\* running cycle: the lookup by ins_code takes the first it finds. Of a board with
\* one entry per code; the two flows of providers.py:166-198 are joined as they are.
OneFundPerCode ==
  \A f, g \in Funds : f # g =>
    /\ code[f] # None => code[f] # code[g]
    /\ Code(f) # None => Code(f) # Code(g)

\* "Two ETFs may not rob one fund" (tasks.py:91-93): within a cycle a fund
\* that is mapped is let go at most, never handed to another ETF.
NotStolen ==
  [][pc = "store" /\ pc' = "store" =>
       \A f \in Funds : Code(f) # None => Code(f)' \in {Code(f), None}]_vars

\* A premium, live or in the history, rests on a NAV within the bound of the
\* price it is compared with, or there is none (tasks.py:267-287).
BasisPlausible ==
  \A c \in Codes : row[c] # None /\ row[c].nav # None => Plausible(row[c].price, row[c].nav)

\* Self-healing (tasks.py:255-258): once prices and NAVs stand still, every
\* mapping that contradicts the price is gone for good.
WrongMappingsHeal ==
  <>[]\A f \in Funds : code[f] # None => ~Contradicts(navStat[f], price[code[f]])

\* ... and no ETF stays unmapped while a fund with its name and a NAV near
\* its price is free.
FreeFundsAreFound ==
  <>[]\A c \in Codes : (\A f \in Funds : code[f] # c) =>
        \A f \in Funds : ~( /\ code[f] = None
                            /\ <<c, f>> \in Named
                            /\ Plausible(price[c], navStat[f]))

\* The bound a mapping is given up at is the bound it is made at: once prices
\* and NAVs stand still, the mappings do too.
MappingsSettle == <>[][code' = code]_code
=============================================================================

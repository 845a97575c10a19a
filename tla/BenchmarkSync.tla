---------------------------- MODULE BenchmarkSync ----------------------------
(***************************************************************************)
(* services/benchmark_sync.py every 15 minutes: ask the source for the      *)
(* whole history of the index, write the days after the newest one stored,  *)
(* in one transaction. The source is external: it publishes a value for a   *)
(* day, sometimes late, sometimes none or one that is not a number, and may *)
(* correct it.                                                              *)
(*                                                                         *)
(* Definitions named Var... are plausible wrong versions of the one that   *)
(* follows them; the properties tell each from the code.                   *)
(***************************************************************************)
EXTENDS FundRows

CONSTANTS
  Closed,      \* days without trading
  Garbage,     \* a value that float() refuses
  MaxEvents,   \* bound on what the source does out of turn
  MaxFaults    \* bound on requests and commits that fail

ASSUME BenchmarkAssumption ==
  Closed \subseteq Nat /\ MaxEvents \in Nat /\ MaxFaults \in Nat
  /\ None \notin Nat /\ Garbage \notin Nat

VARIABLES
  source,    \* the index at the source: day |-> a number, None or Garbage
  bench,     \* benchmark_histories: day |-> a number
  syncing,   \* the answer is there, the rows are not written
  answer,    \* the answer: a copy of source
  late,      \* history: days that got a number after a later day had one
  events, faults

benchmark == <<bench, syncing, answer>>
outside == <<source, late, events>>
benchVars == <<benchmark, outside, faults>>

Index(d) == 10 * d

Series(days) == [d \in days |-> Index(d)]

Numbers(s) == {d \in DOMAIN s : s[d] \notin {None, Garbage}}

BenchInit ==
  /\ \E missing \in {{}, {Start - 1}} : source = Series((1 .. Start - 1) \ (Closed \union missing))
  /\ bench \in {Series({}), source}
  /\ syncing = FALSE /\ answer = Series({})
  /\ late = {} /\ events = 0 /\ faults = 0

-----------------------------------------------------------------------------
(* The source. *)

Put(d, value) ==
  /\ source' = [e \in DOMAIN source \union {d} |-> IF e = d THEN value ELSE source[e]]
  /\ late' = IF value \in Nat /\ d \notin Numbers(source)
                  /\ (\E e \in Numbers(source) : e > d)
             THEN late \union {d} ELSE late
  /\ UNCHANGED <<benchmark, faults>>

\* The day gets its value.
Publish == now \notin DOMAIN source \union Closed /\ Put(now, Index(now)) /\ UNCHANGED events

\* A day gets no value, none that is a number, a late one or another one.
Deviate ==
  /\ events < MaxEvents
  /\ events' = events + 1
  /\ \E d \in (1 .. now) \ Closed :
       \/ d \notin DOMAIN source /\ \E value \in {None, Garbage, Index(d)} : Put(d, value)
       \/ d \in DOMAIN source /\ source[d] # Index(d) + 1 /\ Put(d, Index(d) + 1)

-----------------------------------------------------------------------------
(* The job. *)

\* fetch_index_history; a failed or empty answer ends the run.
BenchFetch ==
  /\ ~syncing /\ DOMAIN source # {}
  /\ syncing' = TRUE
  /\ answer' = source
  /\ UNCHANGED <<bench, outside, faults>>

Done == syncing' = FALSE /\ answer' = Series({}) /\ UNCHANGED outside

\* Every value is converted, those of days already stored too.
VarToWrite == {d \in DOMAIN answer : answer[d] # None /\
                 (answer[d] = Garbage \/ \A e \in DOMAIN bench : d > e)}

\* The days of the answer that are written: with a value, after the newest stored.
ToWrite == {d \in DOMAIN answer : answer[d] # None /\ \A e \in DOMAIN bench : d > e}

\* Row by row, from the newest, until one fails.
VarBenchStore ==
  /\ syncing
  /\ LET new == {d \in ToWrite : \A e \in ToWrite : e >= d => answer[e] # Garbage}
     IN  bench' = [d \in DOMAIN bench \union new |->
                     IF d \in new THEN answer[d] ELSE bench[d]]
  /\ Done /\ UNCHANGED faults

\* One transaction: a value that does not convert takes all of it back.
BenchStore ==
  /\ syncing
  /\ bench' = IF \E d \in ToWrite : answer[d] = Garbage THEN bench
              ELSE [d \in DOMAIN bench \union ToWrite |->
                      IF d \in ToWrite THEN answer[d] ELSE bench[d]]
  /\ Done /\ UNCHANGED faults

BenchFails ==
  /\ syncing /\ faults < MaxFaults
  /\ faults' = faults + 1
  /\ Done /\ UNCHANGED bench

BenchNext == Publish \/ Deviate \/ BenchFetch \/ BenchStore \/ BenchFails

-----------------------------------------------------------------------------
(* Properties. *)

\* The job writes only after the newest row, so a day once passed over stays
\* missing: no day is passed over but one whose value came late
\* (benchmark_sync.py:43-68).
NoHoles ==
  \A d \in Numbers(source) \ late :
    (\E e \in DOMAIN bench : e > d) => d \in DOMAIN bench

\* The source has a newer day than the table, and no newer one that is no number.
Behind ==
  LET newer == {d \in DOMAIN source : source[d] # None /\ \A e \in DOMAIN bench : d > e}
  IN  newer # {} /\ \A d \in newer : source[d] # Garbage

\* The table catches up with the source, whatever was wrong with days it already
\* has (benchmark_sync.py:53-58).
IndexCatchesUp == Behind ~> ~Behind
=============================================================================

------------------------------- MODULE Queries -------------------------------
(***************************************************************************)
(* What the API answers from the table of requests: the queries of         *)
(* store.go and the parameters router.go gives them.                       *)
(*                                                                         *)
(* A table is a function from requests to rows.  The conditions a query    *)
(* may have are alike but for those on created_at; of the others only      *)
(* errors_only is kept.  An instant is a whole second and the digits of    *)
(* the fraction, without trailing zeros.                                   *)
(***************************************************************************)
EXTENDS Integers, Sequences, FiniteSets, SequencesExt, FiniteSetsExt

CONSTANTS
  CreatedAt,    \* when each request came in, to be its created_at
  Backend,      \* the backend_url it was sent to
  IsPostgres

Hour == 3600
Day  == 24 * Hour

NoTime   == [sec |-> -1, frac |-> <<>>]   \* the zero time.Time
NoFilter == [from |-> NoTime, to |-> NoTime, errorsOnly |-> FALSE]

ASSUME DialectAssumption == IsPostgres \in BOOLEAN

-----------------------------------------------------------------------------
(* Postgres compares instants.  SQLite compares texts, those of RFC3339Nano: no
   "." without a fraction, and a "Z" at the end.  Both compare these sequences
   as a dictionary does. *)
Text(frac) == (IF frac = <<>> THEN <<>> ELSE <<46>> \o [i \in DOMAIN frac |-> 48 + frac[i]]) \o <<90>>

TimeValue(t) == <<t.sec>> \o (IF IsPostgres THEN t.frac ELSE Text(t.frac))

LocalTimeBug(t) == TimeValue([t EXCEPT !.sec = @ + 8 * Hour])

CreatedAtValue(t) == TimeValue(t)
FilterTimeArg(t)  == TimeValue(t)

(* a < b *)
Less(a, b) ==
  \E i \in DOMAIN b : /\ \A j \in 1 .. i - 1 : j <= Len(a) /\ a[j] = b[j]
                      /\ i <= Len(a) => a[i] < b[i]

IsError(row) == row.status >= 400 \/ row.errorText

(* appendRequestFilterSQL: the requests of a table that a filter lets through. *)
Matching(table, f) ==
  {r \in DOMAIN table :
     /\ f.from # NoTime => ~ Less(CreatedAtValue(CreatedAt[r]), FilterTimeArg(f.from))
     /\ f.to # NoTime => ~ Less(FilterTimeArg(f.to), CreatedAtValue(CreatedAt[r]))
     /\ f.errorsOnly => IsError(table[r])}

(* Of two rows of one time, whose order SQL leaves open, the one that came in
   later. *)
Newer(r, s) ==
  LET a == CreatedAtValue(CreatedAt[r])
      b == CreatedAtValue(CreatedAt[s])
  IN  Less(b, a) \/ (a = b /\ r > s)

(* ORDER BY created_at DESC: a row comes after all that are newer. *)
Newest(table, f) ==
  LET M == Matching(table, f)
  IN  [i \in 1 .. Cardinality(M) |->
         CHOOSE r \in M : Cardinality({s \in M : Newer(s, r)}) = i - 1]

PageLimit(limit) == IF limit <= 0 \/ limit > 1000 THEN 100 ELSE limit

GetRequests(table, limit, offset, f) ==
  LET all   == Newest(table, f)
      first == IF offset < 0 THEN 0 ELSE offset
  IN  SubSeq(all, first + 1, Min({first + PageLimit(limit), Len(all)}))

-----------------------------------------------------------------------------
(* EffectiveWindow: absolute times, or the last hours. *)
EffectiveWindow(f, now, hours) ==
  [f EXCEPT !.from = IF @ = NoTime THEN [now EXCEPT !.sec = @ - hours * Hour] ELSE @,
            !.to = IF @ = NoTime THEN now ELSE @]

Errors(table, R) == {r \in R : IsError(table[r])}

(* apiStats and GetStats *)
GetStats(table, f, now, hours) ==
  LET R == Matching(table, EffectiveWindow(f, now, hours))
  IN  [total |-> Cardinality(R), errors |-> Cardinality(Errors(table, R)),
       lifetime |-> Cardinality(DOMAIN table)]

(* apiStatsByBackend and GetStatsByBackend, for which only the times count. *)
GetStatsByBackend(table, f, now, hours) ==
  LET window == EffectiveWindow(f, now, hours)
      R      == Matching(table, [window EXCEPT !.errorsOnly = FALSE])
  IN  [b \in {Backend[r] : r \in R} |->
         LET Of == {r \in R : Backend[r] = b}
         IN  [total |-> Cardinality(Of), errors |-> Cardinality(Errors(table, Of))]]

-----------------------------------------------------------------------------
(* Days are those of UTC+8, as is the midnight from which they are counted. *)
LocalDay(t) == (t.sec + 8 * Hour) \div Day

UTCMidnightBug(day) == [sec |-> day * Day, frac |-> <<>>]

Midnight(day) == [sec |-> day * Day - 8 * Hour, frac |-> <<>>]

DaysShown(days) == IF days <= 0 THEN 30 ELSE Min({days, 365})

OffByOneBug(row) == row.status > 400 /\ row.status < 500

Is4xx(row) == row.status >= 400 /\ row.status < 500
Is5xx(row) == row.status >= 500

(* apiDailyStats and GetDailyStats: the days on which there is something. *)
GetDailyStats(table, days, f, now) ==
  LET window == [f EXCEPT
                   !.from = IF @ = NoTime THEN Midnight(LocalDay(now) - (DaysShown(days) - 1))
                            ELSE @,
                   !.to = IF @ = NoTime THEN now ELSE @]
      R == Matching(table, window)
  IN  [d \in {LocalDay(CreatedAt[r]) : r \in R} |->
         LET Of == {r \in R : LocalDay(CreatedAt[r]) = d}
         IN  [total  |-> Cardinality(Of),
              ok     |-> Cardinality({r \in Of : table[r].status = 200}),
              err4xx |-> Cardinality({r \in Of : Is4xx(table[r])}),
              err5xx |-> Cardinality({r \in Of : Is5xx(table[r])})]]
=============================================================================

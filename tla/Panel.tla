-------------------------------- MODULE Panel --------------------------------
(***************************************************************************)
(* The list of requests of the web panel (frontend/src/App.vue) over a     *)
(* table that changes all the time: rows come in another order than that   *)
(* of their created_at, change when a request ends, and go.                *)
(*                                                                         *)
(* A call to the API is sent, answered by a query at some later time, and  *)
(* its answer is put to use later again; several calls overtake each       *)
(* other.  The panel refreshes on a timer, on an event and when its user   *)
(* does something: at any time, and on the timer in the end.  autoRefresh  *)
(* is on.                                                                  *)
(***************************************************************************)
EXTENDS Queries, Functions

CONSTANTS
  Outcome,   \* the status and whether there is an error_text, when a request ends
  Today,     \* the filter the page opens with: the day of the browser (todayRange)
  Filters,   \* what the user may filter the list by
  PageSize,
  Days,      \* the days GetDailyStats is asked for
  MaxCalls   \* bound: as many calls are under way at most

Requests == DOMAIN CreatedAt

ASSUME PanelAssumption ==
  /\ PageSize \in 1..1000 /\ Today \in Filters
  /\ Days \in Int /\ MaxCalls \in Nat

Instants == [sec: Nat, frac: Seq(0..9)]

ASSUME FiltersAssumption ==
  Filters \subseteq [from: Instants \cup {NoTime}, to: Instants \cup {NoTime}, errorsOnly: BOOLEAN]

(* Requests are numbered as they come in.  The proxy records an error_text only
   with a status of an error. *)
ASSUME RequestsAssumption ==
  /\ CreatedAt \in Seq(Instants) /\ CreatedAt # <<>>
  /\ \A i, j \in Requests : i <= j => CreatedAt[i].sec <= CreatedAt[j].sec
  /\ DOMAIN Outcome = Requests /\ DOMAIN Backend = Requests
  /\ \A r \in Requests : /\ Outcome[r].status \in Nat
                         /\ Outcome[r].errorText => Outcome[r].status >= 400

VARIABLES
  now,      \* the last request that came in; CreatedAt[now] is the time
  pending,  \* requests that have come in and have no row yet
  table,    \* the rows
  filter,   \* filters
  items,    \* items.value
  hasMore,
  loadingMore,
  calls     \* the calls of fetchRequests under way, in the order they were sent

tableVars == <<now, pending, table>>
panelVars == <<filter, items, hasMore, loadingMore, calls>>
vars      == <<tableVars, panelVars>>

Running == [status |-> 0, errorText |-> FALSE]
NoAnswer == <<0>>   \* no list of requests

Init ==
  /\ now = 1 /\ pending = {1} /\ table = <<>>
  /\ filter = Today
  /\ items = <<>>
  /\ hasMore = FALSE
  /\ loadingMore = FALSE
  /\ calls = <<>>

-----------------------------------------------------------------------------
(* The proxy. *)

Arrive ==
  /\ now + 1 \in Requests
  /\ now' = now + 1
  /\ pending' = pending \cup {now + 1}
  /\ UNCHANGED <<table, panelVars>>

TwiceBug(r) ==
  /\ r \in pending
  /\ table' = [s \in DOMAIN table \cup {r} |-> IF s = r THEN Running ELSE table[s]]
  /\ UNCHANGED <<now, pending, panelVars>>

(* InsertRequest, once the backend has answered: created_at is the time it came
   in. *)
Insert(r) ==
  /\ r \in pending
  /\ pending' = pending \ {r}
  /\ table' = [s \in DOMAIN table \cup {r} |-> IF s = r THEN Running ELSE table[s]]
  /\ UNCHANGED <<now, panelVars>>

(* FinishRequest. *)
Finish(r) ==
  /\ r \in DOMAIN table /\ table[r] = Running
  /\ table' = [table EXCEPT ![r] = Outcome[r]]
  /\ UNCHANGED <<now, pending, panelVars>>

(* Somebody deletes a row, or Cleanup does. *)
Drop(r) ==
  /\ r \in DOMAIN table
  /\ table' = [s \in DOMAIN table \ {r} |-> table[s]]
  /\ UNCHANGED <<now, pending, panelVars>>

-----------------------------------------------------------------------------
(* The panel. *)

Call(what, limit, offset, f) ==
  /\ Len(calls) < MaxCalls
  /\ calls' = Append(calls, [what |-> what, limit |-> limit, offset |-> offset, filter |-> f,
                             answer |-> NoAnswer])

OldFilterBug ==
  /\ Call("page", PageSize, 0, Today)
  /\ loadingMore' = FALSE
  /\ UNCHANGED <<tableVars, filter, items, hasMore>>

(* loadRequests *)
Refresh ==
  /\ Call("page", PageSize, 0, filter)
  /\ loadingMore' = FALSE
  /\ UNCHANGED <<tableVars, filter, items, hasMore>>

(* onApply, onBackendSelect, ...: setFilters and refreshAll. *)
Apply(f) ==
  /\ f # filter
  /\ filter' = f
  /\ Call("page", PageSize, 0, f)
  /\ loadingMore' = FALSE
  /\ UNCHANGED <<tableVars, items, hasMore>>

(* loadMore *)
LoadMore ==
  /\ ~ loadingMore /\ hasMore
  /\ loadingMore' = TRUE
  /\ Call("more", PageSize, Len(items), filter)
  /\ UNCHANGED <<tableVars, filter, items, hasMore>>

(* apiRequests *)
Answer(i) ==
  /\ calls[i].answer = NoAnswer
  /\ calls' = [calls EXCEPT ![i].answer = GetRequests(table, calls[i].limit, calls[i].offset,
                                                      calls[i].filter)]
  /\ UNCHANGED <<tableVars, filter, items, hasMore, loadingMore>>

(* An answer is put to use, whatever has been sent or answered since. *)
Use(i) ==
  LET call == calls[i] IN
  /\ call.answer # NoAnswer
  /\ items' = IF call.what = "page" THEN call.answer ELSE items \o call.answer
  /\ hasMore' = (Len(call.answer) >= PageSize)
  /\ loadingMore' = (loadingMore /\ call.what = "page")
  /\ calls' = RemoveAt(calls, i)
  /\ UNCHANGED <<tableVars, filter>>

(* A call fails; what is shown stays. *)
Fail(i) ==
  /\ calls[i].answer = NoAnswer
  /\ loadingMore' = (loadingMore /\ calls[i].what = "page")
  /\ calls' = RemoveAt(calls, i)
  /\ UNCHANGED <<tableVars, filter, items, hasMore>>

(* The overview: cards (loadStats), chart (loadDailyStats) and backends
   (loadBackendStats), each asked for with the filter less its times. *)
overviewFilters(f) == [f EXCEPT !.from = NoTime, !.to = NoTime]

Cards(f)     == GetStats(table, overviewFilters(f), CreatedAt[now], 24)
Chart(f)     == GetDailyStats(table, 30, overviewFilters(f), CreatedAt[now])
ByBackend(f) == GetStatsByBackend(table, overviewFilters(f), CreatedAt[now], 24)

Proxy == \/ Arrive
         \/ \E r \in Requests : Insert(r) \/ Finish(r) \/ Drop(r)

Next ==
  \/ Proxy
  \/ Refresh
  \/ \E f \in Filters : Apply(f)
  \/ LoadMore
  \/ \E i \in DOMAIN calls : Answer(i) \/ Use(i) \/ Fail(i)

Spec == Init /\ [][Next]_vars

(* The timer goes off again and again, and a call is answered in the end. *)
FairSpec ==
  /\ Spec
  /\ WF_vars(Refresh)
  /\ \A i \in 1..MaxCalls : WF_vars(i \in DOMAIN calls /\ (Answer(i) \/ Use(i)))

-----------------------------------------------------------------------------
TypeOK ==
  /\ now \in Requests /\ pending \subseteq 1..now
  /\ DOMAIN table \subseteq (1..now) \ pending
  /\ \A r \in DOMAIN table : table[r] \in {Running, Outcome[r]}
  /\ filter \in Filters
  /\ items \in Seq(Requests)
  /\ hasMore \in BOOLEAN /\ loadingMore \in BOOLEAN
  /\ Len(calls) <= MaxCalls
  /\ \A i \in DOMAIN calls : /\ calls[i].what \in {"page", "more"}
                             /\ calls[i].answer = NoAnswer \/ calls[i].answer \in Seq(Requests)

(* The times of a filter are inclusive (model.go:45) but for the seconds they
   are in: in these SQLite compares "Z" with the "." of a fraction.  Away from
   them the window is right, for every filter and every row. *)
WindowWithinSecond ==
  \A f \in Filters, r \in DOMAIN table :
    LET at == CreatedAt[r].sec
        through == r \in Matching(table, [f EXCEPT !.errorsOnly = FALSE])
    IN  /\ (f.from = NoTime \/ f.from.sec < at) /\ (f.to = NoTime \/ at < f.to.sec) => through
        /\ through => f.from.sec <= at /\ (f.to = NoTime \/ at <= f.to.sec)

(* The days the chart shows, and all of them as a filter. *)
DaysBack == LocalDay(CreatedAt[now]) - (DaysShown(Days) - 1) .. LocalDay(CreatedAt[now])
AllDays  == [NoFilter EXCEPT !.from = Midnight(Min(DaysBack)), !.to = CreatedAt[now]]

(* The chart has every row of every day it shows, on the day it was in UTC+8, the
   earliest day included; but SQLite may lose one of the first second of that day
   or of the current one. *)
DaysAreWhole ==
  LET chart      == GetDailyStats(table, Days, NoFilter, CreatedAt[now])
      Of(d)      == {r \in DOMAIN table : LocalDay(CreatedAt[r]) = d}
      Blurred(r) == CreatedAt[r].sec \in {AllDays.from.sec, AllDays.to.sec}
  IN  \A d \in DaysBack :
        (\A r \in Of(d) : ~ Blurred(r)) /\ Of(d) # {} =>
          d \in DOMAIN chart /\ chart[d].total = Cardinality(Of(d))

(* What the chart has on a day, which may be nothing. *)
Total(chart, d)  == IF d \in DOMAIN chart THEN chart[d].total ELSE 0
Failed(chart, d) == IF d \in DOMAIN chart THEN chart[d].err4xx + chart[d].err5xx ELSE 0

(* The overview fits together under whatever filter is set, though its parts ask
   for the last 24 hours, for 30 days of UTC+8 and for errors in three ways.  The
   cards count what the chart has today and a part of what it has for yesterday,
   of all requests as of the errors.  The backends have all errors of the cards,
   and all their requests when the filter has no other condition than times. *)
FiguresAgree ==
  \A f \in Filters :
    LET cards == Cards(f)
        chart == Chart(f)
        by    == ByBackend(f)
        today == LocalDay(CreatedAt[now])
    IN  /\ cards.total \in Total(chart, today)
                            .. Total(chart, today) + Total(chart, today - 1)
        /\ cards.errors \in Failed(chart, today)
                             .. Failed(chart, today) + Failed(chart, today - 1)
        /\ cards.errors = SumFunction([b \in DOMAIN by |-> by[b].errors])
        /\ f.errorsOnly \/ cards.total = SumFunction([b \in DOMAIN by |-> by[b].total])

(* What the list ought to be: the beginning of all rows that match, a page at
   least, and everything if no more is offered. *)
Exact ==
  LET all == Newest(table, filter)
  IN  /\ IsPrefix(items, all)
      /\ Len(items) >= Min({PageSize, Len(all)})
      /\ hasMore \/ items = all

(* Whatever overtook what, the list is right again and again once the table and
   the filter rest and calls succeed. *)
CatchesUp ==
  <>[][UNCHANGED <<tableVars, filter>> /\ ~ \E i \in DOMAIN calls : Fail(i)]_vars => []<>Exact

-----------------------------------------------------------------------------
(* README.md:349 says that stats-by-backend supports the filters as stats does:
   the backends have as many requests as the cards. *)
BackendsAreFiltered ==
  \A f \in Filters :
    LET by == ByBackend(f)
    IN  Cards(f).total = SumFunction([b \in DOMAIN by |-> by[b].total])
=============================================================================

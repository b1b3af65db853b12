---------------------------- MODULE UsageReports ----------------------------
(***************************************************************************)
(* Usage events (src/usage): each request to a metered endpoint is         *)
(* recorded by a task that starts after its response, and reports count    *)
(* the records in several queries while more are written.                  *)
(*                                                                         *)
(* created_at is the begin of the recording transaction, which may commit  *)
(* after a report has begun.  A request stands for all its rows (one per   *)
(* vehicle): they share id, outcome and time, and are written together.    *)
(***************************************************************************)
EXTENDS Integers, Sequences, FiniteSetsExt, Functions

CONSTANTS
    ApiRequest,     \* requests of one dashboard user
    NoId,
    Id,          \* request ids: the X-Request-ID header may repeat one
    DayTicks,    \* ticks of the clock in a day
    MonthTicks,  \* and in a month, a multiple of it
    MonthsBack,  \* months before the current one in the long window
    MaxNow       \* bound on the clock

ASSUME UsageAssumption ==
    /\ IsFiniteSet(ApiRequest) /\ MonthsBack \in Nat /\ MaxNow \in Nat
    /\ DayTicks \in Nat \ {0} /\ MonthTicks \in Nat \ {0} /\ MonthTicks % DayTicks = 0

VARIABLES
    now,        \* the clock
    usagePc,    \* where each request is
    row,        \* what is recorded of it
    keyMade,    \* whether the API key exists
    report,     \* the summary being assembled, query by query
    disturbed,  \* history: rows of its windows appeared while it was
    page        \* the usage page of the API keys

requests == <<usagePc, row>>
usageVars == <<now, requests, keyMade, report, disturbed, page>>

-----------------------------------------------------------------------------
(* Requests and their records *)

Tick ==
    /\ now < MaxNow
    /\ now' = now + 1
    /\ UNCHANGED <<requests, keyMade, report, disturbed, page>>

MakeKey ==
    /\ ~keyMade
    /\ keyMade' = TRUE
    /\ UNCHANGED <<now, requests, report, disturbed, page>>

\* What a request has in all its rows: its id, its outcome, whether it came with the
\* API key, and created_at.
NoRow == [id |-> NoId, ok |-> FALSE, key |-> FALSE, at |-> 0]
Becomes(r, place) == usagePc' = [usagePc EXCEPT ![r] = place]

\* The response is sent and the task created.  A request without statistics or without
\* an authenticated user is not recorded: it leaves nothing here.
Respond(r) ==
    /\ usagePc[r] = "new"
    /\ Becomes(r, "task")
    /\ \E i \in Id, ok \in BOOLEAN, key \in {FALSE, keyMade} :
          row' = [row EXCEPT ![r] = [id |-> i, ok |-> ok, key |-> key, at |-> 0]]
    /\ UNCHANGED <<now, keyMade, report, disturbed, page>>

InsertUsage(r) ==
    /\ usagePc[r] = "task"
    /\ Becomes(r, "inserted")
    /\ row' = [row EXCEPT ![r].at = now]
    /\ UNCHANGED <<now, keyMade, report, disturbed, page>>

CommitUsage(r) ==
    /\ usagePc[r] = "inserted"
    /\ Becomes(r, "recorded")
    /\ disturbed' = (disturbed \/ report.stage \notin {"none", "done"})
    /\ UNCHANGED <<now, row, keyMade, report, page>>

\* The insert fails and is rolled back, or the process ends: the record is lost,
\* and its place is free for another request.
Drop(r) ==
    /\ usagePc[r] \in {"task", "inserted"}
    /\ Becomes(r, "new")
    /\ row' = [row EXCEPT ![r] = NoRow]
    /\ UNCHANGED <<now, keyMade, report, disturbed, page>>

-----------------------------------------------------------------------------
(* The queries *)

Recorded == {r \in ApiRequest : usagePc[r] = "recorded"}
\* count(distinct request_id)
Count(R) == Cardinality({row[r].id : r \in R})
\* Fault: rows are counted, not requests.
CountsOfRows(R) == [total |-> Cardinality(R), ok |-> Count({r \in R : row[r].ok}),
                    failed |-> Count({r \in R : ~row[r].ok})]
Counts(R) == [total |-> Count(R), ok |-> Count({r \in R : row[r].ok}),
              failed |-> Count({r \in R : ~row[r].ok})]

\* get_window_counts
Window(start) == Counts({r \in Recorded : start <= row[r].at /\ row[r].at < report.now})

\* get_time_series_counts groups by bucket and outcome; the service adds the outcomes
\* up and lists the buckets from the first to the last of the window.
Bucket(start, size, n) ==
    {r \in Recorded : start <= row[r].at /\ row[r].at < report.now /\ row[r].at \div size = n}
Point(R) == Count({r \in R : row[r].ok}) + Count({r \in R : ~row[r].ok})
\* Fault: the bucket that is not over yet is left out.
SeriesOfFull(start, size) ==
    [n \in start \div size .. report.now \div size - 1 |-> Point(Bucket(start, size, n))]
Series(start, size) ==
    [n \in start \div size .. report.now \div size |-> Point(Bucket(start, size, n))]

Today == (report.now \div DayTicks) * DayTicks
ThisMonth == (report.now \div MonthTicks) * MonthTicks
\* _month_start_offset; months before the first of the model have no rows.
LongAgo == Max({0, ThisMonth - MonthsBack * MonthTicks})

Zero == [total |-> 0, ok |-> 0, failed |-> 0]

-----------------------------------------------------------------------------
(* get_usage_summary *)

\* One report in a behaviour: a report writes nothing, so two do not interact.
Idle == report.stage = "none" /\ page.stage = "none"

Blank == [stage |-> "none", now |-> 0, top |-> Zero, today |-> Zero, days |-> <<>>,
          month |-> Zero, months |-> <<>>, year |-> Zero]

NoPage == [stage |-> "none", listed |-> FALSE, keys |-> Zero, apis |-> Zero]

StartReport ==
    /\ Idle
    /\ report' = [Blank EXCEPT !.stage = "top", !.now = now]
    /\ UNCHANGED <<now, requests, keyMade, disturbed, page>>

\* Fault: the queries run from the longest window to the shortest.
OrderLongFirst == <<"top", "months", "year", "days", "month", "today", "done">>
\* Fault: the totals are queried before their series.
OrderTotalFirst == <<"top", "today", "month", "days", "year", "months", "done">>
Order == <<"top", "today", "days", "month", "months", "year", "done">>
Following(stage) == Order[1 + CHOOSE i \in DOMAIN Order : Order[i] = stage]

Answer(stage) ==
    CASE stage \in {"top", "month"} -> Window(ThisMonth)
      [] stage = "today" -> Window(Today)
      [] stage = "days" -> Series(ThisMonth, DayTicks)
      [] stage = "months" -> Series(LongAgo, MonthTicks)
      [] stage = "year" -> Window(LongAgo)

Query ==
    /\ report.stage \notin {"none", "done"}
    /\ report' = [report EXCEPT ![report.stage] = Answer(report.stage),
                                !.stage = Following(@)]
    /\ UNCHANGED <<now, requests, keyMade, disturbed, page>>

-----------------------------------------------------------------------------
(* get_api_key_usage: the keys of the user, then the counts of all of them *)

ListKeys ==
    /\ Idle
    /\ page' = [NoPage EXCEPT !.stage = "keys", !.listed = keyMade]
    /\ UNCHANGED <<now, requests, keyMade, report, disturbed>>

Keyed == {r \in Recorded : row[r].key}

\* Grouped by key, endpoint and outcome, so an id that has both outcomes counts twice.
Grouped(R) == [Counts(R) EXCEPT !.total = Point(R)]
CountKeyUsage ==
    /\ page.stage = "keys"
    /\ page' = [page EXCEPT !.stage = "done", !.apis = Grouped(Keyed),
                            !.keys = IF page.listed THEN Grouped({r \in Recorded : row[r].key})
                                      ELSE Zero]
    /\ UNCHANGED <<now, requests, keyMade, report, disturbed>>

-----------------------------------------------------------------------------
UsageInit ==
    /\ now = 0
    /\ usagePc = [r \in ApiRequest |-> "new"]
    /\ row = [r \in ApiRequest |-> NoRow]
    /\ keyMade = FALSE
    /\ report = Blank /\ disturbed = FALSE
    /\ page = NoPage

UsageNext ==
    \/ Tick \/ MakeKey \/ StartReport \/ Query \/ ListKeys \/ CountKeyUsage
    \/ \E r \in ApiRequest : Respond(r) \/ InsertUsage(r) \/ CommitUsage(r) \/ Drop(r)

UsageSpec == UsageInit /\ [][UsageNext]_usageVars

-----------------------------------------------------------------------------
(* Properties *)

CountType == [total : 0..Cardinality(ApiRequest), ok : Nat, failed : Nat]
PageType == [stage : {"none", "keys", "done"}, listed : BOOLEAN,
             keys : [total : Nat, ok : Nat, failed : Nat],
             apis : [total : Nat, ok : Nat, failed : Nat]]
UsageTypeOK ==
    /\ now \in 0..MaxNow
    /\ usagePc \in [ApiRequest -> {"new", "task", "inserted", "recorded"}]
    /\ row \in [ApiRequest -> [id : Id \cup {NoId}, ok : BOOLEAN, key : BOOLEAN, at : 0..now]]
    /\ keyMade \in BOOLEAN
    /\ \A w \in {"top", "today", "month", "year"} : report[w] \in CountType
    /\ page \in PageType

\* A shorter window never shows more requests than a longer one that contains it,
\* although records are written between the queries of a summary.
ReportNested ==
    report.stage = "done" => /\ report.top.total <= report.month.total
                             /\ report.today.total <= report.month.total
                             /\ report.month.total <= report.year.total

\* Some recorded id belongs to two requests.
Reused == \E r, s \in Recorded : r # s /\ row[r].id = row[s].id

\* Successes and failures add up to the total, unless a client has used a request id
\* again; then they cover it.
CountsSplit ==
    \A w \in {"top", "today", "month", "year"} :
        /\ report[w].total <= report[w].ok + report[w].failed
        /\ ~Reused => report[w].total = report[w].ok + report[w].failed

\* On the page of the API keys the sum over the keys never exceeds the sum over the
\* endpoints, and equals it when no key was made while the page was assembled.
KeyPageAgrees ==
    page.stage = "done" => /\ page.keys.total <= page.apis.total
                           /\ page.listed \/ ~keyMade => page.keys = page.apis

\* What a report shows is consistent although its queries run one after the other while
\* requests are recorded: the parts above.
ReportsAgree == ReportNested /\ CountsSplit /\ KeyPageAgrees

Sum(f) == FoldFunction(+, 0, f)
\* A series is queried before the total of its window: records written in between are
\* in the total alone.
Covers(total, series) == Sum(series) <= total /\ (~disturbed => Sum(series) = total)
\* The points of a series add up to no more than the total of its window although
\* requests are recorded between their queries, and to all of it when none was: no day
\* and no month is missing or counted twice.  An id used again may count in two points.
SeriesAddUp ==
    report.stage = "done" /\ ~Reused =>
        Covers(report.month.total, report.days) /\ Covers(report.year.total, report.months)

=============================================================================

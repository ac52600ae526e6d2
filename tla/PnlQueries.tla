------------------------------ MODULE PnlQueries ------------------------------
(***************************************************************************)
(* What ConsoleService answers from the PnL points of one agent            *)
(* (src/src/console/console.service.ts): the chart of getPnlHistory and    *)
(* the days of getPnlDailySummary.  A point is a record with ts, the       *)
(* broker's time of its frame.  Mongo leaves it open in which order points *)
(* with the same ts come, so that either query has a set of answers.       *)
(***************************************************************************)
EXTENDS Integers, Sequences, FiniteSets, Functions, SequencesExt

CONSTANTS Cap,         \* the most points a chart is asked from Mongo
          Day,         \* length of a day
          NotGiven,    \* a query parameter that is absent or empty
          Unparsable   \* one that Date.parse cannot read

ASSUME QueryConstants ==
    /\ Cap \in Nat \ {0} /\ Day \in Nat \ {0}
    /\ NotGiven \notin Int /\ Unparsable \notin Int

\* The orders in which Mongo may return the records of S when it sorts them by a
\* field: ascending if dir is 1, descending if it is -1, equal ones in any order.
Sorted(S, field, dir) ==
    {s \in Bijection(1..Cardinality(S), S) :
        \A i, j \in 1..Cardinality(S) : i < j => dir * s[i][field] <= dir * s[j][field]}

\* Mongo's limit: 0 is no limit, and the sign is ignored.
Limited(s, n) ==
    LET size == IF n < 0 THEN -n ELSE n
    IN  IF n = 0 \/ size > Len(s) THEN s ELSE SubSeq(s, 1, size)

Lower(m, n) == IF m < n THEN m ELSE n

\* Mutant: the points are sorted the way the chart wants them, then cut.
getPnlHistory_SortedForChart(S, limit) ==
    {Limited(s, Lower(limit, Cap)) : s \in Sorted(S, "ts", 1)}

\* The charts that may be answered.
getPnlHistory(S, limit) ==
    {Reverse(Limited(s, Lower(limit, Cap))) : s \in Sorted(S, "ts", -1)}

DayOf(p) == p.ts \div Day

\* Mutant: the end bound is the first moment of its day.
Matched_EndOfDayLost(S, start, end) ==
    IF start = NotGiven /\ end = NotGiven THEN S
    ELSE IF start \notin Int /\ end \notin Int THEN {}
    ELSE {p \in S : /\ start \in Int => DayOf(p) >= start
                    /\ end \in Int => p.ts <= end * Day}

\* $match: each bound is the day it names, one that cannot be parsed is dropped,
\* and when that leaves none the empty condition on ts matches no point.
Matched(S, start, end) ==
    IF start = NotGiven /\ end = NotGiven THEN S
    ELSE IF start \notin Int /\ end \notin Int THEN {}
    ELSE {p \in S : /\ start \in Int => DayOf(p) >= start
                    /\ end \in Int => DayOf(p) <= end}

\* $group by day with $last: a day's row is made from its last point.
Rows(s) ==
    {[date |-> DayOf(s[i]), last |-> s[i]] :
        i \in {i \in DOMAIN s : \A j \in DOMAIN s : DayOf(s[j]) = DayOf(s[i]) => j <= i}}

\* The summaries that may be answered: $sort by ts, $group, $sort by day.
getPnlDailySummary(S, start, end) ==
    UNION {Sorted(Rows(s), "date", 1) : s \in Sorted(Matched(S, start, end), "ts", 1)}

------------------------------------------------------------------------------
\* What the two answers should be, without sorting or grouping

\* The chart is in ascending order, as long as it may be, and leaves out no
\* point that is newer than one it shows.
IsChart(s, S, limit) ==
    /\ ToSet(s) \subseteq S
    /\ Len(s) = Cardinality(ToSet(s))
    /\ Len(s) = Lower(Lower(limit, Cap), Cardinality(S))
    /\ \A i, j \in DOMAIN s : i < j => s[i].ts <= s[j].ts
    /\ \A p \in S \ ToSet(s) : \A q \in ToSet(s) : p.ts <= q.ts

\* The day d is one the request asks for.
Wanted(d, start, end) ==
    /\ start \in Int => start <= d
    /\ end \in Int => d <= end
    /\ {start, end} = {NotGiven} \/ {start, end} \cap Int # {}

\* The summary has one row for each day on which the requested days have points,
\* in ascending order, with the values of a newest point of that day.
IsSummary(s, S, days) ==
    /\ {s[i].date : i \in DOMAIN s} = {DayOf(p) : p \in S} \cap days
    /\ \A i, j \in DOMAIN s : i < j => s[i].date < s[j].date
    /\ \A i \in DOMAIN s :
          /\ s[i].last \in S /\ DayOf(s[i].last) = s[i].date
          /\ \A p \in S : DayOf(p) = s[i].date => p.ts <= s[i].last.ts

==============================================================================

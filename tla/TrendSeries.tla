---------------------------- MODULE TrendSeries ----------------------------
(***************************************************************************)
(* The sentiment trend of the dashboard. The server counts meetings by     *)
(* date from an instant Days days ago, and sends the dates that have any;  *)
(* the browser makes of them a series with a row for each of the last Days *)
(* dates, when the answer arrives and again whenever the chart is mounted. *)
(* Between the query and the chart lie the network, a cache, and however   *)
(* long the answer has been in the store.                                  *)
(***************************************************************************)
EXTENDS Integers, FiniteSets

CONSTANTS
  Days,         \* as asked for by the page
  DayLength,    \* the instants of one date
  Horizon,         \* the last instant, a bound of the model
  MaxMeetings,  \* a bound of the model
  NoSeries

ASSUME TrendAssumption ==
  /\ Days \in Nat \ {0} /\ DayLength \in Nat \ {0}
  /\ Horizon \in Nat /\ MaxMeetings \in Nat

VARIABLES
  now,          \* the instant it is, for the server and the browser
  meetings,     \* occurred_at of those whose insight has a sentiment
  answer,       \* the points that are on their way, or NoSeries
  trend,        \* those in the store
  series,       \* the rows of the chart, or NoSeries while it is not mounted
  drawn,        \* history: when the chart was drawn
  counted       \* history: the meetings, and when they were counted, of each answer

trendVars == <<now, meetings, answer, trend, series, drawn, counted>>

Date(t) == t \div DayLength
Tally(what, d) == Cardinality({t \in what : Date(t) = d})

\* date_trunc and GROUP BY, of the meetings since an instant: dates without one
\* are left out, and nothing is said of the future.
PointsAt(t) ==
  LET found == {m \in meetings : m >= t - Days * DayLength}
  IN [d \in {Date(m) : m \in found} |-> Tally(found, d)]

\* Mutant: the dates of the window, and no other.
WindowOnly(points, t) ==
  [d \in (Date(t) - (Days - 1))..Date(t) |-> IF d \in DOMAIN points THEN points[d] ELSE 0]

\* buildTrendSeries: the dates of the window and those of the points.
SeriesAt(points, t) ==
  IF DOMAIN points = {} THEN NoSeries
  ELSE [d \in (Date(t) - (Days - 1))..Date(t) \cup DOMAIN points |->
          IF d \in DOMAIN points THEN points[d] ELSE 0]

------------------------------------------------------------------------------
Tick ==
  /\ now < Horizon
  /\ now' = now + 1
  /\ UNCHANGED <<meetings, answer, trend, series, drawn, counted>>

\* An insight is generated for an interaction of any time, those to come included.
\* (One that is taken away leaves a set of meetings that is reached without it.)
Meet(t) ==
  /\ Cardinality(meetings) < MaxMeetings /\ t \notin meetings
  /\ meetings' = meetings \cup {t}
  /\ UNCHANGED <<now, answer, trend, series, drawn, counted>>

SentimentTrend ==
  /\ answer = NoSeries
  /\ answer' = PointsAt(now)
  /\ counted' = [counted EXCEPT !.answer = [meetings |-> meetings, at |-> now]]
  /\ UNCHANGED <<now, meetings, trend, series, drawn>>

\* useMemo draws the chart anew as its points have changed.
TrendAnswered ==
  /\ answer # NoSeries
  /\ trend' = answer /\ answer' = NoSeries
  /\ series' = SeriesAt(answer, now)
  /\ drawn' = now
  /\ counted' = [counted EXCEPT !.trend = counted.answer]
  /\ UNCHANGED <<now, meetings>>

\* The dashboard is left, and comes back with the points that the store has.
Unmount ==
  /\ series # NoSeries
  /\ series' = NoSeries
  /\ UNCHANGED <<now, meetings, answer, trend, drawn, counted>>

Mount ==
  /\ series = NoSeries /\ trend # NoSeries
  /\ series' = SeriesAt(trend, now)
  /\ drawn' = now
  /\ UNCHANGED <<now, meetings, answer, trend, counted>>

------------------------------------------------------------------------------
TrendInit ==
  /\ now = 0
  /\ meetings = {}
  /\ answer = NoSeries /\ trend = NoSeries /\ series = NoSeries
  /\ drawn = 0
  /\ counted = [answer |-> NoSeries, trend |-> NoSeries]

TrendNext ==
  \/ Tick \/ SentimentTrend \/ TrendAnswered \/ Unmount \/ Mount
  \/ \E t \in 0..Horizon : Meet(t)

TrendSpec == TrendInit /\ [][TrendNext]_trendVars

------------------------------------------------------------------------------
(* Properties. *)

\* A chart that was drawn on the date its points were counted on shows each of
\* the last Days dates, with every meeting of that date: the server's window,
\* which begins in the midst of a date, cuts no date of the browser's. The one
\* date before them has a row as well if it has a point. All rows follow each
\* other day by day, unless a meeting was entered for a date to come.
TrendComplete ==
  series # NoSeries /\ Date(drawn) = Date(counted.trend.at) =>
    LET today == Date(drawn)
        rows == DOMAIN series
    IN /\ \A d \in (today - (Days - 1))..today :
            d \in rows /\ series[d] = Tally(counted.trend.meetings, d)
       /\ \A d \in DOMAIN trend : d \in rows /\ series[d] = trend[d]
       /\ (\A t \in counted.trend.meetings : Date(t) <= today) =>
            \A d \in rows : d >= today - Days /\ d <= today
=============================================================================

------------------------------- MODULE Forecast -------------------------------
(***************************************************************************)
(* The capacity forecast of a monitor: its results in the store            *)
(* (watchpost/store.py: record, prune), the history they are averaged into *)
(* (hourly_series), the line that is fitted to it and followed to the      *)
(* thresholds (watchpost/forecast.py), once an hour or on demand           *)
(* (watchpost/scheduler.py: refresh_forecasts, _maintenance).              *)
(*                                                                         *)
(* Times count fractions of an hour, values are whole numbers, and what    *)
(* the code divides is a quotient <<numerator, denominator>>, with a       *)
(* denominator above zero.                                                 *)
(***************************************************************************)
EXTENDS Verdicts

CONSTANTS Hour,                        \* units of time in an hour
          Lookback, Retention,         \* lookback_days and retention_days, in units of time
          MinPoints, MinSpan, Horizon, \* min_points, min_span_hours, horizon_days
          MinR2,                       \* min_r2, in percent
          Values,                      \* what the check may find
          Limits                       \* thresholds the monitor may have

ASSUME ForecastAssumption ==
  /\ Hour \in Nat \ {0} /\ {Lookback, Retention, MinPoints, MinSpan, Horizon, MinR2} \subseteq Nat
  /\ Values \subseteq Int /\ None \notin Int
  /\ LET levels == Int \union {None}
     IN  Limits \subseteq [direction : {"above", "below"}, warn : levels, crit : levels] \union {None}

VARIABLES now,        \* time
          rows,       \* results in the store, in the order of the polls
          limits,     \* thresholds of the monitor
          forecast    \* Scheduler.forecasts: the last one, None before it

forecastVars == <<now, rows, limits, forecast>>

\* The sums of the first items of a sequence, and of all of them.
Sums(s) == LET upTo[i \in 0..Len(s)] == IF i = 0 THEN 0 ELSE upTo[i - 1] + s[i] IN upTo
Sum(s) == Sums(s)[Len(s)]

\* The items of a sequence that are there.
Present(s) ==
  LET upTo[i \in 0..Len(s)] ==
        IF i = 0 THEN <<>> ELSE IF s[i] = None THEN upTo[i - 1] ELSE Append(upTo[i - 1], s[i])
  IN  upTo[Len(s)]

-----------------------------------------------------------------------------
(* The history *)

\* The results with a value.
Valued == {row \in Range(rows) : row.value # None}

\* Those that were not judged a failure.
Usable == {row \in Valued : row.result # "fail"}

\* hourly_series of some rows: the mean of each hour that has one, at its middle.
Series(chosen) ==
  LET counts(i, h) == /\ rows[i] \in chosen /\ rows[i].at >= now - Lookback
                      /\ rows[i].at \div Hour = h
      number(h) == Cardinality({i \in DOMAIN rows : counts(i, h)})
      total(h)  == Sum([i \in DOMAIN rows |-> IF counts(i, h) THEN rows[i].value ELSE 0])
      point(h)  == [t |-> h * Hour + Hour \div 2, v |-> total(h) \div number(h)]
  IN  Present([k \in 1..(now \div Hour + 1) |-> IF number(k - 1) = 0 THEN None ELSE point(k - 1)])

-----------------------------------------------------------------------------
(* The line *)

\* n times the sum of x * y less the product of the sums: n^2 times a covariance.
Spread(x, y) == Len(x) * Sum([i \in DOMAIN x |-> x[i] * y[i]]) - Sum(x) * Sum(y)

\* least_squares; None without two points that are apart.
Fit(points) ==
  LET ts == [i \in DOMAIN points |-> points[i].t]
      vs == [i \in DOMAIN points |-> points[i].v]
  IN  IF Len(points) < 2 \/ Spread(ts, ts) = 0 THEN None
      ELSE [n |-> Len(points), t |-> Sum(ts), v |-> Sum(vs),
            sxx |-> Spread(ts, ts), sxy |-> Spread(ts, vs), syy |-> Spread(vs, vs),
            span |-> Last(ts) - ts[1]]

\* Faulty variant: the line starts at the mean of the values, not through the middle of
\* the points.
ValueAt_Uncentred(fit, x) == <<fit.v * fit.sxx + fit.sxy * fit.n * x, fit.n * fit.sxx>>

\* Fit.value_at
ValueAt(fit, x) == <<fit.v * fit.sxx + fit.sxy * (fit.n * x - fit.t), fit.n * fit.sxx>>

\* Quotients in order.
AtMost(p, q) == p[1] * q[2] <= q[1] * p[2]

\* r-squared is min_r2 or more; a level series has no variance to explain.
Confident(fit) == 100 * fit.sxy * fit.sxy >= MinR2 * fit.sxx * fit.syy

\* The line is past a level at a time.
Past(fit, level, x) ==
  LET value == ValueAt(fit, x)
  IN  IF limits.direction = "above" THEN AtMost(<<level, 1>>, value) ELSE AtMost(value, <<level, 1>>)

\* Faulty variant: any slope leads to the level.
Heading_AnyWay(fit) == fit.sxy # 0

\* The line leads towards the levels.
Heading(fit) == IF limits.direction = "above" THEN fit.sxy > 0 ELSE fit.sxy < 0

\* Where the line has a value.
Meets(fit, level) ==
  LET above == (level * fit.n - fit.v) * fit.sxx + fit.sxy * fit.t
  IN  IF fit.sxy > 0 THEN <<above, fit.n * fit.sxy>> ELSE <<-above, -(fit.n * fit.sxy)>>

\* _crossing
Crossing(fit, level) ==
  CASE level = None -> [kind |-> "none", at |-> None]
    [] level # None /\ Past(fit, level, now) -> [kind |-> "already", at |-> <<now, 1>>]
    [] OTHER -> IF Heading(fit) THEN [kind |-> "future", at |-> Meets(fit, level)]
                ELSE [kind |-> "never", at |-> None]

-----------------------------------------------------------------------------
(* The forecast *)

Outlook(status, confidence, warn, crit) ==
  [status |-> status, confidence |-> confidence, warn_at |-> warn, crit_at |-> crit, computed_at |-> now]

Insufficient == Outlook("insufficient_data", None, None, None)

\* project
Project(points) ==
  LET fit  == Fit(points)
      warn == Crossing(fit, limits.warn)
      crit == Crossing(fit, limits.crit)
      kinds == {warn.kind, crit.kind}
      Date(c) == IF c.at # None /\ AtMost(c.at, <<now + Horizon, 1>>) THEN c.at ELSE None
      status == CASE "already" \in kinds -> "already_crossed"
                  [] "already" \notin kinds /\ {Date(warn), Date(crit)} # {None} -> "projected"
                  [] OTHER -> IF "future" \in kinds THEN "beyond_horizon" ELSE "not_trending"
  IN  IF \/ limits.warn = None /\ limits.crit = None
         \/ Len(points) < MinPoints
         \/ fit = None \/ fit.span < MinSpan
      THEN Insufficient
      ELSE Outlook(status, IF Confident(fit) THEN "normal" ELSE "low", Date(warn), Date(crit))

-----------------------------------------------------------------------------
Later == now' = now + 1 /\ UNCHANGED <<rows, limits, forecast>>

\* A poll: its verdict by the thresholds is stored with the value. A warning counts
\* here like an OK.
Record(result, value) ==
  /\ LET verdict == Applied(limits, CheckResult(result, value))
     IN  rows' = Append(rows, [result |-> verdict.result, value |-> verdict.value, at |-> now])
  /\ UNCHANGED <<now, limits, forecast>>

\* refresh_forecasts, on demand
Refresh ==
  /\ limits # None
  /\ forecast' = Project(Series(Usable))
  /\ UNCHANGED <<now, rows, limits>>

\* _maintenance: the forecast, then retention.
Maintain ==
  /\ forecast' = IF limits = None THEN forecast ELSE Project(Series(Usable))
  /\ rows' = Present([i \in DOMAIN rows |-> IF rows[i].at >= now - Retention THEN rows[i] ELSE None])
  /\ UNCHANGED <<now, limits>>

ForecastInit == now = 0 /\ rows = <<>> /\ limits \in Limits /\ forecast = None

ForecastNext ==
  \/ Later \/ Refresh \/ Maintain
  \/ \E value \in Values \union {None} : Record("ok", value)
  \/ Record("fail", None)

ForecastSpec == ForecastInit /\ [][ForecastNext]_forecastVars

-----------------------------------------------------------------------------
\* A date is never one that has passed and never beyond the horizon, and of two
\* thresholds the line meets the milder one first. (forecast.py:83-92, 114-120)
DatesAreAhead ==
  forecast # None =>
    LET dated == {forecast.warn_at, forecast.crit_at} \ {None}
        mild  == IF limits.direction = "above" THEN limits.warn <= limits.crit ELSE limits.warn >= limits.crit
    IN  /\ \A at \in dated : /\ AtMost(<<forecast.computed_at, 1>>, at)
                             /\ AtMost(at, <<forecast.computed_at + Horizon, 1>>)
        /\ (None \notin {forecast.warn_at, forecast.crit_at} /\ mild)
             => AtMost(forecast.warn_at, forecast.crit_at)

\* n^2 sxx^2 times the squared error of the fitted line, and s^2 times that of the line
\* with value u at the first point and w at the last one, s apart.
Squared(x) == x * x
FitError(points, fit) ==
  Sum([i \in DOMAIN points |-> Squared(points[i].v * fit.n * fit.sxx - ValueAt(fit, points[i].t)[1])])
LineError(points, u, w, s) ==
  Sum([i \in DOMAIN points |-> Squared((points[i].v - u) * s - (w - u) * (points[i].t - points[1].t))])

\* The line is the one of least squares: no line through two of the values the check
\* may find is closer to the history, with hours missing from it and hours averaged.
\* (forecast.py:56-80, store.py:95-104)
NoLineIsCloser ==
  LET points == Series(Usable)
      fit    == Fit(points)
      error  == FitError(points, fit) * Squared(fit.span)
  IN  fit # None =>
        \A u, w \in Values : error <= LineError(points, u, w, fit.span) * Squared(fit.n * fit.sxx)

\* "Hourly means of non-null values" (store.py:96), "the monitor's numeric history over
\* the lookback window" (forecast.py:3): the forecast follows all values the check found.
FollowsTheValues ==
  [][forecast' # forecast => forecast' = Project(Series(Valued))]_forecastVars
=============================================================================

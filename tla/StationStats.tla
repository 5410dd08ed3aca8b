------------------------------ MODULE StationStats ------------------------------
(***************************************************************************)
(* The statistics of the stations: what the views of ClickHouse count for the  *)
(* hours of the week, the score and the confidence calculated from it, and the  *)
(* list of the map, which reads Postgres first and ClickHouse afterwards, while  *)
(* stations and observations are added, and puts the two together.            *)
(*                                                                         *)
(* Numbers are exact: a ratio is in parts of Unit, which all numbers of            *)
(* observations divide, and a score in parts of One.                            *)
(***************************************************************************)
EXTENDS Integers, Sequences, FiniteSets, Functions

CONSTANTS
  Stations,         \* station ids, numbers in the order of their names
  Hours,            \* hours of the week: <<weekday, hour>>
  Kinds,            \* the observations in use, of the set Observation
  FullSample,       \* observations that make full confidence; 20 in the code
  MaxObservations,  \* bound on the observations
  Unit              \* a ratio of 1

NULL == -1

\* What the first view sees in a row; of the service it matters whether the
\* station is closed or has a break of an hour or more, or of unknown length.
Observation == [unavailable : BOOLEAN, status : {"yes", "no", "other"}, severity : 0..6 \cup {NULL}]

ASSUME StatsAssumption ==
  /\ Stations \subseteq Int
  /\ Hours \subseteq (1..7) \X (0..23)
  /\ Kinds \subseteq Observation
  /\ FullSample \in Nat \ {0}
  /\ MaxObservations \in Nat
  /\ Unit \in Nat \ {0} /\ \A n \in 1..MaxObservations : Unit % n = 0

VARIABLES
  registered,   \* the stations in Postgres
  observed,     \* group of the view -> kind of observation -> its rows
  listed,       \* the stations that a request of the map has read from Postgres
  asked         \* the hour whose statistics it asks for, and NULL without a request

vars == <<registered, observed, listed, asked>>

\* What the view groups by: a station and an hour of the week.
Groups == Stations \X Hours

-----------------------------------------------------------------------------
(* The views *)

FuelState(kind) ==
  IF kind.unavailable THEN "no_fuel"
  ELSE CASE kind.status = "yes" -> "has_fuel"
         [] kind.status = "no" -> "no_fuel"
         [] kind.status = "other" -> "unknown"

\* The rows one by one, numbered within their kind.
Each(rows) == UNION {{kind} \X (1..rows[kind]) : kind \in Kinds}

\* countIf: the number of the rows that are of one of the kinds.
CountIf(rows, kinds) == Cardinality({row \in Each(rows) : row[1] \in kinds})

Ratio(a, b) == IF b = 0 THEN NULL ELSE (a * Unit) \div b

HasFuel == {kind \in Kinds : FuelState(kind) = "has_fuel"}
Queued(severity) == {kind \in HasFuel : kind.severity >= severity}

\* Observations with fuel and a queue that is known and at least so severe.
Queues(rows, severity) == CountIf(rows, Queued(severity))

\* Mutant of QueueProbability: a bad queue is no longer a queue.
QueueProbabilityDisjoint(rows) == Ratio(Queues(rows, 1) - Queues(rows, 3), Queues(rows, 0))

QueueProbability(rows) == Ratio(Queues(rows, 1), Queues(rows, 0))

\* A row of station_hourly_stats_v.  The sum of the severities is that of the
\* queues at least so severe, over the severities.
HourlyStats(rows) ==
  LET fuel == CountIf(rows, HasFuel)
      all == CountIf(rows, Kinds)
      known == Queues(rows, 0)
  IN  [observations_count |-> all,
       fuel_available_ratio |-> Ratio(fuel, all),
       queue_data_coverage_when_fuel |-> Ratio(known, fuel),
       queue_probability_when_known |-> QueueProbability(rows),
       bad_queue_probability_when_known |-> Ratio(Queues(rows, 3), known),
       very_bad_queue_probability_when_known |-> Ratio(Queues(rows, 5), known),
       avg_queue_severity_when_fuel |->
         Ratio(Queues(rows, 1) + Queues(rows, 2) + Queues(rows, 3)
                 + Queues(rows, 4) + Queues(rows, 5) + Queues(rows, 6), known),
       service_unavailable_ratio |->
         Ratio(CountIf(rows, {kind \in Kinds : kind.unavailable}), all)]

-----------------------------------------------------------------------------
(* The score *)

MaxQueueSeverity == 6

\* A score of 1, in the parts that the weights (twentieths) and the product of
\* three ratios, one of them divided by MaxQueueSeverity, come in.
One == 20 * MaxQueueSeverity * Unit * Unit * Unit
Parts(ratio) == MaxQueueSeverity * Unit * Unit * ratio    \* a ratio, in twentieths of a part

SafeRatio(ratio) == IF ratio = NULL THEN 0 ELSE ratio
AtMost(a, b) == IF a < b THEN a ELSE b
ClampScore(score) == IF score < 0 THEN 0 ELSE AtMost(One, score)

CalculateQueuePenalty(stats) ==
  LET severity == IF stats.avg_queue_severity_when_fuel = NULL
                    THEN (MaxQueueSeverity \div 2) * Unit
                    ELSE stats.avg_queue_severity_when_fuel
  IN  IF stats.queue_probability_when_known = NULL THEN 0
      ELSE stats.queue_probability_when_known * severity * SafeRatio(stats.queue_data_coverage_when_fuel)

CalculateQueueUncertaintyPenalty(stats) ==
  MaxQueueSeverity * Unit
    * (stats.fuel_available_ratio * (Unit - SafeRatio(stats.queue_data_coverage_when_fuel)))

CalculateTotalQueuePenalty(stats) ==
  14 * CalculateQueuePenalty(stats)
    + 4 * Parts(SafeRatio(stats.bad_queue_probability_when_known))
    + 3 * Parts(SafeRatio(stats.very_bad_queue_probability_when_known))
    + 4 * CalculateQueueUncertaintyPenalty(stats)

CalculateServicePenalty(stats) == 6 * Parts(SafeRatio(stats.service_unavailable_ratio))

\* The confidence of 1.
Full == 10 * FullSample * Unit

CalculateConfidence(stats) ==
  7 * AtMost(stats.observations_count, FullSample) * Unit
    + 3 * FullSample * SafeRatio(stats.queue_data_coverage_when_fuel)

\* Mutant of CalcScore: the score is not clamped.
CalcScoreUnclamped(stats) ==
  [score |-> IF stats.observations_count = 0 \/ stats.fuel_available_ratio = NULL THEN NULL
             ELSE 20 * Parts(stats.fuel_available_ratio)
                    - CalculateTotalQueuePenalty(stats) - CalculateServicePenalty(stats),
   confidence |-> CalculateConfidence(stats)]

CalcScore(stats) ==
  [score |-> IF stats.observations_count = 0 \/ stats.fuel_available_ratio = NULL THEN NULL
             ELSE ClampScore(20 * Parts(stats.fuel_available_ratio)
                               - CalculateTotalQueuePenalty(stats) - CalculateServicePenalty(stats)),
   confidence |-> CalculateConfidence(stats)]

ScoreOf(rows) == CalcScore(HourlyStats(rows))
-----------------------------------------------------------------------------
(* The stations and the map *)

NoRows == [kind \in Kinds |-> 0]
Observed(group) == observed[group] # NoRows
Unscored == [score |-> NULL, confidence |-> NULL]

\* station_hourly_stats_v: a row for each group that was observed.
View ==
  {[station |-> group[1], hour |-> group[2], stats |-> HourlyStats(observed[group])] :
     group \in {group \in Groups : Observed(group)}}

\* get_station_hourly_stats
StationHourlyStats(station) == {row \in View : row.station = station}

\* The scores on the station's own page, by hour.
GetStationStats(station) ==
  {[hour |-> row.hour, score |-> CalcScore(row.stats)] : row \in StationHourlyStats(station)}

Init ==
  /\ registered = {}
  /\ observed = [group \in Groups |-> NoRows]
  /\ listed = <<>>
  /\ asked = NULL

\* A task adds a station.
Register(station) ==
  /\ station \notin registered
  /\ registered' = registered \cup {station}
  /\ UNCHANGED <<observed, listed, asked>>

\* The rows of all groups.
AllRows == UNION {{group} \X Each(observed[group]) : group \in Groups}

\* The ingestion stores an observation, of whatever hour.
Observe(group, kind) ==
  /\ group[1] \in registered
  /\ observed' = [observed EXCEPT ![group][kind] = @ + 1]
  /\ UNCHANGED <<registered, listed, asked>>

\* The ids in the order of their names.
Ascending(ids) ==
  {list \in [1..Cardinality(ids) -> ids] : \A j, k \in DOMAIN list : j < k => list[j] < list[k]}

\* get_all; then the request reads the clock.
ListStations ==
  /\ listed = <<>>
  /\ registered # {}
  /\ listed' \in Ascending(registered)
  /\ asked' \in Hours
  /\ UNCHANGED <<registered, observed>>

\* Mutant of SpotRows: that hour of any weekday.
SpotRowsOfAnyDay(ids, hour) ==
  {row \in View : (\E k \in DOMAIN ids : row.station = ids[k]) /\ row.hour[2] = hour[2]}

\* The rows that get_stations_stats_for_spot selects.
SpotRows(ids, hour) ==
  {row \in View : (\E k \in DOMAIN ids : row.station = ids[k]) /\ row.hour = hour}

\* The query has no ORDER BY.
InAnyOrder(rows) == Bijection(1..Cardinality(rows), rows)

\* stat_dict: of the rows with the same key, the last.
StatDict(list) ==
  [station \in {list[k].station : k \in DOMAIN list} |->
     list[CHOOSE k \in DOMAIN list :
            /\ list[k].station = station
            /\ \A j \in DOMAIN list : j > k => list[j].station # station].stats]

\* The statistics of the ids, in their order: those that the dict has, or none.
StatsForSpot(ids, list) ==
  LET dict == StatDict(list) IN
      [k \in DOMAIN ids |-> {dict[id] : id \in {ids[k]} \cap DOMAIN dict}]

\* What the map shows of a station, after its statistics, if there are any.
JoinedScore(found) == IF found = {} THEN Unscored ELSE CalcScore(CHOOSE stats \in found : TRUE)

\* What the map answers, with the rows of ClickHouse in the order they came.
Shown(ids, list) ==
  LET found == StatsForSpot(ids, list) IN
      [k \in DOMAIN ids |-> [id |-> ids[k], score |-> JoinedScore(found[k])]]

\* The statistics are read, and the answer is given.
ShowStations ==
  /\ listed # <<>>
  /\ listed' = <<>>
  /\ asked' = NULL
  /\ UNCHANGED <<registered, observed>>

Next ==
  \/ \E station \in Stations : Register(station)
  \/ /\ Cardinality(AllRows) < MaxObservations
     /\ \E group \in Groups, kind \in Kinds : Observe(group, kind)
  \/ ListStations
  \/ ShowStations

Spec == Init /\ [][Next]_vars
-----------------------------------------------------------------------------
(* Properties *)

\* Whatever was observed, the score has its ends where they belong: it is 1 only
\* if all observations of the hour found fuel and no queue, it is 0 if none found
\* fuel, and there is none without observations; the confidence is 1 only if there
\* are enough observations and every queue in front of fuel is known.
ScoreCalibrated ==
  \A rows \in {observed[group] : group \in Groups} :
    LET result == ScoreOf(rows)
        seen == {kind \in Kinds : rows[kind] > 0}
        fuel == {kind \in seen : FuelState(kind) = "has_fuel"}
    IN  /\ result.score = NULL <=> seen = {}
        /\ seen # {} => /\ result.score \in 0..One
                        /\ result.score = One <=> \A kind \in seen : kind \in fuel /\ kind.severity = 0
                        /\ fuel = {} => result.score = 0
        /\ result.confidence \in 0..Full
        /\ result.confidence = Full <=>
             /\ CountIf(rows, Kinds) >= FullSample
             /\ fuel # {} /\ \A kind \in fuel : kind.severity # NULL

\* New evidence moves the score the right way: fuel without a queue never lowers
\* it, and no fuel or no service never raises it, though both also change the
\* ratios that the penalties come from.
EvidenceStep ==
  \A group \in Groups, kind \in Kinds :
    observed'[group][kind] > observed[group][kind] /\ Observed(group) =>
      LET before == ScoreOf(observed[group]).score
          after == ScoreOf(observed'[group]).score
      IN  /\ FuelState(kind) = "has_fuel" /\ kind.severity = 0 => after >= before
          /\ FuelState(kind) = "no_fuel" => after <= before

EvidenceCounts == [][EvidenceStep]_vars

\* A longer queue in one of the observations of an hour never raises the score.
QueuesCost ==
  \A rows \in {observed[group] : group \in Groups}, kind \in HasFuel :
    rows[kind] > 0 =>
      \A other \in HasFuel :
        0 <= kind.severity /\ kind.severity < other.severity =>
          ScoreOf([rows EXCEPT ![kind] = @ - 1, ![other] = @ + 1]).score <= ScoreOf(rows).score

\* Whenever ClickHouse answers a request of the map, in whatever order the rows come,
\* each station of the list is shown with the score that its own page then has for
\* the hour that was asked for, and without one if the page has none: next to
\* stations and other hours that have rows, and after stations and observations were
\* added since the list was read.
MapTruthful ==
  \A list \in InAnyOrder(SpotRows(listed, asked)) :
    LET shown == Shown(listed, list) IN
      \A k \in DOMAIN listed :
        LET page == {entry \in GetStationStats(listed[k]) : entry.hour = asked} IN
          /\ shown[k].id = listed[k]
          /\ {entry.score : entry \in page} = {shown[k].score} \ {Unscored}
=============================================================================

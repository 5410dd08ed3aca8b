--------------------------- MODULE TimelyIteration ---------------------------
(***************************************************************************)
(* The ingestion loops as long as every heartbeat is on time: what the       *)
(* leases are for.  IngestionIteration lets a heartbeat take any time, and   *)
(* then a lease may expire under a worker that is still at it.  Here the     *)
(* clock does not pass the moment by which a running heartbeat has to have    *)
(* renewed its leases - CLAIM_INTERVAL_SECONDS and the time its transaction    *)
(* takes after the last renewal - and no heartbeat ends with an error.         *)
(* Processes still crash.                                                    *)
(***************************************************************************)
EXTENDS IngestionIteration

CONSTANT BeatPeriod   \* the longest time from one renewal to the next

ASSUME BeatAssumption == BeatPeriod \in Nat /\ BeatPeriod + MaxLag < ClaimFor

\* Stations whose lease the heartbeat of w renews, or is about to.
Beating(w) ==
  IF hb[w].pc \in {"waiting", "refreshing", "rereading"} THEN leased[w].ids \cup hb[w].ids
  ELSE {}

\* At time t no renewal is overdue.
OnTime(t) ==
  \A w \in Owners : \A s \in Beating(w) :
    row[s].claimed_by = w => t <= row[s].lease_until - ClaimFor + BeatPeriod

TimelyNext ==
  \/ \E w \in Owners : Main(w) \/ HbSend(w) \/ HbRefresh(w) \/ HbReread(w) \/ LateCommit(w)
                        \/ Crash(w)
  \/ Tick /\ OnTime(clock')

TimelySpec == Init /\ [][TimelyNext]_vars

-----------------------------------------------------------------------------
\* The stations w works on: those it fetches, and then those it inserts.
WorkingOn(w) == CASE pc[w] = "fetching" -> Batch(w)
                  [] pc[w] = "inserting" -> inserting[w].ids
                  [] OTHER -> {}

KeepsLease ==
  \A w \in Owners : \A s \in WorkingOn(w) :
    s \in leased[w].ids /\ row[s].claimed_by = w /\ row[s].lease_until > clock

\* Two workers never insert the observations of one station at the same time,
\* which is what the check of the existing ids in ClickHouse relies on.
ExclusiveInsert ==
  \A v, w \in Owners :
    v # w /\ pc[v] = "inserting" /\ pc[w] = "inserting"
      => inserting[v].ids \cap inserting[w].ids = {}

\* When no reading lags (MaxLag = 0), an iteration that is over leaves no live
\* lease behind: no refresh, under way while the feedback released or skipped
\* the rows, takes one of them again.  A process that polls while it is idle
\* holds nothing back from the others.
NoLeftover ==
  \A w \in Owners : pc[w] = "idle" =>
    \A s \in Stations : row[s].claimed_by = w => row[s].lease_until <= clock

\* When no reading lags, get_claimed - which asks for all rows of the process -
\* gives back no row of an earlier iteration.
LeasedFromBatch ==
  \A w \in Owners : leased[w].ids \subseteq Batch(w) \/ pc[w] = "stopping"
=============================================================================

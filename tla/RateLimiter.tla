----------------------------- MODULE RateLimiter -----------------------------
(***************************************************************************)
(* The leaky bucket that all replicas behind one public address share: a     *)
(* Redis key holds the time of the next free request slot, a script takes    *)
(* the slot and moves the key on, and the caller sleeps until its slot and   *)
(* then sends its request.  Keys of other addresses are independent.         *)
(*                                                                         *)
(* Time is that of the Redis server, in its smallest unit (microseconds);     *)
(* a key expires at the granularity of milliseconds, Ms units each.  The      *)
(* script is one step, but its answer takes time and may be lost, a caller     *)
(* may die in its sleep, and it may sleep too long, never too short.  Redis may *)
(* lose the key before it expires: nothing makes it persistent.               *)
(***************************************************************************)
EXTENDS Integers, FiniteSets

CONSTANTS
  Callers,     \* fetches under way, of all replicas
  Interval,    \* interval_us, at the configured rate
  MaxJitter,   \* max_jitter_us
  Ms,          \* units of time in a millisecond
  MaxTime,     \* bound on the clock
  MaxLost,     \* bound on the slots that are reserved and never used
  MaxResets    \* bound on the losses of the key

ASSUME LimiterAssumption ==
  /\ Interval \in Nat \ {0} /\ MaxJitter \in Nat /\ Ms \in Nat \ {0}
  /\ IsFiniteSet(Callers)
  /\ MaxTime \in Nat /\ MaxLost \in Nat /\ MaxResets \in Nat

VARIABLES
  clock,   \* the Redis server's time
  key,     \* the Redis key: the stored time and the last millisecond it is there
  pc,      \* caller -> where wait() is
  delay,   \* caller -> the script's answer
  wake,    \* caller -> the end of its sleep
  slot,    \* caller -> the time it was given, while it waits (history)
  last,    \* the time given last, to whichever caller, since the key was lost (history)
  lost,    \* those of callers that will send no request (history)
  sent,    \* the number of requests sent (history)
  resets   \* the number of times the key was lost

vars == <<clock, key, pc, delay, wake, slot, last, lost, sent, resets>>

Init ==
  /\ clock = 0
  /\ key = [next |-> 0, expires |-> -1]
  /\ pc = [c \in Callers |-> "idle"]
  /\ delay = [c \in Callers |-> 0]
  /\ wake = [c \in Callers |-> 0]
  /\ slot = [c \in Callers |-> 0]
  /\ last = -Interval
  /\ lost = {}
  /\ sent = 0
  /\ resets = 0

-----------------------------------------------------------------------------
(* The script *)

\* GET: the stored time, or 0 if the key has expired.
NextAt(now) == IF now \div Ms <= key.expires THEN key.next ELSE 0

\* request_at
RequestAt(now) == IF NextAt(now) >= now THEN NextAt(now) ELSE now

\* Mutant of Following: the greatest jitter and the drawn one are both added.
FollowingTwice(now, jitter) == RequestAt(now) + Interval + MaxJitter + jitter

\* following_request_at
Following(now, jitter) == RequestAt(now) + Interval + jitter

CeilDiv(a) == (a + Ms - 1) \div Ms

\* Mutant of Expires: the key lives until the slot it has given.
ExpiresAtRequest(now, following) == now \div Ms + CeilDiv(RequestAt(now) - now)

\* The last millisecond of a key set at time now, PX ttl_ms
Expires(now, following) == now \div Ms + CeilDiv(following - now + Interval + MaxJitter)

-----------------------------------------------------------------------------
(* wait() *)

\* The script is executed for c.  If Redis cannot be reached the fetch fails
\* before its request, and nothing changes.
Reserve(c) ==
  /\ pc[c] = "idle"
  /\ \E jitter \in 0..MaxJitter :
       LET following == Following(clock, jitter)
       IN  key' = [next |-> following, expires |-> Expires(clock, following)]
  /\ pc' = [pc EXCEPT ![c] = "answering"]
  /\ delay' = [delay EXCEPT ![c] = RequestAt(clock) - clock]
  /\ slot' = [slot EXCEPT ![c] = RequestAt(clock)]
  /\ last' = RequestAt(clock)
  /\ UNCHANGED <<clock, wake, lost, sent, resets>>

\* The answer arrives and the sleep begins.
Answer(c) ==
  /\ pc[c] = "answering"
  /\ pc' = [pc EXCEPT ![c] = "sleeping"]
  /\ wake' = [wake EXCEPT ![c] = clock + delay[c]]
  /\ delay' = [delay EXCEPT ![c] = 0]
  /\ UNCHANGED <<clock, key, slot, last, lost, sent, resets>>

\* The answer is lost, which fails the fetch, or the caller's process ends.
Lose(c) ==
  /\ pc[c] \in {"answering", "sleeping"}
  /\ Cardinality(lost) < MaxLost
  /\ pc' = [pc EXCEPT ![c] = "idle"]
  /\ delay' = [delay EXCEPT ![c] = 0]
  /\ wake' = [wake EXCEPT ![c] = 0]
  /\ slot' = [slot EXCEPT ![c] = 0]
  /\ lost' = lost \cup {slot[c]}
  /\ UNCHANGED <<clock, key, last, sent, resets>>

\* Mutant of Send: the caller does not sleep.
SendAtOnce(c) ==
  /\ pc[c] = "sleeping"
  /\ pc' = [pc EXCEPT ![c] = "idle"]
  /\ wake' = [wake EXCEPT ![c] = 0]
  /\ slot' = [slot EXCEPT ![c] = 0]
  /\ sent' = sent + 1
  /\ UNCHANGED <<clock, key, delay, last, lost, resets>>

\* The sleep is over, and get_obs_by_id sends its request.
Send(c) ==
  /\ pc[c] = "sleeping"
  /\ wake[c] <= clock
  /\ pc' = [pc EXCEPT ![c] = "idle"]
  /\ wake' = [wake EXCEPT ![c] = 0]
  /\ slot' = [slot EXCEPT ![c] = 0]
  /\ sent' = sent + 1
  /\ UNCHANGED <<clock, key, delay, last, lost, resets>>

\* Redis restarts or evicts the key before it expires; callers sleep on.
LoseKey ==
  /\ resets < MaxResets
  /\ key' = [next |-> 0, expires |-> -1]
  /\ last' = -Interval
  /\ resets' = resets + 1
  /\ UNCHANGED <<clock, pc, delay, wake, slot, lost, sent>>

Tick ==
  /\ clock < MaxTime
  /\ clock' = clock + 1
  /\ UNCHANGED <<key, pc, delay, wake, slot, last, lost, sent, resets>>

Next ==
  \/ \E c \in Callers : Reserve(c) \/ Answer(c) \/ Lose(c) \/ Send(c)
  \/ LoseKey \/ Tick

Spec == Init /\ [][Next]_vars

-----------------------------------------------------------------------------
(* Properties *)

\* The types: among them that no caller is told to wait for a negative time.
TypeOK ==
  /\ clock \in 0..MaxTime
  /\ key \in [next : Nat, expires : Int]
  /\ pc \in [Callers -> {"idle", "answering", "sleeping"}]
  /\ delay \in [Callers -> Nat]
  /\ wake \in [Callers -> Nat]
  /\ slot \in [Callers -> Nat]
  /\ last \in Int /\ lost \in SUBSET Nat
  /\ sent \in Nat /\ resets \in 0..MaxResets

\* Every slot lies a full interval after the slot given before it, to whichever
\* replica and however long ago, and so after all earlier ones: the key never
\* expires while a slot it has given is still near.  Only its loss begins anew.
ReservationsSpaced ==
  [][\A c \in Callers :
       (pc[c] = "idle" /\ pc'[c] = "answering") => last + Interval <= slot'[c]]_vars

\* The shared budget: by any time no more requests have been sent than the rate
\* allows since the start, one at time 0 included, and for each loss of the key
\* one more per caller, for those that were waiting then.  (Callers that oversleep
\* may send close together, but never ahead of the schedule.)
BudgetKept == (sent - 1 - resets * Cardinality(Callers)) * Interval <= clock

\* The backlog is bounded by the callers: each waits for its slot before it asks
\* for another, so no delay exceeds one greatest interval per caller and per
\* slot still to come that was reserved and lost.
DelayBounded ==
  \A c \in Callers : pc[c] # "idle" =>
    slot[c] - clock <=
      (Cardinality(Callers) + Cardinality({x \in lost : x > clock})) * (Interval + MaxJitter)
=============================================================================

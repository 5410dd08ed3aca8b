-------------------------- MODULE RateLimiter_proofs --------------------------
(***************************************************************************)
(* Proofs about the limiter, for any number of callers, rate, jitter, length  *)
(* of a millisecond in units of time, and bound.  The invariant relates the    *)
(* key to the slot given last: as long as the key is there its value lies an   *)
(* interval after that slot, and when it has expired so does the present; the   *)
(* loss of the key begins a new schedule.                                    *)
(*                                                                         *)
(* For the budget it keeps a ledger (Ledger): the requests sent and those still    *)
(* waiting, less one per caller for each loss of the key, fit an interval apart    *)
(* before the last slot, and at any time those whose slot has come fit before     *)
(* it.  For the delay it keeps a chain (Chained): the slots to come, waited for    *)
(* or given up, follow each other within the greatest interval, and the stored     *)
(* time follows the last of them.                                            *)
(***************************************************************************)
EXTENDS RateLimiter, FiniteSetTheorems, TLAPS

\* The stored time is an interval after the last slot, and the key's life ends
\* after the stored time.
KeyOutlives ==
  /\ last + Interval <= key.next
  /\ key.next <= (key.expires + 1) * Ms

IInv == TypeOK /\ KeyOutlives

-----------------------------------------------------------------------------
(* Arithmetic *)

\* Division rounds down by less than the divisor.
LEMMA DivBounds ==
  ASSUME NEW a \in Nat, NEW b \in Nat \ {0}
  PROVE  /\ a \div b \in Nat
         /\ (a \div b) * b <= a
         /\ a < (a \div b + 1) * b
  BY SMT

\* Multiplication is monotone.
LEMMA TimesMonotone ==
  ASSUME NEW a \in Int, NEW b \in Int, NEW m \in Nat, a <= b
  PROVE  a * m <= b * m
  BY SMT

\* Rounding up loses nothing.
LEMMA CeilDivBound ==
  ASSUME NEW a \in Nat
  PROVE  CeilDiv(a) \in Nat /\ a <= CeilDiv(a) * Ms
<1>1. a + Ms - 1 \in Nat /\ Ms \in Nat \ {0}
  BY LimiterAssumption
<1> DEFINE q == (a + Ms - 1) \div Ms
<1>2. q \in Nat /\ a + Ms - 1 < (q + 1) * Ms
  BY <1>1, DivBounds
<1>3. (q + 1) * Ms = q * Ms + Ms /\ q * Ms \in Nat
  BY <1>1, <1>2
<1>4. a <= q * Ms
  BY <1>1, <1>2, <1>3
<1> QED
  BY <1>2, <1>4 DEF CeilDiv

\* A key set at time now is there until its time has passed (PX ttl_ms).
LEMMA ExpiresAfter ==
  ASSUME NEW now \in Nat, NEW following \in Nat, now <= following
  PROVE  /\ Expires(now, following) \in Nat
         /\ following <= (Expires(now, following) + 1) * Ms
<1>1. Ms \in Nat \ {0} /\ Interval \in Nat /\ MaxJitter \in Nat
  BY LimiterAssumption
<1> DEFINE d == following - now + Interval + MaxJitter
           q == now \div Ms
           e == CeilDiv(d)
<1>2. d \in Nat /\ following - now <= d
  BY <1>1
<1>3. q \in Nat /\ now < (q + 1) * Ms
  BY <1>1, DivBounds
<1>4. e \in Nat /\ d <= e * Ms
  BY <1>2, CeilDivBound
<1> HIDE DEF d, q, e
<1>5. (q + e + 1) * Ms = (q + 1) * Ms + e * Ms /\ (q + 1) * Ms \in Nat /\ e * Ms \in Nat
  BY <1>1, <1>3, <1>4
<1>6. following <= (q + e + 1) * Ms
  BY <1>2, <1>3, <1>4, <1>5
<1>7. Expires(now, following) = q + e
  BY DEF Expires, d, q, e
<1> QED
  BY <1>3, <1>4, <1>6, <1>7

-----------------------------------------------------------------------------
(* The script *)

\* The slot is not before the present, nor less than an interval after the last.
LEMMA RequestAtLate ==
  ASSUME IInv
  PROVE  /\ RequestAt(clock) \in Nat
         /\ clock <= RequestAt(clock)
         /\ last + Interval <= RequestAt(clock)
<1>1. clock \in Nat /\ key.next \in Nat /\ key.expires \in Int /\ last \in Int
      /\ Ms \in Nat \ {0} /\ Interval \in Nat
  BY LimiterAssumption DEF IInv, TypeOK
<1>2. last + Interval <= key.next /\ key.next <= (key.expires + 1) * Ms
  BY DEF IInv, KeyOutlives
<1>3. CASE clock \div Ms <= key.expires
  BY <1>1, <1>2, <1>3 DEF RequestAt, NextAt
<1>4. CASE ~(clock \div Ms <= key.expires)
  <2> DEFINE q == clock \div Ms
  <2>1. q \in Nat /\ q * Ms <= clock
    BY <1>1, DivBounds
  <2>2. key.expires + 1 <= q
    BY <1>1, <1>4, <2>1
  <2>3. (key.expires + 1) * Ms <= q * Ms
    BY <1>1, <2>1, <2>2, TimesMonotone
  <2>4. key.next <= clock
    <3> HIDE DEF q
    <3>1. (key.expires + 1) * Ms \in Int /\ q * Ms \in Int
      BY <1>1, <2>1
    <3> QED
      BY <1>1, <1>2, <2>1, <2>3, <3>1
  <2> QED
    BY <1>1, <1>2, <1>4, <2>4 DEF RequestAt, NextAt
<1> QED
  BY <1>3, <1>4

\* The reservation keeps the invariant.
LEMMA ReserveStep ==
  ASSUME IInv, NEW c \in Callers, Reserve(c)
  PROVE  IInv'
<1>1. PICK jitter \in 0..MaxJitter :
        key' = [next |-> Following(clock, jitter),
                expires |-> Expires(clock, Following(clock, jitter))]
  BY DEF Reserve
<1>2. /\ RequestAt(clock) \in Nat /\ clock <= RequestAt(clock)
      /\ clock \in Nat /\ jitter \in Nat /\ Interval \in Nat
  BY RequestAtLate, LimiterAssumption DEF IInv, TypeOK
<1> DEFINE f == Following(clock, jitter)
<1>3. f \in Nat /\ clock <= f /\ RequestAt(clock) + Interval <= f
  BY <1>2 DEF Following
<1>4. Expires(clock, f) \in Nat /\ f <= (Expires(clock, f) + 1) * Ms
  BY <1>2, <1>3, ExpiresAfter
<1>5. key'.next = f /\ key'.expires = Expires(clock, f) /\ last' = RequestAt(clock)
  BY <1>1 DEF Reserve
<1>6. KeyOutlives'
  BY <1>3, <1>4, <1>5 DEF KeyOutlives
<1>7. key' \in [next : Nat, expires : Int]
  BY <1>1, <1>3, <1>4
<1>8. RequestAt(clock) - clock \in Nat
  BY <1>2
<1>9. TypeOK'
  BY <1>2, <1>5, <1>7, <1>8 DEF Reserve, IInv, TypeOK
<1> QED
  BY <1>6, <1>9 DEF IInv

\* Initially the invariant holds.
LEMMA InvInit == Init => IInv
  BY LimiterAssumption DEF Init, IInv, TypeOK, KeyOutlives

\* Every step keeps the invariant.
LEMMA InvStep == IInv /\ [Next]_vars => IInv'
<1> SUFFICES ASSUME IInv, [Next]_vars
             PROVE  IInv'
  OBVIOUS
<1> USE LimiterAssumption
<1>1. ASSUME NEW c \in Callers, Reserve(c)
      PROVE  IInv'
  BY <1>1, ReserveStep
<1>2. ASSUME NEW c \in Callers, Answer(c)
      PROVE  IInv'
  BY <1>2 DEF Answer, IInv, TypeOK, KeyOutlives
<1>3. ASSUME NEW c \in Callers, Lose(c)
      PROVE  IInv'
  BY <1>3 DEF Lose, IInv, TypeOK, KeyOutlives
<1>4. ASSUME NEW c \in Callers, Send(c)
      PROVE  IInv'
  BY <1>4 DEF Send, IInv, TypeOK, KeyOutlives
<1>5. CASE Tick
  BY <1>5 DEF Tick, IInv, TypeOK, KeyOutlives
<1>6. CASE LoseKey
  BY <1>6 DEF LoseKey, IInv, TypeOK, KeyOutlives
<1>7. CASE UNCHANGED vars
  BY <1>7 DEF vars, IInv, TypeOK, KeyOutlives
<1> QED
  BY <1>1, <1>2, <1>3, <1>4, <1>5, <1>6, <1>7 DEF Next

\* The limiter's variables keep their types; no delay is negative.
THEOREM TypeCorrect == Spec => []TypeOK
<1>1. IInv => TypeOK
  BY DEF IInv
<1> QED
  BY <1>1, InvInit, InvStep, PTL DEF Spec

\* Whatever the expiry of the key, and whoever asks, every reservation lies a
\* full interval after the one before it.
THEOREM SlotsAreSpaced == Spec => ReservationsSpaced
<1>1. IInv /\ [Next]_vars =>
        \A c \in Callers :
          (pc[c] = "idle" /\ pc'[c] = "answering") => last + Interval <= slot'[c]
  <2> SUFFICES ASSUME IInv, [Next]_vars, NEW c \in Callers,
                      pc[c] = "idle", pc'[c] = "answering"
               PROVE  last + Interval <= slot'[c]
    OBVIOUS
  <2>1. Reserve(c)
    BY DEF Next, Answer, Lose, Send, Reserve, LoseKey, Tick, vars, IInv, TypeOK
  <2>2. slot'[c] = RequestAt(clock)
    BY <2>1 DEF Reserve, IInv, TypeOK
  <2> QED
    BY <2>2, RequestAtLate
<1> QED
  BY <1>1, InvInit, InvStep, PTL DEF Spec, ReservationsSpaced

-----------------------------------------------------------------------------
(* The ledger: every request sent, every slot still waited for and every loss  *)
(* of the key is charged to the schedule, which never falls behind the charge. *)

Waiting == {c \in Callers : pc[c] # "idle"}

\* n requests, the first of them at time 0 or later, may have been sent by t.
Fits(n, t) == (n - 1) * Interval <= t

\* The requests sent and those of the callers in S, less one per caller for
\* each loss of the key.
Charge(S) == sent + Cardinality(S) - resets * Cardinality(Callers)

\* The callers that may have sent their request by t: those of a lost schedule
\* (O), and those whose slot has come.
Claim(O, t) == {c \in Waiting : c \in O \/ slot[c] <= t}

Ledger(O) ==
  /\ \A c \in Waiting \ O : slot[c] <= last
  /\ \A t \in Nat : clock <= t => Fits(Charge(Claim(O, t)), t)
  /\ \A c \in Callers : \/ Fits(Charge(Waiting), last)
                        \/ Fits(Charge(Waiting) + 1, clock)
                        \/ Fits(Charge(Waiting) + 1, slot[c])

\* O: the callers that were waiting when the key was lost.
Booked == \E O \in SUBSET Waiting : Ledger(O)

\* No caller wakes before its slot.
SleepsLong ==
  \A c \in Callers :
    /\ pc[c] = "idle" => slot[c] = 0
    /\ pc[c] = "answering" => slot[c] <= clock + delay[c]
    /\ pc[c] = "sleeping" => slot[c] <= wake[c]

LInv == IInv /\ SleepsLong /\ Booked

\* Fewer requests fit sooner and later.
LEMMA FitsMonotone ==
  ASSUME NEW a \in Int, NEW b \in Int, NEW t \in Int, NEW u \in Int,
         a <= b, t <= u, Fits(b, t)
  PROVE  Fits(a, u)
<1>1. Interval \in Nat /\ a - 1 \in Int /\ b - 1 \in Int /\ a - 1 <= b - 1
  BY LimiterAssumption
<1>2. (a - 1) * Interval <= (b - 1) * Interval
  BY <1>1, TimesMonotone
<1>3. (a - 1) * Interval \in Int /\ (b - 1) * Interval \in Int
  BY <1>1
<1> QED
  BY <1>2, <1>3 DEF Fits

\* One more request fits an interval later.
LEMMA FitsNext ==
  ASSUME NEW a \in Int, NEW t \in Int, Fits(a, t)
  PROVE  Fits(a + 1, t + Interval)
<1>1. Interval \in Nat
  BY LimiterAssumption
<1>2. (a + 1 - 1) * Interval = (a - 1) * Interval + Interval /\ (a - 1) * Interval \in Int
  BY <1>1
<1> QED
  BY <1>1, <1>2 DEF Fits

\* Sets of callers are finite and counted.
LEMMA CallerSets ==
  ASSUME NEW T \in SUBSET Callers, NEW S \in SUBSET T
  PROVE  /\ IsFiniteSet(S) /\ IsFiniteSet(T)
         /\ Cardinality(S) \in Nat /\ Cardinality(T) \in Nat
         /\ Cardinality(S) <= Cardinality(T)
         /\ \A c \in T : Cardinality(T \ {c}) = Cardinality(T) - 1
         /\ \A c \in T \ S : Cardinality(S) <= Cardinality(T) - 1
         /\ S # {} => Cardinality(S) >= 1
<1>1. IsFiniteSet(T)
  BY LimiterAssumption, FS_Subset
<1>2. IsFiniteSet(S) /\ Cardinality(S) <= Cardinality(T)
  BY <1>1, FS_Subset
<1>3. Cardinality(S) \in Nat /\ Cardinality(T) \in Nat
  BY <1>1, <1>2, FS_CardinalityType
<1>4. \A c \in T : IsFiniteSet(T \ {c}) /\ Cardinality(T \ {c}) = Cardinality(T) - 1
  BY <1>1, FS_RemoveElement
<1>5. \A c \in T \ S : Cardinality(S) <= Cardinality(T) - 1
  <2> TAKE c \in T \ S
  <2>1. S \in SUBSET (T \ {c})
    OBVIOUS
  <2>2. Cardinality(S) <= Cardinality(T \ {c})
    BY <1>4, <2>1, FS_Subset
  <2> QED
    BY <1>4, <2>2
<1>6. S # {} => Cardinality(S) >= 1
  BY <1>2, <1>3, FS_EmptySet
<1> QED
  BY <1>1, <1>2, <1>3, <1>4, <1>5, <1>6

\* What the invariant says of the numbers.
LEMMA Numbers ==
  ASSUME IInv
  PROVE  /\ clock \in Nat /\ last \in Int /\ sent \in Nat /\ resets \in Nat
         /\ Interval \in Nat /\ Interval >= 1
         /\ \A c \in Callers : slot[c] \in Nat /\ wake[c] \in Nat /\ delay[c] \in Nat
         /\ Cardinality(Callers) \in Nat /\ resets * Cardinality(Callers) \in Nat
<1>1. Cardinality(Callers) \in Nat
  BY CallerSets
<1>2. resets \in Nat
  BY LimiterAssumption DEF IInv, TypeOK
<1>3. resets * Cardinality(Callers) \in Nat
  BY <1>1, <1>2
<1> QED
  BY <1>1, <1>2, <1>3, LimiterAssumption DEF IInv, TypeOK

\* A larger set is charged more, and a charge is an integer.
LEMMA ChargeMonotone ==
  ASSUME IInv, NEW T \in SUBSET Callers, NEW S \in SUBSET T
  PROVE  /\ Charge(S) \in Int /\ Charge(T) \in Int
         /\ Charge(S) <= Charge(T)
<1>1. Cardinality(S) \in Nat /\ Cardinality(T) \in Nat /\ Cardinality(S) <= Cardinality(T)
  BY CallerSets
<1> DEFINE r == resets * Cardinality(Callers)
<1>2. sent \in Nat /\ r \in Nat
  BY Numbers
<1> HIDE DEF r
<1>3. Charge(S) = sent + Cardinality(S) - r /\ Charge(T) = sent + Cardinality(T) - r
  BY DEF Charge, r
<1> QED
  BY <1>1, <1>2, <1>3

\* A reservation is charged when its slot comes: the schedule covers it.
LEMMA ReserveBooked ==
  ASSUME LInv, NEW c \in Callers, Reserve(c)
  PROVE  Booked'
<1>1. PICK O \in SUBSET Waiting : Ledger(O)
  BY DEF LInv, Booked
<1> DEFINE r == RequestAt(clock)
<1>2. /\ IInv /\ r \in Nat /\ clock <= r /\ last + Interval <= r
      /\ clock \in Nat /\ last \in Int /\ Interval \in Nat
  BY RequestAtLate, Numbers DEF LInv
<1>3. /\ pc[c] = "idle" /\ slot[c] = 0
      /\ pc' = [pc EXCEPT ![c] = "answering"] /\ slot' = [slot EXCEPT ![c] = r]
      /\ last' = r /\ clock' = clock /\ sent' = sent /\ resets' = resets
  BY DEF Reserve, LInv, SleepsLong
<1>4. pc \in [Callers -> {"idle", "answering", "sleeping"}] /\ slot \in [Callers -> Nat]
  BY <1>2 DEF IInv, TypeOK
<1> HIDE DEF r
<1>5. /\ slot'[c] = r
      /\ \A d \in Callers \ {c} : slot'[d] = slot[d]
      /\ Waiting' = Waiting \cup {c} /\ c \notin Waiting
  BY <1>3, <1>4 DEF Waiting
<1> DEFINE K == Charge(Waiting)
<1>6. K \in Int /\ Charge(Waiting)' = K + 1
  <2>1. Waiting \cup {c} \in SUBSET Callers /\ Waiting \in SUBSET (Waiting \cup {c})
    BY DEF Waiting
  <2>2. /\ Cardinality(Waiting \cup {c}) = Cardinality(Waiting) + 1
        /\ Cardinality(Waiting) \in Nat
    <3>1. IsFiniteSet(Waiting) /\ Cardinality(Waiting) \in Nat
      BY <2>1, CallerSets
    <3> QED
      BY <1>5, <3>1, FS_AddElement
  <2>3. sent \in Nat /\ resets * Cardinality(Callers) \in Nat
    BY <1>2, Numbers
  <2>4. Charge(Waiting)' = sent + Cardinality(Waiting \cup {c}) - resets * Cardinality(Callers)
    BY <1>3, <1>5 DEF Charge
  <2> QED
    BY <2>2, <2>3, <2>4 DEF Charge
<1>7. Fits(K + 1, r)
  <2> HIDE DEF K
  <2>1. CASE Fits(K, last)
    <3>1. Fits(K + 1, last + Interval)
      BY <1>2, <1>6, <2>1, FitsNext
    <3> QED
      BY <1>2, <1>6, <3>1, FitsMonotone
  <2>2. CASE Fits(K + 1, clock)
    BY <1>2, <1>6, <2>2, FitsMonotone
  <2>3. CASE Fits(K + 1, slot[c])
    BY <1>2, <1>3, <1>6, <2>3, FitsMonotone
  <2> QED
    BY <1>1, <2>1, <2>2, <2>3 DEF Ledger, K
<1>8. \A d \in (Waiting \ O)' : slot'[d] <= last'
  <2> SUFFICES ASSUME NEW d \in Waiting' \ O, d # c
               PROVE  slot'[d] <= r
    BY <1>2, <1>3, <1>5
  <2>1. d \in Waiting \ O /\ d \in Callers /\ slot'[d] = slot[d]
    BY <1>5 DEF Waiting
  <2>2. slot[d] <= last /\ slot[d] \in Nat
    BY <1>1, <1>4, <2>1 DEF Ledger
  <2> QED
    BY <1>2, <2>1, <2>2
<1>9. ASSUME NEW t \in Nat, clock <= t
      PROVE  Fits(Charge(Claim(O, t))', t)
  <2>1. CASE t < r
    <3>1. Claim(O, t)' = Claim(O, t)
      BY <1>1, <1>2, <1>5, <2>1 DEF Claim, Waiting
    <3>2. Charge(Claim(O, t))' = Charge(Claim(O, t))
      BY <1>3, <3>1 DEF Charge
    <3> QED
      BY <1>1, <1>9, <3>2 DEF Ledger
  <2>2. CASE r <= t
    <3>1. Claim(O, t)' \in SUBSET (Waiting') /\ Waiting' \in SUBSET Callers
      BY <1>5 DEF Claim, Waiting
    <3>2. /\ Charge(Claim(O, t))' \in Int
          /\ Charge(Claim(O, t))' <= Charge(Waiting)'
      <4>1. \A S, T : T \in SUBSET Callers /\ S \in SUBSET T
               => /\ sent + Cardinality(S) - resets * Cardinality(Callers) \in Int
                  /\ sent + Cardinality(S) - resets * Cardinality(Callers)
                       <= sent + Cardinality(T) - resets * Cardinality(Callers)
        BY <1>2, ChargeMonotone DEF Charge
      <4> QED
        BY <1>3, <3>1, <4>1 DEF Charge
    <3> HIDE DEF K
    <3> QED
      BY <1>2, <1>6, <1>7, <2>2, <3>2, FitsMonotone
  <2> QED
    BY <1>2, <2>1, <2>2
<1>10. Fits(Charge(Waiting)', last')
  BY <1>3, <1>6, <1>7
<1>11. O \in SUBSET Waiting'
  BY <1>5
<1>12. Ledger(O)'
  BY <1>3, <1>8, <1>9, <1>10 DEF Ledger
<1> QED
  BY <1>11, <1>12 DEF Booked

\* A request that is sent was due, and stays charged.
LEMMA SendBooked ==
  ASSUME LInv, NEW c \in Callers, Send(c)
  PROVE  Booked'
<1>1. PICK O \in SUBSET Waiting : Ledger(O)
  BY DEF LInv, Booked
<1>2. /\ IInv /\ clock \in Nat /\ sent \in Nat /\ resets * Cardinality(Callers) \in Nat
      /\ pc \in [Callers -> {"idle", "answering", "sleeping"}] /\ slot \in [Callers -> Nat]
      /\ last \in Int
  BY Numbers DEF LInv, IInv, TypeOK
<1>3. /\ pc[c] = "sleeping" /\ slot[c] <= clock
      /\ pc' = [pc EXCEPT ![c] = "idle"] /\ slot' = [slot EXCEPT ![c] = 0]
      /\ last' = last /\ clock' = clock /\ sent' = sent + 1 /\ resets' = resets
  <2>1. slot[c] <= wake[c] /\ wake[c] <= clock /\ wake[c] \in Nat /\ slot[c] \in Nat
    BY <1>2, Numbers DEF Send, LInv, SleepsLong
  <2> QED
    BY <1>2, <2>1 DEF Send
<1>4. /\ slot'[c] = 0
      /\ \A d \in Callers \ {c} : slot'[d] = slot[d]
      /\ Waiting' = Waiting \ {c} /\ c \in Waiting
  BY <1>2, <1>3 DEF Waiting
\* The charge of what remains is that of the whole before.
<1>5. \A S \in SUBSET Waiting : c \in S =>
         Charge(S) = sent' + Cardinality(S \ {c}) - resets' * Cardinality(Callers)
  <2> TAKE S \in SUBSET Waiting
  <2> HAVE c \in S
  <2>1. S \in SUBSET Callers
    BY DEF Waiting
  <2>2. Cardinality(S) \in Nat /\ Cardinality(S \ {c}) = Cardinality(S) - 1
    BY <2>1, CallerSets
  <2> QED
    BY <1>2, <1>3, <2>2 DEF Charge
<1> DEFINE P == O \ {c}
<1>6. \A d \in (Waiting \ P)' : slot'[d] <= last'
  BY <1>1, <1>3, <1>4 DEF Ledger, Waiting
<1>7. ASSUME NEW t \in Nat, clock' <= t
      PROVE  Fits(Charge(Claim(P, t))', t)
  <2>1. c \in Claim(O, t) /\ Claim(O, t) \in SUBSET Waiting
    BY <1>2, <1>3, <1>4, <1>7 DEF Claim
  <2>2. Claim(P, t)' = Claim(O, t) \ {c}
    BY <1>4 DEF Claim, Waiting
  <2>3. Charge(Claim(P, t))' = Charge(Claim(O, t))
    BY <1>5, <2>1, <2>2 DEF Charge
  <2> QED
    BY <1>1, <1>3, <1>7, <2>3 DEF Ledger
<1>8. Charge(Waiting)' = Charge(Waiting)
  BY <1>4, <1>5 DEF Charge
<1>9. ASSUME NEW d \in Callers
      PROVE  \/ Fits(Charge(Waiting)', last')
             \/ Fits(Charge(Waiting)' + 1, clock')
             \/ Fits(Charge(Waiting)' + 1, slot'[d])
  <2>1. CASE d # c
    BY <1>1, <1>3, <1>4, <1>8, <2>1 DEF Ledger
  <2>2. CASE d = c
    <3>1. Charge(Waiting) \in Int
      BY <1>2, ChargeMonotone DEF Waiting
    <3>2. Fits(Charge(Waiting) + 1, slot[c]) => Fits(Charge(Waiting) + 1, clock)
      BY <1>2, <1>3, <3>1, FitsMonotone
    <3> QED
      BY <1>1, <1>3, <1>8, <3>2 DEF Ledger
  <2> QED
    BY <2>1, <2>2
<1>10. P \in SUBSET Waiting'
  BY <1>4
<1>11. Ledger(P)'
  BY <1>6, <1>7, <1>9 DEF Ledger
<1> QED
  BY <1>10, <1>11 DEF Booked

\* A slot given up is charged no longer.
LEMMA LoseBooked ==
  ASSUME LInv, NEW c \in Callers, Lose(c)
  PROVE  Booked'
<1>1. PICK O \in SUBSET Waiting : Ledger(O)
  BY DEF LInv, Booked
<1>2. /\ IInv /\ clock \in Nat /\ sent \in Nat /\ resets * Cardinality(Callers) \in Nat
      /\ pc \in [Callers -> {"idle", "answering", "sleeping"}] /\ slot \in [Callers -> Nat]
      /\ last \in Int
  BY Numbers DEF LInv, IInv, TypeOK
<1>3. /\ pc[c] \in {"answering", "sleeping"}
      /\ pc' = [pc EXCEPT ![c] = "idle"] /\ slot' = [slot EXCEPT ![c] = 0]
      /\ last' = last /\ clock' = clock /\ sent' = sent /\ resets' = resets
  BY DEF Lose
<1>4. /\ slot'[c] = 0
      /\ \A d \in Callers \ {c} : slot'[d] = slot[d]
      /\ Waiting' = Waiting \ {c} /\ c \in Waiting
  BY <1>2, <1>3 DEF Waiting
<1> DEFINE K == Charge(Waiting)
<1>5. K \in Int /\ Charge(Waiting)' = K - 1
  <2>1. Cardinality(Waiting) \in Nat /\ Cardinality(Waiting \ {c}) = Cardinality(Waiting) - 1
    BY <1>4, CallerSets DEF Waiting
  <2> QED
    BY <1>2, <1>3, <1>4, <2>1 DEF Charge
<1> DEFINE P == O \ {c}
<1>6. \A d \in (Waiting \ P)' : slot'[d] <= last'
  BY <1>1, <1>3, <1>4 DEF Ledger, Waiting
<1>7. ASSUME NEW t \in Nat, clock' <= t
      PROVE  Fits(Charge(Claim(P, t))', t)
  <2>1. Claim(P, t)' \in SUBSET Claim(O, t) /\ Claim(O, t) \in SUBSET Callers
    BY <1>4 DEF Claim, Waiting
  <2>2. /\ Charge(Claim(O, t)) \in Int
        /\ Charge(Claim(P, t))' \in Int
        /\ Charge(Claim(P, t))' <= Charge(Claim(O, t))
    <3>1. \A S, T : T \in SUBSET Callers /\ S \in SUBSET T
             => /\ sent + Cardinality(S) - resets * Cardinality(Callers) \in Int
                /\ Charge(T) \in Int
                /\ sent + Cardinality(S) - resets * Cardinality(Callers) <= Charge(T)
      BY <1>2, ChargeMonotone DEF Charge
    <3> QED
      BY <1>3, <2>1, <3>1 DEF Charge
  <2>3. Fits(Charge(Claim(O, t)), t)
    BY <1>1, <1>3, <1>7 DEF Ledger
  <2> QED
    BY <2>2, <2>3, FitsMonotone
<1>8. Fits(K - 1, last) \/ Fits(K, clock)
  <2> DEFINE m == IF last < clock THEN clock ELSE last
  <2>1. m \in Nat /\ clock <= m /\ last <= m
    BY <1>2
  <2>2. Claim(O, m) = Waiting
    <3>1. \A d \in Waiting \ O : slot[d] <= m
      <4> TAKE d \in Waiting \ O
      <4>1. slot[d] <= last /\ slot[d] \in Nat
        BY <1>1, <1>2 DEF Ledger, Waiting
      <4> QED
        BY <1>2, <2>1, <4>1
    <3> QED
      BY <1>1, <3>1 DEF Claim
  <2>3. Fits(K, m)
    BY <1>1, <2>1, <2>2 DEF Ledger
  <2>4. CASE last < clock
    BY <2>3, <2>4
  <2>5. CASE ~(last < clock)
    <3> HIDE DEF K
    <3>1. K - 1 \in Int /\ K - 1 <= K
      BY <1>5
    <3> QED
      BY <1>2, <1>5, <2>3, <2>5, <3>1, FitsMonotone
  <2> QED
    BY <2>4, <2>5
<1>9. ASSUME NEW d \in Callers
      PROVE  \/ Fits(Charge(Waiting)', last')
             \/ Fits(Charge(Waiting)' + 1, clock')
             \/ Fits(Charge(Waiting)' + 1, slot'[d])
  <2>1. Charge(Waiting)' + 1 = K /\ Charge(Waiting)' = K - 1
    BY <1>5
  <2>2. CASE d = c
    BY <1>3, <1>8, <2>1
  <2>3. CASE d # c
    <3> HIDE DEF K
    <3>1. K - 1 \in Int /\ K + 1 \in Int /\ K - 1 <= K /\ K <= K + 1 /\ slot[d] \in Nat
      BY <1>2, <1>5
    <3>2. Fits(K, last) => Fits(K - 1, last)
      BY <1>2, <1>5, <3>1, FitsMonotone
    <3>3. Fits(K + 1, clock) => Fits(K, clock)
      BY <1>2, <1>5, <3>1, FitsMonotone
    <3>4. Fits(K + 1, slot[d]) => Fits(K, slot[d])
      BY <1>2, <1>5, <3>1, FitsMonotone
    <3>5. Fits(K, last) \/ Fits(K + 1, clock) \/ Fits(K + 1, slot[d])
      BY <1>1 DEF Ledger, K
    <3> QED
      BY <1>3, <1>4, <2>1, <2>3, <3>2, <3>3, <3>4, <3>5
  <2> QED
    BY <2>2, <2>3
<1>10. P \in SUBSET Waiting'
  BY <1>4
<1>11. Ledger(P)'
  BY <1>6, <1>7, <1>9 DEF Ledger
<1> QED
  BY <1>10, <1>11 DEF Booked

\* When the key is lost all who wait belong to a lost schedule; what they may
\* still send is made up for by the charge of that loss.
LEMMA LoseKeyBooked ==
  ASSUME LInv, LoseKey
  PROVE  Booked'
<1>1. PICK O \in SUBSET Waiting : Ledger(O)
  BY DEF LInv, Booked
<1> DEFINE N == Cardinality(Callers)
<1>2. /\ IInv /\ clock \in Nat /\ sent \in Nat /\ resets \in Nat
      /\ resets * N \in Nat /\ N \in Nat
      /\ slot \in [Callers -> Nat]
  BY Numbers DEF LInv, IInv, TypeOK
<1>3. /\ last' = -Interval /\ clock' = clock /\ sent' = sent /\ resets' = resets + 1
      /\ Waiting' = Waiting /\ slot' = slot
  BY DEF LoseKey, Waiting
<1>4. (resets + 1) * N = resets * N + N
  BY <1>2
<1> DEFINE K == Charge(Waiting)
<1>5. K \in Int /\ Charge(Waiting)' = K - N
  <2>1. Cardinality(Waiting) \in Nat
    BY CallerSets DEF Waiting
  <2> HIDE DEF N
  <2>2. Charge(Waiting)' = sent + Cardinality(Waiting) - (resets + 1) * N
    BY <1>3 DEF Charge, N
  <2>3. K = sent + Cardinality(Waiting) - resets * N
    BY DEF Charge, N
  <2> QED
    BY <1>2, <1>4, <2>1, <2>2, <2>3
\* Whoever has sent none by t leaves the new charge room for one more.
<1>6. ASSUME NEW t \in Nat
      PROVE  /\ Charge(Claim(O, t)) \in Int
             /\ K - N <= Charge(Claim(O, t))
             /\ (Waiting # Callers \/ Claim(O, t) # {}) => K - N + 1 <= Charge(Claim(O, t))
  <2> DEFINE C == Claim(O, t)
  <2>1. C \in SUBSET Waiting /\ Waiting \in SUBSET Callers
    BY DEF Claim, Waiting
  <2>2. /\ Cardinality(C) \in Nat /\ Cardinality(Waiting) \in Nat
        /\ Cardinality(Waiting) <= N
        /\ C # {} => Cardinality(C) >= 1
    BY <2>1, CallerSets
  <2>3. Waiting # Callers => Cardinality(Waiting) <= N - 1
    <3>1. \A d \in Callers \ Waiting : Cardinality(Waiting) <= N - 1
      BY <2>1, CallerSets
    <3> QED
      BY <2>1, <3>1
  <2> HIDE DEF C, N
  <2>4. Charge(C) = sent + Cardinality(C) - resets * N
        /\ K = sent + Cardinality(Waiting) - resets * N
    BY DEF Charge, N
  <2>5. Charge(C) \in Int /\ K - N <= Charge(C)
    BY <1>2, <2>2, <2>4
  <2>6. (Waiting # Callers \/ C # {}) => K - N + 1 <= Charge(C)
    BY <1>2, <2>2, <2>3, <2>4
  <2> QED
    BY <2>5, <2>6 DEF C
<1> HIDE DEF N, K
<1>7. K - N \in Int /\ K - N + 1 \in Int
  BY <1>2, <1>5
<1>8. \A d \in (Waiting \ Waiting)' : slot'[d] <= last'
  OBVIOUS
<1>9. ASSUME NEW t \in Nat, clock' <= t
      PROVE  Fits(Charge({c \in Waiting : c \in Waiting \/ slot[c] <= t})', t)
  <2>1. Fits(Charge(Claim(O, t)), t)
    BY <1>1, <1>3, <1>9 DEF Ledger
  <2>2. Fits(K - N, t)
    BY <1>6, <1>7, <2>1, FitsMonotone
  <2>3. {c \in Waiting : c \in Waiting \/ slot[c] <= t}' = Waiting'
    OBVIOUS
  <2> QED
    BY <1>5, <2>2, <2>3 DEF Charge
<1>10. ASSUME NEW d \in Callers
       PROVE  \/ Fits(Charge(Waiting)' + 1, clock')
              \/ Fits(Charge(Waiting)' + 1, slot'[d])
  <2>1. slot[d] \in Nat
    BY <1>2
  <2> DEFINE m == IF clock < slot[d] THEN slot[d] ELSE clock
  <2>2. m \in Nat /\ clock <= m /\ slot[d] <= m
    BY <1>2, <2>1
  <2>3. Waiting # Callers \/ Claim(O, m) # {}
    <3>1. CASE d \in Waiting
      BY <2>2, <3>1 DEF Claim
    <3>2. CASE d \notin Waiting
      BY <3>2
    <3> QED
      BY <3>1, <3>2
  <2>4. Fits(Charge(Claim(O, m)), m)
    BY <1>1, <2>2 DEF Ledger
  <2>5. Fits(K - N + 1, m)
    BY <1>6, <1>7, <2>2, <2>3, <2>4, FitsMonotone
  <2> QED
    BY <1>3, <1>5, <2>5
<1>11. Ledger(Waiting)'
  BY <1>8, <1>9, <1>10 DEF Ledger, Claim
<1>12. Ledger(Waiting)' => \E Q \in SUBSET Waiting' : Ledger(Q)'
  OBVIOUS
<1> QED
  BY <1>11, <1>12 DEF Booked

\* Initially nothing is charged.
LEMMA LedgerInit == Init => LInv
<1> SUFFICES ASSUME Init
             PROVE  LInv
  OBVIOUS
<1>1. IInv
  BY InvInit
<1>2. SleepsLong
  BY DEF Init, SleepsLong
<1>3. Waiting = {} /\ \A t : Claim({}, t) = {}
  BY DEF Init, Waiting, Claim
<1>4. Charge({}) = 0
  <2>1. Cardinality(Callers) \in Nat /\ Cardinality({}) = 0
    BY CallerSets, FS_EmptySet
  <2>2. sent = 0 /\ resets = 0
    BY DEF Init
  <2> QED
    BY <2>1, <2>2 DEF Charge
<1>5. Interval \in Nat
  BY LimiterAssumption
<1>6. \A t \in Int : -Interval <= t => Fits(0, t)
  <2>1. (0 - 1) * Interval = -Interval
    BY <1>5
  <2> QED
    BY <1>5, <2>1 DEF Fits
<1>7. last = -Interval /\ clock = 0
  BY DEF Init
<1>8. Ledger({})
  <2>1. \A t \in Nat : Fits(Charge(Claim({}, t)), t)
    BY <1>3, <1>4, <1>5, <1>6
  <2>2. Fits(Charge(Waiting), last)
    BY <1>3, <1>4, <1>5, <1>6, <1>7
  <2> QED
    BY <1>3, <2>1, <2>2 DEF Ledger
<1> QED
  BY <1>1, <1>2, <1>8 DEF LInv, Booked

\* No step makes a caller wake before its slot.
LEMMA SleepsStep ==
  ASSUME IInv, SleepsLong, [Next]_vars
  PROVE  SleepsLong'
<1>1. /\ clock \in Nat /\ RequestAt(clock) \in Nat
      /\ pc \in [Callers -> {"idle", "answering", "sleeping"}]
      /\ delay \in [Callers -> Nat] /\ wake \in [Callers -> Nat] /\ slot \in [Callers -> Nat]
  BY Numbers, RequestAtLate DEF IInv, TypeOK
<1>2. ASSUME NEW c \in Callers, Reserve(c)
      PROVE  SleepsLong'
  <2> SUFFICES ASSUME NEW d \in Callers
               PROVE  /\ pc'[d] = "idle" => slot'[d] = 0
                      /\ pc'[d] = "answering" => slot'[d] <= clock' + delay'[d]
                      /\ pc'[d] = "sleeping" => slot'[d] <= wake'[d]
    BY DEF SleepsLong
  <2>1. CASE d = c
    BY <1>1, <1>2, <2>1 DEF Reserve
  <2>2. CASE d # c
    BY <1>1, <1>2, <2>2 DEF Reserve, SleepsLong
  <2> QED
    BY <2>1, <2>2
<1>3. ASSUME NEW c \in Callers, Answer(c)
      PROVE  SleepsLong'
  BY <1>1, <1>3 DEF Answer, SleepsLong
<1>4. ASSUME NEW c \in Callers, Lose(c)
      PROVE  SleepsLong'
  BY <1>1, <1>4 DEF Lose, SleepsLong
<1>5. ASSUME NEW c \in Callers, Send(c)
      PROVE  SleepsLong'
  BY <1>1, <1>5 DEF Send, SleepsLong
<1>6. CASE Tick
  BY <1>1, <1>6 DEF Tick, SleepsLong
<1>7. CASE LoseKey
  BY <1>7 DEF LoseKey, SleepsLong
<1>8. CASE UNCHANGED vars
  BY <1>8 DEF vars, SleepsLong
<1> QED
  BY <1>2, <1>3, <1>4, <1>5, <1>6, <1>7, <1>8 DEF Next

\* Where the slots, the requests and the losses stay as they are, so does the
\* ledger: time only makes room.
LEMMA SameBooked ==
  ASSUME LInv, Waiting' = Waiting, clock' \in Nat, clock <= clock',
         UNCHANGED <<slot, last, sent, resets>>
  PROVE  Booked'
<1>1. PICK O \in SUBSET Waiting : Ledger(O)
  BY DEF LInv, Booked
<1>2. IInv /\ clock \in Nat
  BY Numbers DEF LInv
<1>3. /\ Charge(Waiting)' = Charge(Waiting)
      /\ \A t : Charge(Claim(O, t))' = Charge(Claim(O, t))
  BY DEF Charge, Claim
<1>4. \A t \in Nat : clock' <= t => Fits(Charge(Claim(O, t))', t)
  BY <1>1, <1>2, <1>3 DEF Ledger
<1>5. ASSUME NEW d \in Callers
      PROVE  \/ Fits(Charge(Waiting)', last')
             \/ Fits(Charge(Waiting)' + 1, clock')
             \/ Fits(Charge(Waiting)' + 1, slot'[d])
  <2>1. Charge(Waiting) \in Int
    BY <1>2, ChargeMonotone DEF Waiting
  <2>2. Fits(Charge(Waiting) + 1, clock) => Fits(Charge(Waiting) + 1, clock')
    BY <1>2, <2>1, FitsMonotone
  <2> QED
    BY <1>1, <1>3, <2>2 DEF Ledger
<1>6. Ledger(O)'
  BY <1>1, <1>4, <1>5 DEF Ledger
<1> QED
  BY <1>1, <1>6 DEF Booked

\* Every step keeps the books.
LEMMA LedgerStep == LInv /\ [Next]_vars => LInv'
<1> SUFFICES ASSUME LInv, [Next]_vars
             PROVE  LInv'
  OBVIOUS
<1>1. IInv' /\ SleepsLong'
  BY InvStep, SleepsStep DEF LInv
<1>2. clock \in Nat /\ pc \in [Callers -> {"idle", "answering", "sleeping"}]
  BY Numbers DEF LInv, IInv, TypeOK
<1>3. ASSUME NEW c \in Callers, Reserve(c)
      PROVE  Booked'
  BY <1>3, ReserveBooked
<1>4. ASSUME NEW c \in Callers, Answer(c)
      PROVE  Booked'
  <2>1. Waiting' = Waiting
    BY <1>2, <1>4 DEF Answer, Waiting
  <2> QED
    BY <1>2, <1>4, <2>1, SameBooked DEF Answer
<1>5. ASSUME NEW c \in Callers, Lose(c)
      PROVE  Booked'
  BY <1>5, LoseBooked
<1>6. ASSUME NEW c \in Callers, Send(c)
      PROVE  Booked'
  BY <1>6, SendBooked
<1>7. ASSUME LoseKey
      PROVE  Booked'
  BY <1>7, LoseKeyBooked
<1>8. ASSUME Tick
      PROVE  Booked'
  <2>1. Waiting' = Waiting
    BY <1>8 DEF Tick, Waiting
  <2> QED
    BY <1>2, <1>8, <2>1, SameBooked DEF Tick
<1>9. ASSUME UNCHANGED vars
      PROVE  Booked'
  <2>1. Waiting' = Waiting
    BY <1>9 DEF vars, Waiting
  <2> QED
    BY <1>2, <1>9, <2>1, SameBooked DEF vars
<1>10. Booked'
  BY <1>3, <1>4, <1>5, <1>6, <1>7, <1>8, <1>9 DEF Next
<1> QED
  BY <1>1, <1>10 DEF LInv

\* The shared budget is kept: never have more requests been sent than the rate
\* allows since the start, but for the waiting callers of each loss of the key.
THEOREM BudgetIsKept == Spec => []BudgetKept
<1>1. LInv => BudgetKept
  <2> SUFFICES ASSUME LInv
               PROVE  BudgetKept
    OBVIOUS
  <2>1. PICK O \in SUBSET Waiting : Ledger(O)
    BY DEF LInv, Booked
  <2> DEFINE C == Claim(O, clock)
             n == sent - resets * Cardinality(Callers)
  <2>2. clock \in Nat /\ sent \in Nat /\ resets * Cardinality(Callers) \in Nat
    BY Numbers DEF LInv
  <2>3. Cardinality(C) \in Nat
    BY CallerSets DEF Claim, Waiting
  <2>4. Fits(Charge(C), clock)
    BY <2>1, <2>2 DEF Ledger
  <2>5. n \in Int /\ Charge(C) \in Int /\ n <= Charge(C)
    <3> HIDE DEF C
    <3> QED
      BY <2>2, <2>3 DEF Charge
  <2>6. Fits(n, clock)
    <3> HIDE DEF C, n
    <3> QED
      BY <2>2, <2>4, <2>5, FitsMonotone
  <2>7. n - 1 = sent - 1 - resets * Cardinality(Callers)
    BY <2>2
  <2> HIDE DEF C
  <2> QED
    BY <2>6, <2>7 DEF Fits, BudgetKept
<1> QED
  BY <1>1, LedgerInit, LedgerStep, PTL DEF Spec

-----------------------------------------------------------------------------
(* The chain: between the present and any slot still to come, the slots given   *)
(* follow each other within one greatest interval.                           *)

\* The slots callers wait for, and those given up.
Given == {slot[c] : c \in Waiting} \cup lost

Between(u, x) == {w \in Given : u < w /\ w <= x}

Greatest == Interval + MaxJitter

Chained ==
  /\ \A x \in Given, u \in Nat :
       clock <= u /\ u <= x => x - u <= Cardinality(Between(u, x)) * Greatest
  /\ last <= clock \/ last \in Given
  /\ key.next <= clock \/ key.next <= last + Greatest

CInv == IInv /\ SleepsLong /\ IsFiniteSet(lost) /\ Chained

\* The slots waited for are no more than the callers.
LEMMA SlotsFinite ==
  ASSUME IInv
  PROVE  /\ IsFiniteSet({slot[c] : c \in Waiting})
         /\ Cardinality({slot[c] : c \in Waiting}) \in Nat
         /\ Cardinality({slot[c] : c \in Waiting}) <= Cardinality(Callers)
<1> DEFINE S == {slot[c] : c \in Waiting}
           f == [c \in Waiting |-> slot[c]]
<1>1. Waiting \in SUBSET Callers
  BY DEF Waiting
<1>2. /\ IsFiniteSet(Waiting) /\ Cardinality(Waiting) \in Nat
      /\ Cardinality(Waiting) <= Cardinality(Callers) /\ Cardinality(Callers) \in Nat
  BY <1>1, CallerSets
<1>3. f \in Surjection(Waiting, S)
  BY DEF Surjection
<1>4. IsFiniteSet(S) /\ Cardinality(S) <= Cardinality(Waiting)
  BY <1>2, <1>3, FS_Surjection
<1>5. Cardinality(S) \in Nat
  BY <1>4, FS_CardinalityType
<1> QED
  BY <1>2, <1>4, <1>5

\* Greatest is a number, and multiples of it grow.
LEMMA Multiples ==
  ASSUME NEW a \in Nat, NEW b \in Nat, a <= b
  PROVE  /\ Greatest \in Nat
         /\ a * Greatest \in Nat /\ b * Greatest \in Nat
         /\ a * Greatest <= b * Greatest
         /\ (a + 1) * Greatest = a * Greatest + Greatest
<1>1. Greatest \in Nat
  BY LimiterAssumption DEF Greatest
<1>2. a * Greatest <= b * Greatest
  BY <1>1, TimesMonotone
<1>3. a * Greatest \in Nat /\ b * Greatest \in Nat
  BY <1>1
<1>4. (a + 1) * Greatest = a * Greatest + Greatest
  BY <1>1
<1> QED
  BY <1>1, <1>2, <1>3, <1>4

\* The slots that were given are numbers, and finitely many.
LEMMA GivenFinite ==
  ASSUME IInv, IsFiniteSet(lost)
  PROVE  /\ IsFiniteSet(Given) /\ Given \in SUBSET Nat
         /\ \A S \in SUBSET Given :
              /\ IsFiniteSet(S) /\ Cardinality(S) \in Nat
              /\ \A T \in SUBSET S : Cardinality(T) <= Cardinality(S)
<1>1. IsFiniteSet(Given)
  BY SlotsFinite, FS_Union DEF Given
<1>2. Given \in SUBSET Nat
  BY DEF Given, Waiting, IInv, TypeOK
<1>3. \A S \in SUBSET Given : IsFiniteSet(S)
  BY <1>1, FS_Subset
<1>4. \A S \in SUBSET Given : Cardinality(S) \in Nat
  BY <1>3, FS_CardinalityType
<1>5. \A S \in SUBSET Given : \A T \in SUBSET S : Cardinality(T) <= Cardinality(S)
  BY <1>3, FS_Subset
<1> QED
  BY <1>1, <1>2, <1>3, <1>4, <1>5

\* A new slot follows the last one within the greatest interval, or is now.
LEMMA ReserveChained ==
  ASSUME CInv, NEW c \in Callers, Reserve(c)
  PROVE  Chained'
<1> DEFINE r == RequestAt(clock)
<1>1. /\ IInv /\ r \in Nat /\ clock <= r /\ last + Interval <= r
      /\ clock \in Nat /\ last \in Int /\ Interval \in Nat /\ Interval >= 1 /\ MaxJitter \in Nat
      /\ key.next \in Nat
  BY RequestAtLate, Numbers, LimiterAssumption DEF CInv, IInv, TypeOK
<1>2. /\ pc[c] = "idle"
      /\ pc' = [pc EXCEPT ![c] = "answering"] /\ slot' = [slot EXCEPT ![c] = r]
      /\ last' = r /\ clock' = clock /\ lost' = lost
  BY DEF Reserve
<1>3. pc \in [Callers -> {"idle", "answering", "sleeping"}] /\ slot \in [Callers -> Nat]
  BY <1>1 DEF IInv, TypeOK
<1>4. Given' = Given \cup {r}
  BY <1>2, <1>3 DEF Given, Waiting
<1>5. r = clock \/ (r = key.next /\ r > clock /\ r <= last + Greatest)
  <2>1. r = clock \/ (r = key.next /\ r > clock)
    BY <1>1 DEF RequestAt, NextAt
  <2>2. key.next <= clock \/ key.next <= last + Greatest
    BY DEF CInv, Chained
  <2> QED
    BY <1>1, <2>1, <2>2
<1>6. key'.next <= last' + Greatest
  <2>1. PICK jitter \in 0..MaxJitter : key'.next = Following(clock, jitter)
    BY DEF Reserve
  <2> QED
    BY <1>1, <1>2, <2>1 DEF Following, Greatest
<1> HIDE DEF r
<1>7. IsFiniteSet(Given) /\ Given \in SUBSET Nat
  BY GivenFinite DEF CInv
<1>8. \A S \in SUBSET Given' : IsFiniteSet(S) /\ Cardinality(S) \in Nat
  <2>1. IsFiniteSet(Given')
    BY <1>4, <1>7, FS_AddElement
  <2>2. \A S \in SUBSET Given' : IsFiniteSet(S)
    BY <2>1, FS_Subset
  <2> QED
    BY <2>2, FS_CardinalityType
<1>9. ASSUME NEW x \in Given', NEW u \in Nat, clock' <= u, u <= x
      PROVE  x - u <= Cardinality(Between(u, x)') * Greatest
  <2> DEFINE B == Between(u, x)'
  <2>1. B \in SUBSET Given' /\ IsFiniteSet(B) /\ Cardinality(B) \in Nat /\ x \in Nat
    BY <1>1, <1>4, <1>7, <1>8 DEF Between
  <2>2. CASE x \in Given
    <3>1. Between(u, x) \in SUBSET B
      BY <1>4 DEF Between
    <3>2. Cardinality(Between(u, x)) <= Cardinality(B) /\ Cardinality(Between(u, x)) \in Nat
      BY <2>1, <3>1, FS_Subset, FS_CardinalityType
    <3>3. x - u <= Cardinality(Between(u, x)) * Greatest
      BY <1>2, <1>9, <2>2 DEF CInv, Chained
    <3> QED
      <4> HIDE DEF B
      <4>1. /\ Cardinality(Between(u, x)) * Greatest \in Nat
            /\ Cardinality(B) * Greatest \in Nat
            /\ Cardinality(Between(u, x)) * Greatest <= Cardinality(B) * Greatest
        BY <2>1, <3>2, Multiples
      <4> QED
        BY <2>1, <3>3, <4>1 DEF B
  <2>3. CASE x = r /\ u = r
    <3>1. Cardinality(B) * Greatest \in Nat
      <4> HIDE DEF B
      <4> QED
        BY <2>1, Multiples
    <3> QED
      BY <1>1, <2>3, <3>1
  <2>4. CASE x = r /\ u < r
    <3>1. r <= last + Greatest /\ r > clock
      BY <1>1, <1>2, <1>5, <1>9, <2>4
    <3>2. r \in B
      BY <1>1, <1>4, <2>4 DEF Between
    <3>3. CASE last <= u
      <4>1. Cardinality(B) >= 1
        BY <2>1, <3>2, FS_EmptySet
      <4> HIDE DEF B
      <4>2. /\ 1 * Greatest <= Cardinality(B) * Greatest /\ 1 * Greatest \in Nat
            /\ Cardinality(B) * Greatest \in Nat /\ Greatest \in Nat
        BY <2>1, <4>1, Multiples
      <4>3. 1 * Greatest = Greatest
        BY <4>2
      <4> QED
        BY <1>1, <2>4, <3>1, <3>3, <4>2, <4>3 DEF B
    <3>4. CASE u < last
      <4>1. last \in Given /\ last \in Nat
        BY <1>1, <1>2, <1>7, <1>9, <3>4 DEF CInv, Chained
      <4> DEFINE A == Between(u, last)
      <4>2. last - u <= Cardinality(A) * Greatest
        BY <1>1, <1>2, <1>9, <3>4, <4>1 DEF CInv, Chained
      <4>3. A \in SUBSET (B \ {r})
        <5>1. \A w \in A : w \in Given' /\ u < w /\ w <= r /\ w # r
          BY <1>1, <1>4, <1>7, <4>1 DEF Between
        <5> QED
          BY <2>4, <5>1 DEF Between
      <4>4. IsFiniteSet(B \ {r}) /\ Cardinality(B \ {r}) = Cardinality(B) - 1
        BY <2>1, <3>2, FS_RemoveElement
      <4>5. Cardinality(A) \in Nat /\ Cardinality(A) <= Cardinality(B) - 1
        BY <4>3, <4>4, FS_Subset, FS_CardinalityType
      <4> HIDE DEF A, B
      <4>6. /\ (Cardinality(A) + 1) * Greatest = Cardinality(A) * Greatest + Greatest
            /\ Cardinality(A) * Greatest \in Nat /\ Greatest \in Nat
        BY <4>5, Multiples
      <4>7. (Cardinality(A) + 1) * Greatest <= Cardinality(B) * Greatest
            /\ Cardinality(B) * Greatest \in Nat
        BY <2>1, <4>5, Multiples
      <4> QED
        BY <1>1, <2>4, <3>1, <4>2, <4>6, <4>7 DEF B
    <3> QED
      BY <1>1, <3>3, <3>4
  <2> QED
    BY <1>1, <1>4, <1>9, <2>2, <2>3, <2>4
<1>10. last' \in Given'
  BY <1>2, <1>4
<1>11. Greatest' = Greatest
  BY DEF Greatest
<1> QED
  BY <1>6, <1>9, <1>10, <1>11 DEF Chained

\* The chain remains where slots leave it at its past end only, whether time goes
\* by or the key is lost.
LEMMA SameChained ==
  ASSUME CInv,
         clock' \in Nat, clock <= clock',
         Given' \in SUBSET Given, \A w \in Given : clock' < w => w \in Given',
         UNCHANGED <<key, last>> \/ (last' = -Interval /\ key'.next = 0)
  PROVE  Chained'
<1>1. /\ IInv /\ clock \in Nat /\ last \in Int /\ Interval \in Nat /\ key.next \in Nat
      /\ Greatest \in Nat
  BY Numbers, LimiterAssumption DEF CInv, IInv, TypeOK, Greatest
<1>2. Given \in SUBSET Nat
  BY GivenFinite DEF CInv
<1>3. ASSUME NEW x \in Given', NEW u \in Nat, clock' <= u, u <= x
      PROVE  x - u <= Cardinality(Between(u, x)') * Greatest
  <2>1. Between(u, x)' = Between(u, x)
    <3>1. \A w \in Given : u < w => w \in Given'
      BY <1>2, <1>3
    <3> QED
      BY <3>1 DEF Between
  <2>2. x \in Given /\ clock <= u
    BY <1>1, <1>3
  <2> QED
    BY <1>3, <2>1, <2>2 DEF CInv, Chained
<1>4. last' <= clock' \/ last' \in Given'
  BY <1>1 DEF CInv, Chained
<1>5. key'.next <= clock' \/ key'.next <= last' + Greatest
  BY <1>1 DEF CInv, Chained
<1> QED
  BY <1>3, <1>4, <1>5 DEF Chained, Greatest

\* Initially no slot has been given.
LEMMA ChainInit == Init => CInv
<1> SUFFICES ASSUME Init
             PROVE  CInv
  OBVIOUS
<1>1. IInv /\ SleepsLong
  BY LedgerInit DEF LInv
<1>2. IsFiniteSet(lost)
  BY FS_EmptySet DEF Init
<1>3. Given = {}
  BY DEF Init, Given, Waiting
<1>4. last <= clock /\ key.next <= clock
  BY LimiterAssumption DEF Init
<1> QED
  BY <1>1, <1>2, <1>3, <1>4 DEF CInv, Chained

\* Every step keeps the chain.
LEMMA ChainStep == CInv /\ [Next]_vars => CInv'
<1> SUFFICES ASSUME CInv, [Next]_vars
             PROVE  CInv'
  OBVIOUS
<1>1. IInv' /\ SleepsLong'
  BY InvStep, SleepsStep DEF CInv
<1>2. clock' \in Nat
  BY <1>1, Numbers DEF IInv, TypeOK
<1>3. /\ clock \in Nat
      /\ pc \in [Callers -> {"idle", "answering", "sleeping"}]
      /\ slot \in [Callers -> Nat] /\ wake \in [Callers -> Nat]
  BY Numbers DEF CInv, IInv, TypeOK
<1>4. IsFiniteSet(lost')
  <2>1. ASSUME NEW c \in Callers, Lose(c)
        PROVE  IsFiniteSet(lost')
    BY <2>1, FS_AddElement DEF Lose, CInv
  <2>2. lost' = lost \/ \E c \in Callers : Lose(c)
    BY DEF Next, Reserve, Answer, Send, LoseKey, Tick, vars
  <2> QED
    BY <2>1, <2>2 DEF CInv
<1>5. ASSUME NEW c \in Callers, Reserve(c)
      PROVE  Chained'
  BY <1>5, ReserveChained
<1>6. ASSUME Given' = Given, clock <= clock', UNCHANGED <<key, last>>
      PROVE  Chained'
  BY <1>2, <1>6, SameChained
<1>7. ASSUME NEW c \in Callers, Answer(c)
      PROVE  Chained'
  <2>1. Waiting' = Waiting
    BY <1>3, <1>7 DEF Answer, Waiting
  <2>2. Given' = Given
    BY <1>7, <2>1 DEF Answer, Given
  <2> QED
    BY <1>3, <1>6, <1>7, <2>2 DEF Answer
<1>8. ASSUME NEW c \in Callers, Lose(c)
      PROVE  Chained'
  <2>1. Waiting' = Waiting \ {c} /\ c \in Waiting
    BY <1>3, <1>8 DEF Lose, Waiting
  <2>2. \A d \in Waiting \ {c} : slot'[d] = slot[d]
    BY <1>3, <1>8 DEF Lose, Waiting
  <2>3. lost' = lost \cup {slot[c]}
    BY <1>8 DEF Lose
  <2>4. Given' = Given
    BY <2>1, <2>2, <2>3 DEF Given
  <2> QED
    BY <1>3, <1>6, <1>8, <2>4 DEF Lose
<1>9. ASSUME NEW c \in Callers, Send(c)
      PROVE  Chained'
  <2>1. Waiting' = Waiting \ {c} /\ c \in Waiting
    BY <1>3, <1>9 DEF Send, Waiting
  <2>2. \A d \in Waiting \ {c} : slot'[d] = slot[d]
    BY <1>3, <1>9 DEF Send, Waiting
  <2>3. lost' = lost /\ clock' = clock /\ UNCHANGED <<key, last>>
    BY <1>9 DEF Send
  <2>4. slot[c] <= wake[c] /\ wake[c] <= clock
    BY <1>9 DEF Send, CInv, SleepsLong
  <2>5. Given' \in SUBSET Given /\ Given \in SUBSET (Given' \cup {slot[c]})
    BY <2>1, <2>2, <2>3 DEF Given
  <2>6. \A w \in Given : clock' < w => w \in Given'
    <3>1. ~(clock < slot[c])
      BY <1>3, <2>4
    <3> QED
      BY <2>3, <2>5, <3>1
  <2>7. clock <= clock'
    BY <1>3, <2>3
  <2> QED
    BY <1>2, <2>3, <2>5, <2>6, <2>7, SameChained
<1>10. ASSUME LoseKey
       PROVE  Chained'
  <2>1. Given' = Given /\ clock' = clock /\ last' = -Interval /\ key'.next = 0
    BY <1>10 DEF LoseKey, Given, Waiting
  <2>2. clock <= clock'
    BY <1>3, <2>1
  <2> QED
    BY <1>2, <2>1, <2>2, SameChained
<1>11. ASSUME Tick
       PROVE  Chained'
  <2>1. Given' = Given
    BY <1>11 DEF Tick, Given, Waiting
  <2> QED
    BY <1>3, <1>6, <1>11, <2>1 DEF Tick
<1>12. ASSUME UNCHANGED vars
       PROVE  Chained'
  <2>1. Given' = Given
    BY <1>12 DEF vars, Given, Waiting
  <2> QED
    BY <1>3, <1>6, <1>12, <2>1 DEF vars
<1>13. Chained'
  BY <1>5, <1>7, <1>8, <1>9, <1>10, <1>11, <1>12 DEF Next
<1> QED
  BY <1>1, <1>4, <1>13 DEF CInv

\* No caller is told to wait longer than one greatest interval per caller and per
\* slot to come that was given up.
THEOREM DelayIsBounded == Spec => []DelayBounded
<1>1. CInv => DelayBounded
  <2> SUFFICES ASSUME CInv, NEW c \in Callers, pc[c] # "idle"
               PROVE  slot[c] - clock <=
                        (Cardinality(Callers) + Cardinality({x \in lost : x > clock}))
                          * (Interval + MaxJitter)
    BY DEF DelayBounded
  <2> DEFINE L == {x \in lost : x > clock}
             S == {slot[d] : d \in Waiting}
             B == Between(clock, slot[c])
             n == Cardinality(Callers) + Cardinality(L)
  <2>1. /\ IInv /\ clock \in Nat /\ slot[c] \in Nat /\ Cardinality(Callers) \in Nat
        /\ lost \in SUBSET Nat
    BY Numbers DEF CInv, IInv, TypeOK
  <2>2. IsFiniteSet(L) /\ Cardinality(L) \in Nat
    <3>1. L \in SUBSET lost /\ IsFiniteSet(lost)
      BY DEF CInv
    <3>2. IsFiniteSet(L)
      BY <3>1, FS_Subset
    <3> QED
      BY <3>2, FS_CardinalityType
  <2>3. /\ IsFiniteSet(S) /\ Cardinality(S) \in Nat
        /\ Cardinality(S) <= Cardinality(Callers)
    BY <2>1, SlotsFinite
  <2>4. B \in SUBSET (S \cup L)
    BY <2>1 DEF Between, Given
  <2>5. slot[c] \in Given
    BY DEF Given, Waiting
  <2>6. Cardinality(B) \in Nat /\ Cardinality(B) <= n /\ n \in Nat
    <3> HIDE DEF S, L, B
    <3>1. /\ IsFiniteSet(S \cup L)
          /\ Cardinality(S \cup L) = Cardinality(S) + Cardinality(L) - Cardinality(S \cap L)
      BY <2>2, <2>3, FS_Union
    <3>2. Cardinality(S \cap L) \in Nat
      BY <2>2, <2>3, FS_Intersection, FS_CardinalityType
    <3>3. Cardinality(B) \in Nat /\ Cardinality(B) <= Cardinality(S \cup L)
      BY <2>4, <3>1, FS_Subset, FS_CardinalityType
    <3> QED
      BY <2>1, <2>2, <2>3, <3>1, <3>2, <3>3
  <2> HIDE DEF B, L, S, n
  <2>7. /\ Cardinality(B) * Greatest <= n * Greatest
        /\ Cardinality(B) * Greatest \in Nat /\ n * Greatest \in Nat
    BY <2>6, Multiples
  <2>8. slot[c] - clock <= n * Greatest
    <3>1. CASE slot[c] <= clock
      BY <2>1, <2>7, <3>1
    <3>2. CASE clock <= slot[c]
      <4>1. slot[c] - clock <= Cardinality(B) * Greatest
        BY <2>1, <2>5, <3>2 DEF CInv, Chained, B
      <4> QED
        BY <2>1, <2>7, <4>1
    <3> QED
      BY <2>1, <3>1, <3>2
  <2> QED
    BY <2>8 DEF n, L, Greatest
<1> QED
  BY <1>1, ChainInit, ChainStep, PTL DEF Spec
=============================================================================

--------------------------- MODULE PoliciesProofs ---------------------------
(***************************************************************************)
(* The busy-input rules and the session resets, proved for every policy,   *)
(* any number of inputs and sessions and any clock: the resets by integer  *)
(* division and remainder, for days and hours of any length.  The state    *)
(* files: processes of any number of builds never work on a schema they do *)
(* not understand, wherever the environment puts the databases.  The       *)
(* router: every plan follows from the stored rows, for any rows, cards,   *)
(* groups and options and any number of candidates.  The configuration:    *)
(* what loads can be used, and what is shown has no secret in it.          *)
(***************************************************************************)
EXTENDS GatewaySessions, StateFiles, Routing, FiniteSetTheorems, SequenceTheorems,
        WellFoundedInduction, TLAPS

----------------------------------------------------------------------------
(* Division.                                                               *)

\* Division rounds down, before 1970 too.
LEMMA Division ==
  ASSUME NEW a \in Int, NEW b \in Nat \ {0}
  PROVE  /\ a \div b \in Int /\ a % b \in 0 .. b - 1
         /\ a = b * (a \div b) + (a % b)
BY SMTT(20)

\* Different multiples lie at least one step apart.
LEMMA Multiples ==
  ASSUME NEW k \in Int, NEW l \in Int, NEW d \in Nat \ {0}, k < l
  PROVE  k * d + d <= l * d
BY SMTT(20)

\* A day of hours of seconds of ticks is not empty.
LEMMA ProductPositive ==
  ASSUME NEW a \in Nat \ {0}, NEW b \in Nat \ {0}
  PROVE  a * b \in Nat \ {0}
BY SMTT(20)

\* Cutting a time to seconds keeps its order with whole seconds.
LEMMA CutToSeconds ==
  ASSUME NEW t \in Int, NEW c \in Int, NEW d \in Nat \ {0}
  PROVE  t < c * d <=> t \div d < c
<1>1. t \div d \in Int /\ t % d \in 0 .. d - 1 /\ t = d * (t \div d) + (t % d)
  BY Division
<1>2. PICK q \in Int : q = t \div d
  BY <1>1
<1>3. CASE q < c
  <2>1. q * d + d <= c * d
    BY <1>3, Multiples
  <2> QED
    BY <1>1, <1>2, <1>3, <2>1
<1>4. CASE ~ (q < c)
  <2>1. c * d <= q * d
    <3>1. CASE c = q
      BY <3>1
    <3>2. CASE c < q
      BY <3>2, Multiples
    <3> QED
      BY <1>4, <3>1, <3>2
  <2> QED
    BY <1>1, <1>2, <1>4, <2>1
<1> QED
  BY <1>3, <1>4

\* Two times in one place of their period lie a whole number of periods apart.
LEMMA SamePlace ==
  ASSUME NEW a \in Int, NEW b \in Int, NEW d \in Nat \ {0}, a % d = b % d, a < b
  PROVE  a + d <= b
<1>1. /\ a \div d \in Int /\ a % d \in 0 .. d - 1 /\ a = d * (a \div d) + (a % d)
      /\ b \div d \in Int /\ b % d \in 0 .. d - 1 /\ b = d * (b \div d) + (b % d)
  BY Division
<1>2. PICK p \in Int, q \in Int : p = a \div d /\ q = b \div d
  BY <1>1
<1>3. d * p < d * q
  BY <1>1, <1>2
<1>4. p < q
  <2>1. CASE q < p
    BY <1>3, <2>1, Multiples
  <2>2. CASE q = p
    BY <1>3, <2>2
  <2> QED
    BY <2>1, <2>2
<1>5. p * d + d <= q * d
  BY <1>4, Multiples
<1> QED
  BY <1>1, <1>2, <1>5

\* A place in the period is its own remainder.
LEMMA Remainder ==
  ASSUME NEW k \in Int, NEW d \in Nat \ {0}, NEW r \in Int, 0 <= r, r < d
  PROVE  (k * d + r) % d = r
<1>1. PICK a \in Int : a = k * d + r
  OBVIOUS
<1>2. a \div d \in Int /\ a % d \in 0 .. d - 1 /\ a = d * (a \div d) + (a % d)
  BY Division
<1>3. PICK q \in Int, m \in Int : q = a \div d /\ m = a % d
  BY <1>2
<1>4. k * d + r = q * d + m /\ 0 <= m /\ m < d
  BY <1>1, <1>2, <1>3
<1>5. k = q
  <2>1. CASE k < q
    BY <1>4, <2>1, Multiples
  <2>2. CASE q < k
    BY <1>4, <2>2, Multiples
  <2> QED
    BY <2>1, <2>2
<1> QED
  BY <1>1, <1>3, <1>4, <1>5

\* The units of time are positive.
LEMMA Units ==
  /\ TICKS \in Nat \ {0} /\ MAX_SECONDS \in Nat \ {0} /\ SECONDS_PER_HOUR \in Nat \ {0}
  /\ SECONDS_PER_DAY \in Nat \ {0} /\ SECONDS_PER_DAY * TICKS \in Nat \ {0}
BY SessionConstants, ProductPositive DEF SECONDS_PER_DAY

\* A reset hour of the policy lies within the day.
LEMMA HourOfDay ==
  ASSUME NEW h \in Nat, h < HOURS_PER_DAY
  PROVE  h * SECONDS_PER_HOUR \in Nat /\ h * SECONDS_PER_HOUR < SECONDS_PER_DAY
<1>1. HOURS_PER_DAY \in Nat \ {0} /\ SECONDS_PER_HOUR \in Nat \ {0}
  BY SessionConstants
<1>2. h * SECONDS_PER_HOUR + SECONDS_PER_HOUR <= HOURS_PER_DAY * SECONDS_PER_HOUR
  BY <1>1, Multiples
<1> QED
  BY <1>1, <1>2, SMTT(20) DEF SECONDS_PER_DAY

\* daily_reset_boundary is the last reset hour at or before now: in seconds.
LEMMA BoundarySeconds ==
  ASSUME NEW t \in Int, NEW h \in Nat, h < HOURS_PER_DAY
  PROVE  /\ Seconds(t) \in Int /\ DailyBoundary(t, h) \in Int
         /\ DailyBoundary(t, h) <= Seconds(t)
         /\ Seconds(t) < DailyBoundary(t, h) + SECONDS_PER_DAY
         /\ \E k \in Int : DailyBoundary(t, h) = k * SECONDS_PER_DAY + h * SECONDS_PER_HOUR
<1>1. Seconds(t) \in Int
  BY Division, Units DEF Seconds
<1>2. PICK s \in Int, d \in Nat \ {0}, o \in Nat :
        s = Seconds(t) /\ d = SECONDS_PER_DAY /\ o = h * SECONDS_PER_HOUR /\ o < d
  BY <1>1, Units, HourOfDay
<1>3. s \div d \in Int /\ s % d \in 0 .. d - 1 /\ s = d * (s \div d) + (s % d)
  BY Division
<1>4. PICK q \in Int, m \in Int : q = s \div d /\ 0 <= m /\ m < d /\ s = q * d + m
  BY <1>3
<1>5. DailyBoundary(t, h) = IF s < q * d + o THEN q * d + o - d ELSE q * d + o
  BY <1>2, <1>4 DEF DailyBoundary
<1>6. PICK n \in Int : n = q * d
  OBVIOUS
<1>7. PICK B \in Int : B = IF s < n + o THEN n + o - d ELSE n + o
  BY <1>2, <1>6
<1>8. B = DailyBoundary(t, h)
  BY <1>5, <1>6, <1>7
<1>9. B <= s /\ s < B + d
  BY <1>2, <1>4, <1>6, <1>7
<1>10. \E k \in Int : B = k * d + o
  <2>1. q - 1 \in Int /\ (q - 1) * d + o = n + o - d
    BY <1>6, SMTT(20)
  <2>2. q * d + o = n + o
    BY <1>6
  <2> QED
    BY <1>7, <2>1, <2>2
<1> QED
  BY <1>1, <1>2, <1>8, <1>9, <1>10

\* The same on the clock itself, which is finer than the store's seconds.
LEMMA BoundaryIsLast ==
  ASSUME NEW t \in Int, NEW h \in Nat, h < HOURS_PER_DAY
  PROVE  LET last == DailyBoundary(t, h) * TICKS
             place == h * SECONDS_PER_HOUR * TICKS
         IN /\ last \in Int /\ last <= t /\ last % (SECONDS_PER_DAY * TICKS) = place
            /\ \A b \in Int : b <= t /\ b % (SECONDS_PER_DAY * TICKS) = place => b <= last
<1>1. PICK k \in Int : DailyBoundary(t, h) = k * SECONDS_PER_DAY + h * SECONDS_PER_HOUR
  BY BoundarySeconds
<1>2. PICK B \in Int, d \in Nat \ {0}, o \in Nat, u \in Nat \ {0} :
        /\ B = DailyBoundary(t, h) /\ d = SECONDS_PER_DAY /\ o = h * SECONDS_PER_HOUR /\ u = TICKS
        /\ o < d
  BY BoundarySeconds, Units, HourOfDay
<1>3. B = k * d + o /\ B <= t \div u /\ t \div u < B + d
  BY <1>1, <1>2, BoundarySeconds DEF Seconds
<1>4. B * u <= t /\ t < (B + d) * u
  <2>1. t < B * u <=> t \div u < B
    BY CutToSeconds
  <2>2. PICK c \in Int : c = B + d
    BY <1>2
  <2>3. t < c * u <=> t \div u < c
    BY CutToSeconds
  <2>4. t \div u \in Int /\ c * u \in Int /\ B * u \in Int
    BY Division
  <2> QED
    BY <1>3, <2>1, <2>2, <2>3, <2>4
<1>5. d * u \in Nat \ {0} /\ o * u \in Nat /\ o * u < d * u
  <2>1. d * u \in Nat \ {0} /\ o * u \in Nat
    BY ProductPositive, SMTT(20)
  <2>2. o * u + u <= d * u
    BY <1>2, Multiples
  <2> QED
    BY <2>1, <2>2
<1>6. (B + d) * u = B * u + d * u
  BY SMTT(20)
<1>7. B * u = k * (d * u) + o * u
  BY <1>3, SMTT(20)
<1>8. (B * u) % (d * u) = o * u
  <2>1. PICK e \in Nat \ {0}, p \in Int : e = d * u /\ p = o * u /\ 0 <= p /\ p < e
    BY <1>5
  <2>2. 0 <= p /\ p < e
    BY <2>1
  <2>3. (k * e + p) % e = p
    BY <2>2, Remainder, Zenon
  <2> QED
    BY <1>7, <2>1, <2>3
<1>9. ASSUME NEW b \in Int, b <= t, b % (d * u) = o * u
      PROVE  b <= B * u
  <2>1. SUFFICES ASSUME B * u < b PROVE FALSE
    BY <1>9
  <2>2. B * u + d * u <= b
    <3>1. PICK a \in Int, e \in Nat \ {0} : a = B * u /\ e = d * u
      BY <1>5
    <3>2. a % e = b % e /\ a < b
      BY <1>8, <1>9, <2>1, <3>1
    <3>3. a + e <= b
      BY <3>2, SamePlace
    <3> QED
      BY <3>1, <3>3
  <2> QED
    BY <1>4, <1>6, <1>9, <2>2
<1> QED
  BY <1>2, <1>4, <1>8, <1>9
----------------------------------------------------------------------------
(* Sessions.                                                               *)

SessionRows ==
  [key : SessionKeys, mode : ResetModes, hour : Hours, timeout : Timeouts \cup {None},
   active : Int, reset : Int \cup {None}]

\* A stored row has the last use of the session, cut to seconds, and a policy
\* that was valid when it was written.
SoundRow(row, t) ==
  row \in SessionRows /\ ValidResetPolicy(row.mode, row.hour, row.timeout) /\ t \in Instants /\ row.active = Seconds(t)

SessionInv ==
  /\ now \in Instants /\ touched \in [SessionIds -> Instants \cup {0}]
  /\ sessions \in [SessionIds -> SessionRows \cup {NoSession}]
  /\ \A i \in SessionIds : sessions[i] # NoSession => SoundRow(sessions[i], touched[i])

\* What reaches the store is a number of seconds that fits an i64.
LEMMA SecondsInt == ASSUME NEW t \in Instants PROVE t \in Int /\ Seconds(t) \in Int /\ Seconds(t) <= MAX_SECONDS
BY SessionConstants, Division DEF Seconds

\* Writing one sound row, or none, keeps the table sound.
LEMMA UpsertKeeps ==
  ASSUME SessionInv, NEW i \in SessionIds, NEW row, row = NoSession \/ SoundRow(row, now), now' = now,
         sessions' = [sessions EXCEPT ![i] = row], touched' = [touched EXCEPT ![i] = now]
  PROVE  SessionInv'
<1>1. now \in Instants /\ touched' \in [SessionIds -> Instants \cup {0}]
  BY DEF SessionInv
<1>2. sessions' \in [SessionIds -> SessionRows \cup {NoSession}]
  BY DEF SessionInv, SoundRow
<1>3. ASSUME NEW j \in SessionIds, sessions'[j] # NoSession PROVE SoundRow(sessions'[j], touched'[j])
  <2>1. CASE j = i
    BY <1>3, <2>1 DEF SessionInv
  <2>2. CASE j # i
    BY <1>3, <2>2 DEF SessionInv
  <2> QED
    BY <2>1, <2>2
<1> QED
  BY <1>1, <1>2, <1>3 DEF SessionInv, SoundRow, ValidResetPolicy, Seconds

\* Every operation on sessions keeps the table sound.
LEMMA SessionStep ==
  ASSUME SessionInv, SessionNext
  PROVE  SessionInv'
<1>1. ASSUME NEW i \in SessionIds, NEW k \in SessionKeys, NEW m \in ResetModes, NEW h \in Hours,
             NEW t \in Timeouts \cup {None}, CreateSession(i, k, m, h, t)
      PROVE  SessionInv'
  <2>1. PICK row : /\ row = [key |-> k, mode |-> m, hour |-> h, timeout |-> t, active |-> Seconds(now), reset |-> None]
                   /\ UpsertSession(i, row)
    BY <1>1 DEF CreateSession
  <2>2. now \in Instants /\ Seconds(now) \in Int
    BY SecondsInt DEF SessionInv
  <2>3. row \in SessionRows /\ row.active = Seconds(now)
    BY <2>1, <2>2 DEF SessionRows
  <2>4. SoundRow(row, now)
    BY <2>1, <2>2, <2>3 DEF SoundRow, UpsertSession
  <2>5. sessions' = [sessions EXCEPT ![i] = row] /\ touched' = [touched EXCEPT ![i] = now] /\ now' = now
    BY <1>1, <2>1 DEF CreateSession, UpsertSession
  <2> QED
    BY <2>4, <2>5, UpsertKeeps
<1>2. ASSUME NEW i \in SessionIds, DeleteSession(i)
      PROVE  SessionInv'
  BY <1>2 DEF DeleteSession, SessionInv, SoundRow, ValidResetPolicy, Seconds
<1>3. ASSUME NEW i \in SessionIds, UseSession(i)
      PROVE  SessionInv'
  <2>1. PICK fresh : fresh = [sessions[i] EXCEPT !.active = Seconds(now)]
    OBVIOUS
  <2>2. PICK row : /\ row \in {fresh, [fresh EXCEPT !.reset = Seconds(now)]}
                   /\ UpsertSession(i, row)
    BY <1>3, <2>1 DEF UseSession
  <2>3. now \in Instants /\ Seconds(now) \in Int
    BY SecondsInt DEF SessionInv
  <2>4. sessions[i] \in SessionRows
    BY <1>3 DEF UseSession, SessionInv, SoundRow
  <2>5. fresh \in SessionRows /\ fresh.active = Seconds(now)
    BY <2>1, <2>3, <2>4 DEF SessionRows
  <2>6. row \in SessionRows /\ row.active = Seconds(now)
    BY <2>2, <2>3, <2>5 DEF SessionRows
  <2>7. SoundRow(row, now)
    BY <2>2, <2>3, <2>6 DEF SoundRow, UpsertSession
  <2>8. sessions' = [sessions EXCEPT ![i] = row] /\ touched' = [touched EXCEPT ![i] = now] /\ now' = now
    BY <1>3, <2>2 DEF UseSession, UpsertSession
  <2> QED
    BY <2>7, <2>8, UpsertKeeps
<1>4. CASE Tick
  BY <1>4 DEF Tick, SessionInv, SoundRow, ValidResetPolicy, Seconds
<1> QED
  BY <1>1, <1>2, <1>3, <1>4 DEF SessionNext

\* Whatever is stored can be evaluated, and its fields are numbers.
LEMMA StoredRow ==
  ASSUME SessionInv, NEW i \in Live
  PROVE  /\ i \in SessionIds /\ touched[i] \in Int /\ now \in Int /\ Seconds(now) <= MAX_SECONDS
         /\ sessions[i].active = Seconds(touched[i]) /\ sessions[i].active \in Int
         /\ sessions[i].reset \in Int \cup {None}
         /\ sessions[i].hour \in Nat /\ sessions[i].hour < HOURS_PER_DAY
         /\ sessions[i].mode \in {"idle", "both"} =>
              sessions[i].timeout \in Nat /\ sessions[i].timeout \notin {None, 0}
<1>1. i \in SessionIds /\ SoundRow(sessions[i], touched[i]) /\ now \in Instants
  BY DEF SessionInv, Live
<1>2. PICK row : row = sessions[i]
  OBVIOUS
<1>3. row \in SessionRows /\ ValidResetPolicy(row.mode, row.hour, row.timeout) /\ touched[i] \in Instants
      /\ row.active = Seconds(touched[i])
  BY <1>1, <1>2 DEF SoundRow
<1>4. row.hour \in Nat /\ row.timeout \in Nat \cup {None} /\ row.active \in Int /\ row.reset \in Int \cup {None}
  BY <1>3, SessionConstants DEF SessionRows
<1>5. row.hour < HOURS_PER_DAY /\ (row.mode \in {"idle", "both"} => row.timeout \notin {None, 0})
  BY <1>3 DEF ValidResetPolicy
<1>6. touched[i] \in Int /\ now \in Int /\ Seconds(now) <= MAX_SECONDS
  BY <1>1, <1>3, SecondsInt
<1> QED
  BY <1>1, <1>2, <1>3, <1>4, <1>5, <1>6

\* The checks of the upsert imply those of the evaluation.
LEMMA PoliciesEvaluate == ASSUME SessionInv PROVE StoredPoliciesEvaluate
BY StoredRow DEF StoredPoliciesEvaluate, Evaluable

\* Both times are cut to seconds, so less than a second is lost on each side;
\* the saturated deadline is beyond any clock reading.
LEMMA IdleTimely == ASSUME SessionInv PROVE IdleResetsInTime
<1>1. SUFFICES ASSUME NEW i \in Live, sessions[i].mode \in {"idle", "both"}
               PROVE  LET s == sessions[i]
                          idleFor == now - touched[i]
                      IN /\ "idle" \in ResetReasons(s, now) => idleFor > s.timeout * TICKS
                         /\ idleFor >= (s.timeout + 1) * TICKS => "idle" \in ResetReasons(s, now)
  BY DEF IdleResetsInTime, Evaluated
<1>2. PICK u \in Nat \ {0}, n \in Int, a \in Int, m \in Nat, p \in Int, q \in Int, M \in Nat \ {0} :
        /\ u = TICKS /\ n = now /\ a = touched[i] /\ m = sessions[i].timeout /\ M = MAX_SECONDS
        /\ p = a \div u /\ q = n \div u /\ q <= M /\ p = sessions[i].active
  BY <1>1, StoredRow, Units, Division DEF Seconds
<1>3. "idle" \in ResetReasons(sessions[i], now) <=> q > (IF p + m > M THEN M ELSE p + m)
  BY <1>1, <1>2 DEF ResetReasons, IdleResetDue, Saturated, Seconds
<1>4. "idle" \in ResetReasons(sessions[i], now) <=> p + m < q
  BY <1>2, <1>3
<1>5. p * u <= a /\ a < p * u + u /\ q * u <= n /\ n < q * u + u
  <2>1. /\ a % u \in 0 .. u - 1 /\ a = u * (a \div u) + (a % u)
        /\ n % u \in 0 .. u - 1 /\ n = u * (n \div u) + (n % u)
    BY Division
  <2>2. a = u * p + (a % u) /\ n = u * q + (n % u)
    BY <1>2, <2>1
  <2> QED
    BY <2>1, <2>2
<1>6. (p + m) * u = p * u + m * u /\ (m + 1) * u = m * u + u
  BY SMTT(20)
<1>7. p + m < q => n - a > m * u
  BY <1>5, <1>6, Multiples
<1>8. ~ (p + m < q) => n - a < m * u + u
  <2>1. SUFFICES ASSUME q <= p + m PROVE n - a < m * u + u
    OBVIOUS
  <2>2. q * u <= (p + m) * u
    BY <2>1, Multiples
  <2> QED
    BY <1>5, <1>6, <2>2
<1> QED
  BY <1>2, <1>4, <1>6, <1>7, <1>8
\* The later of two times, whichever way the set of them is written.
LEMMA LaterOf ==
  ASSUME NEW a \in Int, NEW b \in Int
  PROVE  Max({a} \cup {b}) = IF a < b THEN b ELSE a
<1>1. PICK c \in {a} \cup {b} : c = IF a < b THEN b ELSE a
  OBVIOUS
<1>2. \A y \in {a} \cup {b} : c >= y
  BY <1>1
<1>3. \A x \in {a} \cup {b} : (\A y \in {a} \cup {b} : x >= y) => x = c
  BY <1>1, <1>2
<1> QED
  BY <1>1, <1>2, <1>3 DEF Max

\* The boundary the code computes decides whether any reset hour has struck.
LEMMA DailyTimely == ASSUME SessionInv PROVE DailyResetsAtTheHour
<1>1. SUFFICES ASSUME NEW i \in Live, sessions[i].mode \in {"daily", "both"}
               PROVE  LET s == sessions[i]
                          since == Max({touched[i]} \cup {s.reset * TICKS : r \in {s.reset} \ {None}})
                          boundary(b) == b % (SECONDS_PER_DAY * TICKS) = s.hour * SECONDS_PER_HOUR * TICKS
                      IN "daily" \in ResetReasons(s, now) <=> \E b \in (since + 1)..now : boundary(b)
  BY DEF DailyResetsAtTheHour, Evaluated
<1>2. PICK u \in Nat \ {0}, n \in Int, a \in Int, p \in Int, h \in Nat, B \in Int :
        /\ u = TICKS /\ n = now /\ a = touched[i] /\ p = a \div u /\ p = sessions[i].active
        /\ h = sessions[i].hour /\ h < HOURS_PER_DAY /\ B = DailyBoundary(n, h)
  BY StoredRow, Units, BoundarySeconds DEF Seconds
<1>3. PICK since : since = Max({touched[i]} \cup {sessions[i].reset * TICKS : r \in {sessions[i].reset} \ {None}})
  OBVIOUS
\* Both sides say that the boundary comes after the later of use and reset.
<1>4. since \in Int /\ ("daily" \in ResetReasons(sessions[i], now) <=> since < B * u)
  <2>1. a < B * u <=> p < B
    BY <1>2, CutToSeconds
  <2>2. CASE sessions[i].reset = None
    <3>1. {sessions[i].reset * TICKS : r \in {sessions[i].reset} \ {None}} = {}
      BY <2>2
    <3>2. {touched[i]} \cup {sessions[i].reset * TICKS : r \in {sessions[i].reset} \ {None}} = {a} \cup {a}
      BY <1>2, <3>1
    <3>3. since = a
      BY <1>3, <3>2, LaterOf
    <3>4. "daily" \in ResetReasons(sessions[i], now) <=> p < B
      BY <1>1, <1>2, <2>2 DEF ResetReasons, DailyResetDue
    <3> QED
      BY <2>1, <3>3, <3>4
  <2>3. CASE sessions[i].reset # None
    <3>1. PICK r \in Int, c \in Int : r = sessions[i].reset /\ c = r * u
      BY <2>3, StoredRow
    <3>2. {touched[i]} \cup {sessions[i].reset * TICKS : r_1 \in {sessions[i].reset} \ {None}} = {a} \cup {c}
      BY <1>2, <2>3, <3>1
    <3>3. since = IF a < c THEN c ELSE a
      BY <1>3, <3>2, LaterOf
    <3>4. "daily" \in ResetReasons(sessions[i], now) <=> (IF r < p THEN p ELSE r) < B
      BY <1>1, <1>2, <2>3, <3>1 DEF ResetReasons, DailyResetDue
    <3>5. c < B * u <=> r < B
      <4>1. CASE r < B
        BY <3>1, <4>1, Multiples
      <4>2. CASE r = B
        BY <3>1, <4>2
      <4>3. CASE B < r
        BY <3>1, <4>3, Multiples
      <4> QED
        BY <4>1, <4>2, <4>3
    <3> QED
      BY <2>1, <3>3, <3>4, <3>5
  <2> QED
    BY <2>2, <2>3
<1>5. PICK e \in Nat \ {0}, o \in Int :
        e = SECONDS_PER_DAY * TICKS /\ o = sessions[i].hour * SECONDS_PER_HOUR * TICKS
  BY Units, StoredRow
<1>6. /\ B * u \in Int /\ B * u <= n /\ (B * u) % e = o
      /\ \A b \in Int : b <= n /\ b % e = o => b <= B * u
  BY <1>2, <1>5, BoundaryIsLast
<1>7. since < B * u <=> \E b \in (since + 1)..n : b % e = o
  <2>1. PICK last \in Int : last = B * u
    BY <1>6
  <2>2. last <= n /\ last % e = o /\ \A b \in Int : b <= n /\ b % e = o => b <= last
    BY <1>6, <2>1
  <2>3. ASSUME since < last PROVE \E b \in (since + 1)..n : b % e = o
    <3>1. last \in (since + 1)..n
      BY <1>4, <2>2, <2>3
    <3> QED
      BY <2>2, <3>1, Zenon
  <2>4. ASSUME NEW b \in (since + 1)..n, b % e = o PROVE since < last
    <3>1. b \in Int /\ since < b /\ b <= n
      BY <1>4, <2>4
    <3>2. b <= last
      BY <2>2, <2>4, <3>1, Zenon
    <3> QED
      BY <1>4, <3>1, <3>2
  <2> QED
    BY <2>1, <2>3, <2>4, Zenon
<1> QED
  BY <1>2, <1>3, <1>4, <1>5, <1>7

\* No session is stored at first.
LEMMA SessionStart == ASSUME SessionInit PROVE SessionInv
BY SessionConstants DEF SessionInit, SessionInv

----------------------------------------------------------------------------
(* Busy input.                                                             *)

Operations ==
  [op : {0} \cup Inputs, state : {"idle", "running", "interrupting"}, wait : BOOLEAN, subscription : BOOLEAN,
   task : BOOLEAN, context : BOOLEAN, cancellable : BOOLEAN, steerable : BOOLEAN]

BusyTypes ==
  /\ policy \in BusyPolicies /\ active \in Operations /\ queue \in Seq(Inputs)
  /\ arrived \in Nat /\ arrived \in {0} \cup Inputs
  /\ started \subseteq Inputs /\ steered \subseteq Inputs /\ refused \subseteq Inputs
  /\ IsFiniteSet(started) /\ IsFiniteSet(steered) /\ IsFiniteSet(refused)

\* An input that waits has not started, was not passed on and not refused.
QueueInv ==
  /\ \A m \in 1..Len(queue) : queue[m] \in 1..arrived /\ queue[m] \notin started
  /\ \A m, n \in 1..Len(queue) : m < n => queue[m] < queue[n]

BusyInv == BusyTypes /\ QueueInv /\ InputsAccounted /\ QueueWithinDepth /\ InterruptedForSomeone

\* What an evaluation comes to: the input starts, is refused or passed on
\* with nothing changed, or joins the queue, which had room.
LEMMA EvaluationCases ==
  ASSUME BusyTypes, NEW input
  PROVE  LET out == Evaluation(input)
         IN \/ active = Idle /\ out.disposition = "start_now" /\ out.queue = queue
            \/ out = Refusal
            \/ out.disposition = "steered" /\ out.active = active /\ out.queue = queue
            \/ /\ out.disposition \in {"queued", "interrupt_queued"} /\ Len(queue) < policy.depth
               /\ out.active \in {active, [active EXCEPT !.state = "interrupting"]}
               /\ out.queue = Append(queue, input)
<1>1. policy.mode \in Modes /\ policy.depth \in Nat /\ Len(queue) \in Nat
  BY SessionConstants, LenProperties DEF BusyTypes
<1>2. ASSUME NEW d, NEW todo, NEW op
      PROVE  \/ PushQueue(input, d, todo, op) = Refusal
             \/ /\ Len(queue) < policy.depth /\ PushQueue(input, d, todo, op).disposition = d
                /\ PushQueue(input, d, todo, op).active = op /\ PushQueue(input, d, todo, op).queue = Append(queue, input)
  BY <1>1 DEF PushQueue, Outcome
<1>3. ASSUME NEW todo
      PROVE  \/ ApplyQueue(input, todo) = Refusal
             \/ /\ Len(queue) < policy.depth /\ ApplyQueue(input, todo).disposition = "queued"
                /\ ApplyQueue(input, todo).active = active /\ ApplyQueue(input, todo).queue = Append(queue, input)
  BY <1>2 DEF ApplyQueue
<1>4. ASSUME NEW todo
      PROVE  \/ ApplyInterrupt(input, todo) = Refusal
             \/ /\ Len(queue) < policy.depth /\ ApplyInterrupt(input, todo).disposition = "interrupt_queued"
                /\ ApplyInterrupt(input, todo).active = [active EXCEPT !.state = "interrupting"]
                /\ ApplyInterrupt(input, todo).queue = Append(queue, input)
  BY <1>2 DEF ApplyInterrupt
<1>5. CASE active = Idle
  BY <1>5 DEF Evaluation, Outcome
<1>6. CASE active # Idle /\ policy.mode = "queue"
  <2>1. Evaluation(input) = ApplyQueue(input, <<>>)
    BY <1>6 DEF Evaluation
  <2> QED
    BY <1>3, <2>1
<1>7. CASE active # Idle /\ policy.mode = "interrupt"
  <2>1. Evaluation(input) = ApplyInterrupt(input, <<>>)
    BY <1>7 DEF Evaluation
  <2> QED
    BY <1>4, <2>1
<1>8. CASE active # Idle /\ policy.mode = "steer"
  <2>1. Evaluation(input) = ApplySteer(input)
    BY <1>8 DEF Evaluation
  <2>2. CASE Steerable
    BY <2>1, <2>2 DEF ApplySteer, Outcome
  <2>3. CASE ~ Steerable /\ policy.fallback = "queue"
    <3>1. Evaluation(input) = ApplyQueue(input, <<"unsupported_steer">>)
      BY <2>1, <2>3 DEF ApplySteer
    <3> QED
      BY <1>3, <3>1
  <2>4. CASE ~ Steerable /\ policy.fallback # "queue"
    <3>1. Evaluation(input) = ApplyInterrupt(input, <<"unsupported_steer">>)
      BY <2>1, <2>4 DEF ApplySteer
    <3> QED
      BY <1>4, <3>1
  <2> QED
    BY <2>2, <2>3, <2>4
<1> QED
  BY <1>1, <1>5, <1>6, <1>7, <1>8 DEF Modes

\* The records of operations are well formed.
LEMMA OperationTypes ==
  /\ Idle \in Operations /\ Idle.state = "idle"
  /\ \A input \in Inputs : Operation(input) \in Operations /\ Operation(input).state = "running"
  /\ \A a \in Operations : [a EXCEPT !.state = "interrupting"] \in Operations
BY DEF Operations, Idle, Operation

\* An input is counted once more than before, in one of the sets.
LEMMA CountedOnce ==
  ASSUME NEW S \in SUBSET (1..arrived), IsFiniteSet(S), arrived \in Nat
  PROVE  /\ IsFiniteSet(S \cup {arrived + 1})
         /\ Cardinality(S) \in Nat /\ Cardinality(S \cup {arrived + 1}) = Cardinality(S) + 1
<1>1. arrived + 1 \notin S
  OBVIOUS
<1> QED
  BY <1>1, FS_AddElement, FS_CardinalityType
\* What the invariant says of the sets and of the waiting inputs.
LEMMA Accounts ==
  ASSUME BusyInv
  PROVE  /\ arrived \in Nat /\ Len(queue) \in Nat /\ DOMAIN queue = 1..Len(queue)
         /\ started \subseteq 1..arrived /\ steered \subseteq 1..arrived /\ refused \subseteq 1..arrived
         /\ Cardinality(started) \in Nat /\ Cardinality(steered) \in Nat /\ Cardinality(refused) \in Nat
BY LenProperties, FS_CardinalityType DEF BusyInv, BusyTypes, InputsAccounted

\* What the arrival of an input does.
LEMMA ArriveCases ==
  ASSUME BusyInv, Arrive
  PROVE  /\ arrived' = arrived + 1 /\ arrived + 1 \in Inputs /\ policy' = policy
         /\ \/ /\ active' = Operation(arrived + 1) /\ queue' = queue /\ started' = started \cup {arrived + 1}
               /\ steered' = steered /\ refused' = refused
            \/ /\ active' = active /\ queue' = queue /\ refused' = refused \cup {arrived + 1} /\ actions' = <<>>
               /\ started' = started /\ steered' = steered
            \/ /\ active' = active /\ queue' = queue /\ steered' = steered \cup {arrived + 1}
               /\ started' = started /\ refused' = refused
            \/ /\ active' \in {active, [active EXCEPT !.state = "interrupting"]}
               /\ Len(queue) < policy.depth /\ queue' = Append(queue, arrived + 1)
               /\ started' = started /\ steered' = steered /\ refused' = refused
<1>1. PICK out : out = Evaluation(arrived + 1)
  OBVIOUS
<1>2. /\ arrived' = arrived + 1 /\ arrived + 1 \in Inputs /\ policy' = policy
      /\ active' = IF out.disposition = "start_now" THEN Operation(arrived + 1) ELSE out.active
      /\ queue' = out.queue /\ actions' = out.actions
      /\ started' = IF out.disposition = "start_now" THEN started \cup {arrived + 1} ELSE started
      /\ steered' = IF out.disposition = "steered" THEN steered \cup {arrived + 1} ELSE steered
      /\ refused' = IF out.disposition = "refused" THEN refused \cup {arrived + 1} ELSE refused
  BY <1>1 DEF Arrive
<1>3. \/ active = Idle /\ out.disposition = "start_now" /\ out.queue = queue
      \/ out = Refusal
      \/ out.disposition = "steered" /\ out.active = active /\ out.queue = queue
      \/ /\ out.disposition \in {"queued", "interrupt_queued"} /\ Len(queue) < policy.depth
         /\ out.active \in {active, [active EXCEPT !.state = "interrupting"]}
         /\ out.queue = Append(queue, arrived + 1)
  BY <1>1, EvaluationCases DEF BusyInv
<1>4. out = Refusal =>
        out.disposition = "refused" /\ out.actions = <<>> /\ out.active = active /\ out.queue = queue
  BY DEF Refusal, Outcome
<1> QED
  BY <1>2, <1>3, <1>4

\* An input that joins one of the sets leaves the queue as it is.
LEMMA NotQueued ==
  ASSUME BusyInv, arrived' = arrived + 1, arrived + 1 \in Inputs, queue' = queue, policy' = policy,
         active' = active \/ active' = Operation(arrived + 1),
         \/ started' = started \cup {arrived + 1} /\ steered' = steered /\ refused' = refused
         \/ started' = started /\ steered' = steered \cup {arrived + 1} /\ refused' = refused
         \/ started' = started /\ steered' = steered /\ refused' = refused \cup {arrived + 1}
  PROVE  BusyInv'
<1>1. BusyTypes'
  BY Accounts, CountedOnce, OperationTypes DEF BusyInv, BusyTypes
<1>2. \A m \in 1..Len(queue) : queue[m] \in 1..arrived /\ queue[m] # arrived + 1
  BY Accounts DEF BusyInv, QueueInv
<1>3. QueueInv'
  BY <1>2, Accounts DEF BusyInv, QueueInv
<1>4. (1..arrived)' = (1..arrived) \cup {arrived + 1}
  BY Accounts
<1>5. (1..arrived)' = (started \cup Queued \cup steered \cup refused)'
  BY <1>4 DEF BusyInv, InputsAccounted, Queued
<1>6. (Cardinality(started) + Len(queue) + Cardinality(steered) + Cardinality(refused) = arrived)'
  <2>1. IsFiniteSet(started) /\ IsFiniteSet(steered) /\ IsFiniteSet(refused)
    BY DEF BusyInv, BusyTypes
  <2>2. /\ Cardinality(started \cup {arrived + 1}) = Cardinality(started) + 1
        /\ Cardinality(steered \cup {arrived + 1}) = Cardinality(steered) + 1
        /\ Cardinality(refused \cup {arrived + 1}) = Cardinality(refused) + 1
    BY <2>1, Accounts, CountedOnce
  <2>3. Cardinality(started) + Len(queue) + Cardinality(steered) + Cardinality(refused) = arrived
    BY DEF BusyInv, InputsAccounted
  <2>4. PICK a \in Nat, b \in Nat, c \in Nat, l \in Nat :
          a = Cardinality(started) /\ b = Cardinality(steered) /\ c = Cardinality(refused) /\ l = Len(queue)
    BY Accounts
  <2>5. \/ Cardinality(started') = a + 1 /\ Cardinality(steered') = b /\ Cardinality(refused') = c
        \/ Cardinality(started') = a /\ Cardinality(steered') = b + 1 /\ Cardinality(refused') = c
        \/ Cardinality(started') = a /\ Cardinality(steered') = b /\ Cardinality(refused') = c + 1
    BY <2>2, <2>4, Zenon
  <2>6. Len(queue') = l /\ a + l + b + c = arrived /\ arrived' = arrived + 1
    BY <2>3, <2>4
  <2> QED
    BY <2>5, <2>6
<1>7. InputsAccounted'
  BY <1>3, <1>5, <1>6 DEF InputsAccounted, QueueInv
<1>8. QueueWithinDepth' /\ InterruptedForSomeone'
  BY OperationTypes DEF BusyInv, QueueWithinDepth, InterruptedForSomeone
<1> QED
  BY <1>1, <1>3, <1>7, <1>8 DEF BusyInv

\* An input that joins the queue is later than all that wait there.
LEMMA JoinsQueue ==
  ASSUME BusyInv, arrived' = arrived + 1, arrived + 1 \in Inputs, queue' = Append(queue, arrived + 1), policy' = policy,
         Len(queue) < policy.depth, active' \in {active, [active EXCEPT !.state = "interrupting"]},
         started' = started, steered' = steered, refused' = refused
  PROVE  BusyInv'
<1>1. /\ queue \in Seq(Inputs) /\ queue' \in Seq(Inputs) /\ queue' # <<>> /\ Len(queue') = Len(queue) + 1
      /\ \A m \in 1..Len(queue) : queue'[m] = queue[m]
      /\ queue'[Len(queue) + 1] = arrived + 1
  BY AppendProperties DEF BusyInv, BusyTypes
<1>2. BusyTypes'
  BY <1>1, Accounts, OperationTypes DEF BusyInv, BusyTypes
<1>3. \A m \in 1..Len(queue) : queue[m] \in 1..arrived /\ queue[m] \notin started
  BY DEF BusyInv, QueueInv
<1>4. 1..Len(queue') = (1..Len(queue)) \cup {Len(queue) + 1}
  BY <1>1, Accounts
<1>5. QueueInv'
  <2>1. ASSUME NEW m \in 1..Len(queue') PROVE queue'[m] \in 1..arrived' /\ queue'[m] \notin started'
    BY <1>1, <1>3, <1>4, Accounts
  <2>2. ASSUME NEW m \in 1..Len(queue'), NEW n \in 1..Len(queue'), m < n PROVE queue'[m] < queue'[n]
    <3>1. m \in 1..Len(queue) /\ queue'[m] \in 1..arrived
      BY <1>1, <1>3, <1>4, <2>2, Accounts
    <3>2. CASE n = Len(queue) + 1
      BY <1>1, <3>1, <3>2, Accounts
    <3>3. CASE n \in 1..Len(queue)
      BY <1>1, <2>2, <3>1, <3>3 DEF BusyInv, QueueInv
    <3> QED
      BY <1>4, <3>2, <3>3
  <2> QED
    BY <2>1, <2>2 DEF QueueInv
<1>6. Queued' = Queued \cup {arrived + 1}
  <2>1. DOMAIN queue = 1..Len(queue) /\ DOMAIN queue' = (1..Len(queue)) \cup {Len(queue) + 1}
    BY <1>1, <1>4, LenProperties
  <2> QED
    BY <1>1, <2>1 DEF Queued, ToSet
<1>7. (1..arrived)' = (1..arrived) \cup {arrived + 1}
  BY Accounts
<1>8. (1..arrived)' = (started \cup Queued \cup steered \cup refused)'
  BY <1>6, <1>7 DEF BusyInv, InputsAccounted
<1>9. (Cardinality(started) + Len(queue) + Cardinality(steered) + Cardinality(refused) = arrived)'
  BY <1>1, Accounts DEF BusyInv, InputsAccounted
<1>10. InputsAccounted'
  BY <1>5, <1>8, <1>9 DEF InputsAccounted, QueueInv
<1>11. QueueWithinDepth' /\ InterruptedForSomeone'
  <2>1. policy.depth \in Nat
    BY SessionConstants DEF BusyInv, BusyTypes
  <2> QED
    BY <1>1, <2>1, Accounts DEF QueueWithinDepth, InterruptedForSomeone
<1> QED
  BY <1>2, <1>5, <1>10, <1>11 DEF BusyInv
\* The first of the queue starts: it moves from the queue to the started.
LEMMA TakeNextKeeps ==
  ASSUME BusyInv, TakeNext
  PROVE  BusyInv'
<1>1. PICK first : first = Head(queue)
  OBVIOUS
<1>2. /\ queue \in Seq(Inputs) /\ queue # <<>> /\ queue' = Tail(queue)
      /\ active' = Operation(first) /\ started' = started \cup {first}
      /\ UNCHANGED <<policy, arrived, steered, refused, actions>>
  BY <1>1 DEF TakeNext, BusyInv, BusyTypes
<1>3. /\ first \in Inputs /\ queue' \in Seq(Inputs) /\ Len(queue') = Len(queue) - 1
      /\ \A m \in 1..Len(queue') : queue'[m] = queue[m + 1]
  BY <1>1, <1>2, HeadTailProperties
<1>4. Len(queue) \in Nat \ {0} /\ first = queue[1]
  BY <1>1, <1>2, EmptySeq
<1>5. first \in 1..arrived /\ first \notin started
  BY <1>4 DEF BusyInv, QueueInv
<1>6. IsFiniteSet(started') /\ Cardinality(started') = Cardinality(started) + 1
  BY <1>2, <1>5, FS_AddElement DEF BusyInv, BusyTypes
<1>7. BusyTypes'
  BY <1>2, <1>3, <1>6, OperationTypes DEF BusyInv, BusyTypes
<1>8. QueueInv'
  <2>1. ASSUME NEW m \in 1..Len(queue')
        PROVE  m + 1 \in 1..Len(queue) /\ queue'[m] = queue[m + 1] /\ queue'[m] \in 1..arrived /\ first < queue'[m]
               /\ queue'[m] \notin started
    <3>1. m + 1 \in 1..Len(queue) /\ 1 \in 1..Len(queue) /\ 1 < m + 1
      BY <1>3, <1>4
    <3>2. queue'[m] = queue[m + 1]
      BY <1>3
    <3> QED
      BY <1>4, <3>1, <3>2 DEF BusyInv, QueueInv
  <2>2. ASSUME NEW m \in 1..Len(queue') PROVE queue'[m] \in 1..arrived' /\ queue'[m] \notin started'
    BY <1>2, <1>5, <2>1, Accounts
  <2>3. ASSUME NEW m \in 1..Len(queue'), NEW n \in 1..Len(queue'), m < n PROVE queue'[m] < queue'[n]
    <3>1. m + 1 \in 1..Len(queue) /\ n + 1 \in 1..Len(queue) /\ m + 1 < n + 1
      BY <2>1, <2>3
    <3>2. queue'[m] = queue[m + 1] /\ queue'[n] = queue[n + 1]
      BY <2>1
    <3> QED
      BY <3>1, <3>2 DEF BusyInv, QueueInv
  <2> QED
    BY <2>2, <2>3 DEF QueueInv
<1>9. Queued = Queued' \cup {first}
  <2>1. DOMAIN queue = 1..Len(queue) /\ DOMAIN queue' = 1..Len(queue')
    BY <1>2, <1>3, LenProperties
  <2>2. ASSUME NEW m \in 1..Len(queue) PROVE queue[m] \in Queued' \cup {first}
    <3>1. CASE m = 1
      BY <1>4, <3>1
    <3>2. CASE m # 1
      <4>1. m - 1 \in 1..Len(queue') /\ (m - 1) + 1 = m
        BY <1>3, <1>4, <3>2
      <4>2. queue'[m - 1] = queue[m]
        BY <1>3, <4>1
      <4> QED
        BY <2>1, <4>1, <4>2 DEF Queued, ToSet
    <3> QED
      BY <3>1, <3>2
  <2>3. ASSUME NEW m \in 1..Len(queue') PROVE queue'[m] \in Queued
    <3>1. m + 1 \in 1..Len(queue) /\ queue'[m] = queue[m + 1]
      BY <1>3, <1>4
    <3> QED
      BY <2>1, <3>1 DEF Queued, ToSet
  <2>4. first \in Queued
    BY <1>4, <2>1 DEF Queued, ToSet
  <2> QED
    BY <2>1, <2>2, <2>3, <2>4 DEF Queued, ToSet
<1>10. InputsAccounted'
  <2>1. (1..arrived)' = (started \cup Queued \cup steered \cup refused)'
    BY <1>2, <1>9 DEF BusyInv, InputsAccounted
  <2>2. (Cardinality(started) + Len(queue) + Cardinality(steered) + Cardinality(refused) = arrived)'
    BY <1>2, <1>3, <1>6, Accounts DEF BusyInv, InputsAccounted
  <2> QED
    BY <1>8, <2>1, <2>2 DEF InputsAccounted, QueueInv
<1>11. QueueWithinDepth' /\ InterruptedForSomeone'
  <2>1. policy.depth \in Nat
    BY SessionConstants DEF BusyInv, BusyTypes
  <2> QED
    BY <1>2, <1>3, <1>4, <2>1, OperationTypes DEF BusyInv, QueueWithinDepth, InterruptedForSomeone
<1> QED
  BY <1>7, <1>8, <1>10, <1>11 DEF BusyInv

\* The operation in flight learns about itself or ends.
LEMMA OperationKeeps ==
  ASSUME BusyInv, Progress \/ Settle
  PROVE  BusyInv'
<1>1. UNCHANGED <<policy, queue, arrived, started, steered, refused, actions>>
  BY DEF Progress, Settle
<1>2. active' \in Operations /\ (active'.state = "interrupting" => active.state = "interrupting")
  <2>1. active \in Operations
    BY DEF BusyInv, BusyTypes
  <2>2. CASE Settle
    BY <2>2, OperationTypes DEF Settle
  <2>3. CASE Progress
    <3>1. PICK w, s, t, c, k, f \in BOOLEAN :
            active' = [active EXCEPT !.wait = w, !.subscription = s, !.task = t,
                                     !.context = c, !.cancellable = k, !.steerable = f]
      BY <2>3 DEF Progress
    <3>2. active' = [op |-> active.op, state |-> active.state, wait |-> w, subscription |-> s, task |-> t,
                     context |-> c, cancellable |-> k, steerable |-> f]
      BY <2>1, <3>1 DEF Operations
    <3>3. active.op \in {0} \cup Inputs /\ active.state \in {"idle", "running", "interrupting"}
      BY <2>1 DEF Operations
    <3> QED
      BY <3>2, <3>3 DEF Operations
  <2> QED
    BY <2>2, <2>3
<1> QED
  BY <1>1, <1>2 DEF BusyInv, BusyTypes, QueueInv, InputsAccounted, Queued, QueueWithinDepth, InterruptedForSomeone

\* Every step keeps the books, and a refusal changes nothing else.
LEMMA BusyStep ==
  ASSUME BusyInv, BusyNext
  PROVE  BusyInv' /\ (refused' # refused => active' = active /\ queue' = queue /\ actions' = <<>>)
<1>1. CASE Arrive
  <2>1. BusyInv'
    BY <1>1, ArriveCases, NotQueued, JoinsQueue
  <2>2. refused' # refused => active' = active /\ queue' = queue /\ actions' = <<>>
    BY <1>1, ArriveCases
  <2> QED
    BY <2>1, <2>2
<1>2. CASE TakeNext
  <2>1. refused' = refused
    BY <1>2 DEF TakeNext
  <2> QED
    BY <1>2, <2>1, TakeNextKeeps
<1>3. CASE Progress \/ Settle
  <2>1. refused' = refused
    BY <1>3 DEF Progress, Settle
  <2> QED
    BY <1>3, <2>1, OperationKeeps
<1> QED
  BY <1>1, <1>2, <1>3 DEF BusyNext

\* Nothing has arrived at first.
LEMMA BusyStart == ASSUME BusyInit PROVE BusyInv
<1>1. BusyTypes
  BY FS_EmptySet, OperationTypes, EmptySeq DEF BusyInit, BusyTypes
<1>2. Len(queue) = 0 /\ DOMAIN queue = {} /\ Cardinality(started) = 0 /\ Cardinality(steered) = 0 /\ Cardinality(refused) = 0
  BY FS_EmptySet DEF BusyInit
<1>3. Queued = {}
  BY <1>2 DEF Queued, ToSet
<1>4. QueueInv /\ InputsAccounted
  BY <1>2, <1>3 DEF BusyInit, QueueInv, InputsAccounted
<1>5. policy.depth \in Nat
  BY <1>1, SessionConstants DEF BusyTypes
<1>6. QueueWithinDepth /\ InterruptedForSomeone
  BY <1>2, <1>5, OperationTypes DEF BusyInit, QueueWithinDepth, InterruptedForSomeone
<1> QED
  BY <1>1, <1>4, <1>6 DEF BusyInv
----------------------------------------------------------------------------
(* Both together.                                                          *)

\* At every moment the table of sessions and the books of the evaluator are
\* sound (session.rs, busy.rs).
THEOREM SessionsAlways == SessionsSpec => [](BusyInv /\ SessionInv)
<1>1. BusyInit /\ SessionInit => BusyInv /\ SessionInv
  BY BusyStart, SessionStart
<1>2. ASSUME BusyInv /\ SessionInv,
             [\/ BusyNext /\ UNCHANGED sessionVars
              \/ SessionNext /\ UNCHANGED busyVars]_<<busyVars, sessionVars>>
      PROVE  BusyInv' /\ SessionInv'
  <2>1. SessionInv'
    <3>1. CASE UNCHANGED sessionVars
      BY <1>2, <3>1 DEF SessionInv, sessionVars, SoundRow, ValidResetPolicy, Seconds
    <3>2. CASE SessionNext
      BY <1>2, <3>2, SessionStep
    <3> QED
      BY <1>2, <3>1, <3>2
  <2>2. BusyInv'
    <3>1. CASE UNCHANGED busyVars
      BY <1>2, <3>1 DEF BusyInv, BusyTypes, QueueInv, InputsAccounted, Queued, QueueWithinDepth,
                        InterruptedForSomeone, busyVars
    <3>2. CASE BusyNext
      BY <1>2, <3>2, BusyStep
    <3> QED
      BY <1>2, <3>1, <3>2
  <2> QED
    BY <2>1, <2>2
<1> QED
  BY <1>1, <1>2, PTL DEF SessionsSpec

\* A session is reset when its stored policy says, neither early nor late,
\* for every policy the store accepts and however the clock is set
\* (session.rs idle_reset_due, daily_reset_due).
THEOREM ResetsTimely == SessionsSpec => []ResetsInTime
<1>1. SessionInv => ResetsInTime
  BY DailyTimely, IdleTimely, PoliciesEvaluate DEF ResetsInTime
<1> QED
  BY <1>1, SessionsAlways, PTL

\* No mode and no fallback loses, repeats or reorders an input, overfills the
\* queue, interrupts for nobody, or lets a refused input change anything
\* (busy.rs apply_busy_input).
THEOREM BusyKept == SessionsSpec => BusyInputsKept
<1>1. BusyInv /\ SessionInv => SessionsTypeOK /\ InputsAccounted /\ QueueWithinDepth /\ InterruptedForSomeone
  BY DEF BusyInv, BusyTypes, SessionInv, SessionsTypeOK, Operations
<1>2. BusyInv /\ [\/ BusyNext /\ UNCHANGED sessionVars
                  \/ SessionNext /\ UNCHANGED busyVars]_<<busyVars, sessionVars>>
        => [refused' # refused => active' = active /\ queue' = queue /\ actions' = <<>>]_busyVars
  BY BusyStep
<1> QED
  BY <1>1, <1>2, SessionsAlways, PTL DEF SessionsSpec, BusyInputsKept, RefusalIsHarmless

----------------------------------------------------------------------------
(* State files: paths.                                                     *)

\* Every component of a path; the provers do not know a literal for a string.
Components == STRING \cup {"/", "home", "missive", "xdg", "error", "state", ".local", "Library", "Application Support",
                          "profiles", "missive.sqlite3"}

\* A path without "..".
PlainPath(s) == s \in Seq(Components) /\ \A i \in 1 .. Len(s) : s[i] # ".."

LEMMA PlainIsOk ==
  ASSUME NEW s \in Seq(Components)
  PROVE  PlainPath(s) <=> RelativeOk(s)
BY LenProperties DEF PlainPath, RelativeOk

LEMMA PlainJoin ==
  ASSUME NEW a, NEW b, PlainPath(a), PlainPath(b)
  PROVE  PlainPath(a \o b)
<1>1. a \in Seq(Components) /\ b \in Seq(Components) /\ Len(a) \in Nat /\ Len(b) \in Nat
  BY LenProperties DEF PlainPath
<1>2. /\ a \o b \in Seq(Components) /\ Len(a \o b) = Len(a) + Len(b)
      /\ \A i \in 1 .. Len(a) + Len(b) : (a \o b)[i] = IF i <= Len(a) THEN a[i] ELSE b[i - Len(a)]
  BY <1>1, ConcatProperties
<1> QED
  BY <1>1, <1>2 DEF PlainPath

LEMMA PlainEmpty == PlainPath(<<>>)
BY DEF PlainPath

LEMMA PlainWord ==
  ASSUME NEW a \in Components \ {".."}
  PROVE  PlainPath(<<a>>)
BY DEF PlainPath

LEMMA PlainPair ==
  ASSUME NEW a \in Components \ {".."}, NEW b \in Components \ {".."}
  PROVE  PlainPath(<<a, b>>)
BY DEF PlainPath

LEMMA PlainFour ==
  ASSUME NEW a \in Components \ {".."}, NEW b \in Components \ {".."}, NEW c \in Components \ {".."},
         NEW d \in Components \ {".."}
  PROVE  PlainPath(<<a, b, c, d>>)
BY DEF PlainPath

\* The literals, each a component other than "..".
LEMMA Literals ==
  {"/", "home", "missive", "xdg", "error", "state", ".local", "Library", "Application Support", "profiles",
   "missive.sqlite3"} \subseteq Components \ {".."}
BY DEF Components

\* The roots are built of constant names, none of them "..".
LEMMA RootOk ==
  ASSUME NEW l
  PROVE  PlainPath(StateRoot(l))
<1>1. PlainPath(Error) /\ PlainPath(<<>>)
  BY PlainEmpty, PlainWord, Literals DEF Error
<1>2. ASSUME NEW v, NEW name \in {"home", "missive", "xdg"}, NEW f, PlainPath(f)
      PROVE  PlainPath(EnvPath(v, name, f))
  <2>1. PlainPath(<<"/", name>>)
    BY PlainPair, Literals
  <2> QED
    BY <1>1, <1>2, <2>1 DEF EnvPath
<1>3. PlainPath(<<".local", "state">>) /\ PlainPath(<<"state">>) /\ PlainPath(<<"missive">>)
      /\ PlainPath(<<"Library", "Application Support", "missive", "state">>)
  BY PlainWord, PlainPair, PlainFour, Literals
<1>4. PlainPath(EnvPath(l.missiveHome, "missive", <<>>)) /\ PlainPath(HomeDir(l))
  BY <1>1, <1>2 DEF HomeDir
<1>5. PlainPath(HomeDir(l) \o <<".local", "state">>)
  BY <1>3, <1>4, PlainJoin
<1>6. PlainPath(EnvPath(l.xdgState, "xdg", HomeDir(l) \o <<".local", "state">>))
  BY <1>2, <1>5
<1>7. PlainPath(EnvPath(l.missiveHome, "missive", <<>>) \o <<"state">>)
      /\ PlainPath(EnvPath(l.xdgState, "xdg", HomeDir(l) \o <<".local", "state">>) \o <<"missive">>)
      /\ PlainPath(HomeDir(l) \o <<"Library", "Application Support", "missive", "state">>)
  BY <1>3, <1>4, <1>6, PlainJoin
<1> QED
  BY <1>1, <1>7 DEF StateRoot

LEMMA StateDirOk ==
  ASSUME NEW l, NEW p \in Profiles
  PROVE  PlainPath(StateDir(l, p)) /\ PlainPath(<<"profiles", p>>)
<1>1. p \in Components \ {".."}
  BY StateConstants DEF Components
<1>2. PlainPath(<<"profiles", p>>)
  BY <1>1, PlainPair, Literals
<1> QED
  BY <1>2, RootOk, PlainJoin DEF StateDir

\* What a profile keeps in its own directory is that directory's path and
\* something more.
LEMMA OwnPath ==
  ASSUME NEW l \in Layouts, NEW p \in Profiles, l.database[p].kind \in {"default", "relative"}, DatabasePath(l, p) # Error
  PROVE  \E rest \in Seq(Components) : rest # <<>> /\ DatabasePath(l, p) = StateDir(l, p) \o rest
<1>1. StateRoot(l) # Error
  BY DEF DatabasePath
<1>2. CASE l.database[p].kind = "default"
  <2>1. DatabasePath(l, p) = StateDir(l, p) \o <<"missive.sqlite3">>
    BY <1>1, <1>2 DEF DatabasePath
  <2>2. <<"missive.sqlite3">> \in Seq(Components) /\ <<"missive.sqlite3">> # <<>>
    BY PlainWord, Literals DEF PlainPath
  <2> QED
    BY <2>1, <2>2
<1>3. CASE l.database[p].kind = "relative"
  <2>1. PICK given : given = l.database[p]
    OBVIOUS
  <2>2. given.path \in Seq(Components) /\ given.path # <<>>
    <3>1. given.path \in Seq(STRING) /\ given.path # <<>>
      BY <1>3, <2>1, StateConstants
    <3>2. STRING \subseteq Components
      BY DEF Components
    <3> QED
      BY <3>1, <3>2, SeqMonotonic
  <2>3. RelativeOk(given.path) /\ DatabasePath(l, p) = Followed(StateDir(l, p) \o given.path)
    BY <1>1, <1>3, <2>1 DEF DatabasePath
  <2>4. PlainPath(StateDir(l, p) \o given.path)
    BY <2>2, <2>3, StateDirOk, PlainIsOk, PlainJoin
  <2>5. RelativeOk(StateDir(l, p) \o given.path)
    BY <2>4, PlainIsOk DEF PlainPath
  <2> QED
    BY <2>2, <2>3, <2>5 DEF Followed
<1> QED
  BY <1>2, <1>3

\* Two profiles' own databases lie in two directories.
LEMMA OwnDatabasesApart ==
  ASSUME layout \in Layouts
  PROVE  DatabasesApart
<1> SUFFICES ASSUME NEW p \in Profiles, layout.database[p].kind \in {"default", "relative"},
                    DatabasePath(layout, p) # Error
             PROVE  /\ IsStrictPrefix(StateDir(layout, p), DatabasePath(layout, p))
                    /\ \A q \in Profiles \ {p} : layout.database[q].kind \in {"default", "relative"} =>
                         DatabasePath(layout, q) # DatabasePath(layout, p)
  BY DEF DatabasesApart
<1>1. PICK root \in Seq(Components) : root = StateRoot(layout)
  BY RootOk DEF PlainPath
<1>2. \A q \in Profiles : <<"profiles", q>> \in Seq(Components) /\ Len(<<"profiles", q>>) = 2
                          /\ <<"profiles", q>>[2] = q
  BY StateDirOk DEF PlainPath
<1>3. \A q \in Profiles : /\ StateDir(layout, q) \in Seq(Components) /\ Len(StateDir(layout, q)) = Len(root) + 2
                          /\ StateDir(layout, q)[Len(root) + 2] = q
  <2> SUFFICES ASSUME NEW q \in Profiles
               PROVE  /\ StateDir(layout, q) \in Seq(Components) /\ Len(StateDir(layout, q)) = Len(root) + 2
                      /\ StateDir(layout, q)[Len(root) + 2] = q
    OBVIOUS
  <2>1. PICK end \in Seq(Components) : end = <<"profiles", q>> /\ Len(end) = 2 /\ end[2] = q
    BY <1>2
  <2>2. /\ root \o end \in Seq(Components) /\ Len(root \o end) = Len(root) + Len(end)
        /\ \A i \in 1 .. Len(root) + Len(end) : (root \o end)[i] = IF i <= Len(root) THEN root[i] ELSE end[i - Len(root)]
    BY ConcatProperties
  <2> QED
    BY <1>1, <2>1, <2>2, LenProperties DEF StateDir
<1>4. PICK rest \in Seq(Components) : rest # <<>> /\ DatabasePath(layout, p) = StateDir(layout, p) \o rest
  BY OwnPath
<1>5. IsStrictPrefix(StateDir(layout, p), DatabasePath(layout, p))
  <2>1. PICK dir \in Seq(Components) : dir = StateDir(layout, p)
    BY <1>3
  <2>2. Len(dir) \in Nat /\ Len(dir \o rest) = Len(dir) + Len(rest) /\ Len(rest) \in Nat \ {0}
    BY <1>4, ConcatProperties, LenProperties, EmptySeq
  <2>3. SubSeq(dir, 1, Len(dir)) = SubSeq(dir \o rest, 1, Len(dir))
    <3>1. CASE Len(dir) = 0
      BY <3>1, SubSeqEmpty
    <3>2. CASE Len(dir) > 0
      BY <2>2, <3>2, SubSeqOfConcat1
    <3> QED
      BY <2>2, <3>1, <3>2
  <2> QED
    BY <1>4, <2>1, <2>2, <2>3 DEF IsStrictPrefix, IsPrefix
<1>6. ASSUME NEW q \in Profiles \ {p}, layout.database[q].kind \in {"default", "relative"},
             DatabasePath(layout, q) = DatabasePath(layout, p)
      PROVE  FALSE
  <2>1. PICK more \in Seq(Components) : DatabasePath(layout, q) = StateDir(layout, q) \o more
    BY <1>6, OwnPath
  <2>2. PICK mine \in Seq(Components), theirs \in Seq(Components) : mine = StateDir(layout, p) /\ theirs = StateDir(layout, q)
    BY <1>3
  <2>3. mine \o rest = theirs \o more
    BY <1>4, <1>6, <2>1, <2>2
  <2>4. Len(root) + 2 \in 1 .. Len(mine) /\ Len(root) + 2 \in 1 .. Len(theirs)
    BY <1>3, <2>2, LenProperties
  <2>5. (mine \o rest)[Len(root) + 2] = mine[Len(root) + 2] /\ (theirs \o more)[Len(root) + 2] = theirs[Len(root) + 2]
    BY <2>4, ConcatProperties, LenProperties
  <2> QED
    BY <1>3, <2>2, <2>3, <2>5
<1> QED
  BY <1>5, <1>6

----------------------------------------------------------------------------
(* State files: the inductive invariant.                                   *)

Places == {DatabasePath(layout, p) : p \in Profiles}
Inside == {"verify", "read", "apply", "using"}

OpenerRecords ==
  [step : {"off", "lock", "ended"} \cup Inside, profile : Profiles \cup {Nobody}, binary : Binaries \cup {Nobody},
   at : Places \cup {<<>>}, existing : SUBSET Nat, next : Nat, born : SUBSET Nat,
   end : {"none", "paths", "future", "edited", "collision", "opened", "broken"}]

StateTypes ==
  /\ layout \in Layouts /\ opens \in 0 .. MaxStarts
  /\ db = [path \in Places |-> db[path]]
  /\ holder \in [Profiles -> Openers \cup {Nobody}]
  /\ opener \in [Openers -> OpenerRecords]
  /\ doctor \in [step : {"off", "ledger", "pass", "fail"}, binary : Binaries \cup {Nobody}, at : Places \cup {<<>>}, version : Nat]

\* A database is what its migrations made it: the first k of them.
DatabaseOk(d) ==
  /\ d = [ledger |-> d.ledger, tables |-> d.tables, version |-> d.version]
  /\ DOMAIN d.ledger = d.tables /\ \E k \in Nat : d.tables = 1 .. k
  /\ d.version \in {0} \cup d.tables

\* Who is inside holds the lock of its profile or, without it, finds every
\* migration of its build applied already: so the database of a profile that
\* shares it with no other changes under one process alone.
Placed(me) ==
  me.step \in Inside \cup {"lock"} =>
    me.profile \in Profiles /\ me.binary \in Binaries /\ me.at = DatabasePath(layout, me.profile)
Locked(o, me) ==
  me.step \in Inside => /\ me.born \subseteq db[me.at].tables
                        /\ holder[me.profile] = o \/ 1 .. me.binary.n \subseteq db[me.at].tables
Verified(me) ==
  me.step \in {"read", "apply", "using"} =>
    \A v \in me.born : v \in 1 .. me.binary.n /\ db[me.at].ledger[v] = Checksum(me.binary, v)
Applying(o, me) ==
  me.step = "apply" => /\ me.existing \subseteq db[me.at].tables
                       /\ me.next >= 1 /\ 1 .. me.next - 1 \subseteq db[me.at].tables
                       /\ holder[me.profile] = o \/ 1 .. me.binary.n \subseteq me.existing
                       /\ \/ Shares(me.profile) \/ db[me.at].tables \subseteq me.existing \cup 1 .. me.next - 1
                          \/ 1 .. me.binary.n \subseteq me.existing
Migrated(me) == me.step = "using" => 1 .. me.binary.n \subseteq db[me.at].tables
Collided(me) == me.end = "collision" => Shares(me.profile)

OpenerOk(o, me) == Placed(me) /\ Locked(o, me) /\ Verified(me) /\ Applying(o, me) /\ Migrated(me) /\ Collided(me)

DoctorOk ==
  /\ doctor.step # "off" => doctor.binary \in Binaries /\ doctor.at \in Places
  /\ DoctorPassIsTrue

StateInv ==
  /\ StateTypes /\ DoctorOk
  /\ \A path \in Places : DatabaseOk(db[path])
  /\ \A o \in Openers : OpenerOk(o, opener[o])

\* Databases only grow: no table is dropped and no row of a ledger edited.
Grows ==
  \A path \in Places : db[path].tables \subseteq db'[path].tables /\ \A v \in db[path].tables : db'[path].ledger[v] = db[path].ledger[v]

\* What is known of a process stays true while the others work.
LEMMA OthersStay ==
  ASSUME StateInv, layout' = layout, Grows, NEW o \in Openers, opener'[o] = opener[o],
         \A p \in Profiles : holder[p] = o => holder'[p] = o,
         opener[o].step = "apply" => \/ Shares(opener[o].profile) \/ db'[opener[o].at].tables = db[opener[o].at].tables
                                     \/ 1 .. opener[o].binary.n \subseteq opener[o].existing
  PROVE  OpenerOk(o, opener[o])'
<1>1. PICK me : me = opener[o]
  OBVIOUS
<1>2. OpenerOk(o, me) /\ me \in OpenerRecords
  BY <1>1 DEF StateInv, StateTypes
<1>3. Places' = Places /\ \A p : Shares(p)' = Shares(p)
  BY DEF Places, Shares
<1>4. me.step \in Inside => me.profile \in Profiles /\ me.at \in Places
  BY <1>2 DEF OpenerOk, Placed, Places
<1>5. me.step \in Inside => /\ db[me.at].tables \subseteq db'[me.at].tables
                            /\ \A v \in db[me.at].tables : db'[me.at].ledger[v] = db[me.at].ledger[v]
  BY <1>4 DEF Grows
<1>6. me.step = "apply" => \/ Shares(me.profile) \/ db'[me.at].tables = db[me.at].tables
                           \/ 1 .. me.binary.n \subseteq me.existing
  BY <1>1
<1>7. me.step \in Inside /\ holder[me.profile] = o => holder'[me.profile] = o
  BY <1>4
<1>8. OpenerOk(o, me)'
  <2>1. Placed(me)'
    BY <1>2 DEF OpenerOk, Placed, Inside
  <2>2. Locked(o, me)'
    BY <1>2, <1>5, <1>7 DEF OpenerOk, Locked, Inside
  <2>3. Verified(me)'
    BY <1>2, <1>5 DEF OpenerOk, Locked, Verified, Inside
  <2>4. Applying(o, me)'
    BY <1>2, <1>3, <1>5, <1>6, <1>7 DEF OpenerOk, Applying, Inside
  <2>5. Migrated(me)'
    BY <1>2, <1>5 DEF OpenerOk, Migrated, Inside
  <2>6. Collided(me)'
    BY <1>2, <1>3 DEF OpenerOk, Collided
  <2> QED
    BY <2>1, <2>2, <2>3, <2>4, <2>5, <2>6 DEF OpenerOk
<1> QED
  BY <1>1, <1>8

\* A step of one process, whatever it does to its database and its lock.
LEMMA OpenerStep ==
  ASSUME StateInv, NEW o \in Openers, NEW new \in OpenerRecords, opener' = [opener EXCEPT ![o] = new],
         layout' = layout, doctor' = doctor, opens' \in 0 .. MaxStarts,
         holder' \in [Profiles -> Openers \cup {Nobody}],
         \A p \in Profiles : holder'[p] = holder[p] \/ holder[p] \in {o, Nobody},
         db' = [path \in Places |-> db'[path]], \A path \in Places : DatabaseOk(db'[path]), Grows,
         \A p \in Openers \ {o} : opener[p].step = "apply" =>
            \/ Shares(opener[p].profile) \/ db'[opener[p].at].tables = db[opener[p].at].tables
            \/ 1 .. opener[p].binary.n \subseteq opener[p].existing,
         OpenerOk(o, new)'
  PROVE  StateInv'
<1>1. Places' = Places
  BY DEF Places
<1>2. OpenerRecords' = OpenerRecords
  BY <1>1 DEF OpenerRecords, Inside
<1>3. opener \in [Openers -> OpenerRecords]
  BY DEF StateInv, StateTypes
<1>4. opener' \in [Openers -> OpenerRecords] /\ opener'[o] = new /\ \A p \in Openers \ {o} : opener'[p] = opener[p]
  BY <1>3
<1>5. StateTypes'
  BY <1>1, <1>2, <1>4 DEF StateInv, StateTypes
<1>6. DoctorOk'
  <2>1. doctor.step = "pass" => doctor.at \in Places
    BY DEF StateInv, DoctorOk
  <2>2. \A path \in Places : DatabaseOk(db[path])
    BY DEF StateInv
  <2> QED
    BY <1>1, <2>1, <2>2 DEF StateInv, DoctorOk, DoctorPassIsTrue, Grows
<1>7. \A path \in Places' : DatabaseOk(db[path])'
  BY <1>1 DEF DatabaseOk
<1>8. ASSUME NEW p \in Openers PROVE OpenerOk(p, opener[p])'
  <2>1. CASE p = o
    <3>1. OpenerOk(o, new)'
      OBVIOUS
    <3> QED
      BY <1>4, <2>1, <3>1
  <2>2. CASE p # o
    <3>1. \A q \in Profiles : holder[q] = p => holder'[q] = p
      BY <2>2, StateConstants
    <3> QED
      BY <1>4, <2>2, <3>1, OthersStay
  <2> QED
    BY <2>1, <2>2
<1> QED
  BY <1>5, <1>6, <1>7, <1>8 DEF StateInv

\* The process that ends lets go of its lock; its database stays.
LEMMA OpenerEnds ==
  ASSUME StateInv, NEW o \in Openers, NEW how \in {"future", "edited", "collision", "opened", "broken"}, End(o, how),
         opener[o].step \in Inside \cup {"lock"}, how = "collision" => Shares(opener[o].profile),
         UNCHANGED <<layout, db, opens, doctor>>
  PROVE  StateInv'
<1>1. PICK me \in OpenerRecords : me = opener[o] /\ OpenerOk(o, me)
  BY DEF StateInv, StateTypes
<1>2. me.profile \in Profiles
  BY <1>1 DEF OpenerOk, Placed
<1>3. PICK new : new = [Off EXCEPT !.step = "ended", !.profile = me.profile, !.end = how]
  OBVIOUS
<1>4. new \in OpenerRecords /\ new.step = "ended" /\ new.profile = me.profile /\ new.end = how
  BY <1>2, <1>3 DEF OpenerRecords, Off
<1>5. opener' = [opener EXCEPT ![o] = new]
  BY <1>1, <1>3 DEF End
<1>6. holder' \in [Profiles -> Openers \cup {Nobody}] /\ \A p \in Profiles : holder'[p] = holder[p] \/ holder[p] \in {o, Nobody}
  BY <1>1, <1>2 DEF End, Released, StateInv, StateTypes
<1>7. db' = [path \in Places |-> db'[path]] /\ (\A path \in Places : DatabaseOk(db'[path])) /\ Grows
  BY DEF StateInv, StateTypes, Grows
<1>8. OpenerOk(o, new)'
  <2>1. Shares(new.profile)' = Shares(new.profile)
    BY DEF Shares
  <2> QED
    BY <1>1, <1>4, <2>1 DEF OpenerOk, Placed, Locked, Verified, Applying, Migrated, Collided, Inside
<1>9. opens' \in 0 .. MaxStarts
  BY DEF StateInv, StateTypes
<1> QED
  BY <1>4, <1>5, <1>6, <1>7, <1>8, <1>9, OpenerStep

LEMMA StartOpenerKeeps ==
  ASSUME StateInv, NEW o \in Openers, NEW p \in Profiles, NEW b \in Binaries, StartOpener(o, p, b)
  PROVE  StateInv'
<1>1. PICK new : new = IF DatabasePath(layout, p) = Error
                       THEN [Off EXCEPT !.step = "ended", !.profile = p, !.end = "paths"]
                       ELSE [Off EXCEPT !.step = "lock", !.profile = p, !.binary = b, !.at = DatabasePath(layout, p)]
  OBVIOUS
<1>2. opener' = [opener EXCEPT ![o] = new]
  BY <1>1 DEF StartOpener
<1>3. /\ new \in OpenerRecords /\ new.step \in {"lock", "ended"} /\ new.end # "collision"
      /\ new.step = "lock" => new.profile = p /\ new.binary = b /\ new.at = DatabasePath(layout, p)
  BY <1>1 DEF OpenerRecords, Off, Places
<1>4. OpenerOk(o, new)'
  BY <1>3 DEF StartOpener, OpenerOk, Placed, Locked, Verified, Applying, Migrated, Collided, Inside
<1>5. opens' \in 0 .. MaxStarts
  BY StateConstants DEF StartOpener, StateInv, StateTypes
<1>6. db' = [path \in Places |-> db'[path]] /\ (\A path \in Places : DatabaseOk(db'[path])) /\ Grows
  BY DEF StartOpener, StateInv, StateTypes, Grows
<1>7. db' = db /\ layout' = layout /\ doctor' = doctor /\ holder' = holder /\ holder' \in [Profiles -> Openers \cup {Nobody}]
  BY DEF StartOpener, StateInv, StateTypes
<1> QED
  BY <1>2, <1>3, <1>4, <1>5, <1>6, <1>7, OpenerStep

\* A step of one process that leaves every database as it is.
LEMMA QuietStep ==
  ASSUME StateInv, NEW o \in Openers, NEW new \in OpenerRecords, opener' = [opener EXCEPT ![o] = new],
         layout' = layout, doctor' = doctor, opens' = opens, db' = db,
         holder' \in [Profiles -> Openers \cup {Nobody}],
         \A p \in Profiles : holder'[p] = holder[p] \/ holder[p] \in {o, Nobody},
         OpenerOk(o, new)'
  PROVE  StateInv'
<1>1. db' = [path \in Places |-> db'[path]] /\ (\A path \in Places : DatabaseOk(db'[path])) /\ Grows
  BY DEF StateInv, StateTypes, Grows
<1>2. opens' \in 0 .. MaxStarts
  BY DEF StateInv, StateTypes
<1> QED
  BY <1>1, <1>2, OpenerStep

LEMMA DatabaseFacts ==
  ASSUME StateInv, NEW path \in Places
  PROVE  DOMAIN db[path].ledger = db[path].tables /\ db[path].tables \subseteq Nat
<1>1. PICK d : d = db[path]
  OBVIOUS
<1>2. DatabaseOk(d)
  BY <1>1 DEF StateInv
<1>3. PICK k \in Nat : d.tables = 1 .. k
  BY <1>2 DEF DatabaseOk
<1> QED
  BY <1>1, <1>2, <1>3 DEF DatabaseOk

LEMMA TakeLockKeeps ==
  ASSUME StateInv, NEW o \in Openers, TakeLock(o)
  PROVE  StateInv'
<1>1. PICK me \in OpenerRecords : me = opener[o] /\ OpenerOk(o, me)
  BY DEF StateInv, StateTypes
<1>2. me.step = "lock" /\ me.profile \in Profiles /\ me.binary \in Binaries /\ me.at = DatabasePath(layout, me.profile)
      /\ me.at \in Places
  BY <1>1 DEF OpenerOk, Placed, TakeLock, Places
<1>3. DOMAIN db[me.at].ledger = db[me.at].tables /\ db[me.at].tables \subseteq Nat
  BY <1>2, DatabaseFacts
<1>4. PICK new : new = [me EXCEPT !.step = "verify", !.born = db[me.at].tables]
  OBVIOUS
<1>5. new \in OpenerRecords /\ new.step = "verify" /\ new.born = db[me.at].tables /\ new.profile = me.profile
      /\ new.binary = me.binary /\ new.at = me.at /\ new.end = me.end
  BY <1>3, <1>4 DEF OpenerRecords, Inside
<1>6. opener' = [opener EXCEPT ![o] = new]
  BY <1>1, <1>3, <1>4 DEF TakeLock, StateInv, StateTypes
<1>7. holder' = [holder EXCEPT ![me.profile] = o] /\ holder[me.profile] = Nobody /\ holder \in [Profiles -> Openers \cup {Nobody}]
  BY <1>1 DEF TakeLock, LockFree, StateInv, StateTypes
<1>8. /\ holder' \in [Profiles -> Openers \cup {Nobody}] /\ holder'[me.profile] = o
      /\ \A p \in Profiles : holder'[p] = holder[p] \/ holder[p] \in {o, Nobody}
  BY <1>2, <1>7
<1>9. layout' = layout /\ doctor' = doctor /\ opens' = opens /\ db' = db
  BY DEF TakeLock
<1>10. OpenerOk(o, new)'
  <2>1. Shares(me.profile)' = Shares(me.profile)
    BY <1>9 DEF Shares
  <2> QED
    BY <1>1, <1>2, <1>5, <1>8, <1>9, <2>1 DEF OpenerOk, Placed, Locked, Verified, Applying, Migrated, Collided, Inside
<1> QED
  BY <1>5, <1>6, <1>8, <1>9, <1>10, QuietStep

LEMMA VerifyLedgerKeeps ==
  ASSUME StateInv, NEW o \in Openers, VerifyLedger(o)
  PROVE  StateInv'
<1>1. PICK me \in OpenerRecords : me = opener[o] /\ OpenerOk(o, me)
  BY DEF StateInv, StateTypes
<1>2. layout' = layout /\ doctor' = doctor /\ opens' = opens /\ db' = db /\ me.step = "verify"
  BY <1>1 DEF VerifyLedger
<1>3. CASE Verdict(o) = "known"
  <2>1. me.profile \in Profiles /\ me.binary \in Binaries /\ me.at \in Places /\ me.born \subseteq db[me.at].tables
    BY <1>1, <1>2 DEF OpenerOk, Placed, Locked, Places, Inside
  <2>2. DOMAIN db[me.at].ledger = db[me.at].tables /\ \E k \in Nat : db[me.at].tables = 1 .. k
    BY <2>1 DEF StateInv, DatabaseOk
  <2>3. me.binary.n \in Nat
    BY <2>1, StateConstants
  <2>4. \A v \in db[me.at].tables : ~ (v > me.binary.n) /\ db[me.at].ledger[v] = Checksum(me.binary, v)
    BY <1>1, <1>3, <2>2 DEF Verdict
  <2>5. \A v \in me.born : v \in 1 .. me.binary.n /\ db[me.at].ledger[v] = Checksum(me.binary, v)
    BY <2>1, <2>2, <2>3, <2>4
  <2>6. PICK new : new = [me EXCEPT !.step = "read"]
    OBVIOUS
  <2>7. new \in OpenerRecords /\ new.step = "read" /\ new.born = me.born /\ new.profile = me.profile
        /\ new.binary = me.binary /\ new.at = me.at /\ new.end = me.end
    BY <2>6 DEF OpenerRecords, Inside
  <2>8. opener' = [opener EXCEPT ![o] = new] /\ holder' = holder
    BY <1>1, <1>3, <2>6 DEF VerifyLedger, StateInv, StateTypes
  <2>9. OpenerOk(o, new)'
    <3>1. Shares(me.profile)' = Shares(me.profile)
      BY <1>2 DEF Shares
    <3> QED
      BY <1>1, <1>2, <2>5, <2>7, <2>8, <3>1 DEF OpenerOk, Placed, Locked, Verified, Applying, Migrated, Collided, Inside
  <2>10. holder' \in [Profiles -> Openers \cup {Nobody}]
    BY <2>8 DEF StateInv, StateTypes
  <2> QED
    BY <1>2, <2>7, <2>8, <2>9, <2>10, QuietStep
<1>4. CASE Verdict(o) # "known"
  <2>1. Verdict(o) \in {"future", "edited"} /\ End(o, Verdict(o))
    BY <1>4 DEF VerifyLedger, Verdict
  <2> QED
    BY <1>1, <1>2, <2>1, OpenerEnds DEF Inside
<1> QED
  BY <1>3, <1>4

LEMMA ReadLedgerKeeps ==
  ASSUME StateInv, NEW o \in Openers, ReadLedger(o)
  PROVE  StateInv'
<1>1. PICK me \in OpenerRecords : me = opener[o] /\ OpenerOk(o, me)
  BY DEF StateInv, StateTypes
<1>2. me.step = "read" /\ me.at \in Places
  BY <1>1 DEF OpenerOk, Placed, ReadLedger, Places, Inside
<1>3. DOMAIN db[me.at].ledger = db[me.at].tables /\ db[me.at].tables \subseteq Nat
  BY <1>2, DatabaseFacts
<1>4. PICK new : new = [me EXCEPT !.step = "apply", !.existing = db[me.at].tables, !.next = 1]
  OBVIOUS
<1>5. new \in OpenerRecords /\ new.step = "apply" /\ new.existing = db[me.at].tables /\ new.next = 1
      /\ new.born = me.born /\ new.profile = me.profile /\ new.binary = me.binary /\ new.at = me.at /\ new.end = me.end
  BY <1>3, <1>4 DEF OpenerRecords, Inside
<1>6. opener' = [opener EXCEPT ![o] = new]
  BY <1>1, <1>3, <1>4 DEF ReadLedger, StateInv, StateTypes
<1>7. layout' = layout /\ doctor' = doctor /\ opens' = opens /\ db' = db /\ holder' = holder
      /\ holder' \in [Profiles -> Openers \cup {Nobody}]
  BY DEF ReadLedger, StateInv, StateTypes
<1>8. OpenerOk(o, new)'
  <2>1. Shares(me.profile)' = Shares(me.profile)
    BY <1>7 DEF Shares
  <2> QED
    BY <1>1, <1>2, <1>5, <1>7, <2>1 DEF OpenerOk, Placed, Locked, Verified, Applying, Migrated, Collided, Inside
<1> QED
  BY <1>5, <1>6, <1>7, <1>8, QuietStep

\* The next migration extends the schema without a gap.
LEMMA AppliedOk ==
  ASSUME NEW d, DatabaseOk(d), NEW v \in Nat \ {0}, v \notin d.tables, 1 .. v - 1 \subseteq d.tables, NEW c
  PROVE  /\ DatabaseOk(Applied(d, v, c)) /\ Applied(d, v, c).tables = d.tables \cup {v}
         /\ \A w \in d.tables : Applied(d, v, c).ledger[w] = d.ledger[w]
<1>1. PICK ledger, tables, version : d = [ledger |-> ledger, tables |-> tables, version |-> version]
  BY DEF DatabaseOk
<1>2. DOMAIN ledger = tables /\ version \in {0} \cup tables /\ v \notin tables
  BY <1>1 DEF DatabaseOk
<1>3. PICK k \in Nat : tables = 1 .. k
  BY <1>1 DEF DatabaseOk
<1>4. PICK rows : rows = [w \in tables \cup {v} |-> IF w = v THEN c ELSE ledger[w]]
  OBVIOUS
<1>5. Applied(d, v, c) = [ledger |-> rows, tables |-> tables \cup {v}, version |-> version]
  <2>1. d.ledger = ledger /\ d.tables = tables
    BY <1>1
  <2>2. [w \in DOMAIN d.ledger \cup {v} |-> IF w = v THEN c ELSE d.ledger[w]] = rows
    BY <1>2, <1>4, <2>1
  <2>3. Applied(d, v, c) = [d EXCEPT !.tables = tables \cup {v}, !.ledger = rows]
    BY <2>1, <2>2 DEF Applied
  <2> QED
    BY <1>1, <2>3
<1>6. v = k + 1
  <2>1. 1 .. v - 1 \subseteq 1 .. k
    BY <1>1, <1>3
  <2>2. v - 1 <= k
    BY <2>1
  <2> QED
    BY <1>2, <1>3, <2>2
<1>7. tables \cup {v} = 1 .. k + 1
  BY <1>3, <1>6
<1>8. PICK d2 : d2 = Applied(d, v, c)
  OBVIOUS
<1>9. d2 = [ledger |-> rows, tables |-> tables \cup {v}, version |-> version]
  BY <1>5, <1>8
<1>10. DatabaseOk(d2)
  <2>1. d2 = [ledger |-> d2.ledger, tables |-> d2.tables, version |-> d2.version]
    BY <1>9
  <2>2. DOMAIN d2.ledger = d2.tables /\ d2.version \in {0} \cup d2.tables
    BY <1>2, <1>4, <1>9
  <2>3. k + 1 \in Nat /\ d2.tables = 1 .. k + 1
    BY <1>7, <1>9
  <2> QED
    BY <2>1, <2>2, <2>3 DEF DatabaseOk
<1>11. d2.tables = d.tables \cup {v} /\ \A w \in d.tables : d2.ledger[w] = d.ledger[w]
  BY <1>1, <1>2, <1>4, <1>9
<1> QED
  BY <1>8, <1>10, <1>11

LEMMA ApplyNextKeeps ==
  ASSUME StateInv, NEW o \in Openers, ApplyNext(o)
  PROVE  StateInv'
<1>1. PICK me \in OpenerRecords : me = opener[o] /\ OpenerOk(o, me)
  BY DEF StateInv, StateTypes
<1>2. PICK v : v = me.next
  OBVIOUS
<1>3. me.step = "apply" /\ v <= me.binary.n /\ layout' = layout /\ doctor' = doctor /\ opens' = opens
  BY <1>1, <1>2 DEF ApplyNext
<1>4. me.profile \in Profiles /\ me.binary \in Binaries /\ me.at = DatabasePath(layout, me.profile) /\ me.at \in Places
  BY <1>1, <1>3 DEF OpenerOk, Placed, Places, Inside
<1>5. PICK d : d = db[me.at] /\ DatabaseOk(d)
  BY <1>4 DEF StateInv
<1>6. /\ v \in Nat \ {0} /\ me.existing \subseteq d.tables /\ 1 .. v - 1 \subseteq d.tables
      /\ holder[me.profile] = o \/ 1 .. me.binary.n \subseteq me.existing
      /\ \/ Shares(me.profile) \/ d.tables \subseteq me.existing \cup 1 .. v - 1
         \/ 1 .. me.binary.n \subseteq me.existing
  BY <1>1, <1>2, <1>3, <1>5 DEF OpenerOk, Applying, OpenerRecords
<1>6a. me.binary.n \in Nat /\ (v \notin me.existing => ~ (1 .. me.binary.n \subseteq me.existing))
  <2>1. me.binary.n \in Nat
    BY <1>4, StateConstants
  <2> QED
    BY <1>3, <1>6, <2>1
<1>7. PICK new : new = [me EXCEPT !.next = v + 1]
  OBVIOUS
<1>8. new \in OpenerRecords /\ new.step = "apply" /\ new.existing = me.existing /\ new.next = v + 1 /\ new.born = me.born
      /\ new.profile = me.profile /\ new.binary = me.binary /\ new.at = me.at /\ new.end = me.end
  BY <1>3, <1>6, <1>7 DEF OpenerRecords, Inside
<1>9. Shares(me.profile)' = Shares(me.profile)
  BY <1>3 DEF Shares
<1>10. opener \in [Openers -> OpenerRecords] /\ holder \in [Profiles -> Openers \cup {Nobody}]
       /\ db = [path \in Places |-> db[path]] /\ opens \in 0 .. MaxStarts
  BY DEF StateInv, StateTypes
<1>11. 1 .. (v + 1) - 1 = 1 .. v - 1 \cup {v}
  BY <1>6
<1>12. ASSUME db'[me.at].tables = d.tables \cup {v}, \A w \in d.tables : db'[me.at].ledger[w] = d.ledger[w],
              holder' = holder
       PROVE  OpenerOk(o, new)'
  <2>1. Placed(new)' /\ Migrated(new)'
    BY <1>3, <1>4, <1>8 DEF Placed, Migrated
  <2>2. Locked(o, new)'
    BY <1>1, <1>3, <1>4, <1>5, <1>8, <1>12 DEF OpenerOk, Locked, Inside
  <2>3. Verified(new)'
    BY <1>1, <1>3, <1>5, <1>8, <1>12 DEF OpenerOk, Verified, Locked, Inside
  <2>4. Applying(o, new)'
    <3>1. new.existing \subseteq db'[new.at].tables /\ new.next >= 1
      BY <1>6, <1>8, <1>12
    <3>2. 1 .. new.next - 1 \subseteq db'[new.at].tables
      BY <1>6, <1>8, <1>11, <1>12
    <3>3. \/ Shares(me.profile) \/ db'[new.at].tables \subseteq new.existing \cup 1 .. new.next - 1
          \/ 1 .. new.binary.n \subseteq new.existing
      BY <1>6, <1>8, <1>11, <1>12
    <3>4. holder'[new.profile] = o \/ 1 .. new.binary.n \subseteq new.existing
      BY <1>6, <1>8, <1>12
    <3> QED
      BY <1>8, <1>9, <3>1, <3>2, <3>3, <3>4 DEF Applying
  <2>5. Collided(new)'
    BY <1>1, <1>8, <1>9 DEF OpenerOk, Collided
  <2> QED
    BY <2>1, <2>2, <2>3, <2>4, <2>5 DEF OpenerOk
<1>13. CASE v \in me.existing
  <2>1. opener' = [opener EXCEPT ![o].next = v + 1] /\ db' = db /\ holder' = holder
    BY <1>1, <1>2, <1>13 DEF ApplyNext
  <2>2. opener' = [opener EXCEPT ![o] = new]
    BY <1>1, <1>7, <1>10, <2>1
  <2>3. d.tables = d.tables \cup {v}
    BY <1>6, <1>13
  <2>4. OpenerOk(o, new)'
    BY <1>5, <1>12, <2>1, <2>3
  <2> QED
    BY <1>3, <1>8, <1>10, <2>1, <2>2, <2>4, QuietStep
<1>14. CASE v \notin me.existing /\ v \in d.tables
  <2>1. End(o, "collision") /\ db' = db
    BY <1>1, <1>2, <1>5, <1>14 DEF ApplyNext
  <2>2. v \notin 1 .. v - 1
    BY <1>6
  <2>3. Shares(me.profile)
    BY <1>6, <1>14, <1>6a, <2>2
  <2> QED
    BY <1>1, <1>3, <2>1, <2>3, OpenerEnds DEF Inside
<1>15. CASE v \notin me.existing /\ v \notin d.tables
  <2>1. PICK d2 : d2 = Applied(d, v, Checksum(me.binary, v))
    OBVIOUS
  <2>2. db' = [db EXCEPT ![me.at] = d2] /\ opener' = [opener EXCEPT ![o].next = v + 1] /\ holder' = holder
    BY <1>1, <1>2, <1>5, <1>15, <2>1 DEF ApplyNext
  <2>3. opener' = [opener EXCEPT ![o] = new]
    BY <1>1, <1>7, <1>10, <2>2
  <2>4. DatabaseOk(d2) /\ d2.tables = d.tables \cup {v} /\ \A w \in d.tables : d2.ledger[w] = d.ledger[w]
    BY <1>5, <1>6, <1>15, <2>1, AppliedOk
  <2>5. /\ db' = [path \in Places |-> db'[path]] /\ db'[me.at] = d2
        /\ \A path \in Places : path # me.at => db'[path] = db[path]
    BY <1>4, <1>10, <2>2
  <2>6. (\A path \in Places : DatabaseOk(db'[path])) /\ Grows
    BY <1>5, <2>4, <2>5 DEF StateInv, Grows
  <2>7. ASSUME NEW p \in Openers \ {o}, opener[p].step = "apply", ~ Shares(opener[p].profile),
               ~ (1 .. opener[p].binary.n \subseteq opener[p].existing)
        PROVE  db'[opener[p].at].tables = db[opener[p].at].tables
    <3>1. PICK you \in OpenerRecords : you = opener[p] /\ OpenerOk(p, you)
      BY <1>10 DEF StateInv
    <3>2. you.profile \in Profiles /\ you.at = DatabasePath(layout, you.profile) /\ holder[you.profile] = p /\ you.at \in Places
      BY <2>7, <3>1 DEF OpenerOk, Placed, Applying, Places, Inside
    <3>3. you.profile # me.profile
      BY <1>6, <1>15, <1>6a, <3>2
    <3>4. you.at # me.at
      BY <1>4, <2>7, <3>1, <3>2, <3>3 DEF Shares
    <3> QED
      BY <2>5, <3>1, <3>2, <3>4
  <2>8. OpenerOk(o, new)'
    BY <1>12, <2>2, <2>4, <2>5
  <2>9. \A p \in Profiles : holder'[p] = holder[p]
    BY <2>2
  <2>10. \A p \in Openers \ {o} : opener[p].step = "apply" =>
            \/ Shares(opener[p].profile) \/ db'[opener[p].at].tables = db[opener[p].at].tables
            \/ 1 .. opener[p].binary.n \subseteq opener[p].existing
    BY <2>7
  <2>11. opens' \in 0 .. MaxStarts /\ holder' \in [Profiles -> Openers \cup {Nobody}]
    BY <1>3, <1>10, <2>2
  <2> QED
    BY <1>3, <1>8, <2>3, <2>5, <2>6, <2>8, <2>9, <2>10, <2>11, OpenerStep
<1> QED
  BY <1>13, <1>14, <1>15

LEMMA StampVersionKeeps ==
  ASSUME StateInv, NEW o \in Openers, StampVersion(o)
  PROVE  StateInv'
<1>1. PICK me \in OpenerRecords : me = opener[o] /\ OpenerOk(o, me)
  BY DEF StateInv, StateTypes
<1>2. me.step = "apply" /\ me.next > me.binary.n
  BY <1>1 DEF StampVersion, MayStamp
<1>3. me.profile \in Profiles /\ me.binary \in Binaries /\ me.at \in Places
  BY <1>1, <1>2 DEF OpenerOk, Placed, Places, Inside
<1>4. me.binary.n \in Nat /\ me.next \in Nat
  BY <1>3, StateConstants DEF OpenerRecords
<1>5. PICK d : d = db[me.at] /\ DatabaseOk(d)
  BY <1>3 DEF StateInv
<1>6. PICK ledger, tables, version : d = [ledger |-> ledger, tables |-> tables, version |-> version]
  BY <1>5 DEF DatabaseOk
<1>7. DOMAIN ledger = tables /\ \E k \in Nat : tables = 1 .. k
  BY <1>5, <1>6 DEF DatabaseOk
<1>8. 1 .. me.binary.n \subseteq tables
  <2>1. 1 .. me.next - 1 \subseteq tables
    BY <1>1, <1>2, <1>5, <1>6 DEF OpenerOk, Applying
  <2>2. 1 .. me.binary.n \subseteq 1 .. me.next - 1
    BY <1>2, <1>4
  <2> QED
    BY <2>1, <2>2
<1>9. PICK d2 : d2 = [ledger |-> ledger, tables |-> tables, version |-> me.binary.n]
  OBVIOUS
<1>10. DatabaseOk(d2)
  <2>1. me.binary.n \in {0} \cup tables
    BY <1>4, <1>8
  <2> QED
    BY <1>7, <1>9, <2>1 DEF DatabaseOk
<1>11. opener \in [Openers -> OpenerRecords] /\ holder \in [Profiles -> Openers \cup {Nobody}]
       /\ db = [path \in Places |-> db[path]] /\ opens \in 0 .. MaxStarts
  BY DEF StateInv, StateTypes
<1>12. db' = [db EXCEPT ![me.at].version = me.binary.n] /\ opener' = [opener EXCEPT ![o].step = "using"]
       /\ layout' = layout /\ holder' = holder /\ opens' = opens /\ doctor' = doctor
  BY <1>1 DEF StampVersion
<1>13. /\ db' = [path \in Places |-> db'[path]] /\ db'[me.at] = d2
       /\ \A path \in Places : path # me.at => db'[path] = db[path]
  <2>1. DOMAIN db = Places
    BY <1>11
  <2>2. /\ db' = [path \in Places |-> db'[path]] /\ db'[me.at] = [db[me.at] EXCEPT !.version = me.binary.n]
        /\ \A path \in Places : path # me.at => db'[path] = db[path]
    BY <1>3, <1>12, <2>1
  <2>3. [db[me.at] EXCEPT !.version = me.binary.n] = d2
    BY <1>5, <1>6, <1>9
  <2> QED
    BY <2>2, <2>3
<1>14. d2.tables = d.tables /\ d2.ledger = d.ledger
  BY <1>6, <1>9
<1>15. (\A path \in Places : DatabaseOk(db'[path])) /\ Grows /\ \A path \in Places : db'[path].tables = db[path].tables
  BY <1>5, <1>10, <1>13, <1>14 DEF StateInv, Grows
<1>16. PICK new : new = [me EXCEPT !.step = "using"]
  OBVIOUS
<1>17. new \in OpenerRecords /\ new.step = "using" /\ new.born = me.born
      /\ new.profile = me.profile /\ new.binary = me.binary /\ new.at = me.at /\ new.end = me.end
  BY <1>16 DEF OpenerRecords, Inside
<1>18. opener' = [opener EXCEPT ![o] = new]
  BY <1>1, <1>11, <1>12, <1>16
<1>19. ASSUME NEW p \in Openers, opener[p].step = "apply"
       PROVE  db'[opener[p].at].tables = db[opener[p].at].tables
  <2>1. OpenerOk(p, opener[p])
    BY DEF StateInv
  <2>2. opener[p].at \in Places
    BY <1>19, <2>1 DEF OpenerOk, Placed, Places, Inside
  <2> QED
    BY <1>15, <2>2
<1>20. OpenerOk(o, new)'
  <2>1. Shares(me.profile)' = Shares(me.profile)
    BY <1>12 DEF Shares
  <2>2. db'[me.at].tables = db[me.at].tables /\ db'[me.at].ledger = db[me.at].ledger /\ 1 .. me.binary.n \subseteq db[me.at].tables
    BY <1>5, <1>6, <1>8, <1>13, <1>14
  <2>3. Placed(new)' /\ Locked(o, new)'
    BY <1>1, <1>2, <1>12, <1>17, <2>2 DEF OpenerOk, Placed, Locked, Inside
  <2>4. Verified(new)' /\ Applying(o, new)' /\ Migrated(new)'
    BY <1>1, <1>2, <1>12, <1>17, <2>2 DEF OpenerOk, Verified, Applying, Migrated
  <2>5. Collided(new)'
    BY <1>1, <1>17, <2>1 DEF OpenerOk, Collided
  <2> QED
    BY <2>3, <2>4, <2>5 DEF OpenerOk
<1> QED
  BY <1>11, <1>12, <1>13, <1>15, <1>17, <1>18, <1>19, <1>20, OpenerStep

\* Letting go of the lock: the store is open, so the schema is whole.
LEMMA ReleaseLockKeeps ==
  ASSUME StateInv, NEW o \in Openers, ReleaseLock(o)
  PROVE  StateInv'
<1>1. PICK me \in OpenerRecords : me = opener[o] /\ OpenerOk(o, me)
  BY DEF StateInv, StateTypes
<1>2. me.step = "using" /\ me.profile \in Profiles /\ 1 .. me.binary.n \subseteq db[me.at].tables
  BY <1>1 DEF OpenerOk, Placed, Migrated, ReleaseLock, Inside
<1>3. opener' = [opener EXCEPT ![o] = me] /\ layout' = layout /\ doctor' = doctor /\ opens' = opens /\ db' = db
  BY <1>1 DEF ReleaseLock, StateInv, StateTypes
<1>4. holder' \in [Profiles -> Openers \cup {Nobody}] /\ \A p \in Profiles : holder'[p] = holder[p] \/ holder[p] \in {o, Nobody}
  BY <1>1, <1>2 DEF ReleaseLock, Released, StateInv, StateTypes
<1>5. OpenerOk(o, me)'
  <2>1. Shares(me.profile)' = Shares(me.profile)
    BY <1>3 DEF Shares
  <2> QED
    BY <1>1, <1>2, <1>3, <2>1 DEF OpenerOk, Placed, Locked, Verified, Applying, Migrated, Collided, Inside
<1> QED
  BY <1>1, <1>3, <1>4, <1>5, QuietStep

\* Opening again without the lock: every migration of this build is there.
LEMMA OpenUnlockedKeeps ==
  ASSUME StateInv, NEW o \in Openers, OpenUnlocked(o)
  PROVE  StateInv'
<1>1. PICK me \in OpenerRecords : me = opener[o] /\ OpenerOk(o, me)
  BY DEF StateInv, StateTypes
<1>2. /\ me.step = "using" /\ me.profile \in Profiles /\ me.binary \in Binaries /\ me.at = DatabasePath(layout, me.profile)
      /\ me.at \in Places /\ 1 .. me.binary.n \subseteq db[me.at].tables
  BY <1>1 DEF OpenerOk, Placed, Migrated, OpenUnlocked, Places, Inside
<1>3. DOMAIN db[me.at].ledger = db[me.at].tables /\ db[me.at].tables \subseteq Nat
  BY <1>2, DatabaseFacts
<1>4. PICK new : new = [me EXCEPT !.step = "verify", !.born = db[me.at].tables]
  OBVIOUS
<1>5. new \in OpenerRecords /\ new.step = "verify" /\ new.born = db[me.at].tables /\ new.profile = me.profile
      /\ new.binary = me.binary /\ new.at = me.at /\ new.end = me.end
  BY <1>3, <1>4 DEF OpenerRecords, Inside
<1>6. opener' = [opener EXCEPT ![o] = new]
  BY <1>1, <1>3, <1>4 DEF OpenUnlocked, StateInv, StateTypes
<1>7. layout' = layout /\ doctor' = doctor /\ db' = db /\ holder' = holder /\ holder' \in [Profiles -> Openers \cup {Nobody}]
  BY DEF OpenUnlocked, StateInv, StateTypes
<1>8. OpenerOk(o, new)'
  <2>1. Shares(me.profile)' = Shares(me.profile)
    BY <1>7 DEF Shares
  <2> QED
    BY <1>1, <1>2, <1>5, <1>7, <2>1 DEF OpenerOk, Placed, Locked, Verified, Applying, Migrated, Collided, Inside
<1>9. opens' \in 0 .. MaxStarts
  BY StateConstants DEF OpenUnlocked, StateInv, StateTypes
<1>10. db' = [path \in Places |-> db'[path]] /\ (\A path \in Places : DatabaseOk(db'[path])) /\ Grows
  BY <1>7 DEF StateInv, StateTypes, Grows
<1> QED
  BY <1>5, <1>6, <1>7, <1>8, <1>9, <1>10, OpenerStep

\* doctor reads two things at two times; what it finds in the ledger is there.
LEMMA DoctorKeeps ==
  ASSUME StateInv, ReportDoctor \/ \E p \in Profiles, b \in Binaries : StartDoctor(p, b)
  PROVE  StateInv'
<1>1. UNCHANGED <<layout, db, holder, opener, opens>>
  BY DEF ReportDoctor, StartDoctor
<1>2. Places' = Places /\ \A p : Shares(p)' = Shares(p)
  BY <1>1 DEF Places, Shares
<1>3. OpenerRecords' = OpenerRecords
  BY <1>2 DEF OpenerRecords, Inside
<1>4. \A o \in Openers : OpenerOk(o, opener[o])'
  BY <1>1, OthersStay DEF StateInv, Grows
<1>5. \A path \in Places : DatabaseOk(db[path])'
  BY <1>1 DEF StateInv, DatabaseOk
<1>6. /\ doctor' \in [step : {"off", "ledger", "pass", "fail"}, binary : Binaries \cup {Nobody}, at : Places \cup {<<>>}, version : Nat]
      /\ DoctorOk'
  <2>1. CASE ReportDoctor
    <3>1. PICK old : old = doctor
      OBVIOUS
    <3>2. /\ old \in [step : {"off", "ledger", "pass", "fail"}, binary : Binaries \cup {Nobody}, at : Places \cup {<<>>}, version : Nat]
          /\ old.binary \in Binaries /\ old.at \in Places
      BY <2>1, <3>1 DEF ReportDoctor, StateInv, StateTypes, DoctorOk
    <3>3. PICK found : found = Inspection(db[old.at], old.binary, old.version)
      OBVIOUS
    <3>4. found \in {"pass", "fail"}
      BY <3>3 DEF Inspection
    <3>5. doctor' = [old EXCEPT !.step = found]
      BY <2>1, <3>1, <3>3 DEF ReportDoctor
    <3>6. DOMAIN db[old.at].ledger = db[old.at].tables
      BY <3>2, DatabaseFacts
    <3>7. found = "pass" => \A v \in 1 .. old.binary.n : v \in db[old.at].tables /\ db[old.at].ledger[v] = Checksum(old.binary, v)
      BY <3>3, <3>6 DEF Inspection
    <3>8. doctor'.step = found /\ doctor'.binary = old.binary /\ doctor'.at = old.at
          /\ doctor' \in [step : {"off", "ledger", "pass", "fail"}, binary : Binaries \cup {Nobody}, at : Places \cup {<<>>}, version : Nat]
      BY <3>2, <3>4, <3>5
    <3> QED
      BY <1>1, <1>2, <3>2, <3>7, <3>8 DEF DoctorOk, DoctorPassIsTrue
  <2>2. CASE \E p \in Profiles, b \in Binaries : StartDoctor(p, b)
    <3>1. PICK p \in Profiles, b \in Binaries : StartDoctor(p, b)
      BY <2>2
    <3>2. PICK path \in Places : path = DatabasePath(layout, p)
      BY DEF Places
    <3>3. doctor' = [step |-> "ledger", binary |-> b, at |-> path, version |-> db[path].version]
      BY <3>1, <3>2 DEF StartDoctor
    <3>4. db[path].version \in Nat
      <4>1. DatabaseOk(db[path])
        BY DEF StateInv
      <4> QED
        BY <4>1, DatabaseFacts DEF DatabaseOk
    <3> QED
      BY <1>2, <3>3, <3>4 DEF DoctorOk, DoctorPassIsTrue
  <2> QED
    BY <2>1, <2>2
<1>7. StateTypes'
  BY <1>1, <1>2, <1>3, <1>6 DEF StateInv, StateTypes
<1> QED
  BY <1>2, <1>4, <1>5, <1>6, <1>7 DEF StateInv

LEMMA StateInitOk ==
  ASSUME StateInit
  PROVE  StateInv
<1>1. DatabaseOk(NoDatabase)
  <2>1. DOMAIN NoDatabase.ledger = {} /\ NoDatabase.tables = {} /\ NoDatabase.version = 0
    BY DEF NoDatabase
  <2>2. 0 \in Nat /\ {} = 1 .. 0
    OBVIOUS
  <2>3. NoDatabase = [ledger |-> NoDatabase.ledger, tables |-> NoDatabase.tables, version |-> NoDatabase.version]
    BY DEF NoDatabase
  <2> QED
    BY <2>1, <2>2, <2>3 DEF DatabaseOk
<1>2. db = [path \in Places |-> NoDatabase]
  BY DEF StateInit, Places
<1>3. Off \in OpenerRecords /\ Off.step = "off" /\ Off.end = "none"
  BY DEF Off, OpenerRecords
<1>4. \A o \in Openers : OpenerOk(o, opener[o])
  BY <1>3 DEF StateInit, OpenerOk, Placed, Locked, Verified, Applying, Migrated, Collided, Inside
<1>5. doctor \in [step : {"off", "ledger", "pass", "fail"}, binary : Binaries \cup {Nobody}, at : Places \cup {<<>>}, version : Nat]
      /\ DoctorOk
  BY DEF StateInit, DoctorOk, DoctorPassIsTrue
<1>6. StateTypes
  BY <1>2, <1>3, <1>5, StateConstants DEF StateInit, StateTypes
<1> QED
  BY <1>1, <1>2, <1>4, <1>5, <1>6 DEF StateInv

LEMMA StateStep ==
  ASSUME StateInv, [StateNext]_stateVars
  PROVE  StateInv'
<1>1. ASSUME NEW o \in Openers, OpenerSteps(o) \/ BreakOff(o) PROVE StateInv'
  <2>1. CASE TakeLock(o)
    BY <2>1, TakeLockKeeps
  <2>2. CASE VerifyLedger(o)
    BY <2>2, VerifyLedgerKeeps
  <2>3. CASE ReadLedger(o)
    BY <2>3, ReadLedgerKeeps
  <2>4. CASE ApplyNext(o)
    BY <2>4, ApplyNextKeeps
  <2>5. CASE StampVersion(o)
    BY <2>5, StampVersionKeeps
  <2>6. CASE CloseStore(o)
    BY <2>6, OpenerEnds DEF CloseStore, Inside
  <2>7. CASE BreakOff(o)
    <3>1. opener[o] \in OpenerRecords
      BY DEF StateInv, StateTypes
    <3>2. opener[o].step \in Inside \cup {"lock"}
      BY <2>7, <3>1 DEF BreakOff, OpenerRecords
    <3> QED
      BY <2>7, <3>2, OpenerEnds DEF BreakOff
  <2> QED
    BY <1>1, <2>1, <2>2, <2>3, <2>4, <2>5, <2>6, <2>7 DEF OpenerSteps
<1>2. CASE UNCHANGED stateVars
  <2>1. Places' = Places /\ OpenerRecords' = OpenerRecords
    BY <1>2 DEF stateVars, Places, OpenerRecords, Inside
  <2>2. \A o \in Openers : OpenerOk(o, opener[o])'
    BY <1>2, OthersStay DEF stateVars, StateInv, Grows
  <2>3. StateTypes' /\ DoctorOk' /\ \A path \in Places : DatabaseOk(db[path])'
    BY <1>2, <2>1 DEF stateVars, StateInv, StateTypes, DoctorOk, DoctorPassIsTrue, DatabaseOk
  <2> QED
    BY <2>1, <2>2, <2>3 DEF StateInv
<1> QED
  BY <1>1, <1>2, StartOpenerKeeps, ReleaseLockKeeps, OpenUnlockedKeeps, DoctorKeeps DEF StateNext

LEMMA StateGoal ==
  ASSUME StateInv
  PROVE  SchemaIsUnderstood
<1>1. DOMAIN db = Places
  BY DEF StateInv, StateTypes
<1>2. ASSUME NEW path \in Places
      PROVE  /\ DOMAIN db[path].ledger = db[path].tables /\ db[path].tables \subseteq Nat
             /\ db[path].version \in {0} \cup db[path].tables /\ db[path].tables = 1 .. Cardinality(db[path].tables)
  <2>1. DatabaseOk(db[path])
    BY DEF StateInv
  <2>2. PICK k \in Nat : db[path].tables = 1 .. k
    BY <2>1 DEF DatabaseOk
  <2>3. Cardinality(1 .. k) = k
    BY FS_Interval
  <2> QED
    BY <2>1, <2>2, <2>3 DEF DatabaseOk
<1>3. StateTypeOK
  <2>1. \A o \in Openers : opener[o].step \in {"off", "lock", "verify", "read", "apply", "using", "ended"}
    BY DEF StateInv, StateTypes, OpenerRecords, Inside
  <2>2. doctor.step \in {"off", "ledger", "pass", "fail"}
    BY DEF StateInv, StateTypes
  <2>3. \A path \in DOMAIN db : DOMAIN db[path].ledger \subseteq Nat /\ db[path].version \in Nat
    BY <1>1, <1>2
  <2> QED
    BY <2>1, <2>2, <2>3 DEF StateInv, StateTypes, StateTypeOK
<1>4. LedgerMatchesTables /\ VersionNeverAhead
  BY <1>1, <1>2 DEF LedgerMatchesTables, VersionNeverAhead
<1>5. UsedIsUnderstood
  <2> SUFFICES ASSUME NEW o \in Openers, opener[o].step = "using"
               PROVE  /\ 1 .. opener[o].binary.n \subseteq db[opener[o].at].tables
                      /\ opener[o].born \subseteq 1 .. opener[o].binary.n
                      /\ \A v \in opener[o].born : db[opener[o].at].ledger[v] = Checksum(opener[o].binary, v)
    BY DEF UsedIsUnderstood
  <2> QED
    BY DEF StateInv, OpenerOk, Verified, Migrated
<1>6. OnlySharedCollide
  BY DEF StateInv, OpenerOk, Collided, OnlySharedCollide
<1> QED
  BY <1>3, <1>4, <1>5, <1>6, OwnDatabasesApart DEF SchemaIsUnderstood, StateInv, StateTypes, DoctorOk

\* Whatever processes, of whatever builds, open a store, race for it, die in
\* the middle of a migration or inspect it, a database has exactly the tables
\* its ledger records, without a gap, whoever uses it understands it, and a
\* migration only ever collides where two profiles were given one database.
THEOREM SchemaUnderstood == StateSpec => []SchemaIsUnderstood
<1>1. StateInit => StateInv
  BY StateInitOk
<1>2. StateInv /\ [StateNext]_stateVars => StateInv'
  BY StateStep
<1>3. StateInv => SchemaIsUnderstood
  BY StateGoal
<1> QED
  BY <1>1, <1>2, <1>3, PTL DEF StateSpec

----------------------------------------------------------------------------
(* Routes: sorting.                                                        *)

\* R puts the elements of S in one line.
Orders(S, R) ==
  /\ \A i \in S : <<i, i>> \notin R
  /\ \A i, j \in S : i # j => <<i, j>> \in R \/ <<j, i>> \in R
  /\ \A i, j, k \in S : <<i, j>> \in R /\ <<j, k>> \in R => <<i, k>> \in R

Below(S, R, i) == {j \in S : <<j, i>> \in R}

\* Below an element there are fewer than all.
LEMMA BelowCounts ==
  ASSUME NEW S, IsFiniteSet(S), NEW R, Orders(S, R), NEW i \in S
  PROVE  IsFiniteSet(Below(S, R, i)) /\ Cardinality(Below(S, R, i)) \in 0 .. Cardinality(S) - 1
<1>1. PICK T, B : T = S \ {i} /\ B = Below(S, R, i)
  OBVIOUS
<1>2. IsFiniteSet(T) /\ Cardinality(T) = Cardinality(S) - 1 /\ Cardinality(S) \in Nat
  BY <1>1, FS_RemoveElement, FS_CardinalityType
<1>3. B \in SUBSET T
  BY <1>1 DEF Below, Orders
<1>4. IsFiniteSet(B) /\ Cardinality(B) <= Cardinality(T)
  BY <1>2, <1>3, FS_Subset
<1>5. Cardinality(B) \in Nat
  BY <1>4, FS_CardinalityType
<1> QED
  BY <1>1, <1>2, <1>4, <1>5

\* Below a later element there are more.
LEMMA BelowGrows ==
  ASSUME NEW S, IsFiniteSet(S), NEW R, Orders(S, R), NEW i \in S, NEW j \in S, <<i, j>> \in R
  PROVE  Cardinality(Below(S, R, i)) < Cardinality(Below(S, R, j))
<1>1. PICK A, B : A = Below(S, R, i) /\ B = Below(S, R, j)
  OBVIOUS
<1>2. A \in SUBSET B /\ A # B
  <2>1. i \in B /\ i \notin A
    BY <1>1 DEF Below, Orders
  <2>2. A \subseteq B
    BY <1>1 DEF Below, Orders
  <2> QED
    BY <2>1, <2>2
<1>3. IsFiniteSet(B) /\ Cardinality(B) \in 0 .. Cardinality(S) - 1
  BY <1>1, BelowCounts
<1>4. Cardinality(A) \in 0 .. Cardinality(S) - 1
  BY <1>1, BelowCounts
<1>5. Cardinality(A) <= Cardinality(B) /\ Cardinality(A) # Cardinality(B)
  BY <1>2, <1>3, FS_Subset
<1>6. Cardinality(S) \in Nat
  BY FS_CardinalityType
<1> QED
  BY <1>1, <1>3, <1>4, <1>5, <1>6

\* s lists S, each element once, as R orders them.
IsSorting(S, R, s) ==
  /\ DOMAIN s = 1 .. Cardinality(S) /\ s \in Seq(S) /\ Len(s) = Cardinality(S)
  /\ IsInjective(s) /\ ToSet(s) = S
  /\ \A m, n \in 1 .. Cardinality(S) : m < n => <<s[m], s[n]>> \in R

\* As many are below an element as come before it.
LEMMA SortedOk ==
  ASSUME NEW S, IsFiniteSet(S), NEW R, Orders(S, R)
  PROVE  IsSorting(S, R, Sorted(S, R))
<1>1. PICK s, n : s = Sorted(S, R) /\ n = Cardinality(S)
  OBVIOUS
<1>2. n \in Nat
  BY <1>1, FS_CardinalityType
<1>3. PICK f : f = [i \in S |-> Cardinality(Below(S, R, i)) + 1]
  OBVIOUS
<1>4. \A i \in S : Cardinality(Below(S, R, i)) \in 0 .. n - 1
  BY <1>1, BelowCounts
<1>5. \A i \in S : f[i] \in 1 .. n /\ f[i] = Cardinality(Below(S, R, i)) + 1
  BY <1>2, <1>3, <1>4
<1>6. f \in [S -> 1 .. n]
  BY <1>3, <1>5
<1>7. ASSUME NEW i \in S, NEW j \in S, <<i, j>> \in R PROVE f[i] < f[j]
  <2>1. Cardinality(Below(S, R, i)) < Cardinality(Below(S, R, j))
    BY <1>7, BelowGrows
  <2> QED
    BY <1>2, <1>4, <1>5, <2>1
<1>8. \A i, j \in S : f[i] = f[j] => i = j
  <2> SUFFICES ASSUME NEW i \in S, NEW j \in S, i # j PROVE f[i] # f[j]
    OBVIOUS
  <2>1. <<i, j>> \in R \/ <<j, i>> \in R
    BY DEF Orders
  <2>2. f[i] < f[j] \/ f[j] < f[i]
    BY <1>7, <2>1
  <2> QED
    BY <1>2, <1>5, <2>2
<1>9. f \in Injection(S, 1 .. n)
  BY <1>6, <1>8 DEF Injection, IsInjective
<1>10. f \in Surjection(S, 1 .. n)
  <2>1. IsFiniteSet(1 .. n) /\ Cardinality(1 .. n) = n
    BY <1>2, FS_Interval
  <2> QED
    BY <1>1, <1>9, <2>1, FS_Injection
<1>11. \A k \in 1 .. n : \E i \in S : f[i] = k
  BY <1>10 DEF Surjection
<1>12. s = [k \in 1 .. n |-> CHOOSE i \in S : Cardinality(Below(S, R, i)) = k - 1]
  BY <1>1 DEF Sorted, Below
<1>13. ASSUME NEW k \in 1 .. n PROVE s[k] \in S /\ f[s[k]] = k
  <2>1. \E i \in S : Cardinality(Below(S, R, i)) = k - 1
    <3>1. PICK i \in S : f[i] = k
      BY <1>11
    <3>2. Cardinality(Below(S, R, i)) = k - 1
      BY <1>4, <1>5, <3>1
    <3> QED
      BY <3>2
  <2>2. s[k] = CHOOSE i \in S : Cardinality(Below(S, R, i)) = k - 1
    BY <1>12
  <2>3. s[k] \in S /\ Cardinality(Below(S, R, s[k])) = k - 1
    BY <2>1, <2>2
  <2> QED
    BY <1>5, <2>3
<1>14. s \in [1 .. n -> S] /\ DOMAIN s = 1 .. n
  BY <1>12, <1>13
<1>15. s \in Seq(S) /\ Len(s) = n
  BY <1>2, <1>14, SeqDef, LenProperties
<1>16. IsInjective(s)
  BY <1>13, <1>14 DEF IsInjective
<1>17. ToSet(s) = S
  <2>1. ASSUME NEW i \in S PROVE \E k \in 1 .. n : s[k] = i
    <3>1. PICK k \in 1 .. n : f[i] = k
      BY <1>5
    <3>2. f[s[k]] = f[i] /\ s[k] \in S
      BY <1>13, <3>1
    <3>3. s[k] = i
      BY <1>8, <3>2
    <3> QED
      BY <3>3
  <2> QED
    BY <1>13, <1>14, <2>1 DEF ToSet
<1>18. ASSUME NEW m \in 1 .. n, NEW k \in 1 .. n, m < k PROVE <<s[m], s[k]>> \in R
  <2>1. s[m] \in S /\ f[s[m]] = m /\ s[k] \in S /\ f[s[k]] = k
    BY <1>13
  <2>2. s[m] # s[k]
    BY <1>18, <2>1
  <2>3. <<s[m], s[k]>> \in R \/ <<s[k], s[m]>> \in R
    BY <2>1, <2>2 DEF Orders
  <2>4. ASSUME <<s[k], s[m]>> \in R PROVE FALSE
    <3>1. f[s[k]] < f[s[m]]
      BY <1>7, <2>1, <2>4
    <3> QED
      BY <1>18, <2>1, <3>1
  <2> QED
    BY <2>3, <2>4
<1> QED
  BY <1>1, <1>14, <1>15, <1>16, <1>17, <1>18 DEF IsSorting

\* Positions are finitely many.
LEMMA PositionsFinite ==
  ASSUME NEW n \in Nat, NEW S, S \subseteq 1 .. n
  PROVE  IsFiniteSet(S)
<1>1. S \in SUBSET (1 .. n)
  OBVIOUS
<1>2. IsFiniteSet(1 .. n)
  BY FS_Interval
<1> QED
  BY <1>1, <1>2, FS_Subset

\* Positions in ascending order are sorted by it.
LEMMA AscendingOk ==
  ASSUME NEW n \in Nat, NEW S, S \subseteq 1 .. n
  PROVE  IsSorting(S, {p \in S \X S : p[1] < p[2]}, Ascending(S))
<1>1. PICK R : R = {p \in S \X S : p[1] < p[2]}
  OBVIOUS
<1>2. \A i, j \in S : <<i, j>> \in R <=> i < j
  BY <1>1
<1>3. \A i \in S : i \in Nat
  OBVIOUS
<1>4. Orders(S, R)
  BY <1>2, <1>3 DEF Orders
<1>5. IsSorting(S, R, Sorted(S, R))
  BY <1>4, PositionsFinite, SortedOk
<1> QED
  BY <1>1, <1>5 DEF Ascending

----------------------------------------------------------------------------
(* Routes: turns.                                                          *)

\* The next remainder, around the end.
LEMMA NextTurn ==
  ASSUME NEW c \in Nat, NEW n \in Nat \ {0}
  PROVE  /\ c % n \in 0 .. n - 1
         /\ (c + 1) % n = IF c % n = n - 1 THEN 0 ELSE (c % n) + 1
<1>1. PICK q \in Int, m \in Int : q = c \div n /\ m = c % n /\ 0 <= m /\ m < n /\ c = q * n + m
  <2>1. c \div n \in Int /\ c % n \in 0 .. n - 1 /\ c = n * (c \div n) + (c % n)
    BY Division
  <2> QED
    BY <2>1
<1>2. CASE m = n - 1
  <2>1. PICK k \in Int : k = q + 1
    OBVIOUS
  <2>2. c + 1 = k * n + 0
    BY <1>1, <1>2, <2>1
  <2>3. (k * n + 0) % n = 0
    BY Remainder
  <2>4. (c + 1) % n = 0
    BY <2>2, <2>3
  <2> QED
    BY <1>1, <1>2, <2>4
<1>3. CASE m # n - 1
  <2>1. PICK r \in Int : r = m + 1 /\ 0 <= r /\ r < n
    BY <1>1, <1>3
  <2>2. c + 1 = q * n + r
    BY <1>1, <2>1
  <2>3. (q * n + r) % n = r
    BY <2>1, Remainder
  <2>4. (c + 1) % n = r
    BY <2>2, <2>3
  <2> QED
    BY <1>1, <1>3, <2>1, <2>4
<1> QED
  BY <1>2, <1>3

\* Of n candidates, the ones from first up to next, around the end, have had
\* one turn more than the others.
Within(first, i, next) == IF first <= next THEN first <= i /\ i < next ELSE first <= i \/ i < next
Shared(n, p, next, first, b) == \A i \in 0 .. n - 1 : p[i + 1] = IF Within(first, i, next) THEN b + 1 ELSE b
Fair(n, p, next) == \E first \in 0 .. n - 1, b \in Nat : Shared(n, p, next, first, b)

\* One more turn, and the turns are still shared.
LEMMA FairTurn ==
  ASSUME NEW n \in Nat \ {0}, NEW M \in Nat, n <= M, NEW p \in [1 .. M -> Nat], NEW x \in 0 .. n - 1,
         Fair(n, p, x), NEW y, y = IF x = n - 1 THEN 0 ELSE x + 1, NEW t, t = [p EXCEPT ![x + 1] = @ + 1]
  PROVE  Fair(n, t, y)
<1>1. PICK first \in 0 .. n - 1, b \in Nat : Shared(n, p, x, first, b)
  BY DEF Fair
<1>2. \A i \in 0 .. n - 1 : t[i + 1] = IF i = x THEN p[i + 1] + 1 ELSE p[i + 1]
  <2> TAKE i \in 0 .. n - 1
  <2>1. i + 1 \in 1 .. M /\ x + 1 \in 1 .. M /\ (i = x <=> i + 1 = x + 1)
    OBVIOUS
  <2> QED
    BY <2>1
<1>3. p[x + 1] = b /\ y \in 0 .. n - 1
  BY <1>1 DEF Shared, Within
<1>4. CASE y = first
  <2>1. ASSUME NEW i \in 0 .. n - 1 PROVE t[i + 1] = b + 1
    <3>1. i # x => Within(first, i, x)
      BY <1>4 DEF Within
    <3>2. i # x => p[i + 1] = b + 1
      BY <1>1, <3>1 DEF Shared
    <3> QED
      BY <1>2, <1>3, <3>2
  <2>2. \A i \in 0 .. n - 1 : ~Within(first, i, y)
    BY <1>4 DEF Within
  <2>3. PICK d \in Nat : d = b + 1
    OBVIOUS
  <2>4. Shared(n, t, y, first, d)
    BY <2>1, <2>2, <2>3 DEF Shared
  <2> QED
    BY <2>4 DEF Fair
<1>5. CASE y # first
  <2>1. ASSUME NEW i \in 0 .. n - 1 PROVE Within(first, i, y) <=> i = x \/ Within(first, i, x)
    BY <1>5 DEF Within
  <2>2. Shared(n, t, y, first, b)
    BY <1>1, <1>2, <1>3, <2>1 DEF Shared
  <2> QED
    BY <2>2 DEF Fair
<1> QED
  BY <1>4, <1>5

\* Turns so shared are never two apart.
LEMMA FairMeans ==
  ASSUME NEW n \in Nat, NEW p, NEW x, Fair(n, p, x), NEW i \in 1 .. n, NEW j \in 1 .. n
  PROVE  p[i] <= p[j] + 1
<1>1. PICK first \in 0 .. n - 1, b \in Nat : Shared(n, p, x, first, b)
  BY DEF Fair
<1>2. i - 1 \in 0 .. n - 1 /\ j - 1 \in 0 .. n - 1 /\ (i - 1) + 1 = i /\ (j - 1) + 1 = j
  OBVIOUS
<1>3. p[i] \in {b, b + 1} /\ p[j] \in {b, b + 1}
  BY <1>1, <1>2 DEF Shared
<1> QED
  BY <1>3

----------------------------------------------------------------------------
(* Routes: labels.                                                         *)

\* Labels as the summary keeps them.
Plain(A) == \A l \in A : l = Label(l.name, "plain") /\ l.name # ""

\* Two sets of labels name the same, blanks aside.
Says(A, n) == \E l \in A : l.name = n
SameNames(A, B) == \A n : n # "" => (Says(A, n) <=> Says(B, n))

\* Normal forms agree where the names do.
LEMMA NormalizedNames ==
  ASSUME NEW k, NEW l
  PROVE  (Normalize(k) = Normalize(l) <=> k.name = l.name) /\ Normalize(k).name = k.name
BY DEF Normalize, Label

\* string_set keeps every name and the blank ones out.
LEMMA StringSetOk ==
  ASSUME NEW L
  PROVE  Plain(StringSet(L)) /\ SameNames(StringSet(L), L)
<1>1. ASSUME NEW l \in StringSet(L) PROVE /\ l = Label(l.name, "plain") /\ l.name # ""
                                          /\ \E k \in L : k.name = l.name
  <2>1. PICK k \in L : l = Normalize(k) /\ ~Blank(l)
    BY DEF StringSet
  <2> QED
    BY <2>1 DEF Normalize, Label, Blank
<1>2. ASSUME NEW k \in L, k.name # "" PROVE Says(StringSet(L), k.name)
  <2>1. Normalize(k).name = k.name
    BY NormalizedNames
  <2>2. Normalize(k) \in StringSet(L)
    BY <1>2, <2>1 DEF StringSet, Blank
  <2> QED
    BY <2>1, <2>2 DEF Says
<1> QED
  BY <1>1, <1>2 DEF Plain, SameNames, Says

LEMMA PlainJoins ==
  ASSUME NEW A, NEW B, Plain(A), Plain(B)
  PROVE  Plain(A \cup B)
BY DEF Plain

LEMMA NamesJoin ==
  ASSUME NEW A, NEW B, NEW C, NEW D, SameNames(A, C), SameNames(B, D)
  PROVE  SameNames(A \cup B, C \cup D)
BY DEF SameNames, Says

\* Sets of labels, each with those it was read from.
LEMMA FamilyOk ==
  ASSUME NEW K, NEW f
  PROVE  /\ Plain(UNION {StringSet(f[s]) : s \in K})
         /\ SameNames(UNION {StringSet(f[s]) : s \in K}, UNION {f[s] : s \in K})
<1>1. \A s \in K : Plain(StringSet(f[s])) /\ SameNames(StringSet(f[s]), f[s])
  BY StringSetOk
<1>2. Plain(UNION {StringSet(f[s]) : s \in K})
  BY <1>1 DEF Plain
<1>3. ASSUME NEW n, n # ""
      PROVE  Says(UNION {StringSet(f[s]) : s \in K}, n) <=> Says(UNION {f[s] : s \in K}, n)
  <2>1. Says(UNION {StringSet(f[s]) : s \in K}, n) <=> \E s \in K : Says(StringSet(f[s]), n)
    BY DEF Says
  <2>2. Says(UNION {f[s] : s \in K}, n) <=> \E s \in K : Says(f[s], n)
    BY DEF Says
  <2>3. \A s \in K : Says(StringSet(f[s]), n) <=> Says(f[s], n)
    BY <1>1, <1>3 DEF SameNames
  <2> QED
    BY <2>1, <2>2, <2>3
<1> QED
  BY <1>2, <1>3 DEF SameNames

\* Metadata says what is a string or a true key.
LEMMA MetadataOk ==
  ASSUME NEW md, \A e \in md : e.as \in {"string", "flag", "off"}
  PROVE  /\ Plain(MetadataLabels(md))
         /\ SameNames(MetadataLabels(md), {e.label : e \in {x \in md : x.as # "off"}})
<1>1. {x \in md : x.as \in {"string", "flag"}} = {x \in md : x.as # "off"}
  OBVIOUS
<1> QED
  BY <1>1, StringSetOk DEF MetadataLabels

\* What a card's flags stand for is plain.
LEMMA CardLabelsOk ==
  ASSUME NEW card
  PROVE  Plain(CardLabels(card))
<1>1. ASSUME NEW l \in CardLabels(card)
      PROVE  \E n \in {"streaming", "push", "push-notifications"} : l = Label(n, "plain")
  BY DEF CardLabels
<1>2. \A n : Label(n, "plain").name = n
  BY DEF Label
<1> QED
  BY <1>1, <1>2 DEF Plain

LEMMA SameNamesRefl ==
  ASSUME NEW A
  PROVE  SameNames(A, A)
BY DEF SameNames

\* What a candidate says, and what its row, card and membership say.
CandidateSays(c, m) ==
  /\ Plain(c.tags) /\ SameNames(c.tags, SourceTags(m))
  /\ Plain(c.capabilities) /\ SameNames(c.capabilities, SourceCapabilities(m))
  /\ Plain(c.inputs) /\ SameNames(c.inputs, m.row.card.inputs \cup UNION {s.inputs : s \in m.row.card.skills})
  /\ Plain(c.outputs) /\ SameNames(c.outputs, m.row.card.outputs \cup UNION {s.outputs : s \in m.row.card.skills})
  /\ c.streaming = "yes" <=> m.row.card.streaming = "yes"
  /\ c.push = "yes" <=> m.row.card.push = "yes"
  /\ c.weight = m.weight

\* The fields of a member.
LEMMA MemberFields ==
  ASSUME NEW m \in Members
  PROVE  /\ m.row \in AgentRows /\ m.weight \in Nat \ {0}
         /\ \A e \in m.row.metadata : e.as \in {"string", "flag", "off"}
         /\ \A e \in m.metadata : e.as \in {"string", "flag", "off"}
<1>1. m.row \in AgentRows /\ m.weight \in Weights
  BY DEF Members
<1>2. m.metadata \in {{}, {[label |-> Label("y", "padded"), as |-> "flag"]}}
  BY DEF Members
<1>3. \A e \in m.metadata : e.as = "flag"
  BY <1>2
<1> QED
  BY <1>1, <1>3, RoutingConstants

Folded(f, K) == UNION {StringSet(f[s]) : s \in K}
Joined(f, K) == UNION {f[s] : s \in K}

\* A set of labels and the labels it was read from.
Reads(A, B) == Plain(A) /\ SameNames(A, B)

LEMMA ReadsJoin ==
  ASSUME NEW A, NEW B, NEW C, NEW D, Reads(A, C), Reads(B, D), NEW U, U = A \cup B, NEW V, V = C \cup D
  PROVE  Reads(U, V)
<1>1. Plain(A \cup B)
  BY PlainJoins DEF Reads
<1>2. SameNames(A \cup B, C \cup D)
  BY NamesJoin DEF Reads
<1> QED
  BY <1>1, <1>2 DEF Reads

LEMMA ReadsFamily ==
  ASSUME NEW K, NEW f
  PROVE  Reads(Folded(f, K), Joined(f, K))
BY FamilyOk DEF Reads, Folded, Joined

LEMMA ReadsSet ==
  ASSUME NEW L, NEW U, U = StringSet(L)
  PROVE  Reads(U, L)
BY StringSetOk DEF Reads

LEMMA ReadsMetadata ==
  ASSUME NEW md, \A e \in md : e.as \in {"string", "flag", "off"}, NEW U, U = MetadataLabels(md),
         NEW V, V = {e.label : e \in {x \in md : x.as # "off"}}
  PROVE  Reads(U, V)
BY MetadataOk DEF Reads

\* A candidate's tags, and likewise its input modes, output modes and
\* capabilities, name what its row, card and membership name.
LEMMA CandidateTags ==
  ASSUME NEW m \in Members
  PROVE  Reads(Candidate(m).tags, SourceTags(m))
<1>1. PICK K, f : K = m.row.card.skills /\ f = [s \in K |-> s.tags]
  OBVIOUS
<1>2. \A s \in K : f[s] = s.tags
  BY <1>1
<1>3. PICK A, B, C, D, E, G :
        /\ A = StringSet(m.row.tags) /\ B = Folded(f, K) /\ C = StringSet(m.tags)
        /\ D = m.row.tags /\ E = Joined(f, K) /\ G = m.tags
  OBVIOUS
<1>4. PICK U, V : U = A \cup B /\ V = D \cup E
  OBVIOUS
<1>5. B = UNION {StringSet(s.tags) : s \in K}
  BY <1>2, <1>3 DEF Folded, Joined
<1>6. E = UNION {s.tags : s \in K}
  BY <1>2, <1>3 DEF Folded, Joined
<1>7. Candidate(m).tags = U \cup C
  BY <1>1, <1>3, <1>4, <1>5 DEF Candidate, Summary
<1>8. SourceTags(m) = V \cup G
  BY <1>1, <1>3, <1>4, <1>6 DEF SourceTags
<1>9. Reads(B, E)
  BY <1>3, ReadsFamily
<1>10. Reads(A, D) /\ Reads(C, G)
  BY <1>3, ReadsSet
<1>11. Reads(U, V)
  BY <1>4, <1>9, <1>10, ReadsJoin
<1> QED
  BY <1>7, <1>8, <1>10, <1>11, ReadsJoin

LEMMA CandidateInputs ==
  ASSUME NEW m \in Members
  PROVE  Reads(Candidate(m).inputs, m.row.card.inputs \cup UNION {s.inputs : s \in m.row.card.skills})
<1>1. PICK K, f : K = m.row.card.skills /\ f = [s \in K |-> s.inputs]
  OBVIOUS
<1>2. \A s \in K : f[s] = s.inputs
  BY <1>1
<1>3. PICK A, B, D, E :
        /\ A = StringSet(m.row.card.inputs) /\ B = Folded(f, K)
        /\ D = m.row.card.inputs /\ E = Joined(f, K)
  OBVIOUS
<1>4. B = UNION {StringSet(s.inputs) : s \in K}
  BY <1>2, <1>3 DEF Folded, Joined
<1>5. E = UNION {s.inputs : s \in K}
  BY <1>2, <1>3 DEF Folded, Joined
<1>6. Candidate(m).inputs = A \cup B
  BY <1>1, <1>3, <1>4 DEF Candidate, Summary
<1>7. Reads(B, E) /\ Reads(A, D)
  BY <1>3, ReadsFamily, ReadsSet
<1>8. PICK V : V = D \cup E
  OBVIOUS
<1>9. Reads(Candidate(m).inputs, V)
  BY <1>6, <1>7, <1>8, ReadsJoin
<1> QED
  BY <1>1, <1>3, <1>5, <1>8, <1>9

LEMMA CandidateOutputs ==
  ASSUME NEW m \in Members
  PROVE  Reads(Candidate(m).outputs, m.row.card.outputs \cup UNION {s.outputs : s \in m.row.card.skills})
<1>1. PICK K, f : K = m.row.card.skills /\ f = [s \in K |-> s.outputs]
  OBVIOUS
<1>2. \A s \in K : f[s] = s.outputs
  BY <1>1
<1>3. PICK A, B, D, E :
        /\ A = StringSet(m.row.card.outputs) /\ B = Folded(f, K)
        /\ D = m.row.card.outputs /\ E = Joined(f, K)
  OBVIOUS
<1>4. B = UNION {StringSet(s.outputs) : s \in K}
  BY <1>2, <1>3 DEF Folded, Joined
<1>5. E = UNION {s.outputs : s \in K}
  BY <1>2, <1>3 DEF Folded, Joined
<1>6. Candidate(m).outputs = A \cup B
  BY <1>1, <1>3, <1>4 DEF Candidate, Summary
<1>7. Reads(B, E) /\ Reads(A, D)
  BY <1>3, ReadsFamily, ReadsSet
<1>8. PICK V : V = D \cup E
  OBVIOUS
<1>9. Reads(Candidate(m).outputs, V)
  BY <1>6, <1>7, <1>8, ReadsJoin
<1> QED
  BY <1>1, <1>3, <1>5, <1>8, <1>9

LEMMA CandidateCapabilities ==
  ASSUME NEW m \in Members
  PROVE  Reads(Candidate(m).capabilities, SourceCapabilities(m))
<1>1. PICK K, f, g : K = m.row.card.skills /\ f = [s \in K |-> s.tags] /\ g = [s \in K |-> SkillNames(s)]
  OBVIOUS
<1>2. \A s \in K : f[s] = s.tags /\ g[s] = SkillNames(s)
  BY <1>1
<1>3. PICK A, B, C, D, E :
        /\ A = MetadataLabels(m.row.metadata) /\ B = Folded(f, K)
        /\ C = Folded(g, K) /\ D = CardLabels(m.row.card) /\ E = MetadataLabels(m.metadata)
  OBVIOUS
<1>4. PICK P, Q, R, T :
        /\ P = {e.label : e \in {x \in m.row.metadata : x.as # "off"}} /\ Q = Joined(f, K)
        /\ R = Joined(g, K) /\ T = {e.label : e \in {x \in m.metadata : x.as # "off"}}
  OBVIOUS
<1>5. B = UNION {StringSet(s.tags) : s \in K}
  BY <1>2, <1>3 DEF Folded, Joined
<1>6. C = UNION {StringSet(SkillNames(s)) : s \in K}
  BY <1>2, <1>3 DEF Folded, Joined
<1>7. Q \cup R = UNION {s.tags \cup SkillNames(s) : s \in K}
  BY <1>2, <1>4 DEF Joined
<1>8. PICK U, V, W, X, Y, Z :
        U = A \cup B /\ V = U \cup C /\ W = V \cup D /\ X = P \cup Q /\ Y = X \cup R /\ Z = Y \cup D
  OBVIOUS
<1>9. Candidate(m).capabilities = W \cup E
  <2>1. Candidate(m).capabilities = Summary(m.row).capabilities \cup E
    BY <1>3 DEF Candidate
  <2>2. PICK O, N : O = UNION {StringSet(s.tags) : s \in m.row.card.skills}
                    /\ N = UNION {StringSet(SkillNames(s)) : s \in m.row.card.skills}
    OBVIOUS
  <2>3. Summary(m.row).capabilities = MetadataLabels(m.row.metadata) \cup O \cup N \cup CardLabels(m.row.card)
    <3>1. Summary(m.row).capabilities
            = MetadataLabels(m.row.metadata) \cup (UNION {StringSet(s.tags) : s \in m.row.card.skills})
              \cup (UNION {StringSet(SkillNames(s)) : s \in m.row.card.skills}) \cup CardLabels(m.row.card)
      BY DEF Summary
    <3> QED
      BY <2>2, <3>1, Zenon
  <2>4. O = B
    BY <1>1, <1>5, <2>2
  <2>5. N = C
    BY <1>1, <1>6, <2>2
  <2>6. Summary(m.row).capabilities = A \cup B \cup C \cup D
    BY <1>3, <2>3, <2>4, <2>5
  <2> QED
    BY <1>8, <2>1, <2>6
<1>10. SourceCapabilities(m) = Z \cup T
  <2>1. {e.label : e \in {x \in m.row.metadata \cup m.metadata : x.as # "off"}} = P \cup T
    BY <1>4
  <2>2. PICK L, N, O : L = {e.label : e \in {x \in m.row.metadata \cup m.metadata : x.as # "off"}}
                    /\ N = UNION {s.tags \cup SkillNames(s) : s \in m.row.card.skills} /\ O = CardLabels(m.row.card)
    OBVIOUS
  <2>3. SourceCapabilities(m) = L \cup N \cup O
    BY <2>2, Zenon DEF SourceCapabilities
  <2>4. N = Q \cup R
    BY <1>1, <1>7, <2>2
  <2>5. L = P \cup T
    BY <2>1, <2>2
  <2>6. O = D
    BY <1>3, <2>2
  <2> QED
    BY <1>8, <2>3, <2>4, <2>5, <2>6
<1>11. /\ \A e \in m.row.metadata : e.as \in {"string", "flag", "off"}
       /\ \A e \in m.metadata : e.as \in {"string", "flag", "off"}
  BY MemberFields
<1>12. Reads(A, P)
  BY <1>3, <1>4, <1>11, ReadsMetadata
<1>13. Reads(E, T)
  BY <1>3, <1>4, <1>11, ReadsMetadata
<1>14. Reads(B, Q) /\ Reads(C, R)
  BY <1>3, <1>4, ReadsFamily
<1>15. Reads(D, D)
  BY <1>3, CardLabelsOk, SameNamesRefl DEF Reads
<1>16. Reads(U, X)
  BY <1>8, <1>12, <1>14, ReadsJoin
<1>17. Reads(V, Y)
  BY <1>8, <1>14, <1>16, ReadsJoin
<1>18. Reads(W, Z)
  BY <1>8, <1>15, <1>17, ReadsJoin
<1> QED
  BY <1>9, <1>10, <1>13, <1>18, ReadsJoin

\* A candidate says what its member says.
LEMMA CandidateOk ==
  ASSUME NEW m \in Members
  PROVE  CandidateSays(Candidate(m), m)
<1>1. PICK c : c = Candidate(m)
  OBVIOUS
<1>2. c.weight = m.weight
  BY <1>1 DEF Candidate
<1>3. c.streaming = Support(m.row, m.row.card.streaming) /\ c.push = Support(m.row, m.row.card.push)
  BY <1>1 DEF Candidate, Summary
<1>4. m.row.card = NoCard => m.row.card.streaming # "yes" /\ m.row.card.push # "yes"
  BY DEF NoCard
<1>5. (c.streaming = "yes" <=> m.row.card.streaming = "yes") /\ (c.push = "yes" <=> m.row.card.push = "yes")
  BY <1>3, <1>4 DEF Support
<1> QED
  BY <1>1, <1>2, <1>5, CandidateTags, CandidateInputs, CandidateOutputs, CandidateCapabilities DEF CandidateSays, Reads

\* A stored row makes a candidate the router accepts.
LEMMA CandidatesValid ==
  ASSUME NEW m \in Members
  PROVE  CandidateValid(Candidate(m))
<1>1. PICK c : c = Candidate(m)
  OBVIOUS
<1>2. CandidateSays(c, m)
  BY <1>1, CandidateOk
<1>3. c.weight > 0
  BY <1>2, MemberFields DEF CandidateSays
<1>4. ASSUME NEW A, Plain(A), NEW k \in A, NEW l \in A PROVE ~Blank(k) /\ (k # l => Normalize(k) # Normalize(l))
  BY <1>4 DEF Plain, Blank, Normalize
<1>5. Plain(c.tags) /\ Plain(c.capabilities) /\ Plain(c.inputs) /\ Plain(c.outputs)
  BY <1>2 DEF CandidateSays
<1> QED
  BY <1>1, <1>3, <1>4, <1>5 DEF CandidateValid

\* Nothing is missing when every requirement is named.
LEMMA MissingNames ==
  ASSUME NEW required, ValidLabels(required), NEW A, NEW B, SameNames(A, B)
  PROVE  Missing(required, A) = {} <=> Named(required, B)
<1>1. ASSUME NEW i \in DOMAIN required
      PROVE  Normalize(required[i]) \in {Normalize(l) : l \in A} <=> \E l \in B : l.name = required[i].name
  <2>1. PICK k : k = required[i]
    OBVIOUS
  <2>2. k.name # ""
    BY <1>1, <2>1 DEF ValidLabels, Blank
  <2>3. Normalize(k) \in {Normalize(l) : l \in A} <=> \E l \in A : l.name = k.name
    BY NormalizedNames
  <2>4. Says(A, k.name) <=> Says(B, k.name)
    BY <2>2 DEF SameNames
  <2> QED
    BY <2>1, <2>3, <2>4 DEF Says
<1> QED
  BY <1>1 DEF Missing, Named

----------------------------------------------------------------------------
(* Routes: selections.                                                     *)

\* The candidates built from the members.
Built(cs, ms) ==
  /\ DOMAIN cs = 1 .. Len(ms) /\ Len(cs) = Len(ms) /\ Len(ms) \in Nat
  /\ \A i \in 1 .. Len(ms) : ms[i] \in Members /\ CandidateSays(cs[i], ms[i]) /\ CandidateValid(cs[i])
                             /\ cs[i].weight = ms[i].weight /\ ms[i].weight \in Nat \ {0}

\* The candidates of a list of members are built from them.
LEMMA BuiltOk ==
  ASSUME NEW ms \in Seq(Members)
  PROVE  Built([i \in DOMAIN ms |-> Candidate(ms[i])], ms)
<1>1. PICK n, cs : n = Len(ms) /\ cs = [i \in DOMAIN ms |-> Candidate(ms[i])]
  OBVIOUS
<1>2. n \in Nat /\ DOMAIN ms = 1 .. n /\ \A i \in 1 .. n : ms[i] \in Members
  BY <1>1, LenProperties, ElementOfSeq
<1>3. DOMAIN cs = 1 .. n /\ \A i \in 1 .. n : cs[i] = Candidate(ms[i])
  BY <1>1, <1>2
<1>4. Len(cs) = n
  <2>1. PICK T : T = {Candidate(ms[i]) : i \in 1 .. n}
    OBVIOUS
  <2>2. cs \in [1 .. n -> T]
    BY <1>1, <1>2, <2>1
  <2>3. cs \in Seq(T)
    BY <1>2, <2>2, SeqDef
  <2> QED
    BY <1>2, <1>3, <2>3, LenProperties
<1>5. ASSUME NEW i \in 1 .. n PROVE CandidateSays(cs[i], ms[i]) /\ CandidateValid(cs[i])
  BY <1>2, <1>3, CandidateOk, CandidatesValid
<1>6. ASSUME NEW i \in 1 .. n PROVE cs[i].weight = ms[i].weight /\ ms[i].weight \in Nat \ {0}
  <2>1. cs[i].weight = ms[i].weight
    BY <1>5 DEF CandidateSays
  <2>2. ms[i] \in Members
    BY <1>2
  <2> QED
    BY <2>1, <2>2, MemberFields
<1> QED
  BY <1>1, <1>2, <1>3, <1>4, <1>5, <1>6 DEF Built

GoodLabels(a) == ValidLabels(a.tags) /\ ValidLabels(a.capabilities) /\ ValidLabels(a.inputs) /\ ValidLabels(a.outputs)

\* tag-match and capability-match ask for names in whatever spelling.
LEMMA TagsMatch ==
  ASSUME NEW a, GoodLabels(a), NEW c, NEW m, CandidateSays(c, m)
  PROVE  Missing(a.tags, c.tags) = {} <=> Named(a.tags, SourceTags(m))
<1>1. SameNames(c.tags, SourceTags(m)) /\ ValidLabels(a.tags)
  BY DEF CandidateSays, GoodLabels
<1> QED
  BY <1>1, MissingNames

LEMMA MeetsFits ==
  ASSUME NEW a, GoodLabels(a), NEW c, NEW m, CandidateSays(c, m)
  PROVE  Meets(a, c) <=> Fits(a, m)
<1>1. PICK I, O : /\ I = m.row.card.inputs \cup UNION {s.inputs : s \in m.row.card.skills}
                  /\ O = m.row.card.outputs \cup UNION {s.outputs : s \in m.row.card.skills}
  OBVIOUS
<1>2. SameNames(c.inputs, I) /\ SameNames(c.outputs, O) /\ SameNames(c.capabilities, SourceCapabilities(m))
  BY <1>1 DEF CandidateSays
<1>3. ValidLabels(a.capabilities) /\ ValidLabels(a.inputs) /\ ValidLabels(a.outputs)
  BY DEF GoodLabels
<1>4. Missing(a.tags, c.tags) = {} <=> Named(a.tags, SourceTags(m))
  BY TagsMatch
<1>5. Missing(a.capabilities, c.capabilities) = {} <=> Named(a.capabilities, SourceCapabilities(m))
  BY <1>2, <1>3, MissingNames
<1>6. Missing(a.inputs, c.inputs) = {} <=> Named(a.inputs, I)
  BY <1>2, <1>3, MissingNames
<1>7. Missing(a.outputs, c.outputs) = {} <=> Named(a.outputs, O)
  BY <1>2, <1>3, MissingNames
<1>8. (c.streaming = "yes" <=> m.row.card.streaming = "yes") /\ (c.push = "yes" <=> m.row.card.push = "yes")
  BY DEF CandidateSays
<1>9. Fits(a, m) <=> /\ Named(a.tags, SourceTags(m)) /\ Named(a.capabilities, SourceCapabilities(m))
                     /\ Named(a.inputs, I) /\ Named(a.outputs, O)
                     /\ (a.streaming => m.row.card.streaming = "yes") /\ (a.push => m.row.card.push = "yes")
  BY <1>1, Zenon DEF Fits
<1> QED
  BY <1>4, <1>5, <1>6, <1>7, <1>8, <1>9, Zenon DEF Meets

\* Those that match meet the same requirements.
LEMMA SameScore ==
  ASSUME NEW a, NEW c, NEW d, Meets(a, c), Meets(a, d)
  PROVE  Score(a, c) = Score(a, d)
<1>1. /\ Missing(a.tags, c.tags) = Missing(a.tags, d.tags)
      /\ Missing(a.capabilities, c.capabilities) = Missing(a.capabilities, d.capabilities)
      /\ Missing(a.inputs, c.inputs) = Missing(a.inputs, d.inputs)
      /\ Missing(a.outputs, c.outputs) = Missing(a.outputs, d.outputs)
  BY Zenon DEF Meets
<1>2. (a.streaming /\ c.streaming = "yes" <=> a.streaming /\ d.streaming = "yes")
      /\ (a.push /\ c.push = "yes" <=> a.push /\ d.push = "yes")
  BY Zenon DEF Meets
<1>3. /\ (IF a.streaming /\ c.streaming = "yes" THEN 1 ELSE 0) = (IF a.streaming /\ d.streaming = "yes" THEN 1 ELSE 0)
      /\ (IF a.push /\ c.push = "yes" THEN 1 ELSE 0) = (IF a.push /\ d.push = "yes" THEN 1 ELSE 0)
  BY <1>2, Zenon
<1> QED
  BY <1>1, <1>3, Zenon DEF Score

\* Heavier first, and in rank order among equals.
Heavier(cs, i, j) == cs[i].weight > cs[j].weight \/ (cs[i].weight = cs[j].weight /\ i < j)
ByWeight(cs, S) == {p \in S \X S : Heavier(cs, p[1], p[2])}

\* Sorting by weight, then rank, is sorting.
LEMMA WeightOrders ==
  ASSUME NEW cs, NEW ms, Built(cs, ms), NEW S, S \subseteq 1 .. Len(ms)
  PROVE  IsSorting(S, ByWeight(cs, S), Sorted(S, ByWeight(cs, S)))
<1>1. PICK R : R = ByWeight(cs, S)
  OBVIOUS
<1>2. \A i, j \in S : <<i, j>> \in R <=> Heavier(cs, i, j)
  BY <1>1 DEF ByWeight
<1>3. \A i \in S : i \in Nat /\ cs[i].weight \in Nat
  BY DEF Built
<1>4. Orders(S, R)
  <2>1. \A i \in S : <<i, i>> \notin R
    BY <1>2, <1>3 DEF Heavier
  <2>2. \A i, j \in S : i # j => <<i, j>> \in R \/ <<j, i>> \in R
    BY <1>2, <1>3 DEF Heavier
  <2>3. \A i, j, k \in S : <<i, j>> \in R /\ <<j, k>> \in R => <<i, k>> \in R
    BY <1>2, <1>3 DEF Heavier
  <2> QED
    BY <2>1, <2>2, <2>3 DEF Orders
<1>5. Len(ms) \in Nat
  BY DEF Built
<1>6. IsFiniteSet(S)
  BY <1>5, PositionsFinite
<1> QED
  BY <1>1, <1>4, <1>6, SortedOk

Matching(a, cs) == {i \in DOMAIN cs : Meets(a, cs[i])}

\* capability-match keeps the matching ones, each once, heaviest first.
LEMMA MatchOrderOk ==
  ASSUME NEW a, NEW cs, NEW ms, Built(cs, ms), NEW S, S = Matching(a, cs)
  PROVE  /\ ToSet(MatchOrder(a, cs)) = S /\ IsInjective(MatchOrder(a, cs))
         /\ MatchOrder(a, cs) \in Seq(S)
         /\ HasRequirements(a) =>
              \A m, n \in DOMAIN MatchOrder(a, cs) : m < n => Heavier(cs, MatchOrder(a, cs)[m], MatchOrder(a, cs)[n])
<1>1. PICK s : s = MatchOrder(a, cs)
  OBVIOUS
<1>2. S \subseteq 1 .. Len(ms) /\ Len(ms) \in Nat
  BY DEF Matching, Built
<1>3. CASE HasRequirements(a)
  <2>1. PICK R : R = {p \in S \X S :
                        IF Score(a, cs[p[1]]) # Score(a, cs[p[2]]) THEN Score(a, cs[p[1]]) > Score(a, cs[p[2]])
                        ELSE IF cs[p[1]].weight # cs[p[2]].weight THEN cs[p[1]].weight > cs[p[2]].weight
                        ELSE p[1] < p[2]}
    OBVIOUS
  <2>2. s = Sorted(S, R)
    BY <1>1, <1>3, <2>1, Zenon DEF MatchOrder, Matching
  <2>3. ASSUME NEW p \in S \X S PROVE p \in R <=> Heavier(cs, p[1], p[2])
    <3>1. Meets(a, cs[p[1]]) /\ Meets(a, cs[p[2]]) /\ p[1] \in 1 .. Len(ms) /\ p[2] \in 1 .. Len(ms)
      BY <1>2 DEF Matching
    <3>2. Score(a, cs[p[1]]) = Score(a, cs[p[2]])
      BY <3>1, SameScore
    <3>3. cs[p[1]].weight \in Nat /\ cs[p[2]].weight \in Nat
      BY <3>1 DEF Built
    <3> QED
      BY <2>1, <3>2, <3>3 DEF Heavier
  <2>4. R = ByWeight(cs, S)
    BY <2>1, <2>3 DEF ByWeight
  <2>5. IsSorting(S, ByWeight(cs, S), s)
    BY <1>2, <2>2, <2>4, WeightOrders
  <2>6. DOMAIN s = 1 .. Cardinality(S)
        /\ \A m, n \in 1 .. Cardinality(S) : m < n => <<s[m], s[n]>> \in ByWeight(cs, S)
    BY <2>5 DEF IsSorting
  <2>7. \A m, n \in DOMAIN s : m < n => Heavier(cs, s[m], s[n])
    BY <2>6 DEF ByWeight
  <2> QED
    BY <1>1, <2>5, <2>7 DEF IsSorting
<1>4. CASE ~HasRequirements(a)
  <2>1. PICK R : R = {p \in S \X S : p[1] < p[2]}
    OBVIOUS
  <2>2. s = Sorted(S, R)
    BY <1>1, <1>4, <2>1, Zenon DEF MatchOrder, Matching
  <2>3. IsSorting(S, R, s)
    BY <1>2, <2>1, <2>2, AscendingOk DEF Ascending
  <2> QED
    BY <1>1, <1>4, <2>3 DEF IsSorting
<1> QED
  BY <1>3, <1>4

\* The heaviest candidate is the one every order by weight puts first.
LEMMA HeaviestOk ==
  ASSUME NEW cs, NEW ms, Built(cs, ms), Len(ms) # 0
  PROVE  /\ HeaviestIndex(cs) \in 1 .. Len(ms)
         /\ \A i \in 1 .. Len(ms) : i # HeaviestIndex(cs) => Heavier(cs, HeaviestIndex(cs), i)
<1>1. PICK n, S, R : n = Len(ms) /\ S = 1 .. n /\ R = ByWeight(cs, S)
  OBVIOUS
<1>2. n \in Nat \ {0} /\ DOMAIN cs = S /\ \A i \in S : cs[i].weight \in Nat
  BY <1>1 DEF Built
<1>3. PICK s : s = Sorted(S, R)
  OBVIOUS
<1>4. IsSorting(S, R, s)
  BY <1>1, <1>3, WeightOrders
<1>5. Cardinality(S) = n /\ \A i \in S : i \in Nat
  <2>1. Cardinality(1 .. n) = n
    BY <1>2, FS_Interval
  <2> QED
    BY <1>1, <1>2, <2>1
<1>6. DOMAIN s = 1 .. n /\ ToSet(s) = S /\ \A m, k \in 1 .. n : m < k => <<s[m], s[k]>> \in R
  BY <1>4, <1>5 DEF IsSorting
<1>7. PICK h : h = s[1] /\ h \in S
  BY <1>2, <1>6 DEF ToSet
<1>8. ASSUME NEW i \in S, i # h PROVE Heavier(cs, h, i)
  <2>1. PICK k \in 1 .. n : s[k] = i
    BY <1>6 DEF ToSet
  <2>2. 1 \in 1 .. n /\ 1 < k
    BY <1>2, <1>7, <1>8, <2>1
  <2>3. <<h, i>> \in R
    BY <1>6, <1>7, <2>1, <2>2
  <2> QED
    BY <1>1, <2>3 DEF ByWeight
<1>9. PICK H : H = {i \in S : \A j \in S : cs[j].weight <= cs[i].weight}
  OBVIOUS
<1>10. h \in H
  BY <1>2, <1>7, <1>8, <1>9 DEF Heavier
<1>11. ASSUME NEW y \in H PROVE h <= y
  <2>1. y \in S /\ cs[h].weight <= cs[y].weight
    BY <1>7, <1>9
  <2>2. y # h => h < y
    BY <1>2, <1>7, <1>8, <2>1 DEF Heavier
  <2> QED
    BY <1>5, <1>7, <2>1, <2>2
<1>12. HeaviestIndex(cs) = Min(H)
  BY <1>2, <1>9, Zenon DEF HeaviestIndex
<1>13. Min(H) \in H /\ \A y \in H : Min(H) <= y
  BY <1>10, <1>11 DEF Min
<1>14. Min(H) = h
  <2>1. PICK x : x = Min(H)
    OBVIOUS
  <2>2. x \in H /\ x <= h /\ h <= x
    BY <1>10, <1>11, <1>13, <2>1
  <2>3. x \in Nat /\ h \in Nat
    BY <1>5, <1>7, <1>9, <2>2
  <2> QED
    BY <2>1, <2>2, <2>3
<1> QED
  BY <1>1, <1>7, <1>8, <1>12, <1>14

\* explain_fallback names everyone once, the primary first.
LEMMA AttemptsOk ==
  ASSUME NEW n \in Nat, NEW first \in 1 .. n
  PROVE  /\ Len(Attempts(first, n)) = n /\ Attempts(first, n)[1] = first
         /\ IsInjective(Attempts(first, n)) /\ ToSet(Attempts(first, n)) \subseteq 1 .. n
<1>1. PICK S, R, r, s : /\ S = (1 .. n) \ {first} /\ R = {p \in S \X S : p[1] < p[2]}
                        /\ r = Ascending(S) /\ s = Attempts(first, n)
  OBVIOUS
<1>2. S \subseteq 1 .. n
  BY <1>1
<1>3. IsSorting(S, R, r)
  BY <1>1, <1>2, AscendingOk
<1>4. Cardinality(S) = n - 1
  <2>1. IsFiniteSet(1 .. n) /\ Cardinality(1 .. n) = n
    BY FS_Interval
  <2> QED
    BY <1>1, <2>1, FS_RemoveElement
<1>5. r \in Seq(S) /\ Len(r) = n - 1 /\ DOMAIN r = 1 .. n - 1 /\ IsInjective(r) /\ ToSet(r) = S
  BY <1>3, <1>4 DEF IsSorting
<1>6. r \in Seq(1 .. n)
  BY <1>2, <1>5, SeqMonotonic
<1>7. s = <<first>> \o r
  BY <1>1 DEF Attempts
<1>8. /\ s \in Seq(1 .. n) /\ Len(s) = n /\ DOMAIN s = 1 .. n
      /\ \A k \in 1 .. n : s[k] = IF k = 1 THEN first ELSE r[k - 1]
  <2>1. <<first>> \in Seq(1 .. n) /\ Len(<<first>>) = 1 /\ <<first>>[1] = first
    OBVIOUS
  <2>2. PICK f : f = <<first>>
    OBVIOUS
  <2>3. /\ f \o r \in Seq(1 .. n) /\ Len(f \o r) = n
        /\ \A k \in 1 .. n : (f \o r)[k] = IF k = 1 THEN first ELSE r[k - 1]
    BY <1>5, <1>6, <2>1, <2>2, ConcatProperties
  <2> QED
    BY <1>7, <2>2, <2>3, LenProperties
<1>9. \A k \in 1 .. n - 1 : r[k] \in S
  BY <1>5, ElementOfSeq
<1>10. IsInjective(s)
  <2> SUFFICES ASSUME NEW i \in 1 .. n, NEW j \in 1 .. n, s[i] = s[j] PROVE i = j
    BY <1>8 DEF IsInjective
  <2>1. i # 1 => s[i] = r[i - 1] /\ i - 1 \in 1 .. n - 1
    BY <1>8
  <2>2. j # 1 => s[j] = r[j - 1] /\ j - 1 \in 1 .. n - 1
    BY <1>8
  <2>3. s[1] = first
    BY <1>8
  <2>4. (i # 1 => s[i] # first) /\ (j # 1 => s[j] # first)
    BY <1>1, <1>9, <2>1, <2>2
  <2>5. CASE i = 1 \/ j = 1
    BY <2>3, <2>4, <2>5
  <2>6. CASE i # 1 /\ j # 1
    <3>1. i - 1 = j - 1
      BY <1>5, <2>1, <2>2, <2>6 DEF IsInjective
    <3> QED
      BY <3>1
  <2> QED
    BY <2>5, <2>6
<1>11. ToSet(s) \subseteq 1 .. n
  BY <1>8, ElementOfSeq DEF ToSet
<1> QED
  BY <1>1, <1>8, <1>10, <1>11

\* More than half, and no more than all.
LEMMA MajorityOk ==
  ASSUME NEW n \in Nat \ {0}
  PROVE  n \div 2 + 1 \in 1 .. n /\ 2 * (n \div 2 + 1) > n
BY Division

----------------------------------------------------------------------------
(* Routes: plans.                                                          *)

\* What the properties say of a selection, for the options and members it is
\* made from.
Exact(pol, s, a, ms) ==
  /\ pol = "tag-match" => ToSet(s) = {i \in DOMAIN ms : Named(a.tags, SourceTags(ms[i]))}
  /\ pol = "capability-match" => ToSet(s) = {i \in DOMAIN ms : Fits(a, ms[i])}
InWeightOrder(pol, s, a, ms) ==
  pol = "capability-match" /\ HasRequirements(a) =>
    \A m, n \in DOMAIN s : m < n => Heavier(ms, s[m], s[n])
Attemptable(pol, s, a, ms) ==
  /\ IsInjective(s) /\ ToSet(s) \subseteq 1 .. Len(ms)
  /\ pol \in {"broadcast", "first-success", "quorum", "fallback"} => Len(s) = Len(ms)
  /\ pol \in {"direct", "fallback"} /\ a.preferred # 0 => s[1] = a.preferred
  /\ pol = "weighted" => \A i \in 1 .. Len(ms) : i # s[1] => Heavier(ms, s[1], i)
SelectionOk(pol, s, a, ms) == Exact(pol, s, a, ms) /\ InWeightOrder(pol, s, a, ms) /\ Attemptable(pol, s, a, ms)

LEMMA OneTarget ==
  ASSUME NEW n \in Nat, NEW i \in 1 .. n, NEW s, s = <<i>>
  PROVE  IsInjective(s) /\ ToSet(s) \subseteq 1 .. n /\ s[1] = i
<1>1. DOMAIN s = {1} /\ s[1] = i
  OBVIOUS
<1> QED
  BY <1>1 DEF IsInjective, ToSet

LEMMA SameWeights ==
  ASSUME NEW cs, NEW ms, Built(cs, ms), NEW i \in 1 .. Len(ms), NEW j \in 1 .. Len(ms)
  PROVE  Heavier(cs, i, j) <=> Heavier(ms, i, j)
BY DEF Built, Heavier

\* Every policy selects as it promises.
LEMMA SelectedOk ==
  ASSUME NEW a \in Arguments, NEW cs, NEW ms \in Seq(Members), Built(cs, ms), NEW pol \in RoutePolicies,
         pol = ResolvePolicy(a), ~BadArguments(a, Len(cs))
  PROVE  SelectionOk(pol, Selected(pol, a, cs), a, ms)
<1>1. PICK n, s : n = Len(ms) /\ s = Selected(pol, a, cs)
  OBVIOUS
<1>2. n \in Nat \ {0} /\ Len(cs) = n /\ DOMAIN cs = 1 .. n /\ DOMAIN ms = 1 .. n
  BY <1>1, LenProperties DEF Built, BadArguments
<1>3. GoodLabels(a)
  BY DEF GoodLabels, BadArguments
<1>4. a.preferred \in Nat /\ a.cursor \in Nat
  BY ArgumentsAssumption
<1>5. pol \in {"direct", "fallback"} => Primary(a) \in 1 .. n /\ (a.preferred # 0 => Primary(a) = a.preferred)
  BY <1>2, <1>4 DEF BadArguments, Primary
<1>6. CASE pol = "direct"
  <2>1. s = <<Primary(a)>>
    BY <1>1, <1>6 DEF Selected
  <2>2. PICK i \in 1 .. n : i = Primary(a) /\ (a.preferred # 0 => i = a.preferred)
    BY <1>5, <1>6
  <2>3. IsInjective(s) /\ ToSet(s) \subseteq 1 .. n /\ s[1] = i
    BY <1>2, <2>1, <2>2, OneTarget
  <2> QED
    BY <1>1, <1>6, <2>2, <2>3 DEF SelectionOk, Exact, InWeightOrder, Attemptable
<1>7. CASE pol = "round-robin"
  <2>1. s = <<RoundRobinIndex(a.cursor, n)>>
    BY <1>1, <1>2, <1>7 DEF Selected
  <2>2. a.cursor % n \in 0 .. n - 1
    BY <1>2, <1>4, NextTurn
  <2>3. PICK i \in 1 .. n : i = RoundRobinIndex(a.cursor, n)
    BY <1>2, <2>2 DEF RoundRobinIndex
  <2>4. IsInjective(s) /\ ToSet(s) \subseteq 1 .. n
    BY <1>2, <2>1, <2>3, OneTarget
  <2> QED
    BY <1>1, <1>7, <2>4 DEF SelectionOk, Exact, InWeightOrder, Attemptable
<1>8. CASE pol = "weighted"
  <2>1. s = <<HeaviestIndex(cs)>>
    BY <1>1, <1>8 DEF Selected
  <2>2. PICK i \in 1 .. n : i = HeaviestIndex(cs)
    BY <1>1, <1>2, HeaviestOk
  <2>3. \A j \in 1 .. n : j # i => Heavier(cs, i, j)
    BY <1>1, <1>2, <2>2, HeaviestOk
  <2>4. IsInjective(s) /\ ToSet(s) \subseteq 1 .. n /\ s[1] = i
    BY <1>2, <2>1, <2>2, OneTarget
  <2>5. \A j \in 1 .. n : j # i => Heavier(ms, i, j)
    BY <1>1, <2>3, SameWeights
  <2> QED
    BY <1>1, <1>8, <2>4, <2>5 DEF SelectionOk, Exact, InWeightOrder, Attemptable
<1>9. CASE pol \in {"broadcast", "first-success", "quorum"}
  <2>1. s = [i \in 1 .. n |-> i]
    BY <1>1, <1>2, <1>9 DEF Selected, Everyone
  <2>2. s \in Seq(1 .. n) /\ Len(s) = n
    <3>1. s \in [1 .. n -> 1 .. n]
      BY <2>1
    <3>2. s \in Seq(1 .. n)
      BY <1>2, <3>1, SeqDef
    <3> QED
      BY <1>2, <3>1, <3>2, LenProperties
  <2>3. IsInjective(s) /\ ToSet(s) \subseteq 1 .. n
    BY <2>1 DEF IsInjective, ToSet
  <2> QED
    BY <1>1, <1>9, <2>2, <2>3 DEF SelectionOk, Exact, InWeightOrder, Attemptable
<1>10. CASE pol = "fallback"
  <2>1. s = Attempts(Primary(a), n)
    BY <1>1, <1>2, <1>10 DEF Selected
  <2>2. PICK i \in 1 .. n : i = Primary(a) /\ (a.preferred # 0 => i = a.preferred)
    BY <1>5, <1>10
  <2>3. IsInjective(s) /\ ToSet(s) \subseteq 1 .. n /\ s[1] = i /\ Len(s) = n
    BY <1>2, <2>1, <2>2, AttemptsOk
  <2> QED
    BY <1>1, <1>10, <2>2, <2>3 DEF SelectionOk, Exact, InWeightOrder, Attemptable
<1>11. CASE pol = "tag-match"
  <2>1. PICK S : S = {i \in DOMAIN cs : Missing(a.tags, cs[i].tags) = {}}
    OBVIOUS
  <2>2. s = Ascending(S)
    BY <1>1, <1>11, <2>1 DEF Selected, TagMatch
  <2>3. S \subseteq 1 .. n
    BY <1>2, <2>1
  <2>4. IsInjective(s) /\ ToSet(s) = S
    BY <1>2, <2>2, <2>3, AscendingOk DEF IsSorting
  <2>5. \A i \in 1 .. n : Missing(a.tags, cs[i].tags) = {} <=> Named(a.tags, SourceTags(ms[i]))
    BY <1>1, <1>3, TagsMatch DEF Built
  <2>6. S = {i \in DOMAIN ms : Named(a.tags, SourceTags(ms[i]))}
    BY <1>2, <2>1, <2>5
  <2> QED
    BY <1>1, <1>11, <2>3, <2>4, <2>6 DEF SelectionOk, Exact, InWeightOrder, Attemptable
<1>12. CASE pol = "capability-match"
  <2>1. s = MatchOrder(a, cs)
    BY <1>1, <1>12 DEF Selected
  <2>2. PICK S : S = Matching(a, cs)
    OBVIOUS
  <2>3. S \subseteq 1 .. n
    BY <1>2, <2>2 DEF Matching
  <2>4. IsInjective(s) /\ ToSet(s) = S
    BY <2>1, <2>2, MatchOrderOk
  <2>5. \A i \in 1 .. n : Meets(a, cs[i]) <=> Fits(a, ms[i])
    BY <1>1, <1>3, MeetsFits DEF Built
  <2>6. S = {i \in DOMAIN ms : Fits(a, ms[i])}
    BY <1>2, <2>2, <2>5 DEF Matching
  <2>7. HasRequirements(a) => \A m, k \in DOMAIN s : m < k => Heavier(cs, s[m], s[k])
    BY <2>1, <2>2, MatchOrderOk
  <2>8. \A m \in DOMAIN s : s[m] \in 1 .. n
    BY <2>3, <2>4 DEF ToSet
  <2>9. HasRequirements(a) => \A m, k \in DOMAIN s : m < k => Heavier(ms, s[m], s[k])
    BY <1>1, <2>7, <2>8, SameWeights
  <2> QED
    BY <1>1, <1>12, <2>3, <2>4, <2>6, <2>9 DEF SelectionOk, Exact, InWeightOrder, Attemptable
<1> QED
  BY <1>6, <1>7, <1>8, <1>9, <1>10, <1>11, <1>12 DEF RoutePolicies

QuorumOk(pol, q, a, n) ==
  pol = "quorum" => q \in 1 .. n /\ (a.quorum = 0 => 2 * q > n)

PlanOk(e, a, ms) ==
  /\ e.status \in {"selected", "no_match", "refused"}
  /\ e.status = "refused" => e.why = "arguments"
  /\ e.status # "refused" => /\ Len(ms) # 0 /\ SelectionOk(e.policy, e.selected, a, ms)
                             /\ QuorumOk(e.policy, e.quorum, a, Len(ms))

\* Every explanation is a plan as promised, or refuses the arguments.
LEMMA ExplanationOk ==
  ASSUME NEW a \in Arguments, NEW cs, NEW ms \in Seq(Members), Built(cs, ms)
  PROVE  PlanOk(Explanation(a, cs), a, ms)
<1>1. PICK e, pol, n : e = Explanation(a, cs) /\ pol = ResolvePolicy(a) /\ n = Len(ms)
  OBVIOUS
<1>2. Len(cs) = n /\ n \in Nat /\ \A i \in DOMAIN cs : CandidateValid(cs[i])
  BY <1>1 DEF Built
<1>3. pol \in RoutePolicies \cup {"unknown"}
  BY <1>1 DEF ResolvePolicy, ParsePolicy, RoutePolicies
<1>4. a.policy = "" => pol # "unknown"
  BY <1>1, ArgumentsAssumption DEF ResolvePolicy
<1>5. a.quorum \in Nat
  BY ArgumentsAssumption
<1>6. CASE pol = "unknown" \/ BadArguments(a, n)
  <2>1. e = [status |-> "refused", why |-> "arguments"]
    BY <1>1, <1>2, <1>4, <1>6 DEF Explanation
  <2> QED
    BY <1>1, <2>1 DEF PlanOk
<1>7. CASE ~(pol = "unknown" \/ BadArguments(a, n))
  <2>1. PICK chosen, q : /\ chosen = Selected(pol, a, cs)
                         /\ q = IF pol = "quorum" THEN QuorumOf(a, n) ELSE 0
    OBVIOUS
  <2>2. e = [status |-> IF chosen = <<>> THEN "no_match" ELSE "selected", policy |-> pol, selected |-> chosen,
             quorum |-> q]
    BY <1>1, <1>2, <1>4, <1>7, <2>1, Zenon DEF Explanation
  <2>3. n # 0
    BY <1>7 DEF BadArguments
  <2>4. SelectionOk(pol, chosen, a, ms)
    BY <1>1, <1>2, <1>3, <1>7, <2>1, SelectedOk
  <2>5. QuorumOk(pol, q, a, n)
    <3>1. n \div 2 + 1 \in 1 .. n /\ 2 * (n \div 2 + 1) > n
      BY <1>2, <2>3, MajorityOk
    <3>2. a.quorum # 0 => a.quorum \in 1 .. n
      BY <1>2, <1>5, <1>7 DEF BadArguments
    <3> QED
      BY <1>2, <2>1, <3>1, <3>2 DEF QuorumOk, QuorumOf
  <2>6. e.status \in {"selected", "no_match"} /\ e.policy = pol /\ e.selected = chosen /\ e.quorum = q
    BY <2>2
  <2> QED
    BY <1>1, <2>3, <2>4, <2>5, <2>6 DEF PlanOk
<1> QED
  BY <1>6, <1>7

----------------------------------------------------------------------------
(* Routes: the command.                                                    *)

CandidatesOf(ms) == [i \in DOMAIN ms |-> Candidate(ms[i])]

RouteTyped ==
  /\ candidates \in Seq(Members) /\ Len(candidates) <= MaxCandidates /\ args \in Arguments
  /\ cursor \in 0 .. MAX_CURSOR /\ picks \in [1 .. MaxCandidates -> Nat]

\* A plan is the one of the options and the candidates there are, and the
\* turns were taken along the cursor since.
RouteInv ==
  /\ RouteTyped
  /\ plan = NoPlan \/ plan = Explanation(args, CandidatesOf(candidates))
  /\ plan = NoPlan => \A i \in 1 .. MaxCandidates : picks[i] = 0
  /\ plan # NoPlan /\ cursor < MAX_CURSOR /\ Len(candidates) # 0 =>
       Fair(Len(candidates), picks, cursor % Len(candidates))

LEMMA RouteStarts ==
  RouteInit => RouteInv
<1> SUFFICES ASSUME RouteInit PROVE RouteInv
  OBVIOUS
<1>1. candidates \in Seq(Members) /\ Len(candidates) = 0
  BY EmptySeq DEF RouteInit
<1>2. RouteTyped
  BY <1>1, RoutingConstants DEF RouteInit, RouteTyped
<1>3. \A i \in 1 .. MaxCandidates : picks[i] = 0
  BY DEF RouteInit
<1> QED
  BY <1>2, <1>3 DEF RouteInit, RouteInv

LEMMA CandidateAdded ==
  ASSUME RouteInv, NEW m \in Members, AddCandidate(m)
  PROVE  RouteInv'
<1>1. candidates' \in Seq(Members) /\ Len(candidates') = Len(candidates) + 1 /\ Len(candidates) \in Nat
  BY AppendProperties, LenProperties DEF RouteInv, RouteTyped, AddCandidate
<1>2. RouteTyped'
  BY <1>1, RoutingConstants DEF RouteInv, RouteTyped, AddCandidate
<1>3. plan' = NoPlan /\ picks' = picks /\ plan = NoPlan
  BY DEF AddCandidate
<1> QED
  BY <1>2, <1>3 DEF RouteInv

LEMMA RouteExplained ==
  ASSUME RouteInv, ExplainRoute
  PROVE  RouteInv'
<1>1. candidates' = candidates /\ args' = args /\ cursor' = cursor /\ picks' = picks /\ plan = NoPlan
  BY DEF ExplainRoute
<1>2. plan' = Explanation(args, CandidatesOf(candidates))
  BY Zenon DEF ExplainRoute, CandidatesOf
<1>3. plan' = Explanation(args', CandidatesOf(candidates'))
  BY <1>1, <1>2, Zenon DEF CandidatesOf
<1>4. RouteTyped' /\ \A i \in 1 .. MaxCandidates : picks'[i] = 0
  BY <1>1 DEF RouteInv, RouteTyped
<1>5. ASSUME Len(candidates) # 0 PROVE Fair(Len(candidates), picks, cursor % Len(candidates))
  <2>1. PICK n, x : n = Len(candidates) /\ x = cursor % n
    OBVIOUS
  <2>2. n \in Nat \ {0} /\ n <= MaxCandidates /\ cursor \in Nat
    BY <1>5, <2>1, RoutingConstants, LenProperties DEF RouteInv, RouteTyped
  <2>3. x \in 0 .. n - 1
    BY <2>1, <2>2, NextTurn
  <2>4. \A i \in 0 .. n - 1 : picks[i + 1] = 0 /\ ~Within(x, i, x)
    BY <1>1, <1>4, <2>2, <2>3, RoutingConstants DEF Within
  <2>5. Shared(n, picks, x, x, 0)
    BY <2>4 DEF Shared
  <2>6. Fair(n, picks, x)
    BY <2>3, <2>5 DEF Fair
  <2> QED
    BY <2>1, <2>6
<1> QED
  BY <1>1, <1>3, <1>4, <1>5 DEF RouteInv

LEMMA TurnTaken ==
  ASSUME RouteInv, PickNext
  PROVE  RouteInv'
<1>1. PICK e, ms, n, M, p, c : /\ e = plan /\ ms = candidates /\ n = Len(ms) /\ M = MaxCandidates /\ p = picks
                               /\ c = cursor
  OBVIOUS
<1>2. candidates' = ms /\ args' = args /\ plan' = e /\ e # NoPlan
  BY <1>1 DEF PickNext
<1>3. e = Explanation(args, CandidatesOf(ms)) /\ ms \in Seq(Members) /\ args \in Arguments
  BY <1>1, <1>2 DEF RouteInv, RouteTyped
<1>4. PlanOk(e, args, ms)
  BY <1>3, BuiltOk, ExplanationOk DEF CandidatesOf
<1>5. n \in Nat \ {0} /\ M \in Nat /\ n <= M /\ c \in Nat /\ c <= MAX_CURSOR /\ p \in [1 .. M -> Nat]
  <2>1. e.status = "selected"
    BY <1>1 DEF PickNext
  <2>2. Len(ms) # 0
    BY <1>4, <2>1 DEF PlanOk
  <2> QED
    BY <1>1, <1>3, <2>2, LenProperties, RoutingConstants DEF RouteInv, RouteTyped
<1>6. PICK x : x = c % n
  OBVIOUS
<1>7. x \in 0 .. n - 1 /\ (c + 1) % n = IF x = n - 1 THEN 0 ELSE x + 1
  BY <1>5, <1>6, NextTurn
<1>8. picks' = [p EXCEPT ![x + 1] = @ + 1] /\ cursor' = Saturating(c)
  BY <1>1, <1>6 DEF PickNext, RoundRobinIndex
<1>9. x + 1 \in 1 .. M
  BY <1>5, <1>7
<1>10. picks' \in [1 .. M -> Nat]
  BY <1>5, <1>8, <1>9
<1>11. cursor' \in 0 .. MAX_CURSOR
  BY <1>5, <1>8, RoutingConstants DEF Saturating
<1>12. RouteTyped'
  BY <1>1, <1>2, <1>3, <1>5, <1>10, <1>11 DEF RouteTyped
<1>13. ASSUME cursor' < MAX_CURSOR PROVE Fair(n, picks', cursor' % n)
  <2>1. c < MAX_CURSOR /\ cursor' = c + 1
    BY <1>5, <1>8, <1>13, RoutingConstants DEF Saturating
  <2>2. Fair(n, p, x)
    BY <1>1, <1>2, <1>5, <1>6, <2>1 DEF RouteInv
  <2>3. PICK y, t : y = (IF x = n - 1 THEN 0 ELSE x + 1) /\ t = [p EXCEPT ![x + 1] = @ + 1]
    OBVIOUS
  <2>4. Fair(n, t, y)
    BY <1>5, <1>7, <2>2, <2>3, FairTurn
  <2> QED
    BY <1>7, <1>8, <2>1, <2>3, <2>4
<1>14. plan' = Explanation(args', CandidatesOf(candidates'))
  BY <1>2, <1>3
<1> QED
  BY <1>1, <1>2, <1>12, <1>13, <1>14 DEF RouteInv

LEMMA RouteInductive ==
  RouteInv /\ [RouteNext]_routeVars => RouteInv'
<1> SUFFICES ASSUME RouteInv, [RouteNext]_routeVars PROVE RouteInv'
  OBVIOUS
<1>1. CASE \E m \in Members : AddCandidate(m)
  BY <1>1, CandidateAdded
<1>2. CASE ExplainRoute
  BY <1>2, RouteExplained
<1>3. CASE PickNext
  BY <1>3, TurnTaken
<1>4. CASE UNCHANGED routeVars
  <2>1. candidates' = candidates /\ args' = args /\ plan' = plan /\ cursor' = cursor /\ picks' = picks
    BY <1>4 DEF routeVars
  <2> QED
    BY <2>1 DEF RouteInv, RouteTyped, CandidatesOf
<1> QED
  BY <1>1, <1>2, <1>3, <1>4 DEF RouteNext

LEMMA RouteInvSound ==
  RouteInv => PlansAreSound
<1> SUFFICES ASSUME RouteInv PROVE PlansAreSound
  OBVIOUS
<1>1. PICK ms, n : ms = candidates /\ n = Len(candidates)
  OBVIOUS
<1>2. ms \in Seq(Members) /\ args \in Arguments /\ n \in Nat /\ n <= MaxCandidates /\ DOMAIN ms = 1 .. n
  BY <1>1, LenProperties DEF RouteInv, RouteTyped
<1>3. ASSUME plan # NoPlan PROVE PlanOk(plan, args, ms)
  <2>1. plan = Explanation(args, CandidatesOf(ms))
    BY <1>1, <1>3 DEF RouteInv
  <2> QED
    BY <1>2, <2>1, BuiltOk, ExplanationOk DEF CandidatesOf
<1>4. RoutingTypeOK
  BY <1>3 DEF RouteInv, RouteTyped, PlanOk, RoutingTypeOK
<1>5. StoredRowsAreRoutable
  BY <1>3 DEF PlanOk, StoredRowsAreRoutable
<1>6. ASSUME Planned PROVE SelectionOk(plan.policy, plan.selected, args, ms) /\ QuorumOk(plan.policy, plan.quorum, args, n)
  BY <1>1, <1>3, <1>6 DEF Planned, PlanOk
<1>7. MatchesAreExact
  BY <1>1, <1>6 DEF MatchesAreExact, SelectionOk, Exact
<1>8. MatchesByWeight
  BY <1>1, <1>6 DEF MatchesByWeight, SelectionOk, InWeightOrder, Heavier
<1>9. ASSUME NEW i \in 1 .. n PROVE ms[i].weight \in Nat
  BY <1>2, <1>9, ElementOfSeq, MemberFields
<1>10. PlansAreAttemptable
  <2> SUFFICES ASSUME Planned PROVE PlansAreAttemptable
    BY DEF PlansAreAttemptable
  <2>1. Attemptable(plan.policy, plan.selected, args, ms)
    BY <1>6 DEF SelectionOk
  <2>2. PICK s : s = plan.selected
    OBVIOUS
  <2>3. ASSUME plan.policy = "weighted", NEW i \in 1 .. n, i # s[1]
        PROVE  ms[i].weight < ms[s[1]].weight \/ (ms[i].weight = ms[s[1]].weight /\ i > s[1])
    <3>1. Heavier(ms, s[1], i)
      BY <1>1, <2>1, <2>2, <2>3 DEF Attemptable
    <3> QED
      BY <3>1 DEF Heavier
  <2> QED
    BY <1>1, <2>1, <2>2, <2>3 DEF Attemptable, PlansAreAttemptable
<1>11. QuorumsIntersect
  BY <1>1, <1>6 DEF QuorumsIntersect, QuorumOk
<1>12. RoundRobinIsFair
  <2> SUFFICES ASSUME cursor < MAX_CURSOR, NEW i \in 1 .. n, NEW j \in 1 .. n PROVE picks[i] <= picks[j] + 1
    BY <1>1 DEF RoundRobinIsFair
  <2>1. CASE plan = NoPlan
    <3>1. i \in 1 .. MaxCandidates /\ j \in 1 .. MaxCandidates
      BY <1>2, RoutingConstants
    <3>2. picks[i] = 0 /\ picks[j] = 0
      BY <2>1, <3>1 DEF RouteInv
    <3> QED
      BY <3>2
  <2>2. CASE plan # NoPlan
    <3>1. PICK x : x = cursor % n
      OBVIOUS
    <3>2. n # 0
      BY <1>2
    <3>3. Fair(n, picks, x)
      BY <1>1, <2>2, <3>1, <3>2 DEF RouteInv
    <3> QED
      BY <1>2, <3>3, FairMeans
  <2> QED
    BY <2>1, <2>2
<1> QED
  BY <1>4, <1>5, <1>7, <1>8, <1>10, <1>11, <1>12 DEF PlansAreSound

\* Every plan follows from what is stored, whatever the rows, cards, groups
\* and options: no stored row or policy makes it fail, the matches are those
\* whose row, card or membership says what was asked for, heaviest first, a
\* policy names whom it promises, majorities meet, and turns go round.
THEOREM PlansSound == RouteSpec => []PlansAreSound
<1>1. RouteInit => RouteInv
  BY RouteStarts
<1>2. RouteInv /\ [RouteNext]_routeVars => RouteInv'
  BY RouteInductive
<1>3. RouteInv => PlansAreSound
  BY RouteInvSound
<1> QED
  BY <1>1, <1>2, <1>3, PTL DEF RouteSpec

----------------------------------------------------------------------------
(* Configuration: numbers in order.                                        *)

\* Numbers have a smallest one.
LEMMA Smallest ==
  ASSUME NEW S, S \subseteq Nat, S # {}
  PROVE  \E x \in S : \A y \in S : x <= y
<1>1. PICK x \in S : \A y \in S : ~(<<y, x>> \in OpToRel(<, Nat))
  BY NatLessThanWellFounded, WFMin
<1>2. \A y \in S : ~(y < x)
  BY <1>1 DEF OpToRel
<1> QED
  BY <1>2

\* Min is it.
LEMMA MinOk ==
  ASSUME NEW S, S \subseteq Nat, S # {}
  PROVE  Min(S) \in S /\ \A y \in S : Min(S) <= y
BY Smallest DEF Min

\* A set of numbers that has 0 and with each of them up to n the next.
LEMMA Upwards ==
  ASSUME NEW n \in Nat, NEW S, 0 \in S, \A i \in 0 .. n - 1 : i \in S => i + 1 \in S
  PROVE  \A i \in 0 .. n : i \in S
<1> SUFFICES ASSUME NEW k \in 0 .. n, k \notin S PROVE FALSE
  OBVIOUS
<1>1. PICK T : T = {i \in 0 .. n : i \notin S}
  OBVIOUS
<1>2. T \subseteq Nat /\ T # {}
  BY <1>1
<1>3. PICK x \in T : \A y \in T : x <= y
  BY <1>2, Smallest
<1>4. x \in 0 .. n /\ x \notin S /\ x # 0
  BY <1>1, <1>3
<1>5. x - 1 \in 0 .. n - 1 /\ x - 1 \notin T
  BY <1>3, <1>4
<1>6. x - 1 \in S
  BY <1>1, <1>5
<1>7. (x - 1) + 1 \in S
  BY <1>5, <1>6
<1>8. (x - 1) + 1 = x
  BY <1>4
<1> QED
  BY <1>4, <1>7, <1>8

----------------------------------------------------------------------------
(* Configuration: what is read from texts and paths.                       *)

Fresh == [mode |-> "text", out |-> <<>>]

\* f[i] is what the first i of n tokens of t leave.
Read(t, n, f) == f = [i \in 0 .. n |-> IF i = 0 THEN Fresh ELSE RedactStep(f[i - 1], t[i])]

\* The first step, and each after it.
LEMMA ReadMeans ==
  ASSUME NEW t, NEW n \in Nat, NEW f, Read(t, n, f)
  PROVE  f[0] = Fresh /\ \A i \in 1 .. n : f[i] = RedactStep(f[i - 1], t[i])
BY DEF Read

SameStart(t, u, n) == \A i \in 1 .. n : u[i] = t[i]

\* One token more.
LEMMA ReadOn ==
  ASSUME NEW t, NEW n \in Nat, NEW f, Read(t, n, f), NEW u, SameStart(t, u, n), NEW m, m = n + 1
  PROVE  \E g : Read(u, m, g) /\ g[m] = RedactStep(f[n], u[m])
<1>1. PICK g : g = [i \in 0 .. m |-> IF i = m THEN RedactStep(f[n], u[m]) ELSE f[i]]
  OBVIOUS
<1>2. f[0] = Fresh /\ \A i \in 1 .. n : f[i] = RedactStep(f[i - 1], t[i])
  BY ReadMeans
<1>3. \A i \in 0 .. n : g[i] = f[i]
  BY <1>1
<1>4. g[m] = RedactStep(f[n], u[m])
  BY <1>1
<1>5. ASSUME NEW i \in 0 .. m PROVE g[i] = IF i = 0 THEN Fresh ELSE RedactStep(g[i - 1], u[i])
  <2>1. CASE i = 0
    BY <1>2, <1>3, <2>1
  <2>2. CASE i \in 1 .. n
    <3>1. g[i] = f[i] /\ g[i - 1] = f[i - 1] /\ u[i] = t[i] /\ f[i] = RedactStep(f[i - 1], t[i])
      BY <1>2, <1>3, <2>2 DEF SameStart
    <3> QED
      BY <2>2, <3>1
  <2>3. CASE i = m
    <3>1. g[i - 1] = f[n] /\ i # 0
      BY <1>3, <2>3
    <3> QED
      BY <1>4, <2>3, <3>1
  <2> QED
    BY <2>1, <2>2, <2>3
<1>6. g = [i \in 0 .. m |-> IF i = 0 THEN Fresh ELSE RedactStep(g[i - 1], u[i])]
  BY <1>1, <1>5
<1> QED
  BY <1>4, <1>6 DEF Read

\* Before the first token.
LEMMA ReadStarts ==
  ASSUME NEW t
  PROVE  \E f : Read(t, 0, f) /\ f[0] = Fresh
<1>1. PICK f : f = [i \in 0 .. 0 |-> Fresh]
  OBVIOUS
<1>2. f = [i \in 0 .. 0 |-> IF i = 0 THEN Fresh ELSE RedactStep(f[i - 1], t[i])]
  BY <1>1
<1> QED
  BY <1>1, <1>2 DEF Read

\* Every text can be read, and in one way.
LEMMA ReadExists ==
  ASSUME NEW t, NEW n \in Nat
  PROVE  \E f : Read(t, n, f)
<1>1. PICK S : S = {k \in Nat : \E f : Read(t, k, f)}
  OBVIOUS
<1>2. 0 \in S
  BY <1>1, ReadStarts
<1>3. ASSUME NEW k \in 0 .. n - 1, k \in S PROVE k + 1 \in S
  <2>1. PICK f, m : Read(t, k, f) /\ m = k + 1
    BY <1>1, <1>3
  <2>2. SameStart(t, t, k) /\ k \in Nat
    BY DEF SameStart
  <2>3. \E g : Read(t, m, g)
    BY <2>1, <2>2, ReadOn
  <2> QED
    BY <1>1, <2>1, <2>2, <2>3
<1>4. n \in S
  BY <1>2, <1>3, Upwards
<1> QED
  BY <1>1, <1>4

\* A text is read in one way only.
LEMMA ReadOnce ==
  ASSUME NEW t, NEW n \in Nat, NEW f, NEW g, Read(t, n, f), Read(t, n, g)
  PROVE  f[n] = g[n]
<1>1. PICK S : S = {k \in Nat : f[k] = g[k]}
  OBVIOUS
<1>2. f[0] = Fresh /\ \A i \in 1 .. n : f[i] = RedactStep(f[i - 1], t[i])
  BY ReadMeans
<1>3. g[0] = Fresh /\ \A i \in 1 .. n : g[i] = RedactStep(g[i - 1], t[i])
  BY ReadMeans
<1>4. 0 \in S
  BY <1>1, <1>2, <1>3
<1>5. ASSUME NEW k \in 0 .. n - 1, k \in S PROVE k + 1 \in S
  <2>1. k + 1 \in 1 .. n /\ (k + 1) - 1 = k /\ k + 1 \in Nat
    OBVIOUS
  <2>2. f[k + 1] = RedactStep(f[k], t[k + 1]) /\ g[k + 1] = RedactStep(g[k], t[k + 1]) /\ f[k] = g[k]
    BY <1>1, <1>2, <1>3, <1>5, <2>1
  <2> QED
    BY <1>1, <2>1, <2>2
<1>6. n \in S
  BY <1>4, <1>5, Upwards
<1> QED
  BY <1>1, <1>6

\* RedactText is what reading all of the text leaves.
LEMMA RedactTextReads ==
  ASSUME NEW t, NEW n \in Nat, n = Len(t), NEW f, Read(t, n, f)
  PROVE  RedactText(t) = f[n].out
<1>1. PICK g : g = CHOOSE h : Read(t, n, h)
  OBVIOUS
<1>2. Read(t, n, g)
  BY <1>1
<1>3. RedactText(t) = g[Len(t)].out
  BY <1>1, Zenon DEF RedactText, Read, Fresh
<1>4. f[n] = g[n]
  BY <1>2, ReadOnce
<1> QED
  BY <1>3, <1>4

\* What was read so far, read again, leaves the same.
Settles(acc, T) == acc.out \in Seq(T) /\ \E h : Read(acc.out, Len(acc.out), h) /\ h[Len(acc.out)] = acc

\* A token is dropped, kept, or replaced by what would be kept.
LEMMA StepShape ==
  ASSUME NEW acc, NEW x
  PROVE  \/ RedactStep(acc, x) = acc
         \/ RedactStep(acc, x).out = Append(acc.out, x)
         \/ /\ RedactStep(acc, x).out = Append(acc.out, Gone) /\ RedactStep(acc, Gone) = RedactStep(acc, x)
<1>1. CASE acc.mode = "after" /\ x \notin Breaks
  <2>1. RedactStep(acc, x) = [mode |-> "in", out |-> Append(acc.out, Gone)]
    BY <1>1 DEF RedactStep
  <2>2. Gone \notin Breaks
    BY DEF Gone, Breaks
  <2>3. RedactStep(acc, Gone) = [mode |-> "in", out |-> Append(acc.out, Gone)]
    BY <1>1, <2>2 DEF RedactStep
  <2> QED
    BY <2>1, <2>3
<1>2. CASE acc.mode = "in" /\ x \notin Breaks
  BY <1>2 DEF RedactStep
<1>3. CASE ~(acc.mode = "after" /\ x \notin Breaks) /\ ~(acc.mode = "in" /\ x \notin Breaks)
  <2>1. CASE acc.mode = "scheme" /\ x = "space"
    BY <1>3, <2>1 DEF RedactStep
  <2>2. CASE ~(acc.mode = "scheme" /\ x = "space")
    BY <1>3, <2>2 DEF RedactStep
  <2> QED
    BY <2>1, <2>2
<1> QED
  BY <1>1, <1>2, <1>3

\* So one more token, read again, leaves the same.
LEMMA StepSettles ==
  ASSUME NEW T, Gone \in T, NEW acc, Settles(acc, T), NEW x \in T, NEW next, next = RedactStep(acc, x)
  PROVE  Settles(next, T)
<1>1. CASE next = acc
  BY <1>1
<1>2. ASSUME NEW y \in T, next.out = Append(acc.out, y), RedactStep(acc, y) = next PROVE Settles(next, T)
  <2>1. PICK o, k, u, m : o = acc.out /\ k = Len(o) /\ u = next.out /\ m = k + 1
    OBVIOUS
  <2>2. PICK h : Read(o, k, h) /\ h[k] = acc
    BY <2>1 DEF Settles
  <2>3. o \in Seq(T) /\ k \in Nat
    BY <2>1, LenProperties DEF Settles
  <2>4. u = Append(o, y)
    BY <1>2, <2>1
  <2>5. u \in Seq(T) /\ Len(u) = m /\ u[m] = y /\ SameStart(o, u, k)
    BY <2>1, <2>3, <2>4, AppendProperties DEF SameStart
  <2>6. PICK g : Read(u, m, g) /\ g[m] = RedactStep(h[k], u[m])
    BY <2>1, <2>2, <2>3, <2>5, ReadOn
  <2>7. g[m] = next
    BY <1>2, <2>2, <2>5, <2>6
  <2> QED
    BY <2>1, <2>5, <2>6, <2>7 DEF Settles
<1> QED
  BY <1>1, <1>2, StepShape

\* redact_after_auth_scheme, applied twice, is applied once.
LEMMA RedactTextTwice ==
  ASSUME NEW T, NEW t \in Seq(T)
  PROVE  RedactText(RedactText(t)) = RedactText(t)
<1>1. PICK n, U : n = Len(t) /\ U = T \cup {Gone}
  OBVIOUS
<1>2. n \in Nat /\ Gone \in U /\ \A i \in 1 .. n : t[i] \in U
  BY <1>1, LenProperties, ElementOfSeq
<1>3. PICK f : Read(t, n, f)
  BY <1>2, ReadExists
<1>4. f[0] = Fresh /\ \A i \in 1 .. n : f[i] = RedactStep(f[i - 1], t[i])
  BY <1>2, <1>3, ReadMeans
<1>5. PICK S : S = {k \in Nat : Settles(f[k], U)}
  OBVIOUS
<1>6. 0 \in S
  <2>1. Fresh.out = <<>> /\ <<>> \in Seq(U) /\ Len(<<>>) = 0
    BY EmptySeq DEF Fresh
  <2>2. \E h : Read(Fresh.out, 0, h) /\ h[0] = Fresh
    BY ReadStarts
  <2>3. Settles(Fresh, U)
    BY <2>1, <2>2 DEF Settles
  <2> QED
    BY <1>4, <1>5, <2>3
<1>7. ASSUME NEW k \in 0 .. n - 1, k \in S PROVE k + 1 \in S
  <2>1. k + 1 \in 1 .. n /\ (k + 1) - 1 = k /\ k + 1 \in Nat
    BY <1>2
  <2>2. f[k + 1] = RedactStep(f[k], t[k + 1]) /\ t[k + 1] \in U /\ Settles(f[k], U)
    BY <1>2, <1>4, <1>5, <1>7, <2>1
  <2>3. PICK acc, x, next : acc = f[k] /\ x = t[k + 1] /\ next = f[k + 1]
    OBVIOUS
  <2>4. Settles(next, U)
    BY <1>2, <2>2, <2>3, StepSettles
  <2> QED
    BY <1>5, <2>1, <2>3, <2>4
<1>8. n \in S
  <2>1. n \in Nat
    BY <1>2
  <2>2. \A i \in 0 .. n : i \in S
    BY <1>6, <1>7, <2>1, Upwards
  <2> QED
    BY <2>1, <2>2
<1>9. PICK acc, o, m : acc = f[n] /\ o = acc.out /\ m = Len(o)
  OBVIOUS
<1>10. RedactText(t) = o
  BY <1>1, <1>2, <1>3, <1>9, RedactTextReads
<1>11. PICK h : Read(o, m, h) /\ h[m] = acc
  BY <1>5, <1>8, <1>9 DEF Settles
<1>12. m \in Nat
  BY <1>5, <1>8, <1>9, LenProperties DEF Settles
<1>13. RedactText(o) = h[m].out
  BY <1>9, <1>11, <1>12, RedactTextReads
<1> QED
  BY <1>9, <1>10, <1>11, <1>13

\* f[i] is what the first i of n keys of a path say.
KeyStep(path, i) == [key |-> path[i], last |-> i = Len(path)]
Traced(path, n, f) == f = [i \in 0 .. n |-> IF i = 0 THEN "plain" ELSE Walk(f[i - 1], KeyStep(path, i))]

\* The first key, and each after it.
LEMMA TracedMeans ==
  ASSUME NEW path, NEW n \in Nat, NEW f, Traced(path, n, f)
  PROVE  f[0] = "plain" /\ \A i \in 1 .. n : f[i] = Walk(f[i - 1], KeyStep(path, i))
BY DEF Traced

\* Every path can be traced.
LEMMA TracedOn ==
  ASSUME NEW path, NEW n \in Nat, NEW f, Traced(path, n, f), NEW m, m = n + 1
  PROVE  \E g : Traced(path, m, g)
<1>1. PICK g : g = [i \in 0 .. m |-> IF i = m THEN Walk(f[n], KeyStep(path, m)) ELSE f[i]]
  OBVIOUS
<1>2. f[0] = "plain" /\ \A i \in 1 .. n : f[i] = Walk(f[i - 1], KeyStep(path, i))
  BY TracedMeans
<1>3. \A i \in 0 .. n : g[i] = f[i]
  BY <1>1
<1>4. g[m] = Walk(f[n], KeyStep(path, m))
  BY <1>1
<1>5. ASSUME NEW i \in 0 .. m PROVE g[i] = IF i = 0 THEN "plain" ELSE Walk(g[i - 1], KeyStep(path, i))
  <2>1. CASE i = 0
    BY <1>2, <1>3, <2>1
  <2>2. CASE i \in 1 .. n
    <3>1. g[i] = f[i] /\ g[i - 1] = f[i - 1] /\ f[i] = Walk(f[i - 1], KeyStep(path, i))
      BY <1>2, <1>3, <2>2
    <3> QED
      BY <2>2, <3>1
  <2>3. CASE i = m
    <3>1. g[i - 1] = f[n] /\ i # 0
      BY <1>3, <2>3
    <3> QED
      BY <1>4, <2>3, <3>1
  <2> QED
    BY <2>1, <2>2, <2>3
<1>6. g = [i \in 0 .. m |-> IF i = 0 THEN "plain" ELSE Walk(g[i - 1], KeyStep(path, i))]
  BY <1>1, <1>5
<1> QED
  BY <1>6 DEF Traced

\* All the way down.
LEMMA TracedExists ==
  ASSUME NEW path, NEW n \in Nat
  PROVE  \E f : Traced(path, n, f)
<1>1. PICK S : S = {k \in Nat : \E f : Traced(path, k, f)}
  OBVIOUS
<1>2. 0 \in S
  <2>1. PICK f : f = [i \in 0 .. 0 |-> "plain"]
    OBVIOUS
  <2>2. f = [i \in 0 .. 0 |-> IF i = 0 THEN "plain" ELSE Walk(f[i - 1], KeyStep(path, i))]
    BY <2>1
  <2> QED
    BY <1>1, <2>2 DEF Traced
<1>3. ASSUME NEW k \in 0 .. n - 1, k \in S PROVE k + 1 \in S
  <2>1. PICK f, m : Traced(path, k, f) /\ m = k + 1
    BY <1>1, <1>3
  <2>2. \E g : Traced(path, m, g)
    BY <2>1, TracedOn
  <2> QED
    BY <1>1, <2>1, <2>2
<1>4. n \in S
  BY <1>2, <1>3, Upwards
<1> QED
  BY <1>1, <1>4

\* Reached is what the whole path says.
LEMMA ReachedTraces ==
  ASSUME NEW path, NEW n \in Nat, n = Len(path)
  PROVE  \E f : Traced(path, n, f) /\ Reached(path) = f[n]
<1>1. PICK g : g = CHOOSE h : Traced(path, n, h)
  OBVIOUS
<1>2. Traced(path, n, g)
  BY <1>1, TracedExists
<1>3. Reached(path) = g[Len(path)]
  BY <1>1, Zenon DEF Reached, Traced, KeyStep
<1> QED
  BY <1>2, <1>3

\* Below a secret key nothing is plain.
LEMMA SecretIsReached ==
  ASSUME NEW K, NEW path \in Seq(K), NEW i \in DOMAIN path, path[i] = "secret"
  PROVE  Reached(path) \in {"redacted", "header"}
<1>1. PICK n : n = Len(path) /\ n \in Nat /\ i \in 1 .. n
  BY LenProperties
<1>2. PICK f : Traced(path, n, f) /\ Reached(path) = f[n]
  BY <1>1, ReachedTraces
<1>3. \A k \in 1 .. n : f[k] = Walk(f[k - 1], KeyStep(path, k))
  BY <1>1, <1>2, TracedMeans
<1>4. PICK S : S = {k \in Nat : k >= i => f[k] = "redacted" \/ (k = n /\ f[k] = "header")}
  OBVIOUS
<1>5. 0 \in S
  BY <1>1, <1>4
<1>6. ASSUME NEW k \in 0 .. n - 1, k \in S PROVE k + 1 \in S
  <2>1. PICK m, st, s : m = k + 1 /\ st = KeyStep(path, m) /\ s = f[k]
    OBVIOUS
  <2>2. m \in 1 .. n /\ m - 1 = k /\ m \in Nat
    BY <1>1, <2>1
  <2>3. f[m] = Walk(s, st)
    BY <1>3, <2>1, <2>2
  <2>4. st.key = path[m] /\ (st.last <=> m = n)
    BY <1>1, <2>1 DEF KeyStep
  <2>5. CASE m < i
    BY <1>1, <1>4, <2>1, <2>2, <2>5
  <2>6. CASE m = i
    <3>1. st.key = "secret"
      BY <2>4, <2>6
    <3>2. f[m] = "redacted" \/ (st.last /\ f[m] = "header")
      BY <2>3, <3>1 DEF Walk
    <3> QED
      BY <1>4, <2>1, <2>2, <2>4, <3>2
  <2>7. CASE m > i
    <3>1. s = "redacted"
      BY <1>1, <1>4, <1>6, <2>1, <2>2, <2>7
    <3>2. f[m] = "redacted"
      BY <2>3, <3>1 DEF Walk
    <3> QED
      BY <1>4, <2>1, <2>2, <3>2
  <2> QED
    BY <1>1, <2>2, <2>5, <2>6, <2>7
<1>7. n \in S
  <2>1. n \in Nat
    BY <1>1
  <2>2. \A k \in 0 .. n : k \in S
    BY <1>5, <1>6, <2>1, Upwards
  <2> QED
    BY <2>1, <2>2
<1> QED
  BY <1>1, <1>2, <1>4, <1>7

\* redact_header_value leaves at most the scheme, and again the same.
LEMMA HeadersOk ==
  ASSUME NEW text
  PROVE  /\ "secret" \notin ToSet(RedactHeader(text))
         /\ RedactHeader(RedactHeader(text)) = RedactHeader(text)
<1>1. RedactHeader(text) = <<"Bearer", "space", Gone>> \/ RedactHeader(text) = <<Gone>>
  BY DEF RedactHeader
<1>2. "secret" \notin ToSet(<<"Bearer", "space", Gone>>) /\ "secret" \notin ToSet(<<Gone>>)
  BY DEF ToSet, Gone
<1>3. RedactHeader(<<"Bearer", "space", Gone>>) = <<"Bearer", "space", Gone>> /\ RedactHeader(<<Gone>>) = <<Gone>>
  BY DEF RedactHeader
<1> QED
  BY <1>1, <1>2, <1>3

\* No secret is shown below a secret key, and showing twice is showing once.
LEMMA RedactionOk ==
  ASSUME NEW K, NEW path \in Seq(K), NEW T, NEW text \in Seq(T)
  PROVE  /\ (\E i \in DOMAIN path : path[i] = "secret") => "secret" \notin ToSet(Redacted(path, text))
         /\ Redacted(path, Redacted(path, text)) = Redacted(path, text)
<1>1. PICK s : s = Reached(path)
  OBVIOUS
<1>2. (\E i \in DOMAIN path : path[i] = "secret") => s \in {"redacted", "header"}
  BY <1>1, SecretIsReached
<1>3. CASE s = "redacted"
  <2>1. \A x : Redacted(path, x) = <<Gone>>
    BY <1>1, <1>3 DEF Redacted
  <2>2. "secret" \notin ToSet(<<Gone>>)
    BY DEF ToSet, Gone
  <2> QED
    BY <2>1, <2>2
<1>4. CASE s = "header"
  <2>1. \A x : Redacted(path, x) = RedactHeader(x)
    BY <1>1, <1>4 DEF Redacted
  <2> QED
    BY <2>1, HeadersOk
<1>5. CASE s \notin {"redacted", "header"}
  <2>1. \A x : Redacted(path, x) = RedactText(x)
    BY <1>1, <1>5 DEF Redacted
  <2>2. RedactText(RedactText(text)) = RedactText(text)
    BY RedactTextTwice
  <2> QED
    BY <1>2, <1>5, <2>1, <2>2
<1> QED
  BY <1>3, <1>4, <1>5

----------------------------------------------------------------------------
(* Configuration: discovery.                                               *)

\* A file of the repository: nearest directory, missive.toml first.
RepositoryFile(ancestors, r) ==
  /\ r[1] = "repository" /\ r[2] \in {i \in DOMAIN ancestors : InRepository(ancestors, i)}
  /\ (r[3] = "missive.toml") = ("missive.toml" \in ancestors[r[2]].files)

\* The nearest directory of the repository with a file of its own.
LEMMA RepositoryOk ==
  ASSUME NEW D, NEW ancestors \in Seq(D)
  PROVE  LET r == FindRepositoryConfig(ancestors)
             inside == {i \in DOMAIN ancestors : InRepository(ancestors, i)}
         IN IF r = <<>> THEN inside = {} ELSE RepositoryFile(ancestors, r)
<1>1. PICK r, inside, stops, at :
        /\ r = FindRepositoryConfig(ancestors) /\ inside = {i \in DOMAIN ancestors : InRepository(ancestors, i)}
        /\ stops = {i \in DOMAIN ancestors : ancestors[i].files # {} \/ ancestors[i].git} /\ at = Min(stops)
  OBVIOUS
<1>2. DOMAIN ancestors \subseteq Nat /\ \A i \in DOMAIN ancestors : i \in 1 .. Len(ancestors)
  BY LenProperties
<1>3. stops \subseteq Nat
  BY <1>1, <1>2
<1>4. CASE stops = {}
  <2>1. r = <<>>
    BY <1>1, <1>4 DEF FindRepositoryConfig
  <2>2. inside = {}
    BY <1>1, <1>4 DEF InRepository
  <2> QED
    BY <1>1, <2>1, <2>2
<1>5. CASE stops # {}
  <2>1. at \in stops /\ \A i \in stops : at <= i
    BY <1>1, <1>3, <1>5, MinOk
  <2>2. CASE ancestors[at].files = {}
    <3>1. r = <<>>
      BY <1>1, <2>2 DEF FindRepositoryConfig
    <3>2. ASSUME NEW i \in inside PROVE FALSE
      <4>1. /\ i \in DOMAIN ancestors /\ ancestors[i].files # {}
            /\ \A j \in 1 .. i - 1 : ancestors[j].files = {} /\ ~ancestors[j].git
        BY <1>1, <3>2 DEF InRepository
      <4>2. at <= i /\ at # i /\ ancestors[at].git
        BY <1>1, <2>1, <2>2, <4>1
      <4>3. at \in 1 .. i - 1
        BY <1>1, <1>2, <2>1, <4>1, <4>2
      <4> QED
        BY <4>1, <4>2, <4>3
    <3> QED
      BY <1>1, <3>1, <3>2
  <2>3. CASE ancestors[at].files # {}
    <3>1. PICK name : /\ r = <<"repository", at, name>>
                      /\ name = IF "missive.toml" \in ancestors[at].files THEN "missive.toml" ELSE ".missive.toml"
      BY <1>1, <1>5, <2>3, Zenon DEF FindRepositoryConfig
    <3>2. r # <<>> /\ r[1] = "repository" /\ r[2] = at /\ r[3] = name
      BY <3>1
    <3>5. (r[3] = "missive.toml") = ("missive.toml" \in ancestors[r[2]].files)
      BY <3>1, <3>2
    <3>3. ASSUME NEW j \in 1 .. at - 1 PROVE ancestors[j].files = {} /\ ~ancestors[j].git
      <4>1. j \in DOMAIN ancestors /\ j < at
        <5>1. at \in 1 .. Len(ancestors) /\ Len(ancestors) \in Nat /\ DOMAIN ancestors = 1 .. Len(ancestors)
          BY <1>1, <2>1, LenProperties
        <5> QED
          BY <5>1
      <4>2. j \notin stops
        BY <1>3, <2>1, <4>1
      <4> QED
        BY <1>1, <4>1, <4>2
    <3>4. InRepository(ancestors, at)
      BY <2>3, <3>3 DEF InRepository
    <3> QED
      BY <1>1, <2>1, <3>2, <3>4, <3>5 DEF RepositoryFile
  <2> QED
    BY <2>2, <2>3
<1> QED
  BY <1>4, <1>5

\* Where the XDG files are looked for.
Looked(s) == (IF s.xdgDirs = "unset" THEN {"etc"} ELSE {})
             \cup (IF s.xdgDirs = "set" THEN {"dir1", "dir2"} ELSE {})
             \cup (IF s.xdgHome = "set" THEN {"xdg_home"} ELSE IF s.home = "set" THEN {"home"} ELSE {})

Lists(c, a, b) == DOMAIN c \subseteq Nat /\ ToSet(c) = ToSet(a) \cup ToSet(b)

\* A list after a list has what both have.
LEMMA JoinedLists ==
  ASSUME NEW S, NEW a \in Seq(S), NEW b \in Seq(S)
  PROVE  Lists(a \o b, a, b)
<1>1. PICK m, n, c : m = Len(a) /\ n = Len(b) /\ c = a \o b
  OBVIOUS
<1>2. m \in Nat /\ n \in Nat /\ DOMAIN a = 1 .. m /\ DOMAIN b = 1 .. n
  BY <1>1, LenProperties
<1>3. c \in Seq(S) /\ Len(c) = m + n /\ \A i \in 1 .. m + n : c[i] = IF i <= m THEN a[i] ELSE b[i - m]
  BY <1>1, ConcatProperties
<1>4. DOMAIN c = 1 .. m + n
  BY <1>3, LenProperties
<1>5. ASSUME NEW x \in ToSet(c) PROVE x \in ToSet(a) \cup ToSet(b)
  <2>1. PICK i \in 1 .. m + n : x = c[i]
    BY <1>4, <1>5 DEF ToSet
  <2>2. CASE i <= m
    <3>1. i \in 1 .. m /\ x = a[i]
      BY <1>2, <1>3, <2>1, <2>2
    <3> QED
      BY <1>2, <3>1 DEF ToSet
  <2>3. CASE ~(i <= m)
    <3>1. i - m \in 1 .. n /\ x = b[i - m]
      BY <1>2, <1>3, <2>1, <2>3
    <3> QED
      BY <1>2, <3>1 DEF ToSet
  <2> QED
    BY <2>2, <2>3
<1>6. ASSUME NEW i \in 1 .. m PROVE a[i] \in ToSet(c)
  <2>1. i \in 1 .. m + n /\ c[i] = a[i]
    BY <1>2, <1>3
  <2> QED
    BY <1>4, <2>1 DEF ToSet
<1>7. ASSUME NEW i \in 1 .. n PROVE b[i] \in ToSet(c)
  <2>1. PICK k : k = i + m
    OBVIOUS
  <2>2. k \in 1 .. m + n /\ ~(k <= m) /\ k - m = i
    BY <1>2, <2>1
  <2>3. c[k] = b[i]
    BY <1>3, <2>2
  <2> QED
    BY <1>4, <2>2, <2>3 DEF ToSet
<1>8. ToSet(a) = {a[i] : i \in 1 .. m} /\ ToSet(b) = {b[i] : i \in 1 .. n}
  BY <1>2 DEF ToSet
<1> QED
  BY <1>1, <1>2, <1>4, <1>5, <1>6, <1>7, <1>8 DEF Lists

\* xdg_config_candidates looks in these roots.
LEMMA RootsOk ==
  ASSUME NEW s, s.xdgDirs \in {"unset", "empty", "set"}
  PROVE  DOMAIN XdgRoots(s) \subseteq Nat /\ ToSet(XdgRoots(s)) = Looked(s)
<1>1. PICK a, b, c :
        /\ a = (IF s.xdgHome = "set" THEN <<"xdg_home">> ELSE IF s.home = "set" THEN <<"home">> ELSE <<>>)
        /\ b = (IF s.xdgDirs = "unset" THEN <<"etc">> ELSE IF s.xdgDirs = "empty" THEN <<>> ELSE <<"dir1", "dir2">>)
        /\ c = a \o b
  OBVIOUS
<1>2. XdgRoots(s) = c
  BY <1>1, Zenon DEF XdgRoots
<1>3. DOMAIN c \subseteq Nat /\ ToSet(c) = ToSet(a) \cup ToSet(b)
  <2>1. PICK S : S = {"xdg_home", "home", "etc", "dir1", "dir2"}
    OBVIOUS
  <2>2. <<>> \in Seq(S) /\ (\A x \in S : <<x>> \in Seq(S)) /\ \A x, y \in S : <<x, y>> \in Seq(S)
    BY EmptySeq
  <2>3. a \in {<<>>, <<"xdg_home">>, <<"home">>} /\ b \in {<<>>, <<"etc">>, <<"dir1", "dir2">>} /\ c = a \o b
    BY <1>1, Zenon
  <2>4. \A x \in {"xdg_home", "home", "etc", "dir1", "dir2"} : x \in S
    BY <2>1
  <2>5. a \in Seq(S) /\ b \in Seq(S)
    BY <2>2, <2>3, <2>4
  <2>6. c = a \o b
    BY <1>1
  <2>7. Lists(a \o b, a, b)
    BY <2>5, JoinedLists
  <2> QED
    BY <2>6, <2>7 DEF Lists
<1>4. ToSet(a) = (IF s.xdgHome = "set" THEN {"xdg_home"} ELSE IF s.home = "set" THEN {"home"} ELSE {})
  BY <1>1 DEF ToSet
<1>5. ToSet(b) = (IF s.xdgDirs = "unset" THEN {"etc"} ELSE {}) \cup (IF s.xdgDirs = "set" THEN {"dir1", "dir2"} ELSE {})
  BY <1>1 DEF ToSet
<1> QED
  BY <1>2, <1>3, <1>4, <1>5 DEF Looked

\* The user's root, if any, has the first turn, then the system's in order.
LEMMA RootsInTurn ==
  ASSUME NEW s, s.xdgDirs \in {"unset", "empty", "set"}, NEW i \in DOMAIN XdgRoots(s), NEW j \in DOMAIN XdgRoots(s), i < j
  PROVE  Turn(XdgRoots(s)[i]) < Turn(XdgRoots(s)[j])
<1>1. PICK a, b, c, m, n :
        /\ a = (IF s.xdgHome = "set" THEN <<"xdg_home">> ELSE IF s.home = "set" THEN <<"home">> ELSE <<>>)
        /\ b = (IF s.xdgDirs = "unset" THEN <<"etc">> ELSE IF s.xdgDirs = "empty" THEN <<>> ELSE <<"dir1", "dir2">>)
        /\ c = a \o b /\ m = Len(a) /\ n = Len(b)
  OBVIOUS
<1>2. XdgRoots(s) = c
  BY <1>1, Zenon DEF XdgRoots
<1>3. a \in {<<>>, <<"xdg_home">>, <<"home">>} /\ b \in {<<>>, <<"etc">>, <<"dir1", "dir2">>}
  BY <1>1, Zenon
<1>4. PICK S : S = {"xdg_home", "home", "etc", "dir1", "dir2"}
  OBVIOUS
<1>5. a \in Seq(S) /\ b \in Seq(S)
  <2>1. <<>> \in Seq(S) /\ (\A x \in S : <<x>> \in Seq(S)) /\ \A x, y \in S : <<x, y>> \in Seq(S)
    BY EmptySeq
  <2>2. \A x \in {"xdg_home", "home", "etc", "dir1", "dir2"} : x \in S
    BY <1>4
  <2> QED
    BY <1>3, <2>1, <2>2
<1>6. m \in 0 .. 1 /\ \A k \in 1 .. m : Turn(a[k]) = 1
  BY <1>1, <1>3 DEF Turn
<1>7. n \in 0 .. 2 /\ \A k \in 1 .. n : Turn(b[k]) = k + 1
  BY <1>1, <1>3 DEF Turn
<1>8. c \in Seq(S) /\ Len(c) = m + n /\ \A k \in 1 .. m + n : c[k] = IF k <= m THEN a[k] ELSE b[k - m]
  BY <1>1, <1>5, ConcatProperties
<1>9. DOMAIN c = 1 .. m + n
  BY <1>8, LenProperties
<1>10. i \in 1 .. m + n /\ j \in 1 .. m + n /\ ~ (j <= m)
  BY <1>2, <1>6, <1>7, <1>9
<1>11. Turn(c[j]) = j - m + 1
  <2>1. j - m \in 1 .. n /\ c[j] = b[j - m]
    BY <1>6, <1>7, <1>8, <1>10
  <2> QED
    BY <1>7, <2>1
<1>12. CASE i <= m
  <2>1. i \in 1 .. m /\ c[i] = a[i]
    BY <1>6, <1>7, <1>8, <1>10, <1>12
  <2>2. Turn(c[i]) = 1
    BY <1>6, <2>1
  <2> QED
    BY <1>2, <1>6, <1>7, <1>10, <1>11, <2>2
<1>13. CASE ~ (i <= m)
  <2>1. i - m \in 1 .. n /\ c[i] = b[i - m]
    BY <1>6, <1>7, <1>8, <1>10, <1>13
  <2>2. Turn(c[i]) = i - m + 1
    BY <1>7, <2>1
  <2> QED
    BY <1>2, <1>6, <1>7, <1>10, <1>11, <2>2
<1> QED
  BY <1>12, <1>13

\* A file of the first root that holds one, config.toml first.
XdgFile(s, r) ==
  /\ r[1] = "xdg" /\ r[2] \in Looked(s) /\ <<r[2], r[3]>> \in s.present
  /\ r[3] = "missive.toml" => <<r[2], "config.toml">> \notin s.present
  /\ \A p \in s.present : p[1] \in Looked(s) => Turn(r[2]) <= Turn(p[1])

\* find_xdg_config finds the first file there is.
LEMMA XdgOk ==
  ASSUME NEW s, s.xdgDirs \in {"unset", "empty", "set"}, \A p \in s.present : p = <<p[1], p[2]>> /\ p[2] \in XdgFiles
  PROVE  LET r == FindXdgConfig(s)
         IN IF r = <<>> THEN \A p \in s.present : p[1] \notin Looked(s) ELSE XdgFile(s, r)
<1>1. PICK roots, holding, at, r :
        /\ roots = XdgRoots(s) /\ at = Min(holding) /\ r = FindXdgConfig(s)
        /\ holding = {i \in DOMAIN roots : \E file \in XdgFiles : <<roots[i], file>> \in s.present}
  OBVIOUS
<1>2. DOMAIN roots \subseteq Nat /\ ToSet(roots) = Looked(s)
  BY <1>1, RootsOk
<1>3. CASE holding = {}
  <2>1. r = <<>>
    BY <1>1, <1>3 DEF FindXdgConfig
  <2>2. ASSUME NEW p \in s.present, p[1] \in Looked(s) PROVE FALSE
    <3>1. PICK i \in DOMAIN roots : roots[i] = p[1]
      BY <1>2, <2>2 DEF ToSet
    <3>2. <<roots[i], p[2]>> \in s.present /\ p[2] \in XdgFiles
      BY <2>2, <3>1
    <3> QED
      BY <1>1, <1>3, <3>2
  <2> QED
    BY <1>1, <2>1, <2>2
<1>4. CASE holding # {}
  <2>1. holding \subseteq Nat
    BY <1>1, <1>2
  <2>2. at \in holding /\ \A i \in holding : at <= i
    BY <1>1, <1>4, <2>1, MinOk
  <2>3. PICK root, name : /\ r = <<"xdg", root, name>> /\ root = roots[at]
                          /\ name = IF <<root, "config.toml">> \in s.present THEN "config.toml" ELSE "missive.toml"
    BY <1>1, <1>4, Zenon DEF FindXdgConfig
  <2>4. r # <<>> /\ r[1] = "xdg" /\ r[2] = root /\ r[3] = name
    BY <2>3
  <2>5. at \in DOMAIN roots /\ root \in Looked(s)
    BY <1>1, <1>2, <2>2, <2>3 DEF ToSet
  <2>6. PICK file \in XdgFiles : <<root, file>> \in s.present
    BY <1>1, <2>2, <2>3
  <2>7. <<root, name>> \in s.present /\ (name = "missive.toml" => <<root, "config.toml">> \notin s.present)
    BY <2>3, <2>6 DEF XdgFiles
  <2>8. ASSUME NEW p \in s.present, p[1] \in Looked(s) PROVE Turn(root) <= Turn(p[1])
    <3>1. PICK i \in DOMAIN roots : roots[i] = p[1]
      BY <1>2, <2>8 DEF ToSet
    <3>2. <<roots[i], p[2]>> \in s.present /\ p[2] \in XdgFiles
      BY <2>8, <3>1
    <3>3. i \in holding /\ i \in Nat /\ at \in Nat
      BY <1>1, <1>2, <2>1, <2>2, <3>1, <3>2
    <3>4. CASE i = at
      <4>1. Turn(root) \in Nat
        BY DEF Turn
      <4> QED
        BY <2>3, <3>1, <3>4, <4>1
    <3>5. CASE i # at
      <4>1. at < i
        BY <2>2, <3>3, <3>5
      <4>2. Turn(roots[at]) < Turn(roots[i])
        BY <1>1, <2>5, <3>1, <4>1, RootsInTurn
      <4>3. Turn(root) \in Nat /\ Turn(p[1]) \in Nat
        BY DEF Turn
      <4> QED
        BY <2>3, <3>1, <4>2, <4>3
    <3> QED
      BY <3>4, <3>5
  <2> QED
    BY <1>1, <2>4, <2>5, <2>7, <2>8 DEF XdgFile
<1> QED
  BY <1>3, <1>4

----------------------------------------------------------------------------
(* Configuration: loading.                                                 *)

\* The directories of the repository, and whether its file is asked for.
RepositoryDirs(s) == {i \in DOMAIN s.ancestors : InRepository(s.ancestors, i)}
Asked(s) == s.repoFlag \/ s.repoEnv \in {"1", "on"}

\* The source a discovery names is the one the precedence gives.
Precedes(s, source) ==
  \/ source[1] = "explicit" /\ s.explicit # ""
  \/ source[1] = "environment" /\ s.explicit = "" /\ s.env = "path"
  \/ s.explicit = "" /\ s.env = "unset" /\ Asked(s) /\ RepositoryFile(s.ancestors, source)
  \/ s.explicit = "" /\ s.env = "unset" /\ ~(Asked(s) /\ RepositoryDirs(s) # {}) /\ XdgFile(s, source)
  \/ /\ source[1] = "built-in" /\ s.explicit = "" /\ s.env = "unset" /\ ~(Asked(s) /\ RepositoryDirs(s) # {})
     /\ \A p \in s.present : p[1] \notin Looked(s)

\* discover_path follows the precedence.
LEMMA DiscoveryOk ==
  ASSUME NEW s \in Surroundings, DiscoverPath(s) # <<"error">>
  PROVE  Precedes(s, DiscoverPath(s))
<1>1. PICK r, x, f : /\ r = DiscoverPath(s) /\ x = FindXdgConfig(s)
                     /\ f = IF RepositoryRequested(s) THEN FindRepositoryConfig(s.ancestors) ELSE <<>>
  OBVIOUS
<1>2. s.env \in {"unset", "empty", "path"} /\ s.xdgDirs \in {"unset", "empty", "set"}
  BY ConfigAssumption
<1>3. r = IF s.explicit # "" THEN <<"explicit">>
          ELSE IF s.env # "unset" THEN IF s.env = "empty" THEN <<"error">> ELSE <<"environment">>
          ELSE IF f # <<>> THEN f ELSE IF x # <<>> THEN x ELSE <<"built-in">>
  BY <1>1, Zenon DEF DiscoverPath
<1>4. RepositoryRequested(s) <=> Asked(s)
  BY DEF RepositoryRequested, Asked
<1>5. IF f = <<>> THEN ~(Asked(s) /\ RepositoryDirs(s) # {}) ELSE Asked(s) /\ RepositoryFile(s.ancestors, f)
  <2>1. CASE ~Asked(s)
    BY <1>1, <1>4, <2>1
  <2>2. CASE Asked(s)
    <3>1. PICK an, D : an = s.ancestors /\ D = Range(s.ancestors)
      OBVIOUS
    <3>2. an \in Seq(D)
      BY <3>1, ConfigAssumption
    <3>3. f = FindRepositoryConfig(an)
      BY <1>1, <1>4, <2>2, <3>1
    <3>4. RepositoryDirs(s) = {i \in DOMAIN an : InRepository(an, i)}
      BY <3>1 DEF RepositoryDirs
    <3>5. PICK in : in = {i \in DOMAIN an : InRepository(an, i)}
      OBVIOUS
    <3>6. IF f = <<>> THEN in = {} ELSE RepositoryFile(an, f)
      BY <3>2, <3>3, <3>5, RepositoryOk
    <3> QED
      BY <2>2, <3>1, <3>4, <3>5, <3>6
  <2> QED
    BY <2>1, <2>2
<1>6. IF x = <<>> THEN \A p \in s.present : p[1] \notin Looked(s) ELSE XdgFile(s, x)
  <2>1. \A p \in s.present : p = <<p[1], p[2]>> /\ p[2] \in XdgFiles
    BY ConfigAssumption DEF XdgFiles
  <2> QED
    BY <1>1, <1>2, <2>1, XdgOk
<1>7. <<"explicit">>[1] = "explicit" /\ <<"environment">>[1] = "environment" /\ <<"built-in">>[1] = "built-in"
  OBVIOUS
<1>8. CASE s.explicit # ""
  BY <1>1, <1>3, <1>7, <1>8 DEF Precedes
<1>9. CASE s.explicit = "" /\ s.env # "unset"
  BY <1>1, <1>2, <1>3, <1>7, <1>9 DEF Precedes
<1>10. CASE s.explicit = "" /\ s.env = "unset" /\ f # <<>>
  <2>1. r = f
    BY <1>3, <1>10
  <2> QED
    BY <1>1, <1>5, <1>10, <2>1 DEF Precedes
<1>11. CASE s.explicit = "" /\ s.env = "unset" /\ f = <<>> /\ x # <<>>
  <2>1. r = x
    BY <1>3, <1>11
  <2> QED
    BY <1>1, <1>5, <1>6, <1>11, <2>1 DEF Precedes
<1>12. CASE s.explicit = "" /\ s.env = "unset" /\ f = <<>> /\ x = <<>>
  <2>1. r = <<"built-in">>
    BY <1>3, <1>12
  <2> QED
    BY <1>1, <1>5, <1>6, <1>7, <1>12, <2>1 DEF Precedes
<1> QED
  BY <1>8, <1>9, <1>10, <1>11, <1>12

\* A configuration in use, and where it came from.
Usable(l) ==
  /\ l.ok = TRUE /\ ConfigValid(document) /\ Precedes(surroundings, l.source)
  /\ l.profile = SelectedProfile(document, selection) /\ l.profile \in DOMAIN document.profiles
ShownOk(r) ==
  /\ r.path \in Seq({"plain", "secret", "headers", "item"})
  /\ (\E i \in DOMAIN r.path : r.path[i] = "secret") => "secret" \notin ToSet(r.shown)
  /\ Redacted(r.path, r.shown) = r.shown

ConfigInv ==
  /\ surroundings \in Surroundings /\ document \in Documents /\ selection \in Selections
  /\ loaded = NoConfig \/ loaded.ok = FALSE \/ Usable(loaded)
  /\ rendering = NoConfig \/ ShownOk(rendering)

LEMMA ConfigStarts ==
  ConfigInit => ConfigInv
BY DEF ConfigInit, NothingLoaded, ConfigInv

LEMMA ConfigLoaded ==
  ASSUME ConfigInv, LoadConfig
  PROVE  ConfigInv'
<1>1. /\ surroundings' = surroundings /\ document' = document /\ selection' = selection /\ rendering' = rendering
  BY DEF LoadConfig
<1>2. PICK source, p : source = DiscoverPath(surroundings) /\ p = SelectedProfile(document, selection)
  OBVIOUS
<1>3. loaded' = IF source = <<"error">> THEN Failed("empty MISSIVE_CONFIG")
                ELSE IF ~document.parses THEN Failed("toml")
                ELSE IF ~ConfigValid(document) THEN Failed("invalid")
                ELSE IF p \notin DOMAIN document.profiles THEN Failed("profile")
                ELSE [ok |-> TRUE, source |-> source, profile |-> p]
  BY <1>2, Zenon DEF LoadConfig
<1>4. \A why : Failed(why).ok = FALSE
  BY DEF Failed
<1>5. loaded'.ok = FALSE \/ Usable(loaded')
  <2>1. CASE source = <<"error">> \/ ~document.parses \/ ~ConfigValid(document) \/ p \notin DOMAIN document.profiles
    <3>1. \E why : loaded' = Failed(why)
      BY <1>3, <2>1, Zenon
    <3> QED
      BY <1>4, <3>1
  <2>2. CASE ~(source = <<"error">> \/ ~document.parses \/ ~ConfigValid(document) \/ p \notin DOMAIN document.profiles)
    <3>1. loaded' = [ok |-> TRUE, source |-> source, profile |-> p]
      BY <1>3, <2>2, Zenon
    <3>2. loaded'.ok = TRUE /\ loaded'.source = source /\ loaded'.profile = p
      BY <3>1
    <3>3. Precedes(surroundings, source)
      BY <1>2, <2>2, DiscoveryOk DEF ConfigInv
    <3> QED
      BY <1>2, <2>2, <3>2, <3>3 DEF Usable
  <2> QED
    BY <2>1, <2>2
<1>6. loaded'.ok = FALSE \/ Usable(loaded)'
  BY <1>1, <1>5 DEF Usable
<1> QED
  BY <1>1, <1>6 DEF ConfigInv, ShownOk

LEMMA ConfigShown ==
  ASSUME ConfigInv, ShowConfig
  PROVE  ConfigInv'
<1>1. /\ surroundings' = surroundings /\ document' = document /\ selection' = selection /\ loaded' = loaded
  BY DEF ShowConfig
<1>2. PICK r \in Renderings : rendering' = [path |-> r.path, text |-> r.text, shown |-> Redacted(r.path, r.text)]
  BY DEF ShowConfig
<1>3. PICK path, text, K, T : path = r.path /\ text = r.text /\ K = {"plain", "secret", "headers", "item"} /\ T = Range(r.text)
  OBVIOUS
<1>4. path \in Seq(K) /\ text \in Seq(T)
  BY <1>3, ConfigAssumption
<1>5. /\ (\E i \in DOMAIN path : path[i] = "secret") => "secret" \notin ToSet(Redacted(path, text))
      /\ Redacted(path, Redacted(path, text)) = Redacted(path, text)
  BY <1>4, RedactionOk
<1>6. rendering'.path = path /\ rendering'.shown = Redacted(path, text)
  BY <1>2, <1>3
<1>7. ShownOk(rendering')
  BY <1>3, <1>4, <1>5, <1>6 DEF ShownOk
<1>8. ShownOk(rendering)'
  BY <1>7 DEF ShownOk
<1> QED
  BY <1>1, <1>8 DEF ConfigInv, Usable

LEMMA ConfigInductive ==
  ConfigInv /\ [ConfigNext]_configVars => ConfigInv'
<1> SUFFICES ASSUME ConfigInv, [ConfigNext]_configVars PROVE ConfigInv'
  OBVIOUS
<1>1. CASE LoadConfig
  BY <1>1, ConfigLoaded
<1>2. CASE ShowConfig
  BY <1>2, ConfigShown
<1>3. CASE UNCHANGED configVars
  BY <1>3 DEF configVars, ConfigInv, Usable, ShownOk
<1> QED
  BY <1>1, <1>2, <1>3 DEF ConfigNext

\* What validation accepted, the parts that read it can use.
LEMMA ValidSections ==
  ASSUME NEW d, ConfigValid(d), NEW p \in DOMAIN d.profiles, NEW s \in Sections
  PROVE  SectionOk(s, Effective(d, p, s))
<1>1. ProfileOk(d.profiles[p], d) /\ SectionOk(s, d.sections[s])
  BY DEF ConfigValid
<1>2. d.profiles[p].sections[s] # Unset => SectionOk(s, d.profiles[p].sections[s])
  BY <1>1 DEF ProfileOk
<1> QED
  BY <1>1, <1>2 DEF Effective

\* A section that passed validation has what its reader relies on.
LEMMA ValidServes ==
  ASSUME NEW s \in Sections, NEW value, SectionOk(s, value)
  PROVE  Serves(s, value)
<1>1. CASE s = "storage"
  BY <1>1 DEF SectionOk, Serves, StorageOk
<1>2. CASE s = "output"
  BY <1>2 DEF SectionOk, Serves, OutputOk
<1>3. CASE s = "protocol"
  <2>1. ProtocolOk(value)
    BY <1>3 DEF SectionOk
  <2>2. value.version.len > 0 /\ value.version.shape # "control"
    BY <2>1 DEF ProtocolOk, Version, RequiredText, OptionalText
  <2>3. \A x \in value.parameters : x.name # "a2a-version" /\ x.value.shape # "control"
    BY <2>1 DEF ProtocolOk, Reserved, ParameterValue, RequiredText, OptionalText
  <2>4. \A i, j \in DOMAIN value.extensions : value.extensions[i] = value.extensions[j] => i = j
    BY <2>1 DEF ProtocolOk
  <2> QED
    BY <1>3, <2>2, <2>3, <2>4 DEF Serves
<1>4. CASE s = "gateway"
  BY <1>4 DEF SectionOk, Serves, GatewayOk, HttpUrl
<1>5. CASE s = "routing"
  BY <1>5 DEF SectionOk, Serves, ParsePolicy, RoutePolicies
<1>6. CASE s = "qos"
  <2>1. QosOk(value)
    BY <1>6 DEF SectionOk
  <2>2. value.timeout.number > 0 /\ value.connect.number > 0 /\ value.concurrency > 0
    BY <2>1 DEF QosOk, DurationOk
  <2> QED
    BY <1>6, <2>2 DEF Serves
<1> QED
  BY <1>1, <1>2, <1>3, <1>4, <1>5, <1>6 DEF Sections

LEMMA ValidBusy ==
  ASSUME NEW d, ConfigValid(d), NEW p \in DOMAIN d.profiles, NEW source
  PROVE  BusyOk(BusyFor(d, p, source))
<1>1. CASE source \in DOMAIN d.adapters /\ d.adapters[source].busy # Unset
  <2>1. AdapterOk(d.adapters[source], d)
    BY <1>1 DEF ConfigValid
  <2>2. BusyOk(d.adapters[source].busy)
    BY <1>1, <2>1 DEF AdapterOk
  <2> QED
    BY <1>1, <2>2 DEF BusyFor
<1>2. CASE ~(source \in DOMAIN d.adapters /\ d.adapters[source].busy # Unset)
  <2>1. "gateway" \in Sections
    BY DEF Sections
  <2>2. SectionOk("gateway", Effective(d, p, "gateway"))
    BY <2>1, ValidSections
  <2>3. GatewayOk(Effective(d, p, "gateway"))
    BY <2>2 DEF SectionOk
  <2> QED
    BY <1>2, <2>3 DEF BusyFor, GatewayOk
<1> QED
  BY <1>1, <1>2

LEMMA ValidNames ==
  ASSUME NEW d, ConfigValid(d), NEW n \in DOMAIN d.agents
  PROVE  /\ NamedId(n) /\ \A t \in d.agents[n].tags : NamedId(t)
         /\ \A b \in DOMAIN d.agents[n].interfaces : TransportName(b)
<1>1. ConfigName(n) /\ AgentOk(d.agents[n], d)
  BY DEF ConfigValid
<1>2. NamedId(n) /\ \A t \in d.agents[n].tags : NamedId(t)
  BY <1>1 DEF AgentOk, ConfigName, NamedId, CONFIG_NAME_MAX, NAMED_IDENTIFIER_MAX_BYTES
<1>3. ASSUME NEW b \in DOMAIN d.agents[n].interfaces PROVE TransportName(b)
  <2>1. Binding(b)
    BY <1>1 DEF AgentOk
  <2> QED
    BY <2>1 DEF Binding, TransportName, TRANSPORT_NAME_MAX_BYTES
<1> QED
  BY <1>2, <1>3

LEMMA ConfigInvUsable ==
  ConfigInv => ConfigIsUsable
<1> SUFFICES ASSUME ConfigInv PROVE ConfigIsUsable
  OBVIOUS
<1>1. ASSUME InUse PROVE Usable(loaded)
  BY <1>1 DEF InUse, ConfigInv
<1>2. ASSUME Shown PROVE ShownOk(rendering)
  BY <1>2 DEF Shown, ConfigInv
<1>3. ConfigTypeOK
  <2>1. loaded = NoConfig \/ loaded.ok \in BOOLEAN
    BY DEF ConfigInv, Usable
  <2>2. ASSUME Shown PROVE ToSet(rendering.path) \subseteq {"plain", "secret", "headers", "item"}
    <3>1. PICK K, path : K = {"plain", "secret", "headers", "item"} /\ path = rendering.path
      OBVIOUS
    <3>2. path \in Seq(K)
      BY <1>2, <2>2, <3>1 DEF ShownOk
    <3>3. ToSet(path) \subseteq K
      BY <3>2, LenProperties, ElementOfSeq DEF ToSet
    <3> QED
      BY <3>1, <3>3
  <2> QED
    BY <2>1, <2>2, ConfigAssumption DEF ConfigTypeOK, ConfigInv, Shown
<1>4. SourceFollowsPrecedence
  <2> SUFFICES ASSUME InUse PROVE SourceFollowsPrecedence
    BY DEF SourceFollowsPrecedence
  <2>1. PICK s, o : s = surroundings /\ o = loaded.source
    OBVIOUS
  <2>2. Precedes(s, o)
    BY <1>1, <2>1 DEF Usable
  <2>3. CASE o[1] = "explicit"
    BY <2>1, <2>2, <2>3 DEF SourceFollowsPrecedence, Precedes, RepositoryFile, XdgFile
  <2>4. CASE o[1] = "environment"
    BY <2>1, <2>2, <2>4 DEF SourceFollowsPrecedence, Precedes, RepositoryFile, XdgFile
  <2>5. CASE o[1] = "repository"
    BY <2>1, <2>2, <2>5 DEF SourceFollowsPrecedence, Precedes, Asked, RepositoryFile, XdgFile
  <2>6. CASE o[1] = "xdg"
    BY <2>1, <2>2, <2>6 DEF SourceFollowsPrecedence, Precedes, Asked, RepositoryDirs, Looked, RepositoryFile, XdgFile
  <2>7. CASE o[1] = "built-in"
    BY <2>1, <2>2, <2>7 DEF SourceFollowsPrecedence, Precedes, Asked, RepositoryDirs, Looked, RepositoryFile, XdgFile
  <2> QED
    BY <2>2, <2>3, <2>4, <2>5, <2>6, <2>7 DEF Precedes, RepositoryFile, XdgFile
<1>5. LoadedConfigResolves
  <2> SUFFICES ASSUME InUse PROVE LoadedConfigResolves
    BY DEF LoadedConfigResolves
  <2>1. PICK d, p : d = document /\ p = loaded.profile
    OBVIOUS
  <2>2. ConfigValid(d) /\ p \in DOMAIN d.profiles
    BY <1>1, <2>1 DEF Usable
  <2>3. d.profiles[p].default_agent \in DOMAIN d.agents \cup {NoName}
    <3>1. ProfileOk(d.profiles[p], d)
      BY <2>2 DEF ConfigValid
    <3> QED
      BY <3>1 DEF ProfileOk
  <2>4. ASSUME NEW n \in DOMAIN d.agents PROVE d.agents[n].auth \in DOMAIN d.auth \cup {NoName}
    <3>1. AgentOk(d.agents[n], d)
      BY <2>2, <2>4 DEF ConfigValid
    <3> QED
      BY <3>1 DEF AgentOk
  <2>5. ASSUME NEW n \in DOMAIN d.adapters PROVE d.adapters[n].profile \in DOMAIN d.profiles \cup {NoName}
    <3>1. AdapterOk(d.adapters[n], d)
      BY <2>2, <2>5 DEF ConfigValid
    <3> QED
      BY <3>1 DEF AdapterOk
  <2>6. \A s \in Sections : Serves(s, Effective(d, p, s))
    BY <2>2, ValidSections, ValidServes
  <2> QED
    BY <2>1, <2>2, <2>3, <2>4, <2>5, <2>6 DEF LoadedConfigResolves
<1>6. BusyPolicyIsUsable
  <2>1. ASSUME InUse, NEW source PROVE BusyOk(BusyFor(document, loaded.profile, source))
    <3>1. PICK d, p : d = document /\ p = loaded.profile
      OBVIOUS
    <3>2. ConfigValid(d) /\ p \in DOMAIN d.profiles
      BY <1>1, <2>1, <3>1 DEF Usable
    <3> QED
      BY <3>1, <3>2, ValidBusy
  <2> QED
    BY <2>1 DEF BusyPolicyIsUsable, BusyOk
<1>7. ProfileIsTheOneAsked
  BY <1>1 DEF ProfileIsTheOneAsked, Usable, SelectedProfile
<1>8. NamesAreUsable
  <2>1. ASSUME InUse PROVE ConfigValid(document)
    BY <1>1, <2>1 DEF Usable
  <2> QED
    BY <2>1, ValidNames DEF NamesAreUsable
<1>9. SecretsStayHidden
  BY <1>2 DEF SecretsStayHidden, ShownOk
<1> QED
  BY <1>3, <1>4, <1>5, <1>6, <1>7, <1>8, <1>9 DEF ConfigIsUsable

\* A configuration that loads is the first the precedence names, with the
\* profile asked for; all that it refers to is there and each section in
\* effect has what its reader relies on, for any environment and any document.
\* Shown, it hides whatever lies below a secret key, for any path of keys and
\* any text, and showing it again changes nothing. A database path that loads
\* may still be refused by the path resolver.
THEOREM ConfigUsable == ConfigSpec => []ConfigIsUsable
<1>1. ConfigInit => ConfigInv
  BY ConfigStarts
<1>2. ConfigInv /\ [ConfigNext]_configVars => ConfigInv'
  BY ConfigInductive
<1>3. ConfigInv => ConfigIsUsable
  BY ConfigInvUsable
<1> QED
  BY <1>1, <1>2, <1>3, PTL DEF ConfigSpec
=============================================================================

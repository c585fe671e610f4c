--------------------------- MODULE GatewaySessions ---------------------------
(* What the gateway library offers the workers of an inbound source: the    *)
(* busy-input evaluator (busy.rs), which decides what becomes of an input   *)
(* that arrives while an operation is in flight, and the stored sessions    *)
(* with their reset policies (session.rs). The worker that executes the     *)
(* outcomes is not part of the repository; it is modelled from what the     *)
(* outcomes ask of it.                                                      *)
EXTENDS Integers, FiniteSets, Sequences, SequencesExt, FiniteSetsExt

CONSTANTS
  BusyPolicies,      \* validated [gateway.busy_input] sections
  Inputs,            \* 1..n, in the order of arrival
  SessionIds, SessionKeys,   \* ids, and (source, agent, resume name)
  NoSession, None,
  SECONDS_PER_HOUR, HOURS_PER_DAY,
  TICKS,             \* clock ticks in a second
  MAX_SECONDS,       \* i64::MAX
  Hours, Timeouts,   \* values offered for daily_reset_hour and idle_timeout_seconds
  Instants           \* clock readings, in ticks; their seconds fit an i64

Modes == {"queue", "interrupt", "steer"}

ASSUME SessionConstants ==
  /\ BusyPolicies \subseteq [mode : Modes, fallback : Modes \ {"steer"}, depth : Nat \ {0}, remote : BOOLEAN]
  /\ {SECONDS_PER_HOUR, HOURS_PER_DAY, TICKS, MAX_SECONDS} \subseteq Nat \ {0}
  /\ Hours \cup Timeouts \subseteq Nat /\ NoSession \notin SessionIds
  /\ Instants \subseteq Int /\ \A t \in Instants : t \div TICKS <= MAX_SECONDS

VARIABLES
  policy,      \* the effective busy-input policy of the source
  active,      \* the operation in flight
  queue,       \* queued_inputs
  arrived,     \* inputs offered so far
  started, steered, refused,    \* what became of them
  actions,     \* what the last outcome asked the worker to do
  now,         \* the session clock
  sessions,    \* gateway_sessions
  touched      \* when each session was really last used or reset

busyVars == <<policy, active, queue, arrived, started, steered, refused, actions>>
sessionVars == <<now, sessions, touched>>

----------------------------------------------------------------------------
(* Busy input. *)

Idle == [op |-> 0, state |-> "idle", wait |-> FALSE, subscription |-> FALSE, task |-> FALSE,
         context |-> FALSE, cancellable |-> FALSE, steerable |-> FALSE]

\* InFlightOperation::new: running, with nothing known of it yet.
Operation(input) == [Idle EXCEPT !.op = input, !.state = "running"]

BusyInit ==
  /\ policy \in BusyPolicies /\ active = Idle /\ queue = <<>> /\ arrived = 0
  /\ started = {} /\ steered = {} /\ refused = {} /\ actions = <<>>

\* Outcomes: what the evaluator returns. An error returns nothing, so what it
\* did to its copy of the state is lost.
Outcome(disposition, todo, op, q) == [disposition |-> disposition, actions |-> todo, active |-> op, queue |-> q]
Refusal == Outcome("refused", <<>>, active, queue)

\* push_queue; a full queue is an error of the whole evaluation.
PushQueue(input, disposition, todo, op) ==
  IF Len(queue) >= policy.depth THEN Refusal
  ELSE Outcome(disposition, Append(todo, "queue_input"), op, Append(queue, input))

\* The cancellations an interrupt asks for, in order.
Cancellations ==
     (IF active.wait THEN <<"cancel_local_wait">> ELSE <<>>)
  \o (IF active.subscription THEN <<"cancel_subscription">> ELSE <<>>)
  \o (IF policy.remote /\ active.cancellable /\ active.task THEN <<"cancel_remote">> ELSE <<>>)

\* Seeded fault of ApplyInterrupt: the operation is marked before the queue
\* is known to have room.
ApplyInterruptFirst(input, prefix) ==
  LET marked == [active EXCEPT !.state = "interrupting"]
      queued == PushQueue(input, "interrupt_queued", prefix, marked)
  IN [queued EXCEPT !.active = marked, !.actions = @ \o Cancellations]

ApplyInterrupt(input, prefix) ==
  PushQueue(input, "interrupt_queued", prefix \o <<"mark_interrupting">> \o Cancellations,
            [active EXCEPT !.state = "interrupting"])

ApplyQueue(input, prefix) == PushQueue(input, "queued", prefix, active)

\* steering_target: the operation accepts follow-ups and says where.
Steerable == active.steerable /\ (active.context \/ active.task)

\* apply_steer; the fallback is queue or interrupt (the configuration refuses
\* steer), so the evaluation does not recurse again.
ApplySteer(input) ==
  IF Steerable THEN Outcome("steered", <<"append_follow_up">>, active, queue)
  ELSE IF policy.fallback = "queue" THEN ApplyQueue(input, <<"unsupported_steer">>)
  ELSE ApplyInterrupt(input, <<"unsupported_steer">>)

\* apply_busy_input. Without an operation in flight the input starts, queued
\* inputs or not.
Evaluation(input) ==
  IF active = Idle THEN Outcome("start_now", <<"start_input">>, active, queue)
  ELSE CASE policy.mode = "queue"     -> ApplyQueue(input, <<>>)
         [] policy.mode = "interrupt" -> ApplyInterrupt(input, <<>>)
         [] policy.mode = "steer"     -> ApplySteer(input)

\* An input arrives and the worker adopts the outcome.
Arrive ==
  LET input == arrived + 1
      out   == Evaluation(input)
      into(d, set) == IF out.disposition = d THEN set \cup {input} ELSE set
  IN /\ input \in Inputs
     /\ arrived' = input
     /\ active' = IF out.disposition = "start_now" THEN Operation(input) ELSE out.active
     /\ queue' = out.queue /\ actions' = out.actions
     /\ started' = into("start_now", started)
     /\ steered' = into("steered", steered)
     /\ refused' = into("refused", refused)
     /\ UNCHANGED policy

\* The operation in flight learns more about itself.
Progress ==
  /\ active # Idle
  /\ \E w, s, t, c, k, f \in BOOLEAN :
       active' = [active EXCEPT !.wait = w, !.subscription = s, !.task = t,
                                !.context = c, !.cancellable = k, !.steerable = f]
  /\ active' # active
  /\ UNCHANGED <<policy, queue, arrived, started, steered, refused, actions>>

\* It ends, by itself or because it was cancelled.
Settle ==
  /\ active # Idle /\ active' = Idle
  /\ UNCHANGED <<policy, queue, arrived, started, steered, refused, actions>>

\* The worker starts the next queued input.
TakeNext ==
  /\ active = Idle /\ queue # <<>>
  /\ active' = Operation(Head(queue)) /\ queue' = Tail(queue) /\ started' = started \cup {Head(queue)}
  /\ UNCHANGED <<policy, arrived, steered, refused, actions>>

BusyNext == Arrive \/ Progress \/ Settle \/ TakeNext

----------------------------------------------------------------------------
(* Sessions. *)

SessionInit ==
  /\ now \in Instants
  /\ sessions = [i \in SessionIds |-> NoSession]
  /\ touched = [i \in SessionIds |-> 0]

\* unix_timestamp, and to_rfc3339 with seconds only: what reaches the store.
Seconds(t) == t \div TICKS

SECONDS_PER_DAY == HOURS_PER_DAY * SECONDS_PER_HOUR
Saturated(n) == IF n > MAX_SECONDS THEN MAX_SECONDS ELSE n

ResetModes == {"none", "daily", "idle", "both"}

\* validate_gateway_session_reset_policy, and the timeout fits an i64.
ValidResetPolicy(mode, hour, timeout) ==
  /\ hour < HOURS_PER_DAY
  /\ IF mode \in {"idle", "both"} THEN timeout \notin {None, 0} /\ timeout <= MAX_SECONDS ELSE timeout = None

\* upsert_gateway_session: the id is the key of the row, and no two rows have
\* one source, agent and resume name.
UpsertSession(i, row) ==
  /\ ValidResetPolicy(row.mode, row.hour, row.timeout)
  /\ \A j \in SessionIds \ {i} : sessions[j] # NoSession => sessions[j].key # row.key
  /\ sessions' = [sessions EXCEPT ![i] = row]

CreateSession(i, key, mode, hour, timeout) ==
  /\ sessions[i] = NoSession
  /\ UpsertSession(i, [key |-> key, mode |-> mode, hour |-> hour, timeout |-> timeout,
                       active |-> Seconds(now), reset |-> None])
  /\ touched' = [touched EXCEPT ![i] = now]
  /\ UNCHANGED now

DeleteSession(i) ==
  /\ sessions[i] # NoSession
  /\ sessions' = [sessions EXCEPT ![i] = NoSession]
  /\ UNCHANGED <<now, touched>>

\* Seeded fault of IdleResetDue: the deadline itself is past it.
IdleResetAtDeadline(row, t) == Seconds(t) >= Saturated(row.active + row.timeout)

\* idle_reset_due.
IdleResetDue(row, t) == Seconds(t) > Saturated(row.active + row.timeout)

\* daily_reset_boundary: the last one at or before now; the day is found by
\* division rounding down, before 1970 too.
DailyBoundary(t, hour) ==
  LET candidate == (Seconds(t) \div SECONDS_PER_DAY) * SECONDS_PER_DAY + hour * SECONDS_PER_HOUR
  IN IF Seconds(t) < candidate THEN candidate - SECONDS_PER_DAY ELSE candidate

\* daily_reset_due: the later of the last reset and the last activity lies
\* before the boundary.
DailyResetDue(row, t) ==
  LET reference == IF row.reset = None \/ row.reset < row.active THEN row.active ELSE row.reset
  IN reference < DailyBoundary(t, row.hour)

\* evaluate_session_reset, which fails on a row whose policy is not whole.
Evaluable(row) == row.hour < HOURS_PER_DAY /\ (row.mode \in {"idle", "both"} => row.timeout \notin {None, 0})
ResetReasons(row, t) ==
     {r \in {"idle"} : row.mode \in {"idle", "both"} /\ IdleResetDue(row, t)}
  \cup {r \in {"daily"} : row.mode \in {"daily", "both"} /\ DailyResetDue(row, t)}

\* An input for a session: found by its resume key, evaluated, and written
\* back with a fresh context if a reset is due.
UseSession(i) ==
  /\ sessions[i] # NoSession /\ Evaluable(sessions[i])
  /\ LET row   == sessions[i]
         fresh == [row EXCEPT !.active = Seconds(now)]
     IN UpsertSession(i, IF ResetReasons(row, now) # {} THEN [fresh EXCEPT !.reset = Seconds(now)] ELSE fresh)
  /\ touched' = [touched EXCEPT ![i] = now]
  /\ UNCHANGED now

\* The wall clock; it may be set back.
Tick == now' \in Instants \ {now} /\ UNCHANGED <<sessions, touched>>

SessionNext ==
  \/ \E i \in SessionIds, k \in SessionKeys, m \in ResetModes, h \in Hours, t \in Timeouts \cup {None} :
       CreateSession(i, k, m, h, t)
  \/ \E i \in SessionIds : DeleteSession(i) \/ UseSession(i)
  \/ Tick

\* The evaluator of a source and the stored sessions share nothing.
SessionsSpec ==
  /\ BusyInit /\ SessionInit
  /\ [][\/ BusyNext /\ UNCHANGED sessionVars
        \/ SessionNext /\ UNCHANGED busyVars]_<<busyVars, sessionVars>>

----------------------------------------------------------------------------
(* Properties. *)

SessionsTypeOK ==
  /\ active \in [op : {0} \cup Inputs, state : {"idle", "running", "interrupting"}, wait : BOOLEAN,
                 subscription : BOOLEAN, task : BOOLEAN, context : BOOLEAN, cancellable : BOOLEAN, steerable : BOOLEAN]
  /\ queue \in Seq(Inputs) /\ {arrived} \cup started \cup steered \cup refused \subseteq {0} \cup Inputs
  /\ now \in Instants /\ DOMAIN sessions = SessionIds /\ touched \in [SessionIds -> Instants \cup {0}]

Queued == ToSet(queue)

\* Every input that arrived was started, queued, steered or refused, only one
\* of them, and the inputs that wait do so in the order they came: neither
\* mode nor fallback loses, repeats or reorders one (busy.rs apply_mode).
InputsAccounted ==
  /\ 1..arrived = started \cup Queued \cup steered \cup refused
  /\ Cardinality(started) + Len(queue) + Cardinality(steered) + Cardinality(refused) = arrived
  /\ \A m, n \in 1..Len(queue) : m < n => queue[m] < queue[n]

\* The queue of a source never outgrows max_queue_depth, whichever mode or
\* fallback put the inputs there (push_queue).
QueueWithinDepth == Len(queue) <= policy.depth

\* An operation is only interrupted on behalf of an input that then waits for
\* it: no operation is cancelled with nothing to run after it.
InterruptedForSomeone == active.state = "interrupting" => queue # <<>>

\* An input that is refused leaves the operation in flight and the queue as
\* they were and asks the worker for nothing: an interrupt that finds the
\* queue full cancels nothing (apply_interrupt marks before push_queue fails).
RefusalIsHarmless ==
  [][refused' # refused => active' = active /\ queue' = queue /\ actions' = <<>>]_busyVars

Live == {i \in SessionIds : sessions[i] # NoSession}
Evaluated == {i \in Live : Evaluable(sessions[i])}

\* A daily reset is due exactly when a reset hour has struck since the session
\* was last used, however the store rounds; when the clock was set back after
\* a reset, since that reset, so one hour never resets a session twice.
DailyResetsAtTheHour ==
  \A i \in Evaluated :
    LET s == sessions[i]
        since == Max({touched[i]} \cup {s.reset * TICKS : r \in {s.reset} \ {None}})
        boundary(b) == b % (SECONDS_PER_DAY * TICKS) = s.hour * SECONDS_PER_HOUR * TICKS
    IN s.mode \in {"daily", "both"} =>
         ("daily" \in ResetReasons(s, now) <=> \E b \in (since + 1)..now : boundary(b))

\* An idle reset never comes before the timeout has fully passed and never a
\* whole second late, although both times are cut to seconds.
IdleResetsInTime ==
  \A i \in Evaluated :
    LET s == sessions[i]
        idleFor == now - touched[i]
    IN s.mode \in {"idle", "both"} =>
         /\ "idle" \in ResetReasons(s, now) => idleFor > s.timeout * TICKS
         /\ idleFor >= (s.timeout + 1) * TICKS => "idle" \in ResetReasons(s, now)

\* Whatever policy the store accepted, the evaluator can evaluate: its own
\* checks never refuse a stored row.
StoredPoliciesEvaluate == \A i \in Live : Evaluable(sessions[i])

\* The busy-input policy is kept to: no input is lost, repeated or reordered,
\* the queue stays within its depth, an operation is interrupted for somebody
\* only, and a refused input changes nothing.
BusyInputsKept ==
  [](SessionsTypeOK /\ InputsAccounted /\ QueueWithinDepth /\ InterruptedForSomeone) /\ RefusalIsHarmless

\* Sessions are reset when their stored policy says, neither early nor late.
ResetsInTime == DailyResetsAtTheHour /\ IdleResetsInTime /\ StoredPoliciesEvaluate
=============================================================================

------------------------------ MODULE Servers ------------------------------
(***************************************************************************)
(* The two servers of a profile: missive gateway run, with its HTTP        *)
(* inbound adapter, event bus and supervisor, and missive webhook run      *)
(* (missive-gateway/src/daemon.rs, webhook.rs; the runners of              *)
(* missive-cli/src/gateway.rs, webhook.rs).  Both serve under the gateway  *)
(* lock; what their managers do is in GatewayJobs and TaskSubscriptions.   *)
(*                                                                         *)
(* A handler has the whole body before it runs, and nothing bounds the     *)
(* time a client takes to send it.  It runs up to its journal write, the   *)
(* write is made by a blocking thread, and the handler goes on from there. *)
(* A client that disconnects ends the handler, but not the thread.         *)
(***************************************************************************)
EXTENDS Naturals, Sequences, FiniteSets

CONSTANTS
  Procs,      \* server processes, each started once
  Requests,   \* HTTP requests
  Limit,      \* --http-adapter-rate-limit
  Minute,     \* ticks of the limiter's window
  MaxTime,    \* ticks the clock runs
  MaxEvents,  \* --max-events of the webhook receiver
  NoOne       \* no process, no reason

\* HttpInboundAdapterConfig::validate refuses a limit of zero.
ValidLimit(n) == n \in Nat \ {0}

ASSUME ServerBounds ==
  /\ ValidLimit(Limit) /\ ValidLimit(MaxEvents)
  /\ Minute \in Nat \ {0} /\ MaxTime \in Nat
  /\ IsFiniteSet(Requests)

\* Names that stand for different things are different.
ASSUME ServerNames ==
  /\ NoOne \notin Procs \cup {"signal", "timeout", "max_events"}
  /\ {"started", "stopped"} \cap Requests = {}

VARIABLES
  role,      \* which server a process is
  lock,      \* holder of the gateway lock
  phase,     \* where run_gateway_daemon / run_webhook_receiver is
  reason,    \* why it shuts down
  managers,  \* the two manager tasks
  senders,   \* who can still send on the bus
  bus,       \* the bus
  comp,      \* component states the status endpoint shows
  req,       \* the requests and their handlers
  counted,   \* accepted and rejected counters
  window,    \* the rate limiter
  grants,    \* when it let a request through
  journal,   \* the events table
  now        \* the clock

handlers == <<req, counted, window, grants>>
daemons == <<phase, reason, managers, senders, bus, comp>>
serverVars == <<role, lock, daemons, handlers, journal, now>>

Managers == {"subscriptions", "background_jobs"}
Components == Managers \cup {"health_http", "adapters"}
Inputs == {"good", "unauthorized", "malformed"}

Alive == {"starting", "serving", "finishing", "joining", "joining_jobs", "draining", "closing"}
Answers == {202, 400, 401, 413, 429, 500}

Waiting == [at |-> NoOne, step |-> "none", code |-> 0, shown |-> FALSE]

ServersTypeOK ==
  /\ role \in [Procs -> {"gateway", "webhook"}]
  /\ lock \in Procs \cup {NoOne}
  /\ phase \in [Procs -> Alive \cup {"off", "stopped", "failed", "dead"}]
  /\ reason \in [Procs -> {NoOne, "signal", "timeout", "max_events"}]
  /\ managers \in [Procs -> [Managers -> {"none", "spawned", "running", "ok", "error"}]]
  /\ senders \in [Procs -> SUBSET ({"daemon", "adapter"} \cup Managers)]
  /\ comp \in [Procs -> [Components -> {"starting", "idle", "running", "stopped"}]]
  /\ req \in [Requests -> [at : Procs \cup {NoOne},
                           step : {"none", "receiving", "persisting", "persisted",
                                   "counted", "answered", "orphan", "gone"},
                           code : Answers \cup {0}, shown : BOOLEAN]]
  /\ counted \in [Procs -> [accepted : 0 .. Cardinality(Requests),
                            rejected : 0 .. Cardinality(Requests)]]
  /\ window \in [Procs -> [start : 0 .. MaxTime, count : 0 .. Cardinality(Requests)]]
  /\ now \in 0 .. MaxTime

Write(p, type) == journal' = Append(journal, [by |-> p, type |-> type])
Send(p, event) == bus' = [bus EXCEPT ![p] = Append(@, event)]
Hangs(p, who) == senders' = [senders EXCEPT ![p] = @ \ {who}]
Goes(p, f) == phase' = [phase EXCEPT ![p] = f]
Unlocked(p) == lock' = IF lock = p THEN NoOne ELSE lock

\* The requests p has begun to read and not answered.
InFlight(p) ==
  {r \in Requests : req[r].at = p /\ req[r].step \in {"receiving", "persisting", "persisted", "counted"}}

----------------------------------------------------------------------------
(* Start.                                                                  *)

LockFree == lock = NoOne

\* ProcessLock::try_acquire: a server that finds the lock taken gives up.
StartServer(p) ==
  /\ phase[p] = "off"
  /\ IF LockFree THEN lock' = p /\ Goes(p, "starting")
     ELSE lock' = lock /\ Goes(p, "failed")
  /\ UNCHANGED <<role, reason, managers, senders, bus, comp, handlers, journal, now>>

\* The socket is bound, the start journalled, the snapshot of the components
\* sent and the managers spawned; the receiver only binds.
Serve(p) ==
  /\ phase[p] = "starting"
  /\ Goes(p, "serving")
  /\ IF role[p] = "webhook" THEN UNCHANGED <<managers, senders, bus, comp, journal>>
     ELSE /\ Write(p, "started")
          /\ managers' = [managers EXCEPT ![p] = [m \in Managers |-> "spawned"]]
          /\ senders' = [senders EXCEPT ![p] = {"daemon", "adapter"} \cup Managers]
          /\ comp' = [comp EXCEPT ![p] = [c \in Components |->
                        IF c \in Managers THEN "idle" ELSE "running"]]
          /\ Send(p, <<"snapshot", "running">>)
  /\ window' = [window EXCEPT ![p].start = now]
  /\ UNCHANGED <<role, lock, reason, req, counted, grants, now>>

\* The store, the socket or the start event fails.
StartFails(p) ==
  /\ phase[p] = "starting"
  /\ Goes(p, "failed") /\ Unlocked(p)
  /\ UNCHANGED <<role, reason, managers, senders, bus, comp, handlers, journal, now>>

----------------------------------------------------------------------------
(* Requests.                                                               *)

\* Seeded fault of Renewed: the window moves on and keeps its count.
RenewedKeepingCount(w) == IF now - w.start >= Minute THEN [w EXCEPT !.start = now] ELSE w

\* A window whose minute is over starts anew.
Renewed(w) == IF now - w.start >= Minute THEN [start |-> now, count |-> 0] ELSE w

Spent(w) == w.count >= Limit

\* The checks a request meets in turn; the receiver has no limiter.
Verdict(limited, input) ==
  IF limited THEN 429
  ELSE CASE input = "unauthorized" -> 401
         [] input = "malformed" -> 400
         [] OTHER -> 202

\* A client begins to send.  Requests are taken as long as the listener is
\* open, also when the shutdown has been asked for already.
Begin(r, p) ==
  /\ req[r].step = "none" /\ phase[p] = "serving"
  /\ req' = [req EXCEPT ![r] = [at |-> p, step |-> "receiving", code |-> 0, shown |-> FALSE]]
  /\ UNCHANGED <<role, lock, daemons, counted, window, grants, journal, now>>

\* DefaultBodyLimit refuses the body before the handler runs: no limiter, no
\* counter and no journal sees the request.
TooLarge(r) ==
  /\ req[r].step = "receiving"
  /\ req' = [req EXCEPT ![r].step = "answered", ![r].code = 413]
  /\ UNCHANGED <<role, lock, daemons, counted, window, grants, journal, now>>

\* The body is there: push_callback, http_adapter_control up to the journal
\* write.
Arrive(r, p, input) ==
  LET w == Renewed(window[p])
      limited == role[p] = "gateway" /\ Spent(w)
  IN  /\ req[r].step = "receiving" /\ req[r].at = p
      /\ IF role[p] = "webhook" THEN UNCHANGED <<window, grants>>
         ELSE /\ window' = [window EXCEPT ![p] = IF limited THEN w ELSE [w EXCEPT !.count = @ + 1]]
              /\ grants' = [grants EXCEPT ![p] = IF limited THEN @ ELSE Append(@, now)]
      /\ req' = [req EXCEPT ![r] = [at |-> p, step |-> "persisting",
                                    code |-> Verdict(limited, input), shown |-> FALSE]]
      /\ UNCHANGED <<role, lock, daemons, counted, journal, now>>

\* append_event_blocking, under the state-mutation lock.  The receiver first
\* adds a missing context row and drops the link to a missing task row.
Persist(r) ==
  /\ req[r].step \in {"persisting", "orphan"}
  /\ Write(req[r].at, r)
  /\ req' = [req EXCEPT ![r].step = IF @ = "orphan" THEN "gone" ELSE "persisted"]
  /\ UNCHANGED <<role, lock, daemons, counted, window, grants, now>>

\* The write fails and the caller gets a 500.
PersistFails(r) ==
  /\ req[r].step = "persisting"
  /\ req' = [req EXCEPT ![r].step = "answered", ![r].code = 500]
  /\ UNCHANGED <<role, lock, daemons, counted, window, grants, journal, now>>

Count(p, accepted, rejected) ==
  counted' = [counted EXCEPT ![p] = [accepted |-> @.accepted + accepted,
                                     rejected |-> @.rejected + rejected]]
Answered(r, code) == req' = [req EXCEPT ![r].step = "answered", ![r].code = code]

\* reject_http_adapter_request, reject_callback
AnswerRejected(r) ==
  /\ req[r].step = "persisted" /\ req[r].code # 202
  /\ Count(req[r].at, 0, 1) /\ Answered(r, req[r].code)
  /\ UNCHANGED <<role, lock, daemons, window, grants, journal, now>>

\* accept_http_adapter_request: the adapter event goes to the bus; a closed
\* bus makes the answer a 500.
AnswerAdapter(r) ==
  LET p == req[r].at
  IN  /\ req[r].step = "persisted" /\ req[r].code = 202 /\ role[p] = "gateway"
      /\ Count(p, 1, 0)
      /\ IF "adapter" \in senders[p] THEN Send(p, <<"request", r>>) /\ Answered(r, 202)
         ELSE bus' = bus /\ Answered(r, 500)
      /\ UNCHANGED <<role, lock, phase, reason, managers, senders, comp, window, grants,
                     journal, now>>

\* maybe_shutdown_after_max_events
EnoughEvents(n) == n >= MaxEvents

\* handle_authorized_callback counts the event, then looks at the counter,
\* which other handlers may have moved meanwhile.
CountCallback(r) ==
  LET p == req[r].at
  IN  /\ req[r].step = "persisted" /\ req[r].code = 202 /\ role[p] = "webhook"
      /\ Count(p, 1, 0)
      /\ req' = [req EXCEPT ![r].step = "counted"]
      /\ UNCHANGED <<role, lock, daemons, window, grants, journal, now>>

AnswerCallback(r) ==
  LET p == req[r].at
  IN  /\ req[r].step = "counted"
      /\ Answered(r, req[r].code)
      /\ reason' = IF reason[p] = NoOne /\ EnoughEvents(counted[p].accepted)
                   THEN [reason EXCEPT ![p] = "max_events"] ELSE reason
      /\ UNCHANGED <<role, lock, phase, managers, senders, bus, comp, counted, window, grants,
                     journal, now>>

\* The client goes away: its handler is dropped where it waits.
Disconnect(r) ==
  /\ req[r].step \in {"receiving", "persisting", "persisted"}
  /\ req' = [req EXCEPT ![r].step = IF @ = "persisting" THEN "orphan" ELSE "gone"]
  /\ UNCHANGED <<role, lock, daemons, counted, window, grants, journal, now>>

----------------------------------------------------------------------------
(* The managers and the supervisor.                                        *)

ManagerBegins(p, m) ==
  /\ managers[p][m] = "spawned"
  /\ managers' = [managers EXCEPT ![p][m] = "running"]
  /\ Send(p, <<m, "running">>)
  /\ UNCHANGED <<role, lock, phase, reason, senders, comp, handlers, journal, now>>

\* What a manager that was told to stop sends last.
Farewell(p, m) == Append(bus[p], <<m, "stopped">>)

ManagerEnds(p, m) ==
  /\ managers[p][m] = "running" /\ reason[p] # NoOne
  /\ managers' = [managers EXCEPT ![p][m] = "ok"]
  /\ bus' = [bus EXCEPT ![p] = Farewell(p, m)]
  /\ Hangs(p, m)
  /\ UNCHANGED <<role, lock, phase, reason, comp, handlers, journal, now>>

\* A manager returns an error; nobody looks at it before the shutdown.
ManagerFails(p, m) ==
  /\ managers[p][m] = "running" /\ phase[p] \in Alive
  /\ managers' = [managers EXCEPT ![p][m] = "error"]
  /\ Hangs(p, m)
  /\ UNCHANGED <<role, lock, phase, reason, bus, comp, handlers, journal, now>>

\* supervisor_loop
Supervise(p) ==
  LET event == Head(bus[p])
  IN  /\ bus[p] # <<>> /\ phase[p] \in Alive
      /\ bus' = [bus EXCEPT ![p] = Tail(@)]
      /\ IF event[1] = "request"
         THEN /\ req' = [req EXCEPT ![event[2]].shown = TRUE]
              /\ comp' = [comp EXCEPT ![p]["adapters"] = "running"]
         ELSE /\ req' = req
              /\ comp' = IF event[1] = "snapshot" THEN comp
                         ELSE [comp EXCEPT ![p][event[1]] = event[2]]
      /\ UNCHANGED <<role, lock, phase, reason, managers, senders, counted, window, grants,
                     journal, now>>

----------------------------------------------------------------------------
(* Shutdown.                                                               *)

\* shutdown_signal; the first reason stays.
RequestShutdown(p) ==
  /\ phase[p] = "serving" /\ reason[p] = NoOne
  /\ \E why \in {"signal", "timeout"} : reason' = [reason EXCEPT ![p] = why]
  /\ UNCHANGED <<role, lock, phase, managers, senders, bus, comp, handlers, journal, now>>

\* The task of shutdown_signal sees the channel change and the listener closes;
\* connections with a request under way are kept.
StopListening(p) ==
  /\ phase[p] = "serving" /\ reason[p] # NoOne
  /\ Goes(p, "finishing")
  /\ UNCHANGED <<role, lock, reason, managers, senders, bus, comp, handlers, journal, now>>

\* Seeded fault of Quiescent: running handlers are not waited for.
QuiescentAtOnce(p) == TRUE

\* Graceful shutdown waits for every request under way, one whose client has
\* stalled in its body included.
Quiescent(p) == InFlight(p) = {}

\* Seeded fault of ClosedBus: the adapter keeps its sender.
BusLeftOpen(p) == senders[p]

\* close_http_adapter_bus
ClosedBus(p) == senders[p] \ {"adapter"}

\* axum::serve returns: the lock is free before the managers are joined.
StopServing(p) ==
  /\ phase[p] = "finishing" /\ Quiescent(p)
  /\ Unlocked(p)
  /\ IF role[p] = "webhook" THEN Goes(p, "stopped") /\ UNCHANGED <<senders, bus>>
     ELSE /\ Goes(p, "joining")
          /\ senders' = [senders EXCEPT ![p] = ClosedBus(p)]
          /\ Send(p, <<"health_http", "stopped">>)
  /\ UNCHANGED <<role, reason, managers, comp, handlers, journal, now>>

\* The managers are awaited one after the other; the error of the first ends
\* the daemon without a look at the second.
Join(p, m, from, to) ==
  /\ phase[p] = from /\ managers[p][m] \in {"ok", "error"}
  /\ IF managers[p][m] = "error" THEN Goes(p, "failed") ELSE Goes(p, to)
  /\ UNCHANGED <<role, lock, reason, managers, bus, comp, handlers, journal, now>>

JoinSubscriptions(p) ==
  Join(p, "subscriptions", "joining", "joining_jobs") /\ senders' = senders

JoinJobs(p) ==
  Join(p, "background_jobs", "joining_jobs", "draining") /\ Hangs(p, "daemon")

\* supervisor_handle.await: the bus is closed and empty.
Drained(p) == senders[p] = {} /\ bus[p] = <<>>

JoinSupervisor(p) ==
  /\ phase[p] = "draining" /\ Drained(p)
  /\ Goes(p, "closing")
  /\ UNCHANGED <<role, lock, reason, managers, senders, bus, comp, handlers, journal, now>>

\* The stopped event and the summary.
Close(p) ==
  /\ phase[p] = "closing"
  /\ \/ Write(p, "stopped") /\ Goes(p, "stopped")
     \/ journal' = journal /\ Goes(p, "failed")
  /\ UNCHANGED <<role, lock, reason, managers, senders, bus, comp, handlers, now>>

\* The process is killed, or its output cannot be written.
Kill(p) ==
  /\ phase[p] \in Alive
  /\ Goes(p, "dead") /\ Unlocked(p)
  /\ req' = [r \in Requests |-> IF r \in InFlight(p) \/ (req[r].at = p /\ req[r].step = "orphan")
                                THEN [req[r] EXCEPT !.step = "gone"] ELSE req[r]]
  /\ UNCHANGED <<role, reason, managers, senders, bus, comp, counted, window, grants,
                 journal, now>>

Tick ==
  /\ now < MaxTime /\ now' = now + 1
  /\ UNCHANGED <<role, lock, daemons, handlers, journal>>

----------------------------------------------------------------------------
ServersInit ==
  /\ role \in [Procs -> {"gateway", "webhook"}]
  /\ lock = NoOne
  /\ phase = [p \in Procs |-> "off"]
  /\ reason = [p \in Procs |-> NoOne]
  /\ managers = [p \in Procs |-> [m \in Managers |-> "none"]]
  /\ senders = [p \in Procs |-> {}]
  /\ bus = [p \in Procs |-> <<>>]
  /\ comp = [p \in Procs |-> [c \in Components |-> "starting"]]
  /\ req = [r \in Requests |-> Waiting]
  /\ counted = [p \in Procs |-> [accepted |-> 0, rejected |-> 0]]
  /\ window = [p \in Procs |-> [start |-> 0, count |-> 0]]
  /\ grants = [p \in Procs |-> <<>>]
  /\ journal = <<>>
  /\ now = 0

Handle(r) ==
  \/ Persist(r) \/ PersistFails(r)
  \/ AnswerRejected(r) \/ AnswerAdapter(r) \/ CountCallback(r) \/ AnswerCallback(r)

Shut(p) ==
  \/ \E m \in Managers : ManagerBegins(p, m) \/ ManagerEnds(p, m)
  \/ Supervise(p)
  \/ StopListening(p) \/ StopServing(p)
  \/ JoinSubscriptions(p) \/ JoinJobs(p) \/ JoinSupervisor(p) \/ Close(p)

ServersNext ==
  \/ \E p \in Procs :
       \/ StartServer(p) \/ Serve(p) \/ StartFails(p)
       \/ \E r \in Requests : Begin(r, p) \/ \E input \in Inputs : Arrive(r, p, input)
       \/ \E m \in Managers : ManagerFails(p, m)
       \/ RequestShutdown(p) \/ Shut(p) \/ Kill(p)
  \/ \E r \in Requests : TooLarge(r) \/ Handle(r) \/ Disconnect(r)
  \/ Tick

\* Handlers and tasks of a process run as long as it is alive; a write takes
\* the state-mutation lock, which commands give back.  Clients need not send.
ServersFairness ==
  /\ \A r \in Requests : WF_serverVars(Handle(r))
  /\ \A p \in Procs : WF_serverVars(Shut(p))

ServersSpec == ServersInit /\ [][ServersNext]_serverVars /\ ServersFairness

----------------------------------------------------------------------------
(* Properties.                                                             *)

\* Gateway and receiver of a profile never serve at the same time, whatever
\* they are shut down by and in whatever order they are started.
OneServer ==
  \A p, q \in Procs : {phase[p], phase[q]} \subseteq {"serving", "finishing"} => p = q

\* A caller that got a 202, or a refusal of a handler, finds its event in the
\* journal.  A 500 and a broken connection leave that open, and the 413 of the
\* body limit leaves no event.
AnsweredIsJournalled ==
  \A r \in Requests : req[r].step = "answered" /\ req[r].code \notin {413, 500} =>
    \E i \in 1 .. Len(journal) : journal[i] = [by |-> req[r].at, type |-> r]

\* A gateway that stops in an orderly way has shown every request it answered
\* with 202: nothing is left on the bus.
AcceptedIsShown ==
  \A r \in Requests :
    req[r].step = "answered" /\ req[r].code = 202 /\ role[req[r].at] = "gateway"
      /\ phase[req[r].at] = "stopped" => req[r].shown

\* No caller of the adapter is told of a failure when its request went into
\* the journal: the bus is open as long as handlers run.
JournalledIsAccepted ==
  [][\A r \in Requests : req[r].step = "persisted" /\ req'[r].step = "answered"
       => req'[r].code # 500]_serverVars

\* The summary of an orderly stop shows the managers and the listener stopped,
\* also when a manager's last words were still on the bus as the listener
\* closed; the adapters, whose end nobody reports, are shown as running.
SummaryIsFinal ==
  \A p \in Procs : role[p] = "gateway" /\ phase[p] = "stopped" =>
    \A c \in Components : comp[p][c] = IF c = "adapters" THEN "running" ELSE "stopped"

\* A gateway's stopped event comes behind the events of all requests it has
\* answered.
StoppedBehindAnswers ==
  \A i, j \in 1 .. Len(journal) :
    /\ journal[i].type = "stopped" /\ i < j /\ journal[j].by = journal[i].by
    => journal[j].type \in Requests /\ req[journal[j].type].step = "gone"

\* The limiter's window is fixed, it does not roll: it never lets more than
\* its budget through from the start of the window that runs, and at most twice
\* its budget in any minute, around the edge of two windows.
BurstBound ==
  \A p \in Procs : \A t \in 0 .. MaxTime :
    Cardinality({i \in 1 .. Len(grants[p]) : grants[p][i] \in t .. t + Minute - 1})
      <= IF t = window[p].start THEN Limit ELSE 2 * Limit

\* A request is turned away only when the budget was used up within the last
\* minute, whenever its body was complete.
DeniedOnlyWhenSpent ==
  [][\A r \in Requests : req[r].code = 0 /\ req'[r].code = 429 =>
       LET at == req'[r].at
       IN  Cardinality({i \in 1 .. Len(grants[at]) : grants[at][i] + Minute > now}) >= Limit
    ]_serverVars

\* Whichever handler counts last, the shutdown of a receiver that accepted
\* --max-events is asked for, or about to be, and never before.  Callbacks may
\* still begin until the listener closes.
EnoughIsSignalled ==
  \A p \in Procs :
    /\ role[p] = "webhook" /\ phase[p] # "dead" /\ counted[p].accepted >= MaxEvents =>
         reason[p] # NoOne \/ \E r \in Requests : req[r].at = p /\ req[r].step = "counted"
    /\ reason[p] = "max_events" => counted[p].accepted >= MaxEvents

\* A server that was asked to stop closes its listener, whatever its clients do.
ListenerCloses == \A p \in Procs : reason[p] # NoOne ~> phase[p] \notin {"starting", "serving"}

\* No client stalls forever.
ClientsFinish == []<>(\A r \in Requests : req[r].step # "receiving")

\* A server that was asked to stop stops, with requests in flight, a manager
\* that failed or one that has not begun: no task waits for another forever.
\* It waits for its clients, without a limit: if none stalls, it ends.
ShutdownCompletes ==
  /\ ListenerCloses
  /\ ClientsFinish =>
       \A p \in Procs : reason[p] # NoOne ~> phase[p] \in {"stopped", "failed", "dead"}

\* A server keeps what it answers for: one server at a time, every answer of a
\* handler backed by the journal, and a stop that shows and reports all of it.
AnswersAreKept ==
  /\ [](ServersTypeOK /\ OneServer /\ AnsweredIsJournalled /\ AcceptedIsShown
        /\ SummaryIsFinal /\ StoppedBehindAnswers)
  /\ JournalledIsAccepted

\* The intake is bounded and turns nobody away early: the rate limit of the
\* adapter and --max-events of the receiver.
IntakeIsBounded == [](BurstBound /\ EnoughIsSignalled) /\ DeniedOnlyWhenSpent
=============================================================================

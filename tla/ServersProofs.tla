--------------------------- MODULE ServersProofs ---------------------------
(***************************************************************************)
(* What the two servers answer for is kept, and their intake is bounded:   *)
(* for any number of processes and requests, any rate limit and any        *)
(* length of the limiter's window.                                         *)
(***************************************************************************)
EXTENDS Servers, SequenceTheorems, FiniteSetTheorems, TLAPS

----------------------------------------------------------------------------
(* The inductive invariant.                                                *)

Phases == Alive \cup {"off", "stopped", "failed", "dead"}
Reasons == {NoOne, "signal", "timeout", "max_events"}
States == {"none", "spawned", "running", "ok", "error"}
Steps == {"none", "receiving", "persisting", "persisted", "counted", "answered", "orphan", "gone"}
Events == ({"request"} \X Requests)
          \cup (({"snapshot", "health_http"} \cup Managers) \X {"running", "stopped"})
Entries == [by : Procs, type : Requests \cup {"started", "stopped"}]
RequestSet == [at : Procs \cup {NoOne}, step : Steps, code : Answers \cup {0}, shown : BOOLEAN]

TypeInv ==
  /\ role \in [Procs -> {"gateway", "webhook"}]
  /\ lock \in Procs \cup {NoOne}
  /\ phase \in [Procs -> Phases]
  /\ reason \in [Procs -> Reasons]
  /\ managers \in [Procs -> [Managers -> States]]
  /\ senders \in [Procs -> SUBSET ({"daemon", "adapter"} \cup Managers)]
  /\ bus \in [Procs -> Seq(Events)]
  /\ comp \in [Procs -> [Components -> {"starting", "idle", "running", "stopped"}]]
  /\ req \in [Requests -> RequestSet]
  /\ counted \in [Procs -> [accepted : Nat, rejected : Nat]]
  /\ window \in [Procs -> [start : 0 .. MaxTime, count : Nat]]
  /\ grants \in [Procs -> Seq(Nat)]
  /\ journal \in Seq(Entries)
  /\ now \in 0 .. MaxTime

\* A process that serves, or is about to, holds the lock.
Open == {"serving", "finishing"}
LockInv == \A p \in Procs : phase[p] = "starting" \/ phase[p] \in Open => lock = p

\* Something is in a sequence.
Has(s, x) == \E i \in 1 .. Len(s) : s[i] = x

\* The last that will be heard of component c says that it is stopped.
LastWord(b, state, c) ==
  \/ \E i \in 1 .. Len(b) : b[i] = <<c, "stopped">> /\ \A j \in i + 1 .. Len(b) : b[j][1] # c
  \/ state = "stopped" /\ \A j \in 1 .. Len(b) : b[j][1] # c

Recorded(r) == Has(journal, [by |-> req[r].at, type |-> r])

\* A request is read and handled only while its server serves; what is past its
\* write is journalled, and what the adapter accepted is shown or on the bus.
Flying(u) == req[u].step \in {"receiving", "persisting", "persisted", "counted"}
RequestInv(r) ==
  /\ req[r].step # "none" => req[r].at \in Procs
  /\ Flying(r) => phase[req[r].at] \in Open
  /\ req[r].step \in {"persisting", "persisted"} => req[r].code \in {202, 400, 401, 429}
  /\ req[r].step = "persisted" => Recorded(r)
  /\ req[r].step = "counted" => Recorded(r) /\ req[r].code = 202 /\ role[req[r].at] = "webhook"
  /\ req[r].step = "answered" /\ req[r].code \notin {413, 500} => Recorded(r)
  /\ req[r].step = "answered" /\ req[r].code = 202 /\ role[req[r].at] = "gateway" =>
       req[r].shown \/ Has(bus[req[r].at], <<"request", r>>)

\* How far the shutdown of a gateway has come, and what that says of its bus.
DaemonInv(p) ==
  /\ phase[p] \in {"off", "starting"} => bus[p] = <<>> /\ \A m \in Managers : managers[p][m] = "none"
  /\ role[p] = "gateway" /\ phase[p] \in Open => "adapter" \in senders[p]
  /\ role[p] = "gateway" /\ phase[p] \notin {"off", "starting", "failed", "dead"} =>
       comp[p]["adapters"] = "running"
  /\ role[p] = "webhook" => phase[p] \notin {"joining", "joining_jobs", "draining", "closing"}
  /\ role[p] = "gateway" =>
       /\ phase[p] \in {"joining_jobs", "draining", "closing", "stopped"} => managers[p]["subscriptions"] = "ok"
       /\ phase[p] \in {"draining", "closing", "stopped"} => managers[p]["background_jobs"] = "ok"
       /\ phase[p] \in {"closing", "stopped"} => bus[p] = <<>>
       /\ phase[p] \in {"joining", "joining_jobs", "draining", "closing", "stopped"} =>
            LastWord(bus[p], comp[p]["health_http"], "health_http")
  /\ \A m \in Managers : managers[p][m] = "ok" => LastWord(bus[p], comp[p][m], m)

\* A stopped event is the last of its process, but for writes whose caller
\* has gone.
JournalInv ==
  /\ \A i \in 1 .. Len(journal) : journal[i].type = "stopped" => phase[journal[i].by] = "stopped"
  /\ StoppedBehindAnswers

\* The counters count requests.
Taken(p) == {r \in Requests : req[r].at = p /\ req[r].step \notin {"none", "receiving"}}
Done(p) == {r \in Requests : req[r].at = p /\ req[r].step \in {"counted", "answered", "gone"}}
CountInv(p) ==
  /\ counted[p].accepted + counted[p].rejected <= Cardinality(Done(p))
  /\ window[p].count <= Cardinality(Taken(p))

\* What the limiter let through: the budget of the window that runs, no more
\* than that of one window in the minute before it, and of two in any minute.
LetThrough(g, a, b) == {i \in 1 .. Len(g) : a <= g[i] /\ g[i] < b}
LimitInv(g, w) ==
  /\ \A i \in 1 .. Len(g) : g[i] < w.start + Minute
  /\ Cardinality(LetThrough(g, w.start, w.start + Minute)) = w.count /\ w.count <= Limit
  /\ \A a \in Nat : a + Minute > w.start => Cardinality(LetThrough(g, a, w.start)) <= Limit
  /\ \A a \in Nat : Cardinality(LetThrough(g, a, a + Minute)) <= 2 * Limit

\* EnoughIsSignalled, of one process.
Signalled(p) ==
  /\ role[p] = "webhook" /\ phase[p] # "dead" /\ counted[p].accepted >= MaxEvents =>
       reason[p] # NoOne \/ \E r \in Requests : req[r].at = p /\ req[r].step = "counted"
  /\ reason[p] = "max_events" => counted[p].accepted >= MaxEvents

IntakeInv(p) ==
  /\ phase[p] \in {"off", "starting"} => grants[p] = <<>> /\ window[p].count = 0
  /\ LimitInv(grants[p], window[p])
  /\ window[p].start <= now

ServersInv ==
  /\ TypeInv /\ LockInv /\ JournalInv
  /\ \A r \in Requests : RequestInv(r)
  /\ \A p \in Procs : DaemonInv(p) /\ CountInv(p) /\ IntakeInv(p) /\ Signalled(p)
----------------------------------------------------------------------------
(* Sequences.                                                              *)

LEMMA HasAppended ==
  ASSUME NEW S, NEW s \in Seq(S), NEW x \in S, NEW y, Has(s, y)
  PROVE Has(Append(s, x), y)
<1>1. PICK i \in 1 .. Len(s) : s[i] = y
  BY DEF Has
<1>2. /\ Len(Append(s, x)) = Len(s) + 1 /\ Append(s, x)[i] = s[i] /\ Len(s) \in Nat
  BY AppendProperties, LenProperties
<1>3. i \in 1 .. Len(s) + 1
  BY <1>2
<1> QED BY <1>1, <1>2, <1>3 DEF Has

LEMMA HasNew ==
  ASSUME NEW S, NEW s \in Seq(S), NEW x \in S
  PROVE Has(Append(s, x), x)
<1>1. /\ Len(Append(s, x)) = Len(s) + 1 /\ Append(s, x)[Len(s) + 1] = x /\ Len(s) \in Nat
  BY AppendProperties, LenProperties
<1>2. Len(s) + 1 \in 1 .. Len(s) + 1
  BY <1>1
<1> QED BY <1>1, <1>2 DEF Has

LEMMA HasTail ==
  ASSUME NEW S, NEW s \in Seq(S), s # <<>>, NEW y, Has(s, y), Head(s) # y
  PROVE Has(Tail(s), y)
<1>1. PICK i \in 1 .. Len(s) : s[i] = y
  BY DEF Has
<1>2. /\ Len(s) \in Nat \ {0} /\ Len(Tail(s)) = Len(s) - 1 /\ Head(s) = s[1]
      /\ \A k \in 1 .. Len(s) - 1 : Tail(s)[k] = s[k + 1]
  BY HeadTailProperties, EmptySeq
<1>3. i # 1 /\ i - 1 \in 1 .. Len(s) - 1 /\ (i - 1) + 1 = i
  BY <1>1, <1>2
<1>4. Tail(s)[i - 1] = s[i]
  BY <1>2, <1>3
<1> QED BY <1>1, <1>2, <1>3, <1>4 DEF Has

\* What others send does not change the last word of c.
LEMMA WordKept ==
  ASSUME NEW b \in Seq(Events), NEW e \in Events, NEW state, NEW c, LastWord(b, state, c), e[1] # c
  PROVE LastWord(Append(b, e), state, c)
<1>1. /\ Len(Append(b, e)) = Len(b) + 1 /\ Len(b) \in Nat /\ Append(b, e)[Len(b) + 1] = e
      /\ \A i \in 1 .. Len(b) : Append(b, e)[i] = b[i]
  BY AppendProperties, LenProperties
<1>2. ASSUME NEW i \in 1 .. Len(b), b[i] = <<c, "stopped">>, \A j \in i + 1 .. Len(b) : b[j][1] # c
      PROVE LastWord(Append(b, e), state, c)
  <2>1. i \in 1 .. Len(b) + 1 /\ Append(b, e)[i] = <<c, "stopped">>
    BY <1>1, <1>2
  <2>2. ASSUME NEW j \in i + 1 .. Len(b) + 1 PROVE Append(b, e)[j][1] # c
    <3>1. CASE j = Len(b) + 1
      BY <1>1, <3>1
    <3>2. CASE j # Len(b) + 1
      <4>1. j \in i + 1 .. Len(b) /\ j \in 1 .. Len(b)
        BY <1>1, <3>2
      <4> QED BY <1>1, <1>2, <4>1
    <3> QED BY <3>1, <3>2
  <2> QED BY <1>1, <2>1, <2>2 DEF LastWord
<1>3. ASSUME state = "stopped", \A j \in 1 .. Len(b) : b[j][1] # c
      PROVE LastWord(Append(b, e), state, c)
  <2>1. ASSUME NEW j \in 1 .. Len(b) + 1 PROVE Append(b, e)[j][1] # c
    <3>1. j \in 1 .. Len(b) \/ j = Len(b) + 1
      BY <1>1
    <3> QED BY <1>1, <1>3, <3>1
  <2> QED BY <1>1, <1>3, <2>1 DEF LastWord
<1> QED BY <1>2, <1>3 DEF LastWord

\* Farewell: the last word is said.
LEMMA WordSaid ==
  ASSUME NEW b \in Seq(Events), NEW c, <<c, "stopped">> \in Events, NEW state
  PROVE LastWord(Append(b, <<c, "stopped">>), state, c)
<1>1. /\ Len(Append(b, <<c, "stopped">>)) = Len(b) + 1 /\ Len(b) \in Nat
      /\ Append(b, <<c, "stopped">>)[Len(b) + 1] = <<c, "stopped">>
  BY AppendProperties, LenProperties
<1>2. Len(b) + 1 \in 1 .. Len(b) + 1 /\ ~\E j : j \in Len(b) + 2 .. Len(b) + 1
  BY <1>1
<1>3. (Len(b) + 1) + 1 = Len(b) + 2
  BY <1>1
<1> QED BY <1>1, <1>2, <1>3 DEF LastWord

\* The supervisor takes what is said of c from the bus into c's state.
LEMMA WordTaken ==
  ASSUME NEW b \in Seq(Events), b # <<>>, NEW state, NEW c, LastWord(b, state, c),
         NEW state2, state2 = IF Head(b)[1] = c THEN Head(b)[2] ELSE state
  PROVE LastWord(Tail(b), state2, c)
<1>1. /\ Len(b) \in Nat \ {0} /\ Len(Tail(b)) = Len(b) - 1 /\ Head(b) = b[1]
      /\ \A k \in 1 .. Len(b) - 1 : Tail(b)[k] = b[k + 1]
  BY HeadTailProperties, EmptySeq
<1>2. ASSUME NEW i \in 1 .. Len(b), b[i] = <<c, "stopped">>, \A j \in i + 1 .. Len(b) : b[j][1] # c
      PROVE LastWord(Tail(b), state2, c)
  <2>1. CASE i = 1
    <3>1. state2 = "stopped"
      BY <1>1, <1>2, <2>1
    <3>2. ASSUME NEW j \in 1 .. Len(b) - 1 PROVE Tail(b)[j][1] # c
      <4>1. j + 1 \in i + 1 .. Len(b)
        BY <1>1, <2>1
      <4> QED BY <1>1, <1>2, <4>1
    <3> QED BY <1>1, <3>1, <3>2 DEF LastWord
  <2>2. CASE i # 1
    <3>1. i - 1 \in 1 .. Len(b) - 1 /\ (i - 1) + 1 = i
      BY <1>1, <2>2
    <3>2. Tail(b)[i - 1] = <<c, "stopped">>
      BY <1>1, <1>2, <3>1
    <3>3. ASSUME NEW j \in (i - 1) + 1 .. Len(b) - 1 PROVE Tail(b)[j][1] # c
      <4>1. j \in 1 .. Len(b) - 1 /\ j + 1 \in i + 1 .. Len(b)
        BY <1>1, <3>1
      <4> QED BY <1>1, <1>2, <4>1
    <3> QED BY <1>1, <3>1, <3>2, <3>3 DEF LastWord
  <2> QED BY <2>1, <2>2
<1>3. ASSUME state = "stopped", \A j \in 1 .. Len(b) : b[j][1] # c
      PROVE LastWord(Tail(b), state2, c)
  <2>1. 1 \in 1 .. Len(b)
    BY <1>1
  <2>2. state2 = "stopped"
    BY <1>1, <1>3, <2>1
  <2>3. ASSUME NEW j \in 1 .. Len(b) - 1 PROVE Tail(b)[j][1] # c
    <3>1. j + 1 \in 1 .. Len(b)
      BY <1>1
    <3> QED BY <1>1, <1>3, <3>1
  <2> QED BY <1>1, <2>2, <2>3 DEF LastWord
<1> QED BY <1>2, <1>3 DEF LastWord

\* On an empty bus the last word is the state.
LEMMA WordOnEmpty ==
  ASSUME NEW state, NEW c, LastWord(<<>>, state, c)
  PROVE state = "stopped"
<1>1. Len(<<>>) = 0
  BY EmptySeq
<1> QED BY <1>1 DEF LastWord

----------------------------------------------------------------------------
(* Types.                                                                  *)

LEMMA PhasesOf ==
  /\ {"starting", "serving", "finishing", "joining", "joining_jobs", "draining", "closing",
      "off", "stopped", "failed", "dead"} \subseteq Phases
  /\ {"signal", "timeout", "max_events", NoOne} = Reasons
BY DEF Phases, Alive, Reasons

LEMMA GoesTyped ==
  ASSUME TypeInv, NEW p \in Procs, NEW f \in Phases, Goes(p, f)
  PROVE /\ phase' \in [Procs -> Phases] /\ phase'[p] = f
        /\ \A q \in Procs : q # p => phase'[q] = phase[q]
BY DEF Goes, TypeInv

LEMMA UnlockedTyped ==
  ASSUME TypeInv, NEW p \in Procs, Unlocked(p)
  PROVE lock' \in Procs \cup {NoOne}
BY DEF Unlocked, TypeInv

LEMMA HangsTyped ==
  ASSUME TypeInv, NEW p \in Procs, NEW who, Hangs(p, who)
  PROVE senders' \in [Procs -> SUBSET ({"daemon", "adapter"} \cup Managers)]
<1>1. senders[p] \ {who} \in SUBSET ({"daemon", "adapter"} \cup Managers)
  BY DEF TypeInv
<1> QED BY <1>1 DEF Hangs, TypeInv

\* One request changes.
LEMMA RequestTyped ==
  ASSUME TypeInv, NEW r \in Requests, NEW v \in RequestSet, req' = [req EXCEPT ![r] = v]
  PROVE req' \in [Requests -> RequestSet]
BY DEF TypeInv

LEMMA CompTyped ==
  ASSUME TypeInv, NEW p \in Procs, NEW c \in Components,
         NEW v \in {"starting", "idle", "running", "stopped"},
         comp' = [comp EXCEPT ![p][c] = v]
  PROVE comp' \in [Procs -> [Components -> {"starting", "idle", "running", "stopped"}]]
<1>1. [comp[p] EXCEPT ![c] = v] \in [Components -> {"starting", "idle", "running", "stopped"}]
  BY DEF TypeInv
<1> QED BY <1>1 DEF TypeInv

LEMMA EventTypes ==
  /\ \A r \in Requests : <<"request", r>> \in Events
  /\ \A m \in Managers : <<m, "running">> \in Events /\ <<m, "stopped">> \in Events
  /\ <<"snapshot", "running">> \in Events /\ <<"health_http", "stopped">> \in Events
BY DEF Events

LEMMA SentTyped ==
  ASSUME TypeInv, NEW p \in Procs, NEW e \in Events, Send(p, e)
  PROVE bus' \in [Procs -> Seq(Events)] /\ bus'[p] = Append(bus[p], e)
        /\ \A q \in Procs : q # p => bus'[q] = bus[q]
<1>1. Append(bus[p], e) \in Seq(Events)
  BY AppendProperties DEF TypeInv
<1> QED BY <1>1 DEF Send, TypeInv

LEMMA WrittenTyped ==
  ASSUME TypeInv, NEW p \in Procs, NEW type \in Requests \cup {"started", "stopped"}, Write(p, type)
  PROVE journal' \in Seq(Entries) /\ journal' = Append(journal, [by |-> p, type |-> type])
        /\ [by |-> p, type |-> type] \in Entries
<1>1. [by |-> p, type |-> type] \in Entries
  BY DEF Entries
<1> QED BY <1>1, AppendProperties DEF Write, TypeInv

LEMMA StartTypes ==
  ASSUME TypeInv, NEW p \in Procs,
         StartServer(p) \/ Serve(p) \/ StartFails(p) \/ RequestShutdown(p) \/ Kill(p)
  PROVE TypeInv'
<1>1. CASE StartServer(p) \/ StartFails(p)
  <2>1. phase' \in [Procs -> Phases]
    BY <1>1, PhasesOf, GoesTyped DEF StartServer, StartFails
  <2>2. lock' \in Procs \cup {NoOne}
    BY <1>1, UnlockedTyped DEF StartServer, StartFails, TypeInv
  <2> QED BY <1>1, <2>1, <2>2 DEF StartServer, StartFails, TypeInv, handlers
<1>2. CASE Serve(p)
  <2>1. /\ phase' \in [Procs -> Phases] /\ window' \in [Procs -> [start : 0 .. MaxTime, count : Nat]]
        /\ UNCHANGED <<role, lock, reason, req, counted, grants, now>>
    BY <1>2, PhasesOf, ZenonT(30) DEF Serve, Goes, TypeInv
  <2>2. CASE role[p] = "webhook"
    BY <1>2, <2>1, <2>2 DEF Serve, TypeInv
  <2>3. CASE role[p] # "webhook"
    <3>1. bus' \in [Procs -> Seq(Events)] /\ journal' \in Seq(Entries)
      BY <1>2, <2>3, EventTypes, SentTyped, WrittenTyped DEF Serve
    <3>2. managers' \in [Procs -> [Managers -> States]]
      <4>1. [m \in Managers |-> "spawned"] \in [Managers -> States]
        BY DEF States
      <4> QED BY <1>2, <2>3, <4>1 DEF Serve, TypeInv
    <3>3. senders' \in [Procs -> SUBSET ({"daemon", "adapter"} \cup Managers)]
      BY <1>2, <2>3, ZenonT(30) DEF Serve, TypeInv
    <3>4. comp' \in [Procs -> [Components -> {"starting", "idle", "running", "stopped"}]]
      <4>1. [c \in Components |-> IF c \in Managers THEN "idle" ELSE "running"]
              \in [Components -> {"starting", "idle", "running", "stopped"}]
        OBVIOUS
      <4>2. comp' = [comp EXCEPT ![p] = [c \in Components |-> IF c \in Managers THEN "idle" ELSE "running"]]
        BY <1>2, <2>3 DEF Serve
      <4>3. comp \in [Procs -> [Components -> {"starting", "idle", "running", "stopped"}]]
        BY DEF TypeInv
      <4> QED BY <4>1, <4>2, <4>3, Zenon
    <3> QED BY <2>1, <3>1, <3>2, <3>3, <3>4 DEF TypeInv
  <2> QED BY <2>2, <2>3
<1>3. CASE RequestShutdown(p)
  BY <1>3, PhasesOf DEF RequestShutdown, TypeInv, handlers
<1>4. CASE Kill(p)
  <2>1. req' \in [Requests -> RequestSet]
    <3>1. ASSUME NEW r \in Requests PROVE [req[r] EXCEPT !.step = "gone"] \in RequestSet
      <4>1. req[r] \in RequestSet
        BY DEF TypeInv
      <4> QED BY <4>1 DEF RequestSet, Steps
    <3> QED BY <1>4, <3>1 DEF Kill, TypeInv
  <2> QED BY <1>4, <2>1, PhasesOf DEF Kill, TypeInv, Goes, Unlocked
<1> QED BY <1>1, <1>2, <1>3, <1>4

LEMMA HandlerTypes ==
  ASSUME TypeInv, NEW r \in Requests, RequestInv(r),
         \/ \E p \in Procs : Begin(r, p) \/ \E input \in Inputs : Arrive(r, p, input)
         \/ Handle(r) \/ TooLarge(r) \/ Disconnect(r)
  PROVE TypeInv'
<1>1. req[r] \in RequestSet /\ (req[r].step # "none" => req[r].at \in Procs)
  BY DEF TypeInv, RequestInv
<1>2. ASSUME NEW p \in Procs, NEW input \in Inputs, Arrive(r, p, input) PROVE TypeInv'
  <2>1. req' \in [Requests -> RequestSet]
    <3>1. \A limited : Verdict(limited, input) \in Answers
      BY DEF Verdict, Answers
    <3> QED BY <1>2, <3>1 DEF Arrive, TypeInv, RequestSet, Steps
  <2>2. Renewed(window[p]) \in [start : 0 .. MaxTime, count : Nat]
    BY DEF Renewed, TypeInv
  <2>3. window' \in [Procs -> [start : 0 .. MaxTime, count : Nat]]
    <3>1. [Renewed(window[p]) EXCEPT !.count = @ + 1] \in [start : 0 .. MaxTime, count : Nat]
      BY <2>2
    <3> QED BY <1>2, <2>2, <3>1 DEF Arrive, TypeInv
  <2>4. grants' \in [Procs -> Seq(Nat)]
    <3>1. Append(grants[p], now) \in Seq(Nat)
      BY AppendProperties DEF TypeInv
    <3> QED BY <1>2, <3>1, ZenonT(30) DEF Arrive, TypeInv
  <2> QED BY <1>2, <2>1, <2>3, <2>4 DEF Arrive, TypeInv, daemons
<1>3. CASE Persist(r)
  <2>1. journal' \in Seq(Entries)
    BY <1>1, <1>3, WrittenTyped DEF Persist
  <2>2. req' \in [Requests -> RequestSet]
    BY <1>1, <1>3 DEF Persist, TypeInv, RequestSet, Steps
  <2> QED BY <1>3, <2>1, <2>2 DEF Persist, TypeInv, daemons
<1>11. ASSUME NEW p \in Procs, Begin(r, p) PROVE TypeInv'
  <2>1. req' \in [Requests -> RequestSet]
    BY <1>11 DEF Begin, TypeInv, RequestSet, Steps
  <2> QED BY <1>11, <2>1 DEF Begin, TypeInv, daemons
<1>5. \A code \in Answers \cup {0} : Answered(r, code) => req' \in [Requests -> RequestSet]
  <2> SUFFICES ASSUME NEW code \in Answers \cup {0}, Answered(r, code)
               PROVE req' \in [Requests -> RequestSet]
    OBVIOUS
  <2>1. [req[r] EXCEPT !.step = "answered", !.code = code] \in RequestSet
    BY <1>1 DEF RequestSet, Steps
  <2>2. req' = [req EXCEPT ![r] = [req[r] EXCEPT !.step = "answered", !.code = code]]
    BY DEF Answered, TypeInv
  <2> QED BY <2>1, <2>2, RequestTyped
<1>4. CASE PersistFails(r) \/ TooLarge(r)
  <2>1. (Answered(r, 500) \/ Answered(r, 413)) /\ 500 \in Answers /\ 413 \in Answers
    BY <1>4 DEF PersistFails, TooLarge, Answered, Answers
  <2>2. req' \in [Requests -> RequestSet]
    BY <1>5, <2>1
  <2> QED BY <1>4, <2>2 DEF PersistFails, TooLarge, TypeInv, daemons
<1>6. ASSUME NEW a \in {0, 1}, NEW b \in {0, 1}, req[r].at \in Procs, Count(req[r].at, a, b)
      PROVE counted' \in [Procs -> [accepted : Nat, rejected : Nat]]
  <2> DEFINE p == req[r].at
  <2>1. counted[p] \in [accepted : Nat, rejected : Nat]
    BY <1>6 DEF TypeInv
  <2>2. [accepted |-> counted[p].accepted + a, rejected |-> counted[p].rejected + b]
          \in [accepted : Nat, rejected : Nat]
    BY <2>1
  <2> QED BY <1>6, <2>2 DEF Count, TypeInv
<1>7. CASE AnswerRejected(r)
  <2>1. req[r].code \in Answers \cup {0}
    BY <1>1 DEF RequestSet
  <2>2. req' \in [Requests -> RequestSet]
    BY <1>5, <1>7, <2>1 DEF AnswerRejected
  <2>3. counted' \in [Procs -> [accepted : Nat, rejected : Nat]]
    BY <1>1, <1>6, <1>7 DEF AnswerRejected
  <2> QED BY <1>7, <2>2, <2>3 DEF AnswerRejected, TypeInv, daemons
<1>8. CASE AnswerAdapter(r)
  <2>1. req' \in [Requests -> RequestSet]
    BY <1>5, <1>8 DEF AnswerAdapter, Answers
  <2>2. counted' \in [Procs -> [accepted : Nat, rejected : Nat]]
    BY <1>1, <1>6, <1>8 DEF AnswerAdapter
  <2>3. bus' \in [Procs -> Seq(Events)]
    <3>1. bus' = bus \/ Send(req[r].at, <<"request", r>>)
      BY <1>8 DEF AnswerAdapter
    <3>2. req[r].at \in Procs
      BY <1>1, <1>8 DEF AnswerAdapter
    <3> QED BY <3>1, <3>2, EventTypes, SentTyped DEF TypeInv
  <2> QED BY <1>8, <2>1, <2>2, <2>3 DEF AnswerAdapter, TypeInv
<1>9. CASE AnswerCallback(r)
  <2>1. req' \in [Requests -> RequestSet]
    <3>1. req[r].code \in Answers \cup {0}
      BY <1>1 DEF RequestSet
    <3> QED BY <1>5, <1>9, <3>1 DEF AnswerCallback
  <2>2. reason' \in [Procs -> Reasons]
    BY <1>9, PhasesOf DEF AnswerCallback, TypeInv
  <2> QED BY <1>9, <2>1, <2>2 DEF AnswerCallback, TypeInv
<1>12. CASE CountCallback(r)
  <2>1. req' \in [Requests -> RequestSet]
    BY <1>1, <1>12 DEF CountCallback, TypeInv, RequestSet, Steps
  <2>2. counted' \in [Procs -> [accepted : Nat, rejected : Nat]]
    BY <1>1, <1>6, <1>12 DEF CountCallback
  <2> QED BY <1>12, <2>1, <2>2 DEF CountCallback, TypeInv, daemons
<1>10. CASE Disconnect(r)
  <2>1. req' \in [Requests -> RequestSet]
    BY <1>1, <1>10 DEF Disconnect, TypeInv, RequestSet, Steps
  <2> QED BY <1>10, <2>1 DEF Disconnect, TypeInv, daemons
<1> QED BY <1>2, <1>3, <1>4, <1>7, <1>8, <1>9, <1>10, <1>11, <1>12 DEF Handle

LEMMA ShutTypes ==
  ASSUME TypeInv, NEW p \in Procs, Shut(p) \/ \E m \in Managers : ManagerFails(p, m)
  PROVE TypeInv'
<1>1. ASSUME NEW m \in Managers, ManagerBegins(p, m) PROVE TypeInv'
  <2>1. bus' \in [Procs -> Seq(Events)]
    BY <1>1, EventTypes, SentTyped DEF ManagerBegins
  <2>2. managers' \in [Procs -> [Managers -> States]]
    BY <1>1 DEF ManagerBegins, TypeInv, States
  <2> QED BY <1>1, <2>1, <2>2 DEF ManagerBegins, TypeInv, handlers
<1>2. ASSUME NEW m \in Managers, ManagerEnds(p, m) PROVE TypeInv'
  <2>1. bus' \in [Procs -> Seq(Events)]
    <3>1. Send(p, <<m, "stopped">>)
      BY <1>2 DEF ManagerEnds, Farewell, Send
    <3> QED BY <3>1, EventTypes, SentTyped
  <2>2. managers' \in [Procs -> [Managers -> States]]
    BY <1>2 DEF ManagerEnds, TypeInv, States
  <2> QED BY <1>2, <2>1, <2>2 DEF ManagerEnds, TypeInv, handlers, Hangs
<1>3. ASSUME NEW m \in Managers, ManagerFails(p, m) PROVE TypeInv'
  <2>1. managers' \in [Procs -> [Managers -> States]]
    BY <1>3 DEF ManagerFails, TypeInv, States
  <2> QED BY <1>3, <2>1 DEF ManagerFails, TypeInv, handlers, Hangs
<1>4. CASE Supervise(p)
  <2>1. Head(bus[p]) \in Events /\ Tail(bus[p]) \in Seq(Events)
    BY <1>4, HeadTailProperties DEF Supervise, TypeInv
  <2>2. bus' \in [Procs -> Seq(Events)]
    BY <1>4, <2>1 DEF Supervise, TypeInv
  <2>3. CASE Head(bus[p])[1] = "request"
    <3>1. Head(bus[p])[2] \in Requests
      BY <2>1, <2>3 DEF Events, Managers
    <3>2. req' \in [Requests -> RequestSet]
      <4>1. [req[Head(bus[p])[2]] EXCEPT !.shown = TRUE] \in RequestSet
        <5>1. req[Head(bus[p])[2]] \in RequestSet
          BY <3>1 DEF TypeInv
        <5> QED BY <5>1 DEF RequestSet
      <4>2. req' = [req EXCEPT ![Head(bus[p])[2]] = [req[Head(bus[p])[2]] EXCEPT !.shown = TRUE]]
        BY <1>4, <2>3 DEF Supervise, TypeInv
      <4> QED BY <3>1, <4>1, <4>2, RequestTyped
    <3>3. comp' \in [Procs -> [Components -> {"starting", "idle", "running", "stopped"}]]
      <4>1. comp' = [comp EXCEPT ![p]["adapters"] = "running"] /\ "adapters" \in Components
        BY <1>4, <2>3 DEF Supervise, Components
      <4> QED BY <4>1, CompTyped
    <3> QED BY <1>4, <2>2, <3>2, <3>3 DEF Supervise, TypeInv
  <2>4. CASE Head(bus[p])[1] # "request"
    <3>1. Head(bus[p])[2] \in {"running", "stopped"}
      BY <2>1, <2>4 DEF Events
    <3>2. comp' \in [Procs -> [Components -> {"starting", "idle", "running", "stopped"}]]
      <4>1. \/ comp' = comp
            \/ /\ comp' = [comp EXCEPT ![p][Head(bus[p])[1]] = Head(bus[p])[2]]
               /\ Head(bus[p])[1] # "snapshot"
        BY <1>4, <2>4 DEF Supervise
      <4>2. Head(bus[p])[1] # "snapshot" => Head(bus[p])[1] \in Components
        BY <2>1, <2>4 DEF Events, Components
      <4> QED BY <3>1, <4>1, <4>2, CompTyped DEF TypeInv
    <3> QED BY <1>4, <2>2, <2>4, <3>2 DEF Supervise, TypeInv
  <2> QED BY <2>3, <2>4
<1>5. CASE StopServing(p)
  <2>1. bus' \in [Procs -> Seq(Events)]
    <3>1. bus' = bus \/ Send(p, <<"health_http", "stopped">>)
      BY <1>5 DEF StopServing
    <3> QED BY <3>1, EventTypes, SentTyped DEF TypeInv
  <2>2. phase' \in [Procs -> Phases]
    BY <1>5, PhasesOf, ZenonT(30) DEF StopServing, Goes, TypeInv
  <2>3. senders' \in [Procs -> SUBSET ({"daemon", "adapter"} \cup Managers)]
    <3>1. ClosedBus(p) \in SUBSET ({"daemon", "adapter"} \cup Managers)
      BY DEF ClosedBus, TypeInv
    <3> QED BY <1>5, <3>1 DEF StopServing, TypeInv
  <2> QED BY <1>5, <2>1, <2>2, <2>3 DEF StopServing, TypeInv, handlers, Unlocked
<1>8. CASE StopListening(p)
  <2>1. phase' \in [Procs -> Phases]
    BY <1>8, PhasesOf, GoesTyped DEF StopListening
  <2> QED BY <1>8, <2>1 DEF StopListening, TypeInv, handlers
<1>6. CASE JoinSubscriptions(p) \/ JoinJobs(p) \/ JoinSupervisor(p)
  <2>1. phase' \in [Procs -> Phases]
    BY <1>6, PhasesOf, GoesTyped DEF JoinSubscriptions, JoinJobs, JoinSupervisor, Join
  <2>2. senders' \in [Procs -> SUBSET ({"daemon", "adapter"} \cup Managers)]
    BY <1>6, HangsTyped DEF JoinSubscriptions, JoinJobs, JoinSupervisor, TypeInv
  <2> QED BY <1>6, <2>1, <2>2 DEF JoinSubscriptions, JoinJobs, JoinSupervisor, Join, TypeInv, handlers
<1>7. CASE Close(p)
  <2>1. journal' \in Seq(Entries)
    BY <1>7, WrittenTyped DEF Close, TypeInv
  <2>2. phase' \in [Procs -> Phases]
    BY <1>7, PhasesOf, GoesTyped DEF Close
  <2> QED BY <1>7, <2>1, <2>2 DEF Close, TypeInv, handlers
<1> QED BY <1>1, <1>2, <1>3, <1>4, <1>5, <1>6, <1>7, <1>8 DEF Shut

LEMMA TypeStep ==
  ASSUME ServersInv, ServersNext
  PROVE TypeInv'
<1>1. CASE Tick
  <2>1. now' \in 0 .. MaxTime
    BY <1>1, ServerBounds DEF Tick, ServersInv, TypeInv
  <2> QED BY <1>1, <2>1 DEF Tick, ServersInv, TypeInv, daemons, handlers
<1> QED BY <1>1, StartTypes, HandlerTypes, ShutTypes DEF ServersNext, ServersInv

----------------------------------------------------------------------------
(* The lock.                                                               *)

\* A change of phase is a change of one process.
LEMMA LockStep ==
  ASSUME ServersInv, ServersNext
  PROVE LockInv'
<1>1. TypeInv /\ LockInv
  BY DEF ServersInv
<1>2. CASE UNCHANGED <<phase, lock>>
  BY <1>1, <1>2 DEF LockInv
<1>3. ASSUME NEW p \in Procs, NEW f \in Phases, Goes(p, f), lock' = lock \/ Unlocked(p),
             f # "starting", f \notin Open
      PROVE LockInv'
  <2>1. phase'[p] = f /\ \A q \in Procs : q # p => phase'[q] = phase[q]
    BY <1>1, <1>3, GoesTyped
  <2> QED BY <1>1, <1>3, <2>1 DEF LockInv, Unlocked
<1>4. ASSUME NEW p \in Procs, StartServer(p) PROVE LockInv'
  <2>1. CASE LockFree
    <3>1. lock = NoOne /\ lock' = p /\ Goes(p, "starting")
      BY <1>4, <2>1 DEF StartServer, LockFree
    <3>2. \A q \in Procs : phase[q] # "starting" /\ phase[q] \notin Open
      BY <1>1, <3>1, ServerNames DEF LockInv
    <3>3. phase'[p] = "starting" /\ \A q \in Procs : q # p => phase'[q] = phase[q]
      BY <1>1, <3>1, PhasesOf, GoesTyped
    <3> QED BY <3>1, <3>2, <3>3 DEF LockInv
  <2>2. CASE ~LockFree
    BY <1>3, <1>4, <2>2, PhasesOf DEF StartServer, Open
  <2> QED BY <2>1, <2>2
<1>5. ASSUME NEW p \in Procs, Serve(p) \/ StopListening(p) PROVE LockInv'
  <2>1. /\ phase[p] \in {"starting", "serving"} /\ lock' = lock
        /\ Goes(p, "serving") \/ Goes(p, "finishing")
    BY <1>5 DEF Serve, StopListening
  <2>2. \A q \in Procs : q # p => phase'[q] = phase[q]
    BY <1>1, <2>1, PhasesOf, GoesTyped
  <2> QED BY <1>1, <2>1, <2>2 DEF LockInv, Open
<1>6. ASSUME NEW p \in Procs, StartFails(p) \/ Kill(p) \/ StopServing(p) PROVE LockInv'
  BY <1>3, <1>6, PhasesOf DEF StartFails, Kill, StopServing, Open
<1>7. ASSUME NEW p \in Procs,
             JoinSubscriptions(p) \/ JoinJobs(p) \/ JoinSupervisor(p) \/ Close(p)
      PROVE LockInv'
  BY <1>3, <1>7, PhasesOf DEF JoinSubscriptions, JoinJobs, Join, JoinSupervisor, Close, Open
<1>8. ASSUME NEW p \in Procs, NEW m \in Managers,
             ManagerBegins(p, m) \/ ManagerEnds(p, m) \/ ManagerFails(p, m)
      PROVE UNCHANGED <<phase, lock>>
  BY <1>8 DEF ManagerBegins, ManagerEnds, ManagerFails
<1>9. ASSUME NEW p \in Procs, Supervise(p) \/ RequestShutdown(p) PROVE UNCHANGED <<phase, lock>>
  BY <1>9 DEF Supervise, RequestShutdown
<1>10. ASSUME NEW r \in Requests, Handle(r) \/ TooLarge(r) \/ Disconnect(r)
       PROVE UNCHANGED <<phase, lock>>
  BY <1>10 DEF Handle, TooLarge, Disconnect, Persist, PersistFails, AnswerRejected, AnswerAdapter,
               CountCallback, AnswerCallback, daemons
<1>11. ASSUME NEW r \in Requests, NEW p \in Procs, NEW input \in Inputs, Arrive(r, p, input)
       PROVE UNCHANGED <<phase, lock>>
  BY <1>11 DEF Arrive, daemons
<1>13. ASSUME NEW r \in Requests, NEW p \in Procs, Begin(r, p) PROVE UNCHANGED <<phase, lock>>
  BY <1>13 DEF Begin, daemons
<1>12. Tick => UNCHANGED <<phase, lock>>
  BY DEF Tick, daemons
<1> QED BY <1>2, <1>4, <1>5, <1>6, <1>7, <1>8, <1>9, <1>10, <1>11, <1>12, <1>13
        DEF ServersNext, Shut

----------------------------------------------------------------------------
(* The journal.                                                            *)

\* The supervisor shows a request and changes nothing else of it.
LEMMA SuperviseEffect ==
  ASSUME TypeInv, NEW p \in Procs, Supervise(p), NEW u \in Requests
  PROVE /\ req'[u].at = req[u].at /\ req'[u].step = req[u].step /\ req'[u].code = req[u].code
        /\ req[u].shown \/ Head(bus[p]) = <<"request", u>> => req'[u].shown
        /\ bus[p] # <<>> /\ bus'[p] = Tail(bus[p]) /\ \A q \in Procs : q # p => bus'[q] = bus[q]
<1>1. Head(bus[p]) \in Events
  BY HeadTailProperties DEF Supervise, TypeInv
<1>2. /\ bus[p] # <<>> /\ bus'[p] = Tail(bus[p])
      /\ \A q \in Procs : q # p => bus'[q] = bus[q]
  BY DEF Supervise, TypeInv
<1>3. CASE Head(bus[p])[1] = "request"
  <2>1. Head(bus[p])[2] \in Requests
    BY <1>1, <1>3 DEF Events, Managers
  <2>2. PICK x \in Requests : x = Head(bus[p])[2]
    BY <2>1
  <2>3. req' = [req EXCEPT ![x] = [req[x] EXCEPT !.shown = TRUE]]
    BY <1>3, <2>2 DEF Supervise, TypeInv
  <2>4. Head(bus[p]) = <<"request", u>> => x = u
    BY <2>2
  <2>5. req[x] \in RequestSet
    BY DEF TypeInv
  <2>6. req'[u] = IF u = x THEN [req[x] EXCEPT !.shown = TRUE] ELSE req[u]
    BY <2>3 DEF TypeInv
  <2> QED BY <1>2, <2>4, <2>5, <2>6 DEF RequestSet
<1>4. CASE Head(bus[p])[1] # "request"
  <2>1. req' = req /\ Head(bus[p]) # <<"request", u>>
    BY <1>4 DEF Supervise
  <2> QED BY <1>2, <2>1
<1> QED BY <1>3, <1>4

\* What is over stays over.
LEMMA Settled ==
  ASSUME ServersInv, ServersNext
  PROVE /\ \A p \in Procs : phase[p] \in {"stopped", "dead"} => phase'[p] = phase[p]
        /\ \A r \in Requests : req[r].step = "gone" => req'[r].step = "gone"
<1>1. TypeInv
  BY DEF ServersInv
<1> DEFINE P == \A p \in Procs : phase[p] \in {"stopped", "dead"} => phase'[p] = phase[p]
           R == \A r \in Requests : req[r].step = "gone" => req'[r].step = "gone"
<1>2. ASSUME NEW p \in Procs, NEW f \in Phases, Goes(p, f), phase[p] \notin {"stopped", "dead"} PROVE P
  BY <1>1, <1>2, GoesTyped
<1>3. phase' = phase => P
  OBVIOUS
<1>4. req' = req => R
  OBVIOUS
<1>5. ASSUME NEW r \in Requests, NEW v, req' = [req EXCEPT ![r] = v],
             req[r].step = "gone" => v.step = "gone"
      PROVE R
  BY <1>1, <1>5 DEF TypeInv
<1>6. ASSUME NEW p \in Procs, StartServer(p) \/ Serve(p) \/ StartFails(p)
             \/ StopListening(p) \/ StopServing(p)
      PROVE P /\ R
  <2>1. R
    BY <1>4, <1>6 DEF StartServer, Serve, StartFails, StopListening, StopServing, handlers
  <2>2. P
    BY <1>2, <1>6, PhasesOf DEF StartServer, Serve, StartFails, StopListening, StopServing
  <2> QED BY <2>1, <2>2
<1>7. ASSUME NEW p \in Procs,
             JoinSubscriptions(p) \/ JoinJobs(p) \/ JoinSupervisor(p) \/ Close(p)
      PROVE P /\ R
  <2>1. R
    BY <1>4, <1>7 DEF JoinSubscriptions, JoinJobs, Join, JoinSupervisor, Close, handlers
  <2>2. P
    BY <1>2, <1>7, PhasesOf DEF JoinSubscriptions, JoinJobs, Join, JoinSupervisor, Close
  <2> QED BY <2>1, <2>2
<1>8. ASSUME NEW p \in Procs, Kill(p) PROVE P /\ R
  <2>1. P
    BY <1>2, <1>8, PhasesOf DEF Kill, Alive
  <2>2. R
    BY <1>8 DEF Kill
  <2> QED BY <2>1, <2>2
<1>9. ASSUME NEW p \in Procs, NEW m \in Managers,
             ManagerBegins(p, m) \/ ManagerEnds(p, m) \/ ManagerFails(p, m)
      PROVE phase' = phase /\ req' = req
  BY <1>9 DEF ManagerBegins, ManagerEnds, ManagerFails, handlers
<1>10. ASSUME NEW p \in Procs, RequestShutdown(p) PROVE phase' = phase /\ req' = req
  BY <1>10 DEF RequestShutdown, handlers
<1>11. ASSUME NEW p \in Procs, Supervise(p) PROVE P /\ R
  <2>1. phase' = phase
    BY <1>11 DEF Supervise
  <2>2. \A r \in Requests : req'[r].step = req[r].step
    BY <1>1, <1>11, SuperviseEffect
  <2> QED BY <2>1, <2>2
<1>12. ASSUME NEW r \in Requests, Handle(r) \/ TooLarge(r) \/ Disconnect(r) PROVE P /\ R
  <2>1. phase' = phase
    BY <1>12 DEF Handle, TooLarge, Disconnect, Persist, PersistFails, AnswerRejected, AnswerAdapter,
                 CountCallback, AnswerCallback, daemons
  <2>2. /\ req[r].step # "gone" /\ \A u \in Requests : u # r => req'[u] = req[u]
    BY <1>1, <1>12 DEF Handle, TooLarge, Disconnect, Persist, PersistFails, AnswerRejected,
                 AnswerAdapter, CountCallback, AnswerCallback, Answered, TypeInv
  <2> QED BY <2>1, <2>2
<1>13. ASSUME NEW r \in Requests, NEW p \in Procs, NEW input \in Inputs, Arrive(r, p, input)
       PROVE P /\ R
  <2>1. phase' = phase
    BY <1>13 DEF Arrive, daemons
  <2>2. /\ req[r].step # "gone" /\ \A u \in Requests : u # r => req'[u] = req[u]
    BY <1>1, <1>13 DEF Arrive, TypeInv
  <2> QED BY <2>1, <2>2
<1>16. ASSUME NEW r \in Requests, NEW p \in Procs, Begin(r, p) PROVE P /\ R
  <2>1. phase' = phase
    BY <1>16 DEF Begin, daemons
  <2>2. /\ req[r].step # "gone" /\ \A u \in Requests : u # r => req'[u] = req[u]
    BY <1>1, <1>16 DEF Begin, TypeInv
  <2> QED BY <2>1, <2>2
<1>14. Tick => phase' = phase /\ req' = req
  BY DEF Tick, daemons, handlers
<1>15. P /\ R
  <2> HIDE DEF P, R
  <2> QED BY <1>3, <1>4, <1>6, <1>7, <1>8, <1>9, <1>10, <1>11, <1>12, <1>13, <1>14, <1>16
          DEF ServersNext, Shut
<1> QED BY <1>15

\* What is written, and by whom.
Due(e) ==
  \/ e.type = "started" /\ phase[e.by] = "starting"
  \/ e.type = "stopped" /\ phase[e.by] = "closing" /\ phase'[e.by] = "stopped"
  \/ e.type \in Requests /\ (phase[e.by] \in Open \/ req'[e.type].step = "gone")

LEMMA JournalEffect ==
  ASSUME ServersInv, ServersNext
  PROVE journal' = journal \/ \E e \in Entries : journal' = Append(journal, e) /\ Due(e)
<1>1. TypeInv /\ \A r \in Requests : RequestInv(r)
  BY DEF ServersInv
<1> DEFINE Goal == journal' = journal \/ \E e \in Entries : journal' = Append(journal, e) /\ Due(e)
<1>2. ASSUME NEW p \in Procs, Serve(p) PROVE Goal
  <2>1. CASE role[p] = "webhook"
    BY <1>2, <2>1 DEF Serve
  <2>2. CASE role[p] # "webhook"
    <3>1. Write(p, "started") /\ phase[p] = "starting"
      BY <1>2, <2>2 DEF Serve
    <3>2. /\ journal' = Append(journal, [by |-> p, type |-> "started"])
          /\ [by |-> p, type |-> "started"] \in Entries
      BY <1>1, <3>1, WrittenTyped
    <3>3. Due([by |-> p, type |-> "started"])
      BY <3>1 DEF Due
    <3> QED BY <3>2, <3>3
  <2> QED BY <2>1, <2>2
<1>3. ASSUME NEW p \in Procs, Close(p) PROVE Goal
  <2>1. CASE journal' = journal
    BY <2>1
  <2>2. CASE journal' # journal
    <3>1. Write(p, "stopped") /\ Goes(p, "stopped") /\ phase[p] = "closing"
      BY <1>3, <2>2 DEF Close
    <3>2. /\ journal' = Append(journal, [by |-> p, type |-> "stopped"])
          /\ [by |-> p, type |-> "stopped"] \in Entries
      BY <1>1, <3>1, WrittenTyped
    <3>3. phase'[p] = "stopped"
      BY <1>1, <3>1, PhasesOf, GoesTyped
    <3>4. Due([by |-> p, type |-> "stopped"])
      BY <3>1, <3>3 DEF Due
    <3> QED BY <3>2, <3>4
  <2> QED BY <2>1, <2>2
<1>4. ASSUME NEW r \in Requests, Persist(r) PROVE Goal
  <2>1. /\ req[r].at \in Procs /\ Write(req[r].at, r)
        /\ req[r].step = "persisting" => phase[req[r].at] \in Open
    BY <1>1, <1>4, ZenonT(30) DEF Persist, RequestInv, Flying
  <2>2. req[r].step # "persisting" => req'[r].step = "gone"
    BY <1>1, <1>4 DEF Persist, TypeInv, RequestSet
  <2>3. /\ journal' = Append(journal, [by |-> req[r].at, type |-> r])
        /\ [by |-> req[r].at, type |-> r] \in Entries
    BY <1>1, <2>1, WrittenTyped
  <2>4. Due([by |-> req[r].at, type |-> r])
    BY <2>1, <2>2 DEF Due
  <2> QED BY <2>3, <2>4
<1>5. ASSUME NEW p \in Procs,
             \/ StartServer(p) \/ StartFails(p) \/ RequestShutdown(p) \/ Kill(p) \/ Supervise(p)
             \/ StopListening(p) \/ StopServing(p)
             \/ JoinSubscriptions(p) \/ JoinJobs(p) \/ JoinSupervisor(p)
      PROVE Goal
  BY <1>5 DEF StartServer, StartFails, RequestShutdown, Kill, Supervise, StopListening, StopServing,
              JoinSubscriptions, JoinJobs, Join, JoinSupervisor
<1>6. ASSUME NEW p \in Procs, NEW m \in Managers,
             ManagerBegins(p, m) \/ ManagerEnds(p, m) \/ ManagerFails(p, m)
      PROVE Goal
  BY <1>6 DEF ManagerBegins, ManagerEnds, ManagerFails
<1>7. ASSUME NEW r \in Requests,
             \/ PersistFails(r) \/ AnswerRejected(r) \/ AnswerAdapter(r)
             \/ CountCallback(r) \/ AnswerCallback(r) \/ TooLarge(r) \/ Disconnect(r)
      PROVE Goal
  BY <1>7 DEF PersistFails, AnswerRejected, AnswerAdapter, CountCallback, AnswerCallback, TooLarge,
              Disconnect
<1>8. ASSUME NEW r \in Requests, NEW p \in Procs,
             Begin(r, p) \/ \E input \in Inputs : Arrive(r, p, input)
      PROVE Goal
  BY <1>8 DEF Begin, Arrive
<1>9. Tick => Goal
  BY DEF Tick
<1>10. Goal
  <2> HIDE DEF Goal
  <2> QED BY <1>2, <1>3, <1>4, <1>5, <1>6, <1>7, <1>8, <1>9 DEF ServersNext, Shut, Handle
<1> QED BY <1>10

\* Entries stay.
LEMMA JournalGrows ==
  ASSUME ServersInv, ServersNext, NEW x, Has(journal, x)
  PROVE Has(journal', x)
<1>1. CASE journal' = journal
  BY <1>1 DEF Has
<1>2. CASE journal' # journal
  <2>1. PICK e \in Entries : journal' = Append(journal, e)
    BY <1>2, JournalEffect
  <2>2. journal \in Seq(Entries)
    BY DEF ServersInv, TypeInv
  <2>3. Has(Append(journal, e), x)
    BY <2>2, HasAppended
  <2> QED BY <2>1, <2>3 DEF Has
<1> QED BY <1>1, <1>2

LEMMA JournalStep ==
  ASSUME ServersInv, ServersNext
  PROVE JournalInv'
<1>1. /\ journal \in Seq(Entries)
      /\ \A i \in 1 .. Len(journal) : journal[i].type = "stopped" => phase[journal[i].by] = "stopped"
      /\ \A i, j \in 1 .. Len(journal) :
           journal[i].type = "stopped" /\ i < j /\ journal[j].by = journal[i].by
             => journal[j].type \in Requests /\ req[journal[j].type].step = "gone"
  BY DEF ServersInv, TypeInv, JournalInv, StoppedBehindAnswers
<1>2. /\ \A p \in Procs : phase[p] = "stopped" => phase'[p] = "stopped"
      /\ \A r \in Requests : req[r].step = "gone" => req'[r].step = "gone"
  BY Settled
<1>3. Len(journal) \in Nat /\ \A i \in 1 .. Len(journal) : journal[i] \in Entries /\ journal[i].by \in Procs
  <2>1. Len(journal) \in Nat /\ \A i \in 1 .. Len(journal) : journal[i] \in Entries
    BY <1>1, LenProperties, ElementOfSeq
  <2> QED BY <2>1 DEF Entries
<1>4. CASE journal' = journal
  <2>1. \A i \in 1 .. Len(journal) : journal[i].type = "stopped" => phase'[journal[i].by] = "stopped"
    BY <1>1, <1>2, <1>3
  <2>2. StoppedBehindAnswers'
    BY <1>1, <1>2, <1>4 DEF StoppedBehindAnswers
  <2> QED BY <1>4, <2>1, <2>2 DEF JournalInv
<1>5. CASE journal' # journal
  <2>1. PICK e \in Entries : journal' = Append(journal, e) /\ Due(e)
    BY <1>5, JournalEffect
  <2>2. /\ Len(journal') = Len(journal) + 1 /\ journal'[Len(journal) + 1] = e
        /\ \A i \in 1 .. Len(journal) : journal'[i] = journal[i]
    BY <1>1, <2>1, AppendProperties
  <2>3. ASSUME NEW i \in 1 .. Len(journal'), journal'[i].type = "stopped"
        PROVE phase'[journal'[i].by] = "stopped"
    <3>1. CASE i = Len(journal) + 1
      BY <2>1, <2>2, <2>3, <3>1, ServerNames DEF Due
    <3>2. CASE i # Len(journal) + 1
      <4>1. i \in 1 .. Len(journal)
        BY <1>3, <2>2, <3>2
      <4> QED BY <1>1, <1>2, <1>3, <2>2, <2>3, <4>1
    <3> QED BY <3>1, <3>2
  <2>4. ASSUME NEW i \in 1 .. Len(journal'), NEW j \in 1 .. Len(journal'),
               journal'[i].type = "stopped", i < j, journal'[j].by = journal'[i].by
        PROVE journal'[j].type \in Requests /\ req'[journal'[j].type].step = "gone"
    <3>1. i \in 1 .. Len(journal) /\ (j \in 1 .. Len(journal) \/ j = Len(journal) + 1)
      BY <1>3, <2>2, <2>4
    <3>2. journal[i].type = "stopped" /\ phase[journal[i].by] = "stopped" /\ journal'[i] = journal[i]
      BY <1>1, <2>2, <2>4, <3>1
    <3>3. CASE j = Len(journal) + 1
      <4>1. phase[e.by] = "stopped" /\ journal'[j] = e
        BY <2>2, <2>4, <3>2, <3>3
      <4> QED BY <2>1, <4>1 DEF Due, Open
    <3>4. CASE j \in 1 .. Len(journal)
      BY <1>1, <1>2, <2>2, <2>4, <3>1, <3>2, <3>4
    <3> QED BY <3>1, <3>3, <3>4
  <2> QED BY <2>3, <2>4 DEF JournalInv, StoppedBehindAnswers
<1> QED BY <1>4, <1>5

----------------------------------------------------------------------------
(* The requests.                                                           *)

LEMMA BusGrows ==
  ASSUME TypeInv, bus' = bus \/ \E q \in Procs, e \in Events : Send(q, e),
         NEW p \in Procs, NEW x, Has(bus[p], x)
  PROVE Has(bus'[p], x)
<1>1. CASE bus' = bus
  BY <1>1 DEF Has
<1>2. ASSUME NEW q \in Procs, NEW e \in Events, Send(q, e) PROVE Has(bus'[p], x)
  <2>1. bus'[q] = Append(bus[q], e) /\ \A t \in Procs : t # q => bus'[t] = bus[t]
    BY <1>2, SentTyped
  <2>2. bus[p] \in Seq(Events)
    BY DEF TypeInv
  <2>3. Has(Append(bus[p], e), x)
    BY <2>2, HasAppended
  <2>4. bus'[p] = Append(bus[p], e) \/ bus'[p] = bus[p]
    BY <2>1
  <2> QED BY <2>3, <2>4 DEF Has
<1> QED BY <1>1, <1>2

\* A request the step does not touch, but perhaps shows.
LEMMA RequestKept ==
  ASSUME ServersInv, ServersNext, NEW u \in Requests, role' = role,
         req'[u].at = req[u].at, req'[u].step = req[u].step, req'[u].code = req[u].code,
         req[u].shown => req'[u].shown,
         Flying(u) => phase'[req[u].at] \in Open,
         req[u].at \in Procs /\ Has(bus[req[u].at], <<"request", u>>) =>
           req'[u].shown \/ Has(bus'[req[u].at], <<"request", u>>)
  PROVE RequestInv(u)'
<1>1. RequestInv(u)
  BY DEF ServersInv
<1>2. Recorded(u) => Recorded(u)'
  BY JournalGrows DEF Recorded
<1> QED BY <1>1, <1>2 DEF RequestInv, Flying

LEMMA FlyingKept ==
  ASSUME ServersInv, NEW u \in Requests, NEW p \in Procs, NEW f \in Phases, Goes(p, f),
         phase[p] \notin Open \/ f \in Open \/ u \notin InFlight(p)
  PROVE Flying(u) => phase'[req[u].at] \in Open
<1>1. TypeInv /\ RequestInv(u)
  BY DEF ServersInv
<1>2. phase'[p] = f /\ \A q \in Procs : q # p => phase'[q] = phase[q]
  BY <1>1, GoesTyped
<1>3. Flying(u) => req[u].at \in Procs /\ phase[req[u].at] \in Open
  BY <1>1 DEF Flying, RequestInv
<1>4. Flying(u) /\ req[u].at = p => u \in InFlight(p)
  BY DEF Flying, InFlight
<1> QED BY <1>2, <1>3, <1>4

AnsweredCounted(r) == AnswerCallback(r) /\ req'[r].step = "answered"

\* What a handler's step leaves alone.
LEMMA HandlerEffect ==
  ASSUME TypeInv, NEW r \in Requests, Handle(r) \/ TooLarge(r) \/ Disconnect(r)
  PROVE /\ UNCHANGED <<role, lock, phase, managers, senders, comp, window, grants, now>>
        /\ \A u \in Requests : u # r => req'[u] = req[u]
        /\ req[r].step \in {"receiving", "persisting", "persisted", "counted", "orphan"}
        /\ req'[r].at = req[r].at
        /\ bus' = bus \/ (Send(req[r].at, <<"request", r>>) /\ req[r].step = "persisted")
        /\ req'[r].step \in {"persisted", "counted", "answered", "orphan", "gone"}
        /\ req'[r].code = 429 => req[r].code = 429
        /\ req[r].step = "counted" => AnsweredCounted(r)
<1>1. /\ UNCHANGED <<role, lock, phase, managers, senders, comp, window, grants, now>>
      /\ bus' = bus \/ (Send(req[r].at, <<"request", r>>) /\ req[r].step = "persisted")
      /\ req[r].step \in {"receiving", "persisting", "persisted", "counted", "orphan"}
      /\ req[r].step = "counted" => AnswerCallback(r)
  BY DEF Handle, TooLarge, Disconnect, Persist, PersistFails, AnswerRejected, AnswerAdapter,
         CountCallback, AnswerCallback, daemons
<1>2. req[r] \in RequestSet
  BY DEF TypeInv
<1>3. PICK step, code :
        /\ req' = [req EXCEPT ![r] = [req[r] EXCEPT !.step = step, !.code = code]]
        /\ step \in {"persisted", "counted", "answered", "orphan", "gone"}
        /\ code = req[r].code \/ code \in {202, 413, 500}
        /\ AnswerCallback(r) => step = "answered"
  <2>1. CASE \/ PersistFails(r) \/ AnswerRejected(r) \/ AnswerAdapter(r) \/ AnswerCallback(r)
             \/ TooLarge(r)
    <3>1. \A code : Answered(r, code) =>
            req' = [req EXCEPT ![r] = [req[r] EXCEPT !.step = "answered", !.code = code]]
      BY DEF Answered, TypeInv
    <3>2. \/ Answered(r, req[r].code) \/ Answered(r, 202) \/ Answered(r, 413) \/ Answered(r, 500)
      BY <2>1 DEF PersistFails, AnswerRejected, AnswerAdapter, AnswerCallback, TooLarge, Answered
    <3>3. PICK code : Answered(r, code) /\ (code = req[r].code \/ code \in {202, 413, 500})
      <4>1. CASE Answered(r, req[r].code)
        BY <4>1
      <4>2. CASE Answered(r, 202)
        BY <4>2
      <4>3. CASE Answered(r, 413)
        BY <4>3
      <4>4. CASE Answered(r, 500)
        BY <4>4
      <4> QED BY <3>2, <4>1, <4>2, <4>3, <4>4
    <3>4. "answered" \in {"persisted", "counted", "answered", "orphan", "gone"}
      OBVIOUS
    <3>5. req' = [req EXCEPT ![r] = [req[r] EXCEPT !.step = "answered", !.code = code]]
      BY <3>1, <3>3
    <3> QED BY <3>3, <3>4, <3>5, Zenon
  <2>2. CASE Persist(r) \/ Disconnect(r) \/ CountCallback(r)
    <3>1. \/ req' = [req EXCEPT ![r].step = "orphan"] \/ req' = [req EXCEPT ![r].step = "gone"]
          \/ req' = [req EXCEPT ![r].step = "persisted"] \/ req' = [req EXCEPT ![r].step = "counted"]
      BY <2>2 DEF Persist, Disconnect, CountCallback
    <3>2. PICK step \in {"orphan", "gone", "persisted", "counted"} : req' = [req EXCEPT ![r].step = step]
      BY <3>1
    <3>3. req' = [req EXCEPT ![r] = [req[r] EXCEPT !.step = step, !.code = req[r].code]]
      BY <1>2, <3>2 DEF TypeInv, RequestSet
    <3>4. ~AnswerCallback(r)
      BY <2>2 DEF Persist, Disconnect, CountCallback, AnswerCallback
    <3>5. step \in {"persisted", "counted", "answered", "orphan", "gone"}
      OBVIOUS
    <3> QED BY <3>3, <3>4, <3>5, Zenon
  <2> QED BY <2>1, <2>2 DEF Handle
<1>4. /\ req'[r] = [req[r] EXCEPT !.step = step, !.code = code]
      /\ \A u \in Requests : u # r => req'[u] = req[u]
  BY <1>3 DEF TypeInv
<1>5. req'[r].at = req[r].at /\ req'[r].step = step /\ req'[r].code = code
  BY <1>2, <1>4 DEF RequestSet
<1>6. req'[r].code = 429 => req[r].code = 429
  BY <1>3, <1>5
<1>7. req[r].step = "counted" => AnsweredCounted(r)
  BY <1>1, <1>3, <1>5 DEF AnsweredCounted
<1> QED BY <1>1, <1>3, <1>4, <1>5, <1>6, <1>7

LEMMA HandlerOthers ==
  ASSUME TypeInv, NEW r \in Requests, Handle(r) \/ TooLarge(r) \/ Disconnect(r)
  PROVE \A v \in Requests : v # r => req'[v] = req[v]
BY DEF Handle, TooLarge, Disconnect, Persist, PersistFails, AnswerRejected, AnswerAdapter,
       CountCallback, AnswerCallback, Answered, TypeInv

\* The request a handler works on.
LEMMA HandledRequest ==
  ASSUME ServersInv, ServersNext, TypeInv', NEW r \in Requests,
         Handle(r) \/ TooLarge(r) \/ Disconnect(r)
  PROVE RequestInv(r)'
<1>1. /\ TypeInv /\ RequestInv(r) /\ req[r] \in RequestSet /\ req[r].at \in Procs
      /\ req'[r].at = req[r].at /\ role' = role /\ phase' = phase /\ senders' = senders
  <2>1. TypeInv /\ RequestInv(r)
    BY DEF ServersInv
  <2>2. /\ req'[r].at = req[r].at /\ UNCHANGED <<role, phase, senders>>
        /\ req[r].step # "none"
    BY <2>1, HandlerEffect
  <2>3. req[r] \in RequestSet /\ req[r].at \in Procs
    BY <2>1, <2>2 DEF TypeInv, RequestInv
  <2> QED BY <2>1, <2>2, <2>3
<1>2. Recorded(r) => Recorded(r)'
  BY <1>1, JournalGrows DEF Recorded
<1>3. CASE Persist(r)
  <2>1. /\ req'[r].step = IF req[r].step = "orphan" THEN "gone" ELSE "persisted"
        /\ req'[r].code = req[r].code /\ req[r].step \in {"persisting", "orphan"}
    BY <1>1, <1>3 DEF Persist, TypeInv, RequestSet
  <2>2. Recorded(r)'
    <3>1. /\ journal' = Append(journal, [by |-> req[r].at, type |-> r])
          /\ [by |-> req[r].at, type |-> r] \in Entries /\ journal \in Seq(Entries)
      BY <1>1, <1>3, WrittenTyped DEF Persist, TypeInv
    <3>2. Has(journal', [by |-> req[r].at, type |-> r])
      BY <3>1, HasNew
    <3> QED BY <1>1, <3>2 DEF Recorded
  <2> QED BY <1>1, <2>1, <2>2 DEF RequestInv, Flying
<1>4. CASE PersistFails(r) \/ TooLarge(r)
  <2>1. CASE PersistFails(r)
    <3>1. req'[r].step = "answered" /\ req'[r].code = 500
      BY <1>1, <2>1 DEF PersistFails, Answered, TypeInv, RequestSet
    <3> QED BY <1>1, <3>1 DEF RequestInv, Flying
  <2>2. CASE TooLarge(r)
    <3>1. req'[r].step = "answered" /\ req'[r].code = 413
      BY <1>1, <2>2 DEF TooLarge, Answered, TypeInv, RequestSet
    <3> QED BY <1>1, <3>1 DEF RequestInv, Flying
  <2> QED BY <1>4, <2>1, <2>2
<1>5. CASE Disconnect(r)
  <2>1. req'[r].step \in {"orphan", "gone"}
    BY <1>1, <1>5 DEF Disconnect, TypeInv, RequestSet
  <2> QED BY <1>1, <2>1 DEF RequestInv, Flying
<1>6. CASE AnswerRejected(r)
  <2>1. /\ req'[r].step = "answered" /\ req'[r].code = req[r].code /\ req[r].code # 202
        /\ req[r].step = "persisted"
    BY <1>1, <1>6 DEF AnswerRejected, Answered, TypeInv, RequestSet
  <2> QED BY <1>1, <1>2, <2>1 DEF RequestInv, Flying
<1>7. CASE AnswerCallback(r)
  <2>1. /\ req'[r].step = "answered" /\ req'[r].code = req[r].code /\ req[r].step = "counted"
    BY <1>1, <1>7 DEF AnswerCallback, Answered, TypeInv, RequestSet
  <2>2. Recorded(r)' /\ role[req[r].at] = "webhook"
    BY <1>1, <1>2, <2>1 DEF RequestInv
  <2> QED BY <1>1, <2>1, <2>2 DEF RequestInv, Flying
<1>9. CASE CountCallback(r)
  <2>1. /\ req'[r].step = "counted" /\ req'[r].code = req[r].code /\ req[r].step = "persisted"
        /\ req[r].code = 202 /\ role[req[r].at] = "webhook"
    BY <1>1, <1>9 DEF CountCallback, TypeInv, RequestSet
  <2>2. Recorded(r)' /\ phase[req[r].at] \in Open
    BY <1>1, <1>2, <2>1 DEF RequestInv, Flying
  <2> QED BY <1>1, <2>1, <2>2 DEF RequestInv, Flying
<1>8. CASE AnswerAdapter(r)
  <2>1. req[r].step = "persisted" /\ role[req[r].at] = "gateway" /\ phase[req[r].at] \in Open
    BY <1>1, <1>8 DEF AnswerAdapter, RequestInv, Flying
  <2>2. "adapter" \in senders[req[r].at]
    BY <1>1, <2>1 DEF ServersInv, DaemonInv
  <2>3. Send(req[r].at, <<"request", r>>) /\ Answered(r, 202)
    BY <1>8, <2>2 DEF AnswerAdapter
  <2>4. req'[r].step = "answered" /\ req'[r].code = 202
    BY <1>1, <2>3 DEF Answered, TypeInv, RequestSet
  <2>5. Has(bus'[req[r].at], <<"request", r>>)
    <3>1. bus'[req[r].at] = Append(bus[req[r].at], <<"request", r>>) /\ <<"request", r>> \in Events
      BY <1>1, <2>3, EventTypes, SentTyped
    <3>2. bus[req[r].at] \in Seq(Events)
      BY <1>1 DEF TypeInv
    <3> QED BY <3>1, <3>2, HasNew
  <2> QED BY <1>1, <1>2, <2>1, <2>4, <2>5 DEF RequestInv, Flying
<1> QED BY <1>3, <1>4, <1>5, <1>6, <1>7, <1>8, <1>9 DEF Handle

LEMMA RequestStep ==
  ASSUME ServersInv, ServersNext, TypeInv', NEW u \in Requests
  PROVE RequestInv(u)'
<1>1. /\ TypeInv /\ RequestInv(u) /\ req[u] \in RequestSet
      /\ Flying(u) => phase[req[u].at] \in Open
  <2>1. TypeInv /\ RequestInv(u)
    BY DEF ServersInv
  <2>2. req[u] \in RequestSet
    BY <2>1 DEF TypeInv
  <2>3. Flying(u) => phase[req[u].at] \in Open
    BY <2>1 DEF RequestInv
  <2> QED BY <2>1, <2>2, <2>3
<1>2. ASSUME role' = role, req'[u] = req[u], Flying(u) => phase'[req[u].at] \in Open,
             bus' = bus \/ \E q \in Procs, e \in Events : Send(q, e)
      PROVE RequestInv(u)'
  <2>1. req[u].at \in Procs /\ Has(bus[req[u].at], <<"request", u>>) =>
           Has(bus'[req[u].at], <<"request", u>>)
    BY <1>1, <1>2, BusGrows
  <2> QED BY <1>2, <2>1, RequestKept
<1>3. ASSUME NEW p \in Procs, StartServer(p) \/ StartFails(p) PROVE RequestInv(u)'
  <2>1. role' = role /\ req' = req /\ bus' = bus /\ phase[p] \notin Open
    BY <1>3 DEF StartServer, StartFails, handlers, Open
  <2>2. Goes(p, "starting") \/ Goes(p, "failed")
    BY <1>3 DEF StartServer, StartFails
  <2>3. Flying(u) => phase'[req[u].at] \in Open
    BY <2>1, <2>2, PhasesOf, FlyingKept
  <2> QED BY <1>2, <2>1, <2>3
<1>4. ASSUME NEW p \in Procs, Serve(p) PROVE RequestInv(u)'
  <2>1. role' = role /\ req' = req /\ phase[p] \notin Open /\ Goes(p, "serving")
        /\ (bus' = bus \/ Send(p, <<"snapshot", "running">>))
    BY <1>4 DEF Serve, Open
  <2>2. Flying(u) => phase'[req[u].at] \in Open
    BY <2>1, PhasesOf, FlyingKept
  <2> QED BY <1>2, <2>1, <2>2, EventTypes
<1>5. ASSUME NEW p \in Procs, JoinSubscriptions(p) \/ JoinJobs(p) \/ JoinSupervisor(p) \/ Close(p)
      PROVE RequestInv(u)'
  <2>1. role' = role /\ req' = req /\ phase[p] \notin Open /\ bus' = bus
    BY <1>5 DEF JoinSubscriptions, JoinJobs, Join, JoinSupervisor, Close, handlers, Open
  <2>2. \E f \in Phases : Goes(p, f)
    BY <1>5, PhasesOf DEF JoinSubscriptions, JoinJobs, Join, JoinSupervisor, Close
  <2>3. Flying(u) => phase'[req[u].at] \in Open
    BY <2>1, <2>2, FlyingKept
  <2> QED BY <1>2, <2>1, <2>3
<1>6. ASSUME NEW p \in Procs, StopServing(p) PROVE RequestInv(u)'
  <2>1. role' = role /\ req' = req /\ u \notin InFlight(p)
        /\ (bus' = bus \/ Send(p, <<"health_http", "stopped">>))
        /\ (Goes(p, "stopped") \/ Goes(p, "joining"))
    BY <1>6 DEF StopServing, Quiescent, handlers
  <2>2. Flying(u) => phase'[req[u].at] \in Open
    BY <2>1, PhasesOf, FlyingKept
  <2> QED BY <1>2, <2>1, <2>2, EventTypes
<1>14. ASSUME NEW p \in Procs, StopListening(p) PROVE RequestInv(u)'
  <2>1. role' = role /\ req' = req /\ bus' = bus /\ Goes(p, "finishing") /\ "finishing" \in Open
    BY <1>14 DEF StopListening, handlers, Open
  <2>2. Flying(u) => phase'[req[u].at] \in Open
    BY <2>1, PhasesOf, FlyingKept
  <2> QED BY <1>2, <2>1, <2>2
<1>7. ASSUME NEW p \in Procs, Kill(p) PROVE RequestInv(u)'
  <2>1. role' = role /\ bus' = bus /\ Goes(p, "dead")
    BY <1>7 DEF Kill
  <2>2. CASE req'[u] # req[u]
    <3>1. req'[u] = [req[u] EXCEPT !.step = "gone"] /\ req[u].at = p
      BY <1>7, <2>2 DEF Kill, InFlight
    <3>2. req'[u].step = "gone" /\ req'[u].at = p
      BY <1>1, <3>1 DEF RequestSet
    <3> QED BY <3>2 DEF RequestInv, Flying
  <2>3. CASE req'[u] = req[u] /\ u \notin InFlight(p)
    <3>1. Flying(u) => phase'[req[u].at] \in Open
      BY <2>1, <2>3, PhasesOf, FlyingKept
    <3> QED BY <1>2, <2>1, <2>3, <3>1
  <2>4. u \in InFlight(p) => req'[u] # req[u]
    <3>1. ASSUME u \in InFlight(p) PROVE req'[u].step = "gone" /\ req[u].step # "gone"
      BY <1>1, <1>7, <3>1 DEF Kill, InFlight, RequestSet
    <3> QED BY <3>1
  <2> QED BY <2>2, <2>3, <2>4
<1>8. ASSUME NEW p \in Procs, NEW m \in Managers,
             ManagerBegins(p, m) \/ ManagerEnds(p, m) \/ ManagerFails(p, m)
      PROVE RequestInv(u)'
  <2>1. UNCHANGED <<role, req, phase>>
    BY <1>8 DEF ManagerBegins, ManagerEnds, ManagerFails, handlers
  <2>2. bus' = bus \/ Send(p, <<m, "running">>) \/ Send(p, <<m, "stopped">>)
    BY <1>8 DEF ManagerBegins, ManagerEnds, ManagerFails, Farewell, Send
  <2> QED BY <1>1, <1>2, <2>1, <2>2, EventTypes
<1>9. ASSUME NEW p \in Procs, RequestShutdown(p) PROVE RequestInv(u)'
  <2>1. UNCHANGED <<role, req, phase, bus>>
    BY <1>9 DEF RequestShutdown, handlers
  <2> QED BY <1>1, <1>2, <2>1
<1>10. ASSUME NEW p \in Procs, Supervise(p) PROVE RequestInv(u)'
  <2>1. UNCHANGED <<role, phase>>
    BY <1>10 DEF Supervise
  <2>2. /\ req'[u].at = req[u].at /\ req'[u].step = req[u].step /\ req'[u].code = req[u].code
        /\ req[u].shown \/ Head(bus[p]) = <<"request", u>> => req'[u].shown
        /\ bus[p] # <<>> /\ bus'[p] = Tail(bus[p]) /\ \A q \in Procs : q # p => bus'[q] = bus[q]
    BY <1>1, <1>10, SuperviseEffect
  <2>3. ASSUME req[u].at \in Procs, Has(bus[req[u].at], <<"request", u>>)
        PROVE req'[u].shown \/ Has(bus'[req[u].at], <<"request", u>>)
    <3>1. bus[p] \in Seq(Events)
      BY <1>1 DEF TypeInv
    <3>2. CASE req[u].at = p /\ Head(bus[p]) # <<"request", u>>
      <4>1. Has(Tail(bus[p]), <<"request", u>>)
        BY <2>2, <2>3, <3>1, <3>2, HasTail
      <4> QED BY <2>2, <3>2, <4>1
    <3>3. CASE req[u].at # p
      BY <2>2, <2>3, <3>3
    <3> QED BY <2>2, <3>2, <3>3
  <2> QED BY <1>1, <2>1, <2>2, <2>3, RequestKept
<1>11. ASSUME NEW r \in Requests, Handle(r) \/ TooLarge(r) \/ Disconnect(r) PROVE RequestInv(u)'
  <2>1. CASE u = r
    BY <1>11, <2>1, HandledRequest
  <2>2. CASE u # r
    <3>1. UNCHANGED <<role, phase>> /\ req'[u] = req[u] /\ req[r].step # "none"
          /\ (bus' = bus \/ Send(req[r].at, <<"request", r>>))
      BY <1>1, <1>11, <2>2, HandlerEffect
    <3>2. req[r].at \in Procs
      BY <3>1 DEF ServersInv, RequestInv
    <3> QED BY <1>1, <1>2, <3>1, <3>2, EventTypes
  <2> QED BY <2>1, <2>2
<1>12. ASSUME NEW r \in Requests, NEW p \in Procs, NEW input \in Inputs, Arrive(r, p, input)
       PROVE RequestInv(u)'
  <2>1. UNCHANGED <<role, phase, bus, journal>> /\ req[r].step = "receiving" /\ req[r].at = p
    BY <1>12 DEF Arrive, daemons
  <2>2. CASE u = r
    <3>1. \A limited : Verdict(limited, input) \in {202, 400, 401, 429}
      BY DEF Verdict
    <3>2. req'[u].at = p /\ req'[u].step = "persisting" /\ req'[u].code \in {202, 400, 401, 429}
      BY <1>1, <1>12, <2>2, <3>1 DEF Arrive, TypeInv
    <3>3. phase'[p] \in Open
      BY <1>1, <2>1, <2>2 DEF Flying
    <3> QED BY <3>2, <3>3 DEF RequestInv, Flying
  <2>3. CASE u # r
    <3>1. req'[u] = req[u]
      BY <1>1, <1>12, <2>3 DEF Arrive, TypeInv
    <3> QED BY <1>1, <1>2, <2>1, <3>1
  <2> QED BY <2>2, <2>3
<1>15. ASSUME NEW r \in Requests, NEW p \in Procs, Begin(r, p) PROVE RequestInv(u)'
  <2>1. UNCHANGED <<role, phase, bus, journal>> /\ phase[p] \in Open
    BY <1>15 DEF Begin, daemons, Open
  <2>2. CASE u = r
    <3>1. req'[u].at = p /\ req'[u].step = "receiving"
      BY <1>1, <1>15, <2>2 DEF Begin, TypeInv
    <3> QED BY <2>1, <3>1 DEF RequestInv, Flying
  <2>3. CASE u # r
    <3>1. req'[u] = req[u]
      BY <1>1, <1>15, <2>3 DEF Begin, TypeInv
    <3> QED BY <1>1, <1>2, <2>1, <3>1
  <2> QED BY <2>2, <2>3
<1>13. ASSUME Tick PROVE RequestInv(u)'
  <2>1. UNCHANGED <<role, phase, bus, req>>
    BY <1>13 DEF Tick, daemons, handlers
  <2> QED BY <1>1, <1>2, <2>1
<1> QED BY <1>3, <1>4, <1>5, <1>6, <1>7, <1>8, <1>9, <1>10, <1>11, <1>12, <1>13, <1>14, <1>15
        DEF ServersNext, Shut

----------------------------------------------------------------------------
(* The daemons.                                                            *)

DaemonSame(q) ==
  /\ role'[q] = role[q] /\ phase'[q] = phase[q] /\ managers'[q] = managers[q]
  /\ senders'[q] = senders[q] /\ bus'[q] = bus[q] /\ comp'[q] = comp[q]

LEMMA DaemonKept ==
  ASSUME NEW q \in Procs, DaemonInv(q), DaemonSame(q)
  PROVE DaemonInv(q)'
BY DEF DaemonInv, DaemonSame

\* A step of p's daemon is no step of another daemon.
LEMMA OthersKept ==
  ASSUME TypeInv, NEW p \in Procs, NEW q \in Procs, q # p,
         \/ StartServer(p) \/ Serve(p) \/ StartFails(p) \/ RequestShutdown(p) \/ Kill(p) \/ Shut(p)
         \/ \E m \in Managers : ManagerFails(p, m)
  PROVE DaemonSame(q)
<1>1. CASE StartServer(p) \/ StartFails(p) \/ RequestShutdown(p) \/ Kill(p)
  BY <1>1 DEF StartServer, StartFails, RequestShutdown, Kill, Goes, TypeInv, DaemonSame
<1>2. CASE Serve(p)
  BY <1>2, SMTT(30) DEF Serve, Goes, Send, TypeInv, DaemonSame
<1>3. ASSUME NEW m \in Managers, ManagerBegins(p, m) \/ ManagerEnds(p, m) \/ ManagerFails(p, m)
      PROVE DaemonSame(q)
  BY <1>3 DEF ManagerBegins, ManagerEnds, ManagerFails, Send, Hangs, TypeInv, DaemonSame
<1>4. CASE Supervise(p)
  <2>1. comp'[q] = comp[q]
    BY <1>4 DEF Supervise, TypeInv
  <2> QED BY <1>4, <2>1 DEF Supervise, TypeInv, DaemonSame
<1>5. CASE StopServing(p)
  BY <1>5, SMTT(30) DEF StopServing, Goes, Send, TypeInv, DaemonSame
<1>7. CASE StopListening(p)
  BY <1>7 DEF StopListening, Goes, TypeInv, DaemonSame
<1>6. CASE JoinSubscriptions(p) \/ JoinJobs(p) \/ JoinSupervisor(p) \/ Close(p)
  BY <1>6 DEF JoinSubscriptions, JoinJobs, Join, JoinSupervisor, Close, Goes, Hangs, TypeInv, DaemonSame
<1> QED BY <1>1, <1>2, <1>3, <1>4, <1>5, <1>6, <1>7 DEF Shut

\* The phase moves on, and nothing else.
LEMMA PhaseMoves ==
  ASSUME TypeInv, NEW p \in Procs, DaemonInv(p), RequestShutdown(p) \/ StartServer(p) \/ StartFails(p)
         \/ Kill(p) \/ StopListening(p) \/ JoinSubscriptions(p) \/ JoinJobs(p) \/ JoinSupervisor(p) \/ Close(p)
  PROVE DaemonInv(p)'
<1>1. role' = role /\ managers' = managers /\ bus' = bus /\ comp' = comp
  BY DEF RequestShutdown, StartServer, StartFails, Kill, StopListening, JoinSubscriptions, JoinJobs, Join,
         JoinSupervisor, Close
<1>2. ASSUME phase'[p] \in {"failed", "dead"} PROVE DaemonInv(p)'
  BY <1>1, <1>2 DEF DaemonInv, Open
<1>3. CASE RequestShutdown(p)
  <2>1. DaemonSame(p)
    BY <1>3 DEF RequestShutdown, DaemonSame
  <2> QED BY <2>1, DaemonKept
<1>4. CASE StartServer(p) \/ StartFails(p) \/ Kill(p)
  <2>1. phase'[p] \in {"failed", "dead"} \/ (phase'[p] = "starting" /\ phase[p] = "off")
    BY <1>4 DEF StartServer, StartFails, Kill, Goes, TypeInv
  <2> QED BY <1>1, <1>2, <2>1 DEF DaemonInv, Open
<1>5. CASE JoinSubscriptions(p)
  <2>1. /\ phase[p] = "joining"
        /\ \/ phase'[p] = "failed"
           \/ phase'[p] = "joining_jobs" /\ managers[p]["subscriptions"] = "ok"
    BY <1>5 DEF JoinSubscriptions, Join, Goes, TypeInv
  <2> QED BY <1>1, <1>2, <2>1 DEF DaemonInv, Open
<1>6. CASE JoinJobs(p)
  <2>1. /\ phase[p] = "joining_jobs"
        /\ \/ phase'[p] = "failed"
           \/ phase'[p] = "draining" /\ managers[p]["background_jobs"] = "ok"
    BY <1>6 DEF JoinJobs, Join, Goes, TypeInv
  <2> QED BY <1>1, <1>2, <2>1 DEF DaemonInv, Open
<1>7. CASE JoinSupervisor(p)
  <2>1. phase[p] = "draining" /\ phase'[p] = "closing" /\ bus[p] = <<>>
    BY <1>7 DEF JoinSupervisor, Drained, Goes, TypeInv
  <2> QED BY <1>1, <2>1 DEF DaemonInv, Open
<1>8. CASE Close(p)
  <2>1. phase[p] = "closing" /\ phase'[p] \in {"failed", "stopped"}
    BY <1>8 DEF Close, Goes, TypeInv
  <2> QED BY <1>1, <1>2, <2>1 DEF DaemonInv, Open
<1>9. CASE StopListening(p)
  <2>1. phase[p] = "serving" /\ phase'[p] = "finishing" /\ senders' = senders
    BY <1>9 DEF StopListening, Goes, TypeInv
  <2> QED BY <1>1, <2>1 DEF DaemonInv, Open
<1> QED BY <1>3, <1>4, <1>5, <1>6, <1>7, <1>8, <1>9

\* The names on the bus are different ones.
LEMMA ManagerNames ==
  ASSUME NEW m \in Managers
  PROVE m \in Components /\ m # "health_http" /\ m # "request" /\ m # "adapter" /\ m # "adapters"
        /\ m # "snapshot" /\ "health_http" \in Components
BY DEF Managers, Components

\* A manager's steps.
LEMMA ManagerMoves ==
  ASSUME TypeInv, NEW p \in Procs, DaemonInv(p), NEW m \in Managers,
         ManagerBegins(p, m) \/ ManagerEnds(p, m) \/ ManagerFails(p, m)
  PROVE DaemonInv(p)'
<1>1. /\ role' = role /\ phase' = phase /\ comp' = comp
      /\ managers[p][m] \in {"spawned", "running"}
      /\ \A n \in Managers : n # m => managers'[p][n] = managers[p][n]
  BY DEF ManagerBegins, ManagerEnds, ManagerFails, TypeInv
<1>2. phase[p] \notin {"off", "starting"}
  BY <1>1 DEF DaemonInv
<1>3. "adapter" \in senders[p] => "adapter" \in senders'[p]
  BY ManagerNames DEF ManagerBegins, ManagerEnds, ManagerFails, Hangs, TypeInv
<1>4. /\ "subscriptions" \in Managers /\ "background_jobs" \in Managers
      /\ \A n \in Managers : managers[p][n] = "ok" => n # m /\ managers'[p][n] = "ok"
  <2>1. "subscriptions" \in Managers /\ "background_jobs" \in Managers
    BY DEF Managers
  <2> QED BY <1>1, <2>1
<1>5. role[p] = "gateway" => phase[p] \notin {"closing", "stopped"}
  <2>1. m = "subscriptions" \/ m = "background_jobs"
    BY DEF Managers
  <2> QED BY <1>1, <2>1 DEF DaemonInv
<1>6. bus[p] \in Seq(Events)
  BY DEF TypeInv
<1>7. ASSUME NEW c, c # m, LastWord(bus[p], comp[p][c], c)
      PROVE LastWord(bus'[p], comp[p][c], c)
  <2>1. CASE ManagerFails(p, m)
    <3>1. bus'[p] = bus[p]
      BY <2>1 DEF ManagerFails
    <3> QED BY <1>7, <3>1
  <2>2. CASE ~ManagerFails(p, m)
    <3>1. Send(p, <<m, "running">>) \/ Send(p, <<m, "stopped">>)
      BY <2>2 DEF ManagerBegins, ManagerEnds, Farewell, Send
    <3>2. PICK e \in Events : Send(p, e) /\ e[1] = m
      BY <3>1, EventTypes
    <3>3. bus'[p] = Append(bus[p], e)
      BY <3>2, SentTyped
    <3>4. LastWord(Append(bus[p], e), comp[p][c], c)
      BY <1>6, <1>7, <3>2, WordKept
    <3> QED BY <3>3, <3>4
  <2> QED BY <2>1, <2>2
<1>8. managers'[p][m] = "ok" => LastWord(bus'[p], comp[p][m], m)
  <2>1. CASE ManagerEnds(p, m)
    <3>1. Send(p, <<m, "stopped">>) /\ <<m, "stopped">> \in Events
      BY <2>1, EventTypes DEF ManagerEnds, Farewell, Send
    <3>2. bus'[p] = Append(bus[p], <<m, "stopped">>)
      BY <3>1, SentTyped
    <3> QED BY <1>6, <3>1, <3>2, WordSaid
  <2>2. CASE ~ManagerEnds(p, m)
    <3>1. managers'[p][m] \in {"running", "error"}
      BY <2>2 DEF ManagerBegins, ManagerFails, TypeInv
    <3> QED BY <3>1
  <2> QED BY <2>1, <2>2
<1>9. /\ role[p] = "gateway" /\ phase[p] \in Open => "adapter" \in senders'[p]
      /\ role[p] = "gateway" /\ phase[p] \notin {"off", "starting", "failed", "dead"} =>
           comp[p]["adapters"] = "running"
      /\ role[p] = "webhook" => phase[p] \notin {"joining", "joining_jobs", "draining", "closing"}
  BY <1>3 DEF DaemonInv
<1>10. ASSUME role[p] = "gateway"
       PROVE /\ phase[p] \in {"joining_jobs", "draining", "closing", "stopped"} => managers'[p]["subscriptions"] = "ok"
             /\ phase[p] \in {"draining", "closing", "stopped"} => managers'[p]["background_jobs"] = "ok"
  BY <1>4, <1>10 DEF DaemonInv
<1>11. ASSUME role[p] = "gateway", phase[p] \in {"joining", "joining_jobs", "draining", "closing", "stopped"}
       PROVE LastWord(bus'[p], comp[p]["health_http"], "health_http")
  BY <1>7, <1>11, ManagerNames DEF DaemonInv
<1>12. ASSUME NEW n \in Managers, managers'[p][n] = "ok" PROVE LastWord(bus'[p], comp[p][n], n)
  <2>1. n # m => LastWord(bus[p], comp[p][n], n)
    BY <1>1, <1>12 DEF DaemonInv
  <2> QED BY <1>7, <1>8, <1>12, <2>1
<1> QED BY <1>1, <1>2, <1>5, <1>9, <1>10, <1>11, <1>12 DEF DaemonInv

\* The supervisor's step.
LEMMA SuperviseMoves ==
  ASSUME TypeInv, NEW p \in Procs, DaemonInv(p), Supervise(p)
  PROVE DaemonInv(p)'
<1>1. /\ role' = role /\ phase' = phase /\ managers' = managers /\ senders' = senders
      /\ bus[p] # <<>> /\ bus'[p] = Tail(bus[p])
      /\ bus[p] \in Seq(Events) /\ Head(bus[p]) \in Events
  BY HeadTailProperties DEF Supervise, TypeInv
<1>2. ASSUME NEW c \in Managers \cup {"health_http"}, LastWord(bus[p], comp[p][c], c)
      PROVE LastWord(bus'[p], comp'[p][c], c)
  <2>1. c \in Components /\ c # "request" /\ c # "snapshot" /\ c # "adapters"
    BY ManagerNames DEF Components
  <2>2. comp'[p][c] = IF Head(bus[p])[1] = c THEN Head(bus[p])[2] ELSE comp[p][c]
    <3>1. CASE Head(bus[p])[1] = "request"
      <4>1. comp' = [comp EXCEPT ![p]["adapters"] = "running"]
        BY <3>1 DEF Supervise
      <4> QED BY <2>1, <3>1, <4>1 DEF TypeInv
    <3>2. CASE Head(bus[p])[1] = "snapshot"
      <4>1. comp' = comp
        BY <3>2 DEF Supervise
      <4> QED BY <2>1, <3>2, <4>1
    <3>3. CASE Head(bus[p])[1] \notin {"request", "snapshot"}
      <4>1. comp' = [comp EXCEPT ![p][Head(bus[p])[1]] = Head(bus[p])[2]]
        BY <3>3 DEF Supervise
      <4> QED BY <2>1, <4>1 DEF TypeInv
    <3> QED BY <3>1, <3>2, <3>3
  <2>3. LastWord(Tail(bus[p]), comp'[p][c], c)
    BY <1>1, <1>2, <2>2, WordTaken
  <2> QED BY <1>1, <2>3
<1>3. /\ phase[p] \notin {"off", "starting"}
      /\ role[p] = "gateway" => phase[p] \notin {"closing", "stopped"}
  BY <1>1 DEF DaemonInv
<1>4. ASSUME role[p] = "gateway", phase[p] \in {"joining", "joining_jobs", "draining", "closing", "stopped"}
      PROVE LastWord(bus'[p], comp'[p]["health_http"], "health_http")
  BY <1>2, <1>4 DEF DaemonInv
<1>5. ASSUME NEW m \in Managers, managers[p][m] = "ok" PROVE LastWord(bus'[p], comp'[p][m], m)
  BY <1>2, <1>5 DEF DaemonInv
<1>6. comp[p]["adapters"] = "running" => comp'[p]["adapters"] = "running"
  <2>1. Head(bus[p])[1] # "adapters" /\ "adapters" \in Components
    BY <1>1 DEF Events, Managers, Components
  <2>2. \/ comp' = comp \/ comp' = [comp EXCEPT ![p]["adapters"] = "running"]
        \/ comp' = [comp EXCEPT ![p][Head(bus[p])[1]] = Head(bus[p])[2]]
    BY DEF Supervise
  <2> QED BY <2>1, <2>2 DEF TypeInv
<1>7. role[p] = "gateway" /\ phase[p] \notin {"off", "starting", "failed", "dead"} =>
        comp'[p]["adapters"] = "running"
  BY <1>6 DEF DaemonInv
<1> QED BY <1>1, <1>3, <1>4, <1>5, <1>7 DEF DaemonInv

\* The listener opens and closes.
LEMMA ListenerMoves ==
  ASSUME TypeInv, NEW p \in Procs, DaemonInv(p), Serve(p) \/ StopServing(p)
  PROVE DaemonInv(p)'
<1>1. CASE Serve(p)
  <2>1. role' = role /\ phase'[p] = "serving"
    BY <1>1 DEF Serve, Goes, TypeInv
  <2>2. CASE role[p] = "webhook"
    BY <1>1, <2>1, <2>2 DEF Serve, DaemonInv
  <2>3. CASE role[p] # "webhook"
    <3>1. "adapter" \in senders'[p] /\ \A m \in Managers : managers'[p][m] = "spawned"
      BY <1>1, <2>3 DEF Serve, TypeInv
    <3>2. comp'[p]["adapters"] = "running"
      <4>1. "adapters" \in Components /\ "adapters" \notin Managers
        BY DEF Components, Managers
      <4> QED BY <1>1, <2>3, <4>1 DEF Serve, TypeInv
    <3> QED BY <2>1, <2>3, <3>1, <3>2 DEF DaemonInv
  <2> QED BY <2>2, <2>3
<1>2. CASE StopServing(p)
  <2>1. role' = role /\ managers' = managers /\ comp' = comp /\ role[p] \in {"gateway", "webhook"}
    BY <1>2 DEF StopServing, TypeInv
  <2>2. CASE role[p] = "webhook"
    <3>1. phase'[p] = "stopped" /\ bus' = bus
      BY <1>2, <2>2 DEF StopServing, Goes, TypeInv
    <3> QED BY <2>1, <2>2, <3>1 DEF DaemonInv
  <2>3. CASE role[p] = "gateway"
    <3>1. phase'[p] = "joining" /\ Send(p, <<"health_http", "stopped">>)
      BY <1>2, <2>3 DEF StopServing, Goes, TypeInv
    <3>2. bus'[p] = Append(bus[p], <<"health_http", "stopped">>) /\ bus[p] \in Seq(Events)
          /\ <<"health_http", "stopped">> \in Events
      BY <3>1, EventTypes, SentTyped DEF TypeInv
    <3>3. LastWord(bus'[p], comp[p]["health_http"], "health_http")
      BY <3>2, WordSaid
    <3>4. ASSUME NEW m \in Managers, managers[p][m] = "ok" PROVE LastWord(bus'[p], comp[p][m], m)
      <4>1. LastWord(bus[p], comp[p][m], m)
        BY <3>4 DEF DaemonInv
      <4>2. <<"health_http", "stopped">>[1] # m
        BY ManagerNames
      <4>3. LastWord(Append(bus[p], <<"health_http", "stopped">>), comp[p][m], m)
        BY <3>2, <4>1, <4>2, WordKept
      <4> QED BY <3>2, <4>3
    <3>5. comp[p]["adapters"] = "running"
      BY <1>2, <2>3 DEF StopServing, DaemonInv
    <3> QED BY <2>1, <2>3, <3>1, <3>3, <3>4, <3>5 DEF DaemonInv, Open
  <2> QED BY <2>1, <2>2, <2>3
<1> QED BY <1>1, <1>2

LEMMA DaemonStep ==
  ASSUME ServersInv, ServersNext, NEW q \in Procs
  PROVE DaemonInv(q)'
<1>1. TypeInv /\ DaemonInv(q)
  BY DEF ServersInv
<1>2. ASSUME NEW p \in Procs, q # p,
             \/ StartServer(p) \/ Serve(p) \/ StartFails(p) \/ RequestShutdown(p) \/ Kill(p) \/ Shut(p)
             \/ \E m \in Managers : ManagerFails(p, m)
      PROVE DaemonInv(q)'
  BY <1>1, <1>2, OthersKept, DaemonKept
<1>3. ASSUME \/ StartServer(q) \/ Serve(q) \/ StartFails(q) \/ RequestShutdown(q) \/ Kill(q) \/ Shut(q)
             \/ \E m \in Managers : ManagerFails(q, m)
      PROVE DaemonInv(q)'
  BY <1>1, <1>3, PhaseMoves, ManagerMoves, SuperviseMoves, ListenerMoves DEF Shut
<1>4. ASSUME NEW r \in Requests, Handle(r) \/ TooLarge(r) \/ Disconnect(r) PROVE DaemonInv(q)'
  <2>1. /\ UNCHANGED <<role, phase, managers, senders, comp>>
        /\ bus' = bus \/ (Send(req[r].at, <<"request", r>>) /\ req[r].step = "persisted")
    BY <1>1, <1>4, HandlerEffect
  <2>2. CASE bus'[q] = bus[q]
    <3>1. DaemonSame(q)
      BY <2>1, <2>2 DEF DaemonSame
    <3> QED BY <1>1, <3>1, DaemonKept
  <2>3. CASE bus'[q] # bus[q]
    <3>1. /\ req[r].at \in Procs /\ Send(req[r].at, <<"request", r>>) /\ req[r].step = "persisted"
          /\ phase[req[r].at] \in Open
      BY <2>1, <2>3 DEF ServersInv, RequestInv, Flying
    <3>2. req[r].at = q /\ bus'[q] = Append(bus[q], <<"request", r>>) /\ <<"request", r>> \in Events
      BY <1>1, <2>3, <3>1, EventTypes, SentTyped
    <3>3. phase[q] \in Open
      BY <3>1, <3>2
    <3>4. ASSUME NEW m \in Managers, managers[q][m] = "ok" PROVE LastWord(bus'[q], comp[q][m], m)
      <4>1. LastWord(bus[q], comp[q][m], m) /\ bus[q] \in Seq(Events)
        BY <1>1, <3>4 DEF DaemonInv, TypeInv
      <4>2. <<"request", r>>[1] # m
        BY ManagerNames
      <4>3. LastWord(Append(bus[q], <<"request", r>>), comp[q][m], m)
        BY <3>2, <4>1, <4>2, WordKept
      <4> QED BY <3>2, <4>3
    <3> QED BY <1>1, <2>1, <3>3, <3>4 DEF DaemonInv, Open
  <2> QED BY <2>2, <2>3
<1>5. ASSUME NEW r \in Requests, NEW p \in Procs,
             Begin(r, p) \/ \E input \in Inputs : Arrive(r, p, input)
      PROVE DaemonInv(q)'
  <2>1. DaemonSame(q)
    BY <1>5 DEF Begin, Arrive, daemons, DaemonSame
  <2> QED BY <1>1, <2>1, DaemonKept
<1>6. ASSUME Tick PROVE DaemonInv(q)'
  <2>1. DaemonSame(q)
    BY <1>6 DEF Tick, daemons, DaemonSame
  <2> QED BY <1>1, <2>1, DaemonKept
<1> QED BY <1>2, <1>3, <1>4, <1>5, <1>6 DEF ServersNext

----------------------------------------------------------------------------
(* The counters.                                                           *)

\* The handlers of journalled requests that count them.
Counting(r) == AnswerRejected(r) \/ AnswerAdapter(r) \/ CountCallback(r)

\* No request is taken back, and an answer stays.
LEMMA RequestsMoveOn ==
  ASSUME ServersInv, ServersNext, NEW u \in Requests
  PROVE /\ req[u].step # "none" => req'[u].step # "none" /\ req'[u].at = req[u].at
        /\ req[u].step \notin {"none", "receiving"} => req'[u].step \notin {"none", "receiving"}
        /\ req[u].step \in {"counted", "answered", "gone"} => req'[u].step \in {"counted", "answered", "gone"}
        /\ req[u].step = "counted" =>
             req'[u].step = "counted" \/ AnswerCallback(u) \/ phase'[req[u].at] = "dead"
<1>1. TypeInv /\ req[u] \in RequestSet
  BY DEF ServersInv, TypeInv
<1> DEFINE
      Goal ==
        /\ req[u].step # "none" => req'[u].step # "none" /\ req'[u].at = req[u].at
        /\ req[u].step \notin {"none", "receiving"} => req'[u].step \notin {"none", "receiving"}
        /\ req[u].step \in {"counted", "answered", "gone"} => req'[u].step \in {"counted", "answered", "gone"}
        /\ req[u].step = "counted" =>
             req'[u].step = "counted" \/ AnswerCallback(u) \/ phase'[req[u].at] = "dead"
<1>2. req'[u] = req[u] => Goal
  OBVIOUS
<1>3. ASSUME NEW p \in Procs,
             \/ StartServer(p) \/ Serve(p) \/ StartFails(p) \/ RequestShutdown(p) \/ StopListening(p)
             \/ StopServing(p) \/ JoinSubscriptions(p) \/ JoinJobs(p) \/ JoinSupervisor(p) \/ Close(p)
      PROVE req'[u] = req[u]
  BY <1>3 DEF StartServer, Serve, StartFails, RequestShutdown, StopListening, StopServing,
              JoinSubscriptions, JoinJobs, Join, JoinSupervisor, Close, handlers
<1>4. ASSUME NEW p \in Procs, NEW m \in Managers,
             ManagerBegins(p, m) \/ ManagerEnds(p, m) \/ ManagerFails(p, m)
      PROVE req'[u] = req[u]
  BY <1>4 DEF ManagerBegins, ManagerEnds, ManagerFails, handlers
<1>5. ASSUME NEW p \in Procs, Kill(p) PROVE Goal
  <2>1. req'[u] = req[u] \/ (/\ req'[u] = [req[u] EXCEPT !.step = "gone"] /\ req[u].at = p)
    BY <1>5 DEF Kill, InFlight
  <2>2. phase'[p] = "dead"
    BY <1>1, <1>5, PhasesOf, GoesTyped DEF Kill
  <2> QED BY <1>1, <2>1, <2>2 DEF RequestSet
<1>6. ASSUME NEW p \in Procs, Supervise(p) PROVE Goal
  BY <1>1, <1>6, SuperviseEffect
<1>7. ASSUME NEW r \in Requests, Handle(r) \/ TooLarge(r) \/ Disconnect(r) PROVE Goal
  <2>1. CASE u # r
    <3>1. \A v \in Requests : v # r => req'[v] = req[v]
      BY <1>1, <1>7, HandlerOthers
    <3> QED BY <1>2, <2>1, <3>1
  <2>2. CASE u = r
    <3>1. /\ req[r].step \in {"receiving", "persisting", "persisted", "counted", "orphan"}
          /\ req'[r].step \in {"persisted", "counted", "answered", "orphan", "gone"}
          /\ req'[r].at = req[r].at
      BY <1>1, <1>7, HandlerEffect
    <3>2. req[r].step = "counted" => AnswerCallback(r) /\ req'[r].step = "answered"
      BY <1>1, <1>7, HandlerEffect DEF AnsweredCounted
    <3> QED BY <2>2, <3>1, <3>2
  <2> QED BY <2>1, <2>2
<1>8. ASSUME NEW r \in Requests, NEW p \in Procs, NEW input \in Inputs, Arrive(r, p, input)
      PROVE Goal
  <2>1. /\ req[r].step = "receiving" /\ req[r].at = p /\ (u # r => req'[u] = req[u])
        /\ req'[r].step = "persisting" /\ req'[r].at = p
    BY <1>1, <1>8 DEF Arrive, TypeInv
  <2> QED BY <2>1
<1>11. ASSUME NEW r \in Requests, NEW p \in Procs, Begin(r, p) PROVE Goal
  <2>1. req[r].step = "none" /\ (u # r => req'[u] = req[u])
    BY <1>1, <1>11 DEF Begin, TypeInv
  <2> QED BY <2>1
<1>9. Tick => req'[u] = req[u]
  BY DEF Tick, handlers
<1>10. Goal
  <2> HIDE DEF Goal
  <2> QED BY <1>2, <1>3, <1>4, <1>5, <1>6, <1>7, <1>8, <1>9, <1>11 DEF ServersNext, Shut
<1> QED BY <1>10

\* Who changes the counters, the limiter and the reason of p.
LEMMA IntakeEffect ==
  ASSUME ServersInv, ServersNext, NEW p \in Procs
  PROVE /\ role' = role /\ now <= now'
        /\ phase'[p] \in {"off", "starting"} => phase[p] \in {"off", "starting"}
        /\ \/ window'[p] = window[p] /\ grants'[p] = grants[p]
           \/ Serve(p)
           \/ \E r \in Requests, input \in Inputs : Arrive(r, p, input)
        /\ counted'[p] = counted[p] \/ \E r \in Requests : Counting(r) /\ req[r].at = p
        /\ \/ reason'[p] = reason[p] \/ reason'[p] \in {"signal", "timeout"}
           \/ \E r \in Requests : AnswerCallback(r) /\ req[r].at = p
<1>1. TypeInv /\ now \in Nat
  <2>1. TypeInv
    BY DEF ServersInv
  <2> QED BY <2>1, SMTT(30) DEF TypeInv
<1> DEFINE Times == role' = role /\ now <= now'
           Limiter == \/ window'[p] = window[p] /\ grants'[p] = grants[p]
                      \/ Serve(p)
                      \/ \E r \in Requests, input \in Inputs : Arrive(r, p, input)
           Counter == /\ counted'[p] = counted[p] \/ \E r \in Requests : Counting(r) /\ req[r].at = p
                      /\ \/ reason'[p] = reason[p] \/ reason'[p] \in {"signal", "timeout"}
                         \/ \E r \in Requests : AnswerCallback(r) /\ req[r].at = p
           Start == phase'[p] \in {"off", "starting"} => phase[p] \in {"off", "starting"}
           Goal == Times /\ Start /\ Limiter /\ Counter
<1>2. ASSUME UNCHANGED <<role, now, reason, counted, window, grants>>, Start PROVE Goal
  <2>1. Times
    BY <1>1, <1>2
  <2>2. Limiter /\ Counter
    BY <1>2
  <2> QED BY <1>2, <2>1, <2>2
<1>3. ASSUME NEW q \in Procs, NEW f \in Phases, Goes(q, f),
             f \notin {"off", "starting"} \/ phase[q] = "off"
      PROVE Start
  BY <1>1, <1>3, GoesTyped
<1>4. ASSUME NEW q \in Procs, StartServer(q) \/ StartFails(q) \/ Kill(q)
             \/ StopListening(q) \/ StopServing(q)
      PROVE Goal
  <2>1. Start
    BY <1>3, <1>4, PhasesOf DEF StartServer, StartFails, Kill, StopListening, StopServing
  <2>2. UNCHANGED <<role, now, reason, counted, window, grants>>
    BY <1>4 DEF StartServer, StartFails, Kill, StopListening, StopServing, handlers
  <2> QED BY <1>2, <2>1, <2>2
<1>5. ASSUME NEW q \in Procs, JoinSubscriptions(q) \/ JoinJobs(q) \/ JoinSupervisor(q) \/ Close(q)
      PROVE Goal
  <2>1. Start
    BY <1>3, <1>5, PhasesOf DEF JoinSubscriptions, JoinJobs, Join, JoinSupervisor, Close
  <2>2. UNCHANGED <<role, now, reason, counted, window, grants>>
    BY <1>5 DEF JoinSubscriptions, JoinJobs, Join, JoinSupervisor, Close, handlers
  <2> QED BY <1>2, <2>1, <2>2
<1>6. ASSUME NEW q \in Procs, NEW m \in Managers,
             ManagerBegins(q, m) \/ ManagerEnds(q, m) \/ ManagerFails(q, m)
      PROVE Goal
  <2>1. UNCHANGED <<role, now, phase, reason, counted, window, grants>>
    BY <1>6 DEF ManagerBegins, ManagerEnds, ManagerFails, handlers
  <2> QED BY <1>2, <2>1
<1>7. ASSUME NEW q \in Procs, Supervise(q) PROVE Goal
  <2>1. UNCHANGED <<role, now, phase, reason, counted, window, grants>>
    BY <1>7 DEF Supervise
  <2> QED BY <1>2, <2>1
<1>8. ASSUME NEW q \in Procs, RequestShutdown(q) PROVE Goal
  <2>1. UNCHANGED <<role, now, phase, counted, window, grants>>
    BY <1>8 DEF RequestShutdown, handlers
  <2>2. reason'[p] = reason[p] \/ reason'[p] \in {"signal", "timeout"}
    BY <1>1, <1>8 DEF RequestShutdown, TypeInv
  <2> QED BY <1>1, <2>1, <2>2
<1>9. ASSUME NEW q \in Procs, Serve(q) PROVE Goal
  <2>1. UNCHANGED <<role, now, reason, counted, grants>>
    BY <1>9 DEF Serve
  <2>2. Start
    BY <1>3, <1>9, PhasesOf DEF Serve
  <2>3. q # p => window'[p] = window[p]
    BY <1>1, <1>9 DEF Serve, TypeInv
  <2> QED BY <1>1, <1>9, <2>1, <2>2, <2>3
<1>10. ASSUME NEW r \in Requests, NEW q \in Procs, NEW input \in Inputs, Arrive(r, q, input)
       PROVE Goal
  <2>1. UNCHANGED <<role, now, phase, reason, counted>>
    BY <1>10 DEF Arrive, daemons
  <2>2. q # p => window'[p] = window[p] /\ grants'[p] = grants[p]
    BY <1>1, <1>10 DEF Arrive, TypeInv
  <2> QED BY <1>1, <1>10, <2>1, <2>2
<1>15. ASSUME NEW r \in Requests, NEW q \in Procs, Begin(r, q) PROVE Goal
  <2>1. UNCHANGED <<role, now, phase, reason, counted, window, grants>>
    BY <1>15 DEF Begin, daemons
  <2> QED BY <1>2, <2>1
<1>11. ASSUME NEW r \in Requests, Persist(r) \/ PersistFails(r) \/ TooLarge(r) \/ Disconnect(r)
       PROVE Goal
  <2>1. UNCHANGED <<role, now, phase, reason, counted, window, grants>>
    BY <1>11 DEF Persist, PersistFails, TooLarge, Disconnect, daemons
  <2> QED BY <1>2, <2>1
<1>12. ASSUME NEW r \in Requests, Counting(r) PROVE Goal
  <2>1. UNCHANGED <<role, now, phase, reason, window, grants>>
    BY <1>12 DEF Counting, AnswerRejected, AnswerAdapter, CountCallback, daemons
  <2>2. req[r].at # p => counted'[p] = counted[p]
    BY <1>1, <1>12 DEF Counting, AnswerRejected, AnswerAdapter, CountCallback, Count, TypeInv
  <2> QED BY <1>1, <1>12, <2>1, <2>2
<1>16. ASSUME NEW r \in Requests, AnswerCallback(r) PROVE Goal
  <2>1. UNCHANGED <<role, now, phase, counted, window, grants>>
    BY <1>16 DEF AnswerCallback
  <2>2. req[r].at # p => reason'[p] = reason[p]
    BY <1>1, <1>16 DEF AnswerCallback, TypeInv
  <2> QED BY <1>1, <1>16, <2>1, <2>2
<1>13. ASSUME Tick PROVE Goal
  <2>1. UNCHANGED <<role, phase, reason, counted, window, grants>> /\ now' = now + 1
    BY <1>13 DEF Tick, daemons, handlers
  <2>2. now <= now'
    BY <1>1, <2>1
  <2> QED BY <2>1, <2>2
<1>14. Goal
  <2> HIDE DEF Goal
  <2> QED BY <1>4, <1>5, <1>6, <1>7, <1>8, <1>9, <1>10, <1>11, <1>12, <1>13, <1>15, <1>16
          DEF ServersNext, Shut, Handle, Counting
<1> QED BY <1>14

LEMMA RequestSets ==
  ASSUME NEW A \in SUBSET Requests, NEW B \in SUBSET Requests, A \subseteq B
  PROVE /\ Cardinality(A) \in Nat /\ Cardinality(B) \in Nat /\ Cardinality(A) <= Cardinality(B)
        /\ Cardinality(B) <= Cardinality(Requests) /\ Cardinality(Requests) \in Nat
        /\ \A r \in B : r \notin A => Cardinality(A) + 1 <= Cardinality(B)
<1>1. IsFiniteSet(Requests)
  BY ServerBounds
<1>2. IsFiniteSet(B) /\ Cardinality(B) <= Cardinality(Requests)
  BY <1>1, FS_Subset
<1>3. A \in SUBSET B
  OBVIOUS
<1>4. IsFiniteSet(A) /\ Cardinality(A) <= Cardinality(B)
  BY <1>2, <1>3, FS_Subset
<1>5. Cardinality(A) \in Nat /\ Cardinality(B) \in Nat /\ Cardinality(Requests) \in Nat
  BY <1>1, <1>2, <1>4, FS_CardinalityType
<1>6. ASSUME NEW r \in B, r \notin A PROVE Cardinality(A) + 1 <= Cardinality(B)
  <2>1. Cardinality(A \cup {r}) = Cardinality(A) + 1
    BY <1>4, <1>6, FS_AddElement
  <2>2. A \cup {r} \in SUBSET B
    BY <1>3
  <2>3. Cardinality(A \cup {r}) <= Cardinality(B)
    BY <1>2, <2>2, FS_Subset
  <2> QED BY <2>1, <2>3
<1> QED BY <1>2, <1>4, <1>5, <1>6

\* What a handler adds to the counters.
LEMMA HandlerCounts ==
  ASSUME TypeInv, NEW r \in Requests, Counting(r), req[r].at \in Procs
  PROVE LET p == req[r].at
        IN  /\ req[r].step = "persisted" /\ req'[r].step \in {"counted", "answered"} /\ req'[r].at = p
            /\ CountCallback(r) => req'[r].step = "counted"
            /\ \/ /\ counted'[p].accepted = counted[p].accepted + 1
                  /\ counted'[p].rejected = counted[p].rejected
               \/ /\ counted'[p].accepted = counted[p].accepted
                  /\ counted'[p].rejected = counted[p].rejected + 1
                  /\ ~CountCallback(r)
            /\ AnswerRejected(r) => counted'[p].accepted = counted[p].accepted
<1> DEFINE p == req[r].at
<1>1. req[r] \in RequestSet /\ counted[p].accepted \in Nat /\ counted[p].rejected \in Nat
  BY DEF TypeInv
<1>2. req[r].step = "persisted"
  BY DEF Counting, AnswerRejected, AnswerAdapter, CountCallback
<1>3. /\ req'[r].step \in {"counted", "answered"} /\ req'[r].at = p
      /\ CountCallback(r) => req'[r].step = "counted"
  <2>1. CASE CountCallback(r)
    BY <1>1, <2>1 DEF CountCallback, TypeInv, RequestSet
  <2>2. CASE ~CountCallback(r)
    <3>1. PICK code : Answered(r, code)
      BY <2>2 DEF Counting, AnswerRejected, AnswerAdapter
    <3>2. req'[r] = [req[r] EXCEPT !.step = "answered", !.code = code]
      BY <3>1 DEF Answered, TypeInv
    <3> QED BY <1>1, <2>2, <3>2 DEF RequestSet
  <2> QED BY <2>1, <2>2
<1>4. CASE AnswerAdapter(r) \/ CountCallback(r)
  <2>1. Count(p, 1, 0) /\ ~AnswerRejected(r)
    BY <1>4 DEF AnswerAdapter, CountCallback, AnswerRejected
  <2>2. counted'[p] = [accepted |-> counted[p].accepted + 1, rejected |-> counted[p].rejected + 0]
    BY <2>1 DEF Count, TypeInv
  <2> QED BY <1>1, <1>2, <1>3, <2>1, <2>2
<1>5. CASE AnswerRejected(r)
  <2>1. Count(p, 0, 1) /\ ~CountCallback(r)
    BY <1>5 DEF CountCallback, AnswerRejected
  <2>2. counted'[p] = [accepted |-> counted[p].accepted + 0, rejected |-> counted[p].rejected + 1]
    BY <2>1 DEF Count, TypeInv
  <2> QED BY <1>1, <1>2, <1>3, <2>1, <2>2
<1> QED BY <1>4, <1>5 DEF Counting

\* What an arrival does to the window.
LEMMA ArrivalCounts ==
  ASSUME TypeInv, NEW r \in Requests, NEW p \in Procs, NEW input \in Inputs, Arrive(r, p, input)
  PROVE /\ req[r].step = "receiving" /\ req'[r].step = "persisting" /\ req'[r].at = p
        /\ \/ window'[p] = window[p] /\ grants'[p] = grants[p]
           \/ /\ ~Spent(Renewed(window[p])) /\ grants'[p] = Append(grants[p], now)
              /\ window'[p] = [Renewed(window[p]) EXCEPT !.count = @ + 1]
<1> DEFINE w == Renewed(window[p])
<1>1. req[r].step = "receiving" /\ req'[r].step = "persisting" /\ req'[r].at = p
  BY DEF Arrive, TypeInv
<1>2. window[p] \in [start : 0 .. MaxTime, count : Nat]
  BY DEF TypeInv
<1>3. Spent(w) => w = window[p]
  BY <1>2, ServerBounds DEF Spent, Renewed, ValidLimit
<1>4. CASE role[p] = "webhook"
  BY <1>1, <1>4 DEF Arrive
<1>5. CASE role[p] # "webhook" /\ Spent(w)
  <2>1. role[p] = "gateway"
    BY <1>5 DEF TypeInv
  <2>2. window'[p] = w /\ grants'[p] = grants[p]
    BY <1>5, <2>1 DEF Arrive, TypeInv
  <2> QED BY <1>1, <1>3, <1>5, <2>2
<1>6. CASE role[p] # "webhook" /\ ~Spent(w)
  <2>1. window'[p] = [w EXCEPT !.count = @ + 1] /\ grants'[p] = Append(grants[p], now)
    BY <1>6 DEF Arrive, TypeInv
  <2> QED BY <1>1, <1>6, <2>1
<1> QED BY <1>4, <1>5, <1>6

LEMMA CountStep ==
  ASSUME ServersInv, ServersNext, NEW p \in Procs
  PROVE CountInv(p)'
<1>1. TypeInv /\ CountInv(p)
  BY DEF ServersInv
<1>2. /\ Done(p) \in SUBSET Requests /\ Done(p)' \in SUBSET Requests /\ Done(p) \subseteq Done(p)'
      /\ Taken(p) \in SUBSET Requests /\ Taken(p)' \in SUBSET Requests /\ Taken(p) \subseteq Taken(p)'
  <2>1. \A u \in Requests :
          /\ req[u].step # "none" => req'[u].at = req[u].at
          /\ req[u].step \notin {"none", "receiving"} => req'[u].step \notin {"none", "receiving"}
          /\ req[u].step \in {"counted", "answered", "gone"} =>
               req'[u].step \in {"counted", "answered", "gone"}
    BY RequestsMoveOn
  <2> QED BY <2>1 DEF Done, Taken
<1>3. /\ Cardinality(Done(p)) \in Nat /\ Cardinality(Done(p)') \in Nat
      /\ Cardinality(Done(p)) <= Cardinality(Done(p)')
      /\ \A r \in Done(p)' : r \notin Done(p) => Cardinality(Done(p)) + 1 <= Cardinality(Done(p)')
  BY <1>2, RequestSets
<1>4. /\ Cardinality(Taken(p)) \in Nat /\ Cardinality(Taken(p)') \in Nat
      /\ Cardinality(Taken(p)) <= Cardinality(Taken(p)')
      /\ \A r \in Taken(p)' : r \notin Taken(p) => Cardinality(Taken(p)) + 1 <= Cardinality(Taken(p)')
  BY <1>2, RequestSets
<1>5. /\ counted[p].accepted \in Nat /\ counted[p].rejected \in Nat /\ window[p].count \in Nat
      /\ counted[p].accepted + counted[p].rejected <= Cardinality(Done(p))
      /\ window[p].count <= Cardinality(Taken(p))
      /\ window[p] \in [start : 0 .. MaxTime, count : Nat]
  BY <1>1 DEF TypeInv, CountInv
<1>6. counted'[p].accepted + counted'[p].rejected <= Cardinality(Done(p)')
  <2>1. CASE counted'[p] = counted[p]
    BY <1>3, <1>5, <2>1
  <2>2. ASSUME NEW r \in Requests, Counting(r), req[r].at = p
        PROVE counted'[p].accepted + counted'[p].rejected <= Cardinality(Done(p)')
    <3>1. /\ req[r].step = "persisted" /\ req'[r].step \in {"counted", "answered"} /\ req'[r].at = p
          /\ \/ /\ counted'[p].accepted = counted[p].accepted + 1
                /\ counted'[p].rejected = counted[p].rejected
             \/ /\ counted'[p].accepted = counted[p].accepted
                /\ counted'[p].rejected = counted[p].rejected + 1
      BY <1>1, <2>2, HandlerCounts
    <3>2. r \in Done(p)' /\ r \notin Done(p)
      BY <3>1 DEF Done
    <3>3. Cardinality(Done(p)) + 1 <= Cardinality(Done(p)')
      BY <1>3, <3>2
    <3> QED BY <1>3, <1>5, <3>1, <3>3
  <2> QED BY <2>1, <2>2, IntakeEffect
<1>7. window'[p].count <= Cardinality(Taken(p)')
  <2>1. CASE window'[p] = window[p]
    BY <1>4, <1>5, <2>1
  <2>2. CASE Serve(p)
    <3>1. window'[p].count = window[p].count
      BY <1>1, <2>2 DEF Serve, TypeInv
    <3> QED BY <1>4, <1>5, <3>1
  <2>3. ASSUME NEW r \in Requests, NEW input \in Inputs, Arrive(r, p, input)
        PROVE window'[p].count <= Cardinality(Taken(p)')
    <3>1. /\ req[r].step = "receiving" /\ req'[r].step = "persisting" /\ req'[r].at = p
          /\ \/ window'[p] = window[p]
             \/ window'[p] = [Renewed(window[p]) EXCEPT !.count = @ + 1]
      BY <1>1, <2>3, ArrivalCounts
    <3>2. r \in Taken(p)' /\ r \notin Taken(p)
      BY <3>1 DEF Taken
    <3>3. Cardinality(Taken(p)) + 1 <= Cardinality(Taken(p)')
      BY <1>4, <3>2
    <3>4. window'[p].count <= window[p].count + 1 /\ window'[p].count \in Nat
      BY <1>5, <3>1 DEF Renewed
    <3> QED BY <1>4, <1>5, <3>3, <3>4
  <2> QED BY <2>1, <2>2, <2>3, IntakeEffect
<1> QED BY <1>6, <1>7 DEF CountInv

----------------------------------------------------------------------------
(* The limiter.                                                            *)

Windows == [start : 0 .. MaxTime, count : Nat]

LEMMA LetFinite ==
  ASSUME NEW g \in Seq(Nat), NEW a \in Nat, NEW b \in Nat
  PROVE IsFiniteSet(LetThrough(g, a, b)) /\ Cardinality(LetThrough(g, a, b)) \in Nat
<1>1. Len(g) \in Nat /\ 1 \in Int
  BY LenProperties
<1>2. IsFiniteSet(1 .. Len(g))
  BY <1>1, FS_Interval
<1>3. LetThrough(g, a, b) \in SUBSET (1 .. Len(g))
  BY DEF LetThrough
<1> QED BY <1>2, <1>3, FS_Subset, FS_CardinalityType

LEMMA LetWithin ==
  ASSUME NEW g \in Seq(Nat), NEW a \in Nat, NEW b \in Nat, NEW c \in Nat, NEW d \in Nat,
         LetThrough(g, a, b) \subseteq LetThrough(g, c, d)
  PROVE Cardinality(LetThrough(g, a, b)) <= Cardinality(LetThrough(g, c, d))
<1>1. IsFiniteSet(LetThrough(g, c, d))
  BY LetFinite
<1>2. LetThrough(g, a, b) \in SUBSET LetThrough(g, c, d)
  OBVIOUS
<1> QED BY <1>1, <1>2, FS_Subset

\* What was let through before a window starts and in that window.
LEMMA LetSplit ==
  ASSUME NEW g \in Seq(Nat), NEW a \in Nat, NEW s \in Nat, NEW e \in Nat, NEW b \in Nat,
         \A i \in 1 .. Len(g) : g[i] < e
  PROVE Cardinality(LetThrough(g, a, b))
          <= Cardinality(LetThrough(g, a, s)) + Cardinality(LetThrough(g, s, e))
<1>1. /\ IsFiniteSet(LetThrough(g, a, s)) /\ Cardinality(LetThrough(g, a, s)) \in Nat
      /\ IsFiniteSet(LetThrough(g, s, e)) /\ Cardinality(LetThrough(g, s, e)) \in Nat
  BY LetFinite
<1>2. /\ IsFiniteSet(LetThrough(g, a, s) \cup LetThrough(g, s, e))
      /\ Cardinality(LetThrough(g, a, s) \cup LetThrough(g, s, e))
         = Cardinality(LetThrough(g, a, s)) + Cardinality(LetThrough(g, s, e))
           - Cardinality(LetThrough(g, a, s) \cap LetThrough(g, s, e))
  BY <1>1, FS_Union
<1>3. Cardinality(LetThrough(g, a, s) \cap LetThrough(g, s, e)) \in Nat
  <2>1. LetThrough(g, a, s) \cap LetThrough(g, s, e) \in SUBSET LetThrough(g, a, s)
    OBVIOUS
  <2> QED BY <1>1, <2>1, FS_Subset, FS_CardinalityType
<1>4. LetThrough(g, a, b) \in SUBSET (LetThrough(g, a, s) \cup LetThrough(g, s, e))
  <2> SUFFICES ASSUME NEW i \in 1 .. Len(g), a <= g[i]
               PROVE i \in LetThrough(g, a, s) \cup LetThrough(g, s, e)
    BY DEF LetThrough
  <2>1. g[i] \in Nat /\ g[i] < e
    BY ElementOfSeq
  <2>2. CASE g[i] < s
    BY <2>2 DEF LetThrough
  <2>3. CASE ~(g[i] < s)
    <3>1. s <= g[i]
      BY <2>1, <2>3
    <3> QED BY <2>1, <3>1 DEF LetThrough
  <2> QED BY <2>2, <2>3
<1>5. /\ Cardinality(LetThrough(g, a, b)) <= Cardinality(LetThrough(g, a, s) \cup LetThrough(g, s, e))
      /\ Cardinality(LetThrough(g, a, b)) \in Nat
  BY <1>2, <1>4, FS_Subset, LetFinite
<1> QED BY <1>1, <1>2, <1>3, <1>5

\* One more is let through.
LEMMA LetAppended ==
  ASSUME NEW g \in Seq(Nat), NEW n \in Nat, NEW a \in Nat, NEW b \in Nat
  PROVE /\ ~(a <= n /\ n < b) => LetThrough(Append(g, n), a, b) = LetThrough(g, a, b)
        /\ a <= n /\ n < b =>
             Cardinality(LetThrough(Append(g, n), a, b)) = Cardinality(LetThrough(g, a, b)) + 1
<1> DEFINE h == Append(g, n)
<1>1. /\ Len(h) = Len(g) + 1 /\ h[Len(g) + 1] = n /\ \A i \in 1 .. Len(g) : h[i] = g[i]
      /\ Len(g) \in Nat
  BY AppendProperties, LenProperties
<1>2. 1 .. Len(h) = (1 .. Len(g)) \cup {Len(g) + 1} /\ Len(g) + 1 \notin 1 .. Len(g)
  BY <1>1
<1>3. ASSUME ~(a <= n /\ n < b) PROVE LetThrough(h, a, b) = LetThrough(g, a, b)
  BY <1>1, <1>2, <1>3 DEF LetThrough
<1>4. ASSUME a <= n, n < b
      PROVE Cardinality(LetThrough(h, a, b)) = Cardinality(LetThrough(g, a, b)) + 1
  <2>1. LetThrough(h, a, b) = LetThrough(g, a, b) \cup {Len(g) + 1}
    BY <1>1, <1>2, <1>4 DEF LetThrough
  <2>2. Len(g) + 1 \notin LetThrough(g, a, b)
    BY <1>2 DEF LetThrough
  <2>3. IsFiniteSet(LetThrough(g, a, b))
    BY LetFinite
  <2> QED BY <2>1, <2>2, <2>3, FS_AddElement
<1> QED BY <1>3, <1>4

\* A window that is over gives way to an empty one.
LEMMA RenewedLimit ==
  ASSUME NEW g \in Seq(Nat), NEW w \in Windows, LimitInv(g, w), now \in 0 .. MaxTime, w.start <= now
  PROVE /\ Renewed(w) \in Windows /\ LimitInv(g, Renewed(w))
        /\ Renewed(w).start <= now /\ now < Renewed(w).start + Minute
<1>1. /\ Minute \in Nat \ {0} /\ Limit \in Nat \ {0} /\ MaxTime \in Nat /\ now \in Nat
      /\ w.start \in Nat /\ w.count \in Nat
  BY ServerBounds DEF ValidLimit, Windows
<1>2. CASE ~(now - w.start >= Minute)
  <2>1. Renewed(w) = w
    BY <1>2 DEF Renewed
  <2>2. now < w.start + Minute
    BY <1>1, <1>2
  <2> QED BY <2>1, <2>2
<1>3. CASE now - w.start >= Minute
  <2> DEFINE v == [start |-> now, count |-> 0]
  <2>1. Renewed(w) = v /\ v \in Windows
    BY <1>3 DEF Renewed, Windows
  <2>2. w.start + Minute <= now /\ now < now + Minute /\ now + Minute \in Nat /\ w.start + Minute \in Nat
    BY <1>1, <1>3
  <2>3. Len(g) \in Nat /\ \A i \in 1 .. Len(g) : g[i] \in Nat /\ g[i] < w.start + Minute
    BY LenProperties, ElementOfSeq DEF LimitInv
  <2>4. \A i \in 1 .. Len(g) : g[i] < now /\ g[i] < now + Minute
    BY <1>1, <2>2, <2>3
  <2>5. LetThrough(g, now, now + Minute) = {}
    BY <1>1, <2>3, <2>4 DEF LetThrough
  <2>6. Cardinality(LetThrough(g, now, now + Minute)) = 0
    BY <2>5, FS_EmptySet
  <2>7. ASSUME NEW a \in Nat, a + Minute > now PROVE Cardinality(LetThrough(g, a, now)) <= Limit
    <3>1. w.start <= a
      BY <1>1, <2>2, <2>7
    <3>2. LetThrough(g, a, now) \subseteq LetThrough(g, w.start, w.start + Minute)
      BY <1>1, <2>3, <3>1 DEF LetThrough
    <3>3. Cardinality(LetThrough(g, a, now)) <= Cardinality(LetThrough(g, w.start, w.start + Minute))
      BY <1>1, <2>2, <3>2, LetWithin
    <3>4. /\ Cardinality(LetThrough(g, w.start, w.start + Minute)) = w.count
          /\ w.count <= Limit
      BY DEF LimitInv
    <3>5. Cardinality(LetThrough(g, a, now)) \in Nat
      BY <1>1, LetFinite
    <3> QED BY <1>1, <3>3, <3>4, <3>5
  <2>8. LimitInv(g, v)
    <3>1. v.start = now /\ v.count = 0 /\ 0 <= Limit
      BY <1>1
    <3>2. \A a \in Nat : Cardinality(LetThrough(g, a, a + Minute)) <= 2 * Limit
      BY DEF LimitInv
    <3> HIDE DEF v
    <3> QED BY <2>4, <2>6, <2>7, <3>1, <3>2 DEF LimitInv
  <2> QED BY <2>1, <2>2, <2>8
<1> QED BY <1>2, <1>3

\* The window takes one more request.
LEMMA GrantedLimit ==
  ASSUME NEW g \in Seq(Nat), NEW w \in Windows, LimitInv(g, w), now \in 0 .. MaxTime,
         w.start <= now, now < w.start + Minute, ~Spent(w)
  PROVE LimitInv(Append(g, now), [w EXCEPT !.count = @ + 1])
<1> DEFINE h == Append(g, now)
           v == [w EXCEPT !.count = @ + 1]
           s == w.start
           e == w.start + Minute
<1>1. /\ Minute \in Nat \ {0} /\ Limit \in Nat \ {0} /\ now \in Nat /\ s \in Nat /\ w.count \in Nat /\ e \in Nat
      /\ w.count + 1 <= Limit
  BY ServerBounds DEF ValidLimit, Windows, Spent
<1>2. v.start = s /\ v.count = w.count + 1
  BY DEF Windows
<1>3. h \in Seq(Nat) /\ \A i \in 1 .. Len(h) : h[i] < e
  <2>1. /\ h \in Seq(Nat) /\ Len(h) = Len(g) + 1 /\ h[Len(g) + 1] = now
        /\ \A i \in 1 .. Len(g) : h[i] = g[i]
        /\ Len(g) \in Nat
    BY <1>1, AppendProperties, LenProperties
  <2>2. \A i \in 1 .. Len(g) : g[i] < e
    BY DEF LimitInv
  <2>3. ASSUME NEW i \in 1 .. Len(h) PROVE h[i] < e
    <3>1. i \in 1 .. Len(g) \/ i = Len(g) + 1
      BY <2>1
    <3> QED BY <2>1, <2>2, <3>1
  <2> QED BY <2>1, <2>3
<1>4. Cardinality(LetThrough(h, s, e)) = w.count + 1
  <2>1. Cardinality(LetThrough(g, s, e)) = w.count
    BY DEF LimitInv
  <2> QED BY <1>1, <2>1, LetAppended
<1>5. ASSUME NEW a \in Nat, a + Minute > s PROVE Cardinality(LetThrough(h, a, s)) <= Limit
  <2>1. LetThrough(h, a, s) = LetThrough(g, a, s)
    <3>1. ~(a <= now /\ now < s)
      BY <1>1
    <3> QED BY <1>1, <3>1, LetAppended
  <2>2. Cardinality(LetThrough(g, a, s)) <= Limit
    BY <1>5 DEF LimitInv
  <2> QED BY <2>1, <2>2
<1>6. ASSUME NEW a \in Nat PROVE Cardinality(LetThrough(h, a, a + Minute)) <= 2 * Limit
  <2>1. a + Minute \in Nat
    BY <1>1
  <2>2. CASE a + Minute > s
    <3>1. Cardinality(LetThrough(h, a, a + Minute))
            <= Cardinality(LetThrough(h, a, s)) + Cardinality(LetThrough(h, s, e))
      BY <1>1, <1>3, <2>1, LetSplit
    <3>2. Cardinality(LetThrough(h, a, s)) <= Limit /\ Cardinality(LetThrough(h, a, s)) \in Nat
      BY <1>1, <1>3, <1>5, <2>2, LetFinite
    <3>3. Cardinality(LetThrough(h, a, a + Minute)) \in Nat
      BY <1>3, <2>1, LetFinite
    <3> HIDE DEF h, s, e
    <3> QED BY <1>1, <1>4, <3>1, <3>2, <3>3
  <2>3. CASE ~(a + Minute > s)
    <3>1. ~(a <= now /\ now < a + Minute)
      BY <1>1, <2>1, <2>3
    <3>2. LetThrough(h, a, a + Minute) = LetThrough(g, a, a + Minute)
      BY <1>1, <2>1, <3>1, LetAppended
    <3>3. Cardinality(LetThrough(g, a, a + Minute)) <= 2 * Limit
      BY DEF LimitInv
    <3> QED BY <3>2, <3>3
  <2> QED BY <2>2, <2>3
<1> HIDE DEF h, v
<1>7. LimitInv(h, v)
  BY <1>1, <1>2, <1>3, <1>4, <1>5, <1>6 DEF LimitInv
<1> QED BY <1>7 DEF h, v

\* Nothing was let through yet.
LEMMA UnusedLimit ==
  ASSUME NEW w \in Windows, w.count = 0
  PROVE LimitInv(<<>>, w)
<1>1. Len(<<>>) = 0 /\ Limit \in Nat /\ w.count <= Limit
  BY EmptySeq, ServerBounds DEF ValidLimit
<1>2. \A a, b : LetThrough(<<>>, a, b) = {}
  BY <1>1 DEF LetThrough
<1>3. \A a, b : Cardinality(LetThrough(<<>>, a, b)) = 0
  BY <1>2, FS_EmptySet
<1>4. ~\E i : i \in 1 .. Len(<<>>)
  BY <1>1
<1> QED BY <1>1, <1>3, <1>4 DEF LimitInv

LEMMA IntakeStep ==
  ASSUME ServersInv, ServersNext, TypeInv', NEW p \in Procs
  PROVE IntakeInv(p)'
<1>1. TypeInv
  BY DEF ServersInv
<1>2. /\ phase[p] \in {"off", "starting"} => grants[p] = <<>> /\ window[p].count = 0
      /\ LimitInv(grants[p], window[p])
      /\ window[p].start <= now
  BY DEF ServersInv, IntakeInv
<1>3. /\ window[p] \in Windows /\ window'[p] \in Windows /\ grants[p] \in Seq(Nat)
      /\ now \in 0 .. MaxTime /\ now' \in 0 .. MaxTime
  BY <1>1 DEF TypeInv, Windows
<1>4. window[p].start \in Nat /\ now \in Nat /\ now' \in Nat /\ MaxTime \in Nat
  BY <1>3, ServerBounds DEF Windows
<1>5. role' = role /\ now <= now' /\ (phase'[p] \in {"off", "starting"} => phase[p] \in {"off", "starting"})
  BY IntakeEffect
<1>6. /\ phase'[p] \in {"off", "starting"} => grants'[p] = <<>> /\ window'[p].count = 0
      /\ LimitInv(grants'[p], window'[p])
      /\ window'[p].start <= now'
  <2>1. CASE window'[p] = window[p] /\ grants'[p] = grants[p]
    <3>1. window[p].start <= now'
      BY <1>2, <1>4, <1>5
    <3> QED BY <1>2, <1>5, <2>1, <3>1
  <2>2. CASE Serve(p)
    <3>1. grants'[p] = <<>> /\ window'[p].count = 0 /\ window'[p].start = now /\ now' = now
      BY <1>1, <1>2, <2>2 DEF Serve, TypeInv
    <3>2. LimitInv(<<>>, window'[p])
      BY <1>3, <3>1, UnusedLimit
    <3> QED BY <1>4, <3>1, <3>2
  <2>3. ASSUME NEW r \in Requests, NEW input \in Inputs, Arrive(r, p, input),
               ~(window'[p] = window[p] /\ grants'[p] = grants[p])
        PROVE /\ phase'[p] \in {"off", "starting"} => grants'[p] = <<>> /\ window'[p].count = 0
              /\ LimitInv(grants'[p], window'[p])
              /\ window'[p].start <= now'
    <3>1. phase'[p] \in Open /\ now' = now
      <4>1. /\ phase' = phase /\ now' = now /\ req[r].step = "receiving" /\ req[r].at = p
        BY <2>3 DEF Arrive, daemons
      <4>2. phase[p] \in Open
        BY <4>1 DEF ServersInv, RequestInv, Flying
      <4> QED BY <4>1, <4>2
    <3>2. /\ ~Spent(Renewed(window[p])) /\ grants'[p] = Append(grants[p], now)
          /\ window'[p] = [Renewed(window[p]) EXCEPT !.count = @ + 1]
      BY <1>1, <2>3, ArrivalCounts
    <3>3. PICK w : w = Renewed(window[p])
      OBVIOUS
    <3>4. w \in Windows /\ LimitInv(grants[p], w) /\ w.start <= now /\ now < w.start + Minute
      BY <1>2, <1>3, <3>3, RenewedLimit
    <3>5. LimitInv(Append(grants[p], now), [w EXCEPT !.count = @ + 1])
      BY <1>3, <3>2, <3>3, <3>4, GrantedLimit
    <3>6. window'[p].start = w.start
      BY <3>2, <3>3, <3>4 DEF Windows
    <3> QED BY <3>1, <3>2, <3>3, <3>4, <3>5, <3>6 DEF Open
  <2> QED BY <2>1, <2>2, <2>3, IntakeEffect
<1> QED BY <1>5, <1>6 DEF IntakeInv

\* Whoever counts the last event, somebody asks for the shutdown.
LEMMA SignalStep ==
  ASSUME ServersInv, ServersNext, NEW p \in Procs
  PROVE Signalled(p)'
<1>1. /\ TypeInv /\ role' = role /\ counted[p].accepted \in Nat /\ MaxEvents \in Nat
      /\ NoOne \notin {"signal", "timeout", "max_events"}
  <2>1. TypeInv /\ role' = role
    BY IntakeEffect DEF ServersInv
  <2> QED BY <2>1, ServerBounds, ServerNames DEF TypeInv, ValidLimit
<1>2. /\ role[p] = "webhook" /\ phase[p] # "dead" /\ counted[p].accepted >= MaxEvents =>
           reason[p] # NoOne \/ \E r \in Requests : req[r].at = p /\ req[r].step = "counted"
      /\ reason[p] = "max_events" => counted[p].accepted >= MaxEvents
  BY DEF ServersInv, Signalled
<1>3. /\ counted'[p].accepted \in Nat /\ counted'[p].accepted >= counted[p].accepted
      /\ \/ counted'[p].accepted = counted[p].accepted \/ role[p] # "webhook"
         \/ \E r \in Requests : req'[r].at = p /\ req'[r].step = "counted"
  <2>1. CASE counted'[p] = counted[p]
    BY <1>1, <2>1
  <2>2. ASSUME NEW r \in Requests, Counting(r), req[r].at = p
        PROVE /\ counted'[p].accepted \in {counted[p].accepted, counted[p].accepted + 1}
              /\ counted'[p].accepted = counted[p].accepted \/ role[p] # "webhook"
                 \/ (req'[r].at = p /\ req'[r].step = "counted")
    <3>1. /\ req'[r].at = p /\ (CountCallback(r) => req'[r].step = "counted")
          /\ counted'[p].accepted \in {counted[p].accepted, counted[p].accepted + 1}
          /\ AnswerRejected(r) => counted'[p].accepted = counted[p].accepted
      BY <1>1, <2>2, HandlerCounts
    <3>2. AnswerAdapter(r) => role[p] # "webhook"
      BY <2>2 DEF AnswerAdapter
    <3> QED BY <2>2, <3>1, <3>2 DEF Counting
  <2>3. counted'[p] = counted[p] \/ \E r \in Requests : Counting(r) /\ req[r].at = p
    BY IntakeEffect
  <2>4. \A n \in Nat : n >= n /\ n + 1 >= n /\ n + 1 \in Nat
    OBVIOUS
  <2> QED BY <1>1, <2>1, <2>2, <2>3, <2>4
<1>4. ASSUME NEW r \in Requests, AnswerCallback(r), req[r].at = p PROVE Signalled(p)'
  <2>1. /\ counted' = counted
        /\ reason' = IF reason[p] = NoOne /\ EnoughEvents(counted[p].accepted)
                     THEN [reason EXCEPT ![p] = "max_events"] ELSE reason
    BY <1>4 DEF AnswerCallback
  <2>2. CASE reason[p] = NoOne /\ EnoughEvents(counted[p].accepted)
    <3>1. reason'[p] = "max_events"
      BY <1>1, <2>1, <2>2 DEF TypeInv
    <3> QED BY <1>1, <2>1, <2>2, <3>1 DEF Signalled, EnoughEvents
  <2>3. CASE ~(reason[p] = NoOne /\ EnoughEvents(counted[p].accepted))
    <3>1. reason' = reason
      BY <2>1, <2>3
    <3> QED BY <1>1, <1>2, <2>1, <2>3, <3>1 DEF Signalled, EnoughEvents
  <2> QED BY <2>2, <2>3
<1>5. ASSUME ~\E r \in Requests : AnswerCallback(r) /\ req[r].at = p PROVE Signalled(p)'
  <2>1. reason'[p] = reason[p] \/ reason'[p] \in {"signal", "timeout"}
    BY <1>5, IntakeEffect
  <2>2. reason'[p] = "max_events" => counted'[p].accepted >= MaxEvents
    BY <1>1, <1>2, <1>3, <2>1
  <2>3. ASSUME role[p] = "webhook", phase'[p] # "dead", counted'[p].accepted >= MaxEvents,
               reason'[p] = NoOne
        PROVE \E r \in Requests : req'[r].at = p /\ req'[r].step = "counted"
    <3>1. reason[p] = NoOne /\ phase[p] # "dead"
      BY <1>1, <2>1, <2>3, Settled
    <3>2. CASE counted'[p].accepted = counted[p].accepted
      <4>1. PICK r \in Requests : req[r].at = p /\ req[r].step = "counted"
        BY <1>2, <2>3, <3>1, <3>2
      <4>2. req'[r].at = p /\ req'[r].step = "counted"
        BY <1>5, <2>3, <4>1, RequestsMoveOn
      <4> QED BY <4>2
    <3>3. CASE counted'[p].accepted # counted[p].accepted
      BY <1>3, <2>3, <3>3
    <3> QED BY <3>2, <3>3
  <2> QED BY <1>1, <2>2, <2>3 DEF Signalled
<1> QED BY <1>4, <1>5

----------------------------------------------------------------------------
(* The invariant holds.                                                    *)

LEMMA InitServers ==
  ASSUME ServersInit
  PROVE ServersInv
<1>1. <<>> \in Seq(Events) /\ <<>> \in Seq(Nat) /\ <<>> \in Seq(Entries) /\ Len(<<>>) = 0
  BY EmptySeq
<1>2. MaxTime \in Nat /\ MaxEvents \in Nat \ {0} /\ 0 \in 0 .. MaxTime
  BY ServerBounds DEF ValidLimit
<1>3. TypeInv
  <2>1. role \in [Procs -> {"gateway", "webhook"}] /\ lock \in Procs \cup {NoOne}
        /\ phase \in [Procs -> Phases] /\ reason \in [Procs -> Reasons]
    BY PhasesOf DEF ServersInit
  <2>2. managers \in [Procs -> [Managers -> States]]
    BY DEF ServersInit, States
  <2>3. senders \in [Procs -> SUBSET ({"daemon", "adapter"} \cup Managers)]
    BY DEF ServersInit
  <2>4. bus \in [Procs -> Seq(Events)] /\ grants \in [Procs -> Seq(Nat)] /\ journal \in Seq(Entries)
    BY <1>1 DEF ServersInit
  <2>5. comp \in [Procs -> [Components -> {"starting", "idle", "running", "stopped"}]]
    BY DEF ServersInit
  <2>6. req \in [Requests -> RequestSet]
    BY DEF ServersInit, Waiting, RequestSet, Steps
  <2>7. counted \in [Procs -> [accepted : Nat, rejected : Nat]]
    BY DEF ServersInit
  <2>8. window \in [Procs -> [start : 0 .. MaxTime, count : Nat]] /\ now \in 0 .. MaxTime
    BY <1>2 DEF ServersInit
  <2> QED BY <2>1, <2>2, <2>3, <2>4, <2>5, <2>6, <2>7, <2>8 DEF TypeInv
<1>4. LockInv
  BY DEF ServersInit, LockInv, Open
<1>5. JournalInv
  <2>1. ~\E i : i \in 1 .. Len(journal)
    BY <1>1 DEF ServersInit
  <2> QED BY <2>1 DEF JournalInv, StoppedBehindAnswers
<1>6. ASSUME NEW r \in Requests PROVE RequestInv(r)
  <2>1. req[r].step = "none"
    BY DEF ServersInit, Waiting
  <2> QED BY <2>1 DEF RequestInv, Flying
<1>7. ASSUME NEW p \in Procs PROVE DaemonInv(p)
  <2>1. phase[p] = "off" /\ bus[p] = <<>> /\ \A m \in Managers : managers[p][m] = "none"
    BY DEF ServersInit
  <2> QED BY <2>1 DEF DaemonInv, Open
<1>8. ASSUME NEW p \in Procs PROVE CountInv(p)
  <2>1. counted[p].accepted = 0 /\ counted[p].rejected = 0 /\ window[p].count = 0
    BY DEF ServersInit
  <2>2. Done(p) \in SUBSET Requests /\ Taken(p) \in SUBSET Requests
    BY DEF Done, Taken
  <2>3. Cardinality(Done(p)) \in Nat /\ Cardinality(Taken(p)) \in Nat
    BY <2>2, RequestSets
  <2> QED BY <2>1, <2>3 DEF CountInv
<1>9. ASSUME NEW p \in Procs PROVE IntakeInv(p)
  <2>1. /\ window[p] = [start |-> 0, count |-> 0] /\ grants[p] = <<>> /\ now = 0
    BY DEF ServersInit
  <2>2. window[p] \in Windows /\ window[p].count = 0 /\ window[p].start = 0
    BY <1>2, <2>1 DEF Windows
  <2>3. LimitInv(<<>>, window[p])
    BY <2>2, UnusedLimit
  <2> QED BY <1>2, <2>1, <2>2, <2>3 DEF IntakeInv
<1>10. ASSUME NEW p \in Procs PROVE Signalled(p)
  <2>1. counted[p].accepted = 0 /\ reason[p] = NoOne
    BY DEF ServersInit
  <2> QED BY <1>2, <2>1, ServerNames DEF Signalled
<1> QED BY <1>3, <1>4, <1>5, <1>6, <1>7, <1>8, <1>9, <1>10 DEF ServersInv

LEMMA NextServers ==
  ASSUME ServersInv, [ServersNext]_serverVars
  PROVE ServersInv'
<1>1. CASE ServersNext
  <2>1. TypeInv'
    BY <1>1, TypeStep
  <2> QED BY <1>1, <2>1, LockStep, JournalStep, RequestStep, DaemonStep, CountStep, IntakeStep,
          SignalStep DEF ServersInv
<1>2. CASE UNCHANGED serverVars
  <2>1. /\ UNCHANGED <<role, lock, phase, reason, managers, senders, bus, comp>>
        /\ UNCHANGED <<req, counted, window, grants, journal, now>>
    BY <1>2 DEF serverVars, daemons, handlers
  <2>2. TypeInv' /\ LockInv' /\ JournalInv'
    BY <2>1 DEF ServersInv, TypeInv, LockInv, JournalInv, StoppedBehindAnswers
  <2>3. ASSUME NEW r \in Requests PROVE RequestInv(r)'
    BY <2>1 DEF ServersInv, RequestInv, Flying, Recorded
  <2>4. ASSUME NEW p \in Procs PROVE DaemonInv(p)'
    BY <2>1 DEF ServersInv, DaemonInv
  <2>5. ASSUME NEW p \in Procs PROVE CountInv(p)' /\ IntakeInv(p)' /\ Signalled(p)'
    BY <2>1 DEF ServersInv, CountInv, Done, Taken, IntakeInv, Signalled
  <2> QED BY <2>2, <2>3, <2>4, <2>5 DEF ServersInv
<1> QED BY <1>1, <1>2

\* In every state of the two servers: the state is typed, one process serves,
\* answers are journalled and shown, and the limiter keeps to its budget.
THEOREM AlwaysServers == ServersSpec => []ServersInv
<1>1. ServersInit => ServersInv
  BY InitServers
<1>2. ServersInv /\ [ServersNext]_serverVars => ServersInv'
  BY NextServers
<1> QED BY <1>1, <1>2, PTL DEF ServersSpec

----------------------------------------------------------------------------
(* What the servers promise.                                               *)

\* Only its handler answers a request that is journalled.
LEMMA AnsweredBy ==
  ASSUME ServersInv, ServersNext, NEW u \in Requests,
         req[u].step = "persisted", req'[u].step = "answered"
  PROVE AnswerRejected(u) \/ AnswerAdapter(u)
<1>1. TypeInv /\ req[u] \in RequestSet
  BY DEF ServersInv, TypeInv
<1>2. req'[u] # req[u]
  OBVIOUS
<1>3. ASSUME NEW p \in Procs, StartServer(p) \/ Serve(p) \/ StartFails(p) \/ RequestShutdown(p) PROVE FALSE
  BY <1>2, <1>3 DEF StartServer, Serve, StartFails, RequestShutdown, handlers
<1>4. ASSUME NEW p \in Procs, StopListening(p) \/ StopServing(p) \/ JoinSubscriptions(p)
             \/ JoinJobs(p) \/ JoinSupervisor(p) \/ Close(p)
      PROVE FALSE
  BY <1>2, <1>4 DEF StopListening, StopServing, JoinSubscriptions, JoinJobs, Join, JoinSupervisor, Close, handlers
<1>5. ASSUME NEW p \in Procs, NEW m \in Managers,
             ManagerBegins(p, m) \/ ManagerEnds(p, m) \/ ManagerFails(p, m)
      PROVE FALSE
  BY <1>2, <1>5 DEF ManagerBegins, ManagerEnds, ManagerFails, handlers
<1>6. ASSUME NEW p \in Procs, Kill(p) PROVE FALSE
  <2>1. req'[u] = req[u] \/ req'[u] = [req[u] EXCEPT !.step = "gone"]
    BY <1>6 DEF Kill
  <2> QED BY <1>1, <2>1 DEF RequestSet
<1>7. ASSUME NEW p \in Procs, Supervise(p) PROVE FALSE
  BY <1>1, <1>7, SuperviseEffect
<1>8. ASSUME NEW r \in Requests, NEW p \in Procs,
             Begin(r, p) \/ \E input \in Inputs : Arrive(r, p, input)
      PROVE FALSE
  BY <1>1, <1>2, <1>8 DEF Begin, Arrive, TypeInv
<1>9. ASSUME NEW r \in Requests, Handle(r) \/ TooLarge(r) \/ Disconnect(r)
      PROVE AnswerRejected(u) \/ AnswerAdapter(u)
  <2>1. r = u
    BY <1>1, <1>2, <1>9, HandlerEffect
  <2>2. CASE Disconnect(u) \/ CountCallback(u)
    BY <1>1, <2>2 DEF Disconnect, CountCallback, TypeInv, RequestSet
  <2>3. ~Persist(u) /\ ~PersistFails(u) /\ ~TooLarge(u) /\ ~AnswerCallback(u)
    BY DEF Persist, PersistFails, TooLarge, AnswerCallback
  <2> QED BY <1>9, <2>1, <2>2, <2>3 DEF Handle
<1>10. ASSUME Tick PROVE FALSE
  BY <1>2, <1>10 DEF Tick, handlers
<1> QED BY <1>3, <1>4, <1>5, <1>6, <1>7, <1>8, <1>9, <1>10 DEF ServersNext, Shut

\* Only the limiter, on arrival, turns a request away with a 429.
LEMMA ArrivedBy ==
  ASSUME ServersInv, ServersNext, NEW u \in Requests,
         req[u].code = 0, req'[u].code = 429
  PROVE \E p \in Procs, input \in Inputs : Arrive(u, p, input)
<1>1. TypeInv /\ req[u] \in RequestSet
  BY DEF ServersInv, TypeInv
<1>2. req'[u] # req[u]
  OBVIOUS
<1>3. ASSUME NEW p \in Procs, StartServer(p) \/ Serve(p) \/ StartFails(p) \/ RequestShutdown(p) PROVE FALSE
  BY <1>2, <1>3 DEF StartServer, Serve, StartFails, RequestShutdown, handlers
<1>4. ASSUME NEW p \in Procs, StopListening(p) \/ StopServing(p) \/ JoinSubscriptions(p)
             \/ JoinJobs(p) \/ JoinSupervisor(p) \/ Close(p)
      PROVE FALSE
  BY <1>2, <1>4 DEF StopListening, StopServing, JoinSubscriptions, JoinJobs, Join, JoinSupervisor, Close, handlers
<1>5. ASSUME NEW p \in Procs, NEW m \in Managers,
             ManagerBegins(p, m) \/ ManagerEnds(p, m) \/ ManagerFails(p, m)
      PROVE FALSE
  BY <1>2, <1>5 DEF ManagerBegins, ManagerEnds, ManagerFails, handlers
<1>6. ASSUME NEW p \in Procs, Kill(p) PROVE FALSE
  <2>1. req'[u] = req[u] \/ req'[u] = [req[u] EXCEPT !.step = "gone"]
    BY <1>6 DEF Kill
  <2> QED BY <1>1, <2>1 DEF RequestSet
<1>7. ASSUME NEW p \in Procs, Supervise(p) PROVE FALSE
  BY <1>1, <1>7, SuperviseEffect
<1>8. ASSUME NEW r \in Requests, NEW p \in Procs, NEW input \in Inputs, Arrive(r, p, input)
      PROVE r = u
  BY <1>1, <1>2, <1>8 DEF Arrive, TypeInv
<1>11. ASSUME NEW r \in Requests, NEW p \in Procs, Begin(r, p) PROVE FALSE
  BY <1>1, <1>2, <1>11 DEF Begin, TypeInv
<1>9. ASSUME NEW r \in Requests, Handle(r) \/ TooLarge(r) \/ Disconnect(r) PROVE FALSE
  <2>1. r = u
    <3>1. \A v \in Requests : v # r => req'[v] = req[v]
      BY <1>1, <1>9, HandlerEffect
    <3> QED BY <1>2, <3>1
  <2>2. req'[r].code = 429 => req[r].code = 429
    BY <1>1, <1>9, HandlerEffect
  <2> QED BY <2>1, <2>2
<1>10. ASSUME Tick PROVE FALSE
  BY <1>2, <1>10 DEF Tick, handlers
<1> QED BY <1>3, <1>4, <1>5, <1>6, <1>7, <1>8, <1>9, <1>10, <1>11 DEF ServersNext, Shut

\* What the invariant says of each state.
LEMMA StatesPromise ==
  ASSUME ServersInv
  PROVE ServersTypeOK /\ OneServer /\ AnsweredIsJournalled /\ AcceptedIsShown
        /\ SummaryIsFinal /\ StoppedBehindAnswers
<1>1. TypeInv /\ LockInv /\ JournalInv
  BY DEF ServersInv
<1>2. ServersTypeOK
  <2>1. counted \in [Procs -> [accepted : 0 .. Cardinality(Requests), rejected : 0 .. Cardinality(Requests)]]
        /\ window \in [Procs -> [start : 0 .. MaxTime, count : 0 .. Cardinality(Requests)]]
    <3> SUFFICES ASSUME NEW p \in Procs
                 PROVE /\ counted[p] \in [accepted : 0 .. Cardinality(Requests), rejected : 0 .. Cardinality(Requests)]
                       /\ window[p] \in [start : 0 .. MaxTime, count : 0 .. Cardinality(Requests)]
      BY <1>1 DEF TypeInv
    <3>1. /\ counted[p].accepted + counted[p].rejected <= Cardinality(Done(p))
          /\ window[p].count <= Cardinality(Taken(p))
      BY DEF ServersInv, CountInv
    <3>2. Done(p) \in SUBSET Requests /\ Taken(p) \in SUBSET Requests
      BY DEF Done, Taken
    <3>3. /\ Cardinality(Done(p)) \in Nat /\ Cardinality(Taken(p)) \in Nat /\ Cardinality(Requests) \in Nat
          /\ Cardinality(Done(p)) <= Cardinality(Requests) /\ Cardinality(Taken(p)) <= Cardinality(Requests)
      BY <3>2, RequestSets
    <3>4. counted[p] \in [accepted : Nat, rejected : Nat] /\ window[p] \in [start : 0 .. MaxTime, count : Nat]
      BY <1>1 DEF TypeInv
    <3>5. /\ counted[p].accepted \in 0 .. Cardinality(Requests) /\ counted[p].rejected \in 0 .. Cardinality(Requests)
          /\ window[p].count \in 0 .. Cardinality(Requests)
      BY <3>1, <3>3, <3>4
    <3> QED BY <3>4, <3>5
  <2>2. req \in [Requests -> [at : Procs \cup {NoOne},
                           step : {"none", "receiving", "persisting", "persisted",
                                   "counted", "answered", "orphan", "gone"},
                           code : Answers \cup {0}, shown : BOOLEAN]]
    BY <1>1 DEF TypeInv, RequestSet, Steps
  <2>3. /\ phase \in [Procs -> Alive \cup {"off", "stopped", "failed", "dead"}]
        /\ reason \in [Procs -> {NoOne, "signal", "timeout", "max_events"}]
        /\ managers \in [Procs -> [Managers -> {"none", "spawned", "running", "ok", "error"}]]
    BY <1>1 DEF TypeInv, Phases, Reasons, States
  <2> QED BY <1>1, <2>1, <2>2, <2>3 DEF TypeInv, ServersTypeOK
<1>3. OneServer
  BY <1>1 DEF LockInv, OneServer, Open
<1>4. AnsweredIsJournalled
  BY DEF ServersInv, RequestInv, Recorded, Has, AnsweredIsJournalled
<1>5. AcceptedIsShown
  <2> SUFFICES ASSUME NEW r \in Requests, req[r].step = "answered", req[r].code = 202,
                      role[req[r].at] = "gateway", phase[req[r].at] = "stopped"
               PROVE req[r].shown
    BY DEF AcceptedIsShown
  <2>1. req[r].at \in Procs /\ (req[r].shown \/ Has(bus[req[r].at], <<"request", r>>))
    BY DEF ServersInv, RequestInv
  <2>2. bus[req[r].at] = <<>>
    BY <2>1 DEF ServersInv, DaemonInv
  <2>3. ~Has(<<>>, <<"request", r>>)
    BY EmptySeq DEF Has
  <2> QED BY <2>1, <2>2, <2>3
<1>6. SummaryIsFinal
  <2> SUFFICES ASSUME NEW p \in Procs, role[p] = "gateway", phase[p] = "stopped", NEW c \in Components
               PROVE comp[p][c] = IF c = "adapters" THEN "running" ELSE "stopped"
    BY DEF SummaryIsFinal
  <2>1. DaemonInv(p)
    BY DEF ServersInv
  <2>2. /\ bus[p] = <<>> /\ comp[p]["adapters"] = "running"
        /\ \A m \in Managers : managers[p][m] = "ok"
    BY <2>1 DEF DaemonInv, Managers
  <2>3. c # "adapters" => LastWord(bus[p], comp[p][c], c)
    BY <2>1, <2>2 DEF DaemonInv, Components
  <2> QED BY <2>2, <2>3, WordOnEmpty
<1>7. StoppedBehindAnswers
  BY <1>1 DEF JournalInv
<1> QED BY <1>2, <1>3, <1>4, <1>5, <1>6, <1>7

LEMMA JournalledStep ==
  ASSUME ServersInv, ServersNext, NEW r \in Requests,
         req[r].step = "persisted", req'[r].step = "answered"
  PROVE req'[r].code # 500
<1>1. TypeInv /\ req[r] \in RequestSet /\ req[r].at \in Procs /\ phase[req[r].at] \in Open
      /\ req[r].code \in {202, 400, 401, 429}
  <2>1. TypeInv /\ RequestInv(r)
    BY DEF ServersInv
  <2>2. req[r] \in RequestSet
    BY <2>1 DEF TypeInv
  <2> QED BY <2>1, <2>2 DEF RequestInv, Flying
<1>2. AnswerRejected(r) \/ AnswerAdapter(r)
  BY AnsweredBy
<1>3. PICK code \in {202, 400, 401, 429} : Answered(r, code)
  <2>1. CASE AnswerRejected(r)
    BY <1>1, <2>1 DEF AnswerRejected
  <2>2. CASE AnswerAdapter(r)
    <3>1. role[req[r].at] = "gateway"
      BY <2>2 DEF AnswerAdapter
    <3>2. "adapter" \in senders[req[r].at]
      BY <1>1, <3>1 DEF ServersInv, DaemonInv
    <3> QED BY <2>2, <3>2 DEF AnswerAdapter
  <2> QED BY <1>2, <2>1, <2>2
<1>4. req \in [Requests -> RequestSet]
  BY <1>1 DEF TypeInv
<1>5. req'[r].code = code
  BY <1>3, <1>4 DEF Answered, RequestSet
<1> QED BY <1>3, <1>5

LEMMA DeniedStep ==
  ASSUME ServersInv, ServersNext, NEW r \in Requests, req[r].code = 0, req'[r].code = 429
  PROVE Cardinality({i \in 1 .. Len(grants[req'[r].at]) : grants[req'[r].at][i] + Minute > now}) >= Limit
<1>1. TypeInv
  BY DEF ServersInv
<1>3. PICK p \in Procs, input \in Inputs : Arrive(r, p, input)
  BY ArrivedBy
<1> DEFINE g == grants[p]
           w == window[p]
           late == {i \in 1 .. Len(g) : g[i] + Minute > now}
<1>4. /\ LimitInv(g, w) /\ w.start <= now /\ w \in Windows /\ g \in Seq(Nat) /\ now \in 0 .. MaxTime
      /\ now \in Nat /\ w.start \in Nat /\ w.count \in Nat
      /\ Minute \in Nat \ {0} /\ Limit \in Nat \ {0} /\ w.start + Minute \in Nat
  <2>1. LimitInv(g, w) /\ w.start <= now
    BY DEF ServersInv, IntakeInv
  <2>2. w \in Windows /\ g \in Seq(Nat) /\ now \in 0 .. MaxTime
    BY <1>1 DEF TypeInv, Windows
  <2> QED BY <2>1, <2>2, ServerBounds DEF Windows, ValidLimit
<1>5. req'[r].at = p /\ Spent(Renewed(w))
  <2>1. req'[r] = [at |-> p, step |-> "persisting", shown |-> FALSE,
                   code |-> Verdict(role[p] = "gateway" /\ Spent(Renewed(w)), input)]
    BY <1>1, <1>3 DEF Arrive, TypeInv
  <2>2. Verdict(role[p] = "gateway" /\ Spent(Renewed(w)), input) = 429
    BY <2>1
  <2>3. role[p] = "gateway" /\ Spent(Renewed(w))
    BY <2>2 DEF Verdict
  <2> QED BY <2>1, <2>3
<1>6. w.count >= Limit /\ now < w.start + Minute
  <2>1. CASE now - w.start >= Minute
    <3>1. Renewed(w).count = 0
      BY <2>1 DEF Renewed
    <3> QED BY <1>4, <1>5, <3>1 DEF Spent
  <2>2. CASE ~(now - w.start >= Minute)
    <3>1. Renewed(w) = w
      BY <2>2 DEF Renewed
    <3>2. now < w.start + Minute
      BY <1>4, <2>2
    <3> QED BY <1>5, <3>1, <3>2 DEF Spent
  <2> QED BY <2>1, <2>2
<1>7. LetThrough(g, w.start, w.start + Minute) \in SUBSET late
  <2> SUFFICES ASSUME NEW i \in 1 .. Len(g), w.start <= g[i] PROVE g[i] + Minute > now
    BY DEF LetThrough
  <2>1. g[i] \in Nat
    <3>1. g \in Seq(Nat)
      BY <1>4
    <3> QED BY <3>1, ElementOfSeq
  <2> QED BY <1>4, <1>6, <2>1, SMTT(30)
<1>8. IsFiniteSet(late)
  <2>1. Len(g) \in Nat /\ 1 \in Int
    BY <1>4, LenProperties
  <2>2. IsFiniteSet(1 .. Len(g))
    <3> HIDE DEF g
    <3> QED BY <2>1, FS_Interval
  <2>3. late \in SUBSET (1 .. Len(g))
    OBVIOUS
  <2> QED BY <2>2, <2>3, FS_Subset
<1>9. /\ Cardinality(LetThrough(g, w.start, w.start + Minute)) = w.count
      /\ Cardinality(LetThrough(g, w.start, w.start + Minute)) <= Cardinality(late)
      /\ Cardinality(late) \in Nat
  BY <1>4, <1>7, <1>8, FS_Subset, FS_CardinalityType DEF LimitInv
<1>10. Cardinality(late) >= Limit
  <2> HIDE DEF late, g, w
  <2> QED BY <1>4, <1>6, <1>9
<1> QED BY <1>5, <1>10

LEMMA BurstState ==
  ASSUME ServersInv
  PROVE BurstBound
<1> SUFFICES ASSUME NEW p \in Procs, NEW t \in 0 .. MaxTime
             PROVE Cardinality({i \in 1 .. Len(grants[p]) : grants[p][i] \in t .. t + Minute - 1})
                     <= IF t = window[p].start THEN Limit ELSE 2 * Limit
  BY DEF BurstBound
<1>1. grants[p] \in Seq(Nat) /\ LimitInv(grants[p], window[p])
  BY DEF ServersInv, TypeInv, IntakeInv
<1>2. t \in Nat /\ Minute \in Nat
  BY ServerBounds
<1>3. \A i \in 1 .. Len(grants[p]) : grants[p][i] \in Nat
  BY <1>1, ElementOfSeq
<1>4. {i \in 1 .. Len(grants[p]) : grants[p][i] \in t .. t + Minute - 1} = LetThrough(grants[p], t, t + Minute)
  BY <1>2, <1>3 DEF LetThrough
<1> QED BY <1>1, <1>2, <1>4 DEF LimitInv

\* A server keeps what it answers for, whatever interleaving of handlers,
\* managers, supervisor and shutdown: one server at a time, every answer of a
\* handler in the journal, no 500 for what is journalled, and an orderly stop
\* that shows every accepted request and the managers and listener stopped.
THEOREM AnswersKept == ServersSpec => AnswersAreKept
<1>1. ServersInv => ServersTypeOK /\ OneServer /\ AnsweredIsJournalled /\ AcceptedIsShown
                    /\ SummaryIsFinal /\ StoppedBehindAnswers
  BY StatesPromise
<1>2. ServersInv /\ [ServersNext]_serverVars =>
        [\A r \in Requests : req[r].step = "persisted" /\ req'[r].step = "answered"
           => req'[r].code # 500]_serverVars
  BY JournalledStep
<1> QED BY <1>1, <1>2, AlwaysServers, PTL DEF ServersSpec, AnswersAreKept, JournalledIsAccepted

\* The rate limit bounds what any minute lets through and turns nobody away
\* early, and the shutdown of a receiver that accepted --max-events is asked
\* for, whichever of its handlers counts last.
THEOREM IntakeBounded == ServersSpec => IntakeIsBounded
<1>1. ServersInv => BurstBound /\ EnoughIsSignalled
  BY BurstState DEF ServersInv, Signalled, EnoughIsSignalled
<1>2. ServersInv /\ [ServersNext]_serverVars =>
        [\A r \in Requests : req[r].code = 0 /\ req'[r].code = 429 =>
           LET at == req'[r].at
           IN  Cardinality({i \in 1 .. Len(grants[at]) : grants[at][i] + Minute > now}) >= Limit
        ]_serverVars
  BY DeniedStep
<1> QED BY <1>1, <1>2, AlwaysServers, PTL
        DEF ServersSpec, IntakeIsBounded, DeniedOnlyWhenSpent

=============================================================================

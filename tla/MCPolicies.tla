----------------------------- MODULE MCPolicies -----------------------------
(* The rules the commands and the gateway decide by: busy input, session   *)
(* resets, the configuration, routing, and the state files. Each family of *)
(* behaviours, chosen in the first state, runs one of them.                *)
EXTENDS GatewaySessions, Routing, StateFiles

CONSTANTS s1, s2, k1, k2, o1, o2

VARIABLE family

----------------------------------------------------------------------------
(* Instances. *)

MCBusyPolicies == [mode : Modes, fallback : {"queue", "interrupt"}, depth : 1..2, remote : BOOLEAN]
MCInputs == 1..4
MCInstants == -4..5

Dir(files, git) == [files |-> files, git |-> git]
Dirs == {Dir(f, g) : f \in {{}, {".missive.toml"}, {"missive.toml", ".missive.toml"}}, g \in BOOLEAN}

Plainest == [explicit |-> "", env |-> "unset", repoFlag |-> FALSE, repoEnv |-> "unset", ancestors |-> <<Dir({}, FALSE)>>,
             xdgHome |-> "unset", home |-> "set", xdgDirs |-> "unset", present |-> {}]

\* The file named, the repository or the XDG roots vary.
MCSurroundings ==
  [explicit : {"", "p"}, env : {"unset", "empty", "path"}, repoFlag : BOOLEAN, repoEnv : {"unset", "0", "1"},
   ancestors : {<<d>> : d \in Dirs}, xdgHome : {"set"}, home : {"set"}, xdgDirs : {"unset"},
   present : {{}, {<<"xdg_home", "config.toml">>}}]
  \cup
  [explicit : {""}, env : {"unset"}, repoFlag : BOOLEAN, repoEnv : {"unset", "0", "1"},
   ancestors : [1..3 -> Dirs], xdgHome : {"set"}, home : {"set"}, xdgDirs : {"unset"},
   present : {{}, {<<"xdg_home", "config.toml">>}}]
  \cup
  [explicit : {""}, env : {"unset"}, repoFlag : BOOLEAN, repoEnv : {"unset"}, ancestors : {<<d>> : d \in Dirs},
   xdgHome : {"unset", "empty", "set"}, home : {"unset", "set"}, xdgDirs : {"unset", "empty", "set"},
   present : SUBSET {<<"xdg_home", "missive.toml">>, <<"home", "config.toml">>, <<"home", "missive.toml">>, <<"etc", "config.toml">>,
                     <<"dir1", "missive.toml">>, <<"dir2", "config.toml">>}]
  \cup {Plainest}

\* Names: main is always there, long and bad are out of bounds.
main == Text(4, "lower")
work == Text(5, "lower")
long == Text(64, "lower")
bad  == Text(5, "spaced")

Busy0 == [mode |-> "steer", fallback |-> "queue", depth |-> 1]
BusySections == {Busy0, [Busy0 EXCEPT !.fallback = "steer"], [Busy0 EXCEPT !.depth = 0]}
Gateway0 == [bind |-> TRUE, url |-> "unset", jobs |-> 1, busy |-> Busy0]
Gateways == [bind : BOOLEAN, url : {"unset", "http", "ftp"}, jobs : 0..1, busy : BusySections]
Protocol0 == [version |-> Text(3, "lower"), extensions |-> <<>>, parameters |-> {}]
Protocols == {Protocol0}
  \cup {[Protocol0 EXCEPT !.version = v] : v \in {Text(65, "lower"), Text(2, "edge"), Text(2, "free"), Text(0, "lower")}}
  \cup {[Protocol0 EXCEPT !.extensions = <<x, y>>] : x, y \in {Text(3, "free"), Text(3, "spaced"), Text(513, "free")}}
  \cup {[Protocol0 EXCEPT !.parameters = {[name |-> n, value |-> v]}] :
          n \in {"plain", "odd", "a2a-version"}, v \in {Text(9, "free"), Text(9, "control"), Text(8193, "free")}}
Duration(n, u) == [number |-> n, unit |-> u]
Qos0 == [timeout |-> Duration(30, "s"), connect |-> Duration(5, "s"), backoff |-> Duration(100, "ms"),
         retries |-> 0, bytes |-> 1, concurrency |-> 1]
QosSections == {Qos0} \cup {[Qos0 EXCEPT !.backoff = Duration(n, u)] : n \in 0..1, u \in {"m", "h", "weeks"}}
  \cup {[Qos0 EXCEPT !.retries = n] : n \in {10, 11}} \cup {[Qos0 EXCEPT !.bytes = 0], [Qos0 EXCEPT !.concurrency = 0]}

Sections0 == [storage |-> "default", output |-> [format |-> "human", redact |-> TRUE], protocol |-> Protocol0,
              gateway |-> Gateway0, routing |-> "direct", qos |-> Qos0]
\* One section at a time out of the ordinary.
SectionEdits ==
       {<<"storage", v>> : v \in {"empty", "control", "relative", "parent", "tilde"}} \cup {<<"output", [format |-> "json", redact |-> b]>> : b \in BOOLEAN}
  \cup {<<"protocol", v>> : v \in Protocols} \cup {<<"gateway", v>> : v \in Gateways}
  \cup {<<"routing", v>> : v \in {"round_robin", "tag-match", "random"}} \cup {<<"qos", v>> : v \in QosSections}
NoSections == [s \in Sections |-> Unset]

Profile0 == [description |-> Text(0, "lower"), default_agent |-> NoName, sections |-> NoSections]
Profiles0 == main :> Profile0
Agent0 == [url |-> "http", interfaces |-> <<>>, preference |-> <<>>, auth |-> NoName, tags |-> {}, notes |-> Text(0, "lower")]
Auth0 == [header |-> "plain", scheme |-> "plain", kind |-> "env", env |-> "plain", service |-> main, account |-> main]
Adapter0 == [kind |-> main, profile |-> NoName, busy |-> Unset]
Document0 == [parses |-> TRUE, schema |-> TRUE, default |-> main, profiles |-> Profiles0, agents |-> <<>>,
              auth |-> <<>>, adapters |-> <<>>, sections |-> Sections0]

ProfileTables ==
       {Profiles0 @@ (n :> Profile0) : n \in {work, long, bad}}
  \cup {main :> [Profile0 EXCEPT !.default_agent = n, !.description = t] :
          n \in {NoName, work}, t \in {Text(3, "free"), Text(3, "control")}}
  \cup {main :> [Profile0 EXCEPT !.sections = [NoSections EXCEPT ![x[1]] = x[2]]] : x \in SectionEdits}
AgentTables ==
       {<<>>} \cup {n :> Agent0 : n \in {work, long, bad}}
  \cup {work :> [Agent0 EXCEPT !.auth = n] : n \in {main, work, bad}}
  \cup {work :> [Agent0 EXCEPT !.interfaces = (b :> u), !.tags = {t}] :
          b \in {Text(64, "plus"), Text(65, "lower"), Text(4, "edge")}, u \in {"http", "ftp"}, t \in {work, bad}}
  \cup {work :> [Agent0 EXCEPT !.preference = <<main, b>>, !.notes = Text(3, "control")] : b \in {main, Text(4, "edge")}}
  \cup {work :> [Agent0 EXCEPT !.url = "ftp"]}
AuthTables ==
       {<<>>} \cup {n :> Auth0 : n \in {main, bad}}
  \cup {main :> [Auth0 EXCEPT !.kind = k, !.env = "odd", !.service = v] : k \in {"env", "keyring"}, v \in {main, Text(2, "blank")}}
  \cup {main :> [Auth0 EXCEPT !.header = "odd"], main :> [Auth0 EXCEPT !.scheme = "odd"]}
AdapterTables ==
       {<<>>} \cup {work :> [Adapter0 EXCEPT !.kind = k] : k \in {main, bad}}
  \cup {n :> [Adapter0 EXCEPT !.profile = p, !.busy = b] : n \in {work, long}, p \in {main, work}, b \in BusySections}

\* Sections and profiles, agents and their secrets, adapters and profiles vary
\* together.
MCDocuments ==
  {Document0, [Document0 EXCEPT !.parses = FALSE], [Document0 EXCEPT !.schema = FALSE], [Document0 EXCEPT !.default = work]}
  \cup {[Document0 EXCEPT !.sections[x[1]] = x[2], !.profiles = t] : x \in SectionEdits, t \in {Profiles0, Profiles0 @@ (work :> Profile0)}}
  \cup {[Document0 EXCEPT !.profiles = p, !.agents = t] : p \in ProfileTables, t \in {<<>>, work :> Agent0}}
  \cup {[Document0 EXCEPT !.agents = t, !.auth = a] : t \in AgentTables, a \in AuthTables}
  \cup {[Document0 EXCEPT !.adapters = t, !.profiles = p] : t \in AdapterTables, p \in {Profiles0, Profiles0 @@ (work :> Profile0)}}

MCSelections == {NoName, main, work}

Keys == {"plain", "secret", "headers", "item"}
Tokens == {"Bearer", "space", "comma", "secret", "word"}
MCRenderings ==
  [path : UNION {[1..n -> Keys] : n \in 1..3},
   text : {<<"secret">>, <<"Bearer", "space", "secret">>, <<"word", "space", "Bearer", "space", "secret", "comma", "word">>,
           <<"Bearer", "space", "space", "secret">>, <<"Bearer", "Bearer", "space", "secret">>}]

x == Label("x", "plain")
y == Label("y", "plain")
NoneAsked == [group |-> TRUE, policy |-> "", stored |-> "round_robin", configured |-> "direct", preferred |-> 0,
              tags |-> <<>>, capabilities |-> <<>>, inputs |-> <<>>, outputs |-> <<>>, streaming |-> FALSE, push |-> FALSE,
              cursor |-> 0, quorum |-> 0]
MCArguments ==
       {[NoneAsked EXCEPT !.policy = q, !.group = g, !.preferred = i, !.quorum = n] :
          q \in {"direct", "weighted", "fallback", "quorum", "first_success"}, g \in BOOLEAN, i \in {0, 2}, n \in {0, 2}}
  \cup {[NoneAsked EXCEPT !.policy = q] : q \in {"random", "broadcast", "capability-match"}}
  \cup {[NoneAsked EXCEPT !.group = g, !.cursor = c] : g \in BOOLEAN, c \in {0, 2}}
  \cup {[NoneAsked EXCEPT !.policy = "tag_match", !.tags = t] : t \in {<<x>>, <<x, y>>, <<x, Label("x", "padded")>>}}
  \cup {[NoneAsked EXCEPT !.policy = "capability-match", !.tags = t, !.capabilities = c, !.streaming = s, !.inputs = i] :
          t \in {<<>>, <<x>>}, c \in {<<>>, <<y>>, <<Label("", "plain")>>}, s \in BOOLEAN, i \in {<<>>, <<x>>}}
  \cup {[NoneAsked EXCEPT !.policy = "capability-match", !.outputs = <<x>>, !.push = TRUE]}

Skill == [id |-> Label("y", "padded"), name |-> Label("Y", "plain"), tags |-> {x, Label("x", "padded"), Label("", "padded")},
          inputs |-> {Label("x", "padded"), x}, outputs |-> {x}]
MCAgentRows ==
  [tags : {{}}, metadata : {{}}, card : {NoCard}]
  \cup [tags : {{x, Label("x", "padded")}}, metadata : {{[label |-> y, as |-> "off"]}},
        card : {[NoCard EXCEPT !.streaming = "yes", !.push = "no", !.skills = {Skill}]}]
  \cup [tags : {{}}, metadata : {{[label |-> y, as |-> "string"]}},
        card : {[NoCard EXCEPT !.streaming = "no", !.push = "yes", !.inputs = {x}, !.outputs = {Label("x", "padded")}]}]

Where(kind, path) == [kind |-> kind, path |-> path]
Defaults == [p \in {"a", "b"} |-> Where("default", <<>>)]
Layout0 == [home |-> "absolute", missiveHome |-> "unset", xdgState |-> "unset", xdgOther |-> "unset",
            platform |-> "linux", database |-> Defaults]
MCLayouts ==
       {[Layout0 EXCEPT !.home = h, !.missiveHome = m, !.xdgState = v, !.xdgOther = w, !.platform = q] :
          h \in {"unset", "absolute"}, m \in {"unset", "absolute", "relative"}, v \in {"unset", "absolute", "empty"},
          w \in {"unset", "relative"}, q \in {"linux", "macos"}}
  \cup {[Layout0 EXCEPT !.database = "a" :> d @@ "b" :> e] :
          d, e \in {Where("default", <<>>), Where("absolute", <<"/", "db">>), Where("home", <<"db">>), Where("tilde", <<>>),
                    Where("relative", <<"db">>), Where("relative", <<"..", "b", "missive.sqlite3">>)}}
MCProfiles == {"a", "b"}
MCBinaries == {[n |-> 1, build |-> "a"], [n |-> 2, build |-> "a"], [n |-> 2, build |-> "b"]}

----------------------------------------------------------------------------
(* Families. *)

vars == <<busyVars, sessionVars, configVars, routeVars, stateVars, family>>

\* What a family leaves alone starts in one state.
In(f, all, one) == IF family = f THEN all ELSE {one}

MCInit ==
  /\ family \in {"busy", "session", "discovery", "config", "render", "route", "state"}
  /\ policy \in In("busy", BusyPolicies, [mode |-> "queue", fallback |-> "queue", depth |-> 1, remote |-> FALSE])
  /\ now \in In("session", Instants, 0)
  /\ surroundings \in In("discovery", Surroundings, Plainest)
  /\ document \in In("config", Documents, Document0) /\ selection \in In("config", Selections, NoName)
  /\ args \in In("route", Arguments, NoneAsked) /\ cursor \in IF args.policy = "" THEN {0, MAX_CURSOR - 2} ELSE {0}
  /\ layout \in In("state", Layouts, Layout0)
  /\ BusyInit /\ SessionInit /\ NothingLoaded /\ RouteInit /\ StateInit

BusyFamily ==
  /\ family = "busy" /\ BusyNext /\ active'.wait = active'.subscription /\ active'.context = active'.cancellable
  /\ UNCHANGED <<sessionVars, configVars, routeVars, stateVars>>

\* The second session has no policy.
SessionFamily ==
  /\ family = "session" /\ SessionNext
  /\ sessions'[s2] # NoSession => sessions'[s2].mode = "none" /\ sessions'[s2].hour = 0 /\ touched'[s2] = 0
  /\ UNCHANGED <<busyVars, configVars, routeVars, stateVars>>

ConfigFamily ==
  /\ \/ family \in {"discovery", "config"} /\ LoadConfig
     \/ family = "render" /\ ShowConfig
  /\ UNCHANGED <<busyVars, sessionVars, routeVars, stateVars>>

\* The first candidate may have labels of its membership.
RouteFamily ==
  /\ family = "route" /\ RouteNext
  /\ Len(candidates') > 1 => Last(candidates').tags = {} /\ Last(candidates').metadata = {}
  /\ UNCHANGED <<busyVars, sessionVars, configVars, stateVars>>

\* Processes start where the databases are apart, shared, or badly named.
Opened == {Layout0, [Layout0 EXCEPT !.database = [p \in {"a", "b"} |-> Where("absolute", <<"/", "db">>)]],
           [Layout0 EXCEPT !.database["a"] = Where("tilde", <<>>)]}

\* o1 starts first, for a; b matters where it shares; one doctor, of a few
\* starts; only o1 lets go of its lock early.
StateFamily ==
  /\ family = "state" /\ layout \in Opened /\ StateNext
  /\ opens' = 1 => opener'[o1].profile = "a" /\ opener'[o2].step = "off"
  /\ \A o \in Openers : opener'[o].profile = "b" => Shares("b")
  /\ opener'[o2].step = "using" => holder'[opener'[o2].profile] = o2
  /\ doctor'.step # "off" => doctor'.binary = [n |-> 2, build |-> "a"] /\ opens' <= 2
  /\ UNCHANGED <<busyVars, sessionVars, configVars, routeVars>>

MCNext == (BusyFamily \/ SessionFamily \/ ConfigFamily \/ RouteFamily \/ StateFamily) /\ family' = family

MCSpec == MCInit /\ [][MCNext]_vars /\ StateFairness
=============================================================================

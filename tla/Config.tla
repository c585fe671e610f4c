------------------------------- MODULE Config -------------------------------
(* The configuration (missive-core config.rs): which file is found, what it *)
(* must say to be accepted, what the commands then read from it, and how it *)
(* is shown without its secrets.                                            *)
EXTENDS Ids, Integers, Sequences, SequencesExt, FiniteSets

CONSTANTS
  Surroundings,    \* environments discovery runs in
  Documents,       \* what a configuration file may say
  Selections,      \* values of --profile (NoName: not given)
  Renderings,      \* values of a configuration: a path of keys and a text
  NoName, NoConfig, Unset   \* an absent name, configuration, section

\* Where a program starts, and what it shows.
ASSUME ConfigAssumption ==
  /\ \A s \in Surroundings : /\ s.env \in {"unset", "empty", "path"} /\ s.xdgDirs \in {"unset", "empty", "set"}
                              /\ s.ancestors \in Seq(Range(s.ancestors))
                              /\ \A p \in s.present : p = <<p[1], p[2]>> /\ p[2] \in {"config.toml", "missive.toml"}
  /\ \A d \in Documents : d.parses \in BOOLEAN
  /\ \A r \in Renderings : r.path \in Seq({"plain", "secret", "headers", "item"}) /\ r.text \in Seq(Range(r.text))

VARIABLES
  surroundings, document, selection,   \* the inputs of one start
  loaded,          \* the loaded configuration, or why there is none
  rendering        \* a value shown by config show

configVars == <<surroundings, document, selection, loaded, rendering>>

----------------------------------------------------------------------------
(* Discovery. *)

\* find_repository_config: from the working directory up; missive.toml before
\* .missive.toml; a directory with .git is the last one looked at.
FindRepositoryConfig(ancestors) ==
  LET stops == {i \in DOMAIN ancestors : ancestors[i].files # {} \/ ancestors[i].git}
      at == Min(stops)
  IN IF stops = {} \/ ancestors[at].files = {} THEN <<>>
     ELSE <<"repository", at, IF "missive.toml" \in ancestors[at].files THEN "missive.toml" ELSE ".missive.toml">>

\* xdg_config_candidates: XDG_CONFIG_HOME, or HOME/.config when it is unset or
\* empty, then XDG_CONFIG_DIRS or /etc/xdg; in each root missive/config.toml
\* before missive.toml.
XdgRoots(s) ==
     (IF s.xdgHome = "set" THEN <<"xdg_home">> ELSE IF s.home = "set" THEN <<"home">> ELSE <<>>)
  \o (IF s.xdgDirs = "unset" THEN <<"etc">> ELSE IF s.xdgDirs = "empty" THEN <<>> ELSE <<"dir1", "dir2">>)

XdgFiles == {"config.toml", "missive.toml"}

FindXdgConfig(s) ==
  LET roots == XdgRoots(s)
      holding == {i \in DOMAIN roots : \E file \in XdgFiles : <<roots[i], file>> \in s.present}
      root == roots[Min(holding)]
  IN IF holding = {} THEN <<>>
     ELSE <<"xdg", root, IF <<root, "config.toml">> \in s.present THEN "config.toml" ELSE "missive.toml">>

\* repository_config_requested, env_flag_enabled.
RepositoryRequested(s) == s.repoFlag \/ s.repoEnv \in {"1", "on"}

\* discover_path.
DiscoverPath(s) ==
  LET repo == IF RepositoryRequested(s) THEN FindRepositoryConfig(s.ancestors) ELSE <<>>
  IN IF s.explicit # "" THEN <<"explicit">>
     ELSE IF s.env # "unset" THEN IF s.env = "empty" THEN <<"error">> ELSE <<"environment">>
     ELSE IF repo # <<>> THEN repo
     ELSE IF FindXdgConfig(s) # <<>> THEN FindXdgConfig(s) ELSE <<"built-in">>

----------------------------------------------------------------------------
(* Validation. Texts are those of Ids; a document is a record of its        *)
(* sections, its tables are functions from names.                           *)

CONFIG_NAME_MAX == 63

\* validate_named_config_identifier.
ConfigName(v) == v.len \in 1..CONFIG_NAME_MAX /\ v.shape = "lower"

\* validate_transport_binding.
Binding(v) == v.len \in 1..64 /\ v.shape \in {"lower", "plus"}

\* validate_optional_text, validate_required_text.
OptionalText(v) == v.shape # "control"
RequiredText(v) == OptionalText(v) /\ v.len > 0 /\ v.shape # "blank"

\* validate_protocol_version, validate_a2a_extension,
\* validate_service_parameter_value: which shapes and how long. A version may
\* begin or end with a separator, an extension is any word without a comma.
Version(v) == RequiredText(v) /\ v.len <= 64 /\ v.shape \in {"lower", "edge"}
Extension(v) == RequiredText(v) /\ v.len <= 512 /\ v.shape # "spaced"
ParameterValue(v) == RequiredText(v) /\ v.len <= 8192

\* validate_http_url: http or https, a host, no user and password.
HttpUrl(u) == u = "http"

\* validate_header_name, validate_auth_scheme, validate_env_var_name.
HeaderName(h) == h \in {"plain", "a2a-version"}
Reserved(h) == h = "a2a-version"

\* validate_duration: digits, then a unit; not zero.
DurationOk(d) == d.number \in Nat \ {0} /\ d.unit \in {"ms", "s", "m", "h"}

BusyOk(b) == b.depth > 0 /\ b.fallback # "steer"

\* Seeded fault of GatewayOk: the busy-input section is not looked at.
GatewayWithoutBusy(g) == g.bind /\ (g.url # "unset" => HttpUrl(g.url)) /\ g.jobs > 0

GatewayOk(g) == g.bind /\ (g.url # "unset" => HttpUrl(g.url)) /\ g.jobs > 0 /\ BusyOk(g.busy)

ProtocolOk(p) ==
  /\ Version(p.version)
  /\ \A i \in DOMAIN p.extensions : Extension(p.extensions[i])
  /\ \A i, j \in DOMAIN p.extensions : i # j => p.extensions[i] # p.extensions[j]
  /\ \A x \in p.parameters : HeaderName(x.name) /\ ~Reserved(x.name) /\ ParameterValue(x.value)

QosOk(q) ==
  /\ DurationOk(q.timeout) /\ DurationOk(q.connect) /\ DurationOk(q.backoff)
  /\ q.retries <= 10 /\ q.bytes > 0 /\ q.concurrency > 0

\* RoutingPolicyKind::from_name: the canonical names and their snake_case
\* aliases.
RoutePolicies == {"direct", "capability-match", "tag-match", "round-robin", "weighted",
                  "broadcast", "first-success", "quorum", "fallback"}
ParsePolicy(name) ==
  CASE name \in RoutePolicies -> name
    [] name = "capability_match" -> "capability-match"
    [] name = "tag_match" -> "tag-match"
    [] name = "round_robin" -> "round-robin"
    [] name = "first_success" -> "first-success"
    [] OTHER -> "unknown"

StorageOk(s) == s \notin {"empty", "control"}
OutputOk(o) == o.redact

SectionOk(name, value) ==
  CASE name = "storage"  -> StorageOk(value)
    [] name = "output"   -> OutputOk(value)
    [] name = "protocol" -> ProtocolOk(value)
    [] name = "gateway"  -> GatewayOk(value)
    [] name = "routing"  -> ParsePolicy(value) # "unknown"
    [] name = "qos"      -> QosOk(value)

Sections == {"storage", "output", "protocol", "gateway", "routing", "qos"}

\* ProfileConfig::validate: a profile may replace any section, whole.
ProfileOk(p, d) ==
  /\ OptionalText(p.description)
  /\ p.default_agent # NoName => ConfigName(p.default_agent) /\ p.default_agent \in DOMAIN d.agents
  /\ \A s \in Sections : p.sections[s] # Unset => SectionOk(s, p.sections[s])

AgentOk(a, d) ==
  /\ HttpUrl(a.url) /\ \A b \in DOMAIN a.interfaces : Binding(b) /\ HttpUrl(a.interfaces[b])
  /\ \A i \in DOMAIN a.preference : Binding(a.preference[i])
  /\ a.auth # NoName => ConfigName(a.auth) /\ a.auth \in DOMAIN d.auth
  /\ \A t \in a.tags : ConfigName(t)
  /\ OptionalText(a.notes)

\* AuthRefConfig::validate: env wants a variable name, keyring two texts.
AuthOk(r) ==
  /\ HeaderName(r.header) /\ r.scheme = "plain"
  /\ IF r.kind = "env" THEN r.env = "plain" ELSE RequiredText(r.service) /\ RequiredText(r.account)

AdapterOk(x, d) ==
  /\ ConfigName(x.kind)
  /\ x.profile # NoName => ConfigName(x.profile) /\ x.profile \in DOMAIN d.profiles
  /\ x.busy # Unset => BusyOk(x.busy)

\* MissiveConfig::validate.
ConfigValid(d) ==
  /\ d.schema /\ ConfigName(d.default) /\ d.default \in DOMAIN d.profiles
  /\ \A n \in DOMAIN d.profiles : ConfigName(n) /\ ProfileOk(d.profiles[n], d)
  /\ \A n \in DOMAIN d.agents : ConfigName(n) /\ AgentOk(d.agents[n], d)
  /\ \A n \in DOMAIN d.auth : ConfigName(n) /\ AuthOk(d.auth[n])
  /\ \A s \in Sections : SectionOk(s, d.sections[s])
  /\ \A n \in DOMAIN d.adapters : ConfigName(n) /\ AdapterOk(d.adapters[n], d)

----------------------------------------------------------------------------
(* Loading, and what the commands read. *)

\* The profile asked for, else the default one.
SelectedProfile(d, name) == IF name # NoName THEN name ELSE d.default

Failed(why) == [ok |-> FALSE, why |-> why]

\* ConfigDiscovery::load. Without a file the built-in defaults are validated
\* the same way; Documents holds them too.
LoadConfig ==
  /\ loaded = NoConfig
  /\ LET profile == SelectedProfile(document, selection)
     IN loaded' = IF DiscoverPath(surroundings) = <<"error">> THEN Failed("empty MISSIVE_CONFIG")
                  ELSE IF ~document.parses THEN Failed("toml")
                  ELSE IF ~ConfigValid(document) THEN Failed("invalid")
                  ELSE IF profile \notin DOMAIN document.profiles THEN Failed("profile")
                  ELSE [ok |-> TRUE, source |-> DiscoverPath(surroundings), profile |-> profile]
  /\ UNCHANGED <<surroundings, document, selection, rendering>>

\* output_format, protocol_config, gateway_config, routing_config and the
\* commands' own reads of storage and qos: the profile's section or the global
\* one.
Effective(d, profile, s) ==
  LET own == d.profiles[profile].sections[s] IN IF own # Unset THEN own ELSE d.sections[s]

\* busy_input_config_for_source: an adapter's own policy before the profile's.
BusyFor(d, profile, source) ==
  IF source \in DOMAIN d.adapters /\ d.adapters[source].busy # Unset THEN d.adapters[source].busy
  ELSE Effective(d, profile, "gateway").busy

----------------------------------------------------------------------------
(* Redaction. A value is the path of keys that leads to it and, if it is    *)
(* text, its tokens. Keys: plain, secret (is_secret_key), headers, item (an *)
(* array's element).                                                        *)

\* redact_config_object and redact_config_header_value, one key at a time;
\* last: the key holds a text and not an object or an array.
Walk(state, step) ==
  LET header == state = "headers" /\ step.last
  IN IF state = "redacted" \/ (step.key = "secret" /\ ~header) THEN "redacted"
     ELSE IF step.key = "secret" THEN "header"
     ELSE IF state # "headers" /\ step.key = "headers" /\ ~step.last THEN "headers" ELSE "plain"

Gone == "[REDACTED]"
Breaks == {"space", "comma"}

\* redact_after_auth_scheme: what follows a scheme and one space, up to the
\* next white space, comma or semicolon.
RedactStep(acc, token) ==
  CASE acc.mode = "after" /\ token \notin Breaks -> [mode |-> "in", out |-> Append(acc.out, Gone)]
    [] acc.mode = "in" /\ token \notin Breaks -> acc
    [] acc.mode = "scheme" /\ token = "space" -> [mode |-> "after", out |-> Append(acc.out, token)]
    [] OTHER -> [mode |-> IF token = "Bearer" THEN "scheme" ELSE "text", out |-> Append(acc.out, token)]

RedactText(text) ==
  LET read[i \in 0..Len(text)] ==
        IF i = 0 THEN [mode |-> "text", out |-> <<>>] ELSE RedactStep(read[i - 1], text[i])
  IN read[Len(text)].out

\* redact_header_value: at most the scheme is left.
RedactHeader(text) ==
  IF Len(text) > 2 /\ text[1] = "Bearer" /\ text[2] = "space" THEN <<"Bearer", "space", Gone>> ELSE <<Gone>>

\* What the keys down to a value say of it.
Reached(path) ==
  LET state[i \in 0..Len(path)] ==
        IF i = 0 THEN "plain" ELSE Walk(state[i - 1], [key |-> path[i], last |-> i = Len(path)])
  IN state[Len(path)]

\* redact_config_json.
Redacted(path, text) ==
  CASE Reached(path) = "redacted" -> <<Gone>>
    [] Reached(path) = "header" -> RedactHeader(text)
    [] OTHER -> RedactText(text)

ShowConfig ==
  /\ rendering = NoConfig
  /\ \E r \in Renderings : rendering' = [path |-> r.path, text |-> r.text, shown |-> Redacted(r.path, r.text)]
  /\ UNCHANGED <<surroundings, document, selection, loaded>>

NothingLoaded == loaded = NoConfig /\ rendering = NoConfig

ConfigInit ==
  /\ surroundings \in Surroundings /\ document \in Documents /\ selection \in Selections
  /\ NothingLoaded

ConfigNext == LoadConfig \/ ShowConfig

ConfigSpec == ConfigInit /\ [][ConfigNext]_configVars

----------------------------------------------------------------------------
(* Properties. *)

ConfigTypeOK ==
  /\ document.parses \in BOOLEAN
  /\ loaded = NoConfig \/ loaded.ok \in BOOLEAN
  /\ rendering = NoConfig \/ ToSet(rendering.path) \subseteq {"plain", "secret", "headers", "item"}

InUse == loaded # NoConfig /\ loaded.ok

\* Nearest directory with a file of its own and no .git strictly below it.
InRepository(ancestors, i) ==
  /\ ancestors[i].files # {}
  /\ \A j \in 1..(i - 1) : ancestors[j].files = {} /\ ~ancestors[j].git

\* When a root has its turn: the user's own, then the system's in their order.
Turn(root) == CASE root \in {"xdg_home", "home"} -> 1 [] root \in {"etc", "dir1"} -> 2 [] OTHER -> 3

\* The source in use is the one the documented precedence names: an explicit
\* path, MISSIVE_CONFIG, a requested repository file, nearest directory first
\* and within the repository, the first XDG root that holds a file, and the
\* built-in defaults only when none of them exists. Of two files of one
\* directory it is missive.toml in a repository and config.toml in a root.
SourceFollowsPrecedence ==
  InUse =>
    LET s == surroundings
        repo == {i \in DOMAIN s.ancestors : InRepository(s.ancestors, i)}
        asked == s.repoFlag \/ s.repoEnv \in {"1", "on"}
        looked == (IF s.xdgDirs = "unset" THEN {"etc"} ELSE {})
                  \cup (IF s.xdgDirs = "set" THEN {"dir1", "dir2"} ELSE {})
                  \cup (IF s.xdgHome = "set" THEN {"xdg_home"} ELSE IF s.home = "set" THEN {"home"} ELSE {})
    IN CASE loaded.source[1] = "explicit"    -> s.explicit # ""
         [] loaded.source[1] = "environment" -> s.explicit = "" /\ s.env = "path"
         [] loaded.source[1] = "repository"  -> /\ s.explicit = "" /\ s.env = "unset" /\ asked /\ loaded.source[2] \in repo
                                                /\ (loaded.source[3] = "missive.toml")
                                                     = ("missive.toml" \in s.ancestors[loaded.source[2]].files)
         [] loaded.source[1] = "xdg"         -> /\ s.explicit = "" /\ s.env = "unset" /\ ~(asked /\ repo # {})
                                                /\ loaded.source[2] \in looked
                                                /\ <<loaded.source[2], loaded.source[3]>> \in s.present
                                                /\ loaded.source[3] = "missive.toml" =>
                                                     <<loaded.source[2], "config.toml">> \notin s.present
                                                /\ \A p \in s.present : p[1] \in looked => Turn(loaded.source[2]) <= Turn(p[1])
         [] loaded.source[1] = "built-in"    -> /\ s.explicit = "" /\ s.env = "unset" /\ ~(asked /\ repo # {})
                                                /\ \A p \in s.present : p[1] \notin looked

\* What the reader of a section relies on without looking again: the resolver
\* of the state paths on a text (a path with .. or another user's home is
\* text, loads, and is refused by resolve_database_path only), config show on
\* redaction, the client on headers that it can send and that leave its own
\* alone, the gateway on an address and room for a job, the router on a policy
\* it knows, the transport on timeouts and places above zero.
Serves(name, value) ==
  CASE name = "storage"  -> value \notin {"empty", "control"}
    [] name = "output"   -> value.redact
    [] name = "protocol" -> /\ value.version.len > 0 /\ value.version.shape # "control"
                            /\ \A x \in value.parameters : x.name # "a2a-version" /\ x.value.shape # "control"
                            /\ \A i, j \in DOMAIN value.extensions : value.extensions[i] = value.extensions[j] => i = j
    [] name = "gateway"  -> value.bind /\ value.url \in {"unset", "http"} /\ value.jobs > 0
    [] name = "routing"  -> ParsePolicy(value) \in RoutePolicies
    [] name = "qos"      -> value.timeout.number > 0 /\ value.connect.number > 0 /\ value.concurrency > 0

\* What a loaded configuration refers to is there, whichever profile is in
\* use: the profile, its default agent, every agent's auth ref, every adapter's
\* session profile; and each section in effect, the profile's own or the
\* global one, serves its reader.
LoadedConfigResolves ==
  InUse =>
    LET d == document
        p == loaded.profile
    IN /\ p \in DOMAIN d.profiles
       /\ d.profiles[p].default_agent \in DOMAIN d.agents \cup {NoName}
       /\ \A n \in DOMAIN d.agents : d.agents[n].auth \in DOMAIN d.auth \cup {NoName}
       /\ \A n \in DOMAIN d.adapters : d.adapters[n].profile \in DOMAIN d.profiles \cup {NoName}
       /\ \A s \in Sections : Serves(s, Effective(d, p, s))

\* The busy-input policy in effect for any source, configured or not, queues at
\* least one input and never falls back from steering to steering: the
\* evaluator's recursion ends (busy.rs apply_steer).
BusyPolicyIsUsable ==
  InUse => \A source \in DOMAIN document.adapters \cup {NoName} :
             LET b == BusyFor(document, loaded.profile, source) IN b.depth > 0 /\ b.fallback # "steer"

\* An unknown profile is refused: a command never runs on another profile's
\* state than the one asked for.
ProfileIsTheOneAsked == InUse /\ selection # NoName => loaded.profile = selection

\* Two separately written sets of rules agree: the agents' names, tags and
\* bindings the configuration accepts are aliases, tags and transports the
\* registry's own commands accept (validate_named_cli_identifier,
\* TransportName).
NamesAreUsable ==
  InUse => \A n \in DOMAIN document.agents :
             /\ NamedId(n) /\ \A t \in document.agents[n].tags : NamedId(t)
             /\ \A b \in DOMAIN document.agents[n].interfaces : TransportName(b)

Shown == rendering # NoConfig

\* What lies below a secret key is not shown, be it text, list or table, in a
\* header table or not; showing what was shown changes nothing. Below plain
\* keys only what follows a scheme and one space is hidden, so a token after
\* two spaces is shown there: the claim is about secret keys alone.
SecretsStayHidden ==
  Shown =>
    /\ (\E i \in DOMAIN rendering.path : rendering.path[i] = "secret") => "secret" \notin ToSet(rendering.shown)
    /\ Redacted(rendering.path, rendering.shown) = rendering.shown

\* A configuration that loads is the one asked for, has all that it refers to
\* and has in each section what its reader relies on; shown, it hides what lies
\* below its secret keys.
ConfigIsUsable ==
  /\ ConfigTypeOK /\ SourceFollowsPrecedence /\ LoadedConfigResolves /\ BusyPolicyIsUsable
  /\ ProfileIsTheOneAsked /\ NamesAreUsable /\ SecretsStayHidden
=============================================================================

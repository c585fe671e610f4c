------------------------------ MODULE Registry ------------------------------
(***************************************************************************)
(* The registry commands of missive: `agent`, `group`, `context` and       *)
(* `push` (missive-cli/src/agent.rs, group.rs, context.rs, push.rs) on the *)
(* database of module Store.                                               *)
(*                                                                         *)
(* A command takes the state-mutation lock, opens the store, syncs the     *)
(* auth refs and agents of the loaded configuration into it and holds the  *)
(* lock until it returns, so a command is one step.  Its commits are       *)
(* separate: it may be killed after a change and before the event that     *)
(* records it, and after a remote call and before the rows that mirror it. *)
(* Between two commands the operator edits the configuration, agents       *)
(* publish new cards, and a background job of the gateway, which reads an  *)
(* agent's row without the lock, writes it back whole with the card it     *)
(* fetched meanwhile.                                                      *)
(***************************************************************************)
EXTENDS Store

CONSTANTS
  Configs,  \* configurations the operator may load
  Usable,   \* <<url, version>> of the cards with an interface missive speaks
  Tagged    \* URLs whose server sends an ETag with the card

\* A configuration that loads names its auth refs and each agent's URL.
ASSUME ConfigsAssumption ==
  \A c \in Configs :
    /\ c.auth \subseteq AuthRefs
    /\ c.agents \in [Aliases -> OrNull([url : Urls, auth : OrNull(AuthRefs)])]
    /\ Null \notin [url : Urls, auth : OrNull(AuthRefs)]

VARIABLES
  db,          \* the profile database
  config,      \* auth refs and agents of the loaded configuration
  secrets,     \* auth refs whose secret the environment holds
  served,      \* version of the card each URL serves
  remotePush,  \* <<url, task, id>>: push configs the agents took and no command removed
  cut,         \* push configs whose removal a kill or a lost answer kept from the database
  jobRow,      \* the row a gateway job read without a card, and the card it fetched
  exit         \* how the last writer ended

world == <<config, secrets, served, remotePush, cut, jobRow>>
registryVars == <<db, config, secrets, served, remotePush, cut, jobRow, exit>>

Outcomes == {"none", "ok", "invalid", "storage", "failed", "killed", "job"}

JobRows == [alias : Aliases, row : AgentRows]

RegistryTypeOK ==
  /\ db \in Databases
  /\ config \in Configs
  /\ secrets \subseteq AuthRefs
  /\ served \in [Urls -> Versions]
  /\ remotePush \subseteq Urls \X Tasks \X PushIds
  /\ cut \subseteq Urls \X Tasks \X PushIds
  /\ jobRow = Null \/ jobRow \in JobRows
  /\ exit \in Outcomes

----------------------------------------------------------------------------
(* Opening the registry.                                                   *)

\* config_agent_upsert: the card is kept as long as the base URL is.
ConfigRow(d, a) ==
  LET kept == d.agents[a] # Null /\ d.agents[a].url = config.agents[a].url
  IN  [source |-> "config_seed", url |-> config.agents[a].url,
       auth |-> config.agents[a].auth, readOnly |-> TRUE,
       card |-> IF kept THEN d.agents[a].card ELSE Null,
       etag |-> IF kept THEN d.agents[a].etag ELSE Null]

Seeded == {a \in Aliases : config.agents[a] # Null}

\* sync_config_agents for the aliases in S; rows of agents the configuration
\* no longer names are left as they are.
SyncConfigAgents(d, S) ==
  [d EXCEPT !.agents = [a \in Aliases |-> IF a \in S THEN ConfigRow(d, a) ELSE @[a]]]

\* open_agent_registry: what every command starts from.
OpenAgentRegistry == SyncConfigAgents(UpsertAuthRefs(db, config.auth), Seeded)

Ended(d, o) == db' = d /\ exit' = o

\* append_agent_event, append_group_event: a commit of its own.
Journalled(d, a, g) ==
  \/ Ended(d, IF AppendEventOk(d, a, g, Null) THEN "ok" ELSE "storage")
  \/ Ended(d, "killed")

\* A command that validates, writes new over d and journals an event about
\* agent a and group g.
Mutation(d, valid, ok, new, a, g) ==
  IF ~valid THEN Ended(d, "invalid")
  ELSE IF ~ok THEN Ended(d, "storage")
  ELSE Journalled(new, a, g)

Exists(d, a) == d.agents[a] # Null

----------------------------------------------------------------------------
(* missive agent.                                                          *)

AddAgent(a, u, r) ==
  LET d == OpenAgentRegistry
      row == [source |-> "local", url |-> u, auth |-> r, card |-> Null,
              etag |-> Null, readOnly |-> FALSE]
  IN  /\ Mutation(d, ~Exists(d, a) /\ (r = Null \/ r \in config.auth), UpsertAgentOk(d, row),
                  UpsertAgent(d, a, row), a, Null)
      /\ UNCHANGED world

EnsureWritable(d, a) == Exists(d, a) /\ ~d.agents[a].readOnly

RemoveAgent(a) ==
  LET d == OpenAgentRegistry
  IN  /\ Mutation(d, EnsureWritable(d, a), DeleteAgentOk(d, a), DeleteAgent(d, a),
                  Null, Null)
      /\ UNCHANGED world

\* The new row and the removal of the old one are one transaction; what the
\* foreign keys take from the old alias does not follow the new one.
RenameAgent(a, b) ==
  LET d == OpenAgentRegistry
      copy == UpsertAgent(d, b, [d.agents[a] EXCEPT !.readOnly = FALSE])
  IN  /\ Mutation(d, a # b /\ EnsureWritable(d, a) /\ ~Exists(d, b), DeleteAgentOk(d, a),
                  DeleteAgent(copy, a), b, Null)
      /\ UNCHANGED world

\* list, show, and the other commands that only read.
ReadRegistry == Ended(OpenAgentRegistry, "ok") /\ UNCHANGED world

\* A kill in open_agent_registry leaves part of the configuration synced.
KilledWhileOpening ==
  /\ \E S \in SUBSET Seeded :
       Ended(SyncConfigAgents(UpsertAuthRefs(db, config.auth), S), "killed")
  /\ UNCHANGED world

----------------------------------------------------------------------------
(* Agent Cards.                                                            *)

ServedCard(u) == [url |-> u, version |-> served[u], usable |-> <<u, served[u]>> \in Usable]

\* auth_headers_for_agent: the secret of the agent's auth ref is at hand.
AuthHeaders(d, a) == d.agents[a].auth = Null \/ d.agents[a].auth \in secrets

\* cache_agent_card.
CacheAgentCard(d, a, card) ==
  UpsertAgent(d, a, [d.agents[a] EXCEPT
                       !.card = card,
                       !.etag = IF card.url \in Tagged THEN card.version ELSE Null])

\* Seeded fault of NotModified: any validator is taken for a match.
NotModifiedAlways(d, a) == d.agents[a].etag # Null

\* The server answers 304 to the validators of the row.
NotModified(d, a) == d.agents[a].etag = served[d.agents[a].url]

\* The card is revalidated and stored; `negotiate` is whether an interface
\* must be found before it is.
FetchCard(d, a, negotiate) ==
  LET card == ServedCard(d.agents[a].url)
  IN  \/ Ended(d, "failed")
      \/ /\ AuthHeaders(d, a) /\ NotModified(d, a)
         /\ Ended(d, IF negotiate /\ ~d.agents[a].card.usable THEN "failed" ELSE "ok")
      \/ /\ AuthHeaders(d, a) /\ ~NotModified(d, a)
         /\ IF negotiate /\ ~card.usable THEN Ended(d, "failed")
            ELSE Ended(CacheAgentCard(d, a, card), "ok")

\* inspect --refresh and refresh.
RefreshAgent(a) ==
  /\ LET d == OpenAgentRegistry
     IN  IF Exists(d, a) THEN FetchCard(d, a, TRUE) ELSE Ended(d, "invalid")
  /\ UNCHANGED world

\* inspect: only a missing card is fetched.
InspectAgent(a) ==
  /\ LET d == OpenAgentRegistry
     IN  IF ~Exists(d, a) THEN Ended(d, "invalid")
         ELSE IF d.agents[a].card = Null THEN FetchCard(d, a, TRUE)
         ELSE Ended(d, IF d.agents[a].card.usable THEN "ok" ELSE "failed")
  /\ UNCHANGED world

\* capabilities, with or without --refresh: no interface is negotiated.
AgentCapabilities(a, refresh) ==
  /\ LET d == OpenAgentRegistry
     IN  IF ~Exists(d, a) THEN Ended(d, "invalid")
         ELSE IF refresh \/ d.agents[a].card = Null THEN FetchCard(d, a, FALSE)
         ELSE Ended(d, "ok")
  /\ UNCHANGED world

\* resolve_send_interface: the databases a command can go on from.
ResolveSendInterface(d, a) ==
  LET card == ServedCard(d.agents[a].url)
  IN  IF ~AuthHeaders(d, a) THEN {}
      ELSE IF d.agents[a].card # Null
        THEN IF d.agents[a].card.usable THEN {d} ELSE {}
      ELSE IF card.usable THEN {CacheAgentCard(d, a, card)} ELSE {}

----------------------------------------------------------------------------
(* missive group.                                                          *)

CreateGroup(g) ==
  LET d == OpenAgentRegistry
  IN  /\ Mutation(d, g \notin d.groups, TRUE, InsertGroup(d, g),
                  Null, g)
      /\ UNCHANGED world

\* Seeded fault of EnsureRankAvailable: the rank is not looked up.
AnyRankAvailable(d, g, a, r) == TRUE

EnsureRankAvailable(d, g, a, r) == \A b \in MembersOf(d, g) \ {a} : d.members[<<g, b>>] # r

AddGroupMember(g, a, r) ==
  LET d == OpenAgentRegistry
  IN  /\ Mutation(d, g \in d.groups /\ Exists(d, a) /\ EnsureRankAvailable(d, g, a, r),
                  UpsertMemberOk(d, g, a, r), UpsertMember(d, g, a, r),
                  a, g)
      /\ UNCHANGED world

RemoveGroupMember(g, a) ==
  LET d == OpenAgentRegistry
  IN  /\ Mutation(d, g \in d.groups /\ a \in MembersOf(d, g), TRUE, DeleteMember(d, g, a),
                  a, g)
      /\ UNCHANGED world

RenameGroup(g, h) ==
  LET d == OpenAgentRegistry
  IN  /\ Mutation(d, g # h /\ g \in d.groups /\ h \notin d.groups, TRUE,
                  RenameGroupRow(d, g, h), Null, h)
      /\ UNCHANGED world

DeleteGroup(g) ==
  LET d == OpenAgentRegistry
  IN  /\ Mutation(d, g \in d.groups, TRUE, DeleteGroupRow(d, g),
                  Null, Null)
      /\ UNCHANGED world

\* group capabilities: the cards of the members, one after the other, the
\* missing ones or with --refresh all; the first that cannot be had ends the
\* command, the cards before it are kept.
GroupCapabilities(g, refresh) ==
  /\ LET d == OpenAgentRegistry
         wanted == {a \in MembersOf(d, g) : refresh \/ d.agents[a].card = Null}
     IN  IF g \notin d.groups THEN Ended(d, "invalid")
         ELSE \E S \in SUBSET wanted :
                /\ \A a \in S : AuthHeaders(d, a)
                /\ Ended([d EXCEPT !.agents = [a \in Aliases |->
                                IF a \in S /\ ~NotModified(d, a)
                                THEN CacheAgentCard(d, a, ServedCard(@[a].url)).agents[a]
                                ELSE @[a]]],
                         IF S = wanted THEN "ok" ELSE "failed")
  /\ UNCHANGED world

----------------------------------------------------------------------------
(* missive context, and the rows that traffic leaves.                      *)

\* ensure_context_name_available
NameAvailable(d, n) ==
  n = Null \/ \A c \in Contexts : d.contexts[c] # Null => d.contexts[c].name # n

\* resolve_context_selector: an id, or a name that one context has.
Selected(d, s) ==
  IF s \in Contexts /\ d.contexts[s] # Null THEN {s}
  ELSE LET named == {c \in Contexts : d.contexts[c] # Null /\ d.contexts[c].name = s}
       IN  IF \E c \in named : named = {c} THEN named ELSE {}

CreateContext(c, n, a) ==
  LET d == OpenAgentRegistry
      row == [agent |-> a, name |-> n, parent |-> Null, state |-> "open"]
  IN  /\ IF d.contexts[c] # Null \/ ~NameAvailable(d, n) \/ ~References(a, d.agents)
         THEN Ended(d, "invalid")
         ELSE IF UpsertContextOk(d, c, row) THEN Ended(UpsertContext(d, c, row), "ok")
         ELSE Ended(d, "storage")
      /\ UNCHANGED world

\* fork: the child inherits the agent unless one is named.
ForkContext(s, c, n, a) ==
  /\ LET d == OpenAgentRegistry
     IN  IF Selected(d, s) = {} \/ d.contexts[c] # Null \/ ~NameAvailable(d, n)
            \/ ~References(a, d.agents)
         THEN Ended(d, "invalid")
         ELSE \E p \in Selected(d, s) :
                LET row == [agent |-> IF a = Null THEN d.contexts[p].agent ELSE a,
                            name |-> n, parent |-> p, state |-> "open"]
                IN  IF UpsertContextOk(d, c, row) THEN Ended(UpsertContext(d, c, row), "ok")
                    ELSE Ended(d, "storage")
  /\ UNCHANGED world

CloseContext(s) ==
  /\ LET d == OpenAgentRegistry
     IN  IF Selected(d, s) = {} THEN Ended(d, "invalid")
         ELSE \E c \in Selected(d, s) :
                Ended(UpsertContext(d, c, [d.contexts[c] EXCEPT !.state = "closed"]), "ok")
  /\ UNCHANGED world

\* ensure_context: what send, stream, task, the collectives and the gateway do
\* with the context of an answer.
EnsureContext(d, c, a) ==
  IF d.contexts[c] # Null THEN d
  ELSE UpsertContext(d, c, [agent |-> a, name |-> Null, parent |-> Null, state |-> "open"])

\* send: an answer of agent a with a task of context c (module Commands has
\* the rest of it).
RecordTraffic(a, c, t) ==
  /\ LET d == OpenAgentRegistry
     IN  IF ~Exists(d, a) THEN Ended(d, "invalid")
         ELSE \/ Ended(d, "failed")
              \/ \E r \in ResolveSendInterface(d, a) :
                   Ended(UpsertTask(EnsureContext(r, c, a), t,
                                    [agent |-> a, context |-> c, state |-> "working"]), "ok")
  /\ UNCHANGED world

----------------------------------------------------------------------------
(* missive push.                                                           *)

\* ensure_task_placeholder
EnsureTask(d, t, a) ==
  IF d.tasks[t] # Null THEN d
  ELSE UpsertTask(d, t, [agent |-> a, context |-> Null, state |-> "unknown"])

\* upsert_push_config_record of every config in ids, and the event, in the
\* transaction that made sure of the task row.
Mirrored(d, a, t, ids) ==
  [EnsureTask(d, t, a) EXCEPT !.pushes = [p \in PushIds |->
     IF p \in ids THEN [agent |-> a, task |-> t, deleted |-> FALSE] ELSE @[p]]]

HeldFor(u, t) == {p \in PushIds : <<u, t, p>> \in remotePush}

\* The database and the URL with which a push command comes to its remote call.
PushCalls(a) ==
  LET d == OpenAgentRegistry
  IN  IF ~Exists(d, a) THEN {}
      ELSE {<<r, d.agents[a].url>> : r \in ResolveSendInterface(d, a)}

\* A push command that ends before its remote call, or with one the agent
\* refused.
PushRefused(a) ==
  /\ \/ Ended(OpenAgentRegistry, IF Exists(OpenAgentRegistry, a) THEN "failed" ELSE "invalid")
     \/ \E call \in PushCalls(a) : Ended(call[1], "failed")
  /\ UNCHANGED world

\* The command ends after the agent acted and before a row says so: killed, or
\* with the error of a call whose answer was lost or could not be read.
CutShort(d) == \E o \in {"killed", "failed"} : Ended(d, o)

\* The agent holds the config once it has acted; the rows may be cut short.
CreatePushConfig(a, t, p) ==
  \/ PushRefused(a)
  \/ \E call \in PushCalls(a) :
       LET d == call[1]
           held == <<call[2], t, p>>
       IN  /\ remotePush' = remotePush \cup {held}
           /\ cut' = cut \ {held}
           /\ Ended(Mirrored(d, a, t, {p}), "ok") \/ CutShort(d)
           /\ UNCHANGED <<config, secrets, served, jobRow>>

GetPushConfig(a, t, p) ==
  \/ PushRefused(a)
  \/ \E call \in PushCalls(a) :
       /\ IF p \in HeldFor(call[2], t)
          THEN Ended(Mirrored(call[1], a, t, {p}), "ok")
          ELSE Ended(call[1], "failed")
       /\ UNCHANGED world

\* list mirrors what the agent holds; rows of other configs stay.
ListPushConfigs(a, t) ==
  \/ PushRefused(a)
  \/ \E call \in PushCalls(a) :
       /\ Ended(Mirrored(call[1], a, t, HeldFor(call[2], t)), "ok")
       /\ UNCHANGED world

\* Seeded fault of ForgetPush: the mirror row is left live.
ForgetNothing(d, p) == d

ForgetPush(d, p) == DeletePush(d, p)

\* delete: whatever a readable acknowledgement says, the mirror row is marked
\* deleted; without one the row stays as it was, though the agent may have
\* removed the config.
DeletePushConfig(a, t, p) ==
  \/ PushRefused(a)
  \/ \E call \in PushCalls(a), gone \in BOOLEAN :
       LET d == call[1]
           removed == IF gone THEN {<<call[2], t, p>>} \cap remotePush ELSE {}
       IN  /\ remotePush' = remotePush \ removed
           /\ \/ /\ Ended(ForgetPush(EnsureTask(d, t, a), p), "ok")
                 /\ cut' = cut
              \/ CutShort(d) /\ cut' = cut \cup removed
           /\ UNCHANGED <<config, secrets, served, jobRow>>

----------------------------------------------------------------------------
(* Around the commands.                                                    *)

EditConfig ==
  /\ config' \in Configs
  /\ UNCHANGED <<db, secrets, served, remotePush, cut, jobRow, exit>>

\* external: the owner of a URL publishes another card.
PublishCard(u) ==
  /\ \E v \in Versions : served' = [served EXCEPT ![u] = v]
  /\ UNCHANGED <<db, config, secrets, remotePush, cut, jobRow, exit>>

\* resolve_agent_interface of a background job: a row without a card is read
\* without the lock, and the card fetched without auth headers.
JobFetchesCard(a) ==
  /\ jobRow = Null
  /\ Exists(db, a) /\ db.agents[a].card = Null
  /\ jobRow' = [alias |-> a, row |-> [db.agents[a] EXCEPT !.card = ServedCard(db.agents[a].url)]]
  /\ UNCHANGED <<db, config, secrets, served, remotePush, cut, exit>>

\* agent_upsert_with_card: the whole row as it was read, and the card, whatever
\* the agent's row has become, removed included; the sync comes with the next
\* command.
JobCachesCard ==
  /\ jobRow # Null
  /\ UpsertAgentOk(db, jobRow.row)
  /\ Ended(UpsertAgent(db, jobRow.alias, jobRow.row), "job")
  /\ jobRow' = Null
  /\ UNCHANGED <<config, secrets, served, remotePush, cut>>

\* The job ends without a write: no card was sent, or the gateway stopped.
JobGivesUp ==
  /\ jobRow # Null
  /\ jobRow' = Null
  /\ UNCHANGED <<db, config, secrets, served, remotePush, cut, exit>>

GatewayCards == (\E a \in Aliases : JobFetchesCard(a)) \/ JobCachesCard \/ JobGivesUp

RegistryInit ==
  /\ db = EmptyDatabase
  /\ config \in Configs
  /\ secrets \in SUBSET AuthRefs
  /\ served \in [Urls -> Versions]
  /\ remotePush = {}
  /\ cut = {}
  /\ jobRow = Null
  /\ exit = "none"

Around == EditConfig \/ \E u \in Urls : PublishCard(u)

AgentCommands ==
  \/ \E a \in Aliases :
       \/ \E u \in Urls, r \in OrNull(AuthRefs) : AddAgent(a, u, r)
       \/ RemoveAgent(a)
       \/ \E b \in Aliases : RenameAgent(a, b)
  \/ ReadRegistry
  \/ KilledWhileOpening

CardCommands ==
  \E a \in Aliases :
    \/ RefreshAgent(a)
    \/ InspectAgent(a)
    \/ \E refresh \in BOOLEAN : AgentCapabilities(a, refresh)

GroupCommands ==
  \E g \in Groups :
    \/ CreateGroup(g)
    \/ DeleteGroup(g)
    \/ \E refresh \in BOOLEAN : GroupCapabilities(g, refresh)
    \/ \E h \in Groups : RenameGroup(g, h)
    \/ \E a \in Aliases : RemoveGroupMember(g, a) \/ \E r \in Ranks : AddGroupMember(g, a, r)

ContextCommands ==
  \/ \E c \in Contexts, n \in OrNull(Names), a \in OrNull(Aliases) :
       \/ CreateContext(c, n, a)
       \/ \E s \in Contexts \cup Names : ForkContext(s, c, n, a)
  \/ \E s \in Contexts \cup Names : CloseContext(s)
  \/ \E a \in Aliases, c \in Contexts, t \in Tasks : RecordTraffic(a, c, t)

PushCommands ==
  \E a \in Aliases, t \in Tasks :
    \/ ListPushConfigs(a, t)
    \/ \E p \in PushIds :
         CreatePushConfig(a, t, p) \/ GetPushConfig(a, t, p) \/ DeletePushConfig(a, t, p)

RegistryNext ==
  \/ Around \/ GatewayCards \/ AgentCommands \/ CardCommands
  \/ GroupCommands \/ ContextCommands \/ PushCommands

RegistrySpec == RegistryInit /\ [][RegistryNext]_registryVars

----------------------------------------------------------------------------
(* Properties.                                                             *)

\* A cached card was fetched from the URL its row has now, and a stored
\* validator is the one of that card: a configuration that moves an agent to
\* another URL, or a rename, must not leave a card or an ETag behind that a
\* later revalidation would take for current.
CardIsOfItsRow ==
  \A a \in Aliases : Exists(db, a) =>
    LET row == db.agents[a]
    IN  /\ row.card # Null => row.card.url = row.url
        /\ row.etag # Null => row.card # Null /\ row.etag = row.card.version

\* After a refresh that reports success the row holds the card that is being
\* served, whether the server sent it or answered 304 Not Modified.
RefreshIsCurrent ==
  [][\A a \in Aliases : exit' = "ok" /\ RefreshAgent(a)
       => db'.agents[a].card = ServedCard(db'.agents[a].url)]_registryVars

\* After every command an agent the loaded configuration names is in the
\* registry with its URL, read-only: no command removes, renames or replaces
\* it, and neither does what foreign keys take along.  An old row a job of the
\* gateway wrote back is replaced by the next command.
SeedsArePinned ==
  [][db' # db /\ exit' \notin {"killed", "job"}
       => \A a \in Seeded : /\ db'.agents[a] # Null
                            /\ db'.agents[a].readOnly
                            /\ db'.agents[a].url = config.agents[a].url]_registryVars

\* The checks of the commands foresee every constraint of the schema but one:
\* a storage error means that an agent with task rows was to be removed or
\* renamed.  A refused rank, a taken name or an event about a row that is gone
\* is found before anything is written.
ConstraintsForeseen ==
  [][exit' = "storage" /\ exit # "storage"
       => \E a \in Aliases : /\ TasksOf(OpenAgentRegistry, a) # {}
                             /\ EnsureWritable(OpenAgentRegistry, a)
                             /\ RemoveAgent(a) \/ \E b \in Aliases : RenameAgent(a, b)]_registryVars

\* No two contexts have the same name, so a name selects at most one context
\* (the "ambiguous" branch of resolve_context_selector is never taken).
ContextNamesUnique ==
  \A c1, c2 \in Contexts :
    /\ c1 # c2
    /\ db.contexts[c1] # Null /\ db.contexts[c2] # Null
    /\ db.contexts[c1].name # Null
    => db.contexts[c1].name # db.contexts[c2].name

\* A closed context is never reopened and keeps its name and parent, whatever
\* traffic still arrives for it.
ClosedStaysClosed ==
  [][\A c \in Contexts : db.contexts[c] # Null /\ db.contexts[c].state = "closed"
       => /\ db'.contexts[c].state = "closed"
          /\ db'.contexts[c].name = db.contexts[c].name
          /\ db'.contexts[c].parent = db.contexts[c].parent]_registryVars

\* A live mirror row of a push config is of a config some agent took and no
\* command removed, unless the command that removed it at the agent was killed
\* or ended with an error before the row could say so.  (What an agent drops on
\* its own no row can follow.)
LivePushIsRemote ==
  \A p \in PushIds : db.pushes[p] # Null /\ ~db.pushes[p].deleted
    => \E u \in Urls : <<u, db.pushes[p].task, p>> \in remotePush \cup cut

\* The rows of the registry stay sound and the configuration's agents pinned,
\* whatever a command deletes along with a row, is killed before or is called
\* after.
RegistryIsSound ==
  /\ [](RegistryTypeOK /\ ContextNamesUnique /\ LivePushIsRemote)
  /\ SeedsArePinned /\ ClosedStaysClosed

\* A stored card is of the URL its row has, and current after a refresh.
CardsAreCurrent == []CardIsOfItsRow /\ RefreshIsCurrent
=============================================================================

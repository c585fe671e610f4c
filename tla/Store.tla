------------------------------- MODULE Store -------------------------------
(***************************************************************************)
(* The SQLite repository of a profile (missive-store/src/repository.rs and *)
(* its migrations) as operators on a database: what an upsert or a delete  *)
(* does to its own table and, through the foreign keys, to the others, and *)
(* when a constraint refuses it.  A missing row is Null.                   *)
(*                                                                         *)
(* Data.  Columns no rule depends on (tags, notes, metadata, timestamps)   *)
(* are left out; an event is checked against the foreign keys and not kept.*)
(***************************************************************************)
CONSTANTS
  Aliases,   \* agent aliases
  AuthRefs,  \* names of auth refs
  Contexts,  \* context ids
  Names,     \* context names
  Tasks,     \* task ids
  Groups,    \* group names
  Ranks,     \* rank names
  PushIds,   \* push config ids
  Urls,      \* base URLs of agents
  Versions,  \* versions of a published Agent Card
  Null       \* SQL NULL, and the row of a missing key

OrNull(S) == S \cup {Null}

Cards == [url : Urls, version : Versions, usable : BOOLEAN]

AgentRows == [source : {"local", "config_seed"}, url : Urls, auth : OrNull(AuthRefs),
              card : OrNull(Cards), etag : OrNull(Versions), readOnly : BOOLEAN]

ContextRows == [agent : OrNull(Aliases), name : OrNull(Names),
                parent : OrNull(Contexts), state : {"open", "closed"}]

TaskRows == [agent : Aliases, context : OrNull(Contexts),
             state : {"submitted", "working", "completed", "unknown"}]

PushRows == [agent : Aliases, task : Tasks, deleted : BOOLEAN]

\* NULL is no key and no row.
ASSUME NullAssumption ==
  /\ Null \notin Aliases \cup AuthRefs \cup Contexts \cup Names \cup Tasks
               \cup Groups \cup Ranks \cup PushIds \cup Urls \cup Versions
  /\ Null \notin Cards \cup AgentRows \cup ContextRows \cup TaskRows \cup PushRows

Databases == [auth : SUBSET AuthRefs,
              agents : [Aliases -> OrNull(AgentRows)],
              contexts : [Contexts -> OrNull(ContextRows)],
              tasks : [Tasks -> OrNull(TaskRows)],
              groups : SUBSET Groups,
              members : [Groups \X Aliases -> OrNull(Ranks)],
              pushes : [PushIds -> OrNull(PushRows)]]

EmptyDatabase ==
  [auth |-> {}, agents |-> [a \in Aliases |-> Null],
   contexts |-> [c \in Contexts |-> Null], tasks |-> [t \in Tasks |-> Null],
   groups |-> {}, members |-> [m \in Groups \X Aliases |-> Null],
   pushes |-> [p \in PushIds |-> Null]]

\* A nullable foreign key: it is NULL or names a live row.
References(key, table) == key = Null \/ table[key] # Null

\* Field `f` of every row of a table that names key k is set to NULL
\* (ON DELETE SET NULL).
Detach(table, f, k) ==
  [x \in DOMAIN table |->
     IF table[x] # Null /\ table[x][f] = k THEN [table[x] EXCEPT ![f] = Null] ELSE table[x]]

\* Rows of a table that name key k go away with it (ON DELETE CASCADE).
Cascade(table, f, k) ==
  [x \in DOMAIN table |-> IF table[x] # Null /\ table[x][f] = k THEN Null ELSE table[x]]

----------------------------------------------------------------------------
(* Agents and auth refs.                                                   *)

UpsertAuthRefs(d, names) == [d EXCEPT !.auth = @ \cup names]

UpsertAgentOk(d, row) == row.auth = Null \/ row.auth \in d.auth

UpsertAgent(d, a, row) == [d EXCEPT !.agents[a] = row]

TasksOf(d, a) == {t \in Tasks : d.tasks[t] # Null /\ d.tasks[t].agent = a}

\* tasks.agent_alias is ON DELETE RESTRICT.
DeleteAgentOk(d, a) == TasksOf(d, a) = {}

DeleteAgent(d, a) ==
  [d EXCEPT !.agents[a] = Null,
            !.contexts = Detach(@, "agent", a),
            !.members = [m \in Groups \X Aliases |-> IF m[2] = a THEN Null ELSE @[m]],
            !.pushes = Cascade(@, "agent", a)]

----------------------------------------------------------------------------
(* Contexts, tasks and push configs.                                       *)

UpsertContextOk(d, c, row) ==
  /\ References(row.agent, d.agents)
  /\ References(row.parent, d.contexts)
  /\ row.parent # c

UpsertContext(d, c, row) == [d EXCEPT !.contexts[c] = row]

UpsertTask(d, t, row) == [d EXCEPT !.tasks[t] = row]

\* delete_push_config keeps the row and sets deleted_at.
DeletePush(d, p) ==
  IF d.pushes[p] = Null THEN d ELSE [d EXCEPT !.pushes[p].deleted = TRUE]

----------------------------------------------------------------------------
(* Groups.                                                                 *)

InsertGroup(d, g) == [d EXCEPT !.groups = @ \cup {g}]

MembersOf(d, g) == {a \in Aliases : d.members[<<g, a>>] # Null}

\* UNIQUE (group_name, rank_name).
UpsertMemberOk(d, g, a, r) == \A b \in Aliases \ {a} : d.members[<<g, b>>] # r

UpsertMember(d, g, a, r) == [d EXCEPT !.members[<<g, a>>] = r]

DeleteMember(d, g, a) == [d EXCEPT !.members[<<g, a>>] = Null]

\* group_members follow the new name (ON UPDATE CASCADE).
RenameGroupRow(d, g, h) ==
  [d EXCEPT !.groups = (@ \ {g}) \cup {h},
            !.members = [m \in Groups \X Aliases |->
                           IF m[1] = h THEN @[<<g, m[2]>>]
                           ELSE IF m[1] = g THEN Null ELSE @[m]]]

DeleteGroupRow(d, g) ==
  [d EXCEPT !.groups = @ \ {g},
            !.members = [m \in Groups \X Aliases |-> IF m[1] = g THEN Null ELSE @[m]]]

----------------------------------------------------------------------------
(* Events.                                                                 *)

\* append_event: the rows an event names must exist.
AppendEventOk(d, a, g, t) ==
  /\ References(a, d.agents)
  /\ g = Null \/ g \in d.groups
  /\ References(t, d.tasks)
=============================================================================

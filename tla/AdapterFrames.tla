--------------------------- MODULE AdapterFrames ---------------------------
(* The adapter boundary: which request frames the stdio, file-drop and     *)
(* HTTP adapters accept, how an accepted frame becomes an inbound message, *)
(* the registry of adapter factories and the life of the adapters made by  *)
(* it, with the event sink they share.                                     *)
EXTENDS Ids, FiniteSets, Sequences

CONSTANTS
  Adapters,        \* configured adapter names
  Frames,          \* request frames tried, in the record form of BaseFrame
  NoText           \* an optional field that is absent

----------------------------------------------------------------------------
(* Frames. *)

Foreground == {"send", "stream", "task_get", "task_list", "task_wait", "task_cancel"}
JobCommands == {"job_start_send", "job_start_stream", "job_start_wait", "job_start_reduce",
                "job_list", "job_show", "job_cancel"}

\* The adapters with frames of their own. Each has its own schema_version,
\* here the name of its kind; a frame that leaves it out gets the reader's.
BuiltinKinds == {"stdio", "file-drop", "http"}
Markers == BuiltinKinds \cup {"other", NoText}

\* A frame every adapter accepts. `parts` counts the message's parts, `short`
\* stands for its short optional fields, `count` for a page size or limit,
\* `history` for a history length and `attempts` for a job's max_attempts.
BaseFrame ==
  [schema |-> NoText, id |-> Text(5, "free"), source |-> Text(5, "free"), resume |-> Text(7, "lower"),
   command |-> "send", agent |-> Text(4, "lower"), group |-> Text(4, "lower"),
   context |-> NoText, task |-> Text(6, "free"),
   parts |-> 1, short |-> NoText, count |-> 1, history |-> 0, attempts |-> 1]

\* A frame that was deserialized has every field, of its type.
Texts == [len : Nat, shape : Shapes]
FrameRecords ==
  [schema : Markers, id : Texts, source : Texts, resume : Texts, command : Foreground \cup JobCommands,
   agent : Texts \cup {NoText}, group : Texts, context : Texts \cup {NoText}, task : Texts \cup {NoText},
   parts : Nat, short : Texts \cup {NoText}, count : Nat, history : Nat, attempts : Nat]

ASSUME FramesAssumption == Frames \subseteq FrameRecords /\ NoText \notin Texts \cup FrameRecords

Absent(v) == v = NoText
Maybe(v, Good(_)) == ~Absent(v) => Good(v)

\* StdioMessageFields::validate, and the validators of the task commands.
MessageValid(f) ==
  /\ NamedId(f.agent) /\ f.parts > 0
  /\ Maybe(f.context, OpaqueId) /\ Maybe(f.task, OpaqueId) /\ Maybe(f.short, ShortField)
TaskFieldsValid(f, command) ==
  /\ Maybe(f.agent, NamedId)
  /\ command # "task_list" => OpaqueId(f.task)
  /\ command = "task_list" => Maybe(f.context, OpaqueId) /\ f.count > 0
  /\ command # "task_cancel" => Maybe(f.short, ShortField) /\ f.history >= 0

FieldsValid(f, command) ==
  IF command \in {"send", "stream"} THEN MessageValid(f) ELSE TaskFieldsValid(f, command)

\* The schema marker, the id and the source.
HeaderValid(kind, f) ==
  f.schema \in {kind, NoText} /\ FrameId(f.id) /\ ExternalId(f.source) /\ f.resume.shape # "blank" /\ f.resume.len > 0

StdioValid(f) == f.command \in Foreground /\ HeaderValid("stdio", f) /\ FieldsValid(f, f.command)

\* The frame with the marker of an adapter; to_stdio_frame puts stdio's.
For(kind, f) == [f EXCEPT !.schema = kind]
to_stdio_frame(f) == For("stdio", f)

\* FileDropInputFile::validate: foreground commands by the stdio rules, a job
\* start by the rules of the command it carries and its job options.
OptionsValid(f) == f.attempts > 0 /\ Maybe(f.short, ShortField)

JobFieldsValid(f) ==
  CASE f.command = "job_start_send"   -> FieldsValid(f, "send") /\ OptionsValid(f)
    [] f.command = "job_start_stream" -> FieldsValid(f, "stream") /\ OptionsValid(f)
    [] f.command = "job_start_wait"   -> FieldsValid(f, "task_wait") /\ OptionsValid(f)
    [] f.command = "job_start_reduce" -> /\ NamedId(f.group) /\ ~Absent(f.context)
                                         /\ OpaqueId(f.context) /\ OptionsValid(f)
    [] f.command = "job_list" -> /\ Maybe(f.short, ShortField) /\ Maybe(f.agent, NamedId)
                                 /\ Maybe(f.context, OpaqueId) /\ f.count > 0
    [] OTHER -> ~Absent(f.task) /\ ShortField(f.task)

FileDropValid(f) ==
  /\ HeaderValid("file-drop", f)
  /\ IF f.command \in Foreground THEN StdioValid(to_stdio_frame(f)) ELSE JobFieldsValid(f)

\* HttpInputFrame::validate: its own header checks, then the stdio frame's.
HttpValid(f) ==
  HeaderValid("http", f) /\ f.command \in Foreground /\ StdioValid(to_stdio_frame(f))

FrameValid(kind, f) ==
  CASE kind = "stdio" -> StdioValid(f)
    [] kind = "file-drop" -> FileDropValid(f)
    [] kind = "http" -> HttpValid(f)

\* What the frame says of its target; a wait, get or cancel names no context.
TargetAgent(f) ==
  IF f.command \in {"job_start_reduce", "job_show", "job_cancel"} THEN NoText ELSE f.agent
TargetContext(f) ==
  IF f.command \in {"send", "stream", "task_list", "job_start_send", "job_start_stream",
                    "job_start_reduce", "job_list"} THEN f.context ELSE NoText

\* Seeded fault of MessageIdOf: the id is put behind a long prefix.
LongMessageId(kind, f) == Prefixed(200, f.id)

\* "msg/stdio/<id>", "msg/file-drop/<id>", "msg/http/<id>".
MessageIdOf(kind, f) ==
  Prefixed(CASE kind = "stdio" -> 10 [] kind = "file-drop" -> 14 [] kind = "http" -> 9, f.id)

\* A text message travels as text; anything else as JSON.
PayloadOf(f) == IF f.command \in {"send", "stream"} /\ f.parts = 1 THEN "text" ELSE "json"

\* Whether inbound_message_from_frame, _from_file builds the message: each of
\* its constructors validates again, by its own rules.
IdentityMaps(f) == ExternalId(f.source)
SessionMaps(f) == AdapterId(f.resume)
Maps(kind, f) ==
  /\ IdentityMaps(f) /\ SessionMaps(f)
  /\ Maybe(TargetAgent(f), NamedId) /\ Maybe(TargetContext(f), OpaqueId)
  /\ OpaqueId(MessageIdOf(kind, f))

InboundMessage(a, kind, f) ==
  [kind |-> "inbound", adapter |-> a, message |-> MessageIdOf(kind, f), source |-> f.source,
   agent |-> TargetAgent(f), context |-> TargetContext(f), payload |-> PayloadOf(f)]

----------------------------------------------------------------------------
(* Registry and adapters. *)

StubKinds == {"discord", "slack"}
Kinds == BuiltinKinds \cup StubKinds

VARIABLES
  factories,   \* kinds with a registered factory
  features,    \* stub kinds compiled in
  definition,  \* adapter -> its configuration
  life,        \* adapter -> none, created, started, stopped
  sink,        \* events the gateway received from adapters
  received,    \* adapter -> updates and acknowledgements it recorded
  refused,     \* the last call was refused
  probe        \* the frame a source offers, or NoText

adapterVars == <<factories, features, definition, life, sink, received, refused, probe>>

Definitions == [kind : Kinds, enabled : BOOLEAN, paths : {"none", "all", "some"}]

AdapterInit ==
  /\ factories = {} /\ features \in SUBSET StubKinds
  /\ definition \in [Adapters -> Definitions]
  /\ life = [a \in Adapters |-> "none"]
  /\ sink = {} /\ received = [a \in Adapters |-> {}] /\ refused = FALSE
  /\ probe = NoText

Refuse == refused' = TRUE /\ UNCHANGED <<factories, features, definition, life, sink, received, probe>>

\* register_factory: a kind is registered once.
Register(k) ==
  \/ k \in factories /\ Refuse
  \/ /\ k \notin factories /\ k \in BuiltinKinds
     /\ factories' = factories \cup {k} /\ refused' = FALSE
     /\ UNCHANGED <<features, definition, life, sink, received, probe>>

\* register_external_chat_adapter_stubs: the enabled platforms; a second call
\* is refused at the first of them.
RegisterStubs ==
  \/ features \cap factories # {} /\ Refuse
  \/ /\ features \cap factories = {}
     /\ factories' = factories \cup features /\ refused' = FALSE
     /\ UNCHANGED <<features, definition, life, sink, received, probe>>

\* A file-drop definition has all its paths or none.
PathsComplete(a) == definition[a].kind = "file-drop" => definition[a].paths # "some"

\* AdapterRegistry::create.
Creatable(a) == definition[a].enabled /\ definition[a].kind \in factories /\ PathsComplete(a)

Create(a) ==
  \/ ~Creatable(a) /\ Refuse
  \/ /\ Creatable(a) /\ life[a] = "none"
     /\ life' = [life EXCEPT ![a] = "created"] /\ refused' = FALSE
     /\ UNCHANGED <<factories, features, definition, sink, received, probe>>

Live(a) == life[a] # "none"

OwnEvent(a, event) == event.adapter = a

\* AdapterContext::emit: an event of another adapter is refused.
Emit(a, event) ==
  IF OwnEvent(a, event)
  THEN /\ sink' = sink \cup {[from |-> a, event |-> event]} /\ refused' = FALSE
       /\ UNCHANGED <<factories, features, definition, received, probe>>
  ELSE /\ refused' = TRUE
       /\ UNCHANGED <<factories, features, definition, sink, received, probe>>

Running(a) == [kind |-> "running", adapter |-> a]

\* ExternalChatStubAdapter: created by the registry, refuses to work.
Placeholder(a) == definition[a].kind \in StubKinds

\* Adapter::start announces the adapter before it is started; the sink may be
\* closed or the directories may fail, and the placeholder of a chat platform
\* always refuses.
Start(a) ==
  /\ Live(a)
  /\ \/ /\ ~Placeholder(a)
        /\ Emit(a, Running(a)) /\ life' = [life EXCEPT ![a] = "started"]
     \/ Refuse

Stop(a) ==
  /\ Live(a)
  /\ life' = IF Placeholder(a) THEN life ELSE [life EXCEPT ![a] = "stopped"]
  /\ refused' = FALSE
  /\ UNCHANGED <<factories, features, definition, sink, received, probe>>

\* emit_frame: the adapter maps a frame it accepted and emits the message.
EmitFrame(a) ==
  /\ Live(a) /\ definition[a].kind \in BuiltinKinds
  /\ probe # NoText /\ FrameValid(definition[a].kind, probe)
  /\ \/ /\ Maps(definition[a].kind, probe)
        /\ Emit(a, InboundMessage(a, definition[a].kind, probe)) /\ UNCHANGED life
     \/ ~Maps(definition[a].kind, probe) /\ Refuse

\* A worker hands the context of `a` an event that names `b`.
EmitForeign(a, b) == Live(a) /\ a # b /\ Emit(a, Running(b)) /\ UNCHANGED life

\* deliver_update and acknowledge: recorded only under the adapter's own name,
\* whether or not it is started; a placeholder refuses.
Deliver(a, b) ==
  /\ Live(a)
  /\ \/ /\ a = b /\ ~Placeholder(a)
        /\ received' = [received EXCEPT ![a] = @ \cup {b}] /\ refused' = FALSE
        /\ UNCHANGED <<factories, features, definition, life, sink, probe>>
     \/ (a # b \/ Placeholder(a)) /\ Refuse

\* A source offers a request frame.
Offer(f) ==
  /\ probe' = f /\ refused' = FALSE
  /\ UNCHANGED <<factories, features, definition, life, sink, received>>

RegistryNext ==
  \/ \E k \in BuiltinKinds : Register(k)
  \/ RegisterStubs
  \/ \E a \in Adapters : Create(a) \/ Start(a) \/ Stop(a) \/ EmitFrame(a)
  \/ \E a, b \in Adapters : EmitForeign(a, b) \/ Deliver(a, b)

AdapterNext == RegistryNext \/ \E f \in Frames : Offer(f)

----------------------------------------------------------------------------
(* Properties. *)

AdapterTypeOK ==
  /\ factories \subseteq Kinds /\ features \subseteq StubKinds
  /\ life \in [Adapters -> {"none", "created", "started", "stopped"}]
  /\ received \in [Adapters -> SUBSET Adapters] /\ refused \in BOOLEAN

\* A frame that passed validation becomes an inbound message unless its
\* resume name is no adapter identifier: the message id built from a frame id
\* of any allowed length is a message id, and agents and contexts are checked
\* by one rule on both sides. (validate asks of resume_name only that it is
\* not blank; AdapterSession::new asks for an identifier.)
ValidFramesMap ==
  probe # NoText => \A kind \in BuiltinKinds :
    FrameValid(kind, probe) => (Maps(kind, probe) <=> AdapterId(probe.resume))

\* But for the schema marker, which must be the adapter's own or left out, the
\* same foreground frame gets the same verdict from every adapter: a producer
\* that changes the marker, or never sends one, may move between pipe,
\* directory and HTTP without being refused. Validating the converted frame
\* again, by the rules of stdio, never refuses what the adapter let pass.
OneVerdict ==
  probe # NoText /\ probe.command \in Foreground =>
    /\ \A k1, k2 \in BuiltinKinds : FrameValid(k1, For(k1, probe)) <=> FrameValid(k2, For(k2, probe))
    /\ \A k \in BuiltinKinds :
         FrameValid(k, probe) <=> probe.schema \in {k, NoText} /\ FrameValid(k, For(k, probe))

\* A job enqueued by a request file carries a message the foreground command
\* would have accepted (a job never starts with arguments that cannot run).
JobsCarryRunnableCommands ==
  probe # NoText /\ FileDropValid(probe) =>
    \A c \in {<<"job_start_send", "send">>, <<"job_start_stream", "stream">>, <<"job_start_wait", "task_wait">>} :
      probe.command = c[1] => StdioValid([to_stdio_frame(probe) EXCEPT !.command = c[2]])

\* What the gateway hears from an adapter's context is about that adapter,
\* and an adapter is started only after the gateway heard that it runs.
SinkIsScoped ==
  /\ \A e \in sink : e.from = e.event.adapter
  /\ \A a \in Adapters : life[a] = "started" => [from |-> a, event |-> Running(a)] \in sink

\* A placeholder of a chat platform and a disabled definition never run.
OnlyRealAdaptersRun ==
  \A a \in Adapters :
    /\ life[a] # "none" => definition[a].enabled
    /\ definition[a].kind \in StubKinds => life[a] # "started" /\ received[a] = {}
=============================================================================

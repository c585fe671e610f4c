----------------------------- MODULE A2aClient -----------------------------
(* The A2A client: what it makes of an Agent Card, which interface it      *)
(* negotiates, what a caller learns of an exchange over HTTP+JSON or       *)
(* JSON-RPC, and the reader of server-sent events.                         *)
EXTENDS Naturals, Sequences, SequencesExt, FiniteSetsExt

CONSTANTS
  RawCards,                   \* the bodies an agent serves as its card
  Options,                    \* what callers ask negotiation for
  Requests,                   \* the arguments of a call
  MaxLines,                   \* bound on the lines of a stream
  MAX_SSE_EVENT_DATA_BYTES,   \* in data lines, each of one unit
  Unset                       \* an absent optional value

\* Interfaces, preferences and registered URLs are listed in an order.
ASSUME ClientConstants ==
  /\ MaxLines \in Nat /\ MAX_SSE_EVENT_DATA_BYTES \in Nat
  /\ \A raw \in RawCards : raw.interfaces # Unset => raw.interfaces \in Seq(Range(raw.interfaces))
  /\ \A o \in Options : o.preferred \in Seq(Range(o.preferred)) /\ o.registered \in Seq(Range(o.registered))

VARIABLES
  stage,       \* card, negotiate, call, sent, handled, stream, end
  interfaces,  \* supportedInterfaces of the parsed card
  options,     \* InterfaceNegotiationOptions of the caller
  interface,   \* NegotiatedInterface
  call,        \* operation and arguments of the call
  heard,       \* the agent: the request it handled and what it made of it
  reply,       \* the HTTP response
  lines,       \* history: the lines the reader of a stream has consumed
  reader,      \* event_type, data_lines and current_data_bytes
  delivered,   \* the StreamMessageEvents the callback was given
  outcome      \* what the client returned

clientVars == <<stage, interfaces, options, interface, call, heard, reply, lines, reader, delivered, outcome>>

NoReader == [type |-> Unset, data |-> <<>>, bytes |-> 0]

ClientInit ==
  /\ stage = "card" /\ interfaces = <<>> /\ options = Unset /\ interface = Unset /\ call = Unset
  /\ heard = Unset /\ reply = Unset /\ lines = <<>> /\ reader = NoReader /\ delivered = <<>>
  /\ outcome = "none"

Return(o) == stage' = "end" /\ outcome' = o

(***************************************************************************)
(* Agent Cards. A URL is hosted, an authority without a scheme (host:port, *)
(* which has no host once parsed), hostless or relative.                   *)
(***************************************************************************)
HttpNames == {"HTTP+JSON", "http_json", "http+json"}
RpcNames == {"JSONRPC", "json_rpc", "json-rpc"}
GrpcNames == {"gRPC", "grpc"}

canonical_protocol_binding(n) ==
  CASE n \in HttpNames -> "http+json"
    [] n \in RpcNames -> "json-rpc"
    [] n \in GrpcNames -> "grpc"
    [] OTHER -> n

LOCALLY_SUPPORTED_BINDINGS == <<"http+json", "json-rpc">>
IsLocal(b) == Contains(LOCALLY_SUPPORTED_BINDINGS, b)

\* A field under its old name is moved, unless the new one is there too.
move_alias(new, old) == IF new # Unset THEN new ELSE old

\* normalize_agent_card_value: the interfaces of a card that omits them are
\* the empty list.
NormalizedInterfaces(raw) ==
  IF raw.interfaces = Unset THEN <<>>
  ELSE [i \in DOMAIN raw.interfaces |->
          [name |-> move_alias(raw.interfaces[i].protocolBinding, raw.interfaces[i].transport),
           url |-> raw.interfaces[i].url, tenant |-> raw.interfaces[i].tenant]]

validate_agent_interface(i) ==
  /\ i.name \notin {Unset, ""} /\ i.url # ""
  /\ \/ i.url = "hosted"
     \/ canonical_protocol_binding(i.name) = "grpc" /\ i.url = "authority"

\* Malformed security fields are dropped rather than held against the card.
parse_official_agent_card(raw) == raw.parses \in {"whole", "without security"}

validate_agent_card(raw) ==
  /\ raw.texts /\ raw.skills = "named"
  /\ \A i \in DOMAIN NormalizedInterfaces(raw) : validate_agent_interface(NormalizedInterfaces(raw)[i])

CardAccepted(raw) == raw.object /\ parse_official_agent_card(raw) /\ validate_agent_card(raw)

Failed(r) == IF r.is = "version" THEN "version" ELSE "transport"

\* fetch_public_agent_card: the request is lost, refused, answered with 304
\* or with a body.
FetchLost ==
  /\ stage = "card" /\ Return("transport")
  /\ UNCHANGED <<interfaces, options, interface, call, heard, reply, lines, reader, delivered>>

FetchRefused(r) ==
  /\ stage = "card" /\ reply' = r /\ Return(Failed(r))
  /\ UNCHANGED <<interfaces, options, interface, call, heard, lines, reader, delivered>>

FetchNotModified ==
  /\ stage = "card" /\ Return("not modified")
  /\ UNCHANGED <<interfaces, options, interface, call, heard, reply, lines, reader, delivered>>

FetchCard(raw) ==
  /\ stage = "card"
  /\ IF CardAccepted(raw)
     THEN /\ stage' = "negotiate" /\ interfaces' = NormalizedInterfaces(raw) /\ UNCHANGED outcome
     ELSE /\ Return("protocol") /\ UNCHANGED interfaces
  /\ UNCHANGED <<options, interface, call, heard, reply, lines, reader, delivered>>

(***************************************************************************)
(* Negotiation.                                                            *)
(***************************************************************************)
Malformed(b) == b \in {"", "a b"}

\* normalized_preferences: the canonical names, best first, each in the place
\* where it is listed first; those of them that can be used.
Preferences(o) ==
  LET ps == IF o.preferred = <<>> THEN LOCALLY_SUPPORTED_BINDINGS ELSE o.preferred
  IN [i \in DOMAIN ps |-> canonical_protocol_binding(ps[i])]

LocalPreferences(o) ==
  {i \in DOMAIN Preferences(o) : /\ IsLocal(Preferences(o)[i])
                                 /\ \A j \in 1 .. i - 1 : Preferences(o)[j] # Preferences(o)[i]}

HasBinding(is, b) == \E i \in DOMAIN is : canonical_protocol_binding(is[i].name) = b

first_card_interface(is, b) ==
  is[Min({i \in DOMAIN is : canonical_protocol_binding(is[i].name) = b})]

Chosen(b, url, tenant, source) == [binding |-> b, url |-> url, tenant |-> tenant, source |-> source, error |-> ""]
NotChosen(error) == [binding |-> "", url |-> "", tenant |-> Unset, source |-> "none", error |-> error]

interface_from_agent_card(i) ==
  Chosen(canonical_protocol_binding(i.name), i.url, i.tenant, "agent_card")

\* The URLs an agent is registered with stand in for the interfaces of a
\* card that has none; a URL without a host ends the search.
Fallback(b, url, source) ==
  IF url = "hosted" THEN Chosen(b, url, Unset, source) ELSE NotChosen("validation")

RegisteredFor(o, b) == {i \in DOMAIN o.registered : canonical_protocol_binding(o.registered[i].name) = b}
HasFallback(o, b) == RegisteredFor(o, b) # {} \/ (b = "http+json" /\ o.base # Unset)

fallback_interface_for_binding(o, b) ==
  IF RegisteredFor(o, b) # {} THEN Fallback(b, o.registered[Min(RegisteredFor(o, b))].url, "registry_override")
  ELSE Fallback(b, o.base, "base_url_fallback")

negotiate_missing_interfaces_fallback(o, bs, places) ==
  LET usable == {k \in places : HasFallback(o, bs[k])} IN
    IF usable = {} THEN NotChosen("transport") ELSE fallback_interface_for_binding(o, bs[Min(usable)])

\* The bindings in question, best first, and the interface they lead to.
Among(is, o, bs, places) ==
  LET offered == {k \in places : HasBinding(is, bs[k])} IN
    IF offered # {} THEN interface_from_agent_card(first_card_interface(is, bs[Min(offered)]))
    ELSE IF is = <<>> THEN negotiate_missing_interfaces_fallback(o, bs, places)
    ELSE NotChosen("transport")

\* The preferences are looked at first, also where they are overridden.
PreferencesOk(o) == \A i \in DOMAIN Preferences(o) : ~Malformed(Preferences(o)[i])

negotiate_agent_interface(is, o) ==
  IF ~PreferencesOk(o) THEN NotChosen("validation")
  ELSE IF o.override # Unset
  THEN LET b == canonical_protocol_binding(o.override) IN
       IF Malformed(b) THEN NotChosen("validation")
       ELSE IF ~IsLocal(b) THEN NotChosen("transport") ELSE Among(is, o, <<b>>, {1})
  ELSE IF LocalPreferences(o) = {} THEN NotChosen("transport")
  ELSE Among(is, o, Preferences(o), LocalPreferences(o))

Negotiate(o) ==
  LET n == negotiate_agent_interface(interfaces, o) IN
    /\ stage = "negotiate"
    /\ options' = o /\ interface' = n
    /\ IF n.error = "" THEN stage' = "call" /\ UNCHANGED outcome ELSE Return(n.error)
    /\ UNCHANGED <<interfaces, call, heard, reply, lines, reader, delivered>>

(***************************************************************************)
(* One exchange.                                                           *)
(***************************************************************************)
Streams == {"SendStreamingMessage", "SubscribeToTask"}
TaskCalls == {"GetTask", "ListTasks", "CancelTask"}
PushCalls == {"CreatePushConfig", "GetPushConfig", "ListPushConfigs", "DeletePushConfig"}

\* The caller's tenant, or the one of the interface.
TenantOf(r) == IF r.tenant # Unset THEN r.tenant ELSE interface.tenant

\* ServiceParameters::validate.
ParametersOk(p) ==
  /\ p.version \notin {"", "1 0"}
  /\ \A i, j \in DOMAIN p.extensions : p.extensions[i] = p.extensions[j] => i = j
  /\ \A i \in DOMAIN p.extensions : p.extensions[i] \notin {"", "a,b"}
  /\ p.extra \cap {"A2A-Version", "A2A-Extensions"} = {}

\* A push config is addressed by ids, the second of which only the REST
\* path needs.
AddressOk(op, r) ==
  /\ op \in PushCalls => r.task # ""
  /\ op \in {"GetPushConfig", "DeletePushConfig"} /\ interface.binding = "http+json" => r.config # ""

Callable == interface.url = "hosted"

\* A request is checked before it leaves.
Request(op, r) ==
  /\ stage = "call"
  /\ call' = [op |-> op, args |-> r]
  /\ IF AddressOk(op, r) /\ Callable /\ ParametersOk(r.parameters)
     THEN stage' = "sent" /\ UNCHANGED outcome
     ELSE Return("validation")
  /\ UNCHANGED <<interfaces, options, interface, heard, reply, lines, reader, delivered>>

SendMessage(r) == Request("SendMessage", r)
StreamMessage(r) == Request("SendStreamingMessage", r)
SubscribeTask(r) == Request("SubscribeToTask", r)
CallTask(op, r) == op \in TaskCalls /\ Request(op, r)
CallPush(op, r) == op \in PushCalls /\ Request(op, r)

\* The agent does what it is asked, refuses it or the protocol version.
Verdicts == {"did", "refused", "version"}

AgentHandles(v) ==
  /\ stage = "sent"
  /\ heard' = [op |-> call.op, tenant |-> TenantOf(call.args), verdict |-> v]
  /\ stage' = "handled"
  /\ UNCHANGED <<interfaces, options, interface, call, reply, lines, reader, delivered, outcome>>

\* The request, or its response, is lost, or late for the request timeout.
ExchangeLost ==
  /\ stage \in {"sent", "handled"}
  /\ Return("transport")
  /\ UNCHANGED <<interfaces, options, interface, call, heard, reply, lines, reader, delivered>>

Reply(ok, rpc, is) == [ok |-> ok, rpc |-> rpc, is |-> is]

\* A delete may be acknowledged with null or, over HTTP+JSON, with no body at
\* all.
Acknowledgements(rpc) ==
  {Reply(TRUE, rpc, "null")} \cup (IF rpc THEN {} ELSE {Reply(TRUE, FALSE, "empty")})

\* JSON-RPC refuses with status 200: in a JSON body or, where a stream was
\* asked for, in an event.
Refusals(rpc, is) ==
  {Reply(FALSE, rpc, is)} \cup (IF rpc THEN {Reply(TRUE, TRUE, is)} ELSE {})
    \cup (IF rpc /\ heard.op \in Streams THEN {Reply(TRUE, TRUE, "event")} ELSE {})

\* What an agent of either binding answers, and what a proxy in between may.
HonestReplies ==
  LET rpc == interface.binding = "json-rpc" IN
    CASE heard.verdict = "did" -> {Reply(TRUE, rpc, "value")}
                                  \cup (IF heard.op = "DeletePushConfig" THEN Acknowledgements(rpc) ELSE {})
                                  \cup (IF heard.op = "ListTasks" THEN {Reply(TRUE, rpc, "unpaged")} ELSE {})
      [] heard.verdict = "refused" -> Refusals(rpc, "error")
      [] OTHER -> Refusals(rpc, "version")

Spoiled == {Reply(ok, rpc, is) : ok, rpc \in BOOLEAN, is \in {"other"}} \cup {Reply(ok, FALSE, "junk") : ok \in BOOLEAN}

Fits(op, is) == is = "value" \/ op = "DeletePushConfig" \/ (op = "ListTasks" /\ is = "unpaged")

\* send_task_request and the shape each operation asks for; whatever JSON a
\* delete is answered with will do, but no body is no JSON.
HttpOutcome(op, r) ==
  CASE ~r.ok -> Failed(r)
    [] r.ok /\ r.is \in {"junk", "empty"} -> "protocol"
    [] OTHER -> IF op = "DeletePushConfig" \/ (~r.rpc /\ Fits(op, r.is)) THEN "ok" ELSE "protocol"

\* json_rpc_call: an error object goes before the result, and a result of
\* null is none.
RpcOutcome(op, r) ==
  CASE ~r.ok -> Failed(r)
    [] r.ok /\ (r.is = "junk" \/ ~r.rpc) -> "protocol"
    [] r.ok /\ r.rpc /\ r.is = "version" -> "version"
    [] OTHER -> IF r.is \notin {"error", "null"} /\ Fits(op, r.is) THEN "ok" ELSE "protocol"

Answered(ops, r) ==
  /\ stage = "handled" /\ call.op \in ops
  /\ reply' = r
  /\ Return(IF interface.binding = "http+json" THEN HttpOutcome(call.op, r) ELSE RpcOutcome(call.op, r))
  /\ UNCHANGED <<interfaces, options, interface, call, heard, lines, reader, delivered>>

SendAnswered(r) == Answered({"SendMessage"}, r)
TaskAnswered(r) == Answered(TaskCalls, r)
PushAnswered(r) == Answered(PushCalls, r)

\* The body of a stream is read whatever its content type.
StreamOpens(r) ==
  /\ stage = "handled" /\ call.op \in Streams
  /\ reply' = r
  /\ IF r.ok THEN stage' = "stream" /\ UNCHANGED outcome ELSE Return(Failed(r))
  /\ UNCHANGED <<interfaces, options, interface, call, heard, lines, reader, delivered>>

(***************************************************************************)
(* Server-sent events. A line is blank, a comment or unknown field, an     *)
(* event field with its value, or a data field with its payload: a whole   *)
(* event, one of its halves or a JSON-RPC error, of the version or another.*)
(***************************************************************************)
Payloads == {"whole", "head", "tail", "version", "error"}

Lines ==
  {[field |-> f, value |-> Unset] : f \in {"blank", "skip"}}
    \cup {[field |-> "event", value |-> "kind"]} \cup {[field |-> "data", value |-> p] : p \in Payloads}

\* Lines of one event are joined before they are parsed.
parse_stream_event_data(data) ==
  CASE data \in {<<"whole">>, <<"head", "tail">>} -> "ok"
    [] data = <<"version">> -> "version"
    [] OTHER -> "protocol"

Event(rec) == [sequence |-> Len(delivered), type |-> rec.type, data |-> rec.data]

\* The callback of stream_sse_response: an event that cannot be parsed ends
\* the stream, one that can is counted and given to the caller, who may fail.
OnRecord(accepted, last) ==
  LET parsed == parse_stream_event_data(reader.data) IN
    IF parsed # "ok" THEN Return(parsed) /\ UNCHANGED delivered
    ELSE /\ delivered' = Append(delivered, Event(reader))
         /\ IF ~accepted THEN Return("caller")
            ELSE IF last THEN Return("ok") ELSE UNCHANGED <<stage, outcome>>

\* Seeded fault of DispatchSseRecord: the type of a record without data is
\* left for the next one.
DispatchKeepingType(accepted, last) ==
  IF reader.data = <<>>
  THEN /\ reader' = [reader EXCEPT !.bytes = 0] /\ UNCHANGED delivered
       /\ IF last THEN Return("ok") ELSE UNCHANGED <<stage, outcome>>
  ELSE reader' = NoReader /\ OnRecord(accepted, last)

\* A record without data is dropped, with its type.
DispatchSseRecord(accepted, last) ==
  /\ reader' = NoReader
  /\ IF reader.data # <<>> THEN OnRecord(accepted, last)
     ELSE /\ UNCHANGED delivered
          /\ IF last THEN Return("ok") ELSE UNCHANGED <<stage, outcome>>

\* The lines of a reply: no line of a JSON body is a field of an event, and an
\* error in an event is its only data.
Refusal == IF heard.verdict = "version" THEN "version" ELSE "error"
LineOf(r, line) ==
  /\ r.is \in {"error", "version"} => line.field \notin {"event", "data"}
  /\ r.is = "event" /\ line.field = "data" => line.value = Refusal /\ reader.data = <<>>

Consume(line) ==
  stage = "stream" /\ Len(lines) < MaxLines /\ LineOf(reply, line) /\ lines' = Append(lines, line)

BlankLine(accepted) ==
  /\ \E line \in Lines : line.field = "blank" /\ Consume(line)
  /\ DispatchSseRecord(accepted, FALSE)
  /\ UNCHANGED <<interfaces, options, interface, call, heard, reply>>

FieldLine(line) ==
  /\ line.field # "blank" /\ Consume(line)
  /\ CASE line.field = "data" ->
            IF reader.bytes + 1 > MAX_SSE_EVENT_DATA_BYTES
            THEN Return("protocol") /\ UNCHANGED reader
            ELSE /\ reader' = [reader EXCEPT !.data = Append(@, line.value), !.bytes = @ + 1]
                 /\ UNCHANGED <<stage, outcome>>
       [] line.field = "event" -> reader' = [reader EXCEPT !.type = line.value] /\ UNCHANGED <<stage, outcome>>
       [] OTHER -> UNCHANGED <<reader, stage, outcome>>
  /\ UNCHANGED <<interfaces, options, interface, call, heard, reply, delivered>>

\* The response ends, whole: what was read of the last event is dispatched.
EndOfStream(accepted) ==
  /\ stage = "stream" /\ (reply.is = "event" => reader.data # <<>>)
  /\ DispatchSseRecord(accepted, TRUE)
  /\ UNCHANGED <<interfaces, options, interface, call, heard, reply, lines>>

\* The connection breaks or the request timeout passes.
StreamBreaks ==
  /\ stage = "stream" /\ Return("transport")
  /\ UNCHANGED <<interfaces, options, interface, call, heard, reply, lines, reader, delivered>>

ClientNext ==
  \/ \E raw \in RawCards : FetchCard(raw)
  \/ FetchLost \/ FetchNotModified \/ \E is \in {"junk", "version"} : FetchRefused(Reply(FALSE, FALSE, is))
  \/ \E o \in Options : Negotiate(o)
  \/ \E r \in Requests : SendMessage(r) \/ StreamMessage(r) \/ SubscribeTask(r)
  \/ \E r \in Requests : \E op \in TaskCalls \cup PushCalls : CallTask(op, r) \/ CallPush(op, r)
  \/ \E v \in Verdicts : AgentHandles(v)
  \/ ExchangeLost
  \/ /\ stage = "handled"
     /\ \E r \in HonestReplies \cup Spoiled :
          SendAnswered(r) \/ TaskAnswered(r) \/ PushAnswered(r) \/ StreamOpens(r)
  \/ \E accepted \in BOOLEAN : BlankLine(accepted) \/ EndOfStream(accepted)
  \/ \E line \in Lines : FieldLine(line)
  \/ StreamBreaks

ClientSpec == ClientInit /\ [][ClientNext]_clientVars

(***************************************************************************)
(* Properties.                                                             *)
(***************************************************************************)
\* An accepted card never leads negotiation to an interface the calls cannot
\* use: the URL has a host although gRPC interfaces may be accepted without,
\* the binding is one of ours, and what the card offers goes before what the
\* agent was registered with.
NegotiatedIsCallable ==
  interface # Unset /\ interface.error = "" =>
    /\ Callable /\ IsLocal(interface.binding)
    /\ options.override # Unset => interface.binding = canonical_protocol_binding(options.override)
    /\ interface.source = "agent_card" <=> interfaces # <<>>

\* Of the interfaces a card offers, the first of the binding the caller
\* likes best is taken; negotiation fails only if there is none of any
\* binding the caller would have.
NegotiatedIsPreferred ==
  interface # Unset /\ options.override = Unset /\ PreferencesOk(options) /\ interfaces # <<>> =>
    LET binding(i) == canonical_protocol_binding(interfaces[i].name)
        rank(b) == {k \in DOMAIN Preferences(options) : Preferences(options)[k] = b}
        wanted == {i \in DOMAIN interfaces : IsLocal(binding(i)) /\ rank(binding(i)) # {}}
    IN IF wanted = {} THEN interface.error = "transport"
       ELSE \E i \in wanted :
              /\ interface = interface_from_agent_card(interfaces[i])
              /\ \A j \in wanted : \E x \in rank(binding(i)) : \A y \in rank(binding(j)) : x < y \/ (x = y /\ i <= j)

\* The reply is the agent's own.
Unspoiled == reply # Unset /\ heard # Unset /\ reply \notin Spoiled

\* An error object as the JSON body, with status 200, of what should be a
\* stream.
SilentRefusal == call.op \in Streams /\ reply.ok /\ reply.is \in {"error", "version"}

\* A delete that succeeded, acknowledged in a way the client takes for an
\* error.
LostAcknowledgement == IF reply.rpc THEN reply.is = "null" ELSE reply.is = "empty"

\* The caller learns what the agent did, over either binding: success only
\* for what was done, for the tenant meant; a refused version as such; and
\* nothing that was done and answered as agreed is reported as a failure.
\* There are two exceptions, and they are the only ones. A delete answered with
\* null over JSON-RPC, or with an empty body over HTTP+JSON, is reported as
\* failed. A stream refused by a JSON-RPC error that is the body, and not an
\* event, is reported as a stream that ended well without events
\* (docs/protocol.md: "JSON-RPC stream errors become protocol errors").
CallsAreReportedTruly ==
  /\ outcome = "ok" =>
       /\ heard.verdict = "did" \/ reply \in Spoiled \/ SilentRefusal
       /\ heard.tenant = IF call.args.tenant # Unset THEN call.args.tenant ELSE interface.tenant
  /\ outcome = "version" /\ heard # Unset =>
       heard.verdict = "version" \/ (call.op \in Streams /\ (heard.verdict = "did" \/ reply \in Spoiled))
  /\ stage = "end" /\ Unspoiled /\ call.op \notin Streams =>
       /\ heard.verdict = "version" => outcome = "version"
       /\ heard.verdict = "refused" => outcome \in {"transport", "protocol"}
       /\ heard.verdict = "did" => outcome = "ok" \/ (call.op = "DeletePushConfig" /\ LostAcknowledgement)
  /\ stage = "end" /\ Unspoiled /\ call.op \in Streams /\ heard.verdict # "did" =>
       /\ delivered = <<>>
       /\ outcome \in IF SilentRefusal THEN {"ok", "transport"} ELSE {"version", "protocol", "transport"}
  /\ outcome = "validation" => heard = Unset

\* The k-th of the numbers in a set.
Place(S, i) == Cardinality({j \in S : j <= i})
Nth(S, k) == CHOOSE i \in {j \in S : Place(S, j) = k} : TRUE

\* The events of a stream by definition: the lines between blank ones, those
\* without data left out, the last one open unless the stream has ended.
Closings(ls, ended) ==
  {i \in DOMAIN ls : ls[i].field = "blank"} \cup (IF ended THEN {Len(ls) + 1} ELSE {})
Block(ls, c) == {i \in 1 .. c - 1 : \A j \in i .. c - 1 : ls[j].field # "blank"}
DataLines(ls, c) == {i \in Block(ls, c) : ls[i].field = "data"}
Data(ls, c) == [k \in 1 .. Cardinality(DataLines(ls, c)) |-> ls[Nth(DataLines(ls, c), k)].value]
Type(ls, c) == IF \E i \in Block(ls, c) : ls[i].field = "event" THEN "kind" ELSE Unset
Full(ls, ended) == {c \in Closings(ls, ended) : DataLines(ls, c) # {}}
Record(ls, c, k) == [sequence |-> k - 1, type |-> Type(ls, c), data |-> Data(ls, c)]
Records(ls, ended) ==
  [k \in 1 .. Cardinality(Full(ls, ended)) |-> Record(ls, Nth(Full(ls, ended), k), k)]

\* A stream delivers its events once each, in order, numbered from zero,
\* with their own type, up to the first one that cannot be read or that the
\* caller refuses; it succeeds only when it has delivered all of them.
StreamIsFaithful ==
  LET opened == Records(lines, TRUE) IN
    stage \in {"stream", "end"} /\ reply # Unset /\ call # Unset /\ call.op \in Streams /\ reply.ok =>
      CASE stage = "stream" -> delivered = Records(lines, FALSE)
        [] stage = "end" /\ outcome = "ok" ->
             delivered = opened /\ \A k \in DOMAIN opened : parse_stream_event_data(opened[k].data) = "ok"
        [] stage = "end" /\ outcome = "transport" -> delivered = Records(lines, FALSE)
        [] stage = "end" /\ outcome = "caller" -> delivered = opened
        [] OTHER -> /\ opened # <<>> /\ opened = Append(delivered, Last(opened))
                    /\ \/ parse_stream_event_data(Last(opened).data) = outcome
                       \/ outcome = "protocol" /\ Len(Last(opened).data) > MAX_SSE_EVENT_DATA_BYTES

\* The client tells its caller what the agent offered, did and sent.
ClientIsFaithful ==
  NegotiatedIsCallable /\ NegotiatedIsPreferred /\ CallsAreReportedTruly /\ StreamIsFaithful
=============================================================================

----------------------------- MODULE MCAdapters -----------------------------
(* The adapters and the A2A client side by side, one per behaviour:        *)
(* request files handled by one process that may break and be started      *)
(* again, by two at once, or limited by --max-files; the stdio loop; the   *)
(* frames and the adapters of a registry; negotiation; calls and streams.  *)
EXTENDS FileDrop, AdapterPorts, A2aClient

VARIABLE family

mcVars == <<dropVars, stdioVars, adapterVars, clientVars, family>>

CONSTANTS p, q, r1, r2, r3, x, y

\* Every text field at the edges of its bounds, each command, each number.
Edges == {Text(n, s) : n \in {0, 1, 63, 64, 128, 129, 256, 257}, s \in Shapes}
         \cup {Text(n, "free") : n \in {4096, 4097}}
Optional == Edges \cup {NoText}

MCFrames ==
  LET by(c) == [BaseFrame EXCEPT !.command = c] IN
    UNION { {[by(c) EXCEPT !.id = t] : t \in Edges}
       \cup {[by(c) EXCEPT !.source = t] : t \in Edges}
       \cup {[by(c) EXCEPT !.resume = t] : t \in Edges}
       \cup {[by(c) EXCEPT !.agent = t] : t \in IF c \in {"send", "stream", "job_start_send", "job_start_stream"}
                                                THEN Edges ELSE Optional}
       \cup {[by(c) EXCEPT !.context = t] : t \in Optional}
       \cup {[by(c) EXCEPT !.task = t] : t \in Edges}
       \cup {[by(c) EXCEPT !.short = t] : t \in Optional}
       \cup {[by(c) EXCEPT !.count = n, !.attempts = m, !.parts = k, !.schema = s] :
               n, m \in 0..1, k \in 0..2, s \in Markers}
         : c \in Foreground \cup JobCommands }

Plain == {BaseFrame, [BaseFrame EXCEPT !.resume = Text(3, "free")], [BaseFrame EXCEPT !.command = "job_show"]}

\* One process at a time, all contents, breaks and restarts.
Serial ==
  /\ dropper'[q].step = "off" /\ dropper'[p].max = 0
  /\ content'[r2] \in {"none", "good", "invalid"} /\ content'[r3] \in {"none", "good"}
  /\ inbox'[2] = NoDrop

\* Two processes, one name, nothing that goes wrong by itself.
Parallel ==
  /\ \A d \in Droppers : dropper'[d].step # "dead" /\ dropper'[d].max = 0 /\ ~dropper'[d].watch
  /\ content'[r3] = "none" /\ content'[r2] \in {"none", "good"} /\ content'[r1] # "failing"

\* --max-files.
Limited ==
  /\ dropper'[q].step = "off" /\ dropper'[p].step \notin {"dead", "failed"} /\ dropper'[p].max # 0
  /\ \A r \in Drops : content'[r] \in {"none", "good", "invalid"}

\* Cards of up to two interfaces, and cards that are no cards.
Interface(new, old, url, t) == [protocolBinding |-> new, transport |-> old, url |-> url, tenant |-> t]

CardInterfaces ==
  {Interface("HTTP+JSON", Unset, "hosted", x), Interface(Unset, "http_json", "hosted", y),
   Interface("JSONRPC", "grpc", "hosted", Unset), Interface("gRPC", Unset, "authority", Unset),
   Interface("JSONRPC", Unset, "authority", Unset), Interface("quic", Unset, "hosted", x),
   Interface(Unset, Unset, "hosted", x), Interface("gRPC", Unset, "relative", x)}

Card(is) == [object |-> TRUE, parses |-> "whole", texts |-> TRUE, skills |-> "named", interfaces |-> is]

MCRawCards ==
  {Card(is) : is \in {Unset} \cup UNION {[1..n -> CardInterfaces] : n \in 0..2}}
    \cup {[Card(Unset) EXCEPT !.parses = how] : how \in {"without security", "not at all"}}
    \cup {[Card(Unset) EXCEPT !.object = FALSE], [Card(Unset) EXCEPT !.texts = FALSE]}
    \cup {[Card(Unset) EXCEPT !.skills = s] : s \in {"none", "unnamed"}}

Registered == {<<>>, <<[name |-> "http+json", url |-> "relative"]>>, <<[name |-> "json-rpc", url |-> "hosted"]>>,
               <<[name |-> "http_json", url |-> "hosted"], [name |-> "json-rpc", url |-> "hostless"]>>}

MCOptions ==
  [preferred : {<<>>, <<"json-rpc">>, <<"grpc">>, <<"json-rpc", "a b">>, <<"grpc", "json-rpc", "http_json", "JSONRPC">>, <<"http+json", "json-rpc">>},
   override : {Unset, "HTTP+JSON", "json_rpc", "grpc", "quic", "", "a b"},
   registered : Registered, base : {"hosted", "hostless"}]

Parameters == [version |-> "1.0", extensions |-> <<"e", "f">>, extra |-> {}]
PlainRequest == [tenant |-> Unset, task |-> "t", config |-> "c", parameters |-> Parameters]

MCRequests ==
  {PlainRequest, [PlainRequest EXCEPT !.tenant = y], [PlainRequest EXCEPT !.task = ""],
   [PlainRequest EXCEPT !.config = ""]}
    \cup {[PlainRequest EXCEPT !.parameters = p1] :
            p1 \in {[Parameters EXCEPT !.version = ""], [Parameters EXCEPT !.extensions = <<"e", "e">>],
                    [Parameters EXCEPT !.extensions = <<"a,b">>], [Parameters EXCEPT !.extra = {"A2A-Version"}]}}

\* All cards and callers, without a call; plain ones, with all calls.
Discovering == call' = Unset
Calling ==
  /\ interfaces' \in {<<>>, <<[name |-> "HTTP+JSON", url |-> "hosted", tenant |-> x]>>}
  /\ options' # Unset => /\ options'.preferred = <<>> /\ options'.override \in {Unset, "json_rpc"}
                         /\ options'.registered = <<[name |-> "json-rpc", url |-> "hosted"]>>
                         /\ options'.base = "hosted"
  /\ lines' # <<>> => /\ call'.op = "SubscribeToTask" /\ call'.args = PlainRequest
                      /\ reply'.is = "value" => interfaces' # <<>>
                      /\ reply'.is \in {"value", "error", "version", "event"}

ClientQuiet == UNCHANGED clientVars
DropQuiet == UNCHANGED dropVars
StdioQuiet == UNCHANGED stdioVars
AdaptersQuiet == UNCHANGED adapterVars

\* The adapters of the registry family; one enabled stdio adapter each elsewhere.
MCDefinitions ==
  LET plain == [kind |-> "stdio", enabled |-> TRUE, paths |-> "none"] IN
    IF family = "registry"
    THEN {(x :> d) @@ (y :> [plain EXCEPT !.kind = "http"]) :
            d \in {e \in Definitions : e.kind \in {"file-drop", "discord"}}}
    ELSE {[a \in Adapters |-> plain]}

MCInit ==
  /\ family \in {"serial", "parallel", "limited", "stdio", "frames", "registry", "discover", "call"}
  /\ DropInit /\ ClientInit
  /\ StdioInit /\ (family # "stdio" => stdin = <<>> /\ stdioMode = "long" /\ framing = "json")
  /\ features \in IF family = "registry" THEN {{}, StubKinds} ELSE {{}}
  /\ definition \in MCDefinitions
  /\ AdapterInit

MCNext ==
  /\ family' = family
  /\ \/ family \in {"serial", "parallel", "limited"} /\ DropNext /\ StdioQuiet /\ AdaptersQuiet /\ ClientQuiet
        /\ \/ family = "serial" /\ Serial
           \/ family = "parallel" /\ Parallel
           \/ family = "limited" /\ Limited
     \/ family = "stdio" /\ StdioNext /\ DropQuiet /\ AdaptersQuiet /\ ClientQuiet
     \/ /\ family = "frames" /\ probe = NoText /\ DropQuiet /\ StdioQuiet /\ ClientQuiet
        /\ \E f \in Frames : Offer(f)
     \/ /\ family = "registry" /\ DropQuiet /\ StdioQuiet /\ ClientQuiet
        /\ RegistryNext \/ \E f \in Plain : Offer(f)
     \/ /\ family \in {"discover", "call"} /\ DropQuiet /\ StdioQuiet /\ AdaptersQuiet
        /\ ClientNext
        /\ \/ family = "discover" /\ Discovering
           \/ family = "call" /\ Calling

MCSpec == MCInit /\ [][MCNext]_mcVars /\ DropFairness
=============================================================================

----------------------------- MODULE StdioLoop -----------------------------
(* missive adapter stdio: request frames are read from stdin, run one      *)
(* after the other, and answered on stdout with the request's id and a     *)
(* sequence number.                                                        *)
EXTENDS Naturals, Sequences

CONSTANTS StdinLengths   \* bound on the number of input lines

ASSUME StdioConstants == StdinLengths \subseteq Nat

VARIABLES stdin, stdioMode, framing, at, stdout, stdioResult

stdioVars == <<stdin, stdioMode, framing, at, stdout, stdioResult>>

\* What a line holds: nothing; no valid frame; a frame whose command works,
\* fails, or prints its output and then fails (a wait that times out); a
\* stream that ends well or breaks off; a frame with a task state or source
\* that passes validation and does not parse; bytes that are not UTF-8.
LineKinds == {"blank", "invalid", "works", "fails", "late", "stream", "broken", "unconvertible", "undecodable"}

StdioInit ==
  /\ stdin \in UNION {[1..n -> LineKinds] : n \in StdinLengths}
  /\ stdioMode \in {"single", "long"} /\ framing \in {"json", "ndjson"}
  /\ at = 0 /\ stdout = <<>>
  /\ stdioResult = IF stdioMode = "long" /\ framing # "ndjson" THEN "refused" ELSE "running"

\* wrap_command_output: the output a command printed, the events of a stream
\* one by one only in a long run.
Wrapped(kind) ==
  CASE kind \in {"fails", "invalid"} -> <<>>
    [] kind \in {"works", "late"} -> <<TRUE>>
    [] kind = "stream" -> IF stdioMode = "long" THEN <<TRUE, TRUE>> ELSE <<TRUE>>
    [] kind = "broken" -> IF stdioMode = "long" THEN <<TRUE>> ELSE <<>>

\* execute_stdio_frame: the wrapped output, then the error of a failed command.
AnswerOks(kind) ==
  Wrapped(kind) \o (IF kind \in {"fails", "invalid", "late", "broken"} THEN <<FALSE>> ELSE <<>>)

\* A frame that was not parsed is answered without an id.
OutputFrame(line, kind, i) ==
  [line |-> line, id |-> kind # "invalid", sequence |-> i - 1, ok |-> AnswerOks(kind)[i]]

Answer(line, kind) == [i \in DOMAIN AnswerOks(kind) |-> OutputFrame(line, kind, i)]

\* What lines() and handle_stdio_frame_result pass on with ?: a line that is no
\* text, and an argument conversion that fails, are not answered but end the
\* whole run.
EndsRun(kind) == kind \in {"unconvertible", "undecodable"}

\* The long-running loop, one line at a time.
ReadLine ==
  /\ stdioResult = "running" /\ stdioMode = "long" /\ at < Len(stdin)
  /\ at' = at + 1
  /\ LET kind == stdin[at + 1] IN
       \/ kind = "blank" /\ UNCHANGED <<stdout, stdioResult>>
       \/ EndsRun(kind) /\ stdioResult' = "error" /\ UNCHANGED stdout
       \/ /\ kind # "blank" /\ ~EndsRun(kind)
          /\ stdout' = stdout \o Answer(at + 1, kind) /\ UNCHANGED stdioResult
  /\ UNCHANGED <<stdin, stdioMode, framing>>

EndOfInput ==
  /\ stdioResult = "running" /\ stdioMode = "long" /\ at = Len(stdin)
  /\ stdioResult' = "ok"
  /\ UNCHANGED <<stdin, stdioMode, framing, at, stdout>>

\* Single shot: all of stdin as one JSON value, where bytes that are not UTF-8
\* are one more invalid frame, or its first NDJSON line, where they are not.
SingleKind ==
  LET full == {i \in DOMAIN stdin : stdin[i] # "blank"}
      first == IF stdin = <<>> THEN "blank" ELSE stdin[1]
  IN IF framing = "json"
     THEN IF \E i \in full : full = {i} /\ stdin[i] # "undecodable"
          THEN stdin[CHOOSE i \in full : TRUE] ELSE "invalid"
     ELSE IF first = "blank" THEN "invalid" ELSE first

SingleShot ==
  /\ stdioResult = "running" /\ stdioMode = "single"
  /\ at' = IF framing = "json" \/ stdin = <<>> THEN Len(stdin) ELSE 1
  /\ IF EndsRun(SingleKind) THEN stdioResult' = "error" /\ UNCHANGED stdout
     ELSE stdout' = Answer(1, SingleKind) /\ stdioResult' = "ok"
  /\ UNCHANGED <<stdin, stdioMode, framing>>

StdioNext == ReadLine \/ EndOfInput \/ SingleShot

----------------------------------------------------------------------------
StdioTypeOK ==
  /\ stdioMode \in {"single", "long"} /\ framing \in {"json", "ndjson"}
  /\ at \in 0..Len(stdin) /\ stdioResult \in {"running", "ok", "error", "refused"}
  /\ \A i \in DOMAIN stdout : stdout[i].line \in Nat /\ stdout[i].sequence \in Nat

\* A long run answers every line it has read past, except blank ones and the
\* one that ended it. The frames of a line stand together, numbered from zero,
\* and only the last of them can be an error; answers come in the order of the
\* requests (a supervisor can pair them by id).
EveryLineAnswered ==
  /\ \A i, j \in DOMAIN stdout : i < j => stdout[i].line <= stdout[j].line
  /\ \A k \in DOMAIN stdout :
       IF k = 1 \/ stdout[k - 1].line # stdout[k].line THEN stdout[k].sequence = 0
       ELSE stdout[k].sequence = stdout[k - 1].sequence + 1 /\ stdout[k - 1].ok
  /\ stdioMode = "long" => \A i \in 1..at :
       (\E k \in DOMAIN stdout : stdout[k].line = i)
         <=> stdin[i] # "blank" /\ ~(stdioResult = "error" /\ i = at)

\* As long as stdout can be written, a frame that does not parse or a command
\* that fails never ends a long run. Two lines do, and those after them stay
\* unread: one that is not UTF-8 (docs/adapters.md promises an error frame and
\* that the loop continues), and one with a task state or source that does not
\* parse. A single shot over JSON answers the former.
OnlyTwoLinesEndIt ==
  /\ stdioMode = "long" /\ stdioResult = "error" => stdin[at] \in {"unconvertible", "undecodable"}
  /\ stdioMode = "single" /\ stdioResult = "error" =>
       \E i \in DOMAIN stdin : stdin[i] = "unconvertible" \/ (stdin[i] = "undecodable" /\ framing = "ndjson")
=============================================================================

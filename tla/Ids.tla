-------------------------------- MODULE Ids --------------------------------
(* The identifiers and short texts every component validates. A text is    *)
(* its length in bytes and the kind of characters it has.                  *)
EXTENDS Naturals

\* lower: lowercase letters and digits, '-', '_' or '.' only in the middle;
\* plus: the same with a '+' in the middle; edge: a separator at an end;
\* free: any other printable characters; spaced: some white space; blank:
\* white space only; control: a control character.
Shapes == {"lower", "plus", "edge", "free", "spaced", "blank", "control"}

Text(len, shape) == [len |-> len, shape |-> shape]

NAMED_IDENTIFIER_MAX_BYTES == 63
TRANSPORT_NAME_MAX_BYTES == 64
OPAQUE_IDENTIFIER_MAX_BYTES == 256
METADATA_KEY_MAX_BYTES == 128
FRAME_ID_MAX_BYTES == 128
SHORT_FIELD_MAX_BYTES == 4096

Solid(v, max) == v.len \in 1..max /\ v.shape \notin {"spaced", "blank", "control"}

\* Agent aliases, group names, rank names.
NamedId(v) == v.len \in 1..NAMED_IDENTIFIER_MAX_BYTES /\ v.shape = "lower"
TransportName(v) == v.len \in 1..TRANSPORT_NAME_MAX_BYTES /\ v.shape \in {"lower", "plus"}
\* Context, task, message and event ids.
OpaqueId(v) == Solid(v, OPAQUE_IDENTIFIER_MAX_BYTES)
MetadataKey(v) == Solid(v, METADATA_KEY_MAX_BYTES)

\* Adapter names, kinds, session profiles and resume names; the identities
\* platforms report.
AdapterId(v) == v.len \in 1..63 /\ v.shape = "lower"
ExternalId(v) == Solid(v, 256)

FrameId(v) == Solid(v, FRAME_ID_MAX_BYTES)
ShortField(v) == v.len \in 1..SHORT_FIELD_MAX_BYTES /\ v.shape # "control"

\* A text with other text put before it: it has the characters of both.
Prefixed(n, v) ==
  [len |-> n + v.len,
   shape |-> IF v.shape \in {"spaced", "blank"} THEN "spaced"
             ELSE IF v.shape = "control" THEN "control" ELSE "free"]
=============================================================================

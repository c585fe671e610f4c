--------------------------- MODULE CommandsProofs ---------------------------
(***************************************************************************)
(* The commands that work in the profile database.  The tasks and          *)
(* artifacts rows follow the agents, the commands report truly, and        *)
(* together with the gateway's polls they implement module MirroredTask:   *)
(* for every set of tasks, any number of states and parts.  The registry   *)
(* keeps its foreign keys, its cards current and its pushes in step with   *)
(* the agents, and meets no constraint it did not foresee.  A gather or a  *)
(* reduce takes the members' own answers and overwrites no file unasked.   *)
(***************************************************************************)
EXTENDS TaskCommands, Registry, Collect, FiniteSetTheorems, SequenceTheorems,
        WellFoundedInduction, TLAPS

RowStates == AgentStates \cup {"submitted", "unknown"}

\* A gateway has written an answer or an event about task t.
GatewayWrote(t) == \E form \in Forms : GatewayPersists(t, form)

\* The types the proofs work with: histories and wires as sequences.
TypeInv ==
  /\ remote \in [TaskIds -> Seq(AgentStates)]
  /\ chunks \in [TaskIds -> 0 .. MaxChunks]
  /\ rows \in [TaskIds -> TaskRowSet \cup {None}]
  /\ parts \in [TaskIds -> Seq(Nat)]
  /\ told \in [TaskIds -> RowStates \cup {None}]
  /\ ids \subseteq TaskIds \X (1 .. MaxMoves)
  /\ polled \in [TaskIds -> 0 .. MaxMoves]
  /\ command \in CommandSet
  /\ wire \in Seq(WireEvents)
  /\ outcome \in {"ok", "invalid", "failed", "storage", "collision", "killed",
                  "input_required", "cancelled", "timeout"}

\* A task ends once: only its last state is terminal.
History(h) == Len(h) <= MaxMoves /\ \A i \in 1 .. Len(h) : h[i] \in Terminal => i = Len(h)

\* A row that shows a position of the history shows its state, is marked done
\* in a terminal one, and is the one the journal told of last; a row that was
\* done once belongs to a finished task, though an old event may have been
\* merged into it since.
RowInv(row, h, last) ==
  row # None =>
    /\ row.seen <= Len(h)
    /\ row.seen = 0 => row.state \in {"submitted", "unknown"}
    /\ row.seen # 0 => row.state = h[row.seen] /\ last = row.state
    /\ row.state \in Terminal => row.done
    /\ row.done => h # <<>> /\ Now(h) \in Terminal

TaskInv(t) ==
  /\ History(remote[t])
  /\ RowInv(rows[t], remote[t], told[t])
  /\ Len(parts[t]) <= chunks[t] /\ parts[t] = UpTo(Len(parts[t]))
  /\ polled[t] <= Len(remote[t])
  /\ \A i \in 1 .. MaxMoves : <<t, i>> \in ids => i <= Len(remote[t])

\* Event e was sent right after position `at` and part `chunk` were current.
Follows(at, chunk, e) ==
  \/ e.type = "status" /\ e.at = at + 1 /\ e.chunk = chunk
  \/ e.type = "artifact" /\ e.at = at /\ e.chunk = chunk + 1
  \/ e.type = "message" /\ e.at = at /\ e.chunk = chunk

\* The events on their way lead from what is stored to what the agent has, one
\* change at a time; the first of a stream is the task itself.
StreamInv(t) ==
  /\ \A i \in 1 .. Len(wire) : wire[i].at <= Len(remote[t]) /\ wire[i].chunk <= chunks[t]
  /\ \A i \in 2 .. Len(wire) : Follows(wire[i - 1].at, wire[i - 1].chunk, wire[i])
  /\ wire # <<>> => wire[Len(wire)].at = Len(remote[t]) /\ wire[Len(wire)].chunk = chunks[t]
  /\ wire = <<>> => rows[t] # None /\ rows[t].seen = Len(remote[t]) /\ Len(parts[t]) = chunks[t]
  /\ wire # <<>> /\ wire[1].type # "task" =>
       rows[t] # None /\ rows[t].seen # 0 /\ Follows(rows[t].seen, Len(parts[t]), wire[1])
  /\ wire # <<>> /\ wire[1].type = "task" =>
       /\ Len(parts[t]) <= wire[1].chunk
       /\ rows[t] # None => rows[t].seen <= wire[1].at
                            /\ (rows[t].done => wire[1].at = Len(remote[t]))
  /\ remote[t] # <<>>

WireInv ==
  IF command.kind = "stream" THEN StreamInv(command.task) ELSE wire = <<>>

StoreInv == TypeInv /\ (\A t \in TaskIds : TaskInv(t)) /\ WireInv

----------------------------------------------------------------------------
(* The operators.                                                          *)

\* The parts 1 .. n, and one more.
LEMMA UpToProperties ==
  ASSUME NEW n \in Nat
  PROVE /\ UpTo(n) \in Seq(Nat) /\ Len(UpTo(n)) = n
        /\ \A i \in 1 .. n : UpTo(n)[i] = i
        /\ Append(UpTo(n), n + 1) = UpTo(n + 1)
        /\ UpTo(0) = <<>>
<1>1. \A k \in Nat : UpTo(k) \in Seq(Nat) /\ Len(UpTo(k)) = k /\ \A i \in 1 .. k : UpTo(k)[i] = i
  BY DEF UpTo
<1>2. /\ Append(UpTo(n), n + 1) \in Seq(Nat) /\ Len(Append(UpTo(n), n + 1)) = n + 1
      /\ \A i \in 1 .. n : Append(UpTo(n), n + 1)[i] = i
      /\ Append(UpTo(n), n + 1)[n + 1] = n + 1
  <2>1. n + 1 \in Nat /\ UpTo(n) \in Seq(Nat)
    BY <1>1
  <2> QED BY <1>1, <2>1, AppendProperties
<1>3. Append(UpTo(n), n + 1) = UpTo(n + 1)
  <2>1. n + 1 \in Nat /\ \A i \in 1 .. n + 1 : i \in 1 .. n \/ i = n + 1
    OBVIOUS
  <2>2. \A i \in 1 .. n + 1 : Append(UpTo(n), n + 1)[i] = UpTo(n + 1)[i]
    BY <1>1, <1>2, <2>1
  <2> QED BY <1>1, <1>2, <2>1, <2>2, SeqEqual
<1>4. UpTo(0) = <<>>
  BY <1>1, EmptySeq
<1> QED BY <1>1, <1>3, <1>4

\* What an agent may do to a task's history in one step.
Grown(h, k) ==
  \/ k = h
  \/ /\ \E s \in AgentStates : k = Append(h, s)
     /\ Len(h) < MaxMoves /\ (h # <<>> => Now(h) \notin Terminal)

\* A history only grows at its end, and not at all once the task is over.
LEMMA GrownKeeps ==
  ASSUME NEW h \in Seq(AgentStates), NEW k, History(h), Grown(h, k)
  PROVE /\ k \in Seq(AgentStates) /\ History(k)
        /\ Len(h) \in Nat /\ Len(k) \in {Len(h), Len(h) + 1}
        /\ \A i \in 1 .. Len(h) : k[i] = h[i]
        /\ h # <<>> /\ Now(h) \in Terminal => k = h
        /\ Len(k) = Len(h) => k = h
        /\ h # <<>> => k # <<>>
        /\ SubSeq(k, 1, Len(h)) = h
<1>0. Len(h) \in Nat /\ (h # <<>> => Len(h) # 0)
  BY LenProperties, EmptySeq
<1>1. CASE k = h
  <2>1. SubSeq(h, 1, Len(h)) = h
    BY SubSeqFull
  <2> QED BY <1>0, <1>1, <2>1
<1>2. ASSUME NEW s \in AgentStates, k = Append(h, s), Len(h) < MaxMoves, h # <<>> => Now(h) \notin Terminal
      PROVE /\ k \in Seq(AgentStates) /\ History(k)
            /\ Len(k) = Len(h) + 1 /\ k # <<>>
            /\ \A i \in 1 .. Len(h) : k[i] = h[i]
            /\ SubSeq(k, 1, Len(h)) = h
  <2>1. /\ k \in Seq(AgentStates) /\ Len(k) = Len(h) + 1 /\ k # <<>>
        /\ \A i \in 1 .. Len(h) : k[i] = h[i]
    BY <1>2, AppendProperties
  <2>2. \A i \in 1 .. Len(h) : h[i] \notin Terminal
    <3>1. \A i \in 1 .. Len(h) : h # <<>> /\ (h[i] \in Terminal => i = Len(h))
      BY EmptySeq DEF History
    <3> QED BY <1>2, <3>1 DEF Now
  <2>3. History(k)
    BY <1>0, <1>2, <2>1, <2>2, CommandBounds DEF History
  <2>4. SubSeq(k, 1, Len(h)) = h
    <3>1. \A i \in 1 .. Len(h) : k[i] \in AgentStates
      BY <2>1
    <3>2. /\ SubSeq(k, 1, Len(h)) \in Seq(AgentStates)
          /\ Len(SubSeq(k, 1, Len(h))) = Len(h)
          /\ \A i \in 1 .. Len(h) : SubSeq(k, 1, Len(h))[i] = k[i]
      BY <1>0, <3>1, SubSeqProperties
    <3> QED BY <2>1, <3>2, SeqEqual
  <2> QED BY <2>1, <2>3, <2>4
<1>3. Len(h) # Len(h) + 1
  BY <1>0
<1> QED BY <1>0, <1>1, <1>2, <1>3 DEF Grown

\* A message the agent takes grows the history of its task, or leaves it.
LEMMA AcceptedGrows ==
  ASSUME NEW t \in TaskIds, remote[t] \in Seq(AgentStates)
  PROVE Grown(remote[t], Accepted(t)) /\ Accepted(t) # <<>>
<1>1. CASE ~Known(t)
  <2>1. Append(<<>>, "working") = <<"working">> /\ Append(<<>>, "working") # <<>>
    BY AppendProperties, EmptySeq
  <2>2. remote[t] = <<>> /\ Accepted(t) = <<"working">> /\ Len(remote[t]) = 0
    BY <1>1, EmptySeq DEF Accepted, Known
  <2>3. "working" \in AgentStates /\ 0 < MaxMoves
    BY CommandBounds DEF AgentStates
  <2> QED BY <2>1, <2>2, <2>3 DEF Grown
<1>2. CASE Known(t) /\ Now(remote[t]) = "input_required" /\ Len(remote[t]) < MaxMoves
  <2>1. Accepted(t) = Append(remote[t], "working") /\ "working" \in AgentStates
    BY <1>2 DEF Accepted, AgentStates
  <2>2. Accepted(t) # <<>>
    BY <2>1, AppendProperties
  <2> QED BY <1>2, <2>1, <2>2 DEF Grown, Terminal
<1>3. CASE Known(t) /\ ~(Now(remote[t]) = "input_required" /\ Len(remote[t]) < MaxMoves)
  BY <1>3 DEF Accepted, Grown, Known
<1> QED BY <1>1, <1>2, <1>3

\* A snapshot makes a sound row.
LEMMA FreshRowSound ==
  ASSUME NEW h \in Seq(AgentStates), h # <<>>, History(h)
  PROVE /\ FreshRow(h) \in TaskRowSet /\ FreshRow(h) # None /\ Now(h) \in AgentStates
        /\ FreshRow(h).seen = Len(h) /\ Len(h) \in 1 .. MaxMoves
        /\ FreshRow(h).state = Now(h)
        /\ RowInv(FreshRow(h), h, Now(h))
<1>1. Len(h) \in 1 .. MaxMoves /\ Now(h) \in AgentStates
  BY EmptySeq, ElementOfSeq, CommandBounds DEF History, Now
<1>2. FreshRow(h) \in TaskRowSet
  BY <1>1 DEF FreshRow, TaskRowSet
<1>3. FreshRow(h) # None
  BY <1>2, NoneIsNoRow
<1>4. RowInv(FreshRow(h), h, Now(h))
  <2>1. Len(h) # 0 /\ Len(h) <= Len(h)
    BY <1>1
  <2> QED BY <2>1 DEF FreshRow, RowInv, Now
<1> QED BY <1>1, <1>2, <1>3, <1>4 DEF FreshRow

\* The rows of a stream and of a placeholder have the type of rows.
LEMMA RowTypes ==
  ASSUME NEW old \in TaskRowSet \cup {None}, NEW s \in RowStates, NEW i \in 0 .. MaxMoves
  PROVE /\ MergedRow(old, s, i) \in TaskRowSet /\ MergedRow(old, s, i) # None
        /\ [MergedRow(old, s, i) EXCEPT !.json = i] \in TaskRowSet
        /\ Placeholder(old, s) \in TaskRowSet /\ Placeholder(old, s) # None
<1>1. MergedRow(old, s, i) \in TaskRowSet
  BY CommandBounds DEF MergedRow, TaskRowSet, RowStates
<1>2. Placeholder(old, s) \in TaskRowSet
  BY CommandBounds DEF Placeholder, TaskRowSet, RowStates
<1>3. [MergedRow(old, s, i) EXCEPT !.json = i] \in TaskRowSet
  BY <1>1 DEF TaskRowSet
<1> QED BY <1>1, <1>2, <1>3, NoneIsNoRow

----------------------------------------------------------------------------
(* What one step may do to one task.                                       *)

ChunkStep(c, c2) == c2 = c \/ (c2 = c + 1 /\ c < MaxChunks)

\* The parts stay, or are the first n of the ones the agent has produced.
PartStep(p, p2, c2) == p2 = p \/ \E n \in 0 .. c2 : p2 = UpTo(n)

\* A row moves on to a position of the history.
Advanced(row, row2, k, last2) ==
  /\ row2 \in TaskRowSet /\ last2 \in RowStates
  /\ row2.seen # 0 /\ RowInv(row2, k, last2)
  /\ row # None => row.seen <= row2.seen

\* The row is kept, replaced by a snapshot, guessed, reset, or moves on.
RowStep(row, row2, k, last, last2) ==
  \/ row2 = row /\ last2 = last
  \/ /\ k # <<>> /\ row2 = FreshRow(k)
     /\ last2 = Now(k) \/ (last2 = last /\ ~Changed(row, k))
  \/ row = None /\ row2 = Placeholder(None, "submitted") /\ last2 = last
  \/ row2 = MergedRow(row, "submitted", 0) /\ last2 = last
  \/ Advanced(row, row2, k, last2)

AgentEffect ==
  /\ remote' = [u \in TaskIds |-> remote'[u]]
  /\ chunks' = [u \in TaskIds |-> chunks'[u]]
  /\ \A u \in TaskIds : Grown(remote[u], remote'[u]) /\ ChunkStep(chunks[u], chunks'[u])

MirrorEffect ==
  /\ rows' = [u \in TaskIds |-> rows'[u]]
  /\ parts' = [u \in TaskIds |-> parts'[u]]
  /\ told' = [u \in TaskIds |-> told'[u]]
  /\ \A i \in ids' : i \in ids \/ \E u \in TaskIds : remote'[u] # <<>> /\ i = <<u, Len(remote'[u])>>
  /\ \A u \in TaskIds : /\ RowStep(rows[u], rows'[u], remote'[u], told[u], told'[u])
                        /\ PartStep(parts[u], parts'[u], chunks'[u])

\* A function updated in one place.
LEMMA Updated ==
  ASSUME NEW X, NEW f \in [TaskIds -> X], NEW t \in TaskIds, NEW v
  PROVE /\ [f EXCEPT ![t] = v] = [u \in TaskIds |-> [f EXCEPT ![t] = v][u]]
        /\ [f EXCEPT ![t] = v][t] = v
        /\ \A u \in TaskIds : u # t => [f EXCEPT ![t] = v][u] = f[u]
OBVIOUS

LEMMA Same ==
  ASSUME NEW X, NEW f \in [TaskIds -> X]
  PROVE f = [u \in TaskIds |-> f[u]]
OBVIOUS

LEMMA AgentStays ==
  ASSUME TypeInv, UNCHANGED agent
  PROVE AgentEffect
<1>1. remote' = remote /\ chunks' = chunks
  BY DEF agent
<1>2. remote = [u \in TaskIds |-> remote[u]] /\ chunks = [u \in TaskIds |-> chunks[u]]
  BY Same DEF TypeInv
<1> QED BY <1>1, <1>2 DEF AgentEffect, Grown, ChunkStep

LEMMA AgentGoesTo ==
  ASSUME TypeInv, NEW t \in TaskIds, NEW h, Grown(remote[t], h),
         remote' = [remote EXCEPT ![t] = h], chunks' = chunks
  PROVE AgentEffect /\ remote'[t] = h
<1>1. /\ remote' = [u \in TaskIds |-> remote'[u]] /\ remote'[t] = h
      /\ \A u \in TaskIds : u # t => remote'[u] = remote[u]
  BY Updated DEF TypeInv
<1>2. chunks = [u \in TaskIds |-> chunks[u]]
  BY Same DEF TypeInv
<1> QED BY <1>1, <1>2 DEF AgentEffect, Grown, ChunkStep

LEMMA MirrorStays ==
  ASSUME TypeInv, UNCHANGED mirror
  PROVE MirrorEffect
<1>1. rows' = rows /\ parts' = parts /\ told' = told /\ ids' = ids
  BY DEF mirror
<1>2. /\ rows = [u \in TaskIds |-> rows[u]] /\ parts = [u \in TaskIds |-> parts[u]]
      /\ told = [u \in TaskIds |-> told[u]]
  BY Same DEF TypeInv
<1> QED BY <1>1, <1>2 DEF MirrorEffect, RowStep, PartStep

\* Only the row of t is written, with no news from the agent.
LEMMA RowIsWritten ==
  ASSUME TypeInv, NEW t \in TaskIds, NEW v, rows' = [rows EXCEPT ![t] = v],
         v \in {rows[t], Placeholder(rows[t], "submitted"), MergedRow(rows[t], "submitted", 0)},
         UNCHANGED <<parts, told, ids>>
  PROVE MirrorEffect
<1>1. /\ rows' = [u \in TaskIds |-> rows'[u]] /\ rows'[t] = v
      /\ \A u \in TaskIds : u # t => rows'[u] = rows[u]
  BY Updated DEF TypeInv
<1>2. parts = [u \in TaskIds |-> parts[u]] /\ told = [u \in TaskIds |-> told[u]]
  BY Same DEF TypeInv
<1>3. v = rows[t] \/ (rows[t] = None /\ v = Placeholder(None, "submitted"))
      \/ v = MergedRow(rows[t], "submitted", 0)
  BY DEF Placeholder
<1>4. \A u \in TaskIds : RowStep(rows[u], rows'[u], remote'[u], told[u], told'[u])
  BY <1>1, <1>3 DEF RowStep
<1> QED BY <1>1, <1>2, <1>4 DEF MirrorEffect, PartStep

\* A snapshot of t is persisted.
LEMMA SnapshotWritten ==
  ASSUME TypeInv, NEW t \in TaskIds, NEW h, h # <<>>, remote'[t] = h, chunks' = chunks,
         rows' = [rows EXCEPT ![t] = FreshRow(h)],
         parts' = [parts EXCEPT ![t] = TaskArtifacts(@, chunks[t])],
         \/ told' = [told EXCEPT ![t] = Now(h)]
         \/ told' = told /\ ~Changed(rows[t], h),
         ids' \subseteq ids \cup {<<t, Len(h)>>}
  PROVE MirrorEffect
<1>1. /\ rows' = [u \in TaskIds |-> rows'[u]] /\ rows'[t] = FreshRow(h)
      /\ \A u \in TaskIds : u # t => rows'[u] = rows[u]
  BY Updated DEF TypeInv
<1>2. /\ parts' = [u \in TaskIds |-> parts'[u]] /\ parts'[t] = TaskArtifacts(parts[t], chunks[t])
      /\ \A u \in TaskIds : u # t => parts'[u] = parts[u]
  BY Updated DEF TypeInv
<1>3. /\ told' = [u \in TaskIds |-> told'[u]]
      /\ \A u \in TaskIds : u # t => told'[u] = told[u]
      /\ told'[t] = Now(h) \/ (told'[t] = told[t] /\ ~Changed(rows[t], h))
  BY Updated, Same DEF TypeInv
<1>4. \A u \in TaskIds : RowStep(rows[u], rows'[u], remote'[u], told[u], told'[u])
  BY <1>1, <1>3 DEF RowStep
<1>5. \A u \in TaskIds : PartStep(parts[u], parts'[u], chunks'[u])
  <2>1. chunks[t] \in 0 .. chunks[t]
    BY DEF TypeInv
  <2> QED BY <1>2, <2>1 DEF PartStep, TaskArtifacts
<1>6. \A i \in ids' : i \in ids \/ \E u \in TaskIds : remote'[u] # <<>> /\ i = <<u, Len(remote'[u])>>
  OBVIOUS
<1> QED BY <1>1, <1>2, <1>3, <1>4, <1>5, <1>6 DEF MirrorEffect

----------------------------------------------------------------------------
(* Stream events.                                                          *)

LEMMA CommandTask ==
  ASSUME TypeInv, command.kind \in {"opening", "stream", "wait", "wait_local"}
  PROVE /\ command.task \in TaskIds /\ command # Idle
        /\ command = [kind |-> command.kind, task |-> command.task]
BY DEF TypeInv, CommandSet, Idle

\* The row StreamEvent writes.
EventRow(row, e, s) ==
  CASE e.type = "task" -> [MergedRow(row, s, e.at) EXCEPT !.json = e.at]
    [] e.type = "status" -> MergedRow(row, s, e.at)
    [] OTHER -> MergedRow(row, row.state, row.seen)

EventTold(last, e, s) == IF e.type \in {"task", "status"} THEN s ELSE last

\* Event e is the next one for a row and c parts.
Due(row, h, c, e) ==
  \/ /\ e.type = "task" /\ c <= e.chunk
     /\ row # None => row.seen <= e.at /\ (row.done => e.at = Len(h))
  \/ e.type # "task" /\ row # None /\ row.seen # 0 /\ Follows(row.seen, c, e)

\* An event that is next in the stream moves the row on to its position.
LEMMA EventAdvances ==
  ASSUME NEW h \in Seq(AgentStates), History(h), NEW row \in TaskRowSet \cup {None},
         NEW last \in RowStates \cup {None}, RowInv(row, h, last),
         NEW e \in WireEvents, e.at <= Len(h), NEW c, Due(row, h, c, e)
  PROVE /\ Advanced(row, EventRow(Placeholder(row, "unknown"), e, h[e.at]), h,
                    EventTold(last, e, h[e.at]))
        /\ EventRow(Placeholder(row, "unknown"), e, h[e.at]).seen = e.at
        /\ EventRow(Placeholder(row, "unknown"), e, h[e.at]) # None
<1> DEFINE s == h[e.at]
           old == Placeholder(row, "unknown")
           new == EventRow(old, e, s)
           last2 == EventTold(last, e, s)
<1>0. \/ e.type = "task" /\ (row # None => row.seen <= e.at /\ (row.done => e.at = Len(h)))
      \/ row # None /\ row.seen # 0 /\ Follows(row.seen, c, e)
  BY DEF Due
<1>1. /\ Len(h) \in Nat /\ Len(h) <= MaxMoves /\ e.at \in 1 .. Len(h) /\ e.at \in 0 .. MaxMoves
      /\ e.at # 0 /\ s \in AgentStates /\ (s \in Terminal => e.at = Len(h)) /\ h # <<>>
  <2>1. Len(h) \in Nat /\ Len(h) <= MaxMoves /\ e.at \in 1 .. MaxMoves /\ (h = <<>> => Len(h) = 0)
    BY LenProperties, EmptySeq DEF History, WireEvents
  <2>2. e.at \in 1 .. Len(h) /\ e.at \in 0 .. MaxMoves /\ e.at # 0
    BY <2>1
  <2> QED BY <2>1, <2>2, ElementOfSeq DEF History
<1>2. /\ old \in TaskRowSet /\ old # None
      /\ row # None => old = row
      /\ row = None => old.seen = 0 /\ ~old.done
  <2>1. "unknown" \in RowStates /\ 0 \in 0 .. MaxMoves
    BY CommandBounds DEF RowStates
  <2>2. old \in TaskRowSet /\ old # None
    BY <2>1, RowTypes
  <2> QED BY <2>2 DEF Placeholder
<1> HIDE DEF new, last2
<1>3. ASSUME e.type \in {"task", "status"}
      PROVE Advanced(row, new, h, last2) /\ new.seen = e.at /\ new # None
  <2>1. /\ new.state = s /\ new.seen = e.at /\ new.done = (s \in Terminal \/ old.done)
        /\ new \in TaskRowSet /\ last2 = s
    <3>1. CASE e.type = "task"
      <4>1. new = [MergedRow(old, s, e.at) EXCEPT !.json = e.at]
        BY <3>1 DEF EventRow, new
      <4>2. last2 = s /\ s \in RowStates
        BY <1>1, <1>3 DEF RowStates, last2, EventTold
      <4> HIDE DEF s, old
      <4>3. new \in TaskRowSet
        BY <1>1, <1>2, <4>1, <4>2, RowTypes
      <4>4. /\ new.state = MergedRow(old, s, e.at).state /\ new.seen = MergedRow(old, s, e.at).seen
            /\ new.done = MergedRow(old, s, e.at).done
        BY <4>1 DEF MergedRow
      <4> QED BY <1>2, <4>2, <4>3, <4>4 DEF MergedRow
    <3>2. CASE e.type = "status"
      <4>1. new = MergedRow(old, s, e.at)
        BY <3>2 DEF EventRow, new
      <4>2. last2 = s /\ s \in RowStates
        BY <1>1, <1>3 DEF RowStates, last2, EventTold
      <4> HIDE DEF s, old
      <4>3. new \in TaskRowSet
        BY <1>1, <1>2, <4>1, <4>2, RowTypes
      <4> QED BY <1>2, <4>1, <4>2, <4>3 DEF MergedRow
    <3> QED BY <1>3, <3>1, <3>2
  <2>2. old.done => Now(h) \in Terminal
    BY <1>2 DEF RowInv
  <2>3. s \in Terminal => Now(h) \in Terminal
    BY <1>1 DEF Now
  <2>4. RowInv(new, h, last2)
    BY <1>1, <2>1, <2>2, <2>3 DEF RowInv
  <2>5. row # None => row.seen <= new.seen
    <3>1. row # None => row.seen \in 0 .. MaxMoves
      BY DEF TaskRowSet
    <3> QED BY <1>0, <1>1, <1>3, <2>1, <3>1 DEF Follows
  <2> QED BY <1>1, <2>1, <2>4, <2>5, NoneIsNoRow DEF Advanced, RowStates
<1>4. ASSUME e.type \notin {"task", "status"}
      PROVE Advanced(row, new, h, last2) /\ new.seen = e.at /\ new # None
  <2>1. row # None /\ row.seen # 0 /\ e.at = row.seen /\ old = row /\ last2 = last
        /\ row \in TaskRowSet
    BY <1>0, <1>2, <1>4 DEF Follows, last2, EventTold
  <2>2. new = MergedRow(row, row.state, row.seen)
    BY <1>4, <2>1 DEF EventRow, new
  <2>3. row.state \in RowStates /\ row.seen \in 0 .. MaxMoves /\ row.done \in BOOLEAN
    BY <2>1 DEF TaskRowSet, RowStates
  <2>4. new \in TaskRowSet /\ new.state = row.state /\ new.seen = row.seen
        /\ new.done = (row.state \in Terminal \/ row.done)
    <3>1. new \in TaskRowSet
      BY <2>1, <2>2, <2>3, RowTypes
    <3> QED BY <2>1, <2>2, <2>3, <3>1 DEF MergedRow
  <2>5. RowInv(new, h, last2) /\ last2 = row.state
    BY <2>1, <2>3, <2>4 DEF RowInv
  <2> QED BY <2>1, <2>3, <2>4, <2>5, NoneIsNoRow DEF Advanced
<1>5. Advanced(row, new, h, last2) /\ new.seen = e.at /\ new # None
  BY <1>3, <1>4
<1> QED BY <1>5 DEF new, last2

\* persist_stream_event: the row and the parts are as of the event.
LEMMA EventEffect ==
  ASSUME StoreInv, StreamEvent
  PROVE /\ MirrorEffect
        /\ rows'[command.task] # None /\ rows'[command.task].seen = wire[1].at
        /\ rows'[command.task].seen # 0
        /\ parts'[command.task] = UpTo(wire[1].chunk)
        /\ wire[1].chunk \in 0 .. chunks[command.task]
<1> DEFINE t == command.task
           e == wire[1]
<1>1. /\ t \in TaskIds /\ wire # <<>> /\ Head(wire) = e /\ e \in WireEvents
      /\ Len(wire) \in Nat /\ 1 \in 1 .. Len(wire) /\ StreamInv(t)
  <2>1. command.kind = "stream" /\ wire # <<>> /\ wire \in Seq(WireEvents)
    BY DEF StreamEvent, StoreInv, TypeInv
  <2>2. t \in TaskIds /\ StreamInv(t)
    BY <2>1, CommandTask DEF StoreInv, WireInv
  <2>3. Len(wire) \in Nat \ {0} /\ Head(wire) = e
    BY <2>1, EmptySeq
  <2>4. 1 \in 1 .. Len(wire)
    BY <2>3
  <2> QED BY <2>1, <2>2, <2>3, <2>4, ElementOfSeq
<1>2. /\ e.at <= Len(remote[t]) /\ e.chunk <= chunks[t] /\ e.chunk \in 0 .. MaxChunks
      /\ Due(rows[t], remote[t], Len(parts[t]), e)
  BY <1>1 DEF StreamInv, WireEvents, Due
<1>3. /\ remote[t] \in Seq(AgentStates) /\ rows[t] \in TaskRowSet \cup {None}
      /\ told[t] \in RowStates \cup {None} /\ parts[t] \in Seq(Nat) /\ chunks[t] \in 0 .. MaxChunks
      /\ History(remote[t]) /\ RowInv(rows[t], remote[t], told[t])
      /\ Len(parts[t]) <= chunks[t] /\ parts[t] = UpTo(Len(parts[t]))
  BY <1>1 DEF StoreInv, TypeInv, TaskInv
<1>4. /\ rows' = [rows EXCEPT ![t] = EventRow(Placeholder(rows[t], "unknown"), e, remote[t][e.at])]
      /\ parts' = [parts EXCEPT ![t] =
           CASE e.type = "task" -> TaskArtifacts(parts[t], e.chunk)
             [] e.type = "artifact" -> MergeIncremental(parts[t], e.chunk)
             [] OTHER -> parts[t]]
      /\ told' = IF e.type \in {"task", "status"} THEN [told EXCEPT ![t] = remote[t][e.at]] ELSE told
      /\ UNCHANGED <<agent, ids>>
  BY <1>1 DEF StreamEvent, EventRow
<1> HIDE DEF t, e
<1>5. /\ rows' = [u \in TaskIds |-> rows'[u]]
      /\ rows'[t] = EventRow(Placeholder(rows[t], "unknown"), e, remote[t][e.at])
      /\ \A u \in TaskIds : u # t => rows'[u] = rows[u]
  BY <1>1, <1>4, Updated DEF StoreInv, TypeInv
<1>6. /\ parts' = [u \in TaskIds |-> parts'[u]]
      /\ \A u \in TaskIds : u # t => parts'[u] = parts[u]
      /\ parts'[t] = CASE e.type = "task" -> TaskArtifacts(parts[t], e.chunk)
                       [] e.type = "artifact" -> MergeIncremental(parts[t], e.chunk)
                       [] OTHER -> parts[t]
  BY <1>1, <1>4, Updated DEF StoreInv, TypeInv
<1>7. /\ told' = [u \in TaskIds |-> told'[u]]
      /\ \A u \in TaskIds : u # t => told'[u] = told[u]
      /\ told'[t] = IF e.type \in {"task", "status"} THEN remote[t][e.at] ELSE told[t]
  BY <1>1, <1>4, Updated, Same DEF StoreInv, TypeInv
<1>8. /\ Advanced(rows[t], rows'[t], remote[t], told'[t])
      /\ rows'[t].seen = e.at /\ rows'[t] # None
  <2>1. e \in WireEvents /\ e.at <= Len(remote[t])
    BY <1>1, <1>2
  <2>2. Due(rows[t], remote[t], Len(parts[t]), e)
    BY <1>2
  <2>3. /\ remote[t] \in Seq(AgentStates) /\ History(remote[t])
        /\ rows[t] \in TaskRowSet \cup {None} /\ told[t] \in RowStates \cup {None}
        /\ RowInv(rows[t], remote[t], told[t])
    BY <1>3
  <2>4. /\ rows'[t] = EventRow(Placeholder(rows[t], "unknown"), e, remote[t][e.at])
        /\ told'[t] = EventTold(told[t], e, remote[t][e.at])
    BY <1>5, <1>7 DEF EventTold
  <2> QED BY ONLY <2>1, <2>2, <2>3, <2>4, EventAdvances
<1>9. parts'[t] = UpTo(e.chunk)
  <2>1. Len(parts[t]) \in Nat /\ e.chunk \in Nat
    BY <1>2, <1>3, LenProperties
  <2>2. CASE e.type = "task"
    <3>1. e.chunk = 0 => Len(parts[t]) = 0
      BY <1>2, <2>1, <2>2 DEF Due
    <3> QED BY <1>3, <1>6, <2>2, <3>1 DEF TaskArtifacts
  <2>3. CASE e.type = "artifact"
    <3>1. e.chunk = Len(parts[t]) + 1
      BY <1>2, <2>3 DEF Follows, Due
    <3>2. parts'[t] = Append(parts[t], Len(parts[t]) + 1)
      BY <1>6, <2>3, <3>1 DEF MergeIncremental
    <3> QED BY <1>3, <2>1, <3>1, <3>2, UpToProperties
  <2>4. CASE e.type \notin {"task", "artifact"}
    <3>1. e.chunk = Len(parts[t])
      BY <1>2, <2>4 DEF Follows, Due
    <3>2. parts'[t] = parts[t]
      BY <1>6, <2>4
    <3> QED BY <1>3, <3>1, <3>2
  <2> QED BY <2>2, <2>3, <2>4
<1>10. e.chunk \in 0 .. chunks[t]
  BY <1>2, <1>3
<1>11. \A u \in TaskIds : RowStep(rows[u], rows'[u], remote'[u], told[u], told'[u])
  <2>1. RowStep(rows[t], rows'[t], remote'[t], told[t], told'[t])
    BY <1>4, <1>8 DEF RowStep, agent
  <2> QED BY <1>5, <1>7, <2>1 DEF RowStep
<1>12. \A u \in TaskIds : PartStep(parts[u], parts'[u], chunks'[u])
  <2>1. PartStep(parts[t], parts'[t], chunks'[t])
    BY <1>4, <1>9, <1>10 DEF PartStep, agent
  <2> QED BY <1>6, <2>1 DEF PartStep
<1>13. MirrorEffect
  BY <1>4, <1>5, <1>6, <1>7, <1>11, <1>12 DEF MirrorEffect
<1>14. rows'[t].seen # 0
  BY <1>8 DEF Advanced
<1> QED BY <1>8, <1>9, <1>10, <1>13, <1>14 DEF t, e

----------------------------------------------------------------------------
(* Every action.                                                           *)

LEMMA AgentActions ==
  ASSUME StoreInv, NEW t \in TaskIds,
         AgentMoves(t) \/ AgentProduces(t) \/ AgentSpeaks(t) \/ GatewaySends(t)
  PROVE AgentEffect /\ MirrorEffect /\ polled' = polled
<1> USE DEF StoreInv
<1>1. CASE AgentMoves(t)
  <2>1. PICK s \in AgentStates : remote' = [remote EXCEPT ![t] = Append(remote[t], s)]
    BY <1>1 DEF AgentMoves
  <2>2. Grown(remote[t], Append(remote[t], s)) /\ chunks' = chunks
    BY <1>1 DEF AgentMoves, Grown
  <2> QED BY <1>1, <2>1, <2>2, AgentGoesTo, MirrorStays DEF AgentMoves
<1>2. CASE AgentProduces(t)
  <2>1. /\ chunks' = [chunks EXCEPT ![t] = chunks[t] + 1] /\ chunks[t] < MaxChunks
        /\ remote' = remote
    BY <1>2 DEF AgentProduces
  <2>2. /\ chunks' = [u \in TaskIds |-> chunks'[u]] /\ chunks'[t] = chunks[t] + 1
        /\ \A u \in TaskIds : u # t => chunks'[u] = chunks[u]
    BY <2>1, Updated DEF TypeInv
  <2>3. remote = [u \in TaskIds |-> remote[u]]
    BY Same DEF TypeInv
  <2>4. AgentEffect
    BY <2>1, <2>2, <2>3 DEF AgentEffect, Grown, ChunkStep
  <2> QED BY <1>2, <2>4, MirrorStays DEF AgentProduces
<1>3. CASE AgentSpeaks(t)
  BY <1>3, AgentStays, MirrorStays DEF AgentSpeaks
<1>4. CASE GatewaySends(t)
  <2>1. Accepted(t) = <<"working">> /\ remote[t] \in Seq(AgentStates)
    BY <1>4 DEF GatewaySends, Accepted, TypeInv
  <2>2. Grown(remote[t], Accepted(t))
    BY <2>1, AcceptedGrows DEF TypeInv
  <2> QED BY <1>4, <2>1, <2>2, AgentGoesTo, MirrorStays DEF GatewaySends
<1> QED BY <1>1, <1>2, <1>3, <1>4

LEMMA SendEffect ==
  ASSUME StoreInv, NEW t \in TaskIds, Send(t)
  PROVE AgentEffect /\ MirrorEffect /\ polled' = polled
<1> USE DEF StoreInv
<1>1. polled' = polled
  BY DEF Send
<1>2. CASE UNCHANGED <<agent, mirror>>
  BY <1>1, <1>2, AgentStays, MirrorStays
<1>3. ASSUME remote' = [remote EXCEPT ![t] = Accepted(t)], chunks' = chunks,
             \/ \E message \in BOOLEAN : SendTaskResponse(t, Accepted(t), message)
             \/ SendMessageResponse(t)
             \/ UNCHANGED mirror
      PROVE AgentEffect /\ MirrorEffect
  <2>1. Grown(remote[t], Accepted(t)) /\ Accepted(t) # <<>>
    BY AcceptedGrows DEF TypeInv
  <2>2. AgentEffect /\ remote'[t] = Accepted(t)
    BY <1>3, <2>1, AgentGoesTo
  <2>3. CASE UNCHANGED mirror
    BY <2>2, <2>3, MirrorStays
  <2>4. CASE SendMessageResponse(t)
    <3>1. /\ rows' = [rows EXCEPT ![t] = Placeholder(rows[t], "submitted")]
          /\ UNCHANGED <<parts, told, ids>>
      BY <2>4 DEF SendMessageResponse
    <3> QED BY <2>2, <3>1, RowIsWritten
  <2>5. ASSUME NEW message \in BOOLEAN, SendTaskResponse(t, Accepted(t), message), ~UNCHANGED mirror
        PROVE MirrorEffect
    <3>1. /\ rows' = [rows EXCEPT ![t] = FreshRow(Accepted(t))]
          /\ parts' = [parts EXCEPT ![t] = TaskArtifacts(@, chunks[t])]
          /\ told' = [told EXCEPT ![t] = Now(Accepted(t))]
          /\ ids' \subseteq ids \cup {<<t, Len(Accepted(t))>>}
      BY <2>5 DEF SendTaskResponse
    <3> QED BY <1>3, <2>1, <2>2, <3>1, SnapshotWritten
  <2> QED BY <1>3, <2>2, <2>3, <2>4, <2>5
<1> QED BY <1>1, <1>2, <1>3 DEF Send, IdCollides

LEMMA PersistEffect ==
  ASSUME StoreInv, NEW t \in TaskIds, NEW h, h # <<>>, PersistRemoteTask(t, h), remote'[t] = h,
         chunks' = chunks
  PROVE MirrorEffect
<1>1. /\ rows' = [rows EXCEPT ![t] = FreshRow(h)]
      /\ parts' = [parts EXCEPT ![t] = TaskArtifacts(@, chunks[t])]
      /\ told' = [told EXCEPT ![t] = Now(h)] \/ (told' = told /\ ~Changed(rows[t], h))
      /\ ids' \subseteq ids \cup {<<t, Len(h)>>}
  BY DEF PersistRemoteTask
<1> QED BY <1>1, SnapshotWritten DEF StoreInv

LEMMA StreamEffect ==
  ASSUME StoreInv,
         \/ \E t \in TaskIds : \E requested \in BOOLEAN : StreamRequest(t, requested)
         \/ StreamOpens \/ StreamEvent \/ StreamEnds \/ StreamBreaks
  PROVE AgentEffect /\ MirrorEffect /\ polled' = polled
<1> USE DEF StoreInv
<1>1. ASSUME NEW t \in TaskIds, NEW requested \in BOOLEAN, StreamRequest(t, requested)
      PROVE AgentEffect /\ MirrorEffect /\ polled' = polled
  <2>1. UNCHANGED agent /\ UNCHANGED <<parts, told, ids>> /\ polled' = polled
    BY <1>1 DEF StreamRequest
  <2>2. CASE requested
    <3>1. rows' = [rows EXCEPT ![t] = MergedRow(rows[t], "submitted", 0)]
      BY <1>1, <2>2 DEF StreamRequest
    <3> QED BY <2>1, <3>1, AgentStays, RowIsWritten
  <2>3. CASE ~requested
    <3>1. rows' = rows
      BY <1>1, <2>3 DEF StreamRequest
    <3> QED BY <2>1, <3>1, AgentStays, MirrorStays DEF mirror
  <2> QED BY <2>2, <2>3
<1>2. CASE StreamOpens
  <2>1. command.kind = "opening" /\ command.task \in TaskIds
    BY <1>2, CommandTask DEF StreamOpens
  <2>2. Grown(remote[command.task], Accepted(command.task))
    BY <2>1, AcceptedGrows DEF TypeInv
  <2> QED BY <1>2, <2>1, <2>2, AgentGoesTo, MirrorStays DEF StreamOpens
<1>3. CASE StreamEvent
  BY <1>3, EventEffect, AgentStays DEF StreamEvent
<1>4. CASE StreamEnds \/ StreamBreaks
  BY <1>4, AgentStays, MirrorStays DEF StreamEnds, StreamBreaks
<1> QED BY <1>1, <1>2, <1>3, <1>4

LEMMA ListEffect ==
  ASSUME StoreInv, TaskListRemote
  PROVE AgentEffect /\ MirrorEffect /\ polled' = polled
<1> USE DEF StoreInv
<1>1. PICK S \in SUBSET {t \in TaskIds : Known(t)} :
        /\ rows' = [t \in TaskIds |-> IF t \in S THEN FreshRow(remote[t]) ELSE rows[t]]
        /\ parts' = [t \in TaskIds |-> IF t \in S THEN TaskArtifacts(parts[t], chunks[t])
                                       ELSE parts[t]]
        /\ told' = [t \in TaskIds |-> IF t \in S /\ Changed(rows[t], remote[t])
                                      THEN Now(remote[t]) ELSE told[t]]
  BY DEF TaskListRemote
<1>2. UNCHANGED <<agent, ids, polled>> /\ remote' = remote /\ chunks' = chunks
  BY DEF TaskListRemote, agent
<1>3. AgentEffect
  BY <1>2, AgentStays
<1>4. ASSUME NEW u \in TaskIds
      PROVE /\ RowStep(rows[u], rows'[u], remote'[u], told[u], told'[u])
            /\ PartStep(parts[u], parts'[u], chunks'[u])
  <2>1. CASE u \in S
    <3>1. /\ remote[u] # <<>> /\ rows'[u] = FreshRow(remote[u])
          /\ told'[u] = Now(remote[u]) \/ (told'[u] = told[u] /\ ~Changed(rows[u], remote[u]))
      BY <1>1, <2>1 DEF Known
    <3>2. parts'[u] = TaskArtifacts(parts[u], chunks[u]) /\ chunks[u] \in 0 .. chunks[u]
      BY <1>1, <2>1 DEF TypeInv
    <3> QED BY <1>2, <3>1, <3>2 DEF RowStep, PartStep, TaskArtifacts
  <2>2. CASE u \notin S
    BY <1>1, <2>2 DEF RowStep, PartStep
  <2> QED BY <2>1, <2>2
<1>5. /\ rows' = [u \in TaskIds |-> rows'[u]] /\ parts' = [u \in TaskIds |-> parts'[u]]
      /\ told' = [u \in TaskIds |-> told'[u]]
  BY <1>1
<1> QED BY <1>2, <1>3, <1>4, <1>5 DEF MirrorEffect

LEMMA TaskEffect ==
  ASSUME StoreInv,
         \/ \E t \in TaskIds : \/ TaskGetRemote(t) \/ TaskGetLocal(t) \/ TaskCancel(t)
                               \/ \E local \in BOOLEAN : TaskWait(t, local)
         \/ WaitPolls \/ WaitPollsLocal
  PROVE AgentEffect /\ MirrorEffect /\ polled' = polled
<1> USE DEF StoreInv
<1>1. ASSUME NEW t \in TaskIds, TaskGetRemote(t) \/ TaskGetLocal(t)
      PROVE AgentEffect /\ MirrorEffect /\ polled' = polled
  <2>1. UNCHANGED agent /\ remote' = remote /\ chunks' = chunks /\ polled' = polled
    BY <1>1 DEF TaskGetRemote, TaskGetLocal, agent
  <2>2. UNCHANGED mirror \/ (remote[t] # <<>> /\ PersistRemoteTask(t, remote[t]))
    BY <1>1 DEF TaskGetRemote, TaskGetLocal, Known
  <2> QED BY <2>1, <2>2, AgentStays, MirrorStays, PersistEffect
<1>2. ASSUME NEW t \in TaskIds, TaskCancel(t)
      PROVE AgentEffect /\ MirrorEffect /\ polled' = polled
  <2>1. PICK h : /\ remote' = [remote EXCEPT ![t] = h] /\ PersistRemoteTask(t, h)
                 /\ \/ h = remote[t]
                    \/ /\ h = Append(remote[t], "cancelled") /\ Now(remote[t]) \notin Terminal
                       /\ Len(remote[t]) # MaxMoves
    BY <1>2 DEF TaskCancel
  <2>2. /\ remote[t] # <<>> /\ chunks' = chunks /\ polled' = polled
        /\ remote[t] \in Seq(AgentStates) /\ History(remote[t])
    BY <1>2 DEF TaskCancel, Known, TypeInv, TaskInv
  <2>3. Grown(remote[t], h) /\ h # <<>>
    <3>1. "cancelled" \in AgentStates
      BY DEF AgentStates
    <3>2. Len(remote[t]) # MaxMoves => Len(remote[t]) < MaxMoves
      BY <2>2, LenProperties, CommandBounds DEF History
    <3> QED BY <2>1, <2>2, <3>1, <3>2, AppendProperties DEF Grown
  <2>4. AgentEffect /\ remote'[t] = h
    BY <2>1, <2>2, <2>3, AgentGoesTo
  <2> QED BY <2>1, <2>2, <2>3, <2>4, PersistEffect
<1>3. ASSUME NEW t \in TaskIds, NEW local \in BOOLEAN, TaskWait(t, local)
      PROVE AgentEffect /\ MirrorEffect /\ polled' = polled
  BY <1>3, AgentStays, MirrorStays DEF TaskWait
<1>4. CASE WaitPolls
  <2>1. command.task \in TaskIds
    BY <1>4, CommandTask DEF WaitPolls
  <2>2. UNCHANGED agent /\ remote' = remote /\ chunks' = chunks /\ polled' = polled
    BY <1>4 DEF WaitPolls, agent
  <2>3. \/ UNCHANGED mirror
        \/ remote[command.task] # <<>> /\ PersistRemoteTask(command.task, remote[command.task])
    BY <1>4 DEF WaitPolls, Known
  <2> QED BY <2>1, <2>2, <2>3, AgentStays, MirrorStays, PersistEffect
<1>5. CASE WaitPollsLocal
  BY <1>5, AgentStays, MirrorStays DEF WaitPollsLocal
<1> QED BY <1>1, <1>2, <1>3, <1>4, <1>5

\* Every step is a command's, or a gateway reads or writes.
LEMMA StepEffect ==
  ASSUME StoreInv, TaskNext
  PROVE /\ AgentEffect
        /\ \/ MirrorEffect /\ polled' = polled
           \/ \E t \in TaskIds : GatewayPolls(t) \/ GatewayWrote(t)
<1>1. ASSUME NEW t \in TaskIds, GatewayPolls(t) \/ GatewayWrote(t)
      PROVE AgentEffect
  BY <1>1, AgentStays DEF GatewayPolls, GatewayWrote, GatewayPersists, StoreInv
<1> QED
  BY <1>1, AgentActions, SendEffect, StreamEffect, ListEffect, TaskEffect DEF TaskNext, GatewayWrote

----------------------------------------------------------------------------
(* The invariant is kept.                                                  *)

Sound(row, h, last) ==
  /\ row \in TaskRowSet \cup {None} /\ last \in RowStates \cup {None}
  /\ h \in Seq(AgentStates) /\ History(h) /\ RowInv(row, h, last)

LEMMA RowStepSound ==
  ASSUME NEW h, NEW k, NEW row, NEW row2, NEW last, NEW last2,
         Sound(row, h, last), Grown(h, k), RowStep(row, row2, k, last, last2)
  PROVE Sound(row2, k, last2)
<1>0. /\ row \in TaskRowSet \cup {None} /\ last \in RowStates \cup {None}
      /\ h \in Seq(AgentStates) /\ History(h) /\ RowInv(row, h, last)
  BY DEF Sound
<1> SUFFICES /\ row2 \in TaskRowSet \cup {None} /\ last2 \in RowStates \cup {None}
             /\ RowInv(row2, k, last2)
  BY <1>0, GrownKeeps DEF Sound
<1>1. /\ k \in Seq(AgentStates) /\ History(k)
      /\ Len(h) \in Nat /\ Len(k) \in {Len(h), Len(h) + 1}
      /\ \A i \in 1 .. Len(h) : k[i] = h[i]
      /\ h # <<>> /\ Now(h) \in Terminal => k = h
  BY <1>0, GrownKeeps
<1>2. row # None => row \in TaskRowSet /\ row.seen \in Nat
  BY <1>0 DEF TaskRowSet
<1>3. CASE row2 = row /\ last2 = last
  <2>1. RowInv(row, k, last)
    <3> SUFFICES ASSUME row # None
                 PROVE /\ row.seen <= Len(k)
                       /\ row.seen = 0 => row.state \in {"submitted", "unknown"}
                       /\ row.seen # 0 => row.state = k[row.seen] /\ last = row.state
                       /\ row.state \in Terminal => row.done
                       /\ row.done => k # <<>> /\ Now(k) \in Terminal
      BY DEF RowInv
    <3>1. row.seen <= Len(h) /\ row.seen \in Nat
      BY <1>0, <1>2 DEF RowInv
    <3>2. row.seen <= Len(k)
      BY <1>1, <3>1
    <3>3. row.seen # 0 => row.seen \in 1 .. Len(h)
      BY <1>1, <3>1
    <3> QED BY <1>0, <1>1, <3>2, <3>3 DEF RowInv
  <2> QED BY <1>0, <1>3, <2>1
<1>4. CASE /\ k # <<>> /\ row2 = FreshRow(k)
           /\ last2 = Now(k) \/ (last2 = last /\ ~Changed(row, k))
  <2>1. /\ FreshRow(k) \in TaskRowSet /\ RowInv(FreshRow(k), k, Now(k)) /\ Now(k) \in AgentStates
    BY <1>1, <1>4, FreshRowSound
  <2>2. ~Changed(row, k) => last = Now(k)
    BY <1>0, <2>1 DEF Changed, RowInv, AgentStates
  <2> QED BY <1>0, <1>4, <2>1, <2>2 DEF RowStates
<1>5. CASE row = None /\ row2 = Placeholder(None, "submitted") /\ last2 = last
  <2>1. "submitted" \in RowStates /\ 0 \in 0 .. MaxMoves /\ None \in TaskRowSet \cup {None}
    BY CommandBounds DEF RowStates
  <2>2. row2 \in TaskRowSet
    BY <1>5, <2>1, RowTypes
  <2>3. row2.seen = 0 /\ row2.state = "submitted" /\ row2.done = FALSE /\ 0 <= Len(k)
    BY <1>1, <1>5 DEF Placeholder
  <2> QED BY <1>0, <1>5, <2>2, <2>3 DEF RowInv, Terminal
<1>6. CASE row2 = MergedRow(row, "submitted", 0) /\ last2 = last
  <2>1. "submitted" \in RowStates /\ 0 \in 0 .. MaxMoves
    BY CommandBounds DEF RowStates
  <2>2. row2 \in TaskRowSet
    BY <1>0, <1>6, <2>1, RowTypes
  <2>3. row2.seen = 0 /\ row2.state = "submitted" /\ 0 <= Len(k)
    BY <1>1, <1>6 DEF MergedRow
  <2>4. row2.done => row # None /\ row.done
    BY <1>6 DEF MergedRow, Terminal
  <2>5. row2.done => k # <<>> /\ Now(k) \in Terminal
    BY <1>0, <1>1, <2>4 DEF RowInv
  <2> QED BY <1>0, <1>6, <2>2, <2>3, <2>5 DEF RowInv, Terminal
<1>7. CASE Advanced(row, row2, k, last2)
  BY <1>7 DEF Advanced
<1> QED BY <1>3, <1>4, <1>5, <1>6, <1>7 DEF RowStep

LEMMA PartStepSound ==
  ASSUME NEW p \in Seq(Nat), NEW c \in 0 .. MaxChunks, Len(p) <= c, p = UpTo(Len(p)),
         NEW c2, ChunkStep(c, c2), NEW p2, PartStep(p, p2, c2)
  PROVE /\ p2 \in Seq(Nat) /\ c2 \in 0 .. MaxChunks
        /\ Len(p2) <= c2 /\ p2 = UpTo(Len(p2))
<1>1. c2 \in 0 .. MaxChunks /\ c <= c2 /\ Len(p) \in Nat
  BY CommandBounds, LenProperties DEF ChunkStep
<1>2. CASE p2 = p
  BY <1>1, <1>2
<1>3. ASSUME NEW n \in 0 .. c2, p2 = UpTo(n) PROVE p2 \in Seq(Nat) /\ Len(p2) = n
  BY <1>1, <1>3, UpToProperties
<1> QED BY <1>1, <1>2, <1>3 DEF PartStep

\* GatewayRow, by what it keeps of the row it is given.
LEMMA GatewayRowIs ==
  ASSUME NEW old \in TaskRowSet \cup {None}, NEW h, Len(h) \in 0 .. MaxMoves,
         Now(h) \in AgentStates, NEW form \in Forms
  PROVE /\ GatewayRow(old, h, form) \in TaskRowSet
        /\ GatewayRow(old, h, form).state = Now(h) /\ GatewayRow(old, h, form).seen = Len(h)
        /\ Now(h) \in Terminal => GatewayRow(old, h, form).done
        /\ GatewayRow(old, h, form).done => Now(h) \in Terminal \/ (old # None /\ old.done)
<1> DEFINE s == Now(h)
           n == Len(h)
<1>1. s \in RowStates /\ s \in AgentStates /\ n \in 0 .. MaxMoves
  BY DEF RowStates
<1>2. CASE form = "replace"
  <2>1. GatewayRow(old, h, form) = FreshRow(h)
    BY <1>2 DEF GatewayRow
  <2>2. FreshRow(h) \in TaskRowSet
    BY <1>1 DEF FreshRow, TaskRowSet
  <2>3. /\ FreshRow(h).state = s /\ FreshRow(h).seen = n
        /\ FreshRow(h).done = (s \in Terminal)
    BY DEF FreshRow
  <2> HIDE DEF s, n
  <2>4. /\ GatewayRow(old, h, form) \in TaskRowSet
        /\ GatewayRow(old, h, form).state = s /\ GatewayRow(old, h, form).seen = n
        /\ s \in Terminal => GatewayRow(old, h, form).done
        /\ GatewayRow(old, h, form).done => s \in Terminal
    BY <2>1, <2>2, <2>3
  <2> QED BY <2>4 DEF s, n
<1>3. CASE form = "status"
  <2>1. GatewayRow(old, h, form) = MergedRow(old, s, n)
    BY <1>3 DEF GatewayRow
  <2>2. MergedRow(old, s, n) \in TaskRowSet
    BY <1>1, RowTypes
  <2>3. /\ MergedRow(old, s, n).state = s /\ MergedRow(old, s, n).seen = n
        /\ MergedRow(old, s, n).done = (s \in Terminal \/ (old # None /\ old.done))
    BY DEF MergedRow
  <2> HIDE DEF s, n
  <2>4. /\ GatewayRow(old, h, form) \in TaskRowSet
        /\ GatewayRow(old, h, form).state = s /\ GatewayRow(old, h, form).seen = n
        /\ s \in Terminal => GatewayRow(old, h, form).done
        /\ GatewayRow(old, h, form).done => s \in Terminal \/ (old # None /\ old.done)
    BY <2>1, <2>2, <2>3
  <2> QED BY <2>4 DEF s, n
<1>4. CASE form = "task"
  <2>1. GatewayRow(old, h, form) = [MergedRow(old, s, n) EXCEPT !.json = n]
    BY <1>4 DEF GatewayRow
  <2> HIDE DEF s, n
  <2>2. [MergedRow(old, s, n) EXCEPT !.json = n] \in TaskRowSet
    BY <1>1, RowTypes
  <2>3. /\ GatewayRow(old, h, form).state = s /\ GatewayRow(old, h, form).seen = n
        /\ GatewayRow(old, h, form).done = MergedRow(old, s, n).done
    BY <2>1 DEF MergedRow
  <2>4. MergedRow(old, s, n).done = (s \in Terminal \/ (old # None /\ old.done))
    BY DEF MergedRow
  <2> QED BY <2>1, <2>2, <2>3, <2>4 DEF s, n
<1> QED BY <1>2, <1>3, <1>4 DEF Forms

\* The answer a gateway writes back is one the agent has given.
LEMMA AnswerSound ==
  ASSUME StoreInv, NEW t \in TaskIds, GatewayWrote(t)
  PROVE /\ rows' = [u \in TaskIds |-> rows'[u]] /\ told' = [u \in TaskIds |-> told'[u]]
        /\ \A u \in TaskIds : u # t => rows'[u] = rows[u] /\ told'[u] = told[u]
        /\ rows'[t] \in TaskRowSet /\ rows'[t] # None /\ told'[t] \in RowStates
        /\ RowInv(rows'[t], remote[t], told'[t])
        /\ rows'[t].seen = polled[t] /\ rows'[t].state = remote[t][polled[t]]
        /\ polled[t] \in 1 .. Len(remote[t])
<1>0. PICK form \in Forms : GatewayPersists(t, form)
  BY DEF GatewayWrote
<1> DEFINE h == SubSeq(remote[t], 1, polled[t])
           row == GatewayRow(rows[t], h, form)
<1>1. /\ rows' = [rows EXCEPT ![t] = row] /\ told' = [told EXCEPT ![t] = Now(h)]
      /\ polled[t] # 0
  BY <1>0 DEF GatewayPersists
<1>2. /\ remote[t] \in Seq(AgentStates) /\ History(remote[t]) /\ polled[t] \in 0 .. MaxMoves
      /\ polled[t] <= Len(remote[t]) /\ Len(remote[t]) \in Nat
      /\ rows[t] \in TaskRowSet \cup {None} /\ RowInv(rows[t], remote[t], told[t])
  BY LenProperties DEF StoreInv, TypeInv, TaskInv
<1>3. polled[t] \in 1 .. Len(remote[t]) /\ polled[t] \in 0 .. MaxMoves /\ Len(remote[t]) # 0
  BY <1>1, <1>2
<1>4. Len(h) = polled[t] /\ h[polled[t]] = remote[t][polled[t]] /\ Now(h) = remote[t][polled[t]]
  <2>1. \A i \in 1 .. polled[t] : remote[t][i] \in AgentStates
    BY <1>2, <1>3, ElementOfSeq
  <2>2. polled[t] \in Nat /\ polled[t] \in 1 .. polled[t]
    BY <1>3
  <2>3. Len(h) = polled[t] /\ h[polled[t]] = remote[t][polled[t]]
    <3>1. /\ Len(h) = (IF 1 <= polled[t] THEN polled[t] - 1 + 1 ELSE 0)
          /\ \A i \in 1 .. polled[t] - 1 + 1 : h[i] = remote[t][1 + i - 1]
      BY <1>2, <1>3, <2>1, SubSeqProperties
    <3>2. 1 + polled[t] - 1 = polled[t] /\ polled[t] - 1 + 1 = polled[t] /\ 1 <= polled[t]
      BY <1>3
    <3> QED BY <2>2, <3>1, <3>2
  <2> QED BY <2>3 DEF Now
<1> HIDE DEF h, row
<1>5. /\ row.state = remote[t][polled[t]] /\ row.seen = polled[t]
      /\ row \in TaskRowSet /\ remote[t][polled[t]] \in AgentStates
      /\ remote[t][polled[t]] \in Terminal => row.done
      /\ row.done => remote[t][polled[t]] \in Terminal \/ (rows[t] # None /\ rows[t].done)
  <2>1. remote[t][polled[t]] \in AgentStates
    BY <1>2, <1>3, ElementOfSeq
  <2>2. Len(h) \in 0 .. MaxMoves /\ Now(h) \in AgentStates
    BY <1>3, <1>4, <2>1
  <2>3. /\ row \in TaskRowSet /\ row.state = Now(h) /\ row.seen = Len(h)
        /\ Now(h) \in Terminal => row.done
        /\ row.done => Now(h) \in Terminal \/ (rows[t] # None /\ rows[t].done)
    BY ONLY <1>0, <1>2, <2>2, GatewayRowIs DEF row
  <2> QED BY ONLY <1>4, <2>1, <2>3
<1>6. RowInv(row, remote[t], Now(h))
  <2>1. remote[t][polled[t]] \in Terminal => Now(remote[t]) \in Terminal /\ remote[t] # <<>>
    BY <1>2, <1>3, EmptySeq DEF History, Now
  <2>2. row.done => Now(remote[t]) \in Terminal /\ remote[t] # <<>>
    BY <1>2, <1>5, <2>1 DEF RowInv
  <2>3. polled[t] <= Len(remote[t]) /\ polled[t] # 0
    BY <1>1, <1>2
  <2> QED BY <1>4, <1>5, <2>2, <2>3 DEF RowInv
<1>7. /\ rows' = [u \in TaskIds |-> rows'[u]] /\ rows'[t] = row
      /\ \A u \in TaskIds : u # t => rows'[u] = rows[u]
  BY <1>1, Updated DEF StoreInv, TypeInv
<1>8. /\ told' = [u \in TaskIds |-> told'[u]] /\ told'[t] = Now(h)
      /\ \A u \in TaskIds : u # t => told'[u] = told[u]
  BY <1>1, Updated DEF StoreInv, TypeInv
<1> QED BY <1>3, <1>4, <1>5, <1>6, <1>7, <1>8, NoneIsNoRow DEF RowStates

\* The tasks, their rows, parts and events.
LEMMA TasksKept ==
  ASSUME StoreInv, TaskNext
  PROVE /\ remote' \in [TaskIds -> Seq(AgentStates)]
        /\ chunks' \in [TaskIds -> 0 .. MaxChunks]
        /\ rows' \in [TaskIds -> TaskRowSet \cup {None}]
        /\ parts' \in [TaskIds -> Seq(Nat)]
        /\ told' \in [TaskIds -> RowStates \cup {None}]
        /\ ids' \subseteq TaskIds \X (1 .. MaxMoves)
        /\ polled' \in [TaskIds -> 0 .. MaxMoves]
        /\ \A t \in TaskIds : TaskInv(t)'
<1>1. /\ AgentEffect
      /\ \/ MirrorEffect /\ polled' = polled
         \/ \E t \in TaskIds : GatewayPolls(t) \/ GatewayWrote(t)
  BY StepEffect
<1>2. \A u \in TaskIds :
        /\ remote[u] \in Seq(AgentStates) /\ History(remote[u]) /\ chunks[u] \in 0 .. MaxChunks
        /\ rows[u] \in TaskRowSet \cup {None} /\ told[u] \in RowStates \cup {None}
        /\ parts[u] \in Seq(Nat) /\ polled[u] \in 0 .. MaxMoves
        /\ RowInv(rows[u], remote[u], told[u])
        /\ Len(parts[u]) <= chunks[u] /\ parts[u] = UpTo(Len(parts[u]))
        /\ polled[u] <= Len(remote[u]) /\ Len(remote[u]) \in Nat /\ Len(remote[u]) <= MaxMoves
        /\ \A i \in 1 .. MaxMoves : <<u, i>> \in ids => i <= Len(remote[u])
  BY LenProperties DEF StoreInv, TypeInv, TaskInv, History
<1>3. \A u \in TaskIds :
        /\ Grown(remote[u], remote'[u]) /\ ChunkStep(chunks[u], chunks'[u])
        /\ remote'[u] \in Seq(AgentStates) /\ History(remote'[u])
        /\ Len(remote'[u]) \in {Len(remote[u]), Len(remote[u]) + 1}
        /\ Len(remote'[u]) \in Nat /\ Len(remote'[u]) <= MaxMoves
        /\ chunks'[u] \in 0 .. MaxChunks
  <2> SUFFICES ASSUME NEW u \in TaskIds
               PROVE /\ Grown(remote[u], remote'[u]) /\ ChunkStep(chunks[u], chunks'[u])
                     /\ remote'[u] \in Seq(AgentStates) /\ History(remote'[u])
                     /\ Len(remote'[u]) \in {Len(remote[u]), Len(remote[u]) + 1}
                     /\ Len(remote'[u]) \in Nat /\ Len(remote'[u]) <= MaxMoves
                     /\ chunks'[u] \in 0 .. MaxChunks
    OBVIOUS
  <2>1. Grown(remote[u], remote'[u]) /\ ChunkStep(chunks[u], chunks'[u])
    BY <1>1 DEF AgentEffect
  <2>2. /\ remote'[u] \in Seq(AgentStates) /\ History(remote'[u])
        /\ Len(remote'[u]) \in {Len(remote[u]), Len(remote[u]) + 1}
    BY <1>2, <2>1, GrownKeeps
  <2>3. Len(remote'[u]) \in Nat /\ Len(remote'[u]) <= MaxMoves
    BY <2>2, LenProperties DEF History
  <2>4. chunks'[u] \in 0 .. MaxChunks
    BY <1>2, <2>1, CommandBounds DEF ChunkStep
  <2> QED BY <2>1, <2>2, <2>3, <2>4
<1>4. remote' \in [TaskIds -> Seq(AgentStates)] /\ chunks' \in [TaskIds -> 0 .. MaxChunks]
  BY <1>1, <1>3 DEF AgentEffect
<1>5. /\ rows' = [u \in TaskIds |-> rows'[u]] /\ told' = [u \in TaskIds |-> told'[u]]
      /\ \A u \in TaskIds : /\ rows'[u] \in TaskRowSet \cup {None} /\ told'[u] \in RowStates \cup {None}
                            /\ RowInv(rows'[u], remote'[u], told'[u])
  <2>1. CASE MirrorEffect
    <3>1. \A u \in TaskIds : RowStep(rows[u], rows'[u], remote'[u], told[u], told'[u])
      BY <2>1 DEF MirrorEffect
    <3>2. \A u \in TaskIds : /\ rows'[u] \in TaskRowSet \cup {None}
                            /\ told'[u] \in RowStates \cup {None}
                            /\ RowInv(rows'[u], remote'[u], told'[u])
      <4> SUFFICES ASSUME NEW u \in TaskIds
                   PROVE /\ rows'[u] \in TaskRowSet \cup {None}
                         /\ told'[u] \in RowStates \cup {None}
                         /\ RowInv(rows'[u], remote'[u], told'[u])
        OBVIOUS
      <4>1. /\ Sound(rows[u], remote[u], told[u]) /\ Grown(remote[u], remote'[u])
            /\ RowStep(rows[u], rows'[u], remote'[u], told[u], told'[u])
        BY <1>2, <1>3, <3>1 DEF Sound
      <4>2. Sound(rows'[u], remote'[u], told'[u])
        BY ONLY <4>1, RowStepSound
      <4> QED BY <4>2 DEF Sound
    <3> QED BY <2>1, <3>2 DEF MirrorEffect
  <2>2. ASSUME NEW t \in TaskIds, GatewayPolls(t) PROVE MirrorEffect
    BY <2>2, MirrorStays DEF GatewayPolls, StoreInv
  <2>3. ASSUME NEW t \in TaskIds, GatewayWrote(t)
        PROVE /\ rows' = [u \in TaskIds |-> rows'[u]] /\ told' = [u \in TaskIds |-> told'[u]]
              /\ \A u \in TaskIds : /\ rows'[u] \in TaskRowSet \cup {None}
                                    /\ told'[u] \in RowStates \cup {None}
                                    /\ RowInv(rows'[u], remote'[u], told'[u])
    <3>1. remote' = remote
      BY <2>3 DEF GatewayWrote, GatewayPersists, agent
    <3> QED BY <1>2, <2>3, <3>1, AnswerSound
  <2> QED BY <1>1, <2>1, <2>2, <2>3
<1>6. rows' \in [TaskIds -> TaskRowSet \cup {None}] /\ told' \in [TaskIds -> RowStates \cup {None}]
  BY <1>5
<1>7. /\ parts' = [u \in TaskIds |-> parts'[u]]
      /\ \A u \in TaskIds : PartStep(parts[u], parts'[u], chunks'[u])
  <2>1. CASE \E t \in TaskIds : GatewayPolls(t) \/ GatewayWrote(t)
    <3>1. parts' = parts
      BY <2>1 DEF GatewayPolls, GatewayWrote, GatewayPersists, mirror
    <3> QED BY <3>1, Same DEF PartStep, StoreInv, TypeInv
  <2> QED BY <1>1, <2>1 DEF MirrorEffect
<1>8. \A u \in TaskIds : /\ parts'[u] \in Seq(Nat) /\ Len(parts'[u]) <= chunks'[u]
                        /\ parts'[u] = UpTo(Len(parts'[u]))
  BY <1>2, <1>3, <1>7, PartStepSound
<1>9. parts' \in [TaskIds -> Seq(Nat)]
  BY <1>7, <1>8
<1>10. /\ polled' \in [TaskIds -> 0 .. MaxMoves]
       /\ \A u \in TaskIds : polled'[u] <= Len(remote'[u])
  <2>1. polled \in [TaskIds -> 0 .. MaxMoves]
    BY DEF StoreInv, TypeInv
  <2>2. CASE polled' = polled
    BY <1>2, <1>3, <2>1, <2>2
  <2>3. ASSUME NEW t \in TaskIds, NEW n \in {0, Len(remote[t])}, polled' = [polled EXCEPT ![t] = n]
        PROVE /\ polled' \in [TaskIds -> 0 .. MaxMoves]
              /\ \A u \in TaskIds : polled'[u] <= Len(remote'[u])
    <3>1. n \in 0 .. MaxMoves /\ n <= Len(remote'[t])
      BY <1>2, <1>3, CommandBounds
    <3>2. \A u \in TaskIds : polled[u] <= Len(remote'[u])
      BY <1>2, <1>3
    <3> QED BY <2>1, <2>3, <3>1, <3>2
  <2> QED BY <1>1, <2>2, <2>3 DEF GatewayPolls, GatewayWrote, GatewayPersists
<1>11. /\ ids' \subseteq TaskIds \X (1 .. MaxMoves)
       /\ \A u \in TaskIds : \A i \in 1 .. MaxMoves : <<u, i>> \in ids' => i <= Len(remote'[u])
  <2>1. ids \subseteq TaskIds \X (1 .. MaxMoves)
    BY DEF StoreInv, TypeInv
  <2>2. \A i \in ids' : i \in ids \/ \E u \in TaskIds : remote'[u] # <<>> /\ i = <<u, Len(remote'[u])>>
    <3>1. CASE \E t \in TaskIds : GatewayPolls(t) \/ GatewayWrote(t)
      BY <3>1 DEF GatewayPolls, GatewayWrote, GatewayPersists, mirror
    <3> QED BY <1>1, <3>1 DEF MirrorEffect
  <2>3. \A u \in TaskIds : remote'[u] # <<>> => Len(remote'[u]) \in 1 .. MaxMoves
    <3> SUFFICES ASSUME NEW u \in TaskIds, remote'[u] # <<>> PROVE Len(remote'[u]) \in 1 .. MaxMoves
      OBVIOUS
    <3>1. Len(remote'[u]) # 0
      BY <1>3, EmptySeq
    <3> QED BY <1>3, <3>1, CommandBounds
  <2>4. ids' \subseteq TaskIds \X (1 .. MaxMoves)
    BY <2>1, <2>2, <2>3
  <2>5. ASSUME NEW u \in TaskIds, NEW i \in 1 .. MaxMoves, <<u, i>> \in ids'
        PROVE i <= Len(remote'[u])
    <3>1. CASE <<u, i>> \in ids
      BY <1>2, <1>3, <3>1
    <3>2. ASSUME NEW w \in TaskIds, <<u, i>> = <<w, Len(remote'[w])>> PROVE i <= Len(remote'[u])
      BY <1>3, <3>2
    <3> QED BY <2>2, <2>5, <3>1, <3>2
  <2> QED BY <2>4, <2>5
<1>12. \A t \in TaskIds : TaskInv(t)'
  BY <1>3, <1>5, <1>8, <1>10, <1>11 DEF TaskInv
<1> QED BY <1>4, <1>6, <1>9, <1>10, <1>11, <1>12

\* Away from streams nothing is on its way.
LEMMA AwayKept ==
  ASSUME StoreInv, wire' = wire, command' \in CommandSet, command.kind # "stream",
         command'.kind # "stream"
  PROVE wire' \in Seq(WireEvents) /\ WireInv'
BY DEF StoreInv, TypeInv, WireInv

\* The events the agent puts on an open stream follow the ones before.
LEMMA EmitsKeeps ==
  ASSUME StoreInv, command.kind = "stream", NEW e \in WireEvents, wire' = Append(wire, e),
         command' = command, rows' = rows, parts' = parts,
         remote'[command.task] \in Seq(AgentStates),
         Len(remote'[command.task]) \in Nat, Len(remote[command.task]) <= Len(remote'[command.task]),
         remote'[command.task] # <<>>,
         chunks'[command.task] \in Nat, chunks[command.task] <= chunks'[command.task],
         e.at = Len(remote'[command.task]), e.chunk = chunks'[command.task],
         Follows(Len(remote[command.task]), chunks[command.task], e),
         rows[command.task] # None /\ rows[command.task].done
            => Len(remote'[command.task]) = Len(remote[command.task])
  PROVE wire' \in Seq(WireEvents) /\ WireInv'
<1> DEFINE t == command.task
           n == Len(wire)
<1>1. /\ t \in TaskIds /\ StreamInv(t) /\ wire \in Seq(WireEvents) /\ n \in Nat
      /\ chunks[t] \in Nat /\ Len(remote[t]) \in Nat
  BY CommandTask, LenProperties DEF StoreInv, TypeInv, WireInv
<1>2. /\ wire' \in Seq(WireEvents) /\ wire' # <<>> /\ Len(wire') = n + 1
      /\ \A i \in 1 .. n : wire'[i] = wire[i]
      /\ wire'[n + 1] = e
  BY <1>1, AppendProperties
<1>3. \A i \in 1 .. n : wire[i] \in WireEvents /\ wire[i].at \in Nat /\ wire[i].chunk \in Nat
  <2>1. \A i \in 1 .. n : wire[i] \in WireEvents
    BY <1>1, ElementOfSeq
  <2> QED BY <2>1, CommandBounds DEF WireEvents
<1> HIDE DEF n
<1>4. \A i \in 1 .. n + 1 : i \in 1 .. n \/ i = n + 1
  BY <1>1
<1>5. \A i \in 1 .. Len(wire') : wire'[i].at <= Len(remote'[t]) /\ wire'[i].chunk <= chunks'[t]
  <2>1. \A i \in 1 .. n : wire[i].at <= Len(remote[t]) /\ wire[i].chunk <= chunks[t]
    BY <1>1 DEF StreamInv, n
  <2>2. \A i \in 1 .. n : wire[i].at <= Len(remote'[t]) /\ wire[i].chunk <= chunks'[t]
    BY <1>1, <1>3, <2>1, SMTT(30)
  <2>3. e.at <= Len(remote'[t]) /\ e.chunk <= chunks'[t]
    OBVIOUS
  <2> QED BY <1>2, <1>4, <2>2, <2>3
<1>6. \A i \in 2 .. Len(wire') : Follows(wire'[i - 1].at, wire'[i - 1].chunk, wire'[i])
  <2> SUFFICES ASSUME NEW i \in 2 .. n + 1
               PROVE Follows(wire'[i - 1].at, wire'[i - 1].chunk, wire'[i])
    BY <1>2
  <2>1. i - 1 \in 1 .. n /\ (i = n + 1 => i - 1 = n)
    BY <1>1
  <2>2. wire'[i - 1] = wire[i - 1]
    BY <1>2, <2>1
  <2>3. CASE i = n + 1
    <3>1. wire # <<>>
      BY <1>1, <2>1, EmptySeq DEF n
    <3>2. wire[n].at = Len(remote[t]) /\ wire[n].chunk = chunks[t]
      BY <1>1, <3>1 DEF StreamInv, n
    <3> QED BY <1>2, <2>1, <2>2, <2>3, <3>2
  <2>4. CASE i # n + 1
    <3>1. i \in 2 .. n /\ i \in 1 .. n
      BY <1>1, <2>4
    <3>2. Follows(wire[i - 1].at, wire[i - 1].chunk, wire[i])
      BY <1>1, <3>1 DEF StreamInv, n
    <3> QED BY <1>2, <2>2, <3>1, <3>2
  <2> QED BY <2>3, <2>4
<1>7. wire'[Len(wire')].at = Len(remote'[t]) /\ wire'[Len(wire')].chunk = chunks'[t]
  BY <1>2
<1>8. CASE wire = <<>>
  <2>1. n = 0 /\ wire'[1] = e
    BY <1>2, <1>8, EmptySeq DEF n
  <2>2. e.type # "task"
    BY DEF Follows
  <2>3. /\ rows[t] # None /\ rows[t].seen = Len(remote[t]) /\ Len(parts[t]) = chunks[t]
        /\ remote[t] # <<>> /\ Len(remote[t]) # 0
    BY <1>1, <1>8, EmptySeq DEF StreamInv, StoreInv, TypeInv
  <2>4. Follows(rows'[t].seen, Len(parts'[t]), wire'[1])
    BY <2>1, <2>3
  <2> QED BY <1>2, <1>5, <1>6, <1>7, <2>1, <2>2, <2>3, <2>4 DEF StreamInv, WireInv
<1>9. CASE wire # <<>>
  <2>1. n # 0 /\ 1 \in 1 .. n /\ wire'[1] = wire[1]
    <3>1. n \in Nat \ {0}
      BY <1>1, <1>9, EmptySeq DEF n
    <3>2. 1 \in 1 .. n
      BY <3>1
    <3> QED BY <1>2, <3>1, <3>2
  <2>2. /\ wire[1].type # "task" =>
             rows[t] # None /\ rows[t].seen # 0 /\ Follows(rows[t].seen, Len(parts[t]), wire[1])
        /\ wire[1].type = "task" =>
             /\ Len(parts[t]) <= wire[1].chunk
             /\ rows[t] # None => rows[t].seen <= wire[1].at
                                  /\ (rows[t].done => wire[1].at = Len(remote[t]))
    BY <1>1, <1>9 DEF StreamInv
  <2> QED BY <1>2, <1>5, <1>6, <1>7, <2>1, <2>2 DEF StreamInv, WireInv
<1> QED BY <1>8, <1>9

\* Events of the agent while a stream about task t is open.
LEMMA AgentKeepsWire ==
  ASSUME StoreInv, NEW t \in TaskIds, AgentMoves(t) \/ AgentProduces(t) \/ AgentSpeaks(t)
  PROVE wire' \in Seq(WireEvents) /\ WireInv'
<1>1. /\ command' = command /\ rows' = rows /\ parts' = parts /\ command \in CommandSet
      /\ remote \in [TaskIds -> Seq(AgentStates)] /\ chunks \in [TaskIds -> 0 .. MaxChunks]
      /\ remote[t] \in Seq(AgentStates) /\ chunks[t] \in 0 .. MaxChunks
  BY DEF AgentMoves, AgentProduces, AgentSpeaks, mirror, StoreInv, TypeInv
<1>2. CASE command.kind # "stream"
  <2>1. wire' = wire
    BY <1>2 DEF AgentMoves, AgentProduces, AgentSpeaks, Emits
  <2> QED BY <1>1, <1>2, <2>1, AwayKept
<1>3. CASE command.kind = "stream" /\ command.task # t
  <2>1. wire' = wire /\ command.task \in TaskIds
    BY <1>3, CommandTask DEF AgentMoves, AgentProduces, AgentSpeaks, Emits, StoreInv
  <2>2. remote'[command.task] = remote[command.task] /\ chunks'[command.task] = chunks[command.task]
    BY <1>1, <1>3, <2>1 DEF AgentMoves, AgentProduces, AgentSpeaks, agent
  <2> QED BY <1>1, <2>1, <2>2 DEF StoreInv, TypeInv, WireInv, StreamInv
<1>4. CASE command.kind = "stream" /\ command.task = t
  <2>1. command = [kind |-> "stream", task |-> t]
    BY <1>4, CommandTask DEF StoreInv
  <2>2. /\ Len(remote[t]) \in Nat /\ Len(remote[t]) <= MaxMoves /\ remote[t] # <<>>
        /\ Len(remote[t]) # 0 /\ RowInv(rows[t], remote[t], told[t]) /\ chunks[t] \in Nat
    BY <1>1, <1>4, LenProperties, EmptySeq DEF StoreInv, WireInv, StreamInv, TaskInv, History
  <2>3. CASE AgentMoves(t)
    <3> DEFINE e == [type |-> "status", at |-> Len(remote[t]) + 1, chunk |-> chunks[t]]
    <3>1. PICK s \in AgentStates : remote' = [remote EXCEPT ![t] = Append(remote[t], s)]
      BY <2>3 DEF AgentMoves
    <3>2. /\ wire' = Append(wire, e) /\ chunks' = chunks
          /\ Now(remote[t]) \notin Terminal /\ Len(remote[t]) < MaxMoves
      BY <2>1, <2>3 DEF AgentMoves, Emits
    <3>3. remote'[t] = Append(remote[t], s)
      BY <1>1, <3>1
    <3>4. /\ remote'[t] \in Seq(AgentStates) /\ remote'[t] # <<>>
          /\ Len(remote'[t]) = Len(remote[t]) + 1
      BY <1>1, <3>3, AppendProperties
    <3>5. e \in WireEvents /\ Len(remote[t]) <= Len(remote[t]) + 1 /\ Len(remote[t]) + 1 \in Nat
      BY <1>1, <2>2, <3>2, CommandBounds DEF WireEvents
    <3>6. /\ e.at = Len(remote'[t]) /\ e.chunk = chunks'[t] /\ chunks[t] <= chunks'[t]
          /\ Follows(Len(remote[t]), chunks[t], e)
      BY <2>2, <3>2, <3>4 DEF Follows
    <3>7. ~(rows[t] # None /\ rows[t].done)
      BY <2>2, <3>2 DEF RowInv
    <3> HIDE DEF e
    <3> QED BY <1>1, <1>4, <2>2, <3>2, <3>4, <3>5, <3>6, <3>7, EmitsKeeps
  <2>4. CASE AgentProduces(t)
    <3> DEFINE e == [type |-> "artifact", at |-> Len(remote[t]), chunk |-> chunks[t] + 1]
    <3>1. /\ wire' = Append(wire, e) /\ remote' = remote /\ chunks[t] < MaxChunks
          /\ chunks' = [chunks EXCEPT ![t] = chunks[t] + 1]
      BY <2>1, <2>4 DEF AgentProduces, Emits
    <3>2. chunks'[t] = chunks[t] + 1 /\ chunks[t] + 1 \in Nat /\ chunks[t] <= chunks[t] + 1
      BY <1>1, <2>2, <3>1
    <3>3. e \in WireEvents
      BY <1>1, <2>2, <3>1, CommandBounds DEF WireEvents
    <3>4. /\ e.at = Len(remote'[t]) /\ e.chunk = chunks'[t]
          /\ Follows(Len(remote[t]), chunks[t], e) /\ Len(remote[t]) <= Len(remote'[t])
      BY <2>2, <3>1, <3>2 DEF Follows
    <3> HIDE DEF e
    <3> QED BY <1>1, <1>4, <2>2, <3>1, <3>2, <3>3, <3>4, EmitsKeeps
  <2>5. CASE AgentSpeaks(t)
    <3> DEFINE e == [type |-> "message", at |-> Len(remote[t]), chunk |-> chunks[t]]
    <3>1. wire' = Append(wire, e) /\ remote' = remote /\ chunks' = chunks
      BY <2>1, <2>5 DEF AgentSpeaks, Emits, agent
    <3>2. e \in WireEvents
      BY <1>1, <2>2, CommandBounds DEF WireEvents
    <3>3. /\ e.at = Len(remote'[t]) /\ e.chunk = chunks'[t] /\ chunks[t] <= chunks'[t]
          /\ Follows(Len(remote[t]), chunks[t], e) /\ Len(remote[t]) <= Len(remote'[t])
      BY <2>2, <3>1 DEF Follows
    <3> HIDE DEF e
    <3> QED BY <1>1, <1>4, <2>2, <3>1, <3>2, <3>3, EmitsKeeps
  <2> QED BY <2>3, <2>4, <2>5
<1> QED BY <1>2, <1>3, <1>4

LEMMA OpensKeepsWire ==
  ASSUME StoreInv, StreamOpens
  PROVE wire' \in Seq(WireEvents) /\ WireInv' /\ command' \in CommandSet
<1> DEFINE t == command.task
           e == [type |-> "task", at |-> Len(Accepted(t)), chunk |-> chunks[t]]
<1>1. /\ t \in TaskIds /\ command' = [kind |-> "stream", task |-> t]
      /\ command'.kind = "stream" /\ command'.task = t /\ wire' = <<e>>
      /\ rows' = rows /\ parts' = parts /\ chunks' = chunks
      /\ remote' = [remote EXCEPT ![t] = Accepted(t)] /\ remote'[t] = Accepted(t)
  BY CommandTask DEF StreamOpens, mirror, StoreInv, TypeInv
<1>2. /\ remote[t] \in Seq(AgentStates) /\ History(remote[t]) /\ chunks[t] \in 0 .. MaxChunks
      /\ RowInv(rows[t], remote[t], told[t]) /\ Len(parts[t]) <= chunks[t]
      /\ rows[t] \in TaskRowSet \cup {None}
  BY <1>1 DEF StoreInv, TypeInv, TaskInv
<1>3. Grown(remote[t], Accepted(t)) /\ Accepted(t) # <<>>
  BY <1>1, <1>2, AcceptedGrows
<1>4. /\ Accepted(t) \in Seq(AgentStates) /\ History(Accepted(t)) /\ Len(remote[t]) \in Nat
      /\ Len(Accepted(t)) \in {Len(remote[t]), Len(remote[t]) + 1}
  BY <1>2, <1>3, GrownKeeps
<1>5. Len(Accepted(t)) \in 1 .. MaxMoves /\ Len(remote[t]) <= Len(Accepted(t))
  BY <1>3, <1>4, EmptySeq, CommandBounds DEF History
<1> HIDE DEF t
<1>6. e \in WireEvents
  BY <1>2, <1>5 DEF WireEvents
<1>7. /\ e.at = Len(remote'[t]) /\ e.chunk = chunks'[t] /\ e.type = "task"
      /\ e.at <= Len(remote'[t]) /\ e.chunk <= chunks'[t]
  BY <1>1, <1>2, <1>5
<1>8. rows[t] # None => rows[t].seen <= Len(Accepted(t))
  <2>1. rows[t] # None => rows[t].seen \in Nat /\ rows[t].seen <= Len(remote[t])
    BY <1>2 DEF TaskRowSet, RowInv
  <2> QED BY <1>4, <1>5, <2>1
<1> HIDE DEF e
<1>9. wire' \in Seq(WireEvents) /\ Len(wire') = 1 /\ wire'[1] = e /\ wire' # <<>>
  BY <1>1, <1>6
<1>10. StreamInv(t)'
  BY <1>1, <1>2, <1>3, <1>7, <1>8, <1>9 DEF StreamInv, t
<1> QED BY <1>1, <1>9, <1>10 DEF WireInv, CommandSet, t

LEMMA EventKeepsWire ==
  ASSUME StoreInv, StreamEvent
  PROVE wire' \in Seq(WireEvents) /\ WireInv'
<1> DEFINE t == command.task
           n == Len(wire)
<1>1. /\ t \in TaskIds /\ wire # <<>> /\ wire \in Seq(WireEvents) /\ StreamInv(t)
      /\ command' = command /\ command.kind = "stream" /\ wire' = Tail(wire)
      /\ remote' = remote /\ chunks' = chunks /\ chunks[t] \in 0 .. MaxChunks
  BY CommandTask DEF StreamEvent, StoreInv, TypeInv, WireInv, agent
<1>2. /\ n \in Nat \ {0} /\ wire' \in Seq(WireEvents) /\ Len(wire') = n - 1
      /\ \A i \in 1 .. n - 1 : wire'[i] = wire[i + 1]
  BY <1>1, HeadTailProperties, EmptySeq
<1>3. /\ rows'[t] # None /\ rows'[t].seen = wire[1].at /\ rows'[t].seen # 0
      /\ parts'[t] = UpTo(wire[1].chunk) /\ wire[1].chunk \in 0 .. chunks[t]
  BY EventEffect
<1>4. Len(parts'[t]) = wire[1].chunk
  <2>1. wire[1].chunk \in Nat
    BY <1>1, <1>3
  <2> QED BY <1>3, <2>1, UpToProperties
<1>5. /\ \A i \in 1 .. n : wire[i].at <= Len(remote[t]) /\ wire[i].chunk <= chunks[t]
      /\ \A i \in 2 .. n : Follows(wire[i - 1].at, wire[i - 1].chunk, wire[i])
      /\ wire[n].at = Len(remote[t]) /\ wire[n].chunk = chunks[t] /\ remote[t] # <<>>
  BY <1>1 DEF StreamInv
<1> HIDE DEF n
<1>6. \A i \in 1 .. Len(wire') : wire'[i].at <= Len(remote'[t]) /\ wire'[i].chunk <= chunks'[t]
  <2>1. \A i \in 1 .. n - 1 : i + 1 \in 1 .. n
    BY <1>2
  <2> QED BY <1>1, <1>2, <1>5, <2>1
<1>7. \A i \in 2 .. Len(wire') : Follows(wire'[i - 1].at, wire'[i - 1].chunk, wire'[i])
  <2> SUFFICES ASSUME NEW i \in 2 .. n - 1
               PROVE Follows(wire'[i - 1].at, wire'[i - 1].chunk, wire'[i])
    BY <1>2
  <2>1. i + 1 \in 2 .. n /\ i \in 1 .. n - 1 /\ i - 1 \in 1 .. n - 1 /\ (i + 1) - 1 = i
        /\ (i - 1) + 1 = i
    BY <1>2
  <2>2. wire'[i] = wire[i + 1] /\ wire'[i - 1] = wire[i]
    BY <1>2, <2>1
  <2>3. Follows(wire[i].at, wire[i].chunk, wire[i + 1])
    BY <1>5, <2>1
  <2> QED BY <2>2, <2>3
<1>8. CASE n = 1
  <2>1. wire' = <<>>
    BY <1>2, <1>8, EmptySeq
  <2>2. rows'[t].seen = Len(remote'[t]) /\ Len(parts'[t]) = chunks'[t]
    BY <1>1, <1>3, <1>4, <1>5, <1>8
  <2>3. StreamInv(t)'
    BY <1>1, <1>3, <1>5, <1>6, <1>7, <2>1, <2>2 DEF StreamInv
  <2> QED BY <1>1, <1>2, <2>3 DEF WireInv
<1>9. CASE n # 1
  <2>1. /\ n - 1 \in 1 .. n - 1 /\ (n - 1) + 1 = n /\ 1 \in 1 .. n - 1 /\ 2 \in 2 .. n
        /\ n - 1 # 0
    BY <1>2, <1>9
  <2>2. wire' # <<>>
    BY <1>2, <2>1, EmptySeq
  <2>3. wire'[Len(wire')] = wire[n] /\ wire'[1] = wire[2]
    <3>1. wire'[n - 1] = wire[(n - 1) + 1] /\ wire'[1] = wire[1 + 1]
      BY <1>2, <2>1
    <3> QED BY <1>2, <2>1, <3>1
  <2>4. Follows(wire[1].at, wire[1].chunk, wire[2])
    <3>1. Follows(wire[2 - 1].at, wire[2 - 1].chunk, wire[2])
      BY <1>5, <2>1
    <3> QED BY <3>1
  <2>5. Follows(rows'[t].seen, Len(parts'[t]), wire'[1]) /\ wire'[1].type # "task"
    BY <1>3, <1>4, <2>3, <2>4 DEF Follows
  <2>6. wire'[Len(wire')].at = Len(remote'[t]) /\ wire'[Len(wire')].chunk = chunks'[t]
    BY <1>1, <1>5, <2>3
  <2>7. StreamInv(t)'
    BY <1>1, <1>3, <1>5, <1>6, <1>7, <2>2, <2>5, <2>6 DEF StreamInv
  <2> QED BY <1>1, <1>2, <2>7 DEF WireInv
<1> QED BY <1>8, <1>9

\* The commands and what is on its way.
LEMMA CommandKept ==
  ASSUME StoreInv, TaskNext
  PROVE /\ command' \in CommandSet /\ wire' \in Seq(WireEvents) /\ WireInv'
        /\ outcome' \in {"ok", "invalid", "failed", "storage", "collision", "killed",
                         "input_required", "cancelled", "timeout"}
<1> DEFINE Ends == {"ok", "invalid", "failed", "storage", "collision", "killed",
                        "input_required", "cancelled", "timeout"}
           Kept == /\ command' \in CommandSet /\ wire' \in Seq(WireEvents) /\ WireInv'
                   /\ outcome' \in Ends
<1> USE DEF StoreInv
<1>0. /\ command \in CommandSet /\ outcome \in Ends /\ Idle \in CommandSet
      /\ Idle.kind = "idle" /\ wire \in Seq(WireEvents) /\ (Free => command.kind = "idle")
      /\ <<>> \in Seq(WireEvents)
  BY EmptySeq DEF TypeInv, CommandSet, Idle, Free
<1>1. ASSUME NEW t \in TaskIds, AgentMoves(t) \/ AgentProduces(t) \/ AgentSpeaks(t) PROVE Kept
  <2>1. command' = command /\ outcome' = outcome
    BY <1>1 DEF AgentMoves, AgentProduces, AgentSpeaks
  <2> QED BY <1>0, <1>1, <2>1, AgentKeepsWire
<1>2. ASSUME \/ \E t \in TaskIds : \/ Send(t) \/ TaskGetRemote(t) \/ TaskGetLocal(t)
                                   \/ TaskCancel(t) \/ GatewayWrote(t)
             \/ TaskListRemote
      PROVE Kept
  <2>1. command' = command /\ wire' = wire /\ Free
    BY <1>2 DEF Send, TaskGetRemote, TaskGetLocal, TaskCancel, GatewayWrote, GatewayPersists, TaskListRemote,
                LockFree
  <2>2. outcome' \in Ends
    BY <1>0, <1>2 DEF Send, SendTaskResponse, SendMessageResponse, IdCollides, TaskGetRemote,
                      TaskGetLocal, TaskCancel, GatewayWrote, GatewayPersists, TaskListRemote
  <2>3. command.kind # "stream"
    BY <1>0, <2>1
  <2> QED BY <1>0, <2>1, <2>2, <2>3, AwayKept
<1>3. ASSUME NEW t \in TaskIds, NEW b \in BOOLEAN, StreamRequest(t, b) \/ TaskWait(t, b) PROVE Kept
  <2>1. /\ Free /\ wire' = wire /\ outcome' = outcome
        /\ command' \in CommandSet /\ command'.kind # "stream"
    BY <1>3 DEF StreamRequest, TaskWait, CommandSet
  <2> QED BY <1>0, <2>1, AwayKept
<1>4. ASSUME NEW t \in TaskIds, GatewayPolls(t) PROVE Kept
  <2>1. /\ command' = command /\ wire' = wire /\ outcome' = outcome
        /\ remote' = remote /\ chunks' = chunks /\ rows' = rows /\ parts' = parts
    BY <1>4 DEF GatewayPolls, agent, mirror
  <2> QED BY <1>0, <2>1 DEF WireInv, StreamInv
<1>10. ASSUME NEW t \in TaskIds, GatewaySends(t) PROVE Kept
  <2>1. /\ command' = command /\ wire' = wire /\ outcome' = outcome /\ remote[t] = <<>>
        /\ remote' = [remote EXCEPT ![t] = <<"working">>]
        /\ chunks' = chunks /\ rows' = rows /\ parts' = parts
    BY <1>10 DEF GatewaySends, Known, mirror
  <2>2. CASE command.kind # "stream"
    BY <1>0, <2>1, <2>2, AwayKept
  <2>3. CASE command.kind = "stream"
    <3>1. command.task \in TaskIds /\ StreamInv(command.task)
      BY <2>3, CommandTask DEF WireInv
    <3>2. command.task # t
      BY <2>1, <3>1 DEF StreamInv
    <3>3. remote'[command.task] = remote[command.task]
      BY <2>1, <3>1, <3>2 DEF TypeInv
    <3> QED BY <1>0, <2>1, <2>3, <3>1, <3>3 DEF WireInv, StreamInv
  <2> QED BY <2>2, <2>3
<1>5. ASSUME StreamOpens PROVE Kept
  BY <1>0, <1>5, OpensKeepsWire DEF StreamOpens
<1>6. ASSUME StreamEvent PROVE Kept
  <2>1. command' = command /\ outcome' = outcome
    BY <1>6 DEF StreamEvent
  <2> QED BY <1>0, <1>6, <2>1, EventKeepsWire
<1>7. ASSUME StreamEnds \/ StreamBreaks PROVE Kept
  <2>1. command' = Idle /\ wire' = <<>> /\ outcome' \in Ends
    BY <1>7 DEF StreamEnds, StreamBreaks, Finished
  <2> QED BY <1>0, <2>1 DEF WireInv
<1>8. ASSUME WaitPolls \/ WaitPollsLocal PROVE Kept
  <2>1. /\ command.kind # "stream" /\ wire' = wire
        /\ command' = Idle \/ command' = command
        /\ outcome' = outcome \/ outcome' \in Ends
    BY <1>8 DEF WaitPolls, WaitPollsLocal, WaitGoesOn, WaitExit, Finished
  <2>2. command' \in CommandSet /\ command'.kind # "stream" /\ outcome' \in Ends
    BY <1>0, <2>1
  <2> QED BY <2>1, <2>2, AwayKept
<1>9. Kept
  <2> HIDE DEF Kept
  <2> QED BY <1>1, <1>2, <1>3, <1>4, <1>5, <1>6, <1>7, <1>8, <1>10 DEF TaskNext, GatewayWrote
<1> QED BY <1>9

LEMMA InitStore ==
  ASSUME TaskInit
  PROVE StoreInv
<1>1. TypeInv
  <2>1. <<>> \in Seq(AgentStates) /\ <<>> \in Seq(Nat) /\ <<>> \in Seq(WireEvents)
    BY EmptySeq
  <2>2. 0 \in 0 .. MaxMoves /\ 0 \in 0 .. MaxChunks
    BY CommandBounds
  <2> QED BY <2>1, <2>2 DEF TaskInit, TypeInv, CommandSet
<1>2. ASSUME NEW t \in TaskIds PROVE TaskInv(t)
  <2>1. /\ remote[t] = <<>> /\ chunks[t] = 0 /\ rows[t] = None /\ parts[t] = <<>> /\ polled[t] = 0
        /\ ids = {} /\ Len(<<>>) = 0
    BY EmptySeq DEF TaskInit
  <2>2. History(<<>>)
    BY <2>1, CommandBounds DEF History
  <2>3. UpTo(0) = <<>>
    BY UpToProperties
  <2> QED BY <2>1, <2>2, <2>3 DEF TaskInv, RowInv
<1>3. WireInv
  BY DEF TaskInit, WireInv, Idle
<1> QED BY <1>1, <1>2, <1>3 DEF StoreInv

LEMMA NextStore ==
  ASSUME StoreInv, [TaskNext]_taskVars
  PROVE StoreInv'
<1>1. CASE TaskNext
  <2>1. TypeInv'
    BY <1>1, TasksKept, CommandKept DEF TypeInv
  <2>2. (\A t \in TaskIds : TaskInv(t))' /\ WireInv'
    BY <1>1, TasksKept, CommandKept
  <2> QED BY <2>1, <2>2 DEF StoreInv
<1>2. CASE UNCHANGED taskVars
  BY <1>2 DEF taskVars, StoreInv, TypeInv, TaskInv, WireInv, StreamInv
<1> QED BY <1>1, <1>2

LEMMA AlwaysStore == TaskSpec => []StoreInv
BY InitStore, NextStore, PTL DEF TaskSpec

----------------------------------------------------------------------------
(* The store.                                                              *)

LEMMA StoreImplies ==
  ASSUME StoreInv
  PROVE StoreFollowsAgent
<1>1. TypeInv /\ \A t \in TaskIds : TaskInv(t)
  BY DEF StoreInv
<1>2. \A t \in TaskIds : \A i \in 1 .. Len(parts[t]) :
        parts[t][i] = i /\ parts[t][i] \in 1 .. MaxChunks /\ parts[t][i] <= chunks[t]
  <2> SUFFICES ASSUME NEW t \in TaskIds, NEW i \in 1 .. Len(parts[t])
               PROVE parts[t][i] = i /\ parts[t][i] \in 1 .. MaxChunks /\ parts[t][i] <= chunks[t]
    OBVIOUS
  <2>1. /\ Len(parts[t]) \in Nat /\ Len(parts[t]) <= chunks[t] /\ chunks[t] \in 0 .. MaxChunks
        /\ parts[t] = UpTo(Len(parts[t]))
    BY <1>1, LenProperties DEF TypeInv, TaskInv
  <2>2. UpTo(Len(parts[t]))[i] = i
    BY <2>1, UpToProperties
  <2>3. i \in 1 .. MaxChunks /\ i <= chunks[t]
    BY <2>1, CommandBounds
  <2> QED BY <2>1, <2>2, <2>3
<1>3. TaskTypeOK
  <2>1. remote \in [TaskIds -> UNION {[1 .. n -> AgentStates] : n \in 0 .. MaxMoves}]
    <3>1. \A t \in TaskIds : remote[t] \in [1 .. Len(remote[t]) -> AgentStates]
                             /\ Len(remote[t]) \in 0 .. MaxMoves
      <4> SUFFICES ASSUME NEW t \in TaskIds
                   PROVE remote[t] \in [1 .. Len(remote[t]) -> AgentStates]
                         /\ Len(remote[t]) \in 0 .. MaxMoves
        OBVIOUS
      <4>1. remote[t] \in Seq(AgentStates) /\ Len(remote[t]) <= MaxMoves
        BY <1>1 DEF TypeInv, TaskInv, History
      <4>2. Len(remote[t]) \in Nat /\ remote[t] \in [1 .. Len(remote[t]) -> AgentStates]
        BY <4>1, LenProperties
      <4>3. Len(remote[t]) \in 0 .. MaxMoves
        BY <4>1, <4>2, CommandBounds
      <4> QED BY <4>2, <4>3
    <3>2. remote = [t \in TaskIds |-> remote[t]]
      BY <1>1, Same DEF TypeInv
    <3> QED BY <3>1, <3>2
  <2>2. \A i \in 1 .. Len(wire) : wire[i] \in WireEvents
    BY <1>1, ElementOfSeq DEF TypeInv
  <2>3. told \in [TaskIds -> AgentStates \cup {"submitted", "unknown", None}]
    <3>1. RowStates \cup {None} = AgentStates \cup {"submitted", "unknown", None}
      BY DEF RowStates
    <3> QED BY <1>1, <3>1 DEF TypeInv
  <2> QED BY <1>1, <1>2, <2>1, <2>2, <2>3 DEF TypeInv, TaskTypeOK
<1>4. CompletedAtMatchesState /\ JournalFollowsRow
  BY <1>1 DEF TaskInv, RowInv, CompletedAtMatchesState, JournalFollowsRow, Known
<1>5. PartsInOrder
  BY <1>2 DEF PartsInOrder
<1> QED BY <1>3, <1>4, <1>5 DEF StoreFollowsAgent

\* The database is consistent and says no more of a task than its agent has
\* said, whatever snapshots (persist_remote_task, persist_send), stream events,
\* follow-ups and broken streams made it up: for any number of tasks, states
\* and parts.
THEOREM StoreFollows == TaskSpec => []StoreFollowsAgent
BY AlwaysStore, StoreImplies, PTL

----------------------------------------------------------------------------
(* The commands.                                                           *)

LEMMA StreamEndsTrue ==
  ASSUME StoreInv, StreamEnds
  PROVE rows[command.task].seen = Len(remote[command.task])
        /\ parts[command.task] = UpTo(chunks[command.task])
<1>1. command.task \in TaskIds /\ wire = <<>> /\ StreamInv(command.task)
  BY CommandTask DEF StreamEnds, StoreInv, WireInv
<1>2. /\ rows[command.task].seen = Len(remote[command.task])
      /\ Len(parts[command.task]) = chunks[command.task]
  BY <1>1 DEF StreamInv
<1> QED BY <1>1, <1>2 DEF StoreInv, TaskInv

\* A row in a terminal state shows the state its task ended in.
LEMMA TerminalRowIsCurrent ==
  ASSUME StoreInv, NEW t \in TaskIds, rows[t] # None, rows[t].state \in Terminal
  PROVE Now(remote[t]) = rows[t].state
<1>1. RowInv(rows[t], remote[t], told[t]) /\ History(remote[t]) /\ Len(remote[t]) \in Nat
      /\ rows[t].seen \in Nat
  BY LenProperties DEF StoreInv, TypeInv, TaskInv, TaskRowSet
<1>2. rows[t].seen # 0 /\ rows[t].seen <= Len(remote[t]) /\ rows[t].state = remote[t][rows[t].seen]
  BY <1>1 DEF RowInv, Terminal
<1>3. rows[t].seen \in 1 .. Len(remote[t])
  BY <1>1, <1>2
<1>4. rows[t].seen = Len(remote[t])
  BY <1>1, <1>2, <1>3 DEF History
<1> QED BY <1>2, <1>4 DEF Now

LEMMA WaitExitTrue ==
  ASSUME StoreInv, TaskNext, command.kind \in {"wait", "wait_local"}, command' = Idle,
         outcome' = "ok"
  PROVE Now(remote[command.task]) = "completed"
<1>1. command.task \in TaskIds /\ command # Idle
  BY CommandTask DEF StoreInv
<1>2. WaitPolls \/ WaitPollsLocal
  <2>1. ~Free /\ command' # command
    BY <1>1 DEF Free
  <2>2. ~StreamOpens /\ ~StreamEvent /\ ~StreamEnds /\ ~StreamBreaks /\ ~TaskListRemote
    BY <2>1 DEF StreamOpens, StreamEvent, StreamEnds, StreamBreaks, TaskListRemote
  <2>3. ASSUME NEW t \in TaskIds
        PROVE /\ ~AgentMoves(t) /\ ~AgentProduces(t) /\ ~AgentSpeaks(t) /\ ~Send(t)
              /\ ~TaskGetRemote(t) /\ ~TaskGetLocal(t) /\ ~TaskCancel(t)
              /\ ~GatewaySends(t) /\ ~GatewayPolls(t) /\ ~GatewayWrote(t)
              /\ \A b \in BOOLEAN : ~StreamRequest(t, b) /\ ~TaskWait(t, b)
    BY <2>1 DEF GatewaySends, AgentMoves, AgentProduces, AgentSpeaks, Send, TaskGetRemote, TaskGetLocal,
                TaskCancel, GatewayPolls, GatewayWrote, GatewayPersists, StreamRequest, TaskWait, LockFree
  <2> QED BY <2>2, <2>3 DEF TaskNext, GatewayWrote
<1>3. \A s : WaitGoesOn(s) => s = "completed"
  BY <1>1 DEF WaitGoesOn, Finished, Decisive, WaitExit, Terminal
<1>4. CASE WaitPolls
  BY <1>3, <1>4 DEF WaitPolls, Finished
<1>5. CASE WaitPollsLocal
  <2>1. rows[command.task] # None /\ rows[command.task].state = "completed"
    BY <1>3, <1>5 DEF WaitPollsLocal, Finished
  <2> QED BY <1>1, <2>1, TerminalRowIsCurrent DEF Terminal
<1> QED BY <1>2, <1>4, <1>5

LEMMA LocalWaitFrozen ==
  ASSUME StoreInv, TaskNext, command.kind = "wait_local"
  PROVE rows' = rows
<1>1. ~Free
  BY CommandTask DEF StoreInv, Free
<1>2. ASSUME NEW t \in TaskIds
      PROVE /\ ~Send(t) /\ ~TaskGetRemote(t) /\ ~TaskGetLocal(t) /\ ~TaskCancel(t)
            /\ ~GatewayWrote(t)
            /\ \A b \in BOOLEAN : ~StreamRequest(t, b) /\ ~TaskWait(t, b)
            /\ AgentMoves(t) \/ AgentProduces(t) \/ AgentSpeaks(t) \/ GatewaySends(t)
                 \/ GatewayPolls(t) => rows' = rows
  BY <1>1 DEF Send, TaskGetRemote, TaskGetLocal, TaskCancel, GatewayWrote, GatewayPersists, StreamRequest,
              TaskWait, LockFree, AgentMoves, AgentProduces, AgentSpeaks, GatewaySends, GatewayPolls,
              mirror
<1>3. ~StreamOpens /\ ~StreamEvent /\ ~StreamEnds /\ ~StreamBreaks /\ ~TaskListRemote /\ ~WaitPolls
  BY <1>1 DEF StreamOpens, StreamEvent, StreamEnds, StreamBreaks, TaskListRemote, WaitPolls
<1>4. WaitPollsLocal => rows' = rows
  BY DEF WaitPollsLocal, mirror
<1> QED BY <1>2, <1>3, <1>4 DEF TaskNext, GatewayWrote

LEMMA RollbackTrue ==
  ASSUME StoreInv, NEW t \in TaskIds, Send(t), outcome' = "storage"
  PROVE remote' = remote /\ <<t, Len(remote[t])>> \in ids
<1>3. remote' = [remote EXCEPT ![t] = Accepted(t)] /\ <<t, Len(Accepted(t))>> \in ids
  BY DEF Send, SendTaskResponse, SendMessageResponse, IdCollides, StoredBefore
<1>4. /\ remote \in [TaskIds -> Seq(AgentStates)] /\ remote[t] \in Seq(AgentStates)
      /\ History(remote[t]) /\ Len(Accepted(t)) \in 1 .. MaxMoves
      /\ Len(Accepted(t)) <= Len(remote[t])
  BY <1>3 DEF StoreInv, TypeInv, TaskInv
<1>5. Grown(remote[t], Accepted(t))
  BY <1>4, AcceptedGrows
<1>6. /\ Len(remote[t]) \in Nat /\ Len(Accepted(t)) \in {Len(remote[t]), Len(remote[t]) + 1}
      /\ Len(Accepted(t)) = Len(remote[t]) => Accepted(t) = remote[t]
  BY <1>4, <1>5, GrownKeeps
<1>7. Accepted(t) = remote[t]
  BY <1>4, <1>6
<1> QED BY <1>3, <1>4, <1>7

LEMMA RefusedIsRolledBack ==
  ASSUME NEW t \in TaskIds, Send(t), outcome' \in {"storage", "collision"}
  PROVE UNCHANGED mirror
BY DEF Send, SendTaskResponse, SendMessageResponse, IdCollides

\* What a command reports is so: the task of a stream that ended is stored
\* whole, `task wait` succeeds for completed tasks only, `task wait --local`
\* looks at rows nobody can write, and a send the database refused changed no
\* row and carried no news, unless the agent used an id twice.
THEOREM CommandsTrue == TaskSpec => CommandsReportTruly
<1>1. StoreInv /\ [TaskNext]_taskVars =>
        /\ [StreamEnds => LET t == command.task
                         IN  rows[t].seen = Len(remote[t]) /\ parts[t] = UpTo(chunks[t])]_taskVars
        /\ [command.kind \in {"wait", "wait_local"} /\ command' = Idle /\ outcome' = "ok"
              => Now(remote[command.task]) = "completed"]_taskVars
        /\ [command.kind = "wait_local" => rows' = rows]_taskVars
        /\ [\A t \in TaskIds : Send(t) /\ outcome' \in {"storage", "collision"} =>
              /\ UNCHANGED mirror
              /\ outcome' = "storage" => remote' = remote /\ <<t, Len(remote[t])>> \in ids]_taskVars
  BY StreamEndsTrue, WaitExitTrue, LocalWaitFrozen, RollbackTrue, RefusedIsRolledBack
<1> QED BY <1>1, AlwaysStore, PTL DEF TaskSpec, CommandsReportTruly, StreamEndsCurrent,
              WaitExitIsTrue, LocalWaitIsFrozen, RollbackLosesNoState

----------------------------------------------------------------------------
(* The refinement of MirroredTask.                                         *)

ShownAt(row) == IF row = None THEN 0 ELSE row.seen
Shown(row) == IF row = None THEN "none" ELSE row.state

At == [t \in TaskIds |-> IF rows[t] = None THEN 0 ELSE rows[t].seen]
View == [t \in TaskIds |-> IF rows[t] = None THEN "none" ELSE rows[t].state]

LEMMA Mapped ==
  \A t \in TaskIds : At[t] = ShownAt(rows[t]) /\ View[t] = Shown(rows[t])
                    /\ At'[t] = ShownAt(rows'[t]) /\ View'[t] = Shown(rows'[t])
BY DEF At, View, ShownAt, Shown

\* A history that grew is one MirroredTask lets grow.
LEMMA MovesMapped ==
  ASSUME StoreInv, AgentEffect
  PROVE M!Moves
<1> SUFFICES ASSUME NEW t \in TaskIds PROVE M!Grows(remote[t], remote'[t])
  BY DEF M!Moves
<1>1. remote[t] \in Seq(AgentStates) /\ History(remote[t]) /\ Grown(remote[t], remote'[t])
  BY DEF StoreInv, TypeInv, TaskInv, AgentEffect
<1>2. /\ Len(remote[t]) \in Nat /\ Len(remote'[t]) \in {Len(remote[t]), Len(remote[t]) + 1}
      /\ SubSeq(remote'[t], 1, Len(remote[t])) = remote[t]
  BY <1>1, GrownKeeps
<1>3. \E n \in 0 .. 1 : Len(remote'[t]) = Len(remote[t]) + n
  <2>1. CASE Len(remote'[t]) = Len(remote[t])
    <3>1. 0 \in 0 .. 1 /\ Len(remote[t]) = Len(remote[t]) + 0
      BY <1>2
    <3> QED BY <2>1, <3>1
  <2>2. CASE Len(remote'[t]) = Len(remote[t]) + 1
    <3>1. 1 \in 0 .. 1
      OBVIOUS
    <3> QED BY <2>2, <3>1
  <2> QED BY <1>2, <2>1, <2>2
<1> QED BY <1>2, <1>3 DEF M!Grows

\* A row that is kept, replaced, guessed, reset or moved on is one
\* MirroredTask allows.
LEMMA RowMapped ==
  ASSUME StoreInv, AgentEffect, NEW t \in TaskIds,
         RowStep(rows[t], rows'[t], remote'[t], told[t], told'[t])
  PROVE M!Keeps(t) \/ M!CatchesUp(t) \/ M!Guesses(t) \/ M!StartsOver(t)
<1>1. /\ At[t] = ShownAt(rows[t]) /\ View[t] = Shown(rows[t])
      /\ At'[t] = ShownAt(rows'[t]) /\ View'[t] = Shown(rows'[t])
  BY Mapped
<1>2. /\ remote[t] \in Seq(AgentStates) /\ History(remote[t]) /\ Grown(remote[t], remote'[t])
      /\ RowInv(rows[t], remote[t], told[t]) /\ rows[t] \in TaskRowSet \cup {None}
  BY DEF StoreInv, TypeInv, TaskInv, AgentEffect
<1>3. /\ remote'[t] \in Seq(AgentStates) /\ History(remote'[t]) /\ Len(remote[t]) \in Nat
      /\ Len(remote'[t]) \in {Len(remote[t]), Len(remote[t]) + 1}
  BY <1>2, GrownKeeps
<1>4. ShownAt(rows[t]) \in Nat /\ ShownAt(rows[t]) <= Len(remote'[t])
  <2>1. rows[t] # None => rows[t].seen \in Nat /\ rows[t].seen <= Len(remote[t])
    BY <1>2 DEF TaskRowSet, RowInv
  <2> QED BY <1>3, <2>1 DEF ShownAt
<1>5. ASSUME NEW i \in 1 .. Len(remote'[t]), rows'[t] # None, rows'[t].seen = i,
             rows'[t].state = remote'[t][i], i >= ShownAt(rows[t])
      PROVE M!CatchesUp(t)
  BY <1>1, <1>5 DEF M!CatchesUp, M!Shows, ShownAt, Shown, At, View
<1>6. CASE rows'[t] = rows[t]
  BY <1>1, <1>6 DEF M!Keeps, At, View
<1>7. CASE remote'[t] # <<>> /\ rows'[t] = FreshRow(remote'[t])
  <2>1. /\ rows'[t] # None /\ rows'[t].seen = Len(remote'[t])
        /\ rows'[t].state = remote'[t][Len(remote'[t])]
        /\ Len(remote'[t]) \in 1 .. MaxMoves
    BY <1>3, <1>7, FreshRowSound DEF Now
  <2>2. Len(remote'[t]) \in 1 .. Len(remote'[t]) /\ Len(remote'[t]) >= ShownAt(rows[t])
    BY <1>4, <2>1
  <2> QED BY <1>5, <2>1, <2>2
<1>8. CASE rows[t] = None /\ rows'[t] = Placeholder(None, "submitted")
  <2>1. 0 \in 0 .. MaxMoves /\ "submitted" \in RowStates
    BY CommandBounds DEF RowStates
  <2>2. rows'[t] # None
    BY <1>2, <1>8, <2>1, RowTypes
  <2>3. rows'[t].seen = 0 /\ rows'[t].state = "submitted"
    BY <1>8 DEF Placeholder
  <2> QED BY <1>1, <1>8, <2>2, <2>3 DEF M!Guesses, ShownAt, Shown, At, View
<1>9. CASE rows'[t] = MergedRow(rows[t], "submitted", 0)
  <2>1. 0 \in 0 .. MaxMoves /\ "submitted" \in RowStates
    BY CommandBounds DEF RowStates
  <2>2. rows'[t] # None
    BY <1>2, <1>9, <2>1, RowTypes
  <2>3. rows'[t].seen = 0 /\ rows'[t].state = "submitted"
    BY <1>9 DEF MergedRow
  <2> QED BY <1>1, <2>2, <2>3 DEF M!StartsOver, ShownAt, Shown, At, View
<1>10. CASE Advanced(rows[t], rows'[t], remote'[t], told'[t])
  <2>1. /\ rows'[t] # None /\ rows'[t].seen \in Nat /\ rows'[t].seen # 0
        /\ rows'[t].seen <= Len(remote'[t]) /\ rows'[t].state = remote'[t][rows'[t].seen]
        /\ rows[t] # None => rows[t].seen <= rows'[t].seen
    BY <1>10, NoneIsNoRow DEF Advanced, RowInv, TaskRowSet
  <2>2. rows'[t].seen \in 1 .. Len(remote'[t]) /\ rows'[t].seen >= ShownAt(rows[t])
    <3>1. ShownAt(rows[t]) <= rows'[t].seen
      BY <2>1 DEF ShownAt
    <3> QED BY <1>3, <1>4, <2>1, <3>1
  <2> QED BY <1>5, <2>1, <2>2
<1> QED BY <1>6, <1>7, <1>8, <1>9, <1>10 DEF RowStep

LEMMA PollMapped ==
  ASSUME NEW t \in TaskIds, GatewayPolls(t)
  PROVE M!GatewayReads(t)
<1>1. remote' = remote /\ rows' = rows
  BY DEF GatewayPolls, agent, mirror
<1> QED BY <1>1 DEF GatewayPolls, M!GatewayReads, Known

LEMMA AnswerMapped ==
  ASSUME StoreInv, NEW t \in TaskIds, GatewayWrote(t)
  PROVE M!GatewayWrites(t)
<1>1. /\ remote' = remote /\ polled[t] # 0 /\ polled' = [polled EXCEPT ![t] = 0]
  BY DEF GatewayWrote, GatewayPersists, agent
<1>2. /\ \A u \in TaskIds : u # t => rows'[u] = rows[u]
      /\ rows'[t] # None /\ rows'[t].seen = polled[t] /\ rows'[t].state = remote[t][polled[t]]
      /\ polled[t] \in 1 .. Len(remote[t])
  BY AnswerSound
<1>3. \A u \in TaskIds \ {t} : M!Keeps(u)
  BY <1>2, Mapped DEF M!Keeps, At, View
<1>4. M!Shows(t, polled[t])
  BY <1>1, <1>2, Mapped DEF M!Shows, At, View, ShownAt, Shown
<1> QED BY <1>1, <1>3, <1>4 DEF M!GatewayWrites

\* The commands and the gateway implement MirroredTask: every row shows a
\* state its task was in and moves forward with it, whichever command writes
\* it, wherever a stream breaks and whatever a gateway read before it had the
\* lock.
THEOREM RowsMirror == TaskSpec => RowsMirrorTasks
<1>1. TaskInit => M!Init
  BY DEF TaskInit, M!Init
<1>2. StoreInv /\ [TaskNext]_taskVars => [M!Next]_(M!vars)
  <2> SUFFICES ASSUME StoreInv, [TaskNext]_taskVars PROVE [M!Next]_(M!vars)
    OBVIOUS
  <2>1. CASE TaskNext
    <3>1. /\ AgentEffect
          /\ \/ MirrorEffect /\ polled' = polled
             \/ \E t \in TaskIds : GatewayPolls(t) \/ GatewayWrote(t)
      BY <2>1, StepEffect
    <3>2. CASE MirrorEffect /\ polled' = polled
      <4>1. \A t \in TaskIds : M!Keeps(t) \/ M!CatchesUp(t) \/ M!Guesses(t) \/ M!StartsOver(t)
        BY <3>1, <3>2, RowMapped DEF MirrorEffect
      <4> QED BY <3>1, <3>2, <4>1, MovesMapped DEF M!Next, M!Command
    <3>3. CASE \E t \in TaskIds : GatewayPolls(t) \/ GatewayWrote(t)
      BY <3>3, PollMapped, AnswerMapped DEF M!Next
    <3> QED BY <3>1, <3>2, <3>3
  <2>2. CASE UNCHANGED taskVars
    BY <2>2 DEF taskVars, M!vars
  <2> QED BY <2>1, <2>2
<1> QED BY <1>1, <1>2, AlwaysStore, PTL DEF TaskSpec, RowsMirrorTasks, M!Spec

----------------------------------------------------------------------------
(* The registry: tables.                                                   *)

AgentTable == [Aliases -> OrNull(AgentRows)]
ContextTable == [Contexts -> OrNull(ContextRows)]
TaskTable == [Tasks -> OrNull(TaskRows)]
MemberTable == [Groups \X Aliases -> OrNull(Ranks)]
PushTable == [PushIds -> OrNull(PushRows)]

LEMMA Fields ==
  ASSUME NEW d \in Databases
  PROVE  /\ d.auth \subseteq AuthRefs /\ d.agents \in AgentTable /\ d.contexts \in ContextTable /\ d.tasks \in TaskTable
         /\ d.groups \subseteq Groups /\ d.members \in MemberTable /\ d.pushes \in PushTable
BY DEF Databases, AgentTable, ContextTable, TaskTable, MemberTable, PushTable

LEMMA AuthSet ==
  ASSUME NEW d \in Databases, NEW x, x \subseteq AuthRefs, NEW n, n = [d EXCEPT !.auth = x]
  PROVE  /\ n \in Databases /\ n.auth = x /\ n.agents = d.agents /\ n.contexts = d.contexts /\ n.tasks = d.tasks
         /\ n.groups = d.groups /\ n.members = d.members /\ n.pushes = d.pushes
BY DEF Databases

LEMMA AgentsSet ==
  ASSUME NEW d \in Databases, NEW x \in AgentTable, NEW n, n = [d EXCEPT !.agents = x]
  PROVE  /\ n \in Databases /\ n.auth = d.auth /\ n.agents = x /\ n.contexts = d.contexts /\ n.tasks = d.tasks
         /\ n.groups = d.groups /\ n.members = d.members /\ n.pushes = d.pushes
BY DEF Databases, AgentTable

LEMMA ContextsSet ==
  ASSUME NEW d \in Databases, NEW x \in ContextTable, NEW n, n = [d EXCEPT !.contexts = x]
  PROVE  /\ n \in Databases /\ n.auth = d.auth /\ n.agents = d.agents /\ n.contexts = x /\ n.tasks = d.tasks
         /\ n.groups = d.groups /\ n.members = d.members /\ n.pushes = d.pushes
BY DEF Databases, ContextTable

LEMMA TasksSet ==
  ASSUME NEW d \in Databases, NEW x \in TaskTable, NEW n, n = [d EXCEPT !.tasks = x]
  PROVE  /\ n \in Databases /\ n.auth = d.auth /\ n.agents = d.agents /\ n.contexts = d.contexts /\ n.tasks = x
         /\ n.groups = d.groups /\ n.members = d.members /\ n.pushes = d.pushes
BY DEF Databases, TaskTable

WithGroups(d, x, y) == [d EXCEPT !.groups = x, !.members = y]

LEMMA GroupsSet ==
  ASSUME NEW d \in Databases, NEW x, x \subseteq Groups, NEW y \in MemberTable, NEW n,
         n = WithGroups(d, x, y)
  PROVE  /\ n \in Databases /\ n.auth = d.auth /\ n.agents = d.agents /\ n.contexts = d.contexts /\ n.tasks = d.tasks
         /\ n.groups = x /\ n.members = y /\ n.pushes = d.pushes
BY DEF WithGroups, Databases, MemberTable

LEMMA PushesSet ==
  ASSUME NEW d \in Databases, NEW x \in PushTable, NEW n, n = [d EXCEPT !.pushes = x]
  PROVE  /\ n \in Databases /\ n.auth = d.auth /\ n.agents = d.agents /\ n.contexts = d.contexts /\ n.tasks = d.tasks
         /\ n.groups = d.groups /\ n.members = d.members /\ n.pushes = x
BY DEF Databases, PushTable

LEMMA UpsertAgentFields ==
  ASSUME NEW d \in Databases, NEW a \in Aliases, NEW row \in AgentRows, NEW n, n = UpsertAgent(d, a, row)
  PROVE  /\ n \in Databases /\ n.auth = d.auth /\ n.agents = [d.agents EXCEPT ![a] = row] /\ n.contexts = d.contexts
         /\ n.tasks = d.tasks /\ n.groups = d.groups /\ n.members = d.members /\ n.pushes = d.pushes
<1>1. PICK x : x = [d.agents EXCEPT ![a] = row]
  OBVIOUS
<1>2. x \in AgentTable
  BY <1>1, Fields DEF AgentTable, OrNull
<1>3. n = [d EXCEPT !.agents = x]
  BY <1>1 DEF UpsertAgent
<1> QED
  BY <1>1, <1>2, <1>3, AgentsSet

LEMMA DetachRows ==
  ASSUME NEW t \in ContextTable, NEW a \in Aliases, NEW n, n = Detach(t, "agent", a)
  PROVE  /\ n \in ContextTable
         /\ \A c \in Contexts : t[c] # Null => /\ n[c] # Null /\ n[c].name = t[c].name /\ n[c].parent = t[c].parent
                                               /\ n[c].state = t[c].state
                                               /\ n[c].agent = IF t[c].agent = a THEN Null ELSE t[c].agent
         /\ \A c \in Contexts : t[c] = Null => n[c] = Null
<1>1. DOMAIN t = Contexts /\ n = [c \in Contexts |-> IF t[c] # Null /\ t[c].agent = a THEN [t[c] EXCEPT !.agent = Null] ELSE t[c]]
  BY DEF ContextTable, Detach
<1>2. ASSUME NEW row \in ContextRows, NEW x, x = [row EXCEPT !.agent = Null]
      PROVE  x \in ContextRows /\ x # Null /\ x.name = row.name /\ x.parent = row.parent /\ x.state = row.state /\ x.agent = Null
  BY <1>2, NullAssumption DEF ContextRows, OrNull
<1> QED
  BY <1>1, <1>2 DEF ContextTable, OrNull

LEMMA CascadeRows ==
  ASSUME NEW t \in PushTable, NEW a \in Aliases, NEW n, n = Cascade(t, "agent", a)
  PROVE  n \in PushTable /\ \A p \in PushIds : n[p] # Null => n[p] = t[p]
BY DEF PushTable, Cascade, OrNull

----------------------------------------------------------------------------
(* The registry: sound databases, and what a command keeps.                *)

CardOk(row) ==
  /\ row.card # Null => row.card.url = row.url /\ row.card.usable = (<<row.card.url, row.card.version>> \in Usable)
  /\ row.etag # Null => row.card # Null /\ row.etag = row.card.version

CardsOk(d) == \A a \in Aliases : d.agents[a] # Null => CardOk(d.agents[a])

NamesOk(t) == \A c, e \in Contexts : c # e /\ t[c] # Null /\ t[e] # Null /\ t[c].name # Null => t[c].name # t[e].name

\* The foreign keys of contexts and members lead to rows of agents.
KeysOk(d) ==
  /\ \A c \in Contexts : d.contexts[c] # Null => References(d.contexts[c].agent, d.agents)
  /\ \A g \in Groups, a \in Aliases : d.members[<<g, a>>] # Null => d.agents[a] # Null

TablesOk(d) == d \in Databases /\ CardsOk(d) /\ NamesOk(d.contexts) /\ KeysOk(d)

\* Read-only agents stay where they are.
AgentsKept(d, n) ==
  \A a \in Aliases : d.agents[a] # Null /\ d.agents[a].readOnly =>
    n.agents[a] # Null /\ n.agents[a].readOnly /\ n.agents[a].url = d.agents[a].url

ClosedKept(d, n) ==
  \A c \in Contexts : d.contexts[c] # Null /\ d.contexts[c].state = "closed" =>
    /\ n.contexts[c] # Null /\ n.contexts[c].state = "closed"
    /\ n.contexts[c].name = d.contexts[c].name /\ n.contexts[c].parent = d.contexts[c].parent

\* No live push config appears.
PushesKept(d, n) ==
  \A p \in PushIds : n.pushes[p] # Null /\ ~ n.pushes[p].deleted =>
    d.pushes[p] # Null /\ ~ d.pushes[p].deleted /\ d.pushes[p].task = n.pushes[p].task

SoundStep(d, n) == TablesOk(n) /\ AgentsKept(d, n) /\ ClosedKept(d, n) /\ PushesKept(d, n)

LEMMA SameIsSound ==
  ASSUME NEW d, TablesOk(d)
  PROVE  SoundStep(d, d)
BY DEF SoundStep, AgentsKept, ClosedKept, PushesKept

LEMMA SoundThenSound ==
  ASSUME NEW d, NEW m, NEW n, SoundStep(d, m), SoundStep(m, n)
  PROVE  SoundStep(d, n)
BY DEF SoundStep, AgentsKept, ClosedKept, PushesKept

\* Whatever row is written, no key loses its agent.
LEMMA AnyRowSound ==
  ASSUME NEW d, TablesOk(d), NEW a \in Aliases, NEW row \in AgentRows, CardOk(row), NEW n, n = UpsertAgent(d, a, row)
  PROVE  /\ TablesOk(n) /\ ClosedKept(d, n) /\ PushesKept(d, n) /\ n.contexts = d.contexts /\ n.pushes = d.pushes
         /\ n.groups = d.groups /\ n.tasks = d.tasks /\ n.members = d.members /\ n.agents[a] = row /\ row # Null
         /\ \A b \in Aliases : b # a => n.agents[b] = d.agents[b]
<1>1. d \in Databases
  BY DEF TablesOk
<1>2. /\ n \in Databases /\ n.agents = [d.agents EXCEPT ![a] = row] /\ n.contexts = d.contexts
      /\ n.tasks = d.tasks /\ n.groups = d.groups /\ n.members = d.members /\ n.pushes = d.pushes
  BY <1>1, UpsertAgentFields
<1>3. n.agents[a] = row /\ row # Null /\ \A b \in Aliases : b # a => n.agents[b] = d.agents[b]
  BY <1>1, <1>2, Fields, NullAssumption DEF AgentTable
<1>4. CardsOk(n)
  BY <1>3 DEF TablesOk, CardsOk
<1>5. NamesOk(n.contexts)
  BY <1>2 DEF TablesOk
<1>6. \A b \in Aliases : d.agents[b] # Null => n.agents[b] # Null
  BY <1>3
<1>7. KeysOk(n)
  <2>1. \A c \in Contexts : d.contexts[c] # Null => d.contexts[c].agent \in OrNull(Aliases)
    BY <1>1, Fields DEF ContextTable, ContextRows, OrNull
  <2> QED
    BY <1>2, <1>6, <2>1 DEF TablesOk, KeysOk, References, OrNull
<1>8. ClosedKept(d, n) /\ PushesKept(d, n)
  BY <1>2 DEF ClosedKept, PushesKept
<1> QED
  BY <1>2, <1>3, <1>4, <1>5, <1>7, <1>8 DEF TablesOk

\* A row is written over none, or over one of the same URL.
LEMMA UpsertAgentSound ==
  ASSUME NEW d, TablesOk(d), NEW a \in Aliases, NEW row \in AgentRows, CardOk(row),
         d.agents[a] # Null /\ d.agents[a].readOnly => row.readOnly /\ row.url = d.agents[a].url,
         NEW n, n = UpsertAgent(d, a, row)
  PROVE  SoundStep(d, n) /\ n.agents[a] = row /\ n.agents[a] # Null /\ n.contexts = d.contexts /\ n.tasks = d.tasks
         /\ n.groups = d.groups /\ n.members = d.members /\ n.pushes = d.pushes
         /\ \A b \in Aliases : b # a => n.agents[b] = d.agents[b]
<1>1. /\ TablesOk(n) /\ ClosedKept(d, n) /\ PushesKept(d, n) /\ n.groups = d.groups /\ n.tasks = d.tasks
      /\ n.contexts = d.contexts /\ n.pushes = d.pushes /\ n.members = d.members
      /\ n.agents[a] = row /\ row # Null /\ \A b \in Aliases : b # a => n.agents[b] = d.agents[b]
  BY AnyRowSound
<1>2. AgentsKept(d, n)
  BY <1>1 DEF AgentsKept
<1> QED
  BY <1>1, <1>2 DEF SoundStep

\* What goes with an agent: its row, its memberships and push configs, and
\* its name in contexts.
LEMMA DeleteAgentSound ==
  ASSUME NEW d, TablesOk(d), NEW a \in Aliases, ~ (d.agents[a] # Null /\ d.agents[a].readOnly),
         NEW n, n = DeleteAgent(d, a)
  PROVE  SoundStep(d, n) /\ n.groups = d.groups /\ \A b \in Aliases : b # a => n.agents[b] = d.agents[b]
<1>1. d \in Databases
  BY DEF TablesOk
<1>2. /\ d.agents \in AgentTable /\ d.contexts \in ContextTable /\ d.members \in MemberTable /\ d.pushes \in PushTable
      /\ d.groups \subseteq Groups
  BY <1>1, Fields
<1>3. PICK x : x = [d.agents EXCEPT ![a] = Null]
  OBVIOUS
<1>4. PICK y : y = Detach(d.contexts, "agent", a)
  OBVIOUS
<1>5. PICK z : z = [m \in Groups \X Aliases |-> IF m[2] = a THEN Null ELSE d.members[m]]
  OBVIOUS
<1>6. PICK w : w = Cascade(d.pushes, "agent", a)
  OBVIOUS
<1>7. n = [d EXCEPT !.agents = x, !.contexts = y, !.members = z, !.pushes = w]
  BY <1>3, <1>4, <1>5, <1>6 DEF DeleteAgent
<1>8. x \in AgentTable /\ x[a] = Null /\ \A b \in Aliases : b # a => x[b] = d.agents[b]
  BY <1>2, <1>3 DEF AgentTable, OrNull
<1>9. /\ y \in ContextTable
      /\ \A c \in Contexts : d.contexts[c] # Null =>
            /\ y[c] # Null /\ y[c].name = d.contexts[c].name /\ y[c].parent = d.contexts[c].parent
            /\ y[c].state = d.contexts[c].state
            /\ y[c].agent = IF d.contexts[c].agent = a THEN Null ELSE d.contexts[c].agent
      /\ \A c \in Contexts : d.contexts[c] = Null => y[c] = Null
  BY <1>2, <1>4, DetachRows
<1>10. z \in MemberTable /\ \A g \in Groups, b \in Aliases : z[<<g, b>>] # Null => b # a /\ d.members[<<g, b>>] # Null
  BY <1>2, <1>5 DEF MemberTable, OrNull
<1>11. w \in PushTable /\ \A p \in PushIds : w[p] # Null => w[p] = d.pushes[p]
  BY <1>2, <1>6, CascadeRows
<1>12. n \in Databases /\ n.agents = x /\ n.contexts = y /\ n.members = z /\ n.pushes = w /\ n.groups = d.groups
  BY <1>1, <1>7, <1>8, <1>9, <1>10, <1>11 DEF Databases, AgentTable, ContextTable, MemberTable, PushTable
<1>13. CardsOk(n)
  BY <1>8, <1>12 DEF TablesOk, CardsOk
<1>14. NamesOk(n.contexts)
  BY <1>9, <1>12 DEF TablesOk, NamesOk
<1>15. KeysOk(n)
  <2>1. ASSUME NEW c \in Contexts, y[c] # Null PROVE References(y[c].agent, x)
    <3>1. d.contexts[c] # Null /\ d.contexts[c].agent \in OrNull(Aliases)
      BY <1>2, <1>9, <2>1 DEF ContextTable, ContextRows, OrNull
    <3>2. References(d.contexts[c].agent, d.agents)
      BY <3>1 DEF TablesOk, KeysOk
    <3> QED
      BY <1>8, <1>9, <3>1, <3>2 DEF References, OrNull
  <2>2. ASSUME NEW g \in Groups, NEW b \in Aliases, z[<<g, b>>] # Null PROVE x[b] # Null
    BY <1>8, <1>10, <2>2 DEF TablesOk, KeysOk
  <2> QED
    BY <1>12, <2>1, <2>2 DEF KeysOk
<1>16. AgentsKept(d, n)
  BY <1>8, <1>12 DEF AgentsKept
<1>17. ClosedKept(d, n) /\ PushesKept(d, n)
  BY <1>9, <1>11, <1>12 DEF ClosedKept, PushesKept
<1> QED
  BY <1>8, <1>12, <1>13, <1>14, <1>15, <1>16, <1>17 DEF SoundStep, TablesOk

\* A context is written over none, or keeps its name, parent and, once
\* closed, its state.
LEMMA UpsertContextSound ==
  ASSUME NEW d, TablesOk(d), NEW c \in Contexts, NEW row \in ContextRows, References(row.agent, d.agents),
         \/ d.contexts[c] = Null /\ NameAvailable(d, row.name)
         \/ /\ d.contexts[c] # Null /\ row.name = d.contexts[c].name /\ row.parent = d.contexts[c].parent
            /\ d.contexts[c].state = "closed" => row.state = "closed",
         NEW n, n = UpsertContext(d, c, row)
  PROVE  SoundStep(d, n) /\ n.agents = d.agents
<1>1. d \in Databases
  BY DEF TablesOk
<1>2. PICK x : x = [d.contexts EXCEPT ![c] = row]
  OBVIOUS
<1>3. x \in ContextTable /\ x[c] = row /\ row # Null /\ \A e \in Contexts : e # c => x[e] = d.contexts[e]
  BY <1>1, <1>2, Fields, NullAssumption DEF ContextTable, OrNull
<1>4. n = [d EXCEPT !.contexts = x]
  BY <1>2 DEF UpsertContext
<1>5. /\ n \in Databases /\ n.agents = d.agents /\ n.contexts = x /\ n.members = d.members /\ n.pushes = d.pushes
  BY <1>1, <1>3, <1>4, ContextsSet
<1>6. NamesOk(x)
  <2>1. NamesOk(d.contexts)
    BY DEF TablesOk
  <2>2. CASE d.contexts[c] = Null /\ NameAvailable(d, row.name)
    BY <1>3, <2>1, <2>2 DEF NamesOk, NameAvailable
  <2>3. CASE d.contexts[c] # Null /\ row.name = d.contexts[c].name
    BY <1>3, <2>1, <2>3 DEF NamesOk
  <2> QED
    BY <2>2, <2>3
<1>7. KeysOk(n)
  BY <1>3, <1>5 DEF TablesOk, KeysOk
<1>8. CardsOk(n) /\ AgentsKept(d, n) /\ PushesKept(d, n)
  BY <1>5 DEF TablesOk, CardsOk, AgentsKept, PushesKept
<1>9. ClosedKept(d, n)
  BY <1>3, <1>5 DEF ClosedKept
<1> QED
  BY <1>5, <1>6, <1>7, <1>8, <1>9 DEF SoundStep, TablesOk

LEMMA UpsertTaskSound ==
  ASSUME NEW d, TablesOk(d), NEW t \in Tasks, NEW row \in TaskRows, NEW n, n = UpsertTask(d, t, row)
  PROVE  SoundStep(d, n) /\ n.agents = d.agents /\ n.pushes = d.pushes
<1>1. d \in Databases
  BY DEF TablesOk
<1>2. PICK x : x = [d.tasks EXCEPT ![t] = row]
  OBVIOUS
<1>3. x \in TaskTable
  BY <1>1, <1>2, Fields DEF TaskTable, OrNull
<1>4. n = [d EXCEPT !.tasks = x]
  BY <1>2 DEF UpsertTask
<1>5. /\ n \in Databases /\ n.agents = d.agents /\ n.contexts = d.contexts /\ n.members = d.members /\ n.pushes = d.pushes
  BY <1>1, <1>3, <1>4, TasksSet
<1> QED
  BY <1>5 DEF SoundStep, TablesOk, CardsOk, KeysOk, AgentsKept, ClosedKept, PushesKept

\* Groups come and go; members are agents.
LEMMA GroupsSound ==
  ASSUME NEW d, TablesOk(d), NEW x, x \subseteq Groups, NEW y \in MemberTable,
         \A g \in Groups, a \in Aliases : y[<<g, a>>] # Null => d.agents[a] # Null,
         NEW n, n = WithGroups(d, x, y)
  PROVE  SoundStep(d, n) /\ n.agents = d.agents /\ n.groups = x
<1>1. d \in Databases
  BY DEF TablesOk
<1>2. n \in Databases /\ n.agents = d.agents /\ n.contexts = d.contexts /\ n.members = y /\ n.pushes = d.pushes /\ n.groups = x
  BY <1>1, GroupsSet
<1>3. KeysOk(n)
  BY <1>2 DEF TablesOk, KeysOk
<1> QED
  BY <1>2, <1>3 DEF SoundStep, TablesOk, CardsOk, AgentsKept, ClosedKept, PushesKept

LEMMA InsertGroupSound ==
  ASSUME NEW d, TablesOk(d), NEW g \in Groups, NEW n, n = InsertGroup(d, g)
  PROVE  SoundStep(d, n) /\ n.agents = d.agents /\ n.groups = d.groups \cup {g}
<1>1. d \in Databases
  BY DEF TablesOk
<1>2. d.groups \cup {g} \subseteq Groups /\ d.members \in MemberTable
  BY <1>1, Fields
<1>3. n = WithGroups(d, d.groups \cup {g}, d.members)
  BY <1>1 DEF WithGroups, InsertGroup, Databases
<1>4. \A h \in Groups, a \in Aliases : d.members[<<h, a>>] # Null => d.agents[a] # Null
  BY DEF TablesOk, KeysOk
<1> QED
  BY <1>2, <1>3, <1>4, GroupsSound

LEMMA MemberSound ==
  ASSUME NEW d, TablesOk(d), NEW g \in Groups, NEW a \in Aliases, NEW r \in OrNull(Ranks), d.agents[a] # Null,
         NEW n, n = [d EXCEPT !.members[<<g, a>>] = r]
  PROVE  SoundStep(d, n) /\ n.agents = d.agents /\ n.groups = d.groups
<1>1. d \in Databases
  BY DEF TablesOk
<1>2. d.groups \subseteq Groups /\ d.members \in MemberTable
  BY <1>1, Fields
<1>3. PICK y : y = [d.members EXCEPT ![<<g, a>>] = r]
  OBVIOUS
<1>4. y \in MemberTable /\ \A h \in Groups, b \in Aliases : y[<<h, b>>] # Null => b = a \/ d.members[<<h, b>>] # Null
  BY <1>2, <1>3 DEF MemberTable
<1>5. n = WithGroups(d, d.groups, y)
  BY <1>1, <1>3 DEF WithGroups, Databases
<1>6. \A h \in Groups, b \in Aliases : y[<<h, b>>] # Null => d.agents[b] # Null
  BY <1>4 DEF TablesOk, KeysOk
<1> QED
  BY <1>2, <1>4, <1>5, <1>6, GroupsSound

LEMMA RenameGroupSound ==
  ASSUME NEW d, TablesOk(d), NEW g \in Groups, NEW h \in Groups, NEW n, n = RenameGroupRow(d, g, h)
  PROVE  SoundStep(d, n) /\ n.agents = d.agents /\ h \in n.groups
<1>1. d \in Databases
  BY DEF TablesOk
<1>2. (d.groups \ {g}) \cup {h} \subseteq Groups /\ d.members \in MemberTable
  BY <1>1, Fields
<1>3. PICK y : y = [m \in Groups \X Aliases |-> IF m[1] = h THEN d.members[<<g, m[2]>>]
                                               ELSE IF m[1] = g THEN Null ELSE d.members[m]]
  OBVIOUS
<1>4. n = WithGroups(d, (d.groups \ {g}) \cup {h}, y)
  BY <1>3 DEF WithGroups, RenameGroupRow
<1>5. y \in MemberTable
  BY <1>2, <1>3 DEF MemberTable, OrNull
<1>6. \A k \in Groups, a \in Aliases : y[<<k, a>>] # Null => d.agents[a] # Null
  BY <1>3 DEF TablesOk, KeysOk
<1> QED
  BY <1>2, <1>4, <1>5, <1>6, GroupsSound

LEMMA DeleteGroupSound ==
  ASSUME NEW d, TablesOk(d), NEW g \in Groups, NEW n, n = DeleteGroupRow(d, g)
  PROVE  SoundStep(d, n)
<1>1. d \in Databases
  BY DEF TablesOk
<1>2. d.groups \ {g} \subseteq Groups /\ d.members \in MemberTable
  BY <1>1, Fields
<1>3. PICK y : y = [m \in Groups \X Aliases |-> IF m[1] = g THEN Null ELSE d.members[m]]
  OBVIOUS
<1>4. n = WithGroups(d, d.groups \ {g}, y)
  BY <1>3 DEF WithGroups, DeleteGroupRow
<1>5. y \in MemberTable
  BY <1>2, <1>3 DEF MemberTable, OrNull
<1>6. \A k \in Groups, a \in Aliases : y[<<k, a>>] # Null => d.agents[a] # Null
  BY <1>3 DEF TablesOk, KeysOk
<1> QED
  BY <1>2, <1>4, <1>5, <1>6, GroupsSound

\* A card is cached with the validator that came with it.
WithCard(row, card, tag) == [row EXCEPT !.card = card, !.etag = tag]

LEMMA CachedRow ==
  ASSUME NEW row \in AgentRows, NEW card \in Cards, card.url = row.url,
         card.usable = (<<card.url, card.version>> \in Usable),
         NEW tag, tag = IF card.url \in Tagged THEN card.version ELSE Null,
         NEW x, x = WithCard(row, card, tag)
  PROVE  x \in AgentRows /\ CardOk(x) /\ x.card = card /\ x.url = row.url /\ x.readOnly = row.readOnly /\ x # Null
<1>1. tag \in OrNull(Versions) /\ (tag # Null => tag = card.version) /\ card \in OrNull(Cards) /\ card # Null
  BY NullAssumption DEF OrNull, Cards
<1>2. x \in AgentRows /\ x.card = card /\ x.etag = tag /\ x.url = row.url /\ x.readOnly = row.readOnly
  BY <1>1 DEF WithCard, AgentRows
<1> QED
  BY <1>1, <1>2, NullAssumption DEF CardOk

LEMMA ServedCardOk ==
  ASSUME served \in [Urls -> Versions], NEW u \in Urls
  PROVE  /\ ServedCard(u) \in Cards /\ ServedCard(u).url = u
         /\ ServedCard(u).usable = (<<ServedCard(u).url, ServedCard(u).version>> \in Usable)
BY DEF ServedCard, Cards

LEMMA CacheSound ==
  ASSUME NEW d, TablesOk(d), NEW a \in Aliases, d.agents[a] # Null, served \in [Urls -> Versions],
         NEW n, n = CacheAgentCard(d, a, ServedCard(d.agents[a].url))
  PROVE  /\ SoundStep(d, n) /\ n.agents[a] # Null /\ n.agents[a].url = d.agents[a].url
         /\ n.agents[a].card = ServedCard(d.agents[a].url)
<1>1. PICK row \in AgentRows : row = d.agents[a]
  BY Fields DEF TablesOk, AgentTable, OrNull
<1>2. row.url \in Urls
  BY DEF AgentRows
<1>3. PICK card \in Cards : card = ServedCard(row.url) /\ card.url = row.url
                            /\ card.usable = (<<card.url, card.version>> \in Usable)
  BY <1>2, ServedCardOk
<1>4. PICK tag, x : tag = (IF card.url \in Tagged THEN card.version ELSE Null) /\ x = WithCard(row, card, tag)
  OBVIOUS
<1>5. x \in AgentRows /\ CardOk(x) /\ x.card = card /\ x.url = row.url /\ x.readOnly = row.readOnly /\ x # Null
  BY <1>3, <1>4, CachedRow
<1>6. n = UpsertAgent(d, a, x)
  BY <1>1, <1>3, <1>4 DEF CacheAgentCard, WithCard
<1>7. SoundStep(d, n) /\ n.agents[a] = x
  BY <1>1, <1>5, <1>6, UpsertAgentSound
<1> QED
  BY <1>1, <1>3, <1>5, <1>7

----------------------------------------------------------------------------
(* The registry: the inductive invariant.                                  *)

PushesHeld(d, held) ==
  \A p \in PushIds : d.pushes[p] # Null /\ ~ d.pushes[p].deleted => \E u \in Urls : <<u, d.pushes[p].task, p>> \in held

\* The card a job is about to write is of the row it writes.
JobRowOk(j) == j = Null \/ (j \in JobRows /\ CardOk(j.row))

RegistryInv ==
  /\ config \in Configs /\ secrets \subseteq AuthRefs /\ served \in [Urls -> Versions] /\ exit \in Outcomes
  /\ remotePush \subseteq Urls \X Tasks \X PushIds /\ cut \subseteq Urls \X Tasks \X PushIds
  /\ TablesOk(db) /\ PushesHeld(db, remotePush \cup cut)
  /\ JobRowOk(jobRow)

Pinned(d) ==
  \A a \in Seeded : d.agents[a] # Null /\ d.agents[a].readOnly /\ d.agents[a].url = config.agents[a].url

\* The row the configuration gives an agent keeps the card of its URL alone.
LEMMA ConfigRowOk ==
  ASSUME RegistryInv, NEW e, e.agents = db.agents, NEW a \in Seeded, NEW row, row = ConfigRow(e, a)
  PROVE  row \in AgentRows /\ row # Null /\ CardOk(row) /\ row.readOnly /\ row.url = config.agents[a].url
<1>1. a \in Aliases
  BY DEF Seeded
<1>2. PICK given : given = config.agents[a]
  OBVIOUS
<1>3. given.url \in Urls /\ given.auth \in OrNull(AuthRefs)
  BY <1>1, <1>2, ConfigsAssumption DEF RegistryInv, Seeded, OrNull
<1>4. PICK old : old = db.agents[a]
  OBVIOUS
<1>5. old \in OrNull(AgentRows) /\ (old # Null => CardOk(old))
  BY <1>1, <1>4, Fields DEF RegistryInv, TablesOk, CardsOk, AgentTable
<1>6. PICK card, etag : /\ card = IF old # Null /\ old.url = given.url THEN old.card ELSE Null
                       /\ etag = IF old # Null /\ old.url = given.url THEN old.etag ELSE Null
  OBVIOUS
<1>8. row = [source |-> "config_seed", url |-> given.url, auth |-> given.auth, readOnly |-> TRUE, card |-> card, etag |-> etag]
  BY <1>2, <1>4, <1>6 DEF ConfigRow
<1>9. card \in OrNull(Cards) /\ etag \in OrNull(Versions)
  BY <1>5, <1>6 DEF OrNull, AgentRows
<1>10. row \in AgentRows
  BY <1>3, <1>8, <1>9 DEF AgentRows
<1>11. row.card = card /\ row.etag = etag /\ row.url = given.url /\ row.readOnly
  BY <1>8
<1>12. CardOk(row)
  BY <1>5, <1>6, <1>11 DEF CardOk
<1> QED
  BY <1>2, <1>10, <1>11, <1>12, NullAssumption

\* Opening the registry, all of it or, when killed, the agents in S.
LEMMA SyncSound ==
  ASSUME RegistryInv, NEW S, S \subseteq Seeded, NEW d, d = SyncConfigAgents(UpsertAuthRefs(db, config.auth), S)
  PROVE  /\ TablesOk(d) /\ d.contexts = db.contexts /\ d.pushes = db.pushes /\ config.auth \subseteq d.auth
         /\ \A a \in S : d.agents[a] # Null /\ d.agents[a].readOnly /\ d.agents[a].url = config.agents[a].url
<1>1. TablesOk(db) /\ db \in Databases /\ config \in Configs
  BY DEF RegistryInv, TablesOk
<1>2. PICK auth : auth = db.auth \cup config.auth
  OBVIOUS
<1>3. auth \subseteq AuthRefs
  BY <1>1, <1>2, Fields, ConfigsAssumption
<1>4. PICK e : e = UpsertAuthRefs(db, config.auth)
  OBVIOUS
<1>5. e = [db EXCEPT !.auth = auth]
  BY <1>2, <1>4 DEF UpsertAuthRefs
<1>6. /\ e \in Databases /\ e.auth = auth /\ e.agents = db.agents /\ e.contexts = db.contexts
      /\ e.members = db.members /\ e.pushes = db.pushes
  BY <1>1, <1>3, <1>5, AuthSet
<1>7. PICK x : x = [a \in Aliases |-> IF a \in S THEN ConfigRow(e, a) ELSE e.agents[a]]
  OBVIOUS
<1>8. ASSUME NEW a \in S
      PROVE  x[a] \in AgentRows /\ x[a] # Null /\ CardOk(x[a]) /\ x[a].readOnly /\ x[a].url = config.agents[a].url
  <2>1. a \in Seeded /\ a \in Aliases
    BY DEF Seeded
  <2>2. x[a] = ConfigRow(e, a)
    BY <1>7, <2>1
  <2> QED
    BY <1>6, <2>1, <2>2, ConfigRowOk
<1>9. \A a \in Aliases : a \notin S => x[a] = db.agents[a]
  BY <1>6, <1>7
<1>10. x \in AgentTable
  <2>1. \A a \in Aliases : x[a] \in OrNull(AgentRows)
    BY <1>1, <1>8, <1>9, Fields DEF AgentTable, OrNull
  <2> QED
    BY <1>7, <2>1 DEF AgentTable
<1>11. d = [e EXCEPT !.agents = x]
  BY <1>4, <1>7 DEF SyncConfigAgents
<1>12. /\ d \in Databases /\ d.auth = auth /\ d.agents = x /\ d.contexts = db.contexts /\ d.members = db.members
       /\ d.pushes = db.pushes
  BY <1>6, <1>10, <1>11, AgentsSet
<1>13. CardsOk(d)
  BY <1>1, <1>8, <1>9, <1>12 DEF TablesOk, CardsOk
<1>14. \A a \in Aliases : db.agents[a] # Null => x[a] # Null
  BY <1>8, <1>9
<1>15. KeysOk(d)
  <2>1. \A c \in Contexts : db.contexts[c] # Null => db.contexts[c].agent \in OrNull(Aliases)
    BY <1>1, Fields DEF ContextTable, ContextRows, OrNull
  <2> QED
    BY <1>1, <1>12, <1>14, <2>1 DEF TablesOk, KeysOk, References, OrNull
<1> QED
  BY <1>1, <1>2, <1>8, <1>12, <1>13, <1>15 DEF TablesOk

LEMMA OpenSound ==
  ASSUME RegistryInv, NEW d, d = OpenAgentRegistry
  PROVE  TablesOk(d) /\ d.contexts = db.contexts /\ d.pushes = db.pushes /\ config.auth \subseteq d.auth /\ Pinned(d)
BY SyncSound DEF OpenAgentRegistry, Pinned

\* The removal or renaming the schema refuses.
Refused ==
  \E a \in Aliases : /\ TasksOf(OpenAgentRegistry, a) # {}
                     /\ EnsureWritable(OpenAgentRegistry, a)
                     /\ RemoveAgent(a) \/ \E b \in Aliases : RenameAgent(a, b)

\* What every step of the registry does.
RegistryEffect ==
  /\ RegistryInv' /\ ClosedKept(db, db')
  /\ db' # db /\ exit' \notin {"killed", "job"} => Pinned(db')
  /\ exit' = "storage" /\ exit # "storage" => Refused

\* A command leaves a database that follows soundly from the opened one.
LEMMA FromOpened ==
  ASSUME RegistryInv, NEW n, TablesOk(n), AgentsKept(OpenAgentRegistry, n), ClosedKept(OpenAgentRegistry, n),
         db' = n, exit' \in Outcomes, exit' = "storage" => Refused,
         UNCHANGED <<config, secrets, served, jobRow>>,
         remotePush' \subseteq Urls \X Tasks \X PushIds, cut' \subseteq Urls \X Tasks \X PushIds,
         PushesHeld(n, remotePush' \cup cut')
  PROVE  RegistryEffect
<1>1. PICK d : d = OpenAgentRegistry
  OBVIOUS
<1>2. TablesOk(d) /\ d.contexts = db.contexts /\ Pinned(d)
  BY <1>1, OpenSound
<1>3. TablesOk(n) /\ AgentsKept(d, n) /\ ClosedKept(d, n)
  BY <1>1
<1>4. RegistryInv'
  <2>1. TablesOk(n)' /\ PushesHeld(n, remotePush \cup cut)'
    BY <1>3 DEF TablesOk, PushesHeld, CardsOk, CardOk, NamesOk, KeysOk
  <2>2. JobRowOk(jobRow)'
    BY DEF RegistryInv, JobRowOk, CardOk
  <2> QED
    BY <2>1, <2>2 DEF RegistryInv
<1>5. ClosedKept(db, db')
  BY <1>2, <1>3 DEF ClosedKept
<1>6. Pinned(db')
  BY <1>2, <1>3 DEF Pinned, AgentsKept, Seeded
<1> QED
  BY <1>4, <1>5, <1>6 DEF RegistryEffect

\* The same, where the agents' push configs stay.
LEMMA FromOpenedLocal ==
  ASSUME RegistryInv, NEW n, SoundStep(OpenAgentRegistry, n), db' = n, exit' \in Outcomes,
         exit' = "storage" => Refused, UNCHANGED world
  PROVE  RegistryEffect
<1>1. PICK d : d = OpenAgentRegistry
  OBVIOUS
<1>2. d.pushes = db.pushes /\ PushesKept(d, n)
  BY <1>1, OpenSound DEF SoundStep
<1>3. PushesHeld(n, remotePush \cup cut)
  BY <1>2 DEF RegistryInv, PushesHeld, PushesKept
<1>4. remotePush' = remotePush /\ cut' = cut /\ UNCHANGED <<config, secrets, served, jobRow>>
  BY DEF world
<1>5. PushesHeld(n, remotePush' \cup cut')
  BY <1>3, <1>4
<1> QED
  BY <1>4, <1>5, FromOpened DEF RegistryInv, SoundStep

\* A command that ends without having changed anything but the sync.
LEMMA EndsAsOpened ==
  ASSUME RegistryInv, db' = OpenAgentRegistry, exit' \in Outcomes, exit' = "storage" => Refused, UNCHANGED world
  PROVE  RegistryEffect
<1>1. SoundStep(OpenAgentRegistry, OpenAgentRegistry)
  BY OpenSound, SameIsSound
<1> QED
  BY <1>1, FromOpenedLocal

\* A validated change n and its event about agent a and group g.
LEMMA JournalledEffect ==
  ASSUME RegistryInv, NEW n, NEW a, NEW g, Journalled(n, a, g), UNCHANGED world,
         SoundStep(OpenAgentRegistry, n), References(a, n.agents), g = Null \/ g \in n.groups
  PROVE  RegistryEffect
<1>1. AppendEventOk(n, a, g, Null)
  BY DEF AppendEventOk, References
<1>2. db' = n /\ exit' \in {"ok", "killed"}
  BY <1>1 DEF Journalled, Ended
<1> QED
  BY <1>2, FromOpenedLocal DEF Outcomes

LEMMA AddAgentEffect ==
  ASSUME RegistryInv, NEW a \in Aliases, NEW u \in Urls, NEW r \in OrNull(AuthRefs), AddAgent(a, u, r)
  PROVE  RegistryEffect
<1>1. PICK d : d = OpenAgentRegistry
  OBVIOUS
<1>2. TablesOk(d) /\ config.auth \subseteq d.auth
  BY <1>1, OpenSound
<1>3. PICK row : row = [source |-> "local", url |-> u, auth |-> r, card |-> Null, etag |-> Null, readOnly |-> FALSE]
  OBVIOUS
<1>4. row \in AgentRows /\ row.auth = r /\ row.card = Null /\ row.etag = Null
  BY <1>3 DEF AgentRows, OrNull
<1>5. PICK n : n = UpsertAgent(d, a, row)
  OBVIOUS
<1>6. /\ UNCHANGED world
      /\ \/ Ended(d, "invalid")
         \/ (r = Null \/ r \in config.auth) /\ ~ UpsertAgentOk(d, row) /\ Ended(d, "storage")
         \/ ~ Exists(d, a) /\ Journalled(n, a, Null)
  BY <1>1, <1>3, <1>5 DEF AddAgent, Mutation
<1>7. CASE Ended(d, "invalid")
  BY <1>1, <1>6, <1>7, EndsAsOpened DEF Ended, Outcomes
<1>8. r = Null \/ r \in config.auth => UpsertAgentOk(d, row)
  BY <1>2, <1>4 DEF UpsertAgentOk
<1>9. CASE ~ Exists(d, a) /\ Journalled(n, a, Null)
  <2>1. CardOk(row)
    BY <1>4 DEF CardOk
  <2>2. SoundStep(d, n) /\ n.agents[a] # Null
    BY <1>2, <1>4, <1>5, <1>9, <2>1, UpsertAgentSound DEF Exists
  <2> QED
    BY <1>1, <1>6, <1>9, <2>2, JournalledEffect DEF References
<1> QED
  BY <1>6, <1>7, <1>8, <1>9

LEMMA RemoveAgentEffect ==
  ASSUME RegistryInv, NEW a \in Aliases, RemoveAgent(a)
  PROVE  RegistryEffect
<1>1. PICK d : d = OpenAgentRegistry
  OBVIOUS
<1>2. TablesOk(d)
  BY <1>1, OpenSound
<1>3. PICK n : n = DeleteAgent(d, a)
  OBVIOUS
<1>4. /\ UNCHANGED world
      /\ \/ Ended(d, "invalid")
         \/ EnsureWritable(d, a) /\ ~ DeleteAgentOk(d, a) /\ Ended(d, "storage")
         \/ EnsureWritable(d, a) /\ Journalled(n, Null, Null)
  BY <1>1, <1>3 DEF RemoveAgent, Mutation
<1>5. CASE Ended(d, "invalid")
  BY <1>1, <1>4, <1>5, EndsAsOpened DEF Ended, Outcomes
<1>6. CASE EnsureWritable(d, a) /\ ~ DeleteAgentOk(d, a) /\ Ended(d, "storage")
  <2>1. Refused
    BY <1>1, <1>6 DEF Refused, DeleteAgentOk
  <2> QED
    BY <1>1, <1>4, <1>6, <2>1, EndsAsOpened DEF Ended, Outcomes
<1>7. CASE EnsureWritable(d, a) /\ Journalled(n, Null, Null)
  <2>1. SoundStep(d, n)
    BY <1>2, <1>3, <1>7, DeleteAgentSound DEF EnsureWritable
  <2> QED
    BY <1>1, <1>4, <1>7, <2>1, JournalledEffect DEF References
<1> QED
  BY <1>4, <1>5, <1>6, <1>7

LEMMA RenameAgentEffect ==
  ASSUME RegistryInv, NEW a \in Aliases, NEW b \in Aliases, RenameAgent(a, b)
  PROVE  RegistryEffect
<1>1. PICK d : d = OpenAgentRegistry
  OBVIOUS
<1>2. TablesOk(d)
  BY <1>1, OpenSound
<1>3. PICK row : row = [d.agents[a] EXCEPT !.readOnly = FALSE]
  OBVIOUS
<1>4. PICK m : m = UpsertAgent(d, b, row)
  OBVIOUS
<1>5. PICK n : n = DeleteAgent(m, a)
  OBVIOUS
<1>6. /\ UNCHANGED world
      /\ \/ Ended(d, "invalid")
         \/ EnsureWritable(d, a) /\ ~ DeleteAgentOk(d, a) /\ Ended(d, "storage")
         \/ a # b /\ EnsureWritable(d, a) /\ ~ Exists(d, b) /\ Journalled(n, b, Null)
  BY <1>1, <1>3, <1>4, <1>5 DEF RenameAgent, Mutation
<1>7. CASE Ended(d, "invalid")
  BY <1>1, <1>6, <1>7, EndsAsOpened DEF Ended, Outcomes
<1>8. CASE EnsureWritable(d, a) /\ ~ DeleteAgentOk(d, a) /\ Ended(d, "storage")
  <2>1. Refused
    BY <1>1, <1>8 DEF Refused, DeleteAgentOk
  <2> QED
    BY <1>1, <1>6, <1>8, <2>1, EndsAsOpened DEF Ended, Outcomes
<1>9. CASE a # b /\ EnsureWritable(d, a) /\ ~ Exists(d, b) /\ Journalled(n, b, Null)
  <2>1. PICK old \in AgentRows : old = d.agents[a] /\ CardOk(old)
    BY <1>2, <1>9, Fields DEF TablesOk, CardsOk, AgentTable, OrNull, EnsureWritable, Exists
  <2>2. row \in AgentRows /\ row.card = old.card /\ row.etag = old.etag /\ row.url = old.url
    BY <1>3, <2>1 DEF AgentRows
  <2>3. CardOk(row)
    BY <2>1, <2>2 DEF CardOk
  <2>4. SoundStep(d, m) /\ m.agents[b] # Null /\ m.agents[a] = d.agents[a]
    BY <1>2, <1>4, <1>9, <2>2, <2>3, UpsertAgentSound DEF Exists
  <2>5. SoundStep(m, n) /\ n.agents[b] = m.agents[b]
    <3>1. TablesOk(m) /\ ~ (m.agents[a] # Null /\ m.agents[a].readOnly)
      BY <1>9, <2>4 DEF SoundStep, EnsureWritable
    <3> QED
      BY <1>5, <1>9, <3>1, DeleteAgentSound
  <2>6. SoundStep(d, n) /\ n.agents[b] # Null
    BY <2>4, <2>5, SoundThenSound
  <2> QED
    BY <1>1, <1>6, <1>9, <2>6, JournalledEffect DEF References
<1> QED
  BY <1>6, <1>7, <1>8, <1>9

LEMMA OpeningEffect ==
  ASSUME RegistryInv, ReadRegistry \/ KilledWhileOpening
  PROVE  RegistryEffect
<1>1. CASE ReadRegistry
  BY <1>1, EndsAsOpened DEF ReadRegistry, Ended, Outcomes
<1>2. CASE KilledWhileOpening
  <2>1. PICK S \in SUBSET Seeded : Ended(SyncConfigAgents(UpsertAuthRefs(db, config.auth), S), "killed")
    BY <1>2 DEF KilledWhileOpening
  <2>2. PICK n : n = SyncConfigAgents(UpsertAuthRefs(db, config.auth), S)
    OBVIOUS
  <2>3. TablesOk(n) /\ n.contexts = db.contexts /\ n.pushes = db.pushes
    BY <2>2, SyncSound
  <2>4. db' = n /\ exit' = "killed" /\ UNCHANGED world
    BY <1>2, <2>1, <2>2 DEF KilledWhileOpening, Ended
  <2>5. TablesOk(n)' /\ PushesHeld(n, remotePush \cup cut)'
    BY <2>3, <2>4 DEF RegistryInv, world, TablesOk, PushesHeld, CardsOk, CardOk, NamesOk, KeysOk
  <2>6. RegistryInv'
    BY <2>4, <2>5 DEF RegistryInv, world, Outcomes
  <2> QED
    BY <2>3, <2>4, <2>6 DEF RegistryEffect, ClosedKept
<1> QED
  BY <1>1, <1>2

LEMMA FetchCardEffect ==
  ASSUME RegistryInv, NEW d, d = OpenAgentRegistry, NEW a \in Aliases, Exists(d, a), NEW negotiate \in BOOLEAN,
         FetchCard(d, a, negotiate), UNCHANGED world
  PROVE  RegistryEffect
<1>1. TablesOk(d) /\ served \in [Urls -> Versions]
  BY OpenSound DEF RegistryInv
<1>2. PICK n : n = CacheAgentCard(d, a, ServedCard(d.agents[a].url))
  OBVIOUS
<1>3. (db' = d \/ db' = n) /\ exit' \in {"ok", "failed"}
  BY <1>2 DEF FetchCard, Ended
<1>4. SoundStep(d, n)
  BY <1>1, <1>2, CacheSound DEF Exists
<1>5. CASE db' = d
  BY <1>3, <1>5, EndsAsOpened DEF Outcomes
<1>6. CASE db' = n
  BY <1>3, <1>4, <1>6, FromOpenedLocal DEF Outcomes
<1> QED
  BY <1>3, <1>5, <1>6

LEMMA CardEffect ==
  ASSUME RegistryInv, CardCommands
  PROVE  RegistryEffect
<1>1. PICK a \in Aliases : RefreshAgent(a) \/ InspectAgent(a) \/ \E refresh \in BOOLEAN : AgentCapabilities(a, refresh)
  BY DEF CardCommands
<1>2. PICK d : d = OpenAgentRegistry
  OBVIOUS
<1>3. /\ UNCHANGED world
      /\ \/ \E o \in {"ok", "failed", "invalid"} : Ended(d, o)
         \/ Exists(d, a) /\ \E negotiate \in BOOLEAN : FetchCard(d, a, negotiate)
  BY <1>1, <1>2 DEF RefreshAgent, InspectAgent, AgentCapabilities
<1>4. CASE \E o \in {"ok", "failed", "invalid"} : Ended(d, o)
  BY <1>2, <1>3, <1>4, EndsAsOpened DEF Ended, Outcomes
<1>5. CASE Exists(d, a) /\ \E negotiate \in BOOLEAN : FetchCard(d, a, negotiate)
  BY <1>2, <1>3, <1>5, FetchCardEffect
<1> QED
  BY <1>3, <1>4, <1>5

\* The cards of several agents, one row each.
LEMMA CacheAllSound ==
  ASSUME RegistryInv, NEW d, TablesOk(d), NEW S, S \subseteq Aliases, \A a \in S : d.agents[a] # Null,
         NEW x, x = [a \in Aliases |-> IF a \in S THEN CacheAgentCard(d, a, ServedCard(d.agents[a].url)).agents[a] ELSE d.agents[a]],
         NEW n, n = [d EXCEPT !.agents = x]
  PROVE  SoundStep(d, n)
<1>1. d \in Databases /\ served \in [Urls -> Versions]
  BY DEF TablesOk, RegistryInv
<1>2. ASSUME NEW a \in S
      PROVE  /\ x[a] \in AgentRows /\ x[a] # Null /\ CardOk(x[a]) /\ x[a].url = d.agents[a].url
             /\ d.agents[a].readOnly => x[a].readOnly
  <2>1. PICK m : m = CacheAgentCard(d, a, ServedCard(d.agents[a].url))
    OBVIOUS
  <2>2. SoundStep(d, m) /\ m.agents[a] # Null /\ m.agents[a].url = d.agents[a].url
    BY <1>1, <2>1, CacheSound
  <2>3. x[a] = m.agents[a]
    BY <2>1
  <2>4. m \in Databases /\ CardOk(m.agents[a]) /\ (d.agents[a].readOnly => m.agents[a].readOnly)
    BY <2>2 DEF SoundStep, TablesOk, CardsOk, AgentsKept
  <2> QED
    BY <2>2, <2>3, <2>4, Fields DEF AgentTable, OrNull
<1>3. \A a \in Aliases : a \notin S => x[a] = d.agents[a]
  OBVIOUS
<1>4. x \in AgentTable
  <2>1. \A a \in Aliases : x[a] \in OrNull(AgentRows)
    BY <1>1, <1>2, <1>3, Fields DEF AgentTable, OrNull
  <2> QED
    BY <2>1 DEF AgentTable
<1>5. n \in Databases /\ n.agents = x /\ n.contexts = d.contexts /\ n.members = d.members /\ n.pushes = d.pushes
  BY <1>1, <1>4, AgentsSet
<1>6. CardsOk(n) /\ AgentsKept(d, n)
  <2>1. \A a \in Aliases : d.agents[a] # Null =>
          x[a] # Null /\ x[a].url = d.agents[a].url /\ (d.agents[a].readOnly => x[a].readOnly)
    BY <1>2, <1>3
  <2>2. CardsOk(n)
    BY <1>2, <1>3, <1>5 DEF TablesOk, CardsOk
  <2>3. AgentsKept(d, n)
    BY <1>5, <2>1 DEF AgentsKept
  <2> QED
    BY <2>2, <2>3
<1>7. KeysOk(n)
  <2>1. \A c \in Contexts : d.contexts[c] # Null => d.contexts[c].agent \in OrNull(Aliases)
    BY <1>1, Fields DEF ContextTable, ContextRows, OrNull
  <2>2. \A a \in Aliases : d.agents[a] # Null => x[a] # Null
    BY <1>2, <1>3
  <2> QED
    BY <1>5, <2>1, <2>2 DEF TablesOk, KeysOk, References, OrNull
<1>8. NamesOk(n.contexts) /\ ClosedKept(d, n) /\ PushesKept(d, n)
  BY <1>5 DEF TablesOk, ClosedKept, PushesKept
<1> QED
  BY <1>5, <1>6, <1>7, <1>8 DEF SoundStep, TablesOk

LEMMA GroupCapabilitiesEffect ==
  ASSUME RegistryInv, NEW g \in Groups, NEW refresh \in BOOLEAN, GroupCapabilities(g, refresh)
  PROVE  RegistryEffect
<1>1. PICK d : d = OpenAgentRegistry
  OBVIOUS
<1>2. TablesOk(d)
  BY <1>1, OpenSound
<1>3. PICK wanted : wanted = {a \in MembersOf(d, g) : refresh \/ d.agents[a].card = Null}
  OBVIOUS
<1>4. UNCHANGED world
  BY DEF GroupCapabilities
<1>5. CASE g \notin d.groups
  BY <1>1, <1>4, <1>5, EndsAsOpened DEF GroupCapabilities, Ended, Outcomes
<1>6. CASE g \in d.groups
  <2>1. PICK fetched \in SUBSET wanted :
           Ended([d EXCEPT !.agents = [a \in Aliases |->
                                IF a \in fetched /\ ~NotModified(d, a)
                                THEN CacheAgentCard(d, a, ServedCard(@[a].url)).agents[a] ELSE @[a]]],
                 IF fetched = wanted THEN "ok" ELSE "failed")
    BY <1>1, <1>3, <1>6 DEF GroupCapabilities
  <2>0. PICK S : S = {a \in fetched : ~ NotModified(d, a)}
    OBVIOUS
  <2>2. PICK x : x = [a \in Aliases |-> IF a \in S THEN CacheAgentCard(d, a, ServedCard(d.agents[a].url)).agents[a] ELSE d.agents[a]]
    OBVIOUS
  <2>3. PICK n : n = [d EXCEPT !.agents = x]
    OBVIOUS
  <2>4. db' = n /\ exit' \in {"ok", "failed"}
    BY <2>0, <2>1, <2>2, <2>3 DEF Ended
  <2>5. S \subseteq Aliases /\ \A a \in S : d.agents[a] # Null
    BY <1>2, <1>3, <2>0, <2>1 DEF MembersOf, TablesOk, KeysOk
  <2>6. SoundStep(d, n)
    BY <1>2, <2>2, <2>3, <2>5, CacheAllSound
  <2> QED
    BY <1>1, <1>4, <2>4, <2>6, FromOpenedLocal DEF Outcomes
<1> QED
  BY <1>5, <1>6

LEMMA GroupEffect ==
  ASSUME RegistryInv, GroupCommands
  PROVE  RegistryEffect
<1>1. PICK g \in Groups :
        \/ CreateGroup(g) \/ DeleteGroup(g) \/ \E refresh \in BOOLEAN : GroupCapabilities(g, refresh)
        \/ \E h \in Groups : RenameGroup(g, h)
        \/ \E a \in Aliases : RemoveGroupMember(g, a) \/ \E r \in Ranks : AddGroupMember(g, a, r)
  BY DEF GroupCommands
<1>2. PICK d : d = OpenAgentRegistry
  OBVIOUS
<1>3. TablesOk(d) /\ d.members \in MemberTable
  BY <1>2, OpenSound, Fields DEF TablesOk
<1>4. CASE CreateGroup(g)
  <2>1. PICK n : n = InsertGroup(d, g)
    OBVIOUS
  <2>2. UNCHANGED world /\ (Ended(d, "invalid") \/ Journalled(n, Null, g))
    BY <1>2, <1>4, <2>1 DEF CreateGroup, Mutation
  <2>3. SoundStep(d, n) /\ g \in n.groups
    BY <1>3, <2>1, InsertGroupSound
  <2>4. CASE Ended(d, "invalid")
    BY <1>2, <2>2, <2>4, EndsAsOpened DEF Ended, Outcomes
  <2>5. CASE Journalled(n, Null, g)
    BY <1>2, <2>2, <2>3, <2>5, JournalledEffect DEF References
  <2> QED
    BY <2>2, <2>4, <2>5
<1>5. CASE DeleteGroup(g)
  <2>1. PICK n : n = DeleteGroupRow(d, g)
    OBVIOUS
  <2>2. UNCHANGED world /\ (Ended(d, "invalid") \/ Journalled(n, Null, Null))
    BY <1>2, <1>5, <2>1 DEF DeleteGroup, Mutation
  <2>3. SoundStep(d, n)
    BY <1>3, <2>1, DeleteGroupSound
  <2>4. CASE Ended(d, "invalid")
    BY <1>2, <2>2, <2>4, EndsAsOpened DEF Ended, Outcomes
  <2>5. CASE Journalled(n, Null, Null)
    BY <1>2, <2>2, <2>3, <2>5, JournalledEffect DEF References
  <2> QED
    BY <2>2, <2>4, <2>5
<1>6. ASSUME NEW h \in Groups, RenameGroup(g, h) PROVE RegistryEffect
  <2>1. PICK n : n = RenameGroupRow(d, g, h)
    OBVIOUS
  <2>2. UNCHANGED world /\ (Ended(d, "invalid") \/ Journalled(n, Null, h))
    BY <1>2, <1>6, <2>1 DEF RenameGroup, Mutation
  <2>3. SoundStep(d, n) /\ h \in n.groups
    BY <1>3, <2>1, RenameGroupSound
  <2>4. CASE Ended(d, "invalid")
    BY <1>2, <2>2, <2>4, EndsAsOpened DEF Ended, Outcomes
  <2>5. CASE Journalled(n, Null, h)
    BY <1>2, <2>2, <2>3, <2>5, JournalledEffect DEF References
  <2> QED
    BY <2>2, <2>4, <2>5
<1>7. ASSUME NEW a \in Aliases, RemoveGroupMember(g, a) PROVE RegistryEffect
  <2>1. PICK n : n = [d EXCEPT !.members[<<g, a>>] = Null]
    OBVIOUS
  <2>2. UNCHANGED world /\ (Ended(d, "invalid") \/ (g \in d.groups /\ a \in MembersOf(d, g) /\ Journalled(n, a, g)))
    BY <1>2, <1>7, <2>1 DEF RemoveGroupMember, Mutation, DeleteMember
  <2>3. CASE Ended(d, "invalid")
    BY <1>2, <2>2, <2>3, EndsAsOpened DEF Ended, Outcomes
  <2>4. CASE g \in d.groups /\ a \in MembersOf(d, g) /\ Journalled(n, a, g)
    <3>1. d.agents[a] # Null /\ Null \in OrNull(Ranks)
      BY <1>3, <2>4 DEF MembersOf, TablesOk, KeysOk, OrNull
    <3>2. SoundStep(d, n) /\ n.agents = d.agents /\ n.groups = d.groups
      BY <1>3, <2>1, <3>1, MemberSound
    <3> QED
      BY <1>2, <2>2, <2>4, <3>1, <3>2, JournalledEffect DEF References
  <2> QED
    BY <2>2, <2>3, <2>4
<1>8. ASSUME NEW a \in Aliases, NEW r \in Ranks, AddGroupMember(g, a, r) PROVE RegistryEffect
  <2>1. PICK n : n = [d EXCEPT !.members[<<g, a>>] = r]
    OBVIOUS
  <2>2. /\ UNCHANGED world
        /\ \/ Ended(d, "invalid")
           \/ /\ g \in d.groups /\ Exists(d, a) /\ EnsureRankAvailable(d, g, a, r)
              /\ \/ ~ UpsertMemberOk(d, g, a, r)
                 \/ Journalled(n, a, g)
    BY <1>2, <1>8, <2>1 DEF AddGroupMember, Mutation, UpsertMember
  <2>3. EnsureRankAvailable(d, g, a, r) => UpsertMemberOk(d, g, a, r)
    <3>1. r # Null
      BY NullAssumption
    <3> QED
      BY <3>1 DEF EnsureRankAvailable, UpsertMemberOk, MembersOf
  <2>4. CASE Ended(d, "invalid")
    BY <1>2, <2>2, <2>4, EndsAsOpened DEF Ended, Outcomes
  <2>5. CASE g \in d.groups /\ Exists(d, a) /\ Journalled(n, a, g)
    <3>1. d.agents[a] # Null /\ r \in OrNull(Ranks)
      BY <2>5 DEF Exists, OrNull
    <3>2. SoundStep(d, n) /\ n.agents = d.agents /\ n.groups = d.groups
      BY <1>3, <2>1, <3>1, MemberSound
    <3> QED
      BY <1>2, <2>2, <2>5, <3>1, <3>2, JournalledEffect DEF References
  <2> QED
    BY <2>2, <2>3, <2>4, <2>5
<1> QED
  BY <1>1, <1>4, <1>5, <1>6, <1>7, <1>8, GroupCapabilitiesEffect

LEMMA ResolveSound ==
  ASSUME RegistryInv, NEW d, TablesOk(d), NEW a \in Aliases, Exists(d, a), NEW r \in ResolveSendInterface(d, a)
  PROVE  SoundStep(d, r) /\ r.agents[a] # Null
<1>1. r = d \/ r = CacheAgentCard(d, a, ServedCard(d.agents[a].url))
  BY DEF ResolveSendInterface
<1>2. served \in [Urls -> Versions]
  BY DEF RegistryInv
<1> QED
  BY <1>1, <1>2, SameIsSound, CacheSound DEF Exists

LEMMA NewContextOk ==
  ASSUME NEW a \in OrNull(Aliases), NEW n \in OrNull(Names), NEW p \in OrNull(Contexts), NEW row,
         row = [agent |-> a, name |-> n, parent |-> p, state |-> "open"]
  PROVE  row \in ContextRows /\ row.agent = a /\ row.name = n /\ row.parent = p
BY DEF ContextRows

LEMMA EnsureContextSound ==
  ASSUME NEW d, TablesOk(d), NEW c \in Contexts, NEW a \in Aliases, d.agents[a] # Null, NEW n, n = EnsureContext(d, c, a)
  PROVE  SoundStep(d, n)
<1>1. CASE d.contexts[c] # Null
  BY <1>1, SameIsSound DEF EnsureContext
<1>2. CASE d.contexts[c] = Null
  <2>1. PICK row : row = [agent |-> a, name |-> Null, parent |-> Null, state |-> "open"]
    OBVIOUS
  <2>2. row \in ContextRows /\ row.agent = a /\ row.name = Null
    BY <2>1, NewContextOk DEF OrNull
  <2>3. n = UpsertContext(d, c, row)
    BY <1>2, <2>1 DEF EnsureContext
  <2>4. References(row.agent, d.agents) /\ NameAvailable(d, row.name)
    BY <2>2 DEF References, NameAvailable
  <2> QED
    BY <1>2, <2>2, <2>3, <2>4, UpsertContextSound
<1> QED
  BY <1>1, <1>2

\* A context made, new or forked from another.
LEMMA MadeContextEffect ==
  ASSUME RegistryInv, NEW d, d = OpenAgentRegistry, NEW c \in Contexts, NEW row \in ContextRows,
         d.contexts[c] = Null, NameAvailable(d, row.name), References(row.agent, d.agents),
         References(row.parent, d.contexts), row.parent # c,
         IF UpsertContextOk(d, c, row) THEN Ended(UpsertContext(d, c, row), "ok") ELSE Ended(d, "storage"),
         UNCHANGED world
  PROVE  RegistryEffect
<1>1. TablesOk(d)
  BY OpenSound
<1>2. PICK n : n = UpsertContext(d, c, row)
  OBVIOUS
<1>3. db' = n /\ exit' = "ok"
  BY <1>2 DEF UpsertContextOk, Ended
<1>4. SoundStep(d, n)
  BY <1>1, <1>2, UpsertContextSound
<1> QED
  BY <1>3, <1>4, FromOpenedLocal DEF Outcomes

LEMMA CreateContextEffect ==
  ASSUME RegistryInv, NEW c \in Contexts, NEW m \in OrNull(Names), NEW a \in OrNull(Aliases), CreateContext(c, m, a)
  PROVE  RegistryEffect
<1>1. PICK d : d = OpenAgentRegistry
  OBVIOUS
<1>2. PICK row : row = [agent |-> a, name |-> m, parent |-> Null, state |-> "open"]
  OBVIOUS
<1>3. row \in ContextRows /\ row.agent = a /\ row.name = m /\ row.parent = Null
  BY <1>2, NewContextOk DEF OrNull
<1>4. UNCHANGED world
  BY DEF CreateContext
<1>5. CASE d.contexts[c] # Null \/ ~NameAvailable(d, m) \/ ~References(a, d.agents)
  BY <1>1, <1>4, <1>5, EndsAsOpened DEF CreateContext, Ended, Outcomes
<1>6. CASE ~ (d.contexts[c] # Null \/ ~NameAvailable(d, m) \/ ~References(a, d.agents))
  <2>1. IF UpsertContextOk(d, c, row) THEN Ended(UpsertContext(d, c, row), "ok") ELSE Ended(d, "storage")
    BY <1>1, <1>2, <1>6 DEF CreateContext
  <2>2. References(row.parent, d.contexts) /\ row.parent # c
    BY <1>3, NullAssumption DEF References
  <2> QED
    BY <1>1, <1>3, <1>4, <1>6, <2>1, <2>2, MadeContextEffect
<1> QED
  BY <1>5, <1>6

LEMMA ForkContextEffect ==
  ASSUME RegistryInv, NEW s \in Contexts \cup Names, NEW c \in Contexts, NEW m \in OrNull(Names), NEW a \in OrNull(Aliases),
         ForkContext(s, c, m, a)
  PROVE  RegistryEffect
<1>1. PICK d : d = OpenAgentRegistry
  OBVIOUS
<1>2. TablesOk(d)
  BY <1>1, OpenSound
<1>3. UNCHANGED world
  BY DEF ForkContext
<1>4. CASE Selected(d, s) = {} \/ d.contexts[c] # Null \/ ~NameAvailable(d, m) \/ ~References(a, d.agents)
  BY <1>1, <1>3, <1>4, EndsAsOpened DEF ForkContext, Ended, Outcomes
<1>5. CASE ~ (Selected(d, s) = {} \/ d.contexts[c] # Null \/ ~NameAvailable(d, m) \/ ~References(a, d.agents))
  <2>1. PICK p \in Selected(d, s) :
           LET row == [agent |-> IF a = Null THEN d.contexts[p].agent ELSE a, name |-> m, parent |-> p, state |-> "open"]
           IN  IF UpsertContextOk(d, c, row) THEN Ended(UpsertContext(d, c, row), "ok") ELSE Ended(d, "storage")
    BY <1>1, <1>5 DEF ForkContext
  <2>2. p \in Contexts /\ d.contexts[p] # Null
    BY DEF Selected
  <2>3. PICK b : b = IF a = Null THEN d.contexts[p].agent ELSE a
    OBVIOUS
  <2>4. b \in OrNull(Aliases) /\ References(b, d.agents)
    <3>1. d.contexts[p].agent \in OrNull(Aliases)
      BY <1>2, <2>2, Fields DEF TablesOk, ContextTable, ContextRows, OrNull
    <3>2. References(d.contexts[p].agent, d.agents)
      BY <1>2, <2>2 DEF TablesOk, KeysOk
    <3> QED
      BY <1>5, <2>3, <3>1, <3>2
  <2>5. PICK row : row = [agent |-> b, name |-> m, parent |-> p, state |-> "open"]
    OBVIOUS
  <2>6. row \in ContextRows /\ row.agent = b /\ row.name = m /\ row.parent = p
    BY <2>2, <2>4, <2>5, NewContextOk DEF OrNull
  <2>7. IF UpsertContextOk(d, c, row) THEN Ended(UpsertContext(d, c, row), "ok") ELSE Ended(d, "storage")
    BY <2>1, <2>3, <2>5
  <2>8. References(row.parent, d.contexts) /\ row.parent # c
    BY <1>5, <2>2, <2>6 DEF References
  <2> QED
    BY <1>1, <1>3, <1>5, <2>4, <2>6, <2>7, <2>8, MadeContextEffect
<1> QED
  BY <1>4, <1>5

LEMMA CloseContextEffect ==
  ASSUME RegistryInv, NEW s \in Contexts \cup Names, CloseContext(s)
  PROVE  RegistryEffect
<1>1. PICK d : d = OpenAgentRegistry
  OBVIOUS
<1>2. TablesOk(d)
  BY <1>1, OpenSound
<1>3. UNCHANGED world
  BY DEF CloseContext
<1>4. CASE Selected(d, s) = {}
  BY <1>1, <1>3, <1>4, EndsAsOpened DEF CloseContext, Ended, Outcomes
<1>5. CASE Selected(d, s) # {}
  <2>1. PICK c \in Selected(d, s) : Ended(UpsertContext(d, c, [d.contexts[c] EXCEPT !.state = "closed"]), "ok")
    BY <1>1, <1>5 DEF CloseContext
  <2>2. c \in Contexts /\ d.contexts[c] # Null
    BY DEF Selected
  <2>3. PICK old \in ContextRows : old = d.contexts[c]
    BY <1>2, <2>2, Fields DEF TablesOk, ContextTable, OrNull
  <2>4. PICK row : row = [old EXCEPT !.state = "closed"]
    OBVIOUS
  <2>5. row \in ContextRows /\ row.agent = old.agent /\ row.name = old.name /\ row.parent = old.parent /\ row.state = "closed"
    BY <2>4 DEF ContextRows
  <2>6. PICK n : n = UpsertContext(d, c, row)
    OBVIOUS
  <2>7. db' = n /\ exit' = "ok"
    BY <2>1, <2>3, <2>4, <2>6 DEF Ended
  <2>8. References(row.agent, d.agents)
    BY <1>2, <2>2, <2>3, <2>5 DEF TablesOk, KeysOk
  <2>9. SoundStep(d, n)
    BY <1>2, <2>2, <2>3, <2>5, <2>6, <2>8, UpsertContextSound
  <2> QED
    BY <1>1, <1>3, <2>7, <2>9, FromOpenedLocal DEF Outcomes
<1> QED
  BY <1>4, <1>5

LEMMA RecordTrafficEffect ==
  ASSUME RegistryInv, NEW a \in Aliases, NEW c \in Contexts, NEW t \in Tasks, RecordTraffic(a, c, t)
  PROVE  RegistryEffect
<1>1. PICK d : d = OpenAgentRegistry
  OBVIOUS
<1>2. TablesOk(d)
  BY <1>1, OpenSound
<1>3. UNCHANGED world
  BY DEF RecordTraffic
<1>4. CASE \E o \in {"invalid", "failed"} : Ended(d, o)
  BY <1>1, <1>3, <1>4, EndsAsOpened DEF Ended, Outcomes
<1>5. CASE Exists(d, a) /\ \E r \in ResolveSendInterface(d, a) :
             Ended(UpsertTask(EnsureContext(r, c, a), t, [agent |-> a, context |-> c, state |-> "working"]), "ok")
  <2>1. PICK r \in ResolveSendInterface(d, a) :
           Ended(UpsertTask(EnsureContext(r, c, a), t, [agent |-> a, context |-> c, state |-> "working"]), "ok")
    BY <1>5
  <2>2. SoundStep(d, r) /\ r.agents[a] # Null /\ TablesOk(r)
    BY <1>2, <1>5, ResolveSound DEF SoundStep
  <2>3. PICK e : e = EnsureContext(r, c, a)
    OBVIOUS
  <2>4. SoundStep(r, e) /\ TablesOk(e)
    BY <2>2, <2>3, EnsureContextSound DEF SoundStep
  <2>5. PICK row : row = [agent |-> a, context |-> c, state |-> "working"]
    OBVIOUS
  <2>6. row \in TaskRows
    BY <2>5 DEF TaskRows, OrNull
  <2>7. PICK n : n = UpsertTask(e, t, row)
    OBVIOUS
  <2>8. SoundStep(e, n)
    BY <2>4, <2>6, <2>7, UpsertTaskSound
  <2>9. SoundStep(d, n)
    BY <2>2, <2>4, <2>8, SoundThenSound
  <2>10. db' = n /\ exit' = "ok"
    BY <2>1, <2>3, <2>5, <2>7 DEF Ended
  <2> QED
    BY <1>1, <1>3, <2>9, <2>10, FromOpenedLocal DEF Outcomes
<1> QED
  BY <1>1, <1>4, <1>5 DEF RecordTraffic

\* Where a push command comes to its remote call.
LEMMA PushCallSound ==
  ASSUME RegistryInv, NEW a \in Aliases, NEW call \in PushCalls(a), NEW d, NEW u, d = call[1], u = call[2]
  PROVE  SoundStep(OpenAgentRegistry, d) /\ TablesOk(d) /\ u \in Urls
<1>1. PICK o : o = OpenAgentRegistry
  OBVIOUS
<1>2. TablesOk(o)
  BY <1>1, OpenSound
<1>3. Exists(o, a) /\ \E r \in ResolveSendInterface(o, a) : call = <<r, o.agents[a].url>>
  BY <1>1 DEF PushCalls
<1>4. PICK r \in ResolveSendInterface(o, a) : call = <<r, o.agents[a].url>>
  BY <1>3
<1>5. SoundStep(o, r)
  BY <1>2, <1>3, ResolveSound
<1>6. o.agents[a] \in AgentRows
  BY <1>2, <1>3, Fields DEF TablesOk, AgentTable, OrNull, Exists
<1> QED
  BY <1>1, <1>4, <1>5, <1>6 DEF SoundStep, AgentRows

LEMMA EnsureTaskSound ==
  ASSUME NEW d, TablesOk(d), NEW t \in Tasks, NEW a \in Aliases, NEW n, n = EnsureTask(d, t, a)
  PROVE  SoundStep(d, n) /\ TablesOk(n) /\ n.pushes = d.pushes
<1>1. CASE d.tasks[t] # Null
  BY <1>1, SameIsSound DEF EnsureTask
<1>2. CASE d.tasks[t] = Null
  <2>1. PICK row : row = [agent |-> a, context |-> Null, state |-> "unknown"]
    OBVIOUS
  <2>2. row \in TaskRows
    BY <2>1 DEF TaskRows, OrNull
  <2>3. n = UpsertTask(d, t, row)
    BY <1>2, <2>1 DEF EnsureTask
  <2> QED
    BY <2>2, <2>3, UpsertTaskSound DEF SoundStep
<1> QED
  BY <1>1, <1>2

\* Push rows touch no other table.
LEMMA PushesSound ==
  ASSUME NEW d, TablesOk(d), NEW x \in PushTable, NEW n, n = [d EXCEPT !.pushes = x]
  PROVE  TablesOk(n) /\ AgentsKept(d, n) /\ ClosedKept(d, n) /\ n.pushes = x
<1>1. d \in Databases
  BY DEF TablesOk
<1>2. n \in Databases /\ n.agents = d.agents /\ n.contexts = d.contexts /\ n.members = d.members /\ n.pushes = x
  BY <1>1, PushesSet
<1> QED
  BY <1>2 DEF TablesOk, CardsOk, KeysOk, AgentsKept, ClosedKept

\* The configs mirrored are held at the agent, so their rows may be live.
LEMMA MirroredSound ==
  ASSUME RegistryInv, NEW a \in Aliases, NEW call \in PushCalls(a), NEW t \in Tasks, NEW pushIds, pushIds \subseteq PushIds,
         NEW n, n = Mirrored(call[1], a, t, pushIds), NEW held, remotePush \cup cut \subseteq held,
         \A p \in pushIds : <<call[2], t, p>> \in held
  PROVE  /\ TablesOk(n) /\ AgentsKept(OpenAgentRegistry, n) /\ ClosedKept(OpenAgentRegistry, n)
         /\ PushesHeld(n, held)
<1>1. PICK o, d, u : o = OpenAgentRegistry /\ d = call[1] /\ u = call[2]
  OBVIOUS
<1>2. SoundStep(o, d) /\ TablesOk(d) /\ u \in Urls /\ o.pushes = db.pushes
  BY <1>1, PushCallSound, OpenSound
<1>3. PICK e : e = EnsureTask(d, t, a)
  OBVIOUS
<1>4. SoundStep(d, e) /\ TablesOk(e) /\ e.pushes = d.pushes
  BY <1>2, <1>3, EnsureTaskSound
<1>5. SoundStep(o, e)
  BY <1>2, <1>4, SoundThenSound
<1>6. PICK row : row = [agent |-> a, task |-> t, deleted |-> FALSE]
  OBVIOUS
<1>7. row \in PushRows /\ row.task = t
  BY <1>6 DEF PushRows
<1>8. PICK x : x = [p \in PushIds |-> IF p \in pushIds THEN row ELSE e.pushes[p]]
  OBVIOUS
<1>9. x \in PushTable
  <2>1. e.pushes \in PushTable
    BY <1>4, Fields DEF TablesOk
  <2> QED
    BY <1>7, <1>8, <2>1 DEF PushTable, OrNull
<1>10. n = [e EXCEPT !.pushes = x]
  BY <1>1, <1>3, <1>6, <1>8 DEF Mirrored
<1>11. TablesOk(n) /\ AgentsKept(e, n) /\ ClosedKept(e, n) /\ n.pushes = x
  BY <1>4, <1>9, <1>10, PushesSound
<1>12. AgentsKept(o, n) /\ ClosedKept(o, n)
  BY <1>5, <1>11 DEF SoundStep, AgentsKept, ClosedKept
<1>13. PushesHeld(n, held)
  <2> SUFFICES ASSUME NEW p \in PushIds, x[p] # Null, ~ x[p].deleted
               PROVE  \E v \in Urls : <<v, x[p].task, p>> \in held
    BY <1>11 DEF PushesHeld
  <2>1. CASE p \in pushIds
    BY <1>1, <1>2, <1>7, <1>8, <2>1
  <2>2. CASE p \notin pushIds
    <3>1. x[p] = e.pushes[p]
      BY <1>8, <2>2
    <3>2. db.pushes[p] # Null /\ ~ db.pushes[p].deleted /\ db.pushes[p].task = x[p].task
      BY <1>2, <1>5, <3>1 DEF SoundStep, PushesKept
    <3>3. \E v \in Urls : <<v, db.pushes[p].task, p>> \in remotePush \cup cut
      BY <3>2 DEF RegistryInv, PushesHeld
    <3> QED
      BY <3>2, <3>3
  <2> QED
    BY <2>1, <2>2
<1> QED
  BY <1>1, <1>11, <1>12, <1>13

LEMMA PushRefusedEffect ==
  ASSUME RegistryInv, NEW a \in Aliases, PushRefused(a)
  PROVE  RegistryEffect
<1>1. UNCHANGED world /\ exit' \in {"failed", "invalid"}
  BY DEF PushRefused, Ended
<1>2. CASE db' = OpenAgentRegistry
  BY <1>1, <1>2, EndsAsOpened DEF Outcomes
<1>3. CASE \E call \in PushCalls(a) : db' = call[1]
  <2>1. PICK call \in PushCalls(a) : db' = call[1]
    BY <1>3
  <2>2. PICK d : d = call[1]
    OBVIOUS
  <2>3. SoundStep(OpenAgentRegistry, d)
    BY <2>2, PushCallSound
  <2> QED
    BY <1>1, <2>1, <2>2, <2>3, FromOpenedLocal DEF Outcomes
<1> QED
  BY <1>2, <1>3 DEF PushRefused, Ended

LEMMA CreatePushEffect ==
  ASSUME RegistryInv, NEW a \in Aliases, NEW t \in Tasks, NEW p \in PushIds, CreatePushConfig(a, t, p)
  PROVE  RegistryEffect
<1>1. CASE PushRefused(a)
  BY <1>1, PushRefusedEffect
<1>2. CASE ~ PushRefused(a)
  <2>1. PICK call \in PushCalls(a) :
          /\ remotePush' = remotePush \cup {<<call[2], t, p>>} /\ cut' = cut \ {<<call[2], t, p>>}
          /\ Ended(Mirrored(call[1], a, t, {p}), "ok") \/ CutShort(call[1])
          /\ UNCHANGED <<config, secrets, served, jobRow>>
    BY <1>2 DEF CreatePushConfig
  <2>2. PICK d, u : d = call[1] /\ u = call[2]
    OBVIOUS
  <2>3. SoundStep(OpenAgentRegistry, d) /\ u \in Urls
    BY <2>2, PushCallSound
  <2>4. remotePush' \subseteq Urls \X Tasks \X PushIds /\ cut' \subseteq Urls \X Tasks \X PushIds
    BY <2>1, <2>2, <2>3 DEF RegistryInv
  <2>5. remotePush \cup cut \subseteq remotePush' \cup cut' /\ <<call[2], t, p>> \in remotePush' \cup cut'
    BY <2>1
  <2>6. CASE Ended(Mirrored(call[1], a, t, {p}), "ok")
    <3>1. PICK n : n = Mirrored(call[1], a, t, {p})
      OBVIOUS
    <3>2. TablesOk(n) /\ AgentsKept(OpenAgentRegistry, n) /\ ClosedKept(OpenAgentRegistry, n)
          /\ PushesHeld(n, remotePush' \cup cut')
      <4>1. PICK held : held = remotePush' \cup cut'
        OBVIOUS
      <4>2. {p} \subseteq PushIds /\ remotePush \cup cut \subseteq held /\ \A q \in {p} : <<call[2], t, q>> \in held
        BY <2>5, <4>1
      <4>3. PICK pushIds : pushIds = {p}
        OBVIOUS
      <4> QED
        BY <3>1, <4>1, <4>2, <4>3, MirroredSound
    <3> QED
      BY <2>1, <2>4, <2>6, <3>1, <3>2, FromOpened DEF Ended, Outcomes
  <2>7. CASE CutShort(call[1])
    <3>1. db' = d /\ exit' \in {"killed", "failed"}
      BY <2>2, <2>7 DEF CutShort, Ended
    <3>2. PushesHeld(d, remotePush' \cup cut')
      <4>1. OpenAgentRegistry.pushes = db.pushes
        BY OpenSound
      <4>2. PushesKept(db, d)
        BY <2>3, <4>1 DEF SoundStep, PushesKept
      <4>3. PushesHeld(db, remotePush \cup cut)
        BY DEF RegistryInv
      <4> QED
        BY <2>5, <4>2, <4>3 DEF PushesKept, PushesHeld
    <3> QED
      BY <2>1, <2>3, <2>4, <3>1, <3>2, FromOpened DEF SoundStep, Outcomes
  <2> QED
    BY <2>1, <2>6, <2>7
<1> QED
  BY <1>1, <1>2

\* get and list mirror what the agent holds.
LEMMA MirrorEffectOfHeld ==
  ASSUME RegistryInv, NEW a \in Aliases, NEW t \in Tasks, NEW call \in PushCalls(a), UNCHANGED world,
         NEW pushIds, pushIds \subseteq HeldFor(call[2], t),
         Ended(Mirrored(call[1], a, t, pushIds), "ok") \/ Ended(call[1], "failed")
  PROVE  RegistryEffect
<1>1. PICK d : d = call[1]
  OBVIOUS
<1>2. PICK n : n = Mirrored(call[1], a, t, pushIds)
  OBVIOUS
<1>3. SoundStep(OpenAgentRegistry, d)
  BY <1>1, PushCallSound
<1>4. CASE Ended(call[1], "failed")
  BY <1>1, <1>3, <1>4, FromOpenedLocal DEF Ended, Outcomes
<1>5. CASE Ended(Mirrored(call[1], a, t, pushIds), "ok")
  <2>1. remotePush' = remotePush /\ cut' = cut /\ UNCHANGED <<config, secrets, served, jobRow>>
    BY DEF world
  <2>2. pushIds \subseteq PushIds /\ \A p \in pushIds : <<call[2], t, p>> \in remotePush \cup cut
    BY DEF HeldFor
  <2>3. PICK held : held = remotePush \cup cut
    OBVIOUS
  <2>4. TablesOk(n) /\ AgentsKept(OpenAgentRegistry, n) /\ ClosedKept(OpenAgentRegistry, n) /\ PushesHeld(n, held)
    BY <1>2, <2>2, <2>3, MirroredSound
  <2>5. PushesHeld(n, remotePush' \cup cut')
    BY <2>1, <2>3, <2>4
  <2>6. remotePush' \subseteq Urls \X Tasks \X PushIds /\ cut' \subseteq Urls \X Tasks \X PushIds
    BY <2>1 DEF RegistryInv
  <2> QED
    BY <1>2, <1>5, <2>1, <2>4, <2>5, <2>6, FromOpened DEF Ended, Outcomes
<1> QED
  BY <1>4, <1>5

LEMMA ReadPushEffect ==
  ASSUME RegistryInv, NEW a \in Aliases, NEW t \in Tasks,
         ListPushConfigs(a, t) \/ \E p \in PushIds : GetPushConfig(a, t, p)
  PROVE  RegistryEffect
<1>1. CASE PushRefused(a)
  BY <1>1, PushRefusedEffect
<1>2. CASE ~ PushRefused(a)
  <2>1. CASE ListPushConfigs(a, t)
    <3>1. PICK call \in PushCalls(a) : Ended(Mirrored(call[1], a, t, HeldFor(call[2], t)), "ok") /\ UNCHANGED world
      BY <1>2, <2>1 DEF ListPushConfigs
    <3>2. PICK pushIds : pushIds = HeldFor(call[2], t)
      OBVIOUS
    <3> QED
      BY <3>1, <3>2, MirrorEffectOfHeld
  <2>2. CASE \E p \in PushIds : GetPushConfig(a, t, p)
    <3>1. PICK p \in PushIds : GetPushConfig(a, t, p)
      BY <2>2
    <3>2. PICK call \in PushCalls(a) :
            /\ IF p \in HeldFor(call[2], t) THEN Ended(Mirrored(call[1], a, t, {p}), "ok") ELSE Ended(call[1], "failed")
            /\ UNCHANGED world
      BY <1>2, <3>1 DEF GetPushConfig
    <3>3. CASE p \in HeldFor(call[2], t)
      <4>1. PICK pushIds : pushIds = {p}
        OBVIOUS
      <4> QED
        BY <3>2, <3>3, <4>1, MirrorEffectOfHeld
    <3>4. CASE p \notin HeldFor(call[2], t)
      <4>1. PICK pushIds : pushIds = {}
        OBVIOUS
      <4> QED
        BY <3>2, <3>4, <4>1, MirrorEffectOfHeld
    <3> QED
      BY <3>3, <3>4
  <2> QED
    BY <2>1, <2>2
<1> QED
  BY <1>1, <1>2

LEMMA ForgetSound ==
  ASSUME NEW d, TablesOk(d), NEW p \in PushIds, NEW n, n = ForgetPush(d, p)
  PROVE  SoundStep(d, n) /\ (n.pushes[p] # Null => n.pushes[p].deleted)
<1>1. CASE d.pushes[p] = Null
  BY <1>1, SameIsSound DEF ForgetPush, DeletePush
<1>2. CASE d.pushes[p] # Null
  <2>1. d.pushes \in PushTable
    BY Fields DEF TablesOk
  <2>2. PICK old \in PushRows : old = d.pushes[p]
    BY <1>2, <2>1 DEF PushTable, OrNull
  <2>3. PICK row : row = [old EXCEPT !.deleted = TRUE]
    OBVIOUS
  <2>4. row \in PushRows /\ row.deleted
    BY <2>3 DEF PushRows
  <2>5. PICK x : x = [d.pushes EXCEPT ![p] = row]
    OBVIOUS
  <2>6. x \in PushTable /\ x[p] = row /\ \A q \in PushIds : q # p => x[q] = d.pushes[q]
    BY <2>1, <2>4, <2>5 DEF PushTable, OrNull
  <2>7. n = [d EXCEPT !.pushes = x]
    BY <1>2, <2>2, <2>3, <2>5 DEF ForgetPush, DeletePush
  <2>8. TablesOk(n) /\ AgentsKept(d, n) /\ ClosedKept(d, n) /\ n.pushes = x
    BY <2>6, <2>7, PushesSound
  <2> QED
    BY <2>4, <2>6, <2>8 DEF SoundStep, PushesKept
<1> QED
  BY <1>1, <1>2

LEMMA DeletePushEffect ==
  ASSUME RegistryInv, NEW a \in Aliases, NEW t \in Tasks, NEW p \in PushIds, DeletePushConfig(a, t, p)
  PROVE  RegistryEffect
<1>1. CASE PushRefused(a)
  BY <1>1, PushRefusedEffect
<1>2. CASE ~ PushRefused(a)
  <2>1. PICK call \in PushCalls(a), removed \in SUBSET remotePush :
          /\ removed \subseteq {<<call[2], t, p>>} /\ remotePush' = remotePush \ removed
          /\ \/ Ended(ForgetPush(EnsureTask(call[1], t, a), p), "ok") /\ cut' = cut
             \/ CutShort(call[1]) /\ cut' = cut \cup removed
          /\ UNCHANGED <<config, secrets, served, jobRow>>
    BY <1>2 DEF DeletePushConfig
  <2>2. PICK d : d = call[1]
    OBVIOUS
  <2>3. SoundStep(OpenAgentRegistry, d) /\ TablesOk(d)
    BY <2>2, PushCallSound
  <2>4. remotePush' \subseteq Urls \X Tasks \X PushIds /\ cut' \subseteq Urls \X Tasks \X PushIds
    BY <2>1, <2>2 DEF RegistryInv
  <2>5. OpenAgentRegistry.pushes = db.pushes /\ PushesHeld(db, remotePush \cup cut)
    BY OpenSound DEF RegistryInv
  <2>6. CASE Ended(ForgetPush(EnsureTask(call[1], t, a), p), "ok") /\ cut' = cut
    <3>1. PICK e : e = EnsureTask(d, t, a)
      OBVIOUS
    <3>2. SoundStep(d, e) /\ TablesOk(e)
      BY <2>3, <3>1, EnsureTaskSound
    <3>3. PICK n : n = ForgetPush(e, p)
      OBVIOUS
    <3>4. SoundStep(e, n) /\ (n.pushes[p] # Null => n.pushes[p].deleted)
      BY <3>2, <3>3, ForgetSound
    <3>5. SoundStep(OpenAgentRegistry, n)
      BY <2>3, <3>2, <3>4, SoundThenSound
    <3>6. db' = n /\ exit' = "ok"
      BY <2>2, <2>6, <3>1, <3>3 DEF Ended
    <3>7. PushesHeld(n, remotePush' \cup cut')
      <4> SUFFICES ASSUME NEW q \in PushIds, n.pushes[q] # Null, ~ n.pushes[q].deleted
                   PROVE  \E u \in Urls : <<u, n.pushes[q].task, q>> \in remotePush' \cup cut'
        BY DEF PushesHeld
      <4>1. q # p
        BY <3>4
      <4>2. db.pushes[q] # Null /\ ~ db.pushes[q].deleted /\ db.pushes[q].task = n.pushes[q].task
        BY <2>5, <3>5 DEF SoundStep, PushesKept
      <4>3. PICK u \in Urls : <<u, n.pushes[q].task, q>> \in remotePush \cup cut
        BY <2>5, <4>2 DEF PushesHeld
      <4>4. <<u, n.pushes[q].task, q>> # <<call[2], t, p>>
        BY <4>1
      <4> QED
        BY <2>1, <2>6, <4>3, <4>4
    <3> QED
      BY <2>1, <2>4, <3>5, <3>6, <3>7, FromOpened DEF SoundStep, Outcomes
  <2>7. CASE CutShort(call[1]) /\ cut' = cut \cup removed
    <3>1. db' = d /\ exit' \in {"killed", "failed"}
      BY <2>2, <2>7 DEF CutShort, Ended
    <3>2. remotePush \cup cut \subseteq remotePush' \cup cut'
      BY <2>1, <2>7
    <3>3. PushesHeld(d, remotePush' \cup cut')
      <4>1. PushesKept(db, d)
        BY <2>3, <2>5 DEF SoundStep, PushesKept
      <4> QED
        BY <2>5, <3>2, <4>1 DEF PushesKept, PushesHeld
    <3> QED
      BY <2>1, <2>3, <2>4, <3>1, <3>3, FromOpened DEF SoundStep, Outcomes
  <2> QED
    BY <2>1, <2>6, <2>7
<1> QED
  BY <1>1, <1>2

----------------------------------------------------------------------------
(* The registry: theorems.                                                 *)

LEMMA RegistryInitOk ==
  ASSUME RegistryInit
  PROVE  RegistryInv
<1>1. PICK d : d = EmptyDatabase
  OBVIOUS
<1>2. d \in Databases
  BY <1>1 DEF EmptyDatabase, Databases, OrNull
<1>3. /\ \A a \in Aliases : d.agents[a] = Null
      /\ \A c \in Contexts : d.contexts[c] = Null
      /\ \A g \in Groups, a \in Aliases : d.members[<<g, a>>] = Null
      /\ \A p \in PushIds : d.pushes[p] = Null
  BY <1>1 DEF EmptyDatabase
<1>4. TablesOk(d) /\ PushesHeld(d, {})
  BY <1>2, <1>3 DEF TablesOk, CardsOk, NamesOk, KeysOk, PushesHeld
<1> QED
  BY <1>1, <1>4 DEF RegistryInit, RegistryInv, PushesHeld, Outcomes, JobRowOk

LEMMA AroundEffect ==
  ASSUME RegistryInv, Around \/ UNCHANGED registryVars
  PROVE  RegistryEffect
<1>1. db' = db /\ exit' = exit /\ secrets' = secrets /\ remotePush' = remotePush /\ cut' = cut /\ jobRow' = jobRow
  BY DEF Around, EditConfig, PublishCard, registryVars
<1>2. config' \in Configs
  BY DEF RegistryInv, Around, EditConfig, PublishCard, registryVars
<1>3. served' \in [Urls -> Versions]
  BY DEF RegistryInv, Around, EditConfig, PublishCard, registryVars
<1>4. TablesOk(db)' /\ PushesHeld(db, remotePush \cup cut)' /\ JobRowOk(jobRow)'
  BY <1>1 DEF RegistryInv, TablesOk, PushesHeld, CardsOk, CardOk, NamesOk, KeysOk, JobRowOk
<1>5. RegistryInv'
  BY <1>1, <1>2, <1>3, <1>4 DEF RegistryInv
<1> QED
  BY <1>1, <1>5 DEF RegistryEffect, ClosedKept

\* A job reads a row without a card, and so without a validator, and writes
\* it back with a card of the row's own URL.
LEMMA JobFetchesEffect ==
  ASSUME RegistryInv, NEW a \in Aliases, JobFetchesCard(a)
  PROVE  RegistryEffect
<1>1. PICK row \in AgentRows : row = db.agents[a] /\ CardOk(row) /\ row.card = Null
  BY Fields DEF JobFetchesCard, Exists, RegistryInv, TablesOk, CardsOk, AgentTable, OrNull
<1>2. row.url \in Urls /\ row.etag = Null
  BY <1>1 DEF AgentRows, CardOk
<1>3. PICK card \in Cards : /\ card = ServedCard(row.url) /\ card.url = row.url
                            /\ card.usable = (<<card.url, card.version>> \in Usable)
  BY <1>2, ServedCardOk DEF RegistryInv
<1>4. PICK x : x = [row EXCEPT !.card = card]
  OBVIOUS
<1>5. x \in AgentRows /\ x.card = card /\ x.url = row.url /\ x.etag = Null
  BY <1>2, <1>4 DEF AgentRows, OrNull
<1>6. CardOk(x)
  BY <1>3, <1>5 DEF CardOk
<1>7. jobRow' = [alias |-> a, row |-> x]
  BY <1>1, <1>3, <1>4 DEF JobFetchesCard
<1>8. JobRowOk(jobRow)'
  BY <1>5, <1>6, <1>7 DEF JobRowOk, JobRows, CardOk
<1>9. UNCHANGED <<db, config, secrets, served, remotePush, cut, exit>>
  BY DEF JobFetchesCard
<1>10. TablesOk(db)' /\ PushesHeld(db, remotePush \cup cut)'
  BY <1>9 DEF RegistryInv, TablesOk, PushesHeld, CardsOk, CardOk, NamesOk, KeysOk
<1>11. RegistryInv'
  BY <1>8, <1>9, <1>10 DEF RegistryInv
<1> QED
  BY <1>9, <1>11 DEF RegistryEffect, ClosedKept

LEMMA JobCachesEffect ==
  ASSUME RegistryInv, JobCachesCard
  PROVE  RegistryEffect
<1>1. PICK j \in JobRows : j = jobRow /\ CardOk(j.row)
  BY DEF RegistryInv, JobRowOk, JobCachesCard
<1>2. PICK a, row : a = j.alias /\ row = j.row
  OBVIOUS
<1>3. a \in Aliases /\ row \in AgentRows /\ CardOk(row)
  BY <1>1, <1>2 DEF JobRows
<1>4. PICK n : n = UpsertAgent(db, a, row)
  OBVIOUS
<1>5. db' = n /\ exit' = "job" /\ jobRow' = Null /\ UNCHANGED <<config, secrets, served, remotePush, cut>>
  BY <1>1, <1>2, <1>4 DEF JobCachesCard, Ended
<1>6. TablesOk(n) /\ ClosedKept(db, n) /\ n.pushes = db.pushes
  BY <1>3, <1>4, AnyRowSound DEF RegistryInv
<1>7. PushesHeld(n, remotePush \cup cut)
  BY <1>6 DEF RegistryInv, PushesHeld
<1>8. TablesOk(db)' /\ PushesHeld(db, remotePush \cup cut)' /\ JobRowOk(jobRow)'
  BY <1>5, <1>6, <1>7 DEF TablesOk, PushesHeld, CardsOk, CardOk, NamesOk, KeysOk, JobRowOk
<1>9. RegistryInv'
  BY <1>5, <1>8 DEF RegistryInv, Outcomes
<1> QED
  BY <1>5, <1>6, <1>9 DEF RegistryEffect

LEMMA JobEffect ==
  ASSUME RegistryInv, GatewayCards
  PROVE  RegistryEffect
<1>1. CASE JobGivesUp
  <2>1. UNCHANGED <<db, config, secrets, served, remotePush, cut, exit>> /\ jobRow' = Null
    BY <1>1 DEF JobGivesUp
  <2>2. TablesOk(db)' /\ PushesHeld(db, remotePush \cup cut)' /\ JobRowOk(jobRow)'
    BY <2>1 DEF RegistryInv, TablesOk, PushesHeld, CardsOk, CardOk, NamesOk, KeysOk, JobRowOk
  <2>3. RegistryInv'
    BY <2>1, <2>2 DEF RegistryInv
  <2> QED
    BY <2>1, <2>3 DEF RegistryEffect, ClosedKept
<1> QED
  BY <1>1, JobFetchesEffect, JobCachesEffect DEF GatewayCards

LEMMA RegistryStep ==
  ASSUME RegistryInv, [RegistryNext]_registryVars
  PROVE  RegistryEffect
<1>1. CASE Around \/ UNCHANGED registryVars
  BY <1>1, AroundEffect
<1>2. CASE AgentCommands
  BY <1>2, AddAgentEffect, RemoveAgentEffect, RenameAgentEffect, OpeningEffect DEF AgentCommands
<1>3. CASE CardCommands
  BY <1>3, CardEffect
<1>4. CASE GroupCommands
  BY <1>4, GroupEffect
<1>5. CASE ContextCommands
  BY <1>5, CreateContextEffect, ForkContextEffect, CloseContextEffect, RecordTrafficEffect DEF ContextCommands
<1>6. CASE PushCommands
  BY <1>6, CreatePushEffect, ReadPushEffect, DeletePushEffect DEF PushCommands
<1>7. CASE GatewayCards
  BY <1>7, JobEffect
<1> QED
  BY <1>1, <1>2, <1>3, <1>4, <1>5, <1>6, <1>7 DEF RegistryNext

LEMMA AlwaysRegistry == RegistrySpec => []RegistryInv
<1>1. RegistryInit => RegistryInv
  BY RegistryInitOk
<1>2. RegistryInv /\ [RegistryNext]_registryVars => RegistryInv'
  BY RegistryStep DEF RegistryEffect
<1> QED
  BY <1>1, <1>2, PTL DEF RegistrySpec

\* The rows of the registry stay sound, the configuration's agents pinned and
\* closed contexts closed, for any number of agents, groups, contexts, tasks
\* and push configs, whatever a command deletes along with a row, is killed
\* before or is called after.
THEOREM RegistrySound == RegistrySpec => RegistryIsSound
<1>1. RegistryInv => RegistryTypeOK /\ ContextNamesUnique /\ LivePushIsRemote
  BY DEF RegistryInv, TablesOk, NamesOk, PushesHeld, RegistryTypeOK, ContextNamesUnique, LivePushIsRemote, JobRowOk
<1>2. RegistryInv /\ [RegistryNext]_registryVars =>
        [db' # db /\ exit' \notin {"killed", "job"}
           => \A a \in Seeded : /\ db'.agents[a] # Null
                                /\ db'.agents[a].readOnly
                                /\ db'.agents[a].url = config.agents[a].url]_registryVars
  BY RegistryStep DEF RegistryEffect, Pinned
<1>3. RegistryInv /\ [RegistryNext]_registryVars =>
        [\A c \in Contexts : db.contexts[c] # Null /\ db.contexts[c].state = "closed"
           => /\ db'.contexts[c].state = "closed"
              /\ db'.contexts[c].name = db.contexts[c].name
              /\ db'.contexts[c].parent = db.contexts[c].parent]_registryVars
  BY RegistryStep DEF RegistryEffect, ClosedKept
<1> QED
  BY <1>1, <1>2, <1>3, AlwaysRegistry, PTL DEF RegistrySpec, RegistryIsSound, SeedsArePinned, ClosedStaysClosed

\* What a refresh that succeeds leaves is the card being served: sent, or
\* already in the row when the server finds its validator current.
LEMMA RefreshCurrent ==
  ASSUME RegistryInv, NEW a \in Aliases, exit' = "ok", RefreshAgent(a)
  PROVE  db'.agents[a].card = ServedCard(db'.agents[a].url)
<1>1. PICK d : d = OpenAgentRegistry
  OBVIOUS
<1>2. TablesOk(d) /\ served \in [Urls -> Versions]
  BY <1>1, OpenSound DEF RegistryInv
<1>3. Exists(d, a) /\ FetchCard(d, a, TRUE)
  BY <1>1 DEF RefreshAgent, Ended
<1>4. PICK row \in AgentRows : row = d.agents[a] /\ CardOk(row)
  BY <1>2, <1>3, Fields DEF TablesOk, CardsOk, AgentTable, OrNull, Exists
<1>5. row.url \in Urls /\ served[row.url] \in Versions /\ served[row.url] # Null
  BY <1>2, NullAssumption DEF AgentRows
<1>6. PICK n : n = CacheAgentCard(d, a, ServedCard(d.agents[a].url))
  OBVIOUS
<1>7. CASE NotModified(d, a) /\ db' = d
  <2>1. row.etag = served[row.url]
    BY <1>4, <1>7 DEF NotModified
  <2>2. row.card # Null /\ row.card.version = served[row.url] /\ row.card.url = row.url
        /\ row.card.usable = (<<row.url, served[row.url]>> \in Usable)
    BY <1>4, <1>5, <2>1 DEF CardOk
  <2>3. PICK card \in Cards : card = row.card
    BY <2>2 DEF AgentRows, OrNull
  <2>4. card = [url |-> card.url, version |-> card.version, usable |-> card.usable]
    BY DEF Cards
  <2>5. card = ServedCard(row.url)
    BY <2>2, <2>3, <2>4 DEF ServedCard
  <2> QED
    BY <1>4, <1>7, <2>3, <2>5
<1>8. CASE db' = n
  BY <1>2, <1>3, <1>6, <1>8, CacheSound DEF Exists
<1> QED
  BY <1>3, <1>6, <1>7, <1>8 DEF FetchCard, Ended

\* A stored card is of the URL its row has now and its validator the card's
\* own, through every move, rename and sync, so a refresh that reports
\* success leaves the card that is being served.
THEOREM CardsCurrent == RegistrySpec => CardsAreCurrent
<1>1. RegistryInv => CardIsOfItsRow
  BY DEF RegistryInv, TablesOk, CardsOk, CardOk, CardIsOfItsRow, Exists
<1>2. RegistryInv /\ [RegistryNext]_registryVars =>
        [\A a \in Aliases : exit' = "ok" /\ RefreshAgent(a)
           => db'.agents[a].card = ServedCard(db'.agents[a].url)]_registryVars
  BY RefreshCurrent
<1> QED
  BY <1>1, <1>2, AlwaysRegistry, PTL DEF RegistrySpec, CardsAreCurrent, RefreshIsCurrent

\* The commands' own checks foresee every constraint of the schema but the
\* tasks that keep an agent: no rank, name, reference or event is refused by
\* the database after the command found it valid.
THEOREM ConstraintsAreForeseen == RegistrySpec => ConstraintsForeseen
<1>1. RegistryInv /\ [RegistryNext]_registryVars =>
        [exit' = "storage" /\ exit # "storage"
           => \E a \in Aliases : /\ TasksOf(OpenAgentRegistry, a) # {}
                                 /\ EnsureWritable(OpenAgentRegistry, a)
                                 /\ RemoveAgent(a) \/ \E b \in Aliases : RenameAgent(a, b)]_registryVars
  BY RegistryStep DEF RegistryEffect, Refused
<1> QED
  BY <1>1, AlwaysRegistry, PTL DEF RegistrySpec, ConstraintsForeseen

----------------------------------------------------------------------------
(* Gather and reduce: numbers in order, and functions defined from each     *)
(* number's predecessor.                                                    *)

\* Numbers have a smallest one.
LEMMA Smallest ==
  ASSUME NEW S, S \subseteq Nat, S # {}
  PROVE  \E x \in S : \A y \in S : x <= y
<1>1. PICK x \in S : \A y \in S : ~(<<y, x>> \in OpToRel(<, Nat))
  BY NatLessThanWellFounded, WFMin
<1>2. \A y \in S : ~(y < x)
  BY <1>1 DEF OpToRel
<1> QED
  BY <1>2

LEMMA MinOk ==
  ASSUME NEW S, S \subseteq Nat, S # {}
  PROVE  Min(S) \in S /\ \A y \in S : Min(S) <= y
BY Smallest DEF Min

\* Numbers up to n have a largest one.
LEMMA MaxOk ==
  ASSUME NEW n \in Nat, NEW S, S \subseteq 0 .. n, S # {}
  PROVE  Max(S) \in S /\ \A y \in S : Max(S) >= y
<1>1. PICK T : T = {k \in 0 .. n : n - k \in S}
  OBVIOUS
<1>2. T \subseteq Nat
  BY <1>1
<1>3. PICK x \in S : TRUE
  OBVIOUS
<1>4. n - x \in 0 .. n /\ n - (n - x) = x
  BY <1>3
<1>5. T # {}
  BY <1>1, <1>3, <1>4
<1>6. PICK k \in T : \A y \in T : k <= y
  BY <1>2, <1>5, Smallest
<1>7. k \in 0 .. n /\ n - k \in S
  BY <1>1, <1>6
<1>8. ASSUME NEW y \in S PROVE n - k >= y
  <2>1. n - y \in 0 .. n /\ n - (n - y) = y
    BY <1>8
  <2>2. n - y \in T
    BY <1>1, <2>1
  <2> QED
    BY <1>6, <1>7, <2>1, <2>2
<1> QED
  BY <1>7, <1>8 DEF Max

\* A set of numbers that has 0 and with each of them up to n the next.
LEMMA Upwards ==
  ASSUME NEW n \in Nat, NEW S, 0 \in S, \A i \in 0 .. n - 1 : i \in S => i + 1 \in S
  PROVE  \A i \in 0 .. n : i \in S
<1> SUFFICES ASSUME NEW k \in 0 .. n, k \notin S PROVE FALSE
  OBVIOUS
<1>1. PICK T : T = {i \in 0 .. n : i \notin S}
  OBVIOUS
<1>2. T \subseteq Nat /\ T # {}
  BY <1>1
<1>3. PICK x \in T : \A y \in T : x <= y
  BY <1>2, Smallest
<1>4. x \in 0 .. n /\ x \notin S /\ x # 0
  BY <1>1, <1>3
<1>5. x - 1 \in 0 .. n - 1 /\ x - 1 \notin T
  BY <1>3, <1>4
<1>6. x - 1 \in S
  BY <1>1, <1>5
<1>7. (x - 1) + 1 \in S
  BY <1>5, <1>6
<1>8. (x - 1) + 1 = x
  BY <1>4
<1> QED
  BY <1>4, <1>7, <1>8

\* f starts with a and takes n steps of g.
Steps(f, a, g, n) == f = [i \in 0 .. n |-> IF i = 0 THEN a ELSE g[<<i, f[i - 1]>>]]

LEMMA OneStepMore ==
  ASSUME NEW a, NEW g, NEW n \in Nat, NEW f, Steps(f, a, g, n), NEW m, m = n + 1
  PROVE  \E h : Steps(h, a, g, m)
<1>1. PICK h : h = [i \in 0 .. m |-> IF i = m THEN g[<<m, f[n]>>] ELSE f[i]]
  OBVIOUS
<1>2. \A i \in 0 .. n : h[i] = f[i]
  BY <1>1
<1>3. ASSUME NEW i \in 0 .. m PROVE h[i] = IF i = 0 THEN a ELSE g[<<i, h[i - 1]>>]
  <2>1. CASE i \in 0 .. n
    <3>1. f[i] = IF i = 0 THEN a ELSE g[<<i, f[i - 1]>>]
      BY <2>1 DEF Steps
    <3>2. i # 0 => h[i - 1] = f[i - 1]
      BY <1>2, <2>1
    <3> QED
      BY <1>2, <2>1, <3>1, <3>2
  <2>2. CASE i = m
    <3>1. h[i - 1] = f[n] /\ i # 0 /\ h[i] = g[<<m, f[n]>>]
      BY <1>1, <1>2, <2>2
    <3> QED
      BY <2>2, <3>1
  <2> QED
    BY <2>1, <2>2
<1>4. h = [i \in 0 .. m |-> IF i = 0 THEN a ELSE g[<<i, h[i - 1]>>]]
  BY <1>1, <1>3
<1> QED
  BY <1>4 DEF Steps

\* Every number of steps can be taken.
LEMMA StepsExist ==
  ASSUME NEW a, NEW g, NEW n \in Nat
  PROVE  \E f : Steps(f, a, g, n)
<1>1. PICK S : S = {k \in Nat : \E f : Steps(f, a, g, k)}
  OBVIOUS
<1>2. 0 \in S
  <2>1. PICK f : f = [i \in 0 .. 0 |-> a]
    OBVIOUS
  <2>2. f = [i \in 0 .. 0 |-> IF i = 0 THEN a ELSE g[<<i, f[i - 1]>>]]
    BY <2>1
  <2> QED
    BY <1>1, <2>2 DEF Steps
<1>3. ASSUME NEW k \in 0 .. n - 1, k \in S PROVE k + 1 \in S
  <2>1. PICK f, m : Steps(f, a, g, k) /\ m = k + 1
    BY <1>1, <1>3
  <2>2. \E h : Steps(h, a, g, m)
    BY <2>1, OneStepMore
  <2> QED
    BY <1>1, <2>1, <2>2
<1>4. n \in S
  BY <1>2, <1>3, Upwards
<1> QED
  BY <1>1, <1>4

Keeps(g, n, S) == \A i \in 1 .. n, s \in S : g[<<i, s>>] \in S

\* Steps that stay in a set.
LEMMA StepsStay ==
  ASSUME NEW S, NEW a \in S, NEW g, NEW n \in Nat, Keeps(g, n, S), NEW f, Steps(f, a, g, n)
  PROVE  \A i \in 0 .. n : f[i] \in S
<1>1. PICK T : T = {i \in 0 .. n : f[i] \in S}
  OBVIOUS
<1>2. 0 \in T
  BY <1>1 DEF Steps
<1>3. ASSUME NEW i \in 0 .. n - 1, i \in T PROVE i + 1 \in T
  <2>1. PICK j : j = i + 1 /\ j \in 1 .. n /\ j - 1 = i
    OBVIOUS
  <2>2. f[j] = g[<<j, f[j - 1]>>]
    BY <2>1 DEF Steps
  <2>3. f[j - 1] \in S
    BY <1>1, <1>3, <2>1
  <2>4. f[j] \in S
    BY <2>1, <2>2, <2>3 DEF Keeps
  <2> QED
    BY <1>1, <2>1, <2>4
<1> QED
  BY <1>1, <1>2, <1>3, Upwards

----------------------------------------------------------------------------
(* Gather and reduce: the names of files.                                  *)

Name == Seq(Nat)

\* One of the first suffixes is free.
LEMMA SuffixFree ==
  ASSUME NEW base \in Name, NEW used, IsFiniteSet(used)
  PROVE  \E n \in 2 .. Cardinality(used) + 2 : base \o <<n>> \notin used
<1>1. SUFFICES ASSUME \A n \in 2 .. Cardinality(used) + 2 : base \o <<n>> \in used PROVE FALSE
  OBVIOUS
<1>2. PICK c \in Nat : c = Cardinality(used)
  BY FS_CardinalityType
<1>3. PICK I : I = 2 .. c + 2
  OBVIOUS
<1>4. 2 \in Int /\ c + 2 \in Int /\ ~(2 > c + 2) /\ (c + 2) - 2 + 1 = c + 1
  BY <1>2
<1>5. Cardinality(I) = c + 1 /\ IsFiniteSet(I)
  <2>1. IsFiniteSet(2 .. c + 2) /\ Cardinality(2 .. c + 2) = (c + 2) - 2 + 1
    BY <1>4, FS_Interval
  <2> QED
    BY <1>3, <1>4, <2>1
<1>6. PICK f : f = [n \in I |-> base \o <<n>>]
  OBVIOUS
<1>7. f \in [I -> used]
  BY <1>1, <1>2, <1>3, <1>6
<1>8. ASSUME NEW m \in I, NEW n \in I, f[m] = f[n] PROVE m = n
  <2>1. base \o <<m>> = base \o <<n>> /\ m \in Nat /\ n \in Nat
    BY <1>3, <1>6, <1>8
  <2>2. (base \o <<m>>)[Len(base) + 1] = m /\ (base \o <<n>>)[Len(base) + 1] = n
    BY <2>1 DEF Name
  <2> QED
    BY <2>1, <2>2
<1>9. f \in Injection(I, used)
  BY <1>7, <1>8 DEF Injection, IsInjective
<1>10. Cardinality(I) <= Cardinality(used)
  BY <1>9, FS_Injection
<1> QED
  BY <1>2, <1>5, <1>10

\* A unique name is a name nobody has.
LEMMA UniqueNameOk ==
  ASSUME NEW base \in Name, NEW used, IsFiniteSet(used)
  PROVE  UniqueName(base, used) \in Name /\ UniqueName(base, used) \notin used
<1>1. CASE base \notin used
  BY <1>1 DEF UniqueName
<1>2. CASE base \in used
  <2>1. PICK c \in Nat : c = Cardinality(used)
    BY FS_CardinalityType
  <2>2. PICK S : S = {n \in 2 .. c + 2 : base \o <<n>> \notin used}
    OBVIOUS
  <2>3. S # {} /\ S \subseteq Nat
    BY <2>1, <2>2, SuffixFree
  <2>4. PICK n \in S : \A m \in S : n <= m
    BY <2>3, Smallest
  <2>5. n \in 2 .. c + 2 /\ base \o <<n>> \notin used
    BY <2>2, <2>4
  <2>6. \A m \in 2 .. n - 1 : base \o <<m>> \in used
    <3>1. SUFFICES ASSUME NEW m \in 2 .. n - 1 PROVE base \o <<m>> \in used
      OBVIOUS
    <3>2. m \in 2 .. c + 2 /\ ~(n <= m)
      BY <2>5
    <3>3. m \notin S
      BY <2>4, <3>2
    <3> QED
      BY <2>2, <3>2, <3>3
  <2>7. PICK k : k = CHOOSE n_1 \in 2 .. Cardinality(used) + 2 :
                       /\ base \o <<n_1>> \notin used
                       /\ \A m \in 2 .. n_1 - 1 : base \o <<m>> \in used
    OBVIOUS
  <2>8. k \in 2 .. c + 2 /\ base \o <<k>> \notin used
    BY <2>1, <2>5, <2>6, <2>7
  <2>9. UniqueName(base, used) = base \o <<k>>
    BY <1>2, <2>7, Zenon DEF UniqueName
  <2>10. base \o <<k>> \in Name
    BY <2>8 DEF Name
  <2> QED
    BY <2>8, <2>9, <2>10
<1> QED
  BY <1>1, <1>2

\* Different names, one after the other.
Distinct(s) == \A i, j \in 1 .. Len(s) : i # j => s[i] # s[j]
Plans == {s \in Seq(Name) : Distinct(s)}

\* The elements of a sequence.
LEMMA Elements ==
  ASSUME NEW S, NEW s \in Seq(S)
  PROVE  IsFiniteSet(ToSet(s)) /\ \A x : x \in ToSet(s) <=> \E i \in 1 .. Len(s) : s[i] = x
<1>1. DOMAIN s = 1 .. Len(s) /\ Len(s) \in Nat
  OBVIOUS
<1>2. \A x : x \in ToSet(s) <=> \E i \in 1 .. Len(s) : s[i] = x
  BY <1>1 DEF ToSet
<1>3. IsFiniteSet(1 .. Len(s))
  BY <1>1, FS_Interval
<1>4. PICK D, T : D = 1 .. Len(s) /\ T = ToSet(s)
  OBVIOUS
<1>5. s \in Surjection(D, T)
  BY <1>1, <1>2, <1>4 DEF Surjection
<1>6. IsFiniteSet(T)
  BY <1>3, <1>4, <1>5, FS_Surjection
<1> QED
  BY <1>2, <1>4, <1>6

\* A plan and one name more.
LEMMA PlanGrows ==
  ASSUME NEW s \in Plans, NEW base \in Name
  PROVE  Append(s, UniqueName(base, ToSet(s))) \in Plans
<1>1. PICK x : x = UniqueName(base, ToSet(s))
  OBVIOUS
<1>2. s \in Seq(Name) /\ Distinct(s)
  BY DEF Plans
<1>3. PICK U : U = ToSet(s)
  OBVIOUS
<1>4. IsFiniteSet(U) /\ \A i \in 1 .. Len(s) : s[i] \in U
  BY <1>2, <1>3, Elements
<1>5. x \in Name /\ x \notin U
  BY <1>1, <1>3, <1>4, UniqueNameOk
<1>6. \A i \in 1 .. Len(s) : s[i] # x
  BY <1>4, <1>5
<1>7. PICK t : t = Append(s, x)
  OBVIOUS
<1>8. t \in Seq(Name) /\ Len(t) = Len(s) + 1 /\ Len(s) \in Nat
  BY <1>2, <1>5, <1>7
<1>9. t[Len(s) + 1] = x /\ \A i \in 1 .. Len(s) : t[i] = s[i]
  BY <1>2, <1>5, <1>7
<1>10. Distinct(t)
  <2>1. SUFFICES ASSUME NEW i \in 1 .. Len(t), NEW j \in 1 .. Len(t), i # j PROVE t[i] # t[j]
    BY DEF Distinct
  <2>2. CASE i \in 1 .. Len(s) /\ j \in 1 .. Len(s)
    BY <1>2, <1>9, <2>1, <2>2 DEF Distinct
  <2>3. CASE i = Len(s) + 1 /\ j \in 1 .. Len(s)
    BY <1>6, <1>9, <2>3
  <2>4. CASE j = Len(s) + 1 /\ i \in 1 .. Len(s)
    BY <1>6, <1>9, <2>4
  <2> QED
    BY <1>8, <2>1, <2>2, <2>3, <2>4
<1> QED
  BY <1>1, <1>7, <1>8, <1>10 DEF Plans

\* f[i] is the plan for the first i of the bases.
PlanOf(f, bases, n) ==
  f = [i \in 0 .. n |-> IF i = 0 THEN <<>>
                        ELSE Append(f[i - 1], UniqueName(bases[i], ToSet(f[i - 1])))]

LEMMA PlanExists ==
  ASSUME NEW bases \in Seq(Name), NEW n, n = Len(bases)
  PROVE  \E f : PlanOf(f, bases, n)
<1>1. n \in Nat /\ \A i \in 1 .. n : bases[i] \in Name
  OBVIOUS
<1>2. PICK g : g = [p \in (1 .. n) \X Plans |->
                      Append(p[2], UniqueName(bases[p[1]], ToSet(p[2])))]
  OBVIOUS
<1>3. \A i \in 1 .. n, s \in Plans : g[<<i, s>>] = Append(s, UniqueName(bases[i], ToSet(s)))
  BY <1>2
<1>4. Keeps(g, n, Plans)
  BY <1>1, <1>3, PlanGrows DEF Keeps
<1>5. <<>> \in Plans
  BY DEF Plans, Distinct
<1>6. PICK f : Steps(f, <<>>, g, n)
  BY <1>1, StepsExist
<1>7. \A i \in 0 .. n : f[i] \in Plans
  BY <1>1, <1>4, <1>5, <1>6, StepsStay
<1>8. ASSUME NEW i \in 0 .. n
      PROVE  f[i] = IF i = 0 THEN <<>> ELSE Append(f[i - 1], UniqueName(bases[i], ToSet(f[i - 1])))
  <2>1. CASE i = 0
    BY <1>6, <2>1 DEF Steps
  <2>2. CASE i # 0
    <3>1. i \in 1 .. n /\ i - 1 \in 0 .. n
      BY <1>1, <2>2
    <3>2. f[i] = g[<<i, f[i - 1]>>]
      BY <1>6, <2>2 DEF Steps
    <3>3. f[i - 1] \in Plans
      BY <1>7, <3>1
    <3> QED
      BY <1>3, <2>2, <3>1, <3>2, <3>3
  <2> QED
    BY <2>1, <2>2
<1>9. f = [i \in 0 .. n |-> f[i]]
  BY <1>6 DEF Steps
<1>10. f = [i \in 0 .. n |-> IF i = 0 THEN <<>>
                             ELSE Append(f[i - 1], UniqueName(bases[i], ToSet(f[i - 1])))]
  BY <1>8, <1>9
<1> QED
  BY <1>10 DEF PlanOf

LEMMA PlanStays ==
  ASSUME NEW bases \in Seq(Name), NEW n, n = Len(bases), NEW f, PlanOf(f, bases, n)
  PROVE  f[n] \in Plans
<1>1. n \in Nat /\ \A i \in 1 .. n : bases[i] \in Name
  OBVIOUS
<1>2. PICK T : T = {i \in 0 .. n : f[i] \in Plans}
  OBVIOUS
<1>3. 0 \in T
  <2>1. f[0] = <<>>
    BY <1>1 DEF PlanOf
  <2>2. <<>> \in Plans
    BY DEF Plans, Distinct
  <2> QED
    BY <1>1, <1>2, <2>1, <2>2
<1>4. ASSUME NEW i \in 0 .. n - 1, i \in T PROVE i + 1 \in T
  <2>1. PICK j : j = i + 1 /\ j \in 1 .. n /\ j - 1 = i
    BY <1>1
  <2>2. f[j] = Append(f[j - 1], UniqueName(bases[j], ToSet(f[j - 1])))
    <3>1. j \in 0 .. n /\ j # 0
      BY <1>1, <2>1
    <3> QED
      BY <3>1, Zenon DEF PlanOf
  <2>3. f[j - 1] \in Plans
    BY <1>2, <1>4, <2>1
  <2>4. f[j] \in Plans
    BY <1>1, <2>1, <2>2, <2>3, PlanGrows
  <2> QED
    BY <1>2, <2>1, <2>4
<1>5. n \in T
  BY <1>1, <1>3, <1>4, Upwards
<1> QED
  BY <1>2, <1>5

\* Planned names are different names.
LEMMA PlanNamesOk ==
  ASSUME NEW bases \in Seq(Name)
  PROVE  PlanNames(bases) \in Plans
<1>1. PICK n : n = Len(bases)
  OBVIOUS
<1>2. PICK f : f = CHOOSE f_1 : PlanOf(f_1, bases, n)
  OBVIOUS
<1>3. PlanOf(f, bases, n)
  BY <1>1, <1>2, PlanExists
<1>4. PlanNames(bases) = f[n]
  BY <1>1, <1>2 DEF PlanNames, PlanOf
<1> QED
  BY <1>1, <1>3, <1>4, PlanStays

----------------------------------------------------------------------------
(* Gather and reduce: the answers of the members.                          *)

Input == Answers \cup {Nothing}
Rows == answers \in Seq(Answers)

LEMMA MembersOk ==
  /\ Len(Members) \in Nat /\ Ranked = 1 .. Len(Members)
  /\ \A i \in Ranked : Members[i] \in Agents
BY CollectAssumption DEF Ranked, Agents

\* The latest row of an agent is one of its own.
LEMMA LatestOk ==
  ASSUME Rows, NEW a
  PROVE  /\ LatestMemberTask(a) \in Input
         /\ LatestMemberTask(a) # Nothing => LatestMemberTask(a).agent = a
<1>1. CASE RowsOf(a) = {}
  BY <1>1 DEF LatestMemberTask, Input
<1>2. CASE RowsOf(a) # {}
  <2>1. PICK n \in Nat : n = Len(answers)
    BY DEF Rows
  <2>2. PICK S : S = RowsOf(a)
    OBVIOUS
  <2>3. S \subseteq 0 .. n /\ S # {}
    BY <1>2, <2>1, <2>2 DEF RowsOf
  <2>4. PICK k : k = Max(S)
    OBVIOUS
  <2>5. k \in S
    BY <2>3, <2>4, MaxOk
  <2>6. k \in 1 .. Len(answers) /\ answers[k].agent = a
    BY <2>2, <2>5 DEF RowsOf
  <2>7. LatestMemberTask(a) = answers[k]
    BY <1>2, <2>2, <2>4, Zenon DEF LatestMemberTask
  <2> QED
    BY <2>6, <2>7 DEF Input, Rows
<1> QED
  BY <1>1, <1>2

\* What a gather or reduce works with: an answer or nothing for each rank.
InputList(inputs) ==
  /\ inputs \in Seq(Input) /\ Len(inputs) = Len(Members)
  /\ \A i \in 1 .. Len(inputs) : inputs[i] # Nothing => inputs[i].agent = Members[i]

LEMMA InputsOk ==
  ASSUME Rows
  PROVE  InputList(Inputs)
<1>1. PICK n \in Nat : n = Len(Members) /\ Ranked = 1 .. n
  BY MembersOk
<1>2. PICK s : s = Inputs
  OBVIOUS
<1>3. s = [i \in 1 .. n |-> LatestMemberTask(Members[i])]
  BY <1>1, <1>2 DEF Inputs
<1>4. \A i \in 1 .. n : s[i] \in Input /\ (s[i] # Nothing => s[i].agent = Members[i])
  BY <1>3, LatestOk
<1>5. s \in Seq(Input) /\ Len(s) = n
  BY <1>3, <1>4
<1> QED
  BY <1>1, <1>2, <1>4, <1>5 DEF InputList

\* What an agent's artifacts are called.
LEMMA ArtifactsOk ==
  ASSUME NEW r \in Answers
  PROVE  r.artifacts \in Seq(Name)
<1>1. r.artifacts = <<>> \/ r.artifacts \in Lists
  BY DEF Answers
<1>2. CASE r.artifacts \in Lists
  BY <1>2, CollectAssumption DEF Name
<1>3. CASE r.artifacts = <<>>
  BY <1>3
<1> QED
  BY <1>1, <1>2, <1>3

LEMMA MemberBasesOk ==
  ASSUME NEW n \in Nat, NEW r \in Input
  PROVE  MemberBases(n, r) \in Seq(Name)
<1>1. CASE r = Nothing
  BY <1>1 DEF MemberBases
<1>2. CASE r # Nothing
  <2>1. PICK l : l = r.artifacts
    OBVIOUS
  <2>2. l \in Seq(Name)
    BY <1>2, <2>1, ArtifactsOk DEF Input
  <2>3. \A k \in 1 .. Len(l) : <<n>> \o l[k] \in Name
    BY <2>2 DEF Name
  <2>4. MemberBases(n, r) = [k \in 1 .. Len(l) |-> <<n>> \o l[k]]
    BY <1>2, <2>1 DEF MemberBases
  <2>5. Len(l) \in Nat
    BY <2>2
  <2> QED
    BY <2>3, <2>4, <2>5
<1> QED
  BY <1>1, <1>2

\* f[n] are the bases of the first n members.
BasesOf(f, inputs, m) ==
  f = [n \in 0 .. m |-> IF n = 0 THEN <<>> ELSE f[n - 1] \o MemberBases(n, inputs[n])]

LEMMA BasesExist ==
  ASSUME NEW inputs \in Seq(Input), NEW m, m = Len(inputs)
  PROVE  \E f : BasesOf(f, inputs, m)
<1>1. m \in Nat /\ \A i \in 1 .. m : inputs[i] \in Input /\ i \in Nat
  OBVIOUS
<1>2. PICK g : g = [p \in (1 .. m) \X Seq(Name) |-> p[2] \o MemberBases(p[1], inputs[p[1]])]
  OBVIOUS
<1>3. \A i \in 1 .. m, s \in Seq(Name) : g[<<i, s>>] = s \o MemberBases(i, inputs[i])
  BY <1>2
<1>4. \A i \in 1 .. m : MemberBases(i, inputs[i]) \in Seq(Name)
  BY <1>1, MemberBasesOk
<1>5. Keeps(g, m, Seq(Name))
  <2>1. SUFFICES ASSUME NEW i \in 1 .. m, NEW s \in Seq(Name) PROVE g[<<i, s>>] \in Seq(Name)
    BY DEF Keeps
  <2>2. PICK t \in Seq(Name) : t = MemberBases(i, inputs[i])
    BY <1>4
  <2>3. g[<<i, s>>] = s \o t
    BY <1>3, <2>2
  <2>4. s \o t \in Seq(Name)
    OBVIOUS
  <2> QED
    BY <2>3, <2>4
<1>6. PICK f : Steps(f, <<>>, g, m)
  BY <1>1, StepsExist
<1>7. \A i \in 0 .. m : f[i] \in Seq(Name)
  <2>1. <<>> \in Seq(Name)
    OBVIOUS
  <2> QED
    BY <1>1, <1>5, <1>6, <2>1, StepsStay
<1>8. ASSUME NEW i \in 0 .. m
      PROVE  f[i] = IF i = 0 THEN <<>> ELSE f[i - 1] \o MemberBases(i, inputs[i])
  <2>1. CASE i = 0
    BY <1>6, <2>1 DEF Steps
  <2>2. CASE i # 0
    <3>1. i \in 1 .. m /\ i - 1 \in 0 .. m
      BY <1>1, <2>2
    <3>2. f[i] = g[<<i, f[i - 1]>>]
      BY <1>6, <2>2 DEF Steps
    <3>3. f[i - 1] \in Seq(Name)
      BY <1>7, <3>1
    <3> QED
      BY <1>3, <2>2, <3>1, <3>2, <3>3
  <2> QED
    BY <2>1, <2>2
<1>9. f = [i \in 0 .. m |-> f[i]]
  BY <1>6 DEF Steps
<1>10. f = [n \in 0 .. m |-> IF n = 0 THEN <<>> ELSE f[n - 1] \o MemberBases(n, inputs[n])]
  BY <1>8, <1>9
<1> QED
  BY <1>10 DEF BasesOf

LEMMA BasesStay ==
  ASSUME NEW inputs \in Seq(Input), NEW m, m = Len(inputs), NEW f, BasesOf(f, inputs, m)
  PROVE  f[m] \in Seq(Name)
<1>1. m \in Nat /\ \A i \in 1 .. m : inputs[i] \in Input
  OBVIOUS
<1>2. PICK T : T = {i \in 0 .. m : f[i] \in Seq(Name)}
  OBVIOUS
<1>3. 0 \in T
  <2>1. f[0] = <<>> /\ 0 \in 0 .. m
    BY <1>1 DEF BasesOf
  <2>2. <<>> \in Seq(Name)
    OBVIOUS
  <2>3. f[0] \in Seq(Name)
    BY <2>1, <2>2, Zenon
  <2> QED
    BY <1>2, <2>1, <2>3
<1>4. ASSUME NEW i \in 0 .. m - 1, i \in T PROVE i + 1 \in T
  <2>1. PICK j : j = i + 1 /\ j \in 1 .. m /\ j - 1 = i /\ j \in Nat
    BY <1>1
  <2>2. f[j] = f[j - 1] \o MemberBases(j, inputs[j])
    <3>1. j \in 0 .. m /\ j # 0
      BY <1>1, <2>1
    <3> QED
      BY <3>1, Zenon DEF BasesOf
  <2>3. f[j - 1] \in Seq(Name)
    BY <1>2, <1>4, <2>1
  <2>4. MemberBases(j, inputs[j]) \in Seq(Name)
    BY <1>1, <2>1, MemberBasesOk
  <2>5. f[j] \in Seq(Name)
    BY <2>2, <2>3, <2>4
  <2> QED
    BY <1>2, <2>1, <2>5
<1>5. m \in T
  BY <1>1, <1>3, <1>4, Upwards
<1> QED
  BY <1>2, <1>5

LEMMA GatherBasesOk ==
  ASSUME NEW inputs \in Seq(Input)
  PROVE  GatherBases(inputs) \in Seq(Name)
<1>1. PICK m : m = Len(inputs)
  OBVIOUS
<1>2. PICK f : f = CHOOSE f_1 : BasesOf(f_1, inputs, m)
  OBVIOUS
<1>3. BasesOf(f, inputs, m)
  BY <1>1, <1>2, BasesExist
<1>4. GatherBases(inputs) = f[m]
  BY <1>1, <1>2 DEF GatherBases, BasesOf
<1> QED
  BY <1>1, <1>3, <1>4, BasesStay

\* A prefix of a plan.
LEMMA PlanPrefix ==
  ASSUME NEW s \in Plans, NEW n \in 0 .. Len(s), NEW t, t = SubSeq(s, 1, n)
  PROVE  t \in Plans /\ \A x \in ToSet(t) : x \in ToSet(s)
<1>1. s \in Seq(Name) /\ Distinct(s) /\ Len(s) \in Nat
  BY DEF Plans
<1>2. n \in Nat /\ n <= Len(s)
  BY <1>1
<1>3. t \in Seq(Name) /\ Len(t) = n /\ \A i \in 1 .. n : t[i] = s[i]
  BY <1>1, <1>2
<1>4. Distinct(t)
  BY <1>1, <1>2, <1>3 DEF Distinct
<1>5. ASSUME NEW x \in ToSet(t) PROVE x \in ToSet(s)
  <2>1. PICK i \in 1 .. Len(t) : t[i] = x
    BY <1>3, Elements
  <2>2. i \in 1 .. Len(s) /\ s[i] = x
    BY <1>1, <1>2, <1>3, <2>1
  <2> QED
    BY <1>1, <2>2, Elements
<1> QED
  BY <1>3, <1>4, <1>5 DEF Plans

LEMMA NoPlan == <<>> \in Plans /\ ToSet(<<>>) = {}
<1>1. <<>> \in Plans
  BY DEF Plans, Distinct
<1>2. <<>> \in Seq(Name)
  OBVIOUS
<1>3. \A x : x \notin ToSet(<<>>)
  BY DEF ToSet
<1> QED
  BY <1>1, <1>3

\* What a gather plans to write.
LEMMA GatherPlanOk ==
  ASSUME Rows, NEW export
  PROVE  GatherPlan(export) \in Plans
<1>1. PICK b : b = GatherBases(Inputs)
  OBVIOUS
<1>2. b \in Seq(Name)
  BY <1>1, InputsOk, GatherBasesOk DEF InputList
<1>3. PlanNames(b) \in Plans
  BY <1>2, PlanNamesOk
<1> QED
  BY <1>1, <1>3, NoPlan DEF GatherPlan

----------------------------------------------------------------------------
(* Gather and reduce: the invariant.                                       *)

Statuses == {"none", "succeeded", "partial", "missing", "invalid", "refused",
             "failed", "unsaved", "killed", "io"}

\* The report of the last operation, or what the running one has so far.
ReportOk(r) ==
  /\ r = [kind |-> r.kind, status |-> r.status, inputs |-> r.inputs, result |-> r.result]
  /\ r.status \in Statuses
  /\ r.inputs = <<>> \/ InputList(r.inputs)
  /\ r.kind \in {"gather", "export"} => r.result \in Plans

JournalEvents == {"started", "member", "completed", "failed"}

Closed(j, status) ==
  IF status = "unsaved" THEN j = <<"started">>
  ELSE /\ Len(j) >= 2 /\ j[1] = "started"
       /\ j[Len(j)] = IF status = "failed" THEN "failed" ELSE "completed"
       /\ status # "failed" => Len(j) = 2 + Len(Members)

Stages == [kind : {"reducing", "reduced"}, strategy : Strategies, method : Methods]

\* A reduce has its inputs and its first event from the start; the answers it
\* took them from stay as they are until it has its output.
StageOk(s, r, j, inputs) ==
  \/ /\ s = NoStage
     /\ r.kind = "reduce" /\ r.status \notin {"killed", "invalid"} => Closed(j, r.status)
  \/ /\ s \in Stages /\ r.kind = "none" /\ j = <<"started">>
     /\ InputList(r.inputs)
     /\ s.kind = "reducing" => r.inputs = inputs

CollectInv ==
  /\ Rows /\ Len(answers) <= MaxRows
  /\ journal \in Seq(JournalEvents)
  /\ ReportOk(report)
  /\ StageOk(stage, report, journal, Inputs)

\* A step that leaves the answers alone.
LEMMA SameAnswers ==
  ASSUME CollectInv, answers' = answers, journal' \in Seq(JournalEvents), ReportOk(report'),
         StageOk(stage', report', journal', Inputs)
  PROVE  CollectInv'
<1>1. Inputs' = Inputs
  BY DEF Inputs, LatestMemberTask, RowsOf
<1>2. Rows'
  BY DEF CollectInv, Rows
<1> QED
  BY <1>1, <1>2 DEF CollectInv

\* Nothing reported, nothing running.
LEMMA Fresh ==
  /\ ReportOk(NoReport) /\ <<>> \in Seq(JournalEvents)
  /\ \A inputs : StageOk(NoStage, NoReport, <<>>, inputs)
<1>1. NoReport.kind = "none" /\ NoReport.status = "none" /\ NoReport.inputs = <<>>
      /\ NoReport.result = <<>>
  BY DEF NoReport
<1>2. ReportOk(NoReport)
  BY <1>1 DEF ReportOk, NoReport, Statuses
<1>3. \A inputs : StageOk(NoStage, NoReport, <<>>, inputs)
  BY <1>1 DEF StageOk
<1> QED
  BY <1>2, <1>3

\* Rows written or refreshed between the operations.
LEMMA RowsArrive ==
  ASSUME CollectInv, IsIdle, Rows', Len(answers') <= MaxRows,
         journal' = <<>>, report' = NoReport, stage' = stage
  PROVE  CollectInv'
<1>1. stage' = NoStage
  BY DEF IsIdle, NoStage
<1>2. ReportOk(report') /\ journal' \in Seq(JournalEvents)
  BY Fresh
<1>3. \A inputs : StageOk(stage', report', journal', inputs)
  BY <1>1, Fresh
<1> QED
  BY <1>2, <1>3 DEF CollectInv

LEMMA RowWrittenOk ==
  ASSUME CollectInv, NEW a \in Agents, NEW text \in Texts \cup {Nothing},
         NEW artifacts \in {<<>>} \cup Lists, RowWritten(a, text, artifacts)
  PROVE  CollectInv'
<1>1. PICK r : r = [id |-> Len(answers) + 1, agent |-> a, text |-> text,
                    messages |-> IF text = Nothing THEN 0 ELSE 1, artifacts |-> artifacts]
  OBVIOUS
<1>2. answers \in Seq(Answers) /\ Len(answers) < MaxRows /\ Len(answers) \in Nat
  BY DEF CollectInv, Rows, RowWritten
<1>3. r \in Answers
  BY <1>1, <1>2, CollectAssumption DEF Answers
<1>4. answers' = Append(answers, r)
  BY <1>1 DEF RowWritten
<1>5. answers' \in Seq(Answers) /\ Len(answers') <= MaxRows
  BY <1>2, <1>3, <1>4, CollectAssumption
<1>6. Rows'
  BY <1>5 DEF Rows
<1> QED
  BY <1>5, <1>6, RowsArrive DEF RowWritten

\* Two sequences, one after the other.
Join(s, t, u) == u = s \o t

LEMMA Joined ==
  ASSUME NEW S, NEW s \in Seq(S), NEW t \in Seq(S), NEW u, Join(s, t, u)
  PROVE  /\ u \in Seq(S) /\ Len(u) = Len(s) + Len(t)
         /\ \A i \in 1 .. Len(s) : u[i] = s[i]
         /\ \A i \in 1 .. Len(t) : u[Len(s) + i] = t[i]
BY DEF Join

\* A sequence and one element more.
LEMMA Appended ==
  ASSUME NEW S, NEW s \in Seq(S), NEW x \in S, NEW u, u = Append(s, x)
  PROVE  /\ u \in Seq(S) /\ Len(u) = Len(s) + 1 /\ u[Len(s) + 1] = x
         /\ \A i \in 1 .. Len(s) : u[i] = s[i]
OBVIOUS

LEMMA RowRefreshedOk ==
  ASSUME CollectInv, NEW i, RowRefreshed(i)
  PROVE  CollectInv'
<1>1. answers \in Seq(Answers) /\ Len(answers) <= MaxRows /\ Len(answers) \in Nat
      /\ i \in 1 .. Len(answers) - 1
  BY DEF CollectInv, Rows, RowRefreshed
<1>2. PICK n \in Nat : n = Len(answers) /\ i \in 1 .. n /\ i + 1 \in 1 .. n /\ i \in Nat
  BY <1>1
<1>3. PICK s, t : s = SubSeq(answers, 1, i - 1) /\ t = SubSeq(answers, i + 1, n)
  OBVIOUS
<1>4. s \in Seq(Answers) /\ Len(s) = i - 1
  BY <1>1, <1>2, <1>3
<1>5. t \in Seq(Answers) /\ Len(t) = n - i
  BY <1>1, <1>2, <1>3
<1>6. PICK u : u = s \o t
  OBVIOUS
<1>7. u \in Seq(Answers) /\ Len(u) = Len(s) + Len(t)
  <2>1. Join(s, t, u)
    BY <1>6 DEF Join
  <2> QED
    BY <1>4, <1>5, <2>1, Joined
<1>8. answers[i] \in Answers
  BY <1>1, <1>2
<1>9. answers' = Append(u, answers[i])
  BY <1>2, <1>3, <1>6 DEF RowRefreshed, RemoveAt
<1>10. answers' \in Seq(Answers) /\ Len(answers') = Len(u) + 1
  BY <1>7, <1>8, <1>9, Appended
<1>11. Len(answers') = n
  BY <1>2, <1>4, <1>5, <1>7, <1>10
<1>12. Rows' /\ Len(answers') <= MaxRows
  BY <1>1, <1>2, <1>10, <1>11 DEF Rows
<1> QED
  BY <1>12, RowsArrive DEF RowRefreshed

----------------------------------------------------------------------------
(* Gather and reduce: each operation.                                      *)

\* A report whose kind is not that of a reduce, while nothing runs.
LEMMA Reported ==
  ASSUME CollectInv, IsIdle, answers' = answers, stage' = stage,
         journal' \in Seq(JournalEvents), NEW kind \in {"gather", "export"},
         NEW status \in Statuses, NEW inputs, inputs = <<>> \/ InputList(inputs),
         NEW result \in Plans, Report(kind, status, inputs, result)
  PROVE  CollectInv'
<1>1. /\ report' = [kind |-> kind, status |-> status, inputs |-> inputs, result |-> result]
      /\ report'.kind = kind /\ report'.status = status
      /\ report'.inputs = inputs /\ report'.result = result
  BY DEF Report
<1>2. ReportOk(report')
  BY <1>1 DEF ReportOk
<1>3. stage' = NoStage /\ report'.kind # "reduce"
  BY <1>1 DEF IsIdle, NoStage
<1>4. StageOk(stage', report', journal', Inputs)
  BY <1>3 DEF StageOk
<1> QED
  BY <1>2, <1>4, SameAnswers

LEMMA MemberEventsOk ==
  ASSUME NEW n \in Nat
  PROVE  MemberEvents(n) \in Seq(JournalEvents) /\ Len(MemberEvents(n)) = n
BY DEF MemberEvents, JournalEvents

\* The events of an operation that came to its end.
Bracketed(j, n) == j = <<"started">> \o MemberEvents(n) \o <<"completed">>

LEMMA Bracket ==
  ASSUME NEW n \in Nat, NEW j, Bracketed(j, n)
  PROVE  /\ j \in Seq(JournalEvents) /\ Len(j) = 2 + n
         /\ j[1] = "started" /\ j[Len(j)] = "completed"
<1>1. PICK m : m = MemberEvents(n) /\ m \in Seq(JournalEvents) /\ Len(m) = n
  BY MemberEventsOk
<1>2. PICK s, c : s = <<"started">> /\ c = <<"completed">>
  OBVIOUS
<1>3. /\ s \in Seq(JournalEvents) /\ Len(s) = 1 /\ s[1] = "started"
      /\ c \in Seq(JournalEvents) /\ Len(c) = 1 /\ c[1] = "completed"
  BY <1>2 DEF JournalEvents
<1>4. PICK k : Join(s, m, k)
  BY DEF Join
<1>5. k \in Seq(JournalEvents) /\ Len(k) = 1 + n /\ k[1] = "started"
  <2>1. /\ k \in Seq(JournalEvents) /\ Len(k) = Len(s) + Len(m)
        /\ \A i \in 1 .. Len(s) : k[i] = s[i]
    <3>1. s \in Seq(JournalEvents) /\ m \in Seq(JournalEvents)
      BY <1>1, <1>3
    <3>2. k \in Seq(JournalEvents) /\ Len(k) = Len(s) + Len(m)
      BY <1>4, <3>1, Joined
    <3>3. \A i \in 1 .. Len(s) : k[i] = s[i]
      BY <1>4, <3>1, Joined
    <3> QED
      BY <3>2, <3>3
  <2> QED
    BY <1>1, <1>3, <2>1
<1>6. Join(k, c, j)
  BY <1>1, <1>2, <1>4, Zenon DEF Join, Bracketed
<1>7. /\ j \in Seq(JournalEvents) /\ Len(j) = Len(k) + Len(c)
      /\ \A i \in 1 .. Len(k) : j[i] = k[i]
      /\ \A i \in 1 .. Len(c) : j[Len(k) + i] = c[i]
  <2>1. k \in Seq(JournalEvents) /\ c \in Seq(JournalEvents)
    BY <1>3, <1>5
  <2>2. j \in Seq(JournalEvents) /\ Len(j) = Len(k) + Len(c)
    BY <1>6, <2>1, Joined
  <2>3. \A i \in 1 .. Len(k) : j[i] = k[i]
    BY <1>6, <2>1, Joined
  <2>4. \A i \in 1 .. Len(c) : j[Len(k) + i] = c[i]
    BY <1>6, <2>1, Joined
  <2> QED
    BY <2>2, <2>3, <2>4
<1>8. j[1] = k[1] /\ j[Len(k) + 1] = c[1] /\ Len(j) = Len(k) + 1 /\ Len(j) = 2 + n
  BY <1>3, <1>5, <1>7
<1> QED
  BY <1>3, <1>5, <1>7, <1>8

\* The status a gather ends with.
LEMMA GatherStatusOk == \A inputs : GatherStatus(inputs) \in Statuses
BY DEF GatherStatus, Statuses

LEMMA GatherOk ==
  ASSUME CollectInv, NEW export, NEW force, Gather(export, force)
  PROVE  CollectInv'
<1>1. PICK p : p = GatherPlan(export)
  OBVIOUS
<1>2. p \in Plans /\ InputList(Inputs)
  BY <1>1, GatherPlanOk, InputsOk DEF CollectInv
<1>3. IsIdle /\ answers' = answers /\ stage' = stage
  BY DEF Gather
<1>4. <<"started">> \in Seq(JournalEvents)
  BY DEF JournalEvents
<1>5. CASE GatherRefuses(p, force)
  <2>1. Report("gather", "refused", Inputs, <<>>) /\ journal' = <<"started">>
    BY <1>1, <1>5 DEF Gather
  <2>2. "refused" \in Statuses
    BY DEF Statuses
  <2> QED
    BY <1>2, <1>3, <1>4, <2>1, <2>2, NoPlan, Reported
<1>6. CASE ~GatherRefuses(p, force)
  <2>1. \/ /\ Report("gather", GatherStatus(Inputs), Inputs, p)
           /\ journal' = <<"started">> \o MemberEvents(Len(Members)) \o <<"completed">>
        \/ \E n \in 0 .. Len(p) : /\ Report("gather", "io", Inputs, SubSeq(p, 1, n))
                                  /\ journal' = <<"started">>
    BY <1>1, <1>6, Zenon DEF Gather
  <2>2. CASE /\ Report("gather", GatherStatus(Inputs), Inputs, p)
             /\ journal' = <<"started">> \o MemberEvents(Len(Members)) \o <<"completed">>
    <3>1. journal' \in Seq(JournalEvents)
      BY <2>2, Bracket, MembersOk DEF Bracketed
    <3> QED
      BY <1>2, <1>3, <2>2, <3>1, GatherStatusOk, Reported
  <2>3. CASE \E n \in 0 .. Len(p) : /\ Report("gather", "io", Inputs, SubSeq(p, 1, n))
                                    /\ journal' = <<"started">>
    <3>1. PICK n \in 0 .. Len(p) : /\ Report("gather", "io", Inputs, SubSeq(p, 1, n))
                                   /\ journal' = <<"started">>
      BY <2>3
    <3>2. PICK t : t = SubSeq(p, 1, n)
      OBVIOUS
    <3>3. t \in Plans /\ Report("gather", "io", Inputs, t)
      BY <1>2, <3>1, <3>2, PlanPrefix
    <3>4. "io" \in Statuses
      BY DEF Statuses
    <3> QED
      BY <1>2, <1>3, <1>4, <3>1, <3>3, <3>4, Reported
  <2> QED
    BY <2>1, <2>2, <2>3
<1> QED
  BY <1>5, <1>6

LEMMA ArtifactExportOk ==
  ASSUME CollectInv, NEW i, NEW force, ArtifactExport(i, force)
  PROVE  CollectInv'
<1>1. i \in 1 .. Len(answers) /\ IsIdle /\ answers' = answers /\ stage' = stage
      /\ journal' = journal
  BY DEF ArtifactExport
<1>2. answers[i] \in Answers
  BY <1>1 DEF CollectInv, Rows
<1>3. PICK p : p = PlanNames(answers[i].artifacts)
  OBVIOUS
<1>4. p \in Plans
  BY <1>2, <1>3, ArtifactsOk, PlanNamesOk
<1>5. Len(p) \in Nat
  BY <1>4 DEF Plans
<1>6. PICK taken : taken = {k \in 1 .. Len(p) : p[k] \in files}
  OBVIOUS
<1>7. PICK n : n = IF force \/ taken = {} THEN Len(p) ELSE Min(taken) - 1
  OBVIOUS
<1>8. n \in 0 .. Len(p)
  <2>1. CASE force \/ taken = {}
    BY <1>5, <1>7, <2>1
  <2>2. CASE ~(force \/ taken = {})
    <3>1. taken \subseteq Nat /\ taken # {} /\ taken \subseteq 1 .. Len(p)
      BY <1>6, <2>2
    <3>2. Min(taken) \in taken
      BY <3>1, MinOk
    <3>3. PICK k \in 1 .. Len(p) : k = Min(taken)
      BY <3>1, <3>2
    <3>4. n = k - 1
      BY <1>7, <2>2, <3>3
    <3> QED
      BY <1>5, <3>3, <3>4
  <2> QED
    BY <2>1, <2>2
<1>9. PICK t : t = SubSeq(p, 1, n)
  OBVIOUS
<1>10. t \in Plans
  BY <1>4, <1>8, <1>9, PlanPrefix
<1>11. Report("export", IF t = p THEN "succeeded" ELSE "refused", <<>>, t)
  BY <1>3, <1>6, <1>7, <1>9, Zenon DEF ArtifactExport
<1>12. (IF t = p THEN "succeeded" ELSE "refused") \in Statuses
  BY DEF Statuses
<1>13. journal' \in Seq(JournalEvents)
  BY <1>1 DEF CollectInv
<1> QED
  BY <1>1, <1>10, <1>11, <1>12, <1>13, Reported

LEMMA ReduceStartOk ==
  ASSUME CollectInv, NEW strategy \in Strategies, NEW method \in Methods,
         ReduceStart(strategy, method)
  PROVE  CollectInv'
<1>1. IsIdle /\ answers' = answers /\ InputList(Inputs)
  BY InputsOk DEF ReduceStart, CollectInv
<1>2. CASE Gathered(Inputs) = {}
  <2>1. /\ report' = [kind |-> "reduce", status |-> "invalid", inputs |-> Inputs, result |-> <<>>]
        /\ journal' = journal /\ stage' = stage
    BY <1>2 DEF ReduceStart, Report
  <2>2. /\ report'.kind = "reduce" /\ report'.status = "invalid"
        /\ report'.inputs = Inputs /\ report'.result = <<>>
    BY <2>1
  <2>3. ReportOk(report')
    BY <1>1, <2>1, <2>2 DEF ReportOk, Statuses
  <2>4. StageOk(stage', report', journal', Inputs)
    BY <1>1, <2>1, <2>2 DEF StageOk, IsIdle, NoStage
  <2>5. journal' \in Seq(JournalEvents)
    BY <2>1 DEF CollectInv
  <2> QED
    BY <1>1, <2>3, <2>4, <2>5, SameAnswers
<1>3. CASE Gathered(Inputs) # {}
  <2>1. /\ report' = [kind |-> "none", status |-> "none", inputs |-> Inputs, result |-> <<>>]
        /\ journal' = <<"started">>
        /\ stage' = [kind |-> "reducing", strategy |-> strategy, method |-> method]
    BY <1>3 DEF ReduceStart, Report
  <2>2. /\ report'.kind = "none" /\ report'.status = "none"
        /\ report'.inputs = Inputs /\ report'.result = <<>>
    BY <2>1
  <2>3. ReportOk(report')
    BY <1>1, <2>1, <2>2 DEF ReportOk, Statuses
  <2>4. stage' \in Stages
    BY <2>1 DEF Stages
  <2>5. StageOk(stage', report', journal', Inputs)
    BY <1>1, <2>1, <2>2, <2>4 DEF StageOk
  <2>6. journal' \in Seq(JournalEvents)
    BY <2>1 DEF JournalEvents
  <2> QED
    BY <1>1, <2>3, <2>5, <2>6, SameAnswers
<1> QED
  BY <1>2, <1>3

\* While a reduce runs.
Running ==
  /\ stage \in Stages /\ report.kind = "none" /\ journal = <<"started">>
  /\ InputList(report.inputs)
  /\ stage.kind = "reducing" => report.inputs = Inputs

LEMMA StageRunning ==
  ASSUME CollectInv, stage # NoStage
  PROVE  Running
BY DEF CollectInv, StageOk, Running

LEMMA KindRunning ==
  ASSUME CollectInv, stage.kind # "idle"
  PROVE  Running
BY StageRunning DEF NoStage

\* The reports of a reduce.
ReduceEnded(r, status, q) == q = [r EXCEPT !.kind = "reduce", !.status = status]

LEMMA ReportEnds ==
  ASSUME NEW r, ReportOk(r), NEW status \in Statuses, NEW q, ReduceEnded(r, status, q)
  PROVE  ReportOk(q) /\ q.kind = "reduce" /\ q.status = status
<1>1. PICK k, s, i, x : k = r.kind /\ s = r.status /\ i = r.inputs /\ x = r.result
  OBVIOUS
<1>2. r = [kind |-> k, status |-> s, inputs |-> i, result |-> x]
  BY <1>1 DEF ReportOk
<1>3. q = [kind |-> "reduce", status |-> status, inputs |-> i, result |-> x]
  BY <1>2 DEF ReduceEnded
<1>4. q.kind = "reduce" /\ q.status = status /\ q.inputs = i /\ q.result = x
  BY <1>3
<1>5. q = [kind |-> q.kind, status |-> q.status, inputs |-> q.inputs, result |-> q.result]
  BY <1>3, <1>4
<1> QED
  BY <1>1, <1>4, <1>5 DEF ReportOk

LEMMA ReduceFailsOk ==
  ASSUME CollectInv, Running, ReduceFails
  PROVE  CollectInv'
<1>1. journal' = Append(<<"started">>, "failed") /\ stage' = NoStage /\ answers' = answers
  BY DEF ReduceFails, Running
<1>2. PICK j : j = journal'
  OBVIOUS
<1>3. PICK s : s = <<"started">>
  OBVIOUS
<1>4. j \in Seq(JournalEvents) /\ Len(j) = 2 /\ j[1] = "started" /\ j[2] = "failed"
  <2>1. s \in Seq(JournalEvents) /\ Len(s) = 1 /\ s[1] = "started" /\ "failed" \in JournalEvents
    BY <1>3 DEF JournalEvents
  <2>2. j = Append(s, "failed")
    BY <1>1, <1>2, <1>3
  <2>3. /\ j \in Seq(JournalEvents) /\ Len(j) = Len(s) + 1 /\ j[Len(s) + 1] = "failed"
        /\ \A i \in 1 .. Len(s) : j[i] = s[i]
    BY <2>1, <2>2, Appended
  <2> QED
    BY <2>1, <2>3
<1>5. "failed" \in Statuses
  BY DEF Statuses
<1>6. ReportOk(report') /\ report'.kind = "reduce" /\ report'.status = "failed"
  <2>1. ReduceEnded(report, "failed", report')
    BY DEF ReduceFails, ReduceEnded
  <2> QED
    BY <1>5, <2>1, ReportEnds DEF CollectInv
<1>7. Closed(j, "failed")
  BY <1>4 DEF Closed
<1>8. StageOk(stage', report', journal', Inputs)
  BY <1>1, <1>2, <1>6, <1>7 DEF StageOk
<1> QED
  BY <1>1, <1>2, <1>4, <1>6, <1>8, SameAnswers

LEMMA ReduceKilledOk ==
  ASSUME CollectInv, ReduceKilled
  PROVE  CollectInv'
<1>1. stage' = NoStage /\ answers' = answers /\ journal' = journal
  BY DEF ReduceKilled
<1>2. "killed" \in Statuses
  BY DEF Statuses
<1>3. ReportOk(report') /\ report'.kind = "reduce" /\ report'.status = "killed"
  <2>1. ReduceEnded(report, "killed", report')
    BY DEF ReduceKilled, ReduceEnded
  <2> QED
    BY <1>2, <2>1, ReportEnds DEF CollectInv
<1>4. StageOk(stage', report', journal', Inputs)
  BY <1>1, <1>3 DEF StageOk
<1>5. journal' \in Seq(JournalEvents)
  BY <1>1 DEF CollectInv
<1> QED
  BY <1>1, <1>3, <1>4, <1>5, SameAnswers

LEMMA ReduceUnsavedOk ==
  ASSUME CollectInv, ReduceUnsaved
  PROVE  CollectInv'
<1>1. stage' = NoStage /\ answers' = answers /\ journal' = journal
  BY DEF ReduceUnsaved
<1>2. "unsaved" \in Statuses
  BY DEF Statuses
<1>3. ReportOk(report') /\ report'.kind = "reduce" /\ report'.status = "unsaved"
  <2>1. ReduceEnded(report, "unsaved", report')
    BY DEF ReduceUnsaved, ReduceEnded
  <2> QED
    BY <1>2, <2>1, ReportEnds DEF CollectInv
<1>4. Closed(journal', "unsaved")
  BY <1>1, KindRunning DEF ReduceUnsaved, Running, Closed
<1>5. StageOk(stage', report', journal', Inputs)
  BY <1>1, <1>3, <1>4 DEF StageOk
<1>6. journal' \in Seq(JournalEvents)
  BY <1>1 DEF CollectInv
<1> QED
  BY <1>1, <1>3, <1>5, <1>6, SameAnswers

LEMMA ReduceFinishOk ==
  ASSUME CollectInv, ReduceFinish
  PROVE  CollectInv'
<1>1. Running
  BY KindRunning DEF ReduceFinish
<1>2. PICK n \in Nat : n = Len(Members) /\ n = Len(report.inputs)
  BY <1>1, MembersOk DEF Running, InputList
<1>3. stage' = NoStage /\ answers' = answers
  BY DEF ReduceFinish
<1>4. PICK j : j = journal'
  OBVIOUS
<1>5. Bracketed(j, n)
  BY <1>1, <1>2, <1>4 DEF ReduceFinish, Running, Bracketed
<1>6. /\ j \in Seq(JournalEvents) /\ Len(j) = 2 + n
      /\ j[1] = "started" /\ j[Len(j)] = "completed"
  BY <1>5, Bracket
<1>7. PICK status \in {"succeeded", "partial"} : ReduceEnded(report, status, report')
  <2>1. PICK x : x = IF Gathered(report.inputs) = DOMAIN report.inputs
                     THEN "succeeded" ELSE "partial"
    OBVIOUS
  <2>2. ReduceEnded(report, x, report')
    BY <2>1, Zenon DEF ReduceFinish, ReduceEnded
  <2> QED
    BY <2>1, <2>2
<1>8. status \in Statuses /\ status # "failed" /\ status # "unsaved"
  BY DEF Statuses
<1>9. ReportOk(report') /\ report'.kind = "reduce" /\ report'.status = status
  BY <1>7, <1>8, ReportEnds DEF CollectInv
<1>10. Closed(j, status)
  BY <1>2, <1>6, <1>8 DEF Closed
<1>11. StageOk(stage', report', journal', Inputs)
  BY <1>3, <1>4, <1>9, <1>10 DEF StageOk
<1> QED
  BY <1>3, <1>4, <1>6, <1>9, <1>11, SameAnswers

LEMMA GivesText ==
  ASSUME CollectInv, Running, NEW result, ReduceGivesText(result)
  PROVE  /\ ReportOk(report') /\ journal' \in Seq(JournalEvents)
         /\ report'.result = result /\ stage' # NoStage
         /\ \A inputs : StageOk(stage', report', journal', inputs)
<1>1. PICK i, x : i = report.inputs /\ x = report.status
  OBVIOUS
<1>2. report = [kind |-> "none", status |-> x, inputs |-> i, result |-> report.result]
  BY <1>1 DEF ReportOk, CollectInv, Running
<1>3. report' = [report EXCEPT !.result = result]
  BY DEF ReduceGivesText
<1>4. report' = [kind |-> "none", status |-> x, inputs |-> i, result |-> result]
  BY <1>2, <1>3
<1>5. /\ report'.kind = "none" /\ report'.status = x
      /\ report'.inputs = i /\ report'.result = result
  BY <1>4
<1>6. x \in Statuses /\ InputList(i)
  BY <1>1 DEF CollectInv, ReportOk, Running
<1>7. ReportOk(report')
  BY <1>4, <1>5, <1>6 DEF ReportOk
<1>8. journal' = <<"started">> /\ journal' = journal
  BY DEF ReduceGivesText, Running
<1>9. stage \in Stages /\ stage' = [stage EXCEPT !.kind = "reduced"]
  BY DEF Running, ReduceGivesText
<1>10. stage' \in Stages /\ stage'.kind = "reduced"
  BY <1>9 DEF Stages
<1>11. stage' # NoStage
  BY <1>10 DEF NoStage
<1>12. \A inputs : StageOk(stage', report', journal', inputs)
  BY <1>5, <1>6, <1>8, <1>10 DEF StageOk
<1> QED
  BY <1>5, <1>7, <1>8, <1>11, <1>12 DEF CollectInv

LEMMA RunReducerOk ==
  ASSUME CollectInv, RunReducer
  PROVE  CollectInv'
<1>1. Running
  BY KindRunning DEF RunReducer
<1>2. \/ ReduceFails
      \/ answers' = answers /\ \E result : ReduceGivesText(result)
      \/ /\ \E result : ReduceGivesText(result)
         /\ Len(answers) < MaxRows
         /\ \E a \in Agents, text \in Texts :
              answers' = Append(answers, [id |-> Len(answers) + 1, agent |-> a, text |-> text,
                                          messages |-> 1, artifacts |-> <<>>])
  BY Zenon DEF RunReducer
<1>3. CASE ReduceFails
  BY <1>1, <1>3, ReduceFailsOk
<1>4. CASE answers' = answers /\ \E result : ReduceGivesText(result)
  BY <1>1, <1>4, GivesText, SameAnswers
<1>5. CASE /\ \E result : ReduceGivesText(result)
           /\ Len(answers) < MaxRows
           /\ \E a \in Agents, text \in Texts :
                answers' = Append(answers, [id |-> Len(answers) + 1, agent |-> a, text |-> text,
                                            messages |-> 1, artifacts |-> <<>>])
  <2>1. PICK result : ReduceGivesText(result)
    BY <1>5
  <2>2. PICK a \in Agents, text \in Texts :
          answers' = Append(answers, [id |-> Len(answers) + 1, agent |-> a, text |-> text,
                                      messages |-> 1, artifacts |-> <<>>])
    BY <1>5
  <2>3. PICK r : r = [id |-> Len(answers) + 1, agent |-> a, text |-> text,
                      messages |-> 1, artifacts |-> <<>>]
    OBVIOUS
  <2>4. answers \in Seq(Answers) /\ Len(answers) < MaxRows /\ Len(answers) \in Nat
    BY <1>5 DEF CollectInv, Rows
  <2>5. r \in Answers
    BY <2>3, <2>4, CollectAssumption DEF Answers
  <2>6. answers' \in Seq(Answers) /\ Len(answers') <= MaxRows
    BY <2>2, <2>3, <2>4, <2>5, CollectAssumption
  <2>7. Rows'
    BY <2>6 DEF Rows
  <2> QED
    BY <1>1, <2>1, <2>6, <2>7, GivesText DEF CollectInv
<1> QED
  BY <1>2, <1>3, <1>4, <1>5

LEMMA CollectStep ==
  ASSUME CollectInv, [CollectNext]_collectVars
  PROVE  CollectInv'
<1>1. CASE UNCHANGED collectVars
  <2>1. /\ answers' = answers /\ journal' = journal /\ report' = report /\ stage' = stage
    BY <1>1 DEF collectVars
  <2> QED
    BY <2>1, SameAnswers DEF CollectInv
<1>2. CASE \E i \in Ranked, v \in Texts \cup {Nothing} : RowWritten(Members[i], v, <<>>)
  <2>1. PICK i \in Ranked, v \in Texts \cup {Nothing} : RowWritten(Members[i], v, <<>>)
    BY <1>2
  <2>2. <<>> \in {<<>>} \cup Lists /\ Members[i] \in Agents
    BY MembersOk
  <2> QED
    BY <2>1, <2>2, RowWrittenOk
<1>3. CASE \E i \in Ranked, l \in Lists : RowWritten(Members[i], Nothing, l)
  <2>1. PICK i \in Ranked, l \in Lists : RowWritten(Members[i], Nothing, l)
    BY <1>3
  <2>2. l \in {<<>>} \cup Lists /\ Members[i] \in Agents /\ Nothing \in Texts \cup {Nothing}
    BY MembersOk
  <2> QED
    BY <2>1, <2>2, RowWrittenOk
<1>4. CASE \E i \in 1 .. MaxRows : RowRefreshed(i)
  BY <1>4, RowRefreshedOk
<1>5. CASE Gather(FALSE, FALSE) \/ \E force \in BOOLEAN : Gather(TRUE, force)
  BY <1>5, GatherOk
<1>6. CASE \E strategy \in Strategies, method \in Methods : ReduceStart(strategy, method)
  BY <1>6, ReduceStartOk
<1>7. CASE RunReducer
  BY <1>7, RunReducerOk
<1>8. CASE ReduceFinish
  BY <1>8, ReduceFinishOk
<1>9. CASE ReduceKilled
  BY <1>9, ReduceKilledOk
<1>10. CASE \E i \in 1 .. MaxRows, force \in BOOLEAN : ArtifactExport(i, force)
  BY <1>10, ArtifactExportOk
<1>11. CASE ReduceUnsaved
  BY <1>11, ReduceUnsavedOk
<1> QED
  BY <1>1, <1>2, <1>3, <1>4, <1>5, <1>6, <1>7, <1>8, <1>9, <1>10, <1>11
     DEF CollectNext, TextNext, FileNext

LEMMA CollectStarts ==
  ASSUME CollectInit
  PROVE  CollectInv
<1>1. answers \in Seq(Answers) /\ Len(answers) <= MaxRows
  BY CollectAssumption DEF CollectInit
<1> QED
  BY <1>1, Fresh DEF CollectInit, CollectInv, Rows

LEMMA AlwaysCollect == CollectSpec => []CollectInv
<1>1. CollectInit => CollectInv
  BY CollectStarts
<1>2. CollectInv /\ [CollectNext]_collectVars => CollectInv'
  BY CollectStep
<1> QED
  BY <1>1, <1>2, PTL DEF CollectSpec

\* The invariant is what the properties of a state ask for.
LEMMA CollectStateSound ==
  ASSUME CollectInv
  PROVE  CollectTypeOK /\ InputsAreMembersOwn /\ ExportNamesDistinct /\ ReduceIsBracketed
<1>1. CollectTypeOK
  <2>1. \A i \in 1 .. Len(answers) : answers[i] \in Answers
    BY DEF CollectInv, Rows
  <2>2. stage \in {NoStage} \cup Stages
    BY DEF CollectInv, StageOk
  <2>3. \A i \in 1 .. Len(journal) : journal[i] \in JournalEvents
    BY DEF CollectInv
  <2> QED
    BY <2>1, <2>2, <2>3 DEF CollectTypeOK, CollectInv, Stages, JournalEvents, ReportOk, Statuses
<1>2. InputsAreMembersOwn
  <2>1. CASE report.inputs = <<>>
    BY <2>1 DEF InputsAreMembersOwn
  <2>2. CASE InputList(report.inputs)
    <3>1. DOMAIN report.inputs = 1 .. Len(report.inputs)
      BY <2>2 DEF InputList
    <3> QED
      BY <2>2, <3>1 DEF InputsAreMembersOwn, InputList
  <2> QED
    BY <2>1, <2>2 DEF CollectInv, ReportOk
<1>3. ExportNamesDistinct
  BY DEF CollectInv, ReportOk, ExportNamesDistinct, Plans, Distinct
<1>4. ReduceIsBracketed
  <2>1. SUFFICES ASSUME IsIdle, report.kind = "reduce", report.status \notin {"killed", "invalid"}
                 PROVE  Closed(journal, report.status)
    BY DEF ReduceIsBracketed, Closed
  <2> QED
    BY <2>1 DEF CollectInv, StageOk
<1> QED
  BY <1>1, <1>2, <1>3, <1>4

\* A gather that is not forced keeps away from the files that are there.
LEMMA GatherKeeps ==
  ASSUME CollectInv, Gather(TRUE, FALSE)
  PROVE  ToSet(report'.result) \cap files = {}
<1>1. PICK p : p = GatherPlan(TRUE)
  OBVIOUS
<1>2. p \in Plans
  BY <1>1, GatherPlanOk DEF CollectInv
<1>3. CASE GatherRefuses(p, FALSE)
  <2>1. Report("gather", "refused", Inputs, <<>>)
    BY <1>1, <1>3 DEF Gather
  <2>2. report'.result = <<>>
    BY <2>1 DEF Report
  <2> QED
    BY <2>2, NoPlan
<1>4. CASE ~GatherRefuses(p, FALSE)
  <2>1. \A x \in ToSet(p) : x \notin files
    BY <1>4 DEF GatherRefuses
  <2>2. \/ Report("gather", GatherStatus(Inputs), Inputs, p)
        \/ \E n \in 0 .. Len(p) : Report("gather", "io", Inputs, SubSeq(p, 1, n))
    BY <1>1, <1>4, Zenon DEF Gather
  <2>3. CASE Report("gather", GatherStatus(Inputs), Inputs, p)
    <3>1. report'.result = p
      BY <2>3 DEF Report
    <3> QED
      BY <2>1, <3>1
  <2>4. CASE \E n \in 0 .. Len(p) : Report("gather", "io", Inputs, SubSeq(p, 1, n))
    <3>1. PICK n \in 0 .. Len(p) : Report("gather", "io", Inputs, SubSeq(p, 1, n))
      BY <2>4
    <3>2. PICK t : t = SubSeq(p, 1, n)
      OBVIOUS
    <3>3. \A x \in ToSet(t) : x \in ToSet(p)
      BY <1>2, <3>2, PlanPrefix
    <3>4. report'.result = t
      BY <3>1, <3>2 DEF Report
    <3> QED
      BY <2>1, <3>3, <3>4
  <2> QED
    BY <2>2, <2>3, <2>4
<1> QED
  BY <1>3, <1>4

----------------------------------------------------------------------------
(* Gather and reduce: the vote.                                            *)

VotesFor(inputs, v) == {i \in DOMAIN inputs : inputs[i] # Nothing /\ inputs[i].text = v}

\* Only answers that count have a text.
LEMMA TallyIs ==
  ASSUME NEW v \in Texts
  PROVE  Tally(v) = Cardinality(VotesFor(Inputs, v))
<1>1. v # Nothing
  BY CollectAssumption
<1>2. PICK s : s = Inputs
  OBVIOUS
<1>3. ASSUME NEW i \in DOMAIN s, s[i].text = v
      PROVE  i \in Gathered(s) <=> s[i] # Nothing
  BY <1>1, <1>3 DEF Gathered, MemberStatus
<1>4. {i \in Gathered(s) : s[i].text = v} = VotesFor(s, v)
  <2>1. \A i : i \in Gathered(s) => i \in DOMAIN s
    BY DEF Gathered
  <2> QED
    BY <1>3, <2>1 DEF VotesFor
<1> QED
  BY <1>2, <1>4, Zenon DEF Tally

LEMMA TallyBound ==
  ASSUME Rows, NEW v \in Texts
  PROVE  Tally(v) \in 0 .. Len(Members)
<1>1. PICK n \in Nat : n = Len(Members)
  BY MembersOk
<1>2. PICK s, S : s = Inputs /\ S = VotesFor(s, v)
  OBVIOUS
<1>3. DOMAIN s = 1 .. n
  BY <1>1, <1>2, InputsOk DEF InputList
<1>4. IsFiniteSet(1 .. n) /\ Cardinality(1 .. n) = n
  <2>1. 1 \in Int /\ n \in Int
    BY <1>1
  <2>2. IsFiniteSet(1 .. n) /\ Cardinality(1 .. n) = IF 1 > n THEN 0 ELSE n - 1 + 1
    BY <2>1, FS_Interval
  <2>3. (IF 1 > n THEN 0 ELSE n - 1 + 1) = n
    BY <1>1
  <2> QED
    BY <2>2, <2>3
<1>5. S \in SUBSET (1 .. n)
  BY <1>2, <1>3 DEF VotesFor
<1>6. IsFiniteSet(S) /\ Cardinality(S) <= n
  BY <1>4, <1>5, FS_Subset
<1>7. Cardinality(S) \in Nat
  BY <1>6, FS_CardinalityType
<1> QED
  BY <1>1, <1>2, <1>6, <1>7, TallyIs

Wins(v) == \A w \in Voted : Tally(w) < Tally(v) \/ (Tally(w) = Tally(v) /\ v <= w)

\* Someone wins: of the texts with the most votes the first.
LEMMA WinnerExists ==
  ASSUME Rows, Voted # {}
  PROVE  \E v \in Voted : Wins(v)
<1>1. PICK n \in Nat : n = Len(Members)
  BY MembersOk
<1>2. \A v \in Voted : v \in Texts /\ v \in Nat /\ Tally(v) \in 0 .. n
  BY <1>1, TallyBound, CollectAssumption DEF Voted
<1>3. PICK T : T = {k \in 0 .. n : \E v \in Voted : k = Tally(v)}
  OBVIOUS
<1>4. T \subseteq 0 .. n /\ T # {}
  BY <1>2, <1>3
<1>5. PICK b : b = Max(T)
  OBVIOUS
<1>6. b \in T /\ \A y \in T : b >= y
  BY <1>4, <1>5, MaxOk
<1>7. PICK W : W = {v \in Voted : Tally(v) = b}
  OBVIOUS
<1>8. W \subseteq Nat /\ W # {}
  BY <1>2, <1>3, <1>6, <1>7
<1>9. PICK x \in W : \A y \in W : x <= y
  BY <1>8, Smallest
<1>10. x \in Voted /\ Tally(x) = b
  BY <1>7, <1>9
<1>11. Wins(x)
  <2>1. SUFFICES ASSUME NEW w \in Voted
                 PROVE  Tally(w) < Tally(x) \/ (Tally(w) = Tally(x) /\ x <= w)
    BY DEF Wins
  <2>2. Tally(w) \in T
    BY <1>2, <1>3
  <2>3. Tally(w) <= b /\ Tally(w) \in Nat /\ b \in Nat
    <3>1. PICK t : t = Tally(w) /\ t \in T
      BY <2>2
    <3>2. t \in 0 .. n /\ b \in 0 .. n /\ b >= t
      BY <1>4, <1>6, <3>1
    <3> QED
      BY <3>1, <3>2
  <2>4. CASE Tally(w) = b
    BY <1>7, <1>9, <1>10, <2>4
  <2>5. CASE Tally(w) # b
    BY <1>10, <2>3, <2>5
  <2> QED
    BY <2>4, <2>5
<1> QED
  BY <1>10, <1>11

LEMMA LocalVoteWins ==
  ASSUME Rows, Voted # {}
  PROVE  LocalVote \in Voted /\ Wins(LocalVote)
BY WinnerExists DEF LocalVote, Wins

\* What the property says of the inputs and the text that won.
Plurality(inputs, won) ==
  LET votes == [v \in Texts |-> Cardinality({i \in DOMAIN inputs :
                   inputs[i] # Nothing /\ inputs[i].text = v})]
  IN  \A v \in Texts : votes[v] <= votes[won] /\ (v < won => votes[v] < votes[won])

LEMMA WinnerHasPlurality ==
  ASSUME Rows, NEW won \in Voted, Wins(won)
  PROVE  Plurality(Inputs, won)
<1>1. PICK votes : votes = [v \in Texts |-> Cardinality(VotesFor(Inputs, v))]
  OBVIOUS
<1>2. \A v \in Texts : votes[v] = Tally(v)
  BY <1>1, TallyIs
<1>3. won \in Texts /\ Tally(won) > 0 /\ Texts \subseteq Nat
  BY CollectAssumption DEF Voted
<1>4. \A v \in Texts : Tally(v) \in Nat
  BY TallyBound, MembersOk
<1>5. ASSUME NEW v \in Texts
      PROVE  Tally(v) <= Tally(won) /\ (v < won => Tally(v) < Tally(won))
  <2>1. CASE v \in Voted
    BY <1>3, <1>4, <2>1 DEF Wins
  <2>2. CASE v \notin Voted
    <3>1. Tally(v) = 0
      BY <1>4, <2>2 DEF Voted
    <3> QED
      BY <1>3, <1>4, <3>1
  <2> QED
    BY <2>1, <2>2
<1>6. \A v \in Texts : votes[v] <= votes[won] /\ (v < won => votes[v] < votes[won])
  BY <1>2, <1>3, <1>5
<1> QED
  BY <1>1, <1>6, Zenon DEF Plurality, VotesFor

LEMMA VoteSound ==
  ASSUME CollectInv, RunReducer, stage.strategy = "vote", stage.method = "local",
         stage' # NoStage
  PROVE  Plurality(report.inputs, report'.result[1])
<1>1. Running /\ Rows /\ stage.kind = "reducing"
  BY KindRunning DEF RunReducer, CollectInv
<1>2. report.inputs = Inputs
  BY <1>1 DEF Running
<1>3. PICK local : local = LocalOutput("vote")
  OBVIOUS
<1>4. ~ReduceFails
  BY DEF ReduceFails
<1>5. local # Nothing /\ ReduceGivesText(local)
  BY <1>3, <1>4, Zenon DEF RunReducer
<1>6. Voted # {} /\ local = <<LocalVote>>
  BY <1>3, <1>5 DEF LocalOutput
<1>7. report'.result = local
  BY <1>1, <1>5, GivesText
<1>8. report'.result[1] = LocalVote
  BY <1>6, <1>7
<1>9. LocalVote \in Voted /\ Wins(LocalVote)
  BY <1>1, <1>6, LocalVoteWins
<1>10. Plurality(Inputs, LocalVote)
  BY <1>1, <1>9, WinnerHasPlurality
<1> QED
  BY <1>2, <1>8, <1>10, Zenon

\* A gather or a reduce takes the members' own answers, gives every artifact a
\* file of its own and overwrites none unasked, counts a vote fairly, and closes
\* the journal it opened: for every group, any artifact names and texts, and any
\* number of rows (execute_gather_command, execute_reduce_command,
\* execute_task_artifact_command).
THEOREM CollectSound == CollectSpec => CollectIsSound
<1>1. CollectInv => CollectTypeOK /\ InputsAreMembersOwn /\ ExportNamesDistinct /\ ReduceIsBracketed
  BY CollectStateSound
<1>2. CollectInv => [report'.kind = "gather" /\ Gather(TRUE, FALSE)
                       => ToSet(report'.result) \cap files = {}]_collectVars
  BY GatherKeeps
<1>3. CollectInv =>
        [RunReducer /\ stage.strategy = "vote" /\ stage.method = "local" /\ stage' # NoStage
         => LET votes == [v \in Texts |-> Cardinality({i \in DOMAIN report.inputs :
                              report.inputs[i] # Nothing /\ report.inputs[i].text = v})]
                won == report'.result[1]
            IN  \A v \in Texts : votes[v] <= votes[won] /\ (v < won => votes[v] < votes[won])
        ]_collectVars
  BY VoteSound, Zenon DEF Plurality
<1> QED
  BY <1>1, <1>2, <1>3, AlwaysCollect, PTL DEF CollectIsSound, GatherKeepsFiles, VoteIsPlurality
=============================================================================

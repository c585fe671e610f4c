---------------------------- MODULE MirroredTask ----------------------------
(***************************************************************************)
(* What the local row of a remote task promises its readers: it shows a    *)
(* state the agent's task has really been in, and it moves forward through *)
(* the task's history.  Three things are allowed besides: a row for a task *)
(* nothing is known of yet says "submitted" or "unknown"; a follow-up      *)
(* stream starts over from "submitted"; and an answer that a gateway read  *)
(* before it had the lock may be written after a newer one.                *)
(***************************************************************************)
EXTENDS Naturals, Sequences

CONSTANT Tasks

VARIABLES
  history,  \* the states the agent's task has been in
  held,     \* position of the answer a gateway holds, 0 for none
  at,       \* position the row shows, 0 when it shows none
  view      \* state the row shows

vars == <<history, held, at, view>>

Init ==
  /\ history = [t \in Tasks |-> <<>>]
  /\ held = [t \in Tasks |-> 0]
  /\ at = [t \in Tasks |-> 0]
  /\ view = [t \in Tasks |-> "none"]

Grows(old, new) == \E n \in 0 .. 1 : Len(new) = Len(old) + n /\ SubSeq(new, 1, Len(old)) = old

\* The agent's tasks move on, on their own or by what a command asks of them.
\* (The histories are replaced whole: a step may move one and read it.)
Moves == \A t \in Tasks : Grows(history[t], history'[t])

Shows(t, i) ==
  /\ i \in 1 .. Len(history'[t])
  /\ at'[t] = i /\ view'[t] = history'[t][i]

Keeps(t) == at'[t] = at[t] /\ view'[t] = view[t]

\* A row moves forward, or is a first guess, or starts over.
CatchesUp(t) == \E i \in 1 .. Len(history'[t]) : i >= at[t] /\ Shows(t, i)

Guesses(t) ==
  /\ view[t] = "none"
  /\ at'[t] = 0 /\ view'[t] \in {"submitted", "unknown"}

StartsOver(t) == at'[t] = 0 /\ view'[t] = "submitted"

\* A command reads and writes under the lock.
Command ==
  /\ Moves
  /\ held' = held
  /\ \A t \in Tasks : Keeps(t) \/ CatchesUp(t) \/ Guesses(t) \/ StartsOver(t)

GatewayReads(t) ==
  /\ held[t] = 0 /\ history[t] # <<>>
  /\ held' = [held EXCEPT ![t] = Len(history[t])]
  /\ UNCHANGED <<history, at, view>>

GatewayWrites(t) ==
  /\ held[t] # 0
  /\ Shows(t, held[t])
  /\ \A u \in Tasks \ {t} : Keeps(u)
  /\ held' = [held EXCEPT ![t] = 0]
  /\ history' = history

Next == Command \/ \E t \in Tasks : GatewayReads(t) \/ GatewayWrites(t)

Spec == Init /\ [][Next]_vars
=============================================================================

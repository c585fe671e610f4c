----------------------------- MODULE MCCommands -----------------------------
(* The commands that write the profile database, one family of them per    *)
(* behaviour, chosen in its first state.                                   *)
(*   card, job, group, context, push: a part of the registry, each next to *)
(*     the agent commands, whose deletions reach into all tables; job has  *)
(*     the gateway's writes of old rows too;                               *)
(*   tasks: the task commands on task t1; task t2 is only sent, got and    *)
(*     listed, so that one command writes two rows;                        *)
(*   texts, files: gather and reduce on text or on artifact answers.       *)
EXTENDS Registry, TaskCommands, Collect

CONSTANTS a1, a2, u1, u2, r1, t1, t2

VARIABLE family

----------------------------------------------------------------------------
(* Instances. *)

Plain(url) == [url |-> url, auth |-> Null]

\* No agent, or agent a1 at either URL, once behind an auth ref.
ThreeConfigs ==
  {[auth |-> {}, agents |-> [a \in {a1, a2} |-> Null]],
   [auth |-> {r1}, agents |-> [a \in {a1, a2} |-> IF a = a1 THEN Plain(u1) ELSE Null]],
   [auth |-> {r1}, agents |-> [a \in {a1, a2} |->
                                 IF a = a1 THEN [url |-> u2, auth |-> r1] ELSE Null]]}

\* The second version of u1's card has no usable interface.
SomeUsable == {<<u1, 1>>, <<u2, 1>>, <<u2, 2>>}

MCMembers == <<"m1", "m2", "m3">>

\* One artifact is named as the second of two equal names would be.
MCLists == {<<<<1>>, <<1>>, <<1, 2>>>>, <<<<1, 2>>, <<1>>, <<1>>>>}

----------------------------------------------------------------------------
(* Families. *)

RegistryFamilies == {"card", "job", "group", "context", "push"}

\* Secrets and auth refs matter in the card family only; cards start as one
\* version elsewhere, and change in the card and job families only.
Settled == served = [u \in Urls |-> 1] /\ secrets = AuthRefs

MCInit ==
  /\ family \in {"card", "job", "group", "context", "push", "tasks", "texts", "files"}
  /\ RegistryInit /\ TaskInit /\ CollectInit
  /\ family # "card" => Settled
  /\ family \notin RegistryFamilies \ {"context"} => config.auth = {}

\* Away from the card family agents of the CLI live at one URL, without auth.
PlainAgents ==
  \A a \in Aliases : Exists(db', a) /\ ~db'.agents[a].readOnly
    => db'.agents[a].url = u1 /\ db'.agents[a].auth = Null

RegistryFamily ==
  /\ \/ family \in RegistryFamilies /\ AgentCommands
     \/ family \in RegistryFamilies \ {"context"} /\ EditConfig
     \/ family \in {"card", "job"} /\ CardCommands
     \/ family = "job" /\ GatewayCards
     \/ family \in {"card", "job"} /\ \E u \in Urls : PublishCard(u)
     \/ family = "group" /\ GroupCommands
     \/ family = "context" /\ ContextCommands
     \/ family = "push" /\ PushCommands
  /\ family # "card" => PlainAgents
  /\ UNCHANGED <<taskVars, collectVars>>

Quiet(t) ==
  /\ Len(remote'[t]) <= 1 /\ chunks'[t] = 0 /\ polled'[t] = 0
  /\ command'.task # t /\ \A i \in 1 .. MaxMoves : <<t, i>> \notin ids'

\* A gateway job holds an answer only of a task with at most one move behind
\* it and one part of its artifact.
Short(t) == polled'[t] = 0 \/ (chunks'[t] <= 1 /\ Len(remote'[t]) <= 2)

TaskFamily ==
  /\ family = "tasks" /\ TaskNext /\ Quiet(t2) /\ Short(t1)
  /\ UNCHANGED <<registryVars, collectVars>>

CollectFamily ==
  /\ \/ family = "texts" /\ TextNext
     \/ family = "files" /\ FileNext /\ Len(answers') <= 2
  /\ UNCHANGED <<registryVars, taskVars>>

MCNext == (RegistryFamily \/ TaskFamily \/ CollectFamily) /\ family' = family

MCSpec == MCInit /\ [][MCNext]_<<registryVars, taskVars, collectVars, family>>
=============================================================================

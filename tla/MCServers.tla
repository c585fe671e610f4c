----------------------------- MODULE MCServers -----------------------------
(* Three families of behaviours, chosen in the first state: one gateway or *)
(* one receiver with two requests; two servers of either kind with one     *)
(* request; the rate limiter under a running clock, with three requests.   *)
EXTENDS Servers

CONSTANTS s1, s2, r1, r2, r3

VARIABLE family

Untouched(r) == req'[r].step = "none"

Begun(state) == state \notin {"none", "spawned"}

\* One server, s1, whose managers begin one after the other; r1 begins first.
Alone ==
  /\ phase'[s2] = "off" /\ Untouched(r3) /\ now' = 0
  /\ Begun(managers'[s1]["background_jobs"]) => Begun(managers'[s1]["subscriptions"])
  /\ Untouched(r1) => Untouched(r2)
  /\ req'[r2].code \in {0, 202, 429} /\ req'[r2].step \notin {"orphan", "gone"}

\* s1 and s2, with time standing still, a bus that is soon emptied and managers
\* that begin and end one after the other.
Pair ==
  /\ Untouched(r2) /\ Untouched(r3) /\ now' = 0
  /\ req'[r1].code \in {0, 202} /\ req'[r1].step # "orphan"
  /\ \A x \in Procs :
       /\ Len(bus'[x]) <= 1
       /\ \A m \in Managers : managers'[x][m] # "error"
       /\ Begun(managers'[x]["background_jobs"]) => Begun(managers'[x]["subscriptions"])
       /\ managers'[x]["background_jobs"] = "ok" => managers'[x]["subscriptions"] = "ok"
  /\ phase'[s2] # "dead" /\ (phase'[s2] # "off" => phase'[s1] # "off")

\* Requests and the clock.
Clocked ==
  /\ phase'[s2] = "off" /\ phase'[s1] \in {"off", "starting", "serving"}
  /\ reason'[s1] = NoOne
  /\ managers'[s1]["subscriptions"] # "running" /\ managers'[s1]["background_jobs"] # "running"
  /\ \A r \in Requests : req'[r].step \in {"none", "receiving", "persisting", "persisted", "answered"}
                         /\ req'[r].code \in {0, 202, 429}

MCInit ==
  /\ ServersInit
  /\ family \in {"alone", "pair", "clock"}
  /\ family = "clock" => role[s1] = "gateway"
  /\ family # "pair" => role[s2] = "gateway"
  /\ family = "pair" => "gateway" \in {role[s1], role[s2]}

MCNext ==
  /\ ServersNext /\ family' = family
  /\ \/ family = "alone" /\ Alone
     \/ family = "pair" /\ Pair
     \/ family = "clock" /\ Clocked

MCSpec == MCInit /\ [][MCNext]_<<serverVars, family>> /\ ServersFairness
=============================================================================

------------------------------- MODULE Routing -------------------------------
(* missive route explain: the capability summary of each candidate, built   *)
(* from its registry row, its cached Agent Card and its group membership    *)
(* (capabilities.rs, route.rs), and the router's plan for them (the         *)
(* missive-router crate). The plan is neither sent nor stored: the caller   *)
(* keeps the round-robin cursor. With --refresh-capabilities the cards are  *)
(* fetched and cached first, as Registry models for group capabilities;    *)
(* here a card is the one in the row.                                      *)
EXTENDS Config, FiniteSetsExt

CONSTANTS
  AgentRows,     \* registry rows: [tags, metadata, card]
  Weights,       \* member weights
  Arguments,     \* option sets of route explain
  MAX_CURSOR,    \* u64::MAX
  MaxCandidates, \* bound on the candidates of one plan
  MaxPicks,      \* bound on the turns of one candidate
  NoPlan

ASSUME RoutingConstants ==
  /\ Weights \subseteq Nat \ {0} /\ {MAX_CURSOR, MaxCandidates, MaxPicks} \subseteq Nat \ {0} /\ MAX_CURSOR > 1
  /\ \A row \in AgentRows : \A e \in row.metadata : e.as \in {"string", "flag", "off"}

\* Options are lists and numbers; a group's policy and the configuration's
\* were validated before they were stored.
ASSUME ArgumentsAssumption ==
  \A a \in Arguments :
    /\ \A list \in {a.tags, a.capabilities, a.inputs, a.outputs} : list \in Seq(Range(list))
    /\ {a.preferred, a.quorum, a.cursor} \subseteq Nat
    /\ ParsePolicy(a.stored) # "unknown" /\ ParsePolicy(a.configured) # "unknown"

VARIABLES
  candidates,   \* the candidate source: a sequence of members, in rank order
  args,         \* the options given
  plan,         \* the plan explained, or why there is none
  cursor,       \* the caller's round-robin cursor
  picks         \* how often each position was picked along the cursor

routeVars == <<candidates, args, plan, cursor, picks>>

----------------------------------------------------------------------------
(* Labels. A raw label is a name as somebody wrote it; normalizing trims it *)
(* and lowers its case. "" is the name of a blank label.                    *)

Label(name, form) == [name |-> name, form |-> form]
Normalize(l) == Label(l.name, "plain")
Blank(l) == l.name = ""

\* Seeded fault of StringSet: labels are kept as they were written.
RawSet(labels) == {l \in labels : ~Blank(l)}

\* string_set, extend_normalized.
StringSet(labels) == {l \in {Normalize(k) : k \in labels} : ~Blank(l)}

\* collect_labels over the values of capability(-ies) and skill(s): every
\* string, however deep, and every key whose value is true.
MetadataLabels(metadata) == StringSet({e.label : e \in {x \in metadata : x.as \in {"string", "flag"}}})

\* push_missing_requirements: the requirements not available, by position.
Missing(required, available) ==
  {i \in DOMAIN required : Normalize(required[i]) \notin {Normalize(l) : l \in available}}

----------------------------------------------------------------------------
(* The capability summary. *)

NoCard == [streaming |-> "unknown", push |-> "unknown", inputs |-> {}, outputs |-> {}, skills |-> {}]

\* A card that says nothing of a capability does not have it; no card at all
\* leaves it unknown.
Support(row, flag) == IF row.card = NoCard THEN "unknown" ELSE IF flag = "yes" THEN "yes" ELSE "no"

\* The labels a card's capability flags stand for.
CardLabels(card) ==
  {Label(n, "plain") : n \in (IF card.streaming = "yes" THEN {"streaming"} ELSE {})
                         \cup (IF card.push = "yes" THEN {"push", "push-notifications"} ELSE {})}

SkillNames(skill) == {skill.id, skill.name}

\* summarize_agent_capabilities.
Summary(row) ==
  LET card   == row.card
      skillTags == UNION {StringSet(s.tags) : s \in card.skills}
  IN [tags |-> StringSet(row.tags) \cup skillTags,
      capabilities |-> MetadataLabels(row.metadata) \cup skillTags
                       \cup (UNION {StringSet(SkillNames(s)) : s \in card.skills})
                       \cup CardLabels(card),
      inputs |-> StringSet(card.inputs) \cup UNION {StringSet(s.inputs) : s \in card.skills},
      outputs |-> StringSet(card.outputs) \cup UNION {StringSet(s.outputs) : s \in card.skills},
      streaming |-> Support(row, card.streaming), push |-> Support(row, card.push)]

\* candidate_from_agent and candidate_from_group_member: an ad-hoc candidate
\* has weight 1 and no membership of its own. merge_member_capability_hints
\* does the same for group capabilities.
Candidate(m) ==
  LET s == Summary(m.row)
  IN [tags |-> s.tags \cup StringSet(m.tags), capabilities |-> s.capabilities \cup MetadataLabels(m.metadata),
      inputs |-> s.inputs, outputs |-> s.outputs, streaming |-> s.streaming, push |-> s.push, weight |-> m.weight]

----------------------------------------------------------------------------
(* The router. *)

\* resolve_policy: the flag, else the group's, else the configuration's.
ResolvePolicy(a) == ParsePolicy(IF a.policy # "" THEN a.policy
                                ELSE IF a.group THEN a.stored ELSE a.configured)

\* validate_labels: none blank, no two alike.
ValidLabels(seq) ==
  /\ \A i \in DOMAIN seq : ~Blank(seq[i])
  /\ \A i, j \in DOMAIN seq : i # j => Normalize(seq[i]) # Normalize(seq[j])

CandidateValid(c) ==
  /\ c.weight > 0
  /\ \A labels \in {c.tags, c.capabilities, c.inputs, c.outputs} :
       \A k, l \in labels : ~Blank(k) /\ (k # l => Normalize(k) # Normalize(l))

\* RoutePlanInput::validate and preferred_index_or_first: what is wrong with
\* the options, given the candidates.
BadArguments(a, n) ==
  \/ n = 0
  \/ ~ValidLabels(a.tags) \/ ~ValidLabels(a.capabilities) \/ ~ValidLabels(a.inputs) \/ ~ValidLabels(a.outputs)
  \/ a.quorum # 0 /\ a.quorum > n
  \/ a.preferred > n /\ ResolvePolicy(a) \in {"direct", "fallback"}

\* candidate_capability_match: nothing is missing.
Meets(a, c) ==
  /\ Missing(a.tags, c.tags) = {} /\ Missing(a.capabilities, c.capabilities) = {}
  /\ Missing(a.inputs, c.inputs) = {} /\ Missing(a.outputs, c.outputs) = {}
  /\ a.streaming => c.streaming = "yes"
  /\ a.push => c.push = "yes"

\* The requirements a candidate meets (intersection_in_required_order); the
\* score of the match.
Score(a, c) ==
  LET met(required, available) == Cardinality(DOMAIN required \ Missing(required, available))
  IN met(a.tags, c.tags) + met(a.capabilities, c.capabilities) + met(a.inputs, c.inputs) + met(a.outputs, c.outputs)
     + (IF a.streaming /\ c.streaming = "yes" THEN 1 ELSE 0) + (IF a.push /\ c.push = "yes" THEN 1 ELSE 0)

HasRequirements(a) ==
  a.tags # <<>> \/ a.capabilities # <<>> \/ a.inputs # <<>> \/ a.outputs # <<>> \/ a.streaming \/ a.push

\* A set of positions as a sequence: those before others first.
Sorted(S, before) == [k \in 1..Cardinality(S) |-> CHOOSE i \in S : Cardinality({j \in S : <<j, i>> \in before}) = k - 1]
Ascending(S) == Sorted(S, {p \in S \X S : p[1] < p[2]})

\* explain_capability_match: with requirements by score, weight and position.
MatchOrder(a, cs) ==
  LET matching == {i \in DOMAIN cs : Meets(a, cs[i])}
      before(i, j) ==
        IF ~HasRequirements(a) THEN i < j
        ELSE IF Score(a, cs[i]) # Score(a, cs[j]) THEN Score(a, cs[i]) > Score(a, cs[j])
        ELSE IF cs[i].weight # cs[j].weight THEN cs[i].weight > cs[j].weight ELSE i < j
  IN Sorted(matching, {p \in matching \X matching : before(p[1], p[2])})

\* explain_tag_match.
TagMatch(a, cs) == Ascending({i \in DOMAIN cs : Missing(a.tags, cs[i].tags) = {}})

\* explain_weighted: max_by keeps the last of equals, and among equal weights
\* a later position compares as less.
HeaviestIndex(cs) == Min({i \in DOMAIN cs : \A j \in DOMAIN cs : cs[j].weight <= cs[i].weight})

\* explain_round_robin; positions count from 1.
RoundRobinIndex(c, n) == (c % n) + 1

\* explain_fallback: the primary candidate, then the others in order.
Attempts(first, n) == <<first>> \o Ascending((1..n) \ {first})

Everyone(n) == [i \in 1..n |-> i]
Primary(a) == IF a.preferred = 0 THEN 1 ELSE a.preferred

\* explain_route: the positions selected, in the order of execution, and the
\* quorum. decisions[i].order is a position's place among them.
Selected(policy, a, cs) ==
  CASE policy = "direct" -> <<Primary(a)>>
    [] policy = "capability-match" -> MatchOrder(a, cs)
    [] policy = "tag-match" -> TagMatch(a, cs)
    [] policy = "round-robin" -> <<RoundRobinIndex(a.cursor, Len(cs))>>
    [] policy = "weighted" -> <<HeaviestIndex(cs)>>
    [] policy \in {"broadcast", "first-success", "quorum"} -> Everyone(Len(cs))
    [] policy = "fallback" -> Attempts(Primary(a), Len(cs))

QuorumOf(a, n) == IF a.quorum # 0 THEN a.quorum ELSE n \div 2 + 1

Explanation(a, cs) ==
  LET policy == ResolvePolicy(a)
      stored == (\E i \in DOMAIN cs : ~CandidateValid(cs[i])) \/ (a.policy = "" /\ policy = "unknown")
  IN IF stored THEN [status |-> "refused", why |-> "stored"]
     ELSE IF policy = "unknown" \/ BadArguments(a, Len(cs)) THEN [status |-> "refused", why |-> "arguments"]
     ELSE LET chosen == Selected(policy, a, cs)
          IN [status |-> IF chosen = <<>> THEN "no_match" ELSE "selected", policy |-> policy, selected |-> chosen,
              quorum |-> IF policy = "quorum" THEN QuorumOf(a, Len(cs)) ELSE 0]

----------------------------------------------------------------------------
(* The command, and a caller that keeps the cursor. *)

RouteInit ==
  /\ candidates = <<>> /\ args \in Arguments /\ plan = NoPlan
  /\ cursor \in {0, MAX_CURSOR - 2} /\ picks = [i \in 1..MaxCandidates |-> 0]

\* A candidate of the group, or one given with --agent.
AddCandidate(m) ==
  /\ plan = NoPlan /\ Len(candidates) < MaxCandidates
  /\ ~args.group => m.weight = 1 /\ m.tags = {} /\ m.metadata = {}
  /\ candidates' = Append(candidates, m)
  /\ UNCHANGED <<args, plan, cursor, picks>>

ExplainRoute ==
  /\ plan = NoPlan
  /\ plan' = Explanation(args, [i \in DOMAIN candidates |-> Candidate(candidates[i])])
  /\ UNCHANGED <<candidates, args, cursor, picks>>

Saturating(c) == IF c = MAX_CURSOR THEN c ELSE c + 1

\* One more round-robin plan, with the cursor the last one reported.
PickNext ==
  /\ plan # NoPlan /\ plan.status = "selected" /\ plan.policy = "round-robin"
  /\ \A i \in DOMAIN picks : picks[i] < MaxPicks
  /\ picks' = [picks EXCEPT ![RoundRobinIndex(cursor, Len(candidates))] = @ + 1]
  /\ cursor' = Saturating(cursor)
  /\ UNCHANGED <<candidates, args, plan>>

Members == [row : AgentRows, weight : Weights, tags : {{}, {Label("x", "plain")}},
            metadata : {{}, {[label |-> Label("y", "padded"), as |-> "flag"]}}]

RouteNext == (\E m \in Members : AddCandidate(m)) \/ ExplainRoute \/ PickNext

RouteSpec == RouteInit /\ [][RouteNext]_routeVars

----------------------------------------------------------------------------
(* Properties. *)

RoutingTypeOK ==
  /\ candidates \in Seq(Members) /\ Len(candidates) <= MaxCandidates /\ args \in Arguments
  /\ plan = NoPlan \/ plan.status \in {"selected", "no_match", "refused"}
  /\ cursor \in 0..MAX_CURSOR /\ picks \in [1..MaxCandidates -> Nat]

Planned == plan # NoPlan /\ plan.status # "refused"

\* A plan is never refused for what the registry, the cards and the group
\* store: every stored row makes a candidate the router accepts, however its
\* card spells its labels, and every stored policy is one it knows.
StoredRowsAreRoutable == plan # NoPlan => (plan.status = "refused" => plan.why = "arguments")

\* Where a label can come from, as written.
SourceTags(m) == m.row.tags \cup m.tags \cup UNION {s.tags : s \in m.row.card.skills}
SourceCapabilities(m) ==
  {e.label : e \in {x \in m.row.metadata \cup m.metadata : x.as # "off"}}
  \cup (UNION {s.tags \cup SkillNames(s) : s \in m.row.card.skills})
  \cup CardLabels(m.row.card)
Named(required, sources) == \A i \in DOMAIN required : \E l \in sources : l.name = required[i].name

Fits(a, m) ==
  /\ Named(a.tags, SourceTags(m)) /\ Named(a.capabilities, SourceCapabilities(m))
  /\ Named(a.inputs, m.row.card.inputs \cup UNION {s.inputs : s \in m.row.card.skills})
  /\ Named(a.outputs, m.row.card.outputs \cup UNION {s.outputs : s \in m.row.card.skills})
  /\ a.streaming => m.row.card.streaming = "yes"
  /\ a.push => m.row.card.push = "yes"

\* capability-match selects exactly the candidates whose row, card or
\* membership says, in whatever spelling, everything asked for; tag-match
\* those with all the tags.
MatchesAreExact ==
  Planned => LET fits(m) == IF plan.policy = "tag-match" THEN Named(args.tags, SourceTags(m)) ELSE Fits(args, m)
             IN plan.policy \in {"capability-match", "tag-match"} =>
                  ToSet(plan.selected) = {i \in DOMAIN candidates : fits(candidates[i])}

\* Matching candidates come heaviest first and in rank order among equals:
\* those that match meet the same requirements, so the score never decides.
MatchesByWeight ==
  Planned /\ plan.policy = "capability-match" /\ HasRequirements(args) =>
    \A m, n \in DOMAIN plan.selected : m < n =>
      LET i == plan.selected[m]
          j == plan.selected[n]
      IN \/ candidates[i].weight > candidates[j].weight
         \/ candidates[i].weight = candidates[j].weight /\ i < j

\* What a caller executes names no candidate twice; an attempt set names all
\* of them, the preferred one first when there is one; a single target is the
\* preferred, or the first of the heaviest.
PlansAreAttemptable ==
  Planned =>
    LET n == Len(candidates)
        s == plan.selected
    IN /\ IsInjective(s) /\ ToSet(s) \subseteq 1..n
       /\ plan.policy \in {"broadcast", "first-success", "quorum", "fallback"} => Len(s) = n
       /\ plan.policy \in {"direct", "fallback"} /\ args.preferred # 0 => s[1] = args.preferred
       /\ plan.policy = "weighted" =>
            \A i \in 1..n : i # s[1] => candidates[i].weight < candidates[s[1]].weight
                                        \/ (candidates[i].weight = candidates[s[1]].weight /\ i > s[1])

\* Two majorities of one candidate set always share a member, and a quorum is
\* never more than there are candidates (validate_quorum, explain_quorum).
QuorumsIntersect ==
  Planned /\ plan.policy = "quorum" =>
    plan.quorum \in 1..Len(candidates) /\ (args.quorum = 0 => 2 * plan.quorum > Len(candidates))

\* Along the cursor every candidate gets its turn: no candidate is two turns
\* ahead of another until the cursor saturates, where it sticks.
RoundRobinIsFair ==
  cursor < MAX_CURSOR => \A i, j \in 1..Len(candidates) : picks[i] <= picks[j] + 1

\* A route plan follows from what is stored: no stored row or policy makes it
\* fail, the selection is exact and in order, and a policy keeps its word.
PlansAreSound ==
  /\ RoutingTypeOK /\ StoredRowsAreRoutable /\ MatchesAreExact /\ MatchesByWeight
  /\ PlansAreAttemptable /\ QuorumsIntersect /\ RoundRobinIsFair
=============================================================================

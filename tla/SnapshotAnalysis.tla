-------------------------- MODULE SnapshotAnalysis --------------------------
(***************************************************************************)
(* One learning snapshot from the records that a collection found to the   *)
(* document that is published: acquire_snapshot_input projects, selects    *)
(* and counts, the constructor of SnapshotInput checks all of it again,    *)
(* build_snapshot_core checks it a third time and analyses it, and two     *)
(* validators, one in learning_snapshot and an older one in snapshot_store *)
(* that knows its own table of candidates, must both accept the result.    *)
(* Publication validates the written document once more.  A document of an *)
(* earlier release is migrated to today's schema, and both validators must *)
(* accept that again.                                                      *)
(*                                                                         *)
(* Instants are days.  The project stands for the five dimensions of a     *)
(* cohort beside the generation, and Metrics has one metric of each kind   *)
(* that the code tells apart.  What the code sorts by a key that is unique *)
(* is a set here, and the hash of a candidate is the candidate.            *)
(***************************************************************************)
EXTENDS Naturals, Sequences, FiniteSetsExt

CONSTANTS
  Runs,         (* run identifiers                                         *)
  Generations,  (* values of workflow_generation                           *)
  Unscalar,     (* those of them that _text refuses                        *)
  Rooted,       (* the projects that it refuses: "/", "~/", "C:/"          *)
  WithinLimit(_), (* is the document of a core at most 16 MiB long?        *)
  Decisions,    (* what may be decided in one step of a run                *)
  Records,      (* what a record of the store may hold                     *)
  Mappings,     (* reviewed workflow generation mappings                   *)
  Queries,      (* the projects that a query may ask for, None for all     *)
  None,         (* Python's None, "unknown" in a record                    *)
  Since, Until, (* the interval of the query                               *)
  AsOf,         (* lifecycle_as_of                                         *)
  StaleAfter,   (* draft_stale_after_seconds                               *)
  MinSupport,   (* decision_min_episode_support                            *)
  MinRatio,     (* decision_min_support_ratio, <<numerator, denominator>>  *)
  MinOutcomes   (* decision_recurring_minimum_outcome_episodes             *)

VARIABLES
  store,    (* the record of each run, or None                             *)
  invalid,  (* the runs with an invalidation                               *)
  mapping,  (* the reviewed generation of each run, or None                *)
  wanted,   (* the project of the query, or None                           *)
  version,  (* the schema of the input: 1 of an earlier release, 2 today's *)
  stage,    (* the next function to be called                              *)
  refused,  (* did it refuse?                                              *)
  bundle,   (* the semantic bundle                                         *)
  core      (* the core of the snapshot                                    *)

inputs == <<store, invalid, mapping, wanted, version>>
vars == <<store, invalid, mapping, wanted, version, stage, refused, bundle,
          core>>

OutcomeStatuses == {"failed", "partial", "rolled-back", "success"}
Statuses == OutcomeStatuses \cup {"draft", "superseded"}
Categories == {"fail", "not-run", "pass", "unknown"}

(* The metrics that the model keeps: an integer that every final record    *)
(* has, one that it may leave unknown, one that only schema 2 has, the     *)
(* category and the decimal.                                               *)
Aggregation ==
  [elapsed_seconds |-> "integer-quantiles", cost_amount |-> "missingness-only",
   defects_found |-> "integer-quantiles", verification |-> "category-counts",
   input_tokens |-> "integer-quantiles"]
Metrics == DOMAIN Aggregation
SchemaSupports(schema, m) ==
  schema = 2 \/ m \notin {"input_tokens", "cost_amount"}

(* What the validation of a record lets into the store.                    *)
Recordable(r) ==
  /\ r.schema \in {1, 2} /\ r.status \in Statuses /\ r.started \in Nat
  /\ r.generation \in Generations \cup {None}
  /\ r.decisions \in Seq(Decisions)
  /\ r.schema = 1 => r.generation = None
  /\ r.schema = 1 \/ r.status = "draft" => r.decisions = <<>>
  /\ r.status # "draft" =>
       /\ r.values["elapsed_seconds"] # None
       /\ r.values["verification"] \in Categories
  /\ r.status = "success" => r.values["verification"] # "fail"

ASSUME RecordsAreValid == \A r \in Records : Recordable(r)
ASSUME Policy ==
  /\ IsFiniteSet(Runs) /\ Unscalar \subseteq Generations
  /\ None \notin Runs \cup Generations \cup Categories
  /\ Mappings \subseteq [Runs -> Generations \cup {None}]
  /\ {Since, Until, AsOf, StaleAfter} \subseteq Nat
  /\ {MinSupport, MinOutcomes} \subseteq Nat \ {0}
  /\ MinRatio \in Nat \X (Nat \ {0})

Init ==
  /\ store \in [Runs -> Records \cup {None}]
  /\ invalid \in
       SUBSET {x \in Runs : store[x] # None /\ store[x].status # "draft"}
  /\ mapping \in Mappings /\ wanted \in Queries /\ version \in {1, 2}
  /\ stage = "acquire" /\ refused = FALSE /\ bundle = None /\ core = None

-----------------------------------------------------------------------------
(* Acquisition.                                                            *)

Missing(availability) == [availability |-> availability, value |-> None]
ProjectedMetric(supported, value) ==
  IF ~supported THEN Missing("unsupported_by_schema")
  ELSE IF value = None THEN Missing("not_recorded")
  ELSE [availability |-> "observed", value |-> value]

Projection(x) ==
  LET r == store[x] IN
  [run |-> x, schema |-> r.schema, started |-> r.started, status |-> r.status,
   project |-> r.project, generation |-> r.generation,
   metrics |-> [m \in Metrics |->
     ProjectedMetric(SchemaSupports(r.schema, m),
                     IF r.status = "draft" THEN None ELSE r.values[m])],
   decisions |-> r.decisions]

Conflicts(e) ==
  e.generation # None /\ mapping[e.run] \notin {None, e.generation}
Mapped(e) ==
  IF e.generation = None THEN [e EXCEPT !.generation = mapping[e.run]] ELSE e
Matches(e) ==
  Since <= e.started /\ e.started < Until /\ wanted \in {None, e.project}

Physical == {Projection(x) : x \in {y \in Runs : store[y] # None}}

Counts(episodes, invalidations) ==
  [episodes |-> Cardinality(episodes),
   invalidations |-> Cardinality(invalidations),
   drafts |-> Quantify(episodes, LAMBDA e : e.status = "draft"),
   finals |-> Quantify(episodes, LAMBDA e : e.status # "draft")]

Bundle(v) ==
  LET selected == {e \in {Mapped(p) : p \in Physical} : Matches(e)}
      invalidations == invalid \cap {e.run : e \in selected} IN
  [version |-> v, episodes |-> selected, invalidations |-> invalidations,
   counts |-> Counts(selected, invalidations),
   migrations |-> IF v = 1 THEN None
                  ELSE {<<e.run, e.schema>> : e \in selected}]

(* A conflict anywhere in the store refuses, selected or not.              *)
Acquire ==
  /\ stage = "acquire" /\ ~refused
  /\ IF \E p \in Physical : Conflicts(p)
     THEN refused' = TRUE /\ UNCHANGED <<stage, bundle>>
     ELSE /\ bundle' = Bundle(version) /\ stage' = "construct"
          /\ UNCHANGED refused
  /\ UNCHANGED <<inputs, core>>

-----------------------------------------------------------------------------
(* The constructor of SnapshotInput.                                       *)

CanonicalMetric(e, m) ==
  IF ~SchemaSupports(e.schema, m)
  THEN e.metrics[m] = Missing("unsupported_by_schema")
  ELSE IF e.status = "draft" THEN e.metrics[m] = Missing("not_recorded")
  ELSE \/ /\ e.metrics[m] = Missing("not_recorded")
          /\ m \notin {"elapsed_seconds", "verification"}
       \/ e.metrics[m].availability = "observed" /\ e.metrics[m].value # None

CanonicalDecisions(e) ==
  e.decisions # <<>> => e.schema = 2 /\ e.status # "draft"

CanonicalGeneration(e) ==
  IF e.schema = 1 THEN e.generation = mapping[e.run]
  ELSE mapping[e.run] \in {None, e.generation}

CanonicalEpisode(e) ==
  /\ e.status \in Statuses
  /\ CanonicalGeneration(e)
  /\ \A m \in Metrics : CanonicalMetric(e, m)
  /\ e.status = "success" => e.metrics["verification"].value # "fail"
  /\ CanonicalDecisions(e)
  /\ Matches(e)

CanonicalInvalidations(b) ==
  b.invalidations \subseteq
    {e.run : e \in {f \in b.episodes : f.status # "draft"}}

CoversSources(b) ==
  b.version = 2 => b.migrations = {<<e.run, e.schema>> : e \in b.episodes}

ConstructorAccepts(b) ==
  /\ \A e \in b.episodes : CanonicalEpisode(e)
  /\ CanonicalInvalidations(b)
  /\ b.counts = Counts(b.episodes, b.invalidations)
  /\ CoversSources(b)

Construct ==
  /\ stage = "construct" /\ ~refused
  /\ IF ConstructorAccepts(bundle)
     THEN stage' = "build" /\ UNCHANGED refused
     ELSE refused' = TRUE /\ UNCHANGED stage
  /\ UNCHANGED <<inputs, bundle, core>>

-----------------------------------------------------------------------------
(* Cohorts and their metrics.                                              *)

CohortKey(e) ==
  IF e.generation = None
  THEN [collection |-> "legacy-generation-unavailable", project |-> e.project,
        generation |-> None, legacy |-> e.run]
  ELSE [collection |-> "workflow-generation", project |-> e.project,
        generation |-> e.generation, legacy |-> None]

(* A mistaken form: an invalidated run goes on speaking.                   *)
OutcomesOfAll(episodes, invalidated) ==
  {e \in episodes : e.status \in OutcomeStatuses}

Outcomes(episodes, invalidated) ==
  {e \in episodes : e.status \in OutcomeStatuses /\ e.run \notin invalidated}

Availabilities(v) ==
  {"observed", "not_recorded", "unsupported_by_schema", "not_applicable"}
    \cup (IF v = 2 THEN {"sampled_by_policy"} ELSE {})

Missingness(m, outcomes, v) ==
  [b \in Availabilities(v) \cup {"eligible"} |->
     IF b = "eligible" THEN Cardinality(outcomes)
     ELSE Quantify(outcomes, LAMBDA e : e.metrics[m].availability = b)]

(* The i-th of the sorted observed values is the least that at least i of  *)
(* the episodes do not exceed.                                             *)
SortedValues(m, observed) ==
  LET AtMost(x) == Quantify(observed, LAMBDA e : e.metrics[m].value <= x) IN
  [i \in 1..Cardinality(observed) |->
     Min({x \in {e.metrics[m].value : e \in observed} : AtMost(x) >= i})]

(* linear_rational_quantile for the quarter n: an exact number of quarters.*)
Quantile(s, n) ==
  IF s = <<>> THEN None
  ELSE LET index == (Len(s) - 1) * n
           lower == s[index \div 4 + 1] IN
       IF index % 4 = 0 THEN 4 * lower
       ELSE 4 * lower + (s[index \div 4 + 2] - lower) * (index % 4)

(* What a metric does not have is None in the code, and no field here.     *)
MetricResult(m, outcomes, v) ==
  LET observed == {e \in outcomes : e.metrics[m].availability = "observed"}
      sorted == SortedValues(m, observed) IN
  CASE Aggregation[m] = "integer-quantiles" ->
         [missingness |-> Missingness(m, outcomes, v),
          observed_values |-> sorted,
          quantiles |-> [n \in 1..3 |-> Quantile(sorted, n)]]
    [] Aggregation[m] = "category-counts" ->
         [missingness |-> Missingness(m, outcomes, v),
          category_counts |->
            [c \in Categories |->
               Quantify(observed, LAMBDA e : e.metrics[m].value = c)]]
    [] Aggregation[m] = "missingness-only" ->
         [missingness |-> Missingness(m, outcomes, v)]

Stale(e) == e.status = "draft" /\ AsOf - e.started > StaleAfter

Cohort(key, episodes, invalidated, v) ==
  LET outcomes == Outcomes(episodes, invalidated)
      drafts == Quantify(episodes, LAMBDA e : e.status = "draft")
      stale == Quantify(episodes, Stale)
      comparable == key.generation # None IN
  [identity |-> key, comparable |-> comparable,
   strength |-> IF comparable /\ Cardinality(outcomes) >= MinOutcomes
                THEN "recurring" ELSE "descriptive",
   outcomes |-> Cardinality(outcomes),
   outcome_counts |-> [s \in OutcomeStatuses |->
     Quantify(outcomes, LAMBDA e : e.status = s)],
   drafts |-> drafts, active |-> drafts - stale, stale_draft_n |-> stale,
   superseded |-> Quantify(episodes, LAMBDA e : e.status = "superseded"),
   invalidated_episode_n |->
     Quantify(episodes, LAMBDA e : e.run \in invalidated),
   generation_unavailable_episode_n |->
     IF comparable THEN 0 ELSE Cardinality(episodes),
   metrics |-> [m \in Metrics |-> MetricResult(m, outcomes, v)]]

(* The exclusion ledger: who is left out of what, and why.                 *)
LedgerRow(e, reason, from) == <<e.run, reason, from>>
(* A mistaken form: a superseded run is left out without a word.           *)
LedgerWithoutSuperseded(episodes, invalidated) ==
  LET Rows(reason, from, S) == {LedgerRow(e, reason, from) : e \in S} IN
  UNION {Rows("draft", "outcome-analysis",
              {e \in episodes : e.status = "draft"}),
         Rows("invalidated", "outcome-analysis",
              {e \in episodes : e.run \in invalidated}),
         Rows("generation-unavailable", "comparative-inference",
              {e \in episodes : e.generation = None})}

Ledger(episodes, invalidated) ==
  LET Rows(reason, from, S) == {LedgerRow(e, reason, from) : e \in S} IN
  UNION {Rows("draft", "outcome-analysis",
              {e \in episodes : e.status = "draft"}),
         Rows("superseded", "outcome-analysis",
              {e \in episodes : e.status = "superseded"}),
         Rows("invalidated", "outcome-analysis",
              {e \in episodes : e.run \in invalidated}),
         Rows("generation-unavailable", "comparative-inference",
              {e \in episodes : e.generation = None})}

-----------------------------------------------------------------------------
(* Decision patterns: what is decided in one step, or in two adjacent ones,*)
(* of the valid outcomes that can carry decisions.                         *)

PatternKind(p) ==
  IF Len(p) = 1 THEN "single-event" ELSE "contiguous-adjacent-pair"
Occurrences(p, e) ==
  {i \in 1..Len(e.decisions) : /\ i + Len(p) - 1 <= Len(e.decisions)
                               /\ SubSeq(e.decisions, i, i + Len(p) - 1) = p}
PatternsOf(e) ==
  UNION {{SubSeq(e.decisions, i, i + n) : i \in 1..(Len(e.decisions) - n)} :
           n \in {0, 1}}

Events(p, eligible) ==
  LET taken == [e \in eligible |-> Cardinality(Occurrences(p, e))] IN
  MapThenSumSet(LAMBDA e : taken[e], eligible)
(* A mistaken form: a run that repeats itself supports itself.             *)
SupportByEvents(p, eligible) == Events(p, eligible)
Support(p, eligible) == Quantify(eligible, LAMBDA e : p \in PatternsOf(e))

(* A mistaken form: more than, for at least.                               *)
RecurringAbove(support, eligible, cohort) ==
  /\ support > MinSupport
  /\ support * MinRatio[2] >= MinRatio[1] * eligible
  /\ cohort.comparable
  /\ cohort.outcomes >= MinOutcomes

Recurring(support, eligible, cohort) ==
  /\ support >= MinSupport
  /\ support * MinRatio[2] >= MinRatio[1] * eligible
  /\ cohort.comparable
  /\ cohort.outcomes >= MinOutcomes

PatternRow(p, cohort, eligible) ==
  LET support == Support(p, eligible)
      n == Cardinality(eligible) IN
  [cohort |-> cohort.identity, kind |-> PatternKind(p), pattern |-> p,
   events |-> Events(p, eligible), support |-> support, eligible |-> n,
   strength |-> IF Recurring(support, n, cohort)
                THEN "recurring" ELSE "descriptive"]
DecisionPatterns(cohort, outcomes) ==
  LET eligible == {e \in outcomes : e.schema = 2} IN
  {PatternRow(p, cohort, eligible) :
     p \in UNION {PatternsOf(e) : e \in eligible}}

-----------------------------------------------------------------------------
(* Candidates, as the rules of candidate_emission_policy.json draft them.  *)

Rule(type, kind, source, predicate, evidence) ==
  [type |-> type, kind |-> kind, source |-> source, predicate |-> predicate,
   evidence |-> evidence]
Distribution == {"missingness", "observed_values", "quantiles"}
EmissionRules ==
  {Rule("decision-adjacent-pair", "decision", "contiguous-adjacent-pair",
        "decision-support-satisfied", {"counts", "pattern"}),
   Rule("decision-single-event", "decision", "single-event",
        "decision-support-satisfied", {"counts", "pattern"}),
   Rule("defect-observed", "metric", "defects_found",
        "positive-observed-value", Distribution),
   Rule("elapsed-time-distribution", "metric", "elapsed_seconds",
        "observed-count-positive", Distribution),
   Rule("generation-unavailable", "lifecycle",
        "generation_unavailable_episode_n", "positive-count", {"counts"}),
   Rule("input-token-distribution", "metric", "input_tokens",
        "observed-count-positive", Distribution),
   Rule("invalidated-episodes", "lifecycle", "invalidated_episode_n",
        "positive-count", {"counts"}),
   Rule("metric-missingness", "metric", "any-metric",
        "not-recorded-count-positive", {"missingness"}),
   Rule("non-success-outcomes", "outcome", "non_success_outcome_n",
        "positive-count", {"counts"}),
   Rule("schema-adoption-gap", "metric", "any-metric",
        "unsupported-count-positive", {"missingness"}),
   Rule("stale-drafts", "lifecycle", "stale_draft_n", "positive-count",
        {"counts"}),
   Rule("verification-non-pass", "metric", "verification",
        "non-pass-count-positive", {"category_counts", "missingness"})}

(* A candidate with its identity, which is its contents.                   *)
Identified(content) == [content |-> content, id |-> content]

Candidate(rule, cohort, source, eligible, support, values) ==
  Identified(
    [type |-> rule.type, cohort |-> cohort.identity, kind |-> rule.kind,
     source |-> source, eligible |-> eligible, outcomes |-> cohort.outcomes,
     support |-> support,
     evidence |-> [f \in rule.evidence \cap DOMAIN values |-> values[f]],
     strength |->
       IF rule.kind = "decision" THEN "recurring" ELSE "descriptive"])

MetricPredicate(metric, predicate) ==
  CASE predicate = "observed-count-positive" ->
         metric.missingness["observed"] > 0
    [] predicate = "positive-observed-value" ->
         /\ "observed_values" \in DOMAIN metric
         /\ \E i \in DOMAIN metric.observed_values :
              metric.observed_values[i] > 0
    [] predicate = "not-recorded-count-positive" ->
         metric.missingness["not_recorded"] > 0
    [] predicate = "unsupported-count-positive" ->
         metric.missingness["unsupported_by_schema"] > 0
    [] predicate = "non-pass-count-positive" ->
         /\ "category_counts" \in DOMAIN metric
         /\ \E c \in Categories \ {"pass"} : metric.category_counts[c] > 0

MetricCandidates(rule, cohort) ==
  LET names == IF rule.source = "any-metric" THEN Metrics ELSE {rule.source}
      Holds(m) == /\ cohort.metrics[m].missingness["eligible"] >= 1
                  /\ MetricPredicate(cohort.metrics[m], rule.predicate) IN
  {Candidate(rule, cohort, m, cohort.metrics[m].missingness["eligible"], None,
             cohort.metrics[m]) : m \in {n \in names : Holds(n)}}

PatternCounts(row) ==
  [event_count |-> row.events, episode_count_with_event |-> row.support]

DecisionCandidates(rule, cohort, patterns) ==
  {Candidate(rule, cohort, row.kind, row.eligible, row.support,
             [counts |-> PatternCounts(row), pattern |-> row.pattern]) :
     row \in {p \in patterns :
                p.kind = rule.source /\ p.strength = "recurring"}}

CountOf(rule, cohort) ==
  IF rule.kind = "outcome"
  THEN MapThenSumSet(LAMBDA s : cohort.outcome_counts[s],
                     OutcomeStatuses \ {"success"})
  ELSE cohort[rule.source]
CountCandidates(rule, cohort, n) ==
  LET count == CountOf(rule, cohort)
      eligible == IF rule.kind = "outcome" THEN cohort.outcomes ELSE n
      counts == IF rule.source = "stale_draft_n"
                THEN [stale_draft_n |-> count, as_of |-> AsOf,
                      stale_after_seconds |-> StaleAfter]
                ELSE [s \in {rule.source} |-> count] IN
  IF eligible < 1 \/ count = 0 THEN {}
  ELSE {Candidate(rule, cohort, rule.source, eligible, None,
                  [counts |-> counts])}

CandidatesOf(rule, cohort, patterns, n) ==
  CASE rule.kind = "metric" -> MetricCandidates(rule, cohort)
    [] rule.kind = "decision" -> DecisionCandidates(rule, cohort, patterns)
    [] OTHER -> CountCandidates(rule, cohort, n)

-----------------------------------------------------------------------------
(* build_snapshot_core: its own checks of the bundle, and the core.        *)

AnalyzerAccepts(b) ==
  /\ \A e \in b.episodes, m \in Metrics :
       LET metric == e.metrics[m] IN
       /\ SchemaSupports(e.schema, m) =
            (metric.availability # "unsupported_by_schema")
       /\ metric.availability # "observed" => metric.value = None
  /\ b.invalidations \subseteq {e.run : e \in b.episodes}
  /\ b.counts = Counts(b.episodes, b.invalidations)

Members(key, b) == {e \in b.episodes : CohortKey(e) = key}
Group(key, b) ==
  LET members == Members(key, b)
      cohort == Cohort(key, members, b.invalidations, b.version) IN
  [cohort |-> cohort, n |-> Cardinality(members),
   patterns |-> DecisionPatterns(cohort, Outcomes(members, b.invalidations))]
Grouped(b) == {Group(key, b) : key \in {CohortKey(e) : e \in b.episodes}}

Drafted(group, rule) ==
  CandidatesOf(rule, group.cohort, group.patterns, group.n)

BuildCore(b) ==
  LET groups == Grouped(b) IN
  [version |-> b.version,
   episodes |-> {e.run : e \in b.episodes}, invalidations |-> b.invalidations,
   ledger |-> Ledger(b.episodes, b.invalidations),
   cohorts |-> {g.cohort : g \in groups},
   patterns |-> UNION {g.patterns : g \in groups},
   candidates |->
     UNION {Drafted(g, r) : g \in groups, r \in EmissionRules},
   sampled |-> IF b.version = 1 THEN None ELSE 0,
   retained |-> IF b.version = 1 THEN None
                ELSE Cardinality(b.episodes) - Cardinality(b.invalidations)]

(* Were all the candidates drafted different ones?                         *)
AllDistinct(b, c) ==
  LET drafted == [d \in Grouped(b) \X EmissionRules |->
                    Cardinality(Drafted(d[1], d[2]))] IN
  Cardinality(c.candidates) =
    MapThenSumSet(LAMBDA d : drafted[d], Grouped(b) \X EmissionRules)

Build ==
  /\ stage = "build" /\ ~refused
  /\ LET built == BuildCore(bundle) IN
     IF AnalyzerAccepts(bundle) /\ AllDistinct(bundle, built)
     THEN core' = built /\ stage' = "check" /\ UNCHANGED refused
     ELSE refused' = TRUE /\ UNCHANGED <<core, stage>>
  /\ UNCHANGED <<inputs, bundle>>

-----------------------------------------------------------------------------
(* validate_learning_snapshot_core, for the schema v.                      *)

Exhaustive(missingness, v) ==
  /\ DOMAIN missingness = Availabilities(v) \cup {"eligible"}
  /\ v = 2 => missingness["sampled_by_policy"] = 0
  /\ missingness["eligible"] =
       MapThenSumSet(LAMBDA b : missingness[b], Availabilities(v))

CandidateIsExact(c, v) ==
  /\ "missingness" \in DOMAIN c.content.evidence =>
       /\ c.content.kind = "metric"
       /\ Exhaustive(c.content.evidence["missingness"], v)
  /\ c.id = c.content

SamplingIsZero(c, v) ==
  IF v = 1 THEN c.sampled = None /\ c.retained = None
  ELSE /\ c.sampled = 0
       /\ c.retained = Cardinality(c.episodes \ c.invalidations)

CoreIsExact(c, v) ==
  /\ c.version = v
  /\ c.invalidations \subseteq c.episodes
  /\ \A row \in c.cohorts, m \in Metrics :
       Exhaustive(row.metrics[m].missingness, v)
  /\ \A row \in c.candidates : CandidateIsExact(row, v)
  /\ Cardinality({row.id : row \in c.candidates}) = Cardinality(c.candidates)
  /\ SamplingIsZero(c, v)

Check ==
  /\ stage = "check" /\ ~refused
  /\ IF CoreIsExact(core, core.version)
     THEN stage' = "establish" /\ UNCHANGED refused
     ELSE refused' = TRUE /\ UNCHANGED stage
  /\ UNCHANGED <<inputs, bundle, core>>

-----------------------------------------------------------------------------
(* The older validator knows schema 1 only: it is shown a core without the *)
(* counts of schema 2, whose candidates have the identities of schema 1.   *)

WithoutSampled(missingness) ==
  [b \in DOMAIN missingness \ {"sampled_by_policy"} |-> missingness[b]]
WithSampled(missingness) ==
  [b \in DOMAIN missingness \cup {"sampled_by_policy"} |->
     IF b = "sampled_by_policy" THEN 0 ELSE missingness[b]]
Partition(missingness, v) ==
  IF v = 1 THEN WithoutSampled(missingness) ELSE WithSampled(missingness)

(* The core with the availability counts of the schema v, and with the     *)
(* candidates that carry them identified anew.                             *)
Recounted(row, v) ==
  LET metrics == [m \in Metrics |-> [row.metrics[m] EXCEPT
                                      !.missingness = Partition(@, v)]] IN
  [row EXCEPT !.metrics = metrics]
Renewed(row, v) ==
  IF "missingness" \notin DOMAIN row.content.evidence THEN row
  ELSE LET evidence == [row.content.evidence EXCEPT
                          !["missingness"] = Partition(@, v)] IN
       Identified([row.content EXCEPT !.evidence = evidence])
Repartitioned(c, v) ==
  [c EXCEPT !.cohorts = {Recounted(row, v) : row \in @},
            !.candidates = {Renewed(row, v) : row \in @}]

LegacyView(c) ==
  IF c.version = 1 THEN c
  ELSE [Repartitioned(c, 1) EXCEPT
          !.version = 1, !.sampled = None, !.retained = None]

(* _text runs over every dimension of a cohort identity.                   *)
IdentityStands(key) ==
  /\ key.project \notin Rooted /\ key.generation \notin Unscalar
  /\ IF key.collection = "workflow-generation"
     THEN key.generation # None /\ key.legacy = None
     ELSE key.generation = None /\ key.legacy # None

LedgerStands(c) ==
  \A row \in c.ledger :
    /\ row[2] \in
         {"draft", "generation-unavailable", "invalidated", "superseded"}
    /\ row[3] \in {"outcome-analysis", "comparative-inference"}

CohortStands(row) ==
  /\ IdentityStands(row.identity)
  /\ row.strength \in {"descriptive", "recurring"}
  /\ {row.outcomes, row.drafts, row.active, row.stale_draft_n} \subseteq Nat
  /\ \A m \in Metrics :
       DOMAIN row.metrics[m].missingness = Availabilities(1) \cup {"eligible"}

CohortNamed(c, key) == CHOOSE row \in c.cohorts : row.identity = key

(* _decision_pattern_strength judges the pattern by its fraction.          *)
PatternStrength(row, cohort) ==
  IF /\ row.support >= MinSupport
     /\ row.support * MinRatio[2] >= MinRatio[1] * row.eligible
     /\ cohort.comparable
     /\ cohort.outcomes >= MinOutcomes
  THEN "recurring" ELSE "descriptive"

PatternStands(c, row) ==
  /\ IdentityStands(row.cohort)
  /\ Len(row.pattern) = IF row.kind = "single-event" THEN 1 ELSE 2
  /\ 1 <= row.support /\ row.support <= row.events
  /\ row.support <= row.eligible
  /\ row.cohort \in {r.identity : r \in c.cohorts}
  /\ row.strength = PatternStrength(row, CohortNamed(c, row.cohort))

(* _CANDIDATE_RULES: the validator's own table of what each type of        *)
(* candidate has to be.                                                    *)
Expected(kind, source, evidence, counts) ==
  [kind |-> kind, source |-> source, evidence |-> evidence, counts |-> counts]
CandidateRules ==
  LET Measured(m) == Expected("metric", m, Distribution, None)
      Decided(k) == Expected("decision", k, {"counts", "pattern"},
                             {"event_count", "episode_count_with_event"})
      Counted(k, source) == Expected(k, source, {"counts"}, {source})
      AnyMetric == Expected("metric", "any-metric", {"missingness"}, None) IN
  [t \in {r.type : r \in EmissionRules} |->
     CASE t = "decision-adjacent-pair" -> Decided("contiguous-adjacent-pair")
       [] t = "decision-single-event" -> Decided("single-event")
       [] t = "defect-observed" -> Measured("defects_found")
       [] t = "elapsed-time-distribution" -> Measured("elapsed_seconds")
       [] t = "generation-unavailable" ->
            Counted("lifecycle", "generation_unavailable_episode_n")
       [] t = "input-token-distribution" -> Measured("input_tokens")
       [] t = "invalidated-episodes" ->
            Counted("lifecycle", "invalidated_episode_n")
       [] t \in {"metric-missingness", "schema-adoption-gap"} -> AnyMetric
       [] t = "non-success-outcomes" ->
            Counted("outcome", "non_success_outcome_n")
       [] t = "stale-drafts" ->
            Expected("lifecycle", "stale_draft_n", {"counts"},
                     {"stale_draft_n", "as_of", "stale_after_seconds"})
       [] t = "verification-non-pass" ->
            Expected("metric", "verification",
                     {"category_counts", "missingness"}, None)]

CandidateStands(row) ==
  LET c == row.content
      rule == CandidateRules[c.type] IN
  /\ c.type \in DOMAIN CandidateRules
  /\ IdentityStands(c.cohort)
  /\ c.kind = rule.kind
  /\ IF rule.source = "any-metric"
     THEN c.source \in Metrics ELSE c.source = rule.source
  /\ IF c.kind = "decision" THEN c.support \in Nat ELSE c.support = None
  /\ DOMAIN c.evidence = rule.evidence
  /\ "counts" \in DOMAIN c.evidence =>
       DOMAIN c.evidence["counts"] = rule.counts
  /\ "pattern" \in DOMAIN c.evidence =>
       PatternKind(c.evidence["pattern"]) = c.source
  /\ c.strength = IF c.kind = "decision" THEN "recurring" ELSE "descriptive"
  /\ row.id = c

(* Each recurring pattern has exactly one candidate, and the other way.    *)
Binds(row, pattern) ==
  LET c == row.content IN
  /\ c.kind = "decision"
  /\ c.cohort = pattern.cohort /\ c.source = pattern.kind
  /\ c.evidence["pattern"] = pattern.pattern

DecisionsAreCovered(c) ==
  LET recurring == {p \in c.patterns : p.strength = "recurring"}
      decisions == {row \in c.candidates : row.content.kind = "decision"} IN
  /\ \A row \in decisions :
       \E p \in recurring :
         /\ Binds(row, p)
         /\ row.content.evidence["counts"] = PatternCounts(p)
         /\ row.content.eligible = p.eligible
         /\ row.content.support = p.support
         /\ row.content.outcomes = CohortNamed(c, p.cohort).outcomes
  /\ \A p \in recurring : Quantify(decisions, LAMBDA row : Binds(row, p)) = 1

EstablishedAccepts(c) ==
  /\ LedgerStands(c)
  /\ \A row \in c.cohorts : CohortStands(row)
  /\ Cardinality({row.identity : row \in c.cohorts}) = Cardinality(c.cohorts)
  /\ \A row \in c.patterns : PatternStands(c, row)
  /\ \A row \in c.candidates : CandidateStands(row)
  /\ DecisionsAreCovered(c)

Establish ==
  /\ stage = "establish" /\ ~refused
  /\ IF EstablishedAccepts(LegacyView(core))
     THEN /\ stage' = IF core.version = version THEN "publish" ELSE "done"
          /\ UNCHANGED refused
     ELSE refused' = TRUE /\ UNCHANGED stage
  /\ UNCHANGED <<inputs, bundle, core>>

(* Whoever publishes or reads a document validates its bytes again, by the *)
(* schema of its envelope: schema 1 only by the older validator.  A        *)
(* document of more than _MAX_ARTIFACT_BYTES is not looked at.             *)
Readable(c) ==
  /\ WithinLimit(c)
  /\ IF c.version = 1 THEN EstablishedAccepts(c)
     ELSE CoreIsExact(c, 2) /\ EstablishedAccepts(LegacyView(c))

Publish ==
  /\ stage = "publish" /\ ~refused
  /\ IF Readable(core)
     THEN /\ stage' = IF version = 1 THEN "migrate" ELSE "done"
          /\ UNCHANGED refused
     ELSE refused' = TRUE /\ UNCHANGED stage
  /\ UNCHANGED <<inputs, bundle, core>>

(* A mistaken form: only the candidates that were counted anew are kept.   *)
MigratedMetrics(c) ==
  [Repartitioned(c, 2) EXCEPT
     !.version = 2, !.sampled = 0,
     !.retained = Cardinality(c.episodes \ c.invalidations),
     !.candidates = {row \in @ : row.content.kind \in {"metric", "decision"}}]

(* migrate_learning_snapshot_v1_core: nothing of an earlier release was    *)
(* sampled.  The result goes through both validators again.                *)
Migrated(c) ==
  [Repartitioned(c, 2) EXCEPT
     !.version = 2, !.sampled = 0,
     !.retained = Cardinality(c.episodes \ c.invalidations)]

Migrate ==
  /\ stage = "migrate" /\ ~refused
  /\ core' = Migrated(core) /\ stage' = "check"
  /\ UNCHANGED <<inputs, refused, bundle>>

Next ==
  Acquire \/ Construct \/ Build \/ Check \/ Establish \/ Publish \/ Migrate
Spec == Init /\ [][Next]_vars

-----------------------------------------------------------------------------
TypeOK ==
  /\ store \in [Runs -> Records \cup {None}] /\ invalid \subseteq Runs
  /\ mapping \in Mappings /\ wanted \in Queries /\ version \in {1, 2}
  /\ stage \in {"acquire", "construct", "build", "check", "establish",
                "publish", "migrate", "done"}
  /\ refused \in BOOLEAN
  /\ (bundle = None) = (stage = "acquire")
  /\ (core = None) = (stage \in {"acquire", "construct", "build"})

(* The analysis of a bundle that acquisition accepts is refused only for   *)
(* the text of a generation or of another dimension, and its document only *)
(* for its size: two tables of candidates, two schemas and five layers of  *)
(* checks never disagree about anything else.                              *)
OnlyTheseAreRefused ==
  refused =>
    \/ stage = "acquire" /\ \E p \in Physical : Conflicts(p)
    \/ /\ stage = "establish"
       /\ \E e \in bundle.episodes :
            e.generation \in Unscalar \/ e.project \in Rooted
    \/ stage = "publish" /\ ~WithinLimit(core)

(* What is true of accepted inputs according to the design: every accepted *)
(* input has its snapshot.                                                 *)
EveryAcceptedInputIsAnalysed == refused => stage \in {"acquire", "construct"}

(* The cohorts, each with its counts, and the exclusion ledger, run by run,*)
(* are two accounts of the same episodes.                                  *)
EveryEpisodeIsAccounted ==
  stage = "done" =>
    LET Belonging(row) ==
          {e \in bundle.episodes :
             /\ e.project = row.identity.project
             /\ e.generation = row.identity.generation
             /\ row.identity.legacy \in {None, e.run}}
        For(reason, row) ==
          Quantify(Belonging(row), LAMBDA e :
            \E l \in core.ledger : l[1] = e.run /\ l[2] = reason)
        Analysed(row) ==
          {e \in Belonging(row) : ~\E l \in core.ledger :
                                   l[1] = e.run /\ l[3] = "outcome-analysis"}
    IN
    /\ \A e \in bundle.episodes :
         Quantify(core.cohorts, LAMBDA row : e \in Belonging(row)) = 1
    /\ \A l \in core.ledger : l[1] \in core.episodes
    /\ \A row \in core.cohorts :
         /\ row.outcomes = Cardinality(Analysed(row))
         /\ \A s \in OutcomeStatuses :
              row.outcome_counts[s] = Quantify(Analysed(row),
                                               LAMBDA e : e.status = s)
         /\ row.drafts = For("draft", row)
         /\ row.active + row.stale_draft_n = row.drafts
         /\ row.superseded = For("superseded", row)
         /\ row.invalidated_episode_n = For("invalidated", row)
         /\ row.generation_unavailable_episode_n =
              For("generation-unavailable", row)

(* What a snapshot says of results is what it would say if the invalidated *)
(* runs, the drafts and the superseded had never been recorded.            *)
Results(c) ==
  {[identity |-> row.identity, outcomes |-> row.outcome_counts,
    metrics |-> row.metrics] : row \in {r \in c.cohorts : r.outcomes > 0}}
Speaking(c) ==
  {row \in c.candidates :
     row.content.kind \in {"metric", "decision", "outcome"}}
OnlyValidOutcomesSpeak ==
  stage = "done" =>
    LET outcomes == {e \in bundle.episodes : /\ e.status \in OutcomeStatuses
                                              /\ e.run \notin invalid}
        clean == BuildCore([bundle EXCEPT !.version = 2, !.episodes = outcomes,
                                          !.invalidations = {}]) IN
    /\ Results(core) = Results(clean)
    /\ core.patterns = clean.patterns
    /\ Speaking(core) = Speaking(clean)

(* A migrated snapshot is the one that today's release would have made.    *)
MigrationIsARebuild ==
  stage = "done" => core = BuildCore([bundle EXCEPT !.version = 2])

(* Whose valid outcomes there are for a project and a generation, which of *)
(* them can carry decisions, and which of those took a certain one.        *)
Recorded == {x \in Runs : store[x] # None}
Valid(p, g) ==
  {x \in Recorded \ invalid :
     /\ store[x].status \in OutcomeStatuses /\ store[x].project = p
     /\ g \in {store[x].generation, mapping[x]}
     /\ Since <= store[x].started /\ store[x].started < Until}
Deciding(p, g) == {x \in Valid(p, g) : store[x].schema = 2}
Took(x, s) ==
  \E i, j \in 1..Len(store[x].decisions) :
    SubSeq(store[x].decisions, i, j) = s
Taking(p, g, s) == {x \in Deciding(p, g) : Took(x, s)}
Earned(p, g, s) ==
  /\ wanted \in {None, p}
  /\ Cardinality(Valid(p, g)) >= MinOutcomes
  /\ Cardinality(Taking(p, g, s)) >= MinSupport
  /\ Cardinality(Taking(p, g, s)) * MinRatio[2] >=
       MinRatio[1] * Cardinality(Deciding(p, g))
Reported(candidates, p, g, s) ==
  \E row \in candidates :
    LET c == row.content IN
    /\ c.kind = "decision"
    /\ c.cohort.project = p /\ c.cohort.generation = g
    /\ c.evidence["pattern"] = s

(* A decision is reported as recurring exactly when enough distinct valid  *)
(* runs of one known generation, and a large enough share of those that    *)
(* could, took it, however often each of them did.                         *)
RecurringIsEarned ==
  stage = "done" =>
    \A p \in {store[x].project : x \in Recorded}, g \in Generations :
      \A s \in {<<a>> : a \in Decisions}
                 \cup {<<a, b>> : a, b \in Decisions} :
        Reported(core.candidates, p, g, s) <=> Earned(p, g, s)
=============================================================================

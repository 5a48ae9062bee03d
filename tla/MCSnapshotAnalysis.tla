-------------------------- MODULE MCSnapshotAnalysis --------------------------
(* Instances of SnapshotAnalysis for TLC.                                  *)
EXTENDS SnapshotAnalysis, TLC

CONSTANTS g, odd, p, q, root, d, f, MaxCandidates

Record(schema, started, status, generation, project, values, decisions) ==
  [schema |-> schema, started |-> started, status |-> status,
   generation |-> generation, project |-> project, values |-> values,
   decisions |-> decisions]
Values(elapsed, defects, tokens, verification) ==
  [elapsed_seconds |-> elapsed, defects_found |-> defects,
   input_tokens |-> tokens, verification |-> verification,
   cost_amount |-> None]
Nothing == [m \in Metrics |-> None]

MCRecords == {
  Record(2, 1, "success", g, p, Values(2, 1, 3, "pass"), <<d, f, d>>),
  Record(2, 2, "failed", g, p, Values(5, 0, None, "unknown"), <<f>>),
  Record(2, 2, "partial", g, q, Values(7, None, 3, "fail"), <<>>),
  Record(1, 1, "success", None, p, Values(4, None, None, "pass"), <<>>),
  Record(2, 1, "draft", g, p, Nothing, <<>>),
  Record(2, 2, "draft", None, p, Nothing, <<>>),
  Record(2, 1, "superseded", g, p, Values(9, 3, 1, "not-run"), <<d, d>>),
  Record(2, 1, "rolled-back", odd, p, Values(2, 0, 3, "pass"), <<f>>),
  Record(2, 3, "success", g, p, Values(8, 2, 2, "pass"), <<d>>),
  Record(2, 2, "success", g, root, Values(3, 0, 1, "pass"), <<d>>)}
(* Of the cores of these records, those with many candidates do not fit.   *)
MCWithinLimit(c) == Cardinality(c.candidates) <= MaxCandidates

MCMappings == {[x \in Runs |-> None]} \cup
              {[x \in Runs |-> IF x = y THEN g ELSE None] : y \in Runs}
MCRatio == <<3, 4>>
Symmetry == Permutations(Runs)
=============================================================================

---------------------------- MODULE MCEnrichment ----------------------------
EXTENDS Enrichment

Do(what, f) == [do |-> what, f |-> f]

MCShapes ==
  << [trigger |-> "updated", ask |-> FALSE, needs |-> "title", acts |-> <<Do("remove", "tag"), Do("assign", "cat")>>],
     [trigger |-> "added", ask |-> TRUE, needs |-> "any", acts |-> <<Do("assign", "tag"), Do("assign", "custom")>>],
     [trigger |-> "added", ask |-> FALSE, needs |-> "any", acts |-> <<Do("extend", "title"), Do("assign", "owner")>>],
     [trigger |-> "consumption", ask |-> FALSE, needs |-> "any",
      acts |-> <<Do("assign", "corr"), Do("remove", "layout"), Do("assign", "trash")>>] >>

Rule(s) == [shape |-> s, on |-> s # 0]

Answer(fields, yes, sure, ds) ==
  [fields |-> fields, yes |-> yes, sure |-> sure, review |-> FALSE, dates |-> ds]
MCNoAnswer == Answer(<<>>, {}, FALSE, {})
MCAnswers == {Answer(<<"title", "corr", "cat", "tag", "lang">>, {2}, TRUE, {"due"}),
              Answer(<<>>, {}, TRUE, {})}

Budget(edit, decide, admin, other, fail) ==
  [edit |-> edit, decide |-> decide, admin |-> admin, other |-> other, fail |-> fail]

Start(r1, r2, a, q, l) ==
  [rules |-> <<Rule(r1), Rule(r2)>>, opts |-> [auto |-> a, match |-> TRUE], queue |-> q, left |-> l]

\* People and the classifier; people and the intake; administrators and the classifier.
MCStarts ==
  {Start(1, 2, TRUE, {"classify"}, Budget(2, 0, 0, 0, 0)),
   Start(0, 2, FALSE, {"classify"}, Budget(1, 2, 0, 0, 0)),
   Start(3, 1, TRUE, {"ingest"}, Budget(1, 0, 0, 1, 0)),
   Start(4, 0, TRUE, {"ingest"}, Budget(1, 0, 0, 0, 0)),
   Start(3, 2, TRUE, {"classify"}, Budget(0, 0, 2, 1, 1))}
=============================================================================

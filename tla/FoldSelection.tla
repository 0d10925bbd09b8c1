---------------------------- MODULE FoldSelection ----------------------------
(* Which of five folds becomes the calibration and which the test partition   *)
(* of the smoke dataset (data/splits.py).  A table is a function from its     *)
(* rows to [predictors, fold, code]: predictors is a sequence of values, each *)
(* [type, value]; the folds come from a library that keeps the rows of a      *)
(* predictor group together.  Deviations are compared exactly, as fractions   *)
(* of integers, where the code adds floating-point numbers.                   *)
EXTENDS Integers, FiniteSets, FiniteSetsExt

Folds == 0..4
Partitions == {"train", "calibration", "test"}
NoPair == <<5, 5>>

\* The fractions 0.6, 0.2 and 0.2 in fifths.
Fifths == [train |-> 3, calibration |-> 1, test |-> 1]

Product(op(_), set) ==
  MapThenFoldSet(LAMBDA a, b : a * b, 1, op, LAMBDA rest : CHOOSE x \in rest : TRUE, set)

Distance(a, b) == IF a < b THEN b - a ELSE a - b

Codes(table) == {table[r].code : r \in DOMAIN table}

\* Missing values of every type are one; 0.0 and -0.0 are two different floats,
\* and so are an integer and a float of the same value.
CanonicalScalar(x) ==
  IF x.type \in {"none", "na", "nan"} THEN [type |-> "missing", value |-> "none"] ELSE x
CanonicalPredictorVector(row) ==
  [c \in DOMAIN row.predictors |-> CanonicalScalar(row.predictors[c])]
GroupIds(table) == [r \in DOMAIN table |-> CanonicalPredictorVector(table[r])]

\* A pair is the calibration fold and the test fold; three folds remain.
Pairs == {pair \in Folds \X Folds : pair[1] # pair[2]}
PartitionOf(pair, fold) ==
  IF fold = pair[1] THEN "calibration" ELSE IF fold = pair[2] THEN "test" ELSE "train"
Labels(table, pair) == [r \in DOMAIN table |-> PartitionOf(pair, table[r].fold)]

Size(table, pair, part) == Cardinality({r \in DOMAIN table : Labels(table, pair)[r] = part})

\* Every code of the table has a count in every partition, be it 0.
ClassCounts(table, pair) ==
  [part \in Partitions |-> [c \in Codes(table) |->
     Cardinality({r \in DOMAIN table : table[r].code = c /\ Labels(table, pair)[r] = part})]]

\* Deviation of the partition sizes, in units of 1 / (5 * number of rows).
SizeScore(table, pair) ==
  MapThenSumSet(LAMBDA part : Distance(5 * Size(table, pair, part),
                                       Cardinality(DOMAIN table) * Fifths[part]), Partitions)

\* Deviation of the class proportions, as [over, under].
ClassScore(table, pair) ==
  LET counts == ClassCounts(table, pair)
      rows == Cardinality(DOMAIN table)
      size(part) == Size(table, pair, part)
      others(part) == Product(size, Partitions \ {part})
      whole(c) == Cardinality({r \in DOMAIN table : table[r].code = c})
      one(part) == MapThenSumSet(LAMBDA c : Distance(counts[part][c] * rows,
                                                     whole(c) * size(part)), Codes(table))
  IN [over  |-> MapThenSumSet(LAMBDA part : one(part) * others(part), Partitions),
      under |-> rows * Product(size, Partitions)]

\* Ties are broken by the folds themselves: training first, ascending.
Rank(pair) ==
  LET rest == Folds \ {pair[1], pair[2]}
      low == CHOOSE f \in rest : \A g \in rest : f <= g
      high == CHOOSE f \in rest : \A g \in rest : g <= f
      middle == CHOOSE f \in rest : f \notin {low, high}
  IN 625 * low + 125 * middle + 25 * high + 5 * pair[1] + pair[2]

Before(table, x, y) ==
  LET a == ClassScore(table, x) b == ClassScore(table, y)
  IN \/ SizeScore(table, x) < SizeScore(table, y)
     \/ /\ SizeScore(table, x) = SizeScore(table, y)
        /\ \/ a.over * b.under < b.over * a.under
           \/ a.over * b.under = b.over * a.under /\ Rank(x) < Rank(y)

Best(table, candidates) ==
  IF candidates = {} THEN NoPair
  ELSE CHOOSE x \in candidates : \A y \in candidates \ {x} : Before(table, x, y)

\* No partition may be empty, and of the counts of each partition there must be
\* two, which there are in any table with two codes.
Admissible(table, pair) ==
  /\ \A part \in Partitions : Size(table, pair, part) > 0
  /\ \A part \in Partitions : Cardinality(DOMAIN ClassCounts(table, pair)[part]) >= 2

SelectFoldAssignment(table) == Best(table, {pair \in Pairs : Admissible(table, pair)})

GroupStatistics(table, labels) ==
  LET group == GroupIds(table)
      groups == {group[r] : r \in DOMAIN table}
      rows(g) == {r \in DOMAIN table : group[r] = g}
      many(f(_)) == Cardinality({g \in groups : Cardinality({f(r) : r \in rows(g)}) > 1})
  IN [total       |-> Cardinality(groups),
      duplicate   |-> many(LAMBDA r : r),
      largest     |-> Max({Cardinality(rows(g)) : g \in groups}),
      conflicting |-> many(LAMBDA r : table[r].code),
      crossing    |-> many(LAMBDA r : labels[r])]

\* The audit's, which also counts the rows that have a twin, label included.
GroupAudit(table, labels) ==
  [statistics |-> GroupStatistics(table, labels),
   twins |-> Cardinality({r \in DOMAIN table : \E s \in DOMAIN table \ {r} :
               /\ GroupIds(table)[r] = GroupIds(table)[s]
               /\ table[r].code = table[s].code})]

\* What is demanded of any assignment: rows of one group share a partition.
ValidateSplitAssignments(table, labels) ==
  /\ DOMAIN labels = DOMAIN table
  /\ {labels[r] : r \in DOMAIN table} \subseteq Partitions
  /\ GroupStatistics(table, labels).crossing = 0
=============================================================================

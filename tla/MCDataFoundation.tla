--------------------------- MODULE MCDataFoundation ---------------------------
\* A small instance of DataFoundation: the recorded version, another sound one
\* with the same labels, and one that fails the validation of the source.
EXTENDS DataFoundation, TLC

McInvocations == {{}, {"force"}, {"validate_only"}}

\* Seven rows, three of which share a group although a missing value is written
\* in two ways; the second version differs in a value that changes a fold, the
\* third in the labels.
Row(type, value, code) ==
  [predictors |-> <<[type |-> type, value |-> value]>>, fold |-> value % 5, code |-> code]
McRows == <<Row("nan", 0, 0), Row("none", 0, 0), Row("nan", 0, 1), Row("float", 1, 0),
            Row("float", 2, 1), Row("float", 3, 0), Row("float", 4, 1)>>
McTableOf == <<McRows, [McRows EXCEPT ![4] = Row("float", 7, 0)],
               [r \in DOMAIN McRows |-> [McRows[r] EXCEPT !.code = 0]]>>
McSymmetry == Permutations(Programs)
=============================================================================

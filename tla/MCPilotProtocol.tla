--------------------------- MODULE MCPilotProtocol ---------------------------
(* Five datasets of the registry with their real metadata, four of them to    *)
(* select, two to a stage; one foundation model and one classical one.        *)
EXTENDS PilotProtocol, TLC

CONSTANTS f, g

FreezerSymmetry == Permutations({f, g})

Record(rows, numeric, categorical, classes, largest, missing, duplicates) ==
  [rows |-> rows, features |-> numeric + categorical, numeric |-> numeric,
   categorical |-> categorical, classes |-> classes, largestClass |-> largest,
   missing |-> missing, duplicates |-> duplicates, train |-> (3 * rows) \div 5]

MCRegistry == {36, 37, 38, 46, 1464}

MCMeta ==
  [d \in MCRegistry |->
     CASE d = 36 -> Record(2310, 19, 0, 7, 330, 0, 222)
       [] d = 37 -> Record(768, 8, 0, 2, 500, 0, 0)
       [] d = 38 -> Record(3772, 7, 22, 2, 3541, 1, 33)
       [] d = 46 -> Record(3190, 0, 60, 3, 1655, 0, 125)
       [] d = 1464 -> Record(748, 4, 0, 2, 570, 0, 69)]

MCPolicy ==
  [smallRows |-> 1000, balancedPercent |-> 70, substantialPercent |-> 50,
   maxRows |-> 6000, maxFeatures |-> 100, maxClasses |-> 10, maxTrain |-> 5000,
   required |-> {"numeric_only", "mixed_numeric_categorical", "substantial_categorical",
                 "high_dimensional", "high_cardinality_categorical", "missing_values",
                 "binary", "multiclass", "small", "medium", "balanced", "imbalanced"},
   preferredWall |-> 60, hardWall |-> 60, preferredBytes |-> 1000]

MCSeconds == [m \in {"LR-1.9", "TICL2-2.2"} |-> IF m = "LR-1.9" THEN 1 ELSE 2]
MCWeight == [d \in MCRegistry |-> CASE d \in {36, 38} -> 3 [] d = 46 -> 4 [] OTHER -> 1]
MCBytes == [d \in MCRegistry |-> 1]

\* V01 needs a numeric column, which dataset 46 has not; an inventory that
\* finds the view applicable there has not the accepted counts.
MCApplicabilities ==
  {[d \in MCRegistry |-> IF d = 46 THEN {"V00"} ELSE {"V00", "V01"}],
   [d \in MCRegistry |-> {"V00", "V01"}]}
=============================================================================

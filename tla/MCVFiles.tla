------------------------------- MODULE MCVFiles -------------------------------
(* Values for TLC.                                                          *)
EXTENDS VFiles, TLC

CONSTANTS n1, n2, n3

(* Two spellings of one name and another name.                             *)
MCNames == {n1, n2, n3}
MCFold == [n \in MCNames |-> IF n = n3 THEN n3 ELSE n1]
MCDirs == {<<>>} \cup [1 .. 1 -> MCNames]
MCBuckets == {1, 2}

(* The spellings meet in one place.                                        *)
MCMeet == [n \in MCNames |-> IF n = n3 THEN 2 ELSE 1]

(* No other operator than Fold and Bucket tells the two spellings apart,   *)
(* and for these they are one where they meet.                             *)
Symmetry == Permutations({n1, n2})

(* The second spelling has the place of the other name.                    *)
MCApart == [n \in MCNames |-> IF n = n1 THEN 1 ELSE 2]

=============================================================================

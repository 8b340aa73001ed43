------------------------------ MODULE MCFatFile ------------------------------
(* FatFile for TLC: a directory of clusters 1..3 and two files of one      *)
(* cluster each; the second disk has one slot more in use.                 *)
EXTENDS FatFile, TLC

CONSTANTS f1, f2

Old == <<"old">>

Fat == [c \in FatIndex \cup {LastChain} |-> IF c \in {0, 3, 4, 5, LastChain} THEN LastChain
                                ELSE IF c \in 1 .. 2 THEN c + 1 ELSE FreeEntry]

DataOf(slots) ==
    [c \in FatIndex |-> [i \in 1 .. ClusterUnits |->
        LET k == (c - 1) * ClusterUnits + i
        IN  IF k \in DOMAIN slots THEN slots[k] ELSE IF c \in {4, 5} THEN Old ELSE Zero]]

Short == <<ShortEnt(f1, 4, 1), ShortEnt(f2, 5, 2)>>
Long == <<ShortEnt(f1, 4, 1), LongEnt(f2), ShortEnt(f2, 5, 2)>>

MCDisks == {[fat |-> Fat, data |-> DataOf(e)] : e \in {Short, Long}}
MCPlaces == {0}

Symmetry == Permutations(FDs)

=============================================================================

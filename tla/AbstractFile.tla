----------------------------- MODULE AbstractFile -----------------------------
(***************************************************************************)
(* What files promise: a file is a sequence of units, a handle is a place  *)
(* in it.  A read gives the units from there on, as many as there are; a   *)
(* write changes the units it counts, all of them, and nothing else in     *)
(* this or another file.  A write may count less than it was asked for,    *)
(* and may leave the file longer than what it counts: what is there then   *)
(* nobody has written.  Opening and closing change no file.                *)
(***************************************************************************)
EXTENDS Integers, Sequences

CONSTANTS Files, Handles,
          NoFile,       \* the file of a handle that is closed
          Written,      \* a unit that a write writes
          MaxIO         \* units of one read or write

VARIABLES content,      \* content[f]: the units of file f
          file, at,     \* file[h], at[h]: the file and the place of handle h
          got           \* what the last step read

fileVars == <<content, file, at, got>>

FileInit ==
    /\ DOMAIN content = Files
    /\ file = [h \in Handles |-> NoFile]
    /\ at = [h \in Handles |-> 0]
    /\ got = <<>>

OpenFile(h) ==
    /\ file[h] = NoFile
    /\ \E f \in Files : file' = [file EXCEPT ![h] = f]
    /\ at' = [at EXCEPT ![h] = 0]
    /\ got' = <<>>
    /\ UNCHANGED content

CloseFile(h) ==
    /\ file' = [file EXCEPT ![h] = NoFile]
    /\ at' = [at EXCEPT ![h] = 0]
    /\ got' = <<>>
    /\ UNCHANGED content

\* The units of a write that counts k from place p on, and the others.
Overwritten(c, p, k, d) ==
    /\ Len(d) >= Len(c) /\ Len(d) >= p + k
    /\ \A i \in 1 .. Len(d) :
        IF i \in p + 1 .. p + k THEN d[i] = Written ELSE i <= Len(c) => d[i] = c[i]

WriteFile(h) ==
    /\ file[h] # NoFile
    /\ UNCHANGED file
    /\ got' = <<>>
    /\ \E k \in 0 .. MaxIO :
        /\ at' = [at EXCEPT ![h] = @ + k]
        /\ \E c \in {content[file[h]]}, d \in {content'[file[h]]} :
            Overwritten(c, at[h], k, d)
    /\ DOMAIN content' = Files
    /\ \A f \in Files \ {file[h]} : content'[f] = content[f]

ReadFile(h) ==
    /\ file[h] # NoFile
    /\ UNCHANGED file
    /\ \E c \in {content[file[h]]}, n \in 1 .. MaxIO :
        LET end == IF at[h] + n < Len(c) THEN at[h] + n ELSE Len(c)
        IN  /\ at' = [at EXCEPT ![h] = end]
            /\ got' = SubSeq(c, at[h] + 1, end)
    /\ UNCHANGED content

SeekFile(h) ==
    /\ file[h] # NoFile
    /\ UNCHANGED file
    /\ got' = <<>>
    /\ \E p \in 0 .. Len(content[file[h]]) : at' = [at EXCEPT ![h] = p]
    /\ UNCHANGED content

FileNext ==
    \/ \E h \in Handles :
        OpenFile(h) \/ CloseFile(h) \/ WriteFile(h) \/ ReadFile(h) \/ SeekFile(h)
    \/ got' = <<>> /\ UNCHANGED <<file, at, content>>

FileSpec == FileInit /\ [][FileNext]_fileVars

=============================================================================

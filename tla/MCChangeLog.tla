---------------------------- MODULE MCChangeLog ----------------------------
EXTENDS ChangeLog

Symmetry == Permutations(Keys) \cup Permutations(Ctids) \cup Permutations(Xids)

\* The properties speak of sound states only; the others need no successors.
Sound == sound

\* The source is ahead: its records reach the transcoder in one burst.
Burst == pos = 0 \/ Len(wal) = MaxRecords
=============================================================================

---------------------------- MODULE LakeContract ----------------------------
(***************************************************************************)
(* What the lake promises its readers, without processes, buffers or       *)
(* crashes: every table of the lake is the source table as of one commit   *)
(* LSN, its mark.  A mark moves forward only; when it moves, exactly the   *)
(* transactions committed since the old mark appear, each of them whole.   *)
(***************************************************************************)
EXTENDS Naturals

CONSTANT Tables

VARIABLES
    committed,  \* table |-> changes committed at the source, with commit LSN
    mark,       \* table |-> LSN the lake table is current as of
    base,       \* table |-> LSN of the image the lake table began with
    published   \* table |-> changes the lake table has on top of its image

vars == <<committed, mark, base, published>>

Between(t, low, high) == {r \in committed[t] : low < r.at /\ r.at <= high}

Init ==
    /\ committed = [t \in Tables |-> {}]
    /\ mark = [t \in Tables |-> 0]
    /\ base = [t \in Tables |-> 0]
    /\ published = [t \in Tables |-> {}]

\* One source transaction commits: its changes carry an LSN of their own that
\* is above the mark of every table it touched.
Commit ==
    /\ \A t \in Tables : committed[t] \subseteq committed'[t]
    /\ \A t \in Tables : \A r \in committed'[t] \ committed[t] : mark[t] < r.at
    /\ \A t, u \in Tables :
          \A r \in committed'[t] \ committed[t], s \in committed'[u] \ committed[u] :
              r.at = s.at
    /\ UNCHANGED <<mark, base, published>>

\* A table that has published nothing takes the image of the source as of m.
Image(t) ==
    /\ published[t] = {}
    /\ \E m \in {mark'[t]} :
          /\ mark[t] <= m
          /\ mark' = [mark EXCEPT ![t] = m]
          /\ base' = [base EXCEPT ![t] = m]
    /\ UNCHANGED <<committed, published>>

\* A table catches up with the source as of m.
Publish(t) ==
    /\ \E m \in {mark'[t]} :
          /\ mark[t] < m
          /\ mark' = [mark EXCEPT ![t] = m]
          /\ published' = [published EXCEPT ![t] = @ \cup Between(t, mark[t], m)]
    /\ UNCHANGED <<committed, base>>

Next == Commit \/ \E t \in Tables : Image(t) \/ Publish(t)

Spec == Init /\ [][Next]_vars
=============================================================================

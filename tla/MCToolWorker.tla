---------------------------- MODULE MCToolWorker ----------------------------
(***************************************************************************)
(* Small instances of ToolWorker for TLC.                                  *)
(***************************************************************************)
EXTENDS ToolWorker, TLC

CONSTANTS i1, i2, i3, p1, p2, p3, w1, w2, s1, s2

\* i2 needs i1.
Chain == i1 :> {} @@ i2 :> {i1}

\* i3 needs both of the others.
Join == i1 :> {} @@ i2 :> {i1} @@ i3 :> {i1, i2}

Independent == [i \in Invocations |-> {}]

OneWorker == [p \in Passes |-> w1]

OneStore == [w \in Workers |-> s1]

AllTogether == {Passes}

\* Two passes race, or one is cancelled and started again.
RaceOrStop == {{p1, p2}, {p3}}

FirstPreloaded == <<i1>>
AllPreloaded == <<i2, i3, i1>>
=============================================================================

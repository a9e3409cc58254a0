----------------------------- MODULE MCScheduler -----------------------------
(***************************************************************************)
(* Instances of Scheduler for TLC: three hands of one hash key, two of     *)
(* which have one spare key as well, and one hand of its own.              *)
(***************************************************************************)
EXTENDS Scheduler

CONSTANTS h1, h2, h3, h4, c1, c2, t1, t2

FourHands == {h1, h2, h3, h4}
MCKey == [h \in FourHands |-> IF h = h4 THEN 1 ELSE 0]
MCSpare == [h \in FourHands |-> IF h = h3 THEN 2 ELSE 1]
OneCaller == {c1}
TwoCallers == {c1, c2}
TwoThreads == {t1, t2}
NoThreads == {}
OneStrain == {0}
UpToThree == 1..3
One == {1}
=============================================================================

-------------------------- MODULE MCSearchWindows --------------------------
(***************************************************************************)
(* Instances of SearchWindows for TLC.  The values straddle both first     *)
(* guesses (6 and 7) and include both ends of the window.                  *)
(***************************************************************************)
EXTENDS SearchWindows

CONSTANTS m1, m2, m3

ThreeMoves == {m1, m2, m3}
MCValues == {0, 1, 6, 7, 13}
MCTargets == {1, 6, 8, 13}
MCHints == {-1, 0, 6, 8, 13}
=============================================================================

----------------------------- MODULE TransTable -----------------------------
(***************************************************************************)
(* What a transposition table promises its search                          *)
(* (trans_table/trans_table.hpp): a lookup for a position may always miss, *)
(* and when it answers, the bound it answers with is true of that position *)
(* in the deal that is being solved.  The table may forget at any time.    *)
(*                                                                         *)
(* Both tables implement it, TableLarge.tla and TableSmall.tla.            *)
(***************************************************************************)
EXTENDS TableEntries

CONSTANTS
  Deals,     \* deals, each with its trump suit
  Value,     \* [Deals -> [positions its search meets -> tricks of hands 0, 2]]
  Limits     \* [Deals -> limits that its search asks about]

Meets(d) == DOMAIN Value[d]

VARIABLES deal, answer

NoAnswer == [says |-> "miss"]

(* Does an answer hold for the position it was given for? *)
Holds(d, a) ==
  /\ a.says = "lower" => Value[d][a.pos] > a.limit
  /\ a.says = "upper" => Value[d][a.pos] <= a.limit

Init == deal \in Deals /\ answer = NoAnswer

Answer ==
  \E p \in Meets(deal), limit \in Limits[deal], says \in {"lower", "upper"} :
    /\ answer' = [says |-> says, pos |-> p, limit |-> limit]
    /\ Holds(deal, answer')
    /\ UNCHANGED deal

Miss == answer' = NoAnswer /\ UNCHANGED deal

NewDeal == deal' \in Deals /\ answer' = NoAnswer

Next == Answer \/ Miss \/ NewDeal

Spec == Init /\ [][Next]_<<deal, answer>>
=============================================================================

------------------------------ MODULE Estimates ------------------------------
(***************************************************************************)
(* The tests that settle a node of the search without playing a card:      *)
(* QuickTricks and QuickTricksSecondHand count tricks that the side to     *)
(* play can cash at once, LaterTricksMIN and LaterTricksMAX tricks that    *)
(* its opponents cannot lose.                                              *)
(*                                                                         *)
(* A node is a position of Play with what else the tests read:             *)
(*   best[s], second[s]  the top two cards of a suit at the start of the   *)
(*                       trick, as [hand, rank]; NoOne when there is none  *)
(*   won, target         tricks of the side that maximises, and its goal   *)
(*   max                 the hands of that side                            *)
(*                                                                         *)
(* A test answers [cut, win]: whether it settles the node, and the cards   *)
(* by whose rank the node is then won, that is tpos.win_ranks[depth].      *)
(* Bit maps of one suit are compared by their highest card.                *)
(***************************************************************************)
EXTENDS Play, SequencesExt

NoTrump == 4
AllSuits == 0..3
NoOne == [hand |-> -1, rank |-> 0]

Lho(h)  == (h + 1) % 4
Pard(h) == (h + 2) % 4
Rho(h)  == (h + 3) % 4

Ranks(n, h, s) == {Rank(c) : c \in {d \in n.hands[h] : Suit(d) = s}}
Length(n, h, s) == Cardinality(Ranks(n, h, s))
Top(R) == IF R = {} THEN 0 ELSE Max(R)
Two(a, b) == Max({a, b})

(* rel[aggr].abs_rank[k][s]: the k-th highest card left in a suit. *)
RelRank(hands, s, k) ==
  LET held == {c \in UNION {hands[h] : h \in Hands} : Suit(c) = s}
      kth  == {c \in held : Cardinality({d \in held : Rank(d) > Rank(c)}) = k - 1}
  IN  IF kth = {} THEN NoOne
      ELSE LET c == CHOOSE d \in kth : TRUE
           IN  [hand |-> CHOOSE h \in Hands : c \in hands[h], rank |-> Rank(c)]

Card(s, r) == <<s, r.rank>>

(* The tricks that the side of h must take, of those that are left, to     *)
(* settle the node: the "cutoff".                                          *)
Need(n, h) == IF h \in n.max THEN n.target - n.won
              ELSE n.won - n.target + TricksLeft(n) + 1

(* A suit whose tricks a trump could take away. *)
Side(n, s) == n.trump # NoTrump /\ s # n.trump
CanRuff(n, h, s) == Side(n, s) /\ Ranks(n, h, s) = {} /\ Ranks(n, h, n.trump) # {}

-----------------------------------------------------------------------------
(* QuickTricks: a fold over the suits, trumps first. The account:          *)
(*   q, win    tricks counted, and the cards they need                     *)
(*   lho, rho  trumps the opponents hold once the counted tricks are drawn *)
(*             (lhoTrumpRanks, rhoTrumpRanks; 0 without trumps)            *)
(*   lowest    a ruff by partner was found (lowestQtricks)                 *)
(*   res       0: go on with this suit, 1: cutoff, 2: next suit            *)

SuitOrder(trump) ==
  LET others == SelectSeq(<<0, 1, 2, 3>>, LAMBDA s : s # trump)
  IN  IF trump = NoTrump THEN others ELSE <<trump>> \o others

(* The card by which partner can be reached, or NoOne. *)
Entry(n, h, s) ==
  LET b == n.best[s]  c == n.second[s]
  IN  IF \E o \in {Lho(h), Rho(h)} : CanRuff(n, o, s) THEN NoOne
      ELSE IF b.hand = Pard(h)
           THEN IF Ranks(n, h, s) # {} THEN b ELSE NoOne
      ELSE IF /\ c.hand = Pard(h) /\ b.hand = h
              /\ Length(n, h, s) >= 2 /\ Length(n, Pard(h), s) >= 2
           THEN c ELSE NoOne

CommSuits(n, h) == {s \in AllSuits \ {n.trump} : Entry(n, h, s) # NoOne}

(* commSuit, commRank: the suit tried first, trumps last; none: suit -1. *)
Comm(n, h) ==
  LET found == CommSuits(n, h)
      first == CHOOSE s \in found : \A t \in found : s <= t
  IN  IF found # {} THEN [suit |-> first, rank |-> Entry(n, h, first).rank]
      ELSE IF /\ n.trump # NoTrump /\ Ranks(n, h, n.trump) # {}
              /\ n.best[n.trump].hand = Pard(h)
           THEN [suit |-> n.trump, rank |-> n.best[n.trump].rank]
      ELSE [suit |-> -1, rank |-> 0]

(* Mutant of CommCard: the entry is not recorded. *)
NoCard(m) == {}
CommCard(m) == IF m.suit = -1 THEN {} ELSE {<<m.suit, m.rank>>}

Safe(n, a, s) == Side(n, s) => a.lho = 0 /\ a.rho = 0
Cut(a, q) == [a EXCEPT !.q = q, !.res = 1]
Count(n, h, a, k) ==
  IF a.q + k >= Need(n, h) THEN Cut(a, a.q + k) ELSE [a EXCEPT !.q = @ + k]
NextSuit(a) == IF a.res = 1 THEN a ELSE [a EXCEPT !.res = 2]
(* A round that nobody can follow to. *)
Never == 14

(* The opponents follow to the k-th round of s, or have no trumps. *)
Follow(n, h, a, s, k) ==
  Side(n, s) => /\ Length(n, Lho(h), s) >= k \/ a.lho = 0
                /\ Length(n, Rho(h), s) >= k \/ a.rho = 0

(* A trick for the cards t.cards, and the rest of the suit if it is short  *)
(* in the other hands. With t.draws the opponents follow in trumps.        *)
Stage(n, h, s, a, t) ==
  LET one  == Count(n, h, [a EXCEPT !.win = @ \cup t.cards], 1)
      left == [one EXCEPT !.lho = IF t.draws THEN Two(0, @ - 1) ELSE @,
                          !.rho = IF t.draws THEN Two(0, @ - 1) ELSE @]
  IN  IF a.res # 0 \/ ~Follow(n, h, a, s, t.round) THEN a
      ELSE IF one.res = 0 /\ t.short /\ Safe(n, a, s)
      THEN NextSuit(Count(n, h, left, t.rest))
      ELSE left

(* QtricksLeadHand{Trump,NT} with holder = h, and QuickTricksPartnerHand-  *)
(* {Trump,NT} with holder = Pard(h), which also need the entry m: the best *)
(* card of the suit, then the second or, with a tenace, the third.         *)
HighCards(n, h, m, a, s, holder) ==
  LET other == Pard(holder)
      mine  == Length(n, holder, s)
      his   == Length(n, other, s)
      Within(k) == Length(n, Lho(h), s) <= k /\ Length(n, Rho(h), s) <= k
      Trick(card, round, short, rest) ==
        [cards |-> {Card(s, card)} \cup IF holder = h THEN {} ELSE CommCard(m),
         draws |-> holder = h /\ s = n.trump /\ m.suit # s,
         round |-> round, short |-> short, rest |-> rest]
      c == n.second[s]
      d == RelRank(n.hands, s, 3)
      next == IF c.hand = holder
              THEN <<Trick(c, Never, Within(2) /\ his <= 2, mine - 2)>>
              ELSE IF c.hand = other /\ mine > 1 /\ his > 1
              THEN <<Trick(c, Never, Within(2) /\ (his <= 2 \/ mine <= 2),
                           Two(mine - 2, his - 2))>>
              ELSE IF /\ holder = Pard(h) /\ s = m.suit
                      /\ c.hand = Lho(h) /\ d.hand = holder
              THEN <<Trick(d, 2, Within(2) /\ his <= 2, mine - 2)>>
              ELSE <<>>
      first == Trick(n.best[s], 1, Within(1) /\ his <= 1, mine - 1)
  IN  FoldLeft(LAMBDA x, t : Stage(n, h, s, x, t), a, <<first>> \o next)

(* Partner ruffs a suit that it is void in, over every opponent that could *)
(* ruff too. That is one trick at most, whatever the suits counted.        *)
PartnerRuffs(n, h, a, s) ==
  LET opps   == {Lho(h), Rho(h)}
      rivals == UNION {Ranks(n, o, n.trump) : o \in {p \in opps : Ranks(n, p, s) = {}}}
      top    == Top(Ranks(n, Pard(h), n.trump))
      b      == [a EXCEPT !.lowest = TRUE,
                          !.win = @ \cup IF rivals = {} THEN {} ELSE {<<n.trump, top>>}]
  IN  IF /\ Side(n, s) /\ Ranks(n, h, s) # {} /\ ~a.lowest
         /\ a.q = 0 \/ {n.best[s].hand, n.best[n.trump].hand} \cap {h, Pard(h)} = {}
         /\ CanRuff(n, Pard(h), s)
         /\ Top(rivals) < top
      THEN IF Need(n, h) <= 1 THEN Cut(b, 1) ELSE b
      ELSE a

(* The suit s when an opponent holds it, or no sum below settles the node. *)
ContestedSuit(n, h, m, a, s) ==
  LET b == n.best[s].hand
      c == IF b = h \/ (b = Pard(h) /\ m.suit # -1) THEN HighCards(n, h, m, a, s, b) ELSE a
  IN  IF b = -1 \/ c.res # 0 THEN c ELSE PartnerRuffs(n, h, c, s)

QuickTricksSuit(n, h, m, a, s) ==
  LET own  == Length(n, h, s)
      part == Length(n, Pard(h), s)
      ours == Length(n, Lho(h), s) = 0 /\ Length(n, Rho(h), s) = 0
      z    == [a EXCEPT !.res = 0]
      zm   == [z EXCEPT !.win = @ \cup CommCard(m)]
      safe == Safe(n, z, s)
      (* one more trick in trumps: a ruff in the hand r with fewer of them *)
      Ruff(l, r) == IF \E t \in AllSuits \ {n.trump} :
                         Length(n, l, t) > 0 /\ Length(n, r, t) = 0 THEN 1 ELSE 0
      long  == Two(own, part) + IF own >= part THEN Ruff(h, Pard(h)) ELSE 0
      cross == Two(own, part) + IF own <= part THEN Ruff(Pard(h), h) ELSE 0
      both  == IF s = n.trump THEN long
               ELSE IF safe THEN Min({own, part}) ELSE 0
  IN  IF a.res = 1 THEN a
      ELSE IF ours /\ part = 0 THEN IF safe THEN Count(n, h, z, own) ELSE z
      ELSE IF ours /\ both >= Need(n, h) THEN Cut(z, both)
      ELSE IF ours /\ own = 0 /\ m.suit # -1
           THEN IF safe THEN Count(n, h, zm, part) ELSE z
      ELSE IF ours /\ s = n.trump /\ m.suit # -1 /\ cross >= Need(n, h)
           THEN Cut(zm, cross)
      ELSE ContestedSuit(n, h, m, z, s)

(* The hand to lead cashes; or, if it has nothing to cash and there are no *)
(* trumps, its opponents take the trick that it leads to.                  *)
(* "wins": the side that leads makes its tricks, otherwise the other does. *)
QuickTricks(n) ==
  LET h == n.first
      m == Comm(n, h)
      start == [q |-> 0, win |-> {}, lowest |-> FALSE, res |-> 0,
                lho |-> IF n.trump = NoTrump THEN 0 ELSE Length(n, Lho(h), n.trump),
                rho |-> IF n.trump = NoTrump THEN 0 ELSE Length(n, Rho(h), n.trump)]
      a == FoldLeft(LAMBDA x, s : QuickTricksSuit(n, h, m, x, s), start, SuitOrder(n.trump))
      noTrumps == n.trump = NoTrump \/ n.best[n.trump].hand = -1
      led == {s \in AllSuits : n.best[s].hand # -1 /\ Ranks(n, h, s) # {}}
      lost == a.res # 1 /\ a.q = 0 /\ noTrumps /\ Need(n, Lho(h)) <= 1
  IN  [cut |-> a.res = 1 \/ lost, wins |-> ~lost,
       win |-> IF lost THEN {c \in a.win : Suit(c) \notin led}
                            \cup {Card(s, n.best[s]) : s \in led}
               ELSE a.win]
(* The second hand: its side wins this trick, by rank or by a ruff that    *)
(* the third hand cannot overtake, and without trumps cashes on.           *)
QuickTricksSecondHand(n) ==
  LET h    == ToPlay(n)
      need == Need(n, h)
      ss   == Suit(n.trick[1])
      ruff == CanRuff(n, h, ss) \/ CanRuff(n, Pard(h), ss)
      high == Top(Ranks(n, h, ss) \cup Ranks(n, Pard(h), ss))
      sure == /\ ruff \/ high > Two(Rank(n.trick[1]), Top(Ranks(n, Lho(h), ss)))
              /\ ~CanRuff(n, Lho(h), ss)
      hh   == IF Top(Ranks(n, h, ss)) > Top(Ranks(n, Pard(h), ss)) THEN h ELSE Pard(h)
      Alone(s) == \A g \in Hands \ {hh} : Ranks(n, g, s) = {}
      Cash(a, s) ==
        IF a.q >= need THEN a
        ELSE IF s = ss
        THEN IF n.best[s].hand = hh /\ n.second[s].hand = hh
             THEN [q |-> a.q + 1, win |-> a.win \cup {Card(s, n.second[s])}] ELSE a
        ELSE IF Ranks(n, hh, s) = {} THEN a
        ELSE IF Alone(s) THEN [a EXCEPT !.q = @ + Length(n, hh, s)]
        ELSE IF n.best[s].hand = hh
             THEN [q |-> a.q + 1, win |-> a.win \cup {Card(s, n.best[s])}]
        ELSE a
      first == [q |-> 1, win |-> IF ruff THEN {} ELSE {<<ss, high>>}]
      a == IF n.trump # NoTrump THEN first
           ELSE FoldLeft(Cash, first, SuitOrder(ss))
  IN  [cut |-> sure /\ a.q >= need, win |-> a.win]

-----------------------------------------------------------------------------
(* LaterTricksMIN and LaterTricksMAX are one rule, for the opponents of    *)
(* the hand that leads, in two parts.                                      *)
Settled(win) == [cut |-> TRUE, win |-> win]
LaterOpen    == [cut |-> FALSE, win |-> {}]

(* Without trumps left: what the other side's suits can still lose.        *)
LaterSuitTricks(n) ==
  LET h    == n.first
      us   == {Lho(h), Rho(h)}
      need == Need(n, Lho(h))
      theirs == {s \in AllSuits : n.best[s].hand \in {h, Pard(h)}}
      (* the most tricks that the suits of the hand to lead can give it *)
      lose == MapThenSumSet(LAMBDA s : Two(Length(n, h, s), Length(n, Pard(h), s)), theirs)
      led  == {s \in AllSuits : /\ n.best[s].hand \in us
                               /\ \E g \in Hands \ {n.best[s].hand} : Ranks(n, g, s) # {}}
  IN  IF lose > 0 /\ TricksLeft(n) - lose >= need /\ need <= 1
      THEN Settled({Card(s, n.best[s]) : s \in led}) ELSE LaterOpen

(* With trumps left: their length, the best and the second best of them,   *)
(* or the third behind the second.                                         *)
LaterTrumpTricks(n) ==
  LET h    == n.first
      us   == {Lho(h), Rho(h)}
      need == Need(n, Lho(h))
      t    == n.trump
      best == n.best[t]
      c    == n.second[t]
      d    == RelRank(n.hands, t, 3)
  IN  IF best.hand \in us
      THEN IF Length(n, h, t) = 0 /\ Length(n, Pard(h), t) = 0
           THEN IF Two(Length(n, Lho(h), t), Length(n, Rho(h), t)) >= need
                THEN Settled({}) ELSE LaterOpen
           ELSE IF need <= 1 THEN Settled({Card(t, best)})
           ELSE IF /\ need = 2 /\ c.hand \in us
                   /\ Length(n, Lho(h), t) > 1 \/ Length(n, Rho(h), t) > 1
                THEN Settled({Card(t, c)}) ELSE LaterOpen
      ELSE IF c.hand \notin us \/ Length(n, c.hand, t) <= 1 \/ need > 1 THEN LaterOpen
      ELSE IF best.hand = Rho(c.hand) THEN Settled({Card(t, c)})
      ELSE IF d.hand \in us THEN Settled({Card(t, d)})
      ELSE LaterOpen

LaterTricks(n) ==
  IF n.trump = NoTrump \/ n.best[n.trump].rank = 0
  THEN LaterSuitTricks(n) ELSE LaterTrumpTricks(n)

(* evaluate_with_context: who wins the last trick, and by which card. *)
Evaluate(n) ==
  LET held   == UNION {n.hands[h] : h \in Hands}
      trumps == {c \in held : Suit(c) = n.trump}
      led    == Suit(CHOOSE c \in n.hands[n.first] : TRUE)
      cards  == IF trumps # {} THEN trumps ELSE {c \in held : Suit(c) = led}
      high   == CHOOSE c \in cards : \A d \in cards : Rank(d) <= Rank(c)
  IN  [hand |-> CHOOSE h \in Hands : high \in n.hands[h],
       win  |-> IF Cardinality(cards) >= 2 THEN {high} ELSE {}]
=============================================================================

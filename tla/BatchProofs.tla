----------------------------- MODULE BatchProofs -----------------------------
(***************************************************************************)
(* Machine-checked safety of Batch: for every number of threads, strains,  *)
(* deals, requests and tables, whatever fails.  First what the numbering   *)
(* of the boards is worth, then the invariant of the searches.             *)
(***************************************************************************)
EXTENDS Batch, FiniteSetTheorems, TLAPS

-----------------------------------------------------------------------------
(* Division, as \div and % compute it. *)
LEMMA Division ==
  ASSUME NEW k \in Nat, NEW n \in Nat \ {0}
  PROVE  /\ k \div n \in Nat
         /\ k % n \in 0..(n - 1)
         /\ k = n * (k \div n) + (k % n)
  OBVIOUS

LEMMA MultiplesAreApart ==
  ASSUME NEW n \in Nat, NEW a \in Nat, NEW b \in Nat, a < b
  PROVE  n * a + n <= n * b
  <1>1. PICK d \in Nat : b = a + 1 + d
    <2>1. b - a - 1 \in Nat /\ b = a + 1 + (b - a - 1)
      OBVIOUS
    <2> QED
      BY <2>1
  <1>2. n * b = n * a + n + n * d
    BY <1>1
  <1>3. n * d >= 0
    OBVIOUS
  <1> QED
    BY <1>2, <1>3

LEMMA QuotientAndRest ==
  ASSUME NEW n \in Nat \ {0}, NEW q \in Nat, NEW r \in 0..(n - 1)
  PROVE  (n * q + r) \div n = q /\ (n * q + r) % n = r
  <1> DEFINE k == n * q + r
  <1>1. k \in Nat
    OBVIOUS
  <1> HIDE DEF k
  <1> DEFINE p == k \div n
  <1>2. p \in Nat /\ k % n \in 0..(n - 1) /\ k = n * p + (k % n)
    BY <1>1, Division DEF p
  <1> HIDE DEF p
  <1>3. n * p + n <= n * q \/ n * q + n <= n * p \/ p = q
    BY <1>2, MultiplesAreApart
  <1>4. n * p \in Int /\ n * q \in Int
    BY <1>2
  <1>5. p = q
    BY <1>2, <1>3, <1>4 DEF k
  <1> QED
    BY <1>2, <1>5 DEF k, p

LEMMA QuotientBelow ==
  ASSUME NEW n \in Nat \ {0}, NEW l \in Nat, NEW k \in 0..(n * l - 1)
  PROVE  k \div n \in 0..(l - 1)
  <1> DEFINE p == k \div n
  <1>1. n * l \in Nat /\ k \in Nat /\ k < n * l
    OBVIOUS
  <1>2. p \in Nat /\ k % n \in 0..(n - 1) /\ k = n * p + (k % n)
    BY <1>1, Division
  <1> HIDE DEF p
  <1>3. n * p \in Nat
    BY <1>2
  <1>4. CASE l < p
    <2>1. n * l + n <= n * p
      BY <1>2, <1>4, MultiplesAreApart
    <2> QED
      BY <2>1, <1>1, <1>2, <1>3
  <1>5. CASE l = p
    BY <1>1, <1>2, <1>3, <1>5
  <1> QED
    BY <1>2, <1>4, <1>5 DEF p

-----------------------------------------------------------------------------
(* The order of the strains *)

Above(included, s) == {t \in included : t > s}
Rank(included, s) == Cardinality(Above(included, s))

LEMMA StrainsAreFinite ==
  ASSUME NEW included \in SUBSET Strains
  PROVE  IsFiniteSet(included) /\ Cardinality(included) \in Nat
  <1>1. IsFiniteSet(Strains)
    BY SizesAssumption, FS_Interval DEF Strains
  <1>2. IsFiniteSet(included)
    BY <1>1, FS_Subset
  <1> QED
    BY <1>2, FS_CardinalityType

LEMMA RankBelowCount ==
  ASSUME NEW included \in SUBSET Strains, NEW s \in included
  PROVE  Rank(included, s) \in 0..(Cardinality(included) - 1)
  <1>1. IsFiniteSet(included) /\ Cardinality(included) \in Nat
    BY StrainsAreFinite
  <1>2. /\ IsFiniteSet(included \ {s})
        /\ Cardinality(included \ {s}) = Cardinality(included) - 1
    BY <1>1, FS_RemoveElement
  <1>3. Above(included, s) \in SUBSET (included \ {s})
    BY SizesAssumption DEF Above, Strains
  <1>4. /\ IsFiniteSet(Above(included, s))
        /\ Cardinality(Above(included, s)) <= Cardinality(included) - 1
    BY <1>2, <1>3, FS_Subset
  <1>5. Cardinality(Above(included, s)) \in Nat
    BY <1>4, FS_CardinalityType
  <1> QED
    BY <1>1, <1>4, <1>5 DEF Rank

LEMMA RanksDiffer ==
  ASSUME NEW included \in SUBSET Strains, NEW s \in included, NEW t \in included,
         s < t
  PROVE  Rank(included, t) < Rank(included, s)
  <1>1. IsFiniteSet(included) /\ s \in Int /\ t \in Int
    BY StrainsAreFinite, SizesAssumption DEF Strains
  <1>2. Above(included, s) \in SUBSET included
    BY DEF Above
  <1>3. IsFiniteSet(Above(included, s)) /\ Rank(included, s) \in Nat
    BY <1>1, <1>2, FS_Subset, FS_CardinalityType DEF Rank
  <1>4. t \in Above(included, s)
    BY DEF Above
  <1>5. /\ IsFiniteSet(Above(included, s) \ {t})
        /\ Cardinality(Above(included, s) \ {t}) = Rank(included, s) - 1
    BY <1>3, <1>4, FS_RemoveElement DEF Rank
  <1>6. Above(included, t) \in SUBSET (Above(included, s) \ {t})
    <2>1. ASSUME NEW u \in included, u > t
          PROVE  u > s /\ u # t
      <3>1. u \in Int
        BY SizesAssumption DEF Strains
      <3> QED
        BY <1>1, <2>1, <3>1
    <2> QED
      BY <2>1 DEF Above
  <1>7. /\ Cardinality(Above(included, t)) <= Rank(included, s) - 1
        /\ IsFiniteSet(Above(included, t))
    BY <1>5, <1>6, FS_Subset
  <1>8. Cardinality(Above(included, t)) \in Nat
    BY <1>7, FS_CardinalityType
  <1> QED
    BY <1>3, <1>7, <1>8 DEF Rank

(* Strain numbers the strains that are included: the strain of each index  *)
(* is the one with so many strains above it, and every strain has one.     *)
LEMMA StrainOfRank ==
  ASSUME NEW included \in SUBSET Strains, NEW s \in included
  PROVE  Strain(included, Rank(included, s)) = s
  <1> DEFINE index == Rank(included, s)
             Is(t) == t \in included /\ Rank(included, t) = index
  <1>1. \A t \in included : Rank(included, t) = index => t = s
    <2> SUFFICES ASSUME NEW t \in included, Rank(included, t) = index, t # s
                 PROVE  FALSE
      OBVIOUS
    <2>1. s \in Int /\ t \in Int
      BY SizesAssumption DEF Strains
    <2>2. Rank(included, s) \in Nat /\ Rank(included, t) \in Nat
      BY RankBelowCount, StrainsAreFinite
    <2>3. CASE s < t
      BY <2>2, <2>3, RanksDiffer
    <2>4. CASE t < s
      BY <2>2, <2>4, RanksDiffer
    <2> QED
      BY <2>1, <2>3, <2>4
  <1>2. Strain(included, index) = CHOOSE t \in included : Rank(included, t) = index
    BY DEF Strain, Rank, Above
  <1>3. \E t \in included : Rank(included, t) = index
    OBVIOUS
  <1> QED
    BY <1>1, <1>2, <1>3

LEMMA EveryIndexHasAStrain ==
  ASSUME NEW included \in SUBSET Strains,
         NEW index \in 0..(Cardinality(included) - 1)
  PROVE  /\ Strain(included, index) \in included
         /\ Rank(included, Strain(included, index)) = index
  <1> DEFINE n == Cardinality(included)
             ranks == [s \in included |-> Rank(included, s)]
  <1>1. IsFiniteSet(included) /\ n \in Nat
    BY StrainsAreFinite
  <1>2. /\ IsFiniteSet(0..(n - 1))
        /\ Cardinality(0..(n - 1)) = n
    BY <1>1, FS_Interval
  <1>3. ranks \in [included -> 0..(n - 1)]
    BY RankBelowCount
  <1>4. \A s, t \in included : ranks[s] = ranks[t] => s = t
    BY StrainOfRank
  <1>5. ranks \in Injection(included, 0..(n - 1))
    BY <1>3, <1>4 DEF Injection, IsInjective
  <1>6. ranks \in Surjection(included, 0..(n - 1))
    BY <1>1, <1>2, <1>5, FS_Injection
  <1>7. PICK s \in included : ranks[s] = index
    BY <1>6 DEF Surjection
  <1> QED
    BY <1>7, StrainOfRank

-----------------------------------------------------------------------------
(* Requests and their boards *)

Served(r) ==
  /\ r \in RequestSet
  /\ Len(r.deals) <= MaxTables
  /\ r.entry \in {"table", "context"} => Len(r.deals) = 1 /\ r.filter = {}

LEMMA RequestsAreServed ==
  ASSUME NEW k \in DOMAIN Requests, NEW r \in Requests[k]
  PROVE  Served(r)
  <1>1. Requests[k] \in SUBSET RequestSet
    BY RequestsAssumption
  <1> QED
    BY <1>1, RequestsAssumption DEF Served

LEMMA RequestFacts ==
  ASSUME NEW r, Served(r)
  PROVE  /\ r.entry \in TableEntries \union SolveEntries
         /\ r.deals \in Seq(Deals)
         /\ Len(r.deals) \in Nat
         /\ Included(r) \in SUBSET Strains
         /\ Cardinality(Included(r)) \in Nat
         /\ BoardCount(r) \in Nat
         /\ Asked(r) \subseteq TableNumbers
  <1>1. r \in RequestSet /\ Len(r.deals) <= MaxTables
    BY DEF Served
  <1>2. r.entry \in TableEntries \union SolveEntries /\ r.deals \in Seq(Deals)
    BY <1>1 DEF RequestSet
  <1>3. Len(r.deals) \in Nat
    BY <1>2
  <1>4. Included(r) \in SUBSET Strains
    BY DEF Included
  <1>5. Cardinality(Included(r)) \in Nat
    BY <1>4, StrainsAreFinite
  <1>6. Cardinality(Included(r)) * Len(r.deals) \in Nat
    BY <1>3, <1>5
  <1>7. BoardCount(r) \in Nat
    BY <1>3, <1>6 DEF BoardCount
  <1>8. Asked(r) \subseteq TableNumbers
    BY <1>1, <1>3, SizesAssumption DEF Asked, TableNumbers
  <1> QED
    BY <1>2, <1>3, <1>4, <1>5, <1>7, <1>8

LEMMA EntriesDiffer == TableEntries \intersect SolveEntries = {}
  BY DEF TableEntries, SolveEntries

(* A table calculation that was not refused has strains to compute. *)
LEMMA StrainsAreAsked ==
  ASSUME NEW r, Served(r), r.entry \in TableEntries, r.deals # <<>>,
         Refusal(r) = NoFault
  PROVE  Included(r) # {} /\ Cardinality(Included(r)) \in Nat \ {0}
  <1>1. ASSUME r.entry \in {"table", "context"} PROVE Included(r) # {}
    <2>1. r.filter = {}
      BY <1>1 DEF Served
    <2>2. 0 \in Strains
      BY SizesAssumption DEF Strains
    <2> QED
      BY <2>1, <2>2 DEF Included
  <1>2. ASSUME r.entry \in {"tables", "tablesX"} PROVE Included(r) # {}
    BY <1>2 DEF Refusal, NoFault
  <1>4. Included(r) # {}
    BY <1>1, <1>2 DEF TableEntries
  <1>5. IsFiniteSet(Included(r)) /\ Cardinality(Included(r)) \in Nat
    BY RequestFacts, StrainsAreFinite
  <1> QED
    BY <1>4, <1>5, FS_EmptySet

(* The board of a strain of a table. *)
BoardOf(r, m, s) == Cardinality(Included(r)) * m + Rank(Included(r), s)

LEMMA BoardOfStrain ==
  ASSUME NEW r, Served(r), r.entry \in TableEntries,
         NEW m \in Asked(r), NEW s \in Included(r)
  PROVE  /\ BoardOf(r, m, s) \in BoardsOfTable(r, m)
         /\ BoardOf(r, m, s) \in 0..(BoardCount(r) - 1)
         /\ BoardsOf(r)[BoardOf(r, m, s)] = [deal |-> r.deals[m + 1], trump |-> s]
  <1> DEFINE n == Cardinality(Included(r))
             l == Len(r.deals)
             i == Rank(Included(r), s)
             b == n * m + i
  <1>1. n \in Nat /\ l \in Nat /\ Included(r) \in SUBSET Strains
    BY RequestFacts
  <1>2. i \in 0..(n - 1)
    BY <1>1, RankBelowCount
  <1>3. m \in Nat /\ m < l
    BY <1>1 DEF Asked
  <1>4. BoardCount(r) = n * l
    BY EntriesDiffer DEF BoardCount
  <1>5. BoardOf(r, m, s) = b
    BY DEF BoardOf
  <1>6. Strain(Included(r), i) = s
    BY <1>1, StrainOfRank
  <1>7. BoardsOfTable(r, m) = (m * n)..(m * n + n - 1)
    BY DEF BoardsOfTable
  <1> HIDE DEF n, l, i
  <1>8. m * n = n * m /\ n * m \in Nat /\ n \in Nat \ {0}
    BY <1>1, <1>2, <1>3
  <1>9. b \in Nat
    BY <1>2, <1>8
  <1>10. b \div n = m /\ b % n = i
    BY <1>2, <1>3, <1>8, QuotientAndRest
  <1>11. n * m + n <= n * l
    BY <1>1, <1>3, MultiplesAreApart
  <1>12. n * l \in Nat
    BY <1>1
  <1>13. b \in 0..(n * l - 1)
    BY <1>2, <1>8, <1>9, <1>11, <1>12
  <1>14. b \in (m * n)..(m * n + n - 1)
    BY <1>2, <1>8
  <1>15. BoardsOf(r)[b] = [deal |-> r.deals[(b \div n) + 1],
                           trump |-> Strain(Included(r), b % n)]
    BY <1>4, <1>13, EntriesDiffer DEF BoardsOf, n
  <1> QED
    BY <1>4, <1>5, <1>6, <1>7, <1>10, <1>13, <1>14, <1>15 DEF i

LEMMA StrainOfBoard ==
  ASSUME NEW r, Served(r), r.entry \in TableEntries,
         NEW m \in Asked(r), NEW b \in BoardsOfTable(r, m)
  PROVE  \E s \in Included(r) : b = BoardOf(r, m, s)
  <1> DEFINE n == Cardinality(Included(r))
             j == b - n * m
  <1>1. n \in Nat /\ Included(r) \in SUBSET Strains /\ m \in Nat
    BY RequestFacts DEF Asked
  <1>2. b \in (m * n)..(m * n + n - 1)
    BY DEF BoardsOfTable
  <1>3. m * n = n * m /\ n * m \in Nat
    BY <1>1
  <1>4. j \in 0..(n - 1) /\ b = n * m + j
    BY <1>1, <1>2, <1>3
  <1>5. /\ Strain(Included(r), j) \in Included(r)
        /\ Rank(Included(r), Strain(Included(r), j)) = j
    BY <1>1, <1>4, EveryIndexHasAStrain
  <1> QED
    BY <1>4, <1>5 DEF BoardOf

(* The boards of a call: numbered from 0, each with a deal and a trump.    *)
LEMMA BoardsAreTyped ==
  ASSUME NEW r, Served(r), Refusal(r) = NoFault
  PROVE  /\ DOMAIN BoardsOf(r) = 0..(BoardCount(r) - 1)
         /\ \A b \in DOMAIN BoardsOf(r) : BoardsOf(r)[b] \in Boards
  <1>1. DOMAIN BoardsOf(r) = 0..(BoardCount(r) - 1)
    BY DEF BoardsOf
  <1>2. CASE r.entry \in SolveEntries
    <2>1. BoardCount(r) = Len(r.deals)
      BY <1>2 DEF BoardCount
    <2>2. 0 \in Strains
      BY SizesAssumption DEF Strains
    <2>3. ASSUME NEW b \in 0..(BoardCount(r) - 1)
          PROVE  BoardsOf(r)[b] \in Boards
      <3>1. r.deals[b + 1] \in Deals
        BY <2>1, RequestFacts
      <3>2. BoardsOf(r)[b] = [deal |-> r.deals[b + 1], trump |-> 0]
        BY <1>2 DEF BoardsOf
      <3> QED
        BY <2>2, <3>1, <3>2 DEF Boards
    <2> QED
      BY <1>1, <2>3
  <1>3. CASE r.entry \in TableEntries
    <2> SUFFICES ASSUME NEW b \in 0..(BoardCount(r) - 1)
                 PROVE  BoardsOf(r)[b] \in Boards
      BY <1>1
    <2> DEFINE n == Cardinality(Included(r))
               l == Len(r.deals)
    <2>1. n \in Nat /\ l \in Nat /\ Included(r) \in SUBSET Strains
      BY RequestFacts
    <2>2. BoardCount(r) = n * l
      BY <1>3, EntriesDiffer DEF BoardCount
    <2>3. n # 0 /\ b \in Nat
      BY <2>1, <2>2, RequestFacts
    <2>4. b \div n \in 0..(l - 1)
      BY <2>1, <2>2, <2>3, QuotientBelow
    <2>5. b % n \in 0..(n - 1)
      BY <2>1, <2>3, Division
    <2>6. Strain(Included(r), b % n) \in Strains
      BY <2>1, <2>5, EveryIndexHasAStrain
    <2>7. r.deals[(b \div n) + 1] \in Deals
      BY <2>1, <2>4, RequestFacts
    <2>8. BoardsOf(r)[b] = [deal |-> r.deals[(b \div n) + 1],
                            trump |-> Strain(Included(r), b % n)]
      BY <1>3, EntriesDiffer DEF BoardsOf
    <2> QED
      BY <2>6, <2>7, <2>8 DEF Boards
  <1> QED
    BY <1>1, <1>2, <1>3, RequestFacts

LEMMA FilledIsTyped ==
  ASSUME NEW r, Served(r), Refusal(r) = NoFault, NEW bs \in Filled(r)
  PROVE  /\ Cardinality(DOMAIN bs) \in Nat
         /\ DOMAIN bs = 0..(Cardinality(DOMAIN bs) - 1)
         /\ \A b \in DOMAIN bs : bs[b] \in Boards
         /\ ~(r.entry = "tables" /\ r.deals = <<>>) =>
              bs = BoardsOf(r) /\ Cardinality(DOMAIN bs) = BoardCount(r)
  <1>1. CASE r.entry = "tables" /\ r.deals = <<>>
    <2>1. PICK deal \in Deals, trump \in Strains :
            bs = [k \in {0} |-> [deal |-> deal, trump |-> trump]]
      BY <1>1 DEF Filled
    <2>2. DOMAIN bs = {0} /\ bs[0] \in Boards
      BY <2>1 DEF Boards
    <2>3. Cardinality({0}) = 1 /\ {0} = 0..(1 - 1)
      BY FS_Singleton
    <2> QED
      BY <1>1, <2>2, <2>3
  <1>2. CASE ~(r.entry = "tables" /\ r.deals = <<>>)
    <2>1. bs = BoardsOf(r)
      BY <1>2 DEF Filled
    <2>2. BoardCount(r) \in Nat
      BY RequestFacts
    <2>3. Cardinality(0..(BoardCount(r) - 1)) = BoardCount(r)
      BY <2>2, FS_Interval
    <2> QED
      BY <2>1, <2>2, <2>3, BoardsAreTyped
  <1> QED
    BY <1>1, <1>2

-----------------------------------------------------------------------------
(* From scores to tables *)

LEMMA LeaderOfDeclarer ==
  ASSUME NEW declarer \in Hands
  PROVE  /\ (declarer + 1) % 4 \in Hands
         /\ (CHOOSE first \in Hands : rho[first] = declarer) = (declarer + 1) % 4
  <1>1. /\ (declarer + 1) % 4 \in Hands
        /\ rho[(declarer + 1) % 4] = declarer
    BY DEF Hands, rho
  <1>2. \A first \in Hands : rho[first] = declarer => first = (declarer + 1) % 4
    BY DEF Hands, rho
  <1> QED
    BY <1>1, <1>2

(* The values of a deal and its table have their types. *)
LEMMA ValueType ==
  ASSUME NEW deal \in Deals, NEW strain \in Strains
  PROVE  /\ \A first \in Hands : Value[deal][strain][first] \in Tricks
         /\ DoubleDummy(deal)[strain] \in [Hands -> Tricks]
         /\ \A declarer \in Hands :
              DoubleDummy(deal)[strain][declarer] =
                13 - Value[deal][strain][(declarer + 1) % 4]
  <1>1. \A first \in Hands : Value[deal][strain][first] \in Tricks
    BY DealsAssumption
  <1>2. DoubleDummy(deal)[strain] =
          [declarer \in Hands |-> 13 - Value[deal][strain][(declarer + 1) % 4]]
    BY DEF DoubleDummy
  <1>3. ASSUME NEW declarer \in Hands
        PROVE  13 - Value[deal][strain][(declarer + 1) % 4] \in Tricks
    <2>1. Value[deal][strain][(declarer + 1) % 4] \in Tricks
      BY <1>1, LeaderOfDeclarer
    <2> QED
      BY <2>1 DEF Tricks
  <1> QED
    BY <1>1, <1>2, <1>3

(* Every board of the call has the score of every leader. *)
AllScored ==
  \A b \in DOMAIN boards, first \in Hands :
    scores[b][first] = Value[boards[b].deal][boards[b].trump][first]

(* A table filled from the right scores is right in the strains that were  *)
(* asked for, and unchanged in the others.                                 *)
LEMMA FilledRight ==
  ASSUME Served(call), call.entry \in TableEntries, Refusal(call) = NoFault,
         boards = BoardsOf(call), AllScored,
         NEW m \in Asked(call), NEW strain \in Strains
  PROVE  FilledTable(m)[strain] =
           IF strain \in Included(call) THEN DoubleDummy(call.deals[m + 1])[strain]
           ELSE results[m][strain]
  <1> DEFINE Mine(b) == b \in BoardsOfTable(call, m) /\ boards[b].trump = strain
             b0 == BoardOf(call, m, strain)
             chosen == CHOOSE b \in BoardsOfTable(call, m) : boards[b].trump = strain
             deal == call.deals[m + 1]
             Led(declarer) ==
               scores[chosen][CHOOSE first \in Hands : rho[first] = declarer]
             Value0(declarer) == Value[deal][strain][(declarer + 1) % 4]
  <1>0. deal \in Deals
    BY RequestFacts DEF Asked
  <1>1. \A b \in BoardsOfTable(call, m) :
          boards[b].trump \in Included(call) /\ b = BoardOf(call, m, boards[b].trump)
    <2> TAKE b \in BoardsOfTable(call, m)
    <2>1. PICK s \in Included(call) : b = BoardOf(call, m, s)
      BY StrainOfBoard
    <2>2. boards[b] = [deal |-> deal, trump |-> s]
      BY <2>1, BoardOfStrain
    <2> QED
      BY <2>1, <2>2
  <1>2. CASE strain \notin Included(call)
    <2>1. ~ \E b \in BoardsOfTable(call, m) : boards[b].trump = strain
      BY <1>1, <1>2
    <2>2. FilledTable(m)[strain] = OtherRow(m, strain)
      BY <2>1 DEF FilledTable
    <2> QED
      BY <1>2, <2>2 DEF OtherRow
  <1>3. CASE strain \in Included(call)
    <2>1. /\ b0 \in BoardsOfTable(call, m)
          /\ b0 \in DOMAIN boards
          /\ boards[b0] = [deal |-> deal, trump |-> strain]
      BY <1>3, BoardOfStrain, BoardsAreTyped
    <2>2. chosen = b0
      BY <1>1, <2>1
    <2>3. FilledTable(m)[strain] = [declarer \in Hands |-> 13 - Led(declarer)]
      BY <2>1 DEF FilledTable
    <2>4. ASSUME NEW declarer \in Hands
          PROVE  Led(declarer) = Value0(declarer)
      <3>1. scores[b0][(declarer + 1) % 4] = Value0(declarer)
        BY <2>1, LeaderOfDeclarer DEF AllScored
      <3> QED
        BY <2>2, <3>1, LeaderOfDeclarer
    <2>5. DoubleDummy(deal)[strain] = [declarer \in Hands |-> 13 - Value0(declarer)]
      BY DEF DoubleDummy
    <2> HIDE DEF Led, Value0
    <2>6. FilledTable(m)[strain] = DoubleDummy(deal)[strain]
      BY <2>3, <2>4, <2>5
    <2> QED
      BY <1>3, <2>6
  <1> QED
    BY <1>2, <1>3

-----------------------------------------------------------------------------
(* The invariant *)

CallOK ==
  /\ calls \in 0..Len(Requests)
  /\ call \in IF calls = 0 THEN {NoRequest} ELSE Requests[calls]
  /\ answer \in Codes

PoolTypes ==
  /\ phase \in [{c} -> {"idle", "inline", "pool"}]
  /\ batch \in [{c} -> SUBSET BoardNumbers]
  /\ started \in [{c} -> SUBSET BoardNumbers]
  /\ active \in [{c} -> SUBSET BoardNumbers]
  /\ reports \in [{c} -> Seq({Thrown, DealFault})]
  /\ result \in [{c} -> {NoFault, Unknown, Thrown, DealFault}]

BusyTypes == [board : BoardNumbers \union {None}, first : Hands, fut : Tricks]
WorkTypes ==
  /\ busy \in [Threads -> BusyTypes]
  /\ position \in [Threads -> Boards \union {NoPosition}]
  /\ scores \in [BoardNumbers -> Scores]

OutputTypes ==
  /\ counted \in Nat
  /\ results \in [TableNumbers -> Tables]
  /\ pars \in [TableNumbers -> Tables]

BoardsOK ==
  /\ DOMAIN boards \subseteq BoardNumbers
  /\ \A b \in DOMAIN boards : boards[b] \in Boards
  /\ calls > 0 /\ call.entry # "tablesX" => DOMAIN boards \subseteq 0..(MAXNOOFBOARDS - 1)

(* The pool works for a request that was not refused, on its boards;       *)
(* between calls it does nothing.                                          *)
ServiceOK ==
  /\ answer = "pending" <=> phase[c] # "idle"
  /\ phase[c] = "idle" => active[c] = {} /\ started[c] = {} /\ reports[c] = <<>>
  /\ phase[c] # "idle" =>
       /\ Served(call) /\ Refusal(call) = NoFault
       /\ boards \in Filled(call)
       /\ batch[c] = DOMAIN boards
       /\ started[c] \subseteq batch[c]

(* Each invocation of process_board has a board of its own, and from its   *)
(* first search on, the context of its thread is at that board.            *)
ThreadsOK ==
  /\ active[c] = {busy[t].board : t \in {u \in Threads : busy[u] # Idle}}
  /\ active[c] \subseteq started[c]
  /\ \A t, u \in Threads :
       busy[t] # Idle /\ busy[u] # Idle /\ t # u => busy[t].board # busy[u].board
  /\ \A t \in Threads :
       busy[t] # Idle /\ busy[t].first > 0 =>
         /\ call.entry \in TableEntries
         /\ position[t] = boards[busy[t].board]

(* Scores are right, and complete for the boards that are done and for the *)
(* leaders before the one a thread is at.                                  *)
ScoresOK ==
  phase[c] # "idle" =>
    /\ \A b \in BoardNumbers, first \in Hands :
         scores[b][first] # None =>
           /\ b \in DOMAIN boards
           /\ scores[b][first] = Value[boards[b].deal][boards[b].trump][first]
    /\ \A b \in started[c] \ active[c] : reports[c] = <<>> =>
         /\ scores[b][0] # None
         /\ call.entry \in TableEntries => \A first \in Hands : scores[b][first] # None
    /\ \A t \in Threads, first \in Hands :
         busy[t] # Idle /\ first < busy[t].first => scores[busy[t].board][first] # None

TypeInv == CallOK /\ PoolTypes /\ WorkTypes /\ OutputTypes /\ BoardsOK
IInv == /\ TypeInv /\ ServiceOK /\ ThreadsOK /\ ScoresOK
        /\ TablesAreRight /\ SolvesAreRight

LEMMA CallIsServed ==
  ASSUME CallOK, calls # 0
  PROVE  Served(call) /\ call # NoRequest
  <1>1. call \in Requests[calls] /\ calls \in 1..Len(Requests)
    BY RequestsAssumption DEF CallOK
  <1>2. Served(call)
    BY <1>1, RequestsAssumption, RequestsAreServed
  <1>3. call.entry \in TableEntries \union SolveEntries
    BY <1>2, RequestFacts
  <1> QED
    BY <1>2, <1>3 DEF NoRequest, TableEntries, SolveEntries

LEMMA IdleFacts ==
  /\ Idle \in BusyTypes
  /\ \A w \in BusyTypes : w.board \in BoardNumbers => w # Idle
  /\ None \notin BoardNumbers /\ None \notin Tricks
  BY SizesAssumption DEF Idle, BusyTypes, BoardNumbers, None, Tricks, Hands

LEMMA ThreadFacts == Threads # {} /\ Threads \subseteq Nat /\ 0 \in Hands
  BY SizesAssumption DEF Threads, Given, Hands

LEMMA InitInv == Init => IInv
  <1> SUFFICES ASSUME Init PROVE IInv
    OBVIOUS
  <1> USE DEF Init, Call!Init
  <1>1. CallOK
    BY RequestsAssumption DEF CallOK, Codes
  <1>2. PoolTypes
    BY DEF PoolTypes, c
  <1>3. WorkTypes
    BY IdleFacts, ThreadFacts DEF WorkTypes, Scores, NoScores, None
  <1>4. OutputTypes
    BY DEF OutputTypes, Tables, NoTable, None
  <1>5. BoardsOK
    BY DEF BoardsOK
  <1>6. ServiceOK
    BY DEF ServiceOK, c, NoFault
  <1>7. ThreadsOK
    BY DEF ThreadsOK, c
  <1>8. ScoresOK
    BY DEF ScoresOK, c
  <1>9. TablesAreRight /\ SolvesAreRight
    BY DEF TablesAreRight, SolvesAreRight
  <1> QED
    BY <1>1, <1>2, <1>3, <1>4, <1>5, <1>6, <1>7, <1>8, <1>9 DEF IInv, TypeInv

(* The last conjunct of TypeOK is the first of ThreadsOK. *)
LEMMA InvImpliesTypeOK == IInv => TypeOK
  BY DEF IInv, TypeInv, CallOK, PoolTypes, WorkTypes, OutputTypes, BoardsOK,
         ThreadsOK, TypeOK, BusyTypes

(* While a list of boards is served, what is recorded is right. *)
LEMMA SolvesFromScores ==
  TypeInv /\ ServiceOK /\ ScoresOK /\ phase[c] # "idle" => SolvesAreRight
  <1> SUFFICES ASSUME TypeInv, ServiceOK, ScoresOK, phase[c] # "idle",
                      call.entry \in SolveEntries
               PROVE  SolvesAreRight
    BY DEF SolvesAreRight
  <1>1. answer = "pending" /\ Served(call) /\ boards \in Filled(call)
    BY DEF ServiceOK
  <1>2. boards = BoardsOf(call) /\ BoardCount(call) = Len(call.deals)
    BY <1>1 DEF Filled, BoardCount, SolveEntries
  <1>3. ASSUME NEW b \in BoardNumbers, scores[b][0] # None
        PROVE  /\ b \in Asked(call)
               /\ scores[b][0] = Value[call.deals[b + 1]][0][0]
    <2>1. /\ b \in DOMAIN boards
          /\ scores[b][0] = Value[boards[b].deal][boards[b].trump][0]
      BY <1>3, ThreadFacts DEF ScoresOK
    <2>2. b \in 0..(BoardCount(call) - 1)
      BY <1>2, <2>1 DEF BoardsOf
    <2>3. boards[b] = [deal |-> call.deals[b + 1], trump |-> 0]
      BY <1>2, <2>2 DEF BoardsOf
    <2> QED
      BY <1>2, <2>1, <2>2, <2>3 DEF Asked
  <1> QED
    BY <1>1, <1>3 DEF SolvesAreRight, NoFault

-----------------------------------------------------------------------------
(* A new call *)

LEMMA RefusalIsACode ==
  ASSUME NEW r
  PROVE  Refusal(r) \in Codes \ {"pending"}
  BY DEF Refusal, Codes, NoFault, Unknown, Thrown, DealFault

LEMMA NewCallIsServed ==
  ASSUME IInv, NEW r, NewCall(r)
  PROVE  /\ calls' \in 0..Len(Requests) /\ calls' > 0
         /\ call' = r /\ call' \in Requests[calls']
         /\ Served(r)
         /\ r # NoRequest
         /\ phase[c] = "idle" /\ answer # "pending"
         /\ active[c] = {} /\ started[c] = {} /\ reports[c] = <<>>
         /\ \A t \in Threads : busy[t] = Idle
  <1>1. /\ calls \in 0..Len(Requests) /\ calls < Len(Requests)
        /\ calls' = calls + 1 /\ call' = r /\ r \in Requests[calls + 1]
        /\ phase[c] = "idle"
    BY DEF IInv, TypeInv, CallOK, NewCall
  <1>2. Len(Requests) \in Nat /\ calls + 1 \in DOMAIN Requests
    BY <1>1, RequestsAssumption
  <1>3. Served(r)
    BY <1>1, <1>2, RequestsAreServed
  <1>4. r # NoRequest
    BY <1>3, RequestFacts DEF NoRequest, TableEntries, SolveEntries
  <1>5. active[c] = {} /\ started[c] = {} /\ reports[c] = <<>> /\ answer # "pending"
    BY <1>1 DEF IInv, ServiceOK
  <1>6. \A t \in Threads : busy[t] = Idle
    BY <1>5 DEF IInv, ThreadsOK
  <1> QED
    BY <1>1, <1>2, <1>3, <1>4, <1>5, <1>6

(* Between calls, what the invariant says of threads and scores is empty. *)
LEMMA NothingInFlight ==
  /\ active[c] = {} /\ started[c] = {} /\ (\A t \in Threads : busy[t] = Idle)
       => ThreadsOK
  /\ phase[c] = "idle" => ScoresOK
  BY DEF ThreadsOK, ScoresOK

LEMMA RefuseStep ==
  ASSUME IInv, NEW r, Refuse(r)
  PROVE  IInv'
  <1>1. /\ NewCall(r) /\ Refusal(r) # NoFault
        /\ answer' = Refusal(r) /\ boards' = <<>>
        /\ UNCHANGED <<pool, busy, position, scores, outputs>>
    BY DEF Refuse
  <1>2. /\ calls' \in 0..Len(Requests) /\ calls' > 0
        /\ call' = r /\ call' \in Requests[calls']
        /\ phase[c] = "idle" /\ active[c] = {} /\ started[c] = {}
        /\ reports[c] = <<>> /\ \A t \in Threads : busy[t] = Idle
    BY <1>1, NewCallIsServed
  <1>3. CallOK'
    BY <1>1, <1>2, RefusalIsACode DEF CallOK
  <1>4. PoolTypes' /\ WorkTypes' /\ OutputTypes'
    BY <1>1 DEF IInv, TypeInv, PoolTypes, WorkTypes, OutputTypes, pool, outputs
  <1>5. BoardsOK'
    BY <1>1 DEF BoardsOK
  <1>6. ServiceOK'
    BY <1>1, <1>2, RefusalIsACode DEF ServiceOK, pool
  <1>7. ThreadsOK' /\ ScoresOK'
    <2>1. /\ (active[c] = {})' /\ (started[c] = {})'
          /\ (\A t \in Threads : busy[t] = Idle)' /\ (phase[c] = "idle")'
      BY <1>1, <1>2 DEF pool
    <2> QED
      BY <2>1, NothingInFlight, PTL
  <1>8. TablesAreRight' /\ SolvesAreRight'
    BY <1>1, <1>2 DEF TablesAreRight, SolvesAreRight
  <1> QED
    BY <1>3, <1>4, <1>5, <1>6, <1>7, <1>8 DEF IInv, TypeInv

LEMMA ArrayLength == MAXNOOFBOARDS \in Nat \ {0} /\ DDS_STRAINS <= MAXNOOFBOARDS
  <1>1. MAXNOOFTABLES \in Nat \ {0} /\ DDS_STRAINS \in Nat \ {0}
    BY SizesAssumption
  <1>2. PICK k \in Nat : MAXNOOFTABLES = k + 1
    <2>1. MAXNOOFTABLES - 1 \in Nat /\ MAXNOOFTABLES = (MAXNOOFTABLES - 1) + 1
      BY <1>1
    <2> QED
      BY <2>1
  <1>3. MAXNOOFBOARDS = k * DDS_STRAINS + DDS_STRAINS /\ k * DDS_STRAINS \in Nat
    BY <1>1, <1>2 DEF MAXNOOFBOARDS
  <1> QED
    BY <1>1, <1>3

(* The boards of a legacy call fit its arrays. *)
LEMMA ArraysHold ==
  ASSUME NEW r, Served(r), Refusal(r) = NoFault, r.entry # "tablesX",
         NEW bs \in Filled(r)
  PROVE  DOMAIN bs \subseteq 0..(MAXNOOFBOARDS - 1)
  <1>1. MAXNOOFBOARDS \in Nat \ {0}
    BY ArrayLength
  <1>2. CASE r.entry = "tables" /\ r.deals = <<>>
    BY <1>1, <1>2 DEF Filled
  <1>3. CASE ~(r.entry = "tables" /\ r.deals = <<>>)
    <2>1. DOMAIN bs = 0..(BoardCount(r) - 1)
      BY <1>3, BoardsAreTyped, FilledIsTyped
    <2>2. BoardCount(r) \in Nat
      BY RequestFacts
    <2>3. BoardCount(r) <= MAXNOOFBOARDS
      <3>1. CASE r.entry = "tables"
        BY <3>1, EntriesDiffer, <1>1, <2>2 DEF Refusal, NoFault, TooManyTables, BoardCount,
             MAXNOOFBOARDS, TableEntries, SolveEntries
      <3>2. CASE r.entry \in {"table", "context"}
        <4>1. Len(r.deals) = 1 /\ Included(r) = Strains
          BY <3>2 DEF Served, Included
        <4>2. Cardinality(Strains) = DDS_STRAINS
          BY FS_Interval, SizesAssumption DEF Strains
        <4>3. BoardCount(r) = DDS_STRAINS
          BY <3>2, <4>1, <4>2, SizesAssumption DEF BoardCount, SolveEntries
        <4> QED
          BY <4>3, ArrayLength
      <3>3. CASE r.entry \in SolveEntries
        <4>1. BoardCount(r) = Len(r.deals)
          BY <3>3 DEF BoardCount
        <4> QED
          BY <3>3, <4>1, <1>1, <2>2 DEF Refusal, NoFault, SolveEntries
      <3> QED
        BY <3>1, <3>2, <3>3, RequestFacts DEF TableEntries
    <2> QED
      BY <1>1, <2>1, <2>2, <2>3
  <1> QED
    BY <1>2, <1>3

LEMMA NoScoresType == Cleared \in [BoardNumbers -> Scores]
  BY DEF Cleared, Scores, NoScores, None

LEMMA BeginStep ==
  ASSUME IInv, NEW r, Begin(r)
  PROVE  IInv'
  <1> DEFINE n == Cardinality(DOMAIN boards')
  <1>1. /\ NewCall(r) /\ Refusal(r) = NoFault /\ boards' \in Filled(r)
        /\ n > 0 /\ Call!Begin(c) /\ batch'[c] = 0..(n - 1)
        /\ answer' = "pending" /\ scores' = Cleared
        /\ counted' = IF r.entry = "tables" THEN 0 ELSE counted
        /\ UNCHANGED <<busy, position, results, pars>>
    BY DEF Begin
  <1>2. /\ calls' \in 0..Len(Requests) /\ calls' > 0
        /\ call' = r /\ call' \in Requests[calls'] /\ Served(r)
        /\ active[c] = {} /\ started[c] = {} /\ reports[c] = <<>>
        /\ \A t \in Threads : busy[t] = Idle
    BY <1>1, NewCallIsServed
  <1>3. TypeInv
    BY DEF IInv
  <1>4. PICK k \in 1..(MaxTables * DDS_STRAINS), mode \in {"inline", "pool"} :
          /\ phase' = [phase EXCEPT ![c] = mode]
          /\ batch' = [batch EXCEPT ![c] = 0..(k - 1)]
    BY <1>1 DEF Call!Begin
  <1>5. /\ result' = [result EXCEPT ![c] = NoFault]
        /\ UNCHANGED <<started, active, reports>>
    BY <1>1 DEF Call!Begin
  <1>6. 0..(k - 1) \subseteq BoardNumbers
    BY SizesAssumption DEF BoardNumbers
  <1>7. PoolTypes' /\ phase'[c] # "idle" /\ batch'[c] \subseteq BoardNumbers
    BY <1>3, <1>4, <1>5, <1>6 DEF TypeInv, PoolTypes
  <1>8. /\ DOMAIN boards' = 0..(n - 1)
        /\ \A b \in DOMAIN boards' : boards'[b] \in Boards
    BY <1>1, <1>2, FilledIsTyped
  <1>9. batch'[c] = DOMAIN boards'
    BY <1>1, <1>8
  <1>10. CallOK'
    BY <1>1, <1>2 DEF CallOK, Codes
  <1>11. WorkTypes' /\ OutputTypes'
    BY <1>1, <1>3, NoScoresType DEF TypeInv, WorkTypes, OutputTypes
  <1>12. BoardsOK'
    BY <1>1, <1>2, <1>7, <1>8, <1>9, ArraysHold DEF BoardsOK
  <1>13. ServiceOK'
    BY <1>1, <1>2, <1>5, <1>7, <1>9 DEF ServiceOK
  <1>14. ThreadsOK'
    <2>1. /\ (active[c] = {})' /\ (started[c] = {})'
          /\ (\A t \in Threads : busy[t] = Idle)'
      BY <1>1, <1>2, <1>5
    <2> QED
      BY <2>1, NothingInFlight, PTL
  <1>15. ScoresOK'
    <2>1. \A b \in BoardNumbers, first \in Hands : scores'[b][first] = None
      BY <1>1 DEF Cleared, NoScores
    <2>2. started'[c] = {} /\ \A t \in Threads : busy'[t] = Idle
      BY <1>1, <1>2, <1>5
    <2> QED
      BY <2>1, <2>2 DEF ScoresOK
  <1>16. TablesAreRight'
    BY <1>1 DEF TablesAreRight, NoFault
  <1>17. SolvesAreRight'
    <2>1. (TypeInv /\ ServiceOK /\ ScoresOK /\ phase[c] # "idle")'
      BY <1>7, <1>10, <1>11, <1>12, <1>13, <1>15 DEF TypeInv
    <2> QED
      BY <2>1, SolvesFromScores, PTL
  <1> QED
    BY <1>7, <1>10, <1>11, <1>12, <1>13, <1>14, <1>15, <1>16, <1>17 DEF IInv, TypeInv

LEMMA BeginEmptyStep ==
  ASSUME IInv, NEW r, BeginEmpty(r)
  PROVE  IInv'
  <1>1. /\ NewCall(r) /\ Refusal(r) = NoFault
        /\ BoardCount(r) = 0 /\ r.entry # "tables" /\ Call!EmptyCall(c)
        /\ answer' = NoFault /\ boards' = <<>>
        /\ scores' = IF r.entry = "tablesX" THEN scores ELSE Cleared
        /\ counted' = IF r.entry = "tablesX" THEN counted ELSE 0
        /\ UNCHANGED <<busy, position, results, pars>>
    BY DEF BeginEmpty
  <1>2. /\ calls' \in 0..Len(Requests) /\ calls' > 0
        /\ call' = r /\ call' \in Requests[calls'] /\ Served(r)
        /\ phase[c] = "idle" /\ active[c] = {} /\ started[c] = {}
        /\ reports[c] = <<>> /\ \A t \in Threads : busy[t] = Idle
    BY <1>1, NewCallIsServed
  <1>3. TypeInv
    BY DEF IInv
  <1>4. /\ result' = [result EXCEPT ![c] = NoFault]
        /\ UNCHANGED <<phase, batch, started, active, reports>>
    BY <1>1 DEF Call!EmptyCall
  <1>5. CallOK'
    BY <1>1, <1>2 DEF CallOK, Codes
  <1>6. PoolTypes'
    BY <1>3, <1>4 DEF TypeInv, PoolTypes
  <1>7. WorkTypes' /\ OutputTypes'
    BY <1>1, <1>3, NoScoresType DEF TypeInv, WorkTypes, OutputTypes
  <1>8. BoardsOK'
    BY <1>1 DEF BoardsOK
  <1>9. ServiceOK'
    BY <1>1, <1>2, <1>4 DEF ServiceOK, NoFault
  <1>10. ThreadsOK' /\ ScoresOK'
    <2>1. /\ (active[c] = {})' /\ (started[c] = {})'
          /\ (\A t \in Threads : busy[t] = Idle)' /\ (phase[c] = "idle")'
      BY <1>1, <1>2, <1>4
    <2> QED
      BY <2>1, NothingInFlight, PTL
  <1>11. Len(r.deals) = 0 /\ r.deals \in Seq(Deals)
    <2>1. /\ r.deals \in Seq(Deals) /\ Len(r.deals) \in Nat
          /\ r.entry \in TableEntries \union SolveEntries
      BY <1>2, RequestFacts
    <2>2. CASE r.entry \in SolveEntries
      BY <1>1, <2>1, <2>2 DEF BoardCount
    <2>3. CASE r.entry \in TableEntries /\ r.deals # <<>>
      <3>1. Cardinality(Included(r)) \in Nat \ {0}
        BY <1>1, <1>2, <2>3, StrainsAreAsked
      <3>2. Cardinality(Included(r)) * Len(r.deals) = 0
        BY <1>1, <2>3, EntriesDiffer DEF BoardCount
      <3>3. Len(r.deals) = 0
        BY <2>1, <3>1, <3>2
      <3> QED
        BY <2>1, <3>3
    <2>4. CASE r.deals = <<>>
      BY <2>1, <2>4
    <2> QED
      BY <2>1, <2>2, <2>3, <2>4
  <1>12. Asked(r) = {}
    BY <1>11 DEF Asked
  <1>13. TablesAreRight'
    <2>1. ASSUME r.entry \in TableEntries PROVE ParsAreRight'
      BY <1>1, <1>2, <1>12 DEF ParsAreRight
    <2> QED
      BY <1>2, <1>12, <2>1 DEF TablesAreRight
  <1>14. SolvesAreRight'
    <2> SUFFICES ASSUME r.entry \in SolveEntries
                 PROVE  /\ counted' = Len(r.deals)
                        /\ \A b \in BoardNumbers : scores'[b][0] = None
      BY <1>2, <1>12 DEF SolvesAreRight
    <2>1. r.entry # "tablesX"
      BY DEF SolveEntries
    <2> QED
      BY <1>1, <1>11, <2>1, ThreadFacts DEF Cleared, NoScores
  <1> QED
    BY <1>5, <1>6, <1>7, <1>8, <1>9, <1>10, <1>13, <1>14 DEF IInv, TypeInv

-----------------------------------------------------------------------------
(* The searches of a board *)

(* While boards are processed the call is pending: its answer, its request *)
(* and its outputs stay, and so do the parts of the invariant about them.  *)
LEMMA PendingStep ==
  ASSUME IInv, phase[c] # "idle",
         UNCHANGED <<phase, call, calls, answer, boards, outputs>>
  PROVE  /\ CallOK' /\ OutputTypes' /\ BoardsOK' /\ TablesAreRight'
         /\ phase'[c] # "idle"
  <1>1. answer = "pending"
    BY DEF IInv, ServiceOK
  <1> QED
    BY <1>1 DEF IInv, TypeInv, CallOK, OutputTypes, BoardsOK, TablesAreRight, outputs,
                NoFault

LEMMA WorkingThread ==
  ASSUME IInv, NEW t \in Threads, busy[t] # Idle
  PROVE  /\ busy[t] \in BusyTypes
         /\ busy[t].board \in active[c] /\ busy[t].board \in started[c]
         /\ busy[t].board \in DOMAIN boards /\ busy[t].board \in BoardNumbers
         /\ boards[busy[t].board] \in Boards
         /\ phase[c] # "idle" /\ batch[c] = DOMAIN boards
  <1>1. busy[t].board \in active[c] /\ active[c] \subseteq started[c]
    BY DEF IInv, ThreadsOK
  <1>2. phase[c] # "idle"
    BY <1>1 DEF IInv, ServiceOK
  <1>3. started[c] \subseteq DOMAIN boards /\ batch[c] = DOMAIN boards
    BY <1>2 DEF IInv, ServiceOK
  <1>4. busy[t] \in BusyTypes
    BY DEF IInv, TypeInv, WorkTypes
  <1> QED
    BY <1>1, <1>2, <1>3, <1>4 DEF IInv, TypeInv, BoardsOK

LEMMA TakeStep ==
  ASSUME IInv, NEW t \in Threads, NEW b \in BoardNumbers, Take(t, b)
  PROVE  IInv'
  <1>1. /\ phase[c] # "idle" /\ busy[t] = Idle /\ b \in batch[c] \ started[c]
        /\ Call!Start(c)
        /\ started' = [started EXCEPT ![c] = @ \union {b}]
        /\ busy' = [busy EXCEPT ![t] = [board |-> b, first |-> 0, fut |-> 0]]
        /\ UNCHANGED <<call, calls, answer, boards, position, scores, outputs>>
    BY DEF Take
  <1>2. TypeInv
    BY DEF IInv
  <1>3. UNCHANGED <<phase, batch, reports, result>>
    BY <1>1 DEF Call!Start
  <1>4. started'[c] = started[c] \union {b}
    BY <1>1, <1>2 DEF TypeInv, PoolTypes
  <1>5. /\ active'[c] = active[c] \union {b}
        /\ active' = [active EXCEPT ![c] = active[c] \union {b}]
    <2>1. PICK b1 \in batch[c] \ started[c] :
            /\ started' = [started EXCEPT ![c] = @ \union {b1}]
            /\ active' = [active EXCEPT ![c] = @ \union {b1}]
      BY <1>1 DEF Call!Start
    <2>2. started'[c] = started[c] \union {b1}
      BY <2>1, <1>2 DEF TypeInv, PoolTypes
    <2>3. b1 = b
      BY <2>1, <2>2, <1>4
    <2> QED
      BY <2>1, <2>3, <1>2 DEF TypeInv, PoolTypes
  <1>6. /\ CallOK' /\ OutputTypes' /\ BoardsOK' /\ TablesAreRight'
        /\ phase'[c] # "idle"
    BY <1>1, <1>3, PendingStep
  <1>7. PoolTypes'
    BY <1>1, <1>2, <1>3, <1>5 DEF TypeInv, PoolTypes
  <1>8. [board |-> b, first |-> 0, fut |-> 0] \in BusyTypes
    BY DEF BusyTypes, Hands, Tricks
  <1>9. WorkTypes'
    BY <1>1, <1>2, <1>8 DEF TypeInv, WorkTypes
  <1>10. ServiceOK'
    BY <1>1, <1>3, <1>4 DEF IInv, ServiceOK
  <1>11. /\ busy'[t] # Idle /\ busy'[t].board = b /\ busy'[t].first = 0
         /\ \A u \in Threads : u # t => busy'[u] = busy[u]
    BY <1>1, <1>2, <1>8, IdleFacts DEF TypeInv, WorkTypes
  <1>12. b \notin active[c]
    BY <1>1 DEF IInv, ThreadsOK
  <1>13. ThreadsOK'
    <2>1. active'[c] = {busy'[u].board : u \in {w \in Threads : busy'[w] # Idle}}
      BY <1>1, <1>5, <1>11 DEF IInv, ThreadsOK
    <2>2. active'[c] \subseteq started'[c]
      BY <1>4, <1>5 DEF IInv, ThreadsOK
    <2>3. ASSUME NEW u \in Threads, NEW w \in Threads,
                 busy'[u] # Idle, busy'[w] # Idle, u # w
          PROVE  busy'[u].board # busy'[w].board
      BY <1>11, <1>12, <2>3 DEF IInv, ThreadsOK
    <2>4. ASSUME NEW u \in Threads, busy'[u] # Idle, busy'[u].first > 0
          PROVE  call'.entry \in TableEntries /\ position'[u] = boards'[busy'[u].board]
      BY <1>1, <1>11, <2>4 DEF IInv, ThreadsOK
    <2> QED
      BY <2>1, <2>2, <2>3, <2>4 DEF ThreadsOK
  <1>14. ScoresOK'
    <2>1. started'[c] \ active'[c] \subseteq started[c] \ active[c]
      BY <1>4, <1>5
    <2>2. ASSUME NEW u \in Threads, NEW first \in Hands,
                 busy'[u] # Idle, first < busy'[u].first
          PROVE  scores'[busy'[u].board][first] # None
      BY <1>1, <1>11, <2>2 DEF IInv, ScoresOK, Hands
    <2> QED
      BY <1>1, <1>3, <2>1, <2>2 DEF IInv, ScoresOK
  <1>15. SolvesAreRight'
    <2>1. (TypeInv /\ ServiceOK /\ ScoresOK /\ phase[c] # "idle")'
      BY <1>6, <1>7, <1>9, <1>10, <1>14 DEF TypeInv
    <2> QED
      BY <2>1, SolvesFromScores, PTL
  <1> QED
    BY <1>6, <1>7, <1>9, <1>10, <1>13, <1>14, <1>15 DEF IInv, TypeInv

(* What a step of thread t may do to the scores: add right ones.           *)
ScoresGrow ==
  /\ scores' \in [BoardNumbers -> Scores]
  /\ \A b \in BoardNumbers, first \in Hands :
       scores'[b][first] # None =>
         /\ b \in DOMAIN boards
         /\ scores'[b][first] = Value[boards[b].deal][boards[b].trump][first]
  /\ \A b \in BoardNumbers, first \in Hands :
       scores[b][first] # None => scores'[b][first] # None

OthersStay(t) ==
  /\ position' \in [Threads -> Boards \union {NoPosition}]
  /\ \A u \in Threads : u # t => position'[u] = position[u]

LEMMA EndStep ==
  ASSUME IInv, NEW t \in Threads, busy[t] # Idle,
         NEW outcome \in {NoFault, Thrown, DealFault}, Ends(t, outcome),
         ScoresGrow, OthersStay(t),
         outcome = NoFault =>
           /\ scores'[busy[t].board][0] # None
           /\ call.entry \in TableEntries =>
                \A first \in Hands : scores'[busy[t].board][first] # None
  PROVE  IInv'
  <1> DEFINE b == busy[t].board
  <1>1. /\ Call!End(c)
        /\ active' = [active EXCEPT ![c] = @ \ {b}]
        /\ reports' = [reports EXCEPT
             ![c] = IF outcome = NoFault THEN @ ELSE Append(@, outcome)]
        /\ busy' = [busy EXCEPT ![t] = Idle]
        /\ UNCHANGED <<call, calls, answer, boards, outputs>>
    BY DEF Ends
  <1>2. TypeInv
    BY DEF IInv
  <1>3. UNCHANGED <<phase, batch, started, result>>
    BY <1>1 DEF Call!End
  <1>4. /\ phase[c] # "idle" /\ b \in BoardNumbers /\ b \in active[c]
    BY WorkingThread
  <1>5. /\ CallOK' /\ OutputTypes' /\ BoardsOK' /\ TablesAreRight'
        /\ phase'[c] # "idle"
    BY <1>1, <1>3, <1>4, PendingStep
  <1>6. active'[c] = active[c] \ {b}
    BY <1>1, <1>2 DEF TypeInv, PoolTypes
  <1>7. reports'[c] = IF outcome = NoFault THEN reports[c] ELSE Append(reports[c], outcome)
    BY <1>1, <1>2 DEF TypeInv, PoolTypes
  <1>8. reports[c] \in Seq({Thrown, DealFault})
    BY <1>2 DEF TypeInv, PoolTypes
  <1>9. reports'[c] \in Seq({Thrown, DealFault}) /\ (outcome # NoFault => reports'[c] # <<>>)
    <2>1. CASE outcome = NoFault
      BY <2>1, <1>7, <1>8
    <2>2. CASE outcome # NoFault
      <3>1. outcome \in {Thrown, DealFault}
        BY <2>2
      <3>2. Append(reports[c], outcome) \in Seq({Thrown, DealFault})
        BY <3>1, <1>8
      <3>3. Append(reports[c], outcome) # <<>>
        BY <3>1, <1>8
      <3> QED
        BY <2>2, <3>2, <3>3, <1>7
    <2> QED
      BY <2>1, <2>2
  <1>10. PoolTypes'
    BY <1>1, <1>2, <1>3, <1>6, <1>7, <1>9 DEF TypeInv, PoolTypes
  <1>11. WorkTypes'
    BY <1>1, <1>2, IdleFacts DEF TypeInv, WorkTypes, ScoresGrow, OthersStay
  <1>12. ServiceOK'
    BY <1>1, <1>3, <1>4 DEF IInv, ServiceOK
  <1>13. busy'[t] = Idle /\ \A u \in Threads : u # t => busy'[u] = busy[u]
    BY <1>1, <1>2 DEF TypeInv, WorkTypes
  <1>14. \A u \in Threads : u # t /\ busy[u] # Idle => busy[u].board # b
    BY DEF IInv, ThreadsOK
  <1>15. ThreadsOK'
    <2>1. active'[c] = {busy'[u].board : u \in {w \in Threads : busy'[w] # Idle}}
      <3>1. active[c] = {busy[u].board : u \in {w \in Threads : busy[w] # Idle}}
        BY DEF IInv, ThreadsOK
      <3> QED
        BY <3>1, <1>6, <1>13, <1>14
    <2>2. active'[c] \subseteq started'[c]
      BY <1>3, <1>6 DEF IInv, ThreadsOK
    <2>3. ASSUME NEW u \in Threads, NEW w \in Threads,
                 busy'[u] # Idle, busy'[w] # Idle, u # w
          PROVE  busy'[u].board # busy'[w].board
      BY <1>13, <2>3 DEF IInv, ThreadsOK
    <2>4. ASSUME NEW u \in Threads, busy'[u] # Idle, busy'[u].first > 0
          PROVE  call'.entry \in TableEntries /\ position'[u] = boards'[busy'[u].board]
      BY <1>1, <1>13, <2>4 DEF IInv, ThreadsOK, OthersStay
    <2> QED
      BY <2>1, <2>2, <2>3, <2>4 DEF ThreadsOK
  <1>16. ScoresOK'
    <2>1. ASSUME NEW d \in started'[c] \ active'[c], reports'[c] = <<>>
          PROVE  /\ scores'[d][0] # None
                 /\ call.entry \in TableEntries =>
                      \A first \in Hands : scores'[d][first] # None
      <3>1. outcome = NoFault /\ reports[c] = <<>>
        BY <2>1, <1>7, <1>9
      <3>2. CASE d = b
        BY <3>1, <3>2
      <3>3. CASE d # b
        <4>1. d \in started[c] \ active[c] /\ d \in BoardNumbers
          BY <2>1, <3>3, <1>2, <1>3, <1>6 DEF TypeInv, PoolTypes
        <4>2. /\ scores[d][0] # None
              /\ call.entry \in TableEntries =>
                   \A first \in Hands : scores[d][first] # None
          BY <4>1, <3>1, <1>4 DEF IInv, ScoresOK
        <4> QED
          BY <4>1, <4>2, ThreadFacts DEF ScoresGrow
      <3> QED
        BY <3>2, <3>3
    <2>2. ASSUME NEW u \in Threads, NEW first \in Hands,
                 busy'[u] # Idle, first < busy'[u].first
          PROVE  scores'[busy'[u].board][first] # None
      <3>1. busy'[u] = busy[u] /\ busy[u] # Idle
        BY <2>2, <1>13
      <3>2. scores[busy[u].board][first] # None
        BY <2>2, <3>1, <1>4 DEF IInv, ScoresOK
      <3>3. busy[u].board \in BoardNumbers
        BY <3>1, WorkingThread
      <3> QED
        BY <3>1, <3>2, <3>3 DEF ScoresGrow
    <2> QED
      BY <1>1, <2>1, <2>2 DEF ScoresOK, ScoresGrow
  <1>17. SolvesAreRight'
    <2>1. (TypeInv /\ ServiceOK /\ ScoresOK /\ phase[c] # "idle")'
      BY <1>5, <1>10, <1>11, <1>12, <1>16 DEF TypeInv
    <2> QED
      BY <2>1, SolvesFromScores, PTL
  <1> QED
    BY <1>5, <1>10, <1>11, <1>12, <1>15, <1>16, <1>17 DEF IInv, TypeInv

(* A thread goes on to the next leader of its board. *)
LEMMA NextLeaderStep ==
  ASSUME IInv, NEW t \in Threads, busy[t] # Idle,
         call.entry \in TableEntries,
         NEW next \in 1..3, NEW score \in Tricks,
         busy' = [busy EXCEPT ![t].first = next, ![t].fut = score],
         UNCHANGED <<pool, call, calls, answer, boards, outputs>>,
         ScoresGrow, OthersStay(t), position'[t] = boards[busy[t].board],
         \A first \in Hands : first < next => scores'[busy[t].board][first] # None
  PROVE  IInv'
  <1> DEFINE b == busy[t].board
  <1>1. TypeInv
    BY DEF IInv
  <1>2. UNCHANGED <<phase, batch, started, active, reports, result>>
    BY DEF pool
  <1>3. /\ phase[c] # "idle" /\ b \in BoardNumbers /\ b \in active[c]
        /\ busy[t] \in BusyTypes
    BY WorkingThread
  <1>4. /\ CallOK' /\ OutputTypes' /\ BoardsOK' /\ TablesAreRight'
        /\ phase'[c] # "idle"
    BY <1>2, <1>3, PendingStep
  <1>5. /\ busy'[t] \in BusyTypes /\ busy'[t].board = b /\ busy'[t].first = next
        /\ \A u \in Threads : u # t => busy'[u] = busy[u]
        /\ busy' \in [Threads -> BusyTypes]
    <2>1. busy \in [Threads -> BusyTypes] /\ next \in Hands
      BY <1>1 DEF TypeInv, WorkTypes, Hands
    <2>2. busy'[t] = [board |-> b, first |-> next, fut |-> score]
      BY <1>3, <2>1 DEF BusyTypes
    <2>3. busy'[t] \in BusyTypes
      BY <1>3, <2>1, <2>2 DEF BusyTypes
    <2> QED
      BY <2>1, <2>2, <2>3
  <1>6. busy'[t] # Idle
    BY <1>3, <1>5, IdleFacts
  <1>7. PoolTypes' /\ WorkTypes'
    BY <1>1, <1>2, <1>5 DEF TypeInv, PoolTypes, WorkTypes, ScoresGrow, OthersStay
  <1>8. ServiceOK'
    BY <1>2 DEF IInv, ServiceOK
  <1>9. ThreadsOK'
    <2>1. active'[c] = {busy'[u].board : u \in {w \in Threads : busy'[w] # Idle}}
      <3>1. active[c] = {busy[u].board : u \in {w \in Threads : busy[w] # Idle}}
        BY DEF IInv, ThreadsOK
      <3>2. \A u \in Threads :
              /\ busy'[u].board = busy[u].board
              /\ busy'[u] # Idle <=> busy[u] # Idle
        BY <1>5, <1>6
      <3> DEFINE Working == {w \in Threads : busy[w] # Idle}
      <3>3. {w \in Threads : busy'[w] # Idle} = Working
        BY <3>2
      <3>4. \A u \in Working : busy'[u].board = busy[u].board
        BY <3>2
      <3>5. active'[c] = {busy[u].board : u \in Working}
        BY <3>1, <1>2
      <3> HIDE DEF Working
      <3>6. {busy'[u].board : u \in Working} = {busy[u].board : u \in Working}
        BY <3>4
      <3> QED
        BY <3>3, <3>5, <3>6
    <2>2. active'[c] \subseteq started'[c]
      BY <1>2 DEF IInv, ThreadsOK
    <2>3. ASSUME NEW u \in Threads, NEW w \in Threads,
                 busy'[u] # Idle, busy'[w] # Idle, u # w
          PROVE  busy'[u].board # busy'[w].board
      BY <1>5, <2>3 DEF IInv, ThreadsOK
    <2>4. ASSUME NEW u \in Threads, busy'[u] # Idle, busy'[u].first > 0
          PROVE  call'.entry \in TableEntries /\ position'[u] = boards'[busy'[u].board]
      BY <1>5, <2>4 DEF IInv, ThreadsOK, OthersStay
    <2> QED
      BY <2>1, <2>2, <2>3, <2>4 DEF ThreadsOK
  <1>10. ScoresOK'
    <2>1. ASSUME NEW d \in started'[c] \ active'[c], reports'[c] = <<>>
          PROVE  /\ scores'[d][0] # None
                 /\ call.entry \in TableEntries =>
                      \A first \in Hands : scores'[d][first] # None
      <3>1. d \in started[c] \ active[c] /\ d \in BoardNumbers
        BY <2>1, <1>1, <1>2 DEF TypeInv, PoolTypes
      <3>2. /\ scores[d][0] # None
            /\ call.entry \in TableEntries =>
                 \A first \in Hands : scores[d][first] # None
        BY <3>1, <2>1, <1>2, <1>3 DEF IInv, ScoresOK
      <3> QED
        BY <3>1, <3>2, ThreadFacts DEF ScoresGrow
    <2>2. ASSUME NEW u \in Threads, NEW first \in Hands,
                 busy'[u] # Idle, first < busy'[u].first
          PROVE  scores'[busy'[u].board][first] # None
      <3>1. CASE u = t
        BY <3>1, <2>2, <1>5
      <3>2. CASE u # t
        <4>1. busy'[u] = busy[u] /\ busy[u] # Idle
          BY <2>2, <1>5, <3>2
        <4>2. scores[busy[u].board][first] # None
          BY <2>2, <4>1, <1>3 DEF IInv, ScoresOK
        <4>3. busy[u].board \in BoardNumbers
          BY <4>1, WorkingThread
        <4> QED
          BY <4>1, <4>2, <4>3 DEF ScoresGrow
      <3> QED
        BY <3>1, <3>2
    <2> QED
      BY <2>1, <2>2 DEF ScoresOK, ScoresGrow
  <1>11. SolvesAreRight'
    <2>1. (TypeInv /\ ServiceOK /\ ScoresOK /\ phase[c] # "idle")'
      BY <1>4, <1>7, <1>8, <1>10 DEF TypeInv
    <2> QED
      BY <2>1, SolvesFromScores, PTL
  <1> QED
    BY <1>4, <1>7, <1>8, <1>9, <1>10, <1>11 DEF IInv, TypeInv

(* Recording the value of a thread's board for the next leader. *)
LEMMA RecordGrows ==
  ASSUME IInv, NEW t \in Threads, busy[t] # Idle, NEW first \in Hands,
         Records(t, first,
                 Value[boards[busy[t].board].deal][boards[busy[t].board].trump][first])
  PROVE  /\ ScoresGrow
         /\ scores'[busy[t].board][first] # None
         /\ \A f \in Hands : f < busy[t].first => scores'[busy[t].board][f] # None
         /\ Value[boards[busy[t].board].deal][boards[busy[t].board].trump][first] \in Tricks
  <1> DEFINE b == busy[t].board
             v == Value[boards[b].deal][boards[b].trump][first]
  <1>1. /\ b \in BoardNumbers /\ b \in DOMAIN boards /\ boards[b] \in Boards
        /\ phase[c] # "idle"
    BY WorkingThread
  <1>2. v \in Tricks /\ v # None
    <2>1. boards[b].deal \in Deals /\ boards[b].trump \in Strains
      BY <1>1 DEF Boards
    <2>2. v \in Tricks
      BY <2>1, ValueType
    <2> HIDE DEF v
    <2> QED
      BY <2>2, IdleFacts
  <1>3. scores \in [BoardNumbers -> Scores] /\ scores' = [scores EXCEPT ![b][first] = v]
    BY DEF IInv, TypeInv, WorkTypes, Records
  <1>4. /\ scores' \in [BoardNumbers -> Scores]
        /\ \A d \in BoardNumbers, f \in Hands :
             scores'[d][f] = IF d = b /\ f = first THEN v ELSE scores[d][f]
    BY <1>1, <1>2, <1>3 DEF Scores
  <1>5. ASSUME NEW d \in BoardNumbers, NEW f \in Hands, scores'[d][f] # None
        PROVE  /\ d \in DOMAIN boards
               /\ scores'[d][f] = Value[boards[d].deal][boards[d].trump][f]
    <2>1. CASE d = b /\ f = first
      BY <2>1, <1>1, <1>4
    <2>2. CASE ~(d = b /\ f = first)
      <3>1. scores'[d][f] = scores[d][f]
        BY <2>2, <1>4
      <3> QED
        BY <3>1, <1>1, <1>5 DEF IInv, ScoresOK
    <2> QED
      BY <2>1, <2>2
  <1>6. \A f \in Hands : f < busy[t].first => scores[b][f] # None
    BY <1>1 DEF IInv, ScoresOK
  <1> QED
    BY <1>1, <1>2, <1>4, <1>5, <1>6 DEF ScoresGrow

LEMMA SolveStep ==
  ASSUME IInv, NEW t \in Threads, Solve(t)
  PROVE  IInv'
  <1> DEFINE board == boards[busy[t].board]
             score == Value[board.deal][board.trump][0]
  <1>1. /\ busy[t] # Idle /\ busy[t].first = 0
        /\ position' = [position EXCEPT ![t] = board]
        /\ Records(t, 0, score)
        /\ IF call.entry \in SolveEntries THEN Ends(t, NoFault)
           ELSE /\ busy' = [busy EXCEPT ![t].first = 1, ![t].fut = score]
                /\ UNCHANGED <<pool, call, calls, answer, boards, outputs>>
    BY DEF Solve, Context
  <1>2. board \in Boards /\ Served(call)
    BY <1>1, WorkingThread DEF IInv, ServiceOK
  <1>3. position \in [Threads -> Boards \union {NoPosition}]
    BY DEF IInv, TypeInv, WorkTypes
  <1>4. OthersStay(t) /\ position'[t] = board
    BY <1>1, <1>2, <1>3 DEF OthersStay
  <1>5. ScoresGrow /\ scores'[busy[t].board][0] # None /\ score \in Tricks
    BY <1>1, ThreadFacts, RecordGrows
  <1>6. CASE call.entry \in SolveEntries
    BY <1>1, <1>4, <1>5, <1>6, EndStep, EntriesDiffer
  <1>7. CASE call.entry \notin SolveEntries
    <2>1. call.entry \in TableEntries
      BY <1>2, <1>7, RequestFacts
    <2>2. \A first \in Hands : first < 1 => scores'[busy[t].board][first] # None
      BY <1>5 DEF Hands
    <2>3. /\ busy' = [busy EXCEPT ![t].first = 1, ![t].fut = score]
          /\ UNCHANGED <<pool, call, calls, answer, boards, outputs>>
      BY <1>1, <1>7
    <2>4. 1 \in 1..3
      OBVIOUS
    <2> HIDE DEF score
    <2> QED
      BY <1>1, <1>4, <1>5, <2>1, <2>2, <2>3, <2>4, NextLeaderStep
  <1> QED
    BY <1>6, <1>7

LEMMA SolveFailsStep ==
  ASSUME IInv, NEW t \in Threads, SolveFails(t)
  PROVE  IInv'
  <1>1. /\ busy[t] # Idle /\ UNCHANGED <<position, scores>>
        /\ Ends(t, DealFault) \/ Ends(t, Thrown)
    BY DEF SolveFails
  <1>2. phase[c] # "idle"
    BY <1>1, WorkingThread
  <1>3. OthersStay(t) /\ ScoresGrow
    BY <1>1, <1>2 DEF IInv, TypeInv, WorkTypes, ScoresOK, OthersStay, ScoresGrow
  <1>4. NoFault # DealFault /\ NoFault # Thrown
    BY DEF NoFault, DealFault, Thrown
  <1> QED
    BY <1>1, <1>3, <1>4, EndStep

(* The hint of a repeat is a number of tricks, so the loop finds the value. *)
LEMMA HintIsTricks ==
  ASSUME NEW first \in Hands, NEW fut \in Tricks
  PROVE  HintFor(first, fut) \in Tricks
  BY DEF HintFor, Tricks

LEMMA RepeatStep ==
  ASSUME IInv, NEW t \in Threads, Repeat(t)
  PROVE  IInv'
  <1> DEFINE first == busy[t].first
             board == boards[busy[t].board]
             value == Value[board.deal][board.trump][first]
  <1>1. /\ busy[t] # Idle /\ first > 0 /\ UNCHANGED position
    BY DEF Repeat
  <1>2. PICK score \in SameBoardScores(position[t], first, HintFor(first, busy[t].fut)) :
          /\ Records(t, first, score)
          /\ IF first = 3 THEN Ends(t, NoFault)
             ELSE /\ busy' = [busy EXCEPT ![t].first = first + 1, ![t].fut = score]
                  /\ UNCHANGED <<pool, call, calls, answer, boards, outputs>>
    BY DEF Repeat, Context
  <1>3. busy[t] \in BusyTypes
    BY <1>1, WorkingThread
  <1>4. first \in Hands /\ busy[t].fut \in Tricks
    BY <1>3 DEF BusyTypes
  <1>5. call.entry \in TableEntries /\ position[t] = board
    BY <1>1 DEF IInv, ThreadsOK
  <1>6. score = value
    BY <1>2, <1>4, <1>5, HintIsTricks DEF SameBoardScores
  <1>7. /\ ScoresGrow /\ scores'[busy[t].board][first] # None /\ score \in Tricks
        /\ \A f \in Hands : f < first => scores'[busy[t].board][f] # None
    BY <1>1, <1>2, <1>4, <1>6, RecordGrows
  <1>8. OthersStay(t) /\ position'[t] = board
    BY <1>1, <1>5 DEF OthersStay, IInv, TypeInv, WorkTypes
  <1>9. \A f \in Hands : f <= first => scores'[busy[t].board][f] # None
    BY <1>4, <1>7 DEF Hands
  <1>10. CASE first = 3
    <2>1. \A f \in Hands : scores'[busy[t].board][f] # None
      BY <1>9, <1>10 DEF Hands
    <2> QED
      BY <1>1, <1>2, <1>7, <1>8, <1>10, <2>1, ThreadFacts, EndStep
  <1>11. CASE first # 3
    <2>1. first + 1 \in 1..3
      BY <1>1, <1>4, <1>11 DEF Hands
    <2>2. \A f \in Hands : f < first + 1 => scores'[busy[t].board][f] # None
      BY <1>4, <1>9 DEF Hands
    <2> QED
      BY <1>1, <1>2, <1>5, <1>7, <1>8, <1>11, <2>1, <2>2, NextLeaderStep
  <1> QED
    BY <1>10, <1>11

-----------------------------------------------------------------------------
(* The delivery *)

LEMMA DeliveryOutcome ==
  ASSUME IInv, Call!Finish(c) \/ Call!Abort(c)
  PROVE  /\ phase[c] # "idle" /\ phase'[c] = "idle"
         /\ started'[c] = {} /\ active'[c] = {} /\ reports'[c] = <<>>
         /\ active[c] = {}
         /\ PoolTypes'
         /\ result'[c] = NoFault => reports[c] = <<>> /\ started[c] = batch[c]
  <1>1. PoolTypes
    BY DEF IInv, TypeInv
  <1>2. reports[c] \in Seq({Thrown, DealFault})
    BY <1>1 DEF PoolTypes
  <1>3. NoFault \notin {Unknown, Thrown, DealFault}
    BY DEF NoFault, Unknown, Thrown, DealFault
  <1>4. CASE Call!Finish(c)
    <2>1. /\ phase[c] # "idle" /\ active[c] = {}
          /\ reports[c] = <<>> => started[c] = batch[c]
          /\ Call!Deliver(c, Call!Verdict(c))
      BY <1>4 DEF Call!Finish
    <2>2. CASE reports[c] = <<>>
      <3>1. Call!Verdict(c) = NoFault
        BY <2>2 DEF Call!Verdict
      <3> QED
        BY <1>1, <2>1, <2>2, <3>1 DEF Call!Deliver, PoolTypes
    <2>3. CASE reports[c] # <<>>
      <3>1. Head(reports[c]) \in {Thrown, DealFault}
        BY <1>2, <2>3
      <3>2. Call!Verdict(c) \in {Unknown, Thrown, DealFault}
        BY <2>3, <3>1 DEF Call!Verdict
      <3> HIDE DEF Call!Verdict
      <3>3. PoolTypes' /\ result'[c] = Call!Verdict(c)
        BY <1>1, <2>1, <3>2 DEF Call!Deliver, PoolTypes
      <3>4. /\ phase'[c] = "idle" /\ started'[c] = {} /\ active'[c] = {}
            /\ reports'[c] = <<>>
        BY <1>1, <2>1 DEF Call!Deliver, PoolTypes
      <3> QED
        BY <1>3, <2>1, <3>2, <3>3, <3>4
    <2> QED
      BY <2>2, <2>3
  <1>5. CASE Call!Abort(c)
    <2>1. phase[c] = "pool" /\ started[c] = {} /\ Call!Deliver(c, Thrown)
      BY <1>5 DEF Call!Abort
    <2>2. active[c] = {}
      BY <2>1 DEF IInv, ThreadsOK
    <2> QED
      BY <1>1, <1>3, <2>1, <2>2 DEF Call!Deliver, PoolTypes
  <1> QED
    BY <1>4, <1>5

(* After a success every board of the call has all its scores. *)
LEMMA SuccessIsAllScored ==
  ASSUME IInv, phase[c] # "idle", active[c] = {}, reports[c] = <<>>,
         started[c] = batch[c], call.entry \in TableEntries
  PROVE  AllScored
  <1>1. batch[c] = DOMAIN boards /\ DOMAIN boards \subseteq BoardNumbers
    BY DEF IInv, TypeInv, ServiceOK, BoardsOK
  <1>2. ASSUME NEW b \in DOMAIN boards, NEW first \in Hands
        PROVE  scores[b][first] = Value[boards[b].deal][boards[b].trump][first]
    <2>1. b \in started[c] \ active[c] /\ b \in BoardNumbers
      BY <1>1
    <2>2. scores[b][first] # None
      BY <2>1 DEF IInv, ScoresOK
    <2> QED
      BY <2>1, <2>2 DEF IInv, ScoresOK
  <1> QED
    BY <1>2 DEF AllScored

(* Then the tables of the call are right where they were asked for. *)
LEMMA TablesAreFilled ==
  ASSUME IInv, phase[c] # "idle", AllScored, call.entry \in TableEntries,
         NEW m \in Asked(call)
  PROVE  /\ \A strain \in Strains :
              FilledTable(m)[strain] =
                IF strain \in Included(call)
                THEN DoubleDummy(call.deals[m + 1])[strain]
                ELSE results[m][strain]
         /\ FilledTable(m) \in Tables
  <1>1. Served(call) /\ Refusal(call) = NoFault /\ boards \in Filled(call)
    BY DEF IInv, ServiceOK
  <1>2. call.deals \in Seq(Deals) /\ m \in 0..(Len(call.deals) - 1)
        /\ m \in TableNumbers
    BY <1>1, RequestFacts DEF Asked
  <1>3. call.deals # <<>> /\ call.deals[m + 1] \in Deals
    BY <1>2
  <1>4. boards = BoardsOf(call)
    BY <1>1, <1>3 DEF Filled
  <1>5. \A strain \in Strains :
          FilledTable(m)[strain] =
            IF strain \in Included(call)
            THEN DoubleDummy(call.deals[m + 1])[strain]
            ELSE results[m][strain]
    BY <1>1, <1>4, FilledRight
  <1>6. results[m] \in Tables
    BY <1>2 DEF IInv, TypeInv, OutputTypes
  <1>7. \A strain \in Strains : FilledTable(m)[strain] \in [Hands -> Tricks \union {None}]
    <2> TAKE strain \in Strains
    <2>1. DoubleDummy(call.deals[m + 1])[strain] \in [Hands -> Tricks]
      BY <1>3, ValueType
    <2>2. results[m][strain] \in [Hands -> Tricks \union {None}]
      BY <1>6 DEF Tables
    <2> QED
      BY <1>5, <2>1, <2>2
  <1>8. FilledTable(m) \in Tables
    <2>1. \E f : FilledTable(m) = [strain \in Strains |-> f[strain]]
      <3> WITNESS FilledTable(m)
      <3> QED
        BY DEF FilledTable
    <2> QED
      BY <1>7, <2>1 DEF Tables
  <1> QED
    BY <1>5, <1>8

(* What a delivery does to the outputs. *)
LEMMA DeliveredOutputs ==
  ASSUME IInv, Deliver
  PROVE  /\ OutputTypes'
         /\ result'[c] # NoFault => UNCHANGED outputs
         /\ result'[c] = NoFault /\ call.entry \in SolveEntries =>
              /\ counted' = Cardinality(DOMAIN boards)
              /\ UNCHANGED results
         /\ result'[c] = NoFault /\ call.entry \in TableEntries =>
              /\ AllScored
              /\ \A m \in TableNumbers : results'[m] =
                   IF m \in Asked(call) THEN FilledTable(m) ELSE results[m]
              /\ call.entry \in {"tables", "tablesX"} /\ WantsPar(call) =>
                   \A m \in Asked(call) : pars'[m] = results'[m]
  <1>1. /\ Call!Finish(c) \/ Call!Abort(c)
        /\ IF result'[c] # NoFault THEN UNCHANGED outputs
           ELSE IF call.entry \in SolveEntries
           THEN /\ counted' = Cardinality(DOMAIN boards)
                /\ UNCHANGED <<results, pars>>
           ELSE /\ counted' = IF call.entry = "tables"
                              THEN counted + 4 * Cardinality(DOMAIN boards) ELSE counted
                /\ results' = [m \in TableNumbers |->
                     IF m \in Asked(call) THEN FilledTable(m) ELSE results[m]]
                /\ pars' = [m \in TableNumbers |->
                     IF /\ m \in Asked(call)
                        /\ call.entry \in {"tables", "tablesX"}
                        /\ WantsPar(call)
                     THEN ParTable(m) ELSE pars[m]]
    BY DEF Deliver
  <1>2. phase[c] # "idle" /\ active[c] = {}
        /\ (result'[c] = NoFault => reports[c] = <<>> /\ started[c] = batch[c])
    BY <1>1, DeliveryOutcome
  <1>3. Served(call) /\ Refusal(call) = NoFault /\ boards \in Filled(call)
    BY <1>2 DEF IInv, ServiceOK
  <1>4. Cardinality(DOMAIN boards) \in Nat
    BY <1>3, FilledIsTyped
  <1>5. Asked(call) \subseteq TableNumbers
    BY <1>3, RequestFacts
  <1>6. OutputTypes
    BY DEF IInv, TypeInv
  <1>7. CASE result'[c] # NoFault
    BY <1>1, <1>6, <1>7 DEF OutputTypes, outputs
  <1>8. CASE result'[c] = NoFault /\ call.entry \in SolveEntries
    BY <1>1, <1>4, <1>6, <1>8, EntriesDiffer DEF OutputTypes
  <1>9. CASE result'[c] = NoFault /\ call.entry \notin SolveEntries
    <2>1. call.entry \in TableEntries
      BY <1>3, <1>9, RequestFacts
    <2>2. AllScored
      BY <1>2, <1>9, <2>1, SuccessIsAllScored
    <2>3. \A m \in Asked(call) : FilledTable(m) \in Tables
      BY <1>2, <2>1, <2>2, TablesAreFilled
    <2>4. /\ counted' = IF call.entry = "tables"
                        THEN counted + 4 * Cardinality(DOMAIN boards) ELSE counted
          /\ results' = [m \in TableNumbers |->
                 IF m \in Asked(call) THEN FilledTable(m) ELSE results[m]]
          /\ pars' = [m \in TableNumbers |->
                 IF /\ m \in Asked(call)
                    /\ call.entry \in {"tables", "tablesX"}
                    /\ WantsPar(call)
                 THEN results'[m] ELSE pars[m]]
      BY <1>1, <1>9 DEF ParTable
    <2>5. results' \in [TableNumbers -> Tables]
      BY <1>6, <2>3, <2>4 DEF OutputTypes
    <2>6. pars' \in [TableNumbers -> Tables]
      BY <1>6, <2>4, <2>5 DEF OutputTypes
    <2>7. counted' \in Nat
      BY <1>4, <1>6, <2>4 DEF OutputTypes
    <2>8. \A m \in TableNumbers : results'[m] =
            IF m \in Asked(call) THEN FilledTable(m) ELSE results[m]
      BY <2>4
    <2>9. call.entry \in {"tables", "tablesX"} /\ WantsPar(call) =>
            \A m \in Asked(call) : pars'[m] = results'[m]
      BY <1>5, <2>4
    <2> QED
      BY <1>9, <2>2, <2>5, <2>6, <2>7, <2>8, <2>9 DEF OutputTypes
  <1> QED
    BY <1>7, <1>8, <1>9

(* A legacy call that wants pars has room for them. *)
LEMMA ParsHaveRoom ==
  ASSUME NEW r, Served(r), r.entry = "tables", Refusal(r) = NoFault, WantsPar(r)
  PROVE  Len(r.deals) <= MAXNOOFTABLES
  <1>1. DDS_STRAINS \in Nat \ {0} /\ MAXNOOFTABLES \in Nat /\ Len(r.deals) \in Nat
    BY SizesAssumption, RequestFacts
  <1>2. Included(r) = Strains /\ Cardinality(Strains) = DDS_STRAINS
    BY <1>1, FS_Interval DEF WantsPar, Strains
  <1>3. ~TooManyTables(r)
    BY DEF Refusal, NoFault
  <1>4. DDS_STRAINS * Len(r.deals) <= DDS_STRAINS * MAXNOOFTABLES
    <2>1. MAXNOOFTABLES * DDS_STRAINS = DDS_STRAINS * MAXNOOFTABLES
      BY <1>1
    <2>2. DDS_STRAINS * Len(r.deals) \in Nat /\ DDS_STRAINS * MAXNOOFTABLES \in Nat
      BY <1>1
    <2> QED
      BY <1>2, <1>3, <2>1, <2>2 DEF TooManyTables
  <1>5. ASSUME MAXNOOFTABLES < Len(r.deals) PROVE FALSE
    <2>1. DDS_STRAINS * MAXNOOFTABLES + DDS_STRAINS <= DDS_STRAINS * Len(r.deals)
      BY <1>1, <1>5, MultiplesAreApart
    <2>2. DDS_STRAINS * MAXNOOFTABLES \in Nat /\ DDS_STRAINS * Len(r.deals) \in Nat
      BY <1>1
    <2> QED
      BY <1>1, <1>4, <2>1, <2>2
  <1> QED
    BY <1>1, <1>5

LEMMA DeliverStep ==
  ASSUME IInv, Deliver
  PROVE  IInv'
  <1>1. /\ answer = "pending"
        /\ Call!Finish(c) \/ Call!Abort(c)
        /\ answer' = IF call.entry = "tablesX" /\ result'[c] = Thrown THEN Unknown
                     ELSE result'[c]
        /\ UNCHANGED <<call, calls, boards, busy, position, scores>>
    BY DEF Deliver
  <1>2. /\ phase[c] # "idle" /\ phase'[c] = "idle"
        /\ started'[c] = {} /\ active'[c] = {} /\ reports'[c] = <<>>
        /\ active[c] = {} /\ PoolTypes'
        /\ result'[c] = NoFault => reports[c] = <<>> /\ started[c] = batch[c]
    BY <1>1, DeliveryOutcome
  <1>3. Served(call) /\ Refusal(call) = NoFault /\ boards \in Filled(call)
    BY <1>2 DEF IInv, ServiceOK
  <1>4. TypeInv
    BY DEF IInv
  <1>5. result'[c] \in {NoFault, Unknown, Thrown, DealFault}
    BY <1>2 DEF PoolTypes
  <1>6. /\ answer' \in {NoFault, Unknown, Thrown, DealFault}
        /\ answer' = NoFault => result'[c] = NoFault
    BY <1>1, <1>5 DEF NoFault, Unknown
  <1>7. CallOK'
    BY <1>1, <1>4, <1>6 DEF TypeInv, CallOK, Codes
  <1>8. WorkTypes' /\ BoardsOK'
    BY <1>1, <1>4 DEF TypeInv, WorkTypes, BoardsOK
  <1>9. OutputTypes'
    BY DeliveredOutputs
  <1>10. ServiceOK'
    BY <1>2, <1>6 DEF ServiceOK, NoFault, Unknown, Thrown, DealFault
  <1>11. ThreadsOK' /\ ScoresOK'
    <2>0. active[c] = {}
      BY <1>2
    <2>1. \A t \in Threads : busy[t] = Idle
      BY <2>0 DEF IInv, ThreadsOK
    <2>2. /\ (active[c] = {})' /\ (started[c] = {})'
          /\ (\A t \in Threads : busy[t] = Idle)' /\ (phase[c] = "idle")'
      BY <1>1, <1>2, <2>1
    <2> QED
      BY <2>2, NothingInFlight, PTL
  <1>12. TablesAreRight'
    <2> SUFFICES ASSUME result'[c] = NoFault, call.entry \in TableEntries
                 PROVE  /\ ParsAreRight'
                        /\ \A m \in Asked(call), strain \in Included(call) :
                             results'[m][strain] = DoubleDummy(call.deals[m + 1])[strain]
      BY <1>1, <1>6 DEF TablesAreRight
    <2>1. /\ AllScored
          /\ \A m \in TableNumbers : results'[m] =
               IF m \in Asked(call) THEN FilledTable(m) ELSE results[m]
          /\ call.entry \in {"tables", "tablesX"} /\ WantsPar(call) =>
               \A m \in Asked(call) : pars'[m] = results'[m]
      BY DeliveredOutputs
    <2>2. Asked(call) \subseteq TableNumbers /\ Included(call) \subseteq Strains
      BY <1>3, RequestFacts
    <2>3. \A m \in Asked(call) :
            /\ results'[m] = FilledTable(m)
            /\ FilledTable(m) \in Tables
            /\ \A strain \in Included(call) :
                 FilledTable(m)[strain] = DoubleDummy(call.deals[m + 1])[strain]
      BY <1>2, <2>1, <2>2, TablesAreFilled
    <2>4. ASSUME call.entry \in {"tables", "tablesX"}, WantsPar(call), NEW m \in Asked(call)
          PROVE  pars'[m] = DoubleDummy(call.deals[m + 1])
      <3>1. pars'[m] = FilledTable(m)
        BY <2>1, <2>3, <2>4
      <3>2. Included(call) = Strains
        BY <2>4 DEF WantsPar
      <3>3. \E f : DoubleDummy(call.deals[m + 1]) = [strain \in Strains |-> f[strain]]
        <4> WITNESS DoubleDummy(call.deals[m + 1])
        <4> QED
          BY DEF DoubleDummy
      <3>4. FilledTable(m) \in Tables
        BY <2>3
      <3> QED
        BY <2>3, <3>1, <3>2, <3>3, <3>4 DEF Tables
    <2>5. call.entry = "tables" /\ WantsPar(call) => Len(call.deals) <= MAXNOOFTABLES
      BY <1>3, ParsHaveRoom
    <2>6. ParsAreRight'
      BY <1>1, <2>4, <2>5 DEF ParsAreRight
    <2> QED
      BY <2>3, <2>6
  <1>13. SolvesAreRight'
    <2> SUFFICES ASSUME call.entry \in SolveEntries
                 PROVE  SolvesAreRight'
      BY <1>1 DEF SolvesAreRight
    <2>1. SolvesAreRight /\ call # NoRequest
      BY <1>3, RequestFacts DEF IInv, NoRequest, TableEntries, SolveEntries
    <2>2. \A b \in BoardNumbers :
            scores[b][0] # None =>
              b \in Asked(call) /\ scores[b][0] = Value[call.deals[b + 1]][0][0]
      BY <1>3, <2>1 DEF SolvesAreRight
    <2>3. ASSUME result'[c] = NoFault
          PROVE  /\ counted' = Len(call.deals)
                 /\ \A b \in Asked(call) : scores[b][0] # None
      <3>1. /\ Cardinality(DOMAIN boards) = BoardCount(call)
            /\ boards = BoardsOf(call)
        BY <1>3, FilledIsTyped DEF SolveEntries
      <3>2. BoardCount(call) = Len(call.deals)
        BY DEF BoardCount
      <3>3. DOMAIN boards = Asked(call)
        BY <3>1, <3>2 DEF BoardsOf, Asked
      <3>4. DOMAIN boards = batch[c]
        BY <1>2 DEF IInv, ServiceOK
      <3>5. \A b \in Asked(call) : scores[b][0] # None
        BY <1>2, <2>3, <3>3, <3>4 DEF IInv, ScoresOK
      <3> QED
        BY <2>3, <3>1, <3>2, <3>5, DeliveredOutputs
    <2> QED
      BY <1>1, <1>6, <2>2, <2>3 DEF SolvesAreRight
  <1> QED
    BY <1>2, <1>7, <1>8, <1>9, <1>10, <1>11, <1>12, <1>13 DEF IInv, TypeInv

-----------------------------------------------------------------------------
(* Every step *)

LEMMA NextStep ==
  ASSUME IInv, [Next]_vars
  PROVE  IInv'
  <1>1. ASSUME UNCHANGED vars PROVE IInv'
    <2>1. /\ UNCHANGED <<phase, batch, started, active, reports, result>>
          /\ UNCHANGED <<call, calls, answer, boards, busy, position, scores>>
          /\ UNCHANGED <<counted, results, pars>>
      BY <1>1 DEF vars, pool, outputs
    <2>2. CallOK' /\ PoolTypes' /\ WorkTypes' /\ OutputTypes' /\ BoardsOK'
      BY <2>1 DEF IInv, TypeInv, CallOK, PoolTypes, WorkTypes, OutputTypes, BoardsOK
    <2>3. ServiceOK' /\ ThreadsOK' /\ ScoresOK'
      BY <2>1 DEF IInv, ServiceOK, ThreadsOK, ScoresOK
    <2>4. TablesAreRight' /\ SolvesAreRight'
      BY <2>1 DEF IInv, TablesAreRight, ParsAreRight, SolvesAreRight
    <2> QED
      BY <2>2, <2>3, <2>4 DEF IInv, TypeInv
  <1>2. ASSUME NEW r, Refuse(r) \/ Begin(r) \/ BeginEmpty(r) PROVE IInv'
    BY <1>2, RefuseStep, BeginStep, BeginEmptyStep
  <1>3. ASSUME NEW t \in Threads, NEW b \in BoardNumbers, Take(t, b) PROVE IInv'
    BY <1>3, TakeStep
  <1>4. ASSUME NEW t \in Threads, Solve(t) \/ SolveFails(t) \/ Repeat(t) PROVE IInv'
    BY <1>4, SolveStep, SolveFailsStep, RepeatStep
  <1>5. ASSUME Deliver PROVE IInv'
    BY <1>5, DeliverStep
  <1> QED
    BY <1>1, <1>2, <1>3, <1>4, <1>5 DEF Next

LEMMA Invariance == Spec => []IInv
  <1>1. IInv /\ [Next]_vars => IInv'
    BY NextStep
  <1> QED
    BY InitInv, <1>1, PTL DEF Spec

(* Each variable keeps its type, the boards of a legacy call fit its       *)
(* arrays, and the boards in work are those of the busy threads.           *)
THEOREM TypeCorrect == Spec => []TypeOK
  BY Invariance, InvImpliesTypeOK, PTL

(* A table calculation that succeeds gives the right tables, and pars of   *)
(* them: calc_all_tables and calc_dd_table with any number of threads, in  *)
(* any order of the boards, after any history of calls.                    *)
THEOREM TablesAlwaysRight == Spec => []TablesAreRight
  <1>1. IInv => TablesAreRight
    BY DEF IInv
  <1> QED
    BY Invariance, <1>1, PTL

(* A list of boards that succeeds is solved completely, and one that fails *)
(* half-way shows only answers of its own boards.                          *)
THEOREM SolvesAlwaysRight == Spec => []SolvesAreRight
  <1>1. IInv => SolvesAreRight
    BY DEF IInv
  <1> QED
    BY Invariance, <1>1, PTL

(* Tables that were not asked for, rows that were filtered out and the     *)
(* tables of a call that failed keep what they held.                       *)
THEOREM RowsKept == Spec => OnlyAskedRowsChange
  <1> DEFINE Kept ==
        \A m \in TableNumbers, strain \in Strains :
          results'[m][strain] # results[m][strain] =>
            /\ answer' = NoFault
            /\ m \in Asked(call)
            /\ strain \in Included(call)
  <1>1. IInv /\ [Next]_vars => [Kept]_vars
    <2> SUFFICES ASSUME IInv, Next, ~Kept PROVE FALSE
      OBVIOUS
    <2>1. CASE Deliver
      <3>1. PICK m \in TableNumbers, strain \in Strains :
              /\ results'[m][strain] # results[m][strain]
              /\ ~(answer' = NoFault /\ m \in Asked(call) /\ strain \in Included(call))
        OBVIOUS
      <3>2. result'[c] = NoFault /\ call.entry \notin SolveEntries
        BY <2>1, <3>1, DeliveredOutputs DEF outputs
      <3>3. /\ answer' = NoFault /\ Served(call) /\ phase[c] # "idle"
        <4>1. phase[c] # "idle" /\ answer' = NoFault
          BY <2>1, <3>2, DeliveryOutcome DEF Deliver, NoFault, Thrown
        <4> QED
          BY <4>1 DEF IInv, ServiceOK
      <3>4. call.entry \in TableEntries
        BY <3>2, <3>3, RequestFacts
      <3>5. /\ AllScored
            /\ results'[m] = IF m \in Asked(call) THEN FilledTable(m) ELSE results[m]
        BY <2>1, <3>2, <3>4, DeliveredOutputs
      <3>6. m \in Asked(call)
        BY <3>1, <3>5
      <3>7. strain \in Included(call)
        BY <3>1, <3>3, <3>4, <3>5, <3>6, TablesAreFilled
      <3> QED
        BY <3>1, <3>3, <3>6, <3>7
    <2>2. CASE ~Deliver
      <3>1. UNCHANGED results
        BY <2>2 DEF Next, Refuse, Begin, BeginEmpty, Take, Solve, SolveFails, Repeat,
                    Ends, outputs
      <3> QED
        BY <3>1
    <2> QED
      BY <2>1, <2>2
  <1> QED
    BY Invariance, <1>1, PTL DEF Spec, OnlyAskedRowsChange
=============================================================================

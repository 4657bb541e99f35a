------------------------- MODULE MilestoneRulesProofs -------------------------
(***************************************************************************)
(* What the derived statuses of a conference are, for any milestones:      *)
(* lemmas about the operators of MilestoneRules, which the proofs about    *)
(* ConferenceRecords cite; and what sums over finite sets are, which the   *)
(* scores of Portfolio are computed from.  The facts about every finite    *)
(* set come from the well-foundedness of < on Nat, by way of a set of the  *)
(* sizes (NatSet) or of the subsets (SubsetSet) that something holds of.   *)
(***************************************************************************)
EXTENDS Integers, FiniteSetsExt, MilestoneRules, FiniteSetTheorems, WellFoundedInduction,
        TLAPS

\* The least of a set of natural numbers.
LEMMA MinOfNaturals ==
  ASSUME NEW S \in SUBSET Nat, S # {}
  PROVE  Min(S) \in S /\ \A n \in S : Min(S) <= n
<1>1. PICK m \in S : \A n \in S : ~(<<n, m>> \in OpToRel(<, Nat))
  BY NatLessThanWellFounded, WFMin
<1>2. \A n \in S : ~(n < m)
  BY <1>1 DEF OpToRel
<1>3. \A n \in S : m <= n
  BY <1>2
<1>4. QED
  BY <1>3 DEF Min

\* STATUS_PRIORITY has 14 places.
LEMMA PriorityDomain == DOMAIN Priority = 1 .. 14
BY DEF Priority

\* The statuses of STATUS_PRIORITY, in its order.
LEMMA PriorityValues ==
  /\ Priority[1] = "Blocked" /\ Priority[2] = "Rejected" /\ Priority[3] = "Not Started"
  /\ Priority[4] = "In Progress" /\ Priority[5] = "Awaiting IEEE"
  /\ Priority[6] = "Awaiting Conference" /\ Priority[7] = "Awaiting External Party"
  /\ Priority[8] = "Submitted" /\ Priority[9] = "Approved" /\ Priority[10] = "Complete"
  /\ Priority[11] = "Published" /\ Priority[12] = "Closed"
  /\ Priority[13] = "Not Applicable" /\ Priority[14] = "Cancelled"
BY DEF Priority

\* Each of them is a status, and none is unknown.
LEMMA PriorityKnown ==
  \A n \in DOMAIN Priority : Priority[n] \in Statuses /\ Priority[n] # "Unknown"
<1>1. SUFFICES ASSUME NEW n \in 1 .. 14 PROVE Priority[n] # "Unknown"
  BY PriorityDomain DEF Statuses
<1>2. \/ n = 1 \/ n = 2 \/ n = 3 \/ n = 4 \/ n = 5 \/ n = 6 \/ n = 7 \/ n = 8
      \/ n = 9 \/ n = 10 \/ n = 11 \/ n = 12 \/ n = 13 \/ n = 14
  OBVIOUS
<1>3. QED
  BY <1>2, PriorityValues

\* aggregate_status of the statuses it is called with is the one of them that
\* comes first in the priority list, or "Unknown" when none is known.
THEOREM AggregateIsFirst ==
  ASSUME NEW a \in Statuses, NEW b \in Statuses, NEW c \in Statuses
  PROVE  LET first == AggregateStatus(<<a, b, c>>) IN
         \/ first = "Unknown" /\ {a, b, c} = {"Unknown"}
         \/ \E n \in DOMAIN Priority :
              /\ first = Priority[n] /\ first \in {a, b, c}
              /\ \A m \in DOMAIN Priority : Priority[m] \in {a, b, c} => n <= m
<1> DEFINE list  == <<a, b, c>>
           known == {i \in DOMAIN list : list[i] # "Unknown"}
           ranks == {n \in DOMAIN Priority : \E i \in known : list[i] = Priority[n]}
<1>0. DOMAIN list = 1 .. 3 /\ list[1] = a /\ list[2] = b /\ list[3] = c
  OBVIOUS
<1>1. CASE known = {}
  <2>1. AggregateStatus(list) = "Unknown"
    BY <1>1 DEF AggregateStatus
  <2>2. {a, b, c} = {"Unknown"}
    BY <1>0, <1>1
  <2>3. QED
    BY <2>1, <2>2
<1>2. CASE known # {}
  <2>1. ranks # {}
    <3>1. PICK i \in 1 .. 3 : list[i] # "Unknown"
      BY <1>0, <1>2
    <3>2. list[i] \in Statuses
      BY <1>0
    <3>3. PICK n \in DOMAIN Priority : list[i] = Priority[n]
      BY <3>1, <3>2 DEF Statuses
    <3>4. QED
      BY <1>0, <3>1, <3>3
  <2>2. ranks \in SUBSET Nat
    BY PriorityDomain
  <2>3. Min(ranks) \in ranks /\ \A n \in ranks : Min(ranks) <= n
    BY <2>1, <2>2, MinOfNaturals
  <2>4. AggregateStatus(list) = Priority[Min(ranks)]
    BY <1>2, <2>1 DEF AggregateStatus
  <2>5. Priority[Min(ranks)] \in {a, b, c}
    BY <1>0, <2>3
  <2>6. ASSUME NEW m \in DOMAIN Priority, Priority[m] \in {a, b, c}
        PROVE  m \in ranks
    <3>1. Priority[m] # "Unknown"
      BY PriorityKnown
    <3>2. QED
      BY <1>0, <2>6, <3>1
  <2>7. QED
    BY <2>3, <2>4, <2>5, <2>6
<1>3. QED
  BY <1>1, <1>2

\* An aggregate of statuses is a status.
LEMMA AggregateStatusType ==
  ASSUME NEW a \in Statuses, NEW b \in Statuses, NEW c \in Statuses
  PROVE  AggregateStatus(<<a, b, c>>) \in Statuses
<1> DEFINE first == AggregateStatus(<<a, b, c>>)
<1>1. first = "Unknown" \/ \E n \in DOMAIN Priority : first = Priority[n]
  BY AggregateIsFirst
<1>2. QED
  BY <1>1 DEF Statuses

\* The aggregate of the finance milestones is a status.
LEMMA AggregateFinanceType ==
  ASSUME NEW budget \in Statuses, NEW banking \in Statuses, NEW close \in Statuses
  PROVE  AggregateFinance(budget, banking, close) \in Statuses
<1>1. AggregateStatus(<<budget, banking, close>>) \in Statuses
  BY AggregateStatusType
<1>2. "In Progress" \in Statuses
  <2>1. 4 \in DOMAIN Priority
    BY PriorityDomain
  <2>2. QED
    BY <2>1, PriorityValues, PriorityKnown
<1>3. QED
  BY <1>1, <1>2 DEF AggregateFinance

\* The finance fact is a status.
LEMMA FinanceStatusType ==
  ASSUME NEW C, NEW status \in [C -> Statuses], NEW old \in Statuses
  PROVE  FinanceStatus(status, old) \in Statuses
BY AggregateFinanceType DEF FinanceStatus, Statuses

\* The publication fact is a status.
LEMMA PublicationStatusType ==
  ASSUME NEW C, NEW status \in [C -> Statuses], NEW old \in Statuses
  PROVE  PublicationStatus(status, old) \in Statuses
BY AggregateStatusType DEF PublicationStatus, Statuses

\* A derived status does not depend on what it was before, unless it stays.
LEMMA DerivedTwice ==
  ASSUME NEW status, NEW old
  PROVE  /\ FinanceStatus(status, FinanceStatus(status, old)) = FinanceStatus(status, old)
         /\ PublicationStatus(status, PublicationStatus(status, old)) =
              PublicationStatus(status, old)
BY DEF FinanceStatus, PublicationStatus

\* Excluding the finance milestones leaves statuses.
LEMMA FinanceExcludedType ==
  ASSUME NEW C, NEW status \in [C -> Statuses], NEW tcs
  PROVE  FinanceExcluded(tcs, status) \in [C -> Statuses]
<1>1. "Not Applicable" \in Statuses
  <2>1. 13 \in DOMAIN Priority
    BY PriorityDomain
  <2>2. QED
    BY <2>1, PriorityValues, PriorityKnown
<1>2. QED
  BY <1>1 DEF FinanceExcluded

\* Excluding them twice is excluding them once.
LEMMA FinanceExcludedTwice ==
  ASSUME NEW C, NEW S, NEW status \in [C -> S], NEW tcs
  PROVE  FinanceExcluded(tcs, FinanceExcluded(tcs, status)) = FinanceExcluded(tcs, status)
BY DEF FinanceExcluded

\* A blocked or rejected finance milestone shows in the finance status of its
\* conference, whatever the state of the others.
THEOREM BlockedFinanceShows ==
  ASSUME NEW C, NEW status \in [C -> Statuses], NEW old \in Statuses,
         NEW k \in C \cap FinanceCodes, status[k] \in {"Blocked", "Rejected"}
  PROVE  FinanceStatus(status, old) \in {"Blocked", "Rejected"}
<1> DEFINE Of(x) == IF x \in C THEN status[x] ELSE "Unknown"
           all == {Of("BUDGET"), Of("BANKING"), Of("FIN_CLOSE")}
           first == AggregateStatus(<<Of("BUDGET"), Of("BANKING"), Of("FIN_CLOSE")>>)
<1>1. Of("BUDGET") \in Statuses /\ Of("BANKING") \in Statuses /\ Of("FIN_CLOSE") \in Statuses
  BY DEF Statuses
<1>2. status[k] \in all
  BY DEF FinanceCodes
<1>3. FinanceStatus(status, old) = first
  BY <1>2 DEF FinanceStatus, AggregateFinance
<1>4. status[k] = Priority[1] \/ status[k] = Priority[2]
  BY PriorityValues
<1>5. \/ first = "Unknown" /\ all = {"Unknown"}
      \/ \E n \in DOMAIN Priority :
           /\ first = Priority[n]
           /\ \A m \in DOMAIN Priority : Priority[m] \in all => n <= m
  <2> HIDE DEF Of
  <2>1. QED
    BY <1>1, AggregateIsFirst
<1>6. PICK n \in 1 .. 14 : first = Priority[n] /\ n <= 2
  <2>1. all # {"Unknown"}
    BY <1>2
  <2>2. QED
    BY <1>2, <1>4, <1>5, <2>1, PriorityDomain
<1>7. n = 1 \/ n = 2
  BY <1>6
<1>8. QED
  BY <1>3, <1>6, <1>7, PriorityValues

-----------------------------------------------------------------------------
(* Sums over finite sets                                                   *)

\* A set of numbers with 0 and the successor of each of its members has all.
LEMMA NatSet ==
  ASSUME NEW N \in SUBSET Nat, 0 \in N, \A n \in N : n + 1 \in N
  PROVE  N = Nat
<1>1. SUFFICES ASSUME Nat \ N # {} PROVE FALSE
  OBVIOUS
<1>2. PICK m \in Nat \ N : \A n \in Nat \ N : ~(<<n, m>> \in OpToRel(<, Nat))
  BY <1>1, NatLessThanWellFounded, WFMin
<1>3. \A n \in Nat \ N : ~(n < m)
  BY <1>2 DEF OpToRel
<1>4. m # 0 /\ m - 1 \in Nat /\ m - 1 < m /\ (m - 1) + 1 = m
  OBVIOUS
<1>5. m - 1 \in N
  BY <1>3, <1>4
<1>6. QED
  BY <1>4, <1>5

\* A sum over a set, as the function from its subsets that defines it.
Sums(g, f, S) ==
  g = [T \in SUBSET S |-> IF T = {} THEN 0
                          ELSE LET x == CHOOSE x \in T : TRUE IN f[x] + g[T \ {x}]]

\* A sum is the value at the set of the function the library chooses.
LEMMA SumIs ==
  ASSUME NEW f, NEW S
  PROVE  SumFunctionOnSet(f, S) = (CHOOSE g : Sums(g, f, S))[S]
BY DEF SumFunctionOnSet, FoldFunctionOnSet, MapThenFoldSet, Sums

\* There is such a function on the subsets of a finite set.
LEMMA SumsExist ==
  ASSUME NEW f, NEW S, IsFiniteSet(S)
  PROVE  \E g : Sums(g, f, S)
<1> DEFINE Next(g, T) == IF T = {} THEN 0
                         ELSE LET x == CHOOSE x \in T : TRUE IN f[x] + g[T \ {x}]
           Upto(g, n) == \A T \in SUBSET S : Cardinality(T) <= n => g[T] = Next(g, T)
           N == {n \in Nat : \E g : Upto(g, n)}
<1>1. \A T \in SUBSET S : IsFiniteSet(T) /\ Cardinality(T) \in Nat
  BY FS_Subset, FS_CardinalityType
<1>2. ASSUME NEW T \in SUBSET S, T # {}, NEW n \in Nat, Cardinality(T) <= n + 1
      PROVE  LET x == CHOOSE x \in T : TRUE IN
             T \ {x} \in SUBSET S /\ Cardinality(T \ {x}) <= n
  <2> DEFINE x == CHOOSE x \in T : TRUE
  <2>1. x \in T
    BY <1>2
  <2> HIDE DEF x
  <2>2. Cardinality(T \ {x}) = Cardinality(T) - 1
    BY <1>1, <2>1, FS_RemoveElement
  <2>3. T \ {x} \in SUBSET S /\ Cardinality(T \ {x}) <= n
    BY <1>1, <1>2, <2>2
  <2>4. QED
    BY <2>3 DEF x
<1>3. 0 \in N
  <2> DEFINE g == [T \in SUBSET S |-> 0]
  <2>1. Upto(g, 0)
    BY <1>1, FS_EmptySet
  <2>2. QED
    BY <2>1
<1>4. ASSUME NEW n \in N
      PROVE  n + 1 \in N
  <2>1. PICK g : Upto(g, n)
    OBVIOUS
  <2> DEFINE h == [T \in SUBSET S |-> IF Cardinality(T) <= n THEN g[T] ELSE Next(g, T)]
  <2>2. ASSUME NEW T \in SUBSET S, Cardinality(T) <= n + 1
        PROVE  h[T] = Next(h, T)
    <3> DEFINE x == CHOOSE x \in T : TRUE
    <3>1. h[T] = Next(g, T)
      BY <2>1
    <3>2. CASE T = {}
      BY <3>1, <3>2
    <3>3. CASE T # {}
      <4>1. T \ {x} \in SUBSET S /\ Cardinality(T \ {x}) <= n
        BY <1>2, <2>2, <3>3
      <4>2. h[T \ {x}] = g[T \ {x}]
        BY <4>1
      <4>3. QED
        BY <3>1, <3>3, <4>2
    <3>4. QED
      BY <3>2, <3>3
  <2>3. Upto(h, n + 1)
    BY <2>2
  <2>4. n + 1 \in Nat /\ \E k : Upto(k, n + 1)
    <3> HIDE DEF h, Upto
    <3>1. QED
      BY <2>3
  <2>5. QED
    BY <2>4
<1> HIDE DEF N
<1>5. N = Nat
  BY <1>3, <1>4, NatSet DEF N
<1>6. PICK g : Upto(g, Cardinality(S))
  BY <1>1, <1>5 DEF N
<1> DEFINE h == [T \in SUBSET S |-> g[T]]
<1>7. ASSUME NEW T \in SUBSET S
      PROVE  h[T] = Next(h, T)
  <2>1. Cardinality(T) <= Cardinality(S)
    BY FS_Subset
  <2>2. h[T] = Next(g, T)
    BY <1>6, <2>1
  <2>3. T # {} => T \ {CHOOSE x \in T : TRUE} \in SUBSET S
    OBVIOUS
  <2>4. QED
    BY <2>2, <2>3
<1>8. h = [T \in SUBSET S |-> Next(h, T)]
  <2>1. h = [T \in SUBSET S |-> h[T]]
    OBVIOUS
  <2> HIDE DEF h
  <2>2. QED
    BY <1>7, <2>1
<1>9. Sums(h, f, S)
  <2> HIDE DEF h
  <2>1. QED
    BY <1>8 DEF Sums
<1>10. QED
  BY <1>9

\* The function of the sums over the subsets of a finite set.
SumsOf(f, S) == CHOOSE g : Sums(g, f, S)

\* So the chosen one has the equations of the recursion.
LEMMA SumsOfIs ==
  ASSUME NEW f, NEW S, IsFiniteSet(S)
  PROVE  LET g == SumsOf(f, S) IN
         /\ g[{}] = 0
         /\ \A T \in SUBSET S : T # {} =>
              LET x == CHOOSE x \in T : TRUE IN x \in T /\ g[T] = f[x] + g[T \ {x}]
<1> DEFINE g == SumsOf(f, S)
<1>1. Sums(g, f, S)
  BY SumsExist DEF SumsOf
<1> HIDE DEF g
<1>2. ASSUME NEW T \in SUBSET S
      PROVE  g[T] = IF T = {} THEN 0
                    ELSE LET x == CHOOSE x \in T : TRUE IN f[x] + g[T \ {x}]
  BY <1>1 DEF Sums
<1>3. \A T \in SUBSET S : T # {} => (CHOOSE x \in T : TRUE) \in T
  OBVIOUS
<1>4. /\ g[{}] = 0
      /\ \A T \in SUBSET S : T # {} =>
           LET x == CHOOSE x \in T : TRUE IN x \in T /\ g[T] = f[x] + g[T \ {x}]
  BY <1>2, <1>3
<1>5. QED
  BY <1>4 DEF g

\* Any element may be taken out first.
LEMMA SumsOfElement ==
  ASSUME NEW S, IsFiniteSet(S), NEW f \in [S -> Int]
  PROVE  \A T \in SUBSET S :
           /\ SumsOf(f, S)[T] \in Int
           /\ \A x \in T : SumsOf(f, S)[T] = f[x] + SumsOf(f, S)[T \ {x}]
<1> DEFINE g == SumsOf(f, S)
           Good(T) == g[T] \in Int /\ \A x \in T : g[T] = f[x] + g[T \ {x}]
           N == {n \in Nat : \A T \in SUBSET S : Cardinality(T) <= n => Good(T)}
<1>1. \A T \in SUBSET S : IsFiniteSet(T) /\ Cardinality(T) \in Nat
  BY FS_Subset, FS_CardinalityType
<1>2. /\ g[{}] = 0
      /\ \A T \in SUBSET S : T # {} =>
           LET x == CHOOSE x \in T : TRUE IN x \in T /\ g[T] = f[x] + g[T \ {x}]
  BY SumsOfIs
<1> HIDE DEF g
<1>0. Good({})
  BY <1>2
<1>3. 0 \in N
  <2>1. ASSUME NEW T \in SUBSET S, Cardinality(T) <= 0
        PROVE  Good(T)
    <3>1. T = {}
      BY <1>1, <2>1, FS_EmptySet
    <3>2. QED
      BY <1>0, <3>1
  <2> HIDE DEF Good
  <2>2. QED
    BY <2>1
<1>4. ASSUME NEW n \in N
      PROVE  n + 1 \in N
  <2>1. ASSUME NEW T \in SUBSET S, Cardinality(T) <= n + 1, T # {}
        PROVE  Good(T)
    <3>1. PICK x \in T : g[T] = f[x] + g[T \ {x}]
      BY <1>2, <2>1
    <3>2. ASSUME NEW y \in T
          PROVE  T \ {y} \in SUBSET S /\ Cardinality(T \ {y}) <= n
      <4>1. Cardinality(T \ {y}) = Cardinality(T) - 1
        BY <1>1, FS_RemoveElement
      <4>2. QED
        BY <1>1, <2>1, <4>1
    <3>3. \A y \in T : Good(T \ {y})
      BY <3>2
    <3>4. \A y \in T : f[y] \in Int /\ g[T \ {y}] \in Int
      BY <3>3
    <3>5. ASSUME NEW y \in T, y # x
          PROVE  g[T] = f[y] + g[T \ {y}]
      <4>1. g[T \ {x}] = f[y] + g[(T \ {x}) \ {y}]
        BY <3>3, <3>5
      <4>2. g[T \ {y}] = f[x] + g[(T \ {y}) \ {x}]
        BY <3>3, <3>5
      <4>3. (T \ {x}) \ {y} = (T \ {y}) \ {x}
        OBVIOUS
      <4> DEFINE r == g[(T \ {y}) \ {x}]
      <4>4. r \in Int
        <5>1. (T \ {y}) \ {x} \in SUBSET S /\ Cardinality((T \ {y}) \ {x}) <= n
          <6>1. IsFiniteSet(T \ {y}) /\ Cardinality((T \ {y}) \ {x}) <= Cardinality(T \ {y})
            BY <1>1, <3>2, FS_Subset
          <6>2. (T \ {y}) \ {x} \in SUBSET S
            OBVIOUS
          <6>3. QED
            BY <1>1, <3>2, <6>1, <6>2
        <5>2. QED
          BY <5>1
      <4> HIDE DEF r
      <4>5. g[T] = f[x] + (f[y] + r) /\ g[T \ {y}] = f[x] + r
        BY <3>1, <4>1, <4>2, <4>3 DEF r
      <4>6. QED
        BY <3>4, <4>4, <4>5
    <3>6. g[T] \in Int
      BY <3>1, <3>4
    <3>7. \A y \in T : g[T] = f[y] + g[T \ {y}]
      BY <3>1, <3>5
    <3>8. QED
      BY <3>6, <3>7
  <2>2. ASSUME NEW T \in SUBSET S, Cardinality(T) <= n + 1
        PROVE  Good(T)
    <3> HIDE DEF Good
    <3>1. QED
      BY <1>0, <2>1, <2>2
  <2>3. n + 1 \in Nat /\ \A T \in SUBSET S : Cardinality(T) <= n + 1 => Good(T)
    BY <2>2
  <2>4. QED
    BY <2>3
<1> HIDE DEF N
<1>5. N = Nat
  BY <1>3, <1>4, NatSet DEF N
<1>6. ASSUME NEW T \in SUBSET S
      PROVE  Good(T)
  <2>1. Cardinality(T) \in N
    BY <1>1, <1>5
  <2> HIDE DEF Good
  <2>2. \A R \in SUBSET S : Cardinality(R) <= Cardinality(T) => Good(R)
    BY <2>1 DEF N
  <2>3. Cardinality(T) <= Cardinality(T)
    BY <1>1
  <2>4. QED
    BY <2>2, <2>3
<1>7. QED
  BY <1>6 DEF g

\* A set of subsets of a finite set with the empty one, and with each of its
\* members one element more, has all of them.
LEMMA SubsetSet ==
  ASSUME NEW S, IsFiniteSet(S), NEW G \in SUBSET SUBSET S, {} \in G,
         \A T \in G : \A x \in S \ T : T \cup {x} \in G
  PROVE  G = SUBSET S
<1> DEFINE N == {n \in Nat : \A T \in SUBSET S : Cardinality(T) <= n => T \in G}
<1>1. \A T \in SUBSET S : IsFiniteSet(T) /\ Cardinality(T) \in Nat
  BY FS_Subset, FS_CardinalityType
<1>2. 0 \in N
  <2>1. ASSUME NEW T \in SUBSET S, Cardinality(T) <= 0
        PROVE  T \in G
    <3>1. T = {}
      BY <1>1, <2>1, FS_EmptySet
    <3>2. QED
      BY <3>1
  <2>2. QED
    BY <2>1
<1>3. ASSUME NEW n \in N
      PROVE  n + 1 \in N
  <2>1. ASSUME NEW T \in SUBSET S, Cardinality(T) <= n + 1, T # {}
        PROVE  T \in G
    <3>1. PICK x \in T : TRUE
      BY <2>1
    <3>2. Cardinality(T \ {x}) = Cardinality(T) - 1
      BY <1>1, FS_RemoveElement
    <3>3. T \ {x} \in G
      BY <1>1, <2>1, <3>2
    <3>4. (T \ {x}) \cup {x} = T
      OBVIOUS
    <3>5. QED
      BY <3>3, <3>4
  <2>2. QED
    BY <2>1
<1> HIDE DEF N
<1>4. N = Nat
  BY <1>2, <1>3, NatSet DEF N
<1>5. \A T \in SUBSET S : T \in G
  BY <1>1, <1>4 DEF N
<1>6. QED
  BY <1>5

\* The sums over the subsets of a finite set, one element at a time.
LEMMA SumsOfAdd ==
  ASSUME NEW S, IsFiniteSet(S), NEW f \in [S -> Int]
  PROVE  /\ SumsOf(f, S)[{}] = 0
         /\ \A T \in SUBSET S :
              /\ SumsOf(f, S)[T] \in Int
              /\ \A x \in S \ T : SumsOf(f, S)[T \cup {x}] = f[x] + SumsOf(f, S)[T]
<1> DEFINE g == SumsOf(f, S)
<1>1. g[{}] = 0
  BY SumsOfIs
<1>2. \A T \in SUBSET S : g[T] \in Int /\ \A x \in T : g[T] = f[x] + g[T \ {x}]
  BY SumsOfElement
<1> HIDE DEF g
<1>3. ASSUME NEW T \in SUBSET S, NEW x \in S \ T
      PROVE  g[T \cup {x}] = f[x] + g[T]
  <2>1. T \cup {x} \in SUBSET S /\ (T \cup {x}) \ {x} = T
    OBVIOUS
  <2>2. QED
    BY <1>2, <2>1
<1>4. QED
  BY <1>1, <1>2, <1>3 DEF g

\* A sum over a part of a set is the sum over the set of the same function,
\* with zeros beside it.
LEMMA SumPadded ==
  ASSUME NEW S, IsFiniteSet(S), NEW P \in SUBSET S, NEW h \in [P -> Int],
         NEW f \in [S -> Int], \A x \in S : f[x] = IF x \in P THEN h[x] ELSE 0
  PROVE  SumFunction(h) = SumsOf(f, S)[S]
<1> DEFINE g == SumsOf(f, S)
           e == SumsOf(h, P)
           G == {T \in SUBSET S : g[T] = e[T \cap P]}
<1>1. IsFiniteSet(P)
  BY FS_Subset
<1>2. /\ e[{}] = 0
      /\ \A T \in SUBSET P : e[T] \in Int /\ \A x \in P \ T : e[T \cup {x}] = h[x] + e[T]
  BY <1>1, SumsOfAdd
<1>3. /\ g[{}] = 0
      /\ \A T \in SUBSET S : g[T] \in Int /\ \A x \in S \ T : g[T \cup {x}] = f[x] + g[T]
  BY SumsOfAdd
<1> HIDE DEF g, e
<1>4. {} \in G
  BY <1>2, <1>3
<1>5. ASSUME NEW T \in G, NEW x \in S \ T
      PROVE  T \cup {x} \in G
  <2>1. g[T \cup {x}] = f[x] + g[T] /\ g[T] = e[T \cap P] /\ g[T] \in Int
    BY <1>3
  <2>2. CASE x \in P
    <3>1. (T \cup {x}) \cap P = (T \cap P) \cup {x} /\ T \cap P \in SUBSET P /\ x \in P \ (T \cap P)
      BY <2>2
    <3>2. e[(T \cup {x}) \cap P] = h[x] + e[T \cap P]
      BY <1>2, <3>1
    <3>3. QED
      BY <2>1, <2>2, <3>2
  <2>3. CASE x \notin P
    <3>1. (T \cup {x}) \cap P = T \cap P
      BY <2>3
    <3>2. f[x] = 0 /\ f[x] + g[T] = g[T]
      BY <2>1, <2>3
    <3>3. QED
      BY <2>1, <3>1, <3>2
  <2>4. QED
    BY <2>2, <2>3
<1>0. G \in SUBSET SUBSET S
  OBVIOUS
<1> HIDE DEF G
<1>6. G = SUBSET S
  BY <1>0, <1>4, <1>5, SubsetSet
<1>7. g[S] = e[P]
  <2>1. S \cap P = P
    OBVIOUS
  <2>2. QED
    BY <1>6, <2>1 DEF G
<1>8. SumFunction(h) = e[P]
  BY SumIs DEF SumFunction, e, SumsOf
<1>9. QED
  BY <1>7, <1>8 DEF g

\* Linear inequalities between functions hold between their sums.
LEMMA SumsLinear ==
  ASSUME NEW S, IsFiniteSet(S), NEW n \in Int,
         NEW a \in [S -> Int], NEW b \in [S -> Int], NEW c \in [S -> Int], NEW d \in [S -> Int],
         \A x \in S : a[x] + n * b[x] <= c[x] + n * d[x]
  PROVE  SumsOf(a, S)[S] + n * SumsOf(b, S)[S] <= SumsOf(c, S)[S] + n * SumsOf(d, S)[S]
<1> DEFINE sa == SumsOf(a, S)
           sb == SumsOf(b, S)
           sc == SumsOf(c, S)
           sd == SumsOf(d, S)
           G == {T \in SUBSET S : sa[T] + n * sb[T] <= sc[T] + n * sd[T]}
<1>1. /\ sa[{}] = 0
      /\ \A T \in SUBSET S : sa[T] \in Int /\ \A x \in S \ T : sa[T \cup {x}] = a[x] + sa[T]
  BY SumsOfAdd
<1>2. /\ sb[{}] = 0
      /\ \A T \in SUBSET S : sb[T] \in Int /\ \A x \in S \ T : sb[T \cup {x}] = b[x] + sb[T]
  BY SumsOfAdd
<1>3. /\ sc[{}] = 0
      /\ \A T \in SUBSET S : sc[T] \in Int /\ \A x \in S \ T : sc[T \cup {x}] = c[x] + sc[T]
  BY SumsOfAdd
<1>4. /\ sd[{}] = 0
      /\ \A T \in SUBSET S : sd[T] \in Int /\ \A x \in S \ T : sd[T \cup {x}] = d[x] + sd[T]
  BY SumsOfAdd
<1> HIDE DEF sa, sb, sc, sd
<1>5. /\ sa[{}] = 0 /\ sb[{}] = 0 /\ sc[{}] = 0 /\ sd[{}] = 0
      /\ \A T \in SUBSET S :
           /\ sa[T] \in Int /\ sb[T] \in Int /\ sc[T] \in Int /\ sd[T] \in Int
           /\ \A x \in S \ T :
                /\ sa[T \cup {x}] = a[x] + sa[T] /\ sb[T \cup {x}] = b[x] + sb[T]
                /\ sc[T \cup {x}] = c[x] + sc[T] /\ sd[T \cup {x}] = d[x] + sd[T]
  BY <1>1, <1>2, <1>3, <1>4
<1>6. {} \in G
  BY <1>5
<1>7. ASSUME NEW T \in G, NEW x \in S \ T
      PROVE  T \cup {x} \in G
  <2>1. /\ sa[T] \in Int /\ sb[T] \in Int /\ sc[T] \in Int /\ sd[T] \in Int
        /\ a[x] \in Int /\ b[x] \in Int /\ c[x] \in Int /\ d[x] \in Int
        /\ sa[T \cup {x}] = a[x] + sa[T] /\ sb[T \cup {x}] = b[x] + sb[T]
        /\ sc[T \cup {x}] = c[x] + sc[T] /\ sd[T \cup {x}] = d[x] + sd[T]
    BY <1>5
  <2>2. a[x] + n * b[x] <= c[x] + n * d[x] /\ sa[T] + n * sb[T] <= sc[T] + n * sd[T]
    OBVIOUS
  <2>3. n * (b[x] + sb[T]) = n * b[x] + n * sb[T] /\ n * (d[x] + sd[T]) = n * d[x] + n * sd[T]
    BY <2>1
  <2>4. sa[T \cup {x}] + n * sb[T \cup {x}] <= sc[T \cup {x}] + n * sd[T \cup {x}]
    BY <2>1, <2>2, <2>3
  <2>5. QED
    BY <2>4
<1>8. G \in SUBSET SUBSET S
  OBVIOUS
<1> HIDE DEF G
<1>9. G = SUBSET S
  BY <1>8, <1>6, <1>7, SubsetSet
<1>10. QED
  BY <1>9 DEF G, sa, sb, sc, sd

\* A sum of zeros is zero.
LEMMA SumsZero ==
  ASSUME NEW S, IsFiniteSet(S)
  PROVE  SumsOf([x \in S |-> 0], S)[S] = 0
<1> DEFINE P == {}
           zero == [x \in S |-> 0]
           none == [x \in P |-> 0]
<1>1. /\ none \in [P -> Int] /\ zero \in [S -> Int] /\ P \in SUBSET S /\ P \in SUBSET P
      /\ IsFiniteSet(P)
  BY FS_EmptySet
<1>2. /\ \A x \in S : zero[x] = IF x \in P THEN none[x] ELSE 0
      /\ \A x \in P : none[x] = IF x \in P THEN none[x] ELSE 0
  OBVIOUS
<1>3. SumsOf(none, P)[{}] = 0
  <2> HIDE DEF P, none
  <2>1. QED
    BY <1>1, SumsOfAdd
<1>4. SumsOf(none, P)[P] = 0
  BY <1>3
<1> HIDE DEF P, zero, none
<1>5. SumFunction(none) = SumsOf(zero, S)[S]
  BY <1>1, <1>2, SumPadded
<1>6. SumFunction(none) = SumsOf(none, P)[P]
  BY <1>1, <1>2, SumPadded
<1>7. QED
  BY <1>4, <1>5, <1>6 DEF zero

\* A greater function has a greater sum.
LEMMA SumsGrow ==
  ASSUME NEW S, IsFiniteSet(S), NEW a \in [S -> Int], NEW b \in [S -> Int],
         \A x \in S : a[x] <= b[x]
  PROVE  SumsOf(a, S)[S] <= SumsOf(b, S)[S]
<1> DEFINE sa == SumsOf(a, S)
           sb == SumsOf(b, S)
           G == {T \in SUBSET S : sa[T] <= sb[T]}
<1>1. /\ sa[{}] = 0
      /\ \A T \in SUBSET S : sa[T] \in Int /\ \A x \in S \ T : sa[T \cup {x}] = a[x] + sa[T]
  BY SumsOfAdd
<1>2. /\ sb[{}] = 0
      /\ \A T \in SUBSET S : sb[T] \in Int /\ \A x \in S \ T : sb[T \cup {x}] = b[x] + sb[T]
  BY SumsOfAdd
<1> HIDE DEF sa, sb
<1>3. {} \in G
  BY <1>1, <1>2
<1>4. ASSUME NEW T \in G, NEW x \in S \ T
      PROVE  T \cup {x} \in G
  <2>1. /\ sa[T] \in Int /\ sb[T] \in Int /\ a[x] \in Int /\ b[x] \in Int
        /\ sa[T \cup {x}] = a[x] + sa[T] /\ sb[T \cup {x}] = b[x] + sb[T]
    BY <1>1, <1>2
  <2>2. a[x] <= b[x] /\ sa[T] <= sb[T]
    OBVIOUS
  <2>3. sa[T \cup {x}] <= sb[T \cup {x}]
    BY <2>1, <2>2
  <2>4. QED
    BY <2>3
<1>5. G \in SUBSET SUBSET S
  OBVIOUS
<1> HIDE DEF G
<1>6. G = SUBSET S
  BY <1>3, <1>4, <1>5, SubsetSet
<1>7. QED
  BY <1>6 DEF G, sa, sb

\* A sum of natural numbers is one.
LEMMA SumsNatural ==
  ASSUME NEW S, IsFiniteSet(S), NEW f \in [S -> Nat]
  PROVE  SumsOf(f, S)[S] \in Nat
<1> DEFINE zero == [x \in S |-> 0]
           sum == SumsOf(f, S)[S]
<1>1. f \in [S -> Int] /\ zero \in [S -> Int] /\ \A x \in S : zero[x] <= f[x]
  OBVIOUS
<1>2. SumsOf(zero, S)[S] = 0
  BY SumsZero
<1> HIDE DEF zero
<1>3. SumsOf(zero, S)[S] <= SumsOf(f, S)[S]
  BY <1>1, SumsGrow
<1>4. SumsOf(f, S)[S] \in Int
  BY <1>1, SumsOfAdd
<1> HIDE DEF sum
<1>5. 0 <= sum /\ sum \in Int
  BY <1>2, <1>3, <1>4 DEF sum
<1>6. sum \in Nat
  BY <1>5
<1>7. QED
  BY <1>6 DEF sum

-----------------------------------------------------------------------------
(* Numbers of elements                                                     *)

\* One element more is at most one more in number.
LEMMA OneMore ==
  ASSUME NEW S, IsFiniteSet(S), NEW x
  PROVE  /\ IsFiniteSet(S \cup {x}) /\ Cardinality(S) \in Nat
         /\ Cardinality(S \cup {x}) \in Nat /\ Cardinality(S \cup {x}) <= Cardinality(S) + 1
<1>1. Cardinality(S) \in Nat
  BY FS_CardinalityType
<1>2. /\ IsFiniteSet(S \cup {x})
      /\ Cardinality(S \cup {x}) = Cardinality(S) \/ Cardinality(S \cup {x}) = Cardinality(S) + 1
  BY FS_AddElement
<1>3. QED
  BY <1>1, <1>2

\* A set listed by two elements has at most two.
LEMMA TwoAtMost ==
  ASSUME NEW a, NEW b
  PROVE  IsFiniteSet({a, b}) /\ Cardinality({a, b}) <= 2
<1> DEFINE one == {a}
<1>1. IsFiniteSet(one) /\ Cardinality(one) = 1
  BY FS_Singleton
<1>2. {a, b} = one \cup {b}
  OBVIOUS
<1> HIDE DEF one
<1>3. IsFiniteSet(one \cup {b}) /\ Cardinality(one \cup {b}) <= Cardinality(one) + 1
  BY <1>1, OneMore
<1>4. QED
  BY <1>1, <1>2, <1>3

\* A set listed by five elements has at most five.
LEMMA FiveAtMost ==
  ASSUME NEW a, NEW b, NEW c, NEW d, NEW e
  PROVE  IsFiniteSet({a, b, c, d, e}) /\ Cardinality({a, b, c, d, e}) <= 5
<1> DEFINE two   == {a, b}
           three == two \cup {c}
           four  == three \cup {d}
           five  == four \cup {e}
<1>1. {a, b, c, d, e} = five
  OBVIOUS
<1>2. IsFiniteSet(two) /\ Cardinality(two) <= 2
  BY TwoAtMost
<1> HIDE DEF two
<1>3. IsFiniteSet(three) /\ Cardinality(three) <= Cardinality(two) + 1 /\ Cardinality(two) \in Nat
  BY <1>2, OneMore
<1> HIDE DEF three
<1>4. IsFiniteSet(four) /\ Cardinality(four) <= Cardinality(three) + 1 /\ Cardinality(three) \in Nat
  BY <1>3, OneMore
<1> HIDE DEF four
<1>5. /\ IsFiniteSet(five) /\ Cardinality(five) <= Cardinality(four) + 1
      /\ Cardinality(four) \in Nat /\ Cardinality(five) \in Nat
  BY <1>4, OneMore
<1> HIDE DEF five
<1>6. QED
  BY <1>1, <1>2, <1>3, <1>4, <1>5
=============================================================================

------------------------------- MODULE SumProofs -------------------------------
(***************************************************************************)
(* What a sum of amounts over a finite set of rows is, whatever the order  *)
(* in which MapThenSumSet takes them: the balances of Payouts and the      *)
(* clearing account of DealLifecycle are stated with it.                   *)
(*                                                                         *)
(* MapThenSumSet is a recursive function on the subsets of its set.  That  *)
(* there is one, and that it adds up as a sum does, is shown by taking a   *)
(* smallest set for which it fails (SmallestSet): strict inclusion between *)
(* finite sets is well founded.                                            *)
(***************************************************************************)
EXTENDS FiniteSetsExt, FiniteSetTheorems, WellFoundedInduction, TLAPS

(* The sum of the amounts that the rows of f have in S. *)
Total(f, S) == MapThenSumSet(LAMBDA i : f[i].amount, S)

(* What MapThenFoldSet unfolds: h has the sum of each subset of S. *)
Sums(h, f, S) ==
    h = [s \in SUBSET S |-> IF s = {} THEN 0
                            ELSE LET i == CHOOSE i \in s : TRUE
                                 IN  f[i].amount + h[s \ {i}]]

First(s) == CHOOSE i \in s : TRUE
-----------------------------------------------------------------------------
(* A set of finite sets has one that contains none of the others. *)
LEMMA SmallestSet ==
    ASSUME NEW S, IsFiniteSet(S), NEW B \in SUBSET SUBSET S, B # {}
    PROVE  \E s \in B : \A u \in B : u \subseteq s => u = s
<1> DEFINE R == StrictSubsetOrdering(S)
<1>1. IsWellFoundedOn(R, SUBSET S)
    BY FS_StrictSubsetOrderingWellFounded, FS_FiniteSubsetsOfFinite
<1> HIDE DEF R
<1>2. PICK s \in B : \A u \in B : <<u, s>> \notin R
    BY <1>1, WFMin
<1>3. \A u \in B : u \subseteq s => u = s
    BY <1>2 DEF R, StrictSubsetOrdering
<1>4. QED
    BY <1>3

LEMMA TotalIs ==
    ASSUME NEW f, NEW S
    PROVE  Total(f, S) = (CHOOSE h : Sums(h, f, S))[S]
BY DEF Total, MapThenSumSet, MapThenFoldSet, Sums

LEMMA FirstIs == ASSUME NEW s, s # {} PROVE First(s) \in s
BY DEF First

LEMMA SumsAt ==
    ASSUME NEW f, NEW h, NEW S, Sums(h, f, S), NEW s \in SUBSET S
    PROVE  h[s] = IF s = {} THEN 0 ELSE f[First(s)].amount + h[s \ {First(s)}]
BY DEF Sums, First

LEMMA SumsIf ==
    ASSUME NEW f, NEW S, NEW h, h = [s \in SUBSET S |-> h[s]],
           \A s \in SUBSET S :
               h[s] = IF s = {} THEN 0 ELSE f[First(s)].amount + h[s \ {First(s)}]
    PROVE  Sums(h, f, S)
BY DEF Sums, First

(* Two of them agree on what they both sum, if the rows do. *)
LEMMA SumsAgree ==
    ASSUME NEW f, NEW g, NEW S, NEW U, NEW h, NEW k, Sums(h, f, S), Sums(k, g, U),
           NEW s, s \subseteq S, s \subseteq U, IsFiniteSet(s),
           \A i \in s : f[i].amount = g[i].amount
    PROVE  h[s] = k[s]
<1> SUFFICES ASSUME h[s] # k[s] PROVE FALSE
    OBVIOUS
<1> DEFINE B == {u \in SUBSET s : h[u] # k[u]}
<1>1. PICK u \in B : \A v \in B : v \subseteq u => v = u
    <2>1. B \in SUBSET SUBSET s /\ s \in B
        OBVIOUS
    <2> HIDE DEF B
    <2>2. QED
        BY <2>1, SmallestSet
<1>2. /\ u \subseteq s /\ u \in SUBSET S /\ u \in SUBSET U /\ h[u] # k[u]
    OBVIOUS
<1>3. /\ h[u] = IF u = {} THEN 0 ELSE f[First(u)].amount + h[u \ {First(u)}]
      /\ k[u] = IF u = {} THEN 0 ELSE g[First(u)].amount + k[u \ {First(u)}]
    BY <1>2, SumsAt
<1>4. u # {}
    BY <1>2, <1>3
<1>5. First(u) \in u
    BY <1>4, FirstIs
<1>6. u \ {First(u)} \notin B
    BY <1>1, <1>5
<1>7. h[u \ {First(u)}] = k[u \ {First(u)}] /\ f[First(u)].amount = g[First(u)].amount
    BY <1>2, <1>5, <1>6
<1>8. QED
    BY <1>2, <1>3, <1>4, <1>7

LEMMA SumsExist == ASSUME NEW f, NEW S, IsFiniteSet(S) PROVE \E h : Sums(h, f, S)
<1> DEFINE B == {u \in SUBSET S : ~ \E h : Sums(h, f, u)}
<1> SUFFICES ASSUME B # {} PROVE FALSE
    OBVIOUS
<1>1. PICK u \in B : \A v \in B : v \subseteq u => v = u
    <2>1. B \in SUBSET SUBSET S
        OBVIOUS
    <2> HIDE DEF B
    <2>2. QED
        BY <2>1, SmallestSet
<1> DEFINE H(v) == CHOOSE h : Sums(h, f, v)
           k == [s \in SUBSET u |->
                    IF s = {} THEN 0
                    ELSE f[First(s)].amount + H(s \ {First(s)})[s \ {First(s)}]]
<1>2. \A v : v \subseteq u /\ v # u => Sums(H(v), f, v) /\ IsFiniteSet(v)
    <2>1. ASSUME NEW v, v \subseteq u, v # u PROVE \E h : Sums(h, f, v)
        BY <1>1, <2>1
    <2>2. \A v : v \subseteq u => IsFiniteSet(v)
        BY <1>1, FS_Subset
    <2>3. QED
        BY <2>1, <2>2
<1> HIDE DEF H
<1>3. ASSUME NEW v, v \subseteq u, v # u
      PROVE  H(v)[v] = IF v = {} THEN 0 ELSE f[First(v)].amount + H(v)[v \ {First(v)}]
    BY <1>2, <1>3, SumsAt
<1>4. ASSUME NEW s \in SUBSET u, s # {}
      PROVE  k[s \ {First(s)}] = H(s \ {First(s)})[s \ {First(s)}]
    <2> DEFINE v == s \ {First(s)}
               w == v \ {First(v)}
    <2>1. v \subseteq u /\ v # u
        BY <1>4, FirstIs
    <2>2. H(v)[v] = IF v = {} THEN 0 ELSE f[First(v)].amount + H(v)[w]
        BY <1>3, <2>1
    <2>3. k[v] = IF v = {} THEN 0 ELSE f[First(v)].amount + H(w)[w]
        BY <2>1
    <2>4. v # {} => H(v)[w] = H(w)[w]
        <3>1. w \subseteq v /\ w \subseteq u /\ w # u
            BY <2>1
        <3>2. Sums(H(v), f, v) /\ Sums(H(w), f, w) /\ IsFiniteSet(w)
            BY <1>2, <2>1, <3>1
        <3> HIDE DEF v, w
        <3>3. QED
            BY <3>1, <3>2, SumsAgree
    <2>5. QED
        BY <2>2, <2>3, <2>4
<1>5. \A s \in SUBSET u : k[s] = IF s = {} THEN 0 ELSE f[First(s)].amount + k[s \ {First(s)}]
    BY <1>4
<1>6. k = [s \in SUBSET u |-> k[s]]
    OBVIOUS
<1> HIDE DEF k
<1>7. Sums(k, f, u)
    BY <1>5, <1>6, SumsIf
<1>8. QED
    BY <1>1, <1>7

(* The total of a finite set is that of its first row and of the others. *)
LEMMA TotalUnfolds ==
    ASSUME NEW f, NEW S, IsFiniteSet(S)
    PROVE  Total(f, S) = IF S = {} THEN 0 ELSE f[First(S)].amount + Total(f, S \ {First(S)})
<1> DEFINE H(v) == CHOOSE h : Sums(h, f, v)
           w == S \ {First(S)}
<1>1. Sums(H(S), f, S)
    BY SumsExist
<1>2. Sums(H(w), f, w) /\ IsFiniteSet(w)
    <2>1. IsFiniteSet(w)
        BY FS_Subset
    <2> HIDE DEF w
    <2>2. QED
        BY <2>1, SumsExist
<1>3. Total(f, S) = H(S)[S] /\ Total(f, w) = H(w)[w]
    BY TotalIs
<1> HIDE DEF H
<1>4. H(S)[S] = IF S = {} THEN 0 ELSE f[First(S)].amount + H(S)[w]
    BY <1>1, SumsAt
<1>5. H(S)[w] = H(w)[w]
    <2>1. w \subseteq S
        OBVIOUS
    <2> HIDE DEF w
    <2>2. QED
        BY <1>1, <1>2, <2>1, SumsAgree
<1>6. QED
    BY <1>3, <1>4, <1>5

(* Rows that have the same amounts have the same total. *)
LEMMA TotalAgrees ==
    ASSUME NEW f, NEW g, NEW S, IsFiniteSet(S), \A i \in S : f[i].amount = g[i].amount
    PROVE  Total(f, S) = Total(g, S)
<1>1. PICK h : h = (CHOOSE x : Sums(x, f, S)) /\ Sums(h, f, S)
    BY SumsExist
<1>2. PICK k : k = (CHOOSE x : Sums(x, g, S)) /\ Sums(k, g, S)
    BY SumsExist
<1>3. h[S] = k[S]
    BY <1>1, <1>2, SumsAgree
<1>4. QED
    BY <1>1, <1>2, <1>3, TotalIs

LEMMA TotalEmpty == ASSUME NEW f PROVE Total(f, {}) = 0
BY TotalUnfolds, FS_EmptySet

LEMMA TotalNat ==
    ASSUME NEW f, NEW S, IsFiniteSet(S), \A i \in S : f[i].amount \in Nat
    PROVE  Total(f, S) \in Nat
<1> SUFFICES ASSUME Total(f, S) \notin Nat PROVE FALSE
    OBVIOUS
<1> DEFINE B == {u \in SUBSET S : Total(f, u) \notin Nat}
<1>1. PICK u \in B : \A v \in B : v \subseteq u => v = u
    <2>1. B \in SUBSET SUBSET S /\ S \in B
        OBVIOUS
    <2> HIDE DEF B
    <2>2. QED
        BY <2>1, SmallestSet
<1>2. u \subseteq S /\ IsFiniteSet(u) /\ Total(f, u) \notin Nat
    BY <1>1, FS_Subset
<1>3. u # {}
    BY <1>2, TotalEmpty
<1>4. First(u) \in u /\ Total(f, u) = f[First(u)].amount + Total(f, u \ {First(u)})
    BY <1>2, <1>3, FirstIs, TotalUnfolds
<1>5. Total(f, u \ {First(u)}) \in Nat /\ f[First(u)].amount \in Nat
    BY <1>1, <1>2, <1>4
<1>6. QED
    BY <1>2, <1>4, <1>5

(* The total is that of any one row and of the others. *)
LEMMA TotalRemoves ==
    ASSUME NEW f, NEW S, IsFiniteSet(S), NEW i \in S, \A j \in S : f[j].amount \in Nat
    PROVE  Total(f, S) = f[i].amount + Total(f, S \ {i})
<1> SUFFICES ASSUME Total(f, S) # f[i].amount + Total(f, S \ {i}) PROVE FALSE
    OBVIOUS
<1> DEFINE B == {u \in SUBSET S : \E j \in u : Total(f, u) # f[j].amount + Total(f, u \ {j})}
<1>1. PICK u \in B : \A v \in B : v \subseteq u => v = u
    <2>1. B \in SUBSET SUBSET S /\ S \in B
        OBVIOUS
    <2> HIDE DEF B
    <2>2. QED
        BY <2>1, SmallestSet
<1>2. PICK j \in u : Total(f, u) # f[j].amount + Total(f, u \ {j})
    OBVIOUS
<1>3. u \subseteq S /\ IsFiniteSet(u) /\ \A v : v \subseteq u => IsFiniteSet(v)
    BY <1>1, FS_Subset
<1> DEFINE x == First(u)
<1>4. x \in u /\ Total(f, u) = f[x].amount + Total(f, u \ {x})
    BY <1>3, FirstIs, TotalUnfolds
<1> HIDE DEF x
<1>5. x # j
    BY <1>2, <1>4
<1>6. Total(f, u \ {x}) = f[j].amount + Total(f, (u \ {x}) \ {j})
    <2>1. u \ {x} \in SUBSET S /\ u \ {x} \subseteq u /\ u \ {x} # u /\ j \in u \ {x}
        BY <1>3, <1>4, <1>5
    <2>2. u \ {x} \notin B
        BY <1>1, <2>1
    <2>3. QED
        BY <2>1, <2>2
<1>7. Total(f, u \ {j}) = f[x].amount + Total(f, (u \ {j}) \ {x})
    <2>1. u \ {j} \in SUBSET S /\ u \ {j} \subseteq u /\ u \ {j} # u /\ x \in u \ {j}
        BY <1>3, <1>4, <1>5
    <2>2. u \ {j} \notin B
        BY <1>1, <2>1
    <2>3. QED
        BY <2>1, <2>2
<1>8. (u \ {x}) \ {j} = (u \ {j}) \ {x}
    OBVIOUS
<1>9. /\ f[x].amount \in Nat /\ f[j].amount \in Nat
      /\ Total(f, (u \ {j}) \ {x}) \in Nat
    BY <1>3, <1>4, TotalNat
<1>10. Total(f, u \ {x}) = f[j].amount + Total(f, (u \ {j}) \ {x})
    BY <1>6, <1>8
<1>11. Total(f, u) = f[j].amount + Total(f, u \ {j})
    BY <1>4, <1>7, <1>9, <1>10
<1>12. QED
    BY <1>2, <1>11

(* A row that is added adds its amount. *)
LEMMA TotalAdds ==
    ASSUME NEW f, NEW S, IsFiniteSet(S), NEW i, i \notin S,
           \A j \in S \cup {i} : f[j].amount \in Nat
    PROVE  Total(f, S \cup {i}) = Total(f, S) + f[i].amount
<1>1. IsFiniteSet(S \cup {i}) /\ (S \cup {i}) \ {i} = S
    BY FS_AddElement
<1>2. Total(f, S \cup {i}) = f[i].amount + Total(f, S)
    BY <1>1, TotalRemoves
<1>3. Total(f, S) \in Nat
    BY TotalNat
<1>4. QED
    BY <1>2, <1>3
==============================================================================

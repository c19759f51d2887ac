---------------------------- MODULE TmpFsProofs ----------------------------
(***************************************************************************)
(* Proofs about the directory tree and the working directory, for every    *)
(* size of the node table, every set of names and paths and every length   *)
(* of the texts.                                                           *)
(***************************************************************************)
EXTENDS Cwd, FiniteSetTheorems, TLAPS

\* The entries of a directory.
Kids(d) == {n \in Live \ {0} : parent[n] = d}

\* The list of directory d: n entries, each linked to the next, and the end.
IsList(d, n, l) ==
    /\ l \in [0..n -> NodeOrNone]
    /\ l[0] = first_child[d] /\ l[n] = -1
    /\ \A i \in 0..(n - 1) : l[i] \in Kids(d) /\ next_sibling[l[i]] = l[i + 1]
    /\ \A i, j \in 0..(n - 1) : l[i] = l[j] => i = j
    /\ \A m \in Kids(d) : \E i \in 0..(n - 1) : l[i] = m

Listing == \A d \in Live : \E n \in Nat : \E l \in [0..n -> NodeOrNone] : IsList(d, n, l)

\* Every entry is in a directory; no two answer to the same name.
Entered ==
    /\ type[0] = "DIR" /\ parent[0] = -1
    /\ \A n \in Live \ {0} : /\ parent[n] \in Live /\ type[parent[n]] = "DIR"
                             /\ name[n] \in Name
    /\ \A m, n \in Live \ {0} :
          parent[m] = parent[n] /\ name[m] = name[n] /\ ~name[m].slash => m = n

\* Following parents leads out of any set of entries.
Rooted == \A T \in SUBSET (Live \ {0}) : T # {} => \E n \in T : parent[n] \notin T

TInv == TypeOK /\ Entered /\ Rooted /\ Listing

CwdInv == CwdTypeOK /\ CwdHolds

IInv == TInv /\ CwdInv

----------------------------------------------------------------------------
(* Natural numbers, and functions defined step by step.                    *)

LEMMA Least ==
    ASSUME NEW T, T \subseteq Nat, T # {}
    PROVE  \E s \in T : \A t \in T : s <= t
<1> DEFINE R == OpToRel(<, Nat)
<1>1. IsWellFoundedOn(R, Nat)
    BY NatLessThanWellFounded, Zenon
<1>2. \A s, t \in Nat : t < s => <<t, s>> \in R
    BY DEF OpToRel
<1> HIDE DEF R
<1>3. PICK s \in T : \A t \in T : ~(<<t, s>> \in R)
    BY <1>1, WFMin, Zenon
<1>4. \A t \in T : ~(t < s)
    BY <1>2, <1>3, Zenon
<1> QED
    BY <1>4

\* Starting from a and taking the step g[i] for every i up to n.
Recurs(a, g, n, c) == c[0] = a /\ \A i \in 1..n : c[i] = g[i][c[i - 1]]
Steps(A, a, g, n, c) == c \in [0..n -> A] /\ Recurs(a, g, n, c)

LEMMA StepsExist ==
    ASSUME NEW A, NEW a \in A, NEW n \in Nat, NEW g \in [1..n -> [A -> A]]
    PROVE  \E c : Steps(A, a, g, n, c)
<1> DEFINE T == {m \in Nat : m <= n /\ ~\E c : Steps(A, a, g, m, c)}
<1> SUFFICES ASSUME T # {} PROVE FALSE
    BY SMTT(60)
<1>1. PICK m \in T : \A t \in T : m <= t
    BY Least, Zenon
<1>2. m # 0
  <2> DEFINE c == [i \in 0..0 |-> a]
  <2>1. Steps(A, a, g, 0, c)
    BY DEF Steps, Recurs
  <2> QED
    BY <2>1
<1>3. m - 1 \in Nat /\ m - 1 <= n /\ ~(m <= m - 1) /\ m \in 1..n
    BY <1>2
<1>4. PICK c : Steps(A, a, g, m - 1, c)
    BY <1>1, <1>3, SMTT(60)
<1> DEFINE e == [i \in 0..m |-> IF i = m THEN g[m][c[m - 1]] ELSE c[i]]
<1>5. \A i \in 0..m : i # m => i \in 0..(m - 1)
    BY <1>3
<1>6. m - 1 \in 0..(m - 1) /\ g[m] \in [A -> A] /\ c \in [0..(m - 1) -> A]
    BY <1>3, <1>4 DEF Steps, Recurs
<1>7. e \in [0..m -> A]
    BY <1>5, <1>6
<1>8. e[0] = a
    BY <1>2, <1>3, <1>4, SMTT(60) DEF Steps, Recurs
<1>9. ASSUME NEW i \in 1..m PROVE e[i] = g[i][e[i - 1]]
  <2>1. i - 1 \in 0..m /\ i - 1 # m /\ i \in 0..m /\ (i # m => i \in 1..(m - 1))
    BY <1>3
  <2>2. e[i - 1] = c[i - 1]
    BY <2>1
  <2>3. CASE i = m
    BY <2>1, <2>2, <2>3
  <2>4. CASE i # m
    BY <1>4, <2>1, <2>2, <2>4 DEF Steps, Recurs
  <2> QED
    BY <2>3, <2>4
<1>10. Steps(A, a, g, m, e)
    BY <1>7, <1>8, <1>9, Zenon DEF Steps, Recurs
<1> QED
    BY <1>10

LEMMA StepsUnique ==
    ASSUME NEW a, NEW n \in Nat, NEW g, NEW c, NEW e, NEW m \in Nat, m <= n,
           Recurs(a, g, n, c), Recurs(a, g, m, e)
    PROVE  \A i \in 0..m : c[i] = e[i]
<1> DEFINE T == {i \in Nat : i <= m /\ c[i] # e[i]}
<1> SUFFICES ASSUME T # {} PROVE FALSE
    OBVIOUS
<1>1. PICK i \in T : \A t \in T : i <= t
    BY Least, Zenon
<1>2. i # 0
    BY DEF Recurs
<1>3. i - 1 \in Nat /\ i - 1 <= m /\ ~(i <= i - 1) /\ i \in 1..m /\ i \in 1..n
    BY <1>2
<1>4. c[i - 1] = e[i - 1]
    BY <1>1, <1>3, SMTT(60)
<1>5. c[i] = g[i][c[i - 1]] /\ e[i] = g[i][e[i - 1]]
    BY <1>3 DEF Recurs
<1> QED
    BY <1>4, <1>5

----------------------------------------------------------------------------
(* What the walks over the table compute.                                  *)

LEMMA NthIs ==
    ASSUME TypeOK, NEW d \in Nodes, NEW k \in Nat
    PROVE  \E c \in [0..k -> NodeOrNone] :
              /\ c[0] = first_child[d] /\ Nth(d, k) = c[k]
              /\ \A i \in 1..k : c[i] = IF c[i - 1] = -1 THEN -1 ELSE next_sibling[c[i - 1]]
<1> DEFINE behind == [n \in NodeOrNone |-> IF n = -1 THEN -1 ELSE next_sibling[n]]
           g == [i \in 1..k |-> behind]
           c[i \in 0..k] == IF i = 0 THEN first_child[d] ELSE behind[c[i - 1]]
<1>1. behind \in [NodeOrNone -> NodeOrNone] /\ first_child[d] \in NodeOrNone
    BY DEF TypeOK, NodeOrNone
<1> HIDE DEF behind
<1>2. g \in [1..k -> [NodeOrNone -> NodeOrNone]]
    BY <1>1
<1>3. PICK e : Steps(NodeOrNone, first_child[d], g, k, e)
    BY <1>1, <1>2, StepsExist
<1>4. e = [i \in 0..k |-> IF i = 0 THEN first_child[d] ELSE behind[e[i - 1]]]
  <2>1. \A i \in 0..k : i # 0 => i \in 1..k
    OBVIOUS
  <2> QED
    BY <1>3, <2>1 DEF Steps, Recurs
<1>5. c = [i \in 0..k |-> IF i = 0 THEN first_child[d] ELSE behind[c[i - 1]]]
    BY <1>4, Zenon
<1>6. Nth(d, k) = c[k]
    BY DEF Nth, behind
<1> HIDE DEF c
<1>7. Recurs(first_child[d], g, k, c)
  <2>1. 0 \in 0..k /\ \A i \in 1..k : i \in 0..k /\ i # 0
    OBVIOUS
  <2> QED
    BY <1>5, <2>1 DEF Recurs
<1>8. c[k] = e[k]
    BY <1>3, <1>7, StepsUnique DEF Steps
<1>9. \A i \in 1..k : i - 1 \in 0..k
    OBVIOUS
<1> QED
    BY <1>3, <1>6, <1>8, <1>9, Zenon DEF Steps, Recurs, behind

LEMMA NodeFacts ==
    /\ MaxNodes \in Nat /\ MaxNodes >= 3
    /\ 0 \in Nodes /\ -1 \notin Nodes /\ Live \subseteq Nodes
    /\ \A n \in Nodes : n \in Nat /\ n < MaxNodes /\ n \in NodeOrNone
    /\ -1 \in NodeOrNone
    /\ \A n \in NodeOrNone : n # -1 => n \in Nodes
    /\ \A d : Kids(d) \subseteq Live \ {0}
<1>1. MaxNodes \in Nat /\ MaxNodes >= 3
    BY TmpFsAssumption, Zenon
<1>2. 0 \in Nodes /\ -1 \notin Nodes /\ Live \subseteq Nodes /\ -1 \in NodeOrNone
    BY <1>1 DEF Nodes, Live, NodeOrNone
<1>3. \A n \in Nodes : n \in Nat /\ n < MaxNodes /\ n \in NodeOrNone
    BY <1>1 DEF Nodes, NodeOrNone
<1>4. \A n \in NodeOrNone : n # -1 => n \in Nodes
    BY DEF NodeOrNone
<1>5. \A d : Kids(d) \subseteq Live \ {0}
    BY DEF Kids
<1> QED
    BY <1>1, <1>2, <1>3, <1>4, <1>5, SMTT(60)

\* Entry k of a list.
At(n, l, k) == IF k < n THEN l[k] ELSE -1

LEMMA ListStep ==
    ASSUME NEW d \in Live, NEW n \in Nat, NEW l, IsList(d, n, l)
    PROVE  /\ At(n, l, 0) = first_child[d]
           /\ \A k \in Nat : /\ k < n => At(n, l, k) \in Kids(d) /\ At(n, l, k) # -1
                             /\ k >= n => At(n, l, k) = -1
                             /\ At(n, l, k + 1) = IF At(n, l, k) = -1 THEN -1
                                                  ELSE next_sibling[At(n, l, k)]
<1>1. \A k \in Nat : k < n => k \in 0..(n - 1)
    OBVIOUS
<1>2. \A m \in Kids(d) : m # -1
    BY NodeFacts
<1>3. \A k \in Nat : k < n => l[k] \in Kids(d) /\ next_sibling[l[k]] = l[k + 1]
    BY <1>1 DEF IsList
<1>4. l[n] = -1 /\ l[0] = first_child[d]
    BY DEF IsList
<1>5. At(n, l, 0) = first_child[d]
  <2>1. CASE n = 0
    BY <1>4, <2>1 DEF At
  <2>2. CASE n > 0
    BY <1>4, <2>2 DEF At
  <2> QED
    BY <2>1, <2>2
<1>6. ASSUME NEW k \in Nat
      PROVE  At(n, l, k + 1) = IF At(n, l, k) = -1 THEN -1 ELSE next_sibling[At(n, l, k)]
  <2>1. CASE k + 1 < n
    BY <1>2, <1>3, <2>1 DEF At
  <2>2. CASE k + 1 = n
    BY <1>2, <1>3, <1>4, <2>2 DEF At
  <2>3. CASE k + 1 > n
    BY <2>3 DEF At
  <2> QED
    BY <2>1, <2>2, <2>3
<1> QED
    BY <1>2, <1>3, <1>5, <1>6, SMTT(60) DEF At

LEMMA NthInList ==
    ASSUME TypeOK, NEW d \in Live, NEW n \in Nat, NEW l, IsList(d, n, l), NEW k \in Nat
    PROVE  Nth(d, k) = At(n, l, k)
<1>0. /\ At(n, l, 0) = first_child[d]
      /\ \A m \in Nat : At(n, l, m + 1) = IF At(n, l, m) = -1 THEN -1 ELSE next_sibling[At(n, l, m)]
    BY ListStep
<1>1. PICK c \in [0..k -> NodeOrNone] :
        /\ c[0] = first_child[d] /\ Nth(d, k) = c[k]
        /\ \A i \in 1..k : c[i] = IF c[i - 1] = -1 THEN -1 ELSE next_sibling[c[i - 1]]
  <2>1. d \in Nodes
    BY NodeFacts
  <2> QED
    BY <2>1, NthIs, ZenonT(60)
<1> DEFINE T == {i \in Nat : i <= k /\ c[i] # At(n, l, i)}
<1> SUFFICES ASSUME T # {} PROVE FALSE
    BY <1>1
<1>2. PICK i \in T : \A t \in T : i <= t
    BY Least, Zenon
<1>3. i # 0
    BY <1>0, <1>1, Zenon
<1>4. i - 1 \in Nat /\ i - 1 <= k /\ ~(i <= i - 1) /\ i \in 1..k /\ (i - 1) + 1 = i
    BY <1>3
<1>5. c[i - 1] = At(n, l, i - 1)
    BY <1>2, <1>4
<1>6. At(n, l, i) = IF At(n, l, i - 1) = -1 THEN -1 ELSE next_sibling[At(n, l, i - 1)]
    BY <1>0, <1>4, Zenon
<1>7. c[i] = At(n, l, i)
    BY <1>1, <1>4, <1>5, <1>6
<1> QED
    BY <1>7

\* A list has no more entries than there are nodes.
LEMMA ListShort ==
    ASSUME NEW d \in Live, NEW n \in Nat, NEW l, IsList(d, n, l)
    PROVE  n <= MaxNodes
<1> SUFFICES ASSUME n > MaxNodes PROVE FALSE
    BY NodeFacts
<1> DEFINE I == 0..(n - 1)
           f == [i \in I |-> l[i]]
<1>1. IsFiniteSet(I) /\ Cardinality(I) = n /\ IsFiniteSet(Nodes) /\ Cardinality(Nodes) = MaxNodes
  <2>1. n - 1 \in Int /\ MaxNodes - 1 \in Int /\ MaxNodes \in Nat /\ ~(0 > n - 1) /\ ~(0 > MaxNodes - 1)
    BY NodeFacts
  <2>2. n - 1 - 0 + 1 = n /\ MaxNodes - 1 - 0 + 1 = MaxNodes
    BY <2>1
  <2> QED
    BY <2>1, <2>2, FS_Interval, SMTT(60) DEF Nodes
<1>2. f \in [I -> Nodes]
    BY NodeFacts DEF IsList
<1>3. Cardinality(Nodes) < Cardinality(I)
    BY <1>1, NodeFacts
<1> HIDE DEF f
<1>4. PICK i \in I, j \in I : i # j /\ f[i] = f[j]
    BY <1>1, <1>2, <1>3, FS_PigeonHole
<1> QED
    BY <1>4 DEF f, IsList

\* The lists as ListsExact sees them.
LEMMA ListsAre == TInv => ListsExact
<1> SUFFICES ASSUME TInv, NEW d \in Live
             PROVE  /\ Nth(d, MaxNodes) = -1
                    /\ Listed(d) = {n \in Live \ {0} : parent[n] = d}
    BY DEF ListsExact
<1>1a. PICK n \in Nat : \E l : IsList(d, n, l)
    BY DEF TInv, Listing
<1>1. PICK l : IsList(d, n, l)
    BY <1>1a
<1>2. n <= MaxNodes /\ MaxNodes \in Nat
    BY <1>1, ListShort, NodeFacts
<1>3. \A k \in Nat : Nth(d, k) = At(n, l, k)
    BY <1>1, NthInList DEF TInv
<1>4. Nth(d, MaxNodes) = -1
    BY <1>2, <1>3 DEF At
<1>5. Listed(d) \subseteq Kids(d)
  <2> SUFFICES ASSUME NEW k \in 0..MaxNodes, Nth(d, k) # -1 PROVE Nth(d, k) \in Kids(d)
    BY DEF Listed
  <2> QED
    BY <1>1, <1>3, ListStep
<1>6. ASSUME NEW m \in Kids(d) PROVE m \in Listed(d)
  <2>1. PICK i \in 0..(n - 1) : l[i] = m
    BY <1>1 DEF IsList
  <2>2. i \in Nat /\ i < n /\ i \in 0..MaxNodes
    BY <1>2
  <2>3. Nth(d, i) = m /\ m # -1
    BY <1>3, <2>1, <2>2, NodeFacts DEF At
  <2> QED
    BY <2>2, <2>3 DEF Listed
<1> QED
    BY <1>4, <1>5, <1>6 DEF Kids

LEMMA LookupSteps ==
    ASSUME TypeOK, NEW d \in Nodes, NEW nm
    PROVE  \E c \in [0..MaxNodes -> NodeOrNone] :
              /\ c[0] = first_child[d] /\ lookup_child(d, nm) = c[MaxNodes]
              /\ \A i \in 1..MaxNodes :
                    c[i] = IF c[i - 1] = -1 \/ name[c[i - 1]] = nm THEN c[i - 1]
                           ELSE next_sibling[c[i - 1]]
<1> DEFINE skip == [n \in NodeOrNone |-> IF n = -1 \/ name[n] = nm THEN n ELSE next_sibling[n]]
           g == [i \in 1..MaxNodes |-> skip]
           c[i \in 0..MaxNodes] == IF i = 0 THEN first_child[d] ELSE skip[c[i - 1]]
<1>1. skip \in [NodeOrNone -> NodeOrNone] /\ first_child[d] \in NodeOrNone /\ MaxNodes \in Nat
    BY NodeFacts DEF TypeOK, NodeOrNone
<1> HIDE DEF skip
<1>2. g \in [1..MaxNodes -> [NodeOrNone -> NodeOrNone]]
    BY <1>1
<1>3. PICK e : Steps(NodeOrNone, first_child[d], g, MaxNodes, e)
    BY <1>1, <1>2, StepsExist
<1>4. e = [i \in 0..MaxNodes |-> IF i = 0 THEN first_child[d] ELSE skip[e[i - 1]]]
  <2>1. \A i \in 0..MaxNodes : i # 0 => i \in 1..MaxNodes
    BY <1>1
  <2> QED
    BY <1>3, <2>1 DEF Steps, Recurs
<1>5. c = [i \in 0..MaxNodes |-> IF i = 0 THEN first_child[d] ELSE skip[c[i - 1]]]
    BY <1>4, Zenon
<1>6. lookup_child(d, nm) = c[MaxNodes]
    BY DEF lookup_child, skip
<1> HIDE DEF c
<1>7. Recurs(first_child[d], g, MaxNodes, c)
  <2>1. 0 \in 0..MaxNodes /\ \A i \in 1..MaxNodes : i \in 0..MaxNodes /\ i # 0
    BY <1>1
  <2> QED
    BY <1>5, <2>1, Zenon DEF Recurs
<1>8. c[MaxNodes] = e[MaxNodes]
    BY <1>1, <1>3, <1>7, StepsUnique, SMTT(60) DEF Steps
<1>9. \A i \in 1..MaxNodes : i - 1 \in 0..MaxNodes
    BY <1>1
<1> QED
    BY <1>3, <1>6, <1>8, <1>9, Zenon DEF Steps, Recurs, skip

\* lookup_child finds an entry of that name if the directory has one.
Lookups ==
    \A d \in Live : \A nm :
        \/ lookup_child(d, nm) = -1 /\ \A m \in Kids(d) : name[m] # nm
        \/ lookup_child(d, nm) \in Kids(d) /\ name[lookup_child(d, nm)] = nm

LEMMA LookupIs == TInv => Lookups
<1> SUFFICES ASSUME TInv, NEW d \in Live, NEW nm
             PROVE  \/ lookup_child(d, nm) = -1 /\ \A m \in Kids(d) : name[m] # nm
                    \/ lookup_child(d, nm) \in Kids(d) /\ name[lookup_child(d, nm)] = nm
    BY DEF Lookups
<1>1a. PICK n \in Nat : \E l : IsList(d, n, l)
    BY DEF TInv, Listing
<1>1. PICK l : IsList(d, n, l)
    BY <1>1a
<1>2. n <= MaxNodes /\ MaxNodes \in Nat /\ d \in Nodes
    BY <1>1, ListShort, NodeFacts
<1>3. /\ At(n, l, 0) = first_child[d]
      /\ \A k \in Nat : /\ k < n => At(n, l, k) \in Kids(d) /\ At(n, l, k) # -1
                        /\ k >= n => At(n, l, k) = -1
                        /\ At(n, l, k + 1) = IF At(n, l, k) = -1 THEN -1
                                             ELSE next_sibling[At(n, l, k)]
    BY <1>1, ListStep
<1>4. PICK c \in [0..MaxNodes -> NodeOrNone] :
        /\ c[0] = first_child[d] /\ lookup_child(d, nm) = c[MaxNodes]
        /\ \A i \in 1..MaxNodes :
              c[i] = IF c[i - 1] = -1 \/ name[c[i - 1]] = nm THEN c[i - 1]
                     ELSE next_sibling[c[i - 1]]
    BY <1>2, LookupSteps DEF TInv
<1> DEFINE Q(i) == \/ /\ c[i] = At(n, l, i)
                      /\ \A j \in Nat : j < i /\ j < n => name[At(n, l, j)] # nm
                   \/ c[i] \in Kids(d) /\ name[c[i]] = nm
           T == {i \in Nat : i <= MaxNodes /\ ~Q(i)}
<1>5. ASSUME T # {} PROVE FALSE
  <2>1. PICK i \in T : \A t \in T : i <= t
    BY <1>5, Least, Zenon
  <2>2. i # 0
    BY <1>3, <1>4
  <2>3. i - 1 \in Nat /\ i - 1 <= MaxNodes /\ ~(i <= i - 1) /\ i \in 1..MaxNodes /\ (i - 1) + 1 = i
        /\ \A j \in Nat : j < i => j < i - 1 \/ j = i - 1
    BY <1>2, <2>2
  <2>4. Q(i - 1)
    BY <2>1, <2>3
  <2>5. c[i] = IF c[i - 1] = -1 \/ name[c[i - 1]] = nm THEN c[i - 1] ELSE next_sibling[c[i - 1]]
    BY <1>4, <2>3
  <2>6. CASE c[i - 1] \in Kids(d) /\ name[c[i - 1]] = nm
    BY <2>5, <2>6
  <2>7. CASE /\ c[i - 1] = At(n, l, i - 1)
             /\ \A j \in Nat : j < i - 1 /\ j < n => name[At(n, l, j)] # nm
             /\ ~(c[i - 1] \in Kids(d) /\ name[c[i - 1]] = nm)
    <3>1. At(n, l, i) = IF At(n, l, i - 1) = -1 THEN -1 ELSE next_sibling[At(n, l, i - 1)]
      BY <1>3, <2>3, Zenon
    <3>2. /\ i - 1 < n => At(n, l, i - 1) \in Kids(d) /\ At(n, l, i - 1) # -1
          /\ ~(i - 1 < n) => At(n, l, i - 1) = -1
      BY <1>3, <2>3
    <3>3. At(n, l, i - 1) # -1 => name[At(n, l, i - 1)] # nm
      BY <2>7, <3>2
    <3>4. c[i] = At(n, l, i)
      BY <2>5, <2>7, <3>1, <3>3, SMTT(60)
    <3>5. \A j \in Nat : j < i /\ j < n => name[At(n, l, j)] # nm
      BY <2>3, <2>7, <3>2, <3>3, SMTT(60)
    <3> QED
      BY <3>4, <3>5
  <2> QED
    BY <2>4, <2>6, <2>7
<1>6. Q(MaxNodes)
    BY <1>2, <1>5
<1>7. ASSUME \A j \in Nat : j < MaxNodes /\ j < n => name[At(n, l, j)] # nm
      PROVE  \A m \in Kids(d) : name[m] # nm
  <2> SUFFICES ASSUME NEW m \in Kids(d) PROVE name[m] # nm
    OBVIOUS
  <2>1. PICK j \in 0..(n - 1) : l[j] = m
    BY <1>1 DEF IsList
  <2>2. j \in Nat /\ j < n /\ j < MaxNodes
    BY <1>2
  <2> QED
    BY <1>7, <2>1, <2>2 DEF At
<1>8. At(n, l, MaxNodes) = -1
    BY <1>2, <1>3
<1> HIDE DEF T
<1> QED
    BY <1>4, <1>6, <1>7, <1>8, SMTT(60)

----------------------------------------------------------------------------
(* Paths.                                                                  *)

Comps == Names \cup {".", "..", "cut"}

LEMMA FollowTyped ==
    ASSUME TypeOK, NEW comp
    PROVE  Follow(comp) \in [NodeOrNone -> NodeOrNone]
<1> SUFFICES ASSUME NEW n \in NodeOrNone PROVE Follow(comp)[n] \in NodeOrNone
    BY Zenon DEF Follow
<1>1. CASE n = -1
    BY <1>1, NodeFacts DEF Follow
<1>2. CASE n # -1 /\ comp = "."
    BY <1>2 DEF Follow
<1>3. CASE n # -1 /\ comp = ".." /\ comp # "."
    BY <1>3, NodeFacts DEF Follow, TypeOK
<1>4. CASE n # -1 /\ comp # "." /\ comp # ".."
  <2>1. n \in Nodes /\ MaxNodes \in 0..MaxNodes
    BY <1>4, NodeFacts
  <2>2. lookup_child(n, [base |-> comp, slash |-> FALSE]) \in NodeOrNone
    BY <2>1, LookupSteps
  <2> QED
    BY <1>4, <2>2 DEF Follow
<1> QED
    BY <1>1, <1>2, <1>3, <1>4

LEMMA ResolveSteps ==
    ASSUME TypeOK, NEW comps, Len(comps) \in Nat
    PROVE  \E e : /\ Steps(NodeOrNone, 0, [k \in 1..Len(comps) |-> Follow(comps[k])], Len(comps), e)
                  /\ resolve_path(comps) = e[Len(comps)]
<1> DEFINE n == Len(comps)
           g == [k \in 1..n |-> Follow(comps[k])]
           at[k \in 0..n] == IF k = 0 THEN 0 ELSE Follow(comps[k])[at[k - 1]]
<1>1. n \in Nat /\ 0 \in NodeOrNone
    BY NodeFacts
<1>2. g \in [1..n -> [NodeOrNone -> NodeOrNone]]
    BY FollowTyped
<1>3. resolve_path(comps) = at[n]
    BY DEF resolve_path
<1>4. PICK e : Steps(NodeOrNone, 0, g, n, e)
    BY <1>1, <1>2, StepsExist, Zenon
<1>5. e = [k \in 0..n |-> IF k = 0 THEN 0 ELSE Follow(comps[k])[e[k - 1]]]
  <2>1. \A i \in 0..n : i # 0 => i \in 1..n
    BY <1>1
  <2> QED
    BY <1>4, <2>1 DEF Steps, Recurs
<1>6. at = [k \in 0..n |-> IF k = 0 THEN 0 ELSE Follow(comps[k])[at[k - 1]]]
    BY <1>5, Zenon
<1> HIDE DEF at
<1>7. Recurs(0, g, n, at)
  <2>1. 0 \in 0..n /\ \A i \in 1..n : i \in 0..n /\ i # 0
    BY <1>1
  <2> QED
    BY <1>6, <2>1 DEF Recurs
<1>8. at[n] = e[n]
    BY <1>1, <1>4, <1>7, StepsUnique DEF Steps
<1> QED
    BY <1>3, <1>4, <1>8, Zenon

\* The nodes that the components of a path lead to, one after the other.
WalkOf(comps, at) ==
    /\ at \in [0..Len(comps) -> NodeOrNone] /\ at[0] = 0
    /\ \A k \in 1..Len(comps) : at[k] = Follow(comps[k])[at[k - 1]]
Resolves ==
    \A comps \in Seq(Comps) : \E at :
        /\ WalkOf(comps, at)
        /\ \A k \in 0..Len(comps) : resolve_path(SubSeq(comps, 1, k)) = at[k]
        /\ resolve_path(comps) = at[Len(comps)]

LEMMA ResolveIs == TypeOK => Resolves
<1> SUFFICES ASSUME TypeOK, NEW comps \in Seq(Comps)
             PROVE  \E at : /\ WalkOf(comps, at)
                            /\ \A k \in 0..Len(comps) : resolve_path(SubSeq(comps, 1, k)) = at[k]
                            /\ resolve_path(comps) = at[Len(comps)]
    BY DEF Resolves
<1> DEFINE n == Len(comps)
           g == [k \in 1..n |-> Follow(comps[k])]
<1>1. n \in Nat
    OBVIOUS
<1>2. PICK at : Steps(NodeOrNone, 0, g, n, at) /\ resolve_path(comps) = at[n]
    BY <1>1, ResolveSteps, SMTT(60)
<1>3. WalkOf(comps, at)
    BY <1>2 DEF Steps, Recurs, WalkOf
<1>4. ASSUME NEW k \in 0..n PROVE resolve_path(SubSeq(comps, 1, k)) = at[k]
  <2> DEFINE sub == SubSeq(comps, 1, k)
             h == [i \in 1..k |-> Follow(sub[i])]
  <2>1. k \in Nat /\ k <= n /\ Len(sub) = k /\ \A i \in 1..k : sub[i] = comps[i] /\ i \in 1..n
    BY <1>1
  <2> HIDE DEF sub
  <2>2. PICK e : Steps(NodeOrNone, 0, h, k, e) /\ resolve_path(sub) = e[k]
    BY <2>1, ResolveSteps, SMTT(60)
  <2>3. \A i \in 1..k : h[i] = g[i]
    BY <2>1
  <2>4. Recurs(0, g, k, e) /\ Recurs(0, g, n, at)
    BY <1>2, <2>2, <2>3, Zenon DEF Steps, Recurs
  <2>5. k \in 0..k
    BY <2>1
  <2> HIDE DEF g, h, n
  <2>6. k \in Nat /\ k <= n
    BY <2>1
  <2>7. \A i \in 0..k : at[i] = e[i]
    BY <1>1, <2>4, <2>6, StepsUnique
  <2> QED
    BY <2>2, <2>5, <2>7 DEF sub
<1> QED
    BY <1>2, <1>3, <1>4

\* One component, from a node in the tree: itself, its parent, or the entry of
\* that name.
Plain(comp) == [base |-> comp, slash |-> FALSE]
Follows ==
    \A comp :
        /\ Follow(comp)[-1] = -1
        /\ \A n \in Live :
              /\ comp = "." => Follow(comp)[n] = n
              /\ comp = ".." => Follow(comp)[n] = IF n = 0 THEN 0 ELSE parent[n]
              /\ comp \notin {".", ".."} =>
                    \/ Follow(comp)[n] = -1 /\ \A m \in Kids(n) : name[m] # Plain(comp)
                    \/ Follow(comp)[n] \in Kids(n) /\ name[Follow(comp)[n]] = Plain(comp)

LEMMA FollowIs == TInv => Follows
<1> SUFFICES ASSUME TInv, NEW comp
    PROVE  /\ Follow(comp)[-1] = -1
           /\ \A n \in Live :
                 /\ comp = "." => Follow(comp)[n] = n
                 /\ comp = ".." => Follow(comp)[n] = IF n = 0 THEN 0 ELSE parent[n]
                 /\ comp \notin {".", ".."} =>
                       \/ Follow(comp)[n] = -1 /\ \A m \in Kids(n) : name[m] # Plain(comp)
                       \/ Follow(comp)[n] \in Kids(n) /\ name[Follow(comp)[n]] = Plain(comp)
    BY DEF Follows
<1>1. Follow(comp)[-1] = -1
    BY NodeFacts DEF Follow
<1>2. ASSUME NEW n \in Live
      PROVE  /\ comp = "." => Follow(comp)[n] = n
             /\ comp = ".." => Follow(comp)[n] = IF n = 0 THEN 0 ELSE parent[n]
             /\ comp \notin {".", ".."} => Follow(comp)[n] = lookup_child(n, Plain(comp))
  <2>1. n \in NodeOrNone /\ n # -1
    BY NodeFacts
  <2>2. comp = "." => Follow(comp)[n] = n
    BY <2>1 DEF Follow
  <2>3. comp = ".." => Follow(comp)[n] = IF parent[n] >= 0 THEN parent[n] ELSE 0
    BY <2>1 DEF Follow
  <2>4. comp \notin {".", ".."} => Follow(comp)[n] = lookup_child(n, Plain(comp))
    BY <2>1 DEF Follow, Plain
  <2>5. (IF parent[n] >= 0 THEN parent[n] ELSE 0) = (IF n = 0 THEN 0 ELSE parent[n])
    <3>1. CASE n = 0
      BY <3>1 DEF TInv, Entered
    <3>2. CASE n # 0
      <4>1. parent[n] \in Nodes
        BY <3>2, NodeFacts DEF TInv, Entered
      <4>2. parent[n] >= 0
        BY <4>1, NodeFacts
      <4> QED
        BY <3>2, <4>2
    <3> QED
      BY <3>1, <3>2
  <2> QED
    BY <2>2, <2>3, <2>4, <2>5
<1>3. Lookups
    BY LookupIs
<1> QED
    BY <1>1, <1>2, <1>3 DEF Lookups

\* A walk stays in the tree, and a walk that has failed does not recover.
LEMMA WalkInTree ==
    ASSUME TInv, NEW comps \in Seq(Comps), NEW at, WalkOf(comps, at)
    PROVE  /\ \A k \in 0..Len(comps) : at[k] \in Live \cup {-1}
           /\ at[Len(comps)] # -1 => \A k \in 0..Len(comps) : at[k] \in Live
<1> DEFINE n == Len(comps)
<1>1. n \in Nat
    OBVIOUS
<1>2. /\ at[0] = 0 /\ \A k \in 1..n : at[k] = Follow(comps[k])[at[k - 1]]
    BY DEF WalkOf
<1>3. Follows
    BY FollowIs
<1>4. \A m \in Live : \A comp : Follow(comp)[m] \in Live \cup {-1}
    BY <1>3, NodeFacts DEF Follows, TInv, Entered, Live
<1>5. \A comp : Follow(comp)[-1] = -1
    BY <1>3 DEF Follows
<1>6. 0 \in Live
    BY NodeFacts DEF TInv, Entered, Live
<1> HIDE DEF n
<1>7. \A k \in 0..n : at[k] \in Live \cup {-1}
  <2> DEFINE T == {k \in Nat : k <= n /\ at[k] \notin Live \cup {-1}}
  <2> SUFFICES ASSUME T # {} PROVE FALSE
    BY <1>1
  <2>1. PICK k \in T : \A t \in T : k <= t
    BY Least, Zenon
  <2>2. k # 0
    BY <1>2, <1>6
  <2>3. k - 1 \in Nat /\ k - 1 <= n /\ ~(k <= k - 1) /\ k \in 1..n
    BY <1>1, <2>2
  <2>4. at[k - 1] \in Live \cup {-1}
    BY <2>1, <2>3
  <2> QED
    BY <1>2, <1>4, <1>5, <2>3, <2>4
<1>8. ASSUME at[n] # -1, NEW j \in 0..n, at[j] = -1 PROVE FALSE
  <2> DEFINE T == {i \in Nat : i <= n /\ at[n - i] = -1}
  <2>0. n - j \in Nat /\ n - j <= n /\ n - (n - j) = j
    BY <1>1
  <2>1. n - j \in T
    BY <1>8, <2>0
  <2>2. PICK i \in T : \A t \in T : i <= t
    BY <2>1, Least, Zenon
  <2>3. i # 0
    BY <1>1, <1>8
  <2>4. /\ i - 1 \in Nat /\ i - 1 <= n /\ ~(i <= i - 1)
        /\ n - (i - 1) \in 1..n /\ n - (i - 1) - 1 = n - i
    BY <1>1, <2>3
  <2>5. at[n - (i - 1)] = -1
    BY <1>2, <1>5, <2>4
  <2> QED
    BY <2>2, <2>4, <2>5
<1> QED
    BY <1>7, <1>8 DEF n

----------------------------------------------------------------------------
(* Creation.                                                               *)

\* What tmpfs_create_path does, as node n under name nm in directory d.
Created(d, n, nm, t) ==
    /\ d \in Live /\ type[d] = "DIR" /\ n \in Nodes \ Live
    /\ nm \in Name /\ \A m \in Kids(d) : name[m] # Plain(nm.base)
    /\ type' = [type EXCEPT ![n] = t]
    /\ name' = [name EXCEPT ![n] = nm]
    /\ parent' = [parent EXCEPT ![n] = d]
    /\ first_child' = [first_child EXCEPT ![n] = -1, ![d] = n]
    /\ next_sibling' = [next_sibling EXCEPT ![n] = first_child[d]]

LEMMA PathTyped ==
    ASSUME NEW path \in Paths
    PROVE  /\ path.comps \in Seq(Comps) /\ Len(path.comps) \in Nat /\ Len(path.comps) >= 1
           /\ path.slash \in BOOLEAN
           /\ path.comps[Len(path.comps)] \in Names \cup {".", ".."}
<1>1. path.comps \in Walks /\ path.slash \in BOOLEAN
    BY DEF Paths
<1> DEFINE c == path.comps
<1>2. c \in Seq(Names \cup {".", ".."}) /\ c # <<>>
    BY <1>1, TmpFsAssumption, Zenon
<1> HIDE DEF c
<1>3. Len(c) \in Nat /\ Len(c) >= 1 /\ c[Len(c)] \in Names \cup {".", ".."}
    BY <1>2
<1>4. c \in Seq(Comps)
    BY <1>2 DEF Comps
<1> QED
    BY <1>1, <1>3, <1>4 DEF c

LEMMA CreateIs ==
    ASSUME TInv, NEW path \in Paths, NEW t, tmpfs_create_path(path, t)
    PROVE  \E n : Created(resolve_path(SplitParent(path)), n, SplitLeaf(path), t)
<1> DEFINE c == path.comps
           len == Len(c)
           d == resolve_path(SplitParent(path))
           leaf == c[len]
<1>1. c \in Seq(Comps) /\ len \in Nat /\ len >= 1 /\ path.slash \in BOOLEAN
      /\ leaf \in Names \cup {".", ".."}
    BY PathTyped
<1>2. SplitParent(path) = SubSeq(c, 1, len - 1) /\ SplitLeaf(path) = [base |-> leaf, slash |-> path.slash]
    BY DEF SplitParent, SplitLeaf
<1>3. /\ resolve_path(c) = -1 /\ d # -1 /\ type[d] = "DIR"
      /\ create_child(d, SplitLeaf(path), t)
    BY DEF tmpfs_create_path
<1> HIDE DEF c, len, leaf
<1>4. PICK at : /\ WalkOf(c, at)
                /\ \A k \in 0..Len(c) : resolve_path(SubSeq(c, 1, k)) = at[k]
                /\ resolve_path(c) = at[Len(c)]
    BY <1>1, ResolveIs DEF TInv, Resolves
<1>5. len - 1 \in 0..len /\ len \in 1..len /\ Len(c) = len
    BY <1>1 DEF len
<1>6. d = at[len - 1] /\ Follow(leaf)[d] = -1
    BY <1>2, <1>3, <1>4, <1>5 DEF WalkOf, leaf
<1>7. d \in Live
    BY <1>1, <1>3, <1>4, <1>5, <1>6, WalkInTree
<1>8. Follows
    BY FollowIs
<1>9. leaf # "." /\ leaf # ".."
  <2>1. leaf # "."
    BY <1>3, <1>6, <1>7, <1>8 DEF Follows
  <2>2. ASSUME leaf = ".." PROVE FALSE
    <3>1. (IF d = 0 THEN 0 ELSE parent[d]) = -1
      BY <1>6, <1>7, <1>8, <2>2 DEF Follows
    <3>2. d # 0 => parent[d] \in Nodes
      BY <1>7, NodeFacts DEF TInv, Entered
    <3> QED
      BY <3>1, <3>2, NodeFacts
  <2> QED
    BY <2>1, <2>2
<1>10. \A m \in Kids(d) : name[m] # Plain(leaf)
    BY <1>6, <1>7, <1>8, <1>9, NodeFacts, SMTT(60) DEF Follows
<1>11. SplitLeaf(path) \in Name /\ SplitLeaf(path).base = leaf
    BY <1>1, <1>2, <1>9 DEF Name
<1>12. PICK n \in Nodes : 
        /\ FreeNode(n)
        /\ type' = [type EXCEPT ![n] = t]
        /\ name' = [name EXCEPT ![n] = SplitLeaf(path)]
        /\ parent' = [parent EXCEPT ![n] = d]
        /\ first_child' = [first_child EXCEPT ![n] = -1, ![d] = n]
        /\ next_sibling' = [next_sibling EXCEPT ![n] = first_child[d]]
    BY <1>3, Zenon DEF create_child
<1>13. Created(d, n, SplitLeaf(path), t)
    BY <1>3, <1>7, <1>10, <1>11, <1>12 DEF Created, FreeNode
<1> QED
    BY <1>13

\* The tables after a creation, entry by entry.
LEMMA CreatedTables ==
    ASSUME TInv, NEW d, NEW n, NEW nm, NEW t \in {"FILE", "DIR"}, Created(d, n, nm, t)
    PROVE  /\ TypeOK' /\ Live' = Live \cup {n} /\ n \notin Live /\ n # 0 /\ n # d /\ 0 \in Live
           /\ \A m \in Live : /\ type'[m] = type[m] /\ name'[m] = name[m] /\ parent'[m] = parent[m]
                              /\ next_sibling'[m] = next_sibling[m]
                              /\ m # d => first_child'[m] = first_child[m]
           /\ type'[n] = t /\ name'[n] = nm /\ parent'[n] = d
           /\ first_child'[n] = -1 /\ first_child'[d] = n /\ next_sibling'[n] = first_child[d]
           /\ Kids(d)' = Kids(d) \cup {n} /\ Kids(n)' = {}
           /\ \A x : x # d => Kids(x)' = Kids(x)
<1>1. /\ d \in Live /\ type[d] = "DIR" /\ n \in Nodes \ Live /\ nm \in Name
      /\ type' = [type EXCEPT ![n] = t]
      /\ name' = [name EXCEPT ![n] = nm]
      /\ parent' = [parent EXCEPT ![n] = d]
      /\ first_child' = [first_child EXCEPT ![n] = -1, ![d] = n]
      /\ next_sibling' = [next_sibling EXCEPT ![n] = first_child[d]]
    BY DEF Created
<1>2. /\ type \in [Nodes -> {"NONE", "FILE", "DIR", "CHARDEV"}]
      /\ name \in [Nodes -> Name \cup {NoName, RootName}]
      /\ parent \in [Nodes -> NodeOrNone]
      /\ first_child \in [Nodes -> NodeOrNone]
      /\ next_sibling \in [Nodes -> NodeOrNone]
    BY DEF TInv, TypeOK
<1>3. n \in Nodes /\ d \in Nodes /\ n # d /\ n \in NodeOrNone /\ -1 \in NodeOrNone /\ d \in NodeOrNone
      /\ Live \subseteq Nodes
    BY <1>1, NodeFacts
<1>4. 0 \in Live /\ n # 0
    BY <1>1, NodeFacts DEF TInv, Entered, Live
<1>5. TypeOK'
    BY <1>1, <1>2, <1>3, Zenon DEF TypeOK, Nodes, NodeOrNone, Name, NoName, RootName
<1>6. Live' = Live \cup {n}
    BY <1>1, <1>2, <1>3 DEF Live, Nodes
<1>7. /\ \A m \in Live : /\ type'[m] = type[m] /\ name'[m] = name[m] /\ parent'[m] = parent[m]
                         /\ next_sibling'[m] = next_sibling[m]
                         /\ m # d => first_child'[m] = first_child[m]
      /\ type'[n] = t /\ name'[n] = nm /\ parent'[n] = d
      /\ first_child'[n] = -1 /\ first_child'[d] = n /\ next_sibling'[n] = first_child[d]
    BY <1>1, <1>2, <1>3
<1>8. \A m \in Live \ {0} : parent[m] # n
    BY <1>1 DEF TInv, Entered
<1>9. /\ Kids(d)' = Kids(d) \cup {n} /\ Kids(n)' = {}
      /\ \A x : x # d => Kids(x)' = Kids(x)
    BY <1>1, <1>3, <1>4, <1>6, <1>7, <1>8, SMTT(60) DEF Kids
<1> QED
    BY <1>1, <1>3, <1>4, <1>5, <1>6, <1>7, <1>9, Zenon

LEMMA CreatedTInv ==
    ASSUME TInv, NEW d, NEW n, NEW nm, NEW t \in {"FILE", "DIR"}, Created(d, n, nm, t)
    PROVE  TInv'
<1>1. /\ TypeOK' /\ Live' = Live \cup {n} /\ n \notin Live /\ n # 0 /\ n # d /\ 0 \in Live
      /\ \A m \in Live : /\ type'[m] = type[m] /\ name'[m] = name[m] /\ parent'[m] = parent[m]
                         /\ next_sibling'[m] = next_sibling[m]
                         /\ m # d => first_child'[m] = first_child[m]
      /\ type'[n] = t /\ name'[n] = nm /\ parent'[n] = d
      /\ first_child'[n] = -1 /\ first_child'[d] = n /\ next_sibling'[n] = first_child[d]
      /\ Kids(d)' = Kids(d) \cup {n} /\ Kids(n)' = {}
      /\ \A x : x # d => Kids(x)' = Kids(x)
    BY CreatedTables
<1>2. /\ d \in Live /\ type[d] = "DIR" /\ n \in Nodes /\ nm \in Name
      /\ \A m \in Kids(d) : name[m] # Plain(nm.base)
    BY DEF Created
<1>3. NodeOrNone' = NodeOrNone /\ Nodes' = Nodes /\ Name' = Name
    BY DEF NodeOrNone, Nodes, Name
<1>4. Entered'
  <2>1. /\ type'[0] = "DIR" /\ parent'[0] = -1
    BY <1>1, SMTT(60) DEF TInv, Entered
  <2>2. \A m \in Live' \ {0} : parent'[m] \in Live' /\ type'[parent'[m]] = "DIR" /\ name'[m] \in Name
    BY <1>1, <1>2 DEF TInv, Entered
  <2>3. ~nm.slash => nm = Plain(nm.base)
    BY <1>2 DEF Name, Plain
  <2>4. ASSUME NEW k \in Live' \ {0}, NEW m \in Live' \ {0}, parent'[k] = parent'[m],
               name'[k] = name'[m], ~name'[k].slash
        PROVE  k = m
    <3>1. CASE k # n /\ m # n
      BY <1>1, <2>4, <3>1 DEF TInv, Entered
    <3>2. CASE k = n /\ m # n
      <4>1. m \in Kids(d) /\ name[m] = nm /\ ~nm.slash
        BY <1>1, <2>4, <3>2 DEF Kids
      <4> QED
        BY <1>2, <2>3, <4>1, SMTT(60)
    <3>3. CASE k # n /\ m = n
      <4>1. k \in Kids(d) /\ name[k] = nm /\ ~nm.slash
        BY <1>1, <2>4, <3>3 DEF Kids
      <4> QED
        BY <1>2, <2>3, <4>1, SMTT(60)
    <3> QED
      BY <3>1, <3>2, <3>3, SMTT(60)
  <2> QED
    BY <1>3, <2>1, <2>2, <2>4, SMTT(60) DEF Entered
<1>5. Rooted'
  <2> SUFFICES ASSUME NEW T \in SUBSET (Live' \ {0}), T # {} PROVE \E m \in T : parent'[m] \notin T
    BY DEF Rooted
  <2>1. CASE T \subseteq {n}
    BY <1>1, <2>1
  <2>2. CASE ~(T \subseteq {n})
    <3> DEFINE U == T \ {n}
    <3>1. U \in SUBSET (Live \ {0}) /\ U # {}
      BY <1>1, <2>2
    <3>2. PICK m \in U : parent[m] \notin U
      BY <3>1, Zenon DEF TInv, Rooted
    <3>3. parent[m] # n /\ parent'[m] = parent[m]
      BY <1>1, <3>1 DEF TInv, Entered
    <3> QED
      BY <3>2, <3>3
  <2> QED
    BY <2>1, <2>2
<1>6. Listing'
  <2> SUFFICES ASSUME NEW x \in Live'
               PROVE  \E k \in Nat : \E l \in [0..k -> NodeOrNone] : IsList(x, k, l)'
    BY <1>3 DEF Listing
  <2>1. CASE x = n
    <3> DEFINE l == [i \in 0..0 |-> -1]
    <3>1. l \in [0..0 -> NodeOrNone] /\ \A i : i \notin 0..(0 - 1)
      BY NodeFacts
    <3>2. IsList(x, 0, l)'
      BY <1>1, <1>3, <2>1, <3>1 DEF IsList
    <3> QED
      BY <3>1, <3>2, Zenon
  <2>2. CASE x = d
    <3>1a. PICK k \in Nat : \E l : IsList(d, k, l)
      BY <1>2 DEF TInv, Listing
    <3>1. PICK l : IsList(d, k, l)
        BY <3>1a
    <3> DEFINE e == [i \in 0..(k + 1) |-> IF i = 0 THEN n ELSE l[i - 1]]
    <3>2. /\ l \in [0..k -> NodeOrNone] /\ l[0] = first_child[d] /\ l[k] = -1
          /\ \A i \in 0..(k - 1) : l[i] \in Kids(d) /\ next_sibling[l[i]] = l[i + 1]
          /\ \A i, j \in 0..(k - 1) : l[i] = l[j] => i = j
          /\ \A m \in Kids(d) : \E i \in 0..(k - 1) : l[i] = m
      BY <3>1 DEF IsList
    <3>3. /\ k + 1 \in Nat /\ (k + 1) - 1 = k
          /\ \A i \in 0..(k + 1) : i # 0 => i - 1 \in 0..k
          /\ \A i \in 0..k : i # 0 => i - 1 \in 0..(k - 1)
      OBVIOUS
    <3>4. e \in [0..(k + 1) -> NodeOrNone]
      BY <1>2, <3>2, <3>3, NodeFacts, SMTT(60)
    <3>5. e[0] = first_child'[d] /\ e[k + 1] = -1
      BY <1>1, <3>2, <3>3, SMTT(60)
    <3>6. ASSUME NEW i \in 0..k PROVE e[i] \in Kids(d)' /\ next_sibling'[e[i]] = e[i + 1]
      <4>1. i \in 0..(k + 1) /\ i + 1 \in 0..(k + 1) /\ i + 1 # 0 /\ (i + 1) - 1 = i
        BY <3>3
      <4>2. e[i + 1] = l[i]
        BY <4>1, SMTT(60)
      <4>3. CASE i = 0
        BY <1>1, <3>2, <4>1, <4>2, <4>3, SMTT(60)
      <4>4. CASE i # 0
        <5>1. e[i] = l[i - 1] /\ i - 1 \in 0..(k - 1) /\ (i - 1) + 1 = i
          BY <3>3, <4>1, <4>4
        <5>2. l[i - 1] \in Kids(d) /\ next_sibling[l[i - 1]] = l[i] /\ l[i - 1] \in Live
          BY <3>2, <5>1, SMTT(60) DEF Kids
        <5> QED
          BY <1>1, <4>2, <5>1, <5>2
      <4> QED
        BY <4>3, <4>4
    <3>7. ASSUME NEW i \in 0..k, NEW j \in 0..k, e[i] = e[j] PROVE i = j
      <4>1. i \in 0..(k + 1) /\ j \in 0..(k + 1)
        BY <3>3
      <4>2. ASSUME NEW q \in 0..k, q # 0 PROVE e[q] # n
        <5>1. e[q] = l[q - 1] /\ l[q - 1] \in Live
          BY <3>2, <3>3, <4>2 DEF Kids
        <5> QED
          BY <1>1, <5>1
      <4>3. CASE i # 0 /\ j # 0
        <5>1. l[i - 1] = l[j - 1]
          BY <3>7, <4>1, <4>3
        <5>2. i - 1 = j - 1
          BY <3>2, <3>3, <4>3, <5>1, SMTT(60)
        <5> QED
          BY <5>2
      <4> QED
        BY <3>7, <4>1, <4>2, <4>3, Zenon
    <3>8. ASSUME NEW m \in Kids(d)' PROVE \E i \in 0..k : e[i] = m
      <4>1. CASE m = n
        <5>1. 0 \in 0..k /\ e[0] = n
          OBVIOUS
        <5> QED
          BY <4>1, <5>1
      <4>2. CASE m \in Kids(d)
        <5>1. PICK i \in 0..(k - 1) : l[i] = m
          BY <3>2, <4>2
        <5>2. i + 1 \in 0..k /\ i + 1 \in 0..(k + 1) /\ i + 1 # 0 /\ (i + 1) - 1 = i
          OBVIOUS
        <5>3. e[i + 1] = m
          BY <5>1, <5>2
        <5> QED
          BY <5>2, <5>3, Zenon
      <4> QED
        BY <1>1, <4>1, <4>2, Zenon
    <3> HIDE DEF e
    <3>9. IsList(d, k + 1, e)'
      BY <1>3, <3>3, <3>4, <3>5, <3>6, <3>7, <3>8, SMTT(60) DEF IsList
    <3> QED
      BY <2>2, <3>3, <3>4, <3>9
  <2>3. CASE x # n /\ x # d
    <3>1a. PICK k \in Nat : \E l : l \in [0..k -> NodeOrNone] /\ IsList(x, k, l)
      BY <1>1, <2>3 DEF TInv, Listing
    <3>1. PICK l : l \in [0..k -> NodeOrNone] /\ IsList(x, k, l)
        BY <3>1a, SMTT(60)
    <3>2. x \in Live /\ Kids(x)' = Kids(x) /\ first_child'[x] = first_child[x]
      BY <1>1, <2>3, SMTT(60)
    <3>3. \A m \in Kids(x) : next_sibling'[m] = next_sibling[m]
      BY <1>1, SMTT(60) DEF Kids
    <3>4. IsList(x, k, l)'
      BY <1>3, <3>1, <3>2, <3>3, ZenonT(60) DEF IsList
    <3> QED
      BY <3>1, <3>4, SMTT(60)
  <2> QED
    BY <2>1, <2>2, <2>3
<1> QED
    BY <1>1, <1>4, <1>5, <1>6 DEF TInv

----------------------------------------------------------------------------
(* Removal.                                                                *)

Removed(id) ==
    /\ id \in Live \ {0} /\ Kids(id) = {}
    /\ Unlink(id)
    /\ type' = [type EXCEPT ![id] = "NONE"]
    /\ name' = [name EXCEPT ![id] = NoName]
    /\ parent' = [parent EXCEPT ![id] = 0]

\* Only what has no entries is removed.
LEMMA RemoveIs ==
    ASSUME TInv, NEW path \in Paths, NEW want, tmpfs_remove_path(path, want)
    PROVE  \E id : Removed(id)
<1> DEFINE c == path.comps
           id == resolve_path(c)
<1>1. c \in Seq(Comps) /\ Len(c) \in Nat
    BY PathTyped
<1>2. /\ id > 0
      /\ type[id] = "DIR" => first_child[id] = -1
      /\ Unlink(id)
      /\ type' = [type EXCEPT ![id] = "NONE"]
      /\ name' = [name EXCEPT ![id] = NoName]
      /\ parent' = [parent EXCEPT ![id] = 0]
    BY DEF tmpfs_remove_path
<1> HIDE DEF c
<1>3. PICK at : WalkOf(c, at) /\ resolve_path(c) = at[Len(c)]
    BY <1>1, ResolveIs DEF TInv, Resolves
<1>4. Len(c) \in 0..Len(c)
    BY <1>1
<1>5. id \in Live \cup {-1}
    BY <1>1, <1>3, <1>4, WalkInTree
<1>6. id \in Live \ {0}
    BY <1>2, <1>5
<1>7. Kids(id) = {}
  <2>1. CASE type[id] = "DIR"
    <3>1a. PICK n \in Nat : \E l : IsList(id, n, l)
      BY <1>6 DEF TInv, Listing
    <3>1. PICK l : IsList(id, n, l)
        BY <3>1a
    <3>2. ASSUME n # 0 PROVE FALSE
      <4>1. 0 \in 0..(n - 1)
        BY <3>2
      <4> QED
        BY <1>2, <2>1, <3>1, <4>1, NodeFacts DEF IsList
    <3>3. \A i : i \notin 0..(0 - 1)
      OBVIOUS
    <3> QED
      BY <3>1, <3>2, <3>3 DEF IsList
  <2>2. CASE type[id] # "DIR"
    BY <2>2 DEF Kids, TInv, Entered
  <2> QED
    BY <2>1, <2>2
<1> HIDE DEF id
<1> QED
    BY <1>2, <1>6, <1>7, Zenon DEF Removed

LEMMA RemovedTables ==
    ASSUME TInv, NEW id, NEW d, d = parent[id], Removed(id)
    PROVE  /\ TypeOK' /\ Live' = Live \ {id} /\ id \in Live /\ id # 0 /\ d \in Live' /\ 0 \in Live'
           /\ type[d] = "DIR"
           /\ \A m \in Live' :
                 /\ type'[m] = type[m] /\ name'[m] = name[m] /\ parent'[m] = parent[m]
                 /\ m # d => first_child'[m] = first_child[m]
                 /\ next_sibling'[m] = IF first_child[d] # id /\ m \in Kids(d) /\ next_sibling[m] = id
                                       THEN next_sibling[id] ELSE next_sibling[m]
           /\ first_child'[d] = IF first_child[d] = id THEN next_sibling[id] ELSE first_child[d]
           /\ id \in Kids(d) /\ Kids(d)' = Kids(d) \ {id} /\ \A m \in Live' : parent'[m] # id
           /\ \A x \in Live' : x # d => Kids(x)' = Kids(x)
<1>1. /\ id \in Live /\ id # 0 /\ Kids(id) = {}
      /\ type' = [type EXCEPT ![id] = "NONE"]
      /\ name' = [name EXCEPT ![id] = NoName]
      /\ parent' = [parent EXCEPT ![id] = 0]
      /\ first_child' = [first_child EXCEPT
                            ![d] = IF @ = id THEN next_sibling[id] ELSE @,
                            ![id] = 0]
      /\ next_sibling' = [m \in Nodes |->
              CASE m = id -> 0
                [] m # id /\ first_child[d] # id /\ m \in Listed(d)
                          /\ next_sibling[m] = id -> next_sibling[id]
                [] OTHER -> next_sibling[m]]
    BY DEF Removed, Unlink
<1>2. /\ type \in [Nodes -> {"NONE", "FILE", "DIR", "CHARDEV"}]
      /\ name \in [Nodes -> Name \cup {NoName, RootName}]
      /\ parent \in [Nodes -> NodeOrNone]
      /\ first_child \in [Nodes -> NodeOrNone]
      /\ next_sibling \in [Nodes -> NodeOrNone]
    BY DEF TInv, TypeOK
<1>3. d \in Live /\ type[d] = "DIR" /\ d # id
  <2>1. d \in Live /\ type[d] = "DIR"
    BY <1>1 DEF TInv, Entered
  <2>2. {id} \in SUBSET (Live \ {0}) /\ {id} # {}
    BY <1>1
  <2>3. parent[id] \notin {id}
    BY <2>2, Zenon DEF TInv, Rooted
  <2> QED
    BY <2>1, <2>3
<1>4. 0 \in Live /\ Live \subseteq Nodes /\ 0 \in NodeOrNone /\ id \in Nodes /\ d \in Nodes
    BY <1>1, <1>3, NodeFacts DEF TInv, Entered, Live
<1>5. Listed(d) = Kids(d)
    BY <1>3, ListsAre DEF ListsExact, Kids
<1>6. Live' = Live \ {id}
    BY <1>1, <1>2, <1>4 DEF Live, Nodes
<1>7. \A m \in Nodes : next_sibling'[m] =
         IF m = id THEN 0
         ELSE IF first_child[d] # id /\ m \in Kids(d) /\ next_sibling[m] = id THEN next_sibling[id]
         ELSE next_sibling[m]
    BY <1>1, <1>5
<1>8. next_sibling' \in [Nodes -> NodeOrNone]
    <2>1. next_sibling' = [m \in Nodes |-> next_sibling'[m]]
      BY <1>1
    <2>2. \A m \in Nodes : next_sibling'[m] \in NodeOrNone
      BY <1>2, <1>4, <1>7
    <2> QED
      BY <2>1, <2>2
<1>9. first_child' \in [Nodes -> NodeOrNone]
    BY <1>1, <1>2, <1>4
<1>10. TypeOK'
    BY <1>1, <1>2, <1>4, <1>8, <1>9, Zenon DEF TypeOK, Nodes, NodeOrNone, Name, NoName, RootName
<1>11. \A m \in Live' :
          /\ type'[m] = type[m] /\ name'[m] = name[m] /\ parent'[m] = parent[m]
          /\ m # d => first_child'[m] = first_child[m]
    BY <1>1, <1>2, <1>3, <1>4, <1>6
<1>12. \A m \in Live' :
          next_sibling'[m] = IF first_child[d] # id /\ m \in Kids(d) /\ next_sibling[m] = id
                             THEN next_sibling[id] ELSE next_sibling[m]
    BY <1>4, <1>6, <1>7
<1>13. first_child'[d] = IF first_child[d] = id THEN next_sibling[id] ELSE first_child[d]
    BY <1>1, <1>2, <1>3, <1>4
<1>14. id \in Kids(d) /\ Kids(d)' = Kids(d) \ {id} /\ \A x \in Live' : x # d => Kids(x)' = Kids(x)
    BY <1>1, <1>6, <1>11 DEF Kids
<1>15. \A m \in Live' : parent'[m] # id
  <2>1. \A m \in Live \ {0} : parent[m] # id
    BY <1>1 DEF Kids
  <2>2. parent[0] # id
    BY <1>4, NodeFacts, SMTT(60) DEF TInv, Entered
  <2> QED
    BY <1>6, <1>11, <2>1, <2>2
<1> QED
    BY <1>1, <1>3, <1>4, <1>6, <1>10, <1>11, <1>12, <1>13, <1>14, <1>15, Zenon

\* A list of k entries without its entry j.
Without(l, j, k) == [i \in 0..(k - 1) |-> IF i < j THEN l[i] ELSE l[i + 1]]

Shorter(A, k, l, j, e) ==
    /\ k - 1 \in Nat /\ e \in [0..(k - 1) -> A] /\ e[k - 1] = l[k]
    /\ e[0] = IF j = 0 THEN l[1] ELSE l[0]
    /\ \A i \in 0..(k - 2) :
          \/ i + 1 < j /\ e[i] = l[i] /\ e[i + 1] = l[i + 1]
          \/ i + 1 = j /\ e[i] = l[i] /\ e[i + 1] = l[i + 2]
          \/ i >= j /\ e[i] = l[i + 1] /\ e[i + 1] = l[i + 2]
    /\ \A p, q \in 0..(k - 2) : e[p] = e[q] => p = q
    /\ \A i \in 0..(k - 1) : i # j => \E p \in 0..(k - 2) : e[p] = l[i]

LEMMA ListWithout ==
    ASSUME NEW A, NEW k \in Nat, NEW l \in [0..k -> A], NEW j \in 0..(k - 1),
           \A p, q \in 0..(k - 1) : l[p] = l[q] => p = q,
           NEW e, e = Without(l, j, k)
    PROVE  Shorter(A, k, l, j, e)
<1>1. k - 1 \in Nat /\ j \in Nat /\ j <= k - 1
    OBVIOUS
<1>2. \A i \in 0..(k - 1) : i \in 0..k /\ i + 1 \in 0..k
    OBVIOUS
<1>3. e \in [0..(k - 1) -> A]
    BY <1>2 DEF Without
<1>4. \A i \in 0..(k - 1) : e[i] = IF i < j THEN l[i] ELSE l[i + 1]
    BY DEF Without
<1>5. e[k - 1] = l[k]
  <2>1. k - 1 \in 0..(k - 1) /\ ~(k - 1 < j) /\ (k - 1) + 1 = k
    BY <1>1
  <2> QED
    BY <1>4, <2>1
<1>6. e[0] = IF j = 0 THEN l[1] ELSE l[0]
  <2>1. 0 \in 0..(k - 1) /\ (0 < j <=> j # 0) /\ 0 + 1 = 1
    BY <1>1, SMTT(60)
  <2> QED
    BY <1>4, <2>1
<1>7. ASSUME NEW i \in 0..(k - 2)
      PROVE  \/ i + 1 < j /\ e[i] = l[i] /\ e[i + 1] = l[i + 1]
             \/ i + 1 = j /\ e[i] = l[i] /\ e[i + 1] = l[i + 2]
             \/ i >= j /\ e[i] = l[i + 1] /\ e[i + 1] = l[i + 2]
  <2>1. i \in 0..(k - 1) /\ i + 1 \in 0..(k - 1) /\ (i + 1) + 1 = i + 2 /\ i \in Nat
    BY <1>1
  <2>2. CASE i + 1 < j
    BY <1>1, <1>4, <2>1, <2>2, SMTT(60)
  <2>3. CASE i + 1 = j
    BY <1>1, <1>4, <2>1, <2>3, SMTT(60)
  <2>4. CASE i >= j
    BY <1>1, <1>4, <2>1, <2>4
  <2> QED
    BY <1>1, <2>1, <2>2, <2>3, <2>4, SMTT(60)
<1>8. ASSUME NEW p \in 0..(k - 2), NEW q \in 0..(k - 2), e[p] = e[q] PROVE p = q
  <2>1. /\ p \in 0..(k - 1) /\ q \in 0..(k - 1) /\ p + 1 \in 0..(k - 1) /\ q + 1 \in 0..(k - 1)
        /\ p \in Nat /\ q \in Nat
    BY <1>1
  <2>2. CASE p < j /\ q < j
    BY <1>4, <1>8, <2>1, <2>2, SMTT(60)
  <2>3. CASE p < j /\ ~(q < j)
    <3>1. p = q + 1
      BY <1>4, <1>8, <2>1, <2>3, SMTT(60)
    <3> QED
      BY <1>1, <2>1, <2>3, <3>1, SMTT(60)
  <2>4. CASE ~(p < j) /\ q < j
    <3>1. p + 1 = q
      BY <1>4, <1>8, <2>1, <2>4, SMTT(60)
    <3> QED
      BY <1>1, <2>1, <2>4, <3>1, SMTT(60)
  <2>5. CASE ~(p < j) /\ ~(q < j)
    <3>1. p + 1 = q + 1
      BY <1>4, <1>8, <2>1, <2>5
    <3> QED
      BY <2>1, <3>1
  <2> QED
    BY <2>2, <2>3, <2>4, <2>5
<1>9. ASSUME NEW i \in 0..(k - 1), i # j PROVE \E p \in 0..(k - 2) : e[p] = l[i]
  <2>1. CASE i < j
    <3>1. i \in 0..(k - 2) /\ e[i] = l[i]
      BY <1>1, <1>4, <2>1
    <3> QED
      BY <3>1
  <2>2. CASE i > j
    <3>1. i - 1 \in 0..(k - 2) /\ i - 1 \in 0..(k - 1) /\ ~(i - 1 < j) /\ (i - 1) + 1 = i
      BY <1>1, <2>2
    <3>2. e[i - 1] = l[i]
      BY <1>4, <3>1
    <3> QED
      BY <3>1, <3>2
  <2>3. i < j \/ i > j
    BY <1>1, <1>9
  <2> QED
    BY <2>1, <2>2, <2>3
<1> QED
    BY <1>1, <1>3, <1>5, <1>6, <1>7, <1>8, <1>9, SMTT(60) DEF Shorter

LEMMA RemovedTInv ==
    ASSUME TInv, NEW id, Removed(id)
    PROVE  TInv'
<1>0. PICK d : d = parent[id]
    BY SMTT(60)
<1>1. /\ TypeOK' /\ Live' = Live \ {id} /\ id \in Live /\ id # 0 /\ d \in Live' /\ 0 \in Live'
      /\ type[d] = "DIR"
      /\ \A m \in Live' :
            /\ type'[m] = type[m] /\ name'[m] = name[m] /\ parent'[m] = parent[m]
            /\ m # d => first_child'[m] = first_child[m]
            /\ next_sibling'[m] = IF first_child[d] # id /\ m \in Kids(d) /\ next_sibling[m] = id
                                  THEN next_sibling[id] ELSE next_sibling[m]
      /\ first_child'[d] = IF first_child[d] = id THEN next_sibling[id] ELSE first_child[d]
      /\ id \in Kids(d) /\ Kids(d)' = Kids(d) \ {id} /\ \A m \in Live' : parent'[m] # id
      /\ \A x \in Live' : x # d => Kids(x)' = Kids(x)
    BY <1>0, RemovedTables
<1>2. NodeOrNone' = NodeOrNone /\ Nodes' = Nodes /\ Name' = Name
    BY DEF NodeOrNone, Nodes, Name
<1>3. Entered'
  <2>1. type'[0] = "DIR" /\ parent'[0] = -1
    BY <1>1, SMTT(60) DEF TInv, Entered
  <2>2. \A m \in Live' \ {0} : parent'[m] \in Live' /\ type'[parent'[m]] = "DIR" /\ name'[m] \in Name
    <3> SUFFICES ASSUME NEW m \in Live' \ {0}
                 PROVE  parent'[m] \in Live' /\ type'[parent'[m]] = "DIR" /\ name'[m] \in Name
      BY SMTT(60)
    <3>1. m \in Live \ {0} /\ parent'[m] = parent[m] /\ name'[m] = name[m] /\ parent[m] # id
      BY <1>1, SMTT(60)
    <3>2. parent[m] \in Live /\ type[parent[m]] = "DIR" /\ name[m] \in Name
      BY <3>1, SMTT(60) DEF TInv, Entered
    <3> QED
      BY <1>1, <3>1, <3>2
  <2>3. \A k, m \in Live' \ {0} :
           parent'[k] = parent'[m] /\ name'[k] = name'[m] /\ ~name'[k].slash => k = m
    BY <1>1 DEF TInv, Entered
  <2> QED
    BY <1>2, <2>1, <2>2, <2>3, SMTT(60) DEF Entered
<1>4. Rooted'
  <2> SUFFICES ASSUME NEW T \in SUBSET (Live' \ {0}), T # {} PROVE \E m \in T : parent'[m] \notin T
    BY SMTT(60) DEF Rooted
  <2>1. T \in SUBSET (Live \ {0}) /\ \A m \in T : parent'[m] = parent[m]
    BY <1>1
  <2> QED
    BY <2>1 DEF TInv, Rooted
<1>5. Listing'
  <2> SUFFICES ASSUME NEW x \in Live'
               PROVE  \E k \in Nat : \E l \in [0..k -> NodeOrNone] : IsList(x, k, l)'
    BY <1>2 DEF Listing
  <2>1. CASE x # d
    <3>1. x \in Live /\ Kids(x)' = Kids(x) /\ first_child'[x] = first_child[x]
      BY <1>1, <2>1
    <3>2a. PICK k \in Nat : \E l : l \in [0..k -> NodeOrNone] /\ IsList(x, k, l)
      BY <3>1 DEF TInv, Listing
    <3>2. PICK l : l \in [0..k -> NodeOrNone] /\ IsList(x, k, l)
        BY <3>2a, SMTT(60)
    <3>3. \A m \in Kids(x) : m \in Live' /\ m \notin Kids(d)
      BY <1>1, <2>1, <3>1, SMTT(60) DEF Kids
    <3>4. \A m \in Kids(x) : next_sibling'[m] = next_sibling[m]
      BY <1>1, <3>3, SMTT(60)
    <3>5. IsList(x, k, l)'
      BY <1>2, <3>1, <3>2, <3>4, SMTT(60) DEF IsList
    <3> QED
      BY <3>2, <3>5
  <2>2. CASE x = d
    <3>1a. PICK k \in Nat : \E l : IsList(d, k, l)
      BY <1>1 DEF TInv, Listing
    <3>1. PICK l : IsList(d, k, l)
        BY <3>1a
    <3>2. /\ l \in [0..k -> NodeOrNone] /\ l[0] = first_child[d] /\ l[k] = -1
          /\ \A i \in 0..(k - 1) : l[i] \in Kids(d) /\ next_sibling[l[i]] = l[i + 1]
          /\ \A i, j \in 0..(k - 1) : l[i] = l[j] => i = j
          /\ \A m \in Kids(d) : \E i \in 0..(k - 1) : l[i] = m
      BY <3>1, SMTT(60) DEF IsList
    <3>3. PICK j \in 0..(k - 1) : l[j] = id
      BY <1>1, <3>2
    <3>4. PICK f : f = Without(l, j, k)
      BY SMTT(60)
    <3>5. /\ k - 1 \in Nat /\ f \in [0..(k - 1) -> NodeOrNone] /\ f[k - 1] = l[k]
          /\ f[0] = IF j = 0 THEN l[1] ELSE l[0]
          /\ \A i \in 0..(k - 2) :
                \/ i + 1 < j /\ f[i] = l[i] /\ f[i + 1] = l[i + 1]
                \/ i + 1 = j /\ f[i] = l[i] /\ f[i + 1] = l[i + 2]
                \/ i >= j /\ f[i] = l[i + 1] /\ f[i + 1] = l[i + 2]
          /\ \A p, q \in 0..(k - 2) : f[p] = f[q] => p = q
          /\ \A i \in 0..(k - 1) : i # j => \E p \in 0..(k - 2) : f[p] = l[i]
      <4>1. l \in [0..k -> NodeOrNone] /\ \A p, q \in 0..(k - 1) : l[p] = l[q] => p = q
        BY <3>2
      <4>2. Shorter(NodeOrNone, k, l, j, f)
        BY <3>4, <4>1, ListWithout
      <4> QED
        BY <4>2 DEF Shorter
    <3>6. /\ j \in Nat /\ j <= k - 1 /\ (k - 1) - 1 = k - 2 /\ 0 \in 0..(k - 1) /\ 0 + 1 = 1
          /\ k - 1 \in Nat
      OBVIOUS
    <3>7. first_child[d] = id <=> j = 0
      BY <3>2, <3>3, <3>6, SMTT(60)
    <3>8. next_sibling[id] = l[j + 1]
      BY <3>2, <3>3, SMTT(60)
    <3>9. f[0] = first_child'[d] /\ f[k - 1] = -1
      BY <1>1, <3>2, <3>5, <3>6, <3>7, <3>8, SMTT(60)
    <3>10. ASSUME NEW p \in 0..k, l[p] = id PROVE p = j
      <4>1. p # k
        <5>1. id # -1
          BY <1>1, NodeFacts
        <5>2. l[k] = -1
          BY <3>2
        <5> QED
          BY <3>10, <5>1, <5>2
      <4>2. p \in 0..(k - 1)
        BY <3>6, <4>1, SMTT(60)
      <4> QED
        BY <3>2, <3>3, <3>10, <4>2, SMTT(60)
    <3>11. ASSUME NEW i \in 0..(k - 2) PROVE f[i] \in Kids(d)' /\ next_sibling'[f[i]] = f[i + 1]
      <4>1. /\ i \in 0..(k - 1) /\ i + 1 \in 0..(k - 1) /\ i + 1 \in 0..k /\ i + 2 \in 0..k
            /\ (i + 1) + 1 = i + 2 /\ i \in Nat /\ i \in 0..k
        BY <3>6
      <4>2. ASSUME NEW p \in 0..(k - 1), p # j
            PROVE  /\ l[p] \in Kids(d)' /\ l[p] \in Live' /\ l[p] \in Kids(d)
                   /\ next_sibling[l[p]] = l[p + 1]
        BY <1>1, <3>2, <3>3, <4>2, ZenonT(60) DEF Kids
      <4>3. CASE i + 1 < j /\ f[i] = l[i] /\ f[i + 1] = l[i + 1]
        <5>1. i # j /\ i + 1 # j
          BY <3>6, <4>1, <4>3, SMTT(60)
        <5>2. next_sibling[l[i]] = l[i + 1] /\ l[i + 1] # id
          BY <3>10, <4>1, <4>2, <5>1, SMTT(60)
        <5>3. l[i] \in Kids(d)' /\ l[i] \in Live'
          BY <4>1, <4>2, <5>1, SMTT(60)
        <5>4. next_sibling'[l[i]] = l[i + 1]
          BY <1>1, <5>2, <5>3, SMTT(60)
        <5> QED
          BY <4>3, <5>3, <5>4, SMTT(60)
      <4>4. CASE i + 1 = j /\ f[i] = l[i] /\ f[i + 1] = l[i + 2]
        <5>1. i # j /\ j # 0 /\ j + 1 = i + 2
          BY <3>6, <4>1, <4>4, SMTT(60)
        <5>2. next_sibling[l[i]] = id /\ first_child[d] # id
          BY <3>3, <3>7, <4>1, <4>2, <4>4, <5>1, SMTT(60)
        <5>3. l[i] \in Kids(d)' /\ l[i] \in Live' /\ l[i] \in Kids(d)
          BY <4>1, <4>2, <5>1, SMTT(60)
        <5>4. next_sibling'[l[i]] = next_sibling[id]
          BY <1>1, <5>2, <5>3
        <5>5. next_sibling[id] = l[i + 2]
          BY <3>8, <5>1, SMTT(60)
        <5> QED
          BY <4>4, <5>3, <5>4, <5>5, SMTT(60)
      <4>5. CASE i >= j /\ f[i] = l[i + 1] /\ f[i + 1] = l[i + 2]
        <5>1. i + 1 # j /\ i + 2 # j
          BY <3>6, <4>1, <4>5, SMTT(60)
        <5>2. next_sibling[l[i + 1]] = l[i + 2] /\ l[i + 2] # id
          BY <3>10, <4>1, <4>2, <5>1, SMTT(60)
        <5>3. l[i + 1] \in Kids(d)' /\ l[i + 1] \in Live'
          BY <4>1, <4>2, <5>1, SMTT(60)
        <5>4. next_sibling'[l[i + 1]] = l[i + 2]
          BY <1>1, <5>2, <5>3, SMTT(60)
        <5> QED
          BY <4>5, <5>3, <5>4
      <4>6. \/ i + 1 < j /\ f[i] = l[i] /\ f[i + 1] = l[i + 1]
            \/ i + 1 = j /\ f[i] = l[i] /\ f[i + 1] = l[i + 2]
            \/ i >= j /\ f[i] = l[i + 1] /\ f[i + 1] = l[i + 2]
        BY <3>5
      <4> QED
        BY <4>3, <4>4, <4>5, <4>6
    <3>12. ASSUME NEW m \in Kids(d)' PROVE \E p \in 0..(k - 2) : f[p] = m
      <4>1. m \in Kids(d) /\ m # id
        BY <1>1, SMTT(60)
      <4>2. PICK i \in 0..(k - 1) : l[i] = m
        BY <3>2, <4>1
      <4>3. i # j
        BY <3>3, <4>1, <4>2, SMTT(60)
      <4> QED
        BY <3>5, <4>2, <4>3, SMTT(60)
    <3>13. IsList(d, k - 1, f)'
      BY <1>2, <3>5, <3>6, <3>9, <3>11, <3>12, SMTT(60) DEF IsList
    <3> QED
      BY <2>2, <3>5, <3>13, SMTT(60)
  <2> QED
    BY <2>1, <2>2
<1> QED
    BY <1>1, <1>3, <1>4, <1>5 DEF TInv

----------------------------------------------------------------------------
(* The tree.                                                               *)

LEMMA InitTInv == Init => TInv
<1>0. 0 \in Nodes /\ 1 \in Nodes /\ 2 \in Nodes
    BY NodeFacts DEF Nodes
<1>1. /\ 0 \in Nodes /\ 1 \in Nodes /\ 2 \in Nodes /\ -1 \in NodeOrNone
      /\ \A n \in Nodes : n \in Nat /\ n \in NodeOrNone
    BY <1>0, NodeFacts
<1> SUFFICES ASSUME Init PROVE TInv
    OBVIOUS
<1>2. Live = {0, 1, 2}
    BY <1>1 DEF Init, Live
<1>3. /\ type[0] = "DIR" /\ type[1] = "DIR" /\ type[2] = "CHARDEV"
      /\ parent[0] = -1 /\ parent[1] = 0 /\ parent[2] = 1
      /\ first_child[0] = 1 /\ first_child[1] = 2 /\ first_child[2] = -1
      /\ next_sibling[1] = -1 /\ next_sibling[2] = -1
    BY <1>1 DEF Init
<1>4. name[1] = Plain("dev") /\ name[2] = Plain("null")
    BY <1>1 DEF Init, Plain
<1>5. TypeOK
  <2>1. type \in [Nodes -> {"NONE", "FILE", "DIR", "CHARDEV"}]
    BY DEF Init
  <2>2. Plain("dev") \in Name /\ Plain("null") \in Name
    BY TmpFsAssumption, Zenon DEF Name, Plain
  <2>3. name \in [Nodes -> Name \cup {NoName, RootName}]
    BY <2>2 DEF Init, Plain
  <2>4. parent \in [Nodes -> NodeOrNone] /\ first_child \in [Nodes -> NodeOrNone]
    BY <1>1 DEF Init
  <2>5. next_sibling \in [Nodes -> NodeOrNone]
    BY <1>1 DEF Init
  <2> QED
    BY <2>1, <2>3, <2>4, <2>5 DEF TypeOK
<1>6. Entered
  <2>1. Plain("dev") \in Name /\ Plain("null") \in Name
    BY TmpFsAssumption, Zenon DEF Name, Plain
  <2> QED
    BY <1>2, <1>3, <1>4, <2>1, SMTT(60) DEF Entered
<1>7. Rooted
    BY <1>2, <1>3, Zenon DEF Rooted
<1>8. Kids(0) = {1} /\ Kids(1) = {2} /\ Kids(2) = {}
    BY <1>2, <1>3 DEF Kids
<1>9. Listing
  <2>1. ASSUME NEW d, NEW m \in Nodes, Kids(d) = {m}, first_child[d] = m, next_sibling[m] = -1
        PROVE  \E n \in Nat : \E l \in [0..n -> NodeOrNone] : IsList(d, n, l)
    <3> DEFINE l == [i \in 0..1 |-> IF i = 0 THEN m ELSE -1]
    <3>1. l \in [0..1 -> NodeOrNone] /\ l[0] = m /\ l[1] = -1 /\ 0..(1 - 1) = {0} /\ 0 + 1 = 1
      BY <1>1
    <3> HIDE DEF l
    <3>2. IsList(d, 1, l)
      BY <2>1, <3>1 DEF IsList
    <3> QED
      BY <3>1, <3>2, Zenon
  <2>2. ASSUME NEW d, Kids(d) = {}, first_child[d] = -1
        PROVE  \E n \in Nat : \E l \in [0..n -> NodeOrNone] : IsList(d, n, l)
    <3> DEFINE l == [i \in 0..0 |-> -1]
    <3>1. l \in [0..0 -> NodeOrNone] /\ l[0] = -1 /\ \A i : i \notin 0..(0 - 1)
      BY <1>1
    <3> HIDE DEF l
    <3>2. IsList(d, 0, l)
      BY <2>2, <3>1 DEF IsList
    <3> QED
      BY <3>1, <3>2, Zenon
  <2> QED
    BY <1>1, <1>2, <1>3, <1>8, <2>1, <2>2, SMTT(60) DEF Listing
<1> QED
    BY <1>5, <1>6, <1>7, <1>9 DEF TInv

\* A step is a creation or a removal.
LEMMA NextIs ==
    ASSUME TInv, Next
    PROVE  \/ \E d, n, nm : \E t \in {"FILE", "DIR"} : Created(d, n, nm, t)
           \/ \E id : Removed(id)
<1>1. PICK path \in Paths :
        \/ tmpfs_create_path(path, "FILE") \/ tmpfs_create_path(path, "DIR")
        \/ tmpfs_remove_path(path, TRUE) \/ tmpfs_remove_path(path, FALSE)
    BY Zenon DEF Next
<1>2. CASE tmpfs_create_path(path, "FILE") \/ tmpfs_create_path(path, "DIR")
    BY <1>2, CreateIs
<1>3. CASE tmpfs_remove_path(path, TRUE) \/ tmpfs_remove_path(path, FALSE)
    BY <1>3, RemoveIs, ZenonT(60)
<1> QED
    BY <1>1, <1>2, <1>3, Zenon

\* It leaves every other node where it was.
LEMMA NextTInv ==
    ASSUME TInv, Next
    PROVE  /\ TInv' /\ 0 \in Live'
           /\ \A m \in Live \cap Live' :
                 type'[m] = type[m] /\ name'[m] = name[m] /\ parent'[m] = parent[m]
<1>1. CASE \E d, n, nm : \E t \in {"FILE", "DIR"} : Created(d, n, nm, t)
  <2>1. PICK t \in {"FILE", "DIR"} : \E d, n, nm : Created(d, n, nm, t)
    BY <1>1
  <2>2. ASSUME NEW d, NEW n, NEW nm, Created(d, n, nm, t)
        PROVE  /\ TInv' /\ 0 \in Live'
               /\ \A m \in Live :
                     type'[m] = type[m] /\ name'[m] = name[m] /\ parent'[m] = parent[m]
    <3>1. TInv'
      BY <2>2, CreatedTInv, SMTT(60)
    <3>2. /\ 0 \in Live'
          /\ \A m \in Live :
                type'[m] = type[m] /\ name'[m] = name[m] /\ parent'[m] = parent[m]
      BY <2>2, CreatedTables, SMTT(60)
    <3> QED
      BY <3>1, <3>2
  <2> QED
    BY <2>1, <2>2
<1>2. CASE \E id : Removed(id)
  <2>1. PICK id, d : Removed(id) /\ d = parent[id]
    BY <1>2
  <2> QED
    BY <2>1, RemovedTInv, RemovedTables
<1> QED
    BY <1>1, <1>2, NextIs, SMTT(60)

LEMMA Unchanged == TInv /\ UNCHANGED vars => TInv'
<1> SUFFICES ASSUME TInv, UNCHANGED vars PROVE TInv'
    OBVIOUS
<1>1. /\ type' = type /\ name' = name /\ parent' = parent
      /\ first_child' = first_child /\ next_sibling' = next_sibling
    BY SMTT(60) DEF vars
<1>2. TypeOK' /\ Entered' /\ Rooted'
    BY <1>1 DEF TInv, TypeOK, Entered, Rooted, Live
<1>3. Live' = Live /\ \A d : Kids(d)' = Kids(d)
    BY <1>1, SMTT(60) DEF Kids, Live
<1>4. ASSUME NEW d, NEW n \in Nat, NEW l, IsList(d, n, l) PROVE IsList(d, n, l)'
    BY <1>1, <1>3, <1>4 DEF IsList
<1>5. Listing'
    BY <1>3, <1>4, SMTT(60) DEF TInv, Listing
<1> QED
    BY <1>2, <1>5 DEF TInv

----------------------------------------------------------------------------
(* Paths across a step.                                                    *)

\* The nodes that are in the tree before and after a step stay where they were.
Kept ==
    /\ 0 \in Live'
    /\ \A m \in Live \cap Live' :
          type'[m] = type[m] /\ name'[m] = name[m] /\ parent'[m] = parent[m]

LEMMA FollowKept ==
    ASSUME TInv, TInv', Kept, NEW comp, NEW m \in Live \cap Live',
           NEW x \in Live \cap Live', Follow(comp)[m] = x
    PROVE  Follow(comp)'[m] = x
<1>1. (TInv => Follows)'
    BY FollowIs, PTL
<1>2. Follows /\ Follows'
    BY <1>1, FollowIs, SMTT(60)
<1>3. CASE comp = "."
    BY <1>2, <1>3, SMTT(60) DEF Follows
<1>4. CASE comp = ".."
  <2>1. Follow(comp)[m] = IF m = 0 THEN 0 ELSE parent[m]
    BY <1>2, <1>4, SMTT(60) DEF Follows
  <2>2. Follow(comp)'[m] = IF m = 0 THEN 0 ELSE parent'[m]
    BY <1>2, <1>4, SMTT(60) DEF Follows
  <2> QED
    BY <2>1, <2>2, SMTT(60) DEF Kept
<1>5. CASE comp \notin {".", ".."}
  <2>1. x \in Kids(m) /\ name[x] = Plain(comp)
    BY <1>2, <1>5, NodeFacts, SMTT(60) DEF Follows
  <2>2. x \in Kids(m)' /\ name'[x] = Plain(comp)
    BY <2>1, SMTT(60) DEF Kept, Kids
  <2>3. PICK y : y = Follow(comp)'[m]
    BY SMTT(60)
  <2>4. y \in Kids(m)' /\ name'[y] = Plain(comp)
    BY <1>2, <1>5, <2>2, <2>3, SMTT(60) DEF Follows
  <2>5. x \in Live' \ {0} /\ y \in Live' \ {0} /\ parent'[x] = parent'[y]
    BY <2>2, <2>4, SMTT(60) DEF Kids
  <2>6. ~(name'[x]).slash
    BY <2>2, SMTT(60) DEF Plain
  <2> QED
    BY <2>2, <2>3, <2>4, <2>5, <2>6, SMTT(60) DEF TInv, Entered
<1> QED
    BY <1>3, <1>4, <1>5

\* A path leads to the same node while the nodes it leads through stay.
LEMMA WalkKept ==
    ASSUME TInv, TInv', Kept, NEW comps \in Seq(Comps), NEW at, WalkOf(comps, at),
           \A k \in 0..Len(comps) : at[k] \in Live \cap Live'
    PROVE  resolve_path(comps)' = at[Len(comps)]
<1> DEFINE n == Len(comps)
<1>1. n \in Nat
    OBVIOUS
<1>2. (TypeOK => Resolves)'
    BY ResolveIs, PTL
<1>3. PICK bt : WalkOf(comps, bt)' /\ resolve_path(comps)' = bt[n]
    BY <1>2 DEF TInv, Resolves
<1>4. /\ at[0] = 0 /\ \A k \in 1..n : at[k] = Follow(comps[k])[at[k - 1]]
    BY DEF WalkOf
<1>5. /\ bt[0] = 0 /\ \A k \in 1..n : bt[k] = Follow(comps[k])'[bt[k - 1]]
    BY <1>3 DEF WalkOf
<1>6. \A k \in 0..n : at[k] \in Live \cap Live'
    OBVIOUS
<1> HIDE DEF n
<1> DEFINE T == {k \in Nat : k <= n /\ bt[k] # at[k]}
<1>7. ASSUME T # {} PROVE FALSE
  <2>1. PICK k \in T : \A t \in T : k <= t
    BY <1>7, Least, ZenonT(60)
  <2>2. k # 0
    BY <1>4, <1>5, SMTT(60)
  <2>3. k - 1 \in Nat /\ k - 1 <= n /\ ~(k <= k - 1) /\ k \in 1..n /\ k \in 0..n /\ k - 1 \in 0..n
    BY <1>1, <2>2, SMTT(60)
  <2>4. bt[k - 1] = at[k - 1]
    BY <2>1, <2>3, SMTT(60)
  <2>5. at[k - 1] \in Live \cap Live' /\ at[k] \in Live \cap Live' /\ at[k] = Follow(comps[k])[at[k - 1]]
    BY <1>4, <1>6, <2>3, SMTT(60)
  <2>6. Follow(comps[k])'[at[k - 1]] = at[k]
    BY <2>5, FollowKept
  <2> QED
    BY <1>5, <2>1, <2>3, <2>4, <2>6, SMTT(60)
<1> QED
    BY <1>1, <1>3, <1>7 DEF n

LEMMA Prefix ==
    ASSUME NEW A, NEW s \in Seq(A), NEW k \in 0..Len(s)
    PROVE  SubSeq(s, 1, k) \in Seq(A) /\ Len(SubSeq(s, 1, k)) = k
    BY SMTT(60)

\* A path that was created leads to the new node.
LEMMA CreatedFound ==
    ASSUME TInv, NEW path \in Paths, NEW t \in {"FILE", "DIR"}, tmpfs_create_path(path, t)
    PROVE  \E n : /\ Live' = Live \cup {n}
                  /\ resolve_path(path.comps)' = IF path.slash THEN -1 ELSE n
<1> DEFINE c == path.comps
           len == Len(c)
           up == SubSeq(c, 1, len - 1)
           leaf == c[len]
<1>1. c \in Seq(Comps) /\ len \in Nat /\ len >= 1 /\ path.slash \in BOOLEAN
    BY PathTyped
<1>2. SplitParent(path) = up /\ SplitLeaf(path) = [base |-> leaf, slash |-> path.slash]
    BY DEF SplitParent, SplitLeaf
<1>3. PICK d : d = resolve_path(up)
    OBVIOUS
<1>4. PICK n, nm : Created(d, n, nm, t) /\ nm = [base |-> leaf, slash |-> path.slash]
    BY <1>2, <1>3, CreateIs, ZenonT(60)
<1>5. /\ Live' = Live \cup {n} /\ n \notin Live /\ 0 \in Live
      /\ \A m \in Live : type'[m] = type[m] /\ name'[m] = name[m] /\ parent'[m] = parent[m]
      /\ name'[n] = nm /\ Kids(d)' = Kids(d) \cup {n}
    BY <1>4, CreatedTables, SMTT(60)
<1>6. Kept /\ TInv'
    BY <1>4, <1>5, CreatedTInv, SMTT(60) DEF Kept
<1>7. d \in Live /\ d # -1 /\ nm \in Name /\ \A m \in Kids(d) : name[m] # Plain(nm.base)
    BY <1>4, NodeFacts DEF Created
<1> HIDE DEF c
<1>8. up \in Seq(Comps) /\ Len(up) = len - 1 /\ len - 1 \in Nat /\ len \in 1..len /\ len - 1 \in 0..len
  <2>1. len - 1 \in Nat /\ len \in 1..len /\ len - 1 \in 0..len
    <3> HIDE DEF len
    <3> QED
      BY <1>1
  <2>2. up \in Seq(Comps) /\ Len(up) = len - 1
    BY <1>1, <2>1, Prefix, ZenonT(60)
  <2> QED
    BY <2>1, <2>2
<1> HIDE DEF up, len
<1>9. resolve_path(up)' = d
  <2>1. PICK at : WalkOf(up, at) /\ resolve_path(up) = at[Len(up)]
    BY <1>8, ResolveIs, SMTT(60) DEF TInv, Resolves
  <2>2. \A k \in 0..Len(up) : at[k] \in Live
    BY <1>3, <1>7, <1>8, <2>1, WalkInTree, SMTT(60)
  <2>3. \A k \in 0..Len(up) : at[k] \in Live \cap Live'
    BY <1>5, <2>2
  <2> QED
    BY <1>3, <1>6, <1>8, <2>1, <2>3, WalkKept, SMTT(60)
<1>10. (TypeOK => Resolves)'
    BY ResolveIs, PTL
<1>11. PICK bt : /\ WalkOf(c, bt)'
                 /\ \A k \in 0..len : resolve_path(SubSeq(c, 1, k))' = bt[k]
                 /\ resolve_path(c)' = bt[len]
    BY <1>1, <1>6, <1>10 DEF TInv, Resolves, len
<1>12. bt[len - 1] = d /\ bt[len] = Follow(leaf)'[bt[len - 1]]
    BY <1>8, <1>9, <1>11 DEF WalkOf, up, len
<1>13. PICK y : y = resolve_path(c)'
    OBVIOUS
<1>14. y = Follow(leaf)'[d]
    BY <1>11, <1>12, <1>13, SMTT(60)
<1>15. leaf \notin {".", ".."} /\ nm.base = leaf /\ nm.slash = path.slash
    BY <1>4, <1>7, TmpFsAssumption, Zenon DEF Name
<1>16. (TInv => Follows)'
    BY FollowIs, PTL
<1> HIDE DEF leaf
<1>17. \/ y = -1 /\ \A m \in Kids(d)' : name'[m] # Plain(leaf)
       \/ y \in Kids(d)' /\ name'[y] = Plain(leaf)
    BY <1>5, <1>6, <1>7, <1>14, <1>15, <1>16, SMTT(60) DEF Follows
<1>18. \A m \in Kids(d) : name'[m] # Plain(leaf)
    BY <1>5, <1>7, <1>15, SMTT(60) DEF Kids
<1>19. CASE path.slash
  <2>0. nm.slash = TRUE /\ Plain(leaf).slash = FALSE
    BY <1>1, <1>15, <1>19 DEF Plain
  <2>1. nm # Plain(leaf)
    BY <2>0, SMTT(60)
  <2>2. y = -1
    BY <1>5, <1>17, <1>18, <2>1, SMTT(60)
  <2> QED
    BY <1>5, <1>13, <1>19, <2>2, SMTT(60) DEF c
<1>20. CASE ~path.slash
  <2>1. nm = Plain(leaf)
    BY <1>1, <1>4, <1>20, Zenon DEF Plain
  <2>2. y = n
    BY <1>5, <1>17, <1>18, <2>1, SMTT(60)
  <2> QED
    BY <1>5, <1>13, <1>20, <2>2, SMTT(60) DEF c
<1> QED
    BY <1>19, <1>20, SMTT(60)

----------------------------------------------------------------------------
(* The tree of module DirTree.                                             *)

LEMMA TreeStep == TInv /\ [Next]_vars => [Tree!Next]_(Tree!vars)
<1>1. ASSUME TInv, UNCHANGED vars PROVE UNCHANGED Tree!vars
    BY <1>1 DEF vars, Tree!vars
<1>2. Tree!Nodes = Nodes /\ Tree!Live = Live /\ \A d : Tree!Entries(d) = Kids(d)
    BY DEF Tree!Nodes, Nodes, Tree!Live, Live, Tree!Entries, Kids
<1>3. ASSUME TInv, NEW d, NEW n, NEW nm, NEW t \in {"FILE", "DIR"}, Created(d, n, nm, t)
      PROVE  Tree!Next
  <2>1. d \in Nodes /\ n \in Nodes /\ nm \in Name
    BY <1>3, NodeFacts, SMTT(60) DEF Created
  <2>2. nm.slash \/ \A m \in Kids(d) : name[m] # nm
    <3> SUFFICES ASSUME ~nm.slash PROVE \A m \in Kids(d) : name[m] # nm
      OBVIOUS
    <3>1. nm = Plain(nm.base)
      BY <2>1 DEF Name, Plain
    <3> QED
      BY <1>3, <3>1 DEF Created
  <2>3. Tree!Add(n, d, nm, t)
    BY <1>2, <1>3, <2>2 DEF Created, Tree!Add
  <2> QED
    BY <1>2, <2>1, <2>3 DEF Tree!Next
<1>4. ASSUME TInv, NEW id, Removed(id) PROVE Tree!Next
  <2>1. Tree!Remove(id) /\ id \in Nodes
    BY <1>2, <1>4, NodeFacts, Zenon DEF Removed, Tree!Remove, Tree!NoName, NoName
  <2> QED
    BY <1>2, <2>1 DEF Tree!Next
<1>5. ASSUME TInv, Next PROVE Tree!Next
    BY <1>3, <1>4, <1>5, NextIs, SMTT(60)
<1> QED
    BY <1>1, <1>5

LEMMA TreeInit == TInv => Tree!Init
<1>1. Tree!Nodes = Nodes /\ Tree!Live = Live
    BY DEF Tree!Nodes, Nodes, Tree!Live, Live
<1> QED
    BY <1>1 DEF TInv, Entered, Rooted, Tree!Init, Tree!IsTree

----------------------------------------------------------------------------
(* The texts of working directories.                                       *)

LEMMA Widths ==
    ASSUME NEW comps, Len(comps) \in Nat
    PROVE  WidthOf(comps) \in [0..Len(comps) -> Nat] /\ WidthOf(comps)[0] = 0
<1> DEFINE n == Len(comps)
           add == [k \in 1..n |-> [x \in Nat |-> x + 1 + Width(comps[k])]]
           w[k \in 0..n] == IF k = 0 THEN 0 ELSE w[k - 1] + 1 + Width(comps[k])
<1>1. \A c : Width(c) \in Nat
    BY DEF Width
<1>2. n \in Nat /\ 0 \in Nat
    OBVIOUS
<1>3. WidthOf(comps) = w
    BY DEF WidthOf
<1> HIDE DEF n
<1>4. add \in [1..n -> [Nat -> Nat]]
  <2> SUFFICES ASSUME NEW k \in 1..n, NEW x \in Nat PROVE x + 1 + Width(comps[k]) \in Nat
    OBVIOUS
  <2> QED
    BY <1>1
<1> HIDE DEF add
<1>5. PICK e : Steps(Nat, 0, add, n, e)
    BY <1>2, <1>4, StepsExist, Zenon
<1>6. e = [k \in 0..n |-> IF k = 0 THEN 0 ELSE e[k - 1] + 1 + Width(comps[k])]
  <2>1. \A k \in 0..n : k # 0 => k \in 1..n /\ k - 1 \in 0..n
    BY <1>2
  <2>2. ASSUME NEW k \in 1..n PROVE e[k] = e[k - 1] + 1 + Width(comps[k])
    <3>1. e[k - 1] \in Nat /\ e[k] = add[k][e[k - 1]]
      BY <1>2, <1>5, <2>1 DEF Steps, Recurs
    <3> QED
      BY <3>1 DEF add
  <2> QED
    BY <1>5, <2>1, <2>2 DEF Steps, Recurs
<1>7. w = [k \in 0..n |-> IF k = 0 THEN 0 ELSE w[k - 1] + 1 + Width(comps[k])]
    BY <1>6, Zenon
<1> HIDE DEF w
<1>8. ASSUME NEW k \in Nat, k <= n PROVE w[k] = e[k]
  <2> DEFINE T == {i \in Nat : i <= n /\ w[i] # e[i]}
  <2> SUFFICES ASSUME T # {} PROVE FALSE
    BY <1>8
  <2>1. PICK i \in T : \A t \in T : i <= t
    BY Least, Zenon
  <2>2. w[0] = 0 /\ e[0] = 0
    BY <1>2, <1>5, <1>7, SMTT(60) DEF Steps, Recurs
  <2>3. i # 0
    BY <2>1, <2>2
  <2>4. i - 1 \in Nat /\ i - 1 <= n /\ ~(i <= i - 1) /\ i \in 0..n
    BY <1>2, <2>3, SMTT(60)
  <2>5. w[i - 1] = e[i - 1]
    BY <2>1, <2>4, SMTT(60)
  <2>6. w[i] = w[i - 1] + 1 + Width(comps[i])
    BY <1>7, <2>3, <2>4, SMTT(60)
  <2>7. e[i] = e[i - 1] + 1 + Width(comps[i])
    BY <1>6, <2>3, <2>4, SMTT(60)
  <2> QED
    BY <2>1, <2>5, <2>6, <2>7, SMTT(60)
<1>9. DOMAIN w = 0..n /\ \A k \in 0..n : w[k] \in Nat
    BY <1>2, <1>5, <1>7, <1>8, SMTT(60) DEF Steps
<1>10. w = [k \in 0..n |-> w[k]]
    BY <1>7, <1>9
<1>11. w[0] = 0
    BY <1>2, <1>7
<1> QED
    BY <1>3, <1>9, <1>10, <1>11 DEF n

LEMMA CutTyped ==
    ASSUME NEW text \in Text, NEW max \in Nat
    PROVE  Cut(text, max) \in Text
<1> DEFINE n == Len(text.comps)
           w == WidthOf(text.comps)
           Fits(k) == w[k] <= max /\ \A j \in DOMAIN w : w[j] <= max => j <= k
           whole == CHOOSE k \in DOMAIN w : Fits(k)
           left == max - w[whole] - 1
           kept == SubSeq(text.comps, 1, whole)
<1>1. text.comps \in Seq(Comps) /\ text.slash \in BOOLEAN /\ n \in Nat
    BY DEF Text, Comps
<1>2. DOMAIN w = 0..n /\ (\A k \in 0..n : w[k] \in Nat) /\ w[0] = 0
    BY <1>1, Widths, SMTT(60)
<1>3. \E k \in DOMAIN w : Fits(k)
  <2> HIDE DEF w, n
  <2> DEFINE T == {i \in Nat : i <= n /\ w[n - i] <= max}
  <2>1. n - n = 0 /\ n \in T
    BY <1>1, <1>2
  <2>2. PICK i \in T : \A t \in T : i <= t
    BY <2>1, Least, Zenon
  <2>3. n - i \in 0..n /\ w[n - i] <= max
    BY <1>1, <2>2
  <2>4. ASSUME NEW j \in 0..n, w[j] <= max PROVE j <= n - i
    <3>1. n - j \in Nat /\ n - j <= n /\ n - (n - j) = j
      BY <1>1
    <3>2. i <= n - j
      BY <2>2, <2>4, <3>1, SMTT(60)
    <3> QED
      BY <1>1, <3>1, <3>2, SMTT(60)
  <2> QED
    BY <1>2, <2>3, <2>4, SMTT(60)
<1>4. whole \in 0..n
    BY <1>2, <1>3
<1>5. Cut(text, max) =
        IF whole = n THEN [text EXCEPT !.slash = text.slash /\ left >= 0]
        ELSE IF left <= 0 THEN [comps |-> kept, slash |-> left = 0 /\ kept # <<>>]
        ELSE [comps |-> Append(kept, IF text.comps[whole + 1] = ".." THEN "." ELSE "cut"),
              slash |-> FALSE]
    BY DEF Cut
<1>6. kept \in Seq(Comps)
    BY <1>1, <1>4, Prefix, Zenon
<1>7. \A c \in Comps : Append(kept, c) \in Seq(Comps)
  <2> HIDE DEF kept
  <2> QED
    BY <1>6
<1>8. "." \in Comps /\ "cut" \in Comps
    BY DEF Comps
<1>9. (text.slash /\ left >= 0) \in BOOLEAN /\ (left = 0 /\ kept # <<>>) \in BOOLEAN
    BY <1>1
<1>10. Text = [comps : Seq(Comps), slash : BOOLEAN]
    BY DEF Text, Comps
<1> HIDE DEF left, kept, whole, w, n
<1>11. [text EXCEPT !.slash = text.slash /\ left >= 0] \in Text
    BY <1>9, Zenon DEF Text
<1>12. [comps |-> kept, slash |-> left = 0 /\ kept # <<>>] \in Text
    BY <1>6, <1>9, <1>10
<1>13. [comps |-> Append(kept, IF text.comps[whole + 1] = ".." THEN "." ELSE "cut"),
        slash |-> FALSE] \in Text
  <2>1. Append(kept, IF text.comps[whole + 1] = ".." THEN "." ELSE "cut") \in Seq(Comps)
    BY <1>7, <1>8
  <2> QED
    BY <1>10, <2>1
<1> QED
    BY <1>5, <1>11, <1>12, <1>13

----------------------------------------------------------------------------
(* The working directory.                                                  *)

\* What CwdHolds needs of the next state.
LEMMA HoldsNext ==
    ASSUME cwd' \in Text, NEW cs, cs = (cwd').comps, NEW h, h = here', h \in NodeOrNone,
           h # -1 => resolve_path(cs)' = h /\ type'[h] = "DIR"
    PROVE  CwdInv'
<1>1. CwdTypeOK'
    BY DEF CwdTypeOK
<1>2. CwdHolds'
    BY DEF CwdHolds
<1> QED
    BY <1>1, <1>2 DEF CwdInv

LEMMA ChangeCwd == ASSUME IInv, Change PROVE IInv'
<1>1. TInv /\ cwd \in Text /\ here \in NodeOrNone
    BY DEF IInv, CwdInv, CwdTypeOK
<1>2. /\ Next /\ cwd' = cwd
      /\ here' = IF \E n \in Passed : n # -1 /\ type'[n] = "NONE" THEN -1 ELSE here
    BY DEF Change
<1>3. TInv' /\ Kept
    BY <1>1, <1>2, NextTInv DEF Kept
<1>4. PICK cs, h : cs = cwd.comps /\ h = here'
    OBVIOUS
<1>5. cs \in Seq(Comps) /\ h \in NodeOrNone
    BY <1>1, <1>2, <1>4, NodeFacts, SMTT(60) DEF Text, Comps
<1>6. ASSUME h # -1 PROVE resolve_path(cs)' = h /\ type'[h] = "DIR"
  <2>1. h = here /\ \A n \in Passed : n # -1 => type'[n] # "NONE"
    BY <1>2, <1>4, <1>6
  <2>2. resolve_path(cs) = h /\ type[h] = "DIR"
    BY <1>4, <1>6, <2>1 DEF IInv, CwdInv, CwdHolds
  <2>3. PICK at : /\ WalkOf(cs, at) /\ resolve_path(cs) = at[Len(cs)]
                  /\ \A k \in 0..Len(cs) : resolve_path(SubSeq(cs, 1, k)) = at[k]
    BY <1>1, <1>5, ResolveIs, SMTT(60) DEF TInv, Resolves
  <2>4. \A k \in 0..Len(cs) : at[k] \in Live
    BY <1>1, <1>5, <1>6, <2>2, <2>3, WalkInTree, SMTT(60)
  <2>5. at[0] = 0 /\ Len(cs) \in Nat
    BY <1>5, <2>3 DEF WalkOf
  <2>6. ASSUME NEW k \in 0..Len(cs) PROVE at[k] \in Live \cap Live'
    <3>1. CASE k = 0
      BY <1>3, <2>4, <2>5, <3>1, SMTT(60) DEF Kept
    <3>2. CASE k # 0
      <4>1. k \in 1..Len(cs)
        BY <2>5, <3>2, SMTT(60)
      <4>2. at[k] \in Passed
        BY <1>4, <2>3, <4>1, SMTT(60) DEF Passed
      <4>3. at[k] \in Nodes /\ at[k] # -1
        BY <2>4, NodeFacts
      <4>4. type'[at[k]] # "NONE"
        BY <2>1, <4>2, <4>3, SMTT(60)
      <4> QED
        BY <2>4, <4>3, <4>4 DEF Live
    <3> QED
      BY <3>1, <3>2
  <2>7. resolve_path(cs)' = h
    BY <1>1, <1>3, <1>5, <2>2, <2>3, <2>6, WalkKept, SMTT(60)
  <2>8. Len(cs) \in 0..Len(cs)
    BY <2>5, SMTT(60)
  <2>9. h \in Live \cap Live'
    BY <2>2, <2>3, <2>6, <2>8, SMTT(60)
  <2> QED
    BY <1>3, <2>2, <2>7, <2>9 DEF Kept
<1>7. CwdInv'
    BY <1>1, <1>2, <1>4, <1>5, <1>6, HoldsNext, SMTT(60)
<1> QED
    BY <1>3, <1>7 DEF IInv

LEMMA SameKept == ASSUME TInv, UNCHANGED vars PROVE Kept
<1>1. type' = type /\ name' = name /\ parent' = parent
    BY SMTT(60) DEF vars
<1>2. 0 \in Live
    BY NodeFacts DEF TInv, Entered, Live
<1> QED
    BY <1>1, <1>2 DEF Kept, Live

LEMMA Normalized ==
    ASSUME cwd \in Text, NEW path \in Dirs, NEW absolute \in BOOLEAN
    PROVE  normalize_path(path, absolute) \in Text
<1>1. cwd.comps \in Seq(Comps) /\ path.comps \in Seq(Comps) /\ path.slash \in BOOLEAN
  <2>1. path \in [comps : Seq(Names \cup {".", ".."}), slash : BOOLEAN]
    BY CwdAssumption
  <2>2. path.comps \in Seq(Names \cup {".", ".."}) /\ path.slash \in BOOLEAN
    BY <2>1
  <2>3. \A s \in Seq(Names \cup {".", ".."}) : s \in Seq(Comps)
    BY DEF Comps
  <2> QED
    BY <2>2, <2>3 DEF Text, Comps
<1>2. \A s, t \in Seq(Comps) : s \o t \in Seq(Comps)
    OBVIOUS
<1> DEFINE cs == IF absolute \/ path.comps = <<>> THEN path.comps ELSE cwd.comps \o path.comps
           text == [comps |-> cs, slash |-> path.slash]
<1>3. cs \in Seq(Comps)
    BY <1>1, <1>2, SMTT(60)
<1> HIDE DEF cs
<1>4. text \in Text
    BY <1>1, <1>3, SMTT(60) DEF Text, Comps
<1>5. normalize_path(path, absolute) = Cut(text, PathMax)
    BY DEF normalize_path, cs
<1> HIDE DEF text
<1> QED
    BY <1>4, <1>5, CutTyped, CwdAssumption, SMTT(60)

LEMMA ChdirCwd == ASSUME IInv, Chdir PROVE IInv'
<1>1. TInv /\ cwd \in Text /\ here \in NodeOrNone /\ UNCHANGED vars
    BY DEF IInv, CwdInv, CwdTypeOK, Chdir
<1>2. TInv' /\ Live' = Live
    BY <1>1, Unchanged DEF vars, Live
<1>3. Kept
    BY <1>1, SameKept
<1>4. PICK path \in Dirs, absolute \in BOOLEAN : fs_chdir_path(path, absolute)
    BY DEF Chdir
<1>5. PICK resolved, id : /\ resolved = normalize_path(path, absolute)
                          /\ id = resolve_path(resolved.comps)
    OBVIOUS
<1>6. /\ id # -1 /\ type[id] = "DIR" /\ cwd' = Cut(resolved, CwdMax)
      /\ here' = IF cwd' = resolved THEN id ELSE -1
    BY <1>4, <1>5 DEF fs_chdir_path
<1>7. resolved \in Text
    BY <1>1, <1>5, Normalized
<1>8. CwdMax \in Nat
    BY CwdAssumption
<1>9. cwd' \in Text
    BY <1>6, <1>7, <1>8, CutTyped
<1>10. PICK rs : rs = resolved.comps /\ rs \in Seq(Comps)
    BY <1>7 DEF Text, Comps
<1>11. PICK at : WalkOf(rs, at) /\ resolve_path(rs) = at[Len(rs)]
    BY <1>1, <1>10, ResolveIs, SMTT(60) DEF TInv, Resolves
<1>12. \A k \in 0..Len(rs) : at[k] \in Live
    BY <1>1, <1>5, <1>6, <1>10, <1>11, WalkInTree, SMTT(60)
<1>13. Len(rs) \in 0..Len(rs)
    BY <1>10
<1>14. id \in Live
    BY <1>5, <1>10, <1>11, <1>12, <1>13, SMTT(60)
<1>15. resolve_path(rs)' = id
    BY <1>1, <1>2, <1>3, <1>5, <1>10, <1>11, <1>12, WalkKept, SMTT(60)
<1>16. type'[id] = "DIR"
    BY <1>1, <1>6 DEF vars
<1>17. PICK cs, h : cs = (cwd').comps /\ h = here'
    OBVIOUS
<1>18. h \in NodeOrNone /\ (h # -1 => h = id /\ cs = rs)
    BY <1>6, <1>10, <1>14, <1>17, NodeFacts, SMTT(60)
<1>19. CwdInv'
    BY <1>9, <1>15, <1>16, <1>17, <1>18, HoldsNext, SMTT(60)
<1> QED
    BY <1>2, <1>19 DEF IInv

LEMMA CwdStays == ASSUME IInv, UNCHANGED <<vars, cwdVars>> PROVE IInv'
<1>1. TInv /\ cwd \in Text /\ here \in NodeOrNone
      /\ UNCHANGED vars /\ cwd' = cwd /\ here' = here
    BY DEF IInv, CwdInv, CwdTypeOK, cwdVars
<1>2. TInv' /\ Live' = Live
    BY <1>1, Unchanged DEF vars, Live
<1>3. Kept
    BY <1>1, SameKept
<1>4. PICK cs, h : cs = cwd.comps /\ h = here
    OBVIOUS
<1>5. cs \in Seq(Comps)
    BY <1>1, <1>4, SMTT(60) DEF Text, Comps
<1>6. ASSUME h # -1 PROVE resolve_path(cs)' = h /\ type'[h] = "DIR"
  <2>1. resolve_path(cs) = h /\ type[h] = "DIR"
    BY <1>4, <1>6 DEF IInv, CwdInv, CwdHolds
  <2>2. PICK at : WalkOf(cs, at) /\ resolve_path(cs) = at[Len(cs)]
    BY <1>1, <1>5, ResolveIs, SMTT(60) DEF TInv, Resolves
  <2>3. \A k \in 0..Len(cs) : at[k] \in Live
    BY <1>1, <1>5, <1>6, <2>1, <2>2, WalkInTree, SMTT(60)
  <2>4. resolve_path(cs)' = h
    BY <1>1, <1>2, <1>3, <1>5, <2>1, <2>2, <2>3, WalkKept, SMTT(60)
  <2> QED
    BY <1>1, <2>1, <2>4, SMTT(60) DEF vars
<1>7. CwdInv'
    BY <1>1, <1>4, <1>6, HoldsNext, SMTT(60)
<1> QED
    BY <1>2, <1>7 DEF IInv

LEMMA InitCwd == CwdInit => IInv
<1> SUFFICES ASSUME CwdInit PROVE IInv
    OBVIOUS
<1>1. TInv /\ cwd = Root /\ here = 0
    BY InitTInv DEF CwdInit
<1>2. <<>> \in Seq(Comps) /\ Len(<<>>) = 0
    BY SMTT(60)
<1>3. CwdTypeOK
    BY <1>1, <1>2, NodeFacts, SMTT(60) DEF CwdTypeOK, Text, Root, Comps
<1>4. PICK at : WalkOf(<<>>, at) /\ resolve_path(<<>>) = at[Len(<<>>)]
    BY <1>1, <1>2, ResolveIs, Zenon DEF TInv, Resolves
<1>5. resolve_path(cwd.comps) = 0
    BY <1>1, <1>2, <1>4 DEF WalkOf, Root
<1> QED
    BY <1>1, <1>3, <1>5 DEF IInv, CwdInv, CwdHolds, TInv, Entered

----------------------------------------------------------------------------
(* The theorems.                                                           *)

\* The inductive invariant holds in every state: every directory's list is
\* laid out in the table as IsList says, the entries form a tree, and the text
\* of the working directory leads to where chdir found it.
THEOREM Invariance == CwdSpec => []IInv
<1>1. IInv /\ [CwdNext]_<<vars, cwdVars>> => IInv'
    BY ChangeCwd, ChdirCwd, CwdStays DEF CwdNext
<1> QED
    BY InitCwd, <1>1, PTL DEF CwdSpec

\* Whatever was created and removed by create_child and tmpfs_remove_path, the
\* list of every directory ends and holds exactly its entries.
THEOREM ListsKept == CwdSpec => []ListsExact
<1>1. IInv => ListsExact
    BY ListsAre DEF IInv
<1> QED
    BY Invariance, <1>1, PTL

\* The text of a working directory leads to the directory that fs_chdir_path
\* found, unless it was cut or a directory that it leads through is removed.
THEOREM WorkingDirectoryHolds == CwdSpec => []CwdHolds
<1>1. IInv => CwdHolds
    BY SMTT(60) DEF IInv, CwdInv
<1> QED
    BY Invariance, <1>1, PTL

LEMMA CreatedLive ==
    ASSUME TInv, NEW d, NEW n, NEW nm, NEW t \in {"FILE", "DIR"}, Created(d, n, nm, t)
    PROVE  Live' = Live \cup {n} /\ type'[n] = t
    BY CreatedTables

\* A path that tmpfs_create_path created resolves to the new node in the very
\* next state, or to nothing if it was written with a trailing slash.
THEOREM CreatedPathsAreFound == CwdSpec => CreatedIsFound
<1> DEFINE Found ==
        \A n \in Live' \ Live : \A path \in Paths :
            tmpfs_create_path(path, type'[n]) =>
                resolve_path(path.comps)' = IF path.slash THEN -1 ELSE n
<1>1. ASSUME TInv, Next PROVE Found
  <2> SUFFICES ASSUME NEW n \in Live' \ Live, NEW path \in Paths,
                      tmpfs_create_path(path, type'[n])
               PROVE  resolve_path(path.comps)' = IF path.slash THEN -1 ELSE n
    OBVIOUS
  <2>1. PICK t : t = type'[n]
    OBVIOUS
  <2>2. t \in {"FILE", "DIR"}
    <3>1. ASSUME NEW id, Removed(id) PROVE FALSE
      <4>1. PICK d : d = parent[id]
        BY SMTT(60)
      <4>2. Live' = Live \ {id}
        BY <1>1, <3>1, <4>1, RemovedTables
      <4> QED
        BY <4>2
    <3>2. PICK u \in {"FILE", "DIR"} : \E d, m, nm : Created(d, m, nm, u)
      BY <1>1, <3>1, NextIs, SMTT(60)
    <3>3. ASSUME NEW d, NEW m, NEW nm, Created(d, m, nm, u)
          PROVE  Live' = Live \cup {m} /\ type'[m] = u
      BY <1>1, <3>3, CreatedLive, SMTT(60)
    <3> QED
      BY <2>1, <3>2, <3>3
  <2>3. PICK m : /\ Live' = Live \cup {m}
                 /\ resolve_path(path.comps)' = IF path.slash THEN -1 ELSE m
    BY <1>1, <2>1, <2>2, CreatedFound, SMTT(60)
  <2> QED
    BY <2>3
<1>2. IInv /\ [CwdNext]_<<vars, cwdVars>> => [Found]_vars
  <2>1. IInv /\ Change => Found
    BY <1>1 DEF Change, IInv
  <2>2. Chdir => UNCHANGED vars
    BY DEF Chdir
  <2> HIDE DEF Found
  <2> QED
    BY <2>1, <2>2, SMTT(60) DEF CwdNext
<1>3. [][Found]_vars => CreatedIsFound
    BY DEF CreatedIsFound
<1> HIDE DEF Found
<1> QED
    BY Invariance, <1>2, <1>3, PTL DEF CwdSpec

\* The table with its lists implements the tree of module DirTree: every
\* creation adds one entry under a name that was free, every removal takes one
\* away that had no entries, and nothing else moves.
THEOREM TreeRefinement == CwdSpec => ImplementsTree
<1>1. CwdInit => Tree!Init
    BY InitCwd, TreeInit DEF IInv
<1>2. IInv /\ [CwdNext]_<<vars, cwdVars>> => [Tree!Next]_(Tree!vars)
  <2>1. IInv /\ [CwdNext]_<<vars, cwdVars>> => TInv /\ [Next]_vars
    BY DEF IInv, CwdNext, Change, Chdir
  <2> QED
    BY <2>1, TreeStep
<1>3. Tree!Init /\ [][Tree!Next]_(Tree!vars) => ImplementsTree
    BY DEF ImplementsTree, Tree!Spec
<1> QED
    BY Invariance, <1>1, <1>2, <1>3, PTL DEF CwdSpec
=============================================================================

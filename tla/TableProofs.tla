---------------------------- MODULE TableProofs -----------------------------
(***************************************************************************)
(* What inserting and marking rows do to an outbox, and sums over rows:    *)
(* for the proofs about both services.                                     *)
(***************************************************************************)
EXTENDS Outbox, Functions, FiniteSetTheorems, WellFoundedInduction, TLAPS

\* Insert adds one unpublished row, and it carries the event.
LEMMA InsertAddsRow ==
    ASSUME NEW o, IsFiniteSet(o), NEW e
    PROVE  /\ IsFiniteSet(Insert(o, e))
           /\ \E n \in Nat :
                Insert(o, e) =
                  o \cup {[event |-> e, copy |-> n, published |-> FALSE]}
<1>1. IsFiniteSet({r \in o : r.event = e})
  BY FS_Subset
<1>2. Cardinality({r \in o : r.event = e}) \in Nat
  BY <1>1, FS_CardinalityType
<1>. QED
  BY <1>2, FS_AddElement DEF Insert

\* The row Insert adds for an event is an outbox row.
LEMMA NewRowType ==
    ASSUME NEW e \in Event, NEW n \in Nat
    PROVE  [event |-> e, copy |-> n, published |-> FALSE] \in OutboxRow
  BY DEF OutboxRow

\* Marking a row published changes nothing else of it.
LEMMA MarkKeepsTypes ==
    ASSUME NEW o, IsFiniteSet(o), \A r \in o : r \in OutboxRow, NEW r \in o
    PROVE  /\ IsFiniteSet(MarkPublished(o, r))
           /\ \A q \in MarkPublished(o, r) : q \in OutboxRow
<1>1. IsFiniteSet(o \ {r})
  BY FS_Subset
<1>2. [r EXCEPT !.published = TRUE] \in OutboxRow
  BY DEF OutboxRow
<1>. QED
  BY <1>1, <1>2, FS_AddElement DEF MarkPublished

-----------------------------------------------------------------------------
(* Sums of the values of a function over a finite set.  SumFunctionOnSet   *)
(* is a recursive function over the subsets; these lemmas show that it is  *)
(* well defined and that the order of the elements does not matter.  The   *)
(* inductions are over sets (least elements of well-founded relations).    *)

\* The element SumFunctionOnSet takes out of a set.
pick(s) == CHOOSE x \in s : TRUE

\* The subsets of S with at most n elements.
Below(S, n) == {s \in SUBSET S : Cardinality(s) <= n}

\* g is the table of the sums of f over the sets of D.
SumTable(f, g, D) ==
    g = [s \in D |-> IF s = {} THEN 0 ELSE f[pick(s)] + g[s \ {pick(s)}]]

\* Induction over the naturals, for a set.
LEMMA NatSetInduction ==
    ASSUME NEW G, 0 \in G, \A n \in Nat : n \in G => n + 1 \in G
    PROVE  \A n \in Nat : n \in G
<1>1. SUFFICES ASSUME Nat \ G # {} PROVE FALSE
  OBVIOUS
<1>2. PICK x \in Nat \ G : \A y \in Nat \ G : ~(<<y, x>> \in OpToRel(<, Nat))
  <2>. DEFINE T == Nat \ G
  <2>1. T \subseteq Nat /\ T # {}
    BY <1>1
  <2>. HIDE DEF T
  <2>2. \E x \in T : \A y \in T : ~(<<y, x>> \in OpToRel(<, Nat))
    BY <2>1, WFMin, NatLessThanWellFounded
  <2>. QED
    BY <2>2 DEF T
<1>3. \A y \in Nat \ G : ~(y < x)
  BY <1>2 DEF OpToRel
<1>4. x # 0 /\ x - 1 \in Nat /\ x - 1 < x /\ (x - 1) + 1 = x
  OBVIOUS
<1>. QED
  BY <1>3, <1>4

\* SumFunctionOnSet is an entry of such a table, if there is one.
LEMMA SumIsTable ==
    ASSUME NEW f, NEW S
    PROVE  SumFunctionOnSet(f, S) = (CHOOSE g : SumTable(f, g, SUBSET S))[S]
  BY DEF SumFunctionOnSet, FoldFunctionOnSet, MapThenFoldSet, SumTable, pick

\* Below(S, n) is built up from the empty set, one element at a time.
LEMMA BelowFacts ==
    ASSUME NEW S, IsFiniteSet(S)
    PROVE  /\ \A n \in Nat : \A s \in Below(S, n) :
                s \in SUBSET S /\ IsFiniteSet(s) /\ Cardinality(s) \in Nat
           /\ \A s \in Below(S, 0) : s = {}
           /\ \A n \in Nat : \A s \in Below(S, n + 1) : \A x \in s :
                s \ {x} \in Below(S, n) /\ s \ {x} \in Below(S, n + 1)
           /\ Cardinality(S) \in Nat
           /\ SUBSET S = Below(S, Cardinality(S))
<1>1. \A s \in SUBSET S : /\ IsFiniteSet(s) /\ Cardinality(s) \in Nat
                          /\ Cardinality(s) <= Cardinality(S)
  BY FS_Subset, FS_CardinalityType
<1>2. \A s \in Below(S, 0) : s = {}
  BY <1>1, FS_EmptySet DEF Below
<1>3. ASSUME NEW n \in Nat, NEW s \in Below(S, n + 1), NEW x \in s
      PROVE  s \ {x} \in Below(S, n) /\ s \ {x} \in Below(S, n + 1)
  <2>1. s \in SUBSET S /\ Cardinality(s) <= n + 1
    BY DEF Below
  <2>2. Cardinality(s \ {x}) = Cardinality(s) - 1
    BY <1>1, <2>1, FS_RemoveElement
  <2>. QED
    BY <1>1, <2>1, <2>2 DEF Below
<1>4. SUBSET S = Below(S, Cardinality(S))
  BY <1>1 DEF Below
<1>. QED
  BY <1>1, <1>2, <1>3, <1>4 DEF Below

\* Induction over the subsets of a finite set: what holds of the empty set, and
\* of every other set if it holds of the set without any one of its elements.
LEMMA SubsetInduction ==
    ASSUME NEW S, IsFiniteSet(S), NEW H, {} \in H,
           \A s \in SUBSET S : s # {} /\ (\A x \in s : s \ {x} \in H) => s \in H
    PROVE  \A s \in SUBSET S : s \in H
<1>. DEFINE G == {n \in Nat : Below(S, n) \subseteq H}
<1>1. 0 \in G
  BY BelowFacts
<1>2. ASSUME NEW n \in Nat, n \in G
      PROVE  n + 1 \in G
  <2>1. ASSUME NEW s \in Below(S, n + 1) PROVE s \in H
    <3>1. s \in SUBSET S /\ \A x \in s : s \ {x} \in H
      BY <1>2, BelowFacts
    <3>. QED
      BY <3>1
  <2>. QED
    BY <2>1
<1>. HIDE DEF G
<1>3. \A n \in Nat : n \in G
  BY <1>1, <1>2, NatSetInduction
<1>. QED
  BY <1>3, BelowFacts DEF G

\* A function on a finite set has a finite image.
LEMMA ImageIsFinite ==
    ASSUME NEW S, IsFiniteSet(S), NEW g
    PROVE  IsFiniteSet({g[x] : x \in S})
<1>. DEFINE H == {s \in SUBSET S : IsFiniteSet({g[x] : x \in s})}
<1>1. {} \in H
  BY FS_EmptySet
<1>2. ASSUME NEW s \in SUBSET S, s # {}, \A x \in s : s \ {x} \in H
      PROVE  s \in H
  <2>1. PICK x \in s : TRUE
    BY <1>2
  <2>. DEFINE im == {g[y] : y \in s \ {x}}
  <2>2. IsFiniteSet(im)
    BY <1>2, <2>1
  <2>3. {g[y] : y \in s} = im \cup {g[x]}
    OBVIOUS
  <2>. HIDE DEF im
  <2>4. IsFiniteSet(im \cup {g[x]})
    BY <2>2, FS_AddElement
  <2>. QED
    BY <2>3, <2>4
<1>. HIDE DEF H
<1>3. \A s \in SUBSET S : s \in H
  BY <1>1, <1>2, SubsetInduction
<1>4. S \in SUBSET S
  OBVIOUS
<1>. QED
  BY <1>3, <1>4 DEF H

\* The table exists, up to every size of the subsets.
LEMMA SumTablesExist ==
    ASSUME NEW f, NEW S, IsFiniteSet(S)
    PROVE  \E g : SumTable(f, g, SUBSET S)
<1>. DEFINE G == {n \in Nat : \E g : SumTable(f, g, Below(S, n))}
<1>1. 0 \in G
  <2>. DEFINE g == [s \in Below(S, 0) |-> 0]
  <2>1. SumTable(f, g, Below(S, 0))
    BY BelowFacts DEF SumTable
  <2>. QED
    BY <2>1
<1>2. ASSUME NEW n \in Nat, n \in G
      PROVE  n + 1 \in G
  <2>1. PICK g : SumTable(f, g, Below(S, n))
    BY <1>2
  <2>. DEFINE h == [s \in Below(S, n + 1) |->
                      IF s = {} THEN 0 ELSE f[pick(s)] + g[s \ {pick(s)}]]
  <2>2. \A s \in Below(S, n + 1) :
           s # {} => s \ {pick(s)} \in Below(S, n) \cap Below(S, n + 1)
    BY BelowFacts DEF pick
  <2>3. \A s \in Below(S, n) \cap Below(S, n + 1) : h[s] = g[s]
    BY <2>1 DEF SumTable
  <2>4. SumTable(f, h, Below(S, n + 1))
    BY <2>2, <2>3 DEF SumTable
  <2>. QED
    BY <2>4
<1>. HIDE DEF G
<1>3. \A n \in Nat : n \in G
  BY <1>1, <1>2, NatSetInduction
<1>4. Cardinality(S) \in G
  BY <1>3, BelowFacts
<1>5. PICK g : SumTable(f, g, Below(S, Cardinality(S)))
  BY <1>4 DEF G
<1>6. Below(S, Cardinality(S)) = SUBSET S
  BY BelowFacts
<1>. QED
  BY <1>5, <1>6

\* The table of a set agrees with that of a set it is part of.
LEMMA TablesAgree ==
    ASSUME NEW f, NEW S, NEW T, NEW g, NEW h, IsFiniteSet(S), T \subseteq S,
           SumTable(f, g, SUBSET S), SumTable(f, h, SUBSET T)
    PROVE  g[T] = h[T]
<1>. DEFINE H == {s \in SUBSET T : g[s] = h[s]}
<1>1. \A s \in SUBSET S :
        g[s] = IF s = {} THEN 0 ELSE f[pick(s)] + g[s \ {pick(s)}]
  BY DEF SumTable
<1>2. \A s \in SUBSET T :
        h[s] = IF s = {} THEN 0 ELSE f[pick(s)] + h[s \ {pick(s)}]
  BY DEF SumTable
<1>3. {} \in H
  BY <1>1, <1>2
<1>4. ASSUME NEW s \in SUBSET T, s # {}, \A x \in s : s \ {x} \in H
      PROVE  s \in H
  <2>1. pick(s) \in s
    BY <1>4 DEF pick
  <2>2. g[s \ {pick(s)}] = h[s \ {pick(s)}]
    BY <1>4, <2>1
  <2>. QED
    BY <1>1, <1>2, <1>4, <2>2
<1>5. IsFiniteSet(T)
  BY FS_Subset
<1>. HIDE DEF H
<1>6. \A s \in SUBSET T : s \in H
  BY <1>3, <1>4, <1>5, SubsetInduction
<1>7. T \in SUBSET T
  OBVIOUS
<1>. QED
  BY <1>6, <1>7 DEF H

\* The recursion SumFunctionOnSet is defined by.
LEMMA SumEquation ==
    ASSUME NEW f, NEW S, IsFiniteSet(S)
    PROVE  SumFunctionOnSet(f, S) = IF S = {} THEN 0
                           ELSE f[pick(S)] + SumFunctionOnSet(f, S \ {pick(S)})
<1>. DEFINE g == CHOOSE g : SumTable(f, g, SUBSET S)
            T == S \ {pick(S)}
            h == CHOOSE h : SumTable(f, h, SUBSET T)
<1>1. IsFiniteSet(T)
  BY FS_Subset
<1>2. SumTable(f, g, SUBSET S) /\ SumTable(f, h, SUBSET T)
  BY <1>1, SumTablesExist
<1>3. SumFunctionOnSet(f, S) = g[S] /\ SumFunctionOnSet(f, T) = h[T]
  BY SumIsTable
<1>4. T \in SUBSET S
  OBVIOUS
<1>. HIDE DEF g, h, T
<1>5. g[T] = h[T]
  BY <1>2, <1>4, TablesAgree
<1>6. g[S] = IF S = {} THEN 0 ELSE f[pick(S)] + g[T]
  BY <1>2 DEF SumTable, T
<1>. QED
  BY <1>3, <1>5, <1>6 DEF T

\* A sum of integers is an integer.
LEMMA SumType ==
    ASSUME NEW f, NEW S, IsFiniteSet(S), \A x \in S : f[x] \in Int
    PROVE  SumFunctionOnSet(f, S) \in Int
<1>. DEFINE H == {s \in SUBSET S : SumFunctionOnSet(f, s) \in Int}
<1>1. {} \in H
  <2>1. SumFunctionOnSet(f, {}) = 0
    BY FS_EmptySet, SumEquation
  <2>. QED
    BY <2>1
<1>2. ASSUME NEW s \in SUBSET S, s # {}, \A x \in s : s \ {x} \in H
      PROVE  s \in H
  <2>1. pick(s) \in s /\ SumFunctionOnSet(f, s \ {pick(s)}) \in Int
    BY <1>2 DEF pick
  <2>2. SumFunctionOnSet(f, s) = f[pick(s)] + SumFunctionOnSet(f, s \ {pick(s)})
    BY <1>2, FS_Subset, SumEquation
  <2>. QED
    BY <2>1, <2>2
<1>. HIDE DEF H
<1>3. \A s \in SUBSET S : s \in H
  BY <1>1, <1>2, SubsetInduction
<1>4. S \in SUBSET S
  OBVIOUS
<1>. QED
  BY <1>3, <1>4 DEF H

\* A sum over S only depends on the values at S.
LEMMA SumCongruence ==
    ASSUME NEW f, NEW g, NEW S, IsFiniteSet(S), \A x \in S : f[x] = g[x]
    PROVE  SumFunctionOnSet(f, S) = SumFunctionOnSet(g, S)
<1>. DEFINE H == {s \in SUBSET S :
                    SumFunctionOnSet(f, s) = SumFunctionOnSet(g, s)}
<1>1. {} \in H
  BY FS_EmptySet, SumEquation
<1>2. ASSUME NEW s \in SUBSET S, s # {}, \A x \in s : s \ {x} \in H
      PROVE  s \in H
  <2>1. pick(s) \in s
    BY <1>2 DEF pick
  <2>2. SumFunctionOnSet(f, s \ {pick(s)}) = SumFunctionOnSet(g, s \ {pick(s)})
    BY <1>2, <2>1
  <2>3. /\ SumFunctionOnSet(f, s) =
             f[pick(s)] + SumFunctionOnSet(f, s \ {pick(s)})
        /\ SumFunctionOnSet(g, s) =
             g[pick(s)] + SumFunctionOnSet(g, s \ {pick(s)})
    BY <1>2, FS_Subset, SumEquation
  <2>. QED
    BY <2>1, <2>2, <2>3
<1>. HIDE DEF H
<1>3. \A s \in SUBSET S : s \in H
  BY <1>1, <1>2, SubsetInduction
<1>4. S \in SUBSET S
  OBVIOUS
<1>. QED
  BY <1>3, <1>4 DEF H

\* Any element may be taken out first.
LEMMA SumWithout ==
    ASSUME NEW f, NEW S, IsFiniteSet(S), \A x \in S : f[x] \in Int, NEW x \in S
    PROVE  SumFunctionOnSet(f, S) = f[x] + SumFunctionOnSet(f, S \ {x})
<1>. DEFINE H == {s \in SUBSET S : \A y \in s :
                    SumFunctionOnSet(f, s) =
                      f[y] + SumFunctionOnSet(f, s \ {y})}
<1>1. \A s \in SUBSET S : IsFiniteSet(s) /\ SumFunctionOnSet(f, s) \in Int
  BY FS_Subset, SumType
<1>2. {} \in H
  OBVIOUS
<1>3. ASSUME NEW s \in SUBSET S, s # {}, \A y \in s : s \ {y} \in H,
             NEW y \in s
      PROVE  SumFunctionOnSet(f, s) = f[y] + SumFunctionOnSet(f, s \ {y})
  <2>. DEFINE z == pick(s)
              rest == s \ {y, z}
  <2>1. z \in s /\ SumFunctionOnSet(f, s) = f[z] + SumFunctionOnSet(f, s \ {z})
    BY <1>1, <1>3, SumEquation DEF pick
  <2>. HIDE DEF z
  <2>2. CASE y = z
    BY <2>1, <2>2
  <2>3. CASE y # z
    <3>1. (s \ {z}) \ {y} = rest /\ (s \ {y}) \ {z} = rest
      OBVIOUS
    <3>2. SumFunctionOnSet(f, s \ {z}) = f[y] + SumFunctionOnSet(f, rest)
      BY <1>3, <2>1, <2>3, <3>1
    <3>3. SumFunctionOnSet(f, s \ {y}) = f[z] + SumFunctionOnSet(f, rest)
      BY <1>3, <2>1, <2>3, <3>1
    <3>4. f[y] \in Int /\ f[z] \in Int /\ SumFunctionOnSet(f, rest) \in Int
      BY <1>1, <2>1
    <3>. QED
      BY <2>1, <3>2, <3>3, <3>4
  <2>. QED
    BY <2>2, <2>3
<1>4. \A s \in SUBSET S : s # {} /\ (\A y \in s : s \ {y} \in H) => s \in H
  BY <1>3
<1>. HIDE DEF H
<1>5. \A s \in SUBSET S : s \in H
  BY <1>2, <1>4, SubsetInduction
<1>6. S \in SUBSET S
  OBVIOUS
<1>. QED
  BY <1>5, <1>6 DEF H

\* A new element adds its value.
LEMMA SumWith ==
    ASSUME NEW f, NEW S, IsFiniteSet(S), NEW x, x \notin S,
           \A y \in S \cup {x} : f[y] \in Int
    PROVE  SumFunctionOnSet(f, S \cup {x}) = SumFunctionOnSet(f, S) + f[x]
<1>1. IsFiniteSet(S \cup {x}) /\ (S \cup {x}) \ {x} = S
  BY FS_AddElement
<1>2. SumFunctionOnSet(f, S \cup {x}) = f[x] + SumFunctionOnSet(f, S)
  BY <1>1, SumWithout
<1>. QED
  BY <1>2, SumType

\* The sum over two disjoint sets.
LEMMA SumUnion ==
    ASSUME NEW f, NEW S, NEW T, IsFiniteSet(S), IsFiniteSet(T), S \cap T = {},
           \A x \in S \cup T : f[x] \in Int
    PROVE  SumFunctionOnSet(f, S \cup T) =
             SumFunctionOnSet(f, S) + SumFunctionOnSet(f, T)
<1>. DEFINE H == {s \in SUBSET T : SumFunctionOnSet(f, S \cup s) =
                    SumFunctionOnSet(f, S) + SumFunctionOnSet(f, s)}
<1>1. SumFunctionOnSet(f, S) \in Int
  BY SumType
<1>2. {} \in H
  <2>1. SumFunctionOnSet(f, {}) = 0 /\ S \cup {} = S
    BY FS_EmptySet, SumEquation
  <2>. QED
    BY <1>1, <2>1
<1>3. ASSUME NEW s \in SUBSET T, s # {}, \A x \in s : s \ {x} \in H
      PROVE  s \in H
  <2>1. PICK x \in s : TRUE
    BY <1>3
  <2>. DEFINE rest == s \ {x}
  <2>2. /\ rest \in SUBSET T /\ rest \in H /\ x \notin rest
        /\ s = rest \cup {x} /\ x \notin S \cup rest
        /\ S \cup s = (S \cup rest) \cup {x}
    BY <1>3, <2>1
  <2>. HIDE DEF rest
  <2>3. IsFiniteSet(rest) /\ IsFiniteSet(S \cup rest)
    BY <2>2, FS_Subset, FS_Union
  <2>4. f[x] \in Int /\ \A y \in S \cup rest : f[y] \in Int
    BY <2>1, <2>2
  <2>5. SumFunctionOnSet(f, s) = SumFunctionOnSet(f, rest) + f[x]
    BY <2>2, <2>3, <2>4, SumWith
  <2>6. SumFunctionOnSet(f, S \cup s) = SumFunctionOnSet(f, S \cup rest) + f[x]
    BY <2>2, <2>3, <2>4, SumWith
  <2>7. SumFunctionOnSet(f, rest) \in Int
    BY <2>3, <2>4, SumType
  <2>. QED
    BY <1>1, <2>2, <2>4, <2>5, <2>6, <2>7
<1>. HIDE DEF H
<1>4. \A s \in SUBSET T : s \in H
  BY <1>2, <1>3, SubsetInduction
<1>5. T \in SUBSET T
  OBVIOUS
<1>. QED
  BY <1>4, <1>5 DEF H

\* A sum of small values is small.
LEMMA SumBound ==
    ASSUME NEW f, NEW S, IsFiniteSet(S), NEW M \in Nat,
           \A x \in S : f[x] \in Int /\ f[x] <= M
    PROVE  SumFunctionOnSet(f, S) <= M * Cardinality(S)
<1>. DEFINE H == {s \in SUBSET S :
                    SumFunctionOnSet(f, s) <= M * Cardinality(s)}
<1>1. {} \in H
  <2>1. SumFunctionOnSet(f, {}) = 0 /\ Cardinality({}) = 0
    BY FS_EmptySet, SumEquation
  <2>. QED
    BY <2>1
<1>2. ASSUME NEW s \in SUBSET S, s # {}, \A x \in s : s \ {x} \in H
      PROVE  s \in H
  <2>. DEFINE x == pick(s)
              rest == s \ {x}
              n == Cardinality(rest)
  <2>1. x \in s
    BY <1>2 DEF pick
  <2>2. rest \in H /\ rest \in SUBSET S
    BY <1>2, <2>1
  <2>3. IsFiniteSet(s) /\ IsFiniteSet(rest) /\ n \in Nat
    BY FS_Subset, FS_CardinalityType
  <2>4. SumFunctionOnSet(f, s) = f[x] + SumFunctionOnSet(f, rest)
    BY <1>2, <2>3, SumEquation
  <2>5. SumFunctionOnSet(f, rest) \in Int
    BY <2>2, <2>3, SumType
  <2>6. Cardinality(s) = n + 1
    BY <2>1, <2>3, FS_RemoveElement, FS_CardinalityType
  <2>7. SumFunctionOnSet(f, rest) <= M * n
    BY <2>2
  <2>. HIDE DEF x, rest, n
  <2>8. M * (n + 1) = M * n + M /\ M * n \in Int
    BY <2>3
  <2>. QED
    BY <2>1, <2>4, <2>5, <2>6, <2>7, <2>8
<1>. HIDE DEF H
<1>3. \A s \in SUBSET S : s \in H
  BY <1>1, <1>2, SubsetInduction
<1>4. S \in SUBSET S
  OBVIOUS
<1>. QED
  BY <1>3, <1>4 DEF H
=============================================================================

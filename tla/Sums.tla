-------------------------------- MODULE Sums --------------------------------
(***************************************************************************)
(* What a sum over a finite set is, and what it becomes when the set or    *)
(* one of the values changes.                                              *)
(***************************************************************************)
EXTENDS Integers, Functions, FiniteSetTheorems, WellFoundedInduction, TLAPS

\* A nonempty set of naturals has a least element.
LEMMA LeastNatural ==
    ASSUME NEW S \in SUBSET Nat, S # {}
    PROVE  \E x \in S : \A y \in S : x <= y
<1> DEFINE R == {ss \in Nat \X Nat : ss[1] < ss[2]}
<1>1. IsWellFoundedOn(R, Nat)
    BY NatLessThanWellFounded, Zenon DEF OpToRel
<1> HIDE DEF R
<1>2. PICK x \in S : \A y \in S : <<y, x>> \notin R
    BY <1>1, WFMin, Zenon
<1>3. ASSUME NEW y \in S PROVE x <= y
    <2>1. x \in Nat /\ y \in Nat /\ ~(y < x)  BY <1>2 DEF R
    <2> QED  BY <2>1
<1> QED  BY <1>3

\* Among the subsets of a finite set, one of a kind is minimal.
LEMMA MinimalExists ==
    ASSUME NEW S, IsFiniteSet(S), NEW Kind \in SUBSET (SUBSET S), Kind # {}
    PROVE  \E s \in Kind : \A x \in s : s \ {x} \notin Kind
<1> DEFINE Sizes == {Cardinality(s) : s \in Kind}
<1>1. \A s \in SUBSET S : IsFiniteSet(s) /\ Cardinality(s) \in Nat
    BY FS_Subset, FS_CardinalityType
<1>2. Sizes \in SUBSET Nat /\ Sizes # {}  BY <1>1
<1> HIDE DEF Sizes
<1>3. PICK n \in Sizes : \A m \in Sizes : n <= m  BY <1>2, LeastNatural
<1>4. PICK s \in Kind : \A t \in Kind : Cardinality(s) <= Cardinality(t)
    BY <1>3 DEF Sizes
<1>5. ASSUME NEW x \in s PROVE s \ {x} \notin Kind
    <2>1. Cardinality(s \ {x}) = Cardinality(s) - 1  BY <1>1, FS_RemoveElement
    <2> QED  BY <1>1, <1>4, <2>1
<1> QED  BY <1>5

\* The steps of the summation.
Summing(f, S, g) ==
    g = [s \in S |-> IF s = {} THEN 0
                     ELSE LET x == CHOOSE x \in s : TRUE IN f[x] + g[s \ {x}]]

\* A sum is what the steps lead to.
LEMMA SumIs ==
    ASSUME NEW f, NEW S
    PROVE  SumFunctionOnSet(f, S) = (CHOOSE g : Summing(f, SUBSET S, g))[S]
BY DEF SumFunctionOnSet, FoldFunctionOnSet, MapThenFoldSet, Summing

\* Some function follows the steps, on all subsets of a finite set.
LEMMA SummingExists ==
    ASSUME NEW f, NEW S, IsFiniteSet(S)
    PROVE  \E g : Summing(f, SUBSET S, g)
<1> DEFINE Small(n) == {s \in SUBSET S : Cardinality(s) <= n}
           Missing == {n \in Nat : ~\E g : Summing(f, Small(n), g)}
<1>1. \A s \in SUBSET S : IsFiniteSet(s) /\ Cardinality(s) \in Nat
    BY FS_Subset, FS_CardinalityType
<1>2. 0 \notin Missing
    <2>1. Small(0) = {{}}
        BY <1>1, FS_EmptySet
    <2>2. Summing(f, Small(0), [s \in Small(0) |-> 0])
        BY <2>1 DEF Summing
    <2> QED  BY <2>2
<1>3. \A n \in Nat : n \notin Missing => n + 1 \notin Missing
    <2> TAKE n \in Nat
    <2> HAVE n \notin Missing
    <2> PICK g : Summing(f, Small(n), g)  OBVIOUS
    <2> DEFINE h == [s \in Small(n + 1) |->
                        IF s = {} THEN 0
                        ELSE LET x == CHOOSE x \in s : TRUE IN f[x] + g[s \ {x}]]
    <2>1. ASSUME NEW s \in Small(n + 1), s # {}
          PROVE  LET x == CHOOSE x \in s : TRUE IN h[s \ {x}] = g[s \ {x}]
        <3> DEFINE x == CHOOSE x \in s : TRUE
                   t == s \ {x}
        <3>1. x \in s  BY <2>1
        <3>2. Cardinality(t) = Cardinality(s) - 1 /\ t \in SUBSET S
            BY <3>1, <1>1, FS_RemoveElement
        <3>3. t \in Small(n) /\ t \in Small(n + 1)
            BY <3>2, <1>1
        <3>4. g[t] = IF t = {} THEN 0 ELSE LET y == CHOOSE y \in t : TRUE IN f[y] + g[t \ {y}]
            BY <3>3 DEF Summing
        <3> QED  BY <3>3, <3>4
    <2>2. Summing(f, Small(n + 1), h)
        <3> DEFINE v(k, s) == IF s = {} THEN 0 ELSE LET x == CHOOSE x \in s : TRUE IN f[x] + k[s \ {x}]
        <3>1. \A s \in Small(n + 1) : v(g, s) = v(h, s)
            <4> TAKE s \in Small(n + 1)
            <4>1. CASE s = {}  BY <4>1
            <4>2. CASE s # {}
                <5> DEFINE x == CHOOSE x \in s : TRUE
                <5>1. h[s \ {x}] = g[s \ {x}]  BY <2>1, <4>2
                <5> HIDE DEF h
                <5> QED  BY <5>1, <4>2
            <4> QED  BY <4>1, <4>2
        <3>2. h = [s \in Small(n + 1) |-> v(g, s)]  OBVIOUS
        <3> HIDE DEF v, h
        <3>3. h = [s \in Small(n + 1) |-> v(h, s)]  BY <3>1, <3>2
        <3> QED  BY <3>3 DEF Summing, v
    <2> QED  BY <2>2
<1> HIDE DEF Missing
<1>4. Missing = {}
    <2> SUFFICES ASSUME Missing # {} PROVE FALSE  OBVIOUS
    <2>0. Missing \in SUBSET Nat  BY DEF Missing
    <2>1. PICK n \in Missing : \A m \in Missing : n <= m  BY <2>0, LeastNatural
    <2>2. n \in Nat /\ n # 0 /\ n - 1 \in Nat  BY <2>0, <1>2
    <2>3. n - 1 \notin Missing  BY <2>1, <2>2
    <2>4. (n - 1) + 1 = n  BY <2>2
    <2> QED  BY <1>3, <2>2, <2>3, <2>4
<1>5. PICK g : Summing(f, Small(Cardinality(S)), g)
    BY <1>1, <1>4 DEF Missing
<1>6. Small(Cardinality(S)) = SUBSET S
    BY FS_Subset
<1> QED  BY <1>5, <1>6

\* The first element the summation takes, and what it leaves.
Taken(s) == CHOOSE x \in s : TRUE

\* What a function that follows the steps says of a set, and that there is one of them.
LEMMA SumTotal ==
    ASSUME NEW f, NEW S, IsFiniteSet(S), NEW T \in SUBSET S, NEW g, Summing(f, SUBSET S, g)
    PROVE  g[T] = SumFunctionOnSet(f, T)
<1> DEFINE G == CHOOSE h : Summing(f, SUBSET T, h)
           Apart == {s \in SUBSET T : G[s] # g[s]}
<1>1. IsFiniteSet(T)  BY FS_Subset
<1>2. Summing(f, SUBSET T, G)  BY <1>1, SummingExists
<1> HIDE DEF G
<1>4. Apart = {}
    <2> SUFFICES ASSUME Apart # {} PROVE FALSE  OBVIOUS
    <2>1. PICK s \in Apart : \A x \in s : s \ {x} \notin Apart
        BY <1>1, MinimalExists
    <2> DEFINE x == CHOOSE x \in s : TRUE
    <2>2. s \in SUBSET T /\ s \in SUBSET S  OBVIOUS
    <2>3. G[s] = IF s = {} THEN 0 ELSE f[x] + G[s \ {x}]
        BY <1>2, <2>2 DEF Summing
    <2>4. g[s] = IF s = {} THEN 0 ELSE f[x] + g[s \ {x}]
        BY <2>2 DEF Summing
    <2>5. s # {}  BY <2>3, <2>4
    <2>6. x \in s  BY <2>5
    <2>7. s \ {x} \in SUBSET T  BY <2>2
    <2> HIDE DEF x
    <2>8. s \ {x} \notin Apart  BY <2>1, <2>6
    <2> QED  BY <2>3, <2>4, <2>7, <2>8
<1>5. G[T] = g[T]  BY <1>4
<1> QED  BY <1>5, SumIs DEF G

\* The sum over no element.
LEMMA SumOfNone == ASSUME NEW f PROVE SumFunctionOnSet(f, {}) = 0
<1>1. IsFiniteSet({})  BY FS_EmptySet
<1>2. PICK g : Summing(f, SUBSET {}, g)  BY <1>1, SummingExists
<1>3. g[{}] = 0  BY <1>2 DEF Summing
<1> QED  BY <1>1, <1>2, <1>3, SumTotal

\* The sum takes one element first ...
LEMMA SumTakesFirst ==
    ASSUME NEW f, NEW S, IsFiniteSet(S), S # {}
    PROVE  /\ Taken(S) \in S
           /\ SumFunctionOnSet(f, S) = f[Taken(S)] + SumFunctionOnSet(f, S \ {Taken(S)})
<1>1. PICK g : Summing(f, SUBSET S, g)  BY SummingExists
<1>2. Taken(S) \in S  BY DEF Taken
<1>3. g[S] = f[Taken(S)] + g[S \ {Taken(S)}]  BY <1>1 DEF Summing, Taken
<1>4. S \in SUBSET S /\ S \ {Taken(S)} \in SUBSET S  OBVIOUS
<1>5. g[S] = SumFunctionOnSet(f, S)  BY <1>1, <1>4, SumTotal
<1>6. g[S \ {Taken(S)}] = SumFunctionOnSet(f, S \ {Taken(S)})  BY <1>1, <1>4, SumTotal
<1> QED  BY <1>2, <1>3, <1>5, <1>6

\* Sums of integers are integers.
LEMMA SumIsInteger ==
    ASSUME NEW f, NEW S, IsFiniteSet(S), \A x \in S : f[x] \in Int
    PROVE  SumFunctionOnSet(f, S) \in Int
<1> DEFINE Other == {s \in SUBSET S : SumFunctionOnSet(f, s) \notin Int}
<1>1. SUFFICES ASSUME Other # {} PROVE FALSE  OBVIOUS
<1>2. PICK s \in Other : \A x \in s : s \ {x} \notin Other
    BY <1>1, MinimalExists
<1>3. s \in SUBSET S /\ IsFiniteSet(s)  BY FS_Subset
<1>4. s # {}  BY SumOfNone
<1> DEFINE x == Taken(s)
<1>5. x \in s /\ SumFunctionOnSet(f, s) = f[x] + SumFunctionOnSet(f, s \ {x})
    BY <1>3, <1>4, SumTakesFirst
<1> HIDE DEF x
<1>6. SumFunctionOnSet(f, s \ {x}) \in Int  BY <1>2, <1>3, <1>5
<1> QED  BY <1>3, <1>5, <1>6

\* Nothing adds up to nothing.
LEMMA SumOfZeros ==
    ASSUME NEW f, NEW S, IsFiniteSet(S), \A x \in S : f[x] = 0
    PROVE  SumFunctionOnSet(f, S) = 0
<1> DEFINE Other == {s \in SUBSET S : SumFunctionOnSet(f, s) # 0}
<1>1. SUFFICES ASSUME Other # {} PROVE FALSE  OBVIOUS
<1>2. PICK s \in Other : \A x \in s : s \ {x} \notin Other
    BY <1>1, MinimalExists
<1>3. s \in SUBSET S /\ IsFiniteSet(s)  BY FS_Subset
<1>4. s # {}  BY SumOfNone
<1> DEFINE x == Taken(s)
<1>5. x \in s /\ SumFunctionOnSet(f, s) = f[x] + SumFunctionOnSet(f, s \ {x})
    BY <1>3, <1>4, SumTakesFirst
<1> HIDE DEF x
<1>6. SumFunctionOnSet(f, s \ {x}) = 0  BY <1>2, <1>3, <1>5
<1> QED  BY <1>3, <1>5, <1>6

\* Equal values have equal sums.
LEMMA SumOfEqual ==
    ASSUME NEW f, NEW g, NEW S, IsFiniteSet(S), \A x \in S : f[x] = g[x]
    PROVE  SumFunctionOnSet(f, S) = SumFunctionOnSet(g, S)
<1> DEFINE Other == {s \in SUBSET S : SumFunctionOnSet(f, s) # SumFunctionOnSet(g, s)}
<1>1. SUFFICES ASSUME Other # {} PROVE FALSE  OBVIOUS
<1>2. PICK s \in Other : \A x \in s : s \ {x} \notin Other
    BY <1>1, MinimalExists
<1>3. s \in SUBSET S /\ IsFiniteSet(s)  BY FS_Subset
<1>4. s # {}  BY SumOfNone
<1> DEFINE x == Taken(s)
<1>5. /\ x \in s /\ SumFunctionOnSet(f, s) = f[x] + SumFunctionOnSet(f, s \ {x})
      /\ SumFunctionOnSet(g, s) = g[x] + SumFunctionOnSet(g, s \ {x})
    BY <1>3, <1>4, SumTakesFirst
<1> HIDE DEF x
<1>6. SumFunctionOnSet(f, s \ {x}) = SumFunctionOnSet(g, s \ {x})  BY <1>2, <1>3, <1>5
<1> QED  BY <1>3, <1>5, <1>6

\* ... and so any: their order does not matter.
LEMMA SumTakesAny ==
    ASSUME NEW f, NEW S, IsFiniteSet(S), \A x \in S : f[x] \in Int, NEW y \in S
    PROVE  SumFunctionOnSet(f, S) = f[y] + SumFunctionOnSet(f, S \ {y})
<1> DEFINE Holds(s) ==
               \A z \in s : SumFunctionOnSet(f, s) = f[z] + SumFunctionOnSet(f, s \ {z})
           Other == {s \in SUBSET S : ~Holds(s)}
<1>0. SUFFICES ASSUME Other # {} PROVE FALSE  OBVIOUS
<1>1. PICK s \in Other : \A x \in s : s \ {x} \notin Other
    BY <1>0, MinimalExists
<1>2. s \in SUBSET S /\ IsFiniteSet(s)  BY FS_Subset
<1>3. PICK z \in s : SumFunctionOnSet(f, s) # f[z] + SumFunctionOnSet(f, s \ {z})
    BY <1>1
<1> DEFINE x == Taken(s)
<1>4. x \in s /\ SumFunctionOnSet(f, s) = f[x] + SumFunctionOnSet(f, s \ {x})
    BY <1>2, SumTakesFirst
<1> HIDE DEF x
<1>5. x # z  BY <1>3, <1>4
<1> DEFINE rest == s \ {x, z}
<1>6. /\ (s \ {x}) \ {z} = rest /\ (s \ {z}) \ {x} = rest
      /\ z \in s \ {x} /\ x \in s \ {z} /\ rest \in SUBSET S
    BY <1>2, <1>4, <1>5
<1>7. Holds(s \ {x}) /\ Holds(s \ {z})  BY <1>1, <1>2, <1>4
<1> HIDE DEF rest
<1>8. SumFunctionOnSet(f, s \ {x}) = f[z] + SumFunctionOnSet(f, rest)  BY <1>6, <1>7
<1>9. SumFunctionOnSet(f, s \ {z}) = f[x] + SumFunctionOnSet(f, rest)  BY <1>6, <1>7
<1>10. IsFiniteSet(rest) /\ \A i \in rest : f[i] \in Int  BY <1>6, FS_Subset
<1>11. SumFunctionOnSet(f, rest) \in Int  BY <1>10, SumIsInteger
<1>12. f[x] \in Int /\ f[z] \in Int  BY <1>2, <1>4
<1> QED  BY <1>3, <1>4, <1>8, <1>9, <1>11, <1>12

\* One value that changes changes the sum by as much.
LEMMA SumAfterChange ==
    ASSUME NEW f, NEW g, NEW S, IsFiniteSet(S), NEW y \in S,
           \A x \in S : f[x] \in Int /\ g[x] \in Int,
           \A x \in S : x # y => f[x] = g[x]
    PROVE  SumFunctionOnSet(g, S) = SumFunctionOnSet(f, S) + (g[y] - f[y])
<1>1. IsFiniteSet(S \ {y}) /\ \A x \in S \ {y} : f[x] = g[x] /\ f[x] \in Int
    BY FS_Subset
<1>2. SumFunctionOnSet(f, S) = f[y] + SumFunctionOnSet(f, S \ {y})  BY SumTakesAny
<1>3. SumFunctionOnSet(g, S) = g[y] + SumFunctionOnSet(g, S \ {y})  BY SumTakesAny
<1>4. SumFunctionOnSet(f, S \ {y}) = SumFunctionOnSet(g, S \ {y})  BY <1>1, SumOfEqual
<1>5. SumFunctionOnSet(f, S \ {y}) \in Int  BY <1>1, SumIsInteger
<1> QED  BY <1>2, <1>3, <1>4, <1>5

\* One value that is added.
LEMMA SumOfMore ==
    ASSUME NEW f, NEW g, NEW S, IsFiniteSet(S), NEW y, y \notin S, g[y] \in Int,
           \A x \in S : f[x] = g[x] /\ g[x] \in Int
    PROVE  SumFunctionOnSet(g, S \cup {y}) = SumFunctionOnSet(f, S) + g[y]
<1> DEFINE T == S \cup {y}
<1>1. IsFiniteSet(T) /\ y \in T /\ T \ {y} = S /\ \A x \in T : g[x] \in Int
    BY FS_AddElement
<1> HIDE DEF T
<1>2. SumFunctionOnSet(g, T) = g[y] + SumFunctionOnSet(g, S)  BY <1>1, SumTakesAny
<1>3. SumFunctionOnSet(f, S) = SumFunctionOnSet(g, S)  BY SumOfEqual
<1>4. SumFunctionOnSet(g, S) \in Int  BY SumIsInteger
<1> QED  BY <1>2, <1>3, <1>4 DEF T

\* Two sets apart from each other add up to the two sums.
LEMMA SumOfDisjoint ==
    ASSUME NEW f, NEW S, IsFiniteSet(S), NEW T, IsFiniteSet(T), S \cap T = {},
           \A x \in S \cup T : f[x] \in Int
    PROVE  SumFunctionOnSet(f, S \cup T) = SumFunctionOnSet(f, S) + SumFunctionOnSet(f, T)
<1> DEFINE Other == {s \in SUBSET T : SumFunctionOnSet(f, S \cup s) # SumFunctionOnSet(f, S) + SumFunctionOnSet(f, s)}
<1>1. SUFFICES ASSUME Other # {} PROVE FALSE  OBVIOUS
<1>2. PICK s \in Other : \A x \in s : s \ {x} \notin Other
    BY <1>1, MinimalExists
<1>3. s \in SUBSET T /\ IsFiniteSet(s) /\ IsFiniteSet(S \cup s)  BY FS_Subset, FS_Union
<1>4. SumFunctionOnSet(f, S) \in Int  BY SumIsInteger
<1>5. s # {}
    <2>1. SumFunctionOnSet(f, {}) = 0 /\ S \cup {} = S  BY SumOfNone
    <2> QED  BY <1>2, <1>4, <2>1
<1>6. PICK x : x \in s  BY <1>5
<1>7. /\ x \in S \cup s /\ (S \cup s) \ {x} = S \cup (s \ {x}) /\ s \ {x} \in SUBSET T
      /\ \A y \in S \cup s : f[y] \in Int
    BY <1>3, <1>6
<1>8. SumFunctionOnSet(f, S \cup s) = f[x] + SumFunctionOnSet(f, S \cup (s \ {x}))
    BY <1>3, <1>7, SumTakesAny
<1>9. SumFunctionOnSet(f, s) = f[x] + SumFunctionOnSet(f, s \ {x})
    BY <1>3, <1>6, SumTakesAny
<1>10. SumFunctionOnSet(f, S \cup (s \ {x})) = SumFunctionOnSet(f, S) + SumFunctionOnSet(f, s \ {x})
    BY <1>2, <1>6, <1>7
<1>11. f[x] \in Int /\ SumFunctionOnSet(f, s \ {x}) \in Int
    <2>1. IsFiniteSet(s \ {x}) /\ \A y \in s \ {x} : f[y] \in Int  BY <1>3, FS_Subset
    <2> QED  BY <2>1, <1>3, <1>6, SumIsInteger
<1> QED  BY <1>2, <1>4, <1>8, <1>9, <1>10, <1>11

\* What is counted by part adds up to what is in the parts.
LEMMA SumByPart ==
    ASSUME NEW f, NEW S, IsFiniteSet(S), \A x \in S : f[x] \in Int,
           NEW part, NEW K, IsFiniteSet(K), \A x \in S : part[x] \in K,
           NEW of, \A k \in K : \A x : x \in of[k] <=> x \in S /\ part[x] = k,
           NEW g, \A k \in K : g[k] = SumFunctionOnSet(f, of[k])
    PROVE  SumFunctionOnSet(g, K) = SumFunctionOnSet(f, S)
<1> DEFINE Of(k) == {x \in S : part[x] = k}
           In(s) == {x \in S : part[x] \in s}
           Other == {s \in SUBSET K : SumFunctionOnSet(g, s) # SumFunctionOnSet(f, In(s))}
<1>0. In(K) = S /\ \A k \in K : g[k] = SumFunctionOnSet(f, Of(k))
    <2>1. ASSUME NEW k \in K  PROVE of[k] = Of(k)  OBVIOUS
    <2>2. In(K) = S  OBVIOUS
    <2> HIDE DEF Of, In
    <2> QED  BY <2>1, <2>2
<1>1. SUFFICES ASSUME Other # {} PROVE FALSE  BY <1>0
<1>2. PICK s \in Other : \A k \in s : s \ {k} \notin Other
    BY <1>1, MinimalExists
<1>3. s \in SUBSET K /\ IsFiniteSet(s)  BY FS_Subset
<1>4. s # {}
    <2>1. In({}) = {}  OBVIOUS
    <2> HIDE DEF In
    <2> QED  BY <1>2, <2>1, SumOfNone
<1>5. PICK k : k \in s  BY <1>4
<1>6. /\ In(s) = In(s \ {k}) \cup Of(k) /\ In(s \ {k}) \cap Of(k) = {}
      /\ In(s \ {k}) \in SUBSET S /\ Of(k) \in SUBSET S
    BY <1>5
<1>7. s \ {k} \in SUBSET K  BY <1>3
<1>8. SumFunctionOnSet(g, s \ {k}) = SumFunctionOnSet(f, In(s \ {k}))
    BY <1>2, <1>5, <1>7
<1>9. g[k] = SumFunctionOnSet(f, Of(k))  BY <1>0, <1>3, <1>5
<1>10. SumFunctionOnSet(g, s) # SumFunctionOnSet(f, In(s))  BY <1>2
<1> HIDE DEF Of, In, Other
<1>11. \A r \in SUBSET S : IsFiniteSet(r) /\ SumFunctionOnSet(f, r) \in Int
    <2> TAKE r \in SUBSET S
    <2>1. IsFiniteSet(r) /\ \A x \in r : f[x] \in Int  BY FS_Subset
    <2> QED  BY <2>1, SumIsInteger
<1>12. SumFunctionOnSet(f, In(s)) = SumFunctionOnSet(f, In(s \ {k})) + SumFunctionOnSet(f, Of(k))
    <2>1. \A x \in In(s \ {k}) \cup Of(k) : f[x] \in Int  BY <1>6
    <2>2. IsFiniteSet(In(s \ {k})) /\ IsFiniteSet(Of(k))  BY <1>6, <1>11
    <2>3. SumFunctionOnSet(f, In(s \ {k}) \cup Of(k))
             = SumFunctionOnSet(f, In(s \ {k})) + SumFunctionOnSet(f, Of(k))
        BY ONLY <2>1, <2>2, <1>6, SumOfDisjoint
    <2> QED  BY <2>3, <1>6
<1>13. \A j \in s : g[j] \in Int
    <2> TAKE j \in s
    <2>1. g[j] = SumFunctionOnSet(f, Of(j)) /\ Of(j) \in SUBSET S  BY <1>0, <1>3 DEF Of
    <2> QED  BY <2>1, <1>11
<1>14. SumFunctionOnSet(g, s) = g[k] + SumFunctionOnSet(g, s \ {k})
    BY <1>3, <1>5, <1>13, SumTakesAny
<1> QED  BY <1>6, <1>8, <1>9, <1>10, <1>11, <1>12, <1>14

\* A finite set has finitely many names.
LEMMA NamesFinite ==
    ASSUME NEW S, IsFiniteSet(S), NEW name, NEW T, \A t \in T : \E x \in S : t = name[x]
    PROVE  IsFiniteSet(T)
<1> DEFINE All == {name[x] : x \in S}
           h == [x \in S |-> name[x]]
<1>1. h \in Surjection(S, All)  BY DEF Surjection
<1>2. T \in SUBSET All  OBVIOUS
<1> HIDE DEF All, h
<1>3. IsFiniteSet(All)  BY <1>1, FS_Surjection
<1> QED  BY <1>2, <1>3, FS_Subset

\* A sum can be taken over other names of the same values.
LEMMA SumRenamed ==
    ASSUME NEW f, NEW S, IsFiniteSet(S), \A x \in S : f[x] \in Int,
           NEW name, \A x, y \in S : name[x] = name[y] => x = y,
           NEW g, \A x \in S : g[name[x]] = f[x],
           NEW T, \A t : t \in T <=> \E x \in S : t = name[x]
    PROVE  SumFunctionOnSet(g, T) = SumFunctionOnSet(f, S)
<1> DEFINE Names(s) == {name[x] : x \in s}
           Other == {s \in SUBSET S : SumFunctionOnSet(g, Names(s)) # SumFunctionOnSet(f, s)}
<1>0. T = Names(S) /\ S \in SUBSET S  OBVIOUS
<1>1. SUFFICES ASSUME Other # {} PROVE FALSE  BY <1>0
<1>2. PICK s \in Other : \A x \in s : s \ {x} \notin Other
    BY <1>1, MinimalExists
<1>3. s \in SUBSET S /\ IsFiniteSet(s) /\ IsFiniteSet(Names(s))
    <2>1. s \in SUBSET S /\ IsFiniteSet(s)  BY FS_Subset
    <2>2. \A t \in Names(s) : \E x \in s : t = name[x]  OBVIOUS
    <2> HIDE DEF Names
    <2> QED  BY <2>1, <2>2, NamesFinite
<1>4. s # {}
    <2>1. Names({}) = {}  OBVIOUS
    <2> HIDE DEF Names
    <2> QED  BY <1>2, <2>1, SumOfNone
<1>5. PICK x : x \in s  BY <1>4
<1>6. /\ name[x] \in Names(s) /\ Names(s) \ {name[x]} = Names(s \ {x}) /\ s \ {x} \in SUBSET S
      /\ \A n \in Names(s) : g[n] \in Int
    BY <1>3, <1>5
<1>7. SumFunctionOnSet(g, Names(s \ {x})) = SumFunctionOnSet(f, s \ {x})
    BY <1>2, <1>5, <1>6
<1>8. SumFunctionOnSet(g, Names(s)) # SumFunctionOnSet(f, s) /\ g[name[x]] = f[x]
    BY <1>2, <1>3, <1>5
<1> HIDE DEF Names, Other
<1>9. SumFunctionOnSet(g, Names(s)) = g[name[x]] + SumFunctionOnSet(g, Names(s \ {x}))
    <2> PICK n : n = name[x]  OBVIOUS
    <2>1. SumFunctionOnSet(g, Names(s)) = g[n] + SumFunctionOnSet(g, Names(s) \ {n})
        BY <1>3, <1>6, SumTakesAny
    <2> QED  BY <2>1, <1>6
<1>10. SumFunctionOnSet(f, s) = f[x] + SumFunctionOnSet(f, s \ {x})
    BY <1>3, <1>5, SumTakesAny
<1> QED  BY <1>7, <1>8, <1>9, <1>10

\* Opposite values have opposite sums.
LEMMA SumOfOpposites ==
    ASSUME NEW f, NEW g, NEW S, IsFiniteSet(S), \A x \in S : f[x] \in Int /\ g[x] = - f[x]
    PROVE  SumFunctionOnSet(g, S) = - SumFunctionOnSet(f, S)
<1> DEFINE Other == {s \in SUBSET S : SumFunctionOnSet(g, s) # - SumFunctionOnSet(f, s)}
<1>1. SUFFICES ASSUME Other # {} PROVE FALSE  OBVIOUS
<1>2. PICK s \in Other : \A x \in s : s \ {x} \notin Other
    BY <1>1, MinimalExists
<1>3. s \in SUBSET S /\ IsFiniteSet(s)  BY FS_Subset
<1>4. s # {}  BY SumOfNone
<1> DEFINE x == Taken(s)
<1>5. /\ x \in s /\ SumFunctionOnSet(f, s) = f[x] + SumFunctionOnSet(f, s \ {x})
      /\ SumFunctionOnSet(g, s) = g[x] + SumFunctionOnSet(g, s \ {x})
    BY <1>3, <1>4, SumTakesFirst
<1> HIDE DEF x
<1>6. SumFunctionOnSet(g, s \ {x}) = - SumFunctionOnSet(f, s \ {x})  BY <1>2, <1>3, <1>5
<1>7. SumFunctionOnSet(f, s \ {x}) \in Int /\ f[x] \in Int /\ g[x] = - f[x]
    <2>1. IsFiniteSet(s \ {x}) /\ \A y \in s \ {x} : f[y] \in Int  BY <1>3, FS_Subset
    <2> QED  BY <2>1, <1>3, <1>5, SumIsInteger
<1> QED  BY <1>2, <1>5, <1>6, <1>7

=============================================================================

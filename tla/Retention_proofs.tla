-------------------------- MODULE Retention_proofs --------------------------
(* Machine-checked proofs about Retention, for any policies, any number of    *)
(* files and any bounds.                                                      *)
EXTENDS Retention, FiniteSetTheorems, WellFoundedInduction, TLAPS

-----------------------------------------------------------------------------
(* Induction, in a form without an operator parameter: a set of numbers has a *)
(* least element.                                                             *)

\* The least-number principle.
LEMMA LeastNumber ==
    ASSUME NEW T \in SUBSET Nat, T # {}
    PROVE  \E n \in T : \A m \in T : n <= m
<1>1. PICK k \in T : TRUE
  OBVIOUS
<1> DEFINE R == {p \in Nat \X Nat : p[1] < p[2]}
<1>2. IsWellFoundedOn(R, Nat)
  <2>1. R = OpToRel(<, Nat)
    BY DEF OpToRel
  <2> QED
    BY <2>1, NatLessThanWellFounded
<1>3. PICK n \in T : \A m \in T : ~ (<<m, n>> \in R)
  BY <1>2, WFMin
<1>4. ASSUME NEW m \in T PROVE n <= m
  <2>1. m \in Nat /\ n \in Nat
    OBVIOUS
  <2>2. ~ (m < n)
    BY <1>3, <2>1
  <2> QED
    BY <2>1, <2>2
<1> QED
  BY <1>4

\* The subsets of a finite set have sizes, and taking an element away shrinks them.
LEMMA Sizes ==
    ASSUME NEW S, IsFiniteSet(S), NEW T \in SUBSET S
    PROVE  /\ IsFiniteSet(T) /\ Cardinality(T) \in Nat /\ Cardinality(T) <= Cardinality(S)
           /\ Cardinality(T) = 0 <=> T = {}
           /\ \A x \in T : Cardinality(T \ {x}) = Cardinality(T) - 1
<1>1. IsFiniteSet(T) /\ Cardinality(T) <= Cardinality(S)
  BY FS_Subset
<1>2. Cardinality(T) \in Nat /\ (Cardinality(T) = 0 <=> T = {})
  BY <1>1, FS_CardinalityType, FS_EmptySet
<1>3. ASSUME NEW x \in T PROVE Cardinality(T \ {x}) = Cardinality(T) - 1
  BY <1>1, FS_RemoveElement
<1> QED
  BY <1>1, <1>2, <1>3

\* Among some subsets of a finite set there is one that stops being one of them
\* whichever element is taken away.
LEMMA SmallestSubset ==
    ASSUME NEW S, IsFiniteSet(S), NEW Some \in SUBSET SUBSET S, Some # {}
    PROVE  \E T \in Some : \A x \in T : T \ {x} \notin Some
<1> DEFINE Cards == {Cardinality(T) : T \in Some}
<1>1. Cards \in SUBSET Nat /\ Cards # {}
  BY Sizes
<1>2. PICK n \in Cards : \A m \in Cards : n <= m
  <2> HIDE DEF Cards
  <2> QED
    BY <1>1, LeastNumber
<1>3. PICK T \in Some : n = Cardinality(T)
  OBVIOUS
<1>4. ASSUME NEW x \in T, T \ {x} \in Some PROVE FALSE
  <2>1. Cardinality(T \ {x}) = Cardinality(T) - 1 /\ Cardinality(T) \in Nat
    BY Sizes
  <2>2. n <= Cardinality(T \ {x})
    BY <1>2, <1>4
  <2> QED
    BY <1>3, <2>1, <2>2
<1> QED
  BY <1>4

\* A choice of an element of every subset, and a function that is given by recursion:
\* it takes the chosen element away.
Picks(pick, S) == \A T \in SUBSET S : T # {} => pick[T] \in T
Recursive(g, S, V, base, pick, step) ==
    /\ g \in [SUBSET S -> V]
    /\ \A T \in SUBSET S :
          g[T] = IF T = {} THEN base ELSE step[<<pick[T], g[T \ {pick[T]}]>>]

\* A recursion over the subsets of a finite set has a solution.
LEMMA RecursionHasSolution ==
    ASSUME NEW S, IsFiniteSet(S), NEW V, NEW base \in V, NEW pick, Picks(pick, S),
           NEW step \in [S \X V -> V]
    PROVE  \E g : Recursive(g, S, V, base, pick, step)
<1> DEFINE Small(n) == {T \in SUBSET S : Cardinality(T) <= n}
           Solves(g, T) == g[T] = IF T = {} THEN base ELSE step[<<pick[T], g[T \ {pick[T]}]>>]
           Solvable(n) == \E g \in [Small(n) -> V] : \A T \in Small(n) : Solves(g, T)
           Unsolvable == {n \in Nat : ~ Solvable(n)}
<1>0. \A T \in SUBSET S : T # {} => pick[T] \in T
  BY DEF Picks
<1>1. Solvable(0)
  <2>1. Small(0) = {{}}
    BY Sizes
  <2> DEFINE g == [T \in Small(0) |-> base]
  <2>2. g \in [Small(0) -> V] /\ \A T \in Small(0) : Solves(g, T)
    BY <2>1
  <2> QED
    BY <2>2
<1>2. ASSUME NEW n \in Nat, Solvable(n) PROVE Solvable(n + 1)
  <2>1. PICK f \in [Small(n) -> V] : \A T \in Small(n) : Solves(f, T)
    BY <1>2
  <2> DEFINE g == [T \in Small(n + 1) |->
                     IF T = {} THEN base ELSE step[<<pick[T], f[T \ {pick[T]}]>>]]
  <2>2. ASSUME NEW T \in Small(n + 1), T # {}
        PROVE  pick[T] \in S /\ T \ {pick[T]} \in Small(n)
    <3>1. pick[T] \in T /\ T \ {pick[T]} \in SUBSET S
      BY <2>2, <1>0
    <3>2. Cardinality(T \ {pick[T]}) = Cardinality(T) - 1 /\ Cardinality(T) \in Nat
      BY <3>1, Sizes
    <3> QED
      BY <3>1, <3>2
  <2>3. g \in [Small(n + 1) -> V]
    <3>1. ASSUME NEW T \in Small(n + 1)
          PROVE  (IF T = {} THEN base ELSE step[<<pick[T], f[T \ {pick[T]}]>>]) \in V
      BY <2>2, <2>1
    <3> QED
      BY <3>1
  <2>4. ASSUME NEW T \in Small(n) PROVE T \in Small(n + 1) /\ g[T] = f[T]
    <3>1. T \in Small(n + 1)
      BY Sizes
    <3> QED
      BY <3>1, <2>1
  <2>5. ASSUME NEW T \in Small(n + 1) PROVE Solves(g, T)
    BY <2>2, <2>4
  <2> QED
    BY <2>3, <2>5
<1>3. Unsolvable = {}
  <2> HIDE DEF Solvable
  <2>1. SUFFICES ASSUME Unsolvable # {} PROVE FALSE
    OBVIOUS
  <2>2. PICK n \in Unsolvable : \A m \in Unsolvable : n <= m
    BY <2>1, LeastNumber
  <2>3. n \in Nat /\ n # 0
    BY <1>1
  <2>4. n - 1 \in Nat /\ n - 1 \notin Unsolvable
    BY <2>2, <2>3
  <2>5. Solvable(n - 1)
    BY <2>4
  <2>6. Solvable((n - 1) + 1)
    BY <2>4, <2>5, <1>2
  <2>7. (n - 1) + 1 = n
    OBVIOUS
  <2> QED
    BY <2>6, <2>7
<1>4. Cardinality(S) \in Nat /\ Small(Cardinality(S)) = SUBSET S
  BY Sizes
<1>5. Solvable(Cardinality(S))
  BY <1>3, <1>4
<1>6. \E g \in [SUBSET S -> V] : \A T \in SUBSET S : Solves(g, T)
  BY <1>4, <1>5
<1> QED
  BY <1>6 DEF Recursive

-----------------------------------------------------------------------------
(* The bytes of a set of files. *)

\* Finitely many files with sizes.
Sized(S) == IsFiniteSet(S) /\ \A c \in S : c.size \in Nat

\* A function that gives the bytes of every subset by Bytes' recursion.
Sums(b, S) ==
    /\ b \in [SUBSET S -> Nat]
    /\ \A T \in SUBSET S :
          b[T] = IF T = {} THEN 0
                 ELSE (CHOOSE c \in T : TRUE).size + b[T \ {CHOOSE c \in T : TRUE}]

\* Bytes is what such a function says.
LEMMA BytesAreSums ==
    ASSUME NEW S, Sized(S)
    PROVE  \E b : Sums(b, S) /\ Bytes(S) = b[S]
<1> DEFINE pick == [T \in SUBSET S |-> CHOOSE c \in T : TRUE]
           step == [p \in S \X Nat |-> p[1].size + p[2]]
           iter[T \in SUBSET S] ==
              IF T = {} THEN 0
              ELSE (CHOOSE c \in T : TRUE).size + iter[T \ {CHOOSE c \in T : TRUE}]
<1>1. Picks(pick, S) /\ \A T \in SUBSET S : T # {} => pick[T] \in T
  BY DEF Picks
<1>2. /\ step \in [S \X Nat -> Nat] /\ 0 \in Nat /\ IsFiniteSet(S)
      /\ \A c \in S, v \in Nat : step[<<c, v>>] = c.size + v
  BY DEF Sized
<1>3. PICK g : Recursive(g, S, Nat, 0, pick, step)
  <2> HIDE DEF pick, step, iter
  <2> QED
    BY <1>1, <1>2, RecursionHasSolution
<1>4. ASSUME NEW T \in SUBSET S
      PROVE  g[T] = IF T = {} THEN 0
                    ELSE (CHOOSE c \in T : TRUE).size + g[T \ {CHOOSE c \in T : TRUE}]
  <2>1. CASE T = {}
    BY <1>3, <2>1 DEF Recursive
  <2>2. CASE T # {}
    <3>1. pick[T] = (CHOOSE c \in T : TRUE) /\ pick[T] \in S /\ g[T \ {pick[T]}] \in Nat
      BY <1>1, <1>3, <2>2 DEF Recursive
    <3>2. g[T] = step[<<pick[T], g[T \ {pick[T]}]>>]
      BY <1>3, <2>2 DEF Recursive
    <3>3. step[<<pick[T], g[T \ {pick[T]}]>>] = pick[T].size + g[T \ {pick[T]}]
      <4> HIDE DEF pick, step
      <4> QED
        BY <3>1, <1>2
    <3> QED
      BY <2>2, <3>1, <3>2, <3>3
  <2> QED
    BY <2>1, <2>2
<1>5. g = [T \in SUBSET S |->
             IF T = {} THEN 0
             ELSE (CHOOSE c \in T : TRUE).size + g[T \ {CHOOSE c \in T : TRUE}]]
  BY <1>3, <1>4 DEF Recursive
<1>6. iter = [T \in SUBSET S |->
                IF T = {} THEN 0
                ELSE (CHOOSE c \in T : TRUE).size + iter[T \ {CHOOSE c \in T : TRUE}]]
  BY <1>5, Zenon
<1>7. Bytes(S) = iter[S]
  BY DEF Bytes, MapThenSumSet, MapThenFoldSet
<1> HIDE DEF iter
<1>8. \A T \in SUBSET S : iter[T] \in Nat
  <2> DEFINE Bad == {T \in SUBSET S : iter[T] \notin Nat}
  <2>1. SUFFICES ASSUME Bad # {} PROVE FALSE
    OBVIOUS
  <2>2. PICK T \in Bad : \A x \in T : T \ {x} \notin Bad
    BY <2>1, SmallestSubset DEF Sized
  <2>3. CASE T = {}
    BY <1>6, <2>3
  <2>4. CASE T # {}
    <3>1. PICK x \in T : x = CHOOSE c \in T : TRUE
      BY <2>4
    <3>2. iter[T \ {x}] \in Nat /\ x.size \in Nat
      BY <2>2, <3>1 DEF Sized
    <3>3. iter[T] = x.size + iter[T \ {x}]
      BY <1>6, <2>4, <3>1
    <3> QED
      BY <3>2, <3>3
  <2> QED
    BY <2>3, <2>4
<1>9. Sums(iter, S)
  BY <1>6, <1>8 DEF Sums
<1> QED
  BY <1>7, <1>9

\* A sum does not depend on the element that is taken away first.
LEMMA SumsAddUp ==
    ASSUME NEW S, Sized(S), NEW b, Sums(b, S)
    PROVE  \A T \in SUBSET S : \A x \in T : b[T] = x.size + b[T \ {x}]
<1> DEFINE Splits(T) == \A x \in T : b[T] = x.size + b[T \ {x}]
           Bad == {T \in SUBSET S : ~ Splits(T)}
<1>1. SUFFICES ASSUME Bad # {} PROVE FALSE
  OBVIOUS
<1>2. PICK T \in Bad : \A x \in T : T \ {x} \notin Bad
  <2> HIDE DEF Splits
  <2> QED
    BY <1>1, SmallestSubset DEF Sized
<1>3. PICK x \in T : b[T] # x.size + b[T \ {x}]
  OBVIOUS
<1>4. PICK y \in T : y = CHOOSE c \in T : TRUE
  BY <1>3
<1>5. b[T] = y.size + b[T \ {y}]
  BY <1>4 DEF Sums
<1>6. x # y
  BY <1>3, <1>5
<1>7. Splits(T \ {y}) /\ Splits(T \ {x})
  BY <1>2
<1>8. b[T \ {y}] = x.size + b[(T \ {y}) \ {x}] /\ b[T \ {x}] = y.size + b[(T \ {x}) \ {y}]
  BY <1>6, <1>7
<1>9. (T \ {y}) \ {x} = (T \ {x}) \ {y} /\ (T \ {x}) \ {y} \in SUBSET S
  OBVIOUS
<1>10. x.size \in Nat /\ y.size \in Nat /\ b[(T \ {x}) \ {y}] \in Nat
  BY <1>9 DEF Sized, Sums
<1> QED
  BY <1>3, <1>5, <1>8, <1>9, <1>10

\* Two such functions agree where both are defined.
LEMMA SumsAgree ==
    ASSUME NEW U, NEW S \in SUBSET U, Sized(U), NEW a, Sums(a, S), NEW b, Sums(b, U)
    PROVE  a[S] = b[S]
<1> DEFINE Bad == {T \in SUBSET S : a[T] # b[T]}
<1>1. SUFFICES ASSUME Bad # {} PROVE FALSE
  OBVIOUS
<1>2. IsFiniteSet(S)
  BY FS_Subset DEF Sized
<1>3. PICK T \in Bad : \A x \in T : T \ {x} \notin Bad
  BY <1>1, <1>2, SmallestSubset
<1>4. CASE T = {}
  BY <1>4 DEF Sums
<1>5. CASE T # {}
  <2>1. PICK y \in T : y = CHOOSE c \in T : TRUE
    BY <1>5
  <2>2. a[T] = y.size + a[T \ {y}] /\ b[T] = y.size + b[T \ {y}]
    BY <1>5, <2>1 DEF Sums
  <2> QED
    BY <1>3, <2>1, <2>2
<1> QED
  BY <1>4, <1>5

\* Bytes of the empty set, and of a set with and without one of its files.
LEMMA BytesEmpty == Bytes({}) = 0
<1>1. Sized({})
  BY FS_EmptySet DEF Sized
<1>2. PICK b : Sums(b, {}) /\ Bytes({}) = b[{}]
  BY <1>1, BytesAreSums
<1> QED
  BY <1>2 DEF Sums

\* The bytes of a set are those of one of its files and of the rest.
LEMMA BytesWithout ==
    ASSUME NEW S, Sized(S)
    PROVE  /\ Bytes(S) \in Nat
           /\ \A x \in S : /\ Bytes(S \ {x}) \in Nat /\ x.size \in Nat
                           /\ Bytes(S) = Bytes(S \ {x}) + x.size
<1>1. PICK b : Sums(b, S) /\ Bytes(S) = b[S]
  BY BytesAreSums
<1>2. Bytes(S) \in Nat
  BY <1>1 DEF Sums
<1>3. ASSUME NEW x \in S
      PROVE  /\ Bytes(S \ {x}) \in Nat /\ x.size \in Nat
             /\ Bytes(S) = Bytes(S \ {x}) + x.size
  <2>1. Sized(S \ {x}) /\ S \ {x} \in SUBSET S
    BY FS_RemoveElement DEF Sized
  <2>2. PICK a : Sums(a, S \ {x}) /\ Bytes(S \ {x}) = a[S \ {x}]
    BY <2>1, BytesAreSums
  <2>3. Bytes(S \ {x}) = b[S \ {x}]
    BY <1>1, <2>1, <2>2, SumsAgree
  <2>4. b[S] = x.size + b[S \ {x}]
    BY <1>1, SumsAddUp
  <2>5. x.size \in Nat /\ b[S \ {x}] \in Nat
    BY <1>1 DEF Sized, Sums
  <2> QED
    BY <1>1, <2>3, <2>4, <2>5
<1> QED
  BY <1>2, <1>3

\* A file that is added adds its size.
LEMMA BytesWith ==
    ASSUME NEW S, Sized(S), NEW x, x \notin S, x.size \in Nat
    PROVE  Sized(S \cup {x}) /\ Bytes(S \cup {x}) = Bytes(S) + x.size
<1>1. Sized(S \cup {x}) /\ x \in S \cup {x} /\ (S \cup {x}) \ {x} = S
  BY FS_AddElement DEF Sized
<1> QED
  BY <1>1, BytesWithout

-----------------------------------------------------------------------------
(* The order of the files, and the plan. *)

\* Finitely many files with paths of their own.
Listed(S) ==
    /\ Sized(S)
    /\ \A c \in S : c.at \in Nat /\ c.path \in Nat
    /\ \A c, d \in S : c.path = d.path => c = d

\* Files are ordered by capture time, then by path.
LEMMA OrderIsTotal ==
    ASSUME NEW S, Listed(S)
    PROVE  /\ \A c \in S : ~ Older(c, c)
           /\ \A c, d \in S : c = d \/ Older(c, d) \/ Older(d, c)
           /\ \A c, d \in S : Older(c, d) => ~ Older(d, c)
           /\ \A c, d, e \in S : Older(c, d) /\ Older(d, e) => Older(c, e)
BY DEF Listed, Older

\* Some of the files, if there are any, have a newest and an oldest one.
LEMMA NewestExists ==
    ASSUME NEW S, Listed(S), NEW T \in SUBSET S, T # {}
    PROVE  Newest(T) \in T /\ \A d \in T : d = Newest(T) \/ Older(d, Newest(T))
<1> DEFINE Has(U) == \E c \in U : \A d \in U : d = c \/ Older(d, c)
           Bad == {U \in SUBSET S : U # {} /\ ~ Has(U)}
<1>1. Bad = {}
  <2>1. SUFFICES ASSUME Bad # {} PROVE FALSE
    OBVIOUS
  <2>2. PICK U \in Bad : \A x \in U : U \ {x} \notin Bad
    <3> HIDE DEF Has
    <3> QED
      BY <2>1, SmallestSubset DEF Listed, Sized
  <2>3. PICK x \in U : TRUE
    OBVIOUS
  <2>4. CASE U \ {x} = {}
    BY <2>3, <2>4
  <2>5. CASE U \ {x} # {}
    <3>1. PICK m \in U \ {x} : \A d \in U \ {x} : d = m \/ Older(d, m)
      BY <2>2, <2>5
    <3>2. CASE Older(x, m)
      BY <3>1, <3>2
    <3>3. CASE Older(m, x)
      <4>1. \A d \in U : d = x \/ Older(d, x)
        BY <3>1, <3>3, OrderIsTotal
      <4> QED
        BY <4>1
    <3> QED
      BY <3>1, <3>2, <3>3, OrderIsTotal
  <2> QED
    BY <2>4, <2>5
<1>2. Has(T)
  BY <1>1
<1> QED
  BY <1>2 DEF Newest

\* The same for the oldest.
LEMMA OldestExists ==
    ASSUME NEW S, Listed(S), NEW T \in SUBSET S, T # {}
    PROVE  Oldest(T) \in T /\ \A d \in T : d = Oldest(T) \/ Older(Oldest(T), d)
<1> DEFINE Has(U) == \E c \in U : \A d \in U : d = c \/ Older(c, d)
           Bad == {U \in SUBSET S : U # {} /\ ~ Has(U)}
<1>1. Bad = {}
  <2>1. SUFFICES ASSUME Bad # {} PROVE FALSE
    OBVIOUS
  <2>2. PICK U \in Bad : \A x \in U : U \ {x} \notin Bad
    <3> HIDE DEF Has
    <3> QED
      BY <2>1, SmallestSubset DEF Listed, Sized
  <2>3. PICK x \in U : TRUE
    OBVIOUS
  <2>4. CASE U \ {x} = {}
    BY <2>3, <2>4
  <2>5. CASE U \ {x} # {}
    <3>1. PICK m \in U \ {x} : \A d \in U \ {x} : d = m \/ Older(m, d)
      BY <2>2, <2>5
    <3>2. CASE Older(m, x)
      BY <3>1, <3>2
    <3>3. CASE Older(x, m)
      <4>1. \A d \in U : d = x \/ Older(x, d)
        BY <3>1, <3>3, OrderIsTotal
      <4> QED
        BY <4>1
    <3> QED
      BY <3>1, <3>2, <3>3, OrderIsTotal
  <2> QED
    BY <2>4, <2>5
<1>2. Has(T)
  BY <1>1
<1> QED
  BY <1>2 DEF Oldest

\* The plan by its recursion: what is selected of the files of rest, beyond aged.
Selects(f, inventory, free, spool, aged, rest) ==
    /\ f \in [SUBSET rest -> SUBSET (aged \cup rest)]
    /\ \A T \in SUBSET rest :
          f[T] = IF T = {} THEN aged
                 ELSE IF Enough(inventory, free, spool, f[T \ {Newest(T)}])
                      THEN f[T \ {Newest(T)}]
                      ELSE f[T \ {Newest(T)}] \cup {Newest(T)}

\* D is what such a function selects of everything that is not old enough to go anyway.
Planned(f, inventory, protected, time, free, spool, D) ==
    LET reclaimable == Reclaimable(inventory, protected)
        aged == Aged(reclaimable, time)
    IN  Selects(f, inventory, free, spool, aged, reclaimable \ aged) /\ D = f[reclaimable \ aged]

\* The fold of the model is this recursion.
LEMMA PlanSelects ==
    ASSUME NEW inventory, Listed(inventory), NEW protected, NEW time, NEW free, NEW spool,
           NEW D, D = Plan(inventory, protected, time, free, spool)
    PROVE  \E f : Planned(f, inventory, protected, time, free, spool, D)
<1> SUFFICES
      ASSUME NEW reclaimable, reclaimable = Reclaimable(inventory, protected),
             NEW aged, aged = Aged(reclaimable, time)
      PROVE  \E f : /\ Selects(f, inventory, free, spool, aged, reclaimable \ aged)
                    /\ D = f[reclaimable \ aged]
  BY DEF Planned
<1> DEFINE rest == reclaimable \ aged
           Select(c, S) == IF Enough(inventory, free, spool, S) THEN S ELSE S \cup {c}
           V == SUBSET (aged \cup rest)
           pick == [T \in SUBSET rest |-> Newest(T)]
           step == [p \in rest \X V |-> Select(p[1], p[2])]
           iter[T \in SUBSET rest] ==
              IF T = {} THEN aged ELSE Select(Newest(T), iter[T \ {Newest(T)}])
<1>1. rest \in SUBSET inventory /\ IsFiniteSet(rest) /\ aged \in V
  <2>1. rest \in SUBSET inventory
    BY DEF Reclaimable
  <2>2. IsFiniteSet(rest)
    BY <2>1, FS_Subset DEF Listed, Sized
  <2> QED
    BY <2>1, <2>2
<1>2. \A T \in SUBSET rest : T # {} => Newest(T) \in T
  BY <1>1, NewestExists
<1>3. D = iter[rest]
  BY DEF Plan, MapThenFoldSet
<1>4. Picks(pick, rest)
  BY <1>2 DEF Picks
<1>5. \A c \in rest, S \in V : Select(c, S) \in V /\ step[<<c, S>>] = Select(c, S)
  <2>1. ASSUME NEW c \in rest, NEW S \in V PROVE Select(c, S) \in V
    OBVIOUS
  <2>2. ASSUME NEW c \in rest, NEW S \in V PROVE step[<<c, S>>] = Select(c, S)
    <3> HIDE DEF Select, V, rest
    <3> QED
      OBVIOUS
  <2> HIDE DEF Select, step, V, rest
  <2> QED
    BY <2>1, <2>2
<1>6. step \in [rest \X V -> V]
  <2> HIDE DEF Select, V, rest
  <2> QED
    BY <1>5
<1>7. PICK g : Recursive(g, rest, V, aged, pick, step)
  <2> HIDE DEF rest, V, pick, step
  <2> QED
    BY <1>1, <1>4, <1>6, RecursionHasSolution
<1>8. ASSUME NEW T \in SUBSET rest
      PROVE  g[T] = IF T = {} THEN aged ELSE Select(Newest(T), g[T \ {Newest(T)}])
  <2>1. CASE T = {}
    BY <1>7, <2>1 DEF Recursive
  <2>2. CASE T # {}
    <3> HIDE DEF Select, step, V
    <3>1. pick[T] = Newest(T) /\ Newest(T) \in rest /\ g[T \ {Newest(T)}] \in V
      BY <1>2, <1>7, <2>2 DEF Recursive
    <3>2. g[T] = step[<<pick[T], g[T \ {pick[T]}]>>]
      BY <1>7, <2>2 DEF Recursive
    <3> QED
      BY <1>5, <2>2, <3>1, <3>2
  <2> QED
    BY <2>1, <2>2
<1>9. g = [T \in SUBSET rest |->
             IF T = {} THEN aged ELSE Select(Newest(T), g[T \ {Newest(T)}])]
  BY <1>7, <1>8 DEF Recursive
<1>10. iter = [T \in SUBSET rest |->
                 IF T = {} THEN aged ELSE Select(Newest(T), iter[T \ {Newest(T)}])]
  BY <1>9, Zenon
<1> HIDE DEF iter
<1>11. \A T \in SUBSET rest : iter[T] \in V
  <2> DEFINE Bad == {T \in SUBSET rest : iter[T] \notin V}
  <2>1. SUFFICES ASSUME Bad # {} PROVE FALSE
    OBVIOUS
  <2> HIDE DEF V, Select, rest
  <2>2. PICK T \in Bad : \A x \in T : T \ {x} \notin Bad
    BY <1>1, <2>1, SmallestSubset
  <2>3. CASE T = {}
    BY <1>1, <1>10, <2>3
  <2>4. CASE T # {}
    <3>1. Newest(T) \in rest /\ iter[T \ {Newest(T)}] \in V
      BY <1>2, <2>2, <2>4
    <3>2. iter[T] = Select(Newest(T), iter[T \ {Newest(T)}])
      BY <1>10, <2>4
    <3> QED
      BY <1>5, <3>1, <3>2
  <2> QED
    BY <2>3, <2>4
<1>12. Selects(iter, inventory, free, spool, aged, rest)
  BY <1>10, <1>11 DEF Selects
<1> QED
  BY <1>3, <1>12

\* What plan_with_private_bytes promises of the files it selects.
Exact(inventory, free, spool, aged, rest, D) ==
    LET extra == D \ aged
    IN  /\ aged \subseteq D /\ D \subseteq aged \cup rest
        /\ \A c \in extra : /\ \A d \in rest : Older(d, c) => d \in D
                            /\ ~ Enough(inventory, free, spool,
                                        aged \cup {d \in extra : Older(d, c)})
        /\ Enough(inventory, free, spool, D) \/ D = aged \cup rest

\* Every stage of the selection keeps the promise for the files it has looked at.
LEMMA SelectionIsExact ==
    ASSUME NEW inventory, Listed(inventory), NEW free, NEW spool,
           NEW aged \in SUBSET inventory, NEW rest \in SUBSET inventory, aged \cap rest = {},
           NEW f, Selects(f, inventory, free, spool, aged, rest)
    PROVE  \A T \in SUBSET rest : Exact(inventory, free, spool, aged, T, f[T])
<1> DEFINE Good(T) == Exact(inventory, free, spool, aged, T, f[T])
           Bad == {T \in SUBSET rest : ~ Good(T)}
<1>1. SUFFICES ASSUME Bad # {} PROVE FALSE
  OBVIOUS
<1>2. IsFiniteSet(rest)
  BY FS_Subset DEF Listed, Sized
<1>3. PICK T \in Bad : \A x \in T : T \ {x} \notin Bad
  <2> HIDE DEF Good
  <2> QED
    BY <1>1, <1>2, SmallestSubset
<1>4. CASE T = {}
  <2>1. f[T] = aged
    BY <1>4 DEF Selects
  <2> QED
    BY <1>3, <1>4, <2>1 DEF Exact
<1>5. CASE T # {}
  <2> DEFINE x == Newest(T)
             U == T \ {x}
  <2>1. x \in T /\ \A d \in U : Older(d, x) /\ ~ Older(x, d)
    <3>1. T \in SUBSET inventory
      OBVIOUS
    <3>2. Newest(T) \in T /\ \A d \in T : d = Newest(T) \/ Older(d, Newest(T))
      BY <1>5, <3>1, NewestExists
    <3> QED
      BY <3>1, <3>2, OrderIsTotal
  <2>2. Good(U) /\ U \in SUBSET rest /\ T = U \cup {x}
    BY <1>3, <2>1
  <2>3. f[T] = IF Enough(inventory, free, spool, f[U]) THEN f[U] ELSE f[U] \cup {x}
    BY <1>5 DEF Selects
  <2> HIDE DEF x, U
  <2>4. CASE Enough(inventory, free, spool, f[U])
    <3>1. f[T] = f[U]
      BY <2>3, <2>4
    <3> DEFINE extra == f[U] \ aged
    <3>2. /\ aged \subseteq f[U] /\ f[U] \subseteq aged \cup U
          /\ \A c \in extra : /\ \A d \in U : Older(d, c) => d \in f[U]
                              /\ ~ Enough(inventory, free, spool,
                                          aged \cup {d \in extra : Older(d, c)})
      BY <2>2 DEF Exact
    <3>3. \A c \in extra : \A d \in T : Older(d, c) => d \in f[U]
      BY <2>1, <2>2, <3>2
    <3>4. Good(T)
      BY <2>2, <2>4, <3>1, <3>2, <3>3 DEF Exact
    <3> QED
      BY <1>3, <3>4
  <2>5. CASE ~ Enough(inventory, free, spool, f[U])
    <3>1. f[U] = aged \cup U /\ f[T] = aged \cup T
      BY <2>2, <2>3, <2>5 DEF Exact
    <3>2. (aged \cup T) \ aged = T /\ (aged \cup U) \ aged = U
      BY <2>2
    <3>3. ASSUME NEW c \in T
          PROVE  ~ Enough(inventory, free, spool, aged \cup {d \in T : Older(d, c)})
      <4>1. CASE c = x
        <5>1. x \notin {d \in T : Older(d, x)}
          BY OrderIsTotal, <2>1
        <5>2. {d \in T : Older(d, x)} = U
          BY <2>1, <2>2, <5>1
        <5> QED
          BY <2>5, <3>1, <4>1, <5>2
      <4>2. CASE c # x
        <5>1. c \in U /\ {d \in T : Older(d, c)} = {d \in U : Older(d, c)}
          BY <2>1, <2>2, <4>2
        <5>2. ~ Enough(inventory, free, spool, aged \cup {d \in U : Older(d, c)})
          BY <2>2, <3>1, <3>2, <5>1 DEF Exact
        <5> QED
          BY <5>1, <5>2
      <4> QED
        BY <4>1, <4>2
    <3>4. Good(T)
      BY <3>1, <3>2, <3>3 DEF Exact
    <3> QED
      BY <1>3, <3>4
  <2> QED
    BY <2>4, <2>5
<1> QED
  BY <1>4, <1>5

\* The plan keeps the promise, and takes nothing that is protected or kept.
LEMMA PlanIsSelection ==
    ASSUME NEW inventory, Listed(inventory), NEW protected, NEW time, NEW free, NEW spool
    PROVE  LET reclaimable == Reclaimable(inventory, protected)
               aged == Aged(reclaimable, time)
               D == Plan(inventory, protected, time, free, spool)
           IN  /\ Exact(inventory, free, spool, aged, reclaimable \ aged, D)
               /\ aged \subseteq reclaimable /\ D \subseteq reclaimable
<1> DEFINE reclaimable == Reclaimable(inventory, protected)
           aged == Aged(reclaimable, time)
<1> SUFFICES ASSUME NEW D, D = Plan(inventory, protected, time, free, spool)
             PROVE  /\ Exact(inventory, free, spool, aged, reclaimable \ aged, D)
                    /\ aged \subseteq reclaimable /\ D \subseteq reclaimable
  OBVIOUS
<1>1. aged \subseteq reclaimable /\ reclaimable \subseteq inventory
  BY DEF Aged, Reclaimable
<1>2. Exact(inventory, free, spool, aged, reclaimable \ aged, D)
  <2>1. PICK f : /\ Selects(f, inventory, free, spool, aged, reclaimable \ aged)
                 /\ D = f[reclaimable \ aged]
    <3>1. PICK f : Planned(f, inventory, protected, time, free, spool, D)
      BY PlanSelects
    <3> QED
      BY <3>1 DEF Planned
  <2> HIDE DEF aged, reclaimable
  <2>2. \A T \in SUBSET (reclaimable \ aged) : Exact(inventory, free, spool, aged, T, f[T])
    BY <1>1, <2>1, SelectionIsExact
  <2> QED
    BY <2>1, <2>2
<1>3. D \subseteq reclaimable
  <2> HIDE DEF aged, reclaimable
  <2> QED
    BY <1>1, <1>2 DEF Exact
<1> QED
  BY <1>1, <1>2, <1>3

-----------------------------------------------------------------------------
(* Types. *)

\* The limits and bounds of a policy.
LEMMA PolicyTypes ==
    ASSUME policy \in Policies
    PROVE  /\ MaxAge \in Limit /\ MaxBytes \in Limit /\ MinFree \in Limit
           /\ KeepLatest \in BOOLEAN /\ policy.sizes \subseteq Nat
           /\ MaxFiles \in Nat /\ policy.private \in Nat /\ policy.faults \in Nat
           /\ policy.time \in Nat \ {0} /\ None \notin Nat /\ Capacity \in Nat
BY RetentionAssumption DEF MaxAge, MaxBytes, MinFree, KeepLatest, MaxFiles

\* What is published is a list of files with sizes, and so is any part of it.
LEMMA FilesAreListed ==
    ASSUME TypeOK, Numbered, NEW S \in SUBSET published
    PROVE  Listed(S) /\ Sized(S) /\ Bytes(S) \in Nat
<1>1. /\ policy.sizes \subseteq Nat /\ policy.time \in Nat /\ MaxFiles \in Nat
  BY PolicyTypes DEF TypeOK, FileType
<1>2. \A c \in S : c.at \in Nat /\ c.path \in Nat /\ c.size \in Nat
  BY <1>1 DEF TypeOK, FileType, File
<1>3. IsFiniteSet(S)
  BY FS_Subset DEF Numbered
<1>4. Listed(S) /\ Sized(S)
  BY <1>2, <1>3 DEF Listed, Sized, Numbered
<1> QED
  BY <1>4, BytesWithout

\* The head and the tail of a queue.
LEMMA HeadAndTail ==
    ASSUME NEW S, NEW q \in Seq(S), q # <<>>
    PROVE  /\ Head(q) \in S /\ Tail(q) \in Seq(S)
           /\ Len(q) \in Nat \ {0} /\ Len(Tail(q)) = Len(q) - 1
OBVIOUS

\* What a publication leaves: one more file, with a number no other file has.
NewFile(file, thr, size) ==
    /\ file \in File /\ file \notin published /\ file.size = size
    /\ disk' = disk \cup {file} /\ published' = published \cup {file}
    /\ IsFiniteSet(published') /\ Cardinality(published') = Cardinality(published) + 1
    /\ \A c \in published' : c.path <= Cardinality(published')
    /\ \A c, d \in published' : c.path = d.path => c = d
    /\ guarded' \subseteq 1..MaxFiles /\ pending' = pending \cup {[thr |-> thr, path |-> file.path]}
    /\ size <= Free

\* A publication adds one file with a number of its own.
LEMMA PublishAddsFile ==
    ASSUME TypeOK, Numbered, NEW thr, NEW at \in 1..policy.time,
           NEW size \in policy.sizes, NEW guard \in BOOLEAN, Publish(thr, at, size, guard),
           Cardinality(published) < MaxFiles
    PROVE  \E file : NewFile(file, thr, size)
<1> DEFINE file == [path |-> Cardinality(published) + 1, at |-> at, size |-> size]
<1>1. /\ disk' = disk \cup {file} /\ published' = published \cup {file}
      /\ guarded' = IF guard THEN guarded \cup {file.path} ELSE guarded
      /\ pending' = pending \cup {[thr |-> thr, path |-> file.path]} /\ size <= Free
  BY DEF Publish
<1>2. Cardinality(published) \in Nat /\ MaxFiles \in Nat
  BY FS_CardinalityType, PolicyTypes DEF Numbered, TypeOK, FileType
<1>3. Cardinality(published) + 1 \in 1..MaxFiles
  BY <1>2
<1>4. file \in File /\ file.path = Cardinality(published) + 1 /\ file.size = size
  BY <1>3 DEF File
<1>5. file \notin published
  <2>1. SUFFICES ASSUME file \in published PROVE FALSE
    OBVIOUS
  <2>2. file.path <= Cardinality(published)
    BY <2>1 DEF Numbered
  <2> QED
    BY <1>2, <1>4, <2>2
<1> HIDE DEF file
<1>6. IsFiniteSet(published') /\ Cardinality(published') = Cardinality(published) + 1
  BY <1>1, <1>5, FS_AddElement DEF Numbered
<1>7. guarded' \subseteq 1..MaxFiles
  BY <1>1, <1>3, <1>4 DEF TypeOK, FileType
<1>8. \A c \in published : c.path \in Nat /\ c.path <= Cardinality(published)
  BY DEF TypeOK, FileType, File, Numbered
<1>9. \A c \in published' : c.path <= Cardinality(published')
  BY <1>1, <1>2, <1>4, <1>6, <1>8
<1>10. \A c, d \in published' : c.path = d.path => c = d
  <2>1. \A c \in published : c.path # file.path
    BY <1>2, <1>4, <1>8
  <2>2. \A c, d \in published : c.path = d.path => c = d
    BY DEF Numbered
  <2> QED
    BY <1>1, <2>1, <2>2
<1> QED
  BY <1>1, <1>4, <1>5, <1>6, <1>7, <1>9, <1>10 DEF NewFile

-----------------------------------------------------------------------------
(* Every step keeps the inductive invariant. *)

\* The policy stays.
LEMMA PolicyStays ==
    ASSUME TypeOK, [Next]_vars
    PROVE  /\ policy' = policy /\ MaxFiles' = MaxFiles /\ File' = File
           /\ KeepLatest' = KeepLatest /\ MaxBytes' = MaxBytes /\ MinFree' = MinFree
           /\ MaxAge' = MaxAge /\ HasByteQuota' = HasByteQuota
<1>1. policy' = policy
  BY DEF Next, vars
<1> QED
  BY <1>1 DEF MaxFiles, File, KeepLatest, MaxBytes, MinFree, MaxAge, HasByteQuota

\* Either publisher, when it publishes: one new file, counted in both counters, and
\* the publisher has yet to wake the thread.
Published(file, thr) ==
    /\ thr \in Publishers /\ file \in File /\ file \notin published
    /\ disk' = disk \cup {file} /\ published' = published \cup {file}
    /\ guarded' \subseteq 1..MaxFiles /\ pending' = pending \cup {[thr |-> thr, path |-> file.path]}
    /\ file.size \in Nat /\ file.size <= Free
    /\ since' = since + file.size /\ fresh' = fresh + file.size
    /\ private' \in {0, private} /\ slot' = slot
    /\ queue' \in Seq(1..policy.time)
    /\ phase # "joined" /\ phase' = phase
    /\ UNCHANGED <<failed, stop, suspended, thread, history, now>>

\* Both publishers publish in this way.
LEMMA PublisherPublishes ==
    ASSUME TypeOK, Numbered, StopInv, NEW size \in policy.sizes, NEW guard \in BOOLEAN,
           WriteStill(size, guard) \/ (FinishSegment(size, guard) /\ VideoAdmitted(0))
    PROVE  \E file, thr : Published(file, thr)
<1>0. /\ MaxFiles \in Nat /\ Cardinality(published) \in Nat /\ size \in Nat
      /\ Cardinality(published) + Len(queue) <= MaxFiles /\ queue \in Seq(1..policy.time)
  BY FS_CardinalityType, PolicyTypes DEF Numbered, TypeOK, FileType
<1>1. CASE WriteStill(size, guard)
  <2>1. /\ Head(queue) \in 1..policy.time /\ Tail(queue) \in Seq(1..policy.time)
        /\ Len(queue) \in Nat \ {0}
    BY <1>1, <1>0, HeadAndTail DEF WriteStill
  <2>2. Publish("still", Head(queue), size, guard) /\ queue' = Tail(queue) /\ queue # <<>>
    BY <1>1 DEF WriteStill
  <2>3. Cardinality(published) < MaxFiles
    BY <2>1, <1>0
  <2>4. PICK file : NewFile(file, "still", size)
    BY <2>1, <2>2, <2>3, PublishAddsFile
  <2>5. phase # "joined"
    BY <2>2 DEF StopInv
  <2>6. Published(file, "still")
    BY <1>0, <1>1, <2>1, <2>2, <2>4, <2>5 DEF WriteStill, Published, Added, NewFile, Publishers
  <2> QED
    BY <2>6
<1>2. CASE FinishSegment(size, guard) /\ VideoAdmitted(0)
  <2>1. /\ now \in 1..policy.time /\ Publish("video", now, size, guard) /\ queue' = queue
        /\ Cardinality(published) + Len(queue) < MaxFiles /\ Len(queue) \in Nat
    BY <1>2, <1>0 DEF FinishSegment, TypeOK, FileType
  <2>2. Cardinality(published) < MaxFiles
    BY <2>1, <1>0
  <2>3. PICK file : NewFile(file, "video", size)
    BY <2>1, <2>2, PublishAddsFile
  <2>4. Published(file, "video")
    BY <1>0, <1>2, <2>1, <2>3 DEF FinishSegment, Published, Added, NewFile, Publishers
  <2> QED
    BY <2>4
<1> QED
  BY <1>1, <1>2

\* A publisher wakes the thread, or fails.
PublisherGoes ==
    \/ \E p \in pending : Wake(p)
    \/ \E thr \in Publishers : PublisherFails(thr)

\* Either way the files stay, and there is a token, or whoever was on the way to wake
\* the thread is so still or has failed; in an epoch that was joined nobody is left.
LEMMA PublisherLeavesFiles ==
    ASSUME TypeOK, PublisherGoes
    PROVE  /\ UNCHANGED <<disk, published, guarded, phase, stop, suspended, thread, since, fresh,
                          removed, broken, now>>
           /\ pending' \subseteq pending /\ failed' \subseteq Publishers
           /\ orphans' \subseteq 1..MaxFiles
           /\ private' \in {0, private} /\ slot' \in BOOLEAN
           /\ queue' \in Seq(1..policy.time) /\ Len(queue') \in Nat /\ Len(queue') <= Len(queue)
           /\ StopInv => phase # "joined"
           /\ stop \/ slot' \/ (slot' = slot /\ OnTheWay' \cup orphans' = OnTheWay \cup orphans)
<1>0. /\ queue \in Seq(1..policy.time) /\ failed \subseteq Publishers /\ slot \in BOOLEAN
      /\ stop \in BOOLEAN
      /\ pending \subseteq [thr : Publishers, path : 1..MaxFiles] /\ orphans \subseteq 1..MaxFiles
  BY DEF TypeOK, FileType, ThreadType
<1>1. <<>> \in Seq(1..policy.time) /\ Len(<<>>) = 0 /\ Len(queue) \in Nat
  BY <1>0
<1>2. ASSUME NEW thr \in Publishers, Ends(thr)
      PROVE  /\ failed' \subseteq Publishers /\ private' \in {0, private}
             /\ queue' \in {queue, <<>>}
  <2>1. failed' = failed \cup {thr}
    BY <1>2 DEF Ends
  <2>2. private' \in {0, private} /\ queue' \in {queue, <<>>}
    BY <1>2 DEF Ends
  <2> QED
    BY <2>1, <2>2, <1>0
<1>5. ASSUME queue' \in {queue, <<>>}
      PROVE  queue' \in Seq(1..policy.time) /\ Len(queue') \in Nat /\ Len(queue') <= Len(queue)
  <2>1. CASE queue' = queue
    BY <2>1, <1>0, <1>1
  <2>2. CASE queue' = <<>>
    <3>1. Len(queue') = 0
      BY <2>2, <1>1
    <3> QED
      BY <3>1, <2>2, <1>1
  <2> QED
    BY <1>5, <2>1, <2>2
<1>3. CASE \E p \in pending : Wake(p)
  <2>1. PICK p \in pending : Wake(p)
    BY <1>3
  <2>2. /\ UNCHANGED <<disk, published, guarded, phase, stop, suspended, thread, since, fresh,
                        history, now>>
        /\ pending' = pending \ {p} /\ slot' = (slot \/ ~stop)
        /\ Ends(p.thr) \/ UNCHANGED <<failed, queue, private>>
    BY <2>1 DEF Wake, TryWake
  <2>3. p.thr \in Publishers
    BY <1>0
  <2>4. failed' \subseteq Publishers /\ private' \in {0, private} /\ queue' \in {queue, <<>>}
    BY <2>2, <2>3, <1>0, <1>2
  <2>5. StopInv => phase # "joined"
    BY DEF StopInv
  <2>6. slot' \in BOOLEAN /\ (stop \/ slot')
    BY <2>2, <1>0
  <2>7. pending' \subseteq pending /\ orphans' \subseteq 1..MaxFiles /\ UNCHANGED <<removed, broken>>
    BY <2>2, <1>0 DEF history
  <2>8. queue' \in Seq(1..policy.time) /\ Len(queue') \in Nat /\ Len(queue') <= Len(queue)
    BY <2>4, <1>5
  <2> QED
    BY <2>2, <2>4, <2>5, <2>6, <2>7, <2>8
<1>4. CASE \E thr \in Publishers : PublisherFails(thr)
  <2>1. PICK thr \in Publishers : PublisherFails(thr)
    BY <1>4
  <2>2. /\ UNCHANGED <<disk, published, guarded, phase, slot, stop, suspended, thread, since, fresh,
                        removed, broken, now>>
        /\ pending' = {p \in pending : p.thr # thr}
        /\ orphans' = orphans \cup {p.path : p \in pending \ pending'}
        /\ Ends(thr) /\ phase # "joined"
    BY <2>1 DEF PublisherFails
  <2>3. OnTheWay' \cup orphans' = OnTheWay \cup orphans
    BY <2>2 DEF OnTheWay
  <2>4. orphans' \subseteq 1..MaxFiles
    BY <2>2, <1>0
  <2>5. failed' \subseteq Publishers /\ private' \in {0, private} /\ queue' \in {queue, <<>>}
    BY <2>2, <1>2
  <2>6. pending' \subseteq pending /\ slot' = slot /\ slot' \in BOOLEAN
    BY <2>2, <1>0
  <2>8. queue' \in Seq(1..policy.time) /\ Len(queue') \in Nat /\ Len(queue') <= Len(queue)
    BY <2>5, <1>5
  <2> QED
    BY <2>2, <2>3, <2>4, <2>5, <2>6, <2>8
<1> QED
  BY <1>3, <1>4 DEF PublisherGoes

\* Files keep the numbers they got.
LEMMA NextNumbered ==
    ASSUME TypeOK, Numbered, [Next]_vars
    PROVE  Numbered'
<1>0. /\ MaxFiles' = MaxFiles /\ MaxFiles \in Nat /\ IsFiniteSet(published)
      /\ Cardinality(published) \in Nat /\ Len(queue) \in Nat
      /\ Cardinality(published) + Len(queue) <= MaxFiles
      /\ \A c \in published : c.path \in Nat
  <2>1. MaxFiles \in Nat /\ MaxFiles' = MaxFiles
    BY PolicyTypes, PolicyStays DEF TypeOK, FileType
  <2>2. IsFiniteSet(published) /\ Cardinality(published) \in Nat
    BY FS_CardinalityType DEF Numbered
  <2> QED
    BY <2>1, <2>2 DEF TypeOK, FileType, Numbered, File
<1>1. ASSUME Capture PROVE Numbered'
  <2>1. /\ Len(queue') = Len(queue) + 1 /\ published' = published
        /\ Cardinality(published) + Len(queue) < MaxFiles
    BY <1>1 DEF Capture, files, TypeOK, FileType
  <2> QED
    BY <2>1, <1>0 DEF Numbered
<1>2. ASSUME NEW size \in policy.sizes, NEW guard \in BOOLEAN, WriteStill(size, guard)
      PROVE  Numbered'
  <2>1. /\ Head(queue) \in 1..policy.time /\ Len(queue) \in Nat \ {0}
        /\ Len(Tail(queue)) = Len(queue) - 1
    BY <1>2, HeadAndTail DEF WriteStill, TypeOK, FileType
  <2>2. Publish("still", Head(queue), size, guard) /\ queue' = Tail(queue)
    BY <1>2 DEF WriteStill
  <2>3. Cardinality(published) < MaxFiles
    BY <2>1, <1>0 DEF Numbered
  <2>4. /\ IsFiniteSet(published') /\ Cardinality(published') = Cardinality(published) + 1
        /\ \A c \in published' : c.path <= Cardinality(published')
        /\ \A c, d \in published' : c.path = d.path => c = d
    BY <2>1, <2>2, <2>3, PublishAddsFile DEF NewFile
  <2> QED
    BY <2>1, <2>2, <2>4, <1>0 DEF Numbered
<1>3. ASSUME NEW size \in policy.sizes, NEW guard \in BOOLEAN, FinishSegment(size, guard)
      PROVE  Numbered'
  <2>1. CASE VideoAdmitted(0)
    <3>1. /\ now \in 1..policy.time /\ Publish("video", now, size, guard) /\ queue' = queue
          /\ Cardinality(published) + Len(queue) < MaxFiles
      BY <1>3, <2>1 DEF FinishSegment, TypeOK, FileType
    <3>2. Cardinality(published) < MaxFiles
      BY <3>1, <1>0
    <3>3. /\ IsFiniteSet(published') /\ Cardinality(published') = Cardinality(published) + 1
          /\ \A c \in published' : c.path <= Cardinality(published')
          /\ \A c, d \in published' : c.path = d.path => c = d
      BY <3>1, <3>2, PublishAddsFile DEF NewFile
    <3> QED
      BY <3>1, <3>3, <1>0 DEF Numbered
  <2>2. CASE ~ VideoAdmitted(0)
    BY <1>3, <2>2, <1>0 DEF FinishSegment, Numbered
  <2> QED
    BY <2>1, <2>2
<1>4. ASSUME Spool PROVE Numbered'
  BY <1>4, <1>0 DEF Spool, Numbered, producers
<1>5. ASSUME PublisherGoes PROVE Numbered'
  BY <1>5, <1>0, PublisherLeavesFiles DEF Numbered
<1>6. ASSUME NEW path \in guarded, Acknowledge(path) PROVE Numbered'
  BY <1>6, <1>0 DEF Acknowledge, Numbered, producers
<1>7. ASSUME StopCapture PROVE Numbered'
  BY <1>7, <1>0 DEF StopCapture, Numbered, files
<1>8. ASSUME StopAndJoin PROVE Numbered'
  BY <1>8, <1>0 DEF StopAndJoin, Numbered, files
<1>9. ASSUME Receive PROVE Numbered'
  BY <1>9, <1>0 DEF Receive, Numbered, files, producers
<1>10. ASSUME ReadStop PROVE Numbered'
  BY <1>10, <1>0 DEF ReadStop, Numbered, files, producers
<1>11. ASSUME Probe PROVE Numbered'
  BY <1>11, <1>0 DEF Probe, Numbered, files, producers
<1>12. ASSUME Inventory PROVE Numbered'
  BY <1>12, <1>0 DEF Inventory, Numbered, files, producers
<1>13. ASSUME Delete PROVE Numbered'
  BY <1>13, <1>0 DEF Delete, Numbered, producers
<1>14. ASSUME PublishTelemetry PROVE Numbered'
  BY <1>14, <1>0 DEF PublishTelemetry, Numbered, files
<1>15. ASSUME CheckStop PROVE Numbered'
  BY <1>15, <1>0 DEF CheckStop, Numbered, files, producers
<1>16. ASSUME Timeout PROVE Numbered'
  BY <1>16, <1>0 DEF Timeout, Numbered, files, producers
<1>17. ASSUME SweepFails PROVE Numbered'
  BY <1>17, <1>0 DEF SweepFails, Numbered, files
<1>18. ASSUME Panic PROVE Numbered'
  BY <1>18, <1>0 DEF Panic, Numbered, files, producers
<1>19. ASSUME NEW c \in disk, OperatorDeletes(c) PROVE Numbered'
  BY <1>19, <1>0 DEF OperatorDeletes, Numbered, producers
<1>20. ASSUME Tick PROVE Numbered'
  BY <1>20, <1>0 DEF Tick, Numbered, files, producers
<1>21. CASE UNCHANGED vars
  BY <1>21, <1>0 DEF vars, Numbered, files, producers
<1> QED
  BY <1>1, <1>2, <1>3, <1>4, <1>5, <1>6, <1>7, <1>8, <1>9, <1>10, <1>11, <1>12, <1>13, <1>14,
     <1>15, <1>16, <1>17, <1>18, <1>19, <1>20, <1>21 DEF Next, Step, WorkerStep, PublisherGoes

\* A publication keeps the types of the files.
LEMMA PublishedIsTyped ==
    ASSUME FileType, NEW file, NEW thr, Published(file, thr), UNCHANGED policy
    PROVE  FileType'
<1>1. policy' \in Policies /\ now' \in 1..policy'.time /\ File' = File /\ MaxFiles' = MaxFiles
  BY DEF FileType, Published, File, MaxFiles
<1>2. disk' \subseteq published' /\ published' \subseteq File' /\ removed' \subseteq published'
  BY <1>1 DEF FileType, Published, history
<1>3. guarded' \subseteq 1..MaxFiles' /\ queue' \in Seq(1..policy'.time)
  BY <1>1 DEF Published
<1>4. private' \in 0..policy'.private /\ since' \in Nat /\ fresh' \in Nat
  <2>1. policy.private \in Nat
    BY PolicyTypes DEF FileType
  <2>2. private' \in 0..policy'.private
    BY <2>1 DEF FileType, Published
  <2>3. since' \in Nat
    BY DEF FileType, Published
  <2>4. fresh' \in Nat
    BY DEF FileType, Published
  <2> QED
    BY <2>2, <2>3, <2>4
<1>5. /\ pending' \subseteq [thr : Publishers, path : 1..MaxFiles']
      /\ failed' \subseteq Publishers /\ orphans' \subseteq 1..MaxFiles'
  <2>1. file.path \in 1..MaxFiles /\ thr \in Publishers
    BY DEF Published, File
  <2>2. [thr |-> thr, path |-> file.path] \in [thr : Publishers, path : 1..MaxFiles]
    BY <2>1
  <2> QED
    BY <2>2, <1>1 DEF FileType, Published, history
<1> QED
  BY <1>1, <1>2, <1>3, <1>4, <1>5 DEF FileType

\* Every step keeps the types.
LEMMA NextFileType ==
    ASSUME TypeOK, Numbered, StopInv, [Next]_vars
    PROVE  FileType'
<1>0. /\ FileType /\ policy' = policy /\ MaxFiles' = MaxFiles /\ File' = File
      /\ policy.private \in Nat /\ policy.time \in Nat \ {0}
  BY PolicyTypes, PolicyStays DEF TypeOK, FileType
<1>1. ASSUME Capture PROVE FileType'
  BY <1>1, <1>0 DEF Capture, FileType, files, history, Disturb
<1>2. ASSUME NEW size \in policy.sizes, NEW guard \in BOOLEAN, WriteStill(size, guard)
      PROVE  FileType'
  <2>1. PICK file, thr : Published(file, thr)
    BY <1>2, PublisherPublishes
  <2> QED
    BY <1>0, <2>1, PublishedIsTyped
<1>3. ASSUME NEW size \in policy.sizes, NEW guard \in BOOLEAN, FinishSegment(size, guard)
      PROVE  FileType'
  <2>1. CASE VideoAdmitted(0)
    <3>1. PICK file, thr : Published(file, thr)
      BY <1>3, <2>1, PublisherPublishes
    <3> QED
      BY <1>0, <3>1, PublishedIsTyped
  <2>2. CASE ~ VideoAdmitted(0)
    <3>1. /\ private' = 0
          /\ UNCHANGED <<disk, published, guarded, queue, pending, failed, since, fresh, history,
                         now>>
      BY <1>3, <2>2 DEF FinishSegment
    <3> QED
      BY <3>1, <1>0 DEF FileType, history
  <2> QED
    BY <2>1, <2>2
<1>4. ASSUME Spool PROVE FileType'
  <2>1. /\ private' \in {private, private + 1} /\ private < policy.private
        /\ (since' = since + 1 /\ fresh' = fresh + 1) \/ (since' = since /\ fresh' = fresh)
        /\ UNCHANGED <<disk, published, guarded, producers, history, now>>
    BY <1>4 DEF Spool, Added
  <2> QED
    BY <2>1, <1>0 DEF FileType, producers, history
<1>5. ASSUME PublisherGoes PROVE FileType'
  <2>1. private' \in 0..policy.private
    BY <1>5, <1>0, PublisherLeavesFiles DEF FileType
  <2> QED
    BY <1>5, <2>1, <1>0, PublisherLeavesFiles DEF FileType
<1>6. ASSUME NEW path \in guarded, Acknowledge(path) PROVE FileType'
  BY <1>6, <1>0 DEF Acknowledge, FileType, producers, history
<1>7. ASSUME StopCapture PROVE FileType'
  BY <1>7, <1>0 DEF StopCapture, FileType, files, history
<1>8. ASSUME StopAndJoin PROVE FileType'
  BY <1>8, <1>0 DEF StopAndJoin, FileType, files, history
<1>9. ASSUME Receive PROVE FileType'
  BY <1>9, <1>0 DEF Receive, FileType, files, producers, history
<1>10. ASSUME ReadStop PROVE FileType'
  BY <1>10, <1>0 DEF ReadStop, FileType, files, producers, history
<1>11. ASSUME Probe PROVE FileType'
  BY <1>11, <1>0 DEF Probe, FileType, files, producers, history
<1>12. ASSUME Inventory PROVE FileType'
  BY <1>12, <1>0 DEF Inventory, FileType, files, producers, history
<1>13. ASSUME Delete PROVE FileType'
  BY <1>13, <1>0 DEF Delete, FileType, producers, history, Disturb
<1>14. ASSUME PublishTelemetry PROVE FileType'
  BY <1>14, <1>0 DEF PublishTelemetry, FileType, files, history
<1>15. ASSUME CheckStop PROVE FileType'
  BY <1>15, <1>0 DEF CheckStop, FileType, files, producers, history
<1>16. ASSUME Timeout PROVE FileType'
  BY <1>16, <1>0 DEF Timeout, FileType, files, producers, history
<1>17. ASSUME SweepFails PROVE FileType'
  BY <1>17, <1>0 DEF SweepFails, FileType, files, Disturb
<1>18. ASSUME Panic PROVE FileType'
  BY <1>18, <1>0 DEF Panic, FileType, files, producers, Disturb
<1>19. ASSUME NEW c \in disk, OperatorDeletes(c) PROVE FileType'
  <2>1. /\ disk' = disk \ {c} /\ removed' = removed \cup {c}
        /\ UNCHANGED <<published, guarded, private, producers, since, fresh, orphans, now>>
    BY <1>19 DEF OperatorDeletes
  <2> QED
    BY <2>1, <1>0 DEF FileType, producers
<1>20. ASSUME Tick PROVE FileType'
  BY <1>20, <1>0 DEF Tick, FileType, files, producers, history
<1>21. CASE UNCHANGED vars
  BY <1>21, <1>0 DEF vars, FileType, files, producers, history
<1> QED
  BY <1>1, <1>2, <1>3, <1>4, <1>5, <1>6, <1>7, <1>8, <1>9, <1>10, <1>11, <1>12, <1>13, <1>14,
     <1>15, <1>16, <1>17, <1>18, <1>19, <1>20, <1>21 DEF Next, Step, WorkerStep, PublisherGoes

\* The thread's flags and positions keep their types.
LEMMA NextThreadType ==
    ASSUME TypeOK, Numbered, StopInv, [Next]_vars
    PROVE  ThreadType'
<1>0. /\ ThreadType /\ MaxFiles' = MaxFiles
      /\ {c.path : c \in disk} \subseteq 1..MaxFiles /\ HasByteQuota \in BOOLEAN
  BY PolicyStays DEF TypeOK, FileType, File, HasByteQuota
<1>1. ASSUME Capture PROVE ThreadType'
  BY <1>1, <1>0 DEF Capture, ThreadType, thread, history
<1>2. ASSUME NEW size \in policy.sizes, NEW guard \in BOOLEAN, WriteStill(size, guard)
      PROVE  ThreadType'
  <2>1. PICK file, thr : Published(file, thr)
    BY <1>2, PublisherPublishes
  <2> QED
    BY <1>0, <2>1 DEF ThreadType, Published, thread, history
<1>3. ASSUME NEW size \in policy.sizes, NEW guard \in BOOLEAN, FinishSegment(size, guard)
      PROVE  ThreadType'
  <2>1. CASE VideoAdmitted(0)
    <3>1. PICK file, thr : Published(file, thr)
      BY <1>3, <2>1, PublisherPublishes
    <3> QED
      BY <1>0, <3>1 DEF ThreadType, Published, thread, history
  <2>2. CASE ~ VideoAdmitted(0)
    BY <1>3, <2>2, <1>0 DEF FinishSegment, ThreadType, thread, history, TryWake
  <2> QED
    BY <2>1, <2>2
<1>4. ASSUME Spool PROVE ThreadType'
  BY <1>4, <1>0 DEF Spool, ThreadType, producers, thread, history, TryWake
<1>5. ASSUME PublisherGoes PROVE ThreadType'
  BY <1>5, <1>0, PublisherLeavesFiles DEF ThreadType, thread
<1>6. ASSUME NEW path \in guarded, Acknowledge(path) PROVE ThreadType'
  BY <1>6, <1>0 DEF Acknowledge, ThreadType, producers, thread, history
<1>7. ASSUME StopCapture PROVE ThreadType'
  BY <1>7, <1>0 DEF StopCapture, ThreadType, thread, history
<1>8. ASSUME StopAndJoin PROVE ThreadType'
  BY <1>8, <1>0 DEF StopAndJoin, ThreadType, thread, history
<1>9. ASSUME Receive PROVE ThreadType'
  BY <1>9, <1>0 DEF Receive, ThreadType, producers, history
<1>10. ASSUME ReadStop PROVE ThreadType'
  BY <1>10, <1>0 DEF ReadStop, ThreadType, producers, history
<1>11. ASSUME Probe PROVE ThreadType'
  BY <1>11, <1>0 DEF Probe, ThreadType, producers, history
<1>12. ASSUME Inventory PROVE ThreadType'
  BY <1>12, <1>0 DEF Inventory, ThreadType, producers, history
<1>13. ASSUME Delete PROVE ThreadType'
  BY <1>13, <1>0 DEF Delete, ThreadType, producers, history
<1>14. ASSUME PublishTelemetry PROVE ThreadType'
  BY <1>14, <1>0 DEF PublishTelemetry, ThreadType, history, AfterSweep
<1>15. ASSUME CheckStop PROVE ThreadType'
  BY <1>15, <1>0 DEF CheckStop, ThreadType, producers, history, Exit
<1>16. ASSUME Timeout PROVE ThreadType'
  BY <1>16, <1>0 DEF Timeout, ThreadType, producers, history
<1>17. ASSUME SweepFails PROVE ThreadType'
  BY <1>17, <1>0 DEF SweepFails, ThreadType, AfterSweep
<1>18. ASSUME Panic PROVE ThreadType'
  BY <1>18, <1>0 DEF Panic, ThreadType, producers, Exit
<1>19. ASSUME NEW c \in disk, OperatorDeletes(c) PROVE ThreadType'
  BY <1>19, <1>0 DEF OperatorDeletes, ThreadType, producers, thread
<1>20. ASSUME Tick PROVE ThreadType'
  BY <1>20, <1>0 DEF Tick, ThreadType, producers, thread, history
<1>21. CASE UNCHANGED vars
  BY <1>21, <1>0 DEF vars, ThreadType, producers, thread, history
<1> QED
  BY <1>1, <1>2, <1>3, <1>4, <1>5, <1>6, <1>7, <1>8, <1>9, <1>10, <1>11, <1>12, <1>13, <1>14,
     <1>15, <1>16, <1>17, <1>18, <1>19, <1>20, <1>21 DEF Next, Step, WorkerStep, PublisherGoes

\* A sweep deletes files that were published, and its count stays a number.
LEMMA NextSweepType ==
    ASSUME TypeOK, Numbered, [Next]_vars
    PROVE  SweepType'
<1>0. /\ SweepType /\ Free \in Nat /\ now \in Nat /\ private \in Nat /\ Bytes(disk) \in Nat
      /\ Listed(published) /\ Listed(disk) /\ Sized(published) /\ disk \in SUBSET published
  <2>1. /\ private \in Nat /\ policy.time \in Nat /\ Capacity \in Nat
        /\ disk \in SUBSET published
    BY PolicyTypes DEF TypeOK, FileType
  <2>2. Bytes(disk) \in Nat /\ Listed(disk) /\ Listed(published) /\ Sized(published)
    BY <2>1, FilesAreListed
  <2> QED
    BY <2>1, <2>2 DEF TypeOK, FileType, Free, SatSub
<1>1. ASSUME Capture PROVE SweepType'
  BY <1>1, <1>0 DEF Capture, SweepType, files, thread
<1>2. ASSUME NEW size \in policy.sizes, NEW guard \in BOOLEAN, WriteStill(size, guard)
      PROVE  SweepType'
  <2>1. sweep' = sweep /\ published \subseteq published'
    BY <1>2 DEF WriteStill, Publish, thread
  <2> QED
    BY <2>1, <1>0 DEF SweepType
<1>3. ASSUME NEW size \in policy.sizes, NEW guard \in BOOLEAN, FinishSegment(size, guard)
      PROVE  SweepType'
  <2>1. sweep' = sweep /\ published \subseteq published'
    BY <1>3 DEF FinishSegment, Publish, thread
  <2> QED
    BY <2>1, <1>0 DEF SweepType
<1>4. ASSUME Spool PROVE SweepType'
  BY <1>4, <1>0 DEF Spool, SweepType, thread
<1>5. ASSUME PublisherGoes PROVE SweepType'
  BY <1>5, <1>0, PublisherLeavesFiles DEF SweepType, thread
<1>6. ASSUME NEW path \in guarded, Acknowledge(path) PROVE SweepType'
  BY <1>6, <1>0 DEF Acknowledge, SweepType, thread
<1>7. ASSUME StopCapture PROVE SweepType'
  BY <1>7, <1>0 DEF StopCapture, SweepType, files, thread
<1>8. ASSUME StopAndJoin PROVE SweepType'
  BY <1>8, <1>0 DEF StopAndJoin, SweepType, files, thread
<1>9. ASSUME Receive PROVE SweepType'
  BY <1>9, <1>0 DEF Receive, SweepType, files
<1>10. ASSUME ReadStop PROVE SweepType'
  BY <1>10, <1>0 DEF ReadStop, SweepType, files
<1>11. ASSUME Probe PROVE SweepType'
  <2>1. PICK free \in {Free, None} : sweep' = [NoSweep EXCEPT !.now = now, !.free = free]
    BY <1>11 DEF Probe
  <2>2. free \in Limit
    BY <1>0 DEF Limit
  <2>3. sweep' = [now |-> now, free |-> free, managed |-> 0, todo |-> {}]
    BY <2>1 DEF NoSweep
  <2> QED
    BY <2>2, <2>3, <1>0 DEF SweepType
<1>12. ASSUME Inventory PROVE SweepType'
  <2> DEFINE protected == {c \in disk : c.path \in guarded}
             deletions == Plan(disk, protected, sweep.now, sweep.free, private)
  <2>1. /\ sweep' = [sweep EXCEPT !.managed = private + Bytes(disk), !.todo = deletions]
        /\ published' = published
    BY <1>12 DEF Inventory, files
  <2>2. deletions \subseteq Reclaimable(disk, protected)
    BY <1>0, PlanIsSelection
  <2>3. deletions \in SUBSET published
    BY <2>2, <1>0 DEF Reclaimable
  <2> HIDE DEF deletions
  <2>4. private + Bytes(disk) \in Nat
    BY <1>0
  <2> QED
    BY <2>1, <2>3, <2>4, <1>0 DEF SweepType
<1>13. ASSUME Delete PROVE SweepType'
  <2> DEFINE c == Oldest(sweep.todo)
  <2>1. PICK outcome \in {"absent", "deleted", "retained"} :
           sweep' = [sweep EXCEPT !.todo = sweep.todo \ {c},
                                  !.managed = ManagedAfter(outcome, sweep.managed, c)]
    BY <1>13 DEF Delete
  <2>2. published' = published /\ sweep.todo # {}
    BY <1>13 DEF Delete
  <2>3. c \in sweep.todo /\ c \in published
    BY <2>2, <1>0, OldestExists DEF SweepType
  <2>4. c.size \in Nat
    BY <2>3, <1>0 DEF Sized
  <2> HIDE DEF c
  <2>5. ManagedAfter(outcome, sweep.managed, c) \in Nat
    BY <2>4, <1>0 DEF SweepType, ManagedAfter, SatSub
  <2> QED
    BY <2>1, <2>2, <2>5, <1>0 DEF SweepType
<1>14. ASSUME PublishTelemetry PROVE SweepType'
  <2>1. sweep' = NoSweep
    BY <1>14 DEF PublishTelemetry, AfterSweep
  <2> QED
    BY <2>1 DEF SweepType, NoSweep, Limit
<1>15. ASSUME CheckStop PROVE SweepType'
  BY <1>15, <1>0 DEF CheckStop, SweepType, files
<1>16. ASSUME Timeout PROVE SweepType'
  BY <1>16, <1>0 DEF Timeout, SweepType, files
<1>17. ASSUME SweepFails PROVE SweepType'
  <2>1. sweep' = NoSweep
    BY <1>17 DEF SweepFails, AfterSweep
  <2> QED
    BY <2>1 DEF SweepType, NoSweep, Limit
<1>18. ASSUME Panic PROVE SweepType'
  BY <1>18, <1>0 DEF Panic, SweepType, files
<1>19. ASSUME NEW c \in disk, OperatorDeletes(c) PROVE SweepType'
  BY <1>19, <1>0 DEF OperatorDeletes, SweepType, thread
<1>20. ASSUME Tick PROVE SweepType'
  BY <1>20, <1>0 DEF Tick, SweepType, files, thread
<1>21. CASE UNCHANGED vars
  BY <1>21, <1>0 DEF vars, SweepType, files, thread
<1> QED
  BY <1>1, <1>2, <1>3, <1>4, <1>5, <1>6, <1>7, <1>8, <1>9, <1>10, <1>11, <1>12, <1>13, <1>14,
     <1>15, <1>16, <1>17, <1>18, <1>19, <1>20, <1>21 DEF Next, Step, WorkerStep, PublisherGoes

\* The type invariant is inductive, given the numbering and the stop protocol.
LEMMA NextType ==
    ASSUME TypeOK, Numbered, StopInv, [Next]_vars
    PROVE  TypeOK'
BY NextFileType, NextThreadType, NextSweepType DEF TypeOK

\* Every step keeps the stop protocol.
LEMMA NextStop ==
    ASSUME TypeOK, Numbered, StopInv, [Next]_vars
    PROVE  StopInv'
<1>0. StopInv /\ ThreadType
  BY DEF TypeOK
<1>1. ASSUME Capture PROVE StopInv'
  BY <1>1, <1>0 DEF Capture, StopInv, files, thread, history
<1>2. ASSUME NEW size \in policy.sizes, NEW guard \in BOOLEAN, WriteStill(size, guard)
      PROVE  StopInv'
  <2>1. PICK file, thr : Published(file, thr)
    BY <1>2, PublisherPublishes
  <2> QED
    BY <1>0, <2>1 DEF Published, StopInv, thread, history
<1>3. ASSUME NEW size \in policy.sizes, NEW guard \in BOOLEAN, FinishSegment(size, guard)
      PROVE  StopInv'
  <2>1. CASE VideoAdmitted(0)
    <3>1. PICK file, thr : Published(file, thr)
      BY <1>3, <2>1, PublisherPublishes
    <3> QED
      BY <1>0, <3>1 DEF Published, StopInv, thread, history
  <2>2. CASE ~ VideoAdmitted(0)
    BY <1>3, <2>2, <1>0 DEF FinishSegment, TryWake, StopInv, thread, history
  <2> QED
    BY <2>1, <2>2
<1>4. ASSUME Spool PROVE StopInv'
  BY <1>4, <1>0 DEF Spool, StopInv, producers, thread, history, TryWake
<1>5. ASSUME PublisherGoes PROVE StopInv'
  BY <1>5, <1>0, PublisherLeavesFiles DEF StopInv, thread
<1>6. ASSUME NEW path \in guarded, Acknowledge(path) PROVE StopInv'
  BY <1>6, <1>0 DEF Acknowledge, StopInv, producers, thread, history
<1>7. ASSUME StopCapture PROVE StopInv'
  BY <1>7, <1>0 DEF StopCapture, StopInv, files, thread, history
<1>8. ASSUME StopAndJoin PROVE StopInv'
  BY <1>8, <1>0 DEF StopAndJoin, StopInv, files, thread, history
<1>9. ASSUME Receive PROVE StopInv'
  BY <1>9, <1>0 DEF Receive, StopInv, files, producers, history
<1>10. ASSUME ReadStop PROVE StopInv'
  BY <1>10, <1>0 DEF ReadStop, StopInv, files, producers, history
<1>11. ASSUME Probe PROVE StopInv'
  BY <1>11, <1>0 DEF Probe, StopInv, files, producers, history
<1>12. ASSUME Inventory PROVE StopInv'
  BY <1>12, <1>0 DEF Inventory, StopInv, files, producers, history
<1>13. ASSUME Delete PROVE StopInv'
  BY <1>13, <1>0 DEF Delete, StopInv, producers, history
<1>14. ASSUME PublishTelemetry PROVE StopInv'
  BY <1>14, <1>0 DEF PublishTelemetry, StopInv, files, history, AfterSweep
<1>15. ASSUME CheckStop PROVE StopInv'
  BY <1>15, <1>0 DEF CheckStop, StopInv, files, producers, history, Exit, NeedsFinalSweep
<1>16. ASSUME Timeout PROVE StopInv'
  BY <1>16, <1>0 DEF Timeout, StopInv, files, producers, history
<1>17. ASSUME SweepFails PROVE StopInv'
  BY <1>17, <1>0 DEF SweepFails, StopInv, files, AfterSweep
<1>18. ASSUME Panic PROVE StopInv'
  BY <1>18, <1>0 DEF Panic, StopInv, files, producers, Exit
<1>19. ASSUME NEW c \in disk, OperatorDeletes(c) PROVE StopInv'
  BY <1>19, <1>0 DEF OperatorDeletes, StopInv, producers, thread
<1>20. ASSUME Tick PROVE StopInv'
  BY <1>20, <1>0 DEF Tick, StopInv, files, producers, thread, history
<1>21. CASE UNCHANGED vars
  BY <1>21, <1>0 DEF vars, StopInv, files, producers, thread, history
<1> QED
  BY <1>1, <1>2, <1>3, <1>4, <1>5, <1>6, <1>7, <1>8, <1>9, <1>10, <1>11, <1>12, <1>13, <1>14,
     <1>15, <1>16, <1>17, <1>18, <1>19, <1>20, <1>21 DEF Next, Step, WorkerStep, PublisherGoes

\* A publisher that has published is on the way to wake the thread.
LEMMA PublishedIsNoticed ==
    ASSUME MissedInv, NEW file, NEW thr, Published(file, thr)
    PROVE  MissedInv'
<1>1. /\ disk' = disk \cup {file} /\ phase # "joined"
      /\ pending' = pending \cup {[thr |-> thr, path |-> file.path]}
      /\ UNCHANGED <<slot, phase, pc, seen, orphans, broken>>
  BY DEF Published, thread, history
<1>2. OnTheWay \subseteq OnTheWay' /\ file.path \in OnTheWay'
  <2> DEFINE rec == [thr |-> thr, path |-> file.path]
  <2>1. rec \in pending' /\ rec.path = file.path /\ pending \subseteq pending'
    BY <1>1
  <2> HIDE DEF rec
  <2> QED
    BY <2>1 DEF OnTheWay
<1>3. \A c \in Missed' : c \in Missed \/ c = file
  BY <1>1 DEF Missed
<1> QED
  BY <1>1, <1>2, <1>3 DEF MissedInv

\* Every step leaves somebody to look at a file that the last inventory missed.
LEMMA NextMissed ==
    ASSUME TypeOK, Numbered, StopInv, MissedInv, [Next]_vars
    PROVE  MissedInv'
<1>0. StopInv /\ MissedInv /\ ThreadType
  BY DEF TypeOK
<1>1. ASSUME Capture PROVE MissedInv'
  BY <1>1, <1>0 DEF Capture, StopInv, MissedInv, Missed, OnTheWay, files, thread, history,
     NeedsFinalSweep
<1>2. ASSUME NEW size \in policy.sizes, NEW guard \in BOOLEAN, WriteStill(size, guard)
      PROVE  MissedInv'
  <2>1. PICK file, thr : Published(file, thr)
    BY <1>2, PublisherPublishes
  <2> QED
    BY <1>0, <2>1, PublishedIsNoticed
<1>3. ASSUME NEW size \in policy.sizes, NEW guard \in BOOLEAN, FinishSegment(size, guard)
      PROVE  MissedInv'
  <2>1. CASE VideoAdmitted(0)
    <3>1. PICK file, thr : Published(file, thr)
      BY <1>3, <2>1, PublisherPublishes
    <3> QED
      BY <1>0, <3>1, PublishedIsNoticed
  <2>2. CASE ~ VideoAdmitted(0)
    BY <1>3, <2>2, <1>0 DEF FinishSegment, TryWake, MissedInv, Missed, OnTheWay, NeedsFinalSweep,
       thread, history, StopInv
  <2> QED
    BY <2>1, <2>2
<1>4. ASSUME Spool PROVE MissedInv'
  BY <1>4, <1>0 DEF Spool, StopInv, MissedInv, Missed, OnTheWay, producers, thread, history, TryWake,
     NeedsFinalSweep
<1>5. ASSUME PublisherGoes PROVE MissedInv'
  BY <1>5, <1>0, PublisherLeavesFiles DEF StopInv, MissedInv, Missed, thread, NeedsFinalSweep
<1>6. ASSUME NEW path \in guarded, Acknowledge(path) PROVE MissedInv'
  BY <1>6, <1>0 DEF Acknowledge, StopInv, MissedInv, Missed, OnTheWay, producers, thread, history,
     NeedsFinalSweep
<1>7. ASSUME StopCapture PROVE MissedInv'
  BY <1>7, <1>0 DEF StopCapture, StopInv, MissedInv, Missed, OnTheWay, files, thread, history,
     NeedsFinalSweep
<1>8. ASSUME StopAndJoin PROVE MissedInv'
  BY <1>8, <1>0 DEF StopAndJoin, ThreadType, StopInv, MissedInv, Missed, OnTheWay, files, thread, history,
     NeedsFinalSweep
<1>9. ASSUME Receive PROVE MissedInv'
  BY <1>9, <1>0 DEF Receive, StopInv, MissedInv, Missed, OnTheWay, files, producers, history,
     NeedsFinalSweep
<1>10. ASSUME ReadStop PROVE MissedInv'
  BY <1>10, <1>0 DEF ReadStop, StopInv, MissedInv, Missed, OnTheWay, files, producers, history,
     NeedsFinalSweep
<1>11. ASSUME Probe PROVE MissedInv'
  BY <1>11, <1>0 DEF Probe, StopInv, MissedInv, Missed, OnTheWay, files, producers, history,
     NeedsFinalSweep
<1>12. ASSUME Inventory PROVE MissedInv'
  <2>1. /\ disk' = disk /\ seen' = {c.path : c \in disk}
    BY <1>12 DEF Inventory, files
  <2>2. Missed' = {}
    BY <2>1 DEF Missed
  <2> QED
    BY <2>2 DEF MissedInv
<1>13. ASSUME Delete PROVE MissedInv'
  <2>1. /\ disk' \subseteq disk
        /\ UNCHANGED <<seen, pending, orphans, slot, pc, phase, round, stopSeen, broken>>
    BY <1>13 DEF Delete, producers, history
  <2> QED
    BY <2>1, <1>0 DEF MissedInv, Missed, OnTheWay, NeedsFinalSweep
<1>14. ASSUME PublishTelemetry PROVE MissedInv'
  BY <1>14, <1>0 DEF PublishTelemetry, StopInv, MissedInv, Missed, OnTheWay, files, history,
     AfterSweep, NeedsFinalSweep
<1>15. ASSUME CheckStop PROVE MissedInv'
  BY <1>15, <1>0 DEF CheckStop, StopInv, MissedInv, Missed, OnTheWay, files, producers, history, Exit,
     NeedsFinalSweep
<1>16. ASSUME Timeout PROVE MissedInv'
  BY <1>16, <1>0 DEF Timeout, StopInv, MissedInv, Missed, OnTheWay, files, producers, history,
     NeedsFinalSweep
<1>17. ASSUME SweepFails PROVE MissedInv'
  BY <1>17, <1>0 DEF SweepFails, StopInv, MissedInv, Missed, OnTheWay, files, AfterSweep, NeedsFinalSweep
<1>18. ASSUME Panic PROVE MissedInv'
  BY <1>18, <1>0 DEF Panic, StopInv, MissedInv, Missed, OnTheWay, files, producers, Exit, NeedsFinalSweep
<1>19. ASSUME NEW c \in disk, OperatorDeletes(c) PROVE MissedInv'
  <2>1. /\ disk' \subseteq disk
        /\ UNCHANGED <<seen, pending, orphans, slot, pc, phase, round, stopSeen, broken>>
    BY <1>19 DEF OperatorDeletes, producers, thread
  <2> QED
    BY <2>1, <1>0 DEF MissedInv, Missed, OnTheWay, NeedsFinalSweep
<1>20. ASSUME Tick PROVE MissedInv'
  BY <1>20, <1>0 DEF Tick, StopInv, MissedInv, Missed, OnTheWay, files, producers, thread, history,
     NeedsFinalSweep
<1>21. CASE UNCHANGED vars
  BY <1>21, <1>0 DEF vars, StopInv, MissedInv, Missed, OnTheWay, files, producers, thread, history,
     NeedsFinalSweep
<1> QED
  BY <1>1, <1>2, <1>3, <1>4, <1>5, <1>6, <1>7, <1>8, <1>9, <1>10, <1>11, <1>12, <1>13, <1>14,
     <1>15, <1>16, <1>17, <1>18, <1>19, <1>20, <1>21 DEF Next, Step, WorkerStep, PublisherGoes

\* The numbers that the accounting compares.
LEMMA Amounts ==
    ASSUME TypeOK, Numbered
    PROVE  /\ disk \in SUBSET published /\ sweep.todo \in SUBSET published
           /\ Listed(published) /\ Listed(disk) /\ Sized(disk) /\ Sized(sweep.todo \ disk)
           /\ Bytes(disk) \in Nat /\ Bytes(sweep.todo \ disk) \in Nat /\ Bytes(sweep.todo) \in Nat
           /\ private \in Nat /\ since \in Nat /\ fresh \in Nat /\ sweep.managed \in Nat
           /\ MaxBytes \in Limit /\ MinFree \in Limit /\ None \notin Nat
           /\ Capacity \in Nat /\ Free \in Nat
<1>1. /\ disk \in SUBSET published /\ sweep.todo \in SUBSET published
      /\ since \in Nat /\ fresh \in Nat /\ sweep.managed \in Nat
  BY DEF TypeOK, FileType, SweepType
<1>2. /\ MaxBytes \in Limit /\ MinFree \in Limit /\ None \notin Nat /\ Capacity \in Nat
      /\ private \in Nat
  BY PolicyTypes DEF TypeOK, FileType
<1>3. /\ Listed(published) /\ Listed(disk) /\ Sized(disk) /\ Sized(sweep.todo \ disk)
      /\ Bytes(disk) \in Nat /\ Bytes(sweep.todo \ disk) \in Nat /\ Bytes(sweep.todo) \in Nat
  BY <1>1, FilesAreListed
<1>4. Free \in Nat
  BY <1>2, <1>3 DEF Free, SatSub
<1> QED
  BY <1>1, <1>2, <1>3, <1>4

\* A file about to be deleted keeps having a newer one.
LEMMA NextTodo ==
    ASSUME TypeOK, Numbered, StopInv, TodoInv, [Next]_vars
    PROVE  TodoInv'
<1>0. /\ TodoInv /\ SweepType /\ KeepLatest' = KeepLatest /\ KeepLatest \in BOOLEAN
      /\ Listed(disk) /\ disk \in SUBSET published /\ published \subseteq published'
  <2>1. published \subseteq published'
    BY DEF Next, Step, WorkerStep, vars, files, Capture, WriteStill, FinishSegment, Publish,
           Spool, Wake, PublisherFails, Acknowledge, StopCapture, StopAndJoin, Receive, ReadStop, Probe,
           Inventory, Delete, PublishTelemetry, CheckStop, Timeout, SweepFails, Panic,
           OperatorDeletes, Tick
  <2> QED
    BY <2>1, Amounts, PolicyStays, PolicyTypes DEF TypeOK, FileType
<1>1. ASSUME Capture PROVE TodoInv'
  BY <1>1, <1>0 DEF Capture, TodoInv, Older, thread
<1>2. ASSUME NEW size \in policy.sizes, NEW guard \in BOOLEAN, WriteStill(size, guard)
      PROVE  TodoInv'
  <2>1. PICK file, thr : Published(file, thr)
    BY <1>2, PublisherPublishes
  <2> QED
    BY <1>0, <2>1 DEF Published, TodoInv, Older, thread
<1>3. ASSUME NEW size \in policy.sizes, NEW guard \in BOOLEAN, FinishSegment(size, guard)
      PROVE  TodoInv'
  <2>1. CASE VideoAdmitted(0)
    <3>1. PICK file, thr : Published(file, thr)
      BY <1>3, <2>1, PublisherPublishes
    <3> QED
      BY <1>0, <3>1 DEF Published, TodoInv, Older, thread
  <2>2. CASE ~ VideoAdmitted(0)
    BY <1>3, <2>2, <1>0 DEF FinishSegment, TodoInv, Older, thread
  <2> QED
    BY <2>1, <2>2
<1>4. ASSUME Spool PROVE TodoInv'
  BY <1>4, <1>0 DEF Spool, TodoInv, Older, thread
<1>5. ASSUME PublisherGoes PROVE TodoInv'
  BY <1>5, <1>0, PublisherLeavesFiles DEF TodoInv, Older, thread
<1>6. ASSUME NEW path \in guarded, Acknowledge(path) PROVE TodoInv'
  BY <1>6, <1>0 DEF Acknowledge, TodoInv, Older, thread
<1>7. ASSUME StopCapture PROVE TodoInv'
  BY <1>7, <1>0 DEF StopCapture, TodoInv, Older, thread
<1>8. ASSUME StopAndJoin PROVE TodoInv'
  BY <1>8, <1>0 DEF StopAndJoin, TodoInv, Older, thread
<1>9. ASSUME Receive PROVE TodoInv'
  BY <1>9, <1>0 DEF Receive, TodoInv, Older
<1>10. ASSUME ReadStop PROVE TodoInv'
  BY <1>10, <1>0 DEF ReadStop, TodoInv, Older
<1>11. ASSUME Probe PROVE TodoInv'
  <2>1. sweep'.todo = {}
    BY <1>11 DEF Probe, NoSweep
  <2> QED
    BY <2>1 DEF TodoInv
<1>12. ASSUME Inventory PROVE TodoInv'
  <2> DEFINE protected == {c \in disk : c.path \in guarded}
             deletions == Plan(disk, protected, sweep.now, sweep.free, private)
  <2>1. sweep'.todo = deletions /\ published' = published
    BY <1>12, <1>0 DEF Inventory, files, SweepType
  <2>2. deletions \subseteq Reclaimable(disk, protected)
    BY <1>0, PlanIsSelection
  <2> HIDE DEF deletions
  <2>3. ASSUME KeepLatest, NEW c \in deletions PROVE \E d \in published : Older(c, d)
    <3>1. c \in disk /\ c \notin Kept(disk)
      BY <2>2, <2>3 DEF Reclaimable
    <3>2. PICK d \in disk : d # c /\ ~ Older(d, c)
      BY <2>3, <3>1 DEF Kept
    <3> QED
      BY <1>0, <3>1, <3>2, OrderIsTotal
  <2> QED
    BY <2>1, <2>3, <1>0 DEF TodoInv, Older
<1>13. ASSUME Delete PROVE TodoInv'
  <2>1. sweep'.todo \subseteq sweep.todo /\ published' = published
    BY <1>13, <1>0 DEF Delete, SweepType
  <2> QED
    BY <2>1, <1>0 DEF TodoInv, Older
<1>14. ASSUME PublishTelemetry PROVE TodoInv'
  <2>1. sweep'.todo = {}
    BY <1>14 DEF PublishTelemetry, AfterSweep, NoSweep
  <2> QED
    BY <2>1 DEF TodoInv
<1>15. ASSUME CheckStop PROVE TodoInv'
  BY <1>15, <1>0 DEF CheckStop, TodoInv, Older
<1>16. ASSUME Timeout PROVE TodoInv'
  BY <1>16, <1>0 DEF Timeout, TodoInv, Older
<1>17. ASSUME SweepFails PROVE TodoInv'
  <2>1. sweep'.todo = {}
    BY <1>17 DEF SweepFails, AfterSweep, NoSweep
  <2> QED
    BY <2>1 DEF TodoInv
<1>18. ASSUME Panic PROVE TodoInv'
  BY <1>18, <1>0 DEF Panic, TodoInv, Older
<1>19. ASSUME NEW c \in disk, OperatorDeletes(c) PROVE TodoInv'
  BY <1>19, <1>0 DEF OperatorDeletes, TodoInv, Older, thread
<1>20. ASSUME Tick PROVE TodoInv'
  BY <1>20, <1>0 DEF Tick, TodoInv, Older, thread
<1>21. CASE UNCHANGED vars
  BY <1>21, <1>0 DEF vars, TodoInv, Older, thread
<1> QED
  BY <1>1, <1>2, <1>3, <1>4, <1>5, <1>6, <1>7, <1>8, <1>9, <1>10, <1>11, <1>12, <1>13, <1>14,
     <1>15, <1>16, <1>17, <1>18, <1>19, <1>20, <1>21 DEF Next, Step, WorkerStep, PublisherGoes

\* The newest file stays.
LEMMA NextNewest ==
    ASSUME TypeOK, Numbered, StopInv, TodoInv, NewestIsKept, [Next]_vars
    PROVE  NewestIsKept'
<1>0. /\ TodoInv /\ NewestIsKept /\ KeepLatest' = KeepLatest
      /\ Listed(published) /\ disk \in SUBSET published /\ sweep.todo \in SUBSET published
  BY Amounts, PolicyStays
<1>1. ASSUME Capture PROVE NewestIsKept'
  BY <1>1, <1>0 DEF Capture, NewestIsKept, Older, files, history
<1>2. ASSUME NEW size \in policy.sizes, NEW guard \in BOOLEAN, WriteStill(size, guard)
      PROVE  NewestIsKept'
  <2>1. PICK file, thr : Published(file, thr)
    BY <1>2, PublisherPublishes
  <2> QED
    BY <1>0, <2>1 DEF Published, NewestIsKept, Older, history
<1>3. ASSUME NEW size \in policy.sizes, NEW guard \in BOOLEAN, FinishSegment(size, guard)
      PROVE  NewestIsKept'
  <2>1. CASE VideoAdmitted(0)
    <3>1. PICK file, thr : Published(file, thr)
      BY <1>3, <2>1, PublisherPublishes
    <3> QED
      BY <1>0, <3>1 DEF Published, NewestIsKept, Older, history
  <2>2. CASE ~ VideoAdmitted(0)
    BY <1>3, <2>2, <1>0 DEF FinishSegment, NewestIsKept, Older, history
  <2> QED
    BY <2>1, <2>2
<1>4. ASSUME Spool PROVE NewestIsKept'
  BY <1>4, <1>0 DEF Spool, NewestIsKept, Older, history
<1>5. ASSUME PublisherGoes PROVE NewestIsKept'
  BY <1>5, <1>0, PublisherLeavesFiles DEF NewestIsKept, Older
<1>6. ASSUME NEW path \in guarded, Acknowledge(path) PROVE NewestIsKept'
  BY <1>6, <1>0 DEF Acknowledge, NewestIsKept, Older, history
<1>7. ASSUME StopCapture PROVE NewestIsKept'
  BY <1>7, <1>0 DEF StopCapture, NewestIsKept, Older, files, history
<1>8. ASSUME StopAndJoin PROVE NewestIsKept'
  BY <1>8, <1>0 DEF StopAndJoin, NewestIsKept, Older, files, history
<1>9. ASSUME Receive PROVE NewestIsKept'
  BY <1>9, <1>0 DEF Receive, NewestIsKept, Older, files, history
<1>10. ASSUME ReadStop PROVE NewestIsKept'
  BY <1>10, <1>0 DEF ReadStop, NewestIsKept, Older, files, history
<1>11. ASSUME Probe PROVE NewestIsKept'
  BY <1>11, <1>0 DEF Probe, NewestIsKept, Older, files, history
<1>12. ASSUME Inventory PROVE NewestIsKept'
  BY <1>12, <1>0 DEF Inventory, NewestIsKept, Older, files, history
<1>13. ASSUME Delete PROVE NewestIsKept'
  <2> DEFINE c == Oldest(sweep.todo)
  <2>1. /\ disk' = disk \/ disk' = disk \ {c}
        /\ sweep.todo # {} /\ UNCHANGED <<published, removed>>
    BY <1>13 DEF Delete, history
  <2>2. c \in sweep.todo /\ c \in published
    <3>1. c \in sweep.todo
      BY <1>0, <2>1, OldestExists
    <3> QED
      BY <1>0, <3>1
  <2> HIDE DEF c
  <2>3. KeepLatest => \E d \in published : Older(c, d)
    BY <1>0, <2>2 DEF TodoInv
  <2>4. KeepLatest => ~ \A d \in published : d = c \/ Older(d, c)
    BY <1>0, <2>2, <2>3, OrderIsTotal
  <2> QED
    BY <1>0, <2>1, <2>4 DEF NewestIsKept, Older
<1>14. ASSUME PublishTelemetry PROVE NewestIsKept'
  BY <1>14, <1>0 DEF PublishTelemetry, NewestIsKept, Older, files, history
<1>15. ASSUME CheckStop PROVE NewestIsKept'
  BY <1>15, <1>0 DEF CheckStop, NewestIsKept, Older, files, history
<1>16. ASSUME Timeout PROVE NewestIsKept'
  BY <1>16, <1>0 DEF Timeout, NewestIsKept, Older, files, history
<1>17. ASSUME SweepFails PROVE NewestIsKept'
  BY <1>17, <1>0 DEF SweepFails, NewestIsKept, Older, files
<1>18. ASSUME Panic PROVE NewestIsKept'
  BY <1>18, <1>0 DEF Panic, NewestIsKept, Older, files
<1>19. ASSUME NEW c \in disk, OperatorDeletes(c) PROVE NewestIsKept'
  BY <1>19, <1>0 DEF OperatorDeletes, NewestIsKept, Older
<1>20. ASSUME Tick PROVE NewestIsKept'
  BY <1>20, <1>0 DEF Tick, NewestIsKept, Older, files, history
<1>21. CASE UNCHANGED vars
  BY <1>21, <1>0 DEF vars, NewestIsKept, Older, files, history
<1> QED
  BY <1>1, <1>2, <1>3, <1>4, <1>5, <1>6, <1>7, <1>8, <1>9, <1>10, <1>11, <1>12, <1>13, <1>14,
     <1>15, <1>16, <1>17, <1>18, <1>19, <1>20, <1>21 DEF Next, Step, WorkerStep, PublisherGoes


\* A sweep's count stays an upper bound of what there is.
LEMMA NextManaged ==
    ASSUME TypeOK, Numbered, StopInv, ManagedInv, [Next]_vars
    PROVE  ManagedInv'
<1>0. /\ ManagedInv /\ SweepType
      /\ disk \in SUBSET published /\ sweep.todo \in SUBSET published
      /\ Listed(published) /\ Listed(disk) /\ Sized(disk) /\ Sized(sweep.todo \ disk)
      /\ Bytes(disk) \in Nat /\ Bytes(sweep.todo \ disk) \in Nat
      /\ private \in Nat /\ since \in Nat /\ sweep.managed \in Nat
  BY Amounts DEF TypeOK
<1>1. ASSUME Capture PROVE ManagedInv'
  BY <1>1, <1>0 DEF Capture, ManagedInv, files, thread
<1>2. ASSUME NEW size \in policy.sizes, NEW guard \in BOOLEAN, WriteStill(size, guard)
      PROVE  ManagedInv'
  <2>1. PICK file, thr : Published(file, thr)
    BY <1>2, PublisherPublishes
  <2>2. Bytes(disk') = Bytes(disk) + file.size /\ file.size \in Nat
    <3>1. file \notin disk
      BY <1>0, <2>1 DEF Published
    <3> QED
      BY <1>0, <2>1, <3>1, BytesWith DEF Published
  <2>3. sweep'.managed = sweep.managed /\ sweep'.todo \ disk' = sweep.todo \ disk
    BY <1>0, <2>1 DEF Published, thread
  <2>4. pc' = pc /\ since' = since + file.size /\ private' \in {0, private}
    BY <2>1 DEF Published, thread
  <2>5. Bytes(sweep'.todo \ disk') = Bytes(sweep.todo \ disk)
    BY <2>3, Zenon
  <2> QED
    BY <1>0, <2>2, <2>3, <2>4, <2>5 DEF ManagedInv
<1>3. ASSUME NEW size \in policy.sizes, NEW guard \in BOOLEAN, FinishSegment(size, guard)
      PROVE  ManagedInv'
  <2>1. CASE VideoAdmitted(0)
    <3>1. PICK file, thr : Published(file, thr)
      BY <1>3, <2>1, PublisherPublishes
    <3>2. Bytes(disk') = Bytes(disk) + file.size /\ file.size \in Nat
      <4>1. file \notin disk
        BY <1>0, <3>1 DEF Published
      <4> QED
        BY <1>0, <3>1, <4>1, BytesWith DEF Published
    <3>3. sweep'.managed = sweep.managed /\ sweep'.todo \ disk' = sweep.todo \ disk
      BY <1>0, <3>1 DEF Published, thread
    <3>4. pc' = pc /\ since' = since + file.size /\ private' \in {0, private}
      BY <3>1 DEF Published, thread
    <3>5. Bytes(sweep'.todo \ disk') = Bytes(sweep.todo \ disk)
      BY <3>3, Zenon
    <3> QED
      BY <1>0, <3>2, <3>3, <3>4, <3>5 DEF ManagedInv
  <2>2. CASE ~ VideoAdmitted(0)
    <3>1. private' = 0 /\ UNCHANGED <<disk, since, thread>>
      BY <1>3, <2>2 DEF FinishSegment
    <3> QED
      BY <3>1, <1>0 DEF ManagedInv, thread
  <2> QED
    BY <2>1, <2>2
<1>4. ASSUME Spool PROVE ManagedInv'
  <2>1. /\ (private' = private + 1 /\ since' = since + 1) \/ (private' = private /\ since' = since)
        /\ UNCHANGED <<disk, thread>>
    BY <1>4 DEF Spool, Added
  <2> QED
    BY <2>1, <1>0 DEF ManagedInv, thread
<1>5. ASSUME PublisherGoes PROVE ManagedInv'
  BY <1>5, <1>0, PublisherLeavesFiles DEF ManagedInv, thread
<1>6. ASSUME NEW path \in guarded, Acknowledge(path) PROVE ManagedInv'
  BY <1>6, <1>0 DEF Acknowledge, ManagedInv, thread
<1>7. ASSUME StopCapture PROVE ManagedInv'
  BY <1>7, <1>0 DEF StopCapture, ManagedInv, files, thread
<1>8. ASSUME StopAndJoin PROVE ManagedInv'
  BY <1>8, <1>0 DEF StopAndJoin, ManagedInv, files, thread
<1>9. ASSUME Receive PROVE ManagedInv'
  BY <1>9, <1>0 DEF Receive, ManagedInv, files
<1>10. ASSUME ReadStop PROVE ManagedInv'
  BY <1>10, <1>0 DEF ReadStop, ManagedInv, files
<1>11. ASSUME Probe PROVE ManagedInv'
  BY <1>11, <1>0 DEF Probe, ManagedInv, files
<1>12. ASSUME Inventory PROVE ManagedInv'
  <2> DEFINE protected == {c \in disk : c.path \in guarded}
             deletions == Plan(disk, protected, sweep.now, sweep.free, private)
  <2>1. /\ sweep'.todo = deletions /\ sweep'.managed = private + Bytes(disk) /\ since' = 0
        /\ disk' = disk /\ private' = private
    BY <1>12, <1>0 DEF Inventory, files, SweepType
  <2>2. deletions \subseteq Reclaimable(disk, protected)
    BY <1>0, PlanIsSelection
  <2> HIDE DEF deletions
  <2>3. sweep'.todo \ disk' = {}
    BY <2>1, <2>2 DEF Reclaimable
  <2> QED
    BY <2>1, <2>3, <1>0, BytesEmpty DEF ManagedInv
<1>13. ASSUME Delete PROVE ManagedInv'
  <2> DEFINE c == Oldest(sweep.todo)
  <2>1. PICK outcome \in {"absent", "deleted", "retained"} :
           /\ outcome = "absent" <=> c \notin disk
           /\ disk' = IF outcome = "deleted" THEN disk \ {c} ELSE disk
           /\ sweep' = [sweep EXCEPT !.todo = sweep.todo \ {c},
                                     !.managed = ManagedAfter(outcome, sweep.managed, c)]
    BY <1>13 DEF Delete
  <2>2. pc = "delete" /\ sweep.todo # {} /\ private' = private /\ since' = since
    BY <1>13 DEF Delete
  <2>3. c \in sweep.todo /\ c.size \in Nat
    <3>1. c \in sweep.todo
      BY <1>0, <2>2, OldestExists
    <3> QED
      BY <1>0, <3>1 DEF Listed, Sized
  <2> HIDE DEF c
  <2>4. sweep'.todo = sweep.todo \ {c} /\ sweep'.managed = ManagedAfter(outcome, sweep.managed, c)
    BY <2>1, <1>0 DEF SweepType
  <2>5. private + Bytes(disk) + Bytes(sweep.todo \ disk) <= sweep.managed + since
    BY <1>0, <2>2 DEF ManagedInv
  <2>6. CASE outcome = "absent"
    <3>1. disk' = disk /\ sweep'.todo \ disk' = (sweep.todo \ disk) \ {c} /\ c \in sweep.todo \ disk
      BY <2>1, <2>3, <2>4, <2>6
    <3>2. /\ Bytes(sweep.todo \ disk) = Bytes((sweep.todo \ disk) \ {c}) + c.size
          /\ Bytes((sweep.todo \ disk) \ {c}) \in Nat
      BY <1>0, <3>1, BytesWithout
    <3>3. /\ Bytes(sweep.todo \ disk) = Bytes(sweep'.todo \ disk') + c.size
          /\ Bytes(sweep'.todo \ disk') \in Nat
      BY <3>1, <3>2, Zenon
    <3>4. sweep'.managed = SatSub(sweep.managed, c.size)
      BY <2>4, <2>6 DEF ManagedAfter
    <3> QED
      BY <1>0, <2>2, <2>3, <2>5, <3>1, <3>3, <3>4 DEF ManagedInv, SatSub
  <2>7. CASE outcome = "deleted"
    <3>1. c \in disk /\ disk' = disk \ {c} /\ sweep'.todo \ disk' = sweep.todo \ disk
      BY <2>1, <2>3, <2>4, <2>7
    <3>2. Bytes(disk) = Bytes(disk') + c.size /\ Bytes(disk') \in Nat
      BY <1>0, <3>1, BytesWithout
    <3>3. sweep'.managed = SatSub(sweep.managed, c.size)
      BY <2>4, <2>7 DEF ManagedAfter
    <3>4. Bytes(sweep'.todo \ disk') = Bytes(sweep.todo \ disk)
      BY <3>1, Zenon
    <3> QED
      BY <1>0, <2>2, <2>3, <2>5, <3>2, <3>3, <3>4 DEF ManagedInv, SatSub
  <2>8. CASE outcome = "retained"
    <3>1. disk' = disk /\ sweep'.todo \ disk' = sweep.todo \ disk /\ sweep'.managed = sweep.managed
      BY <2>1, <2>3, <2>4, <2>8 DEF ManagedAfter
    <3> QED
      BY <1>0, <2>2, <2>5, <3>1 DEF ManagedInv
  <2> QED
    BY <2>1, <2>6, <2>7, <2>8
<1>14. ASSUME PublishTelemetry PROVE ManagedInv'
  BY <1>14, <1>0 DEF PublishTelemetry, ManagedInv, files, AfterSweep
<1>15. ASSUME CheckStop PROVE ManagedInv'
  BY <1>15, <1>0 DEF CheckStop, ManagedInv, files, Exit
<1>16. ASSUME Timeout PROVE ManagedInv'
  BY <1>16, <1>0 DEF Timeout, ManagedInv, files
<1>17. ASSUME SweepFails PROVE ManagedInv'
  BY <1>17, <1>0 DEF SweepFails, ManagedInv, files, AfterSweep
<1>18. ASSUME Panic PROVE ManagedInv'
  BY <1>18, <1>0 DEF Panic, ManagedInv, files, Exit
<1>19. ASSUME NEW c \in disk, OperatorDeletes(c) PROVE ManagedInv'
  <2>1. disk' = disk \ {c} /\ UNCHANGED <<private, since, thread>>
    BY <1>19 DEF OperatorDeletes
  <2>2. Bytes(disk) = Bytes(disk') + c.size /\ Bytes(disk') \in Nat /\ c.size \in Nat
    BY <1>0, <2>1, BytesWithout
  <2>3. CASE c \in sweep.todo
    <3>1. c \notin sweep.todo \ disk /\ sweep.todo \ disk' = (sweep.todo \ disk) \cup {c}
      BY <2>1, <2>3
    <3>2. Bytes(sweep.todo \ disk') = Bytes(sweep.todo \ disk) + c.size
      BY <1>0, <2>2, <3>1, BytesWith
    <3>3. pc' = pc /\ sweep' = sweep
      BY <2>1 DEF thread
    <3>4. Bytes(sweep'.todo \ disk') = Bytes(sweep.todo \ disk')
      BY <3>3, Zenon
    <3> QED
      BY <1>0, <2>1, <2>2, <3>2, <3>3, <3>4 DEF ManagedInv
  <2>4. CASE c \notin sweep.todo
    <3>1. /\ sweep'.todo \ disk' = sweep.todo \ disk
          /\ pc' = pc /\ sweep'.managed = sweep.managed
      BY <2>1, <2>4 DEF thread
    <3>2. Bytes(sweep'.todo \ disk') = Bytes(sweep.todo \ disk)
      BY <3>1, Zenon
    <3> QED
      BY <1>0, <2>1, <2>2, <3>1, <3>2 DEF ManagedInv
  <2> QED
    BY <2>3, <2>4
<1>20. ASSUME Tick PROVE ManagedInv'
  BY <1>20, <1>0 DEF Tick, ManagedInv, files, thread
<1>21. CASE UNCHANGED vars
  BY <1>21, <1>0 DEF vars, ManagedInv, files, thread
<1> QED
  BY <1>1, <1>2, <1>3, <1>4, <1>5, <1>6, <1>7, <1>8, <1>9, <1>10, <1>11, <1>12, <1>13, <1>14,
     <1>15, <1>16, <1>17, <1>18, <1>19, <1>20, <1>21 DEF Next, Step, WorkerStep, PublisherGoes


\* While capture goes on, the directory stays within its quotas.
LEMMA NextQuotas ==
    ASSUME TypeOK, Numbered, StopInv, ManagedInv, WithinQuotas, [Next]_vars
    PROVE  WithinQuotas'
<1>0. /\ ManagedInv /\ WithinQuotas /\ MaxBytes' = MaxBytes /\ MinFree' = MinFree
      /\ MaxBytes \in Limit /\ MinFree \in Limit /\ None \notin Nat /\ Limit = Nat \cup {None}
      /\ disk \in SUBSET published /\ Sized(disk) /\ Bytes(disk) \in Nat
      /\ private \in Nat /\ since \in Nat /\ fresh \in Nat /\ sweep.managed \in Nat
      /\ Capacity \in Nat /\ Free \in Nat
  BY Amounts, PolicyStays DEF Limit
<1>1. ASSUME Capture PROVE WithinQuotas'
  BY <1>1, <1>0 DEF Capture, WithinQuotas, Suspended, Free, files
<1>2. ASSUME NEW size \in policy.sizes, NEW guard \in BOOLEAN, WriteStill(size, guard)
      PROVE  WithinQuotas'
  <2>1. PICK file, thr : Published(file, thr)
    BY <1>2, PublisherPublishes
  <2>2. Bytes(disk') = Bytes(disk) + file.size /\ file.size \in Nat
    <3>1. file \notin disk
      BY <1>0, <2>1 DEF Published
    <3> QED
      BY <1>0, <2>1, <3>1, BytesWith DEF Published
  <2>3. /\ fresh' = fresh + file.size /\ private' \in {0, private} /\ file.size <= Free
        /\ UNCHANGED <<stop, suspended>>
    BY <2>1 DEF Published
  <2> QED
    BY <1>0, <2>2, <2>3 DEF WithinQuotas, Suspended, Free, SatSub
<1>3. ASSUME NEW size \in policy.sizes, NEW guard \in BOOLEAN, FinishSegment(size, guard)
      PROVE  WithinQuotas'
  <2>1. CASE VideoAdmitted(0)
    <3>1. PICK file, thr : Published(file, thr)
      BY <1>3, <2>1, PublisherPublishes
    <3>2. Bytes(disk') = Bytes(disk) + file.size /\ file.size \in Nat
      <4>1. file \notin disk
        BY <1>0, <3>1 DEF Published
      <4> QED
        BY <1>0, <3>1, <4>1, BytesWith DEF Published
    <3>3. /\ fresh' = fresh + file.size /\ private' \in {0, private} /\ file.size <= Free
          /\ UNCHANGED <<stop, suspended>>
      BY <3>1 DEF Published
    <3> QED
      BY <1>0, <3>2, <3>3 DEF WithinQuotas, Suspended, Free, SatSub
  <2>2. CASE ~ VideoAdmitted(0)
    <3>1. private' = 0 /\ UNCHANGED <<disk, fresh, stop, suspended>>
      BY <1>3, <2>2 DEF FinishSegment
    <3> QED
      BY <3>1, <1>0 DEF WithinQuotas, Suspended, Free, SatSub
  <2> QED
    BY <2>1, <2>2
<1>4. ASSUME Spool PROVE WithinQuotas'
  <2>1. /\ (private' = private + 1 /\ fresh' = fresh + 1) \/ (private' = private /\ fresh' = fresh)
        /\ UNCHANGED <<disk, stop, suspended>>
    BY <1>4 DEF Spool, Added
  <2> QED
    BY <2>1, <1>0 DEF WithinQuotas, Suspended, Free, SatSub
<1>5. ASSUME PublisherGoes PROVE WithinQuotas'
  BY <1>5, <1>0, PublisherLeavesFiles DEF WithinQuotas, Suspended, Free, SatSub
<1>6. ASSUME NEW path \in guarded, Acknowledge(path) PROVE WithinQuotas'
  BY <1>6, <1>0 DEF Acknowledge, WithinQuotas, Suspended, Free
<1>7. ASSUME StopCapture PROVE WithinQuotas'
  BY <1>7, <1>0 DEF StopCapture, WithinQuotas, Suspended, Free, files
<1>8. ASSUME StopAndJoin PROVE WithinQuotas'
  BY <1>8, <1>0 DEF StopAndJoin, WithinQuotas, Suspended, Free, files
<1>9. ASSUME Receive PROVE WithinQuotas'
  BY <1>9, <1>0 DEF Receive, WithinQuotas, Suspended, Free, files
<1>10. ASSUME ReadStop PROVE WithinQuotas'
  BY <1>10, <1>0 DEF ReadStop, WithinQuotas, Suspended, Free, files
<1>11. ASSUME Probe PROVE WithinQuotas'
  BY <1>11, <1>0 DEF Probe, WithinQuotas, Suspended, Free, files
<1>12. ASSUME Inventory PROVE WithinQuotas'
  BY <1>12, <1>0 DEF Inventory, WithinQuotas, Suspended, Free, files
<1>13. ASSUME Delete PROVE WithinQuotas'
  <2> DEFINE c == Oldest(sweep.todo)
  <2>1. /\ disk' = disk \/ disk' = disk \ {c}
        /\ UNCHANGED <<private, fresh, stop, suspended>>
    BY <1>13 DEF Delete
  <2> HIDE DEF c
  <2>2. Bytes(disk') \in Nat /\ Bytes(disk') <= Bytes(disk)
    <3>1. CASE c \in disk /\ disk' = disk \ {c}
      BY <1>0, <3>1, BytesWithout
    <3>2. CASE disk' = disk
      BY <1>0, <3>2
    <3> QED
      BY <2>1, <3>1, <3>2
  <2> QED
    BY <1>0, <2>1, <2>2 DEF WithinQuotas, Suspended, Free, SatSub
<1>14. ASSUME PublishTelemetry PROVE WithinQuotas'
  <2>1. PICK free \in {Free, None} : suspended' = ~QuotasSatisfied(sweep.managed, free)
    BY <1>14 DEF PublishTelemetry
  <2>2. pc = "delete" /\ sweep.todo = {} /\ fresh' = since /\ UNCHANGED <<disk, private, stop>>
    BY <1>14 DEF PublishTelemetry, files
  <2>3. Bytes(sweep.todo \ disk) = 0
    <3>1. sweep.todo \ disk = {}
      BY <2>2
    <3> QED
      BY <3>1, BytesEmpty, Zenon
  <2>4. private + Bytes(disk) <= sweep.managed + since
    BY <1>0, <2>2, <2>3 DEF ManagedInv
  <2>5. Free' = Free /\ Bytes(disk') = Bytes(disk)
    BY <2>2 DEF Free
  <2>6. SUFFICES ASSUME ~ Suspended' PROVE WithinQuotas'
    BY DEF WithinQuotas
  <2>7. QuotasSatisfied(sweep.managed, free)
    BY <2>1, <2>6 DEF Suspended
  <2>8. MaxBytes # None => Bytes(disk) + private <= MaxBytes + since
    BY <1>0, <2>4, <2>7 DEF QuotasSatisfied
  <2>9. MinFree # None => Free + since >= MinFree
    BY <1>0, <2>1, <2>7 DEF QuotasSatisfied
  <2> QED
    BY <1>0, <2>2, <2>5, <2>8, <2>9 DEF WithinQuotas
<1>15. ASSUME CheckStop PROVE WithinQuotas'
  <2>1. stop' \/ UNCHANGED <<disk, private, fresh, stop, suspended>>
    BY <1>15 DEF CheckStop, Exit, files
  <2> QED
    BY <1>0, <2>1 DEF WithinQuotas, Suspended, Free
<1>16. ASSUME Timeout PROVE WithinQuotas'
  BY <1>16, <1>0 DEF Timeout, WithinQuotas, Suspended, Free, files
<1>17. ASSUME SweepFails PROVE WithinQuotas'
  <2>1. suspended' = HasByteQuota
    BY <1>17 DEF SweepFails
  <2> QED
    BY <1>0, <2>1 DEF WithinQuotas, Suspended, HasByteQuota
<1>18. ASSUME Panic PROVE WithinQuotas'
  BY <1>18, <1>0 DEF Panic, WithinQuotas, Suspended, Free, files, Exit
<1>19. ASSUME NEW c \in disk, OperatorDeletes(c) PROVE WithinQuotas'
  <2>1. disk' = disk \ {c} /\ UNCHANGED <<private, fresh, stop, suspended>>
    BY <1>19 DEF OperatorDeletes
  <2>2. Bytes(disk) = Bytes(disk') + c.size /\ Bytes(disk') \in Nat /\ c.size \in Nat
    BY <1>0, <2>1, BytesWithout
  <2> QED
    BY <1>0, <2>1, <2>2 DEF WithinQuotas, Suspended, Free, SatSub
<1>20. ASSUME Tick PROVE WithinQuotas'
  BY <1>20, <1>0 DEF Tick, WithinQuotas, Suspended, Free, files
<1>21. CASE UNCHANGED vars
  BY <1>21, <1>0 DEF vars, WithinQuotas, Suspended, Free, files
<1> QED
  BY <1>1, <1>2, <1>3, <1>4, <1>5, <1>6, <1>7, <1>8, <1>9, <1>10, <1>11, <1>12, <1>13, <1>14,
     <1>15, <1>16, <1>17, <1>18, <1>19, <1>20, <1>21 DEF Next, Step, WorkerStep, PublisherGoes

\* PlanIsExact of a given plan.
ExactPlan(inventory, protected, time, free, spool, deletions) ==
    LET reclaimable == Reclaimable(inventory, protected)
        aged == Aged(reclaimable, time)
        extra == deletions \ aged
    IN  /\ aged \subseteq deletions /\ deletions \subseteq reclaimable
        /\ \A c \in extra : /\ \A d \in reclaimable : Older(d, c) => d \in deletions
                            /\ ~ Enough(inventory, free, spool,
                                        aged \cup {d \in extra : Older(d, c)})
        /\ Enough(inventory, free, spool, deletions) \/ deletions = reclaimable

\* The empty plan is exact.
LEMMA NoPlanIsExact == ExactPlan({}, {}, 0, None, 0, {})
BY DEF ExactPlan, Reclaimable, Aged, Kept

\* A plan is exact after a step if it is by the configuration before it.
LEMMA PlanPrimed ==
    ASSUME policy' = policy
    PROVE  PlanIsExact' <=> ExactPlan(plan'.inventory, plan'.protected, plan'.now, plan'.free,
                                      plan'.private, plan'.deletions)
BY DEF PlanIsExact, ExactPlan, Reclaimable, Kept, Aged, Enough, KnownQuotasSatisfied, MaxAge,
   MaxBytes, MinFree, KeepLatest

\* Every plan is exact.
LEMMA NextPlanExact ==
    ASSUME TypeOK, Numbered, PlanIsExact, [Next]_vars
    PROVE  PlanIsExact'
<1>0. /\ Listed(disk)
      /\ ExactPlan(plan.inventory, plan.protected, plan.now, plan.free, plan.private,
                   plan.deletions)
      /\ PlanIsExact' <=> ExactPlan(plan'.inventory, plan'.protected, plan'.now, plan'.free,
                                    plan'.private, plan'.deletions)
  BY Amounts, PolicyStays, PlanPrimed DEF PlanIsExact, ExactPlan
<1>1. ASSUME Capture PROVE PlanIsExact'
  BY <1>1, <1>0 DEF Capture, thread
<1>2. ASSUME NEW size \in policy.sizes, NEW guard \in BOOLEAN, WriteStill(size, guard)
      PROVE  PlanIsExact'
  BY <1>2, <1>0 DEF WriteStill, thread
<1>3. ASSUME NEW size \in policy.sizes, NEW guard \in BOOLEAN, FinishSegment(size, guard)
      PROVE  PlanIsExact'
  BY <1>3, <1>0 DEF FinishSegment, thread
<1>4. ASSUME Spool PROVE PlanIsExact'
  BY <1>4, <1>0 DEF Spool, thread
<1>5. ASSUME PublisherGoes PROVE PlanIsExact'
  BY <1>5, <1>0, PublisherLeavesFiles DEF thread
<1>6. ASSUME NEW path \in guarded, Acknowledge(path) PROVE PlanIsExact'
  BY <1>6, <1>0 DEF Acknowledge, thread
<1>7. ASSUME StopCapture PROVE PlanIsExact'
  BY <1>7, <1>0 DEF StopCapture, thread
<1>8. ASSUME StopAndJoin PROVE PlanIsExact'
  BY <1>8, <1>0 DEF StopAndJoin, thread
<1>9. ASSUME Receive PROVE PlanIsExact'
  BY <1>9, <1>0 DEF Receive, thread
<1>10. ASSUME ReadStop PROVE PlanIsExact'
  BY <1>10, <1>0 DEF ReadStop, thread
<1>11. ASSUME Probe PROVE PlanIsExact'
  BY <1>11, <1>0 DEF Probe, thread
<1>12. ASSUME Inventory PROVE PlanIsExact'
  <2> DEFINE protected == {c \in disk : c.path \in guarded}
             D == Plan(disk, protected, sweep.now, sweep.free, private)
             reclaimable == Reclaimable(disk, protected)
             aged == Aged(reclaimable, sweep.now)
  <2>1. plan' = [inventory |-> disk, protected |-> protected, now |-> sweep.now,
                 free |-> sweep.free, private |-> private, deletions |-> D]
    BY <1>12 DEF Inventory
  <2>2. /\ Exact(disk, sweep.free, private, aged, reclaimable \ aged, D)
        /\ aged \subseteq reclaimable /\ D \subseteq reclaimable
    BY <1>0, PlanIsSelection
  <2>3. aged \cup (reclaimable \ aged) = reclaimable
    BY <2>2
  <2> HIDE DEF D, aged, reclaimable, protected
  <2>4. /\ aged \subseteq D /\ D \subseteq reclaimable
        /\ \A c \in D \ aged :
              /\ \A d \in reclaimable : Older(d, c) => d \in D
              /\ ~ Enough(disk, sweep.free, private, aged \cup {d \in D \ aged : Older(d, c)})
        /\ Enough(disk, sweep.free, private, D) \/ D = reclaimable
    BY <2>2, <2>3 DEF Exact
  <2>5. ExactPlan(disk, protected, sweep.now, sweep.free, private, D)
    BY <2>4 DEF ExactPlan, reclaimable, aged
  <2> QED
    BY <1>0, <2>1, <2>5
<1>13. ASSUME Delete PROVE PlanIsExact'
  BY <1>13, <1>0 DEF Delete, thread
<1>14. ASSUME PublishTelemetry PROVE PlanIsExact'
  <2>1. plan' = NoPlan
    BY <1>14 DEF PublishTelemetry, AfterSweep
  <2>2. ExactPlan({}, {}, 0, None, 0, {})
    BY NoPlanIsExact
  <2> QED
    BY <1>0, <2>1, <2>2 DEF NoPlan
<1>15. ASSUME CheckStop PROVE PlanIsExact'
  BY <1>15, <1>0 DEF CheckStop, thread
<1>16. ASSUME Timeout PROVE PlanIsExact'
  BY <1>16, <1>0 DEF Timeout, thread
<1>17. ASSUME SweepFails PROVE PlanIsExact'
  <2>1. plan' = NoPlan
    BY <1>17 DEF SweepFails, AfterSweep
  <2>2. ExactPlan({}, {}, 0, None, 0, {})
    BY NoPlanIsExact
  <2> QED
    BY <1>0, <2>1, <2>2 DEF NoPlan
<1>18. ASSUME Panic PROVE PlanIsExact'
  BY <1>18, <1>0 DEF Panic, thread
<1>19. ASSUME NEW c \in disk, OperatorDeletes(c) PROVE PlanIsExact'
  BY <1>19, <1>0 DEF OperatorDeletes, thread
<1>20. ASSUME Tick PROVE PlanIsExact'
  BY <1>20, <1>0 DEF Tick, thread
<1>21. CASE UNCHANGED vars
  BY <1>21, <1>0 DEF vars, thread
<1> QED
  BY <1>1, <1>2, <1>3, <1>4, <1>5, <1>6, <1>7, <1>8, <1>9, <1>10, <1>11, <1>12, <1>13, <1>14,
     <1>15, <1>16, <1>17, <1>18, <1>19, <1>20, <1>21 DEF Next, Step, WorkerStep, PublisherGoes

\* Initially everything is empty.
LEMMA InitInd == Init => IndInv
<1>1. SUFFICES ASSUME Init PROVE IndInv
  OBVIOUS
<1>2. /\ policy.time \in Nat \ {0} /\ policy.private \in Nat /\ MaxFiles \in Nat
      /\ None \notin Nat /\ Capacity \in Nat /\ policy \in Policies
  BY <1>1, PolicyTypes DEF Init
<1>3. TypeOK
  <2>1. FileType
    BY <1>1, <1>2 DEF Init, FileType
  <2>2. ThreadType
    BY <1>1 DEF Init, ThreadType
  <2>3. SweepType
    BY <1>1 DEF Init, SweepType, NoSweep, Limit
  <2> QED
    BY <2>1, <2>2, <2>3 DEF TypeOK
<1>4. Numbered
  <2>1. published = {} /\ Len(queue) = 0
    BY <1>1 DEF Init
  <2>2. IsFiniteSet({}) /\ Cardinality({}) = 0
    BY FS_EmptySet
  <2> QED
    BY <1>2, <2>1, <2>2 DEF Numbered
<1>5. StopInv /\ MissedInv /\ ManagedInv /\ TodoInv
  BY <1>1 DEF Init, StopInv, MissedInv, ManagedInv, TodoInv, NoSweep
<1>6. NewestIsKept /\ WithinQuotas
  BY <1>1 DEF Init, NewestIsKept, WithinQuotas, Suspended
<1>7. PlanIsExact
  <2>1. plan = NoPlan
    BY <1>1 DEF Init
  <2> QED
    BY <2>1, NoPlanIsExact DEF PlanIsExact, ExactPlan, NoPlan
<1> QED
  BY <1>3, <1>4, <1>5, <1>6, <1>7 DEF IndInv

\* Every step keeps the inductive invariant.
LEMMA NextInd == IndInv /\ [Next]_vars => IndInv'
BY NextType, NextNumbered, NextStop, NextMissed, NextManaged, NextTodo, NextPlanExact,
   NextNewest, NextQuotas DEF IndInv

-----------------------------------------------------------------------------
(* The theorems. *)

\* Every reachable state satisfies the inductive invariant: no step of the sweep, of the
\* stop protocol or of a publisher breaks the conjuncts the properties need.
THEOREM Invariance == Spec => []IndInv
BY InitInd, NextInd, PTL DEF Spec

\* Every variable has its type; in particular a sweep only deletes files that were
\* published, whatever its plan says.
THEOREM TypeCorrect == Spec => []TypeOK
<1>1. IndInv => TypeOK
  BY DEF IndInv
<1> QED
  BY <1>1, Invariance, PTL

\* plan_with_private_bytes takes everything reclaimable that is old enough, beyond that
\* the oldest files, none that the quotas did not require, and as many as they require:
\* for any inventory, sizes, ages and quotas, a failed free-space probe included.
THEOREM PlansAreExact == Spec => []PlanIsExact
<1>1. IndInv => PlanIsExact
  BY DEF IndInv
<1> QED
  BY <1>1, Invariance, PTL

\* keep_latest holds across sweeps whose inventory other threads have outrun: what a
\* sweep deletes had a newer file when it planned, and published files only get more.
THEOREM TheNewestIsKept == Spec => []NewestIsKept
<1>1. IndInv => NewestIsKept
  BY DEF IndInv
<1> QED
  BY <1>1, Invariance, PTL

\* While capture_suspended is clear, the directory is within max_bytes and min_free but
\* for what was added after the inventory of the sweep that cleared it.
THEOREM QuotasHold == Spec => []WithinQuotas
<1>1. IndInv => WithinQuotas
  BY DEF IndInv
<1> QED
  BY <1>1, Invariance, PTL

\* Neither a wake that try_wake coalesced nor the stop of an epoch (RetentionStopOnDrop,
\* stop_and_join) leaves a file that no sweep has seen, although writer_loop and
\* finish_segment may fail between publishing a file and try_wake: until the next sweep
\* that file alone may be unseen, and the last sweep has seen it.
THEOREM NoFileIsMissed == Spec => []NoFileMissed
<1>1. IndInv => NoFileMissed
  BY DEF IndInv, MissedInv, Missed, OnTheWay, NoFileMissed, FinalSweepSawAll, NoLostWake
<1> QED
  BY <1>1, Invariance, PTL

=============================================================================

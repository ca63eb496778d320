------------------------- MODULE Registration_proofs -------------------------
(***************************************************************************)
(* Proofs about Registration: which keys an attach hooks, which reduction  *)
(* each of them runs, which accumulator its hooks share, which files are   *)
(* left on the disk and what becomes of a seed.                            *)
(***************************************************************************)
EXTENDS Registration, FiniteSetTheorems, SequenceTheorems, WellFoundedInduction, TLAPS

(***************************************************************************)
(* Least elements, with which the recursions of the library's sequence     *)
(* operators are followed without an induction principle.                  *)
(***************************************************************************)
Least(S) == CHOOSE i \in S : \A j \in S : i <= j

LEMMA LeastIs ==
  ASSUME NEW S \in SUBSET Nat, S # {}
  PROVE  Least(S) \in S /\ \A j \in S : Least(S) <= j
<1> DEFINE less == {p \in Nat \X Nat : p[1] < p[2]}
<1>1. IsWellFoundedOn(less, Nat)
  BY NatLessThanWellFounded, Zenon DEF OpToRel
<1> HIDE DEF less
<1>2. PICK i \in S : \A j \in S : <<j, i>> \notin less
  BY <1>1, WFMin, Zenon
<1>3. ASSUME NEW j \in S PROVE i <= j
  <2>1. <<j, i>> \in less <=> j < i
    BY DEF less
  <2> QED
    BY <1>2, <2>1
<1> QED
  BY <1>3 DEF Least

LEMMA MaxIs ==
  ASSUME NEW n \in Nat, NEW S \in SUBSET (1 .. n), S # {}
  PROVE  Max(S) \in S /\ \A j \in S : j <= Max(S)
<1> DEFINE T == {n - i : i \in S}
<1>1. T \in SUBSET Nat /\ T # {}
  <2>1. \A i \in S : i \in Nat /\ i <= n
    OBVIOUS
  <2>2. \A i \in S : n - i \in Nat
    BY <2>1
  <2> QED
    BY <2>2, Zenon
<1>2. Least(T) \in T /\ \A j \in T : Least(T) <= j
  <2> HIDE DEF T
  <2> QED
    BY <1>1, LeastIs
<1>3. PICK m \in S : Least(T) = n - m
  BY <1>2
<1>4. ASSUME NEW j \in S PROVE m >= j
  <2>1. n - j \in T
    OBVIOUS
  <2> QED
    <3>1. m \in Nat /\ j \in Nat
      OBVIOUS
    <3> HIDE DEF T
    <3>2. n - m <= n - j
      BY <1>2, <1>3, <2>1, Zenon
    <3> QED
      BY <3>1, <3>2
<1> QED
  BY <1>4 DEF Max

-----------------------------------------------------------------------------
(***************************************************************************)
(* The scan of _reductions finds the first registration that matches.      *)
(***************************************************************************)
HitsIn(s, l) == {i \in s : l \in NameMatches[perLayer[i][2]]}
FirstHit(s, l) == IF HitsIn(s, l) = {} THEN global ELSE perLayer[Least(HitsIn(s, l))][1]

\* A per-layer registration is never the global default's file.
PathsInv == \A i \in DOMAIN perLayer : perLayer[i][1] # global

ScanStep(path, entry, l) ==
  IF path # global THEN path
  ELSE IF l \in NameMatches[entry[2]] THEN entry[1] ELSE path

LEMMA ScanOne ==
  ASSUME NEW l, PathsInv, perLayer \in Seq(Nat \X Patterns),
         NEW s \in SUBSET DOMAIN perLayer, s # {}
  PROVE  FirstHit(s, l) = ScanStep(FirstHit(s \ {Max(s)}, l), perLayer[Max(s)], l)
<1> DEFINE m == Max(s)
           H == HitsIn(s, l)
           G == HitsIn(s \ {m}, l)
<1>1. m \in s /\ \A j \in s : j <= m
  <2>1. Len(perLayer) \in Nat /\ DOMAIN perLayer = 1 .. Len(perLayer)
    OBVIOUS
  <2> QED
    BY <2>1, MaxIs
<1>2. H \in SUBSET Nat /\ G \in SUBSET Nat /\ G = H \ {m} /\ H \subseteq s
  BY DEF HitsIn
<1> HIDE DEF m
<1>3. m \in H <=> l \in NameMatches[perLayer[m][2]]
  BY <1>1 DEF HitsIn
<1> HIDE DEF H, G
<1>4. FirstHit(s, l) = IF H = {} THEN global ELSE perLayer[Least(H)][1]
  BY DEF FirstHit, H
<1>5. FirstHit(s \ {m}, l) = IF G = {} THEN global ELSE perLayer[Least(G)][1]
  BY DEF FirstHit, G
<1>6. CASE G # {}
  <2>1. /\ Least(G) \in G /\ \A j \in G : Least(G) <= j
        /\ Least(H) \in H /\ \A j \in H : Least(H) <= j
    BY <1>2, <1>6, LeastIs
  <2>2. Least(H) = Least(G)
    <3>1. Least(G) \in H /\ Least(G) # m
      BY <1>2, <2>1
    <3>2. Least(G) \in Nat /\ m \in Nat /\ Least(H) \in Nat
      BY <1>2, <1>1, <2>1
    <3>3. Least(G) < m
      BY <1>1, <1>2, <3>1, <3>2
    <3>4. Least(H) \in G /\ Least(H) <= Least(G)
      BY <1>2, <2>1, <3>1, <3>2, <3>3
    <3>5. Least(G) <= Least(H)
      BY <2>1, <3>4
    <3> QED
      BY <3>2, <3>4, <3>5
  <2>3. perLayer[Least(G)][1] # global
    BY <1>2, <2>1 DEF PathsInv
  <2> QED
    BY <1>4, <1>5, <1>6, <1>2, <2>2, <2>3 DEF ScanStep, m
<1>7. CASE G = {} /\ m \in H
  <2>1. H = {m}
    BY <1>2, <1>7
  <2>2. Least(H) = m
    BY <1>2, <2>1, LeastIs
  <2> QED
    BY <1>3, <1>4, <1>5, <1>7, <2>2 DEF ScanStep, m
<1>8. CASE G = {} /\ m \notin H
  <2>1. H = {}
    BY <1>2, <1>8
  <2> QED
    BY <1>3, <1>4, <1>5, <1>8, <2>1 DEF ScanStep, m
<1> QED
  BY <1>6, <1>7, <1>8

LEMMA ScanFinds ==
  ASSUME NEW l, PathsInv, perLayer \in Seq(Nat \X Patterns)
  PROVE  ResolvePath(l) = FirstHit(DOMAIN perLayer, l)
<1> DEFINE D == DOMAIN perLayer
           Body(f) == [s \in SUBSET D |->
                         IF s = {} THEN global
                         ELSE ScanStep(f[s \ {Max(s)}], perLayer[Max(s)], l)]
           known == [s \in SUBSET D |-> FirstHit(s, l)]
           iter == CHOOSE f : f = Body(f)
<1>1. known = Body(known)
  <2>1. ASSUME NEW s \in SUBSET D, s = {} PROVE known[s] = Body(known)[s]
    <3>1. FirstHit({}, l) = global
      BY DEF FirstHit, HitsIn
    <3> QED
      BY <2>1, <3>1, Zenon
  <2>2. ASSUME NEW s \in SUBSET D, s # {} PROVE known[s] = Body(known)[s]
    <3>1. s \ {Max(s)} \in SUBSET D
      OBVIOUS
    <3>2. known[s \ {Max(s)}] = FirstHit(s \ {Max(s)}, l)
      BY <3>1, Zenon
    <3>3. FirstHit(s, l) = ScanStep(FirstHit(s \ {Max(s)}, l), perLayer[Max(s)], l)
      BY <2>2, ScanOne
    <3> HIDE DEF known
    <3>4. Body(known)[s] = ScanStep(known[s \ {Max(s)}], perLayer[Max(s)], l)
      BY <2>2, Zenon
    <3>5. known[s] = FirstHit(s, l)
      BY Zenon DEF known
    <3> QED
      BY <3>2, <3>3, <3>4, <3>5, Zenon
  <2>3. \A s \in SUBSET D : known[s] = Body(known)[s]
    BY <2>1, <2>2, Zenon
  <2>4. known = [s \in SUBSET D |-> known[s]] /\ Body(known) = [s \in SUBSET D |-> Body(known)[s]]
    BY Zenon
  <2> QED
    BY <2>3, <2>4, Zenon
<1>2. iter = Body(iter)
  <2> HIDE DEF known, Body
  <2> QED
    BY <1>1, Zenon
<1>3. ResolvePath(l) = iter[D]
  BY Zenon DEF ResolvePath, FoldLeft, MapThenFoldSet, ScanStep
<1> HIDE DEF iter
<1>4. iter[{}] = global
  BY <1>2, Zenon
<1>5. ASSUME NEW s \in SUBSET D, s # {}
      PROVE  iter[s] = ScanStep(iter[s \ {Max(s)}], perLayer[Max(s)], l)
  BY <1>2, <1>5, Zenon
<1>6. Len(perLayer) \in Nat /\ D = 1 .. Len(perLayer)
  OBVIOUS
<1> DEFINE Wrong == {n \in 0 .. Len(perLayer) : iter[1 .. n] # FirstHit(1 .. n, l)}
<1>7. ASSUME Wrong # {} PROVE FALSE
  <2> DEFINE n == Least(Wrong)
  <2>1. n \in Wrong /\ \A j \in Wrong : n <= j
    <3>1. Wrong \in SUBSET Nat
      BY <1>6
    <3> HIDE DEF Wrong
    <3> QED
      BY <1>7, <3>1, LeastIs
  <2> HIDE DEF n
  <2>2. n # 0
    <3>1. 1 .. 0 = {}
      OBVIOUS
    <3>2. FirstHit(1 .. 0, l) = global
      BY <3>1, Zenon DEF FirstHit, HitsIn
    <3> QED
      BY <1>4, <2>1, <3>1, <3>2
  <2>3. n \in 1 .. Len(perLayer) /\ n - 1 \in 0 .. Len(perLayer)
    BY <1>6, <2>1, <2>2
  <2>4. 1 .. n \in SUBSET D /\ 1 .. n # {}
    <3>1. \A i \in 1 .. n : i \in 1 .. Len(perLayer)
      BY <1>6, <2>3
    <3>2. n \in 1 .. n
      BY <2>3
    <3> QED
      BY <1>6, <3>1, <3>2
  <2>5. Max(1 .. n) = n
    <3>1. n \in Nat /\ n \in 1 .. n
      BY <2>3
    <3>2. Max(1 .. n) \in 1 .. n /\ \A j \in 1 .. n : j <= Max(1 .. n)
      BY <3>1, MaxIs
    <3> QED
      BY <3>1, <3>2
  <2>6. (1 .. n) \ {n} = 1 .. (n - 1)
    BY <2>3
  <2>7. iter[1 .. n] = ScanStep(iter[1 .. (n - 1)], perLayer[n], l)
    BY <1>5, <2>4, <2>5, <2>6, Zenon
  <2>8. FirstHit(1 .. n, l) = ScanStep(FirstHit(1 .. (n - 1), l), perLayer[n], l)
    BY <2>4, <2>5, <2>6, ScanOne, Zenon
  <2>9. n - 1 \notin Wrong
    BY <2>1, <2>3
  <2>10. iter[1 .. (n - 1)] = FirstHit(1 .. (n - 1), l)
    BY <2>3, <2>9
  <2> QED
    BY <2>1, <2>7, <2>8, <2>10
<1> QED
  BY <1>3, <1>6, <1>7

-----------------------------------------------------------------------------
(***************************************************************************)
(* The layers attach() selects, and the keys it sets up for them.          *)
(***************************************************************************)
Kept(P, found, l) == IF l \in P THEN Append(found, l) ELSE found
Filter(P, s) == FoldLeft(LAMBDA found, l : Kept(P, found, l), <<>>, s)
FilterBody(P, s, n, f) ==
  [t \in SUBSET (1 .. n) |->
     IF t = {} THEN <<>> ELSE Kept(P, f[t \ {Max(t)}], s[Max(t)])]

LEMMA FilterExists ==
  ASSUME NEW P, NEW s, NEW n \in Nat
  PROVE  \E f : f = FilterBody(P, s, n, f)
<1> DEFINE Wrong == {m \in Nat : ~ \E f : f = FilterBody(P, s, m, f)}
<1>1. ASSUME Wrong # {} PROVE FALSE
  <2> DEFINE m == Least(Wrong)
  <2>1. m \in Wrong /\ \A j \in Wrong : m <= j
    <3>1. Wrong \in SUBSET Nat
      OBVIOUS
    <3> HIDE DEF Wrong
    <3> QED
      BY <1>1, <3>1, LeastIs
  <2> HIDE DEF m
  <2>2. CASE m = 0
    <3> DEFINE f == [t \in SUBSET (1 .. 0) |-> <<>>]
    <3>1. 1 .. 0 = {}
      OBVIOUS
    <3>2. \A t \in SUBSET (1 .. 0) : t = {}
      BY <3>1
    <3>3. f = FilterBody(P, s, 0, f)
      BY <3>2 DEF FilterBody
    <3> QED
      BY <2>1, <2>2, <3>3
  <2>3. CASE m # 0
    <3>1. m - 1 \in Nat /\ m - 1 \notin Wrong /\ m \in Nat
      BY <2>1, <2>3
    <3>2. PICK f : f = FilterBody(P, s, m - 1, f)
      BY <3>1
    <3> DEFINE g == [t \in SUBSET (1 .. m) |->
                       IF m \in t THEN Kept(P, f[t \ {m}], s[m]) ELSE f[t]]
    <3>3. ASSUME NEW t \in SUBSET (1 .. m)
          PROVE  g[t] = IF t = {} THEN <<>> ELSE Kept(P, g[t \ {Max(t)}], s[Max(t)])
      <4>1. CASE m \in t
        <5>1. Max(t) = m
          <6>1. Max(t) \in t /\ \A j \in t : j <= Max(t)
            BY <3>1, <4>1, MaxIs
          <6>2. Max(t) \in 1 .. m
            BY <6>1
          <6>3. Max(t) \in Nat /\ Max(t) <= m
            BY <3>1, <6>2
          <6> QED
            BY <3>1, <4>1, <6>1, <6>3
        <5>2. t \ {m} \in SUBSET (1 .. m) /\ m \notin t \ {m}
          OBVIOUS
        <5>3. g[t \ {m}] = f[t \ {m}]
          BY <5>2, Zenon
        <5>4. g[t] = Kept(P, f[t \ {m}], s[m])
          BY <4>1, Zenon
        <5> QED
          BY <4>1, <5>1, <5>3, <5>4
      <4>2. CASE m \notin t
        <5>1. t \in SUBSET (1 .. (m - 1))
          BY <3>1, <4>2
        <5>2. f[t] = IF t = {} THEN <<>> ELSE Kept(P, f[t \ {Max(t)}], s[Max(t)])
          BY <3>2, <5>1, Zenon DEF FilterBody
        <5>3. t \ {Max(t)} \in SUBSET (1 .. m) /\ m \notin t \ {Max(t)}
          BY <4>2
        <5>4. g[t] = f[t]
          BY <4>2, Zenon
        <5>5. g[t \ {Max(t)}] = f[t \ {Max(t)}]
          BY <5>3, Zenon
        <5> QED
          BY <5>2, <5>4, <5>5, Zenon
      <4> QED
        BY <4>1, <4>2
    <3>4. g = [t \in SUBSET (1 .. m) |-> g[t]]
      BY Zenon
    <3> HIDE DEF g
    <3>5. g = FilterBody(P, s, m, g)
      BY <3>3, <3>4, Zenon DEF FilterBody
    <3> QED
      BY <2>1, <3>5
  <2> QED
    BY <2>2, <2>3
<1> QED
  BY <1>1

\* Selecting layers from a sequence of names gives a sequence of names.
LEMMA FilterType ==
  ASSUME NEW P, NEW S, NEW s \in Seq(S)
  PROVE  Filter(P, s) \in Seq(S)
<1> DEFINE iter == CHOOSE f : f = FilterBody(P, s, Len(s), f)
<1>1. Len(s) \in Nat /\ DOMAIN s = 1 .. Len(s)
  OBVIOUS
<1>2. Filter(P, s) = iter[1 .. Len(s)]
  BY <1>1, Zenon DEF Filter, FoldLeft, MapThenFoldSet, FilterBody
<1>3. iter = FilterBody(P, s, Len(s), iter)
  BY <1>1, FilterExists, Zenon
<1> HIDE DEF iter
<1>4. iter[{}] = <<>>
  BY <1>3, Zenon DEF FilterBody
<1>5. ASSUME NEW t \in SUBSET (1 .. Len(s)), t # {}
      PROVE  iter[t] = Kept(P, iter[t \ {Max(t)}], s[Max(t)])
  BY <1>3, <1>5, Zenon DEF FilterBody
<1> DEFINE Wrong == {n \in 0 .. Len(s) : iter[1 .. n] \notin Seq(S)}
<1>6. ASSUME Wrong # {} PROVE FALSE
  <2> DEFINE n == Least(Wrong)
  <2>1. n \in Wrong /\ \A j \in Wrong : n <= j
    <3>1. Wrong \in SUBSET Nat
      BY <1>1
    <3> HIDE DEF Wrong
    <3> QED
      BY <1>6, <3>1, LeastIs
  <2> HIDE DEF n
  <2>2. n # 0
    <3>1. 1 .. 0 = {}
      OBVIOUS
    <3>2. iter[1 .. 0] \in Seq(S)
      <4>1. <<>> \in Seq(S)
        OBVIOUS
      <4> QED
        BY <1>4, <3>1, <4>1, Zenon
    <3>3. iter[1 .. n] \notin Seq(S)
      BY <2>1
    <3> QED
      BY <3>2, <3>3, Zenon
  <2>3. n \in 1 .. Len(s) /\ n - 1 \in 0 .. Len(s)
    BY <1>1, <2>1, <2>2
  <2>4. 1 .. n \in SUBSET (1 .. Len(s)) /\ 1 .. n # {}
    <3>1. \A i \in 1 .. n : i \in 1 .. Len(s)
      BY <1>1, <2>3
    <3>2. n \in 1 .. n
      BY <2>3
    <3> QED
      BY <3>1, <3>2
  <2>5. Max(1 .. n) = n
    <3>1. n \in Nat /\ n \in 1 .. n
      BY <2>3
    <3>2. Max(1 .. n) \in 1 .. n /\ \A j \in 1 .. n : j <= Max(1 .. n)
      BY <3>1, MaxIs
    <3> QED
      BY <3>1, <3>2
  <2>6. (1 .. n) \ {n} = 1 .. (n - 1)
    BY <2>3
  <2>7. iter[1 .. n] = Kept(P, iter[1 .. (n - 1)], s[n])
    BY <1>5, <2>4, <2>5, <2>6, Zenon
  <2>8. n - 1 \notin Wrong
    BY <2>1, <2>3
  <2>9. iter[1 .. (n - 1)] \in Seq(S)
    BY <2>3, <2>8
  <2>10. s[n] \in S
    BY <2>3
  <2>11. Kept(P, iter[1 .. (n - 1)], s[n]) \in Seq(S)
    BY <2>9, <2>10 DEF Kept
  <2>12. iter[1 .. n] \notin Seq(S)
    BY <2>1
  <2> QED
    BY <2>7, <2>11, <2>12
<1>7. Len(s) \notin Wrong
  BY <1>6
<1> QED
  BY <1>1, <1>2, <1>7

LEMMA LayersType ==
  ASSUME NEW filter, model \in Models
  PROVE  SelectLayers(filter) \in Seq(Names)
<1> DEFINE wanted == {l \in Names : /\ filter.include = {} \/ Chosen(l, filter.include)
                                    /\ ~ Chosen(l, filter.exclude)}
<1>1. model.layers \in Seq(Names)
  <2>1. model.layers \in Seq(Names \ {Root})
    BY RegistrationAssumption
  <2> QED
    BY <2>1
<1> HIDE DEF wanted
<1>2. Filter(wanted, model.layers) \in Seq(Names)
  BY <1>1, FilterType, Zenon
<1>3. <<Root>> \in Seq(Names)
  BY RegistrationAssumption
<1>4. SelectLayers(filter) = IF Filter(wanted, model.layers) = <<>> /\ model.leaf
                             THEN <<Root>> ELSE Filter(wanted, model.layers)
  BY Zenon DEF SelectLayers, Filter, Kept, wanted
<1> QED
  BY <1>2, <1>3, <1>4

\* What a sequence holds, and the sequence of all that several hold.
Holds(s, x) == \E j \in DOMAIN s : s[j] = x
FlattenBody(seqs, n, f) == [i \in 1 .. n |-> IF i = 1 THEN seqs[i] ELSE f[i - 1] \o seqs[i]]

LEMMA ConcatHolds ==
  ASSUME NEW S, NEW s \in Seq(S), NEW u \in Seq(S), NEW x
  PROVE  Holds(s \o u, x) <=> Holds(s, x) \/ Holds(u, x)
<1>1. /\ Len(s) \in Nat /\ Len(u) \in Nat /\ DOMAIN s = 1 .. Len(s) /\ DOMAIN u = 1 .. Len(u)
      /\ DOMAIN (s \o u) = 1 .. (Len(s) + Len(u))
      /\ \A j \in 1 .. Len(s) : (s \o u)[j] = s[j]
      /\ \A j \in 1 .. Len(u) : (s \o u)[Len(s) + j] = u[j]
  BY ConcatProperties
<1>2. ASSUME NEW j \in 1 .. (Len(s) + Len(u)), (s \o u)[j] = x PROVE Holds(s, x) \/ Holds(u, x)
  <2>1. CASE j \in 1 .. Len(s)
    BY <1>1, <1>2, <2>1 DEF Holds
  <2>2. CASE j \notin 1 .. Len(s)
    <3>1. j - Len(s) \in 1 .. Len(u) /\ Len(s) + (j - Len(s)) = j
      BY <1>1, <2>2
    <3>2. u[j - Len(s)] = x
      BY <1>1, <1>2, <3>1
    <3> QED
      BY <1>1, <3>1, <3>2 DEF Holds
  <2> QED
    BY <2>1, <2>2
<1>3. ASSUME NEW j \in 1 .. Len(s), s[j] = x PROVE Holds(s \o u, x)
  <2>1. j \in 1 .. (Len(s) + Len(u))
    BY <1>1
  <2> QED
    BY <1>1, <1>3, <2>1 DEF Holds
<1>4. ASSUME NEW j \in 1 .. Len(u), u[j] = x PROVE Holds(s \o u, x)
  <2>1. Len(s) + j \in 1 .. (Len(s) + Len(u))
    BY <1>1
  <2> QED
    BY <1>1, <1>4, <2>1 DEF Holds
<1>5. Holds(s, x) => \E j \in 1 .. Len(s) : s[j] = x
  BY <1>1 DEF Holds
<1>6. Holds(u, x) => \E j \in 1 .. Len(u) : u[j] = x
  BY <1>1 DEF Holds
<1>7. Holds(s \o u, x) => \E j \in 1 .. (Len(s) + Len(u)) : (s \o u)[j] = x
  BY <1>1 DEF Holds
<1> QED
  BY <1>2, <1>3, <1>4, <1>5, <1>6, <1>7

LEMMA FlattenExists ==
  ASSUME NEW seqs, NEW n \in Nat
  PROVE  \E f : f = FlattenBody(seqs, n, f)
<1> DEFINE Wrong == {m \in Nat : ~ \E f : f = FlattenBody(seqs, m, f)}
<1>1. ASSUME Wrong # {} PROVE FALSE
  <2> DEFINE m == Least(Wrong)
  <2>1. m \in Wrong /\ \A j \in Wrong : m <= j
    <3>1. Wrong \in SUBSET Nat
      OBVIOUS
    <3> HIDE DEF Wrong
    <3> QED
      BY <1>1, <3>1, LeastIs
  <2> HIDE DEF m
  <2>2. CASE m = 0
    <3> DEFINE f == [i \in 1 .. 0 |-> <<>>]
    <3>1. \A i : i \notin 1 .. 0
      OBVIOUS
    <3>2. f = FlattenBody(seqs, 0, f)
      BY <3>1 DEF FlattenBody
    <3> QED
      BY <2>1, <2>2, <3>2
  <2>3. CASE m # 0
    <3>1. m - 1 \in Nat /\ m - 1 \notin Wrong /\ m \in Nat
      BY <2>1, <2>3
    <3>2. PICK f : f = FlattenBody(seqs, m - 1, f)
      BY <3>1
    <3> DEFINE g == [i \in 1 .. m |->
                       IF i = 1 THEN seqs[i]
                       ELSE IF i = m THEN f[m - 1] \o seqs[m] ELSE f[i]]
    <3>3. ASSUME NEW i \in 1 .. m
          PROVE  g[i] = IF i = 1 THEN seqs[i] ELSE g[i - 1] \o seqs[i]
      <4>1. CASE i # 1
        <5>1. /\ i - 1 \in 1 .. m /\ i - 1 \in 1 .. (m - 1) /\ i - 1 # m
              /\ i # m => i \in 1 .. (m - 1)
          BY <3>1, <4>1
        <5>2. g[i - 1] = f[i - 1]
          <6>1. i - 1 = 1 => f[i - 1] = seqs[i - 1]
            BY <3>2, <5>1 DEF FlattenBody
          <6> QED
            BY <5>1, <6>1
        <5>3. i # m => f[i] = f[i - 1] \o seqs[i]
          BY <3>2, <4>1, <5>1 DEF FlattenBody
        <5> QED
          BY <4>1, <5>2, <5>3
      <4> QED
        BY <4>1
    <3>4. g = [i \in 1 .. m |-> g[i]]
      BY Zenon
    <3> HIDE DEF g
    <3>5. g = FlattenBody(seqs, m, g)
      BY <3>3, <3>4, Zenon DEF FlattenBody
    <3> QED
      BY <2>1, <3>5
  <2> QED
    BY <2>2, <2>3
<1> QED
  BY <1>1

\* Flattening keeps every element and adds none.
LEMMA FlattenIs ==
  ASSUME NEW S, NEW seqs \in Seq(Seq(S))
  PROVE  /\ FlattenSeq(seqs) \in Seq(S)
         /\ \A x : Holds(FlattenSeq(seqs), x) <=> \E i \in DOMAIN seqs : Holds(seqs[i], x)
<1> DEFINE flat == CHOOSE f : f = FlattenBody(seqs, Len(seqs), f)
           Good(n) == /\ flat[n] \in Seq(S)
                      /\ \A x : Holds(flat[n], x) <=> \E i \in 1 .. n : Holds(seqs[i], x)
<1>1. Len(seqs) \in Nat /\ DOMAIN seqs = 1 .. Len(seqs)
  OBVIOUS
<1>2. FlattenSeq(seqs) = IF Len(seqs) = 0 THEN seqs ELSE flat[Len(seqs)]
  BY Zenon DEF FlattenSeq, FlattenBody
<1>3. flat = FlattenBody(seqs, Len(seqs), flat)
  BY <1>1, FlattenExists, Zenon
<1> HIDE DEF flat
<1>4. ASSUME NEW i \in 1 .. Len(seqs)
      PROVE  flat[i] = IF i = 1 THEN seqs[i] ELSE flat[i - 1] \o seqs[i]
  BY <1>3, Zenon DEF FlattenBody
<1> DEFINE Wrong == {n \in 1 .. Len(seqs) : ~ Good(n)}
<1>5. ASSUME Wrong # {} PROVE FALSE
  <2> DEFINE n == Least(Wrong)
  <2>1. n \in Wrong /\ \A j \in Wrong : n <= j
    <3>1. Wrong \in SUBSET Nat
      BY <1>1
    <3> HIDE DEF Wrong
    <3> QED
      BY <1>5, <3>1, LeastIs
  <2> HIDE DEF n
  <2>2. n \in 1 .. Len(seqs) /\ ~ Good(n) /\ n \in Nat
    BY <1>1, <2>1
  <2>3. seqs[n] \in Seq(S)
    BY <2>2
  <2>4. CASE n = 1
    <3>1. flat[n] = seqs[n]
      BY <1>4, <2>2, <2>4
    <3>2. \A i \in 1 .. n : i = n
      BY <2>4
    <3>3. n \in 1 .. n
      BY <2>4
    <3> QED
      BY <2>2, <2>3, <3>1, <3>2, <3>3
  <2>5. CASE n # 1
    <3>1. n - 1 \in 1 .. Len(seqs) /\ n - 1 \notin Wrong
      <4>1. n - 1 \in 1 .. Len(seqs) /\ n - 1 \in Nat /\ ~ (n <= n - 1)
        BY <1>1, <2>2, <2>5
      <4> HIDE DEF Wrong
      <4> QED
        BY <2>1, <4>1
    <3>2. Good(n - 1)
      BY <3>1
    <3>3. flat[n] = flat[n - 1] \o seqs[n]
      BY <1>4, <2>2, <2>5
    <3>4. flat[n] \in Seq(S)
      BY <2>3, <3>2, <3>3
    <3>5. ASSUME NEW x PROVE Holds(flat[n], x) <=> \E i \in 1 .. n : Holds(seqs[i], x)
      <4>1. Holds(flat[n], x) <=> Holds(flat[n - 1], x) \/ Holds(seqs[n], x)
        BY <2>3, <3>2, <3>3, ConcatHolds
      <4>2. Holds(flat[n - 1], x) <=> \E i \in 1 .. (n - 1) : Holds(seqs[i], x)
        BY <3>2
      <4>3. \A i : i \in 1 .. n <=> i \in 1 .. (n - 1) \/ i = n
        BY <2>2
      <4> QED
        BY <4>1, <4>2, <4>3, Zenon
    <3> QED
      BY <2>2, <3>4, <3>5
  <2> QED
    BY <2>4, <2>5
<1>6. CASE Len(seqs) = 0
  <2>1. seqs = <<>> /\ DOMAIN seqs = {} /\ seqs \in Seq(S)
    BY <1>1, <1>6
  <2> QED
    BY <1>2, <1>6, <2>1 DEF Holds
<1>7. CASE Len(seqs) # 0
  <2>1. Len(seqs) \in 1 .. Len(seqs) /\ Len(seqs) \notin Wrong
    <3>1. Len(seqs) \in 1 .. Len(seqs)
      BY <1>1, <1>7
    <3> HIDE DEF Wrong
    <3> QED
      BY <1>5, <3>1
  <2>2. Good(Len(seqs))
    BY <2>1
  <2> QED
    BY <1>1, <1>2, <1>7, <2>2
<1> QED
  BY <1>6, <1>7

-----------------------------------------------------------------------------
(***************************************************************************)
(* Types.  The prefix TypeOK is inductive with: only a reduction is ever   *)
(* exported, the files of the per-layer registrations are not the global   *)
(* one, and a removed scope is idle and has no hook.                       *)
(***************************************************************************)
Base ==
  /\ TypeOK /\ PathsInv
  /\ op = "register" => fn \in Fns
  /\ ~ alive => op = "idle" /\ hooks = <<>>

LEMMA Widen ==
  ASSUME NEW m \in Nat, NEW n \in Nat, m <= n
  PROVE  0 .. m \subseteq 0 .. n /\ 1 .. m \subseteq 1 .. n
OBVIOUS

LEMMA ResolveIs ==
  ASSUME TypeOK, PathsInv, NEW l \in Names
  PROVE  /\ ResolvePath(l) \in 0 .. Len(fnOf)
         /\ ResolvePath(l) = 0 <=> global = 0 /\ HitsIn(DOMAIN perLayer, l) = {}
         /\ Precedence(l) = IF ResolvePath(l) = 0 THEN "identity" ELSE fnOf[ResolvePath(l)]
         /\ ResolvePath(l) # 0 => fnOf[ResolvePath(l)] \in Fns
<1> DEFINE H == HitsIn(DOMAIN perLayer, l)
<1>1. perLayer \in Seq((1 .. Len(fnOf)) \X Patterns) /\ fnOf \in Seq(Fns)
      /\ global \in 0 .. Len(fnOf) /\ Len(fnOf) \in Nat
  BY DEF TypeOK
<1>2. perLayer \in Seq(Nat \X Patterns)
  <2>1. (1 .. Len(fnOf)) \X Patterns \subseteq Nat \X Patterns
    BY <1>1
  <2> QED
    BY <1>1, <2>1
<1>3. ResolvePath(l) = FirstHit(DOMAIN perLayer, l)
  BY <1>2, ScanFinds
<1>4. H \in SUBSET Nat /\ H \subseteq DOMAIN perLayer
  <2>1. DOMAIN perLayer \subseteq Nat
    BY <1>1
  <2> QED
    BY <2>1 DEF HitsIn
<1>5. H = {i \in DOMAIN perLayer : l \in NameMatches[perLayer[i][2]]}
  BY DEF HitsIn
<1> HIDE DEF H
<1>6. CASE H = {}
  <2>1. ResolvePath(l) = global
    BY <1>3, <1>6 DEF FirstHit, H
  <2>2. Precedence(l) = IF global # 0 THEN fnOf[global] ELSE "identity"
    BY <1>5, <1>6 DEF Precedence
  <2>3. global # 0 => fnOf[global] \in Fns
    BY <1>1
  <2> QED
    BY <1>1, <1>6, <2>1, <2>2, <2>3 DEF H
<1>7. CASE H # {}
  <2>1. Least(H) \in H
    BY <1>4, <1>7, LeastIs
  <2>2. ResolvePath(l) = perLayer[Least(H)][1]
    BY <1>3, <1>7 DEF FirstHit, H
  <2>3. perLayer[Least(H)][1] \in 1 .. Len(fnOf)
    <3>1. Least(H) \in DOMAIN perLayer
      BY <1>4, <2>1, Zenon
    <3>2. perLayer[Least(H)] \in (1 .. Len(fnOf)) \X Patterns
      BY <1>1, <3>1
    <3> QED
      BY <3>2
  <2>4. Precedence(l) = fnOf[perLayer[Least(H)][1]]
    BY <1>5, <1>7 DEF Precedence, Least
  <2>5. fnOf[perLayer[Least(H)][1]] \in Fns
    BY <1>1, <2>3
  <2> QED
    BY <1>1, <1>7, <2>2, <2>3, <2>4, <2>5 DEF H
<1> QED
  BY <1>6, <1>7

LEMMA HookTypes ==
  ASSUME TypeOK
  PROVE  \A i \in DOMAIN hooks : hooks[i].key \in Keys /\ hooks[i].accum \in 1 .. Len(store)
<1> DEFINE R == [key : Keys, accum : 1 .. Len(store)]
<1>1. hooks \in Seq(R)
  BY DEF TypeOK
<1>2. \A h \in R : h.key \in Keys /\ h.accum \in 1 .. Len(store)
  OBVIOUS
<1> HIDE DEF R
<1>3. \A i \in DOMAIN hooks : hooks[i] \in R
  BY <1>1
<1> QED
  BY <1>2, <1>3

SidesOf(capture) == {"output", "input"} \cap (IF capture = "both" THEN Kinds ELSE {capture})

LEMMA KeysHeld ==
  ASSUME NEW l \in Names, NEW c \in Captures
  PROVE  /\ KeysOf(l, c) \in Seq(Keys)
         /\ \A x : Holds(KeysOf(l, c), x) <=> \E d \in SidesOf(c) : x = <<l, d>>
<1>1. c \in {"output", "input", "both"}
  BY RegistrationAssumption
<1>2. <<l, "output">> \in Keys /\ <<l, "input">> \in Keys
  BY DEF Keys, Kinds
<1>3. CASE c = "output"
  <2>1. KeysOf(l, c) = << <<l, "output">> >>
    BY <1>3 DEF KeysOf
  <2>2. SidesOf(c) = {"output"}
    BY <1>3 DEF SidesOf
  <2> QED
    BY <1>2, <2>1, <2>2 DEF Holds
<1>4. CASE c = "input"
  <2>1. KeysOf(l, c) = << <<l, "input">> >>
    BY <1>4 DEF KeysOf
  <2>2. SidesOf(c) = {"input"}
    BY <1>4 DEF SidesOf
  <2> QED
    BY <1>2, <2>1, <2>2 DEF Holds
<1>5. CASE c = "both"
  <2> DEFINE a == << <<l, "output">> >>
             b == << <<l, "input">> >>
  <2>1. KeysOf(l, c) = a \o b
    BY <1>5 DEF KeysOf
  <2>2. SidesOf(c) = {"output", "input"}
    BY <1>5 DEF SidesOf, Kinds
  <2>3. a \in Seq(Keys) /\ b \in Seq(Keys)
    BY <1>2
  <2>4. \A x : Holds(a, x) <=> x = <<l, "output">>
    BY DEF Holds
  <2>5. \A x : Holds(b, x) <=> x = <<l, "input">>
    BY DEF Holds
  <2> HIDE DEF a, b
  <2>6. \A x : Holds(a \o b, x) <=> Holds(a, x) \/ Holds(b, x)
    BY <2>3, ConcatHolds
  <2> QED
    BY <2>1, <2>2, <2>3, <2>4, <2>5, <2>6
<1> QED
  BY <1>1, <1>3, <1>4, <1>5

\* The keys an attach sets up are those of the layers it selected.
KeysOfAll(layers, c) == FlattenSeq([i \in DOMAIN layers |-> KeysOf(layers[i], c)])

LEMMA TodoIs ==
  ASSUME NEW c \in Captures, NEW layers \in Seq(Names)
  PROVE  /\ KeysOfAll(layers, c) \in Seq(Keys)
         /\ Range(KeysOfAll(layers, c)) = {<<l, d>> : l \in Range(layers), d \in SidesOf(c)}
<1> DEFINE seqs == [i \in DOMAIN layers |-> KeysOf(layers[i], c)]
           all == KeysOfAll(layers, c)
           asked1 == {<<l, d>> : l \in Range(layers), d \in SidesOf(c)}
<1>1. Len(layers) \in Nat /\ DOMAIN layers = 1 .. Len(layers)
      /\ \A i \in DOMAIN layers : layers[i] \in Names
  OBVIOUS
<1>2. seqs \in Seq(Seq(Keys)) /\ DOMAIN seqs = DOMAIN layers
  BY <1>1, KeysHeld
<1>3. \A i \in DOMAIN layers : seqs[i] = KeysOf(layers[i], c)
  OBVIOUS
<1>4. all = FlattenSeq(seqs)
  BY DEF KeysOfAll
<1> HIDE DEF seqs, all
<1>5. /\ all \in Seq(Keys)
      /\ \A x : Holds(all, x) <=> \E i \in DOMAIN seqs : Holds(seqs[i], x)
  BY <1>2, <1>4, FlattenIs
<1>6. ASSUME NEW x \in Range(all) PROVE x \in asked1
  <2>1. Holds(all, x)
    BY Zenon DEF Range, Holds
  <2>2. PICK i \in DOMAIN layers : Holds(KeysOf(layers[i], c), x)
    BY <1>2, <1>3, <1>5, <2>1
  <2>3. layers[i] \in Names
    BY <1>1
  <2>4. PICK d \in SidesOf(c) : x = <<layers[i], d>>
    BY <2>2, <2>3, KeysHeld
  <2>5. layers[i] \in Range(layers)
    BY Zenon DEF Range
  <2> QED
    BY <2>4, <2>5
<1>7. ASSUME NEW x \in asked1 PROVE x \in Range(all)
  <2>1. PICK l \in Range(layers), d \in SidesOf(c) : x = <<l, d>>
    BY <1>7
  <2>2. PICK i \in DOMAIN layers : layers[i] = l
    BY <2>1 DEF Range
  <2>3. layers[i] \in Names
    BY <1>1
  <2>4. Holds(KeysOf(layers[i], c), x)
    BY <2>1, <2>2, <2>3, KeysHeld
  <2>5. Holds(all, x)
    BY <1>2, <1>3, <1>5, <2>4
  <2> QED
    BY <2>5 DEF Range, Holds
<1>8. Range(all) = asked1
  <2> HIDE DEF asked1
  <2> QED
    BY <1>6, <1>7
<1> QED
  BY <1>5, <1>8 DEF all

-----------------------------------------------------------------------------
(***************************************************************************)
(* The invariants.                                                         *)
(***************************************************************************)

\* The keys hooked, and those the attach in progress is about to hook.
Hooked == {hooks[i].key : i \in DOMAIN hooks}
Pending == IF op = "attach" THEN Range(todo) ELSE {}
CoverInv == want = Hooked \cup Pending

\* A key that runs a reduction has a file to resolve to for ever after: a key
\* registered without a path never had one.
ResolveInv ==
  \A k \in Keys :
    /\ config[k] = asked[k]
    /\ config[k] \in Fns => ~ (global = 0 /\ HitsIn(DOMAIN perLayer, k[1]) = {})

\* No two keys share an accumulator.
OwnInv == \A k, l \in Keys : accum[k] = accum[l] /\ accum[k] # 0 => k = l

\* The accumulator of a seeded key holds the seed or what was made of it.
SeedInv ==
  /\ seeded \subseteq {k \in Keys : k[2] \in SeedKinds}
  /\ alive => \A k \in seeded :
       accum[k] # 0 /\ store[accum[k]] \in {"seed", "captures", "fold of seed"}

LEMMA InitBase == Init => Base
BY RegistrationAssumption DEF Init, Base, TypeOK, PathsInv

LEMMA BaseBegin ==
  ASSUME Base, NEW f \in Fns, NEW ps \in Seq(Patterns \cup {"None"}), BeginRegister(f, ps)
  PROVE  Base'
BY DEF Base, TypeOK, PathsInv, BeginRegister, Idle, pathVars, keyVars, ghosts

\* A new file: every path known so far stays in range, and the new one is none
\* of them.
LEMMA NewFile ==
  ASSUME TypeOK, op = "register", fn \in Fns, fnOf' = Append(fnOf, fn)
  PROVE  /\ fnOf' \in Seq(Fns) /\ Len(fnOf) \in Nat /\ Len(fnOf') = Len(fnOf) + 1
         /\ 0 .. Len(fnOf) \subseteq 0 .. Len(fnOf')
         /\ 1 .. Len(fnOf) \subseteq 1 .. Len(fnOf')
         /\ Len(fnOf) + 1 \in 1 .. Len(fnOf') /\ Len(fnOf) + 1 \in 0 .. Len(fnOf')
         /\ perLayer \in Seq((1 .. Len(fnOf')) \X Patterns)
         /\ \A i \in DOMAIN perLayer : perLayer[i][1] < Len(fnOf) + 1
         /\ global < Len(fnOf) + 1
<1>1. fnOf \in Seq(Fns) /\ perLayer \in Seq((1 .. Len(fnOf)) \X Patterns) /\ global \in 0 .. Len(fnOf)
  BY DEF TypeOK
<1>2. fnOf' \in Seq(Fns) /\ Len(fnOf) \in Nat /\ Len(fnOf') = Len(fnOf) + 1
  BY <1>1
<1>3. /\ 0 .. Len(fnOf) \subseteq 0 .. Len(fnOf')
      /\ 1 .. Len(fnOf) \subseteq 1 .. Len(fnOf')
      /\ Len(fnOf) + 1 \in 1 .. Len(fnOf') /\ Len(fnOf) + 1 \in 0 .. Len(fnOf')
  BY <1>2
<1>4. (1 .. Len(fnOf)) \X Patterns \subseteq (1 .. Len(fnOf')) \X Patterns
  BY <1>3
<1>5. perLayer \in Seq((1 .. Len(fnOf')) \X Patterns)
  <2> DEFINE A == (1 .. Len(fnOf)) \X Patterns
             B == (1 .. Len(fnOf')) \X Patterns
  <2>1. perLayer \in Seq(A) /\ A \subseteq B
    BY <1>1, <1>4
  <2> HIDE DEF A, B
  <2>2. perLayer \in Seq(B)
    BY <2>1
  <2> QED
    BY <2>2 DEF B
<1>6. ASSUME NEW i \in DOMAIN perLayer PROVE perLayer[i][1] < Len(fnOf) + 1
  <2>1. perLayer[i] \in (1 .. Len(fnOf)) \X Patterns
    BY <1>1
  <2>2. perLayer[i][1] \in 1 .. Len(fnOf)
    BY <2>1
  <2> QED
    BY <1>2, <2>2
<1> QED
  BY <1>1, <1>2, <1>3, <1>5, <1>6

LEMMA BaseExport ==
  ASSUME Base, Export
  PROVE  Base'
<1> DEFINE path == Len(fnOf) + 1
<1>1. /\ op = "register" /\ targets # <<>> /\ fn \in Fns /\ TypeOK /\ PathsInv /\ alive
      /\ fnOf' = Append(fnOf, fn)
  BY DEF Base, Export
<1>2. /\ fnOf' \in Seq(Fns) /\ Len(fnOf) \in Nat /\ Len(fnOf') = Len(fnOf) + 1
      /\ 0 .. Len(fnOf) \subseteq 0 .. Len(fnOf')
      /\ 1 .. Len(fnOf) \subseteq 1 .. Len(fnOf')
      /\ path \in 1 .. Len(fnOf') /\ path \in 0 .. Len(fnOf')
      /\ perLayer \in Seq((1 .. Len(fnOf')) \X Patterns)
      /\ \A i \in DOMAIN perLayer : perLayer[i][1] < path
      /\ global < path
  BY <1>1, NewFile
<1>3. targets \in Seq(Patterns \cup {"None"}) /\ Head(targets) \in Patterns \cup {"None"}
      /\ Tail(targets) \in Seq(Patterns \cup {"None"})
  BY <1>1 DEF TypeOK
<1>4. global' \in 0 .. Len(fnOf') /\ perLayer' \in Seq((1 .. Len(fnOf')) \X Patterns) /\ PathsInv'
  <2>1. global \in 0 .. Len(fnOf) /\ global \in Int
    BY <1>1, <1>2 DEF TypeOK
  <2>2. CASE Head(targets) = "None"
    <3>1. global' = path /\ perLayer' = perLayer
      BY <2>2 DEF Export
    <3>2. ASSUME NEW i \in DOMAIN perLayer PROVE perLayer[i][1] # path
      <4>1. perLayer[i][1] \in 1 .. Len(fnOf')
        BY <1>2
      <4> QED
        BY <1>2, <4>1
    <3> QED
      BY <1>2, <3>1, <3>2 DEF PathsInv
  <2>3. CASE Head(targets) # "None"
    <3>1. global' = global /\ perLayer' = Append(perLayer, <<path, Head(targets)>>)
      BY <2>3 DEF Export
    <3>2. <<path, Head(targets)>> \in (1 .. Len(fnOf')) \X Patterns
      BY <1>2, <1>3, <2>3
    <3>3. perLayer' \in Seq((1 .. Len(fnOf')) \X Patterns)
      BY <1>2, <3>1, <3>2
    <3>4. ASSUME NEW i \in DOMAIN perLayer' PROVE perLayer'[i][1] # global
      <4>1. CASE i \in DOMAIN perLayer
        BY <1>1, <1>2, <3>1, <4>1 DEF PathsInv
      <4>2. CASE i \notin DOMAIN perLayer
        <5>1. perLayer'[i] = <<path, Head(targets)>>
          BY <1>2, <3>1, <4>2
        <5> QED
          BY <1>2, <2>1, <5>1
      <4> QED
        BY <4>1, <4>2
    <3> QED
      BY <1>2, <2>1, <3>1, <3>3, <3>4 DEF PathsInv
  <2> QED
    BY <2>2, <2>3
<1>5. temp' \subseteq 1 .. Len(fnOf') /\ disk' \subseteq 1 .. Len(fnOf') /\ leaked' \subseteq 1 .. Len(fnOf')
  BY <1>1, <1>2 DEF TypeOK, Export, ghosts
<1> QED
  BY <1>1, <1>2, <1>3, <1>4, <1>5 DEF Base, TypeOK, Export, keyVars, ghosts

LEMMA BaseSaveRaises ==
  ASSUME Base, SaveRaises
  PROVE  Base'
<1> DEFINE path == Len(fnOf) + 1
<1>1. /\ op = "register" /\ fn \in Fns /\ TypeOK /\ PathsInv /\ alive
      /\ fnOf' = Append(fnOf, fn)
  BY DEF Base, SaveRaises
<1>2. /\ fnOf' \in Seq(Fns) /\ Len(fnOf) \in Nat /\ Len(fnOf') = Len(fnOf) + 1
      /\ 0 .. Len(fnOf) \subseteq 0 .. Len(fnOf')
      /\ 1 .. Len(fnOf) \subseteq 1 .. Len(fnOf')
      /\ path \in 1 .. Len(fnOf') /\ path \in 0 .. Len(fnOf')
      /\ perLayer \in Seq((1 .. Len(fnOf')) \X Patterns)
  BY <1>1, NewFile
<1>3. /\ temp' \subseteq 1 .. Len(fnOf') /\ disk' \subseteq 1 .. Len(fnOf')
      /\ leaked' \subseteq 1 .. Len(fnOf') /\ global' \in 0 .. Len(fnOf')
  BY <1>1, <1>2 DEF TypeOK, SaveRaises
<1> QED
  BY <1>1, <1>2, <1>3 DEF Base, TypeOK, PathsInv, SaveRaises, keyVars

LEMMA BaseRest ==
  ASSUME Base,
         \/ CompileRaises \/ RegisterReturns \/ AttachReturns
         \/ \E path \in disk : FileVanishes(path)
         \/ Detach \/ UNCHANGED vars
  PROVE  Base'
<1>1. CASE CompileRaises
  BY <1>1, SMTT(20) DEF Base, TypeOK, PathsInv, CompileRaises, pathVars, keyVars, ghosts
<1>2. CASE RegisterReturns
  BY <1>2 DEF Base, TypeOK, PathsInv, RegisterReturns, pathVars, keyVars, ghosts
<1>3. CASE AttachReturns
  BY <1>3 DEF Base, TypeOK, PathsInv, AttachReturns, pathVars, keyVars, ghosts
<1>4. ASSUME NEW path \in disk, FileVanishes(path) PROVE Base'
  BY <1>4 DEF Base, TypeOK, PathsInv, FileVanishes, Idle, callVars, keyVars, ghosts
<1>5. CASE Detach
  BY <1>5, SMTT(20) DEF Base, TypeOK, PathsInv, Detach, Idle, pathVars, callVars
<1>6. CASE UNCHANGED vars
  BY <1>6 DEF Base, TypeOK, PathsInv, vars, pathVars, callVars, keyVars, ghosts
<1> QED
  BY <1>1, <1>2, <1>3, <1>4, <1>5, <1>6

LEMMA BaseBeginAttach ==
  ASSUME Base, NEW f \in Filters, NEW c \in Captures, BeginAttach(f, c)
  PROVE  /\ Base'
         /\ want' = want \cup Range(todo')
<1>1. SelectLayers(f) \in Seq(Names)
  BY LayersType DEF Base, TypeOK
<1>2. todo' = KeysOfAll(SelectLayers(f), c)
  BY DEF BeginAttach, KeysOfAll
<1>3. want' = want \cup {<<l, d>> : l \in Range(SelectLayers(f)), d \in SidesOf(c)}
  BY DEF BeginAttach, SidesOf
<1>4. todo' \in Seq(Keys) /\ want' = want \cup Range(todo')
  BY <1>1, <1>2, <1>3, TodoIs
<1>5. \A q \in Seq(Keys) : Range(q) \subseteq Keys
  BY DEF Range
<1>6. Range(todo') \subseteq Keys
  BY <1>4, <1>5, Zenon
<1>7. /\ alive /\ op' = "attach" /\ attaches' = attaches + 1
      /\ UNCHANGED <<model, alive, pathVars, fn, targets, keyVars, seeds, asked, seeded, leaked>>
  BY Zenon DEF BeginAttach, Idle
<1>8. want' \subseteq Keys
  BY <1>4, <1>6 DEF Base, TypeOK
<1> QED
  BY <1>4, <1>7, <1>8 DEF Base, TypeOK, PathsInv, pathVars, keyVars

\* What registering a key does to its accumulator.
LEMMA KeyEffect ==
  ASSUME Base, RegisterKey
  PROVE  LET k == Head(todo)
             id == IF accum[k] # 0 THEN accum[k] ELSE Len(store) + 1 IN
         /\ k \in Keys /\ k[1] \in Names /\ Tail(todo) \in Seq(Keys)
         /\ Range(todo) = {k} \cup Range(Tail(todo))
         /\ accum[k] \in 0 .. Len(store) /\ store \in Seq(Contents) /\ Len(store) \in Nat
         /\ store' \in Seq(Contents) /\ Len(store') \in Nat
         /\ id \in 1 .. Len(store') /\ Len(store) <= Len(store')
         /\ store' = IF accum[k] = 0 THEN Append(store, "empty") ELSE store
         /\ \A i \in 1 .. Len(store) : store'[i] = store[i]
<1> DEFINE k == Head(todo)
           id == IF accum[k] # 0 THEN accum[k] ELSE Len(store) + 1
<1>1. todo \in Seq(Keys) /\ todo # <<>> /\ accum \in [Keys -> 0 .. Len(store)]
      /\ store \in Seq(Contents)
  BY DEF Base, TypeOK, RegisterKey
<1>2. k \in Keys /\ k[1] \in Names /\ Tail(todo) \in Seq(Keys)
  BY <1>1 DEF Keys
<1>3. Range(todo) = {k} \cup Range(Tail(todo))
  <2>1. /\ DOMAIN todo = 1 .. Len(todo) /\ Len(todo) \in Nat /\ Len(todo) # 0 /\ k = todo[1]
        /\ DOMAIN Tail(todo) = 1 .. (Len(todo) - 1)
        /\ \A i \in 1 .. (Len(todo) - 1) : Tail(todo)[i] = todo[i + 1]
    BY <1>1
  <2> DEFINE rest == Tail(todo)
  <2> HIDE DEF rest, k
  <2>2. ASSUME NEW i \in DOMAIN todo PROVE todo[i] = k \/ todo[i] \in Range(rest)
    <3>1. i # 1 => i - 1 \in DOMAIN rest /\ rest[i - 1] = todo[i]
      BY <2>1 DEF rest
    <3> QED
      BY <2>1, <3>1 DEF Range
  <2>3. ASSUME NEW i \in DOMAIN rest PROVE rest[i] \in Range(todo)
    <3>1. i + 1 \in DOMAIN todo /\ rest[i] = todo[i + 1]
      BY <2>1 DEF rest
    <3> QED
      BY <3>1 DEF Range
  <2>4. k \in Range(todo)
    BY <2>1 DEF Range
  <2> QED
    BY <2>2, <2>3, <2>4 DEF Range, rest
<1>4. accum[k] \in 0 .. Len(store) /\ Len(store) \in Nat
  BY <1>1, <1>2
<1>5. store' = IF accum[k] = 0 THEN Append(store, "empty") ELSE store
  <2>1. id > Len(store) <=> accum[k] = 0
    BY <1>4
  <2> QED
    BY <2>1 DEF RegisterKey
<1>6. /\ store' \in Seq(Contents) /\ Len(store') \in Nat /\ id \in 1 .. Len(store')
      /\ Len(store) <= Len(store') /\ \A i \in 1 .. Len(store) : store'[i] = store[i]
  <2>1. CASE accum[k] = 0
    <3>1. store' = Append(store, "empty") /\ "empty" \in Contents
      BY <1>5, <2>1 DEF Contents
    <3>2. Len(store') = Len(store) + 1 /\ store' \in Seq(Contents)
          /\ \A i \in 1 .. Len(store) : store'[i] = store[i]
      BY <1>1, <3>1
    <3>3. id = Len(store) + 1
      BY <2>1
    <3> QED
      BY <1>4, <3>2, <3>3
  <2>2. CASE accum[k] # 0
    BY <1>1, <1>4, <1>5, <2>2
  <2> QED
    BY <2>1, <2>2
<1> QED
  BY <1>1, <1>2, <1>3, <1>4, <1>5, <1>6

LEMMA BaseRegisterKey ==
  ASSUME Base, RegisterKey
  PROVE  Base'
<1> DEFINE k == Head(todo)
           path == ResolvePath(k[1])
           id == IF accum[k] # 0 THEN accum[k] ELSE Len(store) + 1
<1>1. /\ k \in Keys /\ k[1] \in Names /\ Tail(todo) \in Seq(Keys)
      /\ store' \in Seq(Contents) /\ Len(store') \in Nat /\ Len(store) \in Nat
      /\ id \in 1 .. Len(store') /\ Len(store) <= Len(store')
  BY KeyEffect
<1>2. /\ path \in 0 .. Len(fnOf)
      /\ path # 0 => fnOf[path] \in Fns
      /\ Precedence(k[1]) \in Fns \cup {"identity"}
  BY <1>1, ResolveIs DEF Base
<1>3. /\ config' = [config EXCEPT ![k] = IF path # 0 THEN fnOf[path]
                                         ELSE IF @ = "absent" THEN "identity" ELSE @]
      /\ accum' = [accum EXCEPT ![k] = id]
      /\ hooks' = Append(hooks, [key |-> k, accum |-> id])
      /\ asked' = [asked EXCEPT ![k] = Precedence(k[1])]
      /\ todo' = Tail(todo) /\ op = "attach"
      /\ UNCHANGED <<model, alive, pathVars, op, fn, targets, attaches, seeds, want, seeded, leaked>>
  BY Zenon DEF RegisterKey
<1>4. TypeOK /\ PathsInv /\ alive
  BY <1>3 DEF Base
<1> HIDE DEF k, path, id
<1>5. config' \in [Keys -> Fns \cup {"identity", "absent"}]
  <2>1. config \in [Keys -> Fns \cup {"identity", "absent"}]
    BY <1>4 DEF TypeOK
  <2> DEFINE new == IF path # 0 THEN fnOf[path]
                    ELSE IF config[k] = "absent" THEN "identity" ELSE config[k]
  <2>2. new \in Fns \cup {"identity", "absent"}
    <3>1. config[k] \in Fns \cup {"identity", "absent"}
      BY <1>1, <2>1
    <3>2. path # 0 => fnOf[path] \in Fns
      BY <1>2
    <3> QED
      BY <3>1, <3>2
  <2>3. config' = [config EXCEPT ![k] = new]
    BY <1>3
  <2> HIDE DEF new
  <2> QED
    BY <1>1, <2>1, <2>2, <2>3
<1>6. asked' \in [Keys -> Fns \cup {"identity", "absent"}]
  BY <1>1, <1>2, <1>3, <1>4 DEF TypeOK
<1>7. 0 .. Len(store) \subseteq 0 .. Len(store') /\ 1 .. Len(store) \subseteq 1 .. Len(store')
      /\ id \in 0 .. Len(store')
  BY <1>1
<1>8. accum' \in [Keys -> 0 .. Len(store')]
  BY <1>1, <1>3, <1>4, <1>7 DEF TypeOK
<1>9. hooks' \in Seq([key : Keys, accum : 1 .. Len(store')])
  <2> DEFINE A == [key : Keys, accum : 1 .. Len(store)]
             B == [key : Keys, accum : 1 .. Len(store')]
  <2>1. A \subseteq B /\ [key |-> k, accum |-> id] \in B /\ hooks \in Seq(A)
    BY <1>1, <1>4, <1>7 DEF TypeOK
  <2> HIDE DEF A, B
  <2>2. Append(hooks, [key |-> k, accum |-> id]) \in Seq(B)
    BY <2>1
  <2> QED
    BY <1>3, <2>2 DEF B
<1> QED
  BY <1>1, <1>3, <1>4, <1>5, <1>6, <1>8, <1>9 DEF Base, TypeOK, PathsInv, pathVars

LEMMA BaseLoadRaises ==
  ASSUME Base, LoadRaises
  PROVE  Base'
<1> DEFINE k == Head(todo)
<1>1. k \in Keys
  BY DEF Base, TypeOK, LoadRaises
<1>2. /\ config' = [config EXCEPT ![k] = IF @ = "absent" THEN "identity" ELSE @]
      /\ asked' = [asked EXCEPT ![k] = IF @ = "absent" THEN "identity" ELSE @]
      /\ want' = {hooks[i].key : i \in DOMAIN hooks}
      /\ op' = "idle" /\ todo' = <<>> /\ op = "attach"
      /\ UNCHANGED <<model, alive, pathVars, fn, targets, accum, store, hooks, attaches, seeds,
                     seeded, leaked>>
  BY Zenon DEF LoadRaises
<1>3. TypeOK /\ PathsInv /\ alive
  BY <1>2 DEF Base
<1> HIDE DEF k
<1>4. config' \in [Keys -> Fns \cup {"identity", "absent"}]
  BY <1>1, <1>2, <1>3 DEF TypeOK
<1>5. asked' \in [Keys -> Fns \cup {"identity", "absent"}]
  BY <1>1, <1>2, <1>3 DEF TypeOK
<1>6. want' \subseteq Keys
  <2>1. \A i \in DOMAIN hooks : hooks[i].key \in Keys
    BY <1>3, HookTypes
  <2> QED
    BY <1>2, <2>1
<1>7. todo' \in Seq(Keys)
  BY <1>2
<1> QED
  BY <1>2, <1>3, <1>4, <1>5, <1>6, <1>7 DEF Base, TypeOK, PathsInv, pathVars

\* A content a hook leaves: never that of an accumulator nothing touched.
LEMMA FireEffect ==
  ASSUME Base, Forward
  PROVE  /\ alive /\ store' \in Seq(Contents) /\ Len(store') = Len(store) /\ DOMAIN store' = DOMAIN store
         /\ \A i \in DOMAIN store :
              store[i] \in {"seed", "captures", "fold of seed"}
                => store'[i] \in {"seed", "captures", "fold of seed"}
         /\ UNCHANGED <<model, alive, pathVars, callVars, config, accum, hooks, attaches, seeds,
                        ghosts>>
<1> DEFINE Fired(id) == {hooks[i].key : i \in {j \in DOMAIN hooks : hooks[j].accum = id}}
           After(id) == IF \E k \in Fired(id) : config[k] = "identity" THEN "captures"
                        ELSE IF store[id] = "seed" THEN "fold of seed"
                        ELSE IF store[id] = "empty" THEN "fold"
                        ELSE store[id]
           new(id) == IF Fired(id) = {} THEN store[id] ELSE After(id)
<1>1. alive /\ store' = [id \in DOMAIN store |-> new(id)]
      /\ UNCHANGED <<model, alive, pathVars, callVars, config, accum, hooks, attaches, seeds,
                     ghosts>>
  BY Zenon DEF Forward, Idle
<1>2. ASSUME NEW id \in DOMAIN store
      PROVE  /\ new(id) \in Contents
             /\ store[id] \in {"seed", "captures", "fold of seed"}
                  => new(id) \in {"seed", "captures", "fold of seed"}
  <2>1. store[id] \in Contents
    BY DEF Base, TypeOK
  <2> HIDE DEF Fired
  <2> QED
    BY <2>1 DEF Contents
<1> HIDE DEF new
<1>3. store \in Seq(Contents) /\ DOMAIN store = 1 .. Len(store) /\ Len(store) \in Nat
  BY DEF Base, TypeOK
<1>4. store' \in Seq(Contents) /\ Len(store') = Len(store) /\ DOMAIN store' = DOMAIN store
  <2>1. \A id \in 1 .. Len(store) : new(id) \in Contents
    BY <1>2, <1>3
  <2>2. store' = [id \in 1 .. Len(store) |-> new(id)]
    BY <1>1, <1>3
  <2>3. store' \in [1 .. Len(store) -> Contents]
    BY <2>1, <2>2
  <2> QED
    BY <1>3, <2>3
<1> QED
  BY <1>1, <1>2, <1>4

LEMMA BaseForward ==
  ASSUME Base, Forward
  PROVE  Base'
<1>1. /\ alive /\ store' \in Seq(Contents) /\ Len(store') = Len(store)
      /\ UNCHANGED <<model, alive, pathVars, callVars, config, accum, hooks, attaches, seeds,
                     ghosts>>
  BY FireEffect
<1> QED
  BY <1>1 DEF Base, TypeOK, PathsInv, pathVars, callVars, ghosts

\* What a seed does: its accumulator holds it, and nothing else moves.
LEMMA SeedEffect ==
  ASSUME Base, NEW k \in Keys, InitAccumulator(k)
  PROVE  LET id == IF accum[k] # 0 THEN accum[k] ELSE Len(store) + 1 IN
         /\ accum[k] \in 0 .. Len(store) /\ Len(store) \in Nat
         /\ store' \in Seq(Contents) /\ Len(store') \in Nat
         /\ id \in 1 .. Len(store') /\ Len(store) <= Len(store') /\ store'[id] = "seed"
         /\ \A i \in 1 .. Len(store) : i # id => store'[i] = store[i]
<1> DEFINE id == IF accum[k] # 0 THEN accum[k] ELSE Len(store) + 1
<1>1. store \in Seq(Contents) /\ Len(store) \in Nat /\ accum[k] \in 0 .. Len(store)
      /\ "seed" \in Contents
  <2>1. "seed" \in Contents
    BY DEF Contents
  <2> QED
    BY <2>1 DEF Base, TypeOK
<1>2. store' = IF id > Len(store) THEN Append(store, "seed") ELSE [store EXCEPT ![id] = "seed"]
  BY Zenon DEF InitAccumulator
<1>3. CASE accum[k] = 0
  <2>1. store' = Append(store, "seed")
    BY <1>1, <1>2, <1>3
  <2> QED
    BY <1>1, <1>3, <2>1
<1>4. CASE accum[k] # 0
  <2>1. id = accum[k] /\ id \in 1 .. Len(store)
    BY <1>1, <1>4
  <2>2. store' = [store EXCEPT ![id] = "seed"]
    BY <1>1, <1>2, <2>1
  <2> HIDE DEF id
  <2>3. store' \in Seq(Contents) /\ Len(store') = Len(store) /\ store'[id] = "seed"
        /\ \A i \in 1 .. Len(store) : i # id => store'[i] = store[i]
    BY <1>1, <2>1, <2>2
  <2> QED
    BY <1>1, <2>1, <2>3 DEF id
<1> QED
  BY <1>3, <1>4

LEMMA BaseSeed ==
  ASSUME Base, NEW k \in Keys, InitAccumulator(k)
  PROVE  Base'
<1> DEFINE id == IF accum[k] # 0 THEN accum[k] ELSE Len(store) + 1
<1>1. /\ store' \in Seq(Contents) /\ Len(store') \in Nat /\ Len(store) \in Nat
      /\ id \in 1 .. Len(store') /\ Len(store) <= Len(store')
  BY SeedEffect
<1>2. /\ alive /\ seeds' = seeds + 1 /\ accum' = [accum EXCEPT ![k] = id]
      /\ seeded' \subseteq seeded \cup {k}
      /\ UNCHANGED <<model, alive, pathVars, callVars, config, hooks, attaches, want, asked, leaked>>
  BY DEF InitAccumulator, Idle
<1> HIDE DEF id
<1>3. 0 .. Len(store) \subseteq 0 .. Len(store') /\ 1 .. Len(store) \subseteq 1 .. Len(store')
      /\ id \in 0 .. Len(store')
  BY <1>1
<1>4. accum' \in [Keys -> 0 .. Len(store')]
  BY <1>2, <1>3 DEF Base, TypeOK
<1>5. hooks' \in Seq([key : Keys, accum : 1 .. Len(store')])
  <2> DEFINE A == [key : Keys, accum : 1 .. Len(store)]
             B == [key : Keys, accum : 1 .. Len(store')]
  <2>1. A \subseteq B /\ hooks \in Seq(A)
    BY <1>3 DEF Base, TypeOK
  <2> HIDE DEF A, B
  <2>2. hooks \in Seq(B)
    BY <2>1
  <2> QED
    BY <1>2, <2>2 DEF B
<1> QED
  BY <1>1, <1>2, <1>4, <1>5, SMTT(20) DEF Base, TypeOK, PathsInv, pathVars, callVars

LEMMA BaseWipe ==
  ASSUME Base, Clear \/ Destroy
  PROVE  Base' /\ Len(store') = Len(store)
<1>1. store \in Seq(Contents) /\ "empty" \in Contents /\ Len(store) \in Nat
  <2>1. "empty" \in Contents
    BY DEF Contents
  <2> QED
    BY <2>1 DEF Base, TypeOK
<1>2. store' = [i \in DOMAIN store |-> "empty"]
  BY DEF Clear, Destroy
<1>3. store' \in Seq(Contents) /\ Len(store') = Len(store)
  BY <1>1, <1>2
<1>4. CASE Clear
  <2>1. alive /\ seeded' = {}
        /\ UNCHANGED <<model, alive, pathVars, callVars, config, accum, hooks, attaches, seeds,
                       want, asked, leaked>>
    BY <1>4, Zenon DEF Clear, Idle
  <2> QED
    BY <1>3, <2>1 DEF Base, TypeOK, PathsInv, pathVars, callVars
<1>5. CASE Destroy
  <2>1. /\ alive' = FALSE /\ hooks' = <<>> /\ want' = {} /\ disk' = disk \ temp /\ temp' = {}
        /\ op = "idle"
        /\ UNCHANGED <<model, global, perLayer, fnOf, callVars, config, accum, attaches, seeds,
                       asked, seeded, leaked>>
    BY <1>5, Zenon DEF Destroy, Idle
  <2>2. hooks' \in Seq([key : Keys, accum : 1 .. Len(store')])
    BY <2>1
  <2>3. disk' \subseteq 1 .. Len(fnOf') /\ temp' \subseteq 1 .. Len(fnOf') /\ want' \subseteq Keys
    BY <2>1 DEF Base, TypeOK
  <2> QED
    BY <1>3, <2>1, <2>2, <2>3 DEF Base, TypeOK, PathsInv, callVars
<1> QED
  BY <1>3, <1>4, <1>5

LEMMA BaseStep == Base /\ [Next]_vars => Base'
<1> SUFFICES ASSUME Base, [Next]_vars PROVE Base'
  OBVIOUS
<1>1. ASSUME NEW f \in Fns, RegisterGlobal(f) \/ \E ps \in PatternLists : RegisterLayers(f, ps)
      PROVE  Base'
  <2>1. <<"None">> \in Seq(Patterns \cup {"None"})
    OBVIOUS
  <2>2. PatternLists \subseteq Seq(Patterns \cup {"None"})
    BY RegistrationAssumption
  <2> QED
    BY <1>1, <2>1, <2>2, BaseBegin DEF RegisterGlobal, RegisterLayers
<1>2. ASSUME NEW f \in Filters, NEW c \in Captures, BeginAttach(f, c) PROVE Base'
  BY <1>2, BaseBeginAttach
<1>3. ASSUME NEW k \in Keys, InitAccumulator(k) PROVE Base'
  BY <1>3, BaseSeed
<1> QED
  BY <1>1, <1>2, <1>3, BaseExport, BaseSaveRaises, BaseRest, BaseRegisterKey, BaseLoadRaises,
     BaseForward, BaseWipe DEF Next, Finished

\* Every variable has its type, whatever is registered, attached, seeded and
\* cleared in whatever order, and whichever of the calls fail.
THEOREM RegistrationTypes == Spec => []TypeOK
<1>1. Base => TypeOK
  BY DEF Base
<1> QED
  BY InitBase, BaseStep, <1>1, PTL DEF Spec

\* Every .pt file on the disk is one the scope will delete when it is removed,
\* or the half-written file of a save that raised.
THEOREM FilesAreTracked == Spec => []TempFilesTracked
<1>1. Init => TempFilesTracked
  BY DEF Init, TempFilesTracked
<1>2. TempFilesTracked /\ [Next]_vars => TempFilesTracked'
  <2> SUFFICES ASSUME TempFilesTracked, [Next]_vars PROVE TempFilesTracked'
    OBVIOUS
  <2> USE DEF TempFilesTracked
  <2>1. ASSUME NEW f \in Fns, RegisterGlobal(f) \/ \E ps \in PatternLists : RegisterLayers(f, ps)
        PROVE  TempFilesTracked'
    BY <2>1 DEF RegisterGlobal, RegisterLayers, BeginRegister, pathVars, ghosts
  <2>2. CASE Export
    BY <2>2 DEF Export, ghosts
  <2>3. CASE SaveRaises
    BY <2>3 DEF SaveRaises
  <2>4. ASSUME NEW path \in disk, FileVanishes(path) PROVE TempFilesTracked'
    BY <2>4 DEF FileVanishes, ghosts
  <2>5. CASE Destroy
    BY <2>5 DEF Destroy
  <2>6. CASE \/ CompileRaises \/ RegisterReturns \/ AttachReturns \/ Forward
             \/ Clear \/ Detach \/ UNCHANGED vars
    BY <2>6 DEF CompileRaises, RegisterReturns, AttachReturns, Forward, Clear, Detach, vars,
                pathVars, ghosts
  <2>7. ASSUME \/ \E f \in Filters, c \in Captures : BeginAttach(f, c)
               \/ RegisterKey \/ LoadRaises \/ \E k \in Keys : InitAccumulator(k)
        PROVE  TempFilesTracked'
    <3>1. ASSUME NEW f \in Filters, NEW c \in Captures, BeginAttach(f, c)
          PROVE  UNCHANGED <<temp, disk, leaked>>
      BY <3>1, Zenon DEF BeginAttach, pathVars
    <3>2. CASE RegisterKey \/ LoadRaises
      BY <3>2, Zenon DEF RegisterKey, LoadRaises, pathVars
    <3>3. ASSUME NEW k \in Keys, InitAccumulator(k) PROVE UNCHANGED <<temp, disk, leaked>>
      BY <3>3, Zenon DEF InitAccumulator, pathVars
    <3> QED
      BY <2>7, <3>1, <3>2, <3>3
  <2> QED
    BY <2>1, <2>2, <2>3, <2>4, <2>5, <2>6, <2>7 DEF Next, Finished
<1> QED
  BY <1>1, <1>2, PTL DEF Spec

\* The hooks and the keys an action neither registers nor takes away.
HookStep == RegisterKey \/ Detach \/ Destroy
LEMMA HooksStay ==
  ASSUME [Next]_vars, ~ HookStep
  PROVE  UNCHANGED hooks
<1>1. ASSUME NEW f \in Fns, RegisterGlobal(f) \/ \E ps \in PatternLists : RegisterLayers(f, ps)
      PROVE  UNCHANGED hooks
  BY <1>1, Zenon DEF RegisterGlobal, RegisterLayers, BeginRegister, keyVars
<1>2. ASSUME NEW path \in disk, FileVanishes(path) PROVE UNCHANGED hooks
  BY <1>2, Zenon DEF FileVanishes, keyVars
<1>3. ASSUME NEW f \in Filters, NEW c \in Captures, BeginAttach(f, c) PROVE UNCHANGED hooks
  BY <1>3, Zenon DEF BeginAttach, keyVars
<1>4. ASSUME NEW k \in Keys, InitAccumulator(k) PROVE UNCHANGED hooks
  BY <1>4, Zenon DEF InitAccumulator
<1>5. CASE \/ Export \/ SaveRaises \/ CompileRaises \/ RegisterReturns \/ AttachReturns
           \/ LoadRaises \/ Forward \/ Clear \/ UNCHANGED vars
  BY <1>5, Zenon DEF Export, SaveRaises, CompileRaises, RegisterReturns, AttachReturns,
                LoadRaises, Forward, Clear, vars, keyVars
<1> QED
  BY <1>1, <1>2, <1>3, <1>4, <1>5, Zenon DEF Next, Finished, HookStep

LEMMA AccumStay ==
  ASSUME [Next]_vars, ~ RegisterKey, \A k \in Keys : ~ InitAccumulator(k)
  PROVE  UNCHANGED accum
<1>1. ASSUME NEW f \in Fns, RegisterGlobal(f) \/ \E ps \in PatternLists : RegisterLayers(f, ps)
      PROVE  UNCHANGED accum
  BY <1>1, Zenon DEF RegisterGlobal, RegisterLayers, BeginRegister, keyVars
<1>2. ASSUME NEW path \in disk, FileVanishes(path) PROVE UNCHANGED accum
  BY <1>2, Zenon DEF FileVanishes, keyVars
<1>3. ASSUME NEW f \in Filters, NEW c \in Captures, BeginAttach(f, c) PROVE UNCHANGED accum
  BY <1>3, Zenon DEF BeginAttach, keyVars
<1>4. CASE \/ Export \/ SaveRaises \/ CompileRaises \/ RegisterReturns \/ AttachReturns
           \/ LoadRaises \/ Forward \/ Clear \/ Detach \/ Destroy \/ UNCHANGED vars
  BY <1>4, Zenon DEF Export, SaveRaises, CompileRaises, RegisterReturns, AttachReturns,
                LoadRaises, Forward, Clear, Detach, Destroy, vars, keyVars
<1> QED
  BY <1>1, <1>2, <1>3, <1>4, Zenon DEF Next, Finished

\* Where a hook is new, it is that of the key just registered.
LEMMA HooksGrow ==
  ASSUME Base, RegisterKey
  PROVE  LET k == Head(todo)
             id == IF accum[k] # 0 THEN accum[k] ELSE Len(store) + 1 IN
         /\ accum' = [accum EXCEPT ![k] = id]
         /\ \A i \in DOMAIN hooks' : hooks'[i] = [key |-> k, accum |-> id]
                                     \/ (i \in DOMAIN hooks /\ hooks'[i] = hooks[i])
         /\ \A i \in DOMAIN hooks : i \in DOMAIN hooks' /\ hooks'[i] = hooks[i]
         /\ \E i \in DOMAIN hooks' : hooks'[i] = [key |-> k, accum |-> id]
<1> DEFINE k == Head(todo)
           id == IF accum[k] # 0 THEN accum[k] ELSE Len(store) + 1
           h == [key |-> k, accum |-> id]
           R == [key : Keys, accum : 1 .. Len(store)]
<1>1. accum' = [accum EXCEPT ![k] = id] /\ hooks' = Append(hooks, h)
  BY Zenon DEF RegisterKey
<1>2. hooks \in Seq(R)
  BY DEF Base, TypeOK
<1> HIDE DEF R, h
<1>3. /\ DOMAIN hooks = 1 .. Len(hooks) /\ Len(hooks) \in Nat
      /\ DOMAIN hooks' = 1 .. (Len(hooks) + 1)
      /\ hooks'[Len(hooks) + 1] = h
      /\ \A i \in 1 .. Len(hooks) : hooks'[i] = hooks[i]
  BY <1>1, <1>2
<1>4. \A i \in 1 .. (Len(hooks) + 1) : i \in 1 .. Len(hooks) \/ i = Len(hooks) + 1
  BY <1>3
<1>5. Len(hooks) + 1 \in 1 .. (Len(hooks) + 1) /\ \A i \in 1 .. Len(hooks) : i \in 1 .. (Len(hooks) + 1)
  BY <1>3
<1> QED
  BY <1>1, <1>3, <1>4, <1>5, Zenon DEF h

\* All hooks of a key, however often it was attached, share one accumulator:
\* the one clear(), a readback and a seed work on.
THEOREM AccumulatorIsShared == Spec => []SharedAccumulator
<1>1. Init => SharedAccumulator
  BY DEF Init, SharedAccumulator
<1>2. Base /\ SharedAccumulator /\ [Next]_vars => SharedAccumulator'
  <2> SUFFICES ASSUME Base, SharedAccumulator, [Next]_vars PROVE SharedAccumulator'
    OBVIOUS
  <2>1. CASE RegisterKey
    <3> DEFINE k == Head(todo)
               id == IF accum[k] # 0 THEN accum[k] ELSE Len(store) + 1
    <3>1. /\ accum' = [accum EXCEPT ![k] = id]
          /\ \A i \in DOMAIN hooks' : hooks'[i] = [key |-> k, accum |-> id]
                                      \/ (i \in DOMAIN hooks /\ hooks'[i] = hooks[i])
      BY <2>1, HooksGrow
    <3>2. k \in Keys /\ accum \in [Keys -> 0 .. Len(store)]
      BY <2>1, KeyEffect DEF Base, TypeOK
    <3>3. \A i \in DOMAIN hooks : hooks[i].key \in Keys /\ hooks[i].accum \in 1 .. Len(store)
                                  /\ accum[hooks[i].key] = hooks[i].accum
      BY HookTypes DEF Base, SharedAccumulator
    <3>4. accum[k] # 0 => id = accum[k]
      OBVIOUS
    <3>5. Len(store) \in Nat
      BY DEF Base, TypeOK
    <3> HIDE DEF k, id
    <3>6. ASSUME NEW i \in DOMAIN hooks' PROVE accum'[hooks'[i].key] = hooks'[i].accum
      <4>1. CASE hooks'[i] = [key |-> k, accum |-> id]
        BY <3>1, <3>2, <4>1
      <4>2. CASE i \in DOMAIN hooks /\ hooks'[i] = hooks[i]
        <5>1. hooks[i].accum # 0
          BY <3>3, <3>5, <4>2
        <5> QED
          BY <3>1, <3>2, <3>3, <3>4, <4>2, <5>1
      <4> QED
        BY <3>1, <4>1, <4>2
    <3> QED
      BY <3>6 DEF SharedAccumulator
  <2>2. ASSUME NEW k \in Keys, InitAccumulator(k) PROVE SharedAccumulator'
    <3> DEFINE id == IF accum[k] # 0 THEN accum[k] ELSE Len(store) + 1
    <3>1. accum' = [accum EXCEPT ![k] = id] /\ hooks' = hooks
      BY <2>2, Zenon DEF InitAccumulator
    <3>2. \A i \in DOMAIN hooks : hooks[i].key \in Keys /\ hooks[i].accum \in 1 .. Len(store)
                                  /\ accum[hooks[i].key] = hooks[i].accum
      BY HookTypes DEF Base, SharedAccumulator
    <3>3. accum \in [Keys -> 0 .. Len(store)] /\ Len(store) \in Nat
      BY DEF Base, TypeOK
    <3>4. accum[k] # 0 => id = accum[k]
      OBVIOUS
    <3> HIDE DEF id
    <3>5. ASSUME NEW i \in DOMAIN hooks PROVE accum'[hooks[i].key] = hooks[i].accum
      <4>1. hooks[i].accum # 0
        BY <3>2, <3>3
      <4> QED
        BY <3>1, <3>2, <3>3, <3>4, <4>1
    <3> QED
      BY <3>1, <3>5 DEF SharedAccumulator
  <2>3. CASE Detach \/ Destroy
    BY <2>3 DEF Detach, Destroy, SharedAccumulator
  <2>4. CASE ~ HookStep /\ \A k \in Keys : ~ InitAccumulator(k)
    <3>1. UNCHANGED <<hooks, accum>>
      BY <2>4, HooksStay, AccumStay DEF HookStep
    <3> QED
      BY <3>1 DEF SharedAccumulator
  <2> QED
    BY <2>1, <2>2, <2>3, <2>4 DEF HookStep
<1> QED
  BY <1>1, <1>2, InitBase, BaseStep, PTL DEF Spec

-----------------------------------------------------------------------------
(***************************************************************************)
(* The reduction of each key.                                              *)
(***************************************************************************)
LEMMA ConfigsStay ==
  ASSUME [Next]_vars, ~ RegisterKey, ~ LoadRaises
  PROVE  UNCHANGED <<config, asked>>
<1>1. ASSUME NEW f \in Fns, RegisterGlobal(f) \/ \E ps \in PatternLists : RegisterLayers(f, ps)
      PROVE  UNCHANGED <<config, asked>>
  BY <1>1, Zenon DEF RegisterGlobal, RegisterLayers, BeginRegister, keyVars, ghosts
<1>2. ASSUME NEW path \in disk, FileVanishes(path) PROVE UNCHANGED <<config, asked>>
  BY <1>2, Zenon DEF FileVanishes, keyVars, ghosts
<1>3. ASSUME NEW f \in Filters, NEW c \in Captures, BeginAttach(f, c)
      PROVE  UNCHANGED <<config, asked>>
  BY <1>3, Zenon DEF BeginAttach, keyVars
<1>4. ASSUME NEW k \in Keys, InitAccumulator(k) PROVE UNCHANGED <<config, asked>>
  BY <1>4, Zenon DEF InitAccumulator
<1>5. CASE \/ Export \/ SaveRaises \/ CompileRaises \/ RegisterReturns \/ AttachReturns
           \/ Forward \/ Clear \/ Detach \/ Destroy \/ UNCHANGED vars
  BY <1>5, Zenon DEF Export, SaveRaises, CompileRaises, RegisterReturns, AttachReturns,
                Forward, Clear, Detach, Destroy, vars, keyVars, ghosts
<1> QED
  BY <1>1, <1>2, <1>3, <1>4, <1>5, Zenon DEF Next, Finished

LEMMA PathsStay ==
  ASSUME [Next]_vars, ~ Export
  PROVE  UNCHANGED <<global, perLayer>>
<1>1. ASSUME NEW f \in Fns, RegisterGlobal(f) \/ \E ps \in PatternLists : RegisterLayers(f, ps)
      PROVE  UNCHANGED <<global, perLayer>>
  BY <1>1, Zenon DEF RegisterGlobal, RegisterLayers, BeginRegister, pathVars
<1>2. ASSUME NEW path \in disk, FileVanishes(path) PROVE UNCHANGED <<global, perLayer>>
  BY <1>2, Zenon DEF FileVanishes
<1>3. ASSUME NEW f \in Filters, NEW c \in Captures, BeginAttach(f, c)
      PROVE  UNCHANGED <<global, perLayer>>
  BY <1>3, Zenon DEF BeginAttach, pathVars
<1>4. ASSUME NEW k \in Keys, InitAccumulator(k) PROVE UNCHANGED <<global, perLayer>>
  BY <1>4, Zenon DEF InitAccumulator, pathVars
<1>5. CASE \/ SaveRaises \/ CompileRaises \/ RegisterReturns \/ AttachReturns
           \/ Forward \/ Clear \/ Detach \/ Destroy \/ UNCHANGED vars
  BY <1>5, Zenon DEF SaveRaises, CompileRaises, RegisterReturns, AttachReturns,
                Forward, Clear, Detach, Destroy, vars, pathVars
<1>6. CASE RegisterKey \/ LoadRaises
  BY <1>6, Zenon DEF RegisterKey, LoadRaises, pathVars
<1> QED
  BY <1>1, <1>2, <1>3, <1>4, <1>5, <1>6, Zenon DEF Next, Finished

\* A layer that has a file to resolve to keeps one: nothing unregisters.
NoPath(l) == global = 0 /\ HitsIn(DOMAIN perLayer, l) = {}
LEMMA PathsGrow ==
  ASSUME Base, [Next]_vars, NEW l, NoPath(l)'
  PROVE  NoPath(l)
<1>1. CASE ~ Export
  BY <1>1, PathsStay DEF NoPath, HitsIn
<1>2. CASE Export
  <2>1. perLayer \in Seq((1 .. Len(fnOf)) \X Patterns) /\ Len(fnOf) \in Nat
    BY DEF Base, TypeOK
  <2>2. CASE Head(targets) = "None"
    <3>1. global' = Len(fnOf) + 1
      BY <1>2, <2>2 DEF Export
    <3> QED
      BY <2>1, <3>1 DEF NoPath
  <2>3. CASE Head(targets) # "None"
    <3> DEFINE new == <<Len(fnOf) + 1, Head(targets)>>
    <3>1. global' = global /\ perLayer' = Append(perLayer, new)
      BY <1>2, <2>3 DEF Export
    <3> HIDE DEF new
    <3>2. \A i \in DOMAIN perLayer : i \in DOMAIN perLayer' /\ perLayer'[i] = perLayer[i]
      BY <2>1, <3>1
    <3> QED
      BY <3>1, <3>2 DEF NoPath, HitsIn
  <2> QED
    BY <2>2, <2>3
<1> QED
  BY <1>1, <1>2

LEMMA ResolveInit == Init => ResolveInv
BY RegistrationAssumption DEF Init, ResolveInv

LEMMA ResolveStep == Base /\ ResolveInv /\ [Next]_vars => ResolveInv'
<1> SUFFICES ASSUME Base, ResolveInv, [Next]_vars, NEW q \in Keys
             PROVE  /\ config'[q] = asked'[q]
                    /\ config'[q] \in Fns => ~ NoPath(q[1])'
  BY DEF ResolveInv, NoPath
<1>1. /\ config[q] = asked[q]
      /\ config[q] \in Fns => ~ NoPath(q[1])
  BY DEF ResolveInv, NoPath
<1>2. NoPath(q[1])' => NoPath(q[1])
  BY PathsGrow
<1>3. CASE ~ RegisterKey /\ ~ LoadRaises
  BY <1>1, <1>2, <1>3, ConfigsStay
<1>4. /\ config \in [Keys -> Fns \cup {"identity", "absent"}]
      /\ asked \in [Keys -> Fns \cup {"identity", "absent"}]
      /\ "identity" \notin Fns
  BY RegistrationAssumption DEF Base, TypeOK
<1>5. CASE RegisterKey
  <2> DEFINE k == Head(todo)
             path == ResolvePath(k[1])
  <2>1. k \in Keys /\ k[1] \in Names
    BY <1>5, KeyEffect
  <2>2. /\ path = 0 <=> NoPath(k[1])
        /\ Precedence(k[1]) = IF path = 0 THEN "identity" ELSE fnOf[path]
        /\ path # 0 => fnOf[path] \in Fns
    BY <2>1, ResolveIs DEF Base, NoPath
  <2>3. /\ config' = [config EXCEPT ![k] = IF path # 0 THEN fnOf[path]
                                           ELSE IF @ = "absent" THEN "identity" ELSE @]
        /\ asked' = [asked EXCEPT ![k] = Precedence(k[1])]
    BY <1>5, Zenon DEF RegisterKey
  <2> HIDE DEF k, path
  <2>4. CASE q # k
    BY <1>1, <1>2, <1>4, <2>1, <2>3, <2>4
  <2>5. CASE q = k
    <3>1. asked'[q] = Precedence(k[1])
      BY <1>4, <2>1, <2>3, <2>5
    <3>2. config'[q] = IF path # 0 THEN fnOf[path]
                       ELSE IF config[q] = "absent" THEN "identity" ELSE config[q]
      BY <1>4, <2>1, <2>3, <2>5
    <3>3. CASE path # 0
      BY <1>2, <2>2, <2>5, <3>1, <3>2, <3>3
    <3>4. CASE path = 0
      <4>1. config[q] \notin Fns
        BY <1>1, <2>2, <2>5, <3>4
      <4>2. config[q] \in {"identity", "absent"}
        BY <1>4, <2>1, <2>5, <4>1
      <4> QED
        BY <1>4, <2>2, <3>1, <3>2, <3>4, <4>2
    <3> QED
      BY <3>3, <3>4
  <2> QED
    BY <2>4, <2>5
<1>6. CASE LoadRaises
  <2> DEFINE k == Head(todo)
  <2>1. /\ config' = [config EXCEPT ![k] = IF @ = "absent" THEN "identity" ELSE @]
        /\ asked' = [asked EXCEPT ![k] = IF @ = "absent" THEN "identity" ELSE @]
    BY <1>6, Zenon DEF LoadRaises
  <2> HIDE DEF k
  <2>2. /\ config'[q] \in {config[q], "identity"}
        /\ config'[q] = asked'[q]
    BY <1>1, <1>4, <2>1
  <2> QED
    BY <1>1, <1>2, <1>4, <2>2
<1> QED
  BY <1>3, <1>5, <1>6

\* Every key runs the reduction that the rule of precedence gave it when it
\* was last registered: session_register_hooks keeps the old reduction of a
\* key when no path comes with it, and by then it never had one.
THEOREM ReductionsResolved == Spec => []ResolvedAtAttach
<1>1. ResolveInv => ResolvedAtAttach
  BY DEF ResolveInv, ResolvedAtAttach
<1> QED
  BY <1>1, InitBase, BaseStep, ResolveInit, ResolveStep, PTL DEF Spec

-----------------------------------------------------------------------------
(***************************************************************************)
(* The hooks an attach installs.                                           *)
(***************************************************************************)
LEMMA CoverStay ==
  ASSUME [Next]_vars, ~ RegisterKey, ~ LoadRaises, ~ AttachReturns, ~ Detach, ~ Destroy,
         \A f \in Filters, c \in Captures : ~ BeginAttach(f, c)
  PROVE  /\ UNCHANGED <<want, hooks, todo>>
         /\ op = "attach" <=> op' = "attach"
<1>1. ASSUME NEW f \in Fns, RegisterGlobal(f) \/ \E ps \in PatternLists : RegisterLayers(f, ps)
      PROVE  UNCHANGED <<want, hooks, todo>> /\ (op = "attach" <=> op' = "attach")
  BY <1>1, Zenon DEF RegisterGlobal, RegisterLayers, BeginRegister, Idle, keyVars, ghosts
<1>2. ASSUME NEW path \in disk, FileVanishes(path)
      PROVE  UNCHANGED <<want, hooks, todo>> /\ (op = "attach" <=> op' = "attach")
  BY <1>2, Zenon DEF FileVanishes, keyVars, callVars, ghosts
<1>3. ASSUME NEW k \in Keys, InitAccumulator(k)
      PROVE  UNCHANGED <<want, hooks, todo>> /\ (op = "attach" <=> op' = "attach")
  BY <1>3, Zenon DEF InitAccumulator, callVars
<1>4. CASE \/ Export \/ SaveRaises \/ CompileRaises \/ RegisterReturns
           \/ Forward \/ Clear \/ UNCHANGED vars
  BY <1>4, Zenon DEF Export, SaveRaises, CompileRaises, RegisterReturns, Forward, Clear, vars,
                callVars, keyVars, ghosts
<1> QED
  BY <1>1, <1>2, <1>3, <1>4, Zenon DEF Next, Finished

LEMMA CoverInit == Init => CoverInv
BY DEF Init, CoverInv, Hooked, Pending

LEMMA CoverStep == Base /\ CoverInv /\ [Next]_vars => CoverInv'
<1> SUFFICES ASSUME Base, CoverInv, [Next]_vars PROVE CoverInv'
  OBVIOUS
<1>1. ASSUME NEW f \in Filters, NEW c \in Captures, BeginAttach(f, c) PROVE CoverInv'
  <2>1. want' = want \cup Range(todo')
    BY <1>1, BaseBeginAttach
  <2>2. hooks' = hooks /\ op' = "attach" /\ op = "idle"
    BY <1>1, Zenon DEF BeginAttach, Idle, keyVars
  <2>3. Hooked' = Hooked /\ Pending = {} /\ Pending' = Range(todo')
    BY <2>2 DEF Hooked, Pending
  <2> QED
    BY <2>1, <2>3 DEF CoverInv
<1>2. CASE RegisterKey
  <2> DEFINE k == Head(todo)
             id == IF accum[k] # 0 THEN accum[k] ELSE Len(store) + 1
  <2>1. /\ \A i \in DOMAIN hooks' : hooks'[i] = [key |-> k, accum |-> id]
                                    \/ (i \in DOMAIN hooks /\ hooks'[i] = hooks[i])
        /\ \A i \in DOMAIN hooks : i \in DOMAIN hooks' /\ hooks'[i] = hooks[i]
        /\ \E i \in DOMAIN hooks' : hooks'[i] = [key |-> k, accum |-> id]
    BY <1>2, HooksGrow
  <2>2. Range(todo) = {k} \cup Range(Tail(todo))
    BY <1>2, KeyEffect
  <2>3. todo' = Tail(todo) /\ op = "attach" /\ op' = "attach" /\ want' = want
    BY <1>2, Zenon DEF RegisterKey
  <2> HIDE DEF k, id
  <2>4. Hooked' = Hooked \cup {k}
    BY <2>1 DEF Hooked
  <2>5. Pending = Range(todo) /\ Pending' = Range(Tail(todo))
    BY <2>3 DEF Pending
  <2> QED
    BY <2>2, <2>3, <2>4, <2>5 DEF CoverInv
<1>3. CASE LoadRaises
  <2>1. hooks' = hooks /\ op' = "idle" /\ want' = {hooks[i].key : i \in DOMAIN hooks}
    BY <1>3, Zenon DEF LoadRaises
  <2> QED
    BY <2>1 DEF CoverInv, Hooked, Pending
<1>4. CASE AttachReturns
  <2>1. hooks' = hooks /\ want' = want /\ op = "attach" /\ op' = "idle" /\ todo = <<>>
    BY <1>4, Zenon DEF AttachReturns, keyVars, ghosts
  <2>2. Range(<<>>) = {}
    BY DEF Range
  <2> QED
    BY <2>1, <2>2 DEF CoverInv, Hooked, Pending
<1>5. CASE Detach \/ Destroy
  <2>1. hooks' = <<>> /\ want' = {} /\ op' = "idle"
    BY <1>5 DEF Detach, Destroy, Idle, callVars
  <2> QED
    BY <2>1 DEF CoverInv, Hooked, Pending
<1>6. CASE /\ ~ RegisterKey /\ ~ LoadRaises /\ ~ AttachReturns /\ ~ Detach /\ ~ Destroy
           /\ \A f \in Filters, c \in Captures : ~ BeginAttach(f, c)
  <2>1. UNCHANGED <<want, hooks, todo>> /\ (op = "attach" <=> op' = "attach")
    BY <1>6, CoverStay
  <2> QED
    BY <2>1 DEF CoverInv, Hooked, Pending
<1> QED
  BY <1>1, <1>2, <1>3, <1>4, <1>5, <1>6

\* Between calls the keys hooked are exactly those the attaches asked for, or
\* had set up when they raised: none is forgotten, none is left over.
THEOREM AttachCovers == Spec => []Covered
<1>1. CoverInv => Covered
  BY DEF CoverInv, Covered, Hooked, Pending
<1> QED
  BY <1>1, InitBase, BaseStep, CoverInit, CoverStep, PTL DEF Spec

-----------------------------------------------------------------------------
(***************************************************************************)
(* Seeds.                                                                  *)
(***************************************************************************)
LEMMA OwnInit == Init => OwnInv
BY DEF Init, OwnInv

\* A key that gets an accumulator keeps the one it has, or takes a new one.
LEMMA OwnKey ==
  ASSUME Base, OwnInv, NEW k \in Keys,
         accum' = [accum EXCEPT ![k] = IF accum[k] # 0 THEN accum[k] ELSE Len(store) + 1]
  PROVE  OwnInv'
<1>1. accum \in [Keys -> 0 .. Len(store)] /\ Len(store) \in Nat
  BY DEF Base, TypeOK
<1>2. \A q \in Keys : accum[q] \in Nat /\ accum[q] <= Len(store)
  BY <1>1
<1>3. \A q \in Keys : accum'[q] = IF q # k THEN accum[q]
                                  ELSE IF accum[k] # 0 THEN accum[k] ELSE Len(store) + 1
  BY <1>1
<1>4. ASSUME NEW q \in Keys, NEW r \in Keys, accum'[q] = accum'[r], accum'[q] # 0 PROVE q = r
  <2>1. CASE accum[k] # 0
    <3>1. accum'[q] = accum[q] /\ accum'[r] = accum[r]
      BY <1>3, <2>1
    <3> QED
      BY <1>4, <3>1 DEF OwnInv
  <2>2. CASE accum[k] = 0
    <3>1. q = k <=> accum'[q] = Len(store) + 1
      BY <1>1, <1>2, <1>3, <2>2
    <3>2. r = k <=> accum'[r] = Len(store) + 1
      BY <1>1, <1>2, <1>3, <2>2
    <3>3. q # k /\ r # k => accum'[q] = accum[q] /\ accum'[r] = accum[r]
      BY <1>3
    <3> QED
      BY <1>4, <3>1, <3>2, <3>3 DEF OwnInv
  <2> QED
    BY <2>1, <2>2
<1> QED
  BY <1>4 DEF OwnInv

LEMMA OwnStep == Base /\ OwnInv /\ [Next]_vars => OwnInv'
<1> SUFFICES ASSUME Base, OwnInv, [Next]_vars PROVE OwnInv'
  OBVIOUS
<1>1. CASE RegisterKey
  <2>1. Head(todo) \in Keys
    BY <1>1, KeyEffect
  <2> DEFINE k == Head(todo)
  <2>2. accum' = [accum EXCEPT ![k] = IF accum[k] # 0 THEN accum[k] ELSE Len(store) + 1]
    BY <1>1, Zenon DEF RegisterKey
  <2> HIDE DEF k
  <2>3. k \in Keys
    BY <2>1 DEF k
  <2> QED
    BY <2>2, <2>3, OwnKey
<1>2. ASSUME NEW k \in Keys, InitAccumulator(k) PROVE OwnInv'
  <2>1. accum' = [accum EXCEPT ![k] = IF accum[k] # 0 THEN accum[k] ELSE Len(store) + 1]
    BY <1>2, Zenon DEF InitAccumulator
  <2> QED
    BY <2>1, OwnKey
<1>3. CASE ~ RegisterKey /\ \A k \in Keys : ~ InitAccumulator(k)
  <2>1. accum' = accum
    BY <1>3, AccumStay
  <2> QED
    BY <2>1 DEF OwnInv
<1> QED
  BY <1>1, <1>2, <1>3

Seeding == RegisterKey \/ Forward \/ Clear \/ Destroy \/ \E k \in Keys : InitAccumulator(k)
LEMMA SeedsStay ==
  ASSUME [Next]_vars, ~ Seeding
  PROVE  UNCHANGED <<alive, accum, store, seeded>>
<1>1. ASSUME NEW f \in Fns, RegisterGlobal(f) \/ \E ps \in PatternLists : RegisterLayers(f, ps)
      PROVE  UNCHANGED <<alive, accum, store, seeded>>
  BY <1>1, Zenon DEF RegisterGlobal, RegisterLayers, BeginRegister, keyVars, ghosts
<1>2. ASSUME NEW path \in disk, FileVanishes(path) PROVE UNCHANGED <<alive, accum, store, seeded>>
  BY <1>2, Zenon DEF FileVanishes, keyVars, ghosts
<1>3. ASSUME NEW f \in Filters, NEW c \in Captures, BeginAttach(f, c)
      PROVE  UNCHANGED <<alive, accum, store, seeded>>
  BY <1>3, Zenon DEF BeginAttach, keyVars
<1>4. CASE \/ Export \/ SaveRaises \/ CompileRaises \/ RegisterReturns \/ AttachReturns
           \/ LoadRaises \/ Detach \/ UNCHANGED vars
  BY <1>4, Zenon DEF Export, SaveRaises, CompileRaises, RegisterReturns, AttachReturns,
                LoadRaises, Detach, vars, keyVars, ghosts
<1> QED
  BY <1>1, <1>2, <1>3, <1>4, Zenon DEF Next, Finished, Seeding

LEMMA SeedInit == Init => SeedInv
BY DEF Init, SeedInv

LEMMA SeedStep == Base /\ OwnInv /\ SeedInv /\ [Next]_vars => SeedInv'
<1> SUFFICES ASSUME Base, OwnInv, SeedInv, [Next]_vars PROVE SeedInv'
  OBVIOUS
<1> DEFINE Fed == {"seed", "captures", "fold of seed"}
<1>1. accum \in [Keys -> 0 .. Len(store)] /\ Len(store) \in Nat /\ DOMAIN store = 1 .. Len(store)
  BY DEF Base, TypeOK
<1>2. ASSUME alive, NEW q \in seeded
      PROVE  /\ q \in Keys /\ accum[q] \in 1 .. Len(store) /\ accum[q] # 0
             /\ store[accum[q]] \in Fed
  <2>1. q \in Keys /\ accum[q] # 0 /\ store[accum[q]] \in Fed
    BY <1>2 DEF SeedInv
  <2>2. accum[q] \in 0 .. Len(store)
    BY <1>1, <2>1
  <2>3. accum[q] \in 1 .. Len(store)
    <3>1. Len(store) \in Nat /\ accum[q] # 0
      BY <1>1, <2>1
    <3> QED
      BY <2>2, <3>1
  <2> QED
    BY <2>1, <2>3
<1>3. CASE RegisterKey
  <2> DEFINE k == Head(todo)
             id == IF accum[k] # 0 THEN accum[k] ELSE Len(store) + 1
  <2>1. k \in Keys /\ \A i \in 1 .. Len(store) : store'[i] = store[i]
    BY <1>3, KeyEffect
  <2>2. accum' = [accum EXCEPT ![k] = id] /\ seeded' = seeded /\ alive' = alive
    BY <1>3, Zenon DEF RegisterKey
  <2>3. accum[k] # 0 => id = accum[k]
    OBVIOUS
  <2> HIDE DEF k, id
  <2>4. ASSUME alive, NEW q \in seeded PROVE accum'[q] # 0 /\ store'[accum'[q]] \in Fed
    <3>1. q \in Keys /\ accum[q] \in 1 .. Len(store) /\ accum[q] # 0 /\ store[accum[q]] \in Fed
      BY <1>2, <2>4
    <3>2. accum'[q] = accum[q]
      BY <1>1, <2>1, <2>2, <2>3, <3>1
    <3> QED
      BY <2>1, <3>1, <3>2
  <2> QED
    BY <2>2, <2>4 DEF SeedInv
<1>4. CASE Forward
  <2>1. /\ accum' = accum /\ seeded' = seeded /\ alive' = alive
        /\ \A i \in DOMAIN store : store[i] \in Fed => store'[i] \in Fed
    BY <1>4, FireEffect, Zenon DEF ghosts
  <2>2. DOMAIN store = 1 .. Len(store)
    BY <1>1, Zenon
  <2>3. ASSUME alive, NEW q \in seeded PROVE accum'[q] # 0 /\ store'[accum'[q]] \in Fed
    <3>1. accum[q] \in 1 .. Len(store) /\ accum[q] # 0 /\ store[accum[q]] \in Fed
      BY <1>2, <2>3
    <3> QED
      BY <2>1, <2>2, <3>1
  <2> QED
    BY <2>1, <2>3 DEF SeedInv
<1>5. CASE Clear
  BY <1>5 DEF Clear, SeedInv
<1>6. CASE Destroy
  BY <1>6 DEF Destroy, SeedInv
<1>7. ASSUME NEW k \in Keys, InitAccumulator(k) PROVE SeedInv'
  <2> DEFINE id == IF accum[k] # 0 THEN accum[k] ELSE Len(store) + 1
  <2>1. /\ store'[id] = "seed" /\ id \in Nat /\ id # 0
        /\ \A i \in 1 .. Len(store) : i # id => store'[i] = store[i]
    BY <1>7, SeedEffect
  <2>2. /\ accum' = [accum EXCEPT ![k] = id]
        /\ seeded' \subseteq seeded \cup {k} /\ k[2] \in SeedKinds
    BY <1>7 DEF InitAccumulator
  <2>3. alive' = alive
    BY <1>7, Zenon DEF InitAccumulator
  <2> HIDE DEF id
  <2>4. ASSUME alive, NEW q \in seeded', q # k
        PROVE  accum'[q] # 0 /\ store'[accum'[q]] \in Fed
    <3>1. q \in seeded
      BY <2>2, <2>4
    <3>2. q \in Keys /\ accum[q] \in 1 .. Len(store) /\ accum[q] # 0 /\ store[accum[q]] \in Fed
      BY <1>2, <2>4, <3>1
    <3>3. accum'[q] = accum[q]
      BY <1>1, <2>2, <2>4, <3>2
    <3>4. accum[q] # id
      <4>1. CASE accum[k] # 0
        BY <2>4, <3>2, <4>1 DEF OwnInv, id
      <4>2. CASE accum[k] = 0
        <5>1. id = Len(store) + 1
          BY <4>2 DEF id
        <5>2. accum[q] <= Len(store) /\ accum[q] \in Nat /\ Len(store) \in Nat
          <6>1. accum[q] \in 1 .. Len(store)
            BY <3>2, Zenon
          <6>2. Len(store) \in Nat
            BY <1>1, Zenon
          <6> QED
            BY <6>1, <6>2
        <5> QED
          BY <5>1, <5>2
      <4> QED
        BY <4>1, <4>2
    <3> QED
      BY <2>1, <3>2, <3>3, <3>4
  <2>5. accum'[k] = id
    BY <1>1, <2>2
  <2>6. \A q \in seeded' : alive => accum'[q] # 0 /\ store'[accum'[q]] \in Fed
    BY <2>1, <2>4, <2>5
  <2>7. seeded' \subseteq {q \in Keys : q[2] \in SeedKinds}
    BY <2>2 DEF SeedInv
  <2> QED
    BY <2>3, <2>6, <2>7 DEF SeedInv
<1>8. CASE ~ Seeding
  <2>1. UNCHANGED <<alive, accum, store, seeded>>
    BY <1>8, SeedsStay
  <2> QED
    BY <2>1 DEF SeedInv
<1> QED
  BY <1>3, <1>4, <1>5, <1>6, <1>7, <1>8 DEF Seeding

\* Where seeds are written under the name of a key, with its suffix, what the
\* hooks of the layer fold starts from the seed.  Under the bare name of the
\* layer it does not: the run Registration_seed shows one that is lost.
THEOREM SeedsAreSeen ==
  ASSUME "bare" \notin SeedKinds
  PROVE  Spec => []SeedSeen
<1>1. Base /\ SharedAccumulator /\ SeedInv => SeedSeen
  <2> SUFFICES ASSUME Base, SharedAccumulator, SeedInv, NEW i \in DOMAIN hooks,
                      \/ hooks[i].key \in seeded
                      \/ <<hooks[i].key[1], "bare">> \in seeded
               PROVE  store[hooks[i].accum] # "fold"
    BY DEF SeedSeen
  <2>1. alive
    BY DEF Base
  <2>2. <<hooks[i].key[1], "bare">> \notin seeded
    BY DEF SeedInv
  <2>3. accum[hooks[i].key] = hooks[i].accum
    BY DEF SharedAccumulator
  <2> QED
    BY <2>1, <2>2, <2>3 DEF SeedInv
<1> QED
  BY <1>1, InitBase, BaseStep, OwnInit, OwnStep, SeedInit, SeedStep, AccumulatorIsShared,
     PTL DEF Spec
=============================================================================

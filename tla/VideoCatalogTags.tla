--------------------------- MODULE VideoCatalogTags ---------------------------
(***************************************************************************)
(* What sanitizeTags makes of every list of tags: FirstSpellings, which    *)
(* TagsAsPublished states.  sanitizeTags is a loop, here a recursive       *)
(* function of the number of tags read; its values are found by induction  *)
(* on that number.                                                         *)
(***************************************************************************)
EXTENDS VideoCatalog, FiniteSetTheorems, SequenceTheorems, WellFoundedInduction, TLAPS

-----------------------------------------------------------------------------
(* Induction on the natural numbers, over a set instead of a predicate.    *)

\* A set of numbers with 0, and with n + 1 wherever it has n, has all of them.
LEMMA NatSetInduction ==
    ASSUME NEW S \in SUBSET Nat, 0 \in S, \A n \in S : n + 1 \in S
    PROVE  S = Nat
<1> SUFFICES ASSUME Nat \ S # {} PROVE FALSE
  OBVIOUS
<1>1. \E x \in Nat \ S : \A y \in Nat \ S : <<y, x>> \notin OpToRel(<, Nat)
  BY NatLessThanWellFounded, WFMin, Zenon
<1>2. PICK x \in Nat \ S : \A y \in Nat \ S : ~ (y < x)
  BY <1>1, Zenon DEF OpToRel
<1>3. x # 0 /\ x - 1 \in Nat
  BY <1>2
<1>4. x - 1 \in S
  BY <1>2, <1>3
<1>5. (x - 1) + 1 \in S
  BY <1>4
<1> QED
  BY <1>2, <1>5

-----------------------------------------------------------------------------
(* The loop.                                                               *)

\* What has been kept of the first n tags, for each n.
Loop(tags, N) ==
    CHOOSE kept : kept = [n \in 0 .. N |-> IF n = 0 THEN <<>>
                                           ELSE Keep(kept[n - 1], tags[n])]

\* sanitizeTags is what the loop has kept at its end.
LEMMA SanitizeIsLoop ==
    ASSUME NEW tags
    PROVE  sanitizeTags(tags) = Loop(tags, Len(tags))[Len(tags)]
BY DEF sanitizeTags, Loop

\* The recursive definition has a solution for every number of tags.
LEMMA LoopExists ==
    ASSUME NEW tags, NEW N \in Nat
    PROVE  Loop(tags, N) = [n \in 0 .. N |-> IF n = 0 THEN <<>>
                                             ELSE Keep(Loop(tags, N)[n - 1], tags[n])]
<1> DEFINE Solves(f, m) == f = [n \in 0 .. m |-> IF n = 0 THEN <<>>
                                                ELSE Keep(f[n - 1], tags[n])]
           S == {m \in Nat : \E f : Solves(f, m)}
<1>1. 0 \in S
  <2> DEFINE f == [n \in 0 .. 0 |-> <<>>]
  <2>1. Solves(f, 0)
    OBVIOUS
  <2> QED
    BY <2>1
<1>2. ASSUME NEW m \in S PROVE m + 1 \in S
  <2>1. PICK f : Solves(f, m)
    BY <1>2
  <2> DEFINE next == Keep(f[m], tags[m + 1])
             g == [n \in 0 .. m + 1 |-> IF n = m + 1 THEN next ELSE f[n]]
  <2> HIDE DEF next
  <2>2. Solves(g, m + 1)
    <3>1. ASSUME NEW n \in 0 .. m + 1
          PROVE  g[n] = IF n = 0 THEN <<>> ELSE Keep(g[n - 1], tags[n])
      <4>1. CASE n = 0
        BY <4>1, <2>1
      <4>2. CASE n = m + 1
        <5>1. g[n - 1] = f[m] /\ g[n] = next
          BY <4>2
        <5> QED
          BY <4>2, <5>1 DEF next
      <4>3. CASE n \in 1 .. m
        <5>1. g[n - 1] = f[n - 1] /\ g[n] = f[n]
          BY <4>3
        <5>2. f[n] = Keep(f[n - 1], tags[n])
          BY <4>3, <2>1
        <5> QED
          BY <4>3, <5>1, <5>2
      <4> QED
        BY <4>1, <4>2, <4>3
    <3> QED
      BY <3>1
  <2>3. m + 1 \in Nat
    OBVIOUS
  <2> QED
    BY <2>2, <2>3
<1>3. S = Nat
  <2> HIDE DEF S
  <2>1. S \in SUBSET Nat
    BY DEF S
  <2> QED
    BY <1>1, <1>2, <2>1, NatSetInduction
<1>4. \E f : Solves(f, N)
  BY <1>3
<1> QED
  BY <1>4 DEF Loop

\* What the loop keeps of n + 1 tags, from what it has kept of n.
LEMMA LoopStep ==
    ASSUME NEW tags, NEW N \in Nat
    PROVE  /\ Loop(tags, N)[0] = <<>>
           /\ \A n \in 0 .. N - 1 :
                Loop(tags, N)[n + 1] = Keep(Loop(tags, N)[n], tags[n + 1])
<1> DEFINE kept == Loop(tags, N)
<1> HIDE DEF kept
<1>1. kept = [n \in 0 .. N |-> IF n = 0 THEN <<>> ELSE Keep(kept[n - 1], tags[n])]
  BY LoopExists DEF kept
<1>2. kept[0] = <<>>
  BY <1>1
<1>3. ASSUME NEW n \in 0 .. N - 1 PROVE kept[n + 1] = Keep(kept[n], tags[n + 1])
  <2>1. n + 1 \in 0 .. N /\ n + 1 # 0 /\ (n + 1) - 1 = n
    OBVIOUS
  <2>2. kept[n + 1] = Keep(kept[(n + 1) - 1], tags[n + 1])
    BY <1>1, <2>1
  <2> QED
    BY <2>1, <2>2
<1> QED
  BY <1>2, <1>3 DEF kept

-----------------------------------------------------------------------------
(* First spellings and their places.                                       *)

\* A trimmed tag is a tag, with the same key; it cannot be trimmed further.
LEMMA TrimOnce ==
    ASSUME NEW t \in DOMAIN Key
    PROVE  /\ Trim[t] \in DOMAIN Key /\ Trim[Trim[t]] = Trim[t]
           /\ KeyOf(Trim[t]) = KeyOf(t)
BY TrimAssumption DEF KeyOf

\* The first spellings among the first n tags.
FirstIn(tags, n) == {j \in First(tags) : j <= n}

\* The place of a tag among the first spellings.
Place(tags, j) == Cardinality(FirstIn(tags, j))

\* One more tag read is one more first spelling, or none.
LEMMA FirstInStep ==
    ASSUME NEW tags \in Seq(DOMAIN Key), NEW n \in 0 .. Len(tags) - 1
    PROVE  /\ FirstIn(tags, 0) = {}
           /\ FirstIn(tags, n + 1) = IF n + 1 \in First(tags)
                                     THEN FirstIn(tags, n) \cup {n + 1}
                                     ELSE FirstIn(tags, n)
           /\ n + 1 \in First(tags) <=>
                /\ KeyOf(tags[n + 1]) # Blank
                /\ \A k \in 1 .. n : KeyOf(tags[k]) # KeyOf(tags[n + 1])
BY DEF FirstIn, First

\* There are finitely many, and at most as many as tags.
LEMMA FirstFinite ==
    ASSUME NEW tags \in Seq(DOMAIN Key)
    PROVE  /\ First(tags) \subseteq 1 .. Len(tags) /\ First(tags) \subseteq Nat
           /\ IsFiniteSet(First(tags)) /\ Cardinality(First(tags)) \in 0 .. Len(tags)
<1>1. First(tags) \subseteq 1 .. Len(tags) /\ First(tags) \subseteq Nat
  BY DEF First
<1>2. IsFiniteSet(1 .. Len(tags)) /\ Cardinality(1 .. Len(tags)) = Len(tags)
  <2>1. Len(tags) \in Nat
    BY LenProperties
  <2>2. \A m \in Nat : IsFiniteSet(1 .. m) /\ Cardinality(1 .. m) = m
    BY FS_Interval
  <2> QED
    BY <2>1, <2>2
<1>3. IsFiniteSet(First(tags)) /\ Cardinality(First(tags)) <= Len(tags)
  BY <1>1, <1>2, FS_Subset
<1> QED
  BY <1>1, <1>3, FS_CardinalityType

\* So there are among the first n tags; among all tags they are all.
LEMMA FirstInFinite ==
    ASSUME NEW tags \in Seq(DOMAIN Key), NEW n \in Int
    PROVE  /\ FirstIn(tags, n) \subseteq First(tags)
           /\ IsFiniteSet(FirstIn(tags, n)) /\ Cardinality(FirstIn(tags, n)) \in Nat
           /\ n >= Len(tags) => FirstIn(tags, n) = First(tags)
<1>1. FirstIn(tags, n) \subseteq First(tags)
  BY DEF FirstIn
<1>2. IsFiniteSet(FirstIn(tags, n))
  BY <1>1, FirstFinite, FS_Subset
<1>3. ASSUME n >= Len(tags) PROVE FirstIn(tags, n) = First(tags)
  <2>1. \A j \in First(tags) : j <= n
    BY <1>3, FirstFinite
  <2> QED
    BY <2>1 DEF FirstIn
<1> QED
  BY <1>1, <1>2, <1>3, FS_CardinalityType

\* Places go up from 1 without a gap: two first spellings have different ones.
LEMMA PlaceGrows ==
    ASSUME NEW tags \in Seq(DOMAIN Key), NEW i \in First(tags), NEW j \in First(tags)
    PROVE  /\ Place(tags, j) \in 1 .. Cardinality(First(tags))
           /\ i < j => Place(tags, i) < Place(tags, j)
<1>1. i \in Nat /\ j \in Nat
  BY FirstFinite
<1>2. IsFiniteSet(FirstIn(tags, i)) /\ IsFiniteSet(FirstIn(tags, j)) /\ IsFiniteSet(First(tags))
  BY <1>1, FirstFinite, FirstInFinite
<1>3. FirstIn(tags, j) \subseteq First(tags) /\ j \in FirstIn(tags, j)
  BY <1>1 DEF FirstIn
<1>4. Cardinality(FirstIn(tags, j)) <= Cardinality(First(tags))
  BY <1>2, <1>3, FS_Subset
<1>5. Cardinality(FirstIn(tags, j)) # 0
  BY <1>2, <1>3, FS_EmptySet
<1>6. ASSUME i < j PROVE Cardinality(FirstIn(tags, i)) < Cardinality(FirstIn(tags, j))
  <2>1. FirstIn(tags, i) \subseteq FirstIn(tags, j) /\ j \notin FirstIn(tags, i)
    BY <1>1, <1>6, FirstFinite DEF FirstIn
  <2>2. /\ Cardinality(FirstIn(tags, i)) <= Cardinality(FirstIn(tags, j))
        /\ Cardinality(FirstIn(tags, i)) # Cardinality(FirstIn(tags, j))
    BY <1>2, <1>3, <2>1, FS_Subset
  <2> QED
    BY <1>1, <2>2, FirstInFinite
<1> QED
  BY <1>1, <1>4, <1>5, <1>6, FirstFinite, FirstInFinite DEF Place

\* Every place up to the number of first spellings is the place of one of them.
LEMMA PlaceTaken ==
    ASSUME NEW tags \in Seq(DOMAIN Key), NEW n \in 1 .. Cardinality(First(tags))
    PROVE  \E j \in First(tags) : Place(tags, j) = n
<1> DEFINE C == Cardinality(First(tags))
           f == [j \in First(tags) |-> Place(tags, j)]
<1>1. C \in Nat /\ IsFiniteSet(1 .. C) /\ Cardinality(1 .. C) = C
  BY FirstFinite, FS_Interval
<1>2. f \in Injection(First(tags), 1 .. C)
  <2>1. f \in [First(tags) -> 1 .. C]
    BY PlaceGrows
  <2>2. ASSUME NEW i \in First(tags), NEW j \in First(tags), f[i] = f[j]
        PROVE  i = j
    <3>1. i \in Nat /\ j \in Nat
      BY FirstFinite
    <3>2. ~ (i < j) /\ ~ (j < i)
      BY <2>2, PlaceGrows
    <3> QED
      BY <3>1, <3>2
  <2> QED
    BY <2>1, <2>2 DEF Injection, IsInjective
<1>3. f \in Surjection(First(tags), 1 .. C)
  BY <1>1, <1>2, FS_Injection
<1> QED
  BY <1>3 DEF Surjection

-----------------------------------------------------------------------------
(* What the loop keeps.                                                    *)

\* What has been kept of the first n tags: their first spellings, each at its
\* place; and a key was met before if it is one that is kept.
LoopInv(tags, n, kept) ==
    /\ kept \in Seq(DOMAIN Key)
    /\ Len(kept) = Cardinality(FirstIn(tags, n))
    /\ \A j \in FirstIn(tags, n) : kept[Place(tags, j)] = Trim[tags[j]]
    /\ \A x : x \in {Blank} \cup {KeyOf(u) : u \in ToSet(kept)}
                <=> x = Blank \/ \E j \in 1 .. n : x = KeyOf(tags[j])

\* A tag whose key is Blank, or was met before, is not kept, and is no first
\* spelling.
LEMMA LoopInvSkips ==
    ASSUME NEW tags \in Seq(DOMAIN Key), NEW n \in 0 .. Len(tags) - 1, NEW kept,
           LoopInv(tags, n, kept), n + 1 \notin First(tags)
    PROVE  LoopInv(tags, n + 1, Keep(kept, tags[n + 1]))
<1>1. FirstIn(tags, n + 1) = FirstIn(tags, n)
  BY FirstInStep
<1>2. KeyOf(tags[n + 1]) = Blank \/ \E k \in 1 .. n : KeyOf(tags[k]) = KeyOf(tags[n + 1])
  BY FirstInStep
<1>3. Keep(kept, tags[n + 1]) = kept
  BY <1>2, Zenon DEF Keep, LoopInv
<1>4. ASSUME NEW x
      PROVE  (\E j \in 1 .. n + 1 : x = KeyOf(tags[j])) \/ x = Blank
               <=> (\E j \in 1 .. n : x = KeyOf(tags[j])) \/ x = Blank
  <2>1. \A j : j \in 1 .. n + 1 <=> j \in 1 .. n \/ j = n + 1
    OBVIOUS
  <2> QED
    BY <1>2, <2>1
<1> QED
  BY <1>1, <1>3, <1>4 DEF LoopInv

\* The first spelling of another key is kept, at the next place.
LEMMA LoopInvKeeps ==
    ASSUME NEW tags \in Seq(DOMAIN Key), NEW n \in 0 .. Len(tags) - 1, NEW kept,
           LoopInv(tags, n, kept), n + 1 \in First(tags)
    PROVE  LoopInv(tags, n + 1, Keep(kept, tags[n + 1]))
<1> DEFINE t == tags[n + 1]
           more == Append(kept, Trim[t])
<1>0. /\ n \in Nat /\ n + 1 \in DOMAIN tags /\ t \in DOMAIN Key /\ kept \in Seq(DOMAIN Key)
      /\ Len(kept) \in Nat /\ Trim[t] \in DOMAIN Key /\ KeyOf(Trim[t]) = KeyOf(t)
  BY TrimOnce DEF LoopInv
<1>1. FirstIn(tags, n + 1) = FirstIn(tags, n) \cup {n + 1} /\ n + 1 \notin FirstIn(tags, n)
  <2>1. FirstIn(tags, n + 1) = FirstIn(tags, n) \cup {n + 1}
    BY FirstInStep
  <2> QED
    BY <1>0, <2>1 DEF FirstIn
<1>2. KeyOf(t) # Blank /\ ~ \E k \in 1 .. n : KeyOf(t) = KeyOf(tags[k])
  BY FirstInStep
<1>3. Keep(kept, t) = more
  BY <1>2, Zenon DEF Keep, LoopInv
<1>4. /\ more \in Seq(DOMAIN Key) /\ Len(more) = Len(kept) + 1 /\ more[Len(kept) + 1] = Trim[t]
      /\ \A i \in 1 .. Len(kept) : more[i] = kept[i]
  BY <1>0
<1>5. Cardinality(FirstIn(tags, n + 1)) = Len(kept) + 1
  BY <1>0, <1>1, FirstInFinite, FS_AddElement DEF LoopInv
<1>6. ASSUME NEW j \in FirstIn(tags, n + 1) PROVE more[Place(tags, j)] = Trim[tags[j]]
  <2>1. CASE j = n + 1
    BY <2>1, <1>4, <1>5 DEF Place
  <2>2. CASE j \in FirstIn(tags, n)
    <3>1. j \in First(tags) /\ j \in Int /\ j <= n
      BY <2>2, FirstFinite DEF FirstIn
    <3>2. FirstIn(tags, j) \subseteq FirstIn(tags, n)
      BY <1>0, <3>1, FirstFinite DEF FirstIn
    <3>3. Cardinality(FirstIn(tags, j)) <= Len(kept)
      BY <1>0, <3>1, <3>2, FirstInFinite, FS_Subset DEF LoopInv
    <3>4. Place(tags, j) \in 1 .. Len(kept)
      BY <1>0, <3>1, <3>3, PlaceGrows DEF Place
    <3> QED
      BY <1>4, <2>2, <3>4 DEF LoopInv
  <2> QED
    BY <1>1, <2>1, <2>2
<1>7. ASSUME NEW x
      PROVE  x \in {Blank} \cup {KeyOf(u) : u \in ToSet(more)}
               <=> x = Blank \/ \E j \in 1 .. n + 1 : x = KeyOf(tags[j])
  <2>1. ToSet(more) = ToSet(kept) \cup {Trim[t]}
    <3>1. DOMAIN more = 1 .. Len(kept) + 1 /\ DOMAIN kept = 1 .. Len(kept)
      BY <1>0, <1>4
    <3>2. \A i : i \in 1 .. Len(kept) + 1 <=> i \in 1 .. Len(kept) \/ i = Len(kept) + 1
      BY <1>0
    <3> QED
      BY <1>4, <3>1, <3>2 DEF ToSet
  <2>2. x \in {Blank} \cup {KeyOf(u) : u \in ToSet(more)}
          <=> x \in {Blank} \cup {KeyOf(u) : u \in ToSet(kept)} \/ x = KeyOf(t)
    BY <1>0, <2>1
  <2>3. x \in {Blank} \cup {KeyOf(u) : u \in ToSet(kept)}
          <=> x = Blank \/ \E j \in 1 .. n : x = KeyOf(tags[j])
    BY Zenon DEF LoopInv
  <2>4. (\E j \in 1 .. n + 1 : x = KeyOf(tags[j]))
          <=> (\E j \in 1 .. n : x = KeyOf(tags[j])) \/ x = KeyOf(t)
    <3>1. \A j : j \in 1 .. n + 1 <=> j \in 1 .. n \/ j = n + 1
      BY <1>0
    <3> QED
      BY <3>1
  <2> QED
    BY <2>2, <2>3, <2>4
<1> QED
  BY <1>3, <1>4, <1>5, <1>6, <1>7 DEF LoopInv

\* Hence LoopInv holds of whatever number of tags has been read.
LEMMA LoopInvHolds ==
    ASSUME NEW tags \in Seq(DOMAIN Key)
    PROVE  LoopInv(tags, Len(tags), sanitizeTags(tags))
<1> DEFINE N == Len(tags)
           kept == Loop(tags, N)
           S == {n \in Nat : n <= N => LoopInv(tags, n, kept[n])}
<1>0. N \in Nat
  BY LenProperties
<1>1. 0 \in S
  <2>1. kept[0] = <<>>
    BY <1>0, LoopStep
  <2>2. FirstIn(tags, 0) = {}
    BY DEF FirstIn, First
  <2>3. <<>> \in Seq(DOMAIN Key) /\ Len(<<>>) = 0 /\ ToSet(<<>>) = {}
    BY DEF ToSet
  <2>4. LoopInv(tags, 0, <<>>)
    <3>1. {KeyOf(u) : u \in ToSet(<<>>)} = {} /\ 1 .. 0 = {}
      BY <2>3
    <3>2. /\ Len(<<>>) = Cardinality(FirstIn(tags, 0))
          /\ \A j \in FirstIn(tags, 0) : <<>>[Place(tags, j)] = Trim[tags[j]]
      BY <2>2, <2>3, FS_EmptySet
    <3> QED
      BY <2>3, <3>1, <3>2, Zenon DEF LoopInv
  <2> QED
    BY <2>1, <2>4
<1>2. ASSUME NEW n \in S PROVE n + 1 \in S
  <2> SUFFICES ASSUME n + 1 <= N PROVE LoopInv(tags, n + 1, kept[n + 1])
    OBVIOUS
  <2>1. n \in 0 .. N - 1 /\ LoopInv(tags, n, kept[n])
    BY <1>0
  <2>2. kept[n + 1] = Keep(kept[n], tags[n + 1])
    BY <1>0, <2>1, LoopStep
  <2> HIDE DEF kept
  <2> QED
    BY <2>1, <2>2, LoopInvSkips, LoopInvKeeps
<1>3. S = Nat
  <2> HIDE DEF S
  <2>1. S \in SUBSET Nat
    BY DEF S
  <2> QED
    BY <1>1, <1>2, <2>1, NatSetInduction
<1>4. LoopInv(tags, N, kept[N])
  BY <1>0, <1>3
<1> QED
  BY <1>4, SanitizeIsLoop

\* Whatever the tags are, sanitizeTags keeps the first spelling of each, trimmed, in
\* the order given, with none left out and none twice.
THEOREM SanitizeKeepsFirstSpellings ==
    ASSUME NEW tags \in Seq(DOMAIN Key)
    PROVE  sanitizeTags(tags) = FirstSpellings(tags)
<1> DEFINE C == Cardinality(First(tags))
           kept == sanitizeTags(tags)
           At(n) == CHOOSE j \in First(tags) :
                      Cardinality({k \in First(tags) : k <= j}) = n
<1>1. LoopInv(tags, Len(tags), kept) /\ FirstIn(tags, Len(tags)) = First(tags)
  <2>1. Len(tags) \in Int
    BY LenProperties
  <2> QED
    BY <2>1, LoopInvHolds, FirstInFinite
<1>2. kept \in Seq(DOMAIN Key) /\ Len(kept) = C /\ C \in Nat
  BY <1>1, FirstFinite DEF LoopInv
<1>3. ASSUME NEW n \in 1 .. C PROVE kept[n] = Trim[tags[At(n)]]
  <2>1. \E j \in First(tags) : Cardinality({k \in First(tags) : k <= j}) = n
    BY PlaceTaken DEF Place, FirstIn
  <2>2. At(n) \in First(tags) /\ Place(tags, At(n)) = n
    BY <2>1 DEF Place, FirstIn
  <2> HIDE DEF At
  <2> QED
    BY <1>1, <2>2 DEF LoopInv
<1>4. kept = [n \in 1 .. C |-> Trim[tags[At(n)]]]
  <2> HIDE DEF kept, At
  <2>1. kept = [n \in 1 .. C |-> kept[n]]
    BY <1>2
  <2> QED
    BY <2>1, <1>3
<1> QED
  BY <1>4 DEF FirstSpellings

\* Sanitised tags are trimmed and have different keys, none of them Blank.
LEMMA SanitizedAreFirst ==
    ASSUME NEW tags \in Seq(DOMAIN Key)
    PROVE  /\ sanitizeTags(tags) \in Seq(DOMAIN Key)
           /\ First(sanitizeTags(tags)) = 1 .. Len(sanitizeTags(tags))
           /\ \A n \in 1 .. Len(sanitizeTags(tags)) :
                Trim[sanitizeTags(tags)[n]] = sanitizeTags(tags)[n]
<1> DEFINE kept == sanitizeTags(tags)
<1>1. LoopInv(tags, Len(tags), kept) /\ FirstIn(tags, Len(tags)) = First(tags)
  <2>1. Len(tags) \in Int
    BY LenProperties
  <2> QED
    BY <2>1, LoopInvHolds, FirstInFinite
<1> HIDE DEF kept
<1>2. kept \in Seq(DOMAIN Key) /\ Len(kept) = Cardinality(First(tags)) /\ Len(kept) \in Nat
  BY <1>1, FirstFinite DEF LoopInv
<1>3. ASSUME NEW n \in 1 .. Len(kept)
      PROVE  \E j \in First(tags) : /\ Place(tags, j) = n /\ kept[n] = Trim[tags[j]]
                                    /\ Trim[kept[n]] = kept[n]
                                    /\ KeyOf(kept[n]) = KeyOf(tags[j])
  <2>1. PICK j \in First(tags) : Place(tags, j) = n
    BY <1>2, PlaceTaken
  <2>2. kept[n] = Trim[tags[j]]
    BY <1>1, <2>1 DEF LoopInv
  <2>3. tags[j] \in DOMAIN Key
    BY <2>1, FirstFinite
  <2> QED
    BY <2>1, <2>2, <2>3, TrimOnce
<1>4. ASSUME NEW n \in 1 .. Len(kept)
      PROVE  KeyOf(kept[n]) # Blank /\ \A m \in 1 .. n - 1 : KeyOf(kept[m]) # KeyOf(kept[n])
  <2>1. PICK j \in First(tags) : Place(tags, j) = n /\ KeyOf(kept[n]) = KeyOf(tags[j])
    BY <1>3
  <2>2. KeyOf(kept[n]) # Blank
    BY <2>1 DEF First
  <2>3. ASSUME NEW m \in 1 .. n - 1 PROVE KeyOf(kept[m]) # KeyOf(kept[n])
    <3>1. PICK i \in First(tags) : Place(tags, i) = m /\ KeyOf(kept[m]) = KeyOf(tags[i])
      BY <1>2, <1>3, m \in 1 .. Len(kept)
    <3>2. i \in Nat /\ j \in Nat /\ i # j
      BY <2>1, <3>1, FirstFinite
    <3>3. i < j
      BY <2>1, <3>1, <3>2, PlaceGrows
    <3>4. i \in 1 .. j - 1
      BY <3>2, <3>3, FirstFinite
    <3> QED
      BY <2>1, <3>1, <3>4 DEF First
  <2> QED
    BY <2>2, <2>3
<1>5. First(kept) = 1 .. Len(kept)
  <2>1. DOMAIN kept = 1 .. Len(kept)
    BY <1>2
  <2> QED
    BY <1>4, <2>1 DEF First
<1> QED
  BY <1>2, <1>3, <1>5 DEF kept

\* The entity's second pass changes nothing: what is stored is what was validated.
THEOREM NormalizeKeepsSanitized ==
    ASSUME NEW tags \in Seq(DOMAIN Key)
    PROVE  normalizeTags(sanitizeTags(tags)) = sanitizeTags(tags)
<1> DEFINE kept == sanitizeTags(tags)
           again == sanitizeTags(kept)
<1>1. /\ kept \in Seq(DOMAIN Key) /\ First(kept) = 1 .. Len(kept)
      /\ \A n \in 1 .. Len(kept) : Trim[kept[n]] = kept[n]
  BY SanitizedAreFirst
<1> HIDE DEF kept
<1>2. Len(kept) \in Nat
  BY <1>1, LenProperties
<1>3. LoopInv(kept, Len(kept), again) /\ FirstIn(kept, Len(kept)) = First(kept)
  BY <1>1, <1>2, LoopInvHolds, FirstInFinite
<1>4. \A n \in Nat : IsFiniteSet(1 .. n) /\ Cardinality(1 .. n) = n
  BY FS_Interval
<1>5. again \in Seq(DOMAIN Key) /\ Len(again) = Len(kept)
  <2>1. Cardinality(First(kept)) = Len(kept)
    BY <1>1, <1>2, <1>4
  <2> QED
    BY <1>3, <2>1 DEF LoopInv
<1>6. ASSUME NEW n \in 1 .. Len(kept) PROVE again[n] = kept[n]
  <2>1. FirstIn(kept, n) = 1 .. n
    BY <1>1, <1>2 DEF FirstIn
  <2>2. Place(kept, n) = n
    BY <1>4, <2>1, n \in Nat DEF Place
  <2> QED
    BY <1>1, <1>3, <2>2 DEF LoopInv
<1>7. again = kept
  <2> HIDE DEF again
  <2> QED
    BY <1>1, <1>5, <1>6, SeqEqual
<1> QED
  BY <1>7 DEF normalizeTags, kept

================================================================================

-------------------------- MODULE VideoCatalogProofs --------------------------
(***************************************************************************)
(* Proofs of VideoCatalog for every table, every request and every order   *)
(* of writes.  The inductive invariant is CatalogInv: what is stored, what *)
(* is shown of it, what a page has counted, and how far a walk has come.   *)
(***************************************************************************)
EXTENDS VideoCatalogTags

-----------------------------------------------------------------------------
(* The inductive invariant.                                                *)

\* Every row is as the publish request asked.
RowsStored == \A v \in Videos : Stored(v, row[v])

\* What is shown was found for this list, in rows as they are stored.
FoundInv ==
    /\ pc \in {"idle", "count", "find"} => found = <<>>
    /\ list.kind = "open" => list.filter = "Published"
    /\ \A i \in DOMAIN found :
         /\ found[i].user = Draft[found[i].video].user
         /\ found[i].tags = normalizeTags(sanitizeTags(Draft[found[i].video].tags))
         /\ list.kind = "own" => found[i].user = list.user
         /\ list.filter # "" => found[i].status = list.filter

\* Names are those of the uploaders shown.
NamesInv ==
    /\ pc # "reply" => names = <<>>
    /\ \A i \in DOMAIN names : i \in DOMAIN found /\ names[i] \in {found[i].user, "none"}

\* The videos of the page.
FoundVideos == {found[i].video : i \in DOMAIN found}

\* The totals that the rows of the list may have had when the page was found.
Near == total - drift .. total + drift

\* The rows of the list are near the total until the page is found, and the page
\* has the length of such a total; nothing drifts unless the walk takes note of it.
CountInv ==
    /\ pc = "find" => Cardinality(Matching(list)) \in Near
    /\ pc \in {"users", "reply"} /\ (page - 1) * size <= IntMax =>
         \E n \in Near : Len(found) = PageLength(n)
    /\ moved \cap {"left", "raced"} = {} => drift = 0

\* The rows that come before v in the list.
Before(v) == {w \in Matching(list) : Date(w, list) > Date(v, list)}

\* v is still in the list, and at least n rows come before it.
Ahead(v, n) == v \in Matching(list) /\ Cardinality(Before(v)) >= n

\* A video that the walk has not shown yet is on a page still to come, and the
\* total says that there is one.
WalkInv ==
    moved \subseteq {"entered"} =>
        /\ pc \in {"count", "find"} =>
             \A v \in begin \ seen : Ahead(v, (page - 1) * size)
        /\ pc \in {"users", "reply"} =>
             \A v \in begin \ (seen \cup FoundVideos) :
               Ahead(v, page * size) /\ page * size < total
        /\ pc = "reply" => FoundVideos \subseteq seen

\* Nothing has entered the list or changed its place in it.
Steady == moved \cap {"entered", "redated", "tied"} = {}

\* v has left the list, or fewer than n rows come before it.
Behind(v, n) == v \in Matching(list) => Cardinality(Before(v)) < n

\* Each video of a page is on it once; the offset of a further page fits an int; and
\* a video that was shown is on none of the pages still to come.
ShownInv ==
    /\ \A i, j \in DOMAIN found : i # j => found[i].video # found[j].video
    /\ pc \in {"count", "find"} /\ seen # {} => (page - 1) * size <= IntMax
    /\ Steady =>
         /\ pc \in {"count", "find"} => \A v \in seen : Behind(v, (page - 1) * size)
         /\ pc \in {"users", "reply"} =>
              \A v \in seen \cup FoundVideos : Behind(v, page * size)
         /\ pc = "users" => seen \cap FoundVideos = {}

CatalogInv ==
    /\ TypeOK /\ RowsStored /\ FoundInv /\ NamesInv
    /\ CountInv /\ WalkInv /\ ShownInv

-----------------------------------------------------------------------------
(* Pages.                                                                  *)

\* What is assumed of sizes, pages and dates, spelled out.
LEMMA SizesTyped ==
    /\ DefaultSize \in Nat \ {0} /\ DefaultSize <= MaxSize
    /\ MaxSize \in Nat \ {0} /\ MaxSize <= IntMax /\ IntMax \in Nat \ {0}
    /\ \A p \in Starts : p \in Int /\ p <= IntMax
    /\ \A s \in AskedSizes : s \in Int
    /\ \A d \in Dates : d \in Nat
<1>1. MaxSize \in Nat /\ IntMax \in Nat /\ MaxSize <= IntMax
  BY SizesAssumption
<1>2. DefaultSize \in 1 .. MaxSize
  BY SizesAssumption
<1>3. \A p \in Starts : p \in -IntMax .. IntMax
  BY SizesAssumption
<1>4. \A s \in AskedSizes : s \in -IntMax .. IntMax
  BY SizesAssumption
<1>5. \A d \in Dates : d \in Nat
  BY SizesAssumption
<1> QED
  BY <1>1, <1>2, <1>3, <1>4, <1>5

\* An int that fits does not wrap around.
LEMMA WrapFits ==
    ASSUME NEW n \in 0 .. IntMax
    PROVE  Wrap(n) = n
<1> DEFINE m == 2 * (IntMax + 1)
           a == n + IntMax + 1
<1>1. IntMax \in Nat /\ n \in Nat /\ n <= IntMax
  BY SizesAssumption
<1>2. m \in Nat \ {0} /\ a \in 0 .. m - 1
  BY <1>1
<1>3. a % m = a
  <2> HIDE DEF a, m
  <2> QED
    BY <1>2
<1> QED
  BY <1>1, <1>3 DEF Wrap

\* Any offset is an int.
LEMMA WrapIsInt ==
    ASSUME NEW n \in Int
    PROVE  Wrap(n) \in Int
<1> DEFINE m == 2 * (IntMax + 1)
           a == n + IntMax + 1
<1>1. m \in Nat \ {0} /\ a \in Int /\ IntMax \in Nat
  BY SizesAssumption
<1>2. a % m \in Int
  <2> HIDE DEF a, m
  <2> QED
    BY <1>1
<1> QED
  BY <1>1, <1>2 DEF Wrap

\* Larger factors make larger products.
LEMMA ProductsGrow ==
    ASSUME NEW i \in Nat, NEW j \in Nat, NEW k \in Nat, i <= j
    PROVE  i * k \in Nat /\ j * k \in Nat /\ i * k <= j * k
OBVIOUS

\* The pages up to TotalPages hold all n rows, and there are at most n.
LEMMA PagesHoldAll ==
    ASSUME NEW n \in Nat, NEW s \in Nat \ {0}
    PROVE  /\ TotalPages(n, s) \in Nat
           /\ TotalPages(n, s) * s >= n
           /\ TotalPages(n, s) <= n
           /\ \A k \in Nat : k < TotalPages(n, s) => k * s < n
<1> DEFINE q == (n + s - 1) \div s
<1>1. q \in Nat /\ q * s <= n + s - 1 /\ n + s - 1 < q * s + s
  OBVIOUS
<1> HIDE DEF q
<1>2. q * s >= n
  BY <1>1
<1>3. q <= n
  <2> SUFFICES ASSUME n + 1 <= q PROVE FALSE
    BY <1>1
  <2>1. (n + 1) * s <= q * s
    BY <1>1, ProductsGrow
  <2>2. (n + 1) * s = n * s + s /\ n * s >= n
    OBVIOUS
  <2> QED
    BY <1>1, <2>1, <2>2
<1>4. ASSUME NEW k \in Nat, k < q PROVE k * s < n
  <2>1. (k + 1) * s <= q * s /\ (k + 1) * s = k * s + s
    BY <1>1, <1>4, ProductsGrow, k + 1 <= q
  <2> QED
    BY <1>1, <2>1
<1> QED
  BY <1>1, <1>2, <1>3, <1>4 DEF q, TotalPages

\* The page, its size and the total are numbers.
LEMMA PageTyped ==
    ASSUME TypeOK
    PROVE  /\ page \in Nat \ {0} /\ page <= IntMax
           /\ size \in Nat \ {0} /\ size <= MaxSize /\ size <= IntMax
           /\ total \in Nat /\ total <= IntMax
           /\ IntMax \in Nat \ {0} /\ MaxSize \in Nat
<1>1. page \in 1 .. IntMax /\ size \in 1 .. MaxSize /\ total \in 0 .. Cardinality(Videos)
  BY DEF TypeOK
<1>2. IntMax \in Nat /\ MaxSize \in Nat /\ MaxSize <= IntMax
  BY SizesAssumption
<1>3. Cardinality(Videos) \in Nat /\ Cardinality(Videos) <= IntMax
  BY VideosAssumption, FS_CardinalityType
<1> QED
  BY <1>1, <1>2, <1>3

\* The repository's clamps change nothing, and the offset of a page that fits an
\* int is where the page begins.
LEMMA PageOffset ==
    ASSUME TypeOK
    PROVE  /\ Limit(size) = size
           /\ Offset(page, size) \in Int
           /\ (page - 1) * size \in Nat
           /\ (page - 1) * size <= IntMax => Offset(page, size) = (page - 1) * size
<1>1. /\ page \in Nat /\ page >= 1 /\ size \in Nat /\ size >= 1 /\ size <= MaxSize
      /\ IntMax \in Nat /\ MaxSize \in Nat
  BY PageTyped
<1>2. Limit(size) = size /\ NormalizePage(page) = page
  BY <1>1 DEF Limit, NormalizePage
<1>3. (page - 1) * size \in Nat
  BY <1>1, ProductsGrow, page - 1 \in Nat
<1> QED
  BY <1>1, <1>2, <1>3, WrapIsInt, WrapFits DEF Offset

-----------------------------------------------------------------------------
(* The rows of a list and their orderings.                                 *)

\* A list has finitely many rows.
LEMMA MatchingFinite ==
    ASSUME NEW l
    PROVE  /\ Matching(l) \subseteq Videos
           /\ IsFiniteSet(Matching(l))
           /\ Cardinality(Matching(l)) \in 0 .. Cardinality(Videos)
           /\ Cardinality(Videos) \in 0 .. IntMax
<1>1. Matching(l) \subseteq Videos
  BY DEF Matching
<1>2. IsFiniteSet(Matching(l)) /\ Cardinality(Matching(l)) <= Cardinality(Videos)
  BY <1>1, VideosAssumption, FS_Subset
<1>3. Cardinality(Matching(l)) \in Nat /\ Cardinality(Videos) \in Nat /\ IntMax \in Nat
  BY <1>2, VideosAssumption, SizesAssumption, FS_CardinalityType
<1> QED
  BY <1>1, <1>2, <1>3, VideosAssumption

\* The videos of a page are videos.
LEMMA FoundTyped == TypeOK => FoundVideos \subseteq Videos
<1> SUFFICES ASSUME TypeOK PROVE FoundVideos \subseteq Videos
  OBVIOUS
<1>1. found \in Seq(Item)
  BY DEF TypeOK
<1>2. \A i \in DOMAIN found : found[i] \in Item
  BY <1>1
<1> QED
  BY <1>2 DEF FoundVideos, Item

\* Dates are numbers.
LEMMA DateIsNat ==
    ASSUME TypeOK, NEW v \in Videos, NEW l
    PROVE  Date(v, l) \in Nat
<1>1. row[v].created \in Nat /\ row[v].published \in Nat
  <2>1. row[v] \in Row \/ row[v] = NoRow
    BY DEF TypeOK
  <2>2. CASE row[v] \in Row
    <3>1. row[v].created \in Dates /\ (row[v].published \in Dates \/ row[v].published = 0)
      BY <2>2 DEF Row
    <3>2. \A d \in Dates : d \in Nat
      BY SizesAssumption
    <3> QED
      BY <3>1, <3>2
  <2>3. CASE row[v] = NoRow
    BY <2>3 DEF NoRow
  <2> QED
    BY <2>1, <2>2, <2>3
<1> QED
  BY <1>1 DEF Date

\* An answer of the database has every row of the list once.
LEMMA OrderingHasAll ==
    ASSUME NEW l, NEW s \in Orderings(l)
    PROVE  /\ s \in Seq(Matching(l)) /\ Len(s) = Cardinality(Matching(l))
           /\ DOMAIN s = 1 .. Len(s)
           /\ \A v \in Matching(l) : \E i \in 1 .. Len(s) : s[i] = v
           /\ \A i, j \in 1 .. Len(s) : i # j => s[i] # s[j]
<1> DEFINE M == Matching(l)
           n == Cardinality(M)
<1>1. n \in Nat /\ IsFiniteSet(M)
  BY MatchingFinite
<1>2. s \in [1 .. n -> M] /\ \A i, j \in 1 .. n : i # j => s[i] # s[j]
  BY DEF Orderings, SetToSeqs
<1>3. IsFiniteSet(1 .. n) /\ Cardinality(1 .. n) = n
  <2> HIDE DEF n
  <2> QED
    BY <1>1, FS_Interval
<1>4. s \in Injection(1 .. n, M)
  BY <1>2 DEF Injection, IsInjective
<1>5. s \in Surjection(1 .. n, M)
  BY <1>1, <1>3, <1>4, FS_Injection
<1>6. s \in Seq(M) /\ Len(s) = n
  <2> HIDE DEF n, M
  <2> QED
    BY <1>1, <1>2
<1> QED
  BY <1>2, <1>5, <1>6 DEF Surjection

\* Where no two rows have the same date, a row comes after those with later dates.
LEMMA OrderingPlace ==
    ASSUME TypeOK, ~ Ties(list), NEW s \in Orderings(list), NEW i \in 1 .. Len(s)
    PROVE  Cardinality(Before(s[i])) = i - 1
<1> DEFINE M == Matching(list)
<1>1. /\ s \in Seq(M) /\ DOMAIN s = 1 .. Len(s) /\ Len(s) \in Nat
      /\ \A v \in M : \E j \in 1 .. Len(s) : s[j] = v
      /\ \A j, k \in 1 .. Len(s) : j # k => s[j] # s[k]
  BY OrderingHasAll, LenProperties
<1>2. \A j \in 1 .. Len(s) : s[j] \in M /\ Date(s[j], list) \in Nat
  <2>1. M \subseteq Videos
    BY MatchingFinite
  <2> QED
    BY <1>1, <2>1, DateIsNat
<1>3. \A j, k \in 1 .. Len(s) : j < k => Date(s[j], list) > Date(s[k], list)
  <2>1. \A j, k \in 1 .. Len(s) : j < k => Date(s[j], list) >= Date(s[k], list)
    BY <1>1 DEF Orderings
  <2>2. \A j, k \in 1 .. Len(s) : j < k => Date(s[j], list) # Date(s[k], list)
    BY <1>1, <1>2 DEF Ties
  <2> QED
    BY <1>2, <2>1, <2>2
<1> DEFINE f == [j \in 1 .. i - 1 |-> s[j]]
<1>4. Before(s[i]) = {s[j] : j \in 1 .. i - 1}
  <2>1. ASSUME NEW j \in 1 .. i - 1 PROVE s[j] \in Before(s[i])
    BY <1>2, <1>3, j \in 1 .. Len(s), j < i DEF Before
  <2>2. ASSUME NEW w \in Before(s[i]) PROVE \E j \in 1 .. i - 1 : w = s[j]
    <3>1. w \in M /\ Date(w, list) > Date(s[i], list)
      BY DEF Before
    <3>2. PICK j \in 1 .. Len(s) : s[j] = w
      BY <1>1, <3>1
    <3>3. j < i
      BY <1>2, <1>3, <3>1, <3>2
    <3> QED
      BY <3>2, <3>3
  <2> QED
    BY <2>1, <2>2
<1>5. f \in Bijection(1 .. i - 1, Before(s[i]))
  <2>1. f \in [1 .. i - 1 -> Before(s[i])]
    BY <1>4
  <2>2. \A j, k \in 1 .. i - 1 : f[j] = f[k] => j = k
    BY <1>1
  <2>3. \A w \in Before(s[i]) : \E j \in 1 .. i - 1 : f[j] = w
    BY <1>4
  <2> HIDE DEF f
  <2> QED
    BY <2>1, <2>2, <2>3 DEF Bijection, Injection, Surjection, IsInjective
<1>6. IsFiniteSet(1 .. i - 1) /\ Cardinality(1 .. i - 1) = i - 1
  <2>1. \A n \in Nat : IsFiniteSet(1 .. n) /\ Cardinality(1 .. n) = n
    BY FS_Interval
  <2> QED
    BY <2>1, i - 1 \in Nat
<1> QED
  BY <1>5, <1>6, FS_Bijection DEF ExistsBijection

-----------------------------------------------------------------------------
(* Writes to the table.                                                    *)

\* A step that leaves the page and its rows alone, and takes no row from the list
\* and changes no date in it, brings no row of it forward.
LEMMA AheadKept ==
    ASSUME NEW v \in Videos, NEW n \in Int, Ahead(v, n), UNCHANGED list,
           Matching(list) \subseteq Matching(list)',
           \A w \in Matching(list) : Date(w, list)' = Date(w, list)
    PROVE  Ahead(v, n)'
<1>1. v \in Matching(list)' /\ Before(v) \subseteq Before(v)'
  BY DEF Ahead, Before
<1>2. IsFiniteSet(Videos) /\ Matching(list)' \subseteq Videos
  BY VideosAssumption DEF Matching
<1>3. IsFiniteSet(Before(v)')
  BY <1>2, FS_Subset DEF Before
<1>4. Cardinality(Before(v)) <= Cardinality(Before(v)')
  BY <1>1, <1>3, FS_Subset
<1>5. Cardinality(Before(v)) \in Nat /\ Cardinality(Before(v)') \in Nat
  BY <1>1, <1>3, FS_Subset, FS_CardinalityType
<1> QED
  BY <1>1, <1>4, <1>5 DEF Ahead

\* A step that brings no row into the list and changes no date in it leaves behind
\* what is behind.
LEMMA BehindKept ==
    ASSUME NEW v \in Videos, NEW n \in Int, Behind(v, n), UNCHANGED list,
           Matching(list)' \subseteq Matching(list),
           \A w \in Matching(list) \cap Matching(list)' : Date(w, list)' = Date(w, list)
    PROVE  Behind(v, n)'
<1> SUFFICES ASSUME v \in Matching(list)' PROVE Cardinality(Before(v)') < n
  BY DEF Behind
<1>1. v \in Matching(list) /\ Before(v)' \subseteq Before(v)
  BY DEF Before
<1>2. IsFiniteSet(Before(v))
  BY MatchingFinite, FS_Subset DEF Before
<1>3. Cardinality(Before(v)') <= Cardinality(Before(v))
  BY <1>1, <1>2, FS_Subset
<1>4. Cardinality(Before(v)) \in Nat /\ Cardinality(Before(v)') \in Nat
  BY <1>1, <1>2, FS_Subset, FS_CardinalityType
<1> QED
  BY <1>1, <1>3, <1>4 DEF Behind

\* Where neither the list nor its rows change, all are where they were.
LEMMA AheadFrame ==
    ASSUME NEW v, NEW n, UNCHANGED <<row, list>>
    PROVE  /\ Matching(list)' = Matching(list) /\ Before(v)' = Before(v)
           /\ Ahead(v, n)' <=> Ahead(v, n)
           /\ Behind(v, n)' <=> Behind(v, n)
<1>1. Matching(list)' = Matching(list)
  BY DEF Matching
<1>2. Before(v)' = Before(v)
  BY <1>1 DEF Before, Date
<1> QED
  BY <1>1, <1>2 DEF Ahead, Behind

\* The counters are numbers.
LEMMA CountsTyped ==
    ASSUME TypeOK
    PROVE  total \in Int /\ 0 \in 0 .. writes
<1>1. writes \in 0 .. MaxWrites /\ total \in 0 .. Cardinality(Videos)
  BY DEF TypeOK
<1>2. MaxWrites \in Nat
  BY SizesAssumption
<1>3. Cardinality(Videos) \in Nat
  BY VideosAssumption, FS_CardinalityType
<1> QED
  BY <1>1, <1>2, <1>3

\* What a write notes of the list that is being read.
LEMMA WriteNotes ==
    ASSUME TypeOK, NEW v \in Videos, NEW new, Write(v, new), pc # "idle"
    PROVE  /\ moved \subseteq moved'
           /\ "left" \notin moved' => Matching(list) \subseteq Matching(list)'
           /\ "entered" \notin moved' => Matching(list)' \subseteq Matching(list)
           /\ "redated" \notin moved' =>
                \A w \in Matching(list) \cap Matching(list)' :
                  Date(w, list)' = Date(w, list)
           /\ \/ drift' = drift /\ (pc = "find" => Matching(list)' = Matching(list))
              \/ /\ drift' = drift + 1 /\ pc = "find"
                 /\ {"left", "raced"} \cap moved' # {}
                 /\ \/ v \in Matching(list) /\ Matching(list)' = Matching(list) \ {v}
                    \/ v \notin Matching(list) /\ Matching(list)' = Matching(list) \cup {v}
<1>1. /\ \A w \in Videos : row'[w] = IF w = v THEN new ELSE row[w]
      /\ UNCHANGED <<pc, list>>
  BY DEF Write, request, TypeOK
<1>2. \A w : w \in Matching(list) <=> w \in Videos /\ Matches(row[w], list)
  BY DEF Matching
<1>3. \A w : w \in Matching(list)' <=>
               w \in Videos /\ IF w = v THEN Matches(new, list) ELSE Matches(row[w], list)
  BY <1>1 DEF Matching, Matches
<1>4. /\ moved \subseteq moved'
      /\ "left" \notin moved' => ~ (Matches(row[v], list) /\ ~ Matches(new, list))
      /\ "entered" \notin moved' => ~ (~ Matches(row[v], list) /\ Matches(new, list))
  BY DEF Write, Note
<1>5. "left" \notin moved' => Matching(list) \subseteq Matching(list)'
  BY <1>2, <1>3, <1>4
<1>6. "entered" \notin moved' => Matching(list)' \subseteq Matching(list)
  BY <1>2, <1>3, <1>4
<1>7. ASSUME "redated" \notin moved', NEW w \in Matching(list) \cap Matching(list)'
      PROVE  Date(w, list)' = Date(w, list)
  <2>1. CASE w # v
    BY <1>1, <1>2, <2>1 DEF Date
  <2>2. CASE w = v
    <3>1. Matches(row[v], list) /\ Matches(new, list)
      BY <1>2, <1>3, <1>7, <2>2
    <3>2. /\ list.kind = "own" => new.created = row[v].created
          /\ list.kind = "open" => new.published = row[v].published
      BY <1>7, <3>1 DEF Write, Note
    <3>3. list.kind \in {"own", "open"}
      BY DEF TypeOK
    <3> QED
      BY <1>1, <1>2, <2>2, <3>2, <3>3 DEF Date
  <2> QED
    BY <2>1, <2>2
<1>8. CASE pc = "find" /\ Matches(row[v], list) /\ ~ Matches(new, list)
  <2>1. drift' = drift + 1 /\ "left" \in moved'
    BY <1>8 DEF Write, Note
  <2>2. v \in Matching(list) /\ Matching(list)' = Matching(list) \ {v}
    BY <1>2, <1>3, <1>8
  <2> QED
    BY <1>4, <1>5, <1>6, <1>7, <1>8, <2>1, <2>2
<1>9. CASE pc = "find" /\ ~ Matches(row[v], list) /\ Matches(new, list)
  <2>1. drift' = drift + 1 /\ "raced" \in moved'
    BY <1>9 DEF Write, Note
  <2>2. v \notin Matching(list) /\ Matching(list)' = Matching(list) \cup {v}
    BY <1>2, <1>3, <1>9
  <2> QED
    BY <1>4, <1>5, <1>6, <1>7, <1>9, <2>1, <2>2
<1>10. CASE pc # "find" \/ (Matches(row[v], list) <=> Matches(new, list))
  <2>1. drift' = drift
    BY <1>10 DEF Write, Note, Matches
  <2>2. pc = "find" => Matching(list)' = Matching(list)
    BY <1>2, <1>3, <1>10
  <2> QED
    BY <1>4, <1>5, <1>6, <1>7, <2>1, <2>2
<1> QED
  BY <1>8, <1>9, <1>10

\* A write keeps the invariant: it says when it disturbs the list.
LEMMA WriteKeeps ==
    ASSUME CatalogInv, NEW v \in Videos, NEW new \in Row, Stored(v, new), Write(v, new)
    PROVE  CatalogInv'
<1>0. /\ TypeOK /\ RowsStored /\ FoundInv /\ NamesInv /\ CountInv /\ WalkInv /\ ShownInv
      /\ UNCHANGED <<pc, list, page, size, total, found, names, begin, seen>>
  BY DEF CatalogInv, Write, request, client
<1>1. \A w \in Videos : row'[w] = IF w = v THEN new ELSE row[w]
  BY <1>0 DEF Write, TypeOK
<1>2. TypeOK'
  <2>1. row' \in [Videos -> Row \cup {NoRow}]
    BY <1>0 DEF Write, TypeOK
  <2>2. Len(new.tags) <= MaxTags
    <3>1. new # NoRow
      BY SizesAssumption DEF Row, NoRow
    <3> QED
      BY <3>1 DEF Stored, Validate
  <2>3. \A w \in Videos : Len(row'[w].tags) <= MaxTags
    BY <1>0, <1>1, <2>2 DEF TypeOK
  <2>4. writes' \in 0 .. MaxWrites
    <3>1. writes \in 0 .. MaxWrites /\ writes < MaxWrites /\ writes' = writes + 1
      BY <1>0 DEF Write, TypeOK
    <3>2. MaxWrites \in Nat
      BY SizesAssumption
    <3> QED
      BY <3>1, <3>2
  <2>5. moved' \subseteq {"left", "redated", "entered", "raced", "tied"}
    BY <1>0 DEF Write, Note, TypeOK
  <2>6. drift' \in 0 .. writes'
    <3>1. writes' = writes + 1 /\ (drift' = drift \/ drift' = drift + 1)
      BY DEF Write, Note
    <3>2. writes \in 0 .. MaxWrites /\ drift \in 0 .. writes
      BY <1>0 DEF TypeOK
    <3> QED
      BY <3>1, <3>2, SizesAssumption
  <2> QED
    BY <1>0, <2>1, <2>3, <2>4, <2>5, <2>6 DEF TypeOK
<1>3. RowsStored'
  BY <1>0, <1>1 DEF RowsStored
<1>4. FoundInv' /\ NamesInv'
  BY <1>0 DEF FoundInv, NamesInv
<1>5. CountInv'
  <2>1. /\ total \in Int /\ drift \in Nat /\ total' = total
        /\ Cardinality(Matching(list)) \in Nat /\ IsFiniteSet(Matching(list))
    <3>1. Cardinality(Videos) \in Nat
      BY VideosAssumption, FS_CardinalityType
    <3>2. MaxWrites \in Nat
      BY SizesAssumption
    <3>3. total \in 0 .. Cardinality(Videos) /\ drift \in 0 .. writes /\ writes \in 0 .. MaxWrites
      BY <1>0 DEF TypeOK
    <3>4. IsFiniteSet(Matching(list)) /\ Cardinality(Matching(list)) \in Nat
      BY MatchingFinite, FS_CardinalityType
    <3> QED
      BY <1>0, <3>1, <3>2, <3>3, <3>4
  <2>2. CASE pc = "idle"
    BY <1>0, <2>2 DEF Write, Note, CountInv
  <2>3. CASE pc # "idle" /\ drift' = drift /\ (pc = "find" => Matching(list)' = Matching(list))
    <3>1. moved \subseteq moved'
      BY <1>0, <2>3, WriteNotes
    <3>2. Near' = Near /\ \A n : PageLength(n)' = PageLength(n)
      BY <1>0, <2>3 DEF Near, PageLength
    <3> QED
      BY <1>0, <2>3, <3>1, <3>2 DEF CountInv
  <2>4. CASE /\ drift' = drift + 1 /\ pc = "find"
             /\ {"left", "raced"} \cap moved' # {}
             /\ \/ v \in Matching(list) /\ Matching(list)' = Matching(list) \ {v}
                \/ v \notin Matching(list) /\ Matching(list)' = Matching(list) \cup {v}
    <3>1. \/ Cardinality(Matching(list)') = Cardinality(Matching(list)) - 1
          \/ Cardinality(Matching(list)') = Cardinality(Matching(list)) + 1
      BY <2>1, <2>4, FS_AddElement, FS_RemoveElement
    <3>2. Cardinality(Matching(list)) \in total - drift .. total + drift
      BY <1>0, <2>4 DEF CountInv, Near
    <3>3. Cardinality(Matching(list)') \in Near'
      BY <2>1, <2>4, <3>1, <3>2 DEF Near
    <3> QED
      BY <1>0, <2>4, <3>3 DEF CountInv
  <2> QED
    BY <1>0, <2>2, <2>3, <2>4, WriteNotes
<1>6. WalkInv'
  <2> SUFFICES ASSUME moved' \subseteq {"entered"}, pc # "idle" PROVE WalkInv'
    BY <1>0 DEF WalkInv
  <2>1. /\ moved \subseteq {"entered"} /\ Matching(list) \subseteq Matching(list)'
        /\ \A w \in Matching(list) : Date(w, list)' = Date(w, list)
    <3>1. /\ moved \subseteq moved' /\ Matching(list) \subseteq Matching(list)'
          /\ \A w \in Matching(list) \cap Matching(list)' : Date(w, list)' = Date(w, list)
      BY <1>0, WriteNotes
    <3> QED
      BY <3>1
  <2>2. FoundVideos' = FoundVideos
    BY <1>0 DEF FoundVideos
  <2>3. (page - 1) * size \in Int /\ page * size \in Int /\ begin \subseteq Videos
    <3>1. page \in Int /\ size \in Int
      BY <1>0, PageTyped
    <3>2. begin \subseteq Videos
      BY <1>0 DEF TypeOK
    <3> QED
      BY <3>1, <3>2
  <2>4. \A w \in Videos : /\ Ahead(w, (page - 1) * size) => Ahead(w, (page - 1) * size)'
                          /\ Ahead(w, page * size) => Ahead(w, page * size)'
    BY <1>0, <2>1, <2>3, AheadKept
  <2> QED
    BY <1>0, <2>1, <2>2, <2>3, <2>4 DEF WalkInv
<1>7. ShownInv'
  <2>1. FoundVideos' = FoundVideos
    BY <1>0 DEF FoundVideos
  <2>2. (page - 1) * size \in Int /\ page * size \in Int
        /\ seen \subseteq Videos /\ FoundVideos \subseteq Videos
    <3>1. page \in Int /\ size \in Int
      BY <1>0, PageTyped
    <3>2. seen \subseteq Videos /\ FoundVideos \subseteq Videos
      BY <1>0, FoundTyped DEF TypeOK
    <3> QED
      BY <3>1, <3>2
  <2>3. ASSUME Steady', pc # "idle"
        PROVE  /\ Steady
               /\ \A w \in Videos :
                    /\ Behind(w, (page - 1) * size) => Behind(w, (page - 1) * size)'
                    /\ Behind(w, page * size) => Behind(w, page * size)'
    <3>1. /\ Steady /\ Matching(list)' \subseteq Matching(list)
          /\ \A w \in Matching(list) \cap Matching(list)' : Date(w, list)' = Date(w, list)
      BY <1>0, <2>3, WriteNotes DEF Steady
    <3> QED
      BY <1>0, <2>2, <3>1, BehindKept
  <2>4. /\ \A i, j \in DOMAIN found' : i # j => found'[i].video # found'[j].video
        /\ pc' \in {"count", "find"} /\ seen' # {} => (page' - 1) * size' <= IntMax
    BY <1>0 DEF ShownInv
  <2>5. ASSUME Steady', pc \in {"count", "find"}
        PROVE  \A w \in seen : Behind(w, (page - 1) * size)'
    BY <1>0, <2>2, <2>3, <2>5 DEF ShownInv
  <2>6. ASSUME Steady', pc \in {"users", "reply"}
        PROVE  \A w \in seen \cup FoundVideos : Behind(w, page * size)'
    BY <1>0, <2>2, <2>3, <2>6 DEF ShownInv
  <2>7. ASSUME Steady', pc = "users" PROVE seen \cap FoundVideos = {}
    BY <1>0, <2>3, <2>7 DEF ShownInv
  <2> QED
    BY <1>0, <2>1, <2>4, <2>5, <2>6, <2>7 DEF ShownInv
<1> QED
  BY <1>2, <1>3, <1>4, <1>5, <1>6, <1>7 DEF CatalogInv

\* A publish request stores sanitised tags that were validated as they are stored.
LEMMA PublishKeeps ==
    ASSUME CatalogInv, NEW v \in Videos, PublishVideo(v)
    PROVE  CatalogInv'
<1> DEFINE tags == normalizeTags(sanitizeTags(Draft[v].tags))
           new(d) == [status |-> "Processing", user |-> Draft[v].user, tags |-> tags,
                      created |-> d, published |-> 0]
<1>1. PICK d \in Dates : Write(v, new(d))
  BY DEF PublishVideo
<1>2. tags \in Seq(DOMAIN Key) /\ Validate(tags)
  <2>1. Draft[v].tags \in Seq(DOMAIN Key)
    BY VideosAssumption
  <2>2. tags = sanitizeTags(Draft[v].tags) /\ tags \in Seq(DOMAIN Key)
    BY <2>1, NormalizeKeepsSanitized, SanitizedAreFirst
  <2> HIDE DEF tags
  <2> QED
    BY <2>2 DEF PublishVideo
<1>3. new(d) \in Row
  BY <1>2 DEF Row, VideoStatus, Users
<1>4. Stored(v, new(d))
  BY <1>2, <1>3 DEF Stored
<1> HIDE DEF new
<1> QED
  BY <1>1, <1>3, <1>4, WriteKeeps

\* An update changes neither the user nor the tags.
LEMMA UpdateKeeps ==
    ASSUME CatalogInv, NEW v \in Videos, UpdateVideoTranscodeInfo(v)
    PROVE  CatalogInv'
<1>1. row[v] \in Row /\ Stored(v, row[v]) /\ row[v] # NoRow
  BY DEF CatalogInv, RowsStored, UpdateVideoTranscodeInfo, TypeOK
<1>2. CASE \E st \in VideoStatus \ {"Published"} : Write(v, [row[v] EXCEPT !.status = st])
  <2>1. PICK st \in VideoStatus \ {"Published"} : Write(v, [row[v] EXCEPT !.status = st])
    BY <1>2
  <2> DEFINE new == [row[v] EXCEPT !.status = st]
  <2>2. new \in Row /\ new.user = row[v].user /\ new.tags = row[v].tags
    BY <1>1 DEF Row, VideoStatus
  <2> HIDE DEF new
  <2>3. Stored(v, new)
    BY <1>1, <2>2 DEF Stored
  <2> QED
    BY <2>1, <2>2, <2>3, WriteKeeps DEF new
<1>3. CASE \E d \in Dates : Write(v, [row[v] EXCEPT !.status = "Published", !.published = d])
  <2>1. PICK d \in Dates : Write(v, [row[v] EXCEPT !.status = "Published", !.published = d])
    BY <1>3
  <2> DEFINE new == [row[v] EXCEPT !.status = "Published", !.published = d]
  <2>2. new \in Row /\ new.user = row[v].user /\ new.tags = row[v].tags
    BY <1>1 DEF Row, VideoStatus
  <2> HIDE DEF new
  <2>3. Stored(v, new)
    BY <1>1, <2>2 DEF Stored
  <2> QED
    BY <2>1, <2>2, <2>3, WriteKeeps DEF new
<1> QED
  BY <1>2, <1>3 DEF UpdateVideoTranscodeInfo

-----------------------------------------------------------------------------
(* A listing.                                                              *)

\* A list as a request may name it; the open one is that of the published videos.
IsList(l) ==
    /\ l \in [kind : {"own", "open"}, user : Users \cup {"none"},
              filter : VideoStatus \cup {""}]
    /\ l.kind = "open" => l.filter = "Published"

\* A client that begins at the first page has every row of the list ahead of it.
LEMMA BeginKeeps ==
    ASSUME CatalogInv, NEW l, NEW p \in Starts, NEW s \in AskedSizes, Begin(l, p, s),
           IsList(l)
    PROVE  CatalogInv'
<1>0. /\ TypeOK /\ RowsStored /\ FoundInv /\ NamesInv
      /\ pc = "idle" /\ pc' = "count" /\ list' = l /\ seen' = {} /\ moved' = {} /\ drift' = 0
      /\ page' = NormalizePage(p) /\ size' = NormalizeSize(s)
      /\ UNCHANGED <<row, writes, total, found, names>>
  BY DEF CatalogInv, Begin
<1>1. Matching(l)' = Matching(l) /\ Matching(l) \subseteq Videos
  BY <1>0 DEF Matching
<1>2. begin' = IF page' = 1 THEN Matching(l) ELSE {}
  BY DEF Begin
<1>3. found = <<>> /\ names = <<>>
  BY <1>0 DEF FoundInv, NamesInv
<1>4. page' \in 1 .. IntMax /\ size' \in 1 .. MaxSize
  <2>1. NormalizePage(p) \in 1 .. IntMax
    BY SizesTyped DEF NormalizePage
  <2>2. NormalizeSize(s) \in 1 .. MaxSize
    BY SizesTyped DEF NormalizeSize
  <2> QED
    BY <1>0, <2>1, <2>2
<1>5. TypeOK'
  <2>1. Len(found') <= size'
    <3>1. found' = <<>> /\ size' \in Nat
      BY <1>0, <1>3, <1>4, SizesTyped
    <3>2. Len(found') = 0
      BY <3>1
    <3> QED
      BY <3>1, <3>2
  <2>2. drift' \in 0 .. writes'
    BY <1>0, CountsTyped
  <2> QED
    BY <1>0, <1>1, <1>2, <1>4, <2>1, <2>2 DEF TypeOK, IsList
<1>6. RowsStored' /\ NamesInv' /\ CountInv'
  BY <1>0, <1>3 DEF RowsStored, NamesInv, CountInv
<1>7. FoundInv'
  <2>1. DOMAIN found' = {}
    BY <1>0, <1>3
  <2> QED
    BY <1>0, <1>3, <2>1 DEF FoundInv, IsList
<1>8. WalkInv'
  <2>1. ASSUME NEW v \in begin' PROVE Ahead(v, (page - 1) * size)'
    <3>1. page' = 1 /\ v \in Matching(list)'
      BY <1>0, <1>1, <1>2, <2>1 DEF Matching
    <3>2. (page' - 1) * size' = 0
      <4>1. size' \in Nat
        BY <1>4, SizesTyped
      <4>2. \A n \in Nat : (1 - 1) * n = 0
        OBVIOUS
      <4> QED
        BY <3>1, <4>1, <4>2
    <3>3. IsFiniteSet(Before(v)')
      <4>1. Before(v)' \subseteq Videos
        BY DEF Before, Matching
      <4> QED
        BY <4>1, VideosAssumption, FS_Subset
    <3>4. Cardinality(Before(v)') \in Nat
      BY <3>3, FS_CardinalityType
    <3>5. Cardinality(Before(v)') >= (page' - 1) * size'
      BY <3>2, <3>4
    <3> QED
      BY <3>1, <3>5 DEF Ahead
  <2> QED
    BY <1>0, <2>1 DEF WalkInv
<1>9. ShownInv'
  <2>1. DOMAIN found' = {}
    BY <1>0, <1>3
  <2> QED
    BY <1>0, <2>1 DEF ShownInv
<1> QED
  BY <1>5, <1>6, <1>7, <1>8, <1>9 DEF CatalogInv

\* Of the requests of a user.
LEMMA ListVideosKeeps ==
    ASSUME CatalogInv, NEW u \in Users, NEW f, NEW p \in Starts, NEW s \in AskedSizes,
           ListVideos(u, f, p, s)
    PROVE  CatalogInv'
<1> DEFINE l == [kind |-> "own", user |-> u, filter |-> Canonical(f)]
<1>1. Begin(l, p, s) /\ l.filter \in VideoStatus \cup {""}
  BY DEF ListVideos, Begin
<1>2. IsList(l)
  BY <1>1 DEF IsList
<1> HIDE DEF l
<1> QED
  BY <1>1, <1>2, BeginKeeps

\* Of the open listing: only what is published, whatever is asked for.
LEMMA ListOpenVideosKeeps ==
    ASSUME CatalogInv, NEW f, NEW p \in Starts, NEW s \in AskedSizes, ListOpenVideos(f, p, s)
    PROVE  CatalogInv'
<1> DEFINE l == [kind |-> "open", user |-> "none", filter |-> OpenFilter(f)]
<1>1. Begin(l, p, s) /\ l.filter = "Published"
  BY DEF ListOpenVideos, OpenFilter
<1>2. IsList(l)
  BY <1>1 DEF IsList, VideoStatus
<1> HIDE DEF l
<1> QED
  BY <1>1, <1>2, BeginKeeps

\* A listing that ends leaves nothing behind.
LEMMA FailsKeeps ==
    ASSUME CatalogInv, Fails
    PROVE  CatalogInv'
<1>0. /\ TypeOK /\ RowsStored /\ pc' = "idle" /\ list' = NoList /\ page' = 1
      /\ size' = DefaultSize /\ total' = 0 /\ found' = <<>> /\ names' = <<>>
      /\ begin' = {} /\ seen' = {} /\ moved' = {} /\ drift' = 0 /\ UNCHANGED <<row, writes>>
  BY DEF CatalogInv, Fails
<1>1. TypeOK'
  <2>1. page' \in 1 .. IntMax /\ size' \in 1 .. MaxSize
    BY <1>0, SizesTyped
  <2>2. total' \in 0 .. Cardinality(Videos)
    BY <1>0, VideosAssumption, FS_CardinalityType
  <2>3. Len(found') = 0 /\ Len(names') = 0 /\ found' \in Seq(Item)
        /\ names' \in Seq(Users \cup {"none"})
    BY <1>0
  <2>4. Len(found') <= size'
    BY <1>0, <2>3, SizesTyped
  <2>5. list' \in [kind : {"own", "open"}, user : Users \cup {"none"},
                   filter : VideoStatus \cup {""}]
    BY <1>0 DEF NoList
  <2>6. drift' \in 0 .. writes'
    BY <1>0, CountsTyped
  <2> QED
    BY <1>0, <2>1, <2>2, <2>3, <2>4, <2>5, <2>6 DEF TypeOK
<1>2. RowsStored' /\ NamesInv' /\ CountInv' /\ WalkInv'
  BY <1>0 DEF RowsStored, NamesInv, CountInv, WalkInv
<1>3. FoundInv'
  <2>1. DOMAIN found' = {}
    BY <1>0
  <2>2. list'.kind # "open"
    BY <1>0 DEF NoList
  <2> QED
    BY <1>0, <2>1, <2>2 DEF FoundInv
<1>4. ShownInv'
  <2>1. DOMAIN found' = {}
    BY <1>0
  <2> QED
    BY <1>0, <2>1 DEF ShownInv
<1> QED
  BY <1>1, <1>2, <1>3, <1>4 DEF CatalogInv

\* The count is that of the rows of the list.
LEMMA CountKeeps ==
    ASSUME CatalogInv, Count
    PROVE  CatalogInv'
<1> SUFFICES ASSUME ~ Fails PROVE CatalogInv'
  BY FailsKeeps
<1>0. /\ TypeOK /\ RowsStored /\ FoundInv /\ NamesInv /\ WalkInv /\ ShownInv
      /\ pc = "count" /\ pc' = "find" /\ total' = Cardinality(Matching(list)) /\ drift' = 0
      /\ UNCHANGED <<row, writes, list, page, size, found, names, begin, seen, moved>>
  BY DEF CatalogInv, Count, client
<1>1. total' \in 0 .. Cardinality(Videos)
  BY <1>0, MatchingFinite
<1>2. TypeOK'
  <2>1. drift' \in 0 .. writes'
    BY <1>0, CountsTyped
  <2> QED
    BY <1>0, <1>1, <2>1 DEF TypeOK
<1>3. RowsStored' /\ FoundInv' /\ NamesInv'
  BY <1>0 DEF RowsStored, FoundInv, NamesInv
<1>4. CountInv'
  <2>1. Matching(list)' = Matching(list)
    BY <1>0 DEF Matching
  <2>2. Cardinality(Videos) \in Nat
    BY VideosAssumption, FS_CardinalityType
  <2>3. total' \in Int
    BY <1>1, <2>2
  <2> QED
    BY <1>0, <2>1, <2>3 DEF CountInv, Near
<1>5. WalkInv'
  <2>1. moved \subseteq {"entered"} =>
          \A v \in begin \ seen : Ahead(v, (page - 1) * size)
    BY <1>0 DEF WalkInv
  <2>2. \A v : Ahead(v, (page - 1) * size)' <=> Ahead(v, (page - 1) * size)
    BY <1>0, AheadFrame
  <2> QED
    BY <1>0, <2>1, <2>2 DEF WalkInv
<1>6. ShownInv'
  <2>1. \A v : Behind(v, (page - 1) * size)' <=> Behind(v, (page - 1) * size)
    BY <1>0, AheadFrame
  <2> QED
    BY <1>0, <2>1 DEF ShownInv, Steady
<1> QED
  BY <1>2, <1>3, <1>4, <1>5, <1>6 DEF CatalogInv

\* The rows that the second query leaves out.
Skip == IF Offset(page, size) > 0 THEN Offset(page, size) ELSE 0

\* The page of an answer of the database.
PageRows(s) ==
    SubSeq(s, Skip + 1,
           IF Skip + Limit(size) > Len(s) THEN Len(s) ELSE Skip + Limit(size))

\* Of n rows the page after k others, of z rows at most, ends at PageEnd.
PageEnd(k, z, n) == IF k + z > n THEN n ELSE k + z

LEMMA PageEndIs ==
    ASSUME NEW k \in Nat, NEW z \in Nat \ {0}, NEW n \in Nat
    PROVE  /\ PageEnd(k, z, n) \in 0 .. n
           /\ (IF k + 1 <= PageEnd(k, z, n) THEN PageEnd(k, z, n) - (k + 1) + 1 ELSE 0) =
                IF n <= k THEN 0 ELSE IF n - k > z THEN z ELSE n - k
           /\ \A i \in k + 1 .. k + z :
                i <= n => k + 1 <= PageEnd(k, z, n) /\ i <= PageEnd(k, z, n)
BY DEF PageEnd

\* The page holds the rows after those that are left out, as many as fit.
LEMMA PageRowsAre ==
    ASSUME TypeOK, NEW s \in Orderings(list)
    PROVE  /\ Skip \in Nat
           /\ (page - 1) * size <= IntMax => Skip = (page - 1) * size
           /\ PageRows(s) \in Seq(Matching(list))
           /\ DOMAIN PageRows(s) = 1 .. Len(PageRows(s))
           /\ Len(PageRows(s)) = IF Len(s) <= Skip THEN 0
                                 ELSE IF Len(s) - Skip > size THEN size ELSE Len(s) - Skip
           /\ \A i \in 1 .. Len(s) :
                i > Skip /\ i <= Skip + size =>
                  i - Skip \in 1 .. Len(PageRows(s)) /\ PageRows(s)[i - Skip] = s[i]
           /\ \A k \in 1 .. Len(PageRows(s)) :
                k <= size /\ Skip + k \in 1 .. Len(s) /\ PageRows(s)[k] = s[Skip + k]
<1> DEFINE M == Matching(list)
           L == Len(s)
           hi == PageEnd(Skip, size, L)
<1>1. Skip \in Nat /\ ((page - 1) * size <= IntMax => Skip = (page - 1) * size)
  BY PageOffset DEF Skip
<1>2. s \in Seq(M) /\ L \in Nat /\ DOMAIN s = 1 .. L
  BY OrderingHasAll, LenProperties
<1>3. Skip \in Nat /\ size \in Nat \ {0} /\ L \in Nat
  BY <1>1, <1>2, PageTyped
<1> HIDE DEF M, L, hi
<1>4. /\ hi \in Nat /\ hi <= L
      /\ (IF Skip + 1 <= hi THEN hi - (Skip + 1) + 1 ELSE 0) =
           IF L <= Skip THEN 0 ELSE IF L - Skip > size THEN size ELSE L - Skip
      /\ \A i \in Skip + 1 .. Skip + size : i <= L => Skip + 1 <= hi /\ i <= hi
  BY <1>3, PageEndIs DEF hi
<1>5. \A i \in Skip + 1 .. hi : s[i] \in M
  BY <1>2, <1>3, <1>4 DEF L
<1>6. /\ PageRows(s) \in Seq(M)
      /\ Len(PageRows(s)) = IF Skip + 1 <= hi THEN hi - (Skip + 1) + 1 ELSE 0
      /\ \A i \in 1 .. hi - (Skip + 1) + 1 : PageRows(s)[i] = s[Skip + 1 + i - 1]
  <2>1. PageRows(s) = SubSeq(s, Skip + 1, hi)
    BY PageOffset DEF PageRows, PageEnd, hi, L
  <2>2. Skip + 1 \in Int /\ hi \in Int
    BY <1>3, <1>4
  <2> QED
    BY <1>5, <2>1, <2>2, SubSeqProperties
<1>7. ASSUME NEW i \in 1 .. L, i > Skip, i <= Skip + size
      PROVE  i - Skip \in 1 .. Len(PageRows(s)) /\ PageRows(s)[i - Skip] = s[i]
  <2>1. i \in Skip + 1 .. Skip + size /\ i <= L
    BY <1>3, <1>7
  <2>2. Skip + 1 <= hi /\ i <= hi
    BY <1>4, <2>1
  <2>3. i - Skip \in 1 .. hi - (Skip + 1) + 1 /\ Skip + 1 + (i - Skip) - 1 = i
    BY <1>3, <1>4, <2>1, <2>2
  <2> QED
    BY <1>6, <2>2, <2>3
<1>8. DOMAIN PageRows(s) = 1 .. Len(PageRows(s))
  BY <1>6
<1>9. ASSUME NEW k \in 1 .. Len(PageRows(s))
      PROVE  k <= size /\ Skip + k \in 1 .. L /\ PageRows(s)[k] = s[Skip + k]
  <2>1. k \in Nat /\ k >= 1 /\ k <= size /\ Skip + k <= L
    BY <1>3, <1>4, <1>6
  <2>2. PICK i \in 1 .. L : i = Skip + k
    BY <1>3, <2>1
  <2>3. i > Skip /\ i <= Skip + size /\ i - Skip = k
    BY <1>3, <2>1, <2>2
  <2>4. PageRows(s)[i - Skip] = s[i]
    BY <1>7, <2>3
  <2> QED
    BY <2>1, <2>2, <2>3, <2>4
<1> QED
  BY <1>1, <1>4, <1>6, <1>7, <1>8, <1>9 DEF M, L

\* The page that is found is of rows of the list, as long as the count says, and
\* every video the walk has not shown yet is on it or after it.
LEMMA FindKeeps ==
    ASSUME CatalogInv, Find
    PROVE  CatalogInv'
<1> SUFFICES ASSUME ~ Fails PROVE CatalogInv'
  BY FailsKeeps
<1>0. /\ TypeOK /\ RowsStored /\ FoundInv /\ NamesInv /\ CountInv /\ WalkInv /\ ShownInv
      /\ pc = "find" /\ pc' = "users"
      /\ moved' = IF Ties(list) THEN moved \cup {"tied"} ELSE moved
      /\ UNCHANGED <<row, writes, list, page, size, total, names, begin, seen, drift>>
  BY DEF CatalogInv, Find, client
<1> DEFINE Shown(v) == [video |-> v, user |-> row[v].user,
                        status |-> row[v].status, tags |-> row[v].tags]
<1>1. PICK s \in Orderings(list) :
        found' = [i \in DOMAIN PageRows(s) |-> Shown(PageRows(s)[i])]
  BY Zenon DEF Find, PageRows, Skip
<1> DEFINE rows == PageRows(s)
           N == Len(rows)
<1>2. /\ rows \in Seq(Matching(list)) /\ DOMAIN rows = 1 .. N /\ N \in Nat /\ N <= size
      /\ found' = [i \in 1 .. N |-> Shown(rows[i])]
  <2>1. rows \in Seq(Matching(list)) /\ DOMAIN rows = 1 .. N /\ N \in Nat
    BY <1>0, PageRowsAre, LenProperties
  <2>2. N <= size
    <3>1. Len(s) \in Nat /\ size \in Nat /\ Skip \in Nat
      BY <1>0, OrderingHasAll, LenProperties, PageTyped, PageRowsAre
    <3> QED
      BY <1>0, <3>1, PageRowsAre
  <2> HIDE DEF Shown, rows
  <2> QED
    BY <1>1, <2>1, <2>2 DEF rows
<1> HIDE DEF rows, N
<1>3. ASSUME NEW i \in 1 .. N
      PROVE  /\ rows[i] \in Videos /\ Matches(row[rows[i]], list)
             /\ row[rows[i]] \in Row /\ Stored(rows[i], row[rows[i]]) /\ row[rows[i]] # NoRow
             /\ found'[i] = Shown(rows[i])
             /\ found'[i].video = rows[i] /\ found'[i].user = row[rows[i]].user
             /\ found'[i].status = row[rows[i]].status /\ found'[i].tags = row[rows[i]].tags
  <2>1. rows[i] \in Matching(list)
    BY <1>2
  <2>2. rows[i] \in Videos /\ Matches(row[rows[i]], list)
    BY <2>1 DEF Matching
  <2>3. row[rows[i]] # NoRow
    BY <2>2 DEF Matches
  <2> QED
    BY <1>0, <1>2, <2>2, <2>3 DEF TypeOK, RowsStored
<1>4. found' \in Seq(Item) /\ Len(found') = N /\ DOMAIN found' = 1 .. N
  <2>1. ASSUME NEW i \in 1 .. N PROVE Shown(rows[i]) \in Item
    BY <1>3 DEF Item, Row
  <2> HIDE DEF Shown
  <2> QED
    BY <1>2, <2>1
<1> HIDE DEF Shown
<1>5. TypeOK'
  <2>1. names = <<>> /\ Len(names) = 0
    BY <1>0 DEF NamesInv
  <2>2. moved' \subseteq {"left", "redated", "entered", "raced", "tied"}
    BY <1>0 DEF TypeOK
  <2> QED
    BY <1>0, <1>2, <1>4, <2>1, <2>2 DEF TypeOK
<1>6. RowsStored'
  BY <1>0 DEF RowsStored
<1>7. FoundInv'
  <2>1. ASSUME NEW i \in DOMAIN found'
        PROVE  /\ found'[i].user = Draft[found'[i].video].user
               /\ found'[i].tags = normalizeTags(sanitizeTags(Draft[found'[i].video].tags))
               /\ list.kind = "own" => found'[i].user = list.user
               /\ list.filter # "" => found'[i].status = list.filter
    <3>1. i \in 1 .. N /\ found'[i].video = rows[i]
      BY <1>3, <1>4
    <3>2. /\ row[rows[i]].user = Draft[rows[i]].user
          /\ row[rows[i]].tags = normalizeTags(sanitizeTags(Draft[rows[i]].tags))
      BY <1>3, <3>1 DEF Stored
    <3>3. /\ list.kind = "own" => row[rows[i]].user = list.user
          /\ list.filter # "" => row[rows[i]].status = list.filter
      BY <1>3, <3>1 DEF Matches
    <3> QED
      BY <1>3, <3>1, <3>2, <3>3
  <2> QED
    BY <1>0, <2>1 DEF FoundInv
<1>8. NamesInv'
  <2>1. names' = <<>> /\ DOMAIN names' = {}
    BY <1>0 DEF NamesInv
  <2> QED
    BY <2>1 DEF NamesInv
<1>9. CountInv'
  <2>1. Len(s) \in Near /\ Near' = Near
    BY <1>0, OrderingHasAll DEF CountInv, Near
  <2>2. ASSUME (page - 1) * size <= IntMax PROVE Len(found') = PageLength(Len(s))'
    <3>1. Skip = (page - 1) * size /\ Skip \in Nat /\ size \in Nat /\ Len(s) \in Nat
      BY <1>0, <2>2, OrderingHasAll, PageRowsAre, PageTyped
    <3>2. N = IF Len(s) <= Skip THEN 0
              ELSE IF Len(s) - Skip > size THEN size ELSE Len(s) - Skip
      BY <1>0, PageRowsAre DEF N, rows
    <3> QED
      BY <1>0, <1>4, <3>1, <3>2 DEF PageLength
  <2>3. moved' \cap {"left", "raced"} = {} => drift' = 0
    BY <1>0 DEF CountInv
  <2> QED
    BY <1>0, <2>1, <2>2, <2>3 DEF CountInv
<1>10. WalkInv'
  <2> SUFFICES ASSUME moved' \subseteq {"entered"},
                      NEW v \in begin \ (seen \cup FoundVideos')
               PROVE  Ahead(v, page * size)' /\ page * size < total
    BY <1>0 DEF WalkInv
  <2>1. moved \subseteq {"entered"} /\ ~ Ties(list)
    BY <1>0
  <2>2. Ahead(v, (page - 1) * size)
    BY <1>0, <2>1 DEF WalkInv
  <2>3. PICK i \in 1 .. Len(s) : s[i] = v
    BY <2>2, OrderingHasAll DEF Ahead
  <2>4. Cardinality(Before(v)) = i - 1
    BY <1>0, <2>1, <2>3, OrderingPlace
  <2>5. /\ page \in Nat \ {0} /\ size \in Nat /\ (page - 1) * size \in Nat
        /\ Skip \in Nat /\ i \in Nat /\ i <= Len(s)
        /\ Len(s) \in Nat /\ IntMax \in Nat /\ Len(s) <= IntMax
    <3>1. Len(s) \in Nat /\ IntMax \in Nat /\ Len(s) <= IntMax
      BY OrderingHasAll, MatchingFinite, PageTyped, <1>0
    <3> QED
      BY <1>0, <2>3, <3>1, PageTyped, PageOffset, PageRowsAre
  <2>6. (page - 1) * size <= i - 1
    BY <2>2, <2>4 DEF Ahead
  <2>7. Skip = (page - 1) * size
    BY <1>0, <2>5, <2>6, PageRowsAre
  <2>8. ASSUME i <= Skip + size PROVE FALSE
    <3>1. \A j \in 1 .. Len(s) : j > Skip /\ j <= Skip + size =>
            j - Skip \in 1 .. N /\ rows[j - Skip] = s[j]
      BY <1>0, PageRowsAre DEF N, rows
    <3>2. i - Skip \in 1 .. N /\ rows[i - Skip] = v
      BY <2>3, <2>5, <2>6, <2>7, <2>8, <3>1
    <3>3. found'[i - Skip].video = v
      BY <1>3, <3>2
    <3> QED
      BY <1>4, <3>2, <3>3 DEF FoundVideos
  <2>9. (page - 1) * size + size = page * size
    BY <2>5
  <2>10. page * size <= i - 1 /\ page * size < Len(s) /\ page * size \in Nat
    BY <2>5, <2>7, <2>8, <2>9
  <2>11. total = Len(s)
    <3>1. drift = 0
      BY <1>0, <2>1 DEF CountInv
    <3>2. total \in Int
      BY <1>0, CountsTyped
    <3> QED
      BY <1>0, <3>1, <3>2, OrderingHasAll DEF CountInv, Near
  <2>12. Ahead(v, page * size)
    BY <2>2, <2>4, <2>10 DEF Ahead
  <2>13. Ahead(v, page * size)'
    BY <1>0, <2>12, AheadFrame
  <2> QED
    BY <2>10, <2>11, <2>13
<1>11. ShownInv'
  <2>1. \A k \in 1 .. N : k <= size /\ Skip + k \in 1 .. Len(s) /\ rows[k] = s[Skip + k]
    BY <1>0, PageRowsAre DEF rows, N
  <2>2. /\ page \in Nat \ {0} /\ size \in Nat /\ (page - 1) * size \in Nat
        /\ page * size = (page - 1) * size + size
        /\ Skip \in Nat /\ IntMax \in Nat /\ Len(s) \in Nat /\ Len(s) <= IntMax
        /\ (page - 1) * size <= IntMax => Skip = (page - 1) * size
    <3>1. Len(s) \in Nat /\ IntMax \in Nat /\ Len(s) <= IntMax
      BY OrderingHasAll, MatchingFinite, PageTyped, <1>0
    <3>2. page \in Nat \ {0} /\ size \in Nat
      BY <1>0, PageTyped
    <3>3. page * size = (page - 1) * size + size
      BY <3>2
    <3> QED
      BY <1>0, <3>1, <3>2, <3>3, PageOffset, PageRowsAre
  <2>3. \A i, j \in DOMAIN found' : i # j => found'[i].video # found'[j].video
    <3> SUFFICES ASSUME NEW i \in 1 .. N, NEW j \in 1 .. N, i # j
                 PROVE  rows[i] # rows[j]
      BY <1>3, <1>4
    <3>1. /\ Skip + i \in 1 .. Len(s) /\ Skip + j \in 1 .. Len(s)
          /\ rows[i] = s[Skip + i] /\ rows[j] = s[Skip + j]
      BY <2>1
    <3>2. Skip + i # Skip + j
      BY <2>2
    <3> QED
      BY <3>1, <3>2, OrderingHasAll
  <2>4. ASSUME Steady' PROVE Steady /\ ~ Ties(list)
    BY <1>0, <2>4 DEF Steady
  <2>5. ASSUME Steady', NEW i \in 1 .. Len(s)
        PROVE  Cardinality(Before(s[i])) = i - 1
    BY <1>0, <2>4, <2>5, OrderingPlace
  <2> HIDE DEF Skip
  <2>6. ASSUME Steady', NEW v \in FoundVideos'
        PROVE  \E k \in 1 .. N : /\ k <= size /\ Skip + k \in 1 .. Len(s)
                                 /\ v \in Matching(list)
                                 /\ Cardinality(Before(v)) = Skip + k - 1
    <3>1. PICK k \in 1 .. N : v = rows[k]
      BY <1>3, <1>4, <2>6 DEF FoundVideos
    <3>2. k <= size /\ Skip + k \in 1 .. Len(s) /\ v = s[Skip + k]
      BY <2>1, <3>1
    <3>3. v \in Matching(list)
      BY <3>2, OrderingHasAll
    <3>4. Cardinality(Before(v)) = Skip + k - 1
      <4>1. PICK i \in 1 .. Len(s) : i = Skip + k
        BY <3>2
      <4>2. s[i] = v /\ Cardinality(Before(s[i])) = i - 1
        BY <2>5, <2>6, <3>2, <4>1
      <4> QED
        BY <2>2, <4>1, <4>2
    <3> QED
      BY <3>2, <3>3, <3>4
  <2>7. ASSUME Steady', NEW v \in seen, v \in Matching(list)
        PROVE  /\ (page - 1) * size <= IntMax
               /\ Cardinality(Before(v)) \in Nat
               /\ Cardinality(Before(v)) < (page - 1) * size
    <3>1. Behind(v, (page - 1) * size) /\ (page - 1) * size <= IntMax
      BY <1>0, <2>4, <2>7 DEF ShownInv
    <3>2. PICK i \in 1 .. Len(s) : s[i] = v
      BY <2>7, OrderingHasAll
    <3>3. Cardinality(Before(v)) \in Nat
      BY <2>2, <2>5, <2>7, <3>2
    <3> QED
      BY <2>7, <3>1, <3>3 DEF Behind
  <2>8. ASSUME Steady', NEW v \in seen PROVE v \notin FoundVideos'
    <3> SUFFICES ASSUME v \in FoundVideos' PROVE FALSE
      OBVIOUS
    <3>1. PICK k \in 1 .. N : /\ v \in Matching(list)
                             /\ Cardinality(Before(v)) = Skip + k - 1
      BY <2>6, <2>8
    <3>2. Skip + k - 1 < (page - 1) * size /\ Skip = (page - 1) * size
      BY <2>2, <2>7, <2>8, <3>1
    <3> QED
      BY <1>2, <2>2, <3>2
  <2>9. ASSUME Steady', NEW v \in seen \cup FoundVideos'
        PROVE  Behind(v, page * size)
    <3>1. CASE v \in seen
      <4> SUFFICES ASSUME v \in Matching(list) PROVE Cardinality(Before(v)) < page * size
        BY DEF Behind
      <4> QED
        BY <2>2, <2>7, <2>9, <3>1
    <3>2. CASE v \in FoundVideos'
      <4>1. PICK k \in 1 .. N : /\ k <= size /\ Skip + k \in 1 .. Len(s)
                               /\ Cardinality(Before(v)) = Skip + k - 1
        BY <2>6, <2>9, <3>2
      <4>2. Skip + k - 1 < page * size
        BY <1>2, <2>2, <4>1
      <4> QED
        BY <4>1, <4>2 DEF Behind
    <3> QED
      BY <2>9, <3>1, <3>2
  <2>10. ASSUME Steady', NEW v \in seen \cup FoundVideos'
         PROVE  Behind(v, page * size)'
    BY <1>0, <2>9, <2>10, AheadFrame
  <2> QED
    BY <1>0, <2>3, <2>8, <2>10 DEF ShownInv
<1> QED
  BY <1>5, <1>6, <1>7, <1>8, <1>9, <1>10, <1>11 DEF CatalogInv

\* Each video of the page gets the name of its own uploader, if it is known, and
\* the client has seen them all.
LEMMA GetUsersKeeps ==
    ASSUME CatalogInv, GetUsersForVideos
    PROVE  CatalogInv'
<1>0. /\ TypeOK /\ RowsStored /\ FoundInv /\ NamesInv /\ CountInv /\ WalkInv /\ ShownInv
      /\ pc = "users" /\ pc' = "reply" /\ seen' = seen \cup FoundVideos
      /\ UNCHANGED <<row, writes, list, page, size, total, found, begin, moved, drift>>
  BY DEF CatalogInv, GetUsersForVideos, FoundVideos
<1>1. PICK known : names' = Named(known)
  BY DEF GetUsersForVideos
<1>2. /\ DOMAIN found = 1 .. Len(found) /\ Len(found) \in Nat
      /\ \A i \in DOMAIN found : found[i].user \in Users /\ found[i].video \in Videos
  <2>1. found \in Seq(Item)
    BY <1>0 DEF TypeOK
  <2>2. \A i \in DOMAIN found : found[i] \in Item
    BY <2>1
  <2> QED
    BY <2>1, <2>2, LenProperties DEF Item
<1>3. /\ names' = [i \in 1 .. Len(found) |-> names'[i]]
      /\ \A i \in 1 .. Len(found) : names'[i] \in {found[i].user, "none"}
  BY <1>1, <1>2 DEF Named
<1>4. /\ names' \in Seq(Users \cup {"none"}) /\ Len(names') = Len(found)
      /\ DOMAIN names' = DOMAIN found
  BY <1>2, <1>3
<1>5. TypeOK'
  <2>1. FoundVideos \subseteq Videos
    BY <1>2 DEF FoundVideos
  <2> QED
    BY <1>0, <1>4, <2>1 DEF TypeOK
<1>6. RowsStored' /\ FoundInv'
  BY <1>0 DEF RowsStored, FoundInv
<1>7. NamesInv'
  BY <1>0, <1>2, <1>3, <1>4 DEF NamesInv
<1>8. CountInv'
  BY <1>0 DEF CountInv, Near, PageLength
<1>9. WalkInv'
  <2>1. FoundVideos' = FoundVideos
    BY <1>0 DEF FoundVideos
  <2>2. moved \subseteq {"entered"} =>
          \A v \in begin \ (seen \cup FoundVideos) :
            Ahead(v, page * size) /\ page * size < total
    BY <1>0 DEF WalkInv
  <2>3. \A v : Ahead(v, page * size)' <=> Ahead(v, page * size)
    BY <1>0, AheadFrame
  <2> QED
    BY <1>0, <2>1, <2>2, <2>3 DEF WalkInv
<1>10. ShownInv'
  <2>1. FoundVideos' = FoundVideos
    BY <1>0 DEF FoundVideos
  <2>2. Steady => \A v \in seen \cup FoundVideos : Behind(v, page * size)
    BY <1>0 DEF ShownInv
  <2>3. \A v : Behind(v, page * size)' <=> Behind(v, page * size)
    BY <1>0, AheadFrame
  <2>4. \A i, j \in DOMAIN found' : i # j => found'[i].video # found'[j].video
    BY <1>0 DEF ShownInv
  <2> QED
    BY <1>0, <2>1, <2>2, <2>3, <2>4 DEF ShownInv, Steady
<1> QED
  BY <1>5, <1>6, <1>7, <1>8, <1>9, <1>10 DEF CatalogInv

\* There is a next page only while the last answer says so, so its number fits an int.
LEMMA NextPageKeeps ==
    ASSUME CatalogInv, NextPage
    PROVE  CatalogInv'
<1>0. /\ TypeOK /\ RowsStored /\ FoundInv /\ CountInv /\ WalkInv /\ ShownInv
      /\ pc = "reply" /\ pc' = "count" /\ page < TotalPages(total, size)
      /\ page' = page + 1 /\ total' = 0 /\ found' = <<>> /\ names' = <<>>
      /\ UNCHANGED <<row, writes, list, size, begin, seen, moved, drift>>
  BY DEF CatalogInv, NextPage, client
<1>1. /\ page \in Nat /\ size \in Nat \ {0} /\ page' \in 1 .. IntMax
      /\ (page' - 1) * size' = page * size /\ page * size <= IntMax
  <2>1. page \in Nat /\ size \in Nat \ {0} /\ total \in Nat /\ total <= IntMax /\ IntMax \in Nat
    BY <1>0, PageTyped
  <2>2. /\ TotalPages(total, size) \in Nat /\ TotalPages(total, size) <= total
        /\ page * size < total
    BY <1>0, <2>1, PagesHoldAll
  <2>3. page' - 1 = page /\ size' = size
    BY <1>0, <2>1
  <2>4. page * size <= IntMax
    BY <2>1, <2>2
  <2> QED
    BY <1>0, <2>1, <2>2, <2>3, <2>4
<1>2. /\ Len(found') = 0 /\ Len(names') = 0 /\ found' \in Seq(Item) /\ DOMAIN found' = {}
      /\ names' \in Seq(Users \cup {"none"})
  BY <1>0
<1>3. TypeOK'
  <2>1. total' \in 0 .. Cardinality(Videos)
    BY <1>0, VideosAssumption, FS_CardinalityType
  <2>2. Len(found') <= size'
    BY <1>0, <1>1, <1>2
  <2> QED
    BY <1>0, <1>1, <1>2, <2>1, <2>2 DEF TypeOK
<1>4. RowsStored' /\ NamesInv' /\ CountInv'
  BY <1>0 DEF RowsStored, NamesInv, CountInv
<1>5. FoundInv'
  BY <1>0, <1>2 DEF FoundInv
<1>6. WalkInv'
  <2> SUFFICES ASSUME moved \subseteq {"entered"}, NEW v \in begin \ seen
               PROVE  Ahead(v, (page - 1) * size)'
    BY <1>0 DEF WalkInv
  <2>1. Ahead(v, page * size)
    BY <1>0 DEF WalkInv
  <2>2. Matching(list)' = Matching(list) /\ Before(v)' = Before(v)
    BY <1>0, AheadFrame
  <2> QED
    BY <1>1, <2>1, <2>2 DEF Ahead
<1>7. ShownInv'
  <2>1. ASSUME Steady, NEW v \in seen PROVE Behind(v, (page - 1) * size)'
    <3>1. Behind(v, page * size)
      BY <1>0, <2>1 DEF ShownInv
    <3>2. Matching(list)' = Matching(list) /\ Before(v)' = Before(v)
      BY <1>0, AheadFrame
    <3> QED
      BY <1>1, <3>1, <3>2 DEF Behind
  <2>2. Steady' <=> Steady
    BY <1>0 DEF Steady
  <2> QED
    BY <1>0, <1>1, <1>2, <2>1, <2>2 DEF ShownInv
<1> QED
  BY <1>3, <1>4, <1>5, <1>6, <1>7 DEF CatalogInv

-----------------------------------------------------------------------------
(* The theorems.                                                           *)

\* At first nothing is listed, and the table holds what the same code stored.
LEMMA CatalogInit == Init => CatalogInv
<1> SUFFICES ASSUME Init PROVE CatalogInv
  OBVIOUS
<1>0. /\ row \in [Videos -> Row \cup {NoRow}] /\ \A v \in Videos : Stored(v, row[v])
      /\ writes = 0 /\ pc = "idle" /\ list = NoList /\ page = 1 /\ size = DefaultSize
      /\ total = 0 /\ found = <<>> /\ names = <<>> /\ begin = {} /\ seen = {} /\ moved = {}
      /\ drift = 0
  BY TablesAssumption DEF Init
<1>1. TypeOK
  <2>1. page \in 1 .. IntMax /\ size \in 1 .. MaxSize
    BY <1>0, SizesTyped
  <2>2. total \in 0 .. Cardinality(Videos)
    BY <1>0, VideosAssumption, FS_CardinalityType
  <2>3. Len(found) = 0 /\ Len(names) = 0 /\ found \in Seq(Item)
        /\ names \in Seq(Users \cup {"none"})
    BY <1>0
  <2>4. Len(found) <= size
    BY <1>0, <2>3, SizesTyped
  <2>5. list \in [kind : {"own", "open"}, user : Users \cup {"none"},
                  filter : VideoStatus \cup {""}]
    BY <1>0 DEF NoList
  <2>6. \A v \in Videos : Len(row[v].tags) <= MaxTags
    <3>1. NoRow.tags = <<>> /\ Len(<<>>) = 0 /\ 0 <= MaxTags
      BY SizesAssumption DEF NoRow
    <3> QED
      BY <1>0, <3>1 DEF Stored, Validate
  <2>7. writes \in 0 .. MaxWrites /\ drift \in 0 .. writes
    BY <1>0, SizesAssumption
  <2> QED
    BY <1>0, <2>1, <2>2, <2>3, <2>4, <2>5, <2>6, <2>7 DEF TypeOK
<1>2. RowsStored /\ NamesInv /\ CountInv /\ WalkInv
  BY <1>0 DEF RowsStored, NamesInv, CountInv, WalkInv
<1>3. FoundInv
  <2>1. DOMAIN found = {}
    BY <1>0
  <2>2. list.kind # "open"
    BY <1>0 DEF NoList
  <2> QED
    BY <1>0, <2>1, <2>2 DEF FoundInv
<1>4. ShownInv
  <2>1. DOMAIN found = {}
    BY <1>0
  <2> QED
    BY <1>0, <2>1 DEF ShownInv
<1> QED
  BY <1>1, <1>2, <1>3, <1>4 DEF CatalogInv

\* Every step keeps the invariant.
LEMMA CatalogStep == CatalogInv /\ [Next]_vars => CatalogInv'
<1> SUFFICES ASSUME CatalogInv, [Next]_vars PROVE CatalogInv'
  OBVIOUS
<1>1. ASSUME NEW v \in Videos, PublishVideo(v) PROVE CatalogInv'
  BY <1>1, PublishKeeps
<1>2. ASSUME NEW v \in Videos, UpdateVideoTranscodeInfo(v) PROVE CatalogInv'
  BY <1>2, UpdateKeeps
<1>3. ASSUME NEW p \in Starts, NEW s \in AskedSizes, NEW f \in Filters, NEW u \in Users,
             ListVideos(u, f, p, s)
      PROVE  CatalogInv'
  BY <1>3, ListVideosKeeps
<1>4. ASSUME NEW p \in Starts, NEW s \in AskedSizes, NEW f \in Filters,
             ListOpenVideos(f, p, s)
      PROVE  CatalogInv'
  BY <1>4, ListOpenVideosKeeps
<1>5. CASE Count
  BY <1>5, CountKeeps
<1>6. CASE Find
  BY <1>6, FindKeeps
<1>7. CASE GetUsersForVideos
  BY <1>7, GetUsersKeeps
<1>8. CASE NextPage
  BY <1>8, NextPageKeeps
<1>9. CASE Done
  BY <1>9, FailsKeeps DEF Done
<1>10. CASE UNCHANGED vars
  <2>1. UNCHANGED <<row, writes, pc, list, page, size, total, found, names, begin, seen, moved,
                    drift>>
    BY <1>10 DEF vars, request, client
  <2>2. TypeOK' /\ RowsStored' /\ FoundInv' /\ NamesInv'
    BY <2>1 DEF CatalogInv, TypeOK, RowsStored, FoundInv, NamesInv
  <2>3. Matching(list)' = Matching(list) /\ FoundVideos' = FoundVideos
    BY <2>1 DEF Matching, FoundVideos
  <2>4. CountInv'
    BY <2>1, <2>3 DEF CatalogInv, CountInv, Near, PageLength
  <2>5. \A v : /\ Ahead(v, (page - 1) * size)' <=> Ahead(v, (page - 1) * size)
               /\ Ahead(v, page * size)' <=> Ahead(v, page * size)
               /\ Behind(v, (page - 1) * size)' <=> Behind(v, (page - 1) * size)
               /\ Behind(v, page * size)' <=> Behind(v, page * size)
    BY <2>1, AheadFrame
  <2>6. WalkInv'
    BY <2>1, <2>3, <2>5 DEF CatalogInv, WalkInv
  <2>7. ShownInv'
    BY <2>1, <2>3, <2>5 DEF CatalogInv, ShownInv, Steady
  <2> QED
    BY <2>2, <2>4, <2>6, <2>7 DEF CatalogInv
<1> QED
  BY <1>1, <1>2, <1>3, <1>4, <1>5, <1>6, <1>7, <1>8, <1>9, <1>10 DEF Next

\* What is stored and shown, and how far a walk has come, for every table, every
\* number of videos and every order of writes.
THEOREM CatalogInvHolds == Spec => []CatalogInv
<1> QED
  BY CatalogInit, CatalogStep, PTL DEF Spec

\* Rows and listings are well-formed: no row has too many tags, no page too many
\* videos, and a page number fits an int.
THEOREM CatalogAlwaysTyped == Spec => []TypeOK
<1>1. CatalogInv => TypeOK
  BY DEF CatalogInv
<1> QED
  BY <1>1, CatalogInvHolds, PTL

\* A client that reads a list from its first page to the last misses no video that
\* was in it, whatever enters the list, unless a row left, was dated again, came
\* between count and query, or has the date of another.
THEOREM WalkAlwaysMissesNone == Spec => []WalkMissesNone
<1>1. CatalogInv => WalkMissesNone
  <2> SUFFICES ASSUME CatalogInv, LastPage, moved \subseteq {"entered"},
                      NEW v \in begin, v \notin seen
               PROVE  FALSE
    BY DEF WalkMissesNone
  <2>1. page * size < total
    BY DEF CatalogInv, WalkInv, LastPage
  <2>2. page \in Nat /\ size \in Nat \ {0} /\ total \in Nat
    BY PageTyped DEF CatalogInv
  <2>3. /\ TotalPages(total, size) \in Nat /\ TotalPages(total, size) * size >= total
        /\ TotalPages(total, size) <= page
    BY <2>2, PagesHoldAll DEF LastPage
  <2>4. TotalPages(total, size) * size <= page * size
    BY <2>2, <2>3, ProductsGrow
  <2> QED
    BY <2>1, <2>2, <2>3, <2>4
<1> QED
  BY <1>1, CatalogInvHolds, PTL

\* A page has the length that its number, its size and the total say, unless a row
\* came or went between the two queries or the offset does not fit an int.
THEOREM PageAlwaysMatchesTotal == Spec => []PageMatchesTotal
<1>1. CatalogInv => PageMatchesTotal
  BY DEF CatalogInv, CountInv, Near, PageLength, PageMatchesTotal
<1> QED
  BY <1>1, CatalogInvHolds, PTL

\* Such a client is shown no video twice, whatever leaves the list, unless a row
\* came into it, was dated again or has the date of another.
THEOREM NoneEverShownTwice == Spec => []NoneShownTwice
<1>1. CatalogInv => NoneShownTwice
  BY DEF CatalogInv, ShownInv, Steady, FoundVideos, NoneShownTwice
<1> QED
  BY <1>1, CatalogInvHolds, PTL

\* Only published videos and a user's own are shown, whatever status is asked for.
THEOREM ListedAlwaysVisible == Spec => []ListedIsVisible
<1>1. CatalogInv => ListedIsVisible
  <2> SUFFICES ASSUME CatalogInv, NEW i \in DOMAIN found
               PROVE  found[i].status = "Published"
                        \/ (list.kind = "own" /\ found[i].user = list.user)
    BY DEF ListedIsVisible
  <2>1. list.kind \in {"own", "open"}
    BY DEF CatalogInv, TypeOK
  <2> QED
    BY <2>1 DEF CatalogInv, FoundInv
<1> QED
  BY <1>1, CatalogInvHolds, PTL

\* A video is shown with the name of its own uploader, or with none.
THEOREM UploaderAlwaysOwner == Spec => []UploaderIsOwner
<1>1. CatalogInv => UploaderIsOwner
  BY DEF CatalogInv, FoundInv, NamesInv, UploaderIsOwner
<1> QED
  BY <1>1, CatalogInvHolds, PTL

\* The tags shown are the first spellings of those that were asked for, however
\* many there were: two passes of sanitizeTags and a validation lose none.
THEOREM TagsAlwaysAsPublished == Spec => []TagsAsPublished
<1>1. CatalogInv => TagsAsPublished
  <2> SUFFICES ASSUME CatalogInv, NEW i \in DOMAIN found
               PROVE  found[i].tags = FirstSpellings(Draft[found[i].video].tags)
    BY DEF TagsAsPublished
  <2>1. found[i].video \in Videos
    <3>1. found \in Seq(Item)
      BY DEF CatalogInv, TypeOK
    <3>2. found[i] \in Item
      BY <3>1
    <3> QED
      BY <3>2 DEF Item
  <2>2. Draft[found[i].video].tags \in Seq(DOMAIN Key)
    BY <2>1, VideosAssumption
  <2>3. found[i].tags = normalizeTags(sanitizeTags(Draft[found[i].video].tags))
    BY DEF CatalogInv, FoundInv
  <2> QED
    BY <2>2, <2>3, NormalizeKeepsSanitized, SanitizeKeepsFirstSpellings
<1> QED
  BY <1>1, CatalogInvHolds, PTL

================================================================================

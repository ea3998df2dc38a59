----------------------------- MODULE VideoCatalog -----------------------------
(***************************************************************************)
(* The listings of videos: GET videos of a user and GET videos that are    *)
(* published.  A handler normalises the request, counts the rows, finds    *)
(* one page of them in a second query, and asks the user service for the   *)
(* names of the uploaders; a client reads one page after the other.        *)
(* Meanwhile rows are created by publish requests and updated by the       *)
(* transcoder and by publish handlers: VideoPublish says when, here any of *)
(* these writes may come between any two steps of a listing.               *)
(***************************************************************************)
EXTENDS Integers, Sequences, FiniteSets, Functions, SequencesExt

CONSTANTS
    Videos,      \* publish requests, each of which makes at most one video
    Draft,       \* what is asked in each: the user and the tags
    Trim,        \* a tag without the blanks around it
    Key,         \* a trimmed tag in lower case; of nothing but blanks it is Blank
    Blank,
    MaxTags,     \* maxVideoTags
    DefaultSize, \* 12
    MaxSize,     \* 50
    IntMax,      \* the largest int; results wrap around
    Starts,      \* pages that a client may begin with
    AskedSizes,  \* sizes that a client may ask for
    Filters,     \* statuses that a client may ask for, as it spells them
    Dates,       \* bound: the dates of rows
    Tables,      \* what the table may hold at first
    MaxWrites    \* bound: rows created and updated in a behaviour

VideoStatus == {"Draft", "Processing", "Published", "Failed"}
Users == {Draft[v].user : v \in Videos}
NoRow == [status |-> "none", user |-> "none", tags |-> <<>>, created |-> 0, published |-> 0]

ASSUME SizesAssumption ==
    /\ DefaultSize \in 1 .. MaxSize /\ MaxSize \in Nat /\ MaxTags \in Nat
    /\ IntMax \in Nat /\ MaxSize <= IntMax
    /\ Starts \subseteq -IntMax .. IntMax /\ AskedSizes \subseteq -IntMax .. IntMax
    /\ Dates \subseteq Nat \ {0} /\ MaxWrites \in Nat

\* The rows can be counted.
ASSUME VideosAssumption ==
    /\ IsFiniteSet(Videos) /\ Cardinality(Videos) <= IntMax
    /\ \A v \in Videos : Draft[v].tags \in Seq(DOMAIN Key)

ASSUME TrimAssumption ==
    /\ Trim \in [DOMAIN Key -> DOMAIN Key]
    /\ \A t \in DOMAIN Key : Trim[Trim[t]] = Trim[t]

VARIABLES
    row,        \* video_publish: the row of each video, or NoRow
    writes,     \* rows created and updated so far
    pc,         \* the listing: idle, count, find, users, reply
    list,       \* which one: own or open, of which user, with which filter
    page, size, \* as normalised
    total,      \* rows counted
    found,      \* rows of the page
    names,      \* the uploader shown with each, or "none"
    begin,      \* history: the videos in the list when the client read its first page
    seen,       \* history: the videos that the client has been shown
    moved,      \* history: what may have hidden a video, or shown it twice
    drift       \* history: rows that came or went since those of the page were counted

request == <<list, page, size, total, found, names>>
client  == <<begin, seen>>
vars    == <<row, writes, pc, request, client, moved, drift>>

-----------------------------------------------------------------------------
(* The pure parts.                                                         *)

\* What a tag is told apart by.
KeyOf(t) == Key[Trim[t]]

\* Mutant: tags are compared as they are spelled.
KeepExact(kept, t) ==
    IF KeyOf(t) = Blank \/ Trim[t] \in ToSet(kept) THEN kept ELSE Append(kept, Trim[t])

\* A tag is kept, trimmed, unless it is only blanks or one was kept that differs at
\* most in the blanks around it and its letters' case.
Keep(kept, t) ==
    IF KeyOf(t) \in {Blank} \cup {KeyOf(u) : u \in ToSet(kept)} THEN kept
    ELSE Append(kept, Trim[t])

\* The first spelling of each tag: what is kept of the first n, up to the last.
sanitizeTags(tags) ==
    LET kept[n \in 0 .. Len(tags)] ==
          IF n = 0 THEN <<>> ELSE Keep(kept[n - 1], tags[n])
    IN  kept[Len(tags)]

\* The entity does it once more.
normalizeTags(tags) == sanitizeTags(tags)

\* Mutant: the tags are counted before they are sanitised.
ValidateAny(tags) == TRUE

Validate(tags) == Len(tags) <= MaxTags

\* Mutant: only the repository bounds the size of a page.
NormalizeSizeUnbounded(s) == IF s <= 0 THEN DefaultSize ELSE s

NormalizePage(p) == IF p <= 0 THEN 1 ELSE p
NormalizeSize(s) == IF s <= 0 THEN DefaultSize ELSE IF s > MaxSize THEN MaxSize ELSE s

\* A status in any spelling of its letters; others stay as they are.
Canonical(f) == IF f = "published" THEN "Published" ELSE f

\* Mutant: the open listing takes the status that is asked for.
OpenFilterAsked(f) == IF f = "" THEN "Published" ELSE Canonical(f)

\* Whatever is asked for, the open listing is that of the published videos.
OpenFilter(f) == "Published"

\* int wraps around.
Wrap(n) == ((n + IntMax + 1) % (2 * (IntMax + 1))) - (IntMax + 1)

\* What the repository makes of the size of a request.
Limit(s) == IF s <= 0 THEN DefaultSize ELSE IF s > MaxSize THEN MaxSize ELSE s

\* Mutant: the offset counts pages, not rows.
OffsetInPages(p, s) == NormalizePage(p) - 1

\* Mutant: pages are numbered from 0.
OffsetFromZero(p, s) == Wrap(NormalizePage(p) * Limit(s))

\* The repository clamps page and size once more.
Offset(p, s) == Wrap((NormalizePage(p) - 1) * Limit(s))

TotalPages(n, s) == (n + s - 1) \div s

-----------------------------------------------------------------------------
Matches(r, l) ==
    /\ r # NoRow
    /\ l.kind = "own" => r.user = l.user
    /\ l.filter # "" => r.status = l.filter

Matching(l) == {v \in Videos : Matches(row[v], l)}

\* ORDER BY created_at DESC, or published_at DESC.
Date(v, l) == IF l.kind = "own" THEN row[v].created ELSE row[v].published

\* Rows of the same date come in any order, another one in every query.
Orderings(l) ==
    {s \in SetToSeqs(Matching(l)) :
        \A i, j \in DOMAIN s : i < j => Date(s[i], l) >= Date(s[j], l)}

Ties(l) == \E v, w \in Matching(l) : v # w /\ Date(v, l) = Date(w, l)

Row == [status : VideoStatus, user : Users, tags : Seq(DOMAIN Key),
        created : Dates, published : Dates \cup {0}]
NoList == [kind |-> "own", user |-> "none", filter |-> ""]
Item == [video : Videos, user : Users, status : VideoStatus, tags : Seq(DOMAIN Key)]

TypeOK ==
    /\ row \in [Videos -> Row \cup {NoRow}]
    /\ \A v \in Videos : Len(row[v].tags) <= MaxTags
    /\ writes \in 0 .. MaxWrites
    /\ pc \in {"idle", "count", "find", "users", "reply"}
    /\ list \in [kind : {"own", "open"}, user : Users \cup {"none"},
                 filter : VideoStatus \cup {""}]
    /\ page \in 1 .. IntMax /\ size \in 1 .. MaxSize /\ total \in 0 .. Cardinality(Videos)
    /\ found \in Seq(Item) /\ Len(found) <= size
    /\ names \in Seq(Users \cup {"none"}) /\ Len(names) \in {0, Len(found)}
    /\ begin \subseteq Videos /\ seen \subseteq Videos
    /\ moved \subseteq {"left", "redated", "entered", "raced", "tied"}
    /\ drift \in 0 .. writes

\* A row as PublishVideo makes it and UpdateVideoTranscodeInfo leaves it.
Stored(v, r) ==
    \/ r = NoRow
    \/ /\ r \in Row
       /\ r.user = Draft[v].user
       /\ r.tags = normalizeTags(sanitizeTags(Draft[v].tags)) /\ Validate(r.tags)

\* What the table holds at first was stored by the same code.
ASSUME TablesAssumption ==
    \A t \in Tables : /\ t \in [Videos -> Row \cup {NoRow}]
                      /\ \A v \in Videos : Stored(v, t[v])

Init ==
    /\ row \in Tables /\ writes = 0
    /\ pc = "idle" /\ list = NoList /\ page = 1 /\ size = DefaultSize
    /\ total = 0 /\ found = <<>> /\ names = <<>>
    /\ begin = {} /\ seen = {} /\ moved = {} /\ drift = 0

-----------------------------------------------------------------------------
(* Writes to the table.  A date is taken some time before its row is       *)
(* written, so that the rows may be written in another order.              *)

\* What a write means to the client that is reading a list: v leaves it or
\* changes its place, or enters it, perhaps after the rows were counted.
Note(v, new) ==
    LET is == Matches(row[v], list)
        will == Matches(new, list)
        redated == \/ list.kind = "own" /\ new.created # row[v].created
                   \/ list.kind = "open" /\ new.published # row[v].published
    IN  /\ moved' = IF pc = "idle" THEN moved
                    ELSE moved \cup (IF is /\ ~will THEN {"left"} ELSE {})
                               \cup (IF is /\ will /\ redated THEN {"redated"} ELSE {})
                               \cup (IF ~is /\ will THEN {"entered"} ELSE {})
                               \cup (IF ~is /\ will /\ pc = "find" THEN {"raced"} ELSE {})
        /\ drift' = IF pc = "find" /\ is # will THEN drift + 1 ELSE drift

Write(v, new) ==
    /\ writes < MaxWrites
    /\ writes' = writes + 1
    /\ row' = [row EXCEPT ![v] = new]
    /\ Note(v, new)
    /\ UNCHANGED <<pc, request, client>>

\* PublishVideo: the tags are sanitised, validated, sanitised once more for
\* the entity and kept as JSON.
PublishVideo(v) ==
    /\ row[v] = NoRow
    /\ Validate(sanitizeTags(Draft[v].tags))
    /\ \E d \in Dates :
         Write(v, [status |-> "Processing", user |-> Draft[v].user,
                   tags |-> normalizeTags(sanitizeTags(Draft[v].tags)),
                   created |-> d, published |-> 0])

\* Only Published sets the date, to the time of the call; others keep it.
UpdateVideoTranscodeInfo(v) ==
    /\ row[v] # NoRow
    /\ \/ \E s \in VideoStatus \ {"Published"} :
            Write(v, [row[v] EXCEPT !.status = s])
       \/ \E d \in Dates :
            Write(v, [row[v] EXCEPT !.status = "Published", !.published = d])

-----------------------------------------------------------------------------
(* A listing.                                                              *)

\* A client begins to read a list.  An unknown status is refused.
Begin(l, p, s) ==
    /\ pc = "idle"
    /\ l.filter \in VideoStatus \cup {""}
    /\ list' = l
    /\ page' = NormalizePage(p) /\ size' = NormalizeSize(s)
    /\ begin' = IF page' = 1 THEN Matching(l) ELSE {}
    /\ seen' = {} /\ moved' = {} /\ drift' = 0
    /\ pc' = "count"
    /\ UNCHANGED <<row, writes, total, found, names>>

ListVideos(u, f, p, s) ==
    Begin([kind |-> "own", user |-> u, filter |-> Canonical(f)], p, s)

ListOpenVideos(f, p, s) ==
    Begin([kind |-> "open", user |-> "none", filter |-> OpenFilter(f)], p, s)

\* An error of the database ends the listing, and so the client.
Fails ==
    /\ pc' = "idle" /\ list' = NoList /\ page' = 1 /\ size' = DefaultSize
    /\ total' = 0 /\ found' = <<>> /\ names' = <<>>
    /\ begin' = {} /\ seen' = {} /\ moved' = {} /\ drift' = 0
    /\ UNCHANGED <<row, writes>>

Count ==
    /\ pc = "count"
    /\ \/ /\ total' = Cardinality(Matching(list))
          /\ pc' = "find" /\ drift' = 0
          /\ UNCHANGED <<row, writes, list, page, size, found, names, client, moved>>
       \/ Fails

\* The second query; the database library leaves out an offset below 1.
Find ==
    /\ pc = "find"
    /\ \/ LET o == Offset(page, size)
              skip == IF o > 0 THEN o ELSE 0
              last == skip + Limit(size)
              Shown(v) == [video |-> v, user |-> row[v].user,
                           status |-> row[v].status, tags |-> row[v].tags]
          IN /\ \E s \in Orderings(list) :
                  LET rows == SubSeq(s, skip + 1, IF last > Len(s) THEN Len(s) ELSE last)
                  IN  found' = [i \in DOMAIN rows |-> Shown(rows[i])]
             /\ moved' = IF Ties(list) THEN moved \cup {"tied"} ELSE moved
             /\ pc' = "users"
             /\ UNCHANGED <<row, writes, list, page, size, total, names, client, drift>>
       \/ Fails

\* What the user service answers: those of the users it knows, and none when
\* the call fails.
GetUsersByUUIDs(asked) == SUBSET asked

\* Mutant: the names are taken in the order of the answer.
GetUsersForVideosInOrder ==
    /\ pc = "users"
    /\ \E known \in GetUsersByUUIDs({found[i].user : i \in DOMAIN found}) :
         \E infos \in SetToSeqs(known) :
           names' = [i \in DOMAIN found |-> IF i <= Len(infos) THEN infos[i] ELSE "none"]
    /\ seen' = seen \cup {found[i].video : i \in DOMAIN found}
    /\ pc' = "reply"
    /\ UNCHANGED <<row, writes, list, page, size, total, found, begin, moved, drift>>

\* The uploader of each video of the page, when the user service knew it.
Named(known) ==
    [i \in DOMAIN found |-> IF found[i].user \in known THEN found[i].user ELSE "none"]

\* Each user is asked for once, and may be unknown; when the call fails the
\* listing is shown without names.
GetUsersForVideos ==
    /\ pc = "users"
    /\ \E known \in GetUsersByUUIDs({found[i].user : i \in DOMAIN found}) :
         names' = Named(known)
    /\ seen' = seen \cup {found[i].video : i \in DOMAIN found}
    /\ pc' = "reply"
    /\ UNCHANGED <<row, writes, list, page, size, total, found, begin, moved, drift>>

\* The client reads on up to the number of pages it was last told.
NextPage ==
    /\ pc = "reply" /\ page < TotalPages(total, size)
    /\ page' = page + 1
    /\ total' = 0 /\ found' = <<>> /\ names' = <<>>
    /\ pc' = "count"
    /\ UNCHANGED <<row, writes, list, size, client, moved, drift>>

LastPage == pc = "reply" /\ page >= TotalPages(total, size)

Done == LastPage /\ Fails

Next ==
    \/ \E v \in Videos : PublishVideo(v) \/ UpdateVideoTranscodeInfo(v)
    \/ \E p \in Starts, s \in AskedSizes, f \in Filters :
         \/ \E u \in Users : ListVideos(u, f, p, s)
         \/ ListOpenVideos(f, p, s)
    \/ Count \/ Find \/ GetUsersForVideos \/ NextPage \/ Done

Spec == Init /\ [][Next]_vars

-----------------------------------------------------------------------------
\* A client that reads a list from its first page to the last one, as the page
\* counts of the answers tell it, is shown every video that was in the list
\* when it began.  Only four things can hide one: a video left the list, one
\* was published again, rows of the same date changed places between two
\* queries, or a row came in between the count and the query of a page
\* (video_dao.go:130-184, video_dto.go:81-93, video_cqe.go:110-118).
WalkMissesNone ==
    LastPage /\ moved \subseteq {"entered"} => begin \subseteq seen

\* How many of n rows the page holds.
PageLength(n) ==
    LET left == n - (page - 1) * size
    IN  IF left < 0 THEN 0 ELSE IF left > size THEN size ELSE left

\* An answer agrees with itself, whatever is written between its two queries: the
\* page is as long as its number, its size and its total say, where the total is
\* off by no more than the rows that came or went between the two, and exact when
\* none did.  What happened before the rows were counted, or after the page was
\* found, is no excuse; an offset that does not fit an int is
\* (video_dao.go:130-184, video_repository_impl.go:76-112, video_dto.go:81-93).
PageMatchesTotal ==
    pc = "reply" /\ (page - 1) * size <= IntMax =>
        \E n \in total - drift .. total + drift : Len(found) = PageLength(n)

\* The same client is shown no video twice, on one page or on two: only a row that
\* came into the list, one that was published again, or rows of the same date can
\* repeat one.  Rows that leave the list repeat none, nor does an offset that does
\* not fit an int (video_dao.go:130-184, video_repository_impl.go:76-112).
NoneShownTwice ==
    /\ \A i, j \in DOMAIN found : i # j => found[i].video # found[j].video
    /\ pc = "users" /\ moved \cap {"entered", "redated", "tied"} = {} =>
         seen \cap {found[i].video : i \in DOMAIN found} = {}

\* Whatever status is asked for, what a client is shown is its own user's or
\* was published when the page was read (video_cqe.go:154-184).
ListedIsVisible ==
    \A i \in DOMAIN found :
        found[i].status = "Published" \/ (list.kind = "own" /\ found[i].user = list.user)

\* A video is shown with its own uploader or with none, in a list of several
\* users and with users the user service does not know
\* (user_query_service.go:26-63, video_app.go:187-199).
UploaderIsOwner ==
    \A i \in DOMAIN names : names[i] \in {Draft[found[i].video].user, "none"}

\* The places of the first spellings of tags that are not only blanks.
First(tags) ==
    {j \in DOMAIN tags : /\ KeyOf(tags[j]) # Blank
                         /\ \A k \in 1 .. j - 1 : KeyOf(tags[k]) # KeyOf(tags[j])}

\* The first spellings, trimmed, in the order given.
FirstSpellings(tags) ==
    [n \in 1 .. Cardinality(First(tags)) |->
        Trim[tags[CHOOSE j \in First(tags) :
                    Cardinality({k \in First(tags) : k <= j}) = n]]]

\* The tags of a listed video are those of its publish request, the first
\* spelling of each, trimmed and in the order given, with none left out and none twice
\* (video_cqe.go:34-99, video_entity.go:176-198, convertor/video.go:73-96).
TagsAsPublished ==
    \A i \in DOMAIN found :
        found[i].tags = FirstSpellings(Draft[found[i].video].tags)
=============================================================================

-------------------------------- MODULE Paging ---------------------------------
(***************************************************************************)
(* Keyset pagination of the two public lists: the job board and the lead   *)
(* feed (crates/cm-db/src/repo/jobs.rs, crates/cm-domain/src/jobs.rs) and  *)
(* the contractor directory (repo/search.rs, cm-domain/src/search.rs).     *)
(*                                                                         *)
(* A reader asks for a page, gets a cursor, and asks again with it.  Each  *)
(* page is read in a snapshot of its own: between two pages jobs are       *)
(* posted, closed and reopened, fit falls, quality is recomputed, pins     *)
(* move.  Of a row the model keeps what the WHERE and ORDER BY of the      *)
(* reader's own query look at; the projection, photos, facets and          *)
(* impressions of an answer are left out.                                  *)
(***************************************************************************)
EXTENDS Integers, FiniteSets

CONSTANTS
  Row,         \* jobs, or listings: ids are numbers, as uuids are ordered
  Null,        \* SQL's NULL
  MaxKey,      \* bound: leading sort keys are 0..MaxKey
  MaxAt,       \* bound: posting times, or names, are 1..MaxAt
  FirstAt,     \* the posting time or name a row has to begin with
  Queries,     \* the query strings a reader may begin with
  MaxPage,     \* MAX_PAGE
  DefaultPage, \* DEFAULT_PAGE and DEFAULT_LIMIT
  MaxChanges   \* bound: changes of the table while the reader reads

ASSUME RowAssumption == Row \subseteq Nat /\ IsFiniteSet(Row)
ASSUME NullAssumption == Null \notin Nat
ASSUME PagingBounds ==
  /\ MaxKey \in Nat /\ MaxAt \in Nat /\ MaxChanges \in Nat
  /\ FirstAt \in [Row -> 1..MaxAt]
  /\ MaxPage \in Nat \ {0} /\ DefaultPage \in 1..MaxPage

VARIABLES
  row,      \* the table
  reader,   \* the one who pages through it
  seen,     \* ghost: rows some page has shown
  served,   \* ghost: how often a row was shown where it now stands
  steady,   \* ghost: rows that matched all along and never moved forward
  changes   \* how often the table has changed

pagingVars == <<row, reader, seen, served, steady, changes>>

Key == 0..MaxKey
Surface == {"board", "feed", "directory"}
Sort == {"newest", "best", "budget", "distance", "for_me", "rating", "name"}

Listing ==
  [status : {"absent", "listed", "closed", "cancelled"},
   key    : Key \cup {Null},       \* the leading expression of the reader's ordering
   at     : 1..MaxAt,              \* created_at, or display_name
   placed : BOOLEAN,               \* public_point IS NOT NULL
   covers : {"default", "serving", "no"}]  \* how a listing covers the searcher

(* What the query string says, and stays the same from page to page.         *)
RawQuery ==
  [surface : Surface, sort : Sort \cup {"absent", "unknown"}, q : BOOLEAN,
   near : BOOLEAN, radius : BOOLEAN]
ASSUME QueriesAssumption == Queries \subseteq RawQuery

View == [surface : Surface, sort : Sort, q : BOOLEAN, near : BOOLEAN, radius : BOOLEAN]
Position == [key : Key \cup {Null}, at : 1..MaxAt, id : Row]
NoCursor == [id |-> Null]
NoView == [surface |-> "none"]

Reader ==
  [pc      : {"request", "list", "done"},
   view    : View,
   cursor  : Position \cup {NoCursor},
   serving : SUBSET Row]

PagingTypeOK ==
  /\ row \in [Row -> Listing]
  /\ reader \in Reader
  /\ seen \subseteq Row /\ steady \subseteq Row
  /\ served \in [Row -> Nat]
  /\ changes \in 0..MaxChanges

-------------------------------------------------------------------------------
(* Parsing.  An unknown sort, and a distance with nothing to measure from,   *)
(* are refused; the page size is clamped.                                    *)

jobs_parse(raw) ==
  IF raw.sort \in {"unknown", "rating", "name", "for_me"} \/ (raw.sort = "distance" /\ ~raw.near)
  THEN NoView
  ELSE [surface |-> "board", sort |-> IF raw.sort = "absent" THEN "newest" ELSE raw.sort,
        q |-> raw.q, near |-> raw.near, radius |-> raw.near]

(* The feed is the board for a contractor, by fit unless asked otherwise.    *)
feed_parse(raw) ==
  LET parsed == jobs_parse(raw)
  IN IF parsed = NoView THEN NoView
     ELSE [parsed EXCEPT !.surface = "feed", !.sort = IF raw.sort = "absent" THEN "for_me" ELSE @]

search_parse(raw) ==
  IF raw.sort \in {"unknown", "newest", "budget", "for_me"} \/ (raw.sort = "distance" /\ ~raw.near)
  THEN NoView
  ELSE [surface |-> "directory", sort |-> IF raw.sort = "absent" THEN "best" ELSE raw.sort,
        q |-> raw.q, near |-> raw.near, radius |-> raw.near /\ raw.radius]

parse(raw) ==
  CASE raw.surface = "board" -> jobs_parse(raw)
    [] raw.surface = "feed" -> feed_parse(raw)
    [] raw.surface = "directory" -> search_parse(raw)

limit(asked) == IF asked = Null THEN DefaultPage
                ELSE IF asked < 1 THEN 1 ELSE IF asked > MaxPage THEN MaxPage ELSE asked

-------------------------------------------------------------------------------
(* Orderings.  A sort with nothing to sort on degrades to the tie-break.     *)

Keyed(field, descending) == [field |-> field, descending |-> descending]
Unkeyed == [field |-> "none", descending |-> TRUE]

jobs_ordering_for(v) ==
  CASE v.sort = "budget" -> Keyed("Budget", TRUE)
    [] v.sort = "distance" /\ v.near -> Keyed("Distance", FALSE)
    [] v.sort = "best" /\ v.q -> Keyed("Relevance", TRUE)
    [] v.sort = "for_me" /\ v.surface = "feed" -> Keyed("Fit", TRUE)
    [] OTHER -> Unkeyed

search_ordering_for(v) ==
  CASE v.sort = "distance" /\ v.near -> Keyed("Distance", FALSE)
    [] v.sort = "rating" -> Keyed("Quality", TRUE)
    [] v.sort = "best" -> Keyed(IF v.q THEN "Rank" ELSE "Quality", TRUE)
    [] OTHER -> Unkeyed

OfJobs(v) == v.surface \in {"board", "feed"}
ordering_for(v) == IF OfJobs(v) THEN jobs_ordering_for(v) ELSE search_ordering_for(v)

(* Strictly further along the leading key; NULL is further than nothing.     *)
KeyAhead(o, x, y) ==
  /\ x # Null /\ y # Null
  /\ IF o.descending THEN x > y ELSE x < y

(* The tie-break: (created_at, id) DESC on the board, (display_name, id) in  *)
(* the directory.                                                            *)
TieAhead(v, a, b) ==
  IF OfJobs(v)
  THEN a.at > b.at \/ (a.at = b.at /\ a.id > b.id)
  ELSE a.at < b.at \/ (a.at = b.at /\ a.id < b.id)

(* ORDER BY: a comes before b.  NULLs are last.                              *)
order_by(v, a, b) ==
  LET o == ordering_for(v)
  IN IF o.field = "none" THEN TieAhead(v, a, b)
     ELSE \/ KeyAhead(o, a.key, b.key)
          \/ a.key # Null /\ b.key = Null
          \/ a.key = b.key /\ TieAhead(v, a, b)

\* Mutant: the tie-break is compared row-wise, not only on level keys.
KeysetRowWise(v, a, c) ==
  LET o == ordering_for(v)
  IN IF o.field = "none" THEN TieAhead(v, c, a)
     ELSE KeyAhead(o, c.key, a.key) /\ TieAhead(v, c, a)
\* Mutant: rows level with the cursor are past it whatever their tie-break.
KeysetLevel(v, a, c) ==
  LET o == ordering_for(v)
  IN IF o.field = "none" THEN TieAhead(v, c, a) ELSE KeyAhead(o, c.key, a.key) \/ a.key = c.key
(* The keyset of the board: past the key, or IS NOT DISTINCT FROM it and     *)
(* past the tie-break.  A comparison with NULL is not true.                  *)
jobs_keyset(v, a, c) ==
  LET o == ordering_for(v)
  IN IF o.field = "none" THEN TieAhead(v, c, a)
     ELSE KeyAhead(o, c.key, a.key) \/ (a.key = c.key /\ TieAhead(v, c, a))

(* The keyset of the directory compares with =, which NULL never satisfies.  *)
search_keyset(v, a, c) ==
  LET o == ordering_for(v)
  IN IF o.field = "none" THEN TieAhead(v, c, a)
     ELSE KeyAhead(o, c.key, a.key) \/ (a.key = c.key /\ c.key # Null /\ TieAhead(v, c, a))

keyset(v, a, c) == IF OfJobs(v) THEN jobs_keyset(v, a, c) ELSE search_keyset(v, a, c)

-------------------------------------------------------------------------------
(* Which rows exist for a query.                                             *)

jobs_predicate(v, x) == x.status = "listed" /\ (v.near => x.placed)

(* A listing covers the searcher by the default radius, or by being one of   *)
(* those an earlier statement found; a radius of the searcher's narrows.     *)
search_predicate(v, x, found) ==
  /\ x.status = "listed"
  /\ v.near => (x.covers = "default" /\ x.placed) \/ found
  /\ v.radius => x.placed

Matches(v, x, found) == IF OfJobs(v) THEN jobs_predicate(v, x) ELSE search_predicate(v, x, found)

contractors_serving(v) ==
  IF v.surface = "directory" /\ v.near THEN {r \in Row : row[r].covers = "serving"} ELSE {}

PositionOf(r) == [key |-> row[r].key, at |-> row[r].at, id |-> r]

(* The cursor travels as three fields of text; an absent key is an empty     *)
(* field, and an empty field is read back as no key.                         *)
encode_cursor(c) == <<c.id, IF c.key = Null THEN <<>> ELSE <<c.key>>, c.at>>
decode_cursor(t) == [id |-> t[1], key |-> IF t[2] = <<>> THEN Null ELSE t[2][1], at |-> t[3]]

Ahead(v, a, b) == order_by(v, PositionOf(a), PositionOf(b))

(* One row more than the page answers whether there is another: the cursor   *)
(* is the last row shown.                                                    *)
take_next(v, rows, n) ==
  {take \in [shown : SUBSET rows, next : rows \cup {Null}] :
     IF Cardinality(rows) <= n THEN take.shown = rows /\ take.next = Null
     ELSE /\ Cardinality(take.shown) = n
          /\ \A a \in take.shown, b \in rows \ take.shown : Ahead(v, a, b)
          /\ take.next \in take.shown
          /\ \A a \in take.shown \ {take.next} : Ahead(v, a, take.next)}

-------------------------------------------------------------------------------
(* Which leading keys may be NULL: a budget of "not sure", and the distance  *)
(* to a row without a point.                                                 *)
WellKeyed(v, x) ==
  LET field == ordering_for(v).field
  IN CASE field = "none" -> x.key = 0
       [] field = "Distance" -> (x.key = Null <=> ~x.placed)
       [] field = "Budget" -> TRUE
       [] OTHER -> x.key # Null

Shape(v) ==
  {x \in [status : {"absent", "listed"}, key : Key \cup {Null}, at : {1}, placed : BOOLEAN,
          covers : IF v.surface = "directory" /\ v.near THEN {"default", "serving", "no"} ELSE {"default"}] :
     /\ WellKeyed(v, x) /\ (v.near \/ x.placed)
     /\ x.status = "absent" => x.key = 0 /\ x.placed /\ x.covers = "default"}

Table(v) == {[r \in Row |-> [f[r] EXCEPT !.at = FirstAt[r]]] : f \in [Row -> Shape(v)]}

(* The query string is parsed before anything is read.                       *)
PagingInit ==
  /\ \E raw \in Queries :
       /\ parse(raw) # NoView
       /\ reader = [pc |-> "request", view |-> parse(raw), cursor |-> NoCursor, serving |-> {}]
       /\ row \in Table(parse(raw))
  /\ seen = {} /\ steady = {}
  /\ served = [r \in Row |-> 0]
  /\ changes = 0

view == reader.view

-------------------------------------------------------------------------------
(* Reading a page: what is looked up ahead, then the page.                   *)

Lookup ==
  /\ reader.pc = "request"
  /\ reader' = [reader EXCEPT !.pc = "list", !.serving = contractors_serving(view)]
  /\ steady' = IF reader.cursor # NoCursor THEN steady
               ELSE {r \in Row : Matches(view, row[r], r \in contractors_serving(view))}
  /\ UNCHANGED <<row, seen, served, changes>>

Candidates ==
  {r \in Row : /\ Matches(view, row[r], r \in reader.serving)
               /\ reader.cursor # NoCursor => keyset(view, PositionOf(r), reader.cursor)}

List(n) ==
  /\ reader.pc = "list"
  /\ \E take \in take_next(view, Candidates, n) :
       /\ reader' = [reader EXCEPT
                       !.pc = IF take.next = Null THEN "done" ELSE "request",
                       !.cursor = IF take.next = Null THEN @
                                  ELSE decode_cursor(encode_cursor(PositionOf(take.next)))]
       /\ seen' = seen \cup take.shown
       /\ served' = [r \in Row |-> IF r \in take.shown THEN served[r] + 1 ELSE served[r]]
  /\ UNCHANGED <<row, steady, changes>>

-------------------------------------------------------------------------------
(* What happens to the table meanwhile.                                      *)

Place(x) == <<x.key, x.at>>
PositionIn(f, r) == [key |-> f[r].key, at |-> f[r].at, id |-> r]

(* A row that still matches, and did not come nearer to the front.           *)
Stays(f, r) ==
  /\ Matches(view, f[r], f[r].covers = "serving") /\ f[r].covers = row[r].covers
  /\ ~order_by(view, PositionIn(f, r), PositionOf(r))

(* Changes before the first page and after the last are of no consequence.   *)
Reading == reader.pc = "list" \/ (reader.pc = "request" /\ reader.cursor # NoCursor)

Change(f) ==
  /\ changes < MaxChanges /\ Reading /\ f # row
  /\ row' = f
  /\ served' = [r \in Row |-> IF Place(f[r]) = Place(row[r]) THEN served[r] ELSE 0]
  /\ steady' = {r \in steady : Stays(f, r)}
  /\ changes' = changes + 1
  /\ UNCHANGED <<reader, seen>>

ChangeRow(r, x) == WellKeyed(view, x) /\ Change([row EXCEPT ![r] = x])

Post(r, x) ==
  /\ OfJobs(view) /\ row[r].status = "absent"
  /\ x.status = "listed" /\ x.covers = "default"
  /\ \A other \in Row : row[other].status # "absent" => x.at >= row[other].at
  /\ ChangeRow(r, x)

Close(r, as) ==
  /\ OfJobs(view) /\ row[r].status = "listed" /\ as \in {"closed", "cancelled"}
  /\ ChangeRow(r, [row[r] EXCEPT !.status = as])

Reopen(r) ==
  /\ OfJobs(view) /\ row[r].status = "closed"
  /\ ChangeRow(r, [row[r] EXCEPT !.status = "listed"])

(* A job ages, or somebody else answers it: its fit can only fall.           *)
FitFalls(r, k) ==
  /\ ordering_for(view).field = "Fit" /\ k < row[r].key
  /\ ChangeRow(r, [row[r] EXCEPT !.key = k])

(* The listing of the contractor who looks changes its trades or its point,  *)
(* and every fit with it (viewer_for runs on each request).                  *)
ViewerChanges(k) ==
  /\ ordering_for(view).field = "Fit"
  /\ Change([r \in Row |-> [row[r] EXCEPT !.key = k[r]]])

(* A licence file brings a new listing, or renames one.                      *)
Import(r, x) ==
  /\ view.surface = "directory" /\ row[r].status = "absent"
  /\ x.status = "listed" /\ x.covers \in {"default", "no"}
  /\ ChangeRow(r, x)

Rename(r, name) ==
  /\ view.surface = "directory" /\ row[r].status = "listed"
  /\ ChangeRow(r, [row[r] EXCEPT !.at = name])

(* The nightly recomputation of quality, which a text rank is blended with.  *)
Rescore(r, k) ==
  /\ ordering_for(view).field \in {"Quality", "Rank"} /\ row[r].status = "listed"
  /\ ChangeRow(r, [row[r] EXCEPT !.key = k])

(* The published point moves, appears or goes.                               *)
Republish(r, p, k) ==
  /\ view.surface = "directory" /\ view.near /\ row[r].status = "listed"
  /\ ChangeRow(r, [row[r] EXCEPT !.placed = p, !.key = k])

(* A claimant changes the radius they travel or the places they name.        *)
ServiceAreas(r, c) ==
  /\ view.surface = "directory" /\ view.near /\ row[r].status = "listed"
  /\ ChangeRow(r, [row[r] EXCEPT !.covers = c])

Asked == {Null} \cup 0..(MaxPage + 1)

PagingNext ==
  \/ Lookup
  \/ \E n \in {limit(asked) : asked \in Asked} : List(n)
  \/ \E r \in Row, as \in {"closed", "cancelled"} : Close(r, as)
  \/ \E r \in Row : Reopen(r)
  \/ \E r \in Row, x \in [status : {"listed"}, key : Key \cup {Null}, at : 1..MaxAt,
                          placed : BOOLEAN, covers : {"default", "no"}] : Post(r, x) \/ Import(r, x)
  \/ \E r \in Row, k \in Key : FitFalls(r, k) \/ Rescore(r, k)
  \/ \E k \in [Row -> Key] : ViewerChanges(k)
  \/ \E r \in Row, name \in 1..MaxAt : Rename(r, name)
  \/ \E r \in Row, p \in BOOLEAN, k \in Key \cup {Null} : Republish(r, p, k)
  \/ \E r \in Row, c \in {"default", "serving", "no"} : ServiceAreas(r, c)

PagingSpec == PagingInit /\ [][PagingNext]_pagingVars

-------------------------------------------------------------------------------
(* Properties                                                                *)

(* "Every row exactly once, no repeats and nothing dropped", for the rows    *)
(* that the ordering gives a place: whoever reads to the end has been shown  *)
(* each row that matched all along and did not move nearer to the front      *)
(* meanwhile (order_and_keyset, list_sql).                                   *)
NothingDropped ==
  reader.pc = "done" => \A r \in steady : row[r].key # Null => r \in seen

(* No row is shown twice in the same place, whatever is posted, closed,      *)
(* reopened or moved between two pages (take_next and the keyset).           *)
NothingRepeated == \A r \in Row : served[r] <= 1

(* Each cursor is further along the ordering than the one before it, so a    *)
(* reader comes to an end and never circles (take_next).                     *)
CursorAdvances ==
  [][reader.cursor # NoCursor /\ reader'.cursor # reader.cursor
       => order_by(view, reader.cursor, reader'.cursor)]_pagingVars

(* cm-api/tests/jobs.rs: "Every ordering has to page correctly", "nothing    *)
(* dropped", without the exception for keys that are NULL.                   *)
EveryRowShown == reader.pc = "done" => steady \subseteq seen
===============================================================================

------------------------------- MODULE Browse -------------------------------
(***************************************************************************)
(* Browsing a table page by page: the explorers of the web client           *)
(* (SqlExplorer.tsx, Explore.tsx) with their cache of pages, and the two     *)
(* queries the server answers a page with (fetchRows of the clients, the     *)
(* query route of explore.ts).  Nothing joins the two queries, or two pages, *)
(* while the application goes on writing to the table.                      *)
(***************************************************************************)
EXTENDS Integers, SequencesExt

CONSTANTS
  PageSize,    \* PAGE_SIZE; the clients' own limit is above it
  MaxRows      \* bound: rows that are ever in the table

ASSUME BrowseAssumption == {PageSize, MaxRows} \subseteq Nat \ {0} /\ PageSize <= MaxRows

VARIABLES
  sorted,      \* by the "key", Postgres' "ctid", MySQL's "first" column, or "none" (MongoDB)
  listing,     \* the rows of the table, in that order
  born,        \* rows made so far
  at,          \* the page in view
  pages,       \* the cache: the last answer for each page
  asked,       \* Page -> what its request has got so far
  chained,     \* history: pages read after the page before them was
  since,       \* history: the rows that were there when the first page was read
  disturbed    \* history: what happened to rows of the table since then

browseVars == <<sorted, listing, born, at, pages, asked, chained, since, disturbed>>

Page == 0 .. (MaxRows - 1) \div PageSize
RowNo == 1 .. MaxRows
NotRead == [total |-> -1, rows |-> {}]
Answer == [total : -1 .. MaxRows, rows : SUBSET RowNo]
Quiet == [at |-> "quiet"]
Sent == [at |-> "sent"]

Contents(s) == {s[i] : i \in DOMAIN s}

BrowseInit ==
  /\ sorted \in {"key", "ctid", "first", "none"}
  /\ born = PageSize /\ listing = [i \in 1 .. PageSize |-> i]
  /\ at = 0
  /\ pages = [p \in Page |-> NotRead]
  /\ asked = [p \in Page |-> Quiet]
  /\ chained = {} /\ since = {} /\ disturbed = {}

-----------------------------------------------------------------------------
(* The application. *)

RowInserted(i) ==
  /\ born < MaxRows /\ born' = born + 1
  /\ listing' = InsertAt(listing, i, born')
  /\ UNCHANGED <<sorted, at, pages, asked, chained, since, disturbed>>

RowDeleted(i) ==
  /\ listing' = RemoveAt(listing, i)
  /\ disturbed' = disturbed \cup {"deleted"}
  /\ UNCHANGED <<sorted, born, at, pages, asked, chained, since>>

\* A row's new version is another tuple, and ctid is the place of the tuple.  A
\* key stays where it is, or goes and comes as a deletion and an insertion do.
RowUpdated(i, j) ==
  /\ sorted = "ctid"
  /\ listing' = InsertAt(RemoveAt(listing, i), j, listing[i])
  /\ disturbed' = disturbed \cup {"moved"}
  /\ UNCHANGED <<sorted, born, at, pages, asked, chained, since>>

-----------------------------------------------------------------------------
(* The explorer.  A page that is in the cache is shown at once. *)

HasNext == (at + 1) * PageSize < pages[at].total
\* RowsView shows its pager only with a page that has rows.
HasPager == pages[at] # NotRead /\ (sorted # "none" => pages[at].rows # {})

Turns(p) ==
  /\ at' = p
  /\ UNCHANGED <<sorted, listing, born, pages, asked, chained, since, disturbed>>

SelectTable == at # 0 /\ Turns(0)
NextPage == HasPager /\ HasNext /\ at + 1 \in Page /\ Turns(at + 1)
PreviousPage == HasPager /\ at > 0 /\ Turns(at - 1)

\* useQuery: a page that is not in the cache, or is there for longer than staleTime.
AskPage ==
  /\ asked[at] = Quiet
  /\ asked' = [asked EXCEPT ![at] = Sent]
  /\ UNCHANGED <<sorted, listing, born, at, pages, chained, since, disturbed>>

-----------------------------------------------------------------------------
(* The server. *)

Ordered == sorted \in {"key", "ctid"}

\* The orders a query may list the rows in: without an order of all rows, any.
Orders ==
  IF Ordered THEN {listing}
  ELSE {s \in [DOMAIN listing -> Contents(listing)] : Contents(s) = Contents(listing)}

OffsetLimit(s, p) == {s[i] : i \in {j \in DOMAIN s : p * PageSize < j /\ j <= (p + 1) * PageSize}}

\* What a page is read after and what has to be read after it.
Reads(p) ==
  /\ chained' = (IF p = 0 \/ p - 1 \in chained THEN chained \cup {p} ELSE chained \ {p}) \ {p + 1}
  /\ IF p = 0 THEN since' = Contents(listing) /\ disturbed' = {} ELSE UNCHANGED <<since, disturbed>>

\* Mutant of FetchPage: the count is taken first.
FetchPageCounted(p) ==
  /\ \/ asked[p] = Sent
        /\ asked' = [asked EXCEPT ![p] = [at |-> "read", total |-> Len(listing)]]
        /\ UNCHANGED <<pages, chained, since, disturbed>>
     \/ asked[p].at = "read"
        /\ \E s \in Orders :
             pages' = [pages EXCEPT ![p] = [total |-> asked[p].total, rows |-> OffsetLimit(s, p)]]
        /\ asked' = [asked EXCEPT ![p] = Quiet] /\ Reads(p)
  /\ UNCHANGED <<sorted, listing, born, at>>

\* SELECT ... LIMIT OFFSET; then SELECT COUNT(*), and the answer.
FetchPage(p) ==
  /\ \/ asked[p] = Sent
        /\ \E s \in Orders : asked' = [asked EXCEPT ![p] = [at |-> "read", rows |-> OffsetLimit(s, p)]]
        /\ UNCHANGED pages /\ Reads(p)
     \/ asked[p].at = "read"
        /\ pages' = [pages EXCEPT ![p] = [total |-> Len(listing), rows |-> asked[p].rows]]
        /\ asked' = [asked EXCEPT ![p] = Quiet] /\ UNCHANGED <<chained, since, disturbed>>
  /\ UNCHANGED <<sorted, listing, born, at>>

\* The server or the way to it fails; what the cache has stays.
FetchFails(p) ==
  /\ asked[p] # Quiet
  /\ asked' = [asked EXCEPT ![p] = Quiet]
  /\ chained' = IF asked[p].at = "read" THEN chained \ {p, p + 1} ELSE chained
  /\ UNCHANGED <<sorted, listing, born, at, pages, since, disturbed>>

BrowseNext ==
  \/ \E i \in 1 .. Len(listing) + 1 : RowInserted(i)
  \/ \E i \in DOMAIN listing : RowDeleted(i) \/ \E j \in DOMAIN listing : RowUpdated(i, j)
  \/ SelectTable \/ NextPage \/ PreviousPage \/ AskPage
  \/ \E p \in Page : FetchPage(p) \/ FetchFails(p)

BrowseSpec == BrowseInit /\ [][BrowseNext]_browseVars

-----------------------------------------------------------------------------
BrowseTypeOK ==
  /\ Contents(listing) \subseteq RowNo /\ born \in 0 .. MaxRows
  /\ at \in Page /\ chained \subseteq Page /\ since \subseteq RowNo /\ disturbed \subseteq {"deleted", "moved"}
  /\ pages \in [Page -> Answer]
  /\ \A p \in Page : asked[p].at \in {"quiet", "sent", "read"}

(* Somebody who turns the pages of a table from the first to the one that has no *)
(* Next has seen every row that was there all the time, although rows were       *)
(* inserted before and between (which shows some rows twice): as long as the     *)
(* query orders all rows, none was deleted and, where the order is that of       *)
(* ctid, none was updated, and every page was read after the one before it, not  *)
(* taken from an older answer in the cache.                                      *)
SeesAll ==
  Ordered /\ (\A p \in Page : asked[p] = Quiet) =>
    \A p \in Page :
      /\ 0 .. p \subseteq chained
      /\ pages[p].total <= (p + 1) * PageSize
      => since \subseteq UNION {pages[q].rows : q \in 0 .. p}

PagesWhole == disturbed = {} => SeesAll
=============================================================================

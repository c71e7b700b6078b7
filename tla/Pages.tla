-------------------------------- MODULE Pages --------------------------------
(***************************************************************************)
(* Listings read page by page: the cursor a page returns is the sort key of   *)
(* its last row, and the next page takes the rows after it, while rows come,  *)
(* change and go.                                                           *)
(***************************************************************************)
EXTENDS Transactions, Sequences

CONSTANTS RowIds,   \* bound: identifiers, ordered like numbers
          Times,    \* bound: creation times and ranks
          PageSize

ASSUME PageAssumption == RowIds \subseteq Nat /\ Times \subseteq Nat /\ PageSize \in Nat \ {0}

VARIABLES rows, \* the rows there are
          walk  \* a client's way through a listing

paging == <<rows, walk>>

(***************************************************************************)
(* The listings: the key each orders its rows by (ascending; a descending      *)
(* column is negated).  rank stands for a score, a kind or a price.            *)
(***************************************************************************)
Closures(x) == <<x.at, x.id>>
StockPage(x) == <<x.at, x.id>>
Vendors(x) == <<x.at, x.id>>
VerificationQueue(x) == <<x.at, x.rank, x.id>>
MatchQueue(x) == <<-x.rank, x.at, x.id>>
DeadLetters(x) == <<-x.at, -x.id>>
Notifications(x) == <<-x.at, -x.id>>
AuditLog(x) == <<-x.at, -x.id>>
Performance(x) == <<-x.at, -x.id>>
ByPrice(x) == <<x.rank, -x.at, -x.id>>
ByPriceDown(x) == <<-x.rank, -x.at, -x.id>>

Listings ==
  {"closures", "stock", "vendors", "verification", "matches", "dead_letters", "notifications", "audit_log",
   "performance", "price_asc", "price_desc"}
KeyOf(list, x) ==
  CASE list = "closures" -> Closures(x) [] list = "stock" -> StockPage(x) [] list = "vendors" -> Vendors(x)
    [] list = "verification" -> VerificationQueue(x) [] list = "matches" -> MatchQueue(x)
    [] list = "dead_letters" -> DeadLetters(x) [] list = "notifications" -> Notifications(x)
    [] list = "audit_log" -> AuditLog(x) [] list = "performance" -> Performance(x)
    [] list = "price_asc" -> ByPrice(x) [] list = "price_desc" -> ByPriceDown(x)

Precedes(k, l) == \E i \in 1..Len(k) : k[i] < l[i] /\ \A j \in 1..(i - 1) : k[j] = l[j]

\* Slip: the condition of the next page compares the first column only.
AfterFirstColumn(cursor, key) == cursor[1] < key[1]
After(cursor, key) == Precedes(cursor, key)

Start == << >>
Remaining(list, cursor) ==
  {x \in rows : cursor = Start \/ After(cursor, KeyOf(list, x))}
(* ORDER BY with LIMIT: a page is closed downwards in the order.               *)
IsPage(list, S, page) ==
  /\ page \subseteq S /\ (Cardinality(page) = PageSize \/ (page = S /\ Cardinality(S) < PageSize))
  /\ \A x \in page, y \in S \ page : Precedes(KeyOf(list, x), KeyOf(list, y))

LastOf(list, page) == CHOOSE x \in page : \A y \in page \ {x} : Precedes(KeyOf(list, y), KeyOf(list, x))

PagesInit ==
  /\ rows = {}
  /\ walk = [list |-> "none", cursor |-> Start, shown |-> [i \in RowIds |-> 0], same |-> {}]

StartWalk(list) ==
  /\ walk.list = "none" /\ Writes({})
  /\ walk' = [walk EXCEPT !.list = list, !.same = rows] /\ UNCHANGED rows

(* One request; next_cursor is null once nothing remains beyond the page.       *)
NextPage ==
  LET S == Remaining(walk.list, walk.cursor)
  IN /\ walk.list \in Listings
     /\ \E page \in SUBSET S :
          /\ IsPage(walk.list, S, page)
          /\ walk' =
               [walk EXCEPT
                  !.shown = [i \in RowIds |-> @[i] + Cardinality({x \in page : x.id = i})],
                  !.list = IF page = S THEN "done" ELSE @,
                  !.cursor = IF page = S THEN @ ELSE KeyOf(walk.list, LastOf(walk.list, page))]
     /\ UNCHANGED <<rows, transactions>>

(* A row appears, with the time its transaction began, or enters the state the    *)
(* listing filters on; changes; or goes.                                     *)
RowChanges(i) ==
  LET old == {x \in rows : x.id = i}
  IN /\ Writes({})
     /\ \E new \in {{}} \union {{[id |-> i, at |-> t, rank |-> k]} : t \in Times, k \in Times} :
          /\ new # old /\ rows' = (rows \ old) \union new
     /\ walk' = [walk EXCEPT !.same = @ \ old]

PagesNext ==
  \/ \E list \in Listings : StartWalk(list)
  \/ NextPage
  \/ \E i \in RowIds : RowChanges(i)

PagesSpec == PagesInit /\ NothingRuns /\ [][PagesNext]_<<paging, transactions>>

(***************************************************************************)
(* Properties                                                               *)
(***************************************************************************)
(* A row that was in the listing when the client asked for its first page, and   *)
(* has not changed since, is shown once by the time there is no next page, and   *)
(* never twice, whatever became of the rows around it, the cursor's own included *)
(* (the keyset conditions of every listing with a cursor).                      *)
PagesNeitherRepeatNorSkip ==
  \A x \in walk.same : walk.shown[x.id] <= 1 /\ (walk.list = "done" => walk.shown[x.id] = 1)
=============================================================================

----------------------------- MODULE Assortment -----------------------------
(***************************************************************************)
(* How the catalogue is arranged: the tree of categories, the sections of a  *)
(* store, and the comparison sets of customers.                              *)
(***************************************************************************)
EXTENDS Transactions

CONSTANTS Categories,
          Groups,      \* stores, whose groups are sections of the shop window, and comparison sets
          Stores,      \* those of Groups that are stores
          Entries,     \* sections of a store, products of a comparison set
          MaxSections, MaxItems

Root == "root"

ASSUME LimitAssumption == Stores \subseteq Groups /\ IsFiniteSet(Entries) /\ MaxSections \in Nat /\ MaxItems \in Nat
ASSUME CategoryAssumption == Categories \intersect {Root, "none", "gone"} = {}

VARIABLES parent,   \* of a category; "none" before it is created, "gone" once it is removed
          inUse,    \* categories with canonical products
          members,  \* sections of a store, products of a comparison set
          sets      \* comparison sets that exist

assortment == <<parent, inUse, members, sets>>

TreeLock == <<"category_tree">>
CategoryRow(c) == <<"category", c>>
SectionsLock(s) == <<"store_sections", s>>
SetRow(s) == <<"comparison_set", s>>

Existing == {c \in Categories : parent[c] \notin {"none", "gone"}}

AssortmentInit ==
  /\ parent = [c \in Categories |-> "none"] /\ inUse = {}
  /\ members = [g \in Groups |-> {}] /\ sets = {}

(***************************************************************************)
(* Categories                                                               *)
(***************************************************************************)
(* The parent is looked up before the transaction; the foreign key looks again.  *)
CreateCategory(r, c, p) ==
  /\ parent[c] = "none" /\ p \in Existing \union {Root} /\ c # p
  /\ Begins(r, [op |-> "category", category |-> c, under |-> p], {}) /\ UNCHANGED assortment

CategoryCreated(r) ==
  /\ Commits(r, "category") /\ parent[running[r].category] = "none" /\ running[r].under \in Existing \union {Root}
  /\ parent' = [parent EXCEPT ![running[r].category] = running[r].under] /\ UNCHANGED <<inUse, members, sets>>

(* The walk up from the proposed parent meets the category.                    *)
WouldCreateCycle(c, p) ==
  p # Root /\ \A S \in SUBSET Existing : p \in S /\ (\A x \in S : parent[x] \in S \union {Root}) => c \in S

\* Slip: only the category that moves is locked.
MovedRow(c) == {CategoryRow(c)}
MoveLocks(c) == {TreeLock}

MoveCategory(r, c, p) ==
  /\ c \in Existing /\ p \in Existing \union {Root} /\ ~WouldCreateCycle(c, p)
  /\ Begins(r, [op |-> "move", category |-> c, under |-> p], MoveLocks(c)) /\ UNCHANGED assortment

CategoryMoved(r) ==
  /\ Commits(r, "move") /\ running[r].category \in Existing /\ running[r].under \in Existing \union {Root}
  /\ parent' = [parent EXCEPT ![running[r].category] = running[r].under] /\ UNCHANGED <<inUse, members, sets>>

(* remove() takes no lock; the children of the category become roots.           *)
RemoveCategory(r, c) ==
  /\ c \in Existing \ inUse /\ Begins(r, [op |-> "remove", category |-> c], {}) /\ UNCHANGED assortment

CategoryRemoved(r) ==
  LET c == running[r].category
  IN /\ Commits(r, "remove") /\ c \in Existing \ inUse
     /\ parent' = [x \in Categories |-> IF x = c THEN "gone" ELSE IF parent[x] = c THEN Root ELSE parent[x]]
     /\ UNCHANGED <<inUse, members, sets>>

CategoryUsed(c) ==
  c \in Existing \ inUse /\ inUse' = inUse \union {c} /\ UNCHANGED <<transactions, parent, members, sets>>

(***************************************************************************)
(* Sections and comparison sets                                             *)
(***************************************************************************)
Limit(g) == IF g \in Stores THEN MaxSections ELSE MaxItems

\* Slip: additions do not wait for each other.
NoLock(g) == {}
AddLocks(g) == {IF g \in Stores THEN SectionsLock(g) ELSE SetRow(g)}

(* create() of a section; addItem() of a comparison set.                       *)
Add(r, g, x) ==
  /\ g \in Stores \union sets /\ Cardinality(members[g]) < Limit(g)
  /\ Begins(r, [op |-> "add", group |-> g, entry |-> x], AddLocks(g)) /\ UNCHANGED assortment

(* A product is in a set once, and a set that is gone takes none.               *)
Added(r) ==
  LET g == running[r].group
  IN /\ Commits(r, "add") /\ running[r].entry \notin members[g] /\ g \in Stores \union sets
     /\ members' = [members EXCEPT ![g] = @ \union {running[r].entry}] /\ UNCHANGED <<parent, inUse, sets>>

(* removeItem() waits for the set; a section is deleted without the store's lock. *)
Remove(g, x) ==
  /\ x \in members[g] /\ Writes(IF g \in Stores THEN {} ELSE {SetRow(g)})
  /\ members' = [members EXCEPT ![g] = @ \ {x}] /\ UNCHANGED <<parent, inUse, sets>>

(* A set is created with its first products, whose number the request bounds.    *)
CreateSet(s, products) ==
  /\ s \notin Stores \union sets /\ products # {} /\ Cardinality(products) <= MaxItems /\ Writes({})
  /\ sets' = sets \union {s} /\ members' = [members EXCEPT ![s] = products] /\ UNCHANGED <<parent, inUse>>

DeleteSet(s) ==
  /\ s \in sets /\ Writes({SetRow(s)})
  /\ sets' = sets \ {s} /\ members' = [members EXCEPT ![s] = {}] /\ UNCHANGED <<parent, inUse>>

TreeNext ==
  \/ \E r \in Requests, c \in Categories :
       RemoveCategory(r, c) \/ \E p \in Categories \union {Root} : CreateCategory(r, c, p) \/ MoveCategory(r, c, p)
  \/ \E r \in Requests : CategoryCreated(r) \/ CategoryMoved(r) \/ CategoryRemoved(r) \/ (Abandons(r) /\ UNCHANGED assortment)
  \/ \E c \in Categories : CategoryUsed(c)

GroupNext ==
  \/ \E r \in Requests, g \in Groups, x \in Entries : Add(r, g, x)
  \/ \E r \in Requests : Added(r) \/ (Abandons(r) /\ UNCHANGED assortment)
  \/ \E g \in Groups, x \in Entries : Remove(g, x)
  \/ \E g \in Groups : DeleteSet(g) \/ \E products \in SUBSET Entries : CreateSet(g, products)

AssortmentSpec == AssortmentInit /\ NothingRuns /\ [][TreeNext \/ GroupNext]_<<assortment, transactions>>

(***************************************************************************)
(* Properties                                                               *)
(***************************************************************************)
(* Following parents from any category leads to a root, whatever two requests    *)
(* re-parent, create or remove at once (wouldCreateCycle(), update()).        *)
CategoriesFormATree ==
  \A S \in (SUBSET Existing) \ {{}} : \E c \in S : parent[c] \notin S

(* No store has more sections and no comparison set more products than the       *)
(* limit each request checks before it adds one (StoreSectionsController,        *)
(* ComparisonSetsService).                                                   *)
LimitsHold == \A g \in Groups : Cardinality(members[g]) <= Limit(g)
=============================================================================

-------------------------- MODULE AssociationSearch --------------------------
(***************************************************************************)
(* searchAssociations of the built-in oracle, on top of BuiltinOracle: a     *)
(* page of the documents that a filter selects, and the number of pages.     *)
(* They are two queries with an await each, between which callers associate  *)
(* and disassociate.  Documents have no updatedAt, the field they are sorted *)
(* by, so any document may come anywhere.  The filter only makes the         *)
(* documents fewer; the search modelled here has none.                       *)
(***************************************************************************)
EXTENDS BuiltinOracle, Integers, FiniteSetsExt

CONSTANTS Limit,                \* the limit of the query for the page, 20 in the code
          MaxEntriesPerPage,    \* MAX_ENTRIES_PER_PAGE, 100 in the code
          PageIndexes, PageSizes   \* what requests ask for, integers of any sign

ASSUME SearchAssumption ==
    /\ Limit \in Nat \ {0}
    /\ MaxEntriesPerPage \in Nat \ {0}
    /\ PageIndexes \subseteq Int
    /\ PageSizes \subseteq Int

Document == Association \X (1..MaxWrites)

VARIABLES
    search,    \* the search that waits for its second query, or Null
    page       \* what the search that has just ended answers, or Null

searchVars == <<vars, search, page>>

Query == [pageIndex : Nat, pageSize : Int]

(* Infinity and NaN, which JSON writes as null *)
NotANumber == Null

SearchTypeOK ==
    /\ search = Null \/ search \in [query : Query, items : SUBSET Document, still : BOOLEAN]
    /\ page = Null \/ page \in [items : SUBSET Document, pageIndex : Nat, pageSize : Int,
                               totalPages : Int \cup {NotANumber}]

SearchInit == Init /\ search = Null /\ page = Null

(* The documents of the collection, told apart. *)
Stored == UNION {{a} \X (1..docs[a]) : a \in Association}

AtMost(n, limit) == IF n < limit THEN n ELSE limit

(* As TotalPages, rounding down. *)
WholePages(n, pageSize) ==
    IF pageSize = 0 THEN NotANumber
    ELSE IF pageSize > 0 THEN n \div pageSize ELSE -(n \div (-pageSize))

(* Math.ceil of the quotient *)
TotalPages(n, pageSize) ==
    IF pageSize = 0 THEN NotANumber
    ELSE IF pageSize > 0 THEN (n + pageSize - 1) \div pageSize ELSE -(n \div (-pageSize))

(* As PageLength, skipping pages of the greatest size. *)
SkipFullPages(n, query) ==
    AtMost(Max({n - query.pageIndex * MaxEntriesPerPage, 0}), Limit)

(* How many documents skip and limit leave of n. *)
PageLength(n, query) == AtMost(Max({n - query.pageIndex * query.pageSize, 0}), Limit)

(* Both parameters are bounded, each on one side, and the page is read.  If  *)
(* that fails, as it does for a negative skip, the page is an empty one.     *)
searchAssociations(index, size) ==
    LET query == [pageIndex |-> Max({index, 0}), pageSize |-> AtMost(size, MaxEntriesPerPage)]
    IN
    /\ search = Null
    /\ \/ /\ query.pageIndex * query.pageSize >= 0
          /\ \E items \in kSubset(PageLength(Cardinality(Stored), query), Stored) :
                search' = [query |-> query, items |-> items, still |-> TRUE]
          /\ page' = Null
       \/ /\ page' = [items |-> {}, pageIndex |-> query.pageIndex,
                       pageSize |-> query.pageSize, totalPages |-> 0]
          /\ UNCHANGED search
    /\ UNCHANGED vars

(* All documents are read once more to be counted. *)
CountEntries ==
    LET query == search.query
        n == Cardinality(Stored)
    IN
    /\ search # Null
    /\ page' = [items |-> search.items, pageIndex |-> query.pageIndex,
                pageSize |-> Max({query.pageSize, Cardinality(search.items)}),
                totalPages |-> TotalPages(n, query.pageSize)]
    /\ search' = Null
    /\ UNCHANGED vars

(* The second query fails: the page goes out with what it holds so far. *)
CountFails ==
    /\ search # Null
    /\ page' = [items |-> search.items, pageIndex |-> search.query.pageIndex,
                pageSize |-> search.query.pageSize, totalPages |-> 0]
    /\ search' = Null
    /\ UNCHANGED vars

(* The callers go on meanwhile. *)
StoreStep ==
    /\ Next
    /\ search' = IF search = Null THEN Null
                 ELSE [search EXCEPT !.still = @ /\ docs' = docs]
    /\ page' = Null

SearchNext ==
    \/ \E index \in PageIndexes, size \in PageSizes : searchAssociations(index, size)
    \/ CountEntries
    \/ CountFails
    \/ StoreStep

SearchSpec == SearchInit /\ [][SearchNext]_searchVars

-----------------------------------------------------------------------------
(***************************************************************************)
(* What a client pages by: unless a write falls between its two queries, a   *)
(* page is non-empty exactly if its index is below the number of pages that  *)
(* comes with it.  A client that stops at totalPages misses no page, and one *)
(* that stops at the first empty page meets no gap.                          *)
(***************************************************************************)
PageExists ==
    [][CountEntries /\ search.still /\ search.query.pageSize > 0 =>
          (page'.items # {} <=> page'.pageIndex < page'.totalPages)]_searchVars

(***************************************************************************)
(* Nothing falls between two pages of a size within the limit of the query:  *)
(* a page holds as many documents as its size, or all that are left.         *)
(***************************************************************************)
NothingBetweenPages ==
    [][CountEntries /\ search.still /\ search.query.pageSize \in 1..Limit =>
          LET query == search.query
              left == Cardinality(Stored) - query.pageIndex * query.pageSize
          IN  Cardinality(page'.items) >= AtMost(left, query.pageSize)]_searchVars

(***************************************************************************)
(* If the pages are one, the first page is all there is, as the repository's *)
(* test of a filtered and paginated search has it.                           *)
(***************************************************************************)
OnePageIsAll ==
    [][CountEntries /\ search.still /\ page'.pageIndex = 0 /\ page'.totalPages = 1 =>
          page'.items = Stored]_searchVars

=============================================================================

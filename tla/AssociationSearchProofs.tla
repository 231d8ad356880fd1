----------------------- MODULE AssociationSearchProofs -----------------------
(***************************************************************************)
(* For all associations, requests and bounds: what a client pages by is      *)
(* right, unless a write falls between the two queries of a search.          *)
(***************************************************************************)
EXTENDS AssociationSearch, BuiltinOracleProofs, FiniteSetTheorems

(* What the first query has found: as many documents as skip and limit leave *)
(* of those that are still stored.                                           *)
SearchInv ==
    /\ IsFiniteSet(Stored)
    /\ search # Null =>
          /\ search \in [query : Query, items : SUBSET (Association \X Nat), still : BOOLEAN]
          /\ search.still =>
                /\ search.items \subseteq Stored
                /\ Cardinality(search.items) = PageLength(Cardinality(Stored), search.query)

-----------------------------------------------------------------------------
(* Numbers *)

LEMMA AtLeastZero ==
    ASSUME NEW x \in Int
    PROVE  Max({x, 0}) = IF x >= 0 THEN x ELSE 0
<1>1. \E m \in {x, 0} : \A y \in {x, 0} : m >= y
  <2>1. CASE x >= 0
    BY <2>1
  <2>2. CASE ~ (x >= 0)
    BY <2>2
  <2>. QED
    BY <2>1, <2>2
<1>2. Max({x, 0}) \in {x, 0} /\ \A y \in {x, 0} : Max({x, 0}) >= y
  BY <1>1 DEF Max
<1>. QED
  BY <1>2

LEMMA LengthIs ==
    ASSUME NEW n \in Nat, NEW query \in Query
    PROVE  LET left == n - query.pageIndex * query.pageSize
           IN  PageLength(n, query) = AtMost(IF left >= 0 THEN left ELSE 0, Limit)
<1>1. n - query.pageIndex * query.pageSize \in Int
  BY DEF Query
<1>. QED
  BY <1>1, AtLeastZero DEF PageLength

(* The pages that are numbered are those that have documents. *)
LEMMA PagesCover ==
    ASSUME NEW n \in Nat, NEW i \in Nat, NEW s \in Nat \ {0}
    PROVE  i * s < n <=> i < (n + s - 1) \div s
<1>. DEFINE q == (n + s - 1) \div s
<1>1. q \in Int /\ q * s <= n + s - 1 /\ n + s - 1 < q * s + s
  OBVIOUS
<1>. HIDE DEF q
<1>2. ASSUME i < q PROVE i * s < n
  <2>1. q - i - 1 \in Nat
    BY <1>1, <1>2
  <2>2. (q - i - 1) * s >= 0
    BY <2>1
  <2>3. (q - i - 1) * s = q * s - i * s - s
    BY <1>1
  <2>4. i * s \in Int /\ q * s \in Int
    BY <1>1
  <2>. QED
    BY <1>1, <2>2, <2>3, <2>4
<1>3. ASSUME ~ (i < q) PROVE ~ (i * s < n)
  <2>1. i - q \in Nat
    BY <1>1, <1>3
  <2>2. (i - q) * s >= 0
    BY <2>1
  <2>3. (i - q) * s = i * s - q * s
    BY <1>1
  <2>4. i * s \in Int /\ q * s \in Int
    BY <1>1
  <2>. QED
    BY <1>1, <2>2, <2>3, <2>4
<1>. QED
  BY <1>2, <1>3 DEF q

-----------------------------------------------------------------------------
(* The collection stays finite. *)

LEMMA InitStored == Init => Stored = {}
BY DEF Init, Stored

(* A document more or less. *)
LEMMA DocumentComes ==
    ASSUME TypeOK, NEW a \in Association, docs' = [docs EXCEPT ![a] = docs[a] + 1]
    PROVE  Stored' = Stored \cup {<<a, docs[a] + 1>>}
<1>1. /\ docs[a] \in Nat /\ docs'[a] = docs[a] + 1
      /\ \A b \in Association : b # a => docs'[b] = docs[b]
  BY DEF TypeOK
<1>2. 1..(docs[a] + 1) = (1..docs[a]) \cup {docs[a] + 1}
  BY <1>1
<1>3. Stored' \subseteq Stored \cup {<<a, docs[a] + 1>>}
  BY <1>1, <1>2 DEF Stored
<1>4. Stored \cup {<<a, docs[a] + 1>>} \subseteq Stored'
  BY <1>1, <1>2 DEF Stored
<1>. QED
  BY <1>3, <1>4

LEMMA DocumentGoes ==
    ASSUME TypeOK, NEW a \in Association, docs[a] > 0,
           docs' = [docs EXCEPT ![a] = docs[a] - 1]
    PROVE  Stored' \subseteq Stored
<1>1. /\ docs[a] \in Nat /\ docs'[a] = docs[a] - 1
      /\ \A b \in Association : b # a => docs'[b] = docs[b]
  BY DEF TypeOK
<1>2. 1..docs'[a] \subseteq 1..docs[a]
  BY <1>1
<1>. QED
  BY <1>1, <1>2 DEF Stored

LEMMA StaysFinite ==
    ASSUME IInv, [Next]_vars, IsFiniteSet(Stored)
    PROVE  IsFiniteSet(Stored')
<1>1. TypeOK /\ CallInv
  BY DEF IInv
<1>2. ASSUME NEW c \in Caller, InsertAssociation(c)
      PROVE  IsFiniteSet(Stored')
  <2>1. /\ call[c] \in Association
        /\ docs' = docs \/ docs' = [docs EXCEPT ![call[c]] = docs[call[c]] + 1]
    BY <1>1, <1>2 DEF InsertAssociation, CallInv, Writing
  <2>2. CASE docs' = docs
    BY <2>2 DEF Stored
  <2>3. CASE docs' = [docs EXCEPT ![call[c]] = docs[call[c]] + 1]
    <3>1. PICK a \in Association : docs' = [docs EXCEPT ![a] = docs[a] + 1]
      BY <2>1, <2>3
    <3>2. Stored' = Stored \cup {<<a, docs[a] + 1>>}
      BY <1>1, <3>1, DocumentComes
    <3>3. IsFiniteSet(Stored \cup {<<a, docs[a] + 1>>})
      BY FS_AddElement
    <3>. QED
      BY <3>2, <3>3
  <2>. QED
    BY <2>1, <2>2, <2>3
<1>3. ASSUME NEW c \in Caller, DeleteAssociation(c)
      PROVE  IsFiniteSet(Stored')
  <2>1. CASE docs' = docs
    BY <2>1 DEF Stored
  <2>2. CASE \E a \in Association : docs[a] > 0 /\ docs' = [docs EXCEPT ![a] = docs[a] - 1]
    BY <1>1, <2>2, DocumentGoes, FS_Subset
  <2>. QED
    BY <1>3, <2>1, <2>2 DEF DeleteAssociation, _buildLookupQuery, LookupQuery
<1>4. \/ UNCHANGED docs
      \/ \E c \in Caller : InsertAssociation(c)
      \/ \E c \in Caller : DeleteAssociation(c)
  BY DEF Next, Request, Resume, Begin, Throw, getParticipantFspId, _getFromCache,
         FindParticipant, FillAfterFind, associateParticipant, FindDuplicate,
         FillAfterInsert, disassociateParticipant, _delFromCache, Expire, vars
<1>5. CASE UNCHANGED docs
  BY <1>5 DEF Stored
<1>. QED
  BY <1>2, <1>3, <1>4, <1>5

-----------------------------------------------------------------------------
(* A search reads, and nothing else. *)
LEMMA SearchOnlyReads ==
    /\ SearchInit => Init
    /\ [SearchNext]_searchVars => [Next]_vars
BY DEF SearchInit, SearchNext, searchVars, searchAssociations, CountEntries, CountFails,
       StoreStep

LEMMA SearchStep == IInv /\ SearchInv /\ [SearchNext]_searchVars => SearchInv'
<1>. SUFFICES ASSUME IInv, SearchInv, [SearchNext]_searchVars PROVE SearchInv'
  OBVIOUS
<1>1. [Next]_vars
  BY SearchOnlyReads
<1>2. IsFiniteSet(Stored)'
  BY <1>1, StaysFinite DEF SearchInv
<1>3. Stored \subseteq Association \X Nat
  BY DEF IInv, TypeOK, Stored
<1>4. ASSUME NEW index \in PageIndexes, NEW size \in PageSizes, searchAssociations(index, size)
      PROVE  SearchInv'
  <2>. DEFINE query == [pageIndex |-> Max({index, 0}), pageSize |-> AtMost(size, MaxEntriesPerPage)]
  <2>1. index \in Int /\ size \in Int /\ MaxEntriesPerPage \in Nat
    BY SearchAssumption
  <2>2. Max({index, 0}) \in Nat /\ AtMost(size, MaxEntriesPerPage) \in Int
    BY <2>1, AtLeastZero DEF AtMost
  <2>3. query \in Query
    BY <2>2 DEF Query
  <2>4. /\ Stored' = Stored
        /\ \/ search' = search /\ search = Null
           \/ \E items \in kSubset(PageLength(Cardinality(Stored), query), Stored) :
                 search' = [query |-> query, items |-> items, still |-> TRUE]
    BY <1>4 DEF searchAssociations, vars, Stored
  <2>. HIDE DEF query
  <2>5. CASE search' = search /\ search = Null
    BY <1>2, <2>5 DEF SearchInv
  <2>6. ASSUME NEW items \in kSubset(PageLength(Cardinality(Stored), query), Stored),
               search' = [query |-> query, items |-> items, still |-> TRUE]
        PROVE  SearchInv'
    <3>1. /\ items \subseteq Stored
          /\ Cardinality(items) = PageLength(Cardinality(Stored), query)
      BY DEF kSubset
    <3>2. search' \in [query : Query, items : SUBSET (Association \X Nat), still : BOOLEAN]
      BY <1>3, <2>3, <2>6, <3>1
    <3>3. search'.items = items /\ search'.query = query
      BY <2>6
    <3>. QED
      BY <1>2, <2>4, <3>1, <3>2, <3>3 DEF SearchInv
  <2>. QED
    BY <2>4, <2>5, <2>6
<1>5. CASE CountEntries \/ CountFails
  BY <1>2, <1>5 DEF CountEntries, CountFails, SearchInv
<1>6. CASE StoreStep
  <2>1. CASE search = Null
    BY <1>2, <1>6, <2>1 DEF StoreStep, SearchInv
  <2>2. CASE search # Null
    <3>1. search \in [query : Query, items : SUBSET (Association \X Nat), still : BOOLEAN]
      BY <2>2 DEF SearchInv
    <3>2. search' = [search EXCEPT !.still = search.still /\ docs' = docs]
      BY <1>6, <2>2 DEF StoreStep
    <3>3. /\ search' \in [query : Query, items : SUBSET (Association \X Nat), still : BOOLEAN]
          /\ search'.items = search.items /\ search'.query = search.query
          /\ search'.still => search.still /\ docs' = docs
      BY <3>1, <3>2
    <3>4. docs' = docs => Stored' = Stored
      BY DEF Stored
    <3>. QED
      BY <1>2, <2>2, <3>3, <3>4 DEF SearchInv
  <2>. QED
    BY <2>1, <2>2
<1>7. CASE UNCHANGED searchVars
  BY <1>2, <1>7 DEF searchVars, vars, SearchInv, Stored
<1>. QED
  BY <1>4, <1>5, <1>6, <1>7 DEF SearchNext

LEMMA SearchInvariance == SearchSpec => [](IInv /\ SearchInv)
<1>1. SearchInit => SearchInv
  BY InitStored, FS_EmptySet DEF SearchInit, SearchInv
<1>2. SearchSpec => Spec
  BY SearchOnlyReads, PTL DEF SearchSpec, Spec
<1>. QED
  BY <1>1, <1>2, Invariance, SearchStep, PTL DEF SearchSpec

-----------------------------------------------------------------------------
(* What the first query found, when the second one has settled. *)
LEMMA WhatIsCounted ==
    ASSUME SearchInv, CountEntries, search.still, search.query.pageSize > 0
    PROVE  LET n == Cardinality(Stored)
               left == n - search.query.pageIndex * search.query.pageSize
           IN  /\ n \in Nat /\ search.query \in Query /\ search.query.pageSize \in Nat \ {0}
               /\ page'.items = search.items
               /\ page'.pageIndex = search.query.pageIndex
               /\ page'.totalPages = (n + search.query.pageSize - 1) \div search.query.pageSize
               /\ IsFiniteSet(search.items)
               /\ Cardinality(search.items) = AtMost(IF left >= 0 THEN left ELSE 0, Limit)
<1>. DEFINE n == Cardinality(Stored)
            query == search.query
<1>1. /\ search \in [query : Query, items : SUBSET (Association \X Nat), still : BOOLEAN]
      /\ search.items \subseteq Stored /\ IsFiniteSet(Stored)
      /\ Cardinality(search.items) = PageLength(n, query)
  BY DEF CountEntries, SearchInv
<1>2. query \in Query /\ n \in Nat /\ IsFiniteSet(search.items)
  BY <1>1, FS_CardinalityType, FS_Subset
<1>3. query.pageSize \in Nat \ {0}
  BY <1>2 DEF Query
<1>4. /\ page'.items = search.items /\ page'.pageIndex = query.pageIndex
      /\ page'.totalPages = TotalPages(n, query.pageSize)
  BY DEF CountEntries
<1>5. TotalPages(n, query.pageSize) = (n + query.pageSize - 1) \div query.pageSize
  BY <1>3 DEF TotalPages
<1>. HIDE DEF n, query
<1>6. PageLength(n, query) =
          AtMost(IF n - query.pageIndex * query.pageSize >= 0
                 THEN n - query.pageIndex * query.pageSize ELSE 0, Limit)
  BY <1>2, LengthIs
<1>. QED
  BY <1>1, <1>2, <1>3, <1>4, <1>5, <1>6 DEF n, query

(***************************************************************************)
(* The number of pages is the number of pages there are: for every page size  *)
(* above zero, every index and every collection, a page that no write         *)
(* disturbed has documents exactly if it is numbered.                         *)
(***************************************************************************)
THEOREM NumberedPagesExist == SearchSpec => PageExists
<1>1. ASSUME SearchInv, CountEntries, search.still, search.query.pageSize > 0
      PROVE  page'.items # {} <=> page'.pageIndex < page'.totalPages
  <2>. DEFINE n == Cardinality(Stored)
              i == search.query.pageIndex
              s == search.query.pageSize
  <2>1. /\ n \in Nat /\ i \in Nat /\ s \in Nat \ {0} /\ Limit \in Nat \ {0}
        /\ page'.items = search.items /\ page'.pageIndex = i
        /\ page'.totalPages = (n + s - 1) \div s
        /\ IsFiniteSet(search.items)
        /\ Cardinality(search.items) = AtMost(IF n - i * s >= 0 THEN n - i * s ELSE 0, Limit)
    BY <1>1, WhatIsCounted, SearchAssumption DEF Query
  <2>. HIDE DEF n, i, s
  <2>2. search.items = {} <=> Cardinality(search.items) = 0
    BY <2>1, FS_EmptySet
  <2>3. i * s \in Int /\ n - i * s \in Int
    BY <2>1
  <2>4. Cardinality(search.items) = 0 <=> ~ (i * s < n)
    BY <2>1, <2>3 DEF AtMost
  <2>5. i * s < n <=> i < (n + s - 1) \div s
    BY <2>1, PagesCover
  <2>. QED
    BY <2>1, <2>2, <2>4, <2>5
<1>. QED
  BY <1>1, SearchInvariance, PTL DEF PageExists

(***************************************************************************)
(* No document is between two pages: a page of a size up to the limit of the  *)
(* query is full, or holds all that the pages before it have left.            *)
(***************************************************************************)
THEOREM PagesAreFull == SearchSpec => NothingBetweenPages
<1>1. ASSUME SearchInv, CountEntries, search.still, search.query.pageSize \in 1..Limit
      PROVE  LET query == search.query
                 left == Cardinality(Stored) - query.pageIndex * query.pageSize
             IN  Cardinality(page'.items) >= AtMost(left, query.pageSize)
  <2>. DEFINE n == Cardinality(Stored)
              i == search.query.pageIndex
              s == search.query.pageSize
  <2>0. Limit \in Nat /\ s > 0 /\ s <= Limit
    BY <1>1, SearchAssumption
  <2>1. /\ n \in Nat /\ i \in Nat /\ s \in Nat \ {0}
        /\ page'.items = search.items
        /\ Cardinality(search.items) = AtMost(IF n - i * s >= 0 THEN n - i * s ELSE 0, Limit)
    BY <1>1, <2>0, WhatIsCounted DEF Query
  <2>. HIDE DEF n, i, s
  <2>2. n - i * s \in Int
    BY <2>1
  <2>3. Cardinality(page'.items) >= AtMost(n - i * s, s)
    BY <2>0, <2>1, <2>2 DEF AtMost
  <2>. QED
    BY <2>3 DEF n, i, s
<1>. QED
  BY <1>1, SearchInvariance, PTL DEF NothingBetweenPages

=============================================================================

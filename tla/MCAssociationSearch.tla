------------------------- MODULE MCAssociationSearch -------------------------
(* Instances of AssociationSearch for TLC: one party, every field of the key *)
(* given, and requests for pages at and beyond every bound.                  *)
EXTENDS AssociationSearch, TLC

FullKeys == [party : Party, sub : SubType, cur : Currency]

(* -1 stands for the first page, as any index below zero does. *)
Indexes == {-1, 1}
Sizes == {-1, 0, 2, 4}

(* The defaults of both. *)
FirstIndex == {0}
FullSize == {MaxEntriesPerPage}

Interchangeable == Permutations(Fsp) \cup Permutations(Currency)

=============================================================================

--------------------------- MODULE MCBuiltinOracle ---------------------------
(* Instances of BuiltinOracle for TLC: one party, one sub type, and the keys *)
(* that requests use.                                                        *)
EXTENDS BuiltinOracle

(* Every field of the key is given. *)
FullKeys == [party : Party, sub : SubType, cur : Currency]

(* A given currency, or null; never a sub type. *)
CurrencyOrNull == [party : Party, sub : {Null}, cur : Currency \cup {Null}]

(* A given currency, or none in either form; never a sub type. *)
CurrencyOrNone == [party : Party, sub : {Null}, cur : Currency \cup Absent]

=============================================================================

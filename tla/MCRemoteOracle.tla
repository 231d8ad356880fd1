--------------------------- MODULE MCRemoteOracle ---------------------------
(* Instances of RemoteOracle for TLC. *)
EXTENDS RemoteOracle, TLC

(* Keys without a sub type, with either currency or none. *)
PlainKeys == [party : Party, sub : {Null}, cur : Currency \cup {Null}]

(* One sub type and none, both without a currency. *)
SubTypedKeys == [party : Party, sub : SubType \cup {Null}, cur : {Null}]

(* Neither a sub type nor a currency, a currency alone, and both. *)
MixedKeys ==
    {k \in [party : Party, sub : SubType \cup {Null}, cur : Currency \cup {Null}] :
        k.sub # Null => k.cur # Null}

(* Callers and FSPs are interchangeable: no definition names one, and a map  *)
(* that is saved has one record of a key, which leaves the loading no choice. *)
Interchangeable == Permutations(Caller) \cup Permutations(Fsp)

=============================================================================

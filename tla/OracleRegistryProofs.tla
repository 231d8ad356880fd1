------------------------- MODULE OracleRegistryProofs -------------------------
(***************************************************************************)
(* For every set of instances, administrators, oracles and failures:         *)
(* OracleRegistry keeps its types, and what it registers redirects nothing   *)
(* that an oracle of its own currency serves.  With one administrator at a   *)
(* time no id or name is registered twice; with one instance, too, adapters  *)
(* and registrations agree between requests.                                 *)
(***************************************************************************)
EXTENDS OracleRegistry, FiniteSetTheorems, SequenceLemmas

(* Whoever is suspended at an await is about an oracle, at an instance that  *)
(* serves.                                                                   *)
RequestInv ==
    \A a \in Admin : pc[a] # "idle" =>
        /\ arg[a] \in Oracle
        /\ at[a] \in Instance
        /\ status[at[a]] = "up"

TypeInv == TypeOK /\ RequestInv

-----------------------------------------------------------------------------
(* Places in sequences. *)

(* AtPlaces takes just the places it is told to: each has a rank among them, *)
(* and every rank is taken.                                                  *)
LEMMA AtPlacesProperties ==
    ASSUME NEW S, NEW s \in Seq(S), NEW places \in SUBSET DOMAIN s
    PROVE  /\ AtPlaces(s, places) \in Seq(S)
           /\ ToSet(AtPlaces(s, places)) = {s[k] : k \in places}
<1>. DEFINE upto(k) == {j \in places : j <= k}
            rank == [k \in places |-> Cardinality(upto(k))]
            nth(n) == CHOOSE k \in places : Cardinality({j \in places : j <= k}) = n
            t == [n \in 1..Cardinality(places) |-> s[nth(n)]]
<1>1. /\ IsFiniteSet(places) /\ Cardinality(places) \in Nat
      /\ places \subseteq 1..Len(s) /\ Len(s) \in Nat
  <2>1. Len(s) \in Nat /\ places \subseteq 1..Len(s)
    OBVIOUS
  <2>2. IsFiniteSet(1..Len(s))
    BY <2>1, FS_Interval
  <2>3. IsFiniteSet(places)
    BY <2>1, <2>2, FS_Subset
  <2>. QED
    BY <2>1, <2>3, FS_CardinalityType
<1>2. IsFiniteSet(1..Cardinality(places)) /\ Cardinality(1..Cardinality(places)) = Cardinality(places)
  BY <1>1, FS_Interval
<1>3. ASSUME NEW k \in places
      PROVE  rank[k] \in 1..Cardinality(places)
  <2>1. upto(k) \subseteq places /\ k \in upto(k)
    BY <1>1
  <2>. HIDE DEF upto
  <2>2. /\ IsFiniteSet(upto(k)) /\ Cardinality(upto(k)) \in Nat
        /\ Cardinality(upto(k)) <= Cardinality(places)
    BY <1>1, <2>1, FS_Subset, FS_CardinalityType
  <2>3. Cardinality(upto(k)) # 0
    BY <2>1, <2>2, FS_EmptySet
  <2>. QED
    BY <1>1, <2>2, <2>3
<1>4. ASSUME NEW k \in places, NEW l \in places, k < l
      PROVE  rank[k] < rank[l]
  <2>1. upto(k) \subseteq upto(l) /\ upto(l) \subseteq places /\ l \in upto(l) /\ l \notin upto(k)
    BY <1>1, <1>4
  <2>. HIDE DEF upto
  <2>2. /\ IsFiniteSet(upto(l)) /\ Cardinality(upto(l)) \in Nat
        /\ IsFiniteSet(upto(k)) /\ Cardinality(upto(k)) \in Nat
    BY <1>1, <2>1, FS_Subset, FS_CardinalityType
  <2>3. Cardinality(upto(k)) <= Cardinality(upto(l)) /\ Cardinality(upto(k)) # Cardinality(upto(l))
    BY <2>1, <2>2, FS_Subset
  <2>. QED
    BY <2>2, <2>3
<1>. HIDE DEF upto, rank
<1>5. rank \in Injection(places, 1..Cardinality(places))
  <2>1. rank \in [places -> 1..Cardinality(places)]
    BY <1>3 DEF rank
  <2>2. \A k, l \in places : rank[k] = rank[l] => k = l
    <3>. TAKE k, l \in places
    <3>1. k \in Nat /\ l \in Nat /\ rank[k] \in Nat /\ rank[l] \in Nat
      BY <1>1, <1>3
    <3>. QED
      BY <1>4, <3>1
  <2>. QED
    BY <2>1, <2>2 DEF Injection, IsInjective
<1>6. \A n \in 1..Cardinality(places) : \E k \in places : rank[k] = n
  <2>1. rank \in Surjection(places, 1..Cardinality(places))
    BY <1>2, <1>5, FS_Injection
  <2>. QED
    BY <2>1 DEF Surjection
<1>7. \A k \in places : rank[k] = Cardinality({j \in places : j <= k})
  BY DEF rank, upto
<1>8. ASSUME NEW n \in 1..Cardinality(places)
      PROVE  nth(n) \in places /\ rank[nth(n)] = n
  <2>1. \E k \in places : Cardinality({j \in places : j <= k}) = n
    BY <1>6, <1>7
  <2>. QED
    BY <1>7, <2>1
<1>. HIDE DEF nth
<1>9. Len(t) = Cardinality(places) /\ DOMAIN t = 1..Cardinality(places) /\ t \in Seq(S)
  <2>1. \A n \in 1..Cardinality(places) : s[nth(n)] \in S
    BY <1>8, <1>1
  <2>. QED
    BY <1>1, <2>1
<1>10. \A n \in DOMAIN t : \E k \in places : t[n] = s[k]
  BY <1>8, <1>9
<1>11. ASSUME NEW k \in places
       PROVE  \E n \in DOMAIN t : t[n] = s[k]
  <2>1. rank[k] \in 1..Cardinality(places)
    BY <1>3
  <2>2. nth(rank[k]) \in places /\ rank[nth(rank[k])] = rank[k]
    BY <1>8, <2>1
  <2>3. nth(rank[k]) = k
    BY <1>5, <2>2 DEF Injection, IsInjective
  <2>. QED
    BY <1>9, <2>1, <2>3
<1>12. AtPlaces(s, places) = t
  BY DEF AtPlaces, nth
<1>. HIDE DEF t
<1>13. ToSet(t) = {s[k] : k \in places}
  BY <1>10, <1>11 DEF ToSet
<1>. QED
  BY <1>9, <1>12, <1>13

LEMMA WithoutProperties ==
    ASSUME NEW S, NEW s \in Seq(S), NEW id
    PROVE  /\ Without(s, id) \in Seq(S)
           /\ ToSet(Without(s, id)) = {o \in ToSet(s) : o.id # id}
<1>. DEFINE kept == {k \in DOMAIN s : s[k].id # id}
<1>1. kept \in SUBSET DOMAIN s
  OBVIOUS
<1>2. {s[k] : k \in kept} = {o \in ToSet(s) : o.id # id}
  BY DEF ToSet
<1>. HIDE DEF kept
<1>3. AtPlaces(s, kept) \in Seq(S) /\ ToSet(AtPlaces(s, kept)) = {s[k] : k \in kept}
  BY <1>1, AtPlacesProperties
<1>. QED
  BY <1>2, <1>3 DEF Without, kept

-----------------------------------------------------------------------------
(* Types. *)

LEMMA OracleFields ==
    ASSUME NEW o \in Oracle
    PROVE  o.id \in Id /\ o.id # Null
BY RegistryAssumption DEF Oracle, AddOracleDTO

(* What addOracle makes of a request without an id is an oracle. *)
LEMMA DrawnIdMakesAnOracle ==
    ASSUME NEW dto \in Candidates, NEW id \in Id
    PROVE  /\ [dto EXCEPT !.id = id] \in Oracle
           /\ [dto EXCEPT !.id = id].id = id
<1>1. dto \in AddOracleDTO /\ id # Null
  BY RegistryAssumption
<1>. QED
  BY <1>1 DEF Oracle, AddOracleDTO

LEMMA ClearedEndpointMakesAnOracle ==
    ASSUME NEW o \in Oracle
    PROVE  /\ [o EXCEPT !.endpoint = Null] \in Oracle
           /\ [o EXCEPT !.endpoint = Null].id = o.id
           /\ [o EXCEPT !.endpoint = Null].name = o.name
BY DEF Oracle, AddOracleDTO

LEMMA GotoTyped ==
    ASSUME NEW a \in Admin, NEW step \in AdminSteps, TypeInv, pc[a] # "idle",
           Goto(a, step), UNCHANGED status
    PROVE  RequestInv' /\ pc' \in [Admin -> AdminSteps]
           /\ arg' \in [Admin -> Oracle \cup {Null}] /\ at' \in [Admin -> Instance \cup {Null}]
BY DEF TypeInv, TypeOK, RequestInv, Goto

LEMMA FinishTyped ==
    ASSUME NEW a \in Admin, TypeInv, Finish(a), UNCHANGED status
    PROVE  RequestInv' /\ pc' \in [Admin -> AdminSteps]
           /\ arg' \in [Admin -> Oracle \cup {Null}] /\ at' \in [Admin -> Instance \cup {Null}]
BY DEF TypeInv, TypeOK, RequestInv, Finish, AdminSteps

LEMMA BeginTyped ==
    ASSUME NEW a \in Admin, NEW i \in Instance, NEW step \in AdminSteps, NEW o \in Oracle,
           TypeInv, Begin(a, i, step, o)
    PROVE  TypeInv'
<1>1. o.id \in Id
  BY OracleFields
<1>2. TypeOK'
  BY <1>1, RegistryAssumption DEF TypeInv, TypeOK, Begin, instanceVars
<1>3. RequestInv'
  BY DEF TypeInv, TypeOK, RequestInv, Begin, instanceVars
<1>. QED
  BY <1>2, <1>3 DEF TypeInv

LEMMA HaltTyped ==
    ASSUME NEW i \in Instance, TypeInv, Halt(i),
           UNCHANGED <<docs, used, ops>>, stops' \in Nat
    PROVE  TypeInv'
<1>1. TypeOK'
  BY DEF TypeInv, TypeOK, Halt, AdminSteps
<1>2. RequestInv'
  BY DEF TypeInv, TypeOK, RequestInv, Halt
<1>. QED
  BY <1>1, <1>2 DEF TypeInv

LEMMA DeleteOneRemoves ==
    ASSUME NEW id, TypeOK, getOracleById(id), DeleteOne(id)
    PROVE  \E n \in DOMAIN docs : docs[n].id = id /\ docs' = RemoveAt(docs, n)
<1>. DEFINE same == {k \in DOMAIN docs : docs[k].id = id}
<1>1. same # {} /\ same \subseteq Nat
  BY DEF TypeOK, getOracleById
<1>2. Min(same) \in same
  <2>. HIDE DEF same
  <2>. QED
    BY <1>1, MinOf
<1>. QED
  BY <1>2 DEF DeleteOne

LEMMA TypesInit == Init => TypeInv
BY DEF Init, TypeInv, TypeOK, RequestInv, AdminSteps

LEMMA TypesStep == TypeInv /\ [Next]_vars => TypeInv'
<1>. SUFFICES ASSUME TypeInv, [Next]_vars
              PROVE  TypeInv'
  OBVIOUS
<1>. USE DEF TypeInv
<1>1. ASSUME NEW i \in Instance, Start(i)
      PROVE  TypeInv'
  BY <1>1 DEF Start, TypeOK, RequestInv, adminVars
<1>2. ASSUME NEW i \in Instance, InitAdapter(i)
      PROVE  TypeInv'
  <2>1. Head(pending[i]) \in Oracle /\ Tail(pending[i]) \in Seq(Oracle)
    BY <1>2, HeadTailProperties DEF InitAdapter, TypeOK
  <2>2. Append(adapters[i], Head(pending[i])) \in Seq(Oracle)
    BY <2>1, AppendProperties DEF TypeOK
  <2>. QED
    BY <1>2, <2>1, <2>2 DEF InitAdapter, TypeOK, RequestInv, adminVars
<1>3. ASSUME NEW i \in Instance, Serve(i)
      PROVE  TypeInv'
  BY <1>3 DEF Serve, TypeOK, RequestInv, adminVars
<1>4. ASSUME NEW i \in Instance, FailToStart(i)
      PROVE  TypeInv'
  BY <1>4, HaltTyped DEF FailToStart, TypeOK
<1>5. ASSUME NEW i \in Instance, Crash(i)
      PROVE  TypeInv'
  <2>1. Halt(i) /\ UNCHANGED <<docs, used, ops>> /\ stops' = stops + 1 /\ stops \in Nat
    BY <1>5 DEF Crash, TypeOK
  <2>. QED
    BY <2>1, HaltTyped
<1>6. ASSUME NEW a \in Admin, CheckId(a)
      PROVE  TypeInv'
  BY <1>6, GotoTyped, FinishTyped DEF CheckId, TypeOK, AdminSteps, instanceVars
<1>7. ASSUME NEW a \in Admin, CheckName(a)
      PROVE  TypeInv'
  <2>1. CASE Finish(a) /\ UNCHANGED <<docs, instanceVars, used, ops>>
    BY <2>1, FinishTyped DEF TypeOK, instanceVars
  <2>2. CASE /\ pc[a] = "add_check_name"
             /\ pc' = [pc EXCEPT ![a] = "add_find"]
             /\ arg' \in {[arg EXCEPT ![a] = o] : o \in Oracle}
             /\ UNCHANGED at
             /\ UNCHANGED <<docs, instanceVars, used, ops>>
    BY <2>2 DEF TypeOK, RequestInv, AdminSteps, instanceVars
  <2>3. pc[a] = "add_check_name" => arg[a] \in Oracle /\ [arg[a] EXCEPT !.endpoint = Null] \in Oracle
    BY ClearedEndpointMakesAnOracle DEF RequestInv
  <2>. QED
    BY <1>7, <2>1, <2>2, <2>3 DEF CheckName
<1>8. ASSUME NEW a \in Admin, FindPresent(a)
      PROVE  TypeInv'
  BY <1>8, GotoTyped, FinishTyped DEF FindPresent, TypeOK, AdminSteps, instanceVars
<1>9. ASSUME NEW a \in Admin, InsertOracle(a)
      PROVE  TypeInv'
  <2>1. Append(docs, arg[a]) \in Seq(Oracle)
    BY <1>9, AppendProperties DEF InsertOracle, TypeOK, RequestInv
  <2>. QED
    BY <1>9, <2>1, GotoTyped DEF InsertOracle, TypeOK, AdminSteps, instanceVars
<1>10. ASSUME NEW a \in Admin, InitAdded(a)
       PROVE  TypeInv'
  <2>1. at[a] \in Instance /\ Append(adapters[at[a]], arg[a]) \in Seq(Oracle)
    BY <1>10, AppendProperties DEF InitAdded, TypeOK, RequestInv
  <2>2. adapters' \in [Instance -> Seq(Oracle)]
    BY <1>10, <2>1 DEF InitAdded, TypeOK
  <2>. QED
    BY <1>10, <2>2, FinishTyped DEF InitAdded, TypeOK
<1>11. ASSUME NEW a \in Admin, FindRemoved(a)
       PROVE  TypeInv'
  BY <1>11, GotoTyped, FinishTyped DEF FindRemoved, TypeOK, AdminSteps, instanceVars
<1>12. ASSUME NEW a \in Admin, DeleteOracle(a)
       PROVE  TypeInv'
  <2>1. docs' \in Seq(Oracle)
    <3>1. docs \in Seq(Oracle)
      BY DEF TypeOK
    <3>2. docs' = docs \/ \E n \in DOMAIN docs : docs' = RemoveAt(docs, n)
      BY <1>12, DeleteOneRemoves DEF DeleteOracle
    <3>. QED
      BY <3>1, <3>2, RemoveAtProperties
  <2>2. at[a] \in Instance /\ Without(adapters[at[a]], arg[a].id) \in Seq(Oracle)
    BY <1>12, WithoutProperties DEF DeleteOracle, TypeOK, RequestInv
  <2>3. adapters' \in [Instance -> Seq(Oracle)]
    BY <1>12, <2>2 DEF DeleteOracle, TypeOK
  <2>. QED
    BY <1>12, <2>1, <2>3, FinishTyped DEF DeleteOracle, TypeOK
<1>13. ASSUME NEW a \in Admin, Throw(a)
       PROVE  TypeInv'
  BY <1>13, FinishTyped DEF Throw, TypeOK, instanceVars
<1>14. ASSUME NEW a \in Admin, NEW i \in Instance, removeOracle(a, i)
       PROVE  TypeInv'
  <2>1. ToSet(docs) \cup ToSet(adapters[i]) \subseteq Oracle
    BY DEF TypeOK, ToSet
  <2>. QED
    BY <1>14, <2>1, BeginTyped DEF removeOracle, AdminSteps
<1>15. ASSUME NEW a \in Admin, NEW i \in Instance, NEW dto \in Candidates, addOracle(a, i, dto)
       PROVE  TypeInv'
  <2>1. CASE dto.id # Null /\ Begin(a, i, "add_check_id", dto)
    <3>1. dto \in Oracle
      BY <2>1, RegistryAssumption DEF Oracle
    <3>. QED
      BY <2>1, <3>1, BeginTyped DEF AdminSteps
  <2>2. ASSUME NEW id \in Id \ used, Begin(a, i, "add_check_name", [dto EXCEPT !.id = id])
        PROVE  TypeInv'
    BY <2>2, DrawnIdMakesAnOracle, BeginTyped DEF AdminSteps
  <2>. QED
    BY <1>15, <2>1, <2>2 DEF addOracle
<1>16. CASE UNCHANGED vars
  BY <1>16 DEF vars, TypeOK, RequestInv
<1>. QED
  BY <1>1, <1>2, <1>3, <1>4, <1>5, <1>6, <1>7, <1>8, <1>9, <1>10, <1>11, <1>12, <1>13,
     <1>14, <1>15, <1>16
     DEF Next, InstanceStep, AdminStep

(***************************************************************************)
(* The collection and the adapter lists hold complete oracles, and every     *)
(* suspended request knows its oracle and an instance that serves it.        *)
(***************************************************************************)
THEOREM TypeCorrect == Spec => []TypeOK
<1>1. TypeInv => TypeOK
  BY DEF TypeInv
<1>. QED
  BY TypesInit, TypesStep, <1>1, PTL DEF Spec

-----------------------------------------------------------------------------
(* Routing. *)

(* What a step does to the collection. *)
LEMMA StepOfCollection ==
    ASSUME TypeInv, [Next]_vars
    PROVE  \/ docs' = docs
           \/ \E a \in Admin : InsertOracle(a)
           \/ \E a \in Admin : DeleteOracle(a) /\ \E n \in DOMAIN docs : docs' = RemoveAt(docs, n)
<1>1. ASSUME NEW a \in Admin, DeleteOracle(a)
      PROVE  docs' = docs \/ \E n \in DOMAIN docs : docs' = RemoveAt(docs, n)
  BY <1>1, DeleteOneRemoves DEF DeleteOracle, TypeInv
<1>. QED
  BY <1>1
     DEF Next, InstanceStep, AdminStep, vars, Start, InitAdapter, Serve, FailToStart, Crash,
         CheckId, CheckName, FindPresent, InitAdded, FindRemoved, Throw, removeOracle,
         addOracle, Begin

(* A new oracle comes last, so it is the first match of nothing that had one. *)
LEMMA FirstMatchStays ==
    ASSUME TypeOK, NEW pt, NEW cur, Exact(pt, cur) # {}, NEW o \in Oracle,
           docs' = Append(docs, o)
    PROVE  getOracle(pt, cur)' = getOracle(pt, cur)
<1>. DEFINE m == Min(Exact(pt, cur))
<1>1. docs \in Seq(Oracle) /\ Exact(pt, cur) \subseteq DOMAIN docs /\ Exact(pt, cur) \subseteq Nat
  BY DEF TypeOK, Exact
<1>2. m \in Exact(pt, cur) /\ \A k \in Exact(pt, cur) : m <= k
  BY <1>1, MinOf
<1>. HIDE DEF m
<1>3. /\ Len(docs') = Len(docs) + 1 /\ docs' \in Seq(Oracle) /\ Len(docs) \in Nat
      /\ DOMAIN docs = 1..Len(docs) /\ DOMAIN docs' = 1..Len(docs) + 1
      /\ \A k \in 1..Len(docs) : docs'[k] = docs[k]
  BY <1>1, AppendProperties
<1>. DEFINE later == {k \in DOMAIN docs' : docs'[k].partyType = pt /\ docs'[k].currency = cur}
<1>4. later \subseteq Nat /\ m \in later
  BY <1>1, <1>2, <1>3 DEF Exact
<1>5. \A k \in later : m <= k
  BY <1>1, <1>2, <1>3 DEF Exact
<1>. HIDE DEF later
<1>6. Min(later) = m
  BY <1>4, <1>5, MinIs
<1>7. Exact(pt, cur)' = later
  BY DEF Exact, later
<1>8. docs'[m] = docs[m]
  BY <1>1, <1>2, <1>3
<1>9. getOracle(pt, cur)' = docs'[m]
  BY <1>4, <1>6, <1>7 DEF getOracle
<1>. QED
  BY <1>8, <1>9 DEF getOracle, m

LEMMA RoutingStep ==
    ASSUME TypeInv, [Next]_vars, NEW pt, NEW cur,
           getOracle(pt, cur) # Null, getOracle(pt, cur).currency = cur, Len(docs') > Len(docs)
    PROVE  getOracle(pt, cur)' = getOracle(pt, cur)
<1>1. docs \in Seq(Oracle) /\ Len(docs) \in Nat
  BY DEF TypeInv, TypeOK
<1>2. PICK a \in Admin : InsertOracle(a)
  <2>1. \A n \in DOMAIN docs : Len(RemoveAt(docs, n)) = Len(docs) - 1
    BY <1>1, RemoveAtProperties
  <2>. QED
    BY <1>1, <2>1, StepOfCollection
<1>3. arg[a] \in Oracle /\ docs' = Append(docs, arg[a])
  BY <1>2 DEF InsertOracle, TypeInv, RequestInv
<1>4. Exact(pt, cur) # {}
  <2>1. SUFFICES ASSUME Exact(pt, cur) = {}
                 PROVE  FALSE
    OBVIOUS
  <2>2. Other(pt, cur) # {} /\ getOracle(pt, cur) = docs[Min(Other(pt, cur))]
    BY <2>1 DEF getOracle
  <2>3. Other(pt, cur) \subseteq Nat
    BY <1>1 DEF Other
  <2>4. Min(Other(pt, cur)) \in Other(pt, cur)
    BY <2>2, <2>3, MinOf
  <2>. QED
    BY <2>2, <2>4 DEF Other
<1>. QED
  BY <1>3, <1>4, FirstMatchStays DEF TypeInv

(***************************************************************************)
(* Registering an oracle never redirects what an oracle of its own currency  *)
(* serves, whatever the instances, the admins and the failures.              *)
(***************************************************************************)
THEOREM RoutingIsStable == Spec => StableRouting
<1>1. TypeInv /\ [Next]_vars =>
          [\A pt \in PartyType, cur \in Currency :
              LET oracle == getOracle(pt, cur) IN
              /\ oracle # Null
              /\ oracle.currency = cur
              /\ Len(docs') > Len(docs)
              => getOracle(pt, cur)' = oracle]_vars
  BY RoutingStep
<1>. QED
  BY TypesInit, TypesStep, <1>1, PTL DEF Spec, StableRouting

-----------------------------------------------------------------------------
(* Unique registration. *)

(* One administrator at a time. *)
OneAdmin == \A a, b \in Admin : a = b

(* Ids that are in use, or about to be, were given out, and what a check     *)
(* found new is still new when the oracle is stored.                         *)
NewInv ==
    /\ \A k \in DOMAIN docs : docs[k].id \in used
    /\ \A a \in Admin :
          /\ pc[a] # "idle" => arg[a].id \in used
          /\ pc[a] \in {"add_check_name", "add_find", "add_insert"} => ~getOracleById(arg[a].id)
          /\ pc[a] \in {"add_find", "add_insert"} => ~getOracleByName(arg[a].name)

UniqueInv == TypeInv /\ NewInv /\ UniqueRegistration

(* While the collection stays, so does the uniqueness. *)
LEMMA UniqueKept ==
    ASSUME UniqueInv, docs' = docs
    PROVE  UniqueRegistration'
BY DEF UniqueInv, UniqueRegistration

(* A request that ends, or ends with its instance, leaves nothing to keep. *)
LEMMA NewAfterFinish ==
    ASSUME UniqueInv, docs' = docs, used' = used,
           \A a \in Admin : pc'[a] = "idle" \/ (pc'[a] = pc[a] /\ arg'[a] = arg[a])
    PROVE  NewInv'
BY DEF UniqueInv, NewInv, getOracleById, getOracleByName

LEMMA FinishIsIdle ==
    ASSUME TypeOK, NEW a \in Admin, Finish(a)
    PROVE  \A b \in Admin : pc'[b] = "idle" \/ (pc'[b] = pc[b] /\ arg'[b] = arg[b])
<1>1. pc \in [Admin -> AdminSteps] /\ arg \in [Admin -> Oracle \cup {Null}]
  BY DEF TypeOK
<1>. QED
  BY <1>1 DEF Finish

LEMMA HaltIsIdle ==
    ASSUME TypeOK, NEW i \in Instance, Halt(i)
    PROVE  \A b \in Admin : pc'[b] = "idle" \/ (pc'[b] = pc[b] /\ arg'[b] = arg[b])
<1>1. pc \in [Admin -> AdminSteps] /\ arg \in [Admin -> Oracle \cup {Null}]
  BY DEF TypeOK
<1>. QED
  BY <1>1 DEF Halt

LEMMA UniqueInit == Init => UniqueInv
<1>1. Init => NewInv /\ UniqueRegistration
  BY DEF Init, NewInv, UniqueRegistration
<1>. QED
  BY <1>1, TypesInit DEF UniqueInv

LEMMA NewAfterBegin ==
    ASSUME OneAdmin, UniqueInv, NEW a \in Admin, NEW i \in Instance,
           NEW step \in {"add_check_id", "add_check_name", "remove_find"}, NEW o,
           step = "add_check_name" => o.id \notin used, Begin(a, i, step, o)
    PROVE  NewInv'
<1>1. pc' = [pc EXCEPT ![a] = step] /\ arg' = [arg EXCEPT ![a] = o]
      /\ used' = used \cup {o.id} /\ docs' = docs /\ pc \in [Admin -> AdminSteps]
      /\ arg \in [Admin -> Oracle \cup {Null}]
  BY DEF Begin, UniqueInv, TypeInv, TypeOK
<1>. QED
  BY <1>1 DEF OneAdmin, UniqueInv, NewInv, getOracleById, getOracleByName

(* Removing a place keeps the others apart. *)
LEMMA UniqueAfterRemoveAt ==
    ASSUME TypeOK, UniqueRegistration, NEW n \in DOMAIN docs, docs' = RemoveAt(docs, n)
    PROVE  /\ UniqueRegistration'
           /\ \A k \in DOMAIN docs' : \E j \in DOMAIN docs : j # n /\ docs'[k] = docs[j]
<1>. DEFINE old(k) == IF k < n THEN k ELSE k + 1
<1>1. /\ Len(docs) \in Nat /\ DOMAIN docs = 1..Len(docs) /\ n \in 1..Len(docs)
      /\ docs' \in Seq(Oracle) /\ DOMAIN docs' = 1..Len(docs) - 1
      /\ \A k \in 1..Len(docs) - 1 : docs'[k] = docs[old(k)]
  BY RemoveAtProperties DEF TypeOK
<1>2. \A k \in 1..Len(docs) - 1 : old(k) \in DOMAIN docs /\ old(k) # n
  BY <1>1
<1>3. \A j, k \in 1..Len(docs) - 1 : old(j) = old(k) => j = k
  BY <1>1
<1>. HIDE DEF old
<1>4. \A k \in DOMAIN docs' : old(k) \in DOMAIN docs /\ old(k) # n /\ docs'[k] = docs[old(k)]
  BY <1>1, <1>2
<1>5. ASSUME NEW j \in DOMAIN docs', NEW k \in DOMAIN docs',
             docs'[j].id = docs'[k].id \/ docs'[j].name = docs'[k].name
      PROVE  j = k
  <2>1. old(j) = old(k)
    BY <1>4, <1>5 DEF UniqueRegistration
  <2>. QED
    BY <1>1, <1>3, <2>1
<1>6. UniqueRegistration'
  BY <1>5 DEF UniqueRegistration
<1>. QED
  BY <1>4, <1>6

LEMMA UniqueStep == ASSUME OneAdmin PROVE UniqueInv /\ [Next]_vars => UniqueInv'
<1>. SUFFICES ASSUME UniqueInv, [Next]_vars
              PROVE  NewInv' /\ UniqueRegistration'
  BY TypesStep DEF UniqueInv
<1>. USE DEF UniqueInv, TypeInv
<1>1. ASSUME NEW i \in Instance, InstanceStep(i) \/ Crash(i)
      PROVE  NewInv' /\ UniqueRegistration'
  <2>1. docs' = docs /\ used' = used
    BY <1>1 DEF InstanceStep, Crash, Start, InitAdapter, Serve, FailToStart, adminVars
  <2>2. CASE Start(i) \/ InitAdapter(i) \/ Serve(i)
    BY <2>1, <2>2, NewAfterFinish, UniqueKept DEF Start, InitAdapter, Serve, adminVars
  <2>3. CASE Halt(i)
    BY <2>1, <2>3, HaltIsIdle, NewAfterFinish, UniqueKept
  <2>. QED
    BY <1>1, <2>2, <2>3 DEF InstanceStep, Crash, FailToStart
<1>2. ASSUME NEW a \in Admin, CheckId(a)
      PROVE  NewInv' /\ UniqueRegistration'
  <2>1. docs' = docs /\ used' = used
    BY <1>2 DEF CheckId
  <2>2. CASE Finish(a)
    BY <2>1, <2>2, FinishIsIdle, NewAfterFinish, UniqueKept
  <2>3. CASE pc[a] = "add_check_id" /\ ~getOracleById(arg[a].id) /\ Goto(a, "add_check_name")
    <3>1. NewInv'
      BY <2>1, <2>3 DEF NewInv, OneAdmin, Goto, TypeOK, getOracleById, getOracleByName
    <3>. QED
      BY <2>1, <3>1, UniqueKept
  <2>. QED
    BY <1>2, <2>2, <2>3 DEF CheckId
<1>3. ASSUME NEW a \in Admin, CheckName(a)
      PROVE  NewInv' /\ UniqueRegistration'
  <2>1. docs' = docs /\ used' = used
    BY <1>3 DEF CheckName
  <2>2. CASE Finish(a)
    BY <2>1, <2>2, FinishIsIdle, NewAfterFinish, UniqueKept
  <2>3. ASSUME pc[a] = "add_check_name", ~getOracleByName(arg[a].name),
               pc' = [pc EXCEPT ![a] = "add_find"],
               NEW o, o.id = arg[a].id, o.name = arg[a].name,
               arg' = [arg EXCEPT ![a] = o]
        PROVE  NewInv'
    BY <2>1, <2>3 DEF NewInv, OneAdmin, TypeOK, getOracleById, getOracleByName
  <2>4. pc[a] = "add_check_name" =>
            /\ [arg[a] EXCEPT !.endpoint = Null].id = arg[a].id
            /\ [arg[a] EXCEPT !.endpoint = Null].name = arg[a].name
    BY ClearedEndpointMakesAnOracle DEF RequestInv
  <2>. QED
    BY <1>3, <2>1, <2>2, <2>3, <2>4, UniqueKept DEF CheckName
<1>4. ASSUME NEW a \in Admin, FindPresent(a)
      PROVE  NewInv' /\ UniqueRegistration'
  <2>1. docs' = docs /\ used' = used
    BY <1>4 DEF FindPresent
  <2>2. CASE Finish(a)
    BY <2>1, <2>2, FinishIsIdle, NewAfterFinish, UniqueKept
  <2>3. CASE pc[a] = "add_find" /\ Goto(a, "add_insert")
    <3>1. NewInv'
      BY <2>1, <2>3 DEF NewInv, OneAdmin, Goto, TypeOK, getOracleById, getOracleByName
    <3>. QED
      BY <2>1, <3>1, UniqueKept
  <2>. QED
    BY <1>4, <2>2, <2>3 DEF FindPresent
<1>5. ASSUME NEW a \in Admin, InsertOracle(a)
      PROVE  NewInv' /\ UniqueRegistration'
  <2>1. /\ docs' = Append(docs, arg[a]) /\ pc[a] = "add_insert" /\ arg' = arg /\ used' = used
        /\ pc' = [pc EXCEPT ![a] = "add_init"] /\ arg[a] \in Oracle /\ docs \in Seq(Oracle)
    BY <1>5 DEF InsertOracle, Goto, TypeOK, RequestInv
  <2>2. /\ DOMAIN docs = 1..Len(docs) /\ DOMAIN docs' = 1..Len(docs) + 1 /\ Len(docs) \in Nat
        /\ \A k \in 1..Len(docs) : docs'[k] = docs[k]
        /\ docs'[Len(docs) + 1] = arg[a]
    BY <2>1, AppendProperties
  <2>3. ~getOracleById(arg[a].id) /\ ~getOracleByName(arg[a].name) /\ arg[a].id \in used
    BY <2>1 DEF NewInv
  <2>4. UniqueRegistration'
    BY <2>2, <2>3 DEF UniqueRegistration, getOracleById, getOracleByName
  <2>5. NewInv'
    BY <2>1, <2>2, <2>3 DEF NewInv, OneAdmin, TypeOK
  <2>. QED
    BY <2>4, <2>5
<1>6. ASSUME NEW a \in Admin, InitAdded(a)
      PROVE  NewInv' /\ UniqueRegistration'
  BY <1>6, FinishIsIdle, NewAfterFinish, UniqueKept DEF InitAdded
<1>7. ASSUME NEW a \in Admin, FindRemoved(a)
      PROVE  NewInv' /\ UniqueRegistration'
  <2>1. docs' = docs /\ used' = used
    BY <1>7 DEF FindRemoved
  <2>2. CASE Finish(a)
    BY <2>1, <2>2, FinishIsIdle, NewAfterFinish, UniqueKept
  <2>3. CASE pc[a] = "remove_find" /\ Goto(a, "remove_delete")
    <3>1. NewInv'
      BY <2>1, <2>3 DEF NewInv, OneAdmin, Goto, TypeOK, getOracleById, getOracleByName
    <3>. QED
      BY <2>1, <3>1, UniqueKept
  <2>. QED
    BY <1>7, <2>2, <2>3 DEF FindRemoved
<1>8. ASSUME NEW a \in Admin, DeleteOracle(a)
      PROVE  NewInv' /\ UniqueRegistration'
  <2>1. used' = used /\ Finish(a)
    BY <1>8 DEF DeleteOracle
  <2>2. CASE docs' = docs
    BY <2>1, <2>2, FinishIsIdle, NewAfterFinish, UniqueKept
  <2>3. ASSUME NEW n \in DOMAIN docs, docs' = RemoveAt(docs, n)
        PROVE  NewInv' /\ UniqueRegistration'
    <3>1. /\ UniqueRegistration'
          /\ \A k \in DOMAIN docs' : \E j \in DOMAIN docs : docs'[k] = docs[j]
      BY <2>3, UniqueAfterRemoveAt
    <3>2. \A b \in Admin : pc'[b] = "idle" \/ (pc'[b] = pc[b] /\ arg'[b] = arg[b])
      BY <2>1, FinishIsIdle
    <3>3. NewInv'
      BY <2>1, <3>1, <3>2 DEF NewInv, getOracleById, getOracleByName
    <3>. QED
      BY <3>1, <3>3
  <2>. QED
    BY <1>8, <2>2, <2>3, DeleteOneRemoves DEF DeleteOracle
<1>9. ASSUME NEW a \in Admin, Throw(a)
      PROVE  NewInv' /\ UniqueRegistration'
  BY <1>9, FinishIsIdle, NewAfterFinish, UniqueKept DEF Throw
<1>10. ASSUME NEW a \in Admin, NEW i \in Instance, removeOracle(a, i)
       PROVE  NewInv' /\ UniqueRegistration'
  BY <1>10, NewAfterBegin, UniqueKept DEF removeOracle, Begin
<1>11. ASSUME NEW a \in Admin, NEW i \in Instance, NEW dto \in Candidates, addOracle(a, i, dto)
       PROVE  NewInv' /\ UniqueRegistration'
  <2>1. CASE Begin(a, i, "add_check_id", dto)
    BY <2>1, NewAfterBegin, UniqueKept DEF Begin
  <2>2. ASSUME NEW id \in Id \ used, Begin(a, i, "add_check_name", [dto EXCEPT !.id = id])
        PROVE  NewInv' /\ UniqueRegistration'
    <3>1. docs' = docs
      BY <2>2 DEF Begin
    <3>2. [dto EXCEPT !.id = id].id \notin used
      BY DrawnIdMakesAnOracle
    <3>. QED
      BY <2>2, <3>1, <3>2, NewAfterBegin, UniqueKept
  <2>. QED
    BY <1>11, <2>1, <2>2 DEF addOracle
<1>12. CASE UNCHANGED vars
  BY <1>12, NewAfterFinish, UniqueKept DEF vars
<1>. QED
  BY <1>1, <1>2, <1>3, <1>4, <1>5, <1>6, <1>7, <1>8, <1>9, <1>10, <1>11, <1>12
     DEF Next, AdminStep

(***************************************************************************)
(* With one administrator at a time, however many instances there are and    *)
(* whatever fails, no two oracles share an id or a name: between the checks  *)
(* of addOracle and its insert nobody else inserts.                          *)
(***************************************************************************)
THEOREM RegisteredOnce == ASSUME OneAdmin PROVE Spec => []UniqueRegistration
<1>1. UniqueInv /\ [Next]_vars => UniqueInv'
  BY UniqueStep
<1>2. UniqueInv => UniqueRegistration
  BY DEF UniqueInv
<1>. QED
  BY UniqueInit, <1>1, <1>2, PTL DEF Spec

-----------------------------------------------------------------------------
(* Adapters. *)

(* One instance, and none of its calls to Mongo and Redis fails. *)
OneInstance == (\A i, j \in Instance : i = j) /\ MayFail = FALSE

(* Whoever has an adapter, or waits for one, is registered.  While the       *)
(* instance starts, what can be initialised has an adapter or waits for one; *)
(* while it serves, only the oracle that is being added may be without.      *)
AdapterInv ==
    /\ \A i \in Instance : ToSet(adapters[i]) \cup ToSet(pending[i]) \subseteq ToSet(docs)
    /\ \A a \in Admin : pc[a] = "add_init" => arg[a] \in ToSet(docs)
    /\ \A i \in Instance : status[i] # "starting" => pending[i] = <<>>
    /\ \A i \in Instance : \A o \in ToSet(docs) : CanInit(o) =>
          /\ status[i] = "starting" => o \in ToSet(adapters[i]) \cup ToSet(pending[i])
          /\ status[i] = "up" =>
                o \in ToSet(adapters[i]) \/ \E a \in Admin : pc[a] = "add_init" /\ arg[a] = o

ServeInv == UniqueInv /\ AdapterInv

LEMMA AdapterInit == Init => ServeInv
<1>1. Init => AdapterInv
  BY EmptyHasNone DEF Init, AdapterInv
<1>. QED
  BY <1>1, UniqueInit DEF ServeInv

(* A request that moves between awaits other than that of adapter.init. *)
LEMMA AdaptersKept ==
    ASSUME ServeInv, UNCHANGED <<docs, status, pending, adapters>>,
           \A a \in Admin : /\ pc[a] = "add_init" <=> pc'[a] = "add_init"
                            /\ pc[a] = "add_init" => arg'[a] = arg[a]
    PROVE  AdapterInv'
BY DEF ServeInv, AdapterInv

LEMMA AdaptersAfterBegin ==
    ASSUME ServeInv, NEW a \in Admin, NEW i \in Instance,
           NEW step \in AdminSteps, step # "add_init", NEW o, Begin(a, i, step, o)
    PROVE  AdapterInv'
<1>1. /\ pc' = [pc EXCEPT ![a] = step] /\ arg' = [arg EXCEPT ![a] = o] /\ pc[a] = "idle"
      /\ UNCHANGED <<docs, status, pending, adapters>>
      /\ pc \in [Admin -> AdminSteps] /\ arg \in [Admin -> Oracle \cup {Null}]
  BY DEF Begin, instanceVars, ServeInv, UniqueInv, TypeInv, TypeOK
<1>. QED
  BY <1>1, AdaptersKept

LEMMA AdaptersAfterFinish ==
    ASSUME ServeInv, NEW a \in Admin, Finish(a), pc[a] # "add_init",
           UNCHANGED <<docs, status, pending, adapters>>
    PROVE  AdapterInv'
<1>1. pc \in [Admin -> AdminSteps] /\ arg \in [Admin -> Oracle \cup {Null}]
  BY DEF ServeInv, UniqueInv, TypeInv, TypeOK
<1>. QED
  BY <1>1, AdaptersKept DEF Finish

LEMMA AdaptersAfterGoto ==
    ASSUME ServeInv, NEW a \in Admin, NEW step, step # "add_init", Goto(a, step),
           pc[a] # "add_init", UNCHANGED <<docs, status, pending, adapters>>
    PROVE  AdapterInv'
<1>1. pc \in [Admin -> AdminSteps]
  BY DEF ServeInv, UniqueInv, TypeInv, TypeOK
<1>. QED
  BY <1>1, AdaptersKept DEF Goto

LEMMA AdaptersAfterHalt ==
    ASSUME OneInstance, ServeInv, NEW i \in Instance, Halt(i), docs' = docs
    PROVE  AdapterInv'
<1>1. /\ status' = [status EXCEPT ![i] = "down"] /\ pending' = [pending EXCEPT ![i] = <<>>]
      /\ adapters' = [adapters EXCEPT ![i] = <<>>]
      /\ status \in [Instance -> {"down", "starting", "up"}]
      /\ pending \in [Instance -> Seq(Oracle)] /\ adapters \in [Instance -> Seq(Oracle)]
  BY DEF Halt, ServeInv, UniqueInv, TypeInv, TypeOK
<1>2. \A j \in Instance : status'[j] = "down" /\ pending'[j] = <<>> /\ adapters'[j] = <<>>
  BY <1>1 DEF OneInstance
<1>3. \A a \in Admin : pc'[a] # "add_init"
  BY DEF Halt, OneInstance, ServeInv, UniqueInv, TypeInv, TypeOK, RequestInv
<1>. QED
  BY <1>2, <1>3, EmptyHasNone DEF AdapterInv

LEMMA AdapterStep == ASSUME OneInstance, OneAdmin PROVE ServeInv /\ [Next]_vars => ServeInv'
<1>. SUFFICES ASSUME ServeInv, [Next]_vars
              PROVE  AdapterInv'
  BY UniqueStep DEF ServeInv
<1>. USE DEF ServeInv, UniqueInv, TypeInv
<1>0. /\ status \in [Instance -> {"down", "starting", "up"}]
      /\ pending \in [Instance -> Seq(Oracle)] /\ adapters \in [Instance -> Seq(Oracle)]
      /\ pc \in [Admin -> AdminSteps] /\ arg \in [Admin -> Oracle \cup {Null}]
      /\ docs \in Seq(Oracle)
  BY DEF TypeOK
<1>1. ASSUME NEW i \in Instance, Start(i)
      PROVE  AdapterInv'
  <2>1. /\ pending' = [pending EXCEPT ![i] = docs] /\ status' = [status EXCEPT ![i] = "starting"]
        /\ UNCHANGED <<docs, adapters, pc, arg>>
    BY <1>1 DEF Start, adminVars
  <2>2. \A j \in Instance : status'[j] = "starting" /\ pending'[j] = docs
    BY <1>0, <2>1 DEF OneInstance
  <2>. QED
    BY <2>1, <2>2 DEF AdapterInv
<1>2. ASSUME NEW i \in Instance, InitAdapter(i)
      PROVE  AdapterInv'
  <2>. DEFINE o == Head(pending[i])
              rest == Tail(pending[i])
  <2>1. /\ pending[i] # <<>> /\ status[i] = "starting" /\ o \in Oracle
        /\ pending' = [pending EXCEPT ![i] = rest]
        /\ adapters' = [adapters EXCEPT ![i] = Append(adapters[i], o)]
        /\ UNCHANGED <<docs, status, pc, arg>>
    BY <1>0, <1>2, HeadTailProperties DEF InitAdapter, adminVars
  <2>2. ToSet(pending[i]) = {o} \cup ToSet(rest)
    BY <1>0, <2>1, ElementsOfTail
  <2>3. ToSet(Append(adapters[i], o)) = ToSet(adapters[i]) \cup {o}
    BY <1>0, <2>1, ElementsAfterAppend
  <2>. HIDE DEF o, rest
  <2>4. \A j \in Instance : j = i /\ pending'[j] = rest /\ adapters'[j] = Append(adapters[i], o)
    BY <1>0, <2>1 DEF OneInstance
  <2>. QED
    BY <2>1, <2>2, <2>3, <2>4 DEF AdapterInv
<1>3. ASSUME NEW i \in Instance, Serve(i)
      PROVE  AdapterInv'
  <2>1. /\ status[i] = "starting" /\ pending[i] = <<>> /\ status' = [status EXCEPT ![i] = "up"]
        /\ UNCHANGED <<docs, pending, adapters, pc, arg>>
    BY <1>3 DEF Serve, adminVars
  <2>2. \A j \in Instance : j = i /\ status'[j] = "up"
    BY <1>0, <2>1 DEF OneInstance
  <2>. QED
    BY <2>1, <2>2, EmptyHasNone DEF AdapterInv
<1>4. ASSUME NEW i \in Instance, FailToStart(i) \/ Crash(i)
      PROVE  AdapterInv'
  BY <1>4, AdaptersAfterHalt DEF FailToStart, Crash
<1>5. ASSUME NEW a \in Admin, CheckId(a)
      PROVE  AdapterInv'
  BY <1>5, AdaptersAfterFinish, AdaptersAfterGoto DEF CheckId, instanceVars
<1>6. ASSUME NEW a \in Admin, CheckName(a)
      PROVE  AdapterInv'
  <2>1. UNCHANGED <<docs, status, pending, adapters>> /\ pc[a] = "add_check_name"
    BY <1>6 DEF CheckName, instanceVars
  <2>2. CASE Finish(a)
    BY <2>1, <2>2, AdaptersAfterFinish
  <2>3. ASSUME pc' = [pc EXCEPT ![a] = "add_find"], NEW o, arg' = [arg EXCEPT ![a] = o]
        PROVE  AdapterInv'
    BY <1>0, <2>1, <2>3, AdaptersKept
  <2>. QED
    BY <1>6, <2>2, <2>3 DEF CheckName
<1>7. ASSUME NEW a \in Admin, FindPresent(a)
      PROVE  AdapterInv'
  BY <1>7, AdaptersAfterFinish, AdaptersAfterGoto DEF FindPresent, instanceVars
<1>8. ASSUME NEW a \in Admin, InsertOracle(a)
      PROVE  AdapterInv'
  <2>1. /\ docs' = Append(docs, arg[a]) /\ arg' = arg /\ pc[a] = "add_insert"
        /\ pc' = [pc EXCEPT ![a] = "add_init"] /\ arg[a] \in Oracle
        /\ UNCHANGED <<status, pending, adapters>> /\ at[a] \in Instance /\ status[at[a]] = "up"
    BY <1>8 DEF InsertOracle, Goto, RequestInv, instanceVars
  <2>2. ToSet(docs') = ToSet(docs) \cup {arg[a]}
    BY <1>0, <2>1, ElementsAfterAppend
  <2>3. \A b \in Admin : b = a /\ pc'[b] = "add_init"
    BY <1>0, <2>1 DEF OneAdmin
  <2>4. \A i \in Instance : status'[i] = "up"
    BY <2>1 DEF OneInstance
  <2>. QED
    BY <2>1, <2>2, <2>3, <2>4 DEF AdapterInv
<1>9. ASSUME NEW a \in Admin, InitAdded(a)
      PROVE  AdapterInv'
  <2>1. /\ pc[a] = "add_init" /\ arg[a] \in Oracle /\ at[a] \in Instance
        /\ UNCHANGED <<docs, status, pending>> /\ Finish(a) /\ status[at[a]] = "up"
    BY <1>9 DEF InitAdded, RequestInv
  <2>2. \A b \in Admin : b = a /\ pc'[b] = "idle"
    BY <1>0, <2>1 DEF Finish, OneAdmin
  <2>3. ToSet(Append(adapters[at[a]], arg[a])) = ToSet(adapters[at[a]]) \cup {arg[a]}
    BY <1>0, <2>1, ElementsAfterAppend
  <2>4. \A i \in Instance : i = at[a] /\ status[i] = "up"
    BY <2>1 DEF OneInstance
  <2>5. CASE CanInit(arg[a]) /\ adapters' = [adapters EXCEPT ![at[a]] = Append(@, arg[a])]
    <3>1. \A i \in Instance : adapters'[i] = Append(adapters[at[a]], arg[a])
      BY <1>0, <2>4, <2>5
    <3>2. \A i \in Instance : ToSet(adapters'[i]) = ToSet(adapters[i]) \cup {arg[a]}
      BY <2>3, <2>4, <3>1
    <3>. QED
      BY <2>1, <2>2, <2>4, <3>2 DEF AdapterInv
  <2>6. CASE ~CanInit(arg[a]) /\ adapters' = adapters
    BY <2>1, <2>2, <2>4, <2>6 DEF AdapterInv
  <2>. QED
    BY <1>9, <2>5, <2>6 DEF InitAdded
<1>10. ASSUME NEW a \in Admin, FindRemoved(a)
       PROVE  AdapterInv'
  BY <1>10, AdaptersAfterFinish, AdaptersAfterGoto DEF FindRemoved, instanceVars
<1>11. ASSUME NEW a \in Admin, DeleteOracle(a)
       PROVE  AdapterInv'
  <2>1. /\ pc[a] = "remove_delete" /\ Finish(a) /\ UNCHANGED <<status, pending>>
        /\ at[a] \in Instance /\ status[at[a]] = "up"
    BY <1>11 DEF DeleteOracle, RequestInv
  <2>2. CASE UNCHANGED <<docs, adapters>>
    BY <2>1, <2>2, AdaptersAfterFinish
  <2>3. CASE /\ getOracleById(arg[a].id) /\ DeleteOne(arg[a].id)
             /\ adapters' = [adapters EXCEPT ![at[a]] = Without(@, arg[a].id)]
    <3>1. PICK n \in DOMAIN docs : docs[n].id = arg[a].id /\ docs' = RemoveAt(docs, n)
      BY <2>3, DeleteOneRemoves
    <3>2. /\ ToSet(docs') \subseteq ToSet(docs)
          /\ \A o \in ToSet(docs) : o # docs[n] => o \in ToSet(docs')
      BY <1>0, <3>1, ElementsAfterRemoveAt
    <3>3. \A o \in ToSet(docs') : o.id # arg[a].id
      <4>1. \A k \in DOMAIN docs' : \E j \in DOMAIN docs : j # n /\ docs'[k] = docs[j]
        BY <3>1, UniqueAfterRemoveAt
      <4>. QED
        BY <3>1, <4>1 DEF UniqueRegistration, ToSet
    <3>4. \A i \in Instance : i = at[a] /\ status[i] = "up" /\ status'[i] = "up"
      BY <2>1 DEF OneInstance
    <3>5. \A i \in Instance : ToSet(adapters'[i]) = {o \in ToSet(adapters[i]) : o.id # arg[a].id}
      BY <1>0, <2>3, <3>4, WithoutProperties
    <3>6. \A b \in Admin : b = a /\ pc'[b] = "idle"
      BY <1>0, <2>1 DEF Finish, OneAdmin
    <3>. QED
      BY <2>1, <3>1, <3>2, <3>3, <3>4, <3>5, <3>6, EmptyHasNone DEF AdapterInv
  <2>. QED
    BY <1>11, <2>2, <2>3 DEF DeleteOracle, OneInstance
<1>12. ASSUME NEW a \in Admin, Throw(a)
       PROVE  FALSE
  BY <1>12 DEF Throw, OneInstance
<1>13. ASSUME NEW a \in Admin, NEW i \in Instance, removeOracle(a, i)
       PROVE  AdapterInv'
  BY <1>13, AdaptersAfterBegin DEF removeOracle, AdminSteps
<1>14. ASSUME NEW a \in Admin, NEW i \in Instance, NEW dto \in Candidates, addOracle(a, i, dto)
       PROVE  AdapterInv'
  BY <1>14, AdaptersAfterBegin DEF addOracle, AdminSteps
<1>15. CASE UNCHANGED vars
  BY <1>15, AdaptersKept DEF vars
<1>. QED
  BY <1>1, <1>2, <1>3, <1>4, <1>5, <1>6, <1>7, <1>8, <1>9, <1>10, <1>11, <1>12, <1>13,
     <1>14, <1>15
     DEF Next, InstanceStep, AdminStep

(* Ids are unique, so the first adapter of an id is the oracle's own. *)
LEMMA ServeInvResolves == ServeInv => ResolvesToRegistered
<1>. SUFFICES ASSUME ServeInv, Quiescent, NEW i \in Instance, NEW pt \in PartyType,
                     NEW cur \in Currency \cup Absent, status[i] = "up",
                     getOracle(pt, cur) # Null, CanInit(getOracle(pt, cur))
              PROVE  _getOracleAdapter(i, pt, cur) = getOracle(pt, cur)
  BY DEF ResolvesToRegistered
<1>. DEFINE oracle == getOracle(pt, cur)
<1>1. docs \in Seq(Oracle) /\ adapters[i] \in Seq(Oracle)
  BY DEF ServeInv, UniqueInv, TypeInv, TypeOK
<1>2. oracle \in ToSet(docs)
  <2>1. Exact(pt, cur) \subseteq DOMAIN docs /\ Other(pt, cur) \subseteq DOMAIN docs
    BY DEF Exact, Other
  <2>2. Exact(pt, cur) \subseteq Nat /\ Other(pt, cur) \subseteq Nat
    BY <1>1, <2>1
  <2>3. CASE Exact(pt, cur) # {}
    BY <2>1, <2>2, <2>3, MinOf DEF getOracle, ToSet
  <2>4. CASE Exact(pt, cur) = {} /\ Other(pt, cur) # {}
    BY <2>1, <2>2, <2>4, MinOf DEF getOracle, ToSet
  <2>. QED
    BY <2>3, <2>4 DEF getOracle
<1>. HIDE DEF oracle
<1>3. oracle # Null /\ CanInit(oracle)
  BY DEF oracle
<1>4. oracle \in ToSet(adapters[i])
  BY <1>2, <1>3 DEF ServeInv, AdapterInv, Quiescent
<1>. DEFINE serves == {k \in DOMAIN adapters[i] : adapters[i][k].id = oracle.id}
<1>5. serves # {} /\ serves \subseteq Nat
  BY <1>1, <1>4 DEF ToSet
<1>6. Min(serves) \in serves
  <2>. HIDE DEF serves
  <2>. QED
    BY <1>5, MinOf
<1>7. adapters[i][Min(serves)] \in ToSet(docs) /\ adapters[i][Min(serves)].id = oracle.id
  <2>1. adapters[i][Min(serves)] \in ToSet(adapters[i])
    BY <1>6 DEF ToSet
  <2>. QED
    BY <1>6, <2>1 DEF ServeInv, AdapterInv
<1>8. adapters[i][Min(serves)] = oracle
  BY <1>2, <1>7 DEF ServeInv, UniqueInv, UniqueRegistration, ToSet
<1>9. AdapterOf(i, oracle.id) = oracle
  BY <1>5, <1>8 DEF AdapterOf
<1>. QED
  BY <1>3, <1>9 DEF _getOracleAdapter, oracle

(***************************************************************************)
(* One instance that one administrator at a time changes, without failures:  *)
(* between his requests no adapter serves an oracle that was removed, also   *)
(* after crashes and restarts.                                               *)
(***************************************************************************)
THEOREM NoAdapterIsLeft == ASSUME OneInstance, OneAdmin PROVE Spec => []NoOrphanAdapter
<1>1. ServeInv /\ [Next]_vars => ServeInv'
  BY AdapterStep
<1>2. ServeInv => NoOrphanAdapter
  BY DEF ServeInv, AdapterInv, NoOrphanAdapter
<1>. QED
  BY AdapterInit, <1>1, <1>2, PTL DEF Spec

(***************************************************************************)
(* Then, too, whatever party type and currency resolve to is served by an    *)
(* adapter made for exactly that registration.                               *)
(***************************************************************************)
THEOREM ServedAsRegistered == ASSUME OneInstance, OneAdmin PROVE Spec => []ResolvesToRegistered
<1>1. ServeInv /\ [Next]_vars => ServeInv'
  BY AdapterStep
<1>. QED
  BY AdapterInit, <1>1, ServeInvResolves, PTL DEF Spec

=============================================================================

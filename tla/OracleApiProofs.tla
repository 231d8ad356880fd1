---------------------------- MODULE OracleApiProofs ----------------------------
(***************************************************************************)
(* For every set of readers, administrators, oracles and associations: what  *)
(* the HTTP interface tells its callers is true.  For readers that holds     *)
(* whoever else is at work; what admins are told holds for one instance and  *)
(* one administrator at a time, which is all that the code coordinates.      *)
(***************************************************************************)
EXTENDS OracleApi, OracleRegistryProofs

(* What the request of a reader knows at each of its awaits. *)
ReaderInv ==
    \A r \in Reader :
        /\ step[r] = "idle" => todo[r] = <<>>
        /\ step[r] # "idle" => req[r] \in Request /\ reply[r] = NoReply
        /\ step[r] = "find" => todo[r] = <<>>
        /\ step[r] = "ask" => adapter[r] # Null
        /\ step[r] \in {"resolve", "ask"} /\ req[r].kind \in Listing => todo[r] # <<>>
        /\ kept[r] \subseteq entries

(* A request that nobody interfered with is served by an instance that is    *)
(* up, while no admin request is in flight, and goes through oracles that    *)
(* are in the collection.                                                    *)
CalmInv ==
    \A r \in Reader : calm[r] /\ step[r] # "idle" =>
        /\ Quiescent
        /\ status[req[r].at] = "up"
        /\ ToSet(todo[r]) \subseteq ToSet(docs)

ApiInv == ApiTypeOK /\ RequestInv /\ ReaderInv /\ CalmInv

ReaderTypes ==
    /\ step \in [Reader -> {"idle", "find", "resolve", "ask"}]
    /\ req \in [Reader -> Request \cup {Null}]
    /\ todo \in [Reader -> Seq(Oracle)]
    /\ adapter \in [Reader -> Oracle \cup {Null}]
    /\ reply \in [Reader -> Reply]
    /\ kept \in [Reader -> SUBSET Entry]
    /\ calm \in [Reader -> BOOLEAN]

LEMMA ReadersAreTyped == ApiInv => ReaderTypes
BY DEF ApiInv, ApiTypeOK, ReaderTypes

(* While the registry stays, so does all that is not about readers. *)
LEMMA RegistryKept ==
    ASSUME ApiInv, RegistryUnchanged, ReaderTypes', ReaderInv', CalmInv'
    PROVE  ApiInv'
<1>1. TypeInv'
  BY TypesStep DEF ApiInv, ApiTypeOK, TypeInv, RegistryUnchanged
<1>. QED
  BY <1>1 DEF ApiInv, ApiTypeOK, ReaderTypes, TypeInv, RegistryUnchanged

LEMMA NoReplyIsReply == NoReply \in Reply
BY DEF NoReply, Reply

LEMMA EndKeeps ==
    ASSUME ApiInv, NEW r \in Reader, NEW code \in {0, 200, 401, 403, 404, 500},
           NEW answer \in SUBSET Entry, End(r, code, answer), RegistryUnchanged
    PROVE  ApiInv'
<1>1. ReaderTypes
  BY ReadersAreTyped
<1>2. [code |-> code, shown |-> answer] \in Reply
  BY DEF Reply
<1>3. ReaderTypes'
  BY <1>1, <1>2 DEF End, ReaderTypes
<1>4. /\ UNCHANGED <<docs, status, pc, entries>>
      /\ step'[r] = "idle" /\ todo'[r] = <<>> /\ kept'[r] = {}
      /\ \A q \in Reader \ {r} :
            /\ step'[q] = step[q] /\ req'[q] = req[q] /\ todo'[q] = todo[q]
            /\ adapter'[q] = adapter[q] /\ reply'[q] = reply[q]
            /\ kept'[q] = kept[q] /\ calm'[q] = calm[q]
  BY <1>1 DEF End, ReaderTypes, RegistryUnchanged, vars
<1>5. ReaderInv'
  BY <1>4 DEF ApiInv, ReaderInv
<1>6. CalmInv'
  BY <1>4 DEF ApiInv, CalmInv, Quiescent
<1>. QED
  BY <1>3, <1>5, <1>6, RegistryKept

(* A listing goes on to its next oracle, or ends with the last. *)
LEMMA NextOracleKeeps ==
    ASSUME ApiInv, NEW r \in Reader, step[r] \in {"find", "ask"},
           NEW oracles \in Seq(Oracle), calm[r] => ToSet(oracles) \subseteq ToSet(docs),
           NEW answer \in SUBSET Entry, NextOracle(r, oracles, answer), RegistryUnchanged
    PROVE  ApiInv'
<1>1. ReaderTypes
  BY ReadersAreTyped
<1>2. CASE oracles = <<>>
  BY <1>2, EndKeeps DEF NextOracle
<1>3. CASE oracles # <<>>
  <2>1. /\ step' = [step EXCEPT ![r] = "resolve"]
        /\ todo' = [todo EXCEPT ![r] = oracles]
        /\ adapter' = [adapter EXCEPT ![r] = Null]
        /\ UNCHANGED <<req, reply, kept, calm>>
    BY <1>3 DEF NextOracle, Await, HistoryUnchanged
  <2>2. ReaderTypes'
    BY <1>1, <2>1 DEF ReaderTypes
  <2>3. /\ UNCHANGED <<docs, status, pc, entries, req, reply, kept, calm>>
        /\ step'[r] = "resolve" /\ todo'[r] = oracles
        /\ \A q \in Reader \ {r} :
              step'[q] = step[q] /\ todo'[q] = todo[q] /\ adapter'[q] = adapter[q]
    BY <1>1, <2>1 DEF ReaderTypes, RegistryUnchanged, vars
  <2>4. ReaderInv'
    BY <1>3, <2>3 DEF ApiInv, ReaderInv
  <2>5. CalmInv'
    BY <2>3 DEF ApiInv, CalmInv, Quiescent
  <2>. QED
    BY <2>2, <2>4, <2>5, RegistryKept
<1>. QED
  BY <1>2, <1>3

(* A request has found its adapter. *)
LEMMA ResolvedKeeps ==
    ASSUME ApiInv, NEW r \in Reader, step[r] = "resolve", NEW ad \in Oracle, Await(r, "ask"),
           adapter' = [adapter EXCEPT ![r] = ad], UNCHANGED todo, RegistryUnchanged
    PROVE  ApiInv'
<1>1. ReaderTypes
  BY ReadersAreTyped
<1>2. step' = [step EXCEPT ![r] = "ask"] /\ UNCHANGED <<req, reply, kept, calm>>
  BY DEF Await, HistoryUnchanged
<1>3. ReaderTypes'
  BY <1>1, <1>2 DEF ReaderTypes
<1>4. /\ UNCHANGED <<docs, status, pc, entries>>
      /\ step'[r] = "ask" /\ adapter'[r] # Null
      /\ \A q \in Reader \ {r} : step'[q] = step[q] /\ adapter'[q] = adapter[q]
  BY <1>1, <1>2, NullAssumption DEF ReaderTypes, RegistryUnchanged, vars
<1>5. ReaderInv'
  BY <1>2, <1>4 DEF ApiInv, ReaderInv
<1>6. CalmInv'
  BY <1>2, <1>4 DEF ApiInv, CalmInv, Quiescent
<1>. QED
  BY <1>3, <1>5, <1>6, RegistryKept

LEMMA GetKeeps ==
    ASSUME ApiInv, NEW r \in Reader, NEW i \in Instance, NEW kind \in Kind,
           NEW id \in Id \cup {Null}, NEW party \in Entry \cup {Null},
           NEW next \in {"find", "resolve", "ask"}, NEW ad \in Oracle \cup {Null},
           kind \in Listing => next = "find", next = "ask" => ad # Null,
           Get(r, i, kind, id, party, next, ad)
    PROVE  ApiInv'
<1>1. ReaderTypes
  BY ReadersAreTyped
<1>. DEFINE q0 == [kind |-> kind, at |-> i, id |-> id, party |-> party]
<1>2. q0 \in Request /\ q0.kind = kind /\ q0.at = i
  BY DEF Request
<1>3. /\ step[r] = "idle" /\ status[i] = "up"
      /\ step' = [step EXCEPT ![r] = next] /\ req' = [req EXCEPT ![r] = q0]
      /\ adapter' = [adapter EXCEPT ![r] = ad] /\ reply' = [reply EXCEPT ![r] = NoReply]
      /\ kept' = [kept EXCEPT ![r] = entries] /\ calm' = [calm EXCEPT ![r] = Quiescent]
      /\ todo' = todo /\ RegistryUnchanged
  BY DEF Get
<1>. HIDE DEF q0
<1>4. entries \in SUBSET Entry /\ Quiescent \in BOOLEAN
  BY DEF ApiInv, ApiTypeOK, Quiescent
<1>5. ReaderTypes'
  BY <1>1, <1>2, <1>3, <1>4, NoReplyIsReply DEF ReaderTypes
<1>6. /\ UNCHANGED <<docs, status, pc, entries, todo>>
      /\ step'[r] = next /\ req'[r] = q0 /\ adapter'[r] = ad /\ reply'[r] = NoReply
      /\ kept'[r] = entries /\ calm'[r] = Quiescent
      /\ \A q \in Reader \ {r} :
            /\ step'[q] = step[q] /\ req'[q] = req[q] /\ adapter'[q] = adapter[q]
            /\ reply'[q] = reply[q] /\ kept'[q] = kept[q] /\ calm'[q] = calm[q]
  BY <1>1, <1>3 DEF ReaderTypes, RegistryUnchanged, vars
<1>7. ReaderInv'
  BY <1>2, <1>3, <1>6 DEF ApiInv, ReaderInv
<1>8. todo[r] = <<>>
  BY <1>3 DEF ApiInv, ReaderInv
<1>9. CalmInv'
  <2>1. Quiescent' <=> Quiescent
    BY <1>6 DEF Quiescent
  <2>2. ASSUME NEW q \in Reader \ {r}, calm'[q], step'[q] # "idle"
        PROVE  Quiescent /\ status[req[q].at] = "up" /\ ToSet(todo[q]) \subseteq ToSet(docs)
    BY <1>6, <2>2 DEF ApiInv, CalmInv
  <2>3. calm'[r] => Quiescent
    BY <1>6
  <2>4. ToSet(todo[r]) = {} /\ status[req'[r].at] = "up"
    BY <1>2, <1>3, <1>6, <1>8, EmptyHasNone
  <2>. QED
    BY <1>6, <2>1, <2>2, <2>3, <2>4 DEF CalmInv
<1>. QED
  BY <1>3, <1>5, <1>7, <1>9, RegistryKept

(* A request that is refused changes nothing but the reply of an idle reader. *)
LEMMA RefusalKeeps ==
    ASSUME ApiInv, NEW r \in Reader, step[r] = "idle", NEW answer \in Reply,
           reply' = [reply EXCEPT ![r] = answer],
           UNCHANGED <<step, req, todo, adapter, kept, calm>>, RegistryUnchanged
    PROVE  ApiInv'
<1>1. ReaderTypes
  BY ReadersAreTyped
<1>2. ReaderTypes'
  BY <1>1 DEF ReaderTypes
<1>3. UNCHANGED <<docs, status, pc, entries>> /\ \A q \in Reader \ {r} : reply'[q] = reply[q]
  BY <1>1 DEF ReaderTypes, RegistryUnchanged, vars
<1>4. ReaderInv'
  BY <1>3 DEF ApiInv, ReaderInv
<1>5. CalmInv'
  BY <1>3 DEF ApiInv, CalmInv, Quiescent
<1>. QED
  BY <1>2, <1>4, <1>5, RegistryKept

(* An adapter that was found is one of the list. *)
LEMMA AdapterOfProperties ==
    ASSUME TypeOK, NEW i \in Instance, NEW id, AdapterOf(i, id) # Null
    PROVE  AdapterOf(i, id) \in Oracle
<1>. DEFINE serves == {k \in DOMAIN adapters[i] : adapters[i][k].id = id}
<1>1. adapters[i] \in Seq(Oracle)
  BY DEF TypeOK
<1>2. serves \subseteq Nat /\ \A k \in serves : adapters[i][k] \in Oracle
  BY <1>1
<1>3. serves # {} /\ AdapterOf(i, id) = adapters[i][Min(serves)]
  BY DEF AdapterOf
<1>. HIDE DEF serves
<1>4. Min(serves) \in serves
  BY <1>2, <1>3, MinOf
<1>. QED
  BY <1>2, <1>3, <1>4

(* The steps of the requests of a reader. *)
LEMMA ReaderStep ==
    ASSUME ApiInv, NEW r \in Reader, Answer(r) \/ ReadFails(r)
    PROVE  ApiInv'
<1>1. ReaderTypes /\ docs \in Seq(Oracle) /\ entries \in SUBSET Entry
  BY ReadersAreTyped DEF ApiInv, ApiTypeOK, TypeOK
<1>2. {} \in SUBSET Entry
  OBVIOUS
<1>3. CASE getAllOracles(r)
  BY <1>2, <1>3, EndKeeps DEF getAllOracles
<1>4. CASE FindOracle(r)
  BY <1>2, <1>4, EndKeeps DEF FindOracle
<1>5. CASE ListOracles(r)
  <2>. DEFINE relevant == {k \in DOMAIN docs :
                             req[r].kind = "associations" => docs[k].type = "builtin"}
  <2>1. step[r] = "find" /\ NextOracle(r, AtPlaces(docs, relevant), {}) /\ RegistryUnchanged
    BY <1>5 DEF ListOracles
  <2>2. relevant \in SUBSET DOMAIN docs
    OBVIOUS
  <2>. HIDE DEF relevant
  <2>3. AtPlaces(docs, relevant) \in Seq(Oracle) /\ ToSet(AtPlaces(docs, relevant)) \subseteq ToSet(docs)
    <3>1. /\ AtPlaces(docs, relevant) \in Seq(Oracle)
          /\ ToSet(AtPlaces(docs, relevant)) = {docs[k] : k \in relevant}
      BY <1>1, <2>2, AtPlacesProperties
    <3>2. {docs[k] : k \in relevant} \subseteq ToSet(docs)
      BY <2>2 DEF ToSet
    <3>. QED
      BY <3>1, <3>2
  <2>. QED
    BY <1>2, <2>1, <2>3, NextOracleKeeps
<1>6. CASE Resolve(r)
  <2>1. CASE Resolved(r) = Null
    BY <1>2, <1>6, <2>1, EndKeeps DEF Resolve
  <2>2. CASE Resolved(r) # Null
    <3>1. req[r].at \in Instance
      BY <1>6 DEF Resolve, ApiInv, ReaderInv, Request
    <3>2. Resolved(r) \in Oracle
      BY <2>2, <3>1, AdapterOfProperties DEF Resolved, _getOracleAdapter, ApiInv, ApiTypeOK
    <3>. QED
      BY <1>6, <2>2, <3>2, ResolvedKeeps DEF Resolve
  <2>. QED
    BY <2>1, <2>2
<1>7. CASE AskOwner(r)
  BY <1>2, <1>7, EndKeeps DEF AskOwner
<1>8. CASE AskHealth(r)
  BY <1>2, <1>8, EndKeeps DEF AskHealth
<1>. DEFINE rest == Tail(todo[r])
<1>9. ASSUME step[r] = "ask", req[r].kind \in Listing
      PROVE  rest \in Seq(Oracle) /\ (calm[r] => ToSet(rest) \subseteq ToSet(docs))
  <2>1. todo[r] \in Seq(Oracle) /\ todo[r] # <<>>
    BY <1>1, <1>9 DEF ReaderTypes, ApiInv, ReaderInv
  <2>2. rest \in Seq(Oracle) /\ ToSet(rest) \subseteq ToSet(todo[r])
    BY <2>1, HeadTailProperties, ElementsOfTail
  <2>. QED
    BY <1>9, <2>2 DEF ApiInv, CalmInv
<1>. HIDE DEF rest
<1>10. CASE AskAssociations(r)
  <2>1. CASE adapter[r].type = "builtin"
    <3>1. PICK some \in Shows(req[r].kind) : NextOracle(r, rest, some)
      BY <1>10, <2>1 DEF AskAssociations, rest
    <3>2. some \in SUBSET Entry
      BY <1>1 DEF Shows
    <3>. QED
      BY <1>9, <1>10, <3>1, <3>2, NextOracleKeeps DEF AskAssociations
  <2>2. CASE adapter[r].type # "builtin"
    BY <1>2, <1>10, <2>2, EndKeeps DEF AskAssociations
  <2>. QED
    BY <2>1, <2>2
<1>11. CASE ReadFails(r)
  <2>1. RegistryUnchanged
    BY <1>11 DEF ReadFails
  <2>2. CASE End(r, 500, {})
    BY <1>2, <2>1, <2>2, EndKeeps
  <2>3. ASSUME step[r] = "ask", req[r].kind \in Listing,
               NEW some \in SUBSET entries, NextOracle(r, rest, some)
        PROVE  ApiInv'
    BY <1>1, <1>9, <2>1, <2>3, NextOracleKeeps
  <2>. QED
    BY <1>11, <2>2, <2>3 DEF ReadFails, rest, Listing
<1>. QED
  BY <1>3, <1>4, <1>5, <1>6, <1>7, <1>8, <1>10, <1>11 DEF Answer

LEMMA RequestStep ==
    ASSUME ApiInv, NEW r \in Reader, NEW i \in Instance,
           \/ GetListing(r, i) \/ GetOracles(r, i) \/ GetOracle(r, i)
           \/ getAccountLookUp(r, i) \/ healthCheck(r, i)
    PROVE  ApiInv'
<1>1. CASE GetListing(r, i)
  BY <1>1, GetKeeps DEF GetListing, Kind
<1>2. CASE GetOracles(r, i)
  BY <1>2, GetKeeps DEF GetOracles, Kind, Listing
<1>3. CASE GetOracle(r, i)
  BY <1>3, GetKeeps DEF GetOracle, Kind, Listing
<1>4. CASE getAccountLookUp(r, i)
  BY <1>4, GetKeeps DEF getAccountLookUp, Kind, Listing
<1>5. CASE healthCheck(r, i)
  <2>1. PICK id \in Id :
            IF AdapterOf(i, id) # Null
            THEN Get(r, i, "health", id, Null, "ask", AdapterOf(i, id))
            ELSE End(r, 404, {}) /\ RegistryUnchanged
    BY <1>5 DEF healthCheck
  <2>2. CASE AdapterOf(i, id) # Null
    <3>1. AdapterOf(i, id) \in Oracle
      BY <2>2, AdapterOfProperties DEF ApiInv, ApiTypeOK
    <3>. QED
      BY <2>1, <2>2, <3>1, GetKeeps DEF Kind, Listing
  <2>3. CASE AdapterOf(i, id) = Null
    BY <2>1, <2>3, EndKeeps
  <2>. QED
    BY <2>2, <2>3
<1>. QED
  BY <1>1, <1>2, <1>3, <1>4, <1>5

LEMMA RefusalStep ==
    ASSUME ApiInv, NEW r \in Reader, _authenticationMiddleware(r) \/ _enforcePrivilege(r) \/ CatchAll(r)
    PROVE  ApiInv'
<1>1. /\ [NoReply EXCEPT !.code = 401] \in Reply /\ [NoReply EXCEPT !.code = 403] \in Reply
      /\ [NoReply EXCEPT !.code = 404] \in Reply
  BY NoReplyIsReply DEF Reply
<1>2. UNCHANGED <<step, req, todo, adapter, kept, calm>> /\ RegistryUnchanged /\ step[r] = "idle"
  BY DEF _authenticationMiddleware, _enforcePrivilege, CatchAll, HistoryUnchanged
<1>3. \E answer \in Reply : reply' = [reply EXCEPT ![r] = answer]
  BY <1>1 DEF _authenticationMiddleware, _enforcePrivilege, CatchAll
<1>. QED
  BY <1>2, <1>3, RefusalKeeps

(* What admins and instances do interferes with every request. *)
LEMMA InterferenceKeeps ==
    ASSUME ApiInv, TypeInv', Interferes, UNCHANGED <<entries, readerVars, changes, kept>>,
           receipt' \in [Admin -> {0, 200, 401, 403, 404, 422, 500}],
           served' \subseteq Oracle, gone' \subseteq Id
    PROVE  ApiInv'
<1>1. ApiTypeOK'
  BY DEF ApiInv, ApiTypeOK, TypeInv, Interferes, readerVars
<1>2. ReaderInv' /\ CalmInv'
  BY DEF ApiInv, ReaderInv, CalmInv, Interferes, readerVars
<1>. QED
  BY <1>1, <1>2 DEF ApiInv, TypeInv

LEMMA ReceiptKeeps ==
    ASSUME ApiInv, TypeInv', NEW a \in Admin, NEW code \in {0, 200, 404, 500},
           AdminReceives(a, code)
    PROVE  ApiInv'
<1>1. pc[a] # "idle" => arg[a] \in Oracle /\ arg[a].id \in Id
  BY OracleFields DEF ApiInv, RequestInv
<1>2. receipt' \in [Admin -> {0, 200, 401, 403, 404, 422, 500}]
  BY DEF AdminReceives, ApiInv, ApiTypeOK
<1>3. served' \subseteq Oracle /\ gone' \subseteq Id
  BY <1>1 DEF AdminReceives, ApiInv, ApiTypeOK
<1>. QED
  BY <1>2, <1>3, InterferenceKeeps DEF AdminReceives

(* The steps of the interface are those of the registry, and requests of     *)
(* admins may fail at a read, too.                                           *)
ReadFailed(a) ==
    /\ pc[a] \in {"add_check_id", "add_check_name", "add_find", "remove_find"}
    /\ Finish(a)
    /\ UNCHANGED <<docs, instanceVars, used, ops>>

LEMMA RegistryStep ==
    ASSUME [ApiNext]_<<vars, apiVars>>
    PROVE  [Next]_vars \/ \E a \in Admin : ReadFailed(a)
<1>1. ASSUME NEW r \in Reader, Answer(r) \/ ReadFails(r)
      PROVE  UNCHANGED vars
  BY <1>1
     DEF Answer, ReadFails, getAllOracles, FindOracle, ListOracles, Resolve, AskOwner, AskHealth,
         AskAssociations, RegistryUnchanged
<1>2. ASSUME NEW r \in Reader, _authenticationMiddleware(r) \/ _enforcePrivilege(r) \/ CatchAll(r)
      PROVE  UNCHANGED vars
  BY <1>2 DEF _authenticationMiddleware, _enforcePrivilege, CatchAll, RegistryUnchanged
<1>3. ASSUME NEW r \in Reader, NEW i \in Instance,
             \/ GetListing(r, i) \/ GetOracles(r, i) \/ GetOracle(r, i)
             \/ getAccountLookUp(r, i) \/ healthCheck(r, i)
      PROVE  UNCHANGED vars
  BY <1>3
     DEF GetListing, GetOracles, GetOracle, getAccountLookUp, healthCheck, Get, RegistryUnchanged
<1>4. ASSUME NEW a \in Admin, AdminResumes(a)
      PROVE  Next
  BY <1>4 DEF AdminResumes, Next, AdminStep
<1>5. ASSUME NEW a \in Admin, AdminReadFails(a) \/ RefuseAdmin(a)
      PROVE  UNCHANGED vars \/ ReadFailed(a)
  BY <1>5 DEF AdminReadFails, RefuseAdmin, ReadFailed
<1>6. ASSUME NEW a \in Admin, NEW i \in Instance,
             deleteOracle(a, i) \/ \E dto \in Candidates : createOracle(a, i, dto)
      PROVE  Next \/ UNCHANGED vars
  BY <1>6 DEF deleteOracle, createOracle, Next
<1>7. ASSUME NEW i \in Instance, InstanceChanges(i)
      PROVE  Next
  BY <1>7 DEF InstanceChanges, Next
<1>8. ASSUME AssociationChanges \/ UNCHANGED <<vars, apiVars>>
      PROVE  UNCHANGED vars
  BY <1>8 DEF AssociationChanges
<1>. QED
  BY <1>1, <1>2, <1>3, <1>4, <1>5, <1>6, <1>7, <1>8 DEF ApiNext

LEMMA ApiTypesOfRegistry ==
    ASSUME ApiInv, [ApiNext]_<<vars, apiVars>>
    PROVE  TypeInv'
<1>1. TypeInv
  BY DEF ApiInv, ApiTypeOK, TypeInv
<1>2. ASSUME NEW a \in Admin, ReadFailed(a)
      PROVE  TypeInv'
  <2>1. UNCHANGED <<docs, status, pending, adapters, stops, used, ops>> /\ Finish(a)
    BY <1>2 DEF ReadFailed, instanceVars
  <2>2. RequestInv' /\ pc' \in [Admin -> AdminSteps]
        /\ arg' \in [Admin -> Oracle \cup {Null}] /\ at' \in [Admin -> Instance \cup {Null}]
    BY <1>1, <2>1, FinishTyped
  <2>. QED
    BY <1>1, <2>1, <2>2 DEF TypeInv, TypeOK
<1>. QED
  BY <1>1, <1>2, RegistryStep, TypesStep

(* Only receipts change: a request of an admin is refused at the door. *)
LEMMA DoorKeeps ==
    ASSUME ApiInv, receipt' \in [Admin -> {0, 200, 401, 403, 404, 422, 500}],
           UNCHANGED <<vars, entries, readerVars, changes, kept, calm, served, gone>>
    PROVE  ApiInv'
<1>1. TypeInv'
  BY TypesStep DEF ApiInv, ApiTypeOK, TypeInv
<1>2. ApiTypeOK'
  BY <1>1 DEF ApiInv, ApiTypeOK, TypeInv, readerVars
<1>3. ReaderInv'
  BY DEF ApiInv, ReaderInv, readerVars
<1>4. CalmInv'
  BY DEF ApiInv, CalmInv, readerVars, vars, Quiescent
<1>. QED
  BY <1>1, <1>2, <1>3, <1>4 DEF ApiInv, TypeInv

LEMMA InstanceKeeps ==
    ASSUME ApiInv, TypeInv', NEW i \in Instance, InstanceChanges(i)
    PROVE  ApiInv'
<1>1. ReaderTypes
  BY ReadersAreTyped
<1>2. ReaderTypes' /\ UNCHANGED <<entries, reply, receipt, changes, served, gone>>
  BY <1>1 DEF InstanceChanges, Interferes, ReaderTypes
<1>3. ReaderInv'
  <2>. SUFFICES ASSUME NEW r \in Reader
                PROVE  /\ step'[r] = "idle" => todo'[r] = <<>>
                       /\ step'[r] # "idle" => req'[r] \in Request /\ reply'[r] = NoReply
                       /\ step'[r] = "find" => todo'[r] = <<>>
                       /\ step'[r] = "ask" => adapter'[r] # Null
                       /\ step'[r] \in {"resolve", "ask"} /\ req'[r].kind \in Listing =>
                              todo'[r] # <<>>
                       /\ kept'[r] \subseteq entries'
    BY <1>2 DEF ReaderInv
  <2>1. \/ step'[r] = "idle" /\ todo'[r] = <<>> /\ kept'[r] = {}
        \/ /\ step'[r] = step[r] /\ req'[r] = req[r] /\ todo'[r] = todo[r]
           /\ adapter'[r] = adapter[r] /\ kept'[r] = kept[r]
    BY DEF InstanceChanges
  <2>. QED
    BY <1>2, <2>1 DEF ApiInv, ReaderInv
<1>4. CalmInv'
  BY DEF InstanceChanges, Interferes, CalmInv
<1>. QED
  BY <1>2, <1>3, <1>4 DEF ApiInv, ApiTypeOK, TypeInv, ReaderTypes

LEMMA AssociationKeeps ==
    ASSUME ApiInv, AssociationChanges
    PROVE  ApiInv'
<1>1. TypeInv' /\ changes \in Nat
  BY TypesStep DEF ApiInv, ApiTypeOK, TypeInv, AssociationChanges
<1>2. /\ changes' = changes + 1 /\ entries' \subseteq Entry
      /\ kept' = [r \in Reader |-> kept[r] \cap entries']
      /\ UNCHANGED <<vars, readerVars, receipt, calm, served, gone>>
  BY DEF AssociationChanges, ApiInv, ApiTypeOK
<1>3. ApiTypeOK'
  BY <1>1, <1>2 DEF ApiInv, ApiTypeOK, TypeInv, readerVars
<1>4. ReaderInv'
  BY <1>2 DEF ApiInv, ReaderInv, readerVars
<1>5. CalmInv'
  BY <1>2 DEF ApiInv, CalmInv, readerVars, vars, Quiescent
<1>. QED
  BY <1>1, <1>3, <1>4, <1>5 DEF ApiInv, TypeInv

LEMMA ApiInvInit == ApiInit => ApiInv
<1>. SUFFICES ASSUME ApiInit
              PROVE  ApiInv
  OBVIOUS
<1>1. TypeInv
  BY TypesInit DEF ApiInit
<1>2. ApiTypeOK
  BY <1>1, NoReplyIsReply DEF ApiInit, ApiTypeOK, TypeInv
<1>. QED
  BY <1>1, <1>2 DEF ApiInit, ApiInv, TypeInv, ReaderInv, CalmInv

LEMMA ApiInvStep == ApiInv /\ [ApiNext]_<<vars, apiVars>> => ApiInv'
<1>. SUFFICES ASSUME ApiInv, [ApiNext]_<<vars, apiVars>>
              PROVE  ApiInv'
  OBVIOUS
<1>1. TypeInv'
  BY ApiTypesOfRegistry
<1>2. ASSUME NEW a \in Admin, AdminResumes(a)
      PROVE  ApiInv'
  <2>1. \E code \in {0, 200, 404, 500} : AdminReceives(a, code)
    BY <1>2 DEF AdminResumes, Created
  <2>. QED
    BY <1>1, <2>1, ReceiptKeeps
<1>3. ASSUME NEW a \in Admin, AdminReadFails(a)
      PROVE  ApiInv'
  BY <1>1, <1>3, ReceiptKeeps DEF AdminReadFails
<1>4. ASSUME NEW a \in Admin, RefuseAdmin(a)
      PROVE  ApiInv'
  <2>1. receipt' \in [Admin -> {0, 200, 401, 403, 404, 422, 500}]
    BY <1>4 DEF RefuseAdmin, ApiInv, ApiTypeOK
  <2>2. UNCHANGED <<vars, entries, readerVars, changes, kept, calm, served, gone>>
    BY <1>4 DEF RefuseAdmin
  <2>. QED
    BY <2>1, <2>2, DoorKeeps
<1>5. ASSUME NEW a \in Admin, NEW i \in Instance, deleteOracle(a, i)
      PROVE  ApiInv'
  BY <1>1, <1>5, ReceiptKeeps DEF deleteOracle
<1>6. ASSUME NEW a \in Admin, NEW i \in Instance, NEW dto \in Candidates, createOracle(a, i, dto)
      PROVE  ApiInv'
  <2>1. CASE addOracle(a, i, dto) /\ AdminReceives(a, 0)
    BY <1>1, <2>1, ReceiptKeeps
  <2>2. CASE /\ receipt' = [receipt EXCEPT ![a] = 422]
             /\ UNCHANGED <<vars, entries, readerVars, changes, kept, calm, served, gone>>
    <3>1. receipt' \in [Admin -> {0, 200, 401, 403, 404, 422, 500}]
      BY <2>2 DEF ApiInv, ApiTypeOK
    <3>. QED
      BY <2>2, <3>1, DoorKeeps
  <2>. QED
    BY <1>6, <2>1, <2>2 DEF createOracle
<1>7. CASE UNCHANGED <<vars, apiVars>>
  <2>1. ApiTypeOK'
    BY <1>1, <1>7 DEF ApiInv, ApiTypeOK, TypeInv, apiVars, readerVars
  <2>2. ReaderInv' /\ CalmInv'
    BY <1>7 DEF ApiInv, ReaderInv, CalmInv, apiVars, readerVars, vars, Quiescent
  <2>. QED
    BY <1>1, <2>1, <2>2 DEF ApiInv, TypeInv
<1>. QED
  BY <1>1, <1>2, <1>3, <1>4, <1>5, <1>6, <1>7, ReaderStep, RefusalStep, RequestStep,
     InstanceKeeps, AssociationKeeps
     DEF ApiNext

(***************************************************************************)
(* The interface keeps its types and those of the registry below it.         *)
(***************************************************************************)
THEOREM ApiTypeCorrect == ApiSpec => []ApiTypeOK
<1>1. ApiInv => ApiTypeOK
  BY DEF ApiInv
<1>. QED
  BY ApiInvInit, ApiInvStep, <1>1, PTL DEF ApiSpec

-----------------------------------------------------------------------------
(* What readers are told. *)

(* A reader's request ends with a reply only in a step of its own. *)
LEMMA OnlyItsOwnStepReplies ==
    ASSUME ApiInv, [ApiNext]_<<vars, apiVars>>, NEW r \in Reader,
           step[r] # "idle", reply'[r].code # 0
    PROVE  Answer(r) \/ ReadFails(r)
<1>1. ReaderTypes /\ reply[r] = NoReply /\ NoReply.code = 0
  BY ReadersAreTyped DEF ApiInv, ReaderInv, NoReply
<1>2. reply'[r] # reply[r]
  BY <1>1
<1>3. ASSUME NEW q \in Reader, q # r, Answer(q) \/ ReadFails(q)
      PROVE  reply'[r] = reply[r]
  <2>1. \A code, answer : End(q, code, answer) => reply'[r] = reply[r]
    BY <1>1, <1>3 DEF End, ReaderTypes
  <2>2. \A next : Await(q, next) => reply'[r] = reply[r]
    BY DEF Await
  <2>3. \A oracles, answer : NextOracle(q, oracles, answer) => reply'[r] = reply[r]
    BY <2>1, <2>2 DEF NextOracle
  <2>. QED
    BY <1>3, <2>1, <2>2, <2>3
       DEF Answer, ReadFails, getAllOracles, FindOracle, ListOracles, Resolve, AskOwner,
           AskHealth, AskAssociations
<1>4. ASSUME NEW q \in Reader, _authenticationMiddleware(q) \/ _enforcePrivilege(q) \/ CatchAll(q)
      PROVE  reply'[r] = reply[r]
  BY <1>1, <1>4 DEF _authenticationMiddleware, _enforcePrivilege, CatchAll, ReaderTypes
<1>5. ASSUME NEW q \in Reader, NEW i \in Instance,
             \/ GetListing(q, i) \/ GetOracles(q, i) \/ GetOracle(q, i)
             \/ getAccountLookUp(q, i) \/ healthCheck(q, i)
      PROVE  reply'[r] = reply[r]
  <2>1. step[q] = "idle" /\ q # r
    BY <1>5 DEF GetListing, GetOracles, GetOracle, getAccountLookUp, healthCheck, Get
  <2>2. \E answer : reply' = [reply EXCEPT ![q] = answer]
    BY <1>5 DEF GetListing, GetOracles, GetOracle, getAccountLookUp, healthCheck, Get, End
  <2>. QED
    BY <1>1, <2>1, <2>2 DEF ReaderTypes
<1>6. ASSUME NEW a \in Admin, AdminResumes(a) \/ AdminReadFails(a) \/ RefuseAdmin(a)
      PROVE  reply' = reply
  BY <1>6 DEF AdminResumes, AdminReadFails, RefuseAdmin, AdminReceives, readerVars
<1>7. ASSUME NEW a \in Admin, NEW i \in Instance,
             deleteOracle(a, i) \/ \E dto \in Candidates : createOracle(a, i, dto)
      PROVE  reply' = reply
  BY <1>7 DEF deleteOracle, createOracle, AdminReceives, readerVars
<1>8. ASSUME NEW i \in Instance, InstanceChanges(i)
      PROVE  reply' = reply
  BY <1>8 DEF InstanceChanges
<1>9. ASSUME AssociationChanges \/ UNCHANGED <<vars, apiVars>>
      PROVE  reply' = reply
  BY <1>9 DEF AssociationChanges, apiVars, readerVars
<1>. QED
  BY <1>2, <1>3, <1>4, <1>5, <1>6, <1>7, <1>8, <1>9 DEF ApiNext

(* The reply of a request that ends. *)
LEMMA EndReplies ==
    ASSUME ApiInv, NEW r \in Reader, NEW code, NEW answer, End(r, code, answer)
    PROVE  reply'[r].code = code /\ reply'[r].shown = answer
BY ReadersAreTyped DEF End, ReaderTypes

LEMMA NullMeansNobodyStep ==
    ASSUME ApiInv, [ApiNext]_<<vars, apiVars>>, NEW r \in Reader, Ends(r, {"lookup"}),
           participantLookUp(reply'[r].code) = "null"
    PROVE  /\ adapter[r] # Null
           /\ \A e \in kept[r] : ~SameParty(req[r].party, e)
<1>1. Answer(r) \/ ReadFails(r)
  BY OnlyItsOwnStepReplies DEF Ends
<1>2. req[r].kind = "lookup" /\ reply'[r].code = 404
  BY DEF Ends, participantLookUp
<1>3. ~ReadFails(r)
  BY <1>2, EndReplies DEF ReadFails
<1>4. ~Resolve(r)
  <2>1. SUFFICES ASSUME Resolve(r), Resolved(r) # Null
                 PROVE  FALSE
    BY <1>2, EndReplies DEF Resolve
  <2>2. reply' = reply /\ step[r] # "idle"
    BY <2>1 DEF Resolve, Await
  <2>. QED
    BY <1>2, <2>2 DEF ApiInv, ReaderInv, NoReply
<1>5. AskOwner(r)
  BY <1>1, <1>2, <1>3, <1>4
     DEF Answer, getAllOracles, FindOracle, ListOracles, AskHealth, AskAssociations, Listing
<1>6. step[r] = "ask" /\ \A e \in entries : ~SameParty(req[r].party, e)
  BY <1>2, <1>5, EndReplies DEF AskOwner
<1>. QED
  BY <1>6 DEF ApiInv, ReaderInv

(***************************************************************************)
(* Whatever admins, instances and associations do meanwhile, the client of   *)
(* a lookup is told null only when the built-in oracle had nobody for the    *)
(* party at some moment of the request.                                      *)
(***************************************************************************)
THEOREM NullIsNobody == ApiSpec => NullMeansNobody
<1>1. ApiInv /\ [ApiNext]_<<vars, apiVars>> =>
          [\A r \in Reader :
              Ends(r, {"lookup"}) /\ participantLookUp(reply'[r].code) = "null" =>
                  /\ adapter[r] # Null
                  /\ \A e \in kept[r] : ~SameParty(req[r].party, e)]_<<vars, apiVars>>
  BY NullMeansNobodyStep
<1>. QED
  BY ApiInvInit, ApiInvStep, <1>1, PTL DEF ApiSpec, NullMeansNobody

(* An answer of the loop of a listing is the last oracle's. *)
LEMMA NextOracleReplies ==
    ASSUME ApiInv, NEW r \in Reader, NEW oracles, NEW answer, NextOracle(r, oracles, answer),
           step[r] # "idle", reply'[r].code # 0
    PROVE  oracles = <<>> /\ reply'[r].shown = answer
<1>1. reply[r].code = 0
  BY DEF ApiInv, ReaderInv, NoReply
<1>2. oracles = <<>>
  BY <1>1 DEF NextOracle, Await
<1>. QED
  BY <1>2, EndReplies DEF NextOracle

LEMMA ListingStep ==
    ASSUME ApiInv, [ApiNext]_<<vars, apiVars>>, NEW r \in Reader, Ends(r, {"associations"}),
           reply'[r].code = 200,
           todo[r] # <<>> \/ \E o \in ToSet(docs) : o.type = "builtin"
    PROVE  kept[r] \subseteq reply'[r].shown
<1>1. Answer(r) \/ ReadFails(r)
  BY OnlyItsOwnStepReplies DEF Ends
<1>2. step[r] # "idle" /\ req[r].kind = "associations" /\ kept[r] \subseteq entries
  BY DEF Ends, ApiInv, ReaderInv
<1>3. ~ListOracles(r)
  <2>1. SUFFICES ASSUME ListOracles(r)
                 PROVE  FALSE
    OBVIOUS
  <2>. DEFINE relevant == {k \in DOMAIN docs :
                             req[r].kind = "associations" => docs[k].type = "builtin"}
  <2>2. step[r] = "find" /\ NextOracle(r, AtPlaces(docs, relevant), {})
    BY <2>1 DEF ListOracles
  <2>3. docs \in Seq(Oracle) /\ relevant \in SUBSET DOMAIN docs
    BY DEF ApiInv, ApiTypeOK, TypeOK
  <2>4. AtPlaces(docs, relevant) = <<>> /\ reply'[r].shown = {}
    BY <1>2, <2>2, NextOracleReplies
  <2>5. ToSet(AtPlaces(docs, relevant)) = {docs[k] : k \in relevant}
    <3>. HIDE DEF relevant
    <3>. QED
      BY <2>3, AtPlacesProperties
  <2>6. relevant = {}
    <3>. HIDE DEF relevant
    <3>1. {docs[k] : k \in relevant} = {}
      BY <2>4, <2>5, EmptyHasNone
    <3>2. \A k \in relevant : docs[k] \in {docs[j] : j \in relevant}
      OBVIOUS
    <3>. QED
      BY <3>1, <3>2
  <2>7. todo[r] = <<>>
    BY <2>2 DEF ApiInv, ReaderInv
  <2>8. PICK k \in DOMAIN docs : docs[k].type = "builtin"
    BY <2>7 DEF ToSet
  <2>. QED
    BY <2>6, <2>8
<1>4. ~Resolve(r)
  <2>1. SUFFICES ASSUME Resolve(r), Resolved(r) # Null
                 PROVE  FALSE
    BY EndReplies DEF Resolve
  <2>2. reply' = reply
    BY <2>1 DEF Resolve, Await
  <2>. QED
    BY <1>2, <2>2 DEF ApiInv, ReaderInv, NoReply
<1>5. ~ReadFails(r)
  BY <1>2, EndReplies DEF ReadFails
<1>6. AskAssociations(r)
  BY <1>1, <1>2, <1>3, <1>4, <1>5
     DEF Answer, getAllOracles, FindOracle, AskOwner, AskHealth
<1>7. NextOracle(r, Tail(todo[r]), entries)
  BY <1>2, <1>6, EndReplies DEF AskAssociations, Shows
<1>8. reply'[r].shown = entries
  BY <1>2, <1>7, NextOracleReplies
<1>. QED
  BY <1>2, <1>8

(***************************************************************************)
(* A list of the associations of built-in oracles that asked one of them     *)
(* shows all that were there the whole time, whatever happened to oracles,   *)
(* instances and associations meanwhile.                                     *)
(***************************************************************************)
THEOREM ListingsAreComplete == ApiSpec => ListingComplete
<1>1. ApiInv /\ [ApiNext]_<<vars, apiVars>> =>
          [\A r \in Reader :
              /\ Ends(r, {"associations"})
              /\ reply'[r].code = 200
              /\ todo[r] # <<>> \/ \E o \in ToSet(docs) : o.type = "builtin"
              => kept[r] \subseteq reply'[r].shown]_<<vars, apiVars>>
  BY ListingStep
<1>. QED
  BY ApiInvInit, ApiInvStep, <1>1, PTL DEF ApiSpec, ListingComplete

-----------------------------------------------------------------------------
(* What stays true of the registry, and what admins were told of it. *)

(* Here only reads fail, so one instance is all that OneInstance asks for. *)
OneServer == \A i, j \in Instance : i = j

LEMMA WritesSucceed == OneServer => OneInstance
BY RegistryAssumption, ApiAssumption DEF OneServer, OneInstance

LEMMA ApiUniqueStep ==
    ASSUME OneAdmin
    PROVE  UniqueInv /\ [ApiNext]_<<vars, apiVars>> /\ TypeInv' => UniqueInv'
<1>. SUFFICES ASSUME UniqueInv, [ApiNext]_<<vars, apiVars>>, TypeInv'
              PROVE  UniqueInv'
  OBVIOUS
<1>1. ASSUME NEW a \in Admin, ReadFailed(a)
      PROVE  UniqueInv'
  <2>1. Finish(a) /\ docs' = docs /\ used' = used /\ TypeOK
    BY <1>1 DEF ReadFailed, UniqueInv, TypeInv
  <2>2. NewInv' /\ UniqueRegistration'
    BY <2>1, FinishIsIdle, NewAfterFinish, UniqueKept
  <2>. QED
    BY <2>2 DEF UniqueInv
<1>. QED
  BY <1>1, RegistryStep, UniqueStep

LEMMA ApiAdapterStep ==
    ASSUME OneServer, OneAdmin
    PROVE  ServeInv /\ [ApiNext]_<<vars, apiVars>> /\ TypeInv' => ServeInv'
<1>. SUFFICES ASSUME ServeInv, [ApiNext]_<<vars, apiVars>>, TypeInv'
              PROVE  ServeInv'
  OBVIOUS
<1>1. ASSUME NEW a \in Admin, ReadFailed(a)
      PROVE  ServeInv'
  <2>1. Finish(a) /\ pc[a] # "add_init" /\ UNCHANGED <<docs, status, pending, adapters>>
    BY <1>1 DEF ReadFailed, instanceVars
  <2>2. AdapterInv'
    BY <2>1, AdaptersAfterFinish
  <2>3. UniqueInv'
    BY ApiUniqueStep DEF ServeInv
  <2>. QED
    BY <2>2, <2>3 DEF ServeInv
<1>. QED
  BY <1>1, RegistryStep, AdapterStep, WritesSucceed

(***************************************************************************)
(* Behind the interface, too, one administrator at a time registers no id    *)
(* and no name twice.                                                        *)
(***************************************************************************)
THEOREM ApiRegistersOnce == ASSUME OneAdmin PROVE ApiSpec => []UniqueRegistration
<1>1. ApiInit => UniqueInv
  BY UniqueInit DEF ApiInit
<1>2. ApiInv' => TypeInv'
  BY DEF ApiInv, ApiTypeOK, TypeInv
<1>3. UniqueInv /\ [ApiNext]_<<vars, apiVars>> /\ TypeInv' => UniqueInv'
  BY ApiUniqueStep
<1>4. UniqueInv => UniqueRegistration
  BY DEF UniqueInv
<1>. QED
  BY ApiInvInit, ApiInvStep, <1>1, <1>2, <1>3, <1>4, PTL DEF ApiSpec

(* What admins were told, and what the request in flight is about. *)
PromiseInv ==
    /\ \A o \in served : o \in ToSet(docs) /\ CanInit(o)
    /\ \A o \in ToSet(docs) : o.id \notin gone
    /\ \A a \in Admin : pc[a] # "idle" =>
          /\ arg[a].id \notin gone
          /\ \A o \in served : o.id # arg[a].id

LEMMA PromiseInvInit == ApiInit => PromiseInv
BY EmptyHasNone DEF ApiInit, Init, PromiseInv

(* Steps that neither admins nor the collection take part in. *)
LEMMA PromisesStay ==
    ASSUME PromiseInv, UNCHANGED <<docs, served, gone>>,
           \A a \in Admin : pc'[a] = "idle" \/ (pc'[a] = pc[a] /\ arg'[a] = arg[a])
    PROVE  PromiseInv'
BY DEF PromiseInv, CanInit

LEMMA PromiseStep ==
    ASSUME OneServer, OneAdmin
    PROVE  ApiInv /\ ServeInv /\ PromiseInv /\ [ApiNext]_<<vars, apiVars>> /\ TypeInv'
               => PromiseInv'
<1>. SUFFICES ASSUME ApiInv, ServeInv, PromiseInv, [ApiNext]_<<vars, apiVars>>, TypeInv'
              PROVE  PromiseInv'
  OBVIOUS
<1>0. /\ pc \in [Admin -> AdminSteps] /\ arg \in [Admin -> Oracle \cup {Null}]
      /\ docs \in Seq(Oracle) /\ TypeOK
  BY DEF ApiInv, ApiTypeOK, TypeOK
<1>1. CASE UNCHANGED <<vars, served, gone>>
  BY <1>1, PromisesStay DEF vars
<1>2. ASSUME NEW i \in Instance, InstanceChanges(i)
      PROVE  PromiseInv'
  <2>1. docs' = docs /\ UNCHANGED <<served, gone>> /\ (Halt(i) \/ UNCHANGED <<pc, arg>>)
    BY <1>2
       DEF InstanceChanges, InstanceStep, Crash, Start, InitAdapter, Serve, FailToStart, adminVars
  <2>. QED
    BY <1>0, <2>1, HaltIsIdle, PromisesStay
(* A step of an admin request that leaves the collection alone and promises  *)
(* nothing: what it is about is taken from what was promised.                *)
<1>3. ASSUME NEW a \in Admin, docs' = docs, AdminReceives(a, 0) \/ AdminReceives(a, 500)
      PROVE  PromiseInv'
  <2>1. /\ served' = {o \in served : arg'[a] = Null \/ o.id # arg'[a].id}
        /\ gone' = {id \in gone : arg'[a] = Null \/ id # arg'[a].id}
    BY <1>3 DEF AdminReceives
  <2>2. pc'[a] # "idle" => arg'[a] # Null
    BY NullAssumption DEF TypeInv, RequestInv
  <2>. QED
    BY <1>3, <2>1, <2>2 DEF PromiseInv, OneAdmin, CanInit
<1>4. ASSUME NEW a \in Admin, CheckId(a) \/ CheckName(a) \/ FindPresent(a),
             AdminReceives(a, 500)
      PROVE  PromiseInv'
  BY <1>3, <1>4 DEF CheckId, CheckName, FindPresent
<1>5. ASSUME NEW a \in Admin, InsertOracle(a), AdminReceives(a, 500)
      PROVE  PromiseInv'
  <2>1. /\ docs' = Append(docs, arg[a]) /\ arg' = arg /\ pc[a] = "add_insert"
        /\ pc' = [pc EXCEPT ![a] = "add_init"] /\ arg[a] \in Oracle
    BY <1>5 DEF InsertOracle, Goto, ApiInv, RequestInv
  <2>2. ToSet(docs') = ToSet(docs) \cup {arg[a]}
    BY <1>0, <2>1, ElementsAfterAppend
  <2>3. /\ served' = {o \in served : o.id # arg[a].id}
        /\ gone' = {id \in gone : id # arg[a].id}
    BY <1>5, <2>1, NullAssumption DEF AdminReceives
  <2>. QED
    BY <2>1, <2>2, <2>3 DEF PromiseInv, OneAdmin, CanInit
<1>6. ASSUME NEW a \in Admin, InitAdded(a), AdminReceives(a, Created(a))
      PROVE  PromiseInv'
  <2>1. docs' = docs /\ pc[a] = "add_init" /\ Finish(a) /\ arg[a] \in ToSet(docs)
    BY <1>6 DEF InitAdded, ServeInv, AdapterInv
  <2>2. CASE ~CanInit(arg[a])
    BY <1>3, <1>6, <2>1, <2>2 DEF Created
  <2>3. CASE CanInit(arg[a])
    <3>1. \A b \in Admin : pc'[b] = "idle"
      BY <1>0, <2>1 DEF Finish, OneAdmin
    <3>2. arg'[a] = Null /\ pc'[a] = "idle"
      BY <1>0, <2>1 DEF Finish
    <3>3. served' = served \cup {arg[a]} /\ gone' = gone
      BY <1>6, <2>1, <2>3, <3>2 DEF AdminReceives, Created
    <3>. QED
      BY <2>1, <2>3, <3>1, <3>3 DEF PromiseInv, CanInit
  <2>. QED
    BY <2>2, <2>3
<1>7. ASSUME NEW a \in Admin, FindRemoved(a), AdminReceives(a, 404)
      PROVE  PromiseInv'
  <2>1. docs' = docs /\ pc[a] = "remove_find"
    BY <1>7 DEF FindRemoved
  <2>2. CASE Goto(a, "remove_delete")
    <3>1. pc'[a] = "remove_delete"
      BY <1>0, <2>2 DEF Goto
    <3>2. AdminReceives(a, 0)
      BY <1>7, <3>1 DEF AdminReceives
    <3>. QED
      BY <1>3, <2>1, <3>2
  <2>3. CASE Finish(a) /\ ~getOracleById(arg[a].id)
    <3>1. \A b \in Admin : pc'[b] = "idle"
      BY <1>0, <2>3 DEF Finish, OneAdmin
    <3>2. arg'[a] = Null /\ pc'[a] = "idle"
      BY <1>0, <2>3 DEF Finish
    <3>3. served' = served /\ gone' = gone \cup {arg[a].id}
      BY <1>7, <2>1, <3>2 DEF AdminReceives
    <3>4. \A o \in ToSet(docs) : o.id # arg[a].id
      BY <2>3 DEF getOracleById, ToSet
    <3>. QED
      BY <2>1, <3>1, <3>3, <3>4 DEF PromiseInv, CanInit
  <2>. QED
    BY <1>7, <2>2, <2>3 DEF FindRemoved
<1>8. ASSUME NEW a \in Admin, DeleteOracle(a),
             AdminReceives(a, IF getOracleById(arg[a].id) THEN 200 ELSE 500)
      PROVE  PromiseInv'
  <2>1. pc[a] = "remove_delete" /\ Finish(a)
    BY <1>8 DEF DeleteOracle
  <2>2. CASE ~getOracleById(arg[a].id)
    BY <1>3, <1>8, <2>2 DEF DeleteOracle
  <2>3. CASE getOracleById(arg[a].id)
    <3>1. PICK n \in DOMAIN docs : docs[n].id = arg[a].id /\ docs' = RemoveAt(docs, n)
      BY <1>0, <1>8, <2>3, DeleteOneRemoves DEF DeleteOracle
    <3>2. /\ ToSet(docs') \subseteq ToSet(docs)
          /\ \A o \in ToSet(docs) : o # docs[n] => o \in ToSet(docs')
      BY <1>0, <3>1, ElementsAfterRemoveAt
    <3>3. \A o \in ToSet(docs') : o.id # arg[a].id
      <4>1. \A k \in DOMAIN docs' : \E j \in DOMAIN docs : j # n /\ docs'[k] = docs[j]
        BY <1>0, <3>1, UniqueAfterRemoveAt DEF ServeInv, UniqueInv
      <4>. QED
        BY <3>1, <4>1 DEF ServeInv, UniqueInv, UniqueRegistration, ToSet
    <3>4. \A b \in Admin : pc'[b] = "idle"
      BY <1>0, <2>1 DEF Finish, OneAdmin
    <3>5. arg'[a] = Null /\ pc'[a] = "idle"
      BY <1>0, <2>1 DEF Finish
    <3>6. served' = served /\ gone' = gone \cup {arg[a].id}
      BY <1>8, <2>1, <2>3, <3>5 DEF AdminReceives
    <3>7. \A o \in served : o.id # arg[a].id
      BY <2>1 DEF PromiseInv
    <3>. QED
      BY <3>1, <3>2, <3>3, <3>4, <3>6, <3>7 DEF PromiseInv, CanInit
  <2>. QED
    BY <2>2, <2>3
<1>9. ASSUME NEW a \in Admin, AdminReadFails(a)
      PROVE  PromiseInv'
  BY <1>3, <1>9 DEF AdminReadFails
<1>10. ASSUME NEW a \in Admin, NEW i \in Instance, deleteOracle(a, i)
       PROVE  PromiseInv'
  BY <1>3, <1>10 DEF deleteOracle, removeOracle, Begin
<1>11. ASSUME NEW a \in Admin, NEW i \in Instance, NEW dto \in Candidates, createOracle(a, i, dto)
       PROVE  PromiseInv'
  BY <1>1, <1>3, <1>11 DEF createOracle, addOracle, Begin
<1>12. ASSUME NEW r \in Reader,
              \/ Answer(r) \/ ReadFails(r)
              \/ _authenticationMiddleware(r) \/ _enforcePrivilege(r) \/ CatchAll(r)
       PROVE  UNCHANGED <<vars, served, gone>>
  BY <1>12
     DEF Answer, ReadFails, getAllOracles, FindOracle, ListOracles, Resolve, AskOwner, AskHealth,
         AskAssociations, _authenticationMiddleware, _enforcePrivilege, CatchAll, RegistryUnchanged
<1>13. ASSUME NEW r \in Reader, NEW i \in Instance,
              \/ GetListing(r, i) \/ GetOracles(r, i) \/ GetOracle(r, i)
              \/ getAccountLookUp(r, i) \/ healthCheck(r, i)
       PROVE  UNCHANGED <<vars, served, gone>>
  BY <1>13
     DEF GetListing, GetOracles, GetOracle, getAccountLookUp, healthCheck, Get, RegistryUnchanged
<1>14. ASSUME NEW a \in Admin, RefuseAdmin(a)
       PROVE  UNCHANGED <<vars, served, gone>>
  BY <1>14 DEF RefuseAdmin
<1>15. ASSUME AssociationChanges \/ UNCHANGED <<vars, apiVars>>
       PROVE  UNCHANGED <<vars, served, gone>>
  BY <1>15 DEF AssociationChanges, apiVars
<1>. QED
  BY <1>1, <1>2, <1>4, <1>5, <1>6, <1>7, <1>8, <1>9, <1>10, <1>11, <1>12, <1>13, <1>14, <1>15
     DEF ApiNext, AdminResumes

(* With unique ids and an adapter for whatever can be initialised, nothing   *)
(* that was promised is missing.                                             *)
LEMMA PromisesAreKept ==
    ASSUME ServeInv, PromiseInv
    PROVE  PromisesKept
<1>1. ASSUME NEW o \in served, NEW i \in Instance, status[i] = "up"
      PROVE  o \in ToSet(adapters[i])
  BY <1>1 DEF ServeInv, AdapterInv, PromiseInv
<1>2. ASSUME NEW i \in Instance
      PROVE  ToSet(adapters[i]) \subseteq ToSet(docs)
  BY <1>2 DEF ServeInv, AdapterInv
<1>. QED
  BY <1>1, <1>2 DEF PromiseInv, PromisesKept

(***************************************************************************)
(* One instance and one administrator at a time: an acknowledged creation is *)
(* stored and served until it is deleted, and an acknowledged deletion       *)
(* leaves neither oracle nor adapter, through crashes, restarts and failing  *)
(* reads.                                                                    *)
(***************************************************************************)
THEOREM AdminsAreToldTheTruth == ASSUME OneServer, OneAdmin PROVE ApiSpec => []PromisesKept
<1>1. ApiInit => ServeInv
  BY AdapterInit DEF ApiInit
<1>2. ApiInv' => TypeInv'
  BY DEF ApiInv, ApiTypeOK, TypeInv
<1>3. ServeInv /\ [ApiNext]_<<vars, apiVars>> /\ TypeInv' => ServeInv'
  BY ApiAdapterStep
<1>4. ApiInv /\ ServeInv /\ PromiseInv /\ [ApiNext]_<<vars, apiVars>> /\ TypeInv' => PromiseInv'
  BY PromiseStep
<1>5. ServeInv /\ PromiseInv => PromisesKept
  BY PromisesAreKept
<1>. QED
  BY ApiInvInit, ApiInvStep, PromiseInvInit, <1>1, <1>2, <1>3, <1>4, <1>5, PTL DEF ApiSpec

(* Calm requests have an adapter for whatever oracle comes next. *)
LEMMA CalmListingsResolve ==
    ASSUME ApiInv, ServeInv
    PROVE  CalmListingSucceeds
<1>. SUFFICES ASSUME NEW r \in Reader, calm[r], step[r] = "resolve", req[r].kind \in Listing,
                     \A o \in ToSet(docs) : o.type = "builtin"
              PROVE  Resolved(r) # Null
  BY DEF CalmListingSucceeds
<1>. DEFINE about == Head(todo[r])
<1>1. /\ Quiescent /\ status[req[r].at] = "up" /\ req[r].at \in Instance
      /\ todo[r] \in Seq(Oracle) /\ todo[r] # <<>> /\ docs \in Seq(Oracle)
      /\ ToSet(todo[r]) \subseteq ToSet(docs)
  BY DEF ApiInv, ApiTypeOK, TypeOK, ReaderInv, CalmInv, Request
<1>2. about \in ToSet(docs) /\ about \in Oracle
  BY <1>1, HeadTailProperties, ElementsOfTail
<1>3. about.partyType \in PartyType /\ about.currency \in Currency \cup Absent
  BY <1>2 DEF Oracle, AddOracleDTO
<1>4. Resolved(r) = _getOracleAdapter(req[r].at, about.partyType, about.currency)
  BY DEF Resolved, Listing
<1>. HIDE DEF about
<1>. DEFINE pt == about.partyType
            cur == about.currency
            oracle == getOracle(pt, cur)
<1>5. PICK k \in DOMAIN docs : docs[k] = about
  BY <1>2 DEF ToSet
<1>6. oracle \in ToSet(docs)
  <2>1. Exact(pt, cur) # {} /\ Exact(pt, cur) \subseteq DOMAIN docs
    BY <1>5 DEF Exact
  <2>2. Exact(pt, cur) \subseteq Nat
    BY <1>1, <2>1
  <2>3. Min(Exact(pt, cur)) \in DOMAIN docs
    BY <2>1, <2>2, MinOf
  <2>. QED
    BY <2>1, <2>3 DEF getOracle, ToSet
<1>7. oracle # Null /\ CanInit(oracle)
  <2>1. oracle \in Oracle /\ oracle.type = "builtin"
    BY <1>1, <1>6 DEF ToSet
  <2>. QED
    BY <2>1, NullAssumption DEF CanInit
<1>8. _getOracleAdapter(req[r].at, pt, cur) = oracle
  <2>1. ResolvesToRegistered
    BY ServeInvResolves
  <2>. QED
    BY <1>1, <1>3, <1>7, <2>1 DEF ResolvesToRegistered
<1>. QED
  BY <1>4, <1>7, <1>8

(***************************************************************************)
(* One instance and one administrator at a time: a listing that nobody       *)
(* interfered with finds an adapter for each built-in oracle it goes through.*)
(***************************************************************************)
THEOREM CalmListingsSucceed == ASSUME OneServer, OneAdmin PROVE ApiSpec => []CalmListingSucceeds
<1>1. ApiInit => ServeInv
  BY AdapterInit DEF ApiInit
<1>2. ApiInv' => TypeInv'
  BY DEF ApiInv, ApiTypeOK, TypeInv
<1>3. ServeInv /\ [ApiNext]_<<vars, apiVars>> /\ TypeInv' => ServeInv'
  BY ApiAdapterStep
<1>4. ApiInv /\ ServeInv => CalmListingSucceeds
  BY CalmListingsResolve
<1>. QED
  BY ApiInvInit, ApiInvStep, <1>1, <1>2, <1>3, <1>4, PTL DEF ApiSpec

(***************************************************************************)
(* And the registry behind the interface keeps what it keeps alone, though   *)
(* here the reads of admin requests may fail: no adapter of an oracle that   *)
(* was removed.                                                              *)
(***************************************************************************)
THEOREM ApiLeavesNoAdapter == ASSUME OneServer, OneAdmin PROVE ApiSpec => []NoOrphanAdapter
<1>1. ApiInit => ServeInv
  BY AdapterInit DEF ApiInit
<1>2. ApiInv' => TypeInv'
  BY DEF ApiInv, ApiTypeOK, TypeInv
<1>3. ServeInv /\ [ApiNext]_<<vars, apiVars>> /\ TypeInv' => ServeInv'
  BY ApiAdapterStep
<1>4. ServeInv => NoOrphanAdapter
  BY DEF ServeInv, AdapterInv, NoOrphanAdapter
<1>. QED
  BY ApiInvInit, ApiInvStep, <1>1, <1>2, <1>3, <1>4, PTL DEF ApiSpec

(***************************************************************************)
(* Nor, between the requests of admins, another adapter than the one of the  *)
(* registration that a party type and a currency resolve to.                 *)
(***************************************************************************)
THEOREM ApiServesAsRegistered ==
    ASSUME OneServer, OneAdmin PROVE ApiSpec => []ResolvesToRegistered
<1>1. ApiInit => ServeInv
  BY AdapterInit DEF ApiInit
<1>2. ApiInv' => TypeInv'
  BY DEF ApiInv, ApiTypeOK, TypeInv
<1>3. ServeInv /\ [ApiNext]_<<vars, apiVars>> /\ TypeInv' => ServeInv'
  BY ApiAdapterStep
<1>. QED
  BY ApiInvInit, ApiInvStep, <1>1, <1>2, <1>3, ServeInvResolves, PTL DEF ApiSpec

=============================================================================

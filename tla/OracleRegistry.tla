---------------------------- MODULE OracleRegistry ----------------------------
(***************************************************************************)
(* Which oracles exist and which adapters serve them.  The oracles are      *)
(* documents of one Mongo collection (MongoOracleFinderRepo) shared by all  *)
(* service instances; every instance keeps its own list of adapters in      *)
(* memory (AccountLookupAggregate._oracleProvidersAdapters), filled from    *)
(* the collection at start and maintained by addOracle and removeOracle.    *)
(*                                                                         *)
(* Every await of the two operations and of init is a step of its own.      *)
(***************************************************************************)
EXTENDS Naturals, Sequences, FiniteSets, SequencesExt

CONSTANTS Instance, Admin,     \* service instances; admin requests in flight
          Id, Name, PartyType, Currency, Endpoint,
          Null, Undefined,     \* the code's null, and a property that is not there
          Candidates,          \* the AddOracleDTOs that admins send
          MayFail,             \* whether Mongo and Redis calls may fail
          MaxOps,              \* bound: admin requests of a run
          MaxStops             \* bound: crashes and failed starts

Absent == {Null, Undefined}

OracleType == {"builtin", "remote-http", "unsupported"}

AddOracleDTO == [id : Id \cup {Null}, name : Name, type : OracleType,
                 partyType : PartyType, currency : Currency \cup Absent,
                 endpoint : Endpoint \cup {Null}]

Oracle == {o \in AddOracleDTO : o.id # Null}

ASSUME RegistryAssumption ==
    /\ Null \notin Id \cup Currency \cup Endpoint
    /\ Undefined \notin Currency \cup {Null}
    /\ Candidates \subseteq AddOracleDTO
    /\ MayFail \in BOOLEAN
    /\ MaxOps \in Nat
    /\ MaxStops \in Nat

ASSUME NullAssumption == Null \notin Oracle

VARIABLES
    docs,       \* the collection, in natural order
    status,     \* of each instance: "down", "starting" or "up"
    pending,    \* the oracles a starting instance has still to initialise
    adapters,   \* the adapters of each instance, with the oracle each was made for
    pc,         \* the await each admin request is suspended at
    arg,        \* the oracle it is about
    at,         \* the instance that serves it
    used,       \* history: ids that were given out, so that a UUID is new
    ops, stops  \* counters for the bounds

vars == <<docs, status, pending, adapters, pc, arg, at, used, ops, stops>>

AdminSteps == {"idle", "add_check_id", "add_check_name", "add_find", "add_insert",
               "add_init", "remove_find", "remove_delete"}

TypeOK ==
    /\ docs \in Seq(Oracle)
    /\ status \in [Instance -> {"down", "starting", "up"}]
    /\ pending \in [Instance -> Seq(Oracle)]
    /\ adapters \in [Instance -> Seq(Oracle)]
    /\ pc \in [Admin -> AdminSteps]
    /\ arg \in [Admin -> Oracle \cup {Null}]
    /\ at \in [Admin -> Instance \cup {Null}]
    /\ used \subseteq Id
    /\ ops \in Nat
    /\ stops \in Nat

Init ==
    /\ docs = <<>>
    /\ status = [i \in Instance |-> "down"]
    /\ pending = [i \in Instance |-> <<>>]
    /\ adapters = [i \in Instance |-> <<>>]
    /\ pc = [a \in Admin |-> "idle"]
    /\ arg = [a \in Admin |-> Null]
    /\ at = [a \in Admin |-> Null]
    /\ used = {}
    /\ ops = 0
    /\ stops = 0

instanceVars == <<status, pending, adapters, stops>>
adminVars == <<pc, arg, at>>

-----------------------------------------------------------------------------
(* Finding an oracle. *)

getOracleById(id) == \E k \in DOMAIN docs : docs[k].id = id

getOracleByName(name) == \E k \in DOMAIN docs : docs[k].name = name

(* What a sequence has at some of its places, in their order. *)
AtPlaces(s, places) ==
    LET nth(n) == CHOOSE k \in places : Cardinality({j \in places : j <= k}) = n
    IN  [n \in 1..Cardinality(places) |-> s[nth(n)]]

(* The places in docs of the oracles of a party type with exactly this       *)
(* currency, and with any other one.  A currency that is null differs from   *)
(* one that is missing.                                                      *)
Exact(pt, cur) == {k \in DOMAIN docs : docs[k].partyType = pt /\ docs[k].currency = cur}

Other(pt, cur) == {k \in DOMAIN docs : docs[k].partyType = pt /\ docs[k].currency # cur}

(* As getOracle, taking the latest match (pop instead of shift). *)
LatestOracle(pt, cur) ==
    IF Exact(pt, cur) # {} THEN docs[Max(Exact(pt, cur))]
    ELSE IF Other(pt, cur) # {} THEN docs[Max(Other(pt, cur))]
    ELSE Null

(* The first oracle of the party type with exactly this currency, else the   *)
(* first one of any other currency.                                          *)
getOracle(pt, cur) ==
    IF Exact(pt, cur) # {} THEN docs[Min(Exact(pt, cur))]
    ELSE IF Other(pt, cur) # {} THEN docs[Min(Other(pt, cur))]
    ELSE Null

(* The first adapter of instance i that was made for an oracle of this id. *)
AdapterOf(i, id) ==
    LET serves == {k \in DOMAIN adapters[i] : adapters[i][k].id = id}
    IN  IF serves = {} THEN Null ELSE adapters[i][Min(serves)]

(* The adapter that instance i uses for it; Null stands for the errors. *)
_getOracleAdapter(i, pt, cur) ==
    LET oracle == getOracle(pt, cur)
    IN  IF oracle = Null THEN Null ELSE AdapterOf(i, oracle.id)

(* HttpOracleProvider.init throws without an endpoint. *)
CanInit(o) == o.type = "remote-http" => o.endpoint # Null

-----------------------------------------------------------------------------
(* Life of an instance: AccountLookupAggregate.init, then serving. *)

(* getAllOracles: a snapshot of the collection *)
Start(i) ==
    /\ status[i] = "down"
    /\ status' = [status EXCEPT ![i] = "starting"]
    /\ pending' = [pending EXCEPT ![i] = docs]
    /\ UNCHANGED <<docs, adapters, stops, adminVars, used, ops>>

(* As InitAdapter, without the push onto the list. *)
InitWithoutPush(i) ==
    /\ status[i] = "starting"
    /\ pending[i] # <<>>
    /\ pending' = [pending EXCEPT ![i] = Tail(@)]
    /\ UNCHANGED <<docs, status, adapters, stops, adminVars, used, ops>>

InitAdapter(i) ==
    /\ status[i] = "starting"
    /\ pending[i] # <<>>
    /\ CanInit(Head(pending[i]))
    /\ adapters' = [adapters EXCEPT ![i] = Append(@, Head(pending[i]))]
    /\ pending' = [pending EXCEPT ![i] = Tail(@)]
    /\ UNCHANGED <<docs, status, stops, adminVars, used, ops>>

Serve(i) ==
    /\ status[i] = "starting"
    /\ pending[i] = <<>>
    /\ status' = [status EXCEPT ![i] = "up"]
    /\ UNCHANGED <<docs, pending, adapters, stops, adminVars, used, ops>>

(* The process ends: its adapters and the requests it serves are gone. *)
Halt(i) ==
    /\ status' = [status EXCEPT ![i] = "down"]
    /\ pending' = [pending EXCEPT ![i] = <<>>]
    /\ adapters' = [adapters EXCEPT ![i] = <<>>]
    /\ pc' = [a \in Admin |-> IF at[a] = i THEN "idle" ELSE pc[a]]
    /\ arg' = [a \in Admin |-> IF at[a] = i THEN Null ELSE arg[a]]
    /\ at' = [a \in Admin |-> IF at[a] = i THEN Null ELSE at[a]]

(* As FailToStart, trying the same oracle again. *)
RetryInit(i) ==
    /\ status[i] = "starting"
    /\ pending[i] # <<>>
    /\ ~CanInit(Head(pending[i]))
    /\ UNCHANGED vars

(* init of an adapter throws, and so does the start of the service *)
FailToStart(i) ==
    /\ status[i] = "starting"
    /\ pending[i] # <<>>
    /\ ~CanInit(Head(pending[i]))
    /\ Halt(i)
    /\ UNCHANGED <<docs, stops, used, ops>>

(* A crash at any time, or a start that fails for want of Mongo or Redis. *)
Crash(i) ==
    /\ status[i] # "down"
    /\ stops < MaxStops
    /\ stops' = stops + 1
    /\ Halt(i)
    /\ UNCHANGED <<docs, used, ops>>

-----------------------------------------------------------------------------
(* Admin requests. *)

Goto(a, step) ==
    /\ pc' = [pc EXCEPT ![a] = step]
    /\ UNCHANGED <<arg, at>>

Finish(a) ==
    /\ pc' = [pc EXCEPT ![a] = "idle"]
    /\ arg' = [arg EXCEPT ![a] = Null]
    /\ at' = [at EXCEPT ![a] = Null]

Begin(a, i, step, o) ==
    /\ pc[a] = "idle"
    /\ status[i] = "up"
    /\ ops < MaxOps
    /\ ops' = ops + 1
    /\ pc' = [pc EXCEPT ![a] = step]
    /\ arg' = [arg EXCEPT ![a] = o]
    /\ at' = [at EXCEPT ![a] = i]
    /\ used' = used \cup {o.id}
    /\ UNCHANGED <<docs, instanceVars>>

(* An awaited call rejects and the request fails. *)
Throw(a) ==
    /\ MayFail
    /\ pc[a] # "idle"
    /\ Finish(a)
    /\ UNCHANGED <<docs, instanceVars, used, ops>>

(* As addOracle, without drawing a UUID. *)
AddWithoutId(a, i, dto) ==
    Begin(a, i, IF dto.id = Null THEN "add_check_name" ELSE "add_check_id", dto)

(* addOracle: with an id, it must be new; without one, a UUID is drawn. *)
addOracle(a, i, dto) ==
    \/ /\ dto.id # Null
       /\ Begin(a, i, "add_check_id", dto)
    \/ /\ dto.id = Null
       /\ \E id \in Id \ used : Begin(a, i, "add_check_name", [dto EXCEPT !.id = id])

CheckId(a) ==
    /\ pc[a] = "add_check_id"
    /\ \/ getOracleById(arg[a].id) /\ Finish(a)
       \/ ~getOracleById(arg[a].id) /\ Goto(a, "add_check_name")
    /\ UNCHANGED <<docs, instanceVars, used, ops>>

(* As CheckName, without the check of the name. *)
SkipNameCheck(a) ==
    /\ pc[a] = "add_check_name"
    /\ arg[a].type # "unsupported"
    /\ Goto(a, "add_find")
    /\ UNCHANGED <<docs, instanceVars, used, ops>>

(* The name must be new too.  Before the next await the endpoint of a        *)
(* built-in oracle is cleared, and the factory refuses an unknown type.      *)
CheckName(a) ==
    LET oracle == IF arg[a].type = "builtin" THEN [arg[a] EXCEPT !.endpoint = Null]
                                             ELSE arg[a]
    IN
    /\ pc[a] = "add_check_name"
    /\ \/ /\ getOracleByName(arg[a].name) \/ arg[a].type = "unsupported"
          /\ Finish(a)
       \/ /\ ~getOracleByName(arg[a].name)
          /\ arg[a].type # "unsupported"
          /\ pc' = [pc EXCEPT ![a] = "add_find"]
          /\ arg' = [arg EXCEPT ![a] = oracle]
          /\ UNCHANGED at
    /\ UNCHANGED <<docs, instanceVars, used, ops>>

(* The finder's own check compares everything but the currency. *)
FindPresent(a) ==
    LET present == \E k \in DOMAIN docs :
            [docs[k] EXCEPT !.currency = Null] = [arg[a] EXCEPT !.currency = Null]
    IN
    /\ pc[a] = "add_find"
    /\ \/ present /\ Finish(a)
       \/ ~present /\ Goto(a, "add_insert")
    /\ UNCHANGED <<docs, instanceVars, used, ops>>

InsertOracle(a) ==
    /\ pc[a] = "add_insert"
    /\ docs' = Append(docs, arg[a])
    /\ Goto(a, "add_init")
    /\ UNCHANGED <<instanceVars, used, ops>>

(* adapter.init and the push onto the list *)
InitAdded(a) ==
    /\ pc[a] = "add_init"
    /\ \/ /\ CanInit(arg[a])
          /\ adapters' = [adapters EXCEPT ![at[a]] = Append(@, arg[a])]
       \/ /\ ~CanInit(arg[a])
          /\ UNCHANGED adapters
    /\ Finish(a)
    /\ UNCHANGED <<docs, status, pending, stops, used, ops>>

(* removeOracle of an id that is, or was, in use *)
removeOracle(a, i) ==
    \E o \in ToSet(docs) \cup ToSet(adapters[i]) : Begin(a, i, "remove_find", o)

FindRemoved(a) ==
    /\ pc[a] = "remove_find"
    /\ \/ getOracleById(arg[a].id) /\ Goto(a, "remove_delete")
       \/ ~getOracleById(arg[a].id) /\ Finish(a)
    /\ UNCHANGED <<docs, instanceVars, used, ops>>

(* The first oracle of this id leaves the collection. *)
DeleteOne(id) == docs' = RemoveAt(docs, Min({k \in DOMAIN docs : docs[k].id = id}))

(* The oracles of a sequence that have another id. *)
Without(s, id) == AtPlaces(s, {k \in DOMAIN s : s[k].id # id})

(* As DeleteOracle, leaving the adapters alone. *)
KeepAdapters(a) ==
    /\ pc[a] = "remove_delete"
    /\ getOracleById(arg[a].id)
    /\ DeleteOne(arg[a].id)
    /\ Finish(a)
    /\ UNCHANGED <<status, pending, adapters, stops, used, ops>>

(* deleteOne by id; the adapters of that id are dropped only when it reports *)
(* a deletion.                                                               *)
DeleteOracle(a) ==
    /\ pc[a] = "remove_delete"
    /\ \/ /\ getOracleById(arg[a].id)
          /\ DeleteOne(arg[a].id)
          /\ \/ adapters' = [adapters EXCEPT ![at[a]] = Without(@, arg[a].id)]
             \/ MayFail /\ UNCHANGED adapters
       \/ /\ ~getOracleById(arg[a].id)
          /\ UNCHANGED <<docs, adapters>>
    /\ Finish(a)
    /\ UNCHANGED <<status, pending, stops, used, ops>>

-----------------------------------------------------------------------------
InstanceStep(i) == Start(i) \/ InitAdapter(i) \/ Serve(i) \/ FailToStart(i)

AdminStep(a) ==
    \/ CheckId(a)
    \/ CheckName(a)
    \/ FindPresent(a)
    \/ InsertOracle(a)
    \/ InitAdded(a)
    \/ FindRemoved(a)
    \/ DeleteOracle(a)

Next ==
    \/ \E i \in Instance : InstanceStep(i) \/ Crash(i)
    \/ \E a \in Admin : AdminStep(a) \/ Throw(a)
    \/ \E a \in Admin, i \in Instance :
          removeOracle(a, i) \/ \E dto \in Candidates : addOracle(a, i, dto)

Spec == Init /\ [][Next]_vars

(* A service that is down is started again, and its awaits settle. *)
FairSpec ==
    /\ Spec
    /\ \A i \in Instance : WF_vars(InstanceStep(i))
    /\ \A a \in Admin : WF_vars(AdminStep(a))

-----------------------------------------------------------------------------
Quiescent == \A a \in Admin : pc[a] = "idle"

(***************************************************************************)
(* addOracle refuses a taken id and a taken name: no two oracles of the      *)
(* collection share either.                                                  *)
(***************************************************************************)
UniqueRegistration ==
    \A j, k \in DOMAIN docs :
        docs[j].id = docs[k].id \/ docs[j].name = docs[k].name => j = k

(***************************************************************************)
(* Between admin requests, an instance that is up has an adapter for the     *)
(* oracle that a party type and currency resolve to, made for exactly that   *)
(* registration (endpoint included), unless the oracle was stored although   *)
(* its adapter cannot be initialised.                                        *)
(***************************************************************************)
ResolvesToRegistered ==
    Quiescent => \A i \in Instance, pt \in PartyType, cur \in Currency \cup Absent :
        LET oracle == getOracle(pt, cur) IN
        status[i] = "up" /\ oracle # Null /\ CanInit(oracle) =>
            _getOracleAdapter(i, pt, cur) = oracle

(***************************************************************************)
(* Between admin requests no adapter outlives its oracle: removeOracle, and  *)
(* an addOracle that fails half way, leave no adapter that is not in the     *)
(* collection.                                                               *)
(***************************************************************************)
NoOrphanAdapter ==
    Quiescent => \A i \in Instance : ToSet(adapters[i]) \subseteq ToSet(docs)

(***************************************************************************)
(* Registering an oracle never redirects requests that are served by an      *)
(* oracle of their own currency: what was associated there stays visible.    *)
(***************************************************************************)
StableRouting ==
    [][\A pt \in PartyType, cur \in Currency :
          LET oracle == getOracle(pt, cur) IN
          /\ oracle # Null
          /\ oracle.currency = cur
          /\ Len(docs') > Len(docs)
          => getOracle(pt, cur)' = oracle]_vars

(***************************************************************************)
(* An oracle that cannot be initialised keeps instances from starting only   *)
(* as long as it is registered: once the collection is good for ever, each   *)
(* instance is in the end up for good, also one that crashed before or read  *)
(* the collection too early, as its crashes are bounded.                     *)
(***************************************************************************)
EventuallyUp ==
    <>[](\A o \in ToSet(docs) : CanInit(o)) => <>[](\A i \in Instance : status[i] = "up")

=============================================================================

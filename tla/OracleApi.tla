------------------------------ MODULE OracleApi ------------------------------
(***************************************************************************)
(* The HTTP interface of the service on top of OracleRegistry: the routes    *)
(* for admins (OracleAdminExpressRoutes) and for other services              *)
(* (AccountLookupExpressRoutes), the aggregate's reading operations behind   *)
(* them, and AccountLookupHttpClient, which other services call it with.     *)
(*                                                                         *)
(* A Reader is a GET request in flight.  Between its awaits admins change    *)
(* the oracles, the instance may end, and associations come and go.  Remote  *)
(* oracles are taken to be the http-oracle-svc of this repository.           *)
(***************************************************************************)
EXTENDS OracleRegistry

CONSTANTS Reader,
          MaxChanges      \* bound: changes of the stored associations

(* Reads may fail here; OracleRegistry by itself lets the writes fail too.   *)
ASSUME ApiAssumption == ~MayFail /\ MaxChanges \in Nat

(* What the collection that all built-in oracles share holds, of one party:  *)
(* the party type and the currency it was associated under.                  *)
Entry == [partyType : PartyType, currency : Currency \cup {Null}]

Listing == {"associations", "search", "keywords"}
Kind == Listing \cup {"oracles", "oracle", "health", "lookup"}

(* A request names an oracle (health, oracle) or a party (lookup), whose     *)
(* currency may be left out.                                                 *)
Request == [kind : Kind, at : Instance, id : Id \cup {Null}, party : Entry \cup {Null}]

Reply == [code : {0, 200, 401, 403, 404, 500}, shown : SUBSET Entry]

VARIABLES
    entries,   \* the collection of the built-in oracles
    step,      \* the await each reader's request is suspended at
    req,       \* what it asks for
    todo,      \* the oracles its loop has still to ask
    adapter,   \* the adapter it is waiting for
    reply,     \* how its last request ended: the status, the entries it lists
    receipt,   \* the status that the last request of each admin ended with
    changes,   \* counter for the bound
    kept,      \* history: the entries that were there all the time
    calm,      \* history: no admin and no instance interfered
    served,    \* history: oracles whose creation was acknowledged, not removed since
    gone       \* history: ids whose deletion was answered, not created since

readerVars == <<step, req, todo, adapter, reply>>
apiVars == <<entries, readerVars, receipt, changes, kept, calm, served, gone>>

ApiTypeOK ==
    /\ TypeOK
    /\ entries \subseteq Entry
    /\ step \in [Reader -> {"idle", "find", "resolve", "ask"}]
    /\ req \in [Reader -> Request \cup {Null}]
    /\ todo \in [Reader -> Seq(Oracle)]
    /\ adapter \in [Reader -> Oracle \cup {Null}]
    /\ reply \in [Reader -> Reply]
    /\ receipt \in [Admin -> {0, 200, 401, 403, 404, 422, 500}]
    /\ changes \in Nat
    /\ kept \in [Reader -> SUBSET Entry]
    /\ calm \in [Reader -> BOOLEAN]
    /\ served \subseteq Oracle
    /\ gone \subseteq Id

NoReply == [code |-> 0, shown |-> {}]

ApiInit ==
    /\ Init
    /\ entries = Entry
    /\ step = [r \in Reader |-> "idle"]
    /\ req = [r \in Reader |-> Null]
    /\ todo = [r \in Reader |-> <<>>]
    /\ adapter = [r \in Reader |-> Null]
    /\ reply = [r \in Reader |-> NoReply]
    /\ receipt = [a \in Admin |-> 0]
    /\ changes = 0
    /\ kept = [r \in Reader |-> {}]
    /\ calm = [r \in Reader |-> FALSE]
    /\ served = {}
    /\ gone = {}

RegistryUnchanged == UNCHANGED <<vars, entries, receipt, changes, served, gone>>
HistoryUnchanged == UNCHANGED <<kept, calm>>

-----------------------------------------------------------------------------
(* How a request ends and goes on. *)

(* As participantLookUp, returning null for every status but 200 and 403. *)
NullOtherwise(code) ==
    CASE code = 200 -> "owner" [] code = 403 -> "ForbiddenError" [] OTHER -> "null"

(* What the client makes of the status.  The 401 of the middleware has a     *)
(* body that is not JSON, which is an error of its own.                      *)
participantLookUp(code) ==
    CASE code = 200 -> "owner"
      [] code = 403 -> "ForbiddenError"
      [] code = 404 -> "null"
      [] OTHER -> "UnableToGetFspIdError"

End(r, code, entriesShown) ==
    /\ step' = [step EXCEPT ![r] = "idle"]
    /\ req' = [req EXCEPT ![r] = Null]
    /\ todo' = [todo EXCEPT ![r] = <<>>]
    /\ adapter' = [adapter EXCEPT ![r] = Null]
    /\ reply' = [reply EXCEPT ![r] = [code |-> code, shown |-> entriesShown]]
    /\ kept' = [kept EXCEPT ![r] = {}]
    /\ calm' = [calm EXCEPT ![r] = FALSE]

Await(r, next) ==
    /\ step' = [step EXCEPT ![r] = next]
    /\ UNCHANGED <<req, reply>>
    /\ HistoryUnchanged

(* As NextOracle, without asking the last oracle. *)
SkipLastOracle(r, oracles, answer) ==
    IF Len(oracles) < 2
    THEN End(r, 200, answer)
    ELSE /\ Await(r, "resolve")
         /\ todo' = [todo EXCEPT ![r] = oracles]
         /\ adapter' = [adapter EXCEPT ![r] = Null]

(* The loop of a listing: each oracle's answer replaces the one before it.   *)
NextOracle(r, oracles, answer) ==
    IF oracles = <<>>
    THEN End(r, 200, answer)
    ELSE /\ Await(r, "resolve")
         /\ todo' = [todo EXCEPT ![r] = oracles]
         /\ adapter' = [adapter EXCEPT ![r] = Null]

-----------------------------------------------------------------------------
(* GET requests. *)

(* The middleware finds no security context, or the handler no privilege     *)
(* (of which a request for the health of an oracle needs none).              *)
_authenticationMiddleware(r) ==
    /\ step[r] = "idle"
    /\ \E i \in Instance : status[i] = "up"
    /\ reply' = [reply EXCEPT ![r] = [NoReply EXCEPT !.code = 401]]
    /\ UNCHANGED <<step, req, todo, adapter>>
    /\ HistoryUnchanged
    /\ RegistryUnchanged

_enforcePrivilege(r) ==
    /\ step[r] = "idle"
    /\ \E i \in Instance : status[i] = "up"
    /\ reply' = [reply EXCEPT ![r] = [NoReply EXCEPT !.code = 403]]
    /\ UNCHANGED <<step, req, todo, adapter>>
    /\ HistoryUnchanged
    /\ RegistryUnchanged

(* No route takes the request, and the catch-all answers it.  So it goes      *)
(* with a lookup of the client whose party id is not what it seems in a URL  *)
(* (it has a slash, say), as the client does not encode it.                  *)
CatchAll(r) ==
    /\ step[r] = "idle"
    /\ \E i \in Instance : status[i] = "up"
    /\ reply' = [reply EXCEPT ![r] = [NoReply EXCEPT !.code = 404]]
    /\ UNCHANGED <<step, req, todo, adapter>>
    /\ HistoryUnchanged
    /\ RegistryUnchanged

(* An authorised request runs up to the first await of the aggregate.        *)
Get(r, i, kind, id, party, next, ad) ==
    /\ step[r] = "idle"
    /\ status[i] = "up"
    /\ step' = [step EXCEPT ![r] = next]
    /\ req' = [req EXCEPT ![r] = [kind |-> kind, at |-> i, id |-> id, party |-> party]]
    /\ adapter' = [adapter EXCEPT ![r] = ad]
    /\ reply' = [reply EXCEPT ![r] = NoReply]
    /\ kept' = [kept EXCEPT ![r] = entries]
    /\ calm' = [calm EXCEPT ![r] = Quiescent]
    /\ UNCHANGED todo
    /\ RegistryUnchanged

GetListing(r, i) == \E kind \in Listing : Get(r, i, kind, Null, Null, "find", Null)

GetOracles(r, i) == Get(r, i, "oracles", Null, Null, "find", Null)

GetOracle(r, i) == \E id \in Id : Get(r, i, "oracle", id, Null, "find", Null)

getAccountLookUp(r, i) == \E e \in Entry : Get(r, i, "lookup", Null, e, "resolve", Null)

(* healthCheck looks for the adapter of the id, not for the oracle. *)
healthCheck(r, i) ==
    \E id \in Id :
        IF AdapterOf(i, id) # Null
        THEN Get(r, i, "health", id, Null, "ask", AdapterOf(i, id))
        ELSE /\ step[r] = "idle"
             /\ status[i] = "up"
             /\ End(r, 404, {})
             /\ RegistryUnchanged

getAllOracles(r) ==
    /\ step[r] = "find"
    /\ req[r].kind = "oracles"
    /\ End(r, 200, {})
    /\ RegistryUnchanged

FindOracle(r) ==
    /\ step[r] = "find"
    /\ req[r].kind = "oracle"
    /\ End(r, IF getOracleById(req[r].id) THEN 200 ELSE 404, {})
    /\ RegistryUnchanged

(* getBuiltInOracleAssociations, getAllOracleAssociations and                *)
(* getSearchKeywords begin with the oracles.                                 *)
ListOracles(r) ==
    LET relevant == {k \in DOMAIN docs :
                       req[r].kind = "associations" => docs[k].type = "builtin"} IN
    /\ step[r] = "find"
    /\ req[r].kind \in Listing
    /\ NextOracle(r, AtPlaces(docs, relevant), {})
    /\ RegistryUnchanged

(* Not the oracle at hand but the one that its party type and currency       *)
(* resolve to.                                                               *)
Resolved(r) ==
    LET about == IF req[r].kind = "lookup" THEN req[r].party ELSE Head(todo[r])
    IN  _getOracleAdapter(req[r].at, about.partyType, about.currency)

(* As Resolve, passing over an oracle that has no adapter here. *)
PassOver(r) ==
    /\ step[r] = "resolve"
    /\ IF Resolved(r) # Null
       THEN /\ Await(r, "ask")
            /\ adapter' = [adapter EXCEPT ![r] = Resolved(r)]
            /\ UNCHANGED todo
       ELSE IF todo[r] = <<>> THEN End(r, 500, {}) ELSE NextOracle(r, Tail(todo[r]), {})
    /\ RegistryUnchanged

(* As Resolve, with no adapter taken for nobody. *)
NoAdapterIsNobody(r) ==
    /\ step[r] = "resolve"
    /\ IF Resolved(r) = Null
       THEN End(r, 404, {})
       ELSE /\ Await(r, "ask")
            /\ adapter' = [adapter EXCEPT ![r] = Resolved(r)]
            /\ UNCHANGED todo
    /\ RegistryUnchanged

Resolve(r) ==
    /\ step[r] = "resolve"
    /\ IF Resolved(r) = Null
       THEN End(r, 500, {})
       ELSE /\ Await(r, "ask")
            /\ adapter' = [adapter EXCEPT ![r] = Resolved(r)]
            /\ UNCHANGED todo
    /\ RegistryUnchanged

SameParty(asked, e) ==
    asked.partyType = e.partyType /\ asked.currency \in {Null, e.currency}

(* The built-in oracle may answer from its cache.  The remote one's 404 is   *)
(* an exception of the HTTP client, so it never says that there is nobody.   *)
AskOwner(r) ==
    /\ step[r] = "ask"
    /\ req[r].kind = "lookup"
    /\ \/ /\ adapter[r].type = "builtin" => \E e \in Entry : SameParty(req[r].party, e)
          /\ End(r, 200, {})
       \/ /\ adapter[r].type = "builtin"
          /\ \A e \in entries : ~SameParty(req[r].party, e)
          /\ End(r, 404, {})
    /\ RegistryUnchanged

(* Both kinds of adapter answer true or false, and never throw. *)
AskHealth(r) ==
    /\ step[r] = "ask"
    /\ req[r].kind = "health"
    /\ End(r, 200, {})
    /\ RegistryUnchanged

(* What a built-in oracle may show: all that it has, and the keywords of all  *)
(* that, but of a search only what its filter, its page and the limit of its *)
(* query leave.                                                              *)
Shows(kind) == IF kind = "search" THEN SUBSET entries ELSE {entries}

(* The remote oracle has no route for its associations, and its adapter does *)
(* not implement the other two.                                              *)
AskAssociations(r) ==
    /\ step[r] = "ask"
    /\ req[r].kind \in Listing
    /\ IF adapter[r].type = "builtin"
       THEN \E some \in Shows(req[r].kind) : NextOracle(r, Tail(todo[r]), some)
       ELSE End(r, 500, {})
    /\ RegistryUnchanged

(* A call for a reader fails.  The search and the keywords of the built-in   *)
(* oracle swallow that and answer with what they have so far: the page       *)
(* without the number of pages, or the keywords that came before the failure.*)
ReadFails(r) ==
    LET swallowed == /\ step[r] = "ask"
                     /\ req[r].kind \in {"search", "keywords"}
                     /\ adapter[r].type = "builtin"
    IN
    /\ step[r] \in {"find", "resolve", "ask"}
    /\ req[r].kind # "health"
    /\ IF swallowed
       THEN \E some \in SUBSET entries : NextOracle(r, Tail(todo[r]), some)
       ELSE End(r, 500, {})
    /\ RegistryUnchanged

Answer(r) ==
    \/ getAllOracles(r)
    \/ FindOracle(r)
    \/ ListOracles(r)
    \/ Resolve(r)
    \/ AskOwner(r)
    \/ AskHealth(r)
    \/ AskAssociations(r)

-----------------------------------------------------------------------------
(* POST and DELETE requests, and everything else that happens meanwhile. *)

Interferes == calm' = [r \in Reader |-> FALSE]

(* A step of an admin request, and the status if the request ends with it. *)
AdminReceives(a, code) ==
    LET ends == pc[a] # "idle" /\ pc'[a] = "idle" IN
    /\ receipt' = [receipt EXCEPT ![a] = IF ends THEN code ELSE 0]
    /\ served' = IF ends /\ code = 200 /\ pc[a] = "add_init" THEN served \cup {arg[a]}
                 ELSE {o \in served : arg'[a] = Null \/ o.id # arg'[a].id}
    /\ gone' = IF ends /\ code \in {200, 404} /\ pc[a] \in {"remove_find", "remove_delete"}
               THEN gone \cup {arg[a].id}
               ELSE {id \in gone : arg'[a] = Null \/ id # arg'[a].id}
    /\ Interferes
    /\ UNCHANGED <<entries, readerVars, changes, kept>>

RefuseAdmin(a) ==
    /\ pc[a] = "idle"
    /\ \E i \in Instance : status[i] = "up"
    /\ \E code \in {401, 403} : receipt' = [receipt EXCEPT ![a] = code]
    /\ UNCHANGED <<vars, entries, readerVars, changes, kept, calm, served, gone>>

(* The request is validated before the aggregate sees it. *)
createOracle(a, i, dto) ==
    \/ /\ dto.type # "unsupported"
       /\ addOracle(a, i, dto)
       /\ AdminReceives(a, 0)
    \/ /\ dto.type = "unsupported"
       /\ pc[a] = "idle"
       /\ status[i] = "up"
       /\ receipt' = [receipt EXCEPT ![a] = 422]
       /\ UNCHANGED <<vars, entries, readerVars, changes, kept, calm, served, gone>>

deleteOracle(a, i) == removeOracle(a, i) /\ AdminReceives(a, 0)

(* As Created, once the oracle is stored. *)
CreatedOnceStored(a) == 200

(* The status of a creation whose last await was that of init. *)
Created(a) == IF CanInit(arg[a]) THEN 200 ELSE 500

AdminResumes(a) ==
    \/ CheckId(a) /\ AdminReceives(a, 500)
    \/ CheckName(a) /\ AdminReceives(a, 500)
    \/ FindPresent(a) /\ AdminReceives(a, 500)
    \/ InsertOracle(a) /\ AdminReceives(a, 500)
    \/ InitAdded(a) /\ AdminReceives(a, Created(a))
    \/ FindRemoved(a) /\ AdminReceives(a, 404)
    \/ DeleteOracle(a) /\ AdminReceives(a, IF getOracleById(arg[a].id) THEN 200 ELSE 500)

(* A read fails, and the request with it. *)
AdminReadFails(a) ==
    /\ pc[a] \in {"add_check_id", "add_check_name", "add_find", "remove_find"}
    /\ Finish(a)
    /\ UNCHANGED <<docs, instanceVars, used, ops>>
    /\ AdminReceives(a, 500)

(* A request is gone with the instance that serves it. *)
InstanceChanges(i) ==
    LET lost(r) == req[r] # Null /\ status'[req[r].at] = "down" IN
    /\ InstanceStep(i) \/ Crash(i)
    /\ step' = [r \in Reader |-> IF lost(r) THEN "idle" ELSE step[r]]
    /\ req' = [r \in Reader |-> IF lost(r) THEN Null ELSE req[r]]
    /\ todo' = [r \in Reader |-> IF lost(r) THEN <<>> ELSE todo[r]]
    /\ adapter' = [r \in Reader |-> IF lost(r) THEN Null ELSE adapter[r]]
    /\ kept' = [r \in Reader |-> IF lost(r) THEN {} ELSE kept[r]]
    /\ Interferes
    /\ UNCHANGED <<entries, reply, receipt, changes, served, gone>>

(* Somebody associates or disassociates a party. *)
AssociationChanges ==
    /\ changes < MaxChanges
    /\ changes' = changes + 1
    /\ \E e \in Entry : entries' = IF e \in entries THEN entries \ {e} ELSE entries \cup {e}
    /\ kept' = [r \in Reader |-> kept[r] \cap entries']
    /\ UNCHANGED <<vars, readerVars, receipt, calm, served, gone>>

ApiNext ==
    \/ \E r \in Reader :
          \/ Answer(r) \/ ReadFails(r)
          \/ _authenticationMiddleware(r) \/ _enforcePrivilege(r) \/ CatchAll(r)
    \/ \E r \in Reader, i \in Instance :
          \/ GetListing(r, i)
          \/ GetOracles(r, i)
          \/ GetOracle(r, i)
          \/ getAccountLookUp(r, i)
          \/ healthCheck(r, i)
    \/ \E a \in Admin : AdminResumes(a) \/ AdminReadFails(a) \/ RefuseAdmin(a)
    \/ \E a \in Admin, i \in Instance :
          deleteOracle(a, i) \/ \E dto \in Candidates : createOracle(a, i, dto)
    \/ \E i \in Instance : InstanceChanges(i)
    \/ AssociationChanges

ApiSpec == ApiInit /\ [][ApiNext]_<<vars, apiVars>>

-----------------------------------------------------------------------------
Ends(r, kinds) == step[r] # "idle" /\ req[r].kind \in kinds /\ reply'[r].code # 0

(***************************************************************************)
(* Of a lookup that reaches its route, participantLookUp returns null only   *)
(* for a party that the built-in oracle was asked about and that nobody had  *)
(* for the whole time of the request: a missing oracle or adapter, an oracle *)
(* that fails, or an instance that ends never looks like a party that does   *)
(* not exist.  (A party id that leads the URL elsewhere does: CatchAll.)     *)
(***************************************************************************)
NullMeansNobody ==
    [][\A r \in Reader :
          Ends(r, {"lookup"}) /\ participantLookUp(reply'[r].code) = "null" =>
              /\ adapter[r] # Null
              /\ \A e \in kept[r] : ~SameParty(req[r].party, e)]_<<vars, apiVars>>

(***************************************************************************)
(* getBuiltInOracleAssociations is all or nothing.  Although the answer of   *)
(* each oracle replaces the one before it, although the oracle that is asked *)
(* need not be the one of the list, and although oracles come and go         *)
(* meanwhile: if there was a built-in oracle to ask, a list that is answered *)
(* with 200 shows every association that was there all the time.             *)
(* Of searches and keywords this cannot be said.  They show a page, or what  *)
(* was read before a failure, and say 200 all the same.                      *)
(***************************************************************************)
ListingComplete ==
    [][\A r \in Reader :
          /\ Ends(r, {"associations"})
          /\ reply'[r].code = 200
          /\ todo[r] # <<>> \/ \E o \in ToSet(docs) : o.type = "builtin"
          => kept[r] \subseteq reply'[r].shown]_<<vars, apiVars>>

(***************************************************************************)
(* While no admin request is in flight and all oracles are built-in ones,    *)
(* every oracle that a listing takes from the collection leads, by its type  *)
(* and currency, to an adapter: it fails only if one of its calls does.      *)
(***************************************************************************)
CalmListingSucceeds ==
    \A r \in Reader :
        /\ calm[r]
        /\ step[r] = "resolve"
        /\ req[r].kind \in Listing
        /\ \A o \in ToSet(docs) : o.type = "builtin"
        => Resolved(r) # Null

(***************************************************************************)
(* What admins were told stays true.  An oracle whose creation was answered  *)
(* with 200 is stored, and served by every instance that is up, through      *)
(* crashes and restarts until somebody deletes it; an id whose deletion was  *)
(* answered with 200 or 404 has neither an oracle nor an adapter until it is *)
(* created again.                                                            *)
(***************************************************************************)
PromisesKept ==
    /\ \A o \in served :
          /\ o \in ToSet(docs)
          /\ \A i \in Instance : status[i] = "up" => o \in ToSet(adapters[i])
    /\ \A o \in ToSet(docs) \cup UNION {ToSet(adapters[i]) : i \in Instance} : o.id \notin gone

=============================================================================

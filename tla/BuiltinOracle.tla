---------------------------- MODULE BuiltinOracle ----------------------------
(***************************************************************************)
(* The built-in oracle (MongoOracleProvider): which FSP a party belongs to, *)
(* kept in one Mongo collection behind a Redis cache with a time to live.   *)
(* All built-in oracles of all service instances share that collection and  *)
(* that key prefix, so a Caller is any request in flight anywhere.          *)
(*                                                                         *)
(* Every await of the code is a step of its own: between two of them the    *)
(* other callers run.  The party type and the party id travel together and  *)
(* are one value, Party.                                                    *)
(***************************************************************************)
EXTENDS Naturals, FiniteSets

CONSTANTS Party, SubType, Currency, Fsp,
          Caller,       \* requests that may be in flight at the same time
          Null,         \* the code's null: no sub type, no currency, no result
          Undefined,    \* the code's undefined: a field the request leaves out
          Failed,       \* the call threw
          Keys,         \* the lookup keys that requests use
          MayFail,      \* whether calls to Mongo and Redis may fail
          MaxWrites     \* bound: associate and disassociate calls of a run

(* A query treats them alike; the key of a cache entry spells them out.      *)
Absent == {Null, Undefined}

LookupKey == [party : Party, sub : SubType \cup Absent, cur : Currency \cup Absent]

ASSUME SentinelsAssumption ==
    /\ Null \notin Fsp \cup SubType \cup Currency
    /\ Undefined \notin SubType \cup Currency \cup {Null}
    /\ Failed \notin Fsp \cup {Null}

ASSUME ParametersAssumption ==
    /\ Keys \subseteq LookupKey
    /\ MayFail \in BOOLEAN
    /\ MaxWrites \in Nat

(* No object is null, in particular none of the calls that callers see.      *)
ASSUME NullAssumption ==
    Null \notin [op : {"lookup", "associate", "disassociate"},
                key : LookupKey, fsp : Fsp \cup {Null}, done : BOOLEAN]

(* A stored document: the key it was stored under and the owner of the party. *)
Association == [key : LookupKey, fsp : Fsp]

VARIABLES
    docs,     \* the Mongo collection: how many documents of each association
    cache,    \* the Redis entries: the cached owner of a key, Null for none
    pc,       \* the await each caller is suspended at
    call,     \* the arguments of its call
    hit,      \* the owner its findOne returned
    answer,   \* what its last finished call returned
    writes,   \* number of writing calls begun
    stored,   \* history: associations that were ever inserted
    gone      \* history: disassociated by a finished call, not inserted since

vars == <<docs, cache, pc, call, hit, answer, writes, stored, gone>>

Steps == {"idle", "get_cache", "get_find", "get_fill",
          "assoc_find", "assoc_insert", "assoc_fill", "dis_delete", "dis_evict"}

TypeOK ==
    /\ docs \in [Association -> Nat]
    /\ cache \in [LookupKey -> Fsp \cup {Null}]
    /\ pc \in [Caller -> Steps]
    /\ call \in [Caller -> [key : LookupKey, fsp : Fsp \cup {Null}] \cup {Null}]
    /\ hit \in [Caller -> Fsp \cup {Null}]
    /\ answer \in [Caller -> Fsp \cup {Null, Failed}]
    /\ writes \in Nat
    /\ stored \subseteq Association
    /\ gone \subseteq Association

Init ==
    /\ docs = [a \in Association |-> 0]
    /\ cache = [k \in LookupKey |-> Null]
    /\ pc = [c \in Caller |-> "idle"]
    /\ call = [c \in Caller |-> Null]
    /\ hit = [c \in Caller |-> Null]
    /\ answer = [c \in Caller |-> Null]
    /\ writes = 0
    /\ stored = {}
    /\ gone = {}

-----------------------------------------------------------------------------
(* Queries.  An absent sub type or currency is deleted from the query, so it *)
(* matches every document; the query is also what is inserted, so a document *)
(* stored without one is matched only by queries that leave it out too.      *)

Matches(k, d) ==
    /\ k.party = d.party
    /\ k.sub \in Absent \cup {d.sub}
    /\ k.cur \in Absent \cup {d.cur}

(* The associations of owner f that a query for (k, f) selects. *)
_buildLookupQuery(k, f) ==
    {a \in Association : docs[a] > 0 /\ Matches(k, a.key) /\ a.fsp = f}

(* The associations that a lookup of k, whoever owns them, selects. *)
LookupQuery(k) == {a \in Association : docs[a] > 0 /\ Matches(k, a.key)}

-----------------------------------------------------------------------------
(* Leaving and suspending a call. *)

Begin(c, step, k, f) ==
    /\ pc[c] = "idle"
    /\ pc' = [pc EXCEPT ![c] = step]
    /\ call' = [call EXCEPT ![c] = [key |-> k, fsp |-> f]]
    /\ UNCHANGED <<docs, cache, hit, answer, stored>>

Return(c, v) ==
    /\ pc' = [pc EXCEPT ![c] = "idle"]
    /\ call' = [call EXCEPT ![c] = Null]
    /\ hit' = [hit EXCEPT ![c] = Null]
    /\ answer' = [answer EXCEPT ![c] = v]

Suspend(c, step) ==
    /\ pc' = [pc EXCEPT ![c] = step]
    /\ UNCHANGED <<call, answer>>

(* The result of the last await of a call: a write to Redis that was applied *)
(* may still be reported as failed.                                          *)
Outcomes(v) == IF MayFail THEN {v, Failed} ELSE {v}

(* A call to Mongo or Redis rejects without having been applied and the      *)
(* whole method throws.  One that was applied before it rejected ends like   *)
(* this action taken at the next step.                                       *)
Throw(c) ==
    /\ MayFail
    /\ pc[c] # "idle"
    /\ Return(c, Failed)
    /\ UNCHANGED <<docs, cache, writes, stored, gone>>

-----------------------------------------------------------------------------
(* getParticipantFspId: read the cache, else the collection, then fill. *)

getParticipantFspId(c, k) ==
    /\ Begin(c, "get_cache", k, Null)
    /\ UNCHANGED <<writes, gone>>

_getFromCache(c) ==
    /\ pc[c] = "get_cache"
    /\ \/ /\ cache[call[c].key] # Null
          /\ Return(c, cache[call[c].key])
       \/ /\ cache[call[c].key] = Null
          /\ Suspend(c, "get_find")
          /\ UNCHANGED hit
    /\ UNCHANGED <<docs, cache, writes, stored, gone>>

FindParticipant(c) ==
    /\ pc[c] = "get_find"
    /\ \/ /\ LookupQuery(call[c].key) = {}
          /\ Return(c, Null)
       \/ \E a \in LookupQuery(call[c].key) :
             /\ Suspend(c, "get_fill")
             /\ hit' = [hit EXCEPT ![c] = a.fsp]
    /\ UNCHANGED <<docs, cache, writes, stored, gone>>

(* As _setToCache, with a key made of the party alone. *)
SetUnderPartyKey(k, f) ==
    cache' = [j \in LookupKey |-> IF j.party = k.party THEN f ELSE cache[j]]

(* setex of the found owner under the key that was asked for *)
_setToCache(k, f) == cache' = [cache EXCEPT ![k] = f]

FillAfterFind(c) ==
    /\ pc[c] = "get_fill"
    /\ _setToCache(call[c].key, hit[c])
    /\ \E v \in Outcomes(hit[c]) : Return(c, v)
    /\ UNCHANGED <<docs, writes, stored, gone>>

-----------------------------------------------------------------------------
(* associateParticipant: refuse a duplicate, insert, then cache.  There is   *)
(* no unique index behind the check.                                         *)

associateParticipant(c, k, f) ==
    /\ writes < MaxWrites
    /\ Begin(c, "assoc_find", k, f)
    /\ writes' = writes + 1
    /\ UNCHANGED gone

(* As FindDuplicate, without the check. *)
InsertUnchecked(c) ==
    /\ pc[c] = "assoc_find"
    /\ Suspend(c, "assoc_insert")
    /\ UNCHANGED <<docs, cache, hit, writes, stored, gone>>

(* As FindDuplicate, with the cache filled before the insert. *)
FillBeforeInsert(c) ==
    /\ pc[c] = "assoc_find"
    /\ \/ /\ _buildLookupQuery(call[c].key, call[c].fsp) # {}
          /\ Return(c, Failed)
          /\ UNCHANGED cache
       \/ /\ _buildLookupQuery(call[c].key, call[c].fsp) = {}
          /\ _setToCache(call[c].key, call[c].fsp)
          /\ Suspend(c, "assoc_insert")
          /\ UNCHANGED hit
    /\ UNCHANGED <<docs, writes, stored, gone>>

(* As FindDuplicate, answering a duplicate as if it had been stored. *)
AcceptDuplicate(c) ==
    /\ pc[c] = "assoc_find"
    /\ \/ /\ _buildLookupQuery(call[c].key, call[c].fsp) # {}
          /\ Return(c, Null)
       \/ /\ _buildLookupQuery(call[c].key, call[c].fsp) = {}
          /\ Suspend(c, "assoc_insert")
          /\ UNCHANGED hit
    /\ UNCHANGED <<docs, cache, writes, stored, gone>>

FindDuplicate(c) ==
    /\ pc[c] = "assoc_find"
    /\ \/ /\ _buildLookupQuery(call[c].key, call[c].fsp) # {}
          /\ Return(c, Failed)           \* ParticipantAssociationAlreadyExists
       \/ /\ _buildLookupQuery(call[c].key, call[c].fsp) = {}
          /\ Suspend(c, "assoc_insert")
          /\ UNCHANGED hit
    /\ UNCHANGED <<docs, cache, writes, stored, gone>>

InsertAssociation(c) ==
    /\ pc[c] = "assoc_insert"
    /\ docs' = [docs EXCEPT ![call[c]] = @ + 1]
    /\ stored' = stored \cup {call[c]}
    /\ gone' = {a \in gone : ~Matches(a.key, call[c].key) \/ a.fsp # call[c].fsp}
    /\ Suspend(c, "assoc_fill")
    /\ UNCHANGED <<cache, hit, writes>>

FillAfterInsert(c) ==
    /\ pc[c] = "assoc_fill"
    /\ _setToCache(call[c].key, call[c].fsp)
    /\ \E v \in Outcomes(Null) : Return(c, v)
    /\ UNCHANGED <<docs, writes, stored, gone>>

-----------------------------------------------------------------------------
(* disassociateParticipant: delete one matching document, if there is one,   *)
(* then drop the cache entry of exactly this key.  The one caller passes     *)
(* null for a field that its request leaves out, never undefined.            *)

disassociateParticipant(c, k, f) ==
    /\ Undefined \notin {k.sub, k.cur}
    /\ writes < MaxWrites
    /\ Begin(c, "dis_delete", k, f)
    /\ writes' = writes + 1
    /\ UNCHANGED gone

(* As DeleteAssociation, counting a document as deleted without looking. *)
DeleteBlindly(c) ==
    /\ pc[c] = "dis_delete"
    /\ docs' = [docs EXCEPT ![call[c]] = @ - 1]
    /\ Suspend(c, "dis_evict")
    /\ UNCHANGED <<cache, hit, writes, stored, gone>>

(* As DeleteAssociation, with a query that leaves out the owner. *)
DeleteAnyOwner(c) ==
    /\ pc[c] = "dis_delete"
    /\ \/ /\ LookupQuery(call[c].key) = {}
          /\ UNCHANGED docs
       \/ \E a \in LookupQuery(call[c].key) : docs' = [docs EXCEPT ![a] = @ - 1]
    /\ Suspend(c, "dis_evict")
    /\ UNCHANGED <<cache, hit, writes, stored, gone>>

DeleteAssociation(c) ==
    /\ pc[c] = "dis_delete"
    /\ \/ /\ _buildLookupQuery(call[c].key, call[c].fsp) = {}
          /\ UNCHANGED docs
       \/ \E a \in _buildLookupQuery(call[c].key, call[c].fsp) :
             docs' = [docs EXCEPT ![a] = @ - 1]
    /\ Suspend(c, "dis_evict")
    /\ UNCHANGED <<cache, hit, writes, stored, gone>>

(* As _delFromCache, forgetting the entry only in the reply. *)
KeepCacheEntry(c) ==
    /\ pc[c] = "dis_evict"
    /\ Return(c, Null)
    /\ gone' = gone \cup {call[c]}
    /\ UNCHANGED <<docs, cache, writes, stored>>

_delFromCache(c) ==
    /\ pc[c] = "dis_evict"
    /\ cache' = [cache EXCEPT ![call[c].key] = Null]
    /\ \E v \in Outcomes(Null) :
          /\ Return(c, v)
          /\ gone' = IF v = Null THEN gone \cup {call[c]} ELSE gone
    /\ UNCHANGED <<docs, writes, stored>>

(* As Expire, for entries written by set instead of setex. *)
NeverExpire(k) == cache[k] # Null /\ FALSE /\ UNCHANGED vars

(* The time to live that setex gave an entry runs out. *)
Expire(k) ==
    /\ cache[k] # Null
    /\ cache' = [cache EXCEPT ![k] = Null]
    /\ UNCHANGED <<docs, pc, call, hit, answer, writes, stored, gone>>

-----------------------------------------------------------------------------
Request(c) ==
    \E k \in Keys :
        \/ getParticipantFspId(c, k)
        \/ \E f \in Fsp : associateParticipant(c, k, f)
        \/ \E f \in Fsp : disassociateParticipant(c, k, f)

Resume(c) ==
    \/ _getFromCache(c)
    \/ FindParticipant(c)
    \/ FillAfterFind(c)
    \/ FindDuplicate(c)
    \/ InsertAssociation(c)
    \/ FillAfterInsert(c)
    \/ DeleteAssociation(c)
    \/ _delFromCache(c)

Next ==
    \/ \E c \in Caller : Request(c) \/ Resume(c) \/ Throw(c)
    \/ \E k \in LookupKey : Expire(k)

Spec == Init /\ [][Next]_vars

(* Awaited calls settle one way or the other, and Redis drops what expired.  *)
(* Nobody promises that a request comes.                                     *)
FairSpec ==
    /\ Spec
    /\ \A c \in Caller : WF_vars(Resume(c))
    /\ \A k \in LookupKey : WF_vars(Expire(k))

-----------------------------------------------------------------------------
Quiescent == \A c \in Caller : pc[c] = "idle"

StoredFor(k, f) == \E a \in stored : Matches(k, a.key) /\ a.fsp = f

(***************************************************************************)
(* No owner out of thin air.  Whatever a lookup has found, answers, or left  *)
(* in the cache for a key was inserted by some associateParticipant under a  *)
(* key that the lookup matches, however calls interleave, fail or expire: a  *)
(* party is never routed to an FSP that did not register it.                 *)
(***************************************************************************)
CacheProvenance ==
    \A k \in LookupKey : cache[k] # Null => StoredFor(k, cache[k])

HitProvenance ==
    \A c \in Caller : hit[c] # Null => StoredFor(call[c].key, hit[c])

Provenance == CacheProvenance /\ HitProvenance

(***************************************************************************)
(* The same of the answers: getParticipantFspId, from the cache or from the  *)
(* collection, returns an owner only for a key it was registered under.      *)
(***************************************************************************)
AnswersAreRegistered ==
    [][\A c \in Caller :
          /\ pc[c] \in {"get_cache", "get_find", "get_fill"}
          /\ pc'[c] = "idle"
          /\ answer'[c] \notin {Null, Failed}
          => StoredFor(call[c].key, answer'[c])]_vars

(***************************************************************************)
(* associateParticipant refuses an association that exists already, so the   *)
(* collection never holds two equal documents.                               *)
(***************************************************************************)
NoDuplicateAssociation == \A a \in Association : docs[a] <= 1

(***************************************************************************)
(* When no call is in flight, a cached owner still owns a party that the key *)
(* matches: disassociateParticipant leaves no entry behind that outlives the *)
(* document it was filled from.                                              *)
(***************************************************************************)
CacheCoherent ==
    \A k \in LookupKey :
        cache[k] # Null => \E a \in LookupQuery(k) : a.fsp = cache[k]

CoherentWhenQuiescent == Quiescent => CacheCoherent

(***************************************************************************)
(* After disassociateParticipant returned, and until somebody associates it  *)
(* again, no document that its arguments select is left.                     *)
(***************************************************************************)
DisassociatedIsGone ==
    Quiescent => \A a \in gone : _buildLookupQuery(a.key, a.fsp) = {}

(***************************************************************************)
(* Staleness is bounded by the time to live: when the writes stop, every     *)
(* entry that a racing fill or a disassociation under another key left       *)
(* behind runs out, and the fills that follow read the collection.           *)
(***************************************************************************)
EventuallyCoherent == <>[]CacheCoherent

-----------------------------------------------------------------------------
(* What the callers see of it: documents are associations, however many      *)
(* there are of each; a write has taken effect once it is past the insert or *)
(* the delete; the cache is out of sight.                                    *)

OpOf(step) ==
    CASE step \in {"get_cache", "get_find", "get_fill"} -> "lookup"
      [] step \in {"assoc_find", "assoc_insert", "assoc_fill"} -> "associate"
      [] step \in {"dis_delete", "dis_evict"} -> "disassociate"

StoredOwners == {a \in Association : docs[a] > 0}

CallSeen(c) ==
    IF pc[c] = "idle" THEN Null
    ELSE [op |-> OpOf(pc[c]), key |-> call[c].key, fsp |-> call[c].fsp,
          done |-> pc[c] \in {"assoc_fill", "dis_evict"}]

CallsSeen == [c \in Caller |-> CallSeen(c)]

MatchingKeys == {m \in LookupKey \X LookupKey : Matches(m[1], m[2])}

Store == INSTANCE AssociationStore WITH
            Key <- LookupKey, Matching <- MatchingKeys,
            Relaxed <- TRUE, Volatile <- FALSE,
            owners <- StoredOwners, registered <- stored, call <- CallsSeen

(***************************************************************************)
(* The built-in oracle is such a store, without ever losing an association:  *)
(* a confirmed write took effect exactly once and a failed one at most once, *)
(* a lookup answers null only at a moment when nothing matches, and callers, *)
(* failures and the cache in between never show anything else.               *)
(***************************************************************************)
ImplementsStore == Store!Spec

=============================================================================

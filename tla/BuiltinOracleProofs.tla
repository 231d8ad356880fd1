------------------------- MODULE BuiltinOracleProofs -------------------------
(***************************************************************************)
(* For every set of parties, currencies, FSPs and callers, with failures or  *)
(* without, BuiltinOracle keeps its types and never answers or caches an     *)
(* owner that was not registered under a matching key, and implements        *)
(* AssociationStore.  Requests that do not overlap store nothing twice,      *)
(* leave nothing of what they disassociate and no stale entry in the cache.  *)
(***************************************************************************)
EXTENDS BuiltinOracle, TLAPS

Writing == {"assoc_find", "assoc_insert", "assoc_fill", "dis_delete", "dis_evict"}

(* What a suspended call has in its local variables. *)
CallInv ==
    \A c \in Caller :
        /\ pc[c] # "idle" => call[c] \in [key : LookupKey, fsp : Fsp \cup {Null}]
        /\ pc[c] \in Writing => call[c] \in Association
        /\ pc[c] = "assoc_fill" => call[c] \in stored
        /\ pc[c] = "get_fill" => hit[c] \in Fsp
        /\ pc[c] # "get_fill" => hit[c] = Null

(* What is in the collection was inserted. *)
StoreInv == \A a \in Association : docs[a] > 0 => a \in stored

IInv == TypeOK /\ CallInv /\ StoreInv /\ Provenance

-----------------------------------------------------------------------------
(* A document that a lookup selects proves that its owner was registered.    *)
LEMMA FoundIsStored ==
    ASSUME StoreInv, NEW k, NEW a \in LookupQuery(k)
    PROVE  StoredFor(k, a.fsp)
BY DEF StoreInv, LookupQuery, StoredFor

(* Every key matches itself: what was stored under k was stored for k.       *)
LEMMA StoredUnderItsKey ==
    ASSUME NEW a \in Association, a \in stored
    PROVE  StoredFor(a.key, a.fsp)
BY DEF StoredFor, Matches, Association

LEMMA InitIInv == Init => IInv
BY DEF Init, IInv, TypeOK, CallInv, StoreInv, Provenance, CacheProvenance,
       HitProvenance, Steps, Association, Writing

LEMMA TypeStep == IInv /\ [Next]_vars => TypeOK'
<1> SUFFICES ASSUME IInv, [Next]_vars PROVE TypeOK'
  OBVIOUS
<1> USE SentinelsAssumption, ParametersAssumption
<1>1. TypeOK /\ CallInv
  BY DEF IInv
<1>2. ASSUME NEW c \in Caller, Request(c)
      PROVE  TypeOK'
  <2>1. PICK k \in Keys : \/ getParticipantFspId(c, k)
                          \/ \E f \in Fsp : associateParticipant(c, k, f)
                          \/ \E f \in Fsp : disassociateParticipant(c, k, f)
    BY <1>2 DEF Request
  <2>2. k \in LookupKey
    OBVIOUS
  <2>3. CASE getParticipantFspId(c, k)
    BY <2>3, <2>2, <1>1 DEF getParticipantFspId, Begin, TypeOK, Steps
  <2>4. CASE \E f \in Fsp : associateParticipant(c, k, f)
    BY <2>4, <2>2, <1>1 DEF associateParticipant, Begin, TypeOK, Steps
  <2>5. CASE \E f \in Fsp : disassociateParticipant(c, k, f)
    BY <2>5, <2>2, <1>1 DEF disassociateParticipant, Begin, TypeOK, Steps
  <2> QED BY <2>1, <2>3, <2>4, <2>5
<1>3. ASSUME NEW c \in Caller, _getFromCache(c)
      PROVE  TypeOK'
  BY <1>3, <1>1 DEF _getFromCache, Return, Suspend, TypeOK, CallInv, Steps
<1>4. ASSUME NEW c \in Caller, FindParticipant(c)
      PROVE  TypeOK'
  BY <1>4, <1>1 DEF FindParticipant, Return, Suspend, TypeOK, Steps, LookupQuery, Association
<1>5. ASSUME NEW c \in Caller, FillAfterFind(c)
      PROVE  TypeOK'
  BY <1>5, <1>1 DEF FillAfterFind, _setToCache, Outcomes, Return, TypeOK, CallInv, Steps
<1>6. ASSUME NEW c \in Caller, FindDuplicate(c)
      PROVE  TypeOK'
  BY <1>6, <1>1 DEF FindDuplicate, Return, Suspend, TypeOK, Steps
<1>7. ASSUME NEW c \in Caller, InsertAssociation(c)
      PROVE  TypeOK'
  <2>1. call[c] \in Association
    BY <1>7, <1>1 DEF InsertAssociation, CallInv, Writing
  <2> QED BY <2>1, <1>7, <1>1 DEF InsertAssociation, Suspend, TypeOK, Steps
<1>8. ASSUME NEW c \in Caller, FillAfterInsert(c)
      PROVE  TypeOK'
  <2>1. call[c] \in Association
    BY <1>8, <1>1 DEF FillAfterInsert, CallInv, Writing
  <2> QED BY <2>1, <1>8, <1>1
          DEF FillAfterInsert, _setToCache, Outcomes, Return, TypeOK, Steps, Association
<1>9. ASSUME NEW c \in Caller, DeleteAssociation(c)
      PROVE  TypeOK'
  BY <1>9, <1>1 DEF DeleteAssociation, _buildLookupQuery, Suspend, TypeOK, Steps
<1>10. ASSUME NEW c \in Caller, _delFromCache(c)
       PROVE  TypeOK'
  <2>1. call[c] \in Association
    BY <1>10, <1>1 DEF _delFromCache, CallInv, Writing
  <2>2. PICK v \in Outcomes(Null) :
           Return(c, v) /\ gone' = IF v = Null THEN gone \cup {call[c]} ELSE gone
    BY <1>10 DEF _delFromCache
  <2>3. v \in {Null, Failed}
    BY DEF Outcomes
  <2>4. gone' \subseteq Association
    BY <2>1, <2>2, <1>1 DEF TypeOK
  <2>5. cache' \in [LookupKey -> Fsp \cup {Null}]
    BY <1>10, <1>1 DEF _delFromCache, TypeOK
  <2> QED BY <2>2, <2>3, <2>4, <2>5, <1>10, <1>1 DEF _delFromCache, Return, TypeOK, Steps
<1>11. ASSUME NEW c \in Caller, Throw(c)
       PROVE  TypeOK'
  BY <1>11, <1>1 DEF Throw, Return, TypeOK, Steps
<1>12. ASSUME NEW k \in LookupKey, Expire(k)
       PROVE  TypeOK'
  BY <1>12, <1>1 DEF Expire, TypeOK
<1>13. CASE UNCHANGED vars
  BY <1>13, <1>1 DEF vars, TypeOK
<1> QED
  BY <1>2, <1>3, <1>4, <1>5, <1>6, <1>7, <1>8, <1>9, <1>10, <1>11, <1>12, <1>13
     DEF Next, Resume

-----------------------------------------------------------------------------
LEMMA CallStep == IInv /\ [Next]_vars => CallInv'
<1> SUFFICES ASSUME IInv, [Next]_vars PROVE CallInv'
  OBVIOUS
<1> USE SentinelsAssumption, ParametersAssumption DEF Writing
<1>1. TypeOK /\ CallInv
  BY DEF IInv
<1>2. ASSUME NEW c \in Caller, Request(c)
      PROVE  CallInv'
  <2>1. PICK k \in Keys : \/ getParticipantFspId(c, k)
                          \/ \E f \in Fsp : associateParticipant(c, k, f)
                          \/ \E f \in Fsp : disassociateParticipant(c, k, f)
    BY <1>2 DEF Request
  <2>2. k \in LookupKey
    OBVIOUS
  <2>3. CASE getParticipantFspId(c, k)
    BY <2>3, <2>2, <1>1 DEF getParticipantFspId, Begin, TypeOK, CallInv
  <2>4. CASE \E f \in Fsp : associateParticipant(c, k, f)
    BY <2>4, <2>2, <1>1 DEF associateParticipant, Begin, TypeOK, CallInv, Association
  <2>5. CASE \E f \in Fsp : disassociateParticipant(c, k, f)
    BY <2>5, <2>2, <1>1 DEF disassociateParticipant, Begin, TypeOK, CallInv, Association
  <2> QED BY <2>1, <2>3, <2>4, <2>5
<1>3. ASSUME NEW c \in Caller, _getFromCache(c)
      PROVE  CallInv'
  BY <1>3, <1>1 DEF _getFromCache, Return, Suspend, TypeOK, CallInv
<1>4. ASSUME NEW c \in Caller, FindParticipant(c)
      PROVE  CallInv'
  BY <1>4, <1>1 DEF FindParticipant, Return, Suspend, TypeOK, CallInv, LookupQuery, Association
<1>5. ASSUME NEW c \in Caller, FillAfterFind(c)
      PROVE  CallInv'
  BY <1>5, <1>1 DEF FillAfterFind, Return, TypeOK, CallInv
<1>6. ASSUME NEW c \in Caller, FindDuplicate(c)
      PROVE  CallInv'
  BY <1>6, <1>1 DEF FindDuplicate, Return, Suspend, TypeOK, CallInv
<1>7. ASSUME NEW c \in Caller, InsertAssociation(c)
      PROVE  CallInv'
  BY <1>7, <1>1 DEF InsertAssociation, Suspend, TypeOK, CallInv
<1>8. ASSUME NEW c \in Caller, FillAfterInsert(c)
      PROVE  CallInv'
  BY <1>8, <1>1 DEF FillAfterInsert, Return, TypeOK, CallInv
<1>9. ASSUME NEW c \in Caller, DeleteAssociation(c)
      PROVE  CallInv'
  BY <1>9, <1>1 DEF DeleteAssociation, Suspend, TypeOK, CallInv
<1>10. ASSUME NEW c \in Caller, _delFromCache(c)
       PROVE  CallInv'
  BY <1>10, <1>1 DEF _delFromCache, Return, TypeOK, CallInv
<1>11. ASSUME NEW c \in Caller, Throw(c)
       PROVE  CallInv'
  BY <1>11, <1>1 DEF Throw, Return, TypeOK, CallInv
<1>12. ASSUME NEW k \in LookupKey, Expire(k)
       PROVE  CallInv'
  BY <1>12, <1>1 DEF Expire, CallInv
<1>13. CASE UNCHANGED vars
  BY <1>13, <1>1 DEF vars, CallInv
<1> QED
  BY <1>2, <1>3, <1>4, <1>5, <1>6, <1>7, <1>8, <1>9, <1>10, <1>11, <1>12, <1>13
     DEF Next, Resume

(* A step either leaves the history of stored associations alone or inserts  *)
(* one; the collection grows only by that one.                               *)
LEMMA StoredStep == IInv /\ [Next]_vars => stored \subseteq stored'
BY DEF Next, Request, Resume, Begin, Throw, getParticipantFspId, _getFromCache,
       FindParticipant, FillAfterFind, associateParticipant, FindDuplicate,
       InsertAssociation, FillAfterInsert, disassociateParticipant,
       DeleteAssociation, _delFromCache, Expire, vars

LEMMA CollectionStep == IInv /\ [Next]_vars => StoreInv'
<1> SUFFICES ASSUME IInv, [Next]_vars PROVE StoreInv'
  OBVIOUS
<1>1. TypeOK /\ CallInv /\ StoreInv
  BY DEF IInv
<1>2. ASSUME NEW c \in Caller, InsertAssociation(c)
      PROVE  StoreInv'
  <2>1. call[c] \in Association
    BY <1>2, <1>1 DEF InsertAssociation, CallInv, Writing
  <2> QED BY <2>1, <1>2, <1>1 DEF InsertAssociation, TypeOK, StoreInv
<1>3. ASSUME NEW c \in Caller, DeleteAssociation(c)
      PROVE  StoreInv'
  <2>1. \A a \in Association : docs'[a] > 0 => docs[a] > 0
    BY <1>3, <1>1 DEF DeleteAssociation, _buildLookupQuery, TypeOK
  <2> QED BY <2>1, <1>3, <1>1 DEF DeleteAssociation, StoreInv
<1>4. ASSUME UNCHANGED <<docs, stored>>
      PROVE  StoreInv'
  BY <1>4, <1>1 DEF StoreInv
<1>5. \/ UNCHANGED <<docs, stored>>
      \/ \E c \in Caller : InsertAssociation(c)
      \/ \E c \in Caller : DeleteAssociation(c)
  BY DEF Next, Request, Resume, Begin, Throw, getParticipantFspId, _getFromCache,
         FindParticipant, FillAfterFind, associateParticipant, FindDuplicate,
         FillAfterInsert, disassociateParticipant, _delFromCache, Expire, vars
<1> QED BY <1>2, <1>3, <1>4, <1>5

(* The cache is written in four places: the two fills, the eviction and the  *)
(* expiry.  Each fill writes an owner whose registration is known.           *)
LEMMA CacheStep == IInv /\ [Next]_vars => CacheProvenance'
<1> SUFFICES ASSUME IInv, [Next]_vars PROVE CacheProvenance'
  OBVIOUS
<1>1. TypeOK /\ CallInv /\ StoreInv /\ CacheProvenance /\ HitProvenance
  BY DEF IInv, Provenance
<1>2. stored \subseteq stored'
  BY StoredStep
<1>3. ASSUME NEW k \in LookupKey, cache'[k] = cache[k]
      PROVE  cache'[k] # Null => StoredFor(k, cache[k])'
  BY <1>3, <1>1, <1>2 DEF CacheProvenance, StoredFor
<1>4. ASSUME NEW c \in Caller, FillAfterFind(c)
      PROVE  CacheProvenance'
  <2>1. call[c].key \in LookupKey /\ hit[c] \in Fsp
    BY <1>4, <1>1 DEF FillAfterFind, CallInv
  <2>2. StoredFor(call[c].key, hit[c])
    BY <2>1, <1>1, SentinelsAssumption DEF HitProvenance
  <2>3. stored' = stored
    BY <1>4 DEF FillAfterFind
  <2>4. cache' = [cache EXCEPT ![call[c].key] = hit[c]]
    BY <1>4 DEF FillAfterFind, _setToCache
  <2>5. ASSUME NEW k \in LookupKey, cache'[k] # Null
        PROVE  StoredFor(k, cache[k])'
    <3>1. CASE k = call[c].key
      BY <3>1, <2>1, <2>2, <2>3, <2>4, <1>1 DEF StoredFor, TypeOK
    <3>2. CASE k # call[c].key
      BY <3>2, <2>4, <2>5, <1>3, <1>1 DEF TypeOK
    <3> QED BY <3>1, <3>2
  <2> QED BY <2>5 DEF CacheProvenance
<1>5. ASSUME NEW c \in Caller, FillAfterInsert(c)
      PROVE  CacheProvenance'
  <2>1. call[c] \in Association /\ call[c] \in stored
    BY <1>5, <1>1 DEF FillAfterInsert, CallInv, Writing
  <2>2. StoredFor(call[c].key, call[c].fsp)
    BY <2>1, StoredUnderItsKey
  <2>3. stored' = stored
    BY <1>5 DEF FillAfterInsert
  <2>4. cache' = [cache EXCEPT ![call[c].key] = call[c].fsp]
    BY <1>5 DEF FillAfterInsert, _setToCache
  <2>5. ASSUME NEW k \in LookupKey, cache'[k] # Null
        PROVE  StoredFor(k, cache[k])'
    <3>1. CASE k = call[c].key
      BY <3>1, <2>1, <2>2, <2>3, <2>4, <1>1 DEF StoredFor, TypeOK, Association
    <3>2. CASE k # call[c].key
      BY <3>2, <2>4, <2>5, <1>3, <1>1 DEF TypeOK
    <3> QED BY <3>1, <3>2
  <2> QED BY <2>5 DEF CacheProvenance
<1>6. ASSUME \A k \in LookupKey : cache'[k] \in {cache[k], Null}
      PROVE  CacheProvenance'
  BY <1>6, <1>3 DEF CacheProvenance
<1>7. ASSUME NEW c \in Caller, _delFromCache(c)
      PROVE  CacheProvenance'
  BY <1>7, <1>6, <1>1 DEF _delFromCache, TypeOK
<1>8. ASSUME NEW k \in LookupKey, Expire(k)
      PROVE  CacheProvenance'
  BY <1>8, <1>6, <1>1 DEF Expire, TypeOK
<1>9. ASSUME UNCHANGED cache
      PROVE  CacheProvenance'
  BY <1>9, <1>6
<1>10. \/ UNCHANGED cache
       \/ \E c \in Caller : FillAfterFind(c) \/ FillAfterInsert(c) \/ _delFromCache(c)
       \/ \E k \in LookupKey : Expire(k)
  BY DEF Next, Request, Resume, Begin, Throw, getParticipantFspId, _getFromCache,
         FindParticipant, associateParticipant, FindDuplicate, InsertAssociation,
         disassociateParticipant, DeleteAssociation, vars
<1> QED BY <1>4, <1>5, <1>7, <1>8, <1>9, <1>10

(* A hit comes from a document that the call's own key selects. *)
LEMMA HitStep == IInv /\ [Next]_vars => HitProvenance'
<1> SUFFICES ASSUME IInv, [Next]_vars, NEW d \in Caller, hit'[d] # Null
             PROVE  StoredFor(call[d].key, hit[d])'
  BY DEF HitProvenance
<1>1. TypeOK /\ CallInv /\ StoreInv /\ HitProvenance
  BY DEF IInv, Provenance
<1>2. stored \subseteq stored'
  BY StoredStep
<1>3. CASE hit'[d] = hit[d] /\ call'[d] = call[d]
  BY <1>3, <1>1, <1>2 DEF HitProvenance, StoredFor
<1>4. ASSUME NEW c \in Caller, FindParticipant(c), hit'[d] # hit[d] \/ call'[d] # call[d]
      PROVE  StoredFor(call[d].key, hit[d])'
  <2>1. PICK a \in LookupQuery(call[c].key) :
           Suspend(c, "get_fill") /\ hit' = [hit EXCEPT ![c] = a.fsp]
    BY <1>4, <1>1 DEF FindParticipant, Return, TypeOK
  <2>2. StoredFor(call[c].key, a.fsp)
    BY <1>1, FoundIsStored
  <2>3. d = c /\ hit'[d] = a.fsp /\ call'[d] = call[c]
    BY <2>1, <1>4, <1>1 DEF Suspend, TypeOK
  <2>4. stored' = stored
    BY <1>4 DEF FindParticipant
  <2> QED BY <2>2, <2>3, <2>4 DEF StoredFor
<1>5. \/ hit'[d] = hit[d] /\ call'[d] = call[d]
      \/ \E c \in Caller : FindParticipant(c)
  <2>1. ASSUME NEW c \in Caller, Request(c)
        PROVE  hit'[d] = hit[d] /\ call'[d] = call[d]
    BY <2>1, <1>1 DEF Request, getParticipantFspId, associateParticipant,
                      disassociateParticipant, Begin, TypeOK, CallInv
  <2>2. ASSUME NEW c \in Caller, NEW v, Return(c, v)
        PROVE  hit'[d] = hit[d] /\ call'[d] = call[d]
    BY <2>2, <1>1 DEF Return, TypeOK
  <2>3. ASSUME NEW c \in Caller, NEW s, Suspend(c, s), UNCHANGED hit
        PROVE  hit'[d] = hit[d] /\ call'[d] = call[d]
    BY <2>3, <1>1 DEF Suspend
  <2>4. ASSUME NEW c \in Caller, _getFromCache(c)
        PROVE  hit'[d] = hit[d] /\ call'[d] = call[d]
    BY <2>4, <2>2, <2>3 DEF _getFromCache
  <2>5. ASSUME NEW c \in Caller, FillAfterFind(c)
        PROVE  hit'[d] = hit[d] /\ call'[d] = call[d]
    BY <2>5, <2>2 DEF FillAfterFind
  <2>6. ASSUME NEW c \in Caller, FindDuplicate(c)
        PROVE  hit'[d] = hit[d] /\ call'[d] = call[d]
    BY <2>6, <2>2, <2>3 DEF FindDuplicate
  <2>7. ASSUME NEW c \in Caller, InsertAssociation(c)
        PROVE  hit'[d] = hit[d] /\ call'[d] = call[d]
    BY <2>7, <2>3 DEF InsertAssociation
  <2>8. ASSUME NEW c \in Caller, FillAfterInsert(c)
        PROVE  hit'[d] = hit[d] /\ call'[d] = call[d]
    BY <2>8, <2>2 DEF FillAfterInsert
  <2>9. ASSUME NEW c \in Caller, DeleteAssociation(c)
        PROVE  hit'[d] = hit[d] /\ call'[d] = call[d]
    BY <2>9, <2>3 DEF DeleteAssociation
  <2>10. ASSUME NEW c \in Caller, _delFromCache(c)
         PROVE  hit'[d] = hit[d] /\ call'[d] = call[d]
    BY <2>10, <2>2 DEF _delFromCache
  <2>11. ASSUME NEW c \in Caller, Throw(c)
         PROVE  hit'[d] = hit[d] /\ call'[d] = call[d]
    BY <2>11, <2>2 DEF Throw
  <2>12. ASSUME NEW k \in LookupKey, Expire(k)
         PROVE  hit'[d] = hit[d] /\ call'[d] = call[d]
    BY <2>12 DEF Expire
  <2>13. CASE UNCHANGED vars
    BY <2>13 DEF vars
  <2> QED
    BY <2>1, <2>4, <2>5, <2>6, <2>7, <2>8, <2>9, <2>10, <2>11, <2>12, <2>13
       DEF Next, Resume
<1> QED BY <1>3, <1>4, <1>5

(* The inductive invariant: types, the contents of suspended calls, and      *)
(* where the owners in the collection, the cache and the hits come from.     *)
LEMMA Invariance == Spec => []IInv
<1>1. Init => IInv
  BY InitIInv
<1>2. IInv /\ [Next]_vars => IInv'
  BY TypeStep, CallStep, CollectionStep, CacheStep, HitStep DEF IInv, Provenance
<1> QED BY <1>1, <1>2, PTL DEF Spec

-----------------------------------------------------------------------------
(* The variables of BuiltinOracle keep their types, for all parameters: in   *)
(* particular deleteOne never takes away a document that is not there.       *)
THEOREM TypeCorrect == Spec => []TypeOK
<1>1. IInv => TypeOK
  BY DEF IInv
<1> QED BY <1>1, Invariance, PTL

(* No owner out of thin air, for any number of callers and keys: whatever    *)
(* getParticipantFspId found or anybody cached for a key was inserted by     *)
(* associateParticipant under a key that it matches.                         *)
THEOREM OwnersAreRegistered == Spec => []Provenance
<1>1. IInv => Provenance
  BY DEF IInv
<1> QED BY <1>1, Invariance, PTL

(* The answers of getParticipantFspId are such owners too.                   *)
THEOREM AnswersRegistered == Spec => AnswersAreRegistered
<1> DEFINE Answer(c) == /\ pc[c] \in {"get_cache", "get_find", "get_fill"}
                        /\ pc'[c] = "idle"
                        /\ answer'[c] \notin {Null, Failed}
                        => StoredFor(call[c].key, answer'[c])
<1>1. IInv /\ [Next]_vars => [\A c \in Caller : Answer(c)]_vars
  <2> SUFFICES ASSUME IInv, Next, NEW d \in Caller,
                      pc[d] \in {"get_cache", "get_find", "get_fill"},
                      pc'[d] = "idle",
                      answer'[d] \notin {Null, Failed}
               PROVE  StoredFor(call[d].key, answer'[d])
    OBVIOUS
  <2>1. TypeOK /\ CallInv /\ CacheProvenance /\ HitProvenance
    BY DEF IInv, Provenance
  <2>2. call[d].key \in LookupKey
    BY <2>1 DEF CallInv
  <2>3. CASE _getFromCache(d)
    BY <2>3, <2>2, <2>1
       DEF _getFromCache, Return, Suspend, TypeOK, CacheProvenance
  <2>4. CASE FindParticipant(d)
    BY <2>4, <2>1 DEF FindParticipant, Return, Suspend, TypeOK
  <2>5. CASE FillAfterFind(d)
    <3>1. answer'[d] = hit[d]
      BY <2>5, <2>1 DEF FillAfterFind, Outcomes, Return, TypeOK
    <3> QED BY <3>1, <2>1 DEF HitProvenance
  <2>6. CASE Throw(d)
    BY <2>6, <2>1 DEF Throw, Return, TypeOK
  <2>7. _getFromCache(d) \/ FindParticipant(d) \/ FillAfterFind(d) \/ Throw(d)
    <3>1. ASSUME NEW c \in Caller, Request(c)
          PROVE  FALSE
      BY <3>1, <2>1 DEF Request, getParticipantFspId, associateParticipant,
                        disassociateParticipant, Begin, TypeOK
    <3>2. ASSUME NEW c \in Caller, Resume(c), c # d
          PROVE  FALSE
      BY <3>2, <2>1 DEF Resume, _getFromCache, FindParticipant, FillAfterFind,
                        FindDuplicate, InsertAssociation, FillAfterInsert,
                        DeleteAssociation, _delFromCache, Return, Suspend, TypeOK
    <3>3. ASSUME NEW c \in Caller, Throw(c), c # d
          PROVE  FALSE
      BY <3>3, <2>1 DEF Throw, Return, TypeOK
    <3>4. ASSUME NEW k \in LookupKey, Expire(k)
          PROVE  FALSE
      BY <3>4, <2>1 DEF Expire
    <3>5. Resume(d) => _getFromCache(d) \/ FindParticipant(d) \/ FillAfterFind(d)
      BY <2>1 DEF Resume, FindDuplicate, InsertAssociation, FillAfterInsert,
                  DeleteAssociation, _delFromCache
    <3> QED BY <3>1, <3>2, <3>3, <3>4, <3>5 DEF Next
  <2> QED BY <2>3, <2>4, <2>5, <2>6, <2>7
<1> QED BY <1>1, Invariance, PTL DEF Spec, AnswersAreRegistered

-----------------------------------------------------------------------------
(* A call in flight is a call of the abstract store.                         *)
LEMMA SeenTyped ==
    ASSUME TypeOK, CallInv, NEW c \in Caller, pc[c] # "idle"
    PROVE  /\ CallsSeen[c] \in Store!Call /\ CallsSeen[c] # Null
           /\ CallsSeen[c].op = OpOf(pc[c])
           /\ CallsSeen[c].key = call[c].key
           /\ CallsSeen[c].fsp = call[c].fsp
           /\ CallsSeen[c].done = (pc[c] \in {"assoc_fill", "dis_evict"})
<1>1. CallsSeen[c] = [op |-> OpOf(pc[c]), key |-> call[c].key, fsp |-> call[c].fsp,
                      done |-> pc[c] \in {"assoc_fill", "dis_evict"}]
  BY DEF CallsSeen, CallSeen
<1>2. call[c].key \in LookupKey /\ call[c].fsp \in Fsp \cup {Null}
  BY DEF CallInv
<1>3. OpOf(pc[c]) \in {"lookup", "associate", "disassociate"}
  <2>1. pc[c] \in Steps \ {"idle"}
    BY DEF TypeOK
  <2> QED BY <2>1 DEF OpOf, Steps
<1>4. (pc[c] \in {"assoc_fill", "dis_evict"}) \in BOOLEAN
  OBVIOUS
<1>5. CallsSeen[c] \in Store!Call
  BY <1>1, <1>2, <1>3, <1>4 DEF Store!Call
<1>6. CallsSeen[c].done = (pc[c] \in {"assoc_fill", "dis_evict"})
  BY <1>1
<1>7. CallsSeen[c] # Null
  BY <1>5, NullAssumption DEF Store!Call
<1> QED BY <1>1, <1>5, <1>6, <1>7

LEMMA SeenIdle ==
    ASSUME NEW c \in Caller, pc[c] = "idle"
    PROVE  CallsSeen[c] = Null
BY DEF CallsSeen, CallSeen

LEMMA SeenStep ==
    ASSUME NEW c \in Caller, \A d \in Caller : d # c => pc'[d] = pc[d] /\ call'[d] = call[d]
    PROVE  CallsSeen' = [CallsSeen EXCEPT ![c] = CallSeen(c)']
BY DEF CallsSeen, CallSeen

(* A call that returns is told something.                                    *)
LEMMA ReturnTells ==
    ASSUME TypeOK, NEW c \in Caller, NEW v, Return(c, v), UNCHANGED <<docs, stored>>
    PROVE  Store!Tell(c, v)
<1>1. \A d \in Caller : d # c => pc'[d] = pc[d] /\ call'[d] = call[d]
  BY DEF Return, TypeOK
<1>2. CallSeen(c)' = Null
  BY DEF Return, CallSeen, TypeOK
<1>3. CallsSeen' = [CallsSeen EXCEPT ![c] = Null]
  BY <1>1, <1>2, SeenStep
<1> QED BY <1>3 DEF Store!Tell, Return, StoredOwners

(* One that throws, at whatever await, fails.                                *)
LEMMA ThrowFails ==
    ASSUME TypeOK, CallInv, NEW c \in Caller, pc[c] # "idle", Return(c, Failed),
           UNCHANGED <<docs, stored>>
    PROVE  Store!Next
BY ReturnTells, SeenTyped DEF Store!Fail, Store!Next

(* An await that changes nothing the callers see.                            *)
LEMMA SuspendUnseen ==
    ASSUME TypeOK, NEW c \in Caller, NEW step \in Steps, Suspend(c, step),
           UNCHANGED <<docs, stored>>, pc[c] # "idle", step # "idle",
           OpOf(step) = OpOf(pc[c]),
           step \in {"assoc_fill", "dis_evict"} <=> pc[c] \in {"assoc_fill", "dis_evict"}
    PROVE  UNCHANGED Store!vars
<1>1. \A d \in Caller : d # c => pc'[d] = pc[d] /\ call'[d] = call[d]
  BY DEF Suspend, TypeOK
<1>2. pc'[c] = step /\ call' = call
  BY DEF Suspend, TypeOK
<1>3. (step \in {"assoc_fill", "dis_evict"}) = (pc[c] \in {"assoc_fill", "dis_evict"})
  OBVIOUS
<1>4. CallSeen(c)' = CallSeen(c)
  BY <1>2, <1>3 DEF CallSeen
<1>5. CallsSeen' = CallsSeen
  BY <1>1, <1>4 DEF CallsSeen, CallSeen
<1> QED BY <1>5 DEF Store!vars, StoredOwners, Suspend

(* A call that takes effect stays what it was.                               *)
LEMMA TakesEffect ==
    ASSUME NEW r \in Store!Call, NEW q \in Store!Call,
           q.op = r.op, q.key = r.key, q.fsp = r.fsp, q.done = TRUE
    PROVE  q = [r EXCEPT !.done = TRUE]
BY DEF Store!Call

LEMMA SuspendMarks ==
    ASSUME TypeOK, CallInv, NEW c \in Caller, NEW step \in {"assoc_fill", "dis_evict"},
           Suspend(c, step), pc[c] # "idle", OpOf(step) = OpOf(pc[c])
    PROVE  Store!Mark(c)
<1>1. \A d \in Caller : d # c => pc'[d] = pc[d] /\ call'[d] = call[d]
  BY DEF Suspend, TypeOK
<1>2. pc'[c] = step /\ call' = call
  BY DEF Suspend, TypeOK
<1> DEFINE q == CallSeen(c)'
<1>3. q = [op |-> OpOf(pc[c]), key |-> call[c].key, fsp |-> call[c].fsp, done |-> TRUE]
  <2>1. (step \in {"assoc_fill", "dis_evict"}) = TRUE
    OBVIOUS
  <2> QED BY <1>2, <2>1 DEF CallSeen
<1>4. /\ CallsSeen[c] \in Store!Call
      /\ CallsSeen[c].op = OpOf(pc[c])
      /\ CallsSeen[c].key = call[c].key
      /\ CallsSeen[c].fsp = call[c].fsp
  BY SeenTyped
<1>5. q \in Store!Call /\ q.op = CallsSeen[c].op /\ q.key = CallsSeen[c].key
      /\ q.fsp = CallsSeen[c].fsp /\ q.done = TRUE
  <2> HIDE DEF q
  <2> QED BY <1>3, <1>4 DEF Store!Call
<1>6. q = [CallsSeen[c] EXCEPT !.done = TRUE]
  <2> HIDE DEF q
  <2> QED BY <1>4, <1>5, TakesEffect
<1>7. CallsSeen' = [CallsSeen EXCEPT ![c] = q]
  BY <1>1, SeenStep
<1>8. CallsSeen' = [CallsSeen EXCEPT ![c].done = TRUE]
  <2> HIDE DEF q
  <2> QED BY <1>6, <1>7
<1> QED BY <1>8 DEF Store!Mark, Suspend

(* What a lookup finds for its key, in the collection or in the history, is  *)
(* what the abstract store matches.                                          *)
LEMMA MatchedIsFound ==
    ASSUME NEW k \in LookupKey
    PROVE  /\ Store!Matched(k, StoredOwners) = LookupQuery(k)
           /\ stored \subseteq Association =>
                 \A f : StoredFor(k, f) <=> \E a \in Store!Matched(k, stored) : a.fsp = f
BY DEF Store!Matched, MatchingKeys, StoredOwners, LookupQuery, StoredFor, Association

LEMMA InitStore == Init => Store!Init
BY DEF Init, Store!Init, StoredOwners, CallsSeen, CallSeen

LEMMA RequestInvokes ==
    ASSUME TypeOK, NEW c \in Caller, Request(c)
    PROVE  Store!Invoke(c)
<1> USE SentinelsAssumption, ParametersAssumption
<1>1. PICK k \in Keys, step \in {"get_cache", "assoc_find", "dis_delete"}, f \in Fsp \cup {Null} :
         Begin(c, step, k, f) /\ (step = "get_cache" <=> f = Null)
  BY DEF Request, getParticipantFspId, associateParticipant, disassociateParticipant
<1> DEFINE new == [op |-> OpOf(step), key |-> k, fsp |-> f, done |-> FALSE]
<1>2. /\ OpOf(step) \in {"lookup", "associate", "disassociate"}
      /\ OpOf(step) = "lookup" <=> step = "get_cache"
  BY DEF OpOf
<1>3. new \in Store!Call /\ ~new.done /\ (new.op = "lookup" <=> new.fsp = Null)
  BY <1>1, <1>2 DEF Store!Call
<1>4. \A d \in Caller : d # c => pc'[d] = pc[d] /\ call'[d] = call[d]
  BY <1>1 DEF Begin, TypeOK
<1>5. CallSeen(c)' = new
  <2>1. pc'[c] = step /\ call'[c] = [key |-> k, fsp |-> f]
    BY <1>1 DEF Begin, TypeOK
  <2>2. (step \in {"assoc_fill", "dis_evict"}) = FALSE /\ step # "idle"
    OBVIOUS
  <2>3. CallSeen(c)' = [op |-> OpOf(step), key |-> k, fsp |-> f,
                        done |-> step \in {"assoc_fill", "dis_evict"}]
    BY <2>1, <2>2 DEF CallSeen
  <2> QED BY <2>2, <2>3
<1>6. CallsSeen' = [CallsSeen EXCEPT ![c] = new]
  BY <1>4, <1>5, SeenStep
<1>7. CallsSeen[c] = Null
  BY <1>1, SeenIdle DEF Begin
<1>8. UNCHANGED <<StoredOwners, stored, answer>>
  BY <1>1 DEF Begin, StoredOwners
<1> HIDE DEF new
<1> QED BY <1>3, <1>6, <1>7, <1>8 DEF Store!Invoke

LEMMA LookupSteps ==
    ASSUME IInv, NEW c \in Caller, _getFromCache(c) \/ FindParticipant(c) \/ FillAfterFind(c)
    PROVE  [Store!Next]_(Store!vars)
<1> DEFINE k == call[c].key
<1>1. TypeOK /\ CallInv /\ CacheProvenance /\ HitProvenance
  BY DEF IInv, Provenance
<1>2. pc[c] \in {"get_cache", "get_find", "get_fill"}
  BY DEF _getFromCache, FindParticipant, FillAfterFind
<1>3. OpOf(pc[c]) = "lookup"
  BY <1>2 DEF OpOf
<1>4. k \in LookupKey /\ CallsSeen[c].key = k /\ Store!Waiting(c, "lookup")
  BY <1>1, <1>2, <1>3, SeenTyped DEF CallInv, Store!Waiting
<1>5. UNCHANGED <<docs, stored>>
  BY DEF _getFromCache, FindParticipant, FillAfterFind
<1>6. ASSUME NEW v, Return(c, v), StoredFor(k, v)
      PROVE  Store!Next
  <2>1. PICK a \in Store!Matched(k, stored) : a.fsp = v
    BY <1>1, <1>4, <1>6, MatchedIsFound DEF TypeOK
  <2>2. Store!Tell(c, v)
    BY <1>1, <1>5, <1>6, ReturnTells
  <2>3. Store!TellOwner(c)
    BY <1>4, <2>1, <2>2 DEF Store!TellOwner
  <2> QED BY <2>3 DEF Store!Next
<1>7. CASE _getFromCache(c)
  <2>1. CASE cache[k] # Null
    <3>1. StoredFor(k, cache[k]) /\ Return(c, cache[k])
      BY <2>1, <1>7, <1>1, <1>4 DEF _getFromCache, CacheProvenance
    <3> QED BY <3>1, <1>6
  <2>2. CASE cache[k] = Null
    <3>1. Suspend(c, "get_find") /\ OpOf("get_find") = "lookup"
      BY <2>2, <1>7 DEF _getFromCache, OpOf
    <3> QED BY <3>1, <1>1, <1>2, <1>3, <1>5, SuspendUnseen DEF Steps
  <2> QED BY <2>1, <2>2
<1>8. CASE FindParticipant(c)
  <2>1. CASE LookupQuery(k) = {}
    <3>1. Return(c, Null)
      BY <2>1, <1>8 DEF FindParticipant
    <3>2. Store!Tell(c, Null)
      BY <3>1, <1>1, <1>5, ReturnTells
    <3>3. Store!TellNobody(c)
      BY <2>1, <3>2, <1>4, MatchedIsFound DEF Store!TellNobody
    <3> QED BY <3>3 DEF Store!Next
  <2>2. CASE LookupQuery(k) # {}
    <3>1. Suspend(c, "get_fill") /\ OpOf("get_fill") = "lookup"
      BY <2>2, <1>8 DEF FindParticipant, OpOf
    <3> QED BY <3>1, <1>1, <1>2, <1>3, <1>5, SuspendUnseen DEF Steps
  <2> QED BY <2>1, <2>2
<1>9. CASE FillAfterFind(c)
  <2>1. hit[c] # Null /\ pc[c] # "idle"
    BY <1>9, <1>1, SentinelsAssumption DEF FillAfterFind, CallInv
  <2>2. Return(c, hit[c]) \/ Return(c, Failed)
    BY <1>9 DEF FillAfterFind, Outcomes
  <2>3. StoredFor(k, hit[c])
    BY <2>1, <1>1 DEF HitProvenance
  <2> QED BY <2>1, <2>2, <2>3, <1>1, <1>5, <1>6, ThrowFails
<1> QED BY <1>7, <1>8, <1>9

(* A write that has taken effect is confirmed, or fails.                     *)
LEMMA WriteEnds ==
    ASSUME IInv, NEW c \in Caller, FillAfterInsert(c) \/ _delFromCache(c)
    PROVE  Store!Next
<1>1. TypeOK /\ CallInv
  BY DEF IInv
<1>2. pc[c] \in {"assoc_fill", "dis_evict"} /\ UNCHANGED <<docs, stored>>
  BY DEF FillAfterInsert, _delFromCache
<1>3. Return(c, Null) \/ Return(c, Failed)
  BY DEF FillAfterInsert, _delFromCache, Outcomes
<1>4. CallsSeen[c] # Null /\ CallsSeen[c].done
  BY <1>1, <1>2, SeenTyped
<1>5. CASE Return(c, Null)
  BY <1>1, <1>2, <1>4, <1>5, ReturnTells DEF Store!Confirm, Store!Next
<1>6. CASE Return(c, Failed)
  BY <1>1, <1>2, <1>6, ThrowFails
<1> QED BY <1>3, <1>5, <1>6

LEMMA AssociateSteps ==
    ASSUME IInv, NEW c \in Caller, FindDuplicate(c) \/ InsertAssociation(c)
    PROVE  [Store!Next]_(Store!vars)
<1>1. TypeOK /\ CallInv
  BY DEF IInv
<1>2. pc[c] \in {"assoc_find", "assoc_insert"}
  BY DEF FindDuplicate, InsertAssociation
<1>3. OpOf(pc[c]) = "associate"
  BY <1>2 DEF OpOf
<1>4. CASE FindDuplicate(c) /\ Return(c, Failed)
  BY <1>1, <1>2, <1>4, ThrowFails DEF FindDuplicate
<1>5. CASE FindDuplicate(c) /\ ~Return(c, Failed)
  <2>1. Suspend(c, "assoc_insert") /\ OpOf("assoc_insert") = "associate"
    BY <1>5 DEF FindDuplicate, OpOf
  <2> QED BY <2>1, <1>1, <1>2, <1>3, <1>5, SuspendUnseen DEF FindDuplicate, Steps
<1>6. CASE InsertAssociation(c)
  <2>1. call[c] \in Association
    BY <1>1, <1>6 DEF InsertAssociation, CallInv, Writing
  <2>2. call[c] = [key |-> CallsSeen[c].key, fsp |-> CallsSeen[c].fsp]
    BY <2>1, <1>1, <1>2, SeenTyped DEF Association
  <2>3. StoredOwners' = StoredOwners \cup {call[c]}
    BY <2>1, <1>1, <1>6 DEF InsertAssociation, StoredOwners, TypeOK
  <2>4. stored' = stored \cup {call[c]}
    BY <1>6 DEF InsertAssociation
  <2>5. Store!Waiting(c, "associate")
    BY <1>1, <1>3, <1>6, SeenTyped DEF InsertAssociation, Store!Waiting
  <2>6. Store!Mark(c)
    <3>1. Suspend(c, "assoc_fill") /\ OpOf("assoc_fill") = "associate"
      BY <1>6 DEF InsertAssociation, OpOf
    <3> QED BY <3>1, <1>1, <1>2, <1>3, SuspendMarks
  <2>7. Store!Register(c)
    BY <2>2, <2>3, <2>4, <2>5, <2>6 DEF Store!Register
  <2> QED BY <2>7 DEF Store!Next
<1> QED BY <1>4, <1>5, <1>6

(* deleteOne takes away one document; the association goes with its last.    *)
LEMMA DeleteDrops ==
    ASSUME IInv, NEW c \in Caller, DeleteAssociation(c)
    PROVE  Store!Drop(c)
<1>1. TypeOK /\ CallInv
  BY DEF IInv
<1>2. OpOf(pc[c]) = "disassociate" /\ pc[c] = "dis_delete"
  BY DEF DeleteAssociation, OpOf
<1>3. Store!Waiting(c, "disassociate") /\ CallsSeen[c].key = call[c].key
      /\ CallsSeen[c].fsp = call[c].fsp
  BY <1>1, <1>2, SeenTyped DEF Store!Waiting
<1>4. Store!Mark(c)
  <2>1. Suspend(c, "dis_evict") /\ OpOf("dis_evict") = "disassociate"
    BY DEF DeleteAssociation, OpOf
  <2> QED BY <2>1, <1>1, <1>2, SuspendMarks
<1>5. stored' = stored
  BY DEF DeleteAssociation
<1>6. CASE UNCHANGED docs
  BY <1>3, <1>4, <1>5, <1>6 DEF Store!Drop, StoredOwners
<1>7. ASSUME NEW a \in _buildLookupQuery(call[c].key, call[c].fsp),
             docs' = [docs EXCEPT ![a] = @ - 1]
      PROVE  Store!Drop(c)
  <2>1. a \in Association /\ docs[a] \in Nat /\ docs[a] > 0
    BY <1>1, <1>7 DEF _buildLookupQuery, TypeOK
  <2>2. CASE docs[a] = 1
    <3>1. StoredOwners' = StoredOwners \ {a}
      BY <2>1, <2>2, <1>1, <1>7 DEF StoredOwners, TypeOK
    <3>2. call[c].key \in LookupKey
      BY <1>1, <1>2 DEF CallInv
    <3>3. a \in {b \in Store!Matched(CallsSeen[c].key, StoredOwners) : b.fsp = CallsSeen[c].fsp}
      BY <1>3, <1>7, <2>1, <3>2, MatchedIsFound DEF _buildLookupQuery, LookupQuery
    <3> QED BY <3>1, <3>3, <1>3, <1>4, <1>5 DEF Store!Drop
  <2>3. CASE docs[a] > 1
    <3>1. StoredOwners' = StoredOwners
      BY <2>1, <2>3, <1>1, <1>7 DEF StoredOwners, TypeOK
    <3> QED BY <3>1, <1>3, <1>4, <1>5 DEF Store!Drop
  <2> QED BY <2>1, <2>2, <2>3
<1> QED BY <1>6, <1>7 DEF DeleteAssociation

(* Each step of the oracle is a step of the store, or none that callers see. *)
LEMMA StepOfStore == IInv /\ [Next]_vars => [Store!Next]_(Store!vars)
<1> SUFFICES ASSUME IInv, [Next]_vars PROVE [Store!Next]_(Store!vars)
  OBVIOUS
<1>1. TypeOK /\ CallInv
  BY DEF IInv
<1>2. ASSUME NEW c \in Caller, Request(c) PROVE Store!Next
  BY <1>1, <1>2, RequestInvokes DEF Store!Next
<1>3. ASSUME NEW c \in Caller, Throw(c) PROVE Store!Next
  BY <1>1, <1>3, ThrowFails DEF Throw
<1>4. ASSUME NEW c \in Caller, DeleteAssociation(c) PROVE Store!Next
  BY <1>4, DeleteDrops DEF Store!Next
<1>5. ASSUME NEW c \in Caller, Resume(c) PROVE [Store!Next]_(Store!vars)
  BY <1>4, <1>5, LookupSteps, AssociateSteps, WriteEnds DEF Resume
<1>6. ASSUME UNCHANGED <<docs, pc, call, answer, stored>> PROVE UNCHANGED Store!vars
  BY <1>6 DEF Store!vars, StoredOwners, CallsSeen, CallSeen
<1>7. ASSUME NEW k \in LookupKey, Expire(k) PROVE UNCHANGED Store!vars
  BY <1>6, <1>7 DEF Expire
<1> QED BY <1>2, <1>3, <1>5, <1>6, <1>7 DEF Next, vars

(* The built-in oracle is a store of associations (a Relaxed AssociationStore*)
(* that loses none), for any number of callers, failures and entries that    *)
(* expire: a confirmed write took effect once, and "no owner" is answered    *)
(* only at a moment when nothing matches.                                    *)
THEOREM BuiltinOracleIsStore == Spec => ImplementsStore
<1>1. Init => Store!Init
  BY InitStore
<1>2. IInv /\ [Next]_vars => [Store!Next]_(Store!vars)
  BY StepOfStore
<1> QED BY <1>1, <1>2, Invariance, PTL DEF Spec, ImplementsStore, Store!Spec

-----------------------------------------------------------------------------
(* What BuiltinOracle promises to one request at a time.  The hypotheses of  *)
(* these theorems are the terms on which the code keeps these promises; the  *)
(* runs builtin_duplicate and builtin_stale show that it does not without.   *)

(* Requests do not overlap. *)
OneAtATime == \A c, d \in Caller : c = d

(* Every request gives all fields of its key. *)
CompleteKeys == \A k \in Keys : k.sub \notin Absent /\ k.cur \notin Absent

(* Only keys of requests are in use. *)
KeysInv ==
    /\ \A c \in Caller : pc[c] # "idle" => call[c].key \in Keys
    /\ \A a \in Association : docs[a] > 0 => a.key \in Keys
    /\ \A k \in LookupKey : cache[k] # Null => k \in Keys

(* Nobody comes between a check and the insert that relies on it, nor        *)
(* between a document that was found or inserted and its way to the cache.   *)
LoneInv ==
    /\ NoDuplicateAssociation
    /\ \A c \in Caller :
          /\ pc[c] = "assoc_insert" => docs[call[c]] = 0
          /\ pc[c] = "assoc_fill" => docs[call[c]] > 0
          /\ pc[c] = "get_fill" => \E a \in LookupQuery(call[c].key) : a.fsp = hit[c]

(* From the deletion on nothing is left of what was disassociated. *)
GoneInv ==
    /\ \A a \in gone : _buildLookupQuery(a.key, a.fsp) = {}
    /\ \A c \in Caller : pc[c] = "dis_evict" =>
          _buildLookupQuery(call[c].key, call[c].fsp) = {}

(* An entry has its document, or is about to be evicted. *)
EntryInv ==
    \A k \in LookupKey : cache[k] # Null =>
        \/ \E a \in LookupQuery(k) : a.fsp = cache[k]
        \/ \E c \in Caller : pc[c] = "dis_evict" /\ call[c].key = k

-----------------------------------------------------------------------------
LEMMA KeysStep == IInv /\ KeysInv /\ [Next]_vars => KeysInv'
<1> SUFFICES ASSUME IInv, KeysInv, [Next]_vars PROVE KeysInv'
  OBVIOUS
<1>1. TypeOK /\ CallInv
  BY DEF IInv
<1>2. ASSUME NEW c \in Caller, Request(c) PROVE KeysInv'
  BY <1>1, <1>2 DEF Request, getParticipantFspId, associateParticipant,
                    disassociateParticipant, Begin, KeysInv, TypeOK
<1>3. ASSUME NEW c \in Caller, NEW v, Return(c, v), UNCHANGED docs,
             \A k \in LookupKey : cache'[k] # Null => k \in Keys
      PROVE  KeysInv'
  BY <1>1, <1>3 DEF Return, KeysInv, TypeOK
<1>4. ASSUME NEW c \in Caller, NEW s, pc[c] # "idle", Suspend(c, s), UNCHANGED cache,
             \A a \in Association : docs'[a] > 0 => a.key \in Keys
      PROVE  KeysInv'
  BY <1>1, <1>4 DEF Suspend, KeysInv, TypeOK
<1>5. ASSUME NEW c \in Caller, pc[c] # "idle", NEW f, _setToCache(call[c].key, f)
      PROVE  \A k \in LookupKey : cache'[k] # Null => k \in Keys
  BY <1>1, <1>5 DEF _setToCache, KeysInv, TypeOK
<1>6. ASSUME NEW c \in Caller, Resume(c) PROVE KeysInv'
  <2>1. CASE _getFromCache(c)
    BY <2>1, <1>3, <1>4 DEF _getFromCache, KeysInv
  <2>2. CASE FindParticipant(c)
    BY <2>2, <1>3, <1>4 DEF FindParticipant, KeysInv
  <2>3. CASE FillAfterFind(c)
    BY <2>3, <1>3, <1>5 DEF FillAfterFind
  <2>4. CASE FindDuplicate(c)
    BY <2>4, <1>3, <1>4 DEF FindDuplicate, KeysInv
  <2>5. CASE InsertAssociation(c)
    <3>1. \A a \in Association : docs'[a] > 0 => a.key \in Keys
      BY <2>5, <1>1 DEF InsertAssociation, KeysInv, TypeOK
    <3> QED BY <3>1, <2>5, <1>4 DEF InsertAssociation
  <2>6. CASE FillAfterInsert(c)
    BY <2>6, <1>3, <1>5 DEF FillAfterInsert
  <2>7. CASE DeleteAssociation(c)
    <3>1. \A a \in Association : docs'[a] > 0 => docs[a] > 0
      BY <2>7, <1>1 DEF DeleteAssociation, _buildLookupQuery, TypeOK
    <3> QED BY <3>1, <2>7, <1>4 DEF DeleteAssociation, KeysInv
  <2>8. CASE _delFromCache(c)
    <3>1. \A k \in LookupKey : cache'[k] # Null => k \in Keys
      BY <2>8, <1>1 DEF _delFromCache, KeysInv, TypeOK
    <3> QED BY <3>1, <2>8, <1>3 DEF _delFromCache
  <2> QED BY <1>6, <2>1, <2>2, <2>3, <2>4, <2>5, <2>6, <2>7, <2>8 DEF Resume
<1>7. ASSUME NEW c \in Caller, Throw(c) PROVE KeysInv'
  BY <1>7, <1>3 DEF Throw, KeysInv
<1>8. ASSUME NEW k \in LookupKey, Expire(k) PROVE KeysInv'
  BY <1>8, <1>1 DEF Expire, KeysInv, TypeOK
<1>9. CASE UNCHANGED vars
  BY <1>9 DEF vars, KeysInv
<1> QED BY <1>2, <1>6, <1>7, <1>8, <1>9 DEF Next

(* Every key matches itself.                                                 *)
LEMMA OwnKeyMatches == ASSUME NEW k \in LookupKey PROVE Matches(k, k)
BY DEF Matches

(* A step of the only caller is all that happens to the calls.               *)
LEMMA LoneStep == ASSUME OneAtATime PROVE IInv /\ LoneInv /\ [Next]_vars => LoneInv'
<1> SUFFICES ASSUME OneAtATime, IInv, LoneInv, [Next]_vars PROVE LoneInv'
  OBVIOUS
<1>1. TypeOK /\ CallInv
  BY DEF IInv
<1> DEFINE Local(c) ==
      /\ pc[c] = "assoc_insert" => docs[call[c]] = 0
      /\ pc[c] = "assoc_fill" => docs[call[c]] > 0
      /\ pc[c] = "get_fill" => \E a \in LookupQuery(call[c].key) : a.fsp = hit[c]
<1>2. ASSUME NEW c \in Caller, NoDuplicateAssociation', Local(c)' PROVE LoneInv'
  <2>1. \A d \in Caller : d = c
    BY DEF OneAtATime
  <2> QED BY <1>2, <2>1 DEF LoneInv
<1>3. UNCHANGED docs => NoDuplicateAssociation'
  BY DEF LoneInv, NoDuplicateAssociation
<1>4. ASSUME NEW c \in Caller, UNCHANGED docs,
             pc'[c] \notin {"assoc_insert", "assoc_fill", "get_fill"}
      PROVE  LoneInv'
  BY <1>2, <1>3, <1>4
<1>5. ASSUME NEW c \in Caller, NEW v, Return(c, v), UNCHANGED docs PROVE LoneInv'
  <2>1. pc'[c] = "idle"
    BY <1>1, <1>5 DEF Return, TypeOK
  <2> QED BY <2>1, <1>4, <1>5
<1>6. ASSUME NEW c \in Caller, Request(c) PROVE LoneInv'
  <2>1. UNCHANGED docs /\ pc'[c] \in {"get_cache", "assoc_find", "dis_delete"}
    BY <1>1, <1>6 DEF Request, getParticipantFspId, associateParticipant,
                      disassociateParticipant, Begin, TypeOK
  <2> QED BY <2>1, <1>4
<1>7. ASSUME NEW c \in Caller, _getFromCache(c) PROVE LoneInv'
  <2>1. CASE Suspend(c, "get_find")
    BY <2>1, <1>1, <1>4, <1>7 DEF _getFromCache, Suspend, TypeOK
  <2> QED BY <2>1, <1>5, <1>7 DEF _getFromCache
<1>8. ASSUME NEW c \in Caller, FindParticipant(c) PROVE LoneInv'
  <2>1. ASSUME NEW a \in LookupQuery(call[c].key), Suspend(c, "get_fill"),
               hit' = [hit EXCEPT ![c] = a.fsp], UNCHANGED docs
        PROVE  LoneInv'
    <3>1. pc'[c] = "get_fill" /\ call' = call /\ hit'[c] = a.fsp
      BY <1>1, <2>1 DEF Suspend, TypeOK
    <3>2. a \in LookupQuery(call[c].key)'
      BY <2>1, <3>1 DEF LookupQuery
    <3> QED BY <3>1, <3>2, <2>1, <1>2, <1>3
  <2> QED BY <2>1, <1>5, <1>8 DEF FindParticipant
<1>9. ASSUME NEW c \in Caller, FindDuplicate(c) PROVE LoneInv'
  <2>1. CASE Suspend(c, "assoc_insert") /\ _buildLookupQuery(call[c].key, call[c].fsp) = {}
    <3>1. call[c] \in Association
      BY <1>9, <1>1 DEF FindDuplicate, CallInv, Writing
    <3>2. docs[call[c]] = 0
      <4>1. docs[call[c]] \in Nat /\ Matches(call[c].key, call[c].key)
        BY <3>1, <1>1, OwnKeyMatches DEF TypeOK, Association
      <4>2. call[c] \notin _buildLookupQuery(call[c].key, call[c].fsp)
        BY <2>1
      <4> QED BY <3>1, <4>1, <4>2 DEF _buildLookupQuery
    <3>3. pc'[c] = "assoc_insert" /\ call' = call /\ UNCHANGED docs
      BY <2>1, <1>9, <1>1 DEF FindDuplicate, Suspend, TypeOK
    <3> QED BY <3>2, <3>3, <1>2, <1>3
  <2> QED BY <2>1, <1>5, <1>9 DEF FindDuplicate
<1>10. ASSUME NEW c \in Caller, InsertAssociation(c) PROVE LoneInv'
  <2>1. call[c] \in Association /\ docs[call[c]] = 0
    BY <1>10, <1>1 DEF InsertAssociation, CallInv, Writing, LoneInv
  <2>2. docs' = [docs EXCEPT ![call[c]] = @ + 1] /\ pc'[c] = "assoc_fill" /\ call' = call
    BY <1>10, <1>1 DEF InsertAssociation, Suspend, TypeOK
  <2>3. docs'[call[c]] = 1
    BY <2>1, <2>2, <1>1 DEF TypeOK
  <2>4. NoDuplicateAssociation'
    BY <2>1, <2>2, <1>1 DEF NoDuplicateAssociation, LoneInv, TypeOK
  <2> QED BY <2>2, <2>3, <2>4, <1>2
<1>11. ASSUME NEW c \in Caller, DeleteAssociation(c) PROVE LoneInv'
  <2>1. pc'[c] = "dis_evict"
    BY <1>11, <1>1 DEF DeleteAssociation, Suspend, TypeOK
  <2>2. NoDuplicateAssociation'
    BY <1>11, <1>1 DEF DeleteAssociation, _buildLookupQuery, LoneInv,
                       NoDuplicateAssociation, TypeOK
  <2> QED BY <2>1, <2>2, <1>2
<1>12. ASSUME NEW c \in Caller, FillAfterFind(c) \/ FillAfterInsert(c) \/ _delFromCache(c)
                                \/ Throw(c)
       PROVE  LoneInv'
  BY <1>12, <1>5 DEF FillAfterFind, FillAfterInsert, _delFromCache, Throw
<1>13. ASSUME UNCHANGED <<docs, pc, call, hit>> PROVE LoneInv'
  BY <1>13 DEF LoneInv, NoDuplicateAssociation, LookupQuery
<1>14. ASSUME NEW k \in LookupKey, Expire(k) PROVE LoneInv'
  BY <1>14, <1>13 DEF Expire
<1> QED
  BY <1>6, <1>7, <1>8, <1>9, <1>10, <1>11, <1>12, <1>13, <1>14 DEF Next, Resume, vars

LEMMA LoneInvariance == ASSUME OneAtATime PROVE Spec => [](IInv /\ KeysInv /\ LoneInv)
<1>1. Init => KeysInv /\ LoneInv
  BY DEF Init, KeysInv, LoneInv, NoDuplicateAssociation
<1>2. IInv /\ KeysInv /\ LoneInv /\ [Next]_vars => KeysInv' /\ LoneInv'
  BY KeysStep, LoneStep
<1> QED BY <1>1, <1>2, Invariance, PTL DEF Spec

(* One request at a time, an association is never stored twice, whatever     *)
(* fails: the check sees all that was inserted before it.                    *)
THEOREM NothingStoredTwice == ASSUME OneAtATime PROVE Spec => []NoDuplicateAssociation
<1>1. LoneInv => NoDuplicateAssociation
  BY DEF LoneInv
<1> QED BY <1>1, LoneInvariance, PTL

-----------------------------------------------------------------------------
(* A complete key matches only itself.                                       *)
LEMMA CompleteMatchesItself ==
    ASSUME CompleteKeys, NEW k \in Keys, NEW d \in LookupKey, Matches(k, d)
    PROVE  d = k
<1>1. k \in LookupKey /\ k.party = d.party /\ k.sub = d.sub /\ k.cur = d.cur
  BY ParametersAssumption DEF CompleteKeys, Matches
<1> QED BY <1>1 DEF LookupKey

(* So does what a request with such a key selects.                           *)
LEMMA CompleteSelectsItself ==
    ASSUME CompleteKeys, NEW k \in Keys, NEW f, NEW a \in _buildLookupQuery(k, f)
    PROVE  a = [key |-> k, fsp |-> f]
<1>1. a \in Association /\ a.key = k /\ a.fsp = f
  BY CompleteMatchesItself DEF _buildLookupQuery, Association
<1> QED BY <1>1 DEF Association

LEMMA GoneStep ==
    ASSUME OneAtATime, CompleteKeys
    PROVE  IInv /\ KeysInv /\ LoneInv /\ GoneInv /\ [Next]_vars => GoneInv'
<1> SUFFICES ASSUME IInv, KeysInv, LoneInv, GoneInv, [Next]_vars PROVE GoneInv'
  OBVIOUS
<1>1. TypeOK /\ CallInv
  BY DEF IInv
<1>2. \A c, d \in Caller : c = d
  BY DEF OneAtATime
<1>3. ASSUME NEW c \in Caller, \A a \in gone' : _buildLookupQuery(a.key, a.fsp)' = {},
             pc'[c] = "dis_evict" => _buildLookupQuery(call[c].key, call[c].fsp)' = {}
      PROVE  GoneInv'
  BY <1>2, <1>3 DEF GoneInv
<1>4. ASSUME NEW c \in Caller, UNCHANGED <<docs, gone>>, pc'[c] # "dis_evict"
      PROVE  GoneInv'
  <2>1. \A a \in gone' : _buildLookupQuery(a.key, a.fsp)' = {}
    BY <1>4 DEF GoneInv, _buildLookupQuery
  <2> QED BY <2>1, <1>3, <1>4
<1>5. ASSUME NEW c \in Caller, NEW v, Return(c, v), UNCHANGED <<docs, gone>> PROVE GoneInv'
  BY <1>1, <1>4, <1>5 DEF Return, TypeOK
<1>6. ASSUME NEW c \in Caller, NEW s, s # "dis_evict", Suspend(c, s), UNCHANGED <<docs, gone>>
      PROVE  GoneInv'
  BY <1>1, <1>4, <1>6 DEF Suspend, TypeOK
<1>7. ASSUME NEW c \in Caller, Request(c) PROVE GoneInv'
  <2>1. UNCHANGED <<docs, gone>> /\ pc'[c] # "dis_evict"
    BY <1>1, <1>7 DEF Request, getParticipantFspId, associateParticipant,
                      disassociateParticipant, Begin, TypeOK
  <2> QED BY <2>1, <1>4
<1>8. ASSUME NEW c \in Caller, InsertAssociation(c) PROVE GoneInv'
  <2>1. call[c] \in Association
    BY <1>8, <1>1 DEF InsertAssociation, CallInv, Writing
  <2>2. \A a \in Association : docs'[a] > 0 => docs[a] > 0 \/ a = call[c]
    BY <2>1, <1>8, <1>1 DEF InsertAssociation, TypeOK
  <2>3. ASSUME NEW a \in gone' PROVE _buildLookupQuery(a.key, a.fsp)' = {}
    <3>1. a \in gone /\ (~Matches(a.key, call[c].key) \/ a.fsp # call[c].fsp)
      BY <1>8, <2>3 DEF InsertAssociation
    <3> QED BY <3>1, <2>2 DEF GoneInv, _buildLookupQuery
  <2>4. pc'[c] = "assoc_fill"
    BY <1>8, <1>1 DEF InsertAssociation, Suspend, TypeOK
  <2> QED BY <2>3, <2>4, <1>3
<1>9. ASSUME NEW c \in Caller, DeleteAssociation(c) PROVE GoneInv'
  <2> DEFINE k == call[c].key
             f == call[c].fsp
  <2>1. k \in Keys /\ call' = call /\ gone' = gone
    BY <1>9, <1>1 DEF DeleteAssociation, Suspend, KeysInv
  <2>2. \A a \in Association : docs'[a] > 0 => docs[a] > 0
    BY <1>9, <1>1 DEF DeleteAssociation, _buildLookupQuery, TypeOK
  <2>3. \A a \in gone' : _buildLookupQuery(a.key, a.fsp)' = {}
    BY <2>1, <2>2 DEF GoneInv, _buildLookupQuery
  <2>4. _buildLookupQuery(k, f)' = {}
    <3>1. CASE _buildLookupQuery(k, f) = {}
      BY <3>1, <2>1, <2>2 DEF _buildLookupQuery
    <3>2. CASE _buildLookupQuery(k, f) # {}
      <4>1. PICK a \in _buildLookupQuery(k, f) : docs' = [docs EXCEPT ![a] = @ - 1]
        BY <3>2, <1>9 DEF DeleteAssociation
      <4>2. a \in Association /\ docs[a] = 1
        BY <4>1, <1>1 DEF _buildLookupQuery, LoneInv, NoDuplicateAssociation, TypeOK
      <4>3. docs'[a] = 0
        BY <4>1, <4>2, <1>1 DEF TypeOK
      <4>4. ASSUME NEW b \in _buildLookupQuery(k, f)' PROVE FALSE
        <5>1. b \in _buildLookupQuery(k, f) /\ docs'[b] > 0
          BY <4>4, <2>1, <2>2 DEF _buildLookupQuery
        <5>2. b = a
          BY <5>1, <4>1, <2>1, CompleteSelectsItself
        <5> QED BY <5>1, <5>2, <4>3
      <4> QED BY <4>4
    <3> QED BY <3>1, <3>2
  <2> QED BY <2>3, <2>4, <1>3
<1>10. ASSUME NEW c \in Caller, _delFromCache(c) PROVE GoneInv'
  <2>1. pc[c] = "dis_evict" /\ UNCHANGED docs /\ gone' \subseteq gone \cup {call[c]}
    BY <1>10 DEF _delFromCache
  <2>2. \A a \in gone' : _buildLookupQuery(a.key, a.fsp)' = {}
    BY <2>1 DEF GoneInv, _buildLookupQuery
  <2>3. pc'[c] = "idle"
    BY <1>10, <1>1 DEF _delFromCache, Return, TypeOK
  <2> QED BY <2>2, <2>3, <1>3
<1>11. ASSUME NEW c \in Caller, Resume(c) PROVE GoneInv'
  BY <1>5, <1>6, <1>8, <1>9, <1>10, <1>11
     DEF Resume, _getFromCache, FindParticipant, FillAfterFind, FindDuplicate, FillAfterInsert
<1>12. ASSUME NEW c \in Caller, Throw(c) PROVE GoneInv'
  BY <1>5, <1>12 DEF Throw
<1>13. ASSUME UNCHANGED <<docs, pc, call, gone>> PROVE GoneInv'
  BY <1>13 DEF GoneInv, _buildLookupQuery
<1>14. ASSUME NEW k \in LookupKey, Expire(k) PROVE GoneInv'
  BY <1>13, <1>14 DEF Expire
<1> QED BY <1>7, <1>11, <1>12, <1>13, <1>14 DEF Next, vars

LEMMA EntryStep ==
    ASSUME OneAtATime, CompleteKeys, MayFail = FALSE
    PROVE  IInv /\ KeysInv /\ LoneInv /\ EntryInv /\ [Next]_vars => EntryInv'
<1> SUFFICES ASSUME IInv, KeysInv, LoneInv, EntryInv, [Next]_vars PROVE EntryInv'
  OBVIOUS
<1>1. TypeOK /\ CallInv
  BY DEF IInv
<1> DEFINE Kept(k) == \E a \in LookupQuery(k) : a.fsp = cache[k]
<1>2. ASSUME NEW c \in Caller, pc[c] # "dis_evict",
             \A a \in Association : docs[a] > 0 => docs'[a] > 0,
             \A k \in LookupKey : cache'[k] # Null => cache'[k] = cache[k] \/ Kept(k)'
      PROVE  EntryInv'
  <2>1. \A k \in LookupKey : cache[k] # Null => Kept(k)
    BY <1>2 DEF EntryInv, OneAtATime
  <2>2. \A k \in LookupKey : cache'[k] # Null => Kept(k)'
    BY <2>1, <1>2 DEF LookupQuery
  <2> QED BY <2>2 DEF EntryInv
<1>3. ASSUME NEW c \in Caller, pc[c] # "dis_evict", UNCHANGED <<docs, cache>> PROVE EntryInv'
  BY <1>2, <1>3
<1>4. ASSUME NEW c \in Caller, Request(c) PROVE EntryInv'
  <2>1. pc[c] # "dis_evict" /\ UNCHANGED <<docs, cache>>
    BY <1>4 DEF Request, getParticipantFspId, associateParticipant,
                disassociateParticipant, Begin
  <2> QED BY <2>1, <1>3
<1>5. ASSUME NEW c \in Caller, _getFromCache(c) \/ FindParticipant(c) \/ FindDuplicate(c)
      PROVE  EntryInv'
  <2>1. pc[c] # "dis_evict" /\ UNCHANGED <<docs, cache>>
    BY <1>5 DEF _getFromCache, FindParticipant, FindDuplicate
  <2> QED BY <2>1, <1>3
<1>6. ASSUME NEW c \in Caller, FillAfterFind(c) PROVE EntryInv'
  <2>1. PICK a \in LookupQuery(call[c].key) : a.fsp = hit[c]
    BY <1>6 DEF FillAfterFind, LoneInv
  <2>2. UNCHANGED docs /\ cache' = [cache EXCEPT ![call[c].key] = hit[c]] /\ pc[c] = "get_fill"
    BY <1>6 DEF FillAfterFind, _setToCache
  <2>3. call[c].key \in LookupKey
    BY <2>2, <1>1 DEF CallInv
  <2>4. \A k \in LookupKey : cache'[k] = cache[k] \/ Kept(k)'
    BY <2>1, <2>2, <2>3, <1>1 DEF LookupQuery, TypeOK
  <2> QED BY <2>2, <2>4, <1>2
<1>7. ASSUME NEW c \in Caller, InsertAssociation(c) PROVE EntryInv'
  <2>1. call[c] \in Association
    BY <1>7, <1>1 DEF InsertAssociation, CallInv, Writing
  <2>2. \A a \in Association : docs[a] > 0 => docs'[a] > 0
    BY <2>1, <1>7, <1>1 DEF InsertAssociation, TypeOK
  <2> QED BY <2>2, <1>2, <1>7 DEF InsertAssociation
<1>8. ASSUME NEW c \in Caller, FillAfterInsert(c) PROVE EntryInv'
  <2>1. UNCHANGED docs /\ cache' = [cache EXCEPT ![call[c].key] = call[c].fsp]
        /\ pc[c] = "assoc_fill"
    BY <1>8 DEF FillAfterInsert, _setToCache
  <2>2. call[c] \in Association /\ docs[call[c]] > 0
    BY <2>1, <1>1 DEF CallInv, Writing, LoneInv
  <2>3. call[c].key \in LookupKey /\ call[c] \in LookupQuery(call[c].key)
    BY <2>2, OwnKeyMatches DEF LookupQuery, Association
  <2>4. \A k \in LookupKey : cache'[k] = cache[k] \/ Kept(k)'
    BY <2>1, <2>3, <1>1 DEF LookupQuery, TypeOK
  <2> QED BY <2>1, <2>4, <1>2
<1>9. ASSUME NEW c \in Caller, DeleteAssociation(c) PROVE EntryInv'
  <2>1. pc[c] = "dis_delete" /\ pc'[c] = "dis_evict" /\ call' = call /\ cache' = cache
    BY <1>9, <1>1 DEF DeleteAssociation, Suspend, TypeOK
  <2>2. call[c].key \in Keys
    BY <2>1 DEF KeysInv
  <2>3. \A d \in Caller : pc[d] # "dis_evict"
    BY <2>1 DEF OneAtATime
  <2>4. ASSUME NEW k \in LookupKey, cache'[k] # Null, k # call[c].key PROVE Kept(k)'
    <3>1. PICK a \in LookupQuery(k) : a.fsp = cache[k]
      BY <2>1, <2>3, <2>4 DEF EntryInv
    <3>2. k \in Keys
      BY <2>1, <2>4 DEF KeysInv
    <3>3. a \in Association /\ a.key = k /\ docs[a] > 0
      BY <3>1, <3>2, CompleteMatchesItself DEF LookupQuery, Association
    <3>4. docs'[a] = docs[a]
      <4>1. \A b \in _buildLookupQuery(call[c].key, call[c].fsp) : b # a
        BY <2>2, <2>4, <3>3, CompleteSelectsItself
      <4> QED BY <4>1, <3>3, <1>9, <1>1 DEF DeleteAssociation, TypeOK
    <3> QED BY <3>1, <3>3, <3>4, <2>1 DEF LookupQuery
  <2> QED BY <2>1, <2>4 DEF EntryInv
<1>10. ASSUME NEW c \in Caller, _delFromCache(c) PROVE EntryInv'
  <2>1. UNCHANGED docs /\ cache' = [cache EXCEPT ![call[c].key] = Null]
    BY <1>10 DEF _delFromCache
  <2>2. call[c].key \in LookupKey
    BY <1>10, <1>1 DEF _delFromCache, CallInv
  <2>3. \A d \in Caller : d = c
    BY DEF OneAtATime
  <2>4. ASSUME NEW k \in LookupKey, cache'[k] # Null PROVE Kept(k)'
    <3>1. k # call[c].key /\ cache'[k] = cache[k]
      BY <2>1, <2>2, <2>4, <1>1 DEF TypeOK
    <3>2. Kept(k)
      BY <3>1, <2>3, <2>4 DEF EntryInv
    <3> QED BY <3>1, <3>2, <2>1 DEF LookupQuery
  <2> QED BY <2>4 DEF EntryInv
<1>11. ASSUME NEW c \in Caller, Throw(c) PROVE FALSE
  BY <1>11 DEF Throw
<1>12. ASSUME NEW k \in LookupKey, Expire(k) PROVE EntryInv'
  <2>1. UNCHANGED <<docs, pc, call>> /\ \A j \in LookupKey : cache'[j] \in {cache[j], Null}
    BY <1>12, <1>1 DEF Expire, TypeOK
  <2>2. \A j : LookupQuery(j)' = LookupQuery(j)
    BY <2>1 DEF LookupQuery
  <2>3. ASSUME NEW j \in LookupKey, cache'[j] # Null
        PROVE  \/ Kept(j)'
               \/ \E c \in Caller : pc'[c] = "dis_evict" /\ call'[c].key = j
    <3>1. cache'[j] = cache[j]
      BY <2>1, <2>3
    <3> QED BY <3>1, <2>1, <2>2, <2>3 DEF EntryInv
  <2> QED BY <2>3 DEF EntryInv
<1>13. CASE UNCHANGED vars
  BY <1>13 DEF vars, EntryInv, LookupQuery
<1> QED
  BY <1>4, <1>5, <1>6, <1>7, <1>8, <1>9, <1>10, <1>11, <1>12, <1>13 DEF Next, Resume

(* One request at a time with complete keys, what was disassociated is gone  *)
(* until somebody associates it again, whatever else fails: the one document *)
(* that deleteOne takes away is all there was.                               *)
THEOREM GoneForGood == ASSUME OneAtATime, CompleteKeys PROVE Spec => []DisassociatedIsGone
<1>1. Init => GoneInv
  BY DEF Init, GoneInv
<1>2. IInv /\ KeysInv /\ LoneInv /\ GoneInv /\ [Next]_vars => GoneInv'
  BY GoneStep
<1>3. GoneInv => DisassociatedIsGone
  BY DEF GoneInv, DisassociatedIsGone
<1> QED BY <1>1, <1>2, <1>3, LoneInvariance, PTL DEF Spec

(* One request at a time with complete keys and no failing calls, no entry   *)
(* of the cache outlives its document by more than the eviction that is on   *)
(* its way.                                                                  *)
THEOREM CacheFollowsStore ==
    ASSUME OneAtATime, CompleteKeys, MayFail = FALSE
    PROVE  Spec => []CoherentWhenQuiescent
<1>1. Init => EntryInv
  BY DEF Init, EntryInv
<1>2. IInv /\ KeysInv /\ LoneInv /\ EntryInv /\ [Next]_vars => EntryInv'
  BY EntryStep
<1>3. EntryInv => CoherentWhenQuiescent
  BY DEF EntryInv, CoherentWhenQuiescent, CacheCoherent, Quiescent
<1> QED BY <1>1, <1>2, <1>3, LoneInvariance, PTL DEF Spec

=============================================================================

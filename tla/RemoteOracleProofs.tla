-------------------------- MODULE RemoteOracleProofs --------------------------
(***************************************************************************)
(* For every set of parties, sub types, currencies, FSPs and callers, with   *)
(* lost messages, failing files and crashes or without: RemoteOracle keeps   *)
(* its types, tells only owners that were accepted, lets one of the requests *)
(* that race for a party win, and loses no confirmed change while saves do   *)
(* not overlap.  It implements AssociationStore.                             *)
(***************************************************************************)
EXTENDS RemoteOracle, FiniteSetTheorems, TLAPS

(* The place in the map that a call is about. *)
Place(c) == createKey(call[c].key)

(* The owner that the map has in a place. *)
Owner(k) == IF memory[k] = Null THEN Null ELSE memory[k].fsp

(* The file has an association for this place. *)
Saved(k) == \E rec \in file.data : createKey(rec.key) = k

(* Whoever has no request is idle, and only accepted writes, of a process    *)
(* that runs, are being saved.                                               *)
CallInv ==
    \A c \in Caller :
        /\ pc[c] = "idle" <=> call[c] = Null
        /\ pc[c] # "idle" => (call[c].op = "lookup" <=> call[c].fsp = Null)
        /\ Handling(c) => call[c].op # "lookup" /\ status # "down"

(* What the map, the file and the saves hold was accepted, and the map holds *)
(* it in its place.                                                          *)
StoreInv ==
    /\ \A k \in StoreKey : memory[k] # Null =>
          memory[k] \in asked /\ createKey(memory[k].key) = k
    /\ file.data \subseteq asked
    /\ \A c \in Caller : contents[c] \subseteq asked

(* Saves that have not overlapped come one at a time. *)
OneSave == ~overlapped => \A c, d \in Caller : Handling(c) /\ Handling(d) => c = d

(* Such a save writes what the map holds, and finds the file as it left it.  *)
SaveInv ==
    ~overlapped /\ ~lossy =>
        /\ file.state # "corrupt"
        /\ \A c \in Caller :
              /\ Handling(c) => contents[c] = Values(memory)
              /\ pc[c] = "write" => file = [state |-> "empty", data |-> {}]
              /\ pc[c] = "respond" => file.data = Values(memory)

(* A place that no save is about has the owner that the answers promised, in *)
(* the map while there is one, and in the file between changes.  The place   *)
(* of a save has in the map what was asked for.                              *)
PromiseInv ==
    ~overlapped /\ ~lossy =>
        /\ status # "down" =>
              \A k \in StoreKey :
                  (\A c \in Caller : Handling(c) => Place(c) # k) => acked[k] = Owner(k)
        /\ \A c \in Caller : Handling(c) =>
              Owner(Place(c)) = IF call[c].op = "associate" THEN call[c].fsp ELSE Null
        /\ Quiescent =>
              \A k \in StoreKey, f \in Fsp :
                  acked[k] = f <=> \E rec \in file.data : createKey(rec.key) = k /\ rec.fsp = f

(* The writes of one kind that are accepted and not confirmed. *)
Unconfirmed(op, k) == {c \in Caller : Handling(c) /\ call[c].op = op /\ Place(c) = k}

(* Confirmed or not, associations and disassociations of a place alternate.  *)
WinsInv ==
    /\ \A k \in StoreKey, op \in {"associate", "disassociate"} :
          IsFiniteSet(Unconfirmed(op, k))
    /\ ~lossy /\ status # "down" => \A k \in StoreKey :
          wins[k] + Cardinality(Unconfirmed("associate", k))
                  - Cardinality(Unconfirmed("disassociate", k))
             = IF memory[k] = Null THEN 0 ELSE 1
    /\ ~lossy /\ status = "down" => \A k \in StoreKey :
          wins[k] = IF Saved(k) THEN 1 ELSE 0

IInv ==
    /\ TypeOK
    /\ CallInv
    /\ StoreInv
    /\ OneSave
    /\ SaveInv
    /\ PromiseInv
    /\ WinsInv

-----------------------------------------------------------------------------
(* What arrives of a key is a key as the service knows it.                   *)
LEMMA UrlArrives ==
    ASSUME NEW k \in Key
    PROVE  RequestUrl(k) \in Wire /\ RequestUrl(k).party = k.party
BY DEF RequestUrl, Key, Wire, WireSub

(* Its place in the map.                                                     *)
LEMMA PlaceInMap ==
    ASSUME NEW w \in Wire
    PROVE  createKey(w) \in StoreKey
BY DEF createKey, Wire, StoreKey

(* A call that is not idle has its arguments.                                *)
LEMMA CallTyped ==
    ASSUME TypeOK, CallInv, NEW c \in Caller, pc[c] # "idle"
    PROVE  /\ call[c] \in Call
           /\ call[c].op \in {"lookup", "associate", "disassociate"}
           /\ call[c].key \in Wire
           /\ Place(c) \in StoreKey
           /\ call[c].op # "lookup" => [key |-> call[c].key, fsp |-> call[c].fsp] \in Record
<1>1. call[c] \in Call
  BY DEF TypeOK, CallInv
<1> QED BY <1>1, PlaceInMap DEF CallInv, Call, Record, Place

(* The owners of the map are associations that are none of them null.        *)
LEMMA ValuesTyped ==
    ASSUME TypeOK
    PROVE  Values(memory) \subseteq Record
BY DEF TypeOK, Values

LEMMA InitIInv == Init => IInv
<1> SUFFICES ASSUME Init PROVE IInv
  OBVIOUS
<1>1. TypeOK
  <2>1. memory \in [StoreKey -> Record \cup {Null}] /\ acked \in [StoreKey -> Fsp \cup {Null}]
    BY DEF Init, Nothing
  <2>2. wins \in [StoreKey -> Int]
    BY DEF Init
  <2> QED BY <2>1, <2>2 DEF Init, TypeOK, Steps
<1>2. \A c \in Caller : pc[c] = "idle" /\ ~Handling(c)
  BY DEF Init, Handling
<1>3. CallInv /\ OneSave /\ StoreInv /\ SaveInv
  BY <1>2 DEF Init, CallInv, OneSave, StoreInv, SaveInv, Nothing
<1>4. PromiseInv
  BY <1>2, RemoteAssumption DEF Init, PromiseInv, Nothing
<1>5. \A op, k : Unconfirmed(op, k) = {}
  BY <1>2 DEF Unconfirmed
<1>6. WinsInv
  BY <1>5, FS_EmptySet DEF Init, WinsInv, Saved
<1> QED BY <1>1, <1>3, <1>4, <1>6 DEF IInv

(* The steps keep the types.                                                 *)
LEMMA TypeStep == TypeOK /\ CallInv /\ [Next]_vars => TypeOK'
<1> SUFFICES ASSUME TypeOK, CallInv, [Next]_vars PROVE TypeOK'
  OBVIOUS
<1> USE RemoteAssumption DEF oracleVars, requestVars, counters, history
<1>1. ASSUME Start PROVE TypeOK'
  <2>1. file.data \subseteq Record
    BY DEF TypeOK
  <2>2. memory' \in [StoreKey -> Record \cup {Null}]
    BY <1>1, <2>1 DEF Start, _loadFromFile
  <2> QED BY <1>1, <2>2 DEF Start, TypeOK
<1>2. ASSUME Stop PROVE TypeOK'
  BY <1>2 DEF Stop, TypeOK
<1>3. ASSUME Exit PROVE TypeOK'
  BY <1>3 DEF Exit, TypeOK, Nothing
<1>4. ASSUME Crash PROVE TypeOK'
  BY <1>4 DEF Crash, TypeOK, Nothing, Steps
<1>5. ASSUME NEW c \in Caller, Request(c) PROVE TypeOK'
  <2>1. ASSUME NEW op \in {"lookup", "associate", "disassociate"}, NEW k \in Keys,
               NEW f \in Fsp \cup {Null}, Send(c, op, k, f), writes' \in Nat
        PROVE  TypeOK'
    BY <2>1, UrlArrives DEF Send, TypeOK, Call, Steps
  <2> QED BY <1>5, <2>1 DEF Request, SendLookup, SendWrite, TypeOK
<1>6. ASSUME NEW c \in Caller, NEW v \in Fsp \cup {Null, Failed}, Finish(c, v)
      PROVE  /\ pc' \in [Caller -> Steps]
             /\ call' \in [Caller -> Call \cup {Null}]
             /\ contents' \in [Caller -> SUBSET Record]
             /\ answer' \in [Caller -> Fsp \cup {Null, Failed}]
  BY <1>6 DEF Finish, TypeOK, Steps
<1>7. ASSUME NEW c \in Caller, _saveToFile(c), Values(memory') \subseteq Record
       PROVE  /\ pc' \in [Caller -> Steps]
              /\ contents' \in [Caller -> SUBSET Record]
              /\ overlapped' \in BOOLEAN
  <2>1. overlapped' = TRUE \/ overlapped' = FALSE
    BY <1>7 DEF _saveToFile, TypeOK
  <2> QED BY <1>7, <2>1 DEF _saveToFile, TypeOK, Steps
<1>8. ASSUME NEW c \in Caller, getParticipantFspId(c) PROVE TypeOK'
  <2>1. Place(c) \in StoreKey
    BY <1>8, CallTyped DEF getParticipantFspId, Arrived
  <2>2. Found(call[c].key) # Null => Found(call[c].key).fsp \in Fsp
    BY <2>1 DEF Found, TypeOK, Place, Record
  <2> QED BY <1>8, <1>6, <2>2 DEF getParticipantFspId, TypeOK
<1>9. ASSUME NEW c \in Caller, associateParticipant(c) PROVE TypeOK'
  <2> DEFINE rec == [key |-> call[c].key, fsp |-> call[c].fsp]
  <2>1. rec \in Record /\ createKey(rec.key) \in StoreKey
    BY <1>9, CallTyped DEF associateParticipant, Arrived, Place
  <2>2. CASE Found(rec.key) # Null
    BY <1>9, <2>2, <1>6 DEF associateParticipant, Refuse, TypeOK
  <2>3. CASE Found(rec.key) = Null
    <3>1. memory' \in [StoreKey -> Record \cup {Null}] /\ asked' \subseteq Record
      BY <1>9, <2>1, <2>3 DEF associateParticipant, TypeOK
    <3>2. Values(memory') \subseteq Record
      BY <3>1 DEF Values
    <3>3. _saveToFile(c) /\ UNCHANGED <<call, answer>>
      BY <1>9, <2>3 DEF associateParticipant
    <3> QED BY <1>9, <1>7, <3>1, <3>2, <3>3 DEF associateParticipant, TypeOK
  <2> QED BY <2>2, <2>3
<1>10. ASSUME NEW c \in Caller, disassociateParticipant(c) PROVE TypeOK'
  <2>1. CASE Refuse(c)
    BY <1>10, <2>1, <1>6 DEF disassociateParticipant, Refuse, TypeOK
  <2>2. CASE ~Refuse(c)
    <3>1. memory' \in [StoreKey -> Record \cup {Null}]
      BY <1>10, <2>2 DEF disassociateParticipant, TypeOK
    <3>2. Values(memory') \subseteq Record
      BY <3>1 DEF Values
    <3>3. _saveToFile(c) /\ UNCHANGED <<call, answer, asked>>
      BY <1>10, <2>2 DEF disassociateParticipant
    <3> QED BY <1>10, <1>7, <3>1, <3>2, <3>3 DEF disassociateParticipant, TypeOK
  <2> QED BY <2>1, <2>2
<1>11. ASSUME NEW c \in Caller, OpenFile(c) PROVE TypeOK'
  BY <1>11 DEF OpenFile, TypeOK, Steps
<1>12. ASSUME NEW c \in Caller, WriteFile(c) PROVE TypeOK'
  BY <1>12 DEF WriteFile, TypeOK, Steps
<1>13. ASSUME NEW c \in Caller, SaveFails(c) PROVE TypeOK'
  BY <1>13, <1>6 DEF SaveFails, TypeOK
<1>14. ASSUME NEW c \in Caller, Respond(c) PROVE TypeOK'
  <2>1. call[c].fsp \in Fsp \cup {Null}
    BY <1>14, CallTyped DEF Respond, Call
  <2>2. acked' \in [StoreKey -> Fsp \cup {Null}]
    BY <1>14, <2>1 DEF Respond, TypeOK
  <2>3. wins' \in [StoreKey -> Int]
    <3>1. \A k \in StoreKey : wins[k] + 1 \in Int /\ wins[k] - 1 \in Int
      BY DEF TypeOK
    <3> QED BY <1>14, <3>1 DEF Respond, TypeOK
  <2> QED BY <1>14, <1>6, <2>2, <2>3 DEF Respond, TypeOK
<1>15. ASSUME NEW c \in Caller, Lose(c) PROVE TypeOK'
  BY <1>15, <1>6 DEF Lose, ConnectionRefused, RequestLost, ResponseLost, TypeOK
<1>16. CASE UNCHANGED vars
  BY <1>16 DEF vars, TypeOK
<1> QED
  BY <1>1, <1>2, <1>3, <1>4, <1>5, <1>8, <1>9, <1>10, <1>11, <1>12, <1>13, <1>14,
     <1>15, <1>16 DEF Next, Handle

-----------------------------------------------------------------------------
(* Saves go on as they are.                                                  *)
SameSaves ==
    \A d \in Caller :
        /\ Handling(d)' <=> Handling(d)
        /\ Handling(d) => /\ pc'[d] = pc[d]
                          /\ call'[d] = call[d]
                          /\ contents'[d] = contents[d]
        /\ contents'[d] \in {contents[d], {}}

(* A step of calls that are not being saved: what the other parts of the     *)
(* invariant speak of stays.                                                 *)
Aside ==
    /\ UNCHANGED <<memory, file, asked, acked, wins, overlapped, lossy>>
    /\ status' = "down" <=> status = "down"
    /\ SameSaves

(* A write that is accepted: the map is changed and its save begins.         *)
Accept(c) ==
    /\ associateParticipant(c) \/ disassociateParticipant(c)
    /\ _saveToFile(c)

(* Every step is one of these.                                               *)
LEMMA StepCases ==
    ASSUME TypeOK, [Next]_vars
    PROVE  \/ Aside
           \/ Start \/ Exit \/ Crash
           \/ \E c \in Caller : \/ Accept(c) \/ OpenFile(c) \/ WriteFile(c)
                                \/ SaveFails(c) \/ Respond(c) \/ ResponseLost(c)
<1> USE DEF oracleVars, requestVars, counters, history
<1>1. ASSUME NEW c \in Caller, NEW v, pc[c] = "sent", Finish(c, v)
      PROVE  SameSaves
  BY <1>1 DEF Finish, SameSaves, Handling, TypeOK
<1>2. ASSUME Stop PROVE Aside
  BY <1>2 DEF Stop, Aside, SameSaves, Handling
<1>3. ASSUME NEW c \in Caller, NEW op, NEW k, NEW f, Send(c, op, k, f)
      PROVE  Aside
  BY <1>3 DEF Send, Aside, SameSaves, Handling, TypeOK
<1>4. ASSUME NEW c \in Caller, Request(c) PROVE Aside
  BY <1>4, <1>3 DEF Request, SendLookup, SendWrite
<1>5. ASSUME NEW c \in Caller, getParticipantFspId(c) PROVE Aside
  BY <1>5, <1>1 DEF getParticipantFspId, Arrived, Aside
<1>6. ASSUME NEW c \in Caller, associateParticipant(c) PROVE Aside \/ Accept(c)
  <2>1. CASE Refuse(c)
    BY <1>6, <2>1, <1>1 DEF associateParticipant, Arrived, Refuse, Aside
  <2> QED BY <1>6, <2>1 DEF associateParticipant, Accept
<1>7. ASSUME NEW c \in Caller, disassociateParticipant(c) PROVE Aside \/ Accept(c)
  <2>1. CASE Refuse(c)
    BY <1>7, <2>1, <1>1 DEF disassociateParticipant, Arrived, Refuse, Aside
  <2> QED BY <1>7, <2>1 DEF disassociateParticipant, Accept
<1>8. ASSUME NEW c \in Caller, ConnectionRefused(c) PROVE Aside
  BY <1>8 DEF ConnectionRefused, Aside, SameSaves, Handling
<1>9. ASSUME NEW c \in Caller, RequestLost(c) PROVE Aside
  BY <1>9, <1>1 DEF RequestLost, Aside
<1>10. CASE UNCHANGED vars
  BY <1>10 DEF vars, Aside, SameSaves, Handling
<1> QED
  BY <1>2, <1>4, <1>5, <1>6, <1>7, <1>8, <1>9, <1>10 DEF Next, Handle, Lose

(* What an accepted write does.  Which kind it is can be told from the map.  *)
LEMMA AcceptEffect ==
    ASSUME TypeOK, CallInv, NEW c \in Caller, Accept(c)
    PROVE  /\ status # "down" /\ ~Handling(c) /\ pc[c] # "idle"
           /\ \A d \in Caller : Handling(d)' <=> Handling(d) \/ d = c
           /\ UNCHANGED <<status, file, call, acked, wins, lossy>>
           /\ overlapped' = (overlapped \/ ~Quiescent)
           /\ contents' = [contents EXCEPT ![c] = Values(memory')]
           /\ pc' = [pc EXCEPT ![c] = "open"]
           /\ call[c].op # "lookup"
           /\ Place(c) \in StoreKey
           /\ \A k \in StoreKey : k # Place(c) => memory'[k] = memory[k]
           /\ \/ /\ call[c].op = "associate"
                 /\ memory[Place(c)] = Null
                 /\ memory'[Place(c)] = [key |-> call[c].key, fsp |-> call[c].fsp]
                 /\ memory'[Place(c)] \in Record
                 /\ asked' = asked \cup {memory'[Place(c)]}
              \/ /\ call[c].op = "disassociate"
                 /\ memory[Place(c)] # Null
                 /\ memory'[Place(c)] = Null
                 /\ asked' = asked
<1>1. pc[c] = "sent" /\ call[c].op # "lookup" /\ status # "down"
  BY DEF Accept, associateParticipant, disassociateParticipant, Arrived
<1>2. /\ Place(c) \in StoreKey
      /\ [key |-> call[c].key, fsp |-> call[c].fsp] \in Record
  BY <1>1, CallTyped
<1>3. \A d \in Caller : Handling(d)' <=> Handling(d) \/ d = c
  BY <1>1 DEF Accept, _saveToFile, Handling, TypeOK
<1>4. ~Refuse(c)
  BY DEF Accept, Refuse, _saveToFile, Finish, TypeOK
<1>5. CASE associateParticipant(c)
  BY <1>1, <1>2, <1>3, <1>4, <1>5
     DEF Accept, associateParticipant, Arrived, Found, _saveToFile, Handling, Place, TypeOK,
         counters
<1>6. CASE disassociateParticipant(c)
  BY <1>1, <1>2, <1>3, <1>4, <1>6
     DEF Accept, disassociateParticipant, Arrived, Found, _saveToFile, Handling, Place, TypeOK,
         counters
<1> QED BY <1>5, <1>6 DEF Accept

(* A save that ends leaves the others as they are.                           *)
LEMMA EndEffect ==
    ASSUME TypeOK, NEW c \in Caller, SaveFails(c) \/ Respond(c) \/ ResponseLost(c)
    PROVE  /\ Handling(c)
           /\ UNCHANGED <<status, memory, asked, overlapped>>
           /\ \A d \in Caller :
                 /\ Handling(d)' <=> Handling(d) /\ d # c
                 /\ d # c => /\ pc'[d] = pc[d]
                             /\ call'[d] = call[d]
                             /\ contents'[d] = contents[d]
           /\ pc'[c] = "idle" /\ call'[c] = Null /\ contents'[c] = {}
BY DEF SaveFails, Respond, ResponseLost, Finish, Handling, TypeOK, oracleVars

(* A save in the middle.                                                     *)
LEMMA SaveEffect ==
    ASSUME TypeOK, NEW c \in Caller, OpenFile(c) \/ WriteFile(c)
    PROVE  /\ Handling(c)
           /\ UNCHANGED <<status, memory, call, contents, asked, acked, wins, overlapped, lossy>>
           /\ \A d \in Caller : Handling(d)' <=> Handling(d)
           /\ \A d \in Caller : d # c => pc'[d] = pc[d]
BY DEF OpenFile, WriteFile, Handling, TypeOK, oracleVars, history

LEMMA CallStep == TypeOK /\ CallInv /\ [Next]_vars => CallInv'
<1> SUFFICES ASSUME TypeOK, CallInv, [Next]_vars PROVE CallInv'
  OBVIOUS
<1> USE NullAssumption DEF oracleVars, requestVars, counters, history
<1>1. ASSUME NEW c \in Caller, NEW op \in {"lookup", "associate", "disassociate"},
             NEW k \in Keys, NEW f \in Fsp \cup {Null}, op = "lookup" <=> f = Null,
             Send(c, op, k, f)
      PROVE  CallInv'
  <2>1. [op |-> op, key |-> RequestUrl(k), fsp |-> f] \in Call
    BY UrlArrives, RemoteAssumption DEF Call
  <2> QED BY <1>1, <2>1 DEF Send, CallInv, Handling, TypeOK
<1>2. ASSUME NEW c \in Caller, Request(c) PROVE CallInv'
  <2>1. Null \notin Fsp
    BY RemoteAssumption
  <2>2. ASSUME NEW k \in Keys, SendLookup(c, k) PROVE CallInv'
    BY <2>2, <1>1 DEF SendLookup
  <2>3. ASSUME NEW k \in Keys, NEW f \in Fsp, NEW op \in {"associate", "disassociate"},
               SendWrite(c, op, k, f)
        PROVE  CallInv'
    BY <2>1, <2>3, <1>1 DEF SendWrite
  <2> QED BY <1>2, <2>2, <2>3 DEF Request
<1>3. ASSUME NEW c \in Caller, NEW v, Finish(c, v), UNCHANGED status PROVE CallInv'
  BY <1>3 DEF Finish, CallInv, Handling, TypeOK
<1>4. ASSUME NEW c \in Caller, Accept(c) PROVE CallInv'
  <2>1. call' = call /\ status' = status /\ pc' = [pc EXCEPT ![c] = "open"]
    BY <1>4, AcceptEffect
  <2>2. pc[c] # "idle" /\ call[c].op # "lookup" /\ status # "down"
    BY <1>4, AcceptEffect
  <2> QED BY <2>1, <2>2 DEF CallInv, Handling, TypeOK
<1>5. ASSUME NEW c \in Caller, OpenFile(c) \/ WriteFile(c) PROVE CallInv'
  BY <1>5 DEF OpenFile, WriteFile, CallInv, Handling, TypeOK
<1>6. ASSUME Start \/ Stop PROVE CallInv'
  BY <1>6 DEF Start, Stop, CallInv, Handling
<1>7. ASSUME Exit PROVE CallInv'
  BY <1>7 DEF Exit, Quiescent, CallInv, Handling
<1>8. ASSUME Crash PROVE CallInv'
  BY <1>8 DEF Crash, CallInv, Handling
<1>9. ASSUME NEW c \in Caller, Handle(c) PROVE CallInv'
  <2>1. CASE getParticipantFspId(c)
    BY <2>1, <1>3 DEF getParticipantFspId
  <2>2. CASE associateParticipant(c)
    BY <2>2, <1>3, <1>4 DEF associateParticipant, Refuse, Accept
  <2>3. CASE disassociateParticipant(c)
    BY <2>3, <1>3, <1>4 DEF disassociateParticipant, Refuse, Accept
  <2>4. CASE SaveFails(c) \/ Respond(c)
    BY <2>4, <1>3 DEF SaveFails, Respond
  <2> QED BY <1>9, <1>5, <2>1, <2>2, <2>3, <2>4 DEF Handle
<1>10. ASSUME NEW c \in Caller, Lose(c) PROVE CallInv'
  <2>1. CASE ConnectionRefused(c)
    BY <2>1 DEF ConnectionRefused, CallInv, Handling
  <2> QED BY <1>10, <2>1, <1>3 DEF Lose, RequestLost, ResponseLost
<1>11. CASE UNCHANGED vars
  BY <1>11 DEF vars, CallInv, Handling
<1> QED BY <1>2, <1>6, <1>7, <1>8, <1>9, <1>10, <1>11 DEF Next

(* Only what was accepted gets into the map, the saves and the file.         *)
LEMMA StoreStep == TypeOK /\ CallInv /\ StoreInv /\ [Next]_vars => StoreInv'
<1> SUFFICES ASSUME TypeOK, CallInv, StoreInv, [Next]_vars PROVE StoreInv'
  OBVIOUS
<1>1. CASE Aside
  BY <1>1 DEF Aside, SameSaves, StoreInv
<1>2. CASE Start
  <2>1. \A k \in StoreKey : memory'[k] # Null =>
           memory'[k] \in file.data /\ createKey(memory'[k].key) = k
    BY <1>2 DEF Start, _loadFromFile
  <2> QED BY <2>1, <1>2 DEF Start, StoreInv, requestVars, history
<1>3. CASE Exit
  BY <1>3 DEF Exit, Nothing, StoreInv, requestVars
<1>4. CASE Crash
  BY <1>4 DEF Crash, Nothing, StoreInv
<1>5. ASSUME NEW c \in Caller, Accept(c) PROVE StoreInv'
  <2>1. \A k \in StoreKey : memory'[k] # Null =>
           memory'[k] \in asked' /\ createKey(memory'[k].key) = k
    <3>1. asked \subseteq asked'
      BY <1>5, AcceptEffect
    <3>2. ASSUME memory'[Place(c)] # Null
          PROVE  memory'[Place(c)] \in asked' /\ createKey(memory'[Place(c)].key) = Place(c)
      <4>1. /\ memory'[Place(c)] = [key |-> call[c].key, fsp |-> call[c].fsp]
            /\ memory'[Place(c)] \in asked'
        BY <1>5, <3>2, AcceptEffect
      <4>2. memory'[Place(c)].key = call[c].key
        BY <4>1
      <4> QED BY <4>1, <4>2 DEF Place
    <3>3. \A k \in StoreKey : k # Place(c) => memory'[k] = memory[k]
      BY <1>5, AcceptEffect
    <3> QED BY <3>1, <3>2, <3>3 DEF StoreInv
  <2>2. DOMAIN memory' = StoreKey
    BY <1>5, TypeStep DEF TypeOK
  <2>3. Values(memory') \subseteq asked'
    BY <2>1, <2>2 DEF Values
  <2> QED BY <1>5, <2>1, <2>3, AcceptEffect DEF StoreInv, TypeOK
<1>6. ASSUME NEW c \in Caller, OpenFile(c) \/ WriteFile(c) PROVE StoreInv'
  <2>1. file'.data \subseteq asked
    BY <1>6 DEF OpenFile, WriteFile, StoreInv
  <2> QED BY <1>6, <2>1, SaveEffect DEF StoreInv
<1>7. ASSUME NEW c \in Caller, SaveFails(c) \/ Respond(c) \/ ResponseLost(c) PROVE StoreInv'
  <2>1. file'.data \subseteq asked
    BY <1>7 DEF SaveFails, Respond, ResponseLost, StoreInv
  <2> QED BY <1>7, <2>1, EndEffect DEF StoreInv
<1> QED BY <1>1, <1>2, <1>3, <1>4, <1>5, <1>6, <1>7, StepCases

-----------------------------------------------------------------------------
LEMMA OneSaveStep == TypeOK /\ CallInv /\ OneSave /\ [Next]_vars => OneSave'
<1> SUFFICES ASSUME TypeOK, CallInv, OneSave, [Next]_vars PROVE OneSave'
  OBVIOUS
<1>1. CASE Aside
  BY <1>1 DEF Aside, SameSaves, OneSave
<1>2. CASE Start \/ Exit
  BY <1>2 DEF Start, Exit, OneSave, Handling, requestVars, history
<1>3. CASE Crash
  BY <1>3 DEF Crash, OneSave, Handling
<1>4. ASSUME NEW c \in Caller, Accept(c) PROVE OneSave'
  BY <1>4, AcceptEffect DEF OneSave, Quiescent
<1>5. ASSUME NEW c \in Caller, OpenFile(c) \/ WriteFile(c) PROVE OneSave'
  BY <1>5, SaveEffect DEF OneSave
<1>6. ASSUME NEW c \in Caller, SaveFails(c) \/ Respond(c) \/ ResponseLost(c) PROVE OneSave'
  BY <1>6, EndEffect DEF OneSave
<1> QED BY <1>1, <1>2, <1>3, <1>4, <1>5, <1>6, StepCases

LEMMA SaveStep == TypeOK /\ CallInv /\ OneSave /\ SaveInv /\ [Next]_vars => SaveInv'
<1> SUFFICES ASSUME TypeOK, CallInv, OneSave, SaveInv, [Next]_vars, ~overlapped', ~lossy'
             PROVE  SaveInv'
  BY DEF SaveInv
<1>1. CASE Aside
  BY <1>1 DEF Aside, SameSaves, SaveInv, Handling, Values
<1>2. CASE Start
  <2>1. \A c \in Caller : ~Handling(c) /\ ~Handling(c)'
    BY <1>2 DEF Start, CallInv, Handling, requestVars
  <2> QED BY <2>1, <1>2 DEF Start, SaveInv, Handling, requestVars, history
<1>3. CASE Exit
  BY <1>3 DEF Exit, Quiescent, SaveInv, Handling, requestVars
<1>4. CASE Crash
  <2>1. Quiescent /\ ~overlapped /\ ~lossy
    BY <1>4 DEF Crash, TypeOK
  <2>2. UNCHANGED file
    BY <2>1, <1>4 DEF Crash, Quiescent, Handling
  <2>3. \A c \in Caller : pc'[c] = "idle"
    BY <1>4 DEF Crash
  <2> QED BY <2>1, <2>2, <2>3 DEF SaveInv, Handling
<1>5. ASSUME NEW c \in Caller, Accept(c) PROVE SaveInv'
  <2>1. Quiescent /\ ~overlapped /\ ~lossy /\ UNCHANGED file
    BY <1>5, AcceptEffect
  <2>2. \A d \in Caller : Handling(d)' => d = c
    BY <1>5, <2>1, AcceptEffect DEF Quiescent
  <2>3. pc'[c] = "open" /\ contents'[c] = Values(memory)'
    BY <1>5, AcceptEffect DEF TypeOK, Values
  <2> QED BY <2>1, <2>2, <2>3 DEF SaveInv, Handling
<1>6. ASSUME NEW c \in Caller, OpenFile(c) PROVE SaveInv'
  <2>1. ~overlapped /\ ~lossy
    BY <1>6, SaveEffect
  <2>2. \A d \in Caller : Handling(d)' => d = c
    BY <1>6, <2>1, SaveEffect DEF OneSave
  <2>3. contents'[c] = Values(memory)'
    BY <1>6, <2>1, SaveEffect DEF SaveInv, Values
  <2>4. pc'[c] = "write" /\ file' = [state |-> "empty", data |-> {}]
    BY <1>6 DEF OpenFile, TypeOK
  <2> QED BY <2>2, <2>3, <2>4 DEF SaveInv, Handling
<1>7. ASSUME NEW c \in Caller, WriteFile(c) PROVE SaveInv'
  <2>1. ~overlapped /\ ~lossy
    BY <1>7, SaveEffect
  <2>2. \A d \in Caller : Handling(d)' => d = c
    BY <1>7, <2>1, SaveEffect DEF OneSave
  <2>3. contents[c] = Values(memory) /\ file.state = "empty"
    <3>1. Handling(c) /\ pc[c] = "write"
      BY <1>7 DEF WriteFile, Handling
    <3> QED BY <3>1, <2>1 DEF SaveInv
  <2>4. contents'[c] = Values(memory)'
    BY <1>7, <2>3, SaveEffect DEF Values
  <2>5. pc'[c] = "respond" /\ file' = [state |-> "json", data |-> contents[c]]
    BY <1>7, <2>3 DEF WriteFile, TypeOK
  <2>6. file'.state # "corrupt" /\ file'.data = contents'[c]
    BY <2>5, <2>3, <1>7, SaveEffect
  <2> QED BY <2>2, <2>4, <2>5, <2>6 DEF SaveInv, Handling
<1>8. ASSUME NEW c \in Caller, SaveFails(c) \/ Respond(c) \/ ResponseLost(c) PROVE SaveInv'
  <2>1. Respond(c) /\ ~overlapped /\ ~lossy
    BY <1>8 DEF SaveFails, Respond, ResponseLost
  <2>2. \A d \in Caller : ~Handling(d)'
    BY <2>1, EndEffect DEF OneSave
  <2>3. UNCHANGED file
    BY <2>1 DEF Respond
  <2> QED BY <2>1, <2>2, <2>3 DEF SaveInv, Handling
<1> QED BY <1>1, <1>2, <1>3, <1>4, <1>5, <1>6, <1>7, <1>8, StepCases

(* What a save writes has the owners of the map.                             *)
LEMMA OwnerInValues ==
    ASSUME TypeOK, StoreInv, NEW k \in StoreKey, NEW f \in Fsp
    PROVE  Owner(k) = f <=> \E rec \in Values(memory) : createKey(rec.key) = k /\ rec.fsp = f
<1>1. f # Null
  BY RemoteAssumption
<1>2. ASSUME Owner(k) = f
      PROVE  \E rec \in Values(memory) : createKey(rec.key) = k /\ rec.fsp = f
  BY <1>1, <1>2 DEF Owner, Values, StoreInv, TypeOK
<1>3. ASSUME NEW rec \in Values(memory), createKey(rec.key) = k, rec.fsp = f
      PROVE  Owner(k) = f
  <2>1. PICK j \in StoreKey : memory[j] = rec /\ rec # Null
    BY DEF Values, TypeOK
  <2>2. j = k
    BY <2>1, <1>3 DEF StoreInv
  <2> QED BY <2>1, <2>2, <1>3 DEF Owner
<1> QED BY <1>2, <1>3

LEMMA PromiseStep ==
    TypeOK /\ CallInv /\ StoreInv /\ OneSave /\ SaveInv /\ PromiseInv /\ [Next]_vars
    => PromiseInv'
<1> SUFFICES ASSUME TypeOK, CallInv, StoreInv, OneSave, SaveInv, PromiseInv, [Next]_vars,
                    ~overlapped', ~lossy'
             PROVE  PromiseInv'
  BY DEF PromiseInv
<1> USE DEF Place
<1>1. CASE Aside
  <2>1. \A k : Owner(k)' = Owner(k)
    BY <1>1 DEF Aside, Owner
  <2>2. ~overlapped /\ ~lossy /\ UNCHANGED <<file, acked>> /\ (status' = "down" <=> status = "down")
    BY <1>1 DEF Aside
  <2>3. \A c \in Caller : Handling(c)' <=> Handling(c)
    BY <1>1 DEF Aside, SameSaves
  <2>4. \A c \in Caller : Handling(c) => call'[c] = call[c]
    BY <1>1 DEF Aside, SameSaves
  <2> QED BY <2>1, <2>2, <2>3, <2>4 DEF PromiseInv, Quiescent
<1>2. CASE Start
  <2>1. \A c \in Caller : ~Handling(c) /\ ~Handling(c)'
    BY <1>2 DEF Start, CallInv, Handling, requestVars
  <2>2. ~overlapped /\ ~lossy /\ UNCHANGED <<file, acked>>
    BY <1>2 DEF Start, history
  <2>3. \A k \in StoreKey, f \in Fsp :
           acked[k] = f <=> \E rec \in file.data : createKey(rec.key) = k /\ rec.fsp = f
    BY <2>1, <2>2 DEF PromiseInv, Quiescent
  <2>4. ASSUME NEW k \in StoreKey PROVE acked[k] = Owner(k)'
    <3>1. CASE Saved(k)
      <4>1. memory'[k] \in file.data /\ createKey(memory'[k].key) = k
        BY <3>1, <1>2 DEF Start, _loadFromFile, Saved
      <4>2. memory'[k] \in Record /\ memory'[k] # Null
        BY <4>1, NullAssumption DEF TypeOK
      <4>3. acked[k] = memory'[k].fsp
        BY <4>1, <4>2, <2>3 DEF Record
      <4> QED BY <4>2, <4>3 DEF Owner
    <3>2. CASE ~Saved(k)
      <4>1. memory'[k] = Null
        BY <3>2, <1>2 DEF Start, _loadFromFile, Saved
      <4>2. acked[k] = Null
        BY <3>2, <2>3 DEF TypeOK, Saved
      <4> QED BY <4>1, <4>2 DEF Owner
    <3> QED BY <3>1, <3>2
  <2> QED BY <2>1, <2>2, <2>3, <2>4 DEF PromiseInv
<1>3. CASE Exit
  <2>1. ~overlapped /\ ~lossy /\ Quiescent /\ status' = "down" /\ UNCHANGED <<file, acked, pc>>
    BY <1>3 DEF Exit, requestVars, TypeOK
  <2> QED BY <2>1 DEF PromiseInv, Quiescent, Handling
<1>4. CASE Crash
  <2>1. Quiescent /\ ~overlapped /\ ~lossy /\ status' = "down" /\ UNCHANGED acked
    BY <1>4 DEF Crash, TypeOK
  <2>2. UNCHANGED file
    BY <2>1, <1>4 DEF Crash, Quiescent, Handling
  <2>3. \A c \in Caller : ~Handling(c)'
    BY <1>4 DEF Crash, Handling
  <2> QED BY <2>1, <2>2, <2>3 DEF PromiseInv
<1>5. ASSUME NEW c \in Caller, Accept(c) PROVE PromiseInv'
  <2>1. Quiescent /\ ~overlapped /\ ~lossy /\ status # "down" /\ UNCHANGED <<acked, call>>
    BY <1>5, AcceptEffect
  <2>2. \A d \in Caller : Handling(d)' <=> d = c
    BY <1>5, <2>1, AcceptEffect DEF Quiescent
  <2>3. \A k \in StoreKey : k # Place(c) => acked[k] = Owner(k) /\ Owner(k)' = Owner(k)
    BY <1>5, <2>1, AcceptEffect DEF PromiseInv, Quiescent, Owner
  <2>4. Place(c)' = Place(c) /\ Place(c) \in StoreKey
    BY <1>5, AcceptEffect
  <2>5. Owner(Place(c))' = IF call[c].op = "associate" THEN call[c].fsp ELSE Null
    <3>1. CASE call[c].op = "associate"
      <4>1. /\ memory'[Place(c)] = [key |-> call[c].key, fsp |-> call[c].fsp]
            /\ memory'[Place(c)] \in Record
        BY <1>5, <3>1, AcceptEffect
      <4>2. memory'[Place(c)] # Null /\ memory'[Place(c)].fsp = call[c].fsp
        BY <4>1, NullAssumption
      <4> QED BY <4>2, <3>1, <2>4 DEF Owner
    <3>2. CASE call[c].op # "associate"
      <4>1. memory'[Place(c)] = Null
        BY <1>5, <3>2, AcceptEffect
      <4> QED BY <4>1, <3>2, <2>4 DEF Owner
    <3> QED BY <3>1, <3>2
  <2> QED BY <2>1, <2>2, <2>3, <2>4, <2>5 DEF PromiseInv, Quiescent
<1>6. ASSUME NEW c \in Caller, OpenFile(c) \/ WriteFile(c) PROVE PromiseInv'
  <2>1. \A k : Owner(k)' = Owner(k)
    BY <1>6, SaveEffect DEF Owner
  <2> QED BY <1>6, <2>1, SaveEffect DEF PromiseInv, Quiescent
<1>7. ASSUME NEW c \in Caller, SaveFails(c) \/ Respond(c) \/ ResponseLost(c) PROVE PromiseInv'
  <2>1. Respond(c) /\ pc[c] = "respond" /\ ~overlapped /\ ~lossy /\ UNCHANGED <<file, memory>>
    <3>1. Respond(c)
      BY <1>7 DEF SaveFails, ResponseLost
    <3> QED BY <3>1 DEF Respond, oracleVars
  <2>2. \A d \in Caller : Handling(d) <=> d = c
    BY <2>1, EndEffect DEF OneSave
  <2>3. \A d \in Caller : ~Handling(d)'
    BY <2>1, <2>2, EndEffect
  <2>4. Place(c) \in StoreKey /\ status # "down"
    BY <2>1, <2>2, CallTyped DEF CallInv
  <2>5. \A k \in StoreKey : k # Place(c) => acked[k] = Owner(k)
    BY <2>1, <2>2, <2>4 DEF PromiseInv
  <2>6. acked' = [acked EXCEPT ![Place(c)] =
                     IF call[c].op = "associate" THEN call[c].fsp ELSE Null]
    BY <2>1 DEF Respond
  <2>7. Owner(Place(c)) = IF call[c].op = "associate" THEN call[c].fsp ELSE Null
    BY <2>1, <2>2 DEF PromiseInv
  <2>8. \A k \in StoreKey : acked'[k] = Owner(k)
    BY <2>4, <2>5, <2>6, <2>7 DEF TypeOK
  <2>9. file.data = Values(memory)
    BY <2>1 DEF SaveInv
  <2>10. \A k \in StoreKey, f \in Fsp :
            acked'[k] = f <=> \E rec \in file'.data : createKey(rec.key) = k /\ rec.fsp = f
    BY <2>1, <2>8, <2>9, OwnerInValues
  <2>11. \A k : Owner(k)' = Owner(k)
    BY <2>1 DEF Owner
  <2> QED BY <2>3, <2>8, <2>10, <2>11 DEF PromiseInv
<1> QED BY <1>1, <1>2, <1>3, <1>4, <1>5, <1>6, <1>7, StepCases

-----------------------------------------------------------------------------
Balanced(k) ==
    wins[k] + Cardinality(Unconfirmed("associate", k))
            - Cardinality(Unconfirmed("disassociate", k))
       = IF memory[k] = Null THEN 0 ELSE 1

(* The number of writes in progress is a number.                             *)
LEMMA UnconfirmedTyped ==
    ASSUME WinsInv, NEW k \in StoreKey, NEW op \in {"associate", "disassociate"}
    PROVE  IsFiniteSet(Unconfirmed(op, k)) /\ Cardinality(Unconfirmed(op, k)) \in Nat
BY FS_CardinalityType DEF WinsInv

(* Saves that only go on count as before.                                    *)
LEMMA WinsKept ==
    ASSUME WinsInv, UNCHANGED <<memory, wins, lossy>>, status' = "down" <=> status = "down",
           status = "down" => UNCHANGED file,
           \A op, k : Unconfirmed(op, k)' = Unconfirmed(op, k)
    PROVE  WinsInv'
BY DEF WinsInv, Saved

LEMMA WinsStep ==
    TypeOK /\ CallInv /\ StoreInv /\ PromiseInv /\ WinsInv /\ [Next]_vars => WinsInv'
<1> SUFFICES ASSUME TypeOK, CallInv, StoreInv, PromiseInv, WinsInv, [Next]_vars
             PROVE  WinsInv'
  OBVIOUS
<1> USE DEF Place
<1>1. CASE Aside
  <2>1. \A op, k : Unconfirmed(op, k)' = Unconfirmed(op, k)
    BY <1>1 DEF Aside, SameSaves, Unconfirmed
  <2> QED BY <2>1, <1>1, WinsKept DEF Aside
<1>2. ASSUME NEW c \in Caller, OpenFile(c) \/ WriteFile(c) PROVE WinsInv'
  <2>1. \A op, k : Unconfirmed(op, k)' = Unconfirmed(op, k)
    BY <1>2, SaveEffect DEF Unconfirmed
  <2>2. status # "down"
    BY <1>2, SaveEffect DEF CallInv
  <2> QED BY <2>1, <2>2, <1>2, SaveEffect, WinsKept
<1>3. ASSUME Quiescent
      PROVE  \A op, k : Unconfirmed(op, k) = {}
  BY <1>3 DEF Quiescent, Unconfirmed
<1>4. ASSUME Quiescent'
      PROVE  \A op, k : Unconfirmed(op, k)' = {}
  BY <1>4 DEF Quiescent, Unconfirmed
<1>5. CASE Start
  <2>1. Quiescent /\ Quiescent'
    BY <1>5 DEF Start, CallInv, Quiescent, Handling, requestVars
  <2>2. \A k \in StoreKey : memory'[k] = Null <=> ~Saved(k)
    BY <1>5, NullAssumption DEF Start, _loadFromFile, Saved, TypeOK
  <2>3. ~lossy' => \A k \in StoreKey : wins'[k] = IF memory'[k] = Null THEN 0 ELSE 1
    BY <1>5, <2>2 DEF Start, WinsInv, history
  <2>4. \A k \in StoreKey : wins'[k] \in Int
    BY <1>5 DEF Start, TypeOK, history
  <2>5. status' # "down"
    BY <1>5 DEF Start
  <2>6. \A op, k : Unconfirmed(op, k)' = {}
    BY <2>1, <1>4
  <2>7. ASSUME ~lossy', NEW k \in StoreKey PROVE Balanced(k)'
    <3>1. \A op : Cardinality(Unconfirmed(op, k)') = 0
      BY <2>6, FS_EmptySet
    <3>2. wins'[k] = IF memory'[k] = Null THEN 0 ELSE 1
      BY <2>3, <2>7
    <3> QED BY <3>1, <3>2, <2>4 DEF Balanced
  <2> QED BY <2>5, <2>6, <2>7, FS_EmptySet DEF WinsInv, Balanced
<1>6. ASSUME Quiescent, Quiescent', ~lossy' => ~overlapped /\ ~lossy, status # "down",
             status' = "down", UNCHANGED <<wins>>, ~lossy' => UNCHANGED file
      PROVE  WinsInv'
  <2>1. ASSUME ~lossy', NEW k \in StoreKey
        PROVE  wins'[k] = IF Saved(k)' THEN 1 ELSE 0
    <3>1. wins[k] = IF memory[k] = Null THEN 0 ELSE 1
      <4>1. wins[k] + 0 - 0 = IF memory[k] = Null THEN 0 ELSE 1
        BY <2>1, <1>3, <1>6, FS_EmptySet DEF WinsInv
      <4>2. wins[k] \in Int
        BY DEF TypeOK
      <4> QED BY <4>1, <4>2
    <3>2. acked[k] = Owner(k)
      BY <2>1, <1>6 DEF PromiseInv, Quiescent
    <3>3. \A f \in Fsp :
             acked[k] = f <=> \E rec \in file.data : createKey(rec.key) = k /\ rec.fsp = f
      BY <2>1, <1>6 DEF PromiseInv
    <3>4. acked[k] = Null \/ acked[k] \in Fsp
      BY DEF TypeOK
    <3>5. \A rec \in file.data : rec.fsp \in Fsp
      BY DEF TypeOK, Record
    <3>6. Saved(k) <=> acked[k] # Null
      BY <3>3, <3>4, <3>5, RemoteAssumption DEF Saved
    <3>7. Owner(k) # Null <=> memory[k] # Null
      BY RemoteAssumption DEF Owner, TypeOK, Record
    <3>8. Saved(k)' <=> Saved(k)
      BY <2>1, <1>6 DEF Saved
    <3> QED BY <3>1, <3>2, <3>6, <3>7, <3>8, <1>6
  <2> QED BY <2>1, <1>4, <1>6, FS_EmptySet DEF WinsInv
<1>7. CASE Exit
  <2>1. Quiescent /\ Quiescent' /\ status # "down" /\ (~lossy' => ~overlapped /\ ~lossy)
    BY <1>7 DEF Exit, Quiescent, Handling, requestVars, TypeOK
  <2> QED BY <2>1, <1>7, <1>6 DEF Exit
<1>8. CASE Crash
  <2>1. Quiescent'
    BY <1>8 DEF Crash, Quiescent, Handling
  <2>2. /\ status # "down" /\ status' = "down" /\ UNCHANGED wins
        /\ ~lossy' => Quiescent /\ ~overlapped /\ ~lossy
    BY <1>8 DEF Crash, TypeOK
  <2>3. ~lossy' => UNCHANGED file
    BY <2>2, <1>8 DEF Crash, Quiescent, Handling
  <2>4. CASE lossy'
    BY <2>1, <2>2, <2>4, <1>4, FS_EmptySet DEF WinsInv
  <2> QED BY <2>1, <2>2, <2>3, <2>4, <1>6
<1>9. ASSUME NEW c \in Caller, Accept(c) PROVE WinsInv'
  <2> DEFINE op == call[c].op
             p == Place(c)
  <2>1. /\ ~Handling(c) /\ status # "down" /\ UNCHANGED <<status, file, call, wins, lossy>>
        /\ p \in StoreKey
        /\ \A d \in Caller : Handling(d)' <=> Handling(d) \/ d = c
        /\ \A k \in StoreKey : k # p => memory'[k] = memory[k]
    BY <1>9, AcceptEffect
  <2>2. \/ op = "associate" /\ memory[p] = Null /\ memory'[p] # Null
        \/ op = "disassociate" /\ memory[p] # Null /\ memory'[p] = Null
    BY <1>9, AcceptEffect, NullAssumption
  <2>3. \A o, k : Unconfirmed(o, k)' =
                    IF o = op /\ k = p THEN Unconfirmed(o, k) \cup {c} ELSE Unconfirmed(o, k)
    BY <2>1 DEF Unconfirmed
  <2>4. \A o, k : c \notin Unconfirmed(o, k)
    BY <2>1 DEF Unconfirmed
  <2>5. ASSUME NEW k \in StoreKey, NEW o \in {"associate", "disassociate"}
        PROVE  /\ IsFiniteSet(Unconfirmed(o, k)')
               /\ Cardinality(Unconfirmed(o, k)') =
                     IF o = op /\ k = p THEN Cardinality(Unconfirmed(o, k)) + 1
                                       ELSE Cardinality(Unconfirmed(o, k))
    <3> HIDE DEF op, p
    <3> QED BY <2>3, <2>4, UnconfirmedTyped, FS_AddElement
  <2>6. \A k \in StoreKey, o \in {"associate", "disassociate"} : IsFiniteSet(Unconfirmed(o, k)')
    BY <2>5
  <2>7. ASSUME ~lossy', NEW k \in StoreKey PROVE Balanced(k)'
    <3>1. Balanced(k)
      BY <2>1, <2>7 DEF WinsInv, Balanced
    <3>2. /\ wins[k] \in Int
          /\ Cardinality(Unconfirmed("associate", k)) \in Nat
          /\ Cardinality(Unconfirmed("disassociate", k)) \in Nat
      BY UnconfirmedTyped DEF TypeOK
    <3> HIDE DEF op, p
    <3> QED BY <3>1, <3>2, <2>1, <2>2, <2>5 DEF Balanced
  <2> QED BY <2>1, <2>6, <2>7 DEF WinsInv, Balanced
<1>10. ASSUME NEW c \in Caller, SaveFails(c) \/ Respond(c) \/ ResponseLost(c) PROVE WinsInv'
  <2>1. /\ Handling(c) /\ UNCHANGED <<status, memory>>
        /\ \A d \in Caller : Handling(d)' <=> Handling(d) /\ d # c
        /\ \A d \in Caller : d # c => call'[d] = call[d]
    BY <1>10, EndEffect
  <2>2. \A o, k : Unconfirmed(o, k)' = Unconfirmed(o, k) \ {c}
    BY <2>1 DEF Unconfirmed
  <2>3. \A k \in StoreKey, o \in {"associate", "disassociate"} : IsFiniteSet(Unconfirmed(o, k)')
    BY <2>2, UnconfirmedTyped, FS_RemoveElement
  <2>4. status # "down" /\ status' # "down" /\ pc[c] # "idle"
    BY <2>1 DEF CallInv, Handling
  <2>5. ASSUME ~lossy', NEW k \in StoreKey PROVE Balanced(k)'
    <3>1. Respond(c) /\ ~lossy
      BY <1>10, <2>5 DEF SaveFails, Respond, ResponseLost
    <3>2. Balanced(k)
      BY <3>1, <2>4 DEF WinsInv, Balanced
    <3>3. /\ wins[k] \in Int
          /\ Cardinality(Unconfirmed("associate", k)) \in Nat
          /\ Cardinality(Unconfirmed("disassociate", k)) \in Nat
      BY UnconfirmedTyped DEF TypeOK
    <3>4. \A o \in {"associate", "disassociate"} :
             Cardinality(Unconfirmed(o, k)') =
                IF c \in Unconfirmed(o, k) THEN Cardinality(Unconfirmed(o, k)) - 1
                                           ELSE Cardinality(Unconfirmed(o, k))
      BY <2>2, UnconfirmedTyped, FS_RemoveElement
    <3>5. call[c].op \in {"associate", "disassociate"}
      BY <2>1, <2>4, CallTyped DEF CallInv
    <3>6. \A o \in {"associate", "disassociate"} :
             c \in Unconfirmed(o, k) <=> call[c].op = o /\ Place(c) = k
      BY <2>1 DEF Unconfirmed
    <3>7. wins'[k] = IF Place(c) = k
                     THEN IF call[c].op = "associate" THEN wins[k] + 1 ELSE wins[k] - 1
                     ELSE wins[k]
      BY <3>1 DEF Respond, TypeOK
    <3>8. memory'[k] = memory[k]
      BY <2>1
    <3> HIDE DEF Place
    <3> QED BY <3>2, <3>3, <3>4, <3>5, <3>6, <3>7, <3>8 DEF Balanced
  <2> QED BY <2>3, <2>4, <2>5 DEF WinsInv, Balanced
<1> QED BY <1>1, <1>2, <1>5, <1>7, <1>8, <1>9, <1>10, StepCases

LEMMA Invariance == Spec => []IInv
<1>1. Init => IInv
  BY InitIInv
<1>2. IInv /\ [Next]_vars => IInv'
  BY TypeStep, CallStep, StoreStep, OneSaveStep, SaveStep, PromiseStep, WinsStep DEF IInv
<1> QED BY <1>1, <1>2, PTL DEF Spec

-----------------------------------------------------------------------------
(* The variables of RemoteOracle keep their types, for all parameters: in    *)
(* particular nothing but whole associations gets into the map, the file and *)
(* the saves.                                                                *)
THEOREM TypeCorrect == Spec => []TypeOK
<1>1. IInv => TypeOK
  BY DEF IInv
<1> QED BY <1>1, Invariance, PTL

(* Whatever was lost, torn or restarted, for any number of callers: what a   *)
(* lookup finds in the map of the service was accepted for the same party    *)
(* and currency.                                                             *)
THEOREM LookupsAreAccepted == Spec => []AnswersWereAccepted
<1>1. IInv => AnswersWereAccepted
  <2> SUFFICES ASSUME IInv, NEW k \in Keys, Found(RequestUrl(k)) # Null
               PROVE  \E a \in asked : /\ a.fsp = Found(RequestUrl(k)).fsp
                                       /\ a.key.party = k.party
                                       /\ a.key.cur = RequestUrl(k).cur
    BY DEF AnswersWereAccepted
  <2>1. RequestUrl(k) \in Wire /\ RequestUrl(k).party = k.party
    BY UrlArrives, RemoteAssumption
  <2>2. createKey(RequestUrl(k)) \in StoreKey
    BY <2>1, PlaceInMap
  <2>3. /\ Found(RequestUrl(k)) \in asked
        /\ createKey(Found(RequestUrl(k)).key) = createKey(RequestUrl(k))
    BY <2>2 DEF IInv, StoreInv, Found
  <2> QED BY <2>1, <2>3 DEF createKey
<1> QED BY <1>1, Invariance, PTL

(* Of any number of requests that race for a party, one wins: the check and  *)
(* the change of the map are one step, whatever the saves do.                *)
THEOREM OneWinsTheRace == Spec => []OneWinner
<1>1. IInv => OneWinner
  <2> SUFFICES ASSUME IInv, Quiescent, ~lossy, status = "up", NEW k \in StoreKey
               PROVE  wins[k] = IF memory[k] = Null THEN 0 ELSE 1
    BY DEF OneWinner
  <2>1. \A op : Unconfirmed(op, k) = {}
    BY DEF Quiescent, Unconfirmed
  <2>2. wins[k] + 0 - 0 = IF memory[k] = Null THEN 0 ELSE 1
    BY <2>1, FS_EmptySet DEF IInv, WinsInv
  <2>3. wins[k] \in Int
    BY DEF IInv, TypeOK
  <2> QED BY <2>2, <2>3
<1> QED BY <1>1, Invariance, PTL

(* A change that was confirmed is in the file, whenever the process ends, as *)
(* long as saves do not overlap and no change goes unconfirmed.              *)
THEOREM ConfirmedIsDurable == Spec => []AckedIsDurable
<1>1. IInv => AckedIsDurable
  BY DEF IInv, SaveInv, PromiseInv, AckedIsDurable
<1> QED BY <1>1, Invariance, PTL

-----------------------------------------------------------------------------
(* What the abstract store sees of a call. *)
Seen(c) ==
    IF pc[c] = "idle" THEN Null
    ELSE [op |-> call[c].op, key |-> call[c].key, fsp |-> call[c].fsp, done |-> Handling(c)]

(* The call of one caller changes, or of none.                               *)
LEMMA SeenStep ==
    ASSUME NEW c \in Caller, \A d \in Caller : d # c => Seen(d)' = Seen(d)
    PROVE  CallsSeen' = [CallsSeen EXCEPT ![c] = Seen(c)']
BY DEF CallsSeen, Seen

LEMMA SeenKept ==
    ASSUME \A d \in Caller : Seen(d)' = Seen(d)
    PROVE  CallsSeen' = CallsSeen
BY DEF CallsSeen, Seen

(* A call that is under way is a call of the abstract store.                 *)
LEMMA SeenTyped ==
    ASSUME TypeOK, CallInv, NEW c \in Caller, pc[c] # "idle"
    PROVE  /\ CallsSeen[c] \in Store!Call /\ CallsSeen[c] # Null
           /\ CallsSeen[c].op = call[c].op
           /\ CallsSeen[c].key = call[c].key
           /\ CallsSeen[c].fsp = call[c].fsp
           /\ CallsSeen[c].done = Handling(c)
<1>1. CallsSeen[c] = [op |-> call[c].op, key |-> call[c].key, fsp |-> call[c].fsp,
                      done |-> Handling(c)]
  BY DEF CallsSeen
<1>2. call[c] \in Call
  BY CallTyped
<1>3. Handling(c) \in BOOLEAN
  BY DEF Handling
<1>4. CallsSeen[c] \in Store!Call
  BY <1>1, <1>2, <1>3 DEF Call, Store!Call
<1> QED BY <1>1, <1>4, NullAssumption DEF Store!Call

(* Nobody waits while idle.                                                  *)
LEMMA SeenIdle ==
    ASSUME NEW c \in Caller, pc[c] = "idle"
    PROVE  CallsSeen[c] = Null
BY DEF CallsSeen

LEMMA InitStore == Init => Store!Init
<1> SUFFICES ASSUME Init PROVE Store!Init
  OBVIOUS
<1>1. Values(memory) = {}
  BY DEF Init, Nothing, Values
<1>2. CallsSeen = [c \in Caller |-> Null]
  BY DEF Init, CallsSeen
<1> QED BY <1>1, <1>2 DEF Init, Store!Init

(* A call that ends is told something.                                       *)
LEMMA FinishTells ==
    ASSUME TypeOK, NEW c \in Caller, NEW v, Finish(c, v), UNCHANGED <<memory, asked>>
    PROVE  Store!Tell(c, v)
<1>1. \A d \in Caller : d # c => Seen(d)' = Seen(d)
  BY DEF Finish, Seen, Handling, TypeOK
<1>2. Seen(c)' = Null
  BY DEF Finish, Seen, TypeOK
<1>3. CallsSeen' = [CallsSeen EXCEPT ![c] = Null]
  BY <1>1, <1>2, SeenStep
<1>4. UNCHANGED Values(memory)
  BY DEF Values
<1> QED BY <1>3, <1>4 DEF Store!Tell, Finish

(* A call whose end is a failure, accepted or not.                           *)
LEMMA FailureFails ==
    ASSUME TypeOK, CallInv, NEW c \in Caller, pc[c] # "idle", Finish(c, Failed),
           UNCHANGED <<memory, asked>>
    PROVE  Store!Fail(c)
BY FinishTells, SeenTyped DEF Store!Fail

LEMMA SendInvokes ==
    ASSUME TypeOK, CallInv, NEW c \in Caller, Request(c)
    PROVE  Store!Invoke(c)
<1>1. PICK k \in Keys, op \in {"lookup", "associate", "disassociate"}, f \in Fsp \cup {Null} :
         Send(c, op, k, f) /\ (op = "lookup" <=> f = Null)
  BY RemoteAssumption DEF Request, SendLookup, SendWrite
<1> DEFINE new == [op |-> op, key |-> RequestUrl(k), fsp |-> f, done |-> FALSE]
<1>2. new \in Store!Call
  BY UrlArrives, RemoteAssumption DEF Store!Call
<1>3. \A d \in Caller : d # c => Seen(d)' = Seen(d)
  BY <1>1 DEF Send, Seen, Handling, TypeOK
<1>4. Seen(c)' = new
  <2>1. Handling(c)' = FALSE
    BY <1>1 DEF Send, Handling, TypeOK
  <2> QED BY <1>1, <2>1 DEF Send, Seen, TypeOK
<1>5. CallsSeen' = [CallsSeen EXCEPT ![c] = new]
  BY <1>3, <1>4, SeenStep
<1>6. CallsSeen[c] = Null
  BY <1>1, SeenIdle DEF Send
<1>7. UNCHANGED <<Values(memory), asked, answer>>
  BY <1>1 DEF Send, Values, oracleVars, history
<1>8. ~new.done /\ (new.op = "lookup" <=> new.fsp = Null)
  BY <1>1
<1> HIDE DEF new
<1> QED BY <1>2, <1>5, <1>6, <1>7, <1>8 DEF Store!Invoke

(* A lookup is told the owner that the map has, or fails.                    *)
LEMMA LookupTells ==
    ASSUME TypeOK, CallInv, StoreInv, NEW c \in Caller, getParticipantFspId(c)
    PROVE  Store!TellOwner(c) \/ Store!Fail(c)
<1> DEFINE k == call[c].key
<1>1. pc[c] = "sent" /\ call[c].op = "lookup" /\ ~Handling(c)
  BY DEF getParticipantFspId, Arrived, Handling
<1>2. Finish(c, IF Found(k) = Null THEN Failed ELSE Found(k).fsp) /\ UNCHANGED <<memory, asked>>
  BY DEF getParticipantFspId, oracleVars, history
<1>3. CASE Found(k) = Null
  BY <1>1, <1>2, <1>3, FailureFails
<1>4. CASE Found(k) # Null
  <2>1. k \in Wire /\ createKey(k) \in StoreKey
    BY <1>1, CallTyped DEF Place
  <2>2. Found(k) \in Values(memory) /\ Found(k) \in Record /\ createKey(Found(k).key) = createKey(k)
    BY <2>1, <1>4 DEF Found, Values, StoreInv, TypeOK
  <2>3. <<k, Found(k).key>> \in SameEntry
    BY <2>1, <2>2 DEF SameEntry, Record
  <2>4. CallsSeen[c].key = k /\ Store!Waiting(c, "lookup")
    BY <1>1, SeenTyped DEF Store!Waiting
  <2>5. Found(k) \in Store!Matched(CallsSeen[c].key, Values(memory))
    BY <2>2, <2>3, <2>4 DEF Store!Matched
  <2>6. Store!Tell(c, Found(k).fsp)
    BY <1>2, <1>4, FinishTells
  <2> QED BY <2>4, <2>5, <2>6 DEF Store!TellOwner
<1> QED BY <1>3, <1>4

(* A call that takes effect stays what it was.                               *)
LEMMA TakesEffect ==
    ASSUME NEW r \in Store!Call, NEW q \in Store!Call,
           q.op = r.op, q.key = r.key, q.fsp = r.fsp, q.done = TRUE
    PROVE  q = [r EXCEPT !.done = TRUE]
BY DEF Store!Call

(* An accepted association is registered, an accepted disassociation takes   *)
(* away the association of its key.                                          *)
LEMMA AcceptTakesEffect ==
    ASSUME TypeOK, CallInv, StoreInv, NEW c \in Caller, Accept(c)
    PROVE  Store!Register(c) \/ Store!Drop(c)
<1> DEFINE k == call[c].key
           p == Place(c)
           new == [key |-> call[c].key, fsp |-> call[c].fsp]
<1>1. /\ ~Handling(c) /\ pc[c] # "idle" /\ UNCHANGED call
      /\ pc' = [pc EXCEPT ![c] = "open"]
      /\ p \in StoreKey
      /\ \A j \in StoreKey : j # p => memory'[j] = memory[j]
  BY AcceptEffect
<1>2. CallsSeen' = [CallsSeen EXCEPT ![c].done = TRUE]
  <2>1. \A d \in Caller : d # c => Seen(d)' = Seen(d)
    BY <1>1 DEF Seen, Handling, TypeOK
  <2>2. Seen(c)' = [Seen(c) EXCEPT !.done = TRUE]
    <3>1. Handling(c)' = TRUE /\ pc'[c] # "idle"
      BY <1>1 DEF Handling, TypeOK
    <3>2. call[c] \in Call
      BY <1>1, CallTyped
    <3>3. Seen(c)' \in Store!Call
      BY <1>1, <3>1, <3>2 DEF Seen, Call, Store!Call
    <3>4. Seen(c) \in Store!Call /\ Seen(c).op = call[c].op /\ Seen(c).key = call[c].key
          /\ Seen(c).fsp = call[c].fsp
      BY <1>1, SeenTyped DEF CallsSeen, Seen
    <3>5. Seen(c)'.op = call[c].op /\ Seen(c)'.key = call[c].key
          /\ Seen(c)'.fsp = call[c].fsp /\ Seen(c)'.done = TRUE
      BY <1>1, <3>1 DEF Seen
    <3> QED BY <3>3, <3>4, <3>5, TakesEffect
  <2>3. CallsSeen[c] = Seen(c)
    BY DEF CallsSeen, Seen
  <2> QED BY <2>1, <2>2, <2>3, SeenStep
<1>3. UNCHANGED answer
  <2>1. ~Refuse(c)
    BY DEF Accept, Refuse, _saveToFile, Finish, TypeOK
  <2> QED BY <2>1 DEF Accept, associateParticipant, disassociateParticipant
<1>4. k \in Wire /\ CallsSeen[c].key = k /\ CallsSeen[c].fsp = call[c].fsp
      /\ CallsSeen[c].op = call[c].op /\ CallsSeen[c] # Null /\ CallsSeen[c].done = FALSE
  <2>1. Handling(c) = FALSE
    BY <1>1 DEF Handling
  <2> QED BY <1>1, <2>1, SeenTyped, CallTyped
<1>5. \A a \in Values(memory) : createKey(a.key) = p => a = memory[p]
  BY DEF Values, StoreInv, TypeOK
<1>6. memory[p] # Null => memory[p] \in Values(memory) /\ memory[p] \in Record
                          /\ createKey(memory[p].key) = p
  BY <1>1 DEF Values, StoreInv, TypeOK
<1>7. DOMAIN memory = StoreKey /\ DOMAIN memory' = StoreKey
  <2>1. TypeOK'
    BY TypeStep DEF Accept, Next, Handle
  <2> QED BY <2>1 DEF TypeOK
<1>8. Store!Mark(c)
  BY <1>2, <1>3 DEF Store!Mark
<1>9. CASE call[c].op = "associate"
  <2>1. memory[p] = Null /\ memory'[p] = new /\ new # Null /\ asked' = asked \cup {new}
    BY <1>9, AcceptEffect, NullAssumption
  <2>2. Values(memory') = Values(memory) \cup {new}
    BY <2>1, <1>1, <1>7 DEF Values
  <2>3. Store!Matched(k, Values(memory)) = {}
    <3>1. ASSUME NEW a \in Values(memory), <<k, a.key>> \in SameEntry PROVE FALSE
      <4>1. createKey(a.key) = p
        BY <3>1 DEF SameEntry, Place
      <4> QED BY <4>1, <1>5, <2>1 DEF Values
    <3> QED BY <3>1 DEF Store!Matched
  <2>4. Store!Waiting(c, "associate")
    BY <1>4, <1>9 DEF Store!Waiting
  <2>5. Store!Register(c)
    BY <1>4, <1>8, <2>1, <2>2, <2>3, <2>4 DEF Store!Register, Values
  <2> QED BY <2>5
<1>10. CASE call[c].op # "associate"
  <2>1. call[c].op = "disassociate" /\ memory[p] # Null /\ memory'[p] = Null /\ asked' = asked
    BY <1>10, AcceptEffect
  <2>2. disassociateParticipant(c) /\ memory[p].fsp = call[c].fsp
    <3>1. ~Refuse(c)
      BY DEF Accept, Refuse, _saveToFile, Finish, TypeOK
    <3> QED BY <3>1, <1>10 DEF Accept, associateParticipant, disassociateParticipant, Arrived,
                               Found, Place
  <2>3. Values(memory') = Values(memory) \ {memory[p]}
    BY <2>1, <1>1, <1>5, <1>6, <1>7 DEF Values, StoreInv
  <2>4. <<k, memory[p].key>> \in SameEntry
    BY <1>4, <1>6, <2>1 DEF SameEntry, Record, Place
  <2>5. memory[p] \in {a \in Store!Matched(k, Values(memory)) : a.fsp = call[c].fsp}
    BY <1>6, <2>1, <2>2, <2>4 DEF Store!Matched
  <2>6. Store!Waiting(c, "disassociate")
    BY <1>4, <2>1 DEF Store!Waiting
  <2>7. Store!Drop(c)
    BY <1>4, <1>8, <2>1, <2>3, <2>5, <2>6 DEF Store!Drop, Values
  <2> QED BY <2>7
<1> QED BY <1>9, <1>10

(* The end of the process and its start: the store comes back with what was  *)
(* registered once, and no call that took effect is left waiting.            *)
LEMMA LifeRestarts ==
    ASSUME TypeOK, CallInv, StoreInv, Start \/ Exit \/ Crash
    PROVE  Store!Restart
<1> USE DEF requestVars, history
<1>1. Values(memory') \subseteq asked
  <2>1. StoreInv' /\ TypeOK'
    BY StoreStep, TypeStep DEF Next
  <2>2. asked' = asked
    BY DEF Start, Exit, Crash
  <2> QED BY <2>1, <2>2 DEF Values, StoreInv, TypeOK
<1>2. CASE Start \/ Exit
  <2>1. Quiescent
    BY <1>2 DEF Start, Exit, Quiescent, CallInv
  <2>2. CallsSeen' = CallsSeen
    <3>1. \A d \in Caller : Seen(d)' = Seen(d)
      BY <1>2 DEF Start, Exit, Seen, Handling
    <3> QED BY <3>1, SeenKept
  <2>3. \A c \in Caller : CallsSeen[c] = Null \/ ~CallsSeen[c].done
    BY <2>1, SeenTyped, SeenIdle DEF Quiescent
  <2>4. /\ CallsSeen' = [c \in Caller |-> IF c \in {} THEN Null ELSE CallsSeen[c]]
        /\ answer' = [c \in Caller |-> IF c \in {} THEN Failed ELSE answer[c]]
    BY <1>2, <2>2 DEF Start, Exit, CallsSeen, TypeOK
  <2>5. UNCHANGED asked
    BY <1>2 DEF Start, Exit
  <2>6. \E lost \in SUBSET {c \in Caller : CallsSeen[c] # Null} :
           /\ \A c \in Caller \ lost : CallsSeen[c] = Null \/ ~CallsSeen[c].done
           /\ CallsSeen' = [c \in Caller |-> IF c \in lost THEN Null ELSE CallsSeen[c]]
           /\ answer' = [c \in Caller |-> IF c \in lost THEN Failed ELSE answer[c]]
    <3> WITNESS {} \in SUBSET {c \in Caller : CallsSeen[c] # Null}
    <3> QED BY <2>3, <2>4
  <2> QED BY <1>1, <2>5, <2>6 DEF Store!Restart, Values
<1>3. CASE Crash
  <2> DEFINE lost == {c \in Caller : CallsSeen[c] # Null}
  <2>1. \A c \in Caller : c \in lost <=> pc[c] # "idle"
    BY SeenTyped, SeenIdle
  <2>2. CallsSeen' = [c \in Caller |-> IF c \in lost THEN Null ELSE CallsSeen[c]]
    <3>1. \A c \in Caller : c \notin lost => CallsSeen[c] = Null
      OBVIOUS
    <3>2. CallsSeen' = [c \in Caller |-> Null]
      BY <1>3 DEF Crash, CallsSeen
    <3> QED BY <3>1, <3>2
  <2>3. answer' = [c \in Caller |-> IF c \in lost THEN Failed ELSE answer[c]]
    BY <1>3, <2>1 DEF Crash
  <2>4. UNCHANGED asked
    BY <1>3 DEF Crash
  <2> QED BY <1>1, <2>2, <2>3, <2>4 DEF Store!Restart, Values
<1> QED BY <1>2, <1>3

(* Each step of the oracle is a step of the store, or none that it sees.     *)
LEMMA StepOfStore == IInv /\ [Next]_vars => [Store!Next]_(Store!vars)
<1> SUFFICES ASSUME IInv, [Next]_vars PROVE [Store!Next]_(Store!vars)
  OBVIOUS
<1> USE DEF oracleVars, requestVars, counters, history
<1>1. TypeOK /\ CallInv /\ StoreInv
  BY DEF IInv
<1>2. ASSUME NEW c \in Caller, OpenFile(c) \/ WriteFile(c)
      PROVE  UNCHANGED Store!vars
  <2>1. \A d \in Caller : Seen(d)' = Seen(d)
    BY <1>2, <1>1 DEF OpenFile, WriteFile, Seen, Handling, TypeOK
  <2> QED BY <2>1, <1>2, SeenKept DEF OpenFile, WriteFile, Store!vars, Values
<1>3. ASSUME NEW c \in Caller, Handle(c)
      PROVE  [Store!Next]_(Store!vars)
  <2>1. CASE getParticipantFspId(c)
    BY <2>1, <1>1, LookupTells DEF Store!Next
  <2>2. CASE Accept(c)
    BY <2>2, <1>1, AcceptTakesEffect DEF Store!Next
  <2>3. CASE Refuse(c) /\ pc[c] = "sent"
    BY <2>3, <1>1, FailureFails DEF Refuse, Store!Next
  <2>4. CASE associateParticipant(c)
    BY <2>4, <2>2, <2>3 DEF associateParticipant, Accept, Arrived
  <2>5. CASE disassociateParticipant(c)
    BY <2>5, <2>2, <2>3 DEF disassociateParticipant, Accept, Arrived
  <2>6. CASE SaveFails(c)
    BY <2>6, <1>1, FailureFails DEF SaveFails, Store!Next
  <2>7. CASE Respond(c)
    <3>1. CallsSeen[c] # Null /\ CallsSeen[c].done
      BY <2>7, <1>1, SeenTyped DEF Respond, Handling
    <3>2. Store!Confirm(c)
      BY <2>7, <3>1, <1>1, FinishTells DEF Respond, Store!Confirm
    <3> QED BY <3>2 DEF Store!Next
  <2> QED BY <1>2, <1>3, <2>1, <2>4, <2>5, <2>6, <2>7 DEF Handle
<1>4. ASSUME NEW c \in Caller, Lose(c)
      PROVE  [Store!Next]_(Store!vars)
  <2>1. CASE ConnectionRefused(c)
    <3>1. CallsSeen[c] = Null
      BY <2>1, SeenIdle DEF ConnectionRefused
    <3>2. CallsSeen' = CallsSeen
      BY <2>1 DEF ConnectionRefused, CallsSeen, Handling
    <3>3. Store!Reject(c)
      BY <2>1, <3>1, <3>2 DEF ConnectionRefused, Store!Reject, Values
    <3> QED BY <3>3 DEF Store!Next
  <2>2. CASE RequestLost(c) \/ ResponseLost(c)
    BY <2>2, <1>1, FailureFails DEF RequestLost, ResponseLost, Store!Next
  <2> QED BY <1>4, <2>1, <2>2 DEF Lose
<1>5. CASE Start \/ Exit \/ Crash
  BY <1>5, <1>1, LifeRestarts DEF Store!Next
<1>6. CASE Stop \/ UNCHANGED vars
  <2>1. \A d \in Caller : Seen(d)' = Seen(d)
    BY <1>6 DEF Stop, vars, Seen, Handling
  <2> QED BY <2>1, <1>6, SeenKept DEF Stop, vars, Store!vars, Values
<1>7. ASSUME NEW c \in Caller, Request(c)
      PROVE  [Store!Next]_(Store!vars)
  BY <1>7, <1>1, SendInvokes DEF Store!Next
<1> QED BY <1>3, <1>4, <1>5, <1>6, <1>7 DEF Next

(* The remote oracle is a strict store of associations (AssociationStore     *)
(* that is not Relaxed), for any number of callers, with lost requests and   *)
(* responses, failing saves, restarts and crashes.                           *)
THEOREM RemoteOracleIsStore == Spec => ImplementsStore
<1>1. Init => Store!Init
  BY InitStore
<1>2. IInv /\ [Next]_vars => [Store!Next]_(Store!vars)
  BY StepOfStore
<1> QED BY <1>1, <1>2, Invariance, PTL DEF Spec, ImplementsStore, Store!Spec

=============================================================================

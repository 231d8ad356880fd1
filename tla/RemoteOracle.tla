----------------------------- MODULE RemoteOracle -----------------------------
(***************************************************************************)
(* A remote oracle: HttpOracleProvider on the side of the account lookup    *)
(* service, and behind HTTP the http-oracle-svc, which keeps its            *)
(* associations in a map in memory and saves the whole map to a JSON file   *)
(* after every change.                                                      *)
(*                                                                         *)
(* A Caller is a call of the provider in flight.  Its request may be lost   *)
(* before it is handled, and its response after.  The map is read and       *)
(* changed without an await in between; the save is awaited, so requests    *)
(* meet in the file.                                                        *)
(***************************************************************************)
EXTENDS Integers, FiniteSets

CONSTANTS Party, SubType, Currency, Fsp, Caller,
          Null,          \* the code's null
          Failed,        \* the call threw
          Keys,          \* the lookup keys that requests use
          MayFail,       \* whether the file and the network may fail
          MaxWrites,     \* bound: associate and disassociate requests of a run
          MaxEnds        \* bound: ends of the oracle process

Key == [party : Party, sub : SubType \cup {Null}, cur : Currency \cup {Null}]

ASSUME RemoteAssumption ==
    /\ Null \notin SubType \cup Currency \cup Fsp
    /\ Failed \notin Fsp \cup {Null}
    /\ Keys \subseteq Key
    /\ MayFail \in BOOLEAN
    /\ MaxWrites \in Nat
    /\ MaxEnds \in Nat

(* What arrives of a key.  A sub type that was sent has swallowed the        *)
(* currency, so that it is a pair here.                                      *)
WireSub == (SubType \X (Currency \cup {Null})) \cup {Null}
Wire == [party : Party, sub : WireSub, cur : Currency \cup {Null}]

Record == [key : Wire, fsp : Fsp]
StoreKey == [party : Party, cur : Currency \cup {Null}]

Call == [op : {"lookup", "associate", "disassociate"}, key : Wire, fsp : Fsp \cup {Null}]

(* No object is null: neither an association, nor a request, nor what the     *)
(* abstract store at the end sees of one.                                    *)
ASSUME NullAssumption ==
    /\ Null \notin Record \cup Call
    /\ Null \notin [op : {"lookup", "associate", "disassociate"},
                   key : Wire, fsp : Fsp \cup {Null}, done : BOOLEAN]

VARIABLES
    status,       \* the oracle process: "down", "up" or, after a signal, "stopping"
    memory,       \* its map of associations
    file,         \* the JSON file: its state and the associations in it
    pc,           \* how far each call is: from "sent" on it is the service's turn
    call,         \* what it asks for, as it arrives
    contents,     \* the string its save is to write
    answer,       \* what the caller was told last
    writes, ends, \* counters for the bounds
    asked,        \* history: associations that were accepted
    acked,        \* history: the owner of each key, by the answers given
    wins,         \* history: associations less disassociations that were confirmed
    overlapped,   \* history: two saves were in progress at the same time
    lossy         \* history: a change was not confirmed, or confirmed and lost

oracleVars == <<status, memory>>
requestVars == <<pc, call, contents, answer>>
counters == <<writes, ends>>
history == <<asked, acked, wins, overlapped, lossy>>
vars == <<oracleVars, file, requestVars, counters, history>>

Steps == {"idle", "sent", "open", "write", "respond"}

TypeOK ==
    /\ status \in {"down", "up", "stopping"}
    /\ memory \in [StoreKey -> Record \cup {Null}]
    /\ file \in [state : {"missing", "empty", "json", "corrupt"}, data : SUBSET Record]
    /\ pc \in [Caller -> Steps]
    /\ call \in [Caller -> Call \cup {Null}]
    /\ contents \in [Caller -> SUBSET Record]
    /\ answer \in [Caller -> Fsp \cup {Null, Failed}]
    /\ writes \in Nat
    /\ ends \in Nat
    /\ asked \subseteq Record
    /\ acked \in [StoreKey -> Fsp \cup {Null}]
    /\ wins \in [StoreKey -> Int]
    /\ overlapped \in BOOLEAN
    /\ lossy \in BOOLEAN

Nothing == [k \in StoreKey |-> Null]

Init ==
    /\ status = "down"
    /\ memory = Nothing
    /\ file = [state |-> "missing", data |-> {}]
    /\ pc = [c \in Caller |-> "idle"]
    /\ call = [c \in Caller |-> Null]
    /\ contents = [c \in Caller |-> {}]
    /\ answer = [c \in Caller |-> Null]
    /\ writes = 0
    /\ ends = 0
    /\ asked = {}
    /\ acked = Nothing
    /\ wins = [k \in StoreKey |-> 0]
    /\ overlapped = FALSE
    /\ lossy = FALSE

Handling(c) == pc[c] \in {"open", "write", "respond"}

(* No change is under way.  Requests that nobody has handled do not count. *)
Quiescent == \A c \in Caller : ~Handling(c)

-----------------------------------------------------------------------------
(* Keys. *)

(* HttpOracleProvider appends "?partySubType=/.." and "?currency=..": with   *)
(* both, the second is part of the value of the first.                       *)
RequestUrl(k) ==
    IF k.sub = Null THEN k
    ELSE [party |-> k.party, sub |-> <<k.sub, k.cur>>, cur |-> Null]

(* As createKey, without the currency. *)
KeyWithoutCurrency(wire) == [party |-> wire.party, cur |-> Null]

(* The key of the map leaves out the sub type. *)
createKey(wire) == [party |-> wire.party, cur |-> wire.cur]

(* As Values, with the places of deleted entries. *)
ValuesAndHoles(m) == {m[k] : k \in DOMAIN m}

Values(m) == {m[k] : k \in DOMAIN m} \ {Null}

-----------------------------------------------------------------------------
(* The file. *)

(* As _saveToFile, with the contents put together before the change. *)
SaveBeforeChange(c) ==
    /\ pc' = [pc EXCEPT ![c] = "open"]
    /\ contents' = [contents EXCEPT ![c] = Values(memory)]
    /\ overlapped' = (overlapped \/ ~Quiescent)

(* The save begins: the contents are put together before the first await. *)
_saveToFile(c) ==
    /\ pc' = [pc EXCEPT ![c] = "open"]
    /\ contents' = [contents EXCEPT ![c] = Values(memory')]
    /\ overlapped' = (overlapped \/ ~Quiescent)

(* writeFile opens the file for writing, which truncates it... *)
OpenFile(c) ==
    /\ pc[c] = "open"
    /\ file' = [state |-> "empty", data |-> {}]
    /\ pc' = [pc EXCEPT ![c] = "write"]
    /\ UNCHANGED <<oracleVars, call, contents, answer, counters, history>>

(* ...and then writes from the start.  What another save has written in the  *)
(* meantime shows behind it if that was longer.                              *)
WriteFile(c) ==
    /\ pc[c] = "write"
    /\ \/ /\ \/ file.state \in {"missing", "empty", "corrupt"}
             \/ ~(contents[c] \subseteq file.data) \/ contents[c] = file.data
          /\ file' = [state |-> "json", data |-> contents[c]]
       \/ /\ file.state \in {"json", "corrupt"}
          /\ ~(file.data \subseteq contents[c]) \/ file.state = "corrupt"
          /\ file' = [state |-> "corrupt", data |-> {}]
    /\ pc' = [pc EXCEPT ![c] = "respond"]
    /\ UNCHANGED <<oracleVars, call, contents, answer, counters, history>>

-----------------------------------------------------------------------------
(* Sending a request and ending a call: HttpOracleProvider. *)

Send(c, op, k, f) ==
    /\ pc[c] = "idle"
    /\ status = "up"
    /\ pc' = [pc EXCEPT ![c] = "sent"]
    /\ call' = [call EXCEPT ![c] = [op |-> op, key |-> RequestUrl(k), fsp |-> f]]
    /\ UNCHANGED <<oracleVars, file, contents, answer, ends, history>>

SendLookup(c, k) == Send(c, "lookup", k, Null) /\ UNCHANGED writes

SendWrite(c, op, k, f) ==
    /\ writes < MaxWrites
    /\ writes' = writes + 1
    /\ Send(c, op, k, f)

(* The promise of the HTTP client settles: with a value, or it throws. *)
Finish(c, v) ==
    /\ pc' = [pc EXCEPT ![c] = "idle"]
    /\ call' = [call EXCEPT ![c] = Null]
    /\ contents' = [contents EXCEPT ![c] = {}]
    /\ answer' = [answer EXCEPT ![c] = v]

(* Nobody listens any more, or not yet: whatever is asked for fails. *)
ConnectionRefused(c) ==
    /\ pc[c] = "idle"
    /\ status # "up"
    /\ answer' = [answer EXCEPT ![c] = Failed]
    /\ UNCHANGED <<oracleVars, file, pc, call, contents, counters, history>>

(* The connection breaks before the service has read the request. *)
RequestLost(c) ==
    /\ pc[c] = "sent"
    /\ status # "up" \/ MayFail
    /\ Finish(c, Failed)
    /\ UNCHANGED <<oracleVars, file, counters, history>>

(* The save rejects: the request is answered with an error, but the map has  *)
(* changed.                                                                  *)
SaveFails(c) ==
    /\ MayFail
    /\ pc[c] \in {"open", "write"}
    /\ \/ UNCHANGED file
       \/ pc[c] = "write" /\ file' = [state |-> "corrupt", data |-> {}]
    /\ Finish(c, Failed)
    /\ lossy' = TRUE
    /\ UNCHANGED <<oracleVars, counters, asked, acked, wins, overlapped>>

(* The save is done and the route answers 200. *)
Respond(c) ==
    LET k == createKey(call[c].key)
        associated == call[c].op = "associate"
    IN
    /\ pc[c] = "respond"
    /\ acked' = [acked EXCEPT ![k] = IF associated THEN call[c].fsp ELSE Null]
    /\ wins' = [wins EXCEPT ![k] = IF associated THEN @ + 1 ELSE @ - 1]
    /\ Finish(c, Null)
    /\ UNCHANGED <<oracleVars, file, counters, asked, overlapped, lossy>>

(* The change is made and saved, but its response never arrives. *)
ResponseLost(c) ==
    /\ MayFail
    /\ pc[c] = "respond"
    /\ Finish(c, Failed)
    /\ lossy' = TRUE
    /\ UNCHANGED <<oracleVars, file, counters, asked, acked, wins, overlapped>>

-----------------------------------------------------------------------------
(* Handling a request: the routes and RemoteOracle. *)

Arrived(c, op) ==
    /\ pc[c] = "sent"
    /\ call[c].op = op
    /\ status # "down"

(* The route answers 500. *)
Refuse(c) ==
    /\ Finish(c, Failed)
    /\ UNCHANGED <<memory, asked, overlapped>>

Found(wire) == memory[createKey(wire)]

(* A route that finds nobody answers 404, of which the provider makes an     *)
(* error too.  A response that is lost looks like a lost request.            *)
getParticipantFspId(c) ==
    LET found == Found(call[c].key) IN
    /\ Arrived(c, "lookup")
    /\ Finish(c, IF found = Null THEN Failed ELSE found.fsp)
    /\ UNCHANGED <<oracleVars, file, counters, history>>

(* As associateParticipant, replacing an association that exists. *)
AssociateAnyway(c) ==
    LET rec == [key |-> call[c].key, fsp |-> call[c].fsp] IN
    /\ Arrived(c, "associate")
    /\ memory' = [memory EXCEPT ![createKey(rec.key)] = rec]
    /\ asked' = asked \cup {rec}
    /\ _saveToFile(c)
    /\ UNCHANGED <<status, file, call, answer, counters, acked, wins, lossy>>

(* Refused if the key has an owner, whoever it is. *)
associateParticipant(c) ==
    LET rec == [key |-> call[c].key, fsp |-> call[c].fsp] IN
    /\ Arrived(c, "associate")
    /\ \/ /\ Found(rec.key) = Null
          /\ memory' = [memory EXCEPT ![createKey(rec.key)] = rec]
          /\ asked' = asked \cup {rec}
          /\ _saveToFile(c)
          /\ UNCHANGED <<call, answer>>
       \/ /\ Found(rec.key) # Null
          /\ Refuse(c)
    /\ UNCHANGED <<status, file, counters, acked, wins, lossy>>

(* As disassociateParticipant, whoever the owner is. *)
DisassociateAnyOwner(c) ==
    /\ Arrived(c, "disassociate")
    /\ \/ /\ Found(call[c].key) # Null
          /\ memory' = [memory EXCEPT ![createKey(call[c].key)] = Null]
          /\ _saveToFile(c)
          /\ UNCHANGED <<call, answer, asked>>
       \/ /\ Found(call[c].key) = Null
          /\ Refuse(c)
    /\ UNCHANGED <<status, file, counters, acked, wins, lossy>>

(* Refused unless the key has this owner. *)
disassociateParticipant(c) ==
    LET held == Found(call[c].key)
        owned == held # Null /\ held.fsp = call[c].fsp
    IN
    /\ Arrived(c, "disassociate")
    /\ \/ /\ owned
          /\ memory' = [memory EXCEPT ![createKey(call[c].key)] = Null]
          /\ _saveToFile(c)
          /\ UNCHANGED <<call, answer, asked>>
       \/ /\ ~owned
          /\ Refuse(c)
    /\ UNCHANGED <<status, file, counters, acked, wins, lossy>>

-----------------------------------------------------------------------------
(* Life of the process. *)

(* The first record of a key wins.  A file that cannot be parsed keeps the   *)
(* service from starting, an empty one does not.                             *)
_loadFromFile ==
    /\ file.state # "corrupt"
    /\ memory' = [k \in StoreKey |->
          IF \E rec \in file.data : createKey(rec.key) = k
          THEN CHOOSE rec \in file.data : createKey(rec.key) = k
          ELSE Null]

Start ==
    /\ status = "down"
    /\ _loadFromFile
    /\ status' = "up"
    /\ UNCHANGED <<file, requestVars, counters, history>>

(* SIGINT or SIGTERM: the server is closed to new connections, and stop      *)
(* awaits that those it has are done.                                        *)
Stop ==
    /\ status = "up"
    /\ ends < MaxEnds
    /\ ends' = ends + 1
    /\ status' = "stopping"
    /\ UNCHANGED <<memory, file, requestVars, writes, history>>

Exit ==
    /\ status = "stopping"
    /\ Quiescent
    /\ status' = "down"
    /\ memory' = Nothing
    /\ lossy' = (lossy \/ overlapped)
    /\ UNCHANGED <<file, requestVars, counters, asked, acked, wins, overlapped>>

(* The process ends at once, and the calls it was serving with it: a crash,  *)
(* or the timer of the signal handler, which does not wait for ever.         *)
Crash ==
    /\ \/ status = "up" /\ ends < MaxEnds /\ ends' = ends + 1
       \/ status = "stopping" /\ UNCHANGED ends
    /\ status' = "down"
    /\ memory' = Nothing
    /\ pc' = [c \in Caller |-> "idle"]
    /\ call' = [c \in Caller |-> Null]
    /\ contents' = [c \in Caller |-> {}]
    /\ answer' = [c \in Caller |-> IF pc[c] = "idle" THEN answer[c] ELSE Failed]
    /\ lossy' = (lossy \/ overlapped \/ ~Quiescent)
    /\ \/ UNCHANGED file
       \/ /\ \E c \in Caller : pc[c] = "write"
          /\ file' = [state |-> "corrupt", data |-> {}]
    /\ UNCHANGED <<writes, asked, acked, wins, overlapped>>

-----------------------------------------------------------------------------
Request(c) ==
    \E k \in Keys :
        \/ SendLookup(c, k)
        \/ \E f \in Fsp, op \in {"associate", "disassociate"} : SendWrite(c, op, k, f)

Handle(c) ==
    \/ getParticipantFspId(c)
    \/ associateParticipant(c)
    \/ disassociateParticipant(c)
    \/ OpenFile(c)
    \/ WriteFile(c)
    \/ SaveFails(c)
    \/ Respond(c)

Lose(c) == ConnectionRefused(c) \/ RequestLost(c) \/ ResponseLost(c)

Next ==
    \/ Start \/ Stop \/ Exit \/ Crash
    \/ \E c \in Caller : Request(c) \/ Handle(c) \/ Lose(c)

Spec == Init /\ [][Next]_vars

-----------------------------------------------------------------------------
(***************************************************************************)
(* A confirmed change survives.  As long as no two saves overlapped, and     *)
(* every change was confirmed, the file between changes holds exactly the    *)
(* owners that the answers promised: a restart, by a signal or by a crash,   *)
(* loses nothing and brings nothing back.                                    *)
(***************************************************************************)
AckedIsDurable ==
    Quiescent /\ ~overlapped /\ ~lossy =>
        /\ file.state # "corrupt"
        /\ \A k \in StoreKey : \A f \in Fsp :
              acked[k] = f <=> \E rec \in file.data : createKey(rec.key) = k /\ rec.fsp = f

(***************************************************************************)
(* Of requests that race for a party one wins: between changes, the          *)
(* confirmed associations of a key less its confirmed disassociations are    *)
(* one while the map has an owner and none otherwise.  The check and the     *)
(* change of the map have no await between them.                             *)
(***************************************************************************)
OneWinner ==
    Quiescent /\ ~lossy /\ status = "up" =>
        \A k \in StoreKey : wins[k] = IF memory[k] = Null THEN 0 ELSE 1

(***************************************************************************)
(* Whatever crashed, overlapped or was torn, a lookup is told only an owner  *)
(* that was accepted for the same party and, where it reached the oracle,    *)
(* for the same currency.                                                    *)
(***************************************************************************)
AnswersWereAccepted ==
    \A k \in Keys : Found(RequestUrl(k)) # Null =>
        \E a \in asked :
            /\ a.fsp = Found(RequestUrl(k)).fsp
            /\ a.key.party = k.party
            /\ a.key.cur = RequestUrl(k).cur

(***************************************************************************)
(* The key of the map is made of the party, the sub type and the currency,   *)
(* so a lookup is told only an owner accepted for the same sub type.         *)
(***************************************************************************)
SubTypeRespected ==
    \A k \in Keys : Found(RequestUrl(k)) # Null =>
        \E a \in asked : a.fsp = Found(RequestUrl(k)).fsp /\ a.key.sub = RequestUrl(k).sub

-----------------------------------------------------------------------------
(* What the callers see of it: a write that was accepted has taken effect. *)

CallsSeen ==
    [c \in Caller |->
        IF pc[c] = "idle" THEN Null
        ELSE [op |-> call[c].op, key |-> call[c].key, fsp |-> call[c].fsp,
              done |-> Handling(c)]]

SameEntry == {m \in Wire \X Wire : createKey(m[1]) = createKey(m[2])}

Store == INSTANCE AssociationStore WITH
            Key <- Wire, Matching <- SameEntry,
            Relaxed <- FALSE, Volatile <- TRUE,
            owners <- Values(memory), registered <- asked, call <- CallsSeen

(***************************************************************************)
(* The remote oracle is such a store, and a strict one: a party has one      *)
(* owner at a time, a lookup is told the present one, and a confirmed write  *)
(* took effect exactly once, whatever was lost on the way.  Only the end of  *)
(* its process may take associations away, or bring some back.               *)
(***************************************************************************)
ImplementsStore == Store!Spec

=============================================================================

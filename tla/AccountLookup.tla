---------------------------- MODULE AccountLookup ----------------------------
(***************************************************************************)
(* The request pipeline of the account lookup service: the batch handler    *)
(* (AccountLookupEventHandler) reads domain requests from Kafka, passes     *)
(* them one by one to the aggregate (AccountLookupAggregate.handleEvent)    *)
(* and publishes the resulting events, one send per batch.                  *)
(*                                                                         *)
(* A Worker is a service instance with the partition assigned to it.  The   *)
(* workers share the participants service and the oracle.  Every await of   *)
(* the code is a step; in between the participants may change, the other    *)
(* workers run, and the worker may crash.                                   *)
(*                                                                         *)
(* The oracle appears here by what the adapters promise (a lookup answers   *)
(* an owner that was registered once, perhaps a stale one); BuiltinOracle   *)
(* is one of them in detail.                                                *)
(***************************************************************************)
EXTENDS Naturals, Sequences

CONSTANTS Worker, Party, Fsp,
          Null,          \* the code's null
          Logs,          \* the contents of the partitions to be explored
          Approval,      \* the initial states of the participants to be explored
          BatchSize,     \* CONSUMER_BATCH_SIZE
          MaxChanges,    \* bound: changes of a participant's state
          MaxFaults      \* bound: crashes and failed calls

Queries == {"PartyQueryReceivedEvt", "ParticipantQueryReceivedEvt"}
Callbacks == {"PartyInfoAvailableEvt", "PartyRejectedEvt", "ParticipantRejectedEvt"}
AssociationRequests == {"ParticipantAssociationRequestReceivedEvt",
                        "ParticipantDisassociateRequestReceivedEvt"}
Unknown == "UnknownEvt"                      \* any other message name
MsgName == Queries \cup Callbacks \cup AssociationRequests \cup {Unknown}

(* form: what _validateMessageOrGetErrorEvent looks at.  requester: the FSP  *)
(* a request speaks for, requesterFspId or, in AssociationRequests,          *)
(* ownerFspId.                                                               *)
Message == [name : MsgName,
            form : {"domain_event", "other_type", "no_payload"},
            party : Party,
            requester : Fsp \cup {Null},
            destination : Fsp \cup {Null}]

(* What getParticipantInfo reports of an FSP; only "active" passes. *)
Status == {"not_found", "id_mismatch", "not_approved", "not_active", "active"}

ASSUME NullAssumption == Null \notin Fsp

ASSUME LogsAssumption == Logs \subseteq [Worker -> Seq(Message)]

ASSUME ApprovalAssumption == Approval \subseteq [Fsp -> Status]

ASSUME BoundsAssumption ==
    BatchSize \in Nat \ {0} /\ MaxChanges \in Nat /\ MaxFaults \in Nat

SuccessReplies == {"PartyInfoRequestedEvt", "PartyQueryResponseEvt",
                   "ParticipantQueryResponseEvt", "PartyRejectedResponseEvt",
                   "ParticipantRejectedResponseEvt",
                   "ParticipantAssociationCreatedEvt",
                   "ParticipantAssociationRemovedEvt"}

ErrorReplies == {"InvalidMessagePayload", "InvalidMessageType", "UnknownError",
                 "UnableToGetParticipantFromOracle", "UnableToGetOracleAdapter",
                 "UnableToAssociateParticipant", "UnableToDisassociateParticipant",
                 "InvalidRequester", "RequesterNotFound", "RequesterIdMismatch",
                 "RequesterNotApproved", "RequesterNotActive",
                 "InvalidDestination", "DestinationNotFound",
                 "DestinationIdMismatch", "DestinationNotApproved",
                 "DestinationNotActive"}

(* A published event.  offset is the request it answers (the opaque state    *)
(* passed through), attempt the delivery it was produced in, vetted the FSPs *)
(* that were found active on the way.                                        *)
Event == [offset : Nat, attempt : Nat, name : SuccessReplies \cup ErrorReplies,
          dest : Fsp \cup {Null}, vetted : SUBSET Fsp]

AwaitSteps == {"requester", "adapter", "lookup", "destination", "associate",
               "disassociate"}

VARIABLES
    log,            \* the requests of each partition; never changes
    participants,   \* the participants service: the status of each FSP
    owners,         \* the oracle: pairs <<party, owner>>
    registered,     \* history: every pair the oracle ever held
    committed,      \* the last offset each partition is committed to
    published,      \* the events each worker has published
    pc,             \* where the batch handler of a worker is
    cur,            \* offset of the message it handles
    last,           \* offset of the last message of its batch
    todo,           \* the awaits of the message's handler still to come
    reply,          \* the event its handler is to return
    dest,           \* the destination or owner its handler knows of
    vetted,         \* the FSPs its handler found active
    outputs,        \* outputEvents
    failed,         \* the loop over the batch threw
    attempt,        \* deliveries so far
    changes, faults \* counters for the bounds

envVars == <<log, participants, changes>>
oracleVars == <<owners, registered>>
messageVars == <<todo, reply, dest, vetted>>
vars == <<log, participants, owners, registered, committed, published, pc, cur,
          last, todo, reply, dest, vetted, outputs, failed, attempt, changes, faults>>

PcValues == {"poll", "next", "run", "push", "send", "commit"}

TypeOK ==
    /\ log \in [Worker -> Seq(Message)]
    /\ participants \in [Fsp -> Status]
    /\ owners \subseteq Party \X Fsp
    /\ registered \subseteq Party \X Fsp
    /\ committed \in [Worker -> Nat]
    /\ published \in [Worker -> SUBSET Event]
    /\ pc \in [Worker -> PcValues]
    /\ cur \in [Worker -> Nat]
    /\ last \in [Worker -> Nat]
    /\ todo \in [Worker -> Seq(AwaitSteps)]
    /\ reply \in [Worker -> SuccessReplies \cup ErrorReplies]
    /\ dest \in [Worker -> Fsp \cup {Null}]
    /\ vetted \in [Worker -> SUBSET Fsp]
    /\ outputs \in [Worker -> SUBSET Event]
    /\ failed \in [Worker -> BOOLEAN]
    /\ attempt \in [Worker -> Nat]
    /\ changes \in Nat
    /\ faults \in Nat

Init ==
    /\ log \in Logs
    /\ participants \in Approval
    /\ owners = {}
    /\ registered = {}
    /\ committed = [w \in Worker |-> 0]
    /\ published = [w \in Worker |-> {}]
    /\ pc = [w \in Worker |-> "poll"]
    /\ cur = [w \in Worker |-> 0]
    /\ last = [w \in Worker |-> 0]
    /\ todo = [w \in Worker |-> <<>>]
    /\ reply = [w \in Worker |-> "UnknownError"]
    /\ dest = [w \in Worker |-> Null]
    /\ vetted = [w \in Worker |-> {}]
    /\ outputs = [w \in Worker |-> {}]
    /\ failed = [w \in Worker |-> FALSE]
    /\ attempt = [w \in Worker |-> 0]
    /\ changes = 0
    /\ faults = 0

-----------------------------------------------------------------------------
(* The handlers of the aggregate.  A handler awaits its steps in order and   *)
(* returns its reply; a step that goes wrong returns an error event instead. *)

(* As the handler below, trusting a destination that the request names. *)
TrustNamedDestination(m) ==
    [steps |-> IF m.destination = Null
               THEN <<"requester", "adapter", "lookup", "destination">>
               ELSE <<"requester">>,
     reply |-> "PartyInfoRequestedEvt"]

_handlePartyQueryReceivedEvt(m) ==
    [steps |-> IF m.destination = Null
               THEN <<"requester", "adapter", "lookup", "destination">>
               ELSE <<"requester", "destination">>,
     reply |-> "PartyInfoRequestedEvt"]

_handlePartyInfoAvailableEvt ==
    [steps |-> <<"requester", "destination">>, reply |-> "PartyQueryResponseEvt"]

_handleParticipantQueryReceivedEvt ==
    [steps |-> <<"requester", "adapter", "lookup", "destination">>,
     reply |-> "ParticipantQueryResponseEvt"]

_getPartyRejected ==
    [steps |-> <<"requester", "destination">>, reply |-> "PartyRejectedResponseEvt"]

_getParticipantRejected ==
    [steps |-> <<"requester", "destination">>, reply |-> "ParticipantRejectedResponseEvt"]

(* As the handler below, validating the owner after the write. *)
AssociateThenValidate ==
    [steps |-> <<"adapter", "associate", "requester">>,
     reply |-> "ParticipantAssociationCreatedEvt"]

_handleParticipantAssociationRequestReceivedEvt ==
    [steps |-> <<"requester", "adapter", "associate">>,
     reply |-> "ParticipantAssociationCreatedEvt"]

_handleParticipantDisassociateRequestReceivedEvt ==
    [steps |-> <<"requester", "adapter", "disassociate">>,
     reply |-> "ParticipantAssociationRemovedEvt"]

_validateMessageOrGetErrorEvent(m) ==
    [steps |-> <<>>,
     reply |-> IF m.form = "no_payload" THEN "InvalidMessagePayload"
                                        ELSE "InvalidMessageType"]

(* The dispatch on the message name; every message gets exactly one handler. *)
handleEvent(m) ==
    CASE m.form # "domain_event" -> _validateMessageOrGetErrorEvent(m)
      [] m.form = "domain_event" /\ m.name = "PartyQueryReceivedEvt" ->
            _handlePartyQueryReceivedEvt(m)
      [] m.form = "domain_event" /\ m.name = "PartyInfoAvailableEvt" ->
            _handlePartyInfoAvailableEvt
      [] m.form = "domain_event" /\ m.name = "ParticipantQueryReceivedEvt" ->
            _handleParticipantQueryReceivedEvt
      [] m.form = "domain_event" /\ m.name = "PartyRejectedEvt" -> _getPartyRejected
      [] m.form = "domain_event" /\ m.name = "ParticipantRejectedEvt" ->
            _getParticipantRejected
      [] m.form = "domain_event" /\ m.name = "ParticipantAssociationRequestReceivedEvt" ->
            _handleParticipantAssociationRequestReceivedEvt
      [] m.form = "domain_event" /\ m.name = "ParticipantDisassociateRequestReceivedEvt" ->
            _handleParticipantDisassociateRequestReceivedEvt
      [] m.form = "domain_event" /\ m.name = Unknown ->
            [steps |-> <<>>, reply |-> "InvalidMessageType"]

-----------------------------------------------------------------------------
(* Steps of a handler. *)

Msg(w) == log[w][cur[w]]

At(w, step) == pc[w] = "run" /\ Head(todo[w]) = step

(* The await went well: go on to the next one, or return the reply. *)
Advance(w) ==
    /\ todo' = [todo EXCEPT ![w] = Tail(@)]
    /\ pc' = [pc EXCEPT ![w] = IF Tail(todo[w]) = <<>> THEN "push" ELSE "run"]
    /\ UNCHANGED reply

(* As ReturnError, logging the error and returning no event. *)
ReturnNothing(w, e) ==
    /\ todo' = [todo EXCEPT ![w] = <<>>]
    /\ pc' = [pc EXCEPT ![w] = "push"]
    /\ reply' = [reply EXCEPT ![w] = Null]

(* Return the error event e. *)
ReturnError(w, e) ==
    /\ todo' = [todo EXCEPT ![w] = <<>>]
    /\ pc' = [pc EXCEPT ![w] = "push"]
    /\ reply' = [reply EXCEPT ![w] = e]

(* A call fails that need not. *)
Fault == faults < MaxFaults /\ faults' = faults + 1

batchVars == <<log, committed, published, cur, last, outputs, failed, attempt>>

RequesterError == [no_id |-> "InvalidRequester", not_found |-> "RequesterNotFound",
                   id_mismatch |-> "RequesterIdMismatch",
                   not_approved |-> "RequesterNotApproved",
                   not_active |-> "RequesterNotActive"]

DestinationError == [no_id |-> "InvalidDestination", not_found |-> "DestinationNotFound",
                     id_mismatch |-> "DestinationIdMismatch",
                     not_approved |-> "DestinationNotApproved",
                     not_active |-> "DestinationNotActive"]

(* The checks on FSP f, in the order in which they give up.  The adapter of  *)
(* the participants service turns a failed call into "not found".            *)
Validate(w, f, errors) ==
    /\ \/ /\ f # Null
          /\ participants[f] = "active"
          /\ Advance(w)
          /\ vetted' = [vetted EXCEPT ![w] = @ \cup {f}]
          /\ UNCHANGED faults
       \/ /\ f # Null
          /\ participants[f] # "active"
          /\ ReturnError(w, errors[participants[f]])
          /\ UNCHANGED <<vetted, faults>>
       \/ /\ f = Null
          /\ ReturnError(w, errors["no_id"])
          /\ UNCHANGED <<vetted, faults>>
       \/ /\ f # Null
          /\ Fault
          /\ ReturnError(w, errors["not_found"])
          /\ UNCHANGED vetted
    /\ UNCHANGED <<participants, changes, oracleVars, dest, batchVars>>

validateRequesterParticipantInfoOrGetErrorEvent(w) ==
    At(w, "requester") /\ Validate(w, Msg(w).requester, RequesterError)

(* As the action below, with the id of the requester passed for that of the  *)
(* destination.                                                              *)
ValidateRequesterTwice(w) ==
    At(w, "destination") /\ Validate(w, Msg(w).requester, DestinationError)

validateDestinationParticipantInfoOrGetErrorEvent(w) ==
    At(w, "destination") /\ Validate(w, dest[w], DestinationError)

(* The finder fails or knows no oracle for the party type, or this instance  *)
(* has no adapter for it, at any time.                                       *)
_getOracleAdapter(w) ==
    /\ At(w, "adapter")
    /\ \/ Advance(w)
       \/ ReturnError(w, IF Msg(w).name \in Queries
                         THEN "UnableToGetParticipantFromOracle"
                         ELSE "UnableToGetOracleAdapter")
    /\ UNCHANGED <<participants, changes, oracleVars, dest, vetted, faults, batchVars>>

(* As the lookup below, answering the requester when nobody owns the party. *)
FallBackToRequester(w) ==
    /\ At(w, "lookup")
    /\ dest' = [dest EXCEPT ![w] = Msg(w).requester]
    /\ Advance(w)
    /\ UNCHANGED <<participants, changes, oracleVars, vetted, faults, batchVars>>

(* As the lookup below, retrying until somebody owns the party. *)
WaitForOwner(w) ==
    /\ At(w, "lookup")
    /\ \E f \in Fsp :
          /\ <<Msg(w).party, f>> \in owners
          /\ dest' = [dest EXCEPT ![w] = f]
    /\ Advance(w)
    /\ UNCHANGED <<participants, changes, oracleVars, vetted, faults, batchVars>>

(* A lookup answers an owner the oracle holds or, from a cache, held once.   *)
_getParticipantIdFromOracle(w) ==
    /\ At(w, "lookup")
    /\ \/ \E f \in Fsp :
             /\ <<Msg(w).party, f>> \in registered
             /\ dest' = [dest EXCEPT ![w] = f]
             /\ Advance(w)
             /\ UNCHANGED faults
       \/ /\ \A f \in Fsp : <<Msg(w).party, f>> \notin owners
          /\ ReturnError(w, "UnableToGetParticipantFromOracle")
          /\ UNCHANGED <<dest, faults>>
       \/ /\ Fault
          /\ ReturnError(w, "UnableToGetParticipantFromOracle")
          /\ UNCHANGED dest
    /\ UNCHANGED <<participants, changes, oracleVars, vetted, batchVars>>

-----------------------------------------------------------------------------
(* Writes to the oracle.  Both kinds of oracle refuse to register a pair     *)
(* they hold, the remote one any second owner of a key; the remote one       *)
(* refuses to remove what it does not hold.  Of two equal documents in the   *)
(* built-in oracle a removal leaves one.                                     *)

Pair(w) == <<Msg(w).party, Msg(w).requester>>

Register(w) ==
    /\ owners' = owners \cup {Pair(w)}
    /\ registered' = registered \cup {Pair(w)}

Unregister(w) ==
    /\ owners' \in {owners, owners \ {Pair(w)}}
    /\ UNCHANGED registered

associateParticipant(w) ==
    /\ At(w, "associate")
    /\ \/ /\ Register(w)
          /\ Advance(w)
          /\ UNCHANGED faults
       \/ /\ \E o \in owners : o[1] = Msg(w).party
          /\ ReturnError(w, "UnableToAssociateParticipant")
          /\ UNCHANGED <<oracleVars, faults>>
       \/ /\ Fault
          /\ Register(w) \/ UNCHANGED oracleVars
          /\ ReturnError(w, "UnableToAssociateParticipant")
    /\ UNCHANGED <<participants, changes, dest, vetted, batchVars>>

disassociateParticipant(w) ==
    /\ At(w, "disassociate")
    /\ \/ /\ Unregister(w)
          /\ Advance(w)
          /\ UNCHANGED faults
       \/ /\ Pair(w) \notin owners
          /\ ReturnError(w, "UnableToDisassociateParticipant")
          /\ UNCHANGED <<oracleVars, faults>>
       \/ /\ Fault
          /\ Unregister(w)
          /\ ReturnError(w, "UnableToDisassociateParticipant")
    /\ UNCHANGED <<participants, changes, dest, vetted, batchVars>>

(* Anything else a handler throws, before, between or after its awaits, is   *)
(* caught by handleEvent; what it did to the oracle before stays.            *)
HandlerThrows(w) ==
    /\ pc[w] \in {"run", "push"}
    /\ Msg(w).form = "domain_event"
    /\ Fault
    /\ ReturnError(w, "UnknownError")
    /\ UNCHANGED <<participants, changes, oracleVars, dest, vetted, batchVars>>

-----------------------------------------------------------------------------
(* The batch handler, _batchMsgHandler, and the consumer that calls it. *)

EventOf(w) == [offset |-> cur[w], attempt |-> attempt[w], name |-> reply[w],
               dest |-> dest[w], vetted |-> vetted[w]]

(* The callback has ended, one way or the other: its local state is gone. *)
Leave(w) ==
    /\ pc' = [pc EXCEPT ![w] = "poll"]
    /\ cur' = [cur EXCEPT ![w] = 0]
    /\ last' = [last EXCEPT ![w] = 0]
    /\ todo' = [todo EXCEPT ![w] = <<>>]
    /\ reply' = [reply EXCEPT ![w] = "UnknownError"]
    /\ dest' = [dest EXCEPT ![w] = Null]
    /\ vetted' = [vetted EXCEPT ![w] = {}]
    /\ outputs' = [outputs EXCEPT ![w] = {}]
    /\ failed' = [failed EXCEPT ![w] = FALSE]

(* The consumer delivers what follows the committed offset: up to BatchSize  *)
(* messages, fewer when the batch timeout runs out.                          *)
Deliver(w) ==
    /\ pc[w] = "poll"
    /\ \E n \in 1..BatchSize :
          /\ committed[w] + n <= Len(log[w])
          /\ last' = [last EXCEPT ![w] = committed[w] + n]
    /\ cur' = [cur EXCEPT ![w] = committed[w] + 1]
    /\ pc' = [pc EXCEPT ![w] = "next"]
    /\ attempt' = [attempt EXCEPT ![w] = @ + 1]
    /\ UNCHANGED <<envVars, oracleVars, committed, published, messageVars, outputs,
                   failed, faults>>

TakeMessage(w) ==
    LET handler == handleEvent(Msg(w)) IN
    /\ pc[w] = "next"
    /\ cur[w] <= last[w]
    /\ todo' = [todo EXCEPT ![w] = handler.steps]
    /\ reply' = [reply EXCEPT ![w] = handler.reply]
    /\ dest' = [dest EXCEPT ![w] = Msg(w).destination]
    /\ vetted' = [vetted EXCEPT ![w] = {}]
    /\ pc' = [pc EXCEPT ![w] = IF handler.steps = <<>> THEN "push" ELSE "run"]
    /\ UNCHANGED <<envVars, oracleVars, committed, published, cur, last, outputs,
                   failed, attempt, faults>>

(* outputEvents.push with the opaque state of the request *)
PushOutput(w) ==
    /\ pc[w] = "push"
    /\ outputs' = [outputs EXCEPT ![w] = @ \cup {EventOf(w)}]
    /\ cur' = [cur EXCEPT ![w] = @ + 1]
    /\ pc' = [pc EXCEPT ![w] = "next"]
    /\ UNCHANGED <<envVars, oracleVars, committed, published, last, messageVars,
                   failed, attempt, faults>>

LeaveLoop(w) ==
    /\ pc[w] = "next"
    /\ cur[w] > last[w]
    /\ pc' = [pc EXCEPT ![w] = "send"]
    /\ UNCHANGED <<envVars, oracleVars, committed, published, cur, last, messageVars,
                   outputs, failed, attempt, faults>>

(* As TelemetryThrows, with the error logged and not thrown again. *)
SwallowError(w) ==
    /\ pc[w] \in {"next", "push"}
    /\ Fault
    /\ pc' = [pc EXCEPT ![w] = "send"]
    /\ UNCHANGED <<envVars, oracleVars, committed, published, cur, last, messageVars,
                   outputs, failed, attempt>>

(* As TelemetryThrows, with an error event pushed for the message at hand. *)
AnswerInCatch(w) ==
    /\ pc[w] = "next"
    /\ Fault
    /\ failed' = [failed EXCEPT ![w] = TRUE]
    /\ outputs' = [outputs EXCEPT ![w] =
          @ \cup {[EventOf(w) EXCEPT !.offset = cur[w] - 1, !.name = "UnknownError"]}]
    /\ pc' = [pc EXCEPT ![w] = "send"]
    /\ UNCHANGED <<envVars, oracleVars, committed, published, cur, last, messageVars,
                   attempt>>

(* Tracing or metrics throw, before a message is handled, before its event   *)
(* is pushed or after: the loop ends and the error is thrown again, but the  *)
(* finally block still sends what was pushed.                                *)
TelemetryThrows(w) ==
    /\ pc[w] \in {"next", "push"}
    /\ Fault
    /\ failed' = [failed EXCEPT ![w] = TRUE]
    /\ pc' = [pc EXCEPT ![w] = "send"]
    /\ UNCHANGED <<envVars, oracleVars, committed, published, cur, last, messageVars,
                   outputs, attempt>>

(* The finally block.  The consumer commits when the callback has resolved;  *)
(* when it rejected, it delivers the messages again.                         *)
Send(w) ==
    /\ pc[w] = "send"
    /\ published' = [published EXCEPT ![w] = @ \cup outputs[w]]
    /\ \/ /\ ~failed[w]
          /\ pc' = [pc EXCEPT ![w] = "commit"]
          /\ UNCHANGED <<cur, last, messageVars, outputs, failed>>
       \/ /\ failed[w]
          /\ Leave(w)
    /\ UNCHANGED <<envVars, oracleVars, committed, attempt, faults>>

(* The producer rejects after some of the events reached the broker. *)
SendFails(w) ==
    /\ pc[w] = "send"
    /\ outputs[w] # {}
    /\ Fault
    /\ \E sent \in SUBSET outputs[w] :
          published' = [published EXCEPT ![w] = @ \cup sent]
    /\ Leave(w)
    /\ UNCHANGED <<envVars, oracleVars, committed, attempt>>

Commit(w) ==
    /\ pc[w] = "commit"
    /\ committed' = [committed EXCEPT ![w] = last[w]]
    /\ Leave(w)
    /\ UNCHANGED <<envVars, oracleVars, published, attempt, faults>>

(* The process dies, or loses its partition, and starts again from the       *)
(* committed offset.                                                         *)
Crash(w) ==
    /\ pc[w] # "poll"
    /\ Fault
    /\ Leave(w)
    /\ UNCHANGED <<envVars, oracleVars, committed, published, attempt>>

(* The participants service learns something new about an FSP. *)
ParticipantChanges(f, s) ==
    /\ changes < MaxChanges
    /\ changes' = changes + 1
    /\ participants[f] # s
    /\ participants' = [participants EXCEPT ![f] = s]
    /\ UNCHANGED <<log, oracleVars, committed, published, pc, cur, last, messageVars,
                   outputs, failed, attempt, faults>>

-----------------------------------------------------------------------------
HandlerStep(w) ==
    \/ validateRequesterParticipantInfoOrGetErrorEvent(w)
    \/ validateDestinationParticipantInfoOrGetErrorEvent(w)
    \/ _getOracleAdapter(w)
    \/ _getParticipantIdFromOracle(w)
    \/ associateParticipant(w)
    \/ disassociateParticipant(w)

BatchStep(w) ==
    \/ Deliver(w)
    \/ TakeMessage(w)
    \/ PushOutput(w)
    \/ LeaveLoop(w)
    \/ Send(w)
    \/ Commit(w)

Failure(w) == HandlerThrows(w) \/ TelemetryThrows(w) \/ SendFails(w) \/ Crash(w)

Next ==
    \/ \E w \in Worker : HandlerStep(w) \/ BatchStep(w) \/ Failure(w)
    \/ \E f \in Fsp, s \in Status : ParticipantChanges(f, s)

Spec == Init /\ [][Next]_vars

(* Awaited calls settle, the consumer keeps delivering and committing. *)
FairSpec == Spec /\ \A w \in Worker : WF_vars(HandlerStep(w) \/ BatchStep(w))

-----------------------------------------------------------------------------
Request(w, e) == log[w][e.offset]

Answered(w, i) == \E e \in published[w] : e.offset = i

(***************************************************************************)
(* No request is lost.  Every request up to the committed offset of its      *)
(* partition has an answer on the output topic, whatever crashed, threw or   *)
(* was delivered again: the consumer never moves past a message whose event  *)
(* the finally block did not get out.                                        *)
(***************************************************************************)
AnsweredBeforeCommit ==
    \A w \in Worker : \A i \in 1..committed[w] : Answered(w, i)

(***************************************************************************)
(* Only a redelivery may answer a request twice: two published events for    *)
(* one request come from different deliveries or are the same event.         *)
(***************************************************************************)
OneAnswerPerDelivery ==
    \A w \in Worker : \A e1, e2 \in published[w] :
        e1.offset = e2.offset /\ e1.attempt = e2.attempt => e1 = e2

(***************************************************************************)
(* A success event goes out only for an FSP that was found approved and      *)
(* active while the request was handled, and routes only to a destination    *)
(* that was: validation is never skipped on any path through the handlers.   *)
(***************************************************************************)
SuccessIsVetted ==
    \A w \in Worker : \A e \in published[w] :
        e.name \in SuccessReplies =>
            /\ Request(w, e).requester \in e.vetted
            /\ Request(w, e).name \notin AssociationRequests => e.dest \in e.vetted

(***************************************************************************)
(* End to end, a query is routed to the FSP it names itself or to one that   *)
(* asked to be associated with that very party in some request of the log.   *)
(***************************************************************************)
AskedFor(p, f) ==
    \E w \in Worker : \E i \in DOMAIN log[w] :
        /\ log[w][i].name = "ParticipantAssociationRequestReceivedEvt"
        /\ log[w][i].party = p
        /\ log[w][i].requester = f

RoutedToOwner ==
    \A w \in Worker : \A e \in published[w] :
        e.name \in {"PartyInfoRequestedEvt", "ParticipantQueryResponseEvt"} =>
            \/ e.dest = Request(w, e).destination
            \/ AskedFor(Request(w, e).party, e.dest)

(***************************************************************************)
(* As long as nothing failed, whatever the oracle holds was reported: when   *)
(* no worker is at work, every pair in the oracle has a published Created    *)
(* event.  (A crash or a failed send breaks this: the redelivered request is *)
(* refused as a duplicate.)                                                  *)
(***************************************************************************)
Reported(o) ==
    \E w \in Worker : \E e \in published[w] :
        /\ e.name = "ParticipantAssociationCreatedEvt"
        /\ <<Request(w, e).party, Request(w, e).requester>> = o

StoreIsReported ==
    faults = 0 /\ (\A w \in Worker : pc[w] = "poll") => \A o \in owners : Reported(o)

(***************************************************************************)
(* Every request is eventually answered and committed, as faults end.        *)
(***************************************************************************)
AllAnswered == <>(\A w \in Worker : committed[w] = Len(log[w]))

=============================================================================

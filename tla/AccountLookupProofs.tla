------------------------- MODULE AccountLookupProofs -------------------------
(***************************************************************************)
(* For every number of workers, every content of their partitions and every  *)
(* batch size, the request pipeline keeps its types, answers a request       *)
(* before its offset is committed and once per delivery, only with vetted    *)
(* FSPs, and routes it only where somebody claimed the party.                *)
(***************************************************************************)
EXTENDS AccountLookup, SequenceTheorems, TLAPS

(* Where a worker stands in its batch. *)
Progress(w) ==
    /\ pc[w] # "poll" => /\ committed[w] < cur[w]
                         /\ cur[w] <= last[w] + 1
                         /\ last[w] <= Len(log[w])
    /\ pc[w] \in {"run", "push"} => cur[w] <= last[w]
    /\ pc[w] = "run" => todo[w] # <<>>
    /\ pc[w] = "send" /\ ~failed[w] => cur[w] = last[w] + 1

(* How far the handler of the current message is.  A reply that is still a   *)
(* success waits for the validation of the requester first and, unless the   *)
(* request is about an association, for that of the destination last.  Only  *)
(* an association request associates.                                        *)
Handling(w) ==
    pc[w] \in {"run", "push"} =>
        /\ pc[w] = "run" => reply[w] \in SuccessReplies
        /\ pc[w] = "push" => todo[w] = <<>>
        /\ reply[w] \in SuccessReplies =>
              \/ todo[w] # <<>> /\ todo[w][1] = "requester"
              \/ Msg(w).requester \in vetted[w]
        /\ reply[w] \in SuccessReplies /\ Msg(w).name \notin AssociationRequests =>
              IF todo[w] = <<>> THEN dest[w] \in vetted[w]
                                ELSE todo[w][Len(todo[w])] = "destination"
        /\ \A j \in 1..Len(todo[w]) :
              todo[w][j] = "associate" =>
                 Msg(w).name = "ParticipantAssociationRequestReceivedEvt"

(* Every message of the batch that the loop has passed has its output. *)
Covered(w) ==
    pc[w] \in {"next", "run", "push", "send"} =>
        \A i \in (committed[w] + 1)..(cur[w] - 1) : \E e \in outputs[w] : e.offset = i

(* When the callback has resolved, the whole batch is answered. *)
Resolved(w) ==
    pc[w] = "commit" => \A i \in (committed[w] + 1)..last[w] : Answered(w, i)

AnsweredUpTo(w) == \A i \in 1..committed[w] : Answered(w, i)

WorkerInv(w) ==
    /\ Progress(w)
    /\ Handling(w)
    /\ Covered(w)
    /\ Resolved(w)
    /\ AnsweredUpTo(w)

IInv == TypeOK /\ \A w \in Worker : WorkerInv(w)

-----------------------------------------------------------------------------
(* What the handlers have in common: a list of awaits and one reply; a reply *)
(* without any await is an error; the requester is validated first, and the  *)
(* destination last unless the request is about an association; only an      *)
(* association request associates, as its last await.                        *)
Shape(m, steps, success) ==
    /\ steps = <<>> => success \in ErrorReplies
    /\ steps # <<>> => success \in SuccessReplies /\ steps[1] = "requester"
    /\ steps # <<>> /\ m.name \notin AssociationRequests
          => steps[Len(steps)] = "destination"
    /\ \A j \in 1..Len(steps) :
          steps[j] = "associate" =>
              /\ m.name = "ParticipantAssociationRequestReceivedEvt"
              /\ j = Len(steps) /\ success = "ParticipantAssociationCreatedEvt"

LEMMA HandlerShape ==
    ASSUME NEW m \in Message
    PROVE  /\ handleEvent(m).steps \in Seq(AwaitSteps)
           /\ handleEvent(m).reply \in SuccessReplies \cup ErrorReplies
           /\ Shape(m, handleEvent(m).steps, handleEvent(m).reply)
<1>1. m.name \in MsgName /\ m.form \in {"domain_event", "other_type", "no_payload"}
  BY DEF Message
<1>2. CASE m.form # "domain_event"
  <2>1. handleEvent(m) = _validateMessageOrGetErrorEvent(m)
    BY <1>2 DEF handleEvent
  <2> QED BY <2>1 DEF _validateMessageOrGetErrorEvent, ErrorReplies, Shape
<1>3. CASE m.form = "domain_event"
  <2>1. CASE m.name = "PartyQueryReceivedEvt"
    <3>1. handleEvent(m) = _handlePartyQueryReceivedEvt(m)
      BY <1>3, <2>1 DEF handleEvent, Unknown
    <3>2. CASE m.destination = Null
      <4>1. handleEvent(m) =
              [steps |-> <<"requester", "adapter", "lookup", "destination">>,
               reply |-> "PartyInfoRequestedEvt"]
        BY <3>1, <3>2 DEF _handlePartyQueryReceivedEvt
      <4> QED BY <4>1 DEF AwaitSteps, SuccessReplies, Shape
    <3>3. CASE m.destination # Null
      <4>1. handleEvent(m) = [steps |-> <<"requester", "destination">>,
                              reply |-> "PartyInfoRequestedEvt"]
        BY <3>1, <3>3 DEF _handlePartyQueryReceivedEvt
      <4> QED BY <4>1 DEF AwaitSteps, SuccessReplies, Shape
    <3> QED BY <3>2, <3>3
  <2>2. CASE m.name = "PartyInfoAvailableEvt"
    <3>1. handleEvent(m) = _handlePartyInfoAvailableEvt
      BY <1>3, <2>2 DEF handleEvent, Unknown
    <3> QED BY <3>1, <2>2 DEF _handlePartyInfoAvailableEvt, AwaitSteps, SuccessReplies,
                        Shape
  <2>3. CASE m.name = "ParticipantQueryReceivedEvt"
    <3>1. handleEvent(m) = _handleParticipantQueryReceivedEvt
      BY <1>3, <2>3 DEF handleEvent, Unknown
    <3> QED BY <3>1, <2>3 DEF _handleParticipantQueryReceivedEvt, AwaitSteps, SuccessReplies,
                        Shape
  <2>4. CASE m.name = "PartyRejectedEvt"
    <3>1. handleEvent(m) = _getPartyRejected
      BY <1>3, <2>4 DEF handleEvent, Unknown
    <3> QED BY <3>1, <2>4 DEF _getPartyRejected, AwaitSteps, SuccessReplies,
                        Shape
  <2>5. CASE m.name = "ParticipantRejectedEvt"
    <3>1. handleEvent(m) = _getParticipantRejected
      BY <1>3, <2>5 DEF handleEvent, Unknown
    <3> QED BY <3>1, <2>5 DEF _getParticipantRejected, AwaitSteps, SuccessReplies,
                        Shape
  <2>6. CASE m.name = "ParticipantAssociationRequestReceivedEvt"
    <3>1. handleEvent(m) = _handleParticipantAssociationRequestReceivedEvt
      BY <1>3, <2>6 DEF handleEvent, Unknown
    <3> QED BY <3>1, <2>6 DEF _handleParticipantAssociationRequestReceivedEvt, AwaitSteps,
                        SuccessReplies, Shape, AssociationRequests
  <2>7. CASE m.name = "ParticipantDisassociateRequestReceivedEvt"
    <3>1. handleEvent(m) = _handleParticipantDisassociateRequestReceivedEvt
      BY <1>3, <2>7 DEF handleEvent, Unknown
    <3> QED BY <3>1, <2>7 DEF _handleParticipantDisassociateRequestReceivedEvt, AwaitSteps,
                        SuccessReplies, Shape, AssociationRequests
  <2>8. CASE m.name = Unknown
    <3>1. handleEvent(m) = [steps |-> <<>>, reply |-> "InvalidMessageType"]
      BY <1>3, <2>8 DEF handleEvent, Unknown
    <3> QED BY <3>1 DEF ErrorReplies, Shape
  <2> QED BY <1>1, <2>1, <2>2, <2>3, <2>4, <2>5, <2>6, <2>7, <2>8
          DEF MsgName, Queries, Callbacks, AssociationRequests
<1> QED BY <1>2, <1>3

LEMMA InitIInv == Init => IInv
BY NullAssumption, LogsAssumption, ApprovalAssumption
   DEF Init, IInv, TypeOK, WorkerInv, Progress, Handling, Covered, Resolved,
       AnsweredUpTo, PcValues, ErrorReplies

-----------------------------------------------------------------------------
(* The two ways in which a handler's step ends keep the types. *)
TypedMessage ==
    /\ pc \in [Worker -> PcValues]
    /\ todo \in [Worker -> Seq(AwaitSteps)]
    /\ reply \in [Worker -> SuccessReplies \cup ErrorReplies]

LEMMA AdvanceType ==
    ASSUME TypedMessage, NEW w \in Worker, todo[w] # <<>>, Advance(w)
    PROVE  TypedMessage'
BY DEF TypedMessage, Advance, PcValues

LEMMA ReturnErrorType ==
    ASSUME TypedMessage, NEW w \in Worker, NEW e \in SuccessReplies \cup ErrorReplies,
           ReturnError(w, e)
    PROVE  TypedMessage'
BY DEF TypedMessage, ReturnError, PcValues

(* The error events of a validation. *)
LEMMA ErrorTypes ==
    ASSUME NEW s \in {"no_id", "not_found", "id_mismatch", "not_approved", "not_active"}
    PROVE  RequesterError[s] \in ErrorReplies /\ DestinationError[s] \in ErrorReplies
BY DEF RequesterError, DestinationError, ErrorReplies

(* The message a worker handles is a message of its partition. *)
LEMMA MsgType ==
    ASSUME TypeOK, NEW w \in Worker, Progress(w),
           pc[w] # "poll", cur[w] <= last[w]
    PROVE  /\ cur[w] \in 1..Len(log[w])
           /\ Msg(w) \in Message
<1>1. cur[w] \in Nat /\ last[w] \in Nat /\ committed[w] \in Nat /\ log[w] \in Seq(Message)
  BY DEF TypeOK
<1>2. committed[w] < cur[w] /\ cur[w] <= last[w] /\ last[w] <= Len(log[w])
  BY DEF Progress
<1> QED BY <1>1, <1>2 DEF Msg

-----------------------------------------------------------------------------
LEMMA HandlerTypeStep ==
    ASSUME IInv, NEW w \in Worker, HandlerStep(w) \/ HandlerThrows(w)
    PROVE  TypeOK'
<1> USE NullAssumption
<1>1. TypeOK /\ Progress(w) /\ Handling(w) /\ TypedMessage
  BY DEF IInv, WorkerInv, TypeOK, TypedMessage
<1>12. CASE HandlerThrows(w)
  <2>1. TypedMessage'
    BY <1>12, <1>1, ReturnErrorType DEF HandlerThrows, ErrorReplies
  <2> QED BY <2>1, <1>12, <1>1
          DEF HandlerThrows, TypeOK, TypedMessage, Fault, oracleVars, batchVars
<1> SUFFICES ASSUME HandlerStep(w) PROVE TypeOK'
  BY <1>12
<1>2. pc[w] = "run" /\ todo[w] # <<>> /\ cur[w] <= last[w]
  BY <1>1 DEF HandlerStep, validateRequesterParticipantInfoOrGetErrorEvent,
      validateDestinationParticipantInfoOrGetErrorEvent, _getOracleAdapter,
      _getParticipantIdFromOracle, associateParticipant, disassociateParticipant, At,
      Progress
<1>3. Msg(w) \in Message
  BY <1>1, <1>2, MsgType
<1>4. Msg(w).party \in Party /\ Msg(w).requester \in Fsp \cup {Null}
  BY <1>3 DEF Message
<1>5. ASSUME NEW f \in Fsp \cup {Null}, NEW errors,
             \A s \in {"no_id", "not_found", "id_mismatch", "not_approved", "not_active"} :
                errors[s] \in ErrorReplies,
             Validate(w, f, errors)
      PROVE  TypeOK'
  <2>1. TypedMessage'
    <3>1. CASE Advance(w)
      BY <3>1, <1>1, <1>2, AdvanceType
    <3>2. CASE \E e \in ErrorReplies : ReturnError(w, e)
      BY <3>2, <1>1, ReturnErrorType
    <3>3. f # Null => participants[f] \in Status
      BY <1>1 DEF TypeOK
    <3> QED BY <3>1, <3>2, <3>3, <1>5 DEF Validate, Status
  <2>2. faults' \in Nat
    BY <1>1, <1>5 DEF Validate, TypeOK, Fault
  <2>3. \/ vetted' = vetted
        \/ f \in Fsp /\ vetted' = [vetted EXCEPT ![w] = vetted[w] \cup {f}]
    BY <1>5 DEF Validate
  <2>4. vetted' \in [Worker -> SUBSET Fsp]
    <3>1. vetted \in [Worker -> SUBSET Fsp]
      BY <1>1 DEF TypeOK
    <3>2. f \in Fsp => vetted[w] \cup {f} \in SUBSET Fsp
      BY <3>1
    <3> QED BY <3>1, <3>2, <2>3
  <2> QED BY <2>1, <2>2, <2>4, <1>1, <1>5
          DEF Validate, TypeOK, TypedMessage, oracleVars, batchVars
<1>6. CASE validateRequesterParticipantInfoOrGetErrorEvent(w)
  BY <1>6, <1>5, <1>4, ErrorTypes DEF validateRequesterParticipantInfoOrGetErrorEvent
<1>7. CASE validateDestinationParticipantInfoOrGetErrorEvent(w)
  <2>1. dest[w] \in Fsp \cup {Null}
    BY <1>1 DEF TypeOK
  <2> QED BY <2>1, <1>7, <1>5, ErrorTypes DEF validateDestinationParticipantInfoOrGetErrorEvent
<1>8. CASE _getOracleAdapter(w)
  <2>1. TypedMessage'
    BY <1>8, <1>1, <1>2, AdvanceType, ReturnErrorType DEF _getOracleAdapter, ErrorReplies
  <2> QED BY <2>1, <1>8, <1>1 DEF _getOracleAdapter, TypeOK, TypedMessage, oracleVars, batchVars
<1>9. CASE _getParticipantIdFromOracle(w)
  <2>1. TypedMessage'
    BY <1>9, <1>1, <1>2, AdvanceType, ReturnErrorType
       DEF _getParticipantIdFromOracle, ErrorReplies
  <2>2. faults' \in Nat
    <3>1. faults' = faults \/ Fault
      BY <1>9 DEF _getParticipantIdFromOracle
    <3> QED BY <3>1, <1>1 DEF TypeOK, Fault
  <2>3. dest' = dest \/ \E f \in Fsp : dest' = [dest EXCEPT ![w] = f]
    BY <1>9 DEF _getParticipantIdFromOracle
  <2>4. dest' \in [Worker -> Fsp \cup {Null}]
    BY <1>1, <2>3 DEF TypeOK
  <2> QED BY <2>1, <2>2, <2>4, <1>9, <1>1
          DEF _getParticipantIdFromOracle, TypeOK, TypedMessage, oracleVars, batchVars
<1>10. CASE associateParticipant(w)
  <2>1. TypedMessage'
    BY <1>10, <1>1, <1>2, AdvanceType, ReturnErrorType DEF associateParticipant, ErrorReplies
  <2>2. faults' \in Nat
    BY <1>10, <1>1 DEF associateParticipant, TypeOK, Fault
  <2>4. reply[w] \in SuccessReplies /\ todo[w][1] = "associate"
    BY <1>10, <1>1, <1>2 DEF associateParticipant, At, Handling, TypeOK
  <2>5. Msg(w).requester \in vetted[w]
    BY <2>4, <1>1, <1>2 DEF Handling
  <2>6. Pair(w) \in Party \X Fsp
    BY <2>5, <1>1, <1>4 DEF Pair, TypeOK
  <2>3. owners' \subseteq Party \X Fsp /\ registered' \subseteq Party \X Fsp
    BY <2>6, <1>10, <1>1 DEF associateParticipant, Register, TypeOK, oracleVars
  <2> QED BY <2>1, <2>2, <2>3, <1>10, <1>1
          DEF associateParticipant, TypeOK, TypedMessage, batchVars
<1>11. CASE disassociateParticipant(w)
  <2>1. TypedMessage'
    BY <1>11, <1>1, <1>2, AdvanceType, ReturnErrorType
       DEF disassociateParticipant, ErrorReplies
  <2>2. faults' \in Nat
    BY <1>11, <1>1 DEF disassociateParticipant, TypeOK, Fault
  <2>3. owners' \subseteq Party \X Fsp /\ registered' \subseteq Party \X Fsp
    BY <1>11, <1>1 DEF disassociateParticipant, Unregister, TypeOK, oracleVars
  <2> QED BY <2>1, <2>2, <2>3, <1>11, <1>1
          DEF disassociateParticipant, TypeOK, TypedMessage, batchVars
<1> QED BY <1>6, <1>7, <1>8, <1>9, <1>10, <1>11 DEF HandlerStep

(* The callback's local state after it has ended. *)
LEMMA LeaveType ==
    ASSUME TypeOK, NEW w \in Worker, Leave(w), UNCHANGED <<envVars, oracleVars>>,
           published' \in [Worker -> SUBSET Event], committed' \in [Worker -> Nat],
           attempt' = attempt, faults' \in Nat
    PROVE  TypeOK'
<1>1. /\ pc' \in [Worker -> PcValues] /\ failed' \in [Worker -> BOOLEAN]
      /\ cur' \in [Worker -> Nat] /\ last' \in [Worker -> Nat]
  BY DEF TypeOK, Leave, PcValues
<1>2. /\ todo' \in [Worker -> Seq(AwaitSteps)]
      /\ reply' \in [Worker -> SuccessReplies \cup ErrorReplies]
      /\ dest' \in [Worker -> Fsp \cup {Null}]
  BY DEF TypeOK, Leave, ErrorReplies
<1>3. vetted' \in [Worker -> SUBSET Fsp] /\ outputs' \in [Worker -> SUBSET Event]
  BY DEF TypeOK, Leave
<1> QED BY <1>1, <1>2, <1>3 DEF TypeOK, envVars, oracleVars

LEMMA EventType ==
    ASSUME TypeOK, NEW w \in Worker
    PROVE  EventOf(w) \in Event
<1>1. /\ cur[w] \in Nat /\ attempt[w] \in Nat
      /\ reply[w] \in SuccessReplies \cup ErrorReplies
      /\ dest[w] \in Fsp \cup {Null} /\ vetted[w] \in SUBSET Fsp
  BY DEF TypeOK
<1> QED BY <1>1 DEF EventOf, Event

LEMMA BatchTypeStep ==
    ASSUME IInv, NEW w \in Worker,
           BatchStep(w) \/ TelemetryThrows(w) \/ SendFails(w) \/ Crash(w)
    PROVE  TypeOK'
<1> USE NullAssumption, BoundsAssumption
<1>1. TypeOK /\ Progress(w)
  BY DEF IInv, WorkerInv
<1>2. CASE Deliver(w)
  <2>1. PICK n \in 1..BatchSize : last' = [last EXCEPT ![w] = committed[w] + n]
    BY <1>2 DEF Deliver
  <2>2. n \in Nat /\ committed[w] \in Nat /\ attempt[w] \in Nat
    BY <1>1 DEF TypeOK
  <2>3. last' \in [Worker -> Nat] /\ cur' \in [Worker -> Nat] /\ attempt' \in [Worker -> Nat]
    BY <2>1, <2>2, <1>1, <1>2 DEF TypeOK, Deliver
  <2> QED BY <2>3, <1>1, <1>2
          DEF Deliver, TypeOK, PcValues, envVars, oracleVars, messageVars
<1>3. CASE TakeMessage(w)
  <2>1. Msg(w) \in Message
    BY <1>1, <1>3, MsgType DEF TakeMessage
  <2>2. /\ handleEvent(Msg(w)).steps \in Seq(AwaitSteps)
        /\ handleEvent(Msg(w)).reply \in SuccessReplies \cup ErrorReplies
    BY <2>1, HandlerShape
  <2>3. Msg(w).destination \in Fsp \cup {Null}
    BY <2>1 DEF Message
  <2> QED BY <2>2, <2>3, <1>1, <1>3
          DEF TakeMessage, TypeOK, PcValues, envVars, oracleVars
<1>4. CASE PushOutput(w)
  <2>1. outputs[w] \cup {EventOf(w)} \in SUBSET Event
    BY <1>1, EventType DEF TypeOK
  <2>2. outputs' \in [Worker -> SUBSET Event]
    BY <2>1, <1>1, <1>4 DEF PushOutput, TypeOK
  <2> QED BY <2>2, <1>1, <1>4
          DEF PushOutput, TypeOK, PcValues, envVars, oracleVars, messageVars
<1>5. CASE LeaveLoop(w)
  BY <1>1, <1>5 DEF LeaveLoop, TypeOK, PcValues, envVars, oracleVars, messageVars
<1>6. ASSUME NEW sent \in SUBSET outputs[w],
             published' = [published EXCEPT ![w] = @ \cup sent]
      PROVE  published' \in [Worker -> SUBSET Event]
  <2>1. published[w] \cup sent \in SUBSET Event
    BY <1>1 DEF TypeOK
  <2> QED BY <2>1, <1>1, <1>6 DEF TypeOK
<1>7. CASE Send(w)
  <2>1. published' \in [Worker -> SUBSET Event]
    BY <1>6, <1>7 DEF Send
  <2>2. CASE failed[w]
    <3>1. Leave(w)
      BY <2>2, <1>7 DEF Send
    <3>2. /\ UNCHANGED <<envVars, oracleVars>>
          /\ committed' \in [Worker -> Nat] /\ attempt' = attempt /\ faults' \in Nat
      BY <1>1, <1>7 DEF Send, TypeOK
    <3> QED BY <2>1, <3>1, <3>2, <1>1, LeaveType
  <2>3. CASE ~failed[w]
    BY <2>1, <2>3, <1>1, <1>7
       DEF Send, TypeOK, PcValues, envVars, oracleVars, messageVars
  <2> QED BY <2>2, <2>3
<1>8. CASE Commit(w)
  <2>1. /\ Leave(w)
        /\ UNCHANGED <<envVars, oracleVars>>
        /\ published' \in [Worker -> SUBSET Event]
        /\ committed' \in [Worker -> Nat] /\ attempt' = attempt /\ faults' \in Nat
    BY <1>1, <1>8 DEF Commit, TypeOK
  <2> QED BY <2>1, <1>1, LeaveType
<1>9. CASE TelemetryThrows(w)
  BY <1>1, <1>9 DEF TelemetryThrows, TypeOK, PcValues, Fault, envVars, oracleVars, messageVars
<1>10. CASE SendFails(w)
  <2>1. published' \in [Worker -> SUBSET Event]
    BY <1>6, <1>10 DEF SendFails
  <2>2. /\ Leave(w)
        /\ UNCHANGED <<envVars, oracleVars>>
        /\ committed' \in [Worker -> Nat] /\ attempt' = attempt /\ faults' \in Nat
    BY <1>1, <1>10 DEF SendFails, Fault, TypeOK
  <2> QED BY <2>1, <2>2, <1>1, LeaveType
<1>11. CASE Crash(w)
  <2>1. /\ Leave(w)
        /\ UNCHANGED <<envVars, oracleVars>>
        /\ published' \in [Worker -> SUBSET Event]
        /\ committed' \in [Worker -> Nat] /\ attempt' = attempt /\ faults' \in Nat
    BY <1>1, <1>11 DEF Crash, Fault, TypeOK
  <2> QED BY <2>1, <1>1, LeaveType
<1> QED BY <1>2, <1>3, <1>4, <1>5, <1>7, <1>8, <1>9, <1>10, <1>11 DEF BatchStep

-----------------------------------------------------------------------------
(* A worker's invariants depend only on its own state and on the log, which  *)
(* nobody changes.                                                           *)
SameWorker(u) ==
    /\ log' = log
    /\ committed'[u] = committed[u] /\ published'[u] = published[u]
    /\ pc'[u] = pc[u] /\ cur'[u] = cur[u] /\ last'[u] = last[u]
    /\ todo'[u] = todo[u] /\ reply'[u] = reply[u]
    /\ dest'[u] = dest[u] /\ vetted'[u] = vetted[u]
    /\ outputs'[u] = outputs[u] /\ failed'[u] = failed[u]
    /\ attempt'[u] = attempt[u]

WorkerStep(w) == HandlerStep(w) \/ BatchStep(w) \/ Failure(w)

LEMMA Preserved ==
    ASSUME NEW u \in Worker, WorkerInv(u), SameWorker(u)
    PROVE  WorkerInv(u)'
<1>1. Progress(u)'
  BY DEF WorkerInv, SameWorker, Progress
<1>2. Handling(u)'
  BY DEF WorkerInv, SameWorker, Handling, Msg
<1>3. Covered(u)'
  BY DEF WorkerInv, SameWorker, Covered
<1>4. Resolved(u)' /\ AnsweredUpTo(u)'
  BY DEF WorkerInv, SameWorker, Resolved, AnsweredUpTo, Answered
<1> QED BY <1>1, <1>2, <1>3, <1>4 DEF WorkerInv

(* What a step of a handler does to its own message: it leaves the batch     *)
(* alone and either returns an error event or goes on; a validation it goes  *)
(* on from has vetted its FSP.                                               *)
HandlerEffect(w) ==
    /\ pc[w] \in {"run", "push"}
    /\ UNCHANGED batchVars
    /\ \/ \E e \in ErrorReplies : ReturnError(w, e)
       \/ /\ pc[w] = "run"
          /\ Advance(w)
          /\ vetted[w] \subseteq vetted'[w]
          /\ todo[w][1] = "requester" => Msg(w).requester \in vetted'[w]
          /\ todo[w][1] = "destination" => dest[w] \in vetted'[w] /\ dest' = dest

LEMMA HandlerSteps ==
    ASSUME IInv, NEW w \in Worker, HandlerStep(w) \/ HandlerThrows(w)
    PROVE  HandlerEffect(w)
<1>1. TypeOK /\ Progress(w)
  BY DEF IInv, WorkerInv
<1>2. CASE HandlerThrows(w)
  BY <1>2 DEF HandlerThrows, HandlerEffect, ErrorReplies
<1>3. CASE HandlerStep(w)
  <2>1. pc[w] = "run" /\ todo[w] # <<>> /\ cur[w] <= last[w] /\ UNCHANGED batchVars
    BY <1>1, <1>3 DEF HandlerStep, validateRequesterParticipantInfoOrGetErrorEvent,
       validateDestinationParticipantInfoOrGetErrorEvent, _getOracleAdapter,
       _getParticipantIdFromOracle, associateParticipant, disassociateParticipant, At,
       Progress, Validate
  <2>2. Head(todo[w]) = todo[w][1] /\ vetted \in [Worker -> SUBSET Fsp]
        /\ participants \in [Fsp -> Status]
        /\ dest[w] \in Fsp \cup {Null} /\ Msg(w).requester \in Fsp \cup {Null}
    <3>1. Msg(w) \in Message
      BY <1>1, <2>1, MsgType
    <3>2. Msg(w).requester \in Fsp \cup {Null}
      BY <3>1 DEF Message
    <3> QED BY <1>1, <2>1, <3>2 DEF TypeOK
  <2>3. ASSUME NEW f \in Fsp \cup {Null}, NEW errors,
               \A s \in {"no_id", "not_found", "id_mismatch", "not_approved", "not_active"} :
                  errors[s] \in ErrorReplies,
               Validate(w, f, errors)
        PROVE  /\ dest' = dest
               /\ \/ \E e \in ErrorReplies : ReturnError(w, e)
                  \/ /\ Advance(w)
                     /\ vetted[w] \subseteq vetted'[w]
                     /\ f \in vetted'[w]
    <3>1. f # Null => participants[f] \in Status
      BY <2>2
    <3>2. CASE Advance(w) /\ vetted' = [vetted EXCEPT ![w] = @ \cup {f}]
      BY <3>2, <2>2, <2>3 DEF Validate
    <3>3. CASE \E e \in ErrorReplies : ReturnError(w, e)
      BY <3>3, <2>3 DEF Validate
    <3> QED BY <3>1, <3>2, <3>3, <2>3 DEF Validate, Status
  <2>4. CASE validateRequesterParticipantInfoOrGetErrorEvent(w)
    BY <2>1, <2>2, <2>3, <2>4, ErrorTypes
       DEF validateRequesterParticipantInfoOrGetErrorEvent, HandlerEffect, At
  <2>5. CASE validateDestinationParticipantInfoOrGetErrorEvent(w)
    BY <2>1, <2>2, <2>3, <2>5, ErrorTypes
       DEF validateDestinationParticipantInfoOrGetErrorEvent, HandlerEffect, At
  <2>6. CASE _getOracleAdapter(w)
    BY <2>1, <2>2, <2>6 DEF _getOracleAdapter, HandlerEffect, At, ErrorReplies
  <2>7. CASE _getParticipantIdFromOracle(w)
    BY <2>1, <2>2, <2>7 DEF _getParticipantIdFromOracle, HandlerEffect, At, ErrorReplies
  <2>8. CASE associateParticipant(w)
    BY <2>1, <2>2, <2>8 DEF associateParticipant, HandlerEffect, At, ErrorReplies
  <2>9. CASE disassociateParticipant(w)
    BY <2>1, <2>2, <2>9 DEF disassociateParticipant, HandlerEffect, At, ErrorReplies
  <2> QED BY <1>3, <2>4, <2>5, <2>6, <2>7, <2>8, <2>9 DEF HandlerStep
<1> QED BY <1>2, <1>3

LEMMA OthersUnchanged ==
    ASSUME IInv, NEW w \in Worker, WorkerStep(w), NEW u \in Worker, u # w
    PROVE  SameWorker(u)
<1>1. TypeOK
  BY DEF IInv
<1>2. CASE HandlerStep(w) \/ HandlerThrows(w)
  <2>1. UNCHANGED batchVars
    BY <1>2, HandlerSteps DEF HandlerEffect
  <2>2. pc'[u] = pc[u] /\ todo'[u] = todo[u] /\ reply'[u] = reply[u]
    <3>1. Advance(w) \/ \E e \in ErrorReplies : ReturnError(w, e)
      BY <1>2, HandlerSteps DEF HandlerEffect
    <3>2. CASE Advance(w)
      BY <3>2, <1>1 DEF TypeOK, Advance
    <3>3. CASE \E e \in ErrorReplies : ReturnError(w, e)
      BY <3>3, <1>1 DEF TypeOK, ReturnError
    <3> QED BY <3>1, <3>2, <3>3
  <2>3. dest'[u] = dest[u] /\ vetted'[u] = vetted[u]
    BY <1>1, <1>2
       DEF HandlerStep, validateRequesterParticipantInfoOrGetErrorEvent,
           validateDestinationParticipantInfoOrGetErrorEvent, _getOracleAdapter,
           _getParticipantIdFromOracle, associateParticipant, disassociateParticipant,
           Validate, HandlerThrows, TypeOK
  <2> QED BY <2>1, <2>2, <2>3 DEF SameWorker, batchVars
<1>3. ASSUME Leave(w)
      PROVE  /\ pc'[u] = pc[u] /\ cur'[u] = cur[u] /\ last'[u] = last[u]
             /\ todo'[u] = todo[u] /\ reply'[u] = reply[u] /\ dest'[u] = dest[u]
             /\ vetted'[u] = vetted[u] /\ outputs'[u] = outputs[u]
             /\ failed'[u] = failed[u]
  BY <1>1, <1>3 DEF Leave, TypeOK
<1>4. CASE Deliver(w)
  BY <1>1, <1>4 DEF Deliver, SameWorker, TypeOK, envVars, messageVars
<1>5. CASE TakeMessage(w)
  BY <1>1, <1>5 DEF TakeMessage, SameWorker, TypeOK, envVars
<1>6. CASE PushOutput(w)
  BY <1>1, <1>6 DEF PushOutput, SameWorker, TypeOK, envVars, messageVars
<1>7. CASE LeaveLoop(w)
  BY <1>1, <1>7 DEF LeaveLoop, SameWorker, TypeOK, envVars, messageVars
<1>8. CASE Send(w)
  BY <1>1, <1>3, <1>8 DEF Send, SameWorker, TypeOK, envVars, messageVars
<1>9. CASE Commit(w)
  BY <1>1, <1>3, <1>9 DEF Commit, SameWorker, TypeOK, envVars
<1>10. CASE TelemetryThrows(w)
  BY <1>1, <1>10 DEF TelemetryThrows, SameWorker, TypeOK, envVars, messageVars
<1>11. CASE SendFails(w)
  BY <1>1, <1>3, <1>11 DEF SendFails, SameWorker, TypeOK, envVars
<1>12. CASE Crash(w)
  BY <1>1, <1>3, <1>12 DEF Crash, SameWorker, TypeOK, envVars
<1> QED BY <1>2, <1>4, <1>5, <1>6, <1>7, <1>8, <1>9, <1>10, <1>11, <1>12
        DEF WorkerStep, BatchStep, Failure

-----------------------------------------------------------------------------
(* A handler's step keeps the invariants of its worker. *)
LEMMA HandlerKeeps ==
    ASSUME IInv, NEW w \in Worker, HandlerStep(w) \/ HandlerThrows(w)
    PROVE  WorkerInv(w)'
<1>1. TypeOK /\ WorkerInv(w)
  BY DEF IInv
<1>2. HandlerEffect(w)
  BY HandlerSteps
<1>3. pc[w] \in {"run", "push"}
  BY <1>2 DEF HandlerEffect
<1>4. /\ log' = log /\ cur' = cur /\ last' = last /\ committed' = committed
      /\ published' = published /\ outputs' = outputs /\ failed' = failed
      /\ Msg(w)' = Msg(w)
  BY <1>2 DEF HandlerEffect, batchVars, Msg
<1>5. CASE \E e \in ErrorReplies : ReturnError(w, e)
  <2>1. PICK e \in ErrorReplies : ReturnError(w, e)
    BY <1>5
  <2>2. pc'[w] = "push" /\ todo'[w] = <<>> /\ reply'[w] = e
    BY <2>1, <1>1 DEF ReturnError, TypeOK
  <2>3. e \notin SuccessReplies
    BY <2>1 DEF ErrorReplies, SuccessReplies
  <2>4. Progress(w)' /\ Handling(w)'
    BY <2>2, <2>3, <1>1, <1>3, <1>4 DEF WorkerInv, Progress, Handling
  <2>5. Covered(w)' /\ Resolved(w)' /\ AnsweredUpTo(w)'
    BY <2>2, <1>1, <1>3, <1>4 DEF WorkerInv, Covered, Resolved, AnsweredUpTo, Answered
  <2> QED BY <2>4, <2>5 DEF WorkerInv
<1>6. CASE /\ pc[w] = "run" /\ Advance(w)
           /\ vetted[w] \subseteq vetted'[w]
           /\ todo[w][1] = "requester" => Msg(w).requester \in vetted'[w]
           /\ todo[w][1] = "destination" => dest[w] \in vetted'[w] /\ dest' = dest
  <2>0. /\ pc[w] = "run" /\ todo[w] # <<>> /\ todo[w] \in Seq(AwaitSteps)
        /\ reply[w] \in SuccessReplies
    BY <1>1, <1>6 DEF WorkerInv, Progress, Handling, TypeOK
  <2>1. /\ todo'[w] = Tail(todo[w]) /\ reply'[w] = reply[w]
        /\ pc'[w] = IF Tail(todo[w]) = <<>> THEN "push" ELSE "run"
    BY <1>6, <1>1 DEF Advance, TypeOK
  <2>2. /\ Tail(todo[w]) \in Seq(AwaitSteps)
        /\ Len(Tail(todo[w])) = Len(todo[w]) - 1
        /\ \A j \in 1..Len(Tail(todo[w])) : Tail(todo[w])[j] = todo[w][j + 1]
        /\ Len(todo[w]) \in Nat \ {0}
    BY <2>0
  <2>3. Progress(w)'
    BY <2>1, <1>1, <2>0, <1>4 DEF WorkerInv, Progress
  <2>4. Covered(w)' /\ Resolved(w)' /\ AnsweredUpTo(w)'
    BY <2>1, <1>1, <2>0, <1>4 DEF WorkerInv, Covered, Resolved, AnsweredUpTo, Answered
  <2>5. Msg(w).requester \in vetted'[w]
    BY <1>1, <2>0, <1>6 DEF WorkerInv, Handling
  <2>6. Msg(w).name \notin AssociationRequests =>
           IF todo'[w] = <<>> THEN dest'[w] \in vetted'[w]
                              ELSE todo'[w][Len(todo'[w])] = "destination"
    <3> SUFFICES ASSUME Msg(w).name \notin AssociationRequests
                 PROVE  IF todo'[w] = <<>> THEN dest'[w] \in vetted'[w]
                              ELSE todo'[w][Len(todo'[w])] = "destination"
      OBVIOUS
    <3>1. todo[w][Len(todo[w])] = "destination"
      BY <1>1, <2>0 DEF WorkerInv, Handling
    <3>2. CASE Tail(todo[w]) = <<>>
      <4>1. Len(todo[w]) = 1
        <5> DEFINE n == Len(todo[w])
        <5>1. n - 1 = 0
          BY <3>2, <2>2
        <5>2. n \in Nat
          BY <2>2
        <5> HIDE DEF n
        <5>3. n = 1
          BY <5>1, <5>2
        <5> QED BY <5>3 DEF n
      <4> QED BY <4>1, <3>1, <3>2, <2>1, <1>6
    <3>3. CASE Tail(todo[w]) # <<>>
      <4>1. Len(Tail(todo[w])) \in 1..Len(Tail(todo[w])) /\ Len(Tail(todo[w])) + 1 = Len(todo[w])
        BY <3>3, <2>2
      <4> QED BY <4>1, <3>1, <3>3, <2>1, <2>2
    <3> QED BY <3>2, <3>3
  <2>7. \A j \in 1..Len(todo'[w]) : todo'[w][j] = "associate" =>
              Msg(w).name = "ParticipantAssociationRequestReceivedEvt"
    <3> SUFFICES ASSUME NEW j \in 1..Len(Tail(todo[w])), Tail(todo[w])[j] = "associate"
                 PROVE  Msg(w).name = "ParticipantAssociationRequestReceivedEvt"
      BY <2>1
    <3>1. j + 1 \in 1..Len(todo[w]) /\ todo[w][j + 1] = "associate"
      BY <2>2
    <3> QED BY <3>1, <1>1, <2>0 DEF WorkerInv, Handling
  <2>8. Handling(w)'
    BY <2>1, <2>5, <2>6, <2>7, <2>0, <1>4 DEF Handling
  <2> QED BY <2>3, <2>4, <2>8 DEF WorkerInv
<1> QED BY <1>2, <1>5, <1>6 DEF HandlerEffect

(* Between two batches only the committed offset matters. *)
LEMMA LeaveKeeps ==
    ASSUME TypeOK, NEW w \in Worker, Leave(w), AnsweredUpTo(w)'
    PROVE  WorkerInv(w)'
<1>1. pc'[w] = "poll"
  BY DEF Leave, TypeOK
<1> QED BY <1>1 DEF WorkerInv, Progress, Handling, Covered, Resolved

(* Events are only ever added to the output topic. *)
LEMMA StillAnswered ==
    ASSUME NEW w \in Worker, AnsweredUpTo(w), published[w] \subseteq published'[w],
           committed'[w] = committed[w]
    PROVE  AnsweredUpTo(w)'
BY DEF AnsweredUpTo, Answered

LEMMA BatchKeeps ==
    ASSUME IInv, NEW w \in Worker,
           BatchStep(w) \/ TelemetryThrows(w) \/ SendFails(w) \/ Crash(w)
    PROVE  WorkerInv(w)'
<1> USE BoundsAssumption
<1>1. TypeOK /\ WorkerInv(w)
  BY DEF IInv
<1>2. /\ committed[w] \in Nat /\ cur[w] \in Nat /\ last[w] \in Nat
      /\ log[w] \in Seq(Message) /\ Len(log[w]) \in Nat
  BY <1>1 DEF TypeOK
<1>3. CASE Deliver(w)
  <2>1. PICK n \in 1..BatchSize : /\ committed[w] + n <= Len(log[w])
                                  /\ last' = [last EXCEPT ![w] = committed[w] + n]
    BY <1>3 DEF Deliver
  <2>2. /\ pc'[w] = "next" /\ last'[w] = committed[w] + n /\ cur'[w] = committed[w] + 1
        /\ committed' = committed /\ log' = log /\ published' = published
    BY <2>1, <1>1, <1>3 DEF Deliver, TypeOK, envVars
  <2>3. n \in Nat /\ n >= 1
    OBVIOUS
  <2>4. Progress(w)'
    BY <2>1, <2>2, <2>3, <1>2 DEF Progress
  <2>5. Covered(w)'
    <3>1. (committed[w] + 1)..(cur'[w] - 1) = {}
      BY <2>2, <1>2
    <3> QED BY <3>1, <2>2 DEF Covered
  <2>6. AnsweredUpTo(w)'
    BY <2>2, <1>1, StillAnswered DEF WorkerInv
  <2> QED BY <2>2, <2>4, <2>5, <2>6 DEF WorkerInv, Handling, Resolved
<1>4. CASE TakeMessage(w)
  <2> DEFINE steps == handleEvent(Msg(w)).steps
             success == handleEvent(Msg(w)).reply
  <2>1. Msg(w) \in Message
    BY <1>1, <1>4, MsgType DEF TakeMessage, WorkerInv
  <2>2. steps \in Seq(AwaitSteps) /\ Shape(Msg(w), steps, success)
    BY <2>1, HandlerShape
  <2>3. /\ pc[w] = "next" /\ cur[w] <= last[w]
        /\ pc'[w] = IF steps = <<>> THEN "push" ELSE "run"
        /\ todo'[w] = steps /\ reply'[w] = success
        /\ committed' = committed /\ log' = log /\ published' = published
        /\ cur' = cur /\ last' = last /\ outputs' = outputs /\ failed' = failed
    BY <1>1, <1>4 DEF TakeMessage, TypeOK, envVars
  <2>4. Msg(w)' = Msg(w)
    BY <2>3 DEF Msg
  <2> HIDE DEF steps, success
  <2>5. Progress(w)'
    BY <2>3, <1>1 DEF WorkerInv, Progress
  <2>6. Handling(w)'
    <3>1. ErrorReplies \cap SuccessReplies = {}
      BY DEF ErrorReplies, SuccessReplies
    <3>2. CASE steps = <<>>
      <4>1. success \notin SuccessReplies
        BY <3>1, <3>2, <2>2 DEF Shape
      <4> QED BY <4>1, <3>2, <2>3 DEF Handling
    <3>3. CASE steps # <<>>
      BY <3>3, <2>2, <2>3, <2>4 DEF Handling, Shape
    <3> QED BY <3>2, <3>3
  <2>7. Covered(w)' /\ Resolved(w)' /\ AnsweredUpTo(w)'
    BY <2>3, <1>1 DEF WorkerInv, Covered, Resolved, AnsweredUpTo, Answered
  <2> QED BY <2>5, <2>6, <2>7 DEF WorkerInv
<1>5. CASE PushOutput(w)
  <2>1. /\ pc[w] = "push" /\ pc'[w] = "next" /\ cur'[w] = cur[w] + 1
        /\ outputs'[w] = outputs[w] \cup {EventOf(w)}
        /\ committed' = committed /\ log' = log /\ published' = published
        /\ last' = last /\ failed' = failed
    BY <1>1, <1>5 DEF PushOutput, TypeOK, envVars
  <2>2. Progress(w)'
    BY <2>1, <1>1, <1>2 DEF WorkerInv, Progress
  <2>3. Covered(w)'
    <3>1. EventOf(w).offset = cur[w]
      BY DEF EventOf
    <3>2. ASSUME NEW i \in (committed[w] + 1)..(cur'[w] - 1)
          PROVE  \E e \in outputs'[w] : e.offset = i
      <4>1. i = cur[w] \/ i \in (committed[w] + 1)..(cur[w] - 1)
        BY <2>1, <1>2
      <4> QED BY <4>1, <3>1, <2>1, <1>1 DEF WorkerInv, Covered
    <3> QED BY <3>2, <2>1 DEF Covered
  <2>4. AnsweredUpTo(w)'
    BY <2>1, <1>1, StillAnswered DEF WorkerInv
  <2> QED BY <2>1, <2>2, <2>3, <2>4 DEF WorkerInv, Handling, Resolved
<1>6. CASE LeaveLoop(w) \/ TelemetryThrows(w)
  <2>1. /\ pc[w] \in {"next", "push"} /\ pc'[w] = "send"
        /\ committed' = committed /\ log' = log /\ published' = published
        /\ cur' = cur /\ last' = last /\ outputs' = outputs
        /\ failed'[w] \/ cur[w] > last[w]
    BY <1>1, <1>6 DEF LeaveLoop, TelemetryThrows, TypeOK, envVars
  <2>2. Progress(w)'
    BY <2>1, <1>1, <1>2 DEF WorkerInv, Progress
  <2>3. Covered(w)'
    BY <2>1, <1>1 DEF WorkerInv, Covered
  <2>4. AnsweredUpTo(w)'
    BY <2>1, <1>1, StillAnswered DEF WorkerInv
  <2> QED BY <2>1, <2>2, <2>3, <2>4 DEF WorkerInv, Handling, Resolved
<1>7. CASE Send(w)
  <2>1. /\ pc[w] = "send" /\ committed' = committed /\ log' = log
        /\ published'[w] = published[w] \cup outputs[w]
    BY <1>1, <1>7 DEF Send, TypeOK, envVars
  <2>2. AnsweredUpTo(w)'
    BY <2>1, <1>1, StillAnswered DEF WorkerInv
  <2>3. CASE failed[w]
    BY <2>2, <2>3, <1>1, <1>7, LeaveKeeps DEF Send
  <2>4. CASE ~failed[w]
    <3>1. pc'[w] = "commit" /\ cur' = cur /\ last' = last
      BY <2>4, <1>1, <1>7 DEF Send, TypeOK
    <3>2. Progress(w)'
      BY <3>1, <2>1, <1>1 DEF WorkerInv, Progress
    <3>3. cur[w] - 1 = last[w]
      BY <2>1, <2>4, <1>1, <1>2 DEF WorkerInv, Progress
    <3>4. Resolved(w)'
      <4> SUFFICES ASSUME NEW i \in (committed[w] + 1)..last[w]
                   PROVE  \E e \in published'[w] : e.offset = i
        BY <3>1, <2>1 DEF Resolved, Answered
      <4>1. \E e \in outputs[w] : e.offset = i
        BY <3>3, <2>1, <1>1 DEF WorkerInv, Covered
      <4> QED BY <4>1, <2>1
    <3> QED BY <2>2, <3>1, <3>2, <3>4 DEF WorkerInv, Handling, Covered
  <2> QED BY <2>3, <2>4
<1>8. CASE Commit(w)
  <2>1. /\ pc[w] = "commit" /\ committed'[w] = last[w] /\ published' = published
        /\ Leave(w)
    BY <1>1, <1>8 DEF Commit, TypeOK
  <2>2. AnsweredUpTo(w)'
    <3> SUFFICES ASSUME NEW i \in 1..last[w]
                 PROVE  \E e \in published[w] : e.offset = i
      BY <2>1 DEF AnsweredUpTo, Answered
    <3>1. i \in 1..committed[w] \/ i \in (committed[w] + 1)..last[w]
      BY <1>2
    <3> QED BY <3>1, <2>1, <1>1 DEF WorkerInv, AnsweredUpTo, Resolved, Answered
  <2> QED BY <2>1, <2>2, <1>1, LeaveKeeps
<1>9. CASE SendFails(w)
  <2>1. PICK sent \in SUBSET outputs[w] :
               published' = [published EXCEPT ![w] = @ \cup sent]
    BY <1>9 DEF SendFails
  <2>2. published[w] \subseteq published'[w] /\ committed' = committed /\ Leave(w)
    BY <2>1, <1>1, <1>9 DEF SendFails, TypeOK
  <2>3. AnsweredUpTo(w)'
    BY <2>2, <1>1, StillAnswered DEF WorkerInv
  <2> QED BY <2>2, <2>3, <1>1, LeaveKeeps
<1>10. CASE Crash(w)
  <2>1. published' = published /\ committed' = committed /\ Leave(w)
    BY <1>10 DEF Crash
  <2>2. AnsweredUpTo(w)'
    BY <2>1, <1>1, StillAnswered DEF WorkerInv
  <2> QED BY <2>1, <2>2, <1>1, LeaveKeeps
<1> QED BY <1>3, <1>4, <1>5, <1>6, <1>7, <1>8, <1>9, <1>10 DEF BatchStep

-----------------------------------------------------------------------------
LEMMA Invariance == Spec => []IInv
<1>1. IInv /\ [Next]_vars => IInv'
  <2> SUFFICES ASSUME IInv, [Next]_vars
               PROVE  IInv'
    OBVIOUS
  <2>1. ASSUME NEW w \in Worker, WorkerStep(w)
        PROVE  IInv'
    <3>1. TypeOK'
      BY <2>1, HandlerTypeStep, BatchTypeStep DEF WorkerStep, Failure
    <3>2. WorkerInv(w)'
      BY <2>1, HandlerKeeps, BatchKeeps DEF WorkerStep, Failure
    <3>3. ASSUME NEW u \in Worker, u # w
          PROVE  WorkerInv(u)'
      <4>1. WorkerInv(u)
        BY DEF IInv
      <4>2. SameWorker(u)
        BY <2>1, <3>3, OthersUnchanged
      <4> QED BY <4>1, <4>2, Preserved
    <3> QED BY <3>1, <3>2, <3>3 DEF IInv
  <2>2. ASSUME NEW f \in Fsp, NEW s \in Status, ParticipantChanges(f, s)
        PROVE  IInv'
    <3>1. TypeOK'
      BY <2>2 DEF ParticipantChanges, IInv, TypeOK, oracleVars, messageVars
    <3>2. ASSUME NEW u \in Worker
          PROVE  SameWorker(u)
      BY <2>2 DEF ParticipantChanges, SameWorker, messageVars
    <3> QED BY <3>1, <3>2, Preserved DEF IInv
  <2>3. CASE UNCHANGED vars
    <3>1. TypeOK'
      BY <2>3 DEF vars, IInv, TypeOK
    <3>2. ASSUME NEW u \in Worker
          PROVE  SameWorker(u)
      BY <2>3 DEF vars, SameWorker
    <3> QED BY <3>1, <3>2, Preserved DEF IInv
  <2> QED BY <2>1, <2>2, <2>3 DEF Next, WorkerStep
<1> QED BY <1>1, InitIInv, PTL DEF Spec

(***************************************************************************)
(* The pipeline's state keeps its types, whatever is delivered, fails or     *)
(* restarts: in particular every handler returns one event, and the oracle   *)
(* is only ever given an owner that is an FSP.                               *)
(***************************************************************************)
THEOREM TypeCorrect == Spec => []TypeOK
<1>1. IInv => TypeOK
  BY DEF IInv
<1> QED BY <1>1, Invariance, PTL

(***************************************************************************)
(* No request is lost: the committed offset of a partition never passes a    *)
(* request that has no event on the output topic (_batchMsgHandler rethrows  *)
(* what the loop threw, and sends before the callback resolves).             *)
(***************************************************************************)
THEOREM NoRequestLost == Spec => []AnsweredBeforeCommit
<1>1. IInv => AnsweredBeforeCommit
  BY DEF IInv, WorkerInv, AnsweredUpTo, AnsweredBeforeCommit
<1> QED BY <1>1, Invariance, PTL

-----------------------------------------------------------------------------
(* What the events of a worker say, on their way and on the output topic.    *)

VettedEvent(w, e) ==
    e.name \in SuccessReplies =>
        /\ Request(w, e).requester \in e.vetted
        /\ Request(w, e).name \notin AssociationRequests => e.dest \in e.vetted

RoutedEvent(w, e) ==
    e.name \in {"PartyInfoRequestedEvt", "ParticipantQueryResponseEvt"} =>
        \/ e.dest = Request(w, e).destination
        \/ AskedFor(Request(w, e).party, e.dest)

(* The outputs belong to the current delivery, one for each message the loop *)
(* has passed; what was published before belongs to earlier ones.            *)
Stamps(w) ==
    /\ pc[w] = "poll" => outputs[w] = {}
    /\ \A e \in published[w] :
          /\ e.attempt <= attempt[w]
          /\ pc[w] \in {"next", "run", "push", "send"} => e.attempt < attempt[w]
    /\ \A e \in outputs[w] :
          /\ e.attempt = attempt[w]
          /\ pc[w] \in {"next", "run", "push"} => e.offset < cur[w]
    /\ \A e1, e2 \in outputs[w] : e1.offset = e2.offset => e1 = e2
    /\ \A e1, e2 \in published[w] :
          e1.offset = e2.offset /\ e1.attempt = e2.attempt => e1 = e2

(* The destination a handler works with is the one its request names or one  *)
(* that the oracle was once given for the party.                             *)
Routing(w) ==
    pc[w] \in {"run", "push"} =>
        dest[w] = Msg(w).destination \/ AskedFor(Msg(w).party, dest[w])

EventsInv(w) ==
    /\ \A e \in outputs[w] \cup published[w] : VettedEvent(w, e) /\ RoutedEvent(w, e)
    /\ Stamps(w)
    /\ Routing(w)

RegisteredInv == \A p, f : <<p, f>> \in registered => AskedFor(p, f)

EInv == RegisteredInv /\ \A w \in Worker : EventsInv(w)

LEMMA InitEInv == Init => EInv
BY DEF Init, EInv, RegisteredInv, EventsInv, Stamps, Routing

LEMMA EventsPreserved ==
    ASSUME NEW u \in Worker, EventsInv(u), SameWorker(u)
    PROVE  EventsInv(u)'
<1>1. \A p, f : AskedFor(p, f)' = AskedFor(p, f)
  BY DEF SameWorker, AskedFor
<1>2. \A e : VettedEvent(u, e)' = VettedEvent(u, e) /\ RoutedEvent(u, e)' = RoutedEvent(u, e)
  BY <1>1 DEF SameWorker, VettedEvent, RoutedEvent, Request
<1>3. Stamps(u)'
  BY DEF EventsInv, SameWorker, Stamps
<1>4. Routing(u)'
  BY <1>1 DEF EventsInv, SameWorker, Routing, Msg
<1> QED BY <1>2, <1>3, <1>4 DEF EventsInv, SameWorker

(* Nobody but the oracle's users changes what was registered. *)
LEMMA RegisteredStep ==
    ASSUME IInv, RegisteredInv, [Next]_vars
    PROVE  RegisteredInv' /\ log' = log
<1>1. TypeOK /\ \A w \in Worker : WorkerInv(w)
  BY DEF IInv
<1>2. ASSUME log' = log, registered' = registered
      PROVE  RegisteredInv' /\ log' = log
  BY <1>2 DEF RegisteredInv, AskedFor
<1>3. ASSUME NEW w \in Worker, WorkerStep(w)
      PROVE  RegisteredInv' /\ log' = log
  <2>1. log' = log
    BY <1>3 DEF WorkerStep, HandlerStep, validateRequesterParticipantInfoOrGetErrorEvent,
       validateDestinationParticipantInfoOrGetErrorEvent, _getOracleAdapter,
       _getParticipantIdFromOracle, associateParticipant, disassociateParticipant,
       Validate, batchVars, BatchStep, Deliver, TakeMessage, PushOutput, LeaveLoop, Send,
       Commit, Failure, HandlerThrows, TelemetryThrows, SendFails, Crash, envVars
  <2>2. CASE ~associateParticipant(w)
    <3>1. registered' = registered
      BY <1>3, <2>2 DEF WorkerStep, HandlerStep,
         validateRequesterParticipantInfoOrGetErrorEvent,
         validateDestinationParticipantInfoOrGetErrorEvent, _getOracleAdapter,
         _getParticipantIdFromOracle, disassociateParticipant, Unregister,
         Validate, BatchStep, Deliver, TakeMessage, PushOutput, LeaveLoop, Send,
         Commit, Failure, HandlerThrows, TelemetryThrows, SendFails, Crash, oracleVars
    <3> QED BY <1>2, <2>1, <3>1
  <2>3. CASE associateParticipant(w)
    <3>1. pc[w] = "run" /\ Head(todo[w]) = "associate"
      BY <2>3 DEF associateParticipant, At
    <3>2. todo[w] \in Seq(AwaitSteps) /\ todo[w] # <<>> /\ cur[w] <= last[w]
          /\ reply[w] \in SuccessReplies
      BY <3>1, <1>1 DEF WorkerInv, Progress, Handling, TypeOK
    <3>3. todo[w][1] = "associate" /\ 1 \in 1..Len(todo[w])
      BY <3>1, <3>2
    <3>4. Msg(w).name = "ParticipantAssociationRequestReceivedEvt"
      BY <3>1, <3>3, <1>1 DEF WorkerInv, Handling
    <3>5. cur[w] \in 1..Len(log[w])
      BY <3>1, <3>2, <1>1, MsgType DEF WorkerInv
    <3>6. cur[w] \in DOMAIN log[w]
      BY <3>5, <1>1 DEF TypeOK
    <3>7. AskedFor(Msg(w).party, Msg(w).requester)
      BY <3>4, <3>6 DEF AskedFor, Msg
    <3>8. registered' \subseteq registered \cup {Pair(w)}
      BY <2>3 DEF associateParticipant, Register, oracleVars
    <3>9. ASSUME NEW p, NEW f, <<p, f>> \in registered'
          PROVE  AskedFor(p, f)
      <4>1. <<p, f>> \in registered \/ (p = Msg(w).party /\ f = Msg(w).requester)
        BY <3>8, <3>9 DEF Pair
      <4> QED BY <4>1, <3>7 DEF RegisteredInv
    <3> QED BY <3>9, <2>1 DEF RegisteredInv, AskedFor
  <2> QED BY <2>2, <2>3
<1>4. CASE \E f \in Fsp, s \in Status : ParticipantChanges(f, s)
  BY <1>2, <1>4 DEF ParticipantChanges, oracleVars
<1>5. CASE UNCHANGED vars
  BY <1>2, <1>5 DEF vars
<1> QED BY <1>3, <1>4, <1>5 DEF Next, WorkerStep

LEMMA HandlerEvents ==
    ASSUME IInv, EInv, NEW w \in Worker, HandlerStep(w) \/ HandlerThrows(w)
    PROVE  EventsInv(w)'
<1>1. TypeOK /\ EventsInv(w) /\ RegisteredInv
  BY DEF IInv, EInv
<1>2. HandlerEffect(w)
  BY HandlerSteps
<1>3. /\ pc[w] \in {"run", "push"} /\ log' = log /\ cur' = cur /\ published' = published
      /\ outputs' = outputs /\ attempt' = attempt
  BY <1>2 DEF HandlerEffect, batchVars
<1>4. pc'[w] \in {"run", "push"}
  <2>1. Advance(w) \/ \E e \in ErrorReplies : ReturnError(w, e)
    BY <1>2 DEF HandlerEffect
  <2>2. CASE Advance(w)
    BY <2>2, <1>1 DEF TypeOK, Advance
  <2>3. CASE \E e \in ErrorReplies : ReturnError(w, e)
    BY <2>3, <1>1 DEF TypeOK, ReturnError
  <2> QED BY <2>1, <2>2, <2>3
<1>5. \A p, f : AskedFor(p, f)' = AskedFor(p, f)
  BY <1>3 DEF AskedFor
<1>6. \A e : VettedEvent(w, e)' = VettedEvent(w, e) /\ RoutedEvent(w, e)' = RoutedEvent(w, e)
  BY <1>3, <1>5 DEF VettedEvent, RoutedEvent, Request
<1>7. Stamps(w)'
  BY <1>1, <1>3, <1>4 DEF EventsInv, Stamps
<1>8. Routing(w)'
  <2>1. dest'[w] = dest[w] \/ \E f \in Fsp : /\ <<Msg(w).party, f>> \in registered
                                             /\ dest' = [dest EXCEPT ![w] = f]
    BY DEF HandlerStep, validateRequesterParticipantInfoOrGetErrorEvent,
       validateDestinationParticipantInfoOrGetErrorEvent, _getOracleAdapter,
       _getParticipantIdFromOracle, associateParticipant, disassociateParticipant,
       Validate, HandlerThrows
  <2>2. dest'[w] = dest[w] \/ <<Msg(w).party, dest'[w]>> \in registered
    BY <2>1, <1>1 DEF TypeOK
  <2>3. dest'[w] = Msg(w).destination \/ AskedFor(Msg(w).party, dest'[w])
    BY <2>2, <1>1, <1>3 DEF EventsInv, Routing, RegisteredInv
  <2> QED BY <2>3, <1>3, <1>5 DEF Routing, Msg
<1> QED BY <1>1, <1>3, <1>6, <1>7, <1>8 DEF EventsInv

LEMMA BatchEvents ==
    ASSUME IInv, EInv, NEW w \in Worker,
           BatchStep(w) \/ TelemetryThrows(w) \/ SendFails(w) \/ Crash(w)
    PROVE  EventsInv(w)'
<1>1. TypeOK /\ WorkerInv(w) /\ EventsInv(w)
  BY DEF IInv, EInv
<1>2. /\ attempt[w] \in Nat /\ cur[w] \in Nat
      /\ \A e \in published[w] \cup outputs[w] : e.attempt \in Nat /\ e.offset \in Nat
  <2>1. published[w] \subseteq Event /\ outputs[w] \subseteq Event
    BY <1>1 DEF TypeOK
  <2>2. \A e \in Event : e.attempt \in Nat /\ e.offset \in Nat
    BY DEF Event
  <2> QED BY <2>1, <2>2, <1>1 DEF TypeOK
<1>3. log' = log
  BY DEF BatchStep, Deliver, TakeMessage, PushOutput, LeaveLoop, Send, Commit,
     TelemetryThrows, SendFails, Crash, envVars
<1>4. \A p, f : AskedFor(p, f)' = AskedFor(p, f)
  BY <1>3 DEF AskedFor
<1>5. \A e : VettedEvent(w, e)' = VettedEvent(w, e) /\ RoutedEvent(w, e)' = RoutedEvent(w, e)
  BY <1>3, <1>4 DEF VettedEvent, RoutedEvent, Request
<1>6. ASSUME NEW sent \in SUBSET outputs[w], pc[w] = "send",
             published'[w] = published[w] \cup sent, attempt' = attempt, Leave(w)
      PROVE  EventsInv(w)'
  <2>1. pc'[w] = "poll" /\ outputs'[w] = {}
    BY <1>1, <1>6 DEF Leave, TypeOK
  <2>2. Stamps(w)'
    BY <2>1, <1>1, <1>2, <1>6 DEF EventsInv, Stamps
  <2> QED BY <2>1, <2>2, <1>1, <1>5, <1>6 DEF EventsInv, Routing
<1>7. ASSUME published' = published, attempt' = attempt, Leave(w)
      PROVE  EventsInv(w)'
  <2>1. pc'[w] = "poll" /\ outputs'[w] = {}
    BY <1>1, <1>7 DEF Leave, TypeOK
  <2>2. Stamps(w)'
    BY <2>1, <1>1, <1>2, <1>7 DEF EventsInv, Stamps
  <2> QED BY <2>1, <2>2, <1>1, <1>5, <1>7 DEF EventsInv, Routing
<1>8. CASE Deliver(w)
  <2>1. /\ pc[w] = "poll" /\ pc'[w] = "next" /\ attempt'[w] = attempt[w] + 1
        /\ published' = published /\ outputs' = outputs
    BY <1>1, <1>8 DEF Deliver, TypeOK
  <2>2. outputs[w] = {}
    BY <2>1, <1>1 DEF EventsInv, Stamps
  <2>3. \A e \in published[w] : e.attempt <= attempt'[w] /\ e.attempt < attempt'[w]
    BY <2>1, <1>1, <1>2 DEF EventsInv, Stamps
  <2>4. Stamps(w)'
    BY <2>1, <2>2, <2>3, <1>1 DEF EventsInv, Stamps
  <2> QED BY <2>1, <2>4, <1>1, <1>5 DEF EventsInv, Routing
<1>9. CASE TakeMessage(w)
  <2>1. /\ pc[w] = "next" /\ pc'[w] \in {"run", "push"} /\ attempt' = attempt
        /\ published' = published /\ outputs' = outputs /\ cur' = cur
        /\ dest'[w] = Msg(w).destination
    BY <1>1, <1>9 DEF TakeMessage, TypeOK
  <2>2. Stamps(w)'
    BY <2>1, <1>1 DEF EventsInv, Stamps
  <2>3. Routing(w)'
    BY <2>1, <1>3 DEF Routing, Msg
  <2> QED BY <2>1, <2>2, <2>3, <1>1, <1>5 DEF EventsInv
<1>10. CASE PushOutput(w)
  <2> DEFINE e == EventOf(w)
  <2>1. /\ pc[w] = "push" /\ pc'[w] = "next" /\ attempt' = attempt
        /\ published' = published /\ outputs'[w] = outputs[w] \cup {e}
        /\ cur'[w] = cur[w] + 1
    BY <1>1, <1>10 DEF PushOutput, TypeOK
  <2>2. /\ e.offset = cur[w] /\ e.attempt = attempt[w] /\ e.name = reply[w]
        /\ e.dest = dest[w] /\ e.vetted = vetted[w]
    BY DEF EventOf
  <2>3. Request(w, e) = Msg(w)
    BY <2>2 DEF Request, Msg
  <2> HIDE DEF e
  <2>4. VettedEvent(w, e)
    BY <2>1, <2>2, <2>3, <1>1 DEF VettedEvent, WorkerInv, Handling
  <2>5. RoutedEvent(w, e)
    BY <2>1, <2>2, <2>3, <1>1 DEF RoutedEvent, EventsInv, Routing
  <2>6. \A d \in outputs[w] : d.offset < cur[w] /\ d.offset # e.offset
    BY <2>1, <2>2, <1>1, <1>2 DEF EventsInv, Stamps
  <2>7. \A d \in outputs'[w] : d.attempt = attempt'[w] /\ d.offset < cur'[w]
    BY <2>1, <2>2, <2>6, <1>1, <1>2 DEF EventsInv, Stamps
  <2>8. \A e1, e2 \in outputs'[w] : e1.offset = e2.offset => e1 = e2
    BY <2>1, <2>6, <1>1 DEF EventsInv, Stamps
  <2>9. Stamps(w)'
    BY <2>1, <2>7, <2>8, <1>1 DEF EventsInv, Stamps
  <2> QED BY <2>1, <2>4, <2>5, <2>9, <1>1, <1>5 DEF EventsInv, Routing
<1>11. CASE LeaveLoop(w) \/ TelemetryThrows(w)
  <2>1. /\ pc[w] \in {"next", "push"} /\ pc'[w] = "send" /\ attempt' = attempt
        /\ published' = published /\ outputs' = outputs
    BY <1>1, <1>11 DEF LeaveLoop, TelemetryThrows, TypeOK
  <2>2. Stamps(w)'
    BY <2>1, <1>1 DEF EventsInv, Stamps
  <2> QED BY <2>1, <2>2, <1>1, <1>5 DEF EventsInv, Routing
<1>12. CASE Send(w)
  <2>1. /\ pc[w] = "send" /\ published'[w] = published[w] \cup outputs[w]
        /\ attempt' = attempt
    BY <1>1, <1>12 DEF Send, TypeOK
  <2>2. CASE failed[w]
    BY <2>1, <2>2, <1>6, <1>12 DEF Send
  <2>3. CASE ~failed[w]
    <3>1. pc'[w] = "commit" /\ outputs' = outputs
      BY <2>3, <1>1, <1>12 DEF Send, TypeOK
    <3>2. Stamps(w)'
      BY <2>1, <3>1, <1>1, <1>2 DEF EventsInv, Stamps
    <3> QED BY <2>1, <3>1, <3>2, <1>1, <1>5 DEF EventsInv, Routing
  <2> QED BY <2>2, <2>3
<1>13. CASE Commit(w) \/ Crash(w)
  BY <1>7, <1>13 DEF Commit, Crash
<1>14. CASE SendFails(w)
  <2>1. PICK sent \in SUBSET outputs[w] :
               published' = [published EXCEPT ![w] = @ \cup sent]
    BY <1>14 DEF SendFails
  <2>2. published'[w] = published[w] \cup sent
    BY <2>1, <1>1 DEF TypeOK
  <2> QED BY <2>2, <1>6, <1>14 DEF SendFails
<1> QED BY <1>8, <1>9, <1>10, <1>11, <1>12, <1>13, <1>14 DEF BatchStep

LEMMA EventsInvariance == Spec => []EInv
<1>1. IInv /\ EInv /\ [Next]_vars => EInv'
  <2> SUFFICES ASSUME IInv, EInv, [Next]_vars
               PROVE  EInv'
    OBVIOUS
  <2>1. RegisteredInv'
    BY RegisteredStep DEF EInv
  <2>2. ASSUME NEW w \in Worker, WorkerStep(w)
        PROVE  \A u \in Worker : EventsInv(u)'
    <3>1. EventsInv(w)'
      BY <2>2, HandlerEvents, BatchEvents DEF WorkerStep, Failure
    <3>2. ASSUME NEW u \in Worker, u # w
          PROVE  EventsInv(u)'
      <4>1. EventsInv(u)
        BY DEF EInv
      <4>2. SameWorker(u)
        BY <2>2, <3>2, OthersUnchanged
      <4> QED BY <4>1, <4>2, EventsPreserved
    <3> QED BY <3>1, <3>2
  <2>3. CASE \E f \in Fsp, s \in Status : ParticipantChanges(f, s)
    <3>1. \A u \in Worker : SameWorker(u)
      BY <2>3 DEF ParticipantChanges, SameWorker, messageVars
    <3> QED BY <3>1, <2>1, EventsPreserved DEF EInv
  <2>4. CASE UNCHANGED vars
    <3>1. \A u \in Worker : SameWorker(u)
      BY <2>4 DEF vars, SameWorker
    <3> QED BY <3>1, <2>1, EventsPreserved DEF EInv
  <2> QED BY <2>1, <2>2, <2>3, <2>4 DEF EInv, Next, WorkerStep
<1> QED BY <1>1, InitEInv, Invariance, PTL DEF Spec

(***************************************************************************)
(* No answer is given twice in one delivery: neither the loop nor the        *)
(* finally block of _batchMsgHandler adds a second event for a message.      *)
(***************************************************************************)
THEOREM NoSecondAnswer == Spec => []OneAnswerPerDelivery
<1>1. EInv => OneAnswerPerDelivery
  BY DEF EInv, EventsInv, Stamps, OneAnswerPerDelivery
<1> QED BY <1>1, EventsInvariance, PTL

(***************************************************************************)
(* Validation is never bypassed: the aggregate's handlers publish a success  *)
(* only for a requester they found active and, where the event is routed, to *)
(* a destination they found active.                                          *)
(***************************************************************************)
THEOREM NothingUnvetted == Spec => []SuccessIsVetted
<1>1. EInv => SuccessIsVetted
  BY DEF EInv, EventsInv, VettedEvent, SuccessIsVetted
<1> QED BY <1>1, EventsInvariance, PTL

(***************************************************************************)
(* A query never reaches an FSP that neither the query named nor any         *)
(* association request of any partition claimed the party for.               *)
(***************************************************************************)
THEOREM OnlyClaimedDestinations == Spec => []RoutedToOwner
<1>1. EInv => RoutedToOwner
  BY DEF EInv, EventsInv, RoutedEvent, RoutedToOwner
<1> QED BY <1>1, EventsInvariance, PTL

-----------------------------------------------------------------------------
(* What the oracle holds and what was reported, while nothing fails.         *)

ReportsPair(w, e, o) ==
    /\ e.name = "ParticipantAssociationCreatedEvt"
    /\ <<Request(w, e).party, Request(w, e).requester>> = o

(* A pair in the oracle has its Created event published, among the outputs of *)
(* a batch, or about to be pushed there.                                     *)
AccountedBy(w, o) ==
    \/ \E e \in published[w] : ReportsPair(w, e, o)
    \/ /\ pc[w] \in {"next", "run", "push", "send"}
       /\ \E e \in outputs[w] : ReportsPair(w, e, o)
    \/ /\ pc[w] = "push"
       /\ reply[w] = "ParticipantAssociationCreatedEvt"
       /\ Pair(w) = o

(* A handler that associates has nothing to await after that. *)
AssociatesLast(w) ==
    pc[w] = "run" =>
        \A j \in 1..Len(todo[w]) :
            todo[w][j] = "associate" =>
                j = Len(todo[w]) /\ reply[w] = "ParticipantAssociationCreatedEvt"

ReportInv ==
    /\ \A w \in Worker : AssociatesLast(w)
    /\ faults = 0 => \A o \in owners : \E w \in Worker : AccountedBy(w, o)

LEMMA AssociatesLastKept ==
    ASSUME IInv, NEW w \in Worker, AssociatesLast(w), WorkerStep(w)
    PROVE  AssociatesLast(w)'
<1>1. TypeOK /\ Progress(w) /\ todo[w] \in Seq(AwaitSteps)
  BY DEF IInv, WorkerInv, TypeOK
<1>2. CASE HandlerStep(w) \/ HandlerThrows(w)
  <2>1. \/ Advance(w) /\ pc[w] = "run" /\ todo[w] # <<>>
        \/ \E e \in ErrorReplies : ReturnError(w, e)
    BY <1>1, <1>2, HandlerSteps DEF HandlerEffect, Progress
  <2>2. CASE Advance(w) /\ pc[w] = "run" /\ todo[w] # <<>>
    <3>1. todo'[w] = Tail(todo[w]) /\ reply' = reply
      BY <1>1, <2>2 DEF Advance, TypeOK
    <3>2. /\ Len(Tail(todo[w])) = Len(todo[w]) - 1 /\ Len(todo[w]) \in Nat
          /\ \A j \in 1..Len(Tail(todo[w])) :
                j + 1 \in 1..Len(todo[w]) /\ Tail(todo[w])[j] = todo[w][j + 1]
      BY <1>1, <2>2
    <3>3. \A j \in 1..Len(Tail(todo[w])) :
              Tail(todo[w])[j] = "associate" =>
                  /\ j = Len(Tail(todo[w]))
                  /\ reply[w] = "ParticipantAssociationCreatedEvt"
      BY <2>2, <3>2 DEF AssociatesLast
    <3>. QED
      BY <3>1, <3>3 DEF AssociatesLast
  <2>3. CASE \E e \in ErrorReplies : ReturnError(w, e)
    BY <1>1, <2>3 DEF ReturnError, AssociatesLast, TypeOK
  <2>. QED
    BY <2>1, <2>2, <2>3
<1>3. CASE TakeMessage(w)
  <2>1. Msg(w) \in Message
    BY <1>1, <1>3, MsgType DEF TakeMessage
  <2>2. todo'[w] = handleEvent(Msg(w)).steps /\ reply'[w] = handleEvent(Msg(w)).reply
    BY <1>1, <1>3 DEF TakeMessage, TypeOK
  <2>. QED
    BY <2>1, <2>2, HandlerShape DEF Shape, AssociatesLast
<1>4. ASSUME Leave(w) PROVE AssociatesLast(w)'
  BY <1>1, <1>4 DEF Leave, AssociatesLast, TypeOK
<1>5. CASE Deliver(w) \/ PushOutput(w) \/ LeaveLoop(w) \/ TelemetryThrows(w)
  BY <1>1, <1>5 DEF Deliver, PushOutput, LeaveLoop, TelemetryThrows, AssociatesLast, TypeOK
<1>6. CASE Send(w)
  BY <1>1, <1>4, <1>6 DEF Send, AssociatesLast, TypeOK
<1>7. CASE Commit(w) \/ SendFails(w) \/ Crash(w)
  BY <1>4, <1>7 DEF Commit, SendFails, Crash
<1>. QED
  BY <1>2, <1>3, <1>5, <1>6, <1>7 DEF WorkerStep, BatchStep, Failure

(* A worker that steps without a failure lets nothing go that it accounts    *)
(* for, and accounts for the pair that it has registered.                    *)
LEMMA StepAccounts ==
    ASSUME IInv, NEW w \in Worker, AssociatesLast(w), WorkerStep(w), faults' = 0, NEW o
    PROVE  /\ faults = 0
           /\ AccountedBy(w, o) => AccountedBy(w, o)'
           /\ o \in owners' => o \in owners \/ AccountedBy(w, o)'
<1>1. TypeOK /\ Progress(w) /\ todo[w] \in Seq(AwaitSteps) /\ faults \in Nat
  BY DEF IInv, WorkerInv, TypeOK
<1>2. ~ Fault
  BY <1>1 DEF Fault
<1>3. BatchStep(w) \/ HandlerStep(w)
  BY <1>2 DEF WorkerStep, Failure, HandlerThrows, TelemetryThrows, SendFails, Crash
<1>4. CASE HandlerStep(w)
  <2>1. /\ pc[w] = "run" /\ todo[w] # <<>> /\ UNCHANGED batchVars /\ faults' = faults
        /\ Advance(w) \/ \E e \in ErrorReplies : ReturnError(w, e)
    <3>1. faults' = faults
      BY <1>2, <1>4 DEF HandlerStep, validateRequesterParticipantInfoOrGetErrorEvent,
         validateDestinationParticipantInfoOrGetErrorEvent, _getOracleAdapter,
         _getParticipantIdFromOracle, associateParticipant, disassociateParticipant, Validate
    <3>2. pc[w] = "run"
      BY <1>4 DEF HandlerStep, validateRequesterParticipantInfoOrGetErrorEvent,
         validateDestinationParticipantInfoOrGetErrorEvent, _getOracleAdapter,
         _getParticipantIdFromOracle, associateParticipant, disassociateParticipant, At
    <3>. QED
      BY <1>1, <1>4, <3>1, <3>2, HandlerSteps DEF HandlerEffect, Progress
  <2>2. pc'[w] \in {"run", "push"}
    BY <1>1, <2>1 DEF Advance, ReturnError, TypeOK
  <2>3. AccountedBy(w, o) => AccountedBy(w, o)'
    BY <2>1, <2>2 DEF AccountedBy, ReportsPair, Request, batchVars
  <2>4. CASE ~ associateParticipant(w)
    <3>1. owners' \subseteq owners
      BY <1>4, <2>4 DEF HandlerStep, validateRequesterParticipantInfoOrGetErrorEvent,
         validateDestinationParticipantInfoOrGetErrorEvent, _getOracleAdapter,
         _getParticipantIdFromOracle, disassociateParticipant, Validate, Unregister, oracleVars
    <3>. QED
      BY <2>1, <2>3, <3>1
  <2>5. CASE associateParticipant(w)
    <3>1. CASE owners' = owners
      BY <2>1, <2>3, <3>1
    <3>2. CASE Register(w) /\ Advance(w)
      <4>1. todo[w][1] = "associate" /\ 1 \in 1..Len(todo[w])
        BY <1>1, <2>1, <2>5 DEF associateParticipant, At
      <4>2. 1 = Len(todo[w]) /\ reply[w] = "ParticipantAssociationCreatedEvt"
        BY <2>1, <4>1 DEF AssociatesLast
      <4>3. Tail(todo[w]) = <<>>
        <5>1. Tail(todo[w]) \in Seq(AwaitSteps) /\ Len(Tail(todo[w])) = 0
          BY <1>1, <2>1, <4>2
        <5>. HIDE <1>1, <4>2
        <5>. QED
          BY <5>1, EmptySeq
      <4>4. pc'[w] = "push" /\ reply'[w] = "ParticipantAssociationCreatedEvt"
        BY <1>1, <3>2, <4>2, <4>3 DEF Advance, TypeOK
      <4>5. Pair(w)' = Pair(w)
        BY <2>1 DEF Pair, Msg, batchVars
      <4>6. o \in owners' => o \in owners \/ o = Pair(w)
        BY <3>2 DEF Register
      <4>. QED
        BY <2>1, <2>3, <4>4, <4>5, <4>6 DEF AccountedBy
    <3>. QED
      BY <1>2, <2>5, <3>1, <3>2 DEF associateParticipant, oracleVars
  <2>. QED
    BY <2>4, <2>5
<1>5. CASE BatchStep(w)
  <2>1. faults' = faults /\ owners' = owners /\ log' = log
    BY <1>5 DEF BatchStep, Deliver, TakeMessage, PushOutput, LeaveLoop, Send, Commit,
        oracleVars, envVars
  <2>2. \A e : ReportsPair(w, e, o)' = ReportsPair(w, e, o)
    BY <2>1 DEF ReportsPair, Request
  <2>3. CASE Deliver(w)
    BY <1>1, <2>1, <2>2, <2>3 DEF Deliver, AccountedBy, TypeOK
  <2>4. CASE TakeMessage(w)
    BY <1>1, <2>1, <2>2, <2>4 DEF TakeMessage, AccountedBy, TypeOK
  <2>5. CASE PushOutput(w)
    <3>1. /\ pc[w] = "push" /\ pc'[w] = "next" /\ published' = published
          /\ outputs'[w] = outputs[w] \cup {EventOf(w)}
      BY <1>1, <2>5 DEF PushOutput, TypeOK
    <3>2. reply[w] = "ParticipantAssociationCreatedEvt" /\ Pair(w) = o
              => ReportsPair(w, EventOf(w), o)
      BY DEF ReportsPair, EventOf, Request, Pair, Msg
    <3>. QED
      BY <2>1, <2>2, <3>1, <3>2 DEF AccountedBy
  <2>6. CASE LeaveLoop(w)
    BY <1>1, <2>1, <2>2, <2>6 DEF LeaveLoop, AccountedBy, TypeOK
  <2>7. CASE Send(w)
    <3>1. pc[w] = "send" /\ published'[w] = published[w] \cup outputs[w]
      BY <1>1, <2>7 DEF Send, TypeOK
    <3>. QED
      BY <2>1, <2>2, <3>1 DEF AccountedBy
  <2>8. CASE Commit(w)
    <3>1. pc[w] = "commit" /\ published' = published
      BY <2>8 DEF Commit
    <3>. QED
      BY <2>1, <2>2, <3>1 DEF AccountedBy
  <2>. QED
    BY <1>5, <2>1, <2>3, <2>4, <2>5, <2>6, <2>7, <2>8 DEF BatchStep
<1>. QED
  BY <1>3, <1>4, <1>5

LEMMA ReportInvariance == Spec => []ReportInv
<1>1. Init => ReportInv
  BY DEF Init, ReportInv, AssociatesLast
<1>2. ASSUME NEW u \in Worker, SameWorker(u)
      PROVE  /\ AssociatesLast(u) => AssociatesLast(u)'
             /\ \A o : AccountedBy(u, o) => AccountedBy(u, o)'
  BY <1>2 DEF SameWorker, AssociatesLast, AccountedBy, ReportsPair, Request, Pair, Msg
<1>3. IInv /\ ReportInv /\ [Next]_vars => ReportInv'
  <2>. SUFFICES ASSUME IInv, ReportInv, [Next]_vars PROVE ReportInv'
    OBVIOUS
  <2>1. ASSUME NEW w \in Worker, WorkerStep(w) PROVE ReportInv'
    <3>1. \A u \in Worker : u # w => SameWorker(u)
      BY <2>1, OthersUnchanged
    <3>2. AssociatesLast(w)'
      BY <2>1, AssociatesLastKept DEF ReportInv
    <3>3. \A u \in Worker : AssociatesLast(u)'
      BY <1>2, <3>1, <3>2 DEF ReportInv
    <3>4. ASSUME faults' = 0, NEW o \in owners' PROVE \E u \in Worker : AccountedBy(u, o)'
      <4>1. /\ faults = 0
            /\ AccountedBy(w, o) => AccountedBy(w, o)'
            /\ o \in owners \/ AccountedBy(w, o)'
        BY <2>1, <3>4, StepAccounts DEF ReportInv
      <4>2. o \in owners => \E u \in Worker : AccountedBy(u, o)
        BY <4>1 DEF ReportInv
      <4>. QED
        BY <1>2, <3>1, <4>1, <4>2
    <3>. QED
      BY <3>3, <3>4 DEF ReportInv
  <2>2. CASE UNCHANGED <<faults, owners>> /\ \A u \in Worker : SameWorker(u)
    BY <1>2, <2>2 DEF ReportInv
  <2>3. CASE \E f \in Fsp, s \in Status : ParticipantChanges(f, s)
    <3>1. UNCHANGED <<faults, owners>> /\ \A u \in Worker : SameWorker(u)
      BY <2>3 DEF ParticipantChanges, SameWorker, oracleVars, messageVars
    <3>. QED
      BY <2>2, <3>1
  <2>4. CASE UNCHANGED vars
    <3>1. UNCHANGED <<faults, owners>> /\ \A u \in Worker : SameWorker(u)
      BY <2>4 DEF vars, SameWorker
    <3>. QED
      BY <2>2, <3>1
  <2>. QED
    BY <2>1, <2>3, <2>4 DEF Next, WorkerStep
<1>. QED
  BY <1>1, <1>3, Invariance, PTL DEF Spec

(***************************************************************************)
(* While nothing fails, an association and its Created event are not torn     *)
(* apart: once the workers are idle, every pair in the oracle was reported.   *)
(***************************************************************************)
THEOREM NothingUnreported == Spec => []StoreIsReported
<1>1. ReportInv => StoreIsReported
  BY DEF ReportInv, AccountedBy, ReportsPair, StoreIsReported, Reported
<1>. QED
  BY <1>1, ReportInvariance, PTL

=============================================================================

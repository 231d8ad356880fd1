-------------------------- MODULE ServiceLifecycle --------------------------
(***************************************************************************)
(* One process of the account lookup service, from its start to its end:    *)
(* Service.start connects the parts one after the other, Service.stop,      *)
(* called by every SIGINT and SIGTERM, tears them down, and a timer watches *)
(* each.  Start, stops and the requests of admins interleave at every       *)
(* await; an awaited call may fail, or never settle.                        *)
(***************************************************************************)
EXTENDS Naturals, Sequences, SequencesExt

CONSTANTS Signal,    \* the signals that the process may get
          Oracle,    \* built-in oracles, each with an adapter of its own; the
                     \* adapters of remote oracles hold no connection
          Stored     \* the oracles in the collection when the service starts

(* The logger is there for its Kafka producer. *)
Core == {"logger", "oracleFinder", "authorizationClient", "tokenHelper", "messageProducer",
         "messageConsumer", "expressServer"}

Part == Core \cup Oracle

(* No oracle is stored twice. *)
ASSUME LifecycleAssumption ==
    /\ Oracle \cap Core = {}
    /\ Stored \in Seq(Oracle)
    /\ \A j, k \in DOMAIN Stored : Stored[j] = Stored[k] => j = k

(* The awaits of start, in their order, and its end. *)
StartSteps == <<"logger", "authorizationClient", "tokenHelper", "finderInit",
                "getAllOracles", "adapterInit", "producerConnect", "consumerConnect",
                "rebalance", "listen", "up">>

StopSteps == {"idle", "consumerStop", "finderDestroy", "adapterDestroy",
              "consumerDestroy", "producerDestroy", "tokenHelperDestroy", "return"}

VARIABLES
    boot,       \* the await that start is suspended at
    pending,    \* the oracles that aggregate.init has still to initialise
    conn,       \* of each part: not connected yet, open or closed; of an
                \* adapter, its Mongo client
    redis,      \* the adapters whose Redis client is connected
    consuming,  \* whether the consumer delivers batches
    arrays,     \* the arrays that were _oracleProvidersAdapters, the current one last
    pc,         \* the await that the handler of each signal is suspended at
    loop,       \* its place in the loop over the adapters: the array and the element
    early,      \* history: what was open when the first signal came, of the
                \* parts that stop can get at
    wasUp,      \* history: whether start was over then
    exit        \* how the process ended

vars == <<boot, pending, conn, redis, consuming, arrays, pc, loop, early, wasUp, exit>>

startVars == <<boot, pending, consuming, conn, redis, arrays>>
stopVars == <<pc, loop, early, wasUp>>

TypeOK ==
    /\ boot \in ToSet(StartSteps)
    /\ pending \in Seq(Oracle)
    /\ conn \in [Part -> {"off", "open", "closed"}]
    /\ redis \subseteq Oracle
    /\ consuming \in BOOLEAN
    /\ arrays \in Seq(Seq(Oracle)) \ {<<>>}
    /\ pc \in [Signal -> StopSteps]
    /\ loop \in [Signal -> Nat \X Nat]
    /\ \A s \in Signal : pc[s] = "adapterDestroy" =>
          loop[s][1] \in DOMAIN arrays /\ loop[s][2] \in DOMAIN arrays[loop[s][1]]
    /\ early \subseteq Part
    /\ wasUp \in BOOLEAN
    /\ exit \in {"running", "clean", "failed", "aborted"}

Init ==
    /\ boot = "logger"
    /\ pending = <<>>
    /\ conn = [p \in Part |-> "off"]
    /\ redis = {}
    /\ consuming = FALSE
    /\ arrays = << <<>> >>
    /\ pc = [s \in Signal |-> "idle"]
    /\ loop = [s \in Signal |-> <<0, 0>>]
    /\ early = {}
    /\ wasUp = FALSE
    /\ exit = "running"

Running == exit = "running"

(* Start has got as far as the given await. *)
Reached(step) ==
    \E i, j \in DOMAIN StartSteps : i >= j /\ StartSteps[i] = boot /\ StartSteps[j] = step

Listed == ToSet(Last(arrays))

-----------------------------------------------------------------------------
(* Service.start *)

(* The awaited call, that was to connect p, settles and start goes on. *)
Connected(from, p, to) ==
    /\ Running
    /\ boot = from
    /\ boot' = to
    /\ conn' = [conn EXCEPT ![p] = "open"]
    /\ UNCHANGED <<stopVars, exit>>

(* The producer, the consumer and all that needs no connection are made next,
   without another await than that of the tracing. *)
LoggerInit ==
    /\ Connected("logger", "logger", "authorizationClient")
    /\ UNCHANGED <<pending, redis, consuming, arrays>>

(* bootstrap, fetch and, which connects its own consumer, init. *)
AuthorizationClientInit ==
    /\ Connected("authorizationClient", "authorizationClient", "tokenHelper")
    /\ UNCHANGED <<pending, redis, consuming, arrays>>

(* The aggregate and the event handler are made next. *)
TokenHelperInit ==
    /\ Connected("tokenHelper", "tokenHelper", "finderInit")
    /\ UNCHANGED <<pending, redis, consuming, arrays>>

FinderInit ==
    /\ Connected("finderInit", "oracleFinder", "getAllOracles")
    /\ UNCHANGED <<pending, redis, consuming, arrays>>

AfterAdapters(oracles) == IF oracles = <<>> THEN "producerConnect" ELSE "adapterInit"

GetAllOracles ==
    /\ Running
    /\ boot = "getAllOracles"
    /\ pending' = Stored
    /\ boot' = AfterAdapters(Stored)
    /\ UNCHANGED <<conn, redis, consuming, arrays, stopVars, exit>>

Push(o) == arrays' = [arrays EXCEPT ![Len(arrays)] = Append(@, o)]

(* An adapter connects its Mongo client first and its Redis client second;    *)
(* then it is initialised, and whoever waited pushes it onto the array that   *)
(* is current.                                                               *)
RedisConnects(o) ==
    /\ conn[o] = "open"
    /\ o \notin redis
    /\ redis' = redis \cup {o}
    /\ Push(o)

AdapterMongoConnect ==
    /\ boot = "adapterInit"
    /\ conn[Head(pending)] = "off"
    /\ Connected("adapterInit", Head(pending), "adapterInit")
    /\ UNCHANGED <<pending, redis, consuming, arrays>>

AdapterInit ==
    /\ Running
    /\ boot = "adapterInit"
    /\ RedisConnects(Head(pending))
    /\ pending' = Tail(pending)
    /\ boot' = AfterAdapters(pending')
    /\ UNCHANGED <<conn, consuming, stopVars, exit>>

ProducerConnect ==
    /\ Connected("producerConnect", "messageProducer", "consumerConnect")
    /\ UNCHANGED <<pending, redis, consuming, arrays>>

ConsumerConnect ==
    /\ Connected("consumerConnect", "messageConsumer", "rebalance")
    /\ UNCHANGED <<pending, redis, consuming, arrays>>

StartAndWaitForRebalance ==
    /\ Running
    /\ boot = "rebalance"
    /\ boot' = "listen"
    /\ consuming' = TRUE
    /\ UNCHANGED <<pending, conn, redis, arrays, stopVars, exit>>

(* A server that was closed meanwhile never says that it listens. *)
Listen ==
    /\ conn["expressServer"] = "off"
    /\ Connected("listen", "expressServer", "up")
    /\ UNCHANGED <<pending, redis, consuming, arrays>>

(* The rejection of start is nobody's, and becomes an uncaught exception. *)
StartFails ==
    /\ Running
    /\ boot # "up"
    /\ exit' = "failed"
    /\ UNCHANGED <<startVars, stopVars>>

\* As StartTimesOut, with the timer cleared before the server listens.
ClearedTooSoon ==
    /\ Running
    /\ boot \notin {"listen", "up"}
    /\ exit' = "failed"
    /\ UNCHANGED <<startVars, stopVars>>

(* startupTimer, which is cleared when start is over and only then. *)
StartTimesOut ==
    /\ Running
    /\ boot # "up"
    /\ exit' = "failed"
    /\ UNCHANGED <<startVars, stopVars>>

Start ==
    \/ LoggerInit
    \/ AuthorizationClientInit
    \/ TokenHelperInit
    \/ FinderInit
    \/ GetAllOracles
    \/ AdapterMongoConnect
    \/ AdapterInit
    \/ ProducerConnect
    \/ ConsumerConnect
    \/ StartAndWaitForRebalance
    \/ Listen

-----------------------------------------------------------------------------
(* The last steps of addOracle and removeOracle.  A request that was accepted
   may get there whatever happened to the server. *)

(* An oracle that is added gets a new adapter, which connects as above. *)
AdminMongoConnect(o) ==
    /\ conn[o] = "off"
    /\ Connected("up", o, "up")
    /\ UNCHANGED <<pending, redis, consuming, arrays>>

AdminAdds(o) ==
    /\ Running
    /\ boot = "up"
    /\ RedisConnects(o)
    /\ UNCHANGED <<boot, pending, conn, consuming, stopVars, exit>>

(* A filtered copy, without the one place of the adapter, becomes current.    *)
(* Nobody destroys the adapter that went.                                    *)
AdminRemoves(o) ==
    /\ Running
    /\ boot = "up"
    /\ \E k \in DOMAIN Last(arrays) :
          Last(arrays)[k] = o /\ arrays' = Append(arrays, RemoveAt(Last(arrays), k))
    /\ UNCHANGED <<boot, pending, conn, redis, consuming, stopVars, exit>>

-----------------------------------------------------------------------------
(* Service.stop, run by the handler of each signal *)

(* The tests whether a part exists are made when their turn comes. *)
AfterEventHandler == IF Reached("authorizationClient") THEN "consumerDestroy" ELSE "return"

\* As FirstStop, with the event handler kept only once it has started.
StopWhenStarted == IF Reached("listen") THEN "consumerStop" ELSE AfterEventHandler

FirstStop == IF Reached("finderInit") THEN "consumerStop" ELSE AfterEventHandler

AfterProducer == IF Reached("tokenHelper") THEN "tokenHelperDestroy" ELSE "return"

_handle_int_and_term_signals(s) ==
    /\ Running
    /\ pc[s] = "idle"
    /\ pc' = [pc EXCEPT ![s] = FirstStop]
    /\ IF \A t \in Signal : pc[t] = "idle"
         THEN /\ early' = {p \in Core \cup Listed : conn[p] = "open"}
              /\ wasUp' = (boot = "up")
         ELSE UNCHANGED <<early, wasUp>>
    /\ UNCHANGED <<startVars, loop, exit>>

(* The part that a handler awaits the end of, if any. *)
Closing(s) ==
    {p \in Part :
        \/ pc[s] = "finderDestroy" /\ p = "oracleFinder"
        \/ pc[s] = "adapterDestroy" /\ p = arrays[loop[s][1]][loop[s][2]]
        \/ pc[s] = "consumerDestroy" /\ p = "messageConsumer"
        \/ pc[s] = "producerDestroy" /\ p = "messageProducer"
        \/ pc[s] = "tokenHelperDestroy" /\ p = "tokenHelper"}

(* A part is closed when its destroy settles, of an adapter the Mongo client
   only; one that another handler is closing already may answer before it is. *)
Destroyed(s) ==
    \/ conn' = [p \in Part |-> IF p \in Closing(s) THEN "closed" ELSE conn[p]]
    \/ /\ \E t \in Signal \ {s} : Closing(t) = Closing(s)
       /\ UNCHANGED conn

StopStep(s, from, to) ==
    /\ Running
    /\ pc[s] = from
    /\ pc' = [pc EXCEPT ![s] = to]
    /\ UNCHANGED <<boot, pending, redis, arrays, early, wasUp, exit>>

\* As ConsumerStop, with the consumer left running until it is destroyed.
KeepConsuming(s) ==
    /\ StopStep(s, "consumerStop", "finderDestroy")
    /\ UNCHANGED <<consuming, conn, loop>>

ConsumerStop(s) ==
    /\ StopStep(s, "consumerStop", "finderDestroy")
    /\ consuming' = FALSE
    /\ UNCHANGED <<conn, loop>>

\* As Visit, one element too far.
VisitPastEnd(s, a, n) ==
    /\ loop' = [loop EXCEPT ![s] = <<a, n>>]
    /\ StopStep(s, pc[s], IF n <= Len(arrays[a]) + 1 THEN "adapterDestroy" ELSE AfterEventHandler)

(* The loop over the adapters takes the array that is current when it begins,
   and sees what is pushed onto that one while it runs. *)
Visit(s, a, n) ==
    /\ loop' = [loop EXCEPT ![s] = <<a, n>>]
    /\ StopStep(s, pc[s], IF n <= Len(arrays[a]) THEN "adapterDestroy" ELSE AfterEventHandler)

FinderDestroy(s) ==
    /\ pc[s] = "finderDestroy"
    /\ Destroyed(s)
    /\ Visit(s, Len(arrays), 1)
    /\ UNCHANGED consuming

AdapterDestroy(s) ==
    /\ pc[s] = "adapterDestroy"
    /\ Destroyed(s)
    /\ Visit(s, loop[s][1], loop[s][2] + 1)
    /\ UNCHANGED consuming

(* A destroyed consumer delivers nothing, even if it was not stopped before. *)
ConsumerDestroy(s) ==
    /\ StopStep(s, "consumerDestroy", "producerDestroy")
    /\ Destroyed(s)
    /\ consuming' = (consuming /\ conn'["messageConsumer"] # "closed")
    /\ UNCHANGED loop

(* expressServer.close is not awaited. *)
CloseServer(c) == [c EXCEPT !["expressServer"] = IF Reached("listen") THEN "closed" ELSE @]

ProducerDestroy(s) ==
    /\ StopStep(s, "producerDestroy", AfterProducer)
    /\ Destroyed(s)
    /\ UNCHANGED <<loop, consuming>>

TokenHelperDestroy(s) ==
    /\ StopStep(s, "tokenHelperDestroy", "return")
    /\ Destroyed(s)
    /\ UNCHANGED <<loop, consuming>>

(* The server is closed and stop returns: the process ends. *)
ProcessExit(s) ==
    /\ Running
    /\ pc[s] = "return"
    /\ conn' = CloseServer(conn)
    /\ exit' = "clean"
    /\ UNCHANGED <<boot, pending, redis, consuming, arrays, stopVars>>

(* stop rejects, which becomes an uncaught exception. *)
StopFails(s) ==
    /\ Running
    /\ pc[s] \notin {"idle", "return"}
    /\ exit' = "failed"
    /\ UNCHANGED <<startVars, stopVars>>

\* As ProcessAbort, with the timer set only after stop has returned.
AbortArmedLate(s) ==
    /\ Running
    /\ pc[s] = "return"
    /\ exit' = "aborted"
    /\ UNCHANGED <<startVars, stopVars>>

(* The timer of the handler: stop has not returned in time. *)
ProcessAbort(s) ==
    /\ Running
    /\ pc[s] # "idle"
    /\ exit' = "aborted"
    /\ UNCHANGED <<startVars, stopVars>>

Stop(s) ==
    \/ ConsumerStop(s)
    \/ FinderDestroy(s)
    \/ AdapterDestroy(s)
    \/ ConsumerDestroy(s)
    \/ ProducerDestroy(s)
    \/ TokenHelperDestroy(s)
    \/ ProcessExit(s)

Next ==
    \/ Start \/ StartFails \/ StartTimesOut
    \/ \E o \in Oracle : AdminMongoConnect(o) \/ AdminAdds(o) \/ AdminRemoves(o)
    \/ \E s \in Signal :
          _handle_int_and_term_signals(s) \/ Stop(s) \/ StopFails(s) \/ ProcessAbort(s)

Spec == Init /\ [][Next]_vars

(* Timers go off; of the awaited calls nothing is assumed. *)
FairSpec == Spec /\ WF_vars(StartTimesOut) /\ \A s \in Signal : WF_vars(ProcessAbort(s))

-----------------------------------------------------------------------------
Closed(p) == conn[p] = "closed" \/ \E s \in Signal : p \in Closing(s)

(* What stop has no line for. *)
NobodyDestroys == {"logger", "authorizationClient"}

(***************************************************************************)
(* A clean exit has torn down, or another handler is tearing down, each part *)
(* that stop can get at and that was open when the first signal came, even   *)
(* if start was half way or another handler was faster: of the finder, the   *)
(* token helper, producer, consumer and server whatever they hold, of an     *)
(* adapter its Mongo client.                                                 *)
(* It does not say more, for the code does less: nobody ever disconnects the *)
(* logger's producer, the authorization client and the Redis client of any   *)
(* adapter; adapters that were not listed yet when the signal came, or are   *)
(* not any more at the exit, may stay open; so may all that start connects   *)
(* after the signal.                                                         *)
(***************************************************************************)
CleanExitReleases ==
    exit = "clean" =>
        \A p \in early \ NobodyDestroys : p \in Core \cup Listed => Closed(p)

(***************************************************************************)
(* Stopping a service that is up pulls nothing away from under a running     *)
(* consumer: as long as batches are delivered, all that handling and         *)
(* answering them takes is connected, the adapters with both their clients.  *)
(***************************************************************************)
NothingPulledAway ==
    wasUp /\ consuming =>
        /\ \A p \in early \cap ({"oracleFinder", "messageProducer"} \cup Oracle) : conn[p] = "open"
        /\ early \cap Oracle \subseteq redis

(***************************************************************************)
(* The start of the service comes to an end: it is up, or the process is     *)
(* over, though any connection may hang.                                     *)
(***************************************************************************)
StartEnds == <>(boot = "up" \/ ~ Running)

(***************************************************************************)
(* A signal ends the process, though any teardown may hang.                  *)
(***************************************************************************)
SignalEndsProcess == \A s \in Signal : pc[s] # "idle" ~> ~ Running

=============================================================================

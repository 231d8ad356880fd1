------------------------ MODULE ServiceLifecycleProofs ------------------------
(***************************************************************************)
(* For every set of signals and oracles: the process of ServiceLifecycle     *)
(* keeps its types, a clean exit has torn down the parts that stop can get   *)
(* at and that the first signal found open, and while batches are delivered  *)
(* nothing is pulled away from under them.                                   *)
(***************************************************************************)
EXTENDS ServiceLifecycle, SequenceLemmas

(* Start waits for an adapter while there is one to initialise, and none of  *)
(* those connects before its turn.                                           *)
PendingInv ==
    /\ boot = "adapterInit" <=> pending # <<>>
    /\ \A k \in DOMAIN pending :
          pending[k] \notin redis /\ (k # 1 => conn[pending[k]] = "off")
    /\ \A j, k \in DOMAIN pending : pending[j] = pending[k] => j = k

(* Adapters connect Mongo before Redis, and are listed once they did both. *)
ListedInv ==
    /\ \A o \in redis : conn[o] # "off"
    /\ \A a \in DOMAIN arrays : \A k \in DOMAIN arrays[a] : arrays[a][k] \in redis

(* Start connects the parts in this order: those that are open have had      *)
(* their turn.                                                               *)
HadTheirTurn(parts) ==
    /\ "logger" \in parts => Reached("authorizationClient")
    /\ "authorizationClient" \in parts => Reached("tokenHelper")
    /\ "tokenHelper" \in parts => Reached("finderInit")
    /\ "oracleFinder" \in parts => Reached("getAllOracles")
    /\ parts \cap Oracle # {} => Reached("adapterInit")
    /\ "messageProducer" \in parts => Reached("consumerConnect")
    /\ "messageConsumer" \in parts => Reached("rebalance")
    /\ "expressServer" \in parts => Reached("up")

OpenInv ==
    /\ HadTheirTurn({p \in Core : conn[p] = "open"})
    /\ \A o \in Oracle : conn[o] # "off" => Reached("adapterInit")

(* So have those that the first signal found open. *)
EarlyInv ==
    /\ HadTheirTurn(early)
    /\ \A p \in early : conn[p] # "off"
    /\ early \cap Oracle \subseteq redis
    /\ wasUp => boot = "up"

StartInv == TypeOK /\ PendingInv /\ ListedInv /\ OpenInv /\ EarlyInv

-----------------------------------------------------------------------------
(* The order of start. *)

(* The place of a step in the order of start. *)
LEMMA Steps ==
    /\ DOMAIN StartSteps = 1..11
    /\ ToSet(StartSteps) = {"logger", "authorizationClient", "tokenHelper", "finderInit",
                            "getAllOracles", "adapterInit", "producerConnect",
                            "consumerConnect", "rebalance", "listen", "up"}
BY DEF StartSteps, ToSet

(* How far start has got, step by step. *)
LEMMA ReachedSteps ==
    ASSUME boot \in ToSet(StartSteps)
    PROVE  /\ Reached("authorizationClient") <=> boot # "logger"
           /\ Reached("tokenHelper") <=> boot \notin {"logger", "authorizationClient"}
           /\ Reached("finderInit") <=>
                  boot \notin {"logger", "authorizationClient", "tokenHelper"}
           /\ Reached("getAllOracles") <=>
                  boot \notin {"logger", "authorizationClient", "tokenHelper", "finderInit"}
           /\ Reached("adapterInit") <=>
                  boot \in {"adapterInit", "producerConnect", "consumerConnect", "rebalance",
                            "listen", "up"}
           /\ Reached("consumerConnect") <=>
                  boot \in {"consumerConnect", "rebalance", "listen", "up"}
           /\ Reached("rebalance") <=> boot \in {"rebalance", "listen", "up"}
           /\ Reached("listen") <=> boot \in {"listen", "up"}
           /\ Reached("up") <=> boot = "up"
BY DEF StartSteps, Reached, ToSet

(* The same after a step. *)
LEMMA ReachedNext ==
    ASSUME boot' \in ToSet(StartSteps)
    PROVE  /\ Reached("authorizationClient")' <=> boot' # "logger"
           /\ Reached("tokenHelper")' <=> boot' \notin {"logger", "authorizationClient"}
           /\ Reached("finderInit")' <=>
                  boot' \notin {"logger", "authorizationClient", "tokenHelper"}
           /\ Reached("getAllOracles")' <=>
                  boot' \notin {"logger", "authorizationClient", "tokenHelper", "finderInit"}
           /\ Reached("adapterInit")' <=>
                  boot' \in {"adapterInit", "producerConnect", "consumerConnect", "rebalance",
                             "listen", "up"}
           /\ Reached("consumerConnect")' <=>
                  boot' \in {"consumerConnect", "rebalance", "listen", "up"}
           /\ Reached("rebalance")' <=> boot' \in {"rebalance", "listen", "up"}
           /\ Reached("listen")' <=> boot' \in {"listen", "up"}
           /\ Reached("up")' <=> boot' = "up"
BY DEF StartSteps, Reached, ToSet

-----------------------------------------------------------------------------
(* The arrays of adapters. *)

(* Whatever is pushed or filtered, places of the loops keep what they have. *)
ArraysGrow ==
    /\ DOMAIN arrays \subseteq DOMAIN arrays'
    /\ \A a \in DOMAIN arrays :
          /\ DOMAIN arrays[a] \subseteq DOMAIN arrays'[a]
          /\ \A k \in DOMAIN arrays[a] : arrays'[a][k] = arrays[a][k]

LEMMA ListedIsLast ==
    ASSUME TypeOK
    PROVE  /\ Len(arrays) \in DOMAIN arrays /\ Len(arrays) \in Nat
           /\ Last(arrays) = arrays[Len(arrays)] /\ Last(arrays) \in Seq(Oracle)
           /\ Listed = ToSet(arrays[Len(arrays)])
BY DEF TypeOK, Listed, Last

LEMMA PushProperties ==
    ASSUME TypeOK, NEW o \in Oracle, Push(o)
    PROVE  /\ arrays' \in Seq(Seq(Oracle)) \ {<<>>}
           /\ ArraysGrow
           /\ DOMAIN arrays' = DOMAIN arrays
           /\ \A a \in DOMAIN arrays' : \A k \in DOMAIN arrays'[a] :
                 \/ arrays'[a][k] = o
                 \/ k \in DOMAIN arrays[a] /\ arrays'[a][k] = arrays[a][k]
           /\ Listed' = Listed \cup {o}
<1>. DEFINE n == Len(arrays)
            last == arrays[n]
            longer == Append(last, o)
<1>1. /\ arrays \in Seq(Seq(Oracle)) /\ n \in DOMAIN arrays /\ n \in Nat /\ last \in Seq(Oracle)
      /\ Listed = ToSet(last)
  BY ListedIsLast DEF TypeOK
<1>2. arrays' = [arrays EXCEPT ![n] = longer]
  BY DEF Push
<1>3. /\ longer \in Seq(Oracle) /\ Len(longer) = Len(last) + 1
      /\ \A k \in 1..Len(last) : longer[k] = last[k]
      /\ longer[Len(last) + 1] = o
  BY <1>1, AppendProperties
<1>4. ToSet(longer) = ToSet(last) \cup {o}
  BY <1>1, ElementsAfterAppend
<1>. HIDE DEF longer, n
<1>5. /\ arrays' \in Seq(Seq(Oracle)) /\ DOMAIN arrays' = DOMAIN arrays /\ Len(arrays') = n
      /\ arrays'[n] = longer /\ \A a \in DOMAIN arrays : a # n => arrays'[a] = arrays[a]
  BY <1>1, <1>2, <1>3 DEF n
<1>. HIDE DEF last
<1>6. /\ DOMAIN last = 1..Len(last) /\ DOMAIN longer = 1..Len(last) + 1 /\ Len(last) \in Nat
  BY <1>1, <1>3
<1>7. ArraysGrow
  <2>. SUFFICES ASSUME NEW a \in DOMAIN arrays
                PROVE  /\ DOMAIN arrays[a] \subseteq DOMAIN arrays'[a]
                       /\ \A k \in DOMAIN arrays[a] : arrays'[a][k] = arrays[a][k]
    BY <1>5 DEF ArraysGrow
  <2>1. CASE a = n
    BY <1>3, <1>5, <1>6, <2>1 DEF last
  <2>2. CASE a # n
    BY <1>5, <2>2
  <2>. QED
    BY <2>1, <2>2
<1>8. ASSUME NEW a \in DOMAIN arrays', NEW k \in DOMAIN arrays'[a]
      PROVE  \/ arrays'[a][k] = o
             \/ k \in DOMAIN arrays[a] /\ arrays'[a][k] = arrays[a][k]
  <2>1. CASE a = n
    BY <1>3, <1>5, <1>6, <2>1 DEF last
  <2>2. CASE a # n
    BY <1>5, <2>2
  <2>. QED
    BY <2>1, <2>2
<1>9. Listed' = ToSet(longer)
  BY <1>5 DEF Listed, Last
<1>. QED
  BY <1>1, <1>4, <1>5, <1>7, <1>8, <1>9

LEMMA FilterProperties ==
    ASSUME TypeOK, NEW k \in DOMAIN Last(arrays),
           arrays' = Append(arrays, RemoveAt(Last(arrays), k))
    PROVE  /\ arrays' \in Seq(Seq(Oracle)) \ {<<>>}
           /\ ArraysGrow
           /\ \A a \in DOMAIN arrays' : \A j \in DOMAIN arrays'[a] :
                 \E b \in DOMAIN arrays : arrays'[a][j] \in ToSet(arrays[b])
           /\ Listed' \subseteq Listed
<1>. DEFINE n == Len(arrays)
            shorter == RemoveAt(Last(arrays), k)
<1>1. /\ arrays \in Seq(Seq(Oracle)) /\ n \in DOMAIN arrays /\ n \in Nat
      /\ Last(arrays) = arrays[n] /\ Last(arrays) \in Seq(Oracle) /\ Listed = ToSet(arrays[n])
  BY ListedIsLast DEF TypeOK
<1>2. shorter \in Seq(Oracle) /\ ToSet(shorter) \subseteq Listed
  BY <1>1, RemoveAtProperties, ElementsAfterRemoveAt
<1>3. arrays' = Append(arrays, shorter)
  OBVIOUS
<1>. HIDE DEF shorter
<1>4. /\ arrays' \in Seq(Seq(Oracle)) /\ arrays' # <<>> /\ Len(arrays') = n + 1
      /\ \A a \in 1..n : arrays'[a] = arrays[a]
      /\ arrays'[n + 1] = shorter
  BY <1>1, <1>2, <1>3, AppendProperties
<1>5. DOMAIN arrays = 1..n /\ DOMAIN arrays' = 1..n + 1
  BY <1>1, <1>4
<1>. HIDE DEF n
<1>6. ArraysGrow
  BY <1>1, <1>4, <1>5 DEF ArraysGrow
<1>7. Listed' = ToSet(shorter)
  BY <1>1, <1>4 DEF Listed, Last
<1>8. ASSUME NEW a \in DOMAIN arrays', NEW j \in DOMAIN arrays'[a]
      PROVE  \E b \in DOMAIN arrays : arrays'[a][j] \in ToSet(arrays[b])
  <2>1. CASE a \in 1..n
    BY <1>4, <1>5, <2>1 DEF ToSet
  <2>2. CASE a = n + 1
    BY <1>1, <1>2, <1>4, <2>2 DEF ToSet
  <2>. QED
    BY <1>1, <1>5, <2>1, <2>2
<1>. QED
  BY <1>2, <1>4, <1>6, <1>7, <1>8

-----------------------------------------------------------------------------
(* What is open has had its turn. *)

(* Start goes on to the next await, or stays where it is. *)
Onward ==
    \/ boot' = boot
    \/ boot = "logger" /\ boot' = "authorizationClient"
    \/ boot = "authorizationClient" /\ boot' = "tokenHelper"
    \/ boot = "tokenHelper" /\ boot' = "finderInit"
    \/ boot = "finderInit" /\ boot' = "getAllOracles"
    \/ boot \in {"getAllOracles", "adapterInit"} /\ boot' \in {"adapterInit", "producerConnect"}
    \/ boot = "producerConnect" /\ boot' = "consumerConnect"
    \/ boot = "consumerConnect" /\ boot' = "rebalance"
    \/ boot = "rebalance" /\ boot' = "listen"
    \/ boot = "listen" /\ boot' = "up"

(* The turns that HadTheirTurn asks for. *)
Turns == {"authorizationClient", "tokenHelper", "finderInit", "getAllOracles", "adapterInit",
          "consumerConnect", "rebalance", "up"}

LEMMA TurnsLast ==
    ASSUME boot \in ToSet(StartSteps), Onward
    PROVE  /\ boot' \in ToSet(StartSteps)
           /\ \A step \in Turns : Reached(step) => Reached(step)'
           /\ \A parts \in SUBSET Part : HadTheirTurn(parts) => HadTheirTurn(parts)'
           /\ boot = "up" => boot' = "up"
<1>1. boot' \in ToSet(StartSteps)
  BY Steps DEF Onward
<1>2. /\ Reached("authorizationClient") => Reached("authorizationClient")'
      /\ Reached("tokenHelper") => Reached("tokenHelper")'
      /\ Reached("finderInit") => Reached("finderInit")'
      /\ Reached("getAllOracles") => Reached("getAllOracles")'
      /\ Reached("adapterInit") => Reached("adapterInit")'
      /\ Reached("consumerConnect") => Reached("consumerConnect")'
      /\ Reached("rebalance") => Reached("rebalance")'
      /\ Reached("up") => Reached("up")'
      /\ boot = "up" => boot' = "up"
  BY <1>1, ReachedSteps, ReachedNext, Steps DEF Onward
<1>3. \A step \in Turns : Reached(step) => Reached(step)'
  BY <1>2 DEF Turns
<1>. QED
  BY <1>1, <1>2, <1>3 DEF HadTheirTurn

(* A part of the service itself connects, in its turn. *)
LEMMA CoreOpens ==
    ASSUME StartInv, NEW p \in Core, conn' = [conn EXCEPT ![p] = "open"],
           Onward, boot # "adapterInit", boot' # "adapterInit", HadTheirTurn({p})',
           UNCHANGED <<pending, redis, consuming, arrays, pc, loop, early, wasUp, exit>>
    PROVE  StartInv'
<1>1. /\ TypeOK /\ PendingInv /\ ListedInv /\ OpenInv /\ EarlyInv
      /\ boot \in ToSet(StartSteps) /\ conn \in [Part -> {"off", "open", "closed"}]
      /\ pending \in Seq(Oracle) /\ arrays \in Seq(Seq(Oracle)) /\ early \subseteq Part
      /\ p \in Part /\ p \notin Oracle
  BY LifecycleAssumption DEF StartInv, TypeOK, Part
<1>2. /\ boot' \in ToSet(StartSteps)
      /\ \A parts \in SUBSET Part : HadTheirTurn(parts) => HadTheirTurn(parts)'
      /\ \A step \in Turns : Reached(step) => Reached(step)'
      /\ boot = "up" => boot' = "up"
  BY <1>1, TurnsLast
<1>3. /\ conn' \in [Part -> {"off", "open", "closed"}]
      /\ conn'[p] = "open" /\ \A q \in Part : q # p => conn'[q] = conn[q]
      /\ \A o \in Oracle : o \in Part /\ conn'[o] = conn[o]
      /\ \A q \in Part : conn[q] # "off" => conn'[q] # "off"
  BY <1>1 DEF Part
<1>4. TypeOK'
  BY <1>1, <1>2, <1>3 DEF TypeOK
<1>5. \A k \in DOMAIN pending : pending[k] \in Oracle
  BY <1>1
<1>6. PendingInv'
  BY <1>1, <1>3, <1>5 DEF PendingInv
<1>7. redis \subseteq Part
  BY <1>1 DEF TypeOK, Part
<1>8. ListedInv'
  BY <1>1, <1>3, <1>7 DEF ListedInv
<1>9. OpenInv'
  <2>. DEFINE now == {q \in Core : conn[q] = "open"}
  <2>1. HadTheirTurn(now) /\ now \cap Oracle = {} /\ now' \cap Oracle = {}
    BY <1>1, LifecycleAssumption DEF OpenInv
  <2>2. \A q \in Core : q \in now' => q \in now \/ q = p
    BY <1>3 DEF Part
  <2>. HIDE DEF now
  <2>3. HadTheirTurn(now)'
    BY <1>2, <2>1, <2>2 DEF HadTheirTurn, Turns, Core
  <2>4. \A o \in Oracle : conn'[o] # "off" => Reached("adapterInit")'
    BY <1>1, <1>2, <1>3 DEF OpenInv, Turns
  <2>. QED
    BY <2>3, <2>4 DEF OpenInv, now
<1>10. EarlyInv'
  BY <1>1, <1>2, <1>3 DEF EarlyInv
<1>. QED
  BY <1>4, <1>6, <1>8, <1>9, <1>10 DEF StartInv

(* An adapter connects its Mongo client. *)
LEMMA AdapterOpens ==
    ASSUME StartInv, NEW o \in Oracle, conn[o] = "off", conn' = [conn EXCEPT ![o] = "open"],
           pending = <<>> \/ o = pending[1], Reached("adapterInit"),
           UNCHANGED <<boot, pending, redis, arrays, consuming, pc, loop, early, wasUp, exit>>
    PROVE  StartInv'
<1>1. /\ TypeOK /\ PendingInv /\ ListedInv /\ OpenInv /\ EarlyInv
      /\ conn \in [Part -> {"off", "open", "closed"}]
      /\ pending \in Seq(Oracle) /\ arrays \in Seq(Seq(Oracle)) /\ early \subseteq Part
      /\ o \in Part /\ o \notin Core
  BY LifecycleAssumption DEF StartInv, TypeOK, Part
<1>2. /\ conn' \in [Part -> {"off", "open", "closed"}]
      /\ conn'[o] = "open" /\ \A p \in Part : p # o => conn'[p] = conn[p]
      /\ \A p \in Core : p \in Part /\ conn'[p] = conn[p]
      /\ \A p \in Part : conn[p] # "off" => conn'[p] # "off"
  BY <1>1 DEF Part
<1>3. \A step : Reached(step)' = Reached(step)
  BY DEF Reached
<1>4. TypeOK'
  BY <1>1, <1>2 DEF TypeOK
<1>5. \A k \in DOMAIN pending :
          pending[k] \in Part /\ (k # 1 => 1 \in DOMAIN pending /\ pending[k] # o)
  BY <1>1 DEF PendingInv, Part
<1>6. PendingInv'
  BY <1>1, <1>2, <1>5 DEF PendingInv
<1>7. redis \subseteq Part
  BY <1>1 DEF TypeOK, Part
<1>8. ListedInv'
  BY <1>1, <1>2, <1>7 DEF ListedInv
<1>9. OpenInv'
  <2>. DEFINE now == {q \in Core : conn[q] = "open"}
  <2>1. HadTheirTurn(now) /\ now' = now
    BY <1>1, <1>2 DEF OpenInv
  <2>2. \A p \in Oracle : conn'[p] # "off" => Reached("adapterInit")'
    BY <1>3
  <2>. HIDE DEF now
  <2>3. HadTheirTurn(now)'
    BY <1>3, <2>1 DEF HadTheirTurn
  <2>. QED
    BY <2>2, <2>3 DEF OpenInv, now
<1>10. EarlyInv'
  BY <1>1, <1>2, <1>3 DEF EarlyInv, HadTheirTurn
<1>. QED
  BY <1>4, <1>6, <1>8, <1>9, <1>10 DEF StartInv

(* An adapter connects its Redis client: it is initialised, and pushed onto   *)
(* the array.                                                                *)
LEMMA AdapterInitialised ==
    ASSUME StartInv, NEW o \in Oracle, RedisConnects(o),
           Onward, PendingInv', pending' \in Seq(Oracle),
           UNCHANGED <<conn, consuming, pc, loop, early, wasUp, exit>>
    PROVE  StartInv'
<1>1. /\ TypeOK /\ PendingInv /\ ListedInv /\ OpenInv /\ EarlyInv
      /\ boot \in ToSet(StartSteps) /\ redis \subseteq Oracle
      /\ arrays \in Seq(Seq(Oracle)) /\ early \subseteq Part
      /\ conn[o] = "open" /\ redis' = redis \cup {o} /\ Push(o)
  BY DEF StartInv, TypeOK, RedisConnects
<1>2. /\ boot' \in ToSet(StartSteps)
      /\ \A step \in Turns : Reached(step) => Reached(step)'
      /\ \A parts \in SUBSET Part : HadTheirTurn(parts) => HadTheirTurn(parts)'
      /\ boot = "up" => boot' = "up"
  BY <1>1, TurnsLast
<1>3. /\ arrays' \in Seq(Seq(Oracle)) \ {<<>>}
      /\ ArraysGrow
      /\ DOMAIN arrays' = DOMAIN arrays
      /\ \A a \in DOMAIN arrays' : \A k \in DOMAIN arrays'[a] :
            \/ arrays'[a][k] = o
            \/ k \in DOMAIN arrays[a] /\ arrays'[a][k] = arrays[a][k]
  BY <1>1, PushProperties
<1>4. \A s \in Signal : pc[s] = "adapterDestroy" =>
          loop[s][1] \in DOMAIN arrays' /\ loop[s][2] \in DOMAIN arrays'[loop[s][1]]
  BY <1>1, <1>3 DEF TypeOK, ArraysGrow
<1>5. TypeOK'
  BY <1>1, <1>2, <1>3, <1>4 DEF TypeOK
<1>6. ListedInv'
  <2>. SUFFICES ASSUME NEW a \in DOMAIN arrays', NEW k \in DOMAIN arrays'[a]
                PROVE  arrays'[a][k] \in redis'
    BY <1>1 DEF ListedInv
  <2>1. CASE arrays'[a][k] = o
    BY <1>1, <2>1
  <2>2. CASE k \in DOMAIN arrays[a] /\ arrays'[a][k] = arrays[a][k]
    BY <1>1, <1>3, <2>2 DEF ListedInv
  <2>. QED
    BY <1>3, <2>1, <2>2
<1>7. OpenInv'
  <2>. DEFINE now == {q \in Core : conn[q] = "open"}
  <2>1. HadTheirTurn(now) /\ now \in SUBSET Part /\ now' = now
    BY <1>1 DEF OpenInv, Part
  <2>2. \A p \in Oracle : conn'[p] # "off" => Reached("adapterInit")'
    BY <1>1, <1>2 DEF OpenInv, Turns
  <2>. HIDE DEF now
  <2>3. HadTheirTurn(now)'
    BY <1>2, <2>1 DEF HadTheirTurn, Turns
  <2>. QED
    BY <2>2, <2>3 DEF OpenInv, now
<1>8. EarlyInv'
  BY <1>1, <1>2 DEF EarlyInv
<1>. QED
  BY <1>5, <1>6, <1>7, <1>8 DEF StartInv

(* Nothing is opened, and an oracle is closed only if it was not off. *)
OnlyCloses ==
    /\ conn' \in [Part -> {"off", "open", "closed"}]
    /\ \A p \in Part :
          \/ conn'[p] = conn[p]
          \/ conn'[p] = "closed" /\ (p \in Core \/ conn[p] # "off")

LEMMA NothingOpens ==
    ASSUME StartInv, OnlyCloses, TypeOK', UNCHANGED <<boot, pending, redis, arrays>>,
           UNCHANGED <<early, wasUp>> \/ EarlyInv'
    PROVE  StartInv'
<1>1. /\ TypeOK /\ PendingInv /\ ListedInv /\ OpenInv /\ EarlyInv
      /\ boot \in ToSet(StartSteps) /\ conn \in [Part -> {"off", "open", "closed"}]
      /\ pending \in Seq(Oracle) /\ arrays \in Seq(Seq(Oracle)) /\ early \subseteq Part
      /\ \A o \in Oracle : o \in Part /\ o \notin Core
  BY LifecycleAssumption DEF StartInv, TypeOK, Part
<1>2. /\ \A p \in Part : conn[p] # "off" => conn'[p] # "off"
      /\ \A o \in Oracle : conn[o] = "off" => conn'[o] = "off"
      /\ \A o \in Oracle : conn'[o] # "off" => conn[o] # "off"
      /\ \A p \in Core : p \in Part /\ (conn'[p] = "open" => conn[p] = "open")
  BY <1>1 DEF OnlyCloses, Part
<1>3. \A step : Reached(step)' = Reached(step)
  BY DEF Reached
<1>4. \A k \in DOMAIN pending : pending[k] \in Oracle
  BY <1>1
<1>5. PendingInv'
  BY <1>1, <1>2, <1>4 DEF PendingInv
<1>6. redis \subseteq Part
  BY <1>1 DEF TypeOK
<1>7. ListedInv'
  BY <1>1, <1>2, <1>6 DEF ListedInv
<1>8. OpenInv'
  <2>. DEFINE now == {q \in Core : conn[q] = "open"}
  <2>1. HadTheirTurn(now) /\ now \cap Oracle = {} /\ now' \cap Oracle = {} /\ now' \subseteq now
    BY <1>1, <1>2 DEF OpenInv
  <2>2. \A o \in Oracle : conn'[o] # "off" => Reached("adapterInit")'
    BY <1>1, <1>2, <1>3 DEF OpenInv
  <2>. HIDE DEF now
  <2>3. HadTheirTurn(now)'
    BY <1>3, <2>1 DEF HadTheirTurn
  <2>. QED
    BY <2>2, <2>3 DEF OpenInv, now
<1>9. EarlyInv'
  <2>1. CASE UNCHANGED <<early, wasUp>>
    BY <1>1, <1>2, <1>3, <2>1 DEF EarlyInv, HadTheirTurn
  <2>. QED
    BY <2>1
<1>. QED
  BY <1>5, <1>7, <1>8, <1>9 DEF StartInv

(* The parts that handlers close. *)
LEMMA ClosingProperties ==
    ASSUME StartInv, NEW s \in Signal
    PROVE  /\ Closing(s) \subseteq Part
           /\ \A o \in Oracle \cap Closing(s) : conn[o] # "off"
           /\ pc[s] = "finderDestroy" => Closing(s) = {"oracleFinder"}
           /\ pc[s] = "adapterDestroy" =>
                 /\ arrays[loop[s][1]][loop[s][2]] \in Oracle
                 /\ Closing(s) = {arrays[loop[s][1]][loop[s][2]]}
           /\ pc[s] = "consumerDestroy" => Closing(s) = {"messageConsumer"}
           /\ pc[s] = "producerDestroy" => Closing(s) = {"messageProducer"}
           /\ pc[s] = "tokenHelperDestroy" => Closing(s) = {"tokenHelper"}
           /\ pc[s] \in {"idle", "consumerStop", "return"} => Closing(s) = {}
<1>. DEFINE o == arrays[loop[s][1]][loop[s][2]]
<1>1. pc[s] = "adapterDestroy" => o \in Oracle /\ conn[o] # "off"
  BY DEF StartInv, TypeOK, ListedInv
<1>. HIDE DEF o
<1>2. /\ {"oracleFinder", "messageConsumer", "messageProducer", "tokenHelper"} \subseteq Part
      /\ {"oracleFinder", "messageConsumer", "messageProducer", "tokenHelper"} \cap Oracle = {}
      /\ Oracle \subseteq Part
  BY LifecycleAssumption DEF Part, Core
<1>3. Closing(s) =
          {p \in Part :
              \/ pc[s] = "finderDestroy" /\ p = "oracleFinder"
              \/ pc[s] = "adapterDestroy" /\ p = o
              \/ pc[s] = "consumerDestroy" /\ p = "messageConsumer"
              \/ pc[s] = "producerDestroy" /\ p = "messageProducer"
              \/ pc[s] = "tokenHelperDestroy" /\ p = "tokenHelper"}
  BY DEF Closing, o
<1>. QED
  BY <1>1, <1>2, <1>3 DEF o

LEMMA DestroyedOnlyCloses ==
    ASSUME StartInv, NEW s \in Signal, Destroyed(s)
    PROVE  OnlyCloses
<1>1. /\ conn \in [Part -> {"off", "open", "closed"}]
      /\ \A p \in Part : p \in Core \/ p \in Oracle
      /\ \A o \in Oracle \cap Closing(s) : conn[o] # "off"
  BY ClosingProperties DEF StartInv, TypeOK, Part
<1>. QED
  BY <1>1 DEF Destroyed, OnlyCloses

(* Where the tests of stop lead. *)
LEMMA ShortCuts ==
    /\ FirstStop \in {"consumerStop", "consumerDestroy", "return"}
    /\ AfterEventHandler \in {"consumerDestroy", "return"}
    /\ AfterProducer \in {"tokenHelperDestroy", "return"}
BY DEF FirstStop, AfterEventHandler, AfterProducer

LEMMA StartInitially == Init => StartInv
<1>. SUFFICES ASSUME Init PROVE StartInv
  OBVIOUS
<1>1. arrays \in Seq(Seq(Oracle)) \ {<<>>} /\ DOMAIN arrays = {1} /\ arrays[1] = <<>>
  BY DEF Init
<1>2. pending = <<>> /\ pending \in Seq(Oracle) /\ DOMAIN pending = {}
  BY DEF Init
<1>3. TypeOK
  BY <1>1, <1>2, Steps DEF TypeOK, Init, StopSteps
<1>4. PendingInv /\ ListedInv
  BY <1>1, <1>2 DEF Init, PendingInv, ListedInv
<1>5. OpenInv /\ EarlyInv
  <2>1. /\ {p \in Core : conn[p] = "open"} = {}
        /\ \A o \in Oracle : conn[o] = "off"
    BY DEF Init, Part
  <2>2. HadTheirTurn({})
    BY DEF HadTheirTurn
  <2>. QED
    BY <2>1, <2>2 DEF Init, OpenInv, EarlyInv
<1>. QED
  BY <1>3, <1>4, <1>5 DEF StartInv

(* One step of start. *)
LEMMA StartKeepsStart ==
    ASSUME StartInv, Start
    PROVE  StartInv'
<1>. USE DEF startVars, stopVars
<1>1. /\ TypeOK /\ PendingInv /\ ListedInv /\ OpenInv /\ EarlyInv
      /\ boot \in ToSet(StartSteps) /\ conn \in [Part -> {"off", "open", "closed"}]
      /\ pending \in Seq(Oracle) /\ arrays \in Seq(Seq(Oracle)) \ {<<>>}
      /\ {} \subseteq Oracle
  BY DEF StartInv, TypeOK
<1>2. \A to \in ToSet(StartSteps) : boot' = to => boot' \in ToSet(StartSteps)
  OBVIOUS
<1>3. CASE LoggerInit
  <2>1. boot' \in ToSet(StartSteps) /\ Onward
    BY <1>3, Steps DEF LoggerInit, Connected, Onward
  <2>2. HadTheirTurn({"logger"})'
    BY <1>3, <2>1, ReachedNext, LifecycleAssumption DEF HadTheirTurn, LoggerInit, Connected, Core
  <2>. QED
    BY <1>3, <2>1, <2>2, CoreOpens DEF LoggerInit, Connected, Core
<1>4. CASE AuthorizationClientInit
  <2>1. boot' \in ToSet(StartSteps) /\ Onward
    BY <1>4, Steps DEF AuthorizationClientInit, Connected, Onward
  <2>2. HadTheirTurn({"authorizationClient"})'
    BY <1>4, <2>1, ReachedNext, LifecycleAssumption
    DEF HadTheirTurn, AuthorizationClientInit, Connected, Core
  <2>. QED
    BY <1>4, <2>1, <2>2, CoreOpens DEF AuthorizationClientInit, Connected, Core
<1>5. CASE TokenHelperInit
  <2>1. boot' \in ToSet(StartSteps) /\ Onward
    BY <1>5, Steps DEF TokenHelperInit, Connected, Onward
  <2>2. HadTheirTurn({"tokenHelper"})'
    BY <1>5, <2>1, ReachedNext, LifecycleAssumption
    DEF HadTheirTurn, TokenHelperInit, Connected, Core
  <2>. QED
    BY <1>5, <2>1, <2>2, CoreOpens DEF TokenHelperInit, Connected, Core
<1>6. CASE FinderInit
  <2>1. boot' \in ToSet(StartSteps) /\ Onward
    BY <1>6, Steps DEF FinderInit, Connected, Onward
  <2>2. HadTheirTurn({"oracleFinder"})'
    BY <1>6, <2>1, ReachedNext, LifecycleAssumption
    DEF HadTheirTurn, FinderInit, Connected, Core
  <2>. QED
    BY <1>6, <2>1, <2>2, CoreOpens DEF FinderInit, Connected, Core
<1>7. CASE GetAllOracles
  <2>1. boot' \in ToSet(StartSteps) /\ Onward
    BY <1>7, Steps DEF GetAllOracles, AfterAdapters, Onward
  <2>2. boot = "getAllOracles" /\ boot' = "adapterInit" <=> Stored # <<>>
    BY <1>7 DEF GetAllOracles, AfterAdapters
  <2>3. Stored \in Seq(Oracle) /\ pending' = Stored
    BY <1>7, LifecycleAssumption DEF GetAllOracles
  <2>4. TypeOK'
    BY <1>1, <1>7, <2>1, <2>3 DEF GetAllOracles, TypeOK
  <2>5. \A o \in Oracle : conn[o] = "off" /\ o \notin redis
    BY <1>1, <2>2, ReachedSteps, <1>7 DEF OpenInv, ListedInv, GetAllOracles
  <2>6. PendingInv'
    <3>1. \A k \in DOMAIN Stored : Stored[k] \in Oracle
      BY <2>3
    <3>. QED
      BY <1>7, <2>2, <2>3, <2>5, <3>1, LifecycleAssumption DEF GetAllOracles, PendingInv
  <2>7. ListedInv'
    BY <1>1, <1>7 DEF GetAllOracles, ListedInv
  <2>8. OpenInv' /\ EarlyInv'
    BY <1>1, <1>7, <2>1, TurnsLast DEF GetAllOracles, OpenInv, EarlyInv, Turns, HadTheirTurn
  <2>. QED
    BY <2>4, <2>6, <2>7, <2>8 DEF StartInv
<1>8. ASSUME boot = "adapterInit"
      PROVE  /\ pending # <<>> /\ 1 \in DOMAIN pending
             /\ Head(pending) = pending[1] /\ Head(pending) \in Oracle
             /\ Tail(pending) \in Seq(Oracle)
             /\ \A k \in DOMAIN Tail(pending) :
                   k + 1 \in DOMAIN pending /\ k \in Nat /\ k + 1 # 1
                   /\ Tail(pending)[k] = pending[k + 1]
             /\ Reached("adapterInit")
  <2>1. pending # <<>>
    BY <1>1, <1>8 DEF PendingInv
  <2>. QED
    BY <1>1, <1>8, <2>1, ReachedSteps
<1>13. CASE AdapterMongoConnect
  <2>1. /\ boot = "adapterInit" /\ boot' = boot /\ conn[Head(pending)] = "off"
        /\ conn' = [conn EXCEPT ![Head(pending)] = "open"]
        /\ UNCHANGED <<pending, redis, arrays, consuming, pc, loop, early, wasUp, exit>>
    BY <1>13 DEF AdapterMongoConnect, Connected
  <2>. HIDE <1>13
  <2>. QED
    BY <1>8, <2>1, AdapterOpens
<1>14. CASE AdapterInit
  <2>1. boot = "adapterInit"
    BY <1>14 DEF AdapterInit
  <2>2. /\ Head(pending) \in Oracle /\ Tail(pending) \in Seq(Oracle)
        /\ Head(pending) = pending[1] /\ 1 \in DOMAIN pending
        /\ \A k \in DOMAIN Tail(pending) :
              k + 1 \in DOMAIN pending /\ k \in Nat /\ k + 1 # 1
              /\ Tail(pending)[k] = pending[k + 1]
    BY <1>8, <2>1
  <2>3. /\ boot' = AfterAdapters(Tail(pending)) /\ pending' = Tail(pending)
        /\ RedisConnects(Head(pending)) /\ redis' = redis \cup {Head(pending)}
        /\ UNCHANGED <<conn, consuming, pc, loop, early, wasUp, exit>>
    BY <1>14 DEF AdapterInit, RedisConnects
  <2>4. boot' \in ToSet(StartSteps) /\ Onward /\ (boot' = "adapterInit" <=> pending' # <<>>)
    BY <2>1, <2>3, Steps DEF AfterAdapters, Onward
  <2>. HIDE <2>3
  <2>5. \A k \in DOMAIN Tail(pending) :
            Tail(pending)[k] \notin redis' /\ conn'[Tail(pending)[k]] = "off"
    <3>. SUFFICES ASSUME NEW k \in DOMAIN Tail(pending)
                  PROVE  Tail(pending)[k] \notin redis' /\ conn'[Tail(pending)[k]] = "off"
      OBVIOUS
    <3>1. /\ k + 1 \in DOMAIN pending /\ Tail(pending)[k] = pending[k + 1]
          /\ pending[k + 1] # Head(pending) /\ conn[pending[k + 1]] = "off"
          /\ pending[k + 1] \notin redis
      BY <1>1, <2>2 DEF PendingInv
    <3>. QED
      BY <2>3, <3>1
  <2>6. \A j, k \in DOMAIN Tail(pending) : Tail(pending)[j] = Tail(pending)[k] => j = k
    <3>. SUFFICES ASSUME NEW j \in DOMAIN Tail(pending), NEW k \in DOMAIN Tail(pending),
                         Tail(pending)[j] = Tail(pending)[k]
                  PROVE  j = k
      OBVIOUS
    <3>1. j + 1 = k + 1 /\ j \in Nat /\ k \in Nat
      BY <1>1, <2>2 DEF PendingInv
    <3>. QED
      BY <3>1
  <2>7. PendingInv'
    BY <2>3, <2>4, <2>5, <2>6 DEF PendingInv
  <2>. QED
    BY <2>2, <2>3, <2>4, <2>7, AdapterInitialised
<1>9. CASE ProducerConnect
  <2>1. boot' \in ToSet(StartSteps) /\ Onward
    BY <1>9, Steps DEF ProducerConnect, Connected, Onward
  <2>2. HadTheirTurn({"messageProducer"})'
    BY <1>9, <2>1, ReachedNext, LifecycleAssumption
    DEF HadTheirTurn, ProducerConnect, Connected, Core
  <2>. QED
    BY <1>9, <2>1, <2>2, CoreOpens DEF ProducerConnect, Connected, Core
<1>10. CASE ConsumerConnect
  <2>1. boot' \in ToSet(StartSteps) /\ Onward
    BY <1>10, Steps DEF ConsumerConnect, Connected, Onward
  <2>2. HadTheirTurn({"messageConsumer"})'
    BY <1>10, <2>1, ReachedNext, LifecycleAssumption
    DEF HadTheirTurn, ConsumerConnect, Connected, Core
  <2>. QED
    BY <1>10, <2>1, <2>2, CoreOpens DEF ConsumerConnect, Connected, Core
<1>11. CASE StartAndWaitForRebalance
  <2>1. boot' \in ToSet(StartSteps) /\ Onward
    BY <1>11, Steps DEF StartAndWaitForRebalance, Onward
  <2>2. TypeOK'
    BY <1>1, <1>11, <2>1 DEF StartAndWaitForRebalance, TypeOK
  <2>3. PendingInv' /\ ListedInv'
    BY <1>1, <1>11 DEF StartAndWaitForRebalance, PendingInv, ListedInv
  <2>4. OpenInv' /\ EarlyInv'
    BY <1>1, <1>11, <2>1, TurnsLast
    DEF StartAndWaitForRebalance, OpenInv, EarlyInv, Turns, HadTheirTurn
  <2>. QED
    BY <2>2, <2>3, <2>4 DEF StartInv
<1>12. CASE Listen
  <2>1. boot' \in ToSet(StartSteps) /\ Onward
    BY <1>12, Steps DEF Listen, Connected, Onward
  <2>2. HadTheirTurn({"expressServer"})'
    BY <1>12, <2>1, ReachedNext, LifecycleAssumption
    DEF HadTheirTurn, Listen, Connected, Core
  <2>. QED
    BY <1>12, <2>1, <2>2, CoreOpens DEF Listen, Connected, Core
<1>. QED
  BY <1>3, <1>4, <1>5, <1>6, <1>7, <1>9, <1>10, <1>11, <1>12, <1>13, <1>14 DEF Start

(* One request of an admin. *)
LEMMA AdminKeepsStart ==
    ASSUME StartInv, NEW o \in Oracle, AdminMongoConnect(o) \/ AdminAdds(o) \/ AdminRemoves(o)
    PROVE  StartInv'
<1>. USE DEF startVars, stopVars
<1>1. /\ TypeOK /\ PendingInv /\ ListedInv /\ OpenInv /\ EarlyInv
      /\ boot \in ToSet(StartSteps) /\ conn \in [Part -> {"off", "open", "closed"}]
      /\ pending \in Seq(Oracle) /\ arrays \in Seq(Seq(Oracle)) \ {<<>>}
  BY DEF StartInv, TypeOK
<1>2. CASE AdminMongoConnect(o) \/ AdminAdds(o)
  <2>1. boot = "up" /\ boot' = "up" /\ pending = <<>> /\ pending' = <<>> /\ pending' \in Seq(Oracle)
    BY <1>1, <1>2 DEF AdminMongoConnect, AdminAdds, Connected, PendingInv
  <2>2. Onward /\ Reached("adapterInit")
    BY <1>1, <2>1, ReachedSteps DEF Onward
  <2>3. PendingInv'
    BY <2>1 DEF PendingInv
  <2>4. CASE AdminMongoConnect(o)
    BY <2>1, <2>2, <2>4, AdapterOpens DEF AdminMongoConnect, Connected
  <2>5. CASE AdminAdds(o)
    BY <2>1, <2>2, <2>3, <2>5, AdapterInitialised DEF AdminAdds
  <2>. QED
    BY <1>2, <2>4, <2>5
<1>3. CASE AdminRemoves(o)
  <2>1. /\ arrays' \in Seq(Seq(Oracle)) \ {<<>>}
        /\ ArraysGrow
        /\ \A a \in DOMAIN arrays' : \A j \in DOMAIN arrays'[a] :
              \E b \in DOMAIN arrays : arrays'[a][j] \in ToSet(arrays[b])
    BY <1>1, <1>3, FilterProperties DEF AdminRemoves
  <2>2. UNCHANGED <<boot, pending, conn, redis, consuming, pc, loop, early, wasUp, exit>>
    BY <1>3 DEF AdminRemoves
  <2>3. \A s \in Signal : pc[s] = "adapterDestroy" =>
            loop[s][1] \in DOMAIN arrays' /\ loop[s][2] \in DOMAIN arrays'[loop[s][1]]
    BY <1>1, <2>1 DEF TypeOK, ArraysGrow
  <2>4. TypeOK'
    BY <1>1, <2>1, <2>2, <2>3 DEF TypeOK
  <2>5. PendingInv' /\ OpenInv' /\ EarlyInv'
    BY <1>1, <2>2 DEF PendingInv, OpenInv, EarlyInv, HadTheirTurn, Reached
  <2>6. ListedInv'
    <3>1. \A b \in DOMAIN arrays : \A p \in ToSet(arrays[b]) : p \in redis
      BY <1>1 DEF ListedInv, ToSet
    <3>. QED
      BY <1>1, <2>1, <2>2, <3>1 DEF ListedInv
  <2>. QED
    BY <2>4, <2>5, <2>6 DEF StartInv
<1>. QED
  BY <1>2, <1>3

(* A signal arrives. *)
LEMMA SignalKeepsStart ==
    ASSUME StartInv, NEW s \in Signal, _handle_int_and_term_signals(s)
    PROVE  StartInv'
<1>. USE DEF startVars, stopVars
<1>1. /\ TypeOK /\ ListedInv /\ OpenInv /\ EarlyInv
      /\ conn \in [Part -> {"off", "open", "closed"}]
  BY DEF StartInv, TypeOK
<1>2. /\ pc' = [pc EXCEPT ![s] = FirstStop]
      /\ UNCHANGED <<boot, pending, consuming, conn, redis, arrays, loop, exit>>
      /\ \/ UNCHANGED <<early, wasUp>>
         \/ /\ early' = {p \in Core \cup Listed : conn[p] = "open"}
            /\ wasUp' = (boot = "up")
  BY DEF _handle_int_and_term_signals
<1>3. OnlyCloses
  BY <1>1, <1>2 DEF OnlyCloses
<1>4. FirstStop \in StopSteps \ {"adapterDestroy"}
  BY ShortCuts DEF StopSteps
<1>5. Listed \subseteq redis /\ redis \subseteq Oracle
  BY <1>1, ListedIsLast DEF ListedInv, ToSet, TypeOK
<1>6. TypeOK'
  BY <1>1, <1>2, <1>4, <1>5 DEF TypeOK, Part
<1>7. CASE early' = {p \in Core \cup Listed : conn[p] = "open"} /\ wasUp' = (boot = "up")
  <2>. DEFINE now == {p \in Core : conn[p] = "open"}
  <2>1. /\ HadTheirTurn(now) /\ \A o \in Oracle : conn[o] # "off" => Reached("adapterInit")
        /\ now \cap Oracle = {} /\ early' \cap Core = now
        /\ \A o \in Oracle \cap early' : conn[o] # "off" /\ o \in redis
    BY <1>1, <1>5, <1>7, LifecycleAssumption DEF OpenInv
  <2>2. \A step : Reached(step)' = Reached(step)
    BY <1>2 DEF Reached
  <2>3. \A p \in Core : p \in early' <=> p \in now
    BY <2>1
  <2>4. \A p \in early' : conn[p] # "off"
    BY <1>7
  <2>. HIDE DEF now
  <2>5. HadTheirTurn(early)'
    BY <2>1, <2>2, <2>3 DEF HadTheirTurn, Core
  <2>6. EarlyInv'
    BY <1>2, <1>7, <2>1, <2>4, <2>5 DEF EarlyInv
  <2>. QED
    BY <1>2, <1>3, <1>6, <2>6, NothingOpens
<1>. QED
  BY <1>2, <1>3, <1>6, <1>7, NothingOpens

(* One step of stop. *)
LEMMA StopKeepsStart ==
    ASSUME StartInv, NEW s \in Signal, Stop(s)
    PROVE  StartInv'
<1>. USE DEF startVars, stopVars
<1>1. /\ TypeOK /\ arrays \in Seq(Seq(Oracle)) \ {<<>>} /\ pc \in [Signal -> StopSteps]
      /\ loop \in [Signal -> Nat \X Nat] /\ consuming \in BOOLEAN
      /\ conn \in [Part -> {"off", "open", "closed"}]
      /\ Len(arrays) \in DOMAIN arrays /\ Len(arrays) \in Nat
  BY ListedIsLast DEF StartInv, TypeOK
<1>2. ASSUME UNCHANGED <<boot, pending, redis, arrays, early, wasUp, exit, loop>>,
             NEW to \in StopSteps \ {"adapterDestroy"}, pc' = [pc EXCEPT ![s] = to],
             consuming' \in BOOLEAN, OnlyCloses
      PROVE  StartInv'
  <2>1. TypeOK'
    BY <1>1, <1>2 DEF TypeOK, OnlyCloses
  <2>. QED
    BY <1>2, <2>1, NothingOpens
<1>3. ASSUME NEW a \in DOMAIN arrays, NEW n \in Nat \ {0}, Visit(s, a, n), OnlyCloses,
             UNCHANGED consuming
      PROVE  StartInv'
  <2>. DEFINE to == IF n <= Len(arrays[a]) THEN "adapterDestroy" ELSE AfterEventHandler
  <2>1. /\ pc' = [pc EXCEPT ![s] = to] /\ loop' = [loop EXCEPT ![s] = <<a, n>>]
        /\ UNCHANGED <<boot, pending, redis, arrays, early, wasUp, exit>>
    BY <1>3 DEF Visit, StopStep
  <2>2. a \in Nat /\ arrays[a] \in Seq(Oracle)
    BY <1>1
  <2>3. to \in StopSteps /\ (to = "adapterDestroy" => n \in DOMAIN arrays[a])
    BY <2>2, ShortCuts DEF StopSteps
  <2>. HIDE DEF to
  <2>4. TypeOK'
    <3>1. /\ loop'[s] = <<a, n>> /\ pc'[s] = to
          /\ \A t \in Signal : t # s => loop'[t] = loop[t] /\ pc'[t] = pc[t]
          /\ loop' \in [Signal -> Nat \X Nat] /\ pc' \in [Signal -> StopSteps]
      BY <1>1, <2>1, <2>2, <2>3
    <3>2. \A t \in Signal : pc'[t] = "adapterDestroy" =>
              loop'[t][1] \in DOMAIN arrays' /\ loop'[t][2] \in DOMAIN arrays'[loop'[t][1]]
      BY <1>1, <2>1, <2>3, <3>1 DEF TypeOK
    <3>. QED
      BY <1>1, <1>3, <2>1, <3>1, <3>2 DEF TypeOK, OnlyCloses
  <2>. QED
    BY <1>3, <2>1, <2>4, NothingOpens
<1>4. CASE ConsumerStop(s)
  BY <1>1, <1>2, <1>4 DEF ConsumerStop, StopStep, OnlyCloses, StopSteps
<1>5. CASE FinderDestroy(s)
  BY <1>1, <1>3, <1>5, DestroyedOnlyCloses DEF FinderDestroy
<1>6. CASE AdapterDestroy(s)
  <2>1. loop[s][1] \in DOMAIN arrays /\ loop[s][2] + 1 \in Nat \ {0}
    BY <1>1, <1>6 DEF AdapterDestroy, TypeOK
  <2>. QED
    BY <1>3, <1>6, <2>1, DestroyedOnlyCloses DEF AdapterDestroy
<1>7. CASE ConsumerDestroy(s)
  BY <1>1, <1>2, <1>7, DestroyedOnlyCloses DEF ConsumerDestroy, StopStep, StopSteps
<1>8. CASE ProducerDestroy(s)
  BY <1>1, <1>2, <1>8, ShortCuts, DestroyedOnlyCloses DEF ProducerDestroy, StopStep, StopSteps
<1>9. CASE TokenHelperDestroy(s)
  BY <1>1, <1>2, <1>9, DestroyedOnlyCloses DEF TokenHelperDestroy, StopStep, StopSteps
<1>10. CASE ProcessExit(s)
  <2>1. OnlyCloses
    BY <1>1, <1>10 DEF ProcessExit, CloseServer, OnlyCloses, Core
  <2>2. TypeOK'
    BY <1>1, <1>10, <2>1 DEF ProcessExit, TypeOK, OnlyCloses
  <2>. QED
    BY <1>10, <2>1, <2>2, NothingOpens DEF ProcessExit
<1>. QED
  BY <1>4, <1>5, <1>6, <1>7, <1>8, <1>9, <1>10 DEF Stop

(* Every step. *)
LEMMA StartStep == StartInv /\ [Next]_vars => StartInv'
<1>. SUFFICES ASSUME StartInv, [Next]_vars PROVE StartInv'
  OBVIOUS
<1>. USE DEF startVars, stopVars
<1>1. ASSUME UNCHANGED <<boot, pending, conn, redis, consuming, arrays, pc, loop, early, wasUp>>,
             exit' \in {exit, "failed", "aborted"}
      PROVE  StartInv'
  BY <1>1 DEF StartInv, TypeOK, PendingInv, ListedInv, OpenInv, EarlyInv, HadTheirTurn, Reached
<1>2. CASE Start
  BY <1>2, StartKeepsStart
<1>3. CASE StartFails \/ StartTimesOut
  BY <1>1, <1>3 DEF StartFails, StartTimesOut
<1>4. ASSUME NEW o \in Oracle, AdminMongoConnect(o) \/ AdminAdds(o) \/ AdminRemoves(o)
      PROVE  StartInv'
  BY <1>4, AdminKeepsStart
<1>5. ASSUME NEW s \in Signal, _handle_int_and_term_signals(s) PROVE StartInv'
  BY <1>5, SignalKeepsStart
<1>6. ASSUME NEW s \in Signal, Stop(s) PROVE StartInv'
  BY <1>6, StopKeepsStart
<1>7. ASSUME NEW s \in Signal, StopFails(s) \/ ProcessAbort(s) PROVE StartInv'
  BY <1>1, <1>7 DEF StopFails, ProcessAbort
<1>8. CASE UNCHANGED vars
  BY <1>1, <1>8 DEF vars
<1>. QED
  BY <1>2, <1>3, <1>4, <1>5, <1>6, <1>7, <1>8 DEF Next

(***************************************************************************)
(* Type correctness: above all, the loop over the adapters never looks past  *)
(* the end of the array that it began with, whatever admins do to it.        *)
(***************************************************************************)
THEOREM TypeCorrect == Spec => []TypeOK
<1>1. StartInv => TypeOK
  BY DEF StartInv
<1>. QED
  BY StartInitially, StartStep, <1>1, PTL DEF Spec

-----------------------------------------------------------------------------
(* What a clean exit leaves behind. *)

(* What stop has torn down before it gets to a step. *)
Before(step) ==
    {p \in Part :
        \/ /\ p = "oracleFinder"
           /\ step \in {"adapterDestroy", "consumerDestroy", "producerDestroy",
                        "tokenHelperDestroy", "return"}
        \/ /\ p \in Oracle
           /\ step \in {"consumerDestroy", "producerDestroy", "tokenHelperDestroy", "return"}
        \/ /\ p = "messageConsumer"
           /\ step \in {"producerDestroy", "tokenHelperDestroy", "return"}
        \/ p = "messageProducer" /\ step \in {"tokenHelperDestroy", "return"}
        \/ p = "tokenHelper" /\ step = "return"}

ReleasedBefore(step) == \A p \in early \cap Before(step) : p \in Core \cup Listed => Closed(p)

(* The loop over the adapters: what is still listed is in the array that it  *)
(* runs over, and the places that it has passed are released.                *)
LoopInv(s) ==
    LET a == loop[s][1]
    IN  /\ \A o \in early \cap Oracle : o \in Listed => o \in ToSet(arrays[a])
        /\ \A k \in DOMAIN arrays[a] :
              k < loop[s][2] /\ arrays[a][k] \in early => Closed(arrays[a][k])

ReleaseInv ==
    \A s \in Signal : ReleasedBefore(pc[s]) /\ (pc[s] = "adapterDestroy" => LoopInv(s))

(* What the tests of stop skip was not open when the first signal came. *)
LEMMA SkippedWasNotOpen ==
    ASSUME boot \in ToSet(StartSteps), NEW parts \in SUBSET Part, HadTheirTurn(parts)
    PROVE  /\ FirstStop = "consumerDestroy" => parts \cap Before("consumerDestroy") = {}
           /\ FirstStop = "return" => parts = {}
           /\ AfterEventHandler = "return" => parts = {}
           /\ AfterProducer = "return" => "tokenHelper" \notin parts
<1>1. boot = "logger" => parts = {}
  BY ReachedSteps DEF HadTheirTurn, Part, Core
<1>2. ~ Reached("finderInit") => "oracleFinder" \notin parts /\ parts \cap Oracle = {}
  BY ReachedSteps DEF HadTheirTurn
<1>3. ~ Reached("tokenHelper") => "tokenHelper" \notin parts
  BY ReachedSteps DEF HadTheirTurn
<1>4. parts \cap Before("consumerDestroy") \subseteq {"oracleFinder"} \cup (parts \cap Oracle)
  BY DEF Before
<1>. QED
  BY <1>1, <1>2, <1>3, <1>4, ReachedSteps DEF FirstStop, AfterEventHandler, AfterProducer

(* Steps of start and of admins: neither a part that was open early nor an    *)
(* oracle that is listed is new.                                              *)
LEMMA UndisturbedReleases ==
    ASSUME StartInv, TypeOK', ReleaseInv, UNCHANGED <<pc, loop, early>>, ArraysGrow,
           \A p \in early : conn'[p] = conn[p],
           \A o \in early \cap Oracle : o \in Listed' => o \in Listed
    PROVE  ReleaseInv'
<1>1. TypeOK /\ early \subseteq Part
  BY DEF StartInv, TypeOK
<1>2. \A s \in Signal : pc[s] = "adapterDestroy" =>
          /\ loop[s][1] \in DOMAIN arrays /\ loop[s][2] \in DOMAIN arrays[loop[s][1]]
          /\ arrays[loop[s][1]] \in Seq(Oracle) /\ arrays \in Seq(Seq(Oracle))
  BY <1>1 DEF TypeOK
<1>3. \A s \in Signal : pc[s] = "adapterDestroy" =>
          arrays'[loop[s][1]][loop[s][2]] = arrays[loop[s][1]][loop[s][2]]
  BY <1>2 DEF ArraysGrow
<1>4. \A s \in Signal : Closing(s)' = Closing(s)
  BY <1>3 DEF Closing
<1>5. \A p \in early : Closed(p) => Closed(p)'
  BY <1>4 DEF Closed
<1>6. ASSUME NEW s \in Signal PROVE ReleasedBefore(pc[s])'
  <2>1. \A p \in early \cap Before(pc[s]) : p \in Core \cup Listed' => p \in Core \cup Listed
    BY DEF Before, Part
  <2>2. Before(pc[s])' = Before(pc[s]) /\ pc'[s] = pc[s] /\ ReleasedBefore(pc[s])
    BY DEF Before, ReleaseInv
  <2>. QED
    BY <1>5, <2>1, <2>2 DEF ReleasedBefore
<1>7. ASSUME NEW s \in Signal, pc[s] = "adapterDestroy" PROVE LoopInv(s)'
  <2>. DEFINE a == loop[s][1]
              n == loop[s][2]
  <2>1. /\ a \in DOMAIN arrays /\ n \in DOMAIN arrays[a] /\ arrays[a] \in Seq(Oracle)
        /\ \A o \in early \cap Oracle : o \in Listed => o \in ToSet(arrays[a])
        /\ \A k \in DOMAIN arrays[a] : k < n /\ arrays[a][k] \in early => Closed(arrays[a][k])
    BY <1>2, <1>7 DEF ReleaseInv, LoopInv
  <2>2. /\ DOMAIN arrays[a] \subseteq DOMAIN arrays'[a]
        /\ \A k \in DOMAIN arrays[a] : arrays'[a][k] = arrays[a][k]
    BY <2>1 DEF ArraysGrow
  <2>. HIDE DEF a, n
  <2>3. \A o \in early \cap Oracle : o \in Listed' => o \in ToSet(arrays'[a])
    BY <2>1, <2>2 DEF ToSet
  <2>4. \A k \in DOMAIN arrays'[a] : k < n => k \in DOMAIN arrays[a]
    <3>1. arrays' \in Seq(Seq(Oracle)) /\ a \in DOMAIN arrays'
      BY <2>1 DEF TypeOK, ArraysGrow
    <3>2. arrays'[a] \in Seq(Oracle)
      BY <3>1
    <3>3. /\ DOMAIN arrays'[a] = 1..Len(arrays'[a]) /\ DOMAIN arrays[a] = 1..Len(arrays[a])
          /\ Len(arrays[a]) \in Nat /\ Len(arrays'[a]) \in Nat
      BY <2>1, <3>2
    <3>. HIDE <3>1, <3>2
    <3>. QED
      BY <2>1, <3>3
  <2>5. \A k \in DOMAIN arrays'[a] :
           k < n => \A p \in early : p = arrays'[a][k] => Closed(p)'
    BY <1>5, <2>1, <2>2, <2>4
  <2>. QED
    BY <2>3, <2>5 DEF LoopInv, a, n
<1>. QED
  BY <1>6, <1>7 DEF ReleaseInv

(* Start opens nothing again that was open early: that has had its turn. *)
LEMMA StartIsUndisturbing ==
    ASSUME StartInv, Start
    PROVE  /\ UNCHANGED <<pc, loop, early, wasUp, exit>>
           /\ ArraysGrow
           /\ \A p \in early : conn'[p] = conn[p]
           /\ \A o \in early \cap Oracle : o \in Listed' => o \in Listed
<1>. USE DEF stopVars
<1>1. /\ TypeOK /\ PendingInv /\ boot \in ToSet(StartSteps)
      /\ conn \in [Part -> {"off", "open", "closed"}] /\ early \subseteq Part
      /\ HadTheirTurn(early) /\ \A p \in early : conn[p] # "off"
      /\ redis \subseteq Oracle /\ early \cap Oracle \subseteq redis
  BY DEF StartInv, TypeOK, EarlyInv
<1>2. UNCHANGED <<pc, loop, early, wasUp, exit>>
  BY DEF Start, LoggerInit, AuthorizationClientInit, TokenHelperInit, FinderInit, GetAllOracles,
         AdapterMongoConnect, AdapterInit, ProducerConnect, ConsumerConnect,
         StartAndWaitForRebalance, Listen, Connected
<1>3. CASE UNCHANGED <<conn, arrays>>
  BY <1>2, <1>3 DEF ArraysGrow, Listed
<1>4. ASSUME NEW p \in Part \ early, conn' = [conn EXCEPT ![p] = "open"], UNCHANGED arrays
      PROVE  /\ ArraysGrow
             /\ \A q \in early : conn'[q] = conn[q]
             /\ \A o \in early \cap Oracle : o \in Listed' => o \in Listed
  BY <1>1, <1>4 DEF ArraysGrow, Listed
<1>5. /\ boot = "logger" => "logger" \notin early
      /\ boot = "authorizationClient" => "authorizationClient" \notin early
      /\ boot = "tokenHelper" => "tokenHelper" \notin early
      /\ boot = "finderInit" => "oracleFinder" \notin early
      /\ boot = "producerConnect" => "messageProducer" \notin early
      /\ boot = "consumerConnect" => "messageConsumer" \notin early
      /\ conn["expressServer"] = "off" => "expressServer" \notin early
  BY <1>1, ReachedSteps DEF HadTheirTurn
<1>6. {"logger", "authorizationClient", "tokenHelper", "oracleFinder", "messageProducer",
       "messageConsumer", "expressServer"} \subseteq Part
  BY DEF Part, Core
<1>7. boot = "adapterInit" => Head(pending) \in Oracle /\ Head(pending) \in Part
  <2>1. boot = "adapterInit" => pending \in Seq(Oracle) /\ pending # <<>>
    BY <1>1 DEF PendingInv, TypeOK
  <2>. QED
    BY <2>1 DEF Part
<1>8. CASE AdapterMongoConnect
  <2>1. /\ Head(pending) \in Part /\ conn[Head(pending)] = "off" /\ UNCHANGED arrays
        /\ conn' = [conn EXCEPT ![Head(pending)] = "open"]
    BY <1>7, <1>8 DEF AdapterMongoConnect, Connected
  <2>2. Head(pending) \notin early
    BY <1>1, <2>1
  <2>. QED
    BY <1>2, <1>4, <2>1, <2>2
<1>9. CASE AdapterInit
  <2>1. /\ Head(pending) \in Oracle /\ Head(pending) \notin redis
        /\ Push(Head(pending)) /\ UNCHANGED conn
    BY <1>7, <1>9 DEF AdapterInit, RedisConnects
  <2>2. Head(pending) \notin early
    BY <1>1, <2>1
  <2>3. ArraysGrow /\ Listed' = Listed \cup {Head(pending)}
    BY <1>1, <2>1, PushProperties
  <2>. QED
    BY <1>2, <2>1, <2>2, <2>3
<1>. QED
  BY <1>2, <1>3, <1>4, <1>5, <1>6, <1>8, <1>9
  DEF Start, LoggerInit, AuthorizationClientInit, TokenHelperInit, FinderInit, GetAllOracles,
      ProducerConnect, ConsumerConnect, StartAndWaitForRebalance, Listen, Connected

(* Nor do admins. *)
LEMMA AdminIsUndisturbing ==
    ASSUME StartInv, NEW o \in Oracle,
           AdminMongoConnect(o) \/ AdminAdds(o) \/ AdminRemoves(o)
    PROVE  /\ UNCHANGED <<boot, consuming, pc, loop, early, wasUp, exit>>
           /\ ArraysGrow
           /\ \A p \in early : conn'[p] = conn[p]
           /\ \A q \in early \cap Oracle : q \in Listed' => q \in Listed
<1>. USE DEF stopVars
<1>1. /\ TypeOK /\ conn \in [Part -> {"off", "open", "closed"}] /\ early \subseteq Part
      /\ \A p \in early : conn[p] # "off"
      /\ early \cap Oracle \subseteq redis
  BY DEF StartInv, TypeOK, EarlyInv
<1>2. CASE AdminMongoConnect(o)
  BY <1>1, <1>2 DEF AdminMongoConnect, Connected, ArraysGrow, Listed, Part
<1>3. CASE AdminAdds(o)
  <2>1. /\ o \notin redis /\ Push(o)
        /\ UNCHANGED <<boot, consuming, conn, pc, loop, early, wasUp, exit>>
    BY <1>3 DEF AdminAdds, RedisConnects
  <2>. QED
    BY <1>1, <2>1, PushProperties
<1>4. CASE AdminRemoves(o)
  BY <1>1, <1>4, FilterProperties DEF AdminRemoves
<1>. QED
  BY <1>2, <1>3, <1>4

(* A signal arrives: what its handler skips was not open early. *)
LEMMA SignalReleases ==
    ASSUME StartInv, StartInv', ReleaseInv, NEW s \in Signal, _handle_int_and_term_signals(s)
    PROVE  ReleaseInv'
<1>. USE DEF startVars
<1>1. /\ TypeOK /\ pc \in [Signal -> StopSteps] /\ boot \in ToSet(StartSteps)
      /\ EarlyInv' /\ early' \subseteq Part
  BY DEF StartInv, TypeOK
<1>2. /\ pc' = [pc EXCEPT ![s] = FirstStop] /\ pc[s] = "idle"
      /\ UNCHANGED <<boot, pending, consuming, conn, redis, arrays, loop, exit>>
      /\ \/ UNCHANGED early
         \/ \A t \in Signal : pc[t] = "idle"
  BY DEF _handle_int_and_term_signals
<1>3. pc'[s] = FirstStop /\ \A t \in Signal : t # s => pc'[t] = pc[t]
  BY <1>1, <1>2
<1>4. \A t \in Signal : t # s => Closing(t)' = Closing(t)
  BY <1>2, <1>3 DEF Closing
<1>5. Closing(s) = {}
  BY <1>2, ClosingProperties
<1>6. \A p : Closed(p) => Closed(p)'
  BY <1>2, <1>4, <1>5 DEF Closed
<1>7. HadTheirTurn(early')
  BY <1>1, <1>2 DEF EarlyInv, HadTheirTurn, Reached
<1>8. ReleasedBefore(pc[s])'
  <2>1. CASE FirstStop = "consumerStop"
    BY <1>3, <2>1 DEF ReleasedBefore, Before
  <2>2. CASE FirstStop = "consumerDestroy"
    <3>1. early' \cap Before("consumerDestroy") = {}
      BY <1>1, <1>7, <2>2, SkippedWasNotOpen
    <3>. QED
      BY <1>3, <2>2, <3>1 DEF ReleasedBefore, Before
  <2>3. CASE FirstStop = "return"
    <3>1. early' = {}
      BY <1>1, <1>7, <2>3, SkippedWasNotOpen
    <3>. QED
      BY <3>1 DEF ReleasedBefore
  <2>. QED
    BY <2>1, <2>2, <2>3, ShortCuts
<1>9. ASSUME NEW t \in Signal, t # s
      PROVE  ReleasedBefore(pc[t])' /\ (pc'[t] = "adapterDestroy" => LoopInv(t)')
  <2>1. CASE pc[t] = "idle"
    BY <1>3, <1>9, <2>1 DEF ReleasedBefore, Before
  <2>2. CASE pc[t] # "idle"
    <3>1. UNCHANGED early /\ pc'[t] = pc[t]
      BY <1>2, <1>3, <1>9, <2>2
    <3>2. ReleasedBefore(pc[t]) /\ (pc[t] = "adapterDestroy" => LoopInv(t))
      BY DEF ReleaseInv
    <3>3. ReleasedBefore(pc[t])'
      BY <1>2, <1>6, <3>1, <3>2 DEF ReleasedBefore, Before, Listed
    <3>4. LoopInv(t) => LoopInv(t)'
      BY <1>2, <1>6, <3>1 DEF LoopInv, Listed
    <3>. QED
      BY <3>1, <3>2, <3>3, <3>4
  <2>. QED
    BY <2>1, <2>2
<1>10. pc'[s] # "adapterDestroy"
  BY <1>3, ShortCuts
<1>. QED
  BY <1>8, <1>9, <1>10 DEF ReleaseInv

(* A step of stop awaits the end of its part, and then goes on elsewhere:     *)
(* nothing that was closed or being closed is let go.                         *)
LEMMA DestroyedStaysClosed ==
    ASSUME StartInv, NEW s \in Signal, Destroyed(s) \/ (Closing(s) = {} /\ OnlyCloses),
           UNCHANGED arrays, \A t \in Signal \ {s} : pc'[t] = pc[t] /\ loop'[t] = loop[t]
    PROVE  \A p \in Part : Closed(p) \/ p \in Closing(s) => Closed(p)'
<1>1. conn \in [Part -> {"off", "open", "closed"}] /\ OnlyCloses
  BY DestroyedOnlyCloses DEF StartInv, TypeOK
<1>2. \A t \in Signal \ {s} : Closing(t)' = Closing(t)
  BY DEF Closing
<1>3. \A p \in Part : conn[p] = "closed" => conn'[p] = "closed"
  BY <1>1 DEF OnlyCloses
<1>4. ASSUME NEW p \in Closing(s) PROVE Closed(p)'
  <2>1. p \in Part
    BY DEF Closing
  <2>2. CASE conn' = [q \in Part |-> IF q \in Closing(s) THEN "closed" ELSE conn[q]]
    BY <2>1, <2>2 DEF Closed
  <2>3. CASE \E t \in Signal \ {s} : Closing(t) = Closing(s)
    BY <1>2, <2>3 DEF Closed
  <2>. QED
    BY <2>2, <2>3 DEF Destroyed
<1>5. ASSUME NEW p \in Part, Closed(p) PROVE Closed(p)'
  <2>1. CASE conn[p] = "closed"
    BY <1>3, <2>1 DEF Closed
  <2>2. CASE p \in Closing(s)
    BY <1>4, <2>2
  <2>3. ASSUME NEW t \in Signal \ {s}, p \in Closing(t) PROVE Closed(p)'
    BY <1>2, <2>3 DEF Closed
  <2>. QED
    BY <1>5, <2>1, <2>2, <2>3 DEF Closed
<1>. QED
  BY <1>4, <1>5

(* What is true of the other handlers stays so. *)
LEMMA OthersRelease ==
    ASSUME StartInv, ReleaseInv, NEW s \in Signal, \A p \in Part : Closed(p) => Closed(p)',
           UNCHANGED <<arrays, early>>, NEW t \in Signal, pc'[t] = pc[t], loop'[t] = loop[t]
    PROVE  ReleasedBefore(pc[t])' /\ (pc'[t] = "adapterDestroy" => LoopInv(t)')
<1>1. early \subseteq Part
  BY DEF StartInv, TypeOK
<1>2. ReleasedBefore(pc[t]) /\ (pc[t] = "adapterDestroy" => LoopInv(t))
  BY DEF ReleaseInv
<1>3. ReleasedBefore(pc[t])'
  BY <1>1, <1>2 DEF ReleasedBefore, Before, Listed
<1>4. LoopInv(t) => LoopInv(t)'
  BY <1>1 DEF LoopInv, Listed
<1>. QED
  BY <1>2, <1>3, <1>4

(* Once the loop is left, all that is listed is released. *)
AdaptersReleased == \A o \in early \cap Oracle : o \in Listed => Closed(o)

LEMMA AfterTheLoop ==
    ASSUME StartInv, NEW s \in Signal, pc'[s] = AfterEventHandler, AdaptersReleased',
           "oracleFinder" \in early => Closed("oracleFinder")', UNCHANGED <<boot, early>>
    PROVE  ReleasedBefore(pc[s])'
<1>1. /\ boot \in ToSet(StartSteps) /\ early \subseteq Part /\ HadTheirTurn(early)
  BY DEF StartInv, TypeOK, EarlyInv
<1>2. CASE AfterEventHandler = "consumerDestroy"
  <2>1. \A p \in Before("consumerDestroy") : p = "oracleFinder" \/ p \in Oracle
    BY DEF Before
  <2>2. \A p \in Oracle : p \notin Core
    BY LifecycleAssumption
  <2>3. \A p \in early' \cap Before("consumerDestroy") : p \in Core \cup Listed' => Closed(p)'
    BY <2>1, <2>2 DEF AdaptersReleased
  <2>4. Before(pc[s])' = Before("consumerDestroy")
    BY <1>2 DEF Before
  <2>. QED
    BY <2>3, <2>4 DEF ReleasedBefore
<1>3. CASE AfterEventHandler = "return"
  BY <1>1, <1>3, SkippedWasNotOpen DEF ReleasedBefore
<1>. QED
  BY <1>2, <1>3, ShortCuts

(* The loop takes its next place, or is over. *)
LEMMA VisitReleases ==
    ASSUME StartInv, ReleaseInv, NEW s \in Signal, NEW a \in DOMAIN arrays, NEW n \in Nat \ {0},
           Visit(s, a, n), \A p \in Part : Closed(p) => Closed(p)',
           "oracleFinder" \in early => Closed("oracleFinder")',
           \A o \in early \cap Oracle : o \in Listed => o \in ToSet(arrays[a]),
           \A k \in DOMAIN arrays[a] : k < n => \A o \in early : o = arrays[a][k] => Closed(o)'
    PROVE  ReleaseInv'
<1>1. /\ pc \in [Signal -> StopSteps] /\ loop \in [Signal -> Nat \X Nat]
      /\ arrays[a] \in Seq(Oracle) /\ early \subseteq Part
  BY DEF StartInv, TypeOK
<1>2. /\ pc' = [pc EXCEPT ![s] = IF n <= Len(arrays[a]) THEN "adapterDestroy"
                                                       ELSE AfterEventHandler]
      /\ loop' = [loop EXCEPT ![s] = <<a, n>>]
      /\ UNCHANGED <<boot, arrays, early>>
  BY DEF Visit, StopStep
<1>3. /\ \A t \in Signal \ {s} : pc'[t] = pc[t] /\ loop'[t] = loop[t]
      /\ loop'[s][1] = a /\ loop'[s][2] = n
      /\ pc'[s] = IF n <= Len(arrays[a]) THEN "adapterDestroy" ELSE AfterEventHandler
  BY <1>1, <1>2
<1>4. \A t \in Signal \ {s} :
          ReleasedBefore(pc[t])' /\ (pc'[t] = "adapterDestroy" => LoopInv(t)')
  BY <1>2, <1>3, OthersRelease
<1>5. CASE n <= Len(arrays[a])
  <2>1. ReleasedBefore(pc[s])'
    BY <1>2, <1>3, <1>5, LifecycleAssumption DEF ReleasedBefore, Before
  <2>2. LoopInv(s)'
    BY <1>1, <1>2, <1>3 DEF LoopInv, Listed
  <2>. QED
    BY <1>4, <2>1, <2>2 DEF ReleaseInv
<1>6. CASE ~ (n <= Len(arrays[a]))
  <2>1. \A k \in DOMAIN arrays[a] : k < n
    BY <1>1, <1>6
  <2>2. AdaptersReleased'
    BY <1>2, <2>1 DEF AdaptersReleased, ToSet, Listed
  <2>3. ReleasedBefore(pc[s])'
    BY <1>2, <1>3, <1>6, <2>2, AfterTheLoop
  <2>4. pc'[s] # "adapterDestroy"
    BY <1>3, <1>6, ShortCuts
  <2>. QED
    BY <1>4, <2>3, <2>4 DEF ReleaseInv
<1>. QED
  BY <1>5, <1>6

(* One step of stop. *)
LEMMA StopReleases ==
    ASSUME StartInv, ReleaseInv, NEW s \in Signal, Stop(s)
    PROVE  ReleaseInv'
<1>. USE DEF startVars, stopVars
<1>1. /\ TypeOK /\ pc \in [Signal -> StopSteps] /\ loop \in [Signal -> Nat \X Nat]
      /\ boot \in ToSet(StartSteps) /\ early \subseteq Part /\ HadTheirTurn(early)
      /\ Len(arrays) \in DOMAIN arrays /\ Len(arrays) \in Nat
      /\ Listed = ToSet(arrays[Len(arrays)])
      /\ conn \in [Part -> {"off", "open", "closed"}]
      /\ ReleasedBefore(pc[s]) /\ (pc[s] = "adapterDestroy" => LoopInv(s))
  BY ListedIsLast DEF StartInv, TypeOK, EarlyInv, ReleaseInv
<1>2. ASSUME UNCHANGED <<boot, arrays, early, loop>>, NEW to \in StopSteps \ {"adapterDestroy"},
             pc' = [pc EXCEPT ![s] = to], Destroyed(s) \/ (Closing(s) = {} /\ OnlyCloses),
             \A p \in early \cap Before(to) :
                 p \in Before(pc[s]) \/ p \in Closing(s)
      PROVE  ReleaseInv'
  <2>1. pc'[s] = to /\ \A t \in Signal \ {s} : pc'[t] = pc[t] /\ loop'[t] = loop[t]
    BY <1>1, <1>2
  <2>2. \A p \in Part : Closed(p) \/ p \in Closing(s) => Closed(p)'
    BY <1>2, <2>1, DestroyedStaysClosed
  <2>3. \A t \in Signal \ {s} :
            ReleasedBefore(pc[t])' /\ (pc'[t] = "adapterDestroy" => LoopInv(t)')
    BY <1>2, <2>1, <2>2, OthersRelease
  <2>4. \A p \in early \cap Before(to) : p \in Core \cup Listed => Closed(p)'
    BY <1>1, <1>2, <2>2 DEF ReleasedBefore
  <2>5. ReleasedBefore(pc[s])'
    BY <1>2, <2>1, <2>4 DEF ReleasedBefore, Before, Listed
  <2>. QED
    BY <1>2, <2>1, <2>3, <2>5 DEF ReleaseInv
<1>3. CASE ConsumerStop(s)
  <2>1. /\ UNCHANGED <<boot, arrays, early, loop, conn>> /\ pc' = [pc EXCEPT ![s] = "finderDestroy"]
        /\ pc[s] = "consumerStop"
    BY <1>3 DEF ConsumerStop, StopStep
  <2>2. Closing(s) = {} /\ OnlyCloses
    BY <1>1, <2>1, ClosingProperties DEF OnlyCloses
  <2>3. Before("finderDestroy") = {}
    BY DEF Before
  <2>. QED
    BY <1>2, <2>1, <2>2, <2>3 DEF StopSteps
<1>4. CASE FinderDestroy(s)
  <2>1. /\ pc[s] = "finderDestroy" /\ Destroyed(s) /\ Visit(s, Len(arrays), 1)
        /\ Closing(s) = {"oracleFinder"}
    BY <1>4, ClosingProperties DEF FinderDestroy
  <2>2. UNCHANGED arrays /\ \A t \in Signal \ {s} : pc'[t] = pc[t] /\ loop'[t] = loop[t]
    BY <1>1, <2>1 DEF Visit, StopStep
  <2>3. \A p \in Part : Closed(p) \/ p \in Closing(s) => Closed(p)'
    BY <2>1, <2>2, DestroyedStaysClosed
  <2>4. "oracleFinder" \in early => Closed("oracleFinder")'
    BY <1>1, <2>1, <2>3
  <2>5. \A k \in DOMAIN arrays[Len(arrays)] : ~ (k < 1)
    BY <1>1 DEF TypeOK
  <2>. QED
    BY <1>1, <2>1, <2>3, <2>4, <2>5, VisitReleases
<1>5. CASE AdapterDestroy(s)
  <2>. DEFINE a == loop[s][1]
              n == loop[s][2]
  <2>1. /\ pc[s] = "adapterDestroy" /\ Destroyed(s) /\ Visit(s, a, n + 1)
        /\ Closing(s) = {arrays[a][n]} /\ arrays[a][n] \in Oracle
    BY <1>5, ClosingProperties DEF AdapterDestroy
  <2>2. UNCHANGED arrays /\ \A t \in Signal \ {s} : pc'[t] = pc[t] /\ loop'[t] = loop[t]
    BY <1>1, <2>1 DEF Visit, StopStep
  <2>3. \A p \in Part : Closed(p) \/ p \in Closing(s) => Closed(p)'
    BY <2>1, <2>2, DestroyedStaysClosed
  <2>4. "oracleFinder" \in early => Closed("oracleFinder")'
    BY <1>1, <2>1, <2>3 DEF ReleasedBefore, Before, Core
  <2>5. /\ a \in DOMAIN arrays /\ n \in DOMAIN arrays[a] /\ n \in Nat /\ n + 1 \in Nat \ {0}
        /\ \A k \in DOMAIN arrays[a] : k \in Nat
    BY <1>1, <2>1 DEF TypeOK
  <2>6. /\ \A o \in early \cap Oracle : o \in Listed => o \in ToSet(arrays[a])
        /\ \A k \in DOMAIN arrays[a] : k < n /\ arrays[a][k] \in early => Closed(arrays[a][k])
    BY <1>1, <2>1 DEF LoopInv
  <2>. HIDE DEF a, n
  <2>7. \A k \in DOMAIN arrays[a] :
            k < n + 1 => \A o \in early : o = arrays[a][k] => Closed(o)'
    <3>1. \A k \in DOMAIN arrays[a] : k < n + 1 => k < n \/ k = n
      BY <2>5
    <3>. QED
      BY <1>1, <2>1, <2>3, <2>6, <3>1
  <2>. QED
    BY <2>1, <2>3, <2>4, <2>5, <2>6, <2>7, VisitReleases
<1>6. CASE ConsumerDestroy(s)
  <2>1. /\ UNCHANGED <<boot, arrays, early, loop>> /\ pc' = [pc EXCEPT ![s] = "producerDestroy"]
        /\ pc[s] = "consumerDestroy" /\ Destroyed(s) /\ Closing(s) = {"messageConsumer"}
    BY <1>6, ClosingProperties DEF ConsumerDestroy, StopStep
  <2>2. Before("producerDestroy") \subseteq Before("consumerDestroy") \cup {"messageConsumer"}
    BY DEF Before
  <2>. QED
    BY <1>2, <2>1, <2>2 DEF StopSteps
<1>7. CASE ProducerDestroy(s)
  <2>1. /\ UNCHANGED <<boot, arrays, early, loop>> /\ pc' = [pc EXCEPT ![s] = AfterProducer]
        /\ pc[s] = "producerDestroy" /\ Destroyed(s) /\ Closing(s) = {"messageProducer"}
    BY <1>7, ClosingProperties DEF ProducerDestroy, StopStep
  <2>2. Before("tokenHelperDestroy") \subseteq Before("producerDestroy") \cup {"messageProducer"}
    BY DEF Before
  <2>3. /\ Before("return") \subseteq Before("producerDestroy") \cup {"messageProducer", "tokenHelper"}
        /\ AfterProducer = "return" => "tokenHelper" \notin early
    BY <1>1, SkippedWasNotOpen DEF Before
  <2>. QED
    BY <1>2, <2>1, <2>2, <2>3, ShortCuts DEF StopSteps
<1>8. CASE TokenHelperDestroy(s)
  <2>1. /\ UNCHANGED <<boot, arrays, early, loop>> /\ pc' = [pc EXCEPT ![s] = "return"]
        /\ pc[s] = "tokenHelperDestroy" /\ Destroyed(s) /\ Closing(s) = {"tokenHelper"}
    BY <1>8, ClosingProperties DEF TokenHelperDestroy, StopStep
  <2>2. Before("return") \subseteq Before("tokenHelperDestroy") \cup {"tokenHelper"}
    BY DEF Before
  <2>. QED
    BY <1>2, <2>1, <2>2 DEF StopSteps
<1>9. CASE ProcessExit(s)
  <2>1. /\ UNCHANGED <<boot, arrays, early, loop, pc>> /\ pc[s] = "return"
        /\ conn' = CloseServer(conn)
    BY <1>9 DEF ProcessExit
  <2>2. Closing(s) = {} /\ OnlyCloses
    BY <1>1, <2>1, ClosingProperties DEF OnlyCloses, CloseServer, Core
  <2>3. pc' = [pc EXCEPT ![s] = "return"]
    BY <1>1, <2>1
  <2>. QED
    BY <1>2, <2>1, <2>2, <2>3 DEF StopSteps
<1>. QED
  BY <1>3, <1>4, <1>5, <1>6, <1>7, <1>8, <1>9 DEF Stop

(* Every step, and what a clean exit has released. *)
ExitInv == StartInv /\ ReleaseInv /\ CleanExitReleases

LEMMA ExitInitially == Init => ExitInv
<1>. SUFFICES ASSUME Init PROVE ExitInv
  OBVIOUS
<1>1. StartInv
  BY StartInitially
<1>2. ReleaseInv
  BY DEF Init, ReleaseInv, ReleasedBefore
<1>. QED
  BY <1>1, <1>2 DEF ExitInv, CleanExitReleases, Init

(* The last step closes the server too. *)
LEMMA ExitReleases ==
    ASSUME StartInv, ReleaseInv, NEW s \in Signal, ProcessExit(s)
    PROVE  CleanExitReleases'
<1>1. /\ early \subseteq Part /\ HadTheirTurn(early) /\ boot \in ToSet(StartSteps)
      /\ conn \in [Part -> {"off", "open", "closed"}]
      /\ ReleasedBefore("return")
  BY DEF StartInv, TypeOK, EarlyInv, ReleaseInv, ProcessExit
<1>2. UNCHANGED <<boot, arrays, early, pc, loop>> /\ conn' = CloseServer(conn)
  BY DEF ProcessExit, stopVars
<1>3. \A p \in Part : Closed(p) => Closed(p)'
  BY <1>1, <1>2 DEF Closed, Closing, CloseServer
<1>4. "expressServer" \in early => conn'["expressServer"] = "closed"
  BY <1>1, <1>2, ReachedSteps DEF HadTheirTurn, CloseServer
<1>5. \A p \in Part : p \in Before("return") \cup NobodyDestroys \cup {"expressServer"}
  BY DEF Part, Core, Before, NobodyDestroys
<1>6. Listed' = Listed
  BY <1>2 DEF Listed
<1>. QED
  BY <1>1, <1>2, <1>3, <1>4, <1>5, <1>6 DEF CleanExitReleases, ReleasedBefore, Closed

LEMMA ExitStep == ExitInv /\ [Next]_vars => ExitInv'
<1>. SUFFICES ASSUME ExitInv, [Next]_vars PROVE ExitInv'
  OBVIOUS
<1>. USE DEF startVars, stopVars
<1>1. StartInv /\ ReleaseInv /\ CleanExitReleases /\ StartInv' /\ TypeOK'
  BY StartStep DEF ExitInv, StartInv
<1>2. ASSUME UNCHANGED <<pc, loop, early>>, ArraysGrow,
             \A p \in early : conn'[p] = conn[p],
             \A o \in early \cap Oracle : o \in Listed' => o \in Listed,
             exit' # "clean"
      PROVE  ExitInv'
  BY <1>1, <1>2, UndisturbedReleases DEF ExitInv, CleanExitReleases
<1>3. CASE Start
  <2>1. exit' # "clean"
    BY <1>3 DEF Running, Start, LoggerInit, AuthorizationClientInit, TokenHelperInit, FinderInit,
          GetAllOracles, AdapterMongoConnect, AdapterInit, ProducerConnect, ConsumerConnect,
          StartAndWaitForRebalance, Listen, Connected
  <2>. QED
    BY <1>1, <1>2, <1>3, <2>1, StartIsUndisturbing
<1>4. CASE StartFails \/ StartTimesOut
  BY <1>2, <1>4 DEF StartFails, StartTimesOut, ArraysGrow, Listed
<1>5. ASSUME NEW o \in Oracle, AdminMongoConnect(o) \/ AdminAdds(o) \/ AdminRemoves(o)
      PROVE  ExitInv'
  <2>1. exit' # "clean"
    BY <1>5 DEF Running, AdminMongoConnect, AdminAdds, AdminRemoves, Connected
  <2>. QED
    BY <1>1, <1>2, <1>5, <2>1, AdminIsUndisturbing
<1>6. ASSUME NEW s \in Signal, _handle_int_and_term_signals(s) PROVE ExitInv'
  <2>1. exit' # "clean"
    BY <1>6 DEF _handle_int_and_term_signals, Running
  <2>. QED
    BY <1>1, <1>6, <2>1, SignalReleases DEF ExitInv, CleanExitReleases
<1>7. ASSUME NEW s \in Signal, Stop(s) PROVE ExitInv'
  <2>1. ReleaseInv'
    BY <1>1, <1>7, StopReleases
  <2>2. CASE ProcessExit(s)
    BY <1>1, <2>1, <2>2, ExitReleases DEF ExitInv
  <2>3. CASE ~ ProcessExit(s)
    <3>1. exit' # "clean"
      BY <1>7, <2>3 DEF Stop, ConsumerStop, FinderDestroy, AdapterDestroy, ConsumerDestroy,
            ProducerDestroy, TokenHelperDestroy, Visit, StopStep, Running
    <3>. QED
      BY <1>1, <2>1, <3>1 DEF ExitInv, CleanExitReleases
  <2>. QED
    BY <2>2, <2>3
<1>8. ASSUME NEW s \in Signal, StopFails(s) \/ ProcessAbort(s) PROVE ExitInv'
  BY <1>2, <1>8 DEF StopFails, ProcessAbort, ArraysGrow, Listed
<1>9. CASE UNCHANGED vars
  <2>1. ReleaseInv'
    BY <1>1, <1>9, UndisturbedReleases DEF vars, ArraysGrow, Listed
  <2>2. CleanExitReleases'
    BY <1>1, <1>9 DEF vars, CleanExitReleases, Listed, Closed, Closing
  <2>. QED
    BY <1>1, <2>1, <2>2 DEF ExitInv
<1>. QED
  BY <1>3, <1>4, <1>5, <1>6, <1>7, <1>8, <1>9 DEF Next

(***************************************************************************)
(* CleanExitReleases: however signals, starts and admins interleave, an exit  *)
(* that is clean has torn down, or another handler is tearing down, each part *)
(* that was open, and that stop can get at, when the first signal came: the   *)
(* finder, the token helper, producer, consumer, server, and the Mongo client *)
(* of each adapter that is still listed.  The logger, the authorization       *)
(* client and the Redis clients of adapters are nobody's to destroy.          *)
(***************************************************************************)
THEOREM ExitReleasesAll == Spec => []CleanExitReleases
<1>1. ExitInv => CleanExitReleases
  BY DEF ExitInv
<1>. QED
  BY ExitInitially, ExitStep, <1>1, PTL DEF Spec

-----------------------------------------------------------------------------
(* What is connected while batches are delivered. *)

(* As long as the consumer of a service that was up delivers, every handler  *)
(* is at its first await, before anything is torn down.                      *)
ConsumeInv ==
    wasUp /\ consuming =>
        /\ \A s \in Signal : pc[s] \in {"idle", "consumerStop"}
        /\ \A p \in early : conn[p] = "open"

LEMMA ConsumeStep ==
    StartInv /\ ConsumeInv /\ [Next]_vars => ConsumeInv'
<1>. SUFFICES ASSUME StartInv, ConsumeInv, [Next]_vars PROVE ConsumeInv'
  OBVIOUS
<1>. USE DEF startVars, stopVars
<1>1. /\ TypeOK /\ boot \in ToSet(StartSteps) /\ pc \in [Signal -> StopSteps]
      /\ wasUp => boot = "up"
  BY DEF StartInv, TypeOK, EarlyInv
<1>2. CASE Start
  <2>1. boot # "up"
    BY <1>2 DEF Start, LoggerInit, AuthorizationClientInit, TokenHelperInit, FinderInit,
          GetAllOracles, AdapterMongoConnect, AdapterInit, ProducerConnect, ConsumerConnect,
          StartAndWaitForRebalance, Listen, Connected
  <2>2. wasUp' = wasUp
    BY <1>2, StartIsUndisturbing
  <2>. QED
    BY <1>1, <2>1, <2>2 DEF ConsumeInv
<1>3. CASE StartFails \/ StartTimesOut
  BY <1>3 DEF StartFails, StartTimesOut, ConsumeInv
<1>4. ASSUME NEW o \in Oracle, AdminMongoConnect(o) \/ AdminAdds(o) \/ AdminRemoves(o)
      PROVE  ConsumeInv'
  BY <1>4, AdminIsUndisturbing DEF ConsumeInv
<1>5. ASSUME NEW s \in Signal, _handle_int_and_term_signals(s) PROVE ConsumeInv'
  <2>1. /\ pc' = [pc EXCEPT ![s] = FirstStop]
        /\ UNCHANGED <<boot, consuming, conn>>
        /\ \/ UNCHANGED <<early, wasUp>>
           \/ /\ \A t \in Signal : pc[t] = "idle"
              /\ early' = {p \in Core \cup Listed : conn[p] = "open"} /\ wasUp' = (boot = "up")
    BY <1>5 DEF _handle_int_and_term_signals
  <2>2. boot = "up" => FirstStop = "consumerStop"
    BY <1>1, ReachedSteps DEF FirstStop
  <2>. QED
    BY <1>1, <2>1, <2>2 DEF ConsumeInv
<1>6. ASSUME NEW s \in Signal, Stop(s) PROVE ConsumeInv'
  <2>1. CASE ConsumerStop(s)
    BY <2>1 DEF ConsumerStop, ConsumeInv
  <2>2. CASE ~ ConsumerStop(s)
    <3>1. pc[s] \notin {"idle", "consumerStop"} /\ UNCHANGED wasUp
      BY <1>6, <2>2 DEF Stop, FinderDestroy, AdapterDestroy, ConsumerDestroy, ProducerDestroy,
            TokenHelperDestroy, ProcessExit, Visit, StopStep
    <3>2. consuming' => consuming
      BY <1>6, <2>2 DEF Stop, FinderDestroy, AdapterDestroy, ConsumerDestroy, ProducerDestroy,
            TokenHelperDestroy, ProcessExit
    <3>. QED
      BY <3>1, <3>2 DEF ConsumeInv
  <2>. QED
    BY <2>1, <2>2
<1>7. ASSUME NEW s \in Signal, StopFails(s) \/ ProcessAbort(s) PROVE ConsumeInv'
  BY <1>7 DEF StopFails, ProcessAbort, ConsumeInv
<1>8. CASE UNCHANGED vars
  BY <1>8 DEF vars, ConsumeInv
<1>. QED
  BY <1>2, <1>3, <1>4, <1>5, <1>6, <1>7, <1>8 DEF Next

(***************************************************************************)
(* NothingPulledAway: while a service that was up when the first signal came  *)
(* delivers batches, its finder, its producer and the adapters that it had    *)
(* listed, with Mongo and Redis, are connected.                               *)
(***************************************************************************)
THEOREM DeliveryIsServed == Spec => []NothingPulledAway
<1>1. Init => ConsumeInv
  BY DEF Init, ConsumeInv
<1>2. StartInv /\ ConsumeInv => NothingPulledAway
  BY DEF StartInv, EarlyInv, ConsumeInv, NothingPulledAway
<1>. QED
  BY StartInitially, StartStep, ConsumeStep, <1>1, <1>2, PTL DEF Spec

=============================================================================

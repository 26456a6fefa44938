---------------------------- MODULE ThreadsProofs ----------------------------
(***************************************************************************)
(* What Threads guarantees for any number of NetWorkers, of lines and of   *)
(* calls.                                                                  *)
(***************************************************************************)
EXTENDS Threads, DataLemmas

(* What main has done so far, in terms of its place in StartSteps.         *)
MainsPlace ==
  /\ step <= (IF starting = Logger THEN 4 ELSE 3)
  /\ starting = NumWorkers + 1 => step = 0
  /\ logFile <=> starting > Logger \/ step >= 1
  /\ inited <=> starting > Logger
  /\ queueReady = {t \in CycleThreads :
                     t < starting \/ (t = starting /\ step >= (IF t = Logger THEN 2 ELSE 1))}
  /\ running = {t \in CycleThreads : t < starting \/ (t = starting /\ step >= 3)}
  /\ known = {t \in CycleThreads : t < starting \/ (t = starting /\ step >= 4)}

StartInv == TypeOK /\ MainsPlace

-----------------------------------------------------------------------------
LEMMA ThreadSets ==
  /\ Logger \in CycleThreads /\ Upstream \in CycleThreads /\ Upstream \in Workers
  /\ Workers \subseteq CycleThreads /\ CycleThreads \subseteq Everyone
  /\ CycleThreads \subseteq Nat /\ Main \in Everyone /\ Main \notin CycleThreads
BY NumWorkersAssumption
DEF Logger, Upstream, CycleThreads, Workers, Everyone, Main

(* The place of each step in StartSteps.                                   *)
LEMMA LoggersSteps ==
  /\ Len(StartSteps(Logger)) = 5
  /\ StartSteps(Logger)[1] = "open" /\ StartSteps(Logger)[2] = "init"
  /\ StartSteps(Logger)[3] = "create" /\ StartSteps(Logger)[4] = "identify"
  /\ StartSteps(Logger)[5] = "inited"
BY DEF StartSteps

LEMMA WorkersSteps ==
  ASSUME NEW t, t # Logger
  PROVE  /\ Len(StartSteps(t)) = 4
         /\ StartSteps(t)[1] = "init" /\ StartSteps(t)[2] = "listen"
         /\ StartSteps(t)[3] = "create" /\ StartSteps(t)[4] = "identify"
BY DEF StartSteps

LEMMA PlaceOfStep ==
  ASSUME StartInv, NEW what, MainDoes(what)
  PROVE  /\ starting \in CycleThreads
         /\ \/ what = "open" /\ starting = Logger /\ step = 0
            \/ what = "init" /\ step = (IF starting = Logger THEN 1 ELSE 0)
            \/ what = "listen" /\ starting # Logger /\ step = 1
            \/ what = "create" /\ step = 2
            \/ what = "identify" /\ step = 3
            \/ what = "inited" /\ starting = Logger /\ step = 4
         /\ IF step = (IF starting = Logger THEN 4 ELSE 3)
              THEN starting' = starting + 1 /\ step' = 0
              ELSE starting' = starting /\ step' = step + 1
<1>1. /\ starting \in CycleThreads
      /\ step \in 0 .. 5 /\ step <= (IF starting = Logger THEN 4 ELSE 3)
  BY DEF StartInv, TypeOK, MainsPlace, MainDoes
<1>2. /\ StartSteps(starting)[step + 1] = what
      /\ IF step + 1 = Len(StartSteps(starting))
           THEN starting' = starting + 1 /\ step' = 0
           ELSE starting' = starting /\ step' = step + 1
  BY DEF MainDoes
<1>3. CASE starting = Logger
  <2>1. Len(StartSteps(starting)) = 5
    BY <1>3, LoggersSteps
  <2>2. /\ step = 0 => what = "open"
        /\ step = 1 => what = "init"
        /\ step = 2 => what = "create"
        /\ step = 3 => what = "identify"
        /\ step = 4 => what = "inited"
    BY <1>2, <1>3, LoggersSteps
  <2>3. step \in 0 .. 4
    BY <1>1, <1>3
  <2>4. QED
    BY <1>1, <1>2, <1>3, <2>1, <2>2, <2>3
<1>4. CASE starting # Logger
  <2>1. Len(StartSteps(starting)) = 4
    BY <1>4, WorkersSteps, Zenon
  <2>2. /\ StartSteps(starting)[1] = "init" /\ StartSteps(starting)[2] = "listen"
        /\ StartSteps(starting)[3] = "create" /\ StartSteps(starting)[4] = "identify"
    BY <1>4, WorkersSteps, Zenon
  <2>3. /\ step = 0 => what = "init"
        /\ step = 1 => what = "listen"
        /\ step = 2 => what = "create"
        /\ step = 3 => what = "identify"
    BY <1>2, <2>2
  <2>4. step \in 0 .. 3
    BY <1>1, <1>4
  <2>5. QED
    BY <1>1, <1>2, <1>4, <2>1, <2>3, <2>4
<1>5. QED
  BY <1>3, <1>4

-----------------------------------------------------------------------------
(* What each step of main does to the start-up state.                      *)
LEMMA MainStep ==
  ASSUME StartInv, InitThreads
  PROVE  /\ StartInv'
         /\ failed' = failed
         /\ UNCHANGED <<queue, logVars, connectVars>>
<1> USE DEF StartInv, MainsPlace
<1>0. /\ step \in 0 .. 5 /\ starting \in 0 .. NumWorkers + 1
      /\ CycleThreads = 0 .. NumWorkers /\ Logger = 0 /\ NumWorkers \in Nat \ {0}
  BY NumWorkersAssumption DEF TypeOK, CycleThreads, Logger
<1>1. CASE OpenLogFile
  <2>1. /\ starting \in CycleThreads /\ starting = Logger /\ step = 0
        /\ starting' = starting /\ step' = step + 1
    BY <1>0, <1>1, PlaceOfStep, MainDoes("open") DEF OpenLogFile
  <2>2. QED
    BY <1>0, <1>1, <2>1 DEF OpenLogFile, MainDoes, TypeOK, logVars, connectVars
<1>2. CASE InitQueue
  <2>1. /\ starting \in CycleThreads /\ step = (IF starting = Logger THEN 1 ELSE 0)
        /\ starting' = starting /\ step' = step + 1
    BY <1>0, <1>2, PlaceOfStep, MainDoes("init") DEF InitQueue
  <2>2. failed' = failed
    BY <1>0, <1>2, <2>1 DEF InitQueue, Alone
  <2>3. QED
    BY <1>0, <1>2, <2>1, <2>2 DEF InitQueue, MainDoes, TypeOK, logVars, connectVars
<1>3. CASE Listen
  <2>1. /\ starting \in CycleThreads /\ starting # Logger /\ step = 1
        /\ starting' = starting /\ step' = step + 1
    BY <1>0, <1>3, PlaceOfStep, MainDoes("listen") DEF Listen
  <2>2. failed' = failed
    BY <1>0, <1>3, <2>1 DEF Listen, Alone
  <2>3. QED
    BY <1>0, <1>3, <2>1, <2>2 DEF Listen, MainDoes, TypeOK, logVars, connectVars
<1>4. CASE CreateThread
  <2>1. /\ starting \in CycleThreads /\ step = 2
        /\ starting' = starting /\ step' = step + 1
    BY <1>0, <1>4, PlaceOfStep, MainDoes("create") DEF CreateThread
  <2>2. QED
    BY <1>0, <1>4, <2>1 DEF CreateThread, MainDoes, TypeOK, logVars, connectVars
<1>5. CASE SetThreadId
  <2>1. /\ starting \in CycleThreads /\ step = 3
        /\ IF starting = Logger THEN starting' = starting /\ step' = 4
                                 ELSE starting' = starting + 1 /\ step' = 0
    BY <1>0, <1>5, PlaceOfStep, MainDoes("identify") DEF SetThreadId
  <2>2. /\ queueReady' = queueReady /\ running' = running /\ known' = known \cup {starting}
        /\ logFile' = logFile /\ inited' = inited /\ failed' = failed
        /\ UNCHANGED <<queue, logVars, connectVars>>
    BY <1>5 DEF SetThreadId, MainDoes
  <2>3. CASE starting = Logger
    <3>1. MainsPlace'
      BY <1>0, <2>1, <2>2, <2>3
    <3>2. TypeOK'
      BY <1>0, <2>1, <2>2, <2>3, <3>1 DEF TypeOK, logVars, connectVars
    <3>3. QED
      BY <2>2, <3>1, <3>2
  <2>4. CASE starting # Logger
    <3>1. MainsPlace'
      BY <1>0, <2>1, <2>2, <2>4
    <3>2. TypeOK'
      BY <1>0, <2>1, <2>2, <2>4, <3>1 DEF TypeOK, logVars, connectVars
    <3>3. QED
      BY <2>2, <3>1, <3>2
  <2>5. QED
    BY <2>3, <2>4
<1>6. CASE SetInited
  <2>1. /\ starting \in CycleThreads /\ starting = Logger /\ step = 4
        /\ starting' = starting + 1 /\ step' = 0
    BY <1>0, <1>6, PlaceOfStep, MainDoes("inited") DEF SetInited
  <2>2. QED
    BY <1>0, <1>6, <2>1 DEF SetInited, MainDoes, TypeOK, logVars, connectVars
<1>7. QED
  BY <1>1, <1>2, <1>3, <1>4, <1>5, <1>6 DEF InitThreads

-----------------------------------------------------------------------------
(* The inductive invariant: no thread finds what main has not yet made.    *)
SafeInv ==
  /\ StartInv
  /\ StartUpIsSafe
  /\ WorkersLoseNoLine
  /\ LoggerWritesItsOwn

LEMMA NewItemType ==
  ASSUME NEW t \in Everyone, NEW owner, NEW n \in Nat
  PROVE  /\ NewItem(t, owner, n) \in Item
         /\ NewItem(t, owner, n).by = t
         /\ NewItem(t, owner, n).index = n + 1
         /\ NewItem(t, owner, n).early <=> t = owner /\ owner \notin known
<1>1. (t = owner /\ owner \notin known) \in BOOLEAN
  BY Zenon
<1>2. /\ NewItem(t, owner, n).by = t
      /\ NewItem(t, owner, n).index = n + 1
      /\ NewItem(t, owner, n).early <=> t = owner /\ owner \notin known
  BY Zenon DEF NewItem
<1>3. n + 1 \in Nat \ {0}
  OBVIOUS
<1>4. NewItem(t, owner, n) \in Item
  BY <1>1, <1>3, Zenon DEF NewItem, Item
<1>5. QED
  BY <1>2, <1>4, Zenon

(* What the others need to know of main's place.                           *)
LEMMA WhatIsReady ==
  ASSUME StartInv
  PROVE  /\ inited => Logger \in queueReady /\ Logger \in known
         /\ Logger \in running => logFile
         /\ ~inited => running \subseteq {Logger}
         /\ known \subseteq running
         /\ \A t \in Workers : t \in running => Upstream \in queueReady
<1>1. /\ step \in 0 .. 5 /\ starting \in 0 .. NumWorkers + 1
      /\ CycleThreads = 0 .. NumWorkers /\ Workers = 1 .. NumWorkers
      /\ Logger = 0 /\ Upstream = 1 /\ NumWorkers \in Nat \ {0}
  BY NumWorkersAssumption DEF StartInv, TypeOK, CycleThreads, Logger, Workers, Upstream
<1>2. QED
  BY <1>1 DEF StartInv, MainsPlace

(* A task that is sent to a queue that is ready is queued at its end.      *)
LEMMA SendStep ==
  ASSUME TypeOK, NEW owner \in queueReady, NEW task \in Item, SendTask(owner, task)
  PROVE  /\ failed' = failed
         /\ queue' = [queue EXCEPT ![owner] = Append(@, task)]
         /\ queue' \in [CycleThreads -> Seq(Item)]
         /\ queue'[owner] = Append(queue[owner], task)
         /\ \A t \in CycleThreads \ {owner} : queue'[t] = queue[t]
<1>1. queue \in [CycleThreads -> Seq(Item)] /\ owner \in CycleThreads
  BY DEF TypeOK
<1>2. queue' = [queue EXCEPT ![owner] = Append(@, task)] /\ failed' = failed
  BY DEF SendTask
<1>3. Append(queue[owner], task) \in Seq(Item)
  BY <1>1, AppendProperties
<1>4. QED
  BY <1>1, <1>2, <1>3

(* A task that is run leaves its queue.                                    *)
LEMMA TakeStep ==
  ASSUME TypeOK, NEW owner \in CycleThreads, queue[owner] # <<>>,
         queue' = [queue EXCEPT ![owner] = Tail(@)]
  PROVE  /\ queue' \in [CycleThreads -> Seq(Item)]
         /\ queue'[owner] = Tail(queue[owner])
         /\ Head(queue[owner]) \in Item
         /\ \A t \in CycleThreads \ {owner} : queue'[t] = queue[t]
<1>1. queue \in [CycleThreads -> Seq(Item)] /\ queue[owner] \in Seq(Item)
  BY DEF TypeOK
<1>2. Tail(queue[owner]) \in Seq(Item) /\ Head(queue[owner]) \in Item
  BY <1>1, HeadTailProperties
<1>3. QED
  BY <1>1, <1>2

-----------------------------------------------------------------------------
(* One lemma per kind of action.                                           *)
LEMMA StartTypes ==
  /\ \A t \in Everyone : TypeOK => logged[t] \in Nat /\ calls[t] \in Nat
  /\ TypeOK => queue[Logger] \in Seq(Item) /\ queue[Upstream] \in Seq(Item)
BY ThreadSets DEF TypeOK

(* The bounds on lines and calls play no part.                             *)
LEMMA CountsGrow ==
  ASSUME TypeOK, NEW t \in Everyone
  PROVE  /\ Accepts(t) => logged' \in [Everyone -> Nat] /\ inited /\ Runs(t)
         /\ Accepts(t) => logged' = [logged EXCEPT ![t] = @ + 1]
         /\ Calls(t) => calls' \in [Everyone -> Nat] /\ t \in running
         /\ Calls(t) => calls' = [calls EXCEPT ![t] = @ + 1]
<1>1. Accepts(t) => inited /\ Runs(t) /\ logged' = [logged EXCEPT ![t] = @ + 1]
  BY Zenon DEF Accepts
<1>2. Calls(t) => t \in running /\ calls' = [calls EXCEPT ![t] = @ + 1]
  BY Zenon DEF Calls
<1>3. logged \in [Everyone -> Nat] /\ calls \in [Everyone -> Nat]
  BY DEF TypeOK
<1>4. QED
  BY <1>1, <1>2, <1>3

LEMMA MainKeepsSafe ==
  ASSUME SafeInv, InitThreads
  PROVE  SafeInv'
BY MainStep
DEF SafeInv, StartUpIsSafe, Works, WorkersLoseNoLine, LoggerWritesItsOwn, logVars, connectVars

LEMMA DropKeepsSafe ==
  ASSUME SafeInv, NEW t \in Everyone, LogIsDropped(t)
  PROVE  SafeInv'
<1> USE DEF SafeInv, LogIsDropped
<1>1. t \in {Main, Logger}
  BY WhatIsReady DEF Runs
<1>2. /\ StartUpIsSafe' /\ WorkersLoseNoLine' /\ LoggerWritesItsOwn'
  BY <1>1 DEF StartUpIsSafe, Works, WorkersLoseNoLine, LoggerWritesItsOwn
<1>3. StartInv'
  BY DEF StartInv, MainsPlace, TypeOK, mainVars, connectVars
<1>4. QED
  BY <1>2, <1>3

LEMMA LogHereKeepsSafe ==
  ASSUME SafeInv, NEW t \in Everyone, LogHere(t)
  PROVE  /\ SafeInv'
         /\ t = Logger
         /\ written' = Append(written, NewItem(t, Logger, logged[t]))
<1> USE DEF SafeInv, LogHere
<1>1. t = Logger /\ logFile
  BY WhatIsReady DEF OnThread
<1>2. /\ failed' = failed
      /\ written' = Append(written, NewItem(t, Logger, logged[t]))
  BY <1>1 DEF WriteLine
<1>3. written' \in Seq(Item)
  BY <1>2, StartTypes, NewItemType, AppendProperties DEF StartInv, TypeOK
<1>4. logged' \in [Everyone -> Nat]
  BY CountsGrow DEF StartInv
<1>5. StartInv'
  BY <1>2, <1>3, <1>4 DEF StartInv, MainsPlace, TypeOK, mainVars, connectVars
<1>6. StartUpIsSafe' /\ WorkersLoseNoLine' /\ LoggerWritesItsOwn'
  BY <1>2 DEF StartUpIsSafe, Works, WorkersLoseNoLine, LoggerWritesItsOwn
<1>7. QED
  BY <1>1, <1>2, <1>5, <1>6

LEMMA LogFromAfarKeepsSafe ==
  ASSUME SafeInv, NEW t \in Everyone, LogFromAfar(t)
  PROVE  /\ SafeInv'
         /\ t # Logger
         /\ queue'[Logger] = Append(queue[Logger], NewItem(t, Logger, logged[t]))
         /\ queue'[Upstream] = queue[Upstream]
<1> USE DEF SafeInv, LogFromAfar
<1> DEFINE line == NewItem(t, Logger, logged[t])
<1>1. t # Logger /\ Logger \in queueReady
  BY WhatIsReady, CountsGrow DEF OnThread, StartInv
<1>2. line \in Item /\ line.by = t
  BY StartTypes, NewItemType DEF StartInv
<1>3. SendTask(Logger, line)
  OBVIOUS
<1> HIDE DEF line
<1>4. /\ failed' = failed
      /\ queue' \in [CycleThreads -> Seq(Item)]
      /\ queue'[Logger] = Append(queue[Logger], line)
      /\ queue'[Upstream] = queue[Upstream]
  BY <1>1, <1>2, <1>3, SendStep, ThreadSets DEF StartInv, Upstream, Logger
<1>5. logged' \in [Everyone -> Nat]
  BY CountsGrow DEF StartInv
<1>6. StartInv'
  BY <1>4, <1>5 DEF StartInv, MainsPlace, TypeOK, mainVars, connectVars
<1>7. LoggerWritesItsOwn'
  <2>1. /\ queue[Logger] \in Seq(Item)
        /\ \A i \in 1 .. Len(queue[Logger]) : queue[Logger][i].by # Logger
    BY StartTypes DEF StartInv, LoggerWritesItsOwn
  <2>2. /\ Len(queue'[Logger]) = Len(queue[Logger]) + 1
        /\ \A i \in 1 .. Len(queue[Logger]) : queue'[Logger][i] = queue[Logger][i]
        /\ queue'[Logger][Len(queue[Logger]) + 1] = line
    BY <1>2, <1>4, <2>1, AppendProperties
  <2>3. Len(queue[Logger]) \in Nat
    BY <2>1, LenProperties
  <2>4. QED
    BY <1>1, <1>2, <2>1, <2>2, <2>3 DEF LoggerWritesItsOwn
<1>8. StartUpIsSafe' /\ WorkersLoseNoLine'
  BY <1>4 DEF StartUpIsSafe, Works, WorkersLoseNoLine
<1>9. QED
  BY <1>1, <1>4, <1>6, <1>7, <1>8 DEF line

LEMMA RunLineKeepsSafe ==
  ASSUME SafeInv, RunLine
  PROVE  /\ SafeInv'
         /\ written' = Append(written, Head(queue[Logger]))
         /\ queue'[Logger] = Tail(queue[Logger])
         /\ queue'[Upstream] = queue[Upstream]
<1> USE DEF SafeInv, RunLine
<1>1. /\ failed' = failed
      /\ written' = Append(written, Head(queue[Logger]))
  BY WhatIsReady DEF WriteLine
<1>2. /\ queue' \in [CycleThreads -> Seq(Item)]
      /\ queue'[Logger] = Tail(queue[Logger])
      /\ queue'[Upstream] = queue[Upstream]
      /\ Head(queue[Logger]) \in Item
  <2>1. /\ queue[Logger] # <<>> /\ Logger # Upstream
        /\ queue' = [queue EXCEPT ![Logger] = Tail(@)]
    BY DEF Logger, Upstream
  <2>2. QED
    BY <2>1, TakeStep, ThreadSets DEF StartInv
<1>3. written' \in Seq(Item)
  BY <1>1, <1>2, AppendProperties DEF StartInv, TypeOK
<1>4. StartInv'
  BY <1>1, <1>2, <1>3 DEF StartInv, MainsPlace, TypeOK, mainVars, connectVars
<1>5. LoggerWritesItsOwn'
  <2>1. /\ queue[Logger] \in Seq(Item)
        /\ \A i \in 1 .. Len(queue[Logger]) : queue[Logger][i].by # Logger
    BY StartTypes DEF StartInv, LoggerWritesItsOwn
  <2>2. /\ Len(queue'[Logger]) = Len(queue[Logger]) - 1
        /\ \A i \in 1 .. Len(queue'[Logger]) : queue'[Logger][i] = queue[Logger][i + 1]
    BY <1>2, <2>1, HeadTailProperties
  <2>3. Len(queue[Logger]) \in Nat
    BY <2>1, LenProperties
  <2>4. QED
    BY <2>1, <2>2, <2>3 DEF LoggerWritesItsOwn
<1>6. StartUpIsSafe' /\ WorkersLoseNoLine'
  BY <1>1 DEF StartUpIsSafe, Works, WorkersLoseNoLine
<1>7. QED
  BY <1>1, <1>2, <1>4, <1>5, <1>6

LEMMA ConnectHereKeepsSafe ==
  ASSUME SafeInv, NEW t \in Workers, ConnectHere(t)
  PROVE  SafeInv'
<1> USE DEF SafeInv, ConnectHere
<1>1. calls' \in [Everyone -> Nat] /\ calls[t] \in Nat /\ t \in Everyone
  BY StartTypes, ThreadSets, CountsGrow DEF StartInv
<1>2. connects' \in Seq(Item)
  BY <1>1, NewItemType, AppendProperties DEF StartInv, TypeOK
<1>3. StartInv'
  BY <1>1, <1>2 DEF StartInv, MainsPlace, TypeOK, mainVars, logVars
<1>4. QED
  BY <1>3 DEF StartUpIsSafe, Works, WorkersLoseNoLine, LoggerWritesItsOwn, logVars

LEMMA ConnectFromAfarKeepsSafe ==
  ASSUME SafeInv, NEW t \in Workers, ConnectFromAfar(t)
  PROVE  /\ SafeInv'
         /\ queue'[Upstream] = Append(queue[Upstream], NewItem(t, Upstream, calls[t]))
         /\ queue'[Logger] = queue[Logger]
<1> USE DEF SafeInv, ConnectFromAfar
<1> DEFINE request == NewItem(t, Upstream, calls[t])
<1>1. Upstream \in queueReady
  BY WhatIsReady, CountsGrow, ThreadSets DEF StartInv
<1>2. /\ calls' \in [Everyone -> Nat]
      /\ request \in Item
  BY StartTypes, ThreadSets, NewItemType, CountsGrow DEF StartInv
<1>3. SendTask(Upstream, request)
  OBVIOUS
<1> HIDE DEF request
<1>4. /\ failed' = failed
      /\ queue' \in [CycleThreads -> Seq(Item)]
      /\ queue'[Upstream] = Append(queue[Upstream], request)
      /\ queue'[Logger] = queue[Logger]
  BY <1>1, <1>2, <1>3, SendStep, ThreadSets DEF StartInv, Upstream, Logger
<1>5. StartInv'
  BY <1>2, <1>4 DEF StartInv, MainsPlace, TypeOK, mainVars, logVars
<1>6. StartUpIsSafe' /\ WorkersLoseNoLine' /\ LoggerWritesItsOwn'
  BY <1>4 DEF StartUpIsSafe, Works, WorkersLoseNoLine, LoggerWritesItsOwn, logVars
<1>7. QED
  BY <1>4, <1>5, <1>6 DEF request

LEMMA RunConnectKeepsSafe ==
  ASSUME SafeInv, RunConnect
  PROVE  /\ SafeInv'
         /\ queue'[Upstream] = Tail(queue[Upstream])
         /\ queue'[Logger] = queue[Logger]
<1> USE DEF SafeInv, RunConnect
<1>1. /\ queue' \in [CycleThreads -> Seq(Item)]
      /\ queue'[Upstream] = Tail(queue[Upstream])
      /\ queue'[Logger] = queue[Logger]
      /\ Head(queue[Upstream]) \in Item
  <2>1. /\ queue[Upstream] # <<>> /\ Logger # Upstream
        /\ queue' = [queue EXCEPT ![Upstream] = Tail(@)]
    BY DEF Logger, Upstream
  <2>2. QED
    BY <2>1, TakeStep, ThreadSets DEF StartInv
<1>2. connects' \in Seq(Item)
  BY <1>1, AppendProperties DEF StartInv, TypeOK
<1>3. StartInv'
  BY <1>1, <1>2 DEF StartInv, MainsPlace, TypeOK, mainVars, logVars
<1>4. StartUpIsSafe' /\ WorkersLoseNoLine' /\ LoggerWritesItsOwn'
  BY <1>1 DEF StartUpIsSafe, Works, WorkersLoseNoLine, LoggerWritesItsOwn, logVars
<1>5. QED
  BY <1>1, <1>3, <1>4

LEMMA SafeInit == Init => SafeInv
BY NumWorkersAssumption
DEF Init, SafeInv, StartInv, TypeOK, MainsPlace, StartUpIsSafe, Works, WorkersLoseNoLine,
    LoggerWritesItsOwn, CycleThreads, Logger, Failures

LEMMA SafeStep == SafeInv /\ [Next]_vars => SafeInv'
<1> SUFFICES ASSUME SafeInv, [Next]_vars
             PROVE  SafeInv'
  OBVIOUS
<1>1. CASE InitThreads
  BY <1>1, MainKeepsSafe
<1>2. ASSUME NEW t \in Everyone, Log(t)
      PROVE  SafeInv'
  BY <1>2, DropKeepsSafe, LogHereKeepsSafe, LogFromAfarKeepsSafe DEF Log
<1>3. ASSUME NEW t \in Workers, ConnectUpstream(t)
      PROVE  SafeInv'
  BY <1>3, ConnectHereKeepsSafe, ConnectFromAfarKeepsSafe DEF ConnectUpstream
<1>4. CASE RunLine
  BY <1>4, RunLineKeepsSafe
<1>5. CASE RunConnect
  BY <1>5, RunConnectKeepsSafe
<1>6. CASE UNCHANGED vars
  BY <1>6 DEF vars, mainVars, logVars, connectVars, SafeInv, StartInv, TypeOK, MainsPlace,
              StartUpIsSafe, Works, WorkersLoseNoLine, LoggerWritesItsOwn
<1>7. QED
  BY <1>1, <1>2, <1>3, <1>4, <1>5, <1>6 DEF Next

LEMMA SafeInvariant == SafeSpec => []SafeInv
BY SafeInit, SafeStep, PTL DEF SafeSpec

(* Every variable of the threads keeps its type.                           *)
THEOREM TypeCorrect == SafeSpec => []TypeOK
BY SafeInvariant, PTL DEF SafeInv, StartInv

(* With any number of NetWorkers, no task is sent to a queue without its   *)
(* eventfd, no line is written to no file, and main uses no EventCycle     *)
(* whose loop is running.                                                  *)
THEOREM StartUpIsAlwaysSafe == SafeSpec => []StartUpIsSafe
BY SafeInvariant, PTL DEF SafeInv

(* No NetWorker ever finds the Logger not yet inited.                      *)
THEOREM WorkersNeverLoseLines == SafeSpec => []WorkersLoseNoLine
BY SafeInvariant, PTL DEF SafeInv

(* The Logger never sends itself a line, although it may log before main   *)
(* has set its threadId: those lines are dropped.                          *)
THEOREM LoggerNeverWakesItself == SafeSpec => []LoggerWritesItsOwn
BY SafeInvariant, PTL DEF SafeInv

-----------------------------------------------------------------------------
(* Order. Before: how two items of one thread may stand in a history.      *)
Before(x, y) ==
  \/ x.index < y.index
  \/ y.early /\ ~x.early /\ x.index > y.index

(* A history holds what count says each thread has asked for.              *)
Numbered(s, count) ==
  /\ \A i \in 1 .. Len(s) : s[i].index <= count[s[i].by]
  /\ \A i, j \in 1 .. Len(s) : i < j /\ s[i].by = s[j].by => Before(s[i], s[j])
  /\ \A t \in Everyone : \A n \in 1 .. count[t] :
       \E i \in 1 .. Len(s) : s[i].by = t /\ s[i].index = n

(* No thread logs before it knows its id; Upstream sends itself no request  *)
(* afterwards.                                                             *)
Late == {x \in Item : ~x.early}
Waiting == {x \in Item : x.by = Upstream => x.early}

OrderInv ==
  /\ SafeInv
  /\ written \in Seq(Late) /\ queue[Logger] \in Seq(Late)
  /\ Numbered(lines, logged)
  /\ queue[Upstream] \in Seq(Waiting)
  /\ Numbered(requests, calls)

(* Numbers keep their order when one is left out.                          *)
LEMMA WithoutOne ==
  ASSUME NEW i \in Nat, NEW j \in Nat, NEW k \in Nat, i < j, i # k + 1, j # k + 1
  PROVE  (IF i <= k THEN i ELSE i - 1) < (IF j <= k THEN j ELSE j - 1)
OBVIOUS

(* A thread's next item may get in anywhere, if behind it there are only   *)
(* early items of that thread.                                             *)
LEMMA NextIsNumbered ==
  ASSUME NEW r \in Seq(Item), NEW q \in Seq(Item), NEW x \in Item, NEW k \in 0 .. Len(r),
         NEW count \in [Everyone -> Nat], Numbered(r, count), x.index = count[x.by] + 1,
         Len(q) = Len(r) + 1,
         \A i \in 1 .. k : q[i] = r[i],
         q[k + 1] = x,
         \A i \in k + 1 .. Len(r) : q[i + 1] = r[i],
         \A i \in k + 1 .. Len(r) : r[i].by = x.by => r[i].early /\ ~x.early
  PROVE  Numbered(q, [count EXCEPT ![x.by] = @ + 1])
<1> DEFINE more == [count EXCEPT ![x.by] = @ + 1]
           Old(i) == IF i <= k THEN i ELSE i - 1
<1>1. /\ Len(r) \in Nat /\ Len(q) \in Nat /\ k \in Nat /\ x.by \in Everyone
      /\ \A i \in 1 .. Len(r) : r[i].by \in Everyone /\ r[i].index \in Nat
  <2>1. \A y \in Item : y.by \in Everyone /\ y.index \in Nat
    BY DEF Item
  <2>2. \A i \in 1 .. Len(r) : r[i] \in Item
    BY ElementOfSeq
  <2>3. QED
    BY <2>1, <2>2, LenProperties
<1>2. /\ more \in [Everyone -> Nat] /\ more[x.by] = count[x.by] + 1
      /\ \A t \in Everyone : t # x.by => more[t] = count[t]
      /\ \A t \in Everyone : count[t] \in Nat /\ count[t] <= more[t]
  BY <1>1
<1> HIDE DEF more
<1>3. \A i \in 1 .. Len(q) : i # k + 1 => Old(i) \in 1 .. Len(r) /\ q[i] = r[Old(i)]
  <2> SUFFICES ASSUME NEW i \in 1 .. Len(q), i # k + 1
               PROVE  Old(i) \in 1 .. Len(r) /\ q[i] = r[Old(i)]
    OBVIOUS
  <2>1. CASE i <= k
    BY <1>1, <2>1
  <2>2. CASE i > k
    <3>1. i - 1 \in k + 1 .. Len(r) /\ (i - 1) + 1 = i
      BY <1>1, <2>2
    <3>2. q[(i - 1) + 1] = r[i - 1]
      BY <3>1
    <3>3. QED
      BY <1>1, <2>2, <3>1, <3>2
  <2>3. QED
    BY <1>1, <2>1, <2>2
<1>4. ASSUME NEW i \in 1 .. Len(q)
      PROVE  q[i].index <= more[q[i].by]
  <2>1. CASE i = k + 1
    BY <1>1, <1>2, <2>1 DEF Item
  <2>2. CASE i # k + 1
    <3>1. r[Old(i)].index <= count[r[Old(i)].by]
      BY <1>3, <2>2 DEF Numbered
    <3>2. QED
      BY <1>1, <1>2, <1>3, <2>2, <3>1
  <2>3. QED
    BY <2>1, <2>2
<1>5. ASSUME NEW i \in 1 .. Len(q), NEW j \in 1 .. Len(q), i < j, q[i].by = q[j].by
      PROVE  Before(q[i], q[j])
  <2>1. CASE j = k + 1
    <3>1. q[i] = r[Old(i)] /\ Old(i) \in 1 .. Len(r)
      BY <1>1, <1>3, <1>5, <2>1
    <3>2. r[Old(i)].index <= count[x.by]
      BY <1>5, <2>1, <3>1 DEF Numbered
    <3>3. q[i].index < q[j].index
      BY <1>1, <1>2, <2>1, <3>1, <3>2
    <3>4. QED
      BY <3>3 DEF Before
  <2>2. CASE i = k + 1
    <3>1. PICK o \in k + 1 .. Len(r) : q[j] = r[o]
      BY <1>1, <1>3, <1>5, <2>2
    <3>2. o \in 1 .. Len(r) /\ r[o].by = x.by
      BY <1>1, <1>5, <2>2, <3>1
    <3>3. r[o].index <= count[x.by]
      BY <3>2 DEF Numbered
    <3>4. x.index > q[j].index
      BY <1>1, <1>2, <3>1, <3>2, <3>3
    <3>5. r[o].early /\ ~x.early
      BY <3>1, <3>2
    <3>6. QED
      BY <2>2, <3>1, <3>4, <3>5 DEF Before
  <2>3. CASE i # k + 1 /\ j # k + 1
    <3>1. PICK o \in 1 .. Len(r), p \in 1 .. Len(r) : o < p /\ q[i] = r[o] /\ q[j] = r[p]
      <4>1. /\ q[i] = r[Old(i)] /\ q[j] = r[Old(j)]
            /\ Old(i) \in 1 .. Len(r) /\ Old(j) \in 1 .. Len(r)
        BY <1>3, <2>3
      <4>2. Old(i) < Old(j)
        <5>1. i \in Nat /\ j \in Nat /\ k \in Nat
          BY <1>1
        <5>2. QED
          BY <1>5, <2>3, <5>1, WithoutOne
      <4> HIDE DEF Old
      <4>3. QED
        BY <4>1, <4>2
    <3>2. r[o].by = r[p].by
      BY <1>5, <3>1
    <3>3. QED
      BY <3>1, <3>2 DEF Numbered
  <2>4. QED
    BY <2>1, <2>2, <2>3
<1>6. ASSUME NEW t \in Everyone, NEW n \in 1 .. more[t]
      PROVE  \E i \in 1 .. Len(q) : q[i].by = t /\ q[i].index = n
  <2>1. CASE t = x.by /\ n = count[t] + 1
    <3>1. k + 1 \in 1 .. Len(q) /\ q[k + 1].by = t /\ q[k + 1].index = n
      BY <1>1, <2>1
    <3>2. QED
      BY <3>1
  <2>2. CASE ~(t = x.by /\ n = count[t] + 1)
    <3>1. n \in 1 .. count[t]
      BY <1>2, <2>2
    <3>2. PICK o \in 1 .. Len(r) : r[o].by = t /\ r[o].index = n
      BY <3>1 DEF Numbered
    <3>3. CASE o <= k
      <4>1. o \in 1 .. k /\ o \in 1 .. Len(q)
        BY <1>1, <3>3
      <4>2. QED
        BY <3>2, <4>1
    <3>4. CASE o > k
      <4>1. o \in k + 1 .. Len(r) /\ o + 1 \in 1 .. Len(q)
        BY <1>1, <3>4
      <4>2. QED
        BY <3>2, <4>1
    <3>5. QED
      BY <1>1, <3>3, <3>4
  <2>3. QED
    BY <2>1, <2>2
<1>7. QED
  BY <1>4, <1>5, <1>6 DEF Numbered, more

(* What a thread asks for next, appended to a history or put before queue. *)
LEMMA DoneIsNumbered ==
  ASSUME NEW done \in Seq(Item), NEW queued \in Seq(Item), NEW x \in Item,
         NEW count \in [Everyone -> Nat], Numbered(done \o queued, count),
         x.index = count[x.by] + 1,
         \A i \in 1 .. Len(queued) : queued[i].by = x.by => queued[i].early /\ ~x.early
  PROVE  Numbered(Append(done, x) \o queued, [count EXCEPT ![x.by] = @ + 1])
<1> DEFINE r == done \o queued
           q == Append(done, x) \o queued
<1>1. /\ r \in Seq(Item) /\ q \in Seq(Item)
      /\ Len(done) \in 0 .. Len(r)
      /\ Len(q) = Len(r) + 1
      /\ \A i \in 1 .. Len(done) : q[i] = r[i]
      /\ q[Len(done) + 1] = x
      /\ \A i \in Len(done) + 1 .. Len(r) : q[i + 1] = r[i]
  BY DoneAtOnce
<1>2. \A i \in Len(done) + 1 .. Len(r) : r[i].by = x.by => r[i].early /\ ~x.early
  <2>1. /\ Len(r) = Len(done) + Len(queued)
        /\ \A i \in 1 .. Len(done) + Len(queued) :
             r[i] = IF i <= Len(done) THEN done[i] ELSE queued[i - Len(done)]
    BY ConcatProperties, Zenon
  <2>2. Len(done) \in Nat /\ Len(queued) \in Nat
    BY LenProperties
  <2> HIDE DEF r
  <2> SUFFICES ASSUME NEW i \in Len(done) + 1 .. Len(r), r[i].by = x.by
               PROVE  r[i].early /\ ~x.early
    OBVIOUS
  <2>3. r[i] = queued[i - Len(done)] /\ i - Len(done) \in 1 .. Len(queued)
    BY <2>1, <2>2
  <2>4. QED
    BY <2>3
<1> HIDE DEF r, q
<1>3. Numbered(q, [count EXCEPT ![x.by] = @ + 1])
  <2>1. Numbered(r, count)
    BY DEF r
  <2> DEFINE k == Len(done)
  <2>2. /\ k \in 0 .. Len(r)
        /\ \A i \in 1 .. k : q[i] = r[i]
        /\ q[k + 1] = x
        /\ \A i \in k + 1 .. Len(r) : q[i + 1] = r[i]
        /\ \A i \in k + 1 .. Len(r) : r[i].by = x.by => r[i].early /\ ~x.early
    BY <1>1, <1>2
  <2> HIDE DEF k
  <2>3. QED
    BY <1>1, <2>1, <2>2, NextIsNumbered
<1>4. QED
  BY <1>3 DEF q

LEMMA QueuedIsNumbered ==
  ASSUME NEW done \in Seq(Item), NEW queued \in Seq(Item), NEW x \in Item,
         NEW count \in [Everyone -> Nat], Numbered(done \o queued, count),
         x.index = count[x.by] + 1
  PROVE  Numbered(done \o Append(queued, x), [count EXCEPT ![x.by] = @ + 1])
<1> DEFINE r == done \o queued
           q == Append(r, x)
<1>1. r \in Seq(Item) /\ done \o Append(queued, x) = q
  BY ConcatProperties, QueueGrows
<1>2. <<>> \in Seq(Item) /\ Len(<<>>) = 0
  BY EmptySeq
<1> HIDE DEF r
<1>3. r \o <<>> = r /\ q \o <<>> = q
  <2>1. q \in Seq(Item)
    BY <1>1, AppendProperties
  <2>2. QED
    BY <1>1, <2>1, ConcatEmptySeq
<1>4. Numbered(r \o <<>>, count)
  BY <1>3 DEF r
<1>5. Numbered(q \o <<>>, [count EXCEPT ![x.by] = @ + 1])
  <2>1. \A i \in 1 .. Len(<<>>) : <<>>[i].by = x.by => <<>>[i].early /\ ~x.early
    BY <1>2
  <2>2. QED
    BY <1>1, <1>2, <1>4, <2>1, DoneIsNumbered, Zenon
<1>6. QED
  BY <1>1, <1>3, <1>5

-----------------------------------------------------------------------------
LEMMA OrderTypes ==
  ASSUME SafeInv
  PROVE  /\ written \in Seq(Item) /\ queue[Logger] \in Seq(Item)
         /\ connects \in Seq(Item) /\ queue[Upstream] \in Seq(Item)
         /\ logged \in [Everyone -> Nat] /\ calls \in [Everyone -> Nat]
BY StartTypes DEF SafeInv, StartInv, TypeOK

LEMMA LogHereKeepsOrder ==
  ASSUME OrderInv, NEW t \in Everyone, LogHere(t)
  PROVE  OrderInv'
<1> USE DEF OrderInv
<1> DEFINE x == NewItem(t, Logger, logged[t])
<1>1. /\ SafeInv' /\ t = Logger /\ written' = Append(written, x)
      /\ queue' = queue /\ calls' = calls /\ connects' = connects
      /\ logged' = [logged EXCEPT ![t] = @ + 1] /\ Logger \in known
  BY LogHereKeepsSafe, CountsGrow, WhatIsReady DEF LogHere, connectVars, SafeInv, StartInv
<1>2. /\ x \in Item /\ x.by = t /\ x.index = logged[t] + 1 /\ ~x.early
  BY <1>1, OrderTypes, NewItemType
<1> HIDE DEF x
<1>3. \A i \in 1 .. Len(queue[Logger]) :
        queue[Logger][i].by = x.by => queue[Logger][i].early /\ ~x.early
  BY <1>1, <1>2 DEF SafeInv, LoggerWritesItsOwn
<1>4. Numbered(written \o queue[Logger], logged)
  BY DEF lines
<1>5. Numbered(Append(written, x) \o queue[Logger], [logged EXCEPT ![x.by] = @ + 1])
  BY <1>2, <1>3, <1>4, OrderTypes, DoneIsNumbered
<1>6. Numbered(lines, logged)'
  BY <1>1, <1>2, <1>5 DEF lines
<1>7. written' \in Seq(Late) /\ queue'[Logger] \in Seq(Late)
  BY <1>1, <1>2, AppendProperties DEF Late
<1>8. Numbered(requests, calls)'
  BY <1>1 DEF requests
<1>9. QED
  BY <1>1, <1>6, <1>7, <1>8

LEMMA LogFromAfarKeepsOrder ==
  ASSUME OrderInv, NEW t \in Everyone, LogFromAfar(t)
  PROVE  OrderInv'
<1> USE DEF OrderInv
<1> DEFINE x == NewItem(t, Logger, logged[t])
<1>1. /\ SafeInv' /\ t # Logger
      /\ queue'[Logger] = Append(queue[Logger], x) /\ queue'[Upstream] = queue[Upstream]
      /\ written' = written /\ calls' = calls /\ connects' = connects
      /\ logged' = [logged EXCEPT ![t] = @ + 1]
  BY LogFromAfarKeepsSafe, CountsGrow DEF LogFromAfar, connectVars, SafeInv, StartInv
<1>2. /\ x \in Item /\ x.by = t /\ x.index = logged[t] + 1 /\ ~x.early
  BY <1>1, OrderTypes, NewItemType
<1> HIDE DEF x
<1>3. Numbered(written \o queue[Logger], logged)
  BY DEF lines
<1>4. Numbered(written \o Append(queue[Logger], x), [logged EXCEPT ![x.by] = @ + 1])
  BY <1>2, <1>3, OrderTypes, QueuedIsNumbered
<1>5. Numbered(lines, logged)'
  BY <1>1, <1>2, <1>4 DEF lines
<1>6. written' \in Seq(Late) /\ queue'[Logger] \in Seq(Late)
  BY <1>1, <1>2, AppendProperties DEF Late
<1>7. Numbered(requests, calls)'
  BY <1>1 DEF requests
<1>8. QED
  BY <1>1, <1>5, <1>6, <1>7

LEMMA RunLineKeepsOrder ==
  ASSUME OrderInv, RunLine
  PROVE  OrderInv'
<1> USE DEF OrderInv
<1>1. /\ SafeInv' /\ queue[Logger] # <<>>
      /\ written' = Append(written, Head(queue[Logger]))
      /\ queue'[Logger] = Tail(queue[Logger]) /\ queue'[Upstream] = queue[Upstream]
      /\ logged' = logged /\ calls' = calls /\ connects' = connects
  BY RunLineKeepsSafe DEF RunLine, connectVars
<1>2. lines' = lines
  BY <1>1, OrderTypes, HeadIsDone DEF lines
<1>3. written' \in Seq(Late) /\ queue'[Logger] \in Seq(Late)
  <2>1. Head(queue[Logger]) \in Late /\ Tail(queue[Logger]) \in Seq(Late)
    BY <1>1, HeadTailProperties
  <2>2. QED
    BY <1>1, <2>1, AppendProperties
<1>4. Numbered(requests, calls)' /\ Numbered(lines, logged)'
  BY <1>1, <1>2 DEF requests
<1>5. QED
  BY <1>1, <1>3, <1>4

LEMMA ConnectHereKeepsOrder ==
  ASSUME OrderInv, NEW t \in Workers, ConnectHere(t)
  PROVE  OrderInv'
<1> USE DEF OrderInv
<1> DEFINE x == NewItem(t, Upstream, calls[t])
<1>1. /\ SafeInv' /\ t = Upstream /\ Upstream \in known /\ t \in Everyone
      /\ connects' = Append(connects, x)
      /\ queue' = queue /\ written' = written /\ logged' = logged
      /\ calls' = [calls EXCEPT ![t] = @ + 1]
  BY ConnectHereKeepsSafe, CountsGrow, ThreadSets
  DEF ConnectHere, OnThread, logVars, SafeInv, StartInv
<1>2. /\ x \in Item /\ x.by = t /\ x.index = calls[t] + 1 /\ ~x.early
  BY <1>1, OrderTypes, NewItemType
<1> HIDE DEF x
<1>3. \A i \in 1 .. Len(queue[Upstream]) :
        queue[Upstream][i].by = x.by => queue[Upstream][i].early /\ ~x.early
  BY <1>1, <1>2, ElementOfSeq DEF Waiting
<1>4. Numbered(connects \o queue[Upstream], calls)
  BY DEF requests
<1>5. Numbered(Append(connects, x) \o queue[Upstream], [calls EXCEPT ![x.by] = @ + 1])
  BY <1>2, <1>3, <1>4, OrderTypes, DoneIsNumbered
<1>6. Numbered(requests, calls)'
  BY <1>1, <1>2, <1>5 DEF requests
<1>7. Numbered(lines, logged)'
  BY <1>1 DEF lines
<1>8. QED
  BY <1>1, <1>6, <1>7

LEMMA ConnectFromAfarKeepsOrder ==
  ASSUME OrderInv, NEW t \in Workers, ConnectFromAfar(t)
  PROVE  OrderInv'
<1> USE DEF OrderInv
<1> DEFINE x == NewItem(t, Upstream, calls[t])
<1>1. /\ SafeInv' /\ (t = Upstream => Upstream \notin known) /\ t \in Everyone
      /\ queue'[Upstream] = Append(queue[Upstream], x) /\ queue'[Logger] = queue[Logger]
      /\ connects' = connects /\ written' = written /\ logged' = logged
      /\ calls' = [calls EXCEPT ![t] = @ + 1]
  BY ConnectFromAfarKeepsSafe, CountsGrow, ThreadSets
  DEF ConnectFromAfar, OnThread, logVars, SafeInv, StartInv
<1>2. /\ x \in Item /\ x.by = t /\ x.index = calls[t] + 1
      /\ x.by = Upstream => x.early
  BY <1>1, OrderTypes, NewItemType
<1> HIDE DEF x
<1>3. Numbered(connects \o queue[Upstream], calls)
  BY DEF requests
<1>4. Numbered(connects \o Append(queue[Upstream], x), [calls EXCEPT ![x.by] = @ + 1])
  BY <1>2, <1>3, OrderTypes, QueuedIsNumbered
<1>5. Numbered(requests, calls)'
  BY <1>1, <1>2, <1>4 DEF requests
<1>6. queue'[Upstream] \in Seq(Waiting)
  BY <1>1, <1>2, AppendProperties DEF Waiting
<1>7. Numbered(lines, logged)'
  BY <1>1 DEF lines
<1>8. QED
  BY <1>1, <1>5, <1>6, <1>7

LEMMA RunConnectKeepsOrder ==
  ASSUME OrderInv, RunConnect
  PROVE  OrderInv'
<1> USE DEF OrderInv
<1>1. /\ SafeInv' /\ queue[Upstream] # <<>>
      /\ connects' = Append(connects, Head(queue[Upstream]))
      /\ queue'[Upstream] = Tail(queue[Upstream]) /\ queue'[Logger] = queue[Logger]
      /\ logged' = logged /\ calls' = calls /\ written' = written
  BY RunConnectKeepsSafe DEF RunConnect, logVars
<1>2. requests' = requests
  BY <1>1, OrderTypes, HeadIsDone DEF requests
<1>3. queue'[Upstream] \in Seq(Waiting)
  BY <1>1, HeadTailProperties
<1>4. Numbered(requests, calls)' /\ Numbered(lines, logged)'
  BY <1>1, <1>2 DEF lines
<1>5. QED
  BY <1>1, <1>3, <1>4

LEMMA OrderStep == OrderInv /\ [Next]_vars => OrderInv'
<1> SUFFICES ASSUME OrderInv, [Next]_vars
             PROVE  OrderInv'
  OBVIOUS
<1>1. SafeInv'
  BY SafeStep DEF OrderInv
<1>2. CASE InitThreads
  <2>1. UNCHANGED <<queue, logVars, connectVars>>
    BY <1>2, MainStep DEF OrderInv, SafeInv
  <2>2. QED
    BY <1>1, <2>1 DEF OrderInv, logVars, connectVars, lines, requests
<1>3. ASSUME NEW t \in Everyone, LogIsDropped(t)
      PROVE  OrderInv'
  BY <1>1, <1>3 DEF LogIsDropped, OrderInv, connectVars, lines, requests
<1>4. ASSUME NEW t \in Everyone, Log(t)
      PROVE  OrderInv'
  BY <1>3, <1>4, LogHereKeepsOrder, LogFromAfarKeepsOrder DEF Log
<1>5. ASSUME NEW t \in Workers, ConnectUpstream(t)
      PROVE  OrderInv'
  BY <1>5, ConnectHereKeepsOrder, ConnectFromAfarKeepsOrder DEF ConnectUpstream
<1>6. CASE RunLine
  BY <1>6, RunLineKeepsOrder
<1>7. CASE RunConnect
  BY <1>7, RunConnectKeepsOrder
<1>8. CASE UNCHANGED vars
  BY <1>1, <1>8 DEF vars, logVars, connectVars, OrderInv, lines, requests
<1>9. QED
  BY <1>2, <1>4, <1>5, <1>6, <1>7, <1>8 DEF Next

LEMMA OrderInit == Init => OrderInv
<1> SUFFICES ASSUME Init
             PROVE  OrderInv
  OBVIOUS
<1>1. /\ written = <<>> /\ connects = <<>>
      /\ queue[Logger] = <<>> /\ queue[Upstream] = <<>>
      /\ \A t \in Everyone : logged[t] = 0 /\ calls[t] = 0
  BY ThreadSets DEF Init
<1>2. /\ <<>> \in Seq(Late) /\ <<>> \in Seq(Waiting) /\ <<>> \in Seq(Item)
      /\ Len(<<>>) = 0
  BY EmptySeq
<1>3. lines = <<>> /\ requests = <<>>
  BY <1>1, <1>2, ConcatEmptySeq DEF lines, requests
<1>4. Numbered(lines, logged) /\ Numbered(requests, calls)
  BY <1>1, <1>2, <1>3 DEF Numbered
<1>5. QED
  BY <1>1, <1>2, <1>4, SafeInit DEF OrderInv

LEMMA OrderInvariant == SafeSpec => []OrderInv
BY OrderInit, OrderStep, PTL DEF SafeSpec

(* The lines of a thread get into the file in the order in which it logged *)
(* them, none missing and none twice, for any number of threads and lines. *)
THEOREM LinesAreInOrder == SafeSpec => []LinesInOrder
<1>1. OrderInv => LinesInOrder
  <2> SUFFICES ASSUME OrderInv
               PROVE  LinesInOrder
    OBVIOUS
  <2>1. lines \in Seq(Late)
    BY ConcatProperties DEF OrderInv, lines
  <2>2. \A i \in 1 .. Len(lines) : ~lines[i].early
    BY <2>1, ElementOfSeq DEF Late
  <2>3. QED
    BY <2>2 DEF OrderInv, Numbered, Before, LinesInOrder
<1>2. QED
  BY <1>1, OrderInvariant, PTL

(* The calls of ConnectUpstream lead to connects in the order of the calls,*)
(* but that Upstream's own may overtake those that it made before its      *)
(* threadId was set.                                                       *)
THEOREM CallsAreInOrder == SafeSpec => []CallsInOrder
<1>1. OrderInv => CallsInOrder
  BY ThreadSets DEF OrderInv, Numbered, Before, CallsInOrder
<1>2. QED
  BY <1>1, OrderInvariant, PTL
=============================================================================

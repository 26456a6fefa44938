------------------------------ MODULE Threads -------------------------------
(***************************************************************************)
(* The threads of the process: how Manager::InitThreads starts them        *)
(* (base/Manager.cpp, base/CycleThread.cpp), what they log through the one *)
(* Logger (base/Logger.cpp), and the connections they ask one NetWorker    *)
(* for (net/NetWorker.cpp). While the main thread is still starting the    *)
(* later threads, the earlier ones already run their loops.                *)
(*                                                                         *)
(* Both Logger::Log and NetWorker::ConnectUpstream ask whether they run on *)
(* the owner's thread, and then act at once; otherwise they send a task.   *)
(* CycleThread::Start sets the threadId they compare with after the thread *)
(* has been created, without synchronisation: the new thread may find it   *)
(* unset. It is a word that is written once, so that a reader finds the    *)
(* old or the new value.                                                   *)
(*                                                                         *)
(* A TaskQueue appears here as TaskDelivery, which it implements: a task   *)
(* that was sent is run later, by the owner, in the order of sending.      *)
(***************************************************************************)
EXTENDS Integers, Sequences, Functions

CONSTANTS
  NumWorkers,         \* NetWorkers, hardware_concurrency() in the code
  MaxLines,           \* bound: the lines that all threads log, but for dropped ones
  MaxCalls            \* bound: the calls of ConnectUpstream that all threads make

ASSUME NumWorkersAssumption == NumWorkers \in Nat \ {0}
ASSUME BoundsAssumption == MaxLines \in Nat /\ MaxCalls \in Nat

(* The CycleThreads, in the order in which they are started: the Logger,   *)
(* "the first one" (Manager.cpp:42), then the NetWorkers. GetNetWorker     *)
(* always returns netWorkers[0].                                           *)
Main == -1
Logger == 0
Workers == 1 .. NumWorkers
CycleThreads == 0 .. NumWorkers
Everyone == CycleThreads \cup {Main}
Upstream == 1

VARIABLES
  starting,           \* the CycleThread that main is starting, NumWorkers + 1 at the end
  step,               \* the steps of that start main has made
  queueReady,         \* the TaskQueues with an eventfd
  running,            \* the threads that run their loops
  known,              \* the CycleThreads whose threadId is set
  logFile,            \* open
  inited,             \* of the Logger
  queue,              \* the tasks of each CycleThread's TaskQueue
  logged,             \* how many lines of each thread were not dropped
  dropped,            \* history: the threads that have lost a line
  written,            \* what is in the log file
  calls,              \* how often each thread has called ConnectUpstream
  connects,           \* history: the calls of Connector::Connect, in order
  failed              \* what has gone wrong, see Failures

mainVars == <<starting, step, queueReady, running, known, logFile, inited>>
logVars == <<logged, dropped, written>>
connectVars == <<calls, connects>>
vars == <<mainVars, queue, logVars, connectVars, failed>>

(* An eventfd_write to -1 (TaskQueue.cpp:18 asserts that it succeeds), a   *)
(* fprintf to no file, main and a loop that is running in one EventCycle.  *)
Failures == {"no", "eventfd", "logFile", "race"}

(* A line, or a call of ConnectUpstream: whose, and its number. early: it  *)
(* was the owner's own, before its threadId was set.                       *)
Item == [by : Everyone, index : Nat \ {0}, early : BOOLEAN]

TypeOK ==
  /\ starting \in 0 .. NumWorkers + 1
  /\ step \in 0 .. 5
  /\ queueReady \subseteq CycleThreads
  /\ running \subseteq CycleThreads
  /\ known \subseteq running
  /\ logFile \in BOOLEAN /\ inited \in BOOLEAN
  /\ queue \in [CycleThreads -> Seq(Item)]
  /\ logged \in [Everyone -> Nat]
  /\ dropped \subseteq Everyone
  /\ written \in Seq(Item)
  /\ calls \in [Everyone -> Nat]
  /\ connects \in Seq(Item)
  /\ failed \in Failures

Init ==
  /\ starting = Logger /\ step = 0
  /\ queueReady = {} /\ running = {} /\ known = {}
  /\ logFile = FALSE /\ inited = FALSE
  /\ queue = [t \in CycleThreads |-> <<>>]
  /\ logged = [t \in Everyone |-> 0] /\ dropped = {} /\ written = <<>>
  /\ calls = [t \in Everyone |-> 0] /\ connects = <<>>
  /\ failed = "no"

Works == failed = "no"

-----------------------------------------------------------------------------
(* Logger::StartThread and NetWorker::StartThread, with CycleThread::Start *)
(* inlined: its task (listening) first, then the thread, then its id. The  *)
(* mutants forget to let others log, let them log too early, start a       *)
(* worker's thread before its queue, and set the id before the thread.     *)
NeverInited(t) ==
  IF t = Logger THEN <<"open", "init", "create", "identify">>
                ELSE <<"init", "listen", "create", "identify">>
InitedBeforeId(t) ==
  IF t = Logger THEN <<"open", "init", "create", "inited", "identify">>
                ELSE <<"init", "listen", "create", "identify">>
CreateFirst(t) ==
  IF t = Logger THEN <<"open", "init", "create", "identify", "inited">>
                ELSE <<"create", "init", "listen", "identify">>

IdentifyFirst(t) ==
  IF t = Logger THEN <<"open", "init", "identify", "create", "inited">>
                ELSE <<"init", "listen", "identify", "create">>

StartSteps(t) ==
  IF t = Logger THEN <<"open", "init", "create", "identify", "inited">>
                ELSE <<"init", "listen", "create", "identify">>

(* Manager::InitThreads: one thread after the other.                       *)
MainDoes(what) ==
  /\ Works /\ starting \in CycleThreads
  /\ StartSteps(starting)[step + 1] = what
  /\ IF step + 1 = Len(StartSteps(starting))
       THEN starting' = starting + 1 /\ step' = 0
       ELSE starting' = starting /\ step' = step + 1
  /\ UNCHANGED <<queue, logVars, connectVars>>

(* main uses the EventCycle of the thread it starts.                       *)
Alone == failed' = IF starting \in running THEN "race" ELSE failed

OpenLogFile ==
  /\ MainDoes("open")
  /\ logFile' = TRUE
  /\ UNCHANGED <<queueReady, running, known, inited, failed>>

InitQueue ==
  /\ MainDoes("init") /\ Alone
  /\ queueReady' = queueReady \cup {starting}
  /\ UNCHANGED <<running, known, logFile, inited>>

Listen ==
  /\ MainDoes("listen") /\ Alone
  /\ UNCHANGED <<queueReady, running, known, logFile, inited>>

CreateThread ==
  /\ MainDoes("create")
  /\ running' = running \cup {starting}
  /\ UNCHANGED <<queueReady, known, logFile, inited, failed>>

SetThreadId ==
  /\ MainDoes("identify")
  /\ known' = known \cup {starting}
  /\ UNCHANGED <<queueReady, running, logFile, inited, failed>>

SetInited ==
  /\ MainDoes("inited")
  /\ inited' = TRUE
  /\ UNCHANGED <<queueReady, running, known, logFile, failed>>

InitThreads ==
  OpenLogFile \/ InitQueue \/ Listen \/ CreateThread \/ SetThreadId \/ SetInited

-----------------------------------------------------------------------------
(* this_thread::get_id() == ThreadId()                                     *)
OnThread(t, owner) == t = owner /\ owner \in known

NewItem(t, owner, n) ==
  [by |-> t, index |-> n + 1, early |-> t = owner /\ owner \notin known]

(* TaskQueue::SendTask                                                     *)
SendTask(owner, task) ==
  IF owner \in queueReady
    THEN queue' = [queue EXCEPT ![owner] = Append(@, task)] /\ UNCHANGED failed
    ELSE failed' = "eventfd" /\ UNCHANGED queue

(* Logger::log                                                             *)
WriteLine(line) ==
  IF logFile THEN written' = Append(written, line) /\ UNCHANGED failed
             ELSE failed' = "logFile" /\ UNCHANGED written

(* Logger::Log. The loops log whenever epoll_wait returns, be it for a     *)
(* timeout, and in most of what they do; main logs while it starts them.   *)
Runs(t) == t \in running \/ (t = Main /\ starting \in CycleThreads)

LogIsDropped(t) ==
  /\ Works /\ Runs(t) /\ ~inited
  /\ dropped' = dropped \cup {t}
  /\ UNCHANGED <<mainVars, queue, logged, written, connectVars, failed>>

Accepts(t) ==
  /\ Works /\ Runs(t) /\ inited /\ FoldFunction(+, 0, logged) < MaxLines
  /\ logged' = [logged EXCEPT ![t] = @ + 1]

LogHere(t) ==
  /\ Accepts(t) /\ OnThread(t, Logger)
  /\ WriteLine(NewItem(t, Logger, logged[t]))
  /\ UNCHANGED <<mainVars, queue, dropped, connectVars>>

LogFromAfar(t) ==
  /\ Accepts(t) /\ ~OnThread(t, Logger)
  /\ SendTask(Logger, NewItem(t, Logger, logged[t]))
  /\ UNCHANGED <<mainVars, dropped, written, connectVars>>

(* logFormat, behind all LOG_ macros                                       *)
Log(t) == LogIsDropped(t) \/ LogHere(t) \/ LogFromAfar(t)

(* The Logger's thread runs a task that a Log has sent.                    *)
RunLine ==
  /\ Works /\ Logger \in running /\ queue[Logger] # <<>>
  /\ WriteLine(Head(queue[Logger]))
  /\ queue' = [queue EXCEPT ![Logger] = Tail(@)]
  /\ UNCHANGED <<mainVars, logged, dropped, connectVars>>

-----------------------------------------------------------------------------
(* NetWorker::ConnectUpstream, called by users on the workers' threads.    *)
Calls(t) ==
  /\ Works /\ t \in running /\ FoldFunction(+, 0, calls) < MaxCalls
  /\ calls' = [calls EXCEPT ![t] = @ + 1]

ConnectHere(t) ==
  /\ Calls(t) /\ OnThread(t, Upstream)
  /\ connects' = Append(connects, NewItem(t, Upstream, calls[t]))
  /\ UNCHANGED <<mainVars, queue, logVars, failed>>

ConnectFromAfar(t) ==
  /\ Calls(t) /\ ~OnThread(t, Upstream)
  /\ SendTask(Upstream, NewItem(t, Upstream, calls[t]))
  /\ UNCHANGED <<mainVars, logVars, connects>>

ConnectUpstream(t) == ConnectHere(t) \/ ConnectFromAfar(t)

(* Upstream's thread runs a task that a ConnectUpstream has sent. The      *)
(* mutants leave the last task in the queue, and begin with it.            *)
RunConnectButLast ==
  /\ Works /\ Upstream \in running /\ Len(queue[Upstream]) > 1
  /\ connects' = Append(connects, Head(queue[Upstream]))
  /\ queue' = [queue EXCEPT ![Upstream] = Tail(@)]
  /\ UNCHANGED <<mainVars, logVars, calls, failed>>

RunNewestConnect ==
  /\ Works /\ Upstream \in running /\ queue[Upstream] # <<>>
  /\ connects' = Append(connects, queue[Upstream][Len(queue[Upstream])])
  /\ queue' = [queue EXCEPT ![Upstream] = SubSeq(@, 1, Len(@) - 1)]
  /\ UNCHANGED <<mainVars, logVars, calls, failed>>

RunConnect ==
  /\ Works /\ Upstream \in running /\ queue[Upstream] # <<>>
  /\ connects' = Append(connects, Head(queue[Upstream]))
  /\ queue' = [queue EXCEPT ![Upstream] = Tail(@)]
  /\ UNCHANGED <<mainVars, logVars, calls, failed>>

Next ==
  \/ InitThreads
  \/ \E t \in Everyone : Log(t)
  \/ \E t \in Workers : ConnectUpstream(t)
  \/ RunLine \/ RunConnect

SafeSpec == Init /\ [][Next]_vars

(* main goes on, and the loops run the tasks they were sent (TaskDelivery).*)
Fairness == WF_vars(InitThreads) /\ WF_vars(RunLine) /\ WF_vars(RunConnect)

Spec == SafeSpec /\ Fairness

-----------------------------------------------------------------------------
(* Nothing is sent to a queue without its eventfd or written to no file,   *)
(* and no EventCycle is used by two threads, however early the threads     *)
(* that were started first begin to log and to connect.                    *)
StartUpIsSafe == Works

(* "logger should be the first one" (Manager.cpp:42): lines are lost by    *)
(* main and by the Logger's own thread, which run while it starts; what a  *)
(* NetWorker logs is written from its first line on.                       *)
WorkersLoseNoLine == dropped \subseteq {Main, Logger}

(* The Logger's thread never sends itself a line. It logs whenever its     *)
(* epoll_wait returns, so that each line would wake it up for the next.    *)
LoggerWritesItsOwn == \A i \in 1 .. Len(queue[Logger]) : queue[Logger][i].by # Logger

(* The lines of one thread are written in the order in which it logged     *)
(* them, none missing and none twice, although the Logger's own are        *)
(* written at once and all others by way of the queue.                     *)
lines == written \o queue[Logger]

LinesInOrder ==
  /\ \A i, j \in 1 .. Len(lines) :
       i < j /\ lines[i].by = lines[j].by => lines[i].index < lines[j].index
  /\ \A t \in Everyone : \A n \in 1 .. logged[t] :
       \E i \in 1 .. Len(lines) : lines[i].by = t /\ lines[i].index = n

(* The calls of one thread lead to connects in the order of the calls. The *)
(* exception are those that Upstream's own thread made before it knew its  *)
(* id: they wait in the queue, and later ones of its own may overtake them.*)
requests == connects \o queue[Upstream]

CallsInOrder ==
  /\ \A i, j \in 1 .. Len(requests) :
       i < j /\ requests[i].by = requests[j].by =>
         \/ requests[i].index < requests[j].index
         \/ requests[j].early /\ ~requests[i].early /\ requests[i].index > requests[j].index
  /\ \A t \in Workers : \A n \in 1 .. calls[t] :
       \E i \in 1 .. Len(requests) : requests[i].by = t /\ requests[i].index = n

(* Every call of ConnectUpstream leads to a connect, and every line that   *)
(* is not dropped gets into the file.                                      *)
NothingWaitsForever ==
  /\ \A t \in Workers, n \in 1 .. MaxCalls :
       calls[t] = n ~> \E i \in 1 .. Len(connects) : connects[i].by = t /\ connects[i].index = n
  /\ \A t \in Everyone, n \in 1 .. MaxLines :
       logged[t] = n ~> \E i \in 1 .. Len(written) : written[i].by = t /\ written[i].index = n
=============================================================================

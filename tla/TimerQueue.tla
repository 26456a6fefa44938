----------------------------- MODULE TimerQueue -----------------------------
(***************************************************************************)
(* base/TimerQueue.{h,cpp} and base/Timer.{h,cpp}: a pool of Timer objects *)
(* and an ordered set of those that wait, driven by one timerfd.           *)
(*                                                                         *)
(* The timerfd is set by the first Add only (armed is never cleared) and   *)
(* is periodic from then on, so that it works as a tick: at each tick      *)
(* handleRead walks through the entries that have expired, calls back, and *)
(* erases them. A callback runs in the middle of that walk.                *)
(*                                                                         *)
(* There are two clocks. Timers expire by Now(), the system_clock, which   *)
(* an administrator or ntpd may step; the timerfd counts CLOCK_MONOTONIC,  *)
(* which nobody can, and knows how long it has left. Both are finer than a *)
(* millisecond, while the timerfd is set in whole ones, rounded down. Time *)
(* is counted in units of 1/UnitsPerMs milliseconds.                       *)
(*                                                                         *)
(* The users of the queue may do whatever Timer lets them do, in any order *)
(* and inside a timer's callback too, as ConnectState does: have a timer   *)
(* repeat, update it while it is set, give it back while it is set. The    *)
(* loop may be late. What the queue promises a user, and when the promise  *)
(* is off, is kept in variables of their own (owed, missed, stray,         *)
(* unexpired), which no action reads for its other effects.                *)
(***************************************************************************)
EXTENDS Integers, Sequences, FiniteSets

CONSTANTS
  PoolSize,           \* how many Timer objects the pool holds
  UnitsPerMs,
  Durations,          \* the timeouts asked for, in milliseconds
  ClockSteps,         \* by how much the system clock may be set forward or back
  MaxNow,             \* bound: the last instant of the system clock
  MaxTimes,           \* bound: the expirations that a late loop leaves unread
  MaxSteps,           \* bound: how often the system clock is stepped
  MaxEntries          \* bound: a timer is added only while fewer than these wait

ASSUME PoolSizeAssumption == PoolSize \in Nat \ {0}
ASSUME UnitsAssumption == UnitsPerMs \in Nat \ {0}
ASSUME DurationsAssumption == Durations \subseteq Nat \ {0}
ASSUME ClockAssumption == ClockSteps \subseteq Nat /\ MaxNow \in Nat

Timers == 1 .. PoolSize
Never == -1

Entries == [point : Nat, timer : Timers]
End == [point |-> Never, timer |-> 0]      \* timersSet.end()

VARIABLES
  now,                \* Now(), the system clock
  timer,              \* the Timer objects, see TimerType
  indexes,            \* the stack of the objects in the pool
  timersSet,          \* the entries that wait
  timerfd,            \* armed, and what the kernel does with it
  pc,                 \* "idle", "walking" through the entries, or in a "callback"
  it,                 \* handleRead's it: the entry it has come to
  iter,               \* handleRead's iter: where it stops
  steps,              \* how often the system clock was stepped
  broken,             \* the walk uses an iterator that was erased, calls an empty
                      \* callback, or an assertion has failed: anything may follow
  owed,               \* history: the instant a timer's user is promised a call, or Never
  missed,             \* history: expirations of the timerfd since that instant has come
  stray,              \* history: the entries that their users have lost, see AddTimer
  unexpired           \* history: what handleRead found unexpired in this walk

history == <<owed, missed, stray, unexpired>>
vars == <<now, timer, indexes, timersSet, timerfd, pc, it, iter, steps, broken,
          owed, missed, stray, unexpired>>

TimerType ==
  [repeated : BOOLEAN, set : BOOLEAN, point : Nat, duration : Nat, callback : BOOLEAN]

(* The timerfd: whether it was ever set, what is left until it expires     *)
(* (Never if disarmed), its period, and the expirations nobody has read.   *)
TimerfdType ==
  [armed : BOOLEAN, left : Nat \cup {Never}, period : Nat, times : Nat]

TypeOK ==
  /\ now \in Nat
  /\ timer \in [Timers -> TimerType]
  /\ indexes \in Seq(Timers)
  /\ timersSet \subseteq Entries
  /\ timerfd \in TimerfdType
  /\ pc \in {"idle", "walking", "callback"}
  /\ it \in Entries \cup {End} /\ iter \in Entries \cup {End}
  /\ steps \in Nat
  /\ broken \in {"no", "iterator", "bad_function_call", "assert"}
  /\ owed \in [Timers -> Nat \cup {Never}]
  /\ missed \in [Timers -> Nat]
  /\ stray \subseteq timersSet
  /\ unexpired \subseteq Entries

Init ==
  /\ now = 0
  /\ timer = [t \in Timers |-> [repeated |-> FALSE, set |-> FALSE, point |-> 0,
                                duration |-> 0, callback |-> FALSE]]
  /\ indexes = [i \in 1 .. PoolSize |-> i]
  /\ timersSet = {}
  /\ timerfd = [armed |-> FALSE, left |-> Never, period |-> 0, times |-> 0]
  /\ pc = "idle"
  /\ it = End /\ iter = End
  /\ steps = 0
  /\ broken = "no"
  /\ owed = [t \in Timers |-> Never]
  /\ missed = [t \in Timers |-> 0]
  /\ stray = {} /\ unexpired = {}

-----------------------------------------------------------------------------
Works == broken = "no"

Held(t) == \A i \in DOMAIN indexes : indexes[i] # t

EntriesOf(t) == {e \in timersSet : e.timer = t}

(* The order of std::pair<Timepoint, const Timer*>                         *)
Before(e, f) == e.point < f.point \/ (e.point = f.point /\ e.timer < f.timer)

(* The first entry of S, which is S.begin(); End if there is none.         *)
First(S) ==
  IF S = {} THEN End ELSE CHOOSE e \in S : \A f \in S \ {e} : Before(e, f)

(* timersSet.upper_bound: the first entry that has not expired at instant  *)
(* n. The mutant walks through them all.                                   *)
AllExpired(S, n) == End
UpperBound(S, n) == First({e \in S : e.point > n})

(* What is left when all before the entry stop are erased. The mutant      *)
(* clears the set.                                                         *)
ClearAll(S, stop) == {}
Erase(S, stop) == IF stop = End THEN {} ELSE {e \in S : ~Before(e, stop)}

(* CancelTimer finds the entry of t by the point the Timer has now. The    *)
(* mutant does not look for it.                                            *)
LeaveEntry(S, t, point) == S
CancelTimer(S, t, point) == S \ {[point |-> point, timer |-> t]}

(* One unit of CLOCK_MONOTONIC goes by.                                    *)
CountDown(fd) ==
  IF fd.left = Never THEN fd
  ELSE IF fd.left > 1 THEN [fd EXCEPT !.left = @ - 1]
  ELSE [fd EXCEPT !.left = fd.period, !.times = @ + 1]

(* resetTimerfd: milliseconds from instant n to tp, rounded down; a value  *)
(* of 0 disarms a timerfd. The period is the first interval. The mutant    *)
(* swaps the two instants.                                                 *)
ResetBackwards(fd, tp, n) ==
  LET interval == ((n - tp) \div UnitsPerMs) * UnitsPerMs
  IN  [armed |-> TRUE, period |-> interval, times |-> 0,
       left |-> IF interval = 0 THEN Never ELSE interval]

ResetTimerfd(fd, tp, n) ==
  LET interval == ((tp - n) \div UnitsPerMs) * UnitsPerMs
  IN  [armed |-> TRUE, period |-> interval, times |-> 0,
       left |-> IF interval = 0 THEN Never ELSE interval]

(* AddTimer at instant n, the entry e being what it inserts: the new entry *)
(* is in the set already when it is compared with the earliest one.        *)
Insert(S, e, n) == IF e.point <= n THEN S ELSE S \cup {e}

Rearmed(S, fd, e, n) ==
  IF e.point > n /\ (~fd.armed \/ e.point < First(Insert(S, e, n)).point)
    THEN ResetTimerfd(fd, e.point, n)
    ELSE fd

(* TimerQueue::AddTimer of a timer t that is left as timer'[t], its point  *)
(* being point. The assertion fails if the very entry is there. The user   *)
(* is promised a call if the point is still to come, the timer is its own  *)
(* and set, and the walk, if one is under way, has not passed the place of *)
(* the entry (which takes a system clock that was set back). Otherwise the *)
(* entry is a stray one, as are those in lost, which t has left behind.    *)
AddTimer(t, point, lost) ==
  LET e == [point |-> point, timer |-> t]
      passed == pc = "callback" /\ ~Before(it, e)
      promised == point > now /\ Held(t) /\ timer'[t].set /\ ~passed
  IN  /\ timersSet' = Insert(timersSet, e, now)
      /\ timerfd' = Rearmed(timersSet, timerfd, e, now)
      /\ broken' = IF point > now /\ e \in timersSet THEN "assert" ELSE broken
      /\ owed' = [owed EXCEPT ![t] = IF promised THEN point ELSE Never]
      /\ missed' = [missed EXCEPT ![t] = 0]
      /\ stray' = (stray \cup lost \cup IF promised THEN {} ELSE {e}) \cap timersSet'

(* Nothing is promised for t any more, and the entries in lost are strays. *)
PromiseEnds(t, lost) ==
  /\ owed' = [owed EXCEPT ![t] = Never]
  /\ missed' = [missed EXCEPT ![t] = 0]
  /\ stray' = (stray \cup lost) \cap timersSet'

-----------------------------------------------------------------------------
(* The users: other callbacks of the same loop while the queue is idle, or *)
(* a timer's own callback.                                                 *)
UserRuns == Works /\ pc \in {"idle", "callback"}

NewTimer ==
  /\ UserRuns /\ indexes # <<>>
  /\ LET t == indexes[Len(indexes)]
     IN  timer' = [timer EXCEPT ![t].repeated = FALSE, ![t].set = FALSE]
  /\ indexes' = SubSeq(indexes, 1, Len(indexes) - 1)
  /\ UNCHANGED <<now, timersSet, timerfd, pc, it, iter, steps, broken, history>>

(* Timer::Reset                                                            *)
Reset(t, repeat) ==
  /\ UserRuns /\ Held(t)
  /\ timer' = [timer EXCEPT ![t].callback = TRUE, ![t].repeated = repeat]
  /\ UNCHANGED <<now, indexes, timersSet, timerfd, pc, it, iter, steps, broken, history>>

(* Timer::Update(msec), of a timer that is set or not: a set one leaves    *)
(* its entry where it was, and Cancel will not find it there. "a default   *)
(* Timer is insignificant which should be Reset()ed after constructed"     *)
(* (Timer.h:21): before it is updated or added, that is.                   *)
Update(t, msec) ==
  /\ UserRuns /\ Held(t) /\ timer[t].callback
  /\ timer' = [timer EXCEPT ![t].duration = msec, ![t].point = now + msec * UnitsPerMs]
  /\ UNCHANGED <<now, indexes, timersSet, timerfd, pc, it, iter, steps, broken, unexpired>>
  /\ PromiseEnds(t, EntriesOf(t))

(* Timer::SetRepeated(false) and Update() of a timer that repeats, as in   *)
(* ConnectState::trace. Update() needs a duration.                         *)
UpdateAgain(t) ==
  /\ UserRuns /\ Held(t) /\ timer[t].repeated
  /\ timer' = [timer EXCEPT ![t].repeated = FALSE,
                            ![t].point = now + timer[t].duration * UnitsPerMs]
  /\ broken' = IF timer[t].duration = 0 THEN "assert" ELSE broken
  /\ UNCHANGED <<now, indexes, timersSet, timerfd, pc, it, iter, steps, unexpired>>
  /\ PromiseEnds(t, EntriesOf(t))

(* Timer::Add: the second assertion is AddTimer's.                         *)
Add(t) ==
  /\ UserRuns /\ Held(t) /\ timer[t].callback /\ Cardinality(timersSet) < MaxEntries
  /\ IF timer[t].set
       THEN broken' = "assert" /\ UNCHANGED <<timer, timersSet, timerfd, owed, missed, stray>>
       ELSE /\ timer' = [timer EXCEPT ![t].set = TRUE]
            /\ AddTimer(t, timer[t].point, {})
  /\ UNCHANGED <<now, indexes, pc, it, iter, steps, unexpired>>

(* Timer::Cancel                                                           *)
Cancel(t) ==
  /\ UserRuns /\ Held(t) /\ timer[t].set
  /\ timer' = [timer EXCEPT ![t].set = FALSE]
  /\ timersSet' = CancelTimer(timersSet, t, timer[t].point)
  /\ broken' = IF pc = "callback" /\ ({it, iter} \cap timersSet) \ timersSet' # {}
                 THEN "iterator" ELSE broken
  /\ PromiseEnds(t, {})
  /\ UNCHANGED <<now, indexes, timerfd, pc, it, iter, steps, unexpired>>

(* The deleter of a TimerPtr, returnTimer: the callback goes, the entry in *)
(* timersSet stays.                                                        *)
Release(t) ==
  /\ UserRuns /\ Held(t)
  /\ timer' = [timer EXCEPT ![t].callback = FALSE]
  /\ indexes' = Append(indexes, t)
  /\ UNCHANGED <<now, timersSet, timerfd, pc, it, iter, steps, broken, unexpired>>
  /\ PromiseEnds(t, EntriesOf(t))

-----------------------------------------------------------------------------
(* handleRead, called when the timerfd is readable: read the number of     *)
(* expirations, and find the first entry that has not expired.             *)
HandleRead ==
  /\ Works /\ pc = "idle" /\ timerfd.times > 0
  /\ timerfd' = [timerfd EXCEPT !.times = 0]
  /\ broken' = IF timerfd.times = 1 THEN broken ELSE "assert"
  /\ iter' = UpperBound(timersSet, now)
  /\ it' = First(timersSet)
  /\ pc' = "walking"
  /\ unexpired' = {e \in timersSet : e.point > now}
  /\ UNCHANGED <<now, timer, indexes, timersSet, steps, owed, missed, stray>>

(* ProcessTimedout: an empty std::function throws and nobody catches.      *)
ProcessTimedout ==
  /\ Works /\ pc = "walking" /\ it # iter
  /\ IF timer[it.timer].callback
       THEN pc' = "callback" /\ UNCHANGED broken
       ELSE broken' = "bad_function_call" /\ UNCHANGED pc
  /\ UNCHANGED <<now, timer, indexes, timersSet, timerfd, it, iter, steps, unexpired>>
  /\ IF it \in stray THEN UNCHANGED <<owed, missed, stray>> ELSE PromiseEnds(it.timer, {})

(* The callback is over. A repeated timer, even one that was given back in *)
(* the meantime, is updated and added again, next to its old entry; then   *)
(* the walk goes on to whatever comes next now.                            *)
CallbackReturns ==
  LET t == it.timer
      point == now + timer[t].duration * UnitsPerMs
  IN  /\ Works /\ pc = "callback"
      /\ IF timer[t].repeated
           THEN /\ timer' = [timer EXCEPT ![t].point = point]
                /\ AddTimer(t, point, EntriesOf(t))
           ELSE UNCHANGED <<timer, timersSet, timerfd, broken, owed, missed, stray>>
      /\ it' = First({f \in timersSet' : Before(it, f)})
      /\ pc' = "walking"
      /\ UNCHANGED <<now, indexes, iter, steps, unexpired>>

(* timersSet.erase(timersSet.begin(), iter)                                *)
EraseExpired ==
  /\ Works /\ pc = "walking" /\ it = iter
  /\ timersSet' = Erase(timersSet, iter)
  /\ pc' = "idle"
  /\ it' = End /\ iter' = End
  /\ stray' = stray \cap timersSet' /\ unexpired' = {}
  /\ UNCHANGED <<now, timer, indexes, timerfd, steps, broken, owed, missed>>

-----------------------------------------------------------------------------
(* Whether the promised instant of t has come when the system clock says n *)
Due(t, n) == owed[t] # Never /\ owed[t] <= n

(* Time goes by, whatever the loop is doing.                               *)
Tick ==
  /\ Works /\ now < MaxNow /\ timerfd.times < MaxTimes
  /\ now' = now + 1
  /\ timerfd' = CountDown(timerfd)
  /\ missed' = [t \in Timers |->
       IF Due(t, now') THEN missed[t] + (timerfd'.times - timerfd.times) ELSE 0]
  /\ UNCHANGED <<timer, indexes, timersSet, pc, it, iter, steps, broken, owed, stray, unexpired>>

(* The system clock is set forward or back. The timerfd does not notice.   *)
StepClock ==
  /\ Works /\ steps < MaxSteps
  /\ steps' = steps + 1
  /\ now' \in ({now + step : step \in ClockSteps} \cup {now - step : step \in ClockSteps})
              \cap (0 .. MaxNow)
  /\ missed' = [t \in Timers |-> IF Due(t, now') THEN missed[t] ELSE 0]
  /\ UNCHANGED <<timer, indexes, timersSet, timerfd, pc, it, iter, broken,
                 owed, stray, unexpired>>

User ==
  \/ NewTimer
  \/ \E t \in Timers, repeat \in BOOLEAN : Reset(t, repeat)
  \/ \E t \in Timers, msec \in Durations : Update(t, msec)
  \/ \E t \in Timers : UpdateAgain(t)
  \/ \E t \in Timers : Add(t)
  \/ \E t \in Timers : Cancel(t)
  \/ \E t \in Timers : Release(t)

Walk == HandleRead \/ ProcessTimedout \/ CallbackReturns \/ EraseExpired

Clocks == Tick \/ StepClock

Next == User \/ Walk \/ Clocks

SafeSpec == Init /\ [][Next]_vars

-----------------------------------------------------------------------------
(* A callback runs only if its user was promised the call, at just that    *)
(* instant, and has neither cancelled it nor been called for it yet; and   *)
(* not before its time, unless the timer was added in the course of the    *)
(* walk. A stray entry calls whoever has the Timer object by then.         *)
CallsAreOwed ==
  [][pc' = "callback" /\ pc # "callback" =>
       it \in stray \/ (owed[it.timer] = it.point /\ it \notin unexpired)]_vars

(* A promised call comes with the first expiration of the timerfd that the *)
(* loop handles once its instant has come by the system clock, whichever   *)
(* way that clock was set: no expiration is used up that leaves the timer  *)
(* waiting. The timerfd goes on expiring, each period, and was disarmed    *)
(* only if its period, the first interval of all, was 0.                   *)
TimersAreNotLate ==
  Works => \A t \in Timers : owed[t] # Never =>
    /\ missed[t] <= timerfd.times + (IF pc = "idle" THEN 0 ELSE 1)
    /\ timerfd.armed /\ (timerfd.period > 0 => timerfd.left \in 1 .. timerfd.period)

(* What waits in timersSet is a timer somebody holds, at its present point *)
(* (Cancel looks for it there), with a callback to call; the only others   *)
(* are those whose timer was given back or updated while it was set, added *)
(* again by a walk without being set, or added behind that walk.           *)
EntriesAreCurrent ==
  \A e \in timersSet \ stray :
    /\ Held(e.timer)
    /\ timer[e.timer].set /\ timer[e.timer].point = e.point /\ timer[e.timer].callback

(* "if timedoutPoint is earlier than the earliest one already in the       *)
(* timersSet timerfd_settime must be called to adjust to a earlier         *)
(* timedout point" (TimerQueue.cpp:46-47): the timerfd expires no later    *)
(* than the first timer.                                                   *)
ArmedForEarliest ==
  (pc = "idle" /\ timerfd.times = 0 /\ timersSet # {}) =>
    timerfd.left # Never /\ now + timerfd.left <= First(timersSet).point
=============================================================================

-------------------------- MODULE TimerQueueProofs --------------------------
(***************************************************************************)
(* What TimerQueue guarantees for any pool, any durations, any unit of     *)
(* time and any steps of the system clock, whatever its users do and       *)
(* however late the loop is.                                               *)
(***************************************************************************)
EXTENDS TimerQueue, DataLemmas

-----------------------------------------------------------------------------
(* The order of timersSet: strict and total, and each set of entries has a *)
(* first one.                                                              *)
LEMMA OrderIsStrict ==
  ASSUME NEW e \in Entries, NEW f \in Entries
  PROVE  /\ ~(Before(e, f) /\ Before(f, e))
         /\ e = f \/ Before(e, f) \/ Before(f, e)
         /\ ~Before(e, e)
         /\ Before(e, f) => e.point <= f.point
<1>1. /\ e.point \in Nat /\ f.point \in Nat /\ e.timer \in Nat /\ f.timer \in Nat
      /\ e.point = f.point /\ e.timer = f.timer => e = f
  BY PoolSizeAssumption DEF Entries, Timers
<1>2. QED
  BY <1>1 DEF Before

LEMMA OrderIsTransitive ==
  ASSUME NEW e \in Entries, NEW f \in Entries, NEW g \in Entries,
         Before(e, f), Before(f, g)
  PROVE  Before(e, g)
<1>1. /\ e.point \in Nat /\ f.point \in Nat /\ g.point \in Nat
      /\ e.timer \in Nat /\ f.timer \in Nat /\ g.timer \in Nat
  BY PoolSizeAssumption DEF Entries, Timers
<1>2. QED
  BY <1>1 DEF Before

LEMMA EndIsNoEntry == End \notin Entries /\ First({}) = End
BY DEF End, Entries, Never, First

LEMMA FirstOf ==
  ASSUME NEW S, S \subseteq Entries, S # {}
  PROVE  /\ First(S) \in S
         /\ First(S) # End
         /\ \A f \in S : f = First(S) \/ Before(First(S), f)
         /\ \A f \in S : ~Before(f, First(S)) /\ First(S).point <= f.point
<1> DEFINE points == {e.point : e \in S}
           p == Min(points)
           at == {e.timer : e \in {f \in S : f.point = p}}
<1>1. p \in points /\ \A n \in points : p <= n
  <2>1. points \subseteq Nat /\ points # {}
    BY DEF Entries
  <2>2. QED
    BY <2>1, SmallestOf
<1> HIDE DEF p
<1>2. Min(at) \in at /\ \A n \in at : Min(at) <= n
  <2>1. at \subseteq Nat
    BY PoolSizeAssumption DEF Entries, Timers
  <2>2. at # {}
    BY <1>1
  <2>3. QED
    BY <2>1, <2>2, SmallestOf
<1>3. PICK e \in S : e.point = p /\ e.timer = Min(at)
  BY <1>2
<1>4. ASSUME NEW f \in S \ {e}
      PROVE  Before(e, f)
  <2>1. p <= f.point
    BY <1>1
  <2>2. f.point = p => Min(at) <= f.timer
    BY <1>2
  <2>3. e \in Entries /\ f \in Entries
    OBVIOUS
  <2>4. e = f \/ Before(e, f) \/ Before(f, e)
    BY <2>3, OrderIsStrict
  <2>5. /\ p \in Nat /\ f.point \in Nat /\ Min(at) \in Nat /\ f.timer \in Nat
    BY <2>3, <1>3, PoolSizeAssumption DEF Entries, Timers
  <2>6. QED
    BY <1>3, <2>1, <2>2, <2>4, <2>5 DEF Before
<1>5. First(S) \in S /\ \A f \in S \ {First(S)} : Before(First(S), f)
  BY <1>4 DEF First
<1>6. \A f \in S : f = First(S) \/ Before(First(S), f)
  BY <1>5
<1>7. ASSUME NEW f \in S
      PROVE  ~Before(f, First(S)) /\ First(S).point <= f.point
  <2>1. f \in Entries /\ First(S) \in Entries
    BY <1>5
  <2>2. f.point \in Nat
    BY <2>1 DEF Entries
  <2>3. QED
    BY <1>6, <2>1, <2>2, OrderIsStrict
<1>8. First(S) # End
  BY <1>5, EndIsNoEntry
<1>9. QED
  BY <1>5, <1>6, <1>7, <1>8

LEMMA FirstType ==
  ASSUME NEW S, S \subseteq Entries
  PROVE  First(S) \in Entries \cup {End}
BY FirstOf, EndIsNoEntry

-----------------------------------------------------------------------------
(* The timerfd.                                                            *)
LEMMA TimesIsNatural ==
  ASSUME NEW a \in Nat, NEW b \in Nat
  PROVE  a * b \in Nat
OBVIOUS

LEMMA ResetTimerfdSets ==
  ASSUME NEW fd, NEW n \in Nat, NEW tp \in Nat, n <= tp
  PROVE  LET set == ResetTimerfd(fd, tp, n)
         IN  /\ set \in TimerfdType
             /\ set.armed /\ set.times = 0
             /\ IF set.period > 0 THEN set.left = set.period ELSE set.left = Never
<1> DEFINE interval == ((tp - n) \div UnitsPerMs) * UnitsPerMs
<1>1. tp - n \in Nat /\ UnitsPerMs \in Nat \ {0}
  BY UnitsAssumption
<1>2. interval \in Nat
  BY <1>1, DivBounds
<1> HIDE DEF interval
<1>3. ResetTimerfd(fd, tp, n)
        = [armed |-> TRUE, period |-> interval, times |-> 0,
           left |-> IF interval = 0 THEN Never ELSE interval]
  BY DEF ResetTimerfd, interval
<1>4. (IF interval = 0 THEN Never ELSE interval) \in Nat \cup {Never}
  BY <1>2
<1>5. QED
  BY <1>2, <1>3, <1>4 DEF TimerfdType

LEMMA TimerfdFields ==
  ASSUME NEW fd \in TimerfdType
  PROVE  /\ fd = [armed |-> fd.armed, left |-> fd.left, period |-> fd.period, times |-> fd.times]
         /\ fd.armed \in BOOLEAN /\ fd.left \in Nat \cup {Never}
         /\ fd.period \in Nat /\ fd.times \in Nat
BY DEF TimerfdType

(* One unit of time: the timerfd expires at its end, or has less left.     *)
LEMMA CountDownIs ==
  ASSUME NEW fd \in TimerfdType
  PROVE  LET ends == fd.left # Never /\ ~(fd.left > 1)
         IN  CountDown(fd)
               = [armed |-> fd.armed, period |-> fd.period,
                  left |-> IF fd.left = Never THEN Never
                           ELSE IF ends THEN fd.period ELSE fd.left - 1,
                  times |-> IF ends THEN fd.times + 1 ELSE fd.times]
<1>1. CASE fd.left = Never
  BY <1>1, TimerfdFields DEF CountDown
<1>2. CASE fd.left # Never /\ fd.left > 1
  BY <1>2, TimerfdFields DEF CountDown
<1>3. CASE fd.left # Never /\ ~(fd.left > 1)
  <2>1. CountDown(fd) = [fd EXCEPT !.left = fd.period, !.times = @ + 1]
    BY <1>3 DEF CountDown
  <2>2. fd = [armed |-> fd.armed, left |-> fd.left, period |-> fd.period, times |-> fd.times]
    BY TimerfdFields
  <2>3. CountDown(fd)
          = [armed |-> fd.armed, left |-> fd.period, period |-> fd.period, times |-> fd.times + 1]
    BY <2>1, <2>2
  <2>4. QED
    BY <1>3, <2>3
<1>4. QED
  BY <1>1, <1>2, <1>3

LEMMA CountDownType ==
  ASSUME NEW fd \in TimerfdType
  PROVE  /\ CountDown(fd) \in TimerfdType
         /\ CountDown(fd).armed = fd.armed /\ CountDown(fd).period = fd.period
         /\ CountDown(fd).times - fd.times \in Nat
<1>1. /\ fd.left \in Nat \cup {Never} /\ fd.period \in Nat /\ fd.times \in Nat
      /\ fd.armed \in BOOLEAN
  BY TimerfdFields
<1> DEFINE ends == fd.left # Never /\ ~(fd.left > 1)
           left == IF fd.left = Never THEN Never ELSE IF ends THEN fd.period ELSE fd.left - 1
           times == IF ends THEN fd.times + 1 ELSE fd.times
<1>2. left \in Nat \cup {Never} /\ times \in Nat /\ times - fd.times \in Nat
  BY <1>1 DEF Never
<1>3. CountDown(fd) = [armed |-> fd.armed, period |-> fd.period, left |-> left, times |-> times]
  BY CountDownIs
<1> HIDE DEF left, times, ends
<1>4. QED
  BY <1>1, <1>2, <1>3 DEF TimerfdType

(* The entry is compared with a set it is in: it never comes before the    *)
(* first, and only a timerfd that was never set is set.                    *)
LEMMA RearmedOnce ==
  ASSUME NEW S, S \subseteq Entries, NEW e \in Entries, NEW n \in Nat, NEW fd
  PROVE  Rearmed(S, fd, e, n)
           = IF e.point > n /\ ~fd.armed THEN ResetTimerfd(fd, e.point, n) ELSE fd
<1>1. CASE e.point > n
  <2>1. e.point \in Nat /\ ~(e.point <= n)
    BY <1>1 DEF Entries
  <2>2. Insert(S, e, n) = S \cup {e}
    BY <2>1 DEF Insert
  <2>3. First(S \cup {e}) \in Entries /\ First(S \cup {e}).point <= e.point
    BY FirstOf
  <2>4. First(S \cup {e}).point \in Nat
    BY <2>3 DEF Entries
  <2>5. ~(e.point < First(Insert(S, e, n)).point)
    BY <2>1, <2>2, <2>3, <2>4
  <2>6. QED
    BY <1>1, <2>5 DEF Rearmed
<1>2. CASE ~(e.point > n)
  BY <1>2 DEF Rearmed
<1>3. QED
  BY <1>1, <1>2

LEMMA RearmedType ==
  ASSUME NEW S, S \subseteq Entries, NEW e \in Entries, NEW n \in Nat, NEW fd \in TimerfdType
  PROVE  /\ Rearmed(S, fd, e, n) \in TimerfdType
         /\ fd.armed => Rearmed(S, fd, e, n) = fd
<1>1. e.point \in Nat
  BY DEF Entries
<1>2. CASE e.point > n /\ ~fd.armed
  <2>1. ResetTimerfd(fd, e.point, n) \in TimerfdType
    BY <1>1, <1>2, ResetTimerfdSets
  <2>2. QED
    BY <1>2, <2>1, RearmedOnce
<1>3. CASE ~(e.point > n /\ ~fd.armed)
  BY <1>3, RearmedOnce
<1>4. QED
  BY <1>2, <1>3

LEMMA InsertType ==
  ASSUME NEW S, S \subseteq Entries, NEW e \in Entries, NEW n \in Nat
  PROVE  /\ Insert(S, e, n) \subseteq Entries
         /\ S \subseteq Insert(S, e, n) /\ Insert(S, e, n) \subseteq S \cup {e}
         /\ e.point > n => e \in Insert(S, e, n)
<1>1. e.point \in Nat
  BY DEF Entries
<1>2. QED
  BY <1>1 DEF Insert

-----------------------------------------------------------------------------
(* The walk goes from entry to entry, up to the one it stops at, and all   *)
(* of them are in the set, or something has broken.                        *)
WalkSound ==
  /\ pc = "idle" => it = End /\ iter = End
  /\ Works /\ pc # "idle" =>
       \/ pc = "walking" /\ it = iter
       \/ /\ it \in timersSet
          /\ iter = End \/ (iter \in timersSet /\ Before(it, iter))

WalkInv == TypeOK /\ WalkSound

LEMMA TimersAndEntries ==
  ASSUME WalkInv
  PROVE  /\ timersSet \subseteq Entries /\ now \in Nat /\ stray \subseteq timersSet
         /\ \A t \in Timers :
              /\ timer[t] \in TimerType /\ timer[t].duration \in Nat /\ timer[t].point \in Nat
              /\ timer[t].set \in BOOLEAN /\ timer[t].callback \in BOOLEAN
              /\ t \in Nat \ {0}
         /\ \A e \in timersSet : e.point \in Nat /\ e.timer \in Timers
<1>1. timersSet \subseteq Entries /\ now \in Nat /\ stray \subseteq timersSet
  BY DEF WalkInv, TypeOK
<1>2. \A t \in Timers : timer[t] \in TimerType /\ t \in Nat \ {0}
  BY PoolSizeAssumption DEF WalkInv, TypeOK, Timers
<1>3. \A t \in Timers : /\ timer[t].duration \in Nat /\ timer[t].point \in Nat
                         /\ timer[t].set \in BOOLEAN /\ timer[t].callback \in BOOLEAN
  BY <1>2 DEF TimerType
<1>4. \A e \in timersSet : e.point \in Nat /\ e.timer \in Timers
  BY <1>1 DEF Entries
<1>5. QED
  BY <1>1, <1>2, <1>3, <1>4

LEMMA WalkInit == Init => WalkInv
<1> SUFFICES ASSUME Init
             PROVE  WalkInv
  OBVIOUS
<1>1. timer \in [Timers -> TimerType]
  BY DEF Init, TimerType
<1>2. indexes \in Seq(Timers)
  BY PoolSizeAssumption DEF Init, Timers
<1>3. timerfd \in TimerfdType
  BY DEF Init, TimerfdType
<1>4. QED
  BY <1>1, <1>2, <1>3 DEF Init, WalkInv, WalkSound, TypeOK

(* A step that takes no entry away and leaves the walk where it is.        *)
LEMMA WalkStands ==
  ASSUME WalkSound, timersSet \subseteq timersSet', Works' => Works,
         UNCHANGED <<pc, it, iter>>
  PROVE  WalkSound'
BY DEF WalkSound

LEMMA NewTimerKeepsWalk ==
  ASSUME WalkInv, NewTimer
  PROVE  WalkInv'
<1> DEFINE t == indexes[Len(indexes)]
<1>1. /\ t \in Timers
      /\ SubSeq(indexes, 1, Len(indexes) - 1) \in Seq(Timers)
  BY DEF WalkInv, TypeOK, NewTimer
<1>2. timer' \in [Timers -> TimerType]
  BY <1>1 DEF WalkInv, TypeOK, NewTimer, TimerType
<1>3. WalkSound'
  BY WalkStands DEF NewTimer, WalkInv, Works
<1>4. QED
  BY <1>1, <1>2, <1>3 DEF WalkInv, TypeOK, NewTimer, history

LEMMA ResetKeepsWalk ==
  ASSUME WalkInv, NEW t \in Timers, NEW repeat \in BOOLEAN, Reset(t, repeat)
  PROVE  WalkInv'
<1>1. timer' \in [Timers -> TimerType]
  BY DEF Reset, WalkInv, TypeOK, TimerType
<1>2. WalkSound'
  BY WalkStands DEF Reset, WalkInv, Works
<1>3. QED
  BY <1>1, <1>2 DEF Reset, WalkInv, TypeOK, history

(* What a new duration gives, and what Timer::Update() makes of it.        *)
LEMMA LaterPoint ==
  ASSUME NEW n \in Nat, NEW msec \in Nat
  PROVE  n + msec * UnitsPerMs \in Nat
<1>1. msec * UnitsPerMs \in Nat
  BY UnitsAssumption, TimesIsNatural
<1>2. QED
  BY <1>1

LEMMA PromiseEndsType ==
  ASSUME WalkInv, NEW t \in Timers, NEW lost, PromiseEnds(t, lost)
  PROVE  /\ owed' \in [Timers -> Nat \cup {Never}] /\ missed' \in [Timers -> Nat]
         /\ stray' \subseteq timersSet'
         /\ owed'[t] = Never /\ missed'[t] = 0
         /\ \A u \in Timers : u # t => owed'[u] = owed[u] /\ missed'[u] = missed[u]
BY DEF PromiseEnds, WalkInv, TypeOK

LEMMA UpdateKeepsWalk ==
  ASSUME WalkInv, NEW t \in Timers, NEW msec \in Durations, Update(t, msec)
  PROVE  WalkInv'
<1>1. msec \in Nat /\ now + msec * UnitsPerMs \in Nat
  BY DurationsAssumption, LaterPoint, TimersAndEntries
<1>2. timer' \in [Timers -> TimerType]
  BY <1>1 DEF Update, WalkInv, TypeOK, TimerType
<1>3. WalkSound'
  BY WalkStands DEF Update, WalkInv, Works
<1>4. /\ owed' \in [Timers -> Nat \cup {Never}] /\ missed' \in [Timers -> Nat]
      /\ stray' \subseteq timersSet'
  BY PromiseEndsType DEF Update
<1>5. QED
  BY <1>2, <1>3, <1>4 DEF Update, WalkInv, TypeOK

LEMMA UpdateAgainKeepsWalk ==
  ASSUME WalkInv, NEW t \in Timers, UpdateAgain(t)
  PROVE  WalkInv'
<1>1. now + timer[t].duration * UnitsPerMs \in Nat
  BY LaterPoint, TimersAndEntries
<1>2. timer' \in [Timers -> TimerType]
  BY <1>1 DEF UpdateAgain, WalkInv, TypeOK, TimerType
<1>3. broken' \in {broken, "assert"} /\ Works
  BY DEF UpdateAgain, UserRuns
<1>4. WalkSound'
  BY <1>3, WalkStands DEF UpdateAgain, WalkInv
<1>5. /\ owed' \in [Timers -> Nat \cup {Never}] /\ missed' \in [Timers -> Nat]
      /\ stray' \subseteq timersSet'
  BY PromiseEndsType DEF UpdateAgain
<1>6. QED
  BY <1>2, <1>3, <1>4, <1>5 DEF UpdateAgain, WalkInv, TypeOK

(* What AddTimer does to the queue.                                        *)
EntryOf(t, point) == [point |-> point, timer |-> t]

LEMMA EntryOfType ==
  ASSUME NEW t \in Timers, NEW point \in Nat
  PROVE  /\ EntryOf(t, point) \in Entries
         /\ EntryOf(t, point).timer = t /\ EntryOf(t, point).point = point
         /\ \A e \in Entries : e.timer = t /\ e.point = point => e = EntryOf(t, point)
BY DEF EntryOf, Entries

LEMMA AddTimerType ==
  ASSUME WalkInv, NEW t \in Timers, NEW point \in Nat, NEW lost,
         AddTimer(t, point, lost)
  PROVE  /\ timersSet' \subseteq Entries
         /\ timersSet \subseteq timersSet' /\ timersSet' \subseteq timersSet \cup {EntryOf(t, point)}
         /\ timerfd' \in TimerfdType
         /\ broken' \in {broken, "assert"}
         /\ owed' \in [Timers -> Nat \cup {Never}] /\ missed' \in [Timers -> Nat]
         /\ stray' \subseteq timersSet'
         /\ missed'[t] = 0
         /\ \A u \in Timers : u # t => owed'[u] = owed[u] /\ missed'[u] = missed[u]
<1> DEFINE e == EntryOf(t, point)
<1>1. e \in Entries
  BY EntryOfType
<1>2. /\ timersSet' = Insert(timersSet, e, now)
      /\ timerfd' = Rearmed(timersSet, timerfd, e, now)
      /\ broken' \in {broken, "assert"}
      /\ missed' = [missed EXCEPT ![t] = 0]
      /\ stray' \subseteq timersSet'
  BY DEF AddTimer, EntryOf
<1>3. /\ owed' \in [Timers -> Nat \cup {Never}]
      /\ \A u \in Timers : u # t => owed'[u] = owed[u]
  BY DEF AddTimer, WalkInv, TypeOK
<1> HIDE DEF e
<1>4. timersSet \subseteq Entries /\ now \in Nat /\ timerfd \in TimerfdType
  BY DEF WalkInv, TypeOK
<1>5. /\ timersSet' \subseteq Entries
      /\ timersSet \subseteq timersSet' /\ timersSet' \subseteq timersSet \cup {e}
  BY <1>1, <1>2, <1>4, InsertType
<1>6. timerfd' \in TimerfdType
  BY <1>1, <1>2, <1>4, RearmedType
<1>7. /\ missed' \in [Timers -> Nat] /\ missed'[t] = 0
      /\ \A u \in Timers : u # t => missed'[u] = missed[u]
  BY <1>2 DEF WalkInv, TypeOK
<1>8. QED
  BY <1>2, <1>3, <1>5, <1>6, <1>7 DEF e

LEMMA AddKeepsWalk ==
  ASSUME WalkInv, NEW t \in Timers, Add(t)
  PROVE  WalkInv'
<1>1. Works /\ UNCHANGED <<now, indexes, pc, it, iter, steps, unexpired>>
  BY DEF Add, UserRuns
<1>2. CASE timer[t].set
  <2>1. broken' = "assert" /\ UNCHANGED <<timer, timersSet, timerfd, owed, missed, stray>>
    BY <1>2 DEF Add
  <2>2. WalkSound'
    BY <1>1, <2>1, WalkStands DEF WalkInv
  <2>3. QED
    BY <1>1, <2>1, <2>2 DEF WalkInv, TypeOK
<1>3. CASE ~timer[t].set
  <2>1. AddTimer(t, timer[t].point, {}) /\ timer' = [timer EXCEPT ![t].set = TRUE]
    BY <1>3 DEF Add
  <2>2. timer[t].point \in Nat
    BY TimersAndEntries
  <2>3. /\ timersSet' \subseteq Entries
        /\ timersSet \subseteq timersSet' /\ timerfd' \in TimerfdType
        /\ broken' \in {broken, "assert"}
        /\ owed' \in [Timers -> Nat \cup {Never}] /\ missed' \in [Timers -> Nat]
        /\ stray' \subseteq timersSet'
    BY <2>1, <2>2, AddTimerType
  <2>4. timer' \in [Timers -> TimerType]
    BY <2>1 DEF WalkInv, TypeOK, TimerType
  <2>5. WalkSound'
    BY <1>1, <2>3, WalkStands DEF WalkInv
  <2>6. QED
    BY <1>1, <2>3, <2>4, <2>5 DEF WalkInv, TypeOK
<1>4. QED
  BY <1>2, <1>3

(* An iterator that is erased is not used any more: the queue is broken.   *)
LEMMA CancelKeepsWalk ==
  ASSUME WalkInv, NEW t \in Timers, Cancel(t)
  PROVE  WalkInv'
<1>1. timersSet' \subseteq timersSet
  BY DEF Cancel, CancelTimer
<1>2. timer' \in [Timers -> TimerType]
  BY DEF Cancel, WalkInv, TypeOK, TimerType
<1>3. /\ owed' \in [Timers -> Nat \cup {Never}] /\ missed' \in [Timers -> Nat]
      /\ stray' \subseteq timersSet'
  BY PromiseEndsType DEF Cancel
<1>4. broken' \in {"no", "iterator", "bad_function_call", "assert"}
  BY DEF Cancel, WalkInv, TypeOK
<1>5. WalkSound'
  <2>1. Works /\ pc \in {"idle", "callback"} /\ UNCHANGED <<pc, it, iter>>
    BY DEF Cancel, UserRuns
  <2>2. CASE pc = "idle"
    BY <2>1, <2>2 DEF WalkInv, WalkSound
  <2>3. CASE pc = "callback"
    <3>1. /\ it \in timersSet
          /\ iter = End \/ (iter \in timersSet /\ Before(it, iter))
      BY <2>1, <2>3 DEF WalkInv, WalkSound
    <3>2. ASSUME Works'
          PROVE  ({it, iter} \cap timersSet) \ timersSet' = {}
      BY <2>3, <3>2 DEF Cancel, Works
    <3>3. QED
      BY <2>1, <2>3, <3>1, <3>2 DEF WalkSound
  <2>4. QED
    BY <2>1, <2>2, <2>3
<1>6. QED
  BY <1>1, <1>2, <1>3, <1>4, <1>5 DEF Cancel, WalkInv, TypeOK

LEMMA ReleaseKeepsWalk ==
  ASSUME WalkInv, NEW t \in Timers, Release(t)
  PROVE  WalkInv'
<1>1. timer' \in [Timers -> TimerType]
  BY DEF Release, WalkInv, TypeOK, TimerType
<1>2. indexes' \in Seq(Timers)
  BY DEF Release, WalkInv, TypeOK
<1>3. /\ owed' \in [Timers -> Nat \cup {Never}] /\ missed' \in [Timers -> Nat]
      /\ stray' \subseteq timersSet'
  BY PromiseEndsType DEF Release
<1>4. WalkSound'
  BY WalkStands DEF Release, WalkInv, Works
<1>5. QED
  BY <1>1, <1>2, <1>3, <1>4 DEF Release, WalkInv, TypeOK

(* handleRead starts at the first entry and stops at one of those after it *)
LEMMA HandleReadStarts ==
  ASSUME WalkInv, HandleRead
  PROVE  /\ it' \in Entries \cup {End} /\ iter' \in Entries \cup {End}
         /\ \/ it' = iter'
            \/ /\ it' \in timersSet
               /\ iter' = End \/ (iter' \in timersSet /\ Before(it', iter'))
         /\ \A e \in timersSet : it' # End /\ ~Before(e, it')
         /\ iter' = End \/ (iter' \in timersSet /\ iter'.point > now)
         /\ \A e \in timersSet : e.point > now => iter' # End /\ ~Before(e, iter')
<1> DEFINE later == {e \in timersSet : e.point > now}
<1>1. timersSet \subseteq Entries /\ later \subseteq timersSet
  BY DEF WalkInv, TypeOK
<1>2. it' = First(timersSet) /\ iter' = First(later)
  BY DEF HandleRead, UpperBound
<1>3. CASE timersSet = {}
  <2>1. it' = End /\ iter' = End
    BY <1>1, <1>2, <1>3, EndIsNoEntry
  <2>2. QED
    BY <1>3, <2>1
<1>4. CASE timersSet # {} /\ later = {}
  <2>1. iter' = End
    BY <1>2, <1>4, EndIsNoEntry
  <2>2. /\ it' \in timersSet /\ it' # End
        /\ \A e \in timersSet : ~Before(e, it')
    BY <1>1, <1>2, <1>4, FirstOf
  <2>3. \A e \in timersSet : ~(e.point > now)
    BY <1>4
  <2>4. QED
    BY <1>1, <2>1, <2>2, <2>3
<1>5. CASE later # {}
  <2>1. /\ it' \in timersSet /\ it' # End
        /\ \A e \in timersSet : ~Before(e, it') /\ (e = it' \/ Before(it', e))
    BY <1>1, <1>2, <1>5, FirstOf
  <2>2. later \subseteq Entries
    BY <1>1
  <2> HIDE DEF later
  <2>3. iter' \in later /\ iter' # End /\ \A e \in later : ~Before(e, iter')
    BY <1>2, <1>5, <2>2, FirstOf
  <2>4. iter' \in timersSet /\ iter'.point > now
    BY <2>3 DEF later
  <2>5. \A e \in timersSet : e.point > now => ~Before(e, iter')
    BY <2>3 DEF later
  <2>6. QED
    BY <1>1, <2>1, <2>3, <2>4, <2>5
<1>6. QED
  BY <1>3, <1>4, <1>5

LEMMA HandleReadKeepsWalk ==
  ASSUME WalkInv, HandleRead
  PROVE  WalkInv'
<1>1. /\ it' \in Entries \cup {End} /\ iter' \in Entries \cup {End}
      /\ \/ it' = iter'
         \/ /\ it' \in timersSet
            /\ iter' = End \/ (iter' \in timersSet /\ Before(it', iter'))
  BY HandleReadStarts
<1>2. timerfd' \in TimerfdType
  BY DEF HandleRead, WalkInv, TypeOK, TimerfdType
<1>3. pc' = "walking" /\ UNCHANGED <<now, timer, indexes, timersSet, steps, owed, missed, stray>>
  BY DEF HandleRead
<1>4. broken' \in {"no", "iterator", "bad_function_call", "assert"}
  BY DEF HandleRead, WalkInv, TypeOK
<1>5. unexpired' \subseteq Entries
  BY DEF HandleRead, WalkInv, TypeOK
<1>6. QED
  BY <1>1, <1>2, <1>3, <1>4, <1>5 DEF WalkInv, WalkSound, TypeOK

(* The entry whose timer is processed.                                     *)
LEMMA Processed ==
  ASSUME WalkInv, ProcessTimedout
  PROVE  /\ it \in timersSet /\ it.timer \in Timers
         /\ iter = End \/ (iter \in timersSet /\ Before(it, iter))
<1>1. /\ it \in timersSet
      /\ iter = End \/ (iter \in timersSet /\ Before(it, iter))
  BY DEF ProcessTimedout, WalkInv, WalkSound
<1>2. QED
  BY <1>1, TimersAndEntries

LEMMA ProcessTimedoutKeepsWalk ==
  ASSUME WalkInv, ProcessTimedout
  PROVE  WalkInv'
<1>1. /\ it \in timersSet /\ it.timer \in Timers
      /\ iter = End \/ (iter \in timersSet /\ Before(it, iter))
  BY Processed
<1>2. UNCHANGED <<now, timer, indexes, timersSet, timerfd, it, iter, steps, unexpired>>
  BY DEF ProcessTimedout
<1>3. /\ broken' \in {"no", "iterator", "bad_function_call", "assert"}
      /\ pc' \in {"idle", "walking", "callback"} /\ pc' # "idle"
  BY DEF ProcessTimedout, WalkInv, TypeOK
<1>4. /\ owed' \in [Timers -> Nat \cup {Never}] /\ missed' \in [Timers -> Nat]
      /\ stray' \subseteq timersSet'
  <2>1. CASE it \in stray
    BY <1>2, <2>1 DEF ProcessTimedout, WalkInv, TypeOK
  <2>2. CASE it \notin stray
    BY <1>1, <2>2, PromiseEndsType DEF ProcessTimedout
  <2>3. QED
    BY <2>1, <2>2
<1>5. WalkSound'
  BY <1>1, <1>2, <1>3 DEF WalkSound
<1>6. QED
  BY <1>2, <1>3, <1>4, <1>5 DEF WalkInv, TypeOK

(* What the walk stands on while a callback runs, and the entry that a     *)
(* repeated timer gets.                                                    *)
LEMMA CalledBack ==
  ASSUME WalkInv, Works, pc = "callback"
  PROVE  /\ it \in timersSet /\ it \in Entries /\ it.timer \in Timers
         /\ iter = End \/ (iter \in timersSet /\ iter \in Entries /\ Before(it, iter))
         /\ now + timer[it.timer].duration * UnitsPerMs \in Nat
         /\ [point |-> now + timer[it.timer].duration * UnitsPerMs, timer |-> it.timer]
              \in Entries
<1>1. /\ it \in timersSet
      /\ iter = End \/ (iter \in timersSet /\ Before(it, iter))
  BY DEF WalkInv, WalkSound
<1>2. timersSet \subseteq Entries
  BY DEF WalkInv, TypeOK
<1>3. it.timer \in Timers /\ now \in Nat /\ timer[it.timer].duration \in Nat
  BY <1>1, TimersAndEntries
<1>4. timer[it.timer].duration * UnitsPerMs \in Nat
  BY <1>3, UnitsAssumption, TimesIsNatural
<1>5. now + timer[it.timer].duration * UnitsPerMs \in Nat
  BY <1>3, <1>4
<1>6. QED
  BY <1>1, <1>2, <1>3, <1>5 DEF Entries

(* The walk goes on: to the entry it stops at, or to one before it.        *)
LEMMA WalkGoesOn ==
  ASSUME NEW S, S \subseteq Entries, NEW e \in Entries, NEW stop \in S \cup {End},
         stop # End => Before(e, stop)
  PROVE  LET next == First({f \in S : Before(e, f)})
         IN  /\ next \in Entries \cup {End}
             /\ \/ next = stop
                \/ /\ next \in S
                   /\ stop = End \/ (stop \in S /\ Before(next, stop))
<1> DEFINE rest == {f \in S : Before(e, f)}
<1>1. rest \subseteq Entries
  OBVIOUS
<1>2. CASE rest = {}
  <2>1. stop = End
    BY <1>2
  <2>2. First(rest) = End
    BY <1>2, EndIsNoEntry
  <2>3. QED
    BY <2>1, <2>2
<1>3. CASE rest # {}
  <2>1. /\ First(rest) \in rest
        /\ \A f \in rest : f = First(rest) \/ Before(First(rest), f)
    BY <1>1, <1>3, FirstOf
  <2>2. CASE stop = End
    BY <2>1, <2>2
  <2>3. CASE stop # End
    <3>1. stop \in rest
      BY <2>3
    <3>2. QED
      BY <2>1, <3>1
  <2>4. QED
    BY <2>2, <2>3
<1>4. QED
  BY <1>2, <1>3

LEMMA CallbackReturnsKeepsWalk ==
  ASSUME WalkInv, CallbackReturns
  PROVE  WalkInv'
<1> DEFINE t == it.timer
           point == now + timer[t].duration * UnitsPerMs
<1>1. /\ it \in timersSet /\ it \in Entries /\ t \in Timers
      /\ iter = End \/ (iter \in timersSet /\ iter \in Entries /\ Before(it, iter))
      /\ point \in Nat
  BY CalledBack DEF CallbackReturns
<1>2. /\ IF timer[t].repeated
           THEN /\ timer' = [timer EXCEPT ![t].point = point]
                /\ AddTimer(t, point, EntriesOf(t))
           ELSE UNCHANGED <<timer, timersSet, timerfd, broken, owed, missed, stray>>
      /\ it' = First({f \in timersSet' : Before(it, f)})
      /\ pc' = "walking"
      /\ UNCHANGED <<now, indexes, iter, steps, unexpired>>
  BY DEF CallbackReturns
<1> HIDE DEF point, t
<1>3. /\ timersSet' \subseteq Entries /\ timersSet \subseteq timersSet'
      /\ timerfd' \in TimerfdType
      /\ broken' \in {broken, "assert"}
      /\ owed' \in [Timers -> Nat \cup {Never}] /\ missed' \in [Timers -> Nat]
      /\ stray' \subseteq timersSet'
  <2>1. CASE timer[t].repeated
    BY <1>1, <1>2, <2>1, AddTimerType
  <2>2. CASE ~timer[t].repeated
    BY <1>2, <2>2 DEF WalkInv, TypeOK
  <2>3. QED
    BY <2>1, <2>2
<1>4. timer' \in [Timers -> TimerType]
  <2>1. CASE timer[t].repeated
    <3>1. timer \in [Timers -> TimerType] /\ timer[t] \in TimerType
      BY <1>1 DEF WalkInv, TypeOK
    <3>2. [timer[t] EXCEPT !.point = point] \in TimerType
      BY <1>1, <3>1 DEF TimerType
    <3>3. timer' = [timer EXCEPT ![t] = [timer[t] EXCEPT !.point = point]]
      BY <1>2, <2>1
    <3>4. QED
      BY <3>1, <3>2, <3>3
  <2>2. CASE ~timer[t].repeated
    BY <1>2, <2>2 DEF WalkInv, TypeOK
  <2>3. QED
    BY <2>1, <2>2
<1>5. /\ it' \in Entries \cup {End}
      /\ \/ it' = iter
         \/ /\ it' \in timersSet'
            /\ iter = End \/ (iter \in timersSet' /\ Before(it', iter))
  <2>1. /\ iter \in timersSet' \cup {End} /\ (iter # End => Before(it, iter))
        /\ timersSet' \subseteq Entries /\ it \in Entries
    BY <1>1, <1>3
  <2> DEFINE next == First({f \in timersSet' : Before(it, f)})
  <2>2. /\ next \in Entries \cup {End}
        /\ \/ next = iter
           \/ /\ next \in timersSet'
              /\ iter = End \/ (iter \in timersSet' /\ Before(next, iter))
    BY <2>1, WalkGoesOn
  <2> HIDE DEF next
  <2>3. it' = next
    BY <1>2 DEF next
  <2>4. QED
    BY <2>2, <2>3
<1>6. WalkSound'
  BY <1>2, <1>5 DEF WalkSound
<1>7. QED
  BY <1>2, <1>3, <1>4, <1>5, <1>6 DEF WalkInv, TypeOK

LEMMA EraseExpiredKeepsWalk ==
  ASSUME WalkInv, EraseExpired
  PROVE  WalkInv'
<1>1. timersSet' \subseteq timersSet
  BY DEF EraseExpired, Erase
<1>2. stray' \subseteq timersSet' /\ unexpired' \subseteq Entries
  BY DEF EraseExpired
<1>3. QED
  BY <1>1, <1>2 DEF EraseExpired, WalkInv, WalkSound, TypeOK

LEMMA TickKeepsWalk ==
  ASSUME WalkInv, Tick
  PROVE  WalkInv'
<1>1. now' \in Nat
  BY DEF Tick, WalkInv, TypeOK
<1>2. timerfd' \in TimerfdType /\ timerfd'.times - timerfd.times \in Nat
  BY CountDownType DEF Tick, WalkInv, TypeOK
<1>3. missed' \in [Timers -> Nat]
  <2>1. \A t \in Timers : missed[t] + (timerfd'.times - timerfd.times) \in Nat
    BY <1>2 DEF WalkInv, TypeOK
  <2>2. QED
    BY <2>1 DEF Tick
<1>4. WalkSound'
  BY WalkStands DEF Tick, WalkInv, Works
<1>5. QED
  BY <1>1, <1>2, <1>3, <1>4 DEF Tick, WalkInv, TypeOK

LEMMA StepClockKeepsWalk ==
  ASSUME WalkInv, StepClock
  PROVE  WalkInv'
<1>1. now' \in Nat /\ steps' \in Nat
  BY ClockAssumption DEF StepClock, WalkInv, TypeOK
<1>2. missed' \in [Timers -> Nat]
  BY DEF StepClock, WalkInv, TypeOK
<1>3. WalkSound'
  BY WalkStands DEF StepClock, WalkInv, Works
<1>4. QED
  BY <1>1, <1>2, <1>3 DEF StepClock, WalkInv, TypeOK

LEMMA WalkStep == WalkInv /\ [Next]_vars => WalkInv'
<1> SUFFICES ASSUME WalkInv, [Next]_vars
             PROVE  WalkInv'
  OBVIOUS
<1>1. CASE NewTimer
  BY <1>1, NewTimerKeepsWalk
<1>2. ASSUME NEW t \in Timers, NEW repeat \in BOOLEAN, Reset(t, repeat)
      PROVE  WalkInv'
  BY <1>2, ResetKeepsWalk
<1>3. ASSUME NEW t \in Timers, NEW msec \in Durations, Update(t, msec)
      PROVE  WalkInv'
  BY <1>3, UpdateKeepsWalk
<1>4. ASSUME NEW t \in Timers, UpdateAgain(t)
      PROVE  WalkInv'
  BY <1>4, UpdateAgainKeepsWalk
<1>5. ASSUME NEW t \in Timers, Add(t)
      PROVE  WalkInv'
  BY <1>5, AddKeepsWalk
<1>6. ASSUME NEW t \in Timers, Cancel(t)
      PROVE  WalkInv'
  BY <1>6, CancelKeepsWalk
<1>7. ASSUME NEW t \in Timers, Release(t)
      PROVE  WalkInv'
  BY <1>7, ReleaseKeepsWalk
<1>8. CASE HandleRead
  BY <1>8, HandleReadKeepsWalk
<1>9. CASE ProcessTimedout
  BY <1>9, ProcessTimedoutKeepsWalk
<1>10. CASE CallbackReturns
  BY <1>10, CallbackReturnsKeepsWalk
<1>11. CASE EraseExpired
  BY <1>11, EraseExpiredKeepsWalk
<1>12. CASE Tick
  BY <1>12, TickKeepsWalk
<1>13. CASE StepClock
  BY <1>13, StepClockKeepsWalk
<1>14. CASE UNCHANGED vars
  BY <1>14 DEF vars, WalkInv, WalkSound, TypeOK, Works
<1>15. QED
  BY <1>1, <1>2, <1>3, <1>4, <1>5, <1>6, <1>7, <1>8, <1>9, <1>10, <1>11, <1>12, <1>13,
     <1>14 DEF Next, User, Walk, Clocks

LEMMA WalkInvariant == SafeSpec => []WalkInv
BY WalkInit, WalkStep, PTL DEF SafeSpec

(* Every variable keeps its type, whatever the users do.                   *)
THEOREM TypeCorrect == SafeSpec => []TypeOK
<1>1. WalkInv => TypeOK
  BY DEF WalkInv
<1>2. QED
  BY <1>1, WalkInvariant, PTL

(* The walk never stands on an entry that is not there, or beyond the one  *)
(* it stops at, unless something has broken: whatever the users do.        *)
THEOREM WalkIsSound == SafeSpec => []WalkSound
<1>1. WalkInv => WalkSound
  BY DEF WalkInv
<1>2. QED
  BY <1>1, WalkInvariant, PTL

(* AddTimer sets a timerfd that was never set, and no other.               *)
LEMMA AddTimerSets ==
  ASSUME WalkInv, NEW t \in Timers, NEW point \in Nat, NEW lost,
         AddTimer(t, point, lost)
  PROVE  timerfd' = IF point > now /\ ~timerfd.armed THEN ResetTimerfd(timerfd, point, now)
                                                     ELSE timerfd
<1> DEFINE e == EntryOf(t, point)
<1>1. e \in Entries /\ e.point = point
  BY EntryOfType
<1>2. timerfd' = Rearmed(timersSet, timerfd, e, now)
  BY DEF AddTimer, EntryOf
<1> HIDE DEF e
<1>3. timersSet \subseteq Entries /\ now \in Nat
  BY DEF WalkInv, TypeOK
<1>4. QED
  BY <1>1, <1>2, <1>3, RearmedOnce

(* Only AddTimer, the kernel and handleRead touch the timerfd.             *)
LEMMA TimerfdChanges ==
  ASSUME WalkInv, Next
  PROVE  \/ timerfd' = timerfd
         \/ \E t \in Timers, point \in Nat :
              \E lost \in {{}, EntriesOf(t)} : AddTimer(t, point, lost)
         \/ timerfd' = [timerfd EXCEPT !.times = 0]
         \/ timerfd' = CountDown(timerfd)
<1>1. ASSUME NEW t \in Timers, Add(t), timerfd' # timerfd
      PROVE  AddTimer(t, timer[t].point, {}) /\ timer[t].point \in Nat
  BY <1>1, TimersAndEntries DEF Add
<1>2. ASSUME CallbackReturns, timerfd' # timerfd
      PROVE  /\ it.timer \in Timers /\ now + timer[it.timer].duration * UnitsPerMs \in Nat
             /\ AddTimer(it.timer, now + timer[it.timer].duration * UnitsPerMs,
                         EntriesOf(it.timer))
  <2>1. it.timer \in Timers /\ now + timer[it.timer].duration * UnitsPerMs \in Nat
    BY <1>2, CalledBack DEF CallbackReturns
  <2>2. QED
    BY <1>2, <2>1 DEF CallbackReturns
<1>3. ASSUME NEW t \in Timers, NEW msec \in Durations, Update(t, msec)
      PROVE  timerfd' = timerfd
  BY <1>3 DEF Update
<1>4. ASSUME NEW t \in Timers, NEW repeat \in BOOLEAN, Reset(t, repeat)
      PROVE  timerfd' = timerfd
  BY <1>4 DEF Reset
<1>5. ASSUME NEW t \in Timers, UpdateAgain(t) \/ Cancel(t) \/ Release(t)
      PROVE  timerfd' = timerfd
  BY <1>5 DEF UpdateAgain, Cancel, Release
<1>6. ASSUME NewTimer \/ ProcessTimedout \/ EraseExpired \/ StepClock
      PROVE  timerfd' = timerfd
  BY <1>6 DEF NewTimer, ProcessTimedout, EraseExpired, StepClock
<1>7. ASSUME HandleRead
      PROVE  timerfd' = [timerfd EXCEPT !.times = 0]
  BY <1>7 DEF HandleRead
<1>8. ASSUME Tick
      PROVE  timerfd' = CountDown(timerfd)
  BY <1>8 DEF Tick
<1>9. QED
  BY <1>1, <1>2, <1>3, <1>4, <1>5, <1>6, <1>7, <1>8 DEF Next, User, Walk, Clocks

(* Once it is set, the timerfd is not set again for any timer that is      *)
(* added, however early: it keeps the period that the first one gave it.   *)
(* (TimerQueue.cpp:46-49 compare the new entry with a set it is in.)       *)
THEOREM TimerfdIsSetOnce ==
  SafeSpec => [][timerfd.armed => timerfd'.armed /\ timerfd'.period = timerfd.period]_vars
<1> DEFINE Stays == timerfd.armed => timerfd'.armed /\ timerfd'.period = timerfd.period
<1>1. ASSUME WalkInv, Next
      PROVE  Stays
  <2>1. timerfd \in TimerfdType
    BY <1>1 DEF WalkInv, TypeOK
  <2>2. ASSUME NEW t \in Timers, NEW point \in Nat, NEW lost,
               AddTimer(t, point, lost)
        PROVE  timerfd.armed => timerfd' = timerfd
    BY <1>1, <2>2, AddTimerSets
  <2>3. CountDown(timerfd).armed = timerfd.armed /\ CountDown(timerfd).period = timerfd.period
    BY <2>1, CountDownType
  <2>4. timerfd' = [timerfd EXCEPT !.times = 0] =>
          timerfd'.armed = timerfd.armed /\ timerfd'.period = timerfd.period
    BY <2>1 DEF TimerfdType
  <2>5. QED
    BY <1>1, <2>2, <2>3, <2>4, TimerfdChanges
<1>2. WalkInv /\ [Next]_vars => [Stays]_vars
  BY <1>1
<1>3. QED
  BY <1>2, WalkInvariant, PTL DEF SafeSpec

-----------------------------------------------------------------------------
(* What is promised. The walk will come to the entry e, or it is over:     *)
Ahead(e) ==
  \/ pc = "idle"
  \/ pc = "walking" /\ it # End /\ ~Before(e, it)
  \/ pc = "callback" /\ Before(it, e)

Waits(e) == e \in timersSet /\ e \notin stray

(* A timer in use has a callback; its entry is at its present point; and   *)
(* its user is promised a call just as long as the entry is ahead.         *)
TimerKept(t) ==
  /\ Held(t) /\ timer[t].set => timer[t].callback
  /\ \A e \in Entries : e.timer = t /\ Waits(e) =>
       Held(t) /\ timer[t].set /\ timer[t].point = e.point /\ timer[t].callback
  /\ Works /\ owed[t] # Never => Waits(EntryOf(t, owed[t])) /\ Ahead(EntryOf(t, owed[t]))
  /\ \A e \in Entries : e.timer = t /\ Waits(e) /\ Works /\ Ahead(e) => owed[t] = e.point

(* The walk stops at the first entry that has not expired, or before it.   *)
StopIsUnexpired == pc # "idle" => \A e \in unexpired : iter # End /\ ~Before(e, iter)

CallInv == WalkInv /\ (\A t \in Timers : TimerKept(t)) /\ StopIsUnexpired

LEMMA CallInit == Init => CallInv
<1> SUFFICES ASSUME Init
             PROVE  CallInv
  OBVIOUS
<1>1. \A t \in Timers : TimerKept(t)
  BY DEF Init, TimerKept, Waits
<1>2. QED
  BY <1>1, WalkInit DEF Init, CallInv, StopIsUnexpired

(* A timer that a step does not touch.                                     *)
LEMMA TimerStays ==
  ASSUME NEW t \in Timers, TimerKept(t), timer'[t] = timer[t], owed'[t] = owed[t],
         Held(t)' <=> Held(t), Works' => Works, owed[t] \in Nat \cup {Never},
         \A e \in Entries : e.timer = t => (Waits(e)' <=> Waits(e)),
         \A e \in Entries : e.timer = t /\ Waits(e) /\ Works' => (Ahead(e)' <=> Ahead(e))
  PROVE  TimerKept(t)'
<1>1. Held(t)' /\ timer'[t].set => timer'[t].callback
  BY DEF TimerKept
<1>2. ASSUME NEW e \in Entries, e.timer = t, Waits(e)'
      PROVE  Held(t)' /\ timer'[t].set /\ timer'[t].point = e.point /\ timer'[t].callback
  BY <1>2 DEF TimerKept
<1>3. ASSUME Works', owed'[t] # Never
      PROVE  Waits(EntryOf(t, owed[t]))' /\ Ahead(EntryOf(t, owed[t]))'
  <2>1. PICK e \in Entries : e = EntryOf(t, owed[t]) /\ e.timer = t
    BY <1>3, EntryOfType
  <2>2. Waits(e) /\ Ahead(e)
    BY <1>3, <2>1 DEF TimerKept
  <2>3. Waits(e)' /\ Ahead(e)'
    BY <1>3, <2>1, <2>2
  <2>4. EntryOf(t, owed[t])' = e
    BY <2>1 DEF EntryOf
  <2>5. QED
    BY <2>3, <2>4 DEF Waits, Ahead
<1>4. ASSUME NEW e \in Entries, e.timer = t, Waits(e)', Works', Ahead(e)'
      PROVE  owed'[t] = e.point
  BY <1>4 DEF TimerKept
<1>5. QED
  BY <1>1, <1>2, <1>3, <1>4 DEF TimerKept

LEMMA NewTimerKeepsCalls ==
  ASSUME CallInv, NewTimer
  PROVE  CallInv'
<1> DEFINE top == indexes[Len(indexes)]
<1>1. /\ top \in Timers /\ Len(indexes) \in Nat /\ Len(indexes) > 0
      /\ indexes \in Seq(Timers)
  BY DEF CallInv, WalkInv, TypeOK, NewTimer
<1>2. /\ timer' = [timer EXCEPT ![top].repeated = FALSE, ![top].set = FALSE]
      /\ indexes' = SubSeq(indexes, 1, Len(indexes) - 1)
      /\ UNCHANGED <<timersSet, pc, it, iter, broken, owed, stray, unexpired>>
  BY DEF NewTimer, history
<1>3. ~Held(top)
  BY <1>1 DEF Held
<1>4. ASSUME NEW t \in Timers, t # top
      PROVE  Held(t)' <=> Held(t)
  <2>1. DOMAIN indexes = 1 .. Len(indexes) /\ DOMAIN indexes' = 1 .. Len(indexes) - 1
    BY <1>1, <1>2
  <2>2. \A i \in 1 .. Len(indexes) - 1 : indexes'[i] = indexes[i]
    BY <1>1, <1>2
  <2>3. QED
    BY <1>1, <1>4, <2>1, <2>2 DEF Held
<1> HIDE DEF top
<1>5. timer \in [Timers -> TimerType] /\ owed \in [Timers -> Nat \cup {Never}]
  BY DEF CallInv, WalkInv, TypeOK
<1>6. ~timer'[top].set /\ \A t \in Timers : t # top => timer'[t] = timer[t]
  BY <1>1, <1>2, <1>5 DEF TimerType
<1>7. ASSUME NEW t \in Timers
      PROVE  TimerKept(t)'
  <2>1. TimerKept(t)
    BY DEF CallInv
  <2>2. CASE t = top
    <3>1. \A e \in Entries : e.timer = t => ~Waits(e)
      BY <1>3, <2>1, <2>2 DEF TimerKept
    <3>2. Works => owed[t] = Never
      BY <1>3, <1>5, <2>1, <2>2, EntryOfType DEF TimerKept
    <3>3. QED
      BY <1>2, <1>6, <2>2, <3>1, <3>2 DEF TimerKept, Waits, Works
  <2>3. CASE t # top
    <3>1. timer'[t] = timer[t] /\ owed'[t] = owed[t] /\ (Held(t)' <=> Held(t))
          /\ owed[t] \in Nat \cup {Never}
      BY <1>2, <1>4, <1>5, <1>6, <2>3
    <3>2. /\ Works' => Works
          /\ \A e : (Waits(e)' <=> Waits(e)) /\ (Ahead(e)' <=> Ahead(e))
      BY <1>2 DEF Works, Waits, Ahead
    <3>3. QED
      BY <2>1, <3>1, <3>2, TimerStays
  <2>4. QED
    BY <2>2, <2>3
<1>8. StopIsUnexpired'
  BY <1>2 DEF CallInv, StopIsUnexpired
<1>9. QED
  BY <1>7, <1>8, NewTimerKeepsWalk DEF CallInv

LEMMA ResetKeepsCalls ==
  ASSUME CallInv, NEW t \in Timers, NEW repeat \in BOOLEAN, Reset(t, repeat)
  PROVE  CallInv'
<1>1. /\ timer' = [timer EXCEPT ![t].callback = TRUE, ![t].repeated = repeat]
      /\ UNCHANGED <<indexes, timersSet, pc, it, iter, broken, owed, stray, unexpired>>
  BY DEF Reset, history
<1>2. timer \in [Timers -> TimerType] /\ owed \in [Timers -> Nat \cup {Never}]
  BY DEF CallInv, WalkInv, TypeOK
<1>3. /\ timer'[t].callback /\ timer'[t].set = timer[t].set /\ timer'[t].point = timer[t].point
      /\ \A u \in Timers : u # t => timer'[u] = timer[u]
  BY <1>1, <1>2 DEF TimerType
<1>4. /\ Works' <=> Works
      /\ \A e : (Waits(e)' <=> Waits(e)) /\ (Ahead(e)' <=> Ahead(e))
      /\ \A u \in Timers : Held(u)' <=> Held(u)
  BY <1>1 DEF Works, Waits, Ahead, Held
<1>5. ASSUME NEW u \in Timers
      PROVE  TimerKept(u)'
  <2>1. TimerKept(u) /\ owed'[u] = owed[u] /\ owed[u] \in Nat \cup {Never}
    BY <1>1, <1>2 DEF CallInv
  <2>2. CASE u = t
    <3>1. EntryOf(u, owed[u])' = EntryOf(u, owed[u])
      BY <2>1 DEF EntryOf
    <3>2. \A e \in Entries : e.timer = u /\ Waits(e) =>
            Held(u) /\ timer[u].set /\ timer[u].point = e.point
      BY <2>1 DEF TimerKept
    <3>3. Works /\ owed[u] # Never => Waits(EntryOf(u, owed[u])) /\ Ahead(EntryOf(u, owed[u]))
      BY <2>1 DEF TimerKept
    <3>4. Works' /\ owed'[u] # Never =>
            Waits(EntryOf(u, owed[u]))' /\ Ahead(EntryOf(u, owed[u]))'
      BY <1>1, <2>1, <3>1, <3>3 DEF Works, Waits, Ahead
    <3>5. \A e \in Entries : e.timer = u /\ Waits(e)' /\ Works' /\ Ahead(e)' => owed'[u] = e.point
      BY <1>4, <2>1 DEF TimerKept
    <3>6. QED
      BY <1>3, <1>4, <2>2, <3>2, <3>4, <3>5 DEF TimerKept
  <2>3. CASE u # t
    BY <1>3, <1>4, <2>1, <2>3, TimerStays
  <2>4. QED
    BY <2>2, <2>3
<1>6. StopIsUnexpired'
  BY <1>1 DEF CallInv, StopIsUnexpired
<1>7. QED
  BY <1>5, <1>6, ResetKeepsWalk DEF CallInv

(* A timer that nothing is promised for and that no entry waits for.       *)
LEMMA TimerGone ==
  ASSUME NEW t \in Timers, owed'[t] = Never, \A e \in Entries : e.timer = t => ~Waits(e)',
         Held(t)' /\ timer'[t].set => timer'[t].callback
  PROVE  TimerKept(t)'
BY DEF TimerKept

(* PromiseEnds with all the entries of t, for a set of entries that stays. *)
LEMMA EntriesLost ==
  ASSUME WalkInv, NEW t \in Timers, timersSet' = timersSet,
         stray' = (stray \cup EntriesOf(t)) \cap timersSet'
  PROVE  /\ \A e \in Entries : e.timer = t => ~Waits(e)'
         /\ \A e \in Entries : e.timer # t => (Waits(e)' <=> Waits(e))
BY DEF EntriesOf, Waits

(* Update, UpdateAgain and Release: nothing is promised for t any more.    *)
LEMMA LosingKeepsCalls ==
  ASSUME CallInv, NEW t \in Timers, PromiseEnds(t, EntriesOf(t)),
         UNCHANGED <<timersSet, pc, it, iter, unexpired>>, Works' => Works,
         Held(t)' /\ timer'[t].set => timer'[t].callback,
         \A u \in Timers : u # t => timer'[u] = timer[u] /\ (Held(u)' <=> Held(u))
  PROVE  (\A u \in Timers : TimerKept(u)') /\ StopIsUnexpired'
<1>1. /\ owed'[t] = Never
      /\ \A u \in Timers : u # t => owed'[u] = owed[u]
      /\ \A u \in Timers : owed[u] \in Nat \cup {Never}
  <2>1. WalkInv /\ owed \in [Timers -> Nat \cup {Never}]
    BY DEF CallInv, WalkInv, TypeOK
  <2>2. QED
    BY <2>1, PromiseEndsType
<1>2. /\ \A e \in Entries : e.timer = t => ~Waits(e)'
      /\ \A e \in Entries : e.timer # t => (Waits(e)' <=> Waits(e))
  <2>1. stray' = (stray \cup EntriesOf(t)) \cap timersSet'
    BY DEF PromiseEnds
  <2>2. QED
    BY <2>1, EntriesLost DEF CallInv
<1>3. \A e : Ahead(e)' <=> Ahead(e)
  BY DEF Ahead
<1>4. ASSUME NEW u \in Timers
      PROVE  TimerKept(u)'
  <2>1. CASE u = t
    BY <1>1, <1>2, <2>1, TimerGone
  <2>2. CASE u # t
    <3>1. /\ TimerKept(u) /\ timer'[u] = timer[u] /\ owed'[u] = owed[u]
          /\ (Held(u)' <=> Held(u)) /\ owed[u] \in Nat \cup {Never}
      BY <1>1, <2>2 DEF CallInv
    <3>2. \A e \in Entries : e.timer = u => (Waits(e)' <=> Waits(e))
      BY <1>2, <2>2
    <3>3. QED
      BY <1>3, <3>1, <3>2, TimerStays
  <2>3. QED
    BY <2>1, <2>2
<1>5. StopIsUnexpired'
  BY DEF CallInv, StopIsUnexpired
<1>6. QED
  BY <1>4, <1>5

LEMMA UpdateKeepsCalls ==
  ASSUME CallInv, NEW t \in Timers, NEW msec \in Durations, Update(t, msec)
  PROVE  CallInv'
<1>1. /\ timer[t].callback /\ PromiseEnds(t, EntriesOf(t))
      /\ timer' = [timer EXCEPT ![t].duration = msec, ![t].point = now + msec * UnitsPerMs]
      /\ UNCHANGED <<indexes, timersSet, pc, it, iter, broken, unexpired>>
  BY DEF Update
<1>2. timer \in [Timers -> TimerType]
  BY DEF CallInv, WalkInv, TypeOK
<1>3. /\ timer'[t].callback
      /\ \A u \in Timers : u # t => timer'[u] = timer[u]
  BY <1>1, <1>2 DEF TimerType
<1>4. (Works' => Works) /\ \A u \in Timers : Held(u)' <=> Held(u)
  BY <1>1 DEF Works, Held
<1>5. (\A u \in Timers : TimerKept(u)') /\ StopIsUnexpired'
  BY <1>1, <1>3, <1>4, LosingKeepsCalls
<1>6. QED
  BY <1>5, UpdateKeepsWalk DEF CallInv

LEMMA UpdateAgainKeepsCalls ==
  ASSUME CallInv, NEW t \in Timers, UpdateAgain(t)
  PROVE  CallInv'
<1>1. /\ Works /\ PromiseEnds(t, EntriesOf(t))
      /\ timer' = [timer EXCEPT ![t].repeated = FALSE,
                                ![t].point = now + timer[t].duration * UnitsPerMs]
      /\ UNCHANGED <<indexes, timersSet, pc, it, iter, unexpired>>
  BY DEF UpdateAgain, UserRuns
<1>2. timer \in [Timers -> TimerType] /\ TimerKept(t)
  BY DEF CallInv, WalkInv, TypeOK
<1>3. /\ timer'[t].callback = timer[t].callback /\ timer'[t].set = timer[t].set
      /\ \A u \in Timers : u # t => timer'[u] = timer[u]
  BY <1>1, <1>2 DEF TimerType
<1>4. (Works' => Works) /\ \A u \in Timers : Held(u)' <=> Held(u)
  BY <1>1 DEF Held
<1>5. Held(t)' /\ timer'[t].set => timer'[t].callback
  BY <1>2, <1>3, <1>4 DEF TimerKept
<1>6. (\A u \in Timers : TimerKept(u)') /\ StopIsUnexpired'
  BY <1>1, <1>3, <1>4, <1>5, LosingKeepsCalls
<1>7. QED
  BY <1>6, UpdateAgainKeepsWalk DEF CallInv

LEMMA ReleaseKeepsCalls ==
  ASSUME CallInv, NEW t \in Timers, Release(t)
  PROVE  CallInv'
<1>1. /\ PromiseEnds(t, EntriesOf(t))
      /\ timer' = [timer EXCEPT ![t].callback = FALSE]
      /\ indexes' = Append(indexes, t)
      /\ UNCHANGED <<timersSet, pc, it, iter, broken, unexpired>>
  BY DEF Release
<1>2. timer \in [Timers -> TimerType] /\ indexes \in Seq(Timers)
  BY DEF CallInv, WalkInv, TypeOK
<1>3. \A u \in Timers : u # t => timer'[u] = timer[u]
  BY <1>1, <1>2
<1>4. /\ DOMAIN indexes = 1 .. Len(indexes) /\ DOMAIN indexes' = 1 .. Len(indexes) + 1
      /\ Len(indexes) \in Nat
      /\ \A i \in 1 .. Len(indexes) : indexes'[i] = indexes[i]
      /\ indexes'[Len(indexes) + 1] = t
  BY <1>1, <1>2
<1>5. ~Held(t)' /\ \A u \in Timers : u # t => (Held(u)' <=> Held(u))
  BY <1>4 DEF Held
<1>6. (\A u \in Timers : TimerKept(u)') /\ StopIsUnexpired'
  BY <1>1, <1>3, <1>5, LosingKeepsCalls DEF Works
<1>7. QED
  BY <1>6, ReleaseKeepsWalk DEF CallInv

LEMMA CancelKeepsCalls ==
  ASSUME CallInv, NEW t \in Timers, Cancel(t)
  PROVE  CallInv'
<1>1. /\ timer' = [timer EXCEPT ![t].set = FALSE]
      /\ timersSet' = timersSet \ {EntryOf(t, timer[t].point)}
      /\ PromiseEnds(t, {}) /\ Works
      /\ UNCHANGED <<indexes, pc, it, iter, unexpired>>
  BY DEF Cancel, CancelTimer, EntryOf, UserRuns
<1>2. timer \in [Timers -> TimerType] /\ timer[t].point \in Nat
  BY TimersAndEntries DEF CallInv, WalkInv, TypeOK
<1>3. ~timer'[t].set /\ \A u \in Timers : u # t => timer'[u] = timer[u]
  BY <1>1, <1>2 DEF TimerType
<1>4. /\ owed'[t] = Never
      /\ \A u \in Timers : u # t => owed'[u] = owed[u]
      /\ \A u \in Timers : owed[u] \in Nat \cup {Never}
  <2>1. WalkInv /\ owed \in [Timers -> Nat \cup {Never}]
    BY DEF CallInv, WalkInv, TypeOK
  <2>2. QED
    BY <1>1, <2>1, PromiseEndsType
<1>5. stray' = stray \cap timersSet' /\ stray \subseteq timersSet
  BY <1>1 DEF PromiseEnds, CallInv, WalkInv, TypeOK
<1>6. EntryOf(t, timer[t].point).timer = t
  BY DEF EntryOf
<1>7. ASSUME NEW e \in Entries
      PROVE  /\ e.timer # t => (Waits(e)' <=> Waits(e))
             /\ e.timer = t => ~Waits(e)'
  <2>1. e.timer # t => (Waits(e)' <=> Waits(e))
    BY <1>1, <1>5, <1>6 DEF Waits
  <2>2. ASSUME e.timer = t, Waits(e)'
        PROVE  FALSE
    <3>1. Waits(e)
      BY <1>1, <1>5, <2>2 DEF Waits
    <3>2. timer[t].point = e.point
      BY <2>2, <3>1 DEF CallInv, TimerKept
    <3>3. e = EntryOf(t, timer[t].point)
      BY <1>2, <2>2, <3>2, EntryOfType
    <3>4. QED
      BY <1>1, <2>2, <3>3 DEF Waits
  <2>3. QED
    BY <2>1, <2>2
<1>8. (\A e : Ahead(e)' <=> Ahead(e)) /\ \A u \in Timers : Held(u)' <=> Held(u)
  BY <1>1 DEF Ahead, Held
<1>9. ASSUME NEW u \in Timers
      PROVE  TimerKept(u)'
  <2>1. CASE u = t
    BY <1>3, <1>4, <1>7, <2>1, TimerGone
  <2>2. CASE u # t
    <3>1. /\ TimerKept(u) /\ timer'[u] = timer[u] /\ owed'[u] = owed[u]
          /\ (Held(u)' <=> Held(u)) /\ owed[u] \in Nat \cup {Never} /\ (Works' => Works)
      BY <1>1, <1>3, <1>4, <1>8, <2>2 DEF CallInv
    <3>2. \A e \in Entries : e.timer = u => (Waits(e)' <=> Waits(e))
      BY <1>7, <2>2
    <3>3. QED
      BY <1>8, <3>1, <3>2, TimerStays
  <2>3. QED
    BY <2>1, <2>2
<1>10. StopIsUnexpired'
  BY <1>1 DEF CallInv, StopIsUnexpired
<1>11. QED
  BY <1>9, <1>10, CancelKeepsWalk DEF CallInv

(* What AddTimer promises, when t has left behind all the entries that     *)
(* waited for it.                                                          *)
LEMMA AddTimerPromises ==
  ASSUME WalkInv, NEW t \in Timers, NEW point \in Nat, NEW lost,
         lost \subseteq EntriesOf(t), \A e \in Entries : e.timer = t /\ Waits(e) => e \in lost,
         AddTimer(t, point, lost)
  PROVE  /\ \A e \in Entries : e.timer # t => (Waits(e)' <=> Waits(e))
         /\ \A e \in Entries : e.timer = t /\ Waits(e)' =>
              e = EntryOf(t, point) /\ Held(t) /\ timer'[t].set /\ owed'[t] = point
         /\ owed'[t] # Never => owed'[t] = point /\ (pc = "callback" => Before(it, EntryOf(t, point)))
         /\ owed'[t] # Never /\ Works' => Waits(EntryOf(t, point))'
<1> DEFINE new == EntryOf(t, point)
           promised == point > now /\ Held(t) /\ timer'[t].set /\ ~(pc = "callback" /\ ~Before(it, new))
<1>1. new \in Entries /\ new.timer = t /\ new.point = point
  BY EntryOfType
<1>2. /\ timersSet' = Insert(timersSet, new, now)
      /\ broken' = IF point > now /\ new \in timersSet THEN "assert" ELSE broken
      /\ owed' = [owed EXCEPT ![t] = IF promised THEN point ELSE Never]
      /\ stray' = (stray \cup lost \cup IF promised THEN {} ELSE {new}) \cap timersSet'
  BY DEF AddTimer, EntryOf
<1>3. promised => point > now /\ Held(t) /\ timer'[t].set /\ (pc = "callback" => Before(it, new))
  OBVIOUS
<1> HIDE DEF new, promised
<1>4. /\ timersSet \subseteq Entries /\ now \in Nat /\ stray \subseteq timersSet
      /\ owed \in [Timers -> Nat \cup {Never}]
  BY DEF WalkInv, TypeOK
<1>5. /\ timersSet \subseteq timersSet' /\ timersSet' \subseteq timersSet \cup {new}
      /\ point > now => new \in timersSet'
  BY <1>1, <1>2, <1>4, InsertType
<1>6. \A e \in lost : e \in timersSet /\ e.timer = t
  BY DEF EntriesOf
<1>7. owed'[t] = IF promised THEN point ELSE Never
  BY <1>2, <1>4
<1>8. \A e \in Entries : e.timer # t => (Waits(e)' <=> Waits(e))
  BY <1>1, <1>2, <1>5, <1>6 DEF Waits
<1>9. ASSUME NEW e \in Entries, e.timer = t, Waits(e)'
       PROVE  e = new /\ promised
  <2>1. e \in timersSet' /\ e \notin stray /\ e \notin lost /\ (promised \/ e # new)
    BY <1>2, <1>9 DEF Waits
  <2>2. e \notin timersSet
    BY <1>9, <2>1 DEF Waits
  <2>3. QED
    BY <1>5, <2>1, <2>2
<1>10. ASSUME owed'[t] # Never, Works'
       PROVE  Waits(new)'
  <2>1. promised /\ new \in timersSet'
    BY <1>3, <1>5, <1>7, <1>10
  <2>2. new \notin timersSet
    BY <1>2, <1>3, <1>10, <2>1 DEF Works
  <2>3. new \notin stray'
    BY <1>2, <1>4, <1>6, <2>1, <2>2
  <2>4. new' = new
    BY DEF new, EntryOf
  <2>5. QED
    BY <2>1, <2>3, <2>4 DEF Waits
<1>11. QED
  <2>1. \A e \in Entries : e.timer = t /\ Waits(e)' => e = new /\ Held(t) /\ timer'[t].set /\ owed'[t] = point
    BY <1>3, <1>7, <1>9
  <2>2. owed'[t] # Never => owed'[t] = point /\ (pc = "callback" => Before(it, new))
    BY <1>3, <1>7
  <2>3. QED
    BY <1>8, <1>10, <2>1, <2>2 DEF new

LEMMA AddKeepsCalls ==
  ASSUME CallInv, NEW t \in Timers, Add(t)
  PROVE  CallInv'
<1>1. /\ Works /\ pc \in {"idle", "callback"} /\ Held(t) /\ timer[t].callback
      /\ UNCHANGED <<now, indexes, pc, it, iter, steps, unexpired>>
  BY DEF Add, UserRuns
<1>2. /\ \A e : Ahead(e)' <=> Ahead(e)
      /\ \A u \in Timers : Held(u)' <=> Held(u)
  BY <1>1 DEF Ahead, Held
<1>3. /\ WalkInv /\ timer \in [Timers -> TimerType] /\ timer[t].point \in Nat
      /\ \A u \in Timers : owed[u] \in Nat \cup {Never} /\ TimerKept(u)
  BY TimersAndEntries DEF CallInv, WalkInv, TypeOK
<1>4. CASE timer[t].set
  <2>1. broken' = "assert" /\ UNCHANGED <<timer, timersSet, timerfd, owed, missed, stray>>
    BY <1>4 DEF Add
  <2>2. ~Works' /\ \A e : Waits(e)' <=> Waits(e)
    BY <2>1 DEF Works, Waits
  <2>3. ASSUME NEW u \in Timers
        PROVE  TimerKept(u)'
    BY <1>2, <1>3, <2>1, <2>2, TimerStays
  <2>4. QED
    BY <1>1, <2>3, AddKeepsWalk DEF CallInv, StopIsUnexpired
<1>5. CASE ~timer[t].set
  <2>1. AddTimer(t, timer[t].point, {}) /\ timer' = [timer EXCEPT ![t].set = TRUE]
    BY <1>5 DEF Add
  <2>2. /\ timer'[t].set /\ timer'[t].callback /\ timer'[t].point = timer[t].point
        /\ \A u \in Timers : u # t => timer'[u] = timer[u]
    BY <1>1, <1>3, <2>1 DEF TimerType
  <2>3. PICK point \in Nat : point = timer[t].point
    BY <1>3
  <2>4. /\ \A e \in Entries : e.timer # t => (Waits(e)' <=> Waits(e))
        /\ \A e \in Entries : e.timer = t /\ Waits(e)' => e = EntryOf(t, point) /\ owed'[t] = point
        /\ owed'[t] # Never => owed'[t] = point /\ (pc = "callback" => Before(it, EntryOf(t, point)))
        /\ owed'[t] # Never /\ Works' => Waits(EntryOf(t, point))'
    <3>1. \A e \in Entries : e.timer = t => ~Waits(e)
      BY <1>3, <1>5 DEF TimerKept
    <3>2. WalkInv /\ AddTimer(t, point, {}) /\ {} \subseteq EntriesOf(t)
      BY <1>3, <2>1, <2>3
    <3>3. QED
      BY <3>1, <3>2, AddTimerPromises
  <2>5. (Works' => Works) /\ \A u \in Timers : u # t => owed'[u] = owed[u]
    BY <1>1, <1>3, <2>1, AddTimerType
  <2>6. TimerKept(t)'
    <3>1. ASSUME Works', owed'[t] # Never
          PROVE  Waits(EntryOf(t, owed[t]))' /\ Ahead(EntryOf(t, owed[t]))'
      <4>1. Waits(EntryOf(t, point))' /\ owed'[t] = point
        BY <2>4, <3>1
      <4>2. Ahead(EntryOf(t, point))
        BY <1>1, <2>4, <3>1 DEF Ahead
      <4>3. EntryOf(t, owed[t])' = EntryOf(t, point)
        BY <4>1 DEF EntryOf
      <4>4. QED
        BY <1>1, <4>1, <4>2, <4>3 DEF Waits, Ahead
    <3>2. EntryOf(t, point).point = point
      BY DEF EntryOf
    <3>3. \A e \in Entries : e.timer = t /\ Waits(e)' =>
            /\ Held(t)' /\ timer'[t].set /\ timer'[t].point = e.point /\ timer'[t].callback
            /\ owed'[t] = e.point
      BY <1>1, <1>2, <2>2, <2>3, <2>4, <3>2
    <3>4. QED
      BY <2>2, <3>1, <3>3 DEF TimerKept
  <2>7. ASSUME NEW u \in Timers, u # t
        PROVE  TimerKept(u)'
    <3>1. /\ TimerKept(u) /\ timer'[u] = timer[u] /\ owed'[u] = owed[u]
          /\ (Held(u)' <=> Held(u)) /\ owed[u] \in Nat \cup {Never} /\ (Works' => Works)
      BY <1>2, <1>3, <2>2, <2>5, <2>7
    <3>2. \A e \in Entries : e.timer = u => (Waits(e)' <=> Waits(e))
      BY <2>4, <2>7
    <3>3. QED
      BY <1>2, <3>1, <3>2, TimerStays
  <2>8. \A u \in Timers : TimerKept(u)'
    BY <2>6, <2>7
  <2>9. StopIsUnexpired'
    BY <1>1 DEF CallInv, StopIsUnexpired
  <2>10. QED
    BY <2>8, <2>9, AddKeepsWalk DEF CallInv
<1>6. QED
  BY <1>4, <1>5

LEMMA HandleReadKeepsCalls ==
  ASSUME CallInv, HandleRead
  PROVE  CallInv'
<1>1. /\ Works /\ pc = "idle" /\ pc' = "walking"
      /\ unexpired' = {e \in timersSet : e.point > now}
      /\ UNCHANGED <<now, timer, indexes, timersSet, owed, stray>>
  BY DEF HandleRead
<1>2. /\ WalkInv /\ WalkInv'
      /\ \A e \in timersSet : it' # End /\ ~Before(e, it')
      /\ \A e \in timersSet : e.point > now => iter' # End /\ ~Before(e, iter')
  BY HandleReadKeepsWalk, HandleReadStarts DEF CallInv
<1>3. ASSUME NEW t \in Timers
      PROVE  TimerKept(t)'
  <2>1. /\ TimerKept(t) /\ timer'[t] = timer[t] /\ owed'[t] = owed[t]
        /\ (Held(t)' <=> Held(t)) /\ owed[t] \in Nat \cup {Never} /\ (Works' => Works)
    BY <1>1 DEF CallInv, WalkInv, TypeOK, Held
  <2>2. \A e : Waits(e)' <=> Waits(e)
    BY <1>1 DEF Waits
  <2>3. \A e : Waits(e) => (Ahead(e)' <=> Ahead(e))
    BY <1>1, <1>2 DEF Waits, Ahead
  <2>4. QED
    BY <2>1, <2>2, <2>3, TimerStays
<1>4. StopIsUnexpired'
  BY <1>1, <1>2 DEF StopIsUnexpired
<1>5. QED
  BY <1>2, <1>3, <1>4 DEF CallInv

(* The entry that is processed is a stray one, or its user is promised the *)
(* call, its time has come, and there is a callback to call.               *)
LEMMA ProcessedIsPromised ==
  ASSUME CallInv, ProcessTimedout
  PROVE  /\ it \in timersSet /\ it \in Entries /\ it.timer \in Timers
         /\ it \notin unexpired
         /\ it \notin stray => owed[it.timer] = it.point /\ timer[it.timer].callback
<1>1. /\ it \in timersSet /\ it.timer \in Timers
      /\ iter = End \/ Before(it, iter)
  BY Processed DEF CallInv
<1>2. it \in Entries /\ it # End
  BY <1>1, EndIsNoEntry DEF CallInv, WalkInv, TypeOK
<1>3. Works /\ pc = "walking" /\ it # iter
  BY DEF ProcessTimedout
<1>4. it \notin unexpired
  BY <1>1, <1>3 DEF CallInv, StopIsUnexpired
<1>5. ASSUME it \notin stray
      PROVE  owed[it.timer] = it.point /\ timer[it.timer].callback
  <2>1. ~Before(it, it)
    BY <1>2, OrderIsStrict
  <2>2. Waits(it) /\ Ahead(it)
    BY <1>1, <1>2, <1>3, <1>5, <2>1 DEF Waits, Ahead
  <2>3. TimerKept(it.timer)
    BY <1>1 DEF CallInv
  <2>4. QED
    BY <1>2, <1>3, <2>2, <2>3 DEF TimerKept
<1>6. QED
  BY <1>1, <1>2, <1>4, <1>5

LEMMA ProcessTimedoutKeepsCalls ==
  ASSUME CallInv, ProcessTimedout
  PROVE  CallInv'
<1>1. /\ it \in timersSet /\ it \in Entries /\ it.timer \in Timers /\ it # End
  BY ProcessedIsPromised, EndIsNoEntry
<1>2. /\ Works /\ pc = "walking"
      /\ Works' => pc' = "callback"
      /\ pc' \in {"walking", "callback"}
      /\ UNCHANGED <<now, timer, indexes, timersSet, it, iter, unexpired>>
  BY DEF ProcessTimedout, Works
<1>3. /\ WalkInv /\ timersSet \subseteq Entries /\ stray \subseteq timersSet
      /\ \A u \in Timers : owed[u] \in Nat \cup {Never} /\ TimerKept(u)
  BY DEF CallInv, WalkInv, TypeOK
<1>4. ASSUME NEW e \in Entries, e # it, Works'
      PROVE  Ahead(e)' <=> Ahead(e)
  <2>1. ~Before(e, it) <=> Before(it, e)
    BY <1>1, <1>4, OrderIsStrict
  <2>2. QED
    BY <1>1, <1>2, <1>4, <2>1 DEF Ahead
<1>5. stray' = stray
  <2>1. CASE it \in stray
    BY <2>1 DEF ProcessTimedout
  <2>2. CASE it \notin stray
    BY <1>2, <1>3, <2>2 DEF ProcessTimedout, PromiseEnds
  <2>3. QED
    BY <2>1, <2>2
<1>6. /\ \A e : Waits(e)' <=> Waits(e)
      /\ \A u \in Timers : Held(u)' <=> Held(u)
  BY <1>2, <1>5 DEF Waits, Held
<1>7. ASSUME NEW u \in Timers
      PROVE  TimerKept(u)'
  <2>1. CASE it \notin stray /\ u = it.timer
    <3>1. owed'[u] = Never
      BY <1>3, <2>1, PromiseEndsType DEF ProcessTimedout
    <3>2. \A e \in Entries : e.timer = u /\ Waits(e) =>
            Held(u) /\ timer[u].set /\ timer[u].point = e.point /\ timer[u].callback
      BY <1>3 DEF TimerKept
    <3>3. Waits(it)
      BY <1>1, <2>1 DEF Waits
    <3>4. \A e \in Entries : e.timer = u /\ Waits(e) => e = it
      BY <1>1, <2>1, <3>2, <3>3 DEF Entries
    <3>5. ~Before(it, it)
      BY <1>1, OrderIsStrict
    <3>6. ASSUME NEW e \in Entries, e = it, Works'
          PROVE  ~Ahead(e)'
      BY <1>2, <3>5, <3>6 DEF Ahead
    <3>7. \A e \in Entries : ~(e.timer = u /\ Waits(e)' /\ Works' /\ Ahead(e)')
      BY <1>6, <3>4, <3>6
    <3>8. \A e \in Entries : e.timer = u /\ Waits(e)' =>
            Held(u)' /\ timer'[u].set /\ timer'[u].point = e.point /\ timer'[u].callback
      BY <1>2, <1>6, <3>2
    <3>9. Held(u)' /\ timer'[u].set => timer'[u].callback
      BY <1>2, <1>3, <1>6 DEF TimerKept
    <3>10. QED
      BY <3>1, <3>7, <3>8, <3>9 DEF TimerKept
  <2>2. CASE it \in stray \/ u # it.timer
    <3>1. owed'[u] = owed[u]
      <4>1. CASE it \in stray
        BY <4>1 DEF ProcessTimedout
      <4>2. CASE it \notin stray
        BY <1>1, <1>3, <2>2, <4>2, PromiseEndsType DEF ProcessTimedout
      <4>3. QED
        BY <4>1, <4>2
    <3>2. \A e \in Entries : e.timer = u /\ Waits(e) /\ Works' => (Ahead(e)' <=> Ahead(e))
      BY <1>4, <2>2 DEF Waits
    <3>3. /\ TimerKept(u) /\ timer'[u] = timer[u] /\ (Works' => Works)
          /\ (Held(u)' <=> Held(u)) /\ owed[u] \in Nat \cup {Never}
      BY <1>2, <1>3, <1>6
    <3>4. QED
      BY <1>6, <3>1, <3>2, <3>3, TimerStays
  <2>3. QED
    BY <2>1, <2>2
<1>8. StopIsUnexpired'
  BY <1>2 DEF CallInv, StopIsUnexpired
<1>9. QED
  BY <1>7, <1>8, ProcessTimedoutKeepsWalk DEF CallInv

(* What is ahead of a callback is what is ahead of the walk after it.      *)
LEMMA AheadOfNext ==
  ASSUME NEW S, S \subseteq Entries, NEW e \in Entries, NEW f \in S
  PROVE  LET next == First({g \in S : Before(e, g)})
         IN  Before(e, f) <=> (next # End /\ ~Before(f, next))
<1> DEFINE rest == {g \in S : Before(e, g)}
<1>1. f \in Entries /\ rest \subseteq Entries
  OBVIOUS
<1>2. CASE Before(e, f)
  <2>1. f \in rest
    BY <1>2
  <2>2. First(rest) # End /\ ~Before(f, First(rest))
    BY <1>1, <2>1, FirstOf
  <2>3. QED
    BY <1>2, <2>2
<1>3. CASE ~Before(e, f) /\ rest = {}
  BY <1>3, EndIsNoEntry
<1>4. CASE ~Before(e, f) /\ rest # {}
  <2>1. First(rest) \in rest
    BY <1>1, <1>4, FirstOf
  <2>2. First(rest) \in Entries /\ Before(e, First(rest))
    BY <1>1, <2>1
  <2>3. e = f \/ Before(f, e)
    BY <1>1, <1>4, OrderIsStrict
  <2>4. Before(f, First(rest))
    BY <1>1, <2>2, <2>3, OrderIsTransitive
  <2>5. QED
    BY <1>4, <2>4
<1>5. QED
  BY <1>2, <1>3, <1>4

LEMMA CallbackReturnsKeepsCalls ==
  ASSUME CallInv, CallbackReturns
  PROVE  CallInv'
<1>1. /\ Works /\ pc = "callback" /\ pc' = "walking"
      /\ it' = First({f \in timersSet' : Before(it, f)})
      /\ UNCHANGED <<now, indexes, iter, steps, unexpired>>
  BY DEF CallbackReturns
<1>2. /\ it \in Entries /\ it.timer \in Timers
      /\ now + timer[it.timer].duration * UnitsPerMs \in Nat
  BY <1>1, CalledBack DEF CallInv
<1>3. PICK t \in Timers, point \in Nat :
        t = it.timer /\ point = now + timer[it.timer].duration * UnitsPerMs
  BY <1>2
<1>4. /\ WalkInv /\ WalkInv' /\ timer \in [Timers -> TimerType]
      /\ timersSet' \subseteq Entries /\ stray' \subseteq timersSet' /\ stray \subseteq timersSet
      /\ \A u \in Timers : owed[u] \in Nat \cup {Never} /\ TimerKept(u)
  BY CallbackReturnsKeepsWalk DEF CallInv, WalkInv, TypeOK
<1>5. ASSUME NEW e \in timersSet'
      PROVE  Ahead(e)' <=> Before(it, e)
  <2> DEFINE next == First({f \in timersSet' : Before(it, f)})
  <2>1. Before(it, e) <=> (next # End /\ ~Before(e, next))
    BY <1>2, <1>4, AheadOfNext
  <2> HIDE DEF next
  <2>2. it' = next
    BY <1>1 DEF next
  <2>3. QED
    BY <1>1, <2>1, <2>2 DEF Ahead
<1>6. \A u \in Timers : Held(u)' <=> Held(u)
  BY <1>1 DEF Held
<1>7. CASE ~timer[t].repeated
  <2>1. UNCHANGED <<timer, timersSet, timerfd, broken, owed, missed, stray>>
    BY <1>3, <1>7 DEF CallbackReturns
  <2>2. \A e : Waits(e)' <=> Waits(e)
    BY <2>1 DEF Waits
  <2>3. \A e : Waits(e) => (Ahead(e)' <=> Ahead(e))
    BY <1>1, <1>5, <2>1 DEF Waits, Ahead
  <2>4. Works' => Works
    BY <1>1
  <2>5. \A u \in Timers : TimerKept(u)'
    BY <1>4, <1>6, <2>1, <2>2, <2>3, <2>4, TimerStays
  <2>6. QED
    BY <1>1, <1>4, <2>5 DEF CallInv, StopIsUnexpired
<1>8. CASE timer[t].repeated
  <2>1. timer' = [timer EXCEPT ![t].point = point] /\ AddTimer(t, point, EntriesOf(t))
    BY <1>3, <1>8 DEF CallbackReturns
  <2>2. /\ timer'[t].set = timer[t].set /\ timer'[t].callback = timer[t].callback
        /\ timer'[t].point = point
        /\ \A u \in Timers : u # t => timer'[u] = timer[u]
    BY <1>4, <2>1 DEF TimerType
  <2>3. /\ \A e \in Entries : e.timer # t => (Waits(e)' <=> Waits(e))
        /\ \A e \in Entries : e.timer = t /\ Waits(e)' =>
             e = EntryOf(t, point) /\ Held(t) /\ timer'[t].set /\ owed'[t] = point
        /\ owed'[t] # Never => owed'[t] = point /\ (pc = "callback" => Before(it, EntryOf(t, point)))
        /\ owed'[t] # Never /\ Works' => Waits(EntryOf(t, point))'
    <3>1. \A e \in Entries : e.timer = t /\ Waits(e) => e \in EntriesOf(t)
      BY DEF Waits, EntriesOf
    <3>2. QED
      BY <1>4, <2>1, <3>1, AddTimerPromises
  <2>4. /\ timersSet \subseteq timersSet'
        /\ \A u \in Timers : u # t => owed'[u] = owed[u]
    BY <1>4, <2>1, AddTimerType
  <2>5. TimerKept(t)'
    <3>1. ASSUME Works', owed'[t] # Never
          PROVE  Waits(EntryOf(t, owed[t]))' /\ Ahead(EntryOf(t, owed[t]))'
      <4>1. PICK e \in Entries : e = EntryOf(t, point)
        BY EntryOfType
      <4>2. Waits(e)' /\ owed'[t] = point /\ Before(it, e)
        BY <1>1, <2>3, <3>1, <4>1 DEF Waits
      <4>3. Ahead(e)'
        BY <1>5, <4>2 DEF Waits
      <4>4. EntryOf(t, owed[t])' = e
        BY <4>1, <4>2 DEF EntryOf
      <4>5. QED
        BY <4>2, <4>3, <4>4 DEF Waits, Ahead
    <3>2. EntryOf(t, point).point = point
      BY DEF EntryOf
    <3>3. Held(t)' /\ timer'[t].set => timer'[t].callback
      BY <1>4, <1>6, <2>2 DEF TimerKept
    <3>4. \A e \in Entries : e.timer = t /\ Waits(e)' =>
            /\ Held(t)' /\ timer'[t].set /\ timer'[t].point = e.point /\ timer'[t].callback
            /\ owed'[t] = e.point
      BY <1>6, <2>2, <2>3, <3>2, <3>3
    <3>5. QED
      BY <3>1, <3>3, <3>4 DEF TimerKept
  <2>6. ASSUME NEW u \in Timers, u # t
        PROVE  TimerKept(u)'
    <3>1. /\ TimerKept(u) /\ timer'[u] = timer[u] /\ owed'[u] = owed[u]
          /\ (Held(u)' <=> Held(u)) /\ owed[u] \in Nat \cup {Never} /\ (Works' => Works)
      BY <1>1, <1>4, <1>6, <2>2, <2>4, <2>6
    <3>2. \A e \in Entries : e.timer = u => (Waits(e)' <=> Waits(e))
      BY <2>3, <2>6
    <3>3. \A e \in Entries : Waits(e) => (Ahead(e)' <=> Ahead(e))
      BY <1>1, <1>5, <2>4 DEF Waits, Ahead
    <3>4. QED
      BY <3>1, <3>2, <3>3, TimerStays
  <2>7. \A u \in Timers : TimerKept(u)'
    BY <2>5, <2>6
  <2>8. QED
    BY <1>1, <1>4, <2>7 DEF CallInv, StopIsUnexpired
<1>9. QED
  BY <1>7, <1>8

(* What EraseExpired leaves is not before the entry the walk stopped at,   *)
(* which had yet to come to it.                                            *)
LEMMA EraseExpiredKeepsCalls ==
  ASSUME CallInv, EraseExpired
  PROVE  CallInv'
<1>1. /\ Works /\ pc = "walking" /\ it = iter /\ pc' = "idle"
      /\ timersSet' = Erase(timersSet, iter) /\ stray' = stray \cap timersSet'
      /\ UNCHANGED <<now, timer, indexes, timerfd, broken, owed>>
  BY DEF EraseExpired
<1>2. ASSUME NEW e \in Entries
      PROVE  Waits(e)' <=> Waits(e) /\ Ahead(e)
  BY <1>1 DEF Erase, Waits, Ahead
<1>3. \A e : Ahead(e)'
  BY <1>1 DEF Ahead
<1>4. ASSUME NEW t \in Timers
      PROVE  TimerKept(t)'
  <2>1. /\ TimerKept(t) /\ timer'[t] = timer[t] /\ owed'[t] = owed[t] /\ (Held(t)' <=> Held(t))
        /\ owed[t] \in Nat \cup {Never}
    BY <1>1 DEF CallInv, WalkInv, TypeOK, Held
  <2>2. ASSUME Works', owed'[t] # Never
        PROVE  Waits(EntryOf(t, owed[t]))' /\ Ahead(EntryOf(t, owed[t]))'
    <3>1. PICK e \in Entries : e = EntryOf(t, owed[t])
      BY <2>1, <2>2, EntryOfType
    <3>2. Waits(e) /\ Ahead(e)
      BY <1>1, <2>1, <2>2, <3>1 DEF TimerKept
    <3>3. Waits(e)' /\ Ahead(e)'
      BY <1>2, <1>3, <3>2
    <3>4. EntryOf(t, owed[t])' = e
      BY <2>1, <3>1 DEF EntryOf
    <3>5. QED
      BY <3>3, <3>4 DEF Waits, Ahead
  <2>3. \A e \in Entries : e.timer = t /\ Waits(e)' =>
          /\ Held(t)' /\ timer'[t].set /\ timer'[t].point = e.point /\ timer'[t].callback
          /\ owed'[t] = e.point
    BY <1>1, <1>2, <2>1 DEF TimerKept
  <2>4. Held(t)' /\ timer'[t].set => timer'[t].callback
    BY <2>1 DEF TimerKept
  <2>5. QED
    BY <2>2, <2>3, <2>4 DEF TimerKept
<1>5. StopIsUnexpired'
  BY <1>1 DEF StopIsUnexpired
<1>6. QED
  BY <1>4, <1>5, EraseExpiredKeepsWalk DEF CallInv

(* A step that only lets time go by, or none.                              *)
LEMMA TimeKeepsCalls ==
  ASSUME CallInv,
         UNCHANGED <<timer, indexes, timersSet, pc, it, iter, broken, owed, stray, unexpired>>
  PROVE  (\A t \in Timers : TimerKept(t)') /\ StopIsUnexpired'
<1>1. /\ Works' => Works
      /\ \A e : (Waits(e)' <=> Waits(e)) /\ (Ahead(e)' <=> Ahead(e))
      /\ \A t \in Timers : Held(t)' <=> Held(t)
  BY DEF Works, Waits, Ahead, Held
<1>2. ASSUME NEW t \in Timers
      PROVE  TimerKept(t)'
  <2>1. TimerKept(t) /\ owed[t] \in Nat \cup {Never}
    BY DEF CallInv, WalkInv, TypeOK
  <2>2. QED
    BY <1>1, <2>1, TimerStays
<1>3. StopIsUnexpired'
  BY DEF CallInv, StopIsUnexpired
<1>4. QED
  BY <1>2, <1>3

LEMMA CallStep == CallInv /\ [Next]_vars => CallInv'
<1> SUFFICES ASSUME CallInv, [Next]_vars
             PROVE  CallInv'
  OBVIOUS
<1>1. CASE NewTimer
  BY <1>1, NewTimerKeepsCalls
<1>2. ASSUME NEW t \in Timers, NEW repeat \in BOOLEAN, Reset(t, repeat)
      PROVE  CallInv'
  BY <1>2, ResetKeepsCalls
<1>3. ASSUME NEW t \in Timers, NEW msec \in Durations, Update(t, msec)
      PROVE  CallInv'
  BY <1>3, UpdateKeepsCalls
<1>4. ASSUME NEW t \in Timers, UpdateAgain(t)
      PROVE  CallInv'
  BY <1>4, UpdateAgainKeepsCalls
<1>5. ASSUME NEW t \in Timers, Add(t)
      PROVE  CallInv'
  BY <1>5, AddKeepsCalls
<1>6. ASSUME NEW t \in Timers, Cancel(t)
      PROVE  CallInv'
  BY <1>6, CancelKeepsCalls
<1>7. ASSUME NEW t \in Timers, Release(t)
      PROVE  CallInv'
  BY <1>7, ReleaseKeepsCalls
<1>8. CASE HandleRead
  BY <1>8, HandleReadKeepsCalls
<1>9. CASE ProcessTimedout
  BY <1>9, ProcessTimedoutKeepsCalls
<1>10. CASE CallbackReturns
  BY <1>10, CallbackReturnsKeepsCalls
<1>11. CASE EraseExpired
  BY <1>11, EraseExpiredKeepsCalls
<1>12. CASE Tick
  BY <1>12, TickKeepsWalk, TimeKeepsCalls DEF CallInv, Tick
<1>13. CASE StepClock
  BY <1>13, StepClockKeepsWalk, TimeKeepsCalls DEF CallInv, StepClock
<1>14. CASE UNCHANGED vars
  BY <1>14, WalkStep, TimeKeepsCalls DEF CallInv, vars
<1>15. QED
  BY <1>1, <1>2, <1>3, <1>4, <1>5, <1>6, <1>7, <1>8, <1>9, <1>10, <1>11, <1>12, <1>13,
     <1>14 DEF Next, User, Walk, Clocks

LEMMA CallInvariant == SafeSpec => []CallInv
BY CallInit, CallStep, PTL DEF SafeSpec

(* What waits is a timer somebody holds, at its present point, so that     *)
(* Cancel finds it, and with a callback to call: whatever the users do,    *)
(* but for the entries they have lost.                                     *)
THEOREM EntriesAreAlwaysCurrent == SafeSpec => []EntriesAreCurrent
<1>1. ASSUME CallInv
      PROVE  EntriesAreCurrent
  <2> SUFFICES ASSUME NEW e \in timersSet \ stray
               PROVE  /\ Held(e.timer)
                      /\ timer[e.timer].set /\ timer[e.timer].point = e.point
                      /\ timer[e.timer].callback
    BY DEF EntriesAreCurrent
  <2>1. e \in Entries /\ e.timer \in Timers /\ Waits(e)
    BY <1>1, TimersAndEntries DEF CallInv, Waits
  <2>2. QED
    BY <1>1, <2>1 DEF CallInv, TimerKept
<1>2. QED
  BY <1>1, CallInvariant, PTL

(* A callback runs only for a timer that was added, has not been cancelled *)
(* or called back since, and has expired: whatever the users do, however   *)
(* late the loop, and whichever way the system clock is set.               *)
THEOREM CallsAreAlwaysOwed == SafeSpec => CallsAreOwed
<1> DEFINE Calls == pc' = "callback" /\ pc # "callback" =>
                      it \in stray \/ (owed[it.timer] = it.point /\ it \notin unexpired)
<1>1. ASSUME CallInv, Next
      PROVE  Calls
  <2> SUFFICES ASSUME pc' = "callback" /\ pc # "callback"
               PROVE  it \in stray \/ (owed[it.timer] = it.point /\ it \notin unexpired)
    OBVIOUS
  <2>1. ASSUME NewTimer \/ HandleRead \/ CallbackReturns \/ EraseExpired \/ Tick \/ StepClock
        PROVE  pc' # "callback" \/ pc' = pc
    BY <2>1 DEF NewTimer, HandleRead, CallbackReturns, EraseExpired, Tick, StepClock
  <2>2. ASSUME NEW t \in Timers, NEW repeat \in BOOLEAN, Reset(t, repeat)
        PROVE  pc' = pc
    BY <2>2 DEF Reset
  <2>3. ASSUME NEW t \in Timers, UpdateAgain(t) \/ Add(t) \/ Cancel(t) \/ Release(t)
        PROVE  pc' = pc
    BY <2>3 DEF UpdateAgain, Add, Cancel, Release
  <2>4. ASSUME NEW t \in Timers, NEW msec \in Durations, Update(t, msec)
        PROVE  pc' = pc
    BY <2>4 DEF Update
  <2>5. ProcessTimedout
    BY <1>1, <2>1, <2>2, <2>3, <2>4 DEF Next, User, Walk, Clocks
  <2>6. QED
    BY <1>1, <2>5, ProcessedIsPromised
<1>2. CallInv /\ [Next]_vars => [Calls]_vars
  BY <1>1
<1>3. QED
  BY <1>2, CallInvariant, PTL DEF SafeSpec, CallsAreOwed

-----------------------------------------------------------------------------
(* When the calls come. The timerfd is set as soon as an entry waits, and  *)
(* expires each period for ever after, unless its period is 0.             *)
TimerfdSound ==
  /\ timersSet # {} => timerfd.armed
  /\ IF timerfd.period > 0 THEN timerfd.left \in 1 .. timerfd.period
                           ELSE timerfd.left = Never

(* The walk under way will come to the entry that t is owed a call for.    *)
WithinWalk(t) == pc # "idle" /\ (iter = End \/ Before(EntryOf(t, owed[t]), iter))

(* The expirations since the instant t is owed a call at: none that was    *)
(* handled, but for the one that the walk under way has read.              *)
CallComes(t) ==
  /\ owed[t] # Never => missed[t] <= timerfd.times + (IF WithinWalk(t) THEN 1 ELSE 0)
  /\ ~Due(t, now) => missed[t] = 0

LateInv == CallInv /\ (Works => TimerfdSound /\ \A t \in Timers : CallComes(t))

LEMMA LateTypes ==
  ASSUME CallInv
  PROVE  /\ WalkInv /\ timerfd \in TimerfdType /\ timerfd.times \in Nat /\ timerfd.period \in Nat
         /\ timersSet \subseteq Entries /\ now \in Nat
         /\ \A t \in Timers : owed[t] \in Nat \cup {Never} /\ missed[t] \in Nat /\ TimerKept(t)
<1>1. WalkInv /\ TypeOK
  BY DEF CallInv, WalkInv
<1>2. timerfd.times \in Nat /\ timerfd.period \in Nat
  BY <1>1 DEF TypeOK, TimerfdType
<1>3. QED
  BY <1>1, <1>2 DEF TypeOK, CallInv

LEMMA LateInit == Init => LateInv
BY CallInit DEF Init, LateInv, TimerfdSound, CallComes, Never

(* A timer whose promise a step does not touch, and one that has missed    *)
(* nothing yet.                                                            *)
LEMMA CallStays ==
  ASSUME NEW t \in Timers, CallComes(t), owed'[t] = owed[t], missed'[t] = missed[t],
         UNCHANGED <<now, timerfd, iter>>, pc' = "idle" <=> pc = "idle"
  PROVE  CallComes(t)'
<1>1. Due(t, now)' <=> Due(t, now)
  BY DEF Due
<1>2. WithinWalk(t)' <=> WithinWalk(t)
  BY DEF WithinWalk, EntryOf
<1>3. QED
  BY <1>1, <1>2 DEF CallComes

LEMMA NothingMissed ==
  ASSUME NEW t \in Timers, missed'[t] = 0, timerfd'.times \in Nat
  PROVE  CallComes(t)'
BY DEF CallComes

LEMMA PromiseEndsKeepsLate ==
  ASSUME LateInv, CallInv', Works, NEW t \in Timers, NEW lost, PromiseEnds(t, lost),
         timersSet' \subseteq timersSet, UNCHANGED <<now, timerfd, iter>>,
         pc' = "idle" <=> pc = "idle"
  PROVE  LateInv'
<1>1. /\ WalkInv /\ timerfd.times \in Nat
      /\ TimerfdSound /\ \A u \in Timers : CallComes(u)
  BY LateTypes DEF LateInv
<1>2. /\ missed'[t] = 0
      /\ \A u \in Timers : u # t => owed'[u] = owed[u] /\ missed'[u] = missed[u]
  BY <1>1, PromiseEndsType
<1>3. CallComes(t)'
  BY <1>1, <1>2, NothingMissed
<1>4. \A u \in Timers : u # t => CallComes(u)'
  BY <1>1, <1>2, CallStays
<1>5. TimerfdSound'
  BY <1>1 DEF TimerfdSound
<1>6. QED
  BY <1>3, <1>4, <1>5 DEF LateInv

(* A step that touches no promise and makes no entry.                      *)
LEMMA LateStays ==
  ASSUME LateInv, CallInv', Works, timersSet' \subseteq timersSet,
         UNCHANGED <<now, timerfd, iter, owed, missed>>, pc' = "idle" <=> pc = "idle"
  PROVE  LateInv'
<1>1. TimerfdSound /\ \A u \in Timers : CallComes(u)
  BY DEF LateInv
<1>2. \A u \in Timers : CallComes(u)'
  BY <1>1, CallStays
<1>3. TimerfdSound'
  BY <1>1 DEF TimerfdSound
<1>4. QED
  BY <1>2, <1>3 DEF LateInv

(* AddTimer sets the timerfd only when no entry waits, and so no user.     *)
LEMMA AddTimerKeepsLate ==
  ASSUME LateInv, CallInv', Works, NEW t \in Timers, NEW point \in Nat, NEW lost,
         AddTimer(t, point, lost), UNCHANGED <<now, iter>>, pc' = "idle" <=> pc = "idle"
  PROVE  LateInv'
<1>1. /\ WalkInv /\ timerfd \in TimerfdType /\ timersSet \subseteq Entries /\ now \in Nat
      /\ TimerfdSound /\ timerfd'.times \in Nat
      /\ \A u \in Timers : CallComes(u) /\ owed[u] \in Nat \cup {Never} /\ TimerKept(u)
  <2>1. timerfd' \in TimerfdType
    BY DEF CallInv, WalkInv, TypeOK
  <2>2. timerfd'.times \in Nat
    BY <2>1 DEF TimerfdType
  <2>3. QED
    BY <2>2, LateTypes DEF LateInv
<1>2. /\ missed'[t] = 0
      /\ \A u \in Timers : u # t => owed'[u] = owed[u] /\ missed'[u] = missed[u]
  BY <1>1, AddTimerType
<1>3. timerfd' = IF point > now /\ ~timerfd.armed THEN ResetTimerfd(timerfd, point, now)
                                                  ELSE timerfd
  BY <1>1, AddTimerSets
<1>4. CallComes(t)'
  BY <1>1, <1>2, NothingMissed
<1>5. CASE timerfd.armed
  <2>1. timerfd' = timerfd
    BY <1>3, <1>5
  <2>2. \A u \in Timers : u # t => CallComes(u)'
    BY <1>1, <1>2, <2>1, CallStays
  <2>3. TimerfdSound'
    BY <1>1, <1>5, <2>1 DEF TimerfdSound
  <2>4. QED
    BY <1>4, <2>2, <2>3 DEF LateInv
<1>6. CASE ~timerfd.armed
  <2>1. timersSet = {}
    BY <1>1, <1>6 DEF TimerfdSound
  <2>2. ASSUME NEW u \in Timers, u # t
        PROVE  CallComes(u)'
    <3>1. owed[u] = Never
      BY <1>1, <2>1 DEF TimerKept, Waits
    <3>2. owed'[u] = Never /\ ~Due(u, now) /\ ~Due(u, now)'
      BY <1>2, <2>2, <3>1 DEF Due
    <3>3. missed'[u] = 0
      BY <1>1, <1>2, <2>2, <3>2 DEF CallComes
    <3>4. QED
      BY <1>1, <3>3, NothingMissed
  <2>3. TimerfdSound'
    <3>1. CASE point > now
      <4>1. timerfd' = ResetTimerfd(timerfd, point, now) /\ now <= point
        BY <1>1, <1>3, <1>6, <3>1
      <4>2. /\ timerfd'.armed /\ timerfd' \in TimerfdType
            /\ IF timerfd'.period > 0 THEN timerfd'.left = timerfd'.period
                                      ELSE timerfd'.left = Never
        BY <1>1, <4>1, ResetTimerfdSets
      <4>3. timerfd'.period \in Nat
        BY <4>2 DEF TimerfdType
      <4>4. QED
        BY <4>2, <4>3 DEF TimerfdSound
    <3>2. CASE ~(point > now)
      <4>1. timersSet' = {}
        BY <1>1, <2>1, <3>2 DEF AddTimer, Insert
      <4>2. timerfd' = timerfd
        BY <1>3, <3>2
      <4>3. QED
        BY <1>1, <4>1, <4>2 DEF TimerfdSound
    <3>3. QED
      BY <3>1, <3>2
  <2>4. QED
    BY <1>4, <2>2, <2>3 DEF LateInv
<1>7. QED
  BY <1>5, <1>6

LEMMA AddKeepsLate ==
  ASSUME LateInv, NEW t \in Timers, Add(t)
  PROVE  LateInv'
<1>1. CallInv'
  BY AddKeepsCalls DEF LateInv
<1>2. Works /\ UNCHANGED <<now, pc, iter>>
  BY DEF Add, UserRuns
<1>3. CASE timer[t].set
  BY <1>1, <1>3 DEF Add, LateInv, Works
<1>4. CASE ~timer[t].set
  <2>1. AddTimer(t, timer[t].point, {}) /\ timer[t].point \in Nat
    BY <1>4, TimersAndEntries DEF Add, LateInv, CallInv
  <2>2. PICK point \in Nat : point = timer[t].point
    BY <2>1
  <2>3. AddTimer(t, point, {})
    BY <2>1, <2>2
  <2>4. QED
    BY <1>1, <1>2, <2>3, AddTimerKeepsLate
<1>5. QED
  BY <1>3, <1>4

(* An expiration is read: it counts for those who are owed a call by now,  *)
(* and the walk will come to all of them.                                  *)
LEMMA HandleReadKeepsLate ==
  ASSUME LateInv, HandleRead
  PROVE  LateInv'
<1>1. /\ Works /\ pc = "idle" /\ pc' = "walking"
      /\ timerfd' = [timerfd EXCEPT !.times = 0]
      /\ broken' = IF timerfd.times = 1 THEN broken ELSE "assert"
      /\ UNCHANGED <<now, timersSet, owed, missed>>
  BY DEF HandleRead
<1>2. /\ WalkInv /\ timerfd \in TimerfdType /\ now \in Nat /\ timersSet \subseteq Entries
      /\ TimerfdSound
      /\ \A t \in Timers : /\ CallComes(t) /\ TimerKept(t)
                           /\ owed[t] \in Nat \cup {Never} /\ missed[t] \in Nat
  BY <1>1, LateTypes DEF LateInv
<1>3. CallInv'
  BY HandleReadKeepsCalls DEF LateInv
<1>4. /\ timerfd'.times = 0 /\ timerfd'.armed = timerfd.armed
      /\ timerfd'.period = timerfd.period /\ timerfd'.left = timerfd.left
  BY <1>1, <1>2 DEF TimerfdType
<1>5. TimerfdSound'
  BY <1>1, <1>2, <1>4 DEF TimerfdSound
<1>6. ASSUME Works', NEW t \in Timers
      PROVE  CallComes(t)'
  <2>1. timerfd.times = 1
    BY <1>1, <1>6 DEF Works
  <2>2. owed[t] # Never => missed[t] <= 1
    BY <1>1, <1>2, <2>1 DEF CallComes, WithinWalk
  <2>3. ~Due(t, now)' => missed'[t] = 0
    BY <1>1, <1>2 DEF CallComes, Due
  <2>4. ASSUME owed[t] # Never, ~WithinWalk(t)'
        PROVE  missed[t] = 0
    <3>1. PICK e \in Entries : e = EntryOf(t, owed[t]) /\ e.point = owed[t]
      BY <1>2, <2>4, EntryOfType
    <3>2. e \in timersSet
      BY <1>1, <1>2, <2>4, <3>1 DEF TimerKept, Waits
    <3>3. iter' # End /\ ~Before(e, iter')
      BY <1>1, <2>4, <3>1 DEF WithinWalk, EntryOf
    <3>4. iter' \in timersSet /\ iter'.point > now
      BY <1>2, <3>3, HandleReadStarts
    <3>5. e.point \in Nat /\ iter'.point \in Nat /\ iter' \in Entries
      BY <1>2, <3>4 DEF Entries
    <3>6. iter'.point <= e.point
      BY <3>3, <3>5 DEF Before
    <3>7. ~Due(t, now)
      BY <1>2, <3>1, <3>4, <3>5, <3>6 DEF Due
    <3>8. QED
      BY <1>2, <3>7 DEF CallComes
  <2>5. owed'[t] = owed[t] /\ missed'[t] = missed[t]
    BY <1>1
  <2>6. owed[t] # Never => missed[t] <= (IF WithinWalk(t)' THEN 1 ELSE 0)
    BY <2>2, <2>4
  <2>7. owed'[t] # Never =>
          missed'[t] <= timerfd'.times + (IF WithinWalk(t)' THEN 1 ELSE 0)
    BY <1>4, <2>5, <2>6
  <2>8. QED
    BY <2>3, <2>7 DEF CallComes
<1>7. QED
  BY <1>3, <1>5, <1>6 DEF LateInv

LEMMA ProcessTimedoutKeepsLate ==
  ASSUME LateInv, ProcessTimedout
  PROVE  LateInv'
<1>1. /\ Works /\ pc # "idle" /\ pc' # "idle"
      /\ UNCHANGED <<now, timersSet, timerfd, iter>>
  BY DEF ProcessTimedout
<1>2. CallInv' /\ it.timer \in Timers
  BY ProcessTimedoutKeepsCalls, ProcessedIsPromised DEF LateInv
<1>3. CASE it \in stray
  <2>1. UNCHANGED <<owed, missed>>
    BY <1>3 DEF ProcessTimedout
  <2>2. QED
    BY <1>1, <1>2, <2>1, LateStays
<1>4. CASE it \notin stray
  <2>1. PromiseEnds(it.timer, {})
    BY <1>4 DEF ProcessTimedout
  <2>2. QED
    BY <1>1, <1>2, <2>1, PromiseEndsKeepsLate
<1>5. QED
  BY <1>3, <1>4

LEMMA CallbackReturnsKeepsLate ==
  ASSUME LateInv, CallbackReturns
  PROVE  LateInv'
<1>1. Works /\ pc # "idle" /\ pc' # "idle" /\ UNCHANGED <<now, iter>>
  BY DEF CallbackReturns
<1>2. CallInv'
  BY CallbackReturnsKeepsCalls DEF LateInv
<1>3. /\ it.timer \in Timers
      /\ now + timer[it.timer].duration * UnitsPerMs \in Nat
  BY CalledBack DEF CallbackReturns, LateInv, CallInv
<1>4. CASE timer[it.timer].repeated
  <2>1. PICK t \in Timers, point \in Nat :
          t = it.timer /\ point = now + timer[it.timer].duration * UnitsPerMs
    BY <1>3
  <2>2. AddTimer(t, point, EntriesOf(t))
    BY <1>4, <2>1 DEF CallbackReturns
  <2>3. QED
    BY <1>1, <1>2, <2>2, AddTimerKeepsLate
<1>5. CASE ~timer[it.timer].repeated
  <2>1. UNCHANGED <<timersSet, timerfd, owed, missed>>
    BY <1>5 DEF CallbackReturns
  <2>2. QED
    BY <1>1, <1>2, <2>1, LateStays
<1>6. QED
  BY <1>4, <1>5

(* Who is still owed a call at the end of a walk was not within it.        *)
LEMMA EraseExpiredKeepsLate ==
  ASSUME LateInv, EraseExpired
  PROVE  LateInv'
<1>1. /\ Works /\ pc = "walking" /\ it = iter /\ pc' = "idle"
      /\ UNCHANGED <<now, timerfd, broken, owed, missed>>
  BY DEF EraseExpired
<1>2. timersSet' \subseteq timersSet
  BY DEF EraseExpired, Erase
<1>3. CallInv'
  BY EraseExpiredKeepsCalls DEF LateInv
<1>4. /\ TimerfdSound /\ timerfd.times \in Nat
      /\ \A t \in Timers : CallComes(t) /\ TimerKept(t) /\ owed[t] \in Nat \cup {Never}
  BY <1>1, LateTypes DEF LateInv
<1>5. TimerfdSound'
  BY <1>1, <1>2, <1>4 DEF TimerfdSound
<1>6. ASSUME NEW t \in Timers
      PROVE  CallComes(t)'
  <2>1. owed[t] # Never => Ahead(EntryOf(t, owed[t]))
    BY <1>1, <1>4 DEF TimerKept
  <2>2. owed[t] # Never => ~WithinWalk(t)
    BY <1>1, <2>1 DEF Ahead, WithinWalk
  <2>3. owed[t] # Never => missed[t] <= timerfd.times
    BY <1>4, <2>2 DEF CallComes
  <2>4. ~WithinWalk(t)' /\ (Due(t, now)' <=> Due(t, now))
    BY <1>1 DEF WithinWalk, Due
  <2>5. QED
    BY <1>1, <1>4, <2>3, <2>4 DEF CallComes
<1>7. QED
  BY <1>3, <1>5, <1>6 DEF LateInv

LEMMA TickKeepsLate ==
  ASSUME LateInv, Tick
  PROVE  LateInv'
<1>1. /\ Works /\ now' = now + 1 /\ timerfd' = CountDown(timerfd)
      /\ UNCHANGED <<timer, indexes, timersSet, pc, it, iter, steps, broken, owed, stray, unexpired>>
  BY DEF Tick
<1>2. CallInv'
  BY <1>1, TickKeepsWalk, TimeKeepsCalls DEF LateInv, CallInv
<1>3. /\ TimerfdSound /\ timerfd \in TimerfdType /\ timerfd.period \in Nat /\ timerfd.times \in Nat
      /\ \A t \in Timers : CallComes(t) /\ missed[t] \in Nat /\ owed[t] \in Nat \cup {Never}
      /\ now \in Nat
  BY <1>1, LateTypes DEF LateInv
<1>4. TimerfdSound'
  <2>1. timerfd'.armed = timerfd.armed /\ timerfd'.period = timerfd.period
    BY <1>1, <1>3, CountDownType
  <2>2. timerfd'.left = IF timerfd.left = Never THEN Never
                        ELSE IF timerfd.left > 1 THEN timerfd.left - 1 ELSE timerfd.period
    BY <1>1, <1>3, CountDownIs
  <2>3. CASE timerfd.period > 0
    <3>1. timerfd.left \in 1 .. timerfd.period /\ timerfd.left # Never
      BY <1>3, <2>3 DEF TimerfdSound, Never
    <3>2. timerfd'.left \in 1 .. timerfd.period
      BY <1>3, <2>2, <2>3, <3>1
    <3>3. QED
      BY <1>1, <1>3, <2>1, <2>3, <3>2 DEF TimerfdSound
  <2>4. CASE ~(timerfd.period > 0)
    BY <1>1, <1>3, <2>1, <2>2, <2>4 DEF TimerfdSound
  <2>5. QED
    BY <2>3, <2>4
<1>5. PICK more \in Nat : timerfd'.times = timerfd.times + more
  <2>1. timerfd'.times - timerfd.times \in Nat /\ timerfd' \in TimerfdType
    BY <1>1, <1>3, CountDownType
  <2>2. timerfd'.times \in Nat
    BY <2>1 DEF TimerfdType
  <2>3. QED
    BY <1>3, <2>1, <2>2
<1>6. ASSUME NEW t \in Timers
      PROVE  CallComes(t)'
  <2>1. missed'[t] = IF Due(t, now') THEN missed[t] + more ELSE 0
    BY <1>3, <1>5 DEF Tick
  <2>2. (Due(t, now)' <=> Due(t, now')) /\ (WithinWalk(t)' <=> WithinWalk(t))
    BY <1>1 DEF Due, WithinWalk, EntryOf
  <2>3. owed[t] # Never => missed[t] <= timerfd.times + (IF WithinWalk(t) THEN 1 ELSE 0)
    BY <1>3 DEF CallComes
  <2>4. owed'[t] # Never =>
          missed'[t] <= timerfd'.times + (IF WithinWalk(t)' THEN 1 ELSE 0)
    BY <1>1, <1>3, <1>5, <2>1, <2>2, <2>3
  <2>5. QED
    BY <2>1, <2>2, <2>4 DEF CallComes
<1>7. QED
  BY <1>2, <1>4, <1>6 DEF LateInv

(* Whichever way the clock is set, nobody has missed more than before.     *)
LEMMA StepClockKeepsLate ==
  ASSUME LateInv, StepClock
  PROVE  LateInv'
<1>1. /\ Works
      /\ missed' = [t \in Timers |-> IF Due(t, now') THEN missed[t] ELSE 0]
      /\ UNCHANGED <<timer, indexes, timersSet, timerfd, pc, it, iter, broken,
                     owed, stray, unexpired>>
  BY DEF StepClock
<1>2. CallInv'
  BY <1>1, StepClockKeepsWalk, TimeKeepsCalls DEF LateInv, CallInv
<1>3. /\ TimerfdSound /\ timerfd.times \in Nat
      /\ \A t \in Timers : CallComes(t) /\ missed[t] \in Nat
  BY <1>1, LateTypes DEF LateInv
<1>4. TimerfdSound'
  BY <1>1, <1>3 DEF TimerfdSound
<1>5. ASSUME NEW t \in Timers
      PROVE  CallComes(t)'
  <2>1. (Due(t, now)' <=> Due(t, now')) /\ (WithinWalk(t)' <=> WithinWalk(t))
    BY <1>1 DEF Due, WithinWalk, EntryOf
  <2>2. missed'[t] = IF Due(t, now') THEN missed[t] ELSE 0
    BY <1>1
  <2>3. QED
    BY <1>1, <1>3, <2>1, <2>2 DEF CallComes
<1>6. QED
  BY <1>2, <1>4, <1>5 DEF LateInv

LEMMA LateStep == LateInv /\ [Next]_vars => LateInv'
<1> SUFFICES ASSUME LateInv, [Next]_vars
             PROVE  LateInv'
  OBVIOUS
<1>1. CallInv'
  BY CallStep DEF LateInv
<1>2. CASE NewTimer
  BY <1>1, <1>2, LateStays DEF NewTimer, UserRuns, history
<1>3. ASSUME NEW t \in Timers, NEW repeat \in BOOLEAN, Reset(t, repeat)
      PROVE  LateInv'
  BY <1>1, <1>3, LateStays DEF Reset, UserRuns, history
<1>4. ASSUME NEW t \in Timers, NEW msec \in Durations, Update(t, msec)
      PROVE  LateInv'
  BY <1>1, <1>4, PromiseEndsKeepsLate DEF Update, UserRuns
<1>5. ASSUME NEW t \in Timers, UpdateAgain(t)
      PROVE  LateInv'
  BY <1>1, <1>5, PromiseEndsKeepsLate DEF UpdateAgain, UserRuns
<1>6. ASSUME NEW t \in Timers, Add(t)
      PROVE  LateInv'
  BY <1>6, AddKeepsLate
<1>7. ASSUME NEW t \in Timers, Cancel(t)
      PROVE  LateInv'
  <2>1. timersSet' \subseteq timersSet
    BY <1>7 DEF Cancel, CancelTimer
  <2>2. QED
    BY <1>1, <1>7, <2>1, PromiseEndsKeepsLate DEF Cancel, UserRuns
<1>8. ASSUME NEW t \in Timers, Release(t)
      PROVE  LateInv'
  BY <1>1, <1>8, PromiseEndsKeepsLate DEF Release, UserRuns
<1>9. CASE HandleRead
  BY <1>9, HandleReadKeepsLate
<1>10. CASE ProcessTimedout
  BY <1>10, ProcessTimedoutKeepsLate
<1>11. CASE CallbackReturns
  BY <1>11, CallbackReturnsKeepsLate
<1>12. CASE EraseExpired
  BY <1>12, EraseExpiredKeepsLate
<1>13. CASE Tick
  BY <1>13, TickKeepsLate
<1>14. CASE StepClock
  BY <1>14, StepClockKeepsLate
<1>15. CASE UNCHANGED vars
  <2>1. /\ timersSet' \subseteq timersSet /\ (pc' = "idle" <=> pc = "idle")
        /\ UNCHANGED <<now, timerfd, iter, owed, missed>>
    BY <1>15 DEF vars
  <2>2. Works' <=> Works
    BY <1>15 DEF vars, Works
  <2>3. QED
    BY <1>1, <2>1, <2>2, LateStays DEF LateInv
<1>16. QED
  BY <1>2, <1>3, <1>4, <1>5, <1>6, <1>7, <1>8, <1>9, <1>10, <1>11, <1>12, <1>13, <1>14,
     <1>15 DEF Next, User, Walk, Clocks

LEMMA LateInvariant == SafeSpec => []LateInv
BY LateInit, LateStep, PTL DEF SafeSpec

(* A promised call comes with the first expiration that is handled once    *)
(* its instant has come, whatever the users do, however late the loop, and *)
(* whichever way the system clock is set; and there is an expiration each  *)
(* period, unless the period is 0.                                         *)
THEOREM TimersAreNeverLate == SafeSpec => []TimersAreNotLate
<1>1. ASSUME LateInv
      PROVE  TimersAreNotLate
  <2> SUFFICES ASSUME Works, NEW t \in Timers, owed[t] # Never
               PROVE  /\ missed[t] <= timerfd.times + (IF pc = "idle" THEN 0 ELSE 1)
                      /\ timerfd.armed
                      /\ timerfd.period > 0 => timerfd.left \in 1 .. timerfd.period
    BY DEF TimersAreNotLate
  <2>1. /\ TimerfdSound /\ CallComes(t) /\ timerfd.times \in Nat /\ missed[t] \in Nat
        /\ TimerKept(t)
    BY <1>1, LateTypes DEF LateInv
  <2>2. missed[t] <= timerfd.times + (IF pc = "idle" THEN 0 ELSE 1)
    BY <2>1 DEF CallComes, WithinWalk
  <2>3. timersSet # {}
    BY <2>1 DEF TimerKept, Waits
  <2>4. QED
    BY <2>1, <2>2, <2>3 DEF TimerfdSound
<1>2. QED
  BY <1>1, LateInvariant, PTL
=============================================================================

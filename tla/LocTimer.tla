------------------------------ MODULE LocTimer ------------------------------
(***************************************************************************)
(* The timer service: LocTimer, LocTimerDelegate, LocTimerContainer and    *)
(* LocTimerPollTask (utils/LocTimer.cpp, utils/LocTimer.h).                *)
(*                                                                         *)
(* Three kinds of threads share it.  A client thread starts, stops and     *)
(* deletes its LocTimer under the timer's own lock and sends messages; the *)
(* MsgTask thread owns the heaps and handles the messages in order; the    *)
(* poll thread waits for the kernel timer of each heap.  The last two both *)
(* call timerfd_settime and epoll_ctl without a lock, so every one of      *)
(* those calls is a step of its own, and so is every read of mClient, which*)
(* LocTimerDelegate::expire makes without the lock.                        *)
(*                                                                         *)
(* A heap is the set of its members: the tree of utils/LocHeap.cpp pops a  *)
(* member nobody outranks.  Which of several equal ones is left open.      *)
(***************************************************************************)
EXTENDS Naturals, Sequences

CONSTANTS
  Timer,        \* LocTimer objects of the clients
  Delegate,     \* memory for LocTimerDelegate objects, used again once deleted
  Container,    \* the heaps: timers and alarms (mSwTimers, mHwTimers)
  NULL,         \* the null pointer
  Delays,       \* the delays clients ask for
  Destroys,     \* clients delete their LocTimer objects
  MaxTime,      \* bound: the last clock tick
  MaxTmQueue    \* bound: clients wait while the queue is this long

ASSUME NullAssumption == NULL \notin Timer \cup Delegate \cup Container
ASSUME DelaysAssumption == Delays \subseteq Nat
ASSUME SwitchAssumption == Destroys \in BOOLEAN
ASSUME TmBoundsAssumption == MaxTime \in Nat /\ MaxTmQueue \in Nat

VARIABLES
  now,          \* CLOCK_BOOTTIME
  alive,        \* LocTimer objects that are not deleted
  timer,        \* LocTimer::mTimer
  life,         \* what has become of each delegate
  client,       \* LocTimerDelegate::mClient
  deadline,     \* LocTimerDelegate::mFutureTime
  container,    \* LocTimerDelegate::mContainer
  heap,         \* members of each LocTimerContainer
  queue,        \* messages of the MsgTask, oldest first
  fd,           \* when the kernel timer of each container goes off, 0: disarmed
  tmPolled,     \* containers whose kernel timer epoll watches
  task,         \* what the MsgTask thread is doing
  poll          \* what the poll thread is doing

clientVars == <<alive, timer>>
delegateVars == <<life, client, deadline, container>>
kernelVars == <<fd, tmPolled>>
tmVars == <<now, alive, timer, life, client, deadline, container, heap, queue,
            fd, tmPolled, task, poll>>

-----------------------------------------------------------------------------
(* Types *)

Life == {"free", "ticking", "stopped", "expired"}
TmMessage == [kind: {"push", "remove"}, container: Container, delegate: Delegate]
             \cup [kind: {"expire"}, container: Container]
TaskState == [pc: {"idle", "settime", "pop", "stop", "call", "crashed"},
              container: Container \cup {NULL}, now: Nat, first: BOOLEAN,
              client: Timer \cup {NULL}]
PollState == [pc: {"wait", "disarm", "unpoll", "send"},
              todo: SUBSET Container, container: Container \cup {NULL}]

TmTypeOK ==
  /\ now \in Nat
  /\ alive \in SUBSET Timer
  /\ timer \in [Timer -> Delegate \cup {NULL}]
  /\ life \in [Delegate -> Life]
  /\ client \in [Delegate -> Timer \cup {NULL}]
  /\ deadline \in [Delegate -> Nat]
  /\ container \in [Delegate -> Container \cup {NULL}]
  /\ heap \in [Container -> SUBSET Delegate]
  /\ queue \in Seq(TmMessage)
  /\ fd \in [Container -> Nat]
  /\ tmPolled \in SUBSET Container
  /\ task \in TaskState
  /\ poll \in PollState

Idle == [pc |-> "idle", container |-> NULL, now |-> 0, first |-> FALSE,
         client |-> NULL]

-----------------------------------------------------------------------------
(* The heap and the kernel *)

(* getSoonestTimer: the members nobody outranks *)
Tops(H) == {d \in H : \A e \in H : deadline[d] <= deadline[e]}

(* The poll thread can wake for container c *)
Readable(c) == c \in tmPolled /\ fd[c] # 0 /\ fd[c] <= now

(* Mutant: a kernel timer that is already armed is left as it is *)
MutantUpdate(c, H) ==
  IF H = {} \/ fd[c] # 0
  THEN /\ task' = Idle
       /\ UNCHANGED tmPolled
  ELSE /\ tmPolled' = tmPolled \cup {c}
       /\ task' = [Idle EXCEPT !.pc = "settime", !.container = c]

(* updateSoonestTime(NULL) on heap H: addPoll now, timerfd_settime next.   *)
(* An empty heap equals the NULL it is compared with: nothing happens.     *)
Update(c, H) ==
  IF H = {}
  THEN /\ task' = Idle
       /\ UNCHANGED tmPolled
  ELSE /\ tmPolled' = tmPolled \cup {c}
       /\ task' = [Idle EXCEPT !.pc = "settime", !.container = c]

-----------------------------------------------------------------------------
(* The clients' threads *)

Start(t, c, delay) ==
  /\ t \in alive
  /\ timer[t] = NULL
  /\ now + delay <= MaxTime
  /\ Len(queue) < MaxTmQueue
  /\ \E d \in Delegate :
       /\ life[d] = "free"
       /\ timer' = [timer EXCEPT ![t] = d]
       /\ life' = [life EXCEPT ![d] = "ticking"]
       /\ client' = [client EXCEPT ![d] = t]
       /\ deadline' = [deadline EXCEPT ![d] = now + delay]
       /\ container' = [container EXCEPT ![d] = c]
       /\ queue' = Append(queue,
                     [kind |-> "push", container |-> c, delegate |-> d])
  /\ UNCHANGED <<now, alive, heap, kernelVars, task, poll>>

(* Mutants: mTimer is not reset; mContainer is reset before it is used;   *)
(* the delegate is not removed.                                            *)
MutantStopTimerKept(t, outcome) ==
  LET d == timer[t] IN
  /\ life' = [life EXCEPT ![d] = outcome]
  /\ client' = [client EXCEPT ![d] = NULL]
  /\ container' = [container EXCEPT ![d] = NULL]
  /\ queue' = Append(queue,
                [kind |-> "remove", container |-> container[d], delegate |-> d])
  /\ UNCHANGED <<deadline, timer>>

MutantStopContainerLost(t, outcome) ==
  LET d == timer[t] IN
  /\ timer' = [timer EXCEPT ![t] = NULL]
  /\ life' = [life EXCEPT ![d] = outcome]
  /\ client' = [client EXCEPT ![d] = NULL]
  /\ container' = [container EXCEPT ![d] = NULL]
  /\ queue' = Append(queue,
                [kind |-> "remove", container |-> container'[d], delegate |-> d])
  /\ UNCHANGED deadline

MutantStopNotSent(t, outcome) ==
  LET d == timer[t] IN
  /\ timer' = [timer EXCEPT ![t] = NULL]
  /\ life' = [life EXCEPT ![d] = outcome]
  /\ client' = [client EXCEPT ![d] = NULL]
  /\ container' = [container EXCEPT ![d] = NULL]
  /\ UNCHANGED <<deadline, queue>>

(* LocTimer::stop of a running timer, down to the message of               *)
(* LocTimerContainer::remove                                               *)
StopLocked(t, outcome) ==
  LET d == timer[t] IN
  /\ timer' = [timer EXCEPT ![t] = NULL]
  /\ life' = [life EXCEPT ![d] = outcome]
  /\ client' = [client EXCEPT ![d] = NULL]
  /\ container' = [container EXCEPT ![d] = NULL]
  /\ queue' = Append(queue,
                [kind |-> "remove", container |-> container[d], delegate |-> d])
  /\ UNCHANGED deadline

Stop(t) ==
  /\ t \in alive
  /\ timer[t] # NULL
  /\ Len(queue) < MaxTmQueue
  /\ StopLocked(t, "stopped")
  /\ UNCHANGED <<now, alive, heap, kernelVars, task, poll>>

(* ~LocTimer: a stop, and the object is gone *)
Destroy(t) ==
  /\ Destroys
  /\ t \in alive
  /\ alive' = alive \ {t}
  /\ \/ timer[t] # NULL /\ StopLocked(t, "stopped")
     \/ timer[t] = NULL /\ UNCHANGED <<timer, delegateVars, queue>>
  /\ UNCHANGED <<now, heap, kernelVars, task, poll>>

-----------------------------------------------------------------------------
(* The MsgTask thread *)

TmReceive(kind) ==
  /\ task.pc = "idle"
  /\ queue # <<>>
  /\ Head(queue).kind = kind
  /\ queue' = Tail(queue)

(* Mutant: a heap that has a member is armed already *)
MutantProcPush ==
  /\ TmReceive("push")
  /\ LET d == Head(queue).delegate
         c == Head(queue).container
     IN /\ heap' = [heap EXCEPT ![c] = @ \cup {d}]
        /\ IF heap[c] = {}
           THEN Update(c, heap[c] \cup {d})
           ELSE UNCHANGED <<tmPolled, task>>
  /\ UNCHANGED <<now, clientVars, delegateVars, fd, poll>>

(* MsgTimerPush: the kernel is told only if the new delegate comes first *)
ProcPush ==
  /\ TmReceive("push")
  /\ LET d == Head(queue).delegate
         c == Head(queue).container
     IN /\ heap' = [heap EXCEPT ![c] = @ \cup {d}]
        /\ IF \A e \in heap[c] : deadline[d] < deadline[e]
           THEN Update(c, heap[c] \cup {d})
           ELSE UNCHANGED <<tmPolled, task>>
  /\ UNCHANGED <<now, clientVars, delegateVars, fd, poll>>

(* Mutant: only a top is taken out of the heap, every delegate is deleted *)
MutantProcRemove ==
  /\ TmReceive("remove")
  /\ LET d == Head(queue).delegate
         c == Head(queue).container
     IN /\ life' = [life EXCEPT ![d] = "free"]
        /\ IF d \in Tops(heap[c])
           THEN /\ heap' = [heap EXCEPT ![c] = @ \ {d}]
                /\ Update(c, heap[c] \ {d})
           ELSE UNCHANGED <<heap, tmPolled, task>>
  /\ UNCHANGED <<now, clientVars, client, deadline, container, fd, poll>>

(* MsgTimerRemove: the only place where a delegate is deleted *)
ProcRemove ==
  /\ TmReceive("remove")
  /\ LET d == Head(queue).delegate
         c == Head(queue).container
     IN /\ heap' = [heap EXCEPT ![c] = @ \ {d}]
        /\ life' = [life EXCEPT ![d] = "free"]
        /\ \/ d \in Tops(heap[c]) /\ Update(c, heap[c] \ {d})
           \/ Tops(heap[c]) # {d} /\ UNCHANGED <<tmPolled, task>>
  /\ UNCHANGED <<now, clientVars, client, deadline, container, fd, poll>>

(* timerfd_settime at the end of updateSoonestTime *)
SetTime ==
  /\ task.pc = "settime"
  /\ \E d \in Tops(heap[task.container]) :
       fd' = [fd EXCEPT ![task.container] = deadline[d]]
  /\ task' = Idle
  /\ UNCHANGED <<now, clientVars, delegateVars, heap, queue, tmPolled, poll>>

(* MsgTimerExpire takes the time *)
ProcExpire ==
  /\ TmReceive("expire")
  /\ task' = [pc |-> "pop", container |-> Head(queue).container, now |-> now,
              first |-> TRUE, client |-> NULL]
  /\ UNCHANGED <<now, clientVars, delegateVars, heap, kernelVars, poll>>

(* What MsgTimerExpire pops next: the top whatever its time the first      *)
(* time, then only a top that timerOfNow does not outrank                  *)
Due ==
  {d \in Tops(heap[task.container]) : task.first \/ deadline[d] <= task.now}

(* pop, and expire() reads mClient, without the lock *)
Pop ==
  /\ task.pc = "pop"
  /\ \E d \in Due :
       /\ heap' = [heap EXCEPT ![task.container] = @ \ {d}]
       /\ task' = [task EXCEPT !.first = FALSE,
                               !.client = client[d],
                               !.pc = IF client[d] = NULL THEN "pop" ELSE "stop"]
  /\ UNCHANGED <<now, clientVars, delegateVars, queue, kernelVars, poll>>

(* Mutant: the kernel timer is not armed again *)
MutantPopDone ==
  /\ task.pc = "pop"
  /\ Due = {}
  /\ task' = Idle
  /\ UNCHANGED <<now, clientVars, delegateVars, heap, queue, kernelVars, poll>>

(* Nothing more is due: updateSoonestTime(NULL) *)
PopDone ==
  /\ task.pc = "pop"
  /\ Due = {}
  /\ Update(task.container, heap[task.container])
  /\ UNCHANGED <<now, clientVars, delegateVars, heap, queue, fd, poll>>

NextPop == [task EXCEPT !.pc = "pop", !.client = NULL]

(* A call on a deleted LocTimer: its lock pointer is NULL, its callback    *)
(* gone.  What follows is undefined; here the thread goes no further.      *)
CallOnDead ==
  /\ task.client \notin alive
  /\ task' = [task EXCEPT !.pc = "crashed"]

(* client->stop(): it ends whatever start the timer runs by now            *)
StopClient ==
  /\ task.pc = "stop"
  /\ \/ CallOnDead /\ UNCHANGED <<timer, delegateVars, queue>>
     \/ /\ task.client \in alive
        /\ timer[task.client] # NULL
        /\ StopLocked(task.client, "expired")
        /\ task' = [task EXCEPT !.pc = "call"]
     \/ /\ task.client \in alive
        /\ timer[task.client] = NULL
        /\ task' = NextPop
        /\ UNCHANGED <<timer, delegateVars, queue>>
  /\ UNCHANGED <<now, alive, heap, kernelVars, poll>>

(* client->timeOutCallback(); what the client does in it are its own steps *)
TimeOutCallback ==
  /\ task.pc = "call"
  /\ \/ CallOnDead
     \/ task.client \in alive /\ task' = NextPop
  /\ UNCHANGED <<now, clientVars, delegateVars, heap, queue, kernelVars, poll>>

-----------------------------------------------------------------------------
(* The poll thread: TimerRunnable::run and LocTimerContainer::expire *)

EpollWait ==
  /\ poll.pc = "wait"
  /\ IF poll.todo = {}
     THEN LET ready == {c \in Container : Readable(c)}
          IN ready # {} /\ poll' = [poll EXCEPT !.todo = ready]
     ELSE \E c \in poll.todo :
            poll' = [pc |-> "disarm", todo |-> poll.todo \ {c}, container |-> c]
  /\ UNCHANGED <<now, clientVars, delegateVars, heap, queue, kernelVars, task>>

Disarm ==
  /\ poll.pc = "disarm"
  /\ fd' = [fd EXCEPT ![poll.container] = 0]
  /\ poll' = [poll EXCEPT !.pc = "unpoll"]
  /\ UNCHANGED <<now, clientVars, delegateVars, heap, queue, tmPolled, task>>

(* Mutant: no MsgTimerExpire is sent *)
MutantRemovePoll ==
  /\ poll.pc = "unpoll"
  /\ tmPolled' = tmPolled \ {poll.container}
  /\ poll' = [poll EXCEPT !.pc = "wait", !.container = NULL]
  /\ UNCHANGED <<now, clientVars, delegateVars, heap, queue, fd, task>>

RemovePoll ==
  /\ poll.pc = "unpoll"
  /\ tmPolled' = tmPolled \ {poll.container}
  /\ poll' = [poll EXCEPT !.pc = "send"]
  /\ UNCHANGED <<now, clientVars, delegateVars, heap, queue, fd, task>>

SendExpire ==
  /\ poll.pc = "send"
  /\ queue' = Append(queue, [kind |-> "expire", container |-> poll.container])
  /\ poll' = [poll EXCEPT !.pc = "wait", !.container = NULL]
  /\ UNCHANGED <<now, clientVars, delegateVars, heap, kernelVars, task>>

-----------------------------------------------------------------------------
(* The specification *)

Tick ==
  /\ now < MaxTime
  /\ now' = now + 1
  /\ UNCHANGED <<clientVars, delegateVars, heap, queue, kernelVars, task, poll>>

TmInit ==
  /\ now = 1
  /\ alive = Timer
  /\ timer = [t \in Timer |-> NULL]
  /\ life = [d \in Delegate |-> "free"]
  /\ client = [d \in Delegate |-> NULL]
  /\ deadline = [d \in Delegate |-> 0]
  /\ container = [d \in Delegate |-> NULL]
  /\ heap = [c \in Container |-> {}]
  /\ queue = <<>>
  /\ fd = [c \in Container |-> 0]
  /\ tmPolled = {}
  /\ task = Idle
  /\ poll = [pc |-> "wait", todo |-> {}, container |-> NULL]

TmClientNext ==
  \/ \E t \in Timer, c \in Container, delay \in Delays : Start(t, c, delay)
  \/ \E t \in Timer : Stop(t) \/ Destroy(t)

TmTaskNext ==
  \/ ProcPush
  \/ ProcRemove
  \/ SetTime
  \/ ProcExpire
  \/ Pop
  \/ PopDone
  \/ StopClient
  \/ TimeOutCallback

TmPollNext ==
  \/ EpollWait
  \/ Disarm
  \/ RemovePoll
  \/ SendExpire

TmNext == TmClientNext \/ TmTaskNext \/ TmPollNext \/ Tick

TmSpec == TmInit /\ [][TmNext]_tmVars

(* Both service threads loop for ever and time passes; clients owe nothing *)
TmFairness ==
  /\ WF_tmVars(TmTaskNext)
  /\ WF_tmVars(TmPollNext)
  /\ WF_tmVars(Tick)

TmFairSpec == TmSpec /\ TmFairness

-----------------------------------------------------------------------------
(* Properties *)

(* A LocTimer and its delegate point at each other exactly while the start *)
(* runs, although stop(), the destructor and expire() race to end it.      *)
OwnersAgree ==
  /\ \A t \in Timer : timer[t] # NULL =>
       t \in alive /\ client[timer[t]] = t /\ life[timer[t]] = "ticking"
  /\ \A d \in Delegate :
       /\ life[d] = "ticking" <=> client[d] # NULL
       /\ client[d] # NULL => timer[client[d]] = d

MessagesFor(d, kind) ==
  {i \in 1..Len(queue) : queue[i].kind = kind /\ queue[i].delegate = d}

(* "all timers are deleted here, and only here" (LocTimer.cpp:362): a      *)
(* delegate that ended has one removal under way, a running one none, and  *)
(* deleted memory is neither in a heap nor in a message.                   *)
DeletedOnce ==
  \A d \in Delegate :
    LET pushes == MessagesFor(d, "push")
        removals == MessagesFor(d, "remove")
    IN /\ life[d] \in {"free", "ticking"} => removals = {}
       /\ life[d] \in {"stopped", "expired"} => \E i \in 1..Len(queue) : removals = {i}
       /\ life[d] = "free" => pushes = {} /\ \A c \in Container : d \notin heap[c]
       /\ \A i \in pushes, j \in removals : i < j

(* A start has one end: its owner and its delegate agree on whether it     *)
(* runs, and the delegate is deleted once, after its push and never while  *)
(* it is in the heap (LocTimer.cpp:362, :486-532).                         *)
EveryStartHasOneEnd == OwnersAgree /\ DeletedOnce

ExpirePending(c) ==
  \/ c = poll.container \/ c \in poll.todo
  \/ \E i \in 1..Len(queue) : queue[i].kind = "expire" /\ queue[i].container = c
  \/ task.pc # "idle" /\ task.container = c

(* No timer is forgotten: while a heap has members, the kernel timer goes  *)
(* off no later than the soonest of them and is polled, or somebody is on  *)
(* the way to look at the heap, however the two threads' settime and       *)
(* epoll_ctl calls interleave (updateSoonestTime, LocTimer.cpp:299).       *)
SoonestIsArmed ==
  \A c \in Container : \A d \in heap[c] :
    \/ c \in tmPolled /\ fd[c] # 0 /\ fd[c] <= deadline[d]
    \/ ExpirePending(c)

(* A client deleted its LocTimer between the read of mClient and the call  *)
Crashed == task.pc = "crashed"

(* Every start ends and its delegate is deleted: a timer that nobody stops *)
(* expires, and the remove message that destroyLocked owes is handled      *)
(* (LocTimer.cpp:362, :383-390, :486-502), unless the MsgTask thread ran   *)
(* into a deleted LocTimer.                                                *)
EveryStartEnds ==
  \A d \in Delegate : life[d] # "free" ~> life[d] = "free" \/ Crashed

(* A timer expires no sooner than it asked for: "pop everything in the     *)
(* heap that outRanks now, i.e. has time older than now and then call      *)
(* expire() on that timer" (LocTimer.cpp:383).                             *)
NoEarlyExpiry ==
  [][\A d \in Delegate :
       life[d] = "ticking" /\ life'[d] = "expired" => deadline[d] <= now]_tmVars

=============================================================================

---------------------------- MODULE MessageQueue ----------------------------
(***************************************************************************)
(* A MsgTask: the linked list of its queue (utils/linked_list.c), the      *)
(* queue (utils/msg_q.c), the thread that takes messages from it and the   *)
(* timers of its delayed messages (utils/MsgTask.cpp), and how it ends     *)
(* (utils/LocThread.cpp).                                                  *)
(*                                                                         *)
(* Every call of the queue holds its mutex to the end, so it is one step;  *)
(* msg_q_rcv is two, since it lets go of the mutex while it waits.  The    *)
(* callback of a timer is two steps, and so is the end of the thread: the  *)
(* MTRunnable goes with whoever lets go of it last, the thread or the      *)
(* LocThreadDelegate that interrupts it.                                   *)
(*                                                                         *)
(* A message is sent once.  The list element of a message is known by the  *)
(* message.  The timers' own threads are in LocTimer.                      *)
(***************************************************************************)
EXTENDS Naturals, Sequences, FiniteSets, SequencesExt

CONSTANTS
  MqMessage,    \* the messages
  MqNull,       \* the null pointer
  MqTroubles    \* "late_callback": a task ends while a timer calls back

ASSUME MqNullAssumption == MqNull \notin MqMessage
ASSUME MqFiniteAssumption == IsFiniteSet(MqMessage)
ASSUME MqTroublesAssumption == MqTroubles \subseteq {"late_callback"}

VARIABLES
  mqList,       \* list_state and the elements' links
  mqUnblocked,  \* msg_q::unblocked
  mqFreed,      \* the queue was flushed and freed
  mqLife,       \* who a message belongs to
  mqHandled,    \* messages whose proc was called, in order
  mqTimers,     \* mAllMsgTimers: messages whose MsgTimer exists
  mqCallback,   \* timers between sendMsg and the lock of timeOutCallback
  mqThread,     \* the thread: where it is and the message it holds
  mqTask        \* the MsgTask and the LocThreadDelegate it deletes

mqVars == <<mqList, mqUnblocked, mqFreed, mqLife, mqHandled, mqTimers,
            mqCallback, mqThread, mqTask>>
mqQueueVars == <<mqList, mqUnblocked, mqFreed>>
mqTimerVars == <<mqTimers, mqCallback>>

-----------------------------------------------------------------------------
(* Types *)

MqPointer == MqMessage \cup {MqNull}

MqTypeOK ==
  /\ mqList \in [head: MqPointer, tail: MqPointer,
                 next: [MqMessage -> MqPointer], prev: [MqMessage -> MqPointer]]
  /\ mqUnblocked \in BOOLEAN /\ mqFreed \in BOOLEAN
  /\ mqLife \in [MqMessage -> {"new", "delayed", "listed", "held", "lost", "deleted"}]
  /\ mqHandled \in Seq(MqMessage)
  /\ mqTimers \subseteq MqMessage /\ mqCallback \subseteq MqMessage
  /\ mqThread \in [pc: {"enter", "asleep", "woken", "proc", "ended"}, message: MqPointer]
  /\ mqTask \in {"alive", "cleared", "interrupting", "gone"}

-----------------------------------------------------------------------------
(* The linked list *)

MqEmptyList == [head |-> MqNull, tail |-> MqNull,
                next |-> [m \in MqMessage |-> MqNull],
                prev |-> [m \in MqMessage |-> MqNull]]

(* The members met by following the links from m *)
MqWalk(link, m) ==
  LET last == Cardinality(MqMessage)
      at[n \in 0..last] == IF n = 0 THEN m
                           ELSE IF at[n - 1] = MqNull THEN MqNull
                           ELSE link[at[n - 1]]
  IN [n \in {k \in 1..(last + 1) : at[k - 1] # MqNull} |-> at[n - 1]]

(* The two orders in which the list is read: msg_q_rcv takes the tail,     *)
(* linked_list_flush starts at the head.                                   *)
MqFromTail(l) == MqWalk(l.prev, l.tail)
MqFromHead(l) == MqWalk(l.next, l.head)

(* Mutant: the element goes to the end that is taken first *)
MutantMqAdded(l, m) ==
  [tail |-> m,
   head |-> IF l.head = MqNull THEN m ELSE l.head,
   prev |-> [l.prev EXCEPT ![m] = l.tail],
   next |-> [e \in MqMessage |-> CASE e = m -> MqNull
                                   [] e = l.tail -> m
                                   [] OTHER -> l.next[e]]]

(* linked_list_add *)
MqAdded(l, m) ==
  [head |-> m,
   tail |-> IF l.head = MqNull THEN m ELSE l.tail,
   next |-> [l.next EXCEPT ![m] = l.head],
   prev |-> [e \in MqMessage |-> CASE e = m -> MqNull
                                   [] e = l.head -> m
                                   [] OTHER -> l.prev[e]]]

(* Mutant: the new tail still points to the element that is freed *)
MutantMqRemoved(l) ==
  LET rest == l.prev[l.tail] IN
  [l EXCEPT !.tail = rest, !.head = IF rest = MqNull THEN MqNull ELSE @]

(* linked_list_remove *)
MqRemoved(l) ==
  LET rest == l.prev[l.tail] IN
  [l EXCEPT !.tail = rest,
            !.head = IF rest = MqNull THEN MqNull ELSE @,
            !.next = [e \in MqMessage |-> IF e = rest THEN MqNull ELSE @[e]]]

-----------------------------------------------------------------------------
(* The queue *)

(* Mutant: the waiter is not signalled *)
MutantMqSnd(m) ==
  IF mqUnblocked
  THEN /\ mqLife' = [mqLife EXCEPT ![m] = "lost"]
       /\ UNCHANGED <<mqList, mqThread>>
  ELSE /\ mqLife' = [mqLife EXCEPT ![m] = "listed"]
       /\ mqList' = MqAdded(mqList, m)
       /\ UNCHANGED mqThread

(* msg_q_snd: a message for a queue that was unblocked is lost, since      *)
(* sendMsg does not look at the result.                                    *)
MqSnd(m) ==
  IF mqUnblocked
  THEN /\ mqLife' = [mqLife EXCEPT ![m] = "lost"]
       /\ UNCHANGED <<mqList, mqThread>>
  ELSE /\ mqLife' = [mqLife EXCEPT ![m] = "listed"]
       /\ mqList' = MqAdded(mqList, m)
       /\ mqThread' = [mqThread EXCEPT !.pc = IF @ = "asleep" THEN "woken" ELSE @]

(* ~MTRunnable: msg_q_flush deletes what is left and the queue is freed *)
MqFree(life) ==
  /\ mqLife' = [m \in MqMessage |-> IF m \in Range(MqFromHead(mqList))
                                    THEN "deleted" ELSE life[m]]
  /\ mqList' = MqEmptyList
  /\ mqFreed' = TRUE

(* The task may be used by its clients, and by its own messages until the  *)
(* destructor is through.                                                  *)
MqUsable == mqTask = "alive" \/ (mqThread.pc = "proc" /\ mqTask # "gone")

(* sendMsg without and with a delay *)
MqSendMsg(m) ==
  /\ MqUsable
  /\ mqLife[m] = "new"
  /\ MqSnd(m)
  /\ UNCHANGED <<mqUnblocked, mqFreed, mqHandled, mqTimerVars, mqTask>>

MqSendDelayed(m) ==
  /\ mqTask = "alive"
  /\ mqLife[m] = "new"
  /\ mqLife' = [mqLife EXCEPT ![m] = "delayed"]
  /\ mqTimers' = mqTimers \cup {m}
  /\ UNCHANGED <<mqQueueVars, mqHandled, mqCallback, mqThread, mqTask>>

-----------------------------------------------------------------------------
(* The timers: timeOutCallback sends the message, and only then takes the  *)
(* lock, looks for its timer, detaches the message and erases the timer.   *)

MqTimeOutCallback(m) ==
  /\ m \in mqTimers \ mqCallback
  /\ mqCallback' = mqCallback \cup {m}
  /\ MqSnd(m)
  /\ UNCHANGED <<mqUnblocked, mqFreed, mqHandled, mqTimers, mqTask>>

(* Mutant: the message is not detached, so the timer deletes it *)
MutantMqErase(m) ==
  /\ m \in mqCallback
  /\ mqCallback' = mqCallback \ {m}
  /\ mqTimers' = mqTimers \ {m}
  /\ mqLife' = [mqLife EXCEPT ![m] = "deleted"]
  /\ UNCHANGED <<mqQueueVars, mqHandled, mqThread, mqTask>>

MqErase(m) ==
  /\ m \in mqCallback
  /\ mqCallback' = mqCallback \ {m}
  /\ mqTimers' = mqTimers \ {m}
  /\ UNCHANGED <<mqQueueVars, mqLife, mqHandled, mqThread, mqTask>>

-----------------------------------------------------------------------------
(* The thread: msg_q_rcv, proc and delete, until run returns false *)

MqSleep ==
  /\ mqThread.pc \in {"enter", "woken"}
  /\ mqList.head = MqNull
  /\ ~mqUnblocked
  /\ mqThread' = [mqThread EXCEPT !.pc = "asleep"]
  /\ UNCHANGED <<mqQueueVars, mqLife, mqHandled, mqTimerVars, mqTask>>

(* The flag is looked at on entry and while the list is empty: a thread    *)
(* that is woken takes a message from a queue that was unblocked since.    *)
MqReceive ==
  /\ mqThread.pc = "woken" \/ (mqThread.pc = "enter" /\ ~mqUnblocked)
  /\ mqList.head # MqNull
  /\ mqThread' = [pc |-> "proc", message |-> mqList.tail]
  /\ mqLife' = [mqLife EXCEPT ![mqList.tail] = "held"]
  /\ mqList' = MqRemoved(mqList)
  /\ UNCHANGED <<mqUnblocked, mqFreed, mqHandled, mqTimerVars, mqTask>>

MqProc ==
  /\ mqThread.pc = "proc"
  /\ mqHandled' = Append(mqHandled, mqThread.message)
  /\ mqLife' = [mqLife EXCEPT ![mqThread.message] = "deleted"]
  /\ mqThread' = [pc |-> "enter", message |-> MqNull]
  /\ UNCHANGED <<mqQueueVars, mqTimerVars, mqTask>>

MqEnd ==
  /\ mqUnblocked
  /\ mqThread.pc = "enter" \/ (mqThread.pc = "woken" /\ mqList.head = MqNull)
  /\ mqThread' = [mqThread EXCEPT !.pc = "ended"]
  /\ IF mqTask = "interrupting"
     THEN UNCHANGED <<mqList, mqFreed, mqLife>>
     ELSE MqFree(mqLife)
  /\ UNCHANGED <<mqUnblocked, mqHandled, mqTimerVars, mqTask>>

-----------------------------------------------------------------------------
(* The end of the task *)

(* ~MsgTask clears mAllMsgTimers without the lock: each ~MsgTimer deletes  *)
(* the message that was not detached.                                      *)
MqDestroy ==
  /\ mqTask = "alive"
  /\ mqCallback = {} \/ "late_callback" \in MqTroubles
  /\ mqTask' = "cleared"
  /\ mqTimers' = {}
  /\ mqLife' = [m \in MqMessage |-> IF m \in mqTimers THEN "deleted" ELSE mqLife[m]]
  /\ UNCHANGED <<mqQueueVars, mqHandled, mqCallback, mqThread>>

(* ~LocThreadDelegate: msg_q_unblock, holding the MTRunnable meanwhile *)
MqInterrupt ==
  /\ mqTask = "cleared"
  /\ mqTask' = "interrupting"
  /\ mqUnblocked' = TRUE
  /\ mqThread' = [mqThread EXCEPT !.pc = IF @ = "asleep" THEN "woken" ELSE @]
  /\ UNCHANGED <<mqList, mqFreed, mqLife, mqHandled, mqTimerVars>>

MqLetGo ==
  /\ mqTask = "interrupting"
  /\ mqTask' = "gone"
  /\ IF mqThread.pc = "ended"
     THEN MqFree(mqLife)
     ELSE UNCHANGED <<mqList, mqFreed, mqLife>>
  /\ UNCHANGED <<mqUnblocked, mqHandled, mqTimerVars, mqThread>>

-----------------------------------------------------------------------------
(* Specification *)

MqInit ==
  /\ mqList = MqEmptyList
  /\ mqUnblocked = FALSE /\ mqFreed = FALSE
  /\ mqLife = [m \in MqMessage |-> "new"]
  /\ mqHandled = <<>>
  /\ mqTimers = {} /\ mqCallback = {}
  /\ mqThread = [pc |-> "enter", message |-> MqNull]
  /\ mqTask = "alive"

MqThread == MqReceive \/ MqProc \/ MqEnd
MqEnding == MqInterrupt \/ MqLetGo

MqNext ==
  \/ \E m \in MqMessage : MqSendMsg(m) \/ MqSendDelayed(m)
  \/ \E m \in MqMessage : MqTimeOutCallback(m) \/ MqErase(m)
  \/ MqSleep \/ MqThread
  \/ MqDestroy \/ MqEnding

(* The threads run, timers expire, and a destructor that has started goes  *)
(* on.  Nobody is made to send or to destroy the task.                     *)
MqFairness ==
  /\ WF_mqVars(MqThread)
  /\ WF_mqVars(MqEnding)
  /\ \A m \in MqMessage : WF_mqVars(MqTimeOutCallback(m)) /\ WF_mqVars(MqErase(m))

MqSpec == MqInit /\ [][MqNext]_mqVars /\ MqFairness

-----------------------------------------------------------------------------
(* Properties *)

(* A message has one owner: what the list leads to, in both directions, is *)
(* what was sent and not taken (linked_list.c:115-207), the thread holds   *)
(* what nobody else deletes, and a timer whose callback has not begun owns *)
(* its message (MsgTask.cpp:76-95).                                        *)
MessageHasOneOwner ==
  /\ MqFromTail(mqList) = Reverse(MqFromHead(mqList))
  /\ Range(MqFromHead(mqList)) = {m \in MqMessage : mqLife[m] = "listed"}
  /\ mqThread.pc = "proc" => mqLife[mqThread.message] = "held"
  /\ \A m \in mqTimers \ mqCallback : mqLife[m] = "delayed"

(* The list read from its tail, after the message the thread holds *)
MqInbox ==
  (IF mqThread.pc = "proc" THEN <<mqThread.message>> ELSE <<>>) \o MqFromTail(mqList)

Fifo == INSTANCE MessageFifo WITH
  Message <- MqMessage, inbox <- MqInbox, handled <- mqHandled, ended <- mqFreed

(* The queue, its thread and its timers implement a first in first out     *)
(* queue that handles each message once (msg_q.c:191-273,                  *)
(* MsgTask.cpp:135-156).                                                   *)
ImplementsFifo == Fifo!Spec

(* Every message that is sent, with a delay or without, is deleted in the  *)
(* end, handled or not, unless the task was already ending when it was     *)
(* sent (msg_q.c:210-215, MsgTask.cpp:97-109).                             *)
EveryMessageEnds ==
  \A m \in MqMessage : mqLife[m] \in {"delayed", "listed"} ~> mqLife[m] = "deleted"

=============================================================================

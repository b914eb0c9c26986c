--------------------------- MODULE BlockingQueue ---------------------------
(***************************************************************************)
(* The queue and the threads of the base utilities                         *)
(* (utils/base_util/src/sync.cpp).  Whoever pushes wakes one of those who  *)
(* wait to pop, and closing the queue wakes them all.  A thread is         *)
(* launched, joined and deleted by its owner, and takes its Runnable with  *)
(* it.                                                                     *)
(*                                                                         *)
(* What is done under the mutex of the queue is one step; a wait is two,   *)
(* as it lets go of the mutex.  It may end for no reason, as POSIX allows. *)
(* The runnables here pop until the queue is closed and empty, or until    *)
(* they have had enough.                                                   *)
(***************************************************************************)
EXTENDS Naturals, Sequences, FiniteSets

CONSTANTS
  BqThread,      \* threads, one Runnable each
  MaxBqPushes    \* bound: pushes

ASSUME BqAssumption == IsFiniteSet(BqThread) /\ MaxBqPushes \in Nat

VARIABLES
  bqItems,    \* m_queue, oldest first
  bqClosed,   \* m_isClosed
  bqPushes,   \* pushes so far, each of its own number
  bqTaken,    \* the items the queue took, in order
  bqPopped,   \* the items that were popped, in order
  bqState,    \* m_state of each ThreadImpl, or where launch() is, or "deleted"
  bqAt,       \* where the thread itself is
  bqRunnable, \* threads whose Runnable was not deleted
  bqRuns,     \* how often it was run
  bqRude      \* threads whose owner did not keep to the rules: see BqDelete

bqQueue == <<bqItems, bqClosed, bqPushes, bqTaken, bqPopped>>
bqOwners == <<bqState, bqRunnable, bqRude>>
bqVars == <<bqQueue, bqOwners, bqAt, bqRuns>>

-----------------------------------------------------------------------------
(* Types *)

BqTypeOK ==
  /\ bqItems \in Seq(1..MaxBqPushes) /\ bqClosed \in BOOLEAN
  /\ bqPushes \in 0..MaxBqPushes
  /\ bqTaken \in Seq(1..MaxBqPushes) /\ bqPopped \in Seq(1..MaxBqPushes)
  /\ bqState \in [BqThread -> {"new", "created", "joinable", "joined", "deleted"}]
  /\ bqAt \in [BqThread -> {"none", "starting", "running", "patient", "impatient", "woken",
                            "hurried", "late", "lost", "ended"}]
  /\ bqRunnable \subseteq BqThread /\ bqRude \subseteq BqThread
  /\ bqRuns \in [BqThread -> 0..2]

(* Those who wait on the condition, and those who are to take the mutex again *)
BqWaiting == {t \in BqThread : bqAt[t] \in {"patient", "impatient"}}
BqWoken == {t \in BqThread : bqAt[t] \in {"woken", "hurried", "late"}}

-----------------------------------------------------------------------------
(* The queue *)

BqWokenUp(t) == IF bqAt[t] = "patient" THEN "woken" ELSE "hurried"

BqWake(t) == bqAt' = [bqAt EXCEPT ![t] = BqWokenUp(t)]

(* Mutant: only the first item wakes somebody *)
MutantBqSignalOne ==
  IF bqItems = <<>> THEN IF BqWaiting = {} THEN UNCHANGED bqAt ELSE \E t \in BqWaiting : BqWake(t)
  ELSE UNCHANGED bqAt

(* signal_one_and_then_unlock *)
BqSignalOne == IF BqWaiting = {} THEN UNCHANGED bqAt ELSE \E t \in BqWaiting : BqWake(t)

(* Mutant: closing wakes one *)
MutantBqSignalAll == BqSignalOne

(* signal_all_and_then_unlock *)
BqSignalAll == bqAt' = [t \in BqThread |-> IF t \in BqWaiting THEN BqWokenUp(t) ELSE bqAt[t]]

(* BlockingQueueImpl::push, which a closed queue refuses *)
BqPush ==
  /\ bqPushes < MaxBqPushes /\ bqPushes' = bqPushes + 1
  /\ IF bqClosed THEN UNCHANGED <<bqItems, bqTaken>>
     ELSE bqItems' = Append(bqItems, bqPushes + 1) /\ bqTaken' = Append(bqTaken, bqPushes + 1)
  /\ BqSignalOne
  /\ UNCHANGED <<bqClosed, bqPopped, bqOwners, bqRuns>>

(* BlockingQueueImpl::close *)
BqClose ==
  /\ ~bqClosed /\ bqClosed' = TRUE
  /\ BqSignalAll
  /\ UNCHANGED <<bqItems, bqPushes, bqTaken, bqPopped, bqOwners, bqRuns>>

(* ZeroIfShouldWaitAgain_locked *)
BqShouldWait == ~bqClosed /\ bqItems = <<>>

(* The rest of pop: a thread that finds the queue closed and empty ends    *)
BqTake(t) ==
  IF bqItems # <<>>
  THEN /\ bqPopped' = Append(bqPopped, Head(bqItems)) /\ bqItems' = Tail(bqItems)
       /\ bqAt' = [bqAt EXCEPT ![t] = "running"]
  ELSE /\ bqAt' = [bqAt EXCEPT ![t] = IF bqClosed THEN "ended" ELSE "running"]
       /\ UNCHANGED <<bqItems, bqPopped>>

(* pop, to wait for ever, for a time or not at all; lock_and_wait *)
BqPop(t, patience) ==
  /\ bqAt[t] = "running"
  /\ IF BqShouldWait /\ patience # "none"
     THEN bqAt' = [bqAt EXCEPT ![t] = patience] /\ UNCHANGED <<bqItems, bqPopped>>
     ELSE BqTake(t)
  /\ UNCHANGED <<bqClosed, bqPushes, bqTaken, bqOwners, bqRuns>>

(* The wait ends for no reason, or since its time is over *)
BqWaitEnds(t) ==
  /\ t \in BqWaiting
  /\ \/ BqWake(t)
     \/ bqAt[t] = "impatient" /\ bqAt' = [bqAt EXCEPT ![t] = "late"]
  /\ UNCHANGED <<bqQueue, bqOwners, bqRuns>>

(* lock_and_wait goes on with the mutex.  Who waits again does so for the  *)
(* whole of its time.                                                      *)
BqGoOn(t) ==
  /\ t \in BqWoken
  /\ IF BqShouldWait /\ bqAt[t] # "late"
     THEN /\ bqAt' = [bqAt EXCEPT ![t] = IF @ = "woken" THEN "patient" ELSE "impatient"]
          /\ UNCHANGED <<bqItems, bqPopped>>
     ELSE BqTake(t)
  /\ UNCHANGED <<bqClosed, bqPushes, bqTaken, bqOwners, bqRuns>>

-----------------------------------------------------------------------------
(* Threads *)

(* ThreadImpl::launch: the thread is made, and then it is named *)
BqLaunch(t) ==
  /\ bqState[t] = "new" /\ bqRuns[t] < 2
  /\ bqAt[t] \in {"none", "ended"}
  /\ bqState' = [bqState EXCEPT ![t] = "created"]
  /\ bqAt' = [bqAt EXCEPT ![t] = "starting"]
  /\ UNCHANGED <<bqQueue, bqRunnable, bqRude, bqRuns>>

(* pthread_setname_np does not find a thread that has ended: the launch    *)
(* has failed then, though the Runnable was run                            *)
BqName(t) ==
  /\ bqState[t] = "created"
  /\ bqState' = [bqState EXCEPT ![t] = IF bqAt[t] = "ended" THEN "new" ELSE "joinable"]
  /\ bqRude' = IF bqAt[t] = "ended" THEN bqRude \cup {t} ELSE bqRude
  /\ UNCHANGED <<bqQueue, bqRunnable, bqAt, bqRuns>>

(* thread_func: it reads what may be deleted by now *)
BqThreadFunc(t) ==
  /\ bqAt[t] = "starting"
  /\ IF bqState[t] = "deleted"
     THEN bqAt' = [bqAt EXCEPT ![t] = "lost"] /\ UNCHANGED bqRuns
     ELSE /\ bqAt' = [bqAt EXCEPT ![t] = "running"]
          /\ bqRuns' = [bqRuns EXCEPT ![t] = @ + 1]
  /\ UNCHANGED <<bqQueue, bqOwners>>

(* The Runnable has had enough *)
BqEnd(t) ==
  /\ bqAt[t] = "running"
  /\ bqAt' = [bqAt EXCEPT ![t] = "ended"]
  /\ UNCHANGED <<bqQueue, bqOwners, bqRuns>>

(* Mutant: join does not wait *)
MutantBqIsOver(t) == TRUE

(* pthread_join returns *)
BqIsOver(t) == bqAt[t] = "ended"

(* ThreadImpl::join *)
BqJoin(t) ==
  /\ bqState[t] = "joinable" /\ BqIsOver(t)
  /\ bqState' = [bqState EXCEPT ![t] = "joined"]
  /\ UNCHANGED <<bqQueue, bqRunnable, bqRude, bqAt, bqRuns>>

(* ~ThreadImpl: the Runnable of a thread that was not joined stays, and    *)
(* so does a thread                                                        *)
BqDelete(t) ==
  /\ bqState[t] \in {"new", "joinable", "joined"}
  /\ bqState' = [bqState EXCEPT ![t] = "deleted"]
  /\ bqRunnable' = IF bqState[t] = "joinable" THEN bqRunnable ELSE bqRunnable \ {t}
  /\ bqRude' = IF bqState[t] = "joinable" THEN bqRude \cup {t} ELSE bqRude
  /\ UNCHANGED <<bqQueue, bqAt, bqRuns>>

-----------------------------------------------------------------------------
BqInit ==
  /\ bqItems = <<>> /\ bqClosed = FALSE /\ bqPushes = 0 /\ bqTaken = <<>> /\ bqPopped = <<>>
  /\ bqState = [t \in BqThread |-> "new"] /\ bqAt = [t \in BqThread |-> "none"]
  /\ bqRunnable = BqThread /\ bqRude = {}
  /\ bqRuns = [t \in BqThread |-> 0]

BqNext ==
  \/ BqPush
  \/ BqClose
  \/ \E t \in BqThread, patience \in {"patient", "impatient", "none"} : BqPop(t, patience)
  \/ \E t \in BqThread : BqWaitEnds(t)
  \/ \E t \in BqThread : BqGoOn(t)
  \/ \E t \in BqThread : BqLaunch(t)
  \/ \E t \in BqThread : BqName(t)
  \/ \E t \in BqThread : BqThreadFunc(t)
  \/ \E t \in BqThread : BqEnd(t)
  \/ \E t \in BqThread : BqJoin(t)
  \/ \E t \in BqThread : BqDelete(t)

BqSpec == BqInit /\ [][BqNext]_bqVars

-----------------------------------------------------------------------------
(* Properties *)

(* No wake-up is lost: somebody waits only while those who were woken can  *)
(* take all the items there are, and nobody waits once the queue is        *)
(* closed; and what the queue took is popped once, in order                *)
(* (sync.cpp:342-509, 555-724).                                            *)
NobodySleepsOverAnItem ==
  /\ BqWaiting # {} => Len(bqItems) <= Cardinality(BqWoken) /\ ~bqClosed
  /\ bqPopped \o bqItems = bqTaken

(* Until its owner deletes a thread it did not join, a Runnable is there   *)
(* for as long as it runs, and it runs once and is deleted with a thread   *)
(* that was joined: unless it was so fast that its thread could not be     *)
(* named (sync.cpp:764-885).                                               *)
RunnablesAreThereWhileTheyRun ==
  \A t \in BqThread \ bqRude :
    /\ bqAt[t] \notin {"none", "ended"} => t \in bqRunnable /\ bqState[t] # "deleted"
    /\ bqRuns[t] <= 1
    /\ bqState[t] = "deleted" => t \notin bqRunnable

QueuesHandOver == NobodySleepsOverAnItem /\ RunnablesAreThereWhileTheyRun

=============================================================================

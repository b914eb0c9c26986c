-------------------------- MODULE BatchingFrontEnd --------------------------
(***************************************************************************)
(* Batching as the framework sees it: GnssBatching and BatchingAPIClient   *)
(* (android/aidl-impl/GnssBatching.cpp,                                    *)
(* android/aidl-impl/location_api/BatchingAPIClient.cpp), with the one     *)
(* session they have at LocationAPIClientBase.                             *)
(*                                                                         *)
(* A stop asks for what is batched and stops, and the batch it gets goes   *)
(* to a cache, for the flush that is expected to follow.  Reports are      *)
(* handled on the message thread of the adapter; a flush of a session that *)
(* is not known reports on a thread of its own.  Each holds the mutex to   *)
(* copy the cache, lets go of it to call the framework, and takes it again *)
(* to clear the cache.                                                     *)
(*                                                                         *)
(* The adapter and the modem are external: commands are handled in their   *)
(* order, a request for the batch of a session that runs brings one        *)
(* report, and the answer to a stop comes before or after it.  A location  *)
(* is a number, in the order they are determined.                          *)
(***************************************************************************)
EXTENDS Naturals, Sequences, SequencesExt

CONSTANTS
  BfCallback,  \* callbacks of the framework, one for each of its lives
  BfNone,      \* no callback
  BfFlusher,   \* threads that report for a flush of a session not known
  MaxBfEvents  \* bound: operations of the framework and locations

ASSUME BfAssumption ==
  /\ BfNone \notin BfCallback /\ "adapter" \notin BfFlusher
  /\ MaxBfEvents \in Nat

VARIABLES
  bfFront,    \* mState, mBatchedLocationInCache, mGnssBatchingCbIface
  bfSteps,    \* what is left of the operation of each binder thread
  bfThreads,  \* threads in onBatchingCb
  bfSession,  \* mSessionBiDict has mDefaultId
  bfAsked,    \* commands the adapter has not handled, oldest first
  bfStops,    \* stops that are handled and not answered
  bfModem,    \* does it batch, and what
  bfReports,  \* reports for the message thread, oldest first
  bfTold,     \* locations the framework was told, in order
  bfFixes,    \* locations so far
  bfOps,      \* operations so far
  bfGone,     \* locations that were stopped or reported to nobody
  bfOwed,     \* a flush that is to be reported was not yet
  bfTrouble   \* what is known to go wrong: reports that overlap, starts and
              \* stops that do or that came before the answer to a stop

bfVars == <<bfFront, bfSteps, bfThreads, bfSession, bfAsked, bfStops, bfModem,
            bfReports, bfTold, bfFixes, bfOps, bfGone, bfOwed, bfTrouble>>

bfBelow == <<bfStops, bfModem, bfReports, bfFixes>>
bfGhosts == <<bfGone, bfOwed, bfTrouble>>

-----------------------------------------------------------------------------
(* Types *)

BfBinder == {"framework", "death"}
BfReporter == {"adapter"} \cup BfFlusher
BfFix == 1..MaxBfEvents
BfStep == {"started", "stopping", "unset", "start", "get", "stop", "flush"}

BfTypeOK ==
  /\ bfFront.state \in {"STARTED", "STOPPING", "STOPPED"}
  /\ bfFront.cache \in Seq(BfFix) /\ bfFront.iface \in BfCallback \cup {BfNone}
  /\ bfSteps \in [BfBinder -> Seq(BfStep)]
  /\ bfThreads \in [BfReporter -> [at: {"idle", "enter", "tell", "clear"},
                                   batch: Seq(BfFix)]]
  /\ bfSession \in BOOLEAN
  /\ bfAsked \in Seq({"start", "get", "stop"}) /\ bfStops \in {0, 1}
  /\ bfModem.batching \in BOOLEAN /\ bfModem.fifo \in Seq(BfFix)
  /\ bfReports \in Seq(Seq(BfFix)) /\ bfTold \in Seq(BfFix)
  /\ bfFixes \in 0..MaxBfEvents /\ bfOps \in 0..MaxBfEvents
  /\ bfGone \subseteq BfFix /\ bfOwed \in BOOLEAN
  /\ bfTrouble \in [overlap: BOOLEAN, hasty: BOOLEAN]

-----------------------------------------------------------------------------
(* Operations of the framework *)

BfMore == bfOps + bfFixes < MaxBfEvents

(* A stop is not through before it is answered *)
BfUnanswered == bfStops > 0 \/ "stop" \in ToSet(bfAsked)

BfStopping ==
  \/ BfUnanswered
  \/ \E b \in BfBinder : "stop" \in ToSet(bfSteps[b])

BfBegins(binder, steps) ==
  /\ bfSteps[binder] = <<>> /\ BfMore
  /\ bfSteps' = [bfSteps EXCEPT ![binder] = steps]
  /\ bfOps' = bfOps + 1
  /\ bfTrouble' = [bfTrouble EXCEPT !.hasty =
                      IF steps = <<"flush">> THEN @
                      ELSE \E b \in BfBinder \ {binder} : bfSteps[b] # <<>>]
  /\ UNCHANGED <<bfFront, bfThreads, bfSession, bfAsked, bfBelow, bfTold, bfGone, bfOwed>>

BfStopSteps == <<"stopping", "get", "stop">>

BfOperation ==
  \/ BfBegins("framework", <<"started", "start">>)
  \/ BfBegins("framework", BfStopSteps)
  \/ BfBegins("framework", <<"flush">>)
  \/ \E binder \in BfBinder : BfBegins(binder, <<"unset">> \o BfStopSteps)

(* init of the framework's next life *)
BfSetCallback(callback) ==
  /\ bfSteps["framework"] = <<>> /\ BfMore
  /\ bfFront.iface # callback
  /\ bfFront' = [bfFront EXCEPT !.iface = callback]
  /\ bfOps' = bfOps + 1
  /\ UNCHANGED <<bfSteps, bfThreads, bfSession, bfAsked, bfBelow, bfTold, bfGhosts>>

BfDoes(binder, step) ==
  /\ bfSteps[binder] # <<>> /\ Head(bfSteps[binder]) = step
  /\ bfSteps' = [bfSteps EXCEPT ![binder] = Tail(@)]
  /\ UNCHANGED <<bfOps, bfBelow, bfTold, bfGone>>

(* startSession and stopSession change mState, cleanup the callback        *)
BfStarted(binder) ==
  /\ BfDoes(binder, "started")
  /\ bfFront' = [bfFront EXCEPT !.state = "STARTED"]
  /\ UNCHANGED <<bfThreads, bfSession, bfAsked, bfOwed, bfTrouble>>

BfStoppingState(binder) ==
  /\ BfDoes(binder, "stopping")
  /\ bfFront' = [bfFront EXCEPT !.state = "STOPPING"]
  /\ bfOwed' = (bfOwed /\ bfFront.state = "STARTED" /\ ~BfUnanswered)
  /\ UNCHANGED <<bfThreads, bfSession, bfAsked, bfTrouble>>

BfUnset(binder) ==
  /\ BfDoes(binder, "unset")
  /\ bfFront' = [bfFront EXCEPT !.iface = BfNone]
  /\ bfOwed' = FALSE
  /\ UNCHANGED <<bfThreads, bfSession, bfAsked, bfTrouble>>

(* locAPIStartSession refuses while it knows the session                   *)
BfStart(binder) ==
  /\ BfDoes(binder, "start")
  /\ bfSession' = TRUE
  /\ bfAsked' = IF bfSession THEN bfAsked ELSE Append(bfAsked, "start")
  /\ bfTrouble' = [bfTrouble EXCEPT !.hasty = @ \/ (bfSession /\ BfStopping)]
  /\ UNCHANGED <<bfFront, bfThreads, bfOwed>>

(* locAPIGetBatchedLocations and locAPIStopSession                         *)
BfAsk(binder, command) ==
  /\ BfDoes(binder, command)
  /\ bfAsked' = IF bfSession THEN Append(bfAsked, command) ELSE bfAsked
  /\ bfOwed' = (bfOwed /\ bfSession)
  /\ UNCHANGED <<bfFront, bfThreads, bfSession, bfTrouble>>

BfMayReport(thread) == thread # "adapter" /\ bfThreads[thread].at = "idle"

(* Mutant: a session that is not known is not reported for                 *)
MutantBfFlush(binder) ==
  /\ BfDoes(binder, "flush")
  /\ bfAsked' = IF bfSession THEN Append(bfAsked, "get") ELSE bfAsked
  /\ bfOwed' = (bfOwed \/ (bfFront.iface # BfNone /\ ~BfStopping
                           /\ bfFront.state = IF bfSession THEN "STARTED" ELSE "STOPPED"))
  /\ UNCHANGED <<bfFront, bfThreads, bfSession, bfTrouble>>

(* A flush is to be reported unless it meets a stop that is not through or *)
(* that found no session to stop.                                          *)
BfFlush(binder) ==
  /\ BfDoes(binder, "flush")
  /\ \/ /\ bfSession
        /\ bfAsked' = Append(bfAsked, "get")
        /\ UNCHANGED bfThreads
     \/ /\ ~bfSession
        /\ \E thread \in BfReporter :
             /\ BfMayReport(thread)
             /\ bfThreads' = [bfThreads EXCEPT ![thread].at = "enter"]
        /\ UNCHANGED bfAsked
  /\ bfOwed' = (bfOwed \/ (bfFront.iface # BfNone /\ ~BfStopping
                           /\ bfFront.state = IF bfSession THEN "STARTED" ELSE "STOPPED"))
  /\ UNCHANGED <<bfFront, bfSession, bfTrouble>>

-----------------------------------------------------------------------------
(* The adapter and the modem *)

BfOnlyBelow == UNCHANGED <<bfFront, bfSteps, bfThreads, bfTold, bfOps, bfOwed, bfTrouble>>

BfFixDetermined ==
  /\ bfModem.batching /\ BfMore
  /\ bfFixes' = bfFixes + 1
  /\ bfModem' = [bfModem EXCEPT !.fifo = Append(@, bfFixes + 1)]
  /\ UNCHANGED <<bfSession, bfAsked, bfStops, bfReports, bfGone>> /\ BfOnlyBelow

BfReported == /\ bfReports' = Append(bfReports, bfModem.fifo)
              /\ bfModem' = [bfModem EXCEPT !.fifo = <<>>]

BfFull ==
  /\ bfModem.fifo # <<>> /\ BfReported
  /\ UNCHANGED <<bfSession, bfAsked, bfStops, bfFixes, bfGone>> /\ BfOnlyBelow

BfHandles(command) ==
  /\ bfAsked # <<>> /\ Head(bfAsked) = command
  /\ bfAsked' = Tail(bfAsked)
  /\ UNCHANGED <<bfSession, bfFixes>> /\ BfOnlyBelow

BfHandleStart ==
  /\ BfHandles("start")
  /\ bfModem' = [batching |-> TRUE, fifo |-> <<>>]
  /\ UNCHANGED <<bfStops, bfReports, bfGone>>

(* A session that was stopped is not known, and nothing is reported        *)
BfHandleGet ==
  /\ BfHandles("get")
  /\ IF bfModem.batching THEN BfReported ELSE UNCHANGED <<bfReports, bfModem>>
  /\ UNCHANGED <<bfStops, bfGone>>

BfHandleStop ==
  /\ BfHandles("stop")
  /\ bfModem' = [batching |-> FALSE, fifo |-> <<>>]
  /\ bfGone' = bfGone \cup ToSet(bfModem.fifo)
  /\ bfStops' = IF bfModem.batching THEN bfStops + 1 ELSE bfStops
  /\ UNCHANGED bfReports

(* removeSession *)
BfStopAnswered ==
  /\ bfStops > 0
  /\ bfStops' = bfStops - 1
  /\ bfSession' = FALSE
  /\ UNCHANGED <<bfAsked, bfModem, bfReports, bfFixes, bfGone>> /\ BfOnlyBelow

-----------------------------------------------------------------------------
(* onBatchingCb *)

BfOnlyReports == UNCHANGED <<bfSteps, bfSession, bfAsked, bfStops, bfModem, bfFixes, bfOps>>

BfTake ==
  /\ bfThreads["adapter"].at = "idle" /\ bfReports # <<>>
  /\ bfThreads' = [bfThreads EXCEPT !["adapter"] = [at |-> "enter", batch |-> Head(bfReports)]]
  /\ bfReports' = Tail(bfReports)
  /\ UNCHANGED <<bfFront, bfTold, bfGhosts>> /\ BfOnlyReports

BfIdle == [at |-> "idle", batch |-> <<>>]

(* Another thread has copied the cache and not cleared it                  *)
BfOverlaps(thread) ==
  \E t \in BfReporter \ {thread} : bfThreads[t].at \in {"tell", "clear"}

BfEnters(thread) ==
  /\ bfThreads[thread].at = "enter"
  /\ bfTrouble' = [bfTrouble EXCEPT !.overlap = @ \/ BfOverlaps(thread)]
  /\ UNCHANGED <<bfReports, bfTold>> /\ BfOnlyReports

(* Mutant: what the stop brought is forgotten *)
MutantBfCache(thread) ==
  /\ BfEnters(thread) /\ bfFront.state = "STOPPING"
  /\ bfFront' = [bfFront EXCEPT !.state = "STOPPED", !.cache = bfThreads[thread].batch]
  /\ bfThreads' = [bfThreads EXCEPT ![thread] = BfIdle]
  /\ UNCHANGED <<bfGone, bfOwed>>

(* The batch of a stop is kept *)
BfCache(thread) ==
  /\ BfEnters(thread) /\ bfFront.state = "STOPPING"
  /\ bfFront' = [bfFront EXCEPT !.state = "STOPPED", !.cache = @ \o bfThreads[thread].batch]
  /\ bfThreads' = [bfThreads EXCEPT ![thread] = BfIdle]
  /\ UNCHANGED <<bfGone, bfOwed>>

(* Mutant: the cache is older, and reported last *)
MutantBfCopy(thread) ==
  /\ BfEnters(thread) /\ bfFront.state # "STOPPING" /\ bfFront.iface # BfNone
  /\ bfThreads' = [bfThreads EXCEPT ![thread] =
                     [at |-> "tell", batch |-> @.batch \o bfFront.cache]]
  /\ UNCHANGED <<bfFront, bfGone, bfOwed>>

(* Otherwise it is reported with what is in the cache ...                  *)
BfCopy(thread) ==
  /\ BfEnters(thread) /\ bfFront.state # "STOPPING" /\ bfFront.iface # BfNone
  /\ bfThreads' = [bfThreads EXCEPT ![thread] =
                     [at |-> "tell", batch |-> bfFront.cache \o @.batch]]
  /\ UNCHANGED <<bfFront, bfGone, bfOwed>>

(* ... if there is somebody to report to                                   *)
BfDrop(thread) ==
  /\ BfEnters(thread) /\ bfFront.state # "STOPPING" /\ bfFront.iface = BfNone
  /\ bfThreads' = [bfThreads EXCEPT ![thread] = [at |-> "clear", batch |-> <<>>]]
  /\ bfGone' = bfGone \cup ToSet(bfThreads[thread].batch \o bfFront.cache)
  /\ UNCHANGED <<bfFront, bfOwed>>

(* gnssLocationBatchCb, without the mutex *)
BfTell(thread) ==
  /\ bfThreads[thread].at = "tell"
  /\ bfTold' = bfTold \o bfThreads[thread].batch
  /\ bfThreads' = [bfThreads EXCEPT ![thread] = [at |-> "clear", batch |-> <<>>]]
  /\ bfOwed' = FALSE
  /\ UNCHANGED <<bfFront, bfReports, bfGone, bfTrouble>> /\ BfOnlyReports

(* Mutant: the cache is not cleared *)
MutantBfClear(thread) ==
  /\ bfThreads[thread].at = "clear"
  /\ bfThreads' = [bfThreads EXCEPT ![thread] = BfIdle]
  /\ UNCHANGED <<bfFront, bfReports, bfTold, bfGhosts>> /\ BfOnlyReports

BfClear(thread) ==
  /\ bfThreads[thread].at = "clear"
  /\ bfThreads' = [bfThreads EXCEPT ![thread] = BfIdle]
  /\ bfFront' = [bfFront EXCEPT !.cache = <<>>]
  /\ UNCHANGED <<bfReports, bfTold, bfGhosts>> /\ BfOnlyReports

-----------------------------------------------------------------------------

BfInit ==
  /\ \E callback \in BfCallback :
       bfFront = [state |-> "STOPPED", cache |-> <<>>, iface |-> callback]
  /\ bfSteps = [b \in BfBinder |-> <<>>]
  /\ bfThreads = [t \in BfReporter |-> BfIdle]
  /\ bfSession = FALSE /\ bfAsked = <<>> /\ bfStops = 0
  /\ bfModem = [batching |-> FALSE, fifo |-> <<>>]
  /\ bfReports = <<>> /\ bfTold = <<>>
  /\ bfFixes = 0 /\ bfOps = 0 /\ bfGone = {} /\ bfOwed = FALSE
  /\ bfTrouble = [overlap |-> FALSE, hasty |-> FALSE]

BfNext ==
  \/ BfOperation
  \/ \E callback \in BfCallback : BfSetCallback(callback)
  \/ \E binder \in BfBinder :
       \/ BfStarted(binder) \/ BfStoppingState(binder) \/ BfUnset(binder)
       \/ BfStart(binder) \/ BfFlush(binder)
       \/ \E command \in {"get", "stop"} : BfAsk(binder, command)
  \/ BfFixDetermined \/ BfFull
  \/ BfHandleStart \/ BfHandleGet \/ BfHandleStop \/ BfStopAnswered
  \/ BfTake
  \/ \E thread \in BfReporter :
       \/ BfCache(thread) \/ BfCopy(thread) \/ BfDrop(thread)
       \/ BfTell(thread) \/ BfClear(thread)

BfSpec == BfInit /\ [][BfNext]_bfVars

-----------------------------------------------------------------------------
(* Properties *)

BfNobodyReports == \A t \in BfReporter : bfThreads[t].at = "idle"

BfQuiet ==
  /\ BfNobodyReports /\ bfReports = <<>> /\ bfAsked = <<>> /\ bfStops = 0
  /\ \A b \in BfBinder : bfSteps[b] = <<>>

(* Where the locations are, from those told first to those determined last *)
BfAll == bfTold \o bfFront.cache \o FlattenSeq(bfReports) \o bfModem.fifo

(* Unless two reports overlap, each location is told once and in order, or *)
(* waits for it; the others were not asked for or there was nobody to tell.*)
BfEachOnce ==
  BfNobodyReports /\ ~bfTrouble.overlap =>
    /\ \A i, j \in DOMAIN BfAll : i < j => BfAll[i] < BfAll[j]
    /\ ToSet(BfAll) = (1..bfFixes) \ bfGone

(* A flush brings a report, even if the session is stopped or there is     *)
(* none, unless it meets a stop.                                           *)
BfFlushReports == BfQuiet => ~bfOwed

(* The modem batches while the framework wants it, unless a start overlaps *)
(* a stop, or came before it was answered.                                 *)
BfModemFollows ==
  BfQuiet /\ ~bfTrouble.hasty => (bfModem.batching <=> bfFront.state = "STARTED")

(* What the framework gets of batching: BatchingAPIClient.cpp:85-97,       *)
(* 116-131, 137-143, 150-203.                                              *)
BatchesReachTheFramework == BfEachOnce /\ BfFlushReports /\ BfModemFollows

=============================================================================

------------------------------- MODULE LocIpc -------------------------------
(***************************************************************************)
(* Messages between processes (utils/LocIpc.cpp, utils/LocIpc.h): Sock     *)
(* cuts a long message into pieces, and every receiver of a process puts   *)
(* the pieces together in the one map sSockToPayloadMap.  A receiver       *)
(* listens on a thread of its own until it is sent the abort message.      *)
(*                                                                         *)
(* The key of the map is the number of the sender's socket and the length  *)
(* of the message.  Messages with as many pieces have the same length      *)
(* here, and no two sockets have the same number.  A socket of the kernel  *)
(* is a queue of datagrams that may be full.                               *)
(***************************************************************************)
EXTENDS Naturals, Sequences, FiniteSets, SequencesExt

CONSTANTS
  IpSender,       \* the senders' sockets
  IpRecver,       \* the receivers of the process
  IpTo,           \* the receiver each sender sends to
  IpNamed,        \* senders whose socket has an address of its own
  MaxIpMessages,  \* bound: messages
  MaxIpPieces,    \* bound: pieces of a message
  MaxIpBuffer     \* bound: datagrams a socket holds

ASSUME IpToAssumption == IpTo \in [IpSender -> IpRecver]
ASSUME IpNamedAssumption == IpNamed \subseteq IpSender
ASSUME IpBoundsAssumption == {MaxIpMessages, MaxIpPieces, MaxIpBuffer} \subseteq Nat \ {0}

VARIABLES
  ipSent,      \* the messages so far: who sends it, in how many pieces
  ipNext,      \* the piece each sender sends next
  ipBuffer,    \* datagrams in the socket of each receiver, oldest first
  ipPartial,   \* sSockToPayloadMap: the pieces that came, by key
  ipListener,  \* the listening thread of each receiver
  ipStopped,   \* whether each receiver was told to stop, or could not be
  ipAddr,      \* mAddr of each receiver: itself, or the last named sender
  ipGot        \* what onReceive was called with, for each receiver

ipVars == <<ipSent, ipNext, ipBuffer, ipPartial, ipListener, ipStopped, ipAddr, ipGot>>
ipSendVars == <<ipSent, ipNext>>
ipRecvVars == <<ipPartial, ipListener, ipStopped, ipAddr, ipGot>>

-----------------------------------------------------------------------------
(* Types *)

IpPieces == 1..MaxIpPieces
IpMessages == 1..MaxIpMessages

(* A piece: the message it is of and its place in it; <<0, 0>> is ABORT *)
IpPiece == IpMessages \X IpPieces
IpAbort == <<0, 0>>

IpTypeOK ==
  /\ ipSent \in Seq([from: IpSender, pieces: IpPieces, whole: {"no", "yes", "failed"}])
  /\ ipNext \in [IpSender -> 0..MaxIpPieces]
  /\ \A r \in IpRecver : /\ ipBuffer[r] \in Seq(IpPiece \cup {IpAbort})
                         /\ ipGot[r] \in Seq(Seq(IpPiece))
  /\ DOMAIN ipPartial \subseteq IpSender \X IpPieces
  /\ Range(ipPartial) \subseteq Seq(IpPiece)
  /\ ipListener \in [IpRecver -> {"no", "listening", "ended"}]
  /\ ipStopped \in [IpRecver -> {"no", "yes", "failed"}]
  /\ ipAddr \in [IpRecver -> IpSender \cup IpRecver]

-----------------------------------------------------------------------------
(* Sending *)

(* The message a sender is sending: its last one *)
IpCurrent(s) == CHOOSE i \in DOMAIN ipSent :
  ipSent[i].from = s /\ \A j \in DOMAIN ipSent : ipSent[j].from = s => j <= i

IpSend(s, n) ==
  /\ Len(ipSent) < MaxIpMessages
  /\ ipNext[s] = 0
  /\ ipSent' = Append(ipSent, [from |-> s, pieces |-> n, whole |-> "no"])
  /\ ipNext' = [ipNext EXCEPT ![s] = 1]
  /\ UNCHANGED <<ipBuffer, ipRecvVars>>

(* Mutant: the loop takes one piece too many                               *)
MutantIpSendto(s) ==
  LET i == IpCurrent(s)
      r == IpTo[s]
      last == ipNext[s] > ipSent[i].pieces
  IN /\ ipNext[s] # 0
     /\ Len(ipBuffer[r]) < MaxIpBuffer
     /\ ipBuffer' = [ipBuffer EXCEPT ![r] = Append(@, <<i, ipNext[s]>>)]
     /\ ipNext' = [ipNext EXCEPT ![s] = IF last THEN 0 ELSE @ + 1]
     /\ ipSent' = IF last THEN [ipSent EXCEPT ![i].whole = "yes"] ELSE ipSent
     /\ UNCHANGED ipRecvVars

(* One ::sendto: the message itself, or its next piece with a header *)
IpSendto(s) ==
  LET i == IpCurrent(s)
      r == IpTo[s]
      last == ipNext[s] = ipSent[i].pieces
  IN /\ ipNext[s] # 0
     /\ Len(ipBuffer[r]) < MaxIpBuffer
     /\ ipBuffer' = [ipBuffer EXCEPT ![r] = Append(@, <<i, ipNext[s]>>)]
     /\ ipNext' = [ipNext EXCEPT ![s] = IF last THEN 0 ELSE @ + 1]
     /\ ipSent' = IF last THEN [ipSent EXCEPT ![i].whole = "yes"] ELSE ipSent
     /\ UNCHANGED ipRecvVars

(* The socket stays full until the send timeout: the rest is not sent *)
IpSendFails(s) ==
  /\ ipNext[s] # 0
  /\ Len(ipBuffer[IpTo[s]]) = MaxIpBuffer
  /\ ipNext' = [ipNext EXCEPT ![s] = 0]
  /\ ipSent' = [ipSent EXCEPT ![IpCurrent(s)].whole = "failed"]
  /\ UNCHANGED <<ipBuffer, ipRecvVars>>

-----------------------------------------------------------------------------
(* Receiving *)

(* startNonBlockingListening, or startBlockingListening on a thread of the *)
(* user's                                                                  *)
IpListen(r) ==
  /\ ipListener[r] = "no"
  /\ ipListener' = [ipListener EXCEPT ![r] = "listening"]
  /\ UNCHANGED <<ipSendVars, ipBuffer, ipPartial, ipStopped, ipAddr, ipGot>>

(* Mutant: the key is the length alone *)
MutantIpKey(i) == <<ipSent[1].from, ipSent[i].pieces>>

IpKey(i) == <<ipSent[i].from, ipSent[i].pieces>>

IpWithout(key) == [k \in DOMAIN ipPartial \ {key} |-> ipPartial[k]]

(* Mutant: the entry stays when the message is handed over *)
MutantIpGather(r, p) ==
  LET key == IpKey(p[1])
      came == IF key \in DOMAIN ipPartial THEN ipPartial[key] ELSE <<>>
      pieces == Append(came, p)
      whole == Len(pieces) = ipSent[p[1]].pieces
  IN /\ ipPartial' = [k \in DOMAIN ipPartial \cup {key} |->
                        IF k = key THEN pieces ELSE ipPartial[k]]
     /\ ipGot' = IF whole THEN [ipGot EXCEPT ![r] = Append(@, pieces)] ELSE ipGot

(* A piece goes behind those of its key that came before it.  A message    *)
(* that fits a datagram has no header and goes straight to the listener.   *)
IpGather(r, p) ==
  LET key == IpKey(p[1])
      came == IF key \in DOMAIN ipPartial THEN ipPartial[key] ELSE <<>>
      pieces == Append(came, p)
      whole == Len(pieces) = ipSent[p[1]].pieces
  IN /\ ipPartial' = IF whole THEN IpWithout(key)
                     ELSE [k \in DOMAIN ipPartial \cup {key} |->
                             IF k = key THEN pieces ELSE ipPartial[k]]
     /\ ipGot' = IF whole THEN [ipGot EXCEPT ![r] = Append(@, pieces)] ELSE ipGot

(* Mutant: the abort message does not end the loop *)
MutantIpRecvfrom(r) ==
  LET p == Head(ipBuffer[r]) IN
  /\ ipListener[r] = "listening"
  /\ ipBuffer[r] # <<>>
  /\ ipBuffer' = [ipBuffer EXCEPT ![r] = Tail(@)]
  /\ IF p = IpAbort THEN UNCHANGED <<ipPartial, ipGot>> ELSE IpGather(r, p)
  /\ UNCHANGED <<ipSendVars, ipListener, ipStopped, ipAddr>>

(* recvfrom fills in the address of the sender, if it has one.  The abort  *)
(* message comes from the receiver's own socket and ends the loop.         *)
IpRecvfrom(r) ==
  LET p == Head(ipBuffer[r]) IN
  /\ ipListener[r] = "listening"
  /\ ipBuffer[r] # <<>>
  /\ ipBuffer' = [ipBuffer EXCEPT ![r] = Tail(@)]
  /\ IF p = IpAbort
     THEN /\ ipListener' = [ipListener EXCEPT ![r] = "ended"]
          /\ UNCHANGED <<ipPartial, ipGot, ipAddr>>
     ELSE /\ IpGather(r, p)
          /\ ipAddr' = [ipAddr EXCEPT ![r] =
                          IF ipSent[p[1]].from \in IpNamed THEN ipSent[p[1]].from ELSE @]
          /\ UNCHANGED ipListener
  /\ UNCHANGED <<ipSendVars, ipStopped>>

(* A failing recvfrom clears the map of the whole process and ends the     *)
(* listening thread.                                                       *)
IpRecvFails(r) ==
  /\ ipListener[r] = "listening"
  /\ ipListener' = [ipListener EXCEPT ![r] = "ended"]
  /\ ipPartial' = <<>>
  /\ UNCHANGED <<ipSendVars, ipBuffer, ipStopped, ipAddr, ipGot>>

(* stopNonBlockingListening and stopBlockingListening: the abort message   *)
(* goes to mAddr, when the socket there has room.                          *)
IpStop(r) ==
  /\ ipListener[r] = "listening" /\ ipStopped[r] = "no"
  /\ ipAddr[r] = r => Len(ipBuffer[r]) < MaxIpBuffer
  /\ ipStopped' = [ipStopped EXCEPT ![r] = "yes"]
  /\ ipBuffer' = IF ipAddr[r] = r THEN [ipBuffer EXCEPT ![r] = Append(@, IpAbort)]
                 ELSE ipBuffer
  /\ UNCHANGED <<ipSendVars, ipPartial, ipListener, ipAddr, ipGot>>

(* The receiver's own socket stays full until the send timeout it set: the *)
(* abort message is not sent, nobody looks at what the send returned, and  *)
(* listening goes on.                                                      *)
IpStopFails(r) ==
  /\ ipListener[r] = "listening" /\ ipStopped[r] = "no"
  /\ ipAddr[r] = r /\ Len(ipBuffer[r]) = MaxIpBuffer
  /\ ipStopped' = [ipStopped EXCEPT ![r] = "failed"]
  /\ UNCHANGED <<ipSendVars, ipBuffer, ipPartial, ipListener, ipAddr, ipGot>>

-----------------------------------------------------------------------------
(* Specification *)

IpInit ==
  /\ ipSent = <<>>
  /\ ipNext = [s \in IpSender |-> 0]
  /\ ipBuffer = [r \in IpRecver |-> <<>>]
  /\ ipPartial = <<>>
  /\ ipListener = [r \in IpRecver |-> "no"]
  /\ ipStopped = [r \in IpRecver |-> "no"]
  /\ ipAddr = [r \in IpRecver |-> r]
  /\ ipGot = [r \in IpRecver |-> <<>>]

IpNext ==
  \/ \E s \in IpSender : IpSendto(s) \/ IpSendFails(s) \/ \E n \in IpPieces : IpSend(s, n)
  \/ \E r \in IpRecver : \/ IpListen(r) \/ IpRecvfrom(r) \/ IpRecvFails(r)
                         \/ IpStop(r) \/ IpStopFails(r)

(* A send goes on while the socket has room, and a listening thread reads *)
IpFairness ==
  /\ \A s \in IpSender : WF_ipVars(IpSendto(s))
  /\ \A r \in IpRecver : WF_ipVars(IpRecvfrom(r))

IpSpec == IpInit /\ [][IpNext]_ipVars /\ IpFairness

-----------------------------------------------------------------------------
(* Properties *)

(* What a listener gets is a message somebody sent to it, with all its     *)
(* pieces in their order, and at most once, however the pieces of several  *)
(* senders mix (LocIpc.cpp:102-180).  Not so after a send of the same      *)
(* sender and length that failed midway: its pieces are still in the map.  *)
GotWhatWasSent ==
  \A r \in IpRecver : \A k \in DOMAIN ipGot[r] :
    LET got == ipGot[r][k]
        i == got[1][1]
    IN \/ \E j \in 1..i : ipSent[j].whole = "failed" /\ IpKey(j) = IpKey(i)
       \/ /\ got = [n \in 1..ipSent[i].pieces |-> <<i, n>>]
          /\ IpTo[ipSent[i].from] = r
          /\ \A l \in DOMAIN ipGot[r] : ipGot[r][l] = got => l = k

(* A message whose send succeeded is handed to a listener that goes on     *)
(* listening, unless an earlier one like it failed midway                  *)
(* (LocIpc.cpp:116-122, :146-172).                                         *)
WholeMessagesArrive ==
  \A i \in IpMessages :
    (i \in DOMAIN ipSent /\ ipSent[i].whole = "yes") ~>
      \/ \E r \in IpRecver : \E k \in DOMAIN ipGot[r] : ipGot[r][k][1][1] = i
      \/ i \in DOMAIN ipSent /\ ipListener[IpTo[ipSent[i].from]] # "listening"
      \/ \E j \in DOMAIN ipSent : i \in DOMAIN ipSent /\ ipSent[j].whole = "failed"
                                  /\ IpKey(j) = IpKey(i)

(* "The listening can be stopped by calling stopNonBlockingListening()"    *)
(* (LocIpc.h:143-144): a receiver that the abort message was sent to ends. *)
(* One whose socket was full until the send timed out may listen on.       *)
StopEndsListening ==
  \A r \in IpRecver : ipStopped[r] = "yes" ~> ipListener[r] = "ended"

(* A listener hears what was sent to it until it is told to stop, and then *)
(* ends, if the abort message could be sent (LocIpc.cpp:373-430).          *)
ListenersAreServed == WholeMessagesArrive /\ StopEndsListening

=============================================================================

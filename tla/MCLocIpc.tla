----------------------------- MODULE MCLocIpc -----------------------------
(* One receiver, and two senders of which one has an address of its own *)
EXTENDS LocIpc

OneReceiver == [s \in IpSender |-> "recver"]

=============================================================================

---------------------------- MODULE MessageFifo ----------------------------
(***************************************************************************)
(* What those who send messages to a MsgTask (utils/MsgTask.h) rely on:    *)
(* the messages it takes are handled once each, one at a time and in the   *)
(* order it took them, until the task ends and drops the rest.  There are  *)
(* no lists, locks or timers here.  MessageQueue implements it.            *)
(***************************************************************************)
EXTENDS Sequences

CONSTANT Message

VARIABLES
  inbox,     \* messages taken and not handled yet, oldest first
  handled,   \* messages handled, in order
  ended      \* the task is no more

Range(s) == {s[i] : i \in DOMAIN s}

Init == inbox = <<>> /\ handled = <<>> /\ ended = FALSE

Take(m) ==
  /\ ~ended
  /\ m \notin Range(inbox) \cup Range(handled)
  /\ inbox' = Append(inbox, m)
  /\ UNCHANGED <<handled, ended>>

Handle ==
  /\ ~ended
  /\ inbox # <<>>
  /\ handled' = Append(handled, Head(inbox))
  /\ inbox' = Tail(inbox)
  /\ UNCHANGED ended

End ==
  /\ ~ended
  /\ ended' = TRUE
  /\ inbox' = <<>>
  /\ UNCHANGED handled

Next == Handle \/ End \/ \E m \in Message : Take(m)

Spec == Init /\ [][Next]_<<inbox, handled, ended>>

=============================================================================

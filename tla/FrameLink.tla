----------------------------- MODULE FrameLink -----------------------------
(***************************************************************************)
(* What an implementation of APRSInterface::Receive, a TNC or an APRS-IS   *)
(* session, promises the loop of ReceiveBroadcastPacket: the texts of the  *)
(* broadcast frames the other end gave are passed on whole, each once, in  *)
(* the order in which they were given, and nothing else is.                *)
(***************************************************************************)
EXTENDS SequencesExt

CONSTANT MayDrop     \* whether a frame may be passed over

VARIABLES
  sent,               \* the texts given so far, oldest first
  passed              \* the texts passed on so far, oldest first

vars == <<sent, passed>>

\* The members of the sequence p stand in s, in the same order.
InOrder(p, s) ==
  \E at \in [DOMAIN p -> DOMAIN s] :
    /\ \A i, j \in DOMAIN p : i < j => at[i] < at[j]
    /\ \A i \in DOMAIN p : p[i] = s[at[i]]

Init == sent = <<>> /\ passed = <<>>

Give ==
  /\ \E text \in Range(sent') : sent' = Append(sent, text)
  /\ UNCHANGED passed

Pass ==
  /\ \E text \in Range(sent) : passed' = Append(passed, text)
  /\ IF MayDrop THEN InOrder(passed', sent) ELSE IsPrefix(passed', sent)
  /\ UNCHANGED sent

Next == Give \/ Pass

Spec == Init /\ [][Next]_vars
=============================================================================

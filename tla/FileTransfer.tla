---------------------------- MODULE FileTransfer ----------------------------
(***************************************************************************)
(* What the receiver promises about the files it is sent, chunk by chunk:  *)
(* the beginning it holds only grows, the file on the disk is always the   *)
(* beginning last held, and nothing happens to a file once it is held      *)
(* whole.  A process that is started again holds nothing and rewrites the  *)
(* file from its beginning; one that dies writing leaves less than it had. *)
(***************************************************************************)
EXTENDS Naturals

CONSTANTS
  Transfer,           \* the files that may be under way
  Size                \* the length of each

VARIABLES
  held,               \* the bytes of the beginning the process has had
  saved               \* the bytes of the beginning on the disk

vars == <<held, saved>>

Init ==
  /\ held = [t \in Transfer |-> 0]
  /\ saved = [t \in Transfer |-> 0]

Grow(t) ==
  /\ \E n \in (held[t] + 1)..Size[t] :
       /\ held' = [held EXCEPT ![t] = n]
       /\ saved' = [saved EXCEPT ![t] = n]

Restart ==
  /\ held' = [t \in Transfer |-> 0]
  /\ UNCHANGED saved

\* Only a file that is not held whole is being written.
DieWriting(t) ==
  /\ held[t] < Size[t]
  /\ \E n \in 0..(Size[t] - 1) : saved' = [saved EXCEPT ![t] = n]
  /\ held' = [u \in Transfer |-> 0]

Next == (\E t \in Transfer : Grow(t) \/ DieWriting(t)) \/ Restart

Spec == Init /\ [][Next]_vars
=============================================================================

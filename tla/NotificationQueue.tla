------------------------ MODULE NotificationQueue ------------------------
(* What the storage webhook promises to the object store's notification   *)
(* queue, without saying how.  Notifications wait in a single queue whose *)
(* head blocks the rest.  A notification leaves the queue only from its   *)
(* head, and only once every fact it carries is kept durably: in the file *)
(* index, or as a dead letter.                                            *)
EXTENDS Sequences

CONSTANTS Notification,  \* the bodies the store may post
          Facts          \* by notification: what a notification asks to have kept

VARIABLES waiting,       \* the store's queue, head first
          kept           \* facts durably recorded

absVars == <<waiting, kept>>

AbsInit == /\ waiting = <<>>
           /\ kept = {}

Arrive == /\ \E n \in Notification : waiting' = Append(waiting, n)
          /\ UNCHANGED kept

Keep == /\ \E n \in Notification : \E f \in Facts[n] : kept' = kept \cup {f}
        /\ UNCHANGED waiting

Release == /\ waiting # <<>>
           /\ Facts[Head(waiting)] \subseteq kept
           /\ waiting' = Tail(waiting)
           /\ UNCHANGED kept

AbsNext == Arrive \/ Keep \/ Release

AbsSpec == AbsInit /\ [][AbsNext]_absVars
=============================================================================

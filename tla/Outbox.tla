------------------------------- MODULE Outbox -------------------------------
(***************************************************************************)
(* What a session's write side promises the code that posts frames to it:  *)
(* a first-in first-out outbox that may lose frames but never reorders,    *)
(* repeats or invents one.  A kick keeps at most the frame that is being   *)
(* written, announces itself last and accepts nothing more.  How frames    *)
(* are queued, written, refused and retried is left to module Session.     *)
(*                                                                         *)
(* Frames are numbered in the order of posting; 0 is the KICK.             *)
(***************************************************************************)
EXTENDS Naturals

VARIABLES
  posted,     \* number of frames posted so far
  waiting,    \* frames accepted and not yet delivered or lost
  delivered,  \* frames the connection has taken completely
  status      \* "open", "kicked" or "closed"

box == <<posted, waiting, delivered, status>>

Init ==
  /\ posted = 0
  /\ waiting = {}
  /\ delivered = {}
  /\ status = "open"

(* A frame is posted; only an open session takes it in. *)
Post ==
  /\ posted' = posted + 1
  /\ waiting' = IF status = "open" THEN waiting \cup {posted + 1} ELSE waiting
  /\ UNCHANGED <<delivered, status>>

(* The oldest waiting frame is delivered. *)
DeliverOldest ==
  /\ status # "closed"
  /\ \E f \in waiting :
       /\ \A g \in waiting : f <= g
       /\ waiting' = waiting \ {f}
       /\ delivered' = delivered \cup {f}
  /\ UNCHANGED <<posted, status>>

(* A waiting frame is lost. *)
Lose ==
  /\ \E f \in waiting : waiting' = waiting \ {f}
  /\ UNCHANGED <<posted, delivered, status>>

(* All waiting frames are lost but for the one being written, if any. *)
KickOff ==
  /\ status = "open"
  /\ status' = "kicked"
  /\ \E keep \in SUBSET waiting :
       /\ \A f \in keep, g \in waiting : f <= g
       /\ waiting' = keep
  /\ UNCHANGED <<posted, delivered>>

(* The KICK is delivered, after everything else. *)
DeliverKick ==
  /\ status = "kicked"
  /\ waiting = {}
  /\ 0 \notin delivered
  /\ delivered' = delivered \cup {0}
  /\ UNCHANGED <<posted, waiting, status>>

Shut ==
  /\ status # "closed"
  /\ status' = "closed"
  /\ waiting' = {}
  /\ UNCHANGED <<posted, delivered>>

Next == Post \/ DeliverOldest \/ Lose \/ KickOff \/ DeliverKick \/ Shut

Spec == Init /\ [][Next]_box
=============================================================================

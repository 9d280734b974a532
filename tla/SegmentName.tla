----------------------------- MODULE SegmentName -----------------------------
(***************************************************************************)
(* What the exclusive creation of "/onvif_subscription" promises to the    *)
(* instances of onvif_notify_server: one of them has the name at a time,   *)
(* only that one gives it back, and one that ends without doing so leaves  *)
(* it taken.                                                               *)
(***************************************************************************)
CONSTANTS
  Instances,  (* starts of the program                                      *)
  None        (* no instance                                                *)

VARIABLES
  name,       (* who has the name                                           *)
  ended       (* the instances that came to their end                       *)

NameInit == name = None /\ ended = {}

Take(i) ==
  /\ i \notin ended
  /\ name = None
  /\ name' = i
  /\ UNCHANGED ended

GiveBack(i) ==
  /\ i \notin ended
  /\ name = i
  /\ name' = None
  /\ UNCHANGED ended

End(i) ==
  /\ i \notin ended
  /\ ended' = ended \cup {i}
  /\ UNCHANGED name

NameNext == \E i \in Instances : Take(i) \/ GiveBack(i) \/ End(i)

NameSpec == NameInit /\ [][NameNext]_<<name, ended>>

===============================================================================

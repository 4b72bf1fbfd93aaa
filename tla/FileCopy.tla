------------------------------ MODULE FileCopy ------------------------------
(***************************************************************************)
(* What `udb pull` and `udb push` promise: the copy grows as a prefix of   *)
(* one version of the source, and when the command reports completion it   *)
(* is that version.  A transfer may be abandoned at any point, never       *)
(* completed with the wrong content.                                       *)
(***************************************************************************)
EXTENDS Integers, Sequences

CONSTANTS Contents,     \* the contents a source may have
          Unfixed       \* no version of the source has been chosen yet

VARIABLES src,          \* the version being copied
          dst,          \* the copy
          phase         \* "idle", "copying", "done" or "abandoned"

Init == src = Unfixed /\ dst = << >> /\ phase = "idle"

(* A new transfer truncates the copy. *)
Start == /\ phase # "copying"
         /\ phase' = "copying" /\ dst' = << >> /\ src' = Unfixed

(* Requests under way are still served after the command was abandoned. *)
UnderWay == phase \in {"copying", "abandoned"}

(* The version that is copied is the one at this instant. *)
Fix == /\ UnderWay /\ src = Unfixed
       /\ \E content \in Contents : src' = content
       /\ UNCHANGED <<dst, phase>>

Extend == /\ UnderWay /\ src # Unfixed
          /\ \E n \in Len(dst) .. Len(src) : dst' = SubSeq(src, 1, n)
          /\ UNCHANGED <<src, phase>>

Finish == /\ phase = "copying" /\ src # Unfixed
          /\ dst' = src /\ phase' = "done"
          /\ UNCHANGED src

Abandon == /\ phase = "copying" /\ phase' = "abandoned"
           /\ UNCHANGED <<src, dst>>

Next == Start \/ Fix \/ Extend \/ Finish \/ Abandon

Spec == Init /\ [][Next]_<<src, dst, phase>>
=============================================================================

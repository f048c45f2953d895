---------------------------- MODULE AtomicUpdate ----------------------------
(***************************************************************************)
(* What a firmware update over the air promises: whatever happens on the   *)
(* way, the device starts a complete image, and it only ever moves to a    *)
(* complete image that the server offered, never back.                     *)
(***************************************************************************)
EXTENDS Naturals

CONSTANT MaxVersion

VARIABLE installed  \* the version whose complete image the device starts

Init == installed = 1

Update ==
    /\ \E v \in installed .. MaxVersion : installed' = v

Spec == Init /\ [][Update]_installed
============================================================================

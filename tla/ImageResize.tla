---------------------------- MODULE ImageResize ----------------------------
(***************************************************************************)
(* What a volume promises the sandbox that mounts it, whatever the service *)
(* is doing to the image underneath: it has a size, which never shrinks,   *)
(* and it keeps every block the guest has written.  A resize is one step.  *)
(***************************************************************************)
EXTENDS Naturals

VARIABLES
  size,     \* blocks the filesystem has
  data      \* the blocks the guest has written

ResizeVars == <<size, data>>

ResizeInit == size \in Nat /\ data = {}

Resize == size' \in Nat /\ size' > size /\ data' = data

GuestWrites ==
  /\ \E b \in (0 .. size - 1) \ data : data' = data \cup {b}
  /\ size' = size

ResizeNext == Resize \/ GuestWrites

ResizeSpec == ResizeInit /\ [][ResizeNext]_ResizeVars
=============================================================================

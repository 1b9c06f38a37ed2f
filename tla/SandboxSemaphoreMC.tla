-------------------------- MODULE SandboxSemaphoreMC --------------------------
(* Instances of SandboxSemaphore for TLC: two rows compete for one slot.   *)
EXTENDS SandboxSemaphore

AnyFault == {"redis", "release", "crash"}
NoFault == {}
=============================================================================

--------------------------- MODULE MCLoginLockout ---------------------------
(* LoginLockout on small instances.                                          *)
EXTENDS LoginLockout, TLC

\* Requests, addresses and passwords are interchangeable in a safety run.
Symmetric == Permutations(Requests) \cup Permutations(Addresses) \cup Permutations(Passwords)
=============================================================================

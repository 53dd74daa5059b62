---------------------------- MODULE MCRngLifecycle ----------------------------
(* A buffer of two blocks and a reseed of one, requests that fall short of  *)
(* the buffer and that cross a refill, and three instances: a parent with   *)
(* two siblings, a child and a grandchild, or a snapshot among them.        *)
EXTENDS RngLifecycle
=============================================================================

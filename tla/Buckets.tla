------------------------------ MODULE Buckets ------------------------------
(***************************************************************************)
(* What the interceptors of packages/mcp-query/src/server/ share: each one *)
(* keeps its state per key, and keyFn (by default the server, for mcp-gate *)
(* the tenant and the server) assigns every operation to a key.            *)
(***************************************************************************)
EXTENDS FiniteSets

CONSTANTS
  Ops,     \* operations
  Keys,    \* buckets
  keyOf    \* keyFn, a function from Ops to Keys

ASSUME BucketAssumption == IsFiniteSet(Ops) /\ keyOf \in [Ops -> Keys]

=============================================================================

---------------------------- MODULE MCShmCache ----------------------------
(* Instances of ShmCache for TLC. *)
EXTENDS ShmCache, TLC

CONSTANTS k1, k2, k3, k4, long

(* Two buckets: k1 and k2 collide. *)
TwoBuckets == [k \in Keys |-> IF k \in {k3, long} THEN 1 ELSE 0]

(* A long chain: k1, k2 and k3 collide, k4 has a bucket of its own. *)
LongChain == [k \in Keys |-> IF k = k4 THEN 1 ELSE 0]

(* Workers run the same code: they are interchangeable. *)
WorkerSymmetry == Permutations(Workers)
===========================================================================

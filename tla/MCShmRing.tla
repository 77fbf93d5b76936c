----------------------------- MODULE MCShmRing -----------------------------
(* shm::Ring for TLC: one reader, since readers do not interact, and as    *)
(* many messages as take the producer round its two slots three times.     *)
EXTENDS ShmRing
=============================================================================

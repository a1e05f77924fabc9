---------------------------- MODULE MCLruUnittest ----------------------------
(* Bounds for LruUnittest.                                                 *)
EXTENDS LruUnittest

\* LruCachePressureTest fills, refreshes and empties a cache of 0xFFFFF
\* keys; four keys take every loop through a full cache.
MCPressureSize == 4

\* 100 threads on a cache of 100 entries; three threads reach every
\* interleaving of Put, HasKey and Remove across threads on a full cache.
MCNumWorkers == 3
=============================================================================

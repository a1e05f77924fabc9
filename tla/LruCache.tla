------------------------------ MODULE LruCache ------------------------------
(***************************************************************************)
(* bluetooth::common::LruCache (common/lru.h), whose source is not part of *)
(* this repository: its contract as the specification states it (§5).    *)
(* A cache is a value; each operation maps a cache to the next one and    *)
(* what the call returns.  Operations are serialised by the cache's       *)
(* internal mutex, so each is one atomic step of its caller.               *)
(*                                                                         *)
(*   order  the resident keys, least recently used first                  *)
(*   val    the value of each resident key                                *)
(***************************************************************************)
EXTENDS Naturals, Sequences, Functions
LOCAL INSTANCE SequencesExt

\* LruCache(capacity, log_tag, callback): empty.
NewCache(capacity) == [capacity |-> capacity, order |-> <<>>, val |-> <<>>]

Resident(c) == ToSet(c.order)

Size(c) == Len(c.order)

\* The key made the most recently used.
LOCAL Touch(order, k) == Append(Remove(order, k), k)

\* Put(k, v): an existing key gets the value and becomes the most recently
\* used, evicting nothing; a new key is inserted as the most recently used
\* and, when that exceeds the capacity, the least recently used node is
\* evicted and handed to the eviction callback.
Put(c, k, v) ==
  LET order == Touch(c.order, k)
      val == (k :> v) @@ c.val
  IN IF k \notin Resident(c) /\ Len(order) > c.capacity
     THEN [cache |-> [c EXCEPT !.order = Tail(order),
                               !.val = Restrict(val, DOMAIN val \ {Head(order)})],
           evicted |-> <<[key |-> Head(order), value |-> val[Head(order)]]>>]
     ELSE [cache |-> [c EXCEPT !.order = order, !.val = val], evicted |-> <<>>]

\* Get(k, &value): a resident key becomes the most recently used.
Get(c, k) ==
  IF k \in Resident(c)
  THEN [cache |-> [c EXCEPT !.order = Touch(@, k)], found |-> TRUE, value |-> c.val[k]]
  ELSE [cache |-> c, found |-> FALSE, value |-> 0]

HasKey(c, k) == k \in Resident(c)

\* Remove(k): whether the key was resident; the eviction callback is not run.
RemoveKey(c, k) ==
  [cache |-> [c EXCEPT !.order = Remove(@, k),
                       !.val = Restrict(@, DOMAIN @ \ {k})],
   found |-> k \in Resident(c)]

Clear(c) == NewCache(c.capacity)

=============================================================================

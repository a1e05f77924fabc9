----------------------------- MODULE LruUnittest -----------------------------
(***************************************************************************)
(* The LruCache tests (common/lru_unittest.cc) run against the cache's    *)
(* contract (module LruCache).  A behaviour is one test: the sequential   *)
(* tests are scripts of calls and EXPECTs run one statement per step; the *)
(* multi-thread test runs its worker threads in every interleaving of     *)
(* their cache calls, each call atomic under the cache's mutex, and then  *)
(* joins them.  An EXPECT that does not hold is recorded in failed.       *)
(***************************************************************************)
EXTENDS Naturals, Sequences, FiniteSets, Functions
LOCAL INSTANCE SequencesExt
LOCAL INSTANCE LruCache

CONSTANTS
  PressureSize,  \* max_size of LruCachePressureTest (0xFFFFF in the test)
  NumWorkers     \* threads of BluetoothLruMultiThreadPressureTest (100 in the test)

ASSUME PressureSize \in Nat \ {0} /\ NumWorkers \in Nat \ {0}

-----------------------------------------------------------------------------
(* Statements of the sequential tests.                                     *)

P(k, v) == [op |-> "Put", key |-> k, val |-> v]           \* cache.Put(k, v)
G(k, v) == [op |-> "Get", key |-> k, val |-> v]           \* EXPECT_TRUE(Get); EXPECT_EQ(*value, v)
NG(k) == [op |-> "NoGet", key |-> k]                      \* EXPECT_FALSE(cache.Get(k, value))
H(k, b) == [op |-> "Has", key |-> k, val |-> b]           \* EXPECT_*(cache.HasKey(k))
R(k) == [op |-> "Remove", key |-> k]                      \* EXPECT_TRUE(cache.Remove(k))
S(n) == [op |-> "Size", val |-> n]                        \* EXPECT_EQ(cache.Size(), n)
D(n) == [op |-> "Dummy", val |-> n]                       \* EXPECT_EQ(dummy, n)
Clr == [op |-> "Clear"]                                   \* cache.Clear()

\* for (key = lo; key <= hi; key++) body(key)
For(lo, hi, body(_)) == [i \in 1..(hi - lo + 1) |-> body(lo + i - 1)]

LruCacheMainTest1 ==
  [capacity |-> 3, callback |-> "set",
   script |-> << P(1, 10), S(1), P(2, 20), P(3, 30), S(3), D(0),
                 G(1, 10), G(2, 20), G(3, 30), S(3),
                 P(4, 40), D(1), NG(1), G(4, 40), G(2, 20), G(3, 30),
                 P(5, 50), S(3), R(3), P(6, 60),
                 NG(3), NG(4), G(2, 20), G(5, 50), G(6, 60) >>]

LruCacheMainTest2 ==
  [capacity |-> 2, callback |-> "incr",
   script |-> << P(1, 10), P(2, 20), D(0), P(3, 30), D(1), P(2, 200), D(1), S(2),
                 H(1, FALSE), G(2, 200), G(3, 30),
                 P(4, 40), D(2), H(2, FALSE), G(3, 30), G(4, 40),
                 R(4), S(1), P(2, 2000), H(4, FALSE), G(3, 30), G(2, 2000),
                 R(2), R(3), P(5, 50), P(1, 100), P(1, 1000), S(2),
                 H(2, FALSE), H(3, FALSE), G(1, 1000), G(5, 50) >>]

LruCacheRemoveTest ==
  [capacity |-> 10, callback |-> "none",
   script |-> For(0, 30, LAMBDA k : P(k, k * 100)) \o For(0, 20, LAMBDA k : H(k, FALSE))
              \o For(21, 30, LAMBDA k : H(k, TRUE)) \o For(21, 30, R)
              \o For(21, 30, LAMBDA k : H(k, FALSE))]

LruCacheClearTest ==
  [capacity |-> 10, callback |-> "none",
   script |-> For(0, 9, LAMBDA k : P(k, k * 100)) \o For(0, 9, LAMBDA k : H(k, TRUE))
              \o <<Clr>> \o For(0, 9, LAMBDA k : H(k, FALSE))
              \o For(0, 9, LAMBDA k : P(k, k * 1000)) \o For(0, 9, LAMBDA k : H(k, TRUE))]

\* Fill, check full, refresh every key, then read and remove all; the
\* execution-time EXPECT is left out.
LruCachePressureTest ==
  LET N == PressureSize IN
  [capacity |-> N, callback |-> "none",
   script |-> For(0, N - 1, LAMBDA k : P(k, k)) \o For(0, N - 1, LAMBDA k : H(k, TRUE))
              \o FlattenSeq(For(0, N - 1, LAMBDA k : << P(k + N, k + N), H(k, FALSE),
                                                          H(k + N, TRUE) >>))
              \o FlattenSeq(For(N, 2 * N - 1, LAMBDA k : << G(k, k), R(k) >>))
              \o <<S(0)>>]

Tests ==
  [t \in {"MainTest1", "MainTest2", "RemoveTest", "ClearTest", "PressureTest"} |->
     CASE t = "MainTest1" -> LruCacheMainTest1
       [] t = "MainTest2" -> LruCacheMainTest2
       [] t = "RemoveTest" -> LruCacheRemoveTest
       [] t = "ClearTest" -> LruCacheClearTest
       [] t = "PressureTest" -> LruCachePressureTest]

\* Mutant: the eviction callback never reaches dummy.
OnEvictLost(callback, dummy) == dummy

\* The eviction callbacks: (*pointer) = 1, (*pointer)++, or nothing.
OnEvict(callback, dummy) ==
  CASE callback = "set" -> 1
    [] callback = "incr" -> dummy + 1
    [] callback = "none" -> dummy

-----------------------------------------------------------------------------
VARIABLES
  test,     \* the test being run
  pc,       \* next statement of a sequential test; 1 (join) or 2 in the multi-thread test
  cache,    \* the LruCache under test
  dummy,    \* the int the eviction callback writes through its pointer
  worker,   \* multi-thread test: thread -> "put" | "has" | "remove" | "done"
  failed    \* EXPECTs that did not hold

vars == <<test, pc, cache, dummy, worker, failed>>

Fail(b, what) == IF b THEN failed ELSE failed \cup {what}

\* One statement of a sequential test.
RunStatement ==
  /\ test \in DOMAIN Tests
  /\ pc <= Len(Tests[test].script)
  /\ LET st == Tests[test].script[pc] IN
       CASE st.op = "Put" ->
              LET r == Put(cache, st.key, st.val) IN
              /\ cache' = r.cache
              /\ dummy' = IF r.evicted = <<>> THEN dummy
                          ELSE OnEvict(Tests[test].callback, dummy)
              /\ UNCHANGED failed
         [] st.op = "Get" ->
              LET r == Get(cache, st.key) IN
              /\ cache' = r.cache
              /\ failed' = Fail(r.found /\ r.value = st.val, pc)
              /\ UNCHANGED dummy
         [] st.op = "NoGet" ->
              LET r == Get(cache, st.key) IN
              /\ cache' = r.cache
              /\ failed' = Fail(~r.found, pc)
              /\ UNCHANGED dummy
         [] st.op = "Has" ->
              /\ failed' = Fail(HasKey(cache, st.key) = st.val, pc)
              /\ UNCHANGED <<cache, dummy>>
         [] st.op = "Remove" ->
              LET r == RemoveKey(cache, st.key) IN
              /\ cache' = r.cache
              /\ failed' = Fail(r.found, pc)
              /\ UNCHANGED dummy
         [] st.op = "Size" ->
              /\ failed' = Fail(Size(cache) = st.val, pc)
              /\ UNCHANGED <<cache, dummy>>
         [] st.op = "Dummy" ->
              /\ failed' = Fail(dummy = st.val, pc)
              /\ UNCHANGED <<cache, dummy>>
         [] st.op = "Clear" ->
              /\ cache' = Clear(cache)
              /\ UNCHANGED <<dummy, failed>>
  /\ pc' = pc + 1
  /\ UNCHANGED <<test, worker>>

-----------------------------------------------------------------------------
(* BluetoothLruMultiThreadPressureTest.                                    *)

Workers == 0..(NumWorkers - 1)   \* thread `key` works on key `key`

\* Mutant: the cache one entry smaller than the number of threads.
MultiThreadCacheCapacityOneShort == NumWorkers - 1

\* LruCache<int, int> cache(100, ...), as large as the number of threads.
MultiThreadCacheCapacity == NumWorkers

\* pointer->Put(key, key)
WorkerPut(w) ==
  /\ test = "MultiThread" /\ worker[w] = "put"
  /\ cache' = Put(cache, w, w).cache
  /\ worker' = [worker EXCEPT ![w] = "has"]
  /\ UNCHANGED <<test, pc, dummy, failed>>

\* EXPECT_TRUE(pointer->HasKey(key))
WorkerHasKey(w) ==
  /\ test = "MultiThread" /\ worker[w] = "has"
  /\ failed' = Fail(HasKey(cache, w), <<w, "HasKey">>)
  /\ worker' = [worker EXCEPT ![w] = "remove"]
  /\ UNCHANGED <<test, pc, cache, dummy>>

\* EXPECT_TRUE(pointer->Remove(key))
WorkerRemove(w) ==
  /\ test = "MultiThread" /\ worker[w] = "remove"
  /\ LET r == RemoveKey(cache, w) IN
       /\ cache' = r.cache
       /\ failed' = Fail(r.found, <<w, "Remove">>)
  /\ worker' = [worker EXCEPT ![w] = "done"]
  /\ UNCHANGED <<test, pc, dummy>>

\* join every worker, then EXPECT_EQ(cache.Size(), 0)
JoinAndCheckSize ==
  /\ test = "MultiThread" /\ pc = 1
  /\ \A w \in Workers : worker[w] = "done"
  /\ failed' = Fail(Size(cache) = 0, "Size")
  /\ pc' = 2
  /\ UNCHANGED <<test, cache, dummy, worker>>

-----------------------------------------------------------------------------
Init ==
  \/ \E t \in DOMAIN Tests :
       /\ test = t /\ pc = 1
       /\ cache = NewCache(Tests[t].capacity)
       /\ worker = [w \in {} |-> "done"]
       /\ dummy = 0 /\ failed = {}
  \/ /\ test = "MultiThread" /\ pc = 1
     /\ cache = NewCache(MultiThreadCacheCapacity)
     /\ worker = [w \in Workers |-> "put"]
     /\ dummy = 0 /\ failed = {}

TestEnded ==
  IF test = "MultiThread" THEN pc = 2 ELSE pc > Len(Tests[test].script)

\* The test has returned: nothing more happens.
Finished == TestEnded /\ UNCHANGED vars

Next ==
  \/ RunStatement
  \/ \E w \in Workers : WorkerPut(w) \/ WorkerHasKey(w) \/ WorkerRemove(w)
  \/ JoinAndCheckSize
  \/ Finished

Spec == Init /\ [][Next]_vars

-----------------------------------------------------------------------------
(* Properties.                                                             *)

\* Every EXPECT of the sequential tests holds for a cache that keeps the
\* contract: eviction order after Get, no eviction when Put updates a key,
\* Remove without the eviction callback, Clear, and the refresh of a full
\* cache.
ExpectationsHold == test \in DOMAIN Tests => failed = {}

\* In every interleaving of the worker threads, each thread finds its own
\* key after its Put and removes it, and the cache is empty after the join:
\* no Put of another thread evicts a key whose thread has not removed it.
WorkersSeeOwnKey == test = "MultiThread" => failed = {}

=============================================================================

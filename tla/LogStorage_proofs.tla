-------------------------- MODULE LogStorage_proofs --------------------------
(***************************************************************************)
(* Proofs about LogStorage: that the log is always readable, that a        *)
(* leader's memory is durable, and that the storage implements             *)
(* DurableStore.                                                           *)
(*                                                                         *)
(* Reading the log and replaying a transaction are folds, so the argument  *)
(* begins with what a fold does at the end of a sequence (ReplayAppend,    *)
(* ReadAppend).  With them every append to the log is one step of its      *)
(* reader, and every operation recorded one step of the replay.            *)
(*                                                                         *)
(* The invariant has two parts.  ReadableInv says that the reader of the   *)
(* whole log, and one that begins with the snapshot being written, await   *)
(* just the frames that are still to be appended, whatever unfinished      *)
(* frames lie before them; it needs no hypothesis.  DurableInv says that   *)
(* the operations recorded lead from what is durable to what is in memory; *)
(* it needs OneSlavePerHost, since a merged save of a host keeps the first *)
(* save's slave, and WorkIsUndone, since MemTaskStore is not rolled back.  *)
(***************************************************************************)
EXTENDS LogStorage, TLAPS, SequenceTheorems, WellFoundedInduction

-----------------------------------------------------------------------------
(* Operations, and merging them.                                           *)

\* The two saves of a host differ in their attributes only.
OnlyAttributesDiffer(prior, next) ==
  prior.value.mode = next.value.mode /\ prior.value.slave = next.value.slave

\* Replaying an operation of the log leaves the stores well typed.
LEMMA ReplayOpType ==
  ASSUME NEW s \in StoreProvider, NEW op \in Op
  PROVE  ReplayOp(s, op) \in StoreProvider
<1>1. CASE op.type = "SAVE_TASKS"
  <2>1. op.tasks \in SomeTasks
    BY <1>1 DEF Op
  <2>2. PICK I \in SUBSET TaskIds : op.tasks \in [I -> Tasks]
    BY <2>1 DEF SomeTasks
  <2>3. SaveTasks(s, op.tasks) \in StoreProvider
    BY <2>2 DEF SaveTasks, StoreProvider
  <2> QED
    BY <1>1, <2>3 DEF ReplayOp
<1>2. CASE op.type = "REMOVE_TASKS"
  BY <1>2 DEF Op, ReplayOp, DeleteTasks, StoreProvider
<1>3. CASE op.type = "SAVE_HOST_ATTRIBUTES"
  BY <1>3 DEF Op, ReplayOp, SaveHostAttributes, StoreProvider
<1>4. CASE op.type = "PUT"
  BY <1>4 DEF Op, ReplayOp, Put, StoreProvider
<1>5. CASE op.type = "SAVE_FRAMEWORK_ID"
  BY <1>5 DEF Op, ReplayOp, SaveFrameworkId, StoreProvider
<1> QED
  BY <1>1, <1>2, <1>3, <1>4, <1>5 DEF Op

\* Saving two sets of tasks is saving their union, later definitions first.
LEMMA SaveTasksOverride ==
  ASSUME NEW s \in StoreProvider, NEW f \in SomeTasks, NEW g \in SomeTasks
  PROVE  SaveTasks(s, Override(f, g)) = SaveTasks(SaveTasks(s, f), g)
<1>1. PICK I \in SUBSET TaskIds : f \in [I -> Tasks]
  BY DEF SomeTasks
<1>2. PICK J \in SUBSET TaskIds : g \in [J -> Tasks]
  BY DEF SomeTasks
<1>3. SaveTasks(s, f).tasks = [t \in TaskIds |-> IF t \in I THEN f[t] ELSE s.tasks[t]]
  BY <1>1 DEF SaveTasks, StoreProvider
<1>4. Override(f, g) = [t \in I \cup J |-> IF t \in J THEN g[t] ELSE f[t]]
  BY <1>1, <1>2 DEF Override
<1> DEFINE once == [t \in TaskIds |-> IF t \in I \cup J THEN Override(f, g)[t] ELSE s.tasks[t]]
           twice == [t \in TaskIds |-> IF t \in J THEN g[t] ELSE SaveTasks(s, f).tasks[t]]
<1>5. once = twice
  BY <1>3, <1>4
<1>6. SaveTasks(s, Override(f, g)) = [s EXCEPT !.tasks = once]
  BY <1>4 DEF SaveTasks
<1>7. SaveTasks(SaveTasks(s, f), g) = [SaveTasks(s, f) EXCEPT !.tasks = twice]
  BY <1>2 DEF SaveTasks
<1>8. [SaveTasks(s, f) EXCEPT !.tasks = twice] = [s EXCEPT !.tasks = twice]
  BY DEF SaveTasks, StoreProvider
<1> QED
  BY <1>5, <1>6, <1>7, <1>8

(***************************************************************************)
(* StreamTransactionImpl.coalesce loses nothing: for any contents of the   *)
(* stores and any two operations it merges.                                *)
(***************************************************************************)
THEOREM CoalescingLossless ==
  ASSUME NEW s \in StoreProvider, NEW prior \in Op, NEW next \in Op,
         CanCoalesce(prior, next),
         prior.type = "SAVE_HOST_ATTRIBUTES" => OnlyAttributesDiffer(prior, next)
  PROVE  ReplayOp(s, Coalesce(prior, next)) = ReplayOp(ReplayOp(s, prior), next)
<1>1. CASE prior.type = "SAVE_TASKS"
  <2>1. next.type = "SAVE_TASKS" /\ prior.tasks \in SomeTasks /\ next.tasks \in SomeTasks
    BY <1>1 DEF Op, CanCoalesce
  <2>2. Coalesce(prior, next) =
          [type |-> "SAVE_TASKS", tasks |-> Override(prior.tasks, next.tasks)]
    BY <1>1 DEF Op, Coalesce
  <2> QED
    BY <1>1, <2>1, <2>2, SaveTasksOverride DEF ReplayOp
<1>2. CASE prior.type = "REMOVE_TASKS"
  <2>1. next.type = "REMOVE_TASKS" /\ prior.ids \subseteq TaskIds /\ next.ids \subseteq TaskIds
    BY <1>2 DEF Op, CanCoalesce
  <2>2. Coalesce(prior, next) = [type |-> "REMOVE_TASKS", ids |-> prior.ids \cup next.ids]
    BY <1>2 DEF Op, Coalesce
  <2>3. DeleteTasks(s, prior.ids \cup next.ids) = DeleteTasks(DeleteTasks(s, prior.ids), next.ids)
    BY DEF DeleteTasks, StoreProvider
  <2> QED
    BY <1>2, <2>1, <2>2, <2>3 DEF ReplayOp
<1>3. CASE prior.type = "SAVE_HOST_ATTRIBUTES"
  <2>1. /\ next.type = "SAVE_HOST_ATTRIBUTES"
        /\ prior.host \in Hosts /\ next.host = prior.host
        /\ prior.value \in HostAttributes /\ next.value \in HostAttributes
    BY <1>3 DEF Op, CanCoalesce
  <2>2. [prior.value EXCEPT !.attributes = next.value.attributes] = next.value
    BY <1>3, <2>1 DEF OnlyAttributesDiffer, HostAttributes
  <2>3. Coalesce(prior, next) =
          [type |-> "SAVE_HOST_ATTRIBUTES", host |-> prior.host, value |-> next.value]
    BY <1>3, <2>2 DEF Op, Coalesce
  <2>4. SaveHostAttributes(s, prior.host, next.value)
          = SaveHostAttributes(SaveHostAttributes(s, prior.host, prior.value),
                               prior.host, next.value)
    BY <2>1 DEF SaveHostAttributes, StoreProvider
  <2> QED
    BY <1>3, <2>1, <2>3, <2>4 DEF ReplayOp
<1>4. CASE prior.type = "SAVE_FRAMEWORK_ID"
  <2>1. next.type = "SAVE_FRAMEWORK_ID" /\ Coalesce(prior, next) = next
    BY <1>4 DEF CanCoalesce, Coalesce
  <2>2. SaveFrameworkId(s, next.id) = SaveFrameworkId(SaveFrameworkId(s, prior.id), next.id)
    BY DEF SaveFrameworkId, StoreProvider
  <2> QED
    BY <1>4, <2>1, <2>2 DEF ReplayOp
<1> QED
  BY <1>1, <1>2, <1>3, <1>4 DEF Op, CanCoalesce

-----------------------------------------------------------------------------
(* Numbers.                                                                *)

\* A set of numbers that is not empty has a least one.
LEMMA LeastNat ==
  ASSUME NEW T, T \subseteq Nat, T # {}
  PROVE  \E m \in T : \A k \in T : m <= k
<1>1. \E m \in T : \A k \in T : ~ (<<k, m>> \in OpToRel(<, Nat))
  BY NatLessThanWellFounded, WFMin
<1>2. PICK m \in T : \A k \in T : ~ (<<k, m>> \in OpToRel(<, Nat))
  BY <1>1
<1>3. \A k \in T : ~ (k < m)
  BY <1>2 DEF OpToRel
<1> QED
  BY <1>3

\* The greatest of numbers up to k + 1 that has k + 1 among them.
LEMMA TopOfSet ==
  ASSUME NEW k \in Nat, NEW u \in SUBSET (1..(k + 1)), k + 1 \in u
  PROVE  Max(u) = k + 1
<1>1. \A y \in u : k + 1 >= y
  OBVIOUS
<1>2. \A x \in u : (\A y \in u : x >= y) => x = k + 1
  OBVIOUS
<1> QED
  BY <1>1, <1>2 DEF Max

-----------------------------------------------------------------------------
(* Replaying operations.                                                   *)

\* f is the function that FoldLeft chooses for the first k operations of q.
OpsFold(f, s, q, k) ==
  f = [u \in SUBSET (1..k) |->
         IF u = {} THEN s ELSE ReplayOp(f[u \ {Max(u)}], q[Max(u)])]

\* The function that FoldLeft chooses exists.
LEMMA OpsFoldExists ==
  ASSUME NEW s, NEW q, NEW n \in Nat
  PROVE  \E f : OpsFold(f, s, q, n)
<1> DEFINE T == {k \in Nat : ~ \E f : OpsFold(f, s, q, k)}
<1>1. SUFFICES ASSUME T # {} PROVE FALSE
  OBVIOUS
<1>2. PICK m \in T : \A k \in T : m <= k
  <2>1. T \subseteq Nat
    OBVIOUS
  <2> QED
    BY <1>1, <2>1, LeastNat
<1>3. m # 0
  <2>1. OpsFold([u \in SUBSET (1..0) |-> s], s, q, 0)
    <3>1. \A u \in SUBSET (1..0) : u = {}
      OBVIOUS
    <3> QED
      BY <3>1 DEF OpsFold
  <2> QED
    BY <2>1
<1>4. PICK k \in Nat : m = k + 1
  BY <1>3
<1>5. PICK g : OpsFold(g, s, q, k)
  <2>1. k \notin T
    BY <1>2, <1>4
  <2> QED
    BY <2>1
<1> DEFINE f == [u \in SUBSET (1..m) |->
                   IF m \in u THEN ReplayOp(g[u \ {m}], q[m]) ELSE g[u]]
<1>6. \A u \in SUBSET (1..m) :
        f[u] = IF u = {} THEN s ELSE ReplayOp(f[u \ {Max(u)}], q[Max(u)])
  <2> SUFFICES ASSUME NEW u \in SUBSET (1..m)
               PROVE  f[u] = IF u = {} THEN s ELSE ReplayOp(f[u \ {Max(u)}], q[Max(u)])
    OBVIOUS
  <2>1. CASE m \in u
    <3>1. Max(u) = m
      BY <1>4, <2>1, TopOfSet
    <3>2. u \ {m} \in SUBSET (1..k) /\ u \ {m} \in SUBSET (1..m) /\ m \notin u \ {m}
      BY <1>4
    <3>3. f[u \ {m}] = g[u \ {m}]
      BY <3>2
    <3> QED
      BY <2>1, <3>1, <3>3
  <2>2. CASE m \notin u
    <3>1. u \in SUBSET (1..k)
      BY <1>4, <2>2
    <3>2. g[u] = IF u = {} THEN s ELSE ReplayOp(g[u \ {Max(u)}], q[Max(u)])
      BY <1>5, <3>1 DEF OpsFold
    <3>3. u \ {Max(u)} \in SUBSET (1..m) /\ m \notin u \ {Max(u)}
      BY <2>2
    <3>4. f[u \ {Max(u)}] = g[u \ {Max(u)}]
      BY <3>3
    <3>5. f[u] = g[u]
      BY <2>2
    <3> QED
      BY <3>2, <3>4, <3>5
  <2> QED
    BY <2>1, <2>2
<1>7. f = [u \in SUBSET (1..m) |->
             IF u = {} THEN s ELSE ReplayOp(f[u \ {Max(u)}], q[Max(u)])]
  <2> HIDE DEF f
  <2>1. f = [u \in SUBSET (1..m) |-> f[u]]
    BY DEF f
  <2> QED
    BY <1>6, <2>1
<1>8. OpsFold(f, s, q, m)
  BY <1>7 DEF OpsFold
<1> QED
  BY <1>2, <1>8

\* What that function is on the first i + 1 indices.
LEMMA OpsFoldStep ==
  ASSUME NEW s, NEW q, NEW n \in Nat, NEW f, OpsFold(f, s, q, n)
  PROVE  /\ f[{}] = s
         /\ \A i \in 0..(n - 1) : f[1..(i + 1)] = ReplayOp(f[1..i], q[i + 1])
<1>1. {} \in SUBSET (1..n)
  OBVIOUS
<1>2. f[{}] = s
  BY <1>1 DEF OpsFold
<1>3. ASSUME NEW i \in 0..(n - 1)
      PROVE  f[1..(i + 1)] = ReplayOp(f[1..i], q[i + 1])
  <2>1. 1..(i + 1) \in SUBSET (1..n) /\ i + 1 \in 1..(i + 1) /\ (1..(i + 1)) \ {i + 1} = 1..i
    OBVIOUS
  <2>2. Max(1..(i + 1)) = i + 1
    BY <2>1, TopOfSet
  <2> QED
    BY <2>1, <2>2 DEF OpsFold
<1> QED
  BY <1>2, <1>3

\* FoldLeft is that function's value on all indices.
LEMMA OpsFoldIsFoldLeft ==
  ASSUME NEW s, NEW q, NEW n \in Nat, DOMAIN q = 1..n
  PROVE  \E f : OpsFold(f, s, q, n) /\ FoldLeft(ReplayOp, s, q) = f[1..n]
<1> DEFINE iter == CHOOSE f : OpsFold(f, s, q, n)
<1>1. OpsFold(iter, s, q, n)
  BY OpsFoldExists
<1>2. FoldLeft(ReplayOp, s, q) = iter[1..n]
  BY DEF FoldLeft, MapThenFoldSet, OpsFold
<1> QED
  BY <1>1, <1>2

\* Folds over sequences with a common prefix agree on the prefix.
LEMMA OpsFoldAgree ==
  ASSUME NEW s, NEW p, NEW q, NEW n \in Nat, NEW m \in Nat, n <= m,
         \A i \in 1..n : p[i] = q[i],
         NEW f, OpsFold(f, s, p, n), NEW g, OpsFold(g, s, q, m)
  PROVE  f[1..n] = g[1..n]
<1>0. f[{}] = s /\ g[{}] = s
  <2>1. {} \in SUBSET (1..n) /\ {} \in SUBSET (1..m)
    OBVIOUS
  <2> QED
    BY <2>1 DEF OpsFold
<1> DEFINE T == {i \in Nat : i <= n /\ f[1..i] # g[1..i]}
<1>1. SUFFICES ASSUME T # {} PROVE FALSE
  OBVIOUS
<1>2. PICK j \in T : \A k \in T : j <= k
  <2>1. T \subseteq Nat
    OBVIOUS
  <2> QED
    BY <1>1, <2>1, LeastNat
<1>3. j # 0
  <2>1. 1..0 = {}
    OBVIOUS
  <2>2. f[1..0] = g[1..0]
    BY <1>0, <2>1
  <2> QED
    BY <2>2
<1>4. PICK i \in Nat : j = i + 1
  BY <1>3
<1>5. f[1..i] = g[1..i]
  BY <1>2, <1>4
<1>6. f[1..j] = ReplayOp(f[1..i], p[j]) /\ g[1..j] = ReplayOp(g[1..i], q[j])
  BY <1>4, OpsFoldStep
<1> QED
  BY <1>2, <1>4, <1>5, <1>6

\* The operations of a transaction, in their order.
ReplayAll(s, q) == FoldLeft(ReplayOp, s, q)

\* A transaction without operations changes nothing.
LEMMA ReplayNone == ASSUME NEW s PROVE ReplayAll(s, <<>>) = s
<1>1. DOMAIN <<>> = 1..0 /\ 1..0 = {} /\ 0 \in Nat
  OBVIOUS
<1>2. PICK f : OpsFold(f, s, <<>>, 0) /\ FoldLeft(ReplayOp, s, <<>>) = f[1..0]
  BY <1>1, OpsFoldIsFoldLeft
<1>3. f[{}] = s
  <2>1. {} \in SUBSET (1..0)
    OBVIOUS
  <2> QED
    BY <1>2, <2>1 DEF OpsFold
<1> QED
  BY <1>1, <1>2, <1>3 DEF ReplayAll

\* Replaying one more operation is one more step.
LEMMA ReplayAppend ==
  ASSUME NEW s, NEW E, NEW q \in Seq(E), NEW x \in E
  PROVE  ReplayAll(s, Append(q, x)) = ReplayOp(ReplayAll(s, q), x)
<1> DEFINE n == Len(q)
           r == Append(q, x)
<1>1. /\ n \in Nat /\ DOMAIN q = 1..n /\ DOMAIN r = 1..(n + 1)
      /\ r[n + 1] = x /\ \A i \in 1..n : q[i] = r[i]
  OBVIOUS
<1> HIDE DEF n, r
<1>2. PICK f : OpsFold(f, s, q, n) /\ FoldLeft(ReplayOp, s, q) = f[1..n]
  BY <1>1, OpsFoldIsFoldLeft
<1>3. PICK g : OpsFold(g, s, r, n + 1) /\ FoldLeft(ReplayOp, s, r) = g[1..(n + 1)]
  BY <1>1, OpsFoldIsFoldLeft
<1>4. f[1..n] = g[1..n]
  BY <1>1, <1>2, <1>3, OpsFoldAgree
<1>5. g[1..(n + 1)] = ReplayOp(g[1..n], r[n + 1])
  BY <1>1, <1>3, OpsFoldStep
<1> QED
  BY <1>1, <1>2, <1>3, <1>4, <1>5 DEF r, ReplayAll

-----------------------------------------------------------------------------
(* Reading frames.                                                         *)

\* f is the function that FoldLeft chooses for the first k frames of q.
FramesFold(f, s, q, k) ==
  f = [u \in SUBSET (1..k) |->
         IF u = {} THEN s ELSE ReadFrame(f[u \ {Max(u)}], q[Max(u)])]

\* The function that FoldLeft chooses exists.
LEMMA FramesFoldExists ==
  ASSUME NEW s, NEW q, NEW n \in Nat
  PROVE  \E f : FramesFold(f, s, q, n)
<1> DEFINE T == {k \in Nat : ~ \E f : FramesFold(f, s, q, k)}
<1>1. SUFFICES ASSUME T # {} PROVE FALSE
  OBVIOUS
<1>2. PICK m \in T : \A k \in T : m <= k
  <2>1. T \subseteq Nat
    OBVIOUS
  <2> QED
    BY <1>1, <2>1, LeastNat
<1>3. m # 0
  <2>1. FramesFold([u \in SUBSET (1..0) |-> s], s, q, 0)
    <3>1. \A u \in SUBSET (1..0) : u = {}
      OBVIOUS
    <3> QED
      BY <3>1 DEF FramesFold
  <2> QED
    BY <2>1
<1>4. PICK k \in Nat : m = k + 1
  BY <1>3
<1>5. PICK g : FramesFold(g, s, q, k)
  <2>1. k \notin T
    BY <1>2, <1>4
  <2> QED
    BY <2>1
<1> DEFINE f == [u \in SUBSET (1..m) |->
                   IF m \in u THEN ReadFrame(g[u \ {m}], q[m]) ELSE g[u]]
<1>6. \A u \in SUBSET (1..m) :
        f[u] = IF u = {} THEN s ELSE ReadFrame(f[u \ {Max(u)}], q[Max(u)])
  <2> SUFFICES ASSUME NEW u \in SUBSET (1..m)
               PROVE  f[u] = IF u = {} THEN s ELSE ReadFrame(f[u \ {Max(u)}], q[Max(u)])
    OBVIOUS
  <2>1. CASE m \in u
    <3>1. Max(u) = m
      BY <1>4, <2>1, TopOfSet
    <3>2. u \ {m} \in SUBSET (1..k) /\ u \ {m} \in SUBSET (1..m) /\ m \notin u \ {m}
      BY <1>4
    <3>3. f[u \ {m}] = g[u \ {m}]
      BY <3>2
    <3> QED
      BY <2>1, <3>1, <3>3
  <2>2. CASE m \notin u
    <3>1. u \in SUBSET (1..k)
      BY <1>4, <2>2
    <3>2. g[u] = IF u = {} THEN s ELSE ReadFrame(g[u \ {Max(u)}], q[Max(u)])
      BY <1>5, <3>1 DEF FramesFold
    <3>3. u \ {Max(u)} \in SUBSET (1..m) /\ m \notin u \ {Max(u)}
      BY <2>2
    <3>4. f[u \ {Max(u)}] = g[u \ {Max(u)}]
      BY <3>3
    <3>5. f[u] = g[u]
      BY <2>2
    <3> QED
      BY <3>2, <3>4, <3>5
  <2> QED
    BY <2>1, <2>2
<1>7. f = [u \in SUBSET (1..m) |->
             IF u = {} THEN s ELSE ReadFrame(f[u \ {Max(u)}], q[Max(u)])]
  <2> HIDE DEF f
  <2>1. f = [u \in SUBSET (1..m) |-> f[u]]
    BY DEF f
  <2> QED
    BY <1>6, <2>1
<1>8. FramesFold(f, s, q, m)
  BY <1>7 DEF FramesFold
<1> QED
  BY <1>2, <1>8

\* What that function is on the first i + 1 indices.
LEMMA FramesFoldStep ==
  ASSUME NEW s, NEW q, NEW n \in Nat, NEW f, FramesFold(f, s, q, n)
  PROVE  /\ f[{}] = s
         /\ \A i \in 0..(n - 1) : f[1..(i + 1)] = ReadFrame(f[1..i], q[i + 1])
<1>1. {} \in SUBSET (1..n)
  OBVIOUS
<1>2. f[{}] = s
  BY <1>1 DEF FramesFold
<1>3. ASSUME NEW i \in 0..(n - 1)
      PROVE  f[1..(i + 1)] = ReadFrame(f[1..i], q[i + 1])
  <2>1. 1..(i + 1) \in SUBSET (1..n) /\ i + 1 \in 1..(i + 1) /\ (1..(i + 1)) \ {i + 1} = 1..i
    OBVIOUS
  <2>2. Max(1..(i + 1)) = i + 1
    BY <2>1, TopOfSet
  <2> QED
    BY <2>1, <2>2 DEF FramesFold
<1> QED
  BY <1>2, <1>3

\* FoldLeft is that function's value on all indices.
LEMMA FramesFoldIsFoldLeft ==
  ASSUME NEW s, NEW q, NEW n \in Nat, DOMAIN q = 1..n
  PROVE  \E f : FramesFold(f, s, q, n) /\ FoldLeft(ReadFrame, s, q) = f[1..n]
<1> DEFINE iter == CHOOSE f : FramesFold(f, s, q, n)
<1>1. FramesFold(iter, s, q, n)
  BY FramesFoldExists
<1>2. FoldLeft(ReadFrame, s, q) = iter[1..n]
  BY DEF FoldLeft, MapThenFoldSet, FramesFold
<1> QED
  BY <1>1, <1>2

\* Reading two logs with a common prefix agrees on the prefix.
LEMMA FramesFoldAgree ==
  ASSUME NEW s, NEW p, NEW q, NEW n \in Nat, NEW m \in Nat, n <= m,
         \A i \in 1..n : p[i] = q[i],
         NEW f, FramesFold(f, s, p, n), NEW g, FramesFold(g, s, q, m)
  PROVE  f[1..n] = g[1..n]
<1>0. f[{}] = s /\ g[{}] = s
  <2>1. {} \in SUBSET (1..n) /\ {} \in SUBSET (1..m)
    OBVIOUS
  <2> QED
    BY <2>1 DEF FramesFold
<1> DEFINE T == {i \in Nat : i <= n /\ f[1..i] # g[1..i]}
<1>1. SUFFICES ASSUME T # {} PROVE FALSE
  OBVIOUS
<1>2. PICK j \in T : \A k \in T : j <= k
  <2>1. T \subseteq Nat
    OBVIOUS
  <2> QED
    BY <1>1, <2>1, LeastNat
<1>3. j # 0
  <2>1. 1..0 = {}
    OBVIOUS
  <2>2. f[1..0] = g[1..0]
    BY <1>0, <2>1
  <2> QED
    BY <2>2
<1>4. PICK i \in Nat : j = i + 1
  BY <1>3
<1>5. f[1..i] = g[1..i]
  BY <1>2, <1>4
<1>6. f[1..j] = ReadFrame(f[1..i], p[j]) /\ g[1..j] = ReadFrame(g[1..i], q[j])
  BY <1>4, FramesFoldStep
<1> QED
  BY <1>2, <1>4, <1>5, <1>6

\* An empty log leaves the reader as it was.
LEMMA ReadNone == ReadAll(<<>>) = Reader
<1>1. DOMAIN <<>> = 1..0 /\ 1..0 = {} /\ 0 \in Nat
  OBVIOUS
<1>2. PICK f : FramesFold(f, Reader, <<>>, 0) /\ FoldLeft(ReadFrame, Reader, <<>>) = f[1..0]
  BY <1>1, FramesFoldIsFoldLeft
<1>3. f[{}] = Reader
  <2>1. {} \in SUBSET (1..0)
    OBVIOUS
  <2> QED
    BY <1>2, <2>1 DEF FramesFold
<1> QED
  BY <1>1, <1>2, <1>3 DEF ReadAll

\* Reading one more frame is one more step.
LEMMA ReadAppend ==
  ASSUME NEW E, NEW q \in Seq(E), NEW x \in E
  PROVE  ReadAll(Append(q, x)) = ReadFrame(ReadAll(q), x)
<1> DEFINE n == Len(q)
           r == Append(q, x)
<1>1. /\ n \in Nat /\ DOMAIN q = 1..n /\ DOMAIN r = 1..(n + 1)
      /\ r[n + 1] = x /\ \A i \in 1..n : q[i] = r[i]
  OBVIOUS
<1> HIDE DEF n, r
<1>2. PICK f : FramesFold(f, Reader, q, n) /\ FoldLeft(ReadFrame, Reader, q) = f[1..n]
  BY <1>1, FramesFoldIsFoldLeft
<1>3. PICK g : FramesFold(g, Reader, r, n + 1) /\ FoldLeft(ReadFrame, Reader, r) = g[1..(n + 1)]
  BY <1>1, FramesFoldIsFoldLeft
<1>4. f[1..n] = g[1..n]
  BY <1>1, <1>2, <1>3, FramesFoldAgree
<1>5. g[1..(n + 1)] = ReadFrame(g[1..n], r[n + 1])
  BY <1>1, <1>3, FramesFoldStep
<1> QED
  BY <1>1, <1>2, <1>3, <1>4, <1>5 DEF r, ReadAll

-----------------------------------------------------------------------------
(* Types, and the two hypotheses.                                          *)

\* The slave a host is saved with determines the host, and the other way round.
OneSlavePerHost == \A s, t \in Slaves : SlaveHost[s] = SlaveHost[t] => s = t

\* Work that fails half way is undone in all stores: the task store is the
\* database's (-use_beta_db_task_store), or no work fails.
WorkIsUndone == TaskStoreTransactional \/ ~ WorkMayThrow

\* Stores, and operations, that have a host under the name of its slave's host.
HousedStores ==
  {s \in StoreProvider : \A h \in Hosts : s.hosts[h] # None => SlaveHost[s.hosts[h].slave] = h}

HousedOps ==
  {op \in Op : op.type = "SAVE_HOST_ATTRIBUTES" => SlaveHost[op.value.slave] = op.host}

LogEntry == [type : {"NOOP"}]
            \cup [type : {"TRANSACTION"}, ops : Seq(HousedOps)]
            \cup [type : {"SNAPSHOT"}, store : HousedStores]

HeaderFrame == [frame : {"header"}, chunks : ChunkCounts, entry : LogEntry]

Frame == [frame : {"none"}, entry : LogEntry]
         \cup HeaderFrame
         \cup [frame : {"chunk"}, part : Nat, entry : LogEntry]

\* A reader that has met no checksum that fails.
Readers == [store : HousedStores, header : HeaderFrame \cup {NoHeader},
            chunks : Seq(Frame), ok : {TRUE}]

-----------------------------------------------------------------------------
(* The inductive invariant.                                                *)

\* fs is all of a serialization of e, or its chunks from the one on that the
\* reader r waits for.
Expects(r, e, fs) ==
  \/ fs \in Serialize(e)
  \/ \E n \in ChunkCounts : \E k \in 0..(n - 1) :
       /\ fs = [i \in 1..(n - k) |-> Chunk(k + i, e)]
       /\ r.header = Header(n, e)
       /\ r.chunks = [i \in 1..k |-> Chunk(i, e)]

\* A reader that begins where the snapshot begins.
SinceSnapshot == ReadAll(SubSeq(log, first, Len(log)))

LogTypeOK ==
  /\ log \in Seq(Frame)
  /\ memory \in HousedStores /\ undo \in HousedStores
  /\ ops \in Seq(HousedOps)
  /\ first \in Nat
  /\ doing \in {"idle", "work", "commit", "snapshot", "truncate"}
  /\ phase \in {"down", "starting", "up"}
  /\ writer \in BOOLEAN

PhaseOK ==
  /\ phase = "down" => doing = "idle" /\ ~ writer
  /\ phase = "starting" => doing \in {"work", "commit"}
  /\ doing \in {"idle", "snapshot", "truncate"} => ops = <<>>
  /\ doing = "truncate" => writer

\* A reader of the whole log, and one that begins with the snapshot, are both
\* ready for the frames that are still to be appended.
SnapshotOK ==
  /\ doing \in {"snapshot", "truncate"} =>
       /\ memory = undo
       /\ first \in 1..(Len(log) + 1)
       /\ SinceSnapshot \in Readers
  /\ doing = "snapshot" =>
       /\ SinceSnapshot.store = EmptyStore
       /\ Expects(ReadAll(log), SnapshotEntry(memory), frames)
       /\ Expects(SinceSnapshot, SnapshotEntry(memory), frames)
  /\ doing = "truncate" => SinceSnapshot.store = memory

\* What holds whether or not the hypotheses do.
ReadableInv ==
  /\ LogTypeOK /\ PhaseOK /\ SnapshotOK
  /\ ReadAll(log) \in Readers
  /\ doing = "commit" => Expects(ReadAll(log), TransactionEntry(ops), frames)

\* The operations recorded lead from the durable state to the one in memory.
TransactionOK ==
  /\ doing \in {"work", "commit"} => memory = ReplayAll(undo, ops)
  /\ doing # "idle" /\ writer => undo = Recoverable(log)

DurableInv == TransactionOK /\ MemoryIsDurable

LogInv == ReadableInv /\ DurableInv

-----------------------------------------------------------------------------
(* What a transaction does to the stores, and what add records of it.      *)

\* No host is in the empty store.
LEMMA EmptyStoreHoused == EmptyStore \in HousedStores
BY DEF EmptyStore, HousedStores, StoreProvider

\* An operation leaves every host under its own name.
LEMMA ReplayOpHoused ==
  ASSUME NEW s \in HousedStores, NEW op \in HousedOps
  PROVE  ReplayOp(s, op) \in HousedStores
<1>1. s \in StoreProvider /\ op \in Op /\ ReplayOp(s, op) \in StoreProvider
  BY ReplayOpType DEF HousedStores, HousedOps
<1>2. CASE op.type = "SAVE_HOST_ATTRIBUTES"
  <2>1. /\ op.host \in Hosts /\ SlaveHost[op.value.slave] = op.host
        /\ ReplayOp(s, op).hosts = [s.hosts EXCEPT ![op.host] = op.value]
        /\ s.hosts \in [Hosts -> HostAttributes \cup {None}]
    BY <1>1, <1>2 DEF Op, HousedOps, ReplayOp, SaveHostAttributes, StoreProvider
  <2>2. \A h \in Hosts : h # op.host => s.hosts[h] = ReplayOp(s, op).hosts[h]
    BY <2>1
  <2> QED
    BY <1>1, <2>1, <2>2 DEF HousedStores
<1>3. CASE op.type # "SAVE_HOST_ATTRIBUTES"
  <2>1. ReplayOp(s, op).hosts = s.hosts
    <3>1. CASE op.type = "SAVE_TASKS"
      BY <1>1, <3>1 DEF ReplayOp, SaveTasks, StoreProvider
    <3>2. CASE op.type = "REMOVE_TASKS"
      BY <1>1, <3>2 DEF ReplayOp, DeleteTasks, StoreProvider
    <3>3. CASE op.type = "PUT"
      BY <1>1, <3>3 DEF ReplayOp, Put, StoreProvider
    <3>4. CASE op.type = "SAVE_FRAMEWORK_ID"
      BY <1>1, <3>4 DEF ReplayOp, SaveFrameworkId, StoreProvider
    <3> QED
      BY <1>1, <1>3, <3>1, <3>2, <3>3, <3>4 DEF Op
  <2> QED
    BY <1>1, <2>1 DEF HousedStores
<1> QED
  BY <1>2, <1>3

\* A merged operation has its host under its own name.
LEMMA CoalesceHoused ==
  ASSUME NEW prior \in HousedOps, NEW next \in HousedOps, CanCoalesce(prior, next)
  PROVE  Coalesce(prior, next) \in HousedOps
<1>1. prior \in Op /\ next \in Op
  BY DEF HousedOps
<1>2. CASE prior.type = "SAVE_TASKS"
  <2>1. next.type = "SAVE_TASKS" /\ prior.tasks \in SomeTasks /\ next.tasks \in SomeTasks
    BY <1>1, <1>2 DEF Op, CanCoalesce
  <2>2. Coalesce(prior, next) =
          [type |-> "SAVE_TASKS", tasks |-> Override(prior.tasks, next.tasks)]
    BY <1>1, <1>2 DEF Op, Coalesce
  <2>3. PICK I \in SUBSET TaskIds : prior.tasks \in [I -> Tasks]
    BY <2>1 DEF SomeTasks
  <2>4. PICK J \in SUBSET TaskIds : next.tasks \in [J -> Tasks]
    BY <2>1 DEF SomeTasks
  <2>5. Override(prior.tasks, next.tasks) \in [I \cup J -> Tasks] /\ I \cup J \in SUBSET TaskIds
    BY <2>3, <2>4 DEF Override
  <2>6. Override(prior.tasks, next.tasks) \in SomeTasks
    BY <2>5 DEF SomeTasks
  <2> QED
    BY <2>2, <2>6 DEF HousedOps, Op
<1>3. CASE prior.type = "REMOVE_TASKS"
  <2>1. next.type = "REMOVE_TASKS" /\ prior.ids \subseteq TaskIds /\ next.ids \subseteq TaskIds
    BY <1>1, <1>3 DEF Op, CanCoalesce
  <2>2. Coalesce(prior, next) = [type |-> "REMOVE_TASKS", ids |-> prior.ids \cup next.ids]
    BY <1>1, <1>3 DEF Op, Coalesce
  <2> QED
    BY <2>1, <2>2 DEF HousedOps, Op
<1>4. CASE prior.type = "SAVE_HOST_ATTRIBUTES"
  <2>1. /\ next.type = "SAVE_HOST_ATTRIBUTES"
        /\ prior.host \in Hosts
        /\ prior.value \in HostAttributes /\ next.value \in HostAttributes
        /\ SlaveHost[prior.value.slave] = prior.host
    BY <1>1, <1>4 DEF Op, CanCoalesce, HousedOps
  <2> DEFINE value == [prior.value EXCEPT !.attributes = next.value.attributes]
  <2>2. value \in HostAttributes /\ value.slave = prior.value.slave
    BY <2>1 DEF HostAttributes
  <2>3. Coalesce(prior, next) =
          [type |-> "SAVE_HOST_ATTRIBUTES", host |-> prior.host, value |-> value]
    BY <1>1, <1>4 DEF Op, Coalesce
  <2> HIDE DEF value
  <2>4. Coalesce(prior, next) \in Op
    BY <2>1, <2>2, <2>3 DEF Op
  <2> QED
    BY <2>1, <2>2, <2>3, <2>4 DEF HousedOps
<1>5. CASE prior.type = "SAVE_FRAMEWORK_ID"
  BY <1>5 DEF Coalesce
<1> QED
  BY <1>1, <1>2, <1>3, <1>4, <1>5 DEF Op, CanCoalesce

\* A sequence is its front and its last element.
LEMMA FrontAndLast ==
  ASSUME NEW E, NEW q \in Seq(E), q # <<>>
  PROVE  /\ Front(q) \in Seq(E) /\ Last(q) \in E /\ Len(Front(q)) = Len(q) - 1
         /\ q = Append(Front(q), Last(q))
         /\ \A x \in E : [q EXCEPT ![Len(q)] = x] = Append(Front(q), x)
<1>1. Len(q) \in Nat /\ Len(q) # 0 /\ q = [i \in 1..Len(q) |-> q[i]]
  OBVIOUS
<1>2. /\ Front(q) \in Seq(E) /\ Len(Front(q)) = Len(q) - 1
      /\ \A i \in 1..(Len(q) - 1) : Front(q)[i] = q[i]
  BY <1>1 DEF Front
<1>3. Last(q) \in E
  BY <1>1 DEF Last
<1>4. ASSUME NEW x \in E
      PROVE  /\ Append(Front(q), x) \in Seq(E)
             /\ Len(Append(Front(q), x)) = Len(q)
             /\ \A i \in 1..Len(q) : Append(Front(q), x)[i] = IF i = Len(q) THEN x ELSE q[i]
  <2> DEFINE a == Append(Front(q), x)
  <2>1. /\ a \in Seq(E) /\ Len(a) = Len(Front(q)) + 1
        /\ \A i \in 1..Len(Front(q)) : a[i] = Front(q)[i]
        /\ a[Len(Front(q)) + 1] = x
    BY <1>2, AppendProperties
  <2> HIDE DEF a
  <2>2. Len(a) = Len(q) /\ a[Len(q)] = x /\ \A i \in 1..(Len(q) - 1) : a[i] = q[i]
    BY <1>1, <1>2, <2>1
  <2>3. \A i \in 1..Len(q) : i # Len(q) => i \in 1..(Len(q) - 1)
    BY <1>1
  <2>4. \A i \in 1..Len(q) : a[i] = IF i = Len(q) THEN x ELSE q[i]
    BY <2>2, <2>3
  <2> QED
    BY <2>1, <2>2, <2>4 DEF a
<1>5. q = Append(Front(q), Last(q))
  <2>1. \A i \in 1..Len(q) : q[i] = Append(Front(q), Last(q))[i]
    BY <1>3, <1>4 DEF Last
  <2> QED
    BY <1>3, <1>4, <2>1, SeqEqual
<1>6. ASSUME NEW x \in E
      PROVE  [q EXCEPT ![Len(q)] = x] = Append(Front(q), x)
  <2>1. /\ [q EXCEPT ![Len(q)] = x] \in Seq(E)
        /\ Len([q EXCEPT ![Len(q)] = x]) = Len(q)
        /\ \A i \in 1..Len(q) : [q EXCEPT ![Len(q)] = x][i] = IF i = Len(q) THEN x ELSE q[i]
    BY <1>1, ExceptSeq
  <2>2. \A i \in 1..Len(q) : [q EXCEPT ![Len(q)] = x][i] = Append(Front(q), x)[i]
    BY <1>4, <2>1
  <2> QED
    BY <1>4, <2>1, <2>2, SeqEqual
<1> QED
  BY <1>2, <1>3, <1>5, <1>6

\* A transaction leaves every host under its own name.
LEMMA ReplayHoused ==
  ASSUME NEW s \in HousedStores, NEW q \in Seq(HousedOps)
  PROVE  ReplayAll(s, q) \in HousedStores
<1> DEFINE T == {n \in Nat : \E p \in Seq(HousedOps) :
                   Len(p) = n /\ ReplayAll(s, p) \notin HousedStores}
<1>1. SUFFICES ASSUME T # {} PROVE FALSE
  OBVIOUS
<1>2. PICK m \in T : \A n \in T : m <= n
  <2>1. T \subseteq Nat
    OBVIOUS
  <2> QED
    BY <1>1, <2>1, LeastNat
<1>3. PICK p \in Seq(HousedOps) : Len(p) = m /\ ReplayAll(s, p) \notin HousedStores
  OBVIOUS
<1>4. p # <<>>
  BY <1>3, ReplayNone
<1>5. PICK a \in Seq(HousedOps), x \in HousedOps : Len(a) = m - 1 /\ p = Append(a, x)
  <2>1. /\ Front(p) \in Seq(HousedOps) /\ Last(p) \in HousedOps
        /\ Len(Front(p)) = m - 1 /\ p = Append(Front(p), Last(p))
    BY <1>3, <1>4, FrontAndLast
  <2> HIDE DEF T
  <2> QED
    BY <2>1, Zenon
<1>6. ReplayAll(s, a) \in HousedStores
  <2>1. m - 1 \in Nat /\ m - 1 \notin T
    BY <1>2, <1>5
  <2> QED
    BY <1>5, <2>1
<1>7. ReplayAll(s, Append(a, x)) = ReplayOp(ReplayAll(s, a), x)
  BY ReplayAppend
<1>8. ReplayOp(ReplayAll(s, a), x) \in HousedStores
  BY <1>6, ReplayOpHoused
<1> QED
  BY <1>3, <1>5, <1>7, <1>8

\* What add records, and where.
LEMMA AddTyped ==
  ASSUME NEW q \in Seq(HousedOps), NEW op \in HousedOps
  PROVE  /\ Add(q, op) \in Seq(HousedOps)
         /\ q # <<>> /\ CanCoalesce(Last(q), op) =>
              Add(q, op) = Append(Front(q), Coalesce(Last(q), op))
<1>1. CASE q # <<>> /\ CanCoalesce(Last(q), op)
  <2>1. Front(q) \in Seq(HousedOps) /\ Last(q) \in HousedOps
    BY <1>1, FrontAndLast
  <2>2. Coalesce(Last(q), op) \in HousedOps
    BY <1>1, <2>1, CoalesceHoused
  <2>3. Add(q, op) = Append(Front(q), Coalesce(Last(q), op))
    BY <1>1, <2>2, FrontAndLast DEF Add, Last
  <2> QED
    BY <2>1, <2>2, <2>3
<1>2. CASE ~ (q # <<>> /\ CanCoalesce(Last(q), op))
  BY <1>2 DEF Add
<1> QED
  BY <1>1, <1>2

(* Replaying what was recorded is replaying all that was performed.        *)
LEMMA AddReplays ==
  ASSUME NEW s \in HousedStores, NEW q \in Seq(HousedOps), NEW op \in HousedOps,
         q # <<>> /\ CanCoalesce(Last(q), op) /\ op.type = "SAVE_HOST_ATTRIBUTES"
           => OnlyAttributesDiffer(Last(q), op)
  PROVE  ReplayAll(s, Add(q, op)) = ReplayOp(ReplayAll(s, q), op)
<1>1. CASE q # <<>> /\ CanCoalesce(Last(q), op)
  <2>1. /\ Front(q) \in Seq(HousedOps) /\ Last(q) \in HousedOps
        /\ q = Append(Front(q), Last(q))
    BY <1>1, FrontAndLast
  <2>2. Coalesce(Last(q), op) \in HousedOps
    BY <1>1, <2>1, CoalesceHoused
  <2> DEFINE before == ReplayAll(s, Front(q))
  <2>3. before \in StoreProvider
    BY <2>1, ReplayHoused DEF HousedStores
  <2>4. ReplayAll(s, q) = ReplayOp(before, Last(q))
    <3>1. ReplayAll(s, Append(Front(q), Last(q))) = ReplayOp(before, Last(q))
      BY <2>1, ReplayAppend
    <3> QED
      BY <2>1, <3>1
  <2>5. ReplayAll(s, Add(q, op)) = ReplayOp(before, Coalesce(Last(q), op))
    <3>1. Add(q, op) = Append(Front(q), Coalesce(Last(q), op))
      BY <1>1, AddTyped
    <3> QED
      BY <2>1, <2>2, <3>1, ReplayAppend
  <2> HIDE DEF before
  <2>6. Last(q) \in Op /\ op \in Op /\ op.type = Last(q).type
    BY <1>1, <2>1 DEF HousedOps, CanCoalesce
  <2>7. ReplayOp(before, Coalesce(Last(q), op)) = ReplayOp(ReplayOp(before, Last(q)), op)
    BY <1>1, <2>3, <2>6, CoalescingLossless
  <2> QED
    BY <2>4, <2>5, <2>7
<1>2. CASE ~ (q # <<>> /\ CanCoalesce(Last(q), op))
  <2>1. Add(q, op) = Append(q, op)
    BY <1>2 DEF Add
  <2> QED
    BY <2>1, ReplayAppend
<1> QED
  BY <1>1, <1>2

-----------------------------------------------------------------------------
(* What the reader does with the frames it meets.                          *)

\* An entry of the log leaves every host under its own name.
LEMMA ReplayEntryHoused ==
  ASSUME NEW s \in HousedStores, NEW e \in LogEntry
  PROVE  ReplayEntry(s, e) \in HousedStores
<1>1. CASE e.type = "NOOP"
  BY <1>1 DEF ReplayEntry
<1>2. CASE e.type = "TRANSACTION"
  <2>1. e.ops \in Seq(HousedOps)
    BY <1>2 DEF LogEntry
  <2>2. ReplayEntry(s, e) = ReplayAll(s, e.ops)
    BY <1>2 DEF ReplayEntry, ReplayAll
  <2> QED
    BY <2>1, <2>2, ReplayHoused
<1>3. CASE e.type = "SNAPSHOT"
  <2>1. e.store \in HousedStores
    BY <1>3 DEF LogEntry
  <2>2. ReplayEntry(s, e) = ApplySnapshot(s, e.store)
    BY <1>3 DEF ReplayEntry
  <2>3. [e.store EXCEPT !.framework = s.framework] \in HousedStores
    BY <2>1 DEF HousedStores, StoreProvider
  <2> QED
    BY <2>1, <2>2, <2>3 DEF ApplySnapshot
<1> QED
  BY <1>1, <1>2, <1>3 DEF LogEntry

\* A transaction's entry replays its operations.
LEMMA ReplayTransaction ==
  ASSUME NEW s, NEW q
  PROVE  ReplayEntry(s, TransactionEntry(q)) = ReplayAll(s, q)
BY DEF ReplayEntry, TransactionEntry, ReplayAll

\* A snapshot restores what it was taken of, over that state and over none.
LEMMA ReplaySnapshot ==
  ASSUME NEW m \in HousedStores
  PROVE  /\ ReplayEntry(m, SnapshotEntry(m)) = m
         /\ ReplayEntry(EmptyStore, SnapshotEntry(m)) = m
<1>1. \A s : ReplayEntry(s, SnapshotEntry(m)) = ApplySnapshot(s, m)
  BY DEF ReplayEntry, SnapshotEntry
<1>2. m \in StoreProvider
  BY DEF HousedStores
<1>3. m.framework = None => [m EXCEPT !.framework = None] = m
  BY <1>2 DEF StoreProvider
<1>4. EmptyStore.framework = None
  BY DEF EmptyStore
<1> QED
  BY <1>1, <1>3, <1>4 DEF ApplySnapshot

\* What the scheduler writes are entries.
LEMMA EntriesTyped ==
  /\ Noop \in LogEntry /\ Plain(Noop) \in Frame
  /\ \A q \in Seq(HousedOps) : TransactionEntry(q) \in LogEntry
  /\ \A m \in HousedStores : SnapshotEntry(m) \in LogEntry
BY DEF LogEntry, Frame, Noop, Plain, TransactionEntry, SnapshotEntry

\* Recovery begins with a reader that has met no failed checksum.
LEMMA ReaderTyped == Reader \in Readers
BY EmptyStoreHoused DEF Reader, Readers

\* An entry in one frame is replayed, whatever frame it interrupts.
LEMMA ReadPlain ==
  ASSUME NEW r \in Readers, NEW e \in LogEntry
  PROVE  /\ ReadFrame(r, Plain(e)) \in Readers
         /\ ReadFrame(r, Plain(e)).store = ReplayEntry(r.store, e)
<1>1. ReadFrame(r, Plain(e)) =
        [r EXCEPT !.store = ReplayEntry(@, e), !.header = NoHeader, !.chunks = <<>>]
  BY DEF ReadFrame, Plain
<1>2. ReplayEntry(r.store, e) \in HousedStores /\ <<>> \in Seq(Frame)
  BY ReplayEntryHoused DEF Readers
<1> QED
  BY <1>1, <1>2 DEF Readers

\* A header starts over, whatever frame it interrupts.
LEMMA ReadHeader ==
  ASSUME NEW r \in Readers, NEW e \in LogEntry, NEW n \in ChunkCounts
  PROVE  /\ ReadFrame(r, Header(n, e)) \in Readers
         /\ ReadFrame(r, Header(n, e)).store = r.store
         /\ ReadFrame(r, Header(n, e)).header = Header(n, e)
         /\ ReadFrame(r, Header(n, e)).chunks = <<>>
<1>1. ReadFrame(r, Header(n, e)) = [r EXCEPT !.header = Header(n, e), !.chunks = <<>>]
  BY DEF ReadFrame, Header
<1>2. Header(n, e) \in HeaderFrame /\ <<>> \in Seq(Frame)
  BY DEF Header, HeaderFrame
<1> QED
  BY <1>1, <1>2 DEF Readers

\* A run of chunks is a sequence of frames.
LEMMA ChunksTyped ==
  ASSUME NEW e \in LogEntry, NEW k \in Nat, NEW j \in Nat
  PROVE  /\ [i \in 1..k |-> Chunk(j + i, e)] \in Seq(Frame)
         /\ Len([i \in 1..k |-> Chunk(j + i, e)]) = k
<1>1. \A i \in 1..k : Chunk(j + i, e) \in Frame
  BY DEF Chunk, Frame
<1>2. [i \in 1..k |-> Chunk(j + i, e)] \in [1..k -> Frame]
  BY <1>1
<1> QED
  BY <1>2

\* The chunk a reader awaits is accepted, and the last one matches the checksum.
LEMMA ReadChunk ==
  ASSUME NEW r \in Readers, NEW e \in LogEntry, NEW n \in ChunkCounts, NEW k \in 0..(n - 1),
         r.header = Header(n, e), r.chunks = [i \in 1..k |-> Chunk(i, e)]
  PROVE  LET s == ReadFrame(r, Chunk(k + 1, e))
         IN  /\ s \in Readers
             /\ k + 1 = n => s.store = ReplayEntry(r.store, e)
             /\ k + 1 # n => /\ s.store = r.store
                             /\ s.header = Header(n, e)
                             /\ s.chunks = [i \in 1..(k + 1) |-> Chunk(i, e)]
<1> DEFINE chunks == Append(r.chunks, Chunk(k + 1, e))
           s == ReadFrame(r, Chunk(k + 1, e))
<1>1. n \in Nat /\ k \in Nat /\ r.header # NoHeader /\ Header(n, e).entry = e /\ Header(n, e).chunks = n
  <2>1. n \in Nat
    BY LogAssumption DEF LogAssumption
  <2>2. Header(n, e).frame = "header" /\ Header(n, e).entry = e /\ Header(n, e).chunks = n
    BY DEF Header
  <2>3. NoHeader.frame # "header"
    BY DEF NoHeader
  <2> QED
    BY <2>1, <2>2, <2>3
<1>2. chunks = [i \in 1..(k + 1) |-> Chunk(i, e)] /\ chunks \in Seq(Frame) /\ Len(chunks) = k + 1
  <2>1. \A i \in Nat : Chunk(i, e) \in Frame
    BY DEF Chunk, Frame
  <2>2. r.chunks \in Seq(Frame) /\ Len(r.chunks) = k
    BY <1>1 DEF Readers
  <2>3. /\ chunks \in Seq(Frame) /\ Len(chunks) = k + 1 /\ chunks[k + 1] = Chunk(k + 1, e)
        /\ \A i \in 1..k : chunks[i] = Chunk(i, e)
    BY <1>1, <2>1, <2>2, AppendProperties
  <2> DEFINE all == [i \in 1..(k + 1) |-> Chunk(i, e)]
  <2>4. all \in Seq(Frame) /\ Len(all) = k + 1
    BY <1>1, <2>1
  <2>5. \A i \in 1..(k + 1) : chunks[i] = all[i]
    BY <1>1, <2>3
  <2> HIDE DEF chunks, all
  <2>6. chunks = all
    BY <2>3, <2>4, <2>5, SeqEqual
  <2> QED
    BY <2>3, <2>6 DEF all
<1>3. s = IF k + 1 # n THEN [r EXCEPT !.chunks = chunks]
          ELSE [store  |-> ReplayEntry(r.store, e), header |-> NoHeader, chunks |-> <<>>,
                ok     |-> r.ok /\ ChecksumMatches(r.header, chunks)]
  <2>1. Chunk(k + 1, e).frame = "chunk" /\ Chunk(k + 1, e).entry = e
    BY DEF Chunk
  <2>2. FrameComplete(r.header, chunks) <=> k + 1 = n
    BY <1>1, <1>2 DEF FrameComplete
  <2> QED
    BY <1>1, <2>1, <2>2 DEF ReadFrame
<1>4. ChecksumMatches(r.header, chunks)
  BY <1>1, <1>2 DEF ChecksumMatches
<1>5. /\ ReplayEntry(r.store, e) \in HousedStores
      /\ <<>> \in Seq(Frame)
      /\ r.ok
  <2>1. r.store \in HousedStores /\ r.ok \in {TRUE}
    BY DEF Readers
  <2>2. r.ok
    BY <2>1, Zenon
  <2>3. <<>> \in Seq(Frame)
    OBVIOUS
  <2> QED
    BY <2>1, <2>2, <2>3, ReplayEntryHoused
<1> HIDE DEF chunks, s
<1>6. CASE k + 1 = n
  <2>1. s = [store  |-> ReplayEntry(r.store, e), header |-> NoHeader, chunks |-> <<>>,
             ok     |-> TRUE]
    BY <1>3, <1>4, <1>5, <1>6
  <2>2. s.store = ReplayEntry(r.store, e)
    BY <2>1
  <2>3. s \in Readers
    BY <1>5, <2>1 DEF Readers
  <2> QED
    BY <1>6, <2>2, <2>3 DEF s
<1>7. CASE k + 1 # n
  <2>1. s = [r EXCEPT !.chunks = chunks]
    BY <1>3, <1>7
  <2>2. s \in Readers /\ s.store = r.store /\ s.header = r.header /\ s.chunks = chunks
    BY <1>2, <2>1 DEF Readers
  <2> QED
    BY <1>2, <1>7, <2>2 DEF s
<1> QED
  BY <1>6, <1>7

\* The next frame that a reader expects leaves it expecting the rest.
LEMMA ReadNext ==
  ASSUME NEW r \in Readers, NEW e \in LogEntry, NEW fs, Expects(r, e, fs)
  PROVE  /\ fs \in Seq(Frame) /\ fs # <<>> /\ Head(fs) \in Frame
         /\ ReadFrame(r, Head(fs)) \in Readers
         /\ Len(fs) > 1 => /\ ReadFrame(r, Head(fs)).store = r.store
                           /\ Expects(ReadFrame(r, Head(fs)), e, Tail(fs))
         /\ ~ (Len(fs) > 1) => ReadFrame(r, Head(fs)).store = ReplayEntry(r.store, e)
<1>1. CASE fs = <<Plain(e)>>
  <2>1. Plain(e) \in Frame
    BY DEF Plain, Frame
  <2>2. fs \in Seq(Frame) /\ fs # <<>> /\ Head(fs) = Plain(e) /\ Len(fs) = 1
    BY <1>1, <2>1
  <2> QED
    BY <2>1, <2>2, ReadPlain
<1>2. ASSUME NEW n \in ChunkCounts, fs = <<Header(n, e)>> \o [i \in 1..n |-> Chunk(i, e)]
      PROVE  /\ fs \in Seq(Frame) /\ fs # <<>> /\ Head(fs) \in Frame
             /\ ReadFrame(r, Head(fs)) \in Readers
             /\ Len(fs) > 1 /\ ReadFrame(r, Head(fs)).store = r.store
             /\ Expects(ReadFrame(r, Head(fs)), e, Tail(fs))
  <2> DEFINE cs == [i \in 1..n |-> Chunk(i, e)]
  <2>1. n \in Nat \ {0, 1}
    BY LogAssumption DEF LogAssumption
  <2>2. Header(n, e) \in Frame /\ \A i \in 1..n : Chunk(i, e) \in Frame
    BY <2>1 DEF Header, HeaderFrame, Chunk, Frame
  <2>3. cs \in Seq(Frame) /\ Len(cs) = n /\ <<Header(n, e)>> \in Seq(Frame)
    BY <2>1, <2>2
  <2>4. cs = [i \in 1..(n - 0) |-> Chunk(0 + i, e)]
    BY <2>1
  <2> HIDE DEF cs
  <2>5. /\ fs \in Seq(Frame) /\ Len(fs) = n + 1 /\ fs[1] = Header(n, e)
        /\ \A i \in 1..n : fs[i + 1] = cs[i]
    <3>1. fs = <<Header(n, e)>> \o cs
      BY <1>2 DEF cs
    <3>2. Len(<<Header(n, e)>>) = 1 /\ <<Header(n, e)>>[1] = Header(n, e)
      OBVIOUS
    <3>3. /\ fs \in Seq(Frame) /\ Len(fs) = 1 + n
          /\ \A i \in 1..(1 + n) : fs[i] = IF i <= 1 THEN <<Header(n, e)>>[i] ELSE cs[i - 1]
      BY <2>3, <3>1, <3>2, ConcatProperties
    <3>4. \A i \in 1..n : i + 1 \in 1..(1 + n) /\ ~ (i + 1 <= 1) /\ (i + 1) - 1 = i
      BY <2>1
    <3> QED
      BY <2>1, <3>2, <3>3, <3>4
  <2>6. fs # <<>> /\ Head(fs) = Header(n, e) /\ Len(fs) > 1
    BY <2>1, <2>5
  <2>7. Tail(fs) = cs
    <3>1. /\ Tail(fs) \in Seq(Frame) /\ Len(Tail(fs)) = n
          /\ \A i \in 1..n : Tail(fs)[i] = fs[i + 1]
      BY <2>1, <2>5, <2>6, HeadTailProperties
    <3>2. \A i \in 1..n : Tail(fs)[i] = cs[i]
      BY <2>5, <3>1
    <3> QED
      BY <2>3, <3>1, <3>2, SeqEqual
  <2>8. Expects(ReadFrame(r, Head(fs)), e, Tail(fs))
    <3>1. 0 \in 0..(n - 1) /\ [i \in 1..0 |-> Chunk(i, e)] = <<>>
      BY <2>1
    <3>2. /\ ReadFrame(r, Head(fs)).header = Header(n, e)
          /\ ReadFrame(r, Head(fs)).chunks = [i \in 1..0 |-> Chunk(i, e)]
      BY <2>6, <3>1, ReadHeader
    <3> QED
      BY <2>4, <2>7, <3>1, <3>2 DEF Expects
  <2> QED
    BY <2>2, <2>5, <2>6, <2>8, ReadHeader
<1>3. ASSUME NEW n \in ChunkCounts, NEW k \in 0..(n - 1),
             fs = [i \in 1..(n - k) |-> Chunk(k + i, e)],
             r.header = Header(n, e), r.chunks = [i \in 1..k |-> Chunk(i, e)]
      PROVE  /\ fs \in Seq(Frame) /\ fs # <<>> /\ Head(fs) \in Frame
             /\ ReadFrame(r, Head(fs)) \in Readers
             /\ Len(fs) > 1 => /\ ReadFrame(r, Head(fs)).store = r.store
                               /\ Expects(ReadFrame(r, Head(fs)), e, Tail(fs))
             /\ ~ (Len(fs) > 1) => ReadFrame(r, Head(fs)).store = ReplayEntry(r.store, e)
  <2>1. n \in Nat /\ k \in Nat /\ n - k \in Nat /\ n - k # 0
    BY LogAssumption DEF LogAssumption
  <2>2. \A i \in Nat : Chunk(i, e) \in Frame
    BY DEF Chunk, Frame
  <2>3. fs \in Seq(Frame) /\ Len(fs) = n - k /\ fs # <<>> /\ Head(fs) = Chunk(k + 1, e)
    <3>1. fs \in Seq(Frame) /\ Len(fs) = n - k
      BY <1>3, <2>1, ChunksTyped
    <3>2. fs[1] = Chunk(k + 1, e)
      BY <1>3, <2>1
    <3> QED
      BY <2>1, <3>1, <3>2
  <2>4. /\ ReadFrame(r, Chunk(k + 1, e)) \in Readers
        /\ k + 1 = n => ReadFrame(r, Chunk(k + 1, e)).store = ReplayEntry(r.store, e)
        /\ k + 1 # n =>
             /\ ReadFrame(r, Chunk(k + 1, e)).store = r.store
             /\ ReadFrame(r, Chunk(k + 1, e)).header = Header(n, e)
             /\ ReadFrame(r, Chunk(k + 1, e)).chunks = [i \in 1..(k + 1) |-> Chunk(i, e)]
    <3>1. r.header = Header(n, e) /\ r.chunks = [i \in 1..k |-> Chunk(i, e)]
      BY <1>3
    <3> QED
      BY <3>1, ReadChunk
  <2>5. Len(fs) > 1 <=> k + 1 # n
    BY <2>1, <2>3
  <2>6. ASSUME k + 1 # n
        PROVE  Expects(ReadFrame(r, Head(fs)), e, Tail(fs))
    <3> DEFINE rest == [i \in 1..(n - (k + 1)) |-> Chunk((k + 1) + i, e)]
    <3>1. k + 1 \in 0..(n - 1)
      BY <2>1, <2>6
    <3>2. rest \in Seq(Frame) /\ Len(rest) = n - (k + 1)
      BY <2>1, <2>2, <3>1
    <3>3. /\ Tail(fs) \in Seq(Frame) /\ Len(Tail(fs)) = (n - k) - 1
          /\ \A i \in 1..Len(Tail(fs)) : Tail(fs)[i] = fs[i + 1]
      BY <2>3, HeadTailProperties
    <3>4. \A i \in 1..((n - k) - 1) : fs[i + 1] = Chunk(k + (i + 1), e)
      BY <1>3, <2>1
    <3>5. (n - k) - 1 = n - (k + 1) /\ \A i \in Nat : k + (i + 1) = (k + 1) + i
      BY <2>1
    <3>6. \A i \in 1..(n - (k + 1)) : Tail(fs)[i] = rest[i]
      BY <2>1, <3>3, <3>4, <3>5
    <3> HIDE DEF rest
    <3>7. Tail(fs) = rest
      BY <3>2, <3>3, <3>5, <3>6, SeqEqual
    <3> QED
      BY <2>3, <2>4, <2>6, <3>1, <3>7 DEF Expects, rest
  <2> QED
    BY <2>2, <2>3, <2>4, <2>5, <2>6
<1> QED
  BY <1>1, <1>2, <1>3 DEF Expects, Serialize

\* What follows a position, when one more frame is appended.
LEMMA SubSeqAppend ==
  ASSUME NEW E, NEW q \in Seq(E), NEW x \in E, NEW m \in 1..(Len(q) + 1)
  PROVE  /\ SubSeq(q, m, Len(q)) \in Seq(E)
         /\ SubSeq(Append(q, x), m, Len(Append(q, x))) = Append(SubSeq(q, m, Len(q)), x)
<1> DEFINE n == Len(q)
           p == SubSeq(q, m, n)
           a == Append(q, x)
           s == SubSeq(a, m, n + 1)
           t == Append(p, x)
<1>1. n \in Nat /\ m \in Nat /\ m >= 1 /\ n - m + 1 \in Nat
  OBVIOUS
<1>2. \A i \in m..n : q[i] \in E
  OBVIOUS
<1>3. /\ p \in Seq(E) /\ Len(p) = n - m + 1
      /\ \A i \in 1..(n - m + 1) : p[i] = q[m + i - 1]
  <2>1. Len(p) = IF m <= n THEN n - m + 1 ELSE 0
    BY <1>1, <1>2, SubSeqProperties
  <2>2. p \in Seq(E) /\ \A i \in 1..(n - m + 1) : p[i] = q[m + i - 1]
    BY <1>1, <1>2, SubSeqProperties
  <2> QED
    BY <1>1, <2>1, <2>2
<1>4. /\ a \in Seq(E) /\ Len(a) = n + 1 /\ a[n + 1] = x /\ \A i \in 1..n : a[i] = q[i]
  BY AppendProperties
<1> HIDE DEF a, p
<1>5. \A i \in m..(n + 1) : a[i] \in E
  BY <1>1, <1>4
<1>6. /\ s \in Seq(E) /\ Len(s) = n - m + 2
      /\ \A i \in 1..(n - m + 2) : s[i] = a[m + i - 1]
  <2>1. /\ s \in Seq(E) /\ Len(s) = IF m <= n + 1 THEN (n + 1) - m + 1 ELSE 0
        /\ \A i \in 1..((n + 1) - m + 1) : s[i] = a[m + i - 1]
    BY <1>1, <1>5, SubSeqProperties
  <2>2. m <= n + 1 /\ (n + 1) - m + 1 = n - m + 2
    BY <1>1
  <2> QED
    BY <2>1, <2>2
<1>7. /\ t \in Seq(E) /\ Len(t) = n - m + 2 /\ t[n - m + 2] = x
      /\ \A i \in 1..(n - m + 1) : t[i] = p[i]
  <2>1. /\ t \in Seq(E) /\ Len(t) = Len(p) + 1 /\ t[Len(p) + 1] = x
        /\ \A i \in 1..Len(p) : t[i] = p[i]
    <3>1. p \in Seq(E)
      BY <1>3
    <3> QED
      BY <3>1, AppendProperties
  <2>2. Len(p) + 1 = n - m + 2
    BY <1>1, <1>3
  <2> QED
    BY <1>3, <2>1, <2>2
<1> HIDE DEF n, s, t
<1>8. \A i \in 1..(n - m + 2) : s[i] = t[i]
  <2> SUFFICES ASSUME NEW i \in 1..(n - m + 2) PROVE s[i] = t[i]
    OBVIOUS
  <2>1. CASE i = n - m + 2
    <3>1. m + i - 1 = n + 1
      BY <1>1, <2>1
    <3> QED
      BY <1>4, <1>6, <1>7, <2>1, <3>1
  <2>2. CASE i # n - m + 2
    <3>1. i \in 1..(n - m + 1) /\ m + i - 1 \in 1..n
      BY <1>1, <2>2
    <3> QED
      BY <1>3, <1>4, <1>6, <1>7, <3>1
  <2> QED
    BY <2>1, <2>2
<1>9. s = t
  BY <1>6, <1>7, <1>8, SeqEqual
<1> QED
  BY <1>3, <1>4, <1>9 DEF n, a, p, s, t

-----------------------------------------------------------------------------
(* Appending to the log.                                                   *)

\* The entry the frames belong to that are being appended.
Written == IF doing = "commit" THEN TransactionEntry(ops) ELSE SnapshotEntry(memory)

(* A no-op is read without a trace, and ends a frame that was left open.   *)
LEMMA NoopRead ==
  ASSUME ReadableInv
  PROVE  /\ Append(log, Plain(Noop)) \in Seq(Frame)
         /\ ReadAll(Append(log, Plain(Noop))) \in Readers
         /\ Recoverable(Append(log, Plain(Noop))) = Recoverable(log)
<1>1. log \in Seq(Frame) /\ ReadAll(log) \in Readers
  BY DEF ReadableInv, LogTypeOK
<1>2. ReadAll(Append(log, Plain(Noop))) = ReadFrame(ReadAll(log), Plain(Noop))
  BY <1>1, EntriesTyped, ReadAppend
<1>3. \A s : ReplayEntry(s, Noop) = s
  BY DEF ReplayEntry, Noop
<1> QED
  BY <1>1, <1>2, <1>3, EntriesTyped, ReadPlain DEF Recoverable

(* The next frame changes nothing of what is recovered, unless it is the   *)
(* last one: that one makes the entry.                                     *)
LEMMA FrameRead ==
  ASSUME ReadableInv, doing \in {"commit", "snapshot"}
  PROVE  /\ Expects(ReadAll(log), Written, frames) /\ Written \in LogEntry
         /\ frames \in Seq(Frame) /\ frames # <<>> /\ Head(frames) \in Frame
         /\ Append(log, Head(frames)) \in Seq(Frame)
         /\ ReadAll(Append(log, Head(frames))) \in Readers
         /\ Len(frames) > 1 =>
              /\ Expects(ReadAll(Append(log, Head(frames))), Written, Tail(frames))
              /\ Recoverable(Append(log, Head(frames))) = Recoverable(log)
         /\ ~ (Len(frames) > 1) =>
              Recoverable(Append(log, Head(frames))) = ReplayEntry(Recoverable(log), Written)
<1>1. log \in Seq(Frame) /\ ReadAll(log) \in Readers
  BY DEF ReadableInv, LogTypeOK
<1>2. Expects(ReadAll(log), Written, frames)
  BY DEF ReadableInv, SnapshotOK, Written
<1>3. Written \in LogEntry
  BY EntriesTyped DEF ReadableInv, LogTypeOK, Written
<1> HIDE DEF Written
<1>4. /\ frames \in Seq(Frame) /\ frames # <<>> /\ Head(frames) \in Frame
      /\ ReadFrame(ReadAll(log), Head(frames)) \in Readers
      /\ Len(frames) > 1 =>
           /\ ReadFrame(ReadAll(log), Head(frames)).store = ReadAll(log).store
           /\ Expects(ReadFrame(ReadAll(log), Head(frames)), Written, Tail(frames))
      /\ ~ (Len(frames) > 1) =>
           ReadFrame(ReadAll(log), Head(frames)).store = ReplayEntry(ReadAll(log).store, Written)
  BY <1>1, <1>2, <1>3, ReadNext
<1>5. ReadAll(Append(log, Head(frames))) = ReadFrame(ReadAll(log), Head(frames))
  BY <1>1, <1>4, ReadAppend
<1>6. Append(log, Head(frames)) \in Seq(Frame)
  BY <1>1, <1>4
<1> QED
  BY <1>2, <1>3, <1>4, <1>5, <1>6 DEF Recoverable

(* When it is appended, what is in memory can be recovered.                *)
LEMMA LastFrame ==
  ASSUME LogInv, doing \in {"commit", "snapshot"}, writer
  PROVE  ReplayEntry(Recoverable(log), Written) = memory
<1>1. undo = Recoverable(log) /\ memory \in HousedStores
  BY DEF LogInv, ReadableInv, DurableInv, LogTypeOK, TransactionOK
<1>2. CASE doing = "commit"
  BY <1>1, <1>2, ReplayTransaction DEF LogInv, DurableInv, TransactionOK, Written
<1>3. CASE doing = "snapshot"
  BY <1>1, <1>3, ReplaySnapshot DEF LogInv, ReadableInv, SnapshotOK, Written
<1> QED
  BY <1>2, <1>3

(* What is left by a truncation is the snapshot, and all of it.            *)
LEMMA TruncatedRead ==
  ASSUME ReadableInv, doing = "truncate"
  PROVE  /\ Truncated \in Seq(Frame) /\ ReadAll(Truncated) \in Readers
         /\ Recoverable(Truncated) = memory /\ memory = undo /\ phase = "up" /\ writer
<1>1. log \in Seq(Frame) /\ first \in 1..(Len(log) + 1) /\ Len(log) \in Nat
  BY DEF ReadableInv, LogTypeOK, SnapshotOK
<1>2. Truncated \in Seq(Frame)
  <2>1. \A i \in first..Len(log) : log[i] \in Frame
    BY <1>1
  <2> QED
    BY <1>1, <2>1, SubSeqProperties DEF Truncated
<1> QED
  BY <1>2 DEF ReadableInv, LogTypeOK, PhaseOK, SnapshotOK, SinceSnapshot, Truncated, Recoverable

-----------------------------------------------------------------------------
(* Each step keeps the log readable.                                       *)

\* The invariant holds of an empty log and no process.
LEMMA LogStart ==
  ASSUME LogInit
  PROVE  LogInv
<1> USE DEF LogInit
<1>1. ReadAll(log) = Reader /\ Reader \in Readers
  BY ReadNone, ReaderTyped
<1>2. LogTypeOK
  <2>1. <<>> \in Seq(Frame) /\ <<>> \in Seq(HousedOps) /\ 0 \in Nat
    OBVIOUS
  <2> QED
    BY <2>1, EmptyStoreHoused, Zenon DEF LogTypeOK
<1>3. ReadableInv
  BY <1>1, <1>2 DEF ReadableInv, PhaseOK, SnapshotOK
<1> QED
  BY <1>3 DEF LogInv, DurableInv, TransactionOK, MemoryIsDurable

(* When the write lock is released nothing is left but log and memory.     *)
LEMMA Settles ==
  ASSUME ReadableInv, Released,
         log' \in Seq(Frame), ReadAll(log') \in Readers,
         memory' \in HousedStores, phase' \in {"down", "up"}, writer' \in BOOLEAN,
         phase' = "down" => ~ writer'
  PROVE  ReadableInv'
<1> USE DEF Released
<1>1. LogTypeOK'
  BY EmptyStoreHoused DEF LogTypeOK
<1>2. PhaseOK' /\ SnapshotOK'
  BY DEF PhaseOK, SnapshotOK
<1> QED
  BY <1>1, <1>2 DEF ReadableInv

(* A transaction that is rolled back, or the process that dies of it.      *)
LEMMA RollbackSettles ==
  ASSUME ReadableInv, Rollback, doing # "idle", log' \in Seq(Frame), ReadAll(log') \in Readers,
         writer' \in BOOLEAN, phase = "starting" => ~ writer'
  PROVE  ReadableInv'
<1> USE DEF Rollback
<1>1. CASE phase = "starting"
  BY <1>1, Settles, EmptyStoreHoused DEF Dead
<1>2. CASE phase # "starting"
  <2>1. memory' = RolledBack /\ Released /\ phase' = "up"
    BY <1>2 DEF ReadableInv, LogTypeOK, PhaseOK
  <2>2. RolledBack \in HousedStores
    BY DEF ReadableInv, LogTypeOK, RolledBack, HousedStores, StoreProvider
  <2> QED
    BY <2>1, <2>2, Settles
<1> QED
  BY <1>1, <1>2

\* A process may end and start at any frame.
LEMMA ProcessReadable ==
  ASSUME ReadableInv, Crash \/ Start \/ StartFails
  PROVE  ReadableInv'
<1>1. log \in Seq(Frame) /\ ReadAll(log) \in Readers
  BY DEF ReadableInv, LogTypeOK
<1>2. CASE Crash
  BY <1>1, <1>2, Settles, EmptyStoreHoused DEF Crash, Dead
<1>3. CASE Start
  <2>1. ops = <<>> /\ doing' = "work" /\ phase' = "starting" /\ writer' /\ UNCHANGED <<ops, first>>
    BY <1>3 DEF Start, ReadableInv, PhaseOK
  <2>2. /\ log' \in Seq(Frame) /\ ReadAll(log') \in Readers
        /\ {memory', undo'} \subseteq HousedStores
    BY <1>3, NoopRead DEF Start, Readers, Recoverable
  <2> QED
    BY <2>1, <2>2 DEF ReadableInv, LogTypeOK, PhaseOK, SnapshotOK
<1>4. CASE StartFails
  <2>1. doing = "idle" /\ phase = "down"
    BY <1>4 DEF StartFails, ReadableInv, PhaseOK
  <2> QED
    BY <1>4, <2>1, NoopRead DEF StartFails, ReadableInv, LogTypeOK, PhaseOK, SnapshotOK
<1> QED
  BY <1>2, <1>3, <1>4

\* A transaction begins.
LEMMA BeginReadable ==
  ASSUME ReadableInv, Begin
  PROVE  ReadableInv'
BY DEF Begin, ReadableInv, LogTypeOK, PhaseOK, SnapshotOK

(* What a mutation performs is an operation that is well typed, and an     *)
(* earlier save of the same host that it may be merged with is one the     *)
(* transaction has made with the same mode.                                *)
LEMMA MutationPerforms ==
  ASSUME ReadableInv, Mutation
  PROVE  \E op \in HousedOps :
           /\ Perform(op)
           /\ op.type = "SAVE_HOST_ATTRIBUTES" =>
                \/ \A i \in DOMAIN ops : ops[i].type = "SAVE_HOST_ATTRIBUTES" => ops[i].host # op.host
                \/ memory.hosts[op.host] # None => op.value.mode = memory.hosts[op.host].mode
<1>1. memory \in HousedStores /\ memory \in StoreProvider /\ ops \in Seq(HousedOps)
  BY DEF ReadableInv, LogTypeOK, HousedStores
<1>2. ASSUME NEW t \in TaskIds, RemoveTask(t)
      PROVE  \E op \in HousedOps : Perform(op) /\ op.type # "SAVE_HOST_ATTRIBUTES"
  <2>1. [type |-> "REMOVE_TASKS", ids |-> {t}] \in HousedOps
    BY DEF HousedOps, Op
  <2> QED
    BY <1>2, <2>1 DEF RemoveTask
<1>3. ASSUME NEW t \in TaskIds, NEW v \in Tasks, SaveTask(t, v)
      PROVE  \E op \in HousedOps : Perform(op) /\ op.type # "SAVE_HOST_ATTRIBUTES"
  <2>1. [u \in {t} |-> v] \in [{t} -> Tasks] /\ {t} \in SUBSET TaskIds
    OBVIOUS
  <2>2. [u \in {t} |-> v] \in SomeTasks
    BY <2>1 DEF SomeTasks
  <2>3. [type |-> "SAVE_TASKS", tasks |-> [u \in {t} |-> v]] \in HousedOps
    BY <2>2 DEF HousedOps, Op
  <2> QED
    BY <1>3, <2>3 DEF SaveTask
<1>4. ASSUME NEW id \in Frameworks, RegisterFramework(id)
      PROVE  \E op \in HousedOps : Perform(op) /\ op.type # "SAVE_HOST_ATTRIBUTES"
  <2>1. [type |-> "SAVE_FRAMEWORK_ID", id |-> id] \in HousedOps
    BY DEF HousedOps, Op
  <2> QED
    BY <1>4, <2>1 DEF RegisterFramework
<1>5. ASSUME NEW k \in Keys, NEW v \in Entries \cup {None}, PutEntry(k, v)
      PROVE  \E op \in HousedOps : Perform(op) /\ op.type # "SAVE_HOST_ATTRIBUTES"
  <2>1. [type |-> "PUT", key |-> k, value |-> v] \in HousedOps
    BY DEF HousedOps, Op
  <2> QED
    BY <1>5, <2>1 DEF PutEntry
<1>6. ASSUME NEW s \in Slaves, NEW a \in Attributes, SaveOffer(s, a)
      PROVE  \E op \in HousedOps :
               /\ Perform(op)
               /\ memory.hosts[op.host] # None => op.value.mode = memory.hosts[op.host].mode
  <2> DEFINE h == SlaveHost[s]
             mode == IF memory.hosts[h] = None THEN "NONE" ELSE memory.hosts[h].mode
             v == [slave |-> s, mode |-> mode, attributes |-> a]
             op == [type |-> "SAVE_HOST_ATTRIBUTES", host |-> h, value |-> v]
  <2>1. h \in Hosts
    BY LogAssumption DEF LogAssumption
  <2>2. memory.hosts[h] # None => memory.hosts[h].mode \in MaintenanceMode
    BY <1>1, <2>1 DEF StoreProvider, HostAttributes
  <2>3. mode \in MaintenanceMode
    BY <2>2 DEF MaintenanceMode
  <2>4. v \in HostAttributes /\ v.slave = s /\ v.mode = mode
    BY <2>3 DEF HostAttributes
  <2>5. Perform(op)
    BY <1>6 DEF SaveOffer, SaveHost
  <2> HIDE DEF v
  <2>6. op \in HousedOps /\ op.host = h /\ op.value = v
    BY <2>1, <2>4 DEF HousedOps, Op
  <2> HIDE DEF op
  <2> QED
    BY <2>4, <2>5, <2>6
<1>7. ASSUME NEW h \in Hosts, NEW m \in MaintenanceMode, SetMaintenanceMode(h, m)
      PROVE  \E op \in HousedOps :
               /\ Perform(op)
               /\ \A i \in DOMAIN ops :
                    ops[i].type = "SAVE_HOST_ATTRIBUTES" => ops[i].host # op.host
  <2> DEFINE v == [memory.hosts[h] EXCEPT !.mode = m]
             op == [type |-> "SAVE_HOST_ATTRIBUTES", host |-> h, value |-> v]
  <2>1. memory.hosts[h] \in HostAttributes /\ SlaveHost[memory.hosts[h].slave] = h
    BY <1>1, <1>7 DEF SetMaintenanceMode, HousedStores, StoreProvider
  <2>2. v \in HostAttributes /\ v.slave = memory.hosts[h].slave
    BY <2>1 DEF HostAttributes
  <2>3. Perform(op)
    BY <1>7 DEF SetMaintenanceMode, SaveHost
  <2> HIDE DEF v
  <2>4. op \in HousedOps /\ op.host = h
    BY <2>1, <2>2 DEF HousedOps, Op
  <2> HIDE DEF op
  <2> QED
    BY <1>7, <2>3, <2>4 DEF SetMaintenanceMode
<1> QED
  BY <1>2, <1>3, <1>4, <1>5, <1>6, <1>7 DEF Mutation

\* An operation is recorded.
LEMMA MutationReadable ==
  ASSUME ReadableInv, Mutation
  PROVE  ReadableInv'
<1>1. PICK op \in HousedOps : Perform(op)
  BY MutationPerforms
<1>2. memory' \in HousedStores /\ ops' \in Seq(HousedOps)
  BY <1>1, ReplayOpHoused, AddTyped DEF ReadableInv, LogTypeOK, Perform
<1> QED
  BY <1>1, <1>2 DEF ReadableInv, LogTypeOK, PhaseOK, SnapshotOK, Perform

\* The work ends: it is undone, or its entry is about to be written.
LEMMA WorkEndsReadable ==
  ASSUME ReadableInv, WorkThrows \/ CommitEmpty \/ Commit
  PROVE  ReadableInv'
<1>1. /\ log \in Seq(Frame) /\ ReadAll(log) \in Readers /\ writer \in BOOLEAN
      /\ memory \in HousedStores
  BY DEF ReadableInv, LogTypeOK
<1>2. CASE WorkThrows
  BY <1>1, <1>2, RollbackSettles DEF WorkThrows
<1>3. CASE CommitEmpty
  BY <1>1, <1>3, Settles DEF CommitEmpty
<1>4. CASE Commit
  <2>1. Expects(ReadAll(log), TransactionEntry(ops), frames')
    BY <1>4 DEF Commit, Expects
  <2> QED
    BY <1>4, <2>1 DEF Commit, ReadableInv, LogTypeOK, PhaseOK, SnapshotOK
<1> QED
  BY <1>2, <1>3, <1>4

\* A snapshot begins where the log ends.
LEMMA SnapshotReadable ==
  ASSUME ReadableInv, Snapshot
  PROVE  ReadableInv'
<1> USE DEF Snapshot
<1>1. /\ Expects(ReadAll(log), SnapshotEntry(memory), frames')
      /\ Expects(SinceSnapshot', SnapshotEntry(memory), frames')
  BY DEF Expects
<1>2. first' \in 1..(Len(log) + 1) /\ first' \in Nat /\ Len(log) < first'
  BY DEF ReadableInv, LogTypeOK
<1>3. SinceSnapshot' = Reader
  <2>1. SubSeq(log, first', Len(log)) = <<>>
    BY <1>2, SubSeqEmpty DEF ReadableInv, LogTypeOK
  <2> QED
    BY <2>1, ReadNone DEF SinceSnapshot
<1>4. Reader \in Readers /\ Reader.store = EmptyStore
  BY ReaderTyped DEF Reader
<1>5. LogTypeOK' /\ PhaseOK'
  BY <1>2 DEF ReadableInv, LogTypeOK, PhaseOK
<1>6. SnapshotOK'
  BY <1>1, <1>2, <1>3, <1>4 DEF SnapshotOK
<1> QED
  BY <1>5, <1>6 DEF ReadableInv

\* Both readers take the frame that is appended.
LEMMA AppendFrameReadable ==
  ASSUME ReadableInv, AppendFrame
  PROVE  ReadableInv'
<1> USE DEF AppendFrame
<1>1. /\ log' = Append(log, Head(frames)) /\ log' \in Seq(Frame) /\ ReadAll(log') \in Readers
      /\ frames \in Seq(Frame) /\ frames # <<>> /\ Head(frames) \in Frame
  BY FrameRead
<1>2. writer /\ memory \in HousedStores /\ log \in Seq(Frame)
  BY DEF ReadableInv, LogTypeOK
<1>3. CASE doing = "commit"
  <2>1. Written = TransactionEntry(ops)
    BY <1>3 DEF Written
  <2>2. CASE Len(frames) > 1
    <3>1. Expects(ReadAll(log'), TransactionEntry(ops), frames')
      BY <1>1, <2>1, <2>2, FrameRead
    <3>2. LogTypeOK' /\ PhaseOK'
      BY <1>1, <2>2 DEF ReadableInv, LogTypeOK, PhaseOK
    <3> QED
      BY <1>1, <1>3, <2>2, <3>1, <3>2 DEF ReadableInv, SnapshotOK
  <2>3. CASE ~ (Len(frames) > 1)
    <3>1. Released /\ phase' = "up" /\ UNCHANGED <<memory, writer>>
      BY <1>3, <2>3
    <3> QED
      BY <1>1, <1>2, <3>1, Settles DEF ReadableInv, LogTypeOK
  <2> QED
    BY <2>2, <2>3
<1>4. CASE doing = "snapshot"
  <2>1. Written = SnapshotEntry(memory) /\ SnapshotEntry(memory) \in LogEntry
    BY <1>2, <1>4, EntriesTyped DEF Written
  <2>2. /\ first \in 1..(Len(log) + 1) /\ SinceSnapshot \in Readers
        /\ SinceSnapshot.store = EmptyStore /\ memory = undo
        /\ Expects(SinceSnapshot, SnapshotEntry(memory), frames)
    BY <1>4 DEF ReadableInv, SnapshotOK
  <2>3. first' = first /\ first' \in 1..(Len(log') + 1)
    <3>1. first' = first
      BY <1>4
    <3>2. Len(log') = Len(log) + 1 /\ Len(log) \in Nat
      BY <1>1, <1>2
    <3> QED
      BY <2>2, <3>1, <3>2
  <2>4. SinceSnapshot' = ReadFrame(SinceSnapshot, Head(frames))
    <3>1. /\ SubSeq(log', first, Len(log')) = Append(SubSeq(log, first, Len(log)), Head(frames))
          /\ SubSeq(log, first, Len(log)) \in Seq(Frame)
      BY <1>1, <1>2, <2>2, SubSeqAppend
    <3> QED
      BY <1>1, <2>3, <3>1, ReadAppend DEF SinceSnapshot
  <2>5. /\ SinceSnapshot' \in Readers
        /\ Len(frames) > 1 => /\ SinceSnapshot'.store = EmptyStore
                              /\ Expects(SinceSnapshot', SnapshotEntry(memory), Tail(frames))
        /\ ~ (Len(frames) > 1) => SinceSnapshot'.store = memory
    BY <1>2, <2>1, <2>2, <2>4, ReadNext, ReplaySnapshot
  <2>6. CASE Len(frames) > 1
    <3>1. LogTypeOK' /\ PhaseOK'
      BY <1>1, <2>6 DEF ReadableInv, LogTypeOK, PhaseOK
    <3>2. Expects(ReadAll(log'), SnapshotEntry(memory), Tail(frames))
      BY <1>1, <2>1, <2>6, FrameRead
    <3>3. SnapshotOK'
      BY <1>4, <2>2, <2>3, <2>5, <2>6, <3>2 DEF SnapshotOK
    <3> QED
      BY <1>1, <1>4, <2>6, <3>1, <3>3 DEF ReadableInv
  <2>7. CASE ~ (Len(frames) > 1)
    <3>1. LogTypeOK' /\ PhaseOK'
      BY <1>1, <1>2, <1>4, <2>7 DEF ReadableInv, LogTypeOK, PhaseOK
    <3>2. SnapshotOK'
      BY <1>4, <2>2, <2>3, <2>5, <2>7 DEF SnapshotOK
    <3> QED
      BY <1>1, <1>4, <2>7, <3>1, <3>2 DEF ReadableInv
  <2> QED
    BY <2>6, <2>7
<1> QED
  BY <1>3, <1>4

\* An append fails, having been made or not; the log is truncated, or not.
LEMMA EndsReadable ==
  ASSUME ReadableInv, AppendFails \/ Truncate \/ TruncateFails
  PROVE  ReadableInv'
<1>1. log \in Seq(Frame) /\ ReadAll(log) \in Readers /\ writer \in BOOLEAN /\ memory \in HousedStores
  BY DEF ReadableInv, LogTypeOK
<1>2. CASE AppendFails
  <2>1. log' \in Seq(Frame) /\ ReadAll(log') \in Readers
    BY <1>1, <1>2, FrameRead DEF AppendFails
  <2> QED
    BY <1>2, <2>1, RollbackSettles DEF AppendFails
<1>3. CASE Truncate \/ TruncateFails
  <2>1. log' \in Seq(Frame) /\ ReadAll(log') \in Readers /\ phase = "up"
    BY <1>1, <1>3, TruncatedRead DEF Truncate, TruncateFails
  <2> QED
    BY <1>1, <1>3, <2>1, Settles DEF Truncate, TruncateFails
<1> QED
  BY <1>2, <1>3

\* Every step keeps the log readable.
LEMMA StepsReadable ==
  ASSUME ReadableInv, [LogNext]_logVars
  PROVE  ReadableInv'
<1>1. CASE UNCHANGED logVars
  BY <1>1 DEF logVars, ReadableInv, LogTypeOK, PhaseOK, SnapshotOK, SinceSnapshot
<1> QED
  BY <1>1, ProcessReadable, BeginReadable, MutationReadable, WorkEndsReadable,
     AppendFrameReadable, EndsReadable, SnapshotReadable
  DEF LogNext

(***************************************************************************)
(* No recovery meets a checksum that fails: for any operations, chunk      *)
(* counts, crashes and truncations, and whatever the stores roll back.     *)
(***************************************************************************)
THEOREM AlwaysReadable == LogSpec => []LogReadable
<1>1. LogInit => ReadableInv
  BY LogStart DEF LogInv
<1>2. ReadableInv /\ [LogNext]_logVars => ReadableInv'
  BY StepsReadable
<1>3. ReadableInv => LogReadable
  <2> SUFFICES ASSUME ReadableInv PROVE ReadAll(log).ok
    BY DEF LogReadable
  <2>1. ReadAll(log).ok \in {TRUE}
    BY DEF ReadableInv, Readers
  <2> QED
    BY <2>1, Zenon
<1> QED
  BY <1>1, <1>2, <1>3, PTL DEF LogSpec

-----------------------------------------------------------------------------
(* What is durable.                                                        *)

(***************************************************************************)
(* The operation of a mutation may be merged with the last one recorded:   *)
(* a host's attributes are saved for the same slave, and with the mode the *)
(* transaction has already given the host.                                 *)
(***************************************************************************)
LEMMA MutationMerges ==
  ASSUME OneSlavePerHost, LogInv, NEW op \in HousedOps, Perform(op),
         op.type = "SAVE_HOST_ATTRIBUTES" =>
           \/ \A i \in DOMAIN ops : ops[i].type = "SAVE_HOST_ATTRIBUTES" => ops[i].host # op.host
           \/ memory.hosts[op.host] # None => op.value.mode = memory.hosts[op.host].mode,
         ops # <<>>, CanCoalesce(Last(ops), op), op.type = "SAVE_HOST_ATTRIBUTES"
  PROVE  OnlyAttributesDiffer(Last(ops), op)
<1>1. ops \in Seq(HousedOps) /\ undo \in HousedStores /\ memory = ReplayAll(undo, ops)
  BY DEF LogInv, ReadableInv, LogTypeOK, DurableInv, TransactionOK, Perform
<1>2. /\ Front(ops) \in Seq(HousedOps) /\ Last(ops) \in HousedOps
      /\ ops = Append(Front(ops), Last(ops))
  BY <1>1, FrontAndLast
<1>3. /\ Last(ops).type = "SAVE_HOST_ATTRIBUTES" /\ Last(ops).host = op.host
      /\ Last(ops).value \in HostAttributes /\ SlaveHost[Last(ops).value.slave] = op.host
      /\ op.host \in Hosts /\ op.value \in HostAttributes /\ SlaveHost[op.value.slave] = op.host
  BY <1>2 DEF CanCoalesce, HousedOps, Op
<1>4. \E i \in DOMAIN ops : ops[i].type = "SAVE_HOST_ATTRIBUTES" /\ ops[i].host = op.host
  <2>1. Len(ops) \in DOMAIN ops /\ ops[Len(ops)] = Last(ops)
    BY <1>1 DEF Last
  <2> QED
    BY <1>3, <2>1
<1> DEFINE before == ReplayAll(undo, Front(ops))
<1>5. before \in StoreProvider
  BY <1>1, <1>2, ReplayHoused DEF HousedStores
<1>6. memory = ReplayOp(before, Last(ops))
  <2>1. ReplayAll(undo, Append(Front(ops), Last(ops))) = ReplayOp(before, Last(ops))
    BY <1>1, <1>2, ReplayAppend
  <2> QED
    BY <1>1, <1>2, <2>1
<1> HIDE DEF before
<1>7. memory.hosts[op.host] = Last(ops).value
  BY <1>3, <1>5, <1>6 DEF ReplayOp, SaveHostAttributes, StoreProvider
<1>8. memory.hosts[op.host] # None
  BY <1>3, <1>7, StoreAssumption DEF StoreAssumption
<1>9. op.value.mode = Last(ops).value.mode
  BY <1>4, <1>7, <1>8
<1>10. op.value.slave = Last(ops).value.slave
  BY <1>3 DEF OneSlavePerHost, HostAttributes
<1> QED
  BY <1>9, <1>10 DEF OnlyAttributesDiffer

\* The operations recorded still lead to what is in memory.
LEMMA MutationDurable ==
  ASSUME OneSlavePerHost, LogInv, Mutation
  PROVE  DurableInv'
<1>1. PICK op \in HousedOps :
        /\ Perform(op)
        /\ op.type = "SAVE_HOST_ATTRIBUTES" =>
             \/ \A i \in DOMAIN ops : ops[i].type = "SAVE_HOST_ATTRIBUTES" => ops[i].host # op.host
             \/ memory.hosts[op.host] # None => op.value.mode = memory.hosts[op.host].mode
  BY MutationPerforms DEF LogInv
<1>2. ops \in Seq(HousedOps) /\ undo \in HousedStores /\ memory = ReplayAll(undo, ops)
  BY <1>1 DEF LogInv, ReadableInv, LogTypeOK, DurableInv, TransactionOK, Perform
<1>3. ReplayAll(undo, Add(ops, op)) = ReplayOp(ReplayAll(undo, ops), op)
  BY <1>1, <1>2, MutationMerges, AddReplays
<1> QED
  BY <1>1, <1>2, <1>3 DEF LogInv, DurableInv, TransactionOK, MemoryIsDurable, Perform

\* A transaction begins, or a process starts, with what is durable.
LEMMA BeginDurable ==
  ASSUME LogInv, Crash \/ Start \/ StartFails \/ Begin
  PROVE  DurableInv'
<1>1. CASE Crash
  BY <1>1 DEF Crash, Dead, Released, DurableInv, TransactionOK, MemoryIsDurable
<1>2. CASE Start
  <2>1. ops' = <<>> /\ undo' = Recoverable(log') /\ memory' = undo' /\ doing' = "work"
    BY <1>2 DEF Start, LogInv, ReadableInv, PhaseOK
  <2> QED
    BY <2>1, ReplayNone DEF DurableInv, TransactionOK, MemoryIsDurable
<1>3. CASE StartFails
  BY <1>3 DEF StartFails, LogInv, ReadableInv, PhaseOK, DurableInv, TransactionOK, MemoryIsDurable
<1>4. CASE Begin
  <2>1. ops' = <<>> /\ undo' = memory' /\ doing' = "work" /\ UNCHANGED <<log, writer>>
    BY <1>4 DEF Begin, LogInv, ReadableInv, PhaseOK
  <2>2. writer => memory = Recoverable(log)
    BY <1>4 DEF Begin, LogInv, DurableInv, MemoryIsDurable
  <2> QED
    BY <1>4, <2>1, <2>2, ReplayNone DEF Begin, DurableInv, TransactionOK, MemoryIsDurable
<1> QED
  BY <1>1, <1>2, <1>3, <1>4

\* What is undone, or was never done, is what was durable when it began.
LEMMA WorkEndsDurable ==
  ASSUME WorkIsUndone, LogInv, WorkThrows \/ CommitEmpty \/ Commit
  PROVE  DurableInv'
<1>1. doing = "work" /\ memory = ReplayAll(undo, ops) /\ (writer => undo = Recoverable(log))
  BY DEF LogInv, DurableInv, TransactionOK, WorkThrows, CommitEmpty, Commit
<1>2. CASE WorkThrows
  <2>1. RolledBack = undo
    BY <1>2 DEF WorkThrows, WorkIsUndone, RolledBack
  <2>2. doing' = "idle" /\ log' = log /\ (writer' => writer)
        /\ (phase' = "up" => memory' = undo)
    BY <1>2, <2>1 DEF WorkThrows, Rollback, Dead, Released
  <2> QED
    BY <1>1, <2>2 DEF DurableInv, TransactionOK, MemoryIsDurable
<1>3. CASE CommitEmpty
  <2>1. memory = undo
    BY <1>1, <1>3, ReplayNone DEF CommitEmpty
  <2> QED
    BY <1>1, <1>3, <2>1 DEF CommitEmpty, Released, DurableInv, TransactionOK, MemoryIsDurable
<1>4. CASE Commit
  BY <1>1, <1>4 DEF Commit, DurableInv, TransactionOK, MemoryIsDurable
<1> QED
  BY <1>2, <1>3, <1>4

\* The last frame makes durable what is in memory, the others nothing.
LEMMA AppendDurable ==
  ASSUME LogInv, AppendFrame
  PROVE  DurableInv'
<1> USE DEF AppendFrame
<1>1. doing \in {"commit", "snapshot"} /\ log' = Append(log, Head(frames)) /\ writer
  OBVIOUS
<1>2. CASE Len(frames) > 1
  <2>1. Recoverable(log') = Recoverable(log)
    BY <1>1, <1>2, FrameRead DEF LogInv
  <2> QED
    BY <1>2, <2>1 DEF LogInv, DurableInv, TransactionOK, MemoryIsDurable
<1>3. CASE ~ (Len(frames) > 1)
  <2>1. Recoverable(log') = memory /\ memory' = memory
    BY <1>1, <1>3, FrameRead, LastFrame DEF LogInv
  <2>2. CASE doing = "commit"
    BY <1>3, <2>1, <2>2 DEF Released, DurableInv, TransactionOK, MemoryIsDurable
  <2>3. CASE doing = "snapshot"
    <3>1. memory = undo
      BY <2>3 DEF LogInv, ReadableInv, SnapshotOK
    <3> QED
      BY <1>3, <2>1, <2>3, <3>1 DEF DurableInv, TransactionOK, MemoryIsDurable
  <2> QED
    BY <1>1, <2>2, <2>3
<1> QED
  BY <1>2, <1>3

\* A snapshot is of what is durable, and a truncation keeps it.
LEMMA EndsDurable ==
  ASSUME LogInv, AppendFails \/ Snapshot \/ Truncate \/ TruncateFails
  PROVE  DurableInv'
<1>1. CASE AppendFails
  BY <1>1 DEF AppendFails, Rollback, Dead, Released, DurableInv, TransactionOK, MemoryIsDurable
<1>2. CASE Snapshot
  BY <1>2 DEF Snapshot, LogInv, DurableInv, TransactionOK, MemoryIsDurable
<1>3. CASE Truncate
  <2>1. Recoverable(log') = memory
    BY <1>3, TruncatedRead DEF Truncate, LogInv
  <2> QED
    BY <1>3, <2>1 DEF Truncate, Released, DurableInv, TransactionOK, MemoryIsDurable
<1>4. CASE TruncateFails
  BY <1>4 DEF TruncateFails, Released, DurableInv, TransactionOK, MemoryIsDurable
<1> QED
  BY <1>1, <1>2, <1>3, <1>4

\* Every step keeps the invariant.
LEMMA LogSteps ==
  ASSUME OneSlavePerHost, WorkIsUndone, LogInv, [LogNext]_logVars
  PROVE  LogInv'
<1>1. ReadableInv'
  BY StepsReadable DEF LogInv
<1>2. DurableInv'
  <2>1. CASE UNCHANGED logVars
    BY <2>1 DEF logVars, LogInv, DurableInv, TransactionOK, MemoryIsDurable
  <2> QED
    BY <2>1, BeginDurable, MutationDurable, WorkEndsDurable, AppendDurable, EndsDurable
    DEF LogNext
<1> QED
  BY <1>1, <1>2 DEF LogInv

\* The invariant holds, under the two hypotheses.
LEMMA LogInvariant ==
  ASSUME OneSlavePerHost, WorkIsUndone
  PROVE  LogSpec => []LogInv
<1>1. LogInv /\ [LogNext]_logVars => LogInv'
  BY LogSteps
<1>2. LogInit => LogInv
  BY LogStart
<1> QED
  BY <1>1, <1>2, PTL DEF LogSpec

(***************************************************************************)
(* A leader's memory is durable: between transactions, a leader that can   *)
(* still write has in memory what its successor would recover from the     *)
(* log, for any number of hosts, tasks and operations, and any chunks.     *)
(***************************************************************************)
THEOREM MemoryDurable ==
  ASSUME OneSlavePerHost, WorkIsUndone
  PROVE  LogSpec => []MemoryIsDurable
<1>1. LogInv => MemoryIsDurable
  BY DEF LogInv, DurableInv
<1> QED
  BY <1>1, LogInvariant, PTL

-----------------------------------------------------------------------------
(* The refinement.                                                         *)

\* The abstract variables.
Stored == Recoverable(log)
Working == IF doing \in {"work", "commit"} /\ writer THEN memory ELSE None

\* Every step begins, extends, commits or aborts a transaction, or changes nothing.
LEMMA StepImplements ==
  ASSUME OneSlavePerHost, WorkIsUndone, LogInv, [LogNext]_logVars
  PROVE  \/ UNCHANGED <<Stored, Working>>
         \/ Working = None /\ Working' = Stored /\ Stored' = Stored
         \/ \E op \in Op : /\ Working # None /\ Working' = ReplayOp(Working, op)
                           /\ Stored' = Stored
         \/ Working # None /\ Stored' = Working /\ Working' = None
         \/ Working # None /\ Working' = None /\ Stored' = Stored
<1> USE DEF Stored, Working
<1>0. memory # None
  BY StoreAssumption DEF StoreAssumption, LogInv, ReadableInv, LogTypeOK, HousedStores
<1>1. CASE UNCHANGED logVars
  BY <1>1 DEF logVars
<1>2. CASE Crash
  BY <1>0, <1>2 DEF Crash, Dead, Released
<1>3. CASE Start
  <2>1. doing = "idle" /\ log' = Append(log, Plain(Noop)) /\ memory' = Recoverable(log')
    BY <1>3 DEF Start, LogInv, ReadableInv, PhaseOK
  <2>2. Recoverable(log') = Recoverable(log)
    BY <2>1, NoopRead DEF LogInv
  <2> QED
    BY <1>3, <2>1, <2>2 DEF Start
<1>4. CASE StartFails
  <2>1. doing = "idle" /\ log' = Append(log, Plain(Noop))
    BY <1>4 DEF StartFails, LogInv, ReadableInv, PhaseOK
  <2>2. Recoverable(log') = Recoverable(log)
    BY <2>1, NoopRead DEF LogInv
  <2> QED
    BY <1>4, <2>1, <2>2 DEF StartFails
<1>5. CASE Begin
  BY <1>5 DEF Begin, LogInv, DurableInv, MemoryIsDurable
<1>6. CASE Mutation
  <2>1. PICK op \in HousedOps : Perform(op)
    BY <1>6, MutationPerforms DEF LogInv
  <2>2. op \in Op
    BY DEF HousedOps
  <2> QED
    BY <1>0, <2>1, <2>2 DEF Perform
<1>7. CASE WorkThrows
  BY <1>0, <1>7 DEF WorkThrows, Rollback, Dead, Released
<1>8. CASE CommitEmpty
  BY <1>0, <1>8 DEF CommitEmpty, Released
<1>9. CASE Commit
  BY <1>9 DEF Commit
<1>10. CASE AppendFrame
  <2>1. log' = Append(log, Head(frames)) /\ doing \in {"commit", "snapshot"} /\ writer
    BY <1>10 DEF AppendFrame
  <2>2. CASE Len(frames) > 1
    <3>1. Recoverable(log') = Recoverable(log)
      BY <2>1, <2>2, FrameRead DEF LogInv
    <3> QED
      BY <1>10, <2>2, <3>1 DEF AppendFrame
  <2>3. CASE ~ (Len(frames) > 1)
    <3>1. Recoverable(log') = memory
      BY <2>1, <2>3, FrameRead, LastFrame DEF LogInv
    <3>2. CASE doing = "commit"
      BY <1>0, <1>10, <2>1, <2>3, <3>1, <3>2 DEF AppendFrame, Released
    <3>3. CASE doing = "snapshot"
      <4>1. memory = Recoverable(log)
        BY <2>1, <3>3 DEF LogInv, DurableInv, ReadableInv, TransactionOK, SnapshotOK
      <4> QED
        BY <1>10, <2>3, <3>1, <3>3, <4>1 DEF AppendFrame
    <3> QED
      BY <2>1, <3>2, <3>3
  <2> QED
    BY <2>2, <2>3
<1>11. CASE AppendFails
  <2>1. /\ doing \in {"commit", "snapshot"} /\ doing' = "idle"
        /\ log' = log \/ (writer /\ log' = Append(log, Head(frames)))
    BY <1>11 DEF AppendFails, Rollback, Dead, Released
  <2>2. CASE log' = log
    BY <1>0, <2>1, <2>2
  <2>3. CASE writer /\ log' = Append(log, Head(frames))
    <3>1. Recoverable(log') \in {Recoverable(log), memory}
      BY <2>1, <2>3, FrameRead, LastFrame DEF LogInv
    <3>2. doing = "snapshot" => memory = Recoverable(log)
      BY <2>3 DEF LogInv, DurableInv, ReadableInv, TransactionOK, SnapshotOK
    <3> QED
      BY <1>0, <2>1, <2>3, <3>1, <3>2
  <2> QED
    BY <2>1, <2>2, <2>3
<1>12. CASE Snapshot
  BY <1>12 DEF Snapshot
<1>13. CASE Truncate \/ TruncateFails
  <2>1. doing = "truncate" /\ log' \in {log, Truncated} /\ doing' = "idle"
    BY <1>13 DEF Truncate, TruncateFails, Released
  <2>2. Recoverable(log') = Recoverable(log)
    BY <2>1, TruncatedRead DEF LogInv, DurableInv, TransactionOK
  <2> QED
    BY <2>1, <2>2
<1> QED
  BY <1>1, <1>2, <1>3, <1>4, <1>5, <1>6, <1>7, <1>8, <1>9, <1>10, <1>11, <1>12, <1>13 DEF LogNext

(***************************************************************************)
(* The storage implements atomic, durable transactions, for every crash,   *)
(* failed append, snapshot and truncation: each step of the scheduler is a *)
(* step of DurableStore or none.                                           *)
(***************************************************************************)
THEOREM StorageIsDurable ==
  ASSUME OneSlavePerHost, WorkIsUndone
  PROVE  LogSpec => ImplementsDurableStore
<1>1. LogInit => Abstract!DurableInit
  <2>1. Reader.store = EmptyStore
    BY DEF Reader
  <2> QED
    BY <2>1, ReadNone DEF LogInit, Abstract!DurableInit, Recoverable, Abstract!EmptyStore, EmptyStore
<1>2. LogInv /\ [LogNext]_logVars => [Abstract!DurableNext]_(Abstract!durableVars)
  <2> SUFFICES ASSUME LogInv, [LogNext]_logVars
               PROVE  [Abstract!DurableNext]_(Abstract!durableVars)
    OBVIOUS
  <2>1. Abstract!Op = Op
    BY DEF Abstract!Op, Op, Abstract!SomeTasks, SomeTasks, Abstract!HostAttributes, HostAttributes,
           Abstract!MaintenanceMode, MaintenanceMode
  <2>2. \A s, op : Abstract!ReplayOp(s, op) = ReplayOp(s, op)
    BY DEF Abstract!ReplayOp, ReplayOp, Abstract!SaveTasks, SaveTasks,
           Abstract!DeleteTasks, DeleteTasks, Abstract!SaveHostAttributes, SaveHostAttributes,
           Abstract!SaveFrameworkId, SaveFrameworkId, Abstract!Put, Put
  <2> QED
    BY <2>1, <2>2, StepImplements
    DEF Stored, Working, Abstract!DurableNext, Abstract!durableVars, Abstract!BeginTransaction,
        Abstract!Mutate, Abstract!CommitTransaction, Abstract!AbortTransaction
<1> QED
  BY <1>1, <1>2, LogInvariant, PTL DEF LogSpec, ImplementsDurableStore, Abstract!DurableSpec
=============================================================================

-------------------------- MODULE InferenceProofs ---------------------------
(***************************************************************************)
(* Batches and devices.  However batches are bisected, shrunk and retried, *)
(* no item is lost and none is worked on twice, for any number of items,   *)
(* any plan, any adapter and any limits; and the plan of any files, and    *)
(* what recovery makes of it, stays within the caps and within bounded     *)
(* calls.  DeviceScheduler for any jobs, devices and aging: its            *)
(* invariants, the order of its grants, and that its lease table           *)
(* implements DeviceLease.                                                 *)
(***************************************************************************)
EXTENDS BatchExecution, DeviceScheduler, DataLemmas

-----------------------------------------------------------------------------
(* Arithmetic of range(0, n, size).                                          *)

\* Two multiples of a number lie at least that number apart.
LEMMA MultiplesLieApart ==
  ASSUME NEW s \in Nat \ {0}, NEW a \in Nat, NEW b \in Nat,
         a % s = 0, b % s = 0, a < b
  PROVE  a + s <= b
<1>1. PICK p \in Nat : a = s * p
  OBVIOUS
<1>2. PICK q \in Nat : b = s * q
  OBVIOUS
<1>3. p < q
  <2>1. CASE q <= p
    <3>1. s * q <= s * p
      BY <2>1
    <3> QED BY <3>1, <1>1, <1>2
  <2> QED BY <2>1
<1>4. s * p + s <= s * q
  BY <1>3
<1> QED BY <1>1, <1>2, <1>4

\* Every number lies less than s behind a multiple of s.
LEMMA MultipleBefore ==
  ASSUME NEW s \in Nat \ {0}, NEW a \in Nat
  PROVE  \E r \in 0 .. s - 1 : a - r \in Nat /\ (a - r) % s = 0
<1>1. PICK p \in Nat, r \in 0 .. s - 1 : a = s * p + r /\ r = a % s
  OBVIOUS
<1>2. s * p \in Nat /\ (s * p) % s = 0
  <2>1. s * p \in Nat
    OBVIOUS
  <2>2. PICK q \in Nat, t \in 0 .. s - 1 : s * p = s * q + t /\ t = (s * p) % s
    BY <2>1
  <2>3. s * (p - q) = t
    BY <2>2
  <2>4. p - q \in Int /\ ~(p - q >= 1) /\ ~(p - q <= 0 - 1)
    <3>1. CASE p - q >= 1
      <4>1. s * (p - q) >= s
        BY <3>1
      <4> QED BY <4>1, <2>2, <2>3
    <3>2. CASE p - q <= 0 - 1
      <4>1. s * (p - q) <= 0 - s
        BY <3>2
      <4> QED BY <4>1, <2>2, <2>3
    <3> QED BY <3>1, <3>2
  <2>5. p - q = 0
    BY <2>4
  <2> QED BY <2>1, <2>2, <2>3, <2>5
<1>3. a - r = s * p
  BY <1>1, <1>2
<1>4. a - r \in Nat /\ (a - r) % s = 0
  BY <1>2, <1>3
<1> WITNESS r \in 0 .. s - 1
<1> QED BY <1>4

-----------------------------------------------------------------------------
(* A decision replaces a batch by batches that cover it and do not overlap.  *)

Splits(f, more) ==
    /\ more \subseteq Frame
    /\ \A g \in more : f.lo <= g.lo /\ g.lo <= g.hi /\ g.hi <= f.hi
    /\ \A g, h \in more : g # h => g.hi < h.lo \/ h.hi < g.lo
    /\ \A i \in Span(f) : \E g \in more : i \in Span(g)

LEMMA HalvesSplit ==
  ASSUME NEW f \in Frame, NEW a \in Nat, f.lo < f.hi
  PROVE  Splits(f, Halves(f, a))
<1> DEFINE m == Size(f) \div 2
<1>1. Size(f) \in Nat /\ Size(f) >= 2
  BY RecoveryAssumption DEF Size, Frame, Items
<1>2. m \in Nat /\ 1 <= m /\ m < Size(f)
  BY <1>1
<1>3. Midpoint(f) = m
  BY <1>2 DEF Midpoint, Upper
<1> HIDE DEF m
<1>4. /\ f.lo + m \in Items /\ f.lo + m - 1 \in Items
      /\ f.lo <= f.lo + m - 1 /\ f.lo + m <= f.hi
  BY <1>2, RecoveryAssumption DEF Size, Frame, Items
<1> DEFINE left == Sub(f.lo, f.lo + m - 1, a)
           right == Sub(f.lo + m, f.hi, a)
<1>5. left \in Frame /\ right \in Frame
  BY <1>4 DEF Sub, Frame
<1>6. /\ left.lo = f.lo /\ left.hi = f.lo + m - 1
      /\ right.lo = f.lo + m /\ right.hi = f.hi
  BY DEF Sub
<1>7. Halves(f, a) = {left, right}
  <2>1. Halves(f, a) = {x \in {left, right} : x.lo <= x.hi}
    BY <1>3 DEF Halves
  <2> QED BY <2>1, <1>4, <1>6
<1> HIDE DEF left, right
<1>8. f.lo \in Int /\ f.hi \in Int /\ m \in Int
  BY <1>2, RecoveryAssumption DEF Frame, Items
<1>9. \A i \in Span(f) : i \in Span(left) \/ i \in Span(right)
  BY <1>4, <1>6, <1>8 DEF Span
<1> QED BY <1>4, <1>5, <1>6, <1>7, <1>8, <1>9 DEF Splits

LEMMA ChunksSplit ==
  ASSUME NEW f \in Frame, NEW a \in Nat, f.lo <= f.hi
  PROVE  Splits(f, Chunks(f, a))
<1> DEFINE s == NextSize(f)
           Starts == {x \in Span(f) : (x - f.lo) % s = 0}
           End(x) == Lower(x + s - 1, f.hi)
<1>1. f.lo \in Int /\ f.hi \in Int /\ Span(f) \subseteq Items
  BY RecoveryAssumption DEF Frame, Items, Span
<1>2. s \in Nat \ {0}
  <2>1. Size(f) \in Nat
    BY <1>1 DEF Size
  <2>2. Size(f) \div 2 \in Nat
    BY <2>1
  <2> QED BY <2>2, RecoveryAssumption DEF NextSize, Upper
<1> HIDE DEF s
<1>3. \A x \in Span(f) : /\ x \in Int /\ End(x) \in Items /\ x <= End(x)
                         /\ End(x) <= f.hi /\ End(x) <= x + s - 1
  BY <1>1, <1>2 DEF Span, Lower, Frame
<1>4. Chunks(f, a) = {Sub(x, End(x), a) : x \in Starts}
  BY DEF Chunks, s
<1>5. ASSUME NEW g \in Chunks(f, a)
      PROVE  /\ g \in Frame /\ g.lo \in Starts
             /\ g = Sub(g.lo, End(g.lo), a) /\ g.hi = End(g.lo)
  <2>1. PICK x \in Starts : g = Sub(x, End(x), a)
    BY <1>4
  <2>2. x \in Items /\ End(x) \in Items
    BY <1>1, <1>3
  <2> QED BY <2>1, <2>2 DEF Sub, Frame
<1>6. \A g \in Chunks(f, a) : f.lo <= g.lo /\ g.lo <= g.hi /\ g.hi <= f.hi
  BY <1>1, <1>3, <1>5 DEF Span
<1>7. ASSUME NEW g \in Chunks(f, a), NEW h \in Chunks(f, a), g.lo < h.lo
      PROVE  g.hi < h.lo
  <2>1. g.lo - f.lo \in Nat /\ h.lo - f.lo \in Nat
    BY <1>1, <1>5 DEF Span
  <2>2. (g.lo - f.lo) % s = 0 /\ (h.lo - f.lo) % s = 0
    BY <1>5
  <2>3. g.lo - f.lo < h.lo - f.lo
    BY <1>1, <1>3, <1>5, <1>7
  <2>4. (g.lo - f.lo) + s <= h.lo - f.lo
    BY <2>1, <2>2, <2>3, <1>2, MultiplesLieApart
  <2>5. g.hi <= g.lo + s - 1
    BY <1>3, <1>5
  <2>6. g.lo \in Int /\ h.lo \in Int /\ g.hi \in Int
    BY <1>3, <1>5, RecoveryAssumption DEF Items
  <2> QED BY <2>4, <2>5, <2>6, <1>1, <1>2
<1>8. ASSUME NEW g \in Chunks(f, a), NEW h \in Chunks(f, a), g # h
      PROVE  g.hi < h.lo \/ h.hi < g.lo
  <2>1. g.lo # h.lo
    BY <1>5, <1>8
  <2>2. g.lo \in Int /\ h.lo \in Int
    BY <1>3, <1>5
  <2> QED BY <2>1, <2>2, <1>7
<1>9. ASSUME NEW i \in Span(f)
      PROVE  \E g \in Chunks(f, a) : i \in Span(g)
  <2>1. i \in Int /\ f.lo <= i /\ i <= f.hi
    BY <1>1 DEF Span
  <2>2. PICK d \in Nat : d = i - f.lo
    BY <2>1, <1>1
  <2>3. PICK r \in 0 .. s - 1 : d - r \in Nat /\ (d - r) % s = 0
    BY <1>2, <2>2, MultipleBefore
  <2> DEFINE x == i - r
  <2>4. x - f.lo = d - r
    BY <2>1, <2>2, <2>3, <1>1
  <2>5. x \in Span(f) /\ x <= i /\ i <= x + s - 1
    BY <2>1, <2>2, <2>3, <1>1, <1>2 DEF Span
  <2>6. x \in Starts
    BY <2>3, <2>4, <2>5
  <2>7. i <= End(x)
    BY <2>1, <2>5 DEF Lower
  <2>8. Sub(x, End(x), a) \in Chunks(f, a)
    BY <2>6, <1>4
  <2>9. i \in Span(Sub(x, End(x), a))
    BY <2>1, <2>5, <2>7, <1>3 DEF Span, Sub
  <2> QED BY <2>8, <2>9
<1> QED BY <1>5, <1>6, <1>8, <1>9 DEF Splits

-----------------------------------------------------------------------------
(* The initial states and the steps.                                         *)

\* What is pending when a call is in progress, and when none is.
LEMMA InProgressIs ==
  ASSUME WorkTypeOK
  PROVE  /\ call = NoCall => InProgress = {}
         /\ call # NoCall => InProgress = {call.frame} /\ call.frame \in Frame
BY DEF WorkTypeOK, InProgress, NoCall

LEMMA ElementOf ==
  ASSUME NEW S, NEW s \in Seq(S)
  PROVE  \A k \in DOMAIN s : s[k] \in S
OBVIOUS

LEMMA TodoTyped ==
  ASSUME WorkTypeOK
  PROVE  \A k \in DOMAIN todo : todo[k] \in [lo : Items, hi : Items]
<1> DEFINE Batches == [lo : Items, hi : Items]
<1>1. todo \in Seq(Batches)
  BY DEF WorkTypeOK
<1> HIDE DEF Batches
<1>2. \A k \in DOMAIN todo : todo[k] \in Batches
  BY <1>1, ElementOf
<1> QED BY <1>2 DEF Batches

LEMMA InitPartition == Init => IInv
<1> SUFFICES ASSUME Init PROVE IInv
  OBVIOUS
<1> USE DEF Init
<1>1. /\ todo \in Seq([lo : Items, hi : Items]) /\ IsPlan(todo)
      /\ frames = {} /\ InProgress = {} /\ Begun = {}
  BY RecoveryAssumption DEF InProgress, Begun
<1>2. WorkTypeOK
  BY <1>1 DEF WorkTypeOK
<1>3. PendingApart
  BY <1>1 DEF PendingApart, IsPlan
<1>4. OpenIsPending
  BY <1>1 DEF OpenIsPending, IsPending, IsPlan
<1> QED BY <1>2, <1>3, <1>4 DEF IInv

LEMMA NextBatchKeeps ==
  ASSUME IInv, NextBatch
  PROVE  IInv'
<1> USE DEF IInv, NextBatch, NoCall
<1>1. /\ Begun = {} /\ InProgress = {} /\ InProgress' = {} /\ Begun' = frames'
      /\ item' = item /\ cancel' = cancel /\ call' = call /\ call = NoCall
  BY DEF Begun, InProgress
<1>2. todo \in Seq([lo : Items, hi : Items]) /\ todo # <<>>
  BY DEF WorkTypeOK
<1>3. CASE cancel
  <2>1. todo' = <<>> /\ frames' = {}
    BY <1>3
  <2>2. WorkTypeOK'
    BY <2>1, <1>1 DEF WorkTypeOK
  <2>3. PendingApart'
    BY <2>1, <1>1 DEF PendingApart
  <2>4. OpenIsPending'
    BY <2>1, <1>1, <1>3 DEF OpenIsPending, IsPending
  <2> QED BY <2>2, <2>3, <2>4
<1>4. CASE ~cancel
  <2> DEFINE first == [lo |-> Head(todo).lo, hi |-> Head(todo).hi, attempt |-> 0]
  <2>1. todo' = Tail(todo) /\ frames' = {first}
    BY <1>4
  <2>2. Head(todo) = todo[1] /\ 1 \in DOMAIN todo /\ todo[1] \in [lo : Items, hi : Items]
    <3>1. Len(todo) \in Nat \ {0} /\ DOMAIN todo = 1 .. Len(todo)
      BY <1>2
    <3>2. 1 \in DOMAIN todo
      BY <3>1
    <3>3. Head(todo) = todo[1]
      BY <1>2
    <3>4. todo[1] \in [lo : Items, hi : Items]
      BY <3>2, TodoTyped
    <3> QED BY <3>2, <3>3, <3>4
  <2>3. /\ todo' \in Seq([lo : Items, hi : Items])
        /\ \A k \in DOMAIN todo' : todo'[k] = todo[k + 1] /\ k + 1 \in DOMAIN todo /\ 1 < k + 1
        /\ \A k \in DOMAIN todo : k # 1 => k - 1 \in DOMAIN todo' /\ todo'[k - 1] = todo[k]
    BY <1>2, <2>1
  <2>4. first \in Frame /\ first.lo = todo[1].lo /\ first.hi = todo[1].hi
    BY <2>2 DEF Frame
  <2> HIDE DEF first
  <2>5. WorkTypeOK'
    BY <1>1, <2>1, <2>3, <2>4 DEF WorkTypeOK
  <2>6. PendingApart'
    <3>1. \A j, k \in DOMAIN todo' : j < k => todo'[j].hi < todo'[k].lo
      <4> SUFFICES ASSUME NEW j \in DOMAIN todo', NEW k \in DOMAIN todo', j < k
                   PROVE  todo'[j].hi < todo'[k].lo
        OBVIOUS
      <4>1. j \in Nat /\ k \in Nat
        BY <2>3
      <4>2. j + 1 < k + 1 /\ j + 1 \in DOMAIN todo /\ k + 1 \in DOMAIN todo
        BY <2>3, <4>1
      <4>3. todo[j + 1].hi < todo[k + 1].lo
        BY <4>2 DEF PendingApart
      <4> QED BY <4>3, <2>3
    <3>2. \A k \in DOMAIN todo' : first.hi < todo'[k].lo /\ todo'[k].lo <= todo'[k].hi
      BY <2>2, <2>3, <2>4 DEF PendingApart
    <3>3. first.lo <= first.hi
      BY <2>2, <2>4 DEF PendingApart
    <3> QED BY <1>1, <2>1, <3>1, <3>2, <3>3 DEF PendingApart
  <2>7. \A i : IsPending(i)' <=> IsPending(i)
    <3> SUFFICES ASSUME NEW i PROVE IsPending(i)' <=> IsPending(i)
      OBVIOUS
    <3>1. IsPending(i) <=> \E k \in DOMAIN todo : i \in Span(todo[k])
      BY <1>1 DEF IsPending
    <3>2. IsPending(i)' <=> i \in Span(first) \/ \E k \in DOMAIN todo' : i \in Span(todo'[k])
      BY <1>1, <2>1 DEF IsPending
    <3>3. Span(first) = Span(todo[1])
      BY <2>4 DEF Span
    <3>4. (\E k \in DOMAIN todo : i \in Span(todo[k]))
            <=> i \in Span(todo[1]) \/ \E k \in DOMAIN todo' : i \in Span(todo'[k])
      BY <2>2, <2>3
    <3> QED BY <3>1, <3>2, <3>3, <3>4
  <2>8. OpenIsPending'
    BY <1>1, <2>7 DEF OpenIsPending
  <2> QED BY <2>5, <2>6, <2>8
<1> QED BY <1>3, <1>4

LEMMA EnterKeeps ==
  ASSUME IInv, NEW f \in frames, Enter(f)
  PROVE  IInv'
<1> USE DEF IInv, Enter, loop
<1>1. /\ call = NoCall /\ InProgress = {} /\ todo' = todo /\ item' = item
      /\ cancel' = cancel /\ frames' = frames \ {f} /\ f \in Frame
  BY DEF InProgress, WorkTypeOK
<1>2. CASE cancel
  <2>1. call' = NoCall /\ InProgress' = {}
    BY <1>1, <1>2 DEF InProgress
  <2>2. WorkTypeOK'
    BY <1>1, <2>1 DEF WorkTypeOK
  <2>3. PendingApart'
    BY <1>1, <2>1 DEF PendingApart, Begun
  <2>4. OpenIsPending'
    BY <1>1, <1>2, <2>1 DEF OpenIsPending, IsPending, Begun
  <2> QED BY <2>2, <2>3, <2>4
<1>3. CASE ~cancel
  <2>1. call' = [at |-> "waiting", frame |-> f] /\ InProgress' = {f}
    BY <1>3 DEF InProgress, NoCall
  <2>2. WorkTypeOK'
    BY <1>1, <2>1 DEF WorkTypeOK
  <2>3. Begun' = Begun
    BY <1>1, <2>1 DEF Begun
  <2>4. \A g \in frames' : f.hi < g.lo
    <3> SUFFICES ASSUME NEW g \in frames, g # f PROVE f.hi < g.lo
      BY <1>1
    <3>1. f.lo <= g.lo /\ g.lo <= g.hi /\ (f.hi < g.lo \/ g.hi < f.lo)
      BY DEF IsNext, PendingApart, Begun
    <3>2. f.lo \in Int /\ f.hi \in Int /\ g.lo \in Int /\ g.hi \in Int
      BY DEF WorkTypeOK, Frame, Items
    <3> QED BY <3>1, <3>2
  <2>5. PendingApart'
    BY <1>1, <2>1, <2>3, <2>4 DEF PendingApart
  <2>6. OpenIsPending'
    BY <1>1, <2>3 DEF OpenIsPending, IsPending
  <2> QED BY <2>2, <2>5, <2>6
<1> QED BY <1>2, <1>3

\* A failed call leads to smaller batches or to the same one again.
LEMMA SplitKeeps ==
  ASSUME IInv, NEW f \in Frame, Calling(f), NEW more, Splits(f, more),
         frames' = frames \cup more, call' = NoCall, UNCHANGED <<todo, item, cancel>>
  PROVE  IInv'
<1> USE DEF IInv
<1>1. /\ InProgress = {f} /\ InProgress' = {} /\ Begun' = frames'
      /\ f \in Begun
  BY DEF InProgress, Begun, Calling, NoCall
<1>2. WorkTypeOK'
  BY DEF WorkTypeOK, Splits
<1>3. PendingApart'
  <2>1. more \subseteq Frame /\ frames \subseteq Frame
    BY DEF Splits, WorkTypeOK
  <2>2. \A g \in Frame : g.lo \in Int /\ g.hi \in Int
    BY DEF Frame, Items
  <2>3. ASSUME NEW g \in more, NEW h \in frames PROVE g.hi < h.lo
    <3>1. g.hi <= f.hi /\ f.hi < h.lo
      BY <1>1, <2>3 DEF Splits, PendingApart
    <3> QED BY <3>1, <2>1, <2>2
  <2>4. \A g \in Begun' : g.lo <= g.hi
    BY <1>1 DEF Splits, PendingApart, Begun
  <2>5. \A k \in DOMAIN todo : todo[k] \in [lo : Items, hi : Items]
    BY TodoTyped
  <2>6. ASSUME NEW g \in Begun', NEW k \in DOMAIN todo PROVE g.hi < todo[k].lo
    <3>1. CASE g \in frames
      BY <3>1 DEF PendingApart, Begun
    <3>2. CASE g \in more
      <4>1. g.hi <= f.hi /\ f.hi < todo[k].lo
        BY <1>1, <3>2 DEF Splits, PendingApart
      <4>2. g.hi \in Int /\ f.hi \in Int /\ todo[k].lo \in Int
        BY <2>1, <2>2, <2>5, <3>2 DEF Items
      <4> QED BY <4>1, <4>2
    <3> QED BY <1>1, <3>1, <3>2
  <2>7. \A g, h \in frames' : g # h => g.hi < h.lo \/ h.hi < g.lo
    BY <2>3 DEF Splits, PendingApart
  <2> QED BY <1>1, <2>4, <2>6, <2>7 DEF PendingApart
<1>4. OpenIsPending'
  <2>1. ASSUME NEW i PROVE IsPending(i)' <=> IsPending(i)
    <3>1. (\E g \in more : i \in Span(g)) <=> i \in Span(f)
      <4>1. \A g \in more : Span(g) \subseteq Span(f)
        BY DEF Splits, Span, Frame, Items
      <4> QED BY <4>1 DEF Splits
    <3> QED BY <1>1, <3>1 DEF IsPending, Begun
  <2> QED BY <2>1 DEF OpenIsPending
<1> QED BY <1>2, <1>3, <1>4

\* The items of a call that is given up fail.
LEMMA FailKeeps ==
  ASSUME IInv, NEW f \in Frame, Calling(f), FailItems(Span(f)),
         call' = NoCall, UNCHANGED <<frames, todo, cancel>>
  PROVE  IInv'
<1> USE DEF IInv
<1>1. /\ InProgress = {f} /\ InProgress' = {} /\ Begun' = frames /\ Begun = frames \cup {f}
  BY DEF InProgress, Begun, Calling, NoCall
<1>2. /\ \A i \in Items : item'[i] = IF i \in Span(f) /\ item[i] = "queued" THEN "failed" ELSE item[i]
      /\ item' \in [Items -> {"queued", "succeeded", "failed"}]
  BY DEF FailItems, WorkTypeOK
<1>3. WorkTypeOK'
  BY <1>2 DEF WorkTypeOK
<1>4. PendingApart'
  BY <1>1 DEF PendingApart
<1>5. OpenIsPending'
  <2>1. \A i : IsPending(i) <=> i \in Span(f) \/ IsPending(i)'
    BY <1>1 DEF IsPending
  <2>2. ASSUME NEW i \in Span(f) PROVE ~IsPending(i)'
    <3>1. f.lo \in Int /\ f.hi \in Int /\ i \in Int /\ f.lo <= i /\ i <= f.hi
      BY DEF Frame, Items, Span
    <3>2. ASSUME NEW g \in frames PROVE i \notin Span(g)
      <4>1. f.hi < g.lo /\ g.lo \in Int
        BY <1>1 DEF PendingApart, WorkTypeOK, Frame, Items
      <4> QED BY <3>1, <4>1 DEF Span
    <3>3. ASSUME NEW k \in DOMAIN todo PROVE i \notin Span(todo[k])
      <4>1. f.hi < todo[k].lo
        BY <1>1 DEF PendingApart
      <4>2. todo[k].lo \in Int
        BY TodoTyped DEF Items
      <4> QED BY <3>1, <4>1, <4>2 DEF Span
    <3> QED BY <1>1, <3>2, <3>3 DEF IsPending
  <2> QED BY <1>2, <2>1, <2>2 DEF OpenIsPending
<1> QED BY <1>3, <1>4, <1>5

\* What a failure class leads to.
LEMMA DecisionAttempt ==
  ASSUME NEW f \in Frame, NEW failure \in FailureClasses \cup {"cancelled"}
  PROVE  Decision(f, failure).attempt \in Nat
<1>1. f.attempt \in Nat
  BY DEF Frame
<1>2. /\ FailFast(f).attempt \in Nat /\ OnOom(f).attempt \in Nat
      /\ OnTransient(f).attempt \in Nat /\ OnUnknown(f).attempt \in Nat
  BY <1>1 DEF FailFast, OnOom, OnTransient, OnUnknown
<1> QED BY <1>1, <1>2 DEF Decision, FailureClasses

LEMMA RaiseKeeps ==
  ASSUME IInv, NEW f \in InProgress, NEW failure \in FailureClasses, Raise(f, failure)
  PROVE  IInv'
<1> DEFINE class == Classified(failure)
           d == Decision(f, class)
           bisect == d.action = "bisect" /\ CanBisect(f)
           more == IF bisect THEN Halves(f, d.attempt)
                   ELSE IF d.action = "shrink" THEN Chunks(f, d.attempt)
                   ELSE IF d.action = "backoff" THEN {[f EXCEPT !.attempt = d.attempt]}
                   ELSE {}
<1>1. /\ Calling(f) /\ frames' = frames \cup more /\ call' = NoCall
      /\ (IF more = {} THEN FailItems(Span(f)) ELSE UNCHANGED item)
      /\ UNCHANGED <<todo, cancel>>
  BY DEF Raise, loop
<1>2. f \in Frame /\ f \in Begun /\ f.lo <= f.hi
  <2>1. f \in Frame
    BY InProgressIs DEF IInv
  <2>2. f \in Begun
    BY DEF Begun
  <2> QED BY <2>1, <2>2 DEF IInv, PendingApart
<1>3. d.attempt \in Nat
  BY <1>2, DecisionAttempt DEF Classified
<1> HIDE DEF d, class
<1>4. CASE more = {}
  <2>1. frames' = frames /\ FailItems(Span(f))
    BY <1>1, <1>4
  <2> QED BY <1>1, <1>2, <2>1, FailKeeps
<1>5. CASE more # {}
  <2>1. Splits(f, more)
    <3>1. CASE bisect
      <4>1. f.lo < f.hi
        BY <3>1, <1>2 DEF CanBisect, Size, Frame, Items
      <4> QED BY <4>1, <3>1, <1>2, <1>3, HalvesSplit
    <3>2. CASE ~bisect /\ d.action = "shrink"
      BY <3>2, <1>2, <1>3, ChunksSplit
    <3>3. CASE ~bisect /\ d.action = "backoff"
      <4> DEFINE again == [f EXCEPT !.attempt = d.attempt]
      <4>1. again \in Frame /\ again.lo = f.lo /\ again.hi = f.hi
        BY <1>2, <1>3 DEF Frame
      <4>2. more = {again}
        BY <3>3
      <4> HIDE DEF again, more
      <4>3. Span(again) = Span(f) /\ f.lo \in Int /\ f.hi \in Int
        BY <4>1, <1>2 DEF Span, Frame, Items
      <4> QED BY <4>1, <4>2, <4>3, <1>2 DEF Splits
    <3> QED BY <1>5, <3>1, <3>2, <3>3
  <2>2. UNCHANGED item
    BY <1>1, <1>5
  <2> QED BY <1>1, <1>2, <2>1, <2>2, SplitKeeps
<1> QED BY <1>4, <1>5

LEMMA PayloadsKeeps ==
  ASSUME IInv, NEW f \in InProgress, Payloads(f)
  PROVE  IInv'
<1> USE DEF IInv, Payloads, loop
<1>1. InProgress' = InProgress
  BY DEF InProgress, Calling, NoCall
<1>2. WorkTypeOK'
  BY InProgressIs DEF WorkTypeOK
<1>3. PendingApart'
  BY <1>1 DEF PendingApart, Begun
<1>4. OpenIsPending'
  BY <1>1 DEF OpenIsPending, IsPending, Begun
<1> QED BY <1>2, <1>3, <1>4

LEMMA CommitKeeps ==
  ASSUME IInv, NEW f \in InProgress, NEW outcome \in {"succeeded", "failed"},
         Commit(f, outcome)
  PROVE  IInv'
<1> USE DEF IInv, Commit, loop
<1>1. /\ InProgress = {f} /\ Begun = frames \cup {f} /\ f \in Frame /\ f.lo <= f.hi
      /\ frames' = frames /\ todo' = todo /\ cancel' = cancel
  BY InProgressIs DEF InProgress, NoCall, Begun, PendingApart
<1>2. \A g \in Frame : g.lo \in Int /\ g.hi \in Int /\ g.lo \in Items /\ g.hi \in Items
  BY DEF Frame, Items
<1>3. CASE cancel
  <2>1. call' = NoCall /\ item' = item /\ InProgress' = {} /\ Begun' = frames
    BY <1>1, <1>3 DEF InProgress, Begun
  <2>2. WorkTypeOK'
    BY <1>1, <2>1 DEF WorkTypeOK
  <2>3. PendingApart'
    BY <1>1, <2>1 DEF PendingApart
  <2>4. OpenIsPending'
    BY <1>1, <1>3, <2>1 DEF OpenIsPending, IsPending
  <2> QED BY <2>2, <2>3, <2>4
<1>4. CASE ~cancel
  <2> DEFINE rest == [f EXCEPT !.lo = f.lo + 1]
  <2>1. call' = AfterCommit(f) /\ item' = [item EXCEPT ![f.lo] = outcome]
    BY <1>4
  <2>2. /\ item' \in [Items -> {"queued", "succeeded", "failed"}]
        /\ \A i \in Items : item'[i] = IF i = f.lo THEN outcome ELSE item[i]
    BY <1>1, <1>2, <2>1 DEF WorkTypeOK
  <2>3. f.lo # f.hi => /\ rest \in Frame /\ rest.lo = f.lo + 1 /\ rest.hi = f.hi
                       /\ rest.lo <= rest.hi
    BY <1>1, <1>2, RecoveryAssumption, SMTT(30) DEF Frame, Items
  <2>4. InProgress' = IF f.lo = f.hi THEN {} ELSE {rest}
    BY <2>1 DEF InProgress, AfterCommit, NoCall
  <2>5. WorkTypeOK'
    BY <1>1, <2>1, <2>2, <2>3 DEF WorkTypeOK, AfterCommit
  <2> HIDE DEF rest
  <2>6. Begun' = frames \cup (IF f.lo = f.hi THEN {} ELSE {rest})
    BY <1>1, <2>4 DEF Begun
  <2>7. PendingApart'
    BY <1>1, <2>3, <2>4, <2>6 DEF PendingApart
  <2>8. ASSUME NEW i \in Items PROVE IsPending(i)' <=> IsPending(i) /\ i # f.lo
    <3>1. f.lo \notin Span(f) \/ f.lo \in Span(f)
      OBVIOUS
    <3>2. i \in Int
      BY DEF Items
    <3>3. (f.lo # f.hi /\ i \in Span(rest)) <=> (i \in Span(f) /\ i # f.lo)
      BY <1>1, <1>2, <2>3, <3>2 DEF Span
    <3>4. ASSUME NEW g \in frames PROVE f.lo \notin Span(g)
      <4>1. f.hi < g.lo
        BY <1>1 DEF PendingApart
      <4>2. g \in Frame
        BY DEF WorkTypeOK
      <4> QED BY <1>1, <1>2, <4>1, <4>2 DEF Span
    <3>5. ASSUME NEW k \in DOMAIN todo PROVE f.lo \notin Span(todo[k])
      <4>1. f.hi < todo[k].lo
        BY <1>1 DEF PendingApart
      <4>2. todo[k].lo \in Int /\ todo[k].hi \in Int
        BY TodoTyped DEF Items
      <4> QED BY <1>1, <1>2, <4>1, <4>2 DEF Span
    <3>6. IsPending(i) <=> \/ i \in Span(f)
                           \/ \E g \in frames : i \in Span(g)
                           \/ \E k \in DOMAIN todo : i \in Span(todo[k])
      BY <1>1 DEF IsPending
    <3>7. IsPending(i)' <=> \/ f.lo # f.hi /\ i \in Span(rest)
                            \/ \E g \in frames : i \in Span(g)
                            \/ \E k \in DOMAIN todo : i \in Span(todo[k])
      BY <1>1, <2>6 DEF IsPending
    <3> QED BY <3>3, <3>4, <3>5, <3>6, <3>7
  <2>9. OpenIsPending'
    BY <1>1, <2>2, <2>8 DEF OpenIsPending
  <2> QED BY <2>5, <2>7, <2>9
<1> QED BY <1>3, <1>4

LEMMA RequestCancelKeeps ==
  ASSUME IInv, RequestCancel
  PROVE  IInv'
<1> USE DEF IInv, RequestCancel, loop
<1>1. InProgress' = InProgress /\ Begun' = Begun
  BY DEF InProgress, Begun
<1>2. WorkTypeOK'
  BY DEF WorkTypeOK
<1>3. PendingApart'
  BY <1>1 DEF PendingApart
<1>4. OpenIsPending'
  BY <1>1 DEF OpenIsPending, IsPending
<1> QED BY <1>2, <1>3, <1>4

LEMMA StepPartition == IInv /\ [Next]_vars => IInv'
<1> SUFFICES ASSUME IInv, [Next]_vars PROVE IInv'
  OBVIOUS
<1>1. CASE NextBatch
  BY <1>1, NextBatchKeeps
<1>2. ASSUME NEW f \in frames, Enter(f) PROVE IInv'
  BY <1>2, EnterKeeps
<1>3. ASSUME NEW f \in InProgress, Reject(f) PROVE IInv'
  <2>1. f \in Frame
    BY InProgressIs DEF IInv
  <2> QED BY <1>3, <2>1, FailKeeps DEF Reject, loop
<1>4. ASSUME NEW f \in InProgress, Payloads(f) PROVE IInv'
  BY <1>4, PayloadsKeeps
<1>5. ASSUME NEW f \in InProgress, NEW failure \in FailureClasses, Raise(f, failure)
      PROVE  IInv'
  BY <1>5, RaiseKeeps
<1>6. ASSUME NEW f \in InProgress, NEW outcome \in Outcomes(f), Commit(f, outcome)
      PROVE  IInv'
  <2>1. outcome \in {"succeeded", "failed"}
    BY DEF Outcomes
  <2> QED BY <1>6, <2>1, CommitKeeps
<1>7. CASE RequestCancel
  BY <1>7, RequestCancelKeeps
<1>8. CASE UNCHANGED vars
  <2>1. InProgress' = InProgress /\ Begun' = Begun
    BY <1>8 DEF vars, InProgress, Begun
  <2> QED BY <1>8, <2>1 DEF vars, loop, IInv, WorkTypeOK, PendingApart, OpenIsPending, IsPending
<1> QED BY <1>1, <1>2, <1>3, <1>4, <1>5, <1>6, <1>7, <1>8 DEF Next, Recover

THEOREM PartitionInvariant == Spec => []IInv
BY InitPartition, StepPartition, PTL DEF Spec

\* An item without an outcome is in exactly one pending batch (in at most one after a
\* cancel), and one with an outcome in none: bisecting and shrinking lose no item and
\* have none recognised again.
THEOREM WorkIsPartitioned == Spec => []BatchesPartitionTheWork
<1>1. ASSUME IInv PROVE BatchesPartitionTheWork
  <2> USE <1>1 DEF IInv
  <2>1. Pending = {todo[k] : k \in DOMAIN todo} \cup Begun
    BY DEF Pending, Begun
  <2>2. \A i : IsPending(i) <=> \E f \in Pending : i \in Span(f)
    BY <2>1 DEF IsPending
  <2>3. ASSUME NEW i \in Items, NEW f \in Pending, NEW g \in Pending,
               i \in Span(f), i \in Span(g)
        PROVE  f = g
    <3>1. \A h \in Begun : h.lo \in Int /\ h.hi \in Int
      BY InProgressIs DEF Begun, WorkTypeOK, Frame, Items
    <3>2. \A k \in DOMAIN todo : todo[k].lo \in Int /\ todo[k].hi \in Int
      BY TodoTyped DEF Items
    <3>3. i \in Int /\ f.lo <= i /\ i <= f.hi /\ g.lo <= i /\ i <= g.hi
      BY <2>1, <2>3, <3>1, <3>2 DEF Span, Items
    <3>4. ASSUME NEW h \in Begun, NEW k \in DOMAIN todo,
                 h.lo <= i, i <= h.hi, todo[k].lo <= i
          PROVE  FALSE
      <4>1. h.hi < todo[k].lo
        BY DEF PendingApart
      <4> QED BY <4>1, <3>1, <3>2, <3>3, <3>4
    <3>5. ASSUME NEW j \in DOMAIN todo, NEW k \in DOMAIN todo, j < k,
                 i <= todo[j].hi, todo[k].lo <= i
          PROVE  FALSE
      <4>1. todo[j].hi < todo[k].lo
        BY <3>5 DEF PendingApart
      <4> QED BY <4>1, <3>2, <3>3, <3>5
    <3>6. CASE f \in Begun /\ g \in Begun
      <4>1. f \in frames /\ g \in frames => f = g \/ f.hi < g.lo \/ g.hi < f.lo
        BY DEF PendingApart
      <4>2. f \in InProgress /\ g \in frames => f.hi < g.lo
        BY DEF PendingApart
      <4>3. f \in frames /\ g \in InProgress => g.hi < f.lo
        BY DEF PendingApart
      <4>4. f \in InProgress /\ g \in InProgress => f = g
        BY DEF InProgress
      <4>5. f.lo \in Int /\ f.hi \in Int /\ g.lo \in Int /\ g.hi \in Int
        BY <3>1, <3>6
      <4> QED BY <3>3, <3>6, <4>1, <4>2, <4>3, <4>4, <4>5 DEF Begun
    <3>7. CASE f \notin Begun /\ g \notin Begun
      <4>1. PICK j \in DOMAIN todo : f = todo[j]
        BY <2>1, <3>7
      <4>2. PICK k \in DOMAIN todo : g = todo[k]
        BY <2>1, <3>7
      <4>3. j \in Nat /\ k \in Nat
        BY DEF WorkTypeOK
      <4>4. ~(j < k) /\ ~(k < j)
        BY <3>3, <3>5, <4>1, <4>2
      <4>5. j = k
        BY <4>3, <4>4
      <4> QED BY <4>1, <4>2, <4>5
    <3>8. CASE f \in Begun /\ g \notin Begun
      <4>1. PICK k \in DOMAIN todo : g = todo[k]
        BY <2>1, <3>8
      <4> QED BY <3>3, <3>4, <3>8, <4>1
    <3>9. CASE f \notin Begun /\ g \in Begun
      <4>1. PICK k \in DOMAIN todo : f = todo[k]
        BY <2>1, <3>9
      <4> QED BY <3>3, <3>4, <3>9, <4>1
    <3> QED BY <3>6, <3>7, <3>8, <3>9
  <2> QED BY <2>2, <2>3 DEF BatchesPartitionTheWork, OpenIsPending
<1> QED BY <1>1, PartitionInvariant, PTL

-----------------------------------------------------------------------------
(* Which items fail, with adapters that isolate.                             *)

\* The parts of a batch have an item that answers well only if it has.
LEMMA PartsAreSmaller ==
  ASSUME NEW f \in Frame, NEW g \in Frame, f.lo <= g.lo, g.hi <= f.hi
  PROVE  Span(g) \subseteq Span(f) /\ Size(g) \in Int /\ Size(f) \in Int /\ Size(g) <= Size(f)
BY DEF Span, Size, Frame, Items

\* A chunk is no longer than the next size.
LEMMA ChunksAreShort ==
  ASSUME NEW f \in Frame, NEW a \in Nat, NEW g \in Chunks(f, a), f.lo <= f.hi
  PROVE  Size(g) <= NextSize(f) /\ g.attempt = a
<1>1. f.lo \in Int /\ f.hi \in Int /\ Span(f) \subseteq Int
  BY DEF Frame, Items, Span
<1>2. NextSize(f) \in Nat
  BY <1>1, RecoveryAssumption DEF NextSize, Upper, Size
<1>3. PICK x \in Span(f) : g = Sub(x, Lower(x + NextSize(f) - 1, f.hi), a)
  BY DEF Chunks
<1>4. g.lo = x /\ g.hi <= x + NextSize(f) - 1 /\ g.hi \in Int /\ g.attempt = a
  BY <1>1, <1>2, <1>3 DEF Sub, Lower
<1> QED BY <1>1, <1>2, <1>4 DEF Size

LEMMA OffendersRaise ==
  ASSUME NEW room \in Nat, NEW limit, \A a \in Adapters : Isolates(a, room),
         ShrinksTo(room, limit), IInv, OffendersApart(limit),
         NEW f \in InProgress, NEW failure \in FailureClasses, Raise(f, failure)
  PROVE  OffendersApart(limit)'
<1> USE DEF OffendersApart
<1> DEFINE class == Classified(failure)
           d == Decision(f, class)
           bisect == d.action = "bisect" /\ CanBisect(f)
           more == IF bisect THEN Halves(f, d.attempt)
                   ELSE IF d.action = "shrink" THEN Chunks(f, d.attempt)
                   ELSE IF d.action = "backoff" THEN {[f EXCEPT !.attempt = d.attempt]}
                   ELSE {}
<1>1. /\ Calling(f) /\ frames' = frames \cup more /\ call' = NoCall
      /\ (IF more = {} THEN FailItems(Span(f)) ELSE UNCHANGED item)
      /\ failure \in AnswersTo(Span(f))
      /\ UNCHANGED <<todo, adapter, cancel>>
  BY DEF Raise, loop
<1>2. /\ f \in Frame /\ f \in Begun /\ f.lo <= f.hi /\ f.lo \in Items /\ f.hi \in Items
      /\ f.attempt \in Nat /\ InProgress' = {} /\ Begun' = frames'
  <2>1. f \in Frame
    BY InProgressIs DEF IInv
  <2>2. f \in Begun
    BY DEF Begun
  <2>3. f.lo <= f.hi
    BY <2>2 DEF IInv, PendingApart
  <2> QED BY <1>1, <2>1, <2>2, <2>3 DEF Frame, InProgress, Begun
<1>3. CASE ~\E i \in Span(f) : Innocent(adapter, i)
  <2>1. d.attempt \in Nat
    BY <1>2, DecisionAttempt DEF Classified
  <2> HIDE DEF d, class
  <2>2. \A g \in more : Span(g) \subseteq Span(f)
    <3>1. CASE bisect
      <4>1. f.lo < f.hi
        BY <3>1, <1>2 DEF CanBisect, Size, Items
      <4>2. Splits(f, more)
        BY <4>1, <3>1, <1>2, <2>1, HalvesSplit
      <4> QED BY <4>2, <1>2, PartsAreSmaller DEF Splits
    <3>2. CASE ~bisect /\ d.action = "shrink"
      <4>1. Splits(f, more)
        BY <3>2, <1>2, <2>1, ChunksSplit
      <4> QED BY <4>1, <1>2, PartsAreSmaller DEF Splits
    <3>3. CASE ~bisect /\ d.action = "backoff"
      <4>1. [f EXCEPT !.attempt = d.attempt].lo = f.lo /\ [f EXCEPT !.attempt = d.attempt].hi = f.hi
        BY <1>2 DEF Frame
      <4> QED BY <3>3, <4>1 DEF Span
    <3> QED BY <3>1, <3>2, <3>3
  <2> HIDE DEF more
  <2>3. \A g \in Begun' : \A i \in Span(g) : Innocent(adapter, i)
           => g.attempt <= MaxOomRetries /\ Size(g) <= limit[g.attempt]
    BY <1>1, <1>2, <1>3, <2>2 DEF Begun
  <2>4. OnlyOffendersFail'
    <3> SUFFICES ASSUME ~cancel, NEW i \in Items, item'[i] = "failed"
                 PROVE  AnswersTo({i}) # {"payloads"}
      BY <1>1 DEF OnlyOffendersFail, AnswersTo
    <3>1. item[i] = "failed" \/ i \in Span(f)
      BY <1>1 DEF FailItems, IInv, WorkTypeOK
    <3> QED BY <1>3, <3>1 DEF OnlyOffendersFail, Innocent, AnswersTo
  <2> QED BY <1>1, <1>2, <2>3, <2>4
<1>4. CASE cancel
  <2>1. class = "cancelled"
    BY <1>4 DEF Classified
  <2>2. d = FailFast(f)
    BY <2>1 DEF Decision
  <2>3. more = {}
    BY <2>2 DEF FailFast
  <2> HIDE DEF more, d, class
  <2> QED BY <1>1, <1>2, <1>4, <2>3 DEF OnlyOffendersFail, Begun
<1>5. CASE ~cancel /\ \E i \in Span(f) : Innocent(adapter, i)
  <2>1. class = failure
    BY <1>5 DEF Classified
  <2>2. PICK i \in Span(f) : Innocent(adapter, i)
    BY <1>5
  <2>3. /\ failure \in {"bad_input", "oom"}
        /\ failure = "oom" => Size(f) > room
        /\ f.attempt <= MaxOomRetries /\ Size(f) <= limit[f.attempt]
    <3>1. AnswersTo(Span(f)) = Answers[adapter][f.lo .. f.hi] /\ i \in f.lo .. f.hi
      BY <2>2 DEF AnswersTo, Span
    <3>2. /\ Answers[adapter][f.lo .. f.hi] \subseteq {"payloads", "bad_input", "oom"}
          /\ "oom" \in Answers[adapter][f.lo .. f.hi] => f.hi - f.lo + 1 > room
      BY <1>2, <2>2, <3>1 DEF Isolates
    <3>3. failure # "payloads"
      BY DEF FailureClasses
    <3> QED BY <1>1, <1>2, <2>2, <3>1, <3>2, <3>3 DEF Size
  <2>4. Size(f) \in Nat /\ limit[f.attempt] \in Nat /\ limit[MaxOomRetries] <= room
    BY <1>2, <2>3, RecoveryAssumption DEF Size, Items, ShrinksTo
  <2>5. /\ more # {}
        /\ \A g \in more : g \in Frame /\ g.attempt <= MaxOomRetries /\ Size(g) <= limit[g.attempt]
    <3>1. CASE failure = "bad_input"
      <4>1. d = [action |-> "bisect", attempt |-> f.attempt, delay |-> 0]
        BY <2>1, <3>1 DEF Decision
      <4>2. f.lo # f.hi
        <5> SUFFICES ASSUME f.lo = f.hi PROVE FALSE
          OBVIOUS
        <5>1. Span(f) = {i}
          BY <1>2, <2>2 DEF Span, Items
        <5>2. AnswersTo(Span(f)) = {"payloads"}
          BY <2>2, <5>1 DEF Innocent, AnswersTo
        <5> QED BY <1>1, <3>1, <5>2
      <4>3. f.lo < f.hi /\ bisect
        BY <1>2, <4>1, <4>2 DEF CanBisect, Size, Items
      <4>4. more = Halves(f, f.attempt)
        BY <4>1, <4>3
      <4>5. Splits(f, more)
        BY <1>2, <4>3, <4>4, HalvesSplit
      <4>6. \A g \in more : g.attempt = f.attempt
        BY <4>4 DEF Halves, Sub
      <4> HIDE DEF more, d, class
      <4>7. more # {}
        BY <2>2, <4>5 DEF Splits
      <4>8. \A g \in more : g \in Frame /\ Size(g) \in Int /\ Size(g) <= Size(f)
        BY <1>2, <4>5, PartsAreSmaller DEF Splits
      <4> QED BY <2>3, <2>4, <4>6, <4>7, <4>8
    <3>2. CASE failure = "oom"
      <4>1. f.attempt < MaxOomRetries
        <5>1. f.attempt # MaxOomRetries
          BY <2>3, <2>4, <3>2
        <5> QED BY <1>2, <2>3, <5>1, RecoveryAssumption
      <4>2. d = [action |-> "shrink", attempt |-> f.attempt + 1, delay |-> 0]
        BY <1>2, <2>1, <3>2, <4>1, RecoveryAssumption DEF Decision, OnOom
      <4>3. more = Chunks(f, f.attempt + 1)
        BY <4>2
      <4> HIDE DEF more, d, class
      <4>4. Splits(f, more)
        BY <1>2, <4>3, ChunksSplit
      <4>5. \A g \in more : Size(g) <= NextSize(f) /\ g.attempt = f.attempt + 1
        BY <1>2, <4>3, ChunksAreShort
      <4>6. NextSize(f) <= limit[f.attempt + 1] /\ NextSize(f) \in Int
            /\ limit[f.attempt + 1] \in Int
        <5>1. f.attempt \in 0 .. MaxOomRetries /\ f.attempt + 1 \in 0 .. MaxOomRetries
              /\ Size(f) \in 0 .. limit[f.attempt]
          BY <1>2, <2>3, <2>4, <4>1, RecoveryAssumption
        <5>2. Upper(MinBatchSize, Size(f) \div 2) <= limit[f.attempt + 1]
          BY <4>1, <5>1 DEF ShrinksTo
        <5>3. limit[f.attempt + 1] \in Int
          BY <5>1 DEF ShrinksTo
        <5>4. Upper(MinBatchSize, Size(f) \div 2) \in Int
          BY <2>4, RecoveryAssumption DEF Upper
        <5> QED BY <5>2, <5>3, <5>4 DEF NextSize
      <4>7. \A g \in more : g \in Frame /\ Size(g) \in Int
        BY <4>4 DEF Splits, Size, Frame, Items
      <4>8. more # {}
        BY <2>2, <4>4 DEF Splits
      <4>9. f.attempt + 1 <= MaxOomRetries
        BY <1>2, <4>1, RecoveryAssumption
      <4> QED BY <4>5, <4>6, <4>7, <4>8, <4>9
    <3> QED BY <2>3, <3>1, <3>2
  <2> HIDE DEF more, d, class
  <2>6. UNCHANGED item
    BY <1>1, <2>5
  <2> QED BY <1>1, <1>2, <2>5, <2>6 DEF OnlyOffendersFail, AnswersTo, Begun
<1> QED BY <1>3, <1>4, <1>5

LEMMA OffendersCommit ==
  ASSUME IInv, NEW room \in Nat, NEW limit, ShrinksTo(room, limit), OffendersApart(limit),
         NEW f \in InProgress, NEW outcome \in Outcomes(f), Commit(f, outcome)
  PROVE  OffendersApart(limit)'
<1> USE DEF OffendersApart
<1>1. /\ call = [at |-> "committing", frame |-> f] /\ f \in Frame /\ f.lo <= f.hi
      /\ f.lo \in Items /\ f.hi \in Items /\ f.attempt \in Nat
      /\ InProgress = {f} /\ Begun = frames \cup {f}
      /\ UNCHANGED <<todo, adapter, frames, cancel>>
  <2>1. call = [at |-> "committing", frame |-> f]
    BY DEF Commit
  <2>2. InProgress = {f} /\ Begun = frames \cup {f}
    BY <2>1 DEF InProgress, NoCall, Begun
  <2>3. f \in Frame /\ f.lo <= f.hi
    BY <2>2, InProgressIs DEF IInv, PendingApart
  <2> QED BY <2>1, <2>2, <2>3 DEF Commit, loop, Frame
<1>2. CASE cancel
  <2>1. InProgress' = {} /\ Begun' = frames
    BY <1>1, <1>2 DEF Commit, InProgress, Begun
  <2> QED BY <1>1, <1>2, <2>1 DEF OnlyOffendersFail
<1>3. CASE ~cancel
  <2> DEFINE rest == [f EXCEPT !.lo = f.lo + 1]
  <2>1. rest.lo = f.lo + 1 /\ rest.hi = f.hi /\ rest.attempt = f.attempt
    BY <1>1 DEF Frame
  <2>2. call' = (IF f.lo = f.hi THEN NoCall ELSE [at |-> "committing", frame |-> rest])
        /\ item' = [item EXCEPT ![f.lo] = outcome]
    BY <1>3 DEF Commit, AfterCommit
  <2> HIDE DEF rest
  <2>3. InProgress' \subseteq {rest} /\ Begun' \subseteq frames \cup {rest}
    BY <1>1, <2>2 DEF InProgress, NoCall, Begun
  <2>4. Span(rest) \subseteq Span(f) /\ Size(rest) <= Size(f) /\ Size(rest) \in Int
        /\ Size(f) \in Int
    BY <1>1, <2>1 DEF Span, Size, Items
  <2>5. \A i \in Span(rest) : Innocent(adapter, i) =>
          /\ AnswersTo(i .. rest.hi) = {"payloads"} /\ rest.attempt <= MaxOomRetries
          /\ Size(rest) <= limit[rest.attempt]
    <3> SUFFICES ASSUME NEW i \in Span(rest), Innocent(adapter, i)
                 PROVE  /\ AnswersTo(i .. rest.hi) = {"payloads"}
                        /\ rest.attempt <= MaxOomRetries
                        /\ Size(rest) <= limit[rest.attempt]
      OBVIOUS
    <3>1. i \in Span(f)
      BY <2>4
    <3>2. Size(f) <= limit[f.attempt] /\ f.attempt <= MaxOomRetries
          /\ AnswersTo(i .. f.hi) = {"payloads"}
      BY <1>1, <3>1
    <3>3. limit[f.attempt] \in Nat
      BY <1>1, <3>2, RecoveryAssumption DEF ShrinksTo
    <3> QED BY <2>1, <2>4, <3>2, <3>3
  <2>6. OnlyOffendersFail'
    <3> SUFFICES ASSUME NEW i \in Items, item'[i] = "failed", Innocent(adapter, i) PROVE FALSE
      BY <1>1 DEF OnlyOffendersFail, AnswersTo, Innocent
    <3>1. CASE i = f.lo
      <4>1. AnswersTo(Span(f)) = {"payloads"}
        <5>1. i \in Span(f) /\ Span(f) = i .. f.hi
          BY <1>1, <3>1 DEF Span, Items
        <5> QED BY <1>1, <5>1
      <4>2. outcome = "succeeded"
        BY <4>1 DEF Outcomes
      <4> QED BY <2>2, <3>1, <4>2 DEF IInv, WorkTypeOK
    <3>2. CASE i # f.lo
      BY <1>3, <2>2, <3>2 DEF OnlyOffendersFail, AnswersTo, Innocent, IInv, WorkTypeOK
    <3> QED BY <3>1, <3>2
  <2> QED BY <1>1, <2>3, <2>5, <2>6 DEF AnswersTo
<1> QED BY <1>2, <1>3

LEMMA OffendersStep ==
  ASSUME NEW room \in Nat, NEW limit, \A a \in Adapters : Isolates(a, room),
         ShrinksTo(room, limit), IInv, OffendersApart(limit), [Next]_vars
  PROVE  OffendersApart(limit)'
<1> USE DEF OffendersApart
<1>1. CASE NextBatch
  <2>1. /\ frames = {} /\ InProgress = {} /\ InProgress' = {} /\ Begun' = frames'
        /\ UNCHANGED <<adapter, item, cancel>>
    BY <1>1 DEF NextBatch, InProgress, Begun
  <2>2. CASE cancel
    BY <1>1, <2>1, <2>2 DEF NextBatch, OnlyOffendersFail
  <2>3. CASE ~cancel
    <3> DEFINE first == [lo |-> Head(todo).lo, hi |-> Head(todo).hi, attempt |-> 0]
    <3>1. todo' = Tail(todo) /\ frames' = {first} /\ todo # <<>>
      BY <1>1, <2>3 DEF NextBatch
    <3>2. todo \in Seq([lo : Items, hi : Items])
      BY DEF IInv, WorkTypeOK
    <3>3. \A k \in DOMAIN todo' : todo'[k] = todo[k + 1] /\ k + 1 \in DOMAIN todo
      BY <3>1, <3>2
    <3>4. Head(todo) = todo[1] /\ 1 \in DOMAIN todo
      <4>1. Len(todo) \in Nat \ {0} /\ DOMAIN todo = 1 .. Len(todo)
        BY <3>1, <3>2
      <4> QED BY <3>2, <4>1
    <3>5. first.attempt = 0 /\ Size(first) = Size(todo[1])
      BY <3>4 DEF Size
    <3>6. Size(first) <= limit[0]
      BY <3>4, <3>5
    <3>7. 0 <= MaxOomRetries
      BY RecoveryAssumption
    <3> HIDE DEF first
    <3> QED BY <2>1, <3>1, <3>3, <3>5, <3>6, <3>7 DEF OnlyOffendersFail, AnswersTo
  <2> QED BY <2>2, <2>3
<1>2. ASSUME NEW f \in frames, Enter(f) PROVE OffendersApart(limit)'
  <2>1. /\ UNCHANGED <<adapter, todo, item, cancel>> /\ Begun' \subseteq Begun
        /\ call' # NoCall => call'.at = "waiting"
    BY <1>2 DEF Enter, loop, Begun, InProgress, NoCall
  <2>2. InProgress' # {} => call' # NoCall
    BY DEF InProgress
  <2> QED BY <2>1, <2>2 DEF OnlyOffendersFail, AnswersTo
<1>3. ASSUME NEW f \in InProgress, Reject(f) PROVE OffendersApart(limit)'
  <2>1. /\ UNCHANGED <<adapter, todo, frames, cancel>> /\ InProgress' = {} /\ Begun' \subseteq Begun
        /\ f \in Frame
    BY <1>3, InProgressIs DEF Reject, loop, Begun, InProgress, IInv
  <2>2. \A i \in Span(f) : ~Innocent(adapter, i)
    <3> SUFFICES ASSUME NEW i \in Span(f), Innocent(adapter, i) PROVE FALSE
      OBVIOUS
    <3>1. f.lo \in Items /\ f.hi \in Items /\ i \in f.lo .. f.hi
          /\ AnswersTo(Span(f)) = Answers[adapter][f.lo .. f.hi]
      BY <2>1 DEF Frame, Span, AnswersTo
    <3>2. Answers[adapter][f.lo .. f.hi] \subseteq {"payloads", "bad_input", "oom"}
      BY <3>1 DEF Isolates
    <3> QED BY <1>3, <3>1, <3>2 DEF Reject
  <2>3. OnlyOffendersFail'
    <3> SUFFICES ASSUME ~cancel, NEW i \in Items, item'[i] = "failed"
                 PROVE  ~Innocent(adapter, i)
      BY <2>1 DEF OnlyOffendersFail, AnswersTo, Innocent
    <3>1. item[i] = "failed" \/ i \in Span(f)
      BY <1>3 DEF Reject, FailItems, IInv, WorkTypeOK
    <3> QED BY <2>2, <3>1 DEF OnlyOffendersFail, Innocent, AnswersTo
  <2> QED BY <2>1, <2>3
<1>4. ASSUME NEW f \in InProgress, Payloads(f) PROVE OffendersApart(limit)'
  <2>1. /\ UNCHANGED <<adapter, todo, frames, item, cancel>> /\ f \in Frame
        /\ "payloads" \in AnswersTo(Span(f))
    BY <1>4, InProgressIs DEF Payloads, loop, IInv
  <2>2. InProgress' = {f} /\ InProgress = {f}
    BY <1>4 DEF Payloads, Calling, InProgress, NoCall
  <2>3. \A i \in Span(f) : Innocent(adapter, i) => AnswersTo(i .. f.hi) = {"payloads"}
    <3> SUFFICES ASSUME NEW i \in Span(f), Innocent(adapter, i)
                 PROVE  AnswersTo(i .. f.hi) = {"payloads"}
      OBVIOUS
    <3>1. f.lo \in Items /\ f.hi \in Items /\ i \in f.lo .. f.hi
          /\ AnswersTo(Span(f)) = Answers[adapter][f.lo .. f.hi]
      BY <2>1 DEF Frame, Span, AnswersTo
    <3> QED BY <2>1, <3>1 DEF Isolates, AnswersTo
  <2>4. Begun' = Begun
    BY <2>1, <2>2 DEF Begun
  <2> QED BY <2>1, <2>2, <2>3, <2>4 DEF OnlyOffendersFail, AnswersTo
<1>5. ASSUME NEW f \in InProgress, NEW failure \in FailureClasses, Raise(f, failure)
      PROVE  OffendersApart(limit)'
  BY <1>5, OffendersRaise
<1>6. ASSUME NEW f \in InProgress, NEW outcome \in Outcomes(f), Commit(f, outcome)
      PROVE  OffendersApart(limit)'
  BY <1>6, OffendersCommit
<1>7. CASE RequestCancel \/ UNCHANGED vars
  <2>1. /\ UNCHANGED <<adapter, todo, frames, call, item>> /\ InProgress' = InProgress
        /\ Begun' = Begun /\ (cancel' \/ cancel' = cancel)
    BY <1>7 DEF RequestCancel, vars, loop, InProgress, Begun
  <2> QED BY <2>1 DEF OnlyOffendersFail, AnswersTo
<1> QED BY <1>1, <1>2, <1>3, <1>4, <1>5, <1>6, <1>7 DEF Next, Recover

\* With adapters that isolate, and retries that shrink any batch to what the device has
\* room for, an item whose own call answers well never fails, whatever is in its batch
\* (supervisor/inference/recovery.py: only the offending item fails).
THEOREM OffendersAlone ==
  ASSUME NEW room \in Nat, NEW limit, \A a \in Adapters : Isolates(a, room),
         ShrinksTo(room, limit)
  PROVE  Spec => []OnlyOffendersFail
<1>1. Init => OffendersApart(limit)
  <2> SUFFICES ASSUME Init PROVE OffendersApart(limit)
    OBVIOUS
  <2>1. Begun = {} /\ InProgress = {} /\ todo = job.batches /\ job \in Plans
        /\ adapter \in Adapters /\ \A i \in Items : item[i] = "queued"
    BY DEF Init, Begun, InProgress
  <2> QED BY <2>1 DEF OffendersApart, ShrinksTo, OnlyOffendersFail
<1>2. IInv /\ OffendersApart(limit) /\ [Next]_vars => OffendersApart(limit)'
  BY OffendersStep
<1>3. OffendersApart(limit) => OnlyOffendersFail
  BY DEF OffendersApart
<1> QED BY <1>1, <1>2, <1>3, PartitionInvariant, PTL DEF Spec

-----------------------------------------------------------------------------
(* What the items of a plan weigh.                                           *)

\* Files weigh something or nothing, in every respect.
Weighed(items) == \A k \in 1 .. Len(items) : \A d \in Dims : items[k][d] \in Nat

LEMMA TotalIs ==
  ASSUME NEW items, Len(items) \in Nat, NEW d, \A k \in 1 .. Len(items) : items[k][d] \in Nat
  PROVE  /\ Total(items, d) \in [0 .. Len(items) -> Nat]
         /\ Total(items, d)[0] = 0
         /\ \A k \in 1 .. Len(items) : Total(items, d)[k] = Total(items, d)[k - 1] + items[k][d]
<1> DEFINE n == Len(items)
           step == [k \in 1 .. n |-> [m \in Nat |-> m + items[k][d]]]
           total == Total(items, d)
<1>1. step \in [1 .. n -> [Nat -> Nat]]
  OBVIOUS
<1>2. 0 \in Nat
  OBVIOUS
<1> HIDE DEF step
<1>3. PICK f \in [0 .. n -> Nat] : f[0] = 0 /\ \A k \in 1 .. n : f[k] = step[k][f[k - 1]]
  <2>1. PICK numbers, zero : numbers = Nat /\ zero = 0
    OBVIOUS
  <2>2. n \in Nat /\ zero \in numbers /\ step \in [1 .. n -> [numbers -> numbers]]
    BY <1>1, <2>1
  <2> HIDE DEF n
  <2>3. \E f \in [0 .. n -> numbers] : f[0] = zero /\ \A k \in 1 .. n : f[k] = step[k][f[k - 1]]
    BY <2>2, Iteration, SMTT(30)
  <2> QED BY <2>1, <2>3
<1>4. \A k \in 0 .. n : f[k] = IF k = 0 THEN 0 ELSE f[k - 1] + items[k][d]
  <2> SUFFICES ASSUME NEW k \in 0 .. n, k # 0 PROVE f[k] = f[k - 1] + items[k][d]
    BY <1>3
  <2>1. k \in 1 .. n /\ k - 1 \in 0 .. n
    OBVIOUS
  <2>2. f[k - 1] \in Nat /\ f[k] = step[k][f[k - 1]]
    BY <1>3, <2>1
  <2> QED BY <2>1, <2>2 DEF step
<1>5. f = [k \in 0 .. Len(items) |-> IF k = 0 THEN 0 ELSE f[k - 1] + items[k][d]]
  BY <1>3, <1>4
<1>6. total = [k \in 0 .. Len(items) |-> IF k = 0 THEN 0 ELSE total[k - 1] + items[k][d]]
  BY <1>5, Zenon DEF Total
<1> HIDE DEF total
<1>7. total[0] = 0 /\ \A k \in 1 .. n : total[k] = total[k - 1] + items[k][d]
  BY <1>6
<1>8. 0 .. n \subseteq {k \in 0 .. n : total[k] \in Nat}
  <2> DEFINE T == {k \in 0 .. n : total[k] \in Nat}
  <2>1. 0 \in T
    BY <1>7
  <2>2. ASSUME NEW k \in 0 .. n - 1, k \in T PROVE k + 1 \in T
    <3>1. k + 1 \in 1 .. n /\ (k + 1) - 1 = k
      OBVIOUS
    <3>2. total[k + 1] = total[k] + items[k + 1][d] /\ items[k + 1][d] \in Nat
      BY <1>7, <3>1
    <3> QED BY <2>2, <3>1, <3>2
  <2> HIDE DEF T
  <2> QED BY <2>1, <2>2, UpTo DEF T
<1> QED BY <1>6, <1>7, <1>8 DEF total

LEMMA TotalGrows ==
  ASSUME NEW items, Len(items) \in Nat, NEW d, \A k \in 1 .. Len(items) : items[k][d] \in Nat,
         NEW a \in 0 .. Len(items), NEW b \in 0 .. Len(items), a <= b
  PROVE  Total(items, d)[a] <= Total(items, d)[b]
<1> DEFINE n == Len(items)
           total == Total(items, d)
           T == {k \in 0 .. n : a <= k => total[a] <= total[k]}
<1>1. /\ total \in [0 .. n -> Nat]
      /\ \A k \in 1 .. n : total[k] = total[k - 1] + items[k][d]
  BY TotalIs
<1> HIDE DEF total
<1>2. 0 \in T
  BY <1>1
<1>3. ASSUME NEW k \in 0 .. n - 1, k \in T PROVE k + 1 \in T
  <2>1. k + 1 \in 1 .. n /\ (k + 1) - 1 = k /\ k + 1 \in 0 .. n
    OBVIOUS
  <2>2. total[k + 1] = total[k] + items[k + 1][d] /\ items[k + 1][d] \in Nat
        /\ total[k] \in Nat /\ total[a] \in Nat
    <3>1. total[k + 1] = total[(k + 1) - 1] + items[k + 1][d] /\ items[k + 1][d] \in Nat
      BY <1>1, <2>1
    <3>2. k \in 0 .. n
      OBVIOUS
    <3> QED BY <1>1, <2>1, <3>1, <3>2
  <2>3. CASE a <= k
    BY <1>3, <2>1, <2>2, <2>3
  <2>4. CASE a = k + 1
    BY <2>1, <2>2, <2>4
  <2>5. CASE a > k + 1
    BY <2>1, <2>5
  <2> QED BY <2>3, <2>4, <2>5
<1> HIDE DEF T
<1>4. 0 .. n \subseteq T
  BY <1>2, <1>3, UpTo
<1> QED BY <1>4 DEF T, total

-----------------------------------------------------------------------------
(* A part of what fits, fits.                                                *)

LEMMA PartFitsRequest ==
  ASSUME NEW items, Len(items) \in Nat, Weighed(items),
         NEW lo \in 1 .. Len(items), NEW hi \in 1 .. Len(items), FitsRequest(items, lo, hi),
         NEW a \in lo .. hi, NEW b \in lo .. hi, a <= b
  PROVE  FitsRequest(items, a, b)
<1>1. MaxFileCount \in Nat /\ \A d \in Dims : Caps[d] \in Nat
  BY BudgetAssumption DEF Dims, Caps
<1>2. ASSUME NEW d \in Dims PROVE Total(items, d)[b] - Total(items, d)[a - 1] <= Caps[d]
  <2>1. \A k \in 1 .. Len(items) : items[k][d] \in Nat
    BY DEF Weighed
  <2>2. /\ a - 1 \in 0 .. Len(items) /\ lo - 1 \in 0 .. Len(items) /\ lo - 1 <= a - 1
        /\ b \in 0 .. Len(items) /\ hi \in 0 .. Len(items) /\ b <= hi
    OBVIOUS
  <2>3. Total(items, d)[lo - 1] <= Total(items, d)[a - 1] /\ Total(items, d)[b] <= Total(items, d)[hi]
    BY <2>1, <2>2, TotalGrows
  <2>4. Total(items, d) \in [0 .. Len(items) -> Nat]
    BY <2>1, TotalIs
  <2>5. /\ Total(items, d)[lo - 1] \in Nat /\ Total(items, d)[a - 1] \in Nat
        /\ Total(items, d)[b] \in Nat /\ Total(items, d)[hi] \in Nat
    BY <2>2, <2>4
  <2>6. Total(items, d)[hi] - Total(items, d)[lo - 1] <= Caps[d]
    BY DEF FitsRequest
  <2>7. PICK w, x, y, z, c : /\ w = Total(items, d)[lo - 1] /\ x = Total(items, d)[a - 1]
                             /\ y = Total(items, d)[b] /\ z = Total(items, d)[hi] /\ c = Caps[d]
    OBVIOUS
  <2>8. /\ w \in Nat /\ x \in Nat /\ y \in Nat /\ z \in Nat /\ c \in Nat
        /\ w <= x /\ y <= z /\ z - w <= c
    BY <1>1, <2>3, <2>5, <2>6, <2>7
  <2>9. y - x <= c
    BY <2>8
  <2> QED BY <2>7, <2>9
<1>3. b - a + 1 <= MaxFileCount
  BY <1>1 DEF FitsRequest
<1> QED BY <1>2, <1>3 DEF FitsRequest

LEMMA PartFits ==
  ASSUME NEW items, Len(items) \in Nat, Weighed(items),
         NEW lo \in 1 .. Len(items), NEW hi \in 1 .. Len(items),
         NEW capability, capability.max_compute_batch \in Nat, capability.per_item_vram \in Nat,
         Fits(items, lo, hi, capability),
         NEW a \in lo .. hi, NEW b \in lo .. hi, a <= b
  PROVE  Fits(items, a, b, capability)
<1>1. CASE lo = hi
  BY <1>1 DEF Fits
<1>2. CASE FitsRequest(items, lo, hi) /\ FitsDevice(hi - lo + 1, capability)
  <2>1. DeviceVram \in Nat
    BY BudgetAssumption
  <2>3. FitsRequest(items, a, b)
    BY <1>2, PartFitsRequest
  <2>4. FitsDevice(b - a + 1, capability)
    <3> DEFINE m == b - a + 1
               n == hi - lo + 1
               v == capability.per_item_vram
    <3>1. m \in Nat /\ n \in Nat /\ m <= n /\ v \in Nat
      OBVIOUS
    <3> HIDE DEF m, n, v
    <3>2. m * v <= n * v /\ m * v \in Nat /\ n * v \in Nat
      BY <3>1
    <3>3. capability.real_batch /\ n <= capability.max_compute_batch
          /\ (DeviceVram = 0 \/ n * v <= DeviceVram)
      BY <1>2 DEF FitsDevice, n, v
    <3>4. m <= capability.max_compute_batch /\ (DeviceVram = 0 \/ m * v <= DeviceVram)
      BY <2>1, <3>1, <3>2, <3>3
    <3> QED BY <3>3, <3>4 DEF FitsDevice, m, v
  <2> QED BY <2>3, <2>4 DEF Fits
<1> QED BY <1>1, <1>2 DEF Fits

-----------------------------------------------------------------------------
(* Sequences of batches.                                                     *)

Interval == [lo : Nat, hi : Nat]

\* The batches take the items from .. to in their order, each once.
IsCut(s, from, to) ==
  /\ s \in Seq(Interval)
  /\ \A j \in DOMAIN s : from <= s[j].lo /\ s[j].lo <= s[j].hi /\ s[j].hi <= to
  /\ \A j, k \in DOMAIN s : j < k => s[j].hi < s[k].lo
  /\ \A i \in from .. to : \E j \in DOMAIN s : i \in Span(s[j])

\* The batches of s are those of a and b.
Joined(s, a, b) == \A k \in DOMAIN s : \/ \E j \in DOMAIN a : s[k] = a[j]
                                       \/ \E j \in DOMAIN b : s[k] = b[j]

LEMMA CutsJoin ==
  ASSUME NEW x \in Nat, NEW y \in Nat, NEW z \in Nat, x <= y + 1, y <= z,
         NEW a, IsCut(a, x, y), NEW b, IsCut(b, y + 1, z)
  PROVE  IsCut(a \o b, x, z) /\ Joined(a \o b, a, b)
<1> DEFINE s == a \o b
           m == Len(a)
           n == Len(b)
<1>1. /\ a \in Seq(Interval) /\ b \in Seq(Interval) /\ m \in Nat /\ n \in Nat
      /\ DOMAIN a = 1 .. m /\ DOMAIN b = 1 .. n
      /\ a \in [1 .. m -> Interval] /\ b \in [1 .. n -> Interval]
  BY SeqIsFunction DEF IsCut
<1>2. /\ s \in Seq(Interval) /\ Len(s) = m + n
      /\ \A i \in 1 .. m : s[i] = a[i]
      /\ \A i \in 1 .. n : s[i + m] = b[i]
  BY <1>1, ConcatIs
<1> HIDE DEF s, m, n
<1>3. DOMAIN s = 1 .. m + n
  BY <1>2, SeqIsFunction
\* Each batch is one of a, or behind a one of b.
<1>4. ASSUME NEW k \in 1 .. m + n
      PROVE  \/ k \in 1 .. m /\ s[k] = a[k]
             \/ k - m \in 1 .. n /\ s[k] = b[k - m]
  <2>1. CASE k <= m
    BY <1>1, <1>2, <2>1
  <2>2. CASE k > m
    <3>1. k - m \in 1 .. n /\ (k - m) + m = k
      BY <1>1, <2>2
    <3>2. s[(k - m) + m] = b[k - m]
      BY <1>2, <3>1
    <3> QED BY <3>1, <3>2
  <2> QED BY <1>1, <2>1, <2>2
<1>5. /\ \A j \in 1 .. m : /\ a[j].lo \in Nat /\ a[j].hi \in Nat
                           /\ x <= a[j].lo /\ a[j].lo <= a[j].hi /\ a[j].hi <= y
      /\ \A j, k \in 1 .. m : j < k => a[j].hi < a[k].lo
      /\ \A i \in x .. y : \E j \in 1 .. m : i \in Span(a[j])
  BY <1>1 DEF IsCut, Interval
<1>6. /\ \A j \in 1 .. n : /\ b[j].lo \in Nat /\ b[j].hi \in Nat
                           /\ y + 1 <= b[j].lo /\ b[j].lo <= b[j].hi /\ b[j].hi <= z
      /\ \A j, k \in 1 .. n : j < k => b[j].hi < b[k].lo
      /\ \A i \in y + 1 .. z : \E j \in 1 .. n : i \in Span(b[j])
  BY <1>1 DEF IsCut, Interval
<1>7. ASSUME NEW k \in 1 .. m + n PROVE x <= s[k].lo /\ s[k].lo <= s[k].hi /\ s[k].hi <= z
  <2>1. CASE k \in 1 .. m /\ s[k] = a[k]
    BY <1>5, <2>1
  <2>2. CASE k - m \in 1 .. n /\ s[k] = b[k - m]
    <3>1. PICK j \in 1 .. n : s[k] = b[j]
      BY <2>2
    <3>2. /\ b[j].lo \in Nat /\ b[j].hi \in Nat
          /\ y + 1 <= b[j].lo /\ b[j].lo <= b[j].hi /\ b[j].hi <= z
      BY <1>6
    <3> QED BY <3>1, <3>2
  <2> QED BY <1>4, <2>1, <2>2
<1>8. ASSUME NEW j \in 1 .. m + n, NEW k \in 1 .. m + n, j < k PROVE s[j].hi < s[k].lo
  <2>1. CASE j \in 1 .. m /\ s[j] = a[j] /\ k \in 1 .. m /\ s[k] = a[k]
    BY <1>5, <1>8, <2>1
  <2>2. CASE j \in 1 .. m /\ s[j] = a[j] /\ k - m \in 1 .. n /\ s[k] = b[k - m]
    <3>1. PICK c \in 1 .. n : s[k] = b[c]
      BY <2>2
    <3>2. b[c].lo \in Nat /\ y + 1 <= b[c].lo /\ a[j].hi \in Nat /\ a[j].hi <= y
      BY <1>5, <1>6, <2>2
    <3> QED BY <2>2, <3>1, <3>2
  <2>3. CASE j - m \in 1 .. n /\ s[j] = b[j - m] /\ k - m \in 1 .. n /\ s[k] = b[k - m]
    <3>1. PICK i \in 1 .. n, c \in 1 .. n : i = j - m /\ c = k - m /\ s[j] = b[i] /\ s[k] = b[c]
      BY <2>3
    <3>2. i < c
      BY <1>1, <1>8, <3>1
    <3> QED BY <1>6, <3>1, <3>2
  <2>4. ~(j - m \in 1 .. n /\ k \in 1 .. m)
    BY <1>1, <1>8
  <2> QED BY <1>4, <2>1, <2>2, <2>3, <2>4
<1>9. ASSUME NEW i \in x .. z PROVE \E k \in 1 .. m + n : i \in Span(s[k])
  <2>1. CASE i <= y
    <3>1. PICK j \in 1 .. m : i \in Span(a[j])
      BY <1>5, <2>1
    <3>2. j \in 1 .. m + n /\ s[j] = a[j]
      BY <1>1, <1>2
    <3> QED BY <3>1, <3>2
  <2>2. CASE i > y
    <3>1. PICK j \in 1 .. n : i \in Span(b[j])
      BY <1>6, <2>2
    <3>2. j + m \in 1 .. m + n /\ s[j + m] = b[j]
      BY <1>1, <1>2
    <3> QED BY <3>1, <3>2
  <2> QED BY <2>1, <2>2
<1>10. IsCut(s, x, z)
  BY <1>2, <1>3, <1>7, <1>8, <1>9 DEF IsCut
<1>11. Joined(s, a, b)
  BY <1>1, <1>3, <1>4 DEF Joined
<1> QED BY <1>10, <1>11 DEF s

LEMMA OneIsCut ==
  ASSUME NEW x \in Nat, NEW y \in Nat, x <= y
  PROVE  IsCut(<<[lo |-> x, hi |-> y]>>, x, y)
<1> DEFINE e == [lo |-> x, hi |-> y]
<1>1. e \in Interval /\ e.lo = x /\ e.hi = y
  BY DEF Interval
<1> HIDE DEF e
<1>2. <<e>> \in Seq(Interval) /\ DOMAIN <<e>> = {1} /\ <<e>>[1] = e
  BY <1>1
<1>3. IsCut(<<e>>, x, y)
  BY <1>1, <1>2 DEF IsCut, Span
<1> QED BY <1>3 DEF e

LEMMA CutExtends ==
  ASSUME NEW x \in Nat, NEW y \in Nat, NEW z \in Nat, x <= y + 1, y < z, NEW s, IsCut(s, x, y),
         NEW e, e = [lo |-> y + 1, hi |-> z]
  PROVE  /\ IsCut(Append(s, e), x, z)
         /\ \A k \in DOMAIN Append(s, e) : \/ \E j \in DOMAIN s : Append(s, e)[k] = s[j]
                                         \/ Append(s, e)[k] = e
<1>1. IsCut(<<e>>, y + 1, z)
  BY OneIsCut
<1>2. s \in Seq(Interval) /\ e \in Interval
  BY DEF IsCut, Interval
<1>3. Append(s, e) = s \o <<e>> /\ DOMAIN <<e>> = {1} /\ <<e>>[1] = e
  BY <1>2
<1>4. IsCut(s \o <<e>>, x, z) /\ Joined(s \o <<e>>, s, <<e>>)
  BY <1>1, CutsJoin
<1> QED BY <1>3, <1>4, ZenonT(60) DEF Joined

-----------------------------------------------------------------------------
(* plan_transport.                                                           *)

PlanType == [batches : Seq(Interval), from : Nat, load : [Dims -> Nat]]

LEMMA NoLoadTyped == NoLoad \in [Dims -> Nat]
BY DEF NoLoad

LEMMA FlushedTyped ==
  ASSUME NEW plan \in PlanType, NEW k \in Nat \ {0}
  PROVE  Flushed(plan, k) \in Seq(Interval)
<1>1. plan.batches \in Seq(Interval) /\ plan.from \in Nat /\ k - 1 \in Nat
  BY DEF PlanType
<1>2. [lo |-> plan.from, hi |-> k - 1] \in Interval
  BY <1>1 DEF Interval
<1> QED BY <1>1, <1>2 DEF Flushed

LEMMA TakeTyped ==
  ASSUME NEW plan \in PlanType, NEW k \in Nat \ {0}, NEW file, \A d \in Dims : file[d] \in Nat
  PROVE  Take(plan, k, file) \in PlanType
<1>1. /\ plan.batches \in Seq(Interval) /\ plan.from \in Nat /\ plan.load \in [Dims -> Nat]
      /\ plan = [batches |-> plan.batches, from |-> plan.from, load |-> plan.load]
  BY DEF PlanType
<1>2. Flushed(plan, k) \in Seq(Interval)
  BY FlushedTyped
<1>3. CASE Oversized(file)
  <2>1. [lo |-> k, hi |-> k] \in Interval
    BY DEF Interval
  <2>2. Append(Flushed(plan, k), [lo |-> k, hi |-> k]) \in Seq(Interval)
    BY <1>2, <2>1
  <2>3. k + 1 \in Nat
    OBVIOUS
  <2>4. Opened(Append(Flushed(plan, k), [lo |-> k, hi |-> k]), k + 1, NoLoad) \in PlanType
    BY <2>2, <2>3, NoLoadTyped DEF Opened, PlanType
  <2> QED BY <1>3, <2>4 DEF Take
<1>4. CASE ~Oversized(file) /\ Overflows(plan, k, file)
  <2>1. [d \in Dims |-> file[d]] \in [Dims -> Nat]
    OBVIOUS
  <2>2. Opened(Flushed(plan, k), k, [d \in Dims |-> file[d]]) \in PlanType
    BY <1>2, <2>1 DEF Opened, PlanType
  <2> QED BY <1>4, <2>2 DEF Take
<1>5. CASE ~Oversized(file) /\ ~Overflows(plan, k, file)
  <2>1. With(plan, file) \in [Dims -> Nat]
    BY <1>1 DEF With
  <2>2. [plan EXCEPT !.load = With(plan, file)]
          = [batches |-> plan.batches, from |-> plan.from, load |-> With(plan, file)]
    BY <1>1
  <2>3. [batches |-> plan.batches, from |-> plan.from, load |-> With(plan, file)] \in PlanType
    BY <1>1, <2>1 DEF PlanType
  <2> QED BY <1>5, <2>2, <2>3 DEF Take
<1> QED BY <1>3, <1>4, <1>5

LEMMA FilledIs ==
  ASSUME NEW items, Len(items) \in Nat, Weighed(items)
  PROVE  /\ Filled(items) \in [0 .. Len(items) -> PlanType]
         /\ Filled(items)[0] = Opened(<<>>, 1, NoLoad)
         /\ \A k \in 1 .. Len(items) : Filled(items)[k] = Take(Filled(items)[k - 1], k, items[k])
<1> DEFINE n == Len(items)
           step == [k \in 1 .. n |-> [plan \in PlanType |-> Take(plan, k, items[k])]]
           empty == Opened(<<>>, 1, NoLoad)
<1>1. step \in [1 .. n -> [PlanType -> PlanType]]
  <2> SUFFICES ASSUME NEW k \in 1 .. n, NEW plan \in PlanType
               PROVE  Take(plan, k, items[k]) \in PlanType
    OBVIOUS
  <2>1. k \in Nat \ {0} /\ \A d \in Dims : items[k][d] \in Nat
    BY DEF Weighed
  <2> QED BY <2>1, TakeTyped
<1>2. empty \in PlanType
  <2>1. <<>> \in Seq(Interval) /\ 1 \in Nat
    OBVIOUS
  <2> QED BY <2>1, NoLoadTyped DEF Opened, PlanType
<1> HIDE DEF step, empty
<1>3. PICK f \in [0 .. n -> PlanType] : f[0] = empty /\ \A k \in 1 .. n : f[k] = step[k][f[k - 1]]
  <2> HIDE DEF n
  <2>1. n \in Nat
    BY DEF n
  <2> QED BY <1>1, <1>2, <2>1, Iteration
<1>4. \A k \in 0 .. n : f[k] = IF k = 0 THEN empty ELSE Take(f[k - 1], k, items[k])
  <2> SUFFICES ASSUME NEW k \in 0 .. n, k # 0 PROVE f[k] = Take(f[k - 1], k, items[k])
    BY <1>3
  <2>1. k \in 1 .. n /\ k - 1 \in 0 .. n
    OBVIOUS
  <2>2. f[k - 1] \in PlanType /\ f[k] = step[k][f[k - 1]]
    BY <1>3, <2>1
  <2> QED BY <2>1, <2>2 DEF step
<1>5. f = [k \in 0 .. Len(items) |-> IF k = 0 THEN Opened(<<>>, 1, NoLoad)
                                     ELSE Take(f[k - 1], k, items[k])]
  BY <1>3, <1>4 DEF empty
<1>6. Filled(items) = [k \in 0 .. Len(items) |-> IF k = 0 THEN Opened(<<>>, 1, NoLoad)
                                     ELSE Take(Filled(items)[k - 1], k, items[k])]
  BY <1>5, Zenon DEF Filled
<1> DEFINE filled == Filled(items)
<1> HIDE DEF filled
<1>7. filled[0] = empty /\ \A k \in 1 .. n : filled[k] = Take(filled[k - 1], k, items[k])
  BY <1>6 DEF filled, empty
<1>8. 0 .. n \subseteq {k \in 0 .. n : filled[k] \in PlanType}
  <2> DEFINE T == {k \in 0 .. n : filled[k] \in PlanType}
  <2>1. 0 \in T
    BY <1>2, <1>7
  <2>2. ASSUME NEW k \in 0 .. n - 1, k \in T PROVE k + 1 \in T
    <3>1. k + 1 \in 1 .. n /\ (k + 1) - 1 = k /\ k + 1 \in 0 .. n /\ k + 1 \in Nat \ {0}
      OBVIOUS
    <3>2. filled[k + 1] = Take(filled[k], k + 1, items[k + 1])
      <4>1. filled[k + 1] = Take(filled[(k + 1) - 1], k + 1, items[k + 1])
        BY <1>7, <3>1
      <4> QED BY <4>1, <3>1
    <3>3. \A d \in Dims : items[k + 1][d] \in Nat
      BY <3>1 DEF Weighed
    <3>4. filled[k] \in PlanType
      BY <2>2
    <3>5. filled[k + 1] \in PlanType
      BY <3>1, <3>2, <3>3, <3>4, TakeTyped
    <3> QED BY <3>1, <3>5
  <2> HIDE DEF T
  <2> QED BY <2>1, <2>2, UpTo DEF T
<1> QED BY <1>6, <1>7, <1>8 DEF filled, empty

\* One request carries the batch.
Carried(items, b) == b.lo = b.hi \/ FitsRequest(items, b.lo, b.hi)

\* The plan after the first k items.
IsPlanUpTo(items, k, plan) ==
  /\ plan \in PlanType
  /\ plan.from \in 1 .. k + 1
  /\ IsCut(plan.batches, 1, plan.from - 1)
  /\ \A j \in DOMAIN plan.batches : Carried(items, plan.batches[j])
  /\ k - plan.from + 1 <= MaxFileCount
  /\ \A d \in Dims : /\ plan.load[d] = Total(items, d)[k] - Total(items, d)[plan.from - 1]
                     /\ plan.load[d] <= Caps[d]

LEMMA FlushedCuts ==
  ASSUME NEW items, Len(items) \in Nat, Weighed(items),
         NEW k \in 1 .. Len(items) + 1, NEW plan, IsPlanUpTo(items, k - 1, plan)
  PROVE  /\ IsCut(Flushed(plan, k), 1, k - 1)
         /\ \A j \in DOMAIN Flushed(plan, k) : Carried(items, Flushed(plan, k)[j])
<1>1. PICK from \in 1 .. k : plan.from = from
  BY DEF IsPlanUpTo
<1>2. /\ IsCut(plan.batches, 1, from - 1)
      /\ \A j \in DOMAIN plan.batches : Carried(items, plan.batches[j])
  BY <1>1 DEF IsPlanUpTo
<1>3. CASE from = k
  BY <1>1, <1>2, <1>3 DEF Flushed
<1>4. CASE from < k
  <2> DEFINE e == [lo |-> from, hi |-> k - 1]
             s == Append(plan.batches, e)
  <2>1. Flushed(plan, k) = s
    BY <1>1, <1>4 DEF Flushed
  <2>2. /\ IsCut(s, 1, k - 1)
        /\ \A j \in DOMAIN s : (\E i \in DOMAIN plan.batches : s[j] = plan.batches[i]) \/ s[j] = e
    <3>1. PICK before \in Nat : before = from - 1
      BY <1>1
    <3>2. /\ 1 \in Nat /\ k - 1 \in Nat /\ 1 <= before + 1 /\ before < k - 1 
          /\ IsCut(plan.batches, 1, before) /\ e = [lo |-> before + 1, hi |-> k - 1]
      BY <1>1, <1>2, <1>4, <3>1
    <3> HIDE DEF e
    <3> QED BY <3>2, CutExtends, SMTT(30)
  <2>3. Carried(items, e)
    <3>1. e.lo = from /\ e.hi = k - 1
      OBVIOUS
    <3> HIDE DEF e
    <3>2. (k - 1) - from + 1 <= MaxFileCount
      BY <1>1 DEF IsPlanUpTo
    <3>3. ASSUME NEW d \in Dims PROVE Total(items, d)[k - 1] - Total(items, d)[from - 1] <= Caps[d]
      BY <1>1 DEF IsPlanUpTo
    <3> QED BY <3>1, <3>2, <3>3 DEF Carried, FitsRequest
  <2> HIDE DEF s, e
  <2> QED BY <1>2, <2>1, <2>2, <2>3
<1> QED BY <1>3, <1>4

LEMMA TakeKeeps ==
  ASSUME NEW items, Len(items) \in Nat, Weighed(items),
         NEW k \in 1 .. Len(items), NEW plan, IsPlanUpTo(items, k - 1, plan)
  PROVE  IsPlanUpTo(items, k, Take(plan, k, items[k]))
<1> DEFINE file == items[k]
           next == Take(plan, k, file)
<1>1. PICK from \in 1 .. k : plan.from = from
  BY DEF IsPlanUpTo
<1>2. /\ plan \in PlanType /\ \A d \in Dims : file[d] \in Nat
      /\ k \in Nat \ {0}
  BY DEF IsPlanUpTo, Weighed
<1>3. next \in PlanType
  BY <1>2, TakeTyped
<1>4. /\ IsCut(Flushed(plan, k), 1, k - 1)
      /\ \A j \in DOMAIN Flushed(plan, k) : Carried(items, Flushed(plan, k)[j])
  BY FlushedCuts
<1>5. MaxFileCount \in Nat /\ MaxFileCount >= 1 /\ \A d \in Dims : Caps[d] \in Nat
  BY BudgetAssumption DEF Dims, Caps
<1>6. \A d \in Dims : /\ Total(items, d) \in [0 .. Len(items) -> Nat]
                      /\ Total(items, d)[k] = Total(items, d)[k - 1] + file[d]
  BY TotalIs DEF Weighed
<1> HIDE DEF file, next
<1>7. CASE Oversized(file)
  <2> DEFINE e == [lo |-> k, hi |-> k]
             s == Append(Flushed(plan, k), e)
  <2>1. next = Opened(s, k + 1, NoLoad)
    BY <1>7 DEF next, Take
  <2>2. next.from = k + 1 /\ next.batches = s /\ next.load = NoLoad
    BY <2>1 DEF Opened
  <2>3. /\ IsCut(s, 1, k)
        /\ \A j \in DOMAIN s : (\E i \in DOMAIN Flushed(plan, k) : s[j] = Flushed(plan, k)[i])
                               \/ s[j] = e
    <3>1. PICK before \in Nat : before = k - 1
      OBVIOUS
    <3>2. /\ 1 \in Nat /\ k \in Nat /\ 1 <= before + 1 /\ before < k
          /\ IsCut(Flushed(plan, k), 1, before) /\ e = [lo |-> before + 1, hi |-> k]
      BY <1>4, <3>1
    <3> HIDE DEF e
    <3> QED BY <3>2, CutExtends
  <2>4. Carried(items, e)
    BY DEF Carried
  <2> HIDE DEF s, e
  <2>5. \A j \in DOMAIN s : Carried(items, s[j])
    BY <1>4, <2>3, <2>4
  <2>6. ASSUME NEW d \in Dims
        PROVE  /\ next.load[d] = Total(items, d)[k] - Total(items, d)[next.from - 1]
               /\ next.load[d] <= Caps[d]
    <3>1. next.load[d] = 0 /\ next.from - 1 = k
      BY <2>2 DEF NoLoad
    <3>2. Total(items, d)[k] \in Nat /\ Caps[d] \in Nat
      BY <1>5, <1>6
    <3> QED BY <3>1, <3>2
  <2>7. next.from \in 1 .. k + 1 /\ next.from - 1 = k /\ k - next.from + 1 <= MaxFileCount
    BY <1>5, <2>2
  <2> QED BY <1>3, <2>2, <2>3, <2>5, <2>6, <2>7 DEF IsPlanUpTo, next, file
<1>8. CASE ~Oversized(file) /\ Overflows(plan, k, file)
  <2>1. next = Opened(Flushed(plan, k), k, [d \in Dims |-> file[d]])
    BY <1>8 DEF next, Take
  <2>2. /\ next.from = k /\ next.batches = Flushed(plan, k)
        /\ next.load = [d \in Dims |-> file[d]]
    BY <2>1 DEF Opened
  <2>3. ASSUME NEW d \in Dims
        PROVE  /\ next.load[d] = Total(items, d)[k] - Total(items, d)[next.from - 1]
               /\ next.load[d] <= Caps[d]
    <3>1. next.load[d] = file[d]
      BY <2>2
    <3>2. ~(file[d] > Caps[d]) /\ file[d] \in Nat /\ Caps[d] \in Nat
      BY <1>2, <1>5, <1>8 DEF Oversized
    <3>3. Total(items, d)[k] = Total(items, d)[k - 1] + file[d] /\ Total(items, d)[k - 1] \in Nat
      <4>1. k - 1 \in 0 .. Len(items)
        OBVIOUS
      <4> QED BY <1>6, <4>1
    <3>4. Total(items, d)[k] - Total(items, d)[k - 1] = file[d]
      BY <3>2, <3>3
    <3> QED BY <2>2, <3>1, <3>2, <3>4
  <2>4. next.from \in 1 .. k + 1 /\ k - next.from + 1 <= MaxFileCount
    BY <1>5, <2>2
  <2> QED BY <1>3, <1>4, <2>2, <2>3, <2>4 DEF IsPlanUpTo, next, file
<1>9. CASE ~Oversized(file) /\ ~Overflows(plan, k, file)
  <2>1. next = [plan EXCEPT !.load = With(plan, file)]
    BY <1>9 DEF next, Take
  <2>2. next.from = from /\ next.batches = plan.batches /\ next.load = With(plan, file)
    BY <1>1, <1>2, <2>1 DEF PlanType
  <2>3. ASSUME NEW d \in Dims
        PROVE  /\ next.load[d] = Total(items, d)[k] - Total(items, d)[next.from - 1]
               /\ next.load[d] <= Caps[d]
    <3>1. next.load[d] = plan.load[d] + file[d] /\ next.load[d] <= Caps[d]
      <4>1. next.load[d] = With(plan, file)[d] /\ ~(With(plan, file)[d] > Caps[d])
        BY <1>9, <2>2 DEF Overflows
      <4>2. With(plan, file)[d] = plan.load[d] + file[d]
        BY DEF With
      <4>3. plan.load[d] \in Nat /\ file[d] \in Nat /\ Caps[d] \in Nat
        BY <1>2, <1>5 DEF PlanType
      <4> QED BY <4>1, <4>2, <4>3
    <3>2. plan.load[d] = Total(items, d)[k - 1] - Total(items, d)[from - 1]
      BY <1>1 DEF IsPlanUpTo
    <3>3. Total(items, d)[k] = Total(items, d)[k - 1] + file[d]
      BY <1>6
    <3>4. /\ Total(items, d)[k - 1] \in Nat /\ Total(items, d)[from - 1] \in Nat
          /\ file[d] \in Nat
      <4>1. k - 1 \in 0 .. Len(items) /\ from - 1 \in 0 .. Len(items)
        OBVIOUS
      <4> QED BY <1>2, <1>6, <4>1
    <3>5. PICK x, y, z, w, v : /\ x = Total(items, d)[k - 1] /\ y = Total(items, d)[from - 1]
                               /\ z = file[d] /\ w = plan.load[d] /\ v = Total(items, d)[k]
      OBVIOUS
    <3>6. w + z = v - y
      BY <3>2, <3>3, <3>4, <3>5
    <3> QED BY <2>2, <3>1, <3>5, <3>6
  <2>4. next.from \in 1 .. k + 1 /\ k - next.from + 1 <= MaxFileCount
    <3>1. ~(k - from + 1 > MaxFileCount)
      BY <1>1, <1>9 DEF Overflows
    <3> QED BY <1>5, <2>2, <3>1
  <2>5. IsCut(next.batches, 1, next.from - 1) /\ \A j \in DOMAIN next.batches : Carried(items, next.batches[j])
    BY <1>1, <2>2 DEF IsPlanUpTo
  <2> QED BY <1>3, <2>3, <2>4, <2>5 DEF IsPlanUpTo, next, file
<1> QED BY <1>7, <1>8, <1>9

LEMMA TransportIs ==
  ASSUME NEW items, Len(items) \in Nat, Weighed(items)
  PROVE  /\ IsCut(PlanTransport(items), 1, Len(items))
         /\ \A j \in DOMAIN PlanTransport(items) : Carried(items, PlanTransport(items)[j])
<1> DEFINE n == Len(items)
           filled == Filled(items)
           T == {k \in 0 .. n : IsPlanUpTo(items, k, filled[k])}
<1>1. /\ filled \in [0 .. n -> PlanType]
      /\ filled[0] = Opened(<<>>, 1, NoLoad)
      /\ \A k \in 1 .. n : filled[k] = Take(filled[k - 1], k, items[k])
  BY FilledIs
<1> HIDE DEF filled
<1>2. 0 \in T
  <2>1. /\ filled[0] \in PlanType /\ filled[0].from = 1 /\ filled[0].batches = <<>>
        /\ filled[0].load = NoLoad
    BY <1>1 DEF Opened
  <2>2. IsCut(<<>>, 1, 0)
    BY DEF IsCut
  <2>3. MaxFileCount \in Nat /\ \A d \in Dims : Caps[d] \in Nat
    BY BudgetAssumption DEF Dims, Caps
  <2>4. ASSUME NEW d \in Dims
        PROVE  /\ filled[0].load[d] = Total(items, d)[0] - Total(items, d)[0]
               /\ filled[0].load[d] <= Caps[d]
    <3>1. filled[0].load[d] = 0
      BY <2>1 DEF NoLoad
    <3>2. Total(items, d)[0] = 0
      BY TotalIs DEF Weighed
    <3> QED BY <2>3, <3>1, <3>2
  <2>5. IsPlanUpTo(items, 0, filled[0])
    BY <2>1, <2>2, <2>3, <2>4 DEF IsPlanUpTo
  <2> QED BY <2>5
<1>3. ASSUME NEW k \in 0 .. n - 1, k \in T PROVE k + 1 \in T
  <2>1. k + 1 \in 1 .. n /\ (k + 1) - 1 = k /\ k + 1 \in 0 .. n
    OBVIOUS
  <2>2. filled[k + 1] = Take(filled[k], k + 1, items[k + 1])
    <3>1. filled[k + 1] = Take(filled[(k + 1) - 1], k + 1, items[k + 1])
      BY <1>1, <2>1
    <3> QED BY <2>1, <3>1
  <2>3. IsPlanUpTo(items, (k + 1) - 1, filled[k])
    BY <1>3, <2>1
  <2>4. IsPlanUpTo(items, k + 1, Take(filled[k], k + 1, items[k + 1]))
    BY <2>1, <2>3, TakeKeeps
  <2> QED BY <2>1, <2>2, <2>4
<1>4. n \in T
  <2> HIDE DEF T
  <2>1. 0 .. n \subseteq T
    BY <1>2, <1>3, UpTo
  <2> QED BY <2>1
<1>5. n + 1 \in 1 .. n + 1 /\ (n + 1) - 1 = n /\ IsPlanUpTo(items, n, filled[n])
  BY <1>4
<1>6. IsPlanUpTo(items, (n + 1) - 1, filled[n])
  BY <1>5
<1>7. /\ IsCut(Flushed(filled[n], n + 1), 1, (n + 1) - 1)
      /\ \A j \in DOMAIN Flushed(filled[n], n + 1) : Carried(items, Flushed(filled[n], n + 1)[j])
  <2> HIDE DEF n
  <2> QED BY <1>5, <1>6, FlushedCuts DEF n
<1> QED BY <1>5, <1>7 DEF PlanTransport, filled

-----------------------------------------------------------------------------
(* plan_compute.                                                             *)

LEMMA QuotientIs ==
  ASSUME NEW n \in Nat, NEW s \in Nat \ {0}
  PROVE  n \div s \in Nat /\ (n \div s) * s <= n /\ n < (n \div s) * s + s
OBVIOUS

LEMMA ProductGrows ==
  ASSUME NEW a \in Nat, NEW b \in Nat, a <= b, NEW s \in Nat
  PROVE  a * s <= b * s
OBVIOUS

IsCapability(capability) ==
  /\ capability.real_batch \in BOOLEAN
  /\ capability.max_compute_batch \in Nat /\ capability.per_item_vram \in Nat

LEMMA ComputeSizeIs ==
  ASSUME NEW capability, IsCapability(capability)
  PROVE  /\ ComputeSize(capability) \in Nat \ {0}
         /\ \A m \in Nat \ {0, 1} :
              m <= ComputeSize(capability) => FitsDevice(m, capability)
<1> DEFINE v == capability.per_item_vram
           max == capability.max_compute_batch
<1>1. DeviceVram \in Nat /\ v \in Nat /\ max \in Nat
  BY BudgetAssumption DEF IsCapability
<1>2. CASE ~capability.real_batch
  BY <1>2 DEF ComputeSize
<1>3. CASE capability.real_batch /\ ~(v # 0 /\ DeviceVram # 0)
  <2>1. ComputeSize(capability) = MaxOf(1, max)
    BY <1>3 DEF ComputeSize
  <2> HIDE DEF v, max
  <2>2. MaxOf(1, max) \in Nat \ {0} /\ \A m \in Nat \ {0, 1} : m <= MaxOf(1, max) => m <= max
    BY <1>1 DEF MaxOf
  <2>3. ASSUME NEW m \in Nat \ {0, 1}, m <= MaxOf(1, max) PROVE FitsDevice(m, capability)
    <3>1. DeviceVram = 0 \/ m * v <= DeviceVram
      BY <1>1, <1>3
    <3> QED BY <1>3, <2>2, <2>3, <3>1 DEF FitsDevice, v, max
  <2> QED BY <2>1, <2>2, <2>3
<1>4. CASE capability.real_batch /\ v # 0 /\ DeviceVram # 0
  <2> DEFINE q == DeviceVram \div v
             size == MinOf(MaxOf(1, max), MaxOf(1, q))
  <2>1. ComputeSize(capability) = size
    BY <1>4 DEF ComputeSize
  <2> HIDE DEF v, max
  <2>2. q \in Nat /\ q * v <= DeviceVram
    BY <1>1, <1>4, QuotientIs
  <2> HIDE DEF q
  <2>3. size \in Nat \ {0} /\ \A m \in Nat \ {0, 1} : m <= size => m <= max /\ m <= q
    BY <1>1, <2>2 DEF MaxOf, MinOf
  <2> HIDE DEF size
  <2>4. ASSUME NEW m \in Nat \ {0, 1}, m <= size PROVE FitsDevice(m, capability)
    <3>1. m <= max /\ m <= q
      BY <2>3, <2>4
    <3>2. m * v <= q * v
      BY <1>1, <2>2, <3>1, ProductGrows
    <3>3. m * v \in Nat /\ q * v \in Nat
      BY <1>1, <2>2
    <3>4. m * v <= DeviceVram
      BY <1>1, <2>2, <3>2, <3>3
    <3> QED BY <1>4, <3>1, <3>4 DEF FitsDevice, v, max
  <2> QED BY <2>1, <2>3, <2>4
<1> QED BY <1>2, <1>3, <1>4 DEF IsCapability

LEMMA ComputeCuts ==
  ASSUME NEW b \in Interval, b.lo <= b.hi, NEW capability, IsCapability(capability)
  PROVE  /\ IsCut(PlanCompute(b, capability), b.lo, b.hi)
         /\ \A j \in DOMAIN PlanCompute(b, capability) :
              PlanCompute(b, capability)[j].hi - PlanCompute(b, capability)[j].lo + 1
                <= ComputeSize(capability)
<1> DEFINE size == ComputeSize(capability)
           s == PlanCompute(b, capability)
<1>1. PICK lo \in Nat, hi \in Nat : lo = b.lo /\ hi = b.hi /\ lo <= hi
  BY DEF Interval
<1>2. size \in Nat \ {0}
  BY ComputeSizeIs
<1> HIDE DEF size
<1> DEFINE q == (hi - lo) \div size
<1>3. hi - lo \in Nat /\ q \in Nat /\ q * size <= hi - lo /\ hi - lo < q * size + size
  <2>1. PICK n \in Nat : n = hi - lo
    BY <1>1
  <2>2. n \div size \in Nat /\ (n \div size) * size <= n /\ n < (n \div size) * size + size
    BY <1>2, QuotientIs
  <2>3. q = n \div size
    BY <2>1
  <2> HIDE DEF q
  <2> QED BY <2>1, <2>2, <2>3, Zenon
<1>4. s = [i \in 1 .. q + 1 |-> [lo |-> lo + (i - 1) * size,
                                 hi |-> MinOf(lo + i * size - 1, hi)]]
  BY <1>1 DEF PlanCompute, size
<1> HIDE DEF q, s
<1>5. DOMAIN s = 1 .. q + 1
  BY <1>4
<1>6. ASSUME NEW i \in 1 .. q + 1
      PROVE  /\ s[i].lo = lo + (i - 1) * size /\ s[i].hi = MinOf(lo + i * size - 1, hi)
             /\ (i - 1) * size \in Nat /\ i * size = (i - 1) * size + size
             /\ (i - 1) * size <= hi - lo
             /\ s[i] = [lo |-> s[i].lo, hi |-> s[i].hi]
  <2>1. i - 1 \in Nat /\ i \in Nat /\ i - 1 <= q
    BY <1>3
  <2>2. (i - 1) * size <= q * size
    BY <1>2, <1>3, <2>1, ProductGrows
  <2>3. (i - 1) * size \in Nat /\ i * size = (i - 1) * size + size /\ q * size \in Nat
    BY <1>2, <1>3, <2>1
  <2>4. (i - 1) * size <= hi - lo
    BY <1>3, <2>2, <2>3
  <2> QED BY <1>4, <2>3, <2>4
<1>7. ASSUME NEW i \in 1 .. q + 1
      PROVE  /\ s[i].lo \in Nat /\ s[i].hi \in Nat /\ lo <= s[i].lo /\ s[i].lo <= s[i].hi
             /\ s[i].hi <= hi /\ s[i].hi - s[i].lo + 1 <= size
  <2>1. PICK x, y : x = (i - 1) * size /\ y = i * size
    OBVIOUS
  <2>2. /\ x \in Nat /\ y = x + size /\ x <= hi - lo
        /\ s[i].lo = lo + x /\ s[i].hi = MinOf(lo + y - 1, hi)
    BY <1>6, <2>1
  <2> QED BY <1>1, <1>2, <2>2 DEF MinOf
<1>8. s \in Seq(Interval)
  <2>1. ASSUME NEW i \in 1 .. q + 1 PROVE s[i] \in Interval
    <3>1. PICK x, y : x = s[i].lo /\ y = s[i].hi
      OBVIOUS
    <3>2. s[i] = [lo |-> x, hi |-> y] /\ x \in Nat /\ y \in Nat
      BY <1>6, <1>7, <3>1
    <3> QED BY <3>2 DEF Interval
  <2>2. s \in [1 .. q + 1 -> Interval]
    BY <1>4, <2>1
  <2>3. q + 1 \in Nat
    BY <1>3
  <2> QED BY <2>2, <2>3, FunctionIsSeq
<1>9. ASSUME NEW j \in 1 .. q + 1, NEW k \in 1 .. q + 1, j < k
      PROVE  s[j].hi < s[k].lo
  <2>1. j \in Nat /\ k - 1 \in Nat /\ j <= k - 1
    BY <1>3, <1>9
  <2>2. j * size <= (k - 1) * size
    BY <1>2, <2>1, ProductGrows
  <2>3. PICK x, y, z : x = j * size /\ y = (k - 1) * size /\ z = (j - 1) * size
    OBVIOUS
  <2>4. /\ x \in Nat /\ y \in Nat /\ x <= y
        /\ s[j].hi = MinOf(lo + x - 1, hi) /\ s[k].lo = lo + y
    <3>1. s[j].hi = MinOf(lo + x - 1, hi)
      BY <1>6, <2>3
    <3>2. s[k].lo = lo + y /\ y \in Nat
      BY <1>6, <2>3
    <3>3. x \in Nat
      BY <1>2, <2>1, <2>3
    <3> QED BY <2>2, <2>3, <3>1, <3>2, <3>3
  <2> QED BY <1>1, <2>4 DEF MinOf
<1>10. ASSUME NEW x \in lo .. hi PROVE \E i \in 1 .. q + 1 : x \in Span(s[i])
  <2> DEFINE r == (x - lo) \div size
  <2>1. x - lo \in Nat /\ x - lo <= hi - lo
    BY <1>1
  <2>2. r \in Nat /\ r * size <= x - lo /\ x - lo < r * size + size
    BY <1>2, <2>1, QuotientIs
  <2> HIDE DEF r
  <2>3. r <= q
    <3> SUFFICES ASSUME q + 1 <= r PROVE FALSE
      BY <1>3, <2>2
    <3>1. (q + 1) * size <= r * size
      BY <1>2, <1>3, <2>2, ProductGrows
    <3>2. (q + 1) * size = q * size + size /\ q * size \in Nat /\ r * size \in Nat
      BY <1>2, <1>3, <2>2
    <3> QED BY <1>2, <1>3, <2>1, <2>2, <3>1, <3>2
  <2>4. r + 1 \in 1 .. q + 1 /\ (r + 1) - 1 = r
    BY <1>3, <2>2, <2>3
  <2>5. /\ s[r + 1].lo = lo + r * size /\ s[r + 1].hi = MinOf(lo + (r + 1) * size - 1, hi)
        /\ r * size \in Nat /\ (r + 1) * size = r * size + size
    BY <1>6, <2>4
  <2>6. PICK y, z : y = r * size /\ z = (r + 1) * size
    OBVIOUS
  <2>7. /\ y \in Nat /\ z = y + size /\ y <= x - lo /\ x - lo < y + size
        /\ s[r + 1].lo = lo + y /\ s[r + 1].hi = MinOf(lo + z - 1, hi)
    BY <2>2, <2>5, <2>6
  <2>8. s[r + 1].lo <= x /\ x <= s[r + 1].hi /\ s[r + 1].lo \in Nat /\ s[r + 1].hi \in Nat
    BY <1>1, <1>2, <2>7 DEF MinOf
  <2>9. x \in Span(s[r + 1])
    BY <1>1, <2>8 DEF Span
  <2> QED BY <2>4, <2>9
<1>11. IsCut(s, lo, hi)
  BY <1>5, <1>7, <1>8, <1>9, <1>10 DEF IsCut
<1> QED BY <1>1, <1>5, <1>7, <1>11 DEF s, size

\* f has what the first sequences give, and flat is what all of them do.
IsFlattened(flat, seqs, n, Elem) ==
  \E f \in [0 .. n -> Seq(Elem)] :
     /\ f[0] = <<>> /\ \A k \in 1 .. n : f[k] = f[k - 1] \o seqs[k]
     /\ flat = f[n]

LEMMA FlattenIs ==
  ASSUME NEW Elem, NEW n \in Nat \ {0}, NEW seqs, seqs \in [1 .. n -> Seq(Elem)]
  PROVE  IsFlattened(FlattenSeq(seqs), seqs, n, Elem)
<1> DEFINE step == [k \in 1 .. n |-> [s \in Seq(Elem) |-> s \o seqs[k]]]
<1>1. step \in [1 .. n -> [Seq(Elem) -> Seq(Elem)]]
  OBVIOUS
<1>2. <<>> \in Seq(Elem)
  OBVIOUS
<1> HIDE DEF step
<1>3. PICK f \in [0 .. n -> Seq(Elem)] : f[0] = <<>> /\ \A k \in 1 .. n : f[k] = step[k][f[k - 1]]
  <2>1. PICK Q, empty : Q = Seq(Elem) /\ empty = <<>>
    OBVIOUS
  <2>2. n \in Nat /\ step \in [1 .. n -> [Q -> Q]] /\ empty \in Q
    BY <1>1, <1>2, <2>1
  <2>3. \E f \in [0 .. n -> Q] : f[0] = empty /\ \A k \in 1 .. n : f[k] = step[k][f[k - 1]]
    BY ONLY <2>2, Iteration
  <2> QED BY <2>1, <2>3
<1>4. ASSUME NEW k \in 1 .. n PROVE f[k] = f[k - 1] \o seqs[k]
  <2>1. f[k] = step[k][f[k - 1]]
    BY <1>3
  <2>2. k - 1 \in 0 .. n
    OBVIOUS
  <2>3. f[k - 1] \in Seq(Elem)
    BY <2>2
  <2> QED BY <2>1, <2>3 DEF step
<1>5. seqs \in Seq(Seq(Elem)) /\ Len(seqs) = n
  BY FunctionIsSeq
<1> DEFINE g == [k \in 1 .. n |-> f[k]]
<1>6. ASSUME NEW k \in 1 .. n PROVE g[k] = IF k = 1 THEN seqs[k] ELSE g[k - 1] \o seqs[k]
  <2>1. CASE k = 1
    <3>1. f[1] = <<>> \o seqs[1] /\ seqs[1] \in Seq(Elem)
      <4>1. 1 \in 1 .. n /\ 1 - 1 = 0
        OBVIOUS
      <4>2. f[1] = f[1 - 1] \o seqs[1]
        BY <1>4, <4>1
      <4> QED BY <1>3, <4>1, <4>2
    <3>2. <<>> \o seqs[1] = seqs[1]
      BY <3>1
    <3> QED BY <2>1, <3>1, <3>2
  <2>2. CASE k # 1
    <3>1. k - 1 \in 1 .. n
      BY <2>2
    <3> QED BY <1>4, <2>2, <3>1
  <2> QED BY <2>1, <2>2
<1>7. g = [k \in 1 .. n |-> IF k = 1 THEN seqs[k] ELSE g[k - 1] \o seqs[k]]
  BY <1>6
<1> HIDE DEF g
<1> DEFINE flatten == CHOOSE h : h = [i \in 1 .. Len(seqs) |-> IF i = 1 THEN seqs[i]
                                                             ELSE h[i - 1] \o seqs[i]]
<1>8. flatten = [i \in 1 .. n |-> IF i = 1 THEN seqs[i] ELSE flatten[i - 1] \o seqs[i]]
  <2>1. \E h : h = [i \in 1 .. Len(seqs) |-> IF i = 1 THEN seqs[i] ELSE h[i - 1] \o seqs[i]]
    BY <1>5, <1>7, Zenon
  <2>2. flatten = [i \in 1 .. Len(seqs) |-> IF i = 1 THEN seqs[i] ELSE flatten[i - 1] \o seqs[i]]
    BY <2>1, Zenon
  <2> QED BY <1>5, <2>2, Zenon
<1>9. FlattenSeq(seqs) = flatten[n]
  <2>1. Len(seqs) # 0
    BY <1>5
  <2>2. FlattenSeq(seqs) = flatten[Len(seqs)]
    BY <2>1, Zenon DEF FlattenSeq
  <2> QED BY <1>5, <2>2, Zenon
<1> HIDE DEF flatten
<1> DEFINE T == {k \in 0 .. n : k # 0 => flatten[k] = f[k]}
<1>10. ASSUME NEW k \in 0 .. n - 1, k \in T PROVE k + 1 \in T
  <2>1. k + 1 \in 1 .. n /\ k + 1 \in 0 .. n /\ (k + 1) - 1 = k
    OBVIOUS
  <2>2. flatten[k + 1] = IF k + 1 = 1 THEN seqs[k + 1] ELSE flatten[(k + 1) - 1] \o seqs[k + 1]
    BY <1>8, <2>1
  <2>3. f[k + 1] = f[(k + 1) - 1] \o seqs[k + 1]
    BY <1>4, <2>1
  <2>4. CASE k = 0
    <3>1. f[1] = <<>> \o seqs[1] /\ seqs[1] \in Seq(Elem)
      <4>1. k + 1 = 1 /\ (k + 1) - 1 = 0 /\ 1 \in 1 .. n
        BY <2>1, <2>4
      <4>2. f[1] = f[0] \o seqs[1]
        BY <2>3, <4>1
      <4> QED BY <1>3, <4>1, <4>2
    <3>2. <<>> \o seqs[1] = seqs[1]
      BY <3>1
    <3> QED BY <2>1, <2>2, <2>4, <3>1, <3>2
  <2>5. CASE k # 0
    <3>1. flatten[k] = f[k]
      BY <1>10, <2>5
    <3>2. k + 1 # 1
      BY <2>5
    <3>3. flatten[k + 1] = flatten[k] \o seqs[k + 1]
      BY <2>1, <2>2, <3>2
    <3>4. f[k + 1] = f[k] \o seqs[k + 1]
      BY <2>1, <2>3
    <3> QED BY <2>1, <3>1, <3>3, <3>4
  <2> QED BY <2>4, <2>5
<1>11. n \in T
  <2>1. 0 \in T
    OBVIOUS
  <2> HIDE DEF T
  <2>2. 0 .. n \subseteq T
    BY <1>10, <2>1, UpTo
  <2> QED BY <2>2
<1> QED BY <1>3, <1>4, <1>9, <1>11 DEF IsFlattened

-----------------------------------------------------------------------------
(* The compute batches.                                                      *)

\* Each batch of a cut begins where the one before it ends.
LEMMA CutIsGapless ==
  ASSUME NEW x \in Nat, NEW y \in Nat, NEW s, IsCut(s, x, y), NEW m \in Nat, DOMAIN s = 1 .. m
  PROVE  /\ m = 0 => y < x
         /\ m # 0 => s[1].lo = x /\ s[m].hi = y
         /\ \A k \in 1 .. m - 1 : s[k + 1].lo = s[k].hi + 1
<1>1. \A j \in 1 .. m : /\ s[j].lo \in Nat /\ s[j].hi \in Nat
                        /\ x <= s[j].lo /\ s[j].lo <= s[j].hi /\ s[j].hi <= y
  <2>1. ASSUME NEW j \in 1 .. m PROVE s[j] \in Interval
    BY SeqIsFunction DEF IsCut
  <2> QED BY <2>1 DEF IsCut, Interval
<1>2. \A j, k \in 1 .. m : j < k => s[j].hi < s[k].lo
  BY DEF IsCut
<1>3. ASSUME NEW i \in x .. y PROVE \E j \in 1 .. m : s[j].lo <= i /\ i <= s[j].hi
  <2>1. PICK j \in 1 .. m : i \in Span(s[j])
    BY DEF IsCut
  <2>2. s[j].lo \in Nat /\ s[j].hi \in Nat
    BY <1>1
  <2>3. s[j].lo <= i /\ i <= s[j].hi
    BY <2>1, <2>2 DEF Span
  <2> QED BY <2>3
<1>4. m = 0 => y < x
  BY <1>3
<1>5. ASSUME m # 0 PROVE s[1].lo = x
  <2>1. 1 \in 1 .. m
    BY <1>5
  <2>2. PICK j \in 1 .. m : s[j].lo <= x /\ x <= s[j].hi
    <3>1. x \in x .. y
      BY <1>1, <2>1
    <3> QED BY <1>3, <3>1
  <2>3. j = 1 \/ s[1].hi < s[j].lo
    BY <1>2, <2>1
  <2>4. /\ s[1].lo \in Nat /\ s[1].hi \in Nat /\ s[j].lo \in Nat /\ s[j].hi \in Nat
        /\ x <= s[1].lo /\ s[1].lo <= s[1].hi
    BY <1>1, <2>1
  <2> QED BY <2>2, <2>3, <2>4
<1>6. ASSUME m # 0 PROVE s[m].hi = y
  <2>1. m \in 1 .. m
    BY <1>6
  <2>2. PICK j \in 1 .. m : s[j].lo <= y /\ y <= s[j].hi
    <3>1. y \in x .. y
      BY <1>1, <2>1
    <3> QED BY <1>3, <3>1
  <2>3. j = m \/ s[j].hi < s[m].lo
    BY <1>2, <2>1
  <2>4. /\ s[m].lo \in Nat /\ s[m].hi \in Nat /\ s[j].lo \in Nat /\ s[j].hi \in Nat
        /\ s[m].hi <= y /\ s[m].lo <= s[m].hi
    BY <1>1, <2>1
  <2> QED BY <2>2, <2>3, <2>4
<1>7. ASSUME NEW k \in 1 .. m - 1 PROVE s[k + 1].lo = s[k].hi + 1
  <2>1. PICK l \in 1 .. m : l = k + 1 /\ k \in 1 .. m /\ k < l
    OBVIOUS
  <2>2. /\ s[l].lo \in Nat /\ s[l].hi \in Nat /\ s[k].lo \in Nat /\ s[k].hi \in Nat
        /\ s[k].lo <= s[k].hi /\ s[l].lo <= s[l].hi /\ x <= s[k].lo /\ s[l].hi <= y
        /\ s[k].hi < s[l].lo
    BY <1>1, <1>2, <2>1
  <2> SUFFICES ASSUME s[k].hi + 1 < s[l].lo PROVE FALSE
    BY <2>1, <2>2
  <2>3. PICK j \in 1 .. m : s[j].lo <= s[k].hi + 1 /\ s[k].hi + 1 <= s[j].hi
    <3>1. s[k].hi + 1 \in x .. y
      BY <2>2, SMTT(30)
    <3> QED BY <1>3, <3>1
  <2>4. s[j].lo \in Nat /\ s[j].hi \in Nat
    BY <1>1
  <2>5. CASE j < k
    <3>1. s[j].hi < s[k].lo
      BY <1>2, <2>1, <2>5
    <3> QED BY <2>2, <2>3, <2>4, <3>1
  <2>6. CASE j = k \/ j = l
    BY <2>2, <2>3, <2>6
  <2>7. CASE l < j
    <3>1. s[l].hi < s[j].lo
      BY <1>2, <2>7
    <3> QED BY <2>2, <2>3, <2>4, <3>1, SMTT(30)
  <2> QED BY <2>1, <2>5, <2>6, <2>7
<1> QED BY <1>4, <1>5, <1>6, <1>7

\* The parts of a batch that one request carries.
LEMMA PartsFit ==
  ASSUME NEW items, Len(items) \in Nat, Weighed(items), NEW capability, IsCapability(capability),
         NEW b \in Interval, 1 <= b.lo, b.lo <= b.hi, b.hi <= Len(items), Carried(items, b),
         NEW j \in DOMAIN PlanCompute(b, capability)
  PROVE  Fits(items, PlanCompute(b, capability)[j].lo, PlanCompute(b, capability)[j].hi, capability)
<1>1. PICK p : p = PlanCompute(b, capability)[j]
  OBVIOUS
<1>2. /\ p \in Interval /\ b.lo <= p.lo /\ p.lo <= p.hi /\ p.hi <= b.hi
      /\ p.hi - p.lo + 1 <= ComputeSize(capability)
  <2>1. /\ IsCut(PlanCompute(b, capability), b.lo, b.hi)
        /\ \A i \in DOMAIN PlanCompute(b, capability) :
              PlanCompute(b, capability)[i].hi - PlanCompute(b, capability)[i].lo + 1
                <= ComputeSize(capability)
    BY ComputeCuts
  <2>2. PlanCompute(b, capability) \in Seq(Interval)
    BY <2>1 DEF IsCut
  <2>3. PlanCompute(b, capability)[j] \in Interval
    BY <2>2, SeqIsFunction
  <2> QED BY <1>1, <2>1, <2>3 DEF IsCut
<1>3. PICK lo, hi, x, y : lo = b.lo /\ hi = b.hi /\ x = p.lo /\ y = p.hi
  OBVIOUS
<1>4. /\ lo \in 1 .. Len(items) /\ hi \in 1 .. Len(items)
      /\ x \in lo .. hi /\ y \in lo .. hi /\ x <= y
      /\ y - x + 1 <= ComputeSize(capability)
  BY <1>2, <1>3 DEF Interval
<1>5. CASE x = y
  BY <1>1, <1>3, <1>5 DEF Fits
<1>6. CASE x # y
  <2>1. FitsRequest(items, lo, hi)
    BY <1>3, <1>4, <1>6 DEF Carried
  <2>2. FitsRequest(items, x, y)
    BY <1>4, <2>1, PartFitsRequest
  <2>3. y - x + 1 \in Nat \ {0, 1}
    BY <1>4, <1>6
  <2>4. FitsDevice(y - x + 1, capability)
    BY <1>4, <2>3, ComputeSizeIs
  <2> QED BY <1>1, <1>3, <2>2, <2>4 DEF Fits
<1> QED BY <1>5, <1>6

\* The plan of any files takes each of them once, in their order, and each of its compute
\* batches is one that a request and the device have room for, or a single file
\* (supervisor/inference/budget.py); so plans of staged files are what the recovery
\* assumes of its plans.
THEOREM PlansAreComplete ==
  ASSUME NEW items, Len(items) \in Nat, Weighed(items), NEW capability, IsCapability(capability)
  PROVE  /\ IsCut(ComputeBatches(items, capability), 1, Len(items))
         /\ \A j \in DOMAIN ComputeBatches(items, capability) :
              Fits(items, ComputeBatches(items, capability)[j].lo,
                   ComputeBatches(items, capability)[j].hi, capability)
<1> DEFINE n == Len(items)
           t == PlanTransport(items)
           parts == [i \in DOMAIN t |-> PlanCompute(t[i], capability)]
           AllFit(s) == \A j \in DOMAIN s : Fits(items, s[j].lo, s[j].hi, capability)
<1>1. IsCut(t, 1, n) /\ \A j \in DOMAIN t : Carried(items, t[j])
  BY TransportIs
<1> HIDE DEF t
<1>2. PICK m \in Nat : DOMAIN t = 1 .. m /\ \A j \in 1 .. m : t[j] \in Interval
  BY <1>1, SeqIsFunction DEF IsCut
<1>3. /\ m = 0 => n < 1
      /\ m # 0 => t[1].lo = 1 /\ t[m].hi = n
      /\ \A k \in 1 .. m - 1 : t[k + 1].lo = t[k].hi + 1
  <2> HIDE DEF n
  <2>1. n \in Nat /\ 1 \in Nat
    BY DEF n
  <2> QED BY <1>1, <1>2, <2>1, CutIsGapless
<1>4. \A j \in 1 .. m : /\ t[j].lo \in Nat /\ t[j].hi \in Nat
                        /\ 1 <= t[j].lo /\ t[j].lo <= t[j].hi /\ t[j].hi <= n
  BY <1>1, <1>2 DEF IsCut, Interval
<1>5. \A j \in 1 .. m : IsCut(parts[j], t[j].lo, t[j].hi)
  BY <1>2, <1>4, ComputeCuts
<1>6. \A j \in 1 .. m : AllFit(parts[j])
  <2> SUFFICES ASSUME NEW j \in 1 .. m, NEW i \in DOMAIN parts[j]
               PROVE  Fits(items, parts[j][i].lo, parts[j][i].hi, capability)
    OBVIOUS
  <2>1. parts[j] = PlanCompute(t[j], capability)
    BY <1>2
  <2>2. Carried(items, t[j]) /\ t[j] \in Interval
    BY <1>1, <1>2
  <2>3. 1 <= t[j].lo /\ t[j].lo <= t[j].hi /\ t[j].hi <= Len(items)
    BY <1>4
  <2> HIDE DEF parts
  <2> QED BY <2>1, <2>2, <2>3, PartsFit
<1>7. ComputeBatches(items, capability) = FlattenSeq(parts)
  BY DEF ComputeBatches, t
<1>8. parts \in [1 .. m -> Seq(Interval)]
  BY <1>2, <1>5 DEF IsCut
<1> HIDE DEF parts
<1>9. CASE m = 0
  <2>1. parts = <<>>
    BY <1>8, <1>9
  <2>2. FlattenSeq(parts) = <<>>
    BY <2>1 DEF FlattenSeq
  <2>3. IsCut(<<>>, 1, n)
    BY <1>3, <1>9 DEF IsCut
  <2> QED BY <1>7, <2>2, <2>3
<1>10. CASE m # 0
  <2>1. PICK flat \in [0 .. m -> Seq(Interval)] :
           /\ flat[0] = <<>> /\ \A k \in 1 .. m : flat[k] = flat[k - 1] \o parts[k]
           /\ FlattenSeq(parts) = flat[m]
    <3>1. m \in Nat \ {0}
      BY <1>10
    <3>2. PICK Elem : Elem = Interval
      OBVIOUS
    <3>3. parts \in [1 .. m -> Seq(Elem)]
      BY <1>8, <3>2
    <3>4. IsFlattened(FlattenSeq(parts), parts, m, Elem)
      BY <3>1, <3>3, FlattenIs
    <3> QED BY <3>2, <3>4 DEF IsFlattened
  <2> DEFINE end(k) == IF k = 0 THEN 0 ELSE t[k].hi
             T == {k \in 0 .. m : IsCut(flat[k], 1, end(k)) /\ AllFit(flat[k])}
  <2>2. 0 \in T
    BY <2>1 DEF IsCut
  <2>3. ASSUME NEW k \in 0 .. m - 1, k \in T PROVE k + 1 \in T
    <3>1. PICK l \in 1 .. m : l = k + 1 /\ l - 1 = k
      OBVIOUS
    <3>2. flat[l] = flat[k] \o parts[l]
      BY <2>1, <3>1
    <3>3. PICK y \in Nat : y = end(k) /\ t[l].lo = y + 1
      <4>1. CASE k = 0
        BY <1>3, <1>10, <3>1, <4>1
      <4>2. CASE k # 0
        <5>1. k \in 1 .. m - 1 /\ k \in 1 .. m
          BY <4>2
        <5>2. t[k + 1].lo = t[k].hi + 1 /\ t[k].hi \in Nat
          BY <1>3, <1>4, <5>1
        <5> QED BY <3>1, <4>2, <5>2
      <4> QED BY <4>1, <4>2
    <3>4. PICK z \in Nat : z = t[l].hi /\ z = end(l) /\ 1 <= y + 1 /\ y <= z
      <4>1. /\ t[l].lo \in Nat /\ t[l].hi \in Nat /\ 1 <= t[l].lo /\ t[l].lo <= t[l].hi
        BY <1>4
      <4>2. end(l) = t[l].hi
        BY <3>1
      <4> HIDE DEF end
      <4> QED BY <3>3, <4>1, <4>2, SMTT(30)
    <3>5. PICK a, b : a = flat[k] /\ b = parts[l]
      OBVIOUS
    <3>6. IsCut(a, 1, y) /\ IsCut(b, y + 1, z) /\ AllFit(a) /\ AllFit(b)
      BY <1>5, <1>6, <2>3, <3>3, <3>4, <3>5
    <3> HIDE DEF AllFit
    <3>7. IsCut(a \o b, 1, z) /\ Joined(a \o b, a, b)
      <4>1. 1 \in Nat /\ y \in Nat /\ z \in Nat /\ 1 <= y + 1 /\ y <= z
            /\ IsCut(a, 1, y) /\ IsCut(b, y + 1, z)
        BY <3>4, <3>6
      <4> QED BY ONLY <4>1, CutsJoin
    <3>8. AllFit(a \o b)
      BY <3>6, <3>7 DEF AllFit, Joined
    <3>9. flat[l] = a \o b /\ end(l) = z /\ l \in 0 .. m
      BY <3>2, <3>4, <3>5
    <3>10. IsCut(flat[l], 1, end(l)) /\ AllFit(flat[l])
      BY <3>7, <3>8, <3>9
    <3> HIDE DEF end
    <3>11. l \in T
      BY <3>9, <3>10
    <3> QED BY <3>1, <3>11
  <2>4. m \in T
    <3> HIDE DEF T
    <3>1. 0 .. m \subseteq T
      BY <2>2, <2>3, UpTo
    <3> QED BY <3>1
  <2>5. end(m) = n
    BY <1>3, <1>10
  <2> QED BY <1>7, <2>1, <2>4, <2>5
<1> QED BY <1>9, <1>10

-----------------------------------------------------------------------------
(* Halvings.                                                                 *)

LEMMA HalvedIs ==
  /\ Halved \in [0 .. N -> Nat] /\ Halved[0] = N
  /\ \A k \in 1 .. N : Halved[k] = (Halved[k - 1] + 1) \div 2
<1> DEFINE step == [k \in 1 .. N |-> [m \in Nat |-> (m + 1) \div 2]]
<1>1. step \in [1 .. N -> [Nat -> Nat]]
  OBVIOUS
<1> HIDE DEF step
<1>2. PICK f \in [0 .. N -> Nat] : f[0] = N /\ \A k \in 1 .. N : f[k] = step[k][f[k - 1]]
  <2>1. PICK numbers, n, first : numbers = Nat /\ n = N /\ first = N
    OBVIOUS
  <2>2. n \in Nat /\ first \in numbers /\ step \in [1 .. n -> [numbers -> numbers]]
    BY <1>1, <2>1, RecoveryAssumption
  <2>3. \E f \in [0 .. n -> numbers] : f[0] = first /\ \A k \in 1 .. n : f[k] = step[k][f[k - 1]]
    BY <2>2, Iteration
  <2> QED BY <2>1, <2>3
<1>3. \A k \in 0 .. N : f[k] = IF k = 0 THEN N ELSE (f[k - 1] + 1) \div 2
  <2> SUFFICES ASSUME NEW k \in 0 .. N, k # 0 PROVE f[k] = (f[k - 1] + 1) \div 2
    BY <1>2
  <2>1. k \in 1 .. N /\ k - 1 \in 0 .. N
    BY RecoveryAssumption
  <2>2. f[k - 1] \in Nat /\ f[k] = step[k][f[k - 1]]
    BY <1>2, <2>1
  <2> QED BY <2>1, <2>2 DEF step
<1>4. f = [k \in 0 .. N |-> IF k = 0 THEN N ELSE (f[k - 1] + 1) \div 2]
  BY <1>2, <1>3
<1>5. Halved = [k \in 0 .. N |-> IF k = 0 THEN N ELSE (Halved[k - 1] + 1) \div 2]
  BY <1>4, Zenon DEF Halved
<1>6. Halved[0] = N /\ \A k \in 1 .. N : Halved[k] = (Halved[k - 1] + 1) \div 2
  <2>1. \A k \in 0 .. N : Halved[k] = IF k = 0 THEN N ELSE (Halved[k - 1] + 1) \div 2
    BY <1>5, Zenon
  <2> QED BY <2>1, RecoveryAssumption
<1>7. 0 .. N \subseteq {k \in 0 .. N : Halved[k] \in Nat}
  <2> DEFINE T == {k \in 0 .. N : Halved[k] \in Nat}
  <2>1. N \in Nat /\ 0 \in T
    BY <1>6, RecoveryAssumption
  <2>2. ASSUME NEW k \in 0 .. N - 1, k \in T PROVE k + 1 \in T
    <3>1. k + 1 \in 1 .. N /\ (k + 1) - 1 = k /\ k + 1 \in 0 .. N
      BY <2>1
    <3>2. Halved[k + 1] = (Halved[(k + 1) - 1] + 1) \div 2
      BY <1>6, <3>1
    <3>3. Halved[k + 1] = (Halved[k] + 1) \div 2 /\ Halved[k] \in Nat
      BY <2>2, <3>1, <3>2
    <3>4. Halved[k + 1] \in Nat
      BY <3>3
    <3> QED BY <3>1, <3>4
  <2> HIDE DEF T
  <2> QED BY <2>1, <2>2, UpTo DEF T
<1> QED BY <1>5, <1>6, <1>7

LEMMA HalvingsIs ==
  /\ Halvings \in 0 .. N /\ Halved[Halvings] = 1
  /\ \A k \in 0 .. Halvings - 1 : Halved[k] > 1
<1> DEFINE T == {k \in 0 .. N : Halved[k] >= 1 /\ Halved[k] <= Upper(1, N - k)}
<1>1. N \in Nat \ {0}
  BY RecoveryAssumption
<1>2. 0 \in T
  BY <1>1, HalvedIs, SMTT(30) DEF Upper
<1>3. ASSUME NEW k \in 0 .. N - 1, k \in T PROVE k + 1 \in T
  <2>1. k + 1 \in 1 .. N /\ (k + 1) - 1 = k /\ k + 1 \in 0 .. N
    BY <1>1
  <2>2. Halved[k + 1] = (Halved[(k + 1) - 1] + 1) \div 2
    BY <2>1, HalvedIs
  <2>3. PICK x : x = Halved[k]
    OBVIOUS
  <2>4. /\ x \in Nat /\ x >= 1 /\ x <= Upper(1, N - k) /\ Halved[k + 1] = (x + 1) \div 2
    BY <1>3, <2>1, <2>2, <2>3, HalvedIs
  <2>5. (x + 1) \div 2 >= 1 /\ (x + 1) \div 2 <= Upper(1, N - (k + 1))
    BY <1>1, <2>4 DEF Upper
  <2> QED BY <2>1, <2>4, <2>5
<1>4. N \in T
  <2> HIDE DEF T
  <2>1. 0 .. N \subseteq T
    BY <1>1, <1>2, <1>3, UpTo
  <2> QED BY <1>1, <2>1
<1>5. Halved[N] = 1
  BY <1>1, <1>4, HalvedIs DEF Upper
<1> DEFINE Single == {h \in 0 .. N : Halved[h] <= 1}
<1>6. PICK h \in Single : \A k \in Single : h <= k
  <2>1. Single \in SUBSET Nat /\ N \in Single
    BY <1>1, <1>5
  <2> HIDE DEF Single
  <2> QED BY <2>1, LeastNumber
<1>7. ASSUME NEW k \in 0 .. h - 1 PROVE Halved[k] > 1
  <2>1. k \in 0 .. N /\ k \notin Single
    BY <1>1, <1>6
  <2> QED BY <2>1, HalvedIs
<1>8. Halved[h] = 1
  <2>1. CASE h = 0
    BY <1>1, <1>6, <2>1, HalvedIs
  <2>2. CASE h # 0
    <3>1. h - 1 \in 0 .. h - 1 /\ h \in 1 .. N /\ h - 1 \in 0 .. N
      <4>1. h \in 0 .. N
        OBVIOUS
      <4> QED BY <1>1, <2>2, <4>1
    <3>2. Halved[h - 1] > 1 /\ Halved[h] = (Halved[h - 1] + 1) \div 2 /\ Halved[h - 1] \in Nat
      BY <1>7, <3>1, HalvedIs
    <3>3. PICK x, y : x = Halved[h - 1] /\ y = Halved[h]
      OBVIOUS
    <3>4. x \in Nat /\ x > 1 /\ y = (x + 1) \div 2 /\ y <= 1
      BY <1>6, <3>2, <3>3
    <3> QED BY <3>3, <3>4
  <2> QED BY <2>1, <2>2
<1>9. \E l \in 0 .. N : Halved[l] = 1 /\ \A k \in 0 .. (l - 1) : Halved[k] > 1
  BY <1>6, <1>7, <1>8
<1> QED BY <1>9, Zenon DEF Halvings

-----------------------------------------------------------------------------
(* What the calls carry, and how many there are.                             *)

JobFits(lo, hi) == Fits(job.items, lo, hi, job.capability)

LEMMA PlannedJob ==
  ASSUME ArePlanned, job \in Plans
  PROVE  /\ Len(job.items) = N /\ Weighed(job.items) /\ IsCapability(job.capability)
         /\ job.batches = ComputeBatches(job.items, job.capability)
<1>1. PICK files \in [Items -> StagedFile], realBatch \in BOOLEAN, perItemVram \in Nat :
        job = PlanOf(files, Capability(realBatch, perItemVram))
  BY DEF ArePlanned
<1> DEFINE items == [k \in DOMAIN files |-> InputItem(files[k])]
<1>2. /\ job.items = items /\ job.capability = Capability(realBatch, perItemVram)
      /\ job.batches = ComputeBatches(job.items, job.capability)
  BY <1>1 DEF PlanOf
<1>3. DOMAIN files = 1 .. N /\ \A k \in 1 .. N : files[k] \in StagedFile
  BY DEF Items
<1>4. Len(items) = N
  <2>1. items \in [1 .. N -> {InputItem(files[k]) : k \in 1 .. N}]
    BY <1>3
  <2> HIDE DEF items
  <2> QED BY <2>1, FunctionIsSeq, RecoveryAssumption
<1>5. Weighed(items)
  <2> SUFFICES ASSUME NEW k \in 1 .. N, NEW d \in Dims PROVE items[k][d] \in Nat
    BY <1>4 DEF Weighed
  <2>1. items[k] = InputItem(files[k]) /\ files[k] \in StagedFile
    BY <1>3
  <2>2. d \in {"encoded_bytes", "decoded_pixels", "estimated_pages"}
    BY DEF Dims, Caps
  <2>3. files[k].bytes \in Nat /\ files[k].pixels \in Nat
    BY <2>1 DEF StagedFile
  <2>4. /\ InputItem(files[k])["encoded_bytes"] \in Nat
        /\ InputItem(files[k])["decoded_pixels"] \in Nat
        /\ InputItem(files[k])["estimated_pages"] \in Nat
    BY <2>3 DEF InputItem
  <2> QED BY <2>1, <2>2, <2>4
<1>6. IsCapability(Capability(realBatch, perItemVram))
  BY BudgetAssumption DEF IsCapability, Capability
<1> QED BY <1>2, <1>4, <1>5, <1>6

LEMMA JobPartFits ==
  ASSUME ArePlanned, job \in Plans, NEW lo \in Items, NEW hi \in Items, JobFits(lo, hi),
         NEW a \in lo .. hi, NEW b \in lo .. hi, a <= b
  PROVE  JobFits(a, b)
<1>1. PICK items, capability : items = job.items /\ capability = job.capability
  OBVIOUS
<1>2. /\ Len(items) = N /\ Weighed(items) /\ Fits(items, lo, hi, capability)
      /\ capability.max_compute_batch \in Nat /\ capability.per_item_vram \in Nat
  BY <1>1, PlannedJob DEF IsCapability, JobFits
<1>3. Len(items) \in Nat /\ lo \in 1 .. Len(items) /\ hi \in 1 .. Len(items)
  BY <1>2, RecoveryAssumption DEF Items
<1>4. Fits(items, a, b, capability)
  BY <1>2, <1>3, PartFits
<1> QED BY <1>1, <1>4 DEF JobFits

LEMMA InitBudget == ArePlanned /\ Init => BudgetInv
<1> SUFFICES ASSUME ArePlanned, Init PROVE BudgetInv
  OBVIOUS
<1>1. /\ job \in Plans /\ todo = job.batches /\ frames = {} /\ Begun = {} /\ InProgress = {}
      /\ calls = [i \in Items |-> 0]
  BY DEF Init, Begun, InProgress
<1>2. \A k \in DOMAIN todo : JobFits(todo[k].lo, todo[k].hi)
  <2>1. PICK items, capability : items = job.items /\ capability = job.capability
    OBVIOUS
  <2>2. /\ Len(items) \in Nat /\ Weighed(items) /\ IsCapability(capability)
        /\ todo = ComputeBatches(items, capability)
    BY <1>1, <2>1, PlannedJob, RecoveryAssumption
  <2>3. \A j \in DOMAIN ComputeBatches(items, capability) :
          Fits(items, ComputeBatches(items, capability)[j].lo,
               ComputeBatches(items, capability)[j].hi, capability)
    BY <2>2, PlansAreComplete
  <2> QED BY <2>1, <2>2, <2>3 DEF JobFits
<1>3. CallsAreBounded
  <2>1. MaxRetries \in Nat /\ Halvings \in Nat
    BY HalvingsIs, RecoveryAssumption DEF MaxRetries, Upper
  <2> QED BY <1>1, <2>1 DEF CallsAreBounded
<1> QED BY <1>1, <1>2, <1>3 DEF BudgetInv, JobFits

LEMMA DecisionIsBounded ==
  ASSUME NEW f \in Frame, f.attempt <= MaxRetries,
         NEW failure \in FailureClasses \cup {"cancelled"}
  PROVE  LET d == Decision(f, failure) IN
         /\ d.attempt \in Nat /\ d.attempt <= MaxRetries
         /\ d.action = "bisect" => d.attempt = f.attempt
         /\ d.action \in {"shrink", "backoff"} => d.attempt = f.attempt + 1
<1>1. /\ f.attempt \in Nat /\ MaxOomRetries \in Nat /\ MaxTransientRetries \in Nat
      /\ MaxRetries \in Nat /\ 1 <= MaxRetries /\ MaxOomRetries <= MaxRetries
      /\ MaxTransientRetries <= MaxRetries
  BY RecoveryAssumption DEF Frame, MaxRetries, Upper
<1> DEFINE Bounded(d) == /\ d.attempt \in Nat /\ d.attempt <= MaxRetries
                         /\ d.action = "bisect" => d.attempt = f.attempt
                         /\ d.action \in {"shrink", "backoff"} => d.attempt = f.attempt + 1
<1>2. Bounded(FailFast(f))
  BY <1>1 DEF FailFast
<1>3. Bounded(OnOom(f))
  <2>1. CASE f.attempt >= MaxOomRetries
    BY <1>2, <2>1 DEF OnOom
  <2>2. CASE ~(f.attempt >= MaxOomRetries)
    <3>1. OnOom(f) = [action |-> "shrink", attempt |-> f.attempt + 1, delay |-> 0]
      BY <2>2 DEF OnOom
    <3> QED BY <1>1, <2>2, <3>1
  <2> QED BY <2>1, <2>2
<1>4. Bounded(OnTransient(f))
  <2>1. CASE f.attempt >= MaxTransientRetries \/ elapsed + Delay(f.attempt) > TotalBudget
    BY <1>2, <2>1 DEF OnTransient
  <2>2. CASE ~(f.attempt >= MaxTransientRetries \/ elapsed + Delay(f.attempt) > TotalBudget)
    <3>1. OnTransient(f) = [action |-> "backoff", attempt |-> f.attempt + 1,
                            delay |-> Delay(f.attempt)]
      BY <2>2 DEF OnTransient
    <3> QED BY <1>1, <2>2, <3>1
  <2> QED BY <2>1, <2>2
<1>5. Bounded(OnUnknown(f))
  <2>1. CASE f.attempt >= 1
    BY <1>2, <2>1 DEF OnUnknown
  <2>2. CASE ~(f.attempt >= 1)
    <3>1. OnUnknown(f) = [action |-> "backoff", attempt |-> f.attempt + 1, delay |-> BaseDelay]
      BY <2>2 DEF OnUnknown
    <3> QED BY <1>1, <2>2, <3>1
  <2> QED BY <2>1, <2>2
<1>6. Bounded([action |-> "bisect", attempt |-> f.attempt, delay |-> 0])
  BY <1>1
<1>7. Decision(f, failure) \in {FailFast(f), OnOom(f), OnTransient(f), OnUnknown(f),
                                [action |-> "bisect", attempt |-> f.attempt, delay |-> 0]}
  BY DEF Decision, FailureClasses
<1> HIDE DEF Bounded
<1>8. Bounded(Decision(f, failure))
  BY <1>2, <1>3, <1>4, <1>5, <1>6, <1>7
<1> QED BY <1>8 DEF Bounded

LEMMA HalvingTyped ==
  ASSUME NEW h \in 0 .. Halvings
  PROVE  Halvings \in 0 .. N /\ N \in Nat /\ h \in 0 .. N /\ Halved[h] \in Nat
<1>1. N \in Nat /\ Halvings \in 0 .. N
  BY HalvingsIs, RecoveryAssumption
<1>2. h \in 0 .. N
  BY <1>1
<1> QED BY <1>1, <1>2, HalvedIs

\* A batch that is halved has earned a call more, and so has one that is retried.
LEMMA HalfHasEarned ==
  ASSUME NEW f \in Frame, NEW g \in Frame, NEW n \in Int, Earned(f, n - 1), 1 < Size(f),
         Size(g) <= (Size(f) + 1) \div 2, g.attempt = f.attempt
  PROVE  Earned(g, n)
<1>1. PICK h \in 0 .. Halvings : Size(f) <= Halved[h] /\ n - 1 <= f.attempt + h
  BY DEF Earned
<1>2. /\ Halvings \in 0 .. N /\ N \in Nat /\ h \in 0 .. N /\ Halved[h] \in Nat
      /\ Size(f) \in Int /\ Size(g) \in Int /\ f.attempt \in Nat
  <2>1. Size(f) \in Int /\ Size(g) \in Int /\ f.attempt \in Nat
    BY DEF Size, Frame, Items
  <2> QED BY <2>1, HalvingTyped
<1>3. h # Halvings
  BY <1>1, <1>2, HalvingsIs
<1>4. PICK l \in 0 .. Halvings : l = h + 1 /\ l \in 1 .. N /\ l - 1 = h
  BY <1>2, <1>3
<1>5. Halved[l] = (Halved[h] + 1) \div 2
  <2>1. Halved[l] = (Halved[l - 1] + 1) \div 2
    BY <1>4, HalvedIs
  <2> QED BY <1>4, <2>1
<1>6. PICK x, y, z, w : x = Size(f) /\ y = Size(g) /\ z = Halved[h] /\ w = Halved[l]
  OBVIOUS
<1>7. y <= w
  <2>1. /\ x \in Int /\ y \in Int /\ z \in Nat /\ x <= z /\ y <= (x + 1) \div 2
        /\ w = (z + 1) \div 2 /\ 1 < x
    BY <1>1, <1>2, <1>5, <1>6
  <2> QED BY <2>1
<1>8. n <= g.attempt + l
  BY <1>1, <1>2, <1>4
<1> QED BY <1>4, <1>6, <1>7, <1>8 DEF Earned

LEMMA RetryHasEarned ==
  ASSUME NEW f \in Frame, NEW g \in Frame, NEW n \in Int, Earned(f, n - 1),
         Size(g) <= Size(f), g.attempt = f.attempt + 1
  PROVE  Earned(g, n)
<1>1. PICK h \in 0 .. Halvings : Size(f) <= Halved[h] /\ n - 1 <= f.attempt + h
  BY DEF Earned
<1>2. /\ Halvings \in 0 .. N /\ N \in Nat /\ h \in 0 .. N /\ Halved[h] \in Nat
      /\ Size(f) \in Int /\ Size(g) \in Int /\ f.attempt \in Nat
  <2>1. Size(f) \in Int /\ Size(g) \in Int /\ f.attempt \in Nat
    BY DEF Size, Frame, Items
  <2> QED BY <2>1, HalvingTyped
<1> QED BY <1>1, <1>2 DEF Earned

LEMMA HalvesAreHalf ==
  ASSUME NEW f \in Frame, NEW a \in Nat, NEW g \in Halves(f, a), f.lo < f.hi
  PROVE  Size(g) <= (Size(f) + 1) \div 2 /\ g.attempt = a
<1>1. PICK lo, hi, s, m : lo = f.lo /\ hi = f.hi /\ s = Size(f) /\ m = s \div 2
  OBVIOUS
<1>2. lo \in Int /\ hi \in Int /\ s = hi - lo + 1 /\ s >= 2 /\ m \in Int /\ m >= 1
  BY <1>1 DEF Size, Frame, Items
<1>3. Midpoint(f) = m
  BY <1>1, <1>2 DEF Midpoint, Upper
<1>4. g = Sub(lo, lo + m - 1, a) \/ g = Sub(lo + m, hi, a)
  BY <1>1, <1>3 DEF Halves
<1>5. g.attempt = a /\ (Size(g) = (lo + m - 1) - lo + 1 \/ Size(g) = hi - (lo + m) + 1)
  BY <1>4 DEF Sub, Size
<1>6. m <= (s + 1) \div 2 /\ s - m <= (s + 1) \div 2
  BY <1>1, <1>2
<1>7. Size(g) = m \/ Size(g) = s - m
  BY <1>2, <1>5
<1> QED BY <1>1, <1>5, <1>6, <1>7

LEMMA SpanIs ==
  ASSUME NEW f \in Frame
  PROVE  \A i : i \in Span(f) <=> i \in Items /\ f.lo <= i /\ i <= f.hi
<1>1. f.lo \in 1 .. N /\ f.hi \in 1 .. N /\ N \in Nat
  BY RecoveryAssumption DEF Frame, Items
<1> QED BY <1>1 DEF Span, Items

LEMMA BudgetRaise ==
  ASSUME ArePlanned, IInv, BudgetInv,
         NEW f \in InProgress, NEW failure \in FailureClasses, Raise(f, failure)
  PROVE  BudgetInv'
<1> DEFINE class == Classified(failure)
           d == Decision(f, class)
           bisect == d.action = "bisect" /\ CanBisect(f)
           more == IF bisect THEN Halves(f, d.attempt)
                   ELSE IF d.action = "shrink" THEN Chunks(f, d.attempt)
                   ELSE IF d.action = "backoff" THEN {[f EXCEPT !.attempt = d.attempt]}
                   ELSE {}
<1>1. /\ call = [at |-> "waiting", frame |-> f] /\ frames' = frames \cup more /\ call' = NoCall
      /\ UNCHANGED <<job, todo, calls>>
  BY DEF Raise, loop, Calling
<1>2. /\ f \in Frame /\ f.lo <= f.hi /\ f.lo \in Items /\ f.hi \in Items
      /\ InProgress' = {} /\ Begun' = frames'
      /\ JobFits(f.lo, f.hi) /\ f.attempt <= MaxRetries
      /\ \A i \in Span(f) : Earned(f, calls[i] - 1)
  <2>1. f \in Frame
    BY InProgressIs DEF IInv
  <2>2. f \in Begun
    BY DEF Begun
  <2>3. f.lo <= f.hi
    BY <2>2 DEF IInv, PendingApart
  <2> QED BY <1>1, <2>1, <2>2, <2>3 DEF Frame, InProgress, Begun, BudgetInv, JobFits
<1>3. /\ d.attempt \in Nat /\ d.attempt <= MaxRetries
      /\ d.action = "bisect" => d.attempt = f.attempt
      /\ d.action \in {"shrink", "backoff"} => d.attempt = f.attempt + 1
  <2>1. class \in FailureClasses \cup {"cancelled"}
    BY DEF Classified
  <2> HIDE DEF class
  <2> QED BY <1>2, <2>1, DecisionIsBounded
<1> HIDE DEF d, class
<1>4. ASSUME NEW g \in more
      PROVE  /\ g \in Frame /\ f.lo <= g.lo /\ g.lo <= g.hi /\ g.hi <= f.hi
             /\ g.attempt = d.attempt
             /\ \A i \in Span(g) : Earned(g, calls[i])
  <2>1. CASE bisect
    <3>1. f.lo < f.hi /\ 1 < Size(f)
      BY <2>1, <1>2 DEF CanBisect, Size, Frame, Items
    <3>2. Splits(f, Halves(f, d.attempt)) /\ g \in Halves(f, d.attempt)
      BY <1>2, <1>3, <2>1, <3>1, HalvesSplit
    <3>3. g \in Frame /\ f.lo <= g.lo /\ g.lo <= g.hi /\ g.hi <= f.hi
      BY <3>2 DEF Splits
    <3>4. Size(g) <= (Size(f) + 1) \div 2 /\ g.attempt = d.attempt /\ g.attempt = f.attempt
      BY <1>2, <1>3, <2>1, <3>1, <3>2, HalvesAreHalf
    <3>5. ASSUME NEW i \in Span(g) PROVE Earned(g, calls[i])
      <4>1. i \in Span(f) /\ i \in Items
        BY <1>2, <3>3, PartsAreSmaller, SpanIs
      <4>2. Earned(f, calls[i] - 1) /\ calls[i] \in Int
        BY <1>2, <4>1 DEF BudgetInv
      <4> QED BY <1>2, <3>1, <3>3, <3>4, <4>2, HalfHasEarned
    <3> QED BY <3>3, <3>4, <3>5
  <2>2. CASE ~bisect
    <3>1. /\ g \in Frame /\ f.lo <= g.lo /\ g.lo <= g.hi /\ g.hi <= f.hi
          /\ g.attempt = d.attempt /\ g.attempt = f.attempt + 1
      <4>1. CASE d.action = "shrink"
        <5>1. Splits(f, Chunks(f, d.attempt)) /\ g \in Chunks(f, d.attempt)
          BY <1>2, <1>3, <2>2, <4>1, ChunksSplit
        <5>2. g \in Frame /\ f.lo <= g.lo /\ g.lo <= g.hi /\ g.hi <= f.hi
          BY <5>1 DEF Splits
        <5>3. g.attempt = d.attempt
          BY <1>2, <1>3, <5>1, ChunksAreShort
        <5> QED BY <1>3, <4>1, <5>2, <5>3
      <4>2. CASE d.action = "backoff"
        <5>1. g = [f EXCEPT !.attempt = d.attempt]
          BY <2>2, <4>2
        <5>2. g = [lo |-> f.lo, hi |-> f.hi, attempt |-> d.attempt]
          BY <1>2, <5>1 DEF Frame
        <5> HIDE DEF more
        <5>3. g \in Frame /\ g.lo = f.lo /\ g.hi = f.hi /\ g.attempt = d.attempt
          BY <1>2, <1>3, <5>2 DEF Frame
        <5> QED BY <1>2, <1>3, <4>2, <5>3 DEF Items
      <4> QED BY <2>2, <4>1, <4>2
    <3>2. Size(g) <= Size(f)
      BY <1>2, <3>1, PartsAreSmaller
    <3>3. ASSUME NEW i \in Span(g) PROVE Earned(g, calls[i])
      <4>1. i \in Span(f) /\ i \in Items
        BY <1>2, <3>1, PartsAreSmaller, SpanIs
      <4>2. Earned(f, calls[i] - 1) /\ calls[i] \in Int
        BY <1>2, <4>1 DEF BudgetInv
      <4> QED BY <1>2, <3>1, <3>2, <4>2, RetryHasEarned
    <3> QED BY <3>1, <3>3
  <2> QED BY <2>1, <2>2
<1> HIDE DEF more
<1>5. ASSUME NEW g \in more PROVE JobFits(g.lo, g.hi)
  <2>1. g.lo \in f.lo .. f.hi /\ g.hi \in f.lo .. f.hi /\ g.lo <= g.hi
    BY <1>2, <1>4 DEF Frame, Items
  <2> QED BY <1>2, <2>1, JobPartFits DEF BudgetInv
<1>6. \A g \in Begun' : Fits(job.items, g.lo, g.hi, job.capability) /\ g.attempt <= MaxRetries
  BY <1>1, <1>2, <1>3, <1>4, <1>5 DEF BudgetInv, Begun, JobFits
<1>7. \A g \in frames' : \A i \in Span(g) : Earned(g, calls[i])
  BY <1>1, <1>4 DEF BudgetInv
<1> QED BY <1>1, <1>2, <1>6, <1>7 DEF BudgetInv, CallsAreBounded

LEMMA BudgetEnter ==
  ASSUME IInv, BudgetInv, NEW f \in frames, Enter(f), ~cancel
  PROVE  BudgetInv'
<1>1. /\ call' = [at |-> "waiting", frame |-> f] /\ frames' = frames \ {f}
      /\ calls' = [i \in Items |-> IF i \in Span(f) THEN Lower(calls[i] + 1, CallCap)
                                   ELSE calls[i]]
      /\ UNCHANGED <<job, todo>> /\ IsNext(f)
  BY DEF Enter, loop
<1>2. /\ f \in Frame /\ InProgress' = {f} /\ Begun' \subseteq Begun /\ calls \in [Items -> Nat]
  BY <1>1 DEF IInv, WorkTypeOK, InProgress, Begun, NoCall, BudgetInv
<1>3. calls' \in [Items -> Nat] /\ \A i \in Items : calls'[i] <= calls[i] + 1
  BY <1>1, <1>2, RecoveryAssumption DEF Lower
<1>4. ASSUME NEW g \in frames', NEW i \in Span(g) PROVE Earned(g, calls'[i])
  <2>1. g \in frames /\ g # f /\ g \in Frame
    BY <1>1 DEF IInv, WorkTypeOK
  <2>2. f.hi < g.lo \/ g.hi < f.lo
    BY <2>1 DEF IInv, PendingApart
  <2>3. i \in Items /\ i \notin Span(f)
    <3>1. i \in Items /\ g.lo <= i /\ i <= g.hi /\ (i \in Span(f) => f.lo <= i /\ i <= f.hi)
      BY <1>2, <2>1, SpanIs
    <3>2. f.lo \in Int /\ f.hi \in Int /\ g.lo \in Int /\ g.hi \in Int /\ i \in Int
      BY <1>2, <2>1, <3>1 DEF Frame, Items
    <3> QED BY <2>2, <3>1, <3>2
  <2>4. calls'[i] = calls[i]
    BY <1>1, <2>3
  <2> QED BY <2>1, <2>4 DEF BudgetInv
<1>5. ASSUME NEW i \in Span(f) PROVE Earned(f, calls'[i] - 1)
  <2>1. i \in Items
    BY <1>2, SpanIs
  <2>2. PICK h \in 0 .. Halvings : Size(f) <= Halved[h] /\ calls[i] <= f.attempt + h
    BY DEF BudgetInv, Earned
  <2>3. calls'[i] <= calls[i] + 1 /\ calls'[i] \in Nat /\ calls[i] \in Nat
    BY <1>2, <1>3, <2>1
  <2>4. f.attempt \in Nat /\ h \in Nat
    BY <1>2, HalvingTyped DEF Frame
  <2>5. calls'[i] - 1 <= f.attempt + h
    BY <2>2, <2>3, <2>4
  <2> QED BY <2>2, <2>5 DEF Earned
<1>6. ASSUME NEW i \in Items PROVE calls'[i] <= 1 + MaxRetries + Halvings
  <2>1. CASE i \in Span(f)
    <3>1. PICK h \in 0 .. Halvings : calls'[i] - 1 <= f.attempt + h
      BY <1>5, <2>1 DEF Earned
    <3>2. f.attempt <= MaxRetries /\ f.attempt \in Nat /\ calls'[i] \in Nat
      BY <1>2, <1>3 DEF BudgetInv, Begun, Frame
    <3>3. MaxRetries \in Nat /\ Halvings \in Nat /\ h \in Nat /\ h <= Halvings
      BY HalvingTyped, RecoveryAssumption DEF MaxRetries, Upper
    <3> QED BY <3>1, <3>2, <3>3
  <2>2. CASE i \notin Span(f)
    BY <1>1, <2>2 DEF BudgetInv, CallsAreBounded
  <2> QED BY <2>1, <2>2
<1>7. /\ \A k \in DOMAIN todo' : Fits(job'.items, todo'[k].lo, todo'[k].hi, job'.capability)
      /\ \A g \in Begun' : Fits(job'.items, g.lo, g.hi, job'.capability) /\ g.attempt <= MaxRetries
      /\ job' \in Plans
  BY <1>1, <1>2 DEF BudgetInv
<1> QED BY <1>1, <1>2, <1>3, <1>4, <1>5, <1>6, <1>7 DEF BudgetInv, CallsAreBounded

LEMMA BudgetStep ==
  ASSUME ArePlanned, IInv, BudgetInv, [Next]_vars
  PROVE  BudgetInv'
<1>1. CASE NextBatch
  <2>1. /\ frames = {} /\ InProgress' = {} /\ Begun' = frames' /\ todo # <<>>
        /\ job' = job /\ calls' = [i \in Items |-> 0]
    BY <1>1 DEF NextBatch, InProgress, Begun, NoCall
  <2>2. calls' \in [Items -> Nat] /\ CallsAreBounded'
    <3>1. MaxRetries \in Nat /\ Halvings \in Nat
      BY HalvingsIs, RecoveryAssumption DEF MaxRetries, Upper
    <3> QED BY <2>1, <3>1 DEF CallsAreBounded
  <2>3. CASE cancel
    <3>1. todo' = <<>> /\ frames' = {}
      BY <1>1, <2>1, <2>3 DEF NextBatch
    <3> QED BY <2>1, <2>2, <3>1 DEF BudgetInv
  <2>4. CASE ~cancel
    <3> DEFINE first == [lo |-> Head(todo).lo, hi |-> Head(todo).hi, attempt |-> 0]
    <3>1. todo' = Tail(todo) /\ frames' = {first}
      BY <1>1, <2>4 DEF NextBatch
    <3>2. todo \in Seq([lo : Items, hi : Items])
      BY DEF IInv, WorkTypeOK
    <3>3. \A k \in DOMAIN todo' : todo'[k] = todo[k + 1] /\ k + 1 \in DOMAIN todo
      BY <2>1, <3>1, <3>2
    <3>4. Head(todo) = todo[1] /\ 1 \in DOMAIN todo
      <4>1. Len(todo) \in Nat \ {0} /\ DOMAIN todo = 1 .. Len(todo)
        BY <2>1, <3>2
      <4> QED BY <3>2, <4>1
    <3>5. /\ first.lo = todo[1].lo /\ first.hi = todo[1].hi /\ first.attempt = 0
          /\ todo[1] \in [lo : Items, hi : Items]
      BY <3>4, TodoTyped DEF IInv
    <3> HIDE DEF first
    <3>6. JobFits(first.lo, first.hi) /\ 0 <= MaxRetries
      BY <3>4, <3>5, RecoveryAssumption DEF BudgetInv, JobFits, MaxRetries, Upper
    <3>7. Earned(first, 0)
      <4>1. first.lo \in 1 .. N /\ first.hi \in 1 .. N /\ N \in Nat
        BY <3>5, RecoveryAssumption DEF Items
      <4>2. Size(first) <= Halved[0]
        <5>1. Halved[0] = N
          BY HalvedIs
        <5>2. first.hi - first.lo + 1 <= N
          BY <4>1
        <5> QED BY <5>1, <5>2 DEF Size
      <4>3. 0 \in 0 .. Halvings
        BY HalvingsIs
      <4>4. 0 <= first.attempt + 0
        BY <3>5
      <4> QED BY <4>2, <4>3, <4>4 DEF Earned
    <3>8. \A i \in Span(first) : calls'[i] = 0
      <4>1. [lo |-> first.lo, hi |-> first.hi, attempt |-> 0] \in Frame
        BY <3>5 DEF Frame
      <4>2. \A i \in Span(first) : i \in Items
        BY <4>1, SpanIs DEF Span
      <4> QED BY <2>1, <4>2
    <3>9. \A k \in DOMAIN todo' : JobFits(todo'[k].lo, todo'[k].hi)
      BY <3>3 DEF BudgetInv, JobFits
    <3> QED BY <2>1, <2>2, <3>1, <3>5, <3>6, <3>7, <3>8, <3>9 DEF BudgetInv, JobFits
  <2> QED BY <2>3, <2>4
<1>2. ASSUME NEW f \in frames, Enter(f) PROVE BudgetInv'
  <2>1. CASE cancel
    <3>1. /\ UNCHANGED <<job, todo, call, calls>> /\ frames' = frames \ {f} /\ InProgress' = InProgress
          /\ Begun' \subseteq Begun
      BY <1>2, <2>1 DEF Enter, loop, Begun, InProgress, NoCall
    <3> QED BY <3>1 DEF BudgetInv, CallsAreBounded
  <2> QED BY <1>2, <2>1, BudgetEnter
<1>3. ASSUME NEW f \in InProgress, Reject(f) PROVE BudgetInv'
  <2>1. /\ UNCHANGED <<job, todo, frames, calls>> /\ InProgress' = {} /\ Begun' \subseteq Begun
    BY <1>3 DEF Reject, loop, Begun, InProgress
  <2> QED BY <2>1 DEF BudgetInv, CallsAreBounded
<1>4. ASSUME NEW f \in InProgress, Payloads(f) PROVE BudgetInv'
  <2>1. /\ UNCHANGED <<job, todo, frames, calls>> /\ InProgress' = InProgress /\ Begun' = Begun
        /\ call'.at = "committing"
    BY <1>4 DEF Payloads, Calling, loop, Begun, InProgress, NoCall
  <2> QED BY <2>1 DEF BudgetInv, CallsAreBounded
<1>5. ASSUME NEW f \in InProgress, NEW failure \in FailureClasses, Raise(f, failure)
      PROVE  BudgetInv'
  BY <1>5, BudgetRaise
<1>6. ASSUME NEW f \in InProgress, NEW outcome \in Outcomes(f), Commit(f, outcome)
      PROVE  BudgetInv'
  <2>1. /\ call = [at |-> "committing", frame |-> f] /\ UNCHANGED <<job, todo, frames, calls>>
        /\ InProgress = {f} /\ Begun = frames \cup {f}
    BY <1>6 DEF Commit, loop, InProgress, NoCall, Begun
  <2>2. f \in Frame /\ f.lo <= f.hi
    BY <2>1, InProgressIs DEF IInv, PendingApart
  <2>3. CASE call' = NoCall
    <3>1. InProgress' = {} /\ Begun' \subseteq Begun
      BY <2>1, <2>3 DEF InProgress, Begun
    <3> QED BY <2>1, <3>1 DEF BudgetInv, CallsAreBounded
  <2>4. CASE call' # NoCall
    <3>1. f.lo # f.hi /\ call' = [at |-> "committing", frame |-> [f EXCEPT !.lo = f.lo + 1]]
      BY <1>6, <2>4 DEF Commit, AfterCommit
    <3> DEFINE rest == [f EXCEPT !.lo = f.lo + 1]
    <3>2. rest.lo = f.lo + 1 /\ rest.hi = f.hi /\ rest.attempt = f.attempt
      BY <2>2 DEF Frame
    <3>3. call' = [at |-> "committing", frame |-> rest]
      BY <3>1
    <3> HIDE DEF rest
    <3>4. InProgress' = {rest} /\ Begun' = frames \cup {rest} /\ call'.at # "waiting"
      BY <2>1, <3>3 DEF InProgress, NoCall, Begun
    <3>5. f.lo \in Items /\ f.hi \in Items
      BY <2>2 DEF Frame
    <3>6. rest.lo \in f.lo .. f.hi /\ rest.hi \in f.lo .. f.hi /\ rest.lo <= rest.hi
      BY <2>2, <3>1, <3>2, <3>5 DEF Items
    <3>7. JobFits(rest.lo, rest.hi)
      <4>1. JobFits(f.lo, f.hi) /\ job \in Plans
        BY <2>1 DEF BudgetInv, JobFits
      <4> QED BY <3>5, <3>6, <4>1, JobPartFits
    <3>8. rest.attempt <= MaxRetries
      BY <2>1, <3>2 DEF BudgetInv
    <3> QED BY <2>1, <3>4, <3>7, <3>8 DEF BudgetInv, CallsAreBounded, JobFits
  <2> QED BY <2>3, <2>4
<1>7. CASE RequestCancel \/ UNCHANGED vars
  <2>1. UNCHANGED <<job, todo, frames, call, calls>>
    BY <1>7 DEF RequestCancel, vars, loop
  <2>2. InProgress' = InProgress /\ Begun' = Begun
    BY <2>1 DEF InProgress, Begun
  <2> QED BY <2>1, <2>2 DEF BudgetInv, CallsAreBounded
<1> QED BY <1>1, <1>2, <1>3, <1>4, <1>5, <1>6, <1>7 DEF Next, Recover

\* Whatever files are staged, and whatever the limits: no call of the adapter carries
\* more than one request, one compute batch and the device's memory allow, unless it
\* carries a single file; and however a batch is bisected, shrunk and retried, none of
\* its items is sent more often than the retries of the most generous class and the
\* halvings of the batch add up to.
THEOREM CallsStayInBudget ==
  ASSUME ArePlanned
  PROVE  Spec => []CallsFitTheBudget
<1>1. BudgetInv => CallsFitTheBudget
  BY DEF BudgetInv, CallsFitTheBudget, Begun
<1>2. Init => BudgetInv
  BY InitBudget
<1>3. IInv /\ BudgetInv /\ [Next]_vars => BudgetInv'
  BY BudgetStep
<1> QED BY <1>1, <1>2, <1>3, PartitionInvariant, PTL DEF Spec

-----------------------------------------------------------------------------
(* The scheduler.                                                            *)

\* The initial queue is empty, so everything about its entries holds.
LEMMA InitIInv == SchedulerInit => SchedulerIInv
BY SchedulerAssumption
DEF SchedulerInit, SchedulerIInv, SchedulerTypeOK, QueueIsConsistent, OneBatchPerDevice,
     QueueOrder, Pcs

\* Types are kept by every action of the scheduler and of its callers.
LEMMA TypeStep == ASSUME SchedulerTypeOK, [SchedulerNext]_schedulerVars PROVE SchedulerTypeOK'
<1> USE SchedulerAssumption DEF SchedulerTypeOK, Pcs
<1>1. ASSUME NEW j \in Jobs, NEW d \in Devices, Ask(j, d) PROVE SchedulerTypeOK'
  BY <1>1 DEF Ask, Goto, queueVars
<1>2. ASSUME NEW j \in Jobs, Leave(j) PROVE SchedulerTypeOK'
  BY <1>2 DEF Leave, Goto, queueVars
<1>3. ASSUME NEW j \in Jobs, Enqueue(j) PROVE SchedulerTypeOK'
  BY <1>3 DEF Enqueue, Goto
<1>4. ASSUME NEW j \in Jobs, PollStop(j) PROVE SchedulerTypeOK'
  BY <1>4 DEF PollStop, Goto, DropJobs, RemoveFromHeap
<1>5. ASSUME NEW j \in Jobs, PollDropped(j) PROVE SchedulerTypeOK'
  BY <1>5 DEF PollDropped, RemoveFromHeap
<1>6. ASSUME NEW j \in Jobs, Grant(j) PROVE SchedulerTypeOK'
  BY <1>6 DEF Grant, Goto, RemoveFromHeap
<1>7. ASSUME NEW j \in Jobs, Release(j) PROVE SchedulerTypeOK'
  BY <1>7 DEF Release, FreeDevice, Goto, queueVars
<1>8. ASSUME NEW j \in Jobs, RequestStop(j) PROVE SchedulerTypeOK'
  BY <1>8 DEF RequestStop, queueVars
<1>9. ASSUME NEW j \in Jobs, Cancel(j) PROVE SchedulerTypeOK'
  BY <1>9 DEF Cancel, DropJobs, RemoveFromHeap
<1>10. ASSUME Drain PROVE SchedulerTypeOK'
  BY <1>10 DEF Drain, DropJobs, RemoveFromHeap
<1>11. ASSUME Tick PROVE SchedulerTypeOK'
  BY <1>11 DEF Tick, Aged
<1>12. ASSUME UNCHANGED schedulerVars PROVE SchedulerTypeOK'
  BY <1>12 DEF schedulerVars, queueVars
<1> QED
  BY <1>1, <1>2, <1>3, <1>4, <1>5, <1>6, <1>7, <1>8, <1>9, <1>10, <1>11, <1>12
  DEF SchedulerNext, Poll

\* Dropping jobs takes them out of the heap and of the enqueue times alike, and
\* marks as cancelled only what was in the queue.
LEMMA DropKeepsQueue ==
  ASSUME NEW S \in SUBSET Jobs, DropJobs(S), QueueIsConsistent, QueueOrder,
         heap \subseteq Jobs, SchedulerTypeOK
  PROVE  /\ heap' = enqueued' /\ enqueued' \cap cancelled' = {} /\ enqueued' = enqueued \ S
         /\ QueueOrder'
  BY DEF DropJobs, RemoveFromHeap, QueueIsConsistent, QueueOrder, SchedulerTypeOK

\* The queue stays consistent and ordered.
LEMMA QueueStep ==
  ASSUME SchedulerTypeOK, QueueIsConsistent, QueueOrder, [SchedulerNext]_schedulerVars
  PROVE  QueueIsConsistent' /\ QueueOrder'
<1> USE DEF QueueIsConsistent, SchedulerTypeOK
<1>1. ASSUME NEW j \in Jobs, NEW d \in Devices, Ask(j, d)
      PROVE QueueIsConsistent' /\ QueueOrder'
  BY <1>1 DEF Ask, Goto, queueVars, QueueOrder
<1>2. ASSUME NEW j \in Jobs, Leave(j) PROVE QueueIsConsistent' /\ QueueOrder'
  BY <1>2 DEF Leave, Goto, queueVars, QueueOrder
<1>3. ASSUME NEW j \in Jobs, Enqueue(j) PROVE QueueIsConsistent' /\ QueueOrder'
  <2>1. QueueIsConsistent'
    BY <1>3 DEF Enqueue, Goto
  <2>2. \A k \in Jobs : ahead'[k] = IF k = j THEN heap ELSE ahead[k]
    BY <1>3 DEF Enqueue
  <2>3. \A k \in Jobs : age'[k] = IF k = j THEN 0 ELSE age[k]
    BY <1>3, SchedulerAssumption DEF Enqueue
  <2>4. j \notin heap /\ heap' = heap \cup {j}
    BY <1>3 DEF Enqueue
  <2>5. QueueOrder'
    BY <2>2, <2>3, <2>4, SchedulerAssumption DEF QueueOrder
  <2> QED BY <2>1, <2>5
<1>4. ASSUME NEW j \in Jobs, PollStop(j) PROVE QueueIsConsistent' /\ QueueOrder'
  BY <1>4, DropKeepsQueue DEF PollStop, Goto
<1>5. ASSUME NEW j \in Jobs, PollDropped(j) PROVE QueueIsConsistent' /\ QueueOrder'
  BY <1>5 DEF PollDropped, RemoveFromHeap, QueueOrder
<1>6. ASSUME NEW j \in Jobs, Grant(j) PROVE QueueIsConsistent' /\ QueueOrder'
  BY <1>6 DEF Grant, Goto, RemoveFromHeap, QueueOrder
<1>7. ASSUME NEW j \in Jobs, Release(j) PROVE QueueIsConsistent' /\ QueueOrder'
  BY <1>7 DEF Release, Goto, queueVars, QueueOrder
<1>8. ASSUME NEW j \in Jobs, RequestStop(j) PROVE QueueIsConsistent' /\ QueueOrder'
  BY <1>8 DEF RequestStop, queueVars, QueueOrder
<1>9. ASSUME NEW j \in Jobs, Cancel(j) PROVE QueueIsConsistent' /\ QueueOrder'
  BY <1>9, DropKeepsQueue DEF Cancel
<1>10. ASSUME Drain PROVE QueueIsConsistent' /\ QueueOrder'
  BY <1>10, DropKeepsQueue DEF Drain
<1>11. ASSUME Tick PROVE QueueIsConsistent' /\ QueueOrder'
  BY <1>11, SchedulerAssumption DEF Tick, Aged, QueueOrder
<1>12. ASSUME UNCHANGED schedulerVars PROVE QueueIsConsistent' /\ QueueOrder'
  BY <1>12 DEF schedulerVars, queueVars, QueueOrder
<1> QED
  BY <1>1, <1>2, <1>3, <1>4, <1>5, <1>6, <1>7, <1>8, <1>9, <1>10, <1>11, <1>12
  DEF SchedulerNext, Poll

\* The lease table names exactly the threads inside a batch.
LEMMA LeaseStep ==
  ASSUME SchedulerTypeOK, OneBatchPerDevice, [SchedulerNext]_schedulerVars PROVE OneBatchPerDevice'
<1> USE SchedulerAssumption DEF SchedulerTypeOK, OneBatchPerDevice
<1>1. ASSUME NEW j \in Jobs, NEW d \in Devices, Ask(j, d) PROVE OneBatchPerDevice'
  BY <1>1 DEF Ask, Goto
<1>2. ASSUME NEW j \in Jobs, Leave(j) \/ Enqueue(j) \/ PollStop(j) PROVE OneBatchPerDevice'
  BY <1>2 DEF Leave, Enqueue, PollStop, Goto
<1>3. ASSUME NEW j \in Jobs, PollDropped(j) \/ RequestStop(j) \/ Cancel(j)
      PROVE OneBatchPerDevice'
  BY <1>3 DEF PollDropped, RequestStop, Cancel
<1>4. ASSUME NEW j \in Jobs, Grant(j) PROVE OneBatchPerDevice'
  BY <1>4 DEF Grant, Goto, DeviceFree
<1>5. ASSUME NEW j \in Jobs, Release(j) PROVE OneBatchPerDevice'
  BY <1>5 DEF Release, FreeDevice, Goto
<1>6. ASSUME Drain \/ Tick \/ UNCHANGED schedulerVars PROVE OneBatchPerDevice'
  BY <1>6 DEF Drain, Tick, schedulerVars
<1> QED BY <1>1, <1>2, <1>3, <1>4, <1>5, <1>6 DEF SchedulerNext, Poll

\* The conjunction of the four parts is an invariant of the specification.
THEOREM SchedulerInvariant == SchedulerSpec => []SchedulerIInv
<1>1. SchedulerIInv /\ [SchedulerNext]_schedulerVars => SchedulerIInv'
  BY TypeStep, QueueStep, LeaseStep DEF SchedulerIInv
<1> QED BY InitIInv, <1>1, PTL DEF SchedulerSpec

\* Types, for any number of jobs and devices.
THEOREM SchedulerTypes == SchedulerSpec => []SchedulerTypeOK
BY SchedulerInvariant, PTL DEF SchedulerIInv

\* One queue: no entry is left behind by a drop, a stop or a grant, and none is
\* invisible to next_job_for.
THEOREM QueueStaysConsistent == SchedulerSpec => []QueueIsConsistent
BY SchedulerInvariant, PTL DEF SchedulerIInv

\* Two heavy batches never run on one device.
THEOREM LeasesAreExclusive == SchedulerSpec => []OneBatchPerDevice
BY SchedulerInvariant, PTL DEF SchedulerIInv

\* A grant respects arrival within a class, and aging between the classes.
THEOREM GrantsAreOrdered == SchedulerSpec => GrantsInOrder
<1> DEFINE InOrder ==
      \A j, k \in Jobs :
         LET granted == pc[j] = "polling" /\ pc'[j] = "running"
             rival == k # j /\ k \in enqueued /\ dev[k] = dev[j]
         IN granted /\ rival =>
              /\ (j \in Interactive <=> k \in Interactive) => j \in ahead[k]
              /\ j \notin Interactive /\ k \in Interactive =>
                     j \in ahead[k] /\ age[j] = AgeSteps
              /\ j \in Interactive /\ k \notin Interactive =>
                     j \in ahead[k] \/ age[k] < AgeSteps
<1>1. ASSUME NEW j \in Jobs, SchedulerIInv, [SchedulerNext]_schedulerVars,
             pc[j] = "polling", pc'[j] = "running"
      PROVE  Grant(j)
  <2> USE <1>1 DEF SchedulerIInv, SchedulerTypeOK, Goto
  <2>1. ASSUME NEW i \in Jobs, NEW d \in Devices, Ask(i, d) PROVE FALSE
    BY <2>1 DEF Ask
  <2>2. ASSUME NEW i \in Jobs, Leave(i) \/ Enqueue(i) \/ PollStop(i) PROVE FALSE
    BY <2>2 DEF Leave, Enqueue, PollStop
  <2>3. ASSUME NEW i \in Jobs, PollDropped(i) \/ RequestStop(i) \/ Cancel(i) PROVE FALSE
    BY <2>3 DEF PollDropped, RequestStop, Cancel
  <2>4. ASSUME NEW i \in Jobs, Grant(i) PROVE Grant(j)
    <3>1. i = j BY <2>4 DEF Grant
    <3> QED BY <3>1, <2>4
  <2>5. ASSUME NEW i \in Jobs, Release(i) PROVE FALSE
    BY <2>5 DEF Release
  <2>6. ASSUME Drain \/ Tick \/ UNCHANGED schedulerVars PROVE FALSE
    BY <2>6 DEF Drain, Tick, schedulerVars
  <2> QED BY <2>1, <2>2, <2>3, <2>4, <2>5, <2>6 DEF SchedulerNext, Poll
<1>2. SchedulerIInv /\ [SchedulerNext]_schedulerVars => InOrder
  <2> SUFFICES ASSUME SchedulerIInv, [SchedulerNext]_schedulerVars, NEW j \in Jobs, NEW k \in Jobs,
                      pc[j] = "polling", pc'[j] = "running",
                      k # j, k \in enqueued, dev[k] = dev[j]
               PROVE  /\ (j \in Interactive <=> k \in Interactive) => j \in ahead[k]
                      /\ j \notin Interactive /\ k \in Interactive =>
                             j \in ahead[k] /\ age[j] = AgeSteps
                      /\ j \in Interactive /\ k \notin Interactive =>
                             j \in ahead[k] \/ age[k] < AgeSteps
    OBVIOUS
  <2>1. Grant(j) BY <1>1
  <2>2. k \in Candidates(dev[j]) \ {j}
    BY DEF SchedulerIInv, QueueIsConsistent, Candidates
  <2>3. KeyBefore(j, k)
    BY <2>1, <2>2 DEF Grant, NextJobFor
  <2>4. j \in heap /\ k \in heap
    BY <2>1 DEF Grant, SchedulerIInv, QueueIsConsistent
  <2>5. /\ j \in ahead[k] \/ k \in ahead[j]
        /\ k \in ahead[j] => age[j] <= age[k]
    BY <2>4 DEF SchedulerIInv, QueueOrder
  <2> QED
    BY <2>3, <2>5, SchedulerAssumption
    DEF KeyBefore, EffectivePriority, SchedulerIInv, SchedulerTypeOK
<1>3. SchedulerIInv /\ [SchedulerNext]_schedulerVars => [InOrder]_schedulerVars
  BY <1>2
<1> QED BY SchedulerInvariant, <1>3, PTL DEF SchedulerSpec, GrantsInOrder

\* The threads implement the abstract lease.  The grant looks at the lease table and
\* at nothing else; that nobody is inside a batch on the device it takes, and that
\* the one who leaves was alone there, follows from the table naming exactly the
\* threads inside.
THEOREM SchedulerImplementsLease == SchedulerSpec => ImplementsDeviceLease
<1>1. SchedulerInit => Lease!Init
  BY DEF SchedulerInit, Lease!Init, InsideBatch
<1>2. SchedulerIInv /\ [SchedulerNext]_schedulerVars => [Lease!Next]_InsideBatch
  <2> SUFFICES ASSUME SchedulerIInv, [SchedulerNext]_schedulerVars
               PROVE  [Lease!Next]_InsideBatch
    OBVIOUS
  <2> USE DEF SchedulerIInv, SchedulerTypeOK
  <2>1. ASSUME NEW j \in Jobs, NEW d \in Devices, Ask(j, d) PROVE UNCHANGED InsideBatch
    BY <2>1 DEF Ask, Goto, InsideBatch
  <2>2. ASSUME NEW j \in Jobs,
               Leave(j) \/ Enqueue(j) \/ PollStop(j) \/ PollDropped(j)
                 \/ RequestStop(j) \/ Cancel(j)
        PROVE UNCHANGED InsideBatch
    BY <2>2 DEF Leave, Enqueue, PollStop, PollDropped, RequestStop, Cancel, Goto, InsideBatch
  <2>3. ASSUME NEW j \in Jobs, Grant(j) PROVE Lease!Next
    <3>1. dev[j] \in Devices /\ lease[dev[j]] = NoJob
      BY <2>3 DEF Grant, DeviceFree
    <3>2. InsideBatch[dev[j]] = {}
      BY <3>1, SchedulerAssumption DEF OneBatchPerDevice, InsideBatch
    <3>3. \A k \in Jobs : pc'[k] = "running" /\ dev'[k] = dev[j] <=> k = j
      BY <2>3, <3>1, SchedulerAssumption DEF Grant, Goto, OneBatchPerDevice
    <3>4. \A d \in Devices \ {dev[j]}, k \in Jobs :
             pc'[k] = "running" /\ dev'[k] = d <=> pc[k] = "running" /\ dev[k] = d
      BY <2>3 DEF Grant, Goto
    <3>5. InsideBatch'[dev[j]] = {j}
      BY <3>1, <3>3 DEF InsideBatch
    <3>6. \A d \in Devices \ {dev[j]} : InsideBatch'[d] = InsideBatch[d]
      BY <3>4 DEF InsideBatch
    <3>7. InsideBatch' = [InsideBatch EXCEPT ![dev[j]] = {j}]
      BY <3>5, <3>6, Zenon DEF InsideBatch
    <3> QED BY <3>1, <3>2, <3>7 DEF Lease!Next, Lease!Enter
  <2>4. ASSUME NEW j \in Jobs, Release(j) PROVE Lease!Next
    <3>1. lease[dev[j]] = j /\ dev[j] \in Devices
      BY <2>4 DEF Release, OneBatchPerDevice
    <3>2. InsideBatch[dev[j]] = {j}
      BY <2>4, <3>1 DEF OneBatchPerDevice, InsideBatch, Release
    <3>3. \A k \in Jobs : ~(pc'[k] = "running" /\ dev'[k] = dev[j])
      BY <2>4, <3>1 DEF Release, Goto, OneBatchPerDevice
    <3>4. \A d \in Devices \ {dev[j]}, k \in Jobs :
             pc'[k] = "running" /\ dev'[k] = d <=> pc[k] = "running" /\ dev[k] = d
      BY <2>4 DEF Release, Goto
    <3>5. InsideBatch'[dev[j]] = {}
      BY <3>1, <3>3 DEF InsideBatch
    <3>6. \A d \in Devices \ {dev[j]} : InsideBatch'[d] = InsideBatch[d]
      BY <3>4 DEF InsideBatch
    <3>7. InsideBatch' = [InsideBatch EXCEPT ![dev[j]] = {}]
      BY <3>5, <3>6, Zenon DEF InsideBatch
    <3> QED BY <3>1, <3>2, <3>7 DEF Lease!Next, Lease!Exit
  <2>5. ASSUME Drain \/ Tick \/ UNCHANGED schedulerVars PROVE UNCHANGED InsideBatch
    BY <2>5 DEF Drain, Tick, schedulerVars, InsideBatch
  <2> QED BY <2>1, <2>2, <2>3, <2>4, <2>5 DEF SchedulerNext, Poll
<1> QED
  BY SchedulerInvariant, <1>1, <1>2, PTL DEF SchedulerSpec, ImplementsDeviceLease, Lease!Spec

=============================================================================

------------------------- MODULE SampleQueueProofs -------------------------
(***************************************************************************)
(* What SampleQueue.tla promises for every capacity, every set of threads  *)
(* and every number of pushes.  The inductive invariant is TypeOK with     *)
(* RingConsistent, Conservation, NoSleepAfterShutdown and ArgHeld.         *)
(***************************************************************************)
EXTENDS SampleQueue, SequenceTheorems, FiniteSetTheorems, TLAPS

-----------------------------------------------------------------------------
(* Arithmetic of the ring: an index and a distance of at most one lap.     *)
LEMMA ModSum ==
    ASSUME NEW C \in Nat \ {0}, NEW i \in 0 .. C - 1, NEW j \in 0 .. C
    PROVE  (i + j) % C = IF i + j < C THEN i + j ELSE i + j - C
<1>1. CASE i + j < C
    BY <1>1
<1>2. CASE i + j >= C
    BY <1>2
<1> QED BY <1>1, <1>2

LEMMA FullLap ==
    ASSUME NEW C \in Nat \ {0}, NEW i \in 0 .. C - 1
    PROVE  (i + C) % C = i
<1>1. C \in 0 .. C
    OBVIOUS
<1>2. (i + C) % C = IF i + C < C THEN i + C ELSE i + C - C
    BY <1>1, ModSum
<1> QED BY <1>2

(* The slot after a slot is a slot. *)
LEMMA AfterSlot ==
    ASSUME NEW i \in Slots
    PROVE  /\ After(i) \in Slots
           /\ After(i) = IF i + 1 < Capacity THEN i + 1 ELSE 0
<1>1. Capacity \in Nat \ {0} /\ i \in 0 .. Capacity - 1 /\ 1 \in 0 .. Capacity
    BY QueueAssumption DEF Slots
<1>2. (i + 1) % Capacity
        = IF i + 1 < Capacity THEN i + 1 ELSE i + 1 - Capacity
    BY <1>1, ModSum
<1> QED BY <1>1, <1>2 DEF After, Slots

(* A signal releases sleepers and touches nobody else. *)
LEMMA SignalEffect ==
    ASSUME NEW S, S \subseteq Threads,
           NEW f \in [Threads -> Where], NEW g \in Signal(S, f)
    PROVE  /\ g \in [Threads -> Where]
           /\ \A t \in Threads : \/ g[t] = f[t]
                                 \/ f[t] = "waiting" /\ g[t] = "signalled"
<1> DEFINE W == {t \in S : f[t] = "waiting"}
<1>1. CASE W = {}
    BY <1>1 DEF Signal
<1>2. CASE W # {}
    <2>1. PICK t \in W : g = [f EXCEPT ![t] = "signalled"]
        BY <1>2 DEF Signal
    <2> QED BY <2>1 DEF Where
<1> QED BY <1>1, <1>2

(* A thread that moves leaves the others where they are. *)
LEMMA AtType ==
    ASSUME pc \in [Threads -> Where], NEW t \in Threads, NEW w \in Where
    PROVE  At(t, w) \in [Threads -> Where]
BY DEF At

-----------------------------------------------------------------------------
(* The typing of the pieces the actions are made of. *)
LEMMA StorePushType ==
    ASSUME TypeOK, NEW p \in Producers, NEW s \in Cell, StorePush(p, s),
           arg' \in [Producers -> Cell]
    PROVE  TypeOK'
<1> USE QueueAssumption
<1>1. After(head) \in Slots /\ After(tail) \in Slots
    BY AfterSlot DEF TypeOK
<1>2. /\ head' \in Slots /\ tail' \in Slots
      /\ overflow_count' \in Nat /\ push_count' \in Nat /\ pop_count' \in Nat
    BY <1>1 DEF StorePush, MakeRoom, TypeOK
<1>3. count' \in 0 .. Capacity
    BY DEF StorePush, TypeOK, Full
<1>4. samples' \in [Slots -> Cell]
    BY DEF StorePush, TypeOK
<1>5. At(p, "idle") \in [Threads -> Where] /\ Consumers \subseteq Threads
    BY AtType DEF TypeOK, Threads, Where
<1>6. pc' \in [Threads -> Where]
    BY <1>5, SignalEffect DEF StorePush
<1> QED BY <1>2, <1>3, <1>4, <1>6 DEF StorePush, TypeOK

LEMMA TakePopType ==
    ASSUME TypeOK, NEW c \in Consumers, TakePop(c)
    PROVE  TypeOK'
<1> USE QueueAssumption
<1>1. After(tail) \in Slots
    BY AfterSlot DEF TypeOK
<1>2. tail' \in Slots /\ pop_count' \in Nat
    BY <1>1 DEF TakePop, TypeOK
<1>3. count' \in 0 .. Capacity
    BY DEF TakePop, TypeOK, Empty
<1>4. out' \in [Consumers -> Cell]
    BY DEF TakePop, TypeOK
<1>5. At(c, "idle") \in [Threads -> Where] /\ Producers \subseteq Threads
    BY AtType DEF TypeOK, Threads, Where
<1>6. pc' \in [Threads -> Where]
    BY <1>5, SignalEffect DEF TakePop
<1> QED BY <1>2, <1>3, <1>4, <1>6 DEF TakePop, TypeOK

(* A step that only moves a thread. *)
LEMMA MoveType ==
    ASSUME TypeOK, NEW t \in Threads, NEW w \in Where, pc' = At(t, w),
           arg' \in [Producers -> Cell],
           UNCHANGED <<ring, stats, shutdown, out>>
    PROVE  TypeOK'
<1>1. pc' \in [Threads -> Where]
    BY AtType DEF TypeOK
<1> QED BY <1>1 DEF TypeOK, ring, stats

LEMMA TypeStep == TypeOK /\ [Next]_vars => TypeOK'
<1> SUFFICES ASSUME TypeOK, [Next]_vars PROVE TypeOK'
    OBVIOUS
<1> USE DEF Threads, Where
<1>1. ASSUME NEW p \in Producers, NEW s \in Sample, NEW timed \in BOOLEAN,
             PushCall(p, s, timed)
      PROVE  TypeOK'
    <2>1. CASE timed /\ WaitNotFull(p) /\ arg' = [arg EXCEPT ![p] = s]
        <3>1. arg' \in [Producers -> Cell]
            BY <2>1 DEF TypeOK, Cell
        <3> QED BY <2>1, <3>1, MoveType DEF WaitNotFull
    <2>2. CASE StorePush(p, s) /\ UNCHANGED arg
        BY <2>2, StorePushType DEF TypeOK, Cell
    <2>3. CASE RefusePush(p)
        BY <2>3, MoveType DEF RefusePush, TypeOK
    <2> QED BY <1>1, <2>1, <2>2, <2>3 DEF PushCall
<1>2. ASSUME NEW p \in Producers, PushResume(p) \/ PushTimedOut(p)
      PROVE  TypeOK'
    <2>1. CASE WaitNotFull(p) /\ UNCHANGED arg
        BY <2>1, MoveType DEF WaitNotFull, TypeOK
    <2>2. CASE StorePush(p, arg[p]) /\ UNCHANGED arg
        BY <2>2, StorePushType DEF TypeOK
    <2>3. CASE RefusePush(p)
        BY <2>3, MoveType DEF RefusePush, TypeOK
    <2> QED BY <1>2, <2>1, <2>2, <2>3 DEF PushResume, PushTimedOut
<1>3. ASSUME NEW c \in Consumers,
             \/ \E timed \in BOOLEAN : PopCall(c, timed)
             \/ PopResume(c) \/ PopTimedOut(c)
      PROVE  TypeOK'
    <2>1. CASE TakePop(c)
        BY <2>1, TakePopType
    <2>2. CASE WaitNotEmpty(c)
        BY <2>2, MoveType DEF WaitNotEmpty, TypeOK
    <2>3. CASE FailPop(c)
        BY <2>3, MoveType DEF FailPop, TypeOK
    <2> QED BY <1>3, <2>1, <2>2, <2>3 DEF PopCall, PopResume, PopTimedOut
<1>4. ASSUME NEW t \in Threads, Timeout(t) \/ SpuriousWakeup(t)
      PROVE  TypeOK'
    BY <1>4, MoveType DEF Timeout, SpuriousWakeup, TypeOK
<1>5. CASE Shutdown
    BY <1>5 DEF Shutdown, Broadcast, TypeOK, ring, stats
<1>6. CASE UNCHANGED vars
    BY <1>6 DEF vars, TypeOK
<1> QED BY <1>1, <1>2, <1>3, <1>4, <1>5, <1>6 DEF Next

LEMMA InitType == Init => TypeOK
<1> SUFFICES ASSUME Init PROVE TypeOK
    OBVIOUS
<1>1. 0 \in Slots /\ 0 \in 0 .. Capacity
    BY QueueAssumption DEF Slots
<1>2. samples \in [Slots -> Cell] /\ pc \in [Threads -> Where]
    BY DEF Init, Cell, Where
<1>3. arg \in [Producers -> Cell] /\ out \in [Consumers -> Cell]
    BY DEF Init, Cell
<1> QED BY <1>1, <1>2, <1>3 DEF Init, TypeOK

(* Type correctness: no cursor ever leaves the array (sample_queue.c       *)
(* indexes q->samples with head and tail unchecked, lines 105 and 148).    *)
THEOREM TypeCorrect == Spec => []TypeOK
BY InitType, TypeStep, PTL DEF Spec
-----------------------------------------------------------------------------
(* A producer inside the queue has a sample in hand: what is copied into   *)
(* the ring after a wait is the sample of the call.                        *)
ArgHeld == \A p \in Producers : pc[p] # "idle" => arg[p] \in Sample

IInv == /\ TypeOK
        /\ RingConsistent
        /\ Conservation
        /\ ArgHeld
        /\ NoSleepAfterShutdown

LEMMA StorePushStep ==
    ASSUME IInv, NEW p \in Producers, NEW s \in Sample, StorePush(p, s),
           UNCHANGED arg
    PROVE  IInv'
<1> USE QueueAssumption DEF IInv
<1>1. TypeOK'
    BY StorePushType DEF TypeOK, Cell
<1>2. RingConsistent'
    <2>1. /\ Capacity \in Nat \ {0} /\ tail \in 0 .. Capacity - 1
          /\ head \in 0 .. Capacity - 1 /\ count \in 0 .. Capacity
        BY DEF TypeOK, Slots
    <2>2. /\ After(head) = IF head + 1 < Capacity THEN head + 1 ELSE 0
          /\ After(tail) = IF tail + 1 < Capacity THEN tail + 1 ELSE 0
          /\ After(tail) \in 0 .. Capacity - 1
        BY AfterSlot DEF TypeOK, Slots
    <2>3. head = IF tail + count < Capacity THEN tail + count
                                            ELSE tail + count - Capacity
        BY <2>1, ModSum DEF RingConsistent
    <2>4. CASE Full
        <3>1. count = Capacity /\ head = tail
            <4>1. count = Capacity
                BY <2>1, <2>4 DEF Full
            <4> QED BY <2>1, <2>3, <4>1
        <3>2. head' = After(tail) /\ tail' = After(tail) /\ count' = Capacity
            BY <2>4, <3>1 DEF StorePush, MakeRoom
        <3>3. (After(tail) + Capacity) % Capacity = After(tail)
            BY <2>1, <2>2, FullLap
        <3> QED BY <3>2, <3>3 DEF RingConsistent
    <2>5. CASE ~Full
        <3>1. /\ head' = After(head) /\ tail' = tail /\ count' = count + 1
              /\ count + 1 \in 0 .. Capacity
            BY <2>1, <2>5 DEF StorePush, MakeRoom, Full
        <3>2. (tail + (count + 1)) % Capacity
                 = IF tail + (count + 1) < Capacity
                   THEN tail + (count + 1) ELSE tail + (count + 1) - Capacity
            BY <2>1, <3>1, ModSum
        <3> QED BY <2>1, <2>2, <2>3, <3>1, <3>2 DEF RingConsistent
    <2> QED BY <2>4, <2>5
<1>3. Conservation'
    BY DEF Conservation, StorePush, MakeRoom, TypeOK, Full
<1>4. /\ pc' \in Signal(Consumers, At(p, "idle"))
      /\ At(p, "idle") \in [Threads -> Where] /\ Consumers \subseteq Threads
    BY AtType DEF StorePush, TypeOK, Threads, Where
<1>5. \A t \in Threads : \/ pc'[t] = At(p, "idle")[t]
                         \/ At(p, "idle")[t] = "waiting" /\ pc'[t] = "signalled"
    BY <1>4, SignalEffect
<1>6. ArgHeld'
    BY <1>5 DEF ArgHeld, At, TypeOK, Threads
<1>7. NoSleepAfterShutdown'
    BY DEF NoSleepAfterShutdown, StorePush
<1> QED BY <1>1, <1>2, <1>3, <1>6, <1>7

LEMMA TakePopStep ==
    ASSUME IInv, NEW c \in Consumers, TakePop(c)
    PROVE  IInv'
<1> USE QueueAssumption DEF IInv
<1>1. TypeOK'
    BY TakePopType
<1>2. RingConsistent'
    <2>1. /\ Capacity \in Nat \ {0} /\ tail \in 0 .. Capacity - 1
          /\ count \in 0 .. Capacity /\ count # 0
        BY DEF TypeOK, Slots, TakePop, Empty
    <2>2. /\ After(tail) = IF tail + 1 < Capacity THEN tail + 1 ELSE 0
          /\ After(tail) \in 0 .. Capacity - 1
        BY AfterSlot DEF TypeOK, Slots
    <2>3. head = IF tail + count < Capacity THEN tail + count
                                            ELSE tail + count - Capacity
        BY <2>1, ModSum DEF RingConsistent
    <2>4. /\ head' = head /\ tail' = After(tail) /\ count' = count - 1
          /\ count - 1 \in 0 .. Capacity
        BY <2>1 DEF TakePop
    <2>5. (After(tail) + (count - 1)) % Capacity
             = IF After(tail) + (count - 1) < Capacity
               THEN After(tail) + (count - 1)
               ELSE After(tail) + (count - 1) - Capacity
        BY <2>1, <2>2, <2>4, ModSum
    <2> QED BY <2>1, <2>2, <2>3, <2>4, <2>5 DEF RingConsistent
<1>3. Conservation'
    BY DEF Conservation, TakePop, TypeOK
<1>4. /\ pc' \in Signal(Producers, At(c, "idle"))
      /\ At(c, "idle") \in [Threads -> Where] /\ Producers \subseteq Threads
    BY AtType DEF TakePop, TypeOK, Threads, Where
<1>5. \A t \in Threads : \/ pc'[t] = At(c, "idle")[t]
                         \/ At(c, "idle")[t] = "waiting" /\ pc'[t] = "signalled"
    BY <1>4, SignalEffect
<1>6. ArgHeld'
    BY <1>5 DEF ArgHeld, At, TypeOK, Threads, TakePop
<1>7. NoSleepAfterShutdown'
    BY <1>5 DEF NoSleepAfterShutdown, Sleeping, At, TypeOK, Threads, TakePop
<1> QED BY <1>1, <1>2, <1>3, <1>6, <1>7

(* A step that only moves a thread, and lays it to sleep only in an open   *)
(* queue, preserves the invariant if the thread has its sample.            *)
LEMMA MoveStep ==
    ASSUME IInv, NEW t \in Threads, NEW w \in Where, pc' = At(t, w),
           w = "waiting" => ~shutdown,
           arg' \in [Producers -> Cell], ArgHeld',
           UNCHANGED <<ring, stats, shutdown, out>>
    PROVE  IInv'
<1> USE DEF IInv
<1>1. TypeOK'
    BY MoveType
<1>2. RingConsistent' /\ Conservation'
    BY DEF RingConsistent, Conservation, ring, stats
<1>3. NoSleepAfterShutdown'
    BY DEF NoSleepAfterShutdown, Sleeping, At, TypeOK
<1> QED BY <1>1, <1>2, <1>3

LEMMA InvStep == IInv /\ [Next]_vars => IInv'
<1> SUFFICES ASSUME IInv, [Next]_vars PROVE IInv'
    OBVIOUS
<1> USE DEF Threads, Where, IInv
<1>1. ASSUME NEW p \in Producers, NEW s \in Sample, NEW timed \in BOOLEAN,
             PushCall(p, s, timed)
      PROVE  IInv'
    <2>1. CASE timed /\ WaitNotFull(p) /\ arg' = [arg EXCEPT ![p] = s]
        <3>1. arg' \in [Producers -> Cell] /\ ArgHeld'
            BY <2>1 DEF TypeOK, Cell, ArgHeld, WaitNotFull, At
        <3> QED BY <2>1, <3>1, MoveStep DEF WaitNotFull
    <2>2. CASE StorePush(p, s) /\ UNCHANGED arg
        BY <2>2, StorePushStep
    <2>3. CASE RefusePush(p)
        <3>1. arg' \in [Producers -> Cell] /\ ArgHeld'
            BY <2>3 DEF TypeOK, ArgHeld, RefusePush, At
        <3> QED BY <2>3, <3>1, MoveStep DEF RefusePush
    <2> QED BY <1>1, <2>1, <2>2, <2>3 DEF PushCall
<1>2. ASSUME NEW p \in Producers, PushResume(p) \/ PushTimedOut(p)
      PROVE  IInv'
    <2>1. arg[p] \in Sample
        BY <1>2 DEF PushResume, PushTimedOut, ArgHeld
    <2>2. CASE WaitNotFull(p) /\ UNCHANGED arg
        <3>1. arg' \in [Producers -> Cell] /\ ArgHeld'
            BY <2>1, <2>2 DEF TypeOK, ArgHeld, WaitNotFull, At
        <3> QED BY <2>2, <3>1, MoveStep DEF WaitNotFull
    <2>3. CASE StorePush(p, arg[p]) /\ UNCHANGED arg
        BY <2>1, <2>3, StorePushStep
    <2>4. CASE RefusePush(p)
        <3>1. arg' \in [Producers -> Cell] /\ ArgHeld'
            BY <2>4 DEF TypeOK, ArgHeld, RefusePush, At
        <3> QED BY <2>4, <3>1, MoveStep DEF RefusePush
    <2> QED BY <1>2, <2>2, <2>3, <2>4 DEF PushResume, PushTimedOut
<1>3. ASSUME NEW c \in Consumers,
             \/ \E timed \in BOOLEAN : PopCall(c, timed)
             \/ PopResume(c) \/ PopTimedOut(c)
      PROVE  IInv'
    <2>1. CASE TakePop(c)
        BY <2>1, TakePopStep
    <2>2. CASE WaitNotEmpty(c)
        <3>1. arg' \in [Producers -> Cell] /\ ArgHeld'
            BY <2>2, QueueAssumption DEF TypeOK, ArgHeld, WaitNotEmpty, At
        <3> QED BY <2>2, <3>1, MoveStep DEF WaitNotEmpty
    <2>3. CASE FailPop(c)
        <3>1. arg' \in [Producers -> Cell] /\ ArgHeld'
            BY <2>3 DEF TypeOK, ArgHeld, FailPop, At
        <3> QED BY <2>3, <3>1, MoveStep DEF FailPop
    <2> QED BY <1>3, <2>1, <2>2, <2>3 DEF PopCall, PopResume, PopTimedOut
<1>4. ASSUME NEW t \in Threads, Timeout(t) \/ SpuriousWakeup(t)
      PROVE  IInv'
    <2>1. arg' \in [Producers -> Cell] /\ ArgHeld'
        BY <1>4 DEF TypeOK, ArgHeld, Timeout, SpuriousWakeup, At
    <2> QED BY <1>4, <2>1, MoveStep DEF Timeout, SpuriousWakeup
<1>5. CASE Shutdown
    <2>1. TypeOK'
        BY <1>5, TypeStep DEF Next
    <2>2. RingConsistent' /\ Conservation'
        BY <1>5 DEF Shutdown, RingConsistent, Conservation, ring, stats
    <2>3. ArgHeld' /\ NoSleepAfterShutdown'
        BY <1>5 DEF Shutdown, Broadcast, ArgHeld, NoSleepAfterShutdown,
                    Sleeping, TypeOK
    <2> QED BY <2>1, <2>2, <2>3
<1>6. CASE UNCHANGED vars
    BY <1>6 DEF vars, TypeOK, RingConsistent, Conservation, ArgHeld,
                NoSleepAfterShutdown, Sleeping
<1> QED BY <1>1, <1>2, <1>3, <1>4, <1>5, <1>6 DEF Next

LEMMA InvInit == Init => IInv
<1> SUFFICES ASSUME Init PROVE IInv
    OBVIOUS
<1>1. TypeOK
    BY InitType
<1>2. RingConsistent
    <2>1. (0 + 0) % Capacity = 0
        BY ModSum, QueueAssumption
    <2> QED BY <2>1 DEF Init, RingConsistent
<1>3. Conservation /\ ArgHeld /\ NoSleepAfterShutdown
    BY DEF Init, Conservation, ArgHeld, NoSleepAfterShutdown, Threads
<1> QED BY <1>1, <1>2, <1>3 DEF IInv

LEMMA Invariance == Spec => []IInv
BY InvInit, InvStep, PTL DEF Spec

(* The three cursors never drift apart, on any path through push and pop,  *)
(* for every capacity.                                                     *)
THEOREM RingCorrect == Spec => []RingConsistent
<1>1. IInv => RingConsistent
    BY DEF IInv
<1> QED BY <1>1, Invariance, PTL

(* Every sample pushed was popped, counted as lost, or is in the queue.    *)
THEOREM ConservationCorrect == Spec => []Conservation
<1>1. IInv => Conservation
    BY DEF IInv
<1> QED BY <1>1, Invariance, PTL

(* After sample_queue_shutdown nobody sleeps in the queue.                 *)
THEOREM ShutdownWakes == Spec => []NoSleepAfterShutdown
<1>1. IInv => NoSleepAfterShutdown
    BY DEF IInv
<1> QED BY <1>1, Invariance, PTL
-----------------------------------------------------------------------------
(* The ring implements the bounded drop-oldest FIFO.                       *)

(* The slots from t on are slots. *)
LEMMA SlotOf ==
    ASSUME NEW t \in Slots, NEW k \in 0 .. Capacity
    PROVE  /\ (t + k) % Capacity
                = IF t + k < Capacity THEN t + k ELSE t + k - Capacity
           /\ (t + k) % Capacity \in Slots
<1>1. Capacity \in Nat \ {0} /\ t \in 0 .. Capacity - 1
    BY QueueAssumption DEF Slots
<1>2. (t + k) % Capacity
         = IF t + k < Capacity THEN t + k ELSE t + k - Capacity
    BY <1>1, ModSum
<1> QED BY <1>1, <1>2 DEF Slots

(* n samples of the ring r, from slot t on. *)
View(r, t, n) == [i \in 1 .. n |-> r[(t + (i - 1)) % Capacity]]

LEMMA ViewType ==
    ASSUME NEW r \in [Slots -> Cell], NEW t \in Slots, NEW n \in 0 .. Capacity
    PROVE  View(r, t, n) \in Seq(Cell) /\ Len(View(r, t, n)) = n
<1>1. \A i \in 1 .. n : r[(t + (i - 1)) % Capacity] \in Cell
    <2> TAKE i \in 1 .. n
    <2>1. i - 1 \in 0 .. Capacity
        BY QueueAssumption
    <2> QED BY <2>1, SlotOf
<1>2. n \in Nat
    OBVIOUS
<1> QED BY <1>1, <1>2 DEF View

LEMMA ContentsType ==
    /\ TypeOK => Contents \in Seq(Cell) /\ Len(Contents) = count
    /\ TypeOK' => Contents' \in Seq(Cell) /\ Len(Contents') = count'
<1>1. /\ Contents = View(samples, tail, count)
      /\ Contents' = View(samples', tail', count')
    BY DEF Contents, View
<1> QED BY <1>1, ViewType DEF TypeOK

LEMMA StorePushRefines ==
    ASSUME IInv, NEW p \in Producers, NEW s \in Sample, StorePush(p, s),
           UNCHANGED arg
    PROVE  Fifo!Push(s)
<1>1. TypeOK /\ TypeOK' /\ s \in Cell
    BY StorePushStep DEF IInv, Cell
<1>2. /\ Capacity \in Nat \ {0} /\ count \in 0 .. Capacity
      /\ tail \in 0 .. Capacity - 1 /\ head \in Slots
      /\ samples \in [Slots -> Cell]
    BY <1>1, QueueAssumption DEF TypeOK, Slots
<1>3. head = (tail + count) % Capacity
    BY DEF IInv, RingConsistent
<1>4. samples' = [samples EXCEPT ![head] = s]
    BY DEF StorePush
<1>5. Contents' = [i \in 1 .. count' |-> samples'[(tail' + (i - 1)) % Capacity]]
    BY DEF Contents
<1>6. CASE Full
    <2>1. count = Capacity /\ count' = Capacity /\ head = tail
        <3>1. count = Capacity
            BY <1>2, <1>6 DEF Full
        <3>2. (tail + Capacity) % Capacity = tail
            BY <1>2, FullLap
        <3> QED BY <1>3, <1>6, <3>1, <3>2 DEF StorePush
    <2>2. tail' = After(tail) /\ overflow_count' = overflow_count + 1
        BY <1>6 DEF StorePush, MakeRoom
    <2>3. After(tail) = IF tail + 1 < Capacity THEN tail + 1 ELSE 0
        BY <1>2, AfterSlot DEF Slots
    <2>4. Contents \in Seq(Cell) /\ Len(Contents) = Capacity
        BY <1>1, <2>1, ContentsType
    <2>5. /\ Tail(Contents) \in Seq(Cell)
          /\ Len(Tail(Contents)) = Capacity - 1
          /\ \A i \in 1 .. Capacity - 1 : Tail(Contents)[i] = Contents[i + 1]
        BY <1>2, <2>4
    <2> DEFINE L == Append(Tail(Contents), s)
    <2>6. /\ L \in Seq(Cell) /\ Len(L) = Capacity
          /\ \A i \in 1 .. Capacity - 1 : L[i] = Contents[i + 1]
          /\ L[Capacity] = s
        BY <1>1, <1>2, <2>5
    <2> HIDE DEF L
    <2>7. Contents' \in Seq(Cell) /\ Len(Contents') = Capacity
        BY <1>1, <2>1, ContentsType
    <2>8. ASSUME NEW i \in 1 .. Capacity PROVE Contents'[i] = L[i]
        <3>1. i - 1 \in 0 .. Capacity /\ After(tail) \in 0 .. Capacity - 1
            BY <1>2, <2>3
        <3>2. (After(tail) + (i - 1)) % Capacity
                 = IF After(tail) + (i - 1) < Capacity THEN After(tail) + (i - 1)
                   ELSE After(tail) + (i - 1) - Capacity
            BY <1>2, <3>1, ModSum
        <3>3. Contents'[i] = samples'[(After(tail) + (i - 1)) % Capacity]
            BY <1>5, <2>1, <2>2
        <3>4. CASE i = Capacity
            <4>1. (After(tail) + (i - 1)) % Capacity = tail
                BY <1>2, <2>3, <3>2, <3>4
            <4>2. Contents'[i] = s
                BY <1>2, <1>4, <2>1, <3>3, <4>1
            <4> QED BY <2>6, <3>4, <4>2
        <3>5. CASE i < Capacity
            <4>1. i \in 0 .. Capacity /\ i + 1 \in 1 .. count
                BY <1>2, <2>1, <3>5
            <4>2. /\ (tail + i) % Capacity = IF tail + i < Capacity THEN tail + i
                                             ELSE tail + i - Capacity
                  /\ (tail + i) % Capacity \in Slots
                BY <1>2, <4>1, SlotOf DEF Slots
            <4>3. /\ (After(tail) + (i - 1)) % Capacity = (tail + i) % Capacity
                  /\ (tail + i) % Capacity # tail
                BY <1>2, <2>3, <3>2, <3>5, <4>2
            <4>4. Contents[i + 1] = samples[(tail + ((i + 1) - 1)) % Capacity]
                BY <4>1 DEF Contents
            <4>5. (i + 1) - 1 = i
                OBVIOUS
            <4>6. Contents'[i] = Contents[i + 1]
                BY <1>2, <1>4, <2>1, <3>3, <4>2, <4>3, <4>4, <4>5
            <4> QED BY <2>6, <3>5, <4>6
        <3>6. i = Capacity \/ i < Capacity
            BY <1>2
        <3> QED BY <3>4, <3>5, <3>6
    <2>9. Contents' = L
        BY <2>6, <2>7, <2>8, SeqEqual
    <2> QED BY <1>2, <2>2, <2>4, <2>9 DEF Fifo!Push, StorePush, L
<1>7. CASE ~Full
    <2>1. /\ count < Capacity /\ count' = count + 1 /\ tail' = tail
          /\ overflow_count' = overflow_count
        BY <1>2, <1>7 DEF StorePush, MakeRoom, Full
    <2>2. Contents \in Seq(Cell) /\ Len(Contents) = count
        BY <1>1, ContentsType
    <2> DEFINE L == Append(Contents, s)
    <2>3. /\ L \in Seq(Cell) /\ Len(L) = count + 1
          /\ \A i \in 1 .. count : L[i] = Contents[i]
          /\ L[count + 1] = s
        BY <1>1, <1>2, <2>2
    <2> HIDE DEF L
    <2>4. Contents' \in Seq(Cell) /\ Len(Contents') = count + 1
        BY <1>1, <2>1, ContentsType
    <2>5. ASSUME NEW i \in 1 .. count + 1 PROVE Contents'[i] = L[i]
        <3>1. i - 1 \in 0 .. Capacity /\ count \in 0 .. Capacity
            BY <1>2, <2>1
        <3>2. Contents'[i] = samples'[(tail + (i - 1)) % Capacity]
            BY <1>5, <2>1
        <3>3. CASE i = count + 1
            <4>1. Contents'[i] = s
                BY <1>2, <1>3, <1>4, <3>2, <3>3
            <4> QED BY <2>3, <3>3, <4>1
        <3>4. CASE i < count + 1
            <4>1. i \in 1 .. count
                BY <1>2, <3>4
            <4>2. /\ (tail + (i - 1)) % Capacity
                        = IF tail + (i - 1) < Capacity THEN tail + (i - 1)
                          ELSE tail + (i - 1) - Capacity
                  /\ (tail + (i - 1)) % Capacity \in Slots
                BY <1>2, <3>1, SlotOf DEF Slots
            <4>3. (tail + count) % Capacity
                     = IF tail + count < Capacity THEN tail + count
                       ELSE tail + count - Capacity
                BY <1>2, <3>1, SlotOf DEF Slots
            <4>4. (tail + (i - 1)) % Capacity # head
                BY <1>2, <1>3, <2>1, <4>1, <4>2, <4>3
            <4>5. Contents'[i] = Contents[i]
                BY <1>1, <1>2, <1>4, <3>2, <4>1, <4>2, <4>4 DEF Contents
            <4> QED BY <2>3, <4>1, <4>5
        <3>5. i = count + 1 \/ i < count + 1
            BY <1>2
        <3> QED BY <3>3, <3>4, <3>5
    <2>6. Contents' = L
        BY <2>3, <2>4, <2>5, SeqEqual
    <2> QED BY <2>1, <2>2, <2>6 DEF Fifo!Push, StorePush, L
<1> QED BY <1>6, <1>7
LEMMA TakePopRefines ==
    ASSUME IInv, NEW c \in Consumers, TakePop(c)
    PROVE  Fifo!Pop(c)
<1>1. TypeOK /\ TypeOK'
    BY TakePopStep DEF IInv
<1>2. /\ Capacity \in Nat \ {0} /\ count \in 1 .. Capacity
      /\ tail \in 0 .. Capacity - 1
    BY <1>1, QueueAssumption DEF TypeOK, Slots, TakePop, Empty
<1>3. /\ count' = count - 1 /\ tail' = After(tail) /\ samples' = samples
      /\ out' = [out EXCEPT ![c] = samples[tail]]
    BY DEF TakePop
<1>4. After(tail) = IF tail + 1 < Capacity THEN tail + 1 ELSE 0
    BY <1>2, AfterSlot DEF Slots
<1>5. Contents \in Seq(Cell) /\ Len(Contents) = count /\ Contents # <<>>
    BY <1>1, <1>2, ContentsType
<1>6. Head(Contents) = samples[tail]
    <2>1. Head(Contents) = Contents[1]
        BY <1>5
    <2>2. Contents[1] = samples[(tail + 0) % Capacity]
        BY <1>2 DEF Contents
    <2>3. (tail + 0) % Capacity = tail
        BY <1>2, ModSum
    <2> QED BY <2>1, <2>2, <2>3
<1> DEFINE L == Tail(Contents)
<1>7. /\ L \in Seq(Cell) /\ Len(L) = count - 1
      /\ \A i \in 1 .. count - 1 : L[i] = Contents[i + 1]
    BY <1>2, <1>5
<1> HIDE DEF L
<1>8. Contents' \in Seq(Cell) /\ Len(Contents') = count - 1
    BY <1>1, <1>3, ContentsType
<1>9. ASSUME NEW i \in 1 .. count - 1 PROVE Contents'[i] = L[i]
    <2>1. /\ i \in 0 .. Capacity /\ i - 1 \in 0 .. Capacity
          /\ i + 1 \in 1 .. count /\ (i + 1) - 1 = i
          /\ After(tail) \in 0 .. Capacity - 1
        BY <1>2, <1>4
    <2>2. Contents'[i] = samples[(After(tail) + (i - 1)) % Capacity]
        BY <1>3, <2>1 DEF Contents
    <2>3. (After(tail) + (i - 1)) % Capacity
             = IF After(tail) + (i - 1) < Capacity THEN After(tail) + (i - 1)
               ELSE After(tail) + (i - 1) - Capacity
        BY <1>2, <2>1, ModSum
    <2>4. (tail + i) % Capacity
             = IF tail + i < Capacity THEN tail + i ELSE tail + i - Capacity
        BY <1>2, <2>1, ModSum
    <2>5. (After(tail) + (i - 1)) % Capacity = (tail + i) % Capacity
        BY <1>2, <1>4, <2>1, <2>3, <2>4
    <2>6. Contents[i + 1] = samples[(tail + i) % Capacity]
        BY <2>1 DEF Contents
    <2> QED BY <1>7, <2>2, <2>5, <2>6
<1>10. Contents' = L
    BY <1>7, <1>8, <1>9, SeqEqual
<1> QED BY <1>3, <1>5, <1>6, <1>10 DEF Fifo!Pop, TakePop, L

LEMMA StepRefines == IInv /\ [Next]_vars => [Fifo!Next]_(Fifo!vars)
<1> SUFFICES ASSUME IInv, [Next]_vars PROVE Fifo!Next \/ UNCHANGED Fifo!vars
    BY DEF Fifo!vars
<1> USE DEF IInv
<1>1. ASSUME UNCHANGED <<ring, stats, shutdown, out>>
      PROVE  UNCHANGED Fifo!vars
    BY <1>1 DEF Fifo!vars, Contents, ring, stats
<1>2. ASSUME NEW p \in Producers, NEW s \in Sample, NEW timed \in BOOLEAN,
             PushCall(p, s, timed)
      PROVE  Fifo!Next \/ UNCHANGED Fifo!vars
    <2>1. CASE StorePush(p, s) /\ UNCHANGED arg
        BY <2>1, StorePushRefines DEF Fifo!Next
    <2> QED BY <1>1, <1>2, <2>1 DEF PushCall, WaitNotFull, RefusePush
<1>3. ASSUME NEW p \in Producers, PushResume(p) \/ PushTimedOut(p)
      PROVE  Fifo!Next \/ UNCHANGED Fifo!vars
    <2>1. arg[p] \in Sample
        BY <1>3 DEF PushResume, PushTimedOut, ArgHeld
    <2>2. CASE StorePush(p, arg[p]) /\ UNCHANGED arg
        BY <2>1, <2>2, StorePushRefines DEF Fifo!Next
    <2> QED BY <1>1, <1>3, <2>2
            DEF PushResume, PushTimedOut, WaitNotFull, RefusePush
<1>4. ASSUME NEW c \in Consumers,
             \/ \E timed \in BOOLEAN : PopCall(c, timed)
             \/ PopResume(c) \/ PopTimedOut(c)
      PROVE  Fifo!Next \/ UNCHANGED Fifo!vars
    <2>1. CASE TakePop(c)
        BY <2>1, TakePopRefines DEF Fifo!Next
    <2> QED BY <1>1, <1>4, <2>1
            DEF PopCall, PopResume, PopTimedOut, WaitNotEmpty, FailPop
<1>5. ASSUME NEW t \in Threads, Timeout(t) \/ SpuriousWakeup(t)
      PROVE  UNCHANGED Fifo!vars
    BY <1>1, <1>5 DEF Timeout, SpuriousWakeup
<1>6. CASE Shutdown
    BY <1>6 DEF Shutdown, Fifo!Next, Fifo!Close, Contents, ring, stats
<1>7. CASE UNCHANGED vars
    BY <1>1, <1>7 DEF vars, ring, stats
<1> QED BY <1>2, <1>3, <1>4, <1>5, <1>6, <1>7 DEF Next

LEMMA InitRefines == Init => Fifo!Init
<1> SUFFICES ASSUME Init PROVE Fifo!Init
    OBVIOUS
<1>1. Contents = <<>>
    <2>1. Contents \in Seq(Cell) /\ Len(Contents) = 0
        BY InitType, ContentsType DEF Init
    <2> QED BY <2>1
<1> QED BY <1>1 DEF Init, Fifo!Init

(* The ring implements the bounded FIFO that drops its oldest sample: for  *)
(* every capacity and every interleaving of pushes, pops, timeouts and     *)
(* shutdown, a consumer sees samples in the order they were pushed, minus  *)
(* the oldest ones of a full queue.                                        *)
THEOREM RingIsFifo == Spec => ImplementsFifo
BY InitRefines, StepRefines, Invariance, PTL DEF Spec, ImplementsFifo, Fifo!Spec
-----------------------------------------------------------------------------
(* No lost wakeup.  Rel and Slp are Released and Sleeping for threads that *)
(* are where f says.                                                       *)
Rel(S, f) == {t \in S : f[t] = "signalled"}
Slp(S, f) == {t \in S : f[t] = "waiting"}

(* n places may be left untaken beside a sleeper of S only if n threads of *)
(* S are on their way.                                                     *)
Covered(S, f, n) == Slp(S, f) # {} => n <= Cardinality(Rel(S, f))

Sides == {Producers, Consumers}

LEMMA SideFinite ==
    ASSUME NEW S \in Sides, NEW f
    PROVE  /\ S \subseteq Threads
           /\ IsFiniteSet(Rel(S, f))
           /\ Cardinality(Rel(S, f)) \in Nat
<1>1. IsFiniteSet(S) /\ S \subseteq Threads
    BY QueueAssumption DEF Sides, Threads
<1>2. Rel(S, f) \subseteq S
    BY DEF Rel
<1> QED BY <1>1, <1>2, FS_Subset, FS_CardinalityType

(* What is left of the sums once the sets are compared. *)
LEMMA CoveredSum ==
    ASSUME NEW S, NEW f, NEW g, NEW m \in Int, NEW n \in Int,
           Cardinality(Rel(S, f)) \in Nat, Cardinality(Rel(S, g)) \in Nat,
           Slp(S, g) \subseteq Slp(S, f), Covered(S, f, n),
           Cardinality(Rel(S, f)) + m <= Cardinality(Rel(S, g)) + n
    PROVE  Covered(S, g, m)
<1>1. CASE Slp(S, g) = {}
    BY <1>1 DEF Covered
<1>2. CASE Slp(S, g) # {}
    <2>1. Slp(S, f) # {}
        BY <1>2
    <2>2. n <= Cardinality(Rel(S, f))
        BY <2>1 DEF Covered
    <2>3. m <= Cardinality(Rel(S, g))
        BY <2>2
    <2> QED BY <2>3 DEF Covered
<1> QED BY <1>1, <1>2

LEMMA CoveredLess ==
    ASSUME NEW S \in Sides, NEW f, NEW m \in Int, NEW n \in Int, m <= n,
           Covered(S, f, n)
    PROVE  Covered(S, f, m)
<1>1. Cardinality(Rel(S, f)) \in Nat
    BY SideFinite
<1>2. Cardinality(Rel(S, f)) + m <= Cardinality(Rel(S, f)) + n
    BY <1>1
<1> QED BY <1>1, <1>2, CoveredSum

LEMMA CoveredZero ==
    ASSUME NEW S \in Sides, NEW f
    PROVE  Covered(S, f, 0)
BY SideFinite DEF Covered

(* A signal to S makes one more place all right for S. *)
LEMMA SignalCovers ==
    ASSUME NEW S \in Sides, NEW f \in [Threads -> Where],
           NEW g \in Signal(S, f), NEW n \in Int, Covered(S, f, n)
    PROVE  Covered(S, g, n + 1)
<1>1. CASE Slp(S, f) = {}
    BY <1>1 DEF Signal, Slp, Covered
<1>2. CASE Slp(S, f) # {}
    <2>1. PICK t \in Slp(S, f) : g = [f EXCEPT ![t] = "signalled"]
        BY <1>2 DEF Signal, Slp
    <2>2. Rel(S, g) = Rel(S, f) \cup {t} /\ t \notin Rel(S, f)
        BY <2>1, SideFinite DEF Rel, Slp
    <2>3. Cardinality(Rel(S, g)) = Cardinality(Rel(S, f)) + 1
        BY <2>2, SideFinite, FS_AddElement
    <2> QED BY <1>2, <2>3, SideFinite DEF Covered
<1> QED BY <1>1, <1>2

(* A signal to the other side changes nothing for S. *)
LEMMA SignalOther ==
    ASSUME NEW S \in Sides, NEW T \in Sides, S \cap T = {},
           NEW f \in [Threads -> Where], NEW g \in Signal(T, f), NEW n \in Int,
           Covered(S, f, n)
    PROVE  Covered(S, g, n)
<1>1. S \subseteq Threads /\ T \subseteq Threads
    BY SideFinite
<1>2. \A t \in S : g[t] = f[t]
    BY <1>1 DEF Signal
<1>3. Rel(S, g) = Rel(S, f) /\ Slp(S, g) = Slp(S, f)
    BY <1>2 DEF Rel, Slp
<1> QED BY <1>3 DEF Covered

(* A thread that leaves pthread_cond_timedwait and takes a place.          *)
LEMMA LeaveCovers ==
    ASSUME NEW S \in Sides, NEW f \in [Threads -> Where], NEW t \in Threads,
           NEW n \in Int, Covered(S, f, n), f[t] # "waiting",
           NEW g, g = [f EXCEPT ![t] = "idle"]
    PROVE  Covered(S, g, n - 1)
<1>1. Slp(S, g) = Slp(S, f)
    BY SideFinite DEF Slp
<1>4. /\ Cardinality(Rel(S, f)) \in Nat
      /\ Cardinality(Rel(S, g)) \in Nat
    BY SideFinite
<1>2. CASE t \in Rel(S, f)
    <2>1. Rel(S, g) = Rel(S, f) \ {t}
        BY SideFinite DEF Rel
    <2>2. Cardinality(Rel(S, f) \ {t}) = Cardinality(Rel(S, f)) - 1
        BY <1>2, SideFinite, FS_RemoveElement
    <2>3. Cardinality(Rel(S, g)) = Cardinality(Rel(S, f)) - 1
        BY <2>1, <2>2, Zenon
    <2>4. Cardinality(Rel(S, f)) + (n - 1) <= Cardinality(Rel(S, g)) + n
        BY <1>4, <2>3
    <2> QED BY <1>1, <1>4, <2>4, CoveredSum
<1>3. CASE t \notin Rel(S, f)
    <2>1. Rel(S, g) = Rel(S, f)
        BY <1>3, SideFinite DEF Rel
    <2>2. Cardinality(Rel(S, f)) + (n - 1) <= Cardinality(Rel(S, g)) + n
        BY <1>4, <2>1
    <2> QED BY <1>1, <1>4, <2>2, CoveredSum
<1> QED BY <1>2, <1>3

(* A thread that was not released and does not fall asleep, or one of the  *)
(* other side.                                                             *)
LEMMA MoveCovers ==
    ASSUME NEW S \in Sides, NEW f \in [Threads -> Where], NEW t \in Threads,
           NEW w \in Where, NEW n \in Int, Covered(S, f, n),
           t \in S => f[t] # "signalled" /\ w # "waiting",
           NEW g, g = [f EXCEPT ![t] = w]
    PROVE  Covered(S, g, n)
<1>1. Slp(S, g) \subseteq Slp(S, f) /\ Rel(S, f) \subseteq Rel(S, g)
    BY SideFinite DEF Slp, Rel
<1>2. Cardinality(Rel(S, f)) <= Cardinality(Rel(S, g))
    BY <1>1, SideFinite, FS_Subset
<1>3. /\ Cardinality(Rel(S, f)) \in Nat
      /\ Cardinality(Rel(S, g)) \in Nat
    BY SideFinite
<1>4. Cardinality(Rel(S, f)) + n <= Cardinality(Rel(S, g)) + n
    BY <1>2, <1>3
<1> QED BY <1>1, <1>3, <1>4, CoveredSum

(* NoLostWakeup, side by side. *)
LEMMA WakeCovered ==
    /\ NoLostWakeup <=> /\ Covered(Consumers, pc, count)
                        /\ Covered(Producers, pc, Capacity - count)
    /\ NoLostWakeup' <=> /\ Covered(Consumers, pc', count')
                         /\ Covered(Producers, pc', Capacity - count')
BY DEF NoLostWakeup, Covered, Released, Sleeping, Rel, Slp

LEMMA StorePushWakes ==
    ASSUME TypeOK, NoLostWakeup, NEW p \in Producers, pc[p] # "waiting",
           NEW s \in Sample, StorePush(p, s)
    PROVE  NoLostWakeup'
<1> DEFINE f == At(p, "idle")
<1>1. /\ Producers \in Sides /\ Consumers \in Sides
      /\ Producers \cap Consumers = {} /\ p \in Threads /\ "idle" \in Where
    BY QueueAssumption DEF Sides, Threads, Where
<1>2. /\ pc \in [Threads -> Where] /\ f \in [Threads -> Where]
      /\ f = [pc EXCEPT ![p] = "idle"]
    BY <1>1, AtType DEF TypeOK, At
<1>3. pc' \in Signal(Consumers, f)
    BY DEF StorePush
<1>4. count \in Int /\ Capacity - count \in Int /\ Capacity - count - 1 \in Int
    BY QueueAssumption DEF TypeOK
<1> HIDE DEF f
<1>5. Covered(Consumers, pc', count + 1)
    <2>1. Covered(Consumers, f, count)
        BY <1>1, <1>2, <1>4, WakeCovered, MoveCovers
    <2> QED BY <1>1, <1>2, <1>3, <1>4, <2>1, SignalCovers
<1>6. Covered(Producers, pc', Capacity - count - 1)
    <2>1. Covered(Producers, f, Capacity - count - 1)
        BY <1>1, <1>2, <1>4, WakeCovered, LeaveCovers
    <2> QED BY <1>1, <1>2, <1>3, <1>4, <2>1, SignalOther
<1>7. CASE Full
    <2>1. count' = Capacity /\ count' = count /\ Capacity - count' = 0
        BY <1>7, QueueAssumption DEF StorePush, Full, TypeOK
    <2>2. Covered(Consumers, pc', count')
        <3>1. count' \in Int /\ count + 1 \in Int /\ count' <= count + 1
            BY <1>4, <2>1
        <3> QED BY <1>1, <1>5, <3>1, CoveredLess
    <2>3. Covered(Producers, pc', Capacity - count')
        BY <1>1, <2>1, CoveredZero
    <2> QED BY <2>2, <2>3, WakeCovered
<1>8. CASE ~Full
    <2>1. count' = count + 1 /\ Capacity - count' = Capacity - count - 1
        BY <1>8, QueueAssumption DEF StorePush, TypeOK
    <2> QED BY <1>5, <1>6, <2>1, WakeCovered
<1> QED BY <1>7, <1>8

LEMMA TakePopWakes ==
    ASSUME TypeOK, NoLostWakeup, NEW c \in Consumers, pc[c] # "waiting",
           TakePop(c)
    PROVE  NoLostWakeup'
<1> DEFINE f == At(c, "idle")
<1>1. /\ Producers \in Sides /\ Consumers \in Sides
      /\ Consumers \cap Producers = {} /\ c \in Threads /\ "idle" \in Where
      /\ c \notin Producers
    BY QueueAssumption DEF Sides, Threads, Where
<1>2. /\ pc \in [Threads -> Where] /\ f \in [Threads -> Where]
      /\ f = [pc EXCEPT ![c] = "idle"]
    BY <1>1, AtType DEF TypeOK, At
<1>3. pc' \in Signal(Producers, f)
    BY DEF TakePop
<1>4. count \in Int /\ Capacity - count \in Int /\ count - 1 \in Int
    BY QueueAssumption DEF TypeOK
<1> HIDE DEF f
<1>5. Covered(Producers, pc', (Capacity - count) + 1)
    <2>1. Covered(Producers, f, Capacity - count)
        BY <1>1, <1>2, <1>4, WakeCovered, MoveCovers
    <2> QED BY <1>1, <1>2, <1>3, <1>4, <2>1, SignalCovers
<1>6. Covered(Consumers, pc', count - 1)
    <2>1. Covered(Consumers, f, count - 1)
        BY <1>1, <1>2, <1>4, WakeCovered, LeaveCovers
    <2> QED BY <1>1, <1>2, <1>3, <1>4, <2>1, SignalOther
<1>7. count' = count - 1 /\ Capacity - count' = (Capacity - count) + 1
    BY QueueAssumption DEF TakePop, TypeOK
<1> QED BY <1>5, <1>6, <1>7, WakeCovered

(* A move that neither wakes nor covers anything. *)
LEMMA MoveWakes ==
    ASSUME TypeOK, NoLostWakeup, NEW t \in Threads, NEW w \in Where,
           pc' = At(t, w), count' = count,
           \/ pc[t] # "signalled" /\ w # "waiting"
           \/ t \in Producers /\ Full
           \/ t \in Consumers /\ Empty
    PROVE  NoLostWakeup'
<1>1. /\ Producers \in Sides /\ Consumers \in Sides
      /\ Producers \cap Consumers = {}
    BY QueueAssumption DEF Sides
<1>2. pc \in [Threads -> Where] /\ pc' = [pc EXCEPT ![t] = w]
    BY DEF TypeOK, At
<1>3. count \in Int /\ Capacity - count \in Int
    BY QueueAssumption DEF TypeOK
<1>4. Covered(Consumers, pc', count)
    <2>1. CASE Empty
        BY <1>1, <2>1, CoveredZero DEF Empty
    <2>2. CASE t \in Consumers => pc[t] # "signalled" /\ w # "waiting"
        BY <1>1, <1>2, <1>3, <2>2, WakeCovered, MoveCovers
    <2> QED BY <1>1, <2>1, <2>2
<1>5. Covered(Producers, pc', Capacity - count)
    <2>1. CASE Full
        <3>1. Capacity - count = 0
            BY <2>1, QueueAssumption DEF Full, TypeOK
        <3> QED BY <1>1, <3>1, CoveredZero
    <2>2. CASE t \in Producers => pc[t] # "signalled" /\ w # "waiting"
        BY <1>1, <1>2, <1>3, <2>2, WakeCovered, MoveCovers
    <2> QED BY <1>1, <2>1, <2>2
<1> QED BY <1>4, <1>5, WakeCovered

LEMMA WakeStep == IInv /\ NoLostWakeup /\ [Next]_vars => NoLostWakeup'
<1> SUFFICES ASSUME IInv, NoLostWakeup, [Next]_vars PROVE NoLostWakeup'
    OBVIOUS
<1>1. NoSleepAfterShutdown' /\ TypeOK
    BY InvStep DEF IInv
<1>2. CASE shutdown'
    <2>1. Sleeping(Threads)' = {}
        BY <1>1, <1>2 DEF NoSleepAfterShutdown
    <2>2. Sleeping(Producers)' = {} /\ Sleeping(Consumers)' = {}
        BY <2>1 DEF Sleeping, Threads
    <2> QED BY <2>2 DEF NoLostWakeup
<1>3. CASE ~shutdown'
    <2>1. ASSUME NEW p \in Producers, NEW s \in Sample, NEW timed \in BOOLEAN,
                 PushCall(p, s, timed)
          PROVE  NoLostWakeup'
        <3>1. CASE StorePush(p, s)
            BY <1>1, <2>1, <3>1, StorePushWakes DEF PushCall
        <3>2. CASE WaitNotFull(p)
            BY <1>1, <3>2, MoveWakes DEF WaitNotFull, Threads, Where, ring
        <3> QED BY <1>3, <2>1, <3>1, <3>2 DEF PushCall, RefusePush
    <2>2. ASSUME NEW p \in Producers, PushResume(p) \/ PushTimedOut(p)
          PROVE  NoLostWakeup'
        <3>1. arg[p] \in Sample /\ pc[p] # "waiting"
            BY <2>2 DEF PushResume, PushTimedOut, IInv, ArgHeld
        <3>2. CASE StorePush(p, arg[p])
            BY <1>1, <3>1, <3>2, StorePushWakes
        <3>3. CASE WaitNotFull(p)
            BY <1>1, <3>3, MoveWakes DEF WaitNotFull, Threads, Where, ring
        <3> QED BY <1>3, <2>2, <3>2, <3>3
                DEF PushResume, PushTimedOut, RefusePush
    <2>3. ASSUME NEW c \in Consumers,
                 \/ \E timed \in BOOLEAN : PopCall(c, timed)
                 \/ PopResume(c) \/ PopTimedOut(c)
          PROVE  NoLostWakeup'
        <3>1. pc[c] # "waiting"
            BY <2>3 DEF PopCall, PopResume, PopTimedOut
        <3>2. CASE TakePop(c)
            BY <1>1, <3>1, <3>2, TakePopWakes
        <3>3. CASE WaitNotEmpty(c)
            BY <1>1, <3>3, MoveWakes DEF WaitNotEmpty, Threads, Where, ring
        <3>4. CASE FailPop(c) /\ pc[c] # "signalled"
            BY <1>1, <3>4, MoveWakes DEF FailPop, Threads, Where, ring
        <3>5. CASE FailPop(c) /\ shutdown
            BY <1>3, <3>5 DEF FailPop
        <3> QED BY <2>3, <3>2, <3>3, <3>4, <3>5
                DEF PopCall, PopResume, PopTimedOut
    <2>4. ASSUME NEW t \in Threads, Timeout(t) \/ SpuriousWakeup(t)
          PROVE  NoLostWakeup'
        BY <1>1, <2>4, MoveWakes DEF Timeout, SpuriousWakeup, Where, ring
    <2>5. CASE Shutdown
        BY <1>3, <2>5 DEF Shutdown
    <2>6. CASE UNCHANGED vars
        BY <2>6 DEF vars, NoLostWakeup, Sleeping, Released
    <2> QED BY <2>1, <2>2, <2>3, <2>4, <2>5, <2>6 DEF Next
<1> QED BY <1>2, <1>3

(* No wakeup is lost, with any number of producers and consumers: one      *)
(* pthread_cond_signal per push and per pop is enough although a released  *)
(* thread may find its sample or its slot taken.                           *)
THEOREM NoWakeupLost == Spec => []NoLostWakeup
<1>1. Init => NoLostWakeup
    BY DEF Init, NoLostWakeup, Sleeping, Threads
<1> QED BY <1>1, WakeStep, Invariance, PTL DEF Spec
=============================================================================

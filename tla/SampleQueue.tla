---------------------------- MODULE SampleQueue ----------------------------
(***************************************************************************)
(* app/src/sample_queue.c: the ring buffer with one mutex and two          *)
(* condition variables that joins the stages of the gateway.               *)
(*                                                                         *)
(* A critical section is one step.  It ends where the code unlocks the     *)
(* mutex: on return, or inside pthread_cond_timedwait.  A thread inside    *)
(* that call is "waiting"; a signal makes it "signalled", its deadline     *)
(* makes it "timedout", and it goes on once it has the mutex again.  A     *)
(* deadline is re-armed on every turn of the wait loop, so a waiting       *)
(* thread may time out at any moment, whatever happened before.            *)
(***************************************************************************)
EXTENDS Integers, FiniteSets

CONSTANTS Producers,   \* threads that push
          Consumers,   \* threads that pop
          Sample,      \* samples a producer may push
          NoSample,    \* content of a slot or buffer nothing was copied to
          Capacity,    \* q->capacity; sample_queue_create refuses <= 0
          MaxPushes    \* bound of the model: no push starts beyond it

ASSUME QueueAssumption ==
    /\ Capacity \in Nat \ {0}
    /\ MaxPushes \in Nat
    /\ Producers \cap Consumers = {}
    /\ IsFiniteSet(Producers) /\ IsFiniteSet(Consumers)
    /\ NoSample \notin Sample

VARIABLES samples, head, tail, count,             \* the ring
          shutdown,
          overflow_count, push_count, pop_count,  \* its statistics
          pc,        \* where each thread is with regard to the mutex
          arg,       \* the sample of each producer's call
          out        \* the buffer each consumer passes to pop

ring == <<samples, head, tail, count>>
stats == <<overflow_count, push_count, pop_count>>
vars == <<samples, head, tail, count, shutdown,
          overflow_count, push_count, pop_count, pc, arg, out>>

Threads == Producers \cup Consumers
Slots == 0 .. Capacity - 1
Cell == Sample \cup {NoSample}
Where == {"idle", "waiting", "signalled", "timedout"}

-----------------------------------------------------------------------------
Init == /\ samples = [i \in Slots |-> NoSample]
        /\ head = 0 /\ tail = 0 /\ count = 0
        /\ shutdown = FALSE
        /\ overflow_count = 0 /\ push_count = 0 /\ pop_count = 0
        /\ pc = [t \in Threads |-> "idle"]
        /\ arg = [p \in Producers |-> NoSample]
        /\ out = [c \in Consumers |-> NoSample]

Full == count >= Capacity
Empty == count = 0

AfterNoWrap(i) == i + 1  \* mutant: the wrap is forgotten

(* The slot after i, around the ring. *)
After(i) == (i + 1) % Capacity

At(t, where) == [pc EXCEPT ![t] = where]

(* mutant: signal only when the queue stops being empty or full *)
SignalOnEdge(S, f) ==
    LET W == {t \in S : f[t] = "waiting"}
    IN  IF W = {} \/ count \in 1 .. Capacity - 1
        THEN {f} ELSE {[f EXCEPT ![t] = "signalled"] : t \in W}

(* pthread_cond_signal on the condition the threads of S wait for: one of  *)
(* those still waiting, if any, is released; f says where the threads are. *)
Signal(S, f) ==
    LET W == {t \in S : f[t] = "waiting"}
    IN  IF W = {} THEN {f} ELSE {[f EXCEPT ![t] = "signalled"] : t \in W}

(* mutant: only cond_not_empty is broadcast *)
BroadcastNotEmpty(f) ==
    [t \in Threads |-> IF t \in Consumers /\ f[t] = "waiting"
                       THEN "signalled" ELSE f[t]]

(* pthread_cond_broadcast on both conditions. *)
Broadcast(f) ==
    [t \in Threads |-> IF f[t] = "waiting" THEN "signalled" ELSE f[t]]

-----------------------------------------------------------------------------
(* sample_queue_push, lines 94-114: what is left of the call of p for the  *)
(* sample s once the wait loop is over.                                    *)
RefusePush(p) == /\ shutdown
                 /\ pc' = At(p, "idle")
                 /\ UNCHANGED <<ring, stats, shutdown, arg, out>>

(* mutants: the new sample overwrites the oldest and tail stays; the loss  *)
(* of the oldest is not counted.                                           *)
MakeRoomKeepTail == /\ overflow_count' = overflow_count + (IF Full THEN 1 ELSE 0)
                    /\ UNCHANGED tail
MakeRoomUncounted == /\ tail' = IF Full THEN After(tail) ELSE tail
                     /\ UNCHANGED overflow_count

MakeRoom == IF Full
            THEN /\ tail' = After(tail)
                 /\ overflow_count' = overflow_count + 1
            ELSE UNCHANGED <<tail, overflow_count>>

StorePush(p, s) == /\ ~shutdown
                   /\ MakeRoom
                   /\ samples' = [samples EXCEPT ![head] = s]
                   /\ head' = After(head)
                   /\ count' = IF Full THEN count ELSE count + 1
                   /\ push_count' = push_count + 1
                   /\ pc' \in Signal(Consumers, At(p, "idle"))
                   /\ UNCHANGED <<shutdown, pop_count, out>>

(* The wait loop: the thread gives the mutex up while the queue is full.   *)
WaitNotFull(p) == /\ Full /\ ~shutdown
                  /\ pc' = At(p, "waiting")
                  /\ UNCHANGED <<ring, stats, shutdown, out>>

(* A call of sample_queue_push.  With timeout_ms <= 0 it never waits.      *)
PushCall(p, s, timed) ==
    /\ pc[p] = "idle"
    /\ push_count < MaxPushes
    /\ \/ timed /\ WaitNotFull(p) /\ arg' = [arg EXCEPT ![p] = s]
       \/ (timed => ~Full) /\ StorePush(p, s) /\ UNCHANGED arg
       \/ RefusePush(p)

(* Back from pthread_cond_timedwait with 0: the loop tests again. *)
PushResume(p) ==
    /\ pc[p] = "signalled"
    /\ \/ WaitNotFull(p) /\ UNCHANGED arg
       \/ ~Full /\ StorePush(p, arg[p]) /\ UNCHANGED arg
       \/ RefusePush(p)

(* Back with ETIMEDOUT: the loop is left, the oldest sample may go. *)
PushTimedOut(p) ==
    /\ pc[p] = "timedout"
    /\ (StorePush(p, arg[p]) /\ UNCHANGED arg) \/ RefusePush(p)

-----------------------------------------------------------------------------
(* sample_queue_pop, lines 143-157. *)
TakePop(c) == /\ ~Empty
              /\ out' = [out EXCEPT ![c] = samples[tail]]
              /\ tail' = After(tail)
              /\ count' = count - 1
              /\ pop_count' = pop_count + 1
              /\ pc' \in Signal(Producers, At(c, "idle"))
              /\ UNCHANGED <<samples, head, shutdown, overflow_count,
                             push_count, arg>>

FailPop(c) == /\ pc' = At(c, "idle")
              /\ UNCHANGED <<ring, stats, shutdown, arg, out>>

(* mutant: the wait loop does not look at shutdown *)
WaitNotEmptyBlind(c) == /\ Empty
                        /\ pc' = At(c, "waiting")
                        /\ UNCHANGED <<ring, stats, shutdown, arg, out>>

WaitNotEmpty(c) == /\ Empty /\ ~shutdown
                   /\ pc' = At(c, "waiting")
                   /\ UNCHANGED <<ring, stats, shutdown, arg, out>>

(* A call of sample_queue_pop.  With timeout_ms <= 0 it never waits. *)
PopCall(c, timed) ==
    /\ pc[c] = "idle"
    /\ \/ TakePop(c)
       \/ timed /\ WaitNotEmpty(c)
       \/ Empty /\ (shutdown \/ ~timed) /\ FailPop(c)

PopResume(c) ==
    /\ pc[c] = "signalled"
    /\ \/ TakePop(c)
       \/ WaitNotEmpty(c)
       \/ Empty /\ shutdown /\ FailPop(c)

(* ETIMEDOUT returns -1 at once, without another look at the count. *)
PopTimedOut(c) == pc[c] = "timedout" /\ FailPop(c)

-----------------------------------------------------------------------------
(* The deadline of a waiting thread passes. *)
Timeout(t) == /\ pc[t] = "waiting"
              /\ pc' = At(t, "timedout")
              /\ UNCHANGED <<ring, stats, shutdown, arg, out>>

(* POSIX lets pthread_cond_timedwait return 0 with nobody signalling. *)
SpuriousWakeup(t) == /\ pc[t] = "waiting"
                     /\ pc' = At(t, "signalled")
                     /\ UNCHANGED <<ring, stats, shutdown, arg, out>>

(* sample_queue_shutdown. *)
Shutdown == /\ ~shutdown
            /\ shutdown' = TRUE
            /\ pc' = Broadcast(pc)
            /\ UNCHANGED <<ring, stats, arg, out>>

Next == \/ \E p \in Producers, s \in Sample, timed \in BOOLEAN :
               PushCall(p, s, timed)
        \/ \E p \in Producers : PushResume(p) \/ PushTimedOut(p)
        \/ \E c \in Consumers, timed \in BOOLEAN : PopCall(c, timed)
        \/ \E c \in Consumers : PopResume(c) \/ PopTimedOut(c)
        \/ \E t \in Threads : Timeout(t) \/ SpuriousWakeup(t)
        \/ Shutdown

(* A thread that may leave pthread_cond_timedwait gets the mutex and goes  *)
(* on: critical sections are finite.  Nothing says that a call is made,    *)
(* that a deadline passes before anything else, or that shutdown comes.    *)
Fairness == /\ \A p \in Producers : WF_vars(PushResume(p) \/ PushTimedOut(p))
            /\ \A c \in Consumers : WF_vars(PopResume(c) \/ PopTimedOut(c))

Spec == Init /\ [][Next]_vars
FairSpec == Spec /\ Fairness
-----------------------------------------------------------------------------
TypeOK == /\ samples \in [Slots -> Cell]
          /\ head \in Slots /\ tail \in Slots
          /\ count \in 0 .. Capacity
          /\ shutdown \in BOOLEAN
          /\ overflow_count \in Nat /\ push_count \in Nat /\ pop_count \in Nat
          /\ pc \in [Threads -> Where]
          /\ arg \in [Producers -> Cell]
          /\ out \in [Consumers -> Cell]

(* The three cursors never drift apart: whatever wraps, drops and takes    *)
(* happened, head is count slots ahead of tail (push lines 99-108, pop     *)
(* lines 148-150).                                                         *)
RingConsistent == head = (tail + count) % Capacity

(* No sample is handed out twice or vanishes unaccounted: what went in was *)
(* taken out, was counted as an overflow, or is still queued.  It relates  *)
(* the statistics main.c prints at exit to the ring itself.                *)
Conservation == push_count = pop_count + overflow_count + count

Released(S) == {t \in S : pc[t] = "signalled"}
Sleeping(S) == {t \in S : pc[t] = "waiting"}

(* No lost wakeup: a consumer sleeps beside queued samples, or a producer  *)
(* beside free slots, only while as many of its kind are already released  *)
(* and on their way to them.  One pthread_cond_signal per push and per pop *)
(* (lines 111 and 154) is enough, also when a wakeup is spurious, a        *)
(* deadline passes, or a newcomer takes what the signal was for.           *)
NoLostWakeup ==
    /\ Sleeping(Consumers) # {} => count <= Cardinality(Released(Consumers))
    /\ Sleeping(Producers) # {}
         => Capacity - count <= Cardinality(Released(Producers))

(* Nobody sleeps through sample_queue_shutdown, or goes to sleep after it. *)
NoSleepAfterShutdown == shutdown => Sleeping(Threads) = {}

(* After shutdown every call that was inside the queue returns, and none   *)
(* blocks again: this is what lets main.c join the threads.                *)
ShutdownReleasesAll == shutdown ~> [](\A t \in Threads : pc[t] = "idle")

(* The queue as its users see it: the samples in the order of their slots. *)
Contents == [i \in 1 .. count |-> samples[(tail + (i - 1)) % Capacity]]

Fifo == INSTANCE BoundedFifo
            WITH buf <- Contents, closed <- shutdown, dropped <- overflow_count

(* Every step of the ring is a step of the bounded drop-oldest FIFO, or    *)
(* changes nothing its users can see.                                      *)
ImplementsFifo == Fifo!Spec
=============================================================================

------------------------------ MODULE Gateway ------------------------------
(***************************************************************************)
(* The pipeline of app/src/main.c: collect thread, raw queue, processor,   *)
(* store queue, store thread and upload thread, and what main() does to    *)
(* start and to stop them.  The queues are two instances of BoundedFifo,   *)
(* which SampleQueue implements.  A thread is between two looks at its     *)
(* shutdown flag, a call of its queue or, for the store thread, of the     *)
(* database.  Samples are numbered as they are made.  What the processor   *)
(* computes for them is left out, and the upload thread only matters as    *)
(* one that uses the database until it is told to stop (see StoreUpload).  *)
(***************************************************************************)
EXTENDS Naturals, Sequences

CONSTANTS QueueCap,     \* DEFAULT_QUEUE_CAPACITY
          MaxSamples,   \* bound of the model: samples made
          Modes         \* "service": main(); "test": run_test()

ASSUME GatewayAssumption ==
    /\ QueueCap \in Nat \ {0} /\ MaxSamples \in Nat
    /\ Modes \subseteq {"service", "test"}

VARIABLES
    mode,
    made,        \* samples made so far
    collect,     \* "none" before its creation, "check", "push", "done"
    proc,        \* "none", "check", "pop", "push", "done"
    store,       \* "none", "check", "pop", "insert", "drain", "final", "done"
    up,          \* "none", "run", "done"
    rawq, rawShut, rawLost, procBuf,           \* raw queue, buffer of its reader
    storeq, storeShut, storeLost, storeBuf,    \* store queue, likewise
    refused,     \* pushes turned down, whose samples are gone
    db,          \* rows of the table, in the order of their insertion
    failed,      \* INSERTs that failed, whose samples are gone
    g_shutdown, procFlag, storeFlag, upFlag,   \* what the threads look at
    dbOpen, queuesAlive,
    todo         \* what main() still has to do

threads == <<collect, proc, store, up>>
raw == <<rawq, rawShut, rawLost, procBuf>>
stq == <<storeq, storeShut, storeLost, storeBuf>>
table == <<db, failed>>
flags == <<g_shutdown, procFlag, storeFlag, upFlag>>
mainVars == <<mode, dbOpen, queuesAlive, todo>>
vars == <<mode, made, threads, raw, stq, refused, table, flags, dbOpen,
          queuesAlive, todo>>

Ids == 1 .. MaxSamples

Raw == INSTANCE BoundedFifo
           WITH Consumers <- {"proc"}, Sample <- Ids, NoSample <- 0,
                Capacity <- QueueCap, buf <- rawq, closed <- rawShut,
                dropped <- rawLost, out <- procBuf

Stq == INSTANCE BoundedFifo
           WITH Consumers <- {"store"}, Sample <- Ids, NoSample <- 0,
                Capacity <- QueueCap, buf <- storeq, closed <- storeShut,
                dropped <- storeLost, out <- storeBuf

-----------------------------------------------------------------------------
(* What main() does, as a list of commands <<verb, object>>.               *)
Create(t) == <<"create", t>>
Join(t) == <<"join", t>>
Tell(f) == <<"tell", f>>      \* set a shutdown flag
Shut(q) == <<"shut", q>>      \* sample_queue_shutdown
Await == <<"await", "signal">>
Lost == <<"lost", "main">>    \* never comes back

Start == <<Create("collect"), Create("proc"), Create("store"), Create("up")>>

Finish == <<<<"close", "db">>, <<"destroy", "queues">>>>

(* mutants: the processor is not told (the hang of test-log.md:1049), the  *)
(* processor is told after the store thread, the queues are shut before    *)
(* anybody is told, the upload thread is not joined.                       *)
StopNoProcFlag ==
    <<Await, Tell("store"), Shut("raw"), Shut("store"), Join("collect"),
      Join("proc"), Join("store"), Tell("up"), Join("up")>> \o Finish
StopProcLate ==
    <<Await, Tell("store"), Tell("proc"), Shut("raw"), Shut("store"),
      Join("collect"), Join("proc"), Join("store"), Tell("up"), Join("up")>>
    \o Finish
StopQueuesFirst ==
    <<Shut("raw"), Shut("store"), Await, Tell("proc"), Tell("store"),
      Join("collect"), Join("proc"), Join("store"), Tell("up"), Join("up")>>
    \o Finish
StopNoJoin ==
    <<Await, Tell("proc"), Tell("store"), Shut("raw"), Shut("store"),
      Join("collect"), Join("proc"), Join("store"), Tell("up")>> \o Finish

(* The end of main(), once SIGINT or SIGTERM came. *)
ServiceStop ==
    <<Await, Tell("proc"), Tell("store"), Shut("raw"), Shut("store"),
      Join("collect"), Join("proc"), Join("store"), Tell("up"), Join("up")>>
    \o Finish

(* The end of run_test(), after its iterations. *)
TestStop ==
    <<Tell("collect"), Tell("proc"), Tell("store"), Tell("up"),
      Shut("raw"), Shut("store"), Join("collect"), Join("proc"),
      Join("store"), Join("up")>> \o Finish

Stop(m) == IF m = "service" THEN ServiceStop ELSE TestStop

(* What is done when pthread_create of the thread t fails. *)
ServiceUndo(t) ==
    CASE t = "collect" -> Finish
      [] t = "proc" -> <<Tell("collect"), Shut("raw"), Join("collect")>> \o Finish
      [] t = "store" -> <<Tell("collect"), Tell("proc"), Shut("raw"), Shut("store"),
                          Join("collect"), Join("proc")>> \o Finish
      [] t = "up" -> <<Tell("collect"), Tell("proc"), Tell("store"), Shut("raw"),
                       Shut("store"), Join("collect"), Join("proc"),
                       Join("store")>> \o Finish

(* run_test() goes on without the upload thread. *)
TestUndo(t) ==
    CASE t = "proc" -> <<Tell("collect"), Join("collect")>> \o Finish
      [] t = "up" -> TestStop
      [] OTHER -> ServiceUndo(t)

Undo(m, t) == IF m = "service" THEN ServiceUndo(t) ELSE TestUndo(t)

Init == /\ mode \in Modes
        /\ made = 0
        /\ collect = "none" /\ proc = "none" /\ store = "none" /\ up = "none"
        /\ Raw!Init /\ Stq!Init
        /\ refused = 0 /\ db = <<>> /\ failed = 0
        /\ g_shutdown = FALSE /\ procFlag = FALSE
        /\ storeFlag = FALSE /\ upFlag = FALSE
        /\ dbOpen = TRUE /\ queuesAlive = TRUE
        /\ todo = Start \o Stop(mode)

-----------------------------------------------------------------------------
(* The collect thread.                                                     *)
CollectMake == /\ collect = "check" /\ ~g_shutdown /\ made < MaxSamples
               /\ made' = made + 1
               /\ collect' = "push"
               /\ UNCHANGED <<proc, store, up, raw, stq, refused, table, flags, mainVars>>

(* The result of sample_queue_push is not looked at. *)
CollectPush == /\ collect = "push"
               /\ collect' = "check"
               /\ \/ Raw!Push(made) /\ UNCHANGED refused
                  \/ rawShut /\ refused' = refused + 1 /\ UNCHANGED raw
               /\ UNCHANGED <<made, proc, store, up, stq, table, flags, mainVars>>

CollectStop == /\ collect = "check" /\ g_shutdown
               /\ collect' = "done"
               /\ UNCHANGED <<made, proc, store, up, raw, stq, refused, table,
                              flags, mainVars>>

Collect == CollectMake \/ CollectPush \/ CollectStop

-----------------------------------------------------------------------------
(* processor_thread.                                                       *)
ProcCheck == /\ proc = "check"
             /\ proc' = IF procFlag THEN "done" ELSE "pop"
             /\ UNCHANGED <<made, collect, store, up, raw, stq, refused, table,
                            flags, mainVars>>

(* A pop that fails leads back to the flag.  One that waited may time out  *)
(* although a sample has come meanwhile (see PopTimedOut of SampleQueue).  *)
ProcPop == /\ proc = "pop"
           /\ \/ Raw!Pop("proc") /\ proc' = "push"
              \/ proc' = "check" /\ UNCHANGED raw
           /\ UNCHANGED <<made, collect, store, up, stq, refused, table, flags, mainVars>>

ProcPush == /\ proc = "push"
            /\ proc' = "check"
            /\ \/ Stq!Push(procBuf["proc"]) /\ UNCHANGED refused
               \/ storeShut /\ refused' = refused + 1 /\ UNCHANGED stq
            /\ UNCHANGED <<made, collect, store, up, raw, table, flags, mainVars>>

Proc == ProcCheck \/ ProcPop \/ ProcPush

-----------------------------------------------------------------------------
(* sqlite_store_thread.                                                    *)
StoreCheck == /\ store = "check"
              /\ store' = IF storeFlag THEN "drain" ELSE "pop"
              /\ UNCHANGED <<made, collect, proc, up, raw, stq, refused, table,
                             flags, mainVars>>

(* mutant: the result of sample_queue_pop is not looked at *)
StorePopUnchecked ==
    /\ store = "pop" /\ store' = "insert"
    /\ Stq!Pop("store") \/ (storeq = <<>> /\ UNCHANGED stq)
    /\ UNCHANGED <<made, collect, proc, up, raw, refused, table, flags, mainVars>>

StorePop == /\ store = "pop"
            /\ \/ Stq!Pop("store") /\ store' = "insert"
               \/ store' = "check" /\ UNCHANGED stq
            /\ UNCHANGED <<made, collect, proc, up, raw, refused, table, flags, mainVars>>

(* sqlite_store_insert: a row, or an error that only write_fail_count sees. *)
StoreInsert == /\ store \in {"insert", "drain insert"}
               /\ \/ db' = Append(db, storeBuf["store"]) /\ UNCHANGED failed
                  \/ failed' = failed + 1 /\ UNCHANGED db
               /\ store' = IF store = "insert" THEN "check" ELSE "drain"
               /\ UNCHANGED <<made, collect, proc, up, raw, stq, refused, flags, mainVars>>

(* The loop after the loop: while (sample_queue_count(store_queue) > 0). *)
StoreDrain == /\ store = "drain"
              /\ \/ Stq!Pop("store") /\ store' = "drain insert"
                 \/ storeq = <<>> /\ store' = "done" /\ UNCHANGED stq
              /\ UNCHANGED <<made, collect, proc, up, raw, refused, table, flags, mainVars>>

Store == StoreCheck \/ StorePop \/ StoreInsert \/ StoreDrain

(* uploader_thread ends: told to, it drains the table and returns. *)
UpStop == /\ up = "run" /\ upFlag
          /\ up' = "done"
          /\ UNCHANGED <<made, collect, proc, store, raw, stq, refused, table,
                         flags, mainVars>>

-----------------------------------------------------------------------------
(* main().                                                                 *)
Does(command) == todo # <<>> /\ Head(todo) = command

Created(t) == /\ collect' = IF t = "collect" THEN "check" ELSE collect
              /\ proc' = IF t = "proc" THEN "check" ELSE proc
              /\ store' = IF t = "store" THEN "check" ELSE store
              /\ up' = IF t = "up" THEN "run" ELSE up

(* pthread_create, which may fail; without upload_enabled main() does not  *)
(* create the upload thread.                                               *)
MainCreate(t) ==
    /\ Does(Create(t))
    /\ \/ Created(t) /\ todo' = Tail(todo)
       \/ todo' = Undo(mode, t) /\ UNCHANGED threads
       \/ t = "up" /\ mode = "service" /\ todo' = Tail(todo) /\ UNCHANGED threads
    /\ UNCHANGED <<made, raw, stq, refused, table, flags, mode, dbOpen, queuesAlive>>

MainAwait == /\ Does(Await) /\ g_shutdown
             /\ todo' = Tail(todo)
             /\ UNCHANGED <<made, threads, raw, stq, refused, table, flags, mode,
                            dbOpen, queuesAlive>>

MainTell(t) == /\ Does(Tell(t))
               /\ g_shutdown' = (g_shutdown \/ t = "collect")
               /\ procFlag' = (procFlag \/ t = "proc")
               /\ storeFlag' = (storeFlag \/ t = "store")
               /\ upFlag' = (upFlag \/ t = "up")
               /\ todo' = Tail(todo)
               /\ UNCHANGED <<made, threads, raw, stq, refused, table, mode,
                              dbOpen, queuesAlive>>

MainShut == /\ \/ Does(Shut("raw")) /\ Raw!Close /\ UNCHANGED stq
               \/ Does(Shut("store")) /\ Stq!Close /\ UNCHANGED raw
            /\ todo' = Tail(todo)
            /\ UNCHANGED <<made, threads, refused, table, flags, mode, dbOpen, queuesAlive>>

State(t) == CASE t = "collect" -> collect [] t = "proc" -> proc
              [] t = "store" -> store [] t = "up" -> up

(* pthread_join.  main() does not join an upload thread it did not create; *)
(* run_test() does, with a thread id nobody initialised: the call may fail *)
(* at once or never return.                                                *)
MainJoin(t) ==
    /\ Does(Join(t))
    /\ \/ State(t) = "done" /\ todo' = Tail(todo)
       \/ t = "up" /\ up = "none" /\ todo' = Tail(todo)
       \/ t = "up" /\ up = "none" /\ mode = "test" /\ todo' = <<Lost>>
    /\ UNCHANGED <<made, threads, raw, stq, refused, table, flags, mode,
                   dbOpen, queuesAlive>>

MainFinish == /\ \/ Does(Finish[1]) /\ dbOpen' = FALSE /\ UNCHANGED queuesAlive
                 \/ Does(Finish[2]) /\ queuesAlive' = FALSE /\ UNCHANGED dbOpen
              /\ todo' = Tail(todo)
              /\ UNCHANGED <<made, threads, raw, stq, refused, table, flags, mode>>

ThreadNames == {"collect", "proc", "store", "up"}

Main == \/ \E t \in ThreadNames : MainCreate(t) \/ MainTell(t) \/ MainJoin(t)
        \/ MainAwait \/ MainShut \/ MainFinish

(* The signal handler; main() enters run_test() before it installs one. *)
Signal == /\ mode = "service" /\ ~g_shutdown /\ todo # <<>>
          /\ g_shutdown' = TRUE
          /\ UNCHANGED <<made, threads, raw, stq, refused, table, procFlag,
                         storeFlag, upFlag, mainVars>>

Next == Collect \/ Proc \/ Store \/ UpStop \/ Main \/ Signal

(* Every thread is scheduled: a push or pop ends within its timeout, a     *)
(* sleep ends.  Nothing says that a signal comes or a thread is created.   *)
Fairness == /\ WF_vars(Collect) /\ WF_vars(Proc) /\ WF_vars(Store)
            /\ WF_vars(UpStop) /\ WF_vars(Main)

Spec == Init /\ [][Next]_vars
FairSpec == Spec /\ Fairness
-----------------------------------------------------------------------------
Exited == todo = <<>>

TypeOK ==
    /\ mode \in Modes /\ made \in 0 .. MaxSamples
    /\ collect \in {"none", "check", "push", "done"}
    /\ proc \in {"none", "check", "pop", "push", "done"}
    /\ store \in {"none", "check", "pop", "insert", "drain", "drain insert", "done"}
    /\ up \in {"none", "run", "done"}
    /\ rawq \in Seq(Ids) /\ Len(rawq) <= QueueCap
    /\ storeq \in Seq(Ids) /\ Len(storeq) <= QueueCap
    /\ procBuf \in [{"proc"} -> Ids \cup {0}]
    /\ storeBuf \in [{"store"} -> Ids \cup {0}]
    /\ {rawLost, storeLost, refused, failed} \subseteq Nat
    /\ db \in Seq(Ids)
    /\ {rawShut, storeShut, g_shutdown, procFlag, storeFlag, upFlag,
        dbOpen, queuesAlive} \subseteq BOOLEAN
    /\ Len(todo) <= Len(Start \o Stop(mode))

(* The sample order survives two queues that drop and threads that lose:   *)
(* rows are stored in the order the samples were made, none twice.         *)
StoredInOrder == \A i, j \in 1 .. Len(db) : i < j => db[i] < db[j]

(* The database is closed, and the queues are destroyed, only when no      *)
(* thread that uses them is left - on every path through start and stop.   *)
Gone == {"none", "done"}
NoUseAfterClose ==
    /\ ~dbOpen => store \in Gone /\ up \in Gone
    /\ ~queuesAlive => collect \in Gone /\ proc \in Gone /\ store \in Gone

(* No sample goes missing uncounted: each one made is in a queue, in the   *)
(* hands of a thread, in the table, was given up by a queue that was full  *)
(* or shut, or lost by an INSERT that failed.                              *)
Held == (IF collect = "push" THEN 1 ELSE 0) + (IF proc = "push" THEN 1 ELSE 0)
        + (IF store \in {"insert", "drain insert"} THEN 1 ELSE 0)
SamplesAccounted ==
    made = Len(rawq) + Len(storeq) + Held + Len(db) + failed
           + rawLost + storeLost + refused

(* Shutting the queues costs each of their writers one sample at most, for *)
(* both writers are told to stop before their queue is shut.               *)
RefusalsBounded == refused <= 2

(* What the store thread leaves behind because it drained too early is the *)
(* one sample the processor had in hand: the processor is told first.      *)
LateSampleBounded == Exited /\ store = "done" => Len(storeq) <= 1

(* README.md:53: the queue is drained before the database is closed. *)
StoreQueueDrained == ~dbOpen /\ mode = "service" /\ store = "done" => storeq = <<>>

(* Once main() is on its way out it gets there: every join ends.           *)
ShutdownTerminates == g_shutdown ~> (Exited \/ Does(Lost))
=============================================================================

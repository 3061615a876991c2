---------------------------- MODULE StoreUpload ----------------------------
(***************************************************************************)
(* The store thread (app/src/sqlite_store.c) and the upload thread         *)
(* (app/src/uploader.c) on their shared table, the TCP connection to the   *)
(* receiver, outages, failing statements, SIGTERM, kill -9 and restarts.   *)
(*                                                                         *)
(* A step is one SQL statement or one system call of one thread.  The      *)
(* query of the uploader is a cursor on the live table: it runs over       *)
(* idx_samples_uploaded in id order, unsorted, so each sqlite3_step finds  *)
(* the first eligible row after the last one as the table is at that time. *)
(* A send that returns has only filled the kernel's buffer: on a           *)
(* connection whose peer is gone it may succeed and be lost, or fail.      *)
(* The statistics written to the log are left out.                         *)
(***************************************************************************)
EXTENDS SampleTable, Sequences

CONSTANTS
    BatchMax,      \* upload_batch_max: rows of one query
    RetryMax,      \* upload_retry_max: failed sends after which a row is skipped
    CacheMax,      \* max_cache_count: rows kept, 0 for no limit
    TrimEvery,     \* samples between two trims (100 in the code)
    QueueLeft,     \* most samples the store queue may hold at shutdown
    \* bounds of the model
    MaxRows,       \* samples stored in a behaviour
    MaxBreaks,     \* outages
    MaxCrashes,    \* kill -9
    MaxDbErrors,   \* statements that fail
    MaxStops       \* SIGTERMs

ASSUME StoreAssumption ==
    /\ BatchMax \in Nat \ {0} /\ RetryMax \in Nat \ {0}
    /\ CacheMax \in Nat /\ TrimEvery \in Nat \ {0} /\ QueueLeft \in Nat
    /\ {MaxRows, MaxBreaks, MaxCrashes, MaxDbErrors, MaxStops} \subseteq Nat

VARIABLES
    db,          \* the samples table, on disk
    nextId,      \* AUTOINCREMENT, on disk: an id is never used twice
    spc,         \* store thread: "run", "pop", "drain", "stopped", "trim1" and "trim2"
                 \* in sqlite_store_trim_cache, "final1" and "final2" for good
    counter,     \* its sample_counter, modulo TrimEvery
    ending,      \* store_ctx.shutdown
    left,        \* samples still in the store queue once it is shut down
    upShutdown,  \* upload_ctx.shutdown
    upc,         \* upload thread: "top", "query", "row", "send", "mark", "fail",
                 \* "stopped"
    draining,    \* it is in the loop after its main loop
    cursor,      \* of its query: [row, budget, hasData]
    conn,        \* its socket: "none", "up", or "broken" with the peer gone
    wire,        \* rows sent and not yet read by the receiver
    netup,       \* the receiver can be reached
    received,    \* how often the receiver got each row
    breaks, crashes, dberrs, stops    \* what has happened so far

storeVars == <<spc, counter, ending, left>>
upVars == <<upShutdown, upc, draining, cursor>>
netVars == <<conn, wire, netup, received>>
faults == <<breaks, crashes, dberrs, stops>>
vars == <<db, nextId, storeVars, upVars, netVars, faults>>

Ids == 1 .. MaxRows

NewCursor == [row |-> 0, budget |-> BatchMax, hasData |-> FALSE]

Init == /\ db = EmptyTable /\ nextId = 1
        /\ spc = "run" /\ counter = 0 /\ ending = FALSE /\ left = 0
        /\ upShutdown = FALSE /\ upc = "top" /\ draining = FALSE
        /\ cursor = NewCursor
        /\ conn = "none" /\ wire = <<>> /\ netup = TRUE
        /\ received = [i \in Ids |-> 0]
        /\ breaks = 0 /\ crashes = 0 /\ dberrs = 0 /\ stops = 0

(* A statement on the table: it takes effect, or fails and has none. *)
Executes(T) == \/ db' = T /\ UNCHANGED dberrs
               \/ dberrs < MaxDbErrors /\ dberrs' = dberrs + 1 /\ UNCHANGED db

-----------------------------------------------------------------------------
(* The store thread.                                                       *)

(* sqlite_store_insert of the sample just popped: a failure loses it. *)
InsertNext ==
    /\ nextId <= MaxRows
    /\ \/ db' = Insert(db, nextId) /\ nextId' = nextId + 1 /\ UNCHANGED dberrs
       \/ /\ dberrs < MaxDbErrors /\ dberrs' = dberrs + 1
          /\ UNCHANGED <<db, nextId>>

(* The loop looks at ctx->shutdown, then waits for a sample. *)
StorePop == /\ spc = "run" /\ ~ending
            /\ spc' = "pop"
            /\ UNCHANGED <<db, nextId, counter, ending, left, upVars, netVars, faults>>

StorePopFails == /\ spc = "pop"
                 /\ spc' = "run"
                 /\ UNCHANGED <<db, nextId, counter, ending, left,
                                upVars, netVars, faults>>

StoreSample == /\ spc = "pop"
               /\ InsertNext
               /\ counter' = (counter + 1) % TrimEvery
               /\ spc' = IF CacheMax > 0 /\ counter' = 0 THEN "trim1" ELSE "run"
               /\ UNCHANGED <<ending, left, upVars, netVars, breaks, crashes, stops>>

(* The loop ends; what is left in the queue is still stored. *)
StoreSeesShutdown == /\ spc = "run" /\ ending
                     /\ spc' = "drain"
                     /\ UNCHANGED <<db, nextId, counter, ending, left,
                                    upVars, netVars, faults>>

StoreDrain == /\ spc = "drain" /\ left > 0
              /\ InsertNext
              /\ left' = left - 1
              /\ counter' = (counter + 1) % TrimEvery
              /\ UNCHANGED <<spc, ending, upVars, netVars, breaks, crashes, stops>>

StoreDrained == /\ spc = "drain"
                /\ left = 0 \/ nextId > MaxRows
                /\ spc' = IF CacheMax > 0 THEN "final1" ELSE "stopped"
                /\ UNCHANGED <<db, nextId, counter, ending, left,
                               upVars, netVars, faults>>

(* sqlite_store_trim_cache, within the loop or as the thread's last act:   *)
(* two DELETEs between which the uploader may run; a first one that fails  *)
(* skips the second.                                                       *)
AfterTrim == IF spc \in {"final1", "final2"} THEN "stopped" ELSE "run"

Trim1 == /\ spc \in {"trim1", "final1"}
         /\ Executes(TrimUploaded(db, CacheMax))
         /\ spc' = IF dberrs' > dberrs THEN AfterTrim
                   ELSE IF spc = "trim1" THEN "trim2" ELSE "final2"
         /\ UNCHANGED <<nextId, counter, ending, left, upVars, netVars,
                        breaks, crashes, stops>>

Trim2 == /\ spc \in {"trim2", "final2"}
         /\ Executes(TrimOldest(db, CacheMax))
         /\ spc' = AfterTrim
         /\ UNCHANGED <<nextId, counter, ending, left, upVars, netVars,
                        breaks, crashes, stops>>

-----------------------------------------------------------------------------
(* The upload thread.                                                      *)

upRest == <<nextId, storeVars, breaks, crashes, stops>>

(* uploader_connect: while the receiver cannot be reached it fails, the    *)
(* thread sleeps and nothing changes.                                      *)
Connect == /\ conn = "none" => netup
           /\ conn' = IF conn = "none" THEN "up" ELSE conn

(* Top of the main loop: connect if need be. *)
UpBegin == /\ upc = "top" /\ ~upShutdown
           /\ Connect
           /\ upc' = "query"
           /\ UNCHANGED <<db, upRest, upShutdown, draining, cursor, wire, netup,
                          received, dberrs>>

(* The main loop is left: the drain loop is entered only while connected.  *)
UpEnd == /\ upc = "top" /\ upShutdown
         /\ IF conn = "none" THEN upc' = "stopped" /\ UNCHANGED draining
                             ELSE upc' = "query" /\ draining' = TRUE
         /\ UNCHANGED <<db, upRest, upShutdown, cursor, netVars, dberrs>>

(* uploader_query_unuploaded: when it cannot be prepared the main loop     *)
(* sleeps and starts over, the drain loop gives up.                        *)
UpQuery ==
    /\ upc = "query"
    /\ \/ upc' = "row" /\ cursor' = NewCursor /\ UNCHANGED <<conn, dberrs>>
       \/ /\ dberrs < MaxDbErrors /\ dberrs' = dberrs + 1
          /\ upc' = IF draining THEN "stopped" ELSE "top"
          /\ conn' = IF draining THEN "none" ELSE conn
          /\ UNCHANGED cursor
    /\ UNCHANGED <<db, upRest, upShutdown, draining, wire, netup, received>>

(* What follows the end of a batch: another round of the main loop; in the *)
(* drain loop another query if this one had a row, else the end.           *)
EndBatch(hasData) ==
    /\ upc' = IF ~draining THEN "top" ELSE IF hasData THEN "query" ELSE "stopped"
    /\ conn' = IF draining /\ ~hasData THEN "none" ELSE conn
    /\ UNCHANGED cursor

(* mutants: newest first; the LIMIT is forgotten *)
NextRowDesc == LET E == Eligible(db, RetryMax)
                   Older == {i \in E : cursor.row = 0 \/ i < cursor.row}
               IN  IF cursor.budget = 0 THEN {}
                   ELSE {i \in Older : \A j \in Older : j <= i}
NextRowNoLimit == Oldest({i \in Eligible(db, RetryMax) : i > cursor.row}, 1)

NextRow == LET Later == {i \in Eligible(db, RetryMax) : i > cursor.row}
           IN  IF cursor.budget = 0 THEN {} ELSE Oldest(Later, 1)

(* mutant: the row is marked as it is read, before it is sent *)
UpRowMarks == /\ upc = "row"
              /\ draining \/ ~upShutdown
              /\ \/ \E id \in NextRow :
                       /\ cursor' = [row |-> id, budget |-> cursor.budget - 1,
                                     hasData |-> TRUE]
                       /\ Executes(MarkUploaded(db, id))
                       /\ upc' = "send" /\ UNCHANGED conn
                 \/ NextRow = {} /\ EndBatch(cursor.hasData) /\ UNCHANGED <<db, dberrs>>
              /\ UNCHANGED <<upRest, upShutdown, draining, wire, netup, received>>

(* uploader_read_row; the main loop looks at the shutdown flag first. *)
UpRow == /\ upc = "row"
         /\ draining \/ ~upShutdown
         /\ \/ \E id \in NextRow :
                  /\ cursor' = [row |-> id, budget |-> cursor.budget - 1,
                                hasData |-> TRUE]
                  /\ upc' = "send"
                  /\ UNCHANGED <<conn, dberrs>>
            \/ NextRow = {} /\ EndBatch(cursor.hasData) /\ UNCHANGED dberrs
            \/ /\ dberrs < MaxDbErrors /\ dberrs' = dberrs + 1
               /\ EndBatch(cursor.hasData)
         /\ UNCHANGED <<db, upRest, upShutdown, draining, wire, netup, received>>

UpRowShutdown == /\ upc = "row" /\ ~draining /\ upShutdown
                 /\ upc' = "top"
                 /\ UNCHANGED <<db, upRest, upShutdown, draining, cursor,
                                netVars, dberrs>>

(* uploader_send_line *)
UpSend == /\ upc = "send"
          /\ \/ conn = "up" /\ wire' = Append(wire, cursor.row) /\ upc' = "mark"
             \/ conn = "broken" /\ upc' \in {"mark", "fail"} /\ UNCHANGED wire
          /\ UNCHANGED <<db, upRest, upShutdown, draining, cursor, conn, netup,
                         received, dberrs>>

(* sqlite_store_mark_uploaded; nobody looks at its result. *)
UpMark == /\ upc = "mark"
          /\ Executes(MarkUploaded(db, cursor.row))
          /\ upc' = "row"
          /\ UNCHANGED <<upRest, upShutdown, draining, cursor, netVars>>

(* mutant: the main loop, too, keeps the socket *)
UpFailKeepsSocket == /\ upc = "fail"
                     /\ Executes(IncRetry(db, cursor.row))
                     /\ upc' = "query"
                     /\ UNCHANGED <<upRest, upShutdown, draining, cursor, netVars>>

(* sqlite_store_inc_retry, and the socket is given up - in the main loop.  *)
(* The drain loop keeps it and queries again: a row was read.              *)
UpFail == /\ upc = "fail"
          /\ Executes(IncRetry(db, cursor.row))
          /\ IF draining
             THEN upc' = "query" /\ UNCHANGED conn
             ELSE upc' = "top" /\ conn' = "none"
          /\ UNCHANGED <<upRest, upShutdown, draining, cursor, wire, netup, received>>

-----------------------------------------------------------------------------
(* The network.                                                            *)

Receive == /\ wire # <<>>
           /\ received' = [received EXCEPT ![Head(wire)] = @ + 1]
           /\ wire' = Tail(wire)
           /\ UNCHANGED <<db, nextId, storeVars, upVars, conn, netup, faults>>

(* The receiver or the way to it fails: what is under way is lost. *)
NetDown == /\ netup /\ breaks < MaxBreaks
           /\ breaks' = breaks + 1
           /\ netup' = FALSE /\ wire' = <<>>
           /\ conn' = IF conn = "up" THEN "broken" ELSE conn
           /\ UNCHANGED <<db, nextId, storeVars, upVars, received,
                          crashes, dberrs, stops>>

NetUp == /\ ~netup
         /\ netup' = TRUE
         /\ UNCHANGED <<db, nextId, storeVars, upVars, conn, wire, received, faults>>

-----------------------------------------------------------------------------
(* The process.                                                            *)

(* mutant: both are told at once, as run_test() does (main.c:273-276) *)
StopStoreAtOnce == /\ ~ending /\ stops < MaxStops
                   /\ ending' = TRUE /\ stops' = stops + 1
                   /\ left' \in 0 .. QueueLeft
                   /\ upShutdown' = TRUE
                   /\ UNCHANGED <<db, nextId, spc, counter, upc, draining, cursor,
                                  netVars, breaks, crashes, dberrs>>

(* SIGTERM: main() tells the store thread, joins it and only then tells    *)
(* the uploader.                                                           *)
StopStore == /\ ~ending /\ stops < MaxStops
             /\ ending' = TRUE /\ stops' = stops + 1
             /\ left' \in 0 .. QueueLeft
             /\ UNCHANGED <<db, nextId, spc, counter, upVars, netVars,
                            breaks, crashes, dberrs>>

StopUploader == /\ spc = "stopped" /\ ~upShutdown
                /\ upShutdown' = TRUE
                /\ UNCHANGED <<db, nextId, storeVars, upc, draining, cursor,
                               netVars, faults>>

(* The process starts over with the table on disk. *)
Boot == /\ spc' = "run" /\ counter' = 0 /\ ending' = FALSE /\ left' = 0
        /\ upShutdown' = FALSE /\ upc' = "top" /\ draining' = FALSE
        /\ cursor' = NewCursor /\ conn' = "none"
        /\ UNCHANGED <<db, nextId, wire, netup, received, breaks, dberrs, stops>>

Restart == spc = "stopped" /\ upc = "stopped" /\ Boot /\ UNCHANGED crashes

(* kill -9; what the kernel holds of the socket is still delivered. *)
Crash == crashes < MaxCrashes /\ crashes' = crashes + 1 /\ Boot

Store == \/ StorePop \/ StorePopFails \/ StoreSample \/ StoreSeesShutdown \/ StoreDrain 
         \/ StoreDrained \/ Trim1 \/ Trim2

Upload == UpBegin \/ UpEnd \/ UpQuery \/ UpRow \/ UpRowShutdown \/ UpSend \/ UpMark \/ UpFail

Next == \/ Store \/ Upload
        \/ Receive \/ NetDown \/ NetUp
        \/ StopStore \/ StopUploader \/ Restart \/ Crash

(* The two threads are scheduled, the kernel delivers what it took, main   *)
(* goes on once it joined the store thread, and an outage ends.  Nothing   *)
(* obliges samples, outages, errors, SIGTERMs or restarts to come.         *)
Fairness == /\ WF_vars(Store) /\ WF_vars(Upload) /\ WF_vars(StopUploader)
            /\ WF_vars(Receive) /\ WF_vars(NetUp)

Spec == Init /\ [][Next]_vars
FairSpec == Spec /\ Fairness
-----------------------------------------------------------------------------
TypeOK == /\ DOMAIN db \subseteq Ids /\ \A i \in DOMAIN db : db[i] \in Row
          /\ nextId \in 1 .. MaxRows + 1
          /\ spc \in {"run", "pop", "drain", "trim1", "trim2", "final1", "final2", "stopped"}
          /\ counter \in 0 .. TrimEvery - 1
          /\ ending \in BOOLEAN /\ left \in 0 .. QueueLeft
          /\ upShutdown \in BOOLEAN /\ draining \in BOOLEAN
          /\ upc \in {"top", "query", "row", "send", "mark", "fail", "stopped"}
          /\ cursor \in [row : 0 .. MaxRows, budget : 0 .. BatchMax,
                         hasData : BOOLEAN]
          /\ conn \in {"none", "up", "broken"} /\ netup \in BOOLEAN
          /\ wire \in Seq(Ids)
          /\ received \in [Ids -> Nat]
          /\ breaks \in 0 .. MaxBreaks /\ crashes \in 0 .. MaxCrashes
          /\ dberrs \in 0 .. MaxDbErrors /\ stops \in 0 .. MaxStops

OnWire == {wire[k] : k \in 1 .. Len(wire)}

(* What is still owed to the receiver, whatever the query asks for. *)
Pending == {i \in DOMAIN db : ~db[i].uploaded /\ db[i].retry < RetryMax}

(* At most once per fault: the receiver gets a row twice only because the  *)
(* process died, or the UPDATE failed, between a send and its mark         *)
(* (uploader.c:191-201).  Outages and retries alone duplicate nothing.     *)
AtMostOncePerFault == \A i \in Ids : received[i] <= 1 + crashes + dberrs

(* No silent loss: as long as no outage swallowed what the kernel had      *)
(* taken, a row marked uploaded is at the receiver or on its way there,    *)
(* whatever crashed, failed or was restarted.                              *)
UploadedIsDelivered ==
    breaks = 0 => \A i \in Uploaded(db) : received[i] > 0 \/ i \in OnWire

(* The same whatever outages there are: test-log.md:1645 says that nothing *)
(* is lost when the network goes away.                                     *)
UploadedIsDeliveredAnyway ==
    \A i \in Uploaded(db) : received[i] > 0 \/ i \in OnWire

(* A row uses up one retry per outage, so that only RetryMax outages make  *)
(* the uploader give it up: in the main loop a failed send is followed by  *)
(* a new connection.                                                       *)
RetryWithinOutages ==
    stops = 0 => \A i \in DOMAIN db : db[i].retry <= breaks

(* What test-log.md:1645 says of outages: nothing is lost by them and the  *)
(* rest is sent later.  With fewer outages than RetryMax every stored row  *)
(* is uploaded or still up for it.                                         *)
OutageLosesNoRow ==
    breaks < RetryMax => DOMAIN db \subseteq Uploaded(db) \cup Pending

(* First copies arrive in the order the samples were stored, whatever is   *)
(* resent, given up or delivered late.                                     *)
FirstCopiesInOrder ==
    [][\A i, j \in Ids : received[i] = 0 /\ received'[i] = 1 /\ received[j] > 0
                           => j < i]_vars

(* The table stays within the limit and what arrives between two trims;    *)
(* every crash (the counter restarts) and every failed statement may cost  *)
(* one more interval, every shutdown what was left in the queue.           *)
CacheBounded ==
    CacheMax > 0 =>
        Total(db) <= CacheMax + TrimEvery * (1 + crashes + dberrs) + stops * QueueLeft

(* Trimming stops at the limit: it never deletes a row the cache has room  *)
(* for, also when the uploader works between its two DELETEs.              *)
TrimStopsAtLimit == [][Total(db') < Total(db) => Total(db') >= CacheMax]_db

(* README.md:51: uploaded rows go first; a row still to be uploaded goes   *)
(* only when no uploaded one is left.                                      *)
TrimPrefersUploaded ==
    [][(\E i \in DOMAIN db \ DOMAIN db' : ~db[i].uploaded)
          => Uploaded(db') = {}]_db

(* The drain at exit is complete: an uploader that got to its drain loop   *)
(* leaves no row it may still send.  Over a broken connection it goes on   *)
(* until every row used up its retries.                                    *)
DrainLeavesNothing ==
    upc = "stopped" /\ draining /\ dberrs = 0 => Pending = {}

(* No stored row is forgotten: it is uploaded, or used up its retries, or  *)
(* is trimmed, unless the uploader is told to stop first.                  *)
RowsSettle ==
    \A i \in Ids : i \in Pending ~> (i \notin Pending \/ upShutdown)

(* The uploader's exit: main() joins it, so it must stop once told to. *)
UploaderStops == upShutdown ~> (upc = "stopped" \/ ~upShutdown)
(* The table, the two threads, the connection and the receiver, under any  *)
(* interleaving of statements and system calls, outages, crashes and       *)
(* failing statements (uploader.c:141-274, sqlite_store.c:244-324), are    *)
(* the ledger of UploadLedger.                                             *)
Ledger == INSTANCE UploadLedger
              WITH last <- nextId - 1, open <- Pending,
                   hand <- IF upc = "send" THEN {cursor.row} ELSE {},
                   outages <- breaks, excuses <- crashes + dberrs

ImplementsLedger == Ledger!Spec
=============================================================================

------------------------- MODULE StoreUploadProofs -------------------------
(***************************************************************************)
(* What StoreUpload.tla promises of a row, for every size of the table and *)
(* every number of outages, crashes, failed statements and restarts: it is *)
(* of its type, it is received twice only after a fault, it is marked only *)
(* once it was sent, it loses a retry per outage at most, first copies     *)
(* arrive in the order of the rows, and a drain leaves no row behind.      *)
(***************************************************************************)
EXTENDS StoreUpload, FiniteSetTheorems, SequenceTheorems, WellFoundedInduction, TLAPS

-----------------------------------------------------------------------------
(* The statements on the table.                                            *)

Table(T) == \A i \in DOMAIN T : T[i] \in Row

(* T keeps what it holds of U as it was. *)
Keeps(T, U) == DOMAIN T \subseteq DOMAIN U /\ \A i \in DOMAIN T : T[i] = U[i]

LEMMA InsertRow ==
    ASSUME NEW T, NEW id, Table(T)
    PROVE  LET U == Insert(T, id)
           IN  /\ DOMAIN U = DOMAIN T \cup {id} /\ Table(U)
               /\ U[id] = NewRow
               /\ \A i \in DOMAIN T : i # id => U[i] = T[i]
<1>1. NewRow \in Row
    BY DEF NewRow, Row
<1> QED BY <1>1 DEF Insert, Table

LEMMA MarkRow ==
    ASSUME NEW T, NEW id, Table(T)
    PROVE  LET U == MarkUploaded(T, id)
           IN  /\ DOMAIN U = DOMAIN T /\ Table(U)
               /\ id \in DOMAIN T => U[id].uploaded /\ U[id].retry = T[id].retry
               /\ \A i \in DOMAIN T : i # id => U[i] = T[i]
    BY DEF MarkUploaded, Table, Row

LEMMA RetryRow ==
    ASSUME NEW T, NEW id, Table(T)
    PROVE  LET U == IncRetry(T, id)
           IN  /\ DOMAIN U = DOMAIN T /\ Table(U)
               /\ id \in DOMAIN T => /\ U[id].uploaded = T[id].uploaded
                                     /\ U[id].retry = T[id].retry + 1
               /\ \A i \in DOMAIN T : i # id => U[i] = T[i]
    BY DEF IncRetry, Table, Row

LEMMA DeleteRows ==
    ASSUME NEW T, NEW S
    PROVE  Keeps(Delete(T, S), T) /\ DOMAIN Delete(T, S) = DOMAIN T \ S
    BY DEF Delete, Keeps

LEMMA TrimKeeps ==
    ASSUME NEW T, NEW max
    PROVE  Keeps(TrimUploaded(T, max), T) /\ Keeps(TrimOldest(T, max), T)
    BY DeleteRows DEF TrimUploaded, TrimOldest

LEMMA KeepsTable ==
    ASSUME NEW T, NEW U, Table(U), Keeps(T, U)
    PROVE  Table(T)
    BY DEF Table, Keeps

(* The next row of the cursor is the first eligible one after it. *)
LEMMA NextRowIs ==
    ASSUME NEW id \in NextRow, DOMAIN db \subseteq Nat, cursor.row \in Nat,
           cursor.budget \in Nat
    PROVE  /\ id \in Eligible(db, RetryMax) /\ id > cursor.row /\ cursor.budget # 0
           /\ \A i \in Eligible(db, RetryMax) : i > cursor.row => i >= id
<1> DEFINE E == Eligible(db, RetryMax)
           L == {i \in E : i > cursor.row}
           B == {j \in L : j < id}
<1>1. id \in L /\ Cardinality(B) < 1 /\ cursor.budget # 0
    BY DEF NextRow, Oldest
<1>2. E \subseteq Nat
    BY DEF Eligible
<1>3. id \in Nat /\ B \in SUBSET Nat /\ \A b \in B : b <= id
    BY <1>1, <1>2
<1>4. IsFiniteSet(B)
    BY <1>3, FS_BoundedSetOfNaturals
<1>5. Cardinality(B) \in Nat
    BY <1>4, FS_CardinalityType
<1>6. Cardinality(B) = 0
    BY <1>1, <1>5
<1>7. B = {}
    BY <1>4, <1>6, FS_EmptySet
<1> QED BY <1>1, <1>2, <1>3, <1>7
-----------------------------------------------------------------------------
(* The types, in the groups that the actions leave alone.                  *)

TableTypes == /\ Table(db) /\ nextId \in 1 .. MaxRows + 1
              /\ \A i \in DOMAIN db : i \in Nat /\ 0 < i /\ i < nextId
StoreTypes == /\ spc \in {"run", "pop", "drain", "trim1", "trim2", "final1", "final2",
                          "stopped"}
              /\ counter \in 0 .. TrimEvery - 1
              /\ ending \in BOOLEAN /\ left \in 0 .. QueueLeft
CursorTypes == /\ cursor \in [row : Nat, budget : 0 .. BatchMax, hasData : BOOLEAN]
               /\ cursor.row < nextId
               /\ upc \in {"send", "mark", "fail"} => 0 < cursor.row
UpTypes == /\ upShutdown \in BOOLEAN /\ draining \in BOOLEAN
           /\ upc \in {"top", "query", "row", "send", "mark", "fail", "stopped"}
NetTypes == /\ conn \in {"none", "up", "broken"} /\ netup \in BOOLEAN
            /\ wire \in Seq(Ids) /\ received \in [Ids -> Nat]
FaultTypes == /\ breaks \in 0 .. MaxBreaks /\ crashes \in 0 .. MaxCrashes
              /\ dberrs \in 0 .. MaxDbErrors /\ stops \in 0 .. MaxStops

Types == TableTypes /\ StoreTypes /\ CursorTypes /\ UpTypes /\ NetTypes /\ FaultTypes

LEMMA Constants ==
    /\ BatchMax \in Nat \ {0} /\ RetryMax \in Nat \ {0} /\ CacheMax \in Nat
    /\ TrimEvery \in Nat \ {0} /\ QueueLeft \in Nat
    /\ MaxRows \in Nat /\ MaxBreaks \in Nat /\ MaxCrashes \in Nat /\ MaxDbErrors \in Nat
    /\ MaxStops \in Nat
    BY StoreAssumption

LEMMA TypesGiveTypeOK == Types => TypeOK
<1> SUFFICES ASSUME Types PROVE TypeOK
    OBVIOUS
<1>1. DOMAIN db \subseteq Ids /\ cursor.row \in 0 .. MaxRows
    BY Constants DEF Types, TableTypes, CursorTypes, Ids
<1>2. cursor \in [row : 0 .. MaxRows, budget : 0 .. BatchMax, hasData : BOOLEAN]
    BY <1>1 DEF Types, CursorTypes
<1> QED BY <1>1, <1>2
        DEF Types, TableTypes, StoreTypes, UpTypes, NetTypes, FaultTypes, Table, TypeOK

(* The sending of one row: what the row of the cursor is. *)
LEMMA CursorRow ==
    Types /\ upc \in {"send", "mark", "fail"} => cursor.row \in Ids /\ cursor.row < nextId
    BY Constants DEF Types, CursorTypes, TableTypes, Ids

(* The kinds of step of the store thread. *)
Grows == /\ nextId <= MaxRows /\ db' = Insert(db, nextId) /\ nextId' = nextId + 1
         /\ UNCHANGED dberrs
Shrinks == Keeps(db', db) /\ UNCHANGED nextId

(* A statement fails, or not. *)
MayFail == UNCHANGED dberrs \/ (dberrs < MaxDbErrors /\ dberrs' = dberrs + 1)

LEMMA KeepsAll == \A T : Keeps(T, T)
    BY DEF Keeps

LEMMA StoreStep ==
    Store => /\ UNCHANGED <<upVars, netVars, breaks, crashes, stops>>
             /\ Grows \/ (Shrinks /\ MayFail)
<1> SUFFICES ASSUME Store
             PROVE  /\ UNCHANGED <<upVars, netVars, breaks, crashes, stops>>
                    /\ Grows \/ (Shrinks /\ MayFail)
    OBVIOUS
<1>1. UNCHANGED <<upVars, netVars, breaks, crashes, stops>>
    BY DEF Store, StorePop, StorePopFails, StoreSample, StoreSeesShutdown, StoreDrain,
           StoreDrained, Trim1, Trim2, faults
<1>2. CASE StoreSample \/ StoreDrain
    BY <1>2, KeepsAll DEF StoreSample, StoreDrain, InsertNext, Grows, Shrinks, MayFail
<1>3. CASE Trim1 \/ Trim2
    BY <1>3, KeepsAll, TrimKeeps DEF Trim1, Trim2, Executes, Shrinks, MayFail
<1>4. CASE StorePop \/ StorePopFails \/ StoreSeesShutdown \/ StoreDrained
    BY <1>4, KeepsAll DEF StorePop, StorePopFails, StoreSeesShutdown, StoreDrained, Shrinks,
                          MayFail, faults
<1> QED BY <1>1, <1>2, <1>3, <1>4 DEF Store

(* What the upload thread leaves alone, and the table after its step. *)
LEMMA UploadStep ==
    Upload => /\ UNCHANGED <<upRest, upShutdown, netup, received>>
              /\ MayFail
              /\ \/ UNCHANGED db
                 \/ upc = "mark" /\ db' = MarkUploaded(db, cursor.row)
                 \/ upc = "fail" /\ db' = IncRetry(db, cursor.row)
<1> SUFFICES ASSUME Upload
             PROVE  /\ UNCHANGED <<upRest, upShutdown, netup, received>>
                    /\ MayFail
                    /\ \/ UNCHANGED db
                       \/ upc = "mark" /\ db' = MarkUploaded(db, cursor.row)
                       \/ upc = "fail" /\ db' = IncRetry(db, cursor.row)
    OBVIOUS
<1>1. CASE UpBegin \/ UpEnd \/ UpRowShutdown \/ UpSend
    BY <1>1 DEF UpBegin, UpEnd, UpRowShutdown, UpSend, MayFail, netVars, upRest
<1>2. CASE UpQuery
    BY <1>2 DEF UpQuery, MayFail, upRest
<1>3. CASE UpRow
    BY <1>3 DEF UpRow, MayFail, upRest
<1>4. CASE UpMark \/ UpFail
    BY <1>4 DEF UpMark, UpFail, Executes, MayFail, upRest, netVars
<1> QED BY <1>1, <1>2, <1>3, <1>4 DEF Upload

LEMMA GrowsTypes == Types /\ Grows => TableTypes' /\ nextId < nextId'
<1> SUFFICES ASSUME Types, Grows PROVE TableTypes' /\ nextId < nextId'
    OBVIOUS
<1> DEFINE n == nextId'
<1>1. n = nextId + 1 /\ nextId \in Nat /\ 0 < nextId /\ nextId <= MaxRows
    BY Constants DEF Grows, Types, TableTypes
<1>2. DOMAIN db' = DOMAIN db \cup {nextId} /\ Table(db')
    BY InsertRow DEF Grows, Types, TableTypes
<1>3. \A i \in DOMAIN db : i \in Nat /\ 0 < i /\ i < nextId
    BY DEF Types, TableTypes
<1> HIDE DEF n
<1>4. n \in 1 .. MaxRows + 1 /\ nextId < n
    BY <1>1, Constants
<1>5. \A i \in DOMAIN db' : i \in Nat /\ 0 < i /\ i < n
    BY <1>1, <1>2, <1>3
<1> QED BY <1>2, <1>4, <1>5 DEF n, TableTypes, Table

LEMMA ShrinksTypes == Types /\ Shrinks => TableTypes'
<1> SUFFICES ASSUME Types, Shrinks PROVE TableTypes'
    OBVIOUS
<1>1. Table(db')
    BY KeepsTable DEF Types, TableTypes, Shrinks
<1> QED BY <1>1 DEF Shrinks, Keeps, Types, TableTypes, Table

LEMMA MayFailTypes == FaultTypes /\ MayFail => dberrs' \in 0 .. MaxDbErrors
<1> SUFFICES ASSUME FaultTypes, MayFail PROVE dberrs' \in 0 .. MaxDbErrors
    OBVIOUS
<1>1. dberrs < MaxDbErrors => dberrs + 1 \in 0 .. MaxDbErrors
    BY Constants DEF FaultTypes
<1> QED BY <1>1 DEF MayFail, FaultTypes

LEMMA NextCounter ==
    ASSUME counter \in 0 .. TrimEvery - 1
    PROVE  /\ (counter + 1) % TrimEvery \in 0 .. TrimEvery - 1
           /\ (counter + 1) % TrimEvery = IF counter + 1 < TrimEvery THEN counter + 1 ELSE 0
<1>1. TrimEvery \in Nat \ {0}
    BY Constants
<1>2. CASE counter + 1 < TrimEvery
    BY <1>1, <1>2
<1>3. CASE counter + 1 >= TrimEvery
    <2>1. counter + 1 = TrimEvery
        BY <1>1, <1>3
    <2> QED BY <1>1, <2>1
<1> QED BY <1>1, <1>2, <1>3

LEMMA InitTypes == Init => Types
<1> SUFFICES ASSUME Init PROVE Types
    OBVIOUS
<1>1. TableTypes
    BY Constants DEF Init, TableTypes, Table, EmptyTable
<1>2. StoreTypes
    <2>1. 0 \in 0 .. TrimEvery - 1 /\ 0 \in 0 .. QueueLeft
        BY Constants
    <2> QED BY <2>1 DEF Init, StoreTypes
<1>3. CursorTypes
    <2>1. cursor \in [row : Nat, budget : 0 .. BatchMax, hasData : BOOLEAN] /\ cursor.row = 0
        BY Constants DEF Init, NewCursor
    <2> QED BY <2>1 DEF Init, CursorTypes
<1>4. UpTypes
    BY DEF Init, UpTypes
<1>5. NetTypes
    <2>1. wire \in Seq(Ids)
        BY DEF Init
    <2>2. received \in [Ids -> Nat]
        BY DEF Init
    <2> QED BY <2>1, <2>2 DEF Init, NetTypes
<1>6. FaultTypes
    BY Constants DEF Init, FaultTypes
<1> QED BY <1>1, <1>2, <1>3, <1>4, <1>5, <1>6 DEF Types

LEMMA StoreTypesStep == Types /\ Store => Types'
<1> SUFFICES ASSUME Types, Store PROVE Types'
    OBVIOUS
<1>1. /\ UNCHANGED <<upVars, netVars, breaks, crashes, stops>>
      /\ Grows \/ (Shrinks /\ MayFail)
    BY StoreStep
<1>2. TableTypes' /\ (nextId' = nextId \/ nextId < nextId')
    BY <1>1, GrowsTypes, ShrinksTypes DEF Shrinks
<1>3. CursorTypes'
    <2>1. cursor.row < nextId'
        <3> DEFINE n == nextId'
        <3>1. cursor.row \in Nat /\ cursor.row < nextId /\ nextId \in Nat /\ n \in Nat
            BY <1>2, Constants DEF Types, CursorTypes, TableTypes
        <3>2. n = nextId \/ nextId < n
            BY <1>2
        <3> HIDE DEF n
        <3>3. cursor.row < n
            BY <3>1, <3>2
        <3> QED BY <3>3 DEF n
    <2> QED BY <1>1, <2>1 DEF Types, CursorTypes, upVars
<1>4. UpTypes' /\ NetTypes'
    BY <1>1 DEF Types, UpTypes, NetTypes, upVars, netVars
<1>5. FaultTypes'
    <2>1. dberrs' \in 0 .. MaxDbErrors
        BY <1>1, MayFailTypes DEF Types, Grows, FaultTypes
    <2> QED BY <1>1, <2>1 DEF Types, FaultTypes
<1>6. StoreTypes'
    <2>1. spc' \in {"run", "pop", "drain", "trim1", "trim2", "final1", "final2", "stopped"}
        BY DEF Store, StorePop, StorePopFails, StoreSample, StoreSeesShutdown, StoreDrain,
               StoreDrained, Trim1, Trim2, AfterTrim, Types, StoreTypes
    <2>2. counter' \in 0 .. TrimEvery - 1
        <3>1. counter \in 0 .. TrimEvery - 1
            BY DEF Types, StoreTypes
        <3>2. counter' \in {counter, (counter + 1) % TrimEvery}
            BY DEF Store, StorePop, StorePopFails, StoreSample, StoreSeesShutdown, StoreDrain,
                   StoreDrained, Trim1, Trim2
        <3> QED BY <3>1, <3>2, NextCounter
    <2>3. ending' \in BOOLEAN
        BY DEF Store, StorePop, StorePopFails, StoreSample, StoreSeesShutdown, StoreDrain,
               StoreDrained, Trim1, Trim2, Types, StoreTypes
    <2>4. left' \in 0 .. QueueLeft
        <3>1. left' = left \/ (left > 0 /\ left' = left - 1)
            BY DEF Store, StorePop, StorePopFails, StoreSample, StoreSeesShutdown, StoreDrain,
                   StoreDrained, Trim1, Trim2
        <3>2. left \in 0 .. QueueLeft /\ QueueLeft \in Nat
            BY Constants DEF Types, StoreTypes
        <3>3. left > 0 => left - 1 \in 0 .. QueueLeft
            BY <3>2
        <3> QED BY <3>1, <3>2, <3>3
    <2> QED BY <2>1, <2>2, <2>3, <2>4 DEF StoreTypes
<1> QED BY <1>2, <1>3, <1>4, <1>5, <1>6 DEF Types

LEMMA UploadTypesStep == Types /\ Upload => Types'
<1> SUFFICES ASSUME Types, Upload PROVE Types'
    OBVIOUS
<1>1. /\ UNCHANGED <<nextId, storeVars, breaks, crashes, stops, upShutdown, netup, received>>
      /\ MayFail
      /\ \/ UNCHANGED db
         \/ upc = "mark" /\ db' = MarkUploaded(db, cursor.row)
         \/ upc = "fail" /\ db' = IncRetry(db, cursor.row)
    BY UploadStep DEF upRest
<1>2. TableTypes'
    <2>1. Table(db') /\ DOMAIN db' = DOMAIN db
        BY <1>1, MarkRow, RetryRow DEF Types, TableTypes
    <2> QED BY <1>1, <2>1 DEF Types, TableTypes, Table
<1>3. StoreTypes'
    BY <1>1 DEF Types, StoreTypes, storeVars
<1>4. FaultTypes'
    <2>1. dberrs' \in 0 .. MaxDbErrors
        BY <1>1, MayFailTypes DEF Types
    <2> QED BY <1>1, <2>1 DEF Types, FaultTypes
<1>5. UpTypes'
    <2>1. upc' \in {"top", "query", "row", "send", "mark", "fail", "stopped"}
        BY DEF Upload, UpBegin, UpEnd, UpQuery, UpRow, EndBatch, UpRowShutdown, UpSend,
               UpMark, UpFail, Types, UpTypes
    <2>2. draining' \in BOOLEAN
        BY DEF Upload, UpBegin, UpEnd, UpQuery, UpRow, EndBatch, UpRowShutdown, UpSend,
               UpMark, UpFail, Types, UpTypes
    <2> QED BY <1>1, <2>1, <2>2 DEF UpTypes, Types
<1>6. NetTypes'
    <2>1. conn' \in {"none", "up", "broken"}
        BY DEF Upload, UpBegin, Connect, UpEnd, UpQuery, UpRow, EndBatch, UpRowShutdown, UpSend,
               UpMark, UpFail, Types, NetTypes, netVars
    <2>2. wire' \in Seq(Ids)
        <3>1. wire \in Seq(Ids)
            BY DEF Types, NetTypes
        <3>2. CASE UpSend
            <4>1. cursor.row \in Ids
                BY <3>2, CursorRow DEF UpSend
            <4>2. wire' = wire \/ wire' = Append(wire, cursor.row)
                BY <3>2 DEF UpSend
            <4> QED BY <3>1, <4>1, <4>2
        <3>3. CASE ~UpSend
            BY <3>1, <3>3 DEF Upload, UpBegin, UpEnd, UpQuery, UpRow, UpRowShutdown, UpMark,
                              UpFail, netVars
        <3> QED BY <3>2, <3>3
    <2> QED BY <1>1, <2>1, <2>2 DEF NetTypes, Types
<1>7. CursorTypes'
    <2>1. /\ cursor \in [row : Nat, budget : 0 .. BatchMax, hasData : BOOLEAN]
          /\ cursor.row < nextId /\ cursor.row \in Nat /\ cursor.budget \in 0 .. BatchMax
          /\ UNCHANGED nextId
        BY <1>1 DEF Types, CursorTypes
    <2>2. CASE UpQuery
        <3>1. /\ NewCursor \in [row : Nat, budget : 0 .. BatchMax, hasData : BOOLEAN]
              /\ NewCursor.row = 0 /\ 0 < nextId
            BY Constants DEF NewCursor, Types, TableTypes
        <3>2. cursor' \in {cursor, NewCursor} /\ upc' \notin {"send", "mark", "fail"}
            BY <2>2 DEF UpQuery
        <3> QED BY <2>1, <3>1, <3>2 DEF CursorTypes
    <2>3. CASE UpRow
        <3>1. CASE UNCHANGED cursor /\ upc' \notin {"send", "mark", "fail"}
            BY <2>1, <3>1 DEF CursorTypes
        <3>2. ASSUME NEW id \in NextRow,
                     cursor' = [row |-> id, budget |-> cursor.budget - 1, hasData |-> TRUE]
              PROVE  CursorTypes'
            <4>1. DOMAIN db \subseteq Nat /\ cursor.budget \in Nat
                BY <2>1, Constants DEF Types, TableTypes
            <4>2. id \in DOMAIN db /\ cursor.budget # 0
                BY <2>1, <4>1, NextRowIs DEF Eligible
            <4>3. id \in Nat /\ 0 < id /\ id < nextId
                BY <4>2 DEF Types, TableTypes
            <4>4. cursor.budget - 1 \in 0 .. BatchMax
                BY <2>1, <4>2, Constants
            <4>5. cursor'.row = id
                BY <3>2
            <4>6. cursor' \in [row : Nat, budget : 0 .. BatchMax, hasData : BOOLEAN]
                BY <3>2, <4>3, <4>4
            <4> QED BY <2>1, <4>3, <4>5, <4>6 DEF CursorTypes
        <3> QED BY <2>3, <3>1, <3>2 DEF UpRow, EndBatch
    <2>4. CASE UpBegin \/ UpEnd \/ UpRowShutdown \/ UpMark \/ UpFail
        <3>1. UNCHANGED cursor /\ upc' \notin {"send", "mark", "fail"}
            BY <2>4 DEF UpBegin, UpEnd, UpRowShutdown, UpMark, UpFail
        <3> QED BY <2>1, <3>1 DEF CursorTypes
    <2>5. CASE UpSend
        <3>1. UNCHANGED cursor /\ upc = "send"
            BY <2>5 DEF UpSend
        <3> QED BY <2>1, <3>1 DEF CursorTypes, Types
    <2> QED BY <2>2, <2>3, <2>4, <2>5 DEF Upload
<1> QED BY <1>2, <1>3, <1>4, <1>5, <1>6, <1>7 DEF Types

LEMMA ReceiveTypesStep == Types /\ Receive => Types'
<1> SUFFICES ASSUME Types, Receive PROVE Types'
    OBVIOUS
<1>1. /\ UNCHANGED <<db, nextId, storeVars, upVars, conn, netup, faults>>
      /\ wire # <<>> /\ wire' = Tail(wire)
      /\ received' = [received EXCEPT ![Head(wire)] = @ + 1]
    BY DEF Receive
<1>2. wire \in Seq(Ids) /\ received \in [Ids -> Nat]
    BY DEF Types, NetTypes
<1>3. Head(wire) \in Ids /\ Tail(wire) \in Seq(Ids)
    BY <1>1, <1>2
<1>4. received' \in [Ids -> Nat]
    BY <1>1, <1>2, <1>3
<1>5. NetTypes'
    BY <1>1, <1>3, <1>4 DEF NetTypes, Types
<1>6. TableTypes' /\ StoreTypes'
    BY <1>1 DEF Types, TableTypes, Table, StoreTypes, storeVars
<1>7. CursorTypes' /\ UpTypes' /\ FaultTypes'
    BY <1>1 DEF Types, CursorTypes, UpTypes, FaultTypes, upVars, faults
<1> QED BY <1>5, <1>6, <1>7 DEF Types

LEMMA NetTypesStep == Types /\ (NetDown \/ NetUp) => Types'
<1> SUFFICES ASSUME Types, NetDown \/ NetUp PROVE Types'
    OBVIOUS
<1>1. /\ UNCHANGED <<db, nextId, storeVars, upVars, received, crashes, dberrs, stops>>
      /\ netup' \in BOOLEAN /\ wire' \in {wire, <<>>} /\ conn' \in {conn, "broken"}
      /\ UNCHANGED breaks \/ (breaks < MaxBreaks /\ breaks' = breaks + 1)
    BY DEF NetDown, NetUp, faults
<1>2. breaks' \in 0 .. MaxBreaks
    <2>1. breaks < MaxBreaks => breaks + 1 \in 0 .. MaxBreaks
        BY Constants DEF Types, FaultTypes
    <2> QED BY <1>1, <2>1 DEF Types, FaultTypes
<1>3. NetTypes' /\ FaultTypes'
    <2>1. wire \in Seq(Ids) /\ <<>> \in Seq(Ids)
        BY DEF Types, NetTypes
    <2>2. wire' \in Seq(Ids)
        BY <1>1, <2>1
    <2>3. conn' \in {"none", "up", "broken"}
        BY <1>1 DEF Types, NetTypes
    <2>4. NetTypes'
        BY <1>1, <2>2, <2>3 DEF Types, NetTypes
    <2>5. FaultTypes'
        BY <1>1, <1>2 DEF Types, FaultTypes
    <2> QED BY <2>4, <2>5
<1>4. TableTypes' /\ StoreTypes'
    BY <1>1 DEF Types, TableTypes, Table, StoreTypes, storeVars
<1>5. CursorTypes' /\ UpTypes'
    BY <1>1 DEF Types, CursorTypes, UpTypes, upVars
<1> QED BY <1>3, <1>4, <1>5 DEF Types

LEMMA StopTypesStep == Types /\ (StopStore \/ StopUploader) => Types'
<1> SUFFICES ASSUME Types, StopStore \/ StopUploader PROVE Types'
    OBVIOUS
<1>1. /\ UNCHANGED <<db, nextId, spc, counter, upc, draining, cursor, netVars, breaks,
                     crashes, dberrs>>
      /\ ending' \in BOOLEAN /\ upShutdown' \in BOOLEAN /\ left' \in 0 .. QueueLeft
      /\ UNCHANGED stops \/ (stops < MaxStops /\ stops' = stops + 1)
    BY DEF StopStore, StopUploader, storeVars, upVars, faults, Types, StoreTypes, UpTypes
<1>2. stops' \in 0 .. MaxStops
    <2>1. stops < MaxStops => stops + 1 \in 0 .. MaxStops
        BY Constants DEF Types, FaultTypes
    <2> QED BY <1>1, <2>1 DEF Types, FaultTypes
<1>3. FaultTypes' /\ NetTypes'
    BY <1>1, <1>2 DEF Types, NetTypes, FaultTypes, netVars
<1>4. TableTypes' /\ StoreTypes'
    BY <1>1 DEF Types, TableTypes, Table, StoreTypes
<1>5. CursorTypes' /\ UpTypes'
    BY <1>1 DEF Types, CursorTypes, UpTypes
<1> QED BY <1>3, <1>4, <1>5 DEF Types

LEMMA BootTypesStep == Types /\ (Restart \/ Crash) => Types'
<1> SUFFICES ASSUME Types, Restart \/ Crash PROVE Types'
    OBVIOUS
<1>1. /\ Boot
      /\ UNCHANGED crashes \/ (crashes < MaxCrashes /\ crashes' = crashes + 1)
    BY DEF Restart, Crash
<1>2. crashes' \in 0 .. MaxCrashes
    <2>1. crashes < MaxCrashes => crashes + 1 \in 0 .. MaxCrashes
        BY Constants DEF Types, FaultTypes
    <2> QED BY <1>1, <2>1 DEF Types, FaultTypes
<1>3. FaultTypes' /\ NetTypes'
    BY <1>1, <1>2 DEF Types, NetTypes, FaultTypes, Boot
<1>4. TableTypes'
    BY <1>1 DEF Types, TableTypes, Table, Boot
<1>5. StoreTypes'
    <2>1. 0 \in 0 .. TrimEvery - 1 /\ 0 \in 0 .. QueueLeft
        BY Constants
    <2> QED BY <1>1, <2>1 DEF StoreTypes, Boot
<1>6. CursorTypes'
    <2>1. /\ NewCursor \in [row : Nat, budget : 0 .. BatchMax, hasData : BOOLEAN]
          /\ NewCursor.row = 0 /\ 0 < nextId
        BY Constants DEF NewCursor, Types, TableTypes
    <2> QED BY <1>1, <2>1 DEF CursorTypes, Boot
<1>7. UpTypes'
    BY <1>1 DEF UpTypes, Boot
<1> QED BY <1>3, <1>4, <1>5, <1>6, <1>7 DEF Types

LEMMA StutterTypesStep == Types /\ UNCHANGED vars => Types'
<1> SUFFICES ASSUME Types, UNCHANGED vars PROVE Types'
    OBVIOUS
<1>1. TableTypes' /\ StoreTypes'
    BY DEF vars, Types, TableTypes, Table, StoreTypes, storeVars
<1>2. CursorTypes' /\ UpTypes'
    BY DEF vars, Types, CursorTypes, UpTypes, upVars
<1>3. NetTypes' /\ FaultTypes'
    BY DEF vars, Types, NetTypes, FaultTypes, netVars, faults
<1> QED BY <1>1, <1>2, <1>3 DEF Types

LEMMA NextTypes == Types /\ [Next]_vars => Types'
    BY StoreTypesStep, UploadTypesStep, ReceiveTypesStep, NetTypesStep, StopTypesStep,
       BootTypesStep, StutterTypesStep DEF Next

LEMMA TypesInvariance == Spec => []Types
<1>1. Init => Types
    BY InitTypes
<1>2. Types /\ [Next]_vars => Types'
    BY NextTypes
<1> QED BY <1>1, <1>2, PTL DEF Spec

(* TypeOK: the table, the two threads and the connection are of their      *)
(* types, whatever fails; in particular a row the uploader sends or marks  *)
(* is one that was stored.                                                 *)
THEOREM TypeCorrect == Spec => []TypeOK
    BY TypesInvariance, TypesGiveTypeOK, PTL

-----------------------------------------------------------------------------
(* What holds of the retries: a broken connection stands for an outage     *)
(* that no row has paid for yet.                                           *)

(* Before the first SIGTERM the process is in its ordinary loops. *)
Ordinary == stops = 0 => /\ ~ending /\ ~upShutdown /\ ~draining
                         /\ spc \in {"run", "pop", "trim1", "trim2"}

Retries == /\ conn = "broken" => 0 < breaks
           /\ upc = "fail" => conn = "broken"
           /\ stops = 0 => \A i \in DOMAIN db : /\ db[i].retry <= breaks
                                                /\ conn = "broken" => db[i].retry < breaks

(* The store thread adds new rows and deletes others. *)
LEMMA StoreRows ==
    ASSUME Types, Store
    PROVE  /\ UNCHANGED <<upShutdown, upc, draining, cursor, conn, wire, netup, received,
                          breaks, crashes, stops>>
           /\ \A i \in DOMAIN db' : \/ (i \in DOMAIN db /\ db'[i] = db[i])
                                    \/ (i = nextId /\ nextId' = nextId + 1 /\ nextId <= MaxRows
                                          /\ db'[i] = NewRow)
           /\ nextId' \in {nextId, nextId + 1}
           /\ MayFail
<1>1. UNCHANGED <<upShutdown, upc, draining, cursor, conn, wire, netup, received,
                  breaks, crashes, stops>>
    BY StoreStep DEF upVars, netVars
<1>2. CASE Grows
    <2>1. /\ DOMAIN db' = DOMAIN db \cup {nextId} /\ db'[nextId] = NewRow
          /\ \A i \in DOMAIN db : i # nextId => db'[i] = db[i]
        BY <1>2, InsertRow DEF Grows, Types, TableTypes
    <2>2. nextId' = nextId + 1 /\ nextId <= MaxRows /\ MayFail
        BY <1>2 DEF Grows, MayFail
    <2> QED BY <1>1, <2>1, <2>2
<1>3. CASE Shrinks /\ MayFail
    BY <1>1, <1>3 DEF Shrinks, Keeps
<1> QED BY <1>2, <1>3, StoreStep

LEMMA OrdinaryStep == Types /\ Ordinary /\ [Next]_vars => Ordinary'
<1> SUFFICES ASSUME Types, Ordinary, [Next]_vars PROVE Ordinary'
    OBVIOUS
<1>1. CASE Store
    <2>1. UNCHANGED ending
        BY <1>1 DEF Store, StorePop, StorePopFails, StoreSample, StoreSeesShutdown, StoreDrain,
                    StoreDrained, Trim1, Trim2
    <2>2. spc \in {"run", "pop", "trim1", "trim2"} /\ ~ending
                => spc' \in {"run", "pop", "trim1", "trim2"}
        BY <1>1 DEF Store, StorePop, StorePopFails, StoreSample, StoreSeesShutdown, StoreDrain,
                    StoreDrained, Trim1, Trim2, AfterTrim
    <2> QED BY <1>1, <2>1, <2>2, StoreRows DEF Ordinary
<1>2. CASE Upload
    <2>1. UNCHANGED <<stops, ending, upShutdown, spc>>
        BY <1>2, UploadStep DEF upRest, storeVars
    <2>2. ~upShutdown => UNCHANGED draining
        BY <1>2 DEF Upload, UpBegin, UpEnd, UpQuery, UpRow, UpRowShutdown, UpSend, UpMark, UpFail
    <2> QED BY <2>1, <2>2 DEF Ordinary
<1>3. CASE Receive \/ NetDown \/ NetUp \/ UNCHANGED vars
    BY <1>3 DEF Receive, NetDown, NetUp, vars, storeVars, upVars, faults, Ordinary
<1>4. CASE StopStore
    <2>1. stops' # 0
        <3>1. stops \in Nat
            BY Constants DEF Types, FaultTypes
        <3>2. stops + 1 # 0
            BY <3>1
        <3> QED BY <1>4, <3>2 DEF StopStore
    <2> QED BY <2>1 DEF Ordinary
<1>5. CASE StopUploader
    BY <1>5 DEF StopUploader, storeVars, faults, Ordinary
<1>6. CASE Restart \/ Crash
    BY <1>6 DEF Restart, Crash, Boot, Ordinary
<1> QED BY <1>1, <1>2, <1>3, <1>4, <1>5, <1>6 DEF Next

LEMMA StoreRetriesStep == Types /\ Retries /\ Store => Retries'
<1> SUFFICES ASSUME Types, Retries, Store PROVE Retries'
    OBVIOUS
<1>1. /\ UNCHANGED <<upc, conn, breaks, stops>>
      /\ \A i \in DOMAIN db' : (i \in DOMAIN db /\ db'[i] = db[i]) \/ db'[i] = NewRow
    BY StoreRows
<1>2. NewRow.retry = 0 /\ 0 <= breaks /\ (conn = "broken" => 0 < breaks)
    BY Constants DEF NewRow, Types, FaultTypes, Retries
<1>3. stops = 0 => \A i \in DOMAIN db' : /\ db'[i].retry <= breaks
                                         /\ conn = "broken" => db'[i].retry < breaks
    BY <1>1, <1>2 DEF Retries
<1> QED BY <1>1, <1>3 DEF Retries

LEMMA UploadRetriesStep == Types /\ Ordinary /\ Retries /\ Upload => Retries'
<1> SUFFICES ASSUME Types, Ordinary, Retries, Upload PROVE Retries'
    OBVIOUS
<1>1. UNCHANGED <<breaks, stops>>
    BY UploadStep DEF upRest
<1>2. Table(db)
    BY DEF Types, TableTypes
<1>3. CASE UpBegin \/ UpEnd \/ UpQuery \/ UpRow \/ UpRowShutdown
    <2>1. UNCHANGED db /\ upc' # "fail" /\ (conn' = "broken" => conn = "broken")
        BY <1>3 DEF UpBegin, Connect, UpEnd, UpQuery, UpRow, EndBatch, UpRowShutdown, netVars
    <2> QED BY <1>1, <2>1 DEF Retries
<1>4. CASE UpSend
    <2>1. UNCHANGED <<db, conn>> /\ (upc' = "fail" => conn = "broken")
        BY <1>4 DEF UpSend
    <2> QED BY <1>1, <2>1 DEF Retries
<1>5. CASE UpMark
    <2>1. UNCHANGED conn /\ upc' = "row" /\ (UNCHANGED db \/ db' = MarkUploaded(db, cursor.row))
        BY <1>5 DEF UpMark, Executes, netVars
    <2>2. DOMAIN db' = DOMAIN db /\ \A i \in DOMAIN db : db'[i].retry = db[i].retry
        BY <1>2, <2>1, MarkRow
    <2> QED BY <1>1, <2>1, <2>2 DEF Retries
<1>6. CASE UpFail
    <2>1. conn = "broken" /\ upc' # "fail" /\ (~draining => conn' = "none") /\ conn' \in {conn, "none"}
        BY <1>6 DEF UpFail, Retries
    <2>2. CASE stops # 0
        BY <1>1, <2>1, <2>2 DEF Retries
    <2>3. CASE stops = 0
        <3>1. conn' = "none" /\ \A i \in DOMAIN db : db[i].retry < breaks
            BY <2>1, <2>3 DEF Ordinary, Retries
        <3>2. DOMAIN db' = DOMAIN db
                /\ \A i \in DOMAIN db : db'[i] = db[i] \/ db'[i].retry = db[i].retry + 1
            BY <1>2, <1>6, RetryRow DEF UpFail, Executes
        <3>3. \A i \in DOMAIN db : db[i].retry \in Nat
            BY <1>2 DEF Table, Row
        <3>4. breaks \in Nat
            BY Constants DEF Types, FaultTypes
        <3>5. \A i \in DOMAIN db' : db'[i].retry <= breaks
            BY <3>1, <3>2, <3>3, <3>4
        <3> QED BY <1>1, <2>1, <3>1, <3>5 DEF Retries
    <2> QED BY <2>2, <2>3
<1> QED BY <1>3, <1>4, <1>5, <1>6 DEF Upload

LEMMA OtherRetriesStep ==
    /\ Types /\ Retries
    /\ Receive \/ NetDown \/ NetUp \/ StopStore \/ StopUploader \/ Restart \/ Crash
         \/ UNCHANGED vars
    => Retries'
<1> SUFFICES ASSUME Types, Retries,
                    Receive \/ NetDown \/ NetUp \/ StopStore \/ StopUploader \/ Restart \/ Crash
                      \/ UNCHANGED vars
             PROVE  Retries'
    OBVIOUS
<1>1. CASE Receive \/ NetUp \/ StopUploader \/ UNCHANGED vars
    BY <1>1 DEF Receive, NetUp, StopUploader, vars, upVars, netVars, faults, Retries
<1>2. CASE NetDown
    <2>1. /\ breaks' = breaks + 1 /\ UNCHANGED <<db, upc, stops>>
          /\ conn = "broken" => conn' = "broken"
        BY <1>2 DEF NetDown, upVars
    <2>2. breaks \in Nat /\ \A i \in DOMAIN db : db[i].retry \in Nat
        BY Constants DEF Types, FaultTypes, TableTypes, Table, Row
    <2>3. 0 < breaks'
        BY <2>1, <2>2
    <2>4. stops = 0 => \A i \in DOMAIN db : db[i].retry <= breaks' /\ db[i].retry < breaks'
        BY <2>1, <2>2 DEF Retries
    <2> QED BY <2>1, <2>3, <2>4 DEF Retries
<1>3. CASE StopStore
    <2>1. stops' # 0
        BY <1>3, Constants DEF StopStore, Types, FaultTypes
    <2> QED BY <1>3, <2>1 DEF StopStore, upVars, netVars, Retries
<1>4. CASE Restart \/ Crash
    BY <1>4 DEF Restart, Crash, Boot, Retries
<1> QED BY <1>1, <1>2, <1>3, <1>4

LEMMA RetriesInvariance == Spec => [](Types /\ Ordinary /\ Retries)
<1>1. Init => Types /\ Ordinary /\ Retries
    <2>1. Init => Ordinary /\ Retries
        BY DEF Init, Ordinary, Retries, EmptyTable
    <2> QED BY <2>1, InitTypes
<1>2. Types /\ Ordinary /\ Retries /\ [Next]_vars => (Types /\ Ordinary /\ Retries)'
    BY NextTypes, OrdinaryStep, StoreRetriesStep, UploadRetriesStep, OtherRetriesStep DEF Next
<1> QED BY <1>1, <1>2, PTL DEF Spec

(* RetryWithinOutages: until the first SIGTERM a row uses up one retry per *)
(* outage at most, since a send only fails on a connection an outage broke *)
(* and the main loop gives that connection up after one failure.           *)
THEOREM OneRetryPerOutage == Spec => []RetryWithinOutages
<1>1. Retries => RetryWithinOutages
    BY DEF Retries, RetryWithinOutages
<1> QED BY <1>1, RetriesInvariance, PTL

-----------------------------------------------------------------------------
(* The rows the receiver has or will get, as long as no outage comes.      *)

RowsOf(w) == {w[k] : k \in 1 .. Len(w)}

LEMMA RowsOfAppend ==
    ASSUME NEW S, NEW w \in Seq(S), NEW r \in S
    PROVE  RowsOf(Append(w, r)) = RowsOf(w) \cup {r}
<1> DEFINE n == Len(w)
           v == Append(w, r)
<1>1. n \in Nat /\ Len(v) = n + 1 /\ v[n + 1] = r
    OBVIOUS
<1>2. \A k \in 1 .. n : v[k] = w[k]
    OBVIOUS
<1>3. \A k : k \in 1 .. n + 1 <=> (k \in 1 .. n \/ k = n + 1)
    BY <1>1
<1> HIDE DEF n, v
<1>4. RowsOf(v) = {w[k] : k \in 1 .. n} \cup {r}
    BY <1>1, <1>2, <1>3 DEF RowsOf
<1> QED BY <1>4 DEF n, v, RowsOf

LEMMA RowsOfTail ==
    ASSUME NEW S, NEW w \in Seq(S), w # <<>>
    PROVE  RowsOf(w) = RowsOf(Tail(w)) \cup {Head(w)}
<1> DEFINE n == Len(w)
           v == Tail(w)
<1>1. n \in Nat /\ n > 0 /\ Len(v) = n - 1 /\ Head(w) = w[1]
    OBVIOUS
<1>2. \A k \in 1 .. n - 1 : v[k] = w[k + 1]
    OBVIOUS
<1>3. \A k : k \in 1 .. n <=> (k = 1 \/ \E l \in 1 .. n - 1 : k = l + 1)
    <2>1. \A k \in 1 .. n : k # 1 => k - 1 \in 1 .. n - 1 /\ k = (k - 1) + 1
        BY <1>1
    <2>2. \A l \in 1 .. n - 1 : l + 1 \in 1 .. n
        BY <1>1
    <2>3. 1 \in 1 .. n
        BY <1>1
    <2> QED BY <2>1, <2>2, <2>3
<1> HIDE DEF n, v
<1>4. {w[k] : k \in 1 .. n} = {v[k] : k \in 1 .. n - 1} \cup {w[1]}
    BY <1>2, <1>3
<1> QED BY <1>1, <1>4 DEF n, v, RowsOf

Got == {i \in Ids : received[i] > 0}
Known == Got \cup RowsOf(wire)

Delivered == breaks = 0 => /\ netup /\ conn # "broken"
                           /\ upc = "mark" => cursor.row \in Known
                           /\ Uploaded(db) \subseteq Known

(* The steps of the connection: a row sent is known, a row received stays  *)
(* known.                                                                  *)
LEMMA SendKnows == Types /\ UpSend => /\ UNCHANGED received
                                      /\ conn = "up" => Known' = Known \cup {cursor.row}
                                      /\ conn # "up" => UNCHANGED <<wire, Known>>
<1> SUFFICES ASSUME Types, UpSend
             PROVE  /\ UNCHANGED received
                    /\ conn = "up" => Known' = Known \cup {cursor.row}
                    /\ conn # "up" => UNCHANGED <<wire, Known>>
    OBVIOUS
<1>1. UNCHANGED received /\ (conn # "up" => UNCHANGED wire)
    BY DEF UpSend
<1>2. ASSUME conn = "up" PROVE Known' = Known \cup {cursor.row}
    <2>1. wire' = Append(wire, cursor.row)
        BY <1>2 DEF UpSend
    <2>2. cursor.row \in Ids /\ wire \in Seq(Ids)
        BY CursorRow DEF Types, NetTypes, UpSend
    <2>3. RowsOf(wire') = RowsOf(wire) \cup {cursor.row}
        BY <2>1, <2>2, RowsOfAppend
    <2> QED BY <1>1, <2>3 DEF Known, Got
<1> QED BY <1>1, <1>2 DEF Known, Got

LEMMA ReceiveKnows ==
    Types /\ Receive => /\ Head(wire) \in Ids /\ wire' = Tail(wire)
                        /\ Got' = Got \cup {Head(wire)}
                        /\ Known' = Known
                        /\ \A i \in Ids : i # Head(wire) => received'[i] = received[i]
<1> SUFFICES ASSUME Types, Receive
             PROVE  /\ Head(wire) \in Ids /\ wire' = Tail(wire)
                    /\ Got' = Got \cup {Head(wire)}
                    /\ Known' = Known
                    /\ \A i \in Ids : i # Head(wire) => received'[i] = received[i]
    OBVIOUS
<1> DEFINE h == Head(wire)
<1>1. /\ wire # <<>> /\ wire \in Seq(Ids) /\ wire' = Tail(wire)
      /\ received \in [Ids -> Nat] /\ received' = [received EXCEPT ![h] = @ + 1]
    BY DEF Receive, Types, NetTypes
<1>2. h \in Ids
    BY <1>1
<1>3. RowsOf(wire) = RowsOf(wire') \cup {h}
    BY <1>1, RowsOfTail
<1> HIDE DEF h
<1>4. \A i \in Ids : received'[i] = IF i = h THEN received[i] + 1 ELSE received[i]
    BY <1>1
<1>5. \A i \in Ids : received'[i] > 0 <=> (received[i] > 0 \/ i = h)
    BY <1>1, <1>4
<1>6. Got' = Got \cup {h}
    BY <1>2, <1>5 DEF Got
<1> QED BY <1>1, <1>2, <1>3, <1>4, <1>6 DEF Known, h

LEMMA StoreDeliveredStep == Types /\ Delivered /\ Store => Delivered'
<1> SUFFICES ASSUME Types, Delivered, Store PROVE Delivered'
    OBVIOUS
<1>1. UNCHANGED <<upc, cursor, conn, wire, netup, received, breaks>>
    BY StoreRows
<1>2. ~NewRow.uploaded
    BY DEF NewRow
<1>3. Uploaded(db') \subseteq Uploaded(db)
    BY <1>2, StoreRows DEF Uploaded
<1> QED BY <1>1, <1>3 DEF Delivered, Known, Got

LEMMA UploadDeliveredStep == Types /\ Delivered /\ Upload => Delivered'
<1> SUFFICES ASSUME Types, Delivered, Upload, breaks = 0
             PROVE  Delivered'
    BY UploadStep DEF Delivered, upRest
<1>1. netup /\ conn # "broken" /\ (upc = "mark" => cursor.row \in Known)
        /\ Uploaded(db) \subseteq Known /\ UNCHANGED <<netup, received>>
    BY UploadStep DEF Delivered
<1>2. CASE UpBegin \/ UpEnd \/ UpQuery \/ UpRow \/ UpRowShutdown
    <2>1. UNCHANGED <<db, wire>> /\ upc' # "mark" /\ conn' # "broken"
        BY <1>1, <1>2 DEF UpBegin, Connect, UpEnd, UpQuery, UpRow, EndBatch, UpRowShutdown,
                          netVars
    <2>2. UNCHANGED Known
        BY <1>1, <2>1 DEF Known, Got
    <2> QED BY <1>1, <2>1, <2>2 DEF Delivered
<1>3. CASE UpSend
    <2>1. UNCHANGED <<db, conn, cursor>> /\ conn = "up"
        BY <1>1, <1>3 DEF UpSend
    <2>2. Known' = Known \cup {cursor.row}
        BY <1>3, <2>1, SendKnows
    <2> QED BY <1>1, <2>1, <2>2 DEF Delivered
<1>4. CASE UpMark
    <2>1. /\ UNCHANGED <<conn, wire, received>> /\ upc' = "row" /\ upc = "mark"
          /\ UNCHANGED db \/ db' = MarkUploaded(db, cursor.row)
        BY <1>4 DEF UpMark, Executes, netVars
    <2>2. DOMAIN db' = DOMAIN db /\ \A i \in DOMAIN db : i # cursor.row => db'[i] = db[i]
        BY <2>1, MarkRow DEF Types, TableTypes
    <2>3. Uploaded(db') \subseteq Uploaded(db) \cup {cursor.row}
        BY <2>2 DEF Uploaded
    <2>4. UNCHANGED Known
        BY <2>1 DEF Known, Got
    <2> QED BY <1>1, <2>1, <2>3, <2>4 DEF Delivered
<1>5. CASE UpFail
    <2>1. /\ UNCHANGED <<wire, received>> /\ upc' # "mark" /\ conn' # "broken"
          /\ UNCHANGED db \/ db' = IncRetry(db, cursor.row)
        BY <1>1, <1>5 DEF UpFail, Executes
    <2>2. /\ DOMAIN db' = DOMAIN db
          /\ \A i \in DOMAIN db : db'[i].uploaded = db[i].uploaded
        BY <2>1, RetryRow DEF Types, TableTypes
    <2>3. Uploaded(db') = Uploaded(db)
        BY <2>2 DEF Uploaded
    <2>4. UNCHANGED Known
        BY <2>1 DEF Known, Got
    <2> QED BY <1>1, <2>1, <2>3, <2>4 DEF Delivered
<1> QED BY <1>2, <1>3, <1>4, <1>5 DEF Upload

LEMMA OtherDeliveredStep ==
    /\ Types /\ Delivered
    /\ Receive \/ NetDown \/ NetUp \/ StopStore \/ StopUploader \/ Restart \/ Crash
         \/ UNCHANGED vars
    => Delivered'
<1> SUFFICES ASSUME Types, Delivered,
                    Receive \/ NetDown \/ NetUp \/ StopStore \/ StopUploader \/ Restart \/ Crash
                      \/ UNCHANGED vars
             PROVE  Delivered'
    OBVIOUS
<1>1. CASE Receive
    <2>1. UNCHANGED Known
        BY <1>1, ReceiveKnows
    <2> QED BY <1>1, <2>1 DEF Receive, upVars, faults, Delivered
<1>2. CASE NetDown
    <2>1. breaks' # 0
        BY <1>2, Constants DEF NetDown, Types, FaultTypes
    <2> QED BY <2>1 DEF Delivered
<1>3. CASE NetUp
    <2>1. UNCHANGED breaks /\ ~netup
        BY <1>3 DEF NetUp, faults
    <2> QED BY <2>1 DEF Delivered
<1>4. CASE StopStore \/ StopUploader \/ UNCHANGED vars
    <2>1. UNCHANGED <<db, upc, cursor, conn, wire, netup, received, breaks>>
        BY <1>4 DEF StopStore, StopUploader, vars, upVars, netVars, faults
    <2> QED BY <2>1 DEF Delivered, Known, Got
<1>5. CASE Restart \/ Crash
    <2>1. /\ UNCHANGED <<db, wire, netup, received, breaks>>
          /\ upc' # "mark" /\ conn' # "broken"
        BY <1>5 DEF Restart, Crash, Boot
    <2> QED BY <2>1 DEF Delivered, Known, Got
<1> QED BY <1>1, <1>2, <1>3, <1>4, <1>5

LEMMA DeliveredInvariance == Spec => [](Types /\ Delivered)
<1>1. Init => Types /\ Delivered
    <2>1. Init => Delivered
        BY DEF Init, Delivered, Uploaded, EmptyTable
    <2> QED BY <2>1, InitTypes
<1>2. Types /\ Delivered /\ [Next]_vars => (Types /\ Delivered)'
    BY NextTypes, StoreDeliveredStep, UploadDeliveredStep, OtherDeliveredStep DEF Next
<1> QED BY <1>1, <1>2, PTL DEF Spec

(* UploadedIsDelivered: without an outage no row is marked that the        *)
(* receiver does not have or will not get, whatever else fails.            *)
THEOREM NoSilentLoss == Spec => []UploadedIsDelivered
<1>1. Types /\ Delivered => UploadedIsDelivered
    BY DEF Types, TableTypes, Delivered, UploadedIsDelivered, Known, Got, RowsOf, OnWire,
           Uploaded
<1> QED BY <1>1, DeliveredInvariance, PTL

-----------------------------------------------------------------------------
(* How many copies of a row there are, received or on the wire.            *)

Places(w, i) == {k \in 1 .. Len(w) : w[k] = i}
Count(w, i) == Cardinality(Places(w, i))

LEMMA CountType ==
    ASSUME NEW S, NEW w \in Seq(S), NEW i
    PROVE  IsFiniteSet(Places(w, i)) /\ Count(w, i) \in Nat
<1>1. Len(w) \in Int
    OBVIOUS
<1>2. IsFiniteSet(1 .. Len(w))
    BY <1>1, FS_Interval
<1>3. Places(w, i) \in SUBSET (1 .. Len(w))
    BY DEF Places
<1>4. IsFiniteSet(Places(w, i))
    BY <1>2, <1>3, FS_Subset
<1> QED BY <1>4, FS_CardinalityType DEF Count

LEMMA CountAppend ==
    ASSUME NEW S, NEW w \in Seq(S), NEW r \in S, NEW i
    PROVE  Count(Append(w, r), i) = Count(w, i) + (IF r = i THEN 1 ELSE 0)
<1> DEFINE n == Len(w)
           v == Append(w, r)
<1>1. n \in Nat /\ Len(v) = n + 1 /\ v[n + 1] = r
    OBVIOUS
<1>2. \A k \in 1 .. n : v[k] = w[k]
    OBVIOUS
<1>3. \A k : k \in 1 .. n + 1 <=> (k \in 1 .. n \/ k = n + 1)
    BY <1>1
<1>4. n + 1 \notin 1 .. n
    BY <1>1
<1>5. IsFiniteSet(Places(w, i)) /\ Count(w, i) \in Nat
    BY CountType
<1> HIDE DEF n, v
<1>6. Places(w, i) = {k \in 1 .. n : w[k] = i}
    BY DEF Places, n
<1>7. Places(v, i) = {k \in 1 .. n + 1 : v[k] = i}
    BY <1>1 DEF Places
<1>8. CASE r = i
    <2>1. Places(v, i) = Places(w, i) \cup {n + 1}
        BY <1>1, <1>2, <1>3, <1>6, <1>7, <1>8
    <2>2. n + 1 \notin Places(w, i)
        BY <1>4, <1>6
    <2> QED BY <1>5, <1>8, <2>1, <2>2, FS_AddElement DEF Count, v
<1>9. CASE r # i
    <2>1. Places(v, i) = Places(w, i)
        BY <1>1, <1>2, <1>3, <1>6, <1>7, <1>9
    <2>2. Count(v, i) = Count(w, i) + 0
        BY <1>5, <2>1 DEF Count
    <2> QED BY <1>9, <2>2 DEF v
<1> QED BY <1>8, <1>9

LEMMA CountTail ==
    ASSUME NEW S, NEW w \in Seq(S), w # <<>>, NEW i
    PROVE  Count(w, i) = Count(Tail(w), i) + (IF Head(w) = i THEN 1 ELSE 0)
<1> DEFINE n == Len(w)
           v == Tail(w)
           P == Places(v, i)
           Q == Places(w, i) \ {1}
           f == [k \in P |-> k + 1]
<1>1. n \in Nat /\ n > 0 /\ Len(v) = n - 1 /\ Head(w) = w[1] /\ v \in Seq(S)
    OBVIOUS
<1>2. \A k \in 1 .. n - 1 : v[k] = w[k + 1]
    OBVIOUS
<1>3. IsFiniteSet(P) /\ Count(v, i) \in Nat
    BY <1>1, CountType
<1>4. IsFiniteSet(Places(w, i)) /\ Count(w, i) \in Nat
    BY CountType
<1>5. P = {k \in 1 .. n - 1 : v[k] = i} /\ Q = {k \in 1 .. n : w[k] = i} \ {1}
    BY <1>1 DEF Places
<1> HIDE DEF n, v
<1>6. f \in Bijection(P, Q)
    <2> HIDE DEF P, Q
    <2>1. \A k \in P : k + 1 \in Q
        <3>1. \A k \in 1 .. n - 1 : k + 1 \in 1 .. n /\ k + 1 # 1
            BY <1>1
        <3> QED BY <1>2, <1>5, <3>1
    <2>2. \A m \in Q : \E k \in P : m = k + 1
        <3>1. \A m \in 1 .. n : m # 1 => m - 1 \in 1 .. n - 1 /\ m = (m - 1) + 1
            BY <1>1
        <3> QED BY <1>2, <1>5, <3>1
    <2>3. \A j, k \in P : j + 1 = k + 1 => j = k
        <3>1. \A j, k \in 1 .. n - 1 : j + 1 = k + 1 => j = k
            BY <1>1
        <3> QED BY <1>5, <3>1
    <2>4. f \in [P -> Q]
        BY <2>1
    <2>5. f \in Injection(P, Q)
        BY <2>3, <2>4 DEF Injection, IsInjective
    <2>6. f \in Surjection(P, Q)
        BY <2>2, <2>4 DEF Surjection
    <2> QED BY <2>5, <2>6 DEF Bijection
<1>7. Cardinality(Q) = Cardinality(P)
    <2>1. ExistsBijection(P, Q)
        BY <1>6 DEF ExistsBijection
    <2> QED BY <1>3, <2>1, FS_Bijection
<1>8. Cardinality(Q) = IF 1 \in Places(w, i) THEN Count(w, i) - 1 ELSE Count(w, i)
    BY <1>4, FS_RemoveElement DEF Count
<1>9. 1 \in Places(w, i) <=> Head(w) = i
    <2>1. 1 \in 1 .. n
        BY <1>1
    <2> QED BY <1>1, <2>1 DEF Places, n
<1>10. Count(v, i) = Cardinality(Q)
    BY <1>7 DEF Count
<1> HIDE DEF P, Q
<1>11. Count(w, i) = Count(v, i) + (IF Head(w) = i THEN 1 ELSE 0)
    BY <1>3, <1>4, <1>8, <1>9, <1>10
<1> QED BY <1>11 DEF v

Copies(i) == received[i] + Count(wire, i)

(* The row may be sent again: it is new, or in the table and neither       *)
(* marked nor about to be, or under the cursor and not yet sent.           *)
MayBeSent(i) == \/ i >= nextId
                \/ (i \in DOMAIN db /\ ~db[i].uploaded /\ ~(upc = "mark" /\ cursor.row = i))
                \/ (upc = "send" /\ cursor.row = i)

Mishaps == crashes + dberrs

FewCopies == \A i \in Ids : /\ Copies(i) <= 1 + Mishaps
                            /\ MayBeSent(i) => Copies(i) <= Mishaps

LEMMA CopiesType ==
    ASSUME Types, NEW i \in Ids
    PROVE  received[i] \in Nat /\ Count(wire, i) \in Nat /\ Copies(i) \in Nat /\ Mishaps \in Nat
<1>1. received[i] \in Nat /\ wire \in Seq(Ids)
    BY DEF Types, NetTypes
<1>2. Count(wire, i) \in Nat
    BY <1>1, CountType
<1>3. crashes \in Nat /\ dberrs \in Nat
    BY Constants DEF Types, FaultTypes
<1> QED BY <1>1, <1>2, <1>3 DEF Copies, Mishaps

LEMMA CopiesTypes == Types => Mishaps \in Nat /\ \A i \in Ids : Copies(i) \in Nat
<1> SUFFICES ASSUME Types PROVE Mishaps \in Nat /\ \A i \in Ids : Copies(i) \in Nat
    OBVIOUS
<1>1. crashes \in Nat /\ dberrs \in Nat
    BY Constants DEF Types, FaultTypes
<1> QED BY <1>1, CopiesType DEF Mishaps

LEMMA CopiesTypesNext == (Types => Mishaps \in Nat /\ \A i \in Ids : Copies(i) \in Nat)'
    BY CopiesTypes, PTL

(* A step that adds no copy keeps the bound if it makes no row sendable    *)
(* again, or counts as a mishap.                                           *)
LEMMA CopiesKept ==
    ASSUME Types, Types', FewCopies,
           \A i \in Ids : Copies(i)' <= Copies(i),
           \/ Mishaps' >= Mishaps /\ \A i \in Ids : MayBeSent(i)' => MayBeSent(i)
           \/ Mishaps' >= Mishaps + 1
    PROVE  FewCopies'
<1> SUFFICES ASSUME NEW i \in Ids
             PROVE  /\ Copies(i)' <= 1 + Mishaps'
                    /\ MayBeSent(i)' => Copies(i)' <= Mishaps'
    BY DEF FewCopies
<1> DEFINE c == Copies(i)
           d == Copies(i)'
           m == Mishaps
           n == Mishaps'
           s == MayBeSent(i)
           t == MayBeSent(i)'
<1>1. c \in Nat /\ m \in Nat
    BY CopiesType
<1>2. d \in Nat /\ n \in Nat
    BY CopiesTypesNext
<1>3. c <= 1 + m /\ (s => c <= m)
    BY DEF FewCopies
<1>4. d <= c
    OBVIOUS
<1>5. (n >= m /\ (t => s)) \/ n >= m + 1
    OBVIOUS
<1> HIDE DEF c, d, m, n, s, t
<1>6. d <= 1 + n
    BY <1>1, <1>2, <1>3, <1>4, <1>5
<1>7. t => d <= n
    <2> SUFFICES ASSUME t PROVE d <= n
        OBVIOUS
    <2>1. CASE n >= m /\ s
        <3>1. c <= m
            BY <2>1, <1>3
        <3> QED BY <1>1, <1>2, <1>4, <2>1, <3>1
    <2>2. CASE n >= m + 1
        BY <1>1, <1>2, <1>3, <1>4, <2>2
    <2> QED BY <1>5, <2>1, <2>2
<1> QED BY <1>6, <1>7 DEF c, d, m, n, s, t

LEMMA MayFailMishaps ==
    ASSUME Types, MayFail
    PROVE  /\ crashes' = crashes => Mishaps' >= Mishaps
           /\ crashes' = crashes /\ dberrs' # dberrs => Mishaps' >= Mishaps + 1
<1> DEFINE d == dberrs'
           c == crashes'
<1>1. crashes \in Nat /\ dberrs \in Nat /\ (d = dberrs \/ d = dberrs + 1)
    BY Constants DEF Types, FaultTypes, MayFail
<1> HIDE DEF c, d
<1>2. /\ c = crashes => c + d >= crashes + dberrs
      /\ c = crashes /\ d # dberrs => c + d >= crashes + dberrs + 1
    BY <1>1
<1> QED BY <1>2 DEF Mishaps, c, d

(* What leaves the wire and the received rows alone leaves the copies.     *)
LEMMA SameCopies ==
    ASSUME Types, UNCHANGED <<wire, received>>
    PROVE  \A i \in Ids : Copies(i)' <= Copies(i)
<1> SUFFICES ASSUME NEW i \in Ids PROVE Copies(i)' <= Copies(i)
    OBVIOUS
<1>1. Copies(i)' = Copies(i)
    BY DEF Copies
<1> QED BY <1>1, CopiesType

LEMMA SendCopies ==
    ASSUME Types, Types', FewCopies, UpSend
    PROVE  FewCopies'
<1>1. /\ UNCHANGED <<db, nextId, cursor, received, crashes, dberrs>>
      /\ upc = "send" /\ upc' \in {"mark", "fail"}
    BY DEF UpSend, upRest
<1>2. \A i \in Ids : MayBeSent(i)' => MayBeSent(i)
    BY <1>1 DEF MayBeSent
<1>3. UNCHANGED Mishaps
    BY <1>1 DEF Mishaps
<1>4. CASE UNCHANGED wire
    <2>1. \A i \in Ids : Copies(i)' <= Copies(i)
        BY <1>1, <1>4, SameCopies
    <2>2. Mishaps' >= Mishaps
        BY <1>3, CopiesTypes
    <2> QED BY <1>2, <2>1, <2>2, CopiesKept
<1>5. CASE conn = "up" /\ wire' = Append(wire, cursor.row) /\ upc' = "mark"
    <2>1. cursor.row \in Ids /\ cursor.row < nextId /\ wire \in Seq(Ids)
        BY <1>1, CursorRow DEF Types, NetTypes
    <2> SUFFICES ASSUME NEW i \in Ids
                 PROVE  /\ Copies(i)' <= 1 + Mishaps'
                        /\ MayBeSent(i)' => Copies(i)' <= Mishaps'
        BY DEF FewCopies
    <2>2. Count(wire', i) = Count(wire, i) + (IF cursor.row = i THEN 1 ELSE 0)
        BY <1>5, <2>1, CountAppend
    <2>3. /\ received[i] \in Nat /\ Count(wire, i) \in Nat /\ Mishaps \in Nat
          /\ Copies(i) <= 1 + Mishaps
          /\ MayBeSent(i) => Copies(i) <= Mishaps
        BY CopiesType DEF FewCopies
    <2>4. CASE i # cursor.row
        <3>1. Copies(i)' = Copies(i)
            BY <1>1, <2>2, <2>3, <2>4 DEF Copies
        <3> QED BY <1>2, <1>3, <2>3, <3>1
    <2>5. CASE i = cursor.row
        <3>1. MayBeSent(i)
            BY <1>1, <2>5 DEF MayBeSent
        <3>2. received'[i] + Count(wire', i) <= 1 + Mishaps
            BY <1>1, <2>2, <2>3, <2>5, <3>1 DEF Copies
        <3>3. ~MayBeSent(i)'
            <4>1. cursor.row \in Nat /\ nextId \in Nat /\ ~(cursor.row >= nextId)
                BY <2>1, Constants DEF Types, TableTypes, Ids
            <4> QED BY <1>1, <1>5, <2>5, <4>1 DEF MayBeSent
        <3> QED BY <1>3, <3>2, <3>3 DEF Copies
    <2> QED BY <2>4, <2>5
<1> QED BY <1>4, <1>5 DEF UpSend

LEMMA StoreCopies ==
    ASSUME Types, Types', FewCopies, Store
    PROVE  FewCopies'
<1>1. /\ UNCHANGED <<upc, cursor, wire, received, crashes>> /\ MayFail
      /\ \A i \in DOMAIN db' : \/ (i \in DOMAIN db /\ db'[i] = db[i])
                               \/ i = nextId
      /\ nextId' \in {nextId, nextId + 1}
    BY StoreRows
<1>2. \A i \in Ids : Copies(i)' <= Copies(i)
    BY <1>1, SameCopies
<1>3. \A i \in Ids : MayBeSent(i)' => MayBeSent(i)
    <2> SUFFICES ASSUME NEW i \in Ids, MayBeSent(i)' PROVE MayBeSent(i)
        OBVIOUS
    <2>1. i \in Nat /\ nextId \in Nat
        BY Constants DEF Types, TableTypes, Ids
    <2>2. i = nextId => i >= nextId
        BY <2>1
    <2>3. i >= nextId' => i >= nextId
        <3>1. i >= nextId + 1 => i >= nextId
            BY <2>1
        <3> QED BY <1>1, <3>1
    <2> QED BY <1>1, <2>2, <2>3 DEF MayBeSent
<1>4. Mishaps' >= Mishaps
    BY <1>1, MayFailMishaps
<1> QED BY <1>2, <1>3, <1>4, CopiesKept

LEMMA UploadCopies ==
    ASSUME Types, Types', FewCopies, Upload, ~UpSend
    PROVE  FewCopies'
<1>1. UNCHANGED <<nextId, received, crashes>> /\ MayFail
    BY UploadStep DEF upRest
<1>2. UNCHANGED wire
    BY DEF Upload, UpBegin, UpEnd, UpQuery, UpRow, UpRowShutdown, UpMark, UpFail, netVars
<1>3. \A i \in Ids : Copies(i)' <= Copies(i)
    BY <1>1, <1>2, SameCopies
<1>4. Mishaps' >= Mishaps /\ (dberrs' # dberrs => Mishaps' >= Mishaps + 1)
    BY <1>1, MayFailMishaps
<1>5. CASE UpBegin \/ UpEnd \/ UpQuery \/ UpRowShutdown
    <2>1. UNCHANGED db /\ upc' \notin {"send", "mark"} /\ upc # "mark"
        BY <1>5 DEF UpBegin, UpEnd, UpQuery, UpRowShutdown
    <2>2. \A i \in Ids : MayBeSent(i)' => MayBeSent(i)
        BY <1>1, <2>1 DEF MayBeSent
    <2> QED BY <1>3, <1>4, <2>2, CopiesKept
<1>6. CASE UpRow
    <2>1. UNCHANGED db /\ upc = "row" /\ upc' # "mark"
        BY <1>6 DEF UpRow, EndBatch
    <2>2. upc' = "send" => cursor'.row \in Eligible(db, RetryMax)
        <3>1. DOMAIN db \subseteq Nat /\ cursor.budget \in Nat /\ cursor.row \in Nat
            BY Constants DEF Types, TableTypes, CursorTypes
        <3>2. \A id \in NextRow : id \in Eligible(db, RetryMax)
            BY <3>1, NextRowIs
        <3> QED BY <1>6, <3>2 DEF UpRow, EndBatch
    <2>3. \A i \in Ids : MayBeSent(i)' => MayBeSent(i)
        BY <1>1, <2>1, <2>2 DEF MayBeSent, Eligible
    <2> QED BY <1>3, <1>4, <2>3, CopiesKept
<1>7. CASE UpMark
    <2>1. /\ UNCHANGED cursor /\ upc = "mark" /\ upc' = "row"
          /\ dberrs' > dberrs \/ (db' = MarkUploaded(db, cursor.row) /\ UNCHANGED dberrs)
        BY <1>7, Constants DEF UpMark, Executes, Types, FaultTypes
    <2>2. CASE dberrs' # dberrs
        BY <1>3, <1>4, <2>2, CopiesKept
    <2>3. CASE db' = MarkUploaded(db, cursor.row)
        <3>1. /\ DOMAIN db' = DOMAIN db
              /\ cursor.row \in DOMAIN db => db'[cursor.row].uploaded
              /\ \A i \in DOMAIN db : i # cursor.row => db'[i] = db[i]
            BY <2>3, MarkRow DEF Types, TableTypes
        <3>2. \A i \in Ids : MayBeSent(i)' => MayBeSent(i)
            BY <1>1, <2>1, <3>1 DEF MayBeSent
        <3> QED BY <1>3, <1>4, <3>2, CopiesKept
    <2>4. dberrs' > dberrs => dberrs' # dberrs
        BY <1>1, Constants DEF MayFail, Types, FaultTypes
    <2> QED BY <2>1, <2>2, <2>3, <2>4
<1>8. CASE UpFail
    <2>1. /\ upc = "fail" /\ upc' \in {"query", "top"}
          /\ UNCHANGED db \/ db' = IncRetry(db, cursor.row)
        BY <1>8 DEF UpFail, Executes
    <2>2. DOMAIN db' = DOMAIN db /\ \A i \in DOMAIN db : db'[i].uploaded = db[i].uploaded
        BY <2>1, RetryRow DEF Types, TableTypes
    <2>3. \A i \in Ids : MayBeSent(i)' => MayBeSent(i)
        BY <1>1, <2>1, <2>2 DEF MayBeSent
    <2> QED BY <1>3, <1>4, <2>3, CopiesKept
<1> QED BY <1>5, <1>6, <1>7, <1>8 DEF Upload

LEMMA OtherCopies ==
    ASSUME Types, Types', FewCopies,
           Receive \/ NetDown \/ NetUp \/ StopStore \/ StopUploader \/ Restart \/ Crash
             \/ UNCHANGED vars
    PROVE  FewCopies'
<1>1. Mishaps \in Nat /\ wire \in Seq(Ids) /\ received \in [Ids -> Nat]
    BY CopiesTypes DEF Types, NetTypes
<1>2. CASE Receive
    <2>1. UNCHANGED <<db, nextId, upc, cursor, crashes, dberrs>>
        BY <1>2 DEF Receive, upVars, faults
    <2>2. /\ wire # <<>> /\ wire' = Tail(wire)
          /\ received' = [received EXCEPT ![Head(wire)] = @ + 1]
        BY <1>2 DEF Receive
    <2>3. ASSUME NEW i \in Ids PROVE Copies(i)' <= Copies(i)
        <3>1. Count(wire, i) = Count(wire', i) + (IF Head(wire) = i THEN 1 ELSE 0)
            BY <1>1, <2>2, CountTail
        <3>2. Tail(wire) \in Seq(Ids)
            BY <1>1, <2>2
        <3>3. Count(wire', i) \in Nat
            BY <2>2, <3>2, CountType
        <3> DEFINE q == received'[i]
                   c == Count(wire', i)
        <3>4. q = received[i] + (IF Head(wire) = i THEN 1 ELSE 0)
            <4>1. received'[i] = IF i = Head(wire) THEN received[i] + 1 ELSE received[i]
                BY <1>1, <2>2
            <4>2. received[i] \in Nat
                BY <1>1
            <4> QED BY <4>1, <4>2
        <3>5. received[i] \in Nat /\ c \in Nat
                /\ Count(wire, i) = c + (IF Head(wire) = i THEN 1 ELSE 0)
            BY <1>1, <3>1, <3>3
        <3> HIDE DEF q, c
        <3>6. q + c <= received[i] + Count(wire, i)
            BY <3>4, <3>5
        <3> QED BY <3>6 DEF q, c, Copies
    <2>4. \A i \in Ids : MayBeSent(i)' => MayBeSent(i)
        BY <2>1 DEF MayBeSent
    <2>5. Mishaps' >= Mishaps
        <3>1. Mishaps' = Mishaps
            BY <2>1 DEF Mishaps
        <3> QED BY <1>1, <3>1
    <2> QED BY <2>3, <2>4, <2>5, CopiesKept
<1>3. CASE NetDown
    <2>1. UNCHANGED <<db, nextId, upc, cursor, crashes, dberrs, received>> /\ wire' = <<>>
        BY <1>3 DEF NetDown, upVars
    <2>2. ASSUME NEW i \in Ids PROVE Copies(i)' <= Copies(i)
        <3>1. Places(wire', i) = {}
            BY <2>1 DEF Places
        <3>2. Count(wire', i) = 0
            BY <3>1, FS_EmptySet DEF Count
        <3>3. received[i] \in Nat /\ Count(wire, i) \in Nat
            BY CopiesType
        <3>4. received[i] + 0 <= received[i] + Count(wire, i)
            BY <3>3
        <3> QED BY <2>1, <3>2, <3>4 DEF Copies
    <2>3. \A i \in Ids : MayBeSent(i)' => MayBeSent(i)
        BY <2>1 DEF MayBeSent
    <2>4. Mishaps' >= Mishaps
        <3>1. Mishaps' = Mishaps
            BY <2>1 DEF Mishaps
        <3> QED BY <1>1, <3>1
    <2> QED BY <2>2, <2>3, <2>4, CopiesKept
<1>4. CASE NetUp \/ StopStore \/ StopUploader \/ Restart \/ UNCHANGED vars
    <2>1. /\ UNCHANGED <<db, nextId, wire, received, crashes, dberrs>>
          /\ UNCHANGED <<upc, cursor>> \/ (upc = "stopped" /\ upc' = "top")
        BY <1>4 DEF NetUp, StopStore, StopUploader, Restart, Boot, vars, upVars, netVars, faults
    <2>2. \A i \in Ids : Copies(i)' <= Copies(i)
        BY <2>1, SameCopies
    <2>3. \A i \in Ids : MayBeSent(i)' => MayBeSent(i)
        BY <2>1 DEF MayBeSent
    <2>4. Mishaps' >= Mishaps
        <3>1. Mishaps' = Mishaps
            BY <2>1 DEF Mishaps
        <3> QED BY <1>1, <3>1
    <2> QED BY <2>2, <2>3, <2>4, CopiesKept
<1>5. CASE Crash
    <2>1. UNCHANGED <<wire, received, dberrs>> /\ crashes' = crashes + 1
        BY <1>5 DEF Crash, Boot
    <2>2. \A i \in Ids : Copies(i)' <= Copies(i)
        BY <2>1, SameCopies
    <2>3. Mishaps' >= Mishaps + 1
        <3> DEFINE c == crashes'
        <3>1. crashes \in Nat /\ dberrs \in Nat /\ c = crashes + 1
            BY <2>1, Constants DEF Types, FaultTypes
        <3> HIDE DEF c
        <3>2. c + dberrs >= crashes + dberrs + 1
            BY <3>1
        <3> QED BY <2>1, <3>2 DEF c, Mishaps
    <2> QED BY <2>2, <2>3, CopiesKept
<1> QED BY <1>2, <1>3, <1>4, <1>5

LEMMA InitCopies == Init => FewCopies
<1> SUFFICES ASSUME Init, NEW i \in Ids
             PROVE  /\ Copies(i) <= 1 + Mishaps
                    /\ MayBeSent(i) => Copies(i) <= Mishaps
    BY DEF FewCopies
<1>1. Places(wire, i) = {}
    BY DEF Init, Places
<1>2. Count(wire, i) = 0
    BY <1>1, FS_EmptySet DEF Count
<1>3. received[i] = 0 /\ crashes = 0 /\ dberrs = 0
    BY DEF Init
<1> QED BY <1>2, <1>3 DEF Copies, Mishaps

LEMMA CopiesInvariance == Spec => [](Types /\ FewCopies)
<1>1. Init => Types /\ FewCopies
    BY InitTypes, InitCopies
<1>2. Types /\ FewCopies /\ [Next]_vars => (Types /\ FewCopies)'
    <2> SUFFICES ASSUME Types, FewCopies, [Next]_vars PROVE (Types /\ FewCopies)'
        OBVIOUS
    <2>1. Types'
        BY NextTypes
    <2>2. FewCopies'
        BY <2>1, StoreCopies, UploadCopies, SendCopies, OtherCopies DEF Next
    <2> QED BY <2>1, <2>2
<1> QED BY <1>1, <1>2, PTL DEF Spec

(* AtMostOncePerFault: whatever outages, retries and restarts there are,   *)
(* the receiver gets a row once, and once more per crash or failed         *)
(* statement.                                                              *)
THEOREM OnceUnlessAFault == Spec => []AtMostOncePerFault
<1>1. Types /\ FewCopies => AtMostOncePerFault
    <2> SUFFICES ASSUME Types, FewCopies, NEW i \in Ids
                 PROVE  received[i] <= 1 + crashes + dberrs
        BY DEF AtMostOncePerFault
    <2>1. received[i] \in Nat /\ Count(wire, i) \in Nat /\ crashes \in Nat /\ dberrs \in Nat
        BY CopiesType, Constants DEF Types, FaultTypes
    <2>2. received[i] + Count(wire, i) <= 1 + (crashes + dberrs)
        BY DEF FewCopies, Copies, Mishaps
    <2> QED BY <2>1, <2>2
<1> QED BY <1>1, CopiesInvariance, PTL

-----------------------------------------------------------------------------
(* The order of first copies.                                              *)

LEMMA LeastNat ==
    ASSUME NEW S, S \subseteq Nat, S # {}
    PROVE  \E x \in S : \A y \in S : x <= y
<1>1. \E x \in S : \A y \in S : <<y, x>> \notin OpToRel(<, Nat)
    BY NatLessThanWellFounded, WFMin
<1>2. ASSUME NEW x \in S, \A y \in S : <<y, x>> \notin OpToRel(<, Nat)
      PROVE  \A y \in S : x <= y
    <2> SUFFICES ASSUME NEW y \in S PROVE x <= y
        OBVIOUS
    <2>1. ~(y < x)
        BY <1>2 DEF OpToRel
    <2> QED BY <2>1
<1> QED BY <1>1, <1>2

(* The rows that may still be sent. *)
Sendable(i) == \/ i \in Eligible(db, RetryMax) \/ i >= nextId
               \/ (upc = "send" /\ i = cursor.row)

(* On a live connection the cursor has not passed a row the receiver knows *)
(* nothing of; whatever may be sent and is not known is newer than what is *)
(* known.                                                                  *)
CursorAhead ==
    conn = "up" /\ upc \in {"row", "send", "mark"} =>
        \A i \in Eligible(db, RetryMax) \ Known :
            i > cursor.row \/ (upc = "send" /\ i = cursor.row)
KnownOlder == \A i \in Ids : Sendable(i) /\ i \notin Known => \A j \in Known : j < i

(* The first copies on the wire, likewise, are in order and newer than     *)
(* what was received.                                                      *)
WireNewer == \A k \in 1 .. Len(wire) :
                 wire[k] \notin Got => \A j \in Got : j < wire[k]
WireOrdered == \A k \in 1 .. Len(wire) : \A l \in 1 .. k - 1 :
                   \/ wire[k] \in Got
                   \/ \E m \in 1 .. k - 1 : wire[m] = wire[k]
                   \/ wire[l] < wire[k]

InOrder == CursorAhead /\ KnownOlder /\ WireNewer /\ WireOrdered

LEMMA KnownTypes == Types => Known \subseteq Ids /\ Got \subseteq Ids
<1> SUFFICES ASSUME Types PROVE RowsOf(wire) \subseteq Ids
    BY DEF Known, Got
<1>1. wire \in Seq(Ids)
    BY DEF Types, NetTypes
<1> QED BY <1>1 DEF RowsOf

LEMMA EligibleTypes ==
    Types => \A i \in Eligible(db, RetryMax) : i \in Ids /\ i < nextId
    BY Constants DEF Types, TableTypes, Eligible, Ids

(* What leaves the connection alone leaves the order on it alone.          *)
LEMMA WireKept ==
    ASSUME WireNewer, WireOrdered, UNCHANGED <<wire, received>>
    PROVE  WireNewer' /\ WireOrdered' /\ UNCHANGED <<Known, Got>>
    BY DEF WireNewer, WireOrdered, Known, Got

LEMMA StoreInOrder ==
    ASSUME Types, InOrder, Store
    PROVE  InOrder'
<1>1. /\ UNCHANGED <<upc, cursor, conn, wire, received>>
      /\ \A i \in DOMAIN db' : \/ (i \in DOMAIN db /\ db'[i] = db[i])
                               \/ i = nextId
      /\ nextId' \in {nextId, nextId + 1}
    BY StoreRows
<1>2. WireNewer' /\ WireOrdered' /\ UNCHANGED <<Known, Got>>
    BY <1>1, WireKept DEF InOrder
<1>3. \A i \in Eligible(db', RetryMax) : i \in Eligible(db, RetryMax) \/ i = nextId
    BY <1>1 DEF Eligible
<1>4. nextId \in Nat /\ cursor.row \in Nat /\ cursor.row < nextId
    BY Constants DEF Types, TableTypes, CursorTypes
<1>5. CursorAhead'
    <2>1. nextId > cursor.row
        BY <1>4
    <2> QED BY <1>1, <1>2, <1>3, <2>1 DEF InOrder, CursorAhead
<1>6. KnownOlder'
    <2>1. \A i \in Ids : Sendable(i)' => Sendable(i)
        <3> SUFFICES ASSUME NEW i \in Ids, Sendable(i)' PROVE Sendable(i)
            OBVIOUS
        <3>1. i \in Nat
            BY DEF Ids
        <3>2. (i = nextId => i >= nextId) /\ (i >= nextId + 1 => i >= nextId)
            BY <1>4, <3>1
        <3> QED BY <1>1, <1>3, <3>2 DEF Sendable
    <2> QED BY <1>2, <2>1 DEF InOrder, KnownOlder
<1> QED BY <1>2, <1>5, <1>6 DEF InOrder

LEMMA SendInOrder ==
    ASSUME Types, InOrder, UpSend
    PROVE  InOrder'
<1>1. /\ UNCHANGED <<db, nextId, cursor, conn, received>>
      /\ upc = "send" /\ upc' \in {"mark", "fail"} /\ conn \in {"up", "broken"}
    BY DEF UpSend, upRest
<1>2. \A i \in Ids : Sendable(i)' => Sendable(i)
    BY <1>1 DEF Sendable
<1>3. CASE conn # "up"
    <2>1. UNCHANGED wire
        BY <1>3, SendKnows
    <2>2. WireNewer' /\ WireOrdered' /\ UNCHANGED Known
        BY <1>1, <2>1, WireKept DEF InOrder
    <2>3. CursorAhead'
        BY <1>1, <1>3 DEF CursorAhead
    <2>4. KnownOlder'
        BY <1>2, <2>2 DEF InOrder, KnownOlder
    <2> QED BY <2>2, <2>3, <2>4 DEF InOrder
<1>4. CASE conn = "up"
    <2> DEFINE r == cursor.row
               n == Len(wire)
               v == wire'
    <2>1. /\ wire \in Seq(Ids) /\ r \in Ids /\ r < nextId /\ wire' = Append(wire, r)
          /\ upc' = "mark"
        BY <1>1, <1>4, CursorRow DEF Types, NetTypes, UpSend
    <2>2. Known' = Known \cup {r} /\ UNCHANGED Got
        BY <1>1, <1>4, SendKnows DEF Got
    <2>3. Known \subseteq Ids /\ Ids \subseteq Nat /\ Got \subseteq Known /\ nextId \in Nat
        BY KnownTypes, Constants DEF Ids, Known, Types, TableTypes
    <2>4. CursorAhead'
        BY <1>1, <1>4, <2>1, <2>2 DEF InOrder, CursorAhead
    <2>5. KnownOlder'
        <3> SUFFICES ASSUME NEW i \in Ids, Sendable(i)', i \notin Known', NEW j \in Known'
                     PROVE  j < i
            BY DEF KnownOlder
        <3>1. i \notin Known /\ i # r
            BY <2>2
        <3>2. CASE j \in Known
            BY <1>2, <3>1, <3>2 DEF InOrder, KnownOlder
        <3>3. CASE j = r
            <4>1. i \in Eligible(db, RetryMax) \/ i >= nextId
                BY <1>1, <2>1 DEF Sendable
            <4>2. i \in Eligible(db, RetryMax) => i > r
                BY <1>1, <1>4, <3>1 DEF InOrder, CursorAhead
            <4>3. i \in Nat /\ r \in Nat
                BY <2>1, <2>3
            <4> HIDE DEF r
            <4> QED BY <2>1, <2>3, <3>3, <4>1, <4>2, <4>3
        <3> QED BY <2>2, <3>2, <3>3
    <2>6. /\ n \in Nat /\ Len(v) = n + 1 /\ v[n + 1] = r
          /\ \A k \in 1 .. n : v[k] = wire[k]
        BY <2>1
    <2>7. \A k : k \in 1 .. n + 1 <=> (k \in 1 .. n \/ k = n + 1)
        BY <2>6
    <2>8. \A k \in 1 .. n : wire[k] \in Known
        BY DEF Known, RowsOf
    <2>9. r \notin Known => \A j \in Known : j < r
        <3>1. Sendable(r)
            BY <1>1 DEF Sendable
        <3> QED BY <2>1, <3>1 DEF InOrder, KnownOlder
    <2>10. r \in Known => r \in Got \/ \E k \in 1 .. n : wire[k] = r
        BY DEF Known, RowsOf
    <2>11. WireNewer'
        <3>1. r \notin Got => \A j \in Got : j < r
            BY <2>3, <2>9, <2>10 DEF InOrder, WireNewer
        <3>2. \A k \in 1 .. n : wire[k] \notin Got => \A j \in Got : j < wire[k]
            BY DEF InOrder, WireNewer
        <3> HIDE DEF n, v, r
        <3>3. \A k \in 1 .. Len(v) : v[k] \notin Got => \A j \in Got : j < v[k]
            BY <2>6, <2>7, <3>1, <3>2
        <3> QED BY <2>2, <3>3 DEF WireNewer, v
    <2>12. WireOrdered'
        <3>1. \A k \in 1 .. n : \A l \in 1 .. k - 1 :
                  \/ wire[k] \in Got
                  \/ \E m \in 1 .. k - 1 : wire[m] = wire[k]
                  \/ wire[l] < wire[k]
            BY DEF InOrder, WireOrdered
        <3>2. \A k \in 1 .. n : \A l \in 1 .. k - 1 : l \in 1 .. n
            BY <2>6
        <3>3. (n + 1) - 1 = n
            BY <2>6
        <3> HIDE DEF n, v, r
        <3>4. \A k \in 1 .. n : \A l \in 1 .. k - 1 :
                  \/ v[k] \in Got
                  \/ \E m \in 1 .. k - 1 : v[m] = v[k]
                  \/ v[l] < v[k]
            BY <2>6, <3>1, <3>2
        <3>5. \A l \in 1 .. n :
                  \/ r \in Got
                  \/ \E m \in 1 .. n : v[m] = r
                  \/ v[l] < r
            BY <2>6, <2>8, <2>9, <2>10
        <3>6. ASSUME NEW k \in 1 .. Len(v), NEW l \in 1 .. k - 1
              PROVE  \/ v[k] \in Got
                     \/ \E m \in 1 .. k - 1 : v[m] = v[k]
                     \/ v[l] < v[k]
            BY <2>6, <2>7, <3>3, <3>4, <3>5
        <3> QED BY <2>2, <3>6 DEF WireOrdered, v
    <2> QED BY <2>4, <2>5, <2>11, <2>12 DEF InOrder
<1> QED BY <1>3, <1>4

LEMMA UploadInOrder ==
    ASSUME Types, InOrder, Upload, ~UpSend
    PROVE  InOrder'
<1>1. UNCHANGED <<nextId, received>>
    BY UploadStep DEF upRest
<1>2. UNCHANGED wire
    BY DEF Upload, UpBegin, UpEnd, UpQuery, UpRow, UpRowShutdown, UpMark, UpFail, netVars
<1>3. WireNewer' /\ WireOrdered' /\ UNCHANGED <<Known, Got>>
    BY <1>1, <1>2, WireKept DEF InOrder
<1>4. Eligible(db', RetryMax) \subseteq Eligible(db, RetryMax)
    <2>1. CASE UNCHANGED db
        BY <2>1
    <2>2. CASE db' = MarkUploaded(db, cursor.row)
        <3>1. /\ DOMAIN db' = DOMAIN db
              /\ cursor.row \in DOMAIN db => db'[cursor.row].uploaded
              /\ \A i \in DOMAIN db : i # cursor.row => db'[i] = db[i]
            BY <2>2, MarkRow DEF Types, TableTypes
        <3> QED BY <3>1 DEF Eligible
    <2>3. CASE db' = IncRetry(db, cursor.row)
        <3>1. /\ DOMAIN db' = DOMAIN db
              /\ \A i \in DOMAIN db : /\ db'[i].uploaded = db[i].uploaded
                                      /\ db'[i] = db[i] \/ db'[i].retry = db[i].retry + 1
            BY <2>3, RetryRow DEF Types, TableTypes
        <3>2. \A i \in DOMAIN db : db[i].retry \in Nat
            BY DEF Types, TableTypes, Table, Row
        <3>3. \A i \in DOMAIN db : db'[i].retry < RetryMax => db[i].retry < RetryMax
            <4> SUFFICES ASSUME NEW i \in DOMAIN db, db'[i].retry < RetryMax
                         PROVE  db[i].retry < RetryMax
                OBVIOUS
            <4>1. RetryMax \in Nat /\ db[i].retry \in Nat
                BY <3>2, Constants
            <4>2. db[i].retry + 1 < RetryMax => db[i].retry < RetryMax
                BY <4>1
            <4> QED BY <3>1, <4>2
        <3> QED BY <3>1, <3>3 DEF Eligible
    <2> QED BY <2>1, <2>2, <2>3, UploadStep
<1>5. CASE UpRow
    <2>1. UNCHANGED db /\ upc = "row"
        BY <1>5 DEF UpRow
    <2>2. CASE upc' = "send"
        <3>1. PICK id \in NextRow : cursor'.row = id /\ UNCHANGED conn
            BY <1>5, <2>2 DEF UpRow, EndBatch
        <3>2. DOMAIN db \subseteq Nat /\ cursor.budget \in Nat /\ cursor.row \in Nat
            BY Constants DEF Types, TableTypes, CursorTypes
        <3>3. /\ id \in Eligible(db, RetryMax)
              /\ \A i \in Eligible(db, RetryMax) : i > cursor.row => i >= id
            BY <3>2, NextRowIs
        <3>4. \A i \in Eligible(db, RetryMax) : i >= id => (i > id \/ i = id)
            BY <3>2, <3>3 DEF Eligible
        <3>5. CursorAhead'
            BY <1>3, <2>1, <2>2, <3>1, <3>3, <3>4 DEF InOrder, CursorAhead
        <3>6. KnownOlder'
            <4>1. \A i \in Ids : Sendable(i)' => Sendable(i)
                BY <1>1, <2>1, <3>1, <3>3 DEF Sendable
            <4> QED BY <1>3, <4>1 DEF InOrder, KnownOlder
        <3> QED BY <1>3, <3>5, <3>6 DEF InOrder
    <2>3. CASE upc' # "send"
        <3>1. upc' \in {"top", "query", "stopped"}
            BY <1>5, <2>3 DEF UpRow, EndBatch
        <3>2. CursorAhead'
            BY <3>1 DEF CursorAhead
        <3>3. \A i \in Ids : Sendable(i)' => Sendable(i)
            BY <1>1, <2>1, <3>1 DEF Sendable
        <3> QED BY <1>3, <3>2, <3>3 DEF InOrder, KnownOlder
    <2> QED BY <2>2, <2>3
<1>6. CASE ~UpRow
    <2>1. upc' # "send"
        BY <1>6 DEF Upload, UpBegin, UpEnd, UpQuery, UpRowShutdown, UpMark, UpFail
    <2>2. \A i \in Ids : Sendable(i)' => Sendable(i)
        BY <1>1, <1>4, <2>1 DEF Sendable
    <2>3. KnownOlder'
        BY <1>3, <2>2 DEF InOrder, KnownOlder
    <2>4. CursorAhead'
        <3>1. CASE UpQuery
            <4>1. \A i \in Eligible(db, RetryMax) : i > 0
                BY DEF Types, TableTypes, Eligible
            <4>2. UNCHANGED db /\ (upc' = "row" => cursor'.row = 0)
                    /\ upc' \in {"row", "top", "stopped"}
                BY <3>1 DEF UpQuery, NewCursor
            <4> QED BY <4>1, <4>2 DEF CursorAhead
        <3>2. CASE UpMark
            <4>1. upc = "mark" /\ upc' = "row" /\ UNCHANGED <<cursor, conn>>
                BY <3>2 DEF UpMark, netVars
            <4> QED BY <1>3, <1>4, <4>1 DEF InOrder, CursorAhead
        <3>3. CASE UpBegin \/ UpEnd \/ UpRowShutdown \/ UpFail
            <4>1. upc' \notin {"row", "send", "mark"}
                BY <3>3 DEF UpBegin, UpEnd, UpRowShutdown, UpFail
            <4> QED BY <4>1 DEF CursorAhead
        <3> QED BY <1>6, <3>1, <3>2, <3>3 DEF Upload
    <2> QED BY <1>3, <2>3, <2>4 DEF InOrder
<1> QED BY <1>5, <1>6

LEMMA ReceiveInOrder ==
    ASSUME Types, InOrder, Receive
    PROVE  InOrder'
<1> DEFINE h == Head(wire)
           n == Len(wire)
           v == wire'
<1>1. UNCHANGED <<db, nextId, upc, cursor, conn>>
    BY DEF Receive, upVars
<1>2. h \in Ids /\ v = Tail(wire) /\ Got' = Got \cup {h} /\ UNCHANGED Known
    BY ReceiveKnows
<1>3. CursorAhead' /\ KnownOlder'
    BY <1>1, <1>2 DEF InOrder, CursorAhead, KnownOlder, Sendable
<1>4. /\ n \in Nat /\ n > 0 /\ Len(v) = n - 1 /\ h = wire[1]
      /\ \A k \in 1 .. n - 1 : v[k] = wire[k + 1]
    BY <1>2 DEF Receive, Types, NetTypes
<1>5. \A k \in 1 .. n : wire[k] \in Nat
    BY KnownTypes DEF Known, RowsOf, Ids
<1>6. \A k \in 1 .. n - 1 : k + 1 \in 1 .. n
    BY <1>4
<1>7. \A k \in 1 .. n : wire[k] \notin Got => \A j \in Got : j < wire[k]
    BY DEF InOrder, WireNewer
<1>8. \A k \in 1 .. n : \A l \in 1 .. k - 1 :
          \/ wire[k] \in Got
          \/ \E m \in 1 .. k - 1 : wire[m] = wire[k]
          \/ wire[l] < wire[k]
    BY DEF InOrder, WireOrdered
<1>9. ASSUME NEW k \in 1 .. n - 1, v[k] \notin Got'
      PROVE  h < v[k]
    <2> DEFINE P == {m \in 1 .. n : wire[m] = v[k]}
    <2>1. k + 1 \in P /\ P \subseteq Nat
        BY <1>4, <1>6
    <2>2. PICK m \in P : \A y \in P : m <= y
        BY <2>1, LeastNat
    <2>3. v[k] \notin Got /\ v[k] # h
        BY <1>2, <1>9
    <2>4. m \in 1 .. n /\ m # 1 /\ wire[m] = v[k]
        BY <1>4, <2>3
    <2>5. 1 \in 1 .. m - 1 /\ \A y \in 1 .. m - 1 : y \in 1 .. n /\ ~(m <= y)
        BY <1>4, <2>4
    <2>6. ~\E y \in 1 .. m - 1 : wire[y] = wire[m]
        BY <2>2, <2>4, <2>5
    <2>7. wire[1] < wire[m]
        BY <1>8, <2>3, <2>4, <2>5, <2>6
    <2> QED BY <1>4, <2>4, <2>7
<1>10. WireNewer'
    <2>1. ASSUME NEW k \in 1 .. Len(v), v[k] \notin Got', NEW j \in Got'
          PROVE  j < v[k]
        <3>1. k \in 1 .. n - 1
            BY <1>4
        <3>2. CASE j = h
            BY <1>9, <2>1, <3>1, <3>2
        <3>3. CASE j \in Got
            BY <1>2, <1>4, <1>6, <1>7, <2>1, <3>1, <3>3
        <3> QED BY <1>2, <3>2, <3>3
    <2> QED BY <2>1 DEF WireNewer
<1>11. WireOrdered'
    <2>1. ASSUME NEW k \in 1 .. Len(v), NEW l \in 1 .. k - 1, v[k] \notin Got'
          PROVE  \/ \E m \in 1 .. k - 1 : v[m] = v[k]
                 \/ v[l] < v[k]
        <3>1. k \in 1 .. n - 1 /\ k + 1 \in 1 .. n /\ l + 1 \in 1 .. (k + 1) - 1
                /\ l \in 1 .. n - 1
            BY <1>4, <1>6
        <3>2. v[k] = wire[k + 1] /\ v[l] = wire[l + 1] /\ v[k] \notin Got /\ v[k] # h
            BY <1>2, <1>4, <2>1, <3>1
        <3>3. \/ \E m \in 1 .. (k + 1) - 1 : wire[m] = wire[k + 1]
              \/ wire[l + 1] < wire[k + 1]
            BY <1>8, <3>1, <3>2
        <3>4. ASSUME NEW m \in 1 .. (k + 1) - 1, wire[m] = wire[k + 1]
              PROVE  \E x \in 1 .. k - 1 : v[x] = v[k]
            <4>1. m # 1
                BY <1>4, <3>2, <3>4
            <4>2. m - 1 \in 1 .. k - 1 /\ m - 1 \in 1 .. n - 1 /\ (m - 1) + 1 = m
                BY <3>1, <4>1, <1>4
            <4>3. v[m - 1] = v[k]
                BY <1>4, <3>2, <3>4, <4>2
            <4> QED BY <4>2, <4>3
        <3> QED BY <3>2, <3>3, <3>4
    <2> QED BY <2>1 DEF WireOrdered
<1> QED BY <1>3, <1>10, <1>11 DEF InOrder

LEMMA OtherInOrder ==
    ASSUME Types, InOrder,
           NetDown \/ NetUp \/ StopStore \/ StopUploader \/ Restart \/ Crash \/ UNCHANGED vars
    PROVE  InOrder'
<1>1. CASE NetDown
    <2>1. /\ UNCHANGED <<db, nextId, upc, cursor, received>> /\ wire' = <<>> /\ conn' # "up"
        BY <1>1 DEF NetDown, upVars
    <2>2. CursorAhead' /\ WireNewer' /\ WireOrdered'
        BY <2>1 DEF CursorAhead, WireNewer, WireOrdered
    <2>3. Known' = Got /\ Got' = Got
        BY <2>1 DEF Known, Got, RowsOf
    <2>4. KnownOlder'
        <3> SUFFICES ASSUME NEW i \in Ids, Sendable(i), i \notin Got, NEW j \in Got
                     PROVE  j < i
            BY <2>1, <2>3 DEF KnownOlder, Sendable
        <3>1. CASE i \notin Known
            BY <3>1 DEF InOrder, KnownOlder, Known
        <3>2. CASE i \in RowsOf(wire)
            BY <3>2 DEF InOrder, WireNewer, RowsOf
        <3> QED BY <3>1, <3>2 DEF Known
    <2> QED BY <2>2, <2>4 DEF InOrder
<1>2. CASE NetUp \/ StopStore \/ StopUploader \/ Restart \/ Crash \/ UNCHANGED vars
    <2>1. /\ UNCHANGED <<db, nextId, wire, received>>
          /\ UNCHANGED <<upc, cursor, conn>> \/ upc' = "top"
        BY <1>2 DEF NetUp, StopStore, StopUploader, Restart, Crash, Boot, vars, upVars, netVars
    <2>2. WireNewer' /\ WireOrdered' /\ UNCHANGED <<Known, Got>>
        BY <2>1, WireKept DEF InOrder
    <2>3. CursorAhead'
        BY <2>1, <2>2 DEF InOrder, CursorAhead
    <2>4. KnownOlder'
        BY <2>1, <2>2 DEF InOrder, KnownOlder, Sendable
    <2> QED BY <2>2, <2>3, <2>4 DEF InOrder
<1> QED BY <1>1, <1>2

LEMMA OrderInvariance == Spec => [](Types /\ InOrder)
<1>1. Init => Types /\ InOrder
    <2>1. Init => InOrder
        BY DEF Init, InOrder, CursorAhead, KnownOlder, WireNewer, WireOrdered, Known, Got, RowsOf
    <2> QED BY <2>1, InitTypes
<1>2. Types /\ InOrder /\ [Next]_vars => (Types /\ InOrder)'
    <2> SUFFICES ASSUME Types, InOrder, [Next]_vars PROVE (Types /\ InOrder)'
        OBVIOUS
    <2>1. Types'
        BY NextTypes
    <2>2. InOrder'
        BY StoreInOrder, UploadInOrder, SendInOrder, ReceiveInOrder, OtherInOrder DEF Next
    <2> QED BY <2>1, <2>2
<1> QED BY <1>1, <1>2, PTL DEF Spec

(* FirstCopiesInOrder: the first copy of a row arrives after those of all  *)
(* older rows that ever arrive, whatever was resent, skipped or delivered  *)
(* late: the query goes by id and the cursor never turns back on a         *)
(* connection.                                                             *)
THEOREM RowsArriveInOrder == Spec => FirstCopiesInOrder
<1> DEFINE A == \A i, j \in Ids : received[i] = 0 /\ received'[i] = 1 /\ received[j] > 0
                                    => j < i
<1>1. Types /\ InOrder /\ [Next]_vars => [A]_vars
    <2> SUFFICES ASSUME Types, InOrder, Next,
                        NEW i \in Ids, NEW j \in Ids,
                        received[i] = 0, received'[i] = 1, received[j] > 0
                 PROVE  j < i
        OBVIOUS
    <2>1. received' # received
        OBVIOUS
    <2>2. Receive
        BY <2>1, StoreRows, UploadStep
           DEF Next, NetDown, NetUp, StopStore, StopUploader, Restart, Crash, Boot, netVars
    <2>3. i = Head(wire)
        BY <2>2, ReceiveKnows
    <2>4. 1 \in 1 .. Len(wire) /\ Head(wire) = wire[1]
        BY <2>2 DEF Receive, Types, NetTypes
    <2>5. i \notin Got /\ j \in Got
        BY DEF Got
    <2> QED BY <2>3, <2>4, <2>5 DEF InOrder, WireNewer
<1>2. Spec => [][A]_vars
    BY <1>1, OrderInvariance, PTL DEF Spec
<1> QED BY <1>2 DEF FirstCopiesInOrder

-----------------------------------------------------------------------------
(* The drain at exit.                                                      *)

(* A cursor that has not moved and finds no row has seen the whole table.  *)
LEMMA FreshCursorSeesAll ==
    ASSUME Types, cursor = NewCursor, NextRow = {}
    PROVE  Eligible(db, RetryMax) = {}
<1> DEFINE E == Eligible(db, RetryMax)
           L == {i \in E : i > cursor.row}
<1>1. cursor.row = 0 /\ cursor.budget # 0
    BY Constants DEF NewCursor
<1>2. E \subseteq Nat /\ \A i \in E : i > 0
    BY DEF Types, TableTypes, Eligible
<1>3. L = E
    BY <1>1, <1>2
<1>4. Oldest(L, 1) = {}
    BY <1>1 DEF NextRow
<1>5. ASSUME NEW x \in L, \A y \in L : x <= y PROVE FALSE
    <2>1. x \in Nat /\ L \subseteq Nat
        BY <1>2
    <2>2. {j \in L : j < x} = {}
        BY <1>5, <2>1
    <2>3. Cardinality({j \in L : j < x}) = 0
        BY <2>2, FS_EmptySet
    <2>4. x \in Oldest(L, 1)
        BY <2>3 DEF Oldest
    <2> QED BY <1>4, <2>4
<1>6. L = {}
    BY <1>2, <1>5, LeastNat
<1> QED BY <1>3, <1>6

(* main() tells the uploader to stop once the store thread stopped, and    *)
(* the uploader drains only when told so.                                  *)
Closing == /\ upShutdown => spc = "stopped"
           /\ draining => upShutdown /\ upc # "top"
           /\ upc = "row" /\ ~cursor.hasData => cursor = NewCursor
           /\ upc \in {"send", "mark"} => cursor.hasData

Drain == Closing /\ DrainLeavesNothing

LEMMA PendingIsEligible == Pending = Eligible(db, RetryMax)
    BY DEF Pending, Eligible

LEMMA StoreDrainStep ==
    ASSUME Types, Drain, Store
    PROVE  Drain'
<1>1. spc # "stopped"
    BY DEF Store, StorePop, StorePopFails, StoreSample, StoreSeesShutdown, StoreDrain,
           StoreDrained, Trim1, Trim2
<1>2. UNCHANGED <<upShutdown, upc, draining, cursor>>
    BY StoreRows
<1> QED BY <1>1, <1>2 DEF Drain, Closing, DrainLeavesNothing

LEMMA UploadDrainStep ==
    ASSUME Types, Drain, Upload
    PROVE  Drain'
<1>1. UNCHANGED <<spc, upShutdown>>
    BY UploadStep DEF upRest, storeVars
<1>2. upc # "stopped"
    BY DEF Upload, UpBegin, UpEnd, UpQuery, UpRow, UpRowShutdown, UpSend, UpMark, UpFail
<1>3. dberrs \in Nat /\ dberrs + 1 # 0
    BY Constants DEF Types, FaultTypes
<1>4. CASE UpBegin \/ UpEnd \/ UpQuery \/ UpRowShutdown
    <2>1. /\ draining' => upShutdown /\ upc' # "top"
          /\ upc' = "row" => cursor' = NewCursor
          /\ upc' \notin {"send", "mark"}
        BY <1>4 DEF UpBegin, UpEnd, UpQuery, UpRowShutdown, Drain, Closing
    <2>2. ~(upc' = "stopped" /\ draining' /\ dberrs' = 0)
        BY <1>3, <1>4 DEF UpBegin, UpEnd, UpQuery, UpRowShutdown, Drain, Closing
    <2> QED BY <1>1, <2>1, <2>2 DEF Drain, Closing, DrainLeavesNothing
<1>5. CASE UpRow
    <2>1. upc = "row" /\ UNCHANGED <<db, draining>> /\ upc' # "row"
            /\ (draining => upc' # "top") /\ upc' # "mark"
            /\ (upc' = "send" => cursor'.hasData)
        BY <1>5 DEF UpRow, EndBatch
    <2>2. upc' = "stopped" /\ dberrs' = 0 => ~cursor.hasData /\ NextRow = {}
        BY <1>3, <1>5 DEF UpRow, EndBatch
    <2>3. DrainLeavesNothing'
        <3> SUFFICES ASSUME upc' = "stopped", dberrs' = 0
                     PROVE  Pending' = {}
            BY DEF DrainLeavesNothing
        <3>1. cursor = NewCursor /\ NextRow = {}
            BY <2>1, <2>2 DEF Drain, Closing
        <3>2. Eligible(db, RetryMax) = {}
            BY <3>1, FreshCursorSeesAll
        <3>3. Pending = {}
            BY <3>2, PendingIsEligible
        <3> QED BY <2>1, <3>3 DEF Pending
    <2> QED BY <1>1, <2>1, <2>3 DEF Drain, Closing
<1>6. CASE UpSend \/ UpMark \/ UpFail
    <2>1. /\ UNCHANGED <<draining, cursor>> /\ upc' # "stopped"
          /\ upc \in {"send", "mark", "fail"}
          /\ draining => upc' # "top"
          /\ upc' = "row" => upc = "mark"
          /\ upc' = "mark" => upc = "send"
          /\ upc' # "send"
        BY <1>6 DEF UpSend, UpMark, UpFail
    <2> QED BY <1>1, <2>1 DEF Drain, Closing, DrainLeavesNothing
<1> QED BY <1>4, <1>5, <1>6 DEF Upload

LEMMA OtherDrainStep ==
    ASSUME Types, Drain,
           Receive \/ NetDown \/ NetUp \/ StopStore \/ StopUploader \/ Restart \/ Crash
             \/ UNCHANGED vars
    PROVE  Drain'
<1>1. CASE Receive \/ NetDown \/ NetUp \/ StopStore \/ UNCHANGED vars
    <2>1. UNCHANGED <<db, spc, upShutdown, upc, draining, cursor, dberrs>>
        BY <1>1 DEF Receive, NetDown, NetUp, StopStore, vars, storeVars, upVars, faults
    <2> QED BY <2>1 DEF Drain, Closing, DrainLeavesNothing, Pending
<1>2. CASE StopUploader
    <2>1. /\ UNCHANGED <<db, spc, upc, draining, cursor, dberrs>>
          /\ upShutdown' /\ spc = "stopped"
        BY <1>2 DEF StopUploader, storeVars, faults
    <2> QED BY <2>1 DEF Drain, Closing, DrainLeavesNothing, Pending
<1>3. CASE Restart \/ Crash
    BY <1>3 DEF Restart, Crash, Boot, Drain, Closing, DrainLeavesNothing
<1> QED BY <1>1, <1>2, <1>3

LEMMA DrainInvariance == Spec => [](Types /\ Drain)
<1>1. Init => Types /\ Drain
    <2>1. Init => Drain
        BY DEF Init, Drain, Closing, DrainLeavesNothing
    <2> QED BY <2>1, InitTypes
<1>2. Types /\ Drain /\ [Next]_vars => (Types /\ Drain)'
    <2> SUFFICES ASSUME Types, Drain, [Next]_vars PROVE (Types /\ Drain)'
        OBVIOUS
    <2>1. Types'
        BY NextTypes
    <2>2. Drain'
        BY StoreDrainStep, UploadDrainStep, OtherDrainStep DEF Next
    <2> QED BY <2>1, <2>2
<1> QED BY <1>1, <1>2, PTL DEF Spec

(* DrainLeavesNothing: an uploader that ends its drain loop without a      *)
(* failed statement has nothing left to send, over whatever connection.    *)
THEOREM DrainIsComplete == Spec => []DrainLeavesNothing
<1>1. Drain => DrainLeavesNothing
    BY DEF Drain
<1> QED BY <1>1, DrainInvariance, PTL

-----------------------------------------------------------------------------
(* The ledger.                                                             *)

(* The oldest rows come before all others. *)
LEMMA OldestFirst ==
    ASSUME NEW S, S \subseteq Nat, NEW n \in Nat, NEW i \in Oldest(S, n),
           NEW j \in S \ Oldest(S, n)
    PROVE  i < j
<1> DEFINE Before(k) == {m \in S : m < k}
<1>1. i \in Nat /\ j \in Nat /\ i \in S
    BY DEF Oldest
<1>2. \A k \in S : IsFiniteSet(Before(k)) /\ Cardinality(Before(k)) \in Nat
    <2> SUFFICES ASSUME NEW k \in S
                 PROVE  IsFiniteSet(Before(k)) /\ Cardinality(Before(k)) \in Nat
        OBVIOUS
    <2>1. /\ k \in Nat /\ \A b \in Before(k) : b \in Nat
          /\ \A b \in Before(k) : b \in Nat => b <= k
        OBVIOUS
    <2>2. IsFiniteSet(Before(k))
        BY <2>1, FS_BoundedSetOfNaturals
    <2> QED BY <2>2, FS_CardinalityType
<1>3. Cardinality(Before(i)) < n /\ ~(Cardinality(Before(j)) < n)
    BY DEF Oldest
<1>4. ASSUME j <= i PROVE FALSE
    <2>1. \A m \in S : m < j => m < i
        BY <1>1, <1>4
    <2>a. Before(j) \in SUBSET Before(i)
        BY <2>1
    <2>2. IsFiniteSet(Before(i))
        BY <1>1, <1>2
    <2>3. Cardinality(Before(j)) <= Cardinality(Before(i))
        BY <2>a, <2>2, FS_Subset
    <2>4. Cardinality(Before(i)) \in Nat /\ Cardinality(Before(j)) \in Nat
        BY <1>1, <1>2
    <2> HIDE DEF Before
    <2> QED BY <1>3, <2>3, <2>4
<1> QED BY <1>1, <1>4

(* What the statements do to the rows still owed. *)
LEMMA InsertPending == Types /\ Grows => Pending' = Pending \cup {nextId}
<1> SUFFICES ASSUME Types, Grows PROVE Pending' = Pending \cup {nextId}
    OBVIOUS
<1>1. /\ DOMAIN db' = DOMAIN db \cup {nextId} /\ db'[nextId] = NewRow
      /\ \A i \in DOMAIN db : i # nextId => db'[i] = db[i]
    BY InsertRow DEF Grows, Types, TableTypes
<1>2. ~NewRow.uploaded /\ NewRow.retry < RetryMax
    BY Constants DEF NewRow
<1>3. nextId \notin DOMAIN db
    BY Constants DEF Types, TableTypes
<1> QED BY <1>1, <1>2, <1>3 DEF Pending

LEMMA TrimUploadedPending == db' = TrimUploaded(db, CacheMax) => UNCHANGED Pending
<1> SUFFICES ASSUME db' = TrimUploaded(db, CacheMax) PROVE Pending' = Pending
    OBVIOUS
<1> DEFINE old == Oldest(Uploaded(db), Excess(db, CacheMax))
<1>1. old \subseteq Uploaded(db)
    BY DEF Oldest
<1> HIDE DEF old
<1>2. DOMAIN db' = DOMAIN db \ old /\ \A i \in DOMAIN db' : db'[i] = db[i]
    <2>1. db' = Delete(db, old)
        BY DEF TrimUploaded, old
    <2> QED BY <2>1 DEF Delete
<1> QED BY <1>1, <1>2 DEF Pending, Uploaded

LEMMA TrimOldestPending ==
    ASSUME Types, db' = TrimOldest(db, CacheMax)
    PROVE  \E old \in SUBSET Pending : /\ \A i \in old, j \in Pending \ old : i < j
                                       /\ Pending' = Pending \ old
<1> DEFINE n == Excess(db, CacheMax)
           O == Oldest(DOMAIN db, n)
           old == Pending \cap O
<1>1. DOMAIN db \subseteq Nat /\ nextId \in Nat /\ \A i \in DOMAIN db : i <= nextId
    BY Constants DEF Types, TableTypes
<1>2. IsFiniteSet(DOMAIN db)
    <2>1. DOMAIN db \in SUBSET Nat
        BY <1>1
    <2> QED BY <1>1, <2>1, FS_BoundedSetOfNaturals
<1>3. n \in Nat
    <2>1. Total(db) \in Nat
        BY <1>2, FS_CardinalityType DEF Total
    <2> QED BY <2>1, Constants DEF Excess
<1>4. DOMAIN db' = DOMAIN db \ O /\ \A i \in DOMAIN db' : db'[i] = db[i]
    <2>1. db' = Delete(db, O)
        BY DEF TrimOldest
    <2> HIDE DEF O
    <2> QED BY <2>1 DEF Delete
<1> HIDE DEF n
<1>5. \A i \in O, j \in DOMAIN db \ O : i < j
    BY <1>1, <1>3, OldestFirst
<1> HIDE DEF O
<1>6. Pending' = Pending \ old /\ Pending \subseteq DOMAIN db
    BY <1>4 DEF Pending
<1>7. \A i \in old, j \in Pending \ old : i < j
    BY <1>5, <1>6
<1> QED BY <1>6, <1>7

LEMMA MarkPending ==
    Types /\ db' = MarkUploaded(db, cursor.row) => Pending' = Pending \ {cursor.row}
<1> SUFFICES ASSUME Types, db' = MarkUploaded(db, cursor.row)
             PROVE  Pending' = Pending \ {cursor.row}
    OBVIOUS
<1>1. /\ DOMAIN db' = DOMAIN db
      /\ cursor.row \in DOMAIN db => db'[cursor.row].uploaded
      /\ \A i \in DOMAIN db : i # cursor.row => db'[i] = db[i]
    BY MarkRow DEF Types, TableTypes
<1> QED BY <1>1 DEF Pending

LEMMA RetryPending ==
    Types /\ db' = IncRetry(db, cursor.row) => Pending' \in {Pending, Pending \ {cursor.row}}
<1> SUFFICES ASSUME Types, db' = IncRetry(db, cursor.row)
             PROVE  Pending' \in {Pending, Pending \ {cursor.row}}
    OBVIOUS
<1> DEFINE r == cursor.row
<1>1. /\ DOMAIN db' = DOMAIN db
      /\ r \in DOMAIN db => db'[r].uploaded = db[r].uploaded /\ db'[r].retry = db[r].retry + 1
      /\ \A i \in DOMAIN db : i # r => db'[i] = db[i]
    BY RetryRow DEF Types, TableTypes
<1>2. r \in DOMAIN db => (db[r].retry + 1 < RetryMax => db[r].retry < RetryMax)
    BY Constants DEF Types, TableTypes, Table, Row
<1> HIDE DEF r
<1>3. \A i : i # r => (i \in Pending' <=> i \in Pending)
    BY <1>1 DEF Pending
<1>4. r \in Pending' => r \in Pending
    BY <1>1, <1>2 DEF Pending
<1> DEFINE P == Pending'
<1> HIDE DEF P
<1>5. CASE r \in P
    <2>1. P = Pending
        BY <1>3, <1>4, <1>5 DEF P
    <2> QED BY <2>1 DEF P, r
<1>6. CASE r \notin P
    <2>1. P = Pending \ {r}
        BY <1>3, <1>6 DEF P
    <2> QED BY <2>1 DEF P, r
<1> QED BY <1>5, <1>6 DEF r

(* The ledger as the program sees it, and what its rows are. *)
InHand == IF upc = "send" THEN {cursor.row} ELSE {}

LEMMA LedgerIs ==
    /\ Ledger!Known = Known
    /\ \A i : Ledger!Copies(i) = Copies(i)
<1>1. Ledger!Known = Known
    BY DEF Ledger!Known, Known, Got, RowsOf
<1>2. \A i : Ledger!Copies(i) = Copies(i)
    <2> SUFFICES ASSUME NEW i PROVE Ledger!Copies(i) = Copies(i)
        OBVIOUS
    <2> QED BY DEF Ledger!Copies, Copies, Count, Places, Ledger!Cardinality, Cardinality
<1> QED BY <1>1, <1>2

(* A step that changes nothing the ledger has; one that fails; one that    *)
(* settles a row.                                                          *)
LEMMA LedgerStutter ==
    ASSUME UNCHANGED <<nextId, Pending, InHand, wire, received, breaks, crashes, dberrs>>
    PROVE  UNCHANGED Ledger!vars
    BY DEF Ledger!vars, InHand

LEMMA LedgerFault ==
    ASSUME Types, UNCHANGED <<nextId, Pending, wire, received, breaks>>,
           InHand' \in {InHand, {}},
           \/ crashes' = crashes + 1 /\ UNCHANGED dberrs
           \/ dberrs' = dberrs + 1 /\ UNCHANGED crashes
    PROVE  Ledger!Fault
<1> DEFINE c == crashes'
           d == dberrs'
<1>1. crashes \in Nat /\ dberrs \in Nat
    BY Constants DEF Types, FaultTypes
<1>2. (c = crashes + 1 /\ d = dberrs) \/ (d = dberrs + 1 /\ c = crashes)
    OBVIOUS
<1> HIDE DEF c, d
<1>3. c + d = (crashes + dberrs) + 1
    BY <1>1, <1>2
<1> QED BY <1>3 DEF Ledger!Fault, InHand, c, d

LEMMA LedgerSettle ==
    ASSUME Types,
           UNCHANGED <<nextId, InHand, wire, received, breaks, crashes, dberrs>>,
           Pending' \in {Pending, Pending \ {cursor.row}},
           cursor.row \in Known \/ breaks > 0
    PROVE  Ledger!Settle \/ UNCHANGED Ledger!vars
<1>1. CASE cursor.row \in Pending /\ Pending' = Pending \ {cursor.row}
    BY <1>1, LedgerIs DEF Ledger!Settle, InHand
<1>2. CASE Pending' = Pending
    BY <1>2, LedgerStutter
<1>3. cursor.row \notin Pending => Pending \ {cursor.row} = Pending
    OBVIOUS
<1> QED BY <1>1, <1>2, <1>3

(* The store thread trims only a limited cache. *)
Limited == spc \in {"trim1", "trim2", "final1", "final2"} => CacheMax > 0

LEMMA LimitedStep == Limited /\ [Next]_vars => Limited'
<1> SUFFICES ASSUME Limited, [Next]_vars PROVE Limited'
    OBVIOUS
<1>1. CASE Store
    BY <1>1 DEF Store, StorePop, StorePopFails, StoreSample, StoreSeesShutdown, StoreDrain,
                StoreDrained, Trim1, Trim2, AfterTrim, Limited
<1>2. CASE Upload
    BY <1>2, UploadStep DEF upRest, storeVars, Limited
<1>3. CASE Receive \/ NetDown \/ NetUp \/ StopStore \/ StopUploader \/ UNCHANGED vars
    BY <1>3 DEF Receive, NetDown, NetUp, StopStore, StopUploader, vars, storeVars, Limited
<1>4. CASE Restart \/ Crash
    BY <1>4 DEF Restart, Crash, Boot, Limited
<1> QED BY <1>1, <1>2, <1>3, <1>4 DEF Next

(* Every step of the store thread stores a row, gives up the oldest ones,  *)
(* fails, or is none of the ledger's business.                             *)
LEMMA StoresLedger ==
    ASSUME Types, Limited, Store
    PROVE  Ledger!Next \/ UNCHANGED Ledger!vars
<1>1. UNCHANGED <<upc, cursor, InHand, wire, received, breaks, crashes>>
    BY StoreRows DEF InHand
<1>2. \/ Grows
      \/ UNCHANGED <<db, nextId, dberrs>>
      \/ UNCHANGED <<db, nextId>> /\ dberrs' = dberrs + 1
      \/ db' = TrimUploaded(db, CacheMax) /\ UNCHANGED <<nextId, dberrs>>
      \/ db' = TrimOldest(db, CacheMax) /\ UNCHANGED <<nextId, dberrs>> /\ CacheMax > 0
    <2>1. CASE StoreSample \/ StoreDrain
        BY <2>1 DEF StoreSample, StoreDrain, InsertNext, Grows
    <2>2. CASE Trim1
        BY <2>2 DEF Trim1, Executes
    <2>3. CASE Trim2
        BY <2>3 DEF Trim2, Executes, Limited
    <2>4. CASE StorePop \/ StorePopFails \/ StoreSeesShutdown \/ StoreDrained
        BY <2>4 DEF StorePop, StorePopFails, StoreSeesShutdown, StoreDrained, faults
    <2> QED BY <2>1, <2>2, <2>3, <2>4 DEF Store
<1>3. CASE Grows
    <2>1. nextId' - 1 = nextId /\ (nextId - 1) + 1 = nextId /\ nextId \in Ids
        <3> DEFINE m == nextId'
        <3>1. m = nextId + 1 /\ nextId \in 1 .. MaxRows + 1 /\ nextId <= MaxRows
            BY <1>3 DEF Grows, Types, TableTypes
        <3> HIDE DEF m
        <3>2. m - 1 = nextId /\ (nextId - 1) + 1 = nextId /\ nextId \in 1 .. MaxRows
            BY <3>1, Constants
        <3> QED BY <3>2 DEF m, Ids
    <2>2. Pending' = Pending \cup {nextId} /\ UNCHANGED dberrs
        BY <1>3, InsertPending DEF Grows
    <2>3. Ledger!Store
        BY <1>1, <2>1, <2>2 DEF Ledger!Store, InHand
    <2> QED BY <2>3 DEF Ledger!Next
<1>4. CASE UNCHANGED <<db, nextId, dberrs>>
    BY <1>1, <1>4, LedgerStutter DEF Pending
<1>5. CASE UNCHANGED <<db, nextId>> /\ dberrs' = dberrs + 1
    <2>1. Ledger!Fault
        BY <1>1, <1>5, LedgerFault DEF Pending
    <2> QED BY <2>1 DEF Ledger!Next
<1>6. CASE db' = TrimUploaded(db, CacheMax) /\ UNCHANGED <<nextId, dberrs>>
    BY <1>1, <1>6, TrimUploadedPending, LedgerStutter
<1>7. CASE db' = TrimOldest(db, CacheMax) /\ UNCHANGED <<nextId, dberrs>> /\ CacheMax > 0
    <2>1. \E old \in SUBSET Pending : /\ \A i \in old, j \in Pending \ old : i < j
                                      /\ Pending' = Pending \ old
        BY <1>7, TrimOldestPending
    <2>2. Ledger!Discard
        BY <1>1, <1>7, <2>1 DEF Ledger!Discard, InHand
    <2> QED BY <2>2 DEF Ledger!Next
<1> QED BY <1>2, <1>3, <1>4, <1>5, <1>6, <1>7

(* Every step of the uploader takes a row, sends it or fails to, closes    *)
(* it, fails, or is none of the ledger's business.                         *)
LEMMA UploadsLedger ==
    ASSUME Types, Retries, Delivered, FewCopies, InOrder, Upload
    PROVE  Ledger!Next \/ UNCHANGED Ledger!vars
<1>1. UNCHANGED <<nextId, received, breaks, crashes>> /\ MayFail
    BY UploadStep DEF upRest
<1>2. CASE UpBegin \/ UpEnd \/ UpRowShutdown
    <2>1. UNCHANGED <<db, wire, dberrs>> /\ upc # "send" /\ upc' # "send"
        BY <1>2 DEF UpBegin, UpEnd, UpRowShutdown, netVars
    <2> QED BY <1>1, <2>1, LedgerStutter DEF Pending, InHand
<1>3. CASE UpQuery
    <2>1. UNCHANGED <<db, wire>> /\ upc # "send" /\ upc' # "send"
            /\ (UNCHANGED dberrs \/ dberrs' = dberrs + 1)
        BY <1>3 DEF UpQuery
    <2>2. CASE UNCHANGED dberrs
        BY <1>1, <2>1, <2>2, LedgerStutter DEF Pending, InHand
    <2>3. CASE dberrs' = dberrs + 1
        <3>1. Ledger!Fault
            BY <1>1, <2>1, <2>3, LedgerFault DEF Pending, InHand
        <3> QED BY <3>1 DEF Ledger!Next
    <2> QED BY <2>1, <2>2, <2>3
<1>4. CASE UpRow
    <2>1. UNCHANGED <<db, wire>> /\ upc = "row"
        BY <1>4 DEF UpRow
    <2>2. CASE upc' = "send"
        <3>1. PICK id \in NextRow : cursor'.row = id /\ UNCHANGED dberrs
            BY <1>4, <2>2 DEF UpRow, EndBatch
        <3>2. id \in Pending
            <4>1. DOMAIN db \subseteq Nat /\ cursor.budget \in Nat /\ cursor.row \in Nat
                BY Constants DEF Types, TableTypes, CursorTypes
            <4> QED BY <4>1, NextRowIs, PendingIsEligible
        <3>3. UNCHANGED Pending
            BY <2>1 DEF Pending
        <3>4. Ledger!Take
            BY <1>1, <2>1, <2>2, <3>1, <3>2, <3>3 DEF Ledger!Take
        <3> QED BY <3>4 DEF Ledger!Next
    <2>3. CASE upc' # "send" /\ UNCHANGED dberrs
        BY <1>1, <2>1, <2>3, LedgerStutter DEF Pending, InHand
    <2>4. CASE upc' # "send" /\ dberrs' = dberrs + 1
        <3>1. Ledger!Fault
            BY <1>1, <2>1, <2>4, LedgerFault DEF Pending, InHand
        <3> QED BY <3>1 DEF Ledger!Next
    <2> QED BY <1>1, <2>2, <2>3, <2>4 DEF MayFail
<1>5. CASE UpSend
    <2>1. UNCHANGED <<db, dberrs, cursor, Pending>> /\ upc = "send" /\ upc' # "send"
        BY <1>5 DEF UpSend, Pending
    <2>2. CASE conn = "broken" /\ UNCHANGED wire
        <3>1. breaks > 0
            BY <2>2, Constants DEF Retries, Types, FaultTypes
        <3>2. Ledger!Miss
            BY <1>1, <2>1, <2>2, <3>1 DEF Ledger!Miss
        <3> QED BY <3>2 DEF Ledger!Next
    <2>3. CASE wire' = Append(wire, cursor.row)
        <3>1. cursor.row \in Ids /\ MayBeSent(cursor.row) /\ Sendable(cursor.row)
            BY <2>1, CursorRow DEF MayBeSent, Sendable
        <3>2. Copies(cursor.row) <= crashes + dberrs
            BY <3>1 DEF FewCopies, Mishaps
        <3>3. cursor.row \notin Known => \A j \in Known : j < cursor.row
            BY <3>1 DEF InOrder, KnownOlder
        <3>4. Ledger!Send
            BY <1>1, <2>1, <2>3, <3>2, <3>3, LedgerIs DEF Ledger!Send
        <3> QED BY <3>4 DEF Ledger!Next
    <2> QED BY <1>5, <2>2, <2>3 DEF UpSend
<1>6. CASE UpMark \/ UpFail
    <2>1. /\ UNCHANGED <<wire, InHand>>
          /\ \/ UNCHANGED db /\ dberrs' = dberrs + 1
             \/ UNCHANGED dberrs /\ upc = "mark" /\ db' = MarkUploaded(db, cursor.row)
             \/ UNCHANGED dberrs /\ upc = "fail" /\ db' = IncRetry(db, cursor.row)
        BY <1>6 DEF UpMark, UpFail, Executes, netVars, InHand
    <2>2. CASE UNCHANGED db /\ dberrs' = dberrs + 1
        <3>1. Ledger!Fault
            BY <1>1, <2>1, <2>2, LedgerFault DEF Pending
        <3> QED BY <3>1 DEF Ledger!Next
    <2>3. CASE UNCHANGED dberrs /\ upc = "mark" /\ db' = MarkUploaded(db, cursor.row)
        <3>1. cursor.row \in Known \/ breaks > 0
            BY <2>3, Constants DEF Delivered, Types, FaultTypes
        <3>2. Pending' = Pending \ {cursor.row}
            BY <2>3, MarkPending
        <3>3. Ledger!Settle \/ UNCHANGED Ledger!vars
            BY <1>1, <2>1, <2>3, <3>1, <3>2, LedgerSettle
        <3> QED BY <3>3 DEF Ledger!Next
    <2>4. CASE UNCHANGED dberrs /\ upc = "fail" /\ db' = IncRetry(db, cursor.row)
        <3>1. breaks > 0
            BY <2>4, Constants DEF Retries, Types, FaultTypes
        <3>2. Pending' \in {Pending, Pending \ {cursor.row}}
            BY <2>4, RetryPending
        <3>3. Ledger!Settle \/ UNCHANGED Ledger!vars
            BY <1>1, <2>1, <2>4, <3>1, <3>2, LedgerSettle
        <3> QED BY <3>3 DEF Ledger!Next
    <2> QED BY <2>1, <2>2, <2>3, <2>4
<1> QED BY <1>2, <1>3, <1>4, <1>5, <1>6 DEF Upload

LEMMA OtherLedger ==
    ASSUME Types,
           Receive \/ NetDown \/ NetUp \/ StopStore \/ StopUploader \/ Restart \/ Crash
             \/ UNCHANGED vars
    PROVE  Ledger!Next \/ UNCHANGED Ledger!vars
<1>1. CASE Receive
    <2>1. Ledger!Deliver
        BY <1>1 DEF Receive, upVars, faults, Ledger!Deliver, Pending
    <2> QED BY <2>1 DEF Ledger!Next
<1>2. CASE NetDown
    <2>1. Ledger!Outage
        BY <1>2 DEF NetDown, upVars, Ledger!Outage, Pending
    <2> QED BY <2>1 DEF Ledger!Next
<1>3. CASE Crash
    <2>1. /\ UNCHANGED <<db, nextId, wire, received, breaks, dberrs>>
          /\ crashes' = crashes + 1 /\ upc' = "top"
        BY <1>3 DEF Crash, Boot
    <2>2. Ledger!Fault
        BY <2>1, LedgerFault DEF Pending, InHand
    <2> QED BY <2>2 DEF Ledger!Next
<1>4. CASE NetUp \/ StopStore \/ StopUploader \/ Restart \/ UNCHANGED vars
    <2>1. /\ UNCHANGED <<db, nextId, wire, received, breaks, crashes, dberrs>>
          /\ UNCHANGED <<upc, cursor>> \/ (upc = "stopped" /\ upc' = "top")
        BY <1>4 DEF NetUp, StopStore, StopUploader, Restart, Boot, vars, upVars, netVars, faults
    <2>2. UNCHANGED <<Pending, InHand>>
        BY <2>1 DEF Pending, InHand
    <2> QED BY <2>1, <2>2, LedgerStutter
<1> QED BY <1>1, <1>2, <1>3, <1>4

(* ImplementsLedger: every behaviour of table, threads, connection and     *)
(* receiver is one of the ledger.  The step of the uploader needs all that *)
(* was proved before: a row sent has few copies, is newer than what is     *)
(* known, and a row marked is known unless there was an outage.            *)
THEOREM KeepsTheLedger == Spec => ImplementsLedger
<1> DEFINE Inv == /\ Types /\ Ordinary /\ Retries /\ Delivered /\ FewCopies /\ InOrder
                  /\ Limited
<1>1. Init => Ledger!Init
    BY DEF Init, Ledger!Init, Pending, EmptyTable
<1>2. Inv /\ [Next]_vars => [Ledger!Next]_(Ledger!vars)
    BY StoresLedger, UploadsLedger, OtherLedger DEF Next
<1>3. Spec => []Limited
    <2>1. Init => Limited
        BY DEF Init, Limited
    <2> QED BY <2>1, LimitedStep, PTL DEF Spec
<1>4. Spec => []Inv
    BY <1>3, RetriesInvariance, DeliveredInvariance, CopiesInvariance, OrderInvariance, PTL
<1> QED BY <1>1, <1>2, <1>4, PTL DEF Spec, ImplementsLedger, Ledger!Spec

=============================================================================

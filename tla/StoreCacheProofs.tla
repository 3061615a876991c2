-------------------------- MODULE StoreCacheProofs --------------------------
(***************************************************************************)
(* The limit of the samples table: what `ORDER BY id ASC LIMIT n' selects, *)
(* that trimming stops at the limit, and that the table never holds more   *)
(* than the limit and what arrives between two trims, plus an interval for *)
(* every crash and failed statement and a queue for every shutdown.        *)
(***************************************************************************)
EXTENDS StoreUploadProofs

-----------------------------------------------------------------------------
(* The n oldest of a finite set of ids are n, or all there are.            *)

Rank(S, i) == Cardinality({j \in S : j < i})

LEMMA RankType ==
    ASSUME NEW S, S \subseteq Nat, IsFiniteSet(S), NEW i \in S
    PROVE  /\ IsFiniteSet({j \in S : j < i})
           /\ Rank(S, i) \in 0 .. Cardinality(S) - 1
<1> DEFINE B == {j \in S : j < i}
<1>1. i \notin B
    OBVIOUS
<1>2. B \in SUBSET (S \ {i})
    BY <1>1
<1>3. IsFiniteSet(S \ {i}) /\ Cardinality(S \ {i}) = Cardinality(S) - 1
    BY FS_RemoveElement
<1>4. IsFiniteSet(B) /\ Cardinality(B) <= Cardinality(S) - 1
    BY <1>2, <1>3, FS_Subset
<1>5. Cardinality(B) \in Nat /\ Cardinality(S) \in Nat
    BY <1>4, FS_CardinalityType
<1> QED BY <1>4, <1>5 DEF Rank

LEMMA RankIncreases ==
    ASSUME NEW S, S \subseteq Nat, IsFiniteSet(S), NEW i \in S, NEW k \in S, i < k
    PROVE  Rank(S, i) < Rank(S, k)
<1> DEFINE B == {j \in S : j < i}
           D == {j \in S : j < k}
<1>1. IsFiniteSet(B) /\ IsFiniteSet(D)
    BY RankType
<1>2. Cardinality(B) \in Nat /\ Cardinality(D) \in Nat
    BY <1>1, FS_CardinalityType
<1>3. IsFiniteSet(B \cup {i}) /\ Cardinality(B \cup {i}) = Cardinality(B) + 1
    <2>1. i \notin B
        OBVIOUS
    <2> QED BY <1>1, <2>1, FS_AddElement
<1>4. B \cup {i} \in SUBSET D
    <2>1. \A j \in S : j < i => j < k
        OBVIOUS
    <2> QED BY <2>1
<1>5. Cardinality(B) + 1 <= Cardinality(D)
    BY <1>1, <1>3, <1>4, FS_Subset
<1> QED BY <1>2, <1>5 DEF Rank

LEMMA RankBijection ==
    ASSUME NEW S, S \subseteq Nat, IsFiniteSet(S)
    PROVE  /\ \A i, k \in S : Rank(S, i) = Rank(S, k) => i = k
           /\ \A m \in 0 .. Cardinality(S) - 1 : \E i \in S : Rank(S, i) = m
<1> DEFINE R == 0 .. Cardinality(S) - 1
           r == [i \in S |-> Rank(S, i)]
<1>1. Cardinality(S) \in Nat
    BY FS_CardinalityType
<1>2. IsFiniteSet(R) /\ Cardinality(R) = Cardinality(S)
    <2>1. Cardinality(S) - 1 \in Int /\ 0 \in Int
        BY <1>1
    <2>2. IsFiniteSet(R) /\ Cardinality(R) = IF 0 > Cardinality(S) - 1 THEN 0
                                             ELSE (Cardinality(S) - 1) - 0 + 1
        BY <2>1, FS_Interval
    <2> QED BY <1>1, <2>2
<1>3. \A i \in S : Rank(S, i) \in R
    BY RankType
<1> HIDE DEF R
<1>4. \A i, k \in S : Rank(S, i) = Rank(S, k) => i = k
    <2> SUFFICES ASSUME NEW i \in S, NEW k \in S, i # k PROVE Rank(S, i) # Rank(S, k)
        OBVIOUS
    <2>1. i < k \/ k < i
        <3>1. i \in Nat /\ k \in Nat
            OBVIOUS
        <3> QED BY <3>1
    <2>2. Rank(S, i) \in 0 .. Cardinality(S) - 1 /\ Rank(S, k) \in 0 .. Cardinality(S) - 1
        BY RankType
    <2>3. Rank(S, i) < Rank(S, k) \/ Rank(S, k) < Rank(S, i)
        BY <2>1, RankIncreases
    <2> QED BY <1>1, <2>2, <2>3
<1>5. r \in Injection(S, R)
    BY <1>3, <1>4 DEF Injection, IsInjective
<1>6. r \in Surjection(S, R)
    BY <1>2, <1>5, FS_Injection
<1>7. \A m \in R : \E i \in S : Rank(S, i) = m
    BY <1>6 DEF Surjection
<1> QED BY <1>4, <1>7 DEF R

LEMMA OldestCount ==
    ASSUME NEW S, S \subseteq Nat, IsFiniteSet(S), NEW n \in Nat
    PROVE  /\ Oldest(S, n) \subseteq S /\ IsFiniteSet(Oldest(S, n))
           /\ Cardinality(Oldest(S, n)) = IF n < Cardinality(S) THEN n ELSE Cardinality(S)
<1> DEFINE c == Cardinality(S)
           w == IF n < c THEN n ELSE c
           W == 0 .. w - 1
           r == [i \in Oldest(S, n) |-> Rank(S, i)]
<1>1. c \in Nat /\ w \in Nat /\ w <= c /\ w <= n
    BY FS_CardinalityType
<1>2. Oldest(S, n) = {i \in S : Rank(S, i) < n} /\ Oldest(S, n) \in SUBSET S
    BY DEF Oldest, Rank
<1>3. IsFiniteSet(Oldest(S, n))
    BY <1>2, FS_Subset
<1>4. \A i \in S : Rank(S, i) \in 0 .. c - 1
    BY RankType
<1>5. \A m \in 0 .. c - 1 : m < n <=> m \in W
    BY <1>1
<1>6. \A m \in W : m \in 0 .. c - 1
    BY <1>1
<1>7. IsFiniteSet(W) /\ Cardinality(W) = w
    <2>1. w - 1 \in Int /\ 0 \in Int
        BY <1>1
    <2>2. IsFiniteSet(W) /\ Cardinality(W) = IF 0 > w - 1 THEN 0 ELSE (w - 1) - 0 + 1
        BY <2>1, FS_Interval
    <2> QED BY <1>1, <2>2
<1>8. /\ \A i, k \in S : Rank(S, i) = Rank(S, k) => i = k
      /\ \A m \in 0 .. c - 1 : \E i \in S : Rank(S, i) = m
    BY RankBijection
<1> HIDE DEF c, w, W
<1>9. r \in Bijection(Oldest(S, n), W)
    <2>1. r \in [Oldest(S, n) -> W]
        BY <1>2, <1>4, <1>5
    <2>2. r \in Injection(Oldest(S, n), W)
        BY <1>2, <1>8, <2>1 DEF Injection, IsInjective
    <2>3. \A m \in W : \E i \in Oldest(S, n) : Rank(S, i) = m
        BY <1>2, <1>5, <1>6, <1>8
    <2>4. r \in Surjection(Oldest(S, n), W)
        BY <2>1, <2>3 DEF Surjection
    <2> QED BY <2>2, <2>4 DEF Bijection
<1>10. Cardinality(W) = Cardinality(Oldest(S, n))
    <2>1. ExistsBijection(Oldest(S, n), W)
        BY <1>9 DEF ExistsBijection
    <2> QED BY <1>3, <2>1, FS_Bijection
<1> QED BY <1>2, <1>3, <1>7, <1>10 DEF w, c
-----------------------------------------------------------------------------
(* The rows after each statement.                                          *)

Ids0(T) == DOMAIN T \subseteq Nat /\ IsFiniteSet(DOMAIN T)

LEMMA TableIsFinite == Types => Ids0(db) /\ Total(db) \in Nat
<1> SUFFICES ASSUME Types PROVE Ids0(db) /\ Total(db) \in Nat
    OBVIOUS
<1>1. DOMAIN db \in SUBSET Ids /\ DOMAIN db \subseteq Nat
    BY TypesGiveTypeOK DEF TypeOK, Ids
<1>2. IsFiniteSet(Ids)
    BY Constants, FS_Interval DEF Ids
<1>3. IsFiniteSet(DOMAIN db)
    BY <1>1, <1>2, FS_Subset
<1> QED BY <1>1, <1>3, FS_CardinalityType DEF Ids0, Total

LEMMA DeleteCount ==
    ASSUME NEW T, Ids0(T), NEW S, S \subseteq DOMAIN T, IsFiniteSet(S)
    PROVE  Total(Delete(T, S)) = Total(T) - Cardinality(S)
<1>1. DOMAIN Delete(T, S) = DOMAIN T \ S
    BY DeleteRows
<1>2. (DOMAIN T) \cap S = S
    OBVIOUS
<1> QED BY <1>1, <1>2, FS_Difference DEF Ids0, Total

LEMMA ExcessIs ==
    ASSUME NEW T, Ids0(T)
    PROVE  /\ Total(T) \in Nat /\ Excess(T, CacheMax) \in Nat
           /\ Excess(T, CacheMax) <= Total(T)
           /\ Total(T) - Excess(T, CacheMax) =
                 IF Total(T) > CacheMax THEN CacheMax ELSE Total(T)
<1>1. Total(T) \in Nat /\ CacheMax \in Nat
    BY Constants, FS_CardinalityType DEF Ids0, Total
<1> QED BY <1>1 DEF Excess

(* The second DELETE leaves no more than the limit.                        *)
LEMMA TrimOldestCount ==
    ASSUME NEW T, Ids0(T)
    PROVE  Total(TrimOldest(T, CacheMax)) = IF Total(T) > CacheMax THEN CacheMax ELSE Total(T)
<1> DEFINE x == Excess(T, CacheMax)
           S == Oldest(DOMAIN T, x)
<1>1. Total(T) \in Nat /\ x \in Nat /\ x <= Total(T)
    BY ExcessIs
<1>2. S \subseteq DOMAIN T /\ IsFiniteSet(S)
        /\ Cardinality(S) = IF x < Total(T) THEN x ELSE Total(T)
    BY <1>1, OldestCount DEF Ids0, Total
<1>3. Cardinality(S) = x
    BY <1>1, <1>2
<1>4. Total(TrimOldest(T, CacheMax)) = Total(T) - Cardinality(S)
    BY <1>2, DeleteCount DEF TrimOldest
<1> QED BY <1>3, <1>4, ExcessIs

(* The first one takes no row the table has room for.                      *)
LEMMA TrimUploadedCount ==
    ASSUME NEW T, Ids0(T)
    PROVE  LET U == TrimUploaded(T, CacheMax)
           IN  Total(U) \in Nat /\ Total(U) <= Total(T)
                 /\ Total(U) >= (IF Total(T) > CacheMax THEN CacheMax ELSE Total(T))
<1> DEFINE x == Excess(T, CacheMax)
           V == Uploaded(T)
           S == Oldest(V, x)
           c == Cardinality(S)
<1>1. Total(T) \in Nat /\ x \in Nat /\ x <= Total(T)
        /\ Total(T) - x = IF Total(T) > CacheMax THEN CacheMax ELSE Total(T)
    BY ExcessIs
<1>2. V \in SUBSET DOMAIN T /\ V \subseteq Nat
    BY DEF Uploaded, Ids0
<1>3. IsFiniteSet(V) /\ Cardinality(V) \in Nat
    BY <1>2, FS_Subset, FS_CardinalityType DEF Ids0
<1>4. S \subseteq V /\ IsFiniteSet(S)
        /\ c = IF x < Cardinality(V) THEN x ELSE Cardinality(V)
    BY <1>1, <1>2, <1>3, OldestCount
<1>5. Total(TrimUploaded(T, CacheMax)) = Total(T) - c
    BY <1>2, <1>4, DeleteCount DEF TrimUploaded
<1> HIDE DEF c, x
<1>6. c \in Nat /\ c <= x
    BY <1>1, <1>3, <1>4
<1> QED BY <1>1, <1>5, <1>6

LEMMA InsertCount ==
    ASSUME NEW T, Table(T), Ids0(T), NEW id
    PROVE  /\ Total(Insert(T, id)) \in Nat
           /\ Total(T) <= Total(Insert(T, id)) /\ Total(Insert(T, id)) <= Total(T) + 1
<1>1. DOMAIN Insert(T, id) = DOMAIN T \cup {id}
    BY InsertRow
<1>2. IsFiniteSet(DOMAIN T) /\ Cardinality(DOMAIN T) \in Nat
    BY FS_CardinalityType DEF Ids0
<1>3. Cardinality(DOMAIN T \cup {id}) =
          IF id \in DOMAIN T THEN Cardinality(DOMAIN T) ELSE Cardinality(DOMAIN T) + 1
    BY <1>2, FS_AddElement
<1> QED BY <1>1, <1>2, <1>3 DEF Total

(* Only the DELETEs of a trim take rows, and they leave as many as the     *)
(* limit allows.                                                           *)
LEMMA TotalStep ==
    ASSUME Types, [Next]_vars
    PROVE  /\ Total(db') \in Nat
           /\ Total(db') < Total(db) => Total(db') >= CacheMax
<1>1. Ids0(db) /\ Total(db) \in Nat /\ Table(db) /\ CacheMax \in Nat
    BY TableIsFinite, Constants DEF Types, TableTypes
<1>2. CASE DOMAIN db' = DOMAIN db
    BY <1>1, <1>2 DEF Total
<1>3. CASE db' = Insert(db, nextId)
    BY <1>1, <1>3, InsertCount
<1>4. CASE db' = TrimUploaded(db, CacheMax)
    BY <1>1, <1>4, TrimUploadedCount
<1>5. CASE db' = TrimOldest(db, CacheMax)
    BY <1>1, <1>5, TrimOldestCount
<1>6. CASE Upload
    BY <1>1, <1>2, <1>6, UploadStep, MarkRow, RetryRow
<1>7. CASE Store
    <2>1. \/ db' = db \/ db' = Insert(db, nextId) \/ db' = TrimUploaded(db, CacheMax)
          \/ db' = TrimOldest(db, CacheMax)
        BY <1>7 DEF Store, StorePop, StorePopFails, StoreSample, StoreSeesShutdown, StoreDrain,
                    StoreDrained, Trim1, Trim2, InsertNext, Executes
    <2> QED BY <1>2, <1>3, <1>4, <1>5, <2>1
<1>8. CASE ~Store /\ ~Upload
    <2>1. UNCHANGED db
        BY <1>8 DEF Next, Receive, NetDown, NetUp, StopStore, StopUploader, Restart, Crash,
                    Boot, vars
    <2> QED BY <1>2, <2>1
<1> QED BY <1>6, <1>7, <1>8

(* TrimStopsAtLimit: rows are only deleted by a trim, and it stops at the  *)
(* limit, also when the uploader marks rows between its two DELETEs.       *)
THEOREM TrimmingStopsAtLimit == Spec => TrimStopsAtLimit
<1> DEFINE A == Total(db') < Total(db) => Total(db') >= CacheMax
<1>1. Types /\ [Next]_vars => [A]_db
    BY TotalStep
<1>2. Spec => [][A]_db
    BY <1>1, TypesInvariance, PTL DEF Spec
<1> QED BY <1>2 DEF TrimStopsAtLimit

-----------------------------------------------------------------------------
(* How much the table may hold.                                            *)

(* What crashes, failed statements and shutdowns may have cost so far.     *)
Allowance == TrimEvery * (crashes + dberrs) + stops * QueueLeft

(* The samples that a shutdown has left to be stored without a trim.       *)
Owed == IF ending /\ spc \notin {"final1", "final2", "stopped"} THEN left ELSE 0

(* What the store thread may have added since the last trim.               *)
Slack == CASE spc \in {"run", "pop"} -> counter
           [] spc \in {"trim1", "trim2"} -> TrimEvery
           [] spc \in {"drain", "final1", "final2"} -> TrimEvery - 1
           [] OTHER -> 0

Cached == /\ CacheMax > 0 => Total(db) + Owed <= CacheMax + Slack + Allowance
          /\ spc \in {"trim1", "trim2"} => counter = 0
          /\ spc \in {"final1", "final2", "trim1", "trim2"} => CacheMax > 0
          /\ Owed <= Allowance
          /\ spc \in {"drain", "final1", "final2"} => ending

LEMMA CacheTypes ==
    Types => /\ Total(db) \in Nat /\ Owed \in Nat /\ Slack \in 0 .. TrimEvery
             /\ Allowance \in Nat /\ CacheMax \in Nat /\ TrimEvery \in Nat \ {0}
             /\ QueueLeft \in Nat /\ counter \in 0 .. TrimEvery - 1 /\ left \in 0 .. QueueLeft
<1> SUFFICES ASSUME Types
             PROVE  /\ Total(db) \in Nat /\ Owed \in Nat /\ Slack \in 0 .. TrimEvery
                    /\ Allowance \in Nat /\ CacheMax \in Nat /\ TrimEvery \in Nat \ {0}
                    /\ QueueLeft \in Nat /\ counter \in 0 .. TrimEvery - 1
                    /\ left \in 0 .. QueueLeft
    OBVIOUS
<1>1. TrimEvery \in Nat \ {0} /\ QueueLeft \in Nat /\ CacheMax \in Nat
    BY Constants
<1>2. counter \in 0 .. TrimEvery - 1 /\ left \in 0 .. QueueLeft
    BY DEF Types, StoreTypes
<1>3. Owed \in Nat
    BY <1>1, <1>2 DEF Owed
<1>4. Slack \in 0 .. TrimEvery
    BY <1>1, <1>2 DEF Slack
<1>5. Allowance \in Nat
    <2>1. crashes \in Nat /\ dberrs \in Nat /\ stops \in Nat
        BY Constants DEF Types, FaultTypes
    <2>2. TrimEvery * (crashes + dberrs) \in Nat /\ stops * QueueLeft \in Nat
        BY <1>1, <2>1
    <2> QED BY <2>2 DEF Allowance
<1> QED BY <1>1, <1>2, <1>3, <1>4, <1>5, TableIsFinite

LEMMA CacheTypesNext ==
    (Types => /\ Total(db) \in Nat /\ Owed \in Nat /\ Slack \in 0 .. TrimEvery
              /\ Allowance \in Nat /\ CacheMax \in Nat /\ TrimEvery \in Nat \ {0}
              /\ QueueLeft \in Nat /\ counter \in 0 .. TrimEvery - 1 /\ left \in 0 .. QueueLeft)'
    BY CacheTypes, PTL

(* How the allowance grows. *)
LEMMA AllowanceGrows ==
    ASSUME Types
    PROVE  /\ UNCHANGED <<crashes, dberrs, stops>> => Allowance' = Allowance
           /\ UNCHANGED <<crashes, stops>> /\ dberrs' = dberrs + 1
                => Allowance' = Allowance + TrimEvery
           /\ crashes' = crashes + 1 /\ UNCHANGED <<dberrs, stops>>
                => Allowance' = Allowance + TrimEvery
           /\ UNCHANGED <<crashes, dberrs>> /\ stops' = stops + 1
                => Allowance' = Allowance + QueueLeft
<1> DEFINE c == crashes'
           d == dberrs'
           s == stops'
<1>1. /\ crashes \in Nat /\ dberrs \in Nat /\ stops \in Nat /\ TrimEvery \in Nat
      /\ QueueLeft \in Nat
    BY Constants DEF Types, FaultTypes
<1>2. /\ TrimEvery * (crashes + (dberrs + 1)) = TrimEvery * (crashes + dberrs) + TrimEvery
      /\ TrimEvery * ((crashes + 1) + dberrs) = TrimEvery * (crashes + dberrs) + TrimEvery
      /\ (stops + 1) * QueueLeft = stops * QueueLeft + QueueLeft
    BY <1>1
<1>3. TrimEvery * (crashes + dberrs) \in Nat /\ stops * QueueLeft \in Nat
    BY <1>1
<1>4. Allowance' = TrimEvery * (c + d) + s * QueueLeft
    BY DEF Allowance
<1> HIDE DEF c, d, s
<1> QED BY <1>1, <1>2, <1>3, <1>4 DEF c, d, s, Allowance

(* A step of which the numbers are known keeps the bounds. *)
LEMMA CachedNumbers ==
    ASSUME Types, Types',
           NEW t \in Nat, Total(db') = t, NEW o \in Nat, Owed' = o, NEW s \in Nat, Slack' = s,
           NEW a \in Nat, Allowance' = a,
           CacheMax > 0 => t + o <= CacheMax + s + a,
           o <= a,
           (spc \in {"trim1", "trim2"} => counter = 0)',
           (spc \in {"final1", "final2", "trim1", "trim2"} => CacheMax > 0)',
           (spc \in {"drain", "final1", "final2"} => ending)'
    PROVE  Cached'
<1>1. CacheMax > 0 => Total(db') + Owed' <= CacheMax + Slack' + Allowance'
    OBVIOUS
<1>2. Owed' <= Allowance'
    OBVIOUS
<1> QED BY <1>1, <1>2 DEF Cached

(* What a statement that takes effect or fails does to the allowance.      *)
LEMMA MayFailAllowance ==
    ASSUME Types, MayFail, UNCHANGED <<crashes, stops>>
    PROVE  Allowance' = IF dberrs' = dberrs THEN Allowance ELSE Allowance + TrimEvery
    BY AllowanceGrows DEF MayFail

LEMMA SampleCached == ASSUME Types, Types', Cached, StoreSample PROVE Cached'
<1> DEFINE t == Total(db')
           o == Owed'
           s == Slack'
           a == Allowance'
<1>1. /\ spc = "pop" /\ MayFail /\ UNCHANGED <<ending, left, crashes, stops>>
      /\ counter' = (counter + 1) % TrimEvery
      /\ spc' = IF CacheMax > 0 /\ counter' = 0 THEN "trim1" ELSE "run"
    BY DEF StoreSample, InsertNext, MayFail
<1>2. /\ Total(db) \in Nat /\ Owed \in Nat /\ Slack = counter /\ Allowance \in Nat
      /\ CacheMax \in Nat /\ TrimEvery \in Nat \ {0} /\ counter \in 0 .. TrimEvery - 1
      /\ CacheMax > 0 => Total(db) + Owed <= CacheMax + Slack + Allowance
      /\ Owed <= Allowance
    BY <1>1, CacheTypes DEF Cached, Slack
<1>3. t \in Nat /\ o \in Nat /\ s \in Nat /\ a \in Nat
    BY CacheTypesNext
<1>4. o = Owed
    BY <1>1 DEF Owed
<1>5. a = IF dberrs' = dberrs THEN Allowance ELSE Allowance + TrimEvery
    BY <1>1, MayFailAllowance
<1>6. t <= Total(db) + 1 /\ (dberrs' # dberrs => t = Total(db))
    <2>1. CASE db' = Insert(db, nextId) /\ UNCHANGED dberrs
        BY <2>1, InsertCount, TableIsFinite DEF Types, TableTypes
    <2>2. CASE UNCHANGED db
        BY <1>2, <2>2
    <2> QED BY <2>1, <2>2 DEF StoreSample, InsertNext
<1>7. CASE counter + 1 < TrimEvery
    <2>1. counter' = counter + 1 /\ counter + 1 # 0
        BY <1>1, <1>2, <1>7, NextCounter
    <2>2. spc' = "run" /\ s = counter + 1
        BY <1>1, <2>1 DEF Slack
    <2> HIDE DEF t, o, s, a
    <2>3. CacheMax > 0 => t + o <= CacheMax + s + a
        BY <1>2, <1>3, <1>4, <1>5, <1>6, <2>2
    <2>4. o <= a
        BY <1>2, <1>4, <1>5
    <2> USE DEF t, o, s, a
    <2> QED BY <1>3, <2>2, <2>3, <2>4, CachedNumbers
<1>8. CASE ~(counter + 1 < TrimEvery)
    <2>1. counter' = 0 /\ counter + 1 = TrimEvery
        BY <1>1, <1>2, <1>8, NextCounter
    <2>2. /\ spc' = IF CacheMax > 0 THEN "trim1" ELSE "run"
          /\ CacheMax > 0 => s = TrimEvery
        BY <1>1, <2>1 DEF Slack
    <2> HIDE DEF t, o, s, a
    <2>3. CacheMax > 0 => t + o <= CacheMax + s + a
        BY <1>2, <1>3, <1>4, <1>5, <1>6, <2>1, <2>2
    <2>4. o <= a
        BY <1>2, <1>4, <1>5
    <2> USE DEF t, o, s, a
    <2> QED BY <1>3, <2>1, <2>2, <2>3, <2>4, CachedNumbers
<1> QED BY <1>7, <1>8

LEMMA DrainCached == ASSUME Types, Types', Cached, StoreDrain PROVE Cached'
<1> DEFINE t == Total(db')
           o == Owed'
           s == Slack'
           a == Allowance'
<1>1. /\ spc = "drain" /\ MayFail /\ UNCHANGED <<spc, ending, crashes, stops>>
      /\ left > 0 /\ left' = left - 1 /\ ending
    BY DEF StoreDrain, InsertNext, MayFail, Cached
<1>2. /\ Total(db) \in Nat /\ Owed = left /\ Slack = TrimEvery - 1 /\ Allowance \in Nat
      /\ CacheMax \in Nat /\ TrimEvery \in Nat \ {0} /\ left \in Nat
      /\ CacheMax > 0 => Total(db) + Owed <= CacheMax + Slack + Allowance
      /\ Owed <= Allowance
    BY <1>1, CacheTypes DEF Cached, Slack, Owed
<1>3. t \in Nat /\ o \in Nat /\ s \in Nat /\ a \in Nat
    BY CacheTypesNext
<1>4. o = left - 1 /\ s = TrimEvery - 1
    BY <1>1 DEF Owed, Slack
<1>5. a = IF dberrs' = dberrs THEN Allowance ELSE Allowance + TrimEvery
    BY <1>1, MayFailAllowance
<1>6. t <= Total(db) + 1
    <2>1. CASE db' = Insert(db, nextId)
        BY <2>1, InsertCount, TableIsFinite DEF Types, TableTypes
    <2>2. CASE UNCHANGED db
        BY <1>2, <2>2
    <2> QED BY <2>1, <2>2 DEF StoreDrain, InsertNext
<1> HIDE DEF t, o, s, a
<1>7. CacheMax > 0 => t + o <= CacheMax + s + a
    BY <1>2, <1>3, <1>4, <1>5, <1>6
<1>8. o <= a
    BY <1>2, <1>4, <1>5
<1> USE DEF t, o, s, a
<1> QED BY <1>1, <1>3, <1>7, <1>8, CachedNumbers

LEMMA TrimCached == ASSUME Types, Types', Cached, Trim1 \/ Trim2 PROVE Cached'
<1> DEFINE t == Total(db')
           o == Owed'
           s == Slack'
           a == Allowance'
<1>1. /\ spc \in {"trim1", "trim2", "final1", "final2"} /\ MayFail
      /\ UNCHANGED <<ending, left, counter, crashes, stops>>
      /\ dberrs' \in {dberrs, dberrs + 1}
      /\ dberrs' # dberrs => UNCHANGED db
    BY DEF Trim1, Trim2, Executes, MayFail
<1>2. /\ Total(db) \in Nat /\ Owed \in Nat /\ Allowance \in Nat
      /\ CacheMax \in Nat /\ CacheMax > 0 /\ TrimEvery \in Nat \ {0}
      /\ spc \in {"trim1", "trim2"} => Slack = TrimEvery /\ counter = 0
      /\ spc \in {"final1", "final2"} => Slack = TrimEvery - 1 /\ ending
      /\ Total(db) + Owed <= CacheMax + Slack + Allowance
      /\ Owed <= Allowance
    BY <1>1, CacheTypes DEF Cached, Slack
<1>3. t \in Nat /\ o \in Nat /\ s \in Nat /\ a \in Nat
    BY CacheTypesNext
<1>4. a = IF dberrs' = dberrs THEN Allowance ELSE Allowance + TrimEvery
    BY <1>1, MayFailAllowance
<1>5. dberrs \in Nat
    BY Constants DEF Types, FaultTypes
<1>6. CASE spc' = AfterTrim
    <2>1. \/ dberrs' # dberrs /\ t = Total(db)
          \/ dberrs' = dberrs /\ t <= CacheMax
        <3>1. CASE dberrs' # dberrs
            BY <1>1, <3>1
        <3>2. CASE dberrs' = dberrs
            <4>1. db' = TrimOldest(db, CacheMax)
                <5>1. ~(dberrs' > dberrs)
                    BY <1>5, <3>2
                <5>2. Trim1 => spc' \in {"trim2", "final2"}
                    BY <5>1 DEF Trim1
                <5>3. ~Trim1
                    BY <1>6, <5>2 DEF AfterTrim
                <5>4. Trim2
                    BY <5>3
                <5>5. dberrs + 1 # dberrs
                    BY <1>5
                <5> QED BY <3>2, <5>4, <5>5 DEF Trim2, Executes
            <4>2. t = IF Total(db) > CacheMax THEN CacheMax ELSE Total(db)
                BY <4>1, TableIsFinite, TrimOldestCount
            <4> QED BY <1>2, <3>2, <4>2
        <3> QED BY <3>1, <3>2
    <2>2. CASE spc \in {"trim1", "trim2"}
        <3>1. spc' = "run" /\ s = 0 /\ o = Owed /\ Slack = TrimEvery
            BY <1>1, <1>2, <1>6, <2>2 DEF AfterTrim, Slack, Owed
        <3> HIDE DEF t, o, s, a
        <3>2. t + o <= CacheMax + s + a
            BY <1>2, <1>3, <1>4, <2>1, <3>1
        <3>3. o <= a
            BY <1>2, <1>4, <3>1
        <3> USE DEF t, o, s, a
        <3> QED BY <1>3, <3>1, <3>2, <3>3, CachedNumbers
    <2>3. CASE spc \in {"final1", "final2"}
        <3>1. spc' = "stopped" /\ s = 0 /\ o = 0 /\ Slack = TrimEvery - 1
            BY <1>1, <1>2, <1>6, <2>3 DEF AfterTrim, Slack, Owed
        <3> HIDE DEF t, o, s, a
        <3>2. t + o <= CacheMax + s + a
            BY <1>2, <1>3, <1>4, <2>1, <3>1
        <3>3. o <= a
            BY <1>3, <3>1
        <3> USE DEF t, o, s, a
        <3> QED BY <1>3, <3>1, <3>2, <3>3, CachedNumbers
    <2> QED BY <1>1, <2>2, <2>3
<1>7. CASE spc' # AfterTrim
    <2>1. /\ Trim1 /\ dberrs' = dberrs /\ db' = TrimUploaded(db, CacheMax)
          /\ spc = "trim1" => spc' = "trim2"
          /\ spc = "final1" => spc' = "final2"
          /\ spc \in {"trim1", "final1"}
        <3>1. dberrs' # dberrs => dberrs' > dberrs
            BY <1>1, <1>5
        <3>2. Trim1
            BY <1>7 DEF Trim2
        <3>3. dberrs' = dberrs
            BY <1>7, <3>1, <3>2 DEF Trim1
        <3>4. dberrs + 1 # dberrs /\ ~(dberrs > dberrs) /\ ~(dberrs' > dberrs)
            BY <1>5, <3>3
        <3>5. db' = TrimUploaded(db, CacheMax)
            BY <3>2, <3>3, <3>4 DEF Trim1, Executes
        <3>6. spc \in {"trim1", "final1"}
            BY <3>2 DEF Trim1
        <3>7. spc' = IF spc = "trim1" THEN "trim2" ELSE "final2"
            BY <3>2, <3>4 DEF Trim1
        <3> QED BY <3>2, <3>3, <3>5, <3>6, <3>7
    <2>2. t <= Total(db)
        BY <2>1, TableIsFinite, TrimUploadedCount
    <2>3. s = Slack /\ o = Owed /\ a = Allowance
        BY <1>1, <1>4, <2>1 DEF Slack, Owed
    <2> HIDE DEF t, o, s, a
    <2>4. t + o <= CacheMax + s + a
        <3>1. Slack \in Nat
            BY <1>2, <2>1
        <3> QED BY <1>2, <1>3, <2>2, <2>3, <3>1
    <2>5. o <= a
        BY <1>2, <2>3
    <2>6. /\ (spc \in {"trim1", "trim2"} => counter = 0)'
          /\ (spc \in {"drain", "final1", "final2"} => ending)'
        BY <1>1, <1>2, <2>1
    <2> USE DEF t, o, s, a
    <2> QED BY <1>2, <1>3, <2>4, <2>5, <2>6, CachedNumbers
<1> QED BY <1>6, <1>7

(* The other steps of the store thread stay within their slack. *)
LEMMA LoopCached ==
    ASSUME Types, Types', Cached,
           StorePop \/ StorePopFails \/ StoreSeesShutdown \/ StoreDrained
    PROVE  Cached'
<1> DEFINE t == Total(db')
           o == Owed'
           s == Slack'
           a == Allowance'
<1>1. /\ UNCHANGED <<db, counter, ending, left, crashes, dberrs, stops>>
      /\ \/ spc \in {"run", "pop"} /\ spc' \in {"run", "pop"}
         \/ spc = "run" /\ spc' = "drain" /\ ending
         \/ spc = "drain" /\ spc' = "final1" /\ CacheMax > 0
         \/ spc = "drain" /\ spc' = "stopped" /\ ~(CacheMax > 0)
    BY DEF StorePop, StorePopFails, StoreSeesShutdown, StoreDrained, faults
<1>2. /\ Total(db) \in Nat /\ Owed \in Nat /\ Slack \in Nat /\ Allowance \in Nat
      /\ CacheMax \in Nat /\ TrimEvery \in Nat \ {0} /\ counter \in 0 .. TrimEvery - 1
      /\ left \in Nat
      /\ CacheMax > 0 => Total(db) + Owed <= CacheMax + Slack + Allowance
      /\ Owed <= Allowance
    BY CacheTypes DEF Cached
<1>3. t \in Nat /\ o \in Nat /\ s \in Nat /\ a \in Nat
    BY CacheTypesNext
<1>4. t = Total(db) /\ a = Allowance
    BY <1>1, CacheTypes, AllowanceGrows
<1>5. o = Owed \/ o = 0
    BY <1>1 DEF Owed
<1>6. CacheMax > 0 => Slack <= s
    BY <1>1, <1>2 DEF Slack
<1>7. /\ (spc \in {"trim1", "trim2"} => counter = 0)'
      /\ (spc \in {"final1", "final2", "trim1", "trim2"} => CacheMax > 0)'
      /\ (spc \in {"drain", "final1", "final2"} => ending)'
    BY <1>1 DEF Cached
<1> HIDE DEF t, o, s, a
<1>8. CacheMax > 0 => t + o <= CacheMax + s + a
    BY <1>2, <1>3, <1>4, <1>5, <1>6
<1>9. o <= a
    BY <1>2, <1>4, <1>5
<1> USE DEF t, o, s, a
<1> QED BY <1>3, <1>7, <1>8, <1>9, CachedNumbers

(* Elsewhere the table keeps its rows and the store thread its place.      *)
LEMMA UploadCached == ASSUME Types, Types', Cached, Upload PROVE Cached'
<1> DEFINE t == Total(db')
           o == Owed'
           s == Slack'
           a == Allowance'
<1>1. UNCHANGED <<spc, counter, ending, left, crashes, stops>> /\ MayFail
    BY UploadStep DEF upRest, storeVars
<1>2. /\ Total(db) \in Nat /\ Owed \in Nat /\ Slack \in Nat /\ Allowance \in Nat
      /\ CacheMax \in Nat /\ TrimEvery \in Nat \ {0}
      /\ CacheMax > 0 => Total(db) + Owed <= CacheMax + Slack + Allowance
      /\ Owed <= Allowance
    BY CacheTypes DEF Cached
<1>3. t \in Nat /\ o \in Nat /\ s \in Nat /\ a \in Nat
    BY CacheTypesNext
<1>4. o = Owed /\ s = Slack
    BY <1>1 DEF Owed, Slack
<1>5. t = Total(db)
    <2>1. DOMAIN db' = DOMAIN db
        BY UploadStep, MarkRow, RetryRow DEF Types, TableTypes
    <2> QED BY <2>1 DEF Total
<1>6. a = IF dberrs' = dberrs THEN Allowance ELSE Allowance + TrimEvery
    BY <1>1, MayFailAllowance
<1>7. /\ (spc \in {"trim1", "trim2"} => counter = 0)'
      /\ (spc \in {"final1", "final2", "trim1", "trim2"} => CacheMax > 0)'
      /\ (spc \in {"drain", "final1", "final2"} => ending)'
    BY <1>1 DEF Cached
<1> HIDE DEF t, o, s, a
<1>8. CacheMax > 0 => t + o <= CacheMax + s + a
    BY <1>2, <1>3, <1>4, <1>5, <1>6
<1>9. o <= a
    BY <1>2, <1>4, <1>6
<1> USE DEF t, o, s, a
<1> QED BY <1>3, <1>7, <1>8, <1>9, CachedNumbers

LEMMA StopCached == ASSUME Types, Types', Cached, StopStore PROVE Cached'
<1> DEFINE t == Total(db')
           o == Owed'
           s == Slack'
           a == Allowance'
<1>1. /\ UNCHANGED <<db, spc, counter, crashes, dberrs>> /\ ending' /\ ~ending
      /\ stops' = stops + 1 /\ left' \in 0 .. QueueLeft
    BY DEF StopStore
<1>2. /\ Total(db) \in Nat /\ Owed \in Nat /\ Slack \in Nat /\ Allowance \in Nat
      /\ CacheMax \in Nat /\ QueueLeft \in Nat
      /\ CacheMax > 0 => Total(db) + Owed <= CacheMax + Slack + Allowance
    BY CacheTypes DEF Cached
<1>3. t \in Nat /\ o \in Nat /\ s \in Nat /\ a \in Nat
    BY CacheTypesNext
<1>4. s = Slack /\ t = Total(db)
    BY <1>1 DEF Slack
<1>5. a = Allowance + QueueLeft
    BY <1>1, AllowanceGrows
<1>6. o <= QueueLeft
    BY <1>1, <1>2 DEF Owed
<1>7. /\ (spc \in {"trim1", "trim2"} => counter = 0)'
      /\ (spc \in {"final1", "final2", "trim1", "trim2"} => CacheMax > 0)'
      /\ (spc \in {"drain", "final1", "final2"} => ending)'
    BY <1>1 DEF Cached
<1> HIDE DEF t, o, s, a
<1>8. CacheMax > 0 => t + o <= CacheMax + s + a
    BY <1>2, <1>3, <1>4, <1>5, <1>6
<1>9. o <= a
    BY <1>2, <1>3, <1>5, <1>6
<1> USE DEF t, o, s, a
<1> QED BY <1>3, <1>7, <1>8, <1>9, CachedNumbers

LEMMA BootCached == ASSUME Types, Types', Cached, Restart \/ Crash PROVE Cached'
<1> DEFINE t == Total(db')
           o == Owed'
           s == Slack'
           a == Allowance'
<1>1. /\ UNCHANGED <<db, dberrs, stops>> /\ spc' = "run" /\ counter' = 0 /\ ~ending'
      /\ \/ crashes' = crashes + 1
         \/ UNCHANGED crashes /\ spc = "stopped"
    BY DEF Restart, Crash, Boot
<1>2. /\ Total(db) \in Nat /\ Owed \in Nat /\ Slack \in 0 .. TrimEvery /\ Allowance \in Nat
      /\ CacheMax \in Nat /\ TrimEvery \in Nat \ {0}
      /\ CacheMax > 0 => Total(db) + Owed <= CacheMax + Slack + Allowance
    BY CacheTypes DEF Cached
<1>3. t \in Nat /\ o \in Nat /\ s \in Nat /\ a \in Nat
    BY CacheTypesNext
<1>4. t = Total(db) /\ o = 0 /\ s = 0
    BY <1>1 DEF Owed, Slack
<1>5. a = Allowance + TrimEvery \/ (a = Allowance /\ Slack = 0)
    BY <1>1, AllowanceGrows DEF Slack
<1> HIDE DEF t, o, s, a
<1>6. CacheMax > 0 => t + o <= CacheMax + s + a
    BY <1>2, <1>3, <1>4, <1>5
<1>7. o <= a
    BY <1>3, <1>4
<1> USE DEF t, o, s, a
<1> QED BY <1>1, <1>3, <1>6, <1>7, CachedNumbers

LEMMA OtherCached ==
    ASSUME Types, Cached, Receive \/ NetDown \/ NetUp \/ StopUploader \/ UNCHANGED vars
    PROVE  Cached'
<1>1. UNCHANGED <<db, spc, counter, ending, left, crashes, dberrs, stops>>
    BY DEF Receive, NetDown, NetUp, StopUploader, vars, storeVars, faults
<1> QED BY <1>1 DEF Cached, Owed, Slack, Allowance

LEMMA CacheInvariance == Spec => [](Types /\ Cached)
<1>1. Init => Types /\ Cached
    <2> SUFFICES ASSUME Init PROVE Cached
        BY InitTypes
    <2>1. Types
        BY InitTypes
    <2>2. Owed = 0 /\ Slack = 0 /\ spc = "run"
        BY DEF Init, Owed, Slack
    <2>3. Total(db) = 0
        <3>1. DOMAIN db = {}
            BY DEF Init, EmptyTable
        <3> QED BY <3>1, FS_EmptySet DEF Total
    <2>4. CacheMax \in Nat /\ Allowance \in Nat
        BY <2>1, CacheTypes
    <2> QED BY <2>2, <2>3, <2>4 DEF Cached
<1>2. Types /\ Cached /\ [Next]_vars => (Types /\ Cached)'
    <2> SUFFICES ASSUME Types, Cached, [Next]_vars PROVE (Types /\ Cached)'
        OBVIOUS
    <2>1. Types'
        BY NextTypes
    <2>2. CASE Store
        BY <2>1, <2>2, SampleCached, DrainCached, TrimCached, LoopCached DEF Store
    <2>3. Cached'
        BY <2>1, <2>2, UploadCached, StopCached, BootCached, OtherCached DEF Next
    <2> QED BY <2>1, <2>3
<1> QED BY <1>1, <1>2, PTL DEF Spec

(* CacheBounded: the table never holds more than the limit and one trim    *)
(* interval; a crash or a failed statement may cost another interval, a    *)
(* shutdown what the queue held.                                           *)
THEOREM CacheLimitHolds == Spec => []CacheBounded
<1>1. Types /\ Cached => CacheBounded
    <2> SUFFICES ASSUME Types, Cached, CacheMax > 0
                 PROVE  Total(db) <= CacheMax + TrimEvery * (1 + crashes + dberrs)
                                       + stops * QueueLeft
        BY DEF CacheBounded
    <2>1. /\ Total(db) \in Nat /\ Owed \in Nat /\ Slack \in 0 .. TrimEvery
          /\ Allowance \in Nat /\ CacheMax \in Nat /\ TrimEvery \in Nat
          /\ Total(db) + Owed <= CacheMax + Slack + Allowance
        BY CacheTypes DEF Cached
    <2>2. crashes \in Nat /\ dberrs \in Nat /\ stops \in Nat /\ QueueLeft \in Nat
        BY Constants DEF Types, FaultTypes
    <2>3. TrimEvery * (1 + crashes + dberrs) = TrimEvery + TrimEvery * (crashes + dberrs)
        BY <2>1, <2>2
    <2>4. Total(db) <= CacheMax + TrimEvery + Allowance
        BY <2>1
    <2>5. TrimEvery * (crashes + dberrs) \in Nat /\ stops * QueueLeft \in Nat
        BY <2>1, <2>2
    <2> QED BY <2>1, <2>3, <2>4, <2>5 DEF Allowance
<1> QED BY <1>1, CacheInvariance, PTL

=============================================================================

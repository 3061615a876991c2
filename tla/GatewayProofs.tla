--------------------------- MODULE GatewayProofs ---------------------------
(***************************************************************************)
(* How main() starts and stops the threads of Gateway.tla, and the way of  *)
(* the samples through them, for every queue capacity, number of samples   *)
(* and interleaving.                                                       *)
(*                                                                         *)
(* Order of events: nothing uses the database or the queues after their    *)
(* end, and the shutdown costs each writer of a queue one sample at most.  *)
(* The inductive invariant says what the list of commands that main() has  *)
(* left still holds in store: a join for each thread that lives, the end   *)
(* of the database and the queues after everything else, and each writer   *)
(* told before the queue it writes to is shut.                             *)
(*                                                                         *)
(* Samples: none goes missing uncounted, they reach the table in the order *)
(* they were made and at most once, and one at most is left in the store   *)
(* queue.  The inductive invariant looks at the pipeline as six stages,    *)
(* the table first and the collect thread last: every sample of a stage is *)
(* older than every sample of a later one, and a step of the pipeline      *)
(* moves the oldest sample of a stage to the one before it, or drops it.   *)
(***************************************************************************)
EXTENDS Gateway, SequenceTheorems, TLAPS

Finals == {Finish[1], Finish[2]}
Creations == {Create(t) : t \in ThreadNames}
Commands ==
    {"create", "join", "tell", "shut", "await", "lost", "close", "destroy"}
        \X {"collect", "proc", "store", "up", "raw", "signal", "main", "db", "queues"}

Has(L, c) == \E i \in 1 .. Len(L) : L[i] = c

(* In L, each c comes after one of A. *)
After(L, c, A) == \A j \in 1 .. Len(L) : L[j] = c => \E i \in 1 .. j - 1 : L[i] \in A

FinishLast(L) == \A i, j \in 1 .. Len(L) : i < j /\ L[i] \in Finals => L[j] \in Finals

(* Writers are told before their queue is shut, the processor before the   *)
(* store thread.                                                           *)
TellsFirst(L) == /\ After(L, Shut("raw"), {Await, Tell("collect")})
                 /\ After(L, Shut("store"), {Tell("proc")})
                 /\ After(L, Tell("store"), {Tell("proc")})

(* A way out: no thread is created any more. *)
WayOut(L) == /\ L \in Seq(Commands) /\ Len(L) <= 12
             /\ FinishLast(L) /\ TellsFirst(L)
             /\ \A i \in 1 .. Len(L) : L[i] \notin Creations /\ L[i] # Lost

(* The order in which main() creates its threads. *)
Turn(t) == CASE t = "collect" -> 1 [] t = "proc" -> 2 [] t = "store" -> 3 [] t = "up" -> 4

-----------------------------------------------------------------------------
(* The lists in the code.                                                  *)

LEMMA ServiceStopIsWayOut ==
    WayOut(ServiceStop) /\ \A t \in ThreadNames : Has(ServiceStop, Join(t))
<1>1. FinishLast(ServiceStop)
    BY DEF FinishLast, Finals, ServiceStop, Finish, Join, Tell, Shut, Await
<1>2. TellsFirst(ServiceStop)
    BY DEF TellsFirst, After, ServiceStop, Finish, Join, Tell, Shut, Await
<1>3. /\ ServiceStop \in Seq(Commands) /\ Len(ServiceStop) = 12
      /\ \A i \in 1 .. Len(ServiceStop) : ServiceStop[i] \notin Creations
                                          /\ ServiceStop[i] # Lost
    <2>1. ServiceStop \in Seq(Commands) /\ Len(ServiceStop) = 12
        BY DEF ServiceStop, Finish, Commands, Join, Tell, Shut, Await
    <2>2. \A i \in 1 .. 12 : ServiceStop[i] \notin Creations
        BY DEF ServiceStop, Finish, Creations, ThreadNames, Create, Join, Tell, Shut, Await
    <2>3. \A i \in 1 .. 12 : ServiceStop[i] # Lost
        BY DEF ServiceStop, Finish, Join, Tell, Shut, Await, Lost
    <2> QED BY <2>1, <2>2, <2>3
<1>4. \A t \in ThreadNames : Has(ServiceStop, Join(t))
    BY DEF ServiceStop, Finish, Has, ThreadNames, Join, Tell, Shut, Await
<1> QED BY <1>1, <1>2, <1>3, <1>4 DEF WayOut

LEMMA TestStopIsWayOut ==
    WayOut(TestStop) /\ \A t \in ThreadNames : Has(TestStop, Join(t))
<1>1. FinishLast(TestStop)
    BY DEF FinishLast, Finals, TestStop, Finish, Join, Tell, Shut
<1>2. TellsFirst(TestStop)
    BY DEF TellsFirst, After, TestStop, Finish, Join, Tell, Shut, Await
<1>3. /\ TestStop \in Seq(Commands) /\ Len(TestStop) = 12
      /\ \A i \in 1 .. Len(TestStop) : TestStop[i] \notin Creations
                                       /\ TestStop[i] # Lost
    BY DEF TestStop, Finish, Commands, Creations, ThreadNames,
           Create, Join, Tell, Shut, Lost
<1>4. \A t \in ThreadNames : Has(TestStop, Join(t))
    BY DEF TestStop, Finish, Has, ThreadNames, Join, Tell, Shut
<1> QED BY <1>1, <1>2, <1>3, <1>4 DEF WayOut

(* The threads created before the one whose creation fails are joined. *)
LEMMA UndoIsWayOut ==
    ASSUME NEW m, NEW t \in ThreadNames
    PROVE  /\ WayOut(Undo(m, t))
           /\ \A u \in ThreadNames : Turn(u) < Turn(t) => Has(Undo(m, t), Join(u))
<1> DEFINE L == Undo(m, t)
<1>1. CASE t = "collect"
    <2>1. L = Finish
        BY <1>1 DEF Undo, ServiceUndo, TestUndo
    <2>2. WayOut(L)
        BY <2>1 DEF WayOut, FinishLast, TellsFirst, After, Finish, Finals, Commands,
                    Creations, ThreadNames, Create, Join, Tell, Shut, Await, Lost
    <2> QED BY <1>1, <2>2 DEF Turn, ThreadNames
<1>2. CASE t = "proc"
    <2> DEFINE A == <<Tell("collect"), Shut("raw"), Join("collect")>> \o Finish
               B == <<Tell("collect"), Join("collect")>> \o Finish
    <2>1. L = A \/ L = B
        BY <1>2 DEF Undo, ServiceUndo, TestUndo
    <2>2. WayOut(A) /\ Has(A, Join("collect"))
        BY DEF WayOut, FinishLast, TellsFirst, After, Finish, Finals, Commands, Has,
               Creations, ThreadNames, Create, Join, Tell, Shut, Await, Lost
    <2>3. WayOut(B) /\ Has(B, Join("collect"))
        BY DEF WayOut, FinishLast, TellsFirst, After, Finish, Finals, Commands, Has,
               Creations, ThreadNames, Create, Join, Tell, Shut, Await, Lost
    <2> HIDE DEF A, B
    <2> QED BY <1>2, <2>1, <2>2, <2>3 DEF Turn, ThreadNames
<1>3. CASE t = "store"
    <2> DEFINE A == <<Tell("collect"), Tell("proc"), Shut("raw"), Shut("store"),
                      Join("collect"), Join("proc")>> \o Finish
    <2>1. L = A
        BY <1>3 DEF Undo, ServiceUndo, TestUndo
    <2>2. FinishLast(A) /\ TellsFirst(A)
        BY DEF FinishLast, TellsFirst, After, Finish, Finals, Join, Tell, Shut, Await
    <2>3. /\ A \in Seq(Commands) /\ Len(A) = 8
          /\ \A i \in 1 .. Len(A) : A[i] \notin Creations /\ A[i] # Lost
        BY DEF Finish, Commands, Creations, ThreadNames, Create, Join, Tell, Shut, Lost
    <2>4. Has(A, Join("collect")) /\ Has(A, Join("proc"))
        BY DEF Has, Finish, Join, Tell, Shut
    <2> HIDE DEF A
    <2>5. WayOut(A)
        BY <2>2, <2>3 DEF WayOut
    <2>6. \A u \in ThreadNames : Turn(u) < Turn(t) => u \in {"collect", "proc"}
        BY <1>3 DEF Turn, ThreadNames
    <2> QED BY <2>1, <2>4, <2>5, <2>6
<1>4. CASE t = "up"
    <2> DEFINE A == <<Tell("collect"), Tell("proc"), Tell("store"), Shut("raw"),
                      Shut("store"), Join("collect"), Join("proc"), Join("store")>>
                    \o Finish
    <2>1. L = A \/ L = TestStop
        BY <1>4 DEF Undo, ServiceUndo, TestUndo
    <2>2. FinishLast(A) /\ TellsFirst(A)
        BY DEF FinishLast, TellsFirst, After, Finish, Finals, Join, Tell, Shut, Await
    <2>3. /\ A \in Seq(Commands) /\ Len(A) = 10
          /\ \A i \in 1 .. Len(A) : A[i] \notin Creations /\ A[i] # Lost
        BY DEF Finish, Commands, Creations, ThreadNames, Create, Join, Tell, Shut, Lost
    <2>4. Has(A, Join("collect")) /\ Has(A, Join("proc")) /\ Has(A, Join("store"))
        BY DEF Has, Finish, Join, Tell, Shut
    <2> HIDE DEF A
    <2>5. WayOut(A)
        BY <2>2, <2>3 DEF WayOut
    <2>6. \A u \in ThreadNames : Turn(u) < Turn(t) => u \in {"collect", "proc", "store"}
        BY <1>4 DEF Turn, ThreadNames
    <2> QED BY <2>1, <2>4, <2>5, <2>6, TestStopIsWayOut DEF ThreadNames
<1> QED BY <1>1, <1>2, <1>3, <1>4 DEF ThreadNames

(* What main() has before it when it starts. *)
LEMMA StartList ==
    ASSUME NEW m \in Modes
    PROVE  LET L == Start \o Stop(m)
           IN  /\ L \in Seq(Commands) /\ Len(L) = Len(Stop(m)) + 4 /\ Len(Stop(m)) = 12
               /\ FinishLast(L) /\ TellsFirst(L)
               /\ \A i \in 1 .. Len(L) : L[i] # Lost
               /\ \A i \in 1 .. Len(L), t \in ThreadNames : L[i] = Create(t) => i = Turn(t)
               /\ \A i \in 1 .. 4 : L[i] \in Creations
               /\ \A t \in ThreadNames : Has(L, Join(t))
<1> DEFINE S == Stop(m)
           L == Start \o S
<1>1. /\ WayOut(S) /\ \A t \in ThreadNames : Has(S, Join(t))
      /\ Len(S) = 12
    <2>1. CASE m = "service"
        BY <2>1, ServiceStopIsWayOut DEF Stop, ServiceStop, Finish
    <2>2. CASE m # "service"
        BY <2>2, TestStopIsWayOut DEF Stop, TestStop, Finish
    <2> QED BY <2>1, <2>2
<1> HIDE DEF S
<1>2. /\ Start \in Seq(Commands) /\ Len(Start) = 4
      /\ \A i \in 1 .. 4 : /\ Start[i] \in Creations
                           /\ \A t \in ThreadNames : Start[i] = Create(t) => i = Turn(t)
    BY DEF Start, Commands, Creations, ThreadNames, Create, Turn
<1>3. S \in Seq(Commands)
    BY <1>1 DEF WayOut
<1>4. /\ L \in Seq(Commands) /\ Len(L) = Len(S) + 4
      /\ \A i \in 1 .. 4 : L[i] = Start[i]
      /\ \A i \in 1 .. Len(S) + 4 : L[i] = IF i <= 4 THEN Start[i] ELSE S[i - 4]
      /\ \A i \in 1 .. Len(S) : L[i + 4] = S[i]
    <2>1. /\ L \in Seq(Commands) /\ Len(L) = Len(S) + 4
          /\ \A i \in 1 .. Len(S) + 4 : L[i] = IF i <= 4 THEN Start[i] ELSE S[i - 4]
        <3>1. /\ L \in Seq(Commands) /\ Len(L) = Len(Start) + Len(S)
              /\ \A i \in 1 .. Len(Start) + Len(S) :
                     L[i] = IF i <= Len(Start) THEN Start[i] ELSE S[i - Len(Start)]
            BY <1>2, <1>3, ConcatProperties
        <3>2. Len(Start) = 4 /\ Len(S) \in Nat
            BY <1>2, <1>3
        <3> HIDE DEF L
        <3> QED BY <3>1, <3>2
    <2>2. \A i \in 1 .. 4 : i \in 1 .. Len(S) + 4 /\ i <= 4
        BY <1>3
    <2>3. \A i \in 1 .. Len(S) : i + 4 \in 1 .. Len(S) + 4 /\ ~(i + 4 <= 4) /\ i + 4 - 4 = i
        BY <1>3
    <2> HIDE DEF L
    <2> QED BY <2>1, <2>2, <2>3
<1>5. \A i \in 1 .. Len(L) : \/ i \in 1 .. 4 /\ L[i] = Start[i]
                             \/ i - 4 \in 1 .. Len(S) /\ L[i] = S[i - 4]
    <2> HIDE DEF L
    <2>1. \A i \in 1 .. Len(S) + 4 : IF i <= 4 THEN i \in 1 .. 4 ELSE i - 4 \in 1 .. Len(S)
        BY <1>3
    <2> QED BY <1>4, <2>1
<1> HIDE DEF L
<1>6. \A c \in Creations : c \notin Finals /\ c # Lost
         /\ c # Shut("raw") /\ c # Shut("store") /\ c # Tell("store")
    BY DEF Creations, Create, Finals, Finish, Lost, Shut, Tell
<1>7. FinishLast(L)
    <2> SUFFICES ASSUME NEW i \in 1 .. Len(L), NEW j \in 1 .. Len(L), i < j, L[i] \in Finals
                 PROVE  L[j] \in Finals
        BY DEF FinishLast
    <2>1. i - 4 \in 1 .. Len(S) /\ L[i] = S[i - 4]
        BY <1>2, <1>5, <1>6
    <2>2. j - 4 \in 1 .. Len(S) /\ L[j] = S[j - 4] /\ i - 4 < j - 4
        BY <1>1, <1>5, <2>1
    <2> QED BY <1>1, <2>1, <2>2 DEF WayOut, FinishLast
<1>8. ASSUME NEW c, NEW A, c \notin Creations, After(S, c, A)
      PROVE  After(L, c, A)
    <2> SUFFICES ASSUME NEW j \in 1 .. Len(L), L[j] = c
                 PROVE  \E i \in 1 .. j - 1 : L[i] \in A
        BY DEF After
    <2>1. j - 4 \in 1 .. Len(S) /\ S[j - 4] = c
        BY <1>2, <1>5, <1>8
    <2>2. PICK i \in 1 .. j - 4 - 1 : S[i] \in A
        BY <1>8, <2>1 DEF After
    <2>3. i + 4 \in 1 .. j - 1 /\ i \in 1 .. Len(S)
        BY <1>1, <2>1, <2>2
    <2> QED BY <1>4, <2>2, <2>3
<1>9. TellsFirst(L)
    <2>1. \A c \in {Shut("raw"), Shut("store"), Tell("store")} : c \notin Creations
        BY <1>6
    <2> QED BY <1>1, <1>8, <2>1 DEF WayOut, TellsFirst
<1>10. \A i \in 1 .. Len(L) : L[i] # Lost
    <2>1. \A k \in 1 .. Len(S) : S[k] # Lost
        BY <1>1 DEF WayOut
    <2>2. \A k \in 1 .. 4 : Start[k] # Lost
        BY <1>2, <1>6
    <2> QED BY <1>5, <2>1, <2>2
<1>11. \A i \in 1 .. Len(L), t \in ThreadNames : L[i] = Create(t) => i = Turn(t)
    <2>1. \A k \in 1 .. Len(S) : S[k] \notin Creations
        BY <1>1 DEF WayOut
    <2>2. \A t \in ThreadNames : Create(t) \in Creations
        BY DEF Creations
    <2> QED BY <1>2, <1>5, <2>1, <2>2
<1>12. \A t \in ThreadNames : Has(L, Join(t))
    <2> TAKE t \in ThreadNames
    <2>1. PICK i \in 1 .. Len(S) : S[i] = Join(t)
        BY <1>1 DEF Has
    <2>2. i + 4 \in 1 .. Len(L)
        BY <1>1, <1>4
    <2> QED BY <1>4, <2>1, <2>2 DEF Has
<1>13. \A i \in 1 .. 4 : L[i] \in Creations
    BY <1>2, <1>4
<1> QED BY <1>1, <1>4, <1>7, <1>9, <1>10, <1>11, <1>12, <1>13 DEF S, L

(* One command less. *)
LEMMA TailList ==
    ASSUME NEW L \in Seq(Commands), L # <<>>
    PROVE  /\ Tail(L) \in Seq(Commands) /\ Len(Tail(L)) = Len(L) - 1 /\ Head(L) = L[1]
           /\ Len(L) \in Nat \ {0}
           /\ \A i \in 1 .. Len(Tail(L)) : i + 1 \in 1 .. Len(L) /\ Tail(L)[i] = L[i + 1]
           /\ \A c : Has(L, c) <=> (L[1] = c \/ Has(Tail(L), c))
           /\ FinishLast(L) => FinishLast(Tail(L))
           /\ \A c, A : After(L, c, A) /\ L[1] \notin A => After(Tail(L), c, A)
<1> DEFINE T == Tail(L)
<1>1. /\ T \in Seq(Commands) /\ Len(T) = Len(L) - 1 /\ Len(L) \in Nat \ {0}
      /\ Head(L) = L[1]
      /\ \A i \in 1 .. Len(T) : T[i] = L[i + 1]
    BY HeadTailProperties, EmptySeq
<1> HIDE DEF T
<1>2. \A i \in 1 .. Len(T) : i + 1 \in 1 .. Len(L)
    BY <1>1
<1>3. \A i \in 1 .. Len(L) : i = 1 \/ (i - 1 \in 1 .. Len(T) /\ T[i - 1] = L[i])
    BY <1>1
<1>4. 1 \in 1 .. Len(L)
    BY <1>1
<1>5. ASSUME NEW c
      PROVE  Has(L, c) <=> (L[1] = c \/ Has(T, c))
    BY <1>1, <1>2, <1>3, <1>4 DEF Has
<1>6. ASSUME FinishLast(L)
      PROVE  FinishLast(T)
    <2> SUFFICES ASSUME NEW i \in 1 .. Len(T), NEW j \in 1 .. Len(T), i < j, T[i] \in Finals
                 PROVE  T[j] \in Finals
        BY DEF FinishLast
    <2>1. i + 1 < j + 1
        BY <1>1
    <2> QED BY <1>1, <1>2, <1>6, <2>1 DEF FinishLast
<1>7. ASSUME NEW c, NEW A, After(L, c, A), L[1] \notin A
      PROVE  After(T, c, A)
    <2> SUFFICES ASSUME NEW j \in 1 .. Len(T), T[j] = c
                 PROVE  \E i \in 1 .. j - 1 : T[i] \in A
        BY DEF After
    <2>1. PICK i \in 1 .. j + 1 - 1 : L[i] \in A
        BY <1>1, <1>2, <1>7 DEF After
    <2>2. i - 1 \in 1 .. j - 1 /\ T[i - 1] = L[i]
        BY <1>1, <1>3, <1>7, <2>1
    <2> QED BY <2>1, <2>2
<1> QED BY <1>1, <1>2, <1>5, <1>6, <1>7 DEF T

-----------------------------------------------------------------------------
(* The invariant.                                                          *)

ControlTypes ==
    /\ mode \in Modes
    /\ collect \in {"none", "check", "push", "done"}
    /\ proc \in {"none", "check", "pop", "push", "done"}
    /\ store \in {"none", "check", "pop", "insert", "drain", "drain insert", "done"}
    /\ up \in {"none", "run", "done"}
    /\ {rawShut, storeShut, g_shutdown, procFlag, storeFlag, upFlag,
        dbOpen, queuesAlive} \subseteq BOOLEAN
    /\ todo \in Seq(Commands) /\ Len(todo) <= 16

(* A thread that lives will be joined, or main() is lost. *)
JoinsLeft == \A t \in ThreadNames :
                 State(t) \in Gone \/ Has(todo, Join(t)) \/ Has(todo, Lost)

(* Nothing but the rest of the end comes after its beginning. *)
EndsLast ==
    /\ FinishLast(todo)
    /\ ~dbOpen \/ ~queuesAlive => \A i \in 1 .. Len(todo) : todo[i] \in Finals
    /\ \A i \in 1 .. Len(todo) : todo[i] = Lost => i = 1

(* While threads are still to be created they come in turn, the later ones *)
(* have not begun and every join is before main().                         *)
CreatesLeft ==
    \A i \in 1 .. Len(todo), t \in ThreadNames : todo[i] = Create(t) =>
        /\ i + 16 = Turn(t) + Len(todo)
        /\ \A j \in 1 .. i : todo[j] \in Creations
        /\ \A u \in ThreadNames : /\ Has(todo, Join(u))
                                  /\ Turn(u) >= Turn(t) => State(u) = "none"

(* Writers have been told, or will be before their queue is shut. *)
Told ==
    /\ g_shutdown \/ After(todo, Shut("raw"), {Await, Tell("collect")})
    /\ procFlag \/ After(todo, Shut("store"), {Tell("proc")})
    /\ procFlag \/ After(todo, Tell("store"), {Tell("proc")})

FlagsInOrder ==
    /\ rawShut => g_shutdown
    /\ storeShut => procFlag
    /\ storeFlag => procFlag
    /\ store \in {"drain", "drain insert", "done"} => storeFlag

Control == ControlTypes /\ JoinsLeft /\ EndsLast /\ CreatesLeft /\ Told /\ FlagsInOrder

-----------------------------------------------------------------------------
(* The steps.                                                              *)

LEMMA InitControl == Init => Control
<1> SUFFICES ASSUME Init PROVE Control
    OBVIOUS
<1> DEFINE L == Start \o Stop(mode)
<1>0. mode \in Modes
    BY DEF Init
<1>1. /\ L \in Seq(Commands) /\ Len(L) = Len(Stop(mode)) + 4 /\ Len(Stop(mode)) = 12
      /\ FinishLast(L) /\ TellsFirst(L)
      /\ \A i \in 1 .. Len(L) : L[i] # Lost
      /\ \A i \in 1 .. Len(L), t \in ThreadNames : L[i] = Create(t) => i = Turn(t)
      /\ \A i \in 1 .. 4 : L[i] \in Creations
      /\ \A t \in ThreadNames : Has(L, Join(t))
    BY <1>0, StartList
<1>2. todo = L
    BY DEF Init
<1> HIDE DEF L
<1>3. todo \in Seq(Commands) /\ Len(todo) = 16
    <2>1. Len(L) = Len(Stop(mode)) + 4 /\ Len(Stop(mode)) = 12
        BY <1>1
    <2>2. Len(L) = 16
        BY <2>1
    <2> QED BY <1>1, <1>2, <2>2
<1>4. ControlTypes
    <2>1. Len(todo) <= 16
        BY <1>3
    <2>2. {rawShut, storeShut, g_shutdown, procFlag, storeFlag, upFlag,
           dbOpen, queuesAlive} \subseteq BOOLEAN
        BY DEF Init, Raw!Init, Stq!Init
    <2> QED BY <1>3, <2>1, <2>2 DEF Init, ControlTypes
<1>5. \A t \in ThreadNames : State(t) = "none" /\ Turn(t) \in 1 .. 4
    BY DEF Init, State, ThreadNames, Turn
<1>6. JoinsLeft
    BY <1>5 DEF JoinsLeft, Gone
<1>7. EndsLast
    BY <1>1, <1>2 DEF Init, EndsLast
<1>8. CreatesLeft
    <2> SUFFICES ASSUME NEW i \in 1 .. Len(todo), NEW t \in ThreadNames, todo[i] = Create(t)
                 PROVE  /\ i + 16 = Turn(t) + Len(todo)
                        /\ \A j \in 1 .. i : todo[j] \in Creations
        BY <1>1, <1>2, <1>5 DEF CreatesLeft
    <2>1. i = Turn(t)
        BY <1>1, <1>2
    <2>2. i + 16 = Turn(t) + Len(todo)
        BY <1>3, <2>1
    <2>3. \A j \in 1 .. i : j \in 1 .. 4
        BY <1>5, <2>1
    <2> QED BY <1>1, <1>2, <2>2, <2>3
<1>9. Told
    BY <1>1, <1>2 DEF Told, TellsFirst
<1>10. FlagsInOrder
    BY DEF Init, FlagsInOrder, Raw!Init, Stq!Init
<1> QED BY <1>4, <1>6, <1>7, <1>8, <1>9, <1>10 DEF Control

(* A step of a thread or of the signal handler. *)
LEMMA ThreadStep ==
    ASSUME Control, ControlTypes', FlagsInOrder',
           UNCHANGED <<todo, dbOpen, queuesAlive, procFlag>>,
           g_shutdown => g_shutdown',
           \A t \in ThreadNames : \/ State(t)' = State(t)
                                  \/ State(t) \notin Gone /\ State(t) # "none"
    PROVE  Control'
<1>1. \A t \in ThreadNames : /\ State(t)' \notin Gone => State(t) \notin Gone
                             /\ State(t) = "none" => State(t)' = "none"
    BY DEF Gone
<1>2. JoinsLeft'
    BY <1>1 DEF Control, JoinsLeft
<1>3. EndsLast'
    BY DEF Control, EndsLast
<1>4. CreatesLeft'
    BY <1>1 DEF Control, CreatesLeft
<1>5. Told'
    BY DEF Control, Told
<1> QED BY <1>2, <1>3, <1>4, <1>5 DEF Control

(* While a thread is still to be created nothing else comes first. *)
LEMMA NothingToCreate ==
    ASSUME Control, todo # <<>>, todo[1] \notin Creations
    PROVE  \A i \in 1 .. Len(todo) : todo[i] \notin Creations
<1> SUFFICES ASSUME NEW i \in 1 .. Len(todo), todo[i] \in Creations
             PROVE  FALSE
    OBVIOUS
<1>1. PICK t \in ThreadNames : todo[i] = Create(t)
    BY DEF Creations
<1>2. \A j \in 1 .. i : todo[j] \in Creations
    BY <1>1 DEF Control, CreatesLeft
<1>3. 1 \in 1 .. i
    OBVIOUS
<1> QED BY <1>2, <1>3

(* What main() has left once its first command is done. *)
LEMMA TailFacts ==
    ASSUME Control, todo # <<>>, todo' = Tail(todo)
    PROVE  /\ todo' \in Seq(Commands) /\ Len(todo') <= 16
           /\ Len(todo) \in Nat \ {0} /\ Len(todo') = Len(todo) - 1
           /\ 1 \in 1 .. Len(todo)
           /\ \A i \in 1 .. Len(todo') : i + 1 \in 1 .. Len(todo) /\ todo'[i] = todo[i + 1]
           /\ \A c : Has(todo, c) <=> (todo[1] = c \/ Has(todo', c))
           /\ FinishLast(todo')
           /\ \A c, A : After(todo, c, A) /\ todo[1] \notin A => After(todo', c, A)
<1>1. todo \in Seq(Commands) /\ Len(todo) <= 16 /\ FinishLast(todo)
    BY DEF Control, ControlTypes, EndsLast
<1>2. /\ todo' \in Seq(Commands) /\ Len(todo') = Len(todo) - 1
      /\ Len(todo) \in Nat \ {0}
      /\ \A i \in 1 .. Len(todo') : i + 1 \in 1 .. Len(todo) /\ todo'[i] = todo[i + 1]
      /\ \A c : Has(todo, c) <=> (todo[1] = c \/ Has(todo', c))
      /\ FinishLast(todo')
      /\ \A c, A : After(todo, c, A) /\ todo[1] \notin A => After(todo', c, A)
    BY <1>1, TailList
<1>3. 1 \in 1 .. Len(todo)
    BY <1>2
<1>4. Len(todo') <= 16
    BY <1>1, <1>2
<1> QED BY <1>2, <1>3, <1>4

LEMMA TailEnds ==
    ASSUME Control, todo # <<>>, todo' = Tail(todo), UNCHANGED <<dbOpen, queuesAlive>>
    PROVE  EndsLast'
<1>1. /\ \A i \in 1 .. Len(todo') : i + 1 \in 1 .. Len(todo) /\ todo'[i] = todo[i + 1]
      /\ FinishLast(todo') /\ Len(todo') \in Nat
    BY TailFacts
<1>2. \A i \in 1 .. Len(todo') : todo'[i] # Lost
    <2> TAKE i \in 1 .. Len(todo')
    <2>1. i + 1 # 1
        BY <1>1
    <2> QED BY <1>1, <2>1 DEF Control, EndsLast
<1>3. ~dbOpen \/ ~queuesAlive => \A i \in 1 .. Len(todo') : todo'[i] \in Finals
    BY <1>1 DEF Control, EndsLast
<1> QED BY <1>1, <1>2, <1>3 DEF EndsLast

LEMMA TailCreates ==
    ASSUME Control, todo # <<>>, todo' = Tail(todo),
           \A t \in ThreadNames : State(t)' = State(t) \/ todo[1] = Create(t)
    PROVE  CreatesLeft'
<1>1. /\ Len(todo') = Len(todo) - 1 /\ Len(todo) \in Nat
      /\ \A i \in 1 .. Len(todo') : i + 1 \in 1 .. Len(todo) /\ todo'[i] = todo[i + 1]
      /\ \A c : Has(todo, c) <=> (todo[1] = c \/ Has(todo', c))
      /\ 1 \in 1 .. Len(todo)
    BY TailFacts
<1>2. \A t \in ThreadNames : Turn(t) \in 1 .. 4
    BY DEF Turn, ThreadNames
<1> SUFFICES ASSUME NEW i \in 1 .. Len(todo'), NEW t \in ThreadNames, todo'[i] = Create(t)
             PROVE  /\ i + 16 = Turn(t) + Len(todo')
                    /\ \A j \in 1 .. i : todo'[j] \in Creations
                    /\ \A u \in ThreadNames : /\ Has(todo', Join(u))
                                              /\ Turn(u) >= Turn(t) => State(u)' = "none"
    BY DEF CreatesLeft
<1>3. i + 1 \in 1 .. Len(todo) /\ todo[i + 1] = Create(t)
    BY <1>1
<1>4. /\ i + 1 + 16 = Turn(t) + Len(todo)
      /\ \A j \in 1 .. i + 1 : todo[j] \in Creations
      /\ \A u \in ThreadNames : /\ Has(todo, Join(u))
                                /\ Turn(u) >= Turn(t) => State(u) = "none"
    BY <1>3 DEF Control, CreatesLeft
<1>5. i + 16 = Turn(t) + Len(todo')
    BY <1>1, <1>2, <1>4
<1>6. ASSUME NEW u \in ThreadNames, Turn(u) >= Turn(t)
      PROVE  State(u)' = "none"
    <2>1. CASE todo[1] = Create(u)
        <3>1. 1 + 16 = Turn(u) + Len(todo)
            BY <1>1, <2>1 DEF Control, CreatesLeft
        <3>2. FALSE
            BY <1>1, <1>2, <1>4, <1>6, <3>1
        <3> QED BY <3>2
    <2>2. CASE todo[1] # Create(u)
        BY <1>4, <1>6, <2>2
    <2> QED BY <2>1, <2>2
<1>7. ASSUME NEW j \in 1 .. i
      PROVE  todo'[j] \in Creations
    <2>1. j \in 1 .. Len(todo') /\ j + 1 \in 1 .. i + 1
        BY <1>1
    <2> QED BY <1>1, <1>4, <2>1
<1>8. ASSUME NEW u \in ThreadNames
      PROVE  Has(todo', Join(u))
    <2>1. todo[1] \in Creations
        <3>1. 1 \in 1 .. i + 1
            OBVIOUS
        <3> QED BY <1>4, <3>1
    <2>2. todo[1] # Join(u)
        BY <2>1 DEF Creations, Create, Join
    <2> QED BY <1>1, <1>4, <2>2
<1> QED BY <1>5, <1>6, <1>7, <1>8

LEMMA TailTold ==
    ASSUME Control, todo # <<>>, todo' = Tail(todo),
           g_shutdown => g_shutdown', procFlag => procFlag',
           todo[1] \in {Await, Tell("collect")} => g_shutdown',
           todo[1] = Tell("proc") => procFlag'
    PROVE  Told'
<1>1. \A c, A : After(todo, c, A) /\ todo[1] \notin A => After(todo', c, A)
    BY TailFacts
<1>2. g_shutdown' \/ After(todo', Shut("raw"), {Await, Tell("collect")})
    BY <1>1 DEF Control, Told
<1>3. procFlag' \/ After(todo', Shut("store"), {Tell("proc")})
    BY <1>1 DEF Control, Told
<1>4. procFlag' \/ After(todo', Tell("store"), {Tell("proc")})
    BY <1>1 DEF Control, Told
<1> QED BY <1>2, <1>3, <1>4 DEF Told

(* A command that is no join leaves the joins. *)
LEMMA TailJoins ==
    ASSUME Control, todo # <<>>, todo' = Tail(todo), todo[1] # Lost,
           \A t \in ThreadNames : State(t)' \in Gone \/ State(t)' = State(t)
                                     \/ todo[1] = Create(t),
           \A t \in ThreadNames : todo[1] = Join(t) => State(t)' \in Gone
    PROVE  JoinsLeft'
<1>1. /\ \A c : Has(todo, c) <=> (todo[1] = c \/ Has(todo', c))
      /\ 1 \in 1 .. Len(todo)
    BY TailFacts
<1> SUFFICES ASSUME NEW t \in ThreadNames, State(t)' \notin Gone
             PROVE  Has(todo', Join(t)) \/ Has(todo', Lost)
    BY DEF JoinsLeft
<1>2. CASE todo[1] = Create(t)
    <2>1. Has(todo, Join(t))
        BY <1>1, <1>2 DEF Control, CreatesLeft
    <2> QED BY <1>1, <1>2, <2>1 DEF Create, Join
<1>3. CASE todo[1] # Create(t)
    BY <1>1, <1>3 DEF Control, JoinsLeft
<1> QED BY <1>2, <1>3

(* main() turns to a way out. *)
LEMMA TakesWayOut ==
    ASSUME Control, WayOut(todo'), dbOpen', queuesAlive', JoinsLeft',
           ControlTypes', FlagsInOrder'
    PROVE  Control'
<1>1. EndsLast'
    BY DEF WayOut, EndsLast
<1>2. CreatesLeft'
    BY DEF WayOut, CreatesLeft, Creations
<1>3. Told'
    BY DEF WayOut, TellsFirst, Told
<1> QED BY <1>1, <1>2, <1>3 DEF Control

-----------------------------------------------------------------------------
(* One lemma per actor.                                                    *)

LEMMA QueueFlags ==
    /\ \A x : Raw!Push(x) => UNCHANGED rawShut
    /\ \A x : Stq!Push(x) => UNCHANGED storeShut
    /\ Raw!Pop("proc") => UNCHANGED rawShut
    /\ Stq!Pop("store") => UNCHANGED storeShut
    BY DEF Raw!Push, Stq!Push, Raw!Pop, Stq!Pop

LEMMA CollectControl == Control /\ Collect => Control'
<1> SUFFICES ASSUME Control, Collect PROVE Control'
    OBVIOUS
<1>1. /\ UNCHANGED <<mode, proc, store, up, rawShut, storeShut, g_shutdown, procFlag,
                     storeFlag, upFlag, dbOpen, queuesAlive, todo>>
      /\ collect \in {"check", "push"} /\ collect' \in {"check", "push", "done"}
    BY QueueFlags DEF Collect, CollectMake, CollectPush, CollectStop, threads, raw, stq,
                      flags, mainVars
<1>2. ControlTypes' /\ FlagsInOrder'
    BY <1>1 DEF Control, ControlTypes, FlagsInOrder
<1>3. \A t \in ThreadNames : \/ State(t)' = State(t)
                             \/ State(t) \notin Gone /\ State(t) # "none"
    BY <1>1 DEF ThreadNames, State, Gone
<1> QED BY <1>1, <1>2, <1>3, ThreadStep

LEMMA ProcControl == Control /\ Proc => Control'
<1> SUFFICES ASSUME Control, Proc PROVE Control'
    OBVIOUS
<1>1. /\ UNCHANGED <<mode, collect, store, up, rawShut, storeShut, g_shutdown, procFlag,
                     storeFlag, upFlag, dbOpen, queuesAlive, todo>>
      /\ proc \in {"check", "pop", "push"} /\ proc' \in {"check", "pop", "push", "done"}
    BY QueueFlags DEF Proc, ProcCheck, ProcPop, ProcPush, threads, raw, stq,
                      flags, mainVars
<1>2. ControlTypes' /\ FlagsInOrder'
    BY <1>1 DEF Control, ControlTypes, FlagsInOrder
<1>3. \A t \in ThreadNames : \/ State(t)' = State(t)
                             \/ State(t) \notin Gone /\ State(t) # "none"
    BY <1>1 DEF ThreadNames, State, Gone
<1> QED BY <1>1, <1>2, <1>3, ThreadStep

LEMMA StoreControl == Control /\ Store => Control'
<1> SUFFICES ASSUME Control, Store PROVE Control'
    OBVIOUS
<1>1. /\ UNCHANGED <<mode, collect, proc, up, rawShut, storeShut, g_shutdown, procFlag,
                     storeFlag, upFlag, dbOpen, queuesAlive, todo>>
      /\ store \in {"check", "pop", "insert", "drain", "drain insert"}
      /\ store' \in {"check", "pop", "insert", "drain", "drain insert", "done"}
      /\ store' \in {"drain", "drain insert", "done"} =>
             storeFlag \/ store \in {"drain", "drain insert"}
    BY QueueFlags DEF Store, StoreCheck, StorePop, StoreInsert, StoreDrain, threads,
                      raw, stq, flags, mainVars
<1>2. ControlTypes' /\ FlagsInOrder'
    BY <1>1 DEF Control, ControlTypes, FlagsInOrder
<1>3. \A t \in ThreadNames : \/ State(t)' = State(t)
                             \/ State(t) \notin Gone /\ State(t) # "none"
    BY <1>1 DEF ThreadNames, State, Gone
<1> QED BY <1>1, <1>2, <1>3, ThreadStep

LEMMA UpControl == Control /\ UpStop => Control'
<1> SUFFICES ASSUME Control, UpStop PROVE Control'
    OBVIOUS
<1>1. /\ UNCHANGED <<mode, collect, proc, store, rawShut, storeShut, g_shutdown, procFlag,
                     storeFlag, upFlag, dbOpen, queuesAlive, todo>>
      /\ up = "run" /\ up' = "done"
    BY DEF UpStop, threads, raw, stq, flags, mainVars
<1>2. ControlTypes' /\ FlagsInOrder'
    BY <1>1 DEF Control, ControlTypes, FlagsInOrder
<1>3. \A t \in ThreadNames : \/ State(t)' = State(t)
                             \/ State(t) \notin Gone /\ State(t) # "none"
    BY <1>1 DEF ThreadNames, State, Gone
<1> QED BY <1>1, <1>2, <1>3, ThreadStep

LEMMA SignalControl == Control /\ Signal => Control'
<1> SUFFICES ASSUME Control, Signal PROVE Control'
    OBVIOUS
<1>1. /\ UNCHANGED <<mode, collect, proc, store, up, rawShut, storeShut, procFlag,
                     storeFlag, upFlag, dbOpen, queuesAlive, todo>>
      /\ g_shutdown' = TRUE
    BY DEF Signal, threads, raw, stq, flags, mainVars
<1>2. ControlTypes' /\ FlagsInOrder'
    BY <1>1 DEF Control, ControlTypes, FlagsInOrder
<1>3. \A t \in ThreadNames : State(t)' = State(t)
    BY <1>1 DEF ThreadNames, State
<1> QED BY <1>1, <1>2, <1>3, ThreadStep

LEMMA CreateControl ==
    ASSUME Control, NEW t \in ThreadNames, MainCreate(t)
    PROVE  Control'
<1>1. /\ todo # <<>> /\ todo[1] = Create(t) /\ 1 \in 1 .. Len(todo)
      /\ UNCHANGED <<mode, rawShut, storeShut, g_shutdown, procFlag, storeFlag, upFlag,
                     dbOpen, queuesAlive>>
    <2>1. todo \in Seq(Commands)
        BY DEF Control, ControlTypes
    <2>2. todo # <<>> /\ Head(todo) = Create(t)
        BY DEF MainCreate, Does
    <2>3. Head(todo) = todo[1] /\ Len(todo) \in Nat \ {0}
        BY <2>1, <2>2, TailList
    <2>4. 1 \in 1 .. Len(todo)
        BY <2>3
    <2> QED BY <2>2, <2>3, <2>4 DEF MainCreate, raw, stq, flags
<1>2. /\ Create(t) \notin Finals /\ Create(t) # Lost /\ Create(t) # Await
      /\ \A u \in ThreadNames : /\ Create(t) # Tell(u) /\ Create(t) # Join(u)
                                /\ Create(u) = Create(t) => u = t
    BY DEF Create, Finals, Finish, Lost, Await, Tell, Join
<1>3. dbOpen /\ queuesAlive
    BY <1>1, <1>2 DEF Control, ControlTypes, EndsLast
<1>4. FlagsInOrder'
    <2>1. store' \in {"drain", "drain insert", "done"} => store' = store
        BY DEF MainCreate, Created, threads
    <2> QED BY <1>1, <2>1 DEF Control, FlagsInOrder
<1>5. CASE todo' = Tail(todo) /\ (Created(t) \/ UNCHANGED threads)
    <2>1. \A u \in ThreadNames : State(u)' = State(u) \/ todo[1] = Create(u)
        BY <1>1, <1>5 DEF Created, threads, State, ThreadNames
    <2>2. ControlTypes'
        <3>1. todo' \in Seq(Commands) /\ Len(todo') <= 16
            BY <1>1, <1>5, TailFacts
        <3>2. /\ collect' \in {"none", "check", "push", "done"}
              /\ proc' \in {"none", "check", "pop", "push", "done"}
              /\ store' \in {"none", "check", "pop", "insert", "drain", "drain insert", "done"}
              /\ up' \in {"none", "run", "done"}
            BY <1>5 DEF Created, threads, Control, ControlTypes
        <3> QED BY <1>1, <3>1, <3>2 DEF Control, ControlTypes
    <2>3. JoinsLeft'
        BY <1>1, <1>2, <1>5, <2>1, TailJoins
    <2>4. EndsLast'
        BY <1>1, <1>5, TailEnds
    <2>5. CreatesLeft'
        BY <1>1, <1>5, <2>1, TailCreates
    <2>6. Told'
        BY <1>1, <1>2, <1>5, TailTold DEF ThreadNames
    <2> QED BY <1>4, <2>2, <2>3, <2>4, <2>5, <2>6 DEF Control
<1>6. CASE todo' = Undo(mode, t) /\ UNCHANGED threads
    <2>1. /\ WayOut(todo')
          /\ \A u \in ThreadNames : Turn(u) < Turn(t) => Has(todo', Join(u))
        BY <1>6, UndoIsWayOut
    <2>2. ControlTypes'
        <3>1. todo' \in Seq(Commands) /\ Len(todo') <= 16
            BY <2>1 DEF WayOut
        <3> QED BY <1>1, <1>6, <3>1 DEF Control, ControlTypes, threads
    <2>3. JoinsLeft'
        <3>1. \A u \in ThreadNames : Turn(u) >= Turn(t) => State(u) = "none"
            BY <1>1 DEF Control, CreatesLeft
        <3>2. \A u \in ThreadNames : Turn(u) < Turn(t) \/ Turn(u) >= Turn(t)
            BY DEF Turn, ThreadNames
        <3>3. \A u \in ThreadNames : State(u)' = State(u)
            BY <1>6 DEF threads, State
        <3> QED BY <2>1, <3>1, <3>2, <3>3 DEF JoinsLeft, Gone
    <2> QED BY <1>1, <1>3, <1>4, <2>1, <2>2, <2>3, TakesWayOut
<1> QED BY <1>5, <1>6 DEF MainCreate

(* The head of the list is its first element. *)
LEMMA FirstCommand ==
    ASSUME Control, NEW c, Does(c)
    PROVE  todo # <<>> /\ todo[1] = c /\ 1 \in 1 .. Len(todo)
<1>1. todo \in Seq(Commands) /\ todo # <<>> /\ Head(todo) = c
    BY DEF Control, ControlTypes, Does
<1>2. Head(todo) = todo[1] /\ Len(todo) \in Nat \ {0}
    BY <1>1, TailList
<1>3. 1 \in 1 .. Len(todo)
    BY <1>2
<1> QED BY <1>1, <1>2, <1>3

(* A command that creates and joins no thread, and is not the end. *)
LEMMA TailControl ==
    ASSUME Control, todo # <<>>, todo' = Tail(todo), todo[1] # Lost,
           UNCHANGED <<mode, threads, dbOpen, queuesAlive>>,
           \A t \in ThreadNames : todo[1] = Join(t) => State(t) \in Gone,
           {rawShut', storeShut', g_shutdown', procFlag', storeFlag', upFlag'}
               \subseteq BOOLEAN,
           g_shutdown => g_shutdown', procFlag => procFlag',
           todo[1] \in {Await, Tell("collect")} => g_shutdown',
           todo[1] = Tell("proc") => procFlag',
           FlagsInOrder'
    PROVE  Control'
<1>1. \A t \in ThreadNames : State(t)' = State(t)
    BY DEF threads, State
<1>2. ControlTypes'
    <2>1. todo' \in Seq(Commands) /\ Len(todo') <= 16
        BY TailFacts
    <2>2. {dbOpen', queuesAlive'} \subseteq BOOLEAN
        BY DEF Control, ControlTypes
    <2> QED BY <2>1, <2>2 DEF Control, ControlTypes, threads
<1>3. JoinsLeft'
    BY <1>1, TailJoins
<1>4. EndsLast'
    BY TailEnds
<1>5. CreatesLeft'
    BY <1>1, TailCreates
<1>6. Told'
    BY TailTold
<1> QED BY <1>2, <1>3, <1>4, <1>5, <1>6 DEF Control

LEMMA AwaitControl == Control /\ MainAwait => Control'
<1> SUFFICES ASSUME Control, MainAwait PROVE Control'
    OBVIOUS
<1>1. todo # <<>> /\ todo[1] = Await
    BY FirstCommand DEF MainAwait
<1>2. /\ todo' = Tail(todo) /\ g_shutdown
      /\ UNCHANGED <<mode, threads, dbOpen, queuesAlive, rawShut, storeShut, g_shutdown,
                     procFlag, storeFlag, upFlag>>
    BY DEF MainAwait, raw, stq, flags
<1>3. Await # Lost /\ Await # Tell("proc") /\ \A t \in ThreadNames : Await # Join(t)
    BY DEF Await, Lost, Tell, Join
<1>4. FlagsInOrder'
    BY <1>2 DEF Control, FlagsInOrder, threads
<1>5. {rawShut', storeShut', g_shutdown', procFlag', storeFlag', upFlag'} \subseteq BOOLEAN
    BY <1>2 DEF Control, ControlTypes
<1> QED BY <1>1, <1>2, <1>3, <1>4, <1>5, TailControl

LEMMA TellControl ==
    ASSUME Control, NEW t \in ThreadNames, MainTell(t)
    PROVE  Control'
<1>1. todo # <<>> /\ todo[1] = Tell(t) /\ 1 \in 1 .. Len(todo)
    BY FirstCommand DEF MainTell
<1>2. /\ todo' = Tail(todo)
      /\ UNCHANGED <<mode, threads, dbOpen, queuesAlive, rawShut, storeShut>>
      /\ g_shutdown' = (g_shutdown \/ t = "collect") /\ procFlag' = (procFlag \/ t = "proc")
      /\ storeFlag' = (storeFlag \/ t = "store") /\ upFlag' = (upFlag \/ t = "up")
    BY DEF MainTell, raw, stq
<1>3. /\ Tell(t) # Lost /\ Tell(t) # Await
      /\ \A u \in ThreadNames : /\ Tell(t) # Join(u)
                                /\ Tell(t) = Tell(u) => t = u
    BY DEF Await, Lost, Tell, Join
<1>4. FlagsInOrder'
    <2>1. t = "store" => procFlag
        BY <1>1 DEF Control, Told, After
    <2> QED BY <1>2, <2>1 DEF Control, FlagsInOrder, threads
<1>5. {rawShut', storeShut', g_shutdown', procFlag', storeFlag', upFlag'} \subseteq BOOLEAN
    BY <1>2 DEF Control, ControlTypes
<1>6. /\ todo[1] \in {Await, Tell("collect")} => g_shutdown'
      /\ todo[1] = Tell("proc") => procFlag'
    BY <1>1, <1>2, <1>3 DEF ThreadNames
<1>7. (g_shutdown => g_shutdown') /\ (procFlag => procFlag')
    BY <1>2
<1>8. \A u \in ThreadNames : todo[1] = Join(u) => State(u) \in Gone
    BY <1>1, <1>3
<1>9. todo[1] # Lost
    BY <1>1, <1>3
<1>10. UNCHANGED <<mode, threads, dbOpen, queuesAlive>>
    BY <1>2
<1> QED BY <1>1, <1>2, <1>4, <1>5, <1>6, <1>7, <1>8, <1>9, <1>10, TailControl

LEMMA ShutControl == Control /\ MainShut => Control'
<1> SUFFICES ASSUME Control, MainShut PROVE Control'
    OBVIOUS
<1>1. /\ todo' = Tail(todo)
      /\ UNCHANGED <<mode, threads, dbOpen, queuesAlive, g_shutdown, procFlag, storeFlag,
                     upFlag>>
    BY DEF MainShut, flags
<1>2. \/ Does(Shut("raw")) /\ rawShut' = TRUE /\ UNCHANGED storeShut
      \/ Does(Shut("store")) /\ storeShut' = TRUE /\ UNCHANGED rawShut
    BY DEF MainShut, Raw!Close, Stq!Close, raw, stq
<1>3. /\ todo # <<>> /\ todo[1] \in {Shut("raw"), Shut("store")} /\ 1 \in 1 .. Len(todo)
      /\ rawShut' = rawShut \/ (todo[1] = Shut("raw") /\ rawShut' = TRUE)
      /\ storeShut' = storeShut \/ (todo[1] = Shut("store") /\ storeShut' = TRUE)
    BY <1>2, FirstCommand
<1>4. \A q \in {"raw", "store"} :
          /\ Shut(q) # Lost /\ Shut(q) # Await
          /\ \A u \in ThreadNames : Shut(q) # Join(u) /\ Shut(q) # Tell(u)
    BY DEF Await, Lost, Tell, Join, Shut
<1>5. FlagsInOrder'
    <2>1. (todo[1] = Shut("raw") => g_shutdown) /\ (todo[1] = Shut("store") => procFlag)
        BY <1>3 DEF Control, Told, After
    <2>2. (rawShut' => g_shutdown') /\ (storeShut' => procFlag')
        <3>1. (rawShut => g_shutdown) /\ (storeShut => procFlag)
            BY DEF Control, FlagsInOrder
        <3>2. /\ rawShut' => rawShut \/ todo[1] = Shut("raw")
              /\ storeShut' => storeShut \/ todo[1] = Shut("store")
            BY <1>3
        <3>3. (g_shutdown => g_shutdown') /\ (procFlag => procFlag')
            BY <1>1
        <3> QED BY <2>1, <3>1, <3>2, <3>3
    <2>3. /\ storeFlag' => procFlag'
          /\ store' \in {"drain", "drain insert", "done"} => storeFlag'
        BY <1>1 DEF Control, FlagsInOrder, threads
    <2> QED BY <2>2, <2>3 DEF FlagsInOrder
<1>6. {rawShut', storeShut', g_shutdown', procFlag', storeFlag', upFlag'} \subseteq BOOLEAN
    BY <1>1, <1>3 DEF Control, ControlTypes
<1>7. /\ todo[1] # Lost /\ todo[1] \notin {Await, Tell("collect")}
      /\ todo[1] # Tell("proc") /\ \A t \in ThreadNames : todo[1] # Join(t)
    BY <1>3, <1>4 DEF ThreadNames
<1> QED BY <1>1, <1>3, <1>5, <1>6, <1>7, TailControl

LEMMA JoinControl ==
    ASSUME Control, NEW t \in ThreadNames, MainJoin(t)
    PROVE  Control'
<1>1. todo # <<>> /\ todo[1] = Join(t) /\ 1 \in 1 .. Len(todo)
    BY FirstCommand DEF MainJoin
<1>2. UNCHANGED <<mode, threads, rawShut, storeShut, g_shutdown, procFlag, storeFlag, upFlag,
                  dbOpen, queuesAlive>>
    BY DEF MainJoin, raw, stq, flags
<1>3. /\ Join(t) # Lost /\ Join(t) # Await /\ Join(t) \notin Finals
      /\ \A u \in ThreadNames : /\ Join(t) # Tell(u)
                                /\ Join(t) = Join(u) => t = u
    BY DEF Await, Lost, Tell, Join, Finals, Finish
<1>4. FlagsInOrder'
    BY <1>2 DEF Control, FlagsInOrder, threads
<1>5. {rawShut', storeShut', g_shutdown', procFlag', storeFlag', upFlag', dbOpen',
       queuesAlive'} \subseteq BOOLEAN
    BY <1>2 DEF Control, ControlTypes
<1>6. CASE todo' = Tail(todo) /\ State(t) \in Gone
    <2>1. \A u \in ThreadNames : todo[1] = Join(u) => State(u) \in Gone
        BY <1>1, <1>3, <1>6
    <2>2. todo[1] # Lost /\ todo[1] \notin {Await, Tell("collect")} /\ todo[1] # Tell("proc")
        BY <1>1, <1>3 DEF ThreadNames
    <2>3. {rawShut', storeShut', g_shutdown', procFlag', storeFlag', upFlag'} \subseteq BOOLEAN
        BY <1>5
    <2> QED BY <1>1, <1>2, <1>4, <1>6, <2>1, <2>2, <2>3, TailControl
<1>7. CASE todo' = <<Lost>>
    <2>1. /\ todo' \in Seq(Commands) /\ Len(todo') = 1 /\ todo'[1] = Lost
          /\ \A i \in 1 .. Len(todo') : i = 1
        BY <1>7 DEF Lost, Commands
    <2>2. ControlTypes'
        <3>1. Len(todo') <= 16
            BY <2>1
        <3> QED BY <1>2, <1>5, <2>1, <3>1 DEF Control, ControlTypes, threads
    <2>3. JoinsLeft'
        BY <2>1 DEF JoinsLeft, Has
    <2>4. EndsLast'
        <3>1. dbOpen /\ queuesAlive
            BY <1>1, <1>3 DEF Control, ControlTypes, EndsLast
        <3>2. FinishLast(todo')
            <4>1. \A i, j \in 1 .. Len(todo') : ~(i < j)
                BY <2>1
            <4> QED BY <4>1 DEF FinishLast
        <3> QED BY <1>2, <2>1, <3>1, <3>2 DEF EndsLast
    <2>5. CreatesLeft'
        BY <2>1 DEF CreatesLeft, Create, Lost
    <2>6. Told'
        BY <2>1 DEF Told, After, Lost, Shut, Tell
    <2> QED BY <1>4, <2>2, <2>3, <2>4, <2>5, <2>6 DEF Control
<1>8. (todo' = Tail(todo) /\ State(t) \in Gone) \/ todo' = <<Lost>>
    BY DEF MainJoin, State, Gone
<1> QED BY <1>6, <1>7, <1>8

(* When the end begins nothing else is left to do, so no thread is left. *)
LEMMA AllGone ==
    ASSUME Control, \A i \in 1 .. Len(todo) : todo[i] \in Finals
    PROVE  \A t \in ThreadNames : State(t) \in Gone
<1>1. Lost \notin Finals /\ \A t \in ThreadNames : Join(t) \notin Finals
    BY DEF Lost, Join, Finals, Finish
<1> QED BY <1>1 DEF Control, JoinsLeft, Has

LEMMA FinishControl == Control /\ MainFinish => Control'
<1> SUFFICES ASSUME Control, MainFinish PROVE Control'
    OBVIOUS
<1>1. /\ todo' = Tail(todo)
      /\ UNCHANGED <<mode, threads, rawShut, storeShut, g_shutdown, procFlag, storeFlag,
                     upFlag>>
      /\ dbOpen' \in {dbOpen, FALSE} /\ queuesAlive' \in {queuesAlive, FALSE}
    BY DEF MainFinish, raw, stq, flags
<1>2. todo # <<>> /\ todo[1] \in Finals /\ 1 \in 1 .. Len(todo)
    <2>1. \/ Does(Finish[1])
          \/ Does(Finish[2])
        BY DEF MainFinish
    <2> QED BY <2>1, FirstCommand DEF Finals
<1>3. \A i \in 1 .. Len(todo) : todo[i] \in Finals
    <2> TAKE i \in 1 .. Len(todo)
    <2>1. 1 < i \/ i = 1
        OBVIOUS
    <2> QED BY <1>2, <2>1 DEF Control, EndsLast, FinishLast
<1>4. \A c \in Finals : /\ c # Lost /\ c \notin {Await, Tell("collect"), Tell("proc")}
                        /\ c \notin Creations
                        /\ c \notin {Shut("raw"), Shut("store"), Tell("store")}
    BY DEF Finals, Finish, Lost, Await, Tell, Creations, Create, Shut
<1>5. \A t \in ThreadNames : State(t)' \in Gone
    <2>1. \A t \in ThreadNames : State(t) \in Gone
        BY <1>3, AllGone
    <2> QED BY <1>1, <2>1 DEF threads, State
<1>6. /\ todo' \in Seq(Commands) /\ Len(todo') <= 16 /\ FinishLast(todo')
      /\ \A i \in 1 .. Len(todo') : todo'[i] \in Finals
    BY <1>1, <1>2, <1>3, TailFacts
<1>7. ControlTypes'
    <2>1. {rawShut', storeShut', g_shutdown', procFlag', storeFlag', upFlag', dbOpen',
           queuesAlive'} \subseteq BOOLEAN
        BY <1>1 DEF Control, ControlTypes
    <2> QED BY <1>1, <1>6, <2>1 DEF Control, ControlTypes, threads
<1>8. JoinsLeft'
    BY <1>5 DEF JoinsLeft
<1>9. EndsLast'
    BY <1>4, <1>6 DEF EndsLast
<1>10. CreatesLeft'
    BY <1>4, <1>6 DEF CreatesLeft, Creations
<1>11. Told'
    BY <1>4, <1>6 DEF Told, After
<1>12. FlagsInOrder'
    BY <1>1 DEF Control, FlagsInOrder, threads
<1> QED BY <1>7, <1>8, <1>9, <1>10, <1>11, <1>12 DEF Control

-----------------------------------------------------------------------------
LEMMA NextControl == Control /\ [Next]_vars => Control'
<1> SUFFICES ASSUME Control, [Next]_vars PROVE Control'
    OBVIOUS
<1>1. CASE UNCHANGED vars
    <2>1. UNCHANGED <<mode, collect, proc, store, up, rawShut, storeShut, g_shutdown,
                      procFlag, storeFlag, upFlag, dbOpen, queuesAlive, todo>>
        BY <1>1 DEF vars, threads, raw, stq, flags
    <2>2. ControlTypes' /\ FlagsInOrder'
        BY <2>1 DEF Control, ControlTypes, FlagsInOrder
    <2>3. \A t \in ThreadNames : State(t)' = State(t)
        BY <2>1 DEF State
    <2> QED BY <2>1, <2>2, <2>3, ThreadStep
<1>2. CASE Main
    BY <1>2, CreateControl, TellControl, JoinControl, AwaitControl, ShutControl,
       FinishControl DEF Main
<1> QED BY <1>1, <1>2, CollectControl, ProcControl, StoreControl, UpControl, SignalControl
        DEF Next

(* What main() still has to do, the threads that live and the flags agree  *)
(* in every reachable state.                                               *)
THEOREM ControlInvariance == Spec => []Control
<1>1. Init => Control
    BY InitControl
<1>2. Control /\ [Next]_vars => Control'
    BY NextControl
<1> QED BY <1>1, <1>2, PTL DEF Spec

(* NoUseAfterClose: on every path through start and stop, threads that     *)
(* fail to start and joins that never return included, the database and    *)
(* the queues outlive the threads that use them.                           *)
THEOREM NothingUsedAfterItsEnd == Spec => []NoUseAfterClose
<1>1. Control => NoUseAfterClose
    <2> SUFFICES ASSUME Control, ~dbOpen \/ ~queuesAlive
                 PROVE  {collect, proc, store, up} \subseteq Gone
        BY DEF NoUseAfterClose
    <2>1. \A t \in ThreadNames : State(t) \in Gone
        BY AllGone DEF Control, EndsLast
    <2> QED BY <2>1 DEF ThreadNames, State
<1> QED BY <1>1, ControlInvariance, PTL

-----------------------------------------------------------------------------
(* The samples that are turned down: one for each writer whose queue is    *)
(* shut while it has a sample in hand, and only once it has let it go.     *)

RawRefusals == IF rawShut /\ collect # "push" THEN 1 ELSE 0
StoreRefusals == IF storeShut /\ proc \notin {"pop", "push"} THEN 1 ELSE 0
Refusals == refused \in Nat /\ refused <= RawRefusals + StoreRefusals

LEMMA RefusalsStep ==
    ASSUME Refusals,
           \/ refused' = refused /\ RawRefusals' >= RawRefusals
              /\ StoreRefusals' >= StoreRefusals
           \/ refused' = refused + 1 /\ RawRefusals = 0 /\ RawRefusals' = 1
              /\ StoreRefusals' >= StoreRefusals
           \/ refused' = refused + 1 /\ StoreRefusals = 0 /\ StoreRefusals' = 1
              /\ RawRefusals' >= RawRefusals
    PROVE  Refusals'
<1> DEFINE r == refused'
           x == RawRefusals'
           y == StoreRefusals'
<1>1. {RawRefusals, StoreRefusals, x, y} \subseteq 0 .. 1
    BY DEF RawRefusals, StoreRefusals
<1>2. refused \in Nat /\ refused <= RawRefusals + StoreRefusals
    BY DEF Refusals
<1>3. \/ r = refused /\ x >= RawRefusals /\ y >= StoreRefusals
      \/ r = refused + 1 /\ RawRefusals = 0 /\ x = 1 /\ y >= StoreRefusals
      \/ r = refused + 1 /\ StoreRefusals = 0 /\ y = 1 /\ x >= RawRefusals
    OBVIOUS
<1> HIDE DEF r, x, y
<1>4. r \in Nat /\ r <= x + y
    BY <1>1, <1>2, <1>3
<1> QED BY <1>4 DEF r, x, y, Refusals

(* Neither queue is shut more than before, nobody lets a sample go. *)
LEMMA RefusalsKept ==
    ASSUME Refusals, UNCHANGED refused,
           rawShut /\ collect # "push" => rawShut' /\ collect' # "push",
           storeShut /\ proc \notin {"pop", "push"}
               => storeShut' /\ proc' \notin {"pop", "push"}
    PROVE  Refusals'
<1>1. RawRefusals' >= RawRefusals /\ StoreRefusals' >= StoreRefusals
    BY DEF RawRefusals, StoreRefusals
<1> QED BY <1>1, RefusalsStep

LEMMA NextRefusals == Control /\ Refusals /\ [Next]_vars => Refusals'
<1> SUFFICES ASSUME Control, Refusals, [Next]_vars PROVE Refusals'
    OBVIOUS
<1>1. (rawShut => g_shutdown) /\ (storeShut => procFlag)
    BY DEF Control, FlagsInOrder
<1>2. CASE Collect
    <2>1. UNCHANGED <<proc, rawShut, storeShut>>
        BY <1>2, QueueFlags DEF Collect, CollectMake, CollectPush, CollectStop, raw, stq
    <2>2. CASE CollectPush /\ rawShut /\ refused' = refused + 1
        <3>1. RawRefusals = 0 /\ RawRefusals' = 1 /\ StoreRefusals' = StoreRefusals
            BY <2>1, <2>2 DEF CollectPush, RawRefusals, StoreRefusals
        <3>2. StoreRefusals' >= StoreRefusals
            BY <3>1 DEF StoreRefusals
        <3> QED BY <2>2, <3>1, <3>2, RefusalsStep
    <2>3. CASE ~(CollectPush /\ rawShut /\ refused' = refused + 1)
        <3>1. UNCHANGED refused /\ (rawShut /\ collect # "push" => collect' # "push")
            BY <1>1, <1>2, <2>3 DEF Collect, CollectMake, CollectPush, CollectStop
        <3> QED BY <2>1, <3>1, RefusalsKept
    <2> QED BY <2>2, <2>3
<1>3. CASE Proc
    <2>1. UNCHANGED <<collect, rawShut, storeShut>>
        BY <1>3, QueueFlags DEF Proc, ProcCheck, ProcPop, ProcPush, raw, stq
    <2>2. CASE ProcPush /\ storeShut /\ refused' = refused + 1
        <3>1. StoreRefusals = 0 /\ StoreRefusals' = 1 /\ RawRefusals' = RawRefusals
            BY <2>1, <2>2 DEF ProcPush, RawRefusals, StoreRefusals
        <3>2. RawRefusals' >= RawRefusals
            BY <3>1 DEF RawRefusals
        <3> QED BY <2>2, <3>1, <3>2, RefusalsStep
    <2>3. CASE ~(ProcPush /\ storeShut /\ refused' = refused + 1)
        <3>1. /\ UNCHANGED refused
              /\ storeShut /\ proc \notin {"pop", "push"} => proc' \notin {"pop", "push"}
            BY <1>1, <1>3, <2>3 DEF Proc, ProcCheck, ProcPop, ProcPush
        <3> QED BY <2>1, <3>1, RefusalsKept
    <2> QED BY <2>2, <2>3
<1>4. CASE Store \/ UpStop \/ Signal \/ UNCHANGED vars
    <2>1. UNCHANGED <<collect, proc, rawShut, storeShut, refused>>
        BY <1>4, QueueFlags DEF Store, StoreCheck, StorePop, StoreInsert, StoreDrain, UpStop,
           Signal, vars, threads, raw, stq
    <2> QED BY <2>1, RefusalsKept
<1>5. CASE Main
    <2>1. /\ UNCHANGED refused
          /\ collect' \in {collect, "check"} /\ proc' \in {proc, "check"}
        BY <1>5 DEF Main, MainCreate, Created, MainTell, MainJoin, MainAwait, MainShut,
           MainFinish, threads
    <2>2. (rawShut => rawShut') /\ (storeShut => storeShut')
        BY <1>5 DEF Main, MainCreate, MainTell, MainJoin, MainAwait, MainShut, MainFinish,
           Raw!Close, Stq!Close, raw, stq
    <2> QED BY <2>1, <2>2, RefusalsKept
<1> QED BY <1>2, <1>3, <1>4, <1>5 DEF Next

(* RefusalsBounded: for every length of the queues and of the run, the     *)
(* shutdown turns down one sample of each writer at most.                  *)
THEOREM FewRefusals == Spec => []RefusalsBounded
<1>1. Init => Refusals
    <2>1. Init => refused = 0 /\ RawRefusals = 0 /\ StoreRefusals = 0
        BY DEF Init, Raw!Init, Stq!Init, RawRefusals, StoreRefusals
    <2> QED BY <2>1 DEF Refusals
<1>2. Control /\ Refusals /\ [Next]_vars => Refusals'
    BY NextRefusals
<1>3. Refusals => RefusalsBounded
    <2>1. {RawRefusals, StoreRefusals} \subseteq 0 .. 1
        BY DEF RawRefusals, StoreRefusals
    <2> QED BY <2>1 DEF Refusals, RefusalsBounded
<1>4. Spec => []Control
    BY ControlInvariance
<1> QED BY <1>1, <1>2, <1>3, <1>4, PTL DEF Spec

-----------------------------------------------------------------------------
(* The samples.                                                            *)

Elems(q) == {q[i] : i \in 1 .. Len(q)}
Increasing(q) == \A i, j \in 1 .. Len(q) : i < j => q[i] < q[j]

StoreHand == IF store \in {"insert", "drain insert"} THEN {storeBuf["store"]} ELSE {}
ProcHand == IF proc = "push" THEN {procBuf["proc"]} ELSE {}
CollectHand == IF collect = "push" THEN {made} ELSE {}

Stages == <<Elems(db), StoreHand, Elems(storeq), ProcHand, Elems(rawq), CollectHand>>

(* In S every number is below those of later stages, and none is above m. *)
Staged(S, m) ==
    /\ \A j, k \in 1 .. 6 : j < k => \A a \in S[j], b \in S[k] : a < b
    /\ \A k \in 1 .. 6 : \A a \in S[k] : a \in Ids /\ a <= m

FlowTypes ==
    /\ made \in 0 .. MaxSamples
    /\ rawq \in Seq(Ids) /\ Len(rawq) <= QueueCap
    /\ storeq \in Seq(Ids) /\ Len(storeq) <= QueueCap
    /\ procBuf \in [{"proc"} -> Ids \cup {0}]
    /\ storeBuf \in [{"store"} -> Ids \cup {0}]
    /\ rawLost \in Nat /\ storeLost \in Nat /\ refused \in Nat
    /\ db \in Seq(Ids) /\ failed \in Nat

QueuesIncrease == Increasing(db) /\ Increasing(storeq) /\ Increasing(rawq)

(* The store thread has ended: what it left was in the processor's hands. *)
LeftBehind == store = "done" => Len(storeq) <= (IF proc \in {"pop", "push"} THEN 0 ELSE 1)

Flow == /\ FlowTypes /\ Staged(Stages, made) /\ QueuesIncrease
        /\ LeftBehind /\ SamplesAccounted
-----------------------------------------------------------------------------
(* The stages.                                                             *)

LEMMA IdsAreNat == Ids \subseteq Nat /\ 0 \notin Ids /\ MaxSamples \in Nat
                   /\ QueueCap \in Nat \ {0}
    BY GatewayAssumption DEF Ids

LEMMA StagedMove ==
    ASSUME NEW S, NEW T, NEW m, Staged(S, m), NEW p \in 1 .. 5, NEW x \in S[p + 1],
           \A k \in 1 .. 6 : k # p => T[k] \subseteq S[k],
           T[p] \subseteq S[p] \cup {x},
           \A a \in T[p + 1] : x < a
    PROVE  Staged(T, m)
<1>1. p + 1 \in 1 .. 6 /\ p \in 1 .. 6 /\ p + 1 # p
    OBVIOUS
<1>2. \A k \in 1 .. 6 : \A a \in T[k] : a \in Ids /\ a <= m
    BY <1>1 DEF Staged
<1> SUFFICES ASSUME NEW j \in 1 .. 6, NEW k \in 1 .. 6, j < k, NEW a \in T[j], NEW b \in T[k]
             PROVE  a < b
    BY <1>2 DEF Staged
<1>3. CASE a \in S[j] /\ b \in S[k]
    BY <1>3 DEF Staged
<1>4. CASE j = p /\ a = x
    <2>1. CASE k = p + 1
        BY <1>4, <2>1
    <2>2. CASE k # p + 1
        <3>1. p + 1 < k /\ k # p
            BY <1>4, <2>2
        <3>2. b \in S[k]
            BY <3>1
        <3> QED BY <1>1, <1>4, <3>1, <3>2 DEF Staged
    <2> QED BY <2>1, <2>2
<1>5. CASE k = p /\ b = x
    <2>1. j # p /\ j < p + 1
        BY <1>5
    <2>2. a \in S[j]
        BY <2>1
    <2> QED BY <1>1, <1>5, <2>1, <2>2 DEF Staged
<1> QED BY <1>3, <1>4, <1>5

LEMMA StagedLess ==
    ASSUME NEW S, NEW T, NEW m, Staged(S, m), \A k \in 1 .. 6 : T[k] \subseteq S[k]
    PROVE  Staged(T, m)
    BY DEF Staged

(* A new sample. *)
LEMMA StagedNew ==
    ASSUME NEW S, NEW T, NEW m \in Nat, NEW n, n = m + 1, n \in Ids, Staged(S, m),
           \A k \in 1 .. 5 : T[k] \subseteq S[k], T[6] \subseteq {n}
    PROVE  Staged(T, n)
<1>1. \A k \in 1 .. 5 : \A a \in T[k] : a \in Ids /\ a <= m /\ a < n /\ a <= n
    <2> TAKE k \in 1 .. 5
    <2> TAKE a \in T[k]
    <2>1. k \in 1 .. 6
        OBVIOUS
    <2>2. a \in Ids /\ a <= m
        BY <2>1 DEF Staged
    <2> QED BY <2>2, IdsAreNat
<1>2. \A k \in 1 .. 6 : \A a \in T[k] : a \in Ids /\ a <= n
    BY <1>1, IdsAreNat
<1> SUFFICES ASSUME NEW j \in 1 .. 6, NEW k \in 1 .. 6, j < k, NEW a \in T[j], NEW b \in T[k]
             PROVE  a < b
    BY <1>2 DEF Staged
<1>3. j \in 1 .. 5
    OBVIOUS
<1>4. CASE k = 6
    BY <1>1, <1>3, <1>4
<1>5. CASE k # 6
    <2>1. a \in S[j] /\ b \in S[k]
        BY <1>3, <1>5
    <2> QED BY <2>1 DEF Staged
<1> QED BY <1>4, <1>5

-----------------------------------------------------------------------------
(* The queues.                                                             *)

LEMMA AppendList ==
    ASSUME NEW q \in Seq(Ids), NEW x \in Ids
    PROVE  LET r == Append(q, x)
           IN  /\ r \in Seq(Ids) /\ Len(r) = Len(q) + 1
               /\ Elems(r) \subseteq Elems(q) \cup {x}
               /\ Increasing(q) /\ (\A a \in Elems(q) : a < x) => Increasing(r)
<1> DEFINE r == Append(q, x)
<1>1. /\ r \in Seq(Ids) /\ Len(r) = Len(q) + 1
      /\ \A i \in 1 .. Len(q) : r[i] = q[i]
      /\ r[Len(q) + 1] = x
    BY AppendProperties
<1> HIDE DEF r
<1>2. Len(q) \in Nat
    OBVIOUS
<1>3. \A i \in 1 .. Len(r) : i \in 1 .. Len(q) \/ i = Len(q) + 1
    BY <1>1, <1>2
<1>4. Elems(r) \subseteq Elems(q) \cup {x}
    BY <1>1, <1>3 DEF Elems
<1>5. ASSUME Increasing(q), \A a \in Elems(q) : a < x
      PROVE  Increasing(r)
    <2> SUFFICES ASSUME NEW i \in 1 .. Len(r), NEW j \in 1 .. Len(r), i < j
                 PROVE  r[i] < r[j]
        BY DEF Increasing
    <2>1. i \in 1 .. Len(q)
        BY <1>1, <1>2
    <2>2. CASE j \in 1 .. Len(q)
        BY <1>1, <1>5, <2>1, <2>2 DEF Increasing
    <2>3. CASE j = Len(q) + 1
        BY <1>1, <1>5, <2>1, <2>3 DEF Elems
    <2> QED BY <1>3, <2>2, <2>3
<1> QED BY <1>1, <1>4, <1>5 DEF r

LEMMA PopList ==
    ASSUME NEW q \in Seq(Ids), q # <<>>
    PROVE  /\ Tail(q) \in Seq(Ids) /\ Len(Tail(q)) = Len(q) - 1 /\ Len(q) \in Nat \ {0}
           /\ Head(q) \in Ids /\ Head(q) \in Elems(q)
           /\ Elems(Tail(q)) \subseteq Elems(q)
           /\ Increasing(q) => /\ Increasing(Tail(q))
                               /\ \A a \in Elems(Tail(q)) : Head(q) < a
<1> DEFINE r == Tail(q)
<1>1. /\ r \in Seq(Ids) /\ Len(r) = Len(q) - 1 /\ Len(q) \in Nat \ {0}
      /\ Head(q) = q[1]
      /\ \A i \in 1 .. Len(r) : r[i] = q[i + 1]
    BY HeadTailProperties, EmptySeq
<1> HIDE DEF r
<1>2. 1 \in 1 .. Len(q) /\ \A i \in 1 .. Len(r) : i + 1 \in 1 .. Len(q) /\ 1 < i + 1
    BY <1>1
<1>3. Head(q) \in Ids /\ Head(q) \in Elems(q) /\ Elems(r) \subseteq Elems(q)
    BY <1>1, <1>2 DEF Elems
<1>4. ASSUME Increasing(q)
      PROVE  Increasing(r) /\ \A a \in Elems(r) : Head(q) < a
    <2>1. \A i, j \in 1 .. Len(r) : i < j => i + 1 < j + 1
        BY <1>1
    <2>2. Increasing(r)
        BY <1>1, <1>2, <1>4, <2>1 DEF Increasing
    <2>3. \A a \in Elems(r) : Head(q) < a
        BY <1>1, <1>2, <1>4 DEF Increasing, Elems
    <2> QED BY <2>2, <2>3
<1> QED BY <1>1, <1>3, <1>4 DEF r

(* A push that is not turned down drops the oldest sample of a full queue. *)
LEMMA PushList ==
    ASSUME NEW q \in Seq(Ids), Len(q) <= QueueCap, NEW x \in Ids, NEW n \in Nat, NEW r, NEW l,
           IF Len(q) < QueueCap THEN r = Append(q, x) /\ l = n
                                ELSE r = Append(Tail(q), x) /\ l = n + 1
    PROVE  /\ r \in Seq(Ids) /\ Len(r) <= QueueCap /\ l \in Nat
           /\ Len(r) + l = Len(q) + n + 1
           /\ Len(q) = 0 => Len(r) = 1
           /\ Elems(r) \subseteq Elems(q) \cup {x}
           /\ Increasing(q) /\ (\A a \in Elems(q) : a < x) => Increasing(r)
<1>1. CASE Len(q) < QueueCap
    <2>1. r = Append(q, x) /\ l = n
        BY <1>1
    <2>2. /\ r \in Seq(Ids) /\ Len(r) = Len(q) + 1
          /\ Elems(r) \subseteq Elems(q) \cup {x}
          /\ Increasing(q) /\ (\A a \in Elems(q) : a < x) => Increasing(r)
        BY <2>1, AppendList
    <2>3. Len(r) <= QueueCap /\ Len(r) + l = Len(q) + n + 1
        BY <1>1, <2>1, <2>2, IdsAreNat
    <2> QED BY <2>1, <2>2, <2>3
<1>2. CASE ~(Len(q) < QueueCap)
    <2>1. r = Append(Tail(q), x) /\ l = n + 1
        BY <1>2
    <2>2. Len(q) = QueueCap /\ Len(q) # 0
        BY <1>2, IdsAreNat
    <2>3. q # <<>>
        BY <2>2
    <2>4. /\ Tail(q) \in Seq(Ids) /\ Len(Tail(q)) = Len(q) - 1
          /\ Elems(Tail(q)) \subseteq Elems(q)
          /\ Increasing(q) => Increasing(Tail(q))
        BY <2>3, PopList
    <2>5. /\ r \in Seq(Ids) /\ Len(r) = Len(Tail(q)) + 1
          /\ Elems(r) \subseteq Elems(Tail(q)) \cup {x}
          /\ Increasing(Tail(q)) /\ (\A a \in Elems(Tail(q)) : a < x) => Increasing(r)
        BY <2>1, <2>4, AppendList
    <2>6. Len(r) <= QueueCap /\ Len(r) + l = Len(q) + n + 1 /\ l \in Nat
        <3> DEFINE a == Len(q)  t == Len(Tail(q))  b == Len(r)
        <3>1. a = QueueCap /\ t = a - 1 /\ b = t + 1 /\ l = n + 1
            BY <2>1, <2>2, <2>4, <2>5
        <3> HIDE DEF a, t, b
        <3>2. b <= QueueCap /\ b + l = a + n + 1 /\ l \in Nat
            BY <3>1, IdsAreNat
        <3> QED BY <3>2 DEF a, b
    <2> QED BY <2>2, <2>4, <2>5, <2>6
<1> QED BY <1>1, <1>2

-----------------------------------------------------------------------------
(* The account.                                                            *)

CollectHeld == IF collect = "push" THEN 1 ELSE 0
ProcHeld == IF proc = "push" THEN 1 ELSE 0
StoreHeld == IF store \in {"insert", "drain insert"} THEN 1 ELSE 0

LEMMA HeldParts == CollectHeld \in Int /\ ProcHeld \in Int /\ StoreHeld \in Int
<1>1. 0 \in Int /\ 1 \in Int
    OBVIOUS
<1> QED BY <1>1 DEF CollectHeld, ProcHeld, StoreHeld

LEMMA HeldChange ==
    ASSUME NEW d \in {1, -1},
           \/ CollectHeld' = CollectHeld + d /\ UNCHANGED <<proc, store>>
           \/ ProcHeld' = ProcHeld + d /\ UNCHANGED <<collect, store>>
           \/ StoreHeld' = StoreHeld + d /\ UNCHANGED <<collect, proc>>
    PROVE  Held' = Held + d
<1> DEFINE a == CollectHeld  b == ProcHeld  c == StoreHeld
           x == CollectHeld' y == ProcHeld' z == StoreHeld'
<1>1. Held = a + b + c /\ Held' = x + y + z
    BY DEF Held, CollectHeld, ProcHeld, StoreHeld
<1>2. a \in Int /\ b \in Int /\ c \in Int /\ x \in Int /\ y \in Int /\ z \in Int
    <2>1. a \in Int /\ b \in Int /\ c \in Int
        BY HeldParts
    <2>2. (CollectHeld \in Int /\ ProcHeld \in Int /\ StoreHeld \in Int)'
        BY HeldParts, PTL
    <2> QED BY <2>1, <2>2
<1>3. \/ x = a + d /\ y = b /\ z = c
      \/ x = a /\ y = b + d /\ z = c
      \/ x = a /\ y = b /\ z = c + d
    BY DEF CollectHeld, ProcHeld, StoreHeld
<1> HIDE DEF a, b, c, x, y, z
<1>4. x + y + z = a + b + c + d
    BY <1>2, <1>3
<1> QED BY <1>1, <1>4

LEMMA HeldDown ==
    ASSUME \/ CollectHeld' = CollectHeld + (-1) /\ UNCHANGED <<proc, store>>
           \/ ProcHeld' = ProcHeld + (-1) /\ UNCHANGED <<collect, store>>
           \/ StoreHeld' = StoreHeld + (-1) /\ UNCHANGED <<collect, proc>>
    PROVE  Held' = Held - 1
<1> DEFINE h == Held'
<1>1. h = Held + (-1)
    BY HeldChange
<1>2. Held \in Int
    BY DEF Held
<1> HIDE DEF h
<1>3. h = Held - 1
    BY <1>1, <1>2
<1> QED BY <1>3 DEF h

RawSum == Len(rawq) + rawLost
StoreSum == Len(storeq) + storeLost
Tried == Len(db) + failed

LEMMA FlowNats ==
    FlowTypes => /\ made \in Nat /\ Len(rawq) \in Nat /\ Len(storeq) \in Nat
                 /\ Len(db) \in Nat /\ failed \in Nat /\ Tried \in Nat /\ rawLost \in Nat
                 /\ storeLost \in Nat /\ refused \in Nat /\ Held \in Nat
<1> SUFFICES ASSUME FlowTypes
             PROVE  /\ made \in Nat /\ Len(rawq) \in Nat /\ Len(storeq) \in Nat
                    /\ Len(db) \in Nat /\ failed \in Nat /\ Tried \in Nat /\ rawLost \in Nat
                    /\ storeLost \in Nat /\ refused \in Nat /\ Held \in Nat
    OBVIOUS
<1>1. made \in Nat
    BY IdsAreNat DEF FlowTypes
<1>2. Held \in Nat
    <2> DEFINE a == IF collect = "push" THEN 1 ELSE 0
               b == IF proc = "push" THEN 1 ELSE 0
               c == IF store \in {"insert", "drain insert"} THEN 1 ELSE 0
    <2>1. a \in Nat /\ b \in Nat /\ c \in Nat
        OBVIOUS
    <2>2. Held = a + b + c
        BY DEF Held
    <2> HIDE DEF a, b, c
    <2> QED BY <2>1, <2>2
<1>3. /\ Len(rawq) \in Nat /\ Len(storeq) \in Nat /\ Len(db) \in Nat
      /\ rawLost \in Nat /\ storeLost \in Nat /\ refused \in Nat
    BY DEF FlowTypes
<1>4. failed \in Nat /\ Tried \in Nat
    <2>1. failed \in Nat
        BY DEF FlowTypes
    <2> QED BY <1>3, <2>1 DEF Tried
<1> QED BY <1>1, <1>2, <1>3, <1>4

LEMMA Balance ==
    ASSUME FlowTypes, FlowTypes', SamplesAccounted,
           \/ /\ made' = made + 1 /\ Held' = Held + 1
              /\ UNCHANGED <<RawSum, StoreSum, Tried, refused>>
           \/ /\ Held' = Held - 1 /\ RawSum' = RawSum + 1
              /\ UNCHANGED <<made, StoreSum, Tried, refused>>
           \/ /\ Held' = Held - 1 /\ StoreSum' = StoreSum + 1
              /\ UNCHANGED <<made, RawSum, Tried, refused>>
           \/ /\ Held' = Held - 1 /\ refused' = refused + 1
              /\ UNCHANGED <<made, RawSum, StoreSum, Tried>>
           \/ /\ Held' = Held - 1 /\ Tried' = Tried + 1
              /\ UNCHANGED <<made, RawSum, StoreSum, refused>>
           \/ /\ Held' = Held + 1 /\ RawSum' = RawSum - 1
              /\ UNCHANGED <<made, StoreSum, Tried, refused>>
           \/ /\ Held' = Held + 1 /\ StoreSum' = StoreSum - 1
              /\ UNCHANGED <<made, RawSum, Tried, refused>>
           \/ UNCHANGED <<made, RawSum, StoreSum, Held, Tried, refused>>
    PROVE  SamplesAccounted'
<1>0. (/\ made \in Nat /\ Len(rawq) \in Nat /\ Len(storeq) \in Nat /\ Len(db) \in Nat
       /\ rawLost \in Nat /\ storeLost \in Nat /\ refused \in Nat /\ Held \in Nat
       /\ failed \in Nat)'
    BY FlowNats, PTL
<1>1. /\ made \in Nat /\ RawSum \in Nat /\ StoreSum \in Nat /\ Held \in Nat
      /\ Tried \in Nat /\ refused \in Nat
    <2>1. /\ Len(rawq) \in Nat /\ Len(storeq) \in Nat /\ rawLost \in Nat /\ storeLost \in Nat
        BY FlowNats
    <2>2. RawSum \in Nat /\ StoreSum \in Nat
        BY <2>1 DEF RawSum, StoreSum
    <2> QED BY <2>2, FlowNats
<1>2. SamplesAccounted <=> made = RawSum + StoreSum + Held + Tried + refused
    <2> DEFINE q == Len(rawq)  s == Len(storeq)  d == Len(db)
    <2>1. /\ q \in Nat /\ s \in Nat /\ d \in Nat /\ rawLost \in Nat /\ storeLost \in Nat
          /\ failed \in Nat
        BY FlowNats DEF FlowTypes
    <2>2. SamplesAccounted
              <=> made = q + s + Held + d + failed + rawLost + storeLost + refused
        BY DEF SamplesAccounted
    <2>3. RawSum = q + rawLost /\ StoreSum = s + storeLost /\ Tried = d + failed
        BY DEF RawSum, StoreSum, Tried
    <2> DEFINE h == Held
    <2>4. h \in Nat
        BY <1>1
    <2> HIDE DEF q, s, d, h
    <2>5. made = q + s + h + d + failed + rawLost + storeLost + refused
          <=> made = (q + rawLost) + (s + storeLost) + h + (d + failed) + refused
        BY <1>1, <2>1, <2>4
    <2> QED BY <2>2, <2>3, <2>5 DEF h
<1>3. SamplesAccounted' <=> made' = RawSum' + StoreSum' + Held' + Tried' + refused'
    <2> DEFINE m == made'  h == Held'  d == Len(db)'  z == failed'  f == refused'
               q == Len(rawq)'  s == Len(storeq)'  x == rawLost'  y == storeLost'
    <2>1. /\ m \in Nat /\ h \in Nat /\ d \in Nat /\ z \in Nat /\ f \in Nat /\ q \in Nat
          /\ s \in Nat /\ x \in Nat /\ y \in Nat
        BY <1>0
    <2>2. SamplesAccounted' <=> m = q + s + h + d + z + x + y + f
        BY DEF SamplesAccounted
    <2>3. RawSum' = q + x /\ StoreSum' = s + y /\ Tried' = d + z
        BY DEF RawSum, StoreSum, Tried
    <2> HIDE DEF m, h, d, z, f, q, s, x, y
    <2>4. m = q + s + h + d + z + x + y + f <=> m = (q + x) + (s + y) + h + (d + z) + f
        BY <2>1
    <2> QED BY <2>2, <2>3, <2>4 DEF m, h, f
<1> DEFINE m == made'  r == RawSum'  s == StoreSum'  h == Held'  d == Tried'  f == refused'
<1>4. \/ m = made + 1 /\ h = Held + 1 /\ r = RawSum /\ s = StoreSum /\ d = Tried /\ f = refused
      \/ m = made /\ h = Held - 1 /\ r = RawSum + 1 /\ s = StoreSum /\ d = Tried /\ f = refused
      \/ m = made /\ h = Held - 1 /\ r = RawSum /\ s = StoreSum + 1 /\ d = Tried /\ f = refused
      \/ m = made /\ h = Held - 1 /\ r = RawSum /\ s = StoreSum /\ d = Tried /\ f = refused + 1
      \/ m = made /\ h = Held - 1 /\ r = RawSum /\ s = StoreSum /\ d = Tried + 1 /\ f = refused
      \/ m = made /\ h = Held + 1 /\ r = RawSum - 1 /\ s = StoreSum /\ d = Tried /\ f = refused
      \/ m = made /\ h = Held + 1 /\ r = RawSum /\ s = StoreSum - 1 /\ d = Tried /\ f = refused
      \/ m = made /\ h = Held /\ r = RawSum /\ s = StoreSum /\ d = Tried /\ f = refused
    OBVIOUS
<1> HIDE DEF m, r, s, h, d, f
<1>5. m = r + s + h + d + f
    <2> DEFINE R == RawSum  S == StoreSum  H == Held  D == Tried
    <2>1. /\ made \in Nat /\ R \in Nat /\ S \in Nat /\ H \in Nat /\ D \in Nat /\ refused \in Nat
          /\ made = R + S + H + D + refused
        BY <1>1, <1>2
    <2>2. \/ m = made + 1 /\ h = H + 1 /\ r = R /\ s = S /\ d = D /\ f = refused
          \/ m = made /\ h = H - 1 /\ r = R + 1 /\ s = S /\ d = D /\ f = refused
          \/ m = made /\ h = H - 1 /\ r = R /\ s = S + 1 /\ d = D /\ f = refused
          \/ m = made /\ h = H - 1 /\ r = R /\ s = S /\ d = D /\ f = refused + 1
          \/ m = made /\ h = H - 1 /\ r = R /\ s = S /\ d = D + 1 /\ f = refused
          \/ m = made /\ h = H + 1 /\ r = R - 1 /\ s = S /\ d = D /\ f = refused
          \/ m = made /\ h = H + 1 /\ r = R /\ s = S - 1 /\ d = D /\ f = refused
          \/ m = made /\ h = H /\ r = R /\ s = S /\ d = D /\ f = refused
        BY <1>4
    <2> HIDE DEF R, S, H, D
    <2> QED BY <2>1, <2>2
<1> QED BY <1>3, <1>5 DEF m, r, s, h, d, f

-----------------------------------------------------------------------------
(* The steps.                                                              *)

LEMMA InitFlow == Init => Flow
<1> SUFFICES ASSUME Init PROVE Flow
    OBVIOUS
<1>1. /\ made = 0 /\ collect = "none" /\ proc = "none" /\ store = "none"
      /\ rawq = <<>> /\ storeq = <<>> /\ db = <<>> /\ rawLost = 0 /\ storeLost = 0
      /\ refused = 0 /\ failed = 0
      /\ procBuf = [c \in {"proc"} |-> 0] /\ storeBuf = [c \in {"store"} |-> 0]
    BY DEF Init, Raw!Init, Stq!Init
<1>2. FlowTypes
    <2>1. made \in 0 .. MaxSamples
        BY <1>1, IdsAreNat
    <2>2. /\ rawq \in Seq(Ids) /\ storeq \in Seq(Ids) /\ db \in Seq(Ids)
          /\ Len(rawq) = 0 /\ Len(storeq) = 0
        BY <1>1
    <2>3. Len(rawq) <= QueueCap /\ Len(storeq) <= QueueCap
        BY <2>2, IdsAreNat
    <2> QED BY <1>1, <2>1, <2>2, <2>3 DEF FlowTypes
<1>3. \A k \in 1 .. 6 : Stages[k] = {}
    BY <1>1 DEF Stages, Elems, StoreHand, ProcHand, CollectHand
<1>4. Staged(Stages, made)
    BY <1>3 DEF Staged
<1>5. QueuesIncrease
    BY <1>1 DEF QueuesIncrease, Increasing
<1>6. LeftBehind
    BY <1>1 DEF LeftBehind
<1>7. SamplesAccounted
    <2>1. Held = 0
        BY <1>1 DEF Held
    <2> QED BY <1>1, <2>1 DEF SamplesAccounted
<1> QED BY <1>2, <1>4, <1>5, <1>6, <1>7 DEF Flow

LEMMA StageNames ==
    /\ Stages[1] = Elems(db) /\ Stages[2] = StoreHand /\ Stages[3] = Elems(storeq)
    /\ Stages[4] = ProcHand /\ Stages[5] = Elems(rawq) /\ Stages[6] = CollectHand
    BY DEF Stages

LEMMA StageNamesNext ==
    /\ Stages'[1] = Elems(db') /\ Stages'[2] = StoreHand' /\ Stages'[3] = Elems(storeq')
    /\ Stages'[4] = ProcHand' /\ Stages'[5] = Elems(rawq') /\ Stages'[6] = CollectHand'
    BY DEF Stages, Elems

LEMMA LeftKept ==
    ASSUME LeftBehind, UNCHANGED storeq, store' = "done" => store = "done",
           store = "done" /\ proc' \in {"pop", "push"} => proc \in {"pop", "push"},
           Len(storeq) \in Nat
    PROVE  LeftBehind'
    BY DEF LeftBehind

(* Nothing moves. *)
LEMMA NoFlow ==
    ASSUME Flow, UNCHANGED <<made, rawq, rawLost, procBuf, storeq, storeLost, storeBuf,
                             refused, db, failed>>,
           collect' = "push" <=> collect = "push",
           proc' = "push" <=> proc = "push",
           store' \in {"insert", "drain insert"} <=> store \in {"insert", "drain insert"},
           LeftBehind'
    PROVE  Flow'
<1>1. FlowTypes'
    BY DEF Flow, FlowTypes
<1>2. UNCHANGED <<StoreHand, ProcHand, CollectHand>>
    BY DEF StoreHand, ProcHand, CollectHand
<1>3. UNCHANGED <<Stages, made>>
    BY <1>2 DEF Stages, Elems
<1>4. Staged(Stages', made')
    BY <1>3 DEF Flow
<1>5. QueuesIncrease'
    BY DEF Flow, QueuesIncrease
<1>6. SamplesAccounted'
    <2>1. UNCHANGED Held
        BY DEF Held
    <2> QED BY <2>1 DEF Flow, SamplesAccounted
<1> QED BY <1>1, <1>4, <1>5, <1>6 DEF Flow, Staged

LEMMA CollectFlow == Flow /\ Collect => Flow'
<1> SUFFICES ASSUME Flow, Collect PROVE Flow'
    OBVIOUS
<1>1. UNCHANGED <<proc, store, storeq, storeLost, storeBuf, procBuf, db, failed>>
    BY DEF Collect, CollectMake, CollectPush, CollectStop, Raw!Push, raw, stq, table
<1>2. LeftBehind'
    BY <1>1, LeftKept, FlowNats DEF Flow
<1>3. UNCHANGED <<StoreHand, ProcHand>> /\ Elems(db') = Elems(db)
      /\ Elems(storeq') = Elems(storeq)
    BY <1>1 DEF StoreHand, ProcHand
<1>4. CASE CollectMake
    <2>1. /\ collect = "check" /\ collect' = "push" /\ made < MaxSamples /\ made' = made + 1
          /\ UNCHANGED <<rawq, rawLost, refused>>
        BY <1>4 DEF CollectMake, raw
    <2>2. made' \in Ids /\ made' \in 0 .. MaxSamples /\ made \in Nat
        <3>1. made \in 0 .. MaxSamples
            BY DEF Flow, FlowTypes
        <3> QED BY <2>1, <3>1, IdsAreNat DEF Ids
    <2>3. FlowTypes'
        BY <1>1, <2>1, <2>2 DEF Flow, FlowTypes
    <2>4. Staged(Stages', made')
        <3>1. Stages'[6] \subseteq {made'}
            BY StageNamesNext DEF CollectHand
        <3>2. \A k \in 1 .. 5 : Stages'[k] \subseteq Stages[k]
            BY <1>3, <2>1, StageNames, StageNamesNext
        <3> QED BY <2>1, <2>2, <3>1, <3>2, StagedNew DEF Flow
    <2>5. QueuesIncrease'
        BY <1>1, <2>1 DEF Flow, QueuesIncrease
    <2>6. Held' = Held + 1
        <3>1. CollectHeld' = CollectHeld + 1
            BY <2>1 DEF CollectHeld
        <3> QED BY <1>1, <3>1, HeldChange
    <2>7. SamplesAccounted'
        <3>1. UNCHANGED <<RawSum, StoreSum, Tried, refused>>
            BY <1>1, <2>1 DEF RawSum, StoreSum, Tried
        <3> QED BY <2>1, <2>3, <2>6, <3>1, Balance DEF Flow
    <2> QED BY <1>2, <2>3, <2>4, <2>5, <2>7 DEF Flow, Staged
<1>5. CASE CollectPush
    <2>1. collect = "push" /\ collect' = "check" /\ UNCHANGED made
        BY <1>5 DEF CollectPush
    <2>2. made \in Ids /\ (\A a \in Elems(rawq) : a < made)
        <3>1. CollectHand = {made}
            BY <2>1 DEF CollectHand
        <3>2. \A k \in 1 .. 6 : \A a \in Stages[k] : a \in Ids
            BY DEF Flow, Staged
        <3>3. \A a \in Stages[5], b \in Stages[6] : a < b
            BY DEF Flow, Staged
        <3> QED BY <3>1, <3>2, <3>3, StageNames
    <2>3. CollectHand' = {}
        BY <2>1 DEF CollectHand
    <2>4. Held' = Held - 1
        <3>1. CollectHeld' = CollectHeld + (-1)
            BY <2>1 DEF CollectHeld
        <3> QED BY <1>1, <3>1, HeldDown
    <2>5. UNCHANGED <<StoreSum, Tried>>
        BY <1>1 DEF StoreSum, Tried
    <2>6. CASE Raw!Push(made) /\ UNCHANGED refused
        <3>1. IF Len(rawq) < QueueCap
              THEN rawq' = Append(rawq, made) /\ rawLost' = rawLost
              ELSE rawq' = Append(Tail(rawq), made) /\ rawLost' = rawLost + 1
            BY <2>6 DEF Raw!Push
        <3>2. rawq \in Seq(Ids) /\ Len(rawq) <= QueueCap /\ rawLost \in Nat
            BY DEF Flow, FlowTypes
        <3>3. /\ rawq' \in Seq(Ids) /\ Len(rawq') <= QueueCap /\ rawLost' \in Nat
              /\ Len(rawq') + rawLost' = Len(rawq) + rawLost + 1
              /\ Elems(rawq') \subseteq Elems(rawq) \cup {made}
              /\ Increasing(rawq) /\ (\A a \in Elems(rawq) : a < made) => Increasing(rawq')
            BY <2>2, <3>1, <3>2, PushList
        <3>4. FlowTypes'
            BY <1>1, <2>1, <2>6, <3>3 DEF Flow, FlowTypes
        <3>5. Staged(Stages', made)
            <4>1. made \in Stages[5 + 1]
                BY <2>1, StageNames DEF CollectHand
            <4>2. \A k \in 1 .. 6 : k # 5 => Stages'[k] \subseteq Stages[k]
                BY <1>3, <2>3, StageNames, StageNamesNext
            <4>3. Stages'[5] \subseteq Stages[5] \cup {made}
                BY <3>3, StageNames, StageNamesNext
            <4>4. \A a \in Stages'[5 + 1] : made < a
                BY <2>3, StageNamesNext
            <4>5. Staged(Stages, made) /\ 5 \in 1 .. 5
                BY DEF Flow
            <4> HIDE DEF Staged
            <4> QED BY <4>1, <4>2, <4>3, <4>4, <4>5, StagedMove
        <3>6. QueuesIncrease'
            BY <1>1, <2>2, <3>3 DEF Flow, QueuesIncrease
        <3>7. RawSum' = RawSum + 1
            BY <3>3 DEF RawSum
        <3>8. SamplesAccounted'
            BY <2>1, <2>4, <2>5, <2>6, <3>4, <3>7, Balance DEF Flow
        <3> QED BY <1>2, <2>1, <3>4, <3>5, <3>6, <3>8 DEF Flow, Staged
    <2>7. CASE refused' = refused + 1 /\ UNCHANGED raw
        <3>1. UNCHANGED <<rawq, rawLost>>
            BY <2>7 DEF raw
        <3>2. refused' \in Nat
            BY <2>7 DEF Flow, FlowTypes
        <3>3. FlowTypes'
            BY <1>1, <2>1, <3>1, <3>2 DEF Flow, FlowTypes
        <3>4. Staged(Stages', made)
            <4>1. \A k \in 1 .. 6 : Stages'[k] \subseteq Stages[k]
                BY <1>3, <2>3, <3>1, StageNames, StageNamesNext
            <4> QED BY <4>1, StagedLess DEF Flow
        <3>5. QueuesIncrease'
            BY <1>1, <3>1 DEF Flow, QueuesIncrease
        <3>6. UNCHANGED RawSum
            BY <3>1 DEF RawSum
        <3>7. SamplesAccounted'
            BY <2>1, <2>4, <2>5, <2>7, <3>3, <3>6, Balance DEF Flow
        <3> QED BY <1>2, <2>1, <3>3, <3>4, <3>5, <3>7 DEF Flow, Staged
    <2> QED BY <1>5, <2>6, <2>7 DEF CollectPush
<1>6. CASE CollectStop
    <2>1. /\ collect' # "push" /\ collect # "push"
          /\ UNCHANGED <<made, rawq, rawLost, refused>>
        BY <1>6 DEF CollectStop, raw
    <2> QED BY <1>1, <1>2, <2>1, NoFlow
<1> QED BY <1>4, <1>5, <1>6 DEF Collect

LEMMA ProcFlow == Control /\ Flow /\ Proc => Flow'
<1> SUFFICES ASSUME Control, Flow, Proc PROVE Flow'
    OBVIOUS
<1>1. UNCHANGED <<made, collect, store, storeBuf, db, failed>>
    BY DEF Proc, ProcCheck, ProcPop, ProcPush, Stq!Push, stq, table
<1>2. UNCHANGED <<StoreHand, CollectHand, Tried>> /\ Elems(db') = Elems(db)
    BY <1>1 DEF StoreHand, CollectHand, Tried
<1>3. store = "done" => procFlag
    BY DEF Control, FlagsInOrder
<1>4. Len(storeq) \in Nat
    BY FlowNats DEF Flow
<1>5. CASE /\ UNCHANGED <<rawq, rawLost, procBuf, storeq, storeLost, refused>>
           /\ proc # "push" /\ proc' # "push"
           /\ store = "done" /\ proc' = "pop" => proc = "pop"
    <2>1. LeftBehind'
        BY <1>1, <1>4, <1>5, LeftKept DEF Flow
    <2> QED BY <1>1, <1>5, <2>1, NoFlow
<1>6. CASE ProcPop /\ Raw!Pop("proc") /\ proc' = "push"
    <2>1. /\ proc = "pop" /\ rawq # <<>> /\ rawq' = Tail(rawq)
          /\ procBuf' = [procBuf EXCEPT !["proc"] = Head(rawq)]
          /\ UNCHANGED <<rawLost, storeq, storeLost, refused>>
        BY <1>6 DEF ProcPop, Raw!Pop, stq
    <2>2. rawq \in Seq(Ids) /\ Len(rawq) <= QueueCap
        BY DEF Flow, FlowTypes
    <2>3. /\ rawq' \in Seq(Ids) /\ Len(rawq') = Len(rawq) - 1 /\ Len(rawq) \in Nat
          /\ Head(rawq) \in Ids /\ Head(rawq) \in Elems(rawq)
          /\ Elems(rawq') \subseteq Elems(rawq)
          /\ Increasing(rawq) => /\ Increasing(rawq')
                                 /\ \A a \in Elems(rawq') : Head(rawq) < a
        BY <2>1, <2>2, PopList
    <2>4. procBuf'["proc"] = Head(rawq) /\ procBuf' \in [{"proc"} -> Ids \cup {0}]
        BY <2>1, <2>3 DEF Flow, FlowTypes
    <2>5. FlowTypes'
        <3>1. Len(rawq') <= QueueCap
            BY <2>2, <2>3, IdsAreNat
        <3> QED BY <1>1, <2>1, <2>3, <2>4, <3>1 DEF Flow, FlowTypes
    <2>6. Staged(Stages', made)
        <3>1. Head(rawq) \in Stages[4 + 1]
            BY <2>3, StageNames
        <3>2. \A k \in 1 .. 6 : k # 4 => Stages'[k] \subseteq Stages[k]
            BY <1>2, <2>1, <2>3, StageNames, StageNamesNext
        <3>3. Stages'[4] \subseteq Stages[4] \cup {Head(rawq)}
            BY <1>6, <2>4, StageNamesNext DEF ProcHand
        <3>4. \A a \in Stages'[4 + 1] : Head(rawq) < a
            BY <2>3, StageNamesNext DEF Flow, QueuesIncrease
        <3>5. Staged(Stages, made) /\ 4 \in 1 .. 5
            BY DEF Flow
        <3> HIDE DEF Staged
        <3> QED BY <3>1, <3>2, <3>3, <3>4, <3>5, StagedMove
    <2>7. QueuesIncrease'
        BY <1>1, <2>1, <2>3 DEF Flow, QueuesIncrease
    <2>8. LeftBehind'
        BY <1>1, <1>4, <2>1, LeftKept DEF Flow
    <2>9. SamplesAccounted'
        <3>1. Held' = Held + 1
            <4>1. ProcHeld' = ProcHeld + 1
                BY <1>6, <2>1 DEF ProcHeld
            <4> QED BY <1>1, <4>1, HeldChange
        <3>2. RawSum' = RawSum - 1
            <4> DEFINE a == Len(rawq)  b == Len(rawq')
            <4>1. /\ a \in Nat /\ b = a - 1 /\ rawLost \in Nat
                  /\ RawSum = a + rawLost /\ RawSum' = b + rawLost
                BY <2>1, <2>3 DEF RawSum, Flow, FlowTypes
            <4> HIDE DEF a, b
            <4>2. b + rawLost = a + rawLost - 1
                BY <4>1
            <4> QED BY <4>1, <4>2
        <3>3. UNCHANGED <<made, StoreSum, Tried, refused>>
            BY <1>1, <1>2, <2>1 DEF StoreSum
        <3> QED BY <2>5, <3>1, <3>2, <3>3, Balance DEF Flow
    <2> QED BY <1>1, <2>5, <2>6, <2>7, <2>8, <2>9 DEF Flow, Staged
<1>7. CASE ProcPush
    <2> DEFINE x == procBuf["proc"]
    <2>1. /\ proc = "push" /\ proc' = "check" /\ UNCHANGED <<rawq, rawLost, procBuf>>
          /\ ProcHand = {x} /\ ProcHand' = {}
        BY <1>7 DEF ProcPush, raw, ProcHand
    <2>2. x \in Ids /\ (\A a \in Elems(storeq) : a < x)
        <3>1. \A k \in 1 .. 6 : \A a \in Stages[k] : a \in Ids
            BY DEF Flow, Staged
        <3>2. \A a \in Stages[3], b \in Stages[4] : a < b
            BY DEF Flow, Staged
        <3> QED BY <2>1, <3>1, <3>2, StageNames
    <2>3. Held' = Held - 1
        <3>1. ProcHeld' = ProcHeld + (-1)
            BY <2>1 DEF ProcHeld
        <3> QED BY <1>1, <3>1, HeldDown
    <2>4. UNCHANGED <<made, RawSum, Tried>>
        BY <1>1, <1>2, <2>1 DEF RawSum
    <2>5. CASE Stq!Push(x) /\ UNCHANGED refused
        <3>1. IF Len(storeq) < QueueCap
              THEN storeq' = Append(storeq, x) /\ storeLost' = storeLost
              ELSE storeq' = Append(Tail(storeq), x) /\ storeLost' = storeLost + 1
            BY <2>5 DEF Stq!Push
        <3>2. storeq \in Seq(Ids) /\ Len(storeq) <= QueueCap /\ storeLost \in Nat
            BY DEF Flow, FlowTypes
        <3>3. /\ storeq' \in Seq(Ids) /\ Len(storeq') <= QueueCap /\ storeLost' \in Nat
              /\ Len(storeq') + storeLost' = Len(storeq) + storeLost + 1
              /\ Len(storeq) = 0 => Len(storeq') = 1
              /\ Elems(storeq') \subseteq Elems(storeq) \cup {x}
              /\ Increasing(storeq) /\ (\A a \in Elems(storeq) : a < x)
                     => Increasing(storeq')
            <4> HIDE DEF x
            <4> QED BY ZenonT(30), <2>2, <3>1, <3>2, PushList
        <3>4. FlowTypes'
            BY <1>1, <2>1, <2>5, <3>3 DEF Flow, FlowTypes
        <3>5. Staged(Stages', made)
            <4>1. x \in Stages[3 + 1]
                BY <2>1, StageNames
            <4>2. \A k \in 1 .. 6 : k # 3 => Stages'[k] \subseteq Stages[k]
                BY <1>2, <2>1, StageNames, StageNamesNext
            <4>3. Stages'[3] \subseteq Stages[3] \cup {x}
                BY <3>3, StageNames, StageNamesNext
            <4>4. \A a \in Stages'[3 + 1] : x < a
                BY <2>1, StageNamesNext
            <4>5. Staged(Stages, made) /\ 3 \in 1 .. 5
                BY DEF Flow
            <4> HIDE DEF Staged, x
            <4> QED BY <4>1, <4>2, <4>3, <4>4, <4>5, StagedMove
        <3>6. QueuesIncrease'
            BY <1>1, <2>1, <2>2, <3>3 DEF Flow, QueuesIncrease
        <3>7. LeftBehind'
            <4>1. store = "done" => Len(storeq) <= 0
                BY <2>1 DEF Flow, LeftBehind
            <4>2. store' = "done" => Len(storeq') = 1
                BY <1>1, <1>4, <3>3, <4>1
            <4> QED BY <2>1, <4>2 DEF LeftBehind
        <3>8. StoreSum' = StoreSum + 1
            BY <3>3 DEF StoreSum
        <3>9. SamplesAccounted'
            BY <2>3, <2>4, <2>5, <3>4, <3>8, Balance DEF Flow
        <3> QED BY <1>1, <3>4, <3>5, <3>6, <3>7, <3>9 DEF Flow, Staged
    <2>6. CASE refused' = refused + 1 /\ UNCHANGED stq
        <3>1. UNCHANGED <<storeq, storeLost>>
            BY <2>6 DEF stq
        <3>2. refused' \in Nat
            BY <2>6 DEF Flow, FlowTypes
        <3>3. FlowTypes'
            BY <1>1, <2>1, <3>1, <3>2 DEF Flow, FlowTypes
        <3>4. Staged(Stages', made)
            <4>1. \A k \in 1 .. 6 : Stages'[k] \subseteq Stages[k]
                BY <1>2, <2>1, <3>1, StageNames, StageNamesNext
            <4> QED BY <4>1, StagedLess DEF Flow
        <3>5. QueuesIncrease'
            BY <1>1, <2>1, <3>1 DEF Flow, QueuesIncrease
        <3>6. LeftBehind'
            BY <1>1, <1>4, <2>1, <3>1, LeftKept DEF Flow
        <3>7. UNCHANGED StoreSum
            BY <3>1 DEF StoreSum
        <3>8. SamplesAccounted'
            BY <2>3, <2>4, <2>6, <3>3, <3>7, Balance DEF Flow
        <3> QED BY <1>1, <3>3, <3>4, <3>5, <3>6, <3>8 DEF Flow, Staged
    <2> QED BY <1>7, <2>5, <2>6 DEF ProcPush
<1>8. CASE ProcCheck
    BY <1>3, <1>5, <1>8 DEF ProcCheck, raw, stq
<1>9. CASE ProcPop /\ proc' = "check" /\ UNCHANGED raw
    BY <1>5, <1>9 DEF ProcPop, raw, stq
<1> QED BY <1>6, <1>7, <1>8, <1>9 DEF Proc, ProcPop

LEMMA StoreFlow == Control /\ Flow /\ Store => Flow'
<1> SUFFICES ASSUME Control, Flow, Store PROVE Flow'
    OBVIOUS
<1>1. UNCHANGED <<made, collect, proc, rawq, rawLost, procBuf, refused>>
    BY DEF Store, StoreCheck, StorePop, StoreInsert, StoreDrain, raw
<1>2. UNCHANGED <<ProcHand, CollectHand, RawSum>> /\ Elems(rawq') = Elems(rawq)
    BY <1>1 DEF ProcHand, CollectHand, RawSum
<1>3. store # "done"
    BY DEF Store, StoreCheck, StorePop, StoreInsert, StoreDrain
<1>4. CASE /\ UNCHANGED <<storeq, storeLost, storeBuf, db, failed>>
           /\ store \notin {"insert", "drain insert"} /\ store' \notin {"insert", "drain insert"}
           /\ store' = "done" => storeq = <<>>
    <2>1. LeftBehind'
        <3>1. store' = "done" => Len(storeq') = 0
            BY <1>4
        <3> QED BY <3>1 DEF LeftBehind
    <2> QED BY <1>1, <1>4, <2>1, NoFlow
<1>5. CASE /\ Stq!Pop("store") /\ UNCHANGED table
           /\ store \notin {"insert", "drain insert"} /\ store' \in {"insert", "drain insert"}
    <2>1. /\ storeq # <<>> /\ storeq' = Tail(storeq)
          /\ storeBuf' = [storeBuf EXCEPT !["store"] = Head(storeq)]
          /\ UNCHANGED storeLost
        BY <1>5 DEF Stq!Pop
    <2>10. UNCHANGED <<db, failed, Tried>>
        BY <1>5 DEF table, Tried
    <2>2. storeq \in Seq(Ids) /\ Len(storeq) <= QueueCap
        BY DEF Flow, FlowTypes
    <2>3. /\ storeq' \in Seq(Ids) /\ Len(storeq') = Len(storeq) - 1 /\ Len(storeq) \in Nat
          /\ Head(storeq) \in Ids /\ Head(storeq) \in Elems(storeq)
          /\ Elems(storeq') \subseteq Elems(storeq)
          /\ Increasing(storeq) => /\ Increasing(storeq')
                                   /\ \A a \in Elems(storeq') : Head(storeq) < a
        BY <2>1, <2>2, PopList
    <2>4. storeBuf'["store"] = Head(storeq) /\ storeBuf' \in [{"store"} -> Ids \cup {0}]
        BY <2>1, <2>3 DEF Flow, FlowTypes
    <2>5. FlowTypes'
        <3>1. Len(storeq') <= QueueCap
            BY <2>2, <2>3, IdsAreNat
        <3> QED BY <1>1, <2>1, <2>3, <2>4, <2>10, <3>1 DEF Flow, FlowTypes
    <2>6. Staged(Stages', made)
        <3>1. Head(storeq) \in Stages[2 + 1]
            BY <2>3, StageNames
        <3>2. \A k \in 1 .. 6 : k # 2 => Stages'[k] \subseteq Stages[k]
            <4>1. Elems(db') = Elems(db)
                BY <2>10
            <4>2. Elems(storeq') \subseteq Elems(storeq)
                BY <2>3
            <4> QED BY <1>2, <4>1, <4>2, StageNames, StageNamesNext
        <3>3. Stages'[2] \subseteq Stages[2] \cup {Head(storeq)}
            BY <1>5, <2>4, StageNamesNext DEF StoreHand
        <3>4. \A a \in Stages'[2 + 1] : Head(storeq) < a
            BY <2>3, StageNamesNext DEF Flow, QueuesIncrease
        <3>5. Staged(Stages, made) /\ 2 \in 1 .. 5
            BY DEF Flow
        <3> HIDE DEF Staged
        <3> QED BY <3>1, <3>2, <3>3, <3>4, <3>5, StagedMove
    <2>7. QueuesIncrease'
        BY <1>1, <2>1, <2>3, <2>10 DEF Flow, QueuesIncrease
    <2>8. LeftBehind'
        BY <1>5 DEF LeftBehind
    <2>9. SamplesAccounted'
        <3>1. Held' = Held + 1
            <4>1. StoreHeld' = StoreHeld + 1
                <5>1. StoreHeld = 0
                    BY <1>5 DEF StoreHeld
                <5>2. StoreHeld' = 1
                    BY <1>5 DEF StoreHeld
                <5> QED BY <5>1, <5>2
            <4> QED BY <1>1, <4>1, HeldChange
        <3>2. StoreSum' = StoreSum - 1
            <4> DEFINE a == Len(storeq)  b == Len(storeq')
            <4>1. /\ a \in Nat /\ b = a - 1 /\ storeLost \in Nat
                  /\ StoreSum = a + storeLost /\ StoreSum' = b + storeLost
                BY <2>1, <2>3 DEF StoreSum, Flow, FlowTypes
            <4> HIDE DEF a, b
            <4>2. b + storeLost = a + storeLost - 1
                BY <4>1
            <4> QED BY <4>1, <4>2
        <3>3. UNCHANGED <<made, RawSum, Tried, refused>>
            BY <1>1, <1>2, <2>10
        <3> QED BY <2>5, <3>1, <3>2, <3>3, Balance DEF Flow
    <2> QED BY <1>1, <2>5, <2>6, <2>7, <2>8, <2>9 DEF Flow, Staged
<1>6. CASE StoreInsert
    <2> DEFINE x == storeBuf["store"]
    <2>1. /\ UNCHANGED <<storeq, storeLost, storeBuf>>
          /\ store \in {"insert", "drain insert"} /\ store' \in {"check", "drain"}
          /\ StoreHand = {x} /\ StoreHand' = {}
        BY <1>6 DEF StoreInsert, stq, StoreHand
    <2>2. StoreHand = {x} /\ StoreHand' = {} /\ Elems(storeq') = Elems(storeq)
        BY <2>1
    <2>3. LeftBehind'
        BY <2>1 DEF LeftBehind
    <2>4. Held' = Held - 1
        <3>1. StoreHeld' = StoreHeld + (-1)
            <4>1. StoreHeld = 1
                BY <2>1 DEF StoreHeld
            <4>2. StoreHeld' = 0
                BY <2>1 DEF StoreHeld
            <4> QED BY <4>1, <4>2
        <3> QED BY <1>1, <3>1, HeldDown
    <2>5. ASSUME FlowTypes', Tried' = Tried + 1 PROVE SamplesAccounted'
        <3>1. UNCHANGED <<made, RawSum, StoreSum, refused>>
            BY <1>1, <1>2, <2>1 DEF StoreSum
        <3> QED BY <2>4, <2>5, <3>1, Balance DEF Flow
    <2>6. CASE db' = Append(db, x) /\ UNCHANGED failed
        <3>1. x \in Ids /\ (\A a \in Elems(db) : a < x)
            <4>1. \A k \in 1 .. 6 : \A a \in Stages[k] : a \in Ids
                BY DEF Flow, Staged
            <4>2. \A a \in Stages[1], b \in Stages[2] : a < b
                BY DEF Flow, Staged
            <4> QED BY <2>2, <4>1, <4>2, StageNames
        <3>2. /\ db' \in Seq(Ids) /\ Len(db') = Len(db) + 1
              /\ Elems(db') \subseteq Elems(db) \cup {x}
              /\ Increasing(db) /\ (\A a \in Elems(db) : a < x) => Increasing(db')
            <4>1. db \in Seq(Ids)
                BY DEF Flow, FlowTypes
            <4> QED BY <2>6, <3>1, <4>1, AppendList
        <3>3. FlowTypes'
            BY <1>1, <2>1, <2>6, <3>2 DEF Flow, FlowTypes
        <3>4. Staged(Stages, made)'
            <4>1. x \in Stages[1 + 1]
                BY <2>2, StageNames
            <4>2. \A k \in 1 .. 6 : k # 1 => Stages'[k] \subseteq Stages[k]
                BY <1>2, <2>2, StageNames, StageNamesNext
            <4>3. Stages'[1] \subseteq Stages[1] \cup {x}
                BY <3>2, StageNames, StageNamesNext
            <4>4. \A a \in Stages'[1 + 1] : x < a
                BY <2>2, StageNamesNext
            <4>5. Staged(Stages, made) /\ 1 \in 1 .. 5
                BY DEF Flow
            <4>6. Staged(Stages', made)
                <5> HIDE DEF Staged, x
                <5> QED BY <4>1, <4>2, <4>3, <4>4, <4>5, StagedMove
            <4> QED BY <1>1, <4>6 DEF Staged
        <3>5. QueuesIncrease'
            BY <1>1, <2>1, <3>1, <3>2 DEF Flow, QueuesIncrease
        <3>6. Tried' = Tried + 1
            <4> DEFINE a == Len(db)  b == Len(db')
            <4>1. /\ a \in Nat /\ b = a + 1 /\ failed \in Nat
                  /\ Tried = a + failed /\ Tried' = b + failed
                BY <2>6, <3>2, FlowNats DEF Tried, Flow, FlowTypes
            <4> HIDE DEF a, b
            <4>2. b + failed = a + failed + 1
                BY <4>1
            <4> QED BY <4>1, <4>2
        <3> QED BY <2>3, <2>5, <3>3, <3>4, <3>5, <3>6 DEF Flow
    <2>7. CASE failed' = failed + 1 /\ UNCHANGED db
        <3>1. failed \in Nat /\ failed' \in Nat
            BY <2>7 DEF Flow, FlowTypes
        <3>2. FlowTypes'
            BY <1>1, <2>1, <2>7, <3>1 DEF Flow, FlowTypes
        <3>3. Staged(Stages, made)'
            <4>1. \A k \in 1 .. 6 : Stages'[k] \subseteq Stages[k]
                BY <1>2, <2>2, <2>7, StageNames, StageNamesNext
            <4>2. Staged(Stages', made)
                BY <4>1, StagedLess DEF Flow
            <4> QED BY <1>1, <4>2 DEF Staged
        <3>4. QueuesIncrease'
            BY <1>1, <2>1, <2>7 DEF Flow, QueuesIncrease
        <3>5. Tried' = Tried + 1
            <4> DEFINE a == Len(db)
            <4>1. a \in Nat /\ Tried = a + failed /\ Tried' = a + (failed + 1)
                BY <2>7, FlowNats DEF Tried, Flow
            <4> HIDE DEF a
            <4> QED BY <3>1, <4>1
        <3> QED BY <2>3, <2>5, <3>2, <3>3, <3>4, <3>5 DEF Flow
    <2> QED BY <1>6, <2>6, <2>7 DEF StoreInsert
<1>7. CASE StoreCheck
    BY <1>4, <1>7 DEF StoreCheck, stq, table
<1>8. CASE StorePop
    BY <1>4, <1>5, <1>8 DEF StorePop, stq, table
<1>9. CASE StoreDrain
    BY <1>4, <1>5, <1>9 DEF StoreDrain, stq, table
<1> QED BY <1>6, <1>7, <1>8, <1>9 DEF Store

(* main(), the upload thread and the signal handler move no sample. *)
LEMMA OtherFlow == Control /\ Flow /\ (UpStop \/ Main \/ Signal \/ UNCHANGED vars) => Flow'
<1> SUFFICES ASSUME Control, Flow, UpStop \/ Main \/ Signal \/ UNCHANGED vars PROVE Flow'
    OBVIOUS
<1>1. UNCHANGED <<made, rawq, rawLost, procBuf, storeq, storeLost, storeBuf, refused, db,
                failed>>
    <2>1. CASE MainShut
        BY <2>1 DEF MainShut, Raw!Close, Stq!Close, raw, stq, table
    <2>2. CASE ~MainShut
        BY <2>2 DEF Main, MainCreate, MainTell, MainJoin, MainAwait, MainFinish, UpStop,
                    Signal, vars, raw, stq, table
    <2> QED BY <2>1, <2>2
<1>2. /\ \/ UNCHANGED collect
         \/ collect = "none" /\ collect' = "check"
      /\ \/ UNCHANGED proc
         \/ proc = "none" /\ proc' = "check"
      /\ \/ UNCHANGED store
         \/ store = "none" /\ store' = "check"
    <2>1. CASE UNCHANGED <<collect, proc, store>>
        BY <2>1
    <2>2. ASSUME NEW t \in ThreadNames, MainCreate(t), Created(t)
          PROVE  /\ \/ UNCHANGED collect
                    \/ collect = "none" /\ collect' = "check"
                 /\ \/ UNCHANGED proc
                    \/ proc = "none" /\ proc' = "check"
                 /\ \/ UNCHANGED store
                    \/ store = "none" /\ store' = "check"
        <3>1. todo[1] = Create(t) /\ 1 \in 1 .. Len(todo)
            BY <2>2, FirstCommand DEF MainCreate
        <3>2. Turn(t) >= Turn(t)
            BY DEF Turn, ThreadNames
        <3>3. State(t) = "none"
            BY <3>1, <3>2 DEF Control, CreatesLeft
        <3>4. CASE t = "collect"
            BY <2>2, <3>3, <3>4 DEF Created, State
        <3>5. CASE t = "proc"
            BY <2>2, <3>3, <3>5 DEF Created, State
        <3>6. CASE t = "store"
            BY <2>2, <3>3, <3>6 DEF Created, State
        <3>7. CASE t = "up"
            BY <2>2, <3>7 DEF Created
        <3> QED BY <3>4, <3>5, <3>6, <3>7 DEF ThreadNames
    <2>3. \/ UNCHANGED threads
          \/ UpStop
          \/ \E t \in ThreadNames : MainCreate(t) /\ Created(t)
        BY DEF Main, MainCreate, MainTell, MainJoin, MainAwait, MainShut, MainFinish,
               Signal, vars
    <2>4. UNCHANGED threads \/ UpStop => UNCHANGED <<collect, proc, store>>
        BY DEF UpStop, threads
    <2> QED BY <2>1, <2>2, <2>3, <2>4
<1>3. /\ collect' = "push" <=> collect = "push"
      /\ proc' = "push" <=> proc = "push"
      /\ proc' \in {"pop", "push"} => proc \in {"pop", "push"}
      /\ store' \in {"insert", "drain insert"} <=> store \in {"insert", "drain insert"}
      /\ store' = "done" => store = "done"
    BY <1>2
<1>4. LeftBehind'
    BY <1>1, <1>3, LeftKept, FlowNats DEF Flow
<1> QED BY <1>1, <1>3, <1>4, NoFlow

-----------------------------------------------------------------------------
(* Samples keep their order, their number and their place in every         *)
(* reachable state.                                                        *)
THEOREM FlowInvariance == Spec => [](Control /\ Flow)
<1>1. Init => Flow
    BY InitFlow
<1>2. Control /\ Flow /\ [Next]_vars => Flow'
    BY CollectFlow, ProcFlow, StoreFlow, OtherFlow DEF Next
<1>3. Spec => []Control
    BY ControlInvariance
<1> QED BY <1>1, <1>2, <1>3, PTL DEF Spec

(* TypeOK: the type invariant of the pipeline. *)
THEOREM TypeCorrect == Spec => []TypeOK
<1>1. Control /\ Flow => TypeOK
    <2> SUFFICES ASSUME Control, Flow PROVE TypeOK
        OBVIOUS
    <2>1. Len(todo) <= Len(Start \o Stop(mode))
        <3>1. mode \in Modes /\ Len(todo) <= 16
            BY DEF Control, ControlTypes
        <3>2. Len(Start \o Stop(mode)) = Len(Stop(mode)) + 4 /\ Len(Stop(mode)) = 12
            BY <3>1, StartList
        <3> DEFINE a == Len(todo)  b == Len(Start \o Stop(mode))  c == Len(Stop(mode))
        <3>3. a <= 16 /\ b = c + 4 /\ c = 12
            BY <3>1, <3>2
        <3> HIDE DEF a, b, c
        <3>4. a <= b
            BY <3>3
        <3> QED BY <3>4 DEF a, b
    <2>2. made \in 0 .. MaxSamples
        BY DEF Flow, FlowTypes
    <2> QED BY <2>1, <2>2 DEF Control, ControlTypes, Flow, FlowTypes, TypeOK
<1> QED BY <1>1, FlowInvariance, PTL

(* SamplesAccounted: each sample made is in a queue, in a thread's hands,  *)
(* in the table, or counted: given up by a queue, or its INSERT failed.    *)
THEOREM NoSampleGoesMissing == Spec => []SamplesAccounted
<1>1. Flow => SamplesAccounted
    BY DEF Flow
<1> QED BY <1>1, FlowInvariance, PTL

(* StoredInOrder: the rows are in the order in which the samples were      *)
(* made, and no sample is stored twice.                                    *)
THEOREM RowsInOrder == Spec => []StoredInOrder
<1>1. Flow => StoredInOrder
    BY DEF Flow, QueuesIncrease, Increasing, StoredInOrder
<1> QED BY <1>1, FlowInvariance, PTL

(* LateSampleBounded: once main() has returned and the store thread has    *)
(* ended, one sample at most is left in its queue.                         *)
THEOREM OneSampleLate == Spec => []LateSampleBounded
<1>1. Flow => LateSampleBounded
    <2> SUFFICES ASSUME Flow, store = "done" PROVE Len(storeq) <= 1
        BY DEF LateSampleBounded
    <2>1. Len(storeq) \in Nat
        BY FlowNats DEF Flow
    <2>2. Len(storeq) <= (IF proc \in {"pop", "push"} THEN 0 ELSE 1)
        BY DEF Flow, LeftBehind
    <2> QED BY <2>1, <2>2
<1> QED BY <1>1, FlowInvariance, PTL

=============================================================================

-------------------------- MODULE InitScriptProofs --------------------------
(***************************************************************************)
(* What water-gateway.sh promises for every number of shells and runs: a   *)
(* gateway too many costs an overlapping or a broken-off run, and without  *)
(* either the pid file names the gateway that runs.                        *)
(*                                                                         *)
(* The inductive invariant keeps accounts.  A run under way owes a gateway *)
(* until it has launched one that lives; gateways and debts together never *)
(* exceed what the overlaps and the broken-off runs pay for, plus one, and *)
(* one more only while the pid file names a gateway and no run is past the *)
(* check that would see it.                                                *)
(***************************************************************************)
EXTENDS InitScript, FiniteSetTheorems, TLAPS

Busy == {s \in Shells : ~Idle(s)}

(* The run of s has launched a gateway that lives, and not yet named it. *)
Launched(s) == pc[s] = "write" /\ Runs(PID[s])
Owing == {s \in Busy : ~Launched(s)}

(* A run that leaves the pid file alone while the gateway it names lives. *)
Harmless(s) == \/ pc[s] \in {"start", "stop", "kill", "status"}
               \/ (pc[s] \in {"poll", "kill9"} /\ PID[s] = pidfile)
Guarded == Runs(pidfile) /\ \A s \in Busy : Harmless(s)

Due == Cardinality(Alive) + Cardinality(Owing)
Paid == (IF Busy = {} THEN 0 ELSE 1) + overlaps + aborts
Accounted == Due <= Paid \/ (Guarded /\ Due <= Paid + 1)

(* No two runs are about to write the pid of the same gateway. *)
WritersApart ==
    \A s \in Shells : pc[s] = "write" =>
        /\ PID[s] \in Procs /\ life[PID[s]] # "none"
        /\ \A t \in Shells \ {s} : pc[t] = "write" => PID[t] # PID[s]

(* A run is broken off once. *)
RunsCounted == aborts + Cardinality(Busy) <= commands

(* A shell without a command is at no line of the script. *)
IdleNowhere == \A s \in Shells : Idle(s) <=> pc[s] = ""

IInv == TypeOK /\ Accounted /\ WritersApart /\ RunsCounted /\ IdleNowhere

-----------------------------------------------------------------------------
(* Sizes.                                                                  *)

SizesOK == /\ IsFiniteSet(Alive) /\ IsFiniteSet(Busy) /\ IsFiniteSet(Owing)
           /\ Cardinality(Alive) \in Nat /\ Cardinality(Busy) \in Nat
           /\ Cardinality(Owing) \in Nat
           /\ Owing \subseteq Busy /\ Busy \subseteq Shells
           /\ commands \in Nat /\ overlaps \in Nat /\ aborts \in Nat
           /\ Due = Cardinality(Alive) + Cardinality(Owing)
           /\ Paid \in Nat
           /\ (Busy = {} => Paid = overlaps + aborts)
           /\ (Busy # {} => Paid = overlaps + aborts + 1)

LEMMA Sizes == TypeOK => SizesOK
<1> SUFFICES ASSUME TypeOK PROVE SizesOK
    OBVIOUS
<1>1. IsFiniteSet(Procs)
    BY ScriptAssumption, FS_Interval DEF Procs
<1>2. Alive \subseteq Procs /\ Busy \subseteq Shells /\ Owing \subseteq Busy
    BY DEF Alive, Busy, Owing
<1>3. IsFiniteSet(Alive) /\ IsFiniteSet(Busy) /\ IsFiniteSet(Owing)
    BY <1>1, <1>2, ScriptAssumption, FS_Subset
<1>4. commands \in Nat /\ overlaps \in Nat /\ aborts \in Nat
    <2>1. /\ commands \in 0 .. MaxCommands /\ overlaps \in 0 .. commands
          /\ aborts \in 0 .. commands
        BY DEF TypeOK
    <2>2. MaxCommands \in Nat
        BY ScriptAssumption
    <2> QED BY <2>1, <2>2
<1>5. /\ Cardinality(Alive) \in Nat /\ Cardinality(Busy) \in Nat
      /\ Cardinality(Owing) \in Nat
    BY <1>3, FS_CardinalityType
<1> QED BY <1>2, <1>3, <1>4, <1>5 DEF SizesOK, Due, Paid

LEMMA SizesNext == TypeOK' => SizesOK'
BY Sizes, PTL

(* A step that adds nothing to what is due and ends no run. *)
LEMMA StaysAccounted ==
    ASSUME TypeOK, TypeOK', Accounted, UNCHANGED <<overlaps, aborts>>, Busy' = Busy,
           \/ Due' < Due
           \/ (Due' = Due /\ (Guarded => Guarded'))
    PROVE  Accounted'
<1>1. Paid' = Paid /\ Paid \in Nat
    BY Sizes, SizesNext DEF Paid, SizesOK
<1>2. Due \in Nat /\ Due' \in Nat
    BY Sizes, SizesNext DEF SizesOK
<1> QED BY <1>1, <1>2 DEF Accounted

(* A run that ends and owed a gateway, or one that is broken off. *)
LEMMA EndsAccounted ==
    ASSUME TypeOK, TypeOK', Accounted, NEW s \in Busy,
           Busy' = Busy \ {s}, Alive' = Alive, Owing' = Owing \ {s},
           UNCHANGED overlaps,
           (Guarded => Guarded'), (Guarded => s \in Owing),
           \/ aborts' = aborts + 1
           \/ (aborts' = aborts /\ s \in Owing)
    PROVE  Accounted'
<1>1. Cardinality(Owing') = IF s \in Owing THEN Cardinality(Owing) - 1
                                           ELSE Cardinality(Owing)
    BY Sizes, FS_RemoveElement DEF SizesOK
<1>2. Due' = IF s \in Owing THEN Due - 1 ELSE Due
    BY <1>1, Sizes, SizesNext DEF SizesOK
<1>3. Paid = overlaps + aborts + 1 /\ Paid' >= overlaps + aborts'
    BY Sizes, SizesNext DEF SizesOK
<1>4. /\ Due \in Nat /\ Due' \in Nat /\ Paid' \in Nat
      /\ overlaps \in Nat /\ aborts \in Nat
    BY Sizes, SizesNext DEF SizesOK
<1>5. (Guarded => Guarded') /\ (Guarded => s \in Owing)
    OBVIOUS
<1>6. aborts' = aborts + 1 \/ (aborts' = aborts /\ s \in Owing)
    OBVIOUS
<1>7. ASSUME Due <= Paid
      PROVE  Due' <= Paid'
    <2>1. CASE s \in Owing
        BY <1>2, <1>3, <1>4, <1>6, <1>7, <2>1
    <2>2. CASE s \notin Owing
        BY <1>2, <1>3, <1>4, <1>6, <1>7, <2>2
    <2> QED BY <2>1, <2>2
<1>8. ASSUME s \in Owing, Due <= Paid + 1
      PROVE  Due' <= Paid' + 1
    <2> DEFINE due == Due'
               paid == Paid'
               broken == aborts'
    <2>1. due = Due - 1 /\ paid >= overlaps + broken
        BY <1>2, <1>3, <1>8
    <2>2. /\ due \in Nat /\ paid \in Nat /\ broken \in Nat /\ aborts <= broken
          /\ Due <= overlaps + aborts + 2
        BY <1>3, <1>4, <1>6, <1>8
    <2> HIDE DEF due, paid, broken
    <2>3. due <= paid + 1
        BY <1>4, <2>1, <2>2
    <2> QED BY <2>3 DEF due, paid
<1> QED BY <1>5, <1>7, <1>8 DEF Accounted

(* A gateway that dies: no more than one run owes for it again. *)
LEMMA DiesAccounted ==
    ASSUME TypeOK, TypeOK', Accounted, WritersApart, NEW p \in Procs, Runs(p),
           life' = [life EXCEPT ![p] = "dead"],
           UNCHANGED <<cmd, PID, overlaps, aborts>>,
           \A t \in Shells : pc[t] = "write" <=> pc'[t] = "write"
    PROVE  Accounted'
<1>1. \A q \in Procs : Runs(q)' <=> (Runs(q) /\ q # p)
    BY DEF Runs, TypeOK, Procs, NoPid
<1>2. Alive' = Alive \ {p} /\ p \in Alive
    BY <1>1 DEF Alive
<1>3. Busy' = Busy
    BY DEF Busy, Idle
<1>4. \A t \in Shells : Launched(t)' <=> (Launched(t) /\ PID[t] # p)
    BY <1>1 DEF Launched, WritersApart
<1>5. Cardinality(Alive') = Cardinality(Alive) - 1
    BY <1>2, Sizes, FS_RemoveElement DEF SizesOK
<1>6. CASE \E t \in Busy : Launched(t) /\ PID[t] = p
    <2>1. PICK t \in Busy : Launched(t) /\ PID[t] = p
        BY <1>6
    <2>2. \A u \in Busy : Launched(u) /\ PID[u] = p => u = t
        BY <2>1 DEF WritersApart, Launched, Busy
    <2>3. Owing' = Owing \cup {t} /\ t \notin Owing
        BY <1>3, <1>4, <2>1, <2>2 DEF Owing, Busy
    <2>4. Cardinality(Owing') = Cardinality(Owing) + 1
        BY <2>3, Sizes, FS_AddElement DEF SizesOK
    <2>5. Due' = Due
        BY <1>5, <2>4, Sizes, SizesNext DEF SizesOK
    <2>6. ~Harmless(t)
        BY <2>1 DEF Launched, Harmless
    <2>7. ~Guarded
        BY <2>1, <2>6 DEF Guarded
    <2> QED BY <1>3, <2>5, <2>7, StaysAccounted
<1>7. CASE ~\E t \in Busy : Launched(t) /\ PID[t] = p
    <2>1. Owing' = Owing
        BY <1>3, <1>4, <1>7 DEF Owing, Busy
    <2>2. Due' < Due
        BY <1>5, <2>1, Sizes, SizesNext DEF SizesOK
    <2> QED BY <1>3, <2>2, StaysAccounted
<1> QED BY <1>6, <1>7
-----------------------------------------------------------------------------
(* The types.                                                              *)

Pcs == {"", "start", "launch", "write", "stop", "kill", "poll", "kill9", "rm",
        "status", "status_rm"}

(* The shell's locals after a step of s to another line, or to its end. *)
ShellTypes ==
    /\ cmd \in [Shells -> DOMAIN First \cup {""}]
    /\ pc \in [Shells -> Pcs]
    /\ PID \in [Shells -> Procs \cup {NoPid}]
    /\ polls \in [Shells -> 0 .. Polls]

LEMMA GotoTypes ==
    ASSUME ShellTypes, NEW s \in Shells, NEW where \in Pcs, Goto(s, where)
    PROVE  ShellTypes'
BY DEF ShellTypes, Goto

LEMMA ReturnTypes ==
    ASSUME ShellTypes, NEW s \in Shells, Return(s)
    PROVE  ShellTypes'
<1>1. 0 \in 0 .. Polls /\ "" \in Pcs
    BY ScriptAssumption DEF Pcs
<1> QED BY <1>1 DEF ShellTypes, Return

LEMMA TypeParts ==
    TypeOK <=> /\ life \in [Procs -> {"none", "up", "stopping", "dead"}]
               /\ pidfile \in Procs \cup {NoPid}
               /\ ShellTypes
               /\ commands \in 0 .. MaxCommands /\ overlaps \in 0 .. commands
               /\ aborts \in 0 .. commands
BY DEF TypeOK, ShellTypes, Pcs

(* A run that is under way is counted among those begun and not broken off. *)
LEMMA AbortCounted ==
    ASSUME TypeOK, RunsCounted, NEW s \in Busy
    PROVE  aborts + 1 \in 0 .. commands
<1>1. Cardinality(Busy) # 0
    BY Sizes, FS_EmptySet DEF SizesOK
<1> QED BY <1>1, Sizes DEF SizesOK, RunsCounted

LEMMA TypeStep == TypeOK /\ RunsCounted /\ [Next]_vars => TypeOK'
<1> SUFFICES ASSUME TypeOK, RunsCounted, [Next]_vars PROVE TypeOK'
    OBVIOUS
<1> DEFINE Lives == {"none", "up", "stopping", "dead"}
<1>1. /\ life \in [Procs -> Lives] /\ pidfile \in Procs \cup {NoPid} /\ ShellTypes
      /\ commands \in 0 .. MaxCommands /\ overlaps \in 0 .. commands
      /\ aborts \in 0 .. commands
    BY TypeParts
<1>2. /\ commands \in Nat /\ overlaps \in Nat /\ aborts \in Nat /\ MaxCommands \in Nat
      /\ overlaps <= commands /\ aborts <= commands /\ commands <= MaxCommands
    BY <1>1, ScriptAssumption
<1>3. ASSUME NEW s \in Shells, NEW c \in DOMAIN First, Begin(s, c)
      PROVE  TypeOK'
    <2>1. /\ commands' = commands + 1 /\ commands < MaxCommands
          /\ overlaps' \in {overlaps, overlaps + 1} /\ aborts' = aborts
          /\ UNCHANGED <<life, pidfile, PID, polls>>
        BY <1>3 DEF Begin
    <2>2. commands' \in 0 .. MaxCommands /\ overlaps' \in 0 .. commands'
          /\ aborts' \in 0 .. commands'
        BY <1>2, <2>1
    <2>3. First[c] \in Pcs
        <3>1. c \in {"start", "stop", "restart", "status"}
            BY DEF First
        <3>2. First[c] \in {"start", "stop", "status"}
            BY <3>1 DEF First
        <3> QED BY <3>2 DEF Pcs
    <2>4. ShellTypes'
        BY <1>1, <1>3, <2>1, <2>3 DEF ShellTypes, Begin
    <2> QED BY <1>1, <2>1, <2>2, <2>4, TypeParts DEF TypeOK, ShellTypes, Pcs
<1>4. ASSUME NEW s \in Shells, Script(s)
      PROVE  TypeOK'
    <2>1. UNCHANGED counts
        BY <1>4 DEF Script, StartCheck, StartLaunch, StartWrite, StopCheck, StopKill,
                    StopPoll, StopKill9, StopRemove, StatusCheck, StatusRemove
    <2>2. commands' \in 0 .. MaxCommands /\ overlaps' \in 0 .. commands'
          /\ aborts' \in 0 .. commands'
        BY <1>1, <2>1 DEF counts
    <2>3. \/ UNCHANGED life
          \/ StartLaunch(s) \/ StopKill(s) \/ StopKill9(s)
        BY <1>4 DEF Script, StartCheck, StartWrite, StopCheck,
                    StopPoll, StopRemove, StatusCheck, StatusRemove
    <2>4. life' \in [Procs -> Lives]
        BY <1>1, <2>3 DEF StartLaunch, StopKill, StopKill9
    <2>5. pidfile' \in Procs \cup {NoPid}
        BY <1>1, <1>4 DEF Script, StartCheck, StartLaunch, StartWrite, StopCheck, StopKill,
                StopPoll, StopKill9, StopRemove, StatusCheck, StatusRemove, ShellTypes
    <2>6. ShellTypes'
        <3>1. \/ \E where \in Pcs : Goto(s, where)
              \/ Return(s)
              \/ StartLaunch(s) \/ StopKill(s)
              \/ (StopPoll(s) /\ polls[s] > 0 /\ polls' = [polls EXCEPT ![s] = @ - 1]
                              /\ UNCHANGED <<cmd, pc, PID>>)
            BY <1>4 DEF Script, StartCheck, StartWrite, StopCheck, StopPoll, StopKill9,
                        StopRemove, StatusCheck, StatusRemove, StopReturns, Pcs
        <3>2. CASE \E where \in Pcs : Goto(s, where)
            BY <1>1, <3>2, GotoTypes
        <3>3. CASE Return(s)
            BY <1>1, <3>3, ReturnTypes
        <3>4. CASE StartLaunch(s)
            BY ZenonT(30), <1>1, <3>4 DEF StartLaunch, ShellTypes, Pcs
        <3>5. CASE StopKill(s)
            <4>1. Polls \in 0 .. Polls
                BY ScriptAssumption
            <4> QED BY <1>1, <3>5, <4>1 DEF StopKill, ShellTypes, Pcs
        <3>6. CASE /\ polls[s] > 0 /\ polls' = [polls EXCEPT ![s] = @ - 1]
                   /\ UNCHANGED <<cmd, pc, PID>>
            <4>1. polls[s] \in 0 .. Polls /\ Polls \in Nat
                BY <1>1, ScriptAssumption DEF ShellTypes
            <4>2. polls[s] - 1 \in 0 .. Polls
                BY <3>6, <4>1
            <4> QED BY <1>1, <3>6, <4>2 DEF ShellTypes
        <3> QED BY <3>1, <3>2, <3>3, <3>4, <3>5, <3>6
    <2> QED BY <2>2, <2>4, <2>5, <2>6 DEF TypeOK, ShellTypes, Pcs
<1>5. ASSUME NEW s \in Shells, Abort(s)
      PROVE  TypeOK'
    <2>1. s \in Busy
        BY <1>5 DEF Abort, Busy
    <2>2. aborts' \in 0 .. commands'
        BY <1>5, <2>1, AbortCounted DEF Abort
    <2>3. ShellTypes'
        BY <1>1, <1>5, ReturnTypes DEF Abort
    <2> QED BY <1>1, <1>5, <2>2, <2>3 DEF TypeOK, ShellTypes, Pcs, Abort
<1>6. ASSUME NEW p \in Procs, Exit(p)
      PROVE  TypeOK'
    <2>1. life' \in [Procs -> Lives]
        BY <1>1, <1>6 DEF Exit
    <2> QED BY <1>1, <1>6, <2>1 DEF TypeOK, ShellTypes, Pcs, Exit, shell, counts
<1>7. CASE UNCHANGED vars
    BY <1>1, <1>7 DEF vars, TypeOK, ShellTypes, Pcs
<1> QED BY <1>3, <1>4, <1>5, <1>6, <1>7 DEF Next, Done

-----------------------------------------------------------------------------
(* The accounts.                                                           *)

Others == WritersApart /\ RunsCounted /\ IdleNowhere

(* A step of s between two lines, neither of them the writing of the pid,  *)
(* during which no gateway starts or dies.                                 *)
LEMMA Stays ==
    ASSUME IInv, TypeOK', NEW s \in Shells,
           pc[s] \notin {"", "write"}, pc'[s] \notin {"", "write"},
           UNCHANGED <<cmd, counts>>,
           \A t \in Shells \ {s} : pc'[t] = pc[t] /\ PID'[t] = PID[t],
           \A q \in Procs : /\ Runs(q)' <=> Runs(q)
                            /\ life'[q] = "none" <=> life[q] = "none"
    PROVE  /\ s \in Busy /\ Busy' = Busy /\ Owing' = Owing /\ Alive' = Alive
           /\ Others'
<1>1. IdleNowhere /\ WritersApart /\ RunsCounted /\ TypeOK
    BY DEF IInv
<1>2. s \in Busy /\ Busy' = Busy
    BY <1>1 DEF Busy, Idle, IdleNowhere
<1>3. Alive' = Alive
    BY DEF Alive
<1>4. \A t \in Shells : Launched(t)' <=> Launched(t)
    <2> SUFFICES ASSUME NEW t \in Shells
                 PROVE  Launched(t)' <=> Launched(t)
        OBVIOUS
    <2>1. CASE t = s
        BY <2>1 DEF Launched
    <2>2. CASE t # s
        <3>1. pc'[t] = pc[t] /\ PID'[t] = PID[t]
            BY <2>2
        <3>2. pc[t] = "write" => PID[t] \in Procs
            BY <1>1 DEF WritersApart
        <3>3. CASE pc[t] = "write"
            <4>1. PICK q \in Procs : q = PID[t]
                BY <3>2, <3>3
            <4>2. q = PID'[t] /\ pc'[t] = "write" /\ (Runs(q)' <=> Runs(q))
                BY <3>1, <3>3, <4>1
            <4>3. (Launched(t)' <=> Runs(q)') /\ (Launched(t) <=> Runs(q))
                BY <3>3, <4>1, <4>2 DEF Launched, Runs
            <4> QED BY <4>2, <4>3
        <3>4. CASE pc[t] # "write"
            BY <3>1, <3>4 DEF Launched
        <3> QED BY <3>3, <3>4
    <2> QED BY <2>1, <2>2
<1>5. Owing' = Owing
    BY <1>2, <1>4 DEF Owing, Busy
<1>6. WritersApart'
    BY ZenonT(30), <1>1 DEF WritersApart
<1>7. IdleNowhere'
    BY <1>1 DEF IdleNowhere, Idle
<1>8. RunsCounted'
    BY <1>1, <1>2 DEF RunsCounted, counts
<1> QED BY <1>2, <1>3, <1>5, <1>6, <1>7, <1>8 DEF Others

(* A run that ends. *)
LEMMA Ends ==
    ASSUME IInv, TypeOK', NEW s \in Shells, ~Idle(s), Return(s),
           UNCHANGED <<life, commands>>,
           aborts' = aborts \/ aborts' = aborts + 1
    PROVE  /\ s \in Busy /\ Busy' = Busy \ {s} /\ Owing' = Owing \ {s}
           /\ Alive' = Alive /\ Others'
           /\ UNCHANGED pidfile => (Guarded => Guarded')
<1>1. /\ TypeOK /\ IdleNowhere /\ WritersApart /\ RunsCounted
    BY DEF IInv
<1>2. /\ cmd'[s] = "" /\ pc'[s] = ""
      /\ \A t \in Shells \ {s} : cmd'[t] = cmd[t] /\ pc'[t] = pc[t] /\ PID'[t] = PID[t]
    BY ZenonT(30), <1>1 DEF Return, TypeOK
<1>3. s \in Busy /\ Busy' = Busy \ {s}
    BY <1>2 DEF Busy, Idle
<1>4. Alive' = Alive
    BY DEF Alive, Runs
<1>5. Owing' = Owing \ {s}
    BY <1>2, <1>3 DEF Owing, Launched, Runs, Busy
<1>6. WritersApart'
    BY ZenonT(30), <1>1, <1>2 DEF WritersApart
<1>7. IdleNowhere'
    BY <1>1, <1>2 DEF IdleNowhere, Idle
<1>8. RunsCounted'
    <2>1. Cardinality(Busy') = Cardinality(Busy) - 1
        BY <1>1, <1>3, Sizes, FS_RemoveElement DEF SizesOK
    <2>2. Cardinality(Busy) \in Nat /\ aborts \in Nat /\ commands \in Nat
        BY <1>1, Sizes DEF SizesOK
    <2>3. aborts + Cardinality(Busy) <= commands
        BY <1>1 DEF RunsCounted
    <2>4. CASE aborts' = aborts
        BY <2>1, <2>2, <2>3, <2>4 DEF RunsCounted
    <2>5. CASE aborts' = aborts + 1
        BY <2>1, <2>2, <2>3, <2>5 DEF RunsCounted
    <2> QED BY <2>4, <2>5
<1>9. UNCHANGED pidfile => (Guarded => Guarded')
    BY <1>2, <1>3 DEF Guarded, Harmless, Runs, Busy
<1> QED BY <1>3, <1>4, <1>5, <1>6, <1>7, <1>8, <1>9 DEF Others

(* A run that ends before it launched a gateway. *)
LEMMA EndsOwing ==
    ASSUME IInv, TypeOK', NEW s \in Shells, pc[s] \notin {"", "write"}, Return(s),
           UNCHANGED <<life, pidfile, counts>>
    PROVE  IInv'
<1>1. ~Idle(s)
    BY DEF IInv, IdleNowhere
<1>2. /\ s \in Busy /\ Busy' = Busy \ {s} /\ Owing' = Owing \ {s}
      /\ Alive' = Alive /\ Others' /\ (Guarded => Guarded')
    BY <1>1, Ends DEF counts
<1>3. s \in Owing
    BY <1>2 DEF Owing, Launched
<1>4. Accounted'
    BY <1>2, <1>3, EndsAccounted DEF IInv, counts
<1> QED BY <1>2, <1>4 DEF IInv, Others

LEMMA BeginStep ==
    ASSUME IInv, TypeOK', NEW s \in Shells, NEW c \in DOMAIN First, Begin(s, c)
    PROVE  IInv'
<1>1. /\ TypeOK /\ IdleNowhere /\ WritersApart /\ RunsCounted /\ Accounted
    BY DEF IInv
<1>2. First[c] \in {"start", "stop", "status"} /\ c # ""
    <2>1. c \in {"start", "stop", "restart", "status"}
        BY DEF First
    <2>2. First[c] \in {"start", "stop", "status"}
        BY <2>1 DEF First
    <2> QED BY <2>1, <2>2
<1>3. /\ s \notin Busy /\ cmd'[s] = c /\ pc'[s] = First[c] /\ aborts' = aborts
      /\ commands' = commands + 1 /\ UNCHANGED <<life, pidfile, PID>>
      /\ \A t \in Shells \ {s} : cmd'[t] = cmd[t] /\ pc'[t] = pc[t]
    BY ZenonT(30), <1>1 DEF Begin, TypeOK, Busy
<1>4. Busy' = Busy \cup {s} /\ Alive' = Alive
    BY <1>2, <1>3 DEF Busy, Idle, Alive, Runs
<1>5. Owing' = Owing \cup {s} /\ s \notin Owing
    BY <1>2, <1>3, <1>4 DEF Owing, Launched, Runs, Busy
<1>6. WritersApart' /\ IdleNowhere'
    BY ZenonT(30), <1>1, <1>2, <1>3 DEF WritersApart, IdleNowhere, Idle
<1>7. /\ Cardinality(Busy') = Cardinality(Busy) + 1
      /\ Cardinality(Owing') = Cardinality(Owing) + 1
    BY <1>1, <1>3, <1>4, <1>5, Sizes, FS_AddElement DEF SizesOK
<1>8. RunsCounted'
    BY <1>1, <1>3, <1>7, Sizes DEF RunsCounted, SizesOK
<1>9. Due' = Due + 1 /\ Paid' = Paid + 1
    <2>1. Due' = Due + 1
        BY <1>1, <1>4, <1>7, Sizes, SizesNext DEF SizesOK
    <2>2. Busy' # {} /\ Paid' = overlaps' + aborts' + 1
        BY <1>4, SizesNext DEF SizesOK
    <2>3. CASE Busy = {}
        <3>1. \A t \in Shells : Idle(t)
            BY <2>3 DEF Busy
        <3>2. overlaps' = overlaps /\ Paid = overlaps + aborts
            BY <1>1, <2>3, <3>1, Sizes DEF Begin, SizesOK
        <3> QED BY <1>1, <1>3, <2>1, <2>2, <3>2
    <2>4. CASE Busy # {}
        <3>1. ~\A t \in Shells : Idle(t)
            BY <2>4 DEF Busy
        <3>2. overlaps' = overlaps + 1 /\ Paid = overlaps + aborts + 1
            BY <1>1, <2>4, <3>1, Sizes DEF Begin, SizesOK
        <3>3. overlaps + 1 + aborts + 1 = overlaps + aborts + 1 + 1
            BY <1>1, Sizes DEF SizesOK
        <3> QED BY <1>1, <1>3, <2>1, <2>2, <3>2, <3>3
    <2> QED BY <2>3, <2>4
<1>10. Guarded => Guarded'
    BY <1>2, <1>3, <1>4 DEF Guarded, Harmless, Runs, Busy
<1>11. Accounted'
    <2>1. Due \in Nat /\ Paid \in Nat
        BY <1>1, Sizes DEF SizesOK
    <2>2. (Due <= Paid => Due' <= Paid') /\ (Due <= Paid + 1 => Due' <= Paid' + 1)
        BY <1>9, <2>1
    <2> QED BY <1>1, <1>10, <2>2 DEF Accounted
<1> QED BY <1>6, <1>8, <1>11 DEF IInv

(* start, to the launch or to its end; and status. *)
LEMMA CheckStep ==
    ASSUME IInv, TypeOK', NEW s \in Shells, StartCheck(s) \/ StatusCheck(s)
    PROVE  IInv'
<1>1. /\ pc[s] \in {"start", "status"} /\ UNCHANGED <<life, pidfile, counts>>
      /\ \/ Runs(pidfile) /\ Return(s)
         \/ ~Runs(pidfile) /\ Goto(s, "launch")
         \/ ~Runs(pidfile) /\ Goto(s, "status_rm")
    BY DEF StartCheck, StatusCheck
<1>2. CASE Return(s)
    BY <1>1, <1>2, EndsOwing
<1>3. CASE ~Runs(pidfile) /\ (Goto(s, "launch") \/ Goto(s, "status_rm"))
    <2>1. /\ pc'[s] \in {"launch", "status_rm"} /\ UNCHANGED <<cmd, counts>>
          /\ \A t \in Shells \ {s} : pc'[t] = pc[t] /\ PID'[t] = PID[t]
        BY <1>1, <1>3 DEF Goto, IInv, TypeOK
    <2>2. Busy' = Busy /\ Owing' = Owing /\ Alive' = Alive /\ Others'
        BY <1>1, <2>1, Stays DEF Runs
    <2>3. Due' = Due /\ ~Guarded
        BY <1>3, <2>2 DEF Due, Guarded
    <2> QED BY <1>1, <2>2, <2>3, StaysAccounted DEF IInv, Others, counts
<1> QED BY <1>1, <1>2, <1>3

LEMMA LaunchStep ==
    ASSUME IInv, TypeOK', NEW s \in Shells, StartLaunch(s)
    PROVE  IInv'
<1>1. /\ TypeOK /\ IdleNowhere /\ WritersApart /\ RunsCounted /\ Accounted
    BY DEF IInv
<1>2. PICK p \in Procs : /\ life[p] = "none" /\ life' = [life EXCEPT ![p] = "up"]
                         /\ PID' = [PID EXCEPT ![s] = p]
    BY DEF StartLaunch
<1>3. /\ pc[s] = "launch" /\ pc'[s] = "write" /\ PID'[s] = p
      /\ UNCHANGED <<pidfile, cmd, commands, overlaps, aborts>>
      /\ \A t \in Shells \ {s} : pc'[t] = pc[t] /\ PID'[t] = PID[t]
      /\ life'[p] = "up" /\ \A q \in Procs \ {p} : life'[q] = life[q]
    BY ZenonT(30), <1>1, <1>2 DEF StartLaunch, TypeOK, counts
<1>4. s \in Busy /\ Busy' = Busy
    BY <1>1, <1>3 DEF Busy, Idle, IdleNowhere
<1>5. p # NoPid
    BY DEF Procs, NoPid
<1>6. /\ Runs(p)' /\ ~Runs(p)
      /\ \A q \in Procs \ {p} : Runs(q)' <=> Runs(q)
    BY <1>2, <1>3, <1>5 DEF Runs
<1>7. Alive' = Alive \cup {p} /\ p \notin Alive
    BY <1>6 DEF Alive
<1>8. \A t \in Shells \ {s} : pc[t] = "write" => PID[t] \in Procs \ {p}
    BY <1>1, <1>2 DEF WritersApart
<1>9. \A t \in Shells \ {s} : Launched(t)' <=> Launched(t)
    BY <1>3, <1>8 DEF Launched, Runs
<1>10. Launched(s)' /\ ~Launched(s)
    BY <1>3, <1>6 DEF Launched, Runs
<1>11. Owing' = Owing \ {s} /\ s \in Owing
    BY <1>4, <1>9, <1>10 DEF Owing, Busy
<1>12. Due' = Due
    <2>1. /\ Cardinality(Alive') = Cardinality(Alive) + 1
          /\ Cardinality(Owing') = Cardinality(Owing) - 1
        BY <1>1, <1>7, <1>11, Sizes, FS_AddElement, FS_RemoveElement DEF SizesOK
    <2> QED BY <1>1, <2>1, Sizes, SizesNext DEF SizesOK
<1>13. ~Guarded
    BY <1>3, <1>4 DEF Guarded, Harmless
<1>14. Accounted'
    BY <1>1, <1>3, <1>4, <1>12, <1>13, StaysAccounted
<1>15. WritersApart'
    <2> SUFFICES ASSUME NEW t \in Shells, pc'[t] = "write"
                 PROVE  /\ PID'[t] \in Procs /\ life'[PID'[t]] # "none"
                        /\ \A u \in Shells \ {t} : pc'[u] = "write" => PID'[u] # PID'[t]
        BY DEF WritersApart
    <2>1. CASE t = s
        BY <1>2, <1>3, <1>8, <2>1
    <2>2. CASE t # s
        <3>1. PID'[t] = PID[t] /\ PID[t] \in Procs \ {p} /\ pc[t] = "write"
            BY <1>3, <1>8, <2>2
        <3>2. life'[PID'[t]] # "none"
            BY <1>1, <1>3, <3>1 DEF WritersApart
        <3>3. ASSUME NEW u \in Shells \ {t}, pc'[u] = "write"
              PROVE  PID'[u] # PID'[t]
            BY <1>1, <1>3, <3>1, <3>3 DEF WritersApart
        <3> QED BY <3>1, <3>2, <3>3
    <2> QED BY <2>1, <2>2
<1>16. IdleNowhere' /\ RunsCounted'
    BY <1>1, <1>3, <1>4 DEF IdleNowhere, Idle, RunsCounted
<1> QED BY <1>14, <1>15, <1>16 DEF IInv

LEMMA WriteStep ==
    ASSUME IInv, TypeOK', NEW s \in Shells, StartWrite(s)
    PROVE  IInv'
<1>1. TypeOK /\ IdleNowhere /\ WritersApart /\ Accounted
    BY DEF IInv
<1>2. /\ pc[s] = "write" /\ pidfile' = PID[s] /\ Return(s)
      /\ UNCHANGED <<life, commands, overlaps, aborts>>
    BY DEF StartWrite, counts
<1>3. ~Idle(s)
    BY <1>1, <1>2 DEF IdleNowhere
<1>4. /\ s \in Busy /\ Busy' = Busy \ {s} /\ Owing' = Owing \ {s}
      /\ Alive' = Alive /\ Others'
    BY <1>2, <1>3, Ends
<1>5. ~Guarded
    BY <1>2, <1>4 DEF Guarded, Harmless
<1>6. Accounted'
    <2>1. CASE ~Runs(PID[s])
        <3>1. s \in Owing
            BY <1>4, <2>1 DEF Owing, Launched
        <3> QED BY <1>1, <1>2, <1>4, <1>5, <3>1, EndsAccounted
    <2>2. CASE Runs(PID[s])
        <3>1. Owing' = Owing
            BY <1>2, <1>4, <2>2 DEF Owing, Launched
        <3>2. Due' = Due /\ Due <= Paid /\ Paid = overlaps + aborts + 1
            BY <1>1, <1>4, <1>5, <3>1, Sizes DEF Due, Accounted, SizesOK
        <3>3. CASE Busy' = {}
            <4>1. Guarded'
                BY <1>2, <2>2, <3>3 DEF Guarded, Runs
            <4>2. Paid' + 1 = Paid
                BY <1>1, <1>2, <3>2, <3>3, SizesNext DEF SizesOK
            <4>3. Due' <= Paid' + 1
                BY <3>2, <4>2
            <4> QED BY <4>1, <4>3 DEF Accounted
        <3>4. CASE Busy' # {}
            <4>1. Paid' = Paid
                BY <1>1, <1>2, <3>2, <3>4, SizesNext DEF SizesOK
            <4> QED BY <3>2, <4>1 DEF Accounted
        <3> QED BY <3>3, <3>4
    <2> QED BY <2>1, <2>2
<1> QED BY <1>4, <1>6 DEF IInv, Others

(* A run that ends, or goes on with start, after it removed the pid file.  *)
LEMMA RemoveStep ==
    ASSUME IInv, TypeOK', NEW s \in Shells, StopRemove(s) \/ StatusRemove(s)
    PROVE  IInv'
<1>1. TypeOK /\ IdleNowhere /\ Accounted
    BY DEF IInv
<1>2. /\ pc[s] \in {"rm", "status_rm"} /\ (Return(s) \/ Goto(s, "start"))
      /\ UNCHANGED <<life, commands, overlaps, aborts>>
    BY DEF StopRemove, StatusRemove, StopReturns, counts
<1>3. ~Idle(s) /\ s \in Busy
    BY <1>1, <1>2 DEF IdleNowhere, Busy
<1>4. ~Guarded
    BY <1>2, <1>3 DEF Guarded, Harmless
<1>5. CASE Return(s)
    <2>1. /\ Busy' = Busy \ {s} /\ Owing' = Owing \ {s} /\ Alive' = Alive /\ Others'
        BY <1>2, <1>3, <1>5, Ends
    <2>2. s \in Owing
        BY <1>2, <1>3 DEF Owing, Launched
    <2>3. Accounted'
        BY <1>1, <1>2, <1>3, <1>4, <2>1, <2>2, EndsAccounted
    <2> QED BY <2>1, <2>3 DEF IInv, Others
<1>6. CASE Goto(s, "start")
    <2>1. /\ pc'[s] = "start" /\ UNCHANGED <<cmd, PID>>
          /\ \A t \in Shells \ {s} : pc'[t] = pc[t]
        BY <1>1, <1>6 DEF Goto, TypeOK
    <2>2. Busy' = Busy /\ Owing' = Owing /\ Alive' = Alive /\ Others'
        BY <1>2, <2>1, Stays DEF Runs, counts
    <2>3. Due' = Due
        BY <2>2 DEF Due
    <2> QED BY <1>1, <1>2, <1>4, <2>2, <2>3, StaysAccounted DEF IInv, Others
<1> QED BY <1>2, <1>5, <1>6

(* The test of stop, its kill and its loop, up to kill -9. *)
LEMMA StopStep ==
    ASSUME IInv, TypeOK', NEW s \in Shells,
           StopCheck(s) \/ StopKill(s) \/ StopPoll(s)
    PROVE  IInv'
<1>1. TypeOK /\ IdleNowhere /\ WritersApart /\ Accounted
    BY DEF IInv
<1>2. /\ pc[s] \in {"stop", "kill", "poll"}
      /\ pc'[s] \in {"kill", "poll", "kill9", "rm"}
      /\ UNCHANGED <<pidfile, cmd, counts>>
      /\ \A t \in Shells \ {s} : pc'[t] = pc[t] /\ PID'[t] = PID[t]
    BY ZenonT(30), <1>1 DEF StopCheck, StopKill, StopPoll, Goto, TypeOK
<1>3. \A q \in Procs : /\ life'[q] = life[q] \/ (life[q] = "up" /\ life'[q] = "stopping")
                       /\ life[q] \in {"none", "up", "stopping", "dead"}
    <2>1. life \in [Procs -> {"none", "up", "stopping", "dead"}]
        BY <1>1 DEF TypeOK
    <2>2. CASE life' = life
        BY <2>1, <2>2
    <2>3. CASE StopKill(s)
        <3>1. life' = [q \in Procs |-> IF q = pidfile /\ life[q] = "up"
                                       THEN "stopping" ELSE life[q]]
            BY <2>3 DEF StopKill
        <3> QED BY <2>1, <3>1
    <2> QED BY <2>2, <2>3 DEF StopCheck, StopPoll
<1>4. \A q \in Procs : /\ Runs(q)' <=> Runs(q)
                       /\ life'[q] = "none" <=> life[q] = "none"
    BY <1>3 DEF Runs
<1>5. s \in Busy /\ Busy' = Busy /\ Owing' = Owing /\ Alive' = Alive /\ Others'
    BY <1>2, <1>4, Stays
<1>6. Guarded => Guarded'
    <2> SUFFICES ASSUME Guarded PROVE Guarded'
        OBVIOUS
    <2>1. Runs(pidfile) /\ pidfile \in Procs /\ Harmless(s)
        BY <1>1, <1>5 DEF Guarded, TypeOK, Runs
    <2>2. Runs(pidfile)'
        BY <1>2, <1>3, <2>1 DEF Runs
    <2>3. Harmless(s)'
        <3>1. CASE StopCheck(s)
            BY <1>1, <2>1, <3>1 DEF StopCheck, Goto, Harmless, TypeOK
        <3>2. CASE StopKill(s)
            BY <1>1, <1>2, <2>1, <3>2 DEF StopKill, Harmless, TypeOK
        <3>3. CASE StopPoll(s)
            <4>1. PID[s] = pidfile /\ pc[s] = "poll"
                BY <2>1, <3>3 DEF StopPoll, Harmless
            <4>2. PID' = PID /\ pc'[s] \in {"poll", "kill9"}
                BY <1>1, <2>1, <3>3, <4>1 DEF StopPoll, Goto, TypeOK
            <4> QED BY <1>2, <4>1, <4>2 DEF Harmless
        <3> QED BY <3>1, <3>2, <3>3
    <2>4. \A t \in Busy \ {s} : Harmless(t)'
        BY <1>2 DEF Guarded, Harmless, Busy
    <2> QED BY <1>5, <2>2, <2>3, <2>4 DEF Guarded
<1>7. Due' = Due
    BY <1>5 DEF Due
<1> QED BY <1>1, <1>2, <1>5, <1>6, <1>7, StaysAccounted DEF IInv, Others, counts

LEMMA Kill9Step ==
    ASSUME IInv, TypeOK', NEW s \in Shells, StopKill9(s)
    PROVE  IInv'
<1>1. TypeOK /\ IdleNowhere /\ WritersApart /\ RunsCounted /\ Accounted
    BY DEF IInv
<1>2. /\ pc[s] = "kill9" /\ pc'[s] = "rm"
      /\ UNCHANGED <<pidfile, cmd, PID, commands, overlaps, aborts>>
      /\ \A t \in Shells \ {s} : pc'[t] = pc[t]
      /\ life' = [q \in Procs |-> IF q = PID[s] /\ Runs(q) THEN "dead" ELSE life[q]]
    BY <1>1 DEF StopKill9, Goto, TypeOK, counts
<1>3. CASE Runs(PID[s])
    <2>1. PID[s] \in Procs /\ life' = [life EXCEPT ![PID[s]] = "dead"]
        <3>1. /\ PID[s] \in Procs
              /\ life \in [Procs -> {"none", "up", "stopping", "dead"}]
            BY <1>1, <1>3 DEF Runs, TypeOK
        <3>2. \A q \in Procs : life'[q] = IF q = PID[s] THEN "dead" ELSE life[q]
            BY <1>2, <1>3
        <3>3. life' = [q \in Procs |-> IF q = PID[s] THEN "dead" ELSE life[q]]
            BY <1>2, <1>3
        <3> QED BY <3>1, <3>3
    <2>2. Busy' = Busy
        BY <1>2 DEF Busy, Idle
    <2>3. Accounted'
        BY <1>1, <1>2, <1>3, <2>1, DiesAccounted
    <2>4. WritersApart' /\ IdleNowhere' /\ RunsCounted'
        BY <1>1, <1>2, <2>2 DEF WritersApart, IdleNowhere, Idle, RunsCounted
    <2> QED BY <2>3, <2>4 DEF IInv
<1>4. CASE ~Runs(PID[s])
    <2>1. life' = life
        BY <1>1, <1>2, <1>4 DEF TypeOK
    <2>2. s \in Busy /\ Busy' = Busy /\ Owing' = Owing /\ Alive' = Alive /\ Others'
        BY <1>2, <2>1, Stays DEF Runs, counts
    <2>3. ~Guarded
        BY <1>2, <1>4, <2>2 DEF Guarded, Harmless
    <2>4. Due' = Due
        BY <2>2 DEF Due
    <2> QED BY <1>1, <1>2, <2>2, <2>3, <2>4, StaysAccounted DEF IInv, Others
<1> QED BY <1>3, <1>4

LEMMA AbortStep ==
    ASSUME IInv, TypeOK', NEW s \in Shells, Abort(s)
    PROVE  IInv'
<1>1. /\ Busy' = Busy \ {s} /\ Owing' = Owing \ {s} /\ Alive' = Alive
      /\ Others' /\ s \in Busy /\ (Guarded => Guarded')
    BY Ends DEF Abort
<1>2. Guarded => s \in Owing
    BY <1>1 DEF Guarded, Harmless, Owing, Launched
<1>3. Accounted'
    BY <1>1, <1>2, EndsAccounted DEF IInv, Abort
<1> QED BY <1>1, <1>3 DEF IInv, Others

LEMMA ExitStep ==
    ASSUME IInv, TypeOK', NEW p \in Procs, Exit(p)
    PROVE  IInv'
<1>1. TypeOK /\ IdleNowhere /\ WritersApart /\ RunsCounted /\ Accounted
    BY DEF IInv
<1>2. /\ Runs(p) /\ life' = [life EXCEPT ![p] = "dead"]
      /\ UNCHANGED <<pidfile, cmd, pc, PID, commands, overlaps, aborts>>
    BY DEF Exit, shell, counts
<1>3. Accounted'
    BY <1>1, <1>2, DiesAccounted
<1>4. Busy' = Busy
    BY <1>2 DEF Busy, Idle
<1>5. WritersApart' /\ IdleNowhere' /\ RunsCounted'
    BY <1>1, <1>2, <1>4 DEF WritersApart, IdleNowhere, Idle, RunsCounted, TypeOK
<1> QED BY <1>3, <1>5 DEF IInv

LEMMA InitIInv == Init => IInv
<1> SUFFICES ASSUME Init PROVE IInv
    OBVIOUS
<1>1. Busy = {} /\ Alive = {} /\ Owing = {}
    BY DEF Init, Busy, Alive, Owing, Idle, Runs
<1>2. TypeOK
    <2>1. /\ 0 \in 0 .. Polls /\ 0 \in 0 .. MaxCommands /\ 0 \in 0 .. 0
        BY ScriptAssumption
    <2>2. ShellTypes
        BY <2>1 DEF Init, ShellTypes, Pcs
    <2>3. /\ life \in [Procs -> {"none", "up", "stopping", "dead"}]
          /\ pidfile \in Procs \cup {NoPid}
          /\ commands = 0 /\ overlaps = 0 /\ aborts = 0
        BY DEF Init
    <2> QED BY <2>1, <2>2, <2>3, TypeParts
<1>3. Accounted /\ RunsCounted
    <2>1. Cardinality(Alive) = 0 /\ Cardinality(Busy) = 0 /\ Cardinality(Owing) = 0
        BY <1>1, FS_EmptySet
    <2>2. commands = 0 /\ overlaps = 0 /\ aborts = 0
        BY DEF Init
    <2> QED BY <1>1, <2>1, <2>2 DEF Accounted, Due, Paid, RunsCounted
<1>4. WritersApart /\ IdleNowhere
    BY DEF Init, WritersApart, IdleNowhere, Idle
<1> QED BY <1>2, <1>3, <1>4 DEF IInv

LEMMA NextStep == IInv /\ [Next]_vars => IInv'
<1> SUFFICES ASSUME IInv, [Next]_vars PROVE IInv'
    OBVIOUS
<1>1. TypeOK'
    BY TypeStep DEF IInv
<1>2. ASSUME NEW s \in Shells, Script(s)
      PROVE  IInv'
    BY <1>1, <1>2, CheckStep, LaunchStep, WriteStep, StopStep, Kill9Step, RemoveStep
       DEF Script
<1>3. CASE UNCHANGED vars
    BY <1>3 DEF vars, IInv, TypeOK, Accounted, Due, Paid, Guarded, Harmless, Alive, Owing,
                Launched, Runs, Busy, Idle, WritersApart, RunsCounted, IdleNowhere
<1> QED BY <1>1, <1>2, <1>3, BeginStep, AbortStep, ExitStep DEF Next, Done

(* The inductive invariant holds in every behaviour: the accounts of        *)
(* gateways, debts, overlaps and broken-off runs of water-gateway.sh balance. *)
THEOREM Invariance == Spec => []IInv
BY InitIInv, NextStep, PTL DEF Spec

-----------------------------------------------------------------------------
(* The pids, the lines and the counters keep their types in every run of   *)
(* water-gateway.sh.                                                       *)
THEOREM TypeCorrect == Spec => []TypeOK
<1>1. IInv => TypeOK
    BY DEF IInv
<1> QED BY <1>1, Invariance, PTL

(* The script runs no more gateways at a time than the overlapping and the *)
(* broken-off runs can add to the one it means to run, for every number of *)
(* shells, commands and tries of stop.                                     *)
THEOREM FewGateways == Spec => []GatewaysWithinOverlaps
<1>1. IInv => GatewaysWithinOverlaps
    <2> SUFFICES ASSUME IInv PROVE Cardinality(Alive) <= 1 + overlaps + aborts
        BY DEF GatewaysWithinOverlaps
    <2>1. TypeOK /\ Accounted
        BY DEF IInv
    <2>2. CASE Due <= Paid
        BY <2>1, <2>2, Sizes DEF SizesOK
    <2>3. CASE Guarded /\ Due <= Paid + 1
        <3>1. CASE Busy = {}
            BY <2>1, <2>3, <3>1, Sizes DEF SizesOK
        <3>2. CASE Busy # {}
            <4>1. Owing = Busy
                BY <2>3 DEF Guarded, Harmless, Owing, Launched
            <4>2. Cardinality(Owing) # 0
                BY <2>1, <3>2, <4>1, Sizes, FS_EmptySet DEF SizesOK
            <4> QED BY <2>1, <2>3, <3>2, <4>2, Sizes DEF SizesOK
        <3> QED BY <3>1, <3>2
    <2> QED BY <2>1, <2>2, <2>3 DEF Accounted
<1> QED BY <1>1, Invariance, PTL

(* Between runs that neither overlapped nor were broken off, the pid file  *)
(* names the gateway that runs, so that stop finds it.                     *)
THEOREM PidfileIsTrue == Spec => []PidfileNamesGateway
<1>1. IInv => PidfileNamesGateway
    <2> SUFFICES ASSUME IInv, overlaps = 0, aborts = 0, \A s \in Shells : Idle(s)
                 PROVE  Alive \subseteq {pidfile}
        BY DEF PidfileNamesGateway
    <2>1. TypeOK /\ Accounted /\ Busy = {} /\ Paid = 0
        BY Sizes DEF IInv, Busy, SizesOK
    <2>2. Cardinality(Alive) <= Due
        BY <2>1, Sizes DEF SizesOK
    <2>3. CASE Due <= Paid
        <3>1. Cardinality(Alive) = 0
            BY <2>1, <2>2, <2>3, Sizes DEF SizesOK
        <3> QED BY <2>1, <3>1, Sizes, FS_EmptySet DEF SizesOK
    <2>4. CASE Guarded /\ Due <= Paid + 1
        <3>1. Cardinality(Alive) <= 1
            BY <2>1, <2>2, <2>4, Sizes DEF SizesOK
        <3>2. pidfile \in Alive
            BY <2>1, <2>4 DEF Guarded, Alive, Runs, TypeOK
        <3>3. Cardinality(Alive) = 1
            BY <2>1, <3>1, <3>2, Sizes, FS_EmptySet DEF SizesOK
        <3>4. PICK x : Alive = {x}
            BY <2>1, <3>3, Sizes, FS_Singleton DEF SizesOK
        <3> QED BY <3>2, <3>4
    <2> QED BY <2>1, <2>3, <2>4 DEF Accounted
<1> QED BY <1>1, Invariance, PTL
=============================================================================

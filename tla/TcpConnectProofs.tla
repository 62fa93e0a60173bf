-------------------------- MODULE TcpConnectProofs --------------------------
(***************************************************************************)
(* Proofs about TcpConnect, for any number of threads, sockets, CPUs and   *)
(* any map sizes.                                                          *)
(***************************************************************************)
EXTENDS TcpConnect, FiniteSetTheorems, TLAPS

LEMMA NoStepType == NoStep \in Step /\ NoStep.pc = "none"
  BY ConstantsAssumption DEF NoStep, Keys, Vers, Step

LEMMA PopType == ASSUME NEW S, NEW s \in Seq(S)
                 PROVE  SubSeq(s, 1, Len(s) - 1) \in Seq(S)
  OBVIOUS

LEMMA LastType == ASSUME NEW S, NEW s \in Seq(S), s # <<>>
                  PROVE  s[Len(s)] \in S
  OBVIOUS

(* Returning from a call keeps the call stacks and results well typed.     *)
LEMMA PopFrameType ==
  ASSUME TypeOK, NEW t \in Threads, NEW r \in {"ok", "err"}, PopFrame(t, r)
  PROVE  /\ frames' \in [Threads -> Seq(Frame)]
         /\ ret' \in [Threads -> {"none", "ok", "err"}]
<1>1. SubSeq(frames[t], 1, Len(frames[t]) - 1) \in Seq(Frame)
  BY PopType DEF TypeOK
<1> QED BY <1>1 DEF PopFrame, TypeOK

LEMMA InnermostType ==
  ASSUME TypeOK, NEW t \in Threads, frames[t] # <<>>
  PROVE  Innermost(t) \in Frame
  BY LastType DEF TypeOK, Innermost

LEMMA ResultsType ==
  ASSUME TypeOK, NEW t \in Threads
  PROVE  Results(t) \subseteq {"ok", "err"}
  BY DEF Results, TypeOK

(* The entry probe leaves the map sockets a map of sockets.                *)
LEMMA EnterType ==
  ASSUME TypeOK, NEW t \in Threads, NEW s \in Socks, enter_tcp_connect(t, s)
  PROVE  sockets' \in [Threads -> Socks \cup {NoSock}]
  BY DEF TypeOK, enter_tcp_connect, SocketsAfterUpdate

(* What the types need to know about a return probe inside count_v4/v6:    *)
(* its sockets entry is still there, and it only adds to a counter that    *)
(* exists.                                                                 *)
CountInv ==
  \A t \in Threads : /\ step[t].pc # "none" => sockets[t] # NoSock
                     /\ step[t].pc = "add" => counts[step[t].key] # Missing

(* Every step of a probe keeps every variable in its type.                 *)
LEMMA ProbesType ==
  ASSUME TypeOK, CountInv, NEW t \in Threads, Probes(t)
  PROVE  TypeOK'
<1> USE ConstantsAssumption, NoStepType
<1>a. ASSUME NEW ver \in Vers, NEW s \in Socks, NEW h \in BOOLEAN,
             EnterConnect(t, ver, s, h)
      PROVE  TypeOK'
  <2>1. sockets' \in [Threads -> Socks \cup {NoSock}]
    BY <1>a, EnterType DEF EnterConnect
  <2>2. <<[ver |-> ver, hooked |-> h]>> \in Seq(Frame)
    BY DEF Frame
  <2>3. frames' \in [Threads -> Seq(Frame)]
    BY <1>a, <2>2 DEF TypeOK, EnterConnect
  <2>4. reported' \in [Threads -> Seq(Socks)] /\ connects' \in [Threads -> Nat]
    BY <1>a DEF TypeOK, EnterConnect
  <2> QED BY <1>a, <2>1, <2>3, <2>4 DEF TypeOK, EnterConnect, userVars
<1>b. ASSUME NEW h \in BOOLEAN, EnterMapped(t, h) PROVE TypeOK'
  <2>1. sockets' \in [Threads -> Socks \cup {NoSock}]
    BY <1>b, EnterType DEF TypeOK, EnterMapped, Returning
  <2>2. [ver |-> 4, hooked |-> h] \in Frame
    BY DEF Frame, Vers
  <2>3. frames' \in [Threads -> Seq(Frame)]
    BY <1>b, <2>2 DEF TypeOK, EnterMapped
  <2> QED BY <1>b, <2>1, <2>3 DEF TypeOK, EnterMapped, userVars, histVars
<1>c. CASE ReturnUnseen(t)
  <2>1. PICK r \in Results(t) : PopFrame(t, r)
    BY <1>c DEF ReturnUnseen
  <2>2. /\ frames' \in [Threads -> Seq(Frame)]
        /\ ret' \in [Threads -> {"none", "ok", "err"}]
    BY <2>1, PopFrameType, ResultsType
  <2> QED BY <1>c, <2>2 DEF ReturnUnseen, TypeOK, userVars, histVars
<1>d. CASE ExitNotFound(t)
  <2>1. PICK r \in Results(t) : PopFrame(t, r)
    BY <1>d DEF ExitNotFound
  <2>2. /\ frames' \in [Threads -> Seq(Frame)]
        /\ ret' \in [Threads -> {"none", "ok", "err"}]
    BY <2>1, PopFrameType, ResultsType
  <2> QED BY <1>d, <2>2 DEF ExitNotFound, TypeOK, userVars, histVars
<1>e. CASE ExitSkip(t)
  <2>1. PICK r \in Results(t) : PopFrame(t, r)
    BY <1>e DEF ExitSkip
  <2>2. /\ frames' \in [Threads -> Seq(Frame)]
        /\ ret' \in [Threads -> {"none", "ok", "err"}]
    BY <2>1, PopFrameType, ResultsType
  <2> QED BY <1>e, <2>2 DEF ExitSkip, DeleteSocket, TypeOK, userVars, histVars
<1>f. ASSUME NEW c \in CPUs, ExitTrace(t, c) PROVE TypeOK'
  <2> DEFINE e == [sk |-> sockets[t], ver |-> Innermost(t).ver,
                   who |-> who[t], ts |-> clock]
  <2>1. sockets[t] \in Socks /\ Innermost(t) \in Frame
    BY <1>f, InnermostType DEF ExitTrace, ReturnsCounted, Returning, TypeOK
  <2>2. e \in Event
    BY <2>1 DEF TypeOK, Event, Frame
  <2>3. PerfOutput(c, e)
    BY <1>f DEF ExitTrace
  <2> HIDE DEF e
  <2>4. perf' \in [CPUs -> Seq(Event)] /\ lost' \in [CPUs -> Nat]
    BY <2>2, <2>3 DEF PerfOutput, TypeOK
  <2>5. reported' \in [Threads -> Seq(Socks)]
    BY <1>f, <2>1 DEF ExitTrace, TypeOK
  <2>6. /\ frames' \in [Threads -> Seq(Frame)]
        /\ ret' \in [Threads -> {"none", "ok", "err"}]
    BY <1>f, PopFrameType DEF ExitTrace
  <2>7. /\ clock' \in Nat /\ sockets' \in [Threads -> Socks \cup {NoSock}]
        /\ UNCHANGED <<who, sk, connects, step, counts, userVars, added, refused>>
    BY <1>f DEF ExitTrace, DeleteSocket, TypeOK
  <2> QED BY <2>4, <2>5, <2>6, <2>7 DEF TypeOK, userVars
<1>g. CASE ExitCount(t)
  <2>1. sockets[t] \in Socks /\ Innermost(t) \in Frame
    BY <1>g, InnermostType DEF ExitCount, ReturnsCounted, Returning, TypeOK
  <2>2. [pc |-> "lookup", key |-> <<Innermost(t).ver, flowOf[sockets[t]]>>] \in Step
    BY <2>1 DEF Frame, Step, Keys
  <2>3. step' \in [Threads -> Step]
    BY <1>g, <2>2 DEF ExitCount, TypeOK
  <2> QED BY <1>g, <2>3 DEF ExitCount, TypeOK, kernelVars, userVars, histVars
<1>h. CASE CountLookup(t)
  BY <1>h DEF CountLookup, TypeOK, Step, kernelVars, userVars, histVars
<1>i. CASE CountInit(t)
  <2>1. step[t].key \in Keys /\ step' \in [Threads -> Step]
    BY <1>i DEF CountInit, TypeOK, Step
  <2> QED BY <1>i, <2>1 DEF CountInit, TypeOK, kernelVars, userVars, histVars
<1>j. CASE CountInitFails(t)
  <2>1. step[t].key \in Keys
    BY DEF TypeOK, Step
  <2> QED BY <1>j, <2>1, PopFrameType
          DEF CountInitFails, CountEnd, DeleteSocket, TypeOK, userVars
<1>k. CASE CountAdd(t)
  <2>1. step[t].key \in Keys /\ sockets[t] \in Socks /\ counts[step[t].key] \in Nat
    BY <1>k DEF CountAdd, CountInv, TypeOK, Step
  <2>2. counts' \in [Keys -> Nat \cup {Missing}] /\ added' \in [Keys -> Nat]
    BY <1>k, <2>1 DEF CountAdd, TypeOK
  <2>3. reported' \in [Threads -> Seq(Socks)]
    BY <1>k, <2>1 DEF CountAdd, TypeOK
  <2> QED BY <1>k, <2>2, <2>3, PopFrameType
          DEF CountAdd, CountEnd, DeleteSocket, TypeOK, userVars
<1>l. CASE SyscallReturn(t)
  BY <1>l DEF SyscallReturn, TypeOK, userVars, histVars
<1>m. ASSUME NEW id \in Idents, ChangeIdentity(t, id) PROVE TypeOK'
  BY <1>m DEF ChangeIdentity, TypeOK, userVars, histVars
<1> QED BY <1>a, <1>b, <1>c, <1>d, <1>e, <1>f, <1>g, <1>h, <1>i, <1>j, <1>k,
           <1>l, <1>m DEF Probes

(* Every step of the user-space half keeps every variable in its type.     *)
LEMMA ToolType ==
  ASSUME TypeOK, Tool
  PROVE  TypeOK'
<1> USE ConstantsAssumption DEF bpfVars, kernelVars, histVars
<1>1. CASE LoadAndAttach
  BY <1>1 DEF LoadAndAttach, TypeOK
<1>2. CASE InstallHandler
  BY <1>2 DEF InstallHandler, TypeOK
<1>3. CASE StartOutput
  BY <1>3 DEF StartOutput, TypeOK
<1>4. CASE sig_int
  BY <1>4 DEF sig_int, TypeOK
<1>5. ASSUME NEW c \in CPUs, handle_event(c) PROVE TypeOK'
  <2>1. perf[c] \in Seq(Event) /\ perf[c] # <<>>
    BY <1>5 DEF handle_event, TypeOK
  <2>2. Head(perf[c]) \in Event /\ Tail(perf[c]) \in Seq(Event)
    BY <2>1
  <2>3. Head(perf[c]).ts \in Nat
    BY <2>2 DEF Event
  <2>4. start_ts' \in Nat
    BY <1>5, <2>3 DEF handle_event, TypeOK
  <2>5. elapsed' \in Nat
    BY <1>5, <2>3, <2>4 DEF handle_event, TypeOK
  <2>7. timed' \in {<<>>} \cup CPUs \X CPUs
    <3>1. CASE UNCHANGED timed
      BY <3>1 DEF TypeOK
    <3>2. CASE timed' = <<c, c>>
      BY <3>2
    <3>3. CASE timed # <<>> /\ timed' = <<timed[1], c>>
      BY <3>3 DEF TypeOK
    <3> QED BY <1>5, <3>1, <3>2, <3>3 DEF handle_event
  <2>6. perf' \in [CPUs -> Seq(Event)]
    BY <1>5, <2>2 DEF handle_event, TypeOK
  <2> QED BY <1>5, <2>4, <2>5, <2>6, <2>7 DEF handle_event, TypeOK
<1>6. CASE ClosePerf
  <2>1. perf' \in [CPUs -> Seq(Event)]
    BY <1>6 DEF ClosePerf
  <2> QED BY <1>6, <2>1 DEF ClosePerf, TypeOK
<1>7. CASE TestFlag
  BY <1>7 DEF TestFlag, TypeOK
<1>8. CASE Pause
  BY <1>8 DEF Pause, TypeOK
<1>9. CASE PrintCount
  <2>1. table' \in SUBSET ((Keys \cup {ZeroKey}) \X Nat)
    BY <1>9 DEF PrintCount
  <2> QED BY <1>9, <2>1 DEF PrintCount, TypeOK
<1> QED BY <1>1, <1>2, <1>3, <1>4, <1>5, <1>6, <1>7, <1>8, <1>9
        DEF Tool, StopPolling, PollFails

(* CountInv is preserved by every step.                                    *)
LEMMA CountInvStep ==
  ASSUME TypeOK, CountInv, Next
  PROVE  CountInv'
<1> USE ConstantsAssumption, NoStepType
<1>1. CASE Tool
  <2>1. UNCHANGED <<step, sockets, counts>>
    BY <1>1 DEF Tool, LoadAndAttach, InstallHandler, StartOutput, sig_int,
       handle_event, StopPolling, PollFails, ClosePerf, TestFlag, Pause,
       PrintCount, bpfVars
  <2> QED BY <2>1 DEF CountInv
<1>2. ASSUME NEW t \in Threads, Probes(t) PROVE CountInv'
  <2>1. CASE UNCHANGED <<step, counts>> /\ \E s \in Socks : enter_tcp_connect(t, s)
    BY <2>1 DEF CountInv, TypeOK, enter_tcp_connect, SocketsAfterUpdate
  <2>2. CASE UNCHANGED <<step, counts, sockets>>
    BY <2>2 DEF CountInv
  <2>3. CASE UNCHANGED <<step, counts>> /\ step[t].pc = "none" /\ DeleteSocket(t)
    BY <2>3 DEF CountInv, TypeOK, DeleteSocket
  <2>4. CASE ExitCount(t)
    BY <2>4 DEF ExitCount, ReturnsCounted, CountInv, TypeOK
  <2>5. CASE CountLookup(t)
    BY <2>5 DEF CountLookup, CountInv, TypeOK, Step
  <2>6. CASE CountInit(t)
    BY <2>6 DEF CountInit, CountInv, TypeOK, Step
  <2>7. CASE CountInitFails(t)
    BY <2>7 DEF CountInitFails, CountEnd, DeleteSocket, CountInv, TypeOK
  <2>8. CASE CountAdd(t)
    <3>1. step[t].key \in Keys /\ counts[step[t].key] \in Nat
      BY <2>8 DEF CountAdd, CountInv, TypeOK, Step
    <3> QED BY <2>8, <3>1 DEF CountAdd, CountEnd, DeleteSocket, CountInv, TypeOK, Step
  <2> QED BY <1>2, <2>1, <2>2, <2>3, <2>4, <2>5, <2>6, <2>7, <2>8
      DEF Probes, EnterConnect, EnterMapped, Returning, ReturnUnseen, ExitNotFound,
          ExitSkip, ExitTrace, ReturnsCounted, SyscallReturn, ChangeIdentity, TypeOK
<1> QED BY <1>1, <1>2 DEF Next

LEMMA InitType == Init => TypeOK /\ CountInv
<1> SUFFICES ASSUME Init PROVE TypeOK /\ CountInv
  OBVIOUS
<1> USE ConstantsAssumption, NoStepType
<1>1. TypeOK
  <2>1. /\ frames \in [Threads -> Seq(Frame)] /\ reported \in [Threads -> Seq(Socks)]
        /\ perf \in [CPUs -> Seq(Event)]
    BY DEF Init
  <2>2. table \in SUBSET ((Keys \cup {ZeroKey}) \X Nat) /\ refused \in SUBSET Keys
    BY DEF Init
  <2> QED BY <2>1, <2>2 DEF Init, TypeOK
<1>2. CountInv
  BY DEF Init, CountInv
<1> QED BY <1>1, <1>2

LEMMA TypeStep ==
  ASSUME TypeOK, CountInv, [Next]_vars
  PROVE  TypeOK' /\ CountInv'
<1>1. CASE Next
  BY <1>1, ProbesType, ToolType, CountInvStep DEF Next
<1>2. CASE UNCHANGED vars
  BY <1>2 DEF vars, kernelVars, userVars, histVars, TypeOK, CountInv
<1> QED BY <1>1, <1>2

(* Every variable keeps its type, in every behaviour.                      *)
THEOREM TypeCorrect == Spec => []TypeOK
<1>1. TypeOK /\ CountInv /\ [Next]_vars => TypeOK' /\ CountInv'
  BY TypeStep
<1> QED BY <1>1, InitType, PTL DEF Spec

-----------------------------------------------------------------------------
(* The inductive invariant behind the soundness of the reports when every  *)
(* return probe fires: EntryLive needs to know that no call is unhooked,   *)
(* that nothing is open before the probes are attached, that no report     *)
(* precedes the return of the innermost call, and that a probe inside      *)
(* count_v4/v6 still holds the entry of its own call.                      *)
SoundThread(t) ==
  /\ phase # "done" /\ sockets[t] # NoSock =>
        /\ frames[t] # <<>>
        /\ sockets[t] = sk[t]
        /\ EntryPasses(who[t])
        /\ reported[t] = <<>>
  /\ \A i \in 1 .. Len(frames[t]) : frames[t][i].hooked
  /\ phase = "start" => frames[t] = <<>>
  /\ ret[t] = "none" => reported[t] = <<>>
  /\ step[t].pc # "none" => /\ frames[t] # <<>>
                            /\ sockets[t] = sk[t]
                            /\ reported[t] = <<>>

Sound == \A t \in Threads : SoundThread(t)

LEMMA SoundEntryLive == Sound => EntryLive
  BY DEF Sound, SoundThread, EntryLive

(* A probe touches nothing of another thread.                              *)
LEMMA ProbesLocal ==
  ASSUME TypeOK, NEW t \in Threads, Probes(t), NEW u \in Threads, u # t
  PROVE  /\ sockets'[u] = sockets[u] /\ frames'[u] = frames[u] /\ sk'[u] = sk[u]
         /\ who'[u] = who[u] /\ reported'[u] = reported[u] /\ ret'[u] = ret[u]
         /\ step'[u] = step[u]
         /\ phase' = phase
<1> USE DEF TypeOK, userVars, histVars, kernelVars
<1>1. ASSUME NEW s \in Socks, enter_tcp_connect(t, s) PROVE sockets'[u] = sockets[u]
  BY <1>1 DEF enter_tcp_connect, SocketsAfterUpdate
<1>2. ASSUME NEW ver \in Vers, NEW s \in Socks, NEW h \in BOOLEAN,
             EnterConnect(t, ver, s, h)
      PROVE  sockets'[u] = sockets[u]
  BY <1>1, <1>2 DEF EnterConnect
<1>3. ASSUME NEW h \in BOOLEAN, EnterMapped(t, h) PROVE sockets'[u] = sockets[u]
  BY <1>1, <1>3 DEF EnterMapped, Returning
<1>4. CASE \E ver \in Vers, s \in Socks, h \in BOOLEAN : EnterConnect(t, ver, s, h)
  BY <1>2, <1>4 DEF EnterConnect
<1>5. CASE \E h \in BOOLEAN : EnterMapped(t, h)
  BY <1>3, <1>5 DEF EnterMapped
<1>6. CASE ReturnUnseen(t) \/ ExitNotFound(t) \/ ExitSkip(t)
  BY <1>6 DEF ReturnUnseen, ExitNotFound, ExitSkip, PopFrame, DeleteSocket
<1>7. CASE \E c \in CPUs : ExitTrace(t, c)
  BY <1>7 DEF ExitTrace, PopFrame, DeleteSocket
<1>8. CASE ExitCount(t) \/ CountLookup(t) \/ CountInit(t)
  BY <1>8 DEF ExitCount, CountLookup, CountInit
<1>9. CASE CountInitFails(t) \/ CountAdd(t)
  BY <1>9 DEF CountInitFails, CountAdd, CountEnd, PopFrame, DeleteSocket
<1>10. CASE SyscallReturn(t) \/ \E id \in Idents : ChangeIdentity(t, id)
  BY <1>10 DEF SyscallReturn, ChangeIdentity
<1> QED BY <1>4, <1>5, <1>6, <1>7, <1>8, <1>9, <1>10 DEF Probes

(* A returning call leaves a shorter stack of the same, hooked, calls.     *)
LEMMA PopFrameSound ==
  ASSUME TypeOK, NEW t \in Threads, NEW r \in {"ok", "err"}, PopFrame(t, r),
         \A i \in 1 .. Len(frames[t]) : frames[t][i].hooked
  PROVE  /\ \A i \in 1 .. Len(frames'[t]) : frames'[t][i].hooked
         /\ ret'[t] # "none"
<1> DEFINE f == frames[t]
           g == SubSeq(f, 1, Len(f) - 1)
<1>1. frames'[t] = g /\ ret'[t] = r
  BY DEF PopFrame, TypeOK
<1>2. f \in Seq(Frame)
  BY DEF TypeOK
<1>3. \A i \in 1 .. Len(g) : i \in 1 .. Len(f) /\ g[i] = f[i]
  <2> HIDE DEF f
  <2> QED BY <1>2
<1> QED BY <1>1, <1>3

(* The entry probe either records the call's own socket or leaves the map. *)
LEMMA EnterSound ==
  ASSUME TypeOK, NEW t \in Threads, NEW s \in Socks, enter_tcp_connect(t, s)
  PROVE  \/ sockets'[t] = s /\ EntryPasses(who[t])
         \/ sockets'[t] = sockets[t]
  BY DEF enter_tcp_connect, SocketsAfterUpdate, TypeOK

(* Each probe of thread t keeps t's part of the invariant.                 *)
LEMMA ProbesSound ==
  ASSUME ~MissedReturns, TypeOK, CountInv, NEW t \in Threads, Probes(t),
         SoundThread(t)
  PROVE  SoundThread(t)'
<1> USE ConstantsAssumption, NoStepType
<1>a. ASSUME NEW ver \in Vers, NEW s \in Socks, NEW h \in BOOLEAN,
             EnterConnect(t, ver, s, h)
      PROVE  SoundThread(t)'
  <2>1. phase' = phase /\ phase # "done" /\ phase # "start" /\ sk[t] = NoSock /\ h
    BY <1>a DEF EnterConnect, Attached, userVars
  <2>2. sockets[t] = NoSock
    BY <2>1 DEF SoundThread, TypeOK
  <2>3. /\ sk'[t] = s /\ who' = who /\ reported'[t] = <<>> /\ step' = step
        /\ frames'[t] = <<[ver |-> ver, hooked |-> h]>>
    BY <1>a DEF EnterConnect, TypeOK
  <2>4. sockets'[t] = NoSock \/ (sockets'[t] = s /\ EntryPasses(who[t]))
    BY <1>a, <2>2, EnterSound DEF EnterConnect
  <2>5. step[t].pc = "none"
    BY <2>2 DEF CountInv
  <2>6. \A i \in 1 .. Len(frames'[t]) : frames'[t][i].hooked
    BY <2>1, <2>3
  <2> QED BY <2>1, <2>3, <2>4, <2>5, <2>6 DEF SoundThread, EntryPasses
<1>b. ASSUME NEW h \in BOOLEAN, EnterMapped(t, h) PROVE SoundThread(t)'
  <2>0. ret[t] = "none" /\ phase' = phase /\ phase # "done" /\ phase # "start" /\ h
    BY <1>b DEF EnterMapped, Attached, userVars
  <2>1. /\ sk[t] \in Socks /\ step[t].pc = "none"
        /\ sk' = sk /\ who' = who /\ ret' = ret /\ step' = step
        /\ reported' = reported
    BY <1>b DEF EnterMapped, Returning, histVars, TypeOK
  <2>2. frames'[t] = Append(frames[t], [ver |-> 4, hooked |-> h])
    BY <1>b DEF EnterMapped, TypeOK
  <2>3. frames[t] \in Seq(Frame) /\ [ver |-> 4, hooked |-> h] \in Frame
    BY DEF TypeOK, Frame, Vers
  <2>4. frames'[t] # <<>> /\ \A i \in 1 .. Len(frames'[t]) : frames'[t][i].hooked
    BY <2>0, <2>2, <2>3 DEF SoundThread
  <2>5. sockets'[t] = sockets[t] \/ (sockets'[t] = sk[t] /\ EntryPasses(who[t]))
    BY <1>b, <2>1, EnterSound DEF EnterMapped
  <2> QED BY <2>0, <2>1, <2>4, <2>5 DEF SoundThread, EntryPasses
<1>c. CASE ReturnUnseen(t)
  <2>1. PICK r \in {"ok", "err"} : PopFrame(t, r)
    BY <1>c, ResultsType DEF ReturnUnseen
  <2>2. frames[t] \in Seq(Frame) /\ frames[t] # <<>> /\ step[t].pc = "none"
    BY <1>c DEF ReturnUnseen, Returning, TypeOK
  <2>3. Innermost(t).hooked
    BY <2>2 DEF Innermost, SoundThread
  <2>4. phase = "done"
    BY <1>c, <2>2, <2>3 DEF ReturnUnseen, Attached, SoundThread, TypeOK
  <2> QED BY <1>c, <2>1, <2>2, <2>4, PopFrameSound
          DEF ReturnUnseen, SoundThread, userVars, histVars
<1>d. CASE ExitNotFound(t)
  <2>1. PICK r \in {"ok", "err"} : PopFrame(t, r)
    BY <1>d, ResultsType DEF ExitNotFound
  <2> QED BY <1>d, <2>1, PopFrameSound
          DEF ExitNotFound, Returning, Attached, SoundThread, userVars, histVars
<1>e. CASE ExitSkip(t)
  <2>1. PICK r \in {"ok", "err"} : PopFrame(t, r)
    BY <1>e, ResultsType DEF ExitSkip
  <2>2. sockets'[t] = NoSock
    BY <1>e DEF ExitSkip, DeleteSocket, TypeOK
  <2> QED BY <1>e, <2>1, <2>2, PopFrameSound
          DEF ExitSkip, Returning, Attached, SoundThread, userVars, histVars
<1>f. ASSUME NEW c \in CPUs, ExitTrace(t, c) PROVE SoundThread(t)'
  <2>1. sockets'[t] = NoSock
    BY <1>f DEF ExitTrace, DeleteSocket, TypeOK
  <2> QED BY <1>f, <2>1, PopFrameSound
          DEF ExitTrace, ReturnsCounted, Returning, Attached, SoundThread, userVars
<1>g. CASE ExitCount(t)
  <2>1. phase # "done" /\ sockets[t] # NoSock
    BY <1>g DEF ExitCount, ReturnsCounted, Attached
  <2> QED BY <1>g, <2>1
          DEF ExitCount, SoundThread, kernelVars, userVars, histVars, EntryPasses
<1>h. CASE CountLookup(t)
  BY <1>h DEF CountLookup, SoundThread, kernelVars, userVars, histVars, EntryPasses, TypeOK
<1>i. CASE CountInit(t)
  BY <1>i DEF CountInit, SoundThread, kernelVars, userVars, histVars, EntryPasses, TypeOK
<1>j. CASE CountInitFails(t) \/ CountAdd(t)
  <2>1. PopFrame(t, "ok") /\ sockets'[t] = NoSock /\ step'[t] = NoStep
    BY <1>j DEF CountInitFails, CountAdd, CountEnd, DeleteSocket, TypeOK
  <2>2. phase' = phase /\ phase # "start"
    BY <1>j DEF CountInitFails, CountAdd, SoundThread, userVars
  <2> QED BY <2>1, <2>2, PopFrameSound DEF SoundThread
<1>k. CASE SyscallReturn(t)
  <2>1. /\ phase' = phase /\ frames[t] = <<>> /\ frames' = frames /\ ret' = ret
        /\ sockets' = sockets /\ step' = step /\ reported' = reported
    BY <1>k DEF SyscallReturn, userVars, histVars
  <2> QED BY <2>1 DEF SoundThread
<1>l. ASSUME NEW id \in Idents, ChangeIdentity(t, id) PROVE SoundThread(t)'
  <2>1. /\ phase' = phase /\ sk[t] = NoSock /\ frames' = frames /\ ret' = ret
        /\ sockets' = sockets /\ step' = step /\ reported' = reported /\ sk' = sk
    BY <1>l DEF ChangeIdentity, userVars, histVars
  <2> QED BY <2>1 DEF SoundThread
<1> QED BY <1>a, <1>b, <1>c, <1>d, <1>e, <1>f, <1>g, <1>h, <1>i, <1>j, <1>k, <1>l
        DEF Probes

(* User space touches none of it, except that detaching ends the window in *)
(* which EntryLive speaks.                                                 *)
LEMMA ToolSound ==
  ASSUME Sound, Tool
  PROVE  Sound'
<1>1. /\ UNCHANGED <<sockets, frames, sk, who, reported, ret, step>>
      /\ phase' # "start" \/ phase' = phase
      /\ phase = "done" => phase' = "done"
  BY DEF Tool, LoadAndAttach, InstallHandler, StartOutput, sig_int, handle_event,
     StopPolling, PollFails, ClosePerf, TestFlag, Pause, PrintCount, bpfVars,
     kernelVars, histVars
<1> QED BY <1>1 DEF Sound, SoundThread, EntryPasses

LEMMA SoundStep ==
  ASSUME ~MissedReturns, TypeOK, CountInv, Sound, [Next]_vars
  PROVE  Sound'
<1>1. CASE Tool
  BY <1>1, ToolSound
<1>2. ASSUME NEW t \in Threads, Probes(t) PROVE Sound'
  <2>1. SoundThread(t)'
    BY <1>2, ProbesSound DEF Sound
  <2>2. ASSUME NEW u \in Threads, u # t PROVE SoundThread(u)'
    <3>1. SoundThread(u)
      BY DEF Sound
    <3> QED BY <1>2, <2>2, <3>1, ProbesLocal DEF SoundThread, EntryPasses
  <2> QED BY <2>1, <2>2 DEF Sound
<1>3. CASE UNCHANGED vars
  BY <1>3 DEF vars, kernelVars, userVars, histVars, Sound, SoundThread, EntryPasses
<1> QED BY <1>1, <1>2, <1>3 DEF Next

LEMMA SoundInit == Init => Sound
  BY NoStepType DEF Init, Sound, SoundThread

(* When every return probe fires, no return probe ever consumes an entry   *)
(* of another call, whoever the thread id belonged to before.              *)
THEOREM EntriesLive == ASSUME ~MissedReturns PROVE Spec => []EntryLive
<1>1. TypeOK /\ CountInv /\ Sound /\ [Next]_vars => TypeOK' /\ CountInv' /\ Sound'
  BY TypeStep, SoundStep
<1>2. Init => TypeOK /\ CountInv /\ Sound
  BY InitType, SoundInit
<1> QED BY <1>1, <1>2, SoundEntryLive, PTL DEF Spec

(* Every step of TcpConnect is a step of ConnectReporting or leaves its    *)
(* variables alone.                                                        *)
LEMMA ReportingStep ==
  ASSUME TypeOK, CountInv, Sound, [Next]_vars
  PROVE  [Reporting!Next]_(Reporting!absVars)
<1> USE DEF Reporting!Next, Reporting!absVars
<1>1. CASE Tool
  BY <1>1 DEF Tool, LoadAndAttach, InstallHandler, StartOutput, sig_int, handle_event,
     StopPolling, PollFails, ClosePerf, TestFlag, Pause, PrintCount, bpfVars,
     kernelVars, histVars
<1>2. ASSUME NEW t \in Threads, Probes(t) PROVE [Reporting!Next]_(Reporting!absVars)
  <2>1. ASSUME NEW ver \in Vers, NEW s \in Socks, NEW h \in BOOLEAN,
               EnterConnect(t, ver, s, h)
        PROVE  Reporting!Begin(t, s)
    BY <2>1 DEF EnterConnect, Reporting!Begin
  <2>2. ASSUME NEW c \in CPUs, ExitTrace(t, c) PROVE Reporting!Report(t)
    <3>1. sockets[t] # NoSock /\ phase # "done"
      BY <2>2 DEF ExitTrace, ReturnsCounted, Attached
    <3>2. sockets[t] = sk[t] /\ reported[t] = <<>>
      BY <3>1 DEF Sound, SoundThread
    <3> QED BY <2>2, <3>1, <3>2 DEF ExitTrace, Reporting!Report, TypeOK
  <2>3. CASE CountAdd(t)
    <3>1. sockets[t] = sk[t] /\ reported[t] = <<>> /\ sockets[t] # NoSock
      BY <2>3 DEF CountAdd, Sound, SoundThread, CountInv
    <3>2. sk' = sk /\ reported' = [reported EXCEPT ![t] = Append(@, sockets[t])]
      BY <2>3 DEF CountAdd
    <3>3. Append(reported[t], sockets[t]) = <<sk[t]>>
      BY <3>1
    <3>4. Reporting!Report(t)
      BY <3>1, <3>2, <3>3 DEF Reporting!Report
    <3> QED BY <3>4
  <2>4. CASE SyscallReturn(t)
    BY <2>4 DEF SyscallReturn, Reporting!End, histVars
  <2>5. CASE UNCHANGED <<sk, reported>>
    BY <2>5
  <2> QED BY <1>2, <2>1, <2>2, <2>3, <2>4, <2>5
      DEF Probes, EnterMapped, ReturnUnseen, ExitNotFound, ExitSkip, ExitCount,
          CountLookup, CountInit, CountInitFails, ChangeIdentity, kernelVars, histVars
<1>3. CASE UNCHANGED vars
  BY <1>3 DEF vars, kernelVars, histVars
<1> QED BY <1>1, <1>2, <1>3 DEF Next

(* When every return probe fires, the probes implement ConnectReporting:   *)
(* one report at most per connect(), of that connect()'s own socket.       *)
THEOREM ReportsSound == ASSUME ~MissedReturns PROVE Spec => RefinesConnectReporting
<1>1. TypeOK /\ CountInv /\ Sound /\ [Next]_vars => TypeOK' /\ CountInv' /\ Sound'
  BY TypeStep, SoundStep
<1>2. Init => TypeOK /\ CountInv /\ Sound
  BY InitType, SoundInit
<1>3. TypeOK /\ CountInv /\ Sound /\ [Next]_vars => [Reporting!Next]_(Reporting!absVars)
  BY ReportingStep
<1>4. Init => Reporting!Init
  BY DEF Init, Reporting!Init
<1> QED BY <1>1, <1>2, <1>3, <1>4, PTL
        DEF Spec, RefinesConnectReporting, Reporting!Spec

-----------------------------------------------------------------------------
(* The perf buffers.                                                       *)

(* The three ways a step treats the buffer of a CPU: a record of a report  *)
(* is added at its end, its oldest record is handled, or all are dropped.  *)
LEMMA PerfSteps ==
  ASSUME [Next]_vars
  PROVE  \/ UNCHANGED perf /\ UNCHANGED clock /\ UNCHANGED <<start_ts, elapsed, timed>>
         \/ \E t \in Threads, c \in CPUs : ExitTrace(t, c)
         \/ \E c \in CPUs : handle_event(c)
         \/ ClosePerf
<1>1. CASE Tool
  BY <1>1 DEF Tool, LoadAndAttach, InstallHandler, StartOutput, sig_int,
     StopPolling, PollFails, TestFlag, Pause, PrintCount, bpfVars
<1>2. ASSUME NEW t \in Threads, Probes(t)
      PROVE  \/ UNCHANGED perf /\ UNCHANGED clock /\ UNCHANGED <<start_ts, elapsed, timed>>
             \/ \E c \in CPUs : ExitTrace(t, c)
  BY <1>2 DEF Probes, EnterConnect, EnterMapped, ReturnUnseen, ExitNotFound, ExitSkip,
     ExitCount, CountLookup, CountInit, CountInitFails, CountAdd, SyscallReturn,
     ChangeIdentity, userVars
<1>3. CASE UNCHANGED vars
  BY <1>3 DEF vars, userVars
<1> QED BY <1>1, <1>2, <1>3 DEF Next

(* After a report each record of a buffer was there before, or is the one  *)
(* of this report, last in its buffer.                                     *)
LEMMA ReportedRecords ==
  ASSUME TypeOK, NEW t \in Threads, NEW c \in CPUs, ExitTrace(t, c)
  PROVE  \A d \in CPUs : \A i \in 1 .. Len(perf'[d]) :
            \/ /\ i \in 1 .. Len(perf[d]) /\ perf'[d][i] = perf[d][i]
            \/ /\ i = Len(perf[d]) + 1
               /\ perf'[d][i].sk = sockets[t] /\ perf'[d][i].who = who[t]
               /\ perf'[d][i].ts = clock
<1> DEFINE e == [sk |-> sockets[t], ver |-> Innermost(t).ver, who |-> who[t], ts |-> clock]
<1>0. e.sk = sockets[t] /\ e.who = who[t] /\ e.ts = clock
  OBVIOUS
<1>1. PerfOutput(c, e)
  BY DEF ExitTrace
<1>2. sockets[t] \in Socks /\ Innermost(t) \in Frame
  BY InnermostType DEF ExitTrace, ReturnsCounted, Returning, TypeOK
<1>3. e \in Event
  BY <1>2 DEF TypeOK, Event, Frame
<1> HIDE DEF e
<1> SUFFICES ASSUME NEW d \in CPUs, NEW i \in 1 .. Len(perf'[d])
             PROVE  \/ /\ i \in 1 .. Len(perf[d]) /\ perf'[d][i] = perf[d][i]
                    \/ /\ i = Len(perf[d]) + 1 /\ perf'[d][i] = e
  BY <1>0
<1>4. perf'[d] = perf[d] \/ perf'[d] = Append(perf[d], e)
  BY <1>1 DEF PerfOutput, TypeOK
<1>5. perf[d] \in Seq(Event)
  BY DEF TypeOK
<1> QED BY <1>3, <1>4, <1>5

(* A handled record leaves, and the others move up.                        *)
LEMMA HandledRecords ==
  ASSUME TypeOK, NEW c \in CPUs, handle_event(c)
  PROVE  /\ \A d \in CPUs \ {c} : perf'[d] = perf[d]
         /\ perf[c] # <<>> /\ Head(perf[c]) = perf[c][1] /\ 1 \in 1 .. Len(perf[c])
         /\ \A i \in 1 .. Len(perf'[c]) : /\ i + 1 \in 1 .. Len(perf[c])
                                           /\ perf'[c][i] = perf[c][i + 1]
<1>1. perf[c] \in Seq(Event) /\ perf[c] # <<>> /\ perf'[c] = Tail(perf[c])
  BY DEF handle_event, TypeOK
<1>2. \A d \in CPUs \ {c} : perf'[d] = perf[d]
  BY DEF handle_event, TypeOK
<1>3. \A i \in 1 .. Len(Tail(perf[c])) : /\ i + 1 \in 1 .. Len(perf[c])
                                         /\ Tail(perf[c])[i] = perf[c][i + 1]
  BY <1>1
<1>4. Head(perf[c]) = perf[c][1] /\ 1 \in 1 .. Len(perf[c])
  BY <1>1
<1> QED BY <1>1, <1>2, <1>3, <1>4

LEMMA ClosedBuffers == ASSUME ClosePerf PROVE \A c \in CPUs : 1 .. Len(perf'[c]) = {}
<1>1. \A c \in CPUs : perf'[c] = <<>>
  BY DEF ClosePerf
<1> QED BY <1>1

(* A record that is emitted is of a selected process, user and port,       *)
(* because the entry consumed is live and the port is tested on return.    *)
LEMMA SelectedStep ==
  ASSUME TypeOK, EntryLive, OnlySelected, [Next]_vars
  PROVE  OnlySelected'
<1> USE DEF OnlySelected, EntryPasses, filter_port
<1>1. CASE UNCHANGED perf
  BY <1>1
<1>2. ASSUME NEW t \in Threads, NEW c \in CPUs, ExitTrace(t, c) PROVE OnlySelected'
  <2>1. EntryPasses(who[t]) /\ ~filter_port(portOf[sockets[t]])
    BY <1>2 DEF ExitTrace, ReturnsCounted, Attached, EntryLive
  <2> QED BY <1>2, <2>1, ReportedRecords
<1>3. ASSUME NEW c \in CPUs, handle_event(c) PROVE OnlySelected'
  BY <1>3, HandledRecords
<1>4. CASE ClosePerf
  BY <1>4, ClosedBuffers
<1> QED BY <1>1, <1>2, <1>3, <1>4, PerfSteps

(* When every return probe fires, -p, -u and -P hold for every record in a *)
(* perf buffer, whoever owned its thread id before.                        *)
THEOREM SelectedOnly == ASSUME ~MissedReturns PROVE Spec => []OnlySelected
<1>1. TypeOK /\ CountInv /\ Sound /\ OnlySelected /\ [Next]_vars
      => TypeOK' /\ CountInv' /\ Sound' /\ OnlySelected'
  BY TypeStep, SoundStep, SoundEntryLive, SelectedStep
<1>2. Init => TypeOK /\ CountInv /\ Sound /\ OnlySelected
  <2>1. Init => OnlySelected
    <3> SUFFICES ASSUME Init, NEW c \in CPUs PROVE 1 .. Len(perf[c]) = {}
      BY DEF OnlySelected
    <3>1. perf[c] = <<>>
      BY DEF Init
    <3> QED BY <3>1
  <2> QED BY <2>1, InitType, SoundInit
<1> QED BY <1>1, <1>2, PTL DEF Spec

(* Each buffer holds its records in time order, and the buffer of the CPU  *)
(* that gave the first record timed holds none older than that.            *)
TimeInv ==
  /\ start_ts < clock
  /\ start_ts = 0 <=> timed = <<>>
  /\ ElapsedSane
  /\ \A c \in CPUs : \A i \in 1 .. Len(perf[c]) :
        /\ 0 < perf[c][i].ts /\ perf[c][i].ts < clock
        /\ timed # <<>> /\ c = timed[1] => start_ts <= perf[c][i].ts
        /\ \A j \in 1 .. i : perf[c][j].ts <= perf[c][i].ts

LEMMA WrapBound ==
  ASSUME NEW a \in Nat, NEW b \in Nat, b <= a, NEW m \in Nat \ {0}
  PROVE  (a + m - b) % m <= a - b
<1> DEFINE x == a - b
<1>0. x \in Nat /\ a + m - b = x + m
  OBVIOUS
<1> SUFFICES (x + m) % m <= x
  BY <1>0
<1> HIDE DEF x
<1>1. (x + m) % m \in 0 .. m - 1
  BY <1>0
<1>2. CASE x < m
  <2>1. x + m = m * ((x + m) \div m) + ((x + m) % m) /\ (x + m) \div m \in Nat
    BY <1>0
  <2>2. (x + m) \div m # 0
    BY <1>0, <1>1, <2>1
  <2>3. m * ((x + m) \div m) >= m
    <3>1. ASSUME NEW q \in Nat \ {0} PROVE m * q >= m
      OBVIOUS
    <3> QED BY <2>1, <2>2, <3>1
  <2> QED BY <1>0, <1>1, <2>1, <2>3
<1> QED BY <1>0, <1>1, <1>2

LEMMA RecordTimes ==
  ASSUME TypeOK
  PROVE  /\ clock \in Nat /\ start_ts \in Nat /\ elapsed \in Nat
         /\ \A c \in CPUs : /\ Len(perf[c]) \in Nat
                            /\ \A i \in 1 .. Len(perf[c]) : perf[c][i].ts \in Nat
<1> SUFFICES ASSUME NEW c \in CPUs
             PROVE  /\ Len(perf[c]) \in Nat
                    /\ \A i \in 1 .. Len(perf[c]) : perf[c][i].ts \in Nat
  BY DEF TypeOK
<1>1. perf[c] \in Seq(Event)
  BY DEF TypeOK
<1>2. \A i \in 1 .. Len(perf[c]) : perf[c][i] \in Event
  BY <1>1
<1> QED BY <1>1, <1>2 DEF Event

(* A report is younger than all others of its buffer.                      *)
LEMMA TimeReport ==
  ASSUME TypeOK, TypeOK', TimeInv, NEW t \in Threads, NEW c \in CPUs, ExitTrace(t, c)
  PROVE  TimeInv'
<1>1. clock' = clock + 1 /\ UNCHANGED <<start_ts, elapsed, timed>>
  BY DEF ExitTrace, userVars
<1>2. clock \in Nat /\ start_ts \in Nat /\ elapsed \in Nat /\ start_ts < clock
  BY RecordTimes DEF TimeInv
<1>3. ASSUME NEW d \in CPUs, NEW i \in 1 .. Len(perf'[d])
      PROVE  /\ 0 < perf'[d][i].ts /\ perf'[d][i].ts < clock'
             /\ timed' # <<>> /\ d = timed'[1] => start_ts' <= perf'[d][i].ts
             /\ \A j \in 1 .. i : perf'[d][j].ts <= perf'[d][i].ts
  <2>1. \A j \in 1 .. Len(perf'[d]) :
           \/ j \in 1 .. Len(perf[d]) /\ perf'[d][j] = perf[d][j]
           \/ j = Len(perf[d]) + 1 /\ perf'[d][j].ts = clock
    BY ReportedRecords
  <2>2. \A j \in 1 .. Len(perf[d]) :
           /\ perf[d][j].ts \in Nat /\ 0 < perf[d][j].ts /\ perf[d][j].ts < clock
           /\ timed # <<>> /\ d = timed[1] => start_ts <= perf[d][j].ts
           /\ \A k \in 1 .. j : perf[d][k].ts <= perf[d][j].ts
    BY RecordTimes DEF TimeInv
  <2>3. Len(perf'[d]) \in Nat /\ Len(perf[d]) \in Nat
    <3>1. perf'[d] \in Seq(Event)
      BY DEF TypeOK
    <3> QED BY <3>1, RecordTimes
  <2>4. \A j \in 1 .. i : j \in 1 .. Len(perf'[d])
    BY <2>3
  <2>5. CASE i = Len(perf[d]) + 1 /\ perf'[d][i].ts = clock
    <3>1. \A j \in 1 .. i : perf'[d][j].ts <= clock
      BY <1>2, <2>1, <2>2, <2>4
    <3> QED BY <1>1, <1>2, <2>5, <3>1
  <2>6. CASE i \in 1 .. Len(perf[d]) /\ perf'[d][i] = perf[d][i]
    <3>1. \A j \in 1 .. i : j \in 1 .. Len(perf[d]) /\ perf'[d][j] = perf[d][j]
      BY <2>1, <2>3, <2>4, <2>6
    <3> QED BY <1>1, <1>2, <2>2, <2>6, <3>1
  <2> QED BY <2>1, <2>5, <2>6
<1>4. ElapsedSane'
  BY <1>1, <1>2 DEF TimeInv, ElapsedSane
<1>5. start_ts' < clock' /\ (start_ts' = 0 <=> timed' = <<>>)
  BY <1>1, <1>2 DEF TimeInv
<1> QED BY <1>3, <1>4, <1>5 DEF TimeInv

(* The oldest record of a buffer is timed.  If it is of the CPU the first  *)
(* one came from, it is no older than that and the difference is true.     *)
LEMMA TimeHandle ==
  ASSUME TypeOK, TypeOK', TimeInv, NEW c \in CPUs, handle_event(c)
  PROVE  TimeInv'
<1> USE ConstantsAssumption
<1> DEFINE x == perf[c][1].ts
<1>1. clock' = clock
  BY DEF handle_event, bpfVars
<1>2. clock \in Nat /\ start_ts \in Nat /\ start_ts' \in Nat /\ elapsed' \in Nat
  BY DEF TypeOK
<1>3. /\ 1 \in 1 .. Len(perf[c]) /\ x \in Nat /\ 0 < x /\ x < clock
      /\ timed # <<>> /\ c = timed[1] => start_ts <= x
  BY HandledRecords, RecordTimes DEF TimeInv
<1>4. \A i \in 1 .. Len(perf[c]) : perf[c][i].ts \in Nat /\ x <= perf[c][i].ts
  BY <1>3, RecordTimes DEF TimeInv
<1>5. \/ UNCHANGED <<start_ts, elapsed, timed>>
      \/ /\ start_ts' = IF start_ts = 0 THEN x ELSE start_ts
         /\ elapsed' = (x + TsMod - start_ts') % TsMod
         /\ timed' = IF timed = <<>> THEN <<c, c>> ELSE <<timed[1], c>>
  BY HandledRecords DEF handle_event
<1> HIDE DEF x
<1>6. start_ts = 0 <=> timed = <<>>
  BY DEF TimeInv
<1>7. /\ start_ts' < clock /\ (start_ts' = 0 <=> timed' = <<>>)
      /\ timed' # <<>> => \/ timed # <<>> /\ timed'[1] = timed[1] /\ start_ts' = start_ts
                          \/ timed = <<>> /\ timed'[1] = c /\ start_ts' = x
  <2>0. start_ts < clock
    BY DEF TimeInv
  <2>1. CASE UNCHANGED <<start_ts, elapsed, timed>>
    BY <1>6, <2>0, <2>1
  <2>2. CASE timed = <<>> /\ start_ts' = x /\ timed' = <<c, c>>
    <3>1. timed'[1] = c /\ timed' # <<>>
      BY <2>2
    <3> QED BY <1>3, <2>2, <3>1
  <2>3. CASE timed # <<>> /\ start_ts' = start_ts /\ timed' = <<timed[1], c>>
    <3>1. timed'[1] = timed[1] /\ timed' # <<>>
      BY <2>3
    <3> QED BY <1>6, <2>0, <2>3, <3>1
  <2> QED BY <1>5, <1>6, <2>1, <2>2, <2>3
<1>8. ElapsedSane'
  <2>1. CASE UNCHANGED <<start_ts, elapsed, timed>>
    BY <1>1, <2>1 DEF TimeInv, ElapsedSane
  <2>2. CASE /\ elapsed' = (x + TsMod - start_ts') % TsMod
             /\ start_ts' <= x
    <3>1. elapsed' <= x - start_ts'
      BY <1>2, <1>3, <2>2, WrapBound
    <3>2. ~(elapsed' > clock')
      <4>1. x \in Nat /\ x < clock /\ clock \in Nat /\ start_ts' \in Nat /\ elapsed' \in Nat
        BY <1>2, <1>3
      <4>2. ASSUME NEW e \in Nat, NEW a \in Nat, NEW b \in Nat, NEW k \in Nat,
                   e <= a - b, a < k
            PROVE  ~(e > k)
        BY <4>2
      <4> QED BY <1>1, <3>1, <4>1, <4>2
    <3> QED BY <3>2 DEF ElapsedSane
  <2>3. CASE timed # <<>> /\ timed' = <<timed[1], c>> /\ c # timed[1]
    <3>1. PICK a : a = timed[1]
      OBVIOUS
    <3>2. timed' = <<a, c>> /\ a # c
      BY <2>3, <3>1
    <3>3. timed'[1] # timed'[2]
      BY ONLY <3>2
    <3> QED BY <3>3 DEF ElapsedSane
  <2>4. CASE timed = <<>> /\ start_ts' = x /\ elapsed' = (x + TsMod - start_ts') % TsMod
    BY <1>3, <2>2, <2>4
  <2>5. CASE /\ timed # <<>> /\ timed' = <<timed[1], c>> /\ start_ts' = start_ts
             /\ elapsed' = (x + TsMod - start_ts') % TsMod
    <3>1. CASE c = timed[1]
      BY <1>3, <2>2, <2>5, <3>1
    <3>2. CASE c # timed[1]
      BY <2>3, <2>5, <3>2
    <3> QED BY <3>1, <3>2
  <2> QED BY <1>5, <1>6, <2>1, <2>4, <2>5
<1>9. ASSUME NEW d \in CPUs, NEW i \in 1 .. Len(perf'[d])
      PROVE  /\ 0 < perf'[d][i].ts /\ perf'[d][i].ts < clock
             /\ timed' # <<>> /\ d = timed'[1] => start_ts' <= perf'[d][i].ts
             /\ \A j \in 1 .. i : perf'[d][j].ts <= perf'[d][i].ts
  <2>1. CASE d # c
    <3>1. perf'[d] = perf[d]
      BY <2>1, HandledRecords
    <3> QED BY <1>7, <2>1, <3>1 DEF TimeInv
  <2>2. CASE d = c
    <3>1. \A j \in 1 .. Len(perf'[c]) : /\ j + 1 \in 1 .. Len(perf[c])
                                        /\ perf'[c][j] = perf[c][j + 1]
      BY HandledRecords
    <3>2. \A j \in 1 .. i : j \in 1 .. Len(perf'[c]) /\ j + 1 \in 1 .. i + 1
      BY <2>2 DEF TypeOK
    <3>3. i + 1 \in 1 .. Len(perf[c]) /\ perf'[d][i] = perf[c][i + 1]
      BY <2>2, <3>1
    <3>4. \A j \in 1 .. i : perf[c][j + 1].ts <= perf[c][i + 1].ts
      BY <3>2, <3>3 DEF TimeInv
    <3>5. timed' # <<>> /\ c = timed'[1] => start_ts' <= perf[c][i + 1].ts
      BY <1>2, <1>3, <1>4, <1>7, <3>3 DEF TimeInv
    <3>6. 0 < perf[c][i + 1].ts /\ perf[c][i + 1].ts < clock
      BY <3>3 DEF TimeInv
    <3> QED BY <2>2, <3>1, <3>2, <3>3, <3>4, <3>5, <3>6
  <2> QED BY <2>1, <2>2
<1> QED BY <1>1, <1>7, <1>8, <1>9 DEF TimeInv

LEMMA TimeStep ==
  ASSUME TypeOK, TypeOK', TimeInv, [Next]_vars
  PROVE  TimeInv'
<1>1. CASE UNCHANGED perf /\ UNCHANGED clock /\ UNCHANGED <<start_ts, elapsed, timed>>
  BY <1>1 DEF TimeInv, ElapsedSane
<1>2. CASE ClosePerf
  <2>1. UNCHANGED <<clock, start_ts, elapsed, timed>>
    BY <1>2 DEF ClosePerf, bpfVars
  <2> QED BY <1>2, <2>1, ClosedBuffers DEF TimeInv, ElapsedSane
<1> QED BY <1>1, <1>2, TimeReport, TimeHandle, PerfSteps

(* For any CPUs and any width of the time stamps, the unsigned difference  *)
(* to the first record wraps only for a record of another CPU than that    *)
(* one's: the buffer of each CPU is in time order.                         *)
THEOREM ElapsedIsSane == Spec => []ElapsedSane
<1>1. TypeOK /\ CountInv /\ TimeInv /\ [Next]_vars => TypeOK' /\ CountInv' /\ TimeInv'
  BY TypeStep, TimeStep
<1>2. Init => TimeInv
  <2> SUFFICES ASSUME Init PROVE TimeInv
    OBVIOUS
  <2>1. \A c \in CPUs : perf[c] = <<>>
    BY DEF Init
  <2>2. \A c \in CPUs : 1 .. Len(perf[c]) = {}
    BY <2>1
  <2> QED BY <2>2 DEF Init, TimeInv, ElapsedSane
<1>3. TimeInv => ElapsedSane
  BY DEF TimeInv
<1> QED BY <1>1, <1>2, <1>3, InitType, PTL DEF Spec

-----------------------------------------------------------------------------
(* The counters.  With CountsExact goes the size of the two maps: a flow   *)
(* is refused only at MaxFlows, and a map never grows beyond.              *)
WithinMap == \A ver \in Vers : Cardinality(InCounts(ver)) <= MaxFlows

LEMMA InCountsFinite ==
  ASSUME IsFiniteSet(Flows), NEW ver \in Vers
  PROVE  IsFiniteSet(InCounts(ver)) /\ Cardinality(InCounts(ver)) \in Nat
<1>1. InCounts(ver) \subseteq Flows
  BY DEF InCounts
<1> QED BY <1>1, FS_Subset, FS_CardinalityType

LEMMA CountsInit == Init => CountsExact /\ (IsFiniteSet(Flows) => WithinMap)
<1> SUFFICES ASSUME Init PROVE CountsExact /\ (IsFiniteSet(Flows) => WithinMap)
  OBVIOUS
<1>1. CountsExact
  BY DEF Init, CountsExact
<1>2. \A ver \in Vers : InCounts(ver) = {}
  BY DEF Init, InCounts, Keys
<1> QED BY <1>1, <1>2, FS_EmptySet, ConstantsAssumption DEF WithinMap

(* The steps that touch counters, their history or the refused flows.      *)
LEMMA CountSteps ==
  ASSUME [Next]_vars
  PROVE  \/ UNCHANGED <<counts, added, refused>>
         \/ \E t \in Threads : CountInit(t) \/ CountInitFails(t) \/ CountAdd(t)
<1>1. CASE Tool
  BY <1>1 DEF Tool, LoadAndAttach, InstallHandler, StartOutput, sig_int, handle_event,
     StopPolling, PollFails, ClosePerf, TestFlag, Pause, PrintCount, bpfVars, histVars
<1>2. ASSUME NEW t \in Threads, Probes(t)
      PROVE  \/ UNCHANGED <<counts, added, refused>>
             \/ CountInit(t) \/ CountInitFails(t) \/ CountAdd(t)
  BY <1>2 DEF Probes, EnterConnect, EnterMapped, ReturnUnseen, ExitNotFound, ExitSkip,
     ExitTrace, ExitCount, CountLookup, SyscallReturn, ChangeIdentity, histVars
<1>3. CASE UNCHANGED vars
  BY <1>3 DEF vars, histVars
<1> QED BY <1>1, <1>2, <1>3 DEF Next

LEMMA CountsStep ==
  ASSUME ~AllocFails, IsFiniteSet(Flows),
         TypeOK, CountInv, CountsExact, WithinMap, [Next]_vars
  PROVE  CountsExact' /\ WithinMap'
<1> USE ConstantsAssumption
<1>1. CASE UNCHANGED <<counts, added, refused>>
  BY <1>1 DEF CountsExact, WithinMap, InCounts
<1>2. ASSUME NEW t \in Threads, CountInit(t) PROVE CountsExact' /\ WithinMap'
  <2>0. PICK k \in Keys : k = step[t].key
    BY DEF TypeOK, Step
  <2>1. k[1] \in Vers /\ k[2] \in Flows /\ k = <<k[1], k[2]>>
    BY DEF Keys
  <2>2. UNCHANGED <<added, refused>>
    BY <1>2 DEF CountInit, histVars
  <2>3. CASE counts[k] # Missing
    <3>1. counts' = counts
      BY <1>2, <2>0, <2>3 DEF CountInit, TypeOK
    <3> QED BY <1>1, <2>2, <3>1
  <2>4. CASE counts[k] = Missing
    <3>1. Cardinality(InCounts(k[1])) < MaxFlows /\ counts' = [counts EXCEPT ![k] = 0]
      BY <1>2, <2>0, <2>4 DEF CountInit
    <3>2. counts'[k] = 0 /\ \A j \in Keys \ {k} : counts'[j] = counts[j]
      BY <2>1, <3>1 DEF TypeOK
    <3>3. /\ InCounts(k[1])' = InCounts(k[1]) \cup {k[2]} /\ k[2] \notin InCounts(k[1])
      <4>1. \A f \in Flows : <<k[1], f>> \in Keys /\ (<<k[1], f>> = k <=> f = k[2])
        BY <2>1 DEF Keys
      <4> QED BY <2>1, <2>4, <3>2, <4>1 DEF InCounts
    <3>4. \A ver \in Vers \ {k[1]} : InCounts(ver)' = InCounts(ver)
      <4>1. \A ver \in Vers \ {k[1]} : \A f \in Flows : <<ver, f>> \in Keys \ {k}
        BY <2>1 DEF Keys
      <4> QED BY <3>2, <4>1 DEF InCounts
    <3>5. Cardinality(InCounts(k[1])') = Cardinality(InCounts(k[1])) + 1
      BY <2>1, <3>3, InCountsFinite, FS_AddElement
    <3>6. WithinMap'
      <4> SUFFICES ASSUME NEW ver \in Vers PROVE Cardinality(InCounts(ver)') <= MaxFlows
        BY DEF WithinMap
      <4>1. CASE ver = k[1]
        BY <2>1, <3>1, <3>5, <4>1, InCountsFinite
      <4>2. CASE ver # k[1]
        BY <3>4, <4>2 DEF WithinMap
      <4> QED BY <4>1, <4>2
    <3>7. \A j \in refused : j[1] # k[1] /\ j # k /\ j \in Keys /\ j[1] \in Vers
      <4>1. \A j \in refused : j \in Keys /\ j[1] \in Vers
        BY DEF TypeOK, Keys
      <4>2. Cardinality(InCounts(k[1])) # MaxFlows
        BY <2>1, <3>1, InCountsFinite
      <4> QED BY <4>1, <4>2 DEF CountsExact
    <3>8. \A j \in Keys : IF counts'[j] = Missing THEN added'[j] = 0
                                                  ELSE counts'[j] = added'[j]
      BY <2>1, <2>2, <2>4, <3>2 DEF CountsExact
    <3>9. \A j \in refused' : counts'[j] = Missing /\ Cardinality(InCounts(j[1])') = MaxFlows
      BY <2>2, <3>2, <3>4, <3>7 DEF CountsExact
    <3> QED BY <3>6, <3>8, <3>9 DEF CountsExact
  <2> QED BY <2>3, <2>4
<1>3. ASSUME NEW t \in Threads, CountInitFails(t) PROVE CountsExact' /\ WithinMap'
  <2> DEFINE k == step[t].key
  <2>1. k \in Keys /\ k[1] \in Vers
    BY DEF TypeOK, Step, Keys
  <2>2. /\ UNCHANGED <<counts, added>> /\ refused' = refused \cup {k}
        /\ counts[k] = Missing /\ Cardinality(InCounts(k[1])) >= MaxFlows
    BY <1>3 DEF CountInitFails
  <2> HIDE DEF k
  <2>3. Cardinality(InCounts(k[1])) = MaxFlows
    BY <2>1, <2>2, InCountsFinite DEF WithinMap
  <2>4. \A ver : InCounts(ver)' = InCounts(ver)
    BY <2>2 DEF InCounts
  <2> QED BY <2>2, <2>3, <2>4 DEF CountsExact, WithinMap
<1>4. ASSUME NEW t \in Threads, CountAdd(t) PROVE CountsExact' /\ WithinMap'
  <2> DEFINE k == step[t].key
  <2>1. k \in Keys /\ counts[k] \in Nat /\ added[k] \in Nat
    BY <1>4 DEF CountAdd, CountInv, TypeOK, Step
  <2>2. /\ counts' = [counts EXCEPT ![k] = @ + 1] /\ added' = [added EXCEPT ![k] = @ + 1]
        /\ UNCHANGED refused
    BY <1>4 DEF CountAdd
  <2> HIDE DEF k
  <2>3. /\ \A j \in Keys : counts'[j] = Missing <=> counts[j] = Missing
        /\ counts'[k] = counts[k] + 1 /\ added'[k] = added[k] + 1
        /\ \A j \in Keys \ {k} : counts'[j] = counts[j] /\ added'[j] = added[j]
    BY <2>1, <2>2 DEF TypeOK
  <2>4. \A ver \in Vers : InCounts(ver)' = InCounts(ver)
    BY <2>3 DEF InCounts, Keys
  <2>5. \A j \in refused : j \in Keys /\ j[1] \in Vers
    BY DEF TypeOK, Keys
  <2>6. \A j \in Keys : IF counts'[j] = Missing THEN added'[j] = 0
                                                ELSE counts'[j] = added'[j]
    BY <2>1, <2>3 DEF CountsExact
  <2>7. \A j \in refused' : counts'[j] = Missing /\ Cardinality(InCounts(j[1])') = MaxFlows
    BY <2>2, <2>3, <2>4, <2>5 DEF CountsExact
  <2> QED BY <2>4, <2>6, <2>7 DEF CountsExact, WithinMap
<1> QED BY <1>1, <1>2, <1>3, <1>4, CountSteps

(* Racing first connects of a flow neither reset its counter nor lose an   *)
(* increment, for any threads and flows; if no allocation fails, a connect *)
(* goes uncounted only when the map of its version is full for good.       *)
THEOREM CountsAreExact ==
  ASSUME ~AllocFails, IsFiniteSet(Flows)
  PROVE  Spec => []CountsExact
<1>1. TypeOK /\ CountInv /\ CountsExact /\ WithinMap /\ [Next]_vars
      => TypeOK' /\ CountInv' /\ CountsExact' /\ WithinMap'
  BY TypeStep, CountsStep
<1>2. Init => TypeOK /\ CountInv /\ CountsExact /\ WithinMap
  BY InitType, CountsInit
<1> QED BY <1>1, <1>2, PTL DEF Spec
=============================================================================

-------------------------- MODULE SandboxRunProofs --------------------------
(***************************************************************************)
(* Proofs about SandboxRun, for all limits and slacks: the inductive       *)
(* invariant, the safety properties that follow from it, and the step      *)
(* simulation that makes SandboxRun an implementation of RunContract.      *)
(***************************************************************************)
EXTENDS SandboxRun, TLAPS

(* The invariant holds when the monitor has just been started. *)
LEMMA InitIInv == Init => IInv
  <1> SUFFICES ASSUME Init PROVE IInv
    OBVIOUS
  <1>0. pre \in 0 .. MaxPre /\ used \in 0 .. MaxCpu
    BY CpuAssumption DEF Init
  <1> USE DEF Init, BeforeStop, Looping, Closing, Tracing, Let, Sources, Fds, Kinds,
              TraceResults, TinyResults, Endings, Verdicts, Honest, Failed
  <1>1. ControllerTypes
    BY DEF ControllerTypes
  <1>2. MonitorTypes
    BY DEF MonitorTypes
  <1>3. ChildTypes
    BY <1>0 DEF ChildTypes
  <1>4. KernelTypes
    BY DEF KernelTypes
  <1>5. Apart
    BY DEF Apart
  <1>6. Handshake /\ Leash
    BY DEF Handshake, Leash
  <1>7. Ledger
    BY DEF Ledger
  <1>8. Decoding
    BY DEF Decoding
  <1>9. Patience
    BY DEF Patience
  <1>10. Calls /\ Slot
    BY DEF Calls, Slot
  <1>11. Alarms
    BY DEF Alarms
  <1>12. Outcome
    BY DEF Outcome
  <1>13. QED
    BY <1>1, <1>2, <1>3, <1>4, <1>5, <1>6, <1>7, <1>8, <1>9, <1>10, <1>11, <1>12
    DEF IInv, TypeOK

(* Sandbox.wait knows a verdict for every report, and none of them is "fail". *)
LEMMA ClassifyType == Classify(Report) \in Verdicts \ {"fail"}
  BY DEF Classify, Verdicts

(* SIGCONT leaves the kernel's part of the state well-typed. *)
LEMMA ContTypes == KernelTypes /\ (CCont \/ CClose) => KernelTypes'
  BY DEF KernelTypes, CCont, CClose, ContMonitor, Handler, MonitorExit

(* Every step preserves the invariant: one case per action. *)
LEMMA NextIInv == IInv /\ [Next]_vars => IInv'
  <1> SUFFICES ASSUME IInv, [Next]_vars PROVE IInv'
    OBVIOUS
  <1> USE LimitAssumption, CpuAssumption, WallAssumption
      DEF IInv, TypeOK, ControllerTypes, MonitorTypes, ChildTypes, KernelTypes, Apart,
          Handshake, Leash, Ledger, Decoding, Patience, Calls, Slot, Alarms, Outcome,
          BeforeStop, Looping, Closing, Tracing, Let, Sources, Fds, Kinds,
          TraceResults, TinyResults, Endings, Verdicts, Honest, Failed, cvars, mvars,
          pvars, child, kernel, vars
  <1>1. CASE CPopenReturns
    BY <1>1 DEF CPopenReturns, Report
  <1>2. CASE CStartReturns
    BY <1>2 DEF CStartReturns, Report
  <1>3. CASE CCont
    <2>1. TypeOK'
      <3>1. MonitorTypes'
        BY <1>3 DEF CCont, ContMonitor, Handler, MonitorExit, Alive
      <3>2. KernelTypes'
        BY <1>3, ContTypes
      <3>3. (ControllerTypes /\ ChildTypes)'
        BY <1>3 DEF CCont, ContMonitor, Handler, MonitorExit, Alive
      <3>4. QED
        BY <3>1, <3>2, <3>3
    <2>2. (Apart /\ Decoding)'
      BY <1>3 DEF CCont, ContMonitor, Handler, MonitorExit, Alive
    <2>3. (Handshake /\ Leash)'
      BY <1>3 DEF CCont, ContMonitor, Handler, MonitorExit, Alive
    <2>4. (Ledger /\ Patience)'
      BY <1>3 DEF CCont, ContMonitor, Handler, MonitorExit, Alive
    <2>5. (Calls /\ Slot)'
      BY <1>3 DEF CCont, ContMonitor, Handler, MonitorExit, Alive
    <2>6. (Alarms /\ Outcome)'
      BY <1>3 DEF CCont, ContMonitor, Handler, MonitorExit, Alive, Report
    <2>7. QED
      BY <2>1, <2>2, <2>3, <2>4, <2>5, <2>6
  <1>4. CASE CWaitReturns
    <2>1. TypeOK'
      BY <1>4 DEF CWaitReturns, ReadsResult, ExitCodeSeen
    <2>2. (Apart /\ Decoding)'
      BY <1>4 DEF CWaitReturns, ReadsResult, ExitCodeSeen
    <2>3. (Handshake /\ Leash)'
      BY <1>4 DEF CWaitReturns, ReadsResult, ExitCodeSeen
    <2>4. (Ledger /\ Patience)'
      BY <1>4 DEF CWaitReturns, ReadsResult, ExitCodeSeen
    <2>5. (Calls /\ Slot)'
      BY <1>4 DEF CWaitReturns, ReadsResult, ExitCodeSeen
    <2>6. (Alarms /\ Outcome)'
      BY <1>4 DEF CWaitReturns, ReadsResult, ExitCodeSeen, Report
    <2>7. QED
      BY <2>1, <2>2, <2>3, <2>4, <2>5, <2>6
  <1>5. CASE CRead
    <2>1. TypeOK'
      BY <1>5, ClassifyType DEF CRead, ReadVerdict
    <2>2. (Apart /\ Decoding)'
      BY <1>5 DEF CRead
    <2>3. (Handshake /\ Leash)'
      BY <1>5 DEF CRead
    <2>4. (Ledger /\ Patience)'
      BY <1>5 DEF CRead
    <2>5. (Calls /\ Slot)'
      BY <1>5 DEF CRead
    <2>6. (Alarms /\ Outcome)'
      BY <1>5, ClassifyType DEF CRead, ReadVerdict, Failed, Report
    <2>7. QED
      BY <2>1, <2>2, <2>3, <2>4, <2>5, <2>6
  <1>6. CASE CInterrupt
    BY <1>6 DEF CInterrupt, Report
  <1>7. CASE CClose
    <2>1. TypeOK'
      <3>1. MonitorTypes'
        BY <1>7 DEF CClose, NeedsFlush, ContMonitor, Handler, MonitorExit, Alive
      <3>2. KernelTypes'
        BY <1>7, ContTypes
      <3>3. (ControllerTypes /\ ChildTypes)'
        BY <1>7 DEF CClose, NeedsFlush, ContMonitor, Handler, MonitorExit, Alive
      <3>4. QED
        BY <3>1, <3>2, <3>3
    <2>2. (Apart /\ Decoding)'
      BY <1>7 DEF CClose, NeedsFlush, ContMonitor, Handler, MonitorExit, Alive
    <2>3. (Handshake /\ Leash)'
      BY <1>7 DEF CClose, NeedsFlush, ContMonitor, Handler, MonitorExit, Alive
    <2>4. (Ledger /\ Patience)'
      BY <1>7 DEF CClose, NeedsFlush, ContMonitor, Handler, MonitorExit, Alive
    <2>5. (Calls /\ Slot)'
      BY <1>7 DEF CClose, NeedsFlush, ContMonitor, Handler, MonitorExit, Alive
    <2>6. (Alarms /\ Outcome)'
      BY <1>7 DEF CClose, NeedsFlush, ContMonitor, Handler, MonitorExit, Alive,
         Report
    <2>7. QED
      BY <2>1, <2>2, <2>3, <2>4, <2>5, <2>6
  <1>8. CASE CGrace
    <2>1. TypeOK'
      BY <1>8 DEF CGrace, AlarmMonitor, Handles, Handler, MonitorExit, Alive
    <2>2. (Apart /\ Decoding)'
      BY <1>8 DEF CGrace, AlarmMonitor, Handles, Handler, MonitorExit, Alive
    <2>3. (Handshake /\ Leash)'
      BY <1>8 DEF CGrace, AlarmMonitor, Handles, Handler, MonitorExit, Alive
    <2>4. (Ledger /\ Patience)'
      BY <1>8 DEF CGrace, AlarmMonitor, Handles, Handler, MonitorExit, Alive
    <2>5. (Calls /\ Slot)'
      BY <1>8 DEF CGrace, AlarmMonitor, Handles, Handler, MonitorExit, Alive
    <2>6. (Alarms /\ Outcome)'
      BY <1>8 DEF CGrace, AlarmMonitor, Handles, Handler, MonitorExit, Alive, Report
    <2>7. QED
      BY <2>1, <2>2, <2>3, <2>4, <2>5, <2>6
  <1>9. CASE CExcept
    <2>1. TypeOK'
      BY <1>9 DEF CExcept, AlarmMonitor, Handles, Handler, MonitorExit, Alive
    <2>2. (Apart /\ Decoding)'
      BY <1>9 DEF CExcept, AlarmMonitor, Handles, Handler, MonitorExit, Alive
    <2>3. (Handshake /\ Leash)'
      BY <1>9 DEF CExcept, AlarmMonitor, Handles, Handler, MonitorExit, Alive
    <2>4. (Ledger /\ Patience)'
      BY <1>9 DEF CExcept, AlarmMonitor, Handles, Handler, MonitorExit, Alive
    <2>5. (Calls /\ Slot)'
      BY <1>9 DEF CExcept, AlarmMonitor, Handles, Handler, MonitorExit, Alive
    <2>6. (Alarms /\ Outcome)'
      BY <1>9 DEF CExcept, AlarmMonitor, Handles, Handler, MonitorExit, Alive, Report
    <2>7. QED
      BY <2>1, <2>2, <2>3, <2>4, <2>5, <2>6
  <1>10. CASE MBootFails
    <2>1. TypeOK'
      BY <1>10 DEF MBootFails, MonitorFails, MonitorExit, Alive
    <2>2. (Apart /\ Decoding)'
      BY <1>10 DEF MBootFails, MonitorFails, MonitorExit, Alive
    <2>3. (Handshake /\ Leash)'
      BY <1>10 DEF MBootFails, MonitorFails, MonitorExit, Alive
    <2>4. (Ledger /\ Patience)'
      BY <1>10 DEF MBootFails, MonitorFails, MonitorExit, Alive
    <2>5. (Calls /\ Slot)'
      BY <1>10 DEF MBootFails, MonitorFails, MonitorExit, Alive
    <2>6. (Alarms /\ Outcome)'
      BY <1>10 DEF MBootFails, MonitorFails, MonitorExit, Alive, Report
    <2>7. QED
      BY <2>1, <2>2, <2>3, <2>4, <2>5, <2>6
  <1>11. CASE MFork
    BY <1>11 DEF MFork, Report
  <1>11a. CASE MGrant
    BY <1>11a DEF MGrant, Report
  <1>11b. CASE MGrantFails
    <2>1. TypeOK'
      BY <1>11b DEF MGrantFails, MonitorFails, MonitorExit, Alive
    <2>2. (Apart /\ Decoding)'
      BY <1>11b DEF MGrantFails, MonitorFails, MonitorExit, Alive
    <2>3. (Handshake /\ Leash)'
      BY <1>11b DEF MGrantFails, MonitorFails, MonitorExit, Alive
    <2>4. (Ledger /\ Patience)'
      BY <1>11b DEF MGrantFails, MonitorFails, MonitorExit, Alive
    <2>5. (Calls /\ Slot)'
      BY <1>11b DEF MGrantFails, MonitorFails, MonitorExit, Alive
    <2>6. (Alarms /\ Outcome)'
      BY <1>11b DEF MGrantFails, MonitorFails, MonitorExit, Alive, Report
    <2>7. QED
      BY <2>1, <2>2, <2>3, <2>4, <2>5, <2>6
  <1>12. CASE MAwait
    BY <1>12 DEF MAwait, Report
  <1>13. CASE MStop
    BY <1>13 DEF MStop, AfterSelfStop, Report
  <1>14. CASE MSetup
    <2>1. TypeOK'
      BY <1>14 DEF MSetup, ClockStarted
    <2>2. (Apart /\ Decoding)'
      BY <1>14 DEF MSetup, ClockStarted
    <2>3. (Handshake /\ Leash)'
      BY <1>14 DEF MSetup, ClockStarted
    <2>4. (Ledger /\ Patience)'
      BY <1>14 DEF MSetup, ClockStarted
    <2>5. (Calls /\ Slot)'
      BY <1>14 DEF MSetup, ClockStarted
    <2>6. (Alarms /\ Outcome)'
      BY <1>14 DEF MSetup, ClockStarted, Report
    <2>7. QED
      BY <2>1, <2>2, <2>3, <2>4, <2>5, <2>6
  <1>15. CASE MSetupFails
    <2>1. TypeOK'
      BY <1>15 DEF MSetupFails, MonitorFails, MonitorExit, Alive
    <2>2. (Apart /\ Decoding)'
      BY <1>15 DEF MSetupFails, MonitorFails, MonitorExit, Alive
    <2>3. (Handshake /\ Leash)'
      BY <1>15 DEF MSetupFails, MonitorFails, MonitorExit, Alive
    <2>4. (Ledger /\ Patience)'
      BY <1>15 DEF MSetupFails, MonitorFails, MonitorExit, Alive
    <2>5. (Calls /\ Slot)'
      BY <1>15 DEF MSetupFails, MonitorFails, MonitorExit, Alive
    <2>6. (Alarms /\ Outcome)'
      BY <1>15 DEF MSetupFails, MonitorFails, MonitorExit, Alive, Report
    <2>7. QED
      BY <2>1, <2>2, <2>3, <2>4, <2>5, <2>6
  <1>16. CASE MResume
    <2>1. TypeOK'
      BY <1>16 DEF MResume
    <2>2. (Apart /\ Decoding)'
      BY <1>16 DEF MResume
    <2>3. (Handshake /\ Leash)'
      BY <1>16 DEF MResume
    <2>4. (Ledger /\ Patience)'
      BY <1>16 DEF MResume
    <2>5. (Calls /\ Slot)'
      BY <1>16 DEF MResume
    <2>6. (Alarms /\ Outcome)'
      BY <1>16 DEF MResume, Report
    <2>7. QED
      BY <2>1, <2>2, <2>3, <2>4, <2>5, <2>6
  <1>17. CASE MPoll
    <2>1. TypeOK'
      BY <1>17 DEF MPoll, Readable
    <2>2. (Apart /\ Decoding)'
      BY <1>17 DEF MPoll, Readable
    <2>3. (Handshake /\ Leash)'
      BY <1>17 DEF MPoll, Readable
    <2>4. (Ledger /\ Patience)'
      BY <1>17 DEF MPoll, Readable
    <2>5. (Calls /\ Slot)'
      BY <1>17 DEF MPoll, Readable
    <2>6. (Alarms /\ Outcome)'
      BY <1>17 DEF MPoll, Readable, Report
    <2>7. QED
      BY <2>1, <2>2, <2>3, <2>4, <2>5, <2>6
  <1>18. CASE MTimer
    <2>1. TypeOK'
      BY <1>18 DEF MTimer, TimeoutKills, Alive
    <2>2. (Apart /\ Decoding)'
      BY <1>18 DEF MTimer, TimeoutKills, Alive
    <2>3. (Handshake /\ Leash)'
      BY <1>18 DEF MTimer, TimeoutKills, Alive
    <2>4. (Ledger /\ Patience)'
      BY <1>18 DEF MTimer, TimeoutKills, Alive
    <2>5. (Calls /\ Slot)'
      BY <1>18 DEF MTimer, TimeoutKills, Alive
    <2>6. (Alarms /\ Outcome)'
      BY <1>18 DEF MTimer, TimeoutKills, Alive, Report
    <2>7. QED
      BY <2>1, <2>2, <2>3, <2>4, <2>5, <2>6
  <1>19. CASE MSignal
    BY <1>19 DEF MSignal, TakesSignal, Report
  <1>20. CASE MRecv
    <2>1. TypeOK'
      BY <1>20 DEF MRecv
    <2>2. (Apart /\ Decoding)'
      BY <1>20 DEF MRecv
    <2>3. (Handshake /\ Leash)'
      BY <1>20 DEF MRecv
    <2>4. (Ledger /\ Patience)'
      BY <1>20 DEF MRecv
    <2>5. (Calls /\ Slot)'
      BY <1>20 DEF MRecv
    <2>6. (Alarms /\ Outcome)'
      BY <1>20 DEF MRecv, Report
    <2>7. QED
      BY <2>1, <2>2, <2>3, <2>4, <2>5, <2>6
  <1>21. CASE MRecvFails
    <2>1. TypeOK'
      BY <1>21 DEF MRecvFails, MonitorFails, MonitorExit, Alive
    <2>2. (Apart /\ Decoding)'
      BY <1>21 DEF MRecvFails, MonitorFails, MonitorExit, Alive
    <2>3. (Handshake /\ Leash)'
      BY <1>21 DEF MRecvFails, MonitorFails, MonitorExit, Alive
    <2>4. (Ledger /\ Patience)'
      BY <1>21 DEF MRecvFails, MonitorFails, MonitorExit, Alive
    <2>5. (Calls /\ Slot)'
      BY <1>21 DEF MRecvFails, MonitorFails, MonitorExit, Alive
    <2>6. (Alarms /\ Outcome)'
      BY <1>21 DEF MRecvFails, MonitorFails, MonitorExit, Alive, Report
    <2>7. QED
      BY <2>1, <2>2, <2>3, <2>4, <2>5, <2>6
  <1>22. CASE MForbid
    BY <1>22 DEF MForbid, Alive, Report
  <1>22a. CASE MAborts
    <2>1. TypeOK'
      BY <1>22a DEF MAborts, MonitorExit, Alive
    <2>2. (Apart /\ Decoding)'
      BY <1>22a DEF MAborts, MonitorExit, Alive
    <2>3. (Handshake /\ Leash)'
      BY <1>22a DEF MAborts, MonitorExit, Alive
    <2>4. (Ledger /\ Patience)'
      BY <1>22a DEF MAborts, MonitorExit, Alive
    <2>5. (Calls /\ Slot)'
      BY <1>22a DEF MAborts, MonitorExit, Alive
    <2>6. (Alarms /\ Outcome)'
      BY <1>22a DEF MAborts, MonitorExit, Alive, Report
    <2>7. QED
      BY <2>1, <2>2, <2>3, <2>4, <2>5, <2>6
  <1>23. CASE MSend
    <2>1. TypeOK'
      BY <1>23 DEF MSend, StageAfter
    <2>2. (Apart /\ Decoding)'
      BY <1>23 DEF MSend, StageAfter
    <2>3. (Handshake /\ Leash)'
      BY <1>23 DEF MSend, StageAfter
    <2>4. (Ledger /\ Patience)'
      BY <1>23 DEF MSend, StageAfter
    <2>5. (Calls /\ Slot)'
      BY <1>23 DEF MSend, StageAfter
    <2>6. (Alarms /\ Outcome)'
      BY <1>23 DEF MSend, StageAfter, Report
    <2>7. QED
      BY <2>1, <2>2, <2>3, <2>4, <2>5, <2>6
  <1>24. CASE MSendFails
    <2>1. TypeOK'
      BY <1>24 DEF MSendFails, MonitorFails, MonitorExit, Alive
    <2>2. (Apart /\ Decoding)'
      BY <1>24 DEF MSendFails, MonitorFails, MonitorExit, Alive
    <2>3. (Handshake /\ Leash)'
      BY <1>24 DEF MSendFails, MonitorFails, MonitorExit, Alive
    <2>4. (Ledger /\ Patience)'
      BY <1>24 DEF MSendFails, MonitorFails, MonitorExit, Alive
    <2>5. (Calls /\ Slot)'
      BY <1>24 DEF MSendFails, MonitorFails, MonitorExit, Alive
    <2>6. (Alarms /\ Outcome)'
      BY <1>24 DEF MSendFails, MonitorFails, MonitorExit, Alive, Report
    <2>7. QED
      BY <2>1, <2>2, <2>3, <2>4, <2>5, <2>6
  <1>25. CASE MReap
    BY <1>25 DEF MReap, Reapable, Report
  <1>26. CASE MWrite
    BY <1>26 DEF MWrite, Report
  <1>27. CASE MLeave
    <2>1. TypeOK'
      BY <1>27 DEF MLeave, MonitorExit, Alive
    <2>2. (Apart /\ Decoding)'
      BY <1>27 DEF MLeave, MonitorExit, Alive
    <2>3. (Handshake /\ Leash)'
      BY <1>27 DEF MLeave, MonitorExit, Alive
    <2>4. (Ledger /\ Patience)'
      BY <1>27 DEF MLeave, MonitorExit, Alive
    <2>5. (Calls /\ Slot)'
      BY <1>27 DEF MLeave, MonitorExit, Alive
    <2>6. (Alarms /\ Outcome)'
      BY <1>27 DEF MLeave, MonitorExit, Alive, Report
    <2>7. QED
      BY <2>1, <2>2, <2>3, <2>4, <2>5, <2>6
  <1>28. CASE TFork
    BY <1>28 DEF TFork, Report
  <1>29. CASE THandler
    BY <1>29 DEF THandler, Report
  <1>30. CASE TAwait
    BY <1>30 DEF TAwait, Report
  <1>31. CASE TRelease
    <2>1. TypeOK'
      BY <1>31 DEF TRelease
    <2>2. (Apart /\ Decoding)'
      BY <1>31 DEF TRelease
    <2>3. (Handshake /\ Leash)'
      BY <1>31 DEF TRelease
    <2>4. (Ledger /\ Patience)'
      BY <1>31 DEF TRelease
    <2>5. (Calls /\ Slot)'
      BY <1>31 DEF TRelease
    <2>6. (Alarms /\ Outcome)'
      BY <1>31 DEF TRelease, Report
    <2>7. QED
      BY <2>1, <2>2, <2>3, <2>4, <2>5, <2>6
  <1>32. CASE TArm
    BY <1>32 DEF TArm, Report
  <1>33. CASE TTrace
    <2>1. TypeOK'
      BY <1>33 DEF TTrace, Decoded, Alive
    <2>2. (Apart /\ Decoding)'
      <3>1. Apart'
        BY <1>33 DEF TTrace, Decoded, Alive
      <3>2. Decoding'
        BY <1>33 DEF TTrace, Decoded, Alive, BoxLimit
      <3>3. QED
        BY <3>1, <3>2
    <2>3. (Handshake /\ Leash)'
      BY <1>33 DEF TTrace, Decoded, Alive
    <2>4. (Ledger /\ Patience)'
      BY <1>33 DEF TTrace, Decoded, Alive
    <2>5. (Calls /\ Slot)'
      BY <1>33 DEF TTrace, Decoded, Alive
    <2>6. (Alarms /\ Outcome)'
      BY <1>33 DEF TTrace, Decoded, Alive, Report
    <2>7. QED
      BY <2>1, <2>2, <2>3, <2>4, <2>5, <2>6
  <1>34. CASE TOverdue
    <2>1. TypeOK'
      BY <1>34 DEF TOverdue
    <2>2. (Apart /\ Decoding)'
      BY <1>34 DEF TOverdue
    <2>3. (Handshake /\ Leash)'
      BY <1>34 DEF TOverdue
    <2>4. (Ledger /\ Patience)'
      BY <1>34 DEF TOverdue
    <2>5. (Calls /\ Slot)'
      BY <1>34 DEF TOverdue
    <2>6. (Alarms /\ Outcome)'
      BY <1>34 DEF TOverdue, Report
    <2>7. QED
      BY <2>1, <2>2, <2>3, <2>4, <2>5, <2>6
  <1>35. CASE KGuard
    BY <1>35 DEF KGuard, DeathSignal, Report
  <1>36. CASE KPrepare
    BY <1>36 DEF KPrepare, Report
  <1>37. CASE KHalt
    BY <1>37 DEF KHalt, Report
  <1>38. CASE KBrokenPipe
    BY <1>38 DEF KBrokenPipe, ChildEnds, PostSigchld, Watching, Report
  <1>39. CASE KResume
    <2>1. TypeOK'
      BY <1>39 DEF KResume, PostSigchld, Watching
    <2>2. (Apart /\ Decoding)'
      BY <1>39 DEF KResume, PostSigchld, Watching
    <2>3. (Handshake /\ Leash)'
      BY <1>39 DEF KResume, PostSigchld, Watching
    <2>4. (Ledger /\ Patience)'
      BY <1>39 DEF KResume, PostSigchld, Watching
    <2>5. (Calls /\ Slot)'
      BY <1>39 DEF KResume, PostSigchld, Watching
    <2>6. (Alarms /\ Outcome)'
      BY <1>39 DEF KResume, PostSigchld, Watching, Report
    <2>7. QED
      BY <2>1, <2>2, <2>3, <2>4, <2>5, <2>6
  <1>40. CASE KCall
    <2>1. TypeOK'
      BY <1>40 DEF KCall, Executing
    <2>2. (Apart /\ Decoding)'
      BY <1>40 DEF KCall, Executing
    <2>3. (Handshake /\ Leash)'
      BY <1>40 DEF KCall, Executing
    <2>4. (Ledger /\ Patience)'
      BY <1>40 DEF KCall, Executing
    <2>5. (Calls /\ Slot)'
      BY <1>40 DEF KCall, Executing
    <2>6. (Alarms /\ Outcome)'
      BY <1>40 DEF KCall, Executing, Report
    <2>7. QED
      BY <2>1, <2>2, <2>3, <2>4, <2>5, <2>6
  <1>41. CASE KBurn
    <2>1. TypeOK'
      BY <1>41 DEF KBurn, Executing
    <2>2. (Apart /\ Decoding)'
      BY <1>41 DEF KBurn, Executing, BoxLimit
    <2>3. (Handshake /\ Leash)'
      BY <1>41 DEF KBurn, Executing
    <2>4. (Ledger /\ Patience)'
      BY <1>41 DEF KBurn, Executing
    <2>5. (Calls /\ Slot)'
      BY <1>41 DEF KBurn, Executing
    <2>6. (Alarms /\ Outcome)'
      BY <1>41 DEF KBurn, Executing, Report
    <2>7. QED
      BY <2>1, <2>2, <2>3, <2>4, <2>5, <2>6
  <1>42. CASE KGrow
    BY <1>42 DEF KGrow, Executing, Report
  <1>43. CASE KEnd
    <2>1. TypeOK'
      BY <1>43 DEF KEnd, Executing, ChildEnds, PostSigchld, Watching
    <2>2. (Apart /\ Decoding)'
      BY <1>43 DEF KEnd, Executing, ChildEnds, PostSigchld, Watching
    <2>3. (Handshake /\ Leash)'
      BY <1>43 DEF KEnd, Executing, ChildEnds, PostSigchld, Watching
    <2>4. (Ledger /\ Patience)'
      BY <1>43 DEF KEnd, Executing, ChildEnds, PostSigchld, Watching
    <2>5. (Calls /\ Slot)'
      BY <1>43 DEF KEnd, Executing, ChildEnds, PostSigchld, Watching
    <2>6. (Alarms /\ Outcome)'
      BY <1>43 DEF KEnd, Executing, ChildEnds, PostSigchld, Watching, Report
    <2>7. QED
      BY <2>1, <2>2, <2>3, <2>4, <2>5, <2>6
  <1>44. CASE KProf
    <2>1. TypeOK'
      BY <1>44 DEF KProf, Executing, ChildEnds, PostSigchld, Watching
    <2>2. (Apart /\ Decoding)'
      BY <1>44 DEF KProf, Executing, ChildEnds, PostSigchld, Watching
    <2>3. (Handshake /\ Leash)'
      BY <1>44 DEF KProf, Executing, ChildEnds, PostSigchld, Watching
    <2>4. (Ledger /\ Patience)'
      BY <1>44 DEF KProf, Executing, ChildEnds, PostSigchld, Watching
    <2>5. (Calls /\ Slot)'
      BY <1>44 DEF KProf, Executing, ChildEnds, PostSigchld, Watching
    <2>6. (Alarms /\ Outcome)'
      BY <1>44 DEF KProf, Executing, ChildEnds, PostSigchld, Watching, Report
    <2>7. QED
      BY <2>1, <2>2, <2>3, <2>4, <2>5, <2>6
  <1>45. CASE KRlimit
    <2>1. TypeOK'
      BY <1>45 DEF KRlimit, Executing, ChildEnds, PostSigchld, Watching
    <2>2. (Apart /\ Decoding)'
      BY <1>45 DEF KRlimit, Executing, ChildEnds, PostSigchld, Watching
    <2>3. (Handshake /\ Leash)'
      BY <1>45 DEF KRlimit, Executing, ChildEnds, PostSigchld, Watching
    <2>4. (Ledger /\ Patience)'
      BY <1>45 DEF KRlimit, Executing, ChildEnds, PostSigchld, Watching
    <2>5. (Calls /\ Slot)'
      BY <1>45 DEF KRlimit, Executing, ChildEnds, PostSigchld, Watching
    <2>6. (Alarms /\ Outcome)'
      BY <1>45 DEF KRlimit, Executing, ChildEnds, PostSigchld, Watching, Report
    <2>7. QED
      BY <2>1, <2>2, <2>3, <2>4, <2>5, <2>6
  <1>46. CASE KOwnSignalHandled
    BY <1>46 DEF KOwnSignalHandled, Report
  <1>47. CASE KOwnSignalKills
    BY <1>47 DEF KOwnSignalKills, ChildEnds, PostSigchld, Watching, Report
  <1>48. CASE KExec
    BY <1>48 DEF KExec, Report
  <1>49. CASE KPause
    BY <1>49 DEF KPause, Report
  <1>50. CASE KKilled
    <2>1. TypeOK'
      BY <1>50 DEF KKilled, Alive, ChildEnds, PostSigchld, Watching
    <2>2. (Apart /\ Decoding)'
      BY <1>50 DEF KKilled, Alive, ChildEnds, PostSigchld, Watching
    <2>3. (Handshake /\ Leash)'
      <3>1. Handshake'
        BY <1>50 DEF KKilled, Alive, ChildEnds, PostSigchld, Watching
      <3>2. Leash'
        BY <1>50 DEF KKilled, Alive, ChildEnds, PostSigchld, Watching
      <3>3. QED
        BY <3>1, <3>2
    <2>4. (Ledger /\ Patience)'
      BY <1>50 DEF KKilled, Alive, ChildEnds, PostSigchld, Watching
    <2>5. (Calls /\ Slot)'
      BY <1>50 DEF KKilled, Alive, ChildEnds, PostSigchld, Watching
    <2>6. (Alarms /\ Outcome)'
      BY <1>50 DEF KKilled, Alive, ChildEnds, PostSigchld, Watching, Report
    <2>7. QED
      BY <2>1, <2>2, <2>3, <2>4, <2>5, <2>6
  <1>51. CASE KTimer
    BY <1>51 DEF KTimer, Report
  <1>52. CASE TTimer
    <2>1. TypeOK'
      BY <1>52 DEF TTimer, AlarmMonitor, Handles, Handler, MonitorExit, Alive
    <2>2. (Apart /\ Decoding)'
      BY <1>52 DEF TTimer, AlarmMonitor, Handles, Handler, MonitorExit, Alive
    <2>3. (Handshake /\ Leash)'
      BY <1>52 DEF TTimer, AlarmMonitor, Handles, Handler, MonitorExit, Alive
    <2>4. (Ledger /\ Patience)'
      BY <1>52 DEF TTimer, AlarmMonitor, Handles, Handler, MonitorExit, Alive
    <2>5. (Calls /\ Slot)'
      BY <1>52 DEF TTimer, AlarmMonitor, Handles, Handler, MonitorExit, Alive
    <2>6. (Alarms /\ Outcome)'
      BY <1>52 DEF TTimer, AlarmMonitor, Handles, Handler, MonitorExit, Alive, Report
    <2>7. QED
      BY <2>1, <2>2, <2>3, <2>4, <2>5, <2>6
  <1>53. CASE UNCHANGED vars
    BY <1>53 DEF Report
  <1>54. QED
    BY <1>1, <1>2, <1>3, <1>4, <1>5, <1>6, <1>7, <1>8, <1>9, <1>10, <1>11, <1>12,
       <1>11a, <1>11b, <1>22a, <1>13, <1>14, <1>15, <1>16, <1>17, <1>18, <1>19, <1>20, <1>21, <1>22, <1>23,
       <1>24, <1>25, <1>26, <1>27, <1>28, <1>29, <1>30, <1>31, <1>32, <1>33, <1>34,
       <1>35, <1>36, <1>37, <1>38, <1>39, <1>40, <1>41, <1>42, <1>43, <1>44, <1>45,
       <1>46, <1>47, <1>48, <1>49, <1>50, <1>51, <1>52, <1>53 DEF Next, Controller,
       Monitor, FullMonitor, TinyMonitor, Child

(* SandboxRun satisfies its inductive invariant. *)
THEOREM Invariance == Spec => []IInv
  <1>1. Init => IInv
    BY InitIInv
  <1>2. IInv /\ [Next]_vars => IInv'
    BY NextIInv
  <1>3. QED
    BY <1>1, <1>2, PTL DEF Spec

(* Type correctness: every variable stays in its set (TypeOK). *)
THEOREM TypeCorrect == Spec => []TypeOK
  <1>1. IInv => TypeOK
    BY DEF IInv
  <1>2. QED
    BY <1>1, Invariance, PTL

(* A program runs only after the controller's SIGCONT, and under a started    *)
(* wall clock, or one that the monitor's next step starts, unless it is about *)
(* to be killed.                                                             *)
THEOREM AlwaysWatched == Spec => []NeverUnwatched
  <1>1. IInv => NeverUnwatched
    BY DEF IInv, Handshake, Leash, NeverUnwatched, Let, Tracing
  <1>2. QED
    BY <1>1, Invariance, PTL

(* The exit of the child is never lost behind the SIGCHLD of its continuation. *)
THEOREM ExitNeverLost == Spec => []ExitNoticed
  <1>1. IInv => ExitNoticed
    BY DEF IInv, Slot, Looping, ExitNoticed
  <1>2. QED
    BY <1>1, Invariance, PTL

(* A verdict about the program rests on a whole result file and on the exit  *)
(* status 0 of the monitor that wrote it, whatever Popen made of that status *)
(* and whatever became of the file on the disk.                              *)
THEOREM JudgedByReport == Spec => []VerdictReported
  <1>1. IInv => VerdictReported
    BY DEF IInv, Outcome, VerdictReported
  <1>2. QED
    BY <1>1, Invariance, PTL

(* A verdict about the program comes after its death; a program that stopped *)
(* itself in the fast sandbox is then about to be killed.                    *)
THEOREM JudgedAfterDeath == Spec => []VerdictAfterDeath
  <1>1. ASSUME IInv, verdict \notin {"none", "fail"}
        PROVE  stage = "dead" \/ (trust /\ stage = "paused" /\ killed)
    <2>1. stage \in {"dead", "paused"}
      BY <1>1 DEF IInv, Outcome
    <2>2. mpc = "exited"
      BY <1>1 DEF IInv, Outcome, TypeOK, MonitorTypes
    <2>3. QED
      BY <1>1, <2>1, <2>2 DEF IInv, Apart, Leash
  <1>2. IInv => VerdictAfterDeath
    BY <1>1 DEF VerdictAfterDeath
  <1>3. QED
    BY <1>2, Invariance, PTL

(* A program without timers of its own that dies of its own signal is judged *)
(* itself, never called a failure of the sandbox.                            *)
THEOREM OwnDeathIsJudged == Spec => []HonestDeathJudged
  <1>1. IInv => HonestDeathJudged
    BY DEF IInv, TypeOK, MonitorTypes, Ledger, Patience, Alarms, Outcome, OwnDeathJudged,
       HonestDeathJudged, Honest, Written, Failed
  <1>2. QED
    BY <1>1, Invariance, PTL

(* A program killed for its CPU time is told so, provided that the redundancy *)
(* exceeds what the child uses before it stops itself.  In the fast sandbox,  *)
(* where no status word says it, its time alone does.                        *)
THEOREM CpuKillIsToldSo ==
  ASSUME Redundancy > MaxPre PROVE Spec => []CpuKillIsTl
  <1>1. ASSUME IInv, Honest, Written, verdict # "none", ending \in {"prof", "cpu"}
        PROVE  verdict \in {"tl", "fb"}
    <2>1. verdict # "fail"
      BY <1>1 DEF IInv, TypeOK, MonitorTypes, Honest, Written, Failed, Ledger, Patience,
         Alarms, Outcome
    <2>2. verdict = Classify(Report)
      BY <1>1, <2>1 DEF IInv, Outcome
    <2>3. pre \in 0 .. MaxPre /\ used \in 0 .. MaxCpu
      BY <1>1 DEF IInv, TypeOK, ChildTypes
    <2>4. ending = "prof" => used >= BoxLimit + ChildSlack
      BY <1>1 DEF IInv, Ledger
    <2>5. ending = "cpu" => pre + used >= RlimitCpu
      BY <1>1 DEF IInv, Ledger
    <2>6. used > TimeLimit
      BY <1>1, <2>3, <2>4, <2>5, LimitAssumption, CpuAssumption, Redundancy > MaxPre
      DEF BoxLimit
    <2>7. QED
      BY <2>2, <2>6 DEF Classify, TimedOut, Report
  <1>2. IInv => CpuKillIsTl
    BY <1>1 DEF CpuKillIsTl
  <1>3. QED
    BY <1>2, Invariance, PTL

(* What the fast sandbox's monitor says of a program judged for its own sake. *)
LEMMA TrustedReport ==
  ASSUME IInv, trust, mexit = "0"
  PROVE  /\ stage \in {"dead", "paused"} /\ ret \in TinyResults
         /\ ret = "overdue" => timer = "fired" \/ intr # "none"
         /\ ret = "tle" => used > BoxLimit
         /\ ret = "mle" => big
         /\ ret \in {"exit0", "exitN"} => ending = ret
         /\ ret = "sig" => stage = "paused" \/ ending \in {"sig", "cpu", "xfsz"}
         /\ stage = "paused" => ending = "none"
         /\ stage = "dead" => ending \in Endings \ {"prof"}
  BY DEF IInv, Apart, Decoding, Ledger, Outcome, TypeOK, ChildTypes

(* An honest program is told "ok", or of its own signal, whenever there is   *)
(* some redundancy.                                                          *)
THEOREM HonestIsTold ==
  ASSUME Redundancy > 0 PROVE Spec => []HonestIsJudged
  <1>1. ASSUME IInv, Honest, Written, verdict # "none", ending = "exit0",
               used <= TimeLimit, ~big, ~asked, timer # "fired"
        PROVE  verdict = "ok"
    <2>1. verdict = Classify(Report) /\ mexit = "0" /\ intr = "none"
      BY <1>1 DEF IInv, TypeOK, MonitorTypes, Honest, Written, Failed, Ledger, Patience,
         Alarms, Outcome
    <2>2. used < BoxLimit /\ used \in Nat
      BY <1>1, LimitAssumption, CpuAssumption, Redundancy > 0
      DEF BoxLimit, IInv, TypeOK, ChildTypes
    <2>3. Report.stat = "exit0"
      <3>1. CASE trust
        <4>1. ret = "exit0"
          BY <1>1, <2>1, <2>2, <3>1, LimitAssumption, TrustedReport
          DEF TinyResults, BoxLimit, IInv, Outcome
        <4>2. QED
          BY <3>1, <4>1 DEF Report
      <3>2. CASE ~trust
        <4>1. ret = "none"
          BY <1>1, <3>2 DEF IInv, Apart, Honest, Ledger, Patience, TraceResults
        <4>2. StatusOf(ret, ending, used) = "exit0"
          BY <1>1, <2>2, <4>1, LimitAssumption
          DEF StatusOf, TracedStatus, DecodeWait, BoxLimit
        <4>3. QED
          BY <3>2, <4>2 DEF Report
      <3>3. QED
        BY <3>1, <3>2
    <2>4. Report.used = used /\ Report.big = big
      BY DEF Report
    <2>5. QED
      BY <1>1, <2>1, <2>2, <2>3, <2>4, LimitAssumption DEF Classify, TimedOut
  <1>2. IInv => HonestDeathJudged
    BY DEF IInv, TypeOK, MonitorTypes, Ledger, Patience, Alarms, Outcome, OwnDeathJudged,
       HonestDeathJudged, Honest, Written, Failed
  <1>3. IInv => HonestIsJudged
    BY <1>1, <1>2 DEF HonestIsJudged
  <1>4. QED
    BY <1>3, Invariance, PTL

-----------------------------------------------------------------------------
(* SandboxRun implements RunContract. *)

(* The verdict the controller reads is one the facts justify. *)
LEMMA ReadIsJustified ==
  ASSUME IInv, cpc = "read", mexit = "0" PROVE Contract!Justified(Classify(Report))
  <1>1. /\ used \in Nat /\ big \in BOOLEAN
        /\ Report.used = used /\ Report.big = big
    BY CpuAssumption DEF IInv, TypeOK, ChildTypes, Report
  <1>2. /\ Report.stat \in Statuses \cup {"mle"}
        /\ Report.stat = "fbd" => asked
        /\ Report.stat = "overdue" => timer = "fired"
        /\ Report.stat = "tle" => used >= BoxLimit \/ AbsProg = "prof"
        /\ Report.stat = "ole" => AbsProg = "xfsz"
        /\ Report.stat = "sig" => AbsProg \in {"sig", "cpu"}
        /\ Report.stat = "mle" => big
        /\ Report.stat = "exitN" => AbsProg = "exitN"
        /\ Report.stat = "exit0" => AbsProg = "exit0"
    <2>1. CASE trust
      <3>1. intr = "none"
        BY DEF IInv, Outcome
      <3>2. Report.stat = ret
        BY <2>1 DEF Report
      <3>3. used > BoxLimit => used >= BoxLimit
        BY <1>1, LimitAssumption DEF BoxLimit
      <3>4. QED
        BY <2>1, <3>1, <3>2, <3>3, TrustedReport
        DEF TinyResults, Statuses, AbsProg, Endings
    <2>2. CASE ~trust
      <3>1. /\ stage = "dead" /\ ending \in Endings /\ ret \in {"none", "overdue", "fbd"}
            /\ ret = "overdue" => timer = "fired"
            /\ ret = "fbd" => asked
        BY <2>2 DEF IInv, TypeOK, ChildTypes, Apart, TraceResults, Ledger, Outcome
      <3>2. AbsProg = ending
        BY <2>2, <3>1 DEF AbsProg
      <3>3. Report.stat = StatusOf(ret, ending, used)
        BY <2>2 DEF Report
      <3>4. QED
        BY <3>1, <3>2, <3>3 DEF StatusOf, TracedStatus, DecodeWait, Statuses, Endings
    <2>3. QED
      BY <2>1, <2>2
  <1>3. Report.stat = "fbd" => Classify(Report) = "fb"
    BY DEF Classify
  <1>4. TimedOut(Report) /\ Report.stat # "fbd" =>
          Classify(Report) = "tl" /\ (timer = "fired" \/ used > TimeLimit
                                     \/ used >= BoxLimit \/ AbsProg = "prof")
    BY <1>1, <1>2 DEF Classify, TimedOut
  <1>5. ~TimedOut(Report) => used <= TimeLimit /\ Report.stat \notin {"tle", "overdue"}
    BY <1>1, LimitAssumption DEF TimedOut
  <1>6. CASE Report.stat = "fbd"
    BY <1>2, <1>3, <1>6 DEF Contract!Justified
  <1>7. CASE TimedOut(Report) /\ Report.stat # "fbd"
    BY <1>4, <1>7 DEF Contract!Justified, Contract!BoxLimit, BoxLimit
  <1>8. CASE ~TimedOut(Report) /\ Report.stat # "fbd" /\ big
    BY <1>1, <1>5, <1>8 DEF Contract!Justified, Classify
  <1>9. CASE ~TimedOut(Report) /\ Report.stat # "fbd" /\ ~big
    BY <1>1, <1>2, <1>5, <1>9 DEF Contract!Justified, Classify, Statuses
  <1>10. QED
    BY <1>6, <1>7, <1>8, <1>9

(* Which parts of the state a step of the abstract run is made of. *)
AbsVars == <<AbsPhase, freed, AbsProg, used, big, asked, timer = "fired",
             Failed, verdict>>

(* A sandbox not yet forked is a contract not yet entered.                 *)
LEMMA InitRefines == Init => Contract!Init
  BY DEF Init, Contract!Init, AbsPhase, AbsProg, Failed

(* Every step of the detailed run is a step of the contract or changes none  *)
(* of its variables.                                                         *)
LEMMA StepRefines == IInv /\ IInv' /\ [Next]_vars => [Contract!Next]_(Contract!vars)
  <1> SUFFICES ASSUME IInv, IInv', [Next]_vars
               PROVE  Contract!Next \/ UNCHANGED AbsVars
    BY DEF Contract!vars, Contract!facts, AbsVars
  <1> USE DEF AbsVars, Failed, cvars, mvars, pvars, child, kernel, vars
  <1>1. CASE CPopenReturns
    BY <1>1 DEF CPopenReturns, AbsPhase, AbsProg, IInv, Apart, Handshake, Outcome,
       Ledger
  <1>2. CASE CStartReturns
    BY <1>2 DEF CStartReturns, AbsPhase, AbsProg, IInv, Apart, Handshake, Outcome,
       Ledger
  <1>3. CASE CGrace
    BY <1>3 DEF CGrace, AlarmMonitor, Handles, Handler, MonitorExit, Alive, AbsPhase,
       AbsProg, IInv, Outcome, Contract!Next, Contract!Break
  <1>4. CASE CExcept
    BY <1>4 DEF CExcept, AlarmMonitor, Handles, Handler, MonitorExit, Alive,
       AbsPhase, AbsProg, IInv, Outcome, Contract!Next, Contract!Break
  <1>5. CASE MFork
    BY <1>5 DEF MFork, AbsPhase, AbsProg, IInv, Apart, Handshake, Outcome, Ledger
  <1>6. CASE MAwait
    BY <1>6 DEF MAwait, AbsPhase, AbsProg, IInv, Apart, Handshake, Outcome, Ledger
  <1>7. CASE MStop
    BY <1>7 DEF MStop, AfterSelfStop, AbsPhase, AbsProg, IInv, Apart, Handshake,
       Outcome, Ledger
  <1>8. CASE MResume
    BY <1>8 DEF MResume, AbsPhase, AbsProg, IInv, Apart, Handshake, Outcome, Ledger
  <1>9. CASE MPoll
    BY <1>9 DEF MPoll, Readable, AbsPhase, AbsProg, IInv, Apart, Handshake, Outcome,
       Ledger
  <1>10. CASE MTimer
    BY <1>10 DEF MTimer, TimeoutKills, Alive, AbsPhase, AbsProg, IInv, Apart,
       Handshake, Outcome, Ledger
  <1>11. CASE MSignal
    BY <1>11 DEF MSignal, TakesSignal, AbsPhase, AbsProg, IInv, Apart, Handshake,
       Outcome, Ledger
  <1>12. CASE MRecv
    BY <1>12 DEF MRecv, AbsPhase, AbsProg, IInv, Apart, Handshake, Outcome, Ledger
  <1>13. CASE MForbid
    BY <1>13 DEF MForbid, Alive, AbsPhase, AbsProg, IInv, Apart, Handshake, Outcome,
       Ledger
  <1>14. CASE MReap
    BY <1>14 DEF MReap, Reapable, AbsPhase, AbsProg, IInv, Apart, Handshake, Outcome,
       Ledger
  <1>15. CASE MWrite
    BY <1>15 DEF MWrite, AbsPhase, AbsProg, IInv, Apart, Handshake, Outcome, Ledger
  <1>16. CASE MLeave
    BY <1>16 DEF MLeave, MonitorExit, Alive, AbsPhase, AbsProg, IInv, Outcome,
       Contract!Next, Contract!Break
  <1>16a. CASE MGrant
    BY <1>16a DEF MGrant, AbsPhase, AbsProg, IInv, Apart, Handshake, Outcome, Ledger
  <1>17. CASE TFork
    BY <1>17 DEF TFork, AbsPhase, AbsProg, IInv, Apart, Handshake, Outcome, Ledger
  <1>18. CASE THandler
    BY <1>18 DEF THandler, AbsPhase, AbsProg, IInv, Apart, Handshake, Outcome, Ledger
  <1>19. CASE TAwait
    BY <1>19 DEF TAwait, AbsPhase, AbsProg, IInv, Apart, Handshake, Outcome, Ledger
  <1>20. CASE TRelease
    BY <1>20 DEF TRelease, AbsPhase, AbsProg, IInv, Apart, Handshake, Outcome, Ledger
  <1>21. CASE TTrace
    BY <1>21 DEF TTrace, Decoded, Alive, AbsPhase, AbsProg, IInv, Apart, Handshake,
       Outcome, Ledger
  <1>22. CASE TOverdue
    BY <1>22 DEF TOverdue, AbsPhase, AbsProg, IInv, Apart, Handshake, Outcome, Ledger
  <1>23. CASE KGuard
    BY <1>23 DEF KGuard, DeathSignal, AbsPhase, AbsProg, IInv, Apart, Handshake,
       Outcome, Ledger
  <1>24. CASE KPrepare
    BY <1>24 DEF KPrepare, AbsPhase, AbsProg, IInv, Apart, Handshake, Outcome, Ledger
  <1>25. CASE KHalt
    BY <1>25 DEF KHalt, AbsPhase, AbsProg, IInv, Apart, Handshake, Outcome, Ledger
  <1>26. CASE KResume
    BY <1>26 DEF KResume, PostSigchld, Watching, AbsPhase, AbsProg, IInv, Apart,
       Handshake, Outcome, Ledger
  <1>27. CASE KOwnSignalHandled
    BY <1>27 DEF KOwnSignalHandled, AbsPhase, AbsProg, IInv, Apart, Handshake,
       Outcome, Ledger
  <1>28. CASE CCont
    BY <1>28 DEF CCont, ContMonitor, Handler, MonitorExit, Alive, AbsPhase, AbsProg,
       IInv, Alarms, BeforeStop, Outcome, TypeOK, KernelTypes, Contract!Next,
       Contract!Release, Contract!facts
  <1>29. CASE CClose
    BY <1>29 DEF CClose, NeedsFlush, ContMonitor, Handler, MonitorExit, Alive,
       AbsPhase, AbsProg, IInv, Alarms, BeforeStop, Outcome, TypeOK, KernelTypes,
       Contract!Next, Contract!Release, Contract!facts
  <1>30. CASE MBootFails
    BY <1>30 DEF MBootFails, MonitorFails, MonitorExit, Alive, AbsPhase, AbsProg,
       Contract!Next, Contract!Break
  <1>30a. CASE MGrantFails
    BY <1>30a DEF MGrantFails, MonitorFails, MonitorExit, Alive, AbsPhase, AbsProg,
       Contract!Next, Contract!Break
  <1>30b. CASE MAborts
    BY <1>30b DEF MAborts, MonitorExit, Alive, AbsPhase, AbsProg,
       Contract!Next, Contract!Break
  <1>31. CASE MSetupFails
    BY <1>31 DEF MSetupFails, MonitorFails, MonitorExit, Alive, AbsPhase, AbsProg,
       Contract!Next, Contract!Break
  <1>32. CASE MRecvFails
    BY <1>32 DEF MRecvFails, MonitorFails, MonitorExit, Alive, AbsPhase, AbsProg,
       Contract!Next, Contract!Break
  <1>33. CASE MSendFails
    BY <1>33 DEF MSendFails, MonitorFails, MonitorExit, Alive, AbsPhase, AbsProg,
       Contract!Next, Contract!Break
  <1>34. CASE MSend
    BY <1>34, CpuAssumption DEF MSend, StageAfter, AbsPhase, AbsProg, IInv, TypeOK,
       ChildTypes, Apart, Handshake, Let, Looping, Calls, Endings, Contract!Next,
       Contract!Progress, Contract!Endings
  <1>35. CASE KCall
    BY <1>35, CpuAssumption DEF KCall, Executing, AbsPhase, AbsProg, IInv, TypeOK,
       ChildTypes, Apart, Handshake, Let, Looping, Calls, Endings, Contract!Next,
       Contract!Progress, Contract!Endings
  <1>36. CASE KBurn
    BY <1>36, CpuAssumption DEF KBurn, Executing, AbsPhase, AbsProg, IInv, TypeOK,
       ChildTypes, Apart, Handshake, Let, Looping, Calls, Endings, Contract!Next,
       Contract!Progress, Contract!Endings
  <1>37. CASE KEnd
    BY <1>37, CpuAssumption DEF KEnd, Executing, ChildEnds, PostSigchld, Watching,
       AbsPhase, AbsProg, IInv, TypeOK, ChildTypes, Apart, Handshake, Let, Looping,
       Calls, Endings, Contract!Next, Contract!Progress, Contract!Endings
  <1>38. CASE KProf
    BY <1>38, CpuAssumption DEF KProf, Executing, ChildEnds, PostSigchld, Watching,
       AbsPhase, AbsProg, IInv, TypeOK, ChildTypes, Apart, Handshake, Let, Looping,
       Calls, Endings, Contract!Next, Contract!Progress, Contract!Endings
  <1>39. CASE KRlimit
    BY <1>39, CpuAssumption DEF KRlimit, Executing, ChildEnds, PostSigchld, Watching,
       AbsPhase, AbsProg, IInv, TypeOK, ChildTypes, Apart, Handshake, Let, Looping,
       Calls, Endings, Contract!Next, Contract!Progress, Contract!Endings
  <1>40. CASE KOwnSignalKills
    BY <1>40, CpuAssumption DEF KOwnSignalKills, ChildEnds, PostSigchld, Watching,
       AbsPhase, AbsProg, IInv, TypeOK, ChildTypes, Apart, Handshake, Let, Looping,
       Calls, Endings, Contract!Next, Contract!Progress, Contract!Endings
  <1>41. CASE KExec
    BY <1>41, CpuAssumption DEF KExec, AbsPhase, AbsProg, IInv, TypeOK, ChildTypes,
       Apart, Handshake, Let, Looping, Calls, Endings, Contract!Next,
       Contract!Progress, Contract!Endings
  <1>42. CASE KPause
    BY <1>42, CpuAssumption DEF KPause, AbsPhase, AbsProg, IInv, TypeOK, ChildTypes,
       Apart, Handshake, Let, Looping, Calls, Endings, Contract!Next,
       Contract!Progress, Contract!Endings
  <1>43. CASE KBrokenPipe
    BY <1>43 DEF KBrokenPipe, ChildEnds, PostSigchld, Watching, AbsPhase, AbsProg,
       Contract!Next, Contract!Discard
  <1>44. CASE KKilled
    <2>1. CASE stage = "program"
      BY <1>44, <2>1, CpuAssumption DEF KKilled, Alive, ChildEnds, PostSigchld,
         Watching, AbsPhase, AbsProg, IInv, TypeOK, ChildTypes, Handshake, Let,
         Endings, Contract!Next, Contract!Progress, Contract!Endings
    <2>2. CASE stage = "paused"
      BY <1>44, <2>2 DEF KKilled, Alive, ChildEnds, PostSigchld, Watching,
         AbsPhase, AbsProg
    <2>3. CASE stage \notin {"program", "paused"}
      BY <1>44, <2>3 DEF KKilled, Alive, ChildEnds, PostSigchld, Watching,
         AbsPhase, AbsProg, Contract!Next, Contract!Discard
    <2>4. QED
      BY <2>1, <2>2, <2>3
  <1>45. CASE KGrow
    <2>1. used' \in used .. MaxCpu /\ freed
      BY <1>45, CpuAssumption DEF KGrow, Executing, IInv, TypeOK, ChildTypes, Handshake, Let
    <2>2. big' \in BOOLEAN /\ (big => big')
      BY <1>45 DEF KGrow
    <2>3. AbsProg = "running" /\ AbsProg' = "running" /\ AbsPhase' = AbsPhase
      BY <1>45 DEF KGrow, AbsProg, AbsPhase
    <2>4. asked' \in BOOLEAN /\ (asked => asked')
      BY <1>45 DEF KGrow, IInv, TypeOK, ChildTypes
    <2>5. UNCHANGED <<AbsPhase, freed, timer, Failed, verdict>>
      BY <1>45, <2>3 DEF KGrow
    <2>6. Contract!Progress
      BY <2>1, <2>2, <2>3, <2>4, <2>5 DEF Contract!Progress
    <2>7. QED
      BY <2>6 DEF Contract!Next
  <1>46. CASE MSetup
    <2>1. timer = "off" /\ timer' = "armed"
      BY <1>46 DEF MSetup, ClockStarted, IInv, Leash, BeforeStop
    <2>2. AbsPhase' = AbsPhase /\ AbsProg' = AbsProg
      BY <1>46 DEF MSetup, AbsPhase, AbsProg
    <2>3. QED
      BY <1>46, <2>1, <2>2 DEF MSetup
  <1>47. CASE TArm
    BY <1>47 DEF TArm, AbsPhase, AbsProg, IInv, Leash
  <1>48. CASE KTimer
    BY <1>48 DEF KTimer, AbsPhase, AbsProg, IInv, Ledger, Contract!Next,
       Contract!Expire
  <1>49. CASE TTimer
    <2>1. AbsPhase' = AbsPhase /\ AbsProg' = AbsProg
      BY <1>49 DEF TTimer, AbsPhase, AbsProg
    <2>2. mexit' = mexit
      BY <1>49 DEF TTimer, AlarmMonitor, Handles, Handler, IInv, Leash, BeforeStop
    <2>3. QED
      BY <1>49, <2>1, <2>2 DEF TTimer, IInv, Ledger, Contract!Next, Contract!Expire
  <1>50. CASE CInterrupt
    BY <1>50 DEF CInterrupt, Sources, AbsPhase, AbsProg, IInv, Outcome,
       Contract!Next, Contract!Drop, Contract!facts
  <1>51. CASE CWaitReturns
    <2>1. CASE ReadsResult
      BY <1>51, <2>1 DEF CWaitReturns, AbsPhase, AbsProg, IInv, Outcome
    <2>2. CASE ~ReadsResult
      <3>1. Failed /\ verdict' = "fail" /\ AbsPhase = "open" /\ AbsPhase' = "judged"
        BY <1>51, <2>2 DEF CWaitReturns, ReadsResult, ExitCodeSeen, AbsPhase,
           IInv, TypeOK, MonitorTypes, Outcome
      <3>2. Contract!Judge("fail")
        BY <1>51, <3>1
        DEF CWaitReturns, AbsProg, Contract!Judge, Contract!Justified, Contract!facts
      <3>3. QED
        BY <3>2 DEF Contract!Next, Contract!Verdicts
    <2>3. QED
      BY <2>1, <2>2
  <1>52. CASE CRead
    <2>1. AbsPhase = "open" /\ AbsPhase' = "judged"
      BY <1>52 DEF CRead, AbsPhase, IInv, Outcome
    <2>2. CASE result = "whole"
      <3>0. mexit = "0" /\ verdict' = Classify(Report)
        BY <1>52, <2>2 DEF CRead, ReadVerdict, IInv, Outcome
      <3>1. Contract!Justified(Classify(Report))
        BY <1>52, <3>0, ReadIsJustified DEF CRead
      <3>2. freed /\ AbsProg \in Endings
        BY <2>2 DEF AbsProg, IInv, TypeOK, ChildTypes, Outcome, Endings
      <3>3. Contract!Judge(Classify(Report))
        BY <1>52, <2>1, <3>0, <3>1, <3>2
        DEF CRead, AbsProg, Contract!Judge, Contract!facts, Endings, Contract!Endings
      <3>4. QED
        BY <3>3, ClassifyType DEF Contract!Next, Contract!Verdicts, Verdicts
    <2>3. CASE result # "whole"
      <3>1. Failed /\ verdict' = "fail"
        BY <1>52, <2>3 DEF CRead, ReadVerdict, IInv, Outcome
      <3>2. Contract!Judge("fail")
        BY <1>52, <2>1, <2>3, <3>1
        DEF CRead, AbsProg, Contract!Judge, Contract!Justified, Contract!facts
      <3>3. QED
        BY <3>2 DEF Contract!Next, Contract!Verdicts
    <2>4. QED
      BY <2>2, <2>3
  <1>53. CASE UNCHANGED vars
    BY <1>53 DEF AbsPhase, AbsProg
  <1>54. QED
    BY <1>1, <1>2, <1>3, <1>4, <1>5, <1>6, <1>7, <1>8, <1>9, <1>10, <1>11, <1>12,
       <1>13, <1>14, <1>15, <1>16, <1>16a, <1>30a, <1>30b, <1>17, <1>18, <1>19, <1>20, <1>21, <1>22, <1>23,
       <1>24, <1>25, <1>26, <1>27, <1>28, <1>29, <1>30, <1>31, <1>32, <1>33, <1>34,
       <1>35, <1>36, <1>37, <1>38, <1>39, <1>40, <1>41, <1>42, <1>43, <1>44, <1>45,
       <1>46, <1>47, <1>48, <1>49, <1>50, <1>51, <1>52, <1>53 DEF Next, Controller,
       Monitor, FullMonitor, TinyMonitor, Child

(* SandboxRun keeps the promise of RunContract. *)
THEOREM Implements == Spec => KeepsContract
  <1>1. Init => Contract!Init
    BY InitRefines
  <1>2. IInv /\ IInv' /\ [Next]_vars => [Contract!Next]_(Contract!vars)
    BY StepRefines
  <1>3. QED
    BY <1>1, <1>2, Invariance, PTL DEF Spec, KeepsContract, Contract!Spec

-----------------------------------------------------------------------------
(* What RunContract's theorems say of the run, through the refinement.     *)

Promise == INSTANCE RunContractProofs WITH
    phase <- AbsPhase, free <- freed, prog <- AbsProg,
    late <- (timer = "fired"), broken <- Failed

(* The instance of the contract that is reasoned about is the one that is  *)
(* implemented.                                                            *)
LEMMA ContractIsPromised == Spec => Promise!Spec
  <1>1. Init => Promise!Init
    BY InitRefines DEF Contract!Init, Promise!Init
  <1>2. IInv /\ IInv' /\ [Next]_vars => [Promise!Next]_(Promise!vars)
    BY StepRefines
    DEF Contract!Next, Contract!vars, Contract!facts, Contract!Release, Contract!Progress,
        Contract!Discard, Contract!Expire, Contract!Break, Contract!Drop, Contract!Judge,
        Contract!Justified, Contract!BoxLimit, Contract!Endings, Contract!Verdicts,
        Promise!Next, Promise!vars, Promise!facts, Promise!Release, Promise!Progress,
        Promise!Discard, Promise!Expire, Promise!Break, Promise!Drop, Promise!Judge,
        Promise!Justified, Promise!BoxLimit, Promise!Endings, Promise!Verdicts
  <1>3. QED
    BY <1>1, <1>2, Invariance, PTL DEF Spec, Promise!Spec

(* sandbox.py:57-177, sandbox.cpp.  In every state after the verdict the   *)
(* facts of the run justify it: a program still about when the sandbox     *)
(* failed changes nothing of that, and no late signal, clock or system     *)
(* call makes what was said of an ended program untrue.  An interrupted    *)
(* run has no verdict, and the program never runs before it is let go.     *)
THEOREM VerdictsOfRunsStand == Spec => []Promise!VerdictStands /\ []Promise!RunsFree
  <1>1. MaxCpu \in Nat
    BY CpuAssumption
  <1>2. Promise!Spec => []Promise!VerdictStands /\ []Promise!RunsFree
    BY <1>1, LimitAssumption, Promise!VerdictsStand
  <1>3. QED
    BY <1>2, ContractIsPromised, PTL

(* No step of the three processes, the kernel or the user gives a second   *)
(* verdict or takes one back, makes an abandoned run count, un-releases a  *)
(* program, or alters the record of one that has ended.                    *)
THEOREM RunsAreFinal == Spec => Promise!NothingTakenBack
  <1>1. MaxCpu \in Nat
    BY CpuAssumption
  <1>2. Promise!Spec => Promise!NothingTakenBack
    BY <1>1, LimitAssumption, Promise!FinalityHolds
  <1>3. QED
    BY <1>2, ContractIsPromised, PTL

-----------------------------------------------------------------------------
(* Nobody waits for ever: no circular wait of the three.                   *)

(* The controller has seen the monitor stopped, or dead before its stop.   *)
Met == cpc \in {"ready", "wait", "read", "judged"} \/ intr \in {"ready", "wait", "read"}

(* The run is past its first stop: the monitor has been let go, or is dead. *)
Past ==
    /\ cpc \in {"popen", "start"} /\ mpc = "exited" => stage = "none" \/ ~trust
    /\ cpc \in {"popen", "start", "ready"} => ~freed
    /\ cpc = "ready" \/ (cpc = "close" /\ intr = "ready") => mpc \in {"stopped", "exited"}
    /\ Met /\ cpc # "ready" /\ ~(cpc = "close" /\ intr = "ready") => mpc \notin BeforeStop
    /\ Met /\ stage \in {"forked", "guarded"} => mpc = "exited" /\ ~trust
    /\ Met /\ mpc = "exited" /\ stage = "halted" => killed
    /\ cpc = "ready" \/ (cpc = "close" /\ intr = "ready") => ~safe
    /\ cpc \in {"popen", "start"} => ~safe

(* Whom the monitor waits for in wait4 is dead, stopped, or under a kill   *)
(* or a running clock.                                                     *)
Doomed ==
    /\ mpc = "reap" => stage = "dead" \/ killed
    /\ alarm = "taken" => stage = "dead" \/ killed
    /\ trust /\ timer = "fired" /\ mpc # "exited" => alarm = "taken"

(* The system's own next steps, by their guards: those Fairness speaks of. *)
ControllerMoves ==
    \/ cpc \in {"popen", "ready", "read", "close", "grace", "except"}
    \/ cpc = "start" /\ mpc \in {"stopped", "exited"}
    \/ cpc = "wait" /\ mpc = "exited"

MonitorMoves ==
    \/ mpc \in {"boot", "handler", "selfstop", "setup", "resume", "timer", "signal", "recv",
                "answer", "arm", "told", "write", "leave", "grant"}
    \/ mpc = "await" /\ (stage = "halted" \/ (trust /\ stage = "dead"))
    \/ mpc = "poll" /\ Readable # {}
    \/ mpc = "reap" /\ stage = "dead"
    \/ mpc = "trace" /\ stage \in {"dead", "paused"}

ChildMoves == stage \in {"forked", "guarded", "resumed"}
KillLands == killed /\ Alive
ClockRuns == timer = "armed" /\ (trust => mpc # "exited")

(* What has not come to its end: a run in progress, or one judged, or      *)
(* interrupted after start() had returned, whose processes are still there. *)
Unfinished ==
    \/ cpc # "judged" /\ intr = "none"
    \/ Met /\ ~Gone

SomebodyMoves ==
    Unfinished => ControllerMoves \/ MonitorMoves \/ ChildMoves \/ KillLands \/ ClockRuns

(* Both hold before the monitor is forked.                                 *)
LEMMA InitEnds == Init => Past /\ Doomed
  BY DEF Init, Past, Doomed, Met, BeforeStop

(* A step that moves neither the controller nor the monitor.               *)
LEMMA ChildKeepsEnds ==
  ASSUME IInv, Past, Doomed, UNCHANGED <<cvars, mvars, alarm, freed, killed>>,
         timer' = timer \/ (~trust /\ timer' = "fired"),
         \/ stage' = stage
         \/ stage' = "guarded" /\ stage = "forked"
         \/ stage' = "halted" /\ stage = "guarded" /\ (trust \/ mpc # "exited")
         \/ stage' = "dead" /\ Alive
         \/ stage \in Let /\ stage' \in Let \cup {"paused"}
  PROVE  Past' /\ Doomed'
  BY DEF IInv, Handshake, Outcome, Past, Doomed, Met, cvars, mvars, BeforeStop, Let, Alive

(* Steps of the child and the kernel keep both.                            *)
LEMMA ChildSteps ==
  ASSUME IInv, Past, Doomed, Child \/ KKilled \/ KTimer PROVE Past' /\ Doomed'
  <1> USE DEF child, kernel, pvars, Let
  <1>1. ASSUME NEW how, ChildEnds(how), Alive PROVE Past' /\ Doomed'
    BY <1>1, ChildKeepsEnds DEF ChildEnds
  <1>2. CASE KGuard \/ KPrepare \/ KHalt \/ KResume \/ KExec \/ KPause
    BY <1>2, ChildKeepsEnds DEF KGuard, KPrepare, KHalt, KResume, KExec, KPause
  <1>3. CASE KCall \/ KBurn \/ KGrow \/ KOwnSignalHandled \/ KTimer
    BY <1>3, ChildKeepsEnds DEF KCall, KBurn, KGrow, KOwnSignalHandled, KTimer
  <1>4. CASE KBrokenPipe \/ KEnd \/ KProf \/ KRlimit \/ KOwnSignalKills \/ KKilled
    BY <1>1, <1>4
    DEF KBrokenPipe, KEnd, KProf, KRlimit, KOwnSignalKills, KKilled, Executing, Alive
  <1>5. QED
    BY <1>2, <1>3, <1>4 DEF Child

(* So do steps of the controller, Ctrl-C included.                         *)
LEMMA ControllerSteps ==
  ASSUME IInv, Past, Doomed, Controller \/ CInterrupt PROVE Past' /\ Doomed'
  <1> USE DEF Past, Doomed, Met, BeforeStop, mvars, child, kernel, pvars
  <1>1. CASE CPopenReturns
    BY <1>1 DEF CPopenReturns, IInv, Outcome
  <1>2. CASE CStartReturns
    BY <1>2 DEF CStartReturns, IInv, Outcome, Alarms, Handshake, Leash
  <1>3. CASE CCont
    BY <1>3
    DEF CCont, ContMonitor, Handler, MonitorExit, Alive, IInv, Outcome, Leash, Alarms,
        Handshake
  <1>4. CASE CWaitReturns \/ CRead
    BY <1>4 DEF CWaitReturns, CRead, IInv, Outcome
  <1>5. CASE CInterrupt
    BY <1>5 DEF CInterrupt, Sources, IInv, Outcome
  <1>6. CASE CClose
    BY <1>6
    DEF CClose, NeedsFlush, ContMonitor, Handler, MonitorExit, Alive, IInv, Outcome,
        Leash, Alarms, Handshake
  <1>7. CASE CGrace \/ CExcept
    <2>1. CASE CGrace
      <3>1. Past'
        BY <2>1
        DEF CGrace, AlarmMonitor, Handles, Handler, MonitorExit, Alive, IInv, Outcome,
            Leash, Alarms, Handshake
      <3>2. Doomed'
        BY <2>1
        DEF CGrace, AlarmMonitor, Handles, Handler, MonitorExit, Alive, IInv, Outcome, Leash,
            Handshake
      <3>3. QED
        BY <3>1, <3>2
    <2>2. CASE CExcept
      <3>1. Past'
        BY <2>2
        DEF CExcept, AlarmMonitor, Handles, Handler, MonitorExit, Alive, IInv, Outcome,
            Leash, Alarms, Handshake
      <3>2. Doomed'
        BY <2>2
        DEF CExcept, AlarmMonitor, Handles, Handler, MonitorExit, Alive, IInv, Outcome, Leash,
            Handshake
      <3>3. QED
        BY <3>1, <3>2
    <2>3. QED
      BY <1>7, <2>1, <2>2
  <1>8. QED
    BY <1>1, <1>2, <1>3, <1>4, <1>5, <1>6, <1>7 DEF Controller

(* And those of either monitor.                                            *)
LEMMA MonitorSteps ==
  ASSUME IInv, Past, Doomed, Monitor \/ MBootFails \/ MGrantFails \/ MSetupFails \/ TTimer
  PROVE  Past' /\ Doomed'
  <1> USE DEF Past, Doomed, Met, BeforeStop, cvars, child, kernel, pvars
  <1>1. CASE MFork \/ TFork
    BY <1>1 DEF MFork, TFork, IInv, Outcome, Alarms
  <1>2. CASE MGrant \/ MAwait \/ THandler \/ TAwait \/ MStop
    BY <1>2 DEF MGrant, MAwait, THandler, TAwait, MStop, AfterSelfStop, IInv, Outcome
  <1>3. CASE MSetup \/ MResume \/ TRelease \/ TArm
    BY <1>3
    DEF MSetup, ClockStarted, MResume, TRelease, TArm, IInv, Outcome, Apart, Handshake,
        Leash
  <1>4. CASE MPoll \/ MRecv \/ MReap \/ TOverdue \/ MWrite
    BY <1>4 DEF MPoll, MRecv, MReap, TOverdue, MWrite, IInv, Outcome, Handshake
  <1>5. CASE MTimer
    BY <1>5
    DEF MTimer, TimeoutKills, Alive, IInv, Outcome, Handshake, Looping, Closing,
        Tracing, Let
  <1>6. CASE MSignal
    BY <1>6 DEF MSignal, IInv, Outcome, Handshake, Slot, Looping
  <1>7. CASE MForbid
    BY <1>7 DEF MForbid, Alive, IInv, Outcome, Handshake, Looping, Closing, Tracing, Let
  <1>8. CASE MSend
    BY <1>8 DEF MSend, StageAfter, IInv, Outcome, Calls
  <1>9. CASE TTrace
    BY <1>9 DEF TTrace, IInv, Outcome
  <1>10. CASE MBootFails \/ MGrantFails \/ MSetupFails \/ MRecvFails \/ MSendFails \/ MAborts
    <2>1. CASE MBootFails
      BY <1>10, <2>1 DEF MBootFails, MonitorFails, MonitorExit, IInv, Outcome, Handshake
    <2>2. CASE MSetupFails
      BY <1>10, <2>2
      DEF MSetupFails, MonitorFails, MonitorExit, Alive, IInv, Outcome, Handshake, Leash
    <2>3. CASE MRecvFails \/ MSendFails
      BY <1>10, <2>3
      DEF MRecvFails, MSendFails, MonitorFails, MonitorExit, Alive, IInv, Outcome, Handshake,
          Leash, Looping, Let
    <2>4. CASE MGrantFails
      BY <1>10, <2>4
      DEF MGrantFails, MonitorFails, MonitorExit, Alive, IInv, Apart, Outcome, Handshake,
          Leash, Alarms
    <2>5. CASE MAborts
      BY <1>10, <2>5
      DEF MAborts, MonitorExit, Alive, IInv, Outcome, Handshake, Leash, Looping, Let
    <2>6. QED
      BY <1>10, <2>1, <2>2, <2>3, <2>4, <2>5
  <1>11. CASE MLeave
    BY <1>11 DEF MLeave, MonitorExit, Alive, IInv, Outcome, Handshake, Leash, Closing, Let
  <1>12. CASE TTimer
    BY <1>12
    DEF TTimer, AlarmMonitor, Handles, Handler, MonitorExit, Alive, IInv, Outcome,
        Handshake, Leash
  <1>13. QED
    BY <1>1, <1>2, <1>3, <1>4, <1>5, <1>6, <1>7, <1>8, <1>9, <1>10, <1>11, <1>12
    DEF Monitor, FullMonitor, TinyMonitor

(* sandbox.py:75-139, sandbox.cpp:578-656, sandbox-tiny.cpp. Once the      *)
(* controller has seen the monitor's stop, the run is past it, and whom a  *)
(* monitor waits for at its end is dead or has its kill on the way: in     *)
(* both sandboxes, for all limits.                                         *)
THEOREM EndsInvariance == Spec => [](Past /\ Doomed)
  <1>1. IInv /\ Past /\ Doomed /\ [Next]_vars => (Past /\ Doomed)'
    <2>1. CASE UNCHANGED vars
      BY <2>1 DEF vars, cvars, mvars, child, kernel, pvars, Past, Doomed, Met
    <2>2. QED
      BY <2>1, ChildSteps, ControllerSteps, MonitorSteps DEF Next
  <1>2. QED
    BY <1>1, InitEnds, Invariance, PTL DEF Spec

(* sandbox.py, sandbox.cpp, sandbox-tiny.cpp.  The three processes wait for *)
(* one another in six places; they never all do.  While a run is in progress,  *)
(* and after it as long as any of its processes is there, a wait is over, a   *)
(* kill is on its way, or the wall clock is running.                         *)
THEOREM NeverAllWait == Spec => []SomebodyMoves
  <1>1. ASSUME IInv, Past, Doomed, Unfinished,
               ~ControllerMoves, ~MonitorMoves, ~ChildMoves, ~KillLands, ~ClockRuns
        PROVE  FALSE
    <2>1. mpc \in {"await", "stopped", "poll", "reap", "trace", "exited"}
      BY <1>1 DEF MonitorMoves, IInv, TypeOK, MonitorTypes
    <2>2. mpc # "await"
      BY <1>1
      DEF MonitorMoves, ChildMoves, KillLands, Alive, IInv, Apart, Handshake, Doomed
    <2>3. mpc # "stopped"
      BY <1>1
      DEF Unfinished, ControllerMoves, Met, Past, BeforeStop, IInv, TypeOK,
          ControllerTypes, Outcome, Sources
    <2>4. mpc # "poll"
      BY <1>1
      DEF MonitorMoves, ClockRuns, Readable, Fds, Looping, IInv, TypeOK, KernelTypes,
          Apart, Leash
    <2>5. mpc # "reap"
      BY <1>1 DEF MonitorMoves, KillLands, Alive, IInv, Handshake, Doomed
    <2>6. mpc # "trace"
      BY <1>1
      DEF MonitorMoves, KillLands, ClockRuns, Alive, IInv, TypeOK, KernelTypes,
          Apart, Tracing, Handshake, Leash, Doomed
    <2>7. ASSUME mpc = "exited" PROVE FALSE
      <3>1. Met /\ Alive
        BY <1>1, <2>7
        DEF Unfinished, ControllerMoves, Met, Gone, IInv, TypeOK, ControllerTypes,
            Outcome, Sources
      <3>2. stage \in {"halted", "paused"} \cup Let
        BY <1>1, <3>1 DEF ChildMoves, Alive, IInv, TypeOK, ChildTypes, Let
      <3>3. killed
        BY <1>1, <2>7, <3>1, <3>2 DEF IInv, Leash, Past
      <3>4. QED
        BY <1>1, <3>1, <3>3 DEF KillLands
    <2>8. QED
      BY <2>1, <2>2, <2>3, <2>4, <2>5, <2>6, <2>7
  <1>2. IInv /\ Past /\ Doomed => SomebodyMoves
    BY <1>1 DEF SomebodyMoves
  <1>3. QED
    BY <1>2, Invariance, EndsInvariance, PTL

=============================================================================

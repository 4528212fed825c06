---------------------------- MODULE AgentJobProofs ----------------------------
(***************************************************************************)
(* Proofs about AgentJob for any number of jobs and faults: what GitHub is *)
(* told of a job is an outcome the job has had.  The outcome passes from   *)
(* the Job through the operator's worker, the AgentJob's status and the    *)
(* reporter's list to the check run, and at each of these places it may be *)
(* out of date; that it is true there is the inductive invariant.          *)
(***************************************************************************)
EXTENDS AgentJob, TLAPS

-----------------------------------------------------------------------------
(* Types *)

Worker == [pc: {"idle", "status", "cleanup"}, job: Jobs \cup {None},
           phase: {"", "Running"} \cup Finished]

\* A worker that is not idle has a job.
TypeInv == TypeOK /\ (op.pc # "idle" => op.job \in Jobs)

LEMMA AbsentType ==
  /\ Absent \in Object
  /\ \A b \in BOOLEAN : [Absent EXCEPT !.exists = TRUE, !.check = b] \in Object
  /\ Absent.phase = ""
  BY DEF Absent, Object

LEMMA ObjectUpdate ==
  ASSUME NEW o \in Object, NEW phase \in {"", "Running"} \cup Finished
  PROVE  /\ [o EXCEPT !.phase = phase] \in Object /\ [o EXCEPT !.phase = phase].phase = phase
         /\ [o EXCEPT !.reported = TRUE] \in Object
         /\ [o EXCEPT !.reported = TRUE].phase = o.phase
  BY DEF Object

LEMMA FaultType ==
  ASSUME faults \in 0..MaxFaults, Fault \/ UNCHANGED faults
  PROVE  faults' \in 0..MaxFaults
  BY ConstantsAssumption DEF Fault

LEMMA TypeOfRequest ==
  ASSUME TypeOK, NEW j \in Jobs, BeginRequest(j) \/ Request(j)
  PROVE  TypeOK' /\ op' = op
<1> USE DEF TypeOK
<1>1. faults' \in 0..MaxFaults
  <2>1. Fault \/ UNCHANGED faults
    BY DEF BeginRequest, Request, StartCheckRun, MintRepoToken, CreateAutoGrant, CreateAgentJob,
           OwnAutoGrant, CreateRepoTokenSecret, CreateBrokerTokenSecret, UndoCreate
  <2> QED
    BY <2>1, FaultType
<1>2. CASE BeginRequest(j)
  BY <1>1, <1>2 DEF BeginRequest, RequestPC
<1>3. CASE StartCheckRun(j)
  BY <1>1, <1>3 DEF StartCheckRun, RequestPC, createCheckRunInProgress
<1>4. CASE MintRepoToken(j)
  BY <1>1, <1>4 DEF MintRepoToken, RequestPC
<1>5. CASE CreateAutoGrant(j)
  BY <1>1, <1>5 DEF CreateAutoGrant, RequestPC
<1>6. CASE CreateAgentJob(j)
  <2> DEFINE new == [Absent EXCEPT !.exists = TRUE, !.check = check[j] # "none"]
  <2>1. new \in Object
    BY DEF Absent, Object
  <2>2. aj' = aj \/ aj' = [aj EXCEPT ![j] = new]
    BY <1>6 DEF CreateAgentJob
  <2> HIDE DEF new
  <2>3. aj' \in [Jobs -> Object]
    BY <2>1, <2>2
  <2>4. req' \in [Jobs -> RequestPC] /\ queue' \subseteq Jobs
    BY <1>6 DEF CreateAgentJob, RequestPC, Enqueue
  <2> QED
    BY <1>1, <1>6, <2>3, <2>4 DEF CreateAgentJob
<1>7. CASE OwnAutoGrant(j)
  BY <1>1, <1>7 DEF OwnAutoGrant, RequestPC
<1>8. CASE CreateRepoTokenSecret(j)
  BY <1>1, <1>8 DEF CreateRepoTokenSecret, RequestPC
<1>9. CASE CreateBrokerTokenSecret(j)
  BY <1>1, <1>9 DEF CreateBrokerTokenSecret, RequestPC
<1>10. CASE UndoCreate(j)
  <2>1. aj' \in [Jobs -> Object]
    BY <1>10, AbsentType DEF UndoCreate
  <2>2. req' \in [Jobs -> RequestPC] /\ queue' \subseteq Jobs
    BY <1>10 DEF UndoCreate, RequestPC, Enqueue
  <2> QED
    BY <1>1, <1>10, <2>1, <2>2 DEF UndoCreate
<1> QED
  BY <1>2, <1>3, <1>4, <1>5, <1>6, <1>7, <1>8, <1>9, <1>10 DEF Request

LEMMA TypeOfOperator ==
  ASSUME TypeInv, Operator \/ RestartOperator
  PROVE  TypeInv'
<1> USE DEF TypeInv, TypeOK
<1>0. op \in Worker /\ Idle \in Worker /\ Idle.pc = "idle"
  BY DEF Idle, Worker
<1>1. ASSUME NEW j \in Jobs, Reconcile(j) PROVE TypeInv'
  <2>1. faults' \in 0..MaxFaults
    <3>1. Fault \/ UNCHANGED faults
      BY <1>1 DEF Reconcile
    <3> QED
      BY <3>1, FaultType
  <2>2. job' \in [Jobs -> {"none", "waiting", "running"} \cup Finished]
    <3>1. job' = job \/ job' = [job EXCEPT ![j] = "waiting"]
      BY <1>1 DEF Reconcile, NewJob
    <3> QED
      BY <3>1
  <2>3. queue' \subseteq Jobs
    BY <1>1 DEF Reconcile, Enqueue
  <2>4. op' \in Worker /\ (op'.pc # "idle" => op'.job \in Jobs)
    <3>1. \/ op' = op
          \/ op' = [pc |-> "status", job |-> j, phase |-> "Running"]
          \/ op' = [pc |-> "status", job |-> j, phase |-> PhaseOf(job[j])]
      BY <1>1 DEF Reconcile
    <3>2. PhaseOf(job[j]) \in {"", "Running"} \cup Finished
      BY DEF PhaseOf
    <3>3. ASSUME NEW phase \in {"", "Running"} \cup Finished,
                 op' = [pc |-> "status", job |-> j, phase |-> phase]
          PROVE  op' \in Worker /\ op'.job \in Jobs
      BY <3>3 DEF Worker
    <3> QED
      BY <1>0, <3>1, <3>2, <3>3
  <2> QED
    BY <1>1, <2>1, <2>2, <2>3, <2>4 DEF Reconcile, Worker
<1>2. CASE PatchStatus
  <2>0. op.job \in Jobs /\ op.phase \in {"", "Running"} \cup Finished
    BY <1>2 DEF PatchStatus
  <2>1. faults' \in 0..MaxFaults
    BY <1>2, FaultType DEF PatchStatus
  <2>2. op' \in Worker /\ (op'.pc # "idle" => op'.job \in Jobs)
    <3>1. op' = Idle \/ op' = [op EXCEPT !.pc = "cleanup"]
      BY <1>2 DEF PatchStatus
    <3> QED
      BY <1>0, <2>0, <3>1 DEF Worker
  <2>3. aj' \in [Jobs -> Object]
    <3> DEFINE new == [aj[op.job] EXCEPT !.phase = op.phase]
    <3>1. aj' = aj \/ aj' = [aj EXCEPT ![op.job] = new]
      BY <1>2 DEF PatchStatus
    <3>2. new \in Object
      BY <2>0, ObjectUpdate
    <3> HIDE DEF new
    <3> QED
      BY <3>1, <3>2
  <2>4. queue' \subseteq Jobs
    BY <1>2, <2>0 DEF PatchStatus, Enqueue
  <2> QED
    BY <1>2, <2>1, <2>2, <2>3, <2>4 DEF PatchStatus, Worker
<1>3. CASE Cleanup
  <2>1. faults' \in 0..MaxFaults
    BY <1>3, FaultType DEF Cleanup
  <2>2. gh' \subseteq Jobs /\ br' \subseteq Jobs /\ grant' \in [Jobs -> {"none", "loose", "owned"}]
    BY <1>3 DEF Cleanup
  <2> QED
    BY <1>0, <1>3, <2>1, <2>2 DEF Cleanup, Worker
<1>4. CASE RestartOperator
  BY <1>0, <1>4, FaultType DEF RestartOperator, Worker
<1> QED
  BY <1>1, <1>2, <1>3, <1>4 DEF Operator

LEMMA TypeOfReporter ==
  ASSUME TypeOK, Reporter \/ RestartBroker
  PROVE  TypeOK' /\ op' = op
<1> USE DEF TypeOK
<1>1. CASE ListFinished
  BY <1>1 DEF ListFinished, Reportable
<1>2. ASSUME NEW j \in Jobs, ReportCheckRun(j) PROVE TypeOK' /\ op' = op
  <2>1. faults' \in 0..MaxFaults
    BY <1>2, FaultType DEF ReportCheckRun
  <2>2. check' \in [Jobs -> {"none", "in_progress", "success", "failure"}]
    BY <1>2 DEF ReportCheckRun, completeCheckRun, Conclusion
  <2> QED
    BY <1>2, <2>1, <2>2 DEF ReportCheckRun
<1>3. CASE MarkReported
  <2>1. faults' \in 0..MaxFaults
    BY <1>3, FaultType DEF MarkReported
  <2>2. aj' \in [Jobs -> Object]
    <3> DEFINE new == [aj[marking] EXCEPT !.reported = TRUE]
    <3>1. aj' = aj \/ aj' = [aj EXCEPT ![marking] = new]
      BY <1>3 DEF MarkReported
    <3>2. marking \in Jobs /\ "" \in {"", "Running"} \cup Finished
      BY <1>3 DEF MarkReported
    <3>3. new \in Object
      BY <3>2, ObjectUpdate
    <3> HIDE DEF new
    <3> QED
      BY <3>1, <3>3
  <2> QED
    BY <1>3, <2>1, <2>2 DEF MarkReported, Enqueue
<1>4. CASE RestartBroker
  BY <1>4, FaultType DEF RestartBroker, RequestPC
<1> QED
  BY <1>1, <1>2, <1>3, <1>4 DEF Reporter

LEMMA TypeOfKubernetes ==
  ASSUME TypeOK, NEW j \in Jobs,
         StartPod(j) \/ FinishPod(j) \/ ExpireJob(j) \/ DeleteAgentJob(j) \/ CollectGarbage(j)
  PROVE  TypeOK' /\ op' = op
<1> USE DEF TypeOK
<1>1. CASE StartPod(j)
  BY <1>1 DEF StartPod
<1>2. CASE FinishPod(j)
  <2>1. PICK outcome \in Finished : /\ job' = [job EXCEPT ![j] = outcome]
                                    /\ ran' = [ran EXCEPT ![j] = @ \cup {outcome}]
    BY <1>2 DEF FinishPod
  <2>2. ran' \in [Jobs -> SUBSET Finished]
    BY <2>1
  <2>3. job' \in [Jobs -> {"none", "waiting", "running"} \cup Finished]
    BY <2>1
  <2> QED
    BY <1>2, <2>2, <2>3 DEF FinishPod, Enqueue
<1>3. CASE ExpireJob(j)
  BY <1>3 DEF ExpireJob, Enqueue
<1>4. CASE DeleteAgentJob(j)
  BY <1>4, AbsentType DEF DeleteAgentJob, Enqueue
<1>5. CASE CollectGarbage(j)
  BY <1>5 DEF CollectGarbage
<1> QED
  BY <1>1, <1>2, <1>3, <1>4, <1>5

LEMMA TypeStep == TypeInv /\ [Next]_vars => TypeInv'
<1> SUFFICES ASSUME TypeInv, [Next]_vars PROVE TypeInv'
  OBVIOUS
<1>1. ASSUME TypeOK', op' = op PROVE TypeInv'
  BY <1>1 DEF TypeInv
<1>2. CASE UNCHANGED vars
  BY <1>2 DEF vars, TypeInv, TypeOK
<1>3. TypeOK
  BY DEF TypeInv
<1> QED
  BY <1>1, <1>2, <1>3, TypeOfRequest, TypeOfOperator, TypeOfReporter, TypeOfKubernetes DEF Next

LEMMA TypeInit == Init => TypeInv
<1> SUFFICES ASSUME Init PROVE TypeInv
  OBVIOUS
<1>1. op \in Worker /\ op.pc = "idle"
  BY DEF Init, Idle, Worker
<1>2. aj \in [Jobs -> Object]
  BY AbsentType DEF Init
<1>3. ran \in [Jobs -> SUBSET Finished] /\ faults \in 0..MaxFaults
  <2>1. ran = [j \in Jobs |-> {}] /\ faults = 0
    BY DEF Init
  <2>2. ran \in [Jobs -> SUBSET Finished]
    BY <2>1
  <2>3. faults \in 0..MaxFaults
    BY <2>1, ConstantsAssumption
  <2> QED
    BY <2>2, <2>3
<1>4. req \in [Jobs -> RequestPC] /\ grant \in [Jobs -> {"none", "loose", "owned"}]
  BY DEF Init, RequestPC
<1>5. /\ job \in [Jobs -> {"none", "waiting", "running"} \cup Finished]
      /\ check \in [Jobs -> {"none", "in_progress", "success", "failure"}]
      /\ todo \in [Jobs -> {""} \cup Finished]
  BY DEF Init
<1>6. gh \subseteq Jobs /\ br \subseteq Jobs /\ queue \subseteq Jobs /\ marking \in Jobs \cup {None}
  BY DEF Init
<1> QED
  BY <1>1, <1>2, <1>3, <1>4, <1>5, <1>6 DEF TypeInv, TypeOK, Worker

-----------------------------------------------------------------------------
(* What GitHub is told *)

\* Wherever an outcome of a job is written, the job has had it.
OutcomeInv ==
  /\ \A j \in Jobs : job[j] \in Finished => job[j] \in ran[j]
  /\ op.phase \in Finished => op.job \in Jobs /\ op.phase \in ran[op.job]
  /\ \A j \in Jobs : aj[j].phase \in Finished => aj[j].phase \in ran[j]
  /\ \A j \in Jobs : todo[j] # "" => todo[j] \in ran[j]
  /\ ConclusionTrue

\* Steps that take no outcome from one place to another.
LEMMA NoOutcomeMoved ==
  ASSUME OutcomeInv, ran' = ran,
         op'.phase \notin Finished \/ (op'.phase = op.phase /\ op'.job = op.job),
         \A j \in Jobs : /\ job'[j] = job[j] \/ job'[j] \notin Finished
                         /\ aj'[j].phase = aj[j].phase \/ aj'[j].phase \notin Finished
                         /\ todo'[j] = todo[j] \/ todo'[j] = ""
                         /\ check'[j] = check[j] \/ check'[j] \notin {"success", "failure"}
  PROVE  OutcomeInv'
  BY DEF OutcomeInv, ConclusionTrue

LEMMA OutcomeOfRequest ==
  ASSUME TypeOK, OutcomeInv, NEW j \in Jobs, BeginRequest(j) \/ Request(j)
  PROVE  OutcomeInv'
<1> USE DEF TypeOK
<1>1. UNCHANGED <<job, ran, op, todo>>
  BY DEF BeginRequest, Request, StartCheckRun, MintRepoToken, CreateAutoGrant, CreateAgentJob,
         OwnAutoGrant, CreateRepoTokenSecret, CreateBrokerTokenSecret, UndoCreate
<1>2. check' = check \/ check' = [check EXCEPT ![j] = "in_progress"]
  BY DEF BeginRequest, Request, StartCheckRun, MintRepoToken, CreateAutoGrant, CreateAgentJob,
         OwnAutoGrant, CreateRepoTokenSecret, CreateBrokerTokenSecret, UndoCreate,
         createCheckRunInProgress
<1>3. aj' = aj \/ \E o : aj' = [aj EXCEPT ![j] = o] /\ o.phase = ""
  <2> DEFINE new == [Absent EXCEPT !.exists = TRUE, !.check = check[j] # "none"]
  <2>1. new.phase = ""
    BY DEF Absent
  <2>2. aj' = aj \/ aj' = [aj EXCEPT ![j] = new] \/ aj' = [aj EXCEPT ![j] = Absent]
    BY DEF BeginRequest, Request, StartCheckRun, MintRepoToken, CreateAutoGrant, CreateAgentJob,
           OwnAutoGrant, CreateRepoTokenSecret, CreateBrokerTokenSecret, UndoCreate
  <2> HIDE DEF new
  <2> QED
    BY <2>1, <2>2, AbsentType
<1>4. \A i \in Jobs : /\ aj'[i].phase = aj[i].phase \/ aj'[i].phase \notin Finished
                      /\ check'[i] = check[i] \/ check'[i] \notin {"success", "failure"}
  BY <1>2, <1>3 DEF Finished
<1> QED
  BY <1>1, <1>4, NoOutcomeMoved

LEMMA OutcomeOfOperator ==
  ASSUME TypeInv, OutcomeInv, Operator \/ RestartOperator
  PROVE  OutcomeInv'
<1> USE DEF TypeInv, TypeOK
<1>0. Idle.phase \notin Finished
  BY DEF Idle, Finished
<1>1. ASSUME NEW j \in Jobs, Reconcile(j) PROVE OutcomeInv'
  <2>1. UNCHANGED <<aj, ran, check, todo>>
    BY <1>1 DEF Reconcile
  <2>2. job' = job \/ job' = [job EXCEPT ![j] = NewJob]
    BY <1>1 DEF Reconcile
  <2>3. \A i \in Jobs : job'[i] = job[i] \/ job'[i] \notin Finished
    BY <2>2 DEF NewJob, Finished
  <2>4. \/ op' = op
        \/ op'.phase \notin Finished
        \/ op'.job = j /\ op'.phase = job[j] /\ job[j] \in Finished
    <3>1. \/ op' = op
          \/ op' = [pc |-> "status", job |-> j, phase |-> "Running"]
          \/ op' = [pc |-> "status", job |-> j, phase |-> PhaseOf(job[j])]
      BY <1>1 DEF Reconcile
    <3>2. PhaseOf(job[j]) = "Running" \/ (PhaseOf(job[j]) = job[j] /\ job[j] \in Finished)
      BY DEF PhaseOf
    <3>3. ASSUME NEW phase, op' = [pc |-> "status", job |-> j, phase |-> phase]
          PROVE  op'.job = j /\ op'.phase = phase
      BY <3>3
    <3>4. "Running" \notin Finished
      BY DEF Finished
    <3> QED
      BY <3>1, <3>2, <3>3, <3>4, Zenon
  <2>5. op'.phase \in Finished => op'.job \in Jobs /\ op'.phase \in ran[op'.job]
    BY <2>4 DEF OutcomeInv
  <2> QED
    BY <2>1, <2>3, <2>5 DEF OutcomeInv, ConclusionTrue
<1>2. CASE PatchStatus
  <2>0. op.job \in Jobs
    BY <1>2 DEF PatchStatus
  <2>1. UNCHANGED <<job, ran, check, todo>>
    BY <1>2 DEF PatchStatus
  <2>2. op' = Idle \/ (op'.phase = op.phase /\ op'.job = op.job)
    BY <1>2 DEF PatchStatus
  <2>3. aj' = aj \/ aj' = [aj EXCEPT ![op.job].phase = op.phase]
    BY <1>2 DEF PatchStatus
  <2>4. ASSUME NEW i \in Jobs, aj'[i].phase \in Finished PROVE aj'[i].phase \in ran[i]
    <3>1. aj'[i] = aj[i] \/ (i = op.job /\ aj'[i] = [aj[i] EXCEPT !.phase = op.phase])
      BY <2>0, <2>3
    <3>2. aj[i] \in Object /\ op.phase \in {"", "Running"} \cup Finished
      OBVIOUS
    <3>3. [aj[i] EXCEPT !.phase = op.phase].phase = op.phase
      BY <3>2, ObjectUpdate
    <3>4. aj'[i].phase = aj[i].phase \/ (i = op.job /\ aj'[i].phase = op.phase)
      BY <3>1, <3>3
    <3> QED
      BY <2>4, <3>4 DEF OutcomeInv
  <2> QED
    BY <1>0, <2>1, <2>2, <2>4 DEF OutcomeInv, ConclusionTrue
<1>3. CASE Cleanup \/ RestartOperator
  <2>1. UNCHANGED <<aj, job, ran, check, todo>> /\ op' = Idle
    BY <1>3 DEF Cleanup, RestartOperator
  <2> QED
    BY <1>0, <2>1, NoOutcomeMoved
<1> QED
  BY <1>1, <1>2, <1>3 DEF Operator

LEMMA OutcomeOfReporter ==
  ASSUME TypeOK, OutcomeInv, Reporter \/ RestartBroker
  PROVE  OutcomeInv'
<1> USE DEF TypeOK
<1>1. CASE ListFinished
  <2>1. UNCHANGED <<aj, job, ran, check, op>>
    BY <1>1 DEF ListFinished
  <2>2. ASSUME NEW i \in Jobs, todo'[i] # "" PROVE todo'[i] \in ran[i]
    BY <1>1, <2>2 DEF ListFinished, Reportable, OutcomeInv
  <2> QED
    BY <2>1, <2>2 DEF OutcomeInv, ConclusionTrue
<1>2. ASSUME NEW j \in Jobs, ReportCheckRun(j) PROVE OutcomeInv'
  <2>1. UNCHANGED <<aj, job, ran, op>>
    BY <1>2 DEF ReportCheckRun
  <2>2. todo[j] \in Finished /\ todo[j] \in ran[j]
    BY <1>2 DEF ReportCheckRun, OutcomeInv
  <2>3. \A i \in Jobs : todo'[i] = todo[i] \/ todo'[i] = ""
    BY <1>2 DEF ReportCheckRun
  <2>4. check' = check \/ check' = [check EXCEPT ![j] = Conclusion(todo[j])]
    BY <1>2 DEF ReportCheckRun, completeCheckRun
  <2>5. /\ Conclusion(todo[j]) = "success" => "Succeeded" \in ran[j]
        /\ Conclusion(todo[j]) = "failure" => "Failed" \in ran[j]
    BY <2>2 DEF Conclusion, Finished
  <2>6. ConclusionTrue'
    BY <2>1, <2>4, <2>5 DEF OutcomeInv, ConclusionTrue
  <2> QED
    BY <2>1, <2>3, <2>6 DEF OutcomeInv
<1>3. CASE MarkReported
  <2>1. UNCHANGED <<job, ran, check, op, todo>>
    BY <1>3 DEF MarkReported
  <2>2. marking \in Jobs
    BY <1>3 DEF MarkReported
  <2>3. aj' = aj \/ aj' = [aj EXCEPT ![marking].reported = TRUE]
    BY <1>3 DEF MarkReported
  <2>4. ASSUME NEW i \in Jobs PROVE aj'[i].phase = aj[i].phase
    <3>1. aj'[i] = aj[i] \/ aj'[i] = [aj[i] EXCEPT !.reported = TRUE]
      BY <2>2, <2>3
    <3> QED
      BY <3>1, ObjectUpdate
  <2> QED
    BY <2>1, <2>4, NoOutcomeMoved
<1>4. CASE RestartBroker
  <2>1. UNCHANGED <<aj, job, ran, check, op>> /\ \A i \in Jobs : todo'[i] = ""
    BY <1>4 DEF RestartBroker
  <2> QED
    BY <2>1, NoOutcomeMoved
<1> QED
  BY <1>1, <1>2, <1>3, <1>4 DEF Reporter

LEMMA OutcomeOfKubernetes ==
  ASSUME TypeOK, OutcomeInv, NEW j \in Jobs,
         StartPod(j) \/ FinishPod(j) \/ ExpireJob(j) \/ DeleteAgentJob(j) \/ CollectGarbage(j)
  PROVE  OutcomeInv'
<1> USE DEF TypeOK
<1>1. CASE StartPod(j) \/ ExpireJob(j) \/ CollectGarbage(j)
  <2>1. UNCHANGED <<aj, ran, check, op, todo>>
    BY <1>1 DEF StartPod, ExpireJob, CollectGarbage
  <2>2. job' = [job EXCEPT ![j] = "running"] \/ job' = [job EXCEPT ![j] = "none"]
    BY <1>1 DEF StartPod, ExpireJob, CollectGarbage
  <2>3. \A i \in Jobs : job'[i] = job[i] \/ job'[i] \notin Finished
    BY <2>2 DEF Finished
  <2> QED
    BY <2>1, <2>3, NoOutcomeMoved
<1>2. CASE DeleteAgentJob(j)
  <2>1. UNCHANGED <<job, ran, check, op, todo>>
    BY <1>2 DEF DeleteAgentJob
  <2>2. \A i \in Jobs : aj'[i].phase = aj[i].phase \/ aj'[i].phase \notin Finished
    BY <1>2, AbsentType DEF DeleteAgentJob, Finished
  <2> QED
    BY <2>1, <2>2, NoOutcomeMoved
<1>3. CASE FinishPod(j)
  <2>1. UNCHANGED <<aj, check, op, todo>>
    BY <1>3 DEF FinishPod
  <2>2. PICK outcome \in Finished : /\ job' = [job EXCEPT ![j] = outcome]
                                    /\ ran' = [ran EXCEPT ![j] = @ \cup {outcome}]
    BY <1>3 DEF FinishPod
  <2>3. \A i \in Jobs : ran[i] \subseteq ran'[i]
    BY <2>2
  <2>4. \A i \in Jobs : job'[i] = job[i] \/ job'[i] \in ran'[i]
    BY <2>2
  <2> QED
    BY <2>1, <2>3, <2>4 DEF OutcomeInv, ConclusionTrue
<1> QED
  BY <1>1, <1>2, <1>3

LEMMA OutcomeStep == TypeInv /\ OutcomeInv /\ [Next]_vars => OutcomeInv'
<1> SUFFICES ASSUME TypeInv, OutcomeInv, [Next]_vars PROVE OutcomeInv'
  OBVIOUS
<1>1. CASE UNCHANGED vars
  BY <1>1 DEF vars, OutcomeInv, ConclusionTrue
<1>2. TypeOK
  BY DEF TypeInv
<1> QED
  BY <1>1, <1>2, OutcomeOfRequest, OutcomeOfOperator, OutcomeOfReporter, OutcomeOfKubernetes
  DEF Next

LEMMA OutcomeInit == Init => OutcomeInv
<1> SUFFICES ASSUME Init PROVE OutcomeInv
  OBVIOUS
<1>1. op.phase = ""
  BY DEF Init, Idle
<1>2. \A j \in Jobs : job[j] = "none" /\ aj[j].phase = "" /\ todo[j] = "" /\ check[j] = "none"
  BY AbsentType DEF Init
<1> QED
  BY <1>1, <1>2 DEF OutcomeInv, ConclusionTrue, Finished

-----------------------------------------------------------------------------
(* What is marked as reported *)

\* The request has not got beyond the creation of its check run.
Early(j) == req[j] \in {"idle", "check"}

\* The mark of a job is written after its check run was completed, and no request opens the
\* check run of a job that exists, is listed or has been reported.
MarkInv ==
  /\ \A j \in Jobs : aj[j].exists \/ todo[j] # "" \/ check[j] \in Told => ~Early(j)
  /\ marking # None => check[marking] \in Told
  /\ ReportedTold

LEMMA AbsentMarks == Absent.exists = FALSE /\ Absent.reported = FALSE
  BY DEF Absent

\* Requests only go on.
LEMMA EarlySteps ==
  ASSUME TypeInv, [Next]_vars, NEW i \in Jobs, Early(i)'
  PROVE  Early(i)
<1> USE DEF TypeInv, TypeOK, Early
<1>1. CASE \E j \in Jobs : BeginRequest(j) \/ Request(j)
  BY <1>1 DEF BeginRequest, Request, StartCheckRun, MintRepoToken, CreateAutoGrant, CreateAgentJob,
              OwnAutoGrant, CreateRepoTokenSecret, CreateBrokerTokenSecret, UndoCreate
<1>2. CASE RestartBroker
  BY <1>2 DEF RestartBroker
<1>3. CASE req' = req
  BY <1>3
<1>4. \/ \E j \in Jobs : BeginRequest(j) \/ Request(j)
      \/ RestartBroker
      \/ req' = req
  BY DEF Next, vars, Operator, Reporter, Reconcile, PatchStatus, Cleanup, RestartOperator,
         ListFinished, ReportCheckRun, MarkReported, StartPod, FinishPod, ExpireJob,
         DeleteAgentJob, CollectGarbage
<1> QED
  BY <1>1, <1>2, <1>3, <1>4

\* Who creates an AgentJob and who marks it.
LEMMA ObjectSteps ==
  ASSUME TypeInv, [Next]_vars, NEW i \in Jobs
  PROVE  /\ aj'[i].exists => aj[i].exists \/ ~Early(i)'
         /\ aj'[i].reported => aj[i].reported \/ (marking = i /\ check' = check)
<1> USE DEF TypeInv, TypeOK
<1>1. \/ aj' = aj
      \/ \E j \in Jobs : CreateAgentJob(j) \/ UndoCreate(j) \/ DeleteAgentJob(j)
      \/ PatchStatus \/ MarkReported
  BY DEF Next, vars, BeginRequest, Request, StartCheckRun, MintRepoToken, CreateAutoGrant,
         OwnAutoGrant, CreateRepoTokenSecret, CreateBrokerTokenSecret, Operator, Reporter,
         Reconcile, Cleanup, RestartOperator, RestartBroker, ListFinished, ReportCheckRun,
         StartPod, FinishPod, ExpireJob, CollectGarbage
<1>2. CASE aj' = aj
  BY <1>2
<1>3. ASSUME NEW j \in Jobs, CreateAgentJob(j), aj' # aj
      PROVE  /\ aj'[i].exists => aj[i].exists \/ ~Early(i)'
             /\ aj'[i].reported => aj[i].reported
  <2> DEFINE new == [Absent EXCEPT !.exists = TRUE, !.check = check[j] # "none"]
  <2>1. new.reported = FALSE
    BY DEF Absent
  <2>2. aj' = [aj EXCEPT ![j] = new] /\ req' = [req EXCEPT ![j] = "own"]
    BY <1>3 DEF CreateAgentJob
  <2> HIDE DEF new
  <2>3. CASE i = j
    <3>1. aj'[i] = new /\ req'[i] = "own"
      BY <2>2, <2>3
    <3> QED
      BY <2>1, <3>1 DEF Early
  <2>4. CASE i # j
    BY <2>2, <2>4
  <2> QED
    BY <2>3, <2>4
<1>4. ASSUME NEW j \in Jobs, UndoCreate(j) \/ DeleteAgentJob(j)
      PROVE  aj'[i] = aj[i] \/ aj'[i] = Absent
  BY <1>4 DEF UndoCreate, DeleteAgentJob
<1>5. CASE PatchStatus
  <2>1. aj' = aj \/ aj' = [aj EXCEPT ![op.job].phase = op.phase]
    BY <1>5 DEF PatchStatus
  <2>2. aj[i] \in Object
    OBVIOUS
  <2>3. aj'[i] = aj[i] \/ aj'[i] = [aj[i] EXCEPT !.phase = op.phase]
    BY <2>1
  <2>4. aj'[i].exists = aj[i].exists /\ aj'[i].reported = aj[i].reported
    BY <2>2, <2>3 DEF Object
  <2> QED
    BY <2>4
<1>6. CASE MarkReported
  <2>1. aj' = aj \/ aj' = [aj EXCEPT ![marking].reported = TRUE]
    BY <1>6 DEF MarkReported
  <2>2. aj[i] \in Object /\ check' = check
    BY <1>6 DEF MarkReported
  <2>3. aj'[i] = aj[i] \/ (marking = i /\ aj'[i] = [aj[i] EXCEPT !.reported = TRUE])
    BY <2>1
  <2>4. aj'[i].exists = aj[i].exists /\ (aj'[i].reported = aj[i].reported \/ marking = i)
    BY <2>2, <2>3 DEF Object
  <2> QED
    BY <2>2, <2>4
<1> QED
  BY <1>1, <1>2, <1>3, <1>4, <1>5, <1>6, AbsentMarks

\* Who writes a check run, and who lists a job and is about to mark it.
LEMMA ReportSteps ==
  ASSUME TypeInv, [Next]_vars, NEW i \in Jobs
  PROVE  /\ \/ check'[i] = check[i]
            \/ Early(i) /\ check'[i] \notin Told
            \/ todo[i] # "" /\ check'[i] \in Told
         /\ todo'[i] # "" => todo[i] # "" \/ aj[i].exists
         /\ marking' = i => marking = i \/ check'[i] \in Told
<1> USE DEF TypeInv, TypeOK
<1>1. \/ UNCHANGED <<check, todo, marking>>
      \/ \E j \in Jobs : StartCheckRun(j) \/ ReportCheckRun(j)
      \/ ListFinished \/ MarkReported \/ RestartBroker
  BY DEF Next, vars, BeginRequest, Request, MintRepoToken, CreateAutoGrant, CreateAgentJob,
         OwnAutoGrant, CreateRepoTokenSecret, CreateBrokerTokenSecret, UndoCreate, Operator,
         Reporter, Reconcile, PatchStatus, Cleanup, RestartOperator, StartPod, FinishPod,
         ExpireJob, DeleteAgentJob, CollectGarbage
<1>2. CASE UNCHANGED <<check, todo, marking>>
  BY <1>2
<1>3. ASSUME NEW j \in Jobs, StartCheckRun(j)
      PROVE  /\ check'[i] = check[i] \/ (Early(i) /\ check'[i] \notin Told)
             /\ UNCHANGED <<todo, marking>>
  BY <1>3 DEF StartCheckRun, createCheckRunInProgress, Early, Told
<1>4. ASSUME NEW j \in Jobs, ReportCheckRun(j)
      PROVE  /\ check'[i] = check[i] \/ (todo[i] # "" /\ check'[i] \in Told)
             /\ todo'[i] # "" => todo[i] # ""
             /\ marking' = i => marking = i \/ check'[i] \in Told
  <2>1. Conclusion(todo[j]) \in Told
    BY DEF Conclusion, Told
  <2>2. todo'[i] # "" => todo[i] # ""
    BY <1>4 DEF ReportCheckRun
  <2>3. \/ check' = check /\ marking' = marking
        \/ check' = [check EXCEPT ![j] = Conclusion(todo[j])] /\ marking' = j
    BY <1>4 DEF ReportCheckRun, completeCheckRun
  <2>4. todo[j] # ""
    BY <1>4 DEF ReportCheckRun
  <2> QED
    BY <2>1, <2>2, <2>3, <2>4
<1>5. CASE ListFinished
  BY <1>5 DEF ListFinished, Reportable
<1>6. CASE MarkReported \/ RestartBroker
  BY <1>6, ConstantsAssumption DEF MarkReported, RestartBroker
<1> QED
  BY <1>1, <1>2, <1>3, <1>4, <1>5, <1>6

LEMMA MarkStep == TypeInv /\ MarkInv /\ [Next]_vars => MarkInv'
<1> SUFFICES ASSUME TypeInv, MarkInv, [Next]_vars PROVE MarkInv'
  OBVIOUS
<1>1. ASSUME NEW i \in Jobs, aj'[i].exists \/ todo'[i] # "" \/ check'[i] \in Told, Early(i)'
      PROVE  FALSE
  <2>1. Early(i)
    BY <1>1, EarlySteps
  <2>2. ~aj[i].exists /\ ~(todo[i] # "") /\ check[i] \notin Told
    BY <2>1 DEF MarkInv
  <2> QED
    BY <1>1, <2>2, ObjectSteps, ReportSteps
<1>2. ASSUME NEW i \in Jobs, check[i] \in Told PROVE check'[i] \in Told
  BY <1>2, ReportSteps DEF MarkInv
<1>3. ASSUME marking' # None PROVE check'[marking'] \in Told
  <2>1. PICK i \in Jobs : marking' = i
    <3>1. TypeInv'
      BY TypeStep
    <3> QED
      BY <1>3, <3>1 DEF TypeInv, TypeOK
  <2>2. i # None
    BY ConstantsAssumption
  <2> QED
    BY <1>2, <2>1, <2>2, ReportSteps DEF MarkInv
<1>4. ASSUME NEW i \in Jobs, aj'[i].reported PROVE check'[i] \in Told
  <2>1. i # None
    BY ConstantsAssumption
  <2>2. check[i] \in Told
    BY <1>4, <2>1, ObjectSteps DEF MarkInv, ReportedTold
  <2> QED
    BY <1>2, <2>2
<1> QED
  BY <1>1, <1>3, <1>4 DEF MarkInv, ReportedTold

LEMMA MarkInit == Init => MarkInv
<1> SUFFICES ASSUME Init PROVE MarkInv
  OBVIOUS
<1>1. \A j \in Jobs : aj[j] = Absent /\ todo[j] = "" /\ check[j] = "none"
  BY DEF Init
<1>2. marking = None
  BY DEF Init
<1> QED
  BY <1>1, <1>2, AbsentMarks DEF MarkInv, ReportedTold, Told

-----------------------------------------------------------------------------
(* Theorems *)

\* Whatever calls fail and whenever the broker and the operator end, requests,
\* objects, the worker and the reporter's list keep their types; a worker that
\* patches or cleans up has a job.
THEOREM TypeCorrect == Spec => []TypeInv
<1> QED
  BY TypeInit, TypeStep, PTL DEF Spec

\* GitHub is told only outcomes the job has had, for any number of jobs and faults
\* and any interleaving of the requests, the operator and the reporter.
THEOREM ConclusionAlwaysTrue == Spec => []ConclusionTrue
<1>1. OutcomeInv => ConclusionTrue
  BY DEF OutcomeInv
<1> QED
  BY <1>1, TypeInit, TypeStep, OutcomeInit, OutcomeStep, PTL DEF Spec

\* A job that carries the completed-at annotation, and is therefore never reported again,
\* has been reported: GitHub shows its check run as completed, whatever calls failed
\* between the report and the mark, and no request opens that check run again.
THEOREM MarkedIsReported == Spec => []ReportedTold
<1>1. MarkInv => ReportedTold
  BY DEF MarkInv
<1> QED
  BY <1>1, TypeInit, TypeStep, MarkInit, MarkStep, PTL DEF Spec

=============================================================================

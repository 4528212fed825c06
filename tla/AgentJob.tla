------------------------------- MODULE AgentJob -------------------------------
(***************************************************************************)
(* The life of a GitHub-triggered agent job: the broker's request handler  *)
(* that creates it (handleCreateAgentJob), the operator that runs it as a  *)
(* Kubernetes Job (AgentJobReconciler), and the broker's loop that reports *)
(* its outcome to GitHub (reportCompletedCheckRuns).                       *)
(*                                                                         *)
(* A request makes up a fresh name for its job, so a request, its AgentJob,*)
(* Job, Secrets, autogrant and check run share an index; a caller that     *)
(* names its job, and may so repeat a request, is left out.  The           *)
(* operator's Update of a Job fails on a stale read and the answer is what *)
(* it goes on with, so its reads are taken to be current.                  *)
(***************************************************************************)
EXTENDS Integers, FiniteSets

CONSTANTS
  Jobs,            \* requests, and what belongs to them
  MaxConcurrent,   \* AGENT_MAX_CONCURRENT, 0: no cap
  TemplateMutable, \* the API server accepts the operator's updates of a Job
  MaxFaults,       \* bound: failed calls, ends of the broker or the operator
  None

ASSUME ConstantsAssumption ==
  /\ MaxConcurrent \in Nat
  /\ TemplateMutable \in BOOLEAN
  /\ MaxFaults \in Nat
  /\ None \notin Jobs

VARIABLES
  req,    \* control state of each request
  aj,     \* the AgentJob objects
  grant,  \* the autogrants: whether there is one and the AgentJob owns it
  gh,     \* jobs whose repo token Secret exists
  br,     \* jobs whose broker token Secret exists
  job,    \* the Job of each AgentJob
  ran,    \* the outcomes each job has had
  check,  \* GitHub's check runs
  queue,  \* the operator's workqueue
  op,     \* the operator's worker: step, job, phase
  todo,   \* the reporter's list: the phase that is to be reported
  marking, \* the job whose check run was completed and that is not marked yet
  faults

vars == <<req, aj, grant, gh, br, job, ran, check, queue, op, todo, marking, faults>>

Finished == {"Succeeded", "Failed"}

RequestPC == {"idle", "check", "mint", "grant", "create", "own", "repo token",
              "broker token", "undo", "over"}

\* check: the check-run-id annotation; reported: the completed-at annotation.
Object == [exists: BOOLEAN, phase: {"", "Running"} \cup Finished, check: BOOLEAN,
           reported: BOOLEAN]

Absent == [exists |-> FALSE, phase |-> "", check |-> FALSE, reported |-> FALSE]

Idle == [pc |-> "idle", job |-> None, phase |-> ""]

Fault == faults < MaxFaults /\ faults' = faults + 1

\* Watch events for an AgentJob and the Job it owns put it into the queue.
Enqueue(j) == queue' = queue \cup {j}

-----------------------------------------------------------------------------
(* handleCreateAgentJob *)

\* AgentJobs that count for the caps.
Active == {j \in Jobs : aj[j].exists /\ aj[j].phase \notin Finished}

\* The cap is checked against a listing; then GitHub is asked for the head commit.
BeginRequest(j) ==
  /\ req[j] = "idle"
  /\ \/ /\ MaxConcurrent > 0 => Cardinality(Active) < MaxConcurrent
        /\ req' = [req EXCEPT ![j] = "check"]
     \/ req' = [req EXCEPT ![j] = "over"]
  /\ UNCHANGED <<aj, grant, gh, br, job, ran, check, queue, op, todo, marking, faults>>

createCheckRunInProgress(j) == check' = [check EXCEPT ![j] = "in_progress"]

\* A failure to create the check run is logged and dropped.
StartCheckRun(j) ==
  /\ req[j] = "check"
  /\ req' = [req EXCEPT ![j] = "mint"]
  /\ \/ createCheckRunInProgress(j) /\ UNCHANGED faults
     \/ Fault /\ UNCHANGED check
  /\ UNCHANGED <<aj, grant, gh, br, job, ran, queue, op, todo, marking>>

MintRepoToken(j) ==
  /\ req[j] = "mint"
  /\ \/ req' = [req EXCEPT ![j] = "grant"] /\ UNCHANGED faults
     \/ req' = [req EXCEPT ![j] = "over"] /\ Fault
  /\ UNCHANGED <<aj, grant, gh, br, job, ran, check, queue, op, todo, marking>>

CreateAutoGrant(j) ==
  /\ req[j] = "grant"
  /\ \/ /\ req' = [req EXCEPT ![j] = "create"]
        /\ grant' = [grant EXCEPT ![j] = "loose"]
        /\ UNCHANGED faults
     \/ /\ req' = [req EXCEPT ![j] = "over"]
        /\ Fault
        /\ UNCHANGED grant
  /\ UNCHANGED <<aj, gh, br, job, ran, check, queue, op, todo, marking>>

CreateAgentJob(j) ==
  /\ req[j] = "create"
  /\ \/ /\ req' = [req EXCEPT ![j] = "own"]
        /\ aj' = [aj EXCEPT ![j] = [Absent EXCEPT !.exists = TRUE,
                                                  !.check = check[j] # "none"]]
        /\ Enqueue(j)
        /\ UNCHANGED faults
     \/ /\ req' = [req EXCEPT ![j] = "over"]
        /\ Fault
        /\ UNCHANGED <<aj, queue>>
  /\ UNCHANGED <<grant, gh, br, job, ran, check, op, todo, marking>>

\* The owner reference is patched into the autogrant; an error is dropped.
OwnAutoGrant(j) ==
  /\ req[j] = "own"
  /\ req' = [req EXCEPT ![j] = "repo token"]
  /\ \/ /\ grant' = [grant EXCEPT ![j] = IF @ = "loose" THEN "owned" ELSE @]
        /\ UNCHANGED faults
     \/ Fault /\ UNCHANGED grant
  /\ UNCHANGED <<aj, gh, br, job, ran, check, queue, op, todo, marking>>

CreateRepoTokenSecret(j) ==
  /\ req[j] = "repo token"
  /\ \/ /\ req' = [req EXCEPT ![j] = "broker token"]
        /\ gh' = gh \cup {j}
        /\ UNCHANGED faults
     \/ req' = [req EXCEPT ![j] = "undo"] /\ Fault /\ UNCHANGED gh
  /\ UNCHANGED <<aj, grant, br, job, ran, check, queue, op, todo, marking>>

CreateBrokerTokenSecret(j) ==
  /\ req[j] = "broker token"
  /\ \/ /\ req' = [req EXCEPT ![j] = "over"]
        /\ br' = br \cup {j}
        /\ UNCHANGED faults
     \/ req' = [req EXCEPT ![j] = "undo"] /\ Fault /\ UNCHANGED br
  /\ UNCHANGED <<aj, grant, gh, job, ran, check, queue, op, todo, marking>>

\* Without its credentials the AgentJob is deleted again; an error is dropped.
UndoCreate(j) ==
  /\ req[j] = "undo"
  /\ req' = [req EXCEPT ![j] = "over"]
  /\ \/ aj' = [aj EXCEPT ![j] = Absent] /\ Enqueue(j) /\ UNCHANGED faults
     \/ Fault /\ UNCHANGED <<aj, queue>>
  /\ UNCHANGED <<grant, gh, br, job, ran, check, op, todo, marking>>

-----------------------------------------------------------------------------
(* AgentJobReconciler.Reconcile *)

PhaseOf(state) == IF state \in Finished THEN state ELSE "Running"

\* The pod template of a new Job: its checkout container waits for the repo token.
NewJob == "waiting"

\* Get, then CreateOrUpdate. A Job that is not there is created; one that is there
\* is updated, with a pod template that lacks what the API server added to it.
Reconcile(j) ==
  /\ op.pc = "idle"
  /\ j \in queue
  /\ \/ /\ ~aj[j].exists
        /\ queue' = queue \ {j}
        /\ UNCHANGED <<job, op, faults>>
     \/ /\ aj[j].exists /\ job[j] = "none"
        /\ job' = [job EXCEPT ![j] = NewJob]
        /\ op' = [pc |-> "status", job |-> j, phase |-> "Running"]
        /\ Enqueue(j)
        /\ UNCHANGED faults
     \/ /\ aj[j].exists /\ job[j] # "none" /\ TemplateMutable
        /\ op' = [pc |-> "status", job |-> j, phase |-> PhaseOf(job[j])]
        /\ queue' = queue \ {j}
        /\ UNCHANGED <<job, faults>>
     \/ /\ aj[j].exists /\ job[j] # "none" /\ ~TemplateMutable
        /\ UNCHANGED <<job, op, queue, faults>>
     \/ /\ aj[j].exists /\ Fault
        /\ UNCHANGED <<job, op, queue>>
  /\ UNCHANGED <<req, aj, grant, gh, br, ran, check, todo, marking>>

\* The status is patched if it differs; an error is dropped.
PatchStatus ==
  LET j == op.job
  IN  /\ op.pc = "status"
      /\ op' = IF op.phase \in Finished THEN [op EXCEPT !.pc = "cleanup"] ELSE Idle
      /\ \/ /\ aj[j].exists /\ aj[j].phase # op.phase
            /\ aj' = [aj EXCEPT ![j].phase = op.phase]
            /\ Enqueue(j)
            /\ UNCHANGED faults
         \/ /\ ~aj[j].exists \/ aj[j].phase = op.phase
            /\ UNCHANGED <<aj, queue, faults>>
         \/ Fault /\ UNCHANGED <<aj, queue>>
      /\ UNCHANGED <<req, grant, gh, br, job, ran, check, todo, marking>>

\* Secrets and autogrant are deleted; each error is dropped.
Cleanup ==
  LET j == op.job
  IN  /\ op.pc = "cleanup"
      /\ op' = Idle
      /\ \E kept \in SUBSET {"gh", "br", "grant"} :
           /\ IF kept = {} THEN UNCHANGED faults ELSE Fault
           /\ gh' = IF "gh" \in kept THEN gh ELSE gh \ {j}
           /\ br' = IF "br" \in kept THEN br ELSE br \ {j}
           /\ grant' = IF "grant" \in kept THEN grant ELSE [grant EXCEPT ![j] = "none"]
      /\ UNCHANGED <<req, aj, job, ran, check, queue, todo, marking>>

\* The operator ends and starts; its informers list everything.
RestartOperator ==
  /\ Fault
  /\ op' = Idle
  /\ queue' = {j \in Jobs : aj[j].exists}
  /\ UNCHANGED <<req, aj, grant, gh, br, job, ran, check, todo, marking>>

-----------------------------------------------------------------------------
(* reportCompletedCheckRuns *)

ReporterIdle == marking = None /\ \A j \in Jobs : todo[j] = ""

Reportable(j) ==
  /\ aj[j].exists /\ aj[j].check /\ ~aj[j].reported
  /\ aj[j].phase \in Finished

\* Mutant: a job that failed is not in the list.
ListSucceeded ==
  LET listed(j) == Reportable(j) /\ aj[j].phase = "Succeeded"
  IN  /\ ReporterIdle
      /\ \E j \in Jobs : listed(j)
      /\ todo' = [j \in Jobs |-> IF listed(j) THEN aj[j].phase ELSE ""]
      /\ UNCHANGED <<req, aj, grant, gh, br, job, ran, check, queue, op, marking, faults>>

ListFinished ==
  /\ ReporterIdle
  /\ \E j \in Jobs : Reportable(j)
  /\ todo' = [j \in Jobs |-> IF Reportable(j) THEN aj[j].phase ELSE ""]
  /\ UNCHANGED <<req, aj, grant, gh, br, job, ran, check, queue, op, marking, faults>>

\* Mutant: the initial value is kept.
ConclusionKept(phase) == "success"

Conclusion(phase) == IF phase = "Failed" THEN "failure" ELSE "success"

completeCheckRun(j, conclusion) == check' = [check EXCEPT ![j] = conclusion]

\* Mutant: the job is marked although GitHub could not be reached.
ReportCheckRunMarking(j) ==
  /\ marking = None
  /\ todo[j] # ""
  /\ todo' = [todo EXCEPT ![j] = ""]
  /\ marking' = j
  /\ \/ completeCheckRun(j, Conclusion(todo[j])) /\ UNCHANGED faults
     \/ Fault /\ UNCHANGED check
  /\ UNCHANGED <<req, aj, grant, gh, br, job, ran, queue, op>>

\* On an error the loop goes on to the next job.
ReportCheckRun(j) ==
  /\ marking = None
  /\ todo[j] # ""
  /\ todo' = [todo EXCEPT ![j] = ""]
  /\ \/ /\ completeCheckRun(j, Conclusion(todo[j]))
        /\ marking' = j
        /\ UNCHANGED faults
     \/ Fault /\ UNCHANGED <<check, marking>>
  /\ UNCHANGED <<req, aj, grant, gh, br, job, ran, queue, op>>

\* The annotation is patched; an error is logged, and the next round reports again.
MarkReported ==
  /\ marking # None
  /\ marking' = None
  /\ \/ /\ aj[marking].exists
        /\ aj' = [aj EXCEPT ![marking].reported = TRUE]
        /\ Enqueue(marking)
        /\ UNCHANGED faults
     \/ ~aj[marking].exists /\ UNCHANGED <<aj, queue, faults>>
     \/ Fault /\ UNCHANGED <<aj, queue>>
  /\ UNCHANGED <<req, grant, gh, br, job, ran, check, op, todo>>

\* The broker ends and starts; requests under way are lost. A request whose client
\* goes away fares the same, because its calls share the request's context.
RestartBroker ==
  /\ Fault
  /\ req' = [j \in Jobs |-> IF req[j] = "idle" THEN "idle" ELSE "over"]
  /\ todo' = [j \in Jobs |-> ""]
  /\ marking' = None
  /\ UNCHANGED <<aj, grant, gh, br, job, ran, check, queue, op>>

-----------------------------------------------------------------------------
(* Kubernetes *)

\* The checkout container cannot start without the repo token Secret.
StartPod(j) ==
  /\ job[j] = "waiting"
  /\ j \in gh
  /\ job' = [job EXCEPT ![j] = "running"]
  /\ UNCHANGED <<req, aj, grant, gh, br, ran, check, queue, op, todo, marking, faults>>

FinishPod(j) ==
  /\ job[j] = "running"
  /\ \E outcome \in Finished :
       /\ job' = [job EXCEPT ![j] = outcome]
       /\ ran' = [ran EXCEPT ![j] = @ \cup {outcome}]
  /\ Enqueue(j)
  /\ UNCHANGED <<req, aj, grant, gh, br, check, op, todo, marking, faults>>

\* ttlSecondsAfterFinished has passed, whether the operator has seen the Job finish or not.
ExpireJob(j) ==
  /\ job[j] \in Finished
  /\ job' = [job EXCEPT ![j] = "none"]
  /\ Enqueue(j)
  /\ UNCHANGED <<req, aj, grant, gh, br, ran, check, op, todo, marking, faults>>

DeleteAgentJob(j) ==
  /\ aj[j].exists
  /\ aj' = [aj EXCEPT ![j] = Absent]
  /\ Enqueue(j)
  /\ UNCHANGED <<req, grant, gh, br, job, ran, check, op, todo, marking, faults>>

\* What an AgentJob that is gone owned is garbage.
CollectGarbage(j) ==
  /\ ~aj[j].exists
  /\ j \in gh \cup br \/ grant[j] = "owned" \/ job[j] # "none"
  /\ gh' = gh \ {j}
  /\ br' = br \ {j}
  /\ grant' = [grant EXCEPT ![j] = IF @ = "owned" THEN "none" ELSE @]
  /\ job' = [job EXCEPT ![j] = "none"]
  /\ UNCHANGED <<req, aj, ran, check, queue, op, todo, marking, faults>>

-----------------------------------------------------------------------------

Init ==
  /\ req = [j \in Jobs |-> "idle"]
  /\ aj = [j \in Jobs |-> Absent]
  /\ grant = [j \in Jobs |-> "none"]
  /\ gh = {} /\ br = {}
  /\ job = [j \in Jobs |-> "none"]
  /\ ran = [j \in Jobs |-> {}]
  /\ check = [j \in Jobs |-> "none"]
  /\ queue = {}
  /\ op = Idle
  /\ todo = [j \in Jobs |-> ""]
  /\ marking = None
  /\ faults = 0

Request(j) ==
  \/ StartCheckRun(j) \/ MintRepoToken(j) \/ CreateAutoGrant(j) \/ CreateAgentJob(j)
  \/ OwnAutoGrant(j) \/ CreateRepoTokenSecret(j) \/ CreateBrokerTokenSecret(j)
  \/ UndoCreate(j)

Operator == (\E j \in Jobs : Reconcile(j)) \/ PatchStatus \/ Cleanup

Reporter == ListFinished \/ (\E j \in Jobs : ReportCheckRun(j)) \/ MarkReported

Next ==
  \/ \E j \in Jobs : \/ BeginRequest(j) \/ Request(j)
                     \/ StartPod(j) \/ FinishPod(j) \/ ExpireJob(j)
                     \/ DeleteAgentJob(j) \/ CollectGarbage(j)
  \/ Operator \/ Reporter \/ RestartOperator \/ RestartBroker

Spec == Init /\ [][Next]_vars

\* The operator serves its queue in turn, the reporter's ticker goes on, the
\* garbage collector and the kubelet do their work.
Fairness ==
  /\ \A j \in Jobs : /\ WF_vars(Request(j))
                     /\ WF_vars(Reconcile(j))
                     /\ WF_vars(StartPod(j)) /\ WF_vars(CollectGarbage(j))
  /\ WF_vars(PatchStatus \/ Cleanup)
  /\ WF_vars(Reporter)

FairSpec == Spec /\ Fairness

-----------------------------------------------------------------------------
(* Properties *)

TypeOK ==
  /\ req \in [Jobs -> RequestPC]
  /\ aj \in [Jobs -> Object]
  /\ grant \in [Jobs -> {"none", "loose", "owned"}]
  /\ gh \subseteq Jobs /\ br \subseteq Jobs
  /\ job \in [Jobs -> {"none", "waiting", "running"} \cup Finished]
  /\ ran \in [Jobs -> SUBSET Finished]
  /\ check \in [Jobs -> {"none", "in_progress", "success", "failure"}]
  /\ queue \subseteq Jobs
  /\ op \in [pc: {"idle", "status", "cleanup"}, job: Jobs \cup {None},
             phase: {"", "Running"} \cup Finished]
  /\ todo \in [Jobs -> {""} \cup Finished]
  /\ marking \in Jobs \cup {None}
  /\ faults \in 0..MaxFaults

\* GitHub is never told an outcome the job did not have, although the report works
\* from a listing, is repeated when its mark is lost, and the job may meanwhile
\* have been deleted or started again.
ConclusionTrue ==
  \A j \in Jobs : /\ check[j] = "success" => "Succeeded" \in ran[j]
                  /\ check[j] = "failure" => "Failed" \in ran[j]

\* A check run that is completed.
Told == {"success", "failure"}

\* A job with the completed-at annotation, which the reporter passes over from then on,
\* has been reported: the report and the mark are two calls that fail apart, and what
\* is marked may meanwhile have been started again.
ReportedTold == \A j \in Jobs : aj[j].reported => check[j] \in Told

\* A finished job is reported to GitHub although a call fails, unless the AgentJob
\* is deleted or starts again.
ReportedOrRerun ==
  \A j \in Jobs : Reportable(j) ~>
    check[j] \in Told \/ ~aj[j].exists \/ aj[j].phase = "Running"

-----------------------------------------------------------------------------
(* What a comment or a document says and the code does not do *)

\* "Cleanup secrets + auto-grants after completion ... we want them gone ASAP on
\* success/failure": the repo token and the autogrant of a finished job go, also
\* when a call fails or the operator is restarted in between.
CredentialsRetired ==
  \A j \in Jobs : job[j] \in Finished ~> j \notin gh /\ grant[j] # "owned"

\* docs/cost.md: "The capability broker enforces caps for GitHub-triggered jobs".
ConcurrencyCap == Cardinality(Active) <= MaxConcurrent

\* docs/github.md: "a reporter loop marks it completed when the AgentJob finishes".
CheckRunReported ==
  \A j \in Jobs : Reportable(j) ~> check[j] \in Told \/ ~aj[j].exists

\* handleCreateAgentJob: "Cleanup best-effort so we don't strand jobs without
\* checkout creds": when nothing has failed, a Job that waits to start has its
\* repo token, or the request that brings it is under way.
NotStranded ==
  \A j \in Jobs : faults = 0 /\ aj[j].exists /\ req[j] = "over" /\ job[j] = "waiting" =>
    j \in gh

=============================================================================
